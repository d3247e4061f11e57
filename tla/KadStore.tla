------------------------------ MODULE KadStore ------------------------------
(***************************************************************************)
(* RedbStorage (src/wit-server/src/server/p2p/kad_store.rs): the record    *)
(* store that Kademlia is given, kept in two tables of a redb database.    *)
(* Kademlia, inside the event loop's task, calls the operations; redb runs *)
(* a write transaction atomically and forgets one that is dropped without  *)
(* commit(), the tables it opened for the first time included.             *)
(***************************************************************************)
CONSTANTS
    Keys,           \* entry keys: a path and a version (module EntryKey)
    Hosts,          \* values of records
    NotText,        \* a value that is not UTF-8; other servers put any bytes
    Peers,          \* providers
    None            \* no value

ASSUME NoneAssumption == None \notin Keys \cup Hosts \cup Peers

VARIABLES
    tables,         \* the tables that exist in the committed database
    records,        \* committed rows of file_rev_records
    provided,       \* committed rows of providers, one provider per key
    task,           \* the task that runs Kademlia
    promised,       \* the records whose put() returned Ok, last one per key
    answer          \* the last result of get(), until the next write

db == <<tables, records, provided>>
vars == <<tables, records, provided, task, promised, answer>>

-----------------------------------------------------------------------------
RECORD_TABLE == "file_rev_records"
PROVIDER_TABLE == "providers"

(* KadProviderEntryValue: the peer and whether any address comes with it. *)
Provider == [peer : Peers, addressed : BOOLEAN]

NoProvider == [peer |-> None, addressed |-> FALSE]

NoAnswer == [key |-> None, host |-> None]

Panics == {"panic_open", "panic_write", "panic_value", "panic_decode"}

TypeOK ==
    /\ tables \subseteq {RECORD_TABLE, PROVIDER_TABLE}
    /\ records \in [Keys -> Hosts \cup {None}]
    /\ provided \in [Keys -> Provider \cup {NoProvider}]
    /\ task \in {"running"} \cup Panics
    /\ promised \in [Keys -> Hosts \cup {None}]
    /\ answer \in [key : Keys \cup {None}, host : Hosts \cup {None}]

(* Database::create on a new file *)
Init ==
    /\ tables = {}
    /\ records = [k \in Keys |-> None]
    /\ provided = [k \in Keys |-> NoProvider]
    /\ task = "running"
    /\ promised = [k \in Keys |-> None]
    /\ answer = NoAnswer

Running == task = "running"

Panic(cause) == task' = cause /\ UNCHANGED <<db, promised>> /\ answer' = NoAnswer

-----------------------------------------------------------------------------
(* The value is unwrapped as text (tables.rs:98); then begin_write,        *)
(* open_table, insert.  The transaction is dropped at the end of the       *)
(* function, so the insertion is undone whatever is returned.              *)
Put(k, v) ==
    /\ Running
    /\ \/ v = NotText /\ Panic("panic_value")
       \/ /\ v # NotText
          /\ promised' \in {[promised EXCEPT ![k] = v],   \* Ok(())
                            promised}                     \* a redb error
          /\ answer' = NoAnswer
          /\ UNCHANGED <<db, task>>

(* begin_write, open_table, remove, each unwrapped, and dropped like put's. *)
Remove(k) ==
    /\ Running
    /\ \/ /\ promised' = [promised EXCEPT ![k] = None]
          /\ answer' = NoAnswer
          /\ UNCHANGED <<db, task>>
       \/ Panic("panic_write")

Get(k) ==
    /\ Running
    /\ answer' = [key |-> k,
                  host |-> IF RECORD_TABLE \in tables THEN records[k] ELSE None]
    /\ UNCHANGED <<db, task, promised>>

(* Mutant of AddProvider: with the commit() that the code leaves out. *)
AddProviderCommits(k, p) ==
    /\ Running
    /\ tables' = tables \cup {PROVIDER_TABLE}
    /\ provided' = [provided EXCEPT ![k] = p]
    /\ answer' = NoAnswer
    /\ UNCHANGED <<records, task, promised>>

(* As put(): nothing of it is in the database afterwards. *)
AddProvider(k, p) ==
    /\ Running
    /\ answer' = NoAnswer
    /\ UNCHANGED <<db, task, promised>>

RemoveProvider(k) ==
    /\ Running
    /\ \/ answer' = NoAnswer /\ UNCHANGED <<db, task, promised>>
       \/ Panic("panic_write")

(* addresses() starts one byte early, at the count, and reads binary       *)
(* addresses as text: it panics unless there is no address.                *)
Undecodable(k) == provided[k].addressed

Providers(k) ==
    /\ Running
    /\ IF PROVIDER_TABLE \in tables /\ Undecodable(k)
       THEN Panic("panic_decode")
       ELSE UNCHANGED vars

(* The iterators unwrap the error of opening a table that does not exist.  *)
Records ==
    /\ Running
    /\ IF RECORD_TABLE \in tables THEN UNCHANGED vars ELSE Panic("panic_open")

Provided ==
    /\ Running
    /\ IF PROVIDER_TABLE \notin tables THEN Panic("panic_open")
       ELSE IF \E k \in Keys : Undecodable(k) THEN Panic("panic_decode")
       ELSE UNCHANGED vars

(* The server process is started again, after a crash or a panic: what was *)
(* committed is there.                                                     *)
Restart ==
    /\ task' = "running"
    /\ answer' = NoAnswer
    /\ UNCHANGED <<db, promised>>

Next ==
    \/ \E k \in Keys : \/ \E v \in Hosts \cup {NotText} : Put(k, v)
                       \/ \E p \in Provider : AddProvider(k, p)
                       \/ Get(k)
                       \/ Remove(k)
                       \/ Providers(k)
                       \/ RemoveProvider(k)
    \/ Records
    \/ Provided
    \/ Restart

Spec == Init /\ [][Next]_vars

-----------------------------------------------------------------------------
(* Two defects hide each other: the decoding of addresses in tables.rs:154 *)
(* would end the event loop's task at the first lookup of a provider with  *)
(* an address, and is out of reach only because no write is ever committed *)
(* (kad_store.rs:263-306).                                                 *)
DecodeIsNeverReached == task # "panic_decode"

(* A put() that returned Ok is read back by the next get() of its key, as  *)
(* a store that is chosen for being ACID should (kad_store.rs:227-244).    *)
PutIsReadBack == answer.key # None => answer.host = promised[answer.key]
=============================================================================
