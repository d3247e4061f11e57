--------------------------- MODULE KadStoreProofs ---------------------------
(* Proofs about KadStore for any keys, hosts and peers. *)
EXTENDS KadStore, TLAPS

(* Every value keeps its shape, through panics and restarts.               *)
THEOREM TypeCorrect == Spec => []TypeOK
<1> USE DEF db, NoAnswer, Panics
<1>1. Init => TypeOK
  BY DEF Init, TypeOK
<1>2. TypeOK /\ [Next]_vars => TypeOK'
  <2> SUFFICES ASSUME TypeOK, [Next]_vars PROVE TypeOK'
    OBVIOUS
  <2>1. ASSUME NEW k \in Keys, NEW v \in Hosts \cup {NotText}, Put(k, v)
        PROVE  TypeOK'
    BY <2>1 DEF Put, Panic, TypeOK
  <2>2. ASSUME NEW k \in Keys, NEW p \in Provider, AddProvider(k, p)
        PROVE  TypeOK'
    BY <2>2 DEF AddProvider, TypeOK
  <2>3. ASSUME NEW k \in Keys, Get(k) PROVE TypeOK'
    BY <2>3 DEF Get, TypeOK
  <2>4. ASSUME NEW k \in Keys, Remove(k) PROVE TypeOK'
    BY <2>4 DEF Remove, Panic, TypeOK
  <2>5. ASSUME NEW k \in Keys, RemoveProvider(k) PROVE TypeOK'
    BY <2>5 DEF RemoveProvider, Panic, TypeOK
  <2>6. ASSUME NEW k \in Keys, Providers(k) PROVE TypeOK'
    BY <2>6 DEF Providers, Panic, TypeOK, vars
  <2>7. CASE Records \/ Provided \/ Restart
    BY <2>7 DEF Records, Provided, Restart, Panic, TypeOK, vars
  <2>8. CASE UNCHANGED vars
    BY <2>8 DEF vars, TypeOK
  <2> QED BY <2>1, <2>2, <2>3, <2>4, <2>5, <2>6, <2>7, <2>8 DEF Next
<1> QED BY <1>1, <1>2, PTL DEF Spec

(* The reason for the next theorem: no operation ever commits a table.     *)
NothingCommitted == tables = {} /\ DecodeIsNeverReached

(* No operation reaches the decoding of addresses (tables.rs:148), since   *)
(* the providers table never comes into being.                             *)
THEOREM DecodeUnreachable == Spec => []DecodeIsNeverReached
<1>1. Init => NothingCommitted
  BY DEF Init, NothingCommitted, DecodeIsNeverReached
<1>2. NothingCommitted /\ [Next]_vars => NothingCommitted'
  <2> SUFFICES ASSUME NothingCommitted, [Next]_vars PROVE NothingCommitted'
    OBVIOUS
  <2> USE DEF NothingCommitted, DecodeIsNeverReached, Panic, db
  <2>1. ASSUME NEW k \in Keys,
               \/ \E v \in Hosts \cup {NotText} : Put(k, v)
               \/ \E p \in Provider : AddProvider(k, p)
               \/ Get(k)
        PROVE  NothingCommitted'
    BY <2>1 DEF Put, AddProvider, Get
  <2>2. ASSUME NEW k \in Keys, Remove(k) \/ RemoveProvider(k) \/ Providers(k)
        PROVE  NothingCommitted'
    BY <2>2 DEF Remove, RemoveProvider, Providers, vars
  <2>3. CASE Records \/ Provided \/ Restart
    BY <2>3 DEF Records, Provided, Restart
  <2>4. CASE UNCHANGED vars
    BY <2>4 DEF vars
  <2> QED BY <2>1, <2>2, <2>3, <2>4 DEF Next
<1>3. NothingCommitted => DecodeIsNeverReached
  BY DEF NothingCommitted
<1> QED BY <1>1, <1>2, <1>3, PTL DEF Spec

-----------------------------------------------------------------------------
(* The store of a server that was never told anything. *)
NothingStored ==
    /\ tables = {}
    /\ records = [k \in Keys |-> None]
    /\ provided = [k \in Keys |-> NoProvider]

NothingFound == answer.host = None

(* PutIsReadBack fails in a run; this says how far.  Whatever is put, for  *)
(* whichever key, provided, removed or restarted, the database stays as it *)
(* was created and every get() finds nothing: the store implements an      *)
(* empty one, its Ok(())s notwithstanding (kad_store.rs:216-282).          *)
THEOREM StoreStaysEmpty == Spec => [](NothingStored /\ NothingFound)
<1> DEFINE Inv == NothingStored /\ NothingFound
<1>1. Init => Inv
  BY DEF Init, NothingStored, NothingFound, NoAnswer
<1>2. Inv /\ [Next]_vars => Inv'
  <2> SUFFICES ASSUME Inv, [Next]_vars PROVE Inv'
    OBVIOUS
  <2> USE DEF NothingStored, NothingFound, NoAnswer, Panic, db
  <2>1. ASSUME NEW k \in Keys, NEW v, Put(k, v) PROVE Inv'
    BY <2>1 DEF Put
  <2>2. ASSUME NEW k \in Keys, NEW p, AddProvider(k, p) PROVE Inv'
    BY <2>2 DEF AddProvider
  <2>3. ASSUME NEW k \in Keys, Get(k) PROVE Inv'
    BY <2>3 DEF Get
  <2>4. ASSUME NEW k \in Keys, Remove(k) \/ RemoveProvider(k) \/ Providers(k)
        PROVE  Inv'
    BY <2>4 DEF Remove, RemoveProvider, Providers, vars
  <2>5. CASE Records \/ Provided \/ Restart
    BY <2>5 DEF Records, Provided, Restart, vars
  <2>6. CASE UNCHANGED vars
    BY <2>6 DEF vars
  <2> QED BY <2>1, <2>2, <2>3, <2>4, <2>5, <2>6 DEF Next
<1> QED BY <1>1, <1>2, PTL DEF Spec

(* What follows for the task: an iteration over the records or over the    *)
(* providers, which Kademlia starts to replicate them, never gets past     *)
(* opening its table and always ends the task that runs it, which is       *)
(* P2pEventLoop!StorePanic (kad_store.rs:126-145, 168-186).                *)
THEOREM IterationsPanic == Spec => [][Records \/ Provided => task' = "panic_open"]_vars
<1>1. NothingStored /\ (Records \/ Provided) => task' = "panic_open"
  BY DEF NothingStored, Records, Provided, Panic
<1> QED BY <1>1, StoreStaysEmpty, PTL DEF Spec
=============================================================================
