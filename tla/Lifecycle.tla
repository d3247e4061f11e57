----------------------------- MODULE Lifecycle -----------------------------
(***************************************************************************)
(* The commands of wit-server (src/wit-server/src/main.rs) on one storage  *)
(* directory: init, connect and the server itself, as processes that run   *)
(* at the same time and can be killed between any two of their steps.      *)
(* They share the git repository, WitConfig.toml (config.rs), the name     *)
(* that single_instance locks and the redb file (server/mod.rs).           *)
(***************************************************************************)
CONSTANTS
    Procs,          \* shells, each of which runs one command after another
    Names,          \* paths of the directory: ".", "/srv/wiki", ...
    Ids,            \* identities (id and key pair); bounds the files created
    Addresses,      \* addresses of other servers
    None            \* no process, no identity, no address

ASSUME NoneAssumption == None \notin Procs \cup Ids \cup Addresses

VARIABLES
    repo,           \* the repository: "none", "empty", or with a "main" branch
    file,           \* WitConfig.toml
    instance,       \* the process that holds each name of the directory
    store,          \* the process that has the redb database open
    pc,             \* where each process is
    name,           \* the path it was given
    config,         \* the configuration it has in memory
    address,        \* the address a connect was given
    issued,         \* identities that were ever written
    served,         \* identities servers ran with
    registered,     \* addresses whose connect ended with exit code 0
    mishaps         \* what went wrong with the configuration file so far

locks == <<instance, store>>
procVars == <<pc, name, config, address>>
history == <<issued, served, registered, mishaps>>
vars == <<repo, file, locks, procVars, history>>

-----------------------------------------------------------------------------
Config == [id : Ids, peers : SUBSET Addresses]

NoConfig == [id |-> None, peers |-> {}]

(* A file is whole if toml::from_str accepts it. *)
File == [state : {"whole"}, config : Config]
            \cup [state : {"absent", "empty", "garbled"}, config : {NoConfig}]

Without(state) == [state |-> state, config |-> NoConfig]

Whole(cfg) == [state |-> "whole", config |-> cfg]

InitSteps == {"init_repo", "create_metadata", "write_metadata",
              "remove_metadata", "first_commit"}

RunSteps == {"read_config", "lock_instance", "open_store", "serving"}

ConnectSteps == {"read_registry", "truncate", "update", "detached"}

TypeOK ==
    /\ repo \in {"none", "empty", "main"}
    /\ file \in File
    /\ instance \in [Names -> Procs \cup {None}]
    /\ store \in Procs \cup {None}
    /\ pc \in [Procs -> {"idle"} \cup InitSteps \cup RunSteps \cup ConnectSteps]
    /\ name \in [Procs -> Names]
    /\ config \in [Procs -> Config \cup {NoConfig}]
    /\ address \in [Procs -> Addresses \cup {None}]
    /\ issued \subseteq Ids
    /\ served \subseteq issued
    /\ registered \subseteq Addresses
    /\ mishaps \subseteq {"create_failed", "update_failed", "overlap"}

Init ==
    /\ repo = "none"
    /\ file = Without("absent")
    /\ instance = [n \in Names |-> None]
    /\ store = None
    /\ pc = [p \in Procs |-> "idle"]
    /\ name \in [Procs -> Names]
    /\ config = [p \in Procs |-> NoConfig]
    /\ address = [p \in Procs |-> None]
    /\ issued = {} /\ served = {} /\ registered = {} /\ mishaps = {}

-----------------------------------------------------------------------------
Goto(p, step) == pc' = [pc EXCEPT ![p] = step]

(* The process ends, with whatever exit code: the kernel closes its socket *)
(* and its files, which gives both locks back.                             *)
Exit(p) ==
    /\ Goto(p, "idle")
    /\ config' = [config EXCEPT ![p] = NoConfig]
    /\ address' = [address EXCEPT ![p] = None]
    /\ instance' = [n \in Names |-> IF instance[n] = p THEN None ELSE instance[n]]
    /\ store' = IF store = p THEN None ELSE store
    /\ UNCHANGED name

(* A panic, an error that main() unwraps, a signal, a full disk in a place *)
(* that leaves nothing behind, or the end of a server.  A forced init is   *)
(* unimplemented!() and does nothing else.                                 *)
Stop(p) ==
    /\ pc[p] # "idle"
    /\ Exit(p)
    /\ UNCHANGED <<repo, file, history>>

Start(p, n, step) ==
    /\ pc[p] = "idle"
    /\ Goto(p, step)
    /\ name' = [name EXCEPT ![p] = n]
    /\ UNCHANGED <<repo, file, locks, config, history>>

StartInit(p, n) == Start(p, n, "init_repo") /\ UNCHANGED address

StartRun(p, n) == Start(p, n, "read_config") /\ UNCHANGED address

StartConnect(p, n) ==
    /\ Start(p, n, "read_registry")
    /\ \E a \in Addresses : address' = [address EXCEPT ![p] = a]

-----------------------------------------------------------------------------
(* create_dir, Repository::init_opts, the ignore rule, the git settings,   *)
(* the hook and the index: all of them can be repeated, and none of them   *)
(* touches a branch that is there.                                         *)
InitRepo(p) ==
    /\ pc[p] = "init_repo"
    /\ repo' = IF repo = "none" THEN "empty" ELSE repo
    /\ Goto(p, "create_metadata")
    /\ UNCHANGED <<file, locks, name, config, address, history>>

(* Mutant of CreateMetadata: File::create instead of create_new. *)
CreateMetadataAnew(p) ==
    /\ pc[p] = "create_metadata"
    /\ file' = Without("empty")
    /\ \E id \in Ids \ issued :
          /\ issued' = issued \cup {id}
          /\ config' = [config EXCEPT ![p] = [id |-> id, peers |-> {}]]
    /\ Goto(p, "write_metadata")
    /\ UNCHANGED <<repo, locks, name, address, served, registered, mishaps>>

(* create_new: of several inits one creates the file, the others Stop. *)
CreateMetadata(p) ==
    /\ pc[p] = "create_metadata"
    /\ file.state = "absent"
    /\ file' = Without("empty")
    /\ \E id \in Ids \ issued :
          /\ issued' = issued \cup {id}
          /\ config' = [config EXCEPT ![p] = [id |-> id, peers |-> {}]]
    /\ Goto(p, "write_metadata")
    /\ UNCHANGED <<repo, locks, name, address, served, registered, mishaps>>

(* What a write that fails half-way leaves: a prefix.  The list of peers   *)
(* comes last and may be missing, so a prefix can be whole.                *)
Prefixes(cfg) ==
    {Without("empty"), Without("garbled"), Whole([cfg EXCEPT !.peers = {}])}

WriteMetadata(p) ==
    /\ pc[p] = "write_metadata"
    /\ \/ /\ file' = Whole(config[p])
          /\ Goto(p, "first_commit")
          /\ UNCHANGED mishaps
       \/ /\ file' \in Prefixes(config[p])
          /\ Goto(p, "remove_metadata")
          /\ mishaps' = mishaps \cup {"create_failed"}
    /\ UNCHANGED <<repo, locks, name, config, address, issued, served, registered>>

(* The clean-up after a failed write.  A connect that has opened the file  *)
(* meanwhile keeps a handle of a file that has no name any more.           *)
RemoveMetadata(p) ==
    /\ pc[p] = "remove_metadata"
    /\ file' = Without("absent")
    /\ pc' = [q \in Procs |-> IF q = p THEN "idle"
                              ELSE IF pc[q] = "update" THEN "detached" ELSE pc[q]]
    /\ config' = [config EXCEPT ![p] = NoConfig]
    /\ UNCHANGED <<repo, locks, name, address, history>>

(* The commit has no parent, so it fails on a branch that exists.  Without *)
(* --do-not-run the process becomes a server.                              *)
FirstCommit(p) ==
    /\ pc[p] = "first_commit"
    /\ repo # "main"
    /\ repo' = "main"
    /\ config' = [config EXCEPT ![p] = NoConfig]
    /\ \E next \in {"idle", "read_config"} : Goto(p, next)
    /\ UNCHANGED <<file, locks, name, address, history>>

-----------------------------------------------------------------------------
(* Mutant of ReadConfig: unwrap_or_default(). *)
ReadConfigOrDefault(p) ==
    /\ pc[p] = "read_config"
    /\ config' = [config EXCEPT ![p] = file.config]
    /\ Goto(p, "lock_instance")
    /\ UNCHANGED <<repo, file, locks, name, address, history>>

(* read_config_file(..).unwrap(), before anything is locked. *)
ReadConfig(p) ==
    /\ pc[p] = "read_config"
    /\ file.state = "whole"
    /\ config' = [config EXCEPT ![p] = file.config]
    /\ Goto(p, "lock_instance")
    /\ UNCHANGED <<repo, file, locks, name, address, history>>

(* single_instance locks the path as it was given, not the directory. *)
LockInstance(p) ==
    /\ pc[p] = "lock_instance"
    /\ instance[name[p]] = None
    /\ instance' = [instance EXCEPT ![name[p]] = p]
    /\ Goto(p, "open_store")
    /\ UNCHANGED <<repo, file, store, name, config, address, history>>

(* Mutant of OpenStore: the database is not opened exclusively. *)
OpenStoreShared(p) ==
    /\ pc[p] = "open_store"
    /\ repo # "none"
    /\ store' = p
    /\ served' = served \cup {config[p].id}
    /\ Goto(p, "serving")
    /\ UNCHANGED <<repo, file, instance, name, config, address,
                   issued, registered, mishaps>>

(* Repository::open, then new_s2s_network: redb locks its file, and the    *)
(* client's list of peers is the one that was read.                        *)
OpenStore(p) ==
    /\ pc[p] = "open_store"
    /\ repo # "none"
    /\ store = None
    /\ store' = p
    /\ served' = served \cup {config[p].id}
    /\ Goto(p, "serving")
    /\ UNCHANGED <<repo, file, instance, name, config, address,
                   issued, registered, mishaps>>

(* The signature is one by the keys of this server. *)
Validate(p, signer) == signer = config[p].id

(* POST /connected-peers.json.  A request that is not signed with the keys *)
(* of the server is refused with 401.  For one that is, the futures of     *)
(* start_listening and add_peer are dropped before they are polled, so the *)
(* list that is returned is the old one.  The request that connect signs   *)
(* for this route is dropped in the same way and never sent.               *)
AddNew(p, a, signer) ==
    /\ pc[p] = "serving"
    /\ \/ ~Validate(p, signer) /\ UNCHANGED vars
       \/ Validate(p, signer) /\ UNCHANGED vars

-----------------------------------------------------------------------------
(* Mutant of Updated: the address replaces the list. *)
UpdatedAlone(cfg, a) == [cfg EXCEPT !.peers = {a}]

(* WikiConfig::push_peer *)
Updated(cfg, a) == [cfg EXCEPT !.peers = @ \cup {a}]

(* The process has read the configuration and not yet written it back. *)
Updating(p) == pc[p] \in {"truncate", "update", "detached"}

ReadRegistry(p) ==
    /\ pc[p] = "read_registry"
    /\ file.state = "whole"
    /\ config' = [config EXCEPT ![p] = Updated(file.config, address[p])]
    /\ Goto(p, "truncate")
    /\ mishaps' = IF \E q \in Procs : Updating(q) THEN mishaps \cup {"overlap"}
                                                  ELSE mishaps
    /\ UNCHANGED <<repo, file, locks, name, address, issued, served, registered>>

(* The exit code is 0 whatever update_config_file returned: main.rs drops  *)
(* its result.                                                             *)
Connected(p) ==
    /\ Exit(p)
    /\ registered' = registered \cup {address[p]}

(* open() with truncate and without create *)
Truncate(p) ==
    /\ pc[p] = "truncate"
    /\ \/ /\ file.state # "absent"
          /\ file' = Without("empty")
          /\ Goto(p, "update")
          /\ UNCHANGED <<locks, name, config, address, registered>>
       \/ /\ file.state = "absent"
          /\ Connected(p)
          /\ UNCHANGED file
    /\ UNCHANGED <<repo, issued, served, mishaps>>

(* write_all from the start of the file.  If somebody else has written     *)
(* since the file was truncated, the end of a longer text stays.           *)
Overwritten(cfg) ==
    {Whole(cfg)} \cup IF file.state = "empty" THEN {} ELSE {Without("garbled")}

Update(p) ==
    /\ pc[p] = "update"
    /\ \/ /\ file' \in Overwritten(config[p])
          /\ UNCHANGED mishaps
       \/ /\ file' \in Prefixes(config[p])
          /\ mishaps' = mishaps \cup {"update_failed"}
    /\ Connected(p)
    /\ UNCHANGED <<repo, issued, served>>

UpdateDetached(p) ==
    /\ pc[p] = "detached"
    /\ Connected(p)
    /\ UNCHANGED <<repo, file, issued, served, mishaps>>

-----------------------------------------------------------------------------
InitCommand(p) ==
    \/ \E n \in Names : StartInit(p, n)
    \/ InitRepo(p)
    \/ CreateMetadata(p)
    \/ WriteMetadata(p)
    \/ RemoveMetadata(p)
    \/ FirstCommit(p)

RunCommand(p) ==
    \/ \E n \in Names : StartRun(p, n)
    \/ ReadConfig(p)
    \/ LockInstance(p)
    \/ OpenStore(p)
    \/ \E a \in Addresses, signer \in Ids \cup {None} : AddNew(p, a, signer)

ConnectCommand(p) ==
    \/ \E n \in Names : StartConnect(p, n)
    \/ ReadRegistry(p)
    \/ Truncate(p)
    \/ Update(p)
    \/ UpdateDetached(p)

Next ==
    \E p \in Procs : InitCommand(p) \/ RunCommand(p) \/ ConnectCommand(p) \/ Stop(p)

Spec == Init /\ [][Next]_vars

-----------------------------------------------------------------------------
(* At most one server runs in a directory, also when it is given under two *)
(* names, which the check of server/mod.rs:32 does not see; the lock of    *)
(* the database does (kad_store.rs:112).                                   *)
OneServer ==
    \A p, q \in Procs : pc[p] = "serving" /\ pc[q] = "serving" => p = q

(* A wiki keeps its identity: two servers of a directory have the same key *)
(* pair, whatever inits raced or died, unless the write of a new           *)
(* configuration failed and the file was removed again (init.rs:32-60).    *)
IdentityIsStable ==
    "create_failed" \notin mishaps => \A i, j \in served : i = j

(* A repository with the first commit never loses its configuration: an    *)
(* init could then neither be refused nor succeed (init.rs:32-60, 183).    *)
NoOrphanedWiki == repo = "main" => file.state # "absent"

(* A readable configuration has every peer that a connect registered, one  *)
(* after the other, whatever was killed, unless two connects overlapped or *)
(* a write failed; those two do lose peers (main.rs:112-124).              *)
RegisteredPeersStay ==
    mishaps = {} /\ file.state = "whole" => registered \subseteq file.config.peers

(* The file is never a mixture of texts or a part of one, whichever        *)
(* commands race and are killed between two of their steps, unless two     *)
(* connects overlapped or a write failed: a connect writes into a file it  *)
(* has emptied, and no init into one that is there (init.rs:36-40,         *)
(* config.rs:26-32).                                                       *)
GarbledOnlyByMishap == file.state = "garbled" => mishaps # {}

(* When no command is at work, one of them can be: the directory can be    *)
(* initialised, or what is there can be read, by force if necessary        *)
(* (main.rs:44-46).                                                        *)
NeverStuck ==
    (\A p \in Procs : pc[p] = "idle") => file.state \in {"absent", "whole"}

(* Nothing that can be read, and nobody left who would write it again. *)
Broken ==
    /\ file.state \in {"empty", "garbled"}
    /\ \A p \in Procs :
          pc[p] \notin {"write_metadata", "remove_metadata", "truncate", "update"}

(* A directory that is broken in this way stays so, whatever is run in it: *)
(* an init is refused by create_new, a connect and a server cannot read    *)
(* the file, a server that still runs and knows the configuration does not *)
(* write it, and a connect whose file was removed writes elsewhere         *)
(* (init.rs:32-40, main.rs:77, 104, 113, config.rs:26-32).                 *)
BrokenForGood == [][Broken => Broken']_vars
=============================================================================
