-------------------------- MODULE LifecycleProofs --------------------------
(***************************************************************************)
(* Proofs about Lifecycle for any processes, names, identities and         *)
(* addresses, with kills between any two steps.                            *)
(***************************************************************************)
EXTENDS Lifecycle, TLAPS

(* Steps of an init that has created the configuration, of a server and of *)
(* a connect that have read it.                                            *)
CreateSteps == {"write_metadata", "remove_metadata", "first_commit"}
ReadSteps == {"lock_instance", "open_store", "serving"}
UpdateSteps == {"truncate", "update", "detached"}

(* Identities that are stored or in use have been written before, and a    *)
(* connect has an address.                                                 *)
KnownInv ==
    /\ file.state = "whole" => file.config.id \in issued
    /\ \A p \in Procs :
          pc[p] \in CreateSteps \cup ReadSteps \cup UpdateSteps =>
              config[p].id \in issued
    /\ \A p \in Procs :
          pc[p] \in {"read_registry"} \cup UpdateSteps => address[p] \in Addresses

(* The configuration that an init created is there until that init is      *)
(* done, and so only one init is at work and no branch is there yet.       *)
OwnInv ==
    /\ NoOrphanedWiki
    /\ \A p \in Procs :
          pc[p] \in CreateSteps => file.state # "absent" /\ repo # "main"
    /\ \A p, q \in Procs :
          pc[p] \in CreateSteps /\ pc[q] \in CreateSteps => p = q

(* A server holds the lock of the database. *)
StoreInv == \A p \in Procs : pc[p] = "serving" => store = p

(* If no write of a new configuration failed, there was only one. *)
OnceInv ==
    "create_failed" \notin mishaps =>
        /\ \A i, j \in issued : i = j
        /\ issued # {} => file.state # "absent"
        /\ \A p \in Procs : pc[p] # "remove_metadata"

(* Before there is a configuration that can be read. *)
Blank == file.state = "absent" \/ \E p \in Procs : pc[p] = "write_metadata"

(* If nothing went wrong, one connect at a time carries all peers from     *)
(* the old file into the new one, which it writes from nothing.            *)
PeersInv ==
    mishaps = {} =>
        /\ \A p, q \in Procs : Updating(p) /\ Updating(q) => p = q
        /\ file.state = "whole" => registered \subseteq file.config.peers
        /\ \A q \in Procs : Updating(q) =>
              registered \cup {address[q]} \subseteq config[q].peers
        /\ Blank => registered = {} /\ \A q \in Procs : ~Updating(q)
        /\ file.state # "garbled"
        /\ \A p \in Procs :
              pc[p] \in {"write_metadata", "update"} => file.state = "empty"
        /\ \A p \in Procs : pc[p] # "detached"

-----------------------------------------------------------------------------
(* What is written to the file is a file. *)
LEMMA FileType ==
    /\ \A state \in {"absent", "empty", "garbled"} : Without(state) \in File
    /\ \A cfg \in Config :
          /\ Whole(cfg) \in File
          /\ Prefixes(cfg) \subseteq File
          /\ \A f \in Prefixes(cfg) : f.state = "whole" => f.config.id = cfg.id
BY DEF Without, Whole, Prefixes, File, Config

(* A process at one of these steps has a configuration, not a blank. *)
LEMMA InHand ==
    ASSUME TypeOK, KnownInv, NEW p \in Procs,
           pc[p] \in CreateSteps \cup ReadSteps \cup UpdateSteps
    PROVE  config[p] \in Config /\ config[p].id \in issued
<1>1. config[p].id \in issued /\ config[p].id \in Ids
  BY DEF TypeOK, KnownInv
<1>2. config[p] # NoConfig
  BY <1>1, NoneAssumption DEF NoConfig
<1> QED BY <1>1, <1>2 DEF TypeOK

(* The configuration of a file that can be read is one. *)
LEMMA OnDisk ==
    ASSUME TypeOK, file.state = "whole"
    PROVE  file.config \in Config
BY DEF TypeOK, File

Steps == {"idle"} \cup InitSteps \cup RunSteps \cup ConnectSteps

(* The parts of the type invariant that the end of a process disturbs. *)
LEMMA ExitType ==
    ASSUME TypeOK, NEW p \in Procs, Exit(p)
    PROVE  /\ instance' \in [Names -> Procs \cup {None}]
           /\ store' \in Procs \cup {None}
           /\ pc' \in [Procs -> Steps]
           /\ name' \in [Procs -> Names]
           /\ config' \in [Procs -> Config \cup {NoConfig}]
           /\ address' \in [Procs -> Addresses \cup {None}]
BY DEF TypeOK, Exit, Goto, Steps

(* A connect that ends keeps the invariant if what it leaves on disk does. *)
LEMMA ConnectedStep ==
    ASSUME TypeOK, KnownInv, NEW p \in Procs, pc[p] \in UpdateSteps,
           Connected(p), UNCHANGED <<repo, issued, served>>,
           file' \in File, file'.state = "whole" => file'.config.id \in issued,
           mishaps' \subseteq {"create_failed", "update_failed", "overlap"}
    PROVE  TypeOK' /\ KnownInv'
<1>1. /\ pc' = [pc EXCEPT ![p] = "idle"]
      /\ config' = [config EXCEPT ![p] = NoConfig]
      /\ address' = [address EXCEPT ![p] = None]
  BY DEF Connected, Exit, Goto
<1>2. registered' \subseteq Addresses
  BY DEF Connected, TypeOK, KnownInv
<1>3. TypeOK'
  BY <1>2, ExitType
     DEF Connected, TypeOK, Steps, InitSteps, RunSteps, ConnectSteps
<1>4. KnownInv'
  BY <1>1 DEF KnownInv, TypeOK, CreateSteps, ReadSteps, UpdateSteps
<1> QED BY <1>3, <1>4

(* Every step leaves every variable in its type, and identities known. *)
LEMMA TypeStep == TypeOK /\ KnownInv /\ [Next]_vars => TypeOK' /\ KnownInv'
<1> SUFFICES ASSUME TypeOK, KnownInv, [Next]_vars PROVE TypeOK' /\ KnownInv'
  OBVIOUS
<1> USE DEF locks, history, Goto, CreateSteps, ReadSteps, UpdateSteps,
            InitSteps, RunSteps, ConnectSteps
<1>1. ASSUME NEW p \in Procs, NEW n \in Names,
             StartInit(p, n) \/ StartRun(p, n) \/ StartConnect(p, n)
      PROVE  TypeOK' /\ KnownInv'
  <2>1. CASE StartInit(p, n) \/ StartRun(p, n)
    <3>1. PICK step \in {"init_repo", "read_config"} : pc' = [pc EXCEPT ![p] = step]
      BY <2>1 DEF StartInit, StartRun, Start
    <3>2. /\ name' = [name EXCEPT ![p] = n]
          /\ UNCHANGED <<repo, file, locks, config, address, history>>
      BY <2>1 DEF StartInit, StartRun, Start
    <3>3. TypeOK'
      BY <3>1, <3>2 DEF TypeOK
    <3>4. KnownInv'
      BY <3>1, <3>2 DEF TypeOK, KnownInv
    <3> QED BY <3>3, <3>4
  <2>2. CASE StartConnect(p, n)
    <3>1. PICK a \in Addresses : address' = [address EXCEPT ![p] = a]
      BY <2>2 DEF StartConnect
    <3>2. /\ pc' = [pc EXCEPT ![p] = "read_registry"]
          /\ name' = [name EXCEPT ![p] = n]
          /\ UNCHANGED <<repo, file, locks, config, history>>
      BY <2>2 DEF StartConnect, Start
    <3> QED BY <3>1, <3>2 DEF TypeOK, KnownInv
  <2> QED BY <1>1, <2>1, <2>2
<1>2. ASSUME NEW p \in Procs, InitRepo(p) PROVE TypeOK' /\ KnownInv'
  BY <1>2 DEF InitRepo, TypeOK, KnownInv
<1>3. ASSUME NEW p \in Procs, CreateMetadata(p) PROVE TypeOK' /\ KnownInv'
  BY <1>3, FileType DEF CreateMetadata, TypeOK, KnownInv, Without, Config
<1>4. ASSUME NEW p \in Procs, WriteMetadata(p) PROVE TypeOK' /\ KnownInv'
  <2>1. config[p] \in Config /\ config[p].id \in issued
    BY <1>4, InHand DEF WriteMetadata
  <2>2. file' \in File /\ (file'.state = "whole" => file'.config.id \in issued)
    <3>1. CASE file' = Whole(config[p])
      BY <2>1, <3>1, FileType DEF Whole
    <3>2. CASE file' \in Prefixes(config[p])
      BY <2>1, <3>2, FileType
    <3> QED BY <1>4, <3>1, <3>2 DEF WriteMetadata
  <2> QED BY <1>4, <2>2 DEF WriteMetadata, TypeOK, KnownInv
<1>5. ASSUME NEW p \in Procs, RemoveMetadata(p) PROVE TypeOK' /\ KnownInv'
  BY <1>5, FileType DEF RemoveMetadata, TypeOK, KnownInv, Without
<1>6. ASSUME NEW p \in Procs, FirstCommit(p) PROVE TypeOK' /\ KnownInv'
  BY <1>6 DEF FirstCommit, TypeOK, KnownInv
<1>7. ASSUME NEW p \in Procs, ReadConfig(p) PROVE TypeOK' /\ KnownInv'
  BY <1>7, OnDisk DEF ReadConfig, TypeOK, KnownInv
<1>8. ASSUME NEW p \in Procs, LockInstance(p) PROVE TypeOK' /\ KnownInv'
  BY <1>8 DEF LockInstance, TypeOK, KnownInv
<1>9. ASSUME NEW p \in Procs, OpenStore(p) PROVE TypeOK' /\ KnownInv'
  BY <1>9 DEF OpenStore, TypeOK, KnownInv
<1>10. ASSUME NEW p \in Procs, ReadRegistry(p) PROVE TypeOK' /\ KnownInv'
  <2>1. file.config \in Config /\ file.config.id \in issued
    BY <1>10, OnDisk DEF ReadRegistry, KnownInv
  <2>2. address[p] \in Addresses
    BY <1>10 DEF ReadRegistry, KnownInv
  <2>3. Updated(file.config, address[p]) \in Config
          /\ Updated(file.config, address[p]).id \in issued
    BY <2>1, <2>2 DEF Updated, Config
  <2>4. mishaps' \subseteq {"create_failed", "update_failed", "overlap"}
    BY <1>10 DEF ReadRegistry, TypeOK
  <2> QED BY <1>10, <2>3, <2>4 DEF ReadRegistry, TypeOK, KnownInv
<1>11. ASSUME NEW p \in Procs, Truncate(p) PROVE TypeOK' /\ KnownInv'
  <2>1. CASE Connected(p) /\ UNCHANGED file
    <3>1. /\ file' \in File
          /\ file'.state = "whole" => file'.config.id \in issued
          /\ mishaps' \subseteq {"create_failed", "update_failed", "overlap"}
      BY <1>11, <2>1 DEF Truncate, TypeOK, KnownInv
    <3> QED BY <1>11, <2>1, <3>1, ConnectedStep DEF Truncate
  <2>2. CASE file' = Without("empty") /\ pc' = [pc EXCEPT ![p] = "update"]
                /\ UNCHANGED <<locks, name, config, address, registered>>
    BY <1>11, <2>2, FileType DEF Truncate, TypeOK, KnownInv, Without
  <2> QED BY <1>11, <2>1, <2>2 DEF Truncate
<1>12. ASSUME NEW p \in Procs, Update(p) PROVE TypeOK' /\ KnownInv'
  <2>1. config[p] \in Config /\ config[p].id \in issued
    BY <1>12, InHand DEF Update
  <2>2. file' \in File /\ (file'.state = "whole" => file'.config.id \in issued)
    <3>1. CASE file' = Whole(config[p])
      BY <2>1, <3>1, FileType DEF Whole
    <3>2. CASE file' \in Prefixes(config[p])
      BY <2>1, <3>2, FileType
    <3>3. CASE file' = Without("garbled")
      BY <3>3, FileType DEF Without
    <3> QED BY <1>12, <3>1, <3>2, <3>3 DEF Update, Overwritten
  <2>3. mishaps' \subseteq {"create_failed", "update_failed", "overlap"}
    BY <1>12 DEF Update, TypeOK
  <2> QED BY <1>12, <2>2, <2>3, ConnectedStep DEF Update
<1>13. ASSUME NEW p \in Procs, UpdateDetached(p) PROVE TypeOK' /\ KnownInv'
  <2>1. file' \in File /\ (file'.state = "whole" => file'.config.id \in issued)
    BY <1>13 DEF UpdateDetached, TypeOK, KnownInv
  <2> QED BY <1>13, <2>1, ConnectedStep DEF UpdateDetached, TypeOK
<1>14. ASSUME NEW p \in Procs, Stop(p) PROVE TypeOK' /\ KnownInv'
  <2>1. /\ pc' = [pc EXCEPT ![p] = "idle"]
        /\ config' = [config EXCEPT ![p] = NoConfig]
        /\ address' = [address EXCEPT ![p] = None]
        /\ UNCHANGED <<repo, file, history>>
    BY <1>14 DEF Stop, Exit
  <2>2. TypeOK'
    BY <1>14, <2>1, ExitType DEF Stop, TypeOK, Steps
  <2>3. KnownInv'
    BY <2>1 DEF KnownInv, TypeOK
  <2> QED BY <2>2, <2>3
<1>15. ASSUME UNCHANGED vars PROVE TypeOK' /\ KnownInv'
  BY <1>15 DEF vars, procVars, TypeOK, KnownInv
<1> QED BY <1>1, <1>2, <1>3, <1>4, <1>5, <1>6, <1>7, <1>8, <1>9, <1>10,
           <1>11, <1>12, <1>13, <1>14, <1>15
        DEF Next, InitCommand, RunCommand, ConnectCommand, AddNew

(* Every variable keeps its type, and servers have identities that were    *)
(* written to the configuration.                                           *)
THEOREM TypeCorrect == Spec => [](TypeOK /\ KnownInv)
<1>1. Init => TypeOK /\ KnownInv
  <2> SUFFICES ASSUME Init PROVE TypeOK /\ KnownInv
    OBVIOUS
  <2>1. TypeOK
    BY FileType DEF Init, TypeOK
  <2>2. KnownInv
    BY DEF Init, KnownInv, Without, CreateSteps, ReadSteps, UpdateSteps
  <2> QED BY <2>1, <2>2
<1> QED BY <1>1, TypeStep, PTL DEF Spec

-----------------------------------------------------------------------------
(* Every step leaves the lock of the database with the server. *)
LEMMA StoreStep == TypeOK /\ StoreInv /\ [Next]_vars => StoreInv'
<1> SUFFICES ASSUME TypeOK, StoreInv, [Next]_vars PROVE StoreInv'
  OBVIOUS
<1> USE DEF locks, Goto
<1>1. ASSUME NEW p \in Procs, Exit(p) PROVE StoreInv'
  BY <1>1 DEF Exit, StoreInv, TypeOK
<1>2. ASSUME NEW p \in Procs, OpenStore(p) PROVE StoreInv'
  BY <1>2, NoneAssumption DEF OpenStore, StoreInv, TypeOK
<1>3. ASSUME store' = store, NEW p \in Procs,
             \A q \in Procs : pc'[q] = "serving" => pc[q] = "serving"
      PROVE  StoreInv'
  BY <1>3 DEF StoreInv
<1>4. ASSUME NEW p \in Procs, InitCommand(p) PROVE StoreInv'
  <2>1. store' = store
    BY <1>4 DEF InitCommand, StartInit, Start, InitRepo, CreateMetadata,
                WriteMetadata, RemoveMetadata, FirstCommit
  <2>2. \A q \in Procs : pc'[q] = "serving" => pc[q] = "serving"
    BY <1>4 DEF InitCommand, StartInit, Start, InitRepo, CreateMetadata,
                WriteMetadata, RemoveMetadata, FirstCommit, TypeOK
  <2> QED BY <1>3, <2>1, <2>2
<1>5. ASSUME NEW p \in Procs, RunCommand(p) PROVE StoreInv'
  <2>1. CASE \E n \in Names : StartRun(p, n)
    BY <1>3, <2>1 DEF StartRun, Start, TypeOK
  <2>2. CASE ReadConfig(p) \/ LockInstance(p)
    BY <1>3, <2>2 DEF ReadConfig, LockInstance, TypeOK
  <2>3. CASE \E a \in Addresses, signer \in Ids \cup {None} : AddNew(p, a, signer)
    BY <1>3, <2>3 DEF AddNew, vars, procVars
  <2> QED BY <1>2, <1>5, <2>1, <2>2, <2>3 DEF RunCommand
<1>6. ASSUME NEW p \in Procs, ConnectCommand(p) PROVE StoreInv'
  <2>1. CASE \E n \in Names : StartConnect(p, n)
    BY <1>3, <2>1 DEF StartConnect, Start, TypeOK
  <2>2. CASE ReadRegistry(p)
    BY <1>3, <2>2 DEF ReadRegistry, TypeOK
  <2>3. CASE Truncate(p)
    BY <1>1, <1>3, <2>3 DEF Truncate, Connected, TypeOK
  <2>4. CASE Update(p) \/ UpdateDetached(p)
    BY <1>1, <2>4 DEF Update, UpdateDetached, Connected
  <2> QED BY <1>6, <2>1, <2>2, <2>3, <2>4 DEF ConnectCommand
<1>7. ASSUME UNCHANGED vars PROVE StoreInv'
  BY <1>7 DEF vars, procVars, StoreInv
<1> QED BY <1>1, <1>4, <1>5, <1>6, <1>7 DEF Next, Stop

(* One server runs in a directory, whatever names it is given              *)
(* (server/mod.rs:32, kad_store.rs:112).                                   *)
THEOREM ServersAlone == Spec => []OneServer
<1>1. Init => StoreInv
  BY DEF Init, StoreInv
<1>2. StoreInv => OneServer
  BY DEF StoreInv, OneServer
<1> QED BY <1>1, <1>2, StoreStep, TypeCorrect, PTL DEF Spec

-----------------------------------------------------------------------------
(* Every step keeps the configuration of a wiki in its place. *)
LEMMA OwnStep == TypeOK /\ OwnInv /\ [Next]_vars => OwnInv'
<1> SUFFICES ASSUME TypeOK, OwnInv, [Next]_vars PROVE OwnInv'
  OBVIOUS
<1> USE DEF locks, history, Goto, CreateSteps, NoOrphanedWiki
<1>1. ASSUME file.state # "absent" => file'.state # "absent", repo' = repo,
             \A q \in Procs : pc'[q] \in CreateSteps => pc[q] \in CreateSteps
      PROVE  OwnInv'
  BY <1>1 DEF OwnInv
<1>2. ASSUME NEW p \in Procs, InitRepo(p) PROVE OwnInv'
  BY <1>2 DEF InitRepo, OwnInv, TypeOK
<1>3. ASSUME NEW p \in Procs, CreateMetadata(p) PROVE OwnInv'
  BY <1>3 DEF CreateMetadata, OwnInv, TypeOK, Without
<1>4. ASSUME NEW p \in Procs, WriteMetadata(p) PROVE OwnInv'
  <2>1. file'.state # "absent"
    BY <1>4 DEF WriteMetadata, Prefixes, Whole, Without
  <2>2. \A q \in Procs : pc'[q] \in CreateSteps => pc[q] \in CreateSteps
    BY <1>4 DEF WriteMetadata, TypeOK
  <2> QED BY <1>1, <1>4, <2>1, <2>2 DEF WriteMetadata
<1>5. ASSUME NEW p \in Procs, RemoveMetadata(p) PROVE OwnInv'
  <2>1. \A q \in Procs : pc'[q] \notin CreateSteps
    BY <1>5 DEF RemoveMetadata, OwnInv, TypeOK
  <2> QED BY <1>5, <2>1 DEF RemoveMetadata, OwnInv
<1>6. ASSUME NEW p \in Procs, FirstCommit(p) PROVE OwnInv'
  <2>1. \A q \in Procs : pc'[q] \notin CreateSteps
    BY <1>6 DEF FirstCommit, OwnInv, TypeOK
  <2> QED BY <1>6, <2>1 DEF FirstCommit, OwnInv
<1>7. ASSUME NEW p \in Procs, RunCommand(p) PROVE OwnInv'
  BY <1>1, <1>7 DEF RunCommand, StartRun, Start, ReadConfig, LockInstance,
                    OpenStore, AddNew, vars, procVars, TypeOK
<1>8. ASSUME NEW p \in Procs, Exit(p), file' = file, repo' = repo PROVE OwnInv'
  BY <1>1, <1>8 DEF Exit, TypeOK
<1>9. ASSUME NEW p \in Procs, NEW n \in Names, StartInit(p, n) \/ StartConnect(p, n)
      PROVE  OwnInv'
  BY <1>1, <1>9 DEF StartInit, StartConnect, Start, TypeOK
<1>10. ASSUME NEW p \in Procs, ReadRegistry(p) PROVE OwnInv'
  BY <1>1, <1>10 DEF ReadRegistry, TypeOK
<1>11. ASSUME NEW p \in Procs, Truncate(p) PROVE OwnInv'
  BY <1>1, <1>8, <1>11 DEF Truncate, Connected, TypeOK, Without
<1>12. ASSUME NEW p \in Procs, Update(p) PROVE OwnInv'
  <2>1. file'.state # "absent"
    BY <1>12 DEF Update, Overwritten, Prefixes, Whole, Without
  <2>2. \A q \in Procs : pc'[q] \in CreateSteps => pc[q] \in CreateSteps
    BY <1>12 DEF Update, Connected, Exit, TypeOK
  <2> QED BY <1>1, <1>12, <2>1, <2>2 DEF Update
<1>13. ASSUME NEW p \in Procs, UpdateDetached(p) \/ Stop(p) PROVE OwnInv'
  BY <1>8, <1>13 DEF UpdateDetached, Connected, Stop
<1>14. ASSUME UNCHANGED vars PROVE OwnInv'
  BY <1>1, <1>14 DEF vars, procVars
<1> QED BY <1>2, <1>3, <1>4, <1>5, <1>6, <1>7, <1>9, <1>10, <1>11, <1>12,
           <1>13, <1>14
        DEF Next, InitCommand, ConnectCommand

(* No interleaving of inits and no kill makes a wiki that has its first    *)
(* commit and no configuration (init.rs:32-60, 183).                       *)
THEOREM WikisAreWhole == Spec => []NoOrphanedWiki
<1>1. Init => OwnInv
  BY DEF Init, OwnInv, NoOrphanedWiki, CreateSteps
<1>2. OwnInv => NoOrphanedWiki
  BY DEF OwnInv
<1> QED BY <1>1, <1>2, OwnStep, TypeCorrect, PTL DEF Spec

-----------------------------------------------------------------------------
(* Every step leaves a directory whose configuration was never removed     *)
(* with one identity.                                                      *)
LEMMA OnceStep == TypeOK /\ OnceInv /\ [Next]_vars => OnceInv'
<1> SUFFICES ASSUME TypeOK, OnceInv, [Next]_vars PROVE OnceInv'
  OBVIOUS
<1> USE DEF locks, history, Goto
<1>1. ASSUME mishaps \subseteq mishaps', issued' = issued,
             file.state # "absent" => file'.state # "absent",
             \A q \in Procs : pc'[q] = "remove_metadata" => pc[q] = "remove_metadata"
      PROVE  OnceInv'
  BY <1>1 DEF OnceInv
<1>2. ASSUME NEW p \in Procs, CreateMetadata(p) PROVE OnceInv'
  <2>1. CASE "create_failed" \in mishaps
    BY <1>2, <2>1 DEF CreateMetadata, OnceInv
  <2>2. CASE "create_failed" \notin mishaps
    <3>1. issued = {}
      BY <1>2, <2>2 DEF CreateMetadata, OnceInv
    <3>2. PICK id : issued' = {id}
      BY <1>2, <3>1 DEF CreateMetadata
    <3>3. /\ file'.state # "absent"
          /\ \A q \in Procs : pc'[q] # "remove_metadata"
      BY <1>2, <2>2 DEF CreateMetadata, OnceInv, Without, TypeOK
    <3> QED BY <3>2, <3>3 DEF OnceInv
  <2> QED BY <2>1, <2>2
<1>3. ASSUME NEW p \in Procs, WriteMetadata(p) PROVE OnceInv'
  <2>1. file'.state # "absent"
    BY <1>3 DEF WriteMetadata, Prefixes, Whole, Without
  <2>2. CASE pc' = [pc EXCEPT ![p] = "first_commit"] /\ UNCHANGED mishaps
    BY <1>1, <1>3, <2>1, <2>2 DEF WriteMetadata, TypeOK
  <2>3. CASE mishaps' = mishaps \cup {"create_failed"}
    BY <2>3 DEF OnceInv
  <2> QED BY <1>3, <2>2, <2>3 DEF WriteMetadata
<1>4. ASSUME NEW p \in Procs, RemoveMetadata(p) PROVE OnceInv'
  BY <1>4 DEF RemoveMetadata, OnceInv
<1>5. ASSUME NEW p \in Procs, InitRepo(p) \/ FirstCommit(p) PROVE OnceInv'
  BY <1>1, <1>5 DEF InitRepo, FirstCommit, TypeOK
<1>6. ASSUME NEW p \in Procs, RunCommand(p) PROVE OnceInv'
  BY <1>1, <1>6 DEF RunCommand, StartRun, Start, ReadConfig, LockInstance,
                    OpenStore, AddNew, vars, procVars, TypeOK
<1>7. ASSUME NEW p \in Procs, Exit(p), file' = file, issued' = issued,
             mishaps' = mishaps
      PROVE  OnceInv'
  BY <1>1, <1>7 DEF Exit, TypeOK
<1>8. ASSUME NEW p \in Procs, NEW n \in Names, StartInit(p, n) \/ StartConnect(p, n)
      PROVE  OnceInv'
  BY <1>1, <1>8 DEF StartInit, StartConnect, Start, TypeOK
<1>9. ASSUME NEW p \in Procs, ReadRegistry(p) PROVE OnceInv'
  BY <1>1, <1>9 DEF ReadRegistry, TypeOK
<1>10. ASSUME NEW p \in Procs, Truncate(p) PROVE OnceInv'
  BY <1>1, <1>7, <1>10 DEF Truncate, Connected, TypeOK, Without
<1>11. ASSUME NEW p \in Procs, Update(p) PROVE OnceInv'
  <2>1. file'.state # "absent"
    BY <1>11 DEF Update, Overwritten, Prefixes, Whole, Without
  <2>2. \A q \in Procs : pc'[q] = "remove_metadata" => pc[q] = "remove_metadata"
    BY <1>11 DEF Update, Connected, Exit, TypeOK
  <2> QED BY <1>1, <1>11, <2>1, <2>2 DEF Update
<1>12. ASSUME NEW p \in Procs, UpdateDetached(p) \/ Stop(p) PROVE OnceInv'
  BY <1>7, <1>12 DEF UpdateDetached, Connected, Stop
<1>13. ASSUME UNCHANGED vars PROVE OnceInv'
  BY <1>1, <1>13 DEF vars, procVars
<1> QED BY <1>2, <1>3, <1>4, <1>5, <1>6, <1>8, <1>9, <1>10, <1>11, <1>12, <1>13
        DEF Next, InitCommand, ConnectCommand

(* Only one configuration is ever written when none is removed again.      *)
THEOREM WrittenOnce == Spec => []OnceInv
<1>1. Init => OnceInv
  BY DEF Init, OnceInv
<1> QED BY <1>1, OnceStep, TypeCorrect, PTL DEF Spec

(* All servers of a directory have the same identity, unless the write of  *)
(* a configuration failed and it was removed (init.rs:32-60).              *)
THEOREM OneIdentity == Spec => []IdentityIsStable
<1>1. TypeOK /\ OnceInv => IdentityIsStable
  BY DEF TypeOK, OnceInv, IdentityIsStable
<1> QED BY <1>1, WrittenOnce, TypeCorrect, PTL

-----------------------------------------------------------------------------
(* A process at a step that matters to the peers. *)
Concerned == UpdateSteps \cup {"write_metadata"}

(* A process that neither starts such a step nor writes disturbs nothing. *)
LEMMA PeersFrame ==
    ASSUME PeersInv, mishaps' = mishaps, file' = file, registered' = registered,
           \A q \in Procs : pc'[q] \in Concerned =>
               pc[q] = pc'[q] /\ config'[q] = config[q] /\ address'[q] = address[q]
    PROVE  PeersInv'
BY DEF PeersInv, Blank, Updating, Concerned, UpdateSteps

(* Every step keeps the registered peers, and the texts apart.             *)
LEMMA PeersStep ==
    TypeOK /\ KnownInv /\ OwnInv /\ OnceInv /\ PeersInv /\ [Next]_vars => PeersInv'
<1> SUFFICES ASSUME TypeOK, KnownInv, OwnInv, OnceInv, PeersInv, [Next]_vars
             PROVE  PeersInv'
  OBVIOUS
<1> USE DEF locks, history, Goto, Concerned, UpdateSteps
<1>1. ASSUME NEW p \in Procs, Exit(p), file' = file, mishaps' = mishaps,
             registered' = registered
      PROVE  PeersInv'
  BY <1>1, PeersFrame DEF Exit, TypeOK
<1>2. ASSUME NEW p \in Procs, NEW n \in Names,
             StartInit(p, n) \/ StartRun(p, n) \/ StartConnect(p, n)
      PROVE  PeersInv'
  <2>1. /\ pc'[p] \notin Concerned
        /\ \A q \in Procs : q # p =>
              pc'[q] = pc[q] /\ config'[q] = config[q] /\ address'[q] = address[q]
    BY <1>2 DEF StartInit, StartRun, StartConnect, Start, TypeOK
  <2> QED BY <1>2, <2>1, PeersFrame DEF StartInit, StartRun, StartConnect, Start
<1>3. ASSUME NEW p \in Procs, InitRepo(p) \/ FirstCommit(p) PROVE PeersInv'
  BY <1>3, PeersFrame DEF InitRepo, FirstCommit, TypeOK
<1>4. ASSUME NEW p \in Procs, CreateMetadata(p) PROVE PeersInv'
  BY <1>4 DEF CreateMetadata, PeersInv, Blank, Updating, TypeOK, Without
<1>5. ASSUME NEW p \in Procs, WriteMetadata(p) PROVE PeersInv'
  <2>1. CASE file' = Whole(config[p]) /\ pc' = [pc EXCEPT ![p] = "first_commit"]
             /\ mishaps' = mishaps
    BY <1>5, <2>1
       DEF WriteMetadata, PeersInv, Blank, Updating, TypeOK, Whole, OwnInv, CreateSteps
  <2>2. CASE mishaps' # {}
    BY <2>2 DEF PeersInv
  <2> QED BY <1>5, <2>1, <2>2 DEF WriteMetadata
<1>6. ASSUME NEW p \in Procs, RemoveMetadata(p) PROVE PeersInv'
  BY <1>6 DEF RemoveMetadata, OnceInv, PeersInv
<1>7. ASSUME NEW p \in Procs, ReadConfig(p) PROVE PeersInv'
  BY <1>7, PeersFrame DEF ReadConfig, TypeOK
<1>8. ASSUME NEW p \in Procs, LockInstance(p) \/ OpenStore(p) PROVE PeersInv'
  BY <1>8, PeersFrame DEF LockInstance, OpenStore, TypeOK
<1>9. ASSUME NEW p \in Procs, ReadRegistry(p) PROVE PeersInv'
  <2>1. CASE \E q \in Procs : Updating(q)
    BY <1>9, <2>1 DEF ReadRegistry, PeersInv
  <2>2. CASE \A q \in Procs : ~Updating(q)
    <3>1. /\ mishaps' = mishaps /\ UNCHANGED <<file, registered, address>>
          /\ file.state = "whole"
          /\ pc' = [pc EXCEPT ![p] = "truncate"]
          /\ config' = [config EXCEPT ![p] = Updated(file.config, address[p])]
      BY <1>9, <2>2 DEF ReadRegistry
    <3>2. Updated(file.config, address[p]).peers
              = file.config.peers \cup {address[p]}
      BY <3>1, OnDisk DEF Updated, Config
    <3>3. /\ config'[p].peers = file.config.peers \cup {address[p]}
          /\ pc'[p] = "truncate"
          /\ \A q \in Procs \ {p} : config'[q] = config[q] /\ pc'[q] = pc[q]
      BY <3>1, <3>2 DEF TypeOK
    <3>4. \A q \in Procs : Updating(q)' => q = p
      BY <2>2, <3>3 DEF Updating
    <3>5. ~Blank' \/ mishaps # {}
      BY <3>1, <3>3 DEF Blank, PeersInv
    <3> QED BY <3>1, <3>3, <3>4, <3>5 DEF PeersInv, Updating
  <2> QED BY <2>1, <2>2
<1>10. ASSUME NEW p \in Procs, Truncate(p) PROVE PeersInv'
  BY <1>10 DEF Truncate, Connected, PeersInv, Blank, Updating, TypeOK, Without
<1>11. ASSUME NEW p \in Procs, Update(p) PROVE PeersInv'
  BY <1>11 DEF Update, Connected, Exit, PeersInv, Blank, Updating, TypeOK, Whole,
               Overwritten, Without
<1>12. ASSUME NEW p \in Procs, UpdateDetached(p) PROVE PeersInv'
  BY <1>12 DEF UpdateDetached, Connected, Exit, PeersInv, Blank, Updating, TypeOK
<1>13. ASSUME UNCHANGED vars PROVE PeersInv'
  BY <1>13, PeersFrame DEF vars, procVars
<1> QED BY <1>1, <1>2, <1>3, <1>4, <1>5, <1>6, <1>7, <1>8, <1>9, <1>10,
           <1>11, <1>12, <1>13
        DEF Next, InitCommand, RunCommand, ConnectCommand, AddNew, Stop

(* If nothing went wrong, no peer is lost and the file is no mixture.      *)
THEOREM PeersTogether == Spec => []PeersInv
<1>1. Init => OwnInv
  BY DEF Init, OwnInv, NoOrphanedWiki, CreateSteps
<1>2. Init => PeersInv
  BY DEF Init, PeersInv, Without, Updating
<1> QED BY <1>1, <1>2, OwnStep, PeersStep, WrittenOnce, TypeCorrect, PTL DEF Spec

(* Peers that were registered one after the other are all in the file that *)
(* can be read, whatever was killed (main.rs:112-124, config.rs:19-34).    *)
THEOREM PeersStay == Spec => []RegisteredPeersStay
<1>1. PeersInv => RegisteredPeersStay
  BY DEF PeersInv, RegisteredPeersStay
<1> QED BY <1>1, PeersTogether, PTL

(* The configuration is never a mixture or a part of texts unless connects *)
(* overlapped or a write failed, whatever was killed (init.rs:36-40,       *)
(* config.rs:26-32).                                                       *)
THEOREM TextsStayApart == Spec => []GarbledOnlyByMishap
<1>1. PeersInv => GarbledOnlyByMishap
  BY DEF PeersInv, GarbledOnlyByMishap
<1> QED BY <1>1, PeersTogether, PTL

-----------------------------------------------------------------------------
WriteSteps == {"write_metadata", "remove_metadata", "truncate", "update"}

(* No command gets to a step that writes a file that cannot be read.       *)
LEMMA BrokenStep == TypeOK /\ Broken /\ [Next]_vars => Broken'
<1> SUFFICES ASSUME TypeOK, Broken, [Next]_vars PROVE Broken'
  OBVIOUS
<1> USE DEF locks, history, Goto
<1>1. ASSUME UNCHANGED file,
             \A q \in Procs : pc'[q] \in WriteSteps => pc[q] \in WriteSteps
      PROVE  Broken'
  BY <1>1 DEF Broken, WriteSteps
<1>2. ASSUME NEW p \in Procs, InitCommand(p) PROVE Broken'
  <2>1. StartInit(p, name'[p]) \/ InitRepo(p) \/ FirstCommit(p)
    BY <1>2 DEF InitCommand, StartInit, Start, CreateMetadata, WriteMetadata,
                RemoveMetadata, Broken, TypeOK
  <2>2. \A q \in Procs : pc'[q] \in WriteSteps => pc[q] \in WriteSteps
    BY <2>1 DEF StartInit, Start, InitRepo, FirstCommit, TypeOK, WriteSteps
  <2> QED BY <1>1, <2>1, <2>2 DEF StartInit, Start, InitRepo, FirstCommit
<1>3. ASSUME NEW p \in Procs, RunCommand(p) PROVE Broken'
  <2>1. UNCHANGED file
    BY <1>3 DEF RunCommand, StartRun, Start, ReadConfig, LockInstance, OpenStore,
                AddNew, vars
  <2>2. \A q \in Procs : pc'[q] \in WriteSteps => pc[q] \in WriteSteps
    BY <1>3 DEF RunCommand, StartRun, Start, ReadConfig, LockInstance, OpenStore,
                AddNew, vars, procVars, TypeOK, WriteSteps
  <2> QED BY <1>1, <2>1, <2>2
<1>4. ASSUME NEW p \in Procs, ConnectCommand(p) PROVE Broken'
  <2>1. (\E n \in Names : StartConnect(p, n)) \/ UpdateDetached(p)
    BY <1>4 DEF ConnectCommand, ReadRegistry, Truncate, Update, Broken
  <2>2. \A q \in Procs : pc'[q] \in WriteSteps => pc[q] \in WriteSteps
    BY <2>1 DEF StartConnect, Start, UpdateDetached, Connected, Exit, TypeOK, WriteSteps
  <2> QED BY <1>1, <2>1, <2>2 DEF StartConnect, Start, UpdateDetached
<1>5. ASSUME NEW p \in Procs, Stop(p) PROVE Broken'
  BY <1>1, <1>5 DEF Stop, Exit, TypeOK, WriteSteps
<1>6. CASE UNCHANGED vars
  BY <1>6 DEF vars, procVars, Broken
<1> QED BY <1>2, <1>3, <1>4, <1>5, <1>6 DEF Next

(* The state that NeverStuck fails on is for good: no sequence of commands *)
(* in any number of processes, kills included, makes the configuration     *)
(* readable again (init.rs:32-40, main.rs:77, 104, 113).                   *)
THEOREM BrokenStays == Spec => BrokenForGood
<1>1. TypeOK /\ Broken /\ [Next]_vars => Broken'
  BY BrokenStep
<1> QED BY <1>1, TypeCorrect, PTL DEF Spec, BrokenForGood
=============================================================================
