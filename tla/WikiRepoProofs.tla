--------------------------- MODULE WikiRepoProofs ---------------------------
(***************************************************************************)
(* Proofs about WikiRepo for any editors, files and contents and any bound *)
(* on the number of commits.                                               *)
(***************************************************************************)
EXTENDS WikiRepo, TLAPS

(* A number that is not 0 names a commit. *)
LEMMA CommitAt ==
    ASSUME TypeOK, NEW c \in Refs, c # 0
    PROVE  c \in Commits /\ commits[c] \in Commit /\ Past(c) = commits[c].past
<1>1. c \in 1..Len(commits)
  BY DEF Refs, TypeOK
<1>2. commits[c] \in Commit
  BY <1>1 DEF TypeOK
<1> QED BY <1>1, <1>2 DEF Commits, Past

(* What a clone commits is a commit, and one that can be referred to. *)
LEMMA CommittedType ==
    ASSUME TypeOK, NEW e \in Editors, MakeCommit(e)
    PROVE  /\ commits' = Append(commits, NewCommit(local[e], Past(local[e]), e))
           /\ commits' \in Seq(Commit)
           /\ Len(commits') = Len(commits) + 1
           /\ Len(commits') <= MaxCommits
           /\ local' = [local EXCEPT ![e] = Len(commits) + 1]
<1> DEFINE new == NewCommit(local[e], Past(local[e]), e)
<1>1. /\ Len(commits) < MaxCommits /\ Len(commits) \in Nat
      /\ commits' = Append(commits, new)
      /\ local' = [local EXCEPT ![e] = Len(commits')]
  BY CommitsAssumption DEF MakeCommit, Committed, TypeOK
<1>2. local[e] \in 1..Len(commits) /\ local[e] \in 0..MaxCommits
  BY <1>1, CommitsAssumption DEF MakeCommit, TypeOK, Refs
<1>3. Past(local[e]) \in SUBSET (1..MaxCommits)
  BY <1>2, CommitAt DEF Refs, Commit
<1>4. Past(local[e]) \cup {Len(commits) + 1} \in SUBSET (1..MaxCommits)
  BY <1>1, <1>3, CommitsAssumption
<1>5. new \in Commit
  BY <1>2, <1>4 DEF NewCommit, Commit, TypeOK
<1>6. commits' \in Seq(Commit) /\ Len(commits') = Len(commits) + 1
  BY <1>1, <1>5 DEF TypeOK
<1> QED BY <1>1, <1>6, CommitsAssumption

(* The parts of the type invariant that a push disturbs. *)
PushTypes ==
    /\ push \in [Editors -> {"idle", "connected", "sent"}]
    /\ seen \in [Editors -> Refs]
    /\ sent \in [Editors -> Refs]
    /\ reported \in [Editors -> Refs]

(* Every step leaves every variable in its type. *)
LEMMA TypeStep == TypeOK /\ [Next]_vars => TypeOK'
<1> SUFFICES ASSUME TypeOK, [Next]_vars PROVE TypeOK'
  OBVIOUS
<1>0. 0 \in Refs /\ Len(commits) \in Nat
  BY DEF Refs, TypeOK
<1> USE DEF pushVars, cloneVars
<1>1. ASSUME NEW e \in Editors, InitSubmodule(e) PROVE TypeOK'
  <2>1. EmptyTree \in Trees /\ (main # 0 => commits[main].tree \in Trees)
    BY ContentsAssumption, CommitAt DEF EmptyTree, Trees, TypeOK, Commit
  <2> QED BY <1>1, <2>1 DEF InitSubmodule, TypeOK, Refs
<1>2. ASSUME NEW e \in Editors, NameSubmodule(e) PROVE TypeOK'
  BY <1>2 DEF NameSubmodule, TypeOK, Refs
<1>3. ASSUME NEW e \in Editors, NEW files \in SUBSET Files, AddFiles(e, files)
      PROVE  TypeOK'
  <2>1. PICK added \in [files -> Contents] :
           index' = [index EXCEPT ![e] = [f \in Files |-> IF f \in files THEN added[f]
                                                          ELSE @[f]]]
    BY <1>3 DEF AddFiles
  <2>2. index' \in [Editors -> Trees]
    BY <2>1 DEF TypeOK, Trees
  <2> QED BY <1>3, <2>2 DEF AddFiles, TypeOK, Refs
<1>4. ASSUME NEW e \in Editors, MakeCommit(e) PROVE TypeOK'
  <2>1. Refs \subseteq Refs' /\ Len(commits) + 1 \in Refs'
    BY <1>0, <1>4, CommittedType DEF Refs
  <2>2. UNCHANGED <<main, clone, index, push, seen, sent, reported>>
        /\ staged' = [staged EXCEPT ![e] = {}]
    BY <1>4 DEF MakeCommit, Committed
  <2>3. local' \in [Editors -> Refs']
    BY <1>4, <2>1, CommittedType DEF TypeOK
  <2>4. /\ main' \in Refs'
        /\ seen' \in [Editors -> Refs'] /\ sent' \in [Editors -> Refs']
        /\ reported' \in [Editors -> Refs']
    BY <2>1, <2>2 DEF TypeOK
  <2> QED BY <1>4, <2>2, <2>3, <2>4, CommittedType DEF TypeOK
<1>5. ASSUME NEW e \in Editors, Push(e) PROVE TypeOK'
  <2>1. UNCHANGED <<commits, cloneVars>> /\ Refs' = Refs
    BY <1>5 DEF Push, Connect, Send, UpToDate, Accept, Refuse, Abort, Refs
  <2>2. main' \in Refs
    BY <1>5 DEF Push, Connect, Send, UpToDate, Accept, Refuse, Abort, TypeOK
  <2>3. PushTypes'
    BY <1>0, <1>5, <2>1
       DEF Push, Connect, Send, UpToDate, Accept, Refuse, Abort, Returns, TypeOK,
           PushTypes
  <2> QED BY <2>1, <2>2, <2>3 DEF TypeOK, PushTypes
<1>6. CASE UNCHANGED vars
  BY <1>6 DEF vars, TypeOK, Refs
<1> QED BY <1>1, <1>2, <1>3, <1>4, <1>5, <1>6 DEF Next

(* Every variable keeps its type; no branch points to a commit that does   *)
(* not exist.                                                              *)
THEOREM TypeCorrect == Spec => []TypeOK
<1>1. Init => TypeOK
  <2> SUFFICES ASSUME Init PROVE TypeOK
    OBVIOUS
  <2> DEFINE first == [parent |-> 0, past |-> {1}, tree |-> EmptyTree, staged |-> {}]
  <2>1. EmptyTree \in Trees
    BY ContentsAssumption DEF EmptyTree, Trees
  <2>2. first \in Commit
    BY <2>1, CommitsAssumption DEF Commit
  <2>3. commits \in Seq(Commit) /\ Len(commits) <= MaxCommits /\ Len(commits) \in Nat
    <3>1. CASE commits = <<>>
      BY <3>1, CommitsAssumption
    <3>2. CASE commits = <<first>>
      BY <2>2, <3>2, CommitsAssumption
    <3> QED BY <3>1, <3>2 DEF Init
  <2> QED BY <2>1, <2>3 DEF Init, TypeOK, Refs
<1> QED BY <1>1, TypeStep, PTL DEF Spec

-----------------------------------------------------------------------------
(* A commit is in its own history, with the history of all that is in it. *)
PastInv ==
    \A c \in Commits :
        /\ c \in Past(c) /\ Past(c) \subseteq Commits
        /\ \A x \in Past(c) : Past(x) \subseteq Past(c)

(* What a push was told is still part of the wiki; what it sends continues *)
(* that and comes from its own clone.                                      *)
PushInv ==
    \A e \in Editors :
        /\ push[e] # "idle" => Past(seen[e]) \subseteq Past(main)
        /\ push[e] = "sent" =>
              /\ sent[e] # 0
              /\ Past(seen[e]) \subseteq Past(sent[e])
              /\ Past(sent[e]) \subseteq Past(local[e])

(* Editors have nothing in common but what the server has. *)
PrivateInv ==
    \A e, h \in Editors : e # h => Past(local[e]) \cap Past(local[h]) \subseteq Past(main)

NewClones == \A e \in Editors : clone[e] = "none" => local[e] = 0

HistoryInv == PastInv /\ PushInv /\ PrivateInv /\ NewClones /\ AcceptedIsKept

(* The history of everything that can be referred to, by its parts. *)
LEMMA PastOf ==
    ASSUME TypeOK, PastInv, NEW c \in Refs
    PROVE  /\ c # 0 => c \in Past(c)
           /\ Past(c) \subseteq Commits
           /\ \A x \in Past(c) : x \in Refs /\ Past(x) \subseteq Past(c)
<1>1. CASE c = 0
  BY <1>1 DEF Past
<1>2. CASE c # 0
  BY <1>2, CommitAt DEF PastInv, Commits, Refs
<1> QED BY <1>1, <1>2

(* A commit adds itself to the history of its parent, and changes no other *)
(* history.                                                                *)
LEMMA CommitAdds ==
    ASSUME TypeOK, PastInv, NEW e \in Editors, MakeCommit(e),
           NEW n, n = Len(commits) + 1
    PROVE  /\ \A c \in Refs : Past(c)' = Past(c) /\ n \notin Past(c)
           /\ Past(n)' = Past(local[e]) \cup {n}
           /\ Commits' = Commits \cup {n}
           /\ n \notin Refs
<1> DEFINE new == NewCommit(local[e], Past(local[e]), e)
<1>0. Len(commits) \in Nat
  BY DEF TypeOK
<1>1. /\ commits' = Append(commits, new)
      /\ Len(commits') = Len(commits) + 1
  BY CommittedType
<1>2. \A c \in Refs : c # 0 => commits'[c] = commits[c]
  BY <1>0, <1>1 DEF Refs, TypeOK
<1>3. \A c \in Refs : Past(c)' = Past(c)
  BY <1>2 DEF Past
<1>4. commits'[n] = new
  BY <1>0, <1>1 DEF TypeOK
<1>5. Past(n)' = Past(local[e]) \cup {n}
  BY <1>0, <1>4 DEF Past, NewCommit
<1>6. \A c \in Refs : n \notin Past(c)
  BY <1>0, PastOf DEF Commits
<1>7. Commits' = Commits \cup {n} /\ n \notin Refs
  BY <1>0, <1>1 DEF Commits, Refs
<1> QED BY <1>3, <1>5, <1>6, <1>7

(* A branch of the server that only moves forward keeps what is known. *)
LEMMA HistoryFrame ==
    ASSUME HistoryInv, UNCHANGED <<commits, main, cloneVars>>, NEW e \in Editors,
           \A h \in Editors \ {e} : /\ push'[h] = push[h] /\ seen'[h] = seen[h]
                                    /\ sent'[h] = sent[h],
           push'[e] # "idle" => Past(seen'[e]) \subseteq Past(main),
           push'[e] = "sent" => /\ sent'[e] # 0
                                /\ Past(seen'[e]) \subseteq Past(sent'[e])
                                /\ Past(sent'[e]) \subseteq Past(local[e]),
           AcceptedIsKept'
    PROVE  HistoryInv'
<1>1. /\ Commits' = Commits
      /\ \A c : Past(c)' = Past(c)
  BY DEF Commits, Past
<1>2. PastInv' /\ PrivateInv' /\ NewClones'
  BY <1>1 DEF HistoryInv, PastInv, PrivateInv, NewClones, cloneVars
<1>3. PushInv'
  BY <1>1 DEF HistoryInv, PushInv, cloneVars
<1> QED BY <1>2, <1>3 DEF HistoryInv

(* Every step keeps the histories in order, and that of the wiki growing.  *)
LEMMA HistoryStep ==
    TypeOK /\ HistoryInv /\ [Next]_vars =>
        HistoryInv' /\ Past(main) \subseteq Past(main)'
<1> SUFFICES ASSUME TypeOK, HistoryInv, [Next]_vars
             PROVE  HistoryInv' /\ Past(main) \subseteq Past(main)'
  OBVIOUS
<1>0. PastInv /\ PushInv /\ PrivateInv /\ NewClones /\ AcceptedIsKept
  BY DEF HistoryInv
<1> USE DEF pushVars
<1>1. ASSUME UNCHANGED commits
      PROVE  Commits' = Commits /\ \A c : Past(c)' = Past(c)
  BY <1>1 DEF Commits, Past
<1>2. ASSUME NEW e \in Editors, InitSubmodule(e)
      PROVE  HistoryInv' /\ Past(main) \subseteq Past(main)'
  <2>1. /\ local' = [local EXCEPT ![e] = main] /\ local[e] = 0
        /\ clone' = [clone EXCEPT ![e] = "cloned"]
        /\ UNCHANGED <<commits, main, push, seen, sent, reported>>
    BY <1>0, <1>2 DEF InitSubmodule, NewClones
  <2>2. Past(0) = {}
    BY DEF Past
  <2>3. PastInv' /\ AcceptedIsKept'
    BY <1>0, <1>1, <2>1 DEF PastInv, AcceptedIsKept
  <2>4. PushInv'
    BY <1>0, <1>1, <2>1, <2>2 DEF PushInv, TypeOK
  <2>5. PrivateInv' /\ NewClones'
    BY <1>0, <1>1, <2>1 DEF PrivateInv, NewClones, TypeOK
  <2> QED BY <1>1, <2>1, <2>3, <2>4, <2>5 DEF HistoryInv
<1>3. ASSUME NEW e \in Editors, NameSubmodule(e) \/ \E f \in SUBSET Files : AddFiles(e, f)
      PROVE  HistoryInv' /\ Past(main) \subseteq Past(main)'
  <2>1. /\ UNCHANGED <<commits, main, local, push, seen, sent, reported>>
        /\ \A h \in Editors : clone'[h] = "none" => clone[h] = "none"
    BY <1>3 DEF NameSubmodule, AddFiles, TypeOK
  <2> QED BY <1>0, <1>1, <2>1
          DEF HistoryInv, PastInv, PushInv, PrivateInv, NewClones, AcceptedIsKept
<1>4. ASSUME NEW e \in Editors, MakeCommit(e)
      PROVE  HistoryInv' /\ Past(main) \subseteq Past(main)'
  <2> DEFINE n == Len(commits) + 1
  <2>1. /\ \A c \in Refs : Past(c)' = Past(c) /\ n \notin Past(c)
        /\ (\A m : m = n => Past(m)' = Past(local[e]) \cup {n})
        /\ Commits' = Commits \cup {n}
        /\ n \notin Refs
    BY <1>0, <1>4, CommitAdds
  <2>2. /\ local' = [local EXCEPT ![e] = n]
        /\ UNCHANGED <<main, clone, push, seen, sent, reported>>
        /\ clone[e] = "named"
    BY <1>4, CommittedType DEF MakeCommit, Committed
  <2>3. /\ main \in Refs /\ local \in [Editors -> Refs]
        /\ seen \in [Editors -> Refs] /\ sent \in [Editors -> Refs]
        /\ Commits \subseteq Refs
    BY DEF TypeOK, Commits, Refs
  <2> HIDE DEF n
  <2>4. PastInv'
    <3> SUFFICES ASSUME NEW c \in Commits'
                 PROVE  /\ c \in Past(c)' /\ Past(c)' \subseteq Commits'
                        /\ \A x \in Past(c)' : Past(x)' \subseteq Past(c)'
      BY DEF PastInv
    <3>1. CASE c \in Commits
      BY <1>0, <2>1, <2>3, <3>1 DEF PastInv
    <3>2. CASE c = n
      BY <1>0, <2>1, <2>3, <3>2, PastOf
    <3> QED BY <2>1, <3>1, <3>2
  <2>5. PushInv'
    BY <1>0, <2>1, <2>2, <2>3 DEF PushInv
  <2>6. PrivateInv'
    <3> SUFFICES ASSUME NEW h \in Editors, NEW g \in Editors, h # g
                 PROVE  Past(local[h])' \cap Past(local[g])' \subseteq Past(main)'
      BY DEF PrivateInv
    <3>1. \A i \in Editors \ {e} : Past(local[i])' = Past(local[i])
      BY <2>1, <2>2, <2>3
    <3>2. Past(local[e])' = Past(local[e]) \cup {n}
      BY <2>1, <2>2, <2>3
    <3>3. Past(main)' = Past(main)
      BY <2>1, <2>2, <2>3
    <3> QED BY <1>0, <2>1, <2>3, <3>1, <3>2, <3>3 DEF PrivateInv
  <2>7. NewClones'
    BY <1>0, <2>2 DEF NewClones, TypeOK
  <2>8. AcceptedIsKept'
    BY <1>0, <2>1, <2>2, <2>3 DEF AcceptedIsKept
  <2> QED BY <2>1, <2>2, <2>3, <2>4, <2>5, <2>6, <2>7, <2>8 DEF HistoryInv
<1>5. ASSUME NEW e \in Editors, Push(e)
      PROVE  HistoryInv' /\ Past(main) \subseteq Past(main)'
  <2>0. UNCHANGED <<commits, cloneVars>>
    BY <1>5 DEF Push, Connect, Send, UpToDate, Accept, Refuse, Abort
  <2>1. ASSUME UNCHANGED <<main, reported>>, push'[e] = "idle" \/ Connect(e) \/ Send(e),
               \A h \in Editors \ {e} : /\ push'[h] = push[h] /\ seen'[h] = seen[h]
                                        /\ sent'[h] = sent[h]
        PROVE  HistoryInv'
    <3>1. AcceptedIsKept'
      BY <1>0, <1>1, <2>0, <2>1 DEF AcceptedIsKept
    <3>2. CASE push'[e] = "idle"
      BY <2>0, <2>1, <3>1, <3>2, HistoryFrame
    <3>3. CASE Connect(e)
      <4>1. push'[e] = "connected" /\ seen'[e] = main
        BY <3>3 DEF Connect, TypeOK
      <4> QED BY <2>0, <2>1, <3>1, <4>1, HistoryFrame
    <3>4. CASE Send(e)
      <4>1. /\ push'[e] = "sent" /\ push[e] = "connected"
            /\ sent'[e] = local[e] /\ seen'[e] = seen[e]
            /\ local[e] # seen[e]
            /\ seen[e] = 0 \/ seen[e] \in Past(local[e])
        BY <3>4 DEF Send, TypeOK
      <4>2. Past(0) = {}
        BY DEF Past
      <4>3. local[e] # 0 /\ Past(seen[e]) \subseteq Past(local[e])
        BY <1>0, <4>1, <4>2, PastOf DEF TypeOK
      <4>4. Past(seen[e]) \subseteq Past(main)
        BY <1>0, <4>1 DEF PushInv
      <4> QED BY <2>0, <2>1, <3>1, <4>1, <4>3, <4>4, HistoryFrame
    <3> QED BY <2>1, <3>2, <3>3, <3>4
  <2>2. CASE Connect(e) \/ Send(e)
    BY <1>1, <2>0, <2>1, <2>2 DEF Connect, Send, TypeOK
  <2>3. CASE Refuse(e) \/ Abort(e)
    BY <1>1, <2>0, <2>1, <2>3 DEF Refuse, Abort, Returns, TypeOK
  <2>4. CASE UpToDate(e)
    <3>1. /\ UNCHANGED main
          /\ push[e] = "connected" /\ local[e] = seen[e]
          /\ reported' = [reported EXCEPT ![e] = local[e]]
          /\ push'[e] = "idle"
          /\ \A h \in Editors \ {e} : /\ push'[h] = push[h] /\ seen'[h] = seen[h]
                                       /\ sent'[h] = sent[h]
      BY <2>4 DEF UpToDate, Returns, TypeOK
    <3>2. local[e] # 0 => local[e] \in Past(main)
      BY <1>0, <3>1, PastOf DEF PushInv, TypeOK
    <3>3. AcceptedIsKept'
      BY <1>0, <1>1, <2>0, <3>1, <3>2 DEF AcceptedIsKept, TypeOK
    <3>4. HistoryInv'
      BY <2>0, <3>1, <3>3, HistoryFrame
    <3> QED BY <1>1, <2>0, <3>1, <3>4
  <2>5. CASE Accept(e)
    <3>1. /\ push[e] = "sent" /\ main = seen[e] /\ main' = sent[e]
          /\ \A h \in Editors : reported'[h] \in {reported[h], sent[e]}
          /\ push'[e] = "idle"
          /\ \A h \in Editors \ {e} : /\ push'[h] = push[h] /\ seen'[h] = seen[h]
                                       /\ sent'[h] = sent[h]
      BY <2>5 DEF Accept, Returns, TypeOK
    <3>2. /\ sent[e] # 0 /\ sent[e] \in Refs
          /\ Past(main) \subseteq Past(sent[e])
      BY <1>0, <3>1 DEF PushInv, TypeOK
    <3>3. Commits' = Commits /\ (\A c : Past(c)' = Past(c)) /\ Past(main)' = Past(sent[e])
      BY <1>1, <2>0, <3>1
    <3>4. PastInv' /\ PrivateInv' /\ NewClones'
      BY <1>0, <2>0, <3>2, <3>3 DEF PastInv, PrivateInv, NewClones, cloneVars
    <3>5. PushInv'
      BY <1>0, <2>0, <3>1, <3>2, <3>3 DEF PushInv, cloneVars
    <3>6. AcceptedIsKept'
      BY <1>0, <3>1, <3>2, <3>3, PastOf DEF AcceptedIsKept
    <3> QED BY <3>2, <3>3, <3>4, <3>5, <3>6 DEF HistoryInv
  <2> QED BY <1>5, <2>2, <2>3, <2>4, <2>5 DEF Push
<1>6. CASE UNCHANGED vars
  BY <1>0, <1>1, <1>6
     DEF vars, cloneVars, HistoryInv, PastInv, PushInv, PrivateInv, NewClones,
         AcceptedIsKept
<1> QED BY <1>2, <1>3, <1>4, <1>5, <1>6 DEF Next

(* Histories are in order in every reachable state.                        *)
THEOREM HistoriesInOrder == Spec => []HistoryInv
<1>1. Init => HistoryInv
  <2> SUFFICES ASSUME Init PROVE HistoryInv
    OBVIOUS
  <2>1. \A c \in Commits : c = 1 /\ Past(c) = {1}
    BY DEF Init, Commits, Past
  <2>2. PastInv
    BY <2>1 DEF PastInv
  <2>3. \A e \in Editors : Past(local[e]) = {}
    BY DEF Init, Past
  <2> QED BY <2>2, <2>3
          DEF Init, HistoryInv, PushInv, PrivateInv, NewClones, AcceptedIsKept
<1> QED BY <1>1, HistoryStep, TypeCorrect, PTL DEF Spec

(* A push that returned is kept, whoever pushes afterwards                 *)
(* (lib.rs:169-191).                                                       *)
THEOREM PushesAreKept == Spec => []AcceptedIsKept
<1>1. HistoryInv => AcceptedIsKept
  BY DEF HistoryInv
<1> QED BY <1>1, HistoriesInOrder, PTL

(* No push takes back a revision of the wiki (lib.rs:185-190).             *)
THEOREM WikiMovesForward == Spec => HistoryGrows
<1>1. TypeOK /\ HistoryInv /\ [Next]_vars => [Past(main) \subseteq Past(main)']_vars
  BY HistoryStep
<1> QED BY <1>1, TypeCorrect, HistoriesInOrder, PTL DEF Spec, HistoryGrows

-----------------------------------------------------------------------------
(* Who is behind the server with commits of their own stays so. *)
LEMMA OvertakenStep ==
    ASSUME TypeOK, HistoryInv, [Next]_vars, NEW h \in Editors, Overtaken(h)
    PROVE  Overtaken(h)'
<1>0. PastInv /\ PushInv /\ PrivateInv /\ NewClones
  BY DEF HistoryInv
<1>a. /\ main \in Refs /\ local \in [Editors -> Refs]
  BY DEF TypeOK
<1>1. ASSUME UNCHANGED <<commits, main>>, local'[h] = local[h] PROVE Overtaken(h)'
  <2>1. \A c : Past(c)' = Past(c)
    BY <1>1 DEF Past
  <2> QED BY <1>1, <2>1 DEF Overtaken
<1>2. ASSUME NEW e \in Editors, InitSubmodule(e) PROVE Overtaken(h)'
  <2>1. e # h
    BY <1>0, <1>2 DEF InitSubmodule, NewClones, Overtaken, Past
  <2> QED BY <1>1, <1>2, <2>1 DEF InitSubmodule, TypeOK
<1>3. ASSUME NEW e \in Editors, NameSubmodule(e) \/ \E f \in SUBSET Files : AddFiles(e, f)
      PROVE  Overtaken(h)'
  BY <1>1, <1>3 DEF NameSubmodule, AddFiles
<1>4. ASSUME NEW e \in Editors, MakeCommit(e) PROVE Overtaken(h)'
  <2> DEFINE n == Len(commits) + 1
  <2>1. /\ \A c \in Refs : Past(c)' = Past(c) /\ n \notin Past(c)
        /\ (\A m : m = n => Past(m)' = Past(local[e]) \cup {n})
    BY <1>0, <1>4, CommitAdds
  <2>2. local' = [local EXCEPT ![e] = n] /\ main' = main
    BY <1>4, CommittedType DEF MakeCommit, Committed
  <2> HIDE DEF n
  <2>3. Past(main)' = Past(main) /\ n \notin Past(main)
    BY <1>a, <2>1, <2>2
  <2>4. \/ Past(local[h])' = Past(local[h])
        \/ Past(local[h])' = Past(local[h]) \cup {n}
    BY <1>a, <2>1, <2>2
  <2> QED BY <2>3, <2>4 DEF Overtaken
<1>5. ASSUME NEW e \in Editors, Accept(e) PROVE Overtaken(h)'
  <2>1. /\ push[e] = "sent" /\ main = seen[e] /\ main' = sent[e]
        /\ UNCHANGED <<commits, local>>
    BY <1>5 DEF Accept, cloneVars
  <2>2. /\ Past(main) \subseteq Past(sent[e])
        /\ Past(sent[e]) \subseteq Past(local[e])
    BY <1>0, <2>1 DEF PushInv
  <2>3. e # h
    BY <2>2 DEF Overtaken
  <2>4. Past(local[h]) \cap Past(local[e]) \subseteq Past(main)
    BY <1>0, <2>3 DEF PrivateInv
  <2>5. Past(main)' = Past(sent[e]) /\ Past(local[h])' = Past(local[h])
    BY <2>1 DEF Past
  <2> QED BY <2>2, <2>4, <2>5 DEF Overtaken
<1>6. ASSUME NEW e \in Editors,
             Connect(e) \/ Send(e) \/ UpToDate(e) \/ Refuse(e) \/ Abort(e)
      PROVE  Overtaken(h)'
  BY <1>1, <1>6 DEF Connect, Send, UpToDate, Refuse, Abort, cloneVars
<1>7. CASE UNCHANGED vars
  BY <1>1, <1>7 DEF vars, cloneVars
<1> QED BY <1>2, <1>3, <1>4, <1>5, <1>6, <1>7 DEF Next, Push

(* An editor who was overtaken can never publish again with the library,   *)
(* which has no fetch and no merge (lib.rs:135-191).                       *)
THEOREM OvertakenStay == Spec => OvertakenForGood
<1>1. TypeOK /\ HistoryInv /\ [Next]_vars =>
          [\A e \in Editors : Overtaken(e) => Overtaken(e)']_vars
  BY OvertakenStep
<1> QED BY <1>1, TypeCorrect, HistoriesInOrder, PTL DEF Spec, OvertakenForGood

-----------------------------------------------------------------------------
(* An index differs from the commit under it in added files only, and      *)
(* parents are commits that exist.                                         *)
IndexInv ==
    /\ \A e \in Editors : local[e] # 0 =>
          \A f \in Files :
              index[e][f] # commits[local[e]].tree[f] => f \in staged[e]
    /\ \A c \in Commits : commits[c].parent \in Refs

(* Every step keeps indexes next to their commits, and with them commits   *)
(* next to their parents.                                                  *)
LEMMA IndexStep ==
    TypeOK /\ IndexInv /\ NoSilentRevert /\ [Next]_vars => IndexInv' /\ NoSilentRevert'
<1> SUFFICES ASSUME TypeOK, IndexInv, NoSilentRevert, [Next]_vars
             PROVE  IndexInv' /\ NoSilentRevert'
  OBVIOUS
<1>1. ASSUME UNCHANGED <<commits, local, index, staged>>
      PROVE  IndexInv' /\ NoSilentRevert'
  BY <1>1 DEF IndexInv, NoSilentRevert, Commits, Refs
<1>2. ASSUME NEW e \in Editors, InitSubmodule(e) PROVE IndexInv' /\ NoSilentRevert'
  <2>1. /\ local' = [local EXCEPT ![e] = main]
        /\ main # 0 => index' = [index EXCEPT ![e] = commits[main].tree]
        /\ \A h \in Editors \ {e} : index'[h] = index[h]
        /\ UNCHANGED <<commits, staged>>
    BY <1>2 DEF InitSubmodule, TypeOK
  <2> QED BY <2>1 DEF IndexInv, NoSilentRevert, Commits, Refs, TypeOK
<1>3. ASSUME NEW e \in Editors, NEW files \in SUBSET Files, AddFiles(e, files)
      PROVE  IndexInv' /\ NoSilentRevert'
  <2>1. /\ \A f \in Files \ files : index'[e][f] = index[e][f]
        /\ staged'[e] = staged[e] \cup files
        /\ \A h \in Editors \ {e} : index'[h] = index[h] /\ staged'[h] = staged[h]
        /\ UNCHANGED <<commits, local>>
    BY <1>3 DEF AddFiles, TypeOK, Trees
  <2>2. IndexInv'
    BY <2>1 DEF IndexInv, Commits, Refs
  <2> QED BY <2>1, <2>2 DEF NoSilentRevert, Commits
<1>4. ASSUME NEW e \in Editors, MakeCommit(e) PROVE IndexInv' /\ NoSilentRevert'
  <2> DEFINE n == Len(commits) + 1
             new == NewCommit(local[e], Past(local[e]), e)
  <2>0. Len(commits) \in Nat
    BY DEF TypeOK
  <2>1. /\ commits' = Append(commits, new) /\ Len(commits') = n
        /\ local' = [local EXCEPT ![e] = n]
        /\ staged' = [staged EXCEPT ![e] = {}] /\ index' = index
    BY <1>4, CommittedType DEF MakeCommit, Committed
  <2>2. \A c \in Commits : commits'[c] = commits[c]
    BY <2>0, <2>1 DEF Commits, TypeOK
  <2>3. commits'[n] = new /\ Commits' = Commits \cup {n}
    BY <2>0, <2>1 DEF Commits, TypeOK
  <2>4. new.parent = local[e] /\ new.tree = index[e] /\ new.staged = staged[e]
    BY DEF NewCommit
  <2>5. \A c \in Refs : c # 0 => c \in Commits
    BY CommitAt
  <2>6. \A c \in Commits : commits[c].parent # 0 => commits[c].parent \in Commits
    BY <2>5 DEF IndexInv
  <2>7. Refs \subseteq Refs' /\ local \in [Editors -> Refs]
    BY <2>0, <2>1 DEF Refs, TypeOK
  <2> HIDE DEF n, new
  <2>8. ASSUME NEW h \in Editors, local'[h] # 0, NEW f \in Files,
               index'[h][f] # commits'[local'[h]].tree[f]
        PROVE  f \in staged'[h]
    <3>1. CASE h = e
      <4>1. local'[h] = n /\ index'[h] = index[e]
        BY <2>1, <2>7, <3>1
      <4> QED BY <2>3, <2>4, <2>8, <4>1
    <3>2. CASE h # e
      <4>1. local'[h] = local[h] /\ staged'[h] = staged[h] /\ index' = index
        BY <2>1, <3>2 DEF TypeOK
      <4>2. commits'[local[h]] = commits[local[h]]
        BY <2>2, <2>5, <2>7, <2>8, <4>1
      <4> QED BY <2>8, <4>1, <4>2 DEF IndexInv
    <3> QED BY <3>1, <3>2
  <2>9. \A c \in Commits' : commits'[c].parent \in Refs'
    BY <2>2, <2>3, <2>4, <2>7 DEF IndexInv
  <2>10. NoSilentRevert'
    BY <2>2, <2>3, <2>4, <2>5, <2>6, <2>7 DEF NoSilentRevert, IndexInv
  <2> QED BY <2>8, <2>9, <2>10 DEF IndexInv
<1>5. ASSUME NEW e \in Editors, NameSubmodule(e) \/ Push(e)
      PROVE  IndexInv' /\ NoSilentRevert'
  BY <1>1, <1>5 DEF NameSubmodule, Push, Connect, Send, UpToDate, Accept, Refuse,
                    Abort, cloneVars
<1>6. CASE UNCHANGED vars
  BY <1>1, <1>6 DEF vars, cloneVars
<1> QED BY <1>2, <1>3, <1>4, <1>5, <1>6 DEF Next

(* A commit changes only what its author added since the last one          *)
(* (lib.rs:123-165).                                                       *)
THEOREM NothingReverted == Spec => []NoSilentRevert
<1>1. Init => IndexInv /\ NoSilentRevert
  BY DEF Init, IndexInv, NoSilentRevert, Commits, Refs
<1> QED BY <1>1, IndexStep, TypeCorrect, PTL DEF Spec
=============================================================================
