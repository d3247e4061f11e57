------------------------------ MODULE WikiRepo ------------------------------
(***************************************************************************)
(* Editors of a wiki (src/wit-client/src/lib.rs): each has a clone of the  *)
(* wiki as a submodule of a repository of their own, stages files, commits *)
(* on their branch and pushes refs/heads/main over HTTP to the server's    *)
(* repository, where git-http-backend moves the branch if it still is      *)
(* where the editor saw it.  The library has no fetch and no merge.        *)
(*                                                                         *)
(* Commits are numbers, 0 is no commit.  The pages that PageServer reads   *)
(* are the trees that `main` goes through.  Left out is the index of the   *)
(* outer repository, where commit() notes the new commit for later use.    *)
(***************************************************************************)
EXTENDS Naturals, Sequences

CONSTANTS
    Editors,        \* each with one clone
    Files,          \* paths in the wiki, except that of README.md
    Contents,       \* contents of a file, its absence included
    Absent,         \* the content of a file that is not there
    MaxCommits      \* bound on the number of commits made

ASSUME ContentsAssumption == Absent \in Contents
ASSUME CommitsAssumption == MaxCommits \in Nat \ {0}

VARIABLES
    commits,        \* the commits made so far, in all clones
    main,           \* refs/heads/main of the server
    clone,          \* how far init_submodule came
    local,          \* refs/heads/main, which is HEAD, of each clone
    index,          \* the index of each clone
    staged,         \* the files added to it since the last commit
    push,           \* where each push is
    seen,           \* the server's main as the push was told
    sent,           \* the commit it pushes
    reported        \* the last commit whose push returned without a panic

cloneVars == <<clone, local, index, staged>>
pushVars == <<push, seen, sent, reported>>
vars == <<commits, main, cloneVars, pushVars>>

-----------------------------------------------------------------------------
Trees == [Files -> Contents]

Commits == 1..Len(commits)

Refs == 0..Len(commits)

(* A commit names its tree and, through its parent, everything before it. *)
Commit == [parent : 0..MaxCommits, past : SUBSET (1..MaxCommits),
           tree : Trees, staged : SUBSET Files]

(* The history of a branch, the commit it points to included. *)
Past(c) == IF c = 0 THEN {} ELSE commits[c].past

TypeOK ==
    /\ commits \in Seq(Commit)
    /\ Len(commits) <= MaxCommits
    /\ main \in Refs
    /\ clone \in [Editors -> {"none", "cloned", "named"}]
    /\ local \in [Editors -> Refs]
    /\ index \in [Editors -> Trees]
    /\ staged \in [Editors -> SUBSET Files]
    /\ push \in [Editors -> {"idle", "connected", "sent"}]
    /\ seen \in [Editors -> Refs]
    /\ sent \in [Editors -> Refs]
    /\ reported \in [Editors -> Refs]

EmptyTree == [f \in Files |-> Absent]

(* wit-server init commits an empty README.md, unless it dies before. *)
Init ==
    /\ commits \in {<<>>, <<[parent |-> 0, past |-> {1}, tree |-> EmptyTree,
                            staged |-> {}]>>}
    /\ main = Len(commits)
    /\ index = [e \in Editors |-> EmptyTree]
    /\ clone = [e \in Editors |-> "none"]
    /\ local = [e \in Editors |-> 0]
    /\ staged = [e \in Editors |-> {}]
    /\ push = [e \in Editors |-> "idle"]
    /\ seen = [e \in Editors |-> 0]
    /\ sent = [e \in Editors |-> 0]
    /\ reported = [e \in Editors |-> 0]

-----------------------------------------------------------------------------
(* init_submodule: the submodule is cloned and checked out; then it gets   *)
(* the name by which the other functions find it.  A panic in between      *)
(* leaves a clone they do not find.                                        *)
InitSubmodule(e) ==
    /\ clone[e] = "none"
    /\ clone' = [clone EXCEPT ![e] = "cloned"]
    /\ local' = [local EXCEPT ![e] = main]
    /\ index' = [index EXCEPT ![e] = IF main = 0 THEN EmptyTree
                                               ELSE commits[main].tree]
    /\ UNCHANGED <<commits, main, staged, pushVars>>

NameSubmodule(e) ==
    /\ clone[e] = "cloned"
    /\ clone' = [clone EXCEPT ![e] = "named"]
    /\ UNCHANGED <<commits, main, local, index, staged, pushVars>>

(* The named files go into the index as the editor left them on disk. *)
AddFiles(e, files) ==
    /\ clone[e] = "named"
    /\ \E added \in [files -> Contents] :
          index' = [index EXCEPT ![e] = [f \in Files |-> IF f \in files THEN added[f]
                                                         ELSE @[f]]]
    /\ staged' = [staged EXCEPT ![e] = @ \cup files]
    /\ UNCHANGED <<commits, main, clone, local, pushVars>>

NewCommit(parent, past, e) ==
    [parent |-> parent, past |-> past \cup {Len(commits) + 1},
     tree |-> index[e], staged |-> staged[e]]

(* Mutant of Committed: the branch moves although the commit object could  *)
(* not be written.                                                         *)
CommittedDangling(e, new) ==
    /\ Len(commits) < MaxCommits
    /\ local' = [local EXCEPT ![e] = Len(commits) + 1]
    /\ staged' = [staged EXCEPT ![e] = {}]
    /\ UNCHANGED <<commits, main, clone, index, pushVars>>

Committed(e, new) ==
    /\ Len(commits) < MaxCommits
    /\ commits' = Append(commits, new)
    /\ local' = [local EXCEPT ![e] = Len(commits')]
    /\ staged' = [staged EXCEPT ![e] = {}]
    /\ UNCHANGED <<main, clone, index, pushVars>>

(* Mutant of MakeCommit: on top of the server's branch, so that the push   *)
(* is not refused.                                                         *)
MakeCommitOnMain(e) ==
    /\ clone[e] = "named"
    /\ local[e] # 0
    /\ Committed(e, NewCommit(main, Past(main), e))

(* Mutant of MakeCommit: with the server's branch as a second parent. *)
MakeCommitMerging(e) ==
    /\ clone[e] = "named"
    /\ local[e] # 0
    /\ Committed(e, NewCommit(local[e], Past(local[e]) \cup Past(main), e))

(* commit(): the whole index as a tree, HEAD as the parent; a branch       *)
(* without a commit makes it panic.                                        *)
MakeCommit(e) ==
    /\ clone[e] = "named"
    /\ local[e] # 0
    /\ Committed(e, NewCommit(local[e], Past(local[e]), e))

-----------------------------------------------------------------------------
Returns(e) ==
    /\ push' = [push EXCEPT ![e] = "idle"]
    /\ seen' = [seen EXCEPT ![e] = 0]
    /\ sent' = [sent EXCEPT ![e] = 0]

(* push(): connect, and learn where the server's branch is. *)
Connect(e) ==
    /\ clone[e] = "named"
    /\ push[e] = "idle"
    /\ push' = [push EXCEPT ![e] = "connected"]
    /\ seen' = [seen EXCEPT ![e] = main]
    /\ UNCHANGED <<commits, main, cloneVars, sent, reported>>

(* Mutant of Send: "+refs/heads/main". *)
SendForced(e) ==
    /\ push[e] = "connected"
    /\ local[e] # 0
    /\ push' = [push EXCEPT ![e] = "sent"]
    /\ sent' = [sent EXCEPT ![e] = local[e]]
    /\ UNCHANGED <<commits, main, cloneVars, seen, reported>>

(* Only a fast-forward of the branch that was seen is sent; anything else  *)
(* is an error of libgit2, which push() unwraps.                           *)
Send(e) ==
    /\ push[e] = "connected"
    /\ local[e] # seen[e]
    /\ seen[e] = 0 \/ seen[e] \in Past(local[e])
    /\ push' = [push EXCEPT ![e] = "sent"]
    /\ sent' = [sent EXCEPT ![e] = local[e]]
    /\ UNCHANGED <<commits, main, cloneVars, seen, reported>>

UpToDate(e) ==
    /\ push[e] = "connected"
    /\ local[e] = seen[e]
    /\ reported' = [reported EXCEPT ![e] = local[e]]
    /\ Returns(e)
    /\ UNCHANGED <<commits, main, cloneVars>>

(* receive-pack compares and swaps.  The answer may get lost, and push()   *)
(* then panics although the branch has moved.                              *)
Accept(e) ==
    /\ push[e] = "sent"
    /\ main = seen[e]
    /\ main' = sent[e]
    /\ reported' \in {[reported EXCEPT ![e] = sent[e]], reported}
    /\ Returns(e)
    /\ UNCHANGED <<commits, cloneVars>>

(* Mutant of Refuse: without the callback, libgit2 reports success. *)
RefuseUnnoticed(e) ==
    /\ push[e] = "sent"
    /\ main # seen[e]
    /\ reported' = [reported EXCEPT ![e] = sent[e]]
    /\ Returns(e)
    /\ UNCHANGED <<commits, main, cloneVars>>

(* push_update_reference is told why, and panics. *)
Refuse(e) ==
    /\ push[e] = "sent"
    /\ main # seen[e]
    /\ Returns(e)
    /\ UNCHANGED <<commits, main, cloneVars, reported>>

(* No fast-forward, a lost connection, or the end of the process. *)
Abort(e) ==
    /\ push[e] # "idle"
    /\ Returns(e)
    /\ UNCHANGED <<commits, main, cloneVars, reported>>

Push(e) ==
    Connect(e) \/ Send(e) \/ UpToDate(e) \/ Accept(e) \/ Refuse(e) \/ Abort(e)

Next ==
    \E e \in Editors :
        \/ InitSubmodule(e)
        \/ NameSubmodule(e)
        \/ \E files \in SUBSET Files : AddFiles(e, files)
        \/ MakeCommit(e)
        \/ Push(e)

Spec == Init /\ [][Next]_vars

-----------------------------------------------------------------------------
(* A push that returned is kept: its commit stays in the history of the    *)
(* wiki, whoever pushes afterwards; a refused push never looks like an     *)
(* accepted one (lib.rs:169-191).                                          *)
AcceptedIsKept == \A e \in Editors : reported[e] # 0 => reported[e] \in Past(main)

(* The wiki only moves forward: no push takes back a revision that         *)
(* somebody may have read or linked to, in particular none that was        *)
(* prepared before it (lib.rs:185-190).                                    *)
HistoryGrows == [][Past(main) \subseteq Past(main)']_vars

(* A commit changes nothing in the wiki but what its author added since    *)
(* the last one: the index a commit takes as a whole is never older than   *)
(* its parent, so no other editor's change is undone in silence            *)
(* (lib.rs:123-165).                                                       *)
NoSilentRevert ==
    \A c \in Commits : commits[c].parent # 0 =>
        \A f \in Files :
            commits[c].tree[f] # commits[commits[c].parent].tree[f] =>
                f \in commits[c].staged

(* The editor has commits that the server has not, and the other way round. *)
Overtaken(e) ==
    /\ Past(local[e]) \ Past(main) # {}
    /\ Past(main) \ Past(local[e]) # {}

(* The price: without fetch and merge, an editor whose commits were        *)
(* overtaken by another's push can never publish with the library again.   *)
OvertakenForGood == [][\A e \in Editors : Overtaken(e) => Overtaken(e)']_vars
=============================================================================
