---------------------------- MODULE AtomicReads ----------------------------
(***************************************************************************)
(* What GET /:file_path promises whoever reads the wiki                    *)
(* (src/wit-server/src/server/get.rs), without the repository, its mutex,  *)
(* the commits and the lookups: a request is answered with what one look   *)
(* at the whole wiki shows, taken at some moment between the arrival of    *)
(* the request and its answer, while others change the wiki at any time.   *)
(* PageServer implements it.                                               *)
(***************************************************************************)
CONSTANTS
    Gets,           \* GET requests, each made once
    Answers,        \* what a request can be answered
    NoAnswer        \* none of them

VARIABLES
    wiki,           \* what each request would be answered at this moment
    state,          \* how far each request is
    seen,           \* what the look at the wiki has shown
    reply           \* what was sent

vars == <<wiki, state, seen, reply>>

TypeOK ==
    /\ wiki \in [Gets -> Answers]
    /\ state \in [Gets -> {"new", "open", "done"}]
    /\ seen \in [Gets -> Answers \cup {NoAnswer}]
    /\ reply \in [Gets -> Answers \cup {NoAnswer}]

Init ==
    /\ wiki \in [Gets -> Answers]
    /\ state = [g \in Gets |-> "new"]
    /\ seen = [g \in Gets |-> NoAnswer]
    /\ reply = [g \in Gets |-> NoAnswer]

Arrive(g) ==
    /\ state[g] = "new"
    /\ state' = [state EXCEPT ![g] = "open"]
    /\ UNCHANGED <<wiki, seen, reply>>

(* The whole answer is fixed here, in one step. *)
Look(g) ==
    /\ state[g] = "open"
    /\ seen[g] = NoAnswer
    /\ seen' = [seen EXCEPT ![g] = wiki[g]]
    /\ UNCHANGED <<wiki, state, reply>>

Close(g) ==
    /\ state[g] = "open"
    /\ state' = [state EXCEPT ![g] = "done"]
    /\ seen' = [seen EXCEPT ![g] = NoAnswer]

Answer(g) ==
    /\ seen[g] # NoAnswer
    /\ Close(g)
    /\ reply' = [reply EXCEPT ![g] = seen[g]]
    /\ UNCHANGED wiki

(* The reader goes away, before or after the look. *)
GiveUp(g) == Close(g) /\ UNCHANGED <<wiki, reply>>

Change ==
    /\ wiki' \in [Gets -> Answers]
    /\ UNCHANGED <<state, seen, reply>>

Next ==
    \/ \E g \in Gets : Arrive(g) \/ Look(g) \/ Answer(g) \/ GiveUp(g)
    \/ Change

Spec == Init /\ [][Next]_vars
=============================================================================
