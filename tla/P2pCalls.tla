------------------------------ MODULE P2pCalls ------------------------------
(***************************************************************************)
(* What KadClient promises its callers: the contract of start_listening,  *)
(* dial, start_providing, get_providers and request_file, without the     *)
(* event loop, the channels and the maps that implement it.  Each of the  *)
(* five methods is                                                         *)
(*                                                                         *)
(*     timeout(8 s, async { command channel.send(..).await?;              *)
(*                          oneshot receiver.await? })                    *)
(*                                                                         *)
(* so a call is issued, its command is executed at most once (perhaps     *)
(* only after the caller has given up), and the call returns once.        *)
(* P2pEventLoop implements this contract and PageServer relies on it.     *)
(***************************************************************************)
CONSTANT
    Calls           \* the calls made during a behaviour, each made once

VARIABLES
    outcome,        \* what the caller of each call has seen so far
    executed        \* the calls whose command the event loop has taken up

vars == <<outcome, executed>>

(* "timeout": the 8 s timer fired; "dropped": the oneshot sender went away *)
(* without a value; "unsent": the command channel was closed.              *)
Returned == {"ok", "err", "timeout", "dropped", "unsent"}

TypeOK ==
    /\ outcome \in [Calls -> {"idle", "open"} \cup Returned]
    /\ executed \subseteq Calls

-----------------------------------------------------------------------------
Init ==
    /\ outcome = [c \in Calls |-> "idle"]
    /\ executed = {}

(* An answer takes an executed command; a closed command channel never     *)
(* delivered it.                                                           *)
MayReturn(c, o) ==
    /\ outcome[c] = "open"
    /\ o \in {"ok", "err"} => c \in executed
    /\ o = "unsent" => c \notin executed

Issue(c) ==
    /\ outcome[c] = "idle"
    /\ \E o \in {"open", "unsent"} : outcome' = [outcome EXCEPT ![c] = o]
    /\ UNCHANGED executed

(* Dropping a timed-out future does not call its command back, so a call   *)
(* that has returned "timeout" may still be executed, once.  StartListening*)
(* and a refused Dial or StartProviding are answered in the same step.     *)
Execute(c) ==
    /\ c \notin executed
    /\ outcome[c] \in {"open", "timeout"}
    /\ executed' = executed \cup {c}
    /\ \/ UNCHANGED outcome
       \/ /\ outcome[c] = "open"
          /\ \E o \in {"ok", "err", "dropped"} :
                outcome' = [outcome EXCEPT ![c] = o]

Return(c, o) ==
    /\ MayReturn(c, o)
    /\ outcome' = [outcome EXCEPT ![c] = o]
    /\ UNCHANGED executed

(* The event loop's task ends: nobody is left to answer.                   *)
Disconnect ==
    /\ \E lost \in SUBSET {c \in Calls : MayReturn(c, "unsent")} :
          outcome' = [c \in Calls |->
                        IF outcome[c] # "open" THEN outcome[c]
                        ELSE IF c \in lost THEN "unsent" ELSE "dropped"]
    /\ UNCHANGED executed

Next ==
    \/ \E c \in Calls : Issue(c) \/ Execute(c)
    \/ \E c \in Calls, o \in Returned : Return(c, o)
    \/ Disconnect

Spec == Init /\ [][Next]_vars

-----------------------------------------------------------------------------
(* An answer is earned: Ok or an error from the swarm is only ever seen    *)
(* for a command the loop took up, and a send error only for one it never  *)
(* will (KadClient methods, kad_client.rs:116-212).                        *)
AnswersAreEarned ==
    \A c \in Calls :
        /\ outcome[c] \in {"ok", "err"} => c \in executed
        /\ outcome[c] = "unsent" => c \notin executed

(* A call returns once, and an executed command is not executed again or   *)
(* undone: each step that changes an outcome moves an unfinished call.     *)
ReturnsOnce ==
    [][/\ \A c \in Calls : outcome[c] \in Returned => outcome'[c] = outcome[c]
       /\ executed \subseteq executed']_vars
=============================================================================
