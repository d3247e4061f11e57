--------------------------- MODULE P2pCallsProofs ---------------------------
(* Proofs about the contract P2pCalls, for any set of calls. *)
EXTENDS P2pCalls, TLAPS

(* Outcomes and executions keep their shape, whatever the calls do.        *)
THEOREM TypeCorrect == Spec => []TypeOK
<1> USE DEF TypeOK, Returned
<1>1. Init => TypeOK
  BY DEF Init
<1>2. TypeOK /\ [Next]_vars => TypeOK'
  <2> SUFFICES ASSUME TypeOK, [Next]_vars PROVE TypeOK'
    OBVIOUS
  <2>1. ASSUME NEW c \in Calls, Issue(c) PROVE TypeOK'
    BY <2>1 DEF Issue
  <2>2. ASSUME NEW c \in Calls, Execute(c) PROVE TypeOK'
    BY <2>2 DEF Execute
  <2>3. ASSUME NEW c \in Calls, NEW o \in Returned, Return(c, o) PROVE TypeOK'
    BY <2>3 DEF Return
  <2>4. CASE Disconnect
    BY <2>4 DEF Disconnect
  <2>5. CASE UNCHANGED vars
    BY <2>5 DEF vars
  <2> QED BY <2>1, <2>2, <2>3, <2>4, <2>5 DEF Next
<1> QED BY <1>1, <1>2, PTL DEF Spec

(* AnswersAreEarned is not inductive: a closed channel may refuse a call,   *)
(* so calls that have not been made must be known not to be executed.      *)
Earned ==
    /\ AnswersAreEarned
    /\ \A c \in Calls : outcome[c] = "idle" => c \notin executed

(* No answer without an execution, no send error after one, whatever the   *)
(* order of timeouts, executions and the end of the loop.                  *)
THEOREM AnswersEarned == Spec => []AnswersAreEarned
<1> USE DEF Earned, AnswersAreEarned, TypeOK, Returned
<1>1. Init => Earned
  BY DEF Init
<1>2. TypeOK /\ Earned /\ [Next]_vars => Earned'
  <2> SUFFICES ASSUME TypeOK, Earned, [Next]_vars PROVE Earned'
    OBVIOUS
  <2>1. ASSUME NEW c \in Calls, Issue(c) PROVE Earned'
    BY <2>1 DEF Issue
  <2>2. ASSUME NEW c \in Calls, Execute(c) PROVE Earned'
    BY <2>2 DEF Execute
  <2>3. ASSUME NEW c \in Calls, NEW o \in Returned, Return(c, o) PROVE Earned'
    BY <2>3 DEF Return, MayReturn
  <2>4. CASE Disconnect
    BY <2>4 DEF Disconnect, MayReturn
  <2>5. CASE UNCHANGED vars
    BY <2>5 DEF vars
  <2> QED BY <2>1, <2>2, <2>3, <2>4, <2>5 DEF Next
<1>3. Earned => AnswersAreEarned
  OBVIOUS
<1> QED BY <1>1, <1>2, <1>3, TypeCorrect, PTL DEF Spec

(* A call returns once and an execution is never undone.                   *)
THEOREM CallsReturnOnce == Spec => ReturnsOnce
<1> DEFINE Once == /\ \A c \in Calls : outcome[c] \in Returned
                                          => outcome'[c] = outcome[c]
                   /\ executed \subseteq executed'
<1>1. ASSUME TypeOK, [Next]_vars PROVE Once
  <2> USE DEF TypeOK, Returned
  <2>1. ASSUME NEW c \in Calls, Issue(c) PROVE Once
    BY <1>1, <2>1 DEF Issue
  <2>2. ASSUME NEW c \in Calls, Execute(c) PROVE Once
    BY <1>1, <2>2 DEF Execute
  <2>3. ASSUME NEW c \in Calls, NEW o \in Returned, Return(c, o) PROVE Once
    BY <1>1, <2>3 DEF Return, MayReturn
  <2>4. CASE Disconnect
    BY <1>1, <2>4 DEF Disconnect
  <2>5. CASE UNCHANGED vars
    BY <2>5 DEF vars
  <2> QED BY <1>1, <2>1, <2>2, <2>3, <2>4, <2>5 DEF Next
<1>2. TypeOK /\ [Next]_vars => [Once]_vars
  BY <1>1
<1> QED BY <1>2, TypeCorrect, PTL DEF Spec, ReturnsOnce
=============================================================================
