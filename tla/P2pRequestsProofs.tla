------------------------- MODULE P2pRequestsProofs -------------------------
(***************************************************************************)
(* The requests of other servers, for any numbers of calls, requests and   *)
(* application tasks and any channel capacities: each request is in one    *)
(* place at a time, what it takes to wedge the loop, and that a wedged     *)
(* loop stays so.                                                          *)
(***************************************************************************)
EXTENDS P2pEventLoopProofs, FiniteSetTheorems

(* The parts of RequestsInOnePlace, one for each place that holds requests *)
(* and in terms of one request at a time.                                  *)
InEventChannel ==
    /\ EachOnce(Requests, eventq)
    /\ \A r \in Requests : r \in Members(eventq) <=> inbound[r] = "event"

InCommandChannel ==
    /\ EachOnce(Requests, cmdq)
    /\ \A r \in Requests : r \in Queued <=> inbound[r] = "command"

InLoop ==
    /\ \A r, s \in Requests : inbound[r] = "held" /\ inbound[s] = "held" => r = s
    /\ Blocked => loop = "running"

(* No more tasks are busy than there are. *)
InTasks == IsFiniteSet(Serving) /\ Cardinality(Serving) <= Handlers

(***************************************************************************)
(* The inductive invariant.  That a request which is taken out of one      *)
(* channel is not in the other rests on both channels holding exactly the  *)
(* requests whose place they are; that the loop holds one at most, on the  *)
(* loop handling no event while it is blocked.                             *)
(***************************************************************************)
PlacesInv == InEventChannel /\ InCommandChannel /\ InLoop /\ InTasks

LEMMA RequestParts == TypeOK /\ PlacesInv => RequestsInOnePlace
<1> SUFFICES ASSUME TypeOK, PlacesInv PROVE RequestsInOnePlace
  OBVIOUS
<1>1. Members(eventq) \subseteq Requests
  BY DEF TypeOK, Members
<1>2. Members(eventq) = {r \in Requests : inbound[r] = "event"}
  BY <1>1 DEF PlacesInv, InEventChannel
<1>3. Queued \cap Requests = {r \in Requests : inbound[r] = "command"}
  BY DEF PlacesInv, InCommandChannel
<1> QED BY <1>2, <1>3
        DEF PlacesInv, InEventChannel, InCommandChannel, InLoop, RequestsInOnePlace

(* Steps that move no request. *)
LEMMA SameRequests ==
    ASSUME PlacesInv, UNCHANGED <<cmdq, eventq, inbound, loop>>
    PROVE  PlacesInv'
BY DEF PlacesInv, InEventChannel, InCommandChannel, InLoop, InTasks, Queued,
       Members, EachOnce, Blocked, Serving

(* A panic takes the loop's request and those in the command channel along *)
(* and leaves the others where they are.                                   *)
LEMMA DieRequests ==
    ASSUME TypeOK, PlacesInv, NEW cause, Die(cause)
    PROVE  PlacesInv'
<1>1. \A r \in Requests :
         /\ inbound'[r] \notin {"held", "command"}
         /\ inbound'[r] = "event" <=> inbound[r] = "event"
         /\ inbound'[r] = "serving" <=> inbound[r] = "serving"
  BY DEF Die, TypeOK
<1>2. eventq' = eventq /\ cmdq' = <<>>
  BY DEF Die
<1>3. InEventChannel'
  BY <1>1, <1>2 DEF PlacesInv, InEventChannel, Members, EachOnce
<1>4. InCommandChannel'
  BY <1>1, <1>2 DEF InCommandChannel, Queued, Members, EachOnce
<1>5. InLoop'
  BY <1>1 DEF InLoop, Blocked
<1>6. Serving' = Serving
  BY <1>1 DEF Serving
<1> QED BY <1>3, <1>4, <1>5, <1>6 DEF PlacesInv, InTasks

(* A command of a call passes through its channel past the requests.       *)
LEMMA CallPasses ==
    ASSUME TypeOK, PlacesInv, NEW c \in Calls,
           \/ cmdq' = Append(cmdq, c)
           \/ cmdq # <<>> /\ Head(cmdq) = c /\ cmdq' = Tail(cmdq),
           UNCHANGED <<eventq, inbound, loop>>
    PROVE  PlacesInv'
<1>1. /\ cmdq \in Seq(Calls \cup Requests) /\ EachOnce(Requests, cmdq)
      /\ c \in Calls \cup Requests /\ c \notin Requests
  BY NamesAssumption DEF TypeOK, PlacesInv, InCommandChannel
<1>2. /\ EachOnce(Requests, cmdq')
      /\ \A r \in Requests : r \in Members(cmdq') <=> r \in Members(cmdq)
  <2>1. CASE cmdq' = Append(cmdq, c)
    BY <1>1, <2>1, AppendMembers
  <2>2. CASE cmdq # <<>> /\ Head(cmdq) = c /\ cmdq' = Tail(cmdq)
    <3>1. /\ \A r \in Requests : r \in Members(Tail(cmdq))
                                  <=> r \in Members(cmdq) /\ r # Head(cmdq)
          /\ EachOnce(Requests, Tail(cmdq))
      BY <1>1, <2>2, TailMembers, Zenon
    <3> QED BY <1>1, <2>2, <3>1
  <2> QED BY <2>1, <2>2
<1>3. InCommandChannel'
  BY <1>2 DEF PlacesInv, InCommandChannel, Queued
<1> QED BY <1>3
        DEF PlacesInv, InEventChannel, InLoop, InTasks, Members, EachOnce, Blocked,
            Serving

(* The loop takes an answer out of the command channel and sends it.       *)
LEMMA RespondFileMoves ==
    ASSUME TypeOK, PlacesInv, NEW r \in Requests, RespondFile(r)
    PROVE  PlacesInv'
<1>1. /\ cmdq \in Seq(Calls \cup Requests) /\ EachOnce(Requests, cmdq)
      /\ cmdq # <<>> /\ Head(cmdq) = r /\ cmdq' = Tail(cmdq)
  BY DEF TypeOK, PlacesInv, InCommandChannel, RespondFile
<1>2. /\ Head(cmdq) \in Members(cmdq)
      /\ \A s \in Requests : s \in Members(Tail(cmdq))
                              <=> s \in Members(cmdq) /\ s # Head(cmdq)
      /\ EachOnce(Requests, Tail(cmdq))
  BY <1>1, TailMembers, Zenon
<1>3. inbound[r] = "command"
  BY <1>1, <1>2 DEF PlacesInv, InCommandChannel, Queued
<1>4. \A s \in Requests :
         /\ s # r => inbound'[s] = inbound[s]
         /\ inbound'[r] \in {"sent", "failed"}
  BY DEF RespondFile, TypeOK
<1>5. InCommandChannel'
  BY <1>1, <1>2, <1>4 DEF PlacesInv, InCommandChannel, Queued
<1>6. InEventChannel' /\ InLoop'
  BY <1>3, <1>4
     DEF RespondFile, PlacesInv, InEventChannel, InLoop, Members, EachOnce, Blocked
<1>7. Serving' = Serving
  BY <1>3, <1>4 DEF Serving
<1> QED BY <1>5, <1>6, <1>7 DEF PlacesInv, InTasks

(* A request enters the channel of events, or the loop holds it until      *)
(* there is a slot.                                                        *)
LEMMA RequestArrives ==
    ASSUME TypeOK, PlacesInv, NEW r \in Requests, InboundRequest(r) \/ EventSent(r)
    PROVE  PlacesInv'
<1>1. /\ eventq \in Seq(Requests) /\ EachOnce(Requests, eventq)
      /\ inbound[r] \in {"none", "held"} /\ loop = "running"
      /\ inbound[r] = "none" => ~Blocked
      /\ UNCHANGED <<cmdq, loop>>
  BY DEF TypeOK, PlacesInv, InEventChannel, InboundRequest, EventSent, Polling
<1>2. r \notin Members(eventq)
  BY <1>1 DEF PlacesInv, InEventChannel
<1>3. /\ \A s \in Requests : s # r => inbound'[s] = inbound[s]
      /\ inbound'[r] \in {"held", "event"}
  BY DEF InboundRequest, EventSent, TypeOK
<1>4. InEventChannel'
  <2>1. CASE eventq' = Append(eventq, r) /\ inbound'[r] = "event"
    <3>1. /\ Members(eventq') = Members(eventq) \cup {r}
          /\ EachOnce(Requests, eventq')
      BY <1>1, <1>2, <2>1, AppendMembers
    <3> QED BY <1>3, <2>1, <3>1 DEF PlacesInv, InEventChannel
  <2>2. CASE UNCHANGED eventq /\ inbound'[r] = "held"
    BY <1>1, <1>2, <1>3, <2>2 DEF PlacesInv, InEventChannel
  <2> QED BY <2>1, <2>2 DEF InboundRequest, EventSent, TypeOK
<1>5. InCommandChannel'
  BY <1>1, <1>3 DEF PlacesInv, InCommandChannel, Queued, Members, EachOnce
<1>6. InLoop'
  <2>1. \A s \in Requests : inbound[s] = "held" => s = r
    BY <1>1 DEF PlacesInv, InLoop, Blocked
  <2> QED BY <1>1, <1>3, <2>1 DEF InLoop, Blocked
<1>7. Serving' = Serving
  BY <1>1, <1>3 DEF Serving
<1> QED BY <1>4, <1>5, <1>6, <1>7 DEF PlacesInv, InTasks

(* An idle task takes the first event. *)
LEMMA TakeEventMoves ==
    ASSUME TypeOK, PlacesInv, TakeEvent
    PROVE  PlacesInv'
<1> DEFINE r == Head(eventq)
<1>1. /\ eventq \in Seq(Requests) /\ EachOnce(Requests, eventq) /\ eventq # <<>>
      /\ eventq' = Tail(eventq)
      /\ inbound' = [inbound EXCEPT ![r] = "serving"]
      /\ UNCHANGED <<cmdq, loop>>
  BY DEF TypeOK, PlacesInv, InEventChannel, TakeEvent
<1>2. r \in Requests
  BY <1>1
<1>3. /\ r \in Members(eventq)
      /\ \A s \in Requests : s \in Members(Tail(eventq))
                              <=> s \in Members(eventq) /\ s # r
      /\ EachOnce(Requests, Tail(eventq))
  BY <1>1, TailMembers, Zenon
<1> HIDE DEF r
<1>4. inbound[r] = "event"
  BY <1>2, <1>3 DEF PlacesInv, InEventChannel
<1>5. \A s \in Requests : inbound'[s] = IF s = r THEN "serving" ELSE inbound[s]
  BY <1>1 DEF TypeOK
<1>6. InEventChannel'
  BY <1>1, <1>3, <1>5 DEF PlacesInv, InEventChannel
<1>7. InCommandChannel' /\ InLoop'
  BY <1>1, <1>2, <1>4, <1>5
     DEF PlacesInv, InCommandChannel, InLoop, Queued, Members, EachOnce, Blocked
<1>8. InTasks'
  <2>1. Serving' = Serving \cup {r} /\ r \notin Serving
    BY <1>2, <1>4, <1>5 DEF Serving
  <2>2. /\ IsFiniteSet(Serving \cup {r})
        /\ Cardinality(Serving \cup {r}) = Cardinality(Serving) + 1
        /\ Cardinality(Serving) \in Nat
    BY <2>1, FS_AddElement, FS_CardinalityType DEF PlacesInv, InTasks
  <2>3. Cardinality(Serving) < Handlers
    BY DEF TakeEvent
  <2> QED BY <2>1, <2>2, <2>3, HandlersAssumption DEF InTasks
<1> QED BY <1>6, <1>7, <1>8 DEF PlacesInv

(* A task sends its answer to the loop, or finds the loop gone.            *)
LEMMA RespondMoves ==
    ASSUME TypeOK, PlacesInv, NEW r \in Requests, respond_file(r)
    PROVE  PlacesInv'
<1>1. /\ cmdq \in Seq(Calls \cup Requests) /\ EachOnce(Requests, cmdq)
      /\ inbound[r] = "serving" /\ UNCHANGED <<eventq, loop>>
  BY DEF TypeOK, PlacesInv, InCommandChannel, respond_file
<1>2. r \notin Members(cmdq)
  BY <1>1 DEF PlacesInv, InCommandChannel, Queued
<1>3. /\ \A s \in Requests : s # r => inbound'[s] = inbound[s]
      /\ inbound'[r] \in {"command", "dropped"}
  BY DEF respond_file, TypeOK
<1>4. InCommandChannel'
  <2>1. CASE cmdq' = Append(cmdq, r) /\ inbound'[r] = "command"
    <3>1. /\ Members(cmdq') = Members(cmdq) \cup {r}
          /\ EachOnce(Requests, cmdq')
      BY <1>1, <1>2, <2>1, AppendMembers
    <3> QED BY <1>3, <2>1, <3>1 DEF PlacesInv, InCommandChannel, Queued
  <2>2. CASE UNCHANGED cmdq /\ inbound'[r] = "dropped"
    BY <1>1, <1>2, <1>3, <2>2 DEF PlacesInv, InCommandChannel, Queued
  <2> QED BY <2>1, <2>2 DEF respond_file, TypeOK
<1>5. InEventChannel' /\ InLoop'
  BY <1>1, <1>3 DEF PlacesInv, InEventChannel, InLoop, Members, EachOnce, Blocked
<1>6. InTasks'
  <2>1. Serving' = Serving \ {r} /\ r \in Serving
    BY <1>1, <1>3 DEF Serving
  <2>2. /\ IsFiniteSet(Serving \ {r})
        /\ Cardinality(Serving \ {r}) = Cardinality(Serving) - 1
        /\ Cardinality(Serving) \in Nat
    BY <2>1, FS_RemoveElement, FS_CardinalityType DEF PlacesInv, InTasks
  <2> QED BY <2>1, <2>2, HandlersAssumption DEF PlacesInv, InTasks
<1> QED BY <1>4, <1>5, <1>6 DEF PlacesInv

-----------------------------------------------------------------------------
(* What a step does to the requests when it is not about one of them: the  *)
(* command of a call may enter the channel, or leave it if the loop polls. *)
CallPassing(c) ==
    \/ cmdq' = Append(cmdq, c)
    \/ Polling /\ cmdq # <<>> /\ Head(cmdq) = c /\ cmdq' = Tail(cmdq)

RequestsStay ==
    /\ UNCHANGED <<eventq, inbound, loop>>
    /\ UNCHANGED cmdq \/ \E c \in Calls : CallPassing(c)

LoopDies == Polling /\ \E cause : Die(cause)

RequestMoves ==
    \/ \E r \in Requests :
          RespondFile(r) \/ InboundRequest(r) \/ EventSent(r) \/ respond_file(r)
    \/ TakeEvent

(* Each step moves a request, ends the loop, or leaves the requests alone. *)
LEMMA KindsOfSteps == [Next]_vars => RequestsStay \/ LoopDies \/ RequestMoves
<1> SUFFICES ASSUME [Next]_vars PROVE RequestsStay \/ LoopDies \/ RequestMoves
  OBVIOUS
<1> USE DEF pendingVars, inboundVars
<1>1. ASSUME NEW c \in Calls, Client(c) PROVE RequestsStay
  BY <1>1 DEF Client, Issue, Send, Timeout, RequestsStay, CallPassing
<1>2. ASSUME NEW c \in Calls, DialOccupied(c) PROVE LoopDies
  BY <1>2 DEF DialOccupied, Takes, LoopDies
<1>3. ASSUME NEW c \in Calls,
             \/ StartListening(c) \/ DialVacant(c) \/ StartProviding(c)
             \/ GetProviders(c) \/ RequestFile(c)
      PROVE  RequestsStay
  BY <1>3 DEF StartListening, DialVacant, StartProviding, GetProviders, RequestFile,
              Takes, RequestsStay, CallPassing
<1>4. ASSUME NEW c \in Calls, FoundProviders(c) \/ QueryEnds(c)
      PROVE  RequestsStay \/ LoopDies
  BY <1>4 DEF FoundProviders, QueryEnds, ProvidingDone, GetProvidersDone,
              FileOutcome, RequestsStay, LoopDies
<1>5. ASSUME NEW p \in Peers, NEW a \in Calls \cup {None}, DialEnds(p, a)
      PROVE  RequestsStay
  BY <1>5 DEF DialEnds, ConnectionEstablished, OutgoingConnectionError, DialSettled,
              RequestsStay
<1>6. ASSUME NEW p \in Peers, KadDial(p) PROVE RequestsStay
  BY <1>6 DEF KadDial, RequestsStay
<1>7. ASSUME NEW r \in Requests, Expire(r) PROVE RequestsStay
  BY <1>7 DEF Expire, RequestsStay
<1>8. CASE StorePanic
  BY <1>8 DEF StorePanic, LoopDies
<1>9. CASE UNCHANGED vars
  BY <1>9 DEF vars, RequestsStay
<1> QED
  BY <1>1, <1>2, <1>3, <1>4, <1>5, <1>6, <1>7, <1>8, <1>9
     DEF Next, HandleCommand, Network, Application, RequestMoves

LEMMA RequestStep == TypeOK /\ PlacesInv /\ [Next]_vars => PlacesInv'
<1> SUFFICES ASSUME TypeOK, PlacesInv, [Next]_vars PROVE PlacesInv'
  OBVIOUS
<1>1. CASE RequestsStay
  BY <1>1, SameRequests, CallPasses DEF RequestsStay, CallPassing
<1>2. CASE LoopDies
  BY <1>2, DieRequests DEF LoopDies
<1>3. CASE RequestMoves
  BY <1>3, RespondFileMoves, RequestArrives, RespondMoves, TakeEventMoves
     DEF RequestMoves
<1> QED BY <1>1, <1>2, <1>3, KindsOfSteps

LEMMA RequestInit == Init => PlacesInv
<1> SUFFICES ASSUME Init PROVE PlacesInv
  OBVIOUS
<1>1. Serving = {}
  BY DEF Init, Serving
<1>2. InTasks
  BY <1>1, FS_EmptySet, HandlersAssumption DEF InTasks
<1> QED BY <1>2 DEF Init, PlacesInv, InEventChannel, InCommandChannel, InLoop,
                    Queued, Members, EachOnce, Blocked

THEOREM RequestInvariance == Spec => []PlacesInv
BY RequestInit, RequestStep, TypeCorrect, PTL DEF Spec

(* A request of another server is in one place at a time, whatever order   *)
(* requests, answers, expiries and panics come in                          *)
(* (kad_client.rs:213-223, 334-344, 520-528).                              *)
THEOREM OnePlace == Spec => []RequestsInOnePlace
BY RequestParts, RequestInvariance, TypeCorrect, PTL

-----------------------------------------------------------------------------
(* A channel that holds each request once holds as many as it is long.     *)
LEMMA MembersCounted ==
    ASSUME NEW S, NEW s \in Seq(S), EachOnce(S, s)
    PROVE  IsFiniteSet(Members(s)) /\ Cardinality(Members(s)) = Len(s)
<1>1. /\ Len(s) \in Nat /\ DOMAIN s = 1..Len(s)
      /\ s \in [1..Len(s) -> Members(s)]
  BY DEF Members
<1>2. s \in Bijection(1..Len(s), Members(s))
  <2>1. s \in Injection(1..Len(s), Members(s))
    BY <1>1 DEF EachOnce, Injection, IsInjective
  <2>2. s \in Surjection(1..Len(s), Members(s))
    BY <1>1 DEF Members, Surjection
  <2> QED BY <2>1, <2>2 DEF Bijection
<1>3. IsFiniteSet(1..Len(s)) /\ Cardinality(1..Len(s)) = Len(s)
  BY <1>1, FS_Interval
<1> QED BY <1>2, <1>3, FS_Bijection DEF ExistsBijection

(* Two sets that have nothing in common count for their sum.               *)
LEMMA DisjointCounted ==
    ASSUME NEW S, NEW T, IsFiniteSet(S), IsFiniteSet(T), S \cap T = {}
    PROVE  /\ IsFiniteSet(S \cup T)
           /\ Cardinality(S \cup T) = Cardinality(S) + Cardinality(T)
           /\ Cardinality(S) \in Nat /\ Cardinality(T) \in Nat
BY FS_Union, FS_EmptySet, FS_CardinalityType

(* It takes more requests at a time than the event channel and the         *)
(* application tasks have room for: 65 on the server as it is deployed,    *)
(* and no number of calls alone (kad_client.rs:334-344).                   *)
WedgedOnlyByMany ==
    Wedged =>
        Cardinality({r \in Requests : inbound[r] \in {"held", "event", "serving"}})
            > EvCap + Handlers

(* The request that the loop holds, those in the channel of events and     *)
(* those that are served are different ones.                               *)
LEMMA WedgeCounted ==
    ASSUME TypeOK, PlacesInv, Wedged
    PROVE  WedgedOnlyByMany
<1> DEFINE Busy == {r \in Requests : inbound[r] \in {"held", "event", "serving"}}
<1>1. PICK h \in Requests : inbound[h] = "held"
  BY DEF Wedged, Blocked
<1>2. /\ IsFiniteSet(Members(eventq)) /\ Cardinality(Members(eventq)) = Len(eventq)
      /\ Len(eventq) \in Nat
  BY MembersCounted DEF TypeOK, PlacesInv, InEventChannel
<1>3. /\ Busy = ({h} \cup Members(eventq)) \cup Serving
      /\ {h} \cap Members(eventq) = {}
      /\ ({h} \cup Members(eventq)) \cap Serving = {}
  <2>1. Members(eventq) = {r \in Requests : inbound[r] = "event"}
    BY DEF TypeOK, Members, PlacesInv, InEventChannel
  <2>2. \A r \in Requests : inbound[r] = "held" <=> r = h
    BY <1>1 DEF PlacesInv, InLoop
  <2> QED BY <1>1, <2>1, <2>2 DEF Serving
<1>4. /\ IsFiniteSet({h} \cup Members(eventq))
      /\ Cardinality({h} \cup Members(eventq)) = 1 + Len(eventq)
  <2>1. IsFiniteSet({h}) /\ Cardinality({h}) = 1
    BY FS_Singleton
  <2> QED BY <1>2, <1>3, <2>1, DisjointCounted
<1>5. /\ Cardinality(Busy) = 1 + Len(eventq) + Cardinality(Serving)
      /\ Cardinality(Serving) \in Nat
  BY <1>2, <1>3, <1>4, DisjointCounted DEF PlacesInv, InTasks
<1>6. Len(eventq) >= EvCap /\ Cardinality(Serving) >= Handlers
  BY DEF Wedged
<1> HIDE DEF Busy
<1>7. Cardinality(Busy) > EvCap + Handlers
  BY <1>2, <1>5, <1>6, CapAssumption, HandlersAssumption
<1> QED BY <1>7 DEF Busy, WedgedOnlyByMany

(* However many calls there are and however slow the application is, the   *)
(* loop is not wedged by as many requests at a time as the channel of      *)
(* events and the tasks that serve them have room for.                     *)
THEOREM WedgeTakesMany == Spec => []WedgedOnlyByMany
<1>1. TypeOK /\ PlacesInv => WedgedOnlyByMany
  BY WedgeCounted DEF WedgedOnlyByMany
<1> QED BY <1>1, TypeCorrect, RequestInvariance, PTL

(* A server that is sent no more requests than that is never wedged: the   *)
(* first 64 are harmless to the server as it is deployed.                  *)
THEOREM FewDoNotWedge ==
    ASSUME IsFiniteSet(Requests), Cardinality(Requests) <= EvCap + Handlers
    PROVE  Spec => []~Wedged
<1>1. WedgedOnlyByMany => ~Wedged
  <2> DEFINE Busy == {r \in Requests : inbound[r] \in {"held", "event", "serving"}}
  <2>1. Cardinality(Busy) <= Cardinality(Requests) /\ IsFiniteSet(Busy)
    BY FS_Subset
  <2>2. Cardinality(Busy) \in Nat /\ Cardinality(Requests) \in Nat
    BY <2>1, FS_CardinalityType
  <2>3. ~(Cardinality(Busy) > EvCap + Handlers)
    BY <2>1, <2>2, CapAssumption, HandlersAssumption
  <2> QED BY <2>3 DEF WedgedOnlyByMany
<1> QED BY <1>1, WedgeTakesMany, PTL

(* A wedged loop never goes on: not by a timeout, an expiry, a panic or an *)
(* answer (kad_client.rs:213-223, 334-344).                                *)
THEOREM WedgeIsPermanent == Spec => WedgedForEver
<1>1. ASSUME TypeOK, PlacesInv, [Next]_vars, Wedged PROVE Wedged'
  <2>1. Blocked /\ loop = "running" /\ ~Polling
    BY <1>1 DEF Wedged, PlacesInv, InLoop, Polling
  <2>2. CASE RequestsStay
    <3>1. UNCHANGED cmdq \/ \E c \in Calls : cmdq' = Append(cmdq, c)
      BY <2>1, <2>2 DEF RequestsStay, CallPassing
    <3>2. Len(cmdq) \in Nat /\ Len(cmdq') \in Nat /\ Len(cmdq') >= Len(cmdq)
      BY <1>1, <3>1 DEF TypeOK
    <3>3. /\ Serving' = Serving /\ Blocked' /\ Len(eventq') >= EvCap
          /\ Cardinality(Serving') >= Handlers
      BY <1>1, <2>2 DEF RequestsStay, Serving, Blocked, Wedged
    <3>4. Serving # {} => Len(cmdq') >= CmdCap
      BY <1>1, <3>2, CapAssumption DEF Wedged
    <3> QED BY <3>3, <3>4 DEF Wedged
  <2>3. ~LoopDies
    BY <2>1 DEF LoopDies
  <2>4. ASSUME NEW r \in Requests,
               RespondFile(r) \/ InboundRequest(r) \/ EventSent(r)
        PROVE  FALSE
    BY <1>1, <2>1, <2>4, CapAssumption
       DEF RespondFile, InboundRequest, EventSent, Wedged, TypeOK
  <2>5. ASSUME NEW r \in Requests, respond_file(r) PROVE FALSE
    BY <1>1, <2>1, <2>5, CapAssumption DEF respond_file, Serving, Wedged, TypeOK
  <2>6. ~TakeEvent
    <3>1. Cardinality(Serving) \in Nat
      BY <1>1, FS_CardinalityType DEF PlacesInv, InTasks
    <3> QED BY <1>1, <3>1, HandlersAssumption DEF TakeEvent, Wedged
  <2> QED BY <1>1, <2>2, <2>3, <2>4, <2>5, <2>6, KindsOfSteps DEF RequestMoves
<1>2. TypeOK /\ PlacesInv /\ [Next]_vars => [Wedged => Wedged']_vars
  BY <1>1
<1> QED BY <1>2, TypeCorrect, RequestInvariance, PTL DEF Spec, WedgedForEver
=============================================================================
