------------------------- MODULE P2pEventLoopProofs -------------------------
(***************************************************************************)
(* Proofs about P2pEventLoop for any numbers of calls, requests, peers and *)
(* application tasks and any channel capacities: the inductive invariant,  *)
(* the refinement of the contract P2pCalls, and what the contract promises *)
(* carried over to the loop.                                               *)
(***************************************************************************)
EXTENDS P2pEventLoop, SequenceTheorems, TLAPS

(* The parts of the type invariant, so that a step names what it disturbs. *)
CallType == call \in [Calls -> {"unused"} \cup Open \cup Returned]
CmdType == cmd \in [Calls -> Command \cup {NoCommand}]
QueueType ==
    /\ cmdq \in Seq(Calls \cup Requests) /\ Len(cmdq) <= CmdCap
    /\ eventq \in Seq(Requests) /\ Len(eventq) <= EvCap
LoopType == loop \in {"running", "panic_dial", "panic_expect", "panic_store"}
PendingType ==
    /\ pending_dial \in [Peers -> Calls \cup {None}]
    /\ pending_start_providing \subseteq Calls
    /\ pending_get_providers \subseteq Calls
    /\ pending_request_file \subseteq Calls
WorkType == work \in [Calls -> {"none", "active", "over"}] /\ kadDial \subseteq Peers
InboundType ==
    /\ inbound \in [Requests -> {"none", "held", "event", "serving",
                                 "command", "sent", "failed", "dropped"}]
    /\ expired \subseteq Requests

(* TypeOK, cut into the parts that an action disturbs together. *)
LEMMA TypeParts ==
    TypeOK <=> /\ CallType /\ CmdType /\ QueueType /\ LoopType
               /\ PendingType /\ WorkType /\ InboundType
BY DEF TypeOK, CallType, CmdType, QueueType, LoopType, PendingType, WorkType,
       InboundType

(* An answer leaves the callers' view well-formed. *)
LEMMA RepliedType ==
    ASSUME CallType, NEW c, NEW answer \in Returned
    PROVE  Replied(c, answer) \in [Calls -> {"unused"} \cup Open \cup Returned]
BY DEF CallType, Replied

(* A panic leaves every variable in its type. *)
LEMMA DieType ==
    ASSUME TypeOK, NEW cause \in {"panic_dial", "panic_expect", "panic_store"},
           Die(cause)
    PROVE  TypeOK'
<1> USE DEF Die
<1>1. CallType'
  BY DEF TypeOK, CallType, Open, Returned
<1>2. CmdType' /\ LoopType' /\ PendingType'
  BY DEF TypeOK, CmdType, LoopType, PendingType
<1>3. WorkType' /\ InboundType'
  BY DEF TypeOK, WorkType, InboundType
<1>4. QueueType'
  BY CapAssumption DEF TypeOK, QueueType
<1> QED BY <1>1, <1>2, <1>3, <1>4
        DEF TypeOK, CallType, CmdType, QueueType, LoopType, PendingType,
            WorkType, InboundType

(* A command taken from the channel leaves a shorter channel. *)
LEMMA TailType ==
    ASSUME QueueType, cmdq # <<>>, cmdq' = Tail(cmdq), UNCHANGED eventq
    PROVE  QueueType'
BY CapAssumption DEF QueueType

(* A request that finds a free slot fits in the channel of events. *)
LEMMA AppendEventType ==
    ASSUME QueueType, NEW r \in Requests, Len(eventq) < EvCap,
           eventq' = Append(eventq, r), UNCHANGED cmdq
    PROVE  QueueType'
<1>1. /\ eventq' \in Seq(Requests)
      /\ Len(eventq') = Len(eventq) + 1
      /\ Len(eventq) \in Nat
  BY DEF QueueType
<1>2. Len(eventq') <= EvCap
  BY <1>1, CapAssumption
<1> QED BY <1>1, <1>2 DEF QueueType

(* A send into a channel that has room keeps within its capacity. *)
LEMMA AppendType ==
    ASSUME QueueType, NEW x \in Calls \cup Requests, Len(cmdq) < CmdCap,
           cmdq' = Append(cmdq, x), UNCHANGED eventq
    PROVE  QueueType'
BY CapAssumption DEF QueueType

(* Every step leaves every variable in its type, the bounds of both        *)
(* channels included.                                                      *)
LEMMA TypeStep == TypeOK /\ [Next]_vars => TypeOK'
<1> SUFFICES ASSUME TypeOK, [Next]_vars PROVE TypeOK'
  OBVIOUS
<1>0. /\ CallType /\ CmdType /\ QueueType /\ LoopType
      /\ PendingType /\ WorkType /\ InboundType
  BY TypeParts
<1> USE DEF pendingVars, inboundVars
<1>1. ASSUME NEW c \in Calls, Issue(c) PROVE TypeOK'
  BY <1>1 DEF Issue, TypeOK, Open, Returned
<1>2. ASSUME NEW c \in Calls, Send(c) PROVE TypeOK'
  <2>1. QueueType'
    BY <1>0, <1>2, AppendType DEF Send
  <2>2. CallType'
    BY <1>0, <1>2 DEF Send, CallType, Open
  <2> QED BY <1>2, <2>1, <2>2 DEF Send, TypeOK, QueueType, CallType
<1>3. ASSUME NEW c \in Calls, Timeout(c) PROVE TypeOK'
  BY <1>3 DEF Timeout, TypeOK, Open, Returned
<1>4. CASE StorePanic
  BY <1>4, DieType DEF StorePanic
<1>5. ASSUME NEW c \in Calls, StartListening(c) PROVE TypeOK'
  <2>1. QueueType'
    BY <1>0, <1>5, TailType DEF StartListening, Takes
  <2>2. CallType'
    BY <1>0, <1>5, RepliedType DEF StartListening, CallType, Returned
  <2> QED BY <1>5, <2>1, <2>2 DEF StartListening, TypeOK, QueueType, CallType
<1>6. ASSUME NEW c \in Calls, DialVacant(c) PROVE TypeOK'
  <2>1. QueueType'
    BY <1>0, <1>6, TailType DEF DialVacant, Takes
  <2>2. CallType'
    BY <1>0, <1>6, RepliedType DEF DialVacant, CallType, Returned
  <2>3. PendingType' /\ WorkType'
    BY <1>0, <1>6 DEF DialVacant, PendingType, WorkType
  <2> QED BY <1>0, <1>6, <2>1, <2>2, <2>3
          DEF DialVacant, TypeOK, CallType, QueueType, PendingType, WorkType
<1>7. ASSUME NEW c \in Calls, DialOccupied(c) PROVE TypeOK'
  BY <1>7, DieType DEF DialOccupied
<1>8. ASSUME NEW c \in Calls, StartProviding(c) PROVE TypeOK'
  <2>1. QueueType'
    BY <1>0, <1>8, TailType DEF StartProviding, Takes
  <2>2. CallType'
    BY <1>0, <1>8, RepliedType DEF StartProviding, CallType, Returned
  <2> QED BY <1>0, <1>8, <2>1, <2>2
          DEF StartProviding, TypeOK, CallType, QueueType
<1>9. ASSUME NEW c \in Calls, GetProviders(c) \/ RequestFile(c) PROVE TypeOK'
  <2>1. QueueType'
    BY <1>0, <1>9, TailType DEF GetProviders, RequestFile, Takes
  <2> QED BY <1>9, <2>1 DEF GetProviders, RequestFile, TypeOK, QueueType
<1>10. ASSUME NEW r \in Requests, RespondFile(r) PROVE TypeOK'
  <2>1. QueueType'
    BY <1>0, <1>10, TailType DEF RespondFile
  <2> QED BY <1>10, <2>1 DEF RespondFile, TypeOK, QueueType
<1>11. ASSUME NEW c \in Calls, ProvidingDone(c) PROVE TypeOK'
  <2>1. CASE c \notin pending_start_providing
    BY <1>11, <2>1, DieType DEF ProvidingDone
  <2>2. CASE c \in pending_start_providing
    <3>1. CallType'
      BY <1>0, <1>11, <2>2, RepliedType DEF ProvidingDone, CallType, Returned
    <3> QED BY <1>11, <2>2, <3>1 DEF ProvidingDone, TypeOK, CallType
  <2> QED BY <2>1, <2>2
<1>12. ASSUME NEW c \in Calls, FoundProviders(c) PROVE TypeOK'
  <2>1. CallType'
    BY <1>0, <1>12, RepliedType DEF FoundProviders, CallType, Returned
  <2> QED BY <1>12, <2>1 DEF FoundProviders, TypeOK, CallType
<1>13. ASSUME NEW c \in Calls, GetProvidersDone(c) PROVE TypeOK'
  BY <1>13 DEF GetProvidersDone, TypeOK
<1>14. ASSUME NEW c \in Calls, FileOutcome(c) PROVE TypeOK'
  <2>1. CASE c \notin pending_request_file
    BY <1>14, <2>1, DieType DEF FileOutcome
  <2>2. CASE c \in pending_request_file
    <3>1. CallType'
      BY <1>0, <1>14, <2>2, RepliedType DEF FileOutcome, CallType, Returned
    <3> QED BY <1>14, <2>2, <3>1 DEF FileOutcome, TypeOK, CallType
  <2> QED BY <2>1, <2>2
<1>15. ASSUME NEW p \in Peers, NEW a \in Calls \cup {None}, DialEnds(p, a)
       PROVE  TypeOK'
  <2>1. PICK answer \in {"ok", "err"} : DialSettled(p, a, answer)
    BY <1>15 DEF DialEnds, ConnectionEstablished, OutgoingConnectionError
  <2>2. CallType'
    BY <1>0, <2>1, RepliedType DEF DialSettled, CallType, Returned
  <2>3. WorkType'
    BY <1>0, <2>1 DEF DialSettled, WorkType
  <2> QED BY <2>1, <2>2, <2>3 DEF DialSettled, TypeOK, CallType, WorkType
<1>16. ASSUME NEW p \in Peers, KadDial(p) PROVE TypeOK'
  BY <1>16 DEF KadDial, TypeOK
<1>17. ASSUME NEW r \in Requests, InboundRequest(r) \/ EventSent(r) PROVE TypeOK'
  <2>1. QueueType'
    <3>1. CASE UNCHANGED <<cmdq, eventq>>
      BY <1>0, <3>1 DEF QueueType
    <3>2. CASE eventq' = Append(eventq, r) /\ Len(eventq) < EvCap /\ UNCHANGED cmdq
      BY <1>0, <3>2, AppendEventType
    <3> QED BY <1>17, <3>1, <3>2 DEF InboundRequest, EventSent
  <2>2. InboundType'
    BY <1>0, <1>17 DEF InboundRequest, EventSent, InboundType
  <2> QED BY <1>17, <2>1, <2>2
          DEF InboundRequest, EventSent, TypeOK, QueueType, InboundType
<1>18. ASSUME NEW r \in Requests, Expire(r) PROVE TypeOK'
  BY <1>18 DEF Expire, TypeOK
<1>19. CASE TakeEvent
  <2>1. QueueType'
    BY <1>0, <1>19, CapAssumption DEF TakeEvent, QueueType
  <2>2. InboundType'
    BY <1>0, <1>19 DEF TakeEvent, InboundType
  <2> QED BY <1>19, <2>1, <2>2 DEF TakeEvent, TypeOK, QueueType, InboundType
<1>20. ASSUME NEW r \in Requests, respond_file(r) PROVE TypeOK'
  <2>1. QueueType'
    BY <1>0, <1>20, AppendType DEF respond_file, QueueType
  <2>2. InboundType'
    BY <1>0, <1>20 DEF respond_file, InboundType
  <2> QED BY <1>20, <2>1, <2>2 DEF respond_file, TypeOK, QueueType, InboundType
<1>21. CASE UNCHANGED vars
  BY <1>21 DEF vars, TypeOK
<1> QED
  BY <1>1, <1>2, <1>3, <1>4, <1>5, <1>6, <1>7, <1>8, <1>9, <1>10, <1>11,
     <1>12, <1>13, <1>14, <1>15, <1>16, <1>17, <1>18, <1>19, <1>20, <1>21
     DEF Next, Client, HandleCommand, Network, QueryEnds, Application

(* Every variable keeps its type and both channels their bounds.           *)
THEOREM TypeCorrect == Spec => []TypeOK
<1>1. Init => TypeOK
  BY CapAssumption DEF Init, TypeOK
<1> QED BY <1>1, TypeStep, PTL DEF Spec

-----------------------------------------------------------------------------
(* A receive takes the first member out of a channel that holds it once.   *)
LEMMA TailMembers ==
    ASSUME NEW T, NEW S, NEW s \in Seq(T), s # <<>>, EachOnce(S, s)
    PROVE  /\ Head(s) \in Members(s)
           /\ \A x \in S : x \in Members(Tail(s)) <=> x \in Members(s) /\ x # Head(s)
           /\ EachOnce(S, Tail(s))
<1>1. /\ Head(s) = s[1]
      /\ Len(s) \in Nat /\ Len(s) >= 1
      /\ DOMAIN s = 1..Len(s)
      /\ DOMAIN Tail(s) = 1..(Len(s) - 1)
      /\ \A i \in 1..(Len(s) - 1) : Tail(s)[i] = s[i + 1]
  OBVIOUS
<1>2. \A i, j \in 1..Len(s) : s[i] = s[j] /\ s[i] \in S => i = j
  BY <1>1 DEF EachOnce
<1>3. Head(s) \in Members(s)
  BY <1>1 DEF Members
<1>4. ASSUME NEW x \in Members(Tail(s)), x \in S
      PROVE  x \in Members(s) /\ x # Head(s)
  <2>1. PICK i \in 1..(Len(s) - 1) : x = Tail(s)[i]
    BY <1>1, <1>4 DEF Members
  <2>2. i + 1 \in 1..Len(s) /\ x = s[i + 1] /\ i + 1 # 1
    BY <1>1, <2>1
  <2> QED BY <1>1, <1>2, <1>4, <2>2 DEF Members
<1>5. ASSUME NEW x \in Members(s), x # Head(s) PROVE x \in Members(Tail(s))
  <2>1. PICK i \in 1..Len(s) : x = s[i]
    BY <1>1, <1>5 DEF Members
  <2>2. i - 1 \in DOMAIN Tail(s) /\ Tail(s)[i - 1] = x
    BY <1>1, <1>5, <2>1
  <2> QED BY <2>2 DEF Members
<1>6. EachOnce(S, Tail(s))
  BY <1>1, <1>2 DEF EachOnce
<1> QED BY <1>3, <1>4, <1>5, <1>6

(* A send adds a member, and doubles none that was not there.              *)
LEMMA AppendMembers ==
    ASSUME NEW T, NEW S, NEW s \in Seq(T), NEW x \in T, EachOnce(S, s),
           x \in S => x \notin Members(s)
    PROVE  /\ Members(Append(s, x)) = Members(s) \cup {x}
           /\ EachOnce(S, Append(s, x))
<1>1. /\ Len(s) \in Nat
      /\ DOMAIN s = 1..Len(s)
      /\ DOMAIN Append(s, x) = 1..(Len(s) + 1)
      /\ \A i \in 1..Len(s) : Append(s, x)[i] = s[i]
      /\ Append(s, x)[Len(s) + 1] = x
  OBVIOUS
<1>2. \A i, j \in 1..Len(s) : s[i] = s[j] /\ s[i] \in S => i = j
  BY <1>1 DEF EachOnce
<1>3. x \in S => \A i \in 1..Len(s) : s[i] # x
  BY <1>1 DEF Members
<1>4. Members(Append(s, x)) = Members(s) \cup {x}
  BY <1>1 DEF Members
<1>5. EachOnce(S, Append(s, x))
  <2> SUFFICES ASSUME NEW i \in 1..(Len(s) + 1), NEW j \in 1..(Len(s) + 1),
                      Append(s, x)[i] = Append(s, x)[j],
                      Append(s, x)[i] \in S
               PROVE  i = j
    BY <1>1 DEF EachOnce
  <2>1. CASE i \in 1..Len(s) /\ j \in 1..Len(s)
    BY <1>1, <1>2, <2>1
  <2>2. CASE i = Len(s) + 1 \/ j = Len(s) + 1
    BY <1>1, <1>3, <2>2
  <2> QED BY <1>1, <2>1, <2>2
<1> QED BY <1>4, <1>5

(* What the loop's steps do to the queued calls, without sequences. *)
LEMMA TakeQueued ==
    ASSUME TypeOK, Untouched, NEW c \in Calls, NEW op, Takes(c, op),
           cmdq' = Tail(cmdq)
    PROVE  /\ c \in Queued
           /\ \A x \in Calls : x \in Queued' <=> x \in Queued /\ x # c
           /\ NoCallQueuedTwice'
<1>1. /\ cmdq \in Seq(Calls \cup Requests) /\ cmdq # <<>> /\ Head(cmdq) = c
      /\ EachOnce(Calls, cmdq)
  BY DEF TypeOK, Takes, Untouched, NoCallQueuedTwice
<1>2. /\ Head(cmdq) \in Members(cmdq)
      /\ \A x \in Calls : x \in Members(Tail(cmdq))
                            <=> x \in Members(cmdq) /\ x # Head(cmdq)
      /\ EachOnce(Calls, Tail(cmdq))
  BY <1>1, TailMembers, Zenon
<1> QED BY <1>1, <1>2 DEF NoCallQueuedTwice, Queued

(* Taking a RespondFile command from the channel leaves the queued calls   *)
(* as they are (Command::RespondFile, kad_client.rs:520-528).              *)
LEMMA TakeRequest ==
    ASSUME TypeOK, Untouched, NEW r \in Requests, cmdq # <<>>, Head(cmdq) = r,
           cmdq' = Tail(cmdq)
    PROVE  /\ \A x \in Calls : x \in Queued' <=> x \in Queued
           /\ NoCallQueuedTwice'
<1>1. cmdq \in Seq(Calls \cup Requests) /\ EachOnce(Calls, cmdq)
  BY DEF TypeOK, Untouched, NoCallQueuedTwice
<1>2. /\ \A x \in Calls : x \in Members(Tail(cmdq))
                            <=> x \in Members(cmdq) /\ x # Head(cmdq)
      /\ EachOnce(Calls, Tail(cmdq))
  BY <1>1, TailMembers, Zenon
<1> QED BY <1>2, NamesAssumption DEF NoCallQueuedTwice, Queued

(* A send adds one name to the channel, and doubles no call that was not   *)
(* there (KadClient methods and respond_file, kad_client.rs:116-223).      *)
LEMMA AppendQueued ==
    ASSUME TypeOK, Untouched, NEW x \in Calls \cup Requests,
           x \in Calls => x \notin Queued,
           cmdq' = Append(cmdq, x)
    PROVE  /\ Queued' = Queued \cup {x}
           /\ NoCallQueuedTwice'
BY AppendMembers DEF TypeOK, Untouched, NoCallQueuedTwice, Queued

-----------------------------------------------------------------------------
(***************************************************************************)
(* The inductive invariant.  ExpectsNeverFail alone is not inductive: that *)
(* an entry is still there when its query completes rests on the maps      *)
(* agreeing with the swarm (PendingMatchesWork), which rests on a command  *)
(* having no work before it is taken up, and once (Untouched).  That every *)
(* lookup without entry is an abandoned one rests on whose senders the     *)
(* loop holds (SendersOfWaiters).                                          *)
(***************************************************************************)
LoopInv ==
    /\ Untouched
    /\ PendingMatchesWork
    /\ SendersOfWaiters
    /\ OnlyAbandonedLookupsRunOn
    /\ ExpectsNeverFail

(* What is queued depends on the channel alone. *)
LEMMA SameQueue ==
    ASSUME UNCHANGED cmdq
    PROVE  Queued' = Queued /\ (NoCallQueuedTwice' <=> NoCallQueuedTwice)
BY DEF Queued, Members, NoCallQueuedTwice, EachOnce

(* A server starts with empty channels and maps (kad_client.rs:240-254). *)
LEMMA InitInv == Init => LoopInv
<1> SUFFICES ASSUME Init PROVE LoopInv
  OBVIOUS
<1> USE DEF Init
<1>1. Queued = {} /\ NoCallQueuedTwice
  BY DEF Queued, Members, NoCallQueuedTwice, EachOnce
<1>2. \A c \in Calls : c \notin Pending
  BY NamesAssumption DEF Pending
<1> QED
  BY <1>1, <1>2
     DEF LoopInv, Untouched, PendingMatchesWork, SendersOfWaiters,
         OnlyAbandonedLookupsRunOn, ExpectsNeverFail, Working

(* A panic, of whatever cause but an expect(), drops channel and maps      *)
(* together with the senders in them and so keeps the invariant.           *)
LEMMA DieInv ==
    ASSUME TypeOK, LoopInv, NEW cause \in {"panic_dial", "panic_store"}, Die(cause)
    PROVE  LoopInv'
<1> USE DEF Die
<1>1. Queued' = {} /\ NoCallQueuedTwice'
  BY DEF Queued, Members, NoCallQueuedTwice, EachOnce
<1>2. \A c \in Calls : c \notin Pending'
  BY NamesAssumption DEF Pending
<1>3. \A c \in Calls : work'[c] # "active"
  BY DEF TypeOK
<1>4. Untouched'
  BY <1>1 DEF TypeOK, LoopInv, Untouched
<1>5. PendingMatchesWork'
  BY <1>3 DEF PendingMatchesWork, Working
<1>6. SendersOfWaiters'
  BY <1>1, <1>2 DEF TypeOK, SendersOfWaiters
<1>7. OnlyAbandonedLookupsRunOn' /\ ExpectsNeverFail'
  BY <1>3 DEF OnlyAbandonedLookupsRunOn, ExpectsNeverFail, Working
<1> QED BY <1>4, <1>5, <1>6, <1>7 DEF LoopInv

(* Steps that change neither the callers, the commands, the channel, the   *)
(* maps nor the swarm's work.                                              *)
LEMMA FrameInv ==
    ASSUME LoopInv, UNCHANGED <<call, cmd, cmdq, loop, work, pendingVars>>
    PROVE  LoopInv'
<1>1. Queued' = Queued /\ (NoCallQueuedTwice' <=> NoCallQueuedTwice)
  BY SameQueue
<1>2. Pending' = Pending
  BY DEF Pending, pendingVars
<1> QED
  BY <1>1, <1>2
     DEF LoopInv, Untouched, PendingMatchesWork, SendersOfWaiters, pendingVars,
         OnlyAbandonedLookupsRunOn, ExpectsNeverFail, Working

(* Steps of a caller: no answer is given and nothing is taken up. *)
LEMMA ClientInv ==
    ASSUME TypeOK, LoopInv, NEW c \in Calls, Client(c)
    PROVE  LoopInv'
<1> USE DEF pendingVars
<1>p. Pending' = Pending
  BY DEF Client, Issue, Send, Timeout, Pending
<1>1. CASE Issue(c)
  <2>1. Queued' = Queued /\ (NoCallQueuedTwice' <=> NoCallQueuedTwice)
    BY <1>1, SameQueue DEF Issue
  <2>2. work[c] = "none" /\ c \notin Queued /\ c \notin Pending
    BY <1>1 DEF Issue, LoopInv, Untouched, SendersOfWaiters
  <2>3. Untouched'
    BY <1>1, <2>1, <2>2 DEF Issue, LoopInv, Untouched, TypeOK
  <2>4. PendingMatchesWork' /\ OnlyAbandonedLookupsRunOn'
    <3>1. \A x \in Calls, op \in QueryOps \cup {"Dial"} :
             Working(x, op)' <=> Working(x, op)
      BY <1>1, <2>2 DEF Issue, Working, TypeOK
    <3>2. \A x \in Calls : x # c => cmd'[x] = cmd[x] /\ call'[x] = call[x]
      BY <1>1 DEF Issue, TypeOK
    <3> QED BY <1>1, <2>2, <3>1, <3>2
            DEF Issue, LoopInv, PendingMatchesWork, OnlyAbandonedLookupsRunOn,
                Working, QueryOps, TypeOK
  <2>5. SendersOfWaiters' /\ ExpectsNeverFail'
    BY <1>1, <1>p, <2>1, <2>2
       DEF Issue, LoopInv, SendersOfWaiters, ExpectsNeverFail, TypeOK
  <2> QED BY <2>3, <2>4, <2>5 DEF LoopInv
<1>2. CASE Send(c)
  <2>1. Queued' = Queued \cup {c} /\ NoCallQueuedTwice'
    BY <1>2, AppendQueued DEF Send, LoopInv, Untouched
  <2>2. work[c] = "none" /\ c \notin Queued
    BY <1>2 DEF Send, LoopInv, Untouched
  <2>3. Untouched'
    BY <1>2, <2>1, <2>2 DEF Send, LoopInv, Untouched, TypeOK
  <2>4. PendingMatchesWork' /\ OnlyAbandonedLookupsRunOn'
    BY <1>2, <2>2 DEF Send, LoopInv, PendingMatchesWork, Working, TypeOK,
                      OnlyAbandonedLookupsRunOn
  <2>5. SendersOfWaiters' /\ ExpectsNeverFail'
    BY <1>2, <1>p, <2>1
       DEF Send, LoopInv, SendersOfWaiters, ExpectsNeverFail, TypeOK
  <2> QED BY <2>3, <2>4, <2>5 DEF LoopInv
<1>3. CASE Timeout(c)
  <2>1. Queued' = Queued /\ (NoCallQueuedTwice' <=> NoCallQueuedTwice)
    BY <1>3, SameQueue DEF Timeout
  <2>2. Untouched'
    BY <1>3, <2>1 DEF Timeout, LoopInv, Untouched, TypeOK
  <2>3. PendingMatchesWork' /\ OnlyAbandonedLookupsRunOn'
    BY <1>3 DEF Timeout, LoopInv, PendingMatchesWork, Working, TypeOK,
                OnlyAbandonedLookupsRunOn
  <2>4. SendersOfWaiters' /\ ExpectsNeverFail'
    BY <1>3, <1>p, <2>1
       DEF Timeout, LoopInv, SendersOfWaiters, ExpectsNeverFail, TypeOK, Open
  <2> QED BY <2>2, <2>3, <2>4 DEF LoopInv
<1> QED BY <1>1, <1>2, <1>3 DEF Client

(* A command that is taken up has no work and no entry yet, and its caller *)
(* waits or has given up.                                                  *)
LEMMA TakenUp ==
    ASSUME TypeOK, LoopInv, NEW c \in Calls, NEW op, Takes(c, op),
           cmdq' = Tail(cmdq)
    PROVE  /\ c \in Queued /\ NoCallQueuedTwice'
           /\ \A x \in Calls : x \in Queued' <=> x \in Queued /\ x # c
           /\ work[c] = "none" /\ call[c] \in {"waiting", "timeout"}
           /\ cmd[c].op = op
           /\ c \notin Pending
<1>1. /\ c \in Queued /\ NoCallQueuedTwice'
      /\ \A x \in Calls : x \in Queued' <=> x \in Queued /\ x # c
  BY TakeQueued DEF LoopInv
<1>2. work[c] = "none" /\ call[c] \in {"waiting", "timeout"}
  BY <1>1 DEF LoopInv, Untouched, SendersOfWaiters
<1>3. c \notin Pending
  BY <1>2, NamesAssumption
     DEF LoopInv, PendingMatchesWork, Pending, Working, TypeOK
<1> QED BY <1>1, <1>2, <1>3 DEF Takes

(* handle_command keeps the invariant, one command at a time               *)
(* (kad_client.rs:443-533).                                                *)
LEMMA CommandInv ==
    ASSUME TypeOK, LoopInv, NEW c \in Calls,
           \/ StartListening(c) \/ DialVacant(c) \/ DialOccupied(c)
           \/ StartProviding(c) \/ GetProviders(c) \/ RequestFile(c)
    PROVE  LoopInv'
<1> USE DEF pendingVars
<1>1. CASE StartListening(c)
  <2>1. /\ c \in Queued /\ NoCallQueuedTwice'
        /\ \A x \in Calls : x \in Queued' <=> x \in Queued /\ x # c
        /\ work[c] = "none" /\ call[c] \in {"waiting", "timeout"}
        /\ cmd[c].op = "StartListening" /\ c \notin Pending
    BY <1>1, TakenUp DEF StartListening
  <2>2. Pending' = Pending
    BY <1>1 DEF StartListening, Pending
  <2>3. PICK answer \in {"ok", "err"} : call' = Replied(c, answer)
    BY <1>1 DEF StartListening
  <2>4. /\ \A x \in Calls : x # c => call'[x] = call[x]
        /\ call'[c] \in {"ok", "err", "timeout"}
    BY <2>1, <2>3 DEF Replied, TypeOK
  <2>5. Untouched'
    BY <1>1, <2>1, <2>4 DEF StartListening, LoopInv, Untouched, TypeOK, Command, NoCommand
  <2>6. PendingMatchesWork' /\ OnlyAbandonedLookupsRunOn' /\ ExpectsNeverFail'
    BY <1>1, <2>1, <2>4
       DEF StartListening, LoopInv, PendingMatchesWork, Working, TypeOK,
           OnlyAbandonedLookupsRunOn, ExpectsNeverFail
  <2>7. SendersOfWaiters'
    BY <1>1, <2>1, <2>2, <2>4 DEF LoopInv, SendersOfWaiters
  <2> QED BY <2>5, <2>6, <2>7 DEF LoopInv
<1>2. CASE DialVacant(c)
  <2>1. /\ c \in Queued /\ NoCallQueuedTwice'
        /\ \A x \in Calls : x \in Queued' <=> x \in Queued /\ x # c
        /\ work[c] = "none" /\ call[c] \in {"waiting", "timeout"}
        /\ cmd[c].op = "Dial" /\ c \notin Pending
    BY <1>2, TakenUp DEF DialVacant
  <2>0. cmd[c] \in Command /\ cmd[c].peer \in Peers
    BY <2>1 DEF TypeOK, Command, NoCommand, QueryOps
  <2>2. CASE /\ pending_dial' = [pending_dial EXCEPT ![cmd[c].peer] = c]
             /\ work' = [work EXCEPT ![c] = "active"]
             /\ UNCHANGED call
    <3>1. Pending' = Pending \cup {c} \/ Pending' = (Pending \ {None}) \cup {c}
      BY <1>2, <2>0, <2>2, NamesAssumption DEF DialVacant, Pending, TypeOK
    <3>2. Untouched'
      BY <1>2, <2>0, <2>1, <2>2 DEF DialVacant, LoopInv, Untouched, TypeOK
    <3>3. PendingMatchesWork' /\ OnlyAbandonedLookupsRunOn' /\ ExpectsNeverFail'
      BY <1>2, <2>0, <2>1, <2>2
         DEF DialVacant, LoopInv, PendingMatchesWork, Working, TypeOK,
             OnlyAbandonedLookupsRunOn, ExpectsNeverFail
    <3>4. SendersOfWaiters'
      BY <2>1, <2>2, <3>1, NamesAssumption DEF LoopInv, SendersOfWaiters
    <3> QED BY <3>2, <3>3, <3>4 DEF LoopInv
  <2>3. CASE /\ work' = [work EXCEPT ![c] = "over"]
             /\ call' = Replied(c, "err")
             /\ UNCHANGED pending_dial
    <3>1. Pending' = Pending
      BY <1>2, <2>3 DEF DialVacant, Pending
    <3>2. /\ \A x \in Calls : x # c => call'[x] = call[x]
          /\ call'[c] \in {"err", "timeout"}
      BY <2>1, <2>3 DEF Replied, TypeOK
    <3>3. Untouched'
      BY <1>2, <2>0, <2>1, <2>3, <3>2 DEF DialVacant, LoopInv, Untouched, TypeOK
    <3>4. PendingMatchesWork' /\ OnlyAbandonedLookupsRunOn' /\ ExpectsNeverFail'
      BY <1>2, <2>1, <2>3, <3>2
         DEF DialVacant, LoopInv, PendingMatchesWork, Working, TypeOK,
             OnlyAbandonedLookupsRunOn, ExpectsNeverFail
    <3>5. SendersOfWaiters'
      BY <2>1, <3>1, <3>2 DEF LoopInv, SendersOfWaiters
    <3> QED BY <3>3, <3>4, <3>5 DEF LoopInv
  <2> QED BY <1>2, <2>2, <2>3 DEF DialVacant
<1>3. CASE DialOccupied(c)
  BY <1>3, DieInv DEF DialOccupied
<1>4. CASE StartProviding(c)
  <2>1. /\ c \in Queued /\ NoCallQueuedTwice'
        /\ \A x \in Calls : x \in Queued' <=> x \in Queued /\ x # c
        /\ work[c] = "none" /\ call[c] \in {"waiting", "timeout"}
        /\ cmd[c].op = "StartProviding" /\ c \notin Pending
    BY <1>4, TakenUp DEF StartProviding
  <2>0. cmd[c] \in Command
    BY <2>1 DEF TypeOK, NoCommand
  <2>2. CASE /\ pending_start_providing' = pending_start_providing \cup {c}
             /\ work' = [work EXCEPT ![c] = "active"]
             /\ UNCHANGED call
    <3>1. Pending' = Pending \cup {c}
      BY <1>4, <2>2 DEF StartProviding, Pending
    <3>2. Untouched'
      BY <1>4, <2>0, <2>1, <2>2 DEF StartProviding, LoopInv, Untouched, TypeOK
    <3>3. PendingMatchesWork' /\ OnlyAbandonedLookupsRunOn' /\ ExpectsNeverFail'
      BY <1>4, <2>1, <2>2
         DEF StartProviding, LoopInv, PendingMatchesWork, Working, TypeOK,
             OnlyAbandonedLookupsRunOn, ExpectsNeverFail
    <3>4. SendersOfWaiters'
      BY <2>1, <2>2, <3>1 DEF LoopInv, SendersOfWaiters
    <3> QED BY <3>2, <3>3, <3>4 DEF LoopInv
  <2>3. CASE /\ work' = [work EXCEPT ![c] = "over"]
             /\ call' = Replied(c, "dropped")
             /\ UNCHANGED pending_start_providing
    <3>1. Pending' = Pending
      BY <1>4, <2>3 DEF StartProviding, Pending
    <3>2. /\ \A x \in Calls : x # c => call'[x] = call[x]
          /\ call'[c] \in {"dropped", "timeout"}
      BY <2>1, <2>3 DEF Replied, TypeOK
    <3>3. Untouched'
      BY <1>4, <2>0, <2>1, <2>3, <3>2 DEF StartProviding, LoopInv, Untouched, TypeOK
    <3>4. PendingMatchesWork' /\ OnlyAbandonedLookupsRunOn' /\ ExpectsNeverFail'
      BY <1>4, <2>1, <2>3, <3>2
         DEF StartProviding, LoopInv, PendingMatchesWork, Working, TypeOK,
             OnlyAbandonedLookupsRunOn, ExpectsNeverFail
    <3>5. SendersOfWaiters'
      BY <2>1, <3>1, <3>2 DEF LoopInv, SendersOfWaiters
    <3> QED BY <3>3, <3>4, <3>5 DEF LoopInv
  <2> QED BY <1>4, <2>2, <2>3 DEF StartProviding
<1>5. CASE GetProviders(c)
  <2>1. /\ c \in Queued /\ NoCallQueuedTwice'
        /\ \A x \in Calls : x \in Queued' <=> x \in Queued /\ x # c
        /\ work[c] = "none" /\ call[c] \in {"waiting", "timeout"}
        /\ cmd[c].op = "GetProviders" /\ c \notin Pending
    BY <1>5, TakenUp DEF GetProviders
  <2>0. cmd[c] \in Command
    BY <2>1 DEF TypeOK, NoCommand
  <2>2. Pending' = Pending \cup {c}
    BY <1>5 DEF GetProviders, Pending
  <2>3. Untouched'
    BY <1>5, <2>0, <2>1 DEF GetProviders, LoopInv, Untouched, TypeOK
  <2>4. PendingMatchesWork' /\ OnlyAbandonedLookupsRunOn' /\ ExpectsNeverFail'
    BY <1>5, <2>1
       DEF GetProviders, LoopInv, PendingMatchesWork, Working, TypeOK,
           OnlyAbandonedLookupsRunOn, ExpectsNeverFail
  <2>5. SendersOfWaiters'
    BY <1>5, <2>1, <2>2 DEF GetProviders, LoopInv, SendersOfWaiters
  <2> QED BY <2>3, <2>4, <2>5 DEF LoopInv
<1>6. CASE RequestFile(c)
  <2>1. /\ c \in Queued /\ NoCallQueuedTwice'
        /\ \A x \in Calls : x \in Queued' <=> x \in Queued /\ x # c
        /\ work[c] = "none" /\ call[c] \in {"waiting", "timeout"}
        /\ cmd[c].op = "RequestFile" /\ c \notin Pending
    BY <1>6, TakenUp DEF RequestFile
  <2>0. cmd[c] \in Command
    BY <2>1 DEF TypeOK, NoCommand
  <2>2. Pending' = Pending \cup {c}
    BY <1>6 DEF RequestFile, Pending
  <2>3. Untouched'
    BY <1>6, <2>0, <2>1 DEF RequestFile, LoopInv, Untouched, TypeOK
  <2>4. PendingMatchesWork' /\ OnlyAbandonedLookupsRunOn' /\ ExpectsNeverFail'
    BY <1>6, <2>1
       DEF RequestFile, LoopInv, PendingMatchesWork, Working, TypeOK,
           OnlyAbandonedLookupsRunOn, ExpectsNeverFail
  <2>5. SendersOfWaiters'
    BY <1>6, <2>1, <2>2 DEF RequestFile, LoopInv, SendersOfWaiters
  <2> QED BY <2>3, <2>4, <2>5 DEF LoopInv
<1> QED BY <1>1, <1>2, <1>3, <1>4, <1>5, <1>6

(* A call with work has left the channel, and its caller was not answered  *)
(* by anything but that work.                                              *)
LEMMA WorkingCall ==
    ASSUME TypeOK, LoopInv, NEW c \in Calls, NEW op, Working(c, op)
    PROVE  /\ c \notin Queued
           /\ cmd[c] \in Command
           /\ call[c] \notin {"unused", "sending", "unsent"}
BY DEF LoopInv, Untouched, Working

(* The end of a publication, a file request or a lookup, and the first     *)
(* providers of a lookup, keep the invariant (kad_client.rs:279-378).      *)
LEMMA QueryInv ==
    ASSUME TypeOK, LoopInv, NEW c \in Calls,
           QueryEnds(c) \/ FoundProviders(c)
    PROVE  LoopInv'
<1> USE DEF pendingVars
<1>1. CASE ProvidingDone(c)
  <2>1. c \in pending_start_providing
    BY <1>1 DEF ProvidingDone, LoopInv, PendingMatchesWork
  <2>2. /\ pending_start_providing' = pending_start_providing \ {c}
        /\ call' = Replied(c, "ok")
        /\ work' = [work EXCEPT ![c] = "over"]
        /\ UNCHANGED <<cmd, cmdq, loop, pending_dial, pending_get_providers,
                       pending_request_file>>
    BY <1>1, <2>1 DEF ProvidingDone
  <2>3. /\ c \notin Queued /\ cmd[c] \in Command /\ cmd[c].op = "StartProviding"
        /\ call[c] \in {"waiting", "timeout"} /\ work[c] = "active"
    BY <1>1, <2>1, WorkingCall
       DEF ProvidingDone, Working, LoopInv, SendersOfWaiters, Pending
  <2>4. /\ \A x \in Calls : x # c => call'[x] = call[x]
        /\ call'[c] \in {"ok", "timeout"}
    BY <2>2, <2>3 DEF Replied, TypeOK
  <2>5. Queued' = Queued /\ (NoCallQueuedTwice' <=> NoCallQueuedTwice)
    BY <2>2, SameQueue
  <2>6. \A x \in Calls : x \in Pending' <=> x \in Pending /\ x # c
    BY <2>2, <2>3, NamesAssumption
       DEF Pending, LoopInv, PendingMatchesWork, Working, TypeOK
  <2>7. Untouched'
    BY <2>2, <2>3, <2>4, <2>5 DEF LoopInv, Untouched, TypeOK
  <2>8. PendingMatchesWork' /\ OnlyAbandonedLookupsRunOn' /\ ExpectsNeverFail'
    BY <2>2, <2>3, <2>4
       DEF LoopInv, PendingMatchesWork, Working, TypeOK,
           OnlyAbandonedLookupsRunOn, ExpectsNeverFail
  <2>9. SendersOfWaiters'
    BY <2>3, <2>4, <2>5, <2>6 DEF LoopInv, SendersOfWaiters
  <2> QED BY <2>7, <2>8, <2>9 DEF LoopInv
<1>2. CASE FileOutcome(c)
  <2>1. c \in pending_request_file
    BY <1>2 DEF FileOutcome, LoopInv, PendingMatchesWork
  <2>2. /\ pending_request_file' = pending_request_file \ {c}
        /\ \E answer \in {"ok", "err"} : call' = Replied(c, answer)
        /\ work' = [work EXCEPT ![c] = "over"]
        /\ UNCHANGED <<cmd, cmdq, loop, pending_dial, pending_get_providers,
                       pending_start_providing>>
    BY <1>2, <2>1 DEF FileOutcome
  <2>3. /\ c \notin Queued /\ cmd[c] \in Command /\ cmd[c].op = "RequestFile"
        /\ call[c] \in {"waiting", "timeout"} /\ work[c] = "active"
    BY <1>2, <2>1, WorkingCall
       DEF FileOutcome, Working, LoopInv, SendersOfWaiters, Pending
  <2>4. /\ \A x \in Calls : x # c => call'[x] = call[x]
        /\ call'[c] \in {"ok", "err", "timeout"}
    BY <2>2, <2>3 DEF Replied, TypeOK
  <2>5. Queued' = Queued /\ (NoCallQueuedTwice' <=> NoCallQueuedTwice)
    BY <2>2, SameQueue
  <2>6. \A x \in Calls : x \in Pending' <=> x \in Pending /\ x # c
    <3>1. /\ c \notin pending_start_providing /\ c \notin pending_get_providers
          /\ \A q \in Peers : pending_dial[q] # c
      BY <2>3, NamesAssumption DEF LoopInv, PendingMatchesWork, Working
    <3> QED BY <2>2, <3>1 DEF Pending
  <2>7. Untouched'
    BY <2>2, <2>3, <2>4, <2>5 DEF LoopInv, Untouched, TypeOK
  <2>8. PendingMatchesWork' /\ OnlyAbandonedLookupsRunOn' /\ ExpectsNeverFail'
    BY <2>2, <2>3, <2>4
       DEF LoopInv, PendingMatchesWork, Working, TypeOK,
           OnlyAbandonedLookupsRunOn, ExpectsNeverFail
  <2>9. SendersOfWaiters'
    BY <2>3, <2>4, <2>5, <2>6 DEF LoopInv, SendersOfWaiters
  <2> QED BY <2>7, <2>8, <2>9 DEF LoopInv
<1>3. CASE FoundProviders(c)
  <2>2. /\ c \in pending_get_providers
        /\ pending_get_providers' = pending_get_providers \ {c}
        /\ call' = Replied(c, "ok")
        /\ work' = [work EXCEPT ![c] = IF call[c] = "waiting" THEN "over" ELSE @]
        /\ UNCHANGED <<cmd, cmdq, loop, pending_dial, pending_request_file,
                       pending_start_providing>>
    BY <1>3 DEF FoundProviders
  <2>3. /\ c \notin Queued /\ cmd[c] \in Command /\ cmd[c].op = "GetProviders"
        /\ call[c] \in {"waiting", "timeout"} /\ work[c] = "active"
    BY <1>3, <2>2, WorkingCall
       DEF FoundProviders, Working, LoopInv, SendersOfWaiters, Pending
  <2>4. /\ \A x \in Calls : x # c => call'[x] = call[x] /\ work'[x] = work[x]
        /\ call[c] = "waiting" => call'[c] = "ok" /\ work'[c] = "over"
        /\ call[c] = "timeout" => call'[c] = "timeout" /\ work'[c] = "active"
    BY <2>2, <2>3 DEF Replied, TypeOK
  <2>5. Queued' = Queued /\ (NoCallQueuedTwice' <=> NoCallQueuedTwice)
    BY <2>2, SameQueue
  <2>6. \A x \in Calls : x \in Pending' <=> x \in Pending /\ x # c
    <3>1. /\ c \notin pending_start_providing /\ c \notin pending_request_file
          /\ \A q \in Peers : pending_dial[q] # c
      BY <2>3, NamesAssumption DEF LoopInv, PendingMatchesWork, Working
    <3> QED BY <2>2, <3>1 DEF Pending
  <2>7. Untouched'
    BY <2>2, <2>3, <2>4, <2>5 DEF LoopInv, Untouched, TypeOK
  <2>8. PendingMatchesWork' /\ OnlyAbandonedLookupsRunOn' /\ ExpectsNeverFail'
    <3>1. \A x \in Calls : cmd[x].op # "GetProviders" => work'[x] = work[x]
      BY <2>3, <2>4
    <3>2. /\ pending_start_providing' = {x \in Calls : Working(x, "StartProviding")'}
          /\ pending_request_file' = {x \in Calls : Working(x, "RequestFile")'}
      BY <2>2, <3>1 DEF LoopInv, PendingMatchesWork, Working
    <3>3. \A q \in Peers, x \in Calls : pending_dial[q] = x =>
             Working(x, "Dial")' /\ cmd'[x].peer = q
      BY <2>2, <3>1, NamesAssumption DEF LoopInv, PendingMatchesWork, Working
    <3>4. \A q \in Peers : pending_dial'[q] # None =>
             Working(pending_dial[q], "Dial")' /\ cmd'[pending_dial'[q]].peer = q
      BY <2>2, <3>3 DEF TypeOK
    <3>5. \A x \in pending_get_providers' : work'[x] # "none" /\ cmd'[x].op = "GetProviders"
      BY <2>2, <2>3, <2>4 DEF LoopInv, PendingMatchesWork, TypeOK
    <3>6. \A x \in Calls : Working(x, "GetProviders")' =>
             /\ call'[x] = "waiting" => x \in pending_get_providers'
             /\ x \in pending_get_providers' \/ call'[x] = "timeout"
      BY <2>2, <2>3, <2>4
         DEF LoopInv, PendingMatchesWork, OnlyAbandonedLookupsRunOn, Working
    <3> QED
      BY <2>2, <3>2, <3>4, <3>5, <3>6
         DEF LoopInv, PendingMatchesWork, OnlyAbandonedLookupsRunOn, ExpectsNeverFail
  <2>9. SendersOfWaiters'
    BY <2>3, <2>4, <2>5, <2>6 DEF LoopInv, SendersOfWaiters
  <2> QED BY <2>7, <2>8, <2>9 DEF LoopInv
<1>4. CASE GetProvidersDone(c)
  <2>1. c \notin Queued /\ cmd[c] \in Command /\ work[c] = "active"
        /\ call[c] \notin {"unused", "sending", "unsent"}
        /\ cmd[c].op = "GetProviders"
    BY <1>4, WorkingCall DEF GetProvidersDone, Working
  <2>2. Queued' = Queued /\ (NoCallQueuedTwice' <=> NoCallQueuedTwice)
    BY <1>4, SameQueue DEF GetProvidersDone
  <2>3. Pending' = Pending
    BY <1>4 DEF GetProvidersDone, Pending
  <2>4. Untouched'
    BY <1>4, <2>1, <2>2 DEF GetProvidersDone, LoopInv, Untouched, TypeOK
  <2>5. PendingMatchesWork' /\ OnlyAbandonedLookupsRunOn' /\ ExpectsNeverFail'
    BY <1>4, <2>1, NamesAssumption
       DEF GetProvidersDone, LoopInv, PendingMatchesWork, Working, TypeOK,
           OnlyAbandonedLookupsRunOn, ExpectsNeverFail
  <2>6. SendersOfWaiters'
    BY <1>4, <2>2, <2>3 DEF GetProvidersDone, LoopInv, SendersOfWaiters
  <2> QED BY <2>4, <2>5, <2>6 DEF LoopInv
<1> QED BY <1>1, <1>2, <1>3, <1>4 DEF QueryEnds

(* Whoever's attempt it was that ended, at most one caller is answered,    *)
(* the one whose dial of that peer is pending.                             *)
LEMMA DialInv ==
    ASSUME TypeOK, LoopInv, NEW p \in Peers, NEW a \in Calls \cup {None},
           NEW answer \in {"ok", "err"}, DialSettled(p, a, answer)
    PROVE  LoopInv'
<1> USE DEF pendingVars
<1>1. /\ pending_dial' = [pending_dial EXCEPT ![p] = None]
      /\ UNCHANGED <<cmd, cmdq, loop, pending_start_providing,
                     pending_get_providers, pending_request_file>>
  BY DEF DialSettled
<1>2. Queued' = Queued /\ (NoCallQueuedTwice' <=> NoCallQueuedTwice)
  BY <1>1, SameQueue
<1>3. /\ \A x \in Calls : work'[x] # work[x] =>
            /\ x = a /\ Working(x, "Dial") /\ cmd[x].peer = p
            /\ work'[x] = "over"
      /\ work' \in [Calls -> {"none", "active", "over"}]
  BY DEF DialSettled, TypeOK
<1>d. PICK d \in Calls \cup {None} : d = pending_dial[p]
  BY DEF TypeOK
<1>4. /\ \A x \in Calls : x # d => call'[x] = call[x]
      /\ \A x \in Calls : x = d =>
            call'[x] = IF call[x] = "waiting" THEN answer ELSE call[x]
  BY <1>d, NamesAssumption DEF DialSettled, Replied, TypeOK
<1>5. \A x \in Calls : x = d =>
         /\ Working(x, "Dial") /\ cmd[x].peer = p
         /\ call[x] \in {"waiting", "timeout"}
         /\ x \notin Queued
  <2> SUFFICES ASSUME d \in Calls
               PROVE  /\ Working(d, "Dial") /\ cmd[d].peer = p
                      /\ call[d] \in {"waiting", "timeout"}
                      /\ d \notin Queued
    OBVIOUS
  <2>1. Working(d, "Dial") /\ cmd[d].peer = p
    BY <1>d, NamesAssumption DEF LoopInv, PendingMatchesWork
  <2>2. d \in Pending
    BY <1>d DEF Pending
  <2> QED BY <2>1, <2>2, WorkingCall DEF LoopInv, SendersOfWaiters
<1>6. \A x \in Calls : x \in Pending' <=> x \in Pending /\ x # d
  <2>1. \A q \in Peers, x \in Calls : pending_dial[q] = x => cmd[x].peer = q
    BY NamesAssumption DEF LoopInv, PendingMatchesWork
  <2>2. \A x \in Calls : (\E q \in Peers : pending_dial'[q] = x)
              <=> (\E q \in Peers : pending_dial[q] = x) /\ x # d
    BY <1>1, <1>d, <1>5, <2>1, NamesAssumption DEF TypeOK
  <2>3. d \in Calls =>
          d \notin pending_start_providing
             \cup pending_get_providers \cup pending_request_file
    BY <1>5 DEF LoopInv, PendingMatchesWork, Working
  <2> QED BY <1>1, <2>2, <2>3 DEF Pending
<1>7. Untouched'
  <2>1. \A x \in Calls : work'[x] # "none" => work[x] # "none"
    BY <1>3 DEF Working
  <2>2. \A x \in Calls : call'[x] \in {"unused", "sending", "unsent"}
                          => call'[x] = call[x]
    BY <1>4, <1>5
  <2> QED BY <1>1, <1>2, <2>1, <2>2 DEF LoopInv, Untouched
<1>8. PendingMatchesWork'
  <2>1. \A x \in Calls : cmd[x].op # "Dial" => work'[x] = work[x]
    BY <1>3 DEF Working
  <2>2. /\ pending_start_providing' = {x \in Calls : Working(x, "StartProviding")'}
        /\ pending_request_file' = {x \in Calls : Working(x, "RequestFile")'}
    BY <1>1, <2>1 DEF LoopInv, PendingMatchesWork, Working
  <2>6. \A q \in Peers, x \in Calls : pending_dial[q] = x /\ q # p =>
           Working(x, "Dial")' /\ cmd'[x].peer = q
    <3> SUFFICES ASSUME NEW q \in Peers, NEW x \in Calls,
                        pending_dial[q] = x, q # p
                 PROVE  Working(x, "Dial")' /\ cmd'[x].peer = q
      OBVIOUS
    <3>1. Working(x, "Dial") /\ cmd[x].peer = q
      BY NamesAssumption DEF LoopInv, PendingMatchesWork
    <3>2. work'[x] = work[x]
      BY <1>3, <3>1
    <3> QED BY <1>1, <3>1, <3>2 DEF Working
  <2>3. \A q \in Peers : pending_dial'[q] # None =>
           Working(pending_dial[q], "Dial")' /\ cmd'[pending_dial'[q]].peer = q
    <3> SUFFICES ASSUME NEW q \in Peers, pending_dial'[q] # None
                 PROVE  Working(pending_dial[q], "Dial")' /\ cmd'[pending_dial'[q]].peer = q
      OBVIOUS
    <3>1. q # p /\ pending_dial'[q] = pending_dial[q] /\ pending_dial[q] \in Calls
      BY <1>1 DEF TypeOK
    <3> QED BY <2>6, <3>1
  <2>4. \A x \in pending_get_providers' : work'[x] # "none" /\ cmd'[x].op = "GetProviders"
    BY <1>1, <2>1 DEF LoopInv, PendingMatchesWork, TypeOK
  <2>5. \A x \in Calls : Working(x, "GetProviders")' /\ call'[x] = "waiting"
                            => x \in pending_get_providers'
    BY <1>1, <1>4, <1>5, <2>1 DEF LoopInv, PendingMatchesWork, Working
  <2> QED BY <2>2, <2>3, <2>4, <2>5 DEF PendingMatchesWork
<1>9. OnlyAbandonedLookupsRunOn' /\ ExpectsNeverFail'
  <2>1. ASSUME NEW x \in Calls, Working(x, "GetProviders")'
        PROVE  x \in pending_get_providers' \/ call'[x] = "timeout"
    <3>1. Working(x, "GetProviders") /\ x # d
      BY <1>1, <1>3, <1>5, <2>1 DEF Working
    <3> QED BY <1>1, <1>4, <3>1 DEF LoopInv, OnlyAbandonedLookupsRunOn
  <2> QED BY <1>1, <2>1 DEF LoopInv, OnlyAbandonedLookupsRunOn, ExpectsNeverFail
<1>10. SendersOfWaiters'
  BY <1>2, <1>4, <1>5, <1>6 DEF LoopInv, SendersOfWaiters
<1> QED BY <1>7, <1>8, <1>9, <1>10 DEF LoopInv

(* Answers to other servers name no call and touch no sender.              *)
LEMMA RequestInv ==
    ASSUME TypeOK, LoopInv, NEW r \in Requests, RespondFile(r) \/ respond_file(r)
    PROVE  LoopInv'
<1> USE DEF pendingVars
<1>1. /\ \A x \in Calls : x \in Queued' <=> x \in Queued
      /\ NoCallQueuedTwice'
  <2>1. CASE RespondFile(r)
    BY <2>1, TakeRequest DEF RespondFile, LoopInv
  <2>2. CASE respond_file(r) /\ cmdq' = Append(cmdq, r)
    BY <2>2, AppendQueued, NamesAssumption DEF LoopInv
  <2>3. CASE respond_file(r) /\ UNCHANGED cmdq
    BY <2>3, SameQueue DEF LoopInv, Untouched
  <2> QED BY <2>1, <2>2, <2>3 DEF respond_file
<1>2. UNCHANGED <<call, cmd, loop, work, pendingVars>>
  BY DEF RespondFile, respond_file
<1>3. Pending' = Pending
  BY <1>2 DEF Pending
<1> QED
  BY <1>1, <1>2, <1>3
     DEF LoopInv, Untouched, PendingMatchesWork, SendersOfWaiters,
         OnlyAbandonedLookupsRunOn, ExpectsNeverFail, Working

(* Every step of the server, its peers and its application keeps the      *)
(* invariant: one case per group of actions.                               *)
LEMMA StepInv == TypeOK /\ LoopInv /\ [Next]_vars => LoopInv'
<1> SUFFICES ASSUME TypeOK, LoopInv, [Next]_vars PROVE LoopInv'
  OBVIOUS
<1>1. ASSUME NEW c \in Calls, Client(c) PROVE LoopInv'
  BY <1>1, ClientInv
<1>2. CASE HandleCommand
  BY <1>2, CommandInv, RequestInv DEF HandleCommand
<1>3. CASE Network
  <2>1. ASSUME NEW p \in Peers, KadDial(p) PROVE LoopInv'
    BY <2>1, FrameInv DEF KadDial
  <2>2. ASSUME NEW r \in Requests, InboundRequest(r) \/ EventSent(r) \/ Expire(r)
        PROVE  LoopInv'
    BY <2>2, FrameInv DEF InboundRequest, EventSent, Expire
  <2>3. ASSUME NEW c \in Calls, FoundProviders(c) \/ QueryEnds(c) PROVE LoopInv'
    BY <2>3, QueryInv
  <2>4. ASSUME NEW p \in Peers, NEW a \in Calls \cup {None}, DialEnds(p, a)
        PROVE  LoopInv'
    BY <2>4, DialInv DEF DialEnds, ConnectionEstablished, OutgoingConnectionError
  <2>5. CASE StorePanic
    BY <2>5, DieInv DEF StorePanic
  <2> QED BY <1>3, <2>1, <2>2, <2>3, <2>4, <2>5 DEF Network
<1>4. CASE Application
  BY <1>4, FrameInv, RequestInv DEF Application, TakeEvent
<1>5. CASE UNCHANGED vars
  BY <1>5, FrameInv DEF vars
<1> QED BY <1>1, <1>2, <1>3, <1>4, <1>5 DEF Next

(* The invariant above holds in every reachable state.                     *)
THEOREM Invariance == Spec => []LoopInv
BY InitInv, StepInv, TypeCorrect, PTL DEF Spec

(* The maps agree with the swarm, for any number of calls and peers        *)
(* (kad_client.rs:230-236).                                                *)
THEOREM PendingMatches == Spec => []PendingMatchesWork
<1>1. LoopInv => PendingMatchesWork
  BY DEF LoopInv
<1> QED BY <1>1, Invariance, PTL

(* No expect() of handle_event ever fails (kad_client.rs:289, 352, 370).   *)
THEOREM ExpectsSafe == Spec => []ExpectsNeverFail
<1>1. LoopInv => ExpectsNeverFail
  BY DEF LoopInv
<1> QED BY <1>1, Invariance, PTL

(* Waiting callers and the senders the loop holds correspond.              *)
THEOREM SendersHeld == Spec => []SendersOfWaiters
<1>1. LoopInv => SendersOfWaiters
  BY DEF LoopInv
<1> QED BY <1>1, Invariance, PTL

(* Only lookups whose caller gave up go on after their first answer.       *)
THEOREM LookupsStop == Spec => []OnlyAbandonedLookupsRunOn
<1>1. LoopInv => OnlyAbandonedLookupsRunOn
  BY DEF LoopInv
<1> QED BY <1>1, Invariance, PTL

(* A command is in the channel at most once, and has no work in the swarm  *)
(* before it has left it (kad_client.rs:115-212).                          *)
THEOREM TakenUpOnce == Spec => []Untouched
<1>1. LoopInv => Untouched
  BY DEF LoopInv
<1> QED BY <1>1, Invariance, PTL

-----------------------------------------------------------------------------
(***************************************************************************)
(* The event loop implements the contract of the calls, P2pCalls: every    *)
(* step of the loop, of its clients and of its peers is a step of the      *)
(* contract or a stutter.                                                  *)
(***************************************************************************)

(* The refinement mapping, one call at a time. *)
OutcomeOf(c) ==
    CASE call[c] = "unused" -> "idle"
      [] call[c] \in Open   -> "open"
      [] OTHER              -> call[c]

Executed(c) == work[c] # "none"

Outcomes == [c \in Calls |-> OutcomeOf(c)]
ExecutedSet == {c \in Calls : Executed(c)}

(* One call's outcome changes. *)
LEMMA OneOutcome ==
    ASSUME NEW c \in Calls, NEW o,
           \A d \in Calls : OutcomeOf(d)' = IF d = c THEN o ELSE OutcomeOf(d)
    PROVE  Outcomes' = [Outcomes EXCEPT ![c] = o]
BY DEF Outcomes

LEMMA SameOutcomes ==
    ASSUME \A d \in Calls : OutcomeOf(d)' = OutcomeOf(d)
    PROVE  Outcomes' = Outcomes
BY DEF Outcomes

(* A step that changes neither is a stutter of the contract. *)
LEMMA StutterStep ==
    ASSUME \A c \in Calls : OutcomeOf(c)' = OutcomeOf(c) /\ (Executed(c)' <=> Executed(c))
    PROVE  UNCHANGED Contract!vars
BY DEF Contract!vars, OutcomeOf, Executed

(* A caller that still waits is told how its call ended. *)
LEMMA ReturnStep ==
    ASSUME TypeOK, NEW c \in Calls, NEW o \in {"ok", "err", "timeout", "dropped"},
           call[c] \in Open, call' = [call EXCEPT ![c] = o],
           o \in {"ok", "err"} => Executed(c),
           \A d \in Calls : Executed(d)' <=> Executed(d)
    PROVE  Contract!Return(c, o)
<1>1. Contract!MayReturn(c, o)
  BY DEF Contract!MayReturn, Executed, Open
<1>2. \A d \in Calls : OutcomeOf(d)' = IF d = c THEN o ELSE OutcomeOf(d)
  BY DEF OutcomeOf, TypeOK, Open
<1>3. Outcomes' = [Outcomes EXCEPT ![c] = o]
  BY <1>2, OneOutcome
<1>4. ExecutedSet' = ExecutedSet
  BY DEF ExecutedSet
<1> QED BY <1>1, <1>3, <1>4
        DEF Contract!Return, Outcomes, ExecutedSet, OutcomeOf, Executed

(* An answer of the loop reaches its caller, or nobody. *)
LEMMA AnswerStep ==
    ASSUME TypeOK, NEW c \in Calls, NEW o \in {"ok", "err"},
           call' = Replied(c, o), Executed(c),
           \A d \in Calls : Executed(d)' <=> Executed(d)
    PROVE  Contract!Return(c, o) \/ UNCHANGED Contract!vars
<1>1. CASE call[c] = "waiting"
  BY <1>1, ReturnStep DEF Replied, Open
<1>2. CASE call[c] # "waiting"
  BY <1>2, StutterStep DEF Replied, OutcomeOf
<1> QED BY <1>1, <1>2

(* A command that is taken up, perhaps with an answer at once. *)
LEMMA ExecuteStep ==
    ASSUME TypeOK, NEW c \in Calls, NEW w \in {"active", "over"},
           call[c] \in {"waiting", "timeout"}, work[c] = "none",
           work' = [work EXCEPT ![c] = w],
           call' = call \/ \E o \in {"ok", "err", "dropped"} : call' = Replied(c, o)
    PROVE  Contract!Execute(c)
<1>1. \A d \in Calls : Executed(d)' <=> Executed(d) \/ d = c
  BY DEF Executed, TypeOK
<1>2. ~Executed(c) /\ OutcomeOf(c) \in {"open", "timeout"}
  BY DEF Executed, OutcomeOf, Open
<1>3. CASE call' = call
  <2>1. \A d \in Calls : OutcomeOf(d)' = OutcomeOf(d)
    BY <1>3 DEF OutcomeOf
  <2> QED BY <1>1, <1>2, <2>1 DEF Contract!Execute, OutcomeOf, Executed
<1>4. CASE call' # call
  <2>1. PICK o \in {"ok", "err", "dropped"} :
           call' = [call EXCEPT ![c] = o] /\ call[c] = "waiting"
    BY <1>4 DEF Replied
  <2>2. /\ OutcomeOf(c) = "open"
        /\ \A d \in Calls : OutcomeOf(d)' = IF d = c THEN o ELSE OutcomeOf(d)
    BY <2>1 DEF OutcomeOf, TypeOK, Open
  <2>3. Outcomes' = [Outcomes EXCEPT ![c] = o] /\ Outcomes[c] = "open"
    BY <2>2, OneOutcome DEF Outcomes
  <2>4. ExecutedSet' = ExecutedSet \cup {c} /\ c \notin ExecutedSet
    BY <1>1, <1>2 DEF ExecutedSet
  <2> QED BY <2>1, <2>3, <2>4
          DEF Contract!Execute, Outcomes, ExecutedSet, OutcomeOf, Executed
<1> QED BY <1>3, <1>4

(* When the task dies, a call that is not in the channel yet finds it      *)
(* closed, and the others lose their senders.                              *)
LEMMA DisconnectStep ==
    ASSUME TypeOK, Untouched, NEW cause, Die(cause)
    PROVE  Contract!Disconnect
<1> DEFINE lost == {c \in Calls : call[c] = "sending"}
<1>1. \A c \in Calls : Executed(c)' <=> Executed(c)
  BY DEF Die, Executed, TypeOK
<1>2. \A c \in lost : ~Executed(c) /\ OutcomeOf(c) = "open"
  BY DEF Untouched, Executed, OutcomeOf, Open
<1>3. \A c \in Calls : OutcomeOf(c)' = IF OutcomeOf(c) # "open" THEN OutcomeOf(c)
                                       ELSE IF c \in lost THEN "unsent" ELSE "dropped"
  BY DEF Die, OutcomeOf, TypeOK, Open, Returned
<1>4. lost \in SUBSET {c \in Calls : Contract!MayReturn(c, "unsent")}
  BY <1>2 DEF Contract!MayReturn, OutcomeOf, Executed
<1> HIDE DEF lost
<1> QED BY <1>1, <1>3, <1>4 DEF Contract!Disconnect, OutcomeOf, Executed

(* The steps of a caller: it issues its call, its command finds a slot, or *)
(* it gives up (kad_client.rs:116-212).                                    *)
LEMMA ClientStep ==
    ASSUME TypeOK, NEW c \in Calls, Client(c)
    PROVE  [Contract!Next]_(Contract!vars)
<1>1. CASE Issue(c)
  <2>1. PICK o \in {"open", "unsent"} :
           \A d \in Calls : OutcomeOf(d)' = IF d = c THEN o ELSE OutcomeOf(d)
    BY <1>1 DEF Issue, OutcomeOf, TypeOK, Open
  <2>2. Outcomes' = [Outcomes EXCEPT ![c] = o]
    BY <2>1, OneOutcome
  <2>3. Outcomes[c] = "idle"
    BY <1>1 DEF Issue, Outcomes, OutcomeOf, Open
  <2>4. ExecutedSet' = ExecutedSet
    BY <1>1 DEF Issue, ExecutedSet, Executed
  <2>5. Contract!Issue(c)
    BY <2>2, <2>3, <2>4 DEF Contract!Issue, Outcomes, ExecutedSet, OutcomeOf, Executed
  <2> QED BY <2>5 DEF Contract!Next
<1>2. CASE Send(c)
  BY <1>2, StutterStep DEF Send, OutcomeOf, Executed, TypeOK, Open
<1>3. CASE Timeout(c)
  <2>1. Contract!Return(c, "timeout")
    BY <1>3, ReturnStep DEF Timeout, Executed
  <2> QED BY <2>1 DEF Contract!Next, Contract!Returned
<1> QED BY <1>1, <1>2, <1>3 DEF Client

(* handle_command takes up one command, or dies on a second dial of a peer *)
(* (kad_client.rs:444-533).                                                *)
LEMMA CommandStep ==
    ASSUME TypeOK, LoopInv, NEW c \in Calls,
           \/ StartListening(c) \/ DialVacant(c) \/ DialOccupied(c)
           \/ StartProviding(c) \/ GetProviders(c) \/ RequestFile(c)
    PROVE  [Contract!Next]_(Contract!vars)
<1>1. CASE DialOccupied(c)
  BY <1>1, DisconnectStep DEF DialOccupied, LoopInv, Contract!Next
<1>2. CASE ~DialOccupied(c)
  <2>1. (\E op : Takes(c, op)) /\ cmdq' = Tail(cmdq)
    BY <1>2 DEF StartListening, DialVacant, StartProviding, GetProviders, RequestFile
  <2>2. call[c] \in {"waiting", "timeout"} /\ work[c] = "none"
    BY <2>1, TakenUp
  <2>3. \E w \in {"active", "over"} : work' = [work EXCEPT ![c] = w]
    BY <1>2 DEF StartListening, DialVacant, StartProviding, GetProviders, RequestFile
  <2>4. call' = call \/ \E o \in {"ok", "err", "dropped"} : call' = Replied(c, o)
    BY <1>2 DEF StartListening, DialVacant, StartProviding, GetProviders, RequestFile
  <2>5. Contract!Execute(c)
    BY <2>2, <2>3, <2>4, ExecuteStep
  <2> QED BY <2>5 DEF Contract!Next
<1> QED BY <1>1, <1>2

(* handle_event answers the call of a query or request that ends, or finds *)
(* nobody to answer (kad_client.rs:279-378).                               *)
LEMMA QueryStep ==
    ASSUME TypeOK, LoopInv, NEW c \in Calls, QueryEnds(c) \/ FoundProviders(c)
    PROVE  [Contract!Next]_(Contract!vars)
<1>1. work[c] = "active"
  BY DEF QueryEnds, ProvidingDone, GetProvidersDone, FileOutcome, FoundProviders,
         Working
<1>2. CASE \E cause : Die(cause)
  BY <1>2, DisconnectStep DEF LoopInv, Contract!Next
<1>3. CASE ~\E cause : Die(cause)
  <2>1. \E w \in {"active", "over"} : work' = [work EXCEPT ![c] = w]
    BY <1>1, <1>3 DEF QueryEnds, ProvidingDone, GetProvidersDone, FileOutcome,
                      FoundProviders, TypeOK
  <2>2. \A d \in Calls : Executed(d)' <=> Executed(d)
    BY <1>1, <2>1 DEF Executed, TypeOK
  <2>3. call' = call \/ \E o \in {"ok", "err"} : call' = Replied(c, o)
    BY <1>3 DEF QueryEnds, ProvidingDone, GetProvidersDone, FileOutcome, FoundProviders
  <2>4. CASE call' = call
    BY <2>2, <2>4, StutterStep DEF OutcomeOf
  <2>5. CASE \E o \in {"ok", "err"} : call' = Replied(c, o)
    <3>1. PICK o \in {"ok", "err"} : call' = Replied(c, o)
      BY <2>5
    <3>2. Contract!Return(c, o) \/ UNCHANGED Contract!vars
      BY <1>1, <2>2, <3>1, AnswerStep DEF Executed
    <3> QED BY <3>2 DEF Contract!Next, Contract!Returned
  <2> QED BY <2>3, <2>4, <2>5
<1> QED BY <1>2, <1>3

(* Whichever attempt to connect to p ends, the pending dial of p is        *)
(* answered (kad_client.rs:393-429).                                       *)
LEMMA DialStep ==
    ASSUME TypeOK, LoopInv, NEW p \in Peers, NEW a \in Calls \cup {None},
           NEW answer \in {"ok", "err"}, DialSettled(p, a, answer)
    PROVE  [Contract!Next]_(Contract!vars)
<1>1. \A d \in Calls : Executed(d)' <=> Executed(d)
  BY DEF DialSettled, Working, Executed, TypeOK
<1>2. CASE pending_dial[p] = None
  BY <1>1, <1>2, StutterStep DEF DialSettled, OutcomeOf
<1>3. CASE pending_dial[p] # None
  <2>1. pending_dial[p] \in Calls /\ Executed(pending_dial[p])
    BY <1>3 DEF LoopInv, PendingMatchesWork, Working, Executed, TypeOK
  <2>2. call' = Replied(pending_dial[p], answer)
    BY <1>3 DEF DialSettled
  <2>3. Contract!Return(pending_dial[p], answer) \/ UNCHANGED Contract!vars
    BY <1>1, <2>1, <2>2, AnswerStep
  <2> QED BY <2>1, <2>3 DEF Contract!Next, Contract!Returned
<1> QED BY <1>2, <1>3

(* The rest of the loop, the requests of other servers and the tasks that  *)
(* serve them do not show in the contract.                                 *)
LEMMA SilentStep ==
    ASSUME UNCHANGED <<call, work>>
    PROVE  UNCHANGED Contract!vars
BY StutterStep DEF OutcomeOf, Executed

(* Every step of the loop is a step of the contract. *)
LEMMA ContractStep == TypeOK /\ LoopInv /\ [Next]_vars => [Contract!Next]_(Contract!vars)
<1> SUFFICES ASSUME TypeOK, LoopInv, [Next]_vars PROVE [Contract!Next]_(Contract!vars)
  OBVIOUS
<1>1. ASSUME NEW c \in Calls, Client(c) PROVE [Contract!Next]_(Contract!vars)
  BY <1>1, ClientStep
<1>2. CASE HandleCommand
  <2>1. ASSUME NEW r \in Requests, RespondFile(r) PROVE [Contract!Next]_(Contract!vars)
    BY <2>1, SilentStep DEF RespondFile
  <2> QED BY <1>2, <2>1, CommandStep DEF HandleCommand
<1>3. CASE Network
  <2>1. ASSUME NEW p \in Peers, KadDial(p) PROVE [Contract!Next]_(Contract!vars)
    BY <2>1, SilentStep DEF KadDial
  <2>2. ASSUME NEW r \in Requests, InboundRequest(r) \/ EventSent(r) \/ Expire(r)
        PROVE  [Contract!Next]_(Contract!vars)
    BY <2>2, SilentStep DEF InboundRequest, EventSent, Expire
  <2>3. ASSUME NEW c \in Calls, FoundProviders(c) \/ QueryEnds(c)
        PROVE  [Contract!Next]_(Contract!vars)
    BY <2>3, QueryStep
  <2>4. ASSUME NEW p \in Peers, NEW a \in Calls \cup {None}, DialEnds(p, a)
        PROVE  [Contract!Next]_(Contract!vars)
    BY <2>4, DialStep DEF DialEnds, ConnectionEstablished, OutgoingConnectionError
  <2>5. CASE StorePanic
    BY <2>5, DisconnectStep DEF StorePanic, LoopInv, Contract!Next
  <2> QED BY <1>3, <2>1, <2>2, <2>3, <2>4, <2>5 DEF Network
<1>4. CASE Application
  BY <1>4, SilentStep DEF Application, TakeEvent, respond_file
<1>5. CASE UNCHANGED vars
  BY <1>5, SilentStep DEF vars
<1> QED BY <1>1, <1>2, <1>3, <1>4, <1>5 DEF Next

(* KadClient and its loop keep the contract of the calls, for any numbers  *)
(* of calls, requests and peers and any capacities: each command is        *)
(* executed at most once, answers are earned, and a call that has returned *)
(* stays as it is (kad_client.rs:116-535).                                 *)
THEOREM Refinement == Spec => ImplementsCalls
<1>1. Init => Contract!Init
  <2> SUFFICES ASSUME Init PROVE Contract!Init
    OBVIOUS
  <2>1. Outcomes = [c \in Calls |-> "idle"]
    BY DEF Init, Outcomes, OutcomeOf, Open
  <2>2. ExecutedSet = {}
    BY DEF Init, ExecutedSet, Executed
  <2> QED BY <2>1, <2>2
          DEF Contract!Init, Outcomes, ExecutedSet, OutcomeOf, Executed
<1>2. TypeOK /\ LoopInv /\ [Next]_vars => [Contract!Next]_(Contract!vars)
  BY ContractStep
<1> QED BY <1>1, <1>2, TypeCorrect, Invariance, PTL
        DEF Spec, ImplementsCalls, Contract!Spec

(* One caller's command never takes away another caller's answer           *)
(* (kad_client.rs:444-533).                                                *)
THEOREM AnswersKept == Spec => NoAnswerLost
<1> DEFINE Lossless == \A c \in Calls :
                          call[c] = "waiting" /\ call'[c] = "dropped" =>
                             loop' # "running" \/ cmd[c].op = "StartProviding"
<1>1. TypeOK /\ LoopInv /\ [Next]_vars => [Lossless]_vars
  <2> SUFFICES ASSUME TypeOK, LoopInv, Next, NEW c \in Calls,
                      call[c] = "waiting", call'[c] = "dropped", loop' = "running"
               PROVE  cmd[c].op = "StartProviding"
    BY DEF vars
  <2>1. ASSUME NEW cause \in {"panic_dial", "panic_expect", "panic_store"} PROVE ~Die(cause)
    BY DEF Die
  <2>2. ASSUME NEW d \in Calls, Client(d) PROVE FALSE
    BY <2>2 DEF Client, Issue, Send, Timeout, TypeOK
  <2>3. CASE HandleCommand
    <3>1. ASSUME NEW d \in Calls,
                 \/ StartListening(d) \/ DialVacant(d) \/ DialOccupied(d)
                 \/ GetProviders(d) \/ RequestFile(d)
          PROVE  FALSE
      BY <2>1, <3>1 DEF StartListening, DialVacant, DialOccupied, GetProviders,
                        RequestFile, Replied, TypeOK
    <3>2. ASSUME NEW d \in Calls, StartProviding(d) PROVE cmd[c].op = "StartProviding"
      BY <3>2 DEF StartProviding, Takes, Replied, TypeOK
    <3>3. ASSUME NEW r \in Requests, RespondFile(r) PROVE FALSE
      BY <3>3 DEF RespondFile
    <3> QED BY <2>3, <3>1, <3>2, <3>3 DEF HandleCommand
  <2>4. CASE Network
    <3>1. ASSUME NEW p \in Peers, KadDial(p) PROVE FALSE
      BY <3>1 DEF KadDial
    <3>2. ASSUME NEW r \in Requests, InboundRequest(r) \/ EventSent(r) \/ Expire(r)
          PROVE  FALSE
      BY <3>2 DEF InboundRequest, EventSent, Expire
    <3>3. ASSUME NEW d \in Calls, FoundProviders(d) \/ QueryEnds(d) PROVE FALSE
      BY <2>1, <3>3 DEF FoundProviders, QueryEnds, ProvidingDone, GetProvidersDone,
                        FileOutcome, Replied, TypeOK
    <3>4. ASSUME NEW p \in Peers, NEW a \in Calls \cup {None}, DialEnds(p, a)
          PROVE  FALSE
      BY <3>4 DEF DialEnds, ConnectionEstablished, OutgoingConnectionError,
                  DialSettled, Replied, TypeOK
    <3>5. ~StorePanic
      BY <2>1 DEF StorePanic
    <3> QED BY <2>4, <3>1, <3>2, <3>3, <3>4, <3>5 DEF Network
  <2>5. ~Application
    BY DEF Application, TakeEvent, respond_file
  <2> QED BY <2>2, <2>3, <2>4, <2>5 DEF Next
<1> QED BY <1>1, TypeCorrect, Invariance, PTL DEF Spec, NoAnswerLost

-----------------------------------------------------------------------------
(* The contract once more, with what is proved of it. *)
Promised == INSTANCE P2pCallsProofs WITH
    outcome <- Outcomes, executed <- ExecutedSet

(* The two instances of P2pCalls are the same specification.               *)
LEMMA SameContract == Contract!Spec => Promised!Spec
<1> USE DEF Outcomes, ExecutedSet, OutcomeOf, Executed
<1>1. Contract!Init => Promised!Init
  BY DEF Contract!Init, Promised!Init
<1>2. [Contract!Next]_(Contract!vars) => [Promised!Next]_(Promised!vars)
  <2>1. ASSUME NEW c \in Calls, Contract!Issue(c) PROVE Promised!Issue(c)
    BY <2>1 DEF Contract!Issue, Promised!Issue
  <2>2. ASSUME NEW c \in Calls, Contract!Execute(c) PROVE Promised!Execute(c)
    BY <2>2 DEF Contract!Execute, Promised!Execute
  <2>3. ASSUME NEW c \in Calls, NEW o, Contract!Return(c, o)
        PROVE  Promised!Return(c, o)
    BY <2>3 DEF Contract!Return, Promised!Return, Contract!MayReturn, Promised!MayReturn
  <2>4. ASSUME Contract!Disconnect PROVE Promised!Disconnect
    BY <2>4 DEF Contract!Disconnect, Promised!Disconnect, Contract!MayReturn,
                Promised!MayReturn
  <2>5. ASSUME UNCHANGED Contract!vars PROVE UNCHANGED Promised!vars
    BY <2>5 DEF Contract!vars, Promised!vars
  <2>6. Contract!Returned = Promised!Returned
    BY DEF Contract!Returned, Promised!Returned
  <2> QED BY <2>1, <2>2, <2>3, <2>4, <2>5, <2>6 DEF Contract!Next, Promised!Next
<1> QED BY <1>1, <1>2, PTL DEF Contract!Spec, Promised!Spec

(* What the contract promises, the event loop delivers: a call returns     *)
(* Ok or an error only for a command that the loop took up, and an error   *)
(* of the channel only for one that it never will, whatever times out or   *)
(* panics in between (KadClient methods, kad_client.rs:116-212).           *)
THEOREM LoopAnswersEarned == Spec => []Promised!AnswersAreEarned
<1>1. Promised!Spec => []Promised!AnswersAreEarned
  BY Promised!AnswersEarned
<1> QED BY <1>1, Refinement, SameContract, PTL DEF ImplementsCalls

(* No late answer, time-out or panic changes what a call has returned, and *)
(* no command is undone or taken up twice (kad_client.rs:116-212, 443-533).*)
THEOREM LoopReturnsOnce == Spec => Promised!ReturnsOnce
<1>1. Promised!Spec => Promised!ReturnsOnce
  BY Promised!CallsReturnOnce
<1> QED BY <1>1, Refinement, SameContract, PTL DEF ImplementsCalls
=============================================================================
