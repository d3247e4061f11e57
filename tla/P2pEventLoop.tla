---------------------------- MODULE P2pEventLoop ----------------------------
(***************************************************************************)
(* KadClient and P2pEventLoop (src/wit-server/src/server/p2p): the tasks   *)
(* of a wiki server talk to the one task that owns the libp2p swarm over a *)
(* bounded command channel, each command carrying a oneshot sender for its *)
(* answer; the loop keeps the senders in four maps until the swarm reports *)
(* the outcome, and hands requests of other servers to the application     *)
(* over a second bounded channel.                                          *)
(*                                                                         *)
(* A command is named after the call that sent it and a query or request   *)
(* id after the command that started it.  The RespondFile command carries  *)
(* no oneshot sender: it is named after the inbound request it answers.    *)
(***************************************************************************)
EXTENDS Naturals, Sequences, FiniteSets

CONSTANTS
    Calls,          \* calls of KadClient methods, each made at most once
    Requests,       \* requests that other servers send to this one
    Peers,          \* peers that are dialled
    CmdCap,         \* capacity of the command channel (64 in the code)
    EvCap,          \* capacity of the event channel (64 in the code)
    Handlers,       \* application tasks that serve events at the same time;
                    \* 0 is the server as it is deployed (server/mod.rs:61)
    None            \* no call, no peer

ASSUME CapAssumption == CmdCap \in Nat \ {0} /\ EvCap \in Nat \ {0}
ASSUME HandlersAssumption == Handlers \in Nat
ASSUME NamesAssumption ==
    /\ Calls \cap Requests = {}
    /\ None \notin Calls \cup Requests \cup Peers

VARIABLES
    call,                       \* the caller's view of each call
    cmd,                        \* the command of each call
    cmdq,                       \* command channel
    eventq,                     \* event channel
    loop,                       \* the event loop's task
    pending_dial,               \* peer |-> call to answer
    pending_start_providing,    \* query ids, that is calls
    pending_get_providers,
    pending_request_file,
    work,                       \* what the swarm does for each call
    kadDial,                    \* peers Kademlia dials on its own account
    inbound,                    \* progress of each inbound request
    expired                     \* requests whose sender no longer listens

pendingVars == <<pending_dial, pending_start_providing,
                 pending_get_providers, pending_request_file>>
inboundVars == <<eventq, inbound, expired>>
vars == <<call, cmd, cmdq, loop, work, kadDial, pendingVars, inboundVars>>

-----------------------------------------------------------------------------
QueryOps == {"StartListening", "StartProviding", "GetProviders", "RequestFile"}

Command == [op : QueryOps, peer : {None}] \cup [op : {"Dial"}, peer : Peers]

NoCommand == [op |-> "none", peer |-> None]

Open == {"sending", "waiting"}
Returned == {"ok", "err", "timeout", "dropped", "unsent"}

TypeOK ==
    /\ call \in [Calls -> {"unused"} \cup Open \cup Returned]
    /\ cmd \in [Calls -> Command \cup {NoCommand}]
    /\ cmdq \in Seq(Calls \cup Requests)
    /\ Len(cmdq) <= CmdCap
    /\ eventq \in Seq(Requests)
    /\ Len(eventq) <= EvCap
    /\ loop \in {"running", "panic_dial", "panic_expect", "panic_store"}
    /\ pending_dial \in [Peers -> Calls \cup {None}]
    /\ pending_start_providing \subseteq Calls
    /\ pending_get_providers \subseteq Calls
    /\ pending_request_file \subseteq Calls
    /\ work \in [Calls -> {"none", "active", "over"}]
    /\ kadDial \subseteq Peers
    /\ inbound \in [Requests -> {"none", "held", "event", "serving",
                                 "command", "sent", "failed", "dropped"}]
    /\ expired \subseteq Requests

Init ==
    /\ call = [c \in Calls |-> "unused"]
    /\ cmd = [c \in Calls |-> NoCommand]
    /\ cmdq = <<>>
    /\ eventq = <<>>
    /\ loop = "running"
    /\ pending_dial = [p \in Peers |-> None]
    /\ pending_start_providing = {}
    /\ pending_get_providers = {}
    /\ pending_request_file = {}
    /\ work = [c \in Calls |-> "none"]
    /\ kadDial = {}
    /\ inbound = [r \in Requests |-> "none"]
    /\ expired = {}

(* event_sender.send(..).await is part of handle_event: while the event    *)
(* channel is full the loop neither polls the swarm nor takes commands.    *)
Blocked == \E r \in Requests : inbound[r] = "held"

Polling == loop = "running" /\ ~Blocked

(* Mutant of Replied: the answer also overwrites what a caller that has    *)
(* already given up was told.                                              *)
RepliedToAnyone(c, answer) == [call EXCEPT ![c] = answer]

(* sender.send(value): the value is lost when the receiver is gone, which  *)
(* handle_event and handle_command only log.                               *)
Replied(c, answer) ==
    IF call[c] = "waiting" THEN [call EXCEPT ![c] = answer] ELSE call

-----------------------------------------------------------------------------
(* KadClient: a call first awaits a slot of the command channel.  A client *)
(* of a loop that has died finds the channel closed.                       *)
Issue(c) ==
    /\ call[c] = "unused"
    /\ \E k \in Command : cmd' = [cmd EXCEPT ![c] = k]
    /\ call' = [call EXCEPT ![c] =
                    IF loop = "running" THEN "sending" ELSE "unsent"]
    /\ UNCHANGED <<cmdq, loop, work, kadDial, pendingVars, inboundVars>>

(* Mutant of Send: an unbounded channel. *)
SendUnbounded(c) ==
    /\ call[c] = "sending"
    /\ loop = "running"
    /\ call' = [call EXCEPT ![c] = "waiting"]
    /\ cmdq' = Append(cmdq, c)
    /\ UNCHANGED <<cmd, loop, work, kadDial, pendingVars, inboundVars>>

(* Mutant of Send: a call that has no answer yet sends its command again.  *)
SendAgain(c) ==
    /\ call[c] \in Open
    /\ loop = "running"
    /\ Len(cmdq) < CmdCap
    /\ call' = [call EXCEPT ![c] = "waiting"]
    /\ cmdq' = Append(cmdq, c)
    /\ UNCHANGED <<cmd, loop, work, kadDial, pendingVars, inboundVars>>

Send(c) ==
    /\ call[c] = "sending"
    /\ loop = "running"
    /\ Len(cmdq) < CmdCap
    /\ call' = [call EXCEPT ![c] = "waiting"]
    /\ cmdq' = Append(cmdq, c)
    /\ UNCHANGED <<cmd, loop, work, kadDial, pendingVars, inboundVars>>

(* Mutant of Timeout: a caller that gives up takes its entry along. *)
TimeoutForgets(c) ==
    /\ call[c] \in Open
    /\ call' = [call EXCEPT ![c] = "timeout"]
    /\ pending_request_file' = pending_request_file \ {c}
    /\ UNCHANGED <<cmd, cmdq, loop, work, kadDial, pending_dial,
                   pending_start_providing, pending_get_providers, inboundVars>>

(* Mutant of Timeout: the timer starts only after the command was sent. *)
TimeoutAfterSend(c) ==
    /\ call[c] = "waiting"
    /\ call' = [call EXCEPT ![c] = "timeout"]
    /\ UNCHANGED <<cmd, cmdq, loop, work, kadDial, pendingVars, inboundVars>>

(* The timer covers the wait for the slot and the wait for the answer; the *)
(* command, when it was sent, stays in the channel or the map it is in.    *)
Timeout(c) ==
    /\ call[c] \in Open
    /\ call' = [call EXCEPT ![c] = "timeout"]
    /\ UNCHANGED <<cmd, cmdq, loop, work, kadDial, pendingVars, inboundVars>>

-----------------------------------------------------------------------------
(* A panic unwinds the loop's task: the receiver of the command channel,   *)
(* the maps with their oneshot senders and the swarm are dropped, and the  *)
(* rest of the server keeps running.                                       *)
Die(cause) ==
    /\ loop' = cause
    /\ call' = [c \in Calls |-> CASE call[c] = "waiting" -> "dropped"
                                  [] call[c] = "sending" -> "unsent"
                                  [] OTHER -> call[c]]
    /\ cmdq' = <<>>
    /\ pending_dial' = [p \in Peers |-> None]
    /\ pending_start_providing' = {}
    /\ pending_get_providers' = {}
    /\ pending_request_file' = {}
    /\ work' = [c \in Calls |-> IF work[c] = "active" THEN "over" ELSE work[c]]
    /\ kadDial' = {}
    /\ inbound' = [r \in Requests |->
                    IF inbound[r] \in {"held", "command"} THEN "dropped"
                    ELSE inbound[r]]
    /\ UNCHANGED <<cmd, eventq, expired>>

(* The store panics inside Kademlia: its hourly replication job unwraps    *)
(* the error of opening a table that was never committed, and put() the    *)
(* error of decoding a value that is not text (KadStore; kad_store.rs:133, *)
(* tables.rs:98).                                                          *)
StorePanic == Polling /\ Die("panic_store")

-----------------------------------------------------------------------------
(* handle_command *)
Takes(c, op) ==
    /\ Polling
    /\ cmdq # <<>>
    /\ Head(cmdq) = c
    /\ cmd[c].op = op

StartListening(c) ==
    /\ Takes(c, "StartListening")
    /\ cmdq' = Tail(cmdq)
    /\ work' = [work EXCEPT ![c] = "over"]
    /\ \E answer \in {"ok", "err"} : call' = Replied(c, answer)
    /\ UNCHANGED <<cmd, loop, kadDial, pendingVars, inboundVars>>

DialVacant(c) ==
    /\ Takes(c, "Dial")
    /\ pending_dial[cmd[c].peer] = None
    /\ cmdq' = Tail(cmdq)
    /\ \/ /\ pending_dial' = [pending_dial EXCEPT ![cmd[c].peer] = c]
          /\ work' = [work EXCEPT ![c] = "active"]
          /\ UNCHANGED call
       \/ /\ work' = [work EXCEPT ![c] = "over"]
          /\ call' = Replied(c, "err")
          /\ UNCHANGED pending_dial
    /\ UNCHANGED <<cmd, loop, kadDial, pending_start_providing,
                   pending_get_providers, pending_request_file, inboundVars>>

(* Mutant of DialOccupied: insert() replaces the sender of the first dial. *)
DialReplaces(c) ==
    /\ Takes(c, "Dial")
    /\ pending_dial[cmd[c].peer] # None
    /\ cmdq' = Tail(cmdq)
    /\ pending_dial' = [pending_dial EXCEPT ![cmd[c].peer] = c]
    /\ work' = [work EXCEPT ![c] = "active"]
    /\ call' = Replied(pending_dial[cmd[c].peer], "dropped")
    /\ UNCHANGED <<cmd, loop, kadDial, pending_start_providing,
                   pending_get_providers, pending_request_file, inboundVars>>

(* unimplemented!("already dialing peer") *)
DialOccupied(c) ==
    /\ Takes(c, "Dial")
    /\ pending_dial[cmd[c].peer] # None
    /\ Die("panic_dial")

StartProviding(c) ==
    /\ Takes(c, "StartProviding")
    /\ cmdq' = Tail(cmdq)
    /\ \/ /\ pending_start_providing' = pending_start_providing \cup {c}
          /\ work' = [work EXCEPT ![c] = "active"]
          /\ UNCHANGED call
       \/ /\ work' = [work EXCEPT ![c] = "over"]    \* the store refused
          /\ call' = Replied(c, "dropped")
          /\ UNCHANGED pending_start_providing
    /\ UNCHANGED <<cmd, loop, kadDial, pending_dial, pending_get_providers,
                   pending_request_file, inboundVars>>

GetProviders(c) ==
    /\ Takes(c, "GetProviders")
    /\ cmdq' = Tail(cmdq)
    /\ pending_get_providers' = pending_get_providers \cup {c}
    /\ work' = [work EXCEPT ![c] = "active"]
    /\ UNCHANGED <<call, cmd, loop, kadDial, pending_dial,
                   pending_start_providing, pending_request_file, inboundVars>>

(* Mutant of RequestFile: the request is sent and its sender not kept. *)
RequestFileUnregistered(c) ==
    /\ Takes(c, "RequestFile")
    /\ cmdq' = Tail(cmdq)
    /\ work' = [work EXCEPT ![c] = "active"]
    /\ UNCHANGED <<call, cmd, loop, kadDial, pendingVars, inboundVars>>

RequestFile(c) ==
    /\ Takes(c, "RequestFile")
    /\ cmdq' = Tail(cmdq)
    /\ pending_request_file' = pending_request_file \cup {c}
    /\ work' = [work EXCEPT ![c] = "active"]
    /\ UNCHANGED <<call, cmd, loop, kadDial, pending_dial,
                   pending_start_providing, pending_get_providers, inboundVars>>

RespondFile(r) ==
    /\ Polling
    /\ cmdq # <<>>
    /\ Head(cmdq) = r
    /\ cmdq' = Tail(cmdq)
    /\ inbound' = [inbound EXCEPT ![r] =
                    IF r \in expired THEN "failed" ELSE "sent"]
    /\ UNCHANGED <<call, cmd, eventq, loop, work, kadDial, pendingVars, expired>>

-----------------------------------------------------------------------------
(* handle_event *)
Working(c, op) == work[c] = "active" /\ cmd[c].op = op

(* StartProviding(_): a failed publication is answered like a successful   *)
(* one; expect() on an entry that is not there kills the task.             *)
ProvidingDone(c) ==
    /\ Polling
    /\ Working(c, "StartProviding")
    /\ \/ /\ c \in pending_start_providing
          /\ pending_start_providing' = pending_start_providing \ {c}
          /\ call' = Replied(c, "ok")
          /\ work' = [work EXCEPT ![c] = "over"]
          /\ UNCHANGED <<cmd, cmdq, loop, kadDial, pending_dial,
                         pending_get_providers, pending_request_file,
                         inboundVars>>
       \/ c \notin pending_start_providing /\ Die("panic_expect")

(* Mutant of FoundProviders: the query is not finished after its answer. *)
FoundProvidersGoesOn(c) ==
    /\ Polling
    /\ Working(c, "GetProviders")
    /\ c \in pending_get_providers
    /\ pending_get_providers' = pending_get_providers \ {c}
    /\ call' = Replied(c, "ok")
    /\ UNCHANGED <<cmd, cmdq, loop, work, kadDial, pending_dial,
                   pending_start_providing, pending_request_file, inboundVars>>

(* Only the first report of providers is answered.  query.finish() is      *)
(* skipped, by the ? before it, when the caller has given up.  Kademlia    *)
(* reports providers of queries that are still in its pool.                *)
FoundProviders(c) ==
    /\ Polling
    /\ Working(c, "GetProviders")
    /\ c \in pending_get_providers
    /\ pending_get_providers' = pending_get_providers \ {c}
    /\ call' = Replied(c, "ok")
    /\ work' = [work EXCEPT ![c] = IF call[c] = "waiting" THEN "over" ELSE @]
    /\ UNCHANGED <<cmd, cmdq, loop, kadDial, pending_dial,
                   pending_start_providing, pending_request_file, inboundVars>>

(* FinishedWithNoAdditionalRecord and the query's own timeout are ignored: *)
(* the entry of a lookup that found nobody stays in the map.               *)
GetProvidersDone(c) ==
    /\ Polling
    /\ Working(c, "GetProviders")
    /\ work' = [work EXCEPT ![c] = "over"]
    /\ UNCHANGED <<call, cmd, cmdq, loop, kadDial, pendingVars, inboundVars>>

(* Mutant of FileOutcome: the sender is used and not removed. *)
FileOutcomeKept(c) ==
    /\ Polling
    /\ Working(c, "RequestFile")
    /\ \E answer \in {"ok", "err"} : call' = Replied(c, answer)
    /\ work' = [work EXCEPT ![c] = "over"]
    /\ UNCHANGED <<cmd, cmdq, loop, kadDial, pendingVars, inboundVars>>

(* Message::Response and OutboundFailure *)
FileOutcome(c) ==
    /\ Polling
    /\ Working(c, "RequestFile")
    /\ \/ /\ c \in pending_request_file
          /\ pending_request_file' = pending_request_file \ {c}
          /\ \E answer \in {"ok", "err"} : call' = Replied(c, answer)
          /\ work' = [work EXCEPT ![c] = "over"]
          /\ UNCHANGED <<cmd, cmdq, loop, kadDial, pending_dial,
                         pending_start_providing, pending_get_providers,
                         inboundVars>>
       \/ c \notin pending_request_file /\ Die("panic_expect")

(* Kademlia dials the peers its queries reach, with events of the same     *)
(* kinds as those of Command::Dial.                                        *)
KadDial(p) ==
    /\ Polling
    /\ p \notin kadDial
    /\ kadDial' = kadDial \cup {p}
    /\ UNCHANGED <<call, cmd, cmdq, loop, work, pendingVars, inboundVars>>

(* Mutant of DialSettled: a failed attempt leaves the pending dial alone. *)
DialSettledOnSuccess(p, a, answer) ==
    /\ Polling
    /\ \/ a = None /\ p \in kadDial /\ kadDial' = kadDial \ {p} /\ UNCHANGED work
       \/ /\ a # None /\ Working(a, "Dial") /\ cmd[a].peer = p
          /\ work' = [work EXCEPT ![a] = "over"]
          /\ UNCHANGED kadDial
    /\ IF answer = "err" \/ pending_dial[p] = None
       THEN UNCHANGED <<pending_dial, call>>
       ELSE /\ pending_dial' = [pending_dial EXCEPT ![p] = None]
            /\ call' = Replied(pending_dial[p], answer)
    /\ UNCHANGED <<cmd, cmdq, loop, pending_start_providing,
                   pending_get_providers, pending_request_file, inboundVars>>

(* An attempt by the call a, or by Kademlia when a is None, to connect to  *)
(* p ends: whichever attempt it was, it settles the pending dial of p.     *)
DialSettled(p, a, answer) ==
    /\ Polling
    /\ \/ /\ a = None
          /\ p \in kadDial
          /\ kadDial' = kadDial \ {p}
          /\ UNCHANGED work
       \/ /\ a # None
          /\ Working(a, "Dial")
          /\ cmd[a].peer = p
          /\ work' = [work EXCEPT ![a] = "over"]
          /\ UNCHANGED kadDial
    /\ pending_dial' = [pending_dial EXCEPT ![p] = None]
    /\ call' = IF pending_dial[p] = None THEN call
               ELSE Replied(pending_dial[p], answer)
    /\ UNCHANGED <<cmd, cmdq, loop, pending_start_providing,
                   pending_get_providers, pending_request_file, inboundVars>>

ConnectionEstablished(p, a) == DialSettled(p, a, "ok")
OutgoingConnectionError(p, a) == DialSettled(p, a, "err")

(* Mutant of InboundRequest: the loop does not wait for the slot. *)
InboundRequestSpawned(r) ==
    /\ loop = "running"
    /\ inbound[r] = "none"
    /\ \/ /\ Len(eventq) < EvCap
          /\ eventq' = Append(eventq, r)
          /\ inbound' = [inbound EXCEPT ![r] = "event"]
       \/ /\ Len(eventq) >= EvCap
          /\ inbound' = [inbound EXCEPT ![r] = "held"]
          /\ UNCHANGED eventq
    /\ UNCHANGED <<call, cmd, cmdq, loop, work, kadDial, pendingVars, expired>>

InboundRequest(r) ==
    /\ Polling
    /\ inbound[r] = "none"
    /\ \/ /\ Len(eventq) < EvCap
          /\ eventq' = Append(eventq, r)
          /\ inbound' = [inbound EXCEPT ![r] = "event"]
       \/ /\ Len(eventq) >= EvCap
          /\ inbound' = [inbound EXCEPT ![r] = "held"]
          /\ UNCHANGED eventq
    /\ UNCHANGED <<call, cmd, cmdq, loop, work, kadDial, pendingVars, expired>>

(* The slot the loop was waiting for becomes free. *)
EventSent(r) ==
    /\ loop = "running"
    /\ inbound[r] = "held"
    /\ Len(eventq) < EvCap
    /\ eventq' = Append(eventq, r)
    /\ inbound' = [inbound EXCEPT ![r] = "event"]
    /\ UNCHANGED <<call, cmd, cmdq, loop, work, kadDial, pendingVars, expired>>

-----------------------------------------------------------------------------
(* The requesting server's side and the application's side.  No code of    *)
(* the repository polls the event stream (TakeEvent is external); a task   *)
(* that does takes an event and answers it with KadClient::respond_file,   *)
(* which has no timeout.                                                   *)
Expire(r) ==
    /\ loop = "running"
    /\ inbound[r] \in {"held", "event", "serving", "command"}
    /\ r \notin expired
    /\ expired' = expired \cup {r}
    /\ UNCHANGED <<call, cmd, cmdq, eventq, loop, work, kadDial, pendingVars,
                   inbound>>

Serving == {r \in Requests : inbound[r] = "serving"}

TakeEvent ==
    /\ eventq # <<>>
    /\ Cardinality(Serving) < Handlers
    /\ eventq' = Tail(eventq)
    /\ inbound' = [inbound EXCEPT ![Head(eventq)] = "serving"]
    /\ UNCHANGED <<call, cmd, cmdq, loop, work, kadDial, pendingVars, expired>>

(* Mutant of respond_file: try_send(), which drops the answer when there   *)
(* is no slot for it.                                                      *)
respond_fileTries(r) ==
    /\ inbound[r] = "serving"
    /\ \/ /\ loop = "running"
          /\ Len(cmdq) < CmdCap
          /\ cmdq' = Append(cmdq, r)
          /\ inbound' = [inbound EXCEPT ![r] = "command"]
       \/ /\ loop # "running" \/ Len(cmdq) >= CmdCap
          /\ inbound' = [inbound EXCEPT ![r] = "dropped"]
          /\ UNCHANGED cmdq
    /\ UNCHANGED <<call, cmd, eventq, loop, work, kadDial, pendingVars, expired>>

respond_file(r) ==
    /\ inbound[r] = "serving"
    /\ \/ /\ loop = "running"
          /\ Len(cmdq) < CmdCap
          /\ cmdq' = Append(cmdq, r)
          /\ inbound' = [inbound EXCEPT ![r] = "command"]
       \/ /\ loop # "running"
          /\ inbound' = [inbound EXCEPT ![r] = "dropped"]
          /\ UNCHANGED cmdq
    /\ UNCHANGED <<call, cmd, eventq, loop, work, kadDial, pendingVars, expired>>

-----------------------------------------------------------------------------
HandleCommand ==
    \/ \E c \in Calls : \/ StartListening(c)
                        \/ DialVacant(c)
                        \/ DialOccupied(c)
                        \/ StartProviding(c)
                        \/ GetProviders(c)
                        \/ RequestFile(c)
    \/ \E r \in Requests : RespondFile(r)

QueryEnds(c) == ProvidingDone(c) \/ GetProvidersDone(c) \/ FileOutcome(c)

DialEnds(p, a) == ConnectionEstablished(p, a) \/ OutgoingConnectionError(p, a)

Client(c) == Issue(c) \/ Send(c) \/ Timeout(c)

Network ==
    \/ \E p \in Peers : KadDial(p)
    \/ \E r \in Requests : InboundRequest(r) \/ EventSent(r) \/ Expire(r)
    \/ \E c \in Calls : FoundProviders(c) \/ QueryEnds(c)
    \/ \E p \in Peers, a \in Calls \cup {None} : DialEnds(p, a)
    \/ StorePanic

Application == TakeEvent \/ \E r \in Requests : respond_file(r)

Next == (\E c \in Calls : Client(c)) \/ HandleCommand \/ Network \/ Application

Spec == Init /\ [][Next]_vars

(* Fairness.  Timers fire; the loop's select! is polled by the tokio       *)
(* runtime and picks a ready branch at random, so a command or an event    *)
(* that stays ready is taken; queries, requests and dials of libp2p end,   *)
(* with a result or with their own timeout; a mpsc sender that waits for a *)
(* slot gets one.  Nobody has to call, to send a request, to be found, to  *)
(* give up or to panic, and no application task has to take events or to   *)
(* answer them: the code has none.                                         *)
LoopFairness ==
    /\ \A c \in Calls : WF_vars(Send(c)) /\ WF_vars(QueryEnds(c))
    /\ \A p \in Peers, a \in Calls : WF_vars(DialEnds(p, a))
    /\ WF_vars(HandleCommand)
    /\ \A r \in Requests : WF_vars(EventSent(r))

TimerFairness == \A c \in Calls : WF_vars(Timeout(c))

LiveSpec == Spec /\ LoopFairness

TimedSpec == Spec /\ TimerFairness

-----------------------------------------------------------------------------
(* What is in a channel, and that each member of S is in it at most once.  *)
Members(channel) == {channel[i] : i \in DOMAIN channel}

EachOnce(S, channel) ==
    \A i, j \in DOMAIN channel :
        channel[i] = channel[j] /\ channel[i] \in S => i = j

(* Where the loop keeps senders: the channel, and the maps. *)
Queued == Members(cmdq)

Pending ==
    pending_start_providing \cup pending_get_providers
        \cup pending_request_file \cup {pending_dial[p] : p \in Peers}

NoCallQueuedTwice == EachOnce(Calls, cmdq)

(* Each command is in the channel at most once and is executed only after  *)
(* it has left it: one that was never sent, or whose send failed, has no   *)
(* work in the swarm (KadClient methods, kad_client.rs:116-212).           *)
Untouched ==
    /\ NoCallQueuedTwice
    /\ \A c \in Calls :
          /\ call[c] \in {"unused", "sending", "unsent"} =>
                work[c] = "none" /\ c \notin Queued
          /\ c \in Queued => work[c] = "none"
          /\ work[c] # "none" => cmd[c] \in Command

(* The maps agree with the swarm: there is an entry for exactly the        *)
(* publications and file requests under way, for no dial that is over, and *)
(* for every lookup a caller still waits for.  This is what the expect()s  *)
(* of kad_client.rs:289, 352 and 370 take for granted.                     *)
PendingMatchesWork ==
    /\ pending_start_providing = {c \in Calls : Working(c, "StartProviding")}
    /\ pending_request_file = {c \in Calls : Working(c, "RequestFile")}
    /\ \A p \in Peers : pending_dial[p] # None =>
          /\ Working(pending_dial[p], "Dial")
          /\ cmd[pending_dial[p]].peer = p
    /\ \A c \in pending_get_providers :
          work[c] # "none" /\ cmd[c].op = "GetProviders"
    /\ \A c \in Calls : Working(c, "GetProviders") /\ call[c] = "waiting"
                            => c \in pending_get_providers

(* The sender of a waiting caller is in the channel or in one of the maps, *)
(* and every sender held there belongs to a caller that waits or has given *)
(* up: none is lost between two steps and none is kept after its answer    *)
(* (kad_client.rs:273-535).                                                *)
SendersOfWaiters ==
    \A c \in Calls :
        /\ call[c] = "waiting" => c \in Queued \cup Pending
        /\ c \in Queued \cup Pending => call[c] \in {"waiting", "timeout"}

(* No completion reported by the swarm ever meets a missing entry: the     *)
(* task does not die in one of the expect()s, whatever calls time out.     *)
ExpectsNeverFail == loop # "panic_expect"

(* A lookup goes on after its first answer only when its caller gave up    *)
(* before that answer, the case in which finish() is skipped               *)
(* (kad_client.rs:305-315).                                                *)
OnlyAbandonedLookupsRunOn ==
    \A c \in Calls :
        Working(c, "GetProviders") =>
            c \in pending_get_providers \/ call[c] = "timeout"

(* A waiting caller loses its sender without an answer only when the store *)
(* refuses its publication (kad_client.rs:504-506) or the task dies: one   *)
(* caller's command never takes away another caller's answer.              *)
NoAnswerLost ==
    [][\A c \in Calls :
          call[c] = "waiting" /\ call'[c] = "dropped" =>
              loop' # "running" \/ cmd[c].op = "StartProviding"]_vars

(* The response channel of a request of another server is moved and never  *)
(* copied: the event channel and the command channel hold exactly the      *)
(* requests that are there, each once, and the loop holds at most one, as  *)
(* it handles no other event while it waits for a slot.  No order of       *)
(* requests, answers and panics leaves a request in two places or in none  *)
(* (kad_client.rs:213-223, 334-344, 520-528).                              *)
RequestsInOnePlace ==
    /\ EachOnce(Requests, eventq)
    /\ EachOnce(Requests, cmdq)
    /\ Members(eventq) = {r \in Requests : inbound[r] = "event"}
    /\ Queued \cap Requests = {r \in Requests : inbound[r] = "command"}
    /\ \A r, s \in Requests : inbound[r] = "held" /\ inbound[s] = "held" => r = s
    /\ Blocked => loop = "running"

(* The loop waits for a slot of the event channel, every application task  *)
(* is busy, and those that are wait for a slot of the command channel,     *)
(* which only the loop empties.                                            *)
Wedged ==
    /\ Blocked
    /\ Len(eventq) >= EvCap
    /\ Cardinality(Serving) >= Handlers
    /\ Serving # {} => Len(cmdq) >= CmdCap

(* A wedged loop stays wedged: neither timeouts, requesters that give up,  *)
(* panics nor answers end it (kad_client.rs:213-223, 334-344).             *)
WedgedForEver == [][Wedged => Wedged']_vars

(* The loop, its channels and maps implement the contract of P2pCalls:     *)
(* every command is executed at most once, answers are earned, and a call  *)
(* that has returned stays as it is even if its command runs later.        *)
Contract == INSTANCE P2pCalls WITH
    outcome  <- [c \in Calls |-> CASE call[c] = "unused" -> "idle"
                                    [] call[c] \in Open  -> "open"
                                    [] OTHER             -> call[c]],
    executed <- {c \in Calls : work[c] # "none"}

ImplementsCalls == Contract!Spec

(* The timers alone make every call return, even when the loop is stuck or *)
(* dead (tokio::time::timeout in each method, kad_client.rs:116-212).      *)
EveryCallReturns ==
    \A c \in Calls : call[c] = "sending" ~> call[c] \in Returned

(* A call is out of the loop's hands in the end, without the help of its   *)
(* timer: it has come back, and neither the channel nor a map keeps its    *)
(* sender, which is freed even when the caller gave up before the answer.  *)
(* This holds whatever the order of commands, events, time-outs and        *)
(* foreign dials, except when a lookup has ended and found nobody, which   *)
(* kad_client.rs:318-326 tells no one, or when the loop gets stuck in      *)
(* sending an event (341).  Of the program's tasks it is assumed that the  *)
(* loop's is polled and that a caller takes the slot it waits for, of      *)
(* libp2p that its work ends; nobody is assumed to take events.            *)
SettledWithoutTimer ==
    \A c \in Calls :
        call[c] = "sending" ~>
            \/ call[c] \in Returned /\ c \notin Queued \cup Pending
            \/ c \in pending_get_providers /\ work[c] = "over"
            \/ Blocked

(* A loop that waits for room in the event channel goes on eventually.     *)
BlockedLoopResumes == Blocked ~> ~Blocked
=============================================================================
