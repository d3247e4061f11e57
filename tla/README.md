# Verification of the wit server

TLA+ models, model-checking runs and machine-checked proofs for wit, a wiki
server that keeps its pages in a git repository and talks to other wiki servers
through libp2p (Kademlia for finding a page, request/response for fetching it).
Paths below are relative to `src/wit-server/src/` of the repository unless they
start with `src/` or `docs/`.

`tlc -config <run>.cfg MC<module>.tla` repeats a run, `tlapm <module>Proofs.tla`
a proof. `PROJECT.json` lists runs, mutants, hazards and theorems, and the source
lines that each definition translates.

## 1. The system

| component | state | operations | interacts with |
|---|---|---|---|
| Kademlia client, `server/p2p/kad_client.rs` (`KadClient`) | a sender of the command channel, the shared list of peer addresses | `start_listening`, `dial`, `start_providing`, `get_providers`, `request_file`, `respond_file`, `peers`, `add_peer` | the event loop, through a bounded channel of commands and one oneshot channel per command |
| P2P event loop, same file (`P2pEventLoop`) | the swarm, four maps of pending oneshot senders, the receiver of commands, the sender of events | `handle_command` (six commands), `handle_event` (completions, dials, requests of other servers) | client, swarm, application (bounded channel of events) |
| Network set-up, `server/p2p/mod.rs`, `server/mod.rs` | none of its own | `new_s2s_network`, `run`, `execute_async_context` | spawns the loop as a detached task, serves HTTP |
| Record store, `server/p2p/kad_store.rs` (`RedbStorage`) | two tables of a redb database | `get`, `put`, `remove`, `records`, `add_provider`, `providers`, `provided`, `remove_provider` | called by Kademlia inside the loop's task |
| Entry codecs, `server/p2p/tables.rs` | none | `EntryKey`, `KadProviderEntryValue` | store |
| Page requests, `server/get.rs`, `git_storage`, `server/render`, `file` | the repository behind a tokio mutex | `get` | repository, client |
| Git transport, `server/git_proxy.rs` | none of its own | CGI proxy to `git-http-backend` | the programs behind it, which move HEAD without the mutex |
| Links and Markdown, `server/link`, `server/render/markdown.rs` | `CURRENT_HOST`, the renderer (both set once) | `WitLink::from_url`, `to_http`, `to_wit` | page requests |
| Connected peers, `server/connected_peers.rs` | the client's list of peers | `get`, `add_new` | client |
| Configuration, `config.rs`; command line, `main.rs`, `init.rs` | `WitConfig.toml`, the repository, the single-instance lock | `init`, run, `connect`, (`disconnect` is unimplemented) | file system |
| Client library, `src/wit-client/src/lib.rs` | a submodule of the user's repository | `init_submodule`, `add_files`, `commit`, `push` | git transport |

### What is hard about it

* **Interleaving.** Callers, the loop, the swarm and the handlers run in separate
  tasks. A command is executed some time after its caller sent it and possibly
  after its caller has gone; Kademlia dials the peers that the application dials;
  pushes move HEAD while pages are read.
* **Waiting.** Two bounded channels run in opposite directions between the loop
  and the application, and the loop waits for one of them *inside* an event
  handler. A mutex is held across a network lookup.
* **Time-outs.** Five client methods have one timer around the send and the
  answer. It drops the caller's future, not the command.
* **Failure.** A panic ends the loop's task alone: its channels close, the HTTP
  server lives on. redb transactions are atomic and undone when dropped. The
  configuration is truncated and then written; `init` can stop between any two of
  its steps.
* **Several processes.** `init`, the server and `connect` work on one directory at the
  same time, and two editors push to one branch. What keeps them apart is a lock on
  a path, a lock on a file, `create_new`, and a compare-and-swap in
  `git-receive-pack`.
* **Boundaries.** 16-bit and 8-bit lengths in hand-written encodings.

### What makes each component correct

* client: a call returns once, always, and an answer only ever comes from an
  execution of its command;
* loop: each waiting caller's sender is in exactly the place where the event that
  completes it will look for it; nobody's command takes another's answer; the
  task does not die; it never waits for ever;
* store: what `put` accepted is there afterwards; stored bytes decode;
* keys: encoding is injective and has an inverse up to a known limit;
* page requests: the answer is one commit's content, a commit that was HEAD
  during the request; every request is answered; pages of other servers are found;
* links: a link of a page leads to the page it names, or visibly nowhere;
* lifecycle: one server per directory, one identity, no registered peer is lost, and
  a directory can always be initialised or used;
* wiki repository: an accepted commit stays, the history only grows, and nobody's
  change is undone in silence.

## 2. Modules

```
P2pCalls        what KadClient promises                 (abstract)
  ^ implemented by                 ^ used by
P2pEventLoop    client, channels,  PageServer   GET handlers, mutex,
                loop, maps, swarm    |    |     repository, pushes
                                     |    v implements
                                     |  AtomicReads   what a reader is promised  (abstract)
                                     v EXTENDS
                                   WitLink      wit links, routes
KadStore        redb tables        EntryKey     key codec
Lifecycle       init, run, connect on one directory
WikiRepo        editors, clones and pushes
```

`MC*.tla` give the constants values for TLC; `*Proofs.tla` hold the theorems.
An operator whose comment starts with "Mutant of X" is the definition X with a
plausible mistake. No specification uses it; putting it in place of X makes the
property named in `PROJECT.json` fail, which shows that the property depends on X.

### P2pCalls

One variable for what each caller has seen (`outcome`) and one for the commands
that were executed. A call is issued, executed at most once, perhaps after its
time-out, and returns once. `Disconnect` is the end of the loop's task.

### P2pEventLoop

The core. A *call* is one invocation of a client method; its command and the query
or request that comes of it carry the same name, which stands for the `QueryId` and
`OutboundRequestId` keys of the maps.

| variable | code |
|---|---|
| `call` | where the caller's future is: `sending` awaits a slot of the channel, `waiting` the oneshot receiver; then what it returned |
| `cmdq`, `eventq` | the two `mpsc` channels |
| `loop` | the task of `P2pEventLoop::run`, with the panic that ended it |
| `pending_*` | the four maps |
| `work`, `kadDial` | libp2p: queries, file requests and dials under way, and dials that Kademlia makes |
| `inbound`, `expired` | a request of another server: in the swarm, held by a blocked loop, in the event channel, being served, in the command channel, answered |

There is one action per command, per event that changes state, per step of a
client method, and per step of an application task. `handle_event` blocking on
the event channel is the predicate `Blocked`; while it holds, no action of the loop
but `EventSent` is enabled. A panic (`Die`) drops the channel with its queued
commands, the maps with their senders and the swarm, so that all waiting callers
see a dropped sender. `StorePanic` stands for the panics of the store inside the
task (section *KadStore*).

`Handlers` is the number of application tasks that poll the event stream. The code
has none (`server/mod.rs:61` binds the stream and never polls it), so `Handlers = 0`
is the server as deployed; a positive value models the use `respond_file` and
the channel were written for. Its step `TakeEvent` is external, and no liveness property
depends on it.

What is abstracted: file contents, keys and addresses; swarm events that only
produce a log line; whether an outcome reported to the caller is the right one for
its key (the ids of libp2p are taken to be unique).

The proofs of the loop are in two modules: `P2pEventLoopProofs` for the calls and
`P2pRequestsProofs`, on top of it, for the requests of other servers.

### AtomicReads

What a reader is promised, without repository, commits, mutex and lookups: the wiki
shows each reader something at each moment (`wiki`), others change it (`Change`), and a
request is answered with what one `Look` at the whole of it showed, between its arrival and
its answer. `PageServer` implements it (`ReadsAreAtomic`): the look is the resolution of
HEAD, and rendering, lookup, queueing and cancellation are invisible but for the answer
or its absence.

### PageServer

Handlers of concurrent requests queue for the mutex (tokio's is fair), resolve
HEAD, read, render or look up, and finish. There is one action per stretch between
two awaits or between two reads of the repository. `log` is the sequence of
commits HEAD has pointed to, so `rev[g]` names the one a handler resolved (0: no
commit yet). Pushes append to it without the mutex; how a push is prepared and when
it is refused is the subject of `WikiRepo`. Contents are classes that the
handler tells apart: text with at most one link, absent, directory, binary
(`todo!()`), not UTF-8. Links of Markdown files go through `WitLink`. The client is
used through `P2pCalls`, composed with `INSTANCE`: `AskProviders` issues the call,
`LookupReturns` returns it, `Loop` executes it or dies. A browser that goes away
cancels a handler at one of its awaits.

### WitLink

`from_url`, `to_http` and the routes of the HTTP server as operators on URLs, which
are records as the url crate produces them (after an authority, the path is empty or
starts with a slash). The slash with which the path of `wit://host/page` starts is
kept and `to_http` adds another: such links are dead, whatever host and version they
name, because `/:file_path` takes one segment that is not empty. Only
`wit:page` leads somewhere. `LinksNeverMislead` (in `PageServer`, for whole
requests) shows that this is also what saves `to_http`, which drops host and version:
its mutant, without the second slash, opens the local current page for a link to
another server. `to_wit`, `to_string` and the scanner of autolinks have no callers.

### KadStore

Each operation is one step, since Kademlia calls them from one task. `tables`,
`records` and `provided` are the committed database; `promised` remembers what
`put` said. No operation of the code commits its transaction, so no operation
changes the database. The iterators and the decoder of addresses panic as in the
code, `put` panics on a value that is not text.

### EntryKey

The codec as operators, and a state machine that enumerates paths and versions byte
by byte. `IndexSize` is 2^16 in the code and 6 in the run.

### Lifecycle

Processes run `init`, the server or `connect`, one after another, each a sequence of
steps (`pc`), on one directory that has several names. `Stop` ends a process before any step, for
whatever reason; a write that fails or is interrupted leaves a prefix of the text.

| variable | code |
|---|---|
| `repo` | the repository: none, without a branch, with the first commit |
| `file` | `WitConfig.toml`: absent, empty, garbled, or whole with its identity and peers |
| `instance`, `store` | the names locked by `single_instance`; the lock of the redb file |
| `config` | the configuration a process has read or made (for a server: its keys and the client's list of peers) |
| `issued`, `served`, `registered`, `mishaps` | what has happened, for the properties only |

`config.rs:26-31` is two steps, `Truncate` and `Update`; a connect whose file was
removed in between writes into a file that has no name (`UpdateDetached`). `AddNew`
is the POST route of connected peers: it refuses a request that is not signed with the
keys of the server (`Validate`; an identity stands for its key pair), and changes nothing
for one that is, because its futures are dropped. For the same reason the request that
`connect` signs is never sent and is no action. Neither a running server nor the file
ever learns of a peer through this route.

`mishaps` names the three events after which peers or identities do get lost:
`create_failed` and `update_failed`, a write error, and `overlap`, two connects at
work at the same time. The properties say that nothing else loses them, and that nothing
else makes a file of mixed or partial text.

### WikiRepo

Editors use the client library on a clone each: clone, give the submodule its name,
stage, commit, push. Commits are numbers and carry their parent, their ancestors,
their tree and what their author staged. A push is three steps: `Connect` learns
where the branch is, `Send` checks for a fast-forward, `Accept` or `Refuse` is the
server's compare-and-swap. `reported` is what `push()` told its caller. The history
of `main` is the `log` of `PageServer`.

## 3. Runs

| run | instance | shows |
|---|---|---|
| `LoopSafety` | 3 calls, 1 request, 2 peers, channels of 2 and 1, 1 task | the inductive invariant, part by part: `TypeOK`, `Untouched`, `PendingMatchesWork`, `SendersOfWaiters`, `ExpectsNeverFail`, `OnlyAbandonedLookupsRunOn`; the loop implements `P2pCalls` (`ImplementsCalls`); `NoAnswerLost` |
| `LoopAnswers` | as deployed: no task; 2 calls, 2 requests, 2 peers, channels of 1 | `SettledWithoutTimer`: until the loop is stuck in sending an event, every call comes back without its timer and no sender of a caller that gave up is kept, a lookup that found nobody excepted |
| `LoopRequests` | 1 call, 3 requests, 1 peer, channels of 1, 1 task | `RequestsInOnePlace`; a wedged loop stays wedged (`WedgedForEver`); `EveryCallReturns` with fair timers and nothing else fair, so also in a wedged or dead loop |
| `LoopWedged` | as deployed: no task; 2 calls, 2 requests, 1 peer, channels of 1 | `BlockedLoopResumes` **fails** |
| `PageServer` | 2 requests, 1 page, a repository without a commit or with one, up to 2 commits | `ReadsAreAtomic` (`PageServer` implements `AtomicReads`), `ReadsAreLinearizable`, `OneLookupAtATime`, `LinksNeverMislead`, `EveryGetIsAnswered`, `TypeOK` |
| `PageServerElsewhere` | same, 1 commit | `FoundElsewhereIsServed` **fails** |
| `KadStore` | 3 keys, 2 hosts, 1 peer | `DecodeIsNeverReached` |
| `KadStoreDurability` | same | `PutIsReadBack` **fails** |
| `Lifecycle` | 2 processes, 2 names, 2 identities, 2 addresses | `OneServer`, `IdentityIsStable`, `NoOrphanedWiki`, `RegisteredPeersStay`, `GarbledOnlyByMishap`, `BrokenForGood`, `TypeOK` |
| `LifecycleStuck` | same | `NeverStuck` **fails** |
| `WikiRepo` | 2 editors, 1 file, 2 contents, 4 commits | `AcceptedIsKept`, `NoSilentRevert`, `HistoryGrows`, `OvertakenForGood`, `TypeOK` |
| `EntryKey` | up to 6 + 6 bytes over 2 letters, index of 6 numbers | `FaithfulUpToLimit`, `KeysAreDistinct` |

**Bounds.** Channels of one or two slots stand for 64: what matters is that they
are full, empty or in between, and two or three calls or requests fill them. Three
calls and two peers let a second call to the same peer, a call to another peer and
a query interleave. Three requests, one call and one task are the least with which a loop
that has a task can be wedged: one request in the event channel, one held by the loop, and
one whose answer waits for the slot that the call's command has taken. So the contract is
checked with three calls that compete, and the timers with a loop that is stuck.
Two page requests are enough for one to hold the mutex while
the other waits; two commits, or none and one, let HEAD move while a handler waits and
after it has resolved HEAD.
In `EntryKey` six letters exceed an index that holds six numbers by a whole
round, so both sides of the limit and the wrap-around occur. In `PageServer` the
links are one of each kind that matters: to the page itself, to another server, to
a version, and an http link.
In `Lifecycle` two processes race for each file and lock, two names get past the
check of the instance, and two identities let a second `init` succeed where
it should not; `Ids` bounds how often a configuration is created. In `WikiRepo`
the first commit and three more let both editors commit on the same parent, one of them
push, and the other go on or try again. Each bound is a
constant of its module; `MaxCommits`, `MaxLen` and `Ids` appear in guards.

**Deadlock** is not checked where the system may stop: all calls are made at most
once, and a server to which nobody sends anything has nothing to do. `KadStore` can
always go on and is checked for deadlock, and so is `Lifecycle`, where a command can
always be started. An editor may stop for good in `WikiRepo`.

**Symmetry** is used where no liveness is checked: in the safety run of the loop, in
`Lifecycle` (processes, names, identities, addresses) and in `WikiRepo` (editors).

### Fairness

* `TimerFairness`: `tokio::time::timeout` fires.
* `LoopFairness`: the loop's `select!` picks a ready branch at random, so a command
  or a completion that stays ready is taken; libp2p ends queries, requests and
  dials, with a result or its own time-out; a sender that waits for a slot of an
  `mpsc` channel gets one. It says nothing of application tasks: the program has none
  that takes events (`server/mod.rs:61`) or calls `respond_file`, and the two runs that
  use it have `Handlers = 0`.
* `Fairness` of `PageServer`: a handler that can go on is polled, and a call of the
  client returns, which is `EveryCallReturns` of the loop.

Nobody is obliged to call, to send a request, to be found, to cancel, to push or to
panic. `EveryCallReturns` deliberately assumes nothing of the loop.

### What the failing runs show

1. `LoopWedged`. Nobody polls the event stream. Once the event channel is full, the
   loop waits for a slot for ever and serves no further command; callers are saved by
   their timers only. An application that polls the stream with a fixed number of tasks
   would not be safe either: `LoopRequests` reaches wedged states with one task.
2. `PageServerElsewhere`. The providers that a lookup finds are thrown away.
3. `KadStoreDurability`. `put` and `add_provider` drop their transaction without
   `commit()`. Committing them alone would not do: the mutant of
   `DecodeIsNeverReached` shows that `KadProviderEntryValue::addresses` then ends the
   loop's task at the first lookup of a stored provider with an address.

4. `LifecycleStuck`. A process killed between the truncation of the configuration and
   the end of its write, or an `init` between creating and writing it, leaves a file that
   the server and `connect` cannot read and `init` does not replace; `--force`,
   which the command line offers for this, is `unimplemented!()`. The loss is for good:
   `BrokenForGood` says that no command, in whatever number of processes, makes such a file
   readable again.

For an application that does take events: loop and application can wait for each other,
because `respond_file` waits for the command channel without a timer. They cannot as long
as the event channel and the tasks together have room for all requests (`FewDoNotWedge`).

A second dial of a peer whose first is pending ends the task of the loop
(`unimplemented!`, action `DialOccupied`). No code calls `dial` yet; the other
properties are checked with this death among the behaviours.

## 4. Proofs

Checked by TLAPS for every value of the constants, under the assumptions that the
modules name: capacities are positive (`CapAssumption`), `Handlers` is a natural
number (`HandlersAssumption`), calls and requests are different things and `None` is
none of them (`NamesAssumption`, `NoneAssumption`), and the header is smaller than
the range of the index (`IndexAssumption`), Markdown files are pages and links are URLs
(`PagesAssumption`, `LinksAssumption`), a missing file has a content of its own
(`ContentsAssumption`), and the bounds on commits are positive (`CommitsAssumption`). No
assumption bounds a set.

* `P2pEventLoopProofs`: `TypeCorrect`, `Invariance`, and from it `PendingMatches`,
  `ExpectsSafe`, `SendersHeld` and `LookupsStop`. None of these invariants is
  inductive alone. That no `expect()` fails needs an entry for each query under way
  (`PendingMatchesWork`); that entries stay unique when a command is handled needs
  that its call has no work and no entry yet, hence that a command is in the channel
  at most once and not after it was taken up (`Untouched`); that an answer goes to a
  caller who waits needs `SendersOfWaiters`. `LoopInv` is their conjunction. The
  proof has a lemma for each group of actions (`ClientInv`, `CommandInv`, `QueryInv`,
  `DialInv`, `RequestInv`, `DieInv`, `FrameInv`). Reasoning about sequences is
  confined to `TailMembers` and `AppendMembers`, which say what taking from and adding to
  a channel does to the *set* of its members; `TakeQueued`, `TakeRequest` and `AppendQueued`
  are their instances for the command channel.

  `Refinement` is the step simulation behind `ImplementsCalls`. It rests on `LoopInv`: a
  command that is taken up was not executed before, and its caller waits or has given up
  (`TakenUp`); an entry of a map belongs to a command that was executed, so its answer is
  earned (`AnswerStep`); when the task dies, the callers that do not get a slot any more are
  the ones whose commands were never executed (`DisconnectStep`). `AnswersKept` is the action
  property `NoAnswerLost`. With the refinement, what is proved of the contract holds of the
  loop: `LoopAnswersEarned` and `LoopReturnsOnce` instantiate the theorems of
  `P2pCallsProofs` with the loop's mapping.
* `P2pRequestsProofs`: the requests of other servers. `PlacesInv` says that each channel
  holds exactly the requests whose place it is, each once, that the loop holds at most one,
  while it is blocked, and that no more tasks are busy than there are. The parts are not
  inductive one by one: that a request taken from one channel is in no other needs the
  membership of both, and that the loop holds one needs that it handles no event while it is
  blocked. From it `OnePlace`. `WedgeTakesMany` counts: a wedged loop has a
  full event channel, one request in hand, and all its tasks busy, so more requests are in
  progress than `EvCap + Handlers`: as deployed, with a channel of 64 and no task, it takes
  the 65th. `FewDoNotWedge` turns this round: at most that many requests never wedge the
  loop, whatever calls are made. `WedgeIsPermanent` is `WedgedForEver`.
* `P2pCallsProofs`: what the contract means for a caller. `AnswersEarned`, strengthened by "a call that was not made was
  not executed", and `CallsReturnOnce`.
* `KadStoreProofs`: `DecodeUnreachable`, from the invariant that no table is ever
  committed. `StoreStaysEmpty` says how far `PutIsReadBack` fails: for all sequences of
  operations the store behaves like an empty one. `IterationsPanic` follows: each replication
  round of Kademlia ends the task of the loop, which is `StorePanic` of `P2pEventLoop`.
* `EntryKeyProofs`: `RoundTrip` (the limit of the path is exact, for every index
  size), `DistinctKeys`, and the properties of the run for inputs of any length.

* `PageServerProofs`: `LookupsOneAtATime` needs `MutexInv`: a handler that has resolved HEAD
  or asks holds the mutex, and a lookup is only open while its handler asks.
  `Linearizable` needs `ReadInv`: the commit that was resolved lies between the one at
  the arrival and the last. `Atomic` is the refinement of `AtomicReads`; besides `ReadInv`,
  it needs that a push changes no commit that exists (`PushKeepsContent`), so that what the
  look showed is still what the answer says. `ContractIsKept` says that the handlers,
  cancelled ones included, stay within the contract of the client, which is what lets
  `P2pEventLoop` take the place of `P2pCalls`. `LinksAreHonest` rests on a lemma about `WitLink` for all
  URLs: a translated link that is routed has a path of one segment.
* `LifecycleProofs`: five inductive invariants. `KnownInv` (identities that are stored or
  in use were issued) is proved with the types; `StoreInv` (a server holds the database)
  gives `ServersAlone`; `OwnInv` (the file an `init` created stays until that `init` is done,
  so there is one such `init` and no branch yet) gives `WikisAreWhole`; `OnceInv` (without
  a failed creation only one identity was issued) gives `OneIdentity`; `PeersInv` (without mishaps at most one connect is between
  reading and writing, what it holds includes every registered peer, and it writes into an
  empty file) gives `PeersStay` and `TextsStayApart`. `BrokenStays` needs the types only: no command gets from a file that
  cannot be read to a step that writes it.
* `WikiRepoProofs`: `HistoryInv` says that histories are closed under ancestors, that what
  a push was told is still part of the wiki and what it sends continues it, and that two
  editors have in common only what the server has. From it `PushesAreKept`, `WikiMovesForward` and `OvertakenStay` follow.
  `NothingReverted` needs that an index differs from the tree of its branch in staged files
  only.

Only model-checked: all liveness properties and everything about fairness (out of the
prover's reach).

## 5. What is assumed of other programs

Definitions marked external in `PROJECT.json`, and some guards, stand for code outside
the repository:

* libp2p: ids of queries and requests are unique; queries, requests and dials end;
  requests of other servers time out;
* redb: a dropped transaction is undone; a database file is open in one process only;
* `single_instance` locks the string it is given;
* libgit2: `commit` with `HEAD` fails unless the first parent is the tip; `push` refuses
  what is no fast-forward of the branch it saw, and does not report a refusal of the
  server except through the callback;
* `git-receive-pack`, which runs behind `git_proxy.rs` and `git-http-backend`: moves a
  branch in one step, and only if it is still where the client saw it (`Accept` of
  `WikiRepo`, `Push` of `PageServer`, `Change` of `AtomicReads`);
* an application that takes events from the stream (`TakeEvent`), which the repository
  does not have;
* the url crate and axum as described under *WitLink*;
* the kernel: `create_new` and truncation are atomic, a killed process loses its locks.

## 6. Not modelled

* `file/remote.rs` is a data type, `version` types without use, `wit-cli` is empty;
* the bytes of provider entries with their 8-bit lengths (`tables.rs:113-164`): the
  decoder panics before it is past the first address, so nothing reads them back; the
  models keep whether there is an address;
* the outcome of a publication (`kad_client.rs:282`), which only a log line shows;
* the index of the editor's outer repository and the text of `.gitmodules`;
* `git_proxy.rs`, which passes bytes to `git-http-backend` and back;
* logging, the CGI conversation with `git-http-backend`, and the internals of libp2p,
  redb and libgit2.

What could be added: `WikiRepo` and `PageServer` composed into one specification (an editor
reads what it has pushed), and the provider codec once it is mended.
