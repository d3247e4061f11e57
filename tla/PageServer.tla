----------------------------- MODULE PageServer -----------------------------
(***************************************************************************)
(* GET /:file_path (src/wit-server/src/server/get.rs): the handlers of     *)
(* concurrent requests share one git2::Repository behind a tokio Mutex and *)
(* the KadClient of the server.  git-http-backend moves HEAD of the same   *)
(* repository, on behalf of pushes, without that mutex.                    *)
(*                                                                         *)
(* The client is used through its contract, P2pCalls: a request whose page *)
(* is missing makes the one get_providers call that is named after it.     *)
(***************************************************************************)
EXTENDS WitLink, SequencesExt

CONSTANTS
    Gets,           \* GET requests, each made once
    Pages,          \* file paths
    Markdown,       \* those that end in .md
    Links,          \* URLs that links in files have
    NoLink,         \* the URL in a file without a link
    MaxCommits      \* bound on the number of commits HEAD has pointed to

ASSUME PagesAssumption == Markdown \subseteq Pages
ASSUME LinksAssumption == Links \subseteq Urls /\ NoLink \notin Urls
ASSUME CommitsAssumption == MaxCommits \in Nat \ {0}

VARIABLES
    log,            \* the trees of the commits HEAD has pointed to, in order
    mutex,          \* requests at the mutex, its holder first
    get,            \* control state of each handler
    page,           \* the requested path
    rev,            \* the commit the handler resolved HEAD to, 0 if none
    since,          \* the same for HEAD when the request came in
    response,       \* what the client received
    providers,      \* the result of get_providers, which nothing reads
    outcome,        \* the contract of the client, one call per request
    executed

callVars == <<outcome, executed>>
handlerVars == <<get, page, rev, since, response, providers>>
vars == <<log, mutex, handlerVars, callVars>>

KadClient == INSTANCE P2pCalls WITH Calls <- Gets

-----------------------------------------------------------------------------
(* A file with text, and with at most one link. *)
Texts == [kind : {"text"}, url : Links \cup {NoLink}]

(* What else a path can name in a tree. *)
Special == [kind : {"absent", "directory", "binary", "not_utf8"}, url : {NoLink}]

Trees == [Pages -> Texts \cup Special]

Nothing == [kind |-> "absent", url |-> NoLink]

(* Texts with the links as they are sent. *)
Bodies == [kind : {"text"}, url : Links \cup {NoLink} \cup {Translated(l) : l \in Links}]

Response == [status : {"none", "200", "404", "500", "reset", "cancelled"},
             body : Bodies \cup {Nothing}]

Bare(status) == [status |-> status, body |-> Nothing]

Done(g) == response[g].status # "none"

TypeOK ==
    /\ log \in Seq(Trees)
    /\ Len(log) <= MaxCommits
    /\ mutex \in Seq(Gets)
    /\ get \in [Gets -> {"new", "queued", "resolved", "asking", "done"}]
    /\ page \in [Gets -> Pages]
    /\ rev \in [Gets -> 0..Len(log)]
    /\ since \in [Gets -> 0..Len(log)]
    /\ response \in [Gets -> Response]
    /\ providers \in [Gets -> {"unknown", "nobody", "somebody"}]
    /\ KadClient!TypeOK

Init ==
    /\ log \in {<<>>} \cup {<<tree>> : tree \in Trees}
    /\ mutex = <<>>
    /\ get = [g \in Gets |-> "new"]
    /\ page \in [Gets -> Pages]
    /\ rev = [g \in Gets |-> 0]
    /\ since = [g \in Gets |-> 0]
    /\ response = [g \in Gets |-> Bare("none")]
    /\ providers = [g \in Gets |-> "unknown"]
    /\ KadClient!Init

-----------------------------------------------------------------------------
(* Mutant of Render: every file is sent as it is. *)
RenderAnything(p, content) == [status |-> "200", body |-> content]

(* The links of a Markdown file are translated, those of HTML are not. *)
Linked(p, content) ==
    IF p \in Markdown /\ content.url # NoLink
    THEN [kind |-> "text", url |-> Translated(content.url)]
    ELSE content

(* A link for which the renderer has a todo!(). *)
Panics(p, content) ==
    p \in Markdown /\ content.url # NoLink /\ LinkPanics(content.url)

(* render(file, address): the kind of the file decides; a todo!() resets   *)
(* the connection, since axum does not catch panics of a handler.          *)
Render(p, content) ==
    CASE content.kind = "binary" -> Bare("reset")
      [] content.kind = "not_utf8" -> Bare("500")
      [] Panics(p, content) -> Bare("reset")
      [] OTHER -> [status |-> "200", body |-> Linked(p, content)]

(* HEAD of a repository without a commit, which an init that failed late   *)
(* leaves behind, resolves to nothing.                                     *)
ContentAt(p, i) == IF i = 0 THEN Nothing ELSE log[i][p]

(* The lookup of "rev:path" in the object database finds a blob. *)
Found(content) == content.kind \notin {"absent", "directory"}

Holds(g) == mutex # <<>> /\ Head(mutex) = g

(* The guard is dropped with the handler's future, however it ends; the    *)
(* mutex of tokio is not poisoned and is handed to the next in line.       *)
Finish(g, resp) ==
    /\ get' = [get EXCEPT ![g] = "done"]
    /\ response' = [response EXCEPT ![g] = resp]
    /\ \E i \in DOMAIN mutex : mutex[i] = g /\ mutex' = RemoveAt(mutex, i)

Arrive(g) ==
    /\ get[g] = "new"
    /\ get' = [get EXCEPT ![g] = "queued"]
    /\ mutex' = Append(mutex, g)
    /\ since' = [since EXCEPT ![g] = Len(log)]
    /\ UNCHANGED <<log, page, rev, response, providers, callVars>>

(* Mutant of ResolveHead: the commit is resolved once, when the server     *)
(* opens the repository.                                                   *)
ResolveHeadOnce(g) ==
    /\ get[g] = "queued"
    /\ Holds(g)
    /\ get' = [get EXCEPT ![g] = "resolved"]
    /\ rev' = [rev EXCEPT ![g] = IF log = <<>> THEN 0 ELSE 1]
    /\ UNCHANGED <<log, mutex, page, since, response, providers, callVars>>

(* repo.head()..peel_to_commit(): the id of the commit is kept, so a later *)
(* push does not change what is read.                                      *)
ResolveHead(g) ==
    /\ get[g] = "queued"
    /\ Holds(g)
    /\ get' = [get EXCEPT ![g] = "resolved"]
    /\ rev' = [rev EXCEPT ![g] = Len(log)]
    /\ UNCHANGED <<log, mutex, page, since, response, providers, callVars>>

(* Mutant of ServePage: the file is read at HEAD once it is known to exist *)
(* in the commit that was resolved.                                        *)
ServePageAnew(g) ==
    /\ get[g] = "resolved"
    /\ Found(ContentAt(page[g], rev[g]))
    /\ Finish(g, Render(page[g], ContentAt(page[g], Len(log))))
    /\ UNCHANGED <<log, page, rev, since, providers, callVars>>

ServePage(g) ==
    /\ get[g] = "resolved"
    /\ Found(ContentAt(page[g], rev[g]))
    /\ Finish(g, Render(page[g], ContentAt(page[g], rev[g])))
    /\ UNCHANGED <<log, page, rev, since, providers, callVars>>

(* Mutant of AskProviders: the guard is dropped before the lookup. *)
AskProvidersUnlocked(g) ==
    /\ get[g] = "resolved"
    /\ ~Found(ContentAt(page[g], rev[g]))
    /\ get' = [get EXCEPT ![g] = "asking"]
    /\ mutex' = Tail(mutex)
    /\ KadClient!Issue(g)
    /\ UNCHANGED <<log, page, rev, since, response, providers>>

(* Any error of the local read, an unresolved HEAD included, starts a      *)
(* lookup, with the mutex held.                                            *)
AskProviders(g) ==
    /\ get[g] = "resolved"
    /\ ~Found(ContentAt(page[g], rev[g]))
    /\ get' = [get EXCEPT ![g] = "asking"]
    /\ KadClient!Issue(g)
    /\ UNCHANGED <<log, mutex, page, rev, since, response, providers>>

(* Mutant of LookupReturns: get_providers without its timeout comes back   *)
(* with an answer, or with the end of the loop.                            *)
LookupReturnsUntimed(g) ==
    /\ \E o \in {"ok", "err"} : KadClient!Return(g, o)
    /\ UNCHANGED <<log, mutex, handlerVars>>

(* The call of get_providers comes back in some way; that it does is what  *)
(* P2pEventLoop!EveryCallReturns says of every call.                       *)
LookupReturns(g) ==
    /\ \E o \in KadClient!Returned : KadClient!Return(g, o)
    /\ UNCHANGED <<log, mutex, handlerVars>>

(* Whatever came back, a set of peers or an error: 404. *)
ServeMiss(g) ==
    /\ get[g] = "asking"
    /\ outcome[g] \in KadClient!Returned
    /\ \E found \in {"nobody", "somebody"} :
          providers' = [providers EXCEPT ![g] =
                            IF outcome[g] = "ok" THEN found ELSE @]
    /\ Finish(g, Bare("404"))
    /\ UNCHANGED <<log, page, rev, since, callVars>>

(* The browser goes away: the future is dropped at one of its awaits, the  *)
(* lock or the lookup.  A dropped call looks like a timed-out one to the   *)
(* loop.                                                                   *)
CancelQueued(g) ==
    /\ get[g] = "queued"
    /\ Finish(g, Bare("cancelled"))
    /\ UNCHANGED <<log, page, rev, since, providers, callVars>>

CancelAsking(g) ==
    /\ get[g] = "asking"
    /\ Finish(g, Bare("cancelled"))
    /\ IF outcome[g] = "open" THEN KadClient!Return(g, "timeout")
                              ELSE UNCHANGED callVars
    /\ UNCHANGED <<log, page, rev, since, providers>>

-----------------------------------------------------------------------------
(* The environment: pushes, and the event loop behind the client. *)
Push ==
    /\ Len(log) < MaxCommits
    /\ \E tree \in Trees : log' = Append(log, tree)
    /\ UNCHANGED <<mutex, handlerVars, callVars>>

Loop ==
    /\ (\E g \in Gets : KadClient!Execute(g)) \/ KadClient!Disconnect
    /\ UNCHANGED <<log, mutex, handlerVars>>

Handle(g) == ResolveHead(g) \/ ServePage(g) \/ AskProviders(g) \/ ServeMiss(g)

Next ==
    \/ \E g \in Gets : \/ Arrive(g)
                       \/ Handle(g)
                       \/ LookupReturns(g)
                       \/ CancelQueued(g)
                       \/ CancelAsking(g)
    \/ Push
    \/ Loop

Spec == Init /\ [][Next]_vars

(* A handler that can go on is polled, and calls of the client return;     *)
(* nobody has to push, to cancel or to be told of providers.               *)
Fairness ==
    \A g \in Gets : WF_vars(Handle(g)) /\ WF_vars(LookupReturns(g))

LiveSpec == Spec /\ Fairness

-----------------------------------------------------------------------------
(* What a read of the commit i would have sent for the request g. *)
ResponseAt(g, i) ==
    IF Found(ContentAt(page[g], i)) THEN Render(page[g], ContentAt(page[g], i))
                                    ELSE Bare("404")

(* Reads are linearizable: the answer is what one commit that was HEAD at  *)
(* some moment between the arrival of the request and its answer says, a   *)
(* 404 after a long lookup and pushes in between included (get.rs:15-32,   *)
(* git_storage/mod.rs:24-60).                                              *)
ReadsAreLinearizable ==
    \A g \in Gets :
        Done(g) /\ response[g].status # "cancelled" =>
            \E i \in since[g]..Len(log) : response[g] = ResponseAt(g, i)

(* The handler with its mutex, commits, lookups and cancellations          *)
(* implements atomic reads: the resolution of HEAD is the one look at the  *)
(* wiki, and neither the page, its rendering nor the 404 after a lookup    *)
(* shows anything later or earlier (get.rs:11-33,                          *)
(* git_storage/mod.rs:24-60).                                              *)
Answers == [status : {"200", "404", "500", "reset"}, body : Bodies \cup {Nothing}]

Wiki == [g \in Gets |-> ResponseAt(g, Len(log))]

State == [g \in Gets |-> CASE get[g] \in {"new", "done"} -> get[g]
                           [] OTHER -> "open"]

Seen == [g \in Gets |->
    IF get[g] \in {"resolved", "asking"} THEN ResponseAt(g, rev[g])
                                         ELSE Bare("none")]

Reply == [g \in Gets |->
    IF response[g].status \in {"none", "cancelled"} THEN Bare("none")
                                                    ELSE response[g]]

Reading == INSTANCE AtomicReads WITH
    NoAnswer <- Bare("none"), wiki <- Wiki, state <- State, seen <- Seen,
    reply <- Reply

ReadsAreAtomic == Reading!Spec

(* The mutex is held across the lookup, so the GET route never has more    *)
(* than one lookup under way: misses are looked up one at a time, and the  *)
(* pages that are present wait behind them (get.rs:15-25).                 *)
OneLookupAtATime ==
    \A g, h \in Gets : outcome[g] = "open" /\ outcome[h] = "open" => g = h

(* Every request that came in is answered or given up by the browser, even *)
(* behind misses whose lookups nobody answers and when the event loop is   *)
(* dead.                                                                   *)
EveryGetIsAnswered == \A g \in Gets : get[g] = "queued" ~> Done(g)

(* A link never misleads: if the router gives the URL that a wit link was  *)
(* sent as to the handler of pages, the link meant the current version, on *)
(* this server, of just the page that the handler looks up.  to_http()     *)
(* drops the version and the server (link/mod.rs:122-135); what saves it   *)
(* is that such a link gets a double slash and no route (mod.rs:109-118).  *)
LinksNeverMislead ==
    \A g \in Gets :
        LET url == ContentAt(page[g], rev[g]).url
            body == response[g].body
        IN  /\ response[g].status = "200" /\ url # NoLink
            /\ url.scheme = "wit" /\ Routed(body.url)
            => IsHere(FromUrl(url), Target(body.url))

(* A page that other servers provide is not reported missing. *)
FoundElsewhereIsServed ==
    \A g \in Gets : providers[g] = "somebody" => response[g].status # "404"
=============================================================================
