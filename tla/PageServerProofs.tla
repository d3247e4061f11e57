-------------------------- MODULE PageServerProofs --------------------------
(***************************************************************************)
(* Proofs about PageServer for any numbers of requests, pages, links and   *)
(* pushes.                                                                 *)
(***************************************************************************)
EXTENDS PageServer, TLAPS

CallTypes == outcome \in [Gets -> {"idle", "open"} \cup KadClient!Returned]
                /\ executed \subseteq Gets

HandlerTypes ==
    /\ mutex \in Seq(Gets)
    /\ get \in [Gets -> {"new", "queued", "resolved", "asking", "done"}]
    /\ page \in [Gets -> Pages]
    /\ response \in [Gets -> Response]
    /\ providers \in [Gets -> {"unknown", "nobody", "somebody"}]

RevTypes ==
    /\ log \in Seq(Trees)
    /\ Len(log) <= MaxCommits
    /\ rev \in [Gets -> 0..Len(log)]
    /\ since \in [Gets -> 0..Len(log)]

(* TypeOK, cut into the parts that an action disturbs together. *)
LEMMA TypeParts == TypeOK <=> CallTypes /\ HandlerTypes /\ RevTypes
BY DEF TypeOK, CallTypes, HandlerTypes, RevTypes, KadClient!TypeOK

(* A request that leaves the line leaves a line of requests, and its head  *)
(* stays the head unless it is the one that leaves.                        *)
LEMMA LeaveLine ==
    ASSUME NEW S, NEW s \in Seq(S), NEW i \in DOMAIN s
    PROVE  /\ RemoveAt(s, i) \in Seq(S)
           /\ i # 1 => RemoveAt(s, i) # <<>> /\ Head(RemoveAt(s, i)) = Head(s)
BY DEF RemoveAt

(* A commit holds a text or something special under every path. *)
LEMMA ContentType ==
    ASSUME RevTypes, NEW p \in Pages, NEW i \in 0..Len(log)
    PROVE  ContentAt(p, i) \in Texts \cup Special
<1>1. CASE i = 0
  BY <1>1 DEF ContentAt, Nothing, Special
<1>2. CASE i # 0
  <2>1. log[i] \in Trees
    BY <1>2 DEF RevTypes
  <2> QED BY <1>2, <2>1 DEF ContentAt, Trees
<1> QED BY <1>1, <1>2

(* What render() makes of a file is an answer, and answers are responses. *)
LEMMA RenderType ==
    ASSUME NEW p \in Pages, NEW content \in Texts \cup Special, Found(content)
    PROVE  Render(p, content) \in Answers
<1>1. CASE content.kind = "text"
  <2>1. content \in Texts
    BY <1>1 DEF Special
  <2>2. Linked(p, content) \in Bodies
    BY <2>1 DEF Texts, Bodies, Linked
  <2>3. [status |-> "200", body |-> Linked(p, content)] \in Answers
    BY <2>2 DEF Answers
  <2> QED BY <1>1, <2>3 DEF Render, Bare, Answers
<1>2. CASE content.kind \in {"binary", "not_utf8"}
  BY <1>2 DEF Render, Bare, Answers
<1> QED BY <1>1, <1>2 DEF Texts, Special, Found

LEMMA AnswersRespond == Answers \subseteq Response
BY DEF Answers, Response

(* The end of a handler is well-typed. *)
LEMMA FinishType ==
    ASSUME HandlerTypes, NEW g \in Gets, NEW resp \in Response, Finish(g, resp)
    PROVE  /\ mutex' \in Seq(Gets)
           /\ get' \in [Gets -> {"new", "queued", "resolved", "asking", "done"}]
           /\ response' \in [Gets -> Response]
BY LeaveLine DEF HandlerTypes, Finish

(* The contract of the client keeps its types. *)
LEMMA CallStep ==
    ASSUME CallTypes, NEW g \in Gets,
           \/ KadClient!Issue(g) \/ KadClient!Execute(g)
           \/ \E o \in KadClient!Returned : KadClient!Return(g, o)
    PROVE  CallTypes'
BY DEF CallTypes, KadClient!Issue, KadClient!Execute, KadClient!Return,
       KadClient!Returned

(* Every step leaves every variable in its type. *)
LEMMA TypeStep == TypeOK /\ [Next]_vars => TypeOK'
<1> SUFFICES ASSUME CallTypes, HandlerTypes, RevTypes, [Next]_vars
             PROVE  CallTypes' /\ HandlerTypes' /\ RevTypes'
  BY DEF TypeOK, CallTypes, HandlerTypes, RevTypes, KadClient!TypeOK
<1> USE DEF callVars, handlerVars
<1>1. ASSUME NEW g \in Gets, Arrive(g)
      PROVE  CallTypes' /\ HandlerTypes' /\ RevTypes'
  BY <1>1 DEF Arrive, CallTypes, HandlerTypes, RevTypes
<1>2. ASSUME NEW g \in Gets, ResolveHead(g)
      PROVE  CallTypes' /\ HandlerTypes' /\ RevTypes'
  BY <1>2 DEF ResolveHead, CallTypes, HandlerTypes, RevTypes
<1>3. ASSUME NEW g \in Gets, ServePage(g)
      PROVE  CallTypes' /\ HandlerTypes' /\ RevTypes'
  <2>1. ContentAt(page[g], rev[g]) \in Texts \cup Special
    BY ContentType DEF HandlerTypes, RevTypes
  <2>2. Render(page[g], ContentAt(page[g], rev[g])) \in Response
    BY <1>3, <2>1, RenderType, AnswersRespond DEF ServePage, HandlerTypes
  <2>3. HandlerTypes'
    BY <1>3, <2>2, FinishType DEF ServePage, HandlerTypes
  <2> QED BY <1>3, <2>3 DEF ServePage, CallTypes, RevTypes
<1>4. ASSUME NEW g \in Gets, AskProviders(g)
      PROVE  CallTypes' /\ HandlerTypes' /\ RevTypes'
  BY <1>4, CallStep DEF AskProviders, HandlerTypes, RevTypes
<1>5. ASSUME NEW g \in Gets, LookupReturns(g)
      PROVE  CallTypes' /\ HandlerTypes' /\ RevTypes'
  BY <1>5, CallStep DEF LookupReturns, HandlerTypes, RevTypes
<1>6. ASSUME NEW g \in Gets, ServeMiss(g) \/ CancelQueued(g)
      PROVE  CallTypes' /\ HandlerTypes' /\ RevTypes'
  <2>1. Bare("404") \in Response /\ Bare("cancelled") \in Response
    BY DEF Bare, Response
  <2>2. HandlerTypes'
    BY <1>6, <2>1, FinishType DEF ServeMiss, CancelQueued, HandlerTypes
  <2> QED BY <1>6, <2>2 DEF ServeMiss, CancelQueued, CallTypes, RevTypes
<1>7. ASSUME NEW g \in Gets, CancelAsking(g)
      PROVE  CallTypes' /\ HandlerTypes' /\ RevTypes'
  <2>1. Bare("cancelled") \in Response
    BY DEF Bare, Response
  <2>2. HandlerTypes'
    BY <1>7, <2>1, FinishType DEF CancelAsking, HandlerTypes
  <2>3. CallTypes'
    BY <1>7, CallStep DEF CancelAsking, CallTypes, KadClient!Returned
  <2> QED BY <1>7, <2>2, <2>3 DEF CancelAsking, RevTypes
<1>8. CASE Push
  BY <1>8, CommitsAssumption DEF Push, CallTypes, HandlerTypes, RevTypes
<1>9. CASE Loop
  <2>1. ASSUME KadClient!Disconnect PROVE CallTypes'
    <3>1. PICK lost : outcome' = [c \in Gets |->
                                    IF outcome[c] # "open" THEN outcome[c]
                                    ELSE IF c \in lost THEN "unsent" ELSE "dropped"]
      BY <2>1 DEF KadClient!Disconnect
    <3>2. outcome' \in [Gets -> {"idle", "open"} \cup KadClient!Returned]
      BY <3>1 DEF CallTypes, KadClient!Returned
    <3>3. executed' = executed
      BY <2>1 DEF KadClient!Disconnect
    <3> QED BY <3>2, <3>3 DEF CallTypes
  <2> QED BY <1>9, <2>1, CallStep DEF Loop, HandlerTypes, RevTypes
<1>10. CASE UNCHANGED vars
  BY <1>10 DEF vars, CallTypes, HandlerTypes, RevTypes
<1> QED BY <1>1, <1>2, <1>3, <1>4, <1>5, <1>6, <1>7, <1>8, <1>9, <1>10
        DEF Next, Handle

(* Nothing is held, looked up or answered at the start. *)
LEMMA TypeInit == Init => TypeOK
<1> SUFFICES ASSUME Init PROVE TypeOK
  OBVIOUS
<1>1. RevTypes
  <2>1. CASE log = <<>>
    BY <2>1, CommitsAssumption DEF Init, RevTypes
  <2>2. CASE \E tree \in Trees : log = <<tree>>
    BY <2>2, CommitsAssumption DEF Init, RevTypes
  <2> QED BY <2>1, <2>2 DEF Init
<1>2. Bare("none") \in Response
  BY DEF Bare, Response
<1>3. HandlerTypes
  BY <1>2 DEF Init, HandlerTypes
<1>4. CallTypes
  BY DEF Init, CallTypes, KadClient!Init
<1> QED BY <1>1, <1>3, <1>4, TypeParts

(* Every variable keeps its type, the answers to requests included.        *)
THEOREM TypeCorrect == Spec => []TypeOK
BY TypeInit, TypeStep, PTL DEF Spec

-----------------------------------------------------------------------------
(* A handler that has got past the lock holds it, and an open lookup       *)
(* belongs to a handler that is asking.                                    *)
MutexInv ==
    \A g \in Gets :
        /\ get[g] \in {"resolved", "asking"} => Holds(g)
        /\ outcome[g] = "open" => get[g] = "asking"

(* When a handler ends, the others are where they were, and the holder of  *)
(* the mutex, if it is another one, stays its holder.                      *)
LEMMA FinishHolds ==
    ASSUME HandlerTypes, NEW g \in Gets, NEW resp, Finish(g, resp),
           NEW h \in Gets, h # g, Holds(h)
    PROVE  Holds(h)' /\ get'[h] = get[h]
<1>1. PICK i \in DOMAIN mutex : mutex[i] = g /\ mutex' = RemoveAt(mutex, i)
  BY DEF Finish
<1>2. i # 1
  BY <1>1 DEF Holds, HandlerTypes
<1>3. Holds(h)'
  BY <1>1, <1>2, LeaveLine DEF Holds, HandlerTypes
<1> QED BY <1>3 DEF Finish, HandlerTypes

(* Every step keeps the mutex with the handlers that are past the lock. *)
LEMMA MutexStep == TypeOK /\ MutexInv /\ [Next]_vars => MutexInv'
<1> SUFFICES ASSUME TypeOK, MutexInv, [Next]_vars, NEW h \in Gets
             PROVE  /\ get'[h] \in {"resolved", "asking"} => Holds(h)'
                    /\ outcome'[h] = "open" => get'[h] = "asking"
  BY DEF MutexInv, Holds
<1>0. CallTypes /\ HandlerTypes
  BY TypeParts
<1> USE DEF callVars, handlerVars
<1>1. ASSUME NEW g \in Gets, Arrive(g)
      PROVE  /\ get'[h] \in {"resolved", "asking"} => Holds(h)'
             /\ outcome'[h] = "open" => get'[h] = "asking"
  <2>1. Holds(h) => Holds(h)'
    BY <1>0, <1>1 DEF Arrive, Holds, HandlerTypes
  <2>2. /\ get' = [get EXCEPT ![g] = "queued"]
        /\ get[g] = "new"
        /\ outcome' = outcome
    BY <1>1 DEF Arrive
  <2> QED BY <1>0, <2>1, <2>2 DEF MutexInv, HandlerTypes
<1>2. ASSUME NEW g \in Gets, ResolveHead(g) \/ AskProviders(g)
      PROVE  /\ get'[h] \in {"resolved", "asking"} => Holds(h)'
             /\ outcome'[h] = "open" => get'[h] = "asking"
  BY <1>0, <1>2
     DEF ResolveHead, AskProviders, MutexInv, Holds, HandlerTypes, CallTypes,
         KadClient!Issue
<1>3. ASSUME NEW g \in Gets, NEW resp, Finish(g, resp),
             outcome'[g] # "open", h # g => outcome'[h] = outcome[h]
      PROVE  /\ get'[h] \in {"resolved", "asking"} => Holds(h)'
             /\ outcome'[h] = "open" => get'[h] = "asking"
  <2>1. CASE h = g
    BY <1>0, <1>3, <2>1 DEF Finish, HandlerTypes
  <2>2. CASE h # g
    <3>1. get'[h] = get[h]
      BY <1>0, <1>3, <2>2 DEF Finish, HandlerTypes
    <3>2. get[h] \in {"resolved", "asking"} => Holds(h)'
      BY <1>0, <1>3, <2>2, FinishHolds DEF MutexInv
    <3> QED BY <1>3, <2>2, <3>1, <3>2 DEF MutexInv
  <2> QED BY <2>1, <2>2
<1>4. ASSUME NEW g \in Gets, ServePage(g)
      PROVE  /\ get'[h] \in {"resolved", "asking"} => Holds(h)'
             /\ outcome'[h] = "open" => get'[h] = "asking"
  <2>1. outcome[g] # "open"
    BY <1>4 DEF ServePage, MutexInv
  <2> QED BY <1>3, <1>4, <2>1 DEF ServePage
<1>5. ASSUME NEW g \in Gets, ServeMiss(g) \/ CancelQueued(g)
      PROVE  /\ get'[h] \in {"resolved", "asking"} => Holds(h)'
             /\ outcome'[h] = "open" => get'[h] = "asking"
  <2>1. outcome[g] # "open"
    BY <1>5 DEF ServeMiss, CancelQueued, MutexInv, KadClient!Returned
  <2> QED BY <1>3, <1>5, <2>1 DEF ServeMiss, CancelQueued
<1>6. ASSUME NEW g \in Gets, CancelAsking(g)
      PROVE  /\ get'[h] \in {"resolved", "asking"} => Holds(h)'
             /\ outcome'[h] = "open" => get'[h] = "asking"
  <2>1. outcome'[g] # "open" /\ (h # g => outcome'[h] = outcome[h])
    BY <1>0, <1>6 DEF CancelAsking, KadClient!Return, CallTypes
  <2> QED BY <1>3, <1>6, <2>1 DEF CancelAsking
<1>7. ASSUME NEW g \in Gets, LookupReturns(g) \/ KadClient!Execute(g),
             UNCHANGED <<log, mutex, handlerVars>>
      PROVE  /\ get'[h] \in {"resolved", "asking"} => Holds(h)'
             /\ outcome'[h] = "open" => get'[h] = "asking"
  <2>1. outcome'[h] = "open" => outcome[h] = "open"
    BY <1>0, <1>7 DEF LookupReturns, KadClient!Execute, KadClient!Return,
                      KadClient!Returned, CallTypes
  <2> QED BY <1>7, <2>1 DEF MutexInv, Holds
<1>8. CASE Loop
  <2>1. KadClient!Disconnect => (outcome'[h] = "open" => outcome[h] = "open")
    BY <1>0 DEF KadClient!Disconnect, CallTypes
  <2> QED BY <1>7, <1>8, <2>1 DEF Loop, MutexInv, Holds
<1>9. CASE Push \/ UNCHANGED vars
  BY <1>9 DEF Push, vars, MutexInv, Holds
<1> QED BY <1>1, <1>2, <1>4, <1>5, <1>6, <1>7, <1>8, <1>9
        DEF Next, Handle, LookupReturns

(* The GET route never has two lookups under way (get.rs:15-25).           *)
THEOREM LookupsOneAtATime == Spec => []OneLookupAtATime
<1>1. Init => MutexInv
  BY DEF Init, MutexInv, KadClient!Init
<1>2. MutexInv => OneLookupAtATime
  BY DEF MutexInv, OneLookupAtATime, Holds
<1> QED BY <1>1, <1>2, MutexStep, TypeCorrect, PTL DEF Spec

-----------------------------------------------------------------------------
(* What is known of the handler of g: a commit that it has resolved was    *)
(* HEAD after the request came in, a lookup means that this commit does    *)
(* not have the page, and the answer is what this commit says.             *)
ReadOf(g) ==
    /\ get[g] \in {"new", "queued"} => ~Done(g)
    /\ get[g] \in {"resolved", "asking"} => since[g] <= rev[g] /\ ~Done(g)
    /\ get[g] = "asking" => ~Found(ContentAt(page[g], rev[g]))
    /\ get[g] = "done" /\ response[g].status # "cancelled" =>
           since[g] <= rev[g] /\ response[g] = ResponseAt(g, rev[g])

ReadInv == \A g \in Gets : ReadOf(g)

(* A later push changes nothing in a commit that was HEAD before. *)
LEMMA PushKeepsContent ==
    ASSUME RevTypes, Push, NEW p, NEW i \in 0..Len(log)
    PROVE  ContentAt(p, i)' = ContentAt(p, i)
<1>1. PICK tree \in Trees : log' = Append(log, tree)
  BY DEF Push
<1>2. i # 0 => log'[i] = log[i]
  BY <1>1 DEF RevTypes
<1> QED BY <1>2 DEF ContentAt

(* A step that leaves the log and everything about a handler as it was,    *)
(* leaves what is known of it.                                             *)
LEMMA ReadFrame ==
    ASSUME NEW g, ReadOf(g), log' = log, get'[g] = get[g], page'[g] = page[g],
           rev'[g] = rev[g], since'[g] = since[g], response'[g] = response[g]
    PROVE  ReadOf(g)'
BY DEF ReadOf, Done, ContentAt, ResponseAt

(* Every step of every handler keeps what is known of all of them. *)
LEMMA ReadStep == TypeOK /\ ReadInv /\ [Next]_vars => ReadInv'
<1> SUFFICES ASSUME TypeOK, ReadInv, [Next]_vars, NEW h \in Gets
             PROVE  ReadOf(h)'
  BY DEF ReadInv
<1>0. /\ CallTypes /\ HandlerTypes /\ RevTypes
      /\ ReadOf(h)
  BY TypeParts DEF ReadInv
<1> USE DEF callVars, handlerVars
<1>1. ASSUME NEW g \in Gets, Arrive(g) PROVE ReadOf(h)'
  BY <1>0, <1>1, ReadFrame DEF Arrive, ReadOf, Done, HandlerTypes, RevTypes
<1>2. ASSUME NEW g \in Gets, ResolveHead(g) PROVE ReadOf(h)'
  <2>1. CASE h = g
    BY <1>0, <1>2, <2>1 DEF ResolveHead, ReadOf, Done, HandlerTypes, RevTypes
  <2>2. CASE h # g
    BY <1>0, <1>2, <2>2, ReadFrame DEF ResolveHead, HandlerTypes, RevTypes
  <2> QED BY <2>1, <2>2
<1>3. ASSUME NEW g \in Gets, NEW resp, Finish(g, resp),
             UNCHANGED <<log, page, rev, since>>,
             \/ resp.status = "cancelled"
             \/ since[g] <= rev[g] /\ resp = ResponseAt(g, rev[g])
      PROVE  ReadOf(h)'
  <2>1. CASE h = g
    <3>1. get'[h] = "done" /\ response'[h] = resp
      BY <1>0, <1>3, <2>1 DEF Finish, HandlerTypes
    <3>2. ResponseAt(h, rev[h])' = ResponseAt(h, rev[h])
      BY <1>3 DEF ResponseAt, ContentAt
    <3> QED BY <1>3, <2>1, <3>1, <3>2 DEF ReadOf
  <2>2. CASE h # g
    BY <1>0, <1>3, <2>2, ReadFrame DEF Finish, HandlerTypes
  <2> QED BY <2>1, <2>2
<1>4. ASSUME NEW g \in Gets, ServePage(g) PROVE ReadOf(h)'
  <2>1. since[g] <= rev[g]
    BY <1>4 DEF ServePage, ReadInv, ReadOf
  <2> QED BY <1>3, <1>4, <2>1 DEF ServePage, ResponseAt
<1>5. ASSUME NEW g \in Gets, AskProviders(g) PROVE ReadOf(h)'
  <2>1. CASE h = g
    <3>1. /\ get[h] = "resolved" /\ get'[h] = "asking"
          /\ ~Found(ContentAt(page[h], rev[h]))
      BY <1>0, <1>5, <2>1 DEF AskProviders, HandlerTypes
    <3> QED BY <1>0, <1>5, <3>1 DEF AskProviders, ReadOf, Done, ContentAt
  <2>2. CASE h # g
    BY <1>0, <1>5, <2>2, ReadFrame DEF AskProviders, HandlerTypes
  <2> QED BY <2>1, <2>2
<1>6. ASSUME NEW g \in Gets, ServeMiss(g) PROVE ReadOf(h)'
  <2>1. /\ since[g] <= rev[g]
        /\ ~Found(ContentAt(page[g], rev[g]))
    BY <1>6 DEF ServeMiss, ReadInv, ReadOf
  <2> QED BY <1>3, <1>6, <2>1 DEF ServeMiss, ResponseAt
<1>7. ASSUME NEW g \in Gets, CancelQueued(g) \/ CancelAsking(g) PROVE ReadOf(h)'
  BY <1>3, <1>7 DEF CancelQueued, CancelAsking, Bare
<1>8. CASE Push
  <2>1. ContentAt(page[h], rev[h])' = ContentAt(page[h], rev[h])
    BY <1>0, <1>8, PushKeepsContent DEF Push, RevTypes
  <2> QED BY <1>0, <1>8, <2>1 DEF Push, ReadOf, Done, ResponseAt
<1>9. ASSUME UNCHANGED <<log, mutex, handlerVars>> PROVE ReadOf(h)'
  BY <1>0, <1>9, ReadFrame
<1> QED BY <1>1, <1>2, <1>4, <1>5, <1>6, <1>7, <1>8, <1>9
        DEF Next, Handle, LookupReturns, Loop, vars

(* What is known of the handlers is known in every reachable state.        *)
THEOREM ReadsKnown == Spec => []ReadInv
<1>1. Init => ReadInv
  BY DEF Init, ReadInv, ReadOf, Done, Bare
<1> QED BY <1>1, ReadStep, TypeCorrect, PTL DEF Spec

(* Every answer is what one commit says that was HEAD while the request    *)
(* was under way (get.rs:15-32, git_storage/mod.rs:24-60).                 *)
THEOREM Linearizable == Spec => []ReadsAreLinearizable
<1>1. TypeOK /\ ReadInv => ReadsAreLinearizable
  <2> SUFFICES ASSUME TypeOK, ReadInv, NEW g \in Gets,
                      Done(g), response[g].status # "cancelled"
               PROVE  \E i \in since[g]..Len(log) : response[g] = ResponseAt(g, i)
    BY DEF ReadsAreLinearizable
  <2>1. rev[g] \in since[g]..Len(log) /\ response[g] = ResponseAt(g, rev[g])
    BY DEF TypeOK, ReadInv, ReadOf
  <2> QED BY <2>1
<1> QED BY <1>1, ReadsKnown, TypeCorrect, PTL

-----------------------------------------------------------------------------
(* A path with one segment after a slash that was put before it. *)
LEMMA OneSegment ==
    ASSUME NEW S, NEW s \in Seq(S), NEW x, Len(<<x>> \o s) = 2
    PROVE  s # <<>> /\ s = <<s[1]>> /\ (<<x>> \o s)[2] = s[1]
<1>1. s \in Seq(S \cup {x}) /\ <<x>> \in Seq(S \cup {x})
  OBVIOUS
<1>2. Len(<<x>> \o s) = Len(s) + 1 /\ Len(s) \in Nat
  BY <1>1
<1>3. Len(s) = 1
  <2> DEFINE n == Len(<<x>> \o s)
             m == Len(s)
  <2>1. n = 2 /\ n = m + 1 /\ m \in Nat
    BY <1>2
  <2> HIDE DEF n, m
  <2>2. m = 1
    BY <2>1
  <2> QED BY <2>2 DEF m
<1>4. (<<x>> \o s)[2] = s[1]
  BY <1>1, <1>2, <1>3
<1> QED BY <1>3, <1>4

(* An http URL made of a wit link has a route only if the link is one of   *)
(* the current version of a page of this server.                           *)
LEMMA RoutedIsHere ==
    ASSUME NEW url \in Urls, Routed(ToHttp(FromUrl(url)))
    PROVE  IsHere(FromUrl(url), Target(ToHttp(FromUrl(url))))
<1> DEFINE sent == <<"">> \o url.path
<1>1. Len(sent) = 2 /\ sent[2] # ""
  BY DEF Routed, ToHttp, FromUrl
<1>2. url.path \in Seq(Segments)
  BY DEF Urls
<1>3. url.path # <<>> /\ url.path = <<url.path[1]>> /\ sent[2] = url.path[1]
  BY <1>1, <1>2, OneSegment
<1> HIDE DEF sent
<1>4. url.username = "" /\ url.host = ""
  BY <1>1, <1>3 DEF Urls
<1>5. IsHere(FromUrl(url), sent[2])
  BY <1>3, <1>4 DEF IsHere, FromUrl, HostFromUrl
<1> QED BY <1>5 DEF Target, ToHttp, FromUrl, sent

(* No wit link leads to another page, another server's page or another     *)
(* version than it names: whatever gets a route is what the link meant     *)
(* (link/mod.rs:122-135, server/mod.rs:109-118).                           *)
THEOREM LinksAreHonest == Spec => []LinksNeverMislead
<1>1. TypeOK /\ ReadInv => LinksNeverMislead
  <2> SUFFICES ASSUME TypeOK, ReadInv, NEW g \in Gets,
                      response[g].status = "200",
                      NEW url, url = ContentAt(page[g], rev[g]).url,
                      url # NoLink, url.scheme = "wit",
                      Routed(response[g].body.url)
               PROVE  IsHere(FromUrl(url), Target(response[g].body.url))
    BY DEF LinksNeverMislead
  <2> DEFINE content == ContentAt(page[g], rev[g])
  <2>1. page[g] \in Pages /\ content \in Texts \cup Special
    BY TypeParts, ContentType DEF HandlerTypes, RevTypes
  <2>2. url \in Urls
    BY <2>1, LinksAssumption DEF Texts, Special
  <2>3. response[g] = ResponseAt(g, rev[g])
    BY DEF TypeOK, ReadInv, ReadOf, Done
  <2>4. response[g] = [status |-> "200", body |-> Linked(page[g], content)]
    BY <2>3 DEF ResponseAt, Render, Bare
  <2>5. response[g].body.url = IF page[g] \in Markdown THEN ToHttp(FromUrl(url))
                               ELSE url
    BY <2>4 DEF Linked, Translated
  <2>6. page[g] \in Markdown
    BY <2>5 DEF Routed
  <2> QED BY <2>2, <2>5, <2>6, RoutedIsHere
<1> QED BY <1>1, ReadsKnown, TypeCorrect, PTL
-----------------------------------------------------------------------------
(* Any commit has an answer to a request. *)
LEMMA ResponseType ==
    ASSUME TypeOK, NEW g \in Gets, NEW i \in 0..Len(log)
    PROVE  ResponseAt(g, i) \in Answers
<1>1. page[g] \in Pages /\ ContentAt(page[g], i) \in Texts \cup Special
  BY TypeParts, ContentType DEF HandlerTypes
<1>2. Bare("404") \in Answers
  BY DEF Bare, Answers
<1> QED BY <1>1, <1>2, RenderType DEF ResponseAt

(* The wiki that the readers see has an answer to each of them. *)
LEMMA WikiType == TypeOK => Wiki \in [Gets -> Answers]
<1> SUFFICES ASSUME TypeOK PROVE Wiki \in [Gets -> Answers]
  OBVIOUS
<1>1. Len(log) \in 0..Len(log)
  BY DEF TypeOK
<1> QED BY <1>1, ResponseType DEF Wiki

LEMMA WikiTypeNext == TypeOK' => (Wiki \in [Gets -> Answers])'
BY WikiType, PTL

(* Only pushes change the wiki.                                            *)
LEMMA WikiFrame ==
    ASSUME UNCHANGED <<log, page>>
    PROVE  Wiki' = Wiki /\ \A g, i : ResponseAt(g, i)' = ResponseAt(g, i)
<1>1. \A g, i : ResponseAt(g, i)' = ResponseAt(g, i)
  BY DEF ResponseAt, ContentAt
<1> QED BY <1>1 DEF Wiki

(* The end of a handler is the answer to its request, or nothing if the    *)
(* reader has gone.                                                        *)
LEMMA FinishReads ==
    ASSUME TypeOK, ReadInv, NEW g \in Gets, NEW resp, Finish(g, resp),
           UNCHANGED <<log, page, rev>>, get[g] \notin {"new", "done"},
           \/ resp = Bare("cancelled")
           \/ get[g] \in {"resolved", "asking"} /\ resp = ResponseAt(g, rev[g])
    PROVE  Reading!Answer(g) \/ Reading!GiveUp(g)
<1>1. HandlerTypes
  BY TypeParts
<1>2. Wiki' = Wiki /\ \A h, i : ResponseAt(h, i)' = ResponseAt(h, i)
  BY WikiFrame
<1>3. /\ State[g] = "open"
      /\ State' = [State EXCEPT ![g] = "done"]
  BY <1>1 DEF Finish, State, HandlerTypes
<1>4. Seen' = [Seen EXCEPT ![g] = Bare("none")]
  BY <1>1, <1>2 DEF Finish, Seen, HandlerTypes
<1>5. Reading!Close(g)
  BY <1>3, <1>4 DEF Reading!Close
<1>6. Reply' = [Reply EXCEPT ![g] = IF resp.status \in {"none", "cancelled"}
                                    THEN Bare("none") ELSE resp]
  BY <1>1 DEF Finish, Reply, HandlerTypes
<1>7. CASE resp = Bare("cancelled")
  <2>1. Reply[g] = Bare("none")
    <3>1. ~Done(g)
      BY <1>1 DEF ReadInv, ReadOf, HandlerTypes
    <3> QED BY <3>1 DEF Reply, Done
  <2>2. Reply' = [Reply EXCEPT ![g] = Reply[g]]
    BY <1>6, <1>7, <2>1 DEF Bare
  <2>3. Reply' = Reply
    BY <2>2 DEF Reply
  <2> QED BY <1>2, <1>5, <2>3 DEF Reading!GiveUp
<1>8. CASE get[g] \in {"resolved", "asking"} /\ resp = ResponseAt(g, rev[g])
  <2>1. Seen[g] = resp
    BY <1>8 DEF Seen
  <2>2. resp.status \notin {"none", "cancelled"} /\ resp # Bare("none")
    <3>1. rev[g] \in 0..Len(log)
      BY DEF TypeOK
    <3>2. resp \in Answers
      BY <1>8, <3>1, ResponseType
    <3> QED BY <3>2 DEF Answers, Bare
  <2>3. Reply' = [Reply EXCEPT ![g] = Seen[g]]
    BY <1>6, <2>1, <2>2
  <2> QED BY <1>2, <1>5, <2>1, <2>2, <2>3 DEF Reading!Answer
<1> QED BY <1>7, <1>8

(* Every step of the handlers and of the pushes is a step of the readers'  *)
(* view, or none.                                                          *)
LEMMA ReadingStep ==
    TypeOK /\ ReadInv /\ TypeOK' /\ [Next]_vars
        => [Reading!Next]_(Reading!vars)
<1> SUFFICES ASSUME TypeOK, ReadInv, TypeOK', [Next]_vars
             PROVE  [Reading!Next]_(Reading!vars)
  OBVIOUS
<1>0. HandlerTypes
  BY TypeParts
<1> USE DEF callVars, handlerVars
<1>1. ASSUME NEW g \in Gets, Arrive(g) PROVE Reading!Arrive(g)
  <2>1. Wiki' = Wiki /\ \A h, i : ResponseAt(h, i)' = ResponseAt(h, i)
    BY <1>1, WikiFrame DEF Arrive
  <2>2. State[g] = "new" /\ State' = [State EXCEPT ![g] = "open"]
    BY <1>0, <1>1 DEF Arrive, State, HandlerTypes
  <2>3. Seen' = Seen
    BY <1>0, <1>1, <2>1 DEF Arrive, Seen, HandlerTypes
  <2>4. Reply' = Reply
    BY <1>1 DEF Arrive, Reply
  <2> QED BY <2>1, <2>2, <2>3, <2>4 DEF Reading!Arrive
<1>2. ASSUME NEW g \in Gets, ResolveHead(g) PROVE Reading!Look(g)
  <2>1. Wiki' = Wiki /\ \A h, i : ResponseAt(h, i)' = ResponseAt(h, i)
    BY <1>2, WikiFrame DEF ResolveHead
  <2>2. State[g] = "open" /\ Seen[g] = Bare("none")
    BY <1>0, <1>2 DEF ResolveHead, State, Seen, HandlerTypes
  <2>3. State' = State
    BY <1>0, <1>2 DEF ResolveHead, State, HandlerTypes
  <2>4. Wiki[g] = ResponseAt(g, Len(log))
    BY DEF Wiki
  <2>5. Seen' = [Seen EXCEPT ![g] = Wiki[g]]
    BY <1>0, <1>2, <2>1, <2>4 DEF ResolveHead, Seen, HandlerTypes, TypeOK
  <2>6. Reply' = Reply
    BY <1>2 DEF ResolveHead, Reply
  <2> QED BY <2>1, <2>2, <2>3, <2>5, <2>6 DEF Reading!Look
<1>3. ASSUME NEW g \in Gets, ServePage(g)
      PROVE  Reading!Answer(g) \/ Reading!GiveUp(g)
  BY <1>3, FinishReads DEF ServePage, ResponseAt
<1>4. ASSUME NEW g \in Gets, ServeMiss(g)
      PROVE  Reading!Answer(g) \/ Reading!GiveUp(g)
  BY <1>4, FinishReads DEF ServeMiss, ReadInv, ReadOf, ResponseAt
<1>5. ASSUME NEW g \in Gets, CancelQueued(g) \/ CancelAsking(g)
      PROVE  Reading!Answer(g) \/ Reading!GiveUp(g)
  BY <1>5, FinishReads DEF CancelQueued, CancelAsking
<1>6. ASSUME NEW g \in Gets, AskProviders(g) PROVE UNCHANGED Reading!vars
  <2>1. Wiki' = Wiki /\ \A h, i : ResponseAt(h, i)' = ResponseAt(h, i)
    BY <1>6, WikiFrame DEF AskProviders
  <2>2. State' = State /\ Reply' = Reply
    BY <1>0, <1>6 DEF AskProviders, State, Reply, HandlerTypes
  <2>3. Seen' = Seen
    BY <1>0, <1>6, <2>1 DEF AskProviders, Seen, HandlerTypes
  <2> QED BY <2>1, <2>2, <2>3 DEF Reading!vars
<1>7. CASE Push
  <2>1. Wiki' \in [Gets -> Answers]
    BY WikiTypeNext
  <2>2. State' = State /\ Reply' = Reply
    BY <1>7 DEF Push, State, Reply
  <2>3. \A g \in Gets : ResponseAt(g, rev[g])' = ResponseAt(g, rev[g])
    <3>1. ASSUME NEW g \in Gets
          PROVE  ContentAt(page[g], rev[g])' = ContentAt(page[g], rev[g])
      BY <1>7, TypeParts, PushKeepsContent DEF Push, RevTypes
    <3> QED BY <1>7, <3>1 DEF Push, ResponseAt
  <2>4. Seen' = Seen
    BY <1>7, <2>3 DEF Push, Seen
  <2>5. Reading!Change
    BY <2>1, <2>2, <2>4 DEF Reading!Change
  <2> QED BY <2>5 DEF Reading!Next
<1>8. ASSUME UNCHANGED <<log, mutex, handlerVars>> PROVE UNCHANGED Reading!vars
  <2>1. Wiki' = Wiki /\ \A h, i : ResponseAt(h, i)' = ResponseAt(h, i)
    BY <1>8, WikiFrame
  <2> QED BY <1>8, <2>1 DEF State, Seen, Reply, Reading!vars
<1> QED BY <1>1, <1>2, <1>3, <1>4, <1>5, <1>6, <1>7, <1>8
        DEF Next, Handle, LookupReturns, Loop, vars, Reading!Next

(* GET implements atomic reads, whatever is pushed while a request waits,  *)
(* reads, looks up or goes away (get.rs:11-33, git_storage/mod.rs:24-60).  *)
THEOREM Atomic == Spec => ReadsAreAtomic
<1>1. TypeOK /\ Init => Reading!Init
  <2> SUFFICES ASSUME TypeOK, Init PROVE Reading!Init
    OBVIOUS
  <2>1. Wiki \in [Gets -> Answers]
    BY WikiType
  <2>2. State = [g \in Gets |-> "new"]
    BY DEF Init, State
  <2>3. Seen = [g \in Gets |-> Bare("none")] /\ Reply = [g \in Gets |-> Bare("none")]
    BY DEF Init, Seen, Reply, Bare
  <2> QED BY <2>1, <2>2, <2>3 DEF Reading!Init
<1>2. TypeOK /\ ReadInv /\ TypeOK' /\ [Next]_vars => [Reading!Next]_(Reading!vars)
  BY ReadingStep
<1> QED BY <1>1, <1>2, TypeCorrect, ReadsKnown, PTL
        DEF Spec, ReadsAreAtomic, Reading!Spec

-----------------------------------------------------------------------------
(* The handlers use the client as its contract says: one call per request, *)
(* issued once, which comes back once, with nothing but the end of the     *)
(* handler to cut it short (get.rs:18-25, kad_client.rs:170-191).  So an   *)
(* event loop that implements the contract can take its place.             *)
THEOREM ContractIsKept == Spec => KadClient!Spec
<1>1. Init => KadClient!Init
  BY DEF Init
<1>2. [Next]_vars => [KadClient!Next]_(KadClient!vars)
  <2> SUFFICES ASSUME [Next]_vars PROVE [KadClient!Next]_(KadClient!vars)
    OBVIOUS
  <2>1. ASSUME NEW g \in Gets, AskProviders(g) PROVE KadClient!Issue(g)
    BY <2>1 DEF AskProviders
  <2>2. ASSUME NEW g \in Gets, LookupReturns(g)
        PROVE  \E o \in KadClient!Returned : KadClient!Return(g, o)
    BY <2>2 DEF LookupReturns
  <2>3. ASSUME NEW g \in Gets, CancelAsking(g)
        PROVE  KadClient!Return(g, "timeout") \/ UNCHANGED callVars
    BY <2>3 DEF CancelAsking
  <2>4. "timeout" \in KadClient!Returned
    BY DEF KadClient!Returned
  <2>5. ASSUME NEW g \in Gets,
               \/ Arrive(g) \/ ResolveHead(g) \/ ServePage(g)
               \/ ServeMiss(g) \/ CancelQueued(g)
        PROVE  UNCHANGED callVars
    BY <2>5 DEF Arrive, ResolveHead, ServePage, ServeMiss, CancelQueued
  <2>6. CASE Loop
    BY <2>6 DEF Loop, KadClient!Next
  <2>7. CASE Push \/ UNCHANGED vars
    BY <2>7 DEF Push, vars, callVars, KadClient!vars
  <2> QED BY <2>1, <2>2, <2>3, <2>4, <2>5, <2>6, <2>7
          DEF Next, Handle, KadClient!Next, KadClient!vars, callVars
<1> QED BY <1>1, <1>2, PTL DEF Spec, KadClient!Spec
=============================================================================
