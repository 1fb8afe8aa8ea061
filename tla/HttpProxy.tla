------------------------------ MODULE HttpProxy ------------------------------
(***************************************************************************)
(* The HTTP handler of src/protocols/http.c, run by several threads at     *)
(* once, with connection_handle's address check before it and the response *)
(* cache of Cache behind it.  A step ends where the handler blocks on a    *)
(* socket or takes the cache's mutex: between a miss and the store of the  *)
(* answer other handlers look up and store, and origins change.            *)
(*                                                                         *)
(* A request is a record; one recv may return less than all of it.  The    *)
(* users and the filters do not change while handlers run, so that their   *)
(* checks are one step.  The CONNECT tunnel is the loop of Relay and is    *)
(* reduced to its end here.  Bytes are units of the transfer buffer.       *)
(***************************************************************************)
EXTENDS Naturals, Sequences, FiniteSets

CONSTANTS Handlers,        \* threads that run handlers
          Requests,        \* [client, method, url, header, user]
          Configs,         \* [auth, filtering, caching]
          BlockedClients,  \* filter_check_ip refuses these
          BlockedUrls,     \* filter_check_url refuses these
          UrlHost,         \* the host an absolute URL names, NULL in others
          Urls, Hosts,
          BufferSize,      \* BUFFER_SIZE
          AnswerLen,       \* the length of a complete answer
          MaxVersion,      \* bound on the changes of the origins' content
          MaxRequests,     \* bound on the requests
          Buckets, UrlHash, MaxSize, Ttl, Times, NULL    \* see Cache

ASSUME BufferAssumption == {BufferSize, AnswerLen} \subseteq Nat \ {0}
ASSUME RequestAssumption ==
    \A r \in Requests : DOMAIN r = {"client", "method", "url", "header", "user"} /\ r.url \in Urls

VARIABLES state, chain, lru, entry, total_size, now, latest, recency  \* Cache

VARIABLES
    config,      \* g_config, fixed at start
    pc,          \* where each handler is
    req,         \* the request it handles
    host,        \* the host it goes to, NULL for an uninitialised one: any host
    hostent,     \* gethostbyname's answer, which all threads share
    peer,        \* the host the handler is connected to
    raced,       \* history: another lookup came between the lookup and the connect
    ver,         \* the version the origin answers with
    forwarded,   \* bytes_received: bytes of the answer sent on to the client
    cap,         \* response_capacity, 0 without a response_buffer
    size,        \* response_size
    origin,      \* the current version of the origins' content
    served,      \* number of requests accepted
    overtaken    \* history: another handler stored this URL since the request left

Answers == [url : Urls, ver : 1..MaxVersion, len : 1..AnswerLen]
AnswerSize == [b \in Answers |-> b.len]

ASSUME CacheAssumption ==
    /\ MaxVersion \in Nat \ {0}
    /\ UrlHash \in [Urls -> Buckets] /\ {MaxSize, Ttl} \subseteq Nat
    /\ Times \subseteq Nat /\ Times # {}
    /\ NULL \notin [body : Answers, size : Nat, expiry : Nat]

Store == INSTANCE Cache WITH Keys <- Urls, Bodies <- Answers, SizeOf <- AnswerSize,
                             Hash <- UrlHash, Ttls <- {Ttl}

cacheVars == <<state, chain, lru, entry, total_size, now, latest, recency>>
dialVars == <<hostent, peer, raced>>
answerVars == <<ver, forwarded, cap, size, overtaken>>
vars == <<cacheVars, config, pc, req, host, dialVars, answerVars, origin, served>>

Places == {"idle", "recv", "checks", "lookup", "resolve", "connect", "tunnel", "send", "fetch", "store"}
Parts == {"fragment", "line", "cut", "all"}

Init ==
    /\ Store!Init
    /\ config \in Configs
    /\ pc = [h \in Handlers |-> "idle"]
    /\ req = [h \in Handlers |-> NULL] /\ host = [h \in Handlers |-> NULL]
    /\ hostent = NULL /\ peer = [h \in Handlers |-> NULL]
    /\ raced = [h \in Handlers |-> FALSE]
    /\ overtaken = [h \in Handlers |-> FALSE]
    /\ ver = [h \in Handlers |-> 0] /\ forwarded = [h \in Handlers |-> 0]
    /\ cap = [h \in Handlers |-> 0] /\ size = [h \in Handlers |-> 0]
    /\ origin = 1
    /\ served = 0

\* Handler h is at place p and goes to place q.
Go(h, p, q) == pc[h] = p /\ pc' = [pc EXCEPT ![h] = q]

\* The handler returns; what it kept on its stack is gone.
Leave(h, p) ==
    /\ Go(h, p, "idle")
    /\ req' = [req EXCEPT ![h] = NULL] /\ host' = [host EXCEPT ![h] = NULL]
    /\ peer' = [peer EXCEPT ![h] = NULL] /\ raced' = [raced EXCEPT ![h] = FALSE]
    /\ UNCHANGED hostent
    /\ ver' = [ver EXCEPT ![h] = 0] /\ forwarded' = [forwarded EXCEPT ![h] = 0]
    /\ cap' = [cap EXCEPT ![h] = 0] /\ size' = [size EXCEPT ![h] = 0]

Return(h, p) == Leave(h, p) /\ overtaken' = [overtaken EXCEPT ![h] = FALSE]

-----------------------------------------------------------------------------
(* The environment: main sets up the cache, the clock and origins change.  *)

StartCache ==
    /\ config.caching
    /\ Store!CacheInit
    /\ UNCHANGED <<config, pc, req, host, dialVars, answerVars, origin, served>>

Started == config.caching => state # "none"

ClockChanges ==
    /\ Store!ClockChanges
    /\ UNCHANGED <<config, pc, req, host, dialVars, answerVars, origin, served>>

OriginChanges ==
    /\ origin < MaxVersion
    /\ origin' = origin + 1
    /\ UNCHANGED <<cacheVars, config, pc, req, host, dialVars, answerVars, served>>

-----------------------------------------------------------------------------
(* connection_handle and the request.                                      *)

Accept(h, r) ==
    /\ Started /\ served < MaxRequests
    /\ ~(config.filtering /\ r.client \in BlockedClients)
    /\ Go(h, "idle", "recv")
    /\ req' = [req EXCEPT ![h] = r]
    /\ served' = served + 1
    /\ UNCHANGED <<cacheVars, config, host, dialVars, answerVars, origin>>

AcceptBlocked(h, r) ==
    /\ Started /\ served < MaxRequests
    /\ config.filtering /\ r.client \in BlockedClients
    /\ pc[h] = "idle"
    /\ served' = served + 1
    /\ UNCHANGED <<cacheVars, config, pc, req, host, dialVars, answerVars, origin>>

\* The host http_parse_request finds in what was received of the request: the
\* Host header, else the one an absolute URL names, else NULL, when host is
\* left unwritten.  A Host header that is cut short hides the URL's host, and
\* the URL of a CONNECT is not absolute.
ParsedHost(r, part) ==
    CASE part = "all" /\ r.header # NULL -> r.header
      [] part = "cut" /\ r.header # NULL -> NULL
      [] OTHER -> IF r.method = "CONNECT" THEN NULL ELSE UrlHost[r.url]

\* The first recv fails, or returns no complete request line: 400.
ReceiveFails(h) ==
    /\ Return(h, "recv")
    /\ UNCHANGED <<cacheVars, config, origin, served>>

Receive(h, part) ==
    /\ pc[h] = "recv" /\ part # "fragment"
    /\ Go(h, "recv", "checks")
    /\ host' = [host EXCEPT ![h] = ParsedHost(req[h], part)]
    /\ \E kept \in BOOLEAN :        \* the credentials are in what arrived
         /\ (part = "all") => kept
         /\ req' = [req EXCEPT ![h].user = @ /\ kept]
    /\ UNCHANGED <<cacheVars, config, dialVars, answerVars, origin, served>>

-----------------------------------------------------------------------------
(* Authentication and filtering.                                           *)

\* Faulty variant: the cache is looked up before the credentials are.
AdmittedLate(h) == ~(config.filtering /\ req[h].url \in BlockedUrls)

Admitted(h) ==
    /\ config.auth => req[h].user
    /\ ~(config.filtering /\ req[h].url \in BlockedUrls)

UsesCache(h) == config.caching /\ req[h].method = "GET"

\* 407 or 403.
CheckFails(h) ==
    /\ Return(h, "checks")
    /\ ~Admitted(h)
    /\ UNCHANGED <<cacheVars, config, origin, served>>

\* A CONNECT goes to the host its URL names, if that has a port.
Check(h) ==
    /\ pc[h] = "checks" /\ Admitted(h)
    /\ Go(h, "checks", IF UsesCache(h) THEN "lookup" ELSE "resolve")
    /\ IF req[h].method = "CONNECT" /\ UrlHost[req[h].url] # NULL
       THEN host' = [host EXCEPT ![h] = UrlHost[req[h].url]]
       ELSE UNCHANGED host
    /\ UNCHANGED <<cacheVars, config, req, dialVars, answerVars, origin, served>>

-----------------------------------------------------------------------------
(* The cache lookup.                                                       *)

Hit(h) ==
    /\ pc[h] = "lookup" /\ Store!GetHit(req[h].url)
    /\ Return(h, "lookup")
    /\ UNCHANGED <<config, origin, served>>

Miss(h) ==
    /\ Go(h, "lookup", "resolve")
    /\ \/ Store!GetMiss(req[h].url)
       \/ Store!GetExpired(req[h].url)
       \/ Store!GetNoMemory(req[h].url)
    /\ UNCHANGED <<config, req, host, dialVars, answerVars, origin, served>>

-----------------------------------------------------------------------------
(* The way to the origin.                                                  *)

\* The name is not found, or the connection is refused: 502.
DialFails(h) ==
    /\ Return(h, "resolve") \/ Return(h, "connect")
    /\ UNCHANGED <<cacheVars, config, origin, served>>

\* Faulty variant: a name once found is not looked up again.
ResolveOnce(h) ==
    /\ Go(h, "resolve", "connect")
    /\ hostent' = IF hostent = NULL THEN host[h] ELSE hostent
    /\ raced' = [g \in Handlers |-> raced[g] \/ (g # h /\ pc[g] = "connect")]
    /\ UNCHANGED <<cacheVars, config, req, host, peer, answerVars, origin, served>>

\* gethostbyname overwrites the answer of whoever looked up last.
Resolve(h) ==
    /\ Go(h, "resolve", "connect")
    /\ hostent' \in (IF host[h] = NULL THEN Hosts ELSE {host[h]})
    /\ raced' = [g \in Handlers |-> raced[g] \/ (g # h /\ pc[g] = "connect")]
    /\ UNCHANGED <<cacheVars, config, req, host, peer, answerVars, origin, served>>

Connect(h) ==
    /\ pc[h] = "connect"
    /\ Go(h, "connect", IF req[h].method = "CONNECT" THEN "tunnel" ELSE "send")
    /\ peer' = [peer EXCEPT ![h] = hostent]
    /\ UNCHANGED <<cacheVars, config, req, host, hostent, raced, answerVars, origin, served>>

TunnelEnds(h) ==
    /\ Return(h, "tunnel")
    /\ UNCHANGED <<cacheVars, config, origin, served>>

SendFails(h) ==
    /\ Return(h, "send")
    /\ UNCHANGED <<cacheVars, config, origin, served>>

\* Faulty variant: a connection kept open from before answers with what the
\* origin had then.
SendReadsOld(h) ==
    /\ Go(h, "send", "fetch")
    /\ \E v \in 1..origin : ver' = [ver EXCEPT ![h] = v]
    /\ cap' = [cap EXCEPT ![h] = IF UsesCache(h) THEN BufferSize ELSE 0]
    /\ UNCHANGED <<cacheVars, config, req, host, dialVars, forwarded, size, overtaken, origin, served>>

\* The origin takes the request and will answer with what it has now; the
\* buffer for the cache may fail to be allocated.
Send(h) ==
    /\ Go(h, "send", "fetch")
    /\ ver' = [ver EXCEPT ![h] = origin]
    /\ \E c \in {0, BufferSize} :
         /\ (c # 0) => UsesCache(h)
         /\ cap' = [cap EXCEPT ![h] = c]
    /\ UNCHANGED <<cacheVars, config, req, host, dialVars, forwarded, size, overtaken, origin, served>>

-----------------------------------------------------------------------------
(* The answer.                                                             *)

\* Faulty variant: the buffer grows only once it is too small already.
GrownLate(h, n) == IF size[h] > cap[h] THEN 2 * cap[h] ELSE cap[h]

Grown(h, n) == IF size[h] + n > cap[h] THEN 2 * cap[h] ELSE cap[h]

\* n bytes arrive, are sent to the client and then kept for the cache; when
\* the buffer has to grow, realloc may fail and the buffer is given up.
Chunk(h, n) ==
    /\ pc[h] = "fetch"
    /\ forwarded[h] + n <= AnswerLen
    /\ forwarded' = [forwarded EXCEPT ![h] = @ + n]
    /\ IF cap[h] = 0 THEN UNCHANGED <<cap, size>>
       ELSE \/ /\ cap' = [cap EXCEPT ![h] = Grown(h, n)]
               /\ size' = [size EXCEPT ![h] = @ + n]
            \/ /\ size[h] + n > cap[h]
               /\ cap' = [cap EXCEPT ![h] = 0]
               /\ UNCHANGED size
    /\ UNCHANGED <<cacheVars, config, pc, req, host, dialVars, ver, overtaken, origin, served>>

\* The origin closes, or fails, whether its answer is complete or not.
FetchEnds(h) ==
    /\ Go(h, "fetch", "store")
    /\ UNCHANGED <<cacheVars, config, req, host, dialVars, answerVars, origin, served>>

\* The client is gone: send_all fails and the loop ends.
Undelivered(h, n) ==
    /\ forwarded[h] + n <= AnswerLen
    /\ Go(h, "fetch", "store")
    /\ UNCHANGED <<cacheVars, config, req, host, dialVars, answerVars, origin, served>>

Body(h) == [url |-> req[h].url, ver |-> ver[h], len |-> size[h]]

StoreNothing(h) ==
    /\ cap[h] = 0 \/ size[h] = 0
    /\ Return(h, "store")
    /\ UNCHANGED <<cacheVars, config, origin, served>>

\* Store the answer as it is and return; handlers still fetching the same URL
\* have been overtaken.
StoreAnswer(h) ==
    /\ pc[h] = "store" /\ cap[h] > 0 /\ size[h] > 0
    /\ \/ Store!PutInsert(req[h].url, Body(h), Ttl)
       \/ Store!PutUpdate(req[h].url, Body(h), Ttl)
       \/ Store!PutRefused(req[h].url, Body(h))
       \/ Store!PutNoMemory(req[h].url, Body(h))
    /\ Leave(h, "store")
    /\ overtaken' = [g \in Handlers |->
                       /\ g # h
                       /\ overtaken[g] \/ (pc[g] \in {"fetch", "store"} /\ req[g].url = req[h].url)]
    /\ UNCHANGED <<config, origin, served>>

-----------------------------------------------------------------------------
Fetch(h) ==
    \/ \E n \in 1..BufferSize : Chunk(h, n) \/ Undelivered(h, n)
    \/ FetchEnds(h)

Handle(h) ==
    \/ ReceiveFails(h) \/ \E part \in Parts : Receive(h, part)
    \/ CheckFails(h) \/ Check(h)
    \/ Hit(h) \/ Miss(h)
    \/ DialFails(h) \/ Resolve(h) \/ Connect(h) \/ TunnelEnds(h) \/ SendFails(h) \/ Send(h)
    \/ Fetch(h)
    \/ StoreNothing(h) \/ StoreAnswer(h)

\* No more requests.
Quiet == served = MaxRequests /\ (\A h \in Handlers : pc[h] = "idle") /\ UNCHANGED vars

Next ==
    \/ StartCache \/ ClockChanges \/ OriginChanges
    \/ \E h \in Handlers, r \in Requests : Accept(h, r) \/ AcceptBlocked(h, r)
    \/ \E h \in Handlers : Handle(h)
    \/ Quiet

\* Nothing is claimed to happen: peers may stay silent and recv has no timeout.
Spec == Init /\ [][Next]_vars

-----------------------------------------------------------------------------
(* Properties.                                                             *)

\* Every variable of a handler keeps its type, and a handler that has not
\* started to fetch has no answer.
TypeOK ==
    /\ config \in Configs
    /\ pc \in [Handlers -> Places]
    /\ \A h \in Handlers : (req[h] = NULL) <=> (pc[h] = "idle")
    /\ host \in [Handlers -> Hosts \cup {NULL}]
    /\ peer \in [Handlers -> Hosts \cup {NULL}] /\ hostent \in Hosts \cup {NULL}
    /\ {overtaken, raced} \subseteq [Handlers -> BOOLEAN]
    /\ ver \in [Handlers -> 0..MaxVersion]
    /\ forwarded \in [Handlers -> 0..AnswerLen] /\ size \in [Handlers -> 0..AnswerLen]
    /\ cap \in [Handlers -> Nat]
    /\ origin \in 1..MaxVersion
    /\ served \in 0..MaxRequests
    /\ \A h \in Handlers : (ver[h] # 0) <=> (pc[h] \in {"fetch", "store"})

\* The copy kept for the cache never outgrows its buffer, however the answer
\* is cut into chunks, and is byte for byte what this client was sent, so that
\* a hit hands out nothing its first reader did not get.
CopyIsForwarded ==
    \A h \in Handlers : (cap[h] > 0) => (size[h] = forwarded[h] /\ size[h] <= cap[h])

\* gethostbyname keeps its answer where other threads overwrite it.  A handler
\* whose request names a host is connected to this host, unless another lookup
\* came between its own lookup and its connect.
RightOrigin ==
    \A h \in Handlers :
        (peer[h] # NULL /\ host[h] # NULL /\ ~raced[h]) => (peer[h] = host[h])

\* No content for those who may not have it: a step that gives a handler's
\* client a cached answer, bytes of the origin or a tunnel is for a client that
\* the address filter admits, with the credentials asked for, and a URL that
\* is not blocked.
ContentIsGuarded ==
    [][\A h \in Handlers :
          (Hit(h) \/ (Connect(h) /\ req[h].method = "CONNECT") \/ forwarded'[h] > forwarded[h]) =>
             /\ config.auth => req[h].user
             /\ config.filtering => req[h].url \notin BlockedUrls /\ req[h].client \notin BlockedClients
      ]_vars

\* Two handlers may miss the same URL and store in either order.  A version in
\* the cache gives way to an older one only when the fetches overlapped: the
\* storing handler's request had left before the newer version was stored.
OlderOnlyIfOvertaken ==
    [][\A u \in Urls :
          (entry[u] # NULL /\ entry'[u] # NULL /\ entry'[u].body.ver < entry[u].body.ver) =>
             \E h \in Handlers : StoreAnswer(h) /\ req[h].url = u /\ overtaken[h]]_vars

\* "Cache the response if enabled and successful": what is cached is complete.
CompleteOnly == \A u \in Urls : (entry[u] # NULL) => (entry[u].body.len = AnswerLen)
==============================================================================
