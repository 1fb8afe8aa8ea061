--------------------------- MODULE HttpProxyProofs ---------------------------
(***************************************************************************)
(* For every number of handlers, every set of requests and every buffer     *)
(* size: the copy of an answer, the way to the origin, who gets content,    *)
(* and the order in which answers reach the cache.                         *)
(***************************************************************************)
EXTENDS HttpProxy, TLAPS

CP == INSTANCE CacheProofs WITH Keys <- Urls, Bodies <- Answers, SizeOf <- AnswerSize,
                                Hash <- UrlHash, Ttls <- {Ttl}

Fetching == {"fetch", "store"}
Connected == {"tunnel", "send"} \cup Fetching
Checked == {"lookup", "resolve", "connect"} \cup Connected

\* One value per handler.
HandlerTypes ==
    /\ pc \in [Handlers -> Places]
    /\ DOMAIN req = Handlers /\ DOMAIN host = Handlers /\ DOMAIN peer = Handlers
    /\ raced \in [Handlers -> BOOLEAN] /\ overtaken \in [Handlers -> BOOLEAN]
    /\ ver \in [Handlers -> Nat] /\ forwarded \in [Handlers -> Nat]
    /\ cap \in [Handlers -> Nat] /\ size \in [Handlers -> Nat]
    /\ origin \in 1..MaxVersion

\* A handler starts to fetch with an empty copy, and a buffer that is there has
\* room for one recv at least.
CopyInv ==
    \A h \in Handlers :
        /\ (pc[h] \notin Fetching) => (forwarded[h] = 0 /\ size[h] = 0 /\ cap[h] = 0)
        /\ (cap[h] > 0) => (cap[h] >= BufferSize)

\* gethostbyname's answer is the handler's own until someone else looks up.
RouteInv ==
    \A h \in Handlers :
        /\ (peer[h] # NULL) => (pc[h] \in Connected)
        /\ (pc[h] = "connect" /\ host[h] # NULL /\ ~raced[h]) => (hostent = host[h])

\* A handler that is past the checks has passed them.
GuardInv ==
    \A h \in Handlers :
        /\ (pc[h] # "idle") =>
              /\ DOMAIN req[h] = {"client", "method", "url", "header", "user"} /\ req[h].url \in Urls
              /\ ~(config.filtering /\ req[h].client \in BlockedClients)
        /\ (pc[h] \in Checked) => Admitted(h)

\* What is fetched is a part of an answer some origin gives.
AnswerInv ==
    \A h \in Handlers :
        /\ forwarded[h] <= AnswerLen
        /\ (pc[h] \in Fetching) => ver[h] \in 1..MaxVersion

\* A handler that was not overtaken fetches nothing older than what is cached.
VersionInv ==
    /\ \A u \in Urls : (entry[u] # NULL) => (entry[u].body.ver \in Nat /\ entry[u].body.ver <= origin)
    /\ \A h \in Handlers : (pc[h] \in Fetching) =>
          /\ ver[h] <= origin
          /\ (entry[req[h].url] # NULL /\ ~overtaken[h]) =>
                (entry[req[h].url].body.ver <= ver[h])

HttpInv ==
    /\ CP!CacheInv
    /\ HandlerTypes /\ CopyInv /\ CopyIsForwarded /\ RouteInv /\ RightOrigin
    /\ GuardInv /\ AnswerInv /\ VersionInv

-----------------------------------------------------------------------------
(* The kinds of steps, as far as handlers are concerned.                   *)

\* No handler moves.
Rest == UNCHANGED <<config, pc, req, host, dialVars, answerVars>>

\* Handler h returns.
Departs(h) == UNCHANGED config /\ \E p \in Places : Leave(h, p)

\* Handler h goes past the cache, or from the fetch loop to the store.
Passes(h) ==
    /\ Go(h, "lookup", "resolve") \/ Go(h, "fetch", "store")
    /\ UNCHANGED <<config, req, host, dialVars, answerVars>>

\* Every step is of one of these kinds.
LEMMA Kinds ==
    ASSUME [Next]_vars
    PROVE  \/ Rest
           \/ \E h \in Handlers :
                 \/ Departs(h) \/ Passes(h)
                 \/ \E r \in Requests : Accept(h, r)
                 \/ \E part \in Parts : Receive(h, part)
                 \/ Check(h) \/ Resolve(h) \/ Connect(h) \/ Send(h)
                 \/ \E n \in 1..BufferSize : Chunk(h, n)
<1>1. CASE StartCache \/ ClockChanges \/ OriginChanges \/ Quiet \/ UNCHANGED vars
    BY <1>1 DEF StartCache, ClockChanges, OriginChanges, Quiet, Rest, vars, dialVars, answerVars
<1>2. ASSUME NEW h \in Handlers, NEW r \in Requests, Accept(h, r) \/ AcceptBlocked(h, r)
      PROVE  Rest \/ Accept(h, r)
    BY <1>2 DEF AcceptBlocked, Rest
<1>3. ASSUME NEW h \in Handlers, Handle(h)
      PROVE  \/ Departs(h) \/ Passes(h)
             \/ \E part \in Parts : Receive(h, part)
             \/ Check(h) \/ Resolve(h) \/ Connect(h) \/ Send(h)
             \/ \E n \in 1..BufferSize : Chunk(h, n)
  <2>1. CASE \/ ReceiveFails(h) \/ CheckFails(h) \/ Hit(h) \/ DialFails(h) \/ TunnelEnds(h)
             \/ SendFails(h) \/ StoreNothing(h) \/ StoreAnswer(h)
    <3>1. UNCHANGED config /\ \E p \in Places : Leave(h, p)
        BY <2>1 DEF ReceiveFails, CheckFails, Hit, DialFails, TunnelEnds, SendFails, StoreNothing,
                    StoreAnswer, Return, Places
    <3>2. QED  BY <3>1 DEF Departs
  <2>2. CASE Miss(h)
      BY <2>2 DEF Miss, Passes
  <2>3. CASE FetchEnds(h) \/ \E n \in 1..BufferSize : Undelivered(h, n)
      BY <2>3 DEF FetchEnds, Undelivered, Passes
  <2>4. QED  BY <1>3, <2>1, <2>2, <2>3 DEF Handle, Fetch
<1>4. QED  BY <1>1, <1>2, <1>3 DEF Next

-----------------------------------------------------------------------------
(* The cache's part of a step.                                             *)

\* The constants are such that Cache's own assumptions hold.
LEMMA CacheConstants ==
    /\ UrlHash \in [Urls -> Buckets]
    /\ AnswerSize \in [Answers -> Nat] /\ MaxSize \in Nat
    /\ {Ttl} \subseteq Nat /\ Times \subseteq Nat /\ Times # {}
    /\ NULL \notin [body : Answers, size : Nat, expiry : Nat]
  BY CacheAssumption, BufferAssumption DEF AnswerSize, Answers

LEMMA SamePieces ==
    /\ Store!Evictions = CP!Evictions
    /\ cacheVars = CP!vars
    /\ \A k : (Store!Found(k) <=> CP!Found(k)) /\ (Store!Touch(k) <=> CP!Touch(k))
    /\ \A k : Store!Used(k) <=> CP!Used(k)
    /\ \A k, x : Store!Stored(k, x) <=> CP!Stored(k, x)
    /\ \A b, t : Store!NewEntry(b, t) = CP!NewEntry(b, t)
<1>1. Store!Evictions = CP!Evictions
    BY DEF Store!Evictions, CP!Evictions, Store!Contents, CP!Contents, Store!Unlink, CP!Unlink,
           Store!Without, CP!Without, Store!Position, CP!Position, Store!RemoveAt, CP!RemoveAt
<1>2. cacheVars = CP!vars
    BY DEF cacheVars, CP!vars
<1>3. \A k : (Store!Found(k) <=> CP!Found(k)) /\ (Store!Touch(k) <=> CP!Touch(k))
    BY DEF Store!Found, CP!Found, Store!Touch, CP!Touch, Store!Without, CP!Without,
           Store!Position, CP!Position, Store!RemoveAt, CP!RemoveAt
<1>4. \A k : Store!Used(k) <=> CP!Used(k)
    BY DEF Store!Used, CP!Used, Store!Kept, CP!Kept
<1>5. \A k, x : Store!Stored(k, x) <=> CP!Stored(k, x)
    BY DEF Store!Stored, CP!Stored
<1>6. \A b, t : Store!NewEntry(b, t) = CP!NewEntry(b, t)
    BY DEF Store!NewEntry, CP!NewEntry
<1>7. QED  BY <1>1, <1>2, <1>3, <1>4, <1>5, <1>6

LEMMA SameSteps ==
    /\ Store!Init => CP!Init
    /\ (Store!CacheInit => CP!CacheInit) /\ (Store!ClockChanges => CP!ClockChanges)
    /\ \A k : /\ Store!GetMiss(k) => CP!GetMiss(k)
              /\ Store!GetExpired(k) => CP!GetExpired(k)
              /\ Store!GetHit(k) => CP!GetHit(k)
              /\ Store!GetNoMemory(k) => CP!GetNoMemory(k)
    /\ \A k, b : /\ Store!PutRefused(k, b) => CP!PutRefused(k, b)
                 /\ Store!PutNoMemory(k, b) => CP!PutNoMemory(k, b)
    /\ \A k, b, t : /\ Store!PutUpdate(k, b, t) => CP!PutUpdate(k, b, t)
                    /\ Store!PutInsert(k, b, t) => CP!PutInsert(k, b, t)
<1>1. Store!Init => CP!Init
    BY DEF Store!Init, CP!Init
<1>2. (Store!CacheInit => CP!CacheInit) /\ (Store!ClockChanges => CP!ClockChanges)
    BY DEF Store!CacheInit, CP!CacheInit, Store!ClockChanges, CP!ClockChanges
<1>3. ASSUME NEW k
      PROVE  /\ Store!GetMiss(k) => CP!GetMiss(k)
             /\ Store!GetExpired(k) => CP!GetExpired(k)
             /\ Store!GetHit(k) => CP!GetHit(k)
             /\ Store!GetNoMemory(k) => CP!GetNoMemory(k)
  <2>1. (Store!Expired(k) <=> CP!Expired(k)) /\ (Store!Removed <=> CP!Removed)
      BY DEF Store!Expired, CP!Expired, Store!Removed, CP!Removed, Store!Kept, CP!Kept
  <2>2. Store!GetMiss(k) => CP!GetMiss(k)
      BY SamePieces DEF Store!GetMiss, CP!GetMiss
  <2>3. Store!Becomes(Store!Unlink(Store!Contents, k)) <=> CP!Becomes(CP!Unlink(CP!Contents, k))
      BY DEF Store!Becomes, CP!Becomes, Store!Contents, CP!Contents, Store!Unlink, CP!Unlink,
             Store!Without, CP!Without, Store!Position, CP!Position, Store!RemoveAt, CP!RemoveAt
  <2>4. Store!GetExpired(k) => CP!GetExpired(k)
      BY <2>1, <2>3, SamePieces DEF Store!GetExpired, CP!GetExpired
  <2>5. /\ Store!GetHit(k) => CP!GetHit(k)
        /\ Store!GetNoMemory(k) => CP!GetNoMemory(k)
      BY <2>1, SamePieces DEF Store!GetHit, CP!GetHit, Store!GetNoMemory, CP!GetNoMemory
  <2>6. QED  BY <2>2, <2>4, <2>5
<1>4. ASSUME NEW k, NEW b, NEW t
      PROVE  /\ Store!PutRefused(k, b) => CP!PutRefused(k, b)
             /\ Store!PutNoMemory(k, b) => CP!PutNoMemory(k, b)
             /\ Store!PutUpdate(k, b, t) => CP!PutUpdate(k, b, t)
             /\ Store!PutInsert(k, b, t) => CP!PutInsert(k, b, t)
  <2>1. /\ Store!Admissible(AnswerSize[b]) <=> CP!Admissible(AnswerSize[b])
        /\ Store!ReplaceSize(k, AnswerSize[b]) <=> CP!ReplaceSize(k, AnswerSize[b])
        /\ Store!Removed <=> CP!Removed
      BY DEF Store!Admissible, CP!Admissible, Store!ReplaceSize, CP!ReplaceSize,
             Store!Removed, CP!Removed, Store!Kept, CP!Kept
  <2>2. \A n : /\ Store!Stops(n, AnswerSize[b]) <=> CP!Stops(n, AnswerSize[b])
               /\ Store!Becomes(Store!Evictions[n]) <=> CP!Becomes(CP!Evictions[n])
      BY SamePieces DEF Store!Stops, CP!Stops, Store!MayStop, CP!MayStop, Store!Becomes, CP!Becomes
  <2>3. Store!PutRefused(k, b) => CP!PutRefused(k, b)
      BY <2>1, SamePieces DEF Store!PutRefused, CP!PutRefused
  <2>4. Store!PutNoMemory(k, b) => CP!PutNoMemory(k, b)
      BY <2>1, <2>2, SamePieces DEF Store!PutNoMemory, CP!PutNoMemory
  <2>5. Store!PutUpdate(k, b, t) => CP!PutUpdate(k, b, t)
      BY <2>1, SamePieces DEF Store!PutUpdate, CP!PutUpdate
  <2>6. Store!PutInsert(k, b, t) => CP!PutInsert(k, b, t)
      BY <2>1, <2>2, SamePieces DEF Store!PutInsert, CP!PutInsert
  <2>7. QED  BY <2>3, <2>4, <2>5, <2>6
<1>5. QED  BY <1>1, <1>2, <1>3, <1>4

-----------------------------------------------------------------------------
(* The initial states.                                                     *)

LEMMA InitHttp ==
    ASSUME Init
    PROVE  HttpInv
<1> USE DEF Init, Store!Init
<1>0. CP!CacheInv  BY SameSteps, CacheConstants, CP!InitCache
<1>1. HandlerTypes  BY CacheAssumption DEF HandlerTypes, Places
<1>2. CopyInv /\ CopyIsForwarded  BY DEF CopyInv, CopyIsForwarded, Fetching
<1>3. RouteInv /\ RightOrigin  BY DEF RouteInv, RightOrigin
<1>4. GuardInv  BY DEF GuardInv, Checked, Connected, Fetching
<1>5. VersionInv  BY DEF VersionInv, Fetching
<1>6. AnswerInv  BY BufferAssumption DEF AnswerInv, Fetching
<1>7. QED  BY <1>0, <1>1, <1>2, <1>3, <1>4, <1>5, <1>6 DEF HttpInv

-----------------------------------------------------------------------------
(* What a step does to the cache.                                          *)

\* An answer that reaches the cache is one some origin gives.
LEMMA BodyIsAnswer ==
    ASSUME HttpInv, NEW h \in Handlers, StoreAnswer(h)
    PROVE  Body(h) \in Answers /\ req[h].url \in Urls
<1>1. pc[h] = "store" /\ cap[h] > 0 /\ size[h] > 0
    BY DEF StoreAnswer
<1>2. req[h].url \in Urls
    BY <1>1 DEF HttpInv, GuardInv
<1>3. ver[h] \in 1..MaxVersion /\ forwarded[h] <= AnswerLen
    BY <1>1 DEF HttpInv, AnswerInv, Fetching
<1>4. size[h] = forwarded[h] /\ size[h] \in Nat
    BY <1>1 DEF HttpInv, CopyIsForwarded, HandlerTypes
<1>5. size[h] \in 1..AnswerLen
    BY <1>1, <1>3, <1>4, BufferAssumption
<1>6. QED  BY <1>2, <1>3, <1>5 DEF Body, Answers

\* Every step of the handlers is a step of the cache or leaves it alone.
LEMMA CacheStep ==
    ASSUME HttpInv, [Next]_vars
    PROVE  [CP!Next]_(CP!vars)
<1>1. ASSUME UNCHANGED cacheVars
      PROVE  UNCHANGED CP!vars
    BY <1>1 DEF cacheVars, CP!vars
<1>2. CASE StartCache \/ ClockChanges
    BY <1>2, SameSteps DEF StartCache, ClockChanges, CP!Next
<1>3. CASE OriginChanges \/ Quiet \/ UNCHANGED vars
    BY <1>1, <1>3 DEF OriginChanges, Quiet, vars
<1>4. ASSUME NEW h \in Handlers, NEW r \in Requests, Accept(h, r) \/ AcceptBlocked(h, r)
      PROVE  UNCHANGED CP!vars
    BY <1>1, <1>4 DEF Accept, AcceptBlocked
<1>5. ASSUME NEW h \in Handlers, Hit(h) \/ Miss(h)
      PROVE  CP!Next
  <2>1. req[h].url \in Urls
      BY <1>5 DEF Hit, Miss, Go, HttpInv, GuardInv
  <2>2. CP!Get(req[h].url)
      BY <1>5, SameSteps DEF Hit, Miss, CP!Get
  <2>3. QED  BY <2>1, <2>2 DEF CP!Next
<1>6. ASSUME NEW h \in Handlers, StoreAnswer(h)
      PROVE  CP!Next
  <2>1. Body(h) \in Answers /\ req[h].url \in Urls /\ Ttl \in {Ttl}
      BY <1>6, BodyIsAnswer
  <2>2. \/ CP!PutInsert(req[h].url, Body(h), Ttl)
        \/ CP!PutUpdate(req[h].url, Body(h), Ttl)
        \/ CP!PutRefused(req[h].url, Body(h))
        \/ CP!PutNoMemory(req[h].url, Body(h))
      BY <1>6, SameSteps DEF StoreAnswer
  <2>3. QED  BY <2>1, <2>2 DEF CP!Next
<1>7. ASSUME NEW h \in Handlers, Handle(h), ~Hit(h), ~Miss(h), ~StoreAnswer(h)
      PROVE  UNCHANGED CP!vars
    BY <1>1, <1>7 DEF Handle, Fetch, ReceiveFails, Receive, CheckFails, Check, DialFails, Resolve,
                Connect, TunnelEnds, SendFails, Send, Chunk, Undelivered, FetchEnds, StoreNothing
<1>8. QED  BY <1>2, <1>3, <1>4, <1>5, <1>6, <1>7 DEF Next

\* A step may drop entries; only a handler that stores its answer writes one.
LEMMA EntryStep ==
    ASSUME HttpInv, [Next]_vars
    PROVE  \A u \in Urls :
              \/ entry'[u] \in {NULL, entry[u]}
              \/ \E h \in Handlers : /\ StoreAnswer(h) /\ u = req[h].url
                                    /\ entry'[u].body = Body(h)
<1> DEFINE Drops == \A u \in Urls : entry'[u] \in {NULL, entry[u]}
<1>0. CP!Sound(CP!Contents) /\ entry \in [Urls -> CP!Entries \cup {NULL}]
  <2>1. CP!Sound(CP!Contents)
      BY DEF HttpInv, CP!CacheInv
  <2>2. QED  BY <2>1, CacheConstants, CP!SoundCache
<1>1. ASSUME UNCHANGED entry
      PROVE  Drops
    BY <1>1
<1>2. ASSUME NEW h \in Handlers, Miss(h)
      PROVE  Drops
  <2>1. CASE UNCHANGED entry
      BY <2>1, <1>1
  <2>2. CASE CP!GetExpired(req[h].url)
    <3>1. entry' = [entry EXCEPT ![req[h].url] = NULL]
        BY <2>2 DEF CP!GetExpired, CP!Becomes, CP!Unlink, CP!Contents
    <3>2. QED  BY <1>0, <3>1
  <2>3. QED  BY <1>2, <2>1, <2>2, SameSteps DEF Miss, CP!GetMiss, CP!GetNoMemory
<1>3. ASSUME NEW n \in 0..Len(lru), NEW u \in Urls
      PROVE  CP!Evictions[n].entry[u] \in {NULL, entry[u]}
  <2>1. CP!Evicted(n)
      BY <1>0, CacheConstants, CP!EvictionsRight
  <2>2. QED  BY <2>1 DEF CP!Evicted
<1>4. ASSUME NEW h \in Handlers, StoreAnswer(h), NEW u \in Urls
      PROVE  \/ entry'[u] \in {NULL, entry[u]}
             \/ u = req[h].url /\ entry'[u].body = Body(h)
  <2> DEFINE k == req[h].url
             x == CP!NewEntry(Body(h), Ttl)
  <2>1. Body(h) \in Answers /\ k \in Urls /\ Ttl \in {Ttl}
      BY <1>4, BodyIsAnswer
  <2>2. x.body = Body(h)
      BY DEF CP!NewEntry
  <2>3. \/ CP!PutInsert(k, Body(h), Ttl) \/ CP!PutUpdate(k, Body(h), Ttl)
        \/ CP!PutRefused(k, Body(h)) \/ CP!PutNoMemory(k, Body(h))
      BY <1>4, SameSteps DEF StoreAnswer
  <2> HIDE DEF x
  <2>4. CASE CP!PutInsert(k, Body(h), Ttl)
    <3>1. CP!CacheInv
        BY DEF HttpInv
    <3>2. \E n \in 0..Len(lru) : CP!Evicted(n) /\ CP!Linked(CP!Evictions[n], k, x)
        BY <2>1, <2>4, <3>1, CacheConstants, CP!Insertion DEF x
    <3>3. PICK n \in 0..Len(lru) : CP!Evicted(n) /\ CP!Linked(CP!Evictions[n], k, x)
        BY <3>2
    <3>4. /\ entry' = [CP!Evictions[n].entry EXCEPT ![k] = x]
          /\ CP!Evictions[n].entry \in [Urls -> CP!Entries \cup {NULL}]
        BY <3>3 DEF CP!Linked, CP!Evicted, CP!Sound
    <3>5. entry'[u] = IF u = k THEN x ELSE CP!Evictions[n].entry[u]
        BY <3>4
    <3>6. QED  BY <1>3, <2>2, <3>5
  <2>5. CASE CP!PutUpdate(k, Body(h), Ttl)
    <3>1. entry' = [entry EXCEPT ![k] = x]
        BY <2>5 DEF CP!PutUpdate, x
    <3>2. QED  BY <1>0, <2>2, <3>1
  <2>6. CASE CP!PutRefused(k, Body(h))
      BY <2>6 DEF CP!PutRefused
  <2>7. CASE CP!PutNoMemory(k, Body(h))
    <3>1. PICK n \in 0..Len(lru) : CP!Becomes(CP!Evictions[n])
        BY <2>7 DEF CP!PutNoMemory
    <3>2. QED  BY <1>3, <3>1 DEF CP!Becomes
  <2>8. QED  BY <2>3, <2>4, <2>5, <2>6, <2>7
<1>5. CASE StartCache \/ ClockChanges \/ OriginChanges \/ Quiet \/ UNCHANGED vars
    BY <1>1, <1>5 DEF StartCache, ClockChanges, OriginChanges, Quiet, vars, cacheVars,
                      Store!CacheInit, Store!ClockChanges
<1>6. ASSUME NEW h \in Handlers, NEW r \in Requests, Accept(h, r) \/ AcceptBlocked(h, r)
      PROVE  UNCHANGED entry
    BY <1>6 DEF Accept, AcceptBlocked, cacheVars
<1>7. ASSUME NEW h \in Handlers, Handle(h), ~Miss(h), ~StoreAnswer(h)
      PROVE  UNCHANGED entry
    BY <1>7 DEF Handle, Fetch, ReceiveFails, Receive, CheckFails, Check, Hit, DialFails, Resolve,
                Connect, TunnelEnds, SendFails, Send, Chunk, Undelivered, FetchEnds,
                StoreNothing, cacheVars, Store!GetHit
<1>8. QED  BY <1>1, <1>2, <1>4, <1>5, <1>6, <1>7 DEF Next

-----------------------------------------------------------------------------
(* The history of who was overtaken, and the origins.                      *)

\* A step that does not store leaves the marks alone, but for a handler that
\* returns.
LEMMA MarkStep ==
    ASSUME [Next]_vars
    PROVE  \/ UNCHANGED overtaken
           \/ \E h \in Handlers : /\ overtaken' = [overtaken EXCEPT ![h] = FALSE]
                                 /\ pc' = [pc EXCEPT ![h] = "idle"]
           \/ \E h \in Handlers : StoreAnswer(h)
<1>1. CASE StartCache \/ ClockChanges \/ OriginChanges \/ Quiet \/ UNCHANGED vars
    BY <1>1 DEF StartCache, ClockChanges, OriginChanges, Quiet, vars, answerVars
<1>2. ASSUME NEW h \in Handlers, NEW r \in Requests, Accept(h, r) \/ AcceptBlocked(h, r)
      PROVE  UNCHANGED overtaken
    BY <1>2 DEF Accept, AcceptBlocked, answerVars
<1>3. ASSUME NEW h \in Handlers, Handle(h), ~StoreAnswer(h)
      PROVE  \/ UNCHANGED overtaken
             \/ /\ overtaken' = [overtaken EXCEPT ![h] = FALSE]
                /\ pc' = [pc EXCEPT ![h] = "idle"]
    BY <1>3 DEF Handle, Fetch, ReceiveFails, Receive, CheckFails, Check, Hit, Miss, DialFails,
                Resolve, Connect, TunnelEnds, SendFails, Send, Chunk, Undelivered, FetchEnds,
                StoreNothing, Return, Leave, Go, answerVars
<1>4. QED  BY <1>1, <1>2, <1>3 DEF Next

\* The origins' content only gets newer, and not while a handler moves.
LEMMA OriginStep ==
    ASSUME origin \in 1..MaxVersion, [Next]_vars
    PROVE  origin' \in 1..MaxVersion /\ origin <= origin'
<1>1. UNCHANGED origin \/ OriginChanges
    BY DEF Next, Handle, Fetch, ReceiveFails, Receive, CheckFails, Check, Hit, Miss, DialFails,
           Resolve, Connect, TunnelEnds, SendFails, Send, Chunk, Undelivered, FetchEnds,
           StoreNothing, StoreAnswer, Accept, AcceptBlocked, StartCache, ClockChanges, Quiet, vars
<1>2. QED  BY <1>1, CacheAssumption DEF OriginChanges

-----------------------------------------------------------------------------
(* The parts of the invariant, step by step.                               *)

LEMMA TypesStep ==
    ASSUME HandlerTypes, [Next]_vars
    PROVE  HandlerTypes'
<1> USE BufferAssumption DEF HandlerTypes, dialVars, answerVars, Go
<1>1. origin' \in 1..MaxVersion
    BY OriginStep
<1>2. overtaken' \in [Handlers -> BOOLEAN]
    BY MarkStep DEF StoreAnswer
<1>3. ASSUME Rest PROVE HandlerTypes'
    BY <1>1, <1>3 DEF Rest
<1>4. ASSUME NEW h \in Handlers, Departs(h) PROVE HandlerTypes'
    BY <1>1, <1>2, <1>4 DEF Departs, Leave, Places
<1>5. ASSUME NEW h \in Handlers, Passes(h) PROVE HandlerTypes'
    BY <1>1, <1>5 DEF Passes, Places
<1>6. ASSUME NEW h \in Handlers, NEW r \in Requests, Accept(h, r) PROVE HandlerTypes'
    BY <1>1, <1>6 DEF Accept, Places
<1>7. ASSUME NEW h \in Handlers, NEW part \in Parts, Receive(h, part) PROVE HandlerTypes'
    BY <1>1, <1>7 DEF Receive, Places
<1>8. ASSUME NEW h \in Handlers, Check(h) PROVE HandlerTypes'
    BY <1>1, <1>8 DEF Check, Places
<1>9. ASSUME NEW h \in Handlers, Resolve(h) PROVE HandlerTypes'
    BY <1>1, <1>9 DEF Resolve, Places
<1>10. ASSUME NEW h \in Handlers, Connect(h) PROVE HandlerTypes'
    BY <1>1, <1>10 DEF Connect, Places
<1>11. ASSUME NEW h \in Handlers, Send(h) PROVE HandlerTypes'
    BY <1>1, <1>11 DEF Send, Places
<1>12. ASSUME NEW h \in Handlers, NEW n \in 1..BufferSize, Chunk(h, n) PROVE HandlerTypes'
    BY <1>1, <1>12 DEF Chunk, Grown, Places
<1>13. QED
    BY <1>3, <1>4, <1>5, <1>6, <1>7, <1>8, <1>9, <1>10, <1>11, <1>12, Kinds

LEMMA CopyStep ==
    ASSUME HandlerTypes, CopyInv, CopyIsForwarded, [Next]_vars
    PROVE  CopyInv' /\ CopyIsForwarded'
<1> USE BufferAssumption
    DEF HandlerTypes, CopyInv, CopyIsForwarded, Fetching, dialVars, answerVars, Go
<1>1. ASSUME Rest PROVE CopyInv' /\ CopyIsForwarded'
    BY <1>1 DEF Rest
<1>2. ASSUME NEW h \in Handlers, Departs(h) PROVE CopyInv' /\ CopyIsForwarded'
    BY <1>2 DEF Departs, Leave
<1>3. ASSUME NEW h \in Handlers, Passes(h) PROVE CopyInv' /\ CopyIsForwarded'
    BY <1>3 DEF Passes
<1>4. ASSUME NEW h \in Handlers, NEW r \in Requests, Accept(h, r)
      PROVE  CopyInv' /\ CopyIsForwarded'
    BY <1>4 DEF Accept
<1>5. ASSUME NEW h \in Handlers, NEW part \in Parts, Receive(h, part)
      PROVE  CopyInv' /\ CopyIsForwarded'
    BY <1>5 DEF Receive
<1>6. ASSUME NEW h \in Handlers, Check(h) \/ Resolve(h) \/ Connect(h)
      PROVE  CopyInv' /\ CopyIsForwarded'
    BY <1>6 DEF Check, Resolve, Connect
<1>7. ASSUME NEW h \in Handlers, Send(h) PROVE CopyInv' /\ CopyIsForwarded'
    BY <1>7 DEF Send
<1>8. ASSUME NEW h \in Handlers, NEW n \in 1..BufferSize, Chunk(h, n)
      PROVE  CopyInv' /\ CopyIsForwarded'
    BY <1>8 DEF Chunk, Grown
<1>9. QED
    BY <1>1, <1>2, <1>3, <1>4, <1>5, <1>6, <1>7, <1>8, Kinds

LEMMA RouteStep ==
    ASSUME HandlerTypes, RouteInv, RightOrigin, [Next]_vars
    PROVE  RouteInv' /\ RightOrigin'
<1> USE DEF HandlerTypes, RouteInv, RightOrigin, Connected, Fetching, dialVars, answerVars, Go
<1>1. ASSUME Rest PROVE RouteInv' /\ RightOrigin'
    BY <1>1 DEF Rest
<1>2. ASSUME NEW h \in Handlers, Departs(h) PROVE RouteInv' /\ RightOrigin'
    BY <1>2 DEF Departs, Leave
<1>3. ASSUME NEW h \in Handlers, Passes(h) PROVE RouteInv' /\ RightOrigin'
    BY <1>3 DEF Passes
<1>4. ASSUME NEW h \in Handlers, NEW r \in Requests, Accept(h, r)
      PROVE  RouteInv' /\ RightOrigin'
    BY <1>4 DEF Accept
<1>5. ASSUME NEW h \in Handlers, NEW part \in Parts, Receive(h, part)
      PROVE  RouteInv' /\ RightOrigin'
    BY <1>5 DEF Receive
<1>6. ASSUME NEW h \in Handlers, Check(h) PROVE RouteInv' /\ RightOrigin'
    BY <1>6 DEF Check
<1>7. ASSUME NEW h \in Handlers, Resolve(h) PROVE RouteInv' /\ RightOrigin'
    BY <1>7 DEF Resolve
<1>8. ASSUME NEW h \in Handlers, Connect(h) PROVE RouteInv' /\ RightOrigin'
    BY <1>8 DEF Connect
<1>9. ASSUME NEW h \in Handlers, Send(h) PROVE RouteInv' /\ RightOrigin'
    BY <1>9 DEF Send
<1>10. ASSUME NEW h \in Handlers, NEW n \in 1..BufferSize, Chunk(h, n)
       PROVE  RouteInv' /\ RightOrigin'
    BY <1>10 DEF Chunk
<1>11. QED
    BY <1>1, <1>2, <1>3, <1>4, <1>5, <1>6, <1>7, <1>8, <1>9, <1>10, Kinds

\* Receiving a request keeps its client and its URL.
LEMMA GuardStep ==
    ASSUME HandlerTypes, GuardInv, [Next]_vars
    PROVE  GuardInv'
<1> USE RequestAssumption
    DEF HandlerTypes, GuardInv, Checked, Connected, Fetching, Admitted, dialVars, answerVars, Go
<1>1. ASSUME Rest PROVE GuardInv'
    BY <1>1 DEF Rest
<1>2. ASSUME NEW h \in Handlers, Departs(h) PROVE GuardInv'
    BY <1>2 DEF Departs, Leave
<1>3. ASSUME NEW h \in Handlers, Passes(h) PROVE GuardInv'
    BY <1>3 DEF Passes
<1>4. ASSUME NEW h \in Handlers, NEW r \in Requests, Accept(h, r) PROVE GuardInv'
    BY <1>4 DEF Accept
<1>5. ASSUME NEW h \in Handlers, NEW part \in Parts, Receive(h, part) PROVE GuardInv'
  <2>1. PICK kept \in BOOLEAN : req' = [req EXCEPT ![h].user = @ /\ kept]
      BY <1>5 DEF Receive
  <2>2. DOMAIN req[h] = {"client", "method", "url", "header", "user"}
      BY <1>5 DEF Receive
  <2>3. DOMAIN req'[h] = DOMAIN req[h] /\ req'[h].client = req[h].client /\ req'[h].url = req[h].url
      BY <2>1, <2>2
  <2>4. \A g \in Handlers \ {h} : req'[g] = req[g]
      BY <2>1
  <2>5. pc' = [pc EXCEPT ![h] = "checks"] /\ UNCHANGED config /\ pc[h] = "recv"
      BY <1>5 DEF Receive
  <2>6. QED  BY <2>2, <2>3, <2>4, <2>5
<1>6. ASSUME NEW h \in Handlers, Check(h) PROVE GuardInv'
    BY <1>6 DEF Check
<1>7. ASSUME NEW h \in Handlers, Resolve(h) PROVE GuardInv'
    BY <1>7 DEF Resolve
<1>8. ASSUME NEW h \in Handlers, Connect(h) PROVE GuardInv'
    BY <1>8 DEF Connect
<1>9. ASSUME NEW h \in Handlers, Send(h) PROVE GuardInv'
    BY <1>9 DEF Send
<1>10. ASSUME NEW h \in Handlers, NEW n \in 1..BufferSize, Chunk(h, n) PROVE GuardInv'
    BY <1>10 DEF Chunk
<1>11. QED
    BY <1>1, <1>2, <1>3, <1>4, <1>5, <1>6, <1>7, <1>8, <1>9, <1>10, Kinds

\* A handler that fetches after a step did so before it, with the same request
\* and version, or has just sent its request.
LEMMA FetchStep ==
    ASSUME HandlerTypes, [Next]_vars, NEW g \in Handlers, pc'[g] \in Fetching
    PROVE  \/ pc[g] \in Fetching /\ req'[g] = req[g] /\ ver'[g] = ver[g]
           \/ Send(g)
<1> USE DEF HandlerTypes, Fetching, dialVars, answerVars, Go
<1> DEFINE Same == pc[g] \in Fetching /\ req'[g] = req[g] /\ ver'[g] = ver[g]
<1>1. ASSUME Rest PROVE Same
    BY <1>1 DEF Rest
<1>2. ASSUME NEW h \in Handlers, Departs(h) PROVE Same
    BY <1>2 DEF Departs, Leave
<1>3. ASSUME NEW h \in Handlers, Passes(h) PROVE Same
    BY <1>3 DEF Passes
<1>4. ASSUME NEW h \in Handlers, NEW r \in Requests, Accept(h, r) PROVE Same
    BY <1>4 DEF Accept
<1>5. ASSUME NEW h \in Handlers, NEW part \in Parts, Receive(h, part) PROVE Same
  <2>1. h # g /\ pc'[g] = pc[g] /\ UNCHANGED ver
      BY <1>5 DEF Receive
  <2>2. PICK kept \in BOOLEAN : req' = [req EXCEPT ![h].user = @ /\ kept]
      BY <1>5 DEF Receive
  <2>3. QED  BY <2>1, <2>2
<1>6. ASSUME NEW h \in Handlers, Check(h) PROVE Same
    BY <1>6 DEF Check
<1>7. ASSUME NEW h \in Handlers, Resolve(h) PROVE Same
    BY <1>7 DEF Resolve
<1>8. ASSUME NEW h \in Handlers, Connect(h) PROVE Same
    BY <1>8 DEF Connect
<1>9. ASSUME NEW h \in Handlers, Send(h) PROVE Same \/ Send(g)
    BY <1>9 DEF Send
<1>10. ASSUME NEW h \in Handlers, NEW n \in 1..BufferSize, Chunk(h, n) PROVE Same
    BY <1>10 DEF Chunk
<1>11. QED
    BY <1>1, <1>2, <1>3, <1>4, <1>5, <1>6, <1>7, <1>8, <1>9, <1>10, Kinds

\* A handler that is still fetching, and is not marked, when another one stores
\* under its URL is marked by that store; other steps mark nobody.
LEMMA MarkedStep ==
    ASSUME HandlerTypes, [Next]_vars,
           NEW g \in Handlers, pc[g] \in Fetching, pc'[g] \in Fetching, ~overtaken'[g]
    PROVE  /\ ~overtaken[g]
           /\ \A h \in Handlers : StoreAnswer(h) => req[h].url # req[g].url
<1>1. ASSUME NEW h \in Handlers, StoreAnswer(h)
      PROVE  ~overtaken[g] /\ req[h].url # req[g].url
  <2>1. h # g
      BY <1>1 DEF StoreAnswer, Leave, Go, HandlerTypes, Fetching
  <2>2. overtaken'[g] = (g # h /\ (overtaken[g] \/ (pc[g] \in {"fetch", "store"} /\ req[g].url = req[h].url)))
      BY <1>1 DEF StoreAnswer
  <2>3. QED  BY <2>1, <2>2 DEF Fetching
<1>2. ASSUME NEW h \in Handlers, pc' = [pc EXCEPT ![h] = "idle"],
             overtaken' = [overtaken EXCEPT ![h] = FALSE]
      PROVE  ~overtaken[g]
  <2>1. h # g
      BY <1>2 DEF HandlerTypes, Fetching
  <2>2. QED  BY <1>2, <2>1 DEF HandlerTypes
<1>3. ASSUME UNCHANGED overtaken
      PROVE  ~overtaken[g]
    BY <1>3
<1>4. QED  BY <1>1, <1>2, <1>3, MarkStep

\* What a handler fetches stays within an answer, and of a version there is.
LEMMA AnswerStep ==
    ASSUME HandlerTypes, AnswerInv, [Next]_vars
    PROVE  AnswerInv'
<1>1. ASSUME NEW g \in Handlers
      PROVE  forwarded'[g] <= AnswerLen
  <2> USE BufferAssumption DEF HandlerTypes, AnswerInv, dialVars, answerVars
  <2>1. ASSUME NEW h \in Handlers, Departs(h) PROVE forwarded'[g] <= AnswerLen
      BY <2>1 DEF Departs, Leave
  <2>2. ASSUME NEW h \in Handlers, NEW n \in 1..BufferSize, Chunk(h, n)
        PROVE  forwarded'[g] <= AnswerLen
      BY <2>2 DEF Chunk
  <2>3. ASSUME UNCHANGED forwarded PROVE forwarded'[g] <= AnswerLen
      BY <2>3
  <2>4. QED
      BY <2>1, <2>2, <2>3, Kinds DEF Rest, Passes, Accept, Receive, Check, Resolve, Connect, Send
<1>2. ASSUME NEW g \in Handlers, pc'[g] \in Fetching
      PROVE  ver'[g] \in 1..MaxVersion
  <2>1. CASE pc[g] \in Fetching /\ ver'[g] = ver[g]
      BY <2>1 DEF AnswerInv
  <2>2. CASE Send(g)
      BY <2>2 DEF Send, HandlerTypes
  <2>3. QED  BY <1>2, <2>1, <2>2, FetchStep
<1>3. QED  BY <1>1, <1>2 DEF AnswerInv, Fetching

LEMMA VersionStep ==
    ASSUME HttpInv, [Next]_vars
    PROVE  VersionInv'
<1>0. HandlerTypes /\ GuardInv /\ VersionInv
    BY DEF HttpInv
<1>1. origin \in Nat /\ origin' \in Nat /\ origin <= origin'
    BY <1>0, OriginStep DEF HandlerTypes
<1>2. ASSUME NEW u \in Urls, entry'[u] # NULL
      PROVE  entry'[u].body.ver \in Nat /\ entry'[u].body.ver <= origin'
  <2>1. CASE entry'[u] = entry[u]
      BY <1>0, <1>1, <1>2, <2>1 DEF VersionInv
  <2>2. ASSUME NEW h \in Handlers, StoreAnswer(h), entry'[u].body = Body(h)
        PROVE  entry'[u].body.ver \in Nat /\ entry'[u].body.ver <= origin'
    <3>1. pc[h] \in Fetching /\ ver[h] \in Nat
        BY <1>0, <2>2 DEF StoreAnswer, Fetching, HandlerTypes
    <3>2. QED  BY <1>0, <1>1, <2>2, <3>1 DEF VersionInv, Body
  <2>3. QED  BY <1>2, <2>1, <2>2, EntryStep
<1>3. ASSUME NEW g \in Handlers, pc'[g] \in Fetching
      PROVE  /\ ver'[g] <= origin'
             /\ (entry'[req'[g].url] # NULL /\ ~overtaken'[g]) =>
                   (entry'[req'[g].url].body.ver <= ver'[g])
  <2>1. CASE pc[g] \in Fetching /\ req'[g] = req[g] /\ ver'[g] = ver[g]
    <3>1. ver'[g] <= origin'
        BY <1>0, <1>1, <2>1 DEF VersionInv, HandlerTypes
    <3>2. ASSUME entry'[req'[g].url] # NULL, ~overtaken'[g]
          PROVE  entry'[req'[g].url].body.ver <= ver'[g]
      <4>1. ~overtaken[g] /\ \A h \in Handlers : StoreAnswer(h) => req[h].url # req[g].url
          BY <1>0, <1>3, <2>1, <3>2, MarkedStep
      <4>2. req[g].url \in Urls
          BY <1>0, <2>1 DEF GuardInv, Fetching
      <4>3. entry'[req[g].url] = entry[req[g].url]
          BY <2>1, <3>2, <4>1, <4>2, EntryStep
      <4>4. QED  BY <1>0, <2>1, <3>2, <4>1, <4>3 DEF VersionInv
    <3>3. QED  BY <3>1, <3>2
  <2>2. CASE Send(g)
    <3>1. /\ req[g].url \in Urls /\ req' = req /\ entry' = entry
          /\ ver'[g] = origin /\ origin' = origin
        BY <1>0, <2>2 DEF Send, Go, cacheVars, HandlerTypes, GuardInv
    <3>2. QED  BY <1>0, <1>1, <3>1 DEF VersionInv
  <2>3. QED  BY <1>0, <1>3, <2>1, <2>2, FetchStep
<1>4. QED  BY <1>2, <1>3 DEF VersionInv, Fetching

-----------------------------------------------------------------------------
(* The theorems.                                                           *)

LEMMA NextHttp ==
    ASSUME HttpInv, [Next]_vars
    PROVE  HttpInv'
<1>1. CP!CacheInv'
  <2>1. CP!CacheInv /\ [CP!Next]_(CP!vars)
      BY CacheStep DEF HttpInv
  <2>2. QED  BY <2>1, CacheConstants, CP!NextCache
<1>2. QED
    BY <1>1, TypesStep, CopyStep, RouteStep, GuardStep, AnswerStep, VersionStep DEF HttpInv

\* The inductive invariant of the HTTP handlers.
THEOREM HttpInvariant == Spec => []HttpInv
<1>1. Init => HttpInv
    BY InitHttp
<1>2. HttpInv /\ [Next]_vars => HttpInv'
    BY NextHttp
<1>3. QED  BY <1>1, <1>2, PTL DEF Spec

\* With handlers looking up and storing in any order, the cache behind them
\* stays consistent: its chains, its LRU list and its byte count agree.
THEOREM HandlersCacheTheorem == Spec => []Store!StructuresAgree
<1>1. HttpInv => Store!StructuresAgree
  <2>1. SUFFICES ASSUME HttpInv
                 PROVE  Store!StructuresAgree
      OBVIOUS
  <2>2. CP!Sound(CP!Contents)
      BY <2>1 DEF HttpInv, CP!CacheInv
  <2>3. CP!StructuresAgree
      BY <2>2, CacheConstants, CP!SoundAgrees
  <2>4. QED
      BY <2>3
      DEF Store!StructuresAgree, CP!StructuresAgree, Store!Live, CP!Live, Store!SizeUpTo, CP!SizeUpTo,
          Store!ToSet, CP!ToSet, Store!IsInjective, CP!IsInjective
<1>2. QED  BY <1>1, HttpInvariant, PTL

\* However the answer is cut into chunks and whenever realloc fails, the copy
\* http_handle_request keeps for the cache fits its buffer and is what the
\* client was sent.
THEOREM CopyTheorem == Spec => []CopyIsForwarded
<1>1. HttpInv => CopyIsForwarded
    BY DEF HttpInv
<1>2. QED  BY <1>1, HttpInvariant, PTL

\* With any number of handlers sharing gethostbyname's answer, a handler is
\* connected to the host its request names unless its lookup was raced.
THEOREM OriginTheorem == Spec => []RightOrigin
<1>1. HttpInv => RightOrigin
    BY DEF HttpInv
<1>2. QED  BY <1>1, HttpInvariant, PTL

\* Bytes reach a client only in the fetch loop.
LEMMA ForwardStep ==
    ASSUME HandlerTypes, [Next]_vars, NEW g \in Handlers, forwarded'[g] > forwarded[g]
    PROVE  pc[g] = "fetch"
<1> USE DEF HandlerTypes, dialVars, answerVars, Go
<1>1. ASSUME NEW h \in Handlers, Departs(h) PROVE pc[g] = "fetch"
    BY <1>1 DEF Departs, Leave
<1>2. ASSUME NEW h \in Handlers, NEW n \in 1..BufferSize, Chunk(h, n) PROVE pc[g] = "fetch"
    BY <1>2 DEF Chunk
<1>3. ASSUME UNCHANGED forwarded PROVE FALSE
    BY <1>3
<1>4. QED
    BY <1>1, <1>2, <1>3, Kinds
    DEF Rest, Passes, Accept, Receive, Check, Resolve, Connect, Send

\* The checks stand before all content: a cached answer, a tunnel and every byte
\* of an origin go only to an admitted client, with credentials where they are
\* asked for, for a URL that is not blocked.
THEOREM GuardTheorem == Spec => ContentIsGuarded
<1> DEFINE Guarded(h) ==
             /\ config.auth => req[h].user
             /\ config.filtering => req[h].url \notin BlockedUrls /\ req[h].client \notin BlockedClients
           Gives(h) ==
             Hit(h) \/ (Connect(h) /\ req[h].method = "CONNECT") \/ forwarded'[h] > forwarded[h]
<1>1. ASSUME HttpInv, [Next]_vars, NEW h \in Handlers, Gives(h)
      PROVE  Guarded(h)
  <2>1. pc[h] \in Checked
    <3>1. CASE Hit(h)
        BY <3>1 DEF Hit, Checked
    <3>2. CASE Connect(h)
        BY <3>2 DEF Connect, Checked
    <3>3. CASE forwarded'[h] > forwarded[h]
        BY <1>1, <3>3, ForwardStep DEF HttpInv, Checked, Connected, Fetching
    <3>4. QED  BY <1>1, <3>1, <3>2, <3>3
  <2>2. pc[h] # "idle"
      BY <2>1 DEF Checked, Connected, Fetching
  <2>3. QED  BY <1>1, <2>1, <2>2 DEF HttpInv, GuardInv, Admitted
<1>2. HttpInv /\ [Next]_vars => [\A h \in Handlers : Gives(h) => Guarded(h)]_vars
    BY <1>1
<1>3. QED  BY <1>2, HttpInvariant, PTL DEF Spec, ContentIsGuarded

\* Handlers that miss the same URL may store in any order; a cached version is
\* replaced by an older one only by a handler that was overtaken while it
\* fetched.
THEOREM VersionTheorem == Spec => OlderOnlyIfOvertaken
<1> DEFINE Older(u) ==
             entry[u] # NULL /\ entry'[u] # NULL /\ entry'[u].body.ver < entry[u].body.ver
           Overtakes(u) == \E h \in Handlers : StoreAnswer(h) /\ req[h].url = u /\ overtaken[h]
<1>1. ASSUME HttpInv, [Next]_vars, NEW u \in Urls, Older(u)
      PROVE  Overtakes(u)
  <2>1. entry[u].body.ver \in Nat
      BY <1>1 DEF HttpInv, VersionInv
  <2>2. entry'[u] # entry[u]
      BY <1>1, <2>1
  <2>3. PICK h \in Handlers : StoreAnswer(h) /\ u = req[h].url /\ entry'[u].body = Body(h)
      BY <1>1, <2>2, EntryStep DEF HttpInv
  <2>4. pc[h] \in Fetching /\ ver[h] \in Nat /\ entry'[u].body.ver = ver[h]
      BY <1>1, <2>3 DEF StoreAnswer, Fetching, Body, HttpInv, HandlerTypes
  <2>5. CASE ~overtaken[h]
    <3>1. entry[u].body.ver <= ver[h]
        BY <1>1, <2>3, <2>4, <2>5 DEF HttpInv, VersionInv
    <3>2. QED  BY <1>1, <2>1, <2>4, <3>1
  <2>6. QED  BY <2>3, <2>5
<1>2. HttpInv /\ [Next]_vars => [\A u \in Urls : Older(u) => Overtakes(u)]_vars
    BY <1>1
<1>3. QED  BY <1>2, HttpInvariant, PTL DEF Spec, OlderOnlyIfOvertaken
=============================================================================
