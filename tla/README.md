# ProxyMax: specifications, model checking and proofs

This directory holds TLA+ specifications of the proxy server in
`src/proxy-server`, the TLC configurations that check them on small instances,
and TLAPS proofs of what they promise in safety, for every value of the constants.
Source paths below are relative to `src/proxy-server`.

## 1. Inventory of the system

ProxyMax is one process. `main` initialises the enabled subsystems, opens a
listening socket, runs the accept loop of one of four threading models until
`SIGINT` or `SIGTERM`, and cleans up. Each accepted connection is handled by one
call of `connection_handle`, in the main thread, a pool worker or a thread of its
own.

| Component | State | Operations | Correct when |
|---|---|---|---|
| worker pool, `src/core/threading.c` | linked queue (`head`, `tail`, `next`, `count`), `shutdown`, one condition variable, worker threads | create, submit, worker loop, destroy | the list is the queue, no wake-up is lost, an item has one owner, nothing is used after it is freed, destroy returns |
| server, `src/core/server.c` | listening socket, epoll descriptor, pool | init, four accept loops, start, cleanup | each connection has one owner and is closed, shutdown ends and tears down nothing in use |
| process, `src/main.c` | `g_running`, configuration | signal handler, arguments, start, cleanup | the settings that count are the ones in force; every feature is set up and cleaned up |
| connection, `src/core/connection.c` | client and remote sockets | create, destroy, handle, relay | closed once; relayed bytes are neither lost nor invented, nobody starves |
| statistics, `src/monitor/stats.c` | counters under a mutex | increment, decrement, print | gauge equals open connections |
| response cache, `src/cache/cache.c` | hash chains, LRU list, byte count, expiry | init, get, put, evict, cleanup | both structures and the count agree, eviction ends and takes the oldest, hits are current |
| load balancer, `src/core/loadbalancer.c` | list of backends, health, counts, rotation index | select (four algorithms), release, mark failed, health checks | fair, prefers healthy backends, exact counts |
| rate limiter, `src/monitor/ratelimit.c` | token bucket and bandwidth window per address | check request, check and update bandwidth, forget, cleanup | rate law holds for every address and no refusal without need |
| HTTP proxy, `src/protocols/http.c` | per connection only | parse, authenticate, filter, tunnel, cache, forward | nothing served before the checks; the cached copy is what was served; the right origin |
| SOCKS5 proxy, `src/protocols/socks5.c` | per connection only | handshake, authentication, request, relay | no connection without credentials, handshake completes |
| authentication, `src/auth/auth.c` | list of users | load, verify, Basic decoding | decodes what was encoded, within its buffer |
| filters, `src/filter/filter.c` | lists of patterns | load, check address, check URL | matcher and list rules compute what they should, and end |
| logger, `src/monitor/logger.c` | file pointer, mutex | init, log, cleanup | no use after close |
| TLS, `src/protocols/ssl.c` | server context, certificate and key files | create context, generate pair, cleanup | a context is made of one pair, a good pair stays, a missing one is made |
| configuration, `src/utils/config.c` | `g_config` | defaults, load | see process |
| network helpers, `src/utils/network.c` | `gethostbyname`'s static answer | listen, connect, send all | all is sent; the host asked for |
| compression, `src/protocols/compression.c` | none | wrappers of zlib | - |

Interactions: `main` owns everything; handlers call into cache, filters, users,
statistics and logger, each behind its own mutex (users and filters are only
read after start). The pool's owner is the main thread. The load balancer's
select, release and check functions and the rate limiter's checks are not called
from anywhere in `src/`; their models leave the callers open. Nor are the TLS
functions for connections and the compression functions.

What is hard: the condition variable against a single signal per item; failures
in the middle of creation; signals against blocking calls; handlers that outlive
the main loop; peers that say nothing, end half-way or send their messages in
pieces; threads that share what a library returns; a crash between the writes of
two files, or an operator who changes them meanwhile; a clock that is set back;
sequences of cache updates, expiries and
failed allocations; counters that overflow or go stale. `PROJECT.json` lists these hazards
at their lines, with the properties that guard against each.

## 2. Modules

| Module | Models | Role |
|---|---|---|
| `WorkQueue` | - | abstract: items are handed over, started in order by at most `Slots` executors, finished, or discarded once closed |
| `ThreadPool` | `threading.c` | every critical section of the queue mutex is a step; failing `malloc`/`pthread_create`, spurious wake-ups |
| `ProxyServer` | `server.c`, `main.c`, create/destroy of `connection.c`, counters of `stats.c` | composes an instance of `ThreadPool`, whose items are the connections, with the main thread, detached threads, clients and signals |
| `Cache` | `cache.c` | one step per outcome of a call |
| `LoadBalancer` | `loadbalancer.c` | one step per call; algorithms as operators |
| `RateLimit` | `ratelimit.c` | one step per outcome of a call |
| `HttpProxy` | `http.c`, address check of `connection.c`, `connect_to_host` | several handlers at once, composed with an instance of `Cache`, whose keys are the URLs |
| `Relay` | relay loop of `connection.c`, `http.c` and `socks5.c`, `send_all` | two peers, finite socket buffers, one step per `select`, `recv` and `send` |
| `Tunnel` | `socks5.c`, TCP and reverse mode of `connection.c` | extends `Relay` with what happens before the loop |
| `Startup` | `main.c`, `config.c`, context and certificates of `ssl.c` | the process over several starts, with crashes, failing calls and an operator who touches the files |
| `Filter` | `filter.c` | the matching loop step by step, and its reference definition |
| `Credentials` | `auth.c` | the decoding loop step by step, and its reference definition |
| `Access` | checks of `connection.c` and `http.c` | composes `Filter` and `Credentials` in the order of the checks |
| `MC...` | - | values of the constants for TLC; `MCServices` runs `Cache`, `LoadBalancer` and `RateLimit` side by side |
| `ThreadPoolProofs`, `ProxyServerProofs`, `CacheProofs`, `HttpProxyProofs`, `TunnelProofs`, `StartupProofs`, `AccessProofs` | - | theorems and proofs about the module of that name, see section 4; `TunnelProofs` includes `Relay`, `AccessProofs` includes `Filter` and `Credentials` |
| `ShareProofs` | - | the same for `RateLimit` and `LoadBalancer`, which it extends (hence the names `RateSpec`, `BalancerSpec` and so on): both proofs are accounts of who got how much |

`PROJECT.json` maps every definition to its lines. In each module the
definitions commented "Faulty variant" are not part of the specification: each
is a plausible slip in the definition that follows it, and putting it in place
makes a named property fail, which shows that the property depends on the code
being as it is.

### How state and actions correspond to the code

*ThreadPool.* `phase`, `spawned` and `joined` are the owner's program counter and
loop indices; `wpc` is each worker's. A worker in `check` is about to evaluate
the loop condition of lines 36-38 under the mutex, whether it is new, has
finished an item or was woken. `pending` and `fate` are history variables: no
action reads them to decide anything, except that each item is submitted once.
`Linked` is the walk of `thread_pool_destroy` over the remaining list, defined as
the least set closed under `next`.

*ProxyServer.* `mpc` is the main thread's place. `Pool!...` actions are taken over
whole, so a step of the server that submits, works or destroys is a step of the
pool. A handler is reduced to when it may return: `answered` holds the
connections whose peers have done what the handler waits for. `signal()` in this
build (GNU dialect, glibc) installs handlers with `SA_RESTART`, so a signal does
not end a blocked `accept`, while `epoll_wait` is never restarted and has a
timeout of one second.

*Cache.* `chain` and `lru` hold keys in list order; `entry` is the memory behind
them, `NULL` when freed. What the mutex protects is one record (`Contents`), and
`Unlink` takes one entry out of it. `Evictions[n]` is what the loop
`while (total_size + size > max_size) cache_evict_lru()` leaves after n rounds; it
stops at the first n at which it may (`Stops`), and there has to be one
(`LoopEnds`): on an empty list `cache_evict_lru` returns at once and the loop would
spin. `latest` and `recency` are history variables; `recency` holds the pairs of
cached keys of which the first was last used earlier.

*LoadBalancer.* Each algorithm yields a backend and how far it moves
`current_index`. C's `int` addition and remainder are explicit (`Plus`, `CRem`).
Times are ages, capped when they no longer matter; the clock does not go back.
`Prepended` is the list that comes of putting the allocated backends at its head one
after the other, `UpTo` the running sum of weights. `turns` and `share` are history:
the selections since the health of a backend last changed, modulo the round. The
callers and whoever runs the health checks are external, and none of them owes a step.

*RateLimit.* Tokens are integers in units of 1/`Window`. `clock` is `time(NULL)` and is
set at will, forward and back; `setback` remembers whether it ever went back, and
each request in the history `admitted` carries the time of it and the latest time the
clock has shown since (`peak`), which is what a bucket can have earned by. Behind a
bandwidth window that starts in the future the code converts a negative rate to
`size_t`: when it does not round to zero, either verdict is possible (`Undefined`).
An address that fills its 16-byte field leaves the last byte unwritten; whether such
an entry is found again is a nondeterministic choice made when it is created
(`Terminated`). `KeptTrackers` is the list after the loop that unlinks idle trackers.

*HttpProxy.* A step of a handler ends where it blocks or takes the cache's mutex,
so that between a miss and the store of the answer other handlers run and origins
change their content (`origin`). One `recv` returns the whole request, a part with
or without the Host header, or not even the request line (`Parts`); `host` is
`NULL` when `http_parse_request` leaves it unwritten, and then any host may come
out of it. `hostent` is the memory `gethostbyname` shares between threads.
`forwarded`, `size` and `cap` are `bytes_received`, `response_size` and
`response_capacity`; `overtaken` and `raced` are history variables. The filter's
and the users' verdicts are given by constants here; `Access` models them.

*Relay* and *Tunnel.* Units of the byte stream are counted, not told apart. `rx` is
the socket's receive buffer, `tx` its send buffer with what is on the way, `held`
what `relay_data` has read and not yet sent. A peer may end its stream and go on
reading, leave, or reset the connection. A SOCKS5 message is two units, enough for
a `recv` to return half of one, or one and a half; payload read together with a
message is counted in `early`. Messages are read into a buffer of 256 bytes, and a
greeting with 255 methods or a long user name and password is longer: a client whose
`long` names a message never has it read as a whole (`Arrived`), and what does not
fit is taken for the next message.

*Startup.* `cert` and `key` hold the number of the pair they belong to, and survive
a crash; everything else is lost. A file is `Partial` when it is there and cannot be
loaded, because it is cut short or not readable: `access()` asks only whether it
exists. `fopen` for writing truncates, which makes the file `Partial`; a crash, a
failing write or a failing `fclose`, whose result is not looked at, leaves it so.
The operator removes a file or puts an own one in its place at any moment, between
`access()` and the load too (`OperatorTouches`, remembered in `touched`); what the
process then writes goes to the file that is gone (`Written`). `main` ignores the
results of its initialisation calls, and `failed` holds those that went wrong in this
start: `cache_init`, `loadbalancer_init`, the generation of the pair, and
`ssl_create_server_context` for lack of memory (`ContextFails`). The other
initialisations cannot fail.

*Filter*, *Credentials*, *Access.* The loops of `pattern_match` and `base64_decode`
are steps over the same variables as in the code, and the properties compare them
with `Matches` and `Encoded`, which are written from what wildcards and Base64
are. The input of the decoder is what `auth_parse_basic` passes: the rest of the
request, not only the credentials. The `malloc` for an account may fail, and its
byte of termination is what `malloc` returned; either way the account is in `lost`.
User name and password are copied with `strcpy` into buffers of 128 bytes
(`FieldSize`), while the decoded text has up to 511: when one does not fit
(`Overflows`) the outcome is undefined, and the model lets such a request go on, be
refused, or end the process (`crashed`).

`TypeOK` of `ProxyServer`, `HttpProxy`, `Tunnel` and `Startup` states the types of
the variables; no run lists it, and it is proved for `ProxyServer`, `Tunnel` and
`Startup` (section 4).

## 3. Model checking

| Run | Instance | Shows |
|---|---|---|
| `ThreadPool` | 3 workers, 4 items | five safety invariants (the sixth, `TypeOK`, is proved); destroy returns; refinement of `WorkQueue` with its fairness, so that every submitted item is done, or dropped after closing |
| `Server` | each of the four models, 2 workers, 3 connections | exactly one owner per open connection; teardown after the last worker; service; shutdown under the models that poll |
| `Services` | *cache:* 4 keys in 2 buckets, sizes 0-3, budget 5, a clock of two readings set at will, the later one past the ttl; *balancer:* each of the four algorithms, 3 backends (one of weight 2, two that come and go), 2 callers, 2 clients; *limiter:* an address of 15 characters and a shorter one, bucket of 2, 2 bytes/s, a "minute" of 3 s, a clock set at will up to 4 | structure, accounting, eviction, current hits; fair rounds, counts, healthy backends preferred; for the shorter address the rate law, refusals only when needed, and averages within the limit |
| `HttpProxy` | 2 handlers, 3 requests out of five kinds, 3 URLs on 2 hosts, answers of 3 units through a buffer of 2, 2 versions | no content before or without the checks; the copy for the cache is what the client was sent and fits its buffer; an older answer replaces a newer one only if the fetches overlapped; a wrong host only by the race in `gethostbyname` |
| `Tunnel` | SOCKS5 with and without authentication and TCP, nine kinds of clients, 2 units of payload each way, receive buffers of 2, send buffers of 1 | no connection without credentials; handshakes of patient clients complete; every unit is accounted for, lost only for a reason, delivered if peers read; the relay ends when a peer does |
| `Startup` | 3 starts, 2 faults, 2 files removed or replaced, four command lines, three configuration files | the features set up are the ones configured that did not fail, as far as file and command line do not compete, and are cleaned up; TLS is off only for a listed cause, and a context comes from one pair; a good pair stays; a missing certificate is repaired |
| `Access` | every pattern up to 4 characters over `a b * ?` against every string up to 3, 64 combinations of lists, credentials of up to 9 bytes, short and long for the fields, three continuations of the request, one account lost | loop invariant of the matcher, exact decoding within the buffer, exact admission of credentials that are delimited and have room, every check ends |

The threading model and the balancing algorithm are chosen in the initial state,
so one run covers all of them; so are modes, clients, command lines and the cases
of `Access`. Cache, balancer and limiter share no state, and in `Services` each
behaviour uses one of them, a bucket list or a tracker list in the case of the
limiter, while the others rest (`ServicesNext`): what they do at the same time is
independent. `HttpProxy` uses symmetry between handlers, `Services` between cache keys
of one bucket, which is sound because a key matters only through its bucket.

Bounds. Three workers and four items include more items than workers, more
workers than items, failure at each `pthread_create`, and two sleepers with one
signal. Three connections against two workers leave one in the queue. A budget of
5 admits bodies of 1 and 2, so an insertion can evict none, one or several
entries and updates can exceed the budget. An index bound of 5
lets six selections happen, two full rounds of three or a round and a half of the four
that the weights make. In the load balancer a failure limit of 1 stands for 5
and a tick for 30 seconds; the code only compares with these numbers. Clock
readings for buckets go to 3, a full refill, and for trackers to 4, after which an
idle one is forgotten. The bounds that cut behaviour off are named constants: `MaxIndex`, `MaxTime`,
`MaxBytes`, `MaxLimiters`, `MaxTrackers`, `MaxVersion`, `MaxRequests`, `MaxUnits`,
`MaxStarts`, `MaxFaults`, `MaxTouches`, `MaxLost`; `MCServices` adds that the clock of
buckets stays within `Window`.

Three requests with two handlers allow two fetches of one URL to overlap and a third
request to hit or replace the result; two versions are enough to tell an older
answer from a newer one. An answer longer than the buffer makes it grow. A send
buffer smaller than what one `recv` takes makes sends partial and blocking. Two
faults and three starts allow a fault in the start that repairs an earlier one. An
output buffer of 9 stands for 512 and fields of 4 for 128: the code only compares with
these sizes, and the credentials reach both from both sides.

Fairness. Threads that can run are scheduled (weak fairness on each worker, each
detached thread and the main thread). A pending connection makes `accept` return.
`WaitEnds` is fair only for the loops with `epoll_wait`, whose timeout is one
second. `PeerFairness`, that peers answer or hang up, is an assumption about the
network: the handlers' `recv` calls have no timeout, and without the assumption
`Served` would not hold. In
`ThreadPool`, nobody owes a submission or a destroy, but a destroy once begun is
carried through. `Services` assumes no
fairness: nothing in `src/` calls the balancer's and the limiter's operations, so no
caller owes one, and the cache promises no liveness but `EvictionEnds`, which is an
invariant. In `Tunnel` the handler's thread
is scheduled, a client goes through the protocol, and peers read what they are
sent; no peer need write or leave. That peers read is an assumption: a handler
blocked in `send_all` is not under the timeout of `select`. In `Startup` the
process runs until it serves. `HttpProxy` assumes no fairness and claims no
liveness: its `recv` calls have no timeout.

### Where code and documentation disagree

These runs check a statement of the documentation, or of the program's own
messages, and TLC finds it violated; the findings in `PROJECT.json` quote the
statements.

| Run | What happens |
|---|---|
| `Server_pool_stop` | a signal during a blocked `accept` only sets the flag; the server goes on until the next client |
| `Http_truncated` | an answer cut short by an error of `recv` or `send` is stored as if it were complete ("Cache the response if enabled and successful") |
| `Access_unpadded` | credentials whose length is a multiple of three have no padding, and are decoded together with the header lines after them: the user is refused. The sample users all need padding |
| `RateLimit_full_address` | an address of 15 characters, 192.168.100.200 say, has no terminator in its entry, may not be found again, and then gets a full bucket at every request ("Per-IP tracking", "100 requests per minute per IP") |
| `Startup_precedence` | a setting of the file wins over one of the command line, and arguments after `-c` are not read ("Configuration Hierarchy", and the usage `-c proxy.conf --enable-ssl --enable-auth`) |

More places where the documentation promises more than the code does, or where the
code falls short, are visible in the models without a run of their own:

- *Shutdown.* Connections still queued are freed as work items and never closed
  (`fate = "dropped"`, an exception in `ExactlyOneOwner`); a failed submit is ignored
  in the hybrid model and the connection leaks (`Forgotten`); detached threads of the
  per-connection model may run while `main` frees what they use, and while
  `logger_cleanup` closes the file they write to (`NoHandlerAfterTeardown` is about
  workers and the main thread). The gauge of active connections is never lowered.
  The signal handler calls `printf`.
- *Silence.* A silent peer holds its worker for ever, and a peer that does not read
  holds it in `send_all`, in spite of ARCHITECTURE.md's "Timeout: Close connection
  gracefully".
- *Half-close.* The end of one direction ends both: a client that sends its request,
  shuts down its side and waits for the answer loses it. `LossHasCause` says what
  does hold.
- *SOCKS5.* A message that arrives in two pieces is refused, and payload sent before
  the reply is swallowed (`early`). The URL filter is not applied to SOCKS5 or TCP.
- *Configuration.* `FeaturesAsConfigured` is about the features that file and
  command line do not both set (`Undisputed`); for the others see `Startup_precedence`.
  `main` looks at no result of its initialisation calls, and serves without a cache, a
  balancer or a TLS context that was asked for (`failed`).
- *TLS.* No connection uses the context. A partial certificate, or a pair that does
  not match, exists and so is never generated again: TLS stays off until the operator
  removes it (`TlsOffHasCause` lists this cause). When only the certificate is
  missing, the operator's key is overwritten, and so is a file put in place after
  `access()` reported it missing.
- *Cache.* Updates in place take it over `max_size` until the next insertion.
- *Health.* docs/NEW_FEATURES.md:139-145 promises that backend health is monitored
  automatically, every 30 seconds, and "Automatic recovery when backend comes back".
  Nothing calls `loadbalancer_run_health_checks`, so that a backend marked unhealthy
  stays so until the process ends. No property states a recovery: it would hold only
  under a fairness that the code does not give.
- *Load balancer.* Round-robin and IP-hash return an unhealthy backend when there is
  no healthy one, and IP-hash rotates a client whose backend is down; they divide by
  zero without any backend. After 2^31 selections `current_index` is negative and
  the rotation starts at the head every time (`Plus`, `CRem`). A health check
  connects with the mutex held.
- *Rate limiter.* The bandwidth window tumbles, so that two windows can meet in one
  minute. After the clock was set back a bucket is not refilled until the clock has
  caught up, and a bandwidth window in the future makes the verdict undefined.
- *Credentials.* A user name or password of 128 bytes or more in a request runs over
  its buffer (`Overflows`); `AdmittedRight` is about credentials that fit (`Proper`).
  An account for which there is no memory is skipped without a word (`lost`).
- *SOCKS5 buffers.* A greeting with 255 methods and credentials longer than the 256
  bytes that `recv` takes are cut, and the rest is read as the next message;
  `HandshakeCompletes` is about clients whose messages fit.
- *Threads.* With `-t 0` the pool has no worker.

## 4. Proofs

Each `...Proofs` module proves its theorems for every value of the constants under
the `ASSUME`s of the module it extends; TLC evaluates those on every run. Every
proof goes the same way: an inductive invariant, one lemma per action or kind of
action, a theorem `Spec => []Inv`, and from it the invariants and the action
properties that the runs check. `PROJECT.json` lists the theorems.

| Module | Proved, besides the inductive invariant | Assumed of the constants |
|---|---|---|
| `ThreadPoolProofs` | `TypeOK`, `QueueWellFormed`, `NoLostWakeup`, `SingleOwner`, `NoUseAfterFree`, `LifeCycle`; the pool implements `WorkQueue!Safety` | a natural number of workers, `NULL` is no item |
| `ProxyServerProofs` | `TypeOK`, `ExactlyOneOwner`, `NoHandlerAfterTeardown` | the same, and that the models are the four |
| `CacheProofs` | `StructuresAgree`, `EvictionEnds`, `HitIsLatest`, `EvictsLeastRecentlyUsed` | sizes, ttls and clock readings are natural numbers, hashes are buckets, `NULL` is no entry |
| `HttpProxyProofs` | `CopyIsForwarded`, `RightOrigin`, `ContentIsGuarded`, `OlderOnlyIfOvertaken`, and `StructuresAgree` of the cache behind the handlers | buffer, answers and version bound are positive, requests are records with a URL, and those of the cache |
| `TunnelProofs` | `TypeOK`, `Conservation`, `LossHasCause`, `NoConnectionUnverified` | buffers and the bound on data are positive |
| `StartupProofs` | `TypeOK`, `FeaturesAsConfigured`, `TlsOffHasCause`, `GoodPairStays` | arguments and files are sequences of settings, words and comments |
| `ShareProofs`, limiter | `RequestRate`, `RefusalJustified`, `AdmitsWithinAverage` | naturals, a positive window, entries idle for at least a window before they are forgotten |
| `ShareProofs`, balancer | `ActiveMatchesHolders`, `HealthyPreferred`, `FairShare` | a backend at least, finitely many callers, natural weights and hashes, the four algorithms; for `FairShare` also `NoOverflow` |
| `AccessProofs` | `MatchInvariant`, `DecodedRight`, `AdmittedRight` | cases are strings, lists and bytes; output buffer and fields are not empty |

### The arguments

*The pool.* `PoolInv` is the conjunction of its six invariants, and none of the main
ones is inductive alone:

- `NoLostWakeup` says that while anybody sleeps, there are at least as many
  workers in `check` as queued items. A submission adds one item and, by its
  signal, one worker in `check`; taking an item removes one of each. When a
  worker goes to sleep the queue is empty. Shutdown wakes all, so that workers
  ending cannot break it; this last step needs `LifeCycle` (after shutdown nobody
  sleeps).
- `NoUseAfterFree` needs `LifeCycle`: the workers joined are exactly those that
  exist, `num_threads` having been corrected when `pthread_create` failed.
- `SingleOwner` needs `QueueWellFormed`: the item taken is the first of
  `pending`, and no item is queued twice.
- That destroy frees exactly the queued items (`LinkedIsQueued`) is an induction
  along the list, done with a least counterexample (`WFMin`).

`PoolRefinesWorkQueue`: every step of the pool is a step of the first-in first-out
executor with `NumThreads` slots, or changes nothing it can see. That no more than
`NumThreads` items are started at once is the one cardinality argument.

*The server.* Every step of the server is a step of its pool or leaves the pool
alone (`PoolStep`), so `PoolInv` is carried over through an instance of the pool's
proofs. `PlaceInv` ties the main thread's place to the pool's phase, `ConnInv` a
connection's state to its fate; together with `SingleOwner` they give the one owner,
with `NoUseAfterFree` the teardown.

*The cache.* `Sound` says of any contents, not only the current ones, that chains,
list, entries and byte count agree. `Unlink` preserves it (a list with one element
taken out sums up to one size less, `SumWithout`), hence by induction each
`Evictions[n]` is sound and is the list without its first n entries
(`EvictionsRight`). With the list empty the count is zero, and an admissible size
fits. `InOrder` says that the list is in the order of `recency`, and `latest` equals
`entry`. The recursive functions of the model are shown to exist first
(`SumExists`, `EvictionsExist`), since TLA+ defines them by `CHOOSE`.

*The handlers.* `CacheStep`: each step of a handler is a step of the cache or leaves
it alone; what a handler stores is an answer some origin gives (`BodyIsAnswer`), for
which the copy must fit its buffer and be what was forwarded. So the cache's invariant
carries over, and a store changes only its own URL's entry or drops others
(`EntryStep`). `VersionInv` says that a handler nobody overtook fetches nothing older
than what is cached; `RouteInv` that `gethostbyname`'s answer is the handler's own
until another lookup; `GuardInv` that a handler past the checks has passed them.

*The tunnels.* `RelayInv` holds of every step of the loop, whichever tunnel it is in:
what a peer wrote is received, held, on its way, delivered, lost or swallowed, and
the handler that ends has a reason, which `LossHasCause` needs. The handshake adds
what was verified in each phase.

*The start.* `ParseInv` says that the arguments and lines read so far have set each
feature to its last value; `UpInv` what is set up at each point of `main`, given what
failed in this start; `FilesInv` in which states the two files can be while a pair is
written and loaded, as long as the operator has not touched them. It is inductive over
crashes because a crash takes the process back to where `FilesInv` says nothing of the
files, and over the operator's changes because `touched` then lifts what it says.

*The rate.* `Balanced` is an exact account per bucket: no run of requests has spent
more than the law allows, and unless the bucket is full or the clock was ever set back
some run has spent exactly that. The first half gives `RequestRate`, the second
`RefusalJustified`. What a run may have earned reaches to the latest time the clock has
shown since (`peak`): `last_refill` never goes back, so that a clock set back and forth
earns nothing twice. The account is about the addresses that leave room for a
terminator (`Short`), with any number of longer ones beside them: an address that
fills its field may get a second bucket, as the run `RateLimit_full_address` shows.

*The averages.* `TrackerInv` says that a short address has at most one tracker, through
renewals, forgetting and cleanup (`KeptIs`). A transfer fits when the average so far,
rounded down, leaves room for it; that the sum then stays within `Limit * Duration`
(`FittingKeepsAverage`) takes a transfer of at least one byte and a window that has
begun: a window over its limit by less than a byte per second lets an empty transfer
through, and of a window in the future nothing can be said.

*The balancer.* `Counted` says that `active_connections` is the cardinality of the
callers that hold a backend, so that the guard in release never acts. `RoundRobinIs`
and `WeightedIs` say which backend an algorithm finds: the `CHOOSE` has a witness, and
a running sum (`UpTo`, whose existence `SumsExist` shows) passes the target at exactly
one healthy backend. `SelectIs` joins the four, and gives `HealthyPreferred` for any
value of `current_index`, also a negative one.

For `FairShare` both rotations are one: plain round-robin is a weighted rotation in
which each healthy backend weighs 1. `Given` counts the turns dealt so far; the index
modulo the list moves past unhealthy backends without dealing any (`RoundRobinTurn`),
and in the weighted rotation the index is the count. `Passed(c, T, lo, hi)` is how many
of the first c turns fall into the part from lo to hi of a round of T, and `Account`
says that a backend's share is what was passed in its part since the last `turns`
turns. One turn moves one part by one (`PassedNext`, `TurnTaken`), and a round moves
each by its length (`PassedRound`), wherever it began. `NoOverflow` bounds the
selections so that `current_index` does not wrap around; after it has, the rotation
is indeed not fair.

*The checks.* `Loop` is the invariant of `pattern_match` over the table of suffixes
that match (`From`): the pattern matches if and only if the rests match, or a longer
match of the last star lets them. Two facts make it inductive: since the last star
only literal characters and `?` were passed, and only in step. `Progress` says how
far the decoder has come in groups of four characters and three bytes; the pad or
the first character outside the alphabet ends it, where `Delimited` holds. Decoding
and matching are then joined by the order of the checks (`PlaceInv`, `StageInv`).

### What is only model-checked

- Liveness: `PoolRefinesWorkQueue` is about the safety part of `WorkQueue`, its
  fairness is checked by the run `ThreadPool`; likewise that destroy returns, service,
  shutdown, delivery, the handshakes, repair of a certificate, and that every
  check ends.
- `LoadBalancer` after `current_index` has overflowed: the run's `MaxIndex` stays below
  `IntMax` too, so that beyond it `FairShare` is neither checked nor claimed.
- `TypeOK` of `HttpProxy`: its inductive invariant has the types the proofs need, with
  natural numbers where `TypeOK` has bounds.

## 5. Not modelled

- Compression: nothing in `src/` calls the functions that compress, and their work is
  done by zlib.
- TLS on connections: the functions have no caller and are thin wrappers of OpenSSL.
- The logger and the printed statistics only write text. The logger's one hazard is
  described above.
- Numbers, names and paths of the configuration are the constants of the modules;
  `Startup` models which features are on.
- Ports, the wording of replies, the text of requests: a request is a record, a
  reply a name.
- `recv_all` has no caller.

## 6. Plan

All modules of the plan are written, and every invariant and every action property
that a passing run checks is proved, with the safety part of the refinement. Next:

1. `TypeOK` of `HttpProxy` with its bounds.
2. Shorter proofs: the lemmas on least elements and induction that several proof
   modules state for themselves (`Least`, `Steps`, `Induct`), in one module.
