----------------------------- MODULE ProxyServer -----------------------------
(***************************************************************************)
(* The life of the server process: main, proxy_server_init, the accept     *)
(* loop of each threading model, the handler that every accepted           *)
(* connection gets, the signal handler, and the cleanup that ends in       *)
(* main's return.  Under the "pool" and "hybrid" models the main thread is *)
(* the owner of the worker pool of ThreadPool, whose steps are taken over  *)
(* unchanged; the connections are its work items.                          *)
(*                                                                         *)
(* A handler (connection_handle) is abstracted to its blocking: it returns *)
(* once the client, or the upstream server it is relayed to, has done what *)
(* the handler waits for.  The handlers' recv calls have no timeout.       *)
(***************************************************************************)
EXTENDS Naturals, Sequences, FiniteSets

CONSTANTS Models,      \* the threading models the server may be started with
          NumThreads,  \* g_config.num_threads
          Conns,       \* the connections clients may open, each once
          NULL

ASSUME ModelsAssumption == Models \subseteq {"pool", "hybrid", "event", "perconn"}
ASSUME PoolAssumption == NumThreads \in Nat /\ NULL \notin Conns

VARIABLES phase, spawned, num_threads, joined, shutdown, head, tail, next,
          count, wpc, witem, pending, fate    \* the pool, see ThreadPool

VARIABLES
    model,      \* g_config.thread_model
    mpc,        \* where the main thread is
    g_running,
    cur,        \* the connection in the main thread's hands, or NULL
    conn,       \* every connection: "absent", "backlog", "open", "closed"
    answered,   \* connections whose peers let the handler's calls return
    detached,   \* connections handled by a detached thread
    total_connections, active_connections    \* g_stats

Pool == INSTANCE ThreadPool WITH Items <- Conns

poolVars == <<phase, spawned, num_threads, joined, shutdown, head, tail, next,
              count, wpc, witem, pending, fate>>
netVars  == <<conn, answered>>
stats    == <<total_connections, active_connections>>
vars     == <<poolVars, model, mpc, g_running, cur, netVars, detached, stats>>

UsesPool  == model \in {"pool", "hybrid"}
UsesEpoll == model \in {"event", "hybrid"}

MainPlaces == {"init", "pool", "epoll", "abort", "loop", "accept", "dispatch",
               "inline", "cleanup", "destroy", "close", "torn", "exit"}

\* The listening socket exists.
Listening == mpc \notin {"init", "torn", "exit"}

\* Connections some worker is handling.
Handled == {witem[w] : w \in Pool!Running}

Init ==
    /\ Pool!Init
    /\ model \in Models
    /\ mpc = "init"
    /\ g_running = TRUE
    /\ cur = NULL
    /\ conn = [c \in Conns |-> "absent"]
    /\ answered = {} /\ detached = {}
    /\ total_connections = 0 /\ active_connections = 0

-----------------------------------------------------------------------------
(* The environment.                                                        *)

ClientConnects(c) ==
    /\ Listening
    /\ conn[c] = "absent"
    /\ conn' = [conn EXCEPT ![c] = "backlog"]
    /\ UNCHANGED <<poolVars, mpc, model, g_running, cur, answered, detached, stats>>

\* The peers send, answer or hang up: nothing the handler does can block now.
PeersAnswer(c) ==
    /\ conn[c] \in {"backlog", "open"}
    /\ answered' = answered \cup {c}
    /\ UNCHANGED <<poolVars, mpc, model, g_running, cur, conn, detached, stats>>

\* SIGINT or SIGTERM.  glibc's signal() sets SA_RESTART, so a blocked accept
\* goes on; epoll_wait is never restarted and ends by itself every second.
Signal ==
    /\ mpc # "exit"
    /\ g_running
    /\ g_running' = FALSE
    /\ UNCHANGED <<model, poolVars, mpc, cur, netVars, detached, stats>>

-----------------------------------------------------------------------------
(* Connections.                                                            *)

\* connection_create: the connection exists and is counted.
ConnectionCreate(c) ==
    /\ conn' = [conn EXCEPT ![c] = "open"]
    /\ total_connections' = total_connections + 1
    /\ active_connections' = active_connections + 1

\* connection_destroy closes and frees; it leaves the statistics alone.
ConnectionDestroy(c) ==
    /\ conn' = [conn EXCEPT ![c] = "closed"]
    /\ UNCHANGED stats

\* The end of the process: the kernel closes every socket, threads vanish.
ProcessEnds ==
    /\ mpc' = "exit"
    /\ conn' = [c \in Conns |-> IF conn[c] = "absent" THEN "absent" ELSE "closed"]
    /\ detached' = {}

-----------------------------------------------------------------------------
(* proxy_server_init.                                                      *)

\* Where the main thread goes once the pool, if any, exists.
AfterPool == IF UsesEpoll THEN "epoll" ELSE "loop"

SocketOpens ==
    /\ mpc = "init"
    /\ mpc' = IF UsesPool THEN "pool" ELSE AfterPool
    /\ UNCHANGED <<poolVars, model, g_running, cur, netVars, detached, stats>>

\* create_server_socket fails, main returns 1.
SocketFails ==
    /\ mpc = "init"
    /\ ProcessEnds
    /\ UNCHANGED <<poolVars, model, g_running, cur, answered, stats>>

\* One step of thread_pool_create, which returns a pool or NULL; when a worker
\* cannot be created it destroys what there is first.
CreatePool ==
    /\ mpc = "pool"
    /\ Pool!Create \/ Pool!Destroy
    /\ IF phase' = "gone" THEN ProcessEnds
       ELSE mpc' = (IF phase' = "live" THEN AfterPool ELSE "pool") /\ UNCHANGED <<conn, detached>>
    /\ UNCHANGED <<model, g_running, cur, answered, stats>>

EpollOpens ==
    /\ mpc = "epoll"
    /\ mpc' = "loop"
    /\ UNCHANGED <<poolVars, model, g_running, cur, netVars, detached, stats>>

\* epoll_create1 or epoll_ctl fails: the pool, if there is one, is destroyed
\* before main returns 1.
EpollFails ==
    /\ mpc = "epoll"
    /\ IF UsesPool THEN Pool!BeginDestroy /\ mpc' = "abort" /\ UNCHANGED <<conn, detached>>
       ELSE UNCHANGED poolVars /\ ProcessEnds
    /\ UNCHANGED <<model, g_running, cur, answered, stats>>

AbortInit ==
    /\ mpc = "abort"
    /\ Pool!Destroy
    /\ IF phase' = "gone" THEN ProcessEnds
       ELSE mpc' = "abort" /\ UNCHANGED <<conn, detached>>
    /\ UNCHANGED <<model, g_running, cur, answered, stats>>

-----------------------------------------------------------------------------
(* The accept loops.                                                       *)

TestRunning ==
    /\ mpc = "loop"
    /\ mpc' = IF g_running THEN "accept" ELSE "cleanup"
    /\ UNCHANGED <<poolVars, model, g_running, cur, netVars, detached, stats>>

\* Faulty variant: epoll_wait without a timeout.
WaitEndsOnlyOnConnection ==
    /\ mpc = "accept"
    /\ \E c \in Conns : conn[c] = "backlog"
    /\ mpc' = "loop"
    /\ UNCHANGED <<poolVars, model, g_running, cur, netVars, detached, stats>>

\* epoll_wait times out or is interrupted; accept fails.  Back to the test.
WaitEnds ==
    /\ mpc = "accept"
    /\ mpc' = "loop"
    /\ UNCHANGED <<poolVars, model, g_running, cur, netVars, detached, stats>>

\* epoll_wait fails for another reason: the loop is left.
PollBreaks ==
    /\ mpc = "accept"
    /\ UsesEpoll
    /\ mpc' = "cleanup"
    /\ UNCHANGED <<poolVars, model, g_running, cur, netVars, detached, stats>>

Accept(c) ==
    /\ mpc = "accept"
    /\ conn[c] = "backlog"
    /\ ConnectionCreate(c)
    /\ cur' = c
    /\ mpc' = "dispatch"
    /\ UNCHANGED <<poolVars, model, g_running, answered, detached>>

\* connection_create returns NULL: the accepted socket is closed.
AcceptWithoutMemory(c) ==
    /\ mpc = "accept"
    /\ conn[c] = "backlog"
    /\ conn' = [conn EXCEPT ![c] = "closed"]
    /\ mpc' = "loop"
    /\ UNCHANGED <<poolVars, model, g_running, cur, answered, detached, stats>>

\* The main thread lets go of the connection and tests g_running again.
BackToLoop == mpc' = "loop" /\ cur' = NULL

\* Faulty variant: the connection is destroyed although a worker will use it.
DispatchToPoolDestroys ==
    /\ mpc = "dispatch"
    /\ UsesPool
    /\ Pool!Submit(cur)
    /\ ConnectionDestroy(cur)
    /\ BackToLoop
    /\ UNCHANGED <<model, g_running, answered, detached>>

DispatchToPool ==
    /\ mpc = "dispatch"
    /\ UsesPool
    /\ Pool!Submit(cur)
    /\ BackToLoop
    /\ UNCHANGED <<model, g_running, netVars, detached, stats>>

\* The pool loop destroys the connection it could not submit; the event loop
\* ignores what thread_pool_submit returns.
DispatchToPoolFails ==
    /\ mpc = "dispatch"
    /\ UsesPool
    /\ Pool!SubmitFails(cur)
    /\ IF model = "pool" THEN ConnectionDestroy(cur) ELSE UNCHANGED <<conn, stats>>
    /\ BackToLoop
    /\ UNCHANGED <<model, g_running, answered, detached>>

DispatchInline ==
    /\ mpc = "dispatch"
    /\ model = "event"
    /\ mpc' = "inline"
    /\ UNCHANGED <<poolVars, model, g_running, cur, netVars, detached, stats>>

DispatchToThread ==
    /\ mpc = "dispatch"
    /\ model = "perconn"
    /\ detached' = detached \cup {cur}
    /\ BackToLoop
    /\ UNCHANGED <<poolVars, model, g_running, netVars, stats>>

\* pthread_create fails.
DispatchToThreadFails ==
    /\ mpc = "dispatch"
    /\ model = "perconn"
    /\ ConnectionDestroy(cur)
    /\ BackToLoop
    /\ UNCHANGED <<poolVars, model, g_running, answered, detached>>

-----------------------------------------------------------------------------
(* handle_connection_worker, in the thread that runs it: the handler       *)
(* returns and the connection is destroyed.                                *)

\* Faulty variant: the handler forgets connection_destroy.
HandlerLeaks(c) == c \in answered /\ UNCHANGED <<conn, stats>>

HandlerReturns(c) == c \in answered /\ ConnectionDestroy(c)

FinishInline ==
    /\ mpc = "inline"
    /\ HandlerReturns(cur)
    /\ BackToLoop
    /\ UNCHANGED <<poolVars, model, g_running, answered, detached>>

FinishDetached(c) ==
    /\ c \in detached
    /\ HandlerReturns(c)
    /\ detached' = detached \ {c}
    /\ UNCHANGED <<poolVars, mpc, model, g_running, cur, answered>>

FinishWorker(w) ==
    /\ wpc[w] = "running"
    /\ HandlerReturns(witem[w])
    /\ Pool!FinishItem(w)
    /\ UNCHANGED <<mpc, model, g_running, cur, answered, detached>>

\* The pool's own steps of a worker: wait, wake, take a connection, end.
Worker(w) ==
    /\ Pool!Work(w)
    /\ UNCHANGED <<mpc, model, g_running, cur, netVars, detached, stats>>

SpuriousWake(w) ==
    /\ Pool!SpuriousWake(w)
    /\ UNCHANGED <<mpc, model, g_running, cur, netVars, detached, stats>>

-----------------------------------------------------------------------------
(* proxy_server_cleanup and the end of main.                               *)

\* Faulty variant: the pool is not destroyed.
CleanupKeepsPool ==
    /\ mpc = "cleanup"
    /\ mpc' = "close"
    /\ UNCHANGED <<poolVars, model, g_running, cur, netVars, detached, stats>>

Cleanup ==
    /\ mpc = "cleanup"
    /\ IF UsesPool THEN Pool!BeginDestroy /\ mpc' = "destroy"
       ELSE UNCHANGED poolVars /\ mpc' = "close"
    /\ UNCHANGED <<model, g_running, cur, netVars, detached, stats>>

DestroyPool ==
    /\ mpc = "destroy"
    /\ Pool!Destroy
    /\ mpc' = IF phase' = "gone" THEN "close" ELSE "destroy"
    /\ UNCHANGED <<model, g_running, cur, netVars, detached, stats>>

\* The listening socket is closed, which resets the backlog, the statistics
\* are printed, and main frees the cache, the users, the filters, the load
\* balancer, the TLS context and the log file.
Teardown ==
    /\ mpc = "close"
    /\ mpc' = "torn"
    /\ conn' = [c \in Conns |-> IF conn[c] = "backlog" THEN "closed" ELSE conn[c]]
    /\ UNCHANGED <<poolVars, model, g_running, cur, answered, detached, stats>>

MainReturns ==
    /\ mpc = "torn"
    /\ ProcessEnds
    /\ UNCHANGED <<poolVars, model, g_running, cur, answered, stats>>

-----------------------------------------------------------------------------
Main ==
    \/ SocketOpens \/ SocketFails \/ CreatePool \/ EpollOpens \/ EpollFails \/ AbortInit
    \/ TestRunning
    \/ DispatchToPool \/ DispatchToPoolFails \/ DispatchInline
    \/ DispatchToThread \/ DispatchToThreadFails
    \/ FinishInline
    \/ Cleanup \/ DestroyPool \/ Teardown \/ MainReturns

\* A connection in the backlog makes accept return, and epoll_wait before it.
AcceptPending == \E c \in Conns : Accept(c) \/ AcceptWithoutMemory(c)

\* The process is gone.
Exited == mpc = "exit" /\ UNCHANGED vars

Next ==
    \/ Main \/ WaitEnds \/ PollBreaks \/ Signal
    \/ AcceptPending
    \/ \E c \in Conns : ClientConnects(c) \/ PeersAnswer(c) \/ FinishDetached(c)
    \/ \E w \in Pool!Threads : Worker(w) \/ SpuriousWake(w) \/ FinishWorker(w)
    \/ Exited

\* Threads are scheduled, a pending connection ends accept, and epoll_wait has
\* a timeout of a second.  Without a connection a blocked accept stays blocked.
ServerFairness ==
    /\ WF_vars(Main)
    /\ WF_vars(AcceptPending)
    /\ WF_vars(UsesEpoll /\ WaitEnds)
    /\ \A w \in Pool!Threads : WF_vars(Worker(w)) /\ WF_vars(FinishWorker(w))
    /\ \A c \in Conns : WF_vars(FinishDetached(c))

\* Peers that answer or hang up sooner or later.
PeerFairness == \A c \in Conns : WF_vars(PeersAnswer(c))

Spec == Init /\ [][Next]_vars /\ ServerFairness /\ PeerFairness

-----------------------------------------------------------------------------
(* Properties.                                                             *)

\* Every variable of server.c and stats.c keeps its type, the pool's too.
TypeOK ==
    /\ Pool!TypeOK
    /\ model \in Models
    /\ mpc \in MainPlaces
    /\ g_running \in BOOLEAN
    /\ cur \in Conns \cup {NULL}
    /\ conn \in [Conns -> {"absent", "backlog", "open", "closed"}]
    /\ answered \subseteq Conns /\ detached \subseteq Conns
    /\ total_connections \in Nat /\ active_connections \in Nat
    /\ (cur # NULL) <=> (mpc \in {"dispatch", "inline"})

\* Who may still use a connection: the main thread, the queue, a worker, or a
\* detached thread.
Owners(c) ==
    {o \in {"main", "queue", "worker", "thread"} :
       \/ o = "main" /\ c = cur
       \/ o = "queue" /\ c \in Pool!Queued
       \/ o = "worker" /\ c \in Handled
       \/ o = "thread" /\ c \in detached}

\* A connection that the event loop could not submit and did not close.
Forgotten(c) == model = "hybrid" /\ fate[c] = "refused"

\* No connection is used after connection_destroy, used by two threads, or lost,
\* up to the exit: an open connection is in the hands of exactly one owner, who
\* will destroy it, and another one in nobody's.  Two kinds of open connections
\* have no owner: those whose submission failed in the event loop, and those
\* that were still queued when the pool was destroyed.
ExactlyOneOwner ==
    \A c \in Conns :
        Cardinality(Owners(c)) =
            IF conn[c] = "open" /\ ~Forgotten(c) /\ fate[c] # "dropped" THEN 1 ELSE 0

\* main frees the cache, the log and the filters only when no worker and not
\* the main thread itself is in a handler that uses them.
NoHandlerAfterTeardown == (mpc = "torn") => (Handled = {} /\ cur = NULL)

\* With peers that answer or hang up, every accepted connection is closed.
Served ==
    \A c \in Conns : (conn[c] = "open") ~> (conn[c] = "closed" \/ Forgotten(c))

\* A signal ends the server under the models that wait in epoll: it leaves its
\* loop, waits for the workers and exits.
ShutdownCompletes == (~g_running /\ UsesEpoll) ~> (mpc = "exit")

\* The message at start: a signal ends the server, whatever the model.
SignalStops == (~g_running) ~> (mpc = "exit")
==============================================================================
