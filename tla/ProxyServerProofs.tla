-------------------------- MODULE ProxyServerProofs --------------------------
(***************************************************************************)
(* For every threading model, number of workers and set of connections:    *)
(* the server uses the pool as ThreadPool has it, an open connection has    *)
(* exactly one owner, and nothing is torn down under a running handler.    *)
(***************************************************************************)
EXTENDS ProxyServer, TLAPS, FiniteSetTheorems

\* The pool of the server, with what was proved about it.
PP == INSTANCE ThreadPoolProofs WITH Items <- Conns

\* The phase the pool is in at each place of the main thread.
PlaceInv ==
    /\ ~UsesPool => (phase = "none" /\ mpc \notin {"pool", "abort", "destroy"})
    /\ UsesPool =>
          /\ (mpc = "init") => (phase = "none")
          /\ (mpc = "pool") => (phase \in {"none", "creating", "joining"})
          /\ (mpc \in {"epoll", "loop", "accept", "dispatch", "inline", "cleanup"}) => (phase = "live")
          /\ (mpc \in {"abort", "destroy"}) => (phase = "joining")
          /\ (mpc \in {"close", "torn"}) => (phase = "gone")
          /\ (mpc = "exit") => (phase \in {"none", "gone"})

\* What a connection's state says about who has it.
ConnInv ==
    \A c \in Conns :
        /\ (c = cur) => (conn[c] = "open" /\ fate[c] = "new" /\ c \notin detached)
        /\ (c \in detached) => (conn[c] = "open" /\ fate[c] = "new")
        /\ (fate[c] \in {"queued", "running"}) => (conn[c] = "open")
        /\ (fate[c] = "done") => (conn[c] = "closed")
        /\ (fate[c] = "refused") => (conn[c] = "closed" \/ model = "hybrid")
        /\ (conn[c] \in {"absent", "backlog"}) => (fate[c] = "new")
        /\ (conn[c] = "open" /\ fate[c] = "new") => (c = cur \/ c \in detached)

ServerInv == PP!PoolInv /\ TypeOK /\ PlaceInv /\ ConnInv

-----------------------------------------------------------------------------
(* The server's pool is the pool of ThreadPoolProofs.                      *)

\* The two instances of the pool agree on its state.
LEMMA SameState ==
    /\ Pool!Threads = PP!Threads /\ Pool!Running = PP!Running /\ Pool!Queued = PP!Queued
    /\ Pool!TypeOK <=> PP!TypeOK
    /\ poolVars = PP!poolVars
<1>1. Pool!Threads = PP!Threads
  BY DEF Pool!Threads, PP!Threads
<1>2. Pool!Running = PP!Running /\ Pool!Queued = PP!Queued
  BY <1>1 DEF Pool!Running, PP!Running, Pool!Queued, PP!Queued
<1>3. Pool!TypeOK <=> PP!TypeOK
  BY <1>1
  DEF Pool!TypeOK, PP!TypeOK, Pool!Phases, PP!Phases, Pool!WorkerStates, PP!WorkerStates,
      Pool!Fates, PP!Fates
<1>4. QED
  BY <1>1, <1>2, <1>3 DEF poolVars, PP!poolVars

\* The two instances agree on the steps of the owner and of the workers.
LEMMA SameSteps ==
    /\ Pool!Init => PP!Init
    /\ Pool!Create => PP!Create
    /\ Pool!BeginDestroy => PP!BeginDestroy
    /\ Pool!Destroy => PP!Destroy
    /\ \A c \in Conns : (Pool!Submit(c) => PP!Submit(c)) /\ (Pool!SubmitFails(c) => PP!SubmitFails(c))
    /\ \A w \in PP!Threads : /\ Pool!Work(w) => PP!Work(w)
                             /\ Pool!FinishItem(w) => PP!FinishItem(w)
                             /\ Pool!SpuriousWake(w) => PP!SpuriousWake(w)
<1>0. Pool!Threads = PP!Threads /\ Pool!Waiting = PP!Waiting
  BY DEF Pool!Threads, PP!Threads, Pool!Waiting, PP!Waiting
<1>1. Pool!Init => PP!Init
  BY <1>0 DEF Pool!Init, PP!Init
<1>2. Pool!StartShutdown => PP!StartShutdown
  BY <1>0
  DEF Pool!StartShutdown, PP!StartShutdown, Pool!CondBroadcast, PP!CondBroadcast
<1>3. Pool!Create => PP!Create
  BY <1>2
  DEF Pool!Create, PP!Create, Pool!PoolAlloc, PP!PoolAlloc, Pool!PoolAllocFails,
      PP!PoolAllocFails, Pool!SpawnWorker, PP!SpawnWorker, Pool!SpawnFails, PP!SpawnFails,
      Pool!CreateReturns, PP!CreateReturns, Pool!queueVars, PP!queueVars, Pool!workerVars,
      PP!workerVars
<1>4. Pool!BeginDestroy => PP!BeginDestroy
  BY <1>2
  DEF Pool!BeginDestroy, PP!BeginDestroy, Pool!queueVars, PP!queueVars
<1>5. Pool!Linked = PP!Linked
  BY DEF Pool!Linked, PP!Linked
<1>6. Pool!Destroy => PP!Destroy
  BY <1>5
  DEF Pool!Destroy, PP!Destroy, Pool!JoinNext, PP!JoinNext, Pool!FreePool, PP!FreePool,
      Pool!queueVars, PP!queueVars, Pool!workerVars, PP!workerVars
<1>7. ASSUME NEW c \in Conns
      PROVE  (Pool!Submit(c) => PP!Submit(c)) /\ (Pool!SubmitFails(c) => PP!SubmitFails(c))
  BY <1>0
  DEF Pool!Submit, PP!Submit, Pool!SubmitFails, PP!SubmitFails, Pool!Enqueue, PP!Enqueue,
      Pool!CondSignal, PP!CondSignal, Pool!ownerVars, PP!ownerVars, Pool!queueVars,
      PP!queueVars, Pool!workerVars, PP!workerVars
<1>8. ASSUME NEW w \in PP!Threads
      PROVE  /\ Pool!Work(w) => PP!Work(w)
             /\ Pool!FinishItem(w) => PP!FinishItem(w)
             /\ Pool!SpuriousWake(w) => PP!SpuriousWake(w)
  BY DEF Pool!Work, PP!Work, Pool!Sleep, PP!Sleep, Pool!ExitWorker, PP!ExitWorker, Pool!Take,
      PP!Take, Pool!Dequeue, PP!Dequeue, Pool!FinishItem, PP!FinishItem, Pool!SpuriousWake,
      PP!SpuriousWake, Pool!ownerVars, PP!ownerVars, Pool!queueVars, PP!queueVars,
      Pool!workerVars, PP!workerVars
<1>9. QED
  BY <1>1, <1>3, <1>4, <1>6, <1>7, <1>8

\* The main thread submits the connection in its hands.
LEMMA SubmitsCurrent ==
    ASSUME TypeOK, DispatchToPool \/ DispatchToPoolFails
    PROVE  \E c \in Conns : c = cur /\ ((DispatchToPool /\ PP!Submit(c))
                                        \/ (DispatchToPoolFails /\ PP!SubmitFails(c)))
<1>1. PICK c \in Conns : c = cur
  BY DEF TypeOK, DispatchToPool, DispatchToPoolFails
<1>2. DispatchToPool => Pool!Submit(c)
  BY <1>1 DEF DispatchToPool, Pool!Submit, Pool!Enqueue
<1>3. DispatchToPoolFails => Pool!SubmitFails(c)
  BY <1>1 DEF DispatchToPoolFails, Pool!SubmitFails
<1>4. QED
  BY <1>1, <1>2, <1>3, SameSteps

\* Every step of the server is a step of its pool or leaves the pool alone.
LEMMA PoolStep ==
    ASSUME TypeOK, [Next]_vars
    PROVE  [PP!Next]_(PP!poolVars)
<1>0. UNCHANGED poolVars => UNCHANGED PP!poolVars
  BY DEF poolVars, PP!poolVars
<1>1. CASE CreatePool
  BY <1>1, SameSteps DEF CreatePool, PP!Next
<1>2. CASE EpollFails \/ Cleanup
  BY <1>0, <1>2, SameSteps DEF EpollFails, Cleanup, PP!Next
<1>3. CASE AbortInit \/ DestroyPool
  BY <1>3, SameSteps DEF AbortInit, DestroyPool, PP!Next
<1>4. CASE DispatchToPool \/ DispatchToPoolFails
  BY <1>4, SubmitsCurrent DEF PP!Next
<1>5. ASSUME NEW w \in Pool!Threads, Worker(w) \/ SpuriousWake(w) \/ FinishWorker(w)
      PROVE  PP!Next
  BY <1>5, SameSteps, SameState DEF Worker, SpuriousWake, FinishWorker, PP!Next
<1>6. CASE SocketOpens \/ SocketFails \/ EpollOpens \/ TestRunning \/ DispatchInline \/ DispatchToThread
           \/ DispatchToThreadFails \/ FinishInline \/ Teardown \/ MainReturns \/ WaitEnds \/ PollBreaks
           \/ Signal \/ AcceptPending \/ UNCHANGED vars
  BY <1>0, <1>6
  DEF SocketOpens, SocketFails, EpollOpens, TestRunning, DispatchInline, DispatchToThread,
      DispatchToThreadFails, FinishInline, Teardown, MainReturns, WaitEnds, PollBreaks, Signal,
      AcceptPending, Accept, AcceptWithoutMemory, vars
<1>7. ASSUME NEW c \in Conns, ClientConnects(c) \/ PeersAnswer(c) \/ FinishDetached(c)
      PROVE  UNCHANGED PP!poolVars
  BY <1>0, <1>7 DEF ClientConnects, PeersAnswer, FinishDetached
<1>8. QED
  BY <1>1, <1>2, <1>3, <1>4, <1>5, <1>6, <1>7 DEF Next, Main, Exited

\* Nothing is queued and no worker runs before the pool exists or after it.
LEMMA QuietPool ==
    ASSUME PP!PoolInv, phase \in {"none", "gone"}
    PROVE  PP!Running = {} /\ \A c \in Conns : fate[c] \notin {"queued", "running"}
<1>1. pending = <<>>
  BY DEF PP!PoolInv, PP!LifeCycle
<1>2. \A w \in PP!Threads : wpc[w] \in {"none", "exited"}
  <2>1. CASE phase = "gone"
    BY <2>1 DEF PP!PoolInv, PP!NoUseAfterFree
  <2>2. CASE phase = "none"
    BY <2>2, PoolAssumption DEF PP!PoolInv, PP!LifeCycle, PP!Threads
  <2>3. QED
    BY <2>1, <2>2
<1>3. PP!Running = {}
  BY <1>2 DEF PP!Running
<1>4. PP!Queued = {}
  BY <1>1 DEF PP!Queued
<1>5. QED
  BY <1>3, <1>4 DEF PP!PoolInv, PP!SingleOwner

\* The owner's steps change an item's fate only by dropping it from the queue.
LEMMA OwnerFate ==
    ASSUME PP!PoolInv, PP!Create \/ PP!BeginDestroy \/ PP!Destroy
    PROVE  \A c \in Conns : fate'[c] = fate[c] \/ (fate[c] = "queued" /\ fate'[c] = "dropped")
<1>1. CASE PP!FreePool
  <2>1. PP!Linked = PP!Queued
    BY PP!LinkedIsQueued, PoolAssumption DEF PP!PoolInv
  <2>2. QED
    BY <1>1, <2>1 DEF PP!FreePool, PP!PoolInv, PP!SingleOwner
<1>2. CASE ~PP!FreePool
  BY <1>2 DEF PP!Create, PP!BeginDestroy, PP!Destroy, PP!PoolAlloc, PP!PoolAllocFails, PP!SpawnWorker,
              PP!SpawnFails, PP!CreateReturns, PP!JoinNext
<1>3. QED
  BY <1>1, <1>2

\* A worker's steps change an item's fate only by starting it.
LEMMA WorkFate ==
    ASSUME PP!PoolInv, NEW w \in PP!Threads, PP!Work(w) \/ PP!SpuriousWake(w)
    PROVE  /\ \A c \in Conns : fate'[c] = fate[c] \/ (fate[c] = "queued" /\ fate'[c] = "running")
           /\ phase' = phase
<1>1. CASE PP!Take(w) /\ head # NULL
  <2>1. head \in PP!Queued
    BY <1>1 DEF PP!Take, PP!PoolInv, PP!QueueWellFormed, PP!TypeOK, PP!Queued
  <2>2. fate[head] = "queued" /\ head \in Conns
    BY <1>1, <2>1 DEF PP!PoolInv, PP!SingleOwner, PP!TypeOK
  <2>3. QED
    BY <1>1, <2>2 DEF PP!Take, PP!ownerVars, PP!PoolInv, PP!TypeOK
<1>2. CASE ~(PP!Take(w) /\ head # NULL)
  BY <1>2 DEF PP!Work, PP!Take, PP!Sleep, PP!ExitWorker, PP!SpuriousWake, PP!ownerVars
<1>3. QED
  BY <1>1, <1>2

-----------------------------------------------------------------------------
(* The main thread and the connections.                                    *)

\* The phases the owner's steps lead to.
LEMMA OwnerPhases ==
    /\ PP!Create => \/ phase = "none" /\ phase' \in {"creating", "gone"}
                    \/ phase = "creating" /\ phase' \in {"creating", "joining", "live"}
    /\ PP!BeginDestroy => (phase = "live" /\ phase' = "joining")
    /\ PP!Destroy => (phase = "joining" /\ phase' \in {"joining", "gone"})
BY DEF PP!Create, PP!BeginDestroy, PP!Destroy, PP!PoolAlloc, PP!PoolAllocFails, PP!SpawnWorker,
       PP!SpawnFails, PP!CreateReturns, PP!JoinNext, PP!FreePool, PP!StartShutdown

\* The pool's phase fits the place of the main thread after every step.
LEMMA PlaceStep ==
    ASSUME PP!PoolInv, TypeOK, PlaceInv, [Next]_vars
    PROVE  PlaceInv'
<1> USE DEF PlaceInv, UsesPool
<1>0. model' = model /\ mpc \in MainPlaces
  BY DEF TypeOK, Next, Main, vars, Exited, SocketOpens, SocketFails, CreatePool, EpollOpens, EpollFails,
         AbortInit, TestRunning, DispatchToPool, DispatchToPoolFails, DispatchInline, DispatchToThread,
         DispatchToThreadFails, FinishInline, Cleanup, DestroyPool, Teardown, MainReturns, WaitEnds,
         PollBreaks, Signal, AcceptPending, Accept, AcceptWithoutMemory, ClientConnects, PeersAnswer,
         FinishDetached, Worker, SpuriousWake, FinishWorker
<1>1. CASE CreatePool
  BY <1>0, <1>1, SameSteps, OwnerPhases DEF CreatePool, ProcessEnds, AfterPool
<1>2. CASE EpollFails
  BY <1>0, <1>2, SameSteps, OwnerPhases DEF EpollFails, ProcessEnds, poolVars
<1>3. CASE Cleanup
  BY <1>0, <1>3, SameSteps, OwnerPhases DEF Cleanup, poolVars
<1>4. CASE AbortInit \/ DestroyPool
  BY <1>0, <1>4, SameSteps, OwnerPhases DEF AbortInit, DestroyPool, ProcessEnds
<1>5. CASE DispatchToPool \/ DispatchToPoolFails
  <2>1. phase' = phase
    BY <1>5, SubmitsCurrent DEF PP!Submit, PP!SubmitFails, PP!ownerVars
  <2>2. mpc = "dispatch" /\ mpc' = "loop"
    BY <1>5 DEF DispatchToPool, DispatchToPoolFails, BackToLoop
  <2>3. QED
    BY <1>0, <2>1, <2>2
<1>6. ASSUME NEW w \in Pool!Threads, Worker(w) \/ SpuriousWake(w) \/ FinishWorker(w)
      PROVE  PlaceInv'
  <2>1. phase' = phase
    BY <1>6, SameSteps, SameState, WorkFate
    DEF Worker, SpuriousWake, FinishWorker, PP!FinishItem, PP!ownerVars
  <2>2. mpc' = mpc
    BY <1>6 DEF Worker, SpuriousWake, FinishWorker
  <2>3. QED
    BY <1>0, <2>1, <2>2
<1>7. CASE SocketOpens \/ SocketFails \/ EpollOpens \/ TestRunning \/ DispatchInline \/ DispatchToThread
           \/ DispatchToThreadFails \/ FinishInline \/ Teardown \/ MainReturns \/ WaitEnds \/ PollBreaks
           \/ Signal \/ AcceptPending \/ UNCHANGED vars
  BY <1>0, <1>7
  DEF SocketOpens, SocketFails, EpollOpens, TestRunning, DispatchInline, DispatchToThread,
      DispatchToThreadFails, FinishInline, Teardown, MainReturns, WaitEnds, PollBreaks, Signal,
      AcceptPending, Accept, AcceptWithoutMemory, vars, poolVars, ProcessEnds, BackToLoop, AfterPool,
      UsesEpoll
<1>8. ASSUME NEW c \in Conns, ClientConnects(c) \/ PeersAnswer(c) \/ FinishDetached(c)
      PROVE  PlaceInv'
  BY <1>0, <1>8 DEF ClientConnects, PeersAnswer, FinishDetached, poolVars
<1>9. QED
  BY <1>1, <1>2, <1>3, <1>4, <1>5, <1>6, <1>7, <1>8 DEF Next, Main, Exited

\* The variables of the server keep their types; the main thread has a
\* connection in its hands exactly while it dispatches or handles one.
LEMMA ServerTypeStep ==
    ASSUME TypeOK, Pool!TypeOK', [Next]_vars
    PROVE  TypeOK'
<1> USE PoolAssumption DEF TypeOK, MainPlaces
<1>1. g_running' \in BOOLEAN
  BY DEF Next, Main, vars, Exited, SocketOpens, SocketFails, CreatePool, EpollOpens, EpollFails,
         AbortInit, TestRunning, DispatchToPool, DispatchToPoolFails, DispatchInline, DispatchToThread,
         DispatchToThreadFails, FinishInline, Cleanup, DestroyPool, Teardown, MainReturns, WaitEnds,
         PollBreaks, Signal, AcceptPending, Accept, AcceptWithoutMemory, ClientConnects, PeersAnswer,
         FinishDetached, Worker, SpuriousWake, FinishWorker
<1>2. CASE SocketOpens \/ EpollOpens \/ TestRunning \/ WaitEnds \/ PollBreaks \/ Signal \/ Cleanup
           \/ DestroyPool \/ DispatchInline \/ UNCHANGED vars
  BY <1>1, <1>2 DEF SocketOpens, EpollOpens, TestRunning, WaitEnds, PollBreaks, Signal, Cleanup, DestroyPool,
              DispatchInline, vars, netVars, stats, AfterPool
<1>3. CASE SocketFails \/ CreatePool \/ EpollFails \/ AbortInit \/ MainReturns
  <2>1. conn' \in [Conns -> {"absent", "backlog", "open", "closed"}] /\ detached' \subseteq Conns
    BY <1>3 DEF SocketFails, CreatePool, EpollFails, AbortInit, MainReturns, ProcessEnds
  <2>2. QED
    BY <1>1, <1>3, <2>1 DEF SocketFails, CreatePool, EpollFails, AbortInit, MainReturns, ProcessEnds,
                      AfterPool, stats
<1>4. CASE Teardown
  <2>1. conn' \in [Conns -> {"absent", "backlog", "open", "closed"}]
    BY <1>4 DEF Teardown
  <2>2. QED
    BY <1>1, <1>4, <2>1 DEF Teardown, stats
<1>5. ASSUME NEW c \in Conns, Accept(c) \/ AcceptWithoutMemory(c) PROVE TypeOK'
  BY <1>1, <1>5 DEF Accept, AcceptWithoutMemory, ConnectionCreate, stats
<1>6. CASE DispatchToPool \/ DispatchToPoolFails \/ DispatchToThread \/ DispatchToThreadFails \/ FinishInline
  BY <1>1, <1>6 DEF DispatchToPool, DispatchToPoolFails, DispatchToThread, DispatchToThreadFails,
              FinishInline, HandlerReturns, ConnectionDestroy, BackToLoop, netVars, stats
<1>7. ASSUME NEW c \in Conns, ClientConnects(c) \/ PeersAnswer(c) \/ FinishDetached(c) PROVE TypeOK'
  BY <1>1, <1>7 DEF ClientConnects, PeersAnswer, FinishDetached, HandlerReturns, ConnectionDestroy, stats
<1>8. ASSUME NEW w \in Pool!Threads, Worker(w) \/ SpuriousWake(w) \/ FinishWorker(w) PROVE TypeOK'
  BY <1>1, <1>8 DEF Worker, SpuriousWake, FinishWorker, HandlerReturns, ConnectionDestroy, netVars, stats
<1>9. QED
  BY <1>2, <1>3, <1>4, <1>5, <1>6, <1>7, <1>8 DEF Next, Main, AcceptPending, Exited

\* The end of the process closes what is open, and the pool has nothing.
LEMMA EndKeepsConn ==
    ASSUME PP!PoolInv', TypeOK, ConnInv, ProcessEnds, UNCHANGED <<model, cur>>,
           phase' \in {"none", "gone"}, mpc \notin {"dispatch", "inline"},
           \A c \in Conns : fate'[c] = fate[c] \/ (fate[c] = "queued" /\ fate'[c] = "dropped")
    PROVE  ConnInv'
<1>1. \A c \in Conns : fate'[c] \notin {"queued", "running"}
  <2>1. (PP!PoolInv /\ phase \in {"none", "gone"} =>
            \A c \in Conns : fate[c] \notin {"queued", "running"})'
    BY QuietPool, PTL
  <2>2. QED
    BY <2>1
<1>2. cur' = NULL /\ detached' = {} /\ model' = model
  BY DEF TypeOK, ProcessEnds
<1>3. \A c \in Conns : conn'[c] = IF conn[c] = "absent" THEN "absent" ELSE "closed"
  BY DEF ProcessEnds
<1>4. QED
  BY <1>1, <1>2, <1>3, PoolAssumption DEF ConnInv

\* Every step keeps track of who has which connection.
LEMMA ConnStep ==
    ASSUME PP!PoolInv, PP!PoolInv', TypeOK, PlaceInv, PlaceInv', ConnInv, [Next]_vars
    PROVE  ConnInv'
<1>0. /\ conn \in [Conns -> {"absent", "backlog", "open", "closed"}]
      /\ fate \in [Conns -> PP!Fates] /\ NULL \notin Conns
  BY PoolAssumption DEF TypeOK, PP!PoolInv, PP!TypeOK
<1>1. CASE SocketFails \/ MainReturns
  <2>1. UNCHANGED <<phase, fate, model, cur>> /\ mpc \notin {"dispatch", "inline"} /\ ProcessEnds
    BY <1>1 DEF SocketFails, MainReturns, poolVars
  <2>2. phase' \in {"none", "gone"}
    BY <1>1, <2>1 DEF SocketFails, MainReturns, PlaceInv
  <2>3. QED
    BY <2>1, <2>2, EndKeepsConn
<1>2. CASE CreatePool \/ AbortInit \/ EpollFails
  <2>1. \/ \A c \in Conns : fate'[c] = fate[c] \/ (fate[c] = "queued" /\ fate'[c] = "dropped")
        \/ UNCHANGED poolVars
    BY <1>2, SameSteps, OwnerFate DEF CreatePool, AbortInit, EpollFails
  <2>2. \A c \in Conns : fate'[c] = fate[c] \/ (fate[c] = "queued" /\ fate'[c] = "dropped")
    BY <2>1 DEF poolVars
  <2>3. CASE ProcessEnds
    <3>1. phase' \in {"none", "gone"}
      BY <1>2, <2>3 DEF PlaceInv, UsesPool, CreatePool, AbortInit, EpollFails, ProcessEnds
    <3>2. QED
      BY <1>2, <2>2, <2>3, <3>1, EndKeepsConn DEF CreatePool, AbortInit, EpollFails
  <2>4. CASE UNCHANGED <<conn, detached>>
    BY <1>2, <2>2, <2>4 DEF ConnInv, CreatePool, AbortInit, EpollFails
  <2>5. QED
    BY <1>2, <2>3, <2>4 DEF CreatePool, AbortInit, EpollFails
<1>3. CASE Cleanup \/ DestroyPool
  <2>1. \/ \A c \in Conns : fate'[c] = fate[c] \/ (fate[c] = "queued" /\ fate'[c] = "dropped")
        \/ UNCHANGED poolVars
    BY <1>3, SameSteps, OwnerFate DEF Cleanup, DestroyPool
  <2>2. \A c \in Conns : fate'[c] = fate[c] \/ (fate[c] = "queued" /\ fate'[c] = "dropped")
    BY <2>1 DEF poolVars
  <2>3. QED
    BY <1>3, <2>2 DEF ConnInv, Cleanup, DestroyPool, netVars
<1>4. CASE Teardown
  BY <1>4 DEF ConnInv, Teardown, poolVars
<1>5. ASSUME NEW c \in Conns, Accept(c) \/ AcceptWithoutMemory(c) PROVE ConnInv'
  <2>1. cur = NULL
    BY <1>5 DEF TypeOK, Accept, AcceptWithoutMemory
  <2>2. conn[c] = "backlog" /\ fate[c] = "new" /\ c \notin detached
    BY <1>5 DEF ConnInv, Accept, AcceptWithoutMemory
  <2>3. CASE Accept(c)
    BY <1>0, <2>1, <2>2, <2>3 DEF ConnInv, Accept, ConnectionCreate, poolVars
  <2>4. CASE AcceptWithoutMemory(c)
    BY <1>0, <2>1, <2>2, <2>4 DEF ConnInv, AcceptWithoutMemory, poolVars
  <2>5. QED
    BY <1>5, <2>3, <2>4
<1>6. CASE DispatchToPool \/ DispatchToPoolFails
  <2>1. PICK c \in Conns : c = cur /\ ((DispatchToPool /\ PP!Submit(c))
                                        \/ (DispatchToPoolFails /\ PP!SubmitFails(c)))
    BY <1>6, SubmitsCurrent
  <2>2. cur' = NULL /\ detached' = detached /\ model' = model
    BY <1>6 DEF DispatchToPool, DispatchToPoolFails, BackToLoop
  <2>3. CASE DispatchToPool /\ PP!Submit(c)
    <3>1. conn' = conn /\ fate' = [fate EXCEPT ![c] = "queued"]
      BY <2>3 DEF DispatchToPool, PP!Submit, netVars
    <3>2. QED
      BY <1>0, <2>1, <2>2, <3>1 DEF ConnInv
  <2>4. CASE DispatchToPoolFails /\ PP!SubmitFails(c)
    <3>1. fate' = [fate EXCEPT ![c] = "refused"]
      BY <2>4 DEF PP!SubmitFails
    <3>2. conn' = [conn EXCEPT ![c] = "closed"] \/ (conn' = conn /\ model = "hybrid")
      BY <2>1, <2>4 DEF DispatchToPoolFails, UsesPool, ConnectionDestroy
    <3>3. QED
      BY <1>0, <2>1, <2>2, <3>1, <3>2 DEF ConnInv
  <2>5. QED
    BY <2>1, <2>3, <2>4
<1>7. CASE DispatchToThread \/ DispatchToThreadFails \/ FinishInline
  <2>1. cur \in Conns /\ cur' = NULL /\ fate' = fate /\ model' = model
    BY <1>7 DEF DispatchToThread, DispatchToThreadFails, FinishInline, BackToLoop, poolVars, TypeOK
  <2>2. \/ conn' = conn /\ detached' = detached \cup {cur}
        \/ conn' = [conn EXCEPT ![cur] = "closed"] /\ detached' = detached
    BY <1>7 DEF DispatchToThread, DispatchToThreadFails, FinishInline, HandlerReturns,
                ConnectionDestroy, netVars
  <2>3. QED
    BY <1>0, <2>1, <2>2 DEF ConnInv
<1>8. ASSUME NEW c \in Conns, ClientConnects(c) \/ PeersAnswer(c) PROVE ConnInv'
  BY <1>0, <1>8 DEF ConnInv, ClientConnects, PeersAnswer, poolVars
<1>9. ASSUME NEW c \in Conns, FinishDetached(c) PROVE ConnInv'
  BY <1>0, <1>9 DEF ConnInv, FinishDetached, HandlerReturns, ConnectionDestroy, poolVars
<1>10. ASSUME NEW w \in Pool!Threads, Worker(w) \/ SpuriousWake(w) PROVE ConnInv'
  <2>1. \A c \in Conns : fate'[c] = fate[c] \/ (fate[c] = "queued" /\ fate'[c] = "running")
    BY <1>10, SameSteps, SameState, WorkFate DEF Worker, SpuriousWake
  <2>2. QED
    BY <1>10, <2>1 DEF ConnInv, Worker, SpuriousWake, netVars
<1>11. ASSUME NEW w \in Pool!Threads, FinishWorker(w) PROVE ConnInv'
  <2>1. PP!FinishItem(w) /\ w \in PP!Threads
    BY <1>11, SameSteps, SameState DEF FinishWorker
  <2>2. witem[w] \in Conns /\ fate[witem[w]] = "running"
    BY <2>1 DEF PP!FinishItem, PP!PoolInv, PP!TypeOK, PP!SingleOwner, PP!Running
  <2>3. fate' = [fate EXCEPT ![witem[w]] = "done"]
    BY <2>1 DEF PP!FinishItem
  <2>4. conn' = [conn EXCEPT ![witem[w]] = "closed"] /\ UNCHANGED <<cur, detached, model>>
    BY <1>11 DEF FinishWorker, HandlerReturns, ConnectionDestroy
  <2>5. QED
    BY <1>0, <2>2, <2>3, <2>4 DEF ConnInv
<1>12. CASE SocketOpens \/ EpollOpens \/ TestRunning \/ WaitEnds \/ PollBreaks \/ Signal \/ DispatchInline
            \/ UNCHANGED vars
  BY <1>12 DEF ConnInv, SocketOpens, EpollOpens, TestRunning, WaitEnds, PollBreaks, Signal, DispatchInline,
               vars, poolVars, netVars
<1>13. QED
  BY <1>1, <1>2, <1>3, <1>4, <1>5, <1>6, <1>7, <1>8, <1>9, <1>10, <1>11, <1>12
  DEF Next, Main, AcceptPending, Exited

-----------------------------------------------------------------------------
(* Theorems.                                                               *)

\* The types of the pool.
LEMMA PoolTypes == PP!PoolInv => Pool!TypeOK
BY SameState DEF PP!PoolInv

\* The invariant holds when main starts.
LEMMA ServerInvInit ==
    ASSUME Init
    PROVE  ServerInv
<1>1. PP!PoolInv
  BY SameSteps, PP!InitInv, PoolAssumption DEF Init
<1>2. Pool!TypeOK
  BY <1>1, SameState DEF PP!PoolInv
<1>3. TypeOK
  BY <1>2 DEF Init, TypeOK, MainPlaces
<1>4. PlaceInv /\ ConnInv
  BY PoolAssumption DEF Init, PlaceInv, ConnInv, Pool!Init
<1>5. QED
  BY <1>1, <1>3, <1>4 DEF ServerInv

\* The invariant holds in every state of the server.
THEOREM ServerInvariant == Spec => []ServerInv
<1>1. ASSUME ServerInv, [Next]_vars PROVE ServerInv'
  <2>1. PP!PoolInv'
    BY <1>1, PoolStep, PP!NextInv, PoolAssumption DEF ServerInv
  <2>2. Pool!TypeOK'
    <3>1. (PP!PoolInv => Pool!TypeOK)'
      BY PoolTypes, PTL
    <3>2. QED
      BY <2>1, <3>1
  <2>3. TypeOK' /\ PlaceInv'
    BY <1>1, <2>2, ServerTypeStep, PlaceStep DEF ServerInv
  <2>4. ConnInv'
    BY <1>1, <2>1, <2>3, ConnStep DEF ServerInv
  <2>5. QED
    BY <2>1, <2>3, <2>4 DEF ServerInv
<1>2. QED
  BY <1>1, ServerInvInit, PTL DEF Spec

\* Type correctness of the server and its pool.
THEOREM ServerTypeCorrect == Spec => []TypeOK
<1>1. ServerInv => TypeOK
  BY DEF ServerInv
<1>2. QED
  BY <1>1, ServerInvariant, PTL

\* The owner of an open connection, and nobody of another one.
LEMMA OneOwnerOfConn ==
    ASSUME ServerInv, NEW c \in Conns
    PROVE  Cardinality(Owners(c)) =
               IF conn[c] = "open" /\ ~Forgotten(c) /\ fate[c] # "dropped" THEN 1 ELSE 0
<1>1. /\ (c \in Pool!Queued) <=> (fate[c] = "queued")
      /\ (c \in Handled) <=> (fate[c] = "running")
  BY SameState DEF ServerInv, PP!PoolInv, PP!SingleOwner, Handled
<1>2. fate[c] \in {"new", "refused", "queued", "running", "done", "dropped"}
  BY DEF ServerInv, PP!PoolInv, PP!TypeOK, PP!Fates
<1>3. /\ (c = cur) => (conn[c] = "open" /\ fate[c] = "new" /\ c \notin detached)
      /\ (c \in detached) => (conn[c] = "open" /\ fate[c] = "new")
      /\ (fate[c] \in {"queued", "running"}) => (conn[c] = "open")
      /\ (fate[c] = "done") => (conn[c] = "closed")
      /\ (fate[c] = "refused") => (conn[c] = "closed" \/ model = "hybrid")
      /\ (conn[c] = "open" /\ fate[c] = "new") => (c = cur \/ c \in detached)
  BY DEF ServerInv, ConnInv
<1>4. CASE conn[c] = "open" /\ ~Forgotten(c) /\ fate[c] # "dropped"
  <2>1. fate[c] \in {"new", "queued", "running"}
    BY <1>2, <1>3, <1>4 DEF Forgotten
  <2>2. \E o : Owners(c) = {o}
    <3>1. CASE fate[c] = "queued"
      <4>1. Owners(c) = {"queue"}
        BY <1>1, <1>3, <3>1 DEF Owners
      <4>2. QED
        BY <4>1
    <3>2. CASE fate[c] = "running"
      <4>1. Owners(c) = {"worker"}
        BY <1>1, <1>3, <3>2 DEF Owners
      <4>2. QED
        BY <4>1
    <3>3. CASE fate[c] = "new" /\ c = cur
      <4>1. Owners(c) = {"main"}
        BY <1>1, <1>3, <3>3 DEF Owners
      <4>2. QED
        BY <4>1
    <3>4. CASE fate[c] = "new" /\ c # cur
      <4>1. Owners(c) = {"thread"}
        BY <1>1, <1>3, <1>4, <3>4 DEF Owners
      <4>2. QED
        BY <4>1
    <3>5. QED
      BY <2>1, <3>1, <3>2, <3>3, <3>4
  <2>3. QED
    BY <1>4, <2>2, FS_Singleton
<1>5. CASE ~(conn[c] = "open" /\ ~Forgotten(c) /\ fate[c] # "dropped")
  <2>1. fate[c] \notin {"queued", "running"} /\ c # cur /\ c \notin detached
    BY <1>3, <1>5 DEF Forgotten
  <2>2. Owners(c) = {}
    BY <1>1, <2>1 DEF Owners
  <2>3. QED
    BY <1>5, <2>2, FS_EmptySet
<1>6. QED
  BY <1>4, <1>5

\* An open connection is in the hands of exactly one thread or of the queue, in
\* every threading model and up to the exit, but for the two kinds of leaks.
THEOREM OneOwnerTheorem == Spec => []ExactlyOneOwner
<1>1. ServerInv => ExactlyOneOwner
  BY OneOwnerOfConn DEF ExactlyOneOwner
<1>2. QED
  BY <1>1, ServerInvariant, PTL

\* main frees the shared subsystems when no worker and not the main thread is in
\* a handler.
THEOREM TeardownTheorem == Spec => []NoHandlerAfterTeardown
<1>1. ASSUME ServerInv, mpc = "torn" PROVE Handled = {} /\ cur = NULL
  <2>1. cur = NULL /\ phase \in {"none", "gone"}
    BY <1>1 DEF ServerInv, TypeOK, PlaceInv
  <2>2. PP!Running = {}
    BY <1>1, <2>1, QuietPool DEF ServerInv
  <2>3. QED
    BY <2>1, <2>2, SameState DEF Handled
<1>2. ServerInv => NoHandlerAfterTeardown
  BY <1>1 DEF NoHandlerAfterTeardown
<1>3. QED
  BY <1>2, ServerInvariant, PTL
=============================================================================
