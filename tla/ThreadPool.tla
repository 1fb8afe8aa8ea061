----------------------------- MODULE ThreadPool -----------------------------
(***************************************************************************)
(* The worker pool of src/core/threading.c: a mutex-protected linked list  *)
(* of work items, one condition variable, num_threads workers, and an      *)
(* owner (the server's main thread) that creates the pool, submits work to *)
(* it and destroys it.                                                     *)
(*                                                                         *)
(* Every critical section of the queue mutex is one step.  A worker that   *)
(* is about to enter its critical section is in "check"; it re-evaluates   *)
(* the loop condition of lines 36-38 there, whether it has just been       *)
(* created, has just finished an item, or was woken from the condition     *)
(* variable (POSIX lets the wake-up be spurious).  malloc and              *)
(* pthread_create may fail wherever the code tests them.                   *)
(***************************************************************************)
EXTENDS Naturals, Sequences, FiniteSets

CONSTANTS NumThreads,  \* the num_threads the pool is created with
          Items,       \* the work items the owner may submit, each once
          NULL         \* the null pointer

ASSUME NumThreadsAssumption == NumThreads \in Nat
ASSUME NullAssumption == NULL \notin Items

VARIABLES
    phase,        \* the owner: "none", "creating", "live", "joining", "gone"
    spawned,      \* the loop index of thread_pool_create: workers created
    num_threads,  \* pool->num_threads
    joined,       \* the loop index of thread_pool_destroy: workers joined
    shutdown,     \* pool->shutdown
    head, tail,   \* pool->queue.head, pool->queue.tail
    next,         \* item->next of every item
    count,        \* pool->queue.count
    wpc,          \* what each worker is doing
    witem,        \* the item each worker holds
    pending,      \* history: the items linked in the queue, oldest first
    fate          \* history: what became of each item

queueVars == <<head, tail, next, count, pending>>
ownerVars == <<phase, spawned, num_threads, joined, shutdown>>
workerVars == <<wpc, witem>>
poolVars == <<phase, spawned, num_threads, joined, shutdown, head, tail, next,
              count, wpc, witem, pending, fate>>

Threads == 1..NumThreads
Phases == {"none", "creating", "live", "joining", "gone"}
WorkerStates == {"none", "check", "waiting", "running", "exited"}
Fates == {"new", "refused", "queued", "running", "done", "dropped"}

Waiting  == {w \in Threads : wpc[w] = "waiting"}
Checking == {w \in Threads : wpc[w] = "check"}
Running  == {w \in Threads : wpc[w] = "running"}

\* The items in the queue according to the history variable.
Queued == {pending[i] : i \in DOMAIN pending}

\* The items a walk from head along next meets: the least set that holds head
\* and is closed under next.
Linked == {x \in Items :
             /\ head # NULL
             /\ \A S \in SUBSET Items :
                  (head \in S /\ \A y \in S : next[y] \in S \cup {NULL}) => x \in S}

Init ==
    /\ phase = "none"
    /\ spawned = 0 /\ num_threads = 0 /\ joined = 0
    /\ shutdown = FALSE
    /\ head = NULL /\ tail = NULL /\ count = 0
    /\ next = [x \in Items |-> NULL]
    /\ wpc = [w \in Threads |-> "none"]
    /\ witem = [w \in Threads |-> NULL]
    /\ pending = <<>>
    /\ fate = [x \in Items |-> "new"]

-----------------------------------------------------------------------------
(* The condition variable.                                                 *)

\* pthread_cond_signal: one waiter, if there is any, goes back to check.
CondSignal ==
    IF Waiting = {} THEN wpc' = wpc
    ELSE \E w \in Waiting : wpc' = [wpc EXCEPT ![w] = "check"]

\* pthread_cond_broadcast: every waiter goes back to check.
CondBroadcast ==
    wpc' = [w \in Threads |-> IF w \in Waiting THEN "check" ELSE wpc[w]]

\* pthread_cond_wait may return without a signal.
SpuriousWake(w) ==
    /\ wpc[w] = "waiting"
    /\ wpc' = [wpc EXCEPT ![w] = "check"]
    /\ UNCHANGED <<ownerVars, queueVars, witem, fate>>

-----------------------------------------------------------------------------
(* The owner: thread_pool_create.                                          *)

\* Both allocations succeed: an empty queue, no worker yet.
PoolAlloc ==
    /\ phase = "none"
    /\ phase' = "creating"
    /\ num_threads' = NumThreads
    /\ UNCHANGED <<spawned, joined, shutdown, queueVars, workerVars, fate>>

\* malloc of the pool or of its thread array fails: NULL is returned.
PoolAllocFails ==
    /\ phase = "none"
    /\ phase' = "gone"
    /\ UNCHANGED <<spawned, num_threads, joined, shutdown, queueVars, workerVars, fate>>

\* pthread_create number spawned + 1 succeeds; the worker runs at once.
SpawnWorker ==
    /\ phase = "creating"
    /\ spawned < NumThreads
    /\ wpc' = [wpc EXCEPT ![spawned + 1] = "check"]
    /\ spawned' = spawned + 1
    /\ UNCHANGED <<phase, num_threads, joined, shutdown, queueVars, witem, fate>>

\* Faulty variant: shutdown wakes one worker instead of all of them.
ShutdownSignalsOne ==
    /\ shutdown' = TRUE
    /\ CondSignal
    /\ phase' = "joining"

\* The first critical section of thread_pool_destroy.
StartShutdown ==
    /\ shutdown' = TRUE
    /\ CondBroadcast
    /\ phase' = "joining"

\* Faulty variant: num_threads keeps counting the workers that do not exist.
SpawnFailsKeepsCount ==
    /\ phase = "creating"
    /\ spawned < NumThreads
    /\ StartShutdown
    /\ UNCHANGED <<spawned, num_threads, joined, queueVars, witem, fate>>

\* pthread_create fails: the workers created so far are shut down and joined.
SpawnFails ==
    /\ phase = "creating"
    /\ spawned < NumThreads
    /\ num_threads' = spawned
    /\ StartShutdown
    /\ UNCHANGED <<spawned, joined, queueVars, witem, fate>>

CreateReturns ==
    /\ phase = "creating"
    /\ spawned = NumThreads
    /\ phase' = "live"
    /\ UNCHANGED <<spawned, num_threads, joined, shutdown, queueVars, workerVars, fate>>

-----------------------------------------------------------------------------
(* The owner: thread_pool_submit.                                          *)

\* Link x behind the tail, or as the head of an empty queue.
Enqueue(x) ==
    /\ next' = [y \in Items |-> IF y = x THEN NULL
                                ELSE IF y = tail THEN x ELSE next[y]]
    /\ head' = IF tail = NULL THEN x ELSE head
    /\ tail' = x
    /\ count' = count + 1
    /\ pending' = Append(pending, x)

\* Faulty variants: signal only when the queue was empty; never signal.
SubmitSignalsWhenEmpty(x) ==
    /\ phase = "live"
    /\ fate[x] = "new"
    /\ Enqueue(x)
    /\ IF count = 0 THEN CondSignal ELSE wpc' = wpc
    /\ fate' = [fate EXCEPT ![x] = "queued"]
    /\ UNCHANGED <<ownerVars, witem>>

Submit(x) ==
    /\ phase = "live"
    /\ fate[x] = "new"
    /\ Enqueue(x)
    /\ CondSignal
    /\ fate' = [fate EXCEPT ![x] = "queued"]
    /\ UNCHANGED <<ownerVars, witem>>

\* The work item cannot be allocated: -1, nothing else happens.
SubmitFails(x) ==
    /\ phase = "live"
    /\ fate[x] = "new"
    /\ fate' = [fate EXCEPT ![x] = "refused"]
    /\ UNCHANGED <<ownerVars, queueVars, workerVars>>

-----------------------------------------------------------------------------
(* The owner: thread_pool_destroy.                                         *)

BeginDestroy ==
    /\ phase = "live"
    /\ StartShutdown
    /\ UNCHANGED <<spawned, num_threads, joined, queueVars, witem, fate>>

\* Faulty variant: the threads are detached, nobody waits for them.
JoinDoesNotWait ==
    /\ phase = "joining"
    /\ joined < num_threads
    /\ joined' = joined + 1
    /\ UNCHANGED <<phase, spawned, num_threads, shutdown, queueVars, workerVars, fate>>

\* pthread_join returns once the worker has left its loop.
JoinNext ==
    /\ phase = "joining"
    /\ joined < num_threads
    /\ wpc[joined + 1] = "exited"
    /\ joined' = joined + 1
    /\ UNCHANGED <<phase, spawned, num_threads, shutdown, queueVars, workerVars, fate>>

\* After the last join: free what is still linked, then the pool itself.
FreePool ==
    /\ phase = "joining"
    /\ joined = num_threads
    /\ fate' = [x \in Items |-> IF x \in Linked THEN "dropped" ELSE fate[x]]
    /\ phase' = "gone"
    /\ head' = NULL /\ tail' = NULL /\ count' = 0 /\ pending' = <<>>
    /\ UNCHANGED <<spawned, num_threads, joined, shutdown, next, workerVars>>

-----------------------------------------------------------------------------
(* The workers: worker_thread.                                             *)

\* Nothing to do and no shutdown: release the mutex and wait, atomically.
Sleep(w) ==
    /\ wpc[w] = "check"
    /\ count = 0 /\ ~shutdown
    /\ wpc' = [wpc EXCEPT ![w] = "waiting"]
    /\ UNCHANGED <<ownerVars, queueVars, witem, fate>>

\* Shutdown is tested before the queue: what is queued stays there.
ExitWorker(w) ==
    /\ wpc[w] = "check"
    /\ shutdown
    /\ wpc' = [wpc EXCEPT ![w] = "exited"]
    /\ UNCHANGED <<ownerVars, queueVars, witem, fate>>

\* Faulty variants: the tail keeps pointing at the last item after it is gone;
\* the item is read but stays linked.
DequeueKeepsTail ==
    /\ head' = next[head]
    /\ count' = count - 1
    /\ pending' = Tail(pending)
    /\ UNCHANGED <<next, tail>>

PeekOnly == count' = count - 1 /\ UNCHANGED <<head, tail, next, pending>>

\* Unlink the head; the last item also clears the tail.
Dequeue ==
    /\ head' = next[head]
    /\ tail' = IF next[head] = NULL THEN NULL ELSE tail
    /\ count' = count - 1
    /\ pending' = Tail(pending)
    /\ UNCHANGED next

\* Faulty variant: the queue is drained although shutdown is set.
TakeDuringShutdown(w) ==
    /\ wpc[w] = "check"
    /\ count # 0
    /\ Dequeue
    /\ wpc' = [wpc EXCEPT ![w] = "running"]
    /\ witem' = [witem EXCEPT ![w] = head]
    /\ fate' = [fate EXCEPT ![head] = "running"]
    /\ UNCHANGED ownerVars

Take(w) ==
    /\ wpc[w] = "check"
    /\ count # 0 /\ ~shutdown
    /\ IF head = NULL
       THEN UNCHANGED <<queueVars, workerVars, fate>>
       ELSE /\ Dequeue
            /\ wpc' = [wpc EXCEPT ![w] = "running"]
            /\ witem' = [witem EXCEPT ![w] = head]
            /\ fate' = [fate EXCEPT ![head] = "running"]
    /\ UNCHANGED ownerVars

\* The item's function returns and the item is freed.
FinishItem(w) ==
    /\ wpc[w] = "running"
    /\ wpc' = [wpc EXCEPT ![w] = "check"]
    /\ witem' = [witem EXCEPT ![w] = NULL]
    /\ fate' = [fate EXCEPT ![witem[w]] = "done"]
    /\ UNCHANGED <<ownerVars, queueVars>>

-----------------------------------------------------------------------------
Create  == PoolAlloc \/ PoolAllocFails \/ SpawnWorker \/ SpawnFails \/ CreateReturns
Destroy == JoinNext \/ FreePool
\* What the scheduler owes a worker: to run it when it can enter its section.
Work(w) == Sleep(w) \/ ExitWorker(w) \/ Take(w)

\* The pool is freed and every worker that was created has ended.
Terminated ==
    /\ phase = "gone"
    /\ \A w \in Threads : wpc[w] \in {"none", "exited"}
    /\ UNCHANGED poolVars

Next ==
    \/ Create
    \/ BeginDestroy
    \/ Destroy
    \/ \E x \in Items : Submit(x) \/ SubmitFails(x)
    \/ \E w \in Threads : Work(w) \/ FinishItem(w) \/ SpuriousWake(w)
    \/ Terminated

\* Threads are scheduled, the work returns, and the owner carries through a
\* destroy it has begun; nobody has to submit work or to destroy the pool.
Fairness ==
    /\ \A w \in Threads : WF_poolVars(Work(w)) /\ WF_poolVars(FinishItem(w))
    /\ WF_poolVars(Destroy)

Spec == Init /\ [][Next]_poolVars /\ Fairness

-----------------------------------------------------------------------------
(* Properties.                                                             *)

\* Every variable of threading.c keeps its type; a worker holds an item
\* exactly while it runs it.
TypeOK ==
    /\ phase \in Phases
    /\ spawned \in 0..NumThreads
    /\ num_threads \in 0..NumThreads
    /\ joined \in 0..NumThreads
    /\ shutdown \in BOOLEAN
    /\ head \in Items \cup {NULL} /\ tail \in Items \cup {NULL}
    /\ next \in [Items -> Items \cup {NULL}]
    /\ count \in Nat
    /\ wpc \in [Threads -> WorkerStates]
    /\ witem \in [Threads -> Items \cup {NULL}]
    /\ pending \in Seq(Items)
    /\ fate \in [Items -> Fates]
    /\ \A w \in Threads : (witem[w] # NULL) <=> (wpc[w] = "running")

\* The list that submit and the workers edit through head, tail and next is
\* the queue of the items submitted and not yet taken, in submission order:
\* no item is lost behind a stale tail, linked twice or left out of count.
QueueWellFormed ==
    /\ count = Len(pending)
    /\ (pending = <<>>) => (head = NULL /\ tail = NULL)
    /\ (pending # <<>>) => /\ head = pending[1]
                           /\ tail = pending[Len(pending)]
                           /\ next[tail] = NULL
    /\ \A i \in 1..Len(pending) - 1 : next[pending[i]] = pending[i + 1]
    /\ \A i, j \in DOMAIN pending : pending[i] = pending[j] => i = j

\* No lost wake-up: while any worker sleeps on the condition variable, every
\* queued item has a worker of its own on the way to the queue, although
\* submit signals once per item and a signal to nobody is forgotten.
NoLostWakeup == (Waiting # {}) => count <= Cardinality(Checking)

\* An item has one owner: it is linked in the queue or in the hands of one
\* worker, so that its connection is handled once and freed once, and an
\* accepted item never drops out of both.
SingleOwner ==
    /\ \A x \in Items : (fate[x] = "queued") <=> (x \in Queued)
    /\ \A x \in Items : (fate[x] = "running") <=> (\E w \in Running : witem[w] = x)
    /\ \A v, w \in Running : (witem[v] = witem[w]) => (v = w)

\* The pool is freed only when no thread can touch it again, also when
\* pthread_create failed half-way and only the workers created are joined.
NoUseAfterFree ==
    (phase = "gone") => \A w \in Threads : wpc[w] \in {"none", "exited"}

\* The life of the pool: destroy joins exactly the workers that were created,
\* and once shutdown is set no worker is, or ever again goes, to sleep.
LifeCycle ==
    /\ \A w \in Threads : (wpc[w] = "none") <=> (w > spawned)
    /\ \A w \in 1..joined : wpc[w] = "exited"
    /\ joined <= num_threads
    /\ (phase = "none") => (spawned = 0 /\ num_threads = 0)
    /\ (phase = "creating") => (num_threads = NumThreads)
    /\ (phase \in {"live", "joining"}) => (num_threads = spawned)
    /\ (phase \in {"none", "creating", "live"}) => (joined = 0 /\ ~shutdown)
    /\ (phase = "joining") => shutdown
    /\ (phase \in {"none", "creating", "gone"}) => (pending = <<>>)
    /\ shutdown => (Waiting = {})

\* thread_pool_destroy returns: the broadcast reaches every sleeper and a
\* worker that was about to sleep sees the flag.
DestroyReturns == (phase = "joining") ~> (phase = "gone")

\* The pool implements the first-in first-out executor of WorkQueue.
WQ == INSTANCE WorkQueue WITH
        Slots <- NumThreads,
        todo <- pending,
        active <- {witem[w] : w \in Running},
        finished <- {x \in Items : fate[x] = "done"},
        dropped <- {x \in Items : fate[x] = "dropped"},
        closed <- shutdown
ImplementsWorkQueue == WQ!Spec
=============================================================================
