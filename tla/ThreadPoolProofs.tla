-------------------------- MODULE ThreadPoolProofs --------------------------
(***************************************************************************)
(* For every number of threads and every set of items: the safety          *)
(* invariants of ThreadPool, from one inductive invariant.                 *)
(***************************************************************************)
EXTENDS ThreadPool, TLAPS, FiniteSetTheorems, WellFoundedInduction

\* The inductive invariant is the conjunction of the checked invariants.
PoolInv ==
    /\ TypeOK
    /\ QueueWellFormed
    /\ NoLostWakeup
    /\ SingleOwner
    /\ NoUseAfterFree
    /\ LifeCycle

\* A non-empty set of naturals has a least element.
LEMMA LeastNat ==
    ASSUME NEW T \in SUBSET Nat, T # {}
    PROVE  \E m \in T : \A k \in T : m <= k
<1>1. PICK m \in T : \A k \in T : ~(<<k, m>> \in OpToRel(<, Nat))
  BY NatLessThanWellFounded, WFMin
<1>2. \A k \in T : ~(k < m)
  BY <1>1 DEF OpToRel
<1>3. QED
  BY <1>2

-----------------------------------------------------------------------------
(* The condition variable and the linked list.                             *)

\* The walk that thread_pool_destroy makes meets exactly the queued items.
LEMMA LinkedIsQueued ==
    ASSUME TypeOK, QueueWellFormed
    PROVE  Linked = Queued
<1>1. CASE pending = <<>>
  BY <1>1 DEF TypeOK, QueueWellFormed, Linked, Queued
<1>2. CASE pending # <<>>
  <2>0. /\ pending \in Seq(Items) /\ Len(pending) \in Nat /\ Len(pending) > 0
        /\ DOMAIN pending = 1..Len(pending)
        /\ head = pending[1] /\ head \in Queued /\ head # NULL
    BY <1>2, NullAssumption DEF TypeOK, QueueWellFormed, Queued
  <2>1. Queued \in SUBSET Items
    BY <2>0 DEF Queued
  <2>2. ASSUME NEW y \in Queued PROVE next[y] \in Queued \cup {NULL}
    <3>1. PICK i \in 1..Len(pending) : y = pending[i]
      BY <2>0 DEF Queued
    <3>2. CASE i = Len(pending)
      BY <3>1, <3>2, <1>2 DEF QueueWellFormed
    <3>3. CASE i < Len(pending)
      <4>1. i \in 1..Len(pending) - 1 /\ i + 1 \in 1..Len(pending)
        BY <3>3, <2>0
      <4>2. next[y] = pending[i + 1]
        BY <3>1, <4>1 DEF QueueWellFormed
      <4>3. QED
        BY <4>1, <4>2, <2>0 DEF Queued
    <3>4. i = Len(pending) \/ i < Len(pending)
      <4>1. Len(pending) \in Nat
        BY <2>0
      <4>2. QED
        BY <4>1
    <3>5. QED
      BY <3>2, <3>3, <3>4
  <2>3. Linked \subseteq Queued
    BY <2>0, <2>1, <2>2 DEF Linked
  <2>4. ASSUME NEW S \in SUBSET Items, head \in S,
               \A y \in S : next[y] \in S \cup {NULL}
        PROVE  Queued \subseteq S
    <3> DEFINE Missed == {i \in 1..Len(pending) : pending[i] \notin S}
    <3>1. SUFFICES ASSUME Missed # {} PROVE FALSE
      BY <2>0 DEF Queued
    <3>2. PICK m \in Missed : \A k \in Missed : m <= k
      <4>1. Missed \in SUBSET Nat
        BY <2>0
      <4>2. QED
        BY <4>1, <3>1, LeastNat
    <3>3. m # 1
      BY <3>2, <2>0, <2>4
    <3>4. m - 1 \in 1..Len(pending) - 1 /\ m - 1 \in 1..Len(pending) /\ (m - 1) + 1 = m
      BY <3>2, <3>3, <2>0
    <3>5. pending[m - 1] \in S
      BY <3>2, <3>4
    <3>6. next[pending[m - 1]] = pending[m]
      BY <3>4 DEF QueueWellFormed
    <3>7. pending[m] \in Items
      BY <2>0, <3>2
    <3>8. QED
      BY <2>4, <3>2, <3>5, <3>6, <3>7, NullAssumption
  <2>5. Queued \subseteq Linked
    BY <2>0, <2>1, <2>4 DEF Linked
  <2>6. QED
    BY <2>3, <2>5
<1>3. QED
  BY <1>1, <1>2

\* The workers on their way to the queue are finitely many.
LEMMA CheckingFinite ==
    /\ IsFiniteSet(Checking)
    /\ Cardinality(Checking) \in Nat
<1>1. IsFiniteSet(Threads)
  BY NumThreadsAssumption, FS_Interval DEF Threads
<1>2. Checking \in SUBSET Threads
  BY DEF Checking
<1>3. QED
  BY <1>1, <1>2, FS_Subset, FS_CardinalityType

\* The condition variable of a state after a step that sends worker w to check.
LEMMA WakeOne ==
    ASSUME TypeOK, NEW w \in Threads, wpc[w] # "check",
           wpc' = [wpc EXCEPT ![w] = "check"]
    PROVE  /\ Cardinality(Checking') = Cardinality(Checking) + 1
           /\ Waiting' \subseteq Waiting
<1>1. Checking' = Checking \cup {w} /\ w \notin Checking
  BY DEF TypeOK, Checking
<1>2. Cardinality(Checking \cup {w}) = Cardinality(Checking) + 1
  BY <1>1, CheckingFinite, FS_AddElement
<1>3. Waiting' \subseteq Waiting
  BY DEF TypeOK, Waiting
<1>4. QED
  BY <1>1, <1>2, <1>3

\* The same for a worker that leaves check for state st.
LEMMA LeaveOne ==
    ASSUME TypeOK, NEW w \in Threads, NEW st, wpc[w] = "check", st # "check",
           wpc' = [wpc EXCEPT ![w] = st]
    PROVE  Cardinality(Checking') = Cardinality(Checking) - 1
<1>1. Checking' = Checking \ {w} /\ w \in Checking
  BY DEF TypeOK, Checking
<1>2. Cardinality(Checking \ {w}) = Cardinality(Checking) - 1
  BY <1>1, CheckingFinite, FS_RemoveElement
<1>3. QED
  BY <1>1, <1>2

-----------------------------------------------------------------------------
(* The steps.  Each lemma covers the actions of one operation.             *)

USE DEF PoolInv, Threads

\* The empty pool satisfies the invariant.
LEMMA InitInv ==
    ASSUME Init PROVE PoolInv
<1>1. TypeOK
  <2>1. /\ 0 \in 0..NumThreads
        /\ <<>> \in Seq(Items)
    BY NumThreadsAssumption
  <2>2. /\ wpc \in [Threads -> WorkerStates]
        /\ fate \in [Items -> Fates]
        /\ phase \in Phases
    BY DEF Init, WorkerStates, Fates, Phases
  <2>3. QED
    BY <2>1, <2>2 DEF Init, TypeOK
<1>2. QueueWellFormed
  BY DEF Init, QueueWellFormed
<1>3. NoLostWakeup
  BY DEF Init, NoLostWakeup, Waiting
<1>4. SingleOwner
  BY DEF Init, SingleOwner, Queued, Running
<1>5. NoUseAfterFree
  BY DEF Init, NoUseAfterFree
<1>6. LifeCycle
  BY NumThreadsAssumption DEF Init, LifeCycle, Waiting
<1>7. QED
  BY <1>1, <1>2, <1>3, <1>4, <1>5, <1>6

\* Steps that change neither the queue, the workers nor the items.
LEMMA OwnerOnly ==
    ASSUME PoolInv,
           PoolAlloc \/ PoolAllocFails \/ CreateReturns \/ JoinNext
    PROVE  PoolInv'
<1> USE DEF PoolAlloc, PoolAllocFails, CreateReturns, JoinNext, queueVars, workerVars
<1>1. TypeOK'
  BY NumThreadsAssumption DEF TypeOK, Phases, LifeCycle
<1>2. QueueWellFormed'
  BY DEF QueueWellFormed
<1>3. NoLostWakeup'
  BY DEF NoLostWakeup, Waiting, Checking
<1>4. SingleOwner'
  BY DEF SingleOwner, Queued, Running
<1>5. NoUseAfterFree'
  BY NumThreadsAssumption DEF NoUseAfterFree, TypeOK, LifeCycle
<1>6. LifeCycle'
  BY NumThreadsAssumption DEF LifeCycle, Waiting, TypeOK
<1>7. QED
  BY <1>1, <1>2, <1>3, <1>4, <1>5, <1>6

\* A new worker starts at the queue.
LEMMA SpawnWorkerStep ==
    ASSUME PoolInv, SpawnWorker PROVE PoolInv'
<1> USE DEF SpawnWorker, queueVars
<1>0. spawned + 1 \in Threads /\ wpc[spawned + 1] = "none"
  BY NumThreadsAssumption DEF TypeOK, LifeCycle
<1>1. TypeOK'
  BY <1>0, NumThreadsAssumption DEF TypeOK, WorkerStates
<1>2. QueueWellFormed'
  BY DEF QueueWellFormed
<1>3. NoLostWakeup'
  <2>1. Cardinality(Checking') = Cardinality(Checking) + 1 /\ Waiting' \subseteq Waiting
    BY <1>0, WakeOne
  <2>2. QED
    BY <2>1, CheckingFinite DEF NoLostWakeup, TypeOK
<1>4. SingleOwner'
  BY <1>0 DEF SingleOwner, Queued, Running, TypeOK
<1>5. NoUseAfterFree'
  BY DEF NoUseAfterFree
<1>6. LifeCycle'
  BY <1>0, NumThreadsAssumption DEF LifeCycle, Waiting, TypeOK
<1>7. QED
  BY <1>1, <1>2, <1>3, <1>4, <1>5, <1>6

\* Shutdown is announced: nobody sleeps any more.
LEMMA ShutdownStep ==
    ASSUME PoolInv, SpawnFails \/ BeginDestroy PROVE PoolInv'
<1> USE DEF SpawnFails, BeginDestroy, StartShutdown, queueVars
<1>0. /\ wpc' = [w \in Threads |-> IF w \in Waiting THEN "check" ELSE wpc[w]]
      /\ \A w \in Threads : w \in Waiting <=> wpc[w] = "waiting"
  BY DEF CondBroadcast, Waiting
<1>1. TypeOK'
  BY <1>0, NumThreadsAssumption DEF TypeOK, Phases, WorkerStates
<1>2. QueueWellFormed'
  BY DEF QueueWellFormed
<1>3. Waiting' = {}
  BY <1>0 DEF Waiting
<1>4. NoLostWakeup'
  BY <1>3 DEF NoLostWakeup
<1>5. Running' = Running
  BY <1>0 DEF Running, TypeOK
<1>6. SingleOwner'
  BY <1>5 DEF SingleOwner, Queued
<1>7. NoUseAfterFree'
  BY DEF NoUseAfterFree
<1>8. LifeCycle'
  BY <1>0, <1>3, NumThreadsAssumption DEF LifeCycle, TypeOK
<1>9. QED
  BY <1>1, <1>2, <1>4, <1>6, <1>7, <1>8

\* The remaining items are dropped and the pool is freed.
LEMMA FreePoolStep ==
    ASSUME PoolInv, FreePool PROVE PoolInv'
<1> USE DEF FreePool, workerVars
<1>0. Linked = Queued
  BY LinkedIsQueued
<1>1. TypeOK'
  <2>1. <<>> \in Seq(Items)
    OBVIOUS
  <2>2. fate' \in [Items -> Fates]
    BY DEF TypeOK, Fates
  <2>3. QED
    BY <2>1, <2>2 DEF TypeOK, Phases
<1>2. QueueWellFormed'
  BY DEF QueueWellFormed
<1>3. NoLostWakeup'
  BY DEF NoLostWakeup, LifeCycle, Waiting
<1>4. SingleOwner'
  <2>1. Queued' = {} /\ Running' = Running
    BY DEF Queued, Running
  <2>2. ASSUME NEW x \in Items PROVE fate'[x] # "queued"
    BY <1>0 DEF SingleOwner, TypeOK
  <2>3. ASSUME NEW x \in Items PROVE (fate'[x] = "running") <=> (fate[x] = "running")
    BY <1>0 DEF SingleOwner, TypeOK
  <2>4. QED
    BY <2>1, <2>2, <2>3 DEF SingleOwner
<1>5. NoUseAfterFree'
  <2>1. ASSUME NEW w \in Threads PROVE wpc[w] \in {"none", "exited"}
    BY NumThreadsAssumption DEF LifeCycle, TypeOK
  <2>2. QED
    BY <2>1 DEF NoUseAfterFree
<1>6. LifeCycle'
  BY NumThreadsAssumption DEF LifeCycle, Waiting, TypeOK
<1>7. QED
  BY <1>1, <1>2, <1>3, <1>4, <1>5, <1>6

\* Steps of a worker that do not touch the queue or an item.
LEMMA WorkerOnly ==
    ASSUME PoolInv, NEW w \in Threads,
           SpuriousWake(w) \/ Sleep(w) \/ ExitWorker(w)
    PROVE  PoolInv'
<1> USE DEF SpuriousWake, Sleep, ExitWorker, queueVars, ownerVars
<1>1. TypeOK'
  BY DEF TypeOK, WorkerStates
<1>2. QueueWellFormed'
  BY DEF QueueWellFormed
<1>3. NoLostWakeup'
  <2>1. CASE SpuriousWake(w)
    <3>1. Cardinality(Checking') = Cardinality(Checking) + 1 /\ Waiting' \subseteq Waiting
      BY <2>1, WakeOne
    <3>2. QED
      BY <2>1, <3>1, CheckingFinite DEF NoLostWakeup, TypeOK
  <2>2. CASE Sleep(w)
    <3>1. Cardinality(Checking') = Cardinality(Checking) - 1
      BY <2>2, LeaveOne
    <3>2. Cardinality(Checking) # 0
      <4>1. w \in Checking
        BY <2>2 DEF Checking
      <4>2. QED
        BY <4>1, CheckingFinite, FS_EmptySet
    <3>3. QED
      BY <2>2, <3>1, <3>2, CheckingFinite DEF NoLostWakeup, TypeOK
  <2>3. CASE ExitWorker(w)
    BY <2>3 DEF NoLostWakeup, LifeCycle, Waiting, TypeOK
  <2>4. QED
    BY <2>1, <2>2, <2>3
<1>4. SingleOwner'
  <2>1. Running' = Running
    BY DEF Running, TypeOK
  <2>2. QED
    BY <2>1 DEF SingleOwner, Queued
<1>5. NoUseAfterFree'
  BY DEF NoUseAfterFree, TypeOK
<1>6. LifeCycle'
  BY NumThreadsAssumption DEF LifeCycle, Waiting, TypeOK
<1>7. QED
  BY <1>1, <1>2, <1>3, <1>4, <1>5, <1>6

\* A worker finishes its item and goes back to the queue.
LEMMA FinishItemStep ==
    ASSUME PoolInv, NEW w \in Threads, FinishItem(w) PROVE PoolInv'
<1> USE DEF FinishItem, queueVars, ownerVars
<1>0. w \in Running /\ witem[w] \in Items /\ fate[witem[w]] = "running"
  BY DEF TypeOK, SingleOwner, Running
<1>1. TypeOK'
  BY <1>0 DEF TypeOK, WorkerStates, Fates
<1>2. QueueWellFormed'
  BY DEF QueueWellFormed
<1>3. NoLostWakeup'
  <2>1. Cardinality(Checking') = Cardinality(Checking) + 1 /\ Waiting' \subseteq Waiting
    BY WakeOne
  <2>2. QED
    BY <2>1, CheckingFinite DEF NoLostWakeup, TypeOK
<1>4. SingleOwner'
  <2>1. Running' = Running \ {w}
    BY DEF Running, TypeOK
  <2>2. \A v \in Running' : v # w /\ witem'[v] = witem[v] /\ witem[v] # witem[w]
    BY <1>0, <2>1 DEF SingleOwner, TypeOK, Running
  <2>3. ASSUME NEW x \in Items, x # witem[w]
        PROVE  fate'[x] = fate[x]
    BY <2>3 DEF TypeOK
  <2>4. fate'[witem[w]] = "done" /\ witem[w] \notin Queued
    BY <1>0 DEF TypeOK, SingleOwner
  <2>5. Queued' = Queued
    BY DEF Queued
  <2>6. \A x \in Items : (fate'[x] = "queued") <=> (x \in Queued')
    BY <2>3, <2>4, <2>5 DEF SingleOwner
  <2>7. \A x \in Items : (fate'[x] = "running") <=> (\E v \in Running' : witem'[v] = x)
    BY <1>0, <2>1, <2>2, <2>3, <2>4 DEF SingleOwner
  <2>8. \A u, v \in Running' : (witem'[u] = witem'[v]) => (u = v)
    BY <2>1, <2>2 DEF SingleOwner
  <2>9. QED
    BY <2>6, <2>7, <2>8 DEF SingleOwner
<1>5. NoUseAfterFree'
  BY DEF NoUseAfterFree
<1>6. LifeCycle'
  BY NumThreadsAssumption DEF LifeCycle, Waiting, TypeOK
<1>7. QED
  BY <1>1, <1>2, <1>3, <1>4, <1>5, <1>6

\* A submission that fails leaves everything but the item's fate alone.
LEMMA SubmitFailsStep ==
    ASSUME PoolInv, NEW x \in Items, SubmitFails(x) PROVE PoolInv'
<1> USE DEF SubmitFails, queueVars, ownerVars, workerVars
<1>1. TypeOK'
  BY DEF TypeOK, Fates
<1>2. QueueWellFormed'
  BY DEF QueueWellFormed
<1>3. NoLostWakeup'
  BY DEF NoLostWakeup, Waiting, Checking
<1>4. SingleOwner'
  BY DEF SingleOwner, Queued, Running, TypeOK
<1>5. NoUseAfterFree'
  BY DEF NoUseAfterFree
<1>6. LifeCycle'
  BY DEF LifeCycle, Waiting
<1>7. QED
  BY <1>1, <1>2, <1>3, <1>4, <1>5, <1>6

\* A submission appends the item and wakes one sleeper, if there is any.
LEMMA SubmitStep ==
    ASSUME PoolInv, NEW x \in Items, Submit(x) PROVE PoolInv'
<1> USE DEF Submit, Enqueue, ownerVars
<1>0. /\ pending \in Seq(Items) /\ Len(pending) \in Nat
      /\ DOMAIN pending = 1..Len(pending)
      /\ x \notin Queued /\ x # NULL
  BY NullAssumption DEF TypeOK, SingleOwner
<1>a. /\ pending' \in Seq(Items)
      /\ Len(pending') = Len(pending) + 1
      /\ DOMAIN pending' = 1..Len(pending) + 1
      /\ \A i \in 1..Len(pending) : pending'[i] = pending[i]
      /\ pending'[Len(pending) + 1] = x
  BY <1>0
<1>b. \A i \in 1..Len(pending) : pending[i] # x /\ pending[i] \in Items
  BY <1>0 DEF Queued
<1>c. /\ wpc' \in [Threads -> WorkerStates]
      /\ Running' = Running
      /\ Waiting' \subseteq Waiting
      /\ \A w \in Threads : (wpc'[w] = "none") <=> (wpc[w] = "none")
      /\ \A w \in Threads : (wpc'[w] = "running") <=> (wpc[w] = "running")
      /\ \A w \in Threads : (wpc'[w] = "exited") <=> (wpc[w] = "exited")
      /\ Waiting # {} => Cardinality(Checking') = Cardinality(Checking) + 1
  <2>1. CASE Waiting = {}
    BY <2>1 DEF CondSignal, TypeOK, Running, Waiting
  <2>2. CASE Waiting # {}
    <3>1. PICK w \in Waiting : wpc' = [wpc EXCEPT ![w] = "check"]
      BY <2>2 DEF CondSignal
    <3>2. w \in Threads /\ wpc[w] = "waiting"
      BY DEF Waiting
    <3>3. Cardinality(Checking') = Cardinality(Checking) + 1 /\ Waiting' \subseteq Waiting
      BY <3>1, <3>2, WakeOne
    <3>4. QED
      BY <3>1, <3>2, <3>3 DEF TypeOK, Running, WorkerStates
  <2>3. QED
    BY <2>1, <2>2
<1>1. TypeOK'
  BY <1>a, <1>c DEF TypeOK, Fates
<1>2. QueueWellFormed'
  <2>1. count' = Len(pending')
    BY <1>0, <1>a DEF QueueWellFormed
  <2>2. pending' # <<>>
    BY <1>0, <1>a
  <2>3. /\ head' = pending'[1] /\ tail' = pending'[Len(pending')]
        /\ next'[tail'] = NULL
    <3>1. CASE pending = <<>>
      BY <3>1, <1>0, <1>a DEF QueueWellFormed
    <3>2. CASE pending # <<>>
      BY <3>2, <1>0, <1>a, <1>b, NullAssumption DEF QueueWellFormed
    <3>3. QED
      BY <3>1, <3>2
  <2>4. ASSUME NEW i \in 1..Len(pending') - 1
        PROVE  next'[pending'[i]] = pending'[i + 1]
    <3>0. i \in 1..Len(pending)
      BY <1>0, <1>a
    <3>1. CASE i = Len(pending)
      <4>1. pending[i] = tail /\ pending[i] \in Items /\ pending[i] # x
        BY <3>0, <3>1, <1>0, <1>b DEF QueueWellFormed
      <4>2. QED
        BY <4>1, <3>0, <3>1, <1>a
    <3>2. CASE i # Len(pending)
      <4>1. i + 1 \in 1..Len(pending) /\ i \in 1..Len(pending) - 1
        BY <3>0, <3>2, <1>0
      <4>2. pending # <<>> /\ tail = pending[Len(pending)] /\ Len(pending) \in DOMAIN pending
        BY <3>0, <1>0 DEF QueueWellFormed
      <4>3. pending[i] # tail
        BY <4>2, <3>0, <3>2, <1>0 DEF QueueWellFormed
      <4>4. next'[pending[i]] = next[pending[i]]
        BY <4>3, <3>0, <1>b
      <4>5. next[pending[i]] = pending[i + 1]
        BY <4>1 DEF QueueWellFormed
      <4>6. QED
        BY <4>4, <4>5, <4>1, <3>0, <1>a
    <3>3. QED
      BY <3>1, <3>2
  <2>5. \A i, j \in DOMAIN pending' : pending'[i] = pending'[j] => i = j
    BY <1>0, <1>a, <1>b DEF QueueWellFormed
  <2>6. QED
    BY <2>1, <2>2, <2>3, <2>4, <2>5 DEF QueueWellFormed
<1>3. NoLostWakeup'
  BY <1>c, CheckingFinite DEF NoLostWakeup, TypeOK
<1>4. SingleOwner'
  <2>1. Queued' = Queued \cup {x}
    <3>1. Queued' \subseteq Queued \cup {x}
      BY <1>0, <1>a DEF Queued
    <3>2. Queued \subseteq Queued'
      BY <1>0, <1>a DEF Queued
    <3>3. x \in Queued'
      BY <1>0, <1>a DEF Queued
    <3>4. QED
      BY <3>1, <3>2, <3>3
  <2>2. \A y \in Items : fate'[y] = IF y = x THEN "queued" ELSE fate[y]
    BY DEF TypeOK
  <2>3. \A y \in Items : (fate'[y] = "queued") <=> (y \in Queued')
    BY <2>1, <2>2 DEF SingleOwner
  <2>4. \A y \in Items : (fate'[y] = "running") <=> (\E w \in Running' : witem'[w] = y)
    BY <2>2, <1>c DEF SingleOwner
  <2>5. QED
    BY <2>3, <2>4, <1>c DEF SingleOwner
<1>5. NoUseAfterFree'
  BY DEF NoUseAfterFree
<1>6. LifeCycle'
  BY <1>c DEF LifeCycle, TypeOK
<1>7. QED
  BY <1>1, <1>2, <1>3, <1>4, <1>5, <1>6

\* A worker unlinks the head of the queue and runs it.
LEMMA TakeStep ==
    ASSUME PoolInv, NEW w \in Threads, Take(w) PROVE PoolInv'
<1> USE DEF Take, ownerVars
<1>0. /\ pending \in Seq(Items) /\ pending # <<>> /\ Len(pending) \in Nat
      /\ Len(pending) > 0 /\ DOMAIN pending = 1..Len(pending)
      /\ head = pending[1] /\ head \in Items /\ head \in Queued
      /\ tail = pending[Len(pending)]
  BY DEF TypeOK, QueueWellFormed, Queued
<1>a. /\ Dequeue
      /\ wpc' = [wpc EXCEPT ![w] = "running"]
      /\ witem' = [witem EXCEPT ![w] = head]
      /\ fate' = [fate EXCEPT ![head] = "running"]
  BY <1>0, NullAssumption
<1>b. /\ pending' \in Seq(Items)
      /\ Len(pending') = Len(pending) - 1
      /\ DOMAIN pending' = 1..Len(pending) - 1
      /\ \A i \in 1..Len(pending) - 1 : pending'[i] = pending[i + 1]
  BY <1>0, <1>a DEF Dequeue
<1>1. TypeOK'
  <2>1. next[head] \in Items \cup {NULL} /\ count - 1 \in Nat
    BY <1>0 DEF TypeOK
  <2>2. head' \in Items \cup {NULL} /\ tail' \in Items \cup {NULL} /\ count' \in Nat
    BY <2>1, <1>a DEF Dequeue, TypeOK
  <2>3. next' = next
    BY <1>a DEF Dequeue
  <2>4. QED
    BY <2>2, <2>3, <1>0, <1>a, <1>b, NullAssumption DEF TypeOK, WorkerStates, Fates
<1>2. QueueWellFormed'
  <2>1. count' = Len(pending') /\ next' = next
    BY <1>0, <1>a, <1>b DEF QueueWellFormed, Dequeue
  <2>2. CASE Len(pending) = 1
    BY <2>1, <2>2, <1>0, <1>a, <1>b DEF QueueWellFormed, Dequeue
  <2>3. CASE Len(pending) > 1
    <3>1. next[head] = pending[2] /\ pending[2] \in Items
      BY <2>3, <1>0 DEF QueueWellFormed
    <3>2. head' = pending'[1] /\ tail' = pending'[Len(pending')]
      BY <3>1, <2>3, <1>0, <1>a, <1>b, NullAssumption DEF Dequeue
    <3>3. next'[tail'] = NULL
      BY <3>1, <2>1, <1>0, <1>a, NullAssumption DEF Dequeue, QueueWellFormed
    <3>4. \A i \in 1..Len(pending') - 1 : next'[pending'[i]] = pending'[i + 1]
      <4>1. SUFFICES ASSUME NEW i \in 1..Len(pending') - 1
                     PROVE  next'[pending'[i]] = pending'[i + 1]
        OBVIOUS
      <4>2. /\ i \in 1..Len(pending) - 1 /\ i + 1 \in 1..Len(pending) - 1
        BY <1>0, <1>b
      <4>3. next[pending[i + 1]] = pending[(i + 1) + 1]
        BY <4>2 DEF QueueWellFormed
      <4>4. QED
        BY <4>2, <4>3, <2>1, <1>b
    <3>5. \A i, j \in DOMAIN pending' : pending'[i] = pending'[j] => i = j
      <4>1. SUFFICES ASSUME NEW i \in 1..Len(pending) - 1, NEW j \in 1..Len(pending) - 1,
                            pending'[i] = pending'[j]
                     PROVE  i = j
        BY <1>b
      <4>2. i + 1 \in DOMAIN pending /\ j + 1 \in DOMAIN pending
        BY <1>0
      <4>3. pending[i + 1] = pending[j + 1]
        BY <4>1, <1>b
      <4>4. i + 1 = j + 1
        BY <4>2, <4>3 DEF QueueWellFormed
      <4>5. QED
        BY <4>4, <1>0
    <3>6. pending' # <<>>
      BY <2>3, <1>0, <1>b
    <3>7. QED
      BY <2>1, <3>2, <3>3, <3>4, <3>5, <3>6 DEF QueueWellFormed
  <2>4. QED
    BY <2>2, <2>3, <1>0
<1>3. NoLostWakeup'
  <2>1. Cardinality(Checking') = Cardinality(Checking) - 1
    BY <1>a, LeaveOne
  <2>2. Waiting' = Waiting
    BY <1>a DEF Waiting, TypeOK
  <2>3. QED
    BY <2>1, <2>2, <1>a, CheckingFinite DEF NoLostWakeup, TypeOK, Dequeue
<1>4. SingleOwner'
  <2>1. Queued' = Queued \ {head}
    <3>1. ASSUME NEW y \in Queued' PROVE y \in Queued \ {head}
      <4>1. PICK i \in 1..Len(pending) - 1 : y = pending[i + 1]
        BY <1>b DEF Queued
      <4>2. i + 1 \in 1..Len(pending) /\ 1 \in 1..Len(pending) /\ i + 1 # 1
        BY <1>0
      <4>3. QED
        BY <4>1, <4>2, <1>0 DEF Queued, QueueWellFormed
    <3>2. ASSUME NEW y \in Queued, y # head PROVE y \in Queued'
      <4>1. PICK i \in 1..Len(pending) : y = pending[i]
        BY <1>0 DEF Queued
      <4>2. i - 1 \in 1..Len(pending) - 1 /\ (i - 1) + 1 = i
        BY <4>1, <3>2, <1>0
      <4>3. QED
        BY <4>1, <4>2, <1>b DEF Queued
    <3>3. QED
      BY <3>1, <3>2
  <2>2. Running' = Running \cup {w} /\ w \notin Running
    BY <1>a DEF Running, TypeOK
  <2>3. \A y \in Items : fate'[y] = IF y = head THEN "running" ELSE fate[y]
    BY <1>a DEF TypeOK
  <2>4. witem'[w] = head /\ \A v \in Running : witem'[v] = witem[v] /\ witem[v] # head
    BY <1>0, <1>a, <2>2 DEF SingleOwner, TypeOK, Running
  <2>5. \A y \in Items : (fate'[y] = "queued") <=> (y \in Queued')
    BY <2>1, <2>3, <1>0 DEF SingleOwner
  <2>6. \A y \in Items : (fate'[y] = "running") <=> (\E v \in Running' : witem'[v] = y)
    BY <2>2, <2>3, <2>4 DEF SingleOwner
  <2>7. \A u, v \in Running' : (witem'[u] = witem'[v]) => (u = v)
    BY <2>2, <2>4 DEF SingleOwner
  <2>8. QED
    BY <2>5, <2>6, <2>7 DEF SingleOwner
<1>5. NoUseAfterFree'
  BY DEF NoUseAfterFree, TypeOK
<1>6. LifeCycle'
  BY <1>0, <1>a, NumThreadsAssumption DEF LifeCycle, Waiting, TypeOK
<1>7. QED
  BY <1>1, <1>2, <1>3, <1>4, <1>5, <1>6

-----------------------------------------------------------------------------
(* The theorems.                                                           *)

\* Every step of the pool, and every stuttering step, keeps the invariant.
LEMMA NextInv ==
    ASSUME PoolInv, [Next]_poolVars PROVE PoolInv'
<1>1. CASE Create
  BY <1>1, OwnerOnly, SpawnWorkerStep, ShutdownStep DEF Create
<1>2. CASE BeginDestroy
  BY <1>2, ShutdownStep
<1>3. CASE Destroy
  BY <1>3, OwnerOnly, FreePoolStep DEF Destroy
<1>4. ASSUME NEW x \in Items, Submit(x) \/ SubmitFails(x) PROVE PoolInv'
  BY <1>4, SubmitStep, SubmitFailsStep
<1>5. ASSUME NEW w \in Threads, Work(w) \/ FinishItem(w) \/ SpuriousWake(w)
      PROVE  PoolInv'
  BY <1>5, WorkerOnly, TakeStep, FinishItemStep DEF Work
<1>6. CASE Terminated \/ UNCHANGED poolVars
  <2> USE <1>6 DEF Terminated, poolVars
  <2>1. TypeOK'
    BY DEF TypeOK
  <2>2. QueueWellFormed'
    BY DEF QueueWellFormed
  <2>3. NoLostWakeup' /\ NoUseAfterFree'
    BY DEF NoLostWakeup, NoUseAfterFree, Waiting, Checking
  <2>4. SingleOwner'
    BY DEF SingleOwner, Running, Queued
  <2>5. LifeCycle'
    BY DEF LifeCycle, Waiting
  <2>6. QED
    BY <2>1, <2>2, <2>3, <2>4, <2>5
<1>7. QED
  BY <1>1, <1>2, <1>3, <1>4, <1>5, <1>6 DEF Next

\* The conjunction of the safety invariants holds in every reachable state,
\* for every number of workers and every set of items.
THEOREM PoolInvariant == Spec => []PoolInv
<1>1. Init => PoolInv
  BY InitInv
<1>2. PoolInv /\ [Next]_poolVars => PoolInv'
  BY NextInv
<1>3. QED
  BY <1>1, <1>2, PTL DEF Spec

\* The variables of the pool keep their types.
THEOREM PoolTypeCorrect == Spec => []TypeOK
<1>1. PoolInv => TypeOK
  OBVIOUS
<1>2. QED
  BY <1>1, PoolInvariant, PTL

\* head, tail, next and count always describe the first-in first-out queue
\* of the items submitted and not yet taken.
THEOREM QueueCorrect == Spec => []QueueWellFormed
<1>1. PoolInv => QueueWellFormed
  OBVIOUS
<1>2. QED
  BY <1>1, PoolInvariant, PTL

\* One pthread_cond_signal per submission is enough: no item is left in the
\* queue with every free worker asleep.
THEOREM WakeupsSuffice == Spec => []NoLostWakeup
<1>1. PoolInv => NoLostWakeup
  OBVIOUS
<1>2. QED
  BY <1>1, PoolInvariant, PTL

\* No connection is handled by two workers, and none is lost between the
\* queue and the workers.
THEOREM OneOwner == Spec => []SingleOwner
<1>1. PoolInv => SingleOwner
  OBVIOUS
<1>2. QED
  BY <1>1, PoolInvariant, PTL

\* thread_pool_destroy frees the pool only after its last worker has ended.
THEOREM FreedAfterLastWorker == Spec => []NoUseAfterFree
<1>1. PoolInv => NoUseAfterFree
  OBVIOUS
<1>2. QED
  BY <1>1, PoolInvariant, PTL

\* thread_pool_destroy joins exactly the workers that exist, also after a
\* failed pthread_create, and shutdown leaves no worker asleep.
THEOREM OrderlyLife == Spec => []LifeCycle
<1>1. PoolInv => LifeCycle
  OBVIOUS
<1>2. QED
  BY <1>1, PoolInvariant, PTL

-----------------------------------------------------------------------------
(* The pool implements the safety part of WorkQueue.                       *)

\* The refinement mapping: the work being executed.
Active == {witem[w] : w \in Running}

\* Steps that the abstract queue does not see.
LEMMA Invisible ==
    ASSUME UNCHANGED <<pending, shutdown, fate, witem>>, Running' = Running
    PROVE  UNCHANGED WQ!wqVars
<1>1. Active' = Active
  BY DEF Active
<1>2. QED
  BY <1>1 DEF WQ!wqVars, Active

\* Fewer items run than there are workers while one of them looks for work.
LEMMA SlotFree ==
    ASSUME PoolInv, NEW w \in Threads, wpc[w] = "check"
    PROVE  Cardinality(Active) < NumThreads
<1>1. IsFiniteSet(Threads) /\ Cardinality(Threads) = NumThreads
  BY NumThreadsAssumption, FS_Interval DEF Threads
<1>2. IsFiniteSet(Threads \ {w}) /\ Cardinality(Threads \ {w}) = NumThreads - 1
  BY <1>1, FS_RemoveElement
<1>3. Running \in SUBSET (Threads \ {w})
  BY DEF Running
<1>4. IsFiniteSet(Running) /\ Cardinality(Running) <= NumThreads - 1
  <2> DEFINE T == Threads \ {w}
             R == Running
  <2>1. IsFiniteSet(T) /\ R \in SUBSET T /\ Cardinality(T) = NumThreads - 1
    BY <1>2, <1>3
  <2> HIDE DEF T, R
  <2>2. IsFiniteSet(R) /\ Cardinality(R) <= Cardinality(T)
    BY <2>1, FS_Subset
  <2>3. QED
    BY <2>1, <2>2 DEF R
<1> DEFINE f == [v \in Running |-> witem[v]]
<1>5. f \in Surjection(Running, Active)
  BY DEF Surjection, Active
<1>6. IsFiniteSet(Active) /\ Cardinality(Active) <= Cardinality(Running)
  <2> HIDE DEF f
  <2>1. QED
    BY <1>4, <1>5, FS_Surjection
<1>7. Cardinality(Active) \in Nat /\ Cardinality(Running) \in Nat
  BY <1>4, <1>6, FS_CardinalityType
<1>8. QED
  BY <1>4, <1>6, <1>7, NumThreadsAssumption

\* A submission hands its item over.
LEMMA SubmitRefines ==
    ASSUME PoolInv, NEW x \in Items, Submit(x)
    PROVE  WQ!HandOver(x)
<1> USE DEF PoolInv
<1>1. ~shutdown
  BY DEF Submit, LifeCycle
<1>2. x \notin Queued /\ x \notin Active /\ fate[x] = "new"
  BY DEF Submit, SingleOwner, Active
<1>3. Running' = Running /\ witem' = witem
  <2>1. wpc' = wpc \/ \E w \in Waiting : wpc' = [wpc EXCEPT ![w] = "check"]
    BY DEF Submit, CondSignal
  <2>2. QED
    BY <2>1 DEF Submit, Running, Waiting, TypeOK
<1>4. Active' = Active
  BY <1>3 DEF Active
<1>5. /\ \A y \in Items : fate'[y] = IF y = x THEN "queued" ELSE fate[y]
      /\ shutdown' = shutdown /\ pending' = Append(pending, x)
  BY DEF Submit, TypeOK, Enqueue, ownerVars
<1>6. /\ {y \in Items : fate'[y] = "done"} = {y \in Items : fate[y] = "done"}
      /\ {y \in Items : fate'[y] = "dropped"} = {y \in Items : fate[y] = "dropped"}
  BY <1>2, <1>5
<1>7. QED
  BY <1>1, <1>2, <1>4, <1>5, <1>6 DEF WQ!HandOver, WQ!Waiting, Queued, Active

\* Taking an item starts the oldest one, in a slot that is free.
LEMMA TakeRefines ==
    ASSUME PoolInv, NEW w \in Threads, Take(w)
    PROVE  WQ!Start
<1> USE DEF PoolInv
<1>1. /\ pending # <<>> /\ head = Head(pending) /\ head # NULL /\ head \in Items
      /\ fate[head] = "queued"
  <2>1. pending \in Seq(Items) /\ pending # <<>> /\ head = pending[1] /\ head \in Queued
    BY DEF Take, QueueWellFormed, TypeOK, Queued
  <2>2. head \in Items /\ head = Head(pending)
    BY <2>1
  <2>3. QED
    BY <2>1, <2>2, NullAssumption DEF SingleOwner
<1>2. /\ Dequeue /\ wpc' = [wpc EXCEPT ![w] = "running"] /\ witem' = [witem EXCEPT ![w] = head]
      /\ fate' = [fate EXCEPT ![head] = "running"] /\ wpc[w] = "check" /\ ~shutdown /\ shutdown' = shutdown
  BY <1>1 DEF Take, ownerVars
<1>3. Running' = Running \cup {w} /\ w \notin Running
  BY <1>2 DEF Running, TypeOK
<1>4. Active' = Active \cup {head}
  BY <1>2, <1>3 DEF Active, TypeOK, Running
<1>5. /\ {y \in Items : fate'[y] = "done"} = {y \in Items : fate[y] = "done"}
      /\ {y \in Items : fate'[y] = "dropped"} = {y \in Items : fate[y] = "dropped"}
  BY <1>1, <1>2 DEF TypeOK
<1>6. pending' = Tail(pending)
  BY <1>2 DEF Dequeue
<1>7. Cardinality(Active) < NumThreads
  BY <1>2, SlotFree
<1>8. WQ!Cardinality(Active) = Cardinality(Active)
  BY DEF WQ!Cardinality, Cardinality
<1>9. QED
  BY <1>1, <1>2, <1>4, <1>5, <1>6, <1>7, <1>8 DEF WQ!Start, Active

\* Finishing an item finishes it.
LEMMA FinishRefines ==
    ASSUME PoolInv, NEW w \in Threads, FinishItem(w)
    PROVE  \E x \in Items : WQ!Finish(x)
<1> USE DEF PoolInv
<1>0. PICK x \in Items : x = witem[w]
  BY DEF FinishItem, TypeOK
<1>1. w \in Running /\ x # NULL /\ fate[x] = "running" /\ x \in Active
  BY <1>0 DEF FinishItem, TypeOK, SingleOwner, Running, Active
<1>2. /\ wpc' = [wpc EXCEPT ![w] = "check"] /\ witem' = [witem EXCEPT ![w] = NULL]
      /\ fate' = [fate EXCEPT ![x] = "done"] /\ shutdown' = shutdown /\ pending' = pending
  BY <1>0 DEF FinishItem, ownerVars, queueVars
<1>3. Running' = Running \ {w}
  BY <1>2 DEF Running, TypeOK
<1>4. \A v \in Running : v # w => (witem'[v] = witem[v] /\ witem[v] # x)
  BY <1>0, <1>1, <1>2 DEF SingleOwner, TypeOK, Running
<1>5. Active' = Active \ {x}
  BY <1>0, <1>1, <1>3, <1>4 DEF Active
<1>6. /\ {y \in Items : fate'[y] = "done"} = {y \in Items : fate[y] = "done"} \cup {x}
      /\ {y \in Items : fate'[y] = "dropped"} = {y \in Items : fate[y] = "dropped"}
  BY <1>1, <1>2 DEF TypeOK
<1>7. WQ!Finish(x)
  BY <1>1, <1>2, <1>5, <1>6 DEF WQ!Finish, Active
<1>8. QED
  BY <1>7

\* Freeing the pool discards what waits, or changes nothing.
LEMMA FreeRefines ==
    ASSUME PoolInv, FreePool
    PROVE  WQ!Discard \/ UNCHANGED WQ!wqVars
<1> USE DEF PoolInv
<1>1. shutdown /\ shutdown' = shutdown /\ pending' = <<>> /\ witem' = witem /\ wpc' = wpc
  BY DEF FreePool, LifeCycle, workerVars
<1>2. Running = {} /\ Running' = {}
  <2>1. \A w \in Threads : wpc[w] \in {"none", "exited"}
    BY NumThreadsAssumption DEF FreePool, LifeCycle, TypeOK, Threads
  <2>2. QED
    BY <1>1, <2>1 DEF Running
<1>3. Active = {} /\ Active' = {}
  BY <1>2 DEF Active
<1>4. \A y \in Items : fate'[y] = IF y \in Queued THEN "dropped" ELSE fate[y]
  BY LinkedIsQueued DEF FreePool
<1>5. Queued \subseteq Items /\ \A y \in Queued : fate[y] = "queued"
  BY DEF SingleOwner, TypeOK, Queued
<1>6. /\ {y \in Items : fate'[y] = "done"} = {y \in Items : fate[y] = "done"}
      /\ {y \in Items : fate'[y] = "dropped"} = {y \in Items : fate[y] = "dropped"} \cup Queued
  BY <1>4, <1>5
<1>7. CASE pending = <<>>
  <2>1. Queued = {}
    BY <1>7 DEF Queued
  <2>2. QED
    BY <1>1, <1>3, <1>6, <1>7, <2>1 DEF WQ!wqVars, Active
<1>8. CASE pending # <<>>
  BY <1>1, <1>3, <1>6, <1>8 DEF WQ!Discard, WQ!Waiting, Queued, Active
<1>9. QED
  BY <1>7, <1>8

\* Every step of the pool is a step of the abstract queue or invisible to it.
LEMMA StepRefines ==
    ASSUME PoolInv, [Next]_poolVars
    PROVE  [WQ!Next]_(WQ!wqVars)
<1> USE DEF PoolInv
<1>1. CASE PoolAlloc \/ PoolAllocFails \/ CreateReturns \/ JoinNext
  BY <1>1, Invisible
  DEF PoolAlloc, PoolAllocFails, CreateReturns, JoinNext, queueVars, workerVars, Running
<1>2. CASE SpawnWorker
  <2>1. spawned + 1 \in Threads /\ wpc[spawned + 1] = "none"
    BY <1>2, NumThreadsAssumption DEF SpawnWorker, TypeOK, LifeCycle, Threads
  <2>2. Running' = Running
    BY <1>2, <2>1 DEF SpawnWorker, Running, TypeOK
  <2>3. QED
    BY <1>2, <2>2, Invisible DEF SpawnWorker, queueVars
<1>3. CASE SpawnFails \/ BeginDestroy
  <2>1. ~shutdown /\ shutdown' = TRUE /\ UNCHANGED <<pending, fate, witem>>
    BY <1>3 DEF SpawnFails, BeginDestroy, StartShutdown, LifeCycle, queueVars
  <2>2. Running' = Running
    BY <1>3 DEF SpawnFails, BeginDestroy, StartShutdown, CondBroadcast, Running, Waiting
  <2>3. Active' = Active
    BY <2>1, <2>2 DEF Active
  <2>4. WQ!Close
    BY <2>1, <2>3 DEF WQ!Close, Active
  <2>5. QED
    BY <2>4 DEF WQ!Next
<1>4. CASE FreePool
  BY <1>4, FreeRefines DEF WQ!Next
<1>5. ASSUME NEW x \in Items, Submit(x) PROVE WQ!Next
  BY <1>5, SubmitRefines DEF WQ!Next
<1>6. ASSUME NEW x \in Items, SubmitFails(x) PROVE UNCHANGED WQ!wqVars
  <2>1. /\ {y \in Items : fate'[y] = "done"} = {y \in Items : fate[y] = "done"}
        /\ {y \in Items : fate'[y] = "dropped"} = {y \in Items : fate[y] = "dropped"}
    BY <1>6 DEF SubmitFails, TypeOK
  <2>2. Active' = Active /\ shutdown' = shutdown /\ pending' = pending
    BY <1>6 DEF SubmitFails, Active, Running, ownerVars, queueVars, workerVars
  <2>3. QED
    BY <2>1, <2>2 DEF WQ!wqVars, Active
<1>7. ASSUME NEW w \in Threads, Sleep(w) \/ ExitWorker(w) \/ SpuriousWake(w) PROVE UNCHANGED WQ!wqVars
  <2>1. Running' = Running
    BY <1>7 DEF Sleep, ExitWorker, SpuriousWake, Running, TypeOK
  <2>2. QED
    BY <1>7, <2>1, Invisible DEF Sleep, ExitWorker, SpuriousWake, ownerVars, queueVars
<1>8. ASSUME NEW w \in Threads, Take(w) PROVE WQ!Next
  BY <1>8, TakeRefines DEF WQ!Next
<1>9. ASSUME NEW w \in Threads, FinishItem(w) PROVE WQ!Next
  BY <1>9, FinishRefines DEF WQ!Next
<1>10. CASE UNCHANGED poolVars
  BY <1>10, Invisible DEF poolVars, Running
<1>11. QED
  BY <1>1, <1>2, <1>3, <1>4, <1>5, <1>6, <1>7, <1>8, <1>9, <1>10
  DEF Next, Create, Destroy, Work, Terminated

\* The pool implements the safety part of the first-in first-out executor:
\* work starts in the order of submission, never more than NumThreads at once,
\* none after shutdown, and what is dropped was never started.
THEOREM PoolRefinesWorkQueue == Spec => WQ!Safety
<1>1. ASSUME Init PROVE WQ!Init
  <2>1. Running = {}
    BY <1>1 DEF Init, Running
  <2>2. QED
    BY <1>1, <2>1 DEF Init, WQ!Init
<1>2. ASSUME PoolInv, [Next]_poolVars PROVE [WQ!Next]_(WQ!wqVars)
  BY <1>2, StepRefines
<1>3. QED
  BY <1>1, <1>2, PoolInvariant, PTL DEF Spec, WQ!Safety
=============================================================================
