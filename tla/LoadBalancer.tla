----------------------------- MODULE LoadBalancer -----------------------------
(***************************************************************************)
(* The backend selection of src/core/loadbalancer.c.  Every operation      *)
(* holds g_lb->mutex from end to end, so each call is one step.  A caller  *)
(* selects a backend for a client, may report it as failed, and releases   *)
(* it; a supervisor may run the health checks.  Callers and supervisor are *)
(* external: src/ only initialises and cleans up the balancer.             *)
(*                                                                         *)
(* current_index is a C int that only ever grows; IntMax is its largest    *)
(* value and beyond it the build wraps around.  Absolute times are replaced*)
(* by the age of each backend's last check, which stops growing once the   *)
(* check is due; failed_requests stops growing once it is over the limit.  *)
(* total_requests only feeds a printed table and is left out.              *)
(***************************************************************************)
EXTENDS Integers, Sequences, FiniteSets, SequencesExt, FiniteSetsExt

CONSTANTS NumBackends,    \* g_config.num_backends
          Weight,         \* g_config.backend_weights
          Algorithms,     \* those configured: "rr", "lc", "iphash", "wrr"
          Callers,        \* threads using the balancer
          Clients,        \* client addresses
          HashOf,         \* the hash of each address
          Fickle,         \* backends that may go down and come back
          FailLimit,      \* failures a backend may have before it is unhealthy
          CheckInterval,  \* age at which a health check is due
          IntMax,         \* INT_MAX
          MaxIndex,       \* bound: no selection once current_index is beyond it
          NoBackend

Backends == 1..NumBackends

ASSUME BackendAssumption ==
    NumBackends \in Nat \ {0} /\ Weight \in [Backends -> Nat] /\ NoBackend \notin Backends
ASSUME CallerAssumption == IsFiniteSet(Callers)
ASSUME AlgorithmAssumption == Algorithms \subseteq {"rr", "lc", "iphash", "wrr"}
ASSUME AddressAssumption == HashOf \in [Clients -> Nat]
ASSUME LimitAssumption ==
    FailLimit \in Nat /\ CheckInterval \in Nat \ {0} /\ IntMax \in Nat /\ MaxIndex \in Int

VARIABLES
    lb,             \* g_lb: "none", "on", "off"
    algorithm,      \* g_config.lb_algorithm, copied by loadbalancer_init
    servers,        \* the linked list of backends
    current_index,
    active,         \* active_connections of each backend
    failed,         \* failed_requests
    healthy,        \* is_healthy
    age,            \* time since last_health_check
    reachable,      \* external: whether a connect to the backend succeeds
    holding,        \* the backend each caller has selected and not released
    turns, share    \* history: selections in the current round, and of each backend

balancerVars == <<lb, algorithm, servers, current_index, active, failed, healthy, age, reachable,
          holding, turns, share>>

num_servers == Len(servers)
Listed == ToSet(servers)
Healthy == {b \in Listed : healthy[b]}

\* The C remainder, which takes the sign of the dividend, and int addition.
CRem(a, n) == IF a >= 0 THEN a % n ELSE -((-a) % n)
Plus(a, k) == IF a + k > IntMax THEN a + k - 2 * IntMax - 2 ELSE a + k

BalancerInit ==
    /\ lb = "none"
    /\ algorithm \in Algorithms
    /\ servers = <<>>
    /\ current_index = 0
    /\ active = [b \in Backends |-> 0]
    /\ failed = [b \in Backends |-> 0]
    /\ healthy = [b \in Backends |-> FALSE]
    /\ age = [b \in Backends |-> 0]
    /\ reachable = [b \in Backends |-> TRUE]
    /\ holding = [p \in Callers |-> NoBackend]
    /\ turns = 0
    /\ share = [b \in Backends |-> 0]

\* The list when each backend of S in turn is put at its head.
Prepended(S) ==
    LET list[n \in 0..NumBackends] ==
          IF n = 0 THEN <<>>
          ELSE IF n \in S THEN <<n>> \o list[n - 1] ELSE list[n - 1]
    IN  list[NumBackends]

\* loadbalancer_init prepends every backend it can allocate.  (With none the
\* list is empty, num_servers is 0, and a selection divides by it.)
LbInit ==
    /\ lb = "none"
    /\ lb' = "on"
    /\ \E S \in SUBSET Backends :
         /\ S # {}
         /\ servers' = Prepended(S)
         /\ healthy' = [b \in Backends |-> b \in S]
    /\ age' = [b \in Backends |-> 0]
    /\ UNCHANGED <<algorithm, current_index, active, failed, reachable, holding, turns, share>>

-----------------------------------------------------------------------------
(* The four algorithms.  Each yields the chosen backend or NoBackend, and by *)
(* how much it advances current_index.                                     *)

\* The backend at position i of the list, counted from 0 and around its end.
At(i) == servers[(i % num_servers) + 1]

Choice(b, k) == [backend |-> b, advance |-> k]

\* Faulty variant: the index does not move past the backends skipped.
RoundRobinStays ==
    LET target == CRem(current_index, num_servers)
        start == IF target > 0 THEN target ELSE 0
        skip == CHOOSE k \in 0..num_servers :
                   /\ k = num_servers \/ healthy[At(start + k)]
                   /\ \A j \in 0..k - 1 : ~healthy[At(start + j)]
    IN  Choice(At(start + skip), 1)

\* Start at current_index modulo the number of servers (at the head if that is
\* negative), skip unhealthy ones, and give up after one round.
RoundRobin ==
    LET target == CRem(current_index, num_servers)
        start == IF target > 0 THEN target ELSE 0
        skip == CHOOSE k \in 0..num_servers :
                   /\ k = num_servers \/ healthy[At(start + k)]
                   /\ \A j \in 0..k - 1 : ~healthy[At(start + j)]
    IN  Choice(At(start + skip), 1 + skip)

\* The first of the healthy backends with the fewest active connections.
LeastConnections ==
    LET best == {i \in DOMAIN servers :
                   /\ healthy[servers[i]]
                   /\ \A j \in DOMAIN servers :
                        healthy[servers[j]] => active[servers[i]] <= active[servers[j]]}
    IN  IF best = {} THEN Choice(NoBackend, 0) ELSE Choice(servers[Min(best)], 0)

\* Faulty variant: the health of the hashed backend is not looked at.
IpHashBlind(c) == Choice(At(HashOf[c]), 0)

\* The client's own backend, or round-robin when that one is unhealthy.
IpHash(c) ==
    IF healthy[At(HashOf[c])] THEN Choice(At(HashOf[c]), 0) ELSE RoundRobin

\* The sum of w over the healthy ones among the first n backends.
UpTo(w) ==
    LET sum[n \in 0..num_servers] ==
          IF n = 0 THEN 0
          ELSE sum[n - 1] + (IF healthy[servers[n]] THEN w[servers[n]] ELSE 0)
    IN  sum

\* The first healthy backend whose cumulated weight exceeds current_index
\* modulo the total weight.
WeightedRoundRobin ==
    LET current == UpTo(Weight)
        target == CRem(current_index, current[num_servers])
        hit == {i \in DOMAIN servers : healthy[servers[i]] /\ current[i] > target}
    IN  IF current[num_servers] = 0 THEN Choice(NoBackend, 0) ELSE Choice(servers[Min(hit)], 1)

Select(c) ==
    CASE algorithm = "rr"     -> RoundRobin
      [] algorithm = "lc"     -> LeastConnections
      [] algorithm = "iphash" -> IpHash(c)
      [] algorithm = "wrr"    -> WeightedRoundRobin

-----------------------------------------------------------------------------
(* The operations.                                                         *)

\* The history of a rotation: a round is as many selections as the healthy
\* backends weigh together.
Turns == IF algorithm = "wrr" THEN Weight ELSE [b \in Backends |-> 1]
Round == UpTo(Turns)[num_servers]
CountTurn(b) ==
    IF algorithm \notin {"rr", "wrr"} THEN UNCHANGED <<turns, share>>
    ELSE IF turns < Round
    THEN /\ turns' = turns + 1
         /\ share' = [share EXCEPT ![b] = @ + 1]
    ELSE /\ turns' = 1
         /\ share' = [x \in Backends |-> IF x = b THEN 1 ELSE 0]

\* loadbalancer_select_backend finds a backend and counts the connection.
SelectBackend(p, c) ==
    /\ holding[p] = NoBackend
    /\ lb = "on"
    /\ current_index <= MaxIndex
    /\ LET s == Select(c) IN
         /\ s.backend # NoBackend
         /\ active' = [active EXCEPT ![s.backend] = @ + 1]
         /\ current_index' = Plus(current_index, s.advance)
         /\ holding' = [holding EXCEPT ![p] = s.backend]
         /\ CountTurn(s.backend)
    /\ UNCHANGED <<lb, algorithm, servers, failed, healthy, age, reachable>>

\* No balancer, or no healthy backend: NoBackend and no change.
SelectNothing(p, c) ==
    /\ holding[p] = NoBackend
    /\ lb = "on" => Select(c).backend = NoBackend
    /\ UNCHANGED balancerVars

\* Faulty variant: the connection is never given back.
ReleaseForgets(p) ==
    /\ holding[p] # NoBackend
    /\ holding' = [holding EXCEPT ![p] = NoBackend]
    /\ UNCHANGED <<lb, algorithm, servers, current_index, active, failed, healthy, age, reachable, turns, share>>

ReleaseBackend(p) ==
    /\ holding[p] # NoBackend
    /\ active' = [active EXCEPT ![holding[p]] = IF @ > 0 THEN @ - 1 ELSE @]
    /\ holding' = [holding EXCEPT ![p] = NoBackend]
    /\ UNCHANGED <<lb, algorithm, servers, current_index, failed, healthy, age, reachable, turns, share>>

\* The history starts again whenever the health of a backend changes.
Restart(changed) ==
    /\ turns' = IF changed THEN 0 ELSE turns
    /\ share' = IF changed THEN [b \in Backends |-> 0] ELSE share

MarkFailed(p) ==
    /\ holding[p] # NoBackend
    /\ LET b == holding[p]
           n == Min({failed[b] + 1, FailLimit + 1})
       IN  /\ failed' = [failed EXCEPT ![b] = n]
           /\ healthy' = [healthy EXCEPT ![b] = @ /\ n <= FailLimit]
    /\ Restart(healthy' # healthy)
    /\ UNCHANGED <<lb, algorithm, servers, current_index, active, age, reachable, holding>>

Due(b) == b \in Listed /\ age[b] >= CheckInterval

\* Every backend that is due is connected to; the result decides its health.
RunHealthChecks ==
    /\ lb = "on"
    /\ \E b \in Backends : Due(b)
    /\ healthy' = [b \in Backends |-> IF Due(b) THEN reachable[b] ELSE healthy[b]]
    /\ failed' = [b \in Backends |-> IF Due(b) /\ reachable[b] THEN 0 ELSE failed[b]]
    /\ age' = [b \in Backends |-> IF Due(b) THEN 0 ELSE age[b]]
    /\ Restart(healthy' # healthy)
    /\ UNCHANGED <<lb, algorithm, servers, current_index, active, reachable, holding>>

\* loadbalancer_cleanup, when no handler is left that holds a backend.
LbCleanup ==
    /\ lb = "on"
    /\ \A p \in Callers : holding[p] = NoBackend
    /\ lb' = "off"
    /\ servers' = <<>>
    /\ UNCHANGED <<algorithm, current_index, active, failed, healthy, age, reachable, holding, turns, share>>

-----------------------------------------------------------------------------
(* Time and the backends themselves.                                       *)

Tick ==
    /\ age' = [b \in Backends |-> Min({age[b] + 1, CheckInterval})]
    /\ UNCHANGED <<lb, algorithm, servers, current_index, active, failed, healthy, reachable, holding, turns, share>>

GoesUpOrDown(b) ==
    /\ reachable' = [reachable EXCEPT ![b] = ~@]
    /\ UNCHANGED <<lb, algorithm, servers, current_index, active, failed, healthy, age, holding, turns, share>>

BalancerNext ==
    \/ LbInit \/ LbCleanup \/ RunHealthChecks \/ Tick
    \/ \E p \in Callers : ReleaseBackend(p) \/ MarkFailed(p)
    \/ \E p \in Callers, c \in Clients : SelectBackend(p, c) \/ SelectNothing(p, c)
    \/ \E b \in Fickle : GoesUpOrDown(b)

\* Nothing in src/ calls loadbalancer_run_health_checks, nor any other operation
\* but init and cleanup, so that no caller and no supervisor owes a step.
BalancerSpec == BalancerInit /\ [][BalancerNext]_balancerVars

-----------------------------------------------------------------------------
(* Properties.                                                             *)

\* active_connections counts the callers that hold the backend, so that the
\* guard against going below zero in release never hides a lost update.
ActiveMatchesHolders ==
    \A b \in Backends : active[b] = Cardinality({p \in Callers : holding[p] = b})

\* An unhealthy backend is handed out only when there is no healthy one.
HealthyPreferred ==
    [][\A p \in Callers, c \in Clients :
         SelectBackend(p, c) => (healthy[holding'[p]] \/ Healthy = {})]_balancerVars

\* While health does not change, the rotation is fair: in every round each
\* healthy backend is selected as often as its weight says (once under plain
\* round-robin) and no other backend is, wherever the rotation stood.
FairShare ==
    (lb = "on" /\ Healthy # {}) =>
        \A b \in Listed : share[b] <= IF healthy[b] THEN Turns[b] ELSE 0
===============================================================================
