----------------------------- MODULE MCServices ------------------------------
(* The cache, the balancer and the limiter side by side.  They share no    *)
(* state, each has a mutex and a list or two of its own, and so a          *)
(* behaviour uses one of the four: cache, balancer, buckets or trackers.   *)
(*                                                                         *)
(* Cache: bodies of 0 to 3 units in a budget of 5, so that empty bodies and*)
(* those over half the budget are refused and the others compete for room; *)
(* two of the keys share a bucket.  Balancer: three backends, one of weight*)
(* 2; FailLimit 1 stands for the 5 of the code and one tick for its 30     *)
(* seconds.  Limiter: a minute of three seconds, so that several windows   *)
(* and full refills fit into the bounded clock; a bucket of two requests.  *)
EXTENDS Cache, LoadBalancer, RateLimit

CONSTANTS k1, k2, k3, k4, empty, small, medium, large, p1, p2, a1, a2, i1, i2

MCKeys4 == {k1, k2, k3, k4}
MCBuckets == {0, 1}
MCHash == [k \in Keys |-> IF k \in {k1, k2} THEN 0 ELSE 1]
MCBodies == {empty, small, medium, large}
MCSizeOf == [b \in Bodies |-> CASE b = empty -> 0 [] b = small -> 1
                                [] b = medium -> 2 [] b = large -> 3]
\* Keys of one bucket can be exchanged.
MCSymmetry == Permutations({k1, k2}) \cup Permutations({k3, k4})
\* An entry with a ttl stored at 1 has expired at 3; the clock may go back.
MCTtls == {0, 1}
MCTimes == {1, 3}

MCTwoCallers == {p1, p2}
MCTwoClients == {a1, a2}
MCHashOf == [c \in Clients |-> IF c = a1 THEN 0 ELSE 5]
MCWeight == [b \in 1..NumBackends |-> IF b = 2 THEN 2 ELSE 1]
MCAlgorithms == {"rr", "lc", "iphash", "wrr"}

MCTwoIps == {i1, i2}

-----------------------------------------------------------------------------
\* One of its initial states stands for all of those in which a service rests.
CacheRests == Init /\ now = 1
BalancerRests ==
    /\ lb = "none" /\ algorithm = "rr"
    /\ \A b \in Backends : age[b] = 0 /\ reachable[b]
LimiterRests == RateInit

\* A bucket is full again after a minute, a tracker is forgotten after more.
OneLimiter == \/ limiters' = <<>>
              \/ trackers' = <<>> /\ clock' <= Window

ServicesInit ==
    /\ Init /\ BalancerInit /\ RateInit
    /\ CacheRests \/ BalancerRests

ServicesNext ==
    \/ /\ BalancerRests /\ LimiterRests
       /\ Next /\ UNCHANGED <<balancerVars, rateVars>>
    \/ /\ CacheRests /\ LimiterRests
       /\ BalancerNext /\ UNCHANGED <<vars, rateVars>>
    \/ /\ CacheRests /\ BalancerRests
       /\ RateNext /\ OneLimiter /\ UNCHANGED <<vars, balancerVars>>

ServicesSpec == ServicesInit /\ [][ServicesNext]_<<vars, balancerVars, rateVars>>
==============================================================================
