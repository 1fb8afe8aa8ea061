-------------------------------- MODULE Cache --------------------------------
(***************************************************************************)
(* The response cache of src/cache/cache.c: a hash table of chains and an  *)
(* LRU list threaded through the same entries, a byte budget, and an       *)
(* expiry time per entry.  cache_get and cache_put hold the cache's mutex  *)
(* from end to end, so each outcome of a call is one step, whichever       *)
(* handler thread makes it.  A body stands for the bytes stored; SizeOf    *)
(* gives its length.  Any malloc the code tests may fail.  time(NULL) is   *)
(* the wall clock, which may be set back.  The hit and miss counters only  *)
(* feed a message at exit and are left out.                                *)
(***************************************************************************)
EXTENDS Naturals, Sequences, SequencesExt, Functions

CONSTANTS Keys,      \* the URLs requested
          Buckets,   \* hash buckets
          Hash,      \* hash_key, as a function
          Bodies,    \* responses
          SizeOf,    \* their sizes
          MaxSize,   \* max_size
          Ttls,      \* the ttl arguments, 0 for "never expires"
          Times,     \* the readings of the clock
          NULL

ASSUME HashAssumption == Hash \in [Keys -> Buckets]
ASSUME SizeAssumption == SizeOf \in [Bodies -> Nat] /\ MaxSize \in Nat
ASSUME TimeAssumption == Ttls \subseteq Nat /\ Times \subseteq Nat /\ Times # {}
ASSUME NullAssumption == NULL \notin [body : Bodies, size : Nat, expiry : Nat]

VARIABLES
    state,       \* g_cache: "none", "on" (allocated), "off" (failed or freed)
    chain,       \* the keys in each bucket's list, newest first
    lru,         \* the keys in the LRU list, least recently used first
    entry,       \* the entry of each key, or NULL
    total_size,
    now,         \* the clock
    latest,      \* history: the last entry stored under each key, or NULL
    recency      \* history: the pairs of keys of which the first was last used earlier

vars == <<state, chain, lru, entry, total_size, now, latest, recency>>

\* A lookup walks the chain of the key's bucket and compares keys.
Found(k) == \E i \in DOMAIN chain[Hash[k]] : chain[Hash[k]][i] = k

\* Faulty variant: the expiry time is not looked at.
NeverExpired(k) == FALSE

Expired(k) == entry[k].expiry > 0 /\ now > entry[k].expiry

NewEntry(b, ttl) ==
    [body |-> b, size |-> SizeOf[b], expiry |-> IF ttl > 0 THEN now + ttl ELSE 0]

Position(k, s) == CHOOSE i \in DOMAIN s : s[i] = k
Without(s, k) == RemoveAt(s, Position(k, s))

\* History: k is used, a new entry may be stored under it, or entries are only
\* removed; what has left the cache is forgotten.
Kept(r) == entry'[r[1]] # NULL /\ entry'[r[2]] # NULL
Used(k) ==
    recency' = {r \in recency : Kept(r) /\ r[1] # k /\ r[2] # k}
                 \cup {<<j, k>> : j \in {j \in Keys \ {k} : entry'[j] # NULL}}
Stored(k, e) ==
    latest' = [j \in Keys |-> IF j = k THEN e
                             ELSE IF entry'[j] = NULL THEN NULL ELSE latest[j]]

Removed ==
    /\ recency' = {r \in recency : Kept(r)}
    /\ latest' = [j \in Keys |-> IF entry'[j] = NULL THEN NULL ELSE latest[j]]

Init ==
    /\ state = "none"
    /\ chain = [b \in Buckets |-> <<>>]
    /\ lru = <<>>
    /\ entry = [k \in Keys |-> NULL]
    /\ total_size = 0
    /\ now \in Times
    /\ latest = [k \in Keys |-> NULL]
    /\ recency = {}

ClockChanges ==
    /\ now' \in Times \ {now}
    /\ UNCHANGED <<state, chain, lru, entry, total_size, latest, recency>>

-----------------------------------------------------------------------------
(* cache_init, called once by main, which ignores its result.              *)

CacheInit ==
    /\ state = "none"
    /\ state' \in {"on", "off"}
    /\ UNCHANGED <<chain, lru, entry, total_size, now, latest, recency>>

-----------------------------------------------------------------------------
(* Pieces of the two operations.                                           *)

\* What the mutex protects.
Contents == [chain |-> chain, lru |-> lru, entry |-> entry, size |-> total_size]
Becomes(c) == chain' = c.chain /\ lru' = c.lru /\ entry' = c.entry /\ total_size' = c.size

\* Faulty variant: the bytes of the entry are not given back.
UnlinkKeepsSize(c, k) ==
    [chain |-> [c.chain EXCEPT ![Hash[k]] = Without(@, k)],
     lru |-> Without(c.lru, k),
     entry |-> [c.entry EXCEPT ![k] = NULL],
     size |-> c.size]

\* Remove the entry of k from the LRU list and from its chain, give its bytes
\* back and free it.
Unlink(c, k) ==
    [chain |-> [c.chain EXCEPT ![Hash[k]] = Without(@, k)],
     lru |-> Without(c.lru, k),
     entry |-> [c.entry EXCEPT ![k] = NULL],
     size |-> c.size - c.entry[k].size]

\* The contents after n calls of cache_evict_lru.
Evictions[n \in 0..Len(lru)] ==
    IF n = 0 THEN Contents ELSE Unlink(Evictions[n - 1], Head(Evictions[n - 1].lru))

\* The eviction loop may stop after n evictions, it does so at the first such
\* n, and it comes to an end; otherwise it would spin with the mutex held.
MayStop(n, size) == Evictions[n].size + size <= MaxSize
Stops(n, size) == MayStop(n, size) /\ \A m \in 0..n - 1 : ~MayStop(m, size)
LoopEnds(size) == \E n \in 0..Len(lru) : MayStop(n, size)

\* cache_put refuses empty bodies and those over half the budget.
Admissible(size) == size > 0 /\ size <= MaxSize \div 2

-----------------------------------------------------------------------------
(* cache_get.                                                              *)

GetMiss(k) ==
    /\ state = "on" => ~Found(k)
    /\ UNCHANGED <<state, chain, lru, entry, total_size, now, latest, recency>>

GetExpired(k) ==
    /\ state = "on" /\ Found(k) /\ Expired(k)
    /\ Becomes(Unlink(Contents, k))
    /\ Removed
    /\ UNCHANGED <<state, now>>

\* Faulty variant: a lookup does not move the entry in the LRU list.
TouchNothing(k) == UNCHANGED lru

\* The entry becomes the most recently used one.
Touch(k) == lru' = Append(Without(lru, k), k)

\* A copy of the entry's body is handed out.
GetHit(k) ==
    /\ state = "on" /\ Found(k) /\ ~Expired(k)
    /\ Touch(k)
    /\ UNCHANGED <<state, chain, entry, total_size, now, latest>>
    /\ Used(k)

\* The copy cannot be allocated, after the entry was moved.
GetNoMemory(k) ==
    /\ state = "on" /\ Found(k) /\ ~Expired(k)
    /\ Touch(k)
    /\ UNCHANGED <<state, chain, entry, total_size, now, latest>>
    /\ Used(k)

-----------------------------------------------------------------------------
(* cache_put.                                                              *)

\* Refused, or not enough memory for the new bytes of an existing entry.
PutRefused(k, b) ==
    /\ state = "on" /\ Admissible(SizeOf[b]) => Found(k)
    /\ UNCHANGED <<state, chain, lru, entry, total_size, now, latest, recency>>

\* Faulty variant: the old bytes are not given back.
ReplaceSizeAdds(k, size) == total_size' = total_size + size

ReplaceSize(k, size) == total_size' = total_size - entry[k].size + size

\* An existing entry gets the new body in place; nothing is evicted.
PutUpdate(k, b, ttl) ==
    /\ state = "on" /\ Admissible(SizeOf[b]) /\ Found(k)
    /\ ReplaceSize(k, SizeOf[b])
    /\ entry' = [entry EXCEPT ![k] = NewEntry(b, ttl)]
    /\ Touch(k)
    /\ Used(k) /\ Stored(k, NewEntry(b, ttl))
    /\ UNCHANGED <<state, chain, now>>

\* Make room, then link the new entry at the head of its chain and at the
\* most recently used end of the LRU list.
PutInsert(k, b, ttl) ==
    /\ state = "on" /\ Admissible(SizeOf[b]) /\ ~Found(k)
    /\ \E n \in 0..Len(lru) :
         LET c == Evictions[n] IN
         /\ Stops(n, SizeOf[b])
         /\ chain' = [c.chain EXCEPT ![Hash[k]] = <<k>> \o @]
         /\ lru' = Append(c.lru, k)
         /\ entry' = [c.entry EXCEPT ![k] = NewEntry(b, ttl)]
         /\ total_size' = c.size + SizeOf[b]
    /\ Used(k) /\ Stored(k, NewEntry(b, ttl))
    /\ UNCHANGED <<state, now>>

\* Room has been made, but the new entry cannot be allocated.
PutNoMemory(k, b) ==
    /\ state = "on" /\ Admissible(SizeOf[b]) /\ ~Found(k)
    /\ \E n \in 0..Len(lru) : Stops(n, SizeOf[b]) /\ Becomes(Evictions[n])
    /\ Removed
    /\ UNCHANGED <<state, now>>

-----------------------------------------------------------------------------
(* cache_cleanup frees everything reachable from the LRU list.             *)

CacheCleanup ==
    /\ state = "on"
    /\ state' = "off"
    /\ chain' = [h \in Buckets |-> <<>>]
    /\ lru' = <<>>
    /\ entry' = [k \in Keys |-> IF k \in ToSet(lru) THEN NULL ELSE entry[k]]
    /\ total_size' = 0
    /\ Removed
    /\ UNCHANGED now

Get(k) == GetMiss(k) \/ GetExpired(k) \/ GetHit(k) \/ GetNoMemory(k)

Next ==
    \/ CacheInit \/ CacheCleanup \/ ClockChanges
    \/ \E k \in Keys : Get(k)
    \/ \E k \in Keys, b \in Bodies : PutRefused(k, b) \/ PutNoMemory(k, b)
    \/ \E k \in Keys, b \in Bodies, ttl \in Ttls :
         PutUpdate(k, b, ttl) \/ PutInsert(k, b, ttl)

Spec == Init /\ [][Next]_vars

-----------------------------------------------------------------------------
(* Properties.                                                             *)

\* The sizes of the first n entries of list l, summed up.
SizeUpTo(l, e) ==
    LET sum[n \in 0..Len(l)] == IF n = 0 THEN 0 ELSE sum[n - 1] + e[l[n]].size
    IN  sum

\* The hash chains, the LRU list and the byte count hold the same entries, each
\* once and in its own bucket, through updates, expiry, eviction and failed
\* insertions: nothing is reachable after it was freed, leaked or miscounted.
Live == {k \in Keys : entry[k] # NULL}
StructuresAgree ==
    /\ ToSet(lru) = Live /\ IsInjective(lru)
    /\ \A h \in Buckets :
         ToSet(chain[h]) = {k \in Live : Hash[k] = h} /\ IsInjective(chain[h])
    /\ total_size = SizeUpTo(lru, entry)[Len(lru)]

\* The eviction loop of cache_put always ends.
EvictionEnds ==
    \A b \in Bodies : (state = "on" /\ Admissible(SizeOf[b])) => LoopEnds(SizeOf[b])

\* A hit hands out the body stored last under that very key, and only while
\* that body has not expired.
HitIsLatest ==
    [][\A k \in Keys : GetHit(k) =>
          /\ latest[k] # NULL /\ entry[k].body = latest[k].body
          /\ latest[k].expiry = 0 \/ now <= latest[k].expiry]_vars

\* A step that adds an entry.
Inserts == \E k \in Keys : entry[k] = NULL /\ entry'[k] # NULL

\* What an insertion evicts has been used less recently than all it keeps.
EvictsLeastRecentlyUsed ==
    [][Inserts => \A a, b \in ToSet(lru) :
          (entry'[a] = NULL /\ entry'[b] # NULL)
              => <<a, b>> \in recency]_vars
==============================================================================
