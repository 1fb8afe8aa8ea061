------------------------------ MODULE RateLimit ------------------------------
(***************************************************************************)
(* src/monitor/ratelimit.c: a token bucket and a bandwidth window for each *)
(* client address, in two linked lists that one mutex protects; each call  *)
(* is one step.  Callers are external: src/ only initialises the limiter   *)
(* and cleans it up.                                                       *)
(*                                                                         *)
(* Tokens are counted in units of 1/Window token, so that the refill of    *)
(* rate_limit_requests / 60 tokens per second is an integer; the rounding  *)
(* of the code's doubles is left out.  Only the sum of bytes_sent and      *)
(* bytes_received is ever used, and only the sum is kept.  The clock is    *)
(* time(NULL), which may be set back.                                      *)
(*                                                                         *)
(* An address of 15 characters fills ip[] up to its last byte, which       *)
(* strncpy leaves as malloc returned it: whether such an entry is ever     *)
(* found again depends on a value nobody wrote.                            *)
(***************************************************************************)
EXTENDS Integers, Sequences, SequencesExt, FiniteSetsExt

CONSTANTS Ips,         \* client addresses
          FullLength,  \* the addresses of 15 characters
          Requests,    \* g_config.rate_limit_requests
          Limit,       \* bytes per second, 0 for no limit
          Window,      \* the 60 seconds of a minute
          Idle,        \* the 300 seconds after which a tracker is forgotten
          Chunks,      \* sizes of transfers
          MaxTime,     \* bound on the clock
          MaxBytes,    \* bound on the bytes of a window
          MaxLimiters, MaxTrackers   \* bounds on the lengths of the lists

ASSUME RateAssumption == Requests \in Nat /\ Limit \in Nat /\ FullLength \subseteq Ips
ASSUME WindowAssumption == Window \in Nat \ {0} /\ Idle \in Nat /\ Idle >= Window
ASSUME BoundAssumption == Chunks \subseteq Nat /\ {MaxTime, MaxBytes, MaxLimiters, MaxTrackers} \subseteq Nat

VARIABLES
    clock,      \* time(NULL)
    limiters,   \* g_rate_limiters, newest first
    trackers,   \* g_bandwidth_trackers, newest first
    setback,    \* history: whether the clock was ever set back
    admitted    \* history: the requests let through, by address; each with the
                \* time of it and the latest time the clock has shown since

rateVars == <<clock, limiters, trackers, setback, admitted>>

MaxTokens == Requests * Window

RateInit ==
    /\ clock = 0 /\ setback = FALSE
    /\ limiters = <<>> /\ trackers = <<>>
    /\ admitted = [ip \in Ips |-> <<>>]

\* Time passes, or somebody sets the clock, forward or back.
ClockIsSet ==
    /\ clock' \in 0..MaxTime \ {clock}
    /\ setback' = (setback \/ clock' < clock)
    /\ admitted' = [ip \in Ips |-> [i \in DOMAIN admitted[ip] |->
                      [admitted[ip][i] EXCEPT !.peak = Max({@, clock'})]]]
    /\ UNCHANGED <<limiters, trackers>>

-----------------------------------------------------------------------------
(* Entries.                                                                *)

\* Whether the name written into a new entry ends where it should.
Terminated(ip) == IF ip \in FullLength THEN BOOLEAN ELSE {TRUE}

\* The positions at which strcmp finds the address.
Matches(list, ip) == {i \in DOMAIN list : list[i].ip = ip /\ list[i].ended}

\* The list with the entry found for ip, or else the new entry, replaced by e.
Store(list, ip, e) ==
    IF Matches(list, ip) = {} THEN <<e>> \o list
    ELSE [list EXCEPT ![Min(Matches(list, ip))] = e]

\* get_rate_limiter and get_bandwidth_tracker: what is found or created.
Limiters(ip) ==
    IF Matches(limiters, ip) # {} THEN {limiters[Min(Matches(limiters, ip))]}
    ELSE {[ip |-> ip, ended |-> z, tokens |-> MaxTokens, last_refill |-> clock] :
             z \in Terminated(ip)}

\* A tracker that is found starts a new window when its own is over.
Renewed(t) ==
    IF clock - t.window_start >= Window
    THEN [t EXCEPT !.bytes = 0, !.window_start = clock, !.last_activity = clock]
    ELSE [t EXCEPT !.last_activity = clock]

Trackers(ip) ==
    IF Matches(trackers, ip) # {} THEN {Renewed(trackers[Min(Matches(trackers, ip))])}
    ELSE {[ip |-> ip, ended |-> z, bytes |-> 0, window_start |-> clock, last_activity |-> clock] :
             z \in Terminated(ip)}

\* A new entry is allocated only within the bound.
RoomFor(list, ip, bound) == Matches(list, ip) # {} \/ Len(list) < bound

-----------------------------------------------------------------------------
(* ratelimit_check_request.                                                *)

\* The time since the last refill, none when the clock is behind it.
SinceRefill(l) == Max({0, clock - l.last_refill})

\* Faulty variant: the bucket is filled up to a single request only.
RefilledUpToOne(l) ==
    [l EXCEPT !.tokens = Min({l.tokens + SinceRefill(l) * Requests, Window}),
              !.last_refill = l.last_refill + SinceRefill(l)]

\* Faulty variant: last_refill follows the clock when it is set back.
RefilledFollows(l) ==
    [l EXCEPT !.tokens = Min({l.tokens + SinceRefill(l) * Requests, MaxTokens}), !.last_refill = clock]

\* refill_tokens.
Refilled(l) ==
    [l EXCEPT !.tokens = Min({l.tokens + SinceRefill(l) * Requests, MaxTokens}),
              !.last_refill = l.last_refill + SinceRefill(l)]

AllowRequest(ip) ==
    /\ RoomFor(limiters, ip, MaxLimiters)
    /\ \E l \in Limiters(ip) :
         /\ Refilled(l).tokens >= Window
         /\ limiters' = Store(limiters, ip, [Refilled(l) EXCEPT !.tokens = @ - Window])
    /\ admitted' = [admitted EXCEPT ![ip] = Append(@, [at |-> clock, peak |-> clock])]
    /\ UNCHANGED <<clock, trackers, setback>>

RefuseRequest(ip) ==
    /\ RoomFor(limiters, ip, MaxLimiters)
    /\ \E l \in Limiters(ip) :
         /\ Refilled(l).tokens < Window
         /\ limiters' = Store(limiters, ip, Refilled(l))
    /\ UNCHANGED <<clock, trackers, setback, admitted>>

\* No memory for a new entry of either list: -1, and nothing changes.
NoMemory(ip) ==
    /\ Matches(limiters, ip) = {} \/ Matches(trackers, ip) = {}
    /\ UNCHANGED rateVars

-----------------------------------------------------------------------------
(* ratelimit_check_bandwidth, ratelimit_update_bandwidth.                  *)

\* The length of the window so far, at least a second.
Duration(t) == Max({1, clock - t.window_start})

\* Behind a window that starts in the future the quotient is negative: zero if
\* it rounds to that, and else its conversion to size_t is undefined.
Undefined(t) == clock < t.window_start /\ t.bytes >= t.window_start - clock

\* Faulty variant: the transfer itself is not counted.
FitsBefore(t, n) == clock < t.window_start \/ t.bytes \div Duration(t) <= Limit

\* The average rate so far plus the transfer is within the limit.
Fits(t, n) == (IF clock < t.window_start THEN 0 ELSE t.bytes \div Duration(t)) + n <= Limit

AllowTransfer(ip, n) ==
    /\ Limit # 0
    /\ RoomFor(trackers, ip, MaxTrackers)
    /\ \E t \in Trackers(ip) :
         /\ Undefined(t) \/ Fits(t, n)
         /\ t.bytes + n <= MaxBytes
         /\ trackers' = Store(trackers, ip, [t EXCEPT !.bytes = @ + n])
    /\ UNCHANGED <<clock, limiters, setback, admitted>>

RefuseTransfer(ip, n) ==
    /\ Limit # 0
    /\ RoomFor(trackers, ip, MaxTrackers)
    /\ \E t \in Trackers(ip) :
         /\ Undefined(t) \/ ~Fits(t, n)
         /\ trackers' = Store(trackers, ip, t)
    /\ UNCHANGED <<clock, limiters, setback, admitted>>

\* Bytes reported after the fact are counted without a check.
UpdateBandwidth(ip, n) ==
    /\ RoomFor(trackers, ip, MaxTrackers)
    /\ \E t \in Trackers(ip) :
         /\ t.bytes + n <= MaxBytes
         /\ trackers' = Store(trackers, ip, [t EXCEPT !.bytes = @ + n])
    /\ UNCHANGED <<clock, limiters, setback, admitted>>

\* Inactive for more than five minutes.
IsIdle(t) == clock - t.last_activity > Idle

\* What is left of the list when the idle trackers are unlinked one by one.
KeptTrackers ==
    LET kept[n \in 0..Len(trackers)] ==
          IF n = 0 THEN <<>>
          ELSE IF IsIdle(trackers[n]) THEN kept[n - 1] ELSE Append(kept[n - 1], trackers[n])
    IN  kept[Len(trackers)]

CleanupOldEntries ==
    /\ trackers' = KeptTrackers
    /\ UNCHANGED <<clock, limiters, setback, admitted>>

\* ratelimit_cleanup, at the end of main; the history ends with it.
RateLimitCleanup ==
    /\ limiters' = <<>> /\ trackers' = <<>>
    /\ admitted' = [ip \in Ips |-> <<>>]
    /\ UNCHANGED <<clock, setback>>

RateNext ==
    \/ ClockIsSet \/ CleanupOldEntries \/ RateLimitCleanup
    \/ \E ip \in Ips : AllowRequest(ip) \/ RefuseRequest(ip) \/ NoMemory(ip)
    \/ \E ip \in Ips, n \in Chunks :
         AllowTransfer(ip, n) \/ RefuseTransfer(ip, n) \/ UpdateBandwidth(ip, n)

RateSpec == RateInit /\ [][RateNext]_rateVars

-----------------------------------------------------------------------------
(* Properties.                                                             *)

\* The addresses that leave room for a terminator in ip[].
Short == Ips \ FullLength

\* The tokens owed by a run of requests let through from the i-th one on,
\* against what the bucket can have held then and gained since.
Overdrawn(ip, i, extra) ==
    LET a == admitted[ip]
    IN  (Len(a) - i + 1 + extra) * Window > MaxTokens + (a[i].peak - a[i].at) * Requests

WithinRate(ip) == \A i \in DOMAIN admitted[ip] : ~Overdrawn(ip, i, 0)

\* The rate law of the token bucket, for addresses of up to 14 characters:
\* from any moment on an address gets at most a full bucket and what is
\* refilled until the latest time the clock shows, whatever other addresses
\* do; setting the clock back and forth earns nothing.
RequestRate == \A ip \in Short : WithinRate(ip)

\* While the clock has never been set back, no request of an address of up to
\* 14 characters is refused without need: letting it through would have broken
\* the rate law.  A refusal for lack of memory (NoMemory) is not a verdict of
\* the bucket and is left out.
RefusalJustified ==
    [][\A ip \in Short : (~setback /\ RefuseRequest(ip)) =>
          Requests = 0 \/ \E i \in DOMAIN admitted[ip] : Overdrawn(ip, i, 1)]_rateVars

\* A transfer that is let through keeps the average of its window within the
\* limit, also when bytes were reported without a check before, unless the
\* clock was set back to before the window.
AdmitsWithinAverage ==
    [][\A ip \in Short, n \in Chunks \ {0} : AllowTransfer(ip, n) =>
          \A t \in ToSet(trackers') :
             (t.ip = ip /\ t.window_start <= clock) => t.bytes <= Limit * Duration(t)]_rateVars

\* "Per-IP tracking": the rate law for every address.
EveryIpLimited == \A ip \in Ips : WithinRate(ip)

==============================================================================
