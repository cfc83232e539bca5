------------------------------ MODULE RateLimiter ------------------------------
(***************************************************************************)
(* TokenBucket (ingest/src/ratelimit.ts): one bucket per key in a table of *)
(* at most maxKeys, refilled lazily from the difference of two readings of *)
(* Date.now(), which may also go back.                                     *)
(*                                                                         *)
(* Tokens are counted in fractions: a request costs Cost units and a clock *)
(* tick is worth Refill units, so that 0.5 tokens per second is Cost = 2,  *)
(* Refill = 1.  Among buckets that are equally old the code evicts the one *)
(* inserted last; here it is any of them.                                  *)
(***************************************************************************)
EXTENDS Integers, FiniteSets

CONSTANTS
    Keys,           \* client addresses
    Capacity,       \* capacity, in units
    Refill,         \* refillPerSecond, in units per tick
    Cost,           \* one token, in units
    MaxKeys         \* maxKeys

\* What a limiter is made with.
LimiterConstants ==
    /\ Capacity \in Nat
    /\ Refill \in Nat
    /\ Cost \in Nat \ {0}
    /\ MaxKeys \in Nat \ {0}

VARIABLES
    now,            \* Date.now()
    live,           \* the keys of the Map
    tokens,         \* tokens of a live bucket, in units
    updated,        \* updated of a live bucket
    back,           \* history: ticks the clock has gone back, in all ...
    backSteps,      \* ... and in how many steps
    spent,          \* history: units handed out to a key
    created         \* history: buckets created for a key

clock == <<now, back, backSteps>>
table == <<live, tokens, updated, spent, created>>
vars  == <<clock, table>>

Init ==
    /\ now = 0 /\ back = 0 /\ backSteps = 0
    /\ live = {}
    /\ tokens  = [k \in Keys |-> 0]
    /\ updated = [k \in Keys |-> 0]
    /\ spent   = [k \in Keys |-> 0]
    /\ created = [k \in Keys |-> 0]

Least(a, b) == IF a <= b THEN a ELSE b

-------------------------------------------------------------------------------
(* The environment: the clock takes another reading. *)

SetClock(t) ==
    /\ now' = t
    /\ back' = IF t < now THEN back + (now - t) ELSE back
    /\ backSteps' = IF t < now THEN backSteps + 1 ELSE backSteps

-------------------------------------------------------------------------------
(* The table *)

\* What evictOldest may delete: the least recently updated buckets, and only
\* buckets that were not updated at a later reading of the clock.
Oldest ==
    {v \in live : updated[v] <= now /\ \A w \in live : updated[v] <= updated[w]}

\* ... of which there are none while every bucket is dated later than now.
NoneOld == \A v \in live : updated[v] > now

\* The table is compared with maxKeys one request too late (mutant).
Evicted_TooLate(k) ==
    IF k \in live \/ Cardinality(live) <= MaxKeys \/ NoneOld
    THEN {{}}
    ELSE {{v} : v \in Oldest}

\* The buckets that make room for a request of k.
Evicted(k) ==
    IF k \in live \/ Cardinality(live) < MaxKeys \/ NoneOld
    THEN {{}}
    ELSE {{v} : v \in Oldest}

\* A client that has no bucket gets a full one, dated now.
Before(k) == IF k \in live THEN tokens[k] ELSE Capacity

\* The difference is taken without its sign (mutant).
Elapsed_Unsigned(k) ==
    IF k \notin live THEN 0
    ELSE IF now < updated[k] THEN updated[k] - now ELSE now - updated[k]

\* The operands are swapped (mutant).
Elapsed_Swapped(k) == IF k \in live THEN updated[k] - now ELSE 0

Elapsed(k) == IF k \in live THEN now - updated[k] ELSE 0

\* The refill is not capped (mutant).
Topped_Uncapped(k) == Before(k) + Refill * Elapsed(k)

\* The bucket of k after the refill; the elapsed time may be negative.
Topped(k) == Least(Capacity, Before(k) + Refill * Elapsed(k))

\* A fraction of a token is enough (mutant).
Allowed_Fraction(k) == Topped(k) > 0

Allowed(k) == Topped(k) >= Cost

\* What is left of a bucket with n units when a request was (not) allowed.
Charge(n, ok) == IF ok THEN n - Cost ELSE n

\* take(k), answered ok.
Take(k, ok) ==
    /\ ok = Allowed(k)
    /\ \E gone \in Evicted(k) :
        /\ live' = (live \ gone) \cup {k}
        /\ tokens' = [x \in Keys |->
               IF x = k THEN Charge(Topped(k), ok)
               ELSE IF x \in gone THEN 0 ELSE tokens[x]]
        /\ updated' = [x \in Keys |->
               IF x = k THEN now ELSE IF x \in gone THEN 0 ELSE updated[x]]
    /\ spent' = [spent EXCEPT ![k] = @ + (IF ok THEN Cost ELSE 0)]
    /\ created' = [created EXCEPT ![k] = IF k \in live THEN @ ELSE @ + 1]

-------------------------------------------------------------------------------
ClockStep == now' \in Int /\ SetClock(now') /\ UNCHANGED table

TakeStep == \E k \in Keys, ok \in BOOLEAN : Take(k, ok) /\ UNCHANGED clock

Next == ClockStep \/ TakeStep

Spec == Init /\ [][Next]_vars

-------------------------------------------------------------------------------
(* Properties *)

TypeOK ==
    /\ now \in Int /\ back \in Nat /\ backSteps \in Nat
    /\ live \in SUBSET Keys /\ IsFiniteSet(live)
    /\ tokens \in [Keys -> Int]
    /\ updated \in [Keys -> Int]
    /\ spent \in [Keys -> Nat]
    /\ created \in [Keys -> Nat]
    /\ \A k \in live : tokens[k] <= Capacity

\* Whatever the clock does, and however often its bucket is evicted and made
\* anew, a client is handed no more than a full bucket per creation and the
\* refill of the ticks the clock went forward (now + back of them): a clock
\* that goes back and forth mints no tokens, only eviction does.
WithinAllowance ==
    \A k \in Keys :
        spent[k] <= Capacity * created[k] + Refill * (now + back)

\* The other side: a clock that goes back takes tokens away (the elapsed time
\* is negative and nothing stops the subtraction), but a client is never in
\* debt by more than the refill of the ticks the clock lost.
DebtBounded == \A k \in live : tokens[k] >= -(Refill * back)

\* evictOldest finds nothing to delete while every bucket is dated later than
\* now.  The table then grows past maxKeys, by at most one bucket for each
\* step the clock went back.
TableBounded == Cardinality(live) <= MaxKeys + backSteps
===============================================================================
