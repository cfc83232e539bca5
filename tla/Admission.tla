------------------------------- MODULE Admission -------------------------------
(***************************************************************************)
(* The two limiters in front of one handler (createEventsHandler in        *)
(* ingest/src/server.ts, createRollupsHandler in read-server.ts): every    *)
(* request takes from a single global bucket first, then from the bucket   *)
(* of the client's address, and is answered 429 if either is short.  Both  *)
(* limiters are instances of RateLimiter; they read the same clock.        *)
(***************************************************************************)
EXTENDS Integers, FiniteSets, FiniteSetsExt

CONSTANTS
    Clients,
    Capacity, Refill,               \* perIpLimiter, in units
    GlobalCapacity, GlobalRefill,   \* globalLimiter, in units
    Cost, MaxKeys,
    MaxTime, MaxBackSteps, MaxRequests      \* bounds

VARIABLES
    now, back, backSteps,
    live, tokens, updated, spent, created,          \* perIpLimiter
    gLive, gTokens, gUpdated, gSpent, gCreated,     \* globalLimiter
    requests,       \* history: requests, admitted or not, per client
    starved         \* history: clients refused by the global bucket alone

clock  == <<now, back, backSteps>>
perIp  == <<live, tokens, updated, spent, created>>
global == <<gLive, gTokens, gUpdated, gSpent, gCreated>>
vars   == <<clock, perIp, global, requests, starved>>

GlobalKey == "global"

PerIp == INSTANCE RateLimiter WITH Keys <- Clients

Global == INSTANCE RateLimiter WITH
    Keys <- {GlobalKey}, Capacity <- GlobalCapacity, Refill <- GlobalRefill,
    live <- gLive, tokens <- gTokens, updated <- gUpdated,
    spent <- gSpent, created <- gCreated

ASSUME AdmissionAssumption ==
    /\ PerIp!LimiterConstants
    /\ Global!LimiterConstants
    /\ IsFiniteSet(Clients)
    /\ MaxRequests \in Nat

Init ==
    /\ PerIp!Init
    /\ Global!Init
    /\ requests = [c \in Clients |-> 0]
    /\ starved = {}

Total(f) == MapThenSumSet(LAMBDA c : f[c], Clients)

Counted(c) ==
    /\ Total(requests) < MaxRequests
    /\ requests' = [requests EXCEPT ![c] = @ + 1]

\* Both buckets give a token: the handler goes on with the request.
Admit(c) ==
    /\ Counted(c)
    /\ Global!Take(GlobalKey, TRUE)
    /\ PerIp!Take(c, TRUE)
    /\ UNCHANGED <<clock, starved>>

\* 429 from the client's own bucket; the global token is gone all the same.
RefuseClient(c) ==
    /\ Counted(c)
    /\ Global!Take(GlobalKey, TRUE)
    /\ PerIp!Take(c, FALSE)
    /\ UNCHANGED <<clock, starved>>

\* 429 from the global bucket; || does not ask the client's own any more.
RefuseAll(c) ==
    /\ Counted(c)
    /\ Global!Take(GlobalKey, FALSE)
    /\ starved' = IF PerIp!Allowed(c) THEN starved \cup {c} ELSE starved
    /\ UNCHANGED <<clock, perIp>>

\* Time passes, or the clock is set back.
Tick ==
    /\ \E t \in 0 .. MaxTime :
        /\ t < now => backSteps < MaxBackSteps
        /\ PerIp!SetClock(t)
    /\ UNCHANGED <<perIp, global, requests, starved>>

Next ==
    \/ \E c \in Clients : Admit(c) \/ RefuseClient(c) \/ RefuseAll(c)
    \/ Tick

Spec == Init /\ [][Next]_vars

-------------------------------------------------------------------------------
(* Properties *)

TypeOK ==
    /\ PerIp!TypeOK
    /\ Global!TypeOK
    /\ requests \in [Clients -> 0 .. MaxRequests]
    /\ starved \subseteq Clients

\* No sequence of requests, evictions and clock readings gets a client more
\* than a full bucket per creation plus the refill, nor all clients together
\* more than the global bucket allows.
NoFreeTokens ==
    /\ PerIp!WithinAllowance
    /\ Total(spent) <= GlobalCapacity + GlobalRefill * (now + back)

\* A clock set back puts clients into debt, and never by more than the
\* refill of the lost ticks.
DebtBounded == PerIp!DebtBounded /\ Global!DebtBounded

\* The table of buckets exceeds maxKeys by at most one per step back.
TableBounded == PerIp!TableBounded

\* While the clock has not gone back, a client that still has tokens of its
\* own is turned away only if the requests of all clients, the refused ones
\* included, have used up the global bucket.
RefusedOnlyInACrowd ==
    starved # {} /\ backSteps = 0 => Cost * (Total(requests) - 1) > GlobalCapacity - Cost
===============================================================================
