--------------------------- MODULE Admission_proofs ---------------------------
(***************************************************************************)
(* By the way Admission is written each of its two limiters behaves as a   *)
(* limiter by itself, so what RateLimiter_proofs proves of a TokenBucket   *)
(* holds of both: its theorems are instantiated, once per limiter.  What   *)
(* the two promise together is an invariant of the pair (AInv).            *)
(***************************************************************************)
EXTENDS Admission, FoldTheorems

\* The theorems about a limiter, for the limiter of the clients ...
Own == INSTANCE RateLimiter_proofs WITH Keys <- Clients

\* ... and for the one they share.
Shared == INSTANCE RateLimiter_proofs WITH
    Keys <- {GlobalKey}, Capacity <- GlobalCapacity, Refill <- GlobalRefill,
    live <- gLive, tokens <- gTokens, updated <- gUpdated,
    spent <- gSpent, created <- gCreated

\* A step of Admission is, for the limiter of the clients, a request, a
\* reading of the clock, or nothing.
LEMMA PerIpStep ==
    ASSUME [Next]_vars
    PROVE  [PerIp!Next]_(PerIp!vars)
  <1>. USE DEF PerIp!Next, PerIp!vars, PerIp!clock, PerIp!table, clock, perIp
  <1>1. ASSUME NEW c \in Clients, Admit(c)
        PROVE  PerIp!Next
    BY <1>1 DEF Admit, PerIp!TakeStep
  <1>2. ASSUME NEW c \in Clients, RefuseClient(c)
        PROVE  PerIp!Next
    BY <1>2 DEF RefuseClient, PerIp!TakeStep
  <1>3. ASSUME NEW c \in Clients, RefuseAll(c)
        PROVE  UNCHANGED PerIp!vars
    BY <1>3 DEF RefuseAll
  <1>4. CASE Tick
    <2>1. PICK t \in 0 .. MaxTime : PerIp!SetClock(t)
      BY <1>4 DEF Tick
    <2>2. now' = t /\ t \in Int
      BY <2>1 DEF PerIp!SetClock
    <2>. QED
      BY <1>4, <2>1, <2>2 DEF Tick, PerIp!ClockStep
  <1>5. CASE UNCHANGED vars
    BY <1>5 DEF vars
  <1>. QED
    BY <1>1, <1>2, <1>3, <1>4, <1>5 DEF Next

\* The same, for the limiter they share.
LEMMA GlobalStep ==
    ASSUME [Next]_vars
    PROVE  [Global!Next]_(Global!vars)
  <1>. USE DEF Global!Next, Global!vars, Global!clock, Global!table, clock, global
  <1>1. ASSUME NEW c \in Clients, Admit(c)
        PROVE  Global!Next
    BY <1>1 DEF Admit, Global!TakeStep
  <1>2. ASSUME NEW c \in Clients, RefuseClient(c)
        PROVE  Global!Next
    BY <1>2 DEF RefuseClient, Global!TakeStep
  <1>3. ASSUME NEW c \in Clients, RefuseAll(c)
        PROVE  Global!Next
    BY <1>3 DEF RefuseAll, Global!TakeStep
  <1>4. CASE Tick
    <2>1. PICK t \in 0 .. MaxTime : PerIp!SetClock(t)
      BY <1>4 DEF Tick
    <2>2. now' = t /\ t \in Int
      BY <2>1 DEF PerIp!SetClock
    <2>3. Global!SetClock(now')
      BY <2>1, <2>2 DEF PerIp!SetClock, Global!SetClock
    <2>. QED
      BY <1>4, <2>2, <2>3 DEF Tick, Global!ClockStep
  <1>5. CASE UNCHANGED vars
    BY <1>5 DEF vars
  <1>. QED
    BY <1>1, <1>2, <1>3, <1>4, <1>5 DEF Next

\* A behaviour of the pair is one of each limiter.
LEMMA EachIsALimiter == Spec => PerIp!Spec /\ Global!Spec
  <1>1. Init => PerIp!Init /\ Global!Init
    BY DEF Init
  <1>. QED
    BY <1>1, PerIpStep, GlobalStep, PTL
       DEF Spec, PerIp!Spec, Global!Spec

-----------------------------------------------------------------------------
(* What each limiter keeps. *)

\* An instance of RateLimiter counts with its own copy of FiniteSets.
LEMMA SameCardinality ==
    ASSUME NEW S
    PROVE  /\ PerIp!Cardinality(S) = Cardinality(S)
           /\ Own!Cardinality(S) = Cardinality(S)
           /\ Global!Cardinality(S) = Cardinality(S)
           /\ Shared!Cardinality(S) = Cardinality(S)
           /\ PerIp!IsFiniteSet(S) <=> Own!IsFiniteSet(S)
           /\ Global!IsFiniteSet(S) <=> Shared!IsFiniteSet(S)
  BY Zenon
     DEF PerIp!Cardinality, Own!Cardinality, Global!Cardinality,
         Shared!Cardinality, Cardinality, PerIp!IsFiniteSet, Own!IsFiniteSet,
         Global!IsFiniteSet, Shared!IsFiniteSet

\* The two instances of RateLimiter are those its theorems speak of.
LEMMA SameLimiters ==
    /\ PerIp!LimiterConstants <=> Own!LimiterConstants
    /\ PerIp!Spec => Own!Spec
    /\ Global!LimiterConstants <=> Shared!LimiterConstants
    /\ Global!Spec => Shared!Spec
  <1>1. (PerIp!Init => Own!Init) /\ (Global!Init => Shared!Init)
    BY DEF PerIp!Init, Own!Init, Global!Init, Shared!Init
  <1>2. [PerIp!Next]_(PerIp!vars) => [Own!Next]_(Own!vars)
    <2>1. ASSUME NEW k, NEW ok, PerIp!Take(k, ok)
          PROVE  Own!Take(k, ok)
      <3>1. PerIp!Topped(k) = Own!Topped(k)
        BY Zenon
           DEF PerIp!Topped, PerIp!Before, PerIp!Elapsed, PerIp!Least, Own!Topped,
               Own!Before, Own!Elapsed, Own!Least
      <3>2. PerIp!Evicted(k) = Own!Evicted(k)
        <4>1. PerIp!Oldest = Own!Oldest /\ (PerIp!NoneOld <=> Own!NoneOld)
          BY DEF PerIp!Oldest, PerIp!NoneOld, Own!Oldest, Own!NoneOld
        <4>2. CASE k \in live \/ Cardinality(live) < MaxKeys \/ PerIp!NoneOld
          BY <4>1, <4>2, SameCardinality, Zenon DEF PerIp!Evicted, Own!Evicted
        <4>3. CASE ~(k \in live \/ Cardinality(live) < MaxKeys \/ PerIp!NoneOld)
          <5>1. PerIp!Evicted(k) = {{v} : v \in PerIp!Oldest}
            BY <4>3, SameCardinality, Zenon DEF PerIp!Evicted
          <5>2. Own!Evicted(k) = {{v} : v \in Own!Oldest}
            BY <4>1, <4>3, SameCardinality, Zenon DEF Own!Evicted
          <5>3. PerIp!Oldest = Own!Oldest
            BY <4>1
          <5>. QED
            BY <5>1, <5>2, <5>3, Zenon
        <4>. QED
          BY <4>2, <4>3, Zenon
      <3>3. \A n : PerIp!Charge(n, ok) = Own!Charge(n, ok)
        BY Zenon DEF PerIp!Charge, Own!Charge
      <3>. QED
        BY <2>1, <3>1, <3>2, <3>3 DEF PerIp!Take, PerIp!Allowed, Own!Take, Own!Allowed
    <2>. QED
      BY <2>1
         DEF PerIp!Next, PerIp!ClockStep, PerIp!TakeStep, PerIp!SetClock,
             PerIp!vars, PerIp!clock, PerIp!table,
             Own!Next, Own!ClockStep, Own!TakeStep, Own!SetClock,
             Own!vars, Own!clock, Own!table
  <1>3. [Global!Next]_(Global!vars) => [Shared!Next]_(Shared!vars)
    <2>1. ASSUME NEW k, NEW ok, Global!Take(k, ok)
          PROVE  Shared!Take(k, ok)
      <3>1. Global!Topped(k) = Shared!Topped(k)
        BY Zenon
           DEF Global!Topped, Global!Before, Global!Elapsed, Global!Least,
               Shared!Topped, Shared!Before, Shared!Elapsed, Shared!Least
      <3>2. Global!Evicted(k) = Shared!Evicted(k)
        <4>1. Global!Oldest = Shared!Oldest /\ (Global!NoneOld <=> Shared!NoneOld)
          BY DEF Global!Oldest, Global!NoneOld, Shared!Oldest, Shared!NoneOld
        <4>2. CASE k \in gLive \/ Cardinality(gLive) < MaxKeys \/ Global!NoneOld
          BY <4>1, <4>2, SameCardinality, Zenon DEF Global!Evicted, Shared!Evicted
        <4>3. CASE ~(k \in gLive \/ Cardinality(gLive) < MaxKeys \/ Global!NoneOld)
          <5>1. Global!Evicted(k) = {{v} : v \in Global!Oldest}
            BY <4>3, SameCardinality, Zenon DEF Global!Evicted
          <5>2. Shared!Evicted(k) = {{v} : v \in Shared!Oldest}
            BY <4>1, <4>3, SameCardinality, Zenon DEF Shared!Evicted
          <5>3. Global!Oldest = Shared!Oldest
            BY <4>1
          <5>. QED
            BY <5>1, <5>2, <5>3, Zenon
        <4>. QED
          BY <4>2, <4>3, Zenon
      <3>3. \A n : Global!Charge(n, ok) = Shared!Charge(n, ok)
        BY Zenon DEF Global!Charge, Shared!Charge
      <3>. QED
        BY <2>1, <3>1, <3>2, <3>3
           DEF Global!Take, Global!Allowed, Shared!Take, Shared!Allowed
    <2>. QED
      BY <2>1
         DEF Global!Next, Global!ClockStep, Global!TakeStep, Global!SetClock,
             Global!vars, Global!clock, Global!table,
             Shared!Next, Shared!ClockStep, Shared!TakeStep, Shared!SetClock,
             Shared!vars, Shared!clock, Shared!table
  <1>4. /\ PerIp!LimiterConstants <=> Own!LimiterConstants
        /\ Global!LimiterConstants <=> Shared!LimiterConstants
    BY DEF PerIp!LimiterConstants, Own!LimiterConstants, Global!LimiterConstants,
       Shared!LimiterConstants
  <1>. QED
    BY <1>1, <1>2, <1>3, <1>4, PTL DEF PerIp!Spec, Own!Spec, Global!Spec, Shared!Spec

\* Both limiters keep the inductive invariant of a limiter.
LEMMA BothKeep == Spec => [](Own!IInv /\ Shared!IInv)
  <1>1. Own!LimiterConstants /\ Shared!LimiterConstants
    BY AdmissionAssumption, SameLimiters
  <1>2. (Own!Spec => []Own!IInv) /\ (Shared!Spec => []Shared!IInv)
    BY <1>1, Own!Inductive, Shared!Inductive
  <1>. QED
    BY <1>2, EachIsALimiter, SameLimiters, PTL
\* The limiters' own types, for each limiter and the counts kept here.
LEMMA LimiterTypes ==
    ASSUME Own!IInv, Shared!IInv
    PROVE  /\ PerIp!TypeOK /\ Global!TypeOK
           /\ now \in Int /\ back \in Nat /\ backSteps \in Nat
           /\ spent \in [Clients -> Nat]
           /\ gSpent \in [{GlobalKey} -> Nat] /\ gCreated \in [{GlobalKey} -> Nat]
           /\ gTokens \in [{GlobalKey} -> Int] /\ gUpdated \in [{GlobalKey} -> Int]
           /\ gLive \in SUBSET {GlobalKey}
  <1>1. Own!TypeOK /\ Shared!TypeOK
    BY DEF Own!IInv, Shared!IInv
  <1>2. PerIp!TypeOK /\ Global!TypeOK
    BY <1>1, SameCardinality DEF Own!TypeOK, Shared!TypeOK, PerIp!TypeOK, Global!TypeOK
  <1>. QED
    BY <1>2 DEF PerIp!TypeOK, Global!TypeOK

-----------------------------------------------------------------------------
(* What the two promise together. *)

CountsType ==
    /\ requests \in [Clients -> 0 .. MaxRequests]
    /\ starved \subseteq Clients

\* A token of a client's bucket is handed out with one of the global bucket,
\* a token of the global bucket with a request; the global bucket is never
\* evicted, so it was created full once.
Handed ==
    /\ Total(spent) <= gSpent[GlobalKey]
    /\ gSpent[GlobalKey] <= Cost * Total(requests)
    /\ gCreated[GlobalKey] = IF GlobalKey \in gLive THEN 1 ELSE 0

\* While the clock has not gone back, the global bucket lacks at most what it
\* has handed out.
Full ==
    backSteps = 0 /\ GlobalKey \in gLive =>
        /\ gUpdated[GlobalKey] <= now
        /\ gTokens[GlobalKey] >= GlobalCapacity - gSpent[GlobalKey]

AInv == CountsType /\ Handed /\ Full /\ RefusedOnlyInACrowd

\* Counting a request keeps the counts in their type and adds one to their sum.
LEMMA OneMore ==
    ASSUME CountsType, NEW c \in Clients, Counted(c)
    PROVE  /\ requests' \in [Clients -> 0 .. MaxRequests]
           /\ Total(requests) \in Nat
           /\ Total(requests') = Total(requests) + 1
  <1>1. requests \in [Clients -> Nat] /\ IsFiniteSet(Clients)
    BY AdmissionAssumption DEF CountsType
  <1>2. /\ Sum(requests, Clients) \in Nat
        /\ Sum([requests EXCEPT ![c] = @ + 1], Clients) = Sum(requests, Clients) + 1
        /\ requests[c] <= Sum(requests, Clients)
    BY <1>1, SumType, SumGrows, SumCovers
  <1>3. /\ requests' = [requests EXCEPT ![c] = @ + 1]
        /\ Sum(requests, Clients) < MaxRequests
    BY DEF Counted, Total, Sum
  <1>4. requests' \in [Clients -> 0 .. MaxRequests]
    BY <1>2, <1>3, AdmissionAssumption DEF CountsType
  <1>5. /\ Total(requests) = Sum(requests, Clients)
        /\ Total(requests') = Sum(requests', Clients)
    BY DEF Total, Sum
  <1>. QED
    BY <1>2, <1>3, <1>4, <1>5

\* The global bucket in a request: made full if it is new, never evicted, and
\* charged Cost if and only if it held that much.
LEMMA GlobalTaken ==
    ASSUME Shared!IInv, Own!IInv, AInv,
           NEW ok \in BOOLEAN, Global!Take(GlobalKey, ok)
    PROVE  /\ GlobalKey \in gLive'
           /\ gUpdated'[GlobalKey] = now
           /\ gSpent'[GlobalKey] = gSpent[GlobalKey] + (IF ok THEN Cost ELSE 0)
           /\ gCreated'[GlobalKey] = 1
           /\ gTokens'[GlobalKey] =
                  Global!Topped(GlobalKey) - (IF ok THEN Cost ELSE 0)
           /\ ok <=> Global!Topped(GlobalKey) >= Cost
           /\ Global!Topped(GlobalKey) \in Int
           /\ backSteps = 0 =>
                  Global!Topped(GlobalKey) >= GlobalCapacity - gSpent[GlobalKey]
  <1>. USE AdmissionAssumption, LimiterTypes DEF Global!LimiterConstants
  <1>1. /\ GlobalKey \in gLive'
        /\ gUpdated'[GlobalKey] = now
        /\ gTokens'[GlobalKey] = Global!Charge(Global!Topped(GlobalKey), ok)
        /\ ok = Global!Allowed(GlobalKey)
    BY DEF Global!Take
  <1>2. /\ gSpent'[GlobalKey] = gSpent[GlobalKey] + (IF ok THEN Cost ELSE 0)
        /\ gCreated'[GlobalKey] =
               (IF GlobalKey \in gLive
                THEN gCreated[GlobalKey] ELSE gCreated[GlobalKey] + 1)
    BY DEF Global!Take
  <1>3. gCreated'[GlobalKey] = 1
    BY <1>2 DEF AInv, Handed
  <1>4. /\ Global!Topped(GlobalKey) \in Int
        /\ backSteps = 0 =>
               Global!Topped(GlobalKey) >= GlobalCapacity - gSpent[GlobalKey]
    <2>1. CASE GlobalKey \in gLive
      <3>1. /\ gTokens[GlobalKey] \in Int /\ gUpdated[GlobalKey] \in Int
            /\ gSpent[GlobalKey] \in Nat
            /\ GlobalCapacity \in Nat /\ GlobalRefill \in Nat
        OBVIOUS
      <3>2. PICK d : d = now - gUpdated[GlobalKey]
        OBVIOUS
      <3>3. d \in Int /\ GlobalRefill * d \in Int
        BY <3>1, <3>2
      <3>4. Global!Topped(GlobalKey) =
                Global!Least(GlobalCapacity, gTokens[GlobalKey] + GlobalRefill * d)
        BY <2>1, <3>2 DEF Global!Topped, Global!Before, Global!Elapsed
      <3>5. CASE backSteps = 0
        <4>1. d \in Nat /\ gTokens[GlobalKey] >= GlobalCapacity - gSpent[GlobalKey]
          BY <2>1, <3>1, <3>2, <3>3, <3>5 DEF AInv, Full
        <4>2. GlobalRefill * d \in Nat
          BY <3>1, <4>1
        <4>. QED
          BY <3>1, <3>4, <4>1, <4>2 DEF Global!Least
      <3>. QED
        BY <3>1, <3>3, <3>4, <3>5 DEF Global!Least
    <2>2. CASE GlobalKey \notin gLive
      <3>1. Global!Topped(GlobalKey) = Global!Least(GlobalCapacity, GlobalCapacity + 0)
        BY <2>2 DEF Global!Topped, Global!Before, Global!Elapsed
      <3>2. GlobalCapacity \in Nat /\ gSpent[GlobalKey] \in Nat
        OBVIOUS
      <3>. QED
        BY <3>1, <3>2 DEF Global!Least
    <2>. QED
      BY <2>1, <2>2
  <1>5. gTokens'[GlobalKey] = Global!Topped(GlobalKey) - (IF ok THEN Cost ELSE 0)
    BY <1>1, <1>4 DEF Global!Charge
  <1>. QED
    BY <1>1, <1>2, <1>3, <1>4, <1>5 DEF Global!Allowed

\* What the client's own bucket hands out in a request.
LEMMA OwnTaken ==
    ASSUME Own!IInv, Shared!IInv, NEW c \in Clients, NEW ok \in BOOLEAN,
           PerIp!Take(c, ok)
    PROVE  Total(spent') = Total(spent) + (IF ok THEN Cost ELSE 0)
  <1>1. spent \in [Clients -> Nat] /\ IsFiniteSet(Clients) /\ Cost \in Nat
    BY LimiterTypes, AdmissionAssumption DEF PerIp!LimiterConstants
  <1>. DEFINE d == IF ok THEN Cost ELSE 0
  <1>2. d \in Nat /\ spent' = [spent EXCEPT ![c] = @ + d]
    BY <1>1 DEF PerIp!Take
  <1>3. Sum(spent', Clients) = Sum(spent, Clients) + d
    <2>. HIDE DEF d
    <2>. QED
      BY <1>1, <1>2, SumGrows
  <1>. QED
    BY <1>3 DEF Total, Sum

-----------------------------------------------------------------------------
(* Each part is kept by a step. *)

\* The two sums of a state are numbers.
LEMMA SumTypes ==
    ASSUME Own!IInv, Shared!IInv, CountsType
    PROVE  Total(spent) \in Nat /\ Total(requests) \in Nat
  <1>1. /\ spent \in [Clients -> Nat] /\ requests \in [Clients -> Nat]
        /\ IsFiniteSet(Clients)
    BY LimiterTypes, AdmissionAssumption DEF CountsType
  <1>2. Sum(spent, Clients) \in Nat /\ Sum(requests, Clients) \in Nat
    BY <1>1, SumType
  <1>. QED
    BY <1>2 DEF Total, Sum

\* A request keeps the invariant, whatever its answer: ok is the global
\* bucket's, d what the client's own bucket hands out.
LEMMA RequestKeeps ==
    ASSUME Own!IInv, Shared!IInv, AInv, NEW c \in Clients,
           NEW ok \in BOOLEAN, Counted(c), Global!Take(GlobalKey, ok),
           NEW d \in {0, Cost}, Total(spent') = Total(spent) + d, d = Cost => ok,
           ok => starved' = starved, starved' \in {starved, starved \cup {c}},
           UNCHANGED clock
    PROVE  AInv'
  <1>. DEFINE n == Total(requests)
              s == gSpent[GlobalKey]
              t == Global!Topped(GlobalKey)
  <1>1. /\ n \in Nat /\ s \in Nat /\ Total(spent) \in Nat /\ t \in Int
        /\ Cost \in Nat \ {0} /\ GlobalCapacity \in Nat
        /\ backSteps' = backSteps /\ now' = now
    BY AdmissionAssumption, LimiterTypes, SumTypes, GlobalTaken
       DEF AInv, Global!LimiterConstants, clock
  <1>2. /\ requests' \in [Clients -> 0 .. MaxRequests]
        /\ Total(requests') = n + 1
    BY OneMore DEF AInv
  <1>3. Cost * (n + 1) = Cost * n + Cost /\ Cost * n \in Nat
    BY <1>1
  <1>4. /\ GlobalKey \in gLive' /\ gUpdated'[GlobalKey] = now
        /\ gSpent'[GlobalKey] = s + (IF ok THEN Cost ELSE 0)
        /\ gCreated'[GlobalKey] = 1
        /\ gTokens'[GlobalKey] = t - (IF ok THEN Cost ELSE 0)
        /\ ok <=> t >= Cost
        /\ backSteps = 0 => t >= GlobalCapacity - s
    BY GlobalTaken
  <1>5. Total(spent) <= s /\ s <= Cost * n
    BY DEF AInv, Handed
  <1>6. CountsType'
    BY <1>2 DEF AInv, CountsType
  <1>7. Handed'
    <2>1. Total(spent') <= gSpent'[GlobalKey]
      BY <1>1, <1>4, <1>5
    <2>2. gSpent'[GlobalKey] <= Cost * Total(requests')
      BY <1>1, <1>2, <1>3, <1>4, <1>5
    <2>3. Total(spent)' = Total(spent') /\ Total(requests)' = Total(requests')
      OBVIOUS
    <2>. QED
      BY <1>4, <2>1, <2>2, <2>3 DEF Handed
  <1>8. Full'
    BY <1>1, <1>4, LimiterTypes DEF Full
  <1>9. RefusedOnlyInACrowd'
    <2>1. Total(requests)' - 1 = n
      BY <1>1, <1>2
    <2>2. ASSUME starved' # {}, backSteps = 0
          PROVE  Cost * n > GlobalCapacity - Cost
      <3>1. CASE starved = {}
        BY <1>1, <1>3, <1>4, <1>5, <2>2, <3>1
      <3>2. CASE starved # {}
        <4>1. Cost * (n - 1) > GlobalCapacity - Cost
          BY <2>2, <3>2 DEF AInv, RefusedOnlyInACrowd
        <4>2. Cost * (n - 1) = Cost * n - Cost
          BY <1>1
        <4>. QED
          BY <1>1, <1>3, <4>1, <4>2
      <3>. QED
        BY <3>1, <3>2
    <2>. QED
      BY <1>1, <2>1, <2>2 DEF RefusedOnlyInACrowd
  <1>. QED
    BY <1>6, <1>7, <1>8, <1>9 DEF AInv

\* Every step of the handlers keeps the invariant.
LEMMA AInvKept ==
    ASSUME Own!IInv, Shared!IInv, AInv, [Next]_vars
    PROVE  AInv'
  <1>1. ASSUME NEW c \in Clients, Admit(c)
        PROVE  AInv'
    BY <1>1, OwnTaken, RequestKeeps DEF Admit
  <1>2. ASSUME NEW c \in Clients, RefuseClient(c)
        PROVE  AInv'
    BY <1>2, OwnTaken, RequestKeeps DEF RefuseClient
  <1>3. ASSUME NEW c \in Clients, RefuseAll(c)
        PROVE  AInv'
    <2>1. Total(spent') = Total(spent) + 0
      BY <1>3, SumTypes DEF RefuseAll, perIp, AInv
    <2>. QED
      BY <1>3, <2>1, RequestKeeps, AdmissionAssumption
         DEF RefuseAll, PerIp!LimiterConstants
  <1>4. CASE Tick
    <2>1. PICK t \in 0 .. MaxTime : PerIp!SetClock(t)
      BY <1>4 DEF Tick
    <2>2. /\ now' = t /\ t \in Int /\ now \in Int /\ backSteps \in Nat
          /\ backSteps' = IF t < now THEN backSteps + 1 ELSE backSteps
      BY <2>1, LimiterTypes DEF PerIp!SetClock
    <2>3. /\ backSteps' = 0 => backSteps = 0 /\ now <= now'
          /\ UNCHANGED <<spent, gLive, gTokens, gUpdated, gSpent, gCreated>>
          /\ UNCHANGED <<requests, starved>>
      BY <1>4, <2>2 DEF Tick, perIp, global
    <2>4. gUpdated \in [{GlobalKey} -> Int]
      BY LimiterTypes
    <2>. QED
      BY <2>2, <2>3, <2>4 DEF AInv, CountsType, Handed, Full, RefusedOnlyInACrowd
  <1>5. CASE UNCHANGED vars
    BY <1>5 DEF vars, clock, perIp, global, AInv, CountsType, Handed, Full,
                RefusedOnlyInACrowd
  <1>. QED
    BY <1>1, <1>2, <1>3, <1>4, <1>5 DEF Next

\* Before the first request nothing is handed out or counted.
LEMMA AInvInitially == Init => AInv
  <1>. SUFFICES ASSUME Init PROVE AInv
    OBVIOUS
  <1>1. /\ requests \in [Clients -> Nat] /\ spent \in [Clients -> Nat]
        /\ IsFiniteSet(Clients) /\ Cost \in Nat /\ MaxRequests \in Nat
        /\ \A c \in Clients : requests[c] = 0 /\ spent[c] = 0
    BY AdmissionAssumption DEF Init, PerIp!Init, PerIp!LimiterConstants
  <1>2. Sum(requests, Clients) = 0 /\ Sum(spent, Clients) = 0
    BY <1>1, SumType
  <1>3. Total(requests) = 0 /\ Total(spent) = 0
    BY <1>2 DEF Total, Sum
  <1>. QED
    BY <1>1, <1>3
       DEF Init, Global!Init, AInv, CountsType, Handed, Full, RefusedOnlyInACrowd

\* The inductive invariant of the pair, on top of those of the two.
THEOREM Together == Spec => [](Own!IInv /\ Shared!IInv /\ AInv)
  <1>. DEFINE L == Own!IInv /\ Shared!IInv
  <1>1. L /\ L' /\ AInv /\ [Next]_vars => AInv'
    BY AInvKept
  <1>2. Spec => []L
    BY BothKeep
  <1>. QED
    BY <1>1, <1>2, AInvInitially, PTL DEF Spec

-----------------------------------------------------------------------------
(* The results, for any clients and any limits. *)

\* Both tables and the counts keep their types.
THEOREM TypeCorrect == Spec => []TypeOK
  <1>1. Own!IInv /\ Shared!IInv /\ AInv => TypeOK
    BY LimiterTypes DEF TypeOK, AInv, CountsType
  <1>. QED
    BY <1>1, Together, PTL

\* No client gets more than a full bucket per creation plus the refill, nor
\* all clients together more than one full global bucket plus its refill,
\* however often their own buckets are evicted and made anew.
THEOREM NobodyMintsTokens == Spec => []NoFreeTokens
  <1>1. ASSUME Own!IInv, Shared!IInv, AInv
        PROVE  NoFreeTokens
    <2>1. PerIp!WithinAllowance
      BY <1>1 DEF Own!IInv, Own!Accounts, Own!WithinAllowance, PerIp!WithinAllowance
    <2>2. Total(spent) <= gSpent[GlobalKey] /\ gCreated[GlobalKey] \in {0, 1}
      BY <1>1 DEF AInv, Handed
    <2>3. gSpent[GlobalKey] <=
              GlobalCapacity * gCreated[GlobalKey] + GlobalRefill * (now + back)
      BY <1>1 DEF Shared!IInv, Shared!Accounts, Shared!WithinAllowance
    <2>4. PICK m : m = GlobalRefill * (now + back)
      OBVIOUS
    <2>5. /\ m \in Int /\ GlobalCapacity \in Nat /\ gSpent[GlobalKey] \in Nat
          /\ Total(spent) \in Nat
      BY <1>1, <2>4, LimiterTypes, SumTypes, AdmissionAssumption
         DEF AInv, Global!LimiterConstants
    <2>6. gSpent[GlobalKey] <= GlobalCapacity + m
      <3>1. CASE gCreated[GlobalKey] = 0
        BY <2>3, <2>4, <2>5, <3>1
      <3>2. CASE gCreated[GlobalKey] = 1
        BY <2>3, <2>4, <2>5, <3>2
      <3>. QED
        BY <2>2, <3>1, <3>2
    <2>7. Total(spent) <= GlobalCapacity + m
      BY <2>2, <2>5, <2>6
    <2>. QED
      BY <2>1, <2>4, <2>7 DEF NoFreeTokens
  <1>. QED
    BY <1>1, Together, PTL

\* A clock set back puts neither the clients nor the global bucket deeper into
\* debt than the refill of the lost ticks.
THEOREM DebtIsBounded == Spec => []DebtBounded
  <1>1. Own!IInv /\ Shared!IInv /\ AInv => DebtBounded
    BY DEF Own!IInv, Own!Owed, Own!DebtBounded, Shared!IInv, Shared!Owed,
           Shared!DebtBounded, DebtBounded, PerIp!DebtBounded, Global!DebtBounded
  <1>. QED
    BY <1>1, Together, PTL

\* The table of the clients' buckets outgrows maxKeys by at most one bucket for
\* each step the clock went back.
THEOREM TableIsBounded == Spec => []TableBounded
  <1>1. Own!IInv /\ Shared!IInv /\ AInv => TableBounded
    BY SameCardinality DEF Own!IInv, Own!Room, Own!TableBounded,
                           TableBounded, PerIp!TableBounded
  <1>. QED
    BY <1>1, Together, PTL

\* While the clock has not gone back, a client with tokens of its own is turned
\* away only if the requests of all clients have used up the global bucket.
THEOREM OnlyACrowdIsRefused == Spec => []RefusedOnlyInACrowd
  <1>1. Own!IInv /\ Shared!IInv /\ AInv => RefusedOnlyInACrowd
    BY DEF AInv
  <1>. QED
    BY <1>1, Together, PTL
===============================================================================
