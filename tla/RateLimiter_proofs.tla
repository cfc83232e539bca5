-------------------------- MODULE RateLimiter_proofs --------------------------
(***************************************************************************)
(* What a TokenBucket guarantees, for any keys, capacity, refill, cost and *)
(* table size, and any sequence of requests and of clock readings, those   *)
(* that go back included.                                                  *)
(*                                                                         *)
(* A bucket is an account: what it holds and what it has paid out never    *)
(* exceed what creation and refill have put in (Accounts).  The clock      *)
(* enters as now + back, the ticks it went forward, which never shrink.    *)
(***************************************************************************)
EXTENDS RateLimiter, TLAPS, FiniteSetTheorems

\* What a live bucket holds and has paid out is covered by its creations and
\* the refill up to its last update; what any bucket has paid out, by all
\* refill so far.
Accounts ==
    /\ \A k \in live :
          spent[k] + tokens[k] <= Capacity * created[k] + Refill * (updated[k] + back)
    /\ WithinAllowance

\* A bucket dated later than now is short of the refill of the difference, and
\* no bucket is short of more than the clock has lost.
Owed ==
    /\ \A k \in live : tokens[k] + Refill * (now - updated[k]) >= -(Refill * back)
    /\ DebtBounded

\* The table keeps its bound, and once it is as large as that, some bucket is
\* not dated later than now: evictOldest finds one.
Room ==
    /\ TableBounded
    /\ Cardinality(live) = MaxKeys + backSteps => ~NoneOld

IInv == TypeOK /\ Accounts /\ Owed /\ Room

-------------------------------------------------------------------------------
(* Arithmetic: the two facts about products that the steps below need. *)

\* Refill by parts.
LEMMA Distributes ==
    ASSUME NEW r \in Int, NEW x \in Int, NEW y \in Int
    PROVE  /\ r * (x + y) = r * x + r * y
           /\ r * (x - y) = r * x - r * y
           /\ r * x \in Int
  OBVIOUS

\* More ticks are never worth less.
LEMMA Monotone ==
    ASSUME NEW r \in Nat, NEW x \in Int, NEW y \in Int, x <= y
    PROVE  r * x <= r * y
  <1>1. PICK d \in Nat : y = x + d
    <2>1. y - x \in Nat
      OBVIOUS
    <2>. QED
      BY <2>1
  <1>2. r * y = r * x + r * d
    BY <1>1, Distributes
  <1>3. r * d \in Nat
    BY <1>1
  <1>. QED
    BY <1>2, <1>3, Distributes

-------------------------------------------------------------------------------
(* One request *)

\* A bucket after the refill is never over its capacity, never above what it
\* had with the elapsed time, and what is charged was there.
LEMMA ToppedUp ==
    ASSUME LimiterConstants, TypeOK, NEW k \in Keys
    PROVE  /\ Topped(k) \in Int
           /\ Topped(k) <= Capacity
           /\ k \in live => Topped(k) <= tokens[k] + Refill * (now - updated[k])
           /\ k \notin live => Topped(k) = Capacity
           /\ \/ Topped(k) = Capacity
              \/ k \in live /\ Topped(k) = tokens[k] + Refill * (now - updated[k])
  <1>1. CASE k \in live
    <2>1. now - updated[k] \in Int /\ tokens[k] \in Int
      BY DEF TypeOK
    <2>2. Refill * (now - updated[k]) \in Int
      BY <2>1 DEF LimiterConstants
    <2>3. Topped(k) = Least(Capacity, tokens[k] + Refill * (now - updated[k]))
      BY <1>1 DEF Topped, Before, Elapsed
    <2>. QED
      BY <1>1, <2>1, <2>2, <2>3 DEF Least, LimiterConstants
  <1>2. CASE k \notin live
    <2>1. Topped(k) = Least(Capacity, Capacity + Refill * 0)
      BY <1>2 DEF Topped, Before, Elapsed
    <2>. QED
      BY <1>2, <2>1 DEF Least, LimiterConstants
  <1>. QED
    BY <1>1, <1>2

\* The shape of the table after a request of k: k is in it, dated now, and the
\* other buckets are those that were there, untouched.
LEMMA TableAfter ==
    ASSUME TypeOK, NEW k \in Keys, NEW ok \in BOOLEAN, Take(k, ok)
    PROVE  /\ k \in live' /\ updated'[k] = now
           /\ tokens'[k] = Charge(Topped(k), ok)
           /\ ok = Allowed(k)
           /\ \A x \in live' \ {k} :
                 /\ x \in live
                 /\ tokens'[x] = tokens[x]
                 /\ updated'[x] = updated[x]
           /\ \A x \in Keys \ {k} :
                 spent'[x] = spent[x] /\ created'[x] = created[x]
           /\ spent'[k] = spent[k] + (IF ok THEN Cost ELSE 0)
           /\ created'[k] = (IF k \in live THEN created[k] ELSE created[k] + 1)
  BY DEF TypeOK, Take

-------------------------------------------------------------------------------
(* Each part is kept by a reading of the clock and by a request. *)

\* A reading of the clock: the ticks forward never shrink, the ticks back
\* neither, and a step back is counted.
LEMMA ClockReading ==
    ASSUME TypeOK, ClockStep
    PROVE  /\ now' \in Int /\ back' \in Nat /\ backSteps' \in Nat
           /\ now + back <= now' + back'
           /\ back <= back'
           /\ now' < now => back' = back + (now - now') /\ backSteps' = backSteps + 1
           /\ now <= now' => back' = back /\ backSteps' = backSteps
           /\ live' = live /\ tokens' = tokens /\ updated' = updated
           /\ spent' = spent /\ created' = created
  <1>1. now \in Int /\ back \in Nat /\ backSteps \in Nat /\ now' \in Int
    BY DEF TypeOK, ClockStep
  <1>2. /\ back' = IF now' < now THEN back + (now - now') ELSE back
        /\ backSteps' = IF now' < now THEN backSteps + 1 ELSE backSteps
    BY DEF ClockStep, SetClock
  <1>3. /\ live' = live /\ tokens' = tokens /\ updated' = updated
        /\ spent' = spent /\ created' = created
    BY DEF ClockStep, table
  <1>4. /\ back' \in Nat /\ backSteps' \in Nat
        /\ now + back <= now' + back'
        /\ back <= back'
        /\ now' < now => back' = back + (now - now') /\ backSteps' = backSteps + 1
        /\ now <= now' => back' = back /\ backSteps' = backSteps
    <2>1. PICK m, b, s : m = now' /\ b = back' /\ s = backSteps'
      OBVIOUS
    <2>2. m \in Int
      BY <1>1, <2>1
    <2>3. /\ b = IF m < now THEN back + (now - m) ELSE back
          /\ s = IF m < now THEN backSteps + 1 ELSE backSteps
      BY <1>2, <2>1
    <2>4. /\ b \in Nat /\ s \in Nat
          /\ now + back <= m + b
          /\ back <= b
          /\ m < now => b = back + (now - m) /\ s = backSteps + 1
          /\ now <= m => b = back /\ s = backSteps
      BY <1>1, <2>2, <2>3
    <2>. QED
      BY <2>1, <2>4
  <1>. QED
    BY <1>1, <1>3, <1>4

\* A step of the limiter leaves every variable in its type.
LEMMA TypeKept ==
    ASSUME LimiterConstants, IInv, [Next]_vars
    PROVE  TypeOK'
  <1>. USE DEF LimiterConstants
  <1>1. CASE ClockStep
    BY <1>1, ClockReading DEF IInv, TypeOK
  <1>2. ASSUME NEW k \in Keys, NEW ok \in BOOLEAN, Take(k, ok), UNCHANGED clock
        PROVE  TypeOK'
    <2>. USE <1>2 DEF IInv
    <2>1. Topped(k) \in Int /\ Topped(k) <= Capacity
      BY ToppedUp
    <2>2. Charge(Topped(k), ok) \in Int /\ Charge(Topped(k), ok) <= Capacity
      BY <2>1 DEF Charge
    <2>3. PICK gone \in SUBSET live :
            /\ live' = (live \ gone) \cup {k}
            /\ tokens' = [x \in Keys |->
                  IF x = k THEN Charge(Topped(k), ok)
                  ELSE IF x \in gone THEN 0 ELSE tokens[x]]
            /\ updated' = [x \in Keys |->
                  IF x = k THEN now ELSE IF x \in gone THEN 0 ELSE updated[x]]
      BY DEF Take, Evicted, Oldest
    <2>4. live' \in SUBSET Keys /\ IsFiniteSet(live')
      <3>1. IsFiniteSet(live \ gone)
        BY FS_Difference DEF TypeOK
      <3>. QED
        BY <2>3, <3>1, FS_AddElement DEF TypeOK
    <2>5. tokens' \in [Keys -> Int] /\ updated' \in [Keys -> Int]
      BY <2>2, <2>3 DEF TypeOK
    <2>6. \A x \in live' : tokens'[x] <= Capacity
      BY <2>2, <2>4, TableAfter DEF TypeOK
    <2>7. spent' \in [Keys -> Nat] /\ created' \in [Keys -> Nat]
      BY DEF Take, TypeOK
    <2>. QED
      BY <2>4, <2>5, <2>6, <2>7 DEF TypeOK, clock
  <1>3. CASE UNCHANGED vars
    BY <1>3 DEF IInv, TypeOK, vars, clock, table
  <1>. QED
    BY <1>1, <1>2, <1>3 DEF Next, TakeStep

\* The accounts of a key balance after a step as before it.
LEMMA AccountsKept ==
    ASSUME LimiterConstants, IInv, [Next]_vars
    PROVE  Accounts'
  <1>. USE DEF LimiterConstants
  <1>1. CASE ClockStep
    <2>1. /\ now + back \in Int /\ now' + back' \in Int
          /\ now + back <= now' + back' /\ back \in Int /\ back' \in Int /\ back <= back'
          /\ live' = live /\ tokens' = tokens /\ updated' = updated
          /\ spent' = spent /\ created' = created
      BY <1>1, ClockReading DEF IInv, TypeOK
    <2>2. Refill * (now + back) <= Refill * (now' + back')
      BY <2>1, Monotone
    <2>3. WithinAllowance'
      <3>. SUFFICES ASSUME NEW k \in Keys
                    PROVE  spent[k] <= Capacity * created[k] + Refill * (now' + back')
        BY <2>1 DEF WithinAllowance
      <3>1. spent[k] <= Capacity * created[k] + Refill * (now + back)
        BY DEF IInv, Accounts, WithinAllowance
      <3>2. /\ Refill * (now + back) \in Int /\ Refill * (now' + back') \in Int
            /\ Capacity * created[k] \in Int /\ spent[k] \in Int
        BY <2>1, Distributes DEF IInv, TypeOK
      <3>. QED
        BY <2>2, <3>1, <3>2
    <2>4. ASSUME NEW k \in live
          PROVE  spent[k] + tokens[k] <= Capacity * created[k] + Refill * (updated[k] + back')
      <3>1. spent[k] + tokens[k] <= Capacity * created[k] + Refill * (updated[k] + back)
        BY DEF IInv, Accounts
      <3>2. k \in Keys /\ updated[k] + back \in Int /\ updated[k] + back' \in Int
            /\ updated[k] + back <= updated[k] + back'
        BY <2>1 DEF IInv, TypeOK
      <3>3. Refill * (updated[k] + back) <= Refill * (updated[k] + back')
        BY <3>2, Monotone
      <3>4. /\ Refill * (updated[k] + back) \in Int /\ Refill * (updated[k] + back') \in Int
            /\ Capacity * created[k] \in Int /\ spent[k] + tokens[k] \in Int
        BY <3>2, Distributes DEF IInv, TypeOK
      <3>. QED
        BY <3>1, <3>3, <3>4
    <2>. QED
      BY <2>1, <2>3, <2>4 DEF Accounts
  <1>2. ASSUME NEW k \in Keys, NEW ok \in BOOLEAN, Take(k, ok), UNCHANGED clock
        PROVE  Accounts'
    <2>. USE <1>2
    <2>. DEFINE grant == IF ok THEN Cost ELSE 0
                made == IF k \in live THEN created[k] ELSE created[k] + 1
    <2>1. TypeOK /\ TypeOK' /\ now' = now /\ back' = back
      BY TypeKept DEF IInv, Next, TakeStep, clock
    <2>2. /\ spent[k] \in Nat /\ created[k] \in Nat /\ made \in Nat /\ grant \in Nat
          /\ now \in Int /\ back \in Int /\ Topped(k) \in Int
          /\ Capacity * created[k] \in Int /\ Refill * (now + back) \in Int
      BY <2>1, ToppedUp, Distributes DEF TypeOK
    <2>3. spent[k] + Topped(k) <= Capacity * made + Refill * (now + back)
      <3>1. CASE k \in live
        <4>1. Topped(k) <= tokens[k] + Refill * (now - updated[k])
          BY <2>1, <3>1, ToppedUp
        <4>2. spent[k] + tokens[k] <= Capacity * created[k] + Refill * (updated[k] + back)
          BY <3>1 DEF IInv, Accounts
        <4>3. tokens[k] \in Int /\ updated[k] \in Int
          BY <2>1 DEF TypeOK
        <4>4. /\ Refill * (now - updated[k]) = Refill * now - Refill * updated[k]
              /\ Refill * (updated[k] + back) = Refill * updated[k] + Refill * back
              /\ Refill * (now + back) = Refill * now + Refill * back
              /\ Refill * now \in Int /\ Refill * back \in Int /\ Refill * updated[k] \in Int
          BY <2>2, <4>3, Distributes
        <4>. HIDE DEF LimiterConstants
        <4>. QED
          BY <2>2, <3>1, <4>1, <4>2, <4>3, <4>4
      <3>2. CASE k \notin live
        <4>1. Topped(k) = Capacity
          BY <2>1, <3>2, ToppedUp
        <4>2. spent[k] <= Capacity * created[k] + Refill * (now + back)
          BY DEF IInv, Accounts, WithinAllowance
        <4>3. Capacity * made = Capacity * created[k] + Capacity
          BY <2>2, <3>2
        <4>. QED
          BY <2>2, <4>1, <4>2, <4>3
      <3>. QED
        BY <3>1, <3>2
    <2>4. /\ Charge(Topped(k), ok) = Topped(k) - grant
          /\ Charge(Topped(k), ok) >= 0 \/ grant = 0
      BY <2>2, TableAfter, <2>1 DEF Charge, Allowed
    <2>5. /\ spent'[k] = spent[k] + grant /\ created'[k] = made
          /\ k \in live' /\ updated'[k] = now /\ tokens'[k] = Charge(Topped(k), ok)
      BY <2>1, TableAfter
    <2>6. WithinAllowance'
      <3>. SUFFICES ASSUME NEW x \in Keys
                    PROVE  spent'[x] <= Capacity * created'[x] + Refill * (now + back)
        BY <2>1 DEF WithinAllowance
      <3>1. CASE x = k
        <4>0. Capacity * made \in Int /\ Capacity * created[k] <= Capacity * made
          BY <2>2, Monotone, Distributes
        <4>1. CASE grant = 0
          <5>1. spent[k] <= Capacity * created[k] + Refill * (now + back)
            BY DEF IInv, Accounts, WithinAllowance
          <5>. QED
            BY <2>2, <2>5, <3>1, <4>0, <4>1, <5>1
        <4>2. CASE Charge(Topped(k), ok) >= 0
          BY <2>2, <2>3, <2>4, <2>5, <3>1, <4>0, <4>2
        <4>. QED
          BY <2>4, <4>1, <4>2
      <3>2. CASE x # k
        BY <2>1, <3>2, TableAfter DEF IInv, Accounts, WithinAllowance
      <3>. QED
        BY <3>1, <3>2
    <2>7. ASSUME NEW x \in live'
          PROVE  spent'[x] + tokens'[x] <= Capacity * created'[x] + Refill * (updated'[x] + back)
      <3>1. CASE x = k
        <4>1. Capacity * made \in Int
          BY <2>2, Distributes
        <4>. QED
          BY <2>2, <2>3, <2>4, <2>5, <3>1, <4>1
      <3>2. CASE x # k
        BY <2>1, <2>7, <3>2, TableAfter DEF IInv, Accounts, TypeOK
      <3>. QED
        BY <3>1, <3>2
    <2>. QED
      BY <2>1, <2>6, <2>7 DEF Accounts
  <1>3. CASE UNCHANGED vars
    BY <1>3 DEF IInv, Accounts, WithinAllowance, vars, clock, table
  <1>. QED
    BY <1>1, <1>2, <1>3 DEF Next, TakeStep

\* A bucket owes no more than the clock went back, after a step as before.
LEMMA OwedKept ==
    ASSUME LimiterConstants, IInv, [Next]_vars
    PROVE  Owed'
  <1>. USE DEF LimiterConstants
  <1>1. CASE ClockStep
    <2>0. PICK t, b : t = now' /\ b = back'
      OBVIOUS
    <2>1. /\ now \in Int /\ t \in Int /\ back \in Int /\ b \in Int
          /\ now + back <= t + b /\ back <= b
          /\ live' = live /\ tokens' = tokens /\ updated' = updated
      BY <1>1, <2>0, ClockReading DEF IInv, TypeOK
    <2>2. /\ Refill * (now + back) <= Refill * (t + b)
          /\ Refill * back <= Refill * b
      BY <2>1, Monotone
    <2>3. /\ Refill * (now + back) = Refill * now + Refill * back
          /\ Refill * (t + b) = Refill * t + Refill * b
          /\ Refill * now \in Int /\ Refill * back \in Int
          /\ Refill * t \in Int /\ Refill * b \in Int
      BY <2>1, Distributes
    <2>4. ASSUME NEW k \in live
          PROVE  /\ tokens[k] + Refill * (t - updated[k]) >= -(Refill * b)
                 /\ tokens[k] >= -(Refill * b)
      <3>1. tokens[k] \in Int /\ updated[k] \in Int
        BY DEF IInv, TypeOK
      <3>2. /\ Refill * (now - updated[k]) = Refill * now - Refill * updated[k]
            /\ Refill * (t - updated[k]) = Refill * t - Refill * updated[k]
            /\ Refill * updated[k] \in Int
        <4>1. PICK u \in Int : u = updated[k]
          BY <3>1
        <4>2. /\ Refill * (now - u) = Refill * now - Refill * u
              /\ Refill * (t - u) = Refill * t - Refill * u
              /\ Refill * u \in Int
          BY <2>1, Distributes
        <4>. QED
          BY <4>1, <4>2
      <3>3. /\ tokens[k] + Refill * (now - updated[k]) >= -(Refill * back)
            /\ tokens[k] >= -(Refill * back)
        BY DEF IInv, Owed, DebtBounded
      <3>. QED
        BY <2>2, <2>3, <3>1, <3>2, <3>3
    <2>. QED
      BY <2>0, <2>1, <2>4 DEF Owed, DebtBounded
  <1>2. ASSUME NEW k \in Keys, NEW ok \in BOOLEAN, Take(k, ok), UNCHANGED clock
        PROVE  Owed'
    <2>. USE <1>2
    <2>1. TypeOK /\ TypeOK' /\ now' = now /\ back' = back
      BY TypeKept DEF IInv, Next, TakeStep, clock
    <2>2. /\ now \in Int /\ back \in Nat /\ Topped(k) \in Int /\ Refill * back \in Nat
      BY <2>1, ToppedUp, Distributes DEF TypeOK
    <2>3. Topped(k) >= -(Refill * back)
      <3>1. CASE Topped(k) = Capacity
        BY <2>2, <3>1
      <3>2. CASE k \in live /\ Topped(k) = tokens[k] + Refill * (now - updated[k])
        BY <3>2 DEF IInv, Owed
      <3>. QED
        BY <2>1, <3>1, <3>2, ToppedUp
    <2>4. Charge(Topped(k), ok) >= -(Refill * back)
      BY <2>1, <2>2, <2>3, TableAfter DEF Charge, Allowed
    <2>5. /\ updated'[k] = now /\ tokens'[k] = Charge(Topped(k), ok)
          /\ tokens'[k] \in Int
      BY <2>1, <2>2, TableAfter DEF Charge
    <2>6. Refill * (now - now) = 0
      BY <2>2
    <2>7. ASSUME NEW x \in live'
          PROVE  /\ tokens'[x] + Refill * (now - updated'[x]) >= -(Refill * back)
                 /\ tokens'[x] >= -(Refill * back)
      <3>1. CASE x = k
        BY <2>2, <2>4, <2>5, <2>6, <3>1
      <3>2. CASE x # k
        BY <2>1, <2>7, <3>2, TableAfter DEF IInv, Owed, DebtBounded
      <3>. QED
        BY <3>1, <3>2
    <2>. QED
      BY <2>1, <2>7 DEF Owed, DebtBounded
  <1>3. CASE UNCHANGED vars
    BY <1>3 DEF IInv, Owed, DebtBounded, vars, clock, table
  <1>. QED
    BY <1>1, <1>2, <1>3 DEF Next, TakeStep

\* The table has room after a step as before.
LEMMA RoomKept ==
    ASSUME LimiterConstants, IInv, [Next]_vars
    PROVE  Room'
  <1>. USE DEF LimiterConstants
  <1>0. Cardinality(live) \in Nat /\ backSteps \in Nat /\ IsFiniteSet(live)
    BY FS_CardinalityType DEF IInv, TypeOK
  <1>1. CASE ClockStep
    <2>1. /\ now \in Int /\ now' \in Int /\ live' = live /\ updated' = updated
          /\ now' < now => backSteps' = backSteps + 1
          /\ now <= now' => backSteps' = backSteps
          /\ \A k \in live : updated[k] \in Int
      BY <1>1, ClockReading DEF IInv, TypeOK
    <2>2. CASE now' < now
      <3>1. Cardinality(live) <= MaxKeys + backSteps
        BY DEF IInv, Room, TableBounded
      <3>2. Cardinality(live) < MaxKeys + (backSteps + 1)
        BY <1>0, <3>1
      <3>3. backSteps' = backSteps + 1
        BY <2>1, <2>2
      <3>. QED
        BY <1>0, <2>1, <3>2, <3>3 DEF Room, TableBounded
    <2>3. CASE now <= now'
      <3>1. ~NoneOld => ~NoneOld'
        <4>. SUFFICES ASSUME NEW k \in live, ~(updated[k] > now)
                      PROVE  ~(updated[k] > now')
          BY <2>1 DEF NoneOld
        <4>. QED
          BY <2>1, <2>3
      <3>. QED
        BY <2>1, <2>3, <3>1 DEF IInv, Room, TableBounded
    <2>. QED
      BY <2>1, <2>2, <2>3
  <1>2. ASSUME NEW k \in Keys, NEW ok \in BOOLEAN, Take(k, ok), UNCHANGED clock
        PROVE  Room'
    <2>. USE <1>2
    <2>1. TypeOK /\ now' = now /\ backSteps' = backSteps /\ now \in Int
      BY DEF IInv, clock, TypeOK
    <2>2. ~NoneOld'
      <3>1. k \in live' /\ updated'[k] = now
        BY <2>1, TableAfter
      <3>. QED
        BY <2>1, <3>1 DEF NoneOld
    <2>3. PICK gone \in Evicted(k) : live' = (live \ gone) \cup {k}
      BY DEF Take
    <2>4. Cardinality(live) <= MaxKeys + backSteps
      BY DEF IInv, Room, TableBounded
    <2>5. CASE k \in live
      <3>1. live' = live
        BY <2>3, <2>5 DEF Evicted
      <3>. QED
        BY <2>1, <2>2, <2>4, <3>1 DEF Room, TableBounded
    <2>6. CASE k \notin live /\ (Cardinality(live) < MaxKeys \/ NoneOld)
      <3>1. live' = live \cup {k}
        BY <2>3, <2>6 DEF Evicted
      <3>2. Cardinality(live') = Cardinality(live) + 1
        BY <1>0, <2>6, <3>1, FS_AddElement
      <3>3. Cardinality(live) < MaxKeys + backSteps
        BY <1>0, <2>4, <2>6 DEF IInv, Room
      <3>4. Cardinality(live') <= MaxKeys + backSteps
        BY <1>0, <3>2, <3>3
      <3>. QED
        BY <2>1, <2>2, <3>4 DEF Room, TableBounded
    <2>7. CASE k \notin live /\ ~(Cardinality(live) < MaxKeys \/ NoneOld)
      <3>1. PICK v \in live : live' = (live \ {v}) \cup {k}
        BY <2>3, <2>7 DEF Evicted, Oldest
      <3>2. IsFiniteSet(live \ {v}) /\ Cardinality(live \ {v}) = Cardinality(live) - 1
        BY <1>0, <3>1, FS_RemoveElement
      <3>3. Cardinality(live') = Cardinality(live \ {v}) + 1
        BY <2>7, <3>1, <3>2, FS_AddElement
      <3>4. Cardinality(live') <= MaxKeys + backSteps
        BY <1>0, <2>4, <3>2, <3>3
      <3>. QED
        BY <2>1, <2>2, <3>4 DEF Room, TableBounded
    <2>. QED
      BY <2>5, <2>6, <2>7
  <1>3. CASE UNCHANGED vars
    BY <1>3 DEF IInv, Room, TableBounded, NoneOld, vars, clock, table
  <1>. QED
    BY <1>1, <1>2, <1>3 DEF Next, TakeStep

-------------------------------------------------------------------------------
(* The theorems *)

\* The first request meets an empty table.
LEMMA Initially ==
    ASSUME LimiterConstants, Init
    PROVE  IInv
  <1>. USE DEF Init, LimiterConstants
  <1>1. TypeOK
    BY FS_EmptySet DEF TypeOK
  <1>2. Accounts
    <2>1. \A k \in Keys : Capacity * created[k] = 0 /\ Refill * (now + back) = 0
      OBVIOUS
    <2>. QED
      BY <2>1 DEF Accounts, WithinAllowance
  <1>3. Owed
    BY DEF Owed, DebtBounded
  <1>4. Room
    <2>1. Cardinality(live) = 0
      BY FS_EmptySet
    <2>. QED
      BY <2>1 DEF Room, TableBounded
  <1>. QED
    BY <1>1, <1>2, <1>3, <1>4 DEF IInv

\* IInv is inductive.
THEOREM Inductive ==
    ASSUME LimiterConstants
    PROVE  Spec => []IInv
  <1>1. Init => IInv
    BY Initially
  <1>2. IInv /\ [Next]_vars => IInv'
    BY TypeKept, AccountsKept, OwedKept, RoomKept DEF IInv
  <1>. QED
    BY <1>1, <1>2, PTL DEF Spec

\* No client gets more than a full bucket per creation and the refill of the
\* ticks the clock went forward, whatever else the clock does (take).
THEOREM NoFreeTokens ==
    ASSUME LimiterConstants
    PROVE  Spec => []WithinAllowance
  <1>1. IInv => WithinAllowance
    BY DEF IInv, Accounts
  <1>. QED
    BY <1>1, Inductive, PTL

\* A clock that goes back puts no client deeper into debt than the refill of
\* the ticks it lost (the negative elapsed time of take).
THEOREM DebtIsBounded ==
    ASSUME LimiterConstants
    PROVE  Spec => []DebtBounded
  <1>1. IInv => DebtBounded
    BY DEF IInv, Owed
  <1>. QED
    BY <1>1, Inductive, PTL

\* The table never exceeds maxKeys by more than one bucket for each step the
\* clock went back (evictOldest that finds nothing).
THEOREM TableIsBounded ==
    ASSUME LimiterConstants
    PROVE  Spec => []TableBounded
  <1>1. IInv => TableBounded
    BY DEF IInv, Room
  <1>. QED
    BY <1>1, Inductive, PTL

===============================================================================
