------------------------- MODULE HelloLimiterProofs -------------------------
(***************************************************************************)
(* The rate bound of HelloLimiter and its converse, for every table, hash, *)
(* capacity and clock.  TypeOK with SpendingBound is inductive, and so is  *)
(* TypeOK with NoTokenLost; RateBound follows from the former because a    *)
(* level is never negative.  CleanupAssumption is what makes the forgotten *)
(* bucket harmless: it had been full already.                              *)
(***************************************************************************)
EXTENDS HelloLimiter, TLAPS

(* The capacity of a bucket is a positive number of ticks, at least one    *)
(* token, and an idle bucket has it before it is forgotten.                *)
LEMMA CapacityFacts ==
    Capacity \in Nat /\ Capacity >= Second /\ CleanupAfter >= Capacity
<1>1. Capacity \in Nat
  BY SecondAssumption, HelloBurstAssumption DEF Capacity
<1>2. Capacity >= Second
  BY SecondAssumption, HelloBurstAssumption DEF Capacity
<1>3. CleanupAfter >= Capacity
  BY CleanupAssumption DEF Capacity
<1> QED
  BY <1>1, <1>2, <1>3

(* Every address has a slot of the table: no source can make the table     *)
(* grow (limiter.go:53-55).                                                *)
LEMMA HashInTable == \A a \in Addresses : HelloRateGateHash(a) \in Slots
  BY HashAssumption, ZeroSlotAssumption DEF HelloRateGateHash

(* What a refill computes: a level within the bucket that does not exceed  *)
(* the old level and the time elapsed, unless the bucket was forgotten.    *)
LEMMA RefilledFacts ==
    ASSUME TypeOK, NEW s \in Slots
    PROVE  /\ Refilled(buckets[s]) \in [tokens : 0..Capacity, observed : Int]
           /\ Refilled(buckets[s]).observed = now
<1>1. /\ buckets[s] \in [tokens : 0..Capacity, observed : Int]
      /\ buckets[s].observed = Never \/ buckets[s].observed \in 0..now
      /\ now \in Nat
  BY DEF TypeOK
<1> QED
  BY <1>1, CapacityFacts, CleanupAssumption, HelloBurstAssumption, SecondAssumption
     DEF Refilled, Least, Never

(* Levels stay within the bucket and times within the past: the type       *)
(* invariant of the limiter holds in every behaviour.                      *)
THEOREM LimiterTypes == Spec => []TypeOK
<1>1. Init => TypeOK
  BY CapacityFacts DEF Init, TypeOK, Never
<1>2. TypeOK /\ [Next]_vars => TypeOK'
  <2> SUFFICES ASSUME TypeOK, [Next]_vars PROVE TypeOK'
    OBVIOUS
  <2>1. ASSUME NEW a \in Addresses, Allow(a) PROVE TypeOK'
    <3> DEFINE s == HelloRateGateHash(a)
               bucket == Refilled(buckets[s])
    <3>1. s \in Slots
      BY HashInTable
    <3>2. bucket \in [tokens : 0..Capacity, observed : Int] /\ bucket.observed = now
      BY <3>1, RefilledFacts
    <3>3. now \in Nat /\ now' = now
      BY <2>1 DEF Allow, TypeOK
    <3>4. buckets' \in [Slots -> [tokens : 0..Capacity, observed : Int]]
      BY <2>1, <3>1, <3>2, SecondAssumption, CapacityFacts DEF Allow, TypeOK
    <3>5. window' \in [Slots -> [since : Nat, spent : Nat]]
      BY <2>1, <3>1, SecondAssumption DEF Allow, TypeOK
    <3>6. \A x \in Slots : buckets'[x].observed = Never \/ buckets'[x].observed \in 0..now
      BY <2>1, <3>1, <3>2, <3>3 DEF Allow, TypeOK
    <3>7. \A x \in Slots : window'[x].since <= now
      BY <2>1, <3>1 DEF Allow, TypeOK
    <3> QED
      BY <3>3, <3>4, <3>5, <3>6, <3>7 DEF TypeOK
  <2>2. ASSUME NEW t \in 1..MaxTime, Tick(t) PROVE TypeOK'
    BY <2>2, MaxTimeAssumption DEF TypeOK, Tick
  <2>3. ASSUME NEW s \in Slots, Observe(s) PROVE TypeOK'
    BY <2>3 DEF TypeOK, Observe
  <2>4. CASE UNCHANGED vars
    BY <2>4 DEF TypeOK, vars
  <2> QED
    BY <2>1, <2>2, <2>3, <2>4 DEF Next
<1> QED
  BY <1>1, <1>2, PTL DEF Spec

(* How the level a slot yields evolves: an admission lowers it by exactly  *)
(* one token, a refusal and an observation leave it, and time raises it by *)
(* at most the time elapsed, and by all of it up to a full bucket.         *)
LEMMA YieldStep ==
    ASSUME TypeOK, TypeOK', [Next]_vars, NEW s \in Slots
    PROVE  LET y == Refilled(buckets[s]).tokens
               z == Refilled(buckets[s])'.tokens
           IN \/ /\ now' = now
                 /\ window'[s].since = window[s].since
                 /\ z + window'[s].spent = y + window[s].spent
              \/ /\ now' > now
                 /\ window'[s] = window[s]
                 /\ z = Least(Capacity, y + now' - now)
              \/ /\ now' = now
                 /\ z = y
                 /\ window'[s] = [since |-> now, spent |-> 0]
<1> DEFINE y == Refilled(buckets[s]).tokens
           z == Refilled(buckets[s])'.tokens
<1>t. /\ y \in 0..Capacity /\ now \in Nat
      /\ buckets[s] \in [tokens : 0..Capacity, observed : Int]
      /\ buckets[s].observed = Never \/ buckets[s].observed \in 0..now
      /\ window[s] \in [since : Nat, spent : Nat]
  BY RefilledFacts DEF TypeOK
<1>1. ASSUME NEW a \in Addresses, Allow(a), HelloRateGateHash(a) = s
      PROVE  /\ now' = now
             /\ window'[s].since = window[s].since
             /\ z + window'[s].spent = y + window[s].spent
  <2> DEFINE bucket == Refilled(buckets[s])
             admitted == bucket.tokens >= Second
  <2>1. bucket \in [tokens : 0..Capacity, observed : Int] /\ bucket.observed = now
    BY RefilledFacts
  <2>2. buckets'[s] = [bucket EXCEPT !.tokens = IF admitted THEN @ - Second ELSE @]
    BY <1>1 DEF Allow, TypeOK
  <2>3. /\ buckets'[s].observed = now
        /\ buckets'[s].tokens = IF admitted THEN y - Second ELSE y
    BY <2>1, <2>2
  <2>4. /\ window'[s].since = window[s].since
        /\ window'[s].spent = IF admitted THEN window[s].spent + Second ELSE window[s].spent
    BY <1>1 DEF Allow, TypeOK
  <2>5. now' = now
    BY <1>1 DEF Allow
  <2>6. z = buckets'[s].tokens
    BY <2>3, <2>5, <1>t, CapacityFacts, CleanupAssumption, SecondAssumption
       DEF Refilled, Never
  <2> QED
    BY <2>3, <2>4, <2>5, <2>6, <1>t, SecondAssumption
<1>2. ASSUME NEW a \in Addresses, Allow(a), HelloRateGateHash(a) # s
      PROVE  /\ now' = now
             /\ window'[s].since = window[s].since
             /\ z + window'[s].spent = y + window[s].spent
  <2>1. now' = now /\ buckets'[s] = buckets[s] /\ window'[s] = window[s]
    BY <1>2 DEF Allow, TypeOK
  <2> QED
    BY <2>1 DEF Refilled
<1>3. ASSUME NEW t \in 1..MaxTime, Tick(t)
      PROVE  now' > now /\ window'[s] = window[s] /\ z = Least(Capacity, y + now' - now)
  <2>1. now' > now /\ buckets'[s] = buckets[s] /\ window'[s] = window[s] /\ now' \in Nat
    BY <1>3, <1>t, MaxTimeAssumption DEF Tick
  <2>2. z = Least(Capacity, y + now' - now)
    BY <2>1, <1>t, CapacityFacts, CleanupAssumption DEF Refilled, Least, Never
  <2> QED
    BY <2>1, <2>2
<1>4. ASSUME NEW x \in Slots, Observe(x), x = s
      PROVE  now' = now /\ z = y /\ window'[s] = [since |-> now, spent |-> 0]
  BY <1>4 DEF Observe, Refilled, TypeOK
<1>5. ASSUME NEW x \in Slots, Observe(x), x # s
      PROVE  /\ now' = now
             /\ window'[s].since = window[s].since
             /\ z + window'[s].spent = y + window[s].spent
  BY <1>5 DEF Observe, Refilled, TypeOK
<1>6. ASSUME UNCHANGED vars
      PROVE  /\ now' = now
             /\ window'[s].since = window[s].since
             /\ z + window'[s].spent = y + window[s].spent
  BY <1>6 DEF vars, Refilled
<1> QED
  BY <1>1, <1>2, <1>3, <1>4, <1>5, <1>6, Zenon DEF Next

(* SpendingBound and NoTokenLost survive every step.                       *)
LEMMA BoundsStep ==
    ASSUME TypeOK, TypeOK', SpendingBound, NoTokenLost, [Next]_vars
    PROVE  SpendingBound' /\ NoTokenLost'
<1> SUFFICES ASSUME NEW s \in Slots
             PROVE  /\ window'[s].spent + Refilled(buckets[s])'.tokens
                         <= Capacity + (now' - window'[s].since)
                    /\ window'[s].spent + Refilled(buckets[s])'.tokens
                         >= Least(Capacity, now' - window'[s].since)
  BY DEF SpendingBound, NoTokenLost, Least
<1> DEFINE y == Refilled(buckets[s]).tokens
           z == Refilled(buckets[s])'.tokens
           W == window[s].spent
           V == window'[s].spent
           A == window[s].since
           B == window'[s].since
<1>1. /\ y \in 0..Capacity /\ now \in Nat /\ W \in Nat /\ A \in Nat /\ A <= now
      /\ now' \in Nat /\ V \in Nat /\ B \in Nat /\ B <= now'
  BY RefilledFacts DEF TypeOK
<1>2. z \in 0..Capacity
  <2>1. /\ buckets'[s] \in [tokens : 0..Capacity, observed : Int]
        /\ buckets'[s].observed = Never \/ buckets'[s].observed \in 0..now'
    BY DEF TypeOK
  <2> QED
    BY <2>1, <1>1, CapacityFacts, CleanupAssumption DEF Refilled, Least, Never
<1>3. W + y <= Capacity + (now - A) /\ W + y >= Least(Capacity, now - A)
  BY DEF SpendingBound, NoTokenLost
<1>4. \/ now' = now /\ B = A /\ z + V = y + W
      \/ now' > now /\ window'[s] = window[s] /\ z = Least(Capacity, y + now' - now)
      \/ now' = now /\ z = y /\ window'[s] = [since |-> now, spent |-> 0]
  BY YieldStep
<1>5. \/ now' = now /\ B = A /\ z + V = y + W
      \/ now' > now /\ B = A /\ V = W /\ z = Least(Capacity, y + now' - now)
      \/ now' = now /\ z = y /\ B = now /\ V = 0
  BY <1>4
<1>6. Capacity \in Nat
  BY CapacityFacts
<1>7. PICK y1 \in Nat, z1 \in Nat, w1 \in Nat, v1 \in Nat, t1 \in Nat, u1 \in Nat,
           a1 \in Nat, b1 \in Nat :
             y1 = y /\ z1 = z /\ w1 = W /\ v1 = V /\ t1 = now /\ u1 = now' /\ a1 = A /\ b1 = B
  <2>1. y \in Nat /\ z \in Nat
    BY <1>1, <1>2, <1>6
  <2> QED
    BY <1>1, <2>1, Zenon
<1>8. y1 <= Capacity /\ a1 <= t1
  BY <1>1, <1>6, <1>7
<1>9. w1 + y1 <= Capacity + (t1 - a1) /\ w1 + y1 >= Least(Capacity, t1 - a1)
  BY <1>3, <1>7
<1>10. \/ u1 = t1 /\ b1 = a1 /\ z1 + v1 = y1 + w1
       \/ u1 > t1 /\ b1 = a1 /\ v1 = w1 /\ z1 = Least(Capacity, y1 + u1 - t1)
       \/ u1 = t1 /\ z1 = y1 /\ b1 = t1 /\ v1 = 0
  BY <1>5, <1>7
<1>11. v1 + z1 <= Capacity + (u1 - b1) /\ v1 + z1 >= Least(Capacity, u1 - b1)
  BY <1>6, <1>8, <1>9, <1>10 DEF Least
<1> QED
  BY <1>7, <1>11

(* In every stretch of time a slot admits at most a burst and one HELLO    *)
(* per second, and no token is lost, whatever the addresses and the table. *)
THEOREM LimiterBounds == Spec => []SpendingBound /\ []NoTokenLost
<1>1. Init => SpendingBound /\ NoTokenLost
  BY CapacityFacts DEF Init, SpendingBound, NoTokenLost, Refilled, Least, Never
<1>2. TypeOK /\ TypeOK' /\ SpendingBound /\ NoTokenLost /\ [Next]_vars
        => SpendingBound' /\ NoTokenLost'
  BY BoundsStep
<1> QED
  BY <1>1, <1>2, LimiterTypes, PTL DEF Spec

(* The rate limit itself (limiter.go:30-51): RateBound holds always.       *)
THEOREM LimiterRate == Spec => []RateBound
<1>1. TypeOK /\ SpendingBound => RateBound
  <2> SUFFICES ASSUME TypeOK, SpendingBound, NEW s \in Slots
               PROVE  window[s].spent <= Capacity + (now - window[s].since)
    BY DEF RateBound
  <2>1. /\ Refilled(buckets[s]).tokens \in 0..Capacity /\ now \in Nat
        /\ window[s].spent \in Nat /\ window[s].since \in Nat
    BY RefilledFacts DEF TypeOK
  <2>2. window[s].spent + Refilled(buckets[s]).tokens <= Capacity + (now - window[s].since)
    BY DEF SpendingBound
  <2> QED
    BY <2>1, <2>2, CapacityFacts
<1> QED
  BY <1>1, LimiterTypes, LimiterBounds, PTL
=============================================================================
