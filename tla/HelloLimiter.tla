---------------------------- MODULE HelloLimiter ----------------------------
(***************************************************************************)
(* The rate limit on HELLO packets, internal/zerotier/transport/limiter.go:*)
(* a fixed table of token buckets, shared by all addresses of a prefix and *)
(* by prefixes whose hashes collide.  handler.go:83 asks it before any     *)
(* cryptography.                                                           *)
(*                                                                         *)
(* Time runs in ticks, Second ticks to the second.  A bucket refills by    *)
(* one token per second, so its level is kept in ticks too: a token is     *)
(* Second ticks.  The code's float64 levels are exact here.                *)
(***************************************************************************)
EXTENDS Integers

CONSTANTS Addresses,      \* source addresses: [valid, prefix, host]
          Hash,           \* prefix -> slot (FNV-1a of the /24 or /48, external)
          Slots,          \* the indices of the table
          Second,         \* ticks per second, and per token
          HelloBurst,     \* capacity of a bucket in tokens
          CleanupAfter,   \* limiterCleanupAfter in ticks
          MaxTime         \* bound on the clock

ASSUME SecondAssumption == Second \in Nat \ {0}
ASSUME HelloBurstAssumption == HelloBurst \in Nat \ {0}
ASSUME MaxTimeAssumption == MaxTime \in Nat
\* An idle bucket is full long before it is forgotten (10 minutes against 4 s).
ASSUME CleanupAssumption == CleanupAfter \in Nat /\ CleanupAfter >= HelloBurst * Second
ASSUME HashAssumption == \A a \in Addresses : a.valid => Hash[a.prefix] \in Slots
ASSUME ZeroSlotAssumption == 0 \in Slots

VARIABLES now,        \* time.Now()
          buckets,    \* slot -> [tokens, observed]
          window      \* history: slot -> [since, spent], the HELLOs admitted since a moment

vars == <<now, buckets, window>>

Never == -1           \* the zero time.Time of an untouched bucket
Capacity == HelloBurst * Second

Init ==
    /\ now = 0
    /\ buckets = [s \in Slots |-> [tokens |-> 0, observed |-> Never]]
    /\ window = [s \in Slots |-> [since |-> 0, spent |-> 0]]

\* The slot of an address.  Hosts of one prefix share it.
HelloRateGateHash(address) == IF address.valid THEN Hash[address.prefix] ELSE 0

Least(a, b) == IF a <= b THEN a ELSE b

\* A refill without the ceiling: idle time is saved up.
RefilledUncapped(bucket) ==
    IF bucket.observed = Never \/ now - bucket.observed >= CleanupAfter
    THEN [tokens |-> Capacity, observed |-> now]
    ELSE [tokens |-> bucket.tokens + now - bucket.observed, observed |-> now]

\* A refill that forgets to move the time of observation on.
RefilledTwice(bucket) ==
    IF bucket.observed = Never \/ now - bucket.observed >= CleanupAfter
    THEN [tokens |-> Capacity, observed |-> now]
    ELSE [bucket EXCEPT !.tokens = Least(Capacity, @ + now - bucket.observed)]

\* The bucket as allow finds it at the present time: full if it was never used or
\* not for a long time, otherwise filled by the time elapsed.
Refilled(bucket) ==
    IF bucket.observed = Never \/ now - bucket.observed >= CleanupAfter
    THEN [tokens |-> Capacity, observed |-> now]
    ELSE IF now > bucket.observed
    THEN [tokens |-> Least(Capacity, bucket.tokens + now - bucket.observed), observed |-> now]
    ELSE bucket

\* A refusal that throws away the part of a token already collected.
AllowDiscarding(address) ==
    LET s == HelloRateGateHash(address)
        bucket == Refilled(buckets[s])
        admitted == bucket.tokens >= Second IN
    /\ buckets' = [buckets EXCEPT ![s] =
                      [bucket EXCEPT !.tokens = IF admitted THEN @ - Second ELSE 0]]
    /\ window' = [window EXCEPT ![s].spent = IF admitted THEN @ + Second ELSE @]
    /\ UNCHANGED now

\* allow: take a token if there is one.
Allow(address) ==
    LET s == HelloRateGateHash(address)
        bucket == Refilled(buckets[s])
        admitted == bucket.tokens >= Second IN
    /\ buckets' = [buckets EXCEPT ![s] =
                      [bucket EXCEPT !.tokens = IF admitted THEN @ - Second ELSE @]]
    /\ window' = [window EXCEPT ![s].spent = IF admitted THEN @ + Second ELSE @]
    /\ UNCHANGED now

Tick(t) ==
    /\ now < t
    /\ now' = t
    /\ UNCHANGED <<buckets, window>>

\* An observer of one slot starts to count anew.
Observe(s) ==
    /\ window' = [window EXCEPT ![s] = [since |-> now, spent |-> 0]]
    /\ UNCHANGED <<now, buckets>>

Next ==
    \/ \E a \in Addresses : Allow(a)
    \/ \E t \in 1..MaxTime : Tick(t)
    \/ \E s \in Slots : Observe(s)

Spec == Init /\ [][Next]_vars

-----------------------------------------------------------------------------
(* Every level stays between empty and full, and no bucket comes from the  *)
(* future.                                                                 *)
TypeOK ==
    /\ now \in Nat
    /\ buckets \in [Slots -> [tokens : 0..Capacity, observed : Int]]
    /\ window \in [Slots -> [since : Nat, spent : Nat]]
    /\ \A s \in Slots :
         /\ buckets[s].observed = Never \/ buckets[s].observed \in 0..now
         /\ window[s].since <= now

(* The promise of the limiter (limiter_test.go:9-25): in every stretch of  *)
(* time, whenever it starts, a slot admits at most a burst and one HELLO   *)
(* per second that has passed.  Forgetting a bucket after CleanupAfter     *)
(* never gives a slot more than that.                                      *)
RateBound ==
    \A s \in Slots : window[s].spent <= Capacity + (now - window[s].since)

(* Why: what has been spent, together with what the bucket would now yield,*)
(* never exceeds a burst and the time passed.                              *)
SpendingBound ==
    \A s \in Slots :
        window[s].spent + Refilled(buckets[s]).tokens <= Capacity + (now - window[s].since)

(* Conversely no token is lost: over every stretch of time, what a slot    *)
(* has spent and what it would now yield make up the time passed, as far   *)
(* as a full bucket.  So a HELLO is refused only if the hosts of its slot  *)
(* were admitted faster than one per second; refusals cost them nothing.   *)
NoTokenLost ==
    \A s \in Slots :
        window[s].spent + Refilled(buckets[s]).tokens
            >= Least(Capacity, now - window[s].since)
=============================================================================
