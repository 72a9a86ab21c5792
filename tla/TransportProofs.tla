-------------------------- MODULE TransportProofs ---------------------------
(***************************************************************************)
(* Theorems about the peer registry and the goroutines around it, for any  *)
(* sets of peers and identities, any upstream file, any limits and any     *)
(* times.                                                                  *)
(***************************************************************************)
EXTENDS Transport, FiniteSetTheorems, TLAPS

USE RegistryAssumption, TransportAssumption

-----------------------------------------------------------------------------
(* The goroutines. *)

LoopLabels == {"idle", "upstream", "upstreamUpdate", "ok", "success", "hello", "authenticate",
               "update"}
AnnouncerLabels == {"wait", "register", "record", "write"}

\* What a goroutine works on, and since when: it is never late by more than MaxDelay.
ShapeInvariant ==
    /\ targets \in Configurations
    /\ now \in Nat
    /\ due \in Nat /\ due <= now + Interval
    /\ loop = [pc |-> loop.pc, d |-> loop.d, t |-> loop.t]
    /\ loop.pc \in LoopLabels
    /\ loop.t \in Nat /\ loop.t <= now
    /\ loop.pc # "idle" => now <= loop.t + MaxDelay
    /\ announcer = [pc |-> announcer.pc, at |-> announcer.at, t |-> announcer.t]
    /\ announcer.pc \in AnnouncerLabels
    /\ announcer.t \in Nat /\ announcer.t <= now
    /\ announcer.pc # "wait" => /\ announcer.at \in 1..Len(targets)
                                /\ now <= announcer.t + MaxDelay

(* What a tick of the clock does to a bound. *)
LEMMA OneTickLater ==
    ASSUME NEW a \in Nat, NEW b \in Nat, NEW d \in Nat
    PROVE  /\ a <= b + d => a <= b + 1 + d
           /\ a <= b => a <= b + 1
           /\ b < a + d => b + 1 <= a + d
    OBVIOUS

(* Each goroutine goes from label to label with what it works on. *)
LEMMA ShapeStep ==
    ASSUME ShapeInvariant, [Next]_vars
    PROVE  ShapeInvariant'
  <1>0. Len(targets) \in Nat \ {0}
    BY DEF ShapeInvariant
  <1> USE DEF ShapeInvariant, LoopLabels, AnnouncerLabels
  <1>1. CASE UNCHANGED vars
    BY <1>1 DEF vars
  \* A step that leaves the clock and the announcer alone.
  <1>l. ASSUME UNCHANGED <<targets, now, due, announcer>>,
               loop' = [pc |-> loop'.pc, d |-> loop'.d, t |-> loop'.t],
               loop'.pc \in LoopLabels, loop'.t \in Nat, loop'.t <= now,
               loop'.pc # "idle" => now <= loop'.t + MaxDelay
        PROVE  ShapeInvariant'
    BY <1>l
  <1>i. Idle = [pc |-> Idle.pc, d |-> Idle.d, t |-> Idle.t] /\ Idle.pc = "idle" /\ Idle.t = 0
    BY DEF Idle
  \* The loop goes on with the same datagram.
  <1>g. ASSUME UNCHANGED <<targets, now, due, announcer>>, loop.pc # "idle",
               NEW pc \in LoopLabels \ {"idle"},
               loop' = [loop EXCEPT !.pc = pc] \/ loop' = Idle
        PROVE  ShapeInvariant'
    <2>1. CASE loop' = Idle
      BY <1>g, <1>i, <1>l, <2>1
    <2>2. CASE loop' = [loop EXCEPT !.pc = pc]
      <3>1. loop' = [pc |-> pc, d |-> loop.d, t |-> loop.t]
        BY <2>2
      <3>2. loop'.pc = pc /\ loop'.d = loop.d /\ loop'.t = loop.t
        BY <3>1
      <3> QED  BY <1>g, <1>l, <3>1, <3>2
    <2> QED  BY <1>g, <2>1, <2>2
  \* The announcer goes on, or stops.
  <1>a. ASSUME UNCHANGED <<targets, now, loop>>, due' \in Nat, due' <= now + Interval,
               announcer' = [pc |-> announcer'.pc, at |-> announcer'.at, t |-> announcer'.t],
               announcer'.pc \in AnnouncerLabels, announcer'.t \in Nat, announcer'.t <= now,
               announcer'.pc # "wait" => /\ announcer'.at \in 1..Len(targets)
                                         /\ now <= announcer'.t + MaxDelay
        PROVE  ShapeInvariant'
    BY <1>a
  <1>2. CASE AnnounceStart
    <2>1. announcer' = [pc |-> "register", at |-> 1, t |-> now]
      BY <1>2 DEF AnnounceStart
    <2>2. announcer'.pc = "register" /\ announcer'.at = 1 /\ announcer'.t = now
      BY <2>1
    <2>3. UNCHANGED <<targets, now, loop>> /\ due' = due + Interval /\ now >= due
      BY <1>2 DEF AnnounceStart, AnnouncerOnly
    <2> QED  BY <1>0, <1>a, <2>1, <2>2, <2>3
  <1>3. ASSUME announcer.pc # "wait", NEW pc \in AnnouncerLabels,
               announcer' = [announcer EXCEPT !.pc = pc], UNCHANGED <<targets, now, loop>>,
               due' = due \/ due' = now + Interval
        PROVE  ShapeInvariant'
    <2>1. announcer' = [pc |-> pc, at |-> announcer.at, t |-> announcer.t]
      BY <1>3
    <2>2. announcer'.pc = pc /\ announcer'.at = announcer.at /\ announcer'.t = announcer.t
      BY <2>1
    <2> QED  BY <1>3, <1>a, <2>1, <2>2
  <1>4. CASE AnnounceRegister
    BY <1>3, <1>4 DEF AnnounceRegister, Announcing, AnnouncerOnly
  <1>5. CASE AnnounceRecord
    BY <1>3, <1>5 DEF AnnounceRecord, Announcing
  <1>6. CASE AnnounceWrite
    <2>1. announcer.pc = "write" /\ UNCHANGED <<targets, now, loop>>
      BY <1>6 DEF AnnounceWrite, Announcing, AnnouncerOnly
    <2>2. CASE announcer.at < Len(targets)
      <3>1. /\ announcer' = [pc |-> "register", at |-> announcer.at + 1, t |-> announcer.t]
            /\ due' = due
        BY <1>6, <2>2 DEF AnnounceWrite
      <3>2. announcer'.pc = "register" /\ announcer'.at = announcer.at + 1
            /\ announcer'.t = announcer.t
        BY <3>1
      <3>3. announcer'.at \in 1..Len(targets)
        BY <1>0, <2>1, <2>2, <3>2
      <3> QED  BY <1>a, <2>1, <3>1, <3>2, <3>3
    <2>3. CASE ~ (announcer.at < Len(targets))
      BY <1>3, <1>6, <2>1, <2>3 DEF AnnounceWrite
    <2> QED  BY <2>2, <2>3
  <1>7. CASE StopProcess
    BY <1>7 DEF StopProcess
  <1>8. ASSUME NEW d \in Datagrams, Receive(d)
        PROVE  ShapeInvariant'
    <2>1. PICK pc \in {"upstream", "hello", "authenticate"} :
                 loop' = [pc |-> pc, d |-> d, t |-> now]
      BY <1>8 DEF Receive
    <2>2. loop'.pc = pc /\ loop'.d = d /\ loop'.t = now
      BY <2>1
    <2> QED  BY <1>8, <1>l, <2>1, <2>2 DEF Receive, LoopOnly
  <1>9. CASE AuthenticateRead
    <2>1. \E pc \in {"upstreamUpdate", "update"} : loop' = [loop EXCEPT !.pc = pc] \/ loop' = Idle
      BY <1>9 DEF AuthenticateRead
    <2> QED  BY <1>9, <1>g, <2>1 DEF AuthenticateRead, Handling, LoopOnly
  <1>10. CASE AuthenticateUpdate
    <2>1. \E pc \in {"ok", "hello", "authenticate"} :
             loop' = [loop EXCEPT !.pc = pc] \/ loop' = Idle
      BY <1>10 DEF AuthenticateUpdate
    <2> QED  BY <1>10, <1>g, <2>1 DEF AuthenticateUpdate, Handling, LoopOnly
  <1>11. CASE LearnHello
    BY <1>11, <1>g DEF LearnHello, Handling, LoopOnly
  <1>12. CASE HandleOk
    BY <1>12, <1>g DEF HandleOk, Handling, LoopOnly
  <1>13. CASE RecordSuccess
    BY <1>13, <1>g DEF RecordSuccess, Handling, LoopOnly
  <1>14. CASE PruneTick
    BY <1>14 DEF PruneTick
  <1>15. CASE Tick
    <2>1. /\ UNCHANGED <<targets, loop, announcer, due>> /\ now' = now + 1
          /\ loop.pc # "idle" => now < loop.t + MaxDelay
          /\ announcer.pc # "wait" => now < announcer.t + MaxDelay
      BY <1>15 DEF Tick
    <2>2. /\ now' \in Nat /\ due <= now' + Interval
          /\ loop.t <= now' /\ (loop.pc # "idle" => now' <= loop.t + MaxDelay)
          /\ announcer.t <= now' /\ (announcer.pc # "wait" => now' <= announcer.t + MaxDelay)
      <3> HIDE DEF LoopLabels, AnnouncerLabels
      <3>1. /\ now \in Nat /\ loop.t \in Nat /\ announcer.t \in Nat /\ due \in Nat
            /\ Interval \in Nat /\ MaxDelay \in Nat
            /\ due <= now + Interval /\ loop.t <= now /\ announcer.t <= now
        OBVIOUS
      <3> HIDE DEF ShapeInvariant
      <3>2. now + 1 \in Nat /\ due <= now + 1 + Interval
        BY <3>1, OneTickLater
      <3>3. loop.t <= now + 1 /\ (loop.pc # "idle" => now + 1 <= loop.t + MaxDelay)
        BY <2>1, <3>1, OneTickLater
      <3>4. announcer.t <= now + 1 /\ (announcer.pc # "wait" => now + 1 <= announcer.t + MaxDelay)
        BY <2>1, <3>1, OneTickLater
      <3> QED  BY <2>1, <3>2, <3>3, <3>4
    <2> QED  BY <2>1, <2>2
  <1> QED  BY <1>1, <1>2, <1>4, <1>5, <1>6, <1>7, <1>8, <1>9, <1>10, <1>11, <1>12, <1>13, <1>14,
              <1>15 DEF Next, AnnounceCollision, AnnounceFails, ServeFails

(* The shape holds in every reachable state. *)
LEMMA ShapeHolds == Spec => []ShapeInvariant
  <1>1. Init => ShapeInvariant
    BY DEF Init, Idle, ShapeInvariant, LoopLabels, AnnouncerLabels
  <1>2. ShapeInvariant /\ [Next]_vars => ShapeInvariant'
    BY ShapeStep
  <1> QED  BY <1>1, <1>2, PTL DEF Spec
-----------------------------------------------------------------------------
(* What a step does to the sessions. *)

Kept(m) == m \in DOMAIN sessions /\ m \in DOMAIN sessions' /\ sessions'[m] = sessions[m]

\* A pruning at time t drops the session.
Lapsed(m, t) == ~ sessions[m].configured /\ ~ (t - sessions[m].lastSeen < SessionIdleTTL)

\* Sessions that have lapsed at time t are dropped, n may get the session s, and the
\* others are kept.
Changes(n, s, t) ==
    /\ \A m \in DOMAIN sessions \ DOMAIN sessions' : Lapsed(m, t)
    /\ \A m \in DOMAIN sessions' : Kept(m) \/ (m = n /\ sessions'[m] = s)
    /\ n \in DOMAIN sessions \cap DOMAIN sessions' =>
          Kept(n) \/ sessions[n].identity = s.identity \/ Lapsed(n, t)

Configures ==
    LET target == Target(announcer.at)  n == NodeOf[target[1]]
        s == Session(target[1], target[2], announcer.t, TRUE) IN
    /\ announcer.pc = "register" /\ heard' = heard
    /\ DOMAIN sessions' = DOMAIN sessions \cup {n} /\ sessions'[n] = s
    /\ Changes(n, s, 0)

Refreshes ==
    LET d == loop.d  n == NodeOf[d.from]
        s == Session(d.from, d.endpoint, loop.t, sessions[n].configured) IN
    /\ loop.pc # "idle" /\ LoopOnly
    /\ DOMAIN sessions' = DOMAIN sessions /\ n \in DOMAIN sessions /\ sessions'[n] = s
    /\ heard' = Store(heard, n, loop.t)
    /\ Changes(n, s, 0)

Learns ==
    LET d == loop.d  n == NodeOf[d.from]
        s == Session(d.from, d.endpoint, loop.t, FALSE) IN
    /\ loop.pc # "idle" /\ LoopOnly
    /\ Changes(n, s, loop.t)
    /\ n \in DOMAIN sessions' \ DOMAIN sessions =>
          ~ (Cardinality(DOMAIN sessions' \ {n}) >= MaxRegistrySessions)
    /\ \/ n \in DOMAIN sessions' /\ sessions'[n] = s /\ heard' = Store(heard, n, loop.t)
       \/ (n \in DOMAIN sessions' => Kept(n)) /\ heard' = heard

Prunes ==
    /\ heard' = heard
    /\ \A m \in DOMAIN sessions \ DOMAIN sessions' : Lapsed(m, now)
    /\ \A m \in DOMAIN sessions' : Kept(m)

(* Storing a session in a table that has none of another identity. *)
LEMMA StoreChanges ==
    ASSUME NEW n, NEW s, sessions' = Store(sessions, n, s),
           n \in DOMAIN sessions => sessions[n].identity = s.identity
    PROVE  /\ Changes(n, s, 0)
           /\ DOMAIN sessions' = DOMAIN sessions \cup {n} /\ sessions'[n] = s
    BY DEF Store, Changes, Kept

(* Pruning keeps what has not lapsed. *)
LEMMA PrunedSessions ==
    ASSUME NEW t
    PROVE  /\ DOMAIN Pruned(t) \subseteq DOMAIN sessions
           /\ \A m \in DOMAIN Pruned(t) : Pruned(t)[m] = sessions[m]
           /\ \A m \in DOMAIN sessions \ DOMAIN Pruned(t) : Lapsed(m, t)
    BY DEF Pruned, Restrict, Lapsed

(* LearnValidatedHello: the pruning, the refusals and the new session. *)
LEMMA LearnEffect ==
    ASSUME NEW n, NEW i, NEW e, NEW t, LearnValidatedHello(n, i, e, t)
    PROVE  LET s == Session(i, e, t, FALSE) IN
           /\ Changes(n, s, t)
           /\ n \in DOMAIN sessions' \ DOMAIN sessions =>
                 ~ (Cardinality(DOMAIN sessions' \ {n}) >= MaxRegistrySessions)
           /\ n \in DOMAIN sessions' /\ sessions'[n].identity = i => sessions'[n] = s
           /\ n \in DOMAIN sessions' /\ sessions'[n].identity # i => Kept(n)
  <1> DEFINE s == Session(i, e, t, FALSE)
             table == IF PruneDue(t) THEN Pruned(t) ELSE sessions
             refused == \/ Collides(table, n, i)
                        \/ n \notin DOMAIN table /\ Cardinality(DOMAIN table) >= MaxRegistrySessions
  <1>1. /\ DOMAIN table \subseteq DOMAIN sessions
        /\ \A m \in DOMAIN table : table[m] = sessions[m]
        /\ \A m \in DOMAIN sessions \ DOMAIN table : Lapsed(m, t)
    <2>1. CASE PruneDue(t)
      BY <2>1, PrunedSessions
    <2>2. CASE ~ PruneDue(t)
      BY <2>2
    <2> QED  BY <2>1, <2>2
  <1>2. sessions' = IF refused THEN table ELSE Store(table, n, s)
    BY DEF LearnValidatedHello
  <1>3. s.identity = i
    BY DEF Session
  <1> HIDE DEF s, table
  <1>4. CASE refused
    <2>1. sessions' = table /\ (n \in DOMAIN table => table[n].identity # i)
      BY <1>2, <1>4 DEF Collides
    <2>2. Changes(n, s, t)
      BY <1>1, <2>1 DEF Changes, Kept
    <2> QED  BY <1>1, <2>1, <2>2 DEF Kept, s
  <1>5. CASE ~ refused
    <2>1. /\ sessions' = Store(table, n, s)
          /\ n \in DOMAIN table => table[n].identity = i
          /\ n \notin DOMAIN table => ~ (Cardinality(DOMAIN table) >= MaxRegistrySessions)
      BY <1>2, <1>5 DEF Collides
    <2>2. /\ DOMAIN sessions' = DOMAIN table \cup {n} /\ sessions'[n] = s
          /\ \A m \in DOMAIN table : m # n => sessions'[m] = table[m]
      BY <2>1 DEF Store
    <2>3. Changes(n, s, t)
      BY <1>1, <1>3, <2>1, <2>2 DEF Changes, Kept
    <2>4. ASSUME n \notin DOMAIN sessions
          PROVE  ~ (Cardinality(DOMAIN sessions' \ {n}) >= MaxRegistrySessions)
      <3>1. DOMAIN sessions' \ {n} = DOMAIN table /\ n \notin DOMAIN table
        BY <1>1, <2>2, <2>4
      <3> QED  BY <2>1, <3>1
    <2> QED  BY <1>3, <2>2, <2>3, <2>4 DEF s
  <1> QED  BY <1>4, <1>5

(* Every step changes the sessions in one of four ways, or not at all. *)
LEMMA SessionStep ==
    ASSUME ShapeInvariant, Next
    PROVE  (sessions' = sessions /\ heard' = heard) \/ Configures \/ Refreshes \/ Learns \/ Prunes
  <1>1. CASE AnnounceRegister
    <2> DEFINE target == Target(announcer.at)
               n == NodeOf[target[1]]
               s == Session(target[1], target[2], announcer.t, TRUE)
    <2>1. /\ announcer.pc = "register" /\ heard' = heard
          /\ sessions' = Store(sessions, n, s)
          /\ n \in DOMAIN sessions => sessions[n].identity = target[1]
      <3>1. RegisterConfigured(n, target[1], target[2], announcer.t)
        BY <1>1 DEF AnnounceRegister
      <3>2. sessions' = Store(sessions, n, s)
        BY <3>1 DEF RegisterConfigured
      <3>3. n \in DOMAIN sessions => sessions[n].identity = target[1]
        BY <3>1 DEF RegisterConfigured, Collides
      <3> QED  BY <1>1, <3>2, <3>3 DEF AnnounceRegister, Announcing, AnnouncerOnly
    <2>2. s.identity = target[1]
      BY DEF Session
    <2> HIDE DEF s, n
    <2>3. /\ Changes(n, s, 0)
          /\ DOMAIN sessions' = DOMAIN sessions \cup {n} /\ sessions'[n] = s
      BY <2>1, <2>2, StoreChanges
    <2>4. Configures
      BY <2>1, <2>3 DEF Configures, n, s
    <2> QED  BY <2>4
  <1>2. CASE AuthenticateUpdate
    <2> DEFINE d == loop.d
               n == NodeOf[d.from]
               s == Session(d.from, d.endpoint, loop.t, sessions[n].configured)
    <2>1. CASE Authentic(n, d.from)
      <3>1. /\ loop.pc # "idle" /\ LoopOnly
            /\ n \in DOMAIN sessions /\ sessions[n].identity = d.from
            /\ sessions' = Store(sessions, n, s) /\ heard' = Store(heard, n, loop.t)
        BY <1>2, <2>1 DEF AuthenticateUpdate, Handling, Authenticated, Authentic
      <3>2. s.identity = d.from
        BY DEF Session
      <3> HIDE DEF s, n
      <3>3. /\ Changes(n, s, 0)
            /\ DOMAIN sessions' = DOMAIN sessions \cup {n} /\ sessions'[n] = s
        BY <3>1, <3>2, StoreChanges
      <3>4. DOMAIN sessions' = DOMAIN sessions
        BY <3>1, <3>3
      <3>5. Refreshes
        BY <3>1, <3>3, <3>4 DEF Refreshes, n, s
      <3> QED  BY <3>5
    <2>2. CASE ~ Authentic(n, d.from)
      BY <1>2, <2>2 DEF AuthenticateUpdate, Authenticated
    <2> QED  BY <2>1, <2>2
  <1>3. CASE LearnHello
    <2> DEFINE d == loop.d
               n == NodeOf[d.from]
               s == Session(d.from, d.endpoint, loop.t, FALSE)
    <2>1. /\ loop.pc = "hello" /\ LoopOnly /\ LearnValidatedHello(n, d.from, d.endpoint, loop.t)
          /\ heard' = IF n \in DOMAIN sessions' /\ sessions'[n].identity = d.from
                      THEN Store(heard, n, loop.t) ELSE heard
      BY <1>3 DEF LearnHello, Handling
    <2>2. /\ Changes(n, s, loop.t)
          /\ n \in DOMAIN sessions' \ DOMAIN sessions =>
                ~ (Cardinality(DOMAIN sessions' \ {n}) >= MaxRegistrySessions)
          /\ n \in DOMAIN sessions' /\ sessions'[n].identity = d.from => sessions'[n] = s
          /\ n \in DOMAIN sessions' /\ sessions'[n].identity # d.from => Kept(n)
      BY <2>1, LearnEffect
    <2> HIDE DEF s, n
    <2>3. \/ n \in DOMAIN sessions' /\ sessions'[n] = s /\ heard' = Store(heard, n, loop.t)
          \/ (n \in DOMAIN sessions' => Kept(n)) /\ heard' = heard
      BY <2>1, <2>2
    <2>4. Learns
      BY <2>1, <2>2, <2>3 DEF Learns, n, s
    <2> QED  BY <2>4
  <1>4. CASE PruneTick
    <2>1. sessions' = Pruned(now) /\ heard' = heard
      BY <1>4 DEF PruneTick, Prune
    <2>2. Prunes
      BY <2>1, PrunedSessions DEF Prunes, Kept
    <2> QED  BY <2>2
  <1> QED  BY <1>1, <1>2, <1>3, <1>4
           DEF Next, AnnounceStart, AnnounceCollision, AnnounceRecord, AnnounceWrite,
               AnnounceFails, StopProcess, AnnouncerOnly, registry, Receive, AuthenticateRead,
               HandleOk, RecordSuccess, ServeFails, LoopOnly, Tick

-----------------------------------------------------------------------------
(* Identities, endpoints and idle sessions. *)

\* A learned session was last seen when the peer was last heard.
SeenInvariant ==
    \A n \in DOMAIN sessions :
        /\ sessions[n].lastSeen \in Nat
        /\ ~ sessions[n].configured => n \in DOMAIN heard /\ heard[n] = sessions[n].lastSeen

(* Every step that refreshes a session is one that hears its peer. *)
LEMMA SeenStep ==
    ASSUME ShapeInvariant, SeenInvariant, [Next]_vars
    PROVE  SeenInvariant'
  <1> DEFINE d == loop.d
             Seen(m) == /\ sessions'[m].lastSeen \in Nat
                        /\ ~ sessions'[m].configured =>
                              m \in DOMAIN heard' /\ heard'[m] = sessions'[m].lastSeen
  <1>0. announcer.t \in Nat /\ loop.t \in Nat
    BY DEF ShapeInvariant
  <1>1. CASE sessions' = sessions /\ heard' = heard
    BY <1>1 DEF SeenInvariant
  <1>s. SUFFICES ASSUME NEW m \in DOMAIN sessions', Next, ~ (sessions' = sessions /\ heard' = heard)
                 PROVE  Seen(m)
    BY <1>1 DEF SeenInvariant, vars
  <1>k. ASSUME Kept(m), heard' = heard \/ \E n, t : n # m /\ heard' = Store(heard, n, t)
        PROVE  Seen(m)
    BY <1>k DEF Kept, SeenInvariant, Store
  <1>n. ASSUME NEW i, NEW e, NEW t \in Nat, NEW c, sessions'[m] = Session(i, e, t, c),
               ~ c => heard' = Store(heard, m, t)
        PROVE  Seen(m)
    BY <1>n DEF Session, Store
  <1> HIDE DEF Seen
  <1>2. CASE Configures
    <2>1. CASE Kept(m)
      BY <1>2, <1>k, <2>1 DEF Configures
    <2>2. CASE sessions'[m] = Session(Target(announcer.at)[1], Target(announcer.at)[2],
                                      announcer.t, TRUE)
      BY <1>0, <2>2 DEF Seen, Session
    <2> QED  BY <1>2, <1>s, <2>1, <2>2 DEF Configures, Changes
  <1>3. ASSUME NEW n, NEW c, heard' = Store(heard, n, loop.t), n \in DOMAIN sessions',
               sessions'[n] = Session(d.from, d.endpoint, loop.t, c), m # n => Kept(m)
        PROVE  Seen(m)
    <2>1. CASE m = n
      BY <1>0, <1>3, <1>n, <2>1
    <2>2. CASE m # n
      BY <1>3, <1>k, <2>2
    <2> QED  BY <2>1, <2>2
  <1>4. CASE Refreshes
    <2> DEFINE n == NodeOf[d.from]
               c == sessions[n].configured
    <2>1. /\ heard' = Store(heard, n, loop.t) /\ n \in DOMAIN sessions'
          /\ sessions'[n] = Session(d.from, d.endpoint, loop.t, c) /\ (m # n => Kept(m))
      BY <1>4, <1>s DEF Refreshes, Changes
    <2> HIDE DEF n, c
    <2> QED  BY <1>3, <2>1
  <1>5. CASE Learns
    <2> DEFINE n == NodeOf[d.from]
    <2>1. m # n => Kept(m)
      BY <1>5, <1>s DEF Learns, Changes
    <2>2. CASE /\ heard' = Store(heard, n, loop.t) /\ n \in DOMAIN sessions'
               /\ sessions'[n] = Session(d.from, d.endpoint, loop.t, FALSE)
      <3>1. CASE m = n
        BY <1>0, <2>2, <3>1 DEF Seen, Session, Store
      <3>2. CASE m # n
        <4> HIDE DEF n
        <4> QED  BY <1>k, <2>1, <2>2, <3>2
      <3> QED  BY <3>1, <3>2
    <2>3. CASE heard' = heard /\ (n \in DOMAIN sessions' => Kept(n))
      BY <1>k, <1>s, <2>1, <2>3
    <2> QED  BY <1>5, <2>2, <2>3 DEF Learns
  <1>6. CASE Prunes
    BY <1>6, <1>k, <1>s DEF Prunes
  <1> QED  BY <1>2, <1>4, <1>5, <1>6, <1>s, SessionStep

(* It holds in every reachable state. *)
LEMMA SeenHolds == Spec => []SeenInvariant
  <1>1. Init => SeenInvariant
    BY DEF Init, RegistryInit, SeenInvariant
  <1>2. ShapeInvariant /\ SeenInvariant /\ [Next]_vars => SeenInvariant'
    BY SeenStep
  <1> QED  BY <1>1, <1>2, ShapeHolds, PTL DEF Spec

(* A session that a step takes as lapsed has been idle for the TTL: the    *)
(* time the step uses is not after the clock.                              *)
LEMMA LapsedIsIdle ==
    ASSUME ShapeInvariant, SeenInvariant, NEW m \in DOMAIN sessions, NEW t \in {0, loop.t, now},
           Lapsed(m, t)
    PROVE  ~ sessions[m].configured /\ now - sessions[m].lastSeen >= SessionIdleTTL
  <1>1. t \in Nat /\ now \in Nat /\ t <= now /\ sessions[m].lastSeen \in Nat
    BY DEF ShapeInvariant, SeenInvariant
  <1> QED  BY <1>1 DEF Lapsed

(* While the session of a node ID lives, nobody else with the same ID gets *)
(* it; a HELLO of another identity is accepted only if the session had     *)
(* been idle for the whole of sessionIdleTTL and was not a configured one. *)
THEOREM IdentityKept == Spec => IdentityPinned
  <1> DEFINE Pinned == \A n \in DOMAIN sessions \cap DOMAIN sessions' :
                          sessions'[n].identity # sessions[n].identity =>
                              ~ sessions[n].configured /\ now - sessions[n].lastSeen >= SessionIdleTTL
  <1>1. ShapeInvariant /\ SeenInvariant /\ [Next]_vars => [Pinned]_vars
    <2>0. SUFFICES ASSUME ShapeInvariant, SeenInvariant, Next,
                          NEW n \in DOMAIN sessions \cap DOMAIN sessions',
                          sessions'[n].identity # sessions[n].identity
                   PROVE  \E t \in {0, loop.t, now} : Lapsed(n, t)
      BY LapsedIsIdle
    <2>1. ~ Kept(n)
      BY <2>0 DEF Kept
    <2>2. ASSUME NEW x, NEW s, NEW t, Changes(x, s, t)
          PROVE  Lapsed(n, t)
      BY <2>0, <2>1, <2>2 DEF Changes
    <2>3. CASE Prunes
      BY <2>0, <2>1, <2>3 DEF Prunes
    <2>4. sessions' # sessions
      BY <2>0
    <2>5. CASE Configures
      BY <2>2, <2>5 DEF Configures
    <2>6. CASE Refreshes
      BY <2>2, <2>6 DEF Refreshes
    <2>7. CASE Learns
      <3>1. Changes(NodeOf[loop.d.from], Session(loop.d.from, loop.d.endpoint, loop.t, FALSE),
                    loop.t)
        BY <2>7 DEF Learns
      <3> QED  BY <2>2, <3>1
    <2> QED  BY <2>0, <2>3, <2>4, <2>5, <2>6, <2>7, SessionStep
  <1> QED  BY <1>1, ShapeHolds, SeenHolds, PTL DEF Spec, IdentityPinned

(* No session is dropped while its peer is heard, also when the ticker     *)
(* prunes between the two critical sections of Authenticate or an upstream *)
(* is registered anew with an older time.                                  *)
THEOREM ActiveKept == Spec => ActiveNotEvicted
  <1> DEFINE Active == \A n \in DOMAIN sessions \ DOMAIN sessions' :
                          n \in DOMAIN heard => now - heard[n] >= SessionIdleTTL
  <1>1. ShapeInvariant /\ SeenInvariant /\ [Next]_vars => [Active]_vars
    <2>0. SUFFICES ASSUME ShapeInvariant, SeenInvariant, Next,
                          NEW n \in DOMAIN sessions \ DOMAIN sessions'
                   PROVE  \E t \in {0, loop.t, now} : Lapsed(n, t)
      BY LapsedIsIdle DEF SeenInvariant
    <2> QED  BY <2>0, SessionStep DEF Configures, Refreshes, Learns, Prunes, Changes
  <1> QED  BY <1>1, ShapeHolds, SeenHolds, PTL DEF Spec, ActiveNotEvicted

(* Whatever the network carries from wherever, a session is created, moved *)
(* or kept alive only by a packet of its own identity, to the endpoint the *)
(* packet came from, or by an announcement to the endpoint configured for  *)
(* it: another node with the same ID cannot divert what is sent to a peer. *)
THEOREM EndpointsAuthentic == Spec => EndpointAuthenticated
  <1> DEFINE Own(n) ==
               \/ n \in DOMAIN sessions /\ sessions'[n] = sessions[n]
               \/ /\ loop.pc # "idle"
                  /\ sessions'[n].identity = loop.d.from /\ sessions'[n].endpoint = loop.d.endpoint
               \/ /\ announcer.pc = "register"
                  /\ sessions'[n].identity = Target(announcer.at)[1]
                  /\ sessions'[n].endpoint = Target(announcer.at)[2]
  <1>1. ShapeInvariant /\ [Next]_vars => [\A n \in DOMAIN sessions' : Own(n)]_vars
    <2>0. SUFFICES ASSUME ShapeInvariant, Next, NEW n \in DOMAIN sessions'
                   PROVE  Own(n)
      OBVIOUS
    <2>1. CASE sessions' = sessions \/ Prunes
      BY <2>0, <2>1 DEF Prunes, Kept
    <2>2. CASE Configures
      <3>1. \/ Kept(n)
            \/ sessions'[n] = Session(Target(announcer.at)[1], Target(announcer.at)[2],
                                      announcer.t, TRUE)
        BY <2>0, <2>2 DEF Configures, Changes
      <3> QED  BY <2>2, <3>1 DEF Configures, Kept, Session
    <2>3. ASSUME loop.pc # "idle", NEW c,
                 Kept(n) \/ sessions'[n] = Session(loop.d.from, loop.d.endpoint, loop.t, c)
          PROVE  Own(n)
      BY <2>3 DEF Kept, Session
    <2>4. CASE Refreshes
      <3> DEFINE c == sessions[NodeOf[loop.d.from]].configured
      <3>1. Kept(n) \/ sessions'[n] = Session(loop.d.from, loop.d.endpoint, loop.t, c)
        BY <2>0, <2>4 DEF Refreshes, Changes
      <3> HIDE DEF c, Own
      <3> QED  BY <2>3, <2>4, <3>1 DEF Refreshes
    <2>5. CASE Learns
      <3> DEFINE c == FALSE
      <3>1. Kept(n) \/ sessions'[n] = Session(loop.d.from, loop.d.endpoint, loop.t, c)
        BY <2>0, <2>5 DEF Learns, Changes
      <3> HIDE DEF c, Own
      <3> QED  BY <2>3, <2>5, <3>1 DEF Learns
    <2> QED  BY <2>0, <2>1, <2>2, <2>4, <2>5, SessionStep
  <1> QED  BY <1>1, ShapeHolds, PTL DEF Spec, EndpointAuthenticated

-----------------------------------------------------------------------------
(* The limit of the registry. *)

\* Upstreams apart, the limit holds; and the registry is finite.
BoundedInvariant == IsFiniteSet(DOMAIN sessions) /\ SessionsBounded

(* A peer is added only below the limit, or is an upstream. *)
LEMMA BoundedStep ==
    ASSUME ShapeInvariant, BoundedInvariant, [Next]_vars
    PROVE  BoundedInvariant'
  <1> DEFINE old == DOMAIN sessions
             new == DOMAIN sessions'
  <1>0. IsFiniteSet(old) /\ Cardinality(old \ Upstreams) <= MaxRegistrySessions
    BY DEF BoundedInvariant, SessionsBounded
  <1>1. SUFFICES IsFiniteSet(new) /\ Cardinality(new \ Upstreams) <= MaxRegistrySessions
    BY DEF BoundedInvariant, SessionsBounded
  \* Nobody new outside the upstreams.
  <1>2. ASSUME NEW n \in Upstreams, new \subseteq old \cup {n}
        PROVE  IsFiniteSet(new) /\ Cardinality(new \ Upstreams) <= MaxRegistrySessions
    <2>1. IsFiniteSet(old \cup {n})
      BY <1>0, FS_AddElement
    <2>2. IsFiniteSet(new) /\ new \ Upstreams \subseteq old \ Upstreams
      BY <1>2, <2>1, FS_Subset
    <2>3. IsFiniteSet(old \ Upstreams)
      BY <1>0, FS_Subset
    <2>4. /\ Cardinality(new \ Upstreams) <= Cardinality(old \ Upstreams)
          /\ Cardinality(new \ Upstreams) \in Nat /\ Cardinality(old \ Upstreams) \in Nat
      BY <2>2, <2>3, FS_Subset, FS_CardinalityType
    <2> QED  BY <1>0, <2>2, <2>4
  <1>3. ASSUME new \subseteq old
        PROVE  IsFiniteSet(new) /\ Cardinality(new \ Upstreams) <= MaxRegistrySessions
    <2>1. IsFiniteSet(new) /\ new \ Upstreams \subseteq old \ Upstreams
      BY <1>0, <1>3, FS_Subset
    <2>2. IsFiniteSet(old \ Upstreams)
      BY <1>0, FS_Subset
    <2>3. /\ Cardinality(new \ Upstreams) <= Cardinality(old \ Upstreams)
          /\ Cardinality(new \ Upstreams) \in Nat /\ Cardinality(old \ Upstreams) \in Nat
      BY <2>1, <2>2, FS_Subset, FS_CardinalityType
    <2> QED  BY <1>0, <2>1, <2>3
  <1>4. CASE sessions' = sessions
    BY <1>3, <1>4
  <1>5. CASE Configures
    <2>1. announcer.at \in 1..Len(targets) /\ targets \in Configurations
      BY <1>5 DEF ShapeInvariant, Configures
    <2>2. NodeOf[Target(announcer.at)[1]] \in Upstreams
      BY <2>1 DEF Target
    <2> QED  BY <1>2, <1>5, <2>2 DEF Configures
  <1>6. CASE Refreshes
    BY <1>3, <1>6 DEF Refreshes
  <1>7. CASE Learns
    <2> DEFINE n == NodeOf[loop.d.from]
    <2>1. \A m \in new : m \in old \/ m = n
      BY <1>7 DEF Learns, Changes, Kept
    <2>2. CASE n \in new => n \in old
      BY <1>3, <2>1, <2>2
    <2>3. CASE n \in new /\ n \notin old
      <3>1. ~ (Cardinality(new \ {n}) >= MaxRegistrySessions)
        BY <1>7, <2>3 DEF Learns
      <3>2. IsFiniteSet(new \ {n})
        <4>1. new \ {n} \subseteq old
          BY <2>1
        <4> QED  BY <1>0, <4>1, FS_Subset
      <3>3. IsFiniteSet(new) /\ Cardinality(new) = Cardinality(new \ {n}) + 1
        <4> DEFINE S == new \ {n}
        <4>1. n \notin S /\ new = S \cup {n}
          BY <2>3
        <4> HIDE DEF S
        <4>2. IsFiniteSet(S)
          BY <3>2 DEF S
        <4>3. IsFiniteSet(S \cup {n}) /\ Cardinality(S \cup {n}) = Cardinality(S) + 1
          BY <4>1, <4>2, FS_AddElement
        <4> QED  BY <4>1, <4>3 DEF S
      <3>4. Cardinality(new \ {n}) \in Nat /\ Cardinality(new) <= MaxRegistrySessions
        BY <3>1, <3>2, <3>3, FS_CardinalityType
      <3>5. /\ Cardinality(new \ Upstreams) <= Cardinality(new)
            /\ Cardinality(new \ Upstreams) \in Nat /\ Cardinality(new) \in Nat
        BY <3>3, FS_Subset, FS_CardinalityType
      <3> QED  BY <3>3, <3>4, <3>5
    <2> QED  BY <2>2, <2>3
  <1>8. CASE Prunes
    BY <1>3, <1>8 DEF Prunes, Kept
  <1> QED  BY <1>4, <1>5, <1>6, <1>7, <1>8, SessionStep DEF vars

(* However HELLOs, prunings and announcements interleave, learned sessions *)
(* never exceed maxRegistrySessions; only the sessions of upstreams come   *)
(* on top.                                                                 *)
THEOREM RegistryBounded == Spec => []SessionsBounded
  <1>1. Init => BoundedInvariant
    <2>1. SUFFICES ASSUME Init PROVE BoundedInvariant
      OBVIOUS
    <2>2. DOMAIN sessions = {} /\ DOMAIN sessions \ Upstreams = {}
      BY <2>1 DEF Init, RegistryInit
    <2> QED  BY <2>2, FS_EmptySet DEF BoundedInvariant, SessionsBounded
  <1>2. ShapeInvariant /\ BoundedInvariant /\ [Next]_vars => BoundedInvariant'
    BY BoundedStep
  <1>3. BoundedInvariant => SessionsBounded
    BY DEF BoundedInvariant
  <1> QED  BY <1>1, <1>2, <1>3, ShapeHolds, PTL DEF Spec

-----------------------------------------------------------------------------
(* Announcements and their answers. *)

Sent == [target : Nat \ {0}, timestamp : Nat]

\* A HELLO OK comes from the node and the endpoint the HELLO went to, with its time.
Answers(d, hello) ==
    /\ NodeOf[Target(hello.target)[1]] = NodeOf[d.from] /\ Target(hello.target)[2] = d.endpoint
    /\ hello.timestamp = d.timestamp

\* Packet IDs are the places in the sequence of HELLOs; a pending one is unanswered,
\* and so is one whose answer was matched until the success is recorded.
AnswerInvariant ==
    /\ hellos \in Seq(Sent)
    /\ successes \in Seq({0, 1}) /\ Len(successes) = Len(hellos)
    /\ \A x \in DOMAIN pending :
          /\ x \in 1..Len(hellos) /\ successes[x] = 0
          /\ pending[x].target = hellos[x].target /\ pending[x].timestamp = hellos[x].timestamp
          /\ ~ (loop.pc = "success" /\ loop.d.id = x)
    /\ loop.pc = "success" =>
          /\ loop.d.id \in 1..Len(hellos) /\ successes[loop.d.id] = 0
          /\ Answers(loop.d, hellos[loop.d.id])

(* A HELLO OK takes the pending entry under the lock, so that a repeated   *)
(* answer that comes before the success is recorded finds none.            *)
LEMMA AnswerStep ==
    ASSUME ShapeInvariant, AnswerInvariant, [Next]_vars
    PROVE  AnswerInvariant'
  <1>0. Idle.pc = "idle"
    BY DEF Idle
  \* The loop takes a step in which nothing is matched or recorded.
  <1>l. ASSUME UNCHANGED <<targets, hellos, successes, pending>>,
               loop'.pc # "success" \/ loop' = loop
        PROVE  AnswerInvariant'
    BY <1>l DEF AnswerInvariant, Answers, Target
  <1>g. ASSUME NEW pc, loop' = [loop EXCEPT !.pc = pc]
        PROVE  loop'.pc = pc /\ loop'.d = loop.d
    BY <1>g DEF ShapeInvariant
  <1>1. CASE AnnounceRecord
    <2> DEFINE id == Len(hellos) + 1
               row == [target |-> announcer.at, timestamp |-> announcer.t]
               entry == [target |-> announcer.at, timestamp |-> announcer.t,
                         expires |-> announcer.t + Interval]
               all == Store(pending, id, entry)
    <2>1. /\ hellos' = Append(hellos, row) /\ successes' = Append(successes, 0)
          /\ pending' = Restrict(all, {x \in DOMAIN all : all[x].expires > announcer.t})
          /\ UNCHANGED <<targets, loop>>
      BY <1>1 DEF AnnounceRecord
    <2>2. /\ row \in Sent /\ row.target = announcer.at /\ entry.target = announcer.at
          /\ row.timestamp = announcer.t /\ entry.timestamp = announcer.t
      <3>1. announcer.at \in 1..Len(targets) /\ announcer.t \in Nat /\ Len(targets) \in Nat
        BY <1>1 DEF ShapeInvariant, AnnounceRecord, Announcing
      <3> QED  BY <3>1 DEF Sent
    <2> HIDE DEF row, entry
    <2>3. \A x \in DOMAIN pending' :
             \/ x \in DOMAIN pending /\ pending'[x] = pending[x]
             \/ x = id /\ pending'[x] = entry
      BY <2>1 DEF Restrict, Store
    <2>4. /\ hellos \in Seq(Sent) /\ successes \in Seq({0, 1}) /\ Len(successes) = Len(hellos)
          /\ Len(hellos) \in Nat
      BY DEF AnswerInvariant
    <2>5. /\ hellos' \in Seq(Sent) /\ successes' \in Seq({0, 1})
          /\ Len(hellos') = id /\ Len(successes') = id
          /\ \A x \in 1..Len(hellos) : hellos'[x] = hellos[x] /\ successes'[x] = successes[x]
          /\ hellos'[id] = row /\ successes'[id] = 0
      BY <2>1, <2>2, <2>4
    <2>6. loop.pc = "success" => loop.d.id \in 1..Len(hellos) /\ loop.d.id # id
      BY <2>4 DEF AnswerInvariant
    <2>7. ASSUME NEW x \in DOMAIN pending'
          PROVE  /\ x \in 1..Len(hellos') /\ successes'[x] = 0
                 /\ pending'[x].target = hellos'[x].target
                 /\ pending'[x].timestamp = hellos'[x].timestamp
                 /\ ~ (loop'.pc = "success" /\ loop'.d.id = x)
      <3>1. CASE x \in DOMAIN pending /\ pending'[x] = pending[x]
        <4>1. /\ x \in 1..Len(hellos) /\ successes[x] = 0 /\ pending[x].target = hellos[x].target
              /\ pending[x].timestamp = hellos[x].timestamp
              /\ ~ (loop.pc = "success" /\ loop.d.id = x)
          BY <3>1 DEF AnswerInvariant
        <4> QED  BY <2>1, <2>4, <2>5, <3>1, <4>1
      <3>2. CASE x = id /\ pending'[x] = entry
        BY <2>1, <2>2, <2>4, <2>5, <2>6, <3>2
      <3> QED  BY <2>3, <3>1, <3>2
    <2>8. loop'.pc = "success" =>
             /\ loop'.d.id \in 1..Len(hellos') /\ successes'[loop'.d.id] = 0
             /\ Answers(loop.d, hellos[loop.d.id])'
      <3>1. loop.pc = "success" =>
               /\ loop.d.id \in 1..Len(hellos) /\ successes[loop.d.id] = 0
               /\ Answers(loop.d, hellos[loop.d.id])
        BY DEF AnswerInvariant
      <3> QED  BY <2>1, <2>4, <2>5, <3>1 DEF Answers, Target
    <2> QED  BY <2>5, <2>7, <2>8 DEF AnswerInvariant
  <1>2. CASE HandleOk
    <2> DEFINE d == loop.d
               matches == MatchesPending(d)
    <2>1. /\ UNCHANGED <<targets, hellos, successes>>
          /\ DOMAIN pending' = DOMAIN pending \ {d.id}
          /\ \A x \in DOMAIN pending' : pending'[x] = pending[x]
      BY <1>2 DEF HandleOk, LoopOnly, Restrict
    <2>2. CASE matches
      <3>1. loop'.pc = "success" /\ loop'.d = loop.d
        BY <1>2, <1>g, <2>2 DEF HandleOk
      <3>2. d.id \in DOMAIN pending /\ Answers(d, hellos[d.id])
        BY <2>2 DEF MatchesPending, AnswerInvariant, Answers
      <3>3. Answers(loop.d, hellos[loop.d.id])'
        BY <2>1, <3>1, <3>2 DEF Answers, Target
      <3> QED  BY <2>1, <3>1, <3>2, <3>3 DEF AnswerInvariant
    <2>3. CASE ~ matches
      <3>1. loop'.pc = "idle"
        BY <1>0, <1>2, <2>3 DEF HandleOk
      <3> QED  BY <2>1, <3>1 DEF AnswerInvariant
    <2> QED  BY <2>2, <2>3
  <1>3. CASE RecordSuccess
    <2>1. /\ UNCHANGED <<targets, hellos, pending>> /\ loop.pc = "success" /\ loop'.pc = "idle"
          /\ successes' = [successes EXCEPT ![loop.d.id] = @ + 1]
      BY <1>0, <1>3 DEF RecordSuccess, Handling, LoopOnly
    <2>2. /\ successes' \in Seq({0, 1}) /\ Len(successes') = Len(successes)
          /\ \A x \in 1..Len(hellos) : x # loop.d.id => successes'[x] = successes[x]
      BY <2>1 DEF AnswerInvariant
    <2> QED  BY <2>1, <2>2 DEF AnswerInvariant
  <1>4. CASE \E d \in Datagrams : Receive(d)
    <2>1. loop'.pc # "success"
      BY <1>4 DEF Receive
    <2> QED  BY <1>4, <1>l, <2>1 DEF Receive, LoopOnly
  <1>5. CASE AuthenticateRead
    <2>1. \E pc \in {"upstreamUpdate", "update"} : loop' = [loop EXCEPT !.pc = pc] \/ loop' = Idle
      BY <1>5 DEF AuthenticateRead
    <2>2. loop'.pc # "success"
      BY <1>0, <1>g, <2>1
    <2> QED  BY <1>5, <1>l, <2>2 DEF AuthenticateRead, LoopOnly
  <1>6. CASE AuthenticateUpdate
    <2>1. \E pc \in {"ok", "hello", "authenticate"} :
             loop' = [loop EXCEPT !.pc = pc] \/ loop' = Idle
      BY <1>6 DEF AuthenticateUpdate
    <2>2. loop'.pc # "success"
      BY <1>0, <1>g, <2>1
    <2> QED  BY <1>6, <1>l, <2>2 DEF AuthenticateUpdate, LoopOnly
  <1>7. CASE LearnHello
    BY <1>0, <1>7, <1>l DEF LearnHello, LoopOnly
  <1>8. CASE AnnounceStart
    BY <1>8, <1>l DEF AnnounceStart, AnnouncerOnly
  <1>9. CASE AnnounceRegister
    BY <1>9, <1>l DEF AnnounceRegister, AnnouncerOnly
  <1>10. CASE AnnounceWrite
    BY <1>10, <1>l DEF AnnounceWrite, AnnouncerOnly
  <1>11. CASE StopProcess
    BY <1>11, <1>l DEF StopProcess
  <1>12. CASE PruneTick
    BY <1>12, <1>l DEF PruneTick
  <1>13. CASE Tick
    BY <1>13, <1>l DEF Tick
  <1>14. CASE UNCHANGED vars
    BY <1>14, <1>l DEF vars
  <1> QED  BY <1>1, <1>2, <1>3, <1>4, <1>5, <1>6, <1>7, <1>8, <1>9, <1>10, <1>11, <1>12, <1>13,
              <1>14 DEF Next, AnnounceCollision, AnnounceFails, ServeFails

(* It holds in every reachable state. *)
LEMMA AnswerHolds == Spec => []AnswerInvariant
  <1>1. Init => AnswerInvariant
    BY DEF Init, Idle, AnswerInvariant
  <1>2. ShapeInvariant /\ AnswerInvariant /\ [Next]_vars => AnswerInvariant'
    BY AnswerStep
  <1> QED  BY <1>1, <1>2, ShapeHolds, PTL DEF Spec

-----------------------------------------------------------------------------
(* Upstreams keep their sessions. *)

NodeAt(j) == NodeOf[Target(j)[1]]

\* The announcer does not register n any more in this round.
Passed(n) ==
    \A j \in 1..Len(targets) :
        j > announcer.at \/ (j = announcer.at /\ announcer.pc = "register") => NodeAt(j) # n

Known(n) == Registered(n) \/ (announcer.pc = "record" /\ n = NodeAt(announcer.at))

\* A session of n last seen at s does not lapse before n is registered again.
InTime(n, s) ==
    IF announcer.pc = "wait"
    THEN now + MaxDelay < s + SessionIdleTTL /\ due + 2 * MaxDelay < s + SessionIdleTTL
    ELSE /\ announcer.t + MaxDelay < s + SessionIdleTTL
         /\ Passed(n) => /\ announcer.t + 3 * MaxDelay + Interval < s + SessionIdleTTL
                         /\ due + 2 * MaxDelay < s + SessionIdleTTL

KeptInvariant ==
    \A n \in Upstreams :
        /\ Known(n) => n \in DOMAIN sessions
        /\ n \in DOMAIN sessions /\ ~ sessions[n].configured => InTime(n, sessions[n].lastSeen)

(* A session is in time as long as its upstream is not heard or registered *)
(* again: each round of announcements comes soon enough.                   *)
LEMMA TimeStep ==
    ASSUME ShapeInvariant, [Next]_vars, NEW n \in Upstreams, NEW s \in Nat, InTime(n, s),
           AnnounceRegister => n # NodeAt(announcer.at)
    PROVE  InTime(n, s)'
  <1>0. /\ now \in Nat /\ due \in Nat /\ announcer.t \in Nat /\ announcer.t <= now
        /\ due <= now + Interval
        /\ announcer.pc # "wait" => announcer.at \in 1..Len(targets) /\ now <= announcer.t + MaxDelay
        /\ targets \in Configurations /\ Len(targets) \in Nat \ {0}
    BY DEF ShapeInvariant
  <1>e. ASSUME NEW pc, announcer' = [announcer EXCEPT !.pc = pc]
        PROVE  announcer'.pc = pc /\ announcer'.at = announcer.at /\ announcer'.t = announcer.t
    BY <1>e DEF ShapeInvariant
  <1>u. CASE UNCHANGED <<targets, now, due, announcer>>
    BY <1>u DEF InTime, Passed, NodeAt, Target
  \* The announcer goes on within its round.
  <1>r. ASSUME UNCHANGED <<targets, now, due>>, announcer.pc # "wait", announcer'.pc # "wait",
               announcer'.t = announcer.t, Passed(n)' => Passed(n)
        PROVE  InTime(n, s)'
    BY <1>r DEF InTime
  <1>1. CASE AnnounceStart
    <2>1. /\ announcer.pc = "wait" /\ announcer' = [pc |-> "register", at |-> 1, t |-> now]
          /\ UNCHANGED <<targets, now>>
      BY <1>1 DEF AnnounceStart, Announcing, AnnouncerOnly
    <2>2. announcer'.pc = "register" /\ announcer'.at = 1 /\ announcer'.t = now
      BY <2>1
    <2>3. PICK j \in 1..Len(targets) : NodeAt(j) = n
      BY <1>0 DEF NodeAt, Target
    <2>4. ~ Passed(n)'
      BY <1>0, <2>1, <2>2, <2>3 DEF Passed, NodeAt, Target
    <2> QED  BY <2>1, <2>2, <2>4 DEF InTime
  <1>2. CASE AnnounceRegister
    <2>1. /\ announcer.pc = "register" /\ announcer' = [announcer EXCEPT !.pc = "record"]
          /\ UNCHANGED <<targets, now, due>> /\ n # NodeAt(announcer.at)
      BY <1>2 DEF AnnounceRegister, Announcing, AnnouncerOnly
    <2>2. announcer'.pc = "record" /\ announcer'.at = announcer.at /\ announcer'.t = announcer.t
      BY <1>e, <2>1
    <2>3. Passed(n)' => Passed(n)
      BY <2>1, <2>2 DEF Passed, NodeAt, Target
    <2> QED  BY <1>r, <2>1, <2>2, <2>3
  <1>3. CASE AnnounceRecord
    <2>1. /\ announcer.pc = "record" /\ announcer' = [announcer EXCEPT !.pc = "write"]
          /\ UNCHANGED <<targets, now, due>>
      BY <1>3 DEF AnnounceRecord, Announcing
    <2>2. announcer'.pc = "write" /\ announcer'.at = announcer.at /\ announcer'.t = announcer.t
      BY <1>e, <2>1
    <2>3. Passed(n)' => Passed(n)
      BY <2>1, <2>2 DEF Passed, NodeAt, Target
    <2> QED  BY <1>r, <2>1, <2>2, <2>3
  <1>4. CASE AnnounceWrite
    <2>1. announcer.pc = "write" /\ UNCHANGED <<targets, now>>
      BY <1>4 DEF AnnounceWrite, Announcing, AnnouncerOnly
    <2>2. CASE announcer.at < Len(targets)
      <3>1. /\ announcer' = [pc |-> "register", at |-> announcer.at + 1, t |-> announcer.t]
            /\ due' = due
        BY <1>4, <2>2 DEF AnnounceWrite
      <3>2. /\ announcer'.pc = "register" /\ announcer'.at = announcer.at + 1
            /\ announcer'.t = announcer.t
        BY <3>1
      <3>3. ASSUME Passed(n)', NEW j \in 1..Len(targets), j > announcer.at
            PROVE  NodeAt(j) # n
        <4>1. j > announcer'.at \/ j = announcer'.at
          BY <1>0, <2>1, <3>2, <3>3
        <4> QED  BY <2>1, <3>2, <3>3, <4>1 DEF Passed, NodeAt, Target
      <3>4. Passed(n)' => Passed(n)
        BY <2>1, <3>3 DEF Passed
      <3> QED  BY <1>r, <2>1, <3>1, <3>2, <3>4
    <2>3. CASE ~ (announcer.at < Len(targets))
      <3>1. /\ announcer' = [announcer EXCEPT !.pc = "wait"]
            /\ due' = due \/ due' = now + Interval
        BY <1>4, <2>3 DEF AnnounceWrite
      <3>2. announcer'.pc = "wait"
        BY <1>e, <3>1
      <3>3. Passed(n)
        BY <1>0, <2>1, <2>3 DEF Passed
      <3>4. /\ announcer.t + MaxDelay < s + SessionIdleTTL
            /\ announcer.t + 3 * MaxDelay + Interval < s + SessionIdleTTL
            /\ due + 2 * MaxDelay < s + SessionIdleTTL
            /\ now <= announcer.t + MaxDelay
        BY <1>0, <2>1, <3>3 DEF InTime
      <3>5. now + MaxDelay < s + SessionIdleTTL /\ due' + 2 * MaxDelay < s + SessionIdleTTL
        <4>1. /\ Interval \in Nat /\ MaxDelay \in Nat /\ SessionIdleTTL \in Nat
              /\ now \in Nat /\ due \in Nat /\ announcer.t \in Nat /\ s \in Nat
          BY <1>0
        <4> HIDE RegistryAssumption, TransportAssumption
        <4>2. CASE due' = due
          BY <3>4, <4>1, <4>2
        <4>3. CASE due' = now + Interval
          BY <3>4, <4>1, <4>3
        <4> QED  BY <3>1, <4>2, <4>3
      <3> QED  BY <2>1, <3>2, <3>5 DEF InTime
    <2> QED  BY <2>2, <2>3
  <1>5. CASE Tick
    <2>1. /\ UNCHANGED <<targets, announcer, due>> /\ now' = now + 1
          /\ announcer.pc = "wait" => now < due + MaxDelay
      BY <1>5 DEF Tick
    <2>2. CASE announcer.pc = "wait"
      <3>1. due + 2 * MaxDelay < s + SessionIdleTTL
        BY <2>2 DEF InTime
      <3>2. now' + MaxDelay < s + SessionIdleTTL
        BY <1>0, <2>1, <2>2, <3>1
      <3> QED  BY <2>1, <2>2, <3>1, <3>2 DEF InTime
    <2>3. CASE announcer.pc # "wait"
      BY <2>1, <2>3 DEF InTime, Passed, NodeAt, Target
    <2> QED  BY <2>2, <2>3
  <1> QED  BY <1>1, <1>2, <1>3, <1>4, <1>5, <1>u
           DEF Next, AnnounceCollision, AnnounceFails, StopProcess, Receive, AuthenticateRead,
               AuthenticateUpdate, LearnHello, HandleOk, RecordSuccess, ServeFails, LoopOnly,
               PruneTick, vars

(* A packet of an upstream that is in the UDP loop came less than MaxDelay *)
(* ago, which is soon enough.                                              *)
LEMMA HeardInTime ==
    ASSUME ShapeInvariant, loop.pc # "idle", NEW n
    PROVE  InTime(n, loop.t)
  <1>1. /\ now \in Nat /\ due \in Nat /\ announcer.t \in Nat /\ announcer.t <= now
        /\ due <= now + Interval /\ loop.t \in Nat /\ now <= loop.t + MaxDelay
    BY DEF ShapeInvariant
  <1>2. /\ now + MaxDelay < loop.t + SessionIdleTTL
        /\ announcer.t + MaxDelay < loop.t + SessionIdleTTL
        /\ due + 2 * MaxDelay < loop.t + SessionIdleTTL
        /\ announcer.t + 3 * MaxDelay + Interval < loop.t + SessionIdleTTL
    <2>1. /\ Interval \in Nat /\ MaxDelay \in Nat /\ SessionIdleTTL \in Nat
          /\ Interval + 4 * MaxDelay < SessionIdleTTL
      OBVIOUS
    <2> HIDE RegistryAssumption, TransportAssumption
    <2> QED  BY <1>1, <2>1
  <1> QED  BY <1>2 DEF InTime

(* A session in time is not pruned. *)
LEMMA InTimeStays ==
    ASSUME ShapeInvariant, SeenInvariant, NEW n \in DOMAIN sessions,
           ~ sessions[n].configured => InTime(n, sessions[n].lastSeen)
    PROVE  \A t \in {0, loop.t, now} : ~ Lapsed(n, t)
  <1>1. SUFFICES ASSUME ~ sessions[n].configured, NEW t \in {0, loop.t, now}
                 PROVE  t - sessions[n].lastSeen < SessionIdleTTL
    BY DEF Lapsed
  <1>2. /\ now \in Nat /\ t \in Nat /\ t <= now /\ sessions[n].lastSeen \in Nat
        /\ announcer.t \in Nat /\ (announcer.pc # "wait" => now <= announcer.t + MaxDelay)
    BY DEF ShapeInvariant, SeenInvariant
  <1>3. \/ now + MaxDelay < sessions[n].lastSeen + SessionIdleTTL
        \/ announcer.pc # "wait" /\ announcer.t + MaxDelay < sessions[n].lastSeen + SessionIdleTTL
    BY <1>1 DEF InTime
  <1> QED  BY <1>2, <1>3

(* An upstream becomes known when it is registered. *)
LEMMA KnownStep ==
    ASSUME ShapeInvariant, AnswerInvariant, [Next]_vars, NEW n, Known(n)', ~ Known(n)
    PROVE  AnnounceRegister /\ n = NodeAt(announcer.at)
  <1>u. CASE UNCHANGED <<targets, hellos>> /\ announcer'.pc # "record"
    BY <1>u DEF Known, Registered, Target
  <1>v. CASE UNCHANGED <<targets, hellos, announcer>>
    BY <1>v DEF Known, Registered, Target, NodeAt
  <1>e. ASSUME NEW pc, announcer' = [announcer EXCEPT !.pc = pc]
        PROVE  announcer'.pc = pc /\ announcer'.at = announcer.at
    BY <1>e DEF ShapeInvariant
  <1>1. CASE AnnounceRegister
    <2>1. UNCHANGED <<targets, hellos>> /\ announcer' = [announcer EXCEPT !.pc = "record"]
      BY <1>1 DEF AnnounceRegister, AnnouncerOnly
    <2>2. announcer'.at = announcer.at
      BY <1>e, <2>1
    <2> QED  BY <1>1, <2>1, <2>2 DEF Known, Registered, Target, NodeAt
  <1>2. CASE AnnounceRecord
    <2> DEFINE row == [target |-> announcer.at, timestamp |-> announcer.t]
    <2>1. /\ announcer.pc = "record" /\ announcer' = [announcer EXCEPT !.pc = "write"]
          /\ targets' = targets /\ hellos' = Append(hellos, row)
      BY <1>2 DEF AnnounceRecord, Announcing
    <2>2. announcer'.pc = "write" /\ row.target = announcer.at
      BY <1>e, <2>1
    <2> HIDE DEF row
    <2>3. hellos \in Seq(Sent) /\ Len(hellos) \in Nat
      BY DEF AnswerInvariant
    <2>4. PICK x \in 1..Len(hellos') : NodeOf[Target(hellos'[x].target)[1]] = n
      BY <2>1, <2>2 DEF Known, Registered, Target
    <2>5. (x \in 1..Len(hellos) /\ hellos'[x] = hellos[x]) \/ hellos'[x] = row
      BY <2>1, <2>3, <2>4
    <2> QED  BY <2>1, <2>2, <2>4, <2>5 DEF Known, Registered, NodeAt
  <1>3. CASE AnnounceStart
    <2>1. announcer'.pc = "register"
      BY <1>3 DEF AnnounceStart
    <2> QED  BY <1>3, <1>u, <2>1 DEF AnnounceStart, AnnouncerOnly
  <1>4. CASE AnnounceWrite
    <2>1. announcer'.pc # "record"
      <3>1. CASE announcer.at < Len(targets)
        BY <1>4, <3>1 DEF AnnounceWrite
      <3>2. CASE ~ (announcer.at < Len(targets))
        BY <1>4, <1>e, <3>2 DEF AnnounceWrite
      <3> QED  BY <3>1, <3>2
    <2> QED  BY <1>4, <1>u, <2>1 DEF AnnounceWrite, AnnouncerOnly
  <1> QED  BY <1>1, <1>2, <1>3, <1>4, <1>v
           DEF Next, AnnounceCollision, AnnounceFails, StopProcess, Receive, AuthenticateRead,
               AuthenticateUpdate, LearnHello, HandleOk, RecordSuccess, ServeFails, LoopOnly,
               PruneTick, Tick, vars

(* The next round of announcements comes before the session lapses. *)
LEMMA KeptStep ==
    ASSUME ShapeInvariant, SeenInvariant, AnswerInvariant, KeptInvariant, [Next]_vars
    PROVE  KeptInvariant'
  <1>0. SUFFICES ASSUME NEW n \in Upstreams
                 PROVE  /\ Known(n)' => n \in DOMAIN sessions'
                        /\ n \in DOMAIN sessions' /\ ~ sessions'[n].configured =>
                              InTime(n, sessions[n].lastSeen)'
    BY DEF KeptInvariant
  <1>1. /\ Known(n) => n \in DOMAIN sessions
        /\ n \in DOMAIN sessions /\ ~ sessions[n].configured => InTime(n, sessions[n].lastSeen)
    BY DEF KeptInvariant
  <1>2. n \in DOMAIN sessions => \A t \in {0, loop.t, now} : ~ Lapsed(n, t)
    BY <1>1, InTimeStays
  <1>c. CASE UNCHANGED vars
    BY <1>1, <1>c DEF vars, Known, Registered, InTime, Passed, NodeAt, Target
  <1>n. SUFFICES ASSUME Next
                 PROVE  /\ Known(n)' => n \in DOMAIN sessions'
                        /\ n \in DOMAIN sessions' /\ ~ sessions'[n].configured =>
                              InTime(n, sessions[n].lastSeen)'
    BY <1>c
  <1>3. n \in DOMAIN sessions => n \in DOMAIN sessions'
    BY <1>2, <1>n, SessionStep DEF Configures, Refreshes, Learns, Prunes, Changes
  <1>4. Known(n)' => n \in DOMAIN sessions'
    <2>1. SUFFICES ASSUME Known(n)', ~ Known(n)
                   PROVE  n \in DOMAIN sessions'
      BY <1>1, <1>3
    <2>2. AnnounceRegister /\ n = NodeAt(announcer.at)
      BY <2>1, KnownStep
    <2> QED  BY <2>2 DEF AnnounceRegister, RegisterConfigured, Store, NodeAt
  <1>5. ASSUME n \in DOMAIN sessions', ~ sessions'[n].configured
        PROVE  InTime(n, sessions[n].lastSeen)'
    <2>1. CASE Kept(n)
      <3>1. PICK s : s = sessions[n].lastSeen
        OBVIOUS
      <3>2. s \in Nat /\ InTime(n, s) /\ sessions'[n].lastSeen = s
        BY <1>1, <1>5, <2>1, <3>1 DEF Kept, SeenInvariant
      <3>3. AnnounceRegister => n # NodeAt(announcer.at)
        BY <1>5 DEF AnnounceRegister, RegisterConfigured, Store, Session, NodeAt
      <3>4. InTime(n, s)'
        BY <3>2, <3>3, TimeStep
      <3> QED  BY <3>2, <3>4
    <2>2. ASSUME NEW i, NEW e, NEW c, sessions'[n] = Session(i, e, loop.t, c), LoopOnly,
                 loop.pc # "idle"
          PROVE  InTime(n, sessions[n].lastSeen)'
      <3>1. InTime(n, loop.t)
        BY <2>2, HeardInTime
      <3>2. sessions'[n].lastSeen = loop.t /\ UNCHANGED <<targets, now, due, announcer>>
        BY <2>2 DEF Session, LoopOnly
      <3> QED  BY <3>1, <3>2 DEF InTime, Passed, NodeAt, Target
    <2>3. CASE sessions' = sessions
      BY <1>5, <2>1, <2>3 DEF Kept
    <2>4. CASE Configures
      <3>1. n = NodeAt(announcer.at) => sessions'[n].configured
        BY <2>4 DEF Configures, NodeAt, Session
      <3> QED  BY <1>5, <2>1, <2>4, <3>1 DEF Configures, Changes, NodeAt
    <2>5. CASE Refreshes
      <3> DEFINE c == sessions[NodeOf[loop.d.from]].configured
      <3>1. Kept(n) \/ sessions'[n] = Session(loop.d.from, loop.d.endpoint, loop.t, c)
        BY <1>5, <2>5 DEF Refreshes, Changes
      <3> HIDE DEF c
      <3> QED  BY <2>1, <2>2, <2>5, <3>1 DEF Refreshes
    <2>6. CASE Learns
      <3> DEFINE c == FALSE
      <3>1. Kept(n) \/ sessions'[n] = Session(loop.d.from, loop.d.endpoint, loop.t, c)
        BY <1>5, <2>6 DEF Learns, Changes
      <3>2. LoopOnly /\ loop.pc # "idle"
        BY <2>6 DEF Learns
      <3> HIDE DEF c
      <3> QED  BY <2>1, <2>2, <3>1, <3>2
    <2>7. CASE Prunes
      BY <1>5, <2>1, <2>7 DEF Prunes
    <2> QED  BY <1>n, <2>3, <2>4, <2>5, <2>6, <2>7, SessionStep
  <1> QED  BY <1>4, <1>5

(* It holds in every reachable state. *)
LEMMA KeptHolds == Spec => []KeptInvariant
  <1>1. Init => KeptInvariant
    BY DEF Init, RegistryInit, KeptInvariant, Known, Registered
  <1>2. ShapeInvariant /\ SeenInvariant /\ AnswerInvariant /\ KeptInvariant /\ [Next]_vars
          => KeptInvariant'
    BY KeptStep
  <1> QED  BY <1>1, <1>2, ShapeHolds, SeenHolds, AnswerHolds, PTL DEF Spec

(* A registered upstream always has a session, although a HELLO of its own *)
(* makes it one that may expire: the next round of announcements comes in  *)
(* time, wherever the announcer, the UDP loop and the ticker are.          *)
THEOREM UpstreamsStay == Spec => []UpstreamsKept
  <1>1. KeptInvariant => UpstreamsKept
    BY DEF KeptInvariant, UpstreamsKept, Known
  <1> QED  BY <1>1, KeptHolds, PTL

-----------------------------------------------------------------------------
(* Who answers. *)

\* The session of the node is the session of this identity.
HasSession(i) == NodeOf[i] \in DOMAIN sessions /\ sessions[NodeOf[i]].identity = i

\* HELLOs go to identities that have a session; a packet that passed Authenticate in
\* the upstream manager is one of an identity that has it still.
PeerInvariant ==
    /\ \A x \in 1..Len(hellos) :
          hellos[x].target \in 1..Len(targets) /\ HasSession(Target(hellos[x].target)[1])
    /\ announcer.pc = "record" => HasSession(Target(announcer.at)[1])
    /\ loop.pc \in {"upstream", "upstreamUpdate", "ok", "success"} =>
          NodeOf[loop.d.from] \in Upstreams
    /\ loop.pc \in {"upstreamUpdate", "ok", "success"} => HasSession(loop.d.from)

HasSessionNext(i) == NodeOf[i] \in DOMAIN sessions' /\ sessions'[NodeOf[i]].identity = i

(* An upstream's session stays, and stays that of the same identity. *)
LEMMA SessionStays ==
    ASSUME ShapeInvariant, SeenInvariant, KeptInvariant, Next, NEW i,
           NodeOf[i] \in Upstreams, HasSession(i)
    PROVE  HasSessionNext(i)
  <1> DEFINE n == NodeOf[i]
  <1>1. n \in Upstreams /\ n \in DOMAIN sessions /\ sessions[n].identity = i
    BY DEF HasSession
  <1>s. SUFFICES n \in DOMAIN sessions' /\ sessions'[n].identity = i
    BY DEF HasSessionNext
  <1> HIDE DEF n
  <1>2. \A t \in {0, loop.t, now} : ~ Lapsed(n, t)
    BY <1>1, InTimeStays DEF KeptInvariant
  <1>3. CASE sessions' = sessions \/ Prunes
    BY <1>1, <1>2, <1>3 DEF Prunes, Kept
  <1>4. ASSUME NEW m, NEW s, NEW t \in {0, loop.t, now}, Changes(m, s, t)
        PROVE  n \in DOMAIN sessions' /\ sessions'[n].identity = i
    BY <1>1, <1>2, <1>4 DEF Changes, Kept
  <1>5. CASE Configures
    BY <1>4, <1>5 DEF Configures
  <1>6. CASE Refreshes
    BY <1>4, <1>6 DEF Refreshes
  <1>7. CASE Learns
    <2>1. Changes(NodeOf[loop.d.from], Session(loop.d.from, loop.d.endpoint, loop.t, FALSE), loop.t)
      BY <1>7 DEF Learns
    <2> QED  BY <1>4, <2>1
  <1> QED  BY <1>3, <1>5, <1>6, <1>7, SessionStep

(* The announcer and the loop only go on with an identity that has the     *)
(* session of its node.                                                    *)
LEMMA PeerStep ==
    ASSUME ShapeInvariant, SeenInvariant, AnswerInvariant, KeptInvariant, PeerInvariant, Next
    PROVE  PeerInvariant'
  <1>0. targets' = targets
    BY DEF Next, AnnounceStart, AnnounceRegister, AnnounceCollision, AnnounceRecord,
           AnnounceWrite, AnnounceFails, StopProcess, AnnouncerOnly, Receive, AuthenticateRead,
           AuthenticateUpdate, LearnHello, HandleOk, RecordSuccess, ServeFails, LoopOnly, PruneTick,
           Tick
  <1>u. \A j \in 1..Len(targets) : NodeOf[Target(j)[1]] \in Upstreams
    BY DEF ShapeInvariant, Target
  <1>e. ASSUME NEW pc, announcer' = [announcer EXCEPT !.pc = pc]
        PROVE  announcer'.pc = pc /\ announcer'.at = announcer.at
    BY <1>e DEF ShapeInvariant
  <1>g. ASSUME NEW pc, loop' = [loop EXCEPT !.pc = pc]
        PROVE  loop'.pc = pc /\ loop'.d = loop.d
    BY <1>g DEF ShapeInvariant
  <1>i. Idle.pc = "idle"
    BY DEF Idle
  <1>s. \A i : NodeOf[i] \in Upstreams /\ HasSession(i) => HasSessionNext(i)
    BY SessionStays
  \* Everybody who had a session has it after the step.
  <1>1. \A x \in 1..Len(hellos) :
           hellos[x].target \in 1..Len(targets) /\ HasSessionNext(Target(hellos[x].target)[1])
    BY <1>s, <1>u DEF PeerInvariant
  <1>2. announcer.pc = "record" =>
           announcer.at \in 1..Len(targets) /\ HasSessionNext(Target(announcer.at)[1])
    BY <1>s, <1>u DEF PeerInvariant, ShapeInvariant
  <1>3. loop.pc \in {"upstreamUpdate", "ok", "success"} =>
           NodeOf[loop.d.from] \in Upstreams /\ HasSessionNext(loop.d.from)
    BY <1>s DEF PeerInvariant
  \* A new HELLO goes to the target that was registered.
  <1>4. \A x \in 1..Len(hellos') :
           hellos'[x].target \in 1..Len(targets) /\ HasSessionNext(Target(hellos'[x].target)[1])
    <2>1. CASE AnnounceRecord
      <3> DEFINE row == [target |-> announcer.at, timestamp |-> announcer.t]
      <3>1. announcer.pc = "record" /\ hellos' = Append(hellos, row) /\ row.target = announcer.at
        BY <2>1 DEF AnnounceRecord, Announcing
      <3> HIDE DEF row
      <3>2. hellos \in Seq(Sent) /\ Len(hellos) \in Nat
        BY DEF AnswerInvariant
      <3>3. \A x \in 1..Len(hellos') :
               (x \in 1..Len(hellos) /\ hellos'[x] = hellos[x]) \/ hellos'[x] = row
        BY <3>1, <3>2
      <3> QED  BY <1>1, <1>2, <3>1, <3>3
    <2>2. CASE hellos' = hellos
      BY <1>1, <2>2
    <2> QED  BY <2>1, <2>2
             DEF Next, AnnounceStart, AnnounceRegister, AnnounceCollision, AnnounceWrite,
                 AnnounceFails, StopProcess, Receive, AuthenticateRead, AuthenticateUpdate,
                 LearnHello, HandleOk, RecordSuccess, ServeFails, LoopOnly, PruneTick, Tick
  \* A registration gives the target its session.
  <1>5. announcer'.pc = "record" => HasSessionNext(Target(announcer'.at)[1])
    <2>1. CASE announcer' = announcer
      BY <1>2, <2>1
    <2>2. CASE AnnounceRegister
      <3> DEFINE target == Target(announcer.at)
      <3>1. announcer'.at = announcer.at
        BY <1>e, <2>2 DEF AnnounceRegister
      <3>2. sessions' = Store(sessions, NodeOf[target[1]],
                              Session(target[1], target[2], announcer.t, TRUE))
        BY <2>2 DEF AnnounceRegister, RegisterConfigured
      <3>3. HasSessionNext(target[1])
        BY <3>2 DEF HasSessionNext, Store, Session
      <3> QED  BY <3>1, <3>3
    <2>3. CASE AnnounceRecord
      BY <1>e, <2>3 DEF AnnounceRecord
    <2>4. CASE AnnounceWrite
      <3>1. CASE announcer.at < Len(targets)
        BY <2>4, <3>1 DEF AnnounceWrite
      <3>2. CASE ~ (announcer.at < Len(targets))
        BY <1>e, <2>4, <3>2 DEF AnnounceWrite
      <3> QED  BY <3>1, <3>2
    <2>5. CASE AnnounceStart
      BY <2>5 DEF AnnounceStart
    <2> QED  BY <2>1, <2>2, <2>3, <2>4, <2>5
             DEF Next, AnnounceCollision, AnnounceFails, StopProcess, Receive,
                 AuthenticateRead, AuthenticateUpdate, LearnHello, HandleOk, RecordSuccess,
                 ServeFails, LoopOnly, PruneTick, Tick
  \* The loop goes on with a packet of the identity that has the session.
  <1>6. /\ loop'.pc \in {"upstream", "upstreamUpdate", "ok", "success"} =>
              NodeOf[loop'.d.from] \in Upstreams
        /\ loop'.pc \in {"upstreamUpdate", "ok", "success"} => HasSessionNext(loop'.d.from)
    <2>1. CASE loop' = loop
      BY <1>3, <2>1 DEF PeerInvariant
    <2>2. CASE loop' = Idle
      BY <1>i, <2>2
    <2>3. CASE \E d \in Datagrams : Receive(d)
      <3>1. PICK d \in Datagrams : Receive(d)
        BY <2>3
      <3>2. PICK pc \in {"upstream", "hello", "authenticate"} :
               /\ loop' = [pc |-> pc, d |-> d, t |-> now]
               /\ pc = "upstream" => NodeOf[d.from] \in Upstreams
        BY <3>1 DEF Receive
      <3>3. loop'.pc = pc /\ loop'.d = d
        BY <3>2
      <3> QED  BY <3>2, <3>3
    <2>4. CASE AuthenticateRead
      <3>1. CASE Authentic(NodeOf[loop.d.from], loop.d.from) /\ loop.pc = "upstream"
        <4>1. loop' = [loop EXCEPT !.pc = "upstreamUpdate"] /\ sessions' = sessions
          BY <2>4, <3>1 DEF AuthenticateRead, registry
        <4>2. loop'.d = loop.d
          BY <1>g, <4>1
        <4>3. NodeOf[loop.d.from] \in Upstreams /\ HasSessionNext(loop.d.from)
          BY <3>1, <4>1 DEF PeerInvariant, Authentic, HasSessionNext
        <4> QED  BY <4>2, <4>3
      <3>2. CASE loop.pc # "upstream"
        <4>1. loop' = [loop EXCEPT !.pc = "update"] \/ loop' = Idle
          BY <2>4, <3>2 DEF AuthenticateRead
        <4>2. loop'.pc \in {"update", "idle"}
          BY <1>g, <1>i, <4>1
        <4> QED  BY <4>2
      <3> QED  BY <2>2, <2>4, <3>1, <3>2 DEF AuthenticateRead
    <2>5. CASE AuthenticateUpdate
      <3>1. CASE loop.pc = "upstreamUpdate"
        <4>1. \E pc : loop' = [loop EXCEPT !.pc = pc]
          BY <2>5, <3>1 DEF AuthenticateUpdate
        <4>2. loop'.d = loop.d
          BY <1>g, <4>1
        <4> QED  BY <1>3, <3>1, <4>2
      <3>2. CASE loop.pc # "upstreamUpdate"
        BY <2>2, <2>5, <3>2 DEF AuthenticateUpdate, Handling
      <3> QED  BY <3>1, <3>2
    <2>6. CASE HandleOk
      <3>1. CASE loop' = [loop EXCEPT !.pc = "success"]
        <4>1. loop'.d = loop.d /\ loop.pc = "ok"
          BY <1>g, <2>6, <3>1 DEF HandleOk, Handling
        <4> QED  BY <1>3, <4>1
      <3> QED  BY <2>2, <2>6, <3>1 DEF HandleOk
    <2> QED  BY <2>1, <2>2, <2>3, <2>4, <2>5, <2>6
             DEF Next, AnnounceStart, AnnounceRegister, AnnounceCollision, AnnounceRecord,
                 AnnounceWrite, AnnounceFails, StopProcess, AnnouncerOnly, LearnHello,
                 RecordSuccess, ServeFails, PruneTick, Tick
  <1> QED  BY <1>0, <1>4, <1>5, <1>6 DEF PeerInvariant, HasSession, HasSessionNext, Target

(* However answers are repeated, delayed or sent from elsewhere, a HELLO   *)
(* counts as answered at most once, and only by the identity it went to,   *)
(* from the endpoint it went to; although the code compares node IDs.      *)
THEOREM AnsweredOnce == Spec => []SuccessOncePerHello
  <1>1. Init => PeerInvariant
    BY DEF Init, Idle, PeerInvariant
  <1>2. ASSUME ShapeInvariant, SeenInvariant, AnswerInvariant, KeptInvariant, PeerInvariant,
               [Next]_vars
        PROVE  PeerInvariant'
    <2>1. CASE UNCHANGED vars
      BY <1>2, <2>1 DEF vars, PeerInvariant, HasSession, Target
    <2> QED  BY <1>2, <2>1, PeerStep
  <1>3. AnswerInvariant /\ PeerInvariant => SuccessOncePerHello
    <2>1. SUFFICES ASSUME AnswerInvariant, PeerInvariant
                   PROVE  SuccessOncePerHello
      OBVIOUS
    <2>2. \A x \in 1..Len(successes) : successes[x] <= 1
      <3>1. \A x \in 1..Len(successes) : successes[x] \in {0, 1}
        BY <2>1 DEF AnswerInvariant
      <3> QED  BY <3>1
    <2>3. ASSUME loop.pc = "success"
          PROVE  LET hello == hellos[loop.d.id] IN
                 /\ Target(hello.target)[1] = loop.d.from
                 /\ Target(hello.target)[2] = loop.d.endpoint
                 /\ hello.timestamp = loop.d.timestamp
      <3> DEFINE hello == hellos[loop.d.id]
                 i == Target(hello.target)[1]
      <3>1. loop.d.id \in 1..Len(hellos) /\ Answers(loop.d, hello)
        BY <2>1, <2>3 DEF AnswerInvariant
      <3>2. HasSession(i) /\ HasSession(loop.d.from) /\ NodeOf[i] = NodeOf[loop.d.from]
        BY <2>1, <2>3, <3>1 DEF PeerInvariant, Answers
      <3>3. i = loop.d.from
        BY <3>2 DEF HasSession
      <3> QED  BY <3>1, <3>3 DEF Answers
    <2> QED  BY <2>2, <2>3 DEF SuccessOncePerHello
  <1> QED  BY <1>1, <1>2, <1>3, ShapeHolds, SeenHolds, AnswerHolds, KeptHolds, PTL DEF Spec

-----------------------------------------------------------------------------
(* Announcements that nobody answers. *)

\* A round of announcements is over before the next one is due.
RoundsFit == MaxDelay < Interval

Old(x) == pending[x].timestamp # announcer.t

\* A round in which nothing was recorded yet, and so nothing dropped.
Fresh == announcer.at = 1 /\ announcer.pc \in {"register", "record"}

\* Rounds are told apart by their time.  Once a round has recorded something, only
\* one earlier round has HELLOs pending; before, they are of at most two.
PendingInvariant ==
    /\ announcer.pc = "wait" => now <= due + MaxDelay
    /\ announcer.pc # "wait" => announcer.t + Interval <= due + MaxDelay
    /\ \A x \in DOMAIN pending :
          /\ pending[x].timestamp \in Nat /\ pending[x].timestamp <= announcer.t
          /\ pending[x].expires = pending[x].timestamp + Interval
          /\ pending[x].timestamp + Interval <= due + MaxDelay
          /\ Old(x) => pending[x].timestamp + Interval <= due
          /\ Fresh => Old(x)
          /\ announcer.pc # "wait" /\ ~ Old(x) =>
                pending[x].target < announcer.at
                \/ (pending[x].target = announcer.at /\ announcer.pc = "write")
    /\ \A x, y \in DOMAIN pending :
          pending[x].target = pending[y].target /\ pending[x].timestamp = pending[y].timestamp
            => x = y
    /\ \E p, q : \A x \in DOMAIN pending : pending[x].timestamp \in {p, q}
    /\ \E p : \A x \in DOMAIN pending :
          Old(x) /\ (Fresh => pending[x].expires > announcer.t) => pending[x].timestamp = p

(* A pending HELLO went to a target of the configuration. *)
LEMMA PendingTarget ==
    ASSUME AnswerInvariant, NEW x \in DOMAIN pending
    PROVE  pending[x].target \in Nat
  <1>1. x \in 1..Len(hellos) /\ pending[x].target = hellos[x].target /\ hellos \in Seq(Sent)
    BY DEF AnswerInvariant
  <1>2. hellos[x] \in Sent
    BY <1>1
  <1> QED  BY <1>1, <1>2 DEF Sent

(* A third round drops what the first one left: its time is past. *)
LEMMA PendingStep ==
    ASSUME RoundsFit, ShapeInvariant, AnswerInvariant, PendingInvariant, [Next]_vars
    PROVE  PendingInvariant'
  <1>0. /\ now \in Nat /\ due \in Nat /\ announcer.t \in Nat /\ announcer.t <= now
        /\ Interval \in Nat \ {0} /\ MaxDelay \in Nat /\ MaxDelay < Interval
        /\ announcer.pc # "wait" => announcer.at \in 1..Len(targets) /\ now <= announcer.t + MaxDelay
        /\ Len(targets) \in Nat \ {0}
    BY DEF ShapeInvariant, RoundsFit
  <1>e. ASSUME NEW pc, announcer' = [announcer EXCEPT !.pc = pc]
        PROVE  announcer'.pc = pc /\ announcer'.at = announcer.at /\ announcer'.t = announcer.t
    BY <1>e DEF ShapeInvariant
  <1> HIDE RegistryAssumption, TransportAssumption
  <1>u. CASE UNCHANGED <<now, due, announcer, pending>>
    BY <1>u DEF PendingInvariant, Old, Fresh
  <1>1. CASE HandleOk
    <2>1. /\ UNCHANGED <<now, due, announcer>> /\ DOMAIN pending' \subseteq DOMAIN pending
          /\ \A x \in DOMAIN pending' : pending'[x] = pending[x]
      BY <1>1 DEF HandleOk, LoopOnly, Restrict
    <2>2. /\ Fresh' <=> Fresh
          /\ \A x \in DOMAIN pending' : Old(x)' <=> Old(x)
      BY <2>1 DEF Fresh, Old
    <2>3. \E p, q : \A x \in DOMAIN pending' : pending'[x].timestamp \in {p, q}
      BY <2>1 DEF PendingInvariant
    <2>4. \E p : \A x \in DOMAIN pending' :
             Old(x)' /\ (Fresh' => pending'[x].expires > announcer'.t) => pending'[x].timestamp = p
      BY <2>1, <2>2 DEF PendingInvariant
    <2>5. \A x, y \in DOMAIN pending' :
             pending'[x].target = pending'[y].target
             /\ pending'[x].timestamp = pending'[y].timestamp => x = y
      BY <2>1 DEF PendingInvariant
    <2>6. ASSUME NEW x \in DOMAIN pending'
          PROVE  /\ pending'[x].timestamp \in Nat /\ pending'[x].timestamp <= announcer'.t
                 /\ pending'[x].expires = pending'[x].timestamp + Interval
                 /\ pending'[x].timestamp + Interval <= due' + MaxDelay
                 /\ Old(x)' => pending'[x].timestamp + Interval <= due'
                 /\ Fresh' => Old(x)'
                 /\ announcer'.pc # "wait" /\ ~ Old(x)' =>
                       pending'[x].target < announcer'.at
                       \/ (pending'[x].target = announcer'.at /\ announcer'.pc = "write")
      BY <2>1, <2>2, <2>6 DEF PendingInvariant
    <2>7. /\ announcer'.pc = "wait" => now' <= due' + MaxDelay
          /\ announcer'.pc # "wait" => announcer'.t + Interval <= due' + MaxDelay
      BY <2>1 DEF PendingInvariant
    <2> QED  BY <2>3, <2>4, <2>5, <2>6, <2>7 DEF PendingInvariant
  <1>2. CASE Tick
    <2>1. /\ UNCHANGED <<due, announcer, pending>> /\ now' = now + 1
          /\ announcer.pc = "wait" => now < due + MaxDelay
      BY <1>2 DEF Tick
    <2>2. announcer.pc = "wait" => now' <= due + MaxDelay
      BY <1>0, <2>1
    <2> QED  BY <2>1, <2>2 DEF PendingInvariant, Old, Fresh
  <1>3. CASE AnnounceRegister
    <2>1. /\ UNCHANGED <<now, due, pending>> /\ announcer.pc = "register"
          /\ announcer' = [announcer EXCEPT !.pc = "record"]
      BY <1>3 DEF AnnounceRegister, Announcing, AnnouncerOnly
    <2>2. announcer'.pc = "record" /\ announcer'.at = announcer.at /\ announcer'.t = announcer.t
      BY <1>e, <2>1
    <2> QED  BY <2>1, <2>2 DEF PendingInvariant, Old, Fresh
  <1>4. CASE AnnounceStart
    <2>1. /\ announcer.pc = "wait" /\ announcer' = [pc |-> "register", at |-> 1, t |-> now]
          /\ UNCHANGED <<now, pending>> /\ due' = due + Interval /\ now >= due
      BY <1>4 DEF AnnounceStart, Announcing, AnnouncerOnly
    <2>2. announcer'.pc = "register" /\ announcer'.at = 1 /\ announcer'.t = now
      BY <2>1
    <2>3. now <= due + MaxDelay
      BY <2>1 DEF PendingInvariant
    <2>4. announcer'.t + Interval <= due' + MaxDelay
      BY <1>0, <2>1, <2>2, <2>3
    <2>5. ASSUME NEW x \in DOMAIN pending
          PROVE  /\ pending[x].timestamp # now /\ pending[x].timestamp <= now
                 /\ pending[x].timestamp + Interval <= due'
                 /\ pending[x].expires > now => pending[x].timestamp = announcer.t
      <3>1. /\ pending[x].timestamp \in Nat
            /\ pending[x].expires = pending[x].timestamp + Interval
            /\ pending[x].timestamp + Interval <= due + MaxDelay
            /\ pending[x].timestamp # announcer.t => pending[x].timestamp + Interval <= due
        BY <2>5 DEF PendingInvariant, Old
      <3> QED  BY <1>0, <2>1, <3>1
    <2>6. ASSUME NEW x \in DOMAIN pending'
          PROVE  /\ pending'[x].timestamp \in Nat /\ pending'[x].timestamp <= announcer'.t
                 /\ pending'[x].expires = pending'[x].timestamp + Interval
                 /\ pending'[x].timestamp + Interval <= due' + MaxDelay
                 /\ Old(x)' /\ pending'[x].timestamp + Interval <= due'
      <3>1. /\ pending[x].timestamp \in Nat
            /\ pending[x].expires = pending[x].timestamp + Interval
        BY <2>1, <2>6 DEF PendingInvariant
      <3>2. /\ pending[x].timestamp # now /\ pending[x].timestamp <= now
            /\ pending[x].timestamp + Interval <= due'
        BY <2>1, <2>5, <2>6
      <3> QED  BY <1>0, <2>1, <2>2, <3>1, <3>2 DEF Old
    <2>7. \E p, q : \A x \in DOMAIN pending' : pending'[x].timestamp \in {p, q}
      BY <2>1 DEF PendingInvariant
    <2>8. \E p : \A x \in DOMAIN pending' :
             pending'[x].expires > announcer'.t => pending'[x].timestamp = p
      <3>1. PICK p : p = announcer.t
        OBVIOUS
      <3> QED  BY <2>1, <2>2, <2>5, <3>1
    <2>9. Fresh'
      BY <2>2 DEF Fresh
    <2>10. \A x, y \in DOMAIN pending' :
              pending'[x].target = pending'[y].target
              /\ pending'[x].timestamp = pending'[y].timestamp => x = y
      BY <2>1 DEF PendingInvariant
    <2> QED  BY <2>2, <2>4, <2>6, <2>7, <2>8, <2>9, <2>10 DEF PendingInvariant
  <1>5. CASE AnnounceWrite
    <2>1. announcer.pc = "write" /\ UNCHANGED <<now, pending, targets>>
      BY <1>5 DEF AnnounceWrite, Announcing, AnnouncerOnly
    <2>2. ~ Fresh /\ announcer.t + Interval <= due + MaxDelay
      BY <2>1 DEF Fresh, PendingInvariant
    <2>3. CASE announcer.at < Len(targets)
      <3>1. /\ announcer' = [pc |-> "register", at |-> announcer.at + 1, t |-> announcer.t]
            /\ due' = due
        BY <1>5, <2>3 DEF AnnounceWrite
      <3>2. /\ announcer'.pc = "register" /\ announcer'.at = announcer.at + 1
            /\ announcer'.t = announcer.t
        BY <3>1
      <3>3. ~ Fresh'
        BY <1>0, <2>1, <3>2 DEF Fresh
      <3>4. ASSUME NEW x \in DOMAIN pending, ~ Old(x)
            PROVE  pending[x].target < announcer.at + 1
        <4>1. pending[x].target < announcer.at \/ pending[x].target = announcer.at
          BY <2>1, <3>4 DEF PendingInvariant
        <4>2. pending[x].target \in Nat /\ announcer.at \in Nat
          BY <1>0, <2>1, <3>4, PendingTarget
        <4> QED  BY <4>1, <4>2
      <3> QED  BY <2>1, <2>2, <3>1, <3>2, <3>3, <3>4 DEF PendingInvariant, Old
    <2>4. CASE ~ (announcer.at < Len(targets))
      <3>1. /\ announcer' = [announcer EXCEPT !.pc = "wait"]
            /\ due' = due \/ due' = now + Interval
        BY <1>5, <2>4 DEF AnnounceWrite
      <3>2. announcer'.pc = "wait" /\ announcer'.t = announcer.t
        BY <1>e, <3>1
      <3>3. now <= announcer.t + MaxDelay
        BY <1>0, <2>1
      <3>4. now <= due' + MaxDelay
        BY <1>0, <2>2, <3>1, <3>3
      <3>5. ~ Fresh'
        BY <3>2 DEF Fresh
      <3>6. CASE due' = due
        BY <2>1, <2>2, <3>2, <3>4, <3>5, <3>6 DEF PendingInvariant, Old
      <3>7. CASE due' = now + Interval
        <4>1. ASSUME NEW x \in DOMAIN pending
              PROVE  /\ pending[x].timestamp + Interval <= due'
                     /\ pending[x].timestamp + Interval <= due' + MaxDelay
          <5>1. pending[x].timestamp \in Nat /\ pending[x].timestamp <= announcer.t
            BY <4>1 DEF PendingInvariant
          <5> QED  BY <1>0, <3>7, <5>1
        <4> QED  BY <2>1, <2>2, <3>2, <3>4, <3>5, <4>1 DEF PendingInvariant, Old
      <3> QED  BY <3>1, <3>6, <3>7
    <2> QED  BY <2>3, <2>4
  <1>6. CASE AnnounceRecord
    <2> DEFINE id == Len(hellos) + 1
               entry == [target |-> announcer.at, timestamp |-> announcer.t,
                         expires |-> announcer.t + Interval]
               all == Store(pending, id, entry)
    <2>1. /\ announcer.pc = "record" /\ announcer' = [announcer EXCEPT !.pc = "write"]
          /\ pending' = Restrict(all, {x \in DOMAIN all : all[x].expires > announcer.t})
          /\ UNCHANGED <<now, due>>
      BY <1>6 DEF AnnounceRecord, Announcing
    <2>2. announcer'.pc = "write" /\ announcer'.at = announcer.at /\ announcer'.t = announcer.t
      BY <1>e, <2>1
    <2>3. ~ Fresh'
      BY <2>2 DEF Fresh
    <2>4. /\ entry.target = announcer.at /\ entry.timestamp = announcer.t
          /\ entry.expires = announcer.t + Interval
      OBVIOUS
    <2> HIDE DEF entry
    <2>5. \A x \in DOMAIN pending' :
             \/ /\ x \in DOMAIN pending /\ pending'[x] = pending[x]
                /\ pending[x].expires > announcer.t
             \/ x = id /\ pending'[x] = entry
      BY <2>1 DEF Restrict, Store
    <2> HIDE DEF id
    <2>6. announcer.t + Interval <= due + MaxDelay
      BY <2>1 DEF PendingInvariant
    <2>7. ASSUME NEW x \in DOMAIN pending, ~ Old(x)
          PROVE  pending[x].target < announcer.at /\ pending[x].target # announcer.at
      <3>1. pending[x].target < announcer.at
        BY <2>1, <2>7 DEF PendingInvariant
      <3>2. pending[x].target \in Nat /\ announcer.at \in Nat
        BY <1>0, <2>1, <2>7, PendingTarget
      <3> QED  BY <3>1, <3>2
    <2>8. ASSUME NEW x \in DOMAIN pending'
          PROVE  /\ pending'[x].timestamp \in Nat /\ pending'[x].timestamp <= announcer'.t
                 /\ pending'[x].expires = pending'[x].timestamp + Interval
                 /\ pending'[x].timestamp + Interval <= due' + MaxDelay
                 /\ Old(x)' => pending'[x].timestamp + Interval <= due'
                 /\ ~ Old(x)' => \/ pending'[x].target < announcer'.at
                                 \/ pending'[x].target = announcer'.at
      <3>1. CASE x \in DOMAIN pending /\ pending'[x] = pending[x]
        <4>1. /\ pending[x].timestamp \in Nat /\ pending[x].timestamp <= announcer.t
              /\ pending[x].expires = pending[x].timestamp + Interval
              /\ pending[x].timestamp + Interval <= due + MaxDelay
              /\ Old(x) => pending[x].timestamp + Interval <= due
          BY <3>1 DEF PendingInvariant
        <4> QED  BY <2>1, <2>2, <2>7, <3>1, <4>1 DEF Old
      <3>2. CASE x = id /\ pending'[x] = entry
        BY <1>0, <2>1, <2>2, <2>4, <2>6, <3>2 DEF Old
      <3> QED  BY <2>5, <3>1, <3>2
    <2>9. ASSUME NEW x \in DOMAIN pending', NEW y \in DOMAIN pending',
                 pending'[x].target = pending'[y].target,
                 pending'[x].timestamp = pending'[y].timestamp
          PROVE  x = y
      <3>1. ASSUME NEW z \in DOMAIN pending, pending[z].target = announcer.at
            PROVE  pending[z].timestamp # announcer.t
        BY <2>7, <3>1 DEF Old
      <3>2. x \in DOMAIN pending /\ y \in DOMAIN pending => x = y
        BY <2>1, <2>5, <2>9, <3>1, <2>4 DEF PendingInvariant
      <3> QED  BY <2>4, <2>5, <2>9, <3>1, <3>2
    <2>10. PICK p : \A x \in DOMAIN pending :
              Old(x) /\ (Fresh => pending[x].expires > announcer.t) => pending[x].timestamp = p
      BY DEF PendingInvariant
    <2>11. \A x \in DOMAIN pending' : Old(x)' => pending'[x].timestamp = p
      BY <2>2, <2>4, <2>5, <2>10 DEF Old
    <2>12. \E q, r : \A x \in DOMAIN pending' : pending'[x].timestamp \in {q, r}
      <3>1. PICK q : q = announcer.t
        OBVIOUS
      <3> QED  BY <2>2, <2>11, <3>1 DEF Old
    <2> QED  BY <2>1, <2>2, <2>3, <2>6, <2>8, <2>9, <2>11, <2>12 DEF PendingInvariant
  <1> QED  BY <1>1, <1>2, <1>3, <1>4, <1>5, <1>6, <1>u
           DEF Next, AnnounceCollision, AnnounceFails, StopProcess, Receive, AuthenticateRead,
               AuthenticateUpdate, LearnHello, RecordSuccess, ServeFails, LoopOnly, PruneTick, vars

(* Two entries of two rounds each. *)
LEMMA AtMostTwo ==
    ASSUME NEW S, NEW f, NEW p, NEW q, \A x \in S : f[x] \in {p, q},
           \A x, y \in S : f[x] = f[y] => x = y
    PROVE  Cardinality(S) <= 2
  <1> DEFINE a == CHOOSE x \in S : f[x] = p
             b == CHOOSE x \in S : f[x] = q
  <1>1. \A x \in S : x = a \/ x = b
    <2>1. ASSUME NEW x \in S, f[x] = p PROVE x = a
      BY <2>1
    <2>2. ASSUME NEW x \in S, f[x] = q PROVE x = b
      BY <2>2
    <2> QED  BY <2>1, <2>2
  <1> HIDE DEF a, b
  <1>2. S \subseteq {a} \cup {b}
    BY <1>1
  <1>3. IsFiniteSet({a}) /\ Cardinality({a}) = 1
    BY FS_Singleton
  <1>4. IsFiniteSet({a} \cup {b}) /\ Cardinality({a} \cup {b}) \in {1, 2}
    BY <1>3, FS_AddElement
  <1> QED  BY <1>2, <1>4, FS_Subset, FS_CardinalityType

(* Unanswered HELLOs are pending for at most two rounds, however many      *)
(* rounds pass without an answer.                                          *)
THEOREM PendingStaysBounded ==
    ASSUME RoundsFit
    PROVE  Spec => []PendingBounded
  <1>1. Init => PendingInvariant
    <2>1. SUFFICES ASSUME Init PROVE PendingInvariant
      OBVIOUS
    <2>2. announcer.pc = "wait" /\ DOMAIN pending = {} /\ now <= due + MaxDelay
      BY <2>1 DEF Init
    <2> QED  BY <2>2 DEF PendingInvariant
  <1>2. ShapeInvariant /\ AnswerInvariant /\ PendingInvariant /\ [Next]_vars => PendingInvariant'
    BY PendingStep
  <1>3. PendingInvariant => PendingBounded
    <2>1. SUFFICES ASSUME PendingInvariant, NEW j \in TargetIndices
                   PROVE  Cardinality({x \in DOMAIN pending : pending[x].target = j}) <= 2
      BY DEF PendingBounded
    <2> DEFINE S == {x \in DOMAIN pending : pending[x].target = j}
               f == [x \in S |-> pending[x].timestamp]
    <2>2. PICK p, q : \A x \in S : f[x] \in {p, q}
      BY <2>1 DEF PendingInvariant
    <2>3. \A x, y \in S : f[x] = f[y] => x = y
      BY <2>1 DEF PendingInvariant
    <2> HIDE DEF S, f
    <2>4. Cardinality(S) <= 2
      BY <2>2, <2>3, AtMostTwo
    <2> QED  BY <2>4 DEF S
  <1> QED  BY <1>1, <1>2, <1>3, ShapeHolds, AnswerHolds, PTL DEF Spec
=============================================================================
