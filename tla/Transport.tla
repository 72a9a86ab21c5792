----------------------------- MODULE Transport ------------------------------
(***************************************************************************)
(* The goroutines of internal/zerotier/transport around the registry:      *)
(*   - the UDP loop (udp.go Serve), which handles one datagram at a time:  *)
(*     the upstream manager's Handle first, then the handler's;            *)
(*   - the announcer (upstream.go Run), which sends a HELLO to every       *)
(*     endpoint of every upstream at the start and then every Interval;    *)
(*   - the ticker that prunes the registry.                                *)
(* Each step ends where a lock is released or the socket is used.          *)
(*                                                                         *)
(* Datagrams that do not parse, do not decrypt or are addressed to someone *)
(* else change nothing and are left out, as is the rate limit (module      *)
(* HelloLimiter): a HELLO it refuses is a lost one.                        *)
(*                                                                         *)
(* The network is free to lose, delay, repeat and reorder datagrams.  The  *)
(* code keeps no record of the packets it has seen and takes the address a *)
(* datagram comes from as it is: a peer may roam, and a copy of one of its *)
(* packets may come from anywhere.                                         *)
(***************************************************************************)
EXTENDS PeerRegistry, Sequences

CONSTANTS Endpoints,     \* the addresses datagrams come from
          NodeOf,        \* identity -> its node ID
          Verbs,         \* the kinds of datagram of this instance
          Configurations,\* the upstream files: the <<identity, endpoint>> pairs, in order
          Interval,      \* upstream announcement interval
          MaxDelay,      \* bound: how long a goroutine may take over one piece of work
          MaxTime        \* bound on the clock

ASSUME TransportAssumption ==
    /\ Verbs \subseteq {"hello", "other", "ok"}
    /\ Interval \in Nat \ {0} /\ MaxDelay \in Nat /\ MaxTime \in Nat
    /\ Interval + 4 * MaxDelay < SessionIdleTTL
    /\ \A c \in Configurations :
          Len(c) \in Nat \ {0} /\ Upstreams = {NodeOf[c[j][1]] : j \in 1..Len(c)}

VARIABLES targets,     \* the configuration the process was started with
          now,
          running,     \* the context of the process is not cancelled
          loop,        \* the UDP loop: [pc, d, t]
          announcer,   \* the announcer: [pc, at, t]
          due,         \* when the announcer's ticker fires next
          pending,     \* UpstreamManager.pending: packet ID -> [target, timestamp, expires]
          status,      \* UpstreamManager.status: <<peer, endpoint>> -> Pending
          hellos,      \* the HELLOs that were sent: packet ID -> [target, timestamp]
          heard,       \* history: peer -> when a packet of its session was last accepted
          successes    \* history: packet ID -> the successes recorded for its answers

vars == <<targets, sessions, lastPrune, now, running, loop, announcer, due, pending, status, hellos,
          heard, successes>>

Idle == [pc |-> "idle", d |-> Nothing, t |-> 0]
TargetIndices == 1..Len(targets)

Init ==
    /\ RegistryInit
    /\ targets \in Configurations
    /\ now = 0
    /\ running = TRUE
    /\ loop = Idle
    /\ announcer = [pc |-> "wait", at |-> 0, t |-> 0]
    /\ due = 0
    /\ pending = [id \in {} |-> {}]
    /\ status = [key \in {} |-> {}]
    /\ hellos = <<>>
    /\ heard = [n \in {} |-> {}]
    /\ successes = <<>>

-----------------------------------------------------------------------------
(* The announcer. *)

Target(j) == targets[j]
UpstreamStatusKey(peer, endpoint) == <<peer, endpoint>>
Announcing(pc) == running /\ announcer.pc = pc
AnnouncerOnly == UNCHANGED <<targets, now, loop, heard, successes>>

\* An error ends Run, and main cancels the context of everything.
StopProcess ==
    /\ running' = FALSE
    /\ UNCHANGED <<targets, sessions, lastPrune, now, loop, announcer, due, pending, status, hellos, heard,
                   successes>>

AnnounceStart ==
    /\ Announcing("wait")
    /\ now >= due
    /\ announcer' = [pc |-> "register", at |-> 1, t |-> now]
    /\ due' = due + Interval
    /\ UNCHANGED <<registry, running, pending, status, hellos>>
    /\ AnnouncerOnly

AnnounceRegister ==
    LET target == Target(announcer.at) IN
    /\ Announcing("register")
    /\ RegisterConfigured(NodeOf[target[1]], target[1], target[2], announcer.t)
    /\ announcer' = [announcer EXCEPT !.pc = "record"]
    /\ UNCHANGED <<running, due, pending, status, hellos>>
    /\ AnnouncerOnly

AnnounceCollision ==
    LET target == Target(announcer.at) IN
    /\ Announcing("register")
    /\ Collides(sessions, NodeOf[target[1]], target[1])
    /\ StopProcess

\* Recording that forgets to drop the announcements that expired.
AnnounceRecordKeepsAll ==
    LET id == Len(hellos) + 1
        target == Target(announcer.at) IN
    /\ Announcing("record")
    /\ hellos' = Append(hellos, [target |-> announcer.at, timestamp |-> announcer.t])
    /\ pending' = Store(pending, id, [target |-> announcer.at, timestamp |-> announcer.t,
                                      expires |-> announcer.t + Interval])
    /\ status' = Store(status, UpstreamStatusKey(NodeOf[target[1]], target[2]), TRUE)
    /\ successes' = Append(successes, 0)
    /\ announcer' = [announcer EXCEPT !.pc = "write"]
    /\ UNCHANGED <<targets, registry, running, due, now, loop, heard>>

\* Under the manager's lock: a fresh packet ID, the status, and the expiry of
\* older announcements.
AnnounceRecord ==
    LET id == Len(hellos) + 1
        target == Target(announcer.at)
        all == Store(pending, id, [target |-> announcer.at, timestamp |-> announcer.t,
                                   expires |-> announcer.t + Interval]) IN
    /\ Announcing("record")
    /\ hellos' = Append(hellos, [target |-> announcer.at, timestamp |-> announcer.t])
    /\ pending' = Restrict(all, {x \in DOMAIN all : all[x].expires > announcer.t})
    /\ status' = Store(status, UpstreamStatusKey(NodeOf[target[1]], target[2]), TRUE)
    /\ successes' = Append(successes, 0)
    /\ announcer' = [announcer EXCEPT !.pc = "write"]
    /\ UNCHANGED <<targets, registry, running, due, now, loop, heard>>

\* The first round is followed by the start of the ticker.
AnnounceWrite ==
    /\ Announcing("write")
    /\ IF announcer.at < Len(targets)
       THEN /\ announcer' = [pc |-> "register", at |-> announcer.at + 1, t |-> announcer.t]
            /\ UNCHANGED due
       ELSE /\ announcer' = [announcer EXCEPT !.pc = "wait"]
            /\ due' = IF Len(hellos) = Len(targets) THEN now + Interval ELSE due
    /\ UNCHANGED <<registry, running, pending, status, hellos>>
    /\ AnnouncerOnly

\* An error of the key agreement, the random packet ID, BuildHello or the write ends
\* the announcer, and with it the process.
AnnounceFails == (\E pc \in {"register", "record", "write"} : Announcing(pc)) /\ StopProcess

-----------------------------------------------------------------------------
(* The UDP loop. *)

Handling(pc) == running /\ loop.pc = pc
LoopOnly == UNCHANGED <<targets, now, running, announcer, due, hellos>>

\* What may arrive: a HELLO, another authenticated packet (a configuration request)
\* or a HELLO OK, armored by any of the identities, from any address.  Packet IDs and
\* times are not secret, so an OK may name any HELLO that was sent, to whomever.
Datagrams ==
    [verb : Verbs \ {"ok"}, from : Identities, endpoint : Endpoints, id : {0}, timestamp : {0}]
      \cup [verb : Verbs \cap {"ok"}, from : Identities, endpoint : Endpoints,
            id : 1..Len(hellos), timestamp : {hellos[x].timestamp : x \in 1..Len(hellos)}]

\* A datagram arrives.  upstream.Handle takes those of upstream node IDs; HELLOs
\* and packets of other nodes go to the handler.
Receive(d) ==
    /\ Handling("idle")
    /\ loop' = [pc |-> IF NodeOf[d.from] \in Upstreams THEN "upstream"
                       ELSE IF d.verb = "hello" THEN "hello" ELSE "authenticate",
                d |-> d, t |-> now]
    /\ UNCHANGED <<registry, pending, status, heard, successes>>
    /\ LoopOnly

\* The first section of Authenticate, for the upstream manager and the handler.
AuthenticateRead ==
    LET d == loop.d IN
    /\ Handling("upstream") \/ Handling("authenticate")
    /\ loop' = IF Authentic(NodeOf[d.from], d.from)
               THEN [loop EXCEPT !.pc = IF @ = "upstream" THEN "upstreamUpdate" ELSE "update"]
               ELSE Idle
    /\ UNCHANGED <<registry, pending, status, heard, successes>>
    /\ LoopOnly

\* The second section; then an OK goes on in the upstream manager, anything else
\* of an upstream to the handler, and a packet the handler took ends (a
\* configuration request runs in module Controller).
AuthenticateUpdate ==
    LET d == loop.d  n == NodeOf[d.from] IN
    /\ Handling("upstreamUpdate") \/ Handling("update")
    /\ Authenticated(n, d.from, d.endpoint, loop.t)
    /\ heard' = IF Authentic(n, d.from) THEN Store(heard, n, loop.t) ELSE heard
    /\ loop' = IF loop.pc = "update" THEN Idle
               ELSE [loop EXCEPT !.pc = CASE d.verb = "ok" -> "ok"
                                          [] d.verb = "hello" -> "hello"
                                          [] OTHER -> "authenticate"]
    /\ UNCHANGED <<pending, status, successes>>
    /\ LoopOnly

\* handleHello.
LearnHello ==
    LET d == loop.d  n == NodeOf[d.from] IN
    /\ Handling("hello")
    /\ LearnValidatedHello(n, d.from, d.endpoint, loop.t)
    /\ heard' = IF n \in DOMAIN sessions' /\ sessions'[n].identity = d.from
                THEN Store(heard, n, loop.t) ELSE heard
    /\ loop' = Idle
    /\ UNCHANGED <<pending, status, successes>>
    /\ LoopOnly

\* The pending HELLO that the OK names went to this peer at this endpoint, at the time
\* that the OK echoes.  The peer is compared by its node ID.
MatchesPending(d) ==
    /\ d.id \in DOMAIN pending
    /\ LET target == Target(pending[d.id].target) IN
          NodeOf[target[1]] = NodeOf[d.from] /\ target[2] = d.endpoint
    /\ pending[d.id].timestamp = d.timestamp

\* A HELLO OK that is matched against the pending HELLO without taking it.
HandleOkKeepsPending ==
    /\ Handling("ok")
    /\ loop' = IF MatchesPending(loop.d) THEN [loop EXCEPT !.pc = "success"] ELSE Idle
    /\ UNCHANGED <<registry, pending, status, heard, successes>>
    /\ LoopOnly

\* A HELLO OK takes the pending HELLO it names, and must match it.
HandleOk ==
    /\ Handling("ok")
    /\ pending' = Restrict(pending, DOMAIN pending \ {loop.d.id})
    /\ loop' = IF MatchesPending(loop.d) THEN [loop EXCEPT !.pc = "success"] ELSE Idle
    /\ UNCHANGED <<registry, status, heard, successes>>
    /\ LoopOnly

\* The manager's lock is taken again to record the success.
RecordSuccess ==
    LET d == loop.d IN
    /\ Handling("success")
    /\ status' = Store(status, UpstreamStatusKey(NodeOf[d.from], d.endpoint), FALSE)
    /\ successes' = [successes EXCEPT ![d.id] = @ + 1]
    /\ loop' = Idle
    /\ UNCHANGED <<registry, pending, heard>>
    /\ LoopOnly

\* A read or a write on the socket fails: Serve ends, and main stops the rest.
ServeFails == Handling("idle") /\ StopProcess

-----------------------------------------------------------------------------
PruneTick ==
    /\ running
    /\ Prune(now)
    /\ UNCHANGED <<targets, now, running, loop, announcer, due, pending, status, hellos, heard,
                   successes>>

\* Time passes, but no further than the goroutines' delays allow.
Tick ==
    /\ running
    /\ now < MaxTime
    /\ loop.pc # "idle" => now < loop.t + MaxDelay
    /\ IF announcer.pc = "wait" THEN now < due + MaxDelay ELSE now < announcer.t + MaxDelay
    /\ now' = now + 1
    /\ UNCHANGED <<targets, registry, running, loop, announcer, due, pending, status, hellos, heard,
                   successes>>

Next ==
    \/ AnnounceStart
    \/ AnnounceRegister
    \/ AnnounceCollision
    \/ AnnounceRecord
    \/ AnnounceWrite
    \/ AnnounceFails
    \/ \E d \in Datagrams : Receive(d)
    \/ AuthenticateRead
    \/ AuthenticateUpdate
    \/ LearnHello
    \/ HandleOk
    \/ RecordSuccess
    \/ ServeFails
    \/ PruneTick
    \/ Tick

Spec == Init /\ [][Next]_vars

-----------------------------------------------------------------------------
\* The upstream was registered in this run of the process.
Registered(n) == \E x \in 1..Len(hellos) : NodeOf[Target(hellos[x].target)[1]] = n

(* Configured upstream sessions are not evicted (SECURITY-HARDENING.md:12).*)
(* A HELLO of an upstream turns its session into a learned one, which may  *)
(* expire; the next announcement configures it again in time.              *)
UpstreamsKept == \A n \in Upstreams : Registered(n) => n \in DOMAIN sessions

(* A node ID keeps its identity as long as its session lives: a HELLO or a *)
(* registration of another identity that has the same ID is refused        *)
(* (ErrIdentityCollision) unless the session is a learned one and has been *)
(* idle for so long that the same call prunes it.                          *)
IdentityPinned ==
    [][\A n \in DOMAIN sessions \cap DOMAIN sessions' :
          sessions'[n].identity # sessions[n].identity =>
              ~ sessions[n].configured /\ now - sessions[n].lastSeen >= SessionIdleTTL]_vars

(* A session is dropped only if nothing was heard from the peer for the    *)
(* idle time, also when the pruning runs between the two sections of       *)
(* Authenticate.                                                           *)
ActiveNotEvicted ==
    [][\A n \in DOMAIN sessions \ DOMAIN sessions' :
          n \in DOMAIN heard => now - heard[n] >= SessionIdleTTL]_vars

(* The endpoint of a session is where revocations and replies go.  A       *)
(* session is moved, kept alive or created only by a packet of its own     *)
(* identity, to the endpoint that packet came from, or by an announcement, *)
(* to the endpoint configured for it; never by a packet of another         *)
(* identity that has the same node ID, and never by half of one packet and *)
(* half of another.                                                        *)
EndpointAuthenticated ==
    [][\A n \in DOMAIN sessions' :
          \/ n \in DOMAIN sessions /\ sessions'[n] = sessions[n]
          \/ /\ loop.pc # "idle"
             /\ sessions'[n].identity = loop.d.from /\ sessions'[n].endpoint = loop.d.endpoint
          \/ /\ announcer.pc = "register"
             /\ sessions'[n].identity = Target(announcer.at)[1]
             /\ sessions'[n].endpoint = Target(announcer.at)[2]]_vars

(* A HELLO OK counts once: repeated, late and misdirected answers do not   *)
(* record another success, and only an answer armored by the identity the  *)
(* HELLO went to, from the endpoint it went to, with its time, does        *)
(* (docs/UPSTREAM-DISCOVERY.md:27-30).  The code compares node IDs: that   *)
(* the identity is the configured one rests on its session, which no other *)
(* identity gets in between.                                               *)
SuccessOncePerHello ==
    /\ \A x \in 1..Len(successes) : successes[x] <= 1
    /\ loop.pc = "success" =>
          LET hello == hellos[loop.d.id] IN
          /\ Target(hello.target)[1] = loop.d.from /\ Target(hello.target)[2] = loop.d.endpoint
          /\ hello.timestamp = loop.d.timestamp

(* Unanswered announcements do not pile up: however many rounds pass, at   *)
(* most two HELLOs are pending for each target.                            *)
PendingBounded ==
    \A j \in TargetIndices :
        Cardinality({x \in DOMAIN pending : pending[x].target = j}) <= 2

=============================================================================
