---------------------------- MODULE PeerRegistry ----------------------------
(***************************************************************************)
(* Sessions with peers, internal/zerotier/peer/registry.go.  A session is  *)
(* learned from a HELLO or configured for an upstream, refreshed by every  *)
(* packet that authenticates, and dropped when it was idle for too long.   *)
(*                                                                         *)
(* Each method is one critical section of Registry.mu, except Authenticate,*)
(* which reads the session, decrypts without the lock, and writes back.    *)
(* A session key follows from the two identities, so a packet decrypts     *)
(* exactly if its sender has the identity of the session; two identities   *)
(* may share a node ID, which is only 40 bits long.                        *)
(***************************************************************************)
EXTENDS Integers, FiniteSetsExt, Functions

CONSTANTS Peers,                \* node IDs
          Identities,           \* identities that hold one of these IDs
          Upstreams,            \* the configured peers
          SessionIdleTTL, SessionPruneEvery, MaxRegistrySessions,
          Nothing               \* no session; never pruned

ASSUME RegistryAssumption ==
    /\ Upstreams \subseteq Peers
    /\ SessionIdleTTL \in Nat /\ SessionPruneEvery \in Nat /\ MaxRegistrySessions \in Nat

VARIABLES sessions,    \* node ID -> [identity, endpoint, lastSeen, configured]
          lastPrune    \* the time of the last pruning, or Nothing

registry == <<sessions, lastPrune>>

RegistryInit == sessions = [n \in {} |-> {}] /\ lastPrune = Nothing

Session(identity, endpoint, t, configured) ==
    [identity |-> identity, endpoint |-> endpoint, lastSeen |-> t, configured |-> configured]

Store(table, n, session) ==
    [x \in DOMAIN table \cup {n} |-> IF x = n THEN session ELSE table[x]]

Collides(table, n, identity) == n \in DOMAIN table /\ table[n].identity # identity

\* A registration that leaves an existing session as it is.
RegisterConfiguredOnce(n, identity, endpoint, t) ==
    /\ ~ Collides(sessions, n, identity)
    /\ sessions' = IF n \in DOMAIN sessions THEN sessions
                   ELSE Store(sessions, n, Session(identity, endpoint, t, TRUE))
    /\ UNCHANGED lastPrune

\* RegisterConfigured replaces the session; it has no capacity limit.
RegisterConfigured(n, identity, endpoint, t) ==
    /\ ~ Collides(sessions, n, identity)
    /\ sessions' = Store(sessions, n, Session(identity, endpoint, t, TRUE))
    /\ UNCHANGED lastPrune

\* The sessions that pruning at time t leaves.
Pruned(t) ==
    Restrict(sessions, {n \in DOMAIN sessions :
                           \/ sessions[n].configured
                           \/ t - sessions[n].lastSeen < SessionIdleTTL})

\* pruneLocked without force: at most once every SessionPruneEvery.
PruneDue(t) == lastPrune = Nothing \/ t - lastPrune >= SessionPruneEvery

\* Prune, of the ticker in udp.go.
Prune(t) ==
    /\ sessions' = Pruned(t)
    /\ lastPrune' = t

\* A capacity limit that looks at the table before the pruning makes room, and
\* refuses only beyond the limit.
LearnValidatedHelloOffByOne(n, identity, endpoint, t) ==
    LET table == IF PruneDue(t) THEN Pruned(t) ELSE sessions
        refused == \/ Collides(table, n, identity)
                   \/ n \notin DOMAIN table /\ Cardinality(DOMAIN table) > MaxRegistrySessions IN
    /\ lastPrune' = IF PruneDue(t) THEN t ELSE lastPrune
    /\ sessions' = IF refused THEN table
                   ELSE Store(table, n, Session(identity, endpoint, t, FALSE))

\* A HELLO of another identity takes over the node ID.
LearnValidatedHelloTakesOver(n, identity, endpoint, t) ==
    LET table == IF PruneDue(t) THEN Pruned(t) ELSE sessions
        refused == n \notin DOMAIN table /\ Cardinality(DOMAIN table) >= MaxRegistrySessions IN
    /\ lastPrune' = IF PruneDue(t) THEN t ELSE lastPrune
    /\ sessions' = IF refused THEN table
                   ELSE Store(table, n, Session(identity, endpoint, t, FALSE))

\* LearnValidatedHello prunes, refuses a collision or a new peer beyond the limit,
\* and replaces the session.  Also the session of a configured upstream becomes a
\* learned one.
LearnValidatedHello(n, identity, endpoint, t) ==
    LET table == IF PruneDue(t) THEN Pruned(t) ELSE sessions
        refused == \/ Collides(table, n, identity)
                   \/ n \notin DOMAIN table /\ Cardinality(DOMAIN table) >= MaxRegistrySessions IN
    /\ lastPrune' = IF PruneDue(t) THEN t ELSE lastPrune
    /\ sessions' = IF refused THEN table
                   ELSE Store(table, n, Session(identity, endpoint, t, FALSE))

\* A packet that passes for the session of its node ID, whoever armored it.
AuthenticKnown(n, identity) == n \in DOMAIN sessions

\* Authenticate, first section: the session that will check the packet.
Authentic(n, identity) == n \in DOMAIN sessions /\ sessions[n].identity = identity

\* A second section that forgets to refresh the time.
AuthenticatedKeepsLastSeen(n, identity, endpoint, t) ==
    /\ sessions' = IF Authentic(n, identity)
                   THEN [sessions EXCEPT ![n].endpoint = endpoint]
                   ELSE sessions
    /\ UNCHANGED lastPrune

\* Authenticate, second section.  The session may have gone, or have been replaced
\* by that of another identity, while the packet was decrypted.
Authenticated(n, identity, endpoint, t) ==
    /\ sessions' = IF Authentic(n, identity)
                   THEN Store(sessions, n, Session(sessions[n].identity, endpoint, t,
                                                   sessions[n].configured))
                   ELSE sessions
    /\ UNCHANGED lastPrune

-----------------------------------------------------------------------------
(* Registry.List and Registry.Get only read, under the lock. *)

(* The registry is bounded (docs/SECURITY-HARDENING.md:11-12): beyond the  *)
(* sessions of configured upstreams there are never more than the limit,   *)
(* also when upstreams are registered while the registry is full.          *)
SessionsBounded ==
    Cardinality(DOMAIN sessions \ Upstreams) <= MaxRegistrySessions
=============================================================================
