----------------------------- MODULE Revocation -----------------------------
(***************************************************************************)
(* Revoking the certificate of membership (COM) of a member that loses its *)
(* authorization: the controller service, the peer registry and the UDP    *)
(* socket together.  SetMemberAuthorization ends with a callback that runs *)
(* in the same request (cmd/ztgotroller/main.go): it signs one revocation, *)
(* lists the members of the network, builds a datagram for each one that   *)
(* has a session, and then writes the datagrams.  All that time, other     *)
(* requests go on issuing COMs, peers come and go, and the process may be  *)
(* closing its socket.                                                     *)
(*                                                                         *)
(* A COM carries the time it was issued at, a revocation the time of the   *)
(* transition (its threshold), and an agent refuses a COM that is not      *)
(* newer than a threshold it was told.                                     *)
(***************************************************************************)
EXTENDS Controller

CONSTANTS MaxClock,       \* bound on time
          NoBroadcast     \* what a worker outside the callback holds

VARIABLES clock,          \* milliseconds
          stamp,          \* worker -> UpdatedAt of the member it is about to save
          sessions,       \* the nodes that have a session in the peer registry
          udpOpen,        \* is the UDP socket open?
          broadcast,      \* worker -> the callback it runs
          issued,         \* history: the COMs issued
          announced,      \* history: the broadcasts that ran to their end
          overtaken       \* history: requests with a member row read before it lost authorization

runtime == <<clock, stamp, sessions, udpOpen, broadcast, issued, announced, overtaken>>

RevocationInit ==
    /\ Init
    /\ clock = 1
    /\ stamp = [w \in Workers |-> 0]
    /\ sessions = Nodes
    /\ udpOpen = TRUE
    /\ broadcast = [w \in Workers |-> NoBroadcast]
    /\ issued = {}
    /\ announced = {}
    /\ overtaken = {}

-----------------------------------------------------------------------------
(* Requests: the steps of Controller, and what they do to the clock values. *)

\* Configuration requests come from the one UDP loop, so one is served at a time.
Serve(w) ==
    /\ broadcast[w] = NoBroadcast
    /\ Request(w)
    /\ task'[w].op = "config" => \A v \in Workers \ {w} : task[v].op # "config"
    /\ UNCHANGED <<clock, stamp, sessions, udpOpen, broadcast, issued, announced, overtaken>>

\* SetMemberAuthorization dates the transition between its GetMember and its SaveMember.
ReadClock(w) ==
    /\ At(w, "setAuthorization", "save") /\ stamp[w] = 0
    /\ stamp' = [stamp EXCEPT ![w] = clock]
    /\ UNCHANGED <<vars, clock, sessions, udpOpen, broadcast, issued, announced, overtaken>>

\* The requests for a configuration of k that have read its row.
Reading(k) ==
    {w \in Workers : /\ task[w].op = "config" /\ task[w].k = k
                     /\ task[w].pc \notin {"register", "create", "registerReget"}}

SaveAuthorization(w) ==
    LET k == task[w].k IN
    /\ stamp[w] # 0
    /\ SetAuthorizationSave(w)
    /\ overtaken' = IF members' # members /\ ~ task[w].doc.authorized
                    THEN overtaken \cup Reading(k) ELSE overtaken
    /\ stamp' = IF task'[w] = Idle THEN [stamp EXCEPT ![w] = 0] ELSE stamp
    /\ UNCHANGED <<clock, sessions, udpOpen, broadcast, issued, announced>>

\* The time of the announcement.
ThresholdNow(w) == clock

\* The time of the transition, member.UpdatedAt.
Threshold(w) == stamp[w]

\* The callback of w at its start.  todo are the members still to be looked up and
\* out the datagrams to be written; history: the revision that the transition wrote,
\* and due, the members with a session all along that have not been sent theirs.
NewCOMRevocation(w) ==
    [pc |-> "list", k |-> task[w].k, threshold |-> Threshold(w), todo |-> {}, out |-> {},
     revision |-> task[w].member.revision + 1, due |-> {}]

\* The final GetMember and, if it succeeds, the call of onDeauthorize.
Deauthorized(w) ==
    LET k == task[w].k IN
    /\ SetAuthorizationReget(w)
    /\ broadcast' = IF k \in DOMAIN members /\ ~ task[w].doc.authorized
                    THEN [broadcast EXCEPT ![w] = NewCOMRevocation(w)]
                    ELSE broadcast
    /\ stamp' = [stamp EXCEPT ![w] = 0]
    /\ UNCHANGED <<clock, sessions, udpOpen, issued, announced, overtaken>>

\* NewMembershipCredential: the COM is dated when the reply is put together, after
\* the last read.
IssueCOM(w) ==
    LET k == task[w].k IN
    /\ ConfigIssue(w)
    /\ issued' = IF CanIssue(task[w], Listed(k[1]))
                 THEN issued \cup {[k |-> k, at |-> clock, revision |-> task[w].member.revision,
                                    inFlight |-> w \in overtaken,
                                    entitled |-> k \in DOMAIN members
                                                   /\ members[k].doc.authorized]}
                 ELSE issued
    /\ overtaken' = overtaken \ {w}
    /\ UNCHANGED <<clock, stamp, sessions, udpOpen, broadcast, announced>>

\* Every other step, and the failure of a store call.
Proceed(w) ==
    /\ \/ /\ ~ At(w, "setAuthorization", "save")
          /\ ~ At(w, "setAuthorization", "bumped")
          /\ ~ At(w, "config", "list")
          /\ Step(w)
       \/ IpamLock(w)
       \/ Fail(w)
    /\ overtaken' = IF task'[w] = Idle THEN overtaken \ {w} ELSE overtaken
    /\ stamp' = IF task'[w] = Idle THEN [stamp EXCEPT ![w] = 0] ELSE stamp
    /\ UNCHANGED <<clock, sessions, udpOpen, broadcast, issued, announced>>

-----------------------------------------------------------------------------
(* The callback: BuildCOMRevocationBroadcast, then the writes. *)

InBroadcast(w, pc) == broadcast[w] # NoBroadcast /\ broadcast[w].pc = pc

\* The callback b once it has listed the members.
Sending(b, todo, out, due) ==
    [pc |-> "build", k |-> b.k, threshold |-> b.threshold, todo |-> todo, out |-> out,
     revision |-> b.revision, due |-> due]

BroadcastOnly == UNCHANGED <<vars, clock, stamp, sessions, udpOpen, issued, overtaken>>

ListRecipients(w) ==
    LET n == broadcast[w].k[1]  listed == {x[1] : x \in Listed(n)} IN
    /\ InBroadcast(w, "list") /\ ~ ListFails(n)
    /\ broadcast' = [broadcast EXCEPT ![w] = Sending(@, listed, {}, listed \cap sessions)]
    /\ UNCHANGED announced
    /\ BroadcastOnly

\* The revocation cannot be signed, the members cannot be listed (the network is gone,
\* the request was cancelled), or the datagram of a member with a session cannot be built: the error
\* is logged and nothing is sent to anyone.
BroadcastFails(w) ==
    /\ \/ InBroadcast(w, "list")
       \/ InBroadcast(w, "build") /\ broadcast[w].todo \cap sessions # {}
    /\ broadcast' = [broadcast EXCEPT ![w] = NoBroadcast]
    /\ UNCHANGED announced
    /\ BroadcastOnly

\* The loop ends at the first member without a session.
BuildForStops(w, i) ==
    LET b == broadcast[w] IN
    /\ InBroadcast(w, "build") /\ i \in b.todo
    /\ broadcast' = [broadcast EXCEPT ![w] =
                        IF i \in sessions THEN Sending(b, b.todo \ {i}, b.out \cup {i}, b.due)
                        ELSE Sending(b, {}, b.out, b.due)]
    /\ UNCHANGED announced
    /\ BroadcastOnly

\* peers.Get: a member without a session is passed over.
BuildFor(w, i) ==
    LET b == broadcast[w] IN
    /\ InBroadcast(w, "build") /\ i \in b.todo
    /\ broadcast' = [broadcast EXCEPT ![w] =
                        Sending(b, b.todo \ {i}, b.out \cup ({i} \cap sessions), b.due)]
    /\ UNCHANGED announced
    /\ BroadcastOnly

\* A datagram that cannot be written is only logged.
WriteTo(w, i) ==
    LET b == broadcast[w] IN
    /\ InBroadcast(w, "build") /\ b.todo = {} /\ i \in b.out
    /\ broadcast' = [broadcast EXCEPT ![w] =
                        Sending(b, {}, b.out \ {i}, IF udpOpen THEN b.due \ {i} ELSE b.due)]
    /\ UNCHANGED announced
    /\ BroadcastOnly

Return(w) ==
    LET b == broadcast[w] IN
    /\ InBroadcast(w, "build") /\ b.todo = {} /\ b.out = {}
    /\ broadcast' = [broadcast EXCEPT ![w] = NoBroadcast]
    /\ announced' = announced \cup {[k |-> b.k, threshold |-> b.threshold,
                         revision |-> b.revision, missed |-> b.due]}
    /\ BroadcastOnly

-----------------------------------------------------------------------------
(* The surroundings. *)

Tick ==
    /\ clock < MaxClock
    /\ clock' = clock + 1
    /\ UNCHANGED <<vars, stamp, sessions, udpOpen, broadcast, issued, announced, overtaken>>

\* A node says HELLO and gets a session.
Connect(i) ==
    /\ i \notin sessions
    /\ sessions' = sessions \cup {i}
    /\ UNCHANGED <<vars, clock, stamp, udpOpen, broadcast, issued, announced, overtaken>>

\* pruneLocked: a session that was idle for too long is removed.
Disconnect(i) ==
    /\ i \in sessions
    /\ sessions' = sessions \ {i}
    /\ broadcast' = [w \in Workers |->
                        IF broadcast[w] = NoBroadcast THEN NoBroadcast
                        ELSE [broadcast[w] EXCEPT !.due = @ \ {i}]]
    /\ UNCHANGED <<vars, clock, stamp, udpOpen, issued, announced, overtaken>>

\* run returns while a request is still in its callback.
CloseSocket ==
    /\ udpOpen
    /\ udpOpen' = FALSE
    /\ UNCHANGED <<vars, clock, stamp, sessions, broadcast, issued, announced, overtaken>>

RevocationNext ==
    \/ \E w \in Workers :
          \/ Serve(w) \/ ReadClock(w) \/ SaveAuthorization(w) \/ Deauthorized(w)
          \/ IssueCOM(w) \/ Proceed(w)
          \/ ListRecipients(w) \/ BroadcastFails(w) \/ Return(w)
          \/ \E i \in Nodes : BuildFor(w, i) \/ WriteTo(w, i)
    \/ \E i \in Nodes : Connect(i) \/ Disconnect(i)
    \/ Tick
    \/ CloseSocket

RevocationSpec == RevocationInit /\ [][RevocationNext]_<<vars, runtime>>

-----------------------------------------------------------------------------
(* Properties. *)

(* A revocation takes effect on what was issued before the transition and  *)
(* on nothing that follows a new authorization (docs/SCHEMA.md:60-63: "the *)
(* transition timestamp as its threshold").  It may be sent long after the *)
(* member was authorized again and has a new COM: that COM is not older    *)
(* than the threshold (service.go:182-197).                                *)
ReauthorizationHolds ==
    \A a \in announced, c \in issued :
        c.k = a.k /\ c.revision > a.revision => c.at >= a.threshold

(* A COM issued to a member that is not authorized any more comes from a   *)
(* request that had read the row before the transition was saved.  It may  *)
(* be newer than the threshold of the revocation, which does not reach it; *)
(* no request that begins later can obtain one (config.go:51-88).          *)
UnentitledOnlyInFlight ==
    \A c \in issued : c.entitled \/ c.inFlight

(* A broadcast that runs to its end while the socket is open has sent the  *)
(* revocation to every member of the network that had a session all along, *)
(* whichever other sessions come and go meanwhile (transport/revocation.go:*)
(* 42-67, main.go:91-95).                                                  *)
RevocationReachesMembers ==
    udpOpen => \A a \in announced : a.missed = {}
=============================================================================
