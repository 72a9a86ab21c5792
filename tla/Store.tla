------------------------------- MODULE Store --------------------------------
(***************************************************************************)
(* The contract of internal/store/store.go: what a caller may rely on      *)
(* whichever implementation it talks to.  A mutation either takes effect   *)
(* in one atomic step that also decides its success, or it answers with an *)
(* error and leaves the tables as they are.  A read returns one consistent *)
(* snapshot.                                                               *)
(***************************************************************************)
EXTENDS StoreCalls

vars == <<networks, members, metadata, clients>>

(***************************************************************************)
(* The effect of a successful mutation: creation where there is no row,    *)
(* saves and deletes only with the current revision, metadata only for an  *)
(* existing member.                                                        *)
(***************************************************************************)
Effect(call) ==
    \/ /\ call.op = "createNetwork"
       /\ call.n \notin DOMAIN networks
       /\ CreateNetwork(call.n, call.doc)
    \/ /\ call.op = "saveNetwork"
       /\ IsCurrent(networks, call.n, call.expected)
       /\ SaveNetwork(call.n, call.expected, call.doc)
    \/ /\ call.op = "deleteNetwork"
       /\ IsCurrent(networks, call.n, call.expected)
       /\ DeleteNetwork(call.n)
    \/ /\ call.op = "createMember"
       /\ call.k[1] \in DOMAIN networks
       /\ call.k \notin DOMAIN members
       /\ CreateMember(call.k, call.doc)
    \/ /\ call.op = "saveMember"
       /\ IsCurrent(members, call.k, call.expected)
       /\ SaveMember(call.k, call.expected, call.doc)
    \/ /\ call.op = "deleteMember"
       /\ IsCurrent(members, call.k, call.expected)
       /\ DeleteMember(call.k)
    \/ /\ call.op = "upsertAgentMetadata"
       /\ call.k \in DOMAIN members
       /\ UpsertAgentMetadata(call.k, call.doc)

Mutate(c) ==
    /\ clients[c].reply = "pending"
    /\ Effect(clients[c].call)
    /\ Answer(c, "ok", {})

(***************************************************************************)
(* A read.  The list of a missing network may be empty or an error: SQLite *)
(* checks the network in one statement and selects in the next.            *)
(***************************************************************************)
Read(c) ==
    LET call == clients[c].call IN
    /\ clients[c].reply = "pending"
    /\ call.op \in {"getNetwork", "listNetworks", "getMember", "listMembers",
                    "getAgentMetadata"}
    /\ call.op \in {"getNetwork", "getMember", "getAgentMetadata"} => RowsRead(call) # {}
    /\ Answer(c, "ok", RowsRead(call))
    /\ UNCHANGED tables

(***************************************************************************)
(* The errors a call may return in the present state.  A conflict says     *)
(* that the row exists, and no more: an implementation may notice the      *)
(* stale revision first and look for the row afterwards.                   *)
(***************************************************************************)
AllowedErrors(call) ==
    {e \in Errors :
        \/ e = "failed"
        \/ /\ e = "notFound"
           /\ \/ /\ call.op \in {"saveNetwork", "deleteNetwork", "getNetwork", "listMembers"}
                 /\ call.n \notin DOMAIN networks
              \/ /\ call.op \in {"saveMember", "deleteMember", "getMember",
                                 "upsertAgentMetadata"}
                 /\ call.k \notin DOMAIN members
              \/ call.op = "createMember" /\ call.k[1] \notin DOMAIN networks
              \/ call.op = "getAgentMetadata" /\ call.k \notin DOMAIN metadata
        \/ /\ e = "alreadyExists"
           /\ \/ call.op = "createNetwork" /\ call.n \in DOMAIN networks
              \/ call.op = "createMember" /\ call.k \in DOMAIN members
        \/ /\ e = "conflict"
           /\ \/ call.op \in {"saveNetwork", "deleteNetwork"} /\ call.n \in DOMAIN networks
              \/ call.op \in {"saveMember", "deleteMember"} /\ call.k \in DOMAIN members}

Refuse(c) ==
    /\ clients[c].reply = "pending"
    /\ \E e \in AllowedErrors(clients[c].call) : Answer(c, e, {})
    /\ UNCHANGED tables

Init == TablesInit /\ ClientsInit

Next ==
    \E c \in Clients :
        \/ \E call \in Calls : Invoke(c, call)
        \/ Mutate(c)
        \/ Read(c)
        \/ Refuse(c)

Spec == Init /\ [][Next]_vars
=============================================================================
