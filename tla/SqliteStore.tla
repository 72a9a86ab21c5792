---------------------------- MODULE SqliteStore -----------------------------
(***************************************************************************)
(* internal/store/sqlite/sqlite.go.  The pool has one connection, so SQL   *)
(* statements run one at a time, and each commits by itself.  Three kinds  *)
(* of operation take two statements, between which any other client's      *)
(* statement may run:                                                      *)
(*   - CreateMember and ListMembers look for the network first;            *)
(*   - a save or a delete that matched no row asks afterwards whether the  *)
(*     row exists, to tell a conflict from a missing row.                  *)
(***************************************************************************)
EXTENDS StoreCalls

VARIABLE stmt            \* client -> the statement its call runs next

vars == <<networks, members, metadata, clients, stmt>>

Statements == {"first", "rowExists", "insert", "select"}

Init == TablesInit /\ ClientsInit /\ stmt = [c \in Clients |-> "first"]

TypeOK ==
    /\ TablesTypeOK
    /\ ClientsTypeOK
    /\ stmt \in [Clients -> Statements]

-----------------------------------------------------------------------------
At(c, op, s) == Calling(c, op) /\ stmt[c] = s

\* The call returns; the next one of this client starts at its first statement.
Return(c, reply, rows) ==
    /\ Answer(c, reply, rows)
    /\ stmt' = [stmt EXCEPT ![c] = "first"]

Continue(c, s) ==
    /\ stmt' = [stmt EXCEPT ![c] = s]
    /\ UNCHANGED <<tables, clients>>

StartCall(c, call) == Invoke(c, call) /\ UNCHANGED stmt

\* INSERT OR IGNORE, then creationResult on the number of rows affected.
SqlCreateNetwork(c) ==
    LET call == clients[c].call IN
    /\ At(c, "createNetwork", "first")
    /\ \/ /\ call.n \notin DOMAIN networks
          /\ CreateNetwork(call.n, call.doc)
          /\ Return(c, "ok", {})
       \/ /\ call.n \in DOMAIN networks
          /\ Return(c, "alreadyExists", {})
          /\ UNCHANGED tables

SqlCreateMemberCheck(c) ==
    LET call == clients[c].call IN
    /\ At(c, "createMember", "first")
    /\ \/ call.k[1] \in DOMAIN networks /\ Continue(c, "insert")
       \/ /\ call.k[1] \notin DOMAIN networks
          /\ Return(c, "notFound", {})
          /\ UNCHANGED tables

\* The INSERT without the foreign key of the schema: a member whose network
\* disappeared after the check is stored all the same.
SqlCreateMemberUnchecked(c) ==
    LET call == clients[c].call IN
    /\ At(c, "createMember", "insert")
    /\ \/ /\ call.k \notin DOMAIN members
          /\ CreateMember(call.k, call.doc)
          /\ Return(c, "ok", {})
       \/ /\ call.k \in DOMAIN members
          /\ Return(c, "alreadyExists", {})
          /\ UNCHANGED tables

\* INSERT OR IGNORE: a duplicate key is ignored, but a foreign key whose network
\* has gone meanwhile fails the statement.
SqlCreateMember(c) ==
    LET call == clients[c].call IN
    /\ At(c, "createMember", "insert")
    /\ \/ /\ call.k[1] \in DOMAIN networks
          /\ call.k \notin DOMAIN members
          /\ CreateMember(call.k, call.doc)
          /\ Return(c, "ok", {})
       \/ /\ call.k \in DOMAIN members
          /\ Return(c, "alreadyExists", {})
          /\ UNCHANGED tables
       \/ /\ call.k[1] \notin DOMAIN networks
          /\ Return(c, "failed", {})
          /\ UNCHANGED tables

\* UPDATE or DELETE ... WHERE key AND revision: the statement matches the row
\* only at the expected revision; otherwise mutationResult asks rowExists.
SqlSaveNetwork(c) ==
    LET call == clients[c].call IN
    /\ At(c, "saveNetwork", "first")
    /\ \/ /\ IsCurrent(networks, call.n, call.expected)
          /\ SaveNetwork(call.n, call.expected, call.doc)
          /\ Return(c, "ok", {})
       \/ /\ ~ IsCurrent(networks, call.n, call.expected)
          /\ Continue(c, "rowExists")

SqlDeleteNetwork(c) ==
    LET call == clients[c].call IN
    /\ At(c, "deleteNetwork", "first")
    /\ \/ /\ IsCurrent(networks, call.n, call.expected)
          /\ DeleteNetwork(call.n)
          /\ Return(c, "ok", {})
       \/ /\ ~ IsCurrent(networks, call.n, call.expected)
          /\ Continue(c, "rowExists")

\* A save that tries again when its revision is stale.
SqlSaveMemberRetries(c) ==
    LET call == clients[c].call IN
    /\ At(c, "saveMember", "first")
    /\ \/ /\ IsCurrent(members, call.k, call.expected)
          /\ SaveMember(call.k, call.expected, call.doc)
          /\ Return(c, "ok", {})
       \/ /\ ~ IsCurrent(members, call.k, call.expected)
          /\ Continue(c, "first")

SqlSaveMember(c) ==
    LET call == clients[c].call IN
    /\ At(c, "saveMember", "first")
    /\ \/ /\ IsCurrent(members, call.k, call.expected)
          /\ SaveMember(call.k, call.expected, call.doc)
          /\ Return(c, "ok", {})
       \/ /\ ~ IsCurrent(members, call.k, call.expected)
          /\ Continue(c, "rowExists")

SqlDeleteMember(c) ==
    LET call == clients[c].call IN
    /\ At(c, "deleteMember", "first")
    /\ \/ /\ IsCurrent(members, call.k, call.expected)
          /\ DeleteMember(call.k)
          /\ Return(c, "ok", {})
       \/ /\ ~ IsCurrent(members, call.k, call.expected)
          /\ Continue(c, "rowExists")

\* mutationResult after a statement that affected no row.
NetworkMutationResult(c) ==
    LET exists == clients[c].call.n \in DOMAIN networks IN
    /\ At(c, "saveNetwork", "rowExists") \/ At(c, "deleteNetwork", "rowExists")
    /\ Return(c, IF exists THEN "conflict" ELSE "notFound", {})
    /\ UNCHANGED tables

\* Every statement that affected no row counts as a missing row.
MemberMutationResultNotFound(c) ==
    /\ At(c, "saveMember", "rowExists") \/ At(c, "deleteMember", "rowExists")
    /\ Return(c, "notFound", {})
    /\ UNCHANGED tables

MemberMutationResult(c) ==
    LET exists == clients[c].call.k \in DOMAIN members IN
    /\ At(c, "saveMember", "rowExists") \/ At(c, "deleteMember", "rowExists")
    /\ Return(c, IF exists THEN "conflict" ELSE "notFound", {})
    /\ UNCHANGED tables

\* One statement: INSERT ... SELECT ... WHERE EXISTS ... ON CONFLICT DO UPDATE.
SqlUpsertAgentMetadata(c) ==
    LET call == clients[c].call IN
    /\ At(c, "upsertAgentMetadata", "first")
    /\ \/ /\ call.k \in DOMAIN members
          /\ UpsertAgentMetadata(call.k, call.doc)
          /\ Return(c, "ok", {})
       \/ /\ call.k \notin DOMAIN members
          /\ Return(c, "notFound", {})
          /\ UNCHANGED tables

\* GetNetwork, GetMember and GetAgentMetadata: one SELECT, no row is ErrNotFound.
SqlGet(c) ==
    LET rows == RowsRead(clients[c].call) IN
    /\ \E op \in {"getNetwork", "getMember", "getAgentMetadata"} : At(c, op, "first")
    /\ Return(c, IF rows = {} THEN "notFound" ELSE "ok", rows)
    /\ UNCHANGED tables

SqlListNetworks(c) ==
    /\ At(c, "listNetworks", "first")
    /\ Return(c, "ok", RowsRead(clients[c].call))
    /\ UNCHANGED tables

SqlListMembersCheck(c) ==
    /\ At(c, "listMembers", "first")
    /\ \/ clients[c].call.n \in DOMAIN networks /\ Continue(c, "select")
       \/ /\ clients[c].call.n \notin DOMAIN networks
          /\ Return(c, "notFound", {})
          /\ UNCHANGED tables

SqlListMembers(c) ==
    /\ At(c, "listMembers", "select")
    /\ Return(c, "ok", RowsRead(clients[c].call))
    /\ UNCHANGED tables

\* A cancelled context, or an error of the database, before any statement.  That a
\* statement which fails has changed nothing is an assumption on the driver: an error
\* after the row changed (RowsAffected, or a cancellation noticed too late) is outside
\* the model.
Fail(c) ==
    /\ clients[c].reply = "pending"
    /\ Return(c, "failed", {})
    /\ UNCHANGED tables

-----------------------------------------------------------------------------
Step(c) ==
    \/ SqlCreateNetwork(c)
    \/ SqlSaveNetwork(c)
    \/ SqlDeleteNetwork(c)
    \/ SqlCreateMemberCheck(c)
    \/ SqlCreateMember(c)
    \/ SqlSaveMember(c)
    \/ SqlDeleteMember(c)
    \/ NetworkMutationResult(c)
    \/ MemberMutationResult(c)
    \/ SqlUpsertAgentMetadata(c)
    \/ SqlGet(c)
    \/ SqlListNetworks(c)
    \/ SqlListMembersCheck(c)
    \/ SqlListMembers(c)

Next ==
    \E c \in Clients :
        \/ \E call \in Calls : StartCall(c, call)
        \/ Step(c)
        \/ Fail(c)

Spec == Init /\ [][Next]_vars

\* A goroutine inside a call keeps running: the connection goes round.
FairSpec == Spec /\ \A c \in Clients : WF_vars(Step(c))

-----------------------------------------------------------------------------
Contract == INSTANCE Store

(* Every run of SQL statements is a run of the contract: although a call   *)
(* may span two statements, its effect and its success are decided         *)
(* together, its errors are ones the contract allows at the moment they    *)
(* are returned, and a refused call changes nothing (store.go:16-20).      *)
ImplementsContract == Contract!Spec

(* Every call returns, whatever the other clients do between its           *)
(* statements: no operation of sqlite.go loops or waits for another one.   *)
CallsReturn == \A c \in Clients : clients[c].reply = "pending" ~> clients[c].reply # "pending"
=============================================================================
