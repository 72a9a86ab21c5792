----------------------------- MODULE StoreCalls -----------------------------
(***************************************************************************)
(* Clients of a store: the interface of internal/store/store.go.  A client *)
(* (an HTTP request or a configuration request) has at most one call in    *)
(* progress.  Its answer is a status and, for the reads, the set of rows   *)
(* that was read.                                                          *)
(***************************************************************************)
EXTENDS Tables

CONSTANTS Clients,
          MaxRevision,   \* bound on the revision a save may name
          NoCall         \* what a client without a call in progress holds

ASSUME MaxRevisionAssumption == MaxRevision \in Nat

VARIABLE clients         \* client -> [call, reply, rows]

Calls ==
    [op : {"createNetwork"}, n : Networks, doc : NetworkDocs]
      \cup [op : {"saveNetwork"}, n : Networks, expected : 1..MaxRevision,
            doc : NetworkDocs]
      \cup [op : {"deleteNetwork"}, n : Networks, expected : 1..MaxRevision]
      \cup [op : {"getNetwork", "listMembers"}, n : Networks]
      \cup [op : {"createMember"}, k : Keys, doc : MemberDocs]
      \cup [op : {"saveMember"}, k : Keys, expected : 1..MaxRevision,
            doc : MemberDocs]
      \cup [op : {"deleteMember"}, k : Keys, expected : 1..MaxRevision]
      \cup [op : {"getMember", "getAgentMetadata"}, k : Keys]
      \cup [op : {"upsertAgentMetadata"}, k : Keys, doc : MetadataDocs]
      \cup [op : {"listNetworks"}]

Errors == {"notFound", "alreadyExists", "conflict", "failed"}
Replies == {"none", "pending", "ok"} \cup Errors

\* A row as a read returns it, with the key it is stored under.
KeyedRows ==
    (Networks \X NetworkRows) \cup (Keys \X MemberRows)
      \cup (Nodes \X MemberRows) \cup (Keys \X MetadataDocs)

ClientsTypeOK ==
    /\ DOMAIN clients = Clients
    /\ \A c \in Clients :
         /\ clients[c] = [call |-> clients[c].call, reply |-> clients[c].reply,
                          rows |-> clients[c].rows]
         /\ clients[c].reply \in Replies
         /\ clients[c].call \in IF clients[c].reply = "pending" THEN Calls ELSE {NoCall}
         /\ clients[c].rows \subseteq KeyedRows

ClientsInit == clients = [c \in Clients |-> [call |-> NoCall, reply |-> "none", rows |-> {}]]

Calling(c, op) == clients[c].reply = "pending" /\ clients[c].call.op = op

Answer(c, reply, rows) ==
    clients' = [clients EXCEPT ![c] = [call |-> NoCall, reply |-> reply, rows |-> rows]]

Invoke(c, call) ==
    /\ clients[c].reply # "pending"
    /\ clients' = [clients EXCEPT ![c] = [call |-> call, reply |-> "pending", rows |-> {}]]
    /\ UNCHANGED tables

\* What each read returns in the present state.
RowsRead(call) ==
    CASE call.op = "getNetwork" ->
            {<<n, networks[n]>> : n \in {call.n} \cap DOMAIN networks}
      [] call.op = "listNetworks" -> {<<n, networks[n]>> : n \in DOMAIN networks}
      [] call.op = "getMember" ->
            {<<k, members[k]>> : k \in {call.k} \cap DOMAIN members}
      [] call.op = "listMembers" -> MembersOf(call.n)
      [] call.op = "getAgentMetadata" ->
            {<<k, metadata[k]>> : k \in {call.k} \cap DOMAIN metadata}
=============================================================================
