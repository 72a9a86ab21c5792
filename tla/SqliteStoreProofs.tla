------------------------- MODULE SqliteStoreProofs --------------------------
(***************************************************************************)
(* Theorems about the stores, for any sets of networks, nodes, documents   *)
(* and clients.  First, what the mutations of Tables preserve by           *)
(* themselves, in any order: types, referential integrity (inductive       *)
(* together with the types, since a key of members is a pair) and the      *)
(* discipline of revisions.  Then the SQLite store: although a call may    *)
(* take two statements, every step is a step of the tables, so all this    *)
(* carries over; and every step is a step of the contract or leaves its    *)
(* state unchanged.                                                        *)
(***************************************************************************)
EXTENDS SqliteStore, TLAPS

(* Put keeps the type of a table. *)
LEMMA PutType ==
    ASSUME NEW table, NEW k, NEW row, NEW R, NEW K,
           table \in [DOMAIN table -> R], DOMAIN table \subseteq K, row \in R, k \in K
    PROVE  /\ Put(table, k, row) \in [DOMAIN Put(table, k, row) -> R]
           /\ DOMAIN Put(table, k, row) \subseteq K
    BY DEF Put

(* Restrict keeps the type of a table. *)
LEMMA RestrictType ==
    ASSUME NEW table, NEW S, NEW R, NEW K,
           table \in [DOMAIN table -> R], DOMAIN table \subseteq K, S \subseteq DOMAIN table
    PROVE  /\ Restrict(table, S) \in [DOMAIN Restrict(table, S) -> R]
           /\ DOMAIN Restrict(table, S) \subseteq K
    BY DEF Restrict

-----------------------------------------------------------------------------
(* Every step of the tables keeps their types. *)
LEMMA TablesTypeStep ==
    ASSUME TablesTypeOK, [TablesNext]_tables
    PROVE  TablesTypeOK'
  <1> USE DEF TablesTypeOK
  <1>1. CASE UNCHANGED tables
    BY <1>1 DEF tables
  <1>2. ASSUME NEW n \in Networks, NEW doc \in NetworkDocs, CreateNetwork(n, doc)
        PROVE  TablesTypeOK'
    <2>1. [revision |-> 1, doc |-> doc] \in NetworkRows
      BY DEF NetworkRows, Revisions
    <2> QED  BY <1>2, <2>1, PutType DEF CreateNetwork
  <1>3. ASSUME NEW n \in Networks, NEW r \in Revisions, NEW doc \in NetworkDocs,
               SaveNetwork(n, r, doc)
        PROVE  TablesTypeOK'
    <2>1. [revision |-> r + 1, doc |-> doc] \in NetworkRows
      BY DEF NetworkRows, Revisions
    <2> QED  BY <1>3, <2>1, PutType DEF SaveNetwork
  <1>4. ASSUME NEW n \in Networks, DeleteNetwork(n)
        PROVE  TablesTypeOK'
    BY <1>4, RestrictType DEF DeleteNetwork
  <1>5. ASSUME NEW k \in Keys, NEW doc \in MemberDocs, CreateMember(k, doc)
        PROVE  TablesTypeOK'
    <2>1. [revision |-> 1, doc |-> doc] \in MemberRows
      BY DEF MemberRows, Revisions
    <2> QED  BY <1>5, <2>1, PutType DEF CreateMember
  <1>6. ASSUME NEW k \in Keys, NEW r \in Revisions, NEW doc \in MemberDocs,
               SaveMember(k, r, doc)
        PROVE  TablesTypeOK'
    <2>1. [revision |-> r + 1, doc |-> doc] \in MemberRows
      BY DEF MemberRows, Revisions
    <2> QED  BY <1>6, <2>1, PutType DEF SaveMember
  <1>7. ASSUME NEW k \in Keys, DeleteMember(k)
        PROVE  TablesTypeOK'
    BY <1>7, RestrictType DEF DeleteMember
  <1>8. ASSUME NEW k \in Keys, NEW doc \in MetadataDocs, UpsertAgentMetadata(k, doc)
        PROVE  TablesTypeOK'
    BY <1>8, PutType DEF UpsertAgentMetadata
  <1> QED  BY <1>1, <1>2, <1>3, <1>4, <1>5, <1>6, <1>7, <1>8 DEF TablesNext

(* Every step of the tables keeps members inside networks and metadata     *)
(* with members.                                                           *)
LEMMA ReferentialIntegrityStep ==
    ASSUME TablesTypeOK, ReferentialIntegrity, [TablesNext]_tables
    PROVE  ReferentialIntegrity'
  <1> USE DEF ReferentialIntegrity
  <1>1. CASE UNCHANGED tables
    BY <1>1 DEF tables
  <1>2. ASSUME NEW n \in Networks, NEW doc \in NetworkDocs, CreateNetwork(n, doc)
        PROVE  ReferentialIntegrity'
    BY <1>2 DEF CreateNetwork, Put
  <1>3. ASSUME NEW n \in Networks, NEW r \in Revisions, NEW doc \in NetworkDocs,
               SaveNetwork(n, r, doc)
        PROVE  ReferentialIntegrity'
    BY <1>3 DEF SaveNetwork, Put
  <1>4. ASSUME NEW n \in Networks, DeleteNetwork(n)
        PROVE  ReferentialIntegrity'
    BY <1>4 DEF DeleteNetwork, Restrict
  <1>5. ASSUME NEW k \in Keys, NEW doc \in MemberDocs,
               k[1] \in DOMAIN networks, CreateMember(k, doc)
        PROVE  ReferentialIntegrity'
    BY <1>5 DEF CreateMember, Put
  <1>6. ASSUME NEW k \in Keys, NEW r \in Revisions, NEW doc \in MemberDocs,
               IsCurrent(members, k, r), SaveMember(k, r, doc)
        PROVE  ReferentialIntegrity'
    BY <1>6 DEF SaveMember, IsCurrent, Put
  <1>7. ASSUME NEW k \in Keys, DeleteMember(k)
        PROVE  ReferentialIntegrity'
    BY <1>7 DEF DeleteMember, Restrict
  <1>8. ASSUME NEW k \in Keys, NEW doc \in MetadataDocs,
               k \in DOMAIN members, UpsertAgentMetadata(k, doc)
        PROVE  ReferentialIntegrity'
    BY <1>8 DEF UpsertAgentMetadata, Put
  <1> QED  BY <1>1, <1>2, <1>3, <1>4, <1>5, <1>6, <1>7, <1>8 DEF TablesNext

(* Every step of the tables counts its writes in the revisions. *)
LEMMA RevisionStep ==
    ASSUME TablesTypeOK, [TablesNext]_tables
    PROVE  RowStep(networks, networks') /\ RowStep(members, members')
  <1> USE DEF RowStep
  <1>1. CASE UNCHANGED tables
    BY <1>1 DEF tables
  <1>2. ASSUME NEW n \in Networks, NEW doc \in NetworkDocs,
               n \notin DOMAIN networks, CreateNetwork(n, doc)
        PROVE  RowStep(networks, networks') /\ RowStep(members, members')
    BY <1>2 DEF CreateNetwork, Put
  <1>3. ASSUME NEW n \in Networks, NEW r \in Revisions, NEW doc \in NetworkDocs,
               IsCurrent(networks, n, r), SaveNetwork(n, r, doc)
        PROVE  RowStep(networks, networks') /\ RowStep(members, members')
    BY <1>3 DEF SaveNetwork, IsCurrent, Put
  <1>4. ASSUME NEW n \in Networks, DeleteNetwork(n)
        PROVE  RowStep(networks, networks') /\ RowStep(members, members')
    BY <1>4 DEF DeleteNetwork, Restrict
  <1>5. ASSUME NEW k \in Keys, NEW doc \in MemberDocs,
               k \notin DOMAIN members, CreateMember(k, doc)
        PROVE  RowStep(networks, networks') /\ RowStep(members, members')
    BY <1>5 DEF CreateMember, Put
  <1>6. ASSUME NEW k \in Keys, NEW r \in Revisions, NEW doc \in MemberDocs,
               IsCurrent(members, k, r), SaveMember(k, r, doc)
        PROVE  RowStep(networks, networks') /\ RowStep(members, members')
    BY <1>6 DEF SaveMember, IsCurrent, Put
  <1>7. ASSUME NEW k \in Keys, DeleteMember(k)
        PROVE  RowStep(networks, networks') /\ RowStep(members, members')
    BY <1>7 DEF DeleteMember, Restrict
  <1>8. ASSUME NEW k \in Keys, NEW doc \in MetadataDocs, UpsertAgentMetadata(k, doc)
        PROVE  RowStep(networks, networks') /\ RowStep(members, members')
    BY <1>8 DEF UpsertAgentMetadata
  <1> QED  BY <1>1, <1>2, <1>3, <1>4, <1>5, <1>6, <1>7, <1>8 DEF TablesNext

-----------------------------------------------------------------------------
(* The tables are well typed in every state a store can reach. *)
THEOREM TablesTypes == TablesSpec => []TablesTypeOK
  <1>1. TablesInit => TablesTypeOK
    BY DEF TablesInit, TablesTypeOK
  <1>2. TablesTypeOK /\ [TablesNext]_tables => TablesTypeOK'
    BY TablesTypeStep
  <1> QED  BY <1>1, <1>2, PTL DEF TablesSpec

(* Members only in networks, metadata only for members, always. *)
THEOREM TablesIntegrity == TablesSpec => []ReferentialIntegrity
  <1>1. TablesInit => ReferentialIntegrity
    BY DEF TablesInit, ReferentialIntegrity
  <1>2. TablesTypeOK /\ ReferentialIntegrity /\ [TablesNext]_tables => ReferentialIntegrity'
    BY ReferentialIntegrityStep
  <1> QED  BY <1>1, <1>2, TablesTypes, PTL DEF TablesSpec

(* A row appears at revision 1 and is written only together with an        *)
(* increment of its revision.                                              *)
THEOREM TablesRevisions == TablesSpec => RevisionsCountWrites
  <1>1. TablesTypeOK /\ [TablesNext]_tables =>
            [RowStep(networks, networks') /\ RowStep(members, members')]_tables
    BY RevisionStep
  <1> QED  BY <1>1, TablesTypes, PTL DEF TablesSpec, RevisionsCountWrites

-----------------------------------------------------------------------------
(* The SQLite store. *)

USE MaxRevisionAssumption

-----------------------------------------------------------------------------
(* The arguments of a call have the types its operation declares. *)
LEMMA CallFields ==
    ASSUME NEW call \in Calls
    PROVE  /\ call.op = "createNetwork" => call.n \in Networks /\ call.doc \in NetworkDocs
           /\ call.op = "saveNetwork" =>
                /\ call.n \in Networks
                /\ call.expected \in Revisions
                /\ call.doc \in NetworkDocs
           /\ call.op = "deleteNetwork" => call.n \in Networks
           /\ call.op = "createMember" => call.k \in Keys /\ call.doc \in MemberDocs
           /\ call.op = "saveMember" =>
                /\ call.k \in Keys
                /\ call.expected \in Revisions
                /\ call.doc \in MemberDocs
           /\ call.op = "deleteMember" => call.k \in Keys
           /\ call.op = "upsertAgentMetadata" => call.k \in Keys /\ call.doc \in MetadataDocs
    BY DEF Calls, Revisions

(* What a read returns is a set of rows with their keys. *)
LEMMA RowsReadType ==
    ASSUME TablesTypeOK, NEW call,
           call.op \in {"getNetwork", "listNetworks", "getMember", "listMembers",
                        "getAgentMetadata"}
    PROVE  RowsRead(call) \subseteq KeyedRows
  <1> USE DEF TablesTypeOK, KeyedRows
  <1>1. CASE call.op = "getNetwork"
    BY <1>1 DEF RowsRead
  <1>2. CASE call.op = "listNetworks"
    BY <1>2 DEF RowsRead
  <1>3. CASE call.op = "getMember"
    BY <1>3 DEF RowsRead
  <1>4. CASE call.op = "listMembers"
    BY <1>4 DEF RowsRead, MembersOf, Keys
  <1>5. CASE call.op = "getAgentMetadata"
    BY <1>5 DEF RowsRead
  <1> QED  BY <1>1, <1>2, <1>3, <1>4, <1>5

(* Answering a call keeps the clients well typed. *)
LEMMA AnswerType ==
    ASSUME ClientsTypeOK, NEW c \in Clients, NEW reply \in Replies \ {"pending"},
           NEW rows, rows \subseteq KeyedRows, Answer(c, reply, rows)
    PROVE  ClientsTypeOK'
    BY DEF ClientsTypeOK, Answer, KeyedRows

-----------------------------------------------------------------------------
(* Every step of the SQLite store is a step of the tables or leaves them   *)
(* as they are, and keeps all types.                                       *)
LEMMA SqliteStep ==
    ASSUME TypeOK, [Next]_vars
    PROVE  TypeOK' /\ [TablesNext]_tables
  <1> USE DEF TypeOK
  <1>0. CASE UNCHANGED vars
    <2>1. UNCHANGED tables
      BY <1>0 DEF vars, tables
    <2>2. TablesTypeOK'
      BY <2>1, TablesTypeStep
    <2>3. ClientsTypeOK' /\ stmt' \in [Clients -> Statements]
      BY <1>0 DEF vars, ClientsTypeOK
    <2> QED  BY <2>1, <2>2, <2>3
  <1>s. SUFFICES ASSUME NEW c \in Clients,
                        (\E call \in Calls : StartCall(c, call)) \/ Step(c) \/ Fail(c)
                 PROVE  /\ [TablesNext]_tables
                        /\ ClientsTypeOK'
                        /\ stmt' \in [Clients -> Statements]
    <2>1. ASSUME NEW c \in Clients,
                 (\E call \in Calls : StartCall(c, call)) \/ Step(c) \/ Fail(c)
          PROVE  TypeOK' /\ [TablesNext]_tables
      BY <1>s, <2>1, TablesTypeStep
    <2> QED  BY <1>0, <2>1 DEF Next
  <1> DEFINE call == clients[c].call
  <1>r. ASSUME NEW reply \in Replies \ {"pending"}, NEW rows, rows \subseteq KeyedRows,
               Return(c, reply, rows)
        PROVE  ClientsTypeOK' /\ stmt' \in [Clients -> Statements]
    BY <1>r, AnswerType DEF Return, Statements
  <1>t. ASSUME NEW s \in Statements, Continue(c, s)
        PROVE  /\ [TablesNext]_tables
               /\ ClientsTypeOK'
               /\ stmt' \in [Clients -> Statements]
    BY <1>t DEF Continue, ClientsTypeOK, tables
  <1>e. {} \subseteq KeyedRows /\ {"ok", "notFound", "alreadyExists", "conflict", "failed"}
             \subseteq Replies \ {"pending"}
    BY DEF Replies, Errors
  <1>c. clients[c].reply = "pending" => call \in Calls
    BY DEF ClientsTypeOK
  <1> HIDE DEF call
  <1>1. ASSUME NEW new \in Calls, StartCall(c, new)
        PROVE  /\ [TablesNext]_tables
               /\ ClientsTypeOK'
               /\ stmt' \in [Clients -> Statements]
    BY <1>1 DEF StartCall, Invoke, ClientsTypeOK, Replies, KeyedRows
  <1>2. CASE SqlCreateNetwork(c)
    <2>1. call \in Calls /\ call.op = "createNetwork"
      BY <1>2, <1>c DEF SqlCreateNetwork, At, Calling, call
    <2>2. [TablesNext]_tables
      BY <1>2, <2>1, CallFields DEF SqlCreateNetwork, TablesNext, call
    <2> QED  BY <1>2, <1>r, <1>e, <2>2 DEF SqlCreateNetwork
  <1>3. CASE SqlSaveNetwork(c)
    <2>1. call \in Calls /\ call.op = "saveNetwork"
      BY <1>3, <1>c DEF SqlSaveNetwork, At, Calling, call
    <2>2. CASE IsCurrent(networks, call.n, call.expected)
      <3>1. SaveNetwork(call.n, call.expected, call.doc) /\ Return(c, "ok", {})
        BY <1>3, <2>2 DEF SqlSaveNetwork, call
      <3>2. TablesNext
        BY <2>1, <2>2, <3>1, CallFields DEF TablesNext
      <3> QED  BY <3>1, <3>2, <1>r, <1>e
    <2>3. CASE ~ IsCurrent(networks, call.n, call.expected)
      BY <1>3, <2>3, <1>t DEF SqlSaveNetwork, Statements, call
    <2> QED  BY <2>2, <2>3
  <1>4. CASE SqlDeleteNetwork(c)
    <2>1. call \in Calls /\ call.op = "deleteNetwork"
      BY <1>4, <1>c DEF SqlDeleteNetwork, At, Calling, call
    <2>2. CASE IsCurrent(networks, call.n, call.expected)
      <3>1. DeleteNetwork(call.n) /\ Return(c, "ok", {})
        BY <1>4, <2>2 DEF SqlDeleteNetwork, call
      <3>2. TablesNext
        BY <2>1, <2>2, <3>1, CallFields DEF TablesNext, IsCurrent
      <3> QED  BY <3>1, <3>2, <1>r, <1>e
    <2>3. CASE ~ IsCurrent(networks, call.n, call.expected)
      BY <1>4, <2>3, <1>t DEF SqlDeleteNetwork, Statements, call
    <2> QED  BY <2>2, <2>3
  <1>5. CASE SqlCreateMemberCheck(c)
    BY <1>5, <1>r, <1>t, <1>e DEF SqlCreateMemberCheck, Statements
  <1>6. CASE SqlCreateMember(c)
    <2>1. call \in Calls /\ call.op = "createMember"
      BY <1>6, <1>c DEF SqlCreateMember, At, Calling, call
    <2>2. [TablesNext]_tables
      BY <1>6, <2>1, CallFields DEF SqlCreateMember, TablesNext, call
    <2> QED  BY <1>6, <1>r, <1>e, <2>2 DEF SqlCreateMember
  <1>7. CASE SqlSaveMember(c)
    <2>1. call \in Calls /\ call.op = "saveMember"
      BY <1>7, <1>c DEF SqlSaveMember, At, Calling, call
    <2>2. CASE IsCurrent(members, call.k, call.expected)
      <3>1. SaveMember(call.k, call.expected, call.doc) /\ Return(c, "ok", {})
        BY <1>7, <2>2 DEF SqlSaveMember, call
      <3>2. TablesNext
        BY <2>1, <2>2, <3>1, CallFields DEF TablesNext
      <3> QED  BY <3>1, <3>2, <1>r, <1>e
    <2>3. CASE ~ IsCurrent(members, call.k, call.expected)
      BY <1>7, <2>3, <1>t DEF SqlSaveMember, Statements, call
    <2> QED  BY <2>2, <2>3
  <1>8. CASE SqlDeleteMember(c)
    <2>1. call \in Calls /\ call.op = "deleteMember"
      BY <1>8, <1>c DEF SqlDeleteMember, At, Calling, call
    <2>2. CASE IsCurrent(members, call.k, call.expected)
      <3>1. DeleteMember(call.k) /\ Return(c, "ok", {})
        BY <1>8, <2>2 DEF SqlDeleteMember, call
      <3>2. TablesNext
        BY <2>1, <2>2, <3>1, CallFields DEF TablesNext, IsCurrent
      <3> QED  BY <3>1, <3>2, <1>r, <1>e
    <2>3. CASE ~ IsCurrent(members, call.k, call.expected)
      BY <1>8, <2>3, <1>t DEF SqlDeleteMember, Statements, call
    <2> QED  BY <2>2, <2>3
  <1>9. CASE NetworkMutationResult(c)
    BY <1>9, <1>r, <1>e DEF NetworkMutationResult
  <1>10. CASE MemberMutationResult(c)
    BY <1>10, <1>r, <1>e DEF MemberMutationResult
  <1>11. CASE SqlUpsertAgentMetadata(c)
    <2>1. call \in Calls /\ call.op = "upsertAgentMetadata"
      BY <1>11, <1>c DEF SqlUpsertAgentMetadata, At, Calling, call
    <2>2. [TablesNext]_tables
      BY <1>11, <2>1, CallFields DEF SqlUpsertAgentMetadata, TablesNext, call
    <2> QED  BY <1>11, <1>r, <1>e, <2>2 DEF SqlUpsertAgentMetadata
  <1>12. CASE SqlGet(c)
    <2>1. RowsRead(call) \subseteq KeyedRows
      BY <1>12, RowsReadType DEF SqlGet, At, Calling, call
    <2> QED  BY <1>12, <1>r, <1>e, <2>1 DEF SqlGet, call
  <1>13. CASE SqlListNetworks(c)
    <2>1. RowsRead(call) \subseteq KeyedRows
      BY <1>13, RowsReadType DEF SqlListNetworks, At, Calling, call
    <2> QED  BY <1>13, <1>r, <1>e, <2>1 DEF SqlListNetworks, call
  <1>14. CASE SqlListMembersCheck(c)
    BY <1>14, <1>r, <1>t, <1>e DEF SqlListMembersCheck, Statements
  <1>15. CASE SqlListMembers(c)
    <2>1. RowsRead(call) \subseteq KeyedRows
      BY <1>15, RowsReadType DEF SqlListMembers, At, Calling, call
    <2> QED  BY <1>15, <1>r, <1>e, <2>1 DEF SqlListMembers, call
  <1>16. CASE Fail(c)
    BY <1>16, <1>r, <1>e DEF Fail
  <1>17. CASE Step(c)
    BY <1>17, <1>2, <1>3, <1>4, <1>5, <1>6, <1>7, <1>8, <1>9, <1>10, <1>11, <1>12,
       <1>13, <1>14, <1>15, Zenon DEF Step
  <1> QED  BY <1>s, <1>1, <1>16, <1>17, Zenon

-----------------------------------------------------------------------------
(* The types of the tables, of the calls in progress and of the answers. *)
THEOREM SqliteTypes == Spec => []TypeOK
  <1>1. Init => TypeOK
    <2> SUFFICES ASSUME Init PROVE TypeOK
      OBVIOUS
    <2>1. TablesTypeOK
      BY DEF Init, TablesInit, TablesTypeOK
    <2>2. ClientsTypeOK
      BY DEF Init, ClientsInit, ClientsTypeOK, Replies
    <2>3. stmt \in [Clients -> Statements]
      BY DEF Init, Statements
    <2> QED  BY <2>1, <2>2, <2>3 DEF TypeOK
  <1>2. TypeOK /\ [Next]_vars => TypeOK'
    BY SqliteStep
  <1> QED  BY <1>1, <1>2, PTL DEF Spec

(* The SQLite store runs only operations of the tables. *)
THEOREM SqliteRunsTables == Spec => TablesSpec
  <1>1. Init => TablesInit
    BY DEF Init
  <1>2. TypeOK /\ [Next]_vars => [TablesNext]_tables
    BY SqliteStep
  <1> QED  BY <1>1, <1>2, SqliteTypes, PTL DEF Spec, TablesSpec

(* Foreign keys hold whatever runs between the two statements of a call. *)
THEOREM SqliteIntegrity == Spec => []ReferentialIntegrity
  BY SqliteRunsTables, TablesIntegrity, PTL

(* Revisions count writes in the SQLite store. *)
THEOREM SqliteRevisions == Spec => RevisionsCountWrites
  BY SqliteRunsTables, TablesRevisions, PTL

-----------------------------------------------------------------------------
(* The operators of the contract are those of the implementation: both     *)
(* modules take them from StoreCalls, over the same constants and tables.  *)
LEMMA SameVocabulary ==
    /\ Contract!Calls = Calls
    /\ Contract!Errors = Errors
    /\ \A call : Contract!RowsRead(call) = RowsRead(call)
    BY DEF Contract!Calls, Calls, Contract!Errors, Errors, Contract!RowsRead, RowsRead,
           Contract!Keys, Keys, Contract!MembersOf, MembersOf

(* A mutation that takes effect is one step of the contract. *)
LEMMA MutationRefines ==
    ASSUME NEW c \in Clients, clients[c].reply = "pending",
           Contract!Effect(clients[c].call), Answer(c, "ok", {})
    PROVE  Contract!Next
    BY DEF Contract!Next, Contract!Mutate, Contract!Answer, Answer

(* A call that ends with an error allowed at this moment is one step of    *)
(* the contract.                                                           *)
LEMMA RefusalRefines ==
    ASSUME NEW c \in Clients, clients[c].reply = "pending", UNCHANGED tables,
           NEW e \in Contract!AllowedErrors(clients[c].call), Answer(c, e, {})
    PROVE  Contract!Next
    BY DEF Contract!Next, Contract!Refuse, Contract!Answer, Answer, Contract!tables, tables

(* A read that returns what the tables hold is one step of the contract. *)
LEMMA ReadRefines ==
    ASSUME NEW c \in Clients, clients[c].reply = "pending", UNCHANGED tables,
           clients[c].call.op \in {"getNetwork", "listNetworks", "getMember", "listMembers",
                                   "getAgentMetadata"},
           \/ clients[c].call.op \in {"listNetworks", "listMembers"}
           \/ RowsRead(clients[c].call) # {},
           Answer(c, "ok", RowsRead(clients[c].call))
    PROVE  Contract!Next
  <1>1. Contract!Read(c)
    BY SameVocabulary DEF Contract!Read, Contract!Answer, Answer, Contract!tables, tables
  <1> QED  BY <1>1 DEF Contract!Next

(* The effects of the contract are those of the tables. *)
LEMMA SameEffects ==
    ASSUME NEW x, NEW r, NEW doc
    PROVE  /\ Contract!CreateNetwork(x, doc) <=> CreateNetwork(x, doc)
           /\ Contract!SaveNetwork(x, r, doc) <=> SaveNetwork(x, r, doc)
           /\ Contract!DeleteNetwork(x) <=> DeleteNetwork(x)
           /\ Contract!CreateMember(x, doc) <=> CreateMember(x, doc)
           /\ Contract!SaveMember(x, r, doc) <=> SaveMember(x, r, doc)
           /\ Contract!DeleteMember(x) <=> DeleteMember(x)
           /\ Contract!UpsertAgentMetadata(x, doc) <=> UpsertAgentMetadata(x, doc)
           /\ Contract!IsCurrent(networks, x, r) <=> IsCurrent(networks, x, r)
           /\ Contract!IsCurrent(members, x, r) <=> IsCurrent(members, x, r)
    BY DEF Contract!CreateNetwork, CreateNetwork, Contract!SaveNetwork, SaveNetwork,
           Contract!DeleteNetwork, DeleteNetwork, Contract!CreateMember, CreateMember,
           Contract!SaveMember, SaveMember, Contract!DeleteMember, DeleteMember,
           Contract!UpsertAgentMetadata, UpsertAgentMetadata, Contract!Put, Put,
           Contract!Restrict, Restrict, Contract!IsCurrent, IsCurrent

(* Every step of the SQLite store is a step of the contract or leaves the  *)
(* tables and the clients unchanged.                                       *)
LEMMA SqliteRefinesStep ==
    ASSUME [Next]_vars
    PROVE  [Contract!Next]_Contract!vars
  <1>0. CASE UNCHANGED vars
    BY <1>0 DEF vars, Contract!vars
  <1>s. SUFFICES ASSUME NEW c \in Clients,
                        (\E new \in Calls : StartCall(c, new)) \/ Step(c) \/ Fail(c)
                 PROVE  [Contract!Next]_Contract!vars
    BY <1>0 DEF Next
  <1> DEFINE call == clients[c].call
  <1>e. {"notFound", "alreadyExists", "conflict", "failed"} = Contract!Errors
    BY DEF Contract!Errors
  <1> HIDE DEF call
  <1>1. CASE \E new \in Calls : StartCall(c, new)
    BY <1>1, SameVocabulary
       DEF StartCall, Invoke, Contract!Invoke, Contract!Next, Contract!tables, tables
  <1>2. CASE SqlCreateNetwork(c)
    <2>1. clients[c].reply = "pending" /\ call.op = "createNetwork"
      BY <1>2 DEF SqlCreateNetwork, At, Calling, call
    <2>2. CASE call.n \notin DOMAIN networks
      <3>1. CreateNetwork(call.n, call.doc) /\ Answer(c, "ok", {})
        BY <1>2, <2>2 DEF SqlCreateNetwork, Return, call
      <3>2. Contract!Effect(call)
        BY <2>1, <2>2, <3>1, SameEffects DEF Contract!Effect
      <3> QED  BY <2>1, <3>1, <3>2, MutationRefines DEF call
    <2>3. CASE call.n \in DOMAIN networks
      <3>1. Answer(c, "alreadyExists", {}) /\ UNCHANGED tables
        BY <1>2, <2>3 DEF SqlCreateNetwork, Return, call
      <3>2. "alreadyExists" \in Contract!AllowedErrors(call)
        BY <1>e, <2>1, <2>3 DEF Contract!AllowedErrors
      <3> QED  BY <2>1, <3>1, <3>2, RefusalRefines DEF call
    <2> QED  BY <2>2, <2>3
  <1>3. CASE SqlSaveNetwork(c)
    <2>1. clients[c].reply = "pending" /\ call.op = "saveNetwork"
      BY <1>3 DEF SqlSaveNetwork, At, Calling, call
    <2>2. CASE IsCurrent(networks, call.n, call.expected)
      <3>1. SaveNetwork(call.n, call.expected, call.doc) /\ Answer(c, "ok", {})
        BY <1>3, <2>2 DEF SqlSaveNetwork, Return, call
      <3>2. Contract!Effect(call)
        BY <2>1, <2>2, <3>1, SameEffects DEF Contract!Effect
      <3> QED  BY <2>1, <3>1, <3>2, MutationRefines DEF call
    <2>3. CASE ~ IsCurrent(networks, call.n, call.expected)
      BY <1>3, <2>3 DEF SqlSaveNetwork, Continue, Contract!vars, tables, call
    <2> QED  BY <2>2, <2>3
  <1>4. CASE SqlDeleteNetwork(c)
    <2>1. clients[c].reply = "pending" /\ call.op = "deleteNetwork"
      BY <1>4 DEF SqlDeleteNetwork, At, Calling, call
    <2>2. CASE IsCurrent(networks, call.n, call.expected)
      <3>1. DeleteNetwork(call.n) /\ Answer(c, "ok", {})
        BY <1>4, <2>2 DEF SqlDeleteNetwork, Return, call
      <3>2. Contract!Effect(call)
        BY <2>1, <2>2, <3>1, SameEffects DEF Contract!Effect
      <3> QED  BY <2>1, <3>1, <3>2, MutationRefines DEF call
    <2>3. CASE ~ IsCurrent(networks, call.n, call.expected)
      BY <1>4, <2>3 DEF SqlDeleteNetwork, Continue, Contract!vars, tables, call
    <2> QED  BY <2>2, <2>3
  <1>5. CASE SqlCreateMemberCheck(c)
    <2>1. clients[c].reply = "pending" /\ call.op = "createMember"
      BY <1>5 DEF SqlCreateMemberCheck, At, Calling, call
    <2>2. CASE call.k[1] \in DOMAIN networks
      BY <1>5, <2>2 DEF SqlCreateMemberCheck, Continue, Contract!vars, tables, call
    <2>3. CASE call.k[1] \notin DOMAIN networks
      <3>1. Answer(c, "notFound", {}) /\ UNCHANGED tables
        BY <1>5, <2>3 DEF SqlCreateMemberCheck, Return, call
      <3>2. "notFound" \in Contract!AllowedErrors(call)
        BY <1>e, <2>1, <2>3 DEF Contract!AllowedErrors
      <3> QED  BY <2>1, <3>1, <3>2, RefusalRefines DEF call
    <2> QED  BY <2>2, <2>3
  <1>6. CASE SqlCreateMember(c)
    <2>1. clients[c].reply = "pending" /\ call.op = "createMember"
      BY <1>6 DEF SqlCreateMember, At, Calling, call
    <2>2. CASE /\ call.k[1] \in DOMAIN networks /\ call.k \notin DOMAIN members
               /\ CreateMember(call.k, call.doc) /\ Answer(c, "ok", {})
      <3>1. Contract!Effect(call)
        BY <2>1, <2>2, SameEffects DEF Contract!Effect
      <3> QED  BY <2>1, <2>2, <3>1, MutationRefines DEF call
    <2>3. CASE call.k \in DOMAIN members /\ Answer(c, "alreadyExists", {}) /\ UNCHANGED tables
      <3>1. "alreadyExists" \in Contract!AllowedErrors(call)
        BY <1>e, <2>1, <2>3 DEF Contract!AllowedErrors
      <3> QED  BY <2>1, <2>3, <3>1, RefusalRefines DEF call
    <2>4. CASE Answer(c, "failed", {}) /\ UNCHANGED tables
      <3>1. "failed" \in Contract!AllowedErrors(call)
        BY <1>e DEF Contract!AllowedErrors
      <3> QED  BY <2>1, <2>4, <3>1, RefusalRefines DEF call
    <2> QED  BY <1>6, <2>2, <2>3, <2>4 DEF SqlCreateMember, Return, call
  <1>7. CASE SqlSaveMember(c)
    <2>1. clients[c].reply = "pending" /\ call.op = "saveMember"
      BY <1>7 DEF SqlSaveMember, At, Calling, call
    <2>2. CASE IsCurrent(members, call.k, call.expected)
      <3>1. SaveMember(call.k, call.expected, call.doc) /\ Answer(c, "ok", {})
        BY <1>7, <2>2 DEF SqlSaveMember, Return, call
      <3>2. Contract!Effect(call)
        BY <2>1, <2>2, <3>1, SameEffects DEF Contract!Effect
      <3> QED  BY <2>1, <3>1, <3>2, MutationRefines DEF call
    <2>3. CASE ~ IsCurrent(members, call.k, call.expected)
      BY <1>7, <2>3 DEF SqlSaveMember, Continue, Contract!vars, tables, call
    <2> QED  BY <2>2, <2>3
  <1>8. CASE SqlDeleteMember(c)
    <2>1. clients[c].reply = "pending" /\ call.op = "deleteMember"
      BY <1>8 DEF SqlDeleteMember, At, Calling, call
    <2>2. CASE IsCurrent(members, call.k, call.expected)
      <3>1. DeleteMember(call.k) /\ Answer(c, "ok", {})
        BY <1>8, <2>2 DEF SqlDeleteMember, Return, call
      <3>2. Contract!Effect(call)
        BY <2>1, <2>2, <3>1, SameEffects DEF Contract!Effect
      <3> QED  BY <2>1, <3>1, <3>2, MutationRefines DEF call
    <2>3. CASE ~ IsCurrent(members, call.k, call.expected)
      BY <1>8, <2>3 DEF SqlDeleteMember, Continue, Contract!vars, tables, call
    <2> QED  BY <2>2, <2>3
  <1>9. CASE NetworkMutationResult(c)
    <2> DEFINE e == IF call.n \in DOMAIN networks THEN "conflict" ELSE "notFound"
    <2>1. clients[c].reply = "pending" /\ call.op \in {"saveNetwork", "deleteNetwork"}
      BY <1>9 DEF NetworkMutationResult, At, Calling, call
    <2>2. Answer(c, e, {}) /\ UNCHANGED tables
      BY <1>9 DEF NetworkMutationResult, Return, call
    <2>3. e \in Contract!AllowedErrors(call)
      BY <1>e, <2>1 DEF Contract!AllowedErrors
    <2> QED  BY <2>1, <2>2, <2>3, RefusalRefines DEF call
  <1>10. CASE MemberMutationResult(c)
    <2> DEFINE e == IF call.k \in DOMAIN members THEN "conflict" ELSE "notFound"
    <2>1. clients[c].reply = "pending" /\ call.op \in {"saveMember", "deleteMember"}
      BY <1>10 DEF MemberMutationResult, At, Calling, call
    <2>2. Answer(c, e, {}) /\ UNCHANGED tables
      BY <1>10 DEF MemberMutationResult, Return, call
    <2>3. e \in Contract!AllowedErrors(call)
      BY <1>e, <2>1 DEF Contract!AllowedErrors
    <2> QED  BY <2>1, <2>2, <2>3, RefusalRefines DEF call
  <1>11. CASE SqlUpsertAgentMetadata(c)
    <2>1. clients[c].reply = "pending" /\ call.op = "upsertAgentMetadata"
      BY <1>11 DEF SqlUpsertAgentMetadata, At, Calling, call
    <2>2. CASE call.k \in DOMAIN members
      <3>1. UpsertAgentMetadata(call.k, call.doc) /\ Answer(c, "ok", {})
        BY <1>11, <2>2 DEF SqlUpsertAgentMetadata, Return, call
      <3>2. Contract!Effect(call)
        BY <2>1, <2>2, <3>1, SameEffects DEF Contract!Effect
      <3> QED  BY <2>1, <3>1, <3>2, MutationRefines DEF call
    <2>3. CASE call.k \notin DOMAIN members
      <3>1. Answer(c, "notFound", {}) /\ UNCHANGED tables
        BY <1>11, <2>3 DEF SqlUpsertAgentMetadata, Return, call
      <3>2. "notFound" \in Contract!AllowedErrors(call)
        BY <1>e, <2>1, <2>3 DEF Contract!AllowedErrors
      <3> QED  BY <2>1, <3>1, <3>2, RefusalRefines DEF call
    <2> QED  BY <2>2, <2>3
  <1>12. CASE SqlGet(c)
    <2>1. /\ clients[c].reply = "pending"
          /\ call.op \in {"getNetwork", "getMember", "getAgentMetadata"}
          /\ UNCHANGED tables
      BY <1>12 DEF SqlGet, At, Calling, call
    <2>2. CASE RowsRead(call) # {}
      <3>1. Answer(c, "ok", RowsRead(call))
        BY <1>12, <2>2 DEF SqlGet, Return, call
      <3> QED  BY <2>1, <2>2, <3>1, ReadRefines DEF call
    <2>3. CASE RowsRead(call) = {}
      <3>1. Answer(c, "notFound", {})
        BY <1>12, <2>3 DEF SqlGet, Return, call
      <3>2. CASE call.op = "getNetwork"
        <4>1. call.n \notin DOMAIN networks
          BY <2>3, <3>2 DEF RowsRead
        <4> QED  BY <1>e, <2>1, <3>1, <3>2, <4>1, RefusalRefines DEF Contract!AllowedErrors, call
      <3>3. CASE call.op = "getMember"
        <4>1. call.k \notin DOMAIN members
          BY <2>3, <3>3 DEF RowsRead
        <4> QED  BY <1>e, <2>1, <3>1, <3>3, <4>1, RefusalRefines DEF Contract!AllowedErrors, call
      <3>4. CASE call.op = "getAgentMetadata"
        <4>1. call.k \notin DOMAIN metadata
          BY <2>3, <3>4 DEF RowsRead
        <4> QED  BY <1>e, <2>1, <3>1, <3>4, <4>1, RefusalRefines DEF Contract!AllowedErrors, call
      <3> QED  BY <2>1, <3>2, <3>3, <3>4
    <2> QED  BY <2>2, <2>3
  <1>13. CASE SqlListNetworks(c)
    BY <1>13, ReadRefines DEF SqlListNetworks, At, Calling, Return
  <1>14. CASE SqlListMembersCheck(c)
    <2>1. clients[c].reply = "pending" /\ call.op = "listMembers"
      BY <1>14 DEF SqlListMembersCheck, At, Calling, call
    <2>2. CASE call.n \in DOMAIN networks
      BY <1>14, <2>2 DEF SqlListMembersCheck, Continue, Contract!vars, tables, call
    <2>3. CASE call.n \notin DOMAIN networks
      <3>1. Answer(c, "notFound", {}) /\ UNCHANGED tables
        BY <1>14, <2>3 DEF SqlListMembersCheck, Return, call
      <3>2. "notFound" \in Contract!AllowedErrors(call)
        BY <1>e, <2>1, <2>3 DEF Contract!AllowedErrors
      <3> QED  BY <2>1, <3>1, <3>2, RefusalRefines DEF call
    <2> QED  BY <2>2, <2>3
  <1>15. CASE SqlListMembers(c)
    BY <1>15, ReadRefines DEF SqlListMembers, At, Calling, Return
  <1>16. CASE Fail(c)
    <2>1. "failed" \in Contract!AllowedErrors(clients[c].call)
      BY <1>e DEF Contract!AllowedErrors
    <2> QED  BY <1>16, <2>1, RefusalRefines DEF Fail, Return
  <1>17. CASE Step(c)
    BY <1>17, <1>2, <1>3, <1>4, <1>5, <1>6, <1>7, <1>8, <1>9, <1>10, <1>11, <1>12,
       <1>13, <1>14, <1>15, Zenon DEF Step
  <1> QED  BY <1>s, <1>1, <1>16, <1>17, Zenon

(* The SQLite store implements the contract of store.go: the statements of *)
(* a call are, together, one atomic operation that either takes effect and *)
(* succeeds or is refused and changes nothing.                             *)
THEOREM SqliteImplementsContract == Spec => ImplementsContract
  <1>1. Init => Contract!Init
    BY DEF Init, Contract!Init, TablesInit, Contract!TablesInit, ClientsInit,
           Contract!ClientsInit
  <1>2. [Next]_vars => [Contract!Next]_Contract!vars
    BY SqliteRefinesStep
  <1> QED  BY <1>1, <1>2, PTL DEF Spec, Contract!Spec, ImplementsContract
=============================================================================
