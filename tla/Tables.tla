------------------------------- MODULE Tables -------------------------------
(***************************************************************************)
(* The persisted state of the controller and what each store operation     *)
(* does to it: networks, their members, and the metadata an agent reported *)
(* in its last configuration request (internal/store).  A table is a       *)
(* function whose domain is the set of rows that exist; a versioned row is *)
(* its revision and its document, and a document is opaque here.           *)
(*                                                                         *)
(* The operators are the bodies of internal/store/memory/memory.go between *)
(* Lock and Unlock.  SqliteStore runs the same effects as SQL statements,  *)
(* with the cascades of its schema.  Documents that fail Validate are      *)
(* refused before a table is read, so only valid documents appear.         *)
(***************************************************************************)
EXTENDS Integers, Functions

CONSTANTS Networks,      \* network IDs
          Nodes,         \* node IDs
          NetworkDocs,   \* configurable content of a network
          MemberDocs,    \* configurable content of a member
          MetadataDocs   \* content of an agent's metadata

VARIABLES networks,      \* network ID -> [revision, doc]
          members,       \* <<network ID, node ID>> -> [revision, doc]
          metadata       \* <<network ID, node ID>> -> metadata document

tables == <<networks, members, metadata>>

Keys == Networks \X Nodes
Revisions == Nat \ {0}
NetworkRows == [revision : Revisions, doc : NetworkDocs]
MemberRows == [revision : Revisions, doc : MemberDocs]

TablesInit ==
    /\ networks = [n \in {} |-> {}]
    /\ members = [k \in {} |-> {}]
    /\ metadata = [k \in {} |-> {}]

TablesTypeOK ==
    /\ networks \in [DOMAIN networks -> NetworkRows]
    /\ DOMAIN networks \subseteq Networks
    /\ members \in [DOMAIN members -> MemberRows]
    /\ DOMAIN members \subseteq Keys
    /\ metadata \in [DOMAIN metadata -> MetadataDocs]
    /\ DOMAIN metadata \subseteq Keys

-----------------------------------------------------------------------------
(* Helpers on tables. *)

Put(table, k, row) ==
    [x \in DOMAIN table \cup {k} |-> IF x = k THEN row ELSE table[x]]

\* The condition without its revision: whoever writes last wins.
Exists(table, k, expected) == k \in DOMAIN table

\* The optimistic-concurrency condition of every save and delete.
IsCurrent(table, k, expected) ==
    k \in DOMAIN table /\ table[k].revision = expected

\* The members of network n, as a set of <<node, row>>.
MembersOf(n) == {<<k[2], members[k]>> : k \in {x \in DOMAIN members : x[1] = n}}

-----------------------------------------------------------------------------
(* Effects of the mutations.  The caller checks the guard. *)

CreateNetwork(n, doc) ==
    /\ networks' = Put(networks, n, [revision |-> 1, doc |-> doc])
    /\ UNCHANGED <<members, metadata>>

SaveNetwork(n, expected, doc) ==
    /\ networks' = Put(networks, n, [revision |-> expected + 1, doc |-> doc])
    /\ UNCHANGED <<members, metadata>>

DeleteNetwork(n) ==
    /\ networks' = Restrict(networks, DOMAIN networks \ {n})
    /\ members' = Restrict(members, {k \in DOMAIN members : k[1] # n})
    /\ metadata' = Restrict(metadata, {k \in DOMAIN metadata : k[1] # n})

\* A new member that never got its first revision.
CreateMemberUnversioned(k, doc) ==
    /\ members' = Put(members, k, [revision |-> 0, doc |-> doc])
    /\ UNCHANGED <<networks, metadata>>

CreateMember(k, doc) ==
    /\ members' = Put(members, k, [revision |-> 1, doc |-> doc])
    /\ UNCHANGED <<networks, metadata>>

\* A save that keeps the revision it was given.
SaveMemberSameRevision(k, expected, doc) ==
    /\ members' = Put(members, k, [revision |-> expected, doc |-> doc])
    /\ UNCHANGED <<networks, metadata>>

SaveMember(k, expected, doc) ==
    /\ members' = Put(members, k, [revision |-> expected + 1, doc |-> doc])
    /\ UNCHANGED <<networks, metadata>>

DeleteMember(k) ==
    /\ members' = Restrict(members, DOMAIN members \ {k})
    /\ metadata' = Restrict(metadata, DOMAIN metadata \ {k})
    /\ UNCHANGED networks

UpsertAgentMetadata(k, doc) ==
    /\ metadata' = Put(metadata, k, doc)
    /\ UNCHANGED <<networks, members>>

-----------------------------------------------------------------------------
(* The tables by themselves: any mutation whose guard holds may happen.  A *)
(* store runs these steps and no others.                                   *)

TablesNext ==
    \/ \E n \in Networks, doc \in NetworkDocs :
          n \notin DOMAIN networks /\ CreateNetwork(n, doc)
    \/ \E n \in Networks, r \in Revisions, doc \in NetworkDocs :
          IsCurrent(networks, n, r) /\ SaveNetwork(n, r, doc)
    \/ \E n \in Networks : n \in DOMAIN networks /\ DeleteNetwork(n)
    \/ \E k \in Keys, doc \in MemberDocs :
          k[1] \in DOMAIN networks /\ k \notin DOMAIN members /\ CreateMember(k, doc)
    \/ \E k \in Keys, r \in Revisions, doc \in MemberDocs :
          IsCurrent(members, k, r) /\ SaveMember(k, r, doc)
    \/ \E k \in Keys : k \in DOMAIN members /\ DeleteMember(k)
    \/ \E k \in Keys, doc \in MetadataDocs :
          k \in DOMAIN members /\ UpsertAgentMetadata(k, doc)

TablesSpec == TablesInit /\ [][TablesNext]_tables

-----------------------------------------------------------------------------
(* Properties of the tables. *)

(* A member exists only inside an existing network, and metadata only for  *)
(* an existing member: the foreign keys of the SQLite schema, and in       *)
(* memory.go the existence checks together with the three deletes of       *)
(* DeleteNetwork and the two of DeleteMember.                              *)
ReferentialIntegrity ==
    /\ \A k \in DOMAIN members : k[1] \in DOMAIN networks
    /\ DOMAIN metadata \subseteq DOMAIN members

(* Revisions count writes: a row appears with revision 1, and while it     *)
(* exists its document changes only together with an increment of its      *)
(* revision by exactly one.  No write can be hidden from a client that     *)
(* compares revisions.                                                     *)
RowStep(table, table2) ==
    \A k \in DOMAIN table2 :
        IF k \in DOMAIN table
        THEN \/ table2[k] = table[k]
             \/ table2[k].revision = table[k].revision + 1
        ELSE table2[k].revision = 1

RevisionsCountWrites ==
    [][RowStep(networks, networks') /\ RowStep(members, members')]_tables
=============================================================================
