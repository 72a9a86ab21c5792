------------------------------ MODULE LegacyApi ------------------------------
(***************************************************************************)
(* The historical controller API, internal/api/httpapi/legacy.go.  Its     *)
(* clients send partial updates without a revision: the handler reads the  *)
(* row, merges the patch into what it read, and hands the whole content to *)
(* the revision-checked operations of the service.  One POST on a member   *)
(* is up to three service operations in a row: registration, update, and   *)
(* authorization.                                                          *)
(*                                                                         *)
(* A step of a request is one store call with the code up to the next one. *)
(* Everybody else who writes (the native API of handler.go, which brings   *)
(* its own revision, and the address assignment) appears as one step that  *)
(* saves, creates or deletes a row at its current revision: what a write   *)
(* of theirs that succeeds does to the tables.  Requests that do not parse *)
(* are answered before the first store call and are left out.              *)
(***************************************************************************)
EXTENDS Integers

CONSTANTS Networks, Nodes, Requests,
          NetworkFields,    \* the configurable fields of a network
          MemberFields,     \* the configurable fields of a member
          RoleFields,       \* the specialist roles among them
          NetworkPatches,   \* the patches clients send for a network
          MemberPatches,    \* the patches clients send for a member
          InitialNetworks, InitialMembers,
          OtherWrites,      \* what the other writers do in this instance
          OtherRequests,    \* the requests of this instance besides POST
          MaxRevision,      \* bound: other writers stop changing a row here
          NoRow

(* A patch is [fields |-> a partial assignment of fields, authorized |-> {} *)
(* or a singleton]: a JSON property that is absent is a nil pointer.  A     *)
(* role is "on" or "off", any other field "default" or "set".               *)
Values == {"off", "on", "default", "set"}

ASSUME LegacyAssumption ==
    /\ RoleFields \subseteq MemberFields
    /\ OtherWrites \subseteq {"create", "save", "delete"}
    /\ OtherRequests \subseteq {"deleteNetwork", "deleteMember", "scan"}

\* The rows: a network's document is its fields, a member has an authorization too.
IsNetworkRow(row) == row.revision \in Nat /\ DOMAIN row.doc = NetworkFields

IsMemberRow(row) ==
    /\ row.revision \in Nat
    /\ row.doc = [fields |-> row.doc.fields, authorized |-> row.doc.authorized]
    /\ DOMAIN row.doc.fields = MemberFields
    /\ row.doc.authorized \in BOOLEAN

ASSUME PatchesAssumption ==
    /\ \A patch \in NetworkPatches :
          DOMAIN patch.fields \subseteq NetworkFields /\ patch.authorized = {}
    /\ \A patch \in MemberPatches :
          DOMAIN patch.fields \subseteq MemberFields /\ patch.authorized \in {{}, {TRUE}, {FALSE}}
    /\ \A n \in DOMAIN InitialNetworks : IsNetworkRow(InitialNetworks[n])
    /\ \A k \in DOMAIN InitialMembers : IsMemberRow(InitialMembers[k])

VARIABLES networks, members, metadata,
          request,   \* request -> the handler's local variables and its answer
          held       \* history of each request, see Observe

NetworkDocs == [NetworkFields -> Values]
MemberDocs == [fields : [MemberFields -> Values], authorized : BOOLEAN]

DB == INSTANCE Tables WITH MetadataDocs <- {}

tables == <<networks, members, metadata>>
vars == <<networks, members, metadata, request, held>>

Unused == [op |-> "none", pc |-> "unused", k |-> NoRow, patch |-> NoRow,
           network |-> NoRow, member |-> NoRow, fields |-> NoRow, resume |-> "none",
           remaining |-> {}, answer |-> "none"]

Init ==
    /\ networks = InitialNetworks
    /\ members = InitialMembers
    /\ metadata = [k \in {} |-> {}]
    /\ request = [r \in Requests |-> Unused]
    /\ held = [r \in Requests |-> {}]

-----------------------------------------------------------------------------
(* Moves of a request. *)

At(r, pc) == request[r].pc = pc

Start(r, op, pc, k, patch) ==
    /\ request[r] = Unused
    /\ request' = [request EXCEPT ![r] = [Unused EXCEPT !.op = op, !.pc = pc, !.k = k,
                                                        !.patch = patch]]
    /\ UNCHANGED tables

Goto(r, pc) == request' = [request EXCEPT ![r].pc = pc]
Answer(r, answer) == request' = [request EXCEPT ![r].pc = "answered", ![r].answer = answer]

\* The answer to an operation on a row that is gone or has another revision.
Refuse(r, table, k) == Answer(r, IF k \in DOMAIN table THEN "conflict" ELSE "notFound")

\* Go on at pc, after bumpNetworkRevision if it is called for.
GotoAfterBump(r, bump, pc) ==
    request' = [request EXCEPT ![r].pc = IF bump THEN "bumpGet" ELSE pc, ![r].resume = pc]

\* The read fields, overwritten by those the patch has.
Merge(fields, patch) ==
    [f \in DOMAIN fields |-> IF f \in DOMAIN patch.fields THEN patch.fields[f] ELSE fields[f]]

DefaultNetwork == [f \in NetworkFields |-> "default"]
DefaultMember ==
    [fields |-> [f \in MemberFields |-> IF f \in RoleFields THEN "off" ELSE "default"],
     authorized |-> FALSE]

Roles(doc) == {f \in RoleFields : doc.fields[f] = "on"}

-----------------------------------------------------------------------------
(* POST on a network: putNetwork. *)

PutNetwork(r, n, patch) == Start(r, "putNetwork", "getNetwork", <<n>>, patch)

\* An unknown ID is created over the defaults; otherwise the patch is merged
\* into the row that was read, at the revision that was read.
PutNetworkGet(r) ==
    LET n == request[r].k[1]  patch == request[r].patch IN
    /\ At(r, "getNetwork")
    /\ request' = [request EXCEPT
           ![r].pc = IF n \in DOMAIN networks THEN "updateNetwork" ELSE "createNetwork",
           ![r].network = IF n \in DOMAIN networks THEN networks[n] ELSE NoRow,
           ![r].fields = Merge(IF n \in DOMAIN networks THEN networks[n].doc
                                                         ELSE DefaultNetwork, patch)]
    /\ UNCHANGED tables

\* CreateNetworkWithUpdate.
PutNetworkCreate(r) ==
    LET n == request[r].k[1] IN
    /\ At(r, "createNetwork")
    /\ IF n \in DOMAIN networks
       THEN Answer(r, "conflict") /\ UNCHANGED tables
       ELSE DB!CreateNetwork(n, request[r].fields) /\ Goto(r, "regetNetwork")

\* POST without an ID, and the "______" form of putNetwork: an ID is drawn, and
\* drawn again as long as it is taken.  (After 100000 attempts the request fails, with
\* no change to the store: not in the model.)
CreateRandom(r, n, patch) ==
    /\ request[r] = Unused
    /\ n \notin DOMAIN networks
    /\ DB!CreateNetwork(n, Merge(DefaultNetwork, patch))
    /\ request' = [request EXCEPT ![r] = [Unused EXCEPT !.op = "putNetwork",
                       !.pc = "regetNetwork", !.k = <<n>>, !.patch = patch]]

\* UpdateNetwork: the row is read again and compared with the revision the
\* patch was merged at.
PutNetworkUpdate(r) ==
    LET n == request[r].k[1] IN
    /\ At(r, "updateNetwork")
    /\ IF DB!IsCurrent(networks, n, request[r].network.revision)
       THEN Goto(r, "saveNetwork")
       ELSE Refuse(r, networks, n)
    /\ UNCHANGED tables

PutNetworkSave(r) ==
    LET n == request[r].k[1]  revision == request[r].network.revision IN
    /\ At(r, "saveNetwork")
    /\ IF DB!IsCurrent(networks, n, revision)
       THEN DB!SaveNetwork(n, revision, request[r].fields) /\ Goto(r, "regetNetwork")
       ELSE Refuse(r, networks, n) /\ UNCHANGED tables

PutNetworkReget(r) ==
    /\ At(r, "regetNetwork")
    /\ Answer(r, IF request[r].k[1] \in DOMAIN networks THEN "ok" ELSE "notFound")
    /\ UNCHANGED tables

-----------------------------------------------------------------------------
(* POST on a member: putMember.  RegisterMember comes first. *)

PutMember(r, k, patch) == Start(r, "putMember", "getMember", k, patch)

\* The update is built from the registered member and the patch.
Registered(r) ==
    LET row == members[request[r].k] IN
    request' = [request EXCEPT ![r].pc = "updateMember", ![r].member = row,
                               ![r].fields = Merge(row.doc.fields, request[r].patch)]

PutMemberGet(r) ==
    /\ At(r, "getMember")
    /\ IF request[r].k \in DOMAIN members THEN Registered(r) ELSE Goto(r, "createMember")
    /\ UNCHANGED tables

PutMemberCreate(r) ==
    LET k == request[r].k IN
    /\ At(r, "createMember")
    /\ \/ /\ k[1] \notin DOMAIN networks
          /\ Answer(r, "notFound") /\ UNCHANGED tables
       \/ /\ k[1] \in DOMAIN networks /\ k \in DOMAIN members
          /\ Goto(r, "regetMember") /\ UNCHANGED tables
       \/ /\ k[1] \in DOMAIN networks /\ k \notin DOMAIN members
          /\ DB!CreateMember(k, DefaultMember) /\ Goto(r, "regetMember")

PutMemberReget(r) ==
    /\ At(r, "regetMember")
    /\ IF request[r].k \in DOMAIN members THEN Registered(r) ELSE Answer(r, "notFound")
    /\ UNCHANGED tables

\* An update that is refused and then ignored.
PutMemberUpdateIgnored(r) ==
    LET k == request[r].k IN
    /\ At(r, "updateMember")
    /\ IF DB!IsCurrent(members, k, request[r].member.revision)
       THEN request' = [request EXCEPT ![r].pc = "saveMember", ![r].member = members[k]]
       ELSE Goto(r, "updated")
    /\ UNCHANGED tables

\* UpdateMember reads the member again and compares its revision with the one
\* RegisterMember returned.
PutMemberUpdate(r) ==
    LET k == request[r].k IN
    /\ At(r, "updateMember")
    /\ IF DB!IsCurrent(members, k, request[r].member.revision)
       THEN request' = [request EXCEPT ![r].pc = "saveMember", ![r].member = members[k]]
       ELSE Refuse(r, members, k)
    /\ UNCHANGED tables

\* The save: the update's fields, with the authorization just read.
PutMemberSave(r) ==
    LET k == request[r].k  old == request[r].member
        doc == [fields |-> request[r].fields, authorized |-> old.doc.authorized] IN
    /\ At(r, "saveMember")
    /\ IF DB!IsCurrent(members, k, old.revision)
       THEN /\ DB!SaveMember(k, old.revision, doc)
            /\ GotoAfterBump(r, doc.authorized /\ Roles(doc) # Roles(old.doc), "updated")
       ELSE Refuse(r, members, k) /\ UNCHANGED tables

\* UpdateMember returns the member it reads back.  Authorization follows if the
\* patch has one that differs from it.
PutMemberUpdated(r) ==
    LET k == request[r].k IN
    /\ At(r, "updated")
    /\ \/ k \notin DOMAIN members /\ Answer(r, "notFound")
       \/ /\ k \in DOMAIN members
          /\ request[r].patch.authorized \subseteq {members[k].doc.authorized}
          /\ Answer(r, "ok")
       \/ /\ k \in DOMAIN members
          /\ ~ request[r].patch.authorized \subseteq {members[k].doc.authorized}
          /\ request' = [request EXCEPT ![r].pc = "authorize", ![r].member = members[k]]
    /\ UNCHANGED tables

\* SetMemberAuthorization, at the revision UpdateMember returned.
PutMemberAuthorize(r) ==
    LET k == request[r].k IN
    /\ At(r, "authorize")
    /\ \/ /\ ~ DB!IsCurrent(members, k, request[r].member.revision)
          /\ Refuse(r, members, k)
       \/ /\ DB!IsCurrent(members, k, request[r].member.revision)
          /\ request[r].patch.authorized = {members[k].doc.authorized}
          /\ Answer(r, "ok")
       \/ /\ DB!IsCurrent(members, k, request[r].member.revision)
          /\ request[r].patch.authorized # {members[k].doc.authorized}
          /\ request' = [request EXCEPT ![r].pc = "saveAuthorization",
                                        ![r].member = members[k]]
    /\ UNCHANGED tables

PutMemberSaveAuthorization(r) ==
    LET k == request[r].k  old == request[r].member
        doc == [old.doc EXCEPT !.authorized = ~ @] IN
    /\ At(r, "saveAuthorization")
    /\ IF DB!IsCurrent(members, k, old.revision)
       THEN /\ DB!SaveMember(k, old.revision, doc)
            /\ GotoAfterBump(r, Roles(doc) # {}, "authorized")
       ELSE Refuse(r, members, k) /\ UNCHANGED tables

PutMemberAuthorized(r) ==
    /\ At(r, "authorized")
    /\ Answer(r, IF request[r].k \in DOMAIN members THEN "ok" ELSE "notFound")
    /\ UNCHANGED tables

-----------------------------------------------------------------------------
(* bumpNetworkRevision, within UpdateMember, SetMemberAuthorization and    *)
(* DeleteMember.                                                           *)

BumpGet(r) ==
    LET n == request[r].k[1] IN
    /\ At(r, "bumpGet")
    /\ IF n \in DOMAIN networks
       THEN request' = [request EXCEPT ![r].pc = "bumpSave", ![r].network = networks[n]]
       ELSE Answer(r, "notFound")
    /\ UNCHANGED tables

BumpSave(r) ==
    LET n == request[r].k[1]  row == request[r].network IN
    /\ At(r, "bumpSave")
    /\ IF DB!IsCurrent(networks, n, row.revision)
       THEN DB!SaveNetwork(n, row.revision, row.doc) /\ Goto(r, request[r].resume)
       ELSE Refuse(r, networks, n) /\ UNCHANGED tables

-----------------------------------------------------------------------------
(* DELETE: the handler reads the row it will answer with, and the service  *)
(* reads it again for the revision to delete.                              *)

DeleteNetworkRead(r, n) ==
    /\ n \in DOMAIN networks
    /\ Start(r, "deleteNetwork", "deleteNetworkGet", <<n>>, NoRow)

DeleteNetworkGet(r) ==
    LET n == request[r].k[1] IN
    /\ At(r, "deleteNetworkGet")
    /\ IF n \in DOMAIN networks
       THEN request' = [request EXCEPT ![r].pc = "deleteNetwork", ![r].network = networks[n]]
       ELSE Answer(r, "notFound")
    /\ UNCHANGED tables

DeleteNetworkDelete(r) ==
    LET n == request[r].k[1] IN
    /\ At(r, "deleteNetwork")
    /\ IF DB!IsCurrent(networks, n, request[r].network.revision)
       THEN DB!DeleteNetwork(n) /\ Answer(r, "ok")
       ELSE Refuse(r, networks, n) /\ UNCHANGED tables

DeleteMemberRead(r, k) ==
    /\ k \in DOMAIN members
    /\ Start(r, "deleteMember", "deleteMemberGet", k, NoRow)

DeleteMemberGet(r) ==
    LET k == request[r].k IN
    /\ At(r, "deleteMemberGet")
    /\ \/ k \notin DOMAIN members /\ Answer(r, "notFound")
       \/ /\ k \in DOMAIN members
          /\ LET doc == members[k].doc
                 bump == doc.authorized /\ Roles(doc) # {} IN
             request' = [request EXCEPT ![r].pc = IF bump THEN "bumpGet" ELSE "deleteMember",
                             ![r].resume = "deleteMember", ![r].member = members[k]]
    /\ UNCHANGED tables

DeleteMemberDelete(r) ==
    LET k == request[r].k IN
    /\ At(r, "deleteMember")
    /\ IF DB!IsCurrent(members, k, request[r].member.revision)
       THEN DB!DeleteMember(k) /\ Answer(r, "ok")
       ELSE Refuse(r, members, k) /\ UNCHANGED tables

-----------------------------------------------------------------------------
(* Requests that look at every network: GET /metrics and the detailed      *)
(* listing.  ListNetworks, then for each network found ListMembers, which  *)
(* reads the network and its members; a network deleted between these two  *)
(* reads gives the answer of one deleted before them.                      *)

ScanNetworks(r) ==
    /\ request[r] = Unused
    /\ request' = [request EXCEPT ![r] = [Unused EXCEPT !.op = "scan", !.pc = "scan",
                                              !.remaining = DOMAIN networks]]
    /\ UNCHANGED tables

ScanMembers(r) ==
    /\ At(r, "scan")
    /\ \/ request[r].remaining = {} /\ Answer(r, "ok")
       \/ \E n \in request[r].remaining :
             IF n \in DOMAIN networks
             THEN request' = [request EXCEPT ![r].remaining = @ \ {n}]
             ELSE Answer(r, "notFound")
    /\ UNCHANGED tables

-----------------------------------------------------------------------------
(* Everybody else. *)

Below(table, k) == k \in DOMAIN table /\ table[k].revision < MaxRevision

\* handler.go: updateNetwork, at the revision its client knows.
OtherUpdateNetwork ==
    /\ "save" \in OtherWrites
    /\ \E n \in Networks, f \in NetworkFields, v \in {"default", "set"} :
          /\ Below(networks, n)
          /\ DB!SaveNetwork(n, networks[n].revision, [networks[n].doc EXCEPT ![f] = v])
    /\ UNCHANGED request

\* handler.go: updateMember; and ensureAutomaticAssignments, at the revision it
\* has read.
OtherUpdateMember ==
    /\ "save" \in OtherWrites
    /\ \E k \in DB!Keys, patch \in MemberPatches :
          /\ Below(members, k)
          /\ DB!SaveMember(k, members[k].revision,
                           [members[k].doc EXCEPT !.fields = Merge(@, patch)])
    /\ UNCHANGED request

\* handler.go: setAuthorization.
OtherSetAuthorization ==
    /\ "save" \in OtherWrites
    /\ \E k \in DB!Keys :
          /\ Below(members, k)
          /\ DB!SaveMember(k, members[k].revision, [members[k].doc EXCEPT !.authorized = ~ @])
    /\ UNCHANGED request

\* handler.go: createNetwork and registerMember.
OtherCreate ==
    /\ "create" \in OtherWrites
    /\ \/ \E n \in Networks \ DOMAIN networks : DB!CreateNetwork(n, DefaultNetwork)
       \/ \E k \in DB!Keys \ DOMAIN members :
             k[1] \in DOMAIN networks /\ DB!CreateMember(k, DefaultMember)
    /\ UNCHANGED request

\* Other DELETE requests.
OtherDelete ==
    /\ "delete" \in OtherWrites
    /\ \/ \E n \in DOMAIN networks : DB!DeleteNetwork(n)
       \/ \E k \in DOMAIN members : DB!DeleteMember(k)
    /\ UNCHANGED request

-----------------------------------------------------------------------------
(* Which parts of its patch a request's row has. *)

Parts(patch) ==
    {"fields"} \cup (IF patch.authorized = {} THEN {} ELSE {"authorized"})

Agrees(fields, patch) == \A f \in DOMAIN patch.fields : fields[f] = patch.fields[f]

Holding(req) ==
    CASE req.op = "putNetwork" /\ req.k[1] \in DOMAIN networks ->
           IF Agrees(networks[req.k[1]].doc, req.patch) THEN {"fields"} ELSE {}
      [] req.op = "putMember" /\ req.k \in DOMAIN members ->
           LET doc == members[req.k].doc IN
           (IF Agrees(doc.fields, req.patch) THEN {"fields"} ELSE {})
             \cup (IF req.patch.authorized = {doc.authorized} THEN {"authorized"} ELSE {})
      [] OTHER -> {}

RowDeleted == \/ ~ DOMAIN networks \subseteq DOMAIN networks'
              \/ ~ DOMAIN members \subseteq DOMAIN members'

\* held[r]: the parts of its patch that the row of request r has had since r
\* began, and "deleted" if any row was deleted since then.
Observe ==
    held' = [r \in Requests |->
                held[r] \cup Holding(request[r])'
                        \cup (IF request[r] # Unused /\ RowDeleted THEN {"deleted"} ELSE {})]

RequestStep(r) ==
    \/ \E n \in Networks, patch \in NetworkPatches : PutNetwork(r, n, patch) \/ CreateRandom(r, n, patch)
    \/ PutNetworkGet(r) \/ PutNetworkCreate(r) \/ PutNetworkUpdate(r)
    \/ PutNetworkSave(r) \/ PutNetworkReget(r)
    \/ \E k \in DB!Keys, patch \in MemberPatches : PutMember(r, k, patch)
    \/ PutMemberGet(r) \/ PutMemberCreate(r) \/ PutMemberReget(r)
    \/ PutMemberUpdate(r) \/ PutMemberSave(r) \/ PutMemberUpdated(r)
    \/ PutMemberAuthorize(r) \/ PutMemberSaveAuthorization(r) \/ PutMemberAuthorized(r)
    \/ BumpGet(r) \/ BumpSave(r)
    \/ "deleteNetwork" \in OtherRequests /\ \E n \in Networks : DeleteNetworkRead(r, n)
    \/ DeleteNetworkGet(r) \/ DeleteNetworkDelete(r)
    \/ "deleteMember" \in OtherRequests /\ \E k \in DB!Keys : DeleteMemberRead(r, k)
    \/ DeleteMemberGet(r) \/ DeleteMemberDelete(r)
    \/ "scan" \in OtherRequests /\ ScanNetworks(r)
    \/ ScanMembers(r)

Next ==
    \/ (\E r \in Requests : RequestStep(r)) /\ Observe
    \/ (OtherUpdateNetwork \/ OtherUpdateMember \/ OtherSetAuthorization) /\ Observe
    \/ (OtherCreate \/ OtherDelete) /\ Observe

Spec == Init /\ [][Next]_vars

-----------------------------------------------------------------------------
(* Properties. *)

(* Partial-update semantics of the adapter: a step of a legacy POST leaves *)
(* every field its patch does not name, and the authorization unless the   *)
(* patch has one, as the row had them at that very moment, although what   *)
(* it saves is the whole content it read several store calls earlier.  No  *)
(* write of another client is lost.  (A row that is deleted and created    *)
(* again while the request runs starts again at revision 1, and the code   *)
(* cannot tell it from the row the patch was merged into.)                 *)
PatchKeepsOtherFields ==
    [][\A r \in Requests : request'[r] # request[r] /\ request'[r].patch # NoRow
                             /\ "deleted" \notin held[r] =>
          LET patch == request'[r].patch IN
          /\ \A n \in DOMAIN networks \cap DOMAIN networks' :
                \A f \in NetworkFields : networks'[n].doc[f] # networks[n].doc[f] =>
                    request[r].op = "putNetwork" /\ f \in DOMAIN patch.fields
          /\ \A k \in DOMAIN members \cap DOMAIN members' :
                LET old == members[k].doc  new == members'[k].doc IN
                /\ \A f \in MemberFields : new.fields[f] # old.fields[f] =>
                       request[r].op = "putMember" /\ f \in DOMAIN patch.fields
                /\ new.authorized # old.authorized => patch.authorized = {new.authorized}]_vars

(* A client that is answered 200 was obeyed: while its request ran, the    *)
(* row it names held every field of its patch, and its authorization.      *)
(* putMember has three operations that can each be refused, and goes on    *)
(* only after the ones that were not.                                      *)
AcknowledgedPatchApplied ==
    \A r \in Requests :
        request[r].answer = "ok" /\ request[r].patch # NoRow
            => Parts(request[r].patch) \subseteq held[r]

=============================================================================
