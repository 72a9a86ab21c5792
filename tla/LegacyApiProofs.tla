-------------------------- MODULE LegacyApiProofs ---------------------------
(***************************************************************************)
(* Theorems about the historical controller API, for any networks, nodes,  *)
(* fields and patches, any number of requests and any other writers.       *)
(***************************************************************************)
EXTENDS LegacyApi, TLAPS

-----------------------------------------------------------------------------
(* The local variables of a request. *)

Handling(op, pc, k, patch, network, member, fields, resume, remaining, answer) ==
    [op |-> op, pc |-> pc, k |-> k, patch |-> patch, network |-> network, member |-> member,
     fields |-> fields, resume |-> resume, remaining |-> remaining, answer |-> answer]

IsRequest(t) == t = Handling(t.op, t.pc, t.k, t.patch, t.network, t.member, t.fields, t.resume,
                             t.remaining, t.answer)

AreRequests(f) == f = [r \in Requests |-> f[r]] /\ \A r \in Requests : IsRequest(f[r])

\* From f to g, request r assigns these values to its variables, and no other does.
Moves(f, g, r, pc, network, member, fields, resume, answer) ==
    /\ AreRequests(g)
    /\ \A v \in Requests : v # r => g[v] = f[v]
    /\ g[r].op = f[r].op /\ g[r].k = f[r].k /\ g[r].patch = f[r].patch
    /\ g[r].pc = pc /\ g[r].network = network /\ g[r].member = member
    /\ g[r].fields = fields /\ g[r].resume = resume /\ g[r].answer = answer

WithPc(f, r, x) == [f EXCEPT ![r].pc = x]
WithNetwork(f, r, x) == [f EXCEPT ![r].network = x]
WithMember(f, r, x) == [f EXCEPT ![r].member = x]
WithFields(f, r, x) == [f EXCEPT ![r].fields = x]
WithResume(f, r, x) == [f EXCEPT ![r].resume = x]
WithRemaining(f, r, x) == [f EXCEPT ![r].remaining = x]
WithAnswer(f, r, x) == [f EXCEPT ![r].answer = x]

(* Assigning to one variable of a request changes that variable only. *)
LEMMA SetOne ==
    ASSUME NEW f, AreRequests(f), NEW r \in Requests, NEW x
    PROVE  LET t == f[r] IN
           /\ Moves(f, WithPc(f, r, x), r, x, t.network, t.member, t.fields, t.resume, t.answer)
           /\ Moves(f, WithNetwork(f, r, x), r, t.pc, x, t.member, t.fields, t.resume, t.answer)
           /\ Moves(f, WithMember(f, r, x), r, t.pc, t.network, x, t.fields, t.resume, t.answer)
           /\ Moves(f, WithFields(f, r, x), r, t.pc, t.network, t.member, x, t.resume, t.answer)
           /\ Moves(f, WithResume(f, r, x), r, t.pc, t.network, t.member, t.fields, x, t.answer)
           /\ Moves(f, WithRemaining(f, r, x), r, t.pc, t.network, t.member, t.fields, t.resume,
                    t.answer)
           /\ Moves(f, WithAnswer(f, r, x), r, t.pc, t.network, t.member, t.fields, t.resume, x)
  <1> USE DEF Moves, AreRequests, IsRequest, Handling
  <1> DEFINE t == f[r]
  <1>1. Moves(f, WithPc(f, r, x), r, x, t.network, t.member, t.fields, t.resume, t.answer)
    BY DEF WithPc
  <1>2. Moves(f, WithNetwork(f, r, x), r, t.pc, x, t.member, t.fields, t.resume, t.answer)
    BY DEF WithNetwork
  <1>3. Moves(f, WithMember(f, r, x), r, t.pc, t.network, x, t.fields, t.resume, t.answer)
    BY DEF WithMember
  <1>4. Moves(f, WithFields(f, r, x), r, t.pc, t.network, t.member, x, t.resume, t.answer)
    BY DEF WithFields
  <1>5. Moves(f, WithResume(f, r, x), r, t.pc, t.network, t.member, t.fields, x, t.answer)
    BY DEF WithResume
  <1>6. Moves(f, WithRemaining(f, r, x), r, t.pc, t.network, t.member, t.fields, t.resume, t.answer)
    BY DEF WithRemaining
  <1>7. Moves(f, WithAnswer(f, r, x), r, t.pc, t.network, t.member, t.fields, t.resume, x)
    BY DEF WithAnswer
  <1> HIDE DEF Moves
  <1> QED  BY <1>1, <1>2, <1>3, <1>4, <1>5, <1>6, <1>7

(* Two moves of a request make one. *)
LEMMA MovesOn ==
    ASSUME NEW f, NEW g, NEW h, NEW r \in Requests,
           NEW pc, NEW network, NEW member, NEW fields, NEW resume, NEW answer,
           NEW pc2, NEW network2, NEW member2, NEW fields2, NEW resume2, NEW answer2,
           Moves(f, g, r, pc, network, member, fields, resume, answer),
           Moves(g, h, r, pc2, network2, member2, fields2, resume2, answer2)
    PROVE  Moves(f, h, r, pc2, network2, member2, fields2, resume2, answer2)
    BY DEF Moves

(* The assignments that the handlers make together. *)
LEMMA SetTwo ==
    ASSUME AreRequests(request), NEW r \in Requests, NEW pc, NEW x
    PROVE  LET t == request[r] IN
           /\ request' = [request EXCEPT ![r].pc = pc, ![r].answer = x] =>
                 Moves(request, request', r, pc, t.network, t.member, t.fields, t.resume, x)
           /\ request' = [request EXCEPT ![r].pc = pc, ![r].resume = x] =>
                 Moves(request, request', r, pc, t.network, t.member, t.fields, x, t.answer)
           /\ request' = [request EXCEPT ![r].pc = pc, ![r].network = x] =>
                 Moves(request, request', r, pc, x, t.member, t.fields, t.resume, t.answer)
           /\ request' = [request EXCEPT ![r].pc = pc, ![r].member = x] =>
                 Moves(request, request', r, pc, t.network, x, t.fields, t.resume, t.answer)
  <1> DEFINE t == request[r]
             f == WithPc(request, r, pc)
  <1>1. Moves(request, f, r, pc, t.network, t.member, t.fields, t.resume, t.answer)
    BY SetOne
  <1>2. /\ [request EXCEPT ![r].pc = pc, ![r].answer = x] = WithAnswer(f, r, x)
        /\ [request EXCEPT ![r].pc = pc, ![r].resume = x] = WithResume(f, r, x)
        /\ [request EXCEPT ![r].pc = pc, ![r].network = x] = WithNetwork(f, r, x)
        /\ [request EXCEPT ![r].pc = pc, ![r].member = x] = WithMember(f, r, x)
    BY DEF WithPc, WithAnswer, WithResume, WithNetwork, WithMember
  <1> HIDE DEF f
  <1>3. /\ AreRequests(f) /\ f[r].pc = pc /\ f[r].network = t.network /\ f[r].member = t.member
        /\ f[r].fields = t.fields /\ f[r].resume = t.resume /\ f[r].answer = t.answer
    BY <1>1 DEF Moves
  <1>4. /\ Moves(f, WithAnswer(f, r, x), r, pc, t.network, t.member, t.fields, t.resume, x)
        /\ Moves(f, WithResume(f, r, x), r, pc, t.network, t.member, t.fields, x, t.answer)
        /\ Moves(f, WithNetwork(f, r, x), r, pc, x, t.member, t.fields, t.resume, t.answer)
        /\ Moves(f, WithMember(f, r, x), r, pc, t.network, x, t.fields, t.resume, t.answer)
    BY <1>3, SetOne
  <1>5. /\ Moves(request, WithAnswer(f, r, x), r, pc, t.network, t.member, t.fields, t.resume, x)
        /\ Moves(request, WithResume(f, r, x), r, pc, t.network, t.member, t.fields, x, t.answer)
        /\ Moves(request, WithNetwork(f, r, x), r, pc, x, t.member, t.fields, t.resume, t.answer)
        /\ Moves(request, WithMember(f, r, x), r, pc, t.network, x, t.fields, t.resume, t.answer)
    BY <1>1, <1>4, MovesOn
  <1> QED  BY <1>2, <1>5

(* Reading a row together with a third assignment. *)
LEMMA SetThree ==
    ASSUME AreRequests(request), NEW r \in Requests, NEW pc, NEW row, NEW x
    PROVE  LET t == request[r] IN
           /\ request' = [request EXCEPT ![r].pc = pc, ![r].network = row, ![r].fields = x] =>
                 Moves(request, request', r, pc, row, t.member, x, t.resume, t.answer)
           /\ request' = [request EXCEPT ![r].pc = pc, ![r].member = row, ![r].fields = x] =>
                 Moves(request, request', r, pc, t.network, row, x, t.resume, t.answer)
           /\ request' = [request EXCEPT ![r].pc = pc, ![r].resume = x, ![r].member = row] =>
                 Moves(request, request', r, pc, t.network, row, t.fields, x, t.answer)
  <1> DEFINE t == request[r]
             f == WithPc(request, r, pc)
             g == WithNetwork(f, r, row)
             h == WithMember(f, r, row)
             i == WithResume(f, r, x)
  <1>1. Moves(request, f, r, pc, t.network, t.member, t.fields, t.resume, t.answer)
    BY SetOne
  <1>2. /\ [request EXCEPT ![r].pc = pc, ![r].network = row, ![r].fields = x] = WithFields(g, r, x)
        /\ [request EXCEPT ![r].pc = pc, ![r].member = row, ![r].fields = x] = WithFields(h, r, x)
        /\ [request EXCEPT ![r].pc = pc, ![r].resume = x, ![r].member = row] = WithMember(i, r, row)
    BY DEF WithPc, WithResume, WithNetwork, WithMember, WithFields
  <1> HIDE DEF f
  <1>3. /\ AreRequests(f) /\ f[r].pc = pc /\ f[r].network = t.network /\ f[r].member = t.member
        /\ f[r].fields = t.fields /\ f[r].resume = t.resume /\ f[r].answer = t.answer
    BY <1>1 DEF Moves
  <1>4. /\ Moves(f, g, r, pc, row, t.member, t.fields, t.resume, t.answer)
        /\ Moves(f, h, r, pc, t.network, row, t.fields, t.resume, t.answer)
        /\ Moves(f, i, r, pc, t.network, t.member, t.fields, x, t.answer)
    BY <1>3, SetOne
  <1>5. /\ Moves(request, g, r, pc, row, t.member, t.fields, t.resume, t.answer)
        /\ Moves(request, h, r, pc, t.network, row, t.fields, t.resume, t.answer)
        /\ Moves(request, i, r, pc, t.network, t.member, t.fields, x, t.answer)
    BY <1>1, <1>4, MovesOn
  <1> HIDE DEF g, h, i
  <1>6. /\ AreRequests(g) /\ g[r].pc = pc /\ g[r].network = row /\ g[r].member = t.member
        /\ g[r].fields = t.fields /\ g[r].resume = t.resume /\ g[r].answer = t.answer
    BY <1>5 DEF Moves
  <1>7. /\ AreRequests(h) /\ h[r].pc = pc /\ h[r].network = t.network /\ h[r].member = row
        /\ h[r].fields = t.fields /\ h[r].resume = t.resume /\ h[r].answer = t.answer
    BY <1>5 DEF Moves
  <1>8. /\ AreRequests(i) /\ i[r].pc = pc /\ i[r].network = t.network /\ i[r].member = t.member
        /\ i[r].fields = t.fields /\ i[r].resume = x /\ i[r].answer = t.answer
    BY <1>5 DEF Moves
  <1>9. /\ Moves(g, WithFields(g, r, x), r, pc, row, t.member, x, t.resume, t.answer)
        /\ Moves(h, WithFields(h, r, x), r, pc, t.network, row, x, t.resume, t.answer)
        /\ Moves(i, WithMember(i, r, row), r, pc, t.network, row, t.fields, x, t.answer)
    BY <1>6, <1>7, <1>8, SetOne
  <1>10. /\ Moves(request, WithFields(g, r, x), r, pc, row, t.member, x, t.resume, t.answer)
         /\ Moves(request, WithFields(h, r, x), r, pc, t.network, row, x, t.resume, t.answer)
         /\ Moves(request, WithMember(i, r, row), r, pc, t.network, row, t.fields, x, t.answer)
    BY <1>5, <1>9, MovesOn
  <1> QED  BY <1>2, <1>10

\* From f to g, request r begins.
Begins(f, g, r, op, pc, k, patch) ==
    /\ AreRequests(g)
    /\ \A v \in Requests : v # r => g[v] = f[v]
    /\ g[r].op = op /\ g[r].pc = pc /\ g[r].k = k /\ g[r].patch = patch /\ g[r].answer = "none"

(* A record that replaces the variables of a request is what it has then. *)
LEMMA BeginsRecord ==
    ASSUME AreRequests(request), NEW r \in Requests, NEW op, NEW pc, NEW k, NEW patch,
           NEW remaining, NEW x,
           x = Handling(op, pc, k, patch, NoRow, NoRow, NoRow, "none", remaining, "none"),
           request' = [request EXCEPT ![r] = x]
    PROVE  Begins(request, request', r, op, pc, k, patch)
  <1>1. /\ IsRequest(x) /\ x.op = op /\ x.pc = pc /\ x.k = k /\ x.patch = patch
        /\ x.answer = "none"
    BY DEF IsRequest, Handling
  <1> QED  BY <1>1 DEF Begins, AreRequests

(* A request that begins has the variables it is given. *)
LEMMA BeginsWith ==
    ASSUME AreRequests(request), NEW r \in Requests, NEW op, NEW pc, NEW k, NEW patch,
           request' = [request EXCEPT ![r] = [Unused EXCEPT !.op = op, !.pc = pc, !.k = k,
                                                            !.patch = patch]]
    PROVE  Begins(request, request', r, op, pc, k, patch)
  <1> DEFINE a == [Unused EXCEPT !.op = op]
             b == [a EXCEPT !.pc = pc]
             c == [b EXCEPT !.k = k]
             d == [c EXCEPT !.patch = patch]
  <1>1. request' = [request EXCEPT ![r] = d]
    OBVIOUS
  <1>2. a = Handling(op, "unused", NoRow, NoRow, NoRow, NoRow, NoRow, "none", {}, "none")
    BY DEF Unused, Handling
  <1> HIDE DEF a
  <1>3. b = Handling(op, pc, NoRow, NoRow, NoRow, NoRow, NoRow, "none", {}, "none")
    BY <1>2 DEF Handling
  <1> HIDE DEF b
  <1>4. c = Handling(op, pc, k, NoRow, NoRow, NoRow, NoRow, "none", {}, "none")
    BY <1>3 DEF Handling
  <1> HIDE DEF c
  <1>5. d = Handling(op, pc, k, patch, NoRow, NoRow, NoRow, "none", {}, "none")
    BY <1>4 DEF Handling
  <1> HIDE DEF d
  <1> QED  BY <1>1, <1>5, BeginsRecord

(* The same for a scan. *)
LEMMA BeginsScan ==
    ASSUME AreRequests(request), NEW r \in Requests, NEW remaining,
           request' = [request EXCEPT ![r] = [Unused EXCEPT !.op = "scan", !.pc = "scan",
                                                            !.remaining = remaining]]
    PROVE  Begins(request, request', r, "scan", "scan", NoRow, NoRow)
  <1> DEFINE a == [Unused EXCEPT !.op = "scan"]
             b == [a EXCEPT !.pc = "scan"]
             c == [b EXCEPT !.remaining = remaining]
  <1>1. request' = [request EXCEPT ![r] = c]
    OBVIOUS
  <1>2. a = Handling("scan", "unused", NoRow, NoRow, NoRow, NoRow, NoRow, "none", {}, "none")
    BY DEF Unused, Handling
  <1> HIDE DEF a
  <1>3. b = Handling("scan", "scan", NoRow, NoRow, NoRow, NoRow, NoRow, "none", {}, "none")
    BY <1>2 DEF Handling
  <1> HIDE DEF b
  <1>4. c = Handling("scan", "scan", NoRow, NoRow, NoRow, NoRow, NoRow, "none", remaining, "none")
    BY <1>3 DEF Handling
  <1> HIDE DEF c
  <1> QED  BY <1>1, <1>4, BeginsRecord

-----------------------------------------------------------------------------
(* The invariant. *)

PutNetworkCalls == {"getNetwork", "createNetwork", "updateNetwork", "saveNetwork", "regetNetwork"}
PutMemberCalls == {"getMember", "createMember", "regetMember", "updateMember", "saveMember",
                   "updated", "authorize", "saveAuthorization", "authorized"}
Bumps == {"bumpGet", "bumpSave"}

\* Which request makes which store calls, and for whom it bumps the network.
WellPlaced(t) ==
    /\ t.pc \in PutNetworkCalls => t.op = "putNetwork"
    /\ t.pc \in PutMemberCalls => t.op = "putMember"
    /\ t.pc \in Bumps =>
          \/ t.op = "putMember" /\ t.resume \in {"updated", "authorized"}
          \/ t.op = "deleteMember" /\ t.resume = "deleteMember"
    /\ t.pc \in {"deleteNetworkGet", "deleteNetwork"} => t.op = "deleteNetwork"
    /\ t.pc \in {"deleteMemberGet", "deleteMember"} => t.op = "deleteMember"
    /\ t.pc = "scan" => t.op = "scan"
    /\ t.op = "putNetwork" => t.patch \in NetworkPatches
    /\ t.op = "putMember" => t.patch \in MemberPatches
    /\ t.op \notin {"putNetwork", "putMember"} => t.patch = NoRow
    /\ t.answer = "ok" => t.pc = "answered"

\* The contents it is going to write have its patch.
Prepared(t) ==
    /\ t.pc \in {"createNetwork", "updateNetwork", "saveNetwork"} =>
          DOMAIN t.fields = NetworkFields /\ Agrees(t.fields, t.patch)
    /\ t.pc \in {"updateMember", "saveMember"} =>
          DOMAIN t.fields = MemberFields /\ Agrees(t.fields, t.patch)
    /\ t.pc \in {"updateNetwork", "saveNetwork", "bumpSave"} => IsNetworkRow(t.network)
    /\ t.pc \in {"updateMember", "saveMember", "saveAuthorization"} => IsMemberRow(t.member)
    /\ t.pc = "authorize" => t.patch.authorized # {}
    /\ t.pc = "saveAuthorization" => t.patch.authorized = {~ t.member.doc.authorized}

\* What it has done by now was in the row at some time.
Applied(t, h) ==
    /\ t.pc \in {"regetNetwork", "updated", "authorize", "saveAuthorization"} => "fields" \in h
    /\ t.pc \in Bumps /\ t.op = "putMember" => "fields" \in h
    /\ t.pc = "authorized" \/ (t.pc \in Bumps /\ t.resume = "authorized") =>
          "fields" \in h /\ "authorized" \in h
    /\ t.answer = "ok" /\ t.op \in {"putNetwork", "putMember"} => Parts(t.patch) \subseteq h

\* A copy is older than the row, or equal to it.
IsCopy(table, k, row) ==
    /\ k \in DOMAIN table
    /\ row.revision <= table[k].revision
    /\ row.revision = table[k].revision => row = table[k]

\* The rows it holds are copies, and it merged its patch into one of them.
HoldsCopies(t, nets, mems) ==
    /\ t.pc \in {"updateNetwork", "saveNetwork", "bumpSave"} => IsCopy(nets, t.k[1], t.network)
    /\ t.pc \in {"updateMember", "saveMember", "saveAuthorization"} => IsCopy(mems, t.k, t.member)
    /\ t.pc \in {"updateNetwork", "saveNetwork"} => t.fields = Merge(t.network.doc, t.patch)
    /\ t.pc \in {"updateMember", "saveMember"} => t.fields = Merge(t.member.doc.fields, t.patch)

RequestOK(t, h, nets, mems) ==
    /\ WellPlaced(t)
    /\ Prepared(t)
    /\ Applied(t, h)
    /\ "deleted" \notin h => HoldsCopies(t, nets, mems)

RowsOK(nets, mems) ==
    /\ \A n \in DOMAIN nets : IsNetworkRow(nets[n])
    /\ \A k \in DOMAIN mems : IsMemberRow(mems[k])

LegacyInvariant ==
    /\ AreRequests(request)
    /\ RowsOK(networks, members)
    /\ \A r \in Requests : RequestOK(request[r], held[r], networks, members)

-----------------------------------------------------------------------------
(* What steps do to the tables. *)

\* A row that is kept is left alone or advances by one revision.
Advances(old, new) ==
    \A k \in DOMAIN old \cap DOMAIN new :
        new[k] = old[k] \/ new[k].revision = old[k].revision + 1

TablesAdvance ==
    /\ RowsOK(networks', members')
    /\ Advances(networks, networks') /\ Advances(members, members')

(* Writes that meet their conditions advance the tables. *)
LEMMA NetworkWrites ==
    ASSUME RowsOK(networks, members), NEW n, NEW doc, DOMAIN doc = NetworkFields
    PROVE  /\ n \notin DOMAIN networks /\ DB!CreateNetwork(n, doc) => TablesAdvance
           /\ \A revision : DB!IsCurrent(networks, n, revision) /\ DB!SaveNetwork(n, revision, doc)
                               => TablesAdvance
  <1>1. ASSUME NEW row, IsNetworkRow(row), networks' = DB!Put(networks, n, row),
               members' = members, n \in DOMAIN networks => row.revision = networks[n].revision + 1
        PROVE  TablesAdvance
    <2>1. /\ DOMAIN networks' = DOMAIN networks \cup {n} /\ networks'[n] = row
          /\ \A x \in DOMAIN networks : x # n => networks'[x] = networks[x]
      BY <1>1 DEF DB!Put
    <2> QED  BY <1>1, <2>1 DEF TablesAdvance, RowsOK, Advances
  <1>2. ASSUME n \notin DOMAIN networks, DB!CreateNetwork(n, doc)
        PROVE  TablesAdvance
    <2> DEFINE row == [revision |-> 1, doc |-> doc]
    <2>1. IsNetworkRow(row)
      BY DEF IsNetworkRow
    <2>2. networks' = DB!Put(networks, n, row) /\ members' = members
      BY <1>2 DEF DB!CreateNetwork
    <2> HIDE DEF row
    <2> QED  BY <1>1, <1>2, <2>1, <2>2
  <1>3. ASSUME NEW revision, DB!IsCurrent(networks, n, revision), DB!SaveNetwork(n, revision, doc)
        PROVE  TablesAdvance
    <2> DEFINE row == [revision |-> revision + 1, doc |-> doc]
    <2>1. networks[n].revision = revision /\ revision \in Nat
      BY <1>3 DEF DB!IsCurrent, RowsOK, IsNetworkRow
    <2>2. IsNetworkRow(row) /\ row.revision = networks[n].revision + 1
      BY <2>1 DEF IsNetworkRow
    <2>3. networks' = DB!Put(networks, n, row) /\ members' = members
      BY <1>3 DEF DB!SaveNetwork
    <2> HIDE DEF row
    <2> QED  BY <1>1, <2>2, <2>3
  <1> QED  BY <1>2, <1>3

IsMemberDoc(doc) ==
    /\ doc = [fields |-> doc.fields, authorized |-> doc.authorized]
    /\ DOMAIN doc.fields = MemberFields
    /\ doc.authorized \in BOOLEAN

(* The same for members. *)
LEMMA MemberWrites ==
    ASSUME RowsOK(networks, members), NEW k, NEW doc, IsMemberDoc(doc)
    PROVE  /\ k \notin DOMAIN members /\ DB!CreateMember(k, doc) => TablesAdvance
           /\ \A revision : DB!IsCurrent(members, k, revision) /\ DB!SaveMember(k, revision, doc)
                               => TablesAdvance
  <1>1. ASSUME NEW row, IsMemberRow(row), members' = DB!Put(members, k, row),
               networks' = networks, k \in DOMAIN members => row.revision = members[k].revision + 1
        PROVE  TablesAdvance
    <2>1. /\ DOMAIN members' = DOMAIN members \cup {k} /\ members'[k] = row
          /\ \A x \in DOMAIN members : x # k => members'[x] = members[x]
      BY <1>1 DEF DB!Put
    <2> QED  BY <1>1, <2>1 DEF TablesAdvance, RowsOK, Advances
  <1>2. ASSUME k \notin DOMAIN members, DB!CreateMember(k, doc)
        PROVE  TablesAdvance
    <2> DEFINE row == [revision |-> 1, doc |-> doc]
    <2>1. IsMemberRow(row)
      BY DEF IsMemberRow, IsMemberDoc
    <2>2. members' = DB!Put(members, k, row) /\ networks' = networks
      BY <1>2 DEF DB!CreateMember
    <2> HIDE DEF row
    <2> QED  BY <1>1, <1>2, <2>1, <2>2
  <1>3. ASSUME NEW revision, DB!IsCurrent(members, k, revision), DB!SaveMember(k, revision, doc)
        PROVE  TablesAdvance
    <2> DEFINE row == [revision |-> revision + 1, doc |-> doc]
    <2>1. members[k].revision = revision /\ revision \in Nat
      BY <1>3 DEF DB!IsCurrent, RowsOK, IsMemberRow
    <2>2. IsMemberRow(row) /\ row.revision = members[k].revision + 1
      BY <2>1 DEF IsMemberRow, IsMemberDoc
    <2>3. members' = DB!Put(members, k, row) /\ networks' = networks
      BY <1>3 DEF DB!SaveMember
    <2> HIDE DEF row
    <2> QED  BY <1>1, <2>2, <2>3
  <1> QED  BY <1>2, <1>3

(* Deletions leave the rows that stay as they are. *)
LEMMA Deletions ==
    ASSUME RowsOK(networks, members),
           (\E n : DB!DeleteNetwork(n)) \/ (\E k : DB!DeleteMember(k))
    PROVE  TablesAdvance
  <1>1. ASSUME NEW n, DB!DeleteNetwork(n) PROVE TablesAdvance
    BY <1>1 DEF DB!DeleteNetwork, DB!Restrict, TablesAdvance, RowsOK, Advances
  <1>2. ASSUME NEW k, DB!DeleteMember(k) PROVE TablesAdvance
    BY <1>2 DEF DB!DeleteMember, DB!Restrict, TablesAdvance, RowsOK, Advances
  <1> QED  BY <1>1, <1>2

(* So does a step that leaves the tables alone. *)
LEMMA TablesUnchanged ==
    ASSUME RowsOK(networks, members), UNCHANGED tables
    PROVE  TablesAdvance
    BY DEF tables, TablesAdvance, RowsOK, Advances

(* A patch that is merged into fields is in the result, and the other      *)
(* fields are as they were.                                                *)
LEMMA MergeAgrees ==
    ASSUME NEW fields, NEW patch, DOMAIN patch.fields \subseteq DOMAIN fields
    PROVE  /\ DOMAIN Merge(fields, patch) = DOMAIN fields
           /\ Agrees(Merge(fields, patch), patch)
           /\ \A f \in DOMAIN fields : f \notin DOMAIN patch.fields =>
                 Merge(fields, patch)[f] = fields[f]
    BY DEF Merge, Agrees

(* Changing the authorization keeps the fields. *)
LEMMA FlipAuthorization ==
    ASSUME NEW doc, IsMemberDoc(doc)
    PROVE  LET new == [doc EXCEPT !.authorized = ~ @] IN
           /\ IsMemberDoc(new) /\ new.fields = doc.fields
           /\ new.authorized = ~ doc.authorized
  <1>1. PICK fields, authorized :
           /\ authorized \in BOOLEAN /\ DOMAIN fields = MemberFields
           /\ doc = [fields |-> fields, authorized |-> authorized]
    BY DEF IsMemberDoc
  <1>2. [doc EXCEPT !.authorized = ~ @] = [fields |-> fields, authorized |-> ~ authorized]
    BY <1>1
  <1> QED  BY <1>1, <1>2 DEF IsMemberDoc

(* Changing the fields keeps the authorization. *)
LEMMA ChangeFields ==
    ASSUME NEW doc, IsMemberDoc(doc), NEW patch \in MemberPatches
    PROVE  IsMemberDoc([doc EXCEPT !.fields = Merge(@, patch)])
  <1>1. DOMAIN Merge(doc.fields, patch) = MemberFields
    BY MergeAgrees, PatchesAssumption DEF IsMemberDoc
  <1> DEFINE new == [doc EXCEPT !.fields = Merge(@, patch)]
  <1>2. new = [fields |-> Merge(doc.fields, patch), authorized |-> doc.authorized]
    BY DEF IsMemberDoc
  <1> QED  BY <1>1, <1>2 DEF IsMemberDoc

-----------------------------------------------------------------------------
(* What is recorded about a request. *)

HoldingIn(req, nets, mems) ==
    CASE req.op = "putNetwork" /\ req.k[1] \in DOMAIN nets ->
           IF Agrees(nets[req.k[1]].doc, req.patch) THEN {"fields"} ELSE {}
      [] req.op = "putMember" /\ req.k \in DOMAIN mems ->
           LET doc == mems[req.k].doc IN
           (IF Agrees(doc.fields, req.patch) THEN {"fields"} ELSE {})
             \cup (IF req.patch.authorized = {doc.authorized} THEN {"authorized"} ELSE {})
      [] OTHER -> {}

(* The record of a request grows by what its row has after the step, and   *)
(* tells whether a row was deleted while the request ran.                  *)
LEMMA Recorded ==
    ASSUME Observe, NEW r \in Requests
    PROVE  /\ held[r] \subseteq held'[r]
           /\ HoldingIn(request'[r], networks', members') \subseteq held'[r]
           /\ request[r] # Unused /\ "deleted" \notin held'[r] =>
                 DOMAIN networks \subseteq DOMAIN networks' /\ DOMAIN members \subseteq DOMAIN members'
  <1>1. Holding(request[r])' = HoldingIn(request'[r], networks', members')
    BY DEF Holding, HoldingIn
  <1>2. held'[r] = held[r] \cup Holding(request[r])'
                     \cup (IF request[r] # Unused /\ RowDeleted THEN {"deleted"} ELSE {})
    BY DEF Observe
  <1> HIDE DEF HoldingIn
  <1> QED  BY <1>1, <1>2 DEF RowDeleted

(* A row that agrees with the patch is recorded. *)
LEMMA RecordedFields ==
    ASSUME NEW req, NEW nets, NEW mems
    PROVE  /\ /\ req.op = "putNetwork" /\ req.k[1] \in DOMAIN nets
              /\ Agrees(nets[req.k[1]].doc, req.patch)
              => "fields" \in HoldingIn(req, nets, mems)
           /\ /\ req.op = "putMember" /\ req.k \in DOMAIN mems
              /\ Agrees(mems[req.k].doc.fields, req.patch)
              => "fields" \in HoldingIn(req, nets, mems)
           /\ /\ req.op = "putMember" /\ req.k \in DOMAIN mems
              /\ req.patch.authorized = {mems[req.k].doc.authorized}
              => "authorized" \in HoldingIn(req, nets, mems)
    BY DEF HoldingIn

\* What a step of request r has to show.
StepOK(r) ==
    /\ AreRequests(request')
    /\ \A v \in Requests : v # r => request'[v] = request[v]
    /\ TablesAdvance
    /\ WellPlaced(request'[r]) /\ Prepared(request'[r]) /\ Applied(request'[r], held'[r])
    /\ "deleted" \notin held'[r] => HoldsCopies(request'[r], networks', members')

(* An answer other than 200 ends the request. *)
LEMMA Refused ==
    ASSUME AreRequests(request), NEW r \in Requests, WellPlaced(request[r]), TablesAdvance,
           NEW answer, answer # "ok", Answer(r, answer)
    PROVE  StepOK(r)
  <1> DEFINE t == request[r]
  <1>1. Moves(request, request', r, "answered", t.network, t.member, t.fields, t.resume, answer)
    BY SetTwo DEF Answer
  <1> QED  BY <1>1 DEF Moves, StepOK, WellPlaced, Prepared, Applied, HoldsCopies, PutNetworkCalls,
                       PutMemberCalls, Bumps

(* An answer 200 needs the patch to be recorded. *)
LEMMA Accepted ==
    ASSUME AreRequests(request), NEW r \in Requests, WellPlaced(request[r]), TablesAdvance,
           request[r].op \in {"putNetwork", "putMember"} => Parts(request[r].patch) \subseteq held'[r],
           Answer(r, "ok")
    PROVE  StepOK(r)
  <1> DEFINE t == request[r]
  <1>1. Moves(request, request', r, "answered", t.network, t.member, t.fields, t.resume, "ok")
    BY SetTwo DEF Answer
  <1> QED  BY <1>1 DEF Moves, StepOK, WellPlaced, Prepared, Applied, HoldsCopies, PutNetworkCalls,
                       PutMemberCalls, Bumps

(* A request that goes on holds what it held, and goes on to a call that   *)
(* writes nothing.                                                         *)
LEMMA GoesOn ==
    ASSUME AreRequests(request), NEW r \in Requests, WellPlaced(request[r]), TablesAdvance,
           request[r].pc # "answered", NEW pc, Goto(r, pc),
           \/ request[r].op = "putNetwork" /\ pc = "regetNetwork" /\ "fields" \in held'[r]
           \/ request[r].op = "putMember" /\ pc \in {"createMember", "regetMember"}
           \/ request[r].op = "putMember" /\ pc = "updated" /\ "fields" \in held'[r]
           \/ /\ request[r].op = "putMember" /\ pc = "authorized"
              /\ "fields" \in held'[r] /\ "authorized" \in held'[r]
           \/ request[r].op = "deleteMember" /\ pc = "deleteMember"
    PROVE  StepOK(r)
  <1> DEFINE t == request[r]
  <1>1. Moves(request, request', r, pc, t.network, t.member, t.fields, t.resume, t.answer)
    BY SetOne DEF Goto, WithPc
  <1> QED  BY <1>1 DEF Moves, StepOK, WellPlaced, Prepared, Applied, HoldsCopies, PutNetworkCalls,
                       PutMemberCalls, Bumps

(* A request begins with a read. *)
LEMMA Starts ==
    ASSUME NEW r \in Requests, TablesAdvance, NEW op, NEW pc, NEW k, NEW patch,
           Begins(request, request', r, op, pc, k, patch),
           \/ op = "putNetwork" /\ pc = "getNetwork" /\ patch \in NetworkPatches
           \/ /\ op = "putNetwork" /\ pc = "regetNetwork" /\ patch \in NetworkPatches
              /\ "fields" \in held'[r]
           \/ op = "putMember" /\ pc = "getMember" /\ patch \in MemberPatches
           \/ op = "deleteNetwork" /\ pc = "deleteNetworkGet" /\ patch = NoRow
           \/ op = "deleteMember" /\ pc = "deleteMemberGet" /\ patch = NoRow
           \/ op = "scan" /\ pc = "scan" /\ patch = NoRow
    PROVE  StepOK(r)
    BY DEF Begins, StepOK, WellPlaced, Prepared, Applied, HoldsCopies, PutNetworkCalls,
           PutMemberCalls, Bumps

(* A row just read is a copy. *)
LEMMA ReadIsCopy ==
    ASSUME RowsOK(networks, members), UNCHANGED tables
    PROVE  /\ \A n \in DOMAIN networks : /\ IsNetworkRow(networks[n])
                                         /\ IsCopy(networks', n, networks[n])
           /\ \A k \in DOMAIN members : /\ IsMemberRow(members[k])
                                        /\ IsCopy(members', k, members[k])
    BY DEF RowsOK, tables, IsCopy, IsNetworkRow, IsMemberRow

-----------------------------------------------------------------------------
(* POST on a network. *)
LEMMA PutNetworkSteps ==
    ASSUME LegacyInvariant, NEW r \in Requests, Observe,
           \/ \E n \in Networks, patch \in NetworkPatches :
                 PutNetwork(r, n, patch) \/ CreateRandom(r, n, patch)
           \/ PutNetworkGet(r) \/ PutNetworkCreate(r) \/ PutNetworkUpdate(r)
           \/ PutNetworkSave(r) \/ PutNetworkReget(r)
    PROVE  StepOK(r)
  <1> DEFINE t == request[r]
             u == request'[r]
             n == t.k[1]
  <1>0. /\ AreRequests(request) /\ RowsOK(networks, members)
        /\ WellPlaced(t) /\ Prepared(t) /\ Applied(t, held[r])
        /\ "deleted" \notin held[r] => HoldsCopies(t, networks, members)
    BY DEF LegacyInvariant, RequestOK
  <1>h. /\ held[r] \subseteq held'[r] /\ HoldingIn(u, networks', members') \subseteq held'[r]
    BY Recorded
  <1>d. ASSUME NEW patch \in NetworkPatches
        PROVE  /\ DOMAIN Merge(DefaultNetwork, patch) = NetworkFields
               /\ Agrees(Merge(DefaultNetwork, patch), patch)
    BY MergeAgrees, PatchesAssumption DEF DefaultNetwork
  <1>1. ASSUME NEW m \in Networks, NEW patch \in NetworkPatches, PutNetwork(r, m, patch)
        PROVE  StepOK(r)
    <2>1. Begins(request, request', r, "putNetwork", "getNetwork", <<m>>, patch) /\ TablesAdvance
      BY <1>0, <1>1, BeginsWith, TablesUnchanged DEF PutNetwork, Start
    <2> QED  BY <2>1, Starts
  <1>2. ASSUME NEW m \in Networks, NEW patch \in NetworkPatches, CreateRandom(r, m, patch)
        PROVE  StepOK(r)
    <2> DEFINE doc == Merge(DefaultNetwork, patch)
    <2>1. /\ m \notin DOMAIN networks /\ DB!CreateNetwork(m, doc)
          /\ Begins(request, request', r, "putNetwork", "regetNetwork", <<m>>, patch)
      BY <1>0, <1>2, BeginsWith DEF CreateRandom
    <2>2. DOMAIN doc = NetworkFields /\ Agrees(doc, patch)
      BY <1>d
    <2> HIDE DEF doc
    <2>3. TablesAdvance
      BY <1>0, <2>1, <2>2, NetworkWrites
    <2>4. m \in DOMAIN networks' /\ networks'[m].doc = doc
      BY <2>1 DEF DB!CreateNetwork, DB!Put
    <2>5. u.op = "putNetwork" /\ u.k[1] = m /\ u.patch = patch
      BY <2>1 DEF Begins
    <2>6. "fields" \in held'[r]
      BY <1>h, <2>2, <2>4, <2>5, RecordedFields
    <2> QED  BY <2>1, <2>3, <2>6, Starts
  <1>3. CASE PutNetworkGet(r)
    <2>1. /\ t.op = "putNetwork" /\ t.patch \in NetworkPatches /\ TablesAdvance
          /\ UNCHANGED tables /\ t.answer # "ok"
      BY <1>0, <1>3, TablesUnchanged DEF PutNetworkGet, At, WellPlaced, PutNetworkCalls
    <2>2. CASE n \in DOMAIN networks
      <3> DEFINE fields == Merge(networks[n].doc, t.patch)
      <3>1. request' = [request EXCEPT ![r].pc = "updateNetwork", ![r].network = networks[n],
                                       ![r].fields = fields]
        BY <1>3, <2>2 DEF PutNetworkGet
      <3>2. Moves(request, request', r, "updateNetwork", networks[n], t.member, fields, t.resume,
                  t.answer)
        BY <1>0, <3>1, SetThree
      <3>3. IsNetworkRow(networks[n]) /\ IsCopy(networks', n, networks[n])
        BY <1>0, <2>1, <2>2, ReadIsCopy
      <3>4. DOMAIN fields = NetworkFields /\ Agrees(fields, t.patch)
        BY <2>1, <3>3, MergeAgrees, PatchesAssumption DEF IsNetworkRow
      <3>5. u.fields = Merge(u.network.doc, u.patch) /\ u.k[1] = n
        BY <3>2 DEF Moves
      <3> HIDE DEF fields
      <3> QED  BY <2>1, <3>2, <3>3, <3>4, <3>5
               DEF Moves, StepOK, WellPlaced, Prepared, Applied, HoldsCopies, PutNetworkCalls,
                   PutMemberCalls, Bumps
    <2>3. CASE n \notin DOMAIN networks
      <3> DEFINE fields == Merge(DefaultNetwork, t.patch)
      <3>1. request' = [request EXCEPT ![r].pc = "createNetwork", ![r].network = NoRow,
                                       ![r].fields = fields]
        BY <1>3, <2>3 DEF PutNetworkGet
      <3>2. Moves(request, request', r, "createNetwork", NoRow, t.member, fields, t.resume, t.answer)
        BY <1>0, <3>1, SetThree
      <3>3. DOMAIN fields = NetworkFields /\ Agrees(fields, t.patch)
        BY <1>d, <2>1
      <3> HIDE DEF fields
      <3> QED  BY <2>1, <3>2, <3>3
               DEF Moves, StepOK, WellPlaced, Prepared, Applied, HoldsCopies, PutNetworkCalls,
                   PutMemberCalls, Bumps
    <2> QED  BY <2>2, <2>3
  <1>4. CASE PutNetworkCreate(r)
    <2>1. /\ t.op = "putNetwork" /\ t.pc = "createNetwork"
          /\ DOMAIN t.fields = NetworkFields /\ Agrees(t.fields, t.patch)
      BY <1>0, <1>4 DEF PutNetworkCreate, At, WellPlaced, PutNetworkCalls, Prepared
    <2>2. CASE n \in DOMAIN networks
      BY <1>0, <1>4, <2>2, TablesUnchanged, Refused DEF PutNetworkCreate
    <2>3. CASE n \notin DOMAIN networks
      <3>1. DB!CreateNetwork(n, t.fields) /\ Goto(r, "regetNetwork")
        BY <1>4, <2>3 DEF PutNetworkCreate
      <3>2. TablesAdvance
        BY <1>0, <2>1, <2>3, <3>1, NetworkWrites
      <3>3. n \in DOMAIN networks' /\ networks'[n].doc = t.fields
        BY <3>1 DEF DB!CreateNetwork, DB!Put
      <3>4. u.op = t.op /\ u.k = t.k /\ u.patch = t.patch
        BY <1>0, <3>1, SetOne DEF Goto, WithPc, Moves
      <3>5. "fields" \in held'[r]
        BY <1>h, <2>1, <3>3, <3>4, RecordedFields
      <3> QED  BY <1>0, <2>1, <3>1, <3>2, <3>5, GoesOn
    <2> QED  BY <2>2, <2>3
  <1>5. CASE PutNetworkUpdate(r)
    <2>1. /\ t.op = "putNetwork" /\ t.pc = "updateNetwork" /\ UNCHANGED tables /\ TablesAdvance
      BY <1>0, <1>5, TablesUnchanged DEF PutNetworkUpdate, At, WellPlaced, PutNetworkCalls
    <2>2. CASE DB!IsCurrent(networks, n, t.network.revision)
      <3>1. Moves(request, request', r, "saveNetwork", t.network, t.member, t.fields, t.resume,
                  t.answer)
        BY <1>0, <1>5, <2>2, SetOne DEF PutNetworkUpdate, Goto, WithPc
      <3>2. "deleted" \notin held'[r] => HoldsCopies(t, networks', members')
        BY <1>0, <1>h, <2>1 DEF tables
      <3>3. u.fields = t.fields /\ u.patch = t.patch /\ u.network = t.network /\ u.k = t.k
        BY <3>1 DEF Moves
      <3> QED  BY <1>0, <2>1, <3>1, <3>2, <3>3
               DEF Moves, StepOK, WellPlaced, Prepared, Applied, HoldsCopies, PutNetworkCalls,
                   PutMemberCalls, Bumps
    <2>3. CASE ~ DB!IsCurrent(networks, n, t.network.revision)
      BY <1>0, <1>5, <2>1, <2>3, Refused DEF PutNetworkUpdate, Refuse
    <2> QED  BY <2>2, <2>3
  <1>6. CASE PutNetworkSave(r)
    <2> DEFINE revision == t.network.revision
    <2>1. /\ t.op = "putNetwork" /\ t.pc = "saveNetwork"
          /\ DOMAIN t.fields = NetworkFields /\ Agrees(t.fields, t.patch)
      BY <1>0, <1>6 DEF PutNetworkSave, At, WellPlaced, PutNetworkCalls, Prepared
    <2>2. CASE DB!IsCurrent(networks, n, revision)
      <3>1. DB!SaveNetwork(n, revision, t.fields) /\ Goto(r, "regetNetwork")
        BY <1>6, <2>2 DEF PutNetworkSave
      <3>2. TablesAdvance
        BY <1>0, <2>1, <2>2, <3>1, NetworkWrites
      <3>3. n \in DOMAIN networks' /\ networks'[n].doc = t.fields
        BY <3>1 DEF DB!SaveNetwork, DB!Put
      <3>4. u.op = t.op /\ u.k = t.k /\ u.patch = t.patch
        BY <1>0, <3>1, SetOne DEF Goto, WithPc, Moves
      <3>5. "fields" \in held'[r]
        BY <1>h, <2>1, <3>3, <3>4, RecordedFields
      <3> QED  BY <1>0, <2>1, <3>1, <3>2, <3>5, GoesOn
    <2>3. CASE ~ DB!IsCurrent(networks, n, revision)
      BY <1>0, <1>6, <2>3, TablesUnchanged, Refused DEF PutNetworkSave, Refuse
    <2> QED  BY <2>2, <2>3
  <1>7. CASE PutNetworkReget(r)
    <2>1. /\ t.op = "putNetwork" /\ t.patch \in NetworkPatches /\ "fields" \in held[r]
          /\ TablesAdvance
      BY <1>0, <1>7, TablesUnchanged DEF PutNetworkReget, At, WellPlaced, PutNetworkCalls, Applied
    <2>2. CASE n \in DOMAIN networks
      <3>1. Parts(t.patch) \subseteq held'[r]
        BY <1>h, <2>1, PatchesAssumption DEF Parts
      <3>2. Answer(r, "ok")
        BY <1>7, <2>2 DEF PutNetworkReget
      <3> QED  BY <1>0, <2>1, <3>1, <3>2, Accepted
    <2>3. CASE n \notin DOMAIN networks
      BY <1>0, <1>7, <2>1, <2>3, Refused DEF PutNetworkReget
    <2> QED  BY <2>2, <2>3
  <1> QED  BY <1>1, <1>2, <1>3, <1>4, <1>5, <1>6, <1>7

-----------------------------------------------------------------------------
(* POST on a member. *)

(* The update is built from a copy of the member. *)
LEMMA RegisteredSteps ==
    ASSUME LegacyInvariant, NEW r \in Requests, request[r].op = "putMember",
           request[r].pc \in {"getMember", "regetMember"},
           request[r].k \in DOMAIN members, Registered(r), UNCHANGED tables
    PROVE  StepOK(r)
  <1> DEFINE t == request[r]
             u == request'[r]
             row == members[t.k]
             fields == Merge(row.doc.fields, t.patch)
  <1>0. AreRequests(request) /\ RowsOK(networks, members) /\ WellPlaced(t)
    BY DEF LegacyInvariant, RequestOK
  <1>1. TablesAdvance /\ t.patch \in MemberPatches /\ t.answer # "ok"
    BY <1>0, TablesUnchanged DEF WellPlaced
  <1>2. request' = [request EXCEPT ![r].pc = "updateMember", ![r].member = row, ![r].fields = fields]
    BY DEF Registered
  <1>3. Moves(request, request', r, "updateMember", t.network, row, fields, t.resume, t.answer)
    BY <1>0, <1>2, SetThree
  <1>4. IsMemberRow(row) /\ IsCopy(members', t.k, row)
    BY <1>0, ReadIsCopy
  <1>5. DOMAIN fields = MemberFields /\ Agrees(fields, t.patch)
    BY <1>1, <1>4, MergeAgrees, PatchesAssumption DEF IsMemberRow
  <1>6. u.fields = Merge(u.member.doc.fields, u.patch) /\ u.k = t.k
    BY <1>3 DEF Moves
  <1> HIDE DEF fields, row
  <1> QED  BY <1>0, <1>1, <1>3, <1>4, <1>5, <1>6
           DEF Moves, StepOK, WellPlaced, Prepared, Applied, HoldsCopies, PutNetworkCalls,
               PutMemberCalls, Bumps

(* After a save that may call for a bump, the request bumps the network or *)
(* goes on.                                                                *)
LEMMA BumpsOrGoesOn ==
    ASSUME AreRequests(request), NEW r \in Requests, WellPlaced(request[r]), TablesAdvance,
           request[r].op = "putMember", request[r].pc # "answered", NEW bump, NEW pc,
           GotoAfterBump(r, bump, pc), pc \in {"updated", "authorized"},
           "fields" \in held'[r], pc = "authorized" => "authorized" \in held'[r]
    PROVE  StepOK(r)
  <1> DEFINE t == request[r]
             next == IF bump THEN "bumpGet" ELSE pc
  <1>1. Moves(request, request', r, next, t.network, t.member, t.fields, pc, t.answer)
    BY SetTwo DEF GotoAfterBump
  <1>2. next \in {"bumpGet", pc}
    OBVIOUS
  <1> HIDE DEF next
  <1> QED  BY <1>1, <1>2 DEF Moves, StepOK, WellPlaced, Prepared, Applied, HoldsCopies,
                              PutNetworkCalls, PutMemberCalls, Bumps

(* Registration. *)
LEMMA PutMemberRegisters ==
    ASSUME LegacyInvariant, NEW r \in Requests, Observe,
           \/ \E k \in DB!Keys, patch \in MemberPatches : PutMember(r, k, patch)
           \/ PutMemberGet(r) \/ PutMemberCreate(r) \/ PutMemberReget(r)
    PROVE  StepOK(r)
  <1> DEFINE t == request[r]
  <1>0. AreRequests(request) /\ RowsOK(networks, members) /\ WellPlaced(t)
    BY DEF LegacyInvariant, RequestOK
  <1>1. ASSUME NEW k \in DB!Keys, NEW patch \in MemberPatches, PutMember(r, k, patch)
        PROVE  StepOK(r)
    <2>1. Begins(request, request', r, "putMember", "getMember", k, patch) /\ TablesAdvance
      BY <1>0, <1>1, BeginsWith, TablesUnchanged DEF PutMember, Start
    <2> QED  BY <2>1, Starts
  <1>2. CASE PutMemberGet(r)
    <2>1. t.op = "putMember" /\ t.pc = "getMember" /\ UNCHANGED tables /\ TablesAdvance
      BY <1>0, <1>2, TablesUnchanged DEF PutMemberGet, At, WellPlaced, PutMemberCalls
    <2>2. CASE t.k \in DOMAIN members
      BY <1>2, <2>1, <2>2, RegisteredSteps DEF PutMemberGet
    <2>3. CASE t.k \notin DOMAIN members
      BY <1>0, <1>2, <2>1, <2>3, GoesOn DEF PutMemberGet
    <2> QED  BY <2>2, <2>3
  <1>3. CASE PutMemberCreate(r)
    <2>1. t.op = "putMember" /\ t.pc = "createMember"
      BY <1>0, <1>3 DEF PutMemberCreate, At, WellPlaced, PutMemberCalls
    <2>2. CASE Answer(r, "notFound") /\ UNCHANGED tables
      BY <1>0, <2>2, TablesUnchanged, Refused
    <2>3. CASE Goto(r, "regetMember") /\ UNCHANGED tables
      BY <1>0, <2>1, <2>3, TablesUnchanged, GoesOn
    <2>4. CASE t.k \notin DOMAIN members /\ DB!CreateMember(t.k, DefaultMember)
               /\ Goto(r, "regetMember")
      <3>1. IsMemberDoc(DefaultMember)
        BY DEF IsMemberDoc, DefaultMember
      <3>2. TablesAdvance
        BY <1>0, <2>4, <3>1, MemberWrites
      <3> QED  BY <1>0, <2>1, <2>4, <3>2, GoesOn
    <2> QED  BY <1>3, <2>2, <2>3, <2>4 DEF PutMemberCreate
  <1>4. CASE PutMemberReget(r)
    <2>1. t.op = "putMember" /\ t.pc = "regetMember" /\ UNCHANGED tables /\ TablesAdvance
      BY <1>0, <1>4, TablesUnchanged DEF PutMemberReget, At, WellPlaced, PutMemberCalls
    <2>2. CASE t.k \in DOMAIN members
      BY <1>4, <2>1, <2>2, RegisteredSteps DEF PutMemberReget
    <2>3. CASE t.k \notin DOMAIN members
      BY <1>0, <1>4, <2>1, <2>3, Refused DEF PutMemberReget
    <2> QED  BY <2>2, <2>3
  <1> QED  BY <1>1, <1>2, <1>3, <1>4

(* The update. *)
LEMMA PutMemberUpdates ==
    ASSUME LegacyInvariant, NEW r \in Requests, Observe,
           PutMemberUpdate(r) \/ PutMemberSave(r) \/ PutMemberUpdated(r)
    PROVE  StepOK(r)
  <1> DEFINE t == request[r]
             u == request'[r]
             k == t.k
  <1>0. /\ AreRequests(request) /\ RowsOK(networks, members)
        /\ WellPlaced(t) /\ Prepared(t) /\ Applied(t, held[r])
        /\ "deleted" \notin held[r] => HoldsCopies(t, networks, members)
    BY DEF LegacyInvariant, RequestOK
  <1>h. /\ held[r] \subseteq held'[r] /\ HoldingIn(u, networks', members') \subseteq held'[r]
    BY Recorded
  <1>1. CASE PutMemberUpdate(r)
    <2>1. /\ t.op = "putMember" /\ t.pc = "updateMember" /\ UNCHANGED tables /\ TablesAdvance
          /\ DOMAIN t.fields = MemberFields /\ Agrees(t.fields, t.patch)
      BY <1>0, <1>1, TablesUnchanged DEF PutMemberUpdate, At, WellPlaced, PutMemberCalls, Prepared
    <2>2. CASE DB!IsCurrent(members, k, t.member.revision)
      <3> DEFINE row == members[k]
      <3>1. request' = [request EXCEPT ![r].pc = "saveMember", ![r].member = row]
        BY <1>1, <2>2 DEF PutMemberUpdate
      <3>2. Moves(request, request', r, "saveMember", t.network, row, t.fields, t.resume, t.answer)
        BY <1>0, <3>1, SetTwo
      <3>3. IsMemberRow(row) /\ IsCopy(members', k, row)
        BY <1>0, <2>1, <2>2, ReadIsCopy DEF DB!IsCurrent
      <3>4. "deleted" \notin held'[r] => t.fields = Merge(row.doc.fields, t.patch)
        <4>1. ASSUME "deleted" \notin held'[r]
              PROVE  t.member = row /\ t.fields = Merge(t.member.doc.fields, t.patch)
          BY <1>0, <1>h, <2>1, <2>2, <4>1 DEF HoldsCopies, IsCopy, DB!IsCurrent
        <4> QED  BY <4>1
      <3>5. "deleted" \notin held'[r] => u.fields = Merge(u.member.doc.fields, u.patch)
        BY <3>2, <3>4 DEF Moves
      <3> HIDE DEF row
      <3> QED  BY <1>0, <2>1, <3>2, <3>3, <3>5
               DEF Moves, StepOK, WellPlaced, Prepared, Applied, HoldsCopies, PutNetworkCalls,
                   PutMemberCalls, Bumps
    <2>3. CASE ~ DB!IsCurrent(members, k, t.member.revision)
      BY <1>0, <1>1, <2>1, <2>3, Refused DEF PutMemberUpdate, Refuse
    <2> QED  BY <2>2, <2>3
  <1>2. CASE PutMemberSave(r)
    <2> DEFINE old == t.member
               doc == [fields |-> t.fields, authorized |-> old.doc.authorized]
    <2>1. /\ t.op = "putMember" /\ t.pc = "saveMember" /\ IsMemberRow(old)
          /\ DOMAIN t.fields = MemberFields /\ Agrees(t.fields, t.patch)
      BY <1>0, <1>2 DEF PutMemberSave, At, WellPlaced, PutMemberCalls, Prepared
    <2>2. IsMemberDoc(doc) /\ doc.fields = t.fields
      BY <2>1 DEF IsMemberDoc, IsMemberRow
    <2>3. CASE DB!IsCurrent(members, k, old.revision)
      <3>1. PICK bump : DB!SaveMember(k, old.revision, doc) /\ GotoAfterBump(r, bump, "updated")
        BY <1>2, <2>3 DEF PutMemberSave
      <3> HIDE DEF doc
      <3>2. TablesAdvance
        BY <1>0, <2>2, <2>3, <3>1, MemberWrites
      <3>3. k \in DOMAIN members' /\ members'[k].doc = doc
        BY <3>1 DEF DB!SaveMember, DB!Put
      <3>4. u.op = t.op /\ u.k = t.k /\ u.patch = t.patch
        BY <1>0, <3>1, SetTwo DEF GotoAfterBump, Moves
      <3>5. "fields" \in held'[r]
        BY <1>h, <2>1, <2>2, <3>3, <3>4, RecordedFields
      <3> QED  BY <1>0, <2>1, <3>1, <3>2, <3>5, BumpsOrGoesOn
    <2>4. CASE ~ DB!IsCurrent(members, k, old.revision)
      BY <1>0, <1>2, <2>4, TablesUnchanged, Refused DEF PutMemberSave, Refuse
    <2> QED  BY <2>3, <2>4
  <1>3. CASE PutMemberUpdated(r)
    <2>1. /\ t.op = "putMember" /\ t.pc = "updated" /\ UNCHANGED tables /\ TablesAdvance
          /\ t.patch \in MemberPatches /\ "fields" \in held'[r]
      BY <1>0, <1>h, <1>3, TablesUnchanged
      DEF PutMemberUpdated, At, WellPlaced, PutMemberCalls, Applied
    <2>2. CASE Answer(r, "notFound")
      BY <1>0, <2>1, <2>2, Refused
    <2>3. CASE /\ k \in DOMAIN members /\ t.patch.authorized \subseteq {members[k].doc.authorized}
               /\ Answer(r, "ok")
      <3>1. u.op = t.op /\ u.k = t.k /\ u.patch = t.patch
        BY <1>0, <2>3, SetTwo DEF Answer, Moves
      <3>2. t.patch.authorized # {} => "authorized" \in held'[r]
        <4>1. ASSUME t.patch.authorized # {}
              PROVE  u.patch.authorized = {members'[u.k].doc.authorized} /\ u.k \in DOMAIN members'
          BY <2>1, <2>3, <3>1, <4>1 DEF tables
        <4> QED  BY <1>h, <2>1, <3>1, <4>1, RecordedFields
      <3>3. Parts(t.patch) \subseteq held'[r]
        BY <2>1, <3>2 DEF Parts
      <3> QED  BY <1>0, <2>1, <2>3, <3>3, Accepted
    <2>4. CASE /\ k \in DOMAIN members /\ ~ t.patch.authorized \subseteq {members[k].doc.authorized}
               /\ request' = [request EXCEPT ![r].pc = "authorize", ![r].member = members[k]]
      <3>1. Moves(request, request', r, "authorize", t.network, members[k], t.fields, t.resume,
                  t.answer)
        BY <1>0, <2>4, SetTwo
      <3>2. t.patch.authorized # {}
        BY <2>4
      <3> QED  BY <1>0, <2>1, <3>1, <3>2
               DEF Moves, StepOK, WellPlaced, Prepared, Applied, HoldsCopies, PutNetworkCalls,
                   PutMemberCalls, Bumps
    <2> QED  BY <1>3, <2>2, <2>3, <2>4 DEF PutMemberUpdated
  <1> QED  BY <1>1, <1>2, <1>3

(* The authorization. *)
LEMMA PutMemberAuthorizes ==
    ASSUME LegacyInvariant, NEW r \in Requests, Observe,
           PutMemberAuthorize(r) \/ PutMemberSaveAuthorization(r) \/ PutMemberAuthorized(r)
    PROVE  StepOK(r)
  <1> DEFINE t == request[r]
             u == request'[r]
             k == t.k
  <1>0. /\ AreRequests(request) /\ RowsOK(networks, members)
        /\ WellPlaced(t) /\ Prepared(t) /\ Applied(t, held[r])
    BY DEF LegacyInvariant, RequestOK
  <1>h. /\ held[r] \subseteq held'[r] /\ HoldingIn(u, networks', members') \subseteq held'[r]
    BY Recorded
  <1>1. CASE PutMemberAuthorize(r)
    <2>1. /\ t.op = "putMember" /\ t.pc = "authorize" /\ UNCHANGED tables /\ TablesAdvance
          /\ t.patch \in MemberPatches /\ "fields" \in held'[r] /\ t.patch.authorized # {}
      BY <1>0, <1>h, <1>1, TablesUnchanged
      DEF PutMemberAuthorize, At, WellPlaced, PutMemberCalls, Applied, Prepared
    <2>2. CASE Refuse(r, members, k)
      BY <1>0, <2>1, <2>2, Refused DEF Refuse
    <2>3. CASE /\ DB!IsCurrent(members, k, t.member.revision)
               /\ t.patch.authorized = {members[k].doc.authorized} /\ Answer(r, "ok")
      <3>1. u.op = t.op /\ u.k = t.k /\ u.patch = t.patch
        BY <1>0, <2>3, SetTwo DEF Answer, Moves
      <3>2. u.patch.authorized = {members'[u.k].doc.authorized} /\ u.k \in DOMAIN members'
        BY <2>1, <2>3, <3>1 DEF tables, DB!IsCurrent
      <3>3. "authorized" \in held'[r]
        BY <1>h, <2>1, <3>1, <3>2, RecordedFields
      <3>4. Parts(t.patch) \subseteq held'[r]
        BY <2>1, <3>3 DEF Parts
      <3> QED  BY <1>0, <2>1, <2>3, <3>4, Accepted
    <2>4. CASE /\ DB!IsCurrent(members, k, t.member.revision)
               /\ t.patch.authorized # {members[k].doc.authorized}
               /\ request' = [request EXCEPT ![r].pc = "saveAuthorization", ![r].member = members[k]]
      <3> DEFINE row == members[k]
      <3>1. Moves(request, request', r, "saveAuthorization", t.network, row, t.fields, t.resume,
                  t.answer)
        BY <1>0, <2>4, SetTwo
      <3>2. IsMemberRow(row) /\ IsCopy(members', k, row)
        BY <1>0, <2>1, <2>4, ReadIsCopy DEF DB!IsCurrent
      <3>3. t.patch.authorized \in {{TRUE}, {FALSE}} /\ row.doc.authorized \in BOOLEAN
        BY <2>1, <3>2, PatchesAssumption DEF IsMemberRow
      <3>4. t.patch.authorized = {~ row.doc.authorized}
        BY <2>4, <3>3
      <3>5. u.patch.authorized = {~ u.member.doc.authorized}
        BY <3>1, <3>4 DEF Moves
      <3> HIDE DEF row
      <3> QED  BY <1>0, <2>1, <3>1, <3>2, <3>5
               DEF Moves, StepOK, WellPlaced, Prepared, Applied, HoldsCopies, PutNetworkCalls,
                   PutMemberCalls, Bumps
    <2> QED  BY <1>1, <2>2, <2>3, <2>4 DEF PutMemberAuthorize
  <1>2. CASE PutMemberSaveAuthorization(r)
    <2> DEFINE old == t.member
               doc == [old.doc EXCEPT !.authorized = ~ @]
    <2>1. /\ t.op = "putMember" /\ t.pc = "saveAuthorization" /\ IsMemberRow(old)
          /\ t.patch.authorized = {~ old.doc.authorized} /\ "fields" \in held'[r]
      BY <1>0, <1>h, <1>2
      DEF PutMemberSaveAuthorization, At, WellPlaced, PutMemberCalls, Prepared, Applied
    <2>2. IsMemberDoc(old.doc)
      BY <2>1 DEF IsMemberDoc, IsMemberRow
    <2>3. IsMemberDoc(doc) /\ doc.authorized = ~ old.doc.authorized
      BY <2>2, FlipAuthorization
    <2>4. CASE DB!IsCurrent(members, k, old.revision)
      <3>1. PICK bump : DB!SaveMember(k, old.revision, doc) /\ GotoAfterBump(r, bump, "authorized")
        BY <1>2, <2>4 DEF PutMemberSaveAuthorization
      <3> HIDE DEF doc
      <3>2. TablesAdvance
        BY <1>0, <2>3, <2>4, <3>1, MemberWrites
      <3>3. k \in DOMAIN members' /\ members'[k].doc = doc
        BY <3>1 DEF DB!SaveMember, DB!Put
      <3>4. u.op = t.op /\ u.k = t.k /\ u.patch = t.patch
        BY <1>0, <3>1, SetTwo DEF GotoAfterBump, Moves
      <3>5. u.patch.authorized = {members'[u.k].doc.authorized}
        BY <2>1, <2>3, <3>3, <3>4
      <3>6. "authorized" \in held'[r]
        BY <1>h, <2>1, <3>3, <3>4, <3>5, RecordedFields
      <3> QED  BY <1>0, <2>1, <3>1, <3>2, <3>6, BumpsOrGoesOn
    <2>5. CASE ~ DB!IsCurrent(members, k, old.revision)
      BY <1>0, <1>2, <2>5, TablesUnchanged, Refused DEF PutMemberSaveAuthorization, Refuse
    <2> QED  BY <2>4, <2>5
  <1>3. CASE PutMemberAuthorized(r)
    <2>1. /\ t.op = "putMember" /\ TablesAdvance /\ "fields" \in held'[r] /\ "authorized" \in held'[r]
      BY <1>0, <1>h, <1>3, TablesUnchanged
      DEF PutMemberAuthorized, At, WellPlaced, PutMemberCalls, Applied
    <2>2. CASE Answer(r, "ok")
      BY <1>0, <2>1, <2>2, Accepted DEF Parts
    <2>3. CASE Answer(r, "notFound")
      BY <1>0, <2>1, <2>3, Refused
    <2> QED  BY <1>3, <2>2, <2>3 DEF PutMemberAuthorized
  <1> QED  BY <1>1, <1>2, <1>3

(* The bump. *)
LEMMA BumpSteps ==
    ASSUME LegacyInvariant, NEW r \in Requests, Observe, BumpGet(r) \/ BumpSave(r)
    PROVE  StepOK(r)
  <1> DEFINE t == request[r]
             u == request'[r]
             n == t.k[1]
  <1>0. /\ AreRequests(request) /\ RowsOK(networks, members)
        /\ WellPlaced(t) /\ Prepared(t) /\ Applied(t, held[r])
    BY DEF LegacyInvariant, RequestOK
  <1>h. held[r] \subseteq held'[r]
    BY Recorded
  <1>1. CASE BumpGet(r)
    <2>1. t.pc = "bumpGet" /\ UNCHANGED tables /\ TablesAdvance
      BY <1>0, <1>1, TablesUnchanged DEF BumpGet, At
    <2>2. CASE n \in DOMAIN networks
      <3> DEFINE row == networks[n]
      <3>1. request' = [request EXCEPT ![r].pc = "bumpSave", ![r].network = row]
        BY <1>1, <2>2 DEF BumpGet
      <3>2. Moves(request, request', r, "bumpSave", row, t.member, t.fields, t.resume, t.answer)
        BY <1>0, <3>1, SetTwo
      <3>3. IsNetworkRow(row) /\ IsCopy(networks', n, row)
        BY <1>0, <2>1, <2>2, ReadIsCopy
      <3>4. u.k[1] = n /\ u.network = row
        BY <3>2 DEF Moves
      <3> HIDE DEF row
      <3> QED  BY <1>0, <1>h, <2>1, <3>2, <3>3, <3>4
               DEF Moves, StepOK, WellPlaced, Prepared, Applied, HoldsCopies, PutNetworkCalls,
                   PutMemberCalls, Bumps
    <2>3. CASE n \notin DOMAIN networks
      BY <1>0, <1>1, <2>1, <2>3, Refused DEF BumpGet
    <2> QED  BY <2>2, <2>3
  <1>2. CASE BumpSave(r)
    <2> DEFINE row == t.network
    <2>1. t.pc = "bumpSave" /\ IsNetworkRow(row)
      BY <1>0, <1>2 DEF BumpSave, At, Prepared
    <2>2. CASE DB!IsCurrent(networks, n, row.revision)
      <3>1. DB!SaveNetwork(n, row.revision, row.doc) /\ Goto(r, t.resume)
        BY <1>2, <2>2 DEF BumpSave
      <3>2. TablesAdvance
        BY <1>0, <2>1, <2>2, <3>1, NetworkWrites DEF IsNetworkRow
      <3>3. \/ t.op = "putMember" /\ t.resume = "updated" /\ "fields" \in held'[r]
            \/ /\ t.op = "putMember" /\ t.resume = "authorized"
               /\ "fields" \in held'[r] /\ "authorized" \in held'[r]
            \/ t.op = "deleteMember" /\ t.resume = "deleteMember"
        BY <1>0, <1>h, <2>1 DEF WellPlaced, Applied, Bumps
      <3> QED  BY <1>0, <2>1, <3>1, <3>2, <3>3, GoesOn
    <2>3. CASE ~ DB!IsCurrent(networks, n, row.revision)
      BY <1>0, <1>2, <2>3, TablesUnchanged, Refused DEF BumpSave, Refuse
    <2> QED  BY <2>2, <2>3
  <1> QED  BY <1>1, <1>2

(* DELETE, and requests that look at every network. *)
LEMMA DeleteSteps ==
    ASSUME LegacyInvariant, NEW r \in Requests, Observe,
           \/ \E n \in Networks : DeleteNetworkRead(r, n)
           \/ DeleteNetworkGet(r) \/ DeleteNetworkDelete(r)
           \/ \E k \in DB!Keys : DeleteMemberRead(r, k)
           \/ DeleteMemberGet(r) \/ DeleteMemberDelete(r)
           \/ ScanNetworks(r) \/ ScanMembers(r)
    PROVE  StepOK(r)
  <1> DEFINE t == request[r]
             u == request'[r]
  <1>0. AreRequests(request) /\ RowsOK(networks, members) /\ WellPlaced(t)
    BY DEF LegacyInvariant, RequestOK
  <1>1. ASSUME NEW n \in Networks, DeleteNetworkRead(r, n) PROVE StepOK(r)
    <2>1. /\ Begins(request, request', r, "deleteNetwork", "deleteNetworkGet", <<n>>, NoRow)
          /\ TablesAdvance
      BY <1>0, <1>1, BeginsWith, TablesUnchanged DEF DeleteNetworkRead, Start
    <2> QED  BY <2>1, Starts
  <1>2. ASSUME NEW k \in DB!Keys, DeleteMemberRead(r, k) PROVE StepOK(r)
    <2>1. /\ Begins(request, request', r, "deleteMember", "deleteMemberGet", k, NoRow)
          /\ TablesAdvance
      BY <1>0, <1>2, BeginsWith, TablesUnchanged DEF DeleteMemberRead, Start
    <2> QED  BY <2>1, Starts
  <1>3. CASE DeleteNetworkGet(r)
    <2>1. t.op = "deleteNetwork" /\ t.answer # "ok" /\ TablesAdvance
      BY <1>0, <1>3, TablesUnchanged DEF DeleteNetworkGet, At, WellPlaced
    <2>2. CASE t.k[1] \in DOMAIN networks
      <3> DEFINE row == networks[t.k[1]]
      <3>1. request' = [request EXCEPT ![r].pc = "deleteNetwork", ![r].network = row]
        BY <1>3, <2>2 DEF DeleteNetworkGet
      <3>2. Moves(request, request', r, "deleteNetwork", row, t.member, t.fields, t.resume, t.answer)
        BY <1>0, <3>1, SetTwo
      <3> HIDE DEF row
      <3> QED  BY <1>0, <2>1, <3>2
               DEF Moves, StepOK, WellPlaced, Prepared, Applied, HoldsCopies, PutNetworkCalls,
                   PutMemberCalls, Bumps
    <2>3. CASE t.k[1] \notin DOMAIN networks
      BY <1>0, <1>3, <2>1, <2>3, Refused DEF DeleteNetworkGet
    <2> QED  BY <2>2, <2>3
  <1>4. CASE DeleteNetworkDelete(r)
    <2>1. t.op = "deleteNetwork"
      BY <1>0, <1>4 DEF DeleteNetworkDelete, At, WellPlaced
    <2>2. CASE DB!DeleteNetwork(t.k[1]) /\ Answer(r, "ok")
      BY <1>0, <2>1, <2>2, Deletions, Accepted
    <2>3. CASE Refuse(r, networks, t.k[1]) /\ UNCHANGED tables
      BY <1>0, <2>3, TablesUnchanged, Refused DEF Refuse
    <2> QED  BY <1>4, <2>2, <2>3 DEF DeleteNetworkDelete
  <1>5. CASE DeleteMemberGet(r)
    <2>1. t.op = "deleteMember" /\ t.answer # "ok" /\ TablesAdvance
      BY <1>0, <1>5, TablesUnchanged DEF DeleteMemberGet, At, WellPlaced
    <2>2. CASE t.k \in DOMAIN members
      <3> DEFINE row == members[t.k]
      <3>1. PICK pc : /\ pc \in {"bumpGet", "deleteMember"}
                      /\ request' = [request EXCEPT ![r].pc = pc, ![r].resume = "deleteMember",
                                                    ![r].member = row]
        BY <1>5, <2>2 DEF DeleteMemberGet
      <3>2. Moves(request, request', r, pc, t.network, row, t.fields, "deleteMember", t.answer)
        BY <1>0, <3>1, SetThree
      <3> HIDE DEF row
      <3> QED  BY <1>0, <2>1, <3>1, <3>2
               DEF Moves, StepOK, WellPlaced, Prepared, Applied, HoldsCopies, PutNetworkCalls,
                   PutMemberCalls, Bumps
    <2>3. CASE t.k \notin DOMAIN members
      BY <1>0, <1>5, <2>1, <2>3, Refused DEF DeleteMemberGet
    <2> QED  BY <2>2, <2>3
  <1>6. CASE DeleteMemberDelete(r)
    <2>1. t.op = "deleteMember"
      BY <1>0, <1>6 DEF DeleteMemberDelete, At, WellPlaced
    <2>2. CASE DB!DeleteMember(t.k) /\ Answer(r, "ok")
      BY <1>0, <2>1, <2>2, Deletions, Accepted
    <2>3. CASE Refuse(r, members, t.k) /\ UNCHANGED tables
      BY <1>0, <2>3, TablesUnchanged, Refused DEF Refuse
    <2> QED  BY <1>6, <2>2, <2>3 DEF DeleteMemberDelete
  <1>7. CASE ScanNetworks(r)
    <2>1. Begins(request, request', r, "scan", "scan", NoRow, NoRow) /\ TablesAdvance
      BY <1>0, <1>7, BeginsScan, TablesUnchanged DEF ScanNetworks
    <2> QED  BY <2>1, Starts
  <1>8. CASE ScanMembers(r)
    <2>1. t.op = "scan" /\ t.pc = "scan" /\ t.answer # "ok" /\ TablesAdvance
      BY <1>0, <1>8, TablesUnchanged DEF ScanMembers, At, WellPlaced
    <2>2. CASE Answer(r, "ok")
      BY <1>0, <2>1, <2>2, Accepted
    <2>3. CASE Answer(r, "notFound")
      BY <1>0, <2>1, <2>3, Refused
    <2>4. ASSUME NEW n, request' = [request EXCEPT ![r].remaining = @ \ {n}]
          PROVE  StepOK(r)
      <3>1. request' = WithRemaining(request, r, t.remaining \ {n})
        BY <2>4 DEF WithRemaining
      <3>2. Moves(request, request', r, t.pc, t.network, t.member, t.fields, t.resume, t.answer)
        BY <1>0, <3>1, SetOne
      <3> QED  BY <1>0, <2>1, <3>2
               DEF Moves, StepOK, WellPlaced, Prepared, Applied, HoldsCopies, PutNetworkCalls,
                   PutMemberCalls, Bumps
    <2> QED  BY <1>8, <2>2, <2>3, <2>4 DEF ScanMembers
  <1> QED  BY <1>1, <1>2, <1>3, <1>4, <1>5, <1>6, <1>7, <1>8

-----------------------------------------------------------------------------
(* Every step keeps the invariant. *)

(* A step of a request. *)
LEMMA RequestSteps ==
    ASSUME LegacyInvariant, NEW r \in Requests, Observe, RequestStep(r)
    PROVE  StepOK(r)
    BY PutNetworkSteps, PutMemberRegisters, PutMemberUpdates, PutMemberAuthorizes, BumpSteps,
       DeleteSteps DEF RequestStep

(* A step of anybody else advances the tables and leaves the requests. *)
LEMMA OtherSteps ==
    ASSUME RowsOK(networks, members),
           OtherUpdateNetwork \/ OtherUpdateMember \/ OtherSetAuthorization \/ OtherCreate \/ OtherDelete
    PROVE  TablesAdvance /\ request' = request
  <1>1. CASE OtherUpdateNetwork
    <2>1. PICK n \in Networks, f \in NetworkFields, v \in {"default", "set"} :
             /\ n \in DOMAIN networks
             /\ DB!SaveNetwork(n, networks[n].revision, [networks[n].doc EXCEPT ![f] = v])
      BY <1>1 DEF OtherUpdateNetwork, Below
    <2> DEFINE doc == [networks[n].doc EXCEPT ![f] = v]
    <2>2. DOMAIN doc = NetworkFields /\ DB!IsCurrent(networks, n, networks[n].revision)
      BY <2>1 DEF RowsOK, IsNetworkRow, DB!IsCurrent
    <2> HIDE DEF doc
    <2> QED  BY <1>1, <2>1, <2>2, NetworkWrites DEF OtherUpdateNetwork, doc
  <1>2. CASE OtherUpdateMember
    <2>1. PICK k \in DB!Keys, patch \in MemberPatches :
             /\ k \in DOMAIN members
             /\ DB!SaveMember(k, members[k].revision, [members[k].doc EXCEPT !.fields = Merge(@, patch)])
      BY <1>2 DEF OtherUpdateMember, Below
    <2>2. IsMemberDoc(members[k].doc) /\ DB!IsCurrent(members, k, members[k].revision)
      BY <2>1 DEF RowsOK, IsMemberRow, IsMemberDoc, DB!IsCurrent
    <2>3. IsMemberDoc([members[k].doc EXCEPT !.fields = Merge(@, patch)])
      BY <2>2, ChangeFields
    <2> QED  BY <1>2, <2>1, <2>2, <2>3, MemberWrites DEF OtherUpdateMember
  <1>3. CASE OtherSetAuthorization
    <2>1. PICK k \in DB!Keys :
             /\ k \in DOMAIN members
             /\ DB!SaveMember(k, members[k].revision, [members[k].doc EXCEPT !.authorized = ~ @])
      BY <1>3 DEF OtherSetAuthorization, Below
    <2>2. IsMemberDoc(members[k].doc) /\ DB!IsCurrent(members, k, members[k].revision)
      BY <2>1 DEF RowsOK, IsMemberRow, IsMemberDoc, DB!IsCurrent
    <2>3. IsMemberDoc([members[k].doc EXCEPT !.authorized = ~ @])
      BY <2>2, FlipAuthorization
    <2> QED  BY <1>3, <2>1, <2>2, <2>3, MemberWrites DEF OtherSetAuthorization
  <1>4. CASE OtherCreate
    <2>1. DOMAIN DefaultNetwork = NetworkFields /\ IsMemberDoc(DefaultMember)
      BY DEF DefaultNetwork, DefaultMember, IsMemberDoc
    <2>2. ASSUME NEW n \in Networks \ DOMAIN networks, DB!CreateNetwork(n, DefaultNetwork)
          PROVE  TablesAdvance
      BY <2>1, <2>2, NetworkWrites
    <2>3. ASSUME NEW k \in DB!Keys \ DOMAIN members, DB!CreateMember(k, DefaultMember)
          PROVE  TablesAdvance
      BY <2>1, <2>3, MemberWrites
    <2> QED  BY <1>4, <2>2, <2>3 DEF OtherCreate
  <1>5. CASE OtherDelete
    BY <1>5, Deletions DEF OtherDelete
  <1> QED  BY <1>1, <1>2, <1>3, <1>4, <1>5

(* A request that does not move keeps its invariant while others write:    *)
(* copies stay copies as long as no row is deleted.                        *)
LEMMA Undisturbed ==
    ASSUME RowsOK(networks, members), TablesAdvance, NEW t, NEW h, NEW h2,
           RequestOK(t, h, networks, members), h \subseteq h2,
           t # Unused /\ "deleted" \notin h2 =>
              DOMAIN networks \subseteq DOMAIN networks' /\ DOMAIN members \subseteq DOMAIN members'
    PROVE  RequestOK(t, h2, networks', members')
  <1>1. WellPlaced(t) /\ Prepared(t) /\ Applied(t, h2)
    BY DEF RequestOK, Applied
  <1>2. ASSUME "deleted" \notin h2, t # Unused
        PROVE  HoldsCopies(t, networks', members')
    <2>1. /\ HoldsCopies(t, networks, members)
          /\ DOMAIN networks \subseteq DOMAIN networks' /\ DOMAIN members \subseteq DOMAIN members'
      BY <1>2 DEF RequestOK
    <2>2. ASSUME NEW n, NEW row, IsNetworkRow(row), IsCopy(networks, n, row)
          PROVE  IsCopy(networks', n, row)
      <3>1. /\ n \in DOMAIN networks' /\ row.revision \in Nat /\ networks[n].revision \in Nat
            /\ networks'[n] = networks[n] \/ networks'[n].revision = networks[n].revision + 1
        BY <2>1, <2>2 DEF IsCopy, IsNetworkRow, RowsOK, TablesAdvance, Advances
      <3> QED  BY <2>2, <3>1 DEF IsCopy
    <2>3. ASSUME NEW k, NEW row, IsMemberRow(row), IsCopy(members, k, row)
          PROVE  IsCopy(members', k, row)
      <3>1. /\ k \in DOMAIN members' /\ row.revision \in Nat /\ members[k].revision \in Nat
            /\ members'[k] = members[k] \/ members'[k].revision = members[k].revision + 1
        BY <2>1, <2>3 DEF IsCopy, IsMemberRow, RowsOK, TablesAdvance, Advances
      <3> QED  BY <2>3, <3>1 DEF IsCopy
    <2> QED  BY <1>1, <2>1, <2>2, <2>3 DEF HoldsCopies, Prepared
  <1>3. HoldsCopies(Unused, networks', members')
    BY DEF HoldsCopies, Unused
  <1> QED  BY <1>1, <1>2, <1>3 DEF RequestOK

(* The invariant is inductive. *)
LEMMA LegacyStep ==
    ASSUME LegacyInvariant, [Next]_vars
    PROVE  LegacyInvariant'
  <1>0. /\ AreRequests(request) /\ RowsOK(networks, members)
        /\ \A r \in Requests : RequestOK(request[r], held[r], networks, members)
    BY DEF LegacyInvariant
  <1>1. CASE UNCHANGED vars
    BY <1>0, <1>1 DEF vars, LegacyInvariant
  <1>2. ASSUME Observe, TablesAdvance, NEW v \in Requests, request'[v] = request[v]
        PROVE  RequestOK(request'[v], held'[v], networks', members')
    <2>1. /\ held[v] \subseteq held'[v]
          /\ request[v] # Unused /\ "deleted" \notin held'[v] =>
                DOMAIN networks \subseteq DOMAIN networks' /\ DOMAIN members \subseteq DOMAIN members'
      BY <1>2, Recorded
    <2>2. RequestOK(request[v], held'[v], networks', members')
      BY <1>0, <1>2, <2>1, Undisturbed
    <2> QED  BY <1>2, <2>2
  <1>3. ASSUME NEW r \in Requests, RequestStep(r), Observe
        PROVE  LegacyInvariant'
    <2>1. StepOK(r)
      BY <1>3, RequestSteps
    <2>2. ASSUME NEW v \in Requests PROVE RequestOK(request'[v], held'[v], networks', members')
      <3>1. CASE v = r
        BY <2>1, <3>1 DEF StepOK, RequestOK
      <3>2. CASE v # r
        BY <1>2, <1>3, <2>1, <3>2 DEF StepOK
      <3> QED  BY <3>1, <3>2
    <2> QED  BY <2>1, <2>2 DEF StepOK, TablesAdvance, LegacyInvariant
  <1>4. ASSUME OtherUpdateNetwork \/ OtherUpdateMember \/ OtherSetAuthorization \/ OtherCreate
                 \/ OtherDelete, Observe
        PROVE  LegacyInvariant'
    <2>1. TablesAdvance /\ request' = request
      BY <1>0, <1>4, OtherSteps
    <2>2. \A v \in Requests : RequestOK(request'[v], held'[v], networks', members')
      BY <1>2, <1>4, <2>1
    <2> QED  BY <1>0, <2>1, <2>2 DEF TablesAdvance, LegacyInvariant
  <1> QED  BY <1>1, <1>3, <1>4 DEF Next

(* It holds in every reachable state. *)
LEMMA LegacyInvariantHolds == Spec => []LegacyInvariant
  <1>1. Init => LegacyInvariant
    <2>1. SUFFICES ASSUME Init PROVE LegacyInvariant
      OBVIOUS
    <2>2. RowsOK(networks, members)
      BY <2>1, PatchesAssumption DEF Init, RowsOK
    <2>3. IsRequest(Unused)
      BY DEF IsRequest, Unused, Handling
    <2>4. request = [r \in Requests |-> Unused]
      BY <2>1 DEF Init
    <2>5. AreRequests(request)
      BY <2>3, <2>4 DEF AreRequests
    <2>6. ASSUME NEW h, NEW nets, NEW mems PROVE RequestOK(Unused, h, nets, mems)
      BY DEF RequestOK, WellPlaced, Prepared, Applied, HoldsCopies, Unused, PutNetworkCalls,
             PutMemberCalls, Bumps
    <2> QED  BY <2>2, <2>4, <2>5, <2>6 DEF LegacyInvariant
  <1>2. LegacyInvariant /\ [Next]_vars => LegacyInvariant'
    BY LegacyStep
  <1> QED  BY <1>1, <1>2, PTL DEF Spec

(* A client that is answered 200 was obeyed, whoever else writes, creates  *)
(* and deletes between the store calls of its request: the row it names    *)
(* held every field of its patch, and its authorization, while the request *)
(* ran.                                                                    *)
THEOREM AnsweredPatchesApplied == Spec => []AcknowledgedPatchApplied
  <1>1. LegacyInvariant => AcknowledgedPatchApplied
    BY DEF LegacyInvariant, RequestOK, Applied, WellPlaced, AcknowledgedPatchApplied
  <1> QED  BY <1>1, LegacyInvariantHolds, PTL

-----------------------------------------------------------------------------
(* What a step of a request may change. *)

RowsKept ==
    /\ \A n \in DOMAIN networks \cap DOMAIN networks' : networks'[n] = networks[n]
    /\ \A k \in DOMAIN members \cap DOMAIN members' : members'[k] = members[k]

NetworksKeepOthers(r) ==
    \A n \in DOMAIN networks \cap DOMAIN networks' :
        \A f \in NetworkFields : networks'[n].doc[f] # networks[n].doc[f] =>
            request[r].op = "putNetwork" /\ f \in DOMAIN request'[r].patch.fields

MembersKeepOthers(r) ==
    \A k \in DOMAIN members \cap DOMAIN members' :
        LET old == members[k].doc  new == members'[k].doc IN
        /\ \A f \in MemberFields : new.fields[f] # old.fields[f] =>
               request[r].op = "putMember" /\ f \in DOMAIN request'[r].patch.fields
        /\ new.authorized # old.authorized => request'[r].patch.authorized = {new.authorized}

(* A step that saves no row keeps every row that stays. *)
LEMMA OnlySavesChange ==
    ASSUME NEW r \in Requests, RequestStep(r)
    PROVE  \/ RowsKept
           \/ PutNetworkSave(r) \/ PutMemberSave(r) \/ PutMemberSaveAuthorization(r) \/ BumpSave(r)
  <1>1. ASSUME UNCHANGED tables PROVE RowsKept
    BY <1>1 DEF tables, RowsKept
  <1>2. ASSUME NEW n, NEW doc, n \notin DOMAIN networks, DB!CreateNetwork(n, doc) PROVE RowsKept
    BY <1>2 DEF DB!CreateNetwork, DB!Put, RowsKept
  <1>3. ASSUME NEW k, NEW doc, k \notin DOMAIN members, DB!CreateMember(k, doc) PROVE RowsKept
    BY <1>3 DEF DB!CreateMember, DB!Put, RowsKept
  <1>4. ASSUME NEW n, DB!DeleteNetwork(n) PROVE RowsKept
    BY <1>4 DEF DB!DeleteNetwork, DB!Restrict, RowsKept
  <1>5. ASSUME NEW k, DB!DeleteMember(k) PROVE RowsKept
    BY <1>5 DEF DB!DeleteMember, DB!Restrict, RowsKept
  <1>6. ASSUME \/ \E n \in Networks, patch \in NetworkPatches :
                     PutNetwork(r, n, patch) \/ CreateRandom(r, n, patch)
               \/ PutNetworkGet(r) \/ PutNetworkCreate(r) \/ PutNetworkUpdate(r) \/ PutNetworkReget(r)
        PROVE  RowsKept
    BY <1>1, <1>2, <1>6 DEF PutNetwork, Start, CreateRandom, PutNetworkGet, PutNetworkCreate,
                            PutNetworkUpdate, PutNetworkReget
  <1>7. ASSUME \/ \E k \in DB!Keys, patch \in MemberPatches : PutMember(r, k, patch)
               \/ PutMemberGet(r) \/ PutMemberCreate(r) \/ PutMemberReget(r)
               \/ PutMemberUpdate(r) \/ PutMemberUpdated(r)
               \/ PutMemberAuthorize(r) \/ PutMemberAuthorized(r) \/ BumpGet(r)
        PROVE  RowsKept
    BY <1>1, <1>3, <1>7 DEF PutMember, Start, PutMemberGet, PutMemberCreate, PutMemberReget,
                            PutMemberUpdate, PutMemberUpdated, PutMemberAuthorize,
                            PutMemberAuthorized, BumpGet
  <1>8. ASSUME \/ \E n \in Networks : DeleteNetworkRead(r, n)
               \/ DeleteNetworkGet(r) \/ DeleteNetworkDelete(r)
               \/ \E k \in DB!Keys : DeleteMemberRead(r, k)
               \/ DeleteMemberGet(r) \/ DeleteMemberDelete(r)
               \/ ScanNetworks(r) \/ ScanMembers(r)
        PROVE  RowsKept
    BY <1>1, <1>4, <1>5, <1>8 DEF DeleteNetworkRead, Start, DeleteNetworkGet, DeleteNetworkDelete,
                                  DeleteMemberRead, DeleteMemberGet, DeleteMemberDelete,
                                  ScanNetworks, ScanMembers
  <1> QED  BY <1>6, <1>7, <1>8 DEF RequestStep

(* A save of a network changes the fields of the document, at most. *)
LEMMA NetworkSaved ==
    ASSUME NEW r, NEW n, NEW revision, NEW doc, DB!SaveNetwork(n, revision, doc),
           n \in DOMAIN networks,
           \A f \in NetworkFields : doc[f] # networks[n].doc[f] =>
               request[r].op = "putNetwork" /\ f \in DOMAIN request'[r].patch.fields
    PROVE  NetworksKeepOthers(r) /\ MembersKeepOthers(r)
  <1>1. /\ networks'[n].doc = doc /\ DOMAIN networks' = DOMAIN networks
        /\ \A x \in DOMAIN networks : x # n => networks'[x] = networks[x]
        /\ members' = members
    BY DEF DB!SaveNetwork, DB!Put
  <1>2. NetworksKeepOthers(r)
    BY <1>1 DEF NetworksKeepOthers
  <1>3. MembersKeepOthers(r)
    BY <1>1 DEF MembersKeepOthers
  <1> QED  BY <1>2, <1>3

(* The same for members. *)
LEMMA MemberSaved ==
    ASSUME NEW r, NEW k, NEW revision, NEW doc, DB!SaveMember(k, revision, doc),
           k \in DOMAIN members,
           \A f \in MemberFields : doc.fields[f] # members[k].doc.fields[f] =>
               request[r].op = "putMember" /\ f \in DOMAIN request'[r].patch.fields,
           doc.authorized # members[k].doc.authorized =>
               request'[r].patch.authorized = {doc.authorized}
    PROVE  NetworksKeepOthers(r) /\ MembersKeepOthers(r)
  <1>1. /\ members'[k].doc = doc /\ DOMAIN members' = DOMAIN members
        /\ \A x \in DOMAIN members : x # k => members'[x] = members[x]
        /\ networks' = networks
    BY DEF DB!SaveMember, DB!Put
  <1>2. MembersKeepOthers(r)
    BY <1>1 DEF MembersKeepOthers
  <1>3. NetworksKeepOthers(r)
    BY <1>1 DEF NetworksKeepOthers
  <1> QED  BY <1>2, <1>3

(* A request changes what its patch names, and nothing else: what it saves *)
(* was merged into a copy of the row, and a copy at the current revision   *)
(* is the row.                                                             *)
LEMMA RequestKeepsOthers ==
    ASSUME LegacyInvariant, NEW r \in Requests, RequestStep(r), "deleted" \notin held[r]
    PROVE  NetworksKeepOthers(r) /\ MembersKeepOthers(r)
  <1> DEFINE t == request[r]
             u == request'[r]
             n == t.k[1]
             k == t.k
  <1>0. /\ AreRequests(request) /\ WellPlaced(t) /\ Prepared(t)
        /\ RowsOK(networks, members) /\ HoldsCopies(t, networks, members)
    BY DEF LegacyInvariant, RequestOK
  <1>1. CASE RowsKept
    BY <1>1 DEF RowsKept, NetworksKeepOthers, MembersKeepOthers
  <1>2. CASE UNCHANGED tables
    BY <1>2 DEF tables, NetworksKeepOthers, MembersKeepOthers
  <1>3. CASE PutNetworkSave(r)
    <2> DEFINE revision == t.network.revision
    <2>1. t.op = "putNetwork" /\ t.pc = "saveNetwork" /\ t.patch \in NetworkPatches
      BY <1>0, <1>3 DEF PutNetworkSave, At, WellPlaced, PutNetworkCalls
    <2>2. CASE DB!IsCurrent(networks, n, revision)
      <3>1. DB!SaveNetwork(n, revision, t.fields) /\ Goto(r, "regetNetwork")
        BY <1>3, <2>2 DEF PutNetworkSave
      <3>2. n \in DOMAIN networks /\ t.network = networks[n] /\ IsNetworkRow(networks[n])
        BY <1>0, <2>1, <2>2 DEF HoldsCopies, IsCopy, DB!IsCurrent, RowsOK
      <3>3. t.fields = Merge(networks[n].doc, t.patch)
        BY <1>0, <2>1, <3>2 DEF HoldsCopies
      <3>4. \A f \in NetworkFields : f \notin DOMAIN t.patch.fields => t.fields[f] = networks[n].doc[f]
        BY <2>1, <3>2, <3>3, MergeAgrees, PatchesAssumption DEF IsNetworkRow
      <3>5. u.patch = t.patch
        BY <1>0, <3>1, SetOne DEF Goto, WithPc, Moves
      <3>6. \A f \in NetworkFields : t.fields[f] # networks[n].doc[f] =>
               request[r].op = "putNetwork" /\ f \in DOMAIN request'[r].patch.fields
        BY <2>1, <3>4, <3>5
      <3> QED  BY <3>1, <3>2, <3>6, NetworkSaved
    <2>3. CASE ~ DB!IsCurrent(networks, n, revision)
      BY <1>2, <1>3, <2>3 DEF PutNetworkSave
    <2> QED  BY <2>2, <2>3
  <1>4. CASE BumpSave(r)
    <2> DEFINE row == t.network
    <2>1. t.pc = "bumpSave"
      BY <1>4 DEF BumpSave, At
    <2>2. CASE DB!IsCurrent(networks, n, row.revision)
      <3>1. DB!SaveNetwork(n, row.revision, row.doc)
        BY <1>4, <2>2 DEF BumpSave
      <3>2. n \in DOMAIN networks /\ row = networks[n]
        BY <1>0, <2>1, <2>2 DEF HoldsCopies, IsCopy, DB!IsCurrent
      <3> QED  BY <3>1, <3>2, NetworkSaved
    <2>3. CASE ~ DB!IsCurrent(networks, n, row.revision)
      BY <1>2, <1>4, <2>3 DEF BumpSave
    <2> QED  BY <2>2, <2>3
  <1>5. CASE PutMemberSave(r)
    <2> DEFINE old == t.member
               doc == [fields |-> t.fields, authorized |-> old.doc.authorized]
    <2>1. t.op = "putMember" /\ t.pc = "saveMember" /\ t.patch \in MemberPatches
      BY <1>0, <1>5 DEF PutMemberSave, At, WellPlaced, PutMemberCalls
    <2>2. doc.fields = t.fields /\ doc.authorized = old.doc.authorized
      OBVIOUS
    <2>3. CASE DB!IsCurrent(members, k, old.revision)
      <3>1. PICK bump : DB!SaveMember(k, old.revision, doc) /\ GotoAfterBump(r, bump, "updated")
        BY <1>5, <2>3 DEF PutMemberSave
      <3> HIDE DEF doc
      <3>2. k \in DOMAIN members /\ old = members[k] /\ IsMemberRow(members[k])
        BY <1>0, <2>1, <2>3 DEF HoldsCopies, IsCopy, DB!IsCurrent, RowsOK
      <3>3. t.fields = Merge(members[k].doc.fields, t.patch)
        BY <1>0, <2>1, <3>2 DEF HoldsCopies
      <3>4. \A f \in MemberFields :
               f \notin DOMAIN t.patch.fields => t.fields[f] = members[k].doc.fields[f]
        <4>1. /\ DOMAIN t.patch.fields \subseteq DOMAIN members[k].doc.fields
              /\ DOMAIN members[k].doc.fields = MemberFields
          BY <2>1, <3>2, PatchesAssumption DEF IsMemberRow
        <4> QED  BY <3>3, <4>1, MergeAgrees
      <3>5. u.patch = t.patch
        BY <1>0, <3>1, SetTwo DEF GotoAfterBump, Moves
      <3>6. /\ \A f \in MemberFields : doc.fields[f] # members[k].doc.fields[f] =>
                  request[r].op = "putMember" /\ f \in DOMAIN request'[r].patch.fields
            /\ doc.authorized = members[k].doc.authorized
        BY <2>1, <2>2, <3>2, <3>4, <3>5
      <3> QED  BY <3>1, <3>2, <3>6, MemberSaved
    <2>4. CASE ~ DB!IsCurrent(members, k, old.revision)
      BY <1>2, <1>5, <2>4 DEF PutMemberSave
    <2> QED  BY <2>3, <2>4
  <1>6. CASE PutMemberSaveAuthorization(r)
    <2> DEFINE old == t.member
               doc == [old.doc EXCEPT !.authorized = ~ @]
    <2>1. t.pc = "saveAuthorization" /\ IsMemberRow(old) /\ t.patch.authorized = {~ old.doc.authorized}
      BY <1>0, <1>6 DEF PutMemberSaveAuthorization, At, Prepared
    <2>2. IsMemberDoc(old.doc)
      BY <2>1 DEF IsMemberDoc, IsMemberRow
    <2>3. doc.fields = old.doc.fields /\ doc.authorized = ~ old.doc.authorized
      BY <2>2, FlipAuthorization
    <2>4. CASE DB!IsCurrent(members, k, old.revision)
      <3>1. PICK bump : DB!SaveMember(k, old.revision, doc) /\ GotoAfterBump(r, bump, "authorized")
        BY <1>6, <2>4 DEF PutMemberSaveAuthorization
      <3> HIDE DEF doc
      <3>2. k \in DOMAIN members /\ old = members[k]
        BY <1>0, <2>1, <2>4 DEF HoldsCopies, IsCopy, DB!IsCurrent
      <3>3. u.patch = t.patch
        BY <1>0, <3>1, SetTwo DEF GotoAfterBump, Moves
      <3>4. u.patch.authorized = {doc.authorized}
        BY <2>1, <2>3, <3>3
      <3> QED  BY <2>3, <3>1, <3>2, <3>4, MemberSaved
    <2>5. CASE ~ DB!IsCurrent(members, k, old.revision)
      BY <1>2, <1>6, <2>5 DEF PutMemberSaveAuthorization
    <2> QED  BY <2>4, <2>5
  <1> QED  BY <1>1, <1>3, <1>4, <1>5, <1>6, OnlySavesChange

(* Partial-update semantics: whatever other clients write between the      *)
(* store calls of a legacy POST, the fields its patch does not name and    *)
(* the authorization it does not set stay as they are when it saves,       *)
(* unless a row was deleted while it ran.                                  *)
THEOREM PatchesKeepOthers == Spec => PatchKeepsOtherFields
  <1> DEFINE Keeps ==
          \A r \in Requests : request'[r] # request[r] /\ request'[r].patch # NoRow
                                /\ "deleted" \notin held[r] =>
             LET patch == request'[r].patch IN
             /\ \A n \in DOMAIN networks \cap DOMAIN networks' :
                   \A f \in NetworkFields : networks'[n].doc[f] # networks[n].doc[f] =>
                       request[r].op = "putNetwork" /\ f \in DOMAIN patch.fields
             /\ \A k \in DOMAIN members \cap DOMAIN members' :
                   LET old == members[k].doc  new == members'[k].doc IN
                   /\ \A f \in MemberFields : new.fields[f] # old.fields[f] =>
                          request[r].op = "putMember" /\ f \in DOMAIN patch.fields
                   /\ new.authorized # old.authorized => patch.authorized = {new.authorized}
  <1>1. LegacyInvariant /\ [Next]_vars => [Keeps]_vars
    <2>1. SUFFICES ASSUME LegacyInvariant, Next PROVE Keeps
      OBVIOUS
    <2>2. SUFFICES ASSUME NEW r \in Requests, request'[r] # request[r], "deleted" \notin held[r]
                   PROVE  NetworksKeepOthers(r) /\ MembersKeepOthers(r)
      BY DEF NetworksKeepOthers, MembersKeepOthers
    <2>3. PICK v \in Requests : RequestStep(v) /\ Observe
      <3>1. ASSUME OtherUpdateNetwork \/ OtherUpdateMember \/ OtherSetAuthorization \/ OtherCreate
                     \/ OtherDelete
            PROVE  FALSE
        BY <2>1, <2>2, <3>1, OtherSteps DEF LegacyInvariant
      <3> QED  BY <2>1, <3>1 DEF Next
    <2>4. v = r
      BY <2>1, <2>2, <2>3, RequestSteps DEF StepOK
    <2> QED  BY <2>1, <2>2, <2>3, <2>4, RequestKeepsOthers
  <1> QED  BY <1>1, LegacyInvariantHolds, PTL DEF Spec, PatchKeepsOtherFields
=============================================================================
