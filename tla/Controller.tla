----------------------------- MODULE Controller -----------------------------
(***************************************************************************)
(* The controller service, internal/controller: administration of networks *)
(* and members, registration of nodes on first contact, automatic address  *)
(* assignment, and the answer to a configuration request.                  *)
(*                                                                         *)
(* Requests run concurrently (HTTP handlers and the UDP loop), so a worker *)
(* here is a goroutine serving one request, and one step of a worker is    *)
(* one store call together with the code up to the next one.  Between the  *)
(* calls it holds only copies of rows; the sole lock is ipamMu.  The UDP   *)
(* loop asks for one configuration at a time, but the service is built for *)
(* concurrent callers (ipam_test.go:20-36 has several), and so is this     *)
(* module.  A final read that does nothing but fetch the answer of an      *)
(* administrator is left out, and so is a request that is refused before   *)
(* its first write.                                                        *)
(***************************************************************************)
EXTENDS Ipam, Credentials, Dictionary

CONSTANTS Networks, Nodes, Workers,
          Roles,            \* activeBridge, networkRelay, multicastReplicator
          NetworkDocs,      \* the network contents administrators write
          MemberUpdates,    \* the member contents administrators write
          InitialNetworks,  \* persisted rows when the process starts
          InitialMembers,
          Observed,         \* the members whose agents are observed
          Operations,       \* the requests of this instance
          CallsMayFail,     \* may a context be cancelled or the database fail?
          MaxRevision,      \* bound: no change of a row beyond this revision is requested
          MaxNetworkSpecialists,
          Nobody, NoRow, NoConfig

ASSUME OperationsAssumption ==
    Operations \subseteq {"createNetwork", "updateNetwork", "deleteNetwork", "registerMember",
                          "setAuthorization", "updateMember", "deleteMember", "config"}

\* The fields of a member's document.
IsMemberDoc(doc) ==
    doc = [authorized |-> doc.authorized, roles |-> doc.roles,
           noAutoAssign |-> doc.noAutoAssign, ips |-> doc.ips,
           capabilities |-> doc.capabilities, tags |-> doc.tags]

ASSUME ControllerAssumption ==
    /\ Nobody \notin Workers
    /\ \A k \in DOMAIN InitialMembers :
          InitialMembers[k].revision \in Nat \ {0} /\ IsMemberDoc(InitialMembers[k].doc)

\* The foreign keys of the schema.
ASSUME InitialRowsAssumption ==
    \A k \in DOMAIN InitialMembers : k[1] \in DOMAIN InitialNetworks

IsIDSet(ids) == ids \subseteq Nat /\ IsFiniteSet(ids)

IsText(s) == Len(s) \in Nat /\ s = [j \in 1..Len(s) |-> s[j]]

\* What an agent has that cannot read what it received: a dictionary like no other,
\* because parseDictionary refuses an empty key.
Unreadable == [key \in {<<>>} |-> <<>>]

ASSUME DocumentsAssumption ==
    /\ NoConfig # Unreadable
    /\ \A n \in DOMAIN InitialNetworks :
          /\ InitialNetworks[n].revision \in Nat \ {0}
          /\ IsText(InitialNetworks[n].doc.name)
          /\ IsIDSet(DOMAIN InitialNetworks[n].doc.capabilities)
    /\ \A doc \in NetworkDocs : IsText(doc.name) /\ IsIDSet(DOMAIN doc.capabilities)
    /\ \A k \in DOMAIN InitialMembers : IsIDSet(InitialMembers[k].doc.capabilities)
    /\ \A update \in MemberUpdates : IsIDSet(update.capabilities)

VARIABLES networks, members, metadata,
          task,       \* worker -> the request it serves and its local variables
          ipamMu,     \* the worker that holds Service.ipamMu, or Nobody
          configs,    \* <<network, node>> -> the configuration an observed agent has
          unrevoked   \* history: deauthorizations persisted and not yet announced

MemberDocs == [authorized : BOOLEAN, roles : SUBSET Roles, noAutoAssign : BOOLEAN,
               ips : SUBSET Addresses, capabilities : SUBSET Nat,
               tags : UNION {[T -> Nat] : T \in SUBSET Nat}]

DB == INSTANCE Tables WITH MetadataDocs <- {"reported"}

tables == <<networks, members, metadata>>
vars == <<networks, members, metadata, task, ipamMu, configs, unrevoked>>

Keys == DB!Keys

\* A request: its operation, the next store call, what it is about, the document it
\* is going to write and the rows it has read.
Serving(op, pc, k, doc, network, member) ==
    [op |-> op, pc |-> pc, k |-> k, doc |-> doc, network |-> network, member |-> member]

Idle == Serving("none", "idle", Nobody, NoRow, NoRow, NoRow)

Init ==
    /\ networks = InitialNetworks
    /\ members = InitialMembers
    /\ metadata = [k \in {} |-> {}]
    /\ task = [w \in Workers |-> Idle]
    /\ ipamMu = Nobody
    /\ configs = [k \in Keys |-> NoConfig]
    /\ unrevoked = {}

-----------------------------------------------------------------------------
(* Moves of a worker. *)

At(w, op, pc) == task[w].op = op /\ task[w].pc = pc

\* A worker takes a request and makes its first store call.
Begin(w, op) == op \in Operations /\ task[w] = Idle

Start(w, request) == task' = [task EXCEPT ![w] = request]

Goto(w, pc) == task' = [task EXCEPT ![w].pc = pc]

\* The request ends; a deferred Unlock releases ipamMu.
Finish(w) == task' = [task EXCEPT ![w] = Idle]

Release(w) == ipamMu' = IF ipamMu = w THEN Nobody ELSE ipamMu

OnlyTask == UNCHANGED <<tables, ipamMu, configs, unrevoked>>

\* The network may still be changed within the bound of the instance.
NetworkBelowBound(n) == n \in DOMAIN networks => networks[n].revision < MaxRevision

-----------------------------------------------------------------------------
(* Networks: service.go and admin.go. *)

\* CreateNetwork, CreateNetworkWithUpdate and one attempt of the random variants.
\* An existing ID is refused (the random variants draw another one).
CreateNetwork(w, n, doc) ==
    /\ Begin(w, "createNetwork")
    /\ n \notin DOMAIN networks
    /\ DB!CreateNetwork(n, doc)
    /\ UNCHANGED <<task, ipamMu, configs, unrevoked>>

UpdateNetworkGet(w, n, doc, expectedRevision) ==
    /\ Begin(w, "updateNetwork")
    /\ n \in DOMAIN networks /\ networks[n].revision = expectedRevision
    /\ Start(w, Serving("updateNetwork", "save", <<n, Nobody>>, doc, networks[n], NoRow))
    /\ OnlyTask

UpdateNetworkSave(w) ==
    LET n == task[w].k[1]  revision == task[w].network.revision IN
    /\ At(w, "updateNetwork", "save")
    /\ IF DB!IsCurrent(networks, n, revision)
       THEN DB!SaveNetwork(n, revision, task[w].doc)
       ELSE UNCHANGED tables
    /\ Finish(w)
    /\ UNCHANGED <<ipamMu, configs, unrevoked>>

DeleteNetworkGet(w, n) ==
    /\ Begin(w, "deleteNetwork")
    /\ n \in DOMAIN networks
    /\ Start(w, Serving("deleteNetwork", "delete", <<n, Nobody>>, NoRow, networks[n], NoRow))
    /\ OnlyTask

DeleteNetworkDelete(w) ==
    LET n == task[w].k[1] IN
    /\ At(w, "deleteNetwork", "delete")
    /\ IF DB!IsCurrent(networks, n, task[w].network.revision)
       THEN DB!DeleteNetwork(n)
       ELSE UNCHANGED tables
    /\ Finish(w)
    /\ UNCHANGED <<ipamMu, configs, unrevoked>>

-----------------------------------------------------------------------------
(* bumpNetworkRevision: read the network, save it unchanged at the next    *)
(* revision.  It is the middle part of three operations; "next" is where   *)
(* each goes on.                                                           *)

BumpGet(w) ==
    LET n == task[w].k[1] IN
    /\ task[w].pc = "bumpGet"
    /\ IF n \in DOMAIN networks
       THEN task' = [task EXCEPT ![w].pc = "bumpSave", ![w].network = networks[n]]
       ELSE Finish(w)
    /\ OnlyTask

BumpSave(w) ==
    LET n == task[w].k[1]  row == task[w].network IN
    /\ task[w].pc = "bumpSave"
    /\ IF DB!IsCurrent(networks, n, row.revision)
       THEN DB!SaveNetwork(n, row.revision, row.doc) /\ Goto(w, "bumped")
       ELSE UNCHANGED tables /\ Finish(w)
    /\ UNCHANGED <<ipamMu, configs, unrevoked>>

-----------------------------------------------------------------------------
(* Members: service.go and admin.go. *)

NewMember == [authorized |-> FALSE, roles |-> {}, noAutoAssign |-> FALSE, ips |-> {},
              capabilities |-> {}, tags |-> [t \in {} |-> 0]]

\* RegisterMember, first read.  A configuration request runs it as its second
\* part ("register"); the legacy API calls it by itself.
RegisterMember(w, k) ==
    /\ Begin(w, "registerMember")
    /\ k \notin DOMAIN members
    /\ Start(w, Serving("registerMember", "create", k, NoRow, NoRow, NoRow))
    /\ OnlyTask

\* A member that is known is taken from a copy made when the process started.
RegisterGetCached(w) ==
    LET k == task[w].k IN
    /\ At(w, "config", "register")
    /\ IF k \in DOMAIN members
       THEN task' = [task EXCEPT ![w].pc = "upsert", ![w].member = InitialMembers[k]]
       ELSE Goto(w, "create")
    /\ OnlyTask

RegisterGet(w) ==
    LET k == task[w].k IN
    /\ At(w, "config", "register")
    /\ IF k \in DOMAIN members
       THEN task' = [task EXCEPT ![w].pc = "upsert", ![w].member = members[k]]
       ELSE Goto(w, "create")
    /\ OnlyTask

\* CreateMember.  If the node exists by now, or was created, read it again.
RegisterCreate(w) ==
    LET k == task[w].k IN
    /\ task[w].pc = "create"
    /\ IF k[1] \in DOMAIN networks
       THEN /\ Goto(w, "registerReget")
            /\ IF k \in DOMAIN members THEN UNCHANGED tables ELSE DB!CreateMember(k, NewMember)
       ELSE Finish(w) /\ UNCHANGED tables
    /\ UNCHANGED <<ipamMu, configs, unrevoked>>

RegisterReget(w) ==
    LET k == task[w].k IN
    /\ task[w].pc = "registerReget"
    /\ IF k \in DOMAIN members /\ task[w].op = "config"
       THEN task' = [task EXCEPT ![w].pc = "upsert", ![w].member = members[k]]
       ELSE Finish(w)
    /\ OnlyTask

SetAuthorizationGet(w, k, authorized, expectedRevision) ==
    /\ Begin(w, "setAuthorization")
    /\ k \in DOMAIN members /\ members[k].revision = expectedRevision
    /\ members[k].doc.authorized # authorized
    /\ Start(w, Serving("setAuthorization", "save", k,
                        [members[k].doc EXCEPT !.authorized = authorized], NoRow, members[k]))
    /\ OnlyTask

SetAuthorizationSave(w) ==
    LET k == task[w].k  revision == task[w].member.revision  doc == task[w].doc IN
    /\ At(w, "setAuthorization", "save")
    /\ IF DB!IsCurrent(members, k, revision)
       THEN /\ DB!SaveMember(k, revision, doc)
            /\ Goto(w, IF doc.roles # {} THEN "bumpGet" ELSE "bumped")
            /\ unrevoked' = IF doc.authorized THEN unrevoked \ {k} ELSE unrevoked \cup {k}
       ELSE UNCHANGED <<tables, unrevoked>> /\ Finish(w)
    /\ UNCHANGED <<ipamMu, configs>>

\* The final GetMember decides whether onDeauthorize announces the revocation.
SetAuthorizationReget(w) ==
    LET k == task[w].k IN
    /\ At(w, "setAuthorization", "bumped")
    /\ unrevoked' = IF k \in DOMAIN members /\ ~ task[w].doc.authorized
                    THEN unrevoked \ {k} ELSE unrevoked
    /\ Finish(w)
    /\ UNCHANGED <<tables, ipamMu, configs>>

\* The fields of MemberUpdate replace those of the member; authorization is not
\* among them.
Updated(doc, update) ==
    [authorized |-> doc.authorized, roles |-> update.roles,
     noAutoAssign |-> update.noAutoAssign, ips |-> update.ips,
     capabilities |-> update.capabilities, tags |-> update.tags]

UpdateMemberGet(w, k, update, expectedRevision) ==
    /\ Begin(w, "updateMember")
    /\ k \in DOMAIN members /\ members[k].revision = expectedRevision
    /\ Start(w, Serving("updateMember", "save", k, Updated(members[k].doc, update), NoRow,
                        members[k]))
    /\ OnlyTask

\* Only a role that is lost counts as a change.
SpecialistLost(old, doc) == old.doc.authorized /\ ~ old.doc.roles \subseteq doc.roles

\* specialistsChanged compares the roles that were read with the new ones.
SpecialistsChanged(old, doc) == old.doc.authorized /\ old.doc.roles # doc.roles

UpdateMemberSave(w) ==
    LET k == task[w].k  old == task[w].member  doc == task[w].doc IN
    /\ At(w, "updateMember", "save")
    /\ IF DB!IsCurrent(members, k, old.revision)
       THEN /\ DB!SaveMember(k, old.revision, doc)
            /\ IF SpecialistsChanged(old, doc) THEN Goto(w, "bumpGet") ELSE Finish(w)
       ELSE UNCHANGED tables /\ Finish(w)
    /\ UNCHANGED <<ipamMu, configs, unrevoked>>

\* The final GetMember only fetches the answer.
UpdateMemberReget(w) ==
    /\ At(w, "updateMember", "bumped")
    /\ Finish(w)
    /\ OnlyTask

\* DeleteMember bumps the network before it deletes a specialist.
DeleteMemberGet(w, k) ==
    /\ Begin(w, "deleteMember")
    /\ k \in DOMAIN members
    /\ LET doc == members[k].doc
           pc == IF doc.authorized /\ doc.roles # {} THEN "bumpGet" ELSE "bumped" IN
       Start(w, Serving("deleteMember", pc, k, NoRow, NoRow, members[k]))
    /\ OnlyTask

DeleteMemberDelete(w) ==
    LET k == task[w].k IN
    /\ At(w, "deleteMember", "bumped")
    /\ IF DB!IsCurrent(members, k, task[w].member.revision)
       THEN DB!DeleteMember(k)
       ELSE UNCHANGED tables
    /\ Finish(w)
    /\ UNCHANGED <<ipamMu, configs, unrevoked>>

-----------------------------------------------------------------------------
(* HandleConfigRequest: config.go and ipam.go. *)

ConfigGetNetwork(w, k) ==
    /\ Begin(w, "config")
    /\ k[1] \in DOMAIN networks      \* otherwise the reply is OBJECT_NOT_FOUND
    /\ Start(w, Serving("config", "register", k, NoRow, networks[k[1]], NoRow))
    /\ OnlyTask

\* Every family counts as needed, whatever the member already has.
NeedsAll(network, doc) == network.assign

\* The families in which the member still needs an automatic address.
Needs(network, doc) ==
    {f \in network.assign : ~ HasAddressFamily(doc.ips, f)}

\* ensureAutomaticAssignments goes beyond its early returns.
WantsAssignment(network, doc) ==
    ~ doc.noAutoAssign /\ network.pools # <<>> /\ Needs(network, doc) # {}

\* UpsertAgentMetadata; an unauthorized member is denied, and the early returns
\* of ensureAutomaticAssignments look at the rows read so far.
ConfigUpsert(w) ==
    LET k == task[w].k  doc == task[w].member.doc IN
    /\ At(w, "config", "upsert")
    /\ IF k \in DOMAIN members
       THEN /\ DB!UpsertAgentMetadata(k, "reported")
            /\ IF ~ doc.authorized THEN Finish(w)
               ELSE Goto(w, IF WantsAssignment(task[w].network.doc, doc)
                            THEN "ipamLock" ELSE "list")
       ELSE UNCHANGED tables /\ Finish(w)
    /\ UNCHANGED <<ipamMu, configs, unrevoked>>

\* Entering the assignment without waiting for the lock.
IpamLockUnguarded(w) ==
    /\ At(w, "config", "ipamLock")
    /\ ipamMu' = w
    /\ Goto(w, "ipamGet")
    /\ UNCHANGED <<tables, configs, unrevoked>>

IpamLock(w) ==
    /\ At(w, "config", "ipamLock")
    /\ ipamMu = Nobody
    /\ ipamMu' = w
    /\ Goto(w, "ipamGet")
    /\ UNCHANGED <<tables, configs, unrevoked>>

\* Under the lock the member is read again, and the need decided again.
IpamGet(w) ==
    LET k == task[w].k  network == task[w].network.doc IN
    /\ At(w, "config", "ipamGet")
    /\ \/ /\ k \in DOMAIN members
          /\ WantsAssignment(network, members[k].doc)
          /\ task' = [task EXCEPT ![w].pc = "ipamList", ![w].member = members[k]]
          /\ UNCHANGED ipamMu
       \/ /\ k \in DOMAIN members
          /\ ~ WantsAssignment(network, members[k].doc)
          /\ task' = [task EXCEPT ![w].pc = "list", ![w].member = members[k]]
          /\ Release(w)
       \/ /\ k \notin DOMAIN members
          /\ Finish(w)
          /\ Release(w)
    /\ UNCHANGED <<tables, configs, unrevoked>>

\* ListMembers of a network that is gone is an error, or empty if it went
\* between the two statements of the SQLite store.
Listed(n) == DB!MembersOf(n)
ListFails(n) == n \notin DOMAIN networks

UsedAddresses(list) == UNION {x[2].doc.ips : x \in list}

\* The addresses appended: one per needed family, as far as one is free.
Assigned(network, doc, list) ==
    UNION {FirstAvailableAddress(network, UsedAddresses(list), f) : f \in Needs(network, doc)}

IpamList(w) ==
    LET k == task[w].k  member == task[w].member
        ips == Assigned(task[w].network.doc, member.doc, Listed(k[1])) IN
    /\ At(w, "config", "ipamList")
    /\ \/ /\ ListFails(k[1])
          /\ Finish(w)
          /\ Release(w)
       \/ /\ ips # {}
          /\ task' = [task EXCEPT ![w].pc = "ipamSave",
                          ![w].doc = [member.doc EXCEPT !.ips = @ \cup ips]]
          /\ UNCHANGED ipamMu
       \/ /\ ips = {}
          /\ Goto(w, "list")
          /\ Release(w)
    /\ UNCHANGED <<tables, configs, unrevoked>>

\* A conflict that returns without unlocking.
IpamSaveKeepsLock(w) ==
    LET k == task[w].k  revision == task[w].member.revision IN
    /\ At(w, "config", "ipamSave")
    /\ IF DB!IsCurrent(members, k, revision)
       THEN DB!SaveMember(k, revision, task[w].doc) /\ Goto(w, "ipamReget") /\ UNCHANGED ipamMu
       ELSE UNCHANGED <<tables, ipamMu>> /\ Finish(w)
    /\ UNCHANGED <<configs, unrevoked>>

IpamSave(w) ==
    LET k == task[w].k  revision == task[w].member.revision IN
    /\ At(w, "config", "ipamSave")
    /\ IF DB!IsCurrent(members, k, revision)
       THEN DB!SaveMember(k, revision, task[w].doc) /\ Goto(w, "ipamReget") /\ UNCHANGED ipamMu
       ELSE UNCHANGED tables /\ Finish(w) /\ Release(w)
    /\ UNCHANGED <<configs, unrevoked>>

IpamReget(w) ==
    LET k == task[w].k IN
    /\ At(w, "config", "ipamReget")
    /\ IF k \in DOMAIN members
       THEN task' = [task EXCEPT ![w].pc = "list", ![w].member = members[k]]
       ELSE Finish(w)
    /\ Release(w)
    /\ UNCHANGED <<tables, configs, unrevoked>>

\* serializeSpecialists: the authorized members that have a role.
Specialists(list) ==
    {<<x[1], x[2].doc.roles>> : x \in {y \in list : y[2].doc.authorized /\ y[2].doc.roles # {}}}

\* configRevision in unsigned arithmetic, and the sums it refuses.
ConfigRevision(networkRevision, memberRevision) ==
    (networkRevision + memberRevision - 1) % (MaxUint + 1)

\* No check for overflow.
AnyRevisionFits(networkRevision, memberRevision) == TRUE

ConfigRevisionFits(networkRevision, memberRevision) ==
    networkRevision <= MaxUint - memberRevision + 1

\* serializeStaticIPs: every address with the size of the smallest managed route
\* around it, which is the one with the longest prefix.
StaticIPs(network, doc) ==
    {<<y[1], Width(y[2])>> : y \in
        {x \in doc.ips \X network.routes :
            /\ RangeContains(x[2], x[1])
            /\ \A r \in network.routes : RangeContains(r, x[1]) => Width(x[2]) <= Width(r)}}

\* It needs a route around every address.
StaticIPsHaveRoutes(network, doc) ==
    \A a \in doc.ips : AddressHasManagedRoute(network.routes, a)

\* What IssueAuthorizedConfig refuses: a member deauthorized in the meantime, an
\* address outside every managed route, too many addresses, rules or specialists.
Issuable(network, doc, list) ==
    /\ doc.authorized
    /\ OwnershipIssuable(doc)
    /\ CapabilitiesIssuable(network, doc)
    /\ StaticIPsHaveRoutes(network, doc)
    /\ Cardinality(Specialists(list)) <= MaxNetworkSpecialists

\* The serialized form of a list, opaque unless it is empty.
Packed(x) == IF x = {} THEN <<>> ELSE <<Blob(x)>>

\* An optional field: a value that is empty has no line.
Optional(key, x) == IF x = {} THEN <<>> ELSE <<[key |-> key, value |-> Packed(x)]>>

\* A function as a set of pairs.
Graph(f) == {<<x, f[x]>> : x \in DOMAIN f}

\* BuildDictionary: the revision, and the entries an administrator decides on, in
\* their order.  Name and routes stand for the other fields of a network as well
\* (flags, limits, rules, DNS), addresses for the ones derived from node IDs, and
\* credentials are in without their signatures and times.
BuildDictionary(revision, name, capabilities, tags, specialists, routes, ips) ==
    <<[key |-> "r", value |-> Hex[revision]], [key |-> "n", value |-> name]>>
      \o Optional("CAP", capabilities) \o Optional("TAG", tags)
      \o Optional("S", specialists) \o Optional("RT", routes) \o Optional("I", ips)

Entries(network, member, list) ==
    BuildDictionary(ConfigRevision(network.revision, member.revision), network.doc.name,
                    IssuedCapabilities(network.doc, member.doc),
                    Graph(IssuedTags(network.doc, member.doc)), Specialists(list),
                    network.doc.routes, StaticIPs(network.doc, member.doc))

\* The configuration that task t can issue, if it can: its serialized form.
Dictionary(t, list) == Serialized(Entries(t.network, t.member, list))

CanIssue(t, list) ==
    /\ ConfigRevisionFits(t.network.revision, t.member.revision)
    /\ Issuable(t.network.doc, t.member.doc, list)
    /\ Len(Dictionary(t, list)) <= MaxDictionaryLength

\* What an agent reads in the chunks it received, if it can read them.
Config(chunks) ==
    IF (\A j \in 1..Len(chunks) : ChunkInRange(chunks[j])) /\ Readable(Assembled(chunks))
    THEN ParseDictionary(Assembled(chunks))
    ELSE Unreadable

\* An agent that has the chunks of a dictionary reads what was put into it.
ReadsBack(revision, name, capabilities, tags, specialists, routes, ips) ==
    LET config == Config(BuildSignedChunks(revision, Serialized(
                      BuildDictionary(revision, name, capabilities, tags, specialists, routes, ips))))
    IN /\ config # Unreadable
       /\ HexUint(config, "r") = revision
       /\ Field(config, "n") = name
       /\ Field(config, "CAP") = Packed(capabilities)
       /\ Field(config, "TAG") = Packed(tags)
       /\ Field(config, "S") = Packed(specialists)
       /\ Field(config, "RT") = Packed(routes)
       /\ Field(config, "I") = Packed(ips)

\* ListMembers and the reply.  The datagrams of a reply may be lost, and an agent
\* that is not observed has no state here.
ConfigIssue(w) ==
    LET t == task[w]  list == Listed(t.k[1])
        update == ConfigRevision(t.network.revision, t.member.revision) IN
    /\ At(w, "config", "list")
    /\ \/ /\ t.k \in Observed
          /\ CanIssue(t, list)
          /\ configs' = [configs EXCEPT ![t.k] =
                            Config(BuildSignedChunks(update, Dictionary(t, list)))]
       \/ UNCHANGED configs
    /\ Finish(w)
    /\ UNCHANGED <<tables, ipamMu, unrevoked>>

-----------------------------------------------------------------------------
\* A store call of a request in progress fails without effect: the context of
\* the request was cancelled, or the database returned an error.  (An error that
\* is reported after the row changed is outside the model, as in SqliteStore.)
\* Waiting for the mutex cannot fail.
Fail(w) ==
    /\ CallsMayFail
    /\ task[w] # Idle /\ task[w].pc # "ipamLock"
    /\ Finish(w)
    /\ Release(w)
    /\ UNCHANGED <<tables, configs, unrevoked>>

\* A request arrives at worker w.
Request(w) ==
    \/ \E n \in Networks, doc \in NetworkDocs : CreateNetwork(w, n, doc)
    \/ \E n \in Networks, doc \in NetworkDocs, r \in 1..MaxRevision-1 : UpdateNetworkGet(w, n, doc, r)
    \/ \E n \in Networks : DeleteNetworkGet(w, n)
    \/ \E k \in Keys : RegisterMember(w, k)
    \/ \E k \in Keys, authorized \in BOOLEAN, r \in 1..MaxRevision-1 :
          NetworkBelowBound(k[1]) /\ SetAuthorizationGet(w, k, authorized, r)
    \/ \E k \in Keys, update \in MemberUpdates, r \in 1..MaxRevision-1 :
          NetworkBelowBound(k[1]) /\ UpdateMemberGet(w, k, update, r)
    \/ \E k \in Keys : NetworkBelowBound(k[1]) /\ DeleteMemberGet(w, k)
    \/ \E k \in Keys : ConfigGetNetwork(w, k)

\* The worker serves its request: one store call.
Step(w) ==
    \/ UpdateNetworkSave(w)
    \/ DeleteNetworkDelete(w)
    \/ BumpGet(w)
    \/ BumpSave(w)
    \/ RegisterGet(w)
    \/ RegisterCreate(w)
    \/ RegisterReget(w)
    \/ SetAuthorizationSave(w)
    \/ SetAuthorizationReget(w)
    \/ UpdateMemberSave(w)
    \/ UpdateMemberReget(w)
    \/ DeleteMemberDelete(w)
    \/ ConfigUpsert(w)
    \/ IpamGet(w)
    \/ IpamList(w)
    \/ IpamSave(w)
    \/ IpamReget(w)
    \/ ConfigIssue(w)

Next == \E w \in Workers : Request(w) \/ Step(w) \/ IpamLock(w) \/ Fail(w)

Spec == Init /\ [][Next]_vars

-----------------------------------------------------------------------------
(* Properties. *)

\* The agent's configuration carries the number that one issued now would carry.
HasCurrentRevision(k) ==
    /\ k \in DOMAIN members /\ configs[k] \notin {NoConfig, Unreadable}
    /\ ConfigRevisionFits(networks[k[1]].revision, members[k].revision)
    /\ HexUint(configs[k], "r") = ConfigRevision(networks[k[1]].revision, members[k].revision)

\* The set an optional field carries.
Carried(k, key) == IF Field(configs[k], key) = <<>> THEN {} ELSE Field(configs[k], key)[1][2]

(* configRevision folds two counters into one number.  While nothing is    *)
(* deleted, an agent can read every configuration it is sent, and if the   *)
(* one it has carries the current number, it reads in it the name and the  *)
(* routes the network has and the addresses it has itself, with the size   *)
(* of their routes, although the two rows were read at different times,    *)
(* the member may have been written in between (config.go:43-88), and the  *)
(* name is free text in a format of lines (dictionary.go:18-53).           *)
RevisionIdentifiesContent ==
    \A k \in Keys :
        /\ configs[k] # Unreadable
        /\ HasCurrentRevision(k) =>
              /\ Field(configs[k], "n") = networks[k[1]].doc.name
              /\ Field(configs[k], "RT") = Packed(networks[k[1]].doc.routes)
              /\ Field(configs[k], "I") =
                    Packed(StaticIPs(networks[k[1]].doc, members[k].doc))

(* Capabilities are issued only to members that list them, plus the        *)
(* defaults, and all of them up to the limit; tags have the value of the   *)
(* member, and the default of the network otherwise (docs/SCHEMA.md:48-51):*)
(* an agent with the current revision holds what the current rows give it. *)
CredentialsEntitled ==
    \A k \in Keys : HasCurrentRevision(k) =>
        LET network == networks[k[1]].doc
            member == members[k].doc
            entitled == {c \in DOMAIN network.capabilities :
                            network.capabilities[c].default \/ c \in member.capabilities}
        IN /\ Carried(k, "CAP") \subseteq entitled
           /\ Cardinality(entitled \cup member.capabilities) <= MaxIssuedCapabilities
                 => Carried(k, "CAP") = entitled
           /\ \A tag \in Carried(k, "TAG") :
                 IF tag[1] \in DOMAIN member.tags THEN tag[2] = member.tags[tag[1]]
                 ELSE tag[2] \in network.tags[tag[1]]

\* A request has changed the specialists of n and not yet advanced its revision.
BumpPending(n) ==
    \E w \in Workers : task[w].pc \in {"bumpGet", "bumpSave"} /\ task[w].k[1] = n

(* A change of role or authorization advances the network revision so that *)
(* every member can refresh (docs/SCHEMA.md:55-58): once no request is on  *)
(* its way to advance it, an agent with the current revision knows the     *)
(* current specialists of its network.                                     *)
SpecialistsRefreshed ==
    \A k \in Keys : HasCurrentRevision(k) /\ ~ BumpPending(k[1]) =>
        Carried(k, "S") = Specialists(DB!MembersOf(k[1]))

(* A persisted deauthorization is followed by its revocation               *)
(* (docs/SCHEMA.md:60-63): while it has not been announced, the request    *)
(* that made it is still going to.                                         *)
DeauthorizationRevoked ==
    \A k \in unrevoked :
        \E w \in Workers : task[w].op = "setAuthorization" /\ task[w].k = k
                              /\ task[w].pc # "save"

(* Only the save of SetMemberAuthorization changes whether a member is     *)
(* authorized, and to what its request asked for.  UpdateMember and the    *)
(* automatic assignment write back the flag they read, and must not undo a *)
(* decision made after they read it.                                       *)
AuthorizationOnlyOnRequest ==
    [][\A k \in DOMAIN members \cap DOMAIN members' :
          members'[k].doc.authorized # members[k].doc.authorized =>
              \E w \in Workers :
                  /\ At(w, "setAuthorization", "save") /\ task'[w].pc # "save"
                  /\ task[w].k = k /\ members'[k].doc = task[w].doc]_vars

(* No two members of a network share an address, as long as administrators *)
(* assign none themselves: the result of a history of assignments, resets  *)
(* and deletions that overlap.                                             *)
AddressesUnique ==
    \A k1, k2 \in DOMAIN members :
        k1[1] = k2[1] /\ k1 # k2 => members[k1].doc.ips \cap members[k2].doc.ips = {}

(* A member gets at most one automatic address per family (ipam.go:13-14), *)
(* also when two of its configuration requests run at once.                *)
OneAddressPerFamily ==
    \A k \in DOMAIN members : \A a, b \in members[k].doc.ips :
        a.family = b.family => a = b

(* ipamMu is held exactly by a request inside the automatic assignment:   *)
(* two requests are never inside together, and every path out of it, the   *)
(* failing ones included, releases the mutex (ipam.go:26-77).              *)
AssignmentExclusive ==
    \A w \in Workers :
        ipamMu = w <=> task[w].pc \in {"ipamGet", "ipamList", "ipamSave", "ipamReget"}
=============================================================================
