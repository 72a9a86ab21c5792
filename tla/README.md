# A verification project for ZTGotroller

ZTGotroller is a ZeroTier network controller in Go. Administrators create
networks and authorize members over HTTP; agents ask for their network
configuration over UDP in ZeroTier's encrypted packets. This directory holds
TLA+ models of the parts of the program that keep state, the TLC configurations
that check them on small instances, and theorems with proofs for TLAPS.
`PROJECT.json` lists the components, the runs, the mutants, the map from
definitions to source lines, the hazards and the theorems.

    tlc -workers 2 -config transport_answers.cfg MCTransport     # one run
    tlapm SqliteStoreProofs.tla                                  # one set of proofs

## The system

| Component | State | Operations | Meets others through |
|---|---|---|---|
| Store (`internal/store`) | networks, members, agent metadata; each network and member row has a revision | create, save and delete with the expected revision, get, list, upsert metadata | calls from every request; one SQLite connection |
| Controller service (`internal/controller`) | `ipamMu`, nothing else | administration, registration, authorization, configuration requests, address assignment | several store calls per request, `onDeauthorize` callback |
| Legacy API (`internal/api/httpapi/legacy.go`) | none | partial updates without a revision, deletes, detailed listing | reads rows, then calls the service |
| Native API (`handler.go`, `auth.go`) | none | the service operations with a revision, `/metrics` | calls the service and the store |
| Configuration issuing (`zerotier/networkconfig`) | none | build and cut a dictionary, choose and sign credentials, parse | called by the service |
| Revocation broadcast (`transport/revocation.go`, the callback in `main.go`) | none | sign a revocation, build a datagram per member with a session, write them | runs inside the request that deauthorizes; store, registry, UDP socket |
| UDP loop and handler (`transport/udp.go`, `handler.go`) | the loop's datagram | one datagram at a time | registry, limiter, reassembler, controller |
| HELLO limiter (`transport/limiter.go`) | a table of token buckets | `allow` | called before any cryptography |
| Reassembler (`transport/reassembly.go`, `packet/fragment.go`) | incomplete packets by endpoint and packet ID | `push`, `expire` | fed by the UDP loop |
| Peer registry (`peer/registry.go`) | a session per node ID | register, learn, authenticate, prune | UDP loop, announcer and pruning ticker share it |
| Upstream manager (`transport/upstream.go`) | pending HELLOs, status per target | announce, handle the OK | its own goroutine, and the UDP loop |
| Process (`cmd/ztgotroller/main.go`) | context, worker results | start, signal, shutdown | all goroutines |
| Identity file (`identity/file.go`) | a file | load or create | processes started on one path |
| Backup (`cmd/ztgotroller-backup`, `sqlite.Open`) | database, output directory | open, migrate, copy | a running controller, other runs |

What is hard in it:

- A service operation is several store calls. Between two of them every other
  request may run, or the context may be cancelled. Revisions, not locks, are
  what keeps one request from undoing another; only address assignment has a
  mutex.
- A store operation of SQLite is up to two statements.
- The registry is shared by three goroutines, and `Authenticate` takes its lock
  twice. Datagrams are lost, repeated, reordered and late.
- Tables of fixed size (sessions, reassembly slots, buckets, pending HELLOs)
  reach their limits.
- Certificates and their revocations are ordered by wall-clock times that are
  read in different requests.
- A configuration is put together from rows read at different moments, and
  written in a text format whose separators may appear in the values.
- Processes are killed while they write an identity, migrate or back up.
- Shutdown collects results from workers that may have failed meanwhile.

## Modules

| Module | Models | State and actions |
|---|---|---|
| `Tables` | effect of every store mutation (`memory.go` between Lock and Unlock; the SQL effects with their cascades) | `networks`, `members`, `metadata`; one operator per mutation |
| `StoreCalls` | clients of a store: the interface of `store.go` | `clients`: call in progress, reply, rows read |
| `Store` | **abstract specification**: a call takes effect, or is refused, in one step between call and return | `Mutate`, `Read`, `Refuse` |
| `SqliteStore` | `sqlite.go`, one SQL statement per step | `stmt`: the next statement of each call; one action per statement |
| `SqliteStoreProofs` | theorems about `Tables` and `SqliteStore` | |
| `Ipam` | `firstAvailableAddress` and helpers as operators | |
| `Dictionary` | `dictionary.go`, `chunk.go` and the reader in `request.go` as operators: escaping, numbers, chunks, parsing | |
| `Credentials` | `policy_credentials.go`, `ownership.go`: which capabilities and tags a member is issued, and what is refused | |
| `Controller` | `service.go`, `admin.go`, `config.go`, `ipam.go`, one store call per step; uses the three modules above | `task`: the local variables of each request; `ipamMu`; `configs`: what an observed agent reads in the chunks it received; `unrevoked`: history |
| `Revocation` | composes `Controller` with the clock, the sessions, the UDP socket and the callback of a deauthorization | `stamp`: the time a request has read; `broadcast`: the callback of each request; `issued`, `announced`, `overtaken`: history |
| `LegacyApi` | `legacy.go` with the service operations it calls; other writers as single steps | `request`: local variables and answer; `held`: history |
| `HelloLimiter`, `HelloLimiterProofs` | `limiter.go` | `buckets`, `window` (history of one stretch of time) |
| `Reassembly` | `fragment.go` and `reassembly.go` over a bad network | `partial`, and `sent`/`delivered` as history; `Send`, `Push`, `Tick` |
| `PeerRegistry` | `registry.go`: each critical section an operator | `sessions`, `lastPrune` |
| `Transport` | composes the registry with the UDP loop, the announcer and the pruning ticker | `loop`, `announcer`, `pending`, `status`; one action per critical section or socket call |
| `Lifecycle` | `main.go`: workers, signals, shutdown | `main`, `http`, `udp`, `stopped`, `workersRemaining` |
| `IdentityFile` | `file.go` | `file`, `temporary`, `pc` per process |
| `Backup` | composes `IdentityFile` with `sqlite.Open` and its migration, and `ztgotroller-backup` | `database`, `writing`, `identity`, `output`, `pc` per process |
| `ControllerProofs` | theorems about `Controller`, `Revocation` and what they use | |
| `LegacyApiProofs`, `TransportProofs`, `ReassemblyProofs`, `LifecycleProofs`, `BackupProofs` | theorems about the modules they are named after (`TransportProofs` includes `PeerRegistry`, `BackupProofs` includes `IdentityFile`) | |
| `MC...` | constants of the instances | |

`Controller` and `LegacyApi` use `Tables` through `INSTANCE`: a store call there
is the atomic effect that `Store` promises and `SqliteStore` is proved to keep.

Data are abstracted to what the properties tell apart. A document is opaque in
`Tables`, a record of the fields that decide something in `Controller`, and a
function from a few fields to "set or not" in `LegacyApi`. A dictionary is a sequence of
symbols: the characters of names and numbers, and opaque symbols for serialized
lists and credentials. An identity stands
for its key pair: only its holder makes a packet that authenticates, but a copy of
one may arrive again, at any time and from any address. A packet is
the range of its offsets. Requests that are refused before their first write,
datagrams that do not parse or decrypt, and final reads that only fetch an answer
change no state and are left out.

In the process, only the UDP loop asks for configurations, one at a time, and
`Revocation` keeps to that. The service itself is written for concurrent callers
(`ipam_test.go:20-36` runs several goroutines), so `Controller` lets several
configuration requests run at once; `ipamMu` has no other purpose.

Operators like `RefilledTwice` or `IpamLockUnguarded`, defined right before the
definition they resemble, are faulty variants. Putting one in the place of the
real definition must make TLC find the property violated that it is listed with
under "mutants": each property depends on the code it is about.

## Runs

| Run | Checks | Instance, and why it is enough |
|---|---|---|
| `sqlite_store` | `TypeOK`; `ReferentialIntegrity`; `RevisionsCountWrites`; refinement `ImplementsContract`; liveness `CallsReturn` | two clients, one network and node, two member documents, revisions to 2, calls failing anywhere. Every operation has at most two statements, so two clients give every interleaving of two calls; the theorems cover any number |
| `hello_limiter` | `TypeOK`; `RateBound`: at most a burst and one HELLO per second in every stretch of time; `NoTokenLost` | two slots, half-second ticks, burst 2, forgetting after 5 ticks, 8 ticks: refill, ceiling, forgetting and shared slots all happen |
| `reassembly` | `MemoryBounded`, `BytesAccounted`, `PartialsWellFormed`, `ExpiresInTime`, `DeliversWholePackets` | MTU 4, packets of one to three datagrams with and without a short last one, one too long, strays that break each rule, two slots for five keys |
| `transport_sessions` | `UpstreamsKept`, `SessionsBounded`, `EndpointAuthenticated`, `IdentityPinned`, `ActiveNotEvicted` | one upstream, three agents competing for two sessions, another identity with the node ID of the upstream and of an agent; also a configuration that lists both; every packet from either of two endpoints. Time passes only between pieces of work (`MaxDelay = 0`), and sessions expire within the run |
| `transport_answers` | `SuccessOncePerHello`, `PendingBounded` | two upstreams that can be reached at one endpoint, of which one answers, with any HELLO ID and any time that was sent, for itself or for the silent one, from the right endpoint or another; another identity with its node ID; answers lost, repeated and late; every piece of work may take a tick; three rounds |
| `controller_config` | `RevisionIdentifiesContent`, `SpecialistsRefreshed`, `CredentialsEntitled`, `AuthorizationOnlyOnRequest` | two requests at a time out of configuration, role, authorization and network updates; two network documents that differ in name, routes, nested routes, capabilities and tags, with every special character in the names; dictionaries of several chunks, with and without a short last one; member capabilities beyond the limit of two; revision arithmetic at its ceiling (`MaxUint = 4`) |
| `controller_ipam` | `AddressesUnique`, `OneAddressPerFamily`, `AssignmentExclusive` | two nodes and as many usable IPv4 addresses, one IPv6 address for both; networks and members deleted and created again, addresses reset, calls failing anywhere |
| `controller_revocation` | *violation* of `DeauthorizationRevoked` | see below |
| `revocation` | `ReauthorizationHolds`, `UnentitledOnlyInFlight`, `RevocationReachesMembers` | a member that loses and regains its authorization (revisions 2 to 4) and one that has only a session; two requests at a time, two instants, sessions that come and go at any moment, a socket that closes, store calls that fail |
| `legacy` | `AcknowledgedPatchApplied`, `PatchKeepsOtherFields` | one POST, DELETE or scan with every other writer between any two of its store calls; the other writers stand for further legacy requests too |
| `backup` | `SchemaComplete`, `NeverDowngraded`, `BackupComplete`, `FailureLeavesNothing`, `OneIdentity` | two controllers, each started up to twice, and two backup runs with one output path; no identity at first; databases of version 0 to 3; every process may fail or be killed anywhere |
| `lifecycle` | `DatabaseOutlivesWorkers`, `WorkerErrorsReported`, liveness `Terminates` | the complete state space with two HTTP requests in flight |

Bounds are constants: `MaxRevision` (no change of a row is requested beyond it),
`MaxTime`, `MaxClock`, `MaxDelay`, `MaxRows`, `MaxStarts`, `MaxRequests`. `MaxRevision`
leaves room for at least one change of a row after it was read, which is what makes a
revision stale: one change of a member in `controller_config` and `controller_ipam`
(where it starts at 2 and the bound is 3; members registered during `controller_ipam`
start at 1) and two of a network, two of a member in `revocation`, where it loses and
regains its authorization, and two in `legacy`. The theorems have no such bound.
`MaxTime` exceeds the timeout the run's properties depend on (expiry of sessions,
slots, buckets and pending HELLOs). `MaxClock = 2` tells a COM from the same
instant as a transition from one of a later instant, which is all the properties
compare. Limits of the code are constants as well.
`MaxChunkData`, `MaxIssuedCapabilities`, `MaxCapabilityRules` and `MaxUint` (with
`Radix`, the width of numbers) are small enough to be exceeded in a `controller_*`
run; `MaxIssuedTags` and `MaxIPAMPoolScan` are reached; `MaxOwnershipThings`,
`MaxNetworkSpecialists` and `MaxDictionaryLength`, which only refuse, are not.
Requests in the `controller_*` and `revocation` runs are symmetric
(`Permutations(Workers)`), as are the controllers and the tools of `backup`, and the
second and third agent of `transport_sessions`, each with its node ID; the
runs with liveness properties use no symmetry.

Deadlock is checked in the store, limiter, reassembly, controller and revocation
runs. The others contain processes that end.

### Fairness

- `SqliteStore`: weak fairness of every client's next statement. A goroutine
  inside a call goes on, and `database/sql` hands the one connection round.
- `Lifecycle`: weak fairness of main and of the end of each worker once it is told
  to stop. Nothing is assumed of signals, failures or requests; in particular a
  request need not end, which is why the shutdown timeout matters.

No other run assumes fairness. In `Controller` the only thing a request can wait
for is `ipamMu`, and `AssignmentExclusive` says it is always held by a request
that is still inside the assignment.

### Observed behaviours

`controller_revocation` records a disagreement with a document.
`SetMemberAuthorization` persists a deauthorization and calls `onDeauthorize`
only if the later `bumpNetworkRevision` and `GetMember` succeed. If one of them
fails the revocation is never announced, and a repeated request finds the member
already unauthorized. `docs/SCHEMA.md:60-61` says that deauthorization "persists
the member transition first and then emits a signed COM revocation".

Further behaviours came up while the properties were being stated. Those that
break a property are left out of the passing runs by their constants or by an
exception in the property, and are listed among the hazards; the others contradict
nothing that is promised:

- *Role change half done* (`admin.go:213`). If the store call that advances the
  network revision fails after the role was saved, no agent is refreshed, and a
  repeated request sees no change. `controller_config` with
  `CallsMayFail = TRUE` violates `SpecialistsRefreshed`.
- *Specialist deleted after the bump* (`admin.go:151`). An agent that asks
  between the two calls keeps the deleted specialist under the current revision.
  `controller_config` with `"deleteMember"` violates `SpecialistsRefreshed`.
- *Explicit address during assignment* (`ipam.go:68`). `UpdateMember` does not
  take `ipamMu` and writes another row, so an address can be given twice.
  `AddressesUnique` is therefore stated for administrators who assign none, and
  `controller_ipam` with an address of the pool in `MemberUpdates` violates it.
- *Revisions start again at 1* (`service.go:187`, `legacy.go:518`). A row that is
  deleted and created again can reach the revision a request read from its
  predecessor; the stale save then succeeds. `controller_ipam` with
  `"setAuthorization"` violates `AddressesUnique` (a re-registered member gets
  back addresses that now belong to another), `controller_config` with
  `"deleteMember"` violates `AuthorizationOnlyOnRequest` (an `UpdateMember` begun
  before the deletion brings the authorization back) and
  `RevisionIdentifiesContent` (the sum of revisions repeats), and
  `PatchKeepsOtherFields` needs its exception for rows deleted during the request.
- *Certificates a revocation does not reach* (`service.go:186`). A configuration
  request that read the member before the deauthorization was saved still issues
  a COM, dated when its reply is put together. It is newer than the threshold, so
  the revocation does not cover it, and it holds until it expires.
  `UnentitledOnlyInFlight` says that no other request obtains one.
- *The same millisecond* (`service.go:182-186`). Thresholds and COMs are dated in
  milliseconds. A COM issued after a new authorization in the millisecond of the
  transition is as old as the threshold; `ReauthorizationHolds` allows it.
- *Broadcast without effect* (`main.go:87-94`). The callback uses the context of
  the HTTP request and the UDP socket of the process: if the client has hung up or
  the process is shutting down, the revocation is only logged and never repeated.
- *Deletion announces nothing* (`admin.go:106-157`). Deleting an authorized member
  or its network sends no revocation.
- *Stored but not issuable* (`ownership.go:48`, `policy_credentials.go:139`,
  `config.go:169`). What validation accepts may exceed a limit of the encoders;
  the member's requests then fail without an answer until it is changed.
- *Undefined capabilities count* (`policy_credentials.go:48`). The list is cut at
  its limit before IDs without a definition are passed over, so that a member may
  get fewer capabilities than the limit allows; `CredentialsEntitled` claims all
  of them only below the limit.
- *Shared parts of copies* (`memory.go:262`). Copies of the in-memory store share
  `AuthTokens` and the defaults of tags with the stored row, where
  `docs/SCHEMA.md:80` says "isolated copies on reads and writes". The service
  changes neither in place.
- *Late answer* (`upstream.go:214`). The OK to an older HELLO clears the pending
  flag of its target although a newer HELLO is unanswered. The flag is only
  reported.
- *Mismatching answer* (`upstream.go:215-222`). An OK that names a pending HELLO
  removes it before it is compared with it: one from another upstream or another
  endpoint is refused, and the right answer that follows it is refused too. The
  next round announces again.
- *Endpoints are not remembered* (`registry.go:222-229`, `handler.go:147`). The code
  keeps no record of packets it has seen, and a session follows the address its
  latest packet came from, as ZeroTier's peers roam. A copy of a packet that arrives
  from another address therefore moves the session there, until the peer is heard
  again or, for an upstream, the next announcement. The model has such copies, and
  `EndpointAuthenticated` claims no more than what holds with them: it takes a
  packet of the session's own identity to create, move or refresh it.
- *Upstreams beyond the limit* (`registry.go:134`). The limit on sessions is
  compared with all sessions, but a configured upstream is registered whatever their
  number, and its HELLO turns its session into a learned one. Such a session may be
  above the limit until the next announcement; `SessionsBounded` counts the
  sessions of agents and leaves upstreams out by their node ID.
- *Removal that fails* (`ztgotroller-backup/main.go:44`). The error of the cleanup is
  ignored, so that a failed run may leave its directory, or part of it, and the next
  one fails at its mkdir. `FailureLeavesNothing` excepts the case.
- *Backup migrates* (`ztgotroller-backup/main.go:47`). The tool opens the database
  as the controller does: it migrates an older one in place, and creates one where
  there is none.
- *Version read early* (`sqlite.go:73`). A later release that migrated between the
  comparison of versions and the transaction would be stamped back to version 2;
  no such release exists yet.
- *Half a patch* (`legacy.go:446`). An error answer may follow a saved update whose
  authorization was refused.
- *Metrics during a delete* (`handler.go:111`). A network deleted while
  `/metrics` counts makes the scan end with not found, and `ztgotroller_up`
  is reported as 0.

## Proofs

The theorems hold for every value of the constants that satisfies the named
assumptions: any sets of networks, nodes, requests, clients, packets or
processes, and any limits and times. Every safety property of a passing run is
a theorem. TLC evaluates the assumptions in the runs;
the hypotheses that some theorems have besides are listed with them.

An operation is proved in two stages wherever a module has many actions. Lemmas
first say what each action does to the tables and to the local variables of its
request (the nine outcomes of `ControllerProofs`, `Moves` and `Begins` of
`LegacyApiProofs`, `SessionStep` of `TransportProofs`); the invariants are then
proved outcome by outcome.

Two components compute something by recursion over data: the bytes a slot keeps,
and the dictionary. The induction theorems of the library take a predicate as a
parameter, which the provers cannot instantiate, so these proofs use a least
counterexample instead (`LeastNatural`, from `WFMin` and
`NatLessThanWellFounded`): the set of the numbers for which a claim fails is a set
like any other, and its least element, were there one, contradicts the claim for
the one before. The same argument shows first that a recursive function exists at
all, as one for the first *k* arguments extends to *k* + 1 (`FlatExists`,
`EscapedExists`, `HexExists`, `ReadExists`, `TotalsExist`).

**Store** (`SqliteStoreProofs`). The mutations alone, in any order, keep
`TablesTypeOK`, `ReferentialIntegrity` and `RevisionsCountWrites`
(`TablesIntegrity`, `TablesRevisions`). Referential integrity is not inductive on
its own: metadata refers to a member and the member to a network, so the step
lemma needs the types of the keys, and deletion keeps it only because it cascades
through both tables. By cases over the statements, every step of `SqliteStore` is
one of these mutations, under exactly the guard it needs, or leaves the tables
alone (`SqliteRunsTables`); integrity and revisions carry over
(`SqliteIntegrity`, `SqliteRevisions`). `SqliteImplementsContract` is the
refinement: with the tables and clients mapped to themselves and `stmt` hidden,
every statement is a `Mutate`, `Read` or `Refuse` of `Store`, or a stutter. The
delicate steps are the second statements: a save that matched no row and finds
the row afterwards answers "conflict" at a moment when the contract allows it,
and a `CreateMember` whose network vanished after the check fails on the foreign
key. It needs `TypeOK` and nothing else as invariant.

**Limiter** (`HelloLimiterProofs`). `TypeOK` with `SpendingBound` is inductive, as
is `TypeOK` with `NoTokenLost` (`LimiterTypes`, `LimiterBounds`). `RateBound` alone
is not: it says nothing of the tokens still in the bucket. `SpendingBound` adds
what the bucket would yield now, and implies it (`LimiterRate`).
`CleanupAssumption`, that forgetting takes at least as long as filling (ten minutes
against four seconds in the code), is what makes a forgotten bucket harmless.

**Controller** (`ControllerProofs`). The invariants build on each other:

| Invariant | Says | Carries |
|---|---|---|
| `MutexInvariant` | `ipamMu` is held by the request inside the assignment | `MutexExclusive` (`AssignmentExclusive`) |
| `RowsInvariant` | rows, and the rows requests hold, are well formed; what a request will save was made from the row it holds | all below |
| `CopiesInvariant` | a row a request holds is older than the stored row or equal to it | `AuthorizationKept` (`AuthorizationOnlyOnRequest`) |
| `UniqueInvariant` | addresses of a network are disjoint, and what an assignment is about to save is free and stays free, as no other assignment can run | `AddressesStayUnique` (`AddressesUnique`) |
| `FamilyInvariant` | one address per family in every row, copy and document about to be saved | `OneAddressEach` (`OneAddressPerFamily`) |
| `NetworksInvariant` | the same as the first three for network rows | the next line |
| `ConfigsInvariant` | what an agent has was made from two copies at one moment, and from the members listed later | `RevisionsIdentify`, `SpecialistsFollow`, `CredentialsFollowRows` |

None of the properties is inductive: each speaks of rows, while the danger is in
what a request read some store calls ago. The last three theorems rest on a small
piece of arithmetic. The revision of a configuration is the sum of two revisions
less one; both copies are at most as new as the rows, so that equal sums mean that
both are current. This fails where the sum would wrap around, which
`ConfigRevisionFits` excludes as the code does.

Two more theorems join the service to the store. Every step of a request is a
mutation of `Tables` under the guard it needs (`ServiceMutates`), so the rows keep
referring to each other (`ServiceIntegrity`) and revisions count writes
(`ServiceRevisions`) whatever requests, deletions and failures overlap. The guard
matters where a read is old by the time of the write: a configuration request reads
the network store calls before `RegisterMember` creates the member. `InitialRowsAssumption` says that
the persisted rows obey the foreign keys.

Hypotheses of the others:

- `NoDeletions`, where revisions must identify contents: a row that is deleted and
  created again starts again at revision 1, and the properties are then false (see
  "Observed behaviours"). The runs of these properties have no deletions either.
  `AddressesStayUnique` needs either this or that authorizations do not change,
  the instance of `controller_ipam`.
- `AddressesAutomatic`: administrators assign no addresses themselves;
  `UpdatesOnePerFamily`: they do not assign two of a family. Both are the
  conditions under which the properties are meant.
- `~ CallsMayFail`, for `SpecialistsFollow` only (see *Role change half done*).

That an agent reads what was put into a configuration is no hypothesis but a
theorem, `ConfigReadsBack`, for every revision, name, list and chunk size:

- `Flattened`: `FlattenSeq` lays sequences one after the other, and every position
  belongs to one of them (`LayoutCovers`). Pieces of a value, lines of a dictionary
  and data of chunks are all put together by it.
- `ChunksAssemble`: the ranges of the chunks begin where the one before ends, and
  the last ends with the dictionary, also where its length is a multiple of the
  chunk size.
- `Unescaped`: an escaped value is made of blocks (`EscapedBlocks`), each a plain
  symbol, or a backslash and a letter. The delicate point is that a block never
  begins after an open backslash, although a backslash is also the letter of
  itself; nothing in a block is a separator or NUL (`EscapedClean`).
- `ParsedBack`: therefore the lines of the text are the lines of the entries
  (`SerializedLines`, `ReadLineAt`), whatever line breaks and equals signs the
  values hold. It needs distinct keys that are not special, as the code has them.
- `HexReadsBack`: the digits of a number at the beginning of a value read as the
  number (`HexReads`, by the least number for which they do not), and no
  intermediate result exceeds the width.
- `BuiltEntries`: `BuildDictionary` leaves out exactly the entries that are empty,
  and an absent key reads as empty.

Its only assumption is that names are sequences (`IsText`, in
`DocumentsAssumption`). TLC evaluates the same statement over two-digit numbers and
the names of the instance in the `revocation` run (`DictionaryReadsBackHere`).

**Revocation** (`ControllerProofs`). Every step of the composition is a step of
`Controller` or leaves its variables alone (`RevocationImplementsController`), so
the invariants above hold there. `ReachInvariant` (who is still due a datagram is
still to be looked up or has one ready) gives `BroadcastReaches`.
`ThresholdInvariant` gives `RevocationSpares` (`ReauthorizationHolds`): the time a
deauthorization reads is never in the future, and from the moment it is saved every
COM of a later row is as new as that. `InFlightInvariant` gives
`NoNewCOMAfterRevocation` (`UnentitledOnlyInFlight`): a request that was not
overtaken still holds what the row says. The last two assume `NoDeletions`.

**Legacy API** (`LegacyApiProofs`). `LegacyInvariant` says of each request where it
may be (`WellPlaced`), that what it is about to save has its patch (`Prepared`),
that what it has got past was in the row (`Applied`), and, as long as no row was
deleted while it ran, that the rows it holds are copies into which the patch was
merged (`HoldsCopies`). `AnsweredPatchesApplied` (`AcknowledgedPatchApplied`)
follows for any other writers, deletions included. `PatchesKeepOthers`
(`PatchKeepsOtherFields`) is the argument for optimistic concurrency: a copy that
passes the revision check is the row, so that saving all of it changes what the
patch names.

**Transport** (`TransportProofs`). `ShapeInvariant` places the goroutines and bounds
how late each is. With it:
`SeenInvariant` (a learned session was last seen when its peer was last heard) gives
`ActiveKept`; `IdentityKept` and `EndpointsAuthentic` follow from what each
critical section may do to a session, whatever arrives and from wherever;
`BoundedInvariant` gives `RegistryBounded`. `AnswerInvariant` (a pending HELLO is
unanswered, and not the one whose success is being recorded, which matches in node
ID, endpoint and time) and `PeerInvariant` give `AnsweredOnce`. The latter is about
identities, which the code does not compare: a HELLO is recorded only after its
target's session was registered, and that session keeps its identity as long as it
is there (`SessionStays`, from `KeptInvariant` below), so that an answer that is
authentic for the node ID comes from the target.
`KeptInvariant` gives `UpstreamsStay`: a learned upstream is registered again before
its session expires, counted out in the worst case of a round that starts late,
takes long and is followed by another late one. That is the assumption
`Interval + 4 * MaxDelay < SessionIdleTTL` (30 seconds against ten minutes).
`PendingInvariant` gives `PendingStaysBounded`: HELLOs of at most two rounds are
pending at once. It assumes that a round is over before the next is due
(`RoundsFit`: a few datagrams are written in less than 30 seconds), so that the
time of a round tells it from the others.

The attempt to prove `IdentityPinned` showed that its first version, under which
a session never changes its identity, was wrong: `Authenticate` replaces a learned
session that is still in the table but has expired. The property now says so, and
`transport_sessions` has room for the case.

**Reassembly** (`ReassemblyProofs`). `PartialsWellFormed` is inductive
(`SlotsWellFormed`). `MemoryInvariant` adds that the table is finite
(`MemoryStaysBounded`), `ExpiryInvariant` the types of the times
(`SlotsExpire`). `WholeInvariant` says that a slot holds pieces of one packet, each
in its place, whichever arrived; counting them is then enough to deliver the packet
(`WholePackets`). Its hypothesis `KeysUnique` is the condition of the protocol: a
sender does not use a packet ID twice at once, and nobody else sends from its
address. Without it two packets can be mixed, and the authentication that follows
rejects them. `AccountInvariant` gives `BytesAreAccounted` (`BytesAccounted`): the
counter of a slot is the sum of the sizes of what it keeps. The sum is a fold in an
order that is chosen, not known; `SumByElement` shows that any element may be taken
out first, by the least size of a set for which two orders disagree.
`PiecesAssumption` says that a datagram has a size and a piece is not the mark of an
empty place.

**Backup and identity** (`BackupProofs`). `IdentityInvariant` (what is about to be
linked is complete, what was returned is in the file) gives `IdentityUnique`.
`SchemaInvariant` (the version tells which tables exist, and what a process read
before its transaction is a lower bound) gives `SchemaMigrated` and
`DatabaseOnlyGrows`. `OutputInvariant` (the directory belongs to the run that made
it, with what that run has put there) gives `BackupSound` and `FailedRunCleansUp`.
`FilesAssumption` only says that the marks for a missing and a partial file are
not contents.

**Life cycle** (`LifecycleProofs`). `LifecycleInvariant` is an account: every worker
main still waits for is running or has its result in the channel. From it follow
`DatabaseSafe` and `ErrorsSurface`.

The remaining assumptions give constants their types, or say that initial rows,
documents and patches are well formed (`ControllerAssumption`,
`DocumentsAssumption`, `CredentialsAssumption`, `DictionaryAssumption`,
`PatchesAssumption`, `RegistryAssumption`, `PacketsAssumption`,
`InitialRowsAssumption`, `PiecesAssumption`, ...).

Only model-checked:

- liveness: `CallsReturn`, `Terminates`;
- `DeauthorizationRevoked`, which is false.

## Not modelled

- Cryptography, packet armor, signatures, and the byte formats of HELLO, of
  certificates (`membership.go`, `ownership.go`, `revocation.go`), of rules
  (`rules.go`) and of request metadata: transformations of bytes, tested by
  fixtures. The models assume they work. The dictionary is modelled because free
  text meets separators in it.
- Validation in `internal/domain`, JSON, routing, the token check, and the
  rendering and parsing of single legacy fields: stateless.
- That the in-memory store returns copies (`clone...`): Go values that share
  memory have no counterpart in the models, whose rows are values.
- How an agent puts chunks of different replies together: it is another program.
  `Assembled` is an agent that has all chunks of one reply.
- Loss of directory entries in a power failure.
- Errors reported after a change was made: an error of `RowsAffected`
  (`sqlite.go:363-366`, `401-404`, `423-426`), or a cancellation that the driver
  notices when the statement is done. That a refused store call has changed nothing,
  which `Store` promises and all callers' models use, rests on the driver here.
- Two paths that only refuse: the limit of 100000 attempts to draw a network ID
  (`service.go:63-78`) and the capitals in `HexUint` (`request.go:131-132`), which the
  dictionary's writer never produces.
- Scripts and container build.

## Plan

Done: all modules and runs above, and a theorem for every safety property the
passing runs check.

Next, in this order:

1. Theorems beyond the runs: the legacy API over `Controller` instead of its own
   copy of the service steps, and the deletions of `Controller` under the
   hypothesis that no request holds a copy of the deleted row, which would say
   precisely what the revisions that start again cost.
2. The in-memory store as a refinement of `Store`.
