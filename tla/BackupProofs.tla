---------------------------- MODULE BackupProofs ----------------------------
(***************************************************************************)
(* Theorems about the files on disk, for any sets of controllers and runs  *)
(* of the backup tool and any number of restarts.  Three invariants of     *)
(* their own carry the proofs: the identity file is installed once and     *)
(* then stays, the schema version tells which tables exist, and the output *)
(* directory belongs to the run that made it until that run has failed.    *)
(***************************************************************************)
EXTENDS Backup, TLAPS

USE BackupAssumption, FilesAssumption

-----------------------------------------------------------------------------
(* The identity file. *)

IdentityType ==
    /\ identity \in ID!Identities \cup {Missing}
    /\ temporary \in [Controllers -> ID!Identities \cup {Missing, Partial}]
    /\ loading \in [Controllers -> {"off", "load", "create", "write", "link", "running"}]
    /\ starts \in [Controllers -> 0 .. MaxStarts]
    /\ returned \subseteq ID!Identities

\* What is about to be linked is completely written, and what was returned was linked.
IdentityInvariant ==
    /\ IdentityType
    /\ \A p \in Controllers :
          /\ loading[p] # "off" => starts[p] \in 1 .. MaxStarts
          /\ loading[p] = "link" => temporary[p] = ID!Generated(p)
    /\ returned \subseteq {identity}

IdentityStepOf(p) == ID!Start(p) \/ ID!LoadOrCreate(p) \/ ID!Kill(p)

(* A step of LoadOrCreate, a start or a kill keeps the identity invariant, *)
(* and an identity that is in the file is never replaced.                  *)
LEMMA IdentityStep ==
    ASSUME IdentityInvariant,
           UNCHANGED secret \/ \E p \in Controllers : IdentityStepOf(p)
    PROVE  IdentityInvariant' /\ (identity # Missing => identity' = identity)
  <1> USE DEF IdentityInvariant, IdentityType, ID!Identities, ID!Generated
  <1>0. CASE UNCHANGED secret
    BY <1>0 DEF secret
  <1>s. SUFFICES ASSUME NEW p \in Controllers, IdentityStepOf(p)
                 PROVE  IdentityInvariant' /\ (identity # Missing => identity' = identity)
    BY <1>0
  <1>1. CASE ID!Start(p)
    BY <1>1 DEF ID!Start, ID!Goto
  <1>2. CASE ID!Load(p)
    BY <1>2 DEF ID!Load, ID!Use, ID!Goto
  <1>3. CASE ID!CreateTemporary(p)
    BY <1>3 DEF ID!CreateTemporary, ID!Goto
  <1>4. CASE ID!WriteTemporary(p)
    BY <1>4 DEF ID!WriteTemporary, ID!Goto
  <1>5. CASE ID!WriteFails(p)
    BY <1>5 DEF ID!WriteFails, ID!Fail, ID!Goto
  <1>6. CASE ID!Install(p)
    BY <1>6 DEF ID!Install, ID!Use, ID!Goto
  <1>7. CASE ID!InstallFails(p)
    BY <1>7 DEF ID!InstallFails, ID!Fail, ID!Goto
  <1>8. CASE ID!Kill(p)
    BY <1>8 DEF ID!Kill, ID!Goto
  <1> QED  BY <1>s, <1>1, <1>2, <1>3, <1>4, <1>5, <1>6, <1>7, <1>8
           DEF IdentityStepOf, ID!LoadOrCreate

(* Every step of a process leaves the identity's files alone or is a step  *)
(* of one controller on them.                                              *)
LEMMA IdentityActions ==
    ASSUME [Next]_vars
    PROVE  UNCHANGED secret \/ \E p \in Controllers : IdentityStepOf(p)
  <1> USE DEF Files
  <1>1. CASE UNCHANGED vars
    BY <1>1 DEF vars
  <1>2. ASSUME NEW p \in Processes,
               \/ OpenReadsVersion(p) \/ MigrateBegin(p) \/ OpenFails(p) \/ MigrateCommit(p)
               \/ WriteRow(p) \/ ReadIdentity(p) \/ Mkdir(p) \/ VacuumBegins(p)
               \/ VacuumEnds(p) \/ CopySecretBegins(p) \/ CopySecretEnds(p)
               \/ ToolStepFails(p) \/ Cleanup(p) \/ CleanupFails(p) \/ Restart(p)
        PROVE  UNCHANGED secret
    BY <1>2 DEF OpenReadsVersion, MigrateBegin, OpenFails, MigrateCommit, WriteRow,
                ReadIdentity, Mkdir, VacuumBegins, VacuumEnds, CopySecretBegins,
                CopySecretEnds, ToolStepFails, Cleanup, CleanupFails, Restart
  <1>3. ASSUME NEW p \in Processes,
               \/ ControllerStarts(p) \/ LoadOrCreateIdentity(p) \/ ControllerFails(p) \/ Kill(p)
        PROVE  UNCHANGED secret \/ (p \in Controllers /\ IdentityStepOf(p))
    BY <1>3 DEF ControllerStarts, LoadOrCreateIdentity, ControllerFails, Kill, IdentityStepOf
  <1> QED  BY <1>1, <1>2, <1>3 DEF Next

(* The identity invariant holds in every reachable state. *)
LEMMA IdentityInvariantHolds == Spec => []IdentityInvariant
  <1>1. Init => IdentityInvariant
    BY DEF Init, ID!Init, IdentityInvariant, IdentityType
  <1>2. IdentityInvariant /\ [Next]_vars => IdentityInvariant'
    BY IdentityActions, IdentityStep
  <1> QED  BY <1>1, <1>2, PTL DEF Spec

(* However many controllers start at once on one path, and wherever each   *)
(* is killed, all of them use the one identity that loadOrCreate of        *)
(* file.go linked first, and nobody ever reads an unfinished one.          *)
THEOREM IdentityUnique == Spec => []OneIdentity
  <1>1. IdentityInvariant => OneIdentity
    BY DEF IdentityInvariant, IdentityType, OneIdentity, ID!OneIdentity
  <1> QED  BY <1>1, IdentityInvariantHolds, PTL

-----------------------------------------------------------------------------
(* The schema. *)

UsesDatabase == {"opened", "vacuum", "copySecret", "sync", "succeeded"}

Labels == {"start", "identity", "open", "migrate", "commit", "opened", "mkdir", "vacuum",
           "copySecret", "sync", "failing", "failed", "uncleaned", "succeeded",
           "killed"}

SchemaType ==
    /\ database \in Contents
    /\ pc \in [Processes -> Labels]
    /\ read \in [Processes -> 0 .. 1]

\* The version tells which tables there are, and what a process has read of it before
\* its transaction is a lower bound that no other migration invalidates.
SchemaInvariant ==
    /\ SchemaType
    /\ database.version = 1 => {"networks", "members"} \subseteq database.tables
    /\ database.version >= 2 => Schema \subseteq database.tables
    /\ database.version < 3 => database.tables \subseteq Schema
    /\ \A p \in Processes :
          /\ pc[p] \in UsesDatabase => database.version = 2
          /\ pc[p] \in {"migrate", "commit"} =>
                database.version <= 2 /\ read[p] <= database.version

\* The steps of a process that leave the schema version it has read alone and do not
\* take it into or out of a migration.
Elsewhere(p) ==
    /\ UNCHANGED <<database, read>>
    /\ pc' \in [Processes -> Labels]
    /\ \A q \in Processes \ {p} : pc'[q] = pc[q]
    /\ pc'[p] \notin {"migrate", "commit"}
    /\ pc'[p] \in UsesDatabase => pc[p] \in UsesDatabase

(* The steps outside Open neither touch the schema nor begin to use it. *)
LEMMA ElsewhereActions ==
    ASSUME SchemaType, NEW p \in Processes,
           \/ ControllerStarts(p) \/ LoadOrCreateIdentity(p) \/ ControllerFails(p)
           \/ ReadIdentity(p) \/ Mkdir(p) \/ VacuumBegins(p) \/ VacuumEnds(p)
           \/ CopySecretBegins(p) \/ CopySecretEnds(p) \/ ToolStepFails(p) \/ Cleanup(p)
           \/ CleanupFails(p) \/ Restart(p)
    PROVE  Elsewhere(p)
  <1> USE DEF SchemaType, Elsewhere, Files, Goto, UsesDatabase, Labels
  <1>1. CASE ControllerStarts(p)
    BY <1>1 DEF ControllerStarts
  <1>2. CASE LoadOrCreateIdentity(p)
    BY <1>2 DEF LoadOrCreateIdentity
  <1>3. CASE ControllerFails(p)
    BY <1>3 DEF ControllerFails
  <1>4. CASE ReadIdentity(p)
    BY <1>4 DEF ReadIdentity
  <1>5. CASE Mkdir(p)
    BY <1>5 DEF Mkdir
  <1>6. CASE VacuumBegins(p)
    BY <1>6 DEF VacuumBegins
  <1>7. CASE VacuumEnds(p)
    BY <1>7 DEF VacuumEnds
  <1>8. CASE CopySecretBegins(p)
    BY <1>8 DEF CopySecretBegins
  <1>9. CASE CopySecretEnds(p)
    BY <1>9 DEF CopySecretEnds
  <1>10. CASE ToolStepFails(p)
    BY <1>10 DEF ToolStepFails
  <1>11. CASE Cleanup(p)
    BY <1>11 DEF Cleanup
  <1>12. CASE CleanupFails(p)
    BY <1>12 DEF CleanupFails
  <1>13. CASE Restart(p)
    BY <1>13 DEF Restart
  <1> QED  BY <1>1, <1>2, <1>3, <1>4, <1>5, <1>6, <1>7, <1>8, <1>9, <1>10, <1>11, <1>12, <1>13

(* What the migration makes of a database whose version it has read as a   *)
(* lower bound: the current version, all tables, nothing lost.             *)
LEMMA MigratedComplete ==
    ASSUME SchemaInvariant, NEW seen \in 0 .. 1, seen <= database.version,
           database.version <= 2
    PROVE  /\ Migrated(seen) \in Contents
           /\ Migrated(seen).version = 2
           /\ Migrated(seen).tables = Schema
           /\ Migrated(seen).rows = database.rows
  <1>1. /\ database \in Contents
        /\ database.version \in Nat /\ database.rows \in Nat
    BY DEF SchemaInvariant, SchemaType, Contents
  <1>2. database.tables \subseteq Schema
    BY <1>1 DEF SchemaInvariant
  <1> DEFINE new == database.tables \cup (IF seen = 0 THEN Schema ELSE {})
                                    \cup (IF seen < 2 THEN {"agent_metadata"} ELSE {})
  <1>3. new = Schema
    <2>1. seen < 2
      OBVIOUS
    <2>2. CASE seen = 0
      BY <1>2, <2>1, <2>2 DEF Schema
    <2>3. CASE seen = 1
      <3>1. database.version = 1 \/ database.version >= 2
        BY <1>1, <2>3
      <3>2. {"networks", "members"} \subseteq database.tables
        BY <3>1 DEF SchemaInvariant, Schema
      <3> QED  BY <1>2, <2>1, <2>3, <3>2 DEF Schema
    <2> QED  BY <2>2, <2>3
  <1>4. Migrated(seen) = [database EXCEPT !.version = 2, !.tables = new]
    <2>1. ASSUME NEW A, NEW B
          PROVE  [database EXCEPT !.version = 2, !.tables = @ \cup A \cup B] =
                 [database EXCEPT !.version = 2, !.tables = database.tables \cup A \cup B]
      BY <1>1 DEF Contents
    <2> QED  BY <2>1 DEF Migrated, CurrentSchemaVersion
  <1> HIDE DEF new
  <1>5. ASSUME NEW A
        PROVE  /\ [database EXCEPT !.version = 2, !.tables = A].version = 2
               /\ [database EXCEPT !.version = 2, !.tables = A].tables = A
               /\ [database EXCEPT !.version = 2, !.tables = A].rows = database.rows
    BY <1>1 DEF Contents
  <1>6. [database EXCEPT !.version = 2, !.tables = Schema] \in Contents
    BY <1>1 DEF Contents, Schema
  <1> QED  BY <1>3, <1>4, <1>5, <1>6

(* Every step keeps the schema invariant and never lowers the database. *)
LEMMA SchemaStep ==
    ASSUME SchemaInvariant, [Next]_vars
    PROVE  /\ SchemaInvariant'
           /\ database'.version >= database.version
           /\ database.tables \subseteq database'.tables
           /\ database'.rows >= database.rows
  <1> USE DEF SchemaInvariant, SchemaType
  <1>t. /\ database.version \in Nat /\ database.rows \in Nat
        /\ database = [version |-> database.version, tables |-> database.tables,
                       rows |-> database.rows]
    BY DEF Contents
  <1>0. CASE UNCHANGED vars
    BY <1>0, <1>t DEF vars
  <1>1. ASSUME NEW p \in Processes, OpenReadsVersion(p)
        PROVE  SchemaInvariant' /\ UNCHANGED database
    BY <1>1, <1>t DEF OpenReadsVersion, Files, Goto, CurrentSchemaVersion, UsesDatabase, Labels
  <1>2. ASSUME NEW p \in Processes, MigrateBegin(p)
        PROVE  SchemaInvariant' /\ UNCHANGED database
    BY <1>2, <1>t DEF MigrateBegin, Goto, UsesDatabase, Labels
  <1>3. ASSUME NEW p \in Processes, OpenFails(p)
        PROVE  SchemaInvariant' /\ UNCHANGED database
    BY <1>3, <1>t DEF OpenFails, Goto, UsesDatabase, Labels
  <1>4. ASSUME NEW p \in Processes, MigrateCommit(p)
        PROVE  /\ SchemaInvariant'
               /\ database'.version >= database.version
               /\ database.tables \subseteq database'.tables
               /\ database'.rows >= database.rows
    <2>1. read[p] \in 0 .. 1 /\ read[p] <= database.version /\ database.version <= 2
      BY <1>4, <1>t DEF MigrateCommit
    <2>2. /\ database' \in Contents
          /\ database'.version = 2
          /\ database'.tables = Schema
          /\ database'.rows = database.rows
      BY <1>4, <2>1, MigratedComplete DEF MigrateCommit
    <2>3. \A q \in Processes : read'[q] \in 0 .. 1
      BY <1>4 DEF MigrateCommit
    <2>4. read' \in [Processes -> 0 .. 1] /\ pc' \in [Processes -> Labels]
      BY <1>4 DEF MigrateCommit, Goto, Labels
    <2>5. SchemaInvariant'
      BY <2>2, <2>3, <2>4
    <2> QED  BY <1>t, <2>1, <2>2, <2>5
  <1>5. ASSUME NEW p \in Processes, WriteRow(p)
        PROVE  /\ SchemaInvariant'
               /\ database'.version >= database.version
               /\ database.tables \subseteq database'.tables
               /\ database'.rows >= database.rows
    <2>1. database' = [version |-> database.version, tables |-> database.tables,
                       rows |-> database.rows + 1]
      BY <1>5, <1>t DEF WriteRow
    <2>2. database' \in Contents
      BY <1>t, <2>1 DEF Contents
    <2> QED  BY <1>5, <1>t, <2>1, <2>2 DEF WriteRow
  <1>6. ASSUME NEW p \in Processes, Kill(p)
        PROVE  SchemaInvariant' /\ UNCHANGED database
    BY <1>6, <1>t DEF Kill, Goto, UsesDatabase, Labels
  <1>7. ASSUME NEW p \in Processes, Elsewhere(p)
        PROVE  SchemaInvariant' /\ UNCHANGED database
    BY <1>7, <1>t DEF Elsewhere
  <1> QED  BY <1>0, <1>1, <1>2, <1>3, <1>4, <1>5, <1>6, <1>7, <1>t, ElsewhereActions DEF Next

(* The schema invariant holds in every reachable state. *)
LEMMA SchemaInvariantHolds == Spec => []SchemaInvariant
  <1>1. Init => SchemaInvariant
    BY DEF Init, Databases, Contents, Schema, SchemaInvariant, SchemaType, UsesDatabase, Labels
  <1>2. SchemaInvariant /\ [Next]_vars => SchemaInvariant'
    BY SchemaStep
  <1> QED  BY <1>1, <1>2, PTL DEF Spec

(* Whoever got past sqlite.Open uses a database of the current version     *)
(* with all its tables, however many processes migrate it at once from     *)
(* versions they read before their transaction.                            *)
THEOREM SchemaMigrated == Spec => []SchemaComplete
  <1>1. SchemaInvariant => SchemaComplete
    BY DEF SchemaInvariant, SchemaComplete, CurrentSchemaVersion, UsesDatabase
  <1> QED  BY <1>1, SchemaInvariantHolds, PTL

(* No migration and no write lowers the version, drops a table or loses a  *)
(* row.                                                                    *)
THEOREM DatabaseOnlyGrows == Spec => NeverDowngraded
  <1>1. SchemaInvariant /\ [Next]_vars =>
            [/\ database'.version >= database.version
             /\ database.tables \subseteq database'.tables
             /\ database'.rows >= database.rows]_vars
    BY SchemaStep
  <1> QED  BY <1>1, SchemaInvariantHolds, PTL DEF Spec, NeverDowngraded

-----------------------------------------------------------------------------
(* The output directory. *)

\* A run has the directory it made until it has failed or was killed.
Holding == {"open", "migrate", "commit", "opened", "vacuum", "copySecret", "sync", "failing",
            "succeeded"}

OutputType ==
    /\ output \in Backups \cup {Missing}
    /\ snapshot \in [Tools -> Contents \cup {Missing}]
    /\ since \in [Tools -> Nat]

\* A complete copy of a state the database had since the run started.
CopyFor(p, copy) ==
    /\ copy \in Contents
    /\ copy.tables = Schema
    /\ since[p] <= copy.rows /\ copy.rows <= database.rows

OutputOf(p) ==
    /\ since[p] <= database.rows
    /\ pc[p] \in Holding => output # Missing /\ output.owner = p
    /\ pc[p] \in {"start", "mkdir", "failed"} => output = Missing \/ output.owner # p
    /\ pc[p] \in Holding \cup {"mkdir"} => identity # Missing
    /\ pc[p] = "vacuum" => CopyFor(p, snapshot[p])
    /\ pc[p] \in {"copySecret", "sync", "succeeded"} => CopyFor(p, output.database)
    /\ pc[p] = "succeeded" => output.identity = identity

OutputInvariant == OutputType /\ \A p \in Tools : OutputOf(p)

(* A run that a step does not concern keeps what it has: the database only *)
(* grows, the identity stays, and the directory is not touched.            *)
LEMMA OthersKeep ==
    ASSUME SchemaInvariant, SchemaInvariant', OutputInvariant, NEW q \in Tools,
           identity # Missing => identity' = identity,
           database'.rows >= database.rows,
           pc'[q] = pc[q], since'[q] = since[q], snapshot'[q] = snapshot[q], output' = output
    PROVE  OutputOf(q)'
  <1>1. /\ database.rows \in Nat /\ database'.rows \in Nat
        /\ since[q] \in Nat
    BY DEF SchemaInvariant, SchemaType, Contents, OutputInvariant, OutputType
  <1>2. ASSUME NEW copy, CopyFor(q, copy)
        PROVE  /\ copy \in Contents
               /\ copy.tables = Schema
               /\ since'[q] <= copy.rows /\ copy.rows <= database'.rows
    BY <1>1, <1>2 DEF CopyFor, Contents
  <1>3. OutputOf(q)
    BY DEF OutputInvariant
  <1>4. since'[q] <= database'.rows
    BY <1>1, <1>3 DEF OutputOf
  <1>5. /\ pc[q] = "vacuum" => CopyFor(q, snapshot[q])'
        /\ pc[q] \in {"copySecret", "sync", "succeeded"} => CopyFor(q, output.database)'
    BY <1>2, <1>3 DEF OutputOf, CopyFor
  <1> QED  BY <1>3, <1>4, <1>5 DEF OutputOf, Holding

(* Every step keeps the output invariant.  The steps that change the       *)
(* directory are those of the run that owns it, or mkdir when there is     *)
(* none, so no other run holds it.                                         *)
LEMMA OutputStep ==
    ASSUME IdentityInvariant, SchemaInvariant, SchemaInvariant', OutputInvariant, [Next]_vars
    PROVE  OutputInvariant'
  <1>a. /\ identity # Missing => identity' = identity
        /\ database'.rows >= database.rows
    BY IdentityActions, IdentityStep, SchemaStep
  <1>b. /\ database.rows \in Nat /\ database'.rows \in Nat
        /\ database \in Contents
        /\ pc \in [Processes -> Labels]
        /\ identity \in ID!Identities \cup {Missing}
    BY DEF SchemaInvariant, SchemaType, Contents, IdentityInvariant, IdentityType
  <1>0. CASE UNCHANGED vars
    BY <1>0, OthersKeep, <1>a DEF vars, OutputInvariant, OutputType, secret
  <1>s. SUFFICES ASSUME NEW p \in Processes,
                   \/ OpenReadsVersion(p) \/ MigrateBegin(p) \/ OpenFails(p) \/ MigrateCommit(p)
                   \/ ControllerStarts(p) \/ LoadOrCreateIdentity(p) \/ WriteRow(p)
                   \/ ControllerFails(p) \/ ReadIdentity(p) \/ Mkdir(p) \/ VacuumBegins(p)
                   \/ VacuumEnds(p) \/ CopySecretBegins(p) \/ CopySecretEnds(p)
                   \/ ToolStepFails(p) \/ Cleanup(p) \/ CleanupFails(p) \/ Kill(p) \/ Restart(p)
                 PROVE  OutputInvariant'
    BY <1>0 DEF Next
  <1>o. p \in Tools => OutputOf(p) /\ since[p] \in Nat
    BY DEF OutputInvariant, OutputType
  \* Steps that leave the directory and what is copied alone.
  <1>1. ASSUME UNCHANGED <<output, since, snapshot>>,
               \A q \in Processes \ {p} : pc'[q] = pc[q],
               p \in Tools => OutputOf(p)'
        PROVE  OutputInvariant'
    <2>1. \A q \in Tools : q # p => OutputOf(q)'
      BY <1>1, <1>a, OthersKeep DEF Processes
    <2> QED  BY <1>1, <2>1 DEF OutputInvariant, OutputType
  \* Steps of a run that owns the directory before and after.
  <1>2. ASSUME p \in Tools, pc[p] \in Holding, output' \in Backups \cup {Missing}, UNCHANGED since,
               snapshot' \in [Tools -> Contents \cup {Missing}],
               \A q \in Processes \ {p} : pc'[q] = pc[q],
               \A q \in Tools \ {p} : snapshot'[q] = snapshot[q],
               output' = Missing \/ output'.owner = p,
               UNCHANGED <<database, identity>>, OutputOf(p)'
        PROVE  OutputInvariant'
    <2>1. ASSUME NEW q \in Tools, q # p
          PROVE  OutputOf(q)'
      <3>1. OutputOf(q) /\ pc'[q] = pc[q] /\ q \in Processes
        BY <1>2, <2>1 DEF OutputInvariant, Processes
      <3>2. pc[q] \notin Holding
        BY <1>2, <1>o, <2>1, <3>1 DEF OutputOf
      <3> QED  BY <1>2, <2>1, <3>1, <3>2 DEF OutputOf, Holding
    <2> QED  BY <1>2, <2>1 DEF OutputInvariant, OutputType
  <1>3. ASSUME p \notin Tools, UNCHANGED <<output, since, snapshot>>,
               \A q \in Processes \ {p} : pc'[q] = pc[q]
        PROVE  OutputInvariant'
    BY <1>1, <1>3
  <1>4. CASE OpenReadsVersion(p) \/ MigrateBegin(p) \/ OpenFails(p)
    <2>1. /\ UNCHANGED <<output, since, snapshot, identity, database>>
          /\ \A q \in Processes \ {p} : pc'[q] = pc[q]
          /\ pc[p] \in {"open", "migrate", "commit"}
          /\ pc'[p] \in {"failing", "migrate", "opened", "commit"}
      BY <1>4, <1>b DEF OpenReadsVersion, MigrateBegin, OpenFails, Goto, Files, secret
    <2> QED  BY <1>1, <1>o, <2>1 DEF OutputOf, Holding
  <1>5. CASE MigrateCommit(p)
    <2>1. /\ UNCHANGED <<output, since, snapshot, identity>>
          /\ \A q \in Processes \ {p} : pc'[q] = pc[q]
          /\ pc[p] = "commit" /\ pc'[p] = "opened"
      BY <1>5, <1>b DEF MigrateCommit, Goto, secret
    <2>2. p \in Tools => since[p] <= database'.rows
      BY <1>a, <1>b, <1>o DEF OutputOf
    <2> QED  BY <1>1, <1>o, <2>1, <2>2 DEF OutputOf, Holding
  <1>6. CASE ControllerStarts(p) \/ LoadOrCreateIdentity(p) \/ WriteRow(p) \/ ControllerFails(p)
             \/ Restart(p)
    <2>1. /\ UNCHANGED <<output, since, snapshot>>
          /\ \A q \in Processes \ {p} : pc'[q] = pc[q]
          /\ p \in Controllers
      BY <1>6, <1>b DEF ControllerStarts, LoadOrCreateIdentity, WriteRow, ControllerFails, Restart,
                        Goto, Files
    <2> QED  BY <1>3, <2>1
  <1>7. CASE ReadIdentity(p)
    <2>1. /\ UNCHANGED <<output, snapshot, identity, database>>
          /\ \A q \in Processes \ {p} : pc'[q] = pc[q]
          /\ p \in Tools /\ pc[p] = "start"
          /\ since' = [since EXCEPT ![p] = database.rows]
          /\ pc'[p] \in {"failed", "mkdir"} /\ (pc'[p] = "mkdir" => identity # Missing)
      BY <1>7, <1>b DEF ReadIdentity, Goto, Files, secret
    <2>2. since' \in [Tools -> Nat] /\ since'[p] = database.rows
          /\ \A q \in Tools \ {p} : since'[q] = since[q]
      BY <1>b, <2>1 DEF OutputInvariant, OutputType
    <2>3. OutputOf(p)'
      BY <1>b, <1>o, <2>1, <2>2 DEF OutputOf, Holding
    <2>4. \A q \in Tools : q # p => OutputOf(q)'
      BY <1>a, <2>1, <2>2, OthersKeep DEF Processes
    <2> QED  BY <2>1, <2>2, <2>3, <2>4 DEF OutputInvariant, OutputType
  <1>8. CASE Mkdir(p)
    <2>1. /\ UNCHANGED <<snapshot, since, identity, database>>
          /\ \A q \in Processes \ {p} : pc'[q] = pc[q]
          /\ p \in Tools /\ pc[p] = "mkdir"
      BY <1>8, <1>b DEF Mkdir, Goto, secret
    <2>2. CASE output = Missing
      <3>1. /\ output' = [owner |-> p, database |-> Missing, identity |-> Missing]
            /\ pc'[p] = "open"
        BY <1>8, <1>b, <2>2 DEF Mkdir, Goto
      <3>2. output' \in Backups /\ output' # Missing /\ output'.owner = p
        BY <2>1, <3>1 DEF Backups
      <3>3. OutputOf(p)'
        BY <1>o, <2>1, <3>1, <3>2 DEF OutputOf, Holding
      <3>4. ASSUME NEW q \in Tools, q # p
            PROVE  OutputOf(q)'
        <4>1. OutputOf(q) /\ pc'[q] = pc[q]
          BY <2>1, <3>4 DEF OutputInvariant, Processes
        <4>2. pc[q] \notin Holding
          BY <2>2, <4>1 DEF OutputOf
        <4> QED  BY <2>1, <3>2, <3>4, <4>1, <4>2 DEF OutputOf, Holding
      <3> QED  BY <2>1, <3>2, <3>3, <3>4 DEF OutputInvariant, OutputType
    <2>3. CASE output # Missing
      <3>1. output' = output /\ pc'[p] = "failed"
        BY <1>8, <1>b, <2>3 DEF Mkdir, Goto
      <3> QED  BY <1>1, <1>o, <2>1, <3>1 DEF OutputOf, Holding
    <2> QED  BY <2>2, <2>3
  <1>h. ASSUME p \in Tools, pc[p] \in Holding
        PROVE  output \in Backups /\ output # Missing /\ output.owner = p /\ identity # Missing
    BY <1>h, <1>o DEF OutputOf, OutputInvariant, OutputType
  <1>9. CASE VacuumBegins(p)
    <2>1. /\ UNCHANGED <<since, identity, database>>
          /\ \A q \in Processes \ {p} : pc'[q] = pc[q]
          /\ p \in Tools /\ pc[p] = "opened" /\ pc[p] \in Holding /\ pc'[p] = "vacuum"
          /\ snapshot' = [snapshot EXCEPT ![p] = database]
          /\ output' = [output EXCEPT !.database = Partial]
      BY <1>9, <1>b DEF VacuumBegins, Goto, secret, Holding
    <2>2. /\ snapshot' \in [Tools -> Contents \cup {Missing}] /\ snapshot'[p] = database
          /\ \A q \in Tools \ {p} : snapshot'[q] = snapshot[q]
      BY <1>b, <2>1 DEF OutputInvariant, OutputType
    <2>3. output' \in Backups /\ output' # Missing /\ output'.owner = p
      BY <1>h, <2>1 DEF Backups
    <2>4. database.version = 2
      BY <2>1 DEF SchemaInvariant, UsesDatabase
    <2>5. CopyFor(p, database)'
      <3>1. database.tables = Schema
        <4>1. database.tables \subseteq Schema /\ Schema \subseteq database.tables
          BY <2>4 DEF SchemaInvariant
        <4> QED  BY <4>1
      <3>2. since[p] <= database.rows
        BY <1>o, <2>1 DEF OutputOf
      <3> QED  BY <1>b, <2>1, <3>1, <3>2 DEF CopyFor
    <2>6. OutputOf(p)'
      BY <1>o, <1>h, <2>1, <2>2, <2>3, <2>5 DEF OutputOf, Holding, CopyFor
    <2> QED  BY <1>2, <2>1, <2>2, <2>3, <2>6
  <1>10. CASE VacuumEnds(p)
    <2>1. /\ UNCHANGED <<since, identity, database>>
          /\ \A q \in Processes \ {p} : pc'[q] = pc[q]
          /\ p \in Tools /\ pc[p] = "vacuum" /\ pc[p] \in Holding /\ pc'[p] = "copySecret"
          /\ snapshot' = [snapshot EXCEPT ![p] = Missing]
          /\ output' = [output EXCEPT !.database = snapshot[p]]
      BY <1>10, <1>b DEF VacuumEnds, Goto, secret, Holding
    <2>2. /\ snapshot' \in [Tools -> Contents \cup {Missing}]
          /\ \A q \in Tools \ {p} : snapshot'[q] = snapshot[q]
      BY <1>b, <2>1 DEF OutputInvariant, OutputType
    <2>3. CopyFor(p, snapshot[p])
      BY <1>o, <2>1 DEF OutputOf
    <2>4. /\ output' \in Backups /\ output' # Missing /\ output'.owner = p
          /\ output'.database = snapshot[p]
      BY <1>h, <2>1, <2>3 DEF Backups, CopyFor
    <2>5. OutputOf(p)'
      BY <1>o, <1>h, <2>1, <2>3, <2>4 DEF OutputOf, Holding, CopyFor
    <2> QED  BY <1>2, <2>1, <2>2, <2>4, <2>5
  <1>11. CASE CopySecretBegins(p) \/ CopySecretEnds(p)
    <2>1. /\ UNCHANGED <<since, identity, database, snapshot>>
          /\ \A q \in Processes \ {p} : pc'[q] = pc[q]
          /\ p \in Tools /\ pc[p] \in {"copySecret", "sync"} /\ pc[p] \in Holding
          /\ \/ pc'[p] = "sync" /\ output' = [output EXCEPT !.identity = Partial]
             \/ pc'[p] = "succeeded" /\ output' = [output EXCEPT !.identity = identity]
      BY <1>11, <1>b DEF CopySecretBegins, CopySecretEnds, Goto, secret, Holding
    <2>2. /\ output' \in Backups /\ output' # Missing /\ output'.owner = p
          /\ output'.database = output.database
          /\ pc'[p] = "succeeded" => output'.identity = identity
      BY <1>b, <1>h, <2>1 DEF Backups
    <2>3. CopyFor(p, output.database)
      BY <1>o, <2>1 DEF OutputOf
    <2>4. OutputOf(p)'
      BY <1>o, <1>h, <2>1, <2>2, <2>3 DEF OutputOf, Holding, CopyFor
    <2>5. snapshot' \in [Tools -> Contents \cup {Missing}]
      BY <2>1 DEF OutputInvariant, OutputType
    <2> QED  BY <1>2, <2>1, <2>2, <2>4, <2>5
  <1>12. CASE ToolStepFails(p)
    <2>1. /\ UNCHANGED <<output, since, snapshot, identity, database>>
          /\ \A q \in Processes \ {p} : pc'[q] = pc[q]
          /\ pc[p] \in Holding /\ pc'[p] = "failing"
      BY <1>12, <1>b DEF ToolStepFails, Goto, Files, secret, Holding
    <2> QED  BY <1>1, <1>o, <2>1 DEF OutputOf, Holding
  <1>13. CASE Cleanup(p)
    <2>1. /\ UNCHANGED <<since, identity, database, snapshot>>
          /\ \A q \in Processes \ {p} : pc'[q] = pc[q]
          /\ p \in Tools /\ pc[p] \in Holding /\ pc'[p] = "failed" /\ output' = Missing
      BY <1>13, <1>b DEF Cleanup, Goto, secret, Holding
    <2>2. OutputOf(p)'
      BY <1>o, <2>1 DEF OutputOf, Holding
    <2>3. snapshot' \in [Tools -> Contents \cup {Missing}]
      BY <2>1 DEF OutputInvariant, OutputType
    <2> QED  BY <1>2, <2>1, <2>2, <2>3
  <1>14. CASE CleanupFails(p)
    <2>1. /\ UNCHANGED <<since, identity, database, snapshot>>
          /\ \A q \in Processes \ {p} : pc'[q] = pc[q]
          /\ p \in Tools /\ pc[p] \in Holding /\ pc'[p] = "uncleaned"
          /\ output' \in Backups /\ output'.owner = p
      BY <1>14, <1>b, <1>h DEF CleanupFails, Goto, secret, Holding, Backups
    <2>2. OutputOf(p)'
      BY <1>o, <2>1 DEF OutputOf, Holding
    <2>3. snapshot' \in [Tools -> Contents \cup {Missing}]
      BY <2>1 DEF OutputInvariant, OutputType
    <2> QED  BY <1>2, <2>1, <2>2, <2>3
  <1>15. CASE Kill(p)
    <2>1. /\ UNCHANGED <<output, since, database>>
          /\ \A q \in Processes \ {p} : pc'[q] = pc[q]
          /\ pc'[p] = "killed"
          /\ snapshot' = [q \in Tools |-> IF q = p THEN Missing ELSE snapshot[q]]
      BY <1>15, <1>b DEF Kill, Goto
    <2>2. /\ snapshot' \in [Tools -> Contents \cup {Missing}]
          /\ \A q \in Tools \ {p} : snapshot'[q] = snapshot[q]
      BY <2>1 DEF OutputInvariant, OutputType
    <2>3. p \in Tools => OutputOf(p)'
      BY <1>o, <2>1 DEF OutputOf, Holding
    <2>4. \A q \in Tools : q # p => OutputOf(q)'
      BY <1>a, <2>1, <2>2, OthersKeep DEF Processes
    <2> QED  BY <2>1, <2>2, <2>3, <2>4 DEF OutputInvariant, OutputType
  <1> QED  BY <1>s, <1>4, <1>5, <1>6, <1>7, <1>8, <1>9, <1>10, <1>11, <1>12, <1>13, <1>14,
           <1>15

(* The three invariants hold together in every reachable state. *)
LEMMA OutputInvariantHolds == Spec => []OutputInvariant
  <1>1. Init => OutputInvariant
    BY DEF Init, Databases, OutputInvariant, OutputType, OutputOf, Processes, Holding
  <1>2. IdentityInvariant /\ SchemaInvariant /\ SchemaInvariant' /\ OutputInvariant /\ [Next]_vars
            => OutputInvariant'
    BY OutputStep
  <1> QED  BY <1>1, <1>2, IdentityInvariantHolds, SchemaInvariantHolds, PTL DEF Spec

(* A run of ztgotroller-backup that reported success has left a complete   *)
(* database, as it was at some moment of the run, and the identity, and no *)
(* other run or restart damages them.                                      *)
THEOREM BackupSound == Spec => []BackupComplete
  <1>1. SchemaInvariant /\ OutputInvariant => BackupComplete
    <2>1. SUFFICES ASSUME SchemaInvariant, OutputInvariant, NEW p \in Tools, pc[p] = "succeeded"
                   PROVE  /\ output # Missing
                          /\ output.owner = p
                          /\ output.identity = identity
                          /\ output.database \notin {Missing, Partial}
                          /\ output.database.tables = Schema
                          /\ output.database.rows \in since[p] .. database.rows
      BY DEF BackupComplete
    <2>2. /\ OutputOf(p)
          /\ since[p] \in Nat
          /\ database.rows \in Nat
      BY <2>1 DEF OutputInvariant, OutputType, SchemaInvariant, SchemaType, Contents
    <2>3. CopyFor(p, output.database)
      BY <2>1, <2>2 DEF OutputOf
    <2>4. output.database.rows \in since[p] .. database.rows
      BY <2>2, <2>3 DEF CopyFor, Contents
    <2> QED  BY <2>1, <2>2, <2>3, <2>4 DEF OutputOf, Holding, CopyFor
  <1> QED  BY <1>1, SchemaInvariantHolds, OutputInvariantHolds, PTL

(* A run that reported an error has removed the directory it made, unless  *)
(* its RemoveAll failed, and never one that another run made.              *)
THEOREM FailedRunCleansUp == Spec => []FailureLeavesNothing
  <1>1. OutputInvariant => FailureLeavesNothing
    BY DEF OutputInvariant, OutputOf, FailureLeavesNothing
  <1> QED  BY <1>1, OutputInvariantHolds, PTL
=============================================================================
