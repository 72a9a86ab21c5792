------------------------------- MODULE Backup -------------------------------
(***************************************************************************)
(* The files on disk: the identity, the database and the backups made of   *)
(* both.  Controllers load or create the identity (module IdentityFile),   *)
(* open and migrate the database (sqlite.Open) and go on writing; runs of  *)
(* ztgotroller-backup all have the same output path.  Every process may be *)
(* killed between any two steps.                                           *)
(*                                                                         *)
(* SQLite and the file system are external: a transaction's changes become *)
(* visible when it commits and vanish when its process dies, there is one  *)
(* writer at a time, VACUUM INTO copies one committed state, and mkdir     *)
(* fails if the name exists.                                               *)
(***************************************************************************)
EXTENDS Integers

CONSTANTS Controllers, Tools,
          MaxRows,        \* bound on the rows controllers write
          MaxStarts,      \* bound on how often a controller is started
          Nobody, Missing, Partial

ASSUME BackupAssumption ==
    MaxRows \in Nat /\ MaxStarts \in Nat /\ Controllers \cap Tools = {}

VARIABLES database,    \* the committed content: schema version, tables, rows
          writing,     \* the process whose transaction holds the write lock
          identity,    \* identity.secret
          temporary,   \* controller -> its temporary identity file
          loading,     \* controller -> where it is in LoadOrCreate
          starts,      \* controller -> how often it was started
          returned,    \* history: the identities controllers went on to use
          output,      \* the backup directory and the run that made it
          pc,          \* process -> where it is
          read,        \* process -> the schema version Open has read
          snapshot,    \* tool -> the state its VACUUM INTO copies
          since        \* history: tool -> the rows committed when it started

secret == <<identity, temporary, loading, starts, returned>>
vars == <<database, writing, secret, output, pc, read, snapshot, since>>

ID == INSTANCE IdentityFile WITH Processes <- Controllers, file <- identity, pc <- loading

Processes == Controllers \cup Tools
CurrentSchemaVersion == 2
Schema == {"networks", "members", "agent_metadata"}

\* What may lie at the path: nothing, a database of this or the previous
\* version, or one that a later release has migrated.
Databases ==
    {[version |-> 0, tables |-> {}, rows |-> 0],
     [version |-> 1, tables |-> {"networks", "members"}, rows |-> 1],
     [version |-> 2, tables |-> Schema, rows |-> 1],
     [version |-> 3, tables |-> Schema \cup {"future"}, rows |-> 1]}

\* What a database and a backup can contain, and the names of what is not a file.
Contents == [version : Nat, tables : SUBSET (Schema \cup {"future"}), rows : Nat]
Backups == [owner : Tools, database : Contents \cup {Missing, Partial},
            identity : ID!Identities \cup {Missing, Partial}]

ASSUME FilesAssumption ==
    /\ Nobody \notin Processes
    /\ Missing \notin ID!Identities /\ Partial \notin ID!Identities
    /\ Missing \notin Contents /\ Partial \notin Contents
    /\ Missing \notin Backups
    /\ Missing # Partial

Init ==
    /\ database \in Databases
    /\ writing = Nobody
    /\ ID!Init
    /\ output = Missing
    /\ pc = [p \in Processes |-> "start"]
    /\ read = [p \in Processes |-> 0]
    /\ snapshot = [p \in Tools |-> Missing]
    /\ since = [p \in Tools |-> 0]

Goto(p, label) == pc' = [pc EXCEPT ![p] = label]
Files == <<database, writing, secret, output>>

-----------------------------------------------------------------------------
(* sqlite.Open, in the controller and in the tool. *)

\* A newer schema is migrated like an older one.
OpenReadsVersionUnguarded(p) ==
    /\ pc[p] = "open"
    /\ read' = [read EXCEPT ![p] = database.version]
    /\ Goto(p, IF database.version = CurrentSchemaVersion THEN "opened" ELSE "migrate")
    /\ UNCHANGED <<Files, snapshot, since>>

\* The version decides, before any transaction begins.  It is kept in read until
\* the migration is over.
OpenReadsVersion(p) ==
    /\ pc[p] = "open"
    /\ read' = [read EXCEPT ![p] = IF database.version < CurrentSchemaVersion
                                   THEN database.version ELSE 0]
    /\ \/ database.version > CurrentSchemaVersion /\ Goto(p, "failing")
       \/ database.version < CurrentSchemaVersion /\ Goto(p, "migrate")
       \/ database.version = CurrentSchemaVersion /\ Goto(p, "opened")
    /\ UNCHANGED <<Files, snapshot, since>>

\* Begin, and the first statement takes the write lock.
MigrateBegin(p) ==
    /\ pc[p] = "migrate"
    /\ writing = Nobody
    /\ writing' = p
    /\ Goto(p, "commit")
    /\ UNCHANGED <<database, secret, output, read, snapshot, since>>

\* A pragma or a statement fails, or the lock is not free within busy_timeout:
\* Rollback.
OpenFails(p) ==
    /\ pc[p] \in {"open", "migrate", "commit"}
    /\ writing' = IF writing = p THEN Nobody ELSE writing
    /\ read' = [read EXCEPT ![p] = 0]
    /\ Goto(p, "failing")
    /\ UNCHANGED <<database, secret, output, snapshot, since>>

\* The version is stamped although a version 1 database lacks a table.
MigratedVersionOnly(seen) ==
    [database EXCEPT !.version = CurrentSchemaVersion,
                     !.tables = @ \cup (IF seen = 0 THEN Schema ELSE {})]

\* What the transaction makes of the database: CREATE TABLE IF NOT EXISTS, as
\* the version read before it began calls for, and the new version.
Migrated(seen) ==
    [database EXCEPT !.version = CurrentSchemaVersion,
                     !.tables = @ \cup (IF seen = 0 THEN Schema ELSE {})
                                  \cup (IF seen < 2 THEN {"agent_metadata"} ELSE {})]

MigrateCommit(p) ==
    /\ pc[p] = "commit"
    /\ database' = Migrated(read[p])
    /\ writing' = Nobody
    /\ read' = [read EXCEPT ![p] = 0]
    /\ Goto(p, "opened")
    /\ UNCHANGED <<secret, output, snapshot, since>>

-----------------------------------------------------------------------------
(* The controller. *)

\* The process starts, loads or creates its identity step by step, and goes on to
\* the database, or ends with an error.
ControllerStarts(p) ==
    /\ p \in Controllers /\ pc[p] = "start"
    /\ ID!Start(p)
    /\ Goto(p, "identity")
    /\ UNCHANGED <<database, writing, output, read, snapshot, since>>

LoadOrCreateIdentity(p) ==
    /\ p \in Controllers /\ pc[p] = "identity"
    /\ ID!LoadOrCreate(p)
    /\ Goto(p, CASE loading'[p] = "running" -> "open"
                 [] loading'[p] = "off" -> "failed"
                 [] OTHER -> "identity")
    /\ UNCHANGED <<database, writing, output, read, snapshot, since>>

\* A statement of the running controller, its own transaction.
WriteRow(p) ==
    /\ p \in Controllers /\ pc[p] = "opened"
    /\ writing = Nobody
    /\ database.rows < MaxRows
    /\ database' = [database EXCEPT !.rows = @ + 1]
    /\ UNCHANGED <<writing, secret, output, pc, read, snapshot, since>>

ControllerFails(p) ==
    /\ p \in Controllers /\ pc[p] = "failing"
    /\ ID!Kill(p)
    /\ Goto(p, "failed")
    /\ UNCHANGED <<database, writing, output, read, snapshot, since>>

-----------------------------------------------------------------------------
(* The backup tool. *)

\* The secret is read and parsed before anything is made.
ReadIdentity(p) ==
    /\ p \in Tools /\ pc[p] = "start"
    /\ since' = [since EXCEPT ![p] = database.rows]
    /\ Goto(p, IF identity = Missing THEN "failed" ELSE "mkdir")
    /\ UNCHANGED <<Files, read, snapshot>>

\* The cleanup is set up first, so that a refused mkdir runs it too.
MkdirCleansUp(p) ==
    /\ p \in Tools /\ pc[p] = "mkdir"
    /\ IF output = Missing
       THEN /\ output' = [owner |-> p, database |-> Missing, identity |-> Missing]
            /\ Goto(p, "open")
       ELSE Goto(p, "failed") /\ output' = Missing
    /\ UNCHANGED <<database, writing, secret, read, snapshot, since>>

\* An existing directory ends the run before the deferred cleanup is set up.
Mkdir(p) ==
    /\ p \in Tools /\ pc[p] = "mkdir"
    /\ IF output = Missing
       THEN /\ output' = [owner |-> p, database |-> Missing, identity |-> Missing]
            /\ Goto(p, "open")
       ELSE Goto(p, "failed") /\ UNCHANGED output
    /\ UNCHANGED <<database, writing, secret, read, snapshot, since>>

\* VACUUM INTO: the committed state at its start, into a file that grows.  This and
\* the following steps can only succeed while the directory is there.
VacuumBegins(p) ==
    /\ p \in Tools /\ pc[p] = "opened" /\ output # Missing
    /\ snapshot' = [snapshot EXCEPT ![p] = database]
    /\ output' = [output EXCEPT !.database = Partial]
    /\ Goto(p, "vacuum")
    /\ UNCHANGED <<database, writing, secret, read, since>>

VacuumEnds(p) ==
    /\ p \in Tools /\ pc[p] = "vacuum" /\ output # Missing
    /\ output' = [output EXCEPT !.database = snapshot[p]]
    /\ snapshot' = [snapshot EXCEPT ![p] = Missing]
    /\ Goto(p, "copySecret")
    /\ UNCHANGED <<database, writing, secret, read, since>>

\* copySecret: create exclusively, copy, sync, close.
CopySecretBegins(p) ==
    /\ p \in Tools /\ pc[p] = "copySecret" /\ output # Missing
    /\ output' = [output EXCEPT !.identity = Partial]
    /\ Goto(p, "sync")
    /\ UNCHANGED <<database, writing, secret, read, snapshot, since>>

\* The run succeeds: cleanup = false.
CopySecretEnds(p) ==
    /\ p \in Tools /\ pc[p] = "sync" /\ output # Missing
    /\ output' = [output EXCEPT !.identity = identity]
    /\ Goto(p, "succeeded")
    /\ UNCHANGED <<database, writing, secret, read, snapshot, since>>

\* Any of these steps may fail instead.
ToolStepFails(p) ==
    /\ p \in Tools /\ pc[p] \in {"opened", "vacuum", "copySecret", "sync"}
    /\ Goto(p, "failing")
    /\ UNCHANGED <<Files, read, snapshot, since>>

\* A failed run keeps what it has made so far.
CleanupSkipped(p) ==
    /\ p \in Tools /\ pc[p] = "failing"
    /\ Goto(p, "failed")
    /\ UNCHANGED <<Files, read, snapshot, since>>

\* The deferred RemoveAll of a run that failed after its mkdir.
Cleanup(p) ==
    /\ p \in Tools /\ pc[p] = "failing"
    /\ output' = Missing
    /\ Goto(p, "failed")
    /\ UNCHANGED <<database, writing, secret, read, snapshot, since>>

\* An error of that RemoveAll is ignored: the directory stays, with some of its files.
CleanupFails(p) ==
    /\ p \in Tools /\ pc[p] = "failing" /\ output # Missing
    /\ \E copy \in {output.database, Missing}, key \in {output.identity, Missing} :
          output' = [owner |-> output.owner, database |-> copy, identity |-> key]
    /\ Goto(p, "uncleaned")
    /\ UNCHANGED <<database, writing, secret, read, snapshot, since>>

-----------------------------------------------------------------------------
Ended == {"failed", "uncleaned", "succeeded", "killed"}

\* Killed: a transaction is rolled back by whoever opens the file next, and
\* nothing is cleaned up.
Kill(p) ==
    /\ pc[p] \notin Ended \cup {"start"}
    /\ writing' = IF writing = p THEN Nobody ELSE writing
    /\ IF p \in Controllers THEN ID!Kill(p) ELSE UNCHANGED secret
    /\ read' = [read EXCEPT ![p] = 0]
    /\ snapshot' = [q \in Tools |-> IF q = p THEN Missing ELSE snapshot[q]]
    /\ Goto(p, "killed")
    /\ UNCHANGED <<database, output, since>>

\* The controller is started again.  A tool is one run of the command.
Restart(p) ==
    /\ p \in Controllers /\ pc[p] \in {"failed", "killed"}
    /\ Goto(p, "start")
    /\ UNCHANGED <<Files, read, snapshot, since>>

Next ==
    \E p \in Processes :
        \/ OpenReadsVersion(p) \/ MigrateBegin(p) \/ OpenFails(p) \/ MigrateCommit(p)
        \/ ControllerStarts(p) \/ LoadOrCreateIdentity(p) \/ WriteRow(p) \/ ControllerFails(p)
        \/ ReadIdentity(p) \/ Mkdir(p) \/ VacuumBegins(p) \/ VacuumEnds(p)
        \/ CopySecretBegins(p) \/ CopySecretEnds(p) \/ ToolStepFails(p) \/ Cleanup(p)
        \/ CleanupFails(p) \/ Kill(p) \/ Restart(p)

Spec == Init /\ [][Next]_vars

-----------------------------------------------------------------------------
(* Properties. *)

(* Whoever got past Open uses a database of the current version that has   *)
(* all its tables, however many processes migrated it at once and wherever *)
(* one of them was killed; and a version is never stamped on an incomplete *)
(* schema.                                                                 *)
SchemaComplete ==
    /\ database.version >= CurrentSchemaVersion => Schema \subseteq database.tables
    /\ \A p \in Processes :
          pc[p] \in {"opened", "vacuum", "copySecret", "sync", "succeeded"} =>
              database.version = CurrentSchemaVersion

(* A migration never lowers the version, drops a table or loses a row:     *)
(* docs/OPERATIONS.md, "A binary refuses databases with a newer schema     *)
(* version, preventing accidental downgrade".                              *)
NeverDowngraded ==
    [][/\ database'.version >= database.version
       /\ database.tables \subseteq database'.tables
       /\ database'.rows >= database.rows]_vars

(* A run that reported success left a directory of its own with a complete *)
(* database, in the state it had at some moment of the run, and the        *)
(* complete identity; no later run, failing or not, removes or changes it. *)
BackupComplete ==
    \A p \in Tools : pc[p] = "succeeded" =>
        /\ output # Missing
        /\ output.owner = p
        /\ output.identity = identity
        /\ output.database \notin {Missing, Partial}
        /\ output.database.tables = Schema
        /\ output.database.rows \in since[p] .. database.rows

(* A run that reported an error left nothing of its own behind, so that    *)
(* the operator can run the same command again, unless the removal itself  *)
(* failed, which ztgotroller-backup ignores (main.go:42-46).               *)
FailureLeavesNothing ==
    \A p \in Tools : pc[p] = "failed" => output = Missing \/ output.owner # p

(* All controllers on one path, at once or one after the other, use the    *)
(* same identity, wherever one of them was killed while it created it, and *)
(* it is the one in the file (file.go:56-57): no secret that a controller  *)
(* or a backup has used is ever replaced.                                  *)
OneIdentity == ID!OneIdentity
=============================================================================
