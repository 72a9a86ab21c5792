---------------------------- MODULE IdentityFile ----------------------------
(***************************************************************************)
(* Loading or creating the controller's identity at the start of the       *)
(* process, internal/zerotier/identity/file.go.  Several processes may     *)
(* start at once on one path, and each may be killed and started again at  *)
(* any point.  The file system is the operating system's: link fails if    *)
(* the name exists, a write may be interrupted half way.                   *)
(***************************************************************************)
EXTENDS Integers, FiniteSets

CONSTANTS Processes,
          MaxStarts,      \* bound on how often a process is started
          Missing,        \* no such file
          Partial         \* a file whose secret is not completely written

\* The identities that Generate draws: a new one for every start of a process.
Identities == Processes \X (1..MaxStarts)

VARIABLES file,           \* the content at the path
          temporary,      \* process -> the content of its temporary file
          pc,             \* process -> where it is
          starts,         \* process -> how often it was started
          returned        \* history: the identities processes went on to use

vars == <<file, temporary, pc, starts, returned>>

Init ==
    /\ file = Missing
    /\ temporary = [p \in Processes |-> Missing]
    /\ pc = [p \in Processes |-> "off"]
    /\ starts = [p \in Processes |-> 0]
    /\ returned = {}

Generated(p) == <<p, starts[p]>>
Goto(p, label) == pc' = [pc EXCEPT ![p] = label]

\* The process ends loadOrCreate and uses identity i; the deferred Remove deletes
\* its temporary file.
Use(p, i) ==
    /\ returned' = returned \cup {i}
    /\ temporary' = [temporary EXCEPT ![p] = Missing]
    /\ Goto(p, "running")

\* It ends with an error.
Fail(p) ==
    /\ temporary' = [temporary EXCEPT ![p] = Missing]
    /\ Goto(p, "off")
    /\ UNCHANGED <<file, starts, returned>>

Start(p) ==
    /\ pc[p] = "off" /\ starts[p] < MaxStarts
    /\ starts' = [starts EXCEPT ![p] = @ + 1]
    /\ Goto(p, "load")
    /\ UNCHANGED <<file, temporary, returned>>

\* Load parses and validates what it reads; an unfinished file is an error.
Load(p) ==
    /\ pc[p] = "load"
    /\ \/ /\ file = Missing
          /\ Goto(p, "create")
          /\ UNCHANGED <<file, temporary, starts, returned>>
       \/ file \in Identities /\ Use(p, file) /\ UNCHANGED <<file, starts>>

\* Generate, CreateTemp, Chmod: a temporary file with a unique name.
CreateTemporary(p) ==
    /\ pc[p] = "create"
    /\ temporary' = [temporary EXCEPT ![p] = Partial]
    /\ Goto(p, "write")
    /\ UNCHANGED <<file, starts, returned>>

\* WriteString, Sync and Close, any of which may fail instead.
WriteTemporary(p) ==
    /\ pc[p] = "write"
    /\ temporary' = [temporary EXCEPT ![p] = Generated(p)]
    /\ Goto(p, "link")
    /\ UNCHANGED <<file, starts, returned>>

WriteFails(p) == pc[p] = "write" /\ Fail(p)

\* Installing by rename, which replaces an existing file.
InstallByRename(p) ==
    /\ pc[p] = "link"
    /\ file' = temporary[p]
    /\ Use(p, Generated(p))
    /\ UNCHANGED starts

\* link installs the file or, if another process was faster, loads the winner.
Install(p) ==
    /\ pc[p] = "link"
    /\ \/ /\ file = Missing
          /\ file' = temporary[p]
          /\ Use(p, Generated(p))
       \/ file \in Identities /\ Use(p, file) /\ UNCHANGED file
    /\ UNCHANGED starts

\* Any other error of link.
InstallFails(p) == pc[p] = "link" /\ Fail(p)

\* The process is killed, or stops.  Its temporary file stays behind under a name
\* that nobody opens again, so it is not kept here.
Kill(p) ==
    /\ pc[p] # "off"
    /\ temporary' = [temporary EXCEPT ![p] = Missing]
    /\ Goto(p, "off")
    /\ UNCHANGED <<file, starts, returned>>

\* A step of the process inside LoadOrCreate.
LoadOrCreate(p) ==
    \/ Load(p)
    \/ CreateTemporary(p)
    \/ WriteTemporary(p)
    \/ WriteFails(p)
    \/ Install(p)
    \/ InstallFails(p)

-----------------------------------------------------------------------------
(* The path holds a complete identity, the same for every process that     *)
(* uses one, from the first process on: whoever loads it never sees an     *)
(* unfinished one, and a concurrently created one is never replaced.       *)
OneIdentity ==
    /\ file \in Identities \cup {Missing}
    /\ returned \subseteq {file}
=============================================================================
