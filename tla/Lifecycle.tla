----------------------------- MODULE Lifecycle ------------------------------
(***************************************************************************)
(* Start and stop of the process, cmd/ztgotroller/main.go: main, the two   *)
(* workers it waits for (the HTTP server and the UDP server), the upstream *)
(* announcer it does not wait for, and the signal handler.  The workers    *)
(* report through a channel of two elements.                               *)
(***************************************************************************)
EXTENDS Integers, Sequences

CONSTANT MaxRequests      \* bound on the HTTP requests in flight

ASSUME MaxRequestsAssumption == MaxRequests \in Nat

VARIABLES main,           \* "select", "shutdown", "draining", "drain" or "returned"
          cancelled,      \* the context of signal.NotifyContext
          http, udp,      \* "serving", "closing" (HTTP) or "done"
          announcer,      \* "running" or "done"
          requests,       \* HTTP requests in flight
          stopped,        \* the channel of worker results
          workersRemaining,
          result,         \* what run returns: "nil" or an error
          failed,         \* history: the workers that ended with an error
          timedOut        \* history: Shutdown gave up on requests in flight

vars == <<main, cancelled, http, udp, announcer, requests, stopped, workersRemaining, result,
          failed, timedOut>>

Init ==
    /\ main = "select"
    /\ cancelled = FALSE
    /\ http = "serving" /\ udp = "serving"
    /\ announcer \in {"running", "done"}     \* without -upstreams there is none
    /\ requests = 0
    /\ stopped = <<>>
    /\ workersRemaining = 2
    /\ result = "nil"
    /\ failed = {}
    /\ timedOut = FALSE

Alive == main # "returned"

-----------------------------------------------------------------------------
(* The world and the workers. *)

Signal ==
    /\ Alive /\ ~ cancelled
    /\ cancelled' = TRUE
    /\ UNCHANGED <<main, http, udp, announcer, requests, stopped, workersRemaining, result, failed,
                   timedOut>>

RequestArrives ==
    /\ Alive /\ http = "serving" /\ requests < MaxRequests
    /\ requests' = requests + 1
    /\ UNCHANGED <<main, cancelled, http, udp, announcer, stopped, workersRemaining, result, failed,
                   timedOut>>

RequestEnds ==
    /\ Alive /\ requests > 0
    /\ requests' = requests - 1
    /\ UNCHANGED <<main, cancelled, http, udp, announcer, stopped, workersRemaining, result, failed,
                   timedOut>>

\* ListenAndServe fails, for example because the address is in use.
HttpFails ==
    /\ Alive /\ http = "serving"
    /\ http' = "done"
    /\ stopped' = Append(stopped, "httpError")
    /\ failed' = failed \cup {"http"}
    /\ UNCHANGED <<main, cancelled, udp, announcer, requests, workersRemaining, result, timedOut>>

\* ListenAndServe returns ErrServerClosed as soon as Shutdown has begun.
HttpStops ==
    /\ Alive /\ http = "closing"
    /\ http' = "done"
    /\ stopped' = Append(stopped, "nil")
    /\ UNCHANGED <<main, cancelled, udp, announcer, requests, workersRemaining, result, failed,
                   timedOut>>

\* A read or write error ends Serve.
UdpFails ==
    /\ Alive /\ udp = "serving" /\ ~ cancelled
    /\ udp' = "done"
    /\ stopped' = Append(stopped, "udpError")
    /\ failed' = failed \cup {"udp"}
    /\ UNCHANGED <<main, cancelled, http, announcer, requests, workersRemaining, result, timedOut>>

\* The cancelled context closes the socket, which ends Serve without an error.
UdpStops ==
    /\ Alive /\ udp = "serving" /\ cancelled
    /\ udp' = "done"
    /\ stopped' = Append(stopped, "nil")
    /\ UNCHANGED <<main, cancelled, http, announcer, requests, workersRemaining, result, failed,
                   timedOut>>

\* An announcement fails: the error is logged and the context cancelled.
AnnouncerFails ==
    /\ Alive /\ announcer = "running"
    /\ announcer' = "done"
    /\ cancelled' = TRUE
    /\ UNCHANGED <<main, http, udp, requests, stopped, workersRemaining, result, failed, timedOut>>

AnnouncerStops ==
    /\ Alive /\ announcer = "running" /\ cancelled
    /\ announcer' = "done"
    /\ UNCHANGED <<main, cancelled, http, udp, requests, stopped, workersRemaining, result, failed,
                   timedOut>>

-----------------------------------------------------------------------------
(* main. *)

\* The last result received stands.
LastError(old, new) == new

FirstError(old, new) == IF old = "nil" THEN new ELSE old

\* Taking the first result without counting it.
MainReceivesUncounted ==
    /\ main = "select" /\ stopped # <<>>
    /\ result' = Head(stopped)
    /\ stopped' = Tail(stopped)
    /\ cancelled' = TRUE
    /\ main' = "shutdown"
    /\ UNCHANGED <<http, udp, announcer, requests, workersRemaining, failed, timedOut>>

\* The select: a worker stopped, or the context was cancelled.
MainReceives ==
    /\ main = "select" /\ stopped # <<>>
    /\ workersRemaining' = workersRemaining - 1
    /\ result' = Head(stopped)
    /\ stopped' = Tail(stopped)
    /\ cancelled' = TRUE
    /\ main' = "shutdown"
    /\ UNCHANGED <<http, udp, announcer, requests, failed, timedOut>>

MainCancelled ==
    /\ main = "select" /\ cancelled
    /\ main' = "shutdown"
    /\ UNCHANGED <<cancelled, http, udp, announcer, requests, stopped, workersRemaining, result,
                   failed, timedOut>>

\* server.Shutdown closes the listener and waits for the requests in flight.
MainShutdown ==
    /\ main = "shutdown"
    /\ main' = "draining"
    /\ http' = IF http = "serving" THEN "closing" ELSE http
    /\ UNCHANGED <<cancelled, udp, announcer, requests, stopped, workersRemaining, result, failed,
                   timedOut>>

MainShutdownReturns ==
    /\ main = "draining" /\ requests = 0
    /\ main' = "drain"
    /\ UNCHANGED <<cancelled, http, udp, announcer, requests, stopped, workersRemaining, result,
                   failed, timedOut>>

\* After ten seconds it gives up; that is an error of its own.
MainShutdownTimesOut ==
    /\ main = "draining" /\ requests > 0
    /\ main' = "drain"
    /\ result' = FirstError(result, "shutdownError")
    /\ timedOut' = TRUE
    /\ UNCHANGED <<cancelled, http, udp, announcer, requests, stopped, workersRemaining, failed>>

MainDrains ==
    /\ main = "drain" /\ workersRemaining > 0 /\ stopped # <<>>
    /\ result' = FirstError(result, Head(stopped))
    /\ stopped' = Tail(stopped)
    /\ workersRemaining' = workersRemaining - 1
    /\ UNCHANGED <<main, cancelled, http, udp, announcer, requests, failed, timedOut>>

\* Waiting for one worker too few.
MainReturnsEarly ==
    /\ main = "drain" /\ workersRemaining <= 1
    /\ main' = "returned"
    /\ UNCHANGED <<cancelled, http, udp, announcer, requests, stopped, workersRemaining, result,
                   failed, timedOut>>

\* Returning closes the database and the socket, and ends the process.
MainReturns ==
    /\ main = "drain" /\ workersRemaining = 0
    /\ main' = "returned"
    /\ UNCHANGED <<cancelled, http, udp, announcer, requests, stopped, workersRemaining, result,
                   failed, timedOut>>

MainStep ==
    \/ MainReceives
    \/ MainCancelled
    \/ MainShutdown
    \/ MainShutdownReturns
    \/ MainShutdownTimesOut
    \/ MainDrains
    \/ MainReturns

Next ==
    \/ Signal
    \/ RequestArrives
    \/ RequestEnds
    \/ HttpFails
    \/ HttpStops
    \/ UdpFails
    \/ UdpStops
    \/ AnnouncerFails
    \/ AnnouncerStops
    \/ MainStep

Spec == Init /\ [][Next]_vars

\* The goroutines of the process run.  Nothing is assumed of signals, requests and
\* failures; a request need not end.
FairSpec ==
    Spec /\ WF_vars(MainStep) /\ WF_vars(HttpStops) /\ WF_vars(UdpStops) /\ WF_vars(AnnouncerStops)

-----------------------------------------------------------------------------
(* The database is closed, by the return of run, only after both workers   *)
(* have ended, so the UDP loop never meets a closed database; an HTTP      *)
(* request can meet one only if Shutdown ran into its timeout.             *)
DatabaseOutlivesWorkers ==
    main = "returned" =>
        /\ http = "done" /\ udp = "done"
        /\ requests > 0 => timedOut

(* A worker that failed makes the process fail, also when the other worker *)
(* or a signal stopped main first and the error arrived during shutdown.   *)
WorkerErrorsReported == main = "returned" /\ failed # {} => result # "nil"

(* Once the context is cancelled or a worker has ended, the process ends:  *)
(* no worker blocks on the channel and main waits for no worker twice.     *)
Terminates == cancelled \/ stopped # <<>> ~> main = "returned"
=============================================================================
