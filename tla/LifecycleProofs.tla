-------------------------- MODULE LifecycleProofs ---------------------------
(***************************************************************************)
(* Theorems about the life cycle of the process, for any bound on the      *)
(* requests in flight.  The argument is an accounting one: every worker    *)
(* main still has to wait for is running or has its result in the channel. *)
(***************************************************************************)
EXTENDS Lifecycle, TLAPS

USE MaxRequestsAssumption

Results == {"nil", "httpError", "udpError", "shutdownError"}

LifecycleType ==
    /\ main \in {"select", "shutdown", "draining", "drain", "returned"}
    /\ cancelled \in BOOLEAN
    /\ http \in {"serving", "closing", "done"}
    /\ udp \in {"serving", "done"}
    /\ announcer \in {"running", "done"}
    /\ requests \in 0 .. MaxRequests
    /\ stopped \in Seq({"nil", "httpError", "udpError"})
    /\ workersRemaining \in 0 .. 2
    /\ result \in Results
    /\ failed \subseteq {"http", "udp"}
    /\ timedOut \in BOOLEAN

Running(worker) == IF worker = "done" THEN 0 ELSE 1

\* A worker is waited for exactly while it runs or its result waits in the channel.
Accounted == workersRemaining = Len(stopped) + Running(http) + Running(udp)

\* Before main leaves the select it holds no result it could overwrite.
SelectHoldsNothing == main = "select" => result = "nil"

\* The error of a failed worker is in the channel until run holds it or another error.
ErrorsKept ==
    failed # {} => result # "nil" \/ \E i \in 1 .. Len(stopped) : stopped[i] # "nil"

\* Once Shutdown has begun no request arrives, and it ends without them or by its timeout.
ListenerClosed ==
    /\ main \in {"draining", "drain", "returned"} => http # "serving"
    /\ main \in {"drain", "returned"} /\ requests > 0 => timedOut

ReturnsLast == main = "returned" => workersRemaining = 0

LifecycleInvariant ==
    /\ LifecycleType
    /\ Accounted
    /\ SelectHoldsNothing
    /\ ErrorsKept
    /\ ListenerClosed
    /\ ReturnsLast

-----------------------------------------------------------------------------
(* A worker that has ended counts nothing, any other counts one. *)
LEMMA RunningCounts ==
    \A w : (w = "done" => Running(w) = 0) /\ (w # "done" => Running(w) = 1)
    BY DEF Running

(* What a send on the channel does: the result is its last element. *)
LEMMA Sent ==
    ASSUME NEW S, NEW s \in Seq(S), NEW e \in S
    PROVE  /\ Append(s, e) \in Seq(S)
           /\ Len(Append(s, e)) = Len(s) + 1
           /\ Append(s, e)[Len(s) + 1] = e
           /\ \A i \in 1 .. Len(s) : Append(s, e)[i] = s[i]
    OBVIOUS

(* What a receive from the channel does: the elements after the first move *)
(* up by one.                                                              *)
LEMMA Received ==
    ASSUME NEW S, NEW s \in Seq(S), s # <<>>
    PROVE  /\ Len(s) \in Nat \ {0}
           /\ Head(s) = s[1] /\ s[1] \in S
           /\ Tail(s) \in Seq(S)
           /\ Len(Tail(s)) = Len(s) - 1
           /\ \A i \in 2 .. Len(s) : Tail(s)[i - 1] = s[i]
    OBVIOUS

(* Sending a result keeps the errors in the channel, and adds one's own. *)
LEMMA SendKeepsErrors ==
    ASSUME LifecycleType, ErrorsKept,
           NEW e \in {"nil", "httpError", "udpError"}, stopped' = Append(stopped, e),
           result' = result, e # "nil" \/ failed' = failed
    PROVE  ErrorsKept'
  <1>1. stopped \in Seq({"nil", "httpError", "udpError"})
    BY DEF LifecycleType
  <1>2. Len(stopped) \in Nat
    BY <1>1
  <1>3. /\ Len(stopped') = Len(stopped) + 1
        /\ stopped'[Len(stopped) + 1] = e
        /\ \A i \in 1 .. Len(stopped) : stopped'[i] = stopped[i]
    BY <1>1, Sent
  <1>4. CASE e # "nil"
    BY <1>2, <1>3, <1>4 DEF ErrorsKept
  <1>5. CASE failed' = failed
    BY <1>2, <1>3, <1>5 DEF ErrorsKept
  <1> QED  BY <1>4, <1>5

(* Taking a result out of the channel keeps every error, because run holds *)
(* an error it has or takes the one it finds.                              *)
LEMMA ReceiveKeepsErrors ==
    ASSUME LifecycleType, ErrorsKept, stopped # <<>>, stopped' = Tail(stopped),
           result' = FirstError(result, Head(stopped)), failed' = failed
    PROVE  ErrorsKept' /\ result' \in Results
  <1>1. stopped \in Seq({"nil", "httpError", "udpError"}) /\ result \in Results
    BY DEF LifecycleType
  <1>2. /\ Len(stopped) \in Nat \ {0}
        /\ Head(stopped) = stopped[1] /\ stopped[1] \in {"nil", "httpError", "udpError"}
        /\ Len(stopped') = Len(stopped) - 1
        /\ \A i \in 2 .. Len(stopped) : stopped'[i - 1] = stopped[i]
    BY <1>1, Received
  <1>3. result' \in Results
    BY <1>1, <1>2 DEF FirstError, Results
  <1>4. ErrorsKept'
    <2>1. SUFFICES ASSUME failed # {}, result' = "nil"
                   PROVE  \E j \in 1 .. Len(stopped') : stopped'[j] # "nil"
      BY DEF ErrorsKept
    <2>2. result = "nil" /\ stopped[1] = "nil"
      BY <1>2, <2>1 DEF FirstError
    <2>3. PICK i \in 1 .. Len(stopped) : stopped[i] # "nil"
      BY <2>1, <2>2 DEF ErrorsKept
    <2>4. i \in 2 .. Len(stopped)
      BY <1>2, <2>2, <2>3
    <2> QED  BY <1>2, <2>3, <2>4
  <1> QED  BY <1>3, <1>4

-----------------------------------------------------------------------------
(* Every step of main, of a worker or of the world keeps the invariant. *)
LEMMA LifecycleStep ==
    ASSUME LifecycleInvariant, [Next]_vars
    PROVE  LifecycleInvariant'
  <1> USE DEF LifecycleInvariant, LifecycleType, Accounted, SelectHoldsNothing, ListenerClosed,
              ReturnsLast
  <1> USE RunningCounts
  <1>s. stopped \in Seq({"nil", "httpError", "udpError"}) /\ Len(stopped) \in Nat
    OBVIOUS
  <1>1. CASE Signal
    BY <1>1 DEF Signal, ErrorsKept
  <1>2. CASE RequestArrives
    BY <1>2 DEF RequestArrives, Alive, ErrorsKept
  <1>3. CASE RequestEnds
    BY <1>3 DEF RequestEnds, ErrorsKept
  <1>4. CASE HttpFails
    <2>1. /\ stopped' \in Seq({"nil", "httpError", "udpError"})
          /\ Len(stopped') = Len(stopped) + 1
      BY <1>4, <1>s, Sent DEF HttpFails
    <2>2. ErrorsKept'
      BY <1>4, SendKeepsErrors DEF HttpFails
    <2> QED  BY <1>4, <1>s, <2>1, <2>2 DEF HttpFails, Alive
  <1>5. CASE HttpStops
    <2>1. /\ stopped' \in Seq({"nil", "httpError", "udpError"})
          /\ Len(stopped') = Len(stopped) + 1
      BY <1>5, <1>s, Sent DEF HttpStops
    <2>2. ErrorsKept'
      BY <1>5, SendKeepsErrors DEF HttpStops
    <2> QED  BY <1>5, <1>s, <2>1, <2>2 DEF HttpStops, Alive
  <1>6. CASE UdpFails
    <2>1. /\ stopped' \in Seq({"nil", "httpError", "udpError"})
          /\ Len(stopped') = Len(stopped) + 1
      BY <1>6, <1>s, Sent DEF UdpFails
    <2>2. ErrorsKept'
      BY <1>6, SendKeepsErrors DEF UdpFails
    <2> QED  BY <1>6, <1>s, <2>1, <2>2 DEF UdpFails, Alive
  <1>7. CASE UdpStops
    <2>1. /\ stopped' \in Seq({"nil", "httpError", "udpError"})
          /\ Len(stopped') = Len(stopped) + 1
      BY <1>7, <1>s, Sent DEF UdpStops
    <2>2. ErrorsKept'
      BY <1>7, SendKeepsErrors DEF UdpStops
    <2> QED  BY <1>7, <1>s, <2>1, <2>2 DEF UdpStops, Alive
  <1>8. CASE AnnouncerFails
    BY <1>8 DEF AnnouncerFails, ErrorsKept
  <1>9. CASE AnnouncerStops
    BY <1>9 DEF AnnouncerStops, ErrorsKept
  <1>10. CASE MainReceives
    <2>1. /\ stopped' \in Seq({"nil", "httpError", "udpError"})
          /\ Len(stopped') = Len(stopped) - 1
          /\ Len(stopped) \in Nat \ {0}
      BY <1>10, <1>s, Received DEF MainReceives
    <2>2. result' = FirstError(result, Head(stopped))
      BY <1>10 DEF MainReceives, FirstError
    <2>3. ErrorsKept' /\ result' \in Results
      BY <1>10, <2>2, ReceiveKeepsErrors DEF MainReceives
    <2> QED  BY <1>10, <2>1, <2>3 DEF MainReceives
  <1>11. CASE MainCancelled
    BY <1>11 DEF MainCancelled, ErrorsKept
  <1>12. CASE MainShutdown
    BY <1>12 DEF MainShutdown, ErrorsKept
  <1>13. CASE MainShutdownReturns
    BY <1>13 DEF MainShutdownReturns, ErrorsKept
  <1>14. CASE MainShutdownTimesOut
    <2>1. result' \in Results /\ result' # "nil"
      BY <1>14 DEF MainShutdownTimesOut, FirstError, Results
    <2> QED  BY <1>14, <2>1 DEF MainShutdownTimesOut, ErrorsKept
  <1>15. CASE MainDrains
    <2>1. /\ stopped' \in Seq({"nil", "httpError", "udpError"})
          /\ Len(stopped') = Len(stopped) - 1
      BY <1>15, <1>s, Received DEF MainDrains
    <2>2. ErrorsKept' /\ result' \in Results
      BY <1>15, ReceiveKeepsErrors DEF MainDrains
    <2> QED  BY <1>15, <2>1, <2>2 DEF MainDrains
  <1>16. CASE MainReturns
    BY <1>16 DEF MainReturns, ErrorsKept
  <1>17. CASE UNCHANGED vars
    BY <1>17 DEF vars, ErrorsKept
  <1> QED  BY <1>1, <1>2, <1>3, <1>4, <1>5, <1>6, <1>7, <1>8, <1>9, <1>10, <1>11, <1>12, <1>13,
              <1>14, <1>15, <1>16, <1>17 DEF Next, MainStep

(* The accounting of workers and errors holds in every reachable state. *)
LEMMA LifecycleInvariantHolds == Spec => []LifecycleInvariant
  <1>1. Init => LifecycleInvariant
    <2>1. SUFFICES ASSUME Init PROVE LifecycleInvariant
      OBVIOUS
    <2>2. Running(http) = 1 /\ Running(udp) = 1
      BY <2>1, RunningCounts DEF Init
    <2>3. LifecycleType
      <3>1. stopped \in Seq({"nil", "httpError", "udpError"})
        BY <2>1 DEF Init
      <3>2. requests \in 0 .. MaxRequests /\ workersRemaining \in 0 .. 2
        BY <2>1 DEF Init
      <3> QED  BY <2>1, <3>1, <3>2 DEF Init, LifecycleType, Results
    <2>4. Accounted
      BY <2>1, <2>2 DEF Init, Accounted
    <2> QED  BY <2>1, <2>3, <2>4 DEF Init, LifecycleInvariant, SelectHoldsNothing, ErrorsKept,
                              ListenerClosed, ReturnsLast
  <1>2. LifecycleInvariant /\ [Next]_vars => LifecycleInvariant'
    BY LifecycleStep
  <1> QED  BY <1>1, <1>2, PTL DEF Spec

-----------------------------------------------------------------------------
(* run of main.go closes the database only after the HTTP and the UDP      *)
(* worker have ended, and no HTTP request is in flight then unless         *)
(* Shutdown timed out: main counts down to zero, and each worker still     *)
(* running counts one.                                                     *)
THEOREM DatabaseSafe == Spec => []DatabaseOutlivesWorkers
  <1>1. LifecycleInvariant => DatabaseOutlivesWorkers
    <2>1. SUFFICES ASSUME LifecycleInvariant, main = "returned"
                   PROVE  /\ http = "done" /\ udp = "done"
                          /\ requests > 0 => timedOut
      BY DEF DatabaseOutlivesWorkers
    <2>2. Len(stopped) \in Nat /\ 0 = Len(stopped) + Running(http) + Running(udp)
      BY <2>1 DEF LifecycleInvariant, LifecycleType, Accounted, ReturnsLast
    <2> QED  BY <2>1, <2>2, RunningCounts DEF LifecycleInvariant, ListenerClosed
  <1> QED  BY <1>1, LifecycleInvariantHolds, PTL

(* When a worker has failed run returns an error, whatever made main leave *)
(* the select first: the channel is empty when it returns.                 *)
THEOREM ErrorsSurface == Spec => []WorkerErrorsReported
  <1>1. LifecycleInvariant => WorkerErrorsReported
    <2>1. SUFFICES ASSUME LifecycleInvariant, main = "returned", failed # {}
                   PROVE  result # "nil"
      BY DEF WorkerErrorsReported
    <2>2. Len(stopped) \in Nat /\ 0 = Len(stopped) + Running(http) + Running(udp)
      BY <2>1 DEF LifecycleInvariant, LifecycleType, Accounted, ReturnsLast
    <2>3. Len(stopped) = 0
      BY <2>2, RunningCounts
    <2> QED  BY <2>1, <2>3 DEF LifecycleInvariant, ErrorsKept
  <1> QED  BY <1>1, LifecycleInvariantHolds, PTL
=============================================================================
