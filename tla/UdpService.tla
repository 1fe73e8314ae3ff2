----------------------------- MODULE UdpService -----------------------------
(***************************************************************************)
(* The UDP side of the running logger (service.py, _serve, and             *)
(* wsjtx/listener.py): callbacks of the socket put datagrams on a bounded  *)
(* queue; one task takes them off and hands each to the ingestor in a      *)
(* worker thread; another binds the socket again when it is lost; and the  *)
(* main task stops them in order when the HTTP server returns.             *)
(*                                                                         *)
(* Callbacks and tasks share one event loop: a step is what runs between   *)
(* two awaits.  The worker thread runs beside the loop, so that its steps  *)
(* fall between any two of the loop's.  What the ingestor makes of a       *)
(* datagram is the business of UdpSenders and NetworkDedupe; here it is    *)
(* handled or it raises.                                                   *)
(***************************************************************************)
EXTENDS Naturals, Sequences, FiniteSets

CONSTANTS MaxQueue,      \* asyncio.Queue(maxsize=1024)
          MaxDatagrams,  \* bound: datagrams that arrive
          MaxFaults      \* bound: sockets lost, binds refused, calls that raise

ASSUME UdpServiceAssumption ==
    /\ MaxQueue \in Nat \ {0}
    /\ MaxDatagrams \in Nat
    /\ MaxFaults \in Nat

VARIABLES main,       \* where _serve is
          monitor,    \* where the task reconnect is
          worker,     \* where the task consume and its thread are
          socket,     \* the UDP socket; "closing" until connection_lost is called
          lost,       \* the event lost
          queue,      \* datagrams in the order of arrival, and the final Stop
          unfinished, \* items put and not yet task_done
          item,       \* what consume has taken
          received,   \* datagrams that arrived; also the number of the last one
          handled,    \* datagrams that the ingestor has handled, in that order
          dropped,    \* dropped_datagrams
          session,    \* the receiver session of the ingestor is open
          udpBound,   \* udp_bound is set
          udpError,   \* udp_error is set
          faults

taskVars   == <<main, monitor, worker>>
socketVars == <<socket, lost, udpBound, udpError>>
queueVars  == <<queue, unfinished, item>>
countVars  == <<received, handled, dropped>>
udpVars == <<taskVars, socketVars, queueVars, countVars, session, faults>>

Stop      == 0
Datagrams == 1..MaxDatagrams

UdpTypeOK ==
    /\ main \in {"bind", "bound", "serve", "close", "join", "put", "await", "end", "done"}
    /\ monitor \in {"none", "wait", "sleep", "bind"}
    /\ worker \in {"none", "get", "parse", "store", "return", "done"}
    /\ socket \in {"none", "opening", "open", "closing"}
    /\ lost \in BOOLEAN /\ udpBound \in BOOLEAN /\ udpError \in BOOLEAN
    /\ queue \in Seq(Datagrams \cup {Stop})
    /\ unfinished \in Nat
    /\ item \in Datagrams \cup {Stop}
    /\ received \in 0..MaxDatagrams
    /\ handled \in Seq(Datagrams)
    /\ dropped \in Nat
    /\ session \in BOOLEAN
    /\ faults \in 0..MaxFaults

UdpInit ==
    /\ main = "bind" /\ monitor = "none" /\ worker = "none"
    /\ socket = "none" /\ lost = FALSE /\ udpBound = FALSE /\ udpError = FALSE
    /\ queue = <<>> /\ unfinished = 0 /\ item = Stop
    /\ received = 0 /\ handled = <<>> /\ dropped = 0
    /\ session = TRUE
    /\ faults = 0

Fault == faults < MaxFaults /\ faults' = faults + 1

-----------------------------------------------------------------------------
\* Callbacks of the socket, on the event loop.

\* (mutant) A full queue loses the datagram without counting it.
OnUdpUncounted ==
    /\ queue' = IF Len(queue) < MaxQueue THEN Append(queue, received + 1) ELSE queue
    /\ unfinished' = IF Len(queue) < MaxQueue THEN unfinished + 1 ELSE unfinished
    /\ UNCHANGED dropped

\* on_udp: put_nowait, or count a loss where the queue is full.
OnUdp ==
    IF Len(queue) < MaxQueue
    THEN /\ queue' = Append(queue, received + 1)
         /\ unfinished' = unfinished + 1
         /\ UNCHANGED dropped
    ELSE /\ dropped' = dropped + 1
         /\ UNCHANGED <<queue, unfinished>>

DatagramReceived ==
    /\ socket = "open"
    /\ received < MaxDatagrams
    /\ received' = received + 1
    /\ OnUdp
    /\ UNCHANGED <<taskVars, socketVars, item, handled, session, faults>>

\* error_received: the socket stays open.
OnError ==
    /\ Fault
    /\ socket = "open"
    /\ udpError' = TRUE
    /\ UNCHANGED <<taskVars, socket, lost, udpBound, queueVars, countVars, session>>

\* The transport fails: it reads no more, and the loop calls connection_lost
\* later.
SocketFails ==
    /\ Fault
    /\ socket = "open"
    /\ socket' = "closing"
    /\ UNCHANGED <<taskVars, lost, udpBound, udpError, queueVars, countVars, session>>

\* on_lost, which wakes the monitor.
ConnectionLost ==
    /\ socket = "closing"
    /\ socket' = "none"
    /\ udpBound' = FALSE
    /\ udpError' = TRUE
    /\ lost' = TRUE
    /\ UNCHANGED <<taskVars, queueVars, countVars, session, faults>>

-----------------------------------------------------------------------------
\* bind_udp up to its await, and after it.
BindOpens ==
    /\ lost' = FALSE
    /\ socket' = "opening"
    /\ UNCHANGED <<udpBound, udpError>>

\* The loop runs what comes after the await before the socket's first callback.
BindReturns ==
    /\ socket' = "open"
    /\ udpBound' = TRUE
    /\ udpError' = FALSE
    /\ UNCHANGED lost

\* (mutant) The monitor ends with the first bind that is refused.
BindRefusedForGood == monitor' = "none" /\ lost' = FALSE /\ udpError' = TRUE

\* reconnect catches OSError: on_error, and lost is set again.
BindRefused == monitor' = "wait" /\ lost' = TRUE /\ udpError' = TRUE

MonitorWakes ==
    /\ monitor = "wait"
    /\ lost
    /\ monitor' = "sleep"
    /\ UNCHANGED <<main, worker, socketVars, queueVars, countVars, session, faults>>

MonitorBinds ==
    /\ monitor = "sleep"
    /\ \/ BindOpens /\ monitor' = "bind" /\ UNCHANGED faults
       \/ BindRefused /\ Fault /\ UNCHANGED <<socket, udpBound>>
    /\ UNCHANGED <<main, worker, queueVars, countVars, session>>

MonitorBound ==
    /\ monitor = "bind"
    /\ BindReturns
    /\ monitor' = "wait"
    /\ UNCHANGED <<main, worker, queueVars, countVars, session, faults>>

Monitor == MonitorWakes \/ MonitorBinds \/ MonitorBound

-----------------------------------------------------------------------------
\* consume, on the event loop, and handle_datagram, in the thread.

WorkerGets ==
    /\ worker = "get"
    /\ queue # <<>>
    /\ item' = Head(queue)
    /\ queue' = Tail(queue)
    /\ worker' = IF Head(queue) = Stop THEN "done" ELSE "parse"
    /\ unfinished' = IF Head(queue) = Stop THEN unfinished - 1 ELSE unfinished
    /\ UNCHANGED <<main, monitor, socketVars, countVars, session, faults>>

\* The thread parses the datagram; one that parses clears udp_error.
ThreadParses ==
    /\ worker = "parse"
    /\ \/ worker' = "store" /\ udpError' = FALSE /\ UNCHANGED handled
       \/ worker' = "return" /\ handled' = Append(handled, item) /\ UNCHANGED udpError
    /\ UNCHANGED <<main, monitor, socket, lost, udpBound, queueVars, received, dropped,
                   session, faults>>

ThreadStores ==
    /\ worker = "store"
    /\ worker' = "return"
    /\ handled' = Append(handled, item)
    /\ UNCHANGED <<main, monitor, socketVars, queueVars, received, dropped, session, faults>>

\* (mutant) An exception ends the task.
WorkerEnds == worker' = "done" /\ dropped' = dropped + 1 /\ UNCHANGED unfinished

\* (mutants) task_done is called in the handler of the exception and after it,
\* or not at all.
WorkerDoneTwice ==
    /\ worker' = "get"
    /\ dropped' = dropped + 1
    /\ unfinished' = unfinished - 2

WorkerNotDone == worker' = "get" /\ dropped' = dropped + 1 /\ UNCHANGED unfinished

\* An exception is counted as a loss, and the task goes on.
WorkerGoesOn ==
    /\ worker' = "get"
    /\ dropped' = dropped + 1
    /\ unfinished' = unfinished - 1

\* (mutant) The datagram is put back to be tried again.
ThreadRetries ==
    /\ Fault
    /\ worker \in {"parse", "store"}
    /\ worker' = "get"
    /\ queue' = Append(queue, item)
    /\ UNCHANGED <<main, monitor, socketVars, unfinished, item, countVars, session>>

ThreadRaises ==
    /\ Fault
    /\ worker \in {"parse", "store"}
    /\ WorkerGoesOn
    /\ UNCHANGED <<main, monitor, socketVars, queue, item, received, handled, session>>

WorkerFinishes ==
    /\ worker = "return"
    /\ worker' = "get"
    /\ unfinished' = unfinished - 1
    /\ UNCHANGED <<main, monitor, socketVars, queue, item, countVars, session, faults>>

Worker == WorkerGets \/ ThreadParses \/ ThreadStores \/ ThreadRaises \/ WorkerFinishes

-----------------------------------------------------------------------------
\* _serve.

Start ==
    /\ main = "bind"
    /\ \/ BindOpens /\ main' = "bound" /\ UNCHANGED faults
       \/ /\ Fault
          /\ main' = "end"
          /\ lost' = FALSE
          /\ UNCHANGED <<socket, udpBound, udpError>>
    /\ UNCHANGED <<monitor, worker, queueVars, countVars, session>>

Serve ==
    /\ main = "bound"
    /\ BindReturns
    /\ main' = "serve" /\ worker' = "get" /\ monitor' = "wait"
    /\ UNCHANGED <<queueVars, countVars, session, faults>>

\* The HTTP server returns: the monitor is cancelled; one that is in the await
\* of bind_udp closes the socket it was opening.
Cancel ==
    /\ main = "serve"
    /\ main' = "close"
    /\ monitor' = "none"
    /\ socket' = IF monitor = "bind" THEN "closing" ELSE socket
    /\ UNCHANGED <<worker, lost, udpBound, udpError, queueVars, countVars, session, faults>>

\* (mutant) The socket stays open while the queue is drained.
CloseTransportLater ==
    /\ main = "close"
    /\ main' = "join"
    /\ UNCHANGED <<monitor, worker, socketVars, queueVars, countVars, session, faults>>

CloseTransport ==
    /\ main = "close"
    /\ main' = "join"
    /\ socket' = IF socket = "open" THEN "closing" ELSE socket
    /\ UNCHANGED <<monitor, worker, lost, udpBound, udpError, queueVars, countVars, session,
                   faults>>

Join ==
    /\ main = "join"
    /\ unfinished = 0
    /\ main' = "put"
    /\ UNCHANGED <<monitor, worker, socketVars, queueVars, countVars, session, faults>>

PutStop ==
    /\ main = "put"
    /\ Len(queue) < MaxQueue
    /\ queue' = Append(queue, Stop)
    /\ unfinished' = unfinished + 1
    /\ main' = "await"
    /\ UNCHANGED <<monitor, worker, socketVars, item, countVars, session, faults>>

AwaitWorker ==
    /\ main = "await"
    /\ worker = "done"
    /\ main' = "end"
    /\ UNCHANGED <<monitor, worker, socketVars, queueVars, countVars, session, faults>>

CloseSession ==
    /\ main = "end"
    /\ session' = FALSE
    /\ main' = "done"
    /\ UNCHANGED <<monitor, worker, socketVars, queueVars, countVars, faults>>

Main == Start \/ Serve \/ CloseTransport \/ Join \/ PutStop \/ AwaitWorker \/ CloseSession

UdpNext ==
    \/ DatagramReceived \/ OnError \/ SocketFails \/ ConnectionLost
    \/ Monitor \/ Worker \/ Main \/ Cancel

UdpSpec == UdpInit /\ [][UdpNext]_udpVars

-----------------------------------------------------------------------------
Queued == {i \in Datagrams : \E j \in 1..Len(queue) : queue[j] = i}
InWork == IF worker \in {"parse", "store"} THEN {item} ELSE {}
Handled == {handled[j] : j \in 1..Len(handled)}

\* A datagram that arrived is in one place: queued, in work, handled, or counted
\* as lost (dropped_datagrams) where the queue was full or the ingestor raised.
EveryDatagramAccounted ==
    /\ received = Cardinality(Queued) + Cardinality(InWork) + Len(handled) + dropped
    /\ Queued \cap (InWork \cup Handled) = {}

\* Datagrams are handled in the order of their arrival, through the queue, the
\* await of the thread, and losses in between.
HandledInOrder ==
    LET taken == handled \o queue IN
    \A i, j \in 1..Len(taken) :
        i < j /\ Stop \notin {taken[i], taken[j]} => taken[i] < taken[j]

\* The receiver session is closed when nothing is left to handle: everything
\* queued before the shutdown was handled in it.
SavesBeforeClose ==
    ~session => /\ InWork = {} /\ Queued = {}
                /\ received = Len(handled) + dropped
                /\ socket \notin {"opening", "open"}

\* udp_error shows an active fault (docs/SETUP.md): it is set as long as there
\* is no listener.
UdpErrorShowsFault == main = "serve" /\ socket = "none" => udpError

\* A lost listener is bound again, or the logger stops.
ListenerReturns ==
    (main = "serve" /\ socket = "none") ~> (socket = "open" \/ main # "serve")

\* A datagram on the queue does not stay there, whatever those before it did.
QueueMoves == \A i \in Datagrams : (i \in Queued) ~> (i \notin Queued)

\* A stopped logger ends: nothing waits for what never comes.
ShutdownEnds == (main = "close") ~> (main = "done")
=============================================================================
