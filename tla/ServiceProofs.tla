---------------------------- MODULE ServiceProofs ----------------------------
(***************************************************************************)
(* Proofs about the running service: its UDP side (UdpService), for a queue*)
(* of any size and any number of datagrams and faults; the feeds of space  *)
(* weather (PropagationFeeds); and the panels of the dashboard (Dashboard).*)
(* They share no state; at the end, what holds of each is put together for *)
(* the specification of MCService, in which each has its behaviours.       *)
(***************************************************************************)
EXTENDS MCService, DataLemmas

-----------------------------------------------------------------------------
(***************************************************************************)
(* UdpService: no datagram is lost uncounted, none overtakes another, and  *)
(* the session is closed when none is left.                                *)
(***************************************************************************)
InTask == worker \in {"parse", "store"}
Busy   == IF worker \in {"parse", "store", "return"} THEN 1 ELSE 0
Stopped == main \in {"await", "end", "done"}

\* What the tasks, the socket and the queue can be while _serve is somewhere.
Control ==
    /\ main \in {"bind", "bound"} => worker = "none"
    /\ monitor # "none" => main = "serve"
    /\ socket = "opening" => main = "bound" \/ monitor = "bind"
    /\ main = "bind" => socket = "none"
    /\ main = "bound" => socket = "opening"
    /\ main \in {"join", "put"} \/ Stopped => socket \notin {"opening", "open"}
    /\ worker = "none" => queue = <<>> /\ main \in {"bind", "bound", "end", "done"}
    /\ worker = "done" => Stopped /\ queue = <<>>
    /\ main = "put" => queue = <<>> /\ Busy = 0
    /\ main = "await" => Len(queue) <= 1 /\ Busy = 0
    /\ main \in {"end", "done"} => queue = <<>> /\ Busy = 0
    /\ session = FALSE => main = "done"

\* Stop is on the queue only when nothing else is.
StopIsLast == \A j \in 1..Len(queue) : queue[j] = Stop <=> main = "await"

\* Every item of the queue is one that join waits for, and every datagram is somewhere.
Counted ==
    /\ unfinished = Len(queue) + Busy
    /\ received = (IF Stopped THEN 0 ELSE Len(queue)) + (IF InTask THEN 1 ELSE 0)
                     + Len(handled) + dropped

\* Handled, in work and queued datagrams follow each other in the order of arrival.
Ordered ==
    /\ \A j \in 1..Len(queue) : queue[j] <= received
    /\ \A i, j \in 1..Len(queue) : i < j => queue[i] < queue[j]
    /\ InTask => /\ item \in Datagrams /\ item <= received
                 /\ \A j \in 1..Len(queue) : item < queue[j]
    /\ \A i \in 1..Len(handled) :
          /\ handled[i] <= received
          /\ InTask => handled[i] < item
          /\ \A j \in 1..Len(queue) : queue[j] # Stop => handled[i] < queue[j]
    /\ \A i, j \in 1..Len(handled) : i < j => handled[i] < handled[j]

ServiceInv == UdpTypeOK /\ Control /\ StopIsLast /\ Counted /\ Ordered

-----------------------------------------------------------------------------
\* What the sequences of a state hold
LEMMA Elements ==
    ASSUME UdpTypeOK
    PROVE  /\ Len(queue) \in Nat /\ Len(handled) \in Nat
           /\ \A j \in 1..Len(queue) : queue[j] \in Nat
           /\ \A j \in 1..Len(handled) : handled[j] \in Datagrams
           /\ received \in Nat /\ dropped \in Nat /\ unfinished \in Nat
           /\ queue = <<>> <=> Len(queue) = 0
<1>1. queue \in Seq(Datagrams \cup {Stop}) /\ handled \in Seq(Datagrams)
  BY DEF UdpTypeOK
<1>2. Datagrams \cup {Stop} \subseteq Nat
  BY UdpServiceAssumption DEF Datagrams, Stop
<1>3. /\ Len(queue) \in Nat /\ Len(handled) \in Nat
      /\ \A j \in 1..Len(queue) : queue[j] \in Nat
      /\ \A j \in 1..Len(handled) : handled[j] \in Datagrams
  BY <1>1, <1>2, LenProperties, ElementOfSeq
<1>4. queue = <<>> <=> Len(queue) = 0
  BY <1>1, EmptySeq
<1> QED
  BY <1>3, <1>4, UdpServiceAssumption DEF UdpTypeOK

\* A step that touches neither the queue nor the counts, and starts or ends no work
LEMMA QuietStep ==
    ASSUME ServiceInv, UNCHANGED <<queueVars, countVars>>,
           worker' = worker \/ (worker = "none" /\ worker' = "get"),
           main' = "await" => main = "await",
           main = "await" => main' \in {"await", "end"},
           main \in {"end", "done"} => main' \in {"end", "done"},
           main' \in {"end", "done"} => Len(queue) = 0
    PROVE  StopIsLast' /\ Counted' /\ Ordered'
<1>1. InTask' = InTask /\ Busy' = Busy
  BY DEF InTask, Busy
<1>2. (IF Stopped THEN 0 ELSE Len(queue))' = IF Stopped THEN 0 ELSE Len(queue)
  BY DEF Stopped, queueVars
<1>3. Counted'
  BY <1>1, <1>2 DEF ServiceInv, Counted, queueVars, countVars
<1>4. StopIsLast'
  <2>1. Len(queue) = 0 \/ (main' = "await" <=> main = "await")
    OBVIOUS
  <2>2. Len(queue) = 0 => 1..Len(queue) = {}
    OBVIOUS
  <2> QED
    BY <2>1, <2>2 DEF ServiceInv, StopIsLast, queueVars
<1>5. Ordered'
  BY <1>1 DEF ServiceInv, Ordered, queueVars, countVars
<1> QED
  BY <1>3, <1>4, <1>5

LEMMA SocketSteps ==
    ASSUME ServiceInv, OnError \/ SocketFails \/ ConnectionLost
    PROVE  ServiceInv'
<1>1. UNCHANGED <<taskVars, queueVars, countVars, session>>
  BY DEF OnError, SocketFails, ConnectionLost
<1>2. UdpTypeOK'
  <2>1. (lost \in BOOLEAN /\ udpBound \in BOOLEAN /\ udpError \in BOOLEAN /\ session \in BOOLEAN)'
    BY <1>1, Zenon DEF ServiceInv, UdpTypeOK, OnError, SocketFails, ConnectionLost
  <2>2. socket' \in {"none", "opening", "open", "closing"} /\ faults' \in 0..MaxFaults
    BY UdpServiceAssumption DEF ServiceInv, UdpTypeOK, OnError, SocketFails, ConnectionLost, Fault
  <2> QED
    BY <1>1, <2>1, <2>2 DEF ServiceInv, UdpTypeOK, taskVars, queueVars, countVars
<1>3. Control'
  BY <1>1 DEF ServiceInv, Control, Stopped, Busy, OnError, SocketFails, ConnectionLost,
              taskVars, queueVars
<1>4. StopIsLast' /\ Counted' /\ Ordered'
  <2>1. /\ main' = main /\ worker' = worker
        /\ main' \in {"end", "done"} => Len(queue) = 0
    BY <1>1, Elements DEF ServiceInv, Control, taskVars
  <2> QED
    BY <1>1, <2>1, QuietStep
<1> QED
  BY <1>2, <1>3, <1>4 DEF ServiceInv

LEMMA MonitorSteps ==
    ASSUME ServiceInv, Monitor
    PROVE  ServiceInv'
<1>1. UNCHANGED <<main, worker, queueVars, countVars, session>>
  BY DEF Monitor, MonitorWakes, MonitorBinds, MonitorBound
<1>2. UdpTypeOK'
  <2>1. (lost \in BOOLEAN /\ udpBound \in BOOLEAN /\ udpError \in BOOLEAN /\ session \in BOOLEAN)'
    BY <1>1, Zenon DEF ServiceInv, UdpTypeOK, Monitor, MonitorWakes, MonitorBinds, MonitorBound,
                       BindOpens, BindReturns, BindRefused, socketVars
  <2>2. /\ socket' \in {"none", "opening", "open", "closing"} /\ faults' \in 0..MaxFaults
        /\ monitor' \in {"none", "wait", "sleep", "bind"}
    BY UdpServiceAssumption
    DEF ServiceInv, UdpTypeOK, Monitor, MonitorWakes, MonitorBinds, MonitorBound, BindOpens, BindReturns,
        BindRefused, Fault, socketVars
  <2> QED
    BY <1>1, <2>1, <2>2 DEF ServiceInv, UdpTypeOK, queueVars, countVars
<1>3. Control'
  BY <1>1 DEF ServiceInv, Control, Stopped, Busy, Monitor, MonitorWakes, MonitorBinds, MonitorBound,
              BindOpens, BindReturns, BindRefused, socketVars, queueVars
<1>4. StopIsLast' /\ Counted' /\ Ordered'
  <2>1. /\ main' = main /\ worker' = worker
        /\ main' \in {"end", "done"} => Len(queue) = 0
    BY <1>1, Elements DEF ServiceInv, Control
  <2> QED
    BY <1>1, <2>1, QuietStep
<1> QED
  BY <1>2, <1>3, <1>4 DEF ServiceInv

\* The steps of _serve but PutStop
LEMMA MainSteps ==
    ASSUME ServiceInv,
           Start \/ Serve \/ Cancel \/ CloseTransport \/ Join \/ AwaitWorker \/ CloseSession
    PROVE  ServiceInv'
<1> USE DEF Start, Serve, Cancel, CloseTransport, Join, AwaitWorker, CloseSession, BindOpens,
            BindReturns, Fault
<1>1. UNCHANGED <<queueVars, countVars>>
  OBVIOUS
<1>2. UdpTypeOK'
  <2>1. (lost \in BOOLEAN /\ udpBound \in BOOLEAN /\ udpError \in BOOLEAN /\ session \in BOOLEAN)'
    BY Zenon DEF ServiceInv, UdpTypeOK, socketVars
  <2>2. /\ main' \in {"bind", "bound", "serve", "close", "join", "put", "await", "end", "done"}
        /\ monitor' \in {"none", "wait", "sleep", "bind"}
        /\ worker' \in {"none", "get", "parse", "store", "return", "done"}
        /\ socket' \in {"none", "opening", "open", "closing"} /\ faults' \in 0..MaxFaults
    BY UdpServiceAssumption DEF ServiceInv, UdpTypeOK, socketVars
  <2> QED
    BY ONLY <1>1, <2>1, <2>2, ServiceInv DEF ServiceInv, UdpTypeOK, queueVars, countVars
<1>3. Control'
  <2>1. UNCHANGED queue
    BY <1>1 DEF queueVars
  <2>2. worker' = worker \/ (worker = "none" /\ worker' = "get")
    BY DEF ServiceInv, Control
  <2>3. Busy' = Busy
    BY <2>2 DEF Busy
  <2>4. Join => queue = <<>> /\ Busy = 0
    BY Elements DEF ServiceInv, Counted, Busy
  <2>5. worker = "done" \/ worker = "none" => Busy = 0
    BY DEF Busy
  <2>6. (session = FALSE => main = "done")'
    BY DEF ServiceInv, Control
  <2>7. CASE Start \/ Serve \/ CloseSession
    BY <2>1, <2>2, <2>3, <2>5, <2>6, <2>7 DEF ServiceInv, Control, Stopped, socketVars
  <2>8. CASE Cancel \/ CloseTransport
    BY <2>1, <2>2, <2>3, <2>6, <2>8 DEF ServiceInv, Control, Stopped, socketVars
  <2>9. CASE Join \/ AwaitWorker
    BY <2>1, <2>2, <2>3, <2>4, <2>6, <2>9 DEF ServiceInv, Control, Stopped, socketVars
  <2> QED
    BY <2>7, <2>8, <2>9
<1>4. StopIsLast' /\ Counted' /\ Ordered'
  <2>1. /\ worker' = worker \/ (worker = "none" /\ worker' = "get")
        /\ main' = "await" => main = "await"
        /\ main = "await" => main' \in {"await", "end"}
        /\ main \in {"end", "done"} => main' \in {"end", "done"}
    BY DEF ServiceInv, Control
  <2>2. main' \in {"end", "done"} => Len(queue) = 0
    BY <1>1, <1>3, Elements DEF ServiceInv, Control, queueVars
  <2> QED
    BY ONLY <1>1, <2>1, <2>2, QuietStep, ServiceInv
<1> QED
  BY <1>2, <1>3, <1>4 DEF ServiceInv

-----------------------------------------------------------------------------
\* What an item at the end of the queue does to its elements
LEMMA Appended ==
    ASSUME UdpTypeOK, NEW x \in Nat, queue' = Append(queue, x)
    PROVE  /\ Len(queue') = Len(queue) + 1
           /\ \A j \in 1..Len(queue) : queue'[j] = queue[j]
           /\ queue'[Len(queue) + 1] = x
<1>1. queue \in Seq(Nat)
  BY UdpServiceAssumption DEF UdpTypeOK, Datagrams, Stop
<1> QED
  BY <1>1, AppendProperties

LEMMA ReceiveStep ==
    ASSUME ServiceInv, DatagramReceived
    PROVE  ServiceInv'
<1>1. /\ received' = received + 1 /\ received' \in Datagrams /\ received \in Nat
      /\ UNCHANGED <<main, monitor, worker, socket, item, handled, session>>
  BY UdpServiceAssumption DEF ServiceInv, UdpTypeOK, Datagrams, DatagramReceived, taskVars, socketVars
<1>2. main \notin {"bind", "bound", "join", "put"} /\ ~Stopped /\ worker # "none" /\ worker # "done"
  BY DEF ServiceInv, Control, Stopped, DatagramReceived
<1>3. UdpTypeOK'
  <2>1. (queue \in Seq(Datagrams \cup {Stop}) /\ unfinished \in Nat /\ dropped \in Nat)'
    <3>1. queue \in Seq(Datagrams \cup {Stop}) /\ received' \in Datagrams \cup {Stop}
      BY <1>1 DEF ServiceInv, UdpTypeOK
    <3>2. Append(queue, received') \in Seq(Datagrams \cup {Stop})
      BY <3>1, AppendProperties
    <3>3. queue' \in {queue, Append(queue, received')}
      BY <1>1 DEF DatagramReceived, OnUdp
    <3>4. unfinished' \in {unfinished, unfinished + 1} /\ dropped' \in {dropped, dropped + 1}
      BY DEF DatagramReceived, OnUdp
    <3> QED
      <4>1. queue' \in Seq(Datagrams \cup {Stop})
        BY <3>1, <3>2, <3>3
      <4>2. unfinished' \in Nat /\ dropped' \in Nat
        BY <3>4, Elements DEF ServiceInv
      <4> QED
        BY <4>1, <4>2
  <2>2. (lost \in BOOLEAN /\ udpBound \in BOOLEAN /\ udpError \in BOOLEAN /\ session \in BOOLEAN)'
    BY Zenon DEF ServiceInv, UdpTypeOK, DatagramReceived, socketVars
  <2>3. faults' \in 0..MaxFaults /\ received' \in 0..MaxDatagrams
    BY <1>1, UdpServiceAssumption DEF ServiceInv, UdpTypeOK, DatagramReceived, Datagrams
  <2> QED
    BY <1>1, <2>1, <2>2, <2>3 DEF ServiceInv, UdpTypeOK
<1>4. CASE Len(queue) < MaxQueue
  <2>1. /\ Len(queue') = Len(queue) + 1
        /\ \A j \in 1..Len(queue) : queue'[j] = queue[j]
        /\ queue'[Len(queue) + 1] = received'
    BY <1>1, <1>4, Appended DEF ServiceInv, DatagramReceived, OnUdp, Datagrams
  <2>2. unfinished' = unfinished + 1 /\ dropped' = dropped
    BY <1>4 DEF DatagramReceived, OnUdp
  <2>3. \A j \in 1..Len(queue') : j \in 1..Len(queue) \/ j = Len(queue) + 1
    BY <2>1, Elements DEF ServiceInv
  <2>4. Control'
    BY <1>1, <1>2 DEF ServiceInv, Control, Stopped, Busy
  <2>5. StopIsLast'
    BY <1>1, <1>2, <2>1, <2>3, Elements DEF ServiceInv, StopIsLast, Stopped, Stop
  <2>6. Counted'
    <3>1. Busy' = Busy /\ Busy \in Nat /\ (IF InTask THEN 1 ELSE 0)' = IF InTask THEN 1 ELSE 0
      BY <1>1 DEF Busy, InTask
    <3>2. /\ (IF Stopped THEN 0 ELSE Len(queue))' = Len(queue) + 1
          /\ (IF Stopped THEN 0 ELSE Len(queue)) = Len(queue)
      BY <1>1, <1>2, <2>1 DEF Stopped
    <3>3. /\ Len(queue) \in Nat /\ Len(handled) \in Nat /\ dropped \in Nat /\ received \in Nat
          /\ (IF InTask THEN 1 ELSE 0) \in Nat
      BY Elements DEF ServiceInv
    <3>4. unfinished' = Len(queue') + Busy'
      <4>1. unfinished = Len(queue) + Busy
        BY DEF ServiceInv, Counted
      <4> QED
        BY <2>1, <2>2, <3>1, <3>3, <4>1
    <3>5. received' = (Len(queue) + 1) + (IF InTask THEN 1 ELSE 0) + Len(handled) + dropped
      <4>1. received = (IF Stopped THEN 0 ELSE Len(queue)) + (IF InTask THEN 1 ELSE 0)
                          + Len(handled) + dropped
        BY Zenon DEF ServiceInv, Counted
      <4>2. received = Len(queue) + (IF InTask THEN 1 ELSE 0) + Len(handled) + dropped
        BY <3>2, <4>1
      <4> QED
        BY <1>1, <3>3, <4>2
    <3>6. handled' = handled /\ dropped' = dropped
      BY <1>1, <2>2
    <3>7. (IF Stopped THEN 0 ELSE Len(queue))' + (IF InTask THEN 1 ELSE 0)' + Len(handled') + dropped'
             = (Len(queue) + 1) + (IF InTask THEN 1 ELSE 0) + Len(handled) + dropped
      BY <3>1, <3>2, <3>6
    <3> QED
      BY <3>4, <3>5, <3>7 DEF Counted
  <2>7. Ordered'
    <3>1. InTask' <=> InTask
      BY <1>1 DEF InTask
    <3>2. /\ \A j \in 1..Len(queue') : queue'[j] <= received'
          /\ \A i, j \in 1..Len(queue') : i < j => queue'[i] < queue'[j]
      <4>1. /\ Len(queue) \in Nat /\ received \in Nat /\ received' = received + 1
            /\ \A j \in 1..Len(queue) : queue[j] \in Nat /\ queue[j] <= received
        BY <1>1, Elements DEF ServiceInv, Ordered
      <4>2. \A i, j \in 1..Len(queue) : i < j => queue[i] < queue[j]
        BY DEF ServiceInv, Ordered
      <4>3. \A j \in 1..Len(queue) : queue'[j] <= received /\ queue'[j] \in Nat
        BY <2>1, <4>1
      <4>4. \A j \in 1..Len(queue') : queue'[j] <= received'
        BY <2>1, <2>3, <4>1, <4>3
      <4>5. ASSUME NEW i \in 1..Len(queue'), NEW j \in 1..Len(queue'), i < j
            PROVE  queue'[i] < queue'[j]
        <5>1. i \in 1..Len(queue)
          BY <2>1, <4>1, <4>5
        <5>2. CASE j \in 1..Len(queue)
          BY <2>1, <4>2, <4>5, <5>1, <5>2
        <5>3. CASE j = Len(queue) + 1
          BY <2>1, <4>1, <4>3, <5>1, <5>3
        <5> QED
          BY <2>3, <5>2, <5>3
      <4> QED
        BY <4>4, <4>5
    <3>3. \A x \in Nat : x <= received => x < received' /\ x <= received'
      BY <1>1
    <3>4. item \in Datagrams => item \in Nat
      BY DEF Datagrams
    <3>5. InTask => \A j \in 1..Len(queue') : item < queue'[j]
      BY <2>1, <2>3, <3>3, <3>4 DEF ServiceInv, Ordered
    <3>6. \A i \in 1..Len(handled) : handled[i] \in Nat
      BY Elements DEF ServiceInv, Datagrams
    <3>7. \A i \in 1..Len(handled) : \A j \in 1..Len(queue') :
             queue'[j] # Stop => handled[i] < queue'[j]
      BY <2>1, <2>3, <3>3, <3>6 DEF ServiceInv, Ordered
    <3>8. InTask => item \in Datagrams /\ item <= received'
      BY <3>3, <3>4 DEF ServiceInv, Ordered
    <3>9. /\ \A i \in 1..Len(handled) : handled[i] <= received' /\ (InTask => handled[i] < item)
          /\ \A i, j \in 1..Len(handled) : i < j => handled[i] < handled[j]
      BY <3>3, <3>6 DEF ServiceInv, Ordered
    <3>10. UNCHANGED <<item, handled>>
      BY <1>1
    <3> QED
      BY <3>1, <3>2, <3>5, <3>7, <3>8, <3>9, <3>10 DEF Ordered
  <2> QED
    BY <1>3, <2>4, <2>5, <2>6, <2>7 DEF ServiceInv
<1>5. CASE ~(Len(queue) < MaxQueue)
  <2>1. queue' = queue /\ unfinished' = unfinished /\ dropped' = dropped + 1
    BY <1>5 DEF DatagramReceived, OnUdp
  <2>2. Control'
    BY <1>1, <1>2 DEF ServiceInv, Control, Stopped, Busy
  <2>3. StopIsLast'
    BY <1>1, <2>1 DEF ServiceInv, StopIsLast
  <2>4. Counted'
    <3>1. /\ Busy' = Busy /\ (IF InTask THEN 1 ELSE 0)' = (IF InTask THEN 1 ELSE 0)
          /\ (IF Stopped THEN 0 ELSE Len(queue))' = (IF Stopped THEN 0 ELSE Len(queue))
          /\ handled' = handled /\ received' = received + 1
      BY <1>1, <1>2, <2>1 DEF Busy, InTask, Stopped
    <3>2. Len(queue) \in Nat /\ Len(handled) \in Nat /\ dropped \in Nat /\ received \in Nat
      BY Elements DEF ServiceInv
    <3>3. /\ unfinished = Len(queue) + Busy
          /\ received = (IF Stopped THEN 0 ELSE Len(queue)) + (IF InTask THEN 1 ELSE 0)
                           + Len(handled) + dropped
      BY Zenon DEF ServiceInv, Counted
    <3>4. received' = (IF Stopped THEN 0 ELSE Len(queue)) + (IF InTask THEN 1 ELSE 0)
                         + Len(handled) + (dropped + 1)
      <4> DEFINE a == IF Stopped THEN 0 ELSE Len(queue)
                 b == IF InTask THEN 1 ELSE 0
      <4>1. a \in Nat /\ b \in Nat
        BY <3>2
      <4>2. received = a + b + Len(handled) + dropped
        BY <3>3
      <4> HIDE DEF a, b
      <4>3. received' = a + b + Len(handled) + (dropped + 1)
        BY <3>1, <3>2, <4>1, <4>2
      <4> QED
        BY <4>3 DEF a, b
    <3> QED
      BY <2>1, <3>1, <3>3, <3>4 DEF Counted
  <2>5. Ordered'
    <3>1. InTask' <=> InTask
      BY <1>1 DEF InTask
    <3>2. \A x \in Nat : x <= received => x <= received'
      BY <1>1
    <3>3. /\ item \in Datagrams => item \in Nat
          /\ \A i \in 1..Len(handled) : handled[i] \in Nat
      BY Elements DEF ServiceInv, Datagrams
    <3> QED
      BY <1>1, <2>1, <3>1, <3>2, <3>3, Elements DEF ServiceInv, Ordered
  <2> QED
    BY <1>3, <2>2, <2>3, <2>4, <2>5 DEF ServiceInv
<1> QED
  BY <1>4, <1>5

LEMMA PutStopStep ==
    ASSUME ServiceInv, PutStop
    PROVE  ServiceInv'
<1> USE UdpServiceAssumption DEF PutStop, socketVars, countVars
<1>1. /\ UNCHANGED <<monitor, worker, socket, item, received, handled, dropped, session, lost,
                     udpBound, udpError, faults>>
      /\ main = "put" /\ main' = "await" /\ unfinished' = unfinished + 1
      /\ queue = <<>> /\ Busy = 0 /\ Busy' = Busy /\ InTask' = InTask /\ ~InTask
  BY DEF ServiceInv, Control, Busy, InTask
<1>2. Len(queue) = 0 /\ Len(queue') = 1 /\ queue'[1] = Stop
  BY <1>1, Appended, Elements DEF ServiceInv, Stop
<1>3. UdpTypeOK'
  <2>1. queue' \in Seq(Datagrams \cup {Stop}) /\ unfinished' \in Nat
    BY <1>1, AppendProperties DEF ServiceInv, UdpTypeOK
  <2> QED
    BY <1>1, <2>1 DEF ServiceInv, UdpTypeOK
<1>4. Control'
  BY <1>1, <1>2 DEF ServiceInv, Control, Stopped
<1>5. StopIsLast'
  BY <1>1, <1>2 DEF StopIsLast
<1>6. Counted'
  BY <1>1, <1>2, Elements DEF ServiceInv, Counted, Busy, InTask, Stopped
<1>7. Ordered'
  BY <1>1, <1>2, Elements DEF ServiceInv, Ordered, Stop
<1> QED
  BY <1>3, <1>4, <1>5, <1>6, <1>7 DEF ServiceInv

-----------------------------------------------------------------------------
LEMMA GetStep ==
    ASSUME ServiceInv, WorkerGets
    PROVE  ServiceInv'
<1>1. /\ queue \in Seq(Datagrams \cup {Stop}) /\ queue # <<>>
      /\ Head(queue) \in Datagrams \cup {Stop} /\ Tail(queue) \in Seq(Datagrams \cup {Stop})
      /\ Len(Tail(queue)) = Len(queue) - 1 /\ Len(queue) \in Nat \ {0}
      /\ \A j \in 1..Len(Tail(queue)) : Tail(queue)[j] = queue[j + 1]
      /\ Head(queue) = queue[1]
  BY HeadTailProperties, EmptySeq, LenProperties DEF ServiceInv, UdpTypeOK, WorkerGets
<1>2. /\ UNCHANGED <<main, monitor, received, handled, dropped, session, socket>>
      /\ queue' = Tail(queue) /\ item' = queue[1] /\ worker = "get"
      /\ worker' = IF queue[1] = Stop THEN "done" ELSE "parse"
      /\ unfinished' = IF queue[1] = Stop THEN unfinished - 1 ELSE unfinished
  BY <1>1 DEF WorkerGets, socketVars, countVars
<1>3. /\ unfinished = Len(queue) /\ Len(queue') = Len(queue) - 1
      /\ \A j \in 1..Len(queue') : j + 1 \in 1..Len(queue) /\ queue'[j] = queue[j + 1]
      /\ queue[1] = Stop <=> main = "await"
      /\ Busy = 0 /\ ~InTask
  BY <1>1, <1>2 DEF ServiceInv, Counted, StopIsLast, Busy, InTask
<1>4. /\ main \notin {"bind", "bound", "put", "end", "done"}
      /\ main = "await" => queue' = <<>> /\ Len(queue) = 1
  <2>1. main = "await" => Len(queue) = 1
    BY <1>1 DEF ServiceInv, Control
  <2>2. Len(Tail(queue)) = 0 => Tail(queue) = <<>>
    BY <1>1, EmptySeq
  <2> QED
    BY <1>1, <1>2, <2>1, <2>2 DEF ServiceInv, Control
<1>5. UdpTypeOK'
  <2>1. (queue \in Seq(Datagrams \cup {Stop}) /\ item \in Datagrams \cup {Stop})'
    BY <1>1, <1>2
  <2>2. worker' \in {"parse", "done"} /\ unfinished' \in Nat
    BY <1>1, <1>2, <1>3
  <2> QED
    BY <1>2, <2>1, <2>2 DEF ServiceInv, UdpTypeOK, WorkerGets, socketVars
<1>6. Control'
  <2>1. main = "await" => Busy' = 0
    BY <1>2, <1>3 DEF Busy
  <2>2. worker' \in {"parse", "done"} /\ (worker' = "done" <=> main = "await")
    BY <1>2, <1>3
  <2>3. main = "await" => Len(queue') <= 1
    <3>1. main = "await" => Len(queue) = 1
      BY <1>4
    <3>2. Len(queue') = Len(queue) - 1
      BY <1>3
    <3> QED
      BY <3>1, <3>2
  <2> QED
    BY <1>2, <1>4, <2>1, <2>2, <2>3 DEF ServiceInv, Control, Stopped
<1>7. StopIsLast'
  BY <1>2, <1>3 DEF ServiceInv, StopIsLast
<1>8. Counted'
  <2>1. CASE queue[1] = Stop
    BY <1>1, <1>2, <1>3, <2>1 DEF ServiceInv, Counted, Busy, InTask, Stopped
  <2>2. CASE queue[1] # Stop
    <3>1. ~Stopped
      BY <1>3, <1>4, <2>2 DEF Stopped
    <3>2. ~Stopped' /\ InTask' /\ Busy' = 1
      BY <1>2, <2>2, <3>1 DEF Stopped, InTask, Busy
    <3>3. received = Len(queue) + Len(handled) + dropped
      BY <1>3, <3>1, Elements DEF ServiceInv, Counted
    <3> QED
      BY <1>1, <1>2, <1>3, <2>2, <3>2, <3>3, Elements DEF ServiceInv, Counted
  <2> QED
    BY <2>1, <2>2
<1>9. Ordered'
  <2>1. \A j \in 1..Len(queue') : item' < queue'[j]
    BY <1>1, <1>2, <1>3 DEF ServiceInv, Ordered
  <2>2. InTask' => item' \in Datagrams /\ item' <= received
    BY <1>1, <1>2 DEF InTask, ServiceInv, Ordered
  <2>3. InTask' => \A i \in 1..Len(handled) : handled[i] < item'
    BY <1>1, <1>2 DEF InTask, ServiceInv, Ordered
  <2>4. /\ \A j \in 1..Len(queue') : queue'[j] <= received
        /\ \A i, j \in 1..Len(queue') : i < j => queue'[i] < queue'[j]
    BY <1>1, <1>3 DEF ServiceInv, Ordered
  <2>5. \A i \in 1..Len(handled) :
           /\ handled[i] <= received
           /\ \A j \in 1..Len(queue') : queue'[j] # Stop => handled[i] < queue'[j]
    BY <1>3 DEF ServiceInv, Ordered
  <2>6. \A i, j \in 1..Len(handled) : i < j => handled[i] < handled[j]
    BY DEF ServiceInv, Ordered
  <2> QED
    BY <1>2, <2>1, <2>2, <2>3, <2>4, <2>5, <2>6 DEF Ordered
<1> QED
  BY <1>5, <1>6, <1>7, <1>8, <1>9 DEF ServiceInv

\* The thread, and the task after it
LEMMA ThreadTurns ==
    ASSUME ServiceInv, worker' \in {"get", "store", "return"}, worker \in {"parse", "store", "return"},
           UNCHANGED <<main, monitor, socket, session, queue, item, received>>,
           unfinished' = unfinished - (IF worker' = "get" THEN 1 ELSE 0),
           \/ worker' = "store" /\ worker = "parse" /\ UNCHANGED <<handled, dropped>>
           \/ worker' = "return" /\ InTask /\ handled' = Append(handled, item) /\ UNCHANGED dropped
           \/ worker' = "get" /\ InTask /\ dropped' = dropped + 1 /\ UNCHANGED handled
           \/ worker' = "get" /\ worker = "return" /\ UNCHANGED <<handled, dropped>>,
           (lost \in BOOLEAN /\ udpBound \in BOOLEAN /\ udpError \in BOOLEAN)', faults' \in 0..MaxFaults
    PROVE  ServiceInv'
<1>1. /\ Busy = 1 /\ unfinished \in Nat \ {0} /\ Len(queue) \in Nat /\ ~Stopped /\ ~Stopped'
      /\ main \notin {"bind", "bound", "put"}
  <2>1. Busy = 1 /\ Len(queue) \in Nat /\ unfinished = Len(queue) + Busy
    BY Elements DEF ServiceInv, Counted, Busy
  <2>2. main \notin {"bind", "bound", "put", "await", "end", "done"}
    <3>1. Control
      BY Zenon DEF ServiceInv
    <3> QED
      BY <2>1, <3>1 DEF Control
  <2> QED
    BY <2>1, <2>2 DEF Stopped
<1>2. handled' = handled \/ (InTask /\ item \in Datagrams /\ handled' = Append(handled, item))
  BY DEF ServiceInv, Ordered
<1>3. handled \in Seq(Datagrams) /\ handled' \in Seq(Datagrams)
  <2>1. handled \in Seq(Datagrams)
    BY Zenon DEF ServiceInv, UdpTypeOK
  <2> QED
    BY <1>2, <2>1, AppendProperties
<1>4. handled' = Append(handled, item) /\ InTask =>
         /\ Len(handled') = Len(handled) + 1 /\ handled'[Len(handled) + 1] = item
         /\ \A i \in 1..Len(handled) : handled'[i] = handled[i]
  BY <1>3, AppendProperties DEF ServiceInv, Ordered
<1>5. UdpTypeOK'
  <2>1. unfinished' \in Nat
    BY <1>1
  <2>2. dropped' \in Nat
    BY Elements DEF ServiceInv
  <2> QED
    BY <1>3, <2>1, <2>2 DEF ServiceInv, UdpTypeOK
<1>6. Control'
  BY <1>1 DEF ServiceInv, Control, Stopped
<1>7. StopIsLast'
  BY DEF ServiceInv, StopIsLast
<1>8. Counted'
  <2>1. received = Len(queue) + (IF InTask THEN 1 ELSE 0) + Len(handled) + dropped
    BY <1>1 DEF ServiceInv, Counted
  <2>2. unfinished' = Len(queue) + Busy'
    <3>1. unfinished = Len(queue) + 1
      BY <1>1 DEF ServiceInv, Counted
    <3>2. Busy' = IF worker' = "get" THEN 0 ELSE 1
      BY DEF Busy
    <3> QED
      BY <1>1, <3>1, <3>2
  <2>3. received = Len(queue) + (IF InTask' THEN 1 ELSE 0) + Len(handled') + dropped'
    <3>1. Len(queue) \in Nat /\ Len(handled) \in Nat /\ dropped \in Nat /\ received \in Nat
      BY Elements DEF ServiceInv
    <3>2. CASE worker' = "store"
      BY <2>1, <3>1, <3>2 DEF InTask
    <3>3. CASE worker' = "return"
      BY <1>4, <2>1, <3>1, <3>3 DEF InTask
    <3>4. CASE worker' = "get"
      BY <2>1, <3>1, <3>4 DEF InTask
    <3> QED
      BY <3>2, <3>3, <3>4
  <2> QED
    BY <1>1, <2>2, <2>3 DEF Counted
<1>9. Ordered'
  <2>1. InTask' => InTask /\ UNCHANGED handled
    BY DEF InTask
  <2>2. CASE UNCHANGED handled
    BY <2>1, <2>2 DEF ServiceInv, Ordered
  <2>3. CASE handled' = Append(handled, item) /\ InTask /\ ~InTask'
    <3>1. \A i \in 1..Len(handled') : i \in 1..Len(handled) \/ (i = Len(handled) + 1 /\ handled'[i] = item)
      BY <1>4, <2>3, Elements DEF ServiceInv
    <3>2. \A i \in 1..Len(handled') : handled'[i] <= received
      BY <1>4, <2>3, <3>1 DEF ServiceInv, Ordered
    <3>3. \A i \in 1..Len(handled') : \A j \in 1..Len(queue) : queue[j] # Stop => handled'[i] < queue[j]
      BY <1>4, <2>3, <3>1 DEF ServiceInv, Ordered
    <3>4. \A i, j \in 1..Len(handled') : i < j => handled'[i] < handled'[j]
      BY <1>4, <2>3, <3>1, Elements DEF ServiceInv, Ordered
    <3> QED
      BY <2>3, <3>2, <3>3, <3>4 DEF ServiceInv, Ordered
  <2> QED
    BY <2>2, <2>3 DEF InTask
<1> QED
  BY <1>5, <1>6, <1>7, <1>8, <1>9 DEF ServiceInv

LEMMA WorkerSteps ==
    ASSUME ServiceInv, Worker
    PROVE  ServiceInv'
<1>1. CASE WorkerGets
  BY <1>1, GetStep
<1>2. CASE ThreadParses \/ ThreadStores \/ ThreadRaises \/ WorkerFinishes
  <2>1. /\ worker' \in {"get", "store", "return"} /\ worker \in {"parse", "store", "return"}
        /\ UNCHANGED <<main, monitor, socket, session, queue, item, received>>
    BY <1>2 DEF ThreadParses, ThreadStores, ThreadRaises, WorkerFinishes, WorkerGoesOn, socketVars,
                queueVars, countVars
  <2>2. unfinished' = unfinished - (IF worker' = "get" THEN 1 ELSE 0)
    BY <1>2, Elements DEF ThreadParses, ThreadStores, ThreadRaises, WorkerFinishes, WorkerGoesOn,
                          queueVars, ServiceInv
  <2>3. \/ worker' = "store" /\ worker = "parse" /\ UNCHANGED <<handled, dropped>>
        \/ worker' = "return" /\ InTask /\ handled' = Append(handled, item) /\ UNCHANGED dropped
        \/ worker' = "get" /\ InTask /\ dropped' = dropped + 1 /\ UNCHANGED handled
        \/ worker' = "get" /\ worker = "return" /\ UNCHANGED <<handled, dropped>>
    BY <1>2 DEF ThreadParses, ThreadStores, ThreadRaises, WorkerFinishes, WorkerGoesOn, InTask,
                countVars
  <2>4. (lost \in BOOLEAN /\ udpBound \in BOOLEAN /\ udpError \in BOOLEAN)'
    BY <1>2, Zenon DEF ThreadParses, ThreadStores, ThreadRaises, WorkerFinishes, socketVars,
                       ServiceInv, UdpTypeOK
  <2>5. faults' \in 0..MaxFaults
    BY <1>2, UdpServiceAssumption DEF ThreadParses, ThreadStores, ThreadRaises, WorkerFinishes, Fault,
                                      ServiceInv, UdpTypeOK
  <2> QED
    BY <2>1, <2>2, <2>3, <2>4, <2>5, ThreadTurns
<1> QED
  BY <1>1, <1>2 DEF Worker

LEMMA ServiceStep ==
    ASSUME ServiceInv, [UdpNext]_udpVars
    PROVE  ServiceInv'
<1>1. CASE UNCHANGED udpVars
  <2>1. UNCHANGED <<main, monitor, worker, socket, lost, udpBound, udpError, queue, unfinished, item,
                    received, handled, dropped, session, faults>>
    BY <1>1 DEF udpVars, taskVars, socketVars, queueVars, countVars
  <2>2. UdpTypeOK'
    <3>1. (lost \in BOOLEAN /\ udpBound \in BOOLEAN /\ udpError \in BOOLEAN /\ session \in BOOLEAN)'
      BY <2>1, Zenon DEF ServiceInv, UdpTypeOK
    <3> QED
      BY <2>1, <3>1 DEF ServiceInv, UdpTypeOK
  <2>3. Control'
    BY <2>1 DEF ServiceInv, Control, Stopped, Busy
  <2>4. StopIsLast' /\ Counted' /\ Ordered'
    BY <2>1, Zenon DEF ServiceInv, StopIsLast, Counted, Ordered, Stopped, Busy, InTask
  <2> QED
    BY <2>2, <2>3, <2>4 DEF ServiceInv
<1>2. CASE Main
  BY <1>2, MainSteps, PutStopStep DEF Main
<1> QED
  BY <1>1, <1>2, ReceiveStep, SocketSteps, MonitorSteps, WorkerSteps, MainSteps DEF UdpNext

LEMMA ServiceInvariant == UdpSpec => []ServiceInv
<1>1. UdpInit => ServiceInv
  <2> SUFFICES ASSUME UdpInit PROVE ServiceInv
    OBVIOUS
  <2>1. queue = <<>> /\ handled = <<>> /\ Len(queue) = 0 /\ Len(handled) = 0
    BY EmptySeq DEF UdpInit
  <2>2. UdpTypeOK
    <3>1. (lost \in BOOLEAN /\ udpBound \in BOOLEAN /\ udpError \in BOOLEAN /\ session \in BOOLEAN)
      BY Zenon DEF UdpInit
    <3>2. queue \in Seq(Datagrams \cup {Stop}) /\ handled \in Seq(Datagrams)
      BY <2>1, EmptySeq
    <3>3. received \in 0..MaxDatagrams /\ faults \in 0..MaxFaults /\ unfinished \in Nat /\ dropped \in Nat
      BY UdpServiceAssumption DEF UdpInit
    <3> QED
      BY <3>1, <3>2, <3>3 DEF UdpInit, UdpTypeOK
  <2> QED
    BY <2>1, <2>2 DEF UdpInit, ServiceInv, Control, StopIsLast, Counted, Ordered, Stopped, Busy, InTask
<1> QED
  BY <1>1, ServiceStep, PTL DEF UdpSpec

-----------------------------------------------------------------------------
\* Every variable keeps its type: join never waits for a negative number of items, which
\* task_done would refuse (consume of service.py).
THEOREM ServiceTypeCorrect == UdpSpec => []UdpTypeOK
BY ServiceInvariant, PTL DEF ServiceInv

\* Datagrams are handled in the order in which they arrive, with losses in between, at
\* any size of the queue (on_udp and consume of service.py).
THEOREM OrderIsKept == UdpSpec => []HandledInOrder
<1>1. ASSUME ServiceInv PROVE HandledInOrder
  <2> DEFINE taken == handled \o queue
  <2>1. handled \in Seq(Datagrams \cup {Stop}) /\ queue \in Seq(Datagrams \cup {Stop})
    BY <1>1 DEF ServiceInv, UdpTypeOK
  <2>2. /\ Len(taken) = Len(handled) + Len(queue)
        /\ \A i \in 1..Len(taken) :
              taken[i] = IF i <= Len(handled) THEN handled[i] ELSE queue[i - Len(handled)]
    BY <2>1, ConcatProperties
  <2>3. Len(handled) \in Nat /\ Len(queue) \in Nat
    BY <1>1, Elements DEF ServiceInv
  <2> SUFFICES ASSUME NEW i \in 1..Len(taken), NEW j \in 1..Len(taken),
                      i < j, Stop \notin {taken[i], taken[j]}
               PROVE  taken[i] < taken[j]
    BY DEF HandledInOrder
  <2>4. CASE j <= Len(handled)
    BY <1>1, <2>2, <2>3, <2>4 DEF ServiceInv, Ordered
  <2>5. CASE i <= Len(handled) /\ ~(j <= Len(handled))
    <3>1. i \in 1..Len(handled) /\ j - Len(handled) \in 1..Len(queue)
      BY <2>2, <2>3, <2>5
    <3> QED
      BY <1>1, <2>2, <2>5, <3>1 DEF ServiceInv, Ordered
  <2>6. CASE ~(i <= Len(handled))
    <3>1. /\ i - Len(handled) \in 1..Len(queue) /\ j - Len(handled) \in 1..Len(queue)
          /\ i - Len(handled) < j - Len(handled) /\ ~(j <= Len(handled))
      BY <2>2, <2>3, <2>6
    <3> QED
      BY <1>1, <2>2, <2>6, <3>1 DEF ServiceInv, Ordered
  <2> QED
    BY <2>2, <2>3, <2>4, <2>5, <2>6
<1> QED
  BY <1>1, ServiceInvariant, PTL

\* The queue holds as many datagrams as it has items, until Stop is put.
LEMMA QueuedCount ==
    ASSUME ServiceInv
    PROVE  /\ Cardinality(Queued) = IF Stopped THEN 0 ELSE Len(queue)
           /\ Stopped => Queued = {}
<1>1. CASE Stopped
  <2>1. Queued = {}
    <3>1. \A j \in 1..Len(queue) : queue[j] = Stop
      BY <1>1, Elements DEF ServiceInv, StopIsLast, Control, Stopped
    <3>2. Stop \notin Datagrams
      BY DEF Stop, Datagrams
    <3> QED
      BY <3>1, <3>2 DEF Queued
  <2> QED
    BY <1>1, <2>1, FS_EmptySet
<1>2. CASE ~Stopped
  <2> DEFINE f == [j \in 1..Len(queue) |-> queue[j]]
  <2>1. Len(queue) \in Nat
    BY Elements DEF ServiceInv
  <2>2. \A j \in 1..Len(queue) : queue[j] \in Queued
    <3>1. \A j \in 1..Len(queue) : queue[j] \in Datagrams \cup {Stop} /\ queue[j] # Stop
      BY <1>2, ElementOfSeq DEF ServiceInv, UdpTypeOK, StopIsLast, Stopped
    <3> QED
      BY <3>1 DEF Queued
  <2>3. \A i, j \in 1..Len(queue) : queue[i] = queue[j] => i = j
    <3>1. \A i, j \in 1..Len(queue) : i < j => queue[i] < queue[j]
      BY DEF ServiceInv, Ordered
    <3>2. \A j \in 1..Len(queue) : queue[j] \in Nat
      BY Elements DEF ServiceInv
    <3> QED
      BY <2>1, <3>1, <3>2
  <2>4. \A d \in Queued : \E j \in 1..Len(queue) : f[j] = d
    BY DEF Queued
  <2>5. f \in [1..Len(queue) -> Queued]
    BY <2>2
  <2>6. f \in Bijection(1..Len(queue), Queued)
    <3>1. \A i, j \in 1..Len(queue) : f[i] = f[j] => i = j
      BY <2>3
    <3> HIDE DEF f
    <3>2. f \in Injection(1..Len(queue), Queued)
      BY Zenon, <2>5, <3>1 DEF Injection, IsInjective
    <3>3. f \in Surjection(1..Len(queue), Queued)
      BY Zenon, <2>4, <2>5 DEF Surjection
    <3> QED
      BY Zenon, <3>2, <3>3 DEF Bijection
  <2>7. ExistsBijection(1..Len(queue), Queued)
    BY <2>6 DEF ExistsBijection
  <2>8. IsFiniteSet(1..Len(queue)) /\ Cardinality(1..Len(queue)) = Len(queue)
    <3> DEFINE n == Len(queue)
    <3> HIDE DEF n, f
    <3>1. n \in Nat
      BY <2>1 DEF n
    <3>2. IsFiniteSet(1..n) /\ Cardinality(1..n) = n
      BY ONLY <3>1, FS_Interval
    <3> QED
      BY <3>2 DEF n
  <2> QED
    BY <1>2, <2>7, <2>8, FS_Bijection
<1> QED
  BY <1>1, <1>2

\* No datagram is lost without being counted, and none is in two places: what arrived is
\* queued, in work, handled or dropped (on_udp and consume of service.py).
THEOREM NoneIsUncounted == UdpSpec => []EveryDatagramAccounted
<1>1. ASSUME ServiceInv PROVE EveryDatagramAccounted
  <2>1. InWork = IF InTask THEN {item} ELSE {}
    BY DEF InWork, InTask
  <2>2. Cardinality(InWork) = IF InTask THEN 1 ELSE 0
    BY <2>1, FS_EmptySet, FS_Singleton
  <2>3. Len(handled) \in Nat /\ Len(queue) \in Nat /\ dropped \in Nat
    BY <1>1, Elements DEF ServiceInv
  <2>4. received = Cardinality(Queued) + Cardinality(InWork) + Len(handled) + dropped
    BY <1>1, <2>2, <2>3, QueuedCount DEF ServiceInv, Counted
  <2>5. ASSUME NEW d \in Queued PROVE d \notin InWork \cup Handled
    <3>1. PICK j \in 1..Len(queue) : queue[j] = d
      BY DEF Queued
    <3>2. d \in Nat /\ d # Stop
      BY UdpServiceAssumption DEF Queued, Datagrams, Stop
    <3>3. \A i \in 1..Len(handled) : handled[i] < d /\ handled[i] \in Nat
      BY <1>1, <3>1, <3>2, Elements DEF ServiceInv, Ordered, Datagrams
    <3>4. InTask => item < d /\ item \in Nat
      BY <1>1, <3>1 DEF ServiceInv, Ordered, Datagrams
    <3> QED
      BY <2>1, <3>2, <3>3, <3>4 DEF Handled
  <2> QED
    BY <2>4, <2>5 DEF EveryDatagramAccounted
<1> QED
  BY <1>1, ServiceInvariant, PTL

\* When the receiver session is closed, every datagram that arrived was handled in it or
\* counted, and no socket can bring another (the end of _serve in service.py).
THEOREM SavedBeforeClose == UdpSpec => []SavesBeforeClose
<1>1. ASSUME ServiceInv PROVE SavesBeforeClose
  <2> SUFFICES ASSUME ~session
               PROVE  /\ InWork = {} /\ Queued = {}
                      /\ received = Len(handled) + dropped
                      /\ socket \notin {"opening", "open"}
    BY DEF SavesBeforeClose
  <2>1. main = "done"
    BY <1>1 DEF ServiceInv, UdpTypeOK, Control
  <2>2. Stopped /\ Busy = 0 /\ socket \notin {"opening", "open"}
    BY <1>1, <2>1 DEF ServiceInv, Control, Stopped
  <2>3. ~InTask
    BY <2>2 DEF Busy, InTask
  <2>4. received = Len(handled) + dropped
    BY <1>1, <2>2, <2>3, Elements DEF ServiceInv, Counted
  <2> QED
    BY <1>1, <2>2, <2>3, <2>4, QueuedCount DEF InWork, InTask
<1> QED
  BY <1>1, ServiceInvariant, PTL

-----------------------------------------------------------------------------
(***************************************************************************)
(* PropagationFeeds, for any number of concurrent requests and any times to*)
(* live: an answer is as recent as it is said to be.                       *)
(***************************************************************************)
FeedsSpec == FeedsInit /\ [][FeedsNext]_feedVars

\* What a thread knows: nothing that it fetched was given out before the moment for
\* which it asked, and what it looked up is fresh, if it was found so, and is kept.
Known(r) ==
    LET q == request[r] IN
    /\ q.moment <= feedClock
    /\ q.pc \in {"idle", "asked"} => q.cached = 0
    /\ q.cached # 0 => feed[q.kind].value # 0
    /\ q.pc = "fresh" => q.cached # 0 /\ q.moment < q.cached + Ttl[q.kind]
    /\ q.got # 0 => q.moment <= q.got

FeedsInv ==
    /\ FeedsTypeOK /\ ReplyIsHonest
    /\ \A r \in Requests : Known(r)

\* An answer is honest if its value is; the thread goes on, or is done.
LEMMA AnswerHonest ==
    ASSUME FeedsTypeOK, NEW r \in Requests, NEW value \in FeedTimes, NEW stale \in BOOLEAN,
           Answer(r, value, stale), UNCHANGED feedClock,
           request[r].cached # 0 => value # 0,
           value # 0 /\ ~stale => request[r].moment < value + Ttl[request[r].kind],
           \A k \in Kinds : feed'[k].at <= feed'[k].value,
           feed' \in [Kinds -> [value : FeedTimes, at : FeedTimes]],
           \A k \in Kinds : feed[k].value # 0 => feed'[k].value # 0,
           \A t \in Requests : Known(t)
    PROVE  FeedsInv'
<1> USE FeedsAssumption DEF FeedTimes, Kinds
<1>1. request' \in [Requests -> [pc : {"idle", "asked", "fresh", "fetch", "fetched"},
                                 kind : Kinds, moment : FeedTimes, cached : FeedTimes,
                                 got : FeedTimes]]
  <2>1. request[r].kind \in Kinds /\ request[r].moment \in FeedTimes
    BY DEF FeedsTypeOK
  <2>2. Idle \in [pc : {"idle", "asked", "fresh", "fetch", "fetched"}, kind : Kinds,
                  moment : FeedTimes, cached : FeedTimes, got : FeedTimes]
    BY DEF Idle
  <2>3. Asked("hamqsl", request[r].moment) \in
           [pc : {"idle", "asked", "fresh", "fetch", "fetched"}, kind : Kinds,
            moment : FeedTimes, cached : FeedTimes, got : FeedTimes]
    BY <2>1 DEF Asked
  <2>4. request' \in {[request EXCEPT ![r] = Idle],
                     [request EXCEPT ![r] = Asked("hamqsl", request[r].moment)]}
    BY DEF Answer, Proceed
  <2> QED
    BY <2>1, <2>2, <2>3, <2>4 DEF FeedsTypeOK
<1>2. reply' = [kind |-> request[r].kind, value |-> value, stale |-> stale,
                moment |-> request[r].moment, held |-> request[r].cached]
  BY DEF Answer
<1>3. FeedsTypeOK'
  BY <1>1, <1>2 DEF FeedsTypeOK
<1>4. ReplyIsHonest'
  BY <1>2 DEF ReplyIsHonest, FreshIsRecent, NeverPostdated, FailureKeepsValues
<1>5. ASSUME NEW t \in Requests
      PROVE  Known(t)'
  <2>1. CASE t = r
    BY <2>1 DEF Answer, Proceed, Idle, Asked, Known, FeedsTypeOK
  <2>2. CASE t # r
    <3>1. request'[t] = request[t]
      BY <2>2 DEF Answer, Proceed, FeedsTypeOK
    <3>2. request[t].kind \in Kinds
      BY DEF FeedsTypeOK
    <3> QED
      BY <3>1, <3>2 DEF Known
  <2> QED
    BY <2>1, <2>2
<1> QED
  BY <1>3, <1>4, <1>5 DEF FeedsInv

LEMMA RequestType ==
    ASSUME FeedsTypeOK, NEW r \in Requests
    PROVE  /\ request[r].kind \in Kinds /\ request[r].moment \in FeedTimes
           /\ request[r].cached \in FeedTimes /\ request[r].got \in FeedTimes
           /\ request[r].pc \in {"idle", "asked", "fresh", "fetch", "fetched"}
           /\ Ttl[request[r].kind] \in Nat
BY FeedsAssumption DEF FeedsTypeOK

\* A step of a thread that gives no answer
LEMMA Silent ==
    ASSUME FeedsInv, NEW r \in Requests, reply' = NoReply, UNCHANGED <<feedClock, feed>>,
           NEW q \in [pc : {"idle", "asked", "fresh", "fetch", "fetched"}, kind : Kinds,
                      moment : FeedTimes, cached : FeedTimes, got : FeedTimes],
           request' = [request EXCEPT ![r] = q], Known(r)'
    PROVE  FeedsInv'
<1> USE FeedsAssumption DEF FeedsInv, FeedTimes, Kinds
<1>1. FeedsTypeOK'
  BY DEF FeedsTypeOK, NoReply
<1>2. ReplyIsHonest'
  BY DEF NoReply, ReplyIsHonest, FreshIsRecent, NeverPostdated, FailureKeepsValues
<1>3. ASSUME NEW t \in Requests, t # r
      PROVE  Known(t)'
  <2>1. request'[t] = request[t]
    BY <1>3 DEF FeedsTypeOK
  <2> QED
    BY <1>3, <2>1 DEF Known
<1> QED
  BY <1>1, <1>2, <1>3 DEF FeedsInv

LEMMA LookUpKeeps ==
    ASSUME FeedsInv, NEW r \in Requests, LookUp(r)
    PROVE  FeedsInv'
<1> DEFINE kind == request[r].kind
           fresh == Fresh(kind, request[r].moment)
<1>1. /\ kind \in Kinds /\ request[r].moment \in FeedTimes /\ Ttl[kind] \in Nat
      /\ feed[kind].value \in FeedTimes /\ feed[kind].at \in FeedTimes
      /\ feed[kind].at <= feed[kind].value
  BY RequestType DEF FeedsInv, FeedsTypeOK, ReplyIsHonest, NeverPostdated
<1>2. fresh => feed[kind].value # 0 /\ request[r].moment < feed[kind].value + Ttl[kind]
  BY <1>1 DEF Fresh, FeedTimes
<1>3. CASE fresh /\ kind = "image"
  <2>1. Answer(r, feed[kind].value, FALSE) /\ UNCHANGED <<feedClock, feed>>
    BY <1>3 DEF LookUp
  <2> QED
    BY <1>1, <1>2, <1>3, <2>1, AnswerHonest
    DEF FeedsInv, FeedsTypeOK, ReplyIsHonest, NeverPostdated
<1>4. CASE ~(fresh /\ kind = "image")
  <2> DEFINE q == [request[r] EXCEPT !.pc = IF fresh THEN "fresh" ELSE "fetch", !.cached = feed[kind].value]
  <2>1. /\ request' = [request EXCEPT ![r] = q]
        /\ reply' = NoReply /\ UNCHANGED <<feedClock, feed>>
    BY <1>4 DEF LookUp
  <2>2. q \in [pc : {"idle", "asked", "fresh", "fetch", "fetched"}, kind : Kinds,
               moment : FeedTimes, cached : FeedTimes, got : FeedTimes]
    BY <1>1 DEF FeedsInv, FeedsTypeOK
  <2>3. /\ q.pc = IF fresh THEN "fresh" ELSE "fetch"
        /\ q.cached = feed[kind].value /\ q.kind = kind
        /\ q.moment = request[r].moment /\ q.got = request[r].got
    BY DEF FeedsInv, FeedsTypeOK
  <2>4. request'[r] = q
    BY <2>1 DEF FeedsInv, FeedsTypeOK
  <2>5. Known(r)'
    BY <1>2, <2>1, <2>3, <2>4 DEF Known, FeedsInv
  <2> QED
    BY <2>1, <2>2, <2>5, Silent
<1> QED
  BY <1>3, <1>4

LEMMA FetchKeeps ==
    ASSUME FeedsInv, NEW r \in Requests, Fetch(r)
    PROVE  FeedsInv'
<1>1. PICK got \in {0, feedClock} :
         request' = [request EXCEPT ![r].pc = "fetched", ![r].got = got]
  BY DEF Fetch
<1> DEFINE q == [request[r] EXCEPT !.pc = "fetched", !.got = got]
<1>2. /\ request' = [request EXCEPT ![r] = q]
      /\ reply' = NoReply /\ UNCHANGED <<feedClock, feed>>
  BY <1>1 DEF Fetch, FeedsInv, FeedsTypeOK
<1>3. /\ q \in [pc : {"idle", "asked", "fresh", "fetch", "fetched"}, kind : Kinds,
                moment : FeedTimes, cached : FeedTimes, got : FeedTimes]
      /\ q.pc = "fetched" /\ q.got = got
      /\ q.cached = request[r].cached /\ q.kind = request[r].kind /\ q.moment = request[r].moment
  <2>1. got \in FeedTimes
    BY FeedsAssumption DEF FeedsInv, FeedsTypeOK, FeedTimes
  <2>2. request[r] \in [pc : {"idle", "asked", "fresh", "fetch", "fetched"}, kind : Kinds,
                        moment : FeedTimes, cached : FeedTimes, got : FeedTimes]
    BY DEF FeedsInv, FeedsTypeOK
  <2> QED
    BY <2>1, <2>2
<1>4. request'[r] = q
  BY <1>2 DEF FeedsInv, FeedsTypeOK
<1>5. Known(r)'
  BY <1>1, <1>2, <1>3, <1>4 DEF Known, FeedsInv
<1> QED
  BY <1>2, <1>3, <1>5, Silent

LEMMA AnswerKeeps ==
    ASSUME FeedsInv, NEW r \in Requests, AnswerFresh(r) \/ AnswerStale(r)
    PROVE  FeedsInv'
<1>1. /\ request[r].kind \in Kinds /\ request[r].cached \in FeedTimes
      /\ feed["image"].value \in FeedTimes
      /\ UNCHANGED <<feedClock, feed>>
  BY RequestType DEF FeedsInv, FeedsTypeOK, AnswerFresh, AnswerStale, Kinds
<1>2. CASE AnswerFresh(r)
  BY <1>1, <1>2, AnswerHonest
  DEF AnswerFresh, FeedsInv, FeedsTypeOK, ReplyIsHonest, NeverPostdated, Known
<1>3. CASE AnswerStale(r)
  <2>1. OldValue(r) \in FeedTimes /\ (request[r].cached # 0 => OldValue(r) # 0)
    BY <1>1 DEF OldValue, FeedsInv, Known
  <2> QED
    BY <1>1, <1>3, <2>1, AnswerHonest
    DEF AnswerStale, FeedsInv, FeedsTypeOK, ReplyIsHonest, NeverPostdated
<1> QED
  BY <1>2, <1>3

LEMMA StoreKeeps ==
    ASSUME FeedsInv, NEW r \in Requests, Store(r)
    PROVE  FeedsInv'
<1> DEFINE kind == request[r].kind
<1>1. /\ kind \in Kinds /\ request[r].moment \in FeedTimes /\ request[r].got \in FeedTimes
      /\ Ttl[kind] \in Nat \ {0}
      /\ request[r].got # 0 /\ request[r].moment <= request[r].got
  BY RequestType, FeedsAssumption DEF FeedsInv, Known, Store
<1>2. /\ feed' = [feed EXCEPT ![kind] = [value |-> request[r].got, at |-> request[r].moment]]
      /\ Answer(r, request[r].got, FALSE) /\ UNCHANGED feedClock
  BY DEF Store, Dated
<1>3. /\ feed' \in [Kinds -> [value : FeedTimes, at : FeedTimes]]
      /\ \A k \in Kinds : feed'[k].at <= feed'[k].value
      /\ \A k \in Kinds : feed[k].value # 0 => feed'[k].value # 0
  BY <1>1, <1>2 DEF FeedsInv, FeedsTypeOK, ReplyIsHonest, NeverPostdated
<1>4. request[r].moment < request[r].got + Ttl[kind]
  BY <1>1 DEF FeedTimes
<1> QED
  BY <1>1, <1>2, <1>3, <1>4, AnswerHonest DEF FeedsInv

LEMMA AskKeeps ==
    ASSUME FeedsInv, NEW r \in Requests, NEW kind \in Kinds, Ask(r, kind)
    PROVE  FeedsInv'
<1> DEFINE q == Asked(kind, feedClock)
<1>1. /\ q.pc = "asked" /\ q.kind = kind /\ q.moment = feedClock
      /\ q.cached = 0 /\ q.got = 0
  BY DEF Asked
<1>2. /\ request' = [request EXCEPT ![r] = q]
      /\ reply' = NoReply /\ UNCHANGED <<feedClock, feed>>
  BY DEF Ask
<1>3. q \in [pc : {"idle", "asked", "fresh", "fetch", "fetched"}, kind : Kinds,
             moment : FeedTimes, cached : FeedTimes, got : FeedTimes]
  BY FeedsAssumption DEF FeedsInv, FeedsTypeOK, FeedTimes, Asked
<1>4. request'[r] = q
  BY <1>2 DEF FeedsInv, FeedsTypeOK
<1>5. Known(r)'
  BY <1>1, <1>2, <1>4, FeedsAssumption DEF Known, FeedsInv, FeedsTypeOK, FeedTimes
<1> QED
  BY <1>2, <1>3, <1>5, Silent

LEMMA FeedTickKeeps ==
    ASSUME FeedsInv, FeedTick
    PROVE  FeedsInv'
<1> USE FeedsAssumption DEF FeedsInv, FeedTick, FeedTimes
<1>1. FeedsTypeOK'
  BY DEF FeedsTypeOK, NoReply, Kinds
<1>2. ReplyIsHonest'
  BY DEF NoReply, ReplyIsHonest, FreshIsRecent, NeverPostdated, FailureKeepsValues
<1>3. ASSUME NEW r \in Requests
      PROVE  Known(r)'
  BY RequestType DEF Known, FeedsTypeOK
<1> QED
  BY <1>1, <1>2, <1>3

LEMMA FeedsStepKeeps ==
    ASSUME FeedsInv, [FeedsNext]_feedVars
    PROVE  FeedsInv'
<1>1. CASE UNCHANGED feedVars
  BY <1>1 DEF feedVars, FeedsInv, FeedsTypeOK, Known, ReplyIsHonest, FreshIsRecent,
              NeverPostdated, FailureKeepsValues
<1> QED
  BY <1>1, LookUpKeeps, FetchKeeps, AnswerKeeps, StoreKeeps, AskKeeps, FeedTickKeeps
  DEF FeedsNext, FeedSteps

LEMMA FeedsStart == FeedsInit => FeedsInv
BY FeedsAssumption
DEF FeedsInit, FeedsInv, FeedsTypeOK, FeedTimes, Known, Idle, NoReply, Kinds, ReplyIsHonest,
    FreshIsRecent, NeverPostdated, FailureKeepsValues

\* What a request is given without the mark of an old value was given out less than its
\* time to live before, values are never dated after that, and a refresh that fails loses
\* nothing: for any number of threads that look up, fetch and store in any order
\* (space_weather, hamqsl and image of propagation/feeds.py).
THEOREM RepliesAreHonest == FeedsSpec => []ReplyIsHonest
<1>1. FeedsInv => ReplyIsHonest
  BY DEF FeedsInv
<1> QED
  BY FeedsStart, FeedsStepKeeps, <1>1, PTL DEF FeedsSpec

-----------------------------------------------------------------------------
(***************************************************************************)
(* The charts of Dashboard, for any selections and any number of           *)
(* overlapping refreshes.                                                  *)
(***************************************************************************)
ChartSpec == DashboardInit /\ [][DashboardNext]_dashboardVars

Newest == Cardinality(Loads)   \* the refresh that was begun last

Load == [selection : Selections, state : {"loading", "loaded", "failed", "over"}]

\* The refreshes are numbered in their order, and the charts show one of them.
Numbered ==
    /\ Newest \in Nat /\ loads \in [1..Newest -> Load] /\ Newest <= MaxLoads
    /\ selected \in Selections
    /\ chart \in 0..Newest /\ controller \in 0..Newest
    /\ chartError \in BOOLEAN /\ busy \in BOOLEAN

\* The refresh that has the controller is one for the selection that is shown.
LoadingSelection == controller # 0 => loads[controller].selection = selected

ChartInv == Numbered /\ LoadingSelection /\ ChartSettled

-----------------------------------------------------------------------------
\* A refresh that begins: the newest one, and the others as they are
LEMMA Begun ==
    ASSUME Numbered, NEW s \in Selections, BeginLoad(s)
    PROVE  /\ Newest' = Newest + 1 /\ loads' \in [1..Newest' -> Load] /\ Newest' <= MaxLoads
           /\ controller' = Newest'
           /\ loads'[Newest'].selection = s /\ loads'[Newest'].state = "loading"
           /\ busy' = TRUE
<1> DEFINE l == Newest + 1
           fresh == [selection |-> s, state |-> "loading"]
<1>1. /\ loads' = [i \in 1..l |-> IF i = l THEN fresh ELSE loads[i]]
      /\ controller' = l /\ busy' = TRUE /\ Newest < MaxLoads /\ Newest \in Nat
  BY DEF BeginLoad, Newest, Numbered
<1>2. DOMAIN loads' = 1..l
  BY <1>1
<1>3. Newest' = l
  BY <1>1, <1>2, FS_Interval DEF Newest, Loads
<1>4. fresh \in Load
  BY DEF Load
<1>5. \A i \in 1..l : i # l => loads[i] \in Load
  BY <1>1 DEF Numbered
<1>6. loads' \in [1..l -> Load]
  BY <1>1, <1>4, <1>5
<1>7. loads'[l] = fresh
  BY <1>1
<1> QED
  BY <1>1, <1>3, <1>6, <1>7, DashboardAssumption

LEMMA BeginKeeps ==
    ASSUME ChartInv, NEW s \in Selections, BeginLoad(s), selected' = s,
           UNCHANGED <<chart, chartError>>
    PROVE  ChartInv'
<1>1. Numbered
  BY DEF ChartInv
<1>2. /\ Newest' = Newest + 1 /\ loads' \in [1..Newest' -> Load] /\ Newest' <= MaxLoads
      /\ controller' = Newest' /\ busy' = TRUE
      /\ loads'[controller'].selection = s /\ loads'[controller'].state = "loading"
  BY <1>1, Begun
<1>3. Newest \in Nat /\ chart \in 0..Newest /\ chartError \in BOOLEAN
  BY <1>1 DEF Numbered
<1>4. Numbered'
  BY <1>2, <1>3 DEF Numbered
<1>5. controller' # 0
  BY <1>2, <1>3
<1>6. LoadingSelection' /\ ChartOfSelection'
  BY <1>2, <1>5 DEF LoadingSelection, ChartOfSelection
<1>7. BusyIsNewest'
  BY <1>2, <1>5 DEF BusyIsNewest, Newest
<1> QED
  BY <1>4, <1>6, <1>7 DEF ChartInv, ChartSettled

\* A refresh that changes its state keeps its number and its selection.
LEMMA Changed ==
    ASSUME Numbered, NEW l \in Loads, NEW state \in {"loaded", "failed", "over"},
           loads' = [loads EXCEPT ![l].state = state]
    PROVE  /\ Newest' = Newest /\ loads' \in [1..Newest -> Load] /\ Loads = 1..Newest
           /\ loads'[l].state = state
           /\ \A i \in Loads : i # l => loads'[i] = loads[i]
           /\ \A i \in Loads : loads'[i].selection = loads[i].selection
<1>1. loads \in [1..Newest -> Load] /\ Loads = 1..Newest
  BY DEF Numbered, Loads
<1>2. Loads' = Loads /\ Newest' = Newest
  BY DEF Loads, Newest
<1>3. loads[l] \in Load /\ loads'[l] = [loads[l] EXCEPT !.state = state]
  BY <1>1
<1>4. loads'[l] \in Load /\ loads'[l].state = state /\ loads'[l].selection = loads[l].selection
  BY <1>3 DEF Load
<1>5. \A i \in Loads : i # l => loads'[i] = loads[i]
  BY <1>1
<1>6. loads' \in [1..Newest -> Load]
  BY <1>1, <1>4, <1>5
<1> QED
  BY <1>1, <1>2, <1>4, <1>5, <1>6

LEMMA AnsweredKeeps ==
    ASSUME ChartInv, NEW l \in Loads, LoadAnswered(l)
    PROVE  ChartInv'
<1>1. PICK state \in {"loaded", "failed"} : loads' = [loads EXCEPT ![l].state = state]
  BY DEF LoadAnswered
<1>2. UNCHANGED <<selected, controller, chart, chartError, busy>>
  BY DEF LoadAnswered
<1>3. /\ Newest' = Newest /\ loads' \in [1..Newest -> Load] /\ Loads = 1..Newest
      /\ loads'[l].state = state
      /\ \A i \in Loads : i # l => loads'[i] = loads[i]
      /\ \A i \in Loads : loads'[i].selection = loads[i].selection
  BY <1>1, Changed DEF ChartInv
<1>4. Newest \in Nat /\ chart \in 0..Newest /\ controller \in 0..Newest
  BY DEF ChartInv, Numbered
<1>5. Numbered'
  BY <1>2, <1>3 DEF ChartInv, Numbered
<1>6. LoadingSelection' /\ ChartOfSelection'
  BY <1>2, <1>3, <1>4 DEF ChartInv, ChartSettled, LoadingSelection, ChartOfSelection
<1>7. BusyIsNewest'
  BY <1>2, <1>3, <1>4 DEF ChartInv, ChartSettled, BusyIsNewest, Newest
<1> QED
  BY <1>5, <1>6, <1>7 DEF ChartInv, ChartSettled

LEMMA EndKeeps ==
    ASSUME ChartInv, NEW l \in Loads, EndLoad(l)
    PROVE  ChartInv' /\ chart' >= chart
<1>1. loads' = [loads EXCEPT ![l].state = "over"] /\ selected' = selected
  BY DEF EndLoad
<1>2. /\ Newest' = Newest /\ loads' \in [1..Newest -> Load] /\ Loads = 1..Newest
      /\ \A i \in Loads : i # l => loads'[i] = loads[i]
      /\ \A i \in Loads : loads'[i].selection = loads[i].selection
  BY <1>1, Changed DEF ChartInv
<1>3. /\ Newest \in Nat /\ chart \in 0..Newest /\ controller \in 0..Newest /\ l \in 1..Newest
      /\ chartError \in BOOLEAN /\ busy \in BOOLEAN
  BY <1>2 DEF ChartInv, Numbered
<1>4. controller # 0 => controller = Newest
  BY DEF ChartInv, ChartSettled, BusyIsNewest, Newest
<1>5. CASE controller = l
  <2>1. /\ controller' = 0 /\ busy' = FALSE /\ chartError' = (loads[l].state = "failed")
        /\ chart' = IF loads[l].state = "loaded" THEN l ELSE chart
        /\ loads[l].state \in {"loaded", "failed"}
    BY <1>5 DEF EndLoad, Owns, LoadOver
  <2>2. chart' \in 0..Newest /\ chart' >= chart
    BY <1>3, <1>4, <1>5, <2>1
  <2>3. Numbered'
    <3>1. chartError' \in BOOLEAN /\ busy' \in BOOLEAN
      BY <2>1, Zenon
    <3> QED
      BY <1>1, <1>2, <1>3, <2>1, <2>2, <3>1 DEF ChartInv, Numbered
  <2>4. ChartOfSelection'
    <3>1. loads'[l].selection = selected'
      BY <1>1, <1>2, <1>3, <1>5 DEF ChartInv, LoadingSelection
    <3> QED
      BY <2>1, <3>1 DEF ChartOfSelection
  <2>5. LoadingSelection' /\ BusyIsNewest'
    BY <2>1 DEF LoadingSelection, BusyIsNewest
  <2> QED
    BY <2>2, <2>3, <2>4, <2>5 DEF ChartInv, ChartSettled
<1>6. CASE controller # l
  <2>1. UNCHANGED <<controller, busy, chart, chartError>>
    BY <1>6 DEF EndLoad, Owns, LoadOver
  <2>2. Numbered'
    BY <1>1, <1>2, <2>1 DEF ChartInv, Numbered
  <2>3. LoadingSelection' /\ ChartOfSelection'
    BY <1>1, <1>2, <1>3, <2>1 DEF ChartInv, ChartSettled, LoadingSelection, ChartOfSelection
  <2>4. BusyIsNewest'
    BY <1>2, <1>3, <1>6, <2>1 DEF ChartInv, ChartSettled, BusyIsNewest, Newest
  <2> QED
    BY <1>3, <2>1, <2>2, <2>3, <2>4 DEF ChartInv, ChartSettled
<1> QED
  BY <1>5, <1>6

LEMMA ChartStep ==
    ASSUME ChartInv, [DashboardNext]_dashboardVars
    PROVE  ChartInv' /\ (chart' = chart \/ chart' >= chart)
<1>1. CASE UNCHANGED chartVars
  <2>1. UNCHANGED <<selected, controller, loads, chart, chartError, busy>>
    BY <1>1 DEF chartVars
  <2> QED
    BY <2>1, Zenon DEF ChartInv, Numbered, LoadingSelection, ChartSettled, ChartOfSelection,
                       BusyIsNewest, Newest, Loads
<1>2. CASE TickSlow
  BY <1>2, BeginKeeps DEF TickSlow, ChartInv, Numbered
<1>3. ASSUME NEW s \in Selections, Select(s)
      PROVE  ChartInv' /\ chart' = chart
  BY <1>3, BeginKeeps DEF Select
<1>4. ASSUME NEW l \in Loads, LoadAnswered(l) \/ EndLoad(l)
      PROVE  ChartInv' /\ (chart' = chart \/ chart' >= chart)
  BY <1>4, AnsweredKeeps, EndKeeps DEF LoadAnswered
<1>5. CASE FastNext \/ PlainNext
  <2>1. UNCHANGED chartVars
    BY <1>5 DEF FastNext, TickFast, FastAnswered, PlainNext, TickPlain, PlainAnswered
  <2> QED
    BY <1>1, <2>1
<1>6. CASE UNCHANGED dashboardVars
  BY <1>1, <1>6 DEF dashboardVars
<1> QED
  BY <1>2, <1>3, <1>4, <1>5, <1>6 DEF DashboardNext, ChartNext

LEMMA ChartStart == DashboardInit => ChartInv
<1> SUFFICES ASSUME DashboardInit PROVE ChartInv
  OBVIOUS
<1>1. Loads = {} /\ Newest = 0
  BY FS_EmptySet DEF DashboardInit, Loads, Newest
<1>2. loads \in [1..0 -> Load]
  BY <1>1 DEF DashboardInit, Loads
<1>3. chartError \in BOOLEAN /\ busy \in BOOLEAN
  BY Zenon DEF DashboardInit
<1>4. Numbered
  BY <1>1, <1>2, <1>3, DashboardAssumption DEF DashboardInit, Numbered
<1>5. LoadingSelection /\ ChartOfSelection
  BY DEF DashboardInit, LoadingSelection, ChartOfSelection
<1>6. BusyIsNewest
  BY DEF DashboardInit, BusyIsNewest
<1> QED
  BY <1>4, <1>5, <1>6 DEF ChartInv, ChartSettled

LEMMA ChartInvariant == ChartSpec => []ChartInv
BY ChartStart, ChartStep, PTL DEF ChartSpec

-----------------------------------------------------------------------------
\* Once nothing loads and no notice is up, the charts are those of the selection, and they
\* are said to be loading exactly while the newest refresh is (tickSlow of app.js).
THEOREM ChartsSettle == ChartSpec => []ChartSettled
BY ChartInvariant, PTL DEF ChartInv

\* The answer of an older refresh never replaces that of a newer one, in whatever order
\* requests are answered, fail or are aborted (tickSlow of app.js).
THEOREM ChartsNeverAge == ChartSpec => ChartNeverOlder
<1>1. ChartInv /\ [DashboardNext]_dashboardVars => [chart' >= chart]_chart
  BY ChartStep
<1> QED
  BY <1>1, ChartInvariant, PTL DEF ChartSpec, ChartNeverOlder

-----------------------------------------------------------------------------
(***************************************************************************)
(* The other panels of Dashboard: flags and the requests that they are of. *)
(***************************************************************************)
PanelsInv ==
    /\ ticks \in 0..MaxTicks /\ fastPending \in BOOLEAN
    /\ waiting \subseteq [tick : 1..MaxTicks, part : Parts]
    /\ connection \in {"unknown", "up", "lost"}
    /\ pending \in [Plain -> BOOLEAN]
    /\ asked \in [Plain -> {0, 1}] /\ \A p \in Plain : asked[p] = 1 <=> pending[p]

\* A flag and the requests that it is of change together.
LEMMA PanelsPlain ==
    ASSUME PanelsInv, UNCHANGED <<ticks, fastPending, waiting, connection>>,
           NEW p \in Plain, NEW flag \in BOOLEAN, NEW n \in {0, 1}, n = 1 <=> flag,
           pending' = [pending EXCEPT ![p] = flag], asked' = [asked EXCEPT ![p] = n]
    PROVE  PanelsInv'
<1>1. /\ pending \in [Plain -> BOOLEAN] /\ asked \in [Plain -> {0, 1}]
      /\ \A q \in Plain : asked[q] = 1 <=> pending[q]
    BY DEF PanelsInv
<1>2. /\ pending' \in [Plain -> BOOLEAN] /\ pending'[p] = flag
      /\ \A q \in Plain : q # p => pending'[q] = pending[q]
    BY <1>1, Zenon
<1>3. /\ asked' \in [Plain -> {0, 1}] /\ asked'[p] = n
      /\ \A q \in Plain : q # p => asked'[q] = asked[q]
    BY <1>1, Zenon
<1>4. \A q \in Plain : asked'[q] = 1 <=> pending'[q]
    BY <1>1, <1>2, <1>3, Zenon
<1> QED BY <1>2, <1>3, <1>4, Zenon DEF PanelsInv

LEMMA PanelsStep == PanelsInv /\ [DashboardNext]_dashboardVars => PanelsInv'
<1> SUFFICES ASSUME PanelsInv, [DashboardNext]_dashboardVars PROVE PanelsInv'
    OBVIOUS
<1>1. CASE TickFast
    <2>1. /\ UNCHANGED <<connection, pending, asked>> /\ fastPending' = TRUE
          /\ ticks' = ticks + 1 /\ ticks < MaxTicks
          /\ waiting' = waiting \cup [tick : {ticks + 1}, part : Parts]
        BY <1>1 DEF TickFast, plainVars
    <2>2. ticks' \in 1..MaxTicks
        BY <2>1, DashboardAssumption DEF PanelsInv
    <2>3. waiting' \subseteq [tick : 1..MaxTicks, part : Parts]
        BY <2>1, <2>2 DEF PanelsInv
    <2> QED BY <2>1, <2>2, <2>3 DEF PanelsInv
<1>2. ASSUME NEW w \in waiting, NEW ok \in BOOLEAN, FastAnswered(w, ok)
      PROVE  PanelsInv'
    <2>1. UNCHANGED <<ticks, pending, asked>> /\ waiting' \subseteq waiting
        BY <1>2 DEF FastAnswered, plainVars
    <2>2. fastPending' \in BOOLEAN
        BY <1>2 DEF FastAnswered, FastEnds, PanelsInv
    <2>3. connection' \in {"unknown", "up", "lost"}
        BY <1>2 DEF FastAnswered, PanelsInv
    <2> QED BY <2>1, <2>2, <2>3 DEF PanelsInv
<1>3. ASSUME NEW p \in Plain, TickPlain(p) \/ PlainAnswered(p)
      PROVE  PanelsInv'
    <2>1. UNCHANGED <<ticks, fastPending, waiting, connection>>
        BY <1>3 DEF TickPlain, PlainAnswered, fastVars
    <2>2. /\ pending \in [Plain -> BOOLEAN] /\ asked \in [Plain -> {0, 1}]
          /\ \A q \in Plain : asked[q] = 1 <=> pending[q]
        BY DEF PanelsInv
    <2>3. CASE TickPlain(p)
        <3>1. asked[p] = 0
            BY <2>2, <2>3 DEF TickPlain
        <3>2. /\ pending' = [pending EXCEPT ![p] = TRUE]
              /\ asked' = [asked EXCEPT ![p] = 1]
            BY <2>3, <3>1 DEF TickPlain
        <3> QED BY <2>1, <2>2, <3>2, PanelsPlain
    <2>4. CASE PlainAnswered(p)
        <3>1. asked[p] = 1
            BY <2>2, <2>4 DEF PlainAnswered
        <3>2. /\ pending' = [pending EXCEPT ![p] = FALSE]
              /\ asked' = [asked EXCEPT ![p] = 0]
            BY <2>4, <3>1 DEF PlainAnswered
        <3>3. 0 \in {0, 1} /\ FALSE \in BOOLEAN /\ (0 = 1 <=> FALSE)
            OBVIOUS
        <3> QED BY <2>1, <3>2, <3>3, PanelsPlain
    <2> QED BY <1>3, <2>3, <2>4
<1>4. CASE ChartNext \/ UNCHANGED dashboardVars
    <2>1. UNCHANGED fastVars /\ UNCHANGED plainVars
        BY <1>4 DEF ChartNext, TickSlow, Select, LoadAnswered, EndLoad, dashboardVars
    <2> QED BY <2>1 DEF PanelsInv, fastVars, plainVars
<1> QED BY <1>1, <1>2, <1>3, <1>4 DEF DashboardNext, FastNext, PlainNext

LEMMA PanelsStart == DashboardInit => PanelsInv
<1> SUFFICES ASSUME DashboardInit PROVE PanelsInv
    OBVIOUS
<1>1. /\ pending \in [Plain -> BOOLEAN] /\ asked \in [Plain -> {0, 1}]
      /\ \A p \in Plain : pending[p] = FALSE /\ asked[p] = 0
    BY DEF DashboardInit
<1>2. 0 # 1 /\ 0 \in 0..MaxTicks
    BY DashboardAssumption
<1>3. fastPending \in BOOLEAN
    BY Zenon DEF DashboardInit
<1>4. connection \in {"unknown", "up", "lost"} /\ waiting = {} /\ ticks = 0
    BY Zenon DEF DashboardInit
<1> QED BY <1>1, <1>2, <1>3, <1>4, Zenon DEF PanelsInv

LEMMA DashboardTypes == ChartInv /\ PanelsInv => DashboardTypeOK
<1> SUFFICES ASSUME ChartInv, PanelsInv PROVE DashboardTypeOK
    OBVIOUS
<1>1. /\ Newest \in 0..MaxLoads /\ loads \in [1..Newest -> Load]
      /\ selected \in Selections /\ chart \in 0..Newest /\ controller \in 0..Newest
      /\ chartError \in BOOLEAN /\ busy \in BOOLEAN
    BY DashboardAssumption DEF ChartInv, Numbered
<1>2. controller \in 0..MaxLoads /\ chart \in 0..MaxLoads
    BY <1>1, DashboardAssumption
<1>3. Loads = 1..Newest /\ \A l \in Loads : loads[l] \in Load
    BY <1>1 DEF Loads
<1>4. \A l \in Loads : /\ loads[l].selection \in Selections
                       /\ loads[l].state \in {"loading", "loaded", "failed", "over"}
    BY <1>3 DEF Load
<1>5. Loads \in {1..n : n \in 0..MaxLoads}
    <2> HIDE DEF Newest
    <2> QED BY <1>1, <1>3
<1>6. asked \in [Plain -> 0..1]
    BY DEF PanelsInv
<1> QED BY <1>1, <1>2, <1>4, <1>5, <1>6 DEF PanelsInv, DashboardTypeOK

-----------------------------------------------------------------------------
(***************************************************************************)
(* All of it, for the specification that the run checks.                   *)
(***************************************************************************)
ReadersInv == FeedsInv /\ ChartInv /\ PanelsInv

LEMMA ReadersStep == ReadersInv /\ [Next]_vars => ReadersInv'
<1> SUFFICES ASSUME ReadersInv, [Next]_vars PROVE ReadersInv'
    OBVIOUS
<1>1. [FeedsNext]_feedVars /\ [DashboardNext]_dashboardVars
    <2>1. CASE Next
        BY <2>1 DEF Next, DashboardNext
    <2>2. CASE UNCHANGED vars
        BY <2>2 DEF vars
    <2> QED BY <2>1, <2>2
<1> QED BY <1>1, FeedsStepKeeps, ChartStep, PanelsStep DEF ReadersInv

LEMMA ReadersStart == Init => ReadersInv
BY FeedsStart, ChartStart, PanelsStart DEF Init, ReadersInv

\* The running service: in every state of the run's own specification every datagram is
\* accounted for and none overtakes another, the session is closed when nothing is left,
\* answers of the feeds tell their age, and the chart is of the selection and never
\* replaced by an older one, with one request at most for a panel.
THEOREM ServiceHolds ==
    Spec => /\ [](/\ UdpTypeOK /\ EveryDatagramAccounted /\ HandledInOrder /\ SavesBeforeClose
                  /\ ReadingTypeOK /\ ReplyIsHonest /\ ChartSettled)
            /\ ChartNeverOlder
<1>1. ReadersInv => ReadingTypeOK /\ ReplyIsHonest /\ ChartSettled
    BY DashboardTypes DEF ReadersInv, FeedsInv, ChartInv, ReadingTypeOK
<1>2. Init => DashboardInit /\ UdpInit
    BY DEF Init
<1>3. [Next]_vars => [DashboardNext]_dashboardVars
    BY DEF Next, vars, DashboardNext
<1>4. [Next]_vars => [UdpNext]_udpVars
    BY DEF Next, vars
<1>5. Spec => ChartSpec
    BY <1>2, <1>3, PTL DEF Spec, ChartSpec
<1>6. Spec => UdpSpec
    BY <1>2, <1>4, PTL DEF Spec, UdpSpec
<1> QED
    BY ReadersStart, ReadersStep, <1>1, <1>5, <1>6, ChartsNeverAge, ServiceTypeCorrect,
       NoneIsUncounted, OrderIsKept, SavedBeforeClose, PTL DEF Spec
=============================================================================
