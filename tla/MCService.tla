------------------------------ MODULE MCService ------------------------------
(***************************************************************************)
(* The running service, for TLC, in one run: its UDP side, the feeds that  *)
(* it asks for space weather, and the panels of the dashboard.  They share *)
(* no state, so that each behaviour is one of one part.  The bounds are in *)
(* the cfg file.                                                           *)
(***************************************************************************)
EXTENDS UdpService, PropagationFeeds, Dashboard, TLC

VARIABLE part   \* the part whose behaviour it is

vars == <<part, udpVars, feedVars, dashboardVars>>

Init ==
    /\ part \in {"udp", "feeds", "chart", "fast", "plain"}
    /\ UdpInit /\ FeedsInit /\ DashboardInit

Next ==
    /\ UNCHANGED part
    /\ \/ part = "udp" /\ UdpNext /\ UNCHANGED <<feedVars, dashboardVars>>
       \/ part = "feeds" /\ FeedsNext /\ UNCHANGED <<udpVars, dashboardVars>>
       \/ part = "chart" /\ ChartNext /\ UNCHANGED <<udpVars, feedVars>>
       \/ part = "fast" /\ FastNext /\ UNCHANGED <<udpVars, feedVars>>
       \/ part = "plain" /\ PlainNext /\ UNCHANGED <<udpVars, feedVars>>

\* The event loop runs every task that can go on, and the thread returns; the HTTP server
\* need never return.
UdpFairness ==
    /\ WF_udpVars(ConnectionLost) /\ WF_udpVars(Monitor) /\ WF_udpVars(Worker)
    /\ WF_udpVars(part = "udp" /\ Main)

\* What is fair of a part is enabled only after a step of that part, or in it alone, as
\* _serve is from the start: it asks nothing of the behaviours of the others.
Fairness == FeedsFairness /\ DashboardFairness /\ UdpFairness

Spec == Init /\ [][Next]_vars /\ Fairness

TtlOf == [space |-> 1, hamqsl |-> 2, image |-> 2]

-----------------------------------------------------------------------------
\* The feeds and the panels have their types, counters their bounds, and panels one
\* request each.
ReadingTypeOK == FeedsTypeOK /\ DashboardTypeOK

\* Whoever asks is served in the end: a snapshot is answered, and every panel can be
\* refreshed again, whatever fails on the way.
ReadersServed == SnapshotAnswered /\ PanelsReleased
=============================================================================
