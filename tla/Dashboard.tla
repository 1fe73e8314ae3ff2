------------------------------ MODULE Dashboard ------------------------------
(***************************************************************************)
(* The panels of the dashboard (web/static/app.js).  Timers and clicks     *)
(* start refreshes, whose requests are answered, or fail, in any order.    *)
(* A handler runs to its next await in one step.                           *)
(*                                                                         *)
(* Three kinds of panel: the charts, refreshed for a selection and         *)
(* restarted when it changes; the status and the latest decodes, fetched   *)
(* side by side; the totals and the propagation panel, one request each.   *)
(* The three requests of a refresh of the charts count as one.             *)
(***************************************************************************)
EXTENDS Naturals, FiniteSets

CONSTANTS Selections,  \* hours, bucket and time zone that can be selected
          MaxLoads,    \* bound: refreshes of the charts
          MaxTicks     \* bound: refreshes of the status

ASSUME DashboardAssumption ==
    Selections # {} /\ MaxLoads \in Nat /\ MaxTicks \in Nat

Parts == {"status", "latest"}
Plain == {"totals", "propagation"}

VARIABLES
    selected,   \* selectedHours, selectedBucket, selectedTimezone
    controller, \* chartController: the number of the refresh it belongs to, 0: null
    loads,      \* the refreshes of the charts: their selection and what became of them
    chart,      \* the refresh that the charts show, 0: none
    chartError, \* the notice of the charts
    busy,       \* aria-busy
    ticks,      \* refreshes of the status begun
    fastPending,
    waiting,    \* requests of the status and the latest decodes under way
    connection, \* whether the connection is said to be lost
    pending,    \* totalsPending and propagationPending
    asked       \* requests of each plain panel under way

chartVars     == <<selected, controller, loads, chart, chartError, busy>>
fastVars      == <<ticks, fastPending, waiting, connection>>
plainVars     == <<pending, asked>>
dashboardVars == <<chartVars, fastVars, plainVars>>

Loads == DOMAIN loads

DashboardTypeOK ==
    /\ selected \in Selections /\ controller \in 0..MaxLoads /\ chart \in 0..MaxLoads
    /\ Loads \in {1..n : n \in 0..MaxLoads}
    /\ \A l \in Loads : /\ loads[l].selection \in Selections
                        /\ loads[l].state \in {"loading", "loaded", "failed", "over"}
    /\ chartError \in BOOLEAN /\ busy \in BOOLEAN
    /\ ticks \in 0..MaxTicks /\ fastPending \in BOOLEAN
    /\ waiting \subseteq [tick : 1..MaxTicks, part : Parts]
    /\ connection \in {"unknown", "up", "lost"}
    /\ pending \in [Plain -> BOOLEAN] /\ asked \in [Plain -> 0..1]

DashboardInit ==
    /\ selected \in Selections /\ controller = 0 /\ loads = <<>> /\ chart = 0
    /\ chartError = FALSE /\ busy = FALSE
    /\ ticks = 0 /\ fastPending = FALSE /\ waiting = {} /\ connection = "unknown"
    /\ pending = [p \in Plain |-> FALSE] /\ asked = [p \in Plain |-> 0]

-----------------------------------------------------------------------------
\* tickSlow up to its await: it takes the controller from the refresh that has
\* it, which is aborted, and asks for the selection of this moment.
BeginLoad(selection) ==
    /\ Cardinality(Loads) < MaxLoads
    /\ LET l == Cardinality(Loads) + 1 IN
       /\ loads' = [i \in 1..l |-> IF i = l THEN [selection |-> selection, state |-> "loading"]
                                            ELSE loads[i]]
       /\ controller' = l
    /\ busy' = TRUE

\* The timer's tickSlow, unless a refresh is under way.
TickSlow ==
    /\ controller = 0
    /\ BeginLoad(selected)
    /\ UNCHANGED <<selected, chart, chartError, fastVars, plainVars>>

\* A click: tickSlow(true).
Select(selection) ==
    /\ selected' = selection
    /\ BeginLoad(selection)
    /\ UNCHANGED <<chart, chartError, fastVars, plainVars>>

\* The requests are answered, or one of them fails, or is aborted, or times out.
LoadAnswered(l) ==
    /\ loads[l].state = "loading"
    /\ \E state \in {"loaded", "failed"} : loads' = [loads EXCEPT ![l].state = state]
    /\ UNCHANGED <<selected, controller, chart, chartError, busy, fastVars, plainVars>>

\* (mutant) Every refresh shows its answer.
OwnsAny(l) == TRUE

\* The refresh was neither aborted nor replaced.
Owns(l) == controller = l

\* (mutant) The last refresh that ends clears the controller, whosever it is.
LoadOverAlways(l) == controller' = 0 /\ busy' = FALSE

\* finally: the controller is given back by the refresh that has it.
LoadOver(l) ==
    IF controller = l THEN controller' = 0 /\ busy' = FALSE ELSE UNCHANGED <<controller, busy>>

\* tickSlow after its await: it shows what was loaded, or the notice.
EndLoad(l) ==
    /\ loads[l].state \in {"loaded", "failed"}
    /\ loads' = [loads EXCEPT ![l].state = "over"]
    /\ chart' = IF Owns(l) /\ loads[l].state = "loaded" THEN l ELSE chart
    /\ chartError' = IF Owns(l) THEN loads[l].state = "failed" ELSE chartError
    /\ LoadOver(l)
    /\ UNCHANGED <<selected, fastVars, plainVars>>

-----------------------------------------------------------------------------
\* tickFast: both requests, unless some are waited for.
TickFast ==
    /\ ~fastPending /\ ticks < MaxTicks
    /\ fastPending' = TRUE /\ ticks' = ticks + 1
    /\ waiting' = waiting \cup [tick : {ticks + 1}, part : Parts]
    /\ UNCHANGED <<connection, chartVars, plainVars>>

\* (mutant) A failure leaves the pending flag set.
FastEndsOnSuccess(w, ok, over) == IF over /\ ok THEN fastPending' = FALSE ELSE UNCHANGED fastPending

\* finally, when the last of both is answered or the first one fails.
FastEnds(w, ok, over) == IF over THEN fastPending' = FALSE ELSE UNCHANGED fastPending

\* A request of tickFast is answered, fails or times out.  The first failure ends
\* the refresh, and the other request goes on by itself.
FastAnswered(w, ok) ==
    LET current == fastPending /\ w.tick = ticks
        over    == current /\ (~ok \/ waiting \cap [tick : {ticks}, part : Parts] = {w})
    IN /\ w \in waiting /\ waiting' = waiting \ {w}
       /\ FastEnds(w, ok, over)
       /\ connection' = IF over THEN (IF ok THEN "up" ELSE "lost") ELSE connection
       /\ UNCHANGED <<ticks, chartVars, plainVars>>

-----------------------------------------------------------------------------
\* (mutant) The flag is not looked at before a refresh.
TickPlainAgain(p) ==
    /\ pending' = [pending EXCEPT ![p] = TRUE]
    /\ asked' = [asked EXCEPT ![p] = @ + 1]
    /\ UNCHANGED <<chartVars, fastVars>>

\* tickTotals and refreshPropagation
TickPlain(p) ==
    /\ ~pending[p]
    /\ pending' = [pending EXCEPT ![p] = TRUE]
    /\ asked' = [asked EXCEPT ![p] = @ + 1]
    /\ UNCHANGED <<chartVars, fastVars>>

\* The request is answered, or not.
PlainAnswered(p) ==
    /\ asked[p] > 0 /\ asked' = [asked EXCEPT ![p] = @ - 1]
    /\ pending' = [pending EXCEPT ![p] = FALSE]
    /\ UNCHANGED <<chartVars, fastVars>>

ChartNext ==
    \/ TickSlow
    \/ \E s \in Selections : Select(s)
    \/ \E l \in Loads : LoadAnswered(l) \/ EndLoad(l)

FastNext == TickFast \/ \E w \in waiting, ok \in BOOLEAN : FastAnswered(w, ok)

PlainNext == \E p \in Plain : TickPlain(p) \/ PlainAnswered(p)

DashboardNext == ChartNext \/ FastNext \/ PlainNext

\* Every request ends: getJson gives it 30 s.
DashboardFairness ==
    /\ \A l \in 1..MaxLoads :
          WF_dashboardVars(l \in Loads /\ (LoadAnswered(l) \/ EndLoad(l)))
    /\ \A w \in [tick : 1..MaxTicks, part : Parts] :
          WF_dashboardVars(\E ok \in BOOLEAN : FastAnswered(w, ok))
    /\ \A p \in Plain : WF_dashboardVars(PlainAnswered(p))

DashboardSpec == DashboardInit /\ [][DashboardNext]_dashboardVars /\ DashboardFairness

-----------------------------------------------------------------------------
\* With nothing loading and no notice, the charts are those of the selection that
\* is shown as pressed, however late the answers for earlier ones come.
ChartOfSelection ==
    controller = 0 /\ chart # 0 /\ ~chartError => loads[chart].selection = selected

\* The charts are said to be loading exactly while the newest refresh is: an
\* older one that ends does not end it.
BusyIsNewest ==
    /\ busy = (controller # 0)
    /\ controller # 0 => controller = Cardinality(Loads) /\ loads[controller].state # "over"

\* The charts are never left with an answer, or a sign of loading, that belongs to
\* another refresh than the one that the selection stands for.
ChartSettled == ChartOfSelection /\ BusyIsNewest

\* The answer of an older refresh never replaces that of a newer one.
ChartNeverOlder == [][chart' >= chart]_chart

\* Every panel can be refreshed again, whichever of its requests fail.
PanelsReleased ==
    /\ fastPending ~> ~fastPending
    /\ controller # 0 ~> controller = 0
    /\ \A p \in Plain : pending[p] ~> ~pending[p]

\* A timer does not duplicate a request that is under way.
NoDuplicateRequest ==
    \A p \in Parts : Cardinality({w \in waiting : w.part = p}) <= 1
=============================================================================
