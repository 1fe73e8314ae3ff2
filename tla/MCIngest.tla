------------------------------ MODULE MCIngest ------------------------------
(***************************************************************************)
(* From a datagram to the reports, for TLC, in one run: reading a datagram,*)
(* its receiver, the suppression of repetitions, reading its message,      *)
(* storing the decode, reading the rows in pages and reporting their hours *)
(* share no state, so that each behaviour is one of one part.  The bounds  *)
(* are in the cfg file.                                                    *)
(***************************************************************************)
EXTENDS NetworkDedupe, UdpSenders, Stations, Packets, Ft8Messages, CountryLookup,
        ObservationPages, HourReport, TLC

VARIABLE part   \* the part whose behaviour it is

storing == <<dedupeVars, sendersVars, stationVars>>
texts   == <<packetVars, messageVars, countryVars>>
reports == <<pageVars, reportVars>>
vars    == <<part, storing, texts, reports>>

Init ==
    /\ part \in {"packets", "senders", "dedupe", "messages", "country", "stations", "pages",
                "report"}
    /\ DedupeInit /\ SendersInit /\ StationsInit /\ PagesInit /\ ReportInit
    /\ part # "senders" => wall = 0
    /\ part # "report" => query = [since |-> 0, until |-> 1, width |-> 1,
                                 zone |-> CHOOSE z \in Zones : TRUE]
    /\ IF part = "packets" THEN PacketsInit
       ELSE /\ packet = [type |-> "unknown", odd |-> 0, value |-> "usual", length |-> 0,
                         time |-> 0, received |-> Day]
            /\ parsed = <<>>
    /\ IF part = "messages" THEN MessagesInit ELSE message = <<>> /\ reading = <<>>
    /\ IF part = "country" THEN CountryInit ELSE entities = <<>> /\ call = <<>> /\ match = <<>>

TextsNext ==
    \/ part = "packets" /\ PacketsNext /\ UNCHANGED <<messageVars, countryVars>>
    \/ part = "messages" /\ MessagesNext /\ UNCHANGED <<packetVars, countryVars>>
    \/ part = "country" /\ CountryNext /\ UNCHANGED <<packetVars, messageVars>>

StoringNext ==
    \/ part = "senders" /\ SendersNext /\ UNCHANGED <<dedupeVars, stationVars>>
    \/ part = "dedupe" /\ DedupeNext /\ UNCHANGED <<sendersVars, stationVars>>
    \/ part = "stations" /\ StationsNext /\ UNCHANGED <<dedupeVars, sendersVars>>

ReportsNext ==
    \/ part = "pages" /\ PagesNext /\ UNCHANGED reportVars
    \/ part = "report" /\ ReportNext /\ UNCHANGED pageVars

Next ==
    /\ UNCHANGED part
    /\ \/ TextsNext /\ UNCHANGED <<storing, reports>>
       \/ StoringNext /\ UNCHANGED <<texts, reports>>
       \/ ReportsNext /\ UNCHANGED <<storing, texts>>

Spec == Init /\ [][Next]_vars

\* Every callsign has the same base, as a call and its portable form do.
OneBase == [c \in Calls |-> CHOOSE b \in Bases : TRUE]

\* Callsigns of two prefixes that stand in one another, and of a third
CallParts == {<<"J">>, <<"J", "1">>, <<"J", "1", "K">>, <<"K", "1", "J">>}
OfCty     == {<<"J">>, <<"J", "1">>, <<"K">>}
AfterCall == {<<"P">>}

ZonesOf == {-1, 1}

\* Receivers, addresses, callsigns, keys, dial frequencies and grids are only compared; what
\* two parts use is of the same values, as the parts share no state.
Symmetry == Permutations(Receivers) \cup Permutations(Calls) \cup Permutations(Grids)

-----------------------------------------------------------------------------
\* Every part has its types: what is read fits the fields it is for, what is stored
\* its tables, sessions and positions their bounds, and a page the list.
IngestTypeOK ==
    /\ PacketsTypeOK /\ MessagesTypeOK /\ CountryTypeOK
    /\ DedupeTypeOK /\ SendersTypeOK /\ StationsTypeOK
    /\ PagesTypeOK /\ ReportTypeOK
=============================================================================
