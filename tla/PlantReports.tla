---------------------------- MODULE PlantReports ----------------------------
(***************************************************************************)
(* What a caller reads next to the scores and the history of a plant:      *)
(* get_plant_overview, get_unit_detail, get_active_alerts and              *)
(* get_compliance_status, over the plant record, the alerts and the        *)
(* effluent readings of services/fixtures.py.  Nothing computes an alert   *)
(* from the readings: the alerts are a table of their own, and so are the  *)
(* effluent readings, and each tool reads its table by itself.  What the   *)
(* tools say of one plant has to fit together all the same, whichever is   *)
(* asked first.                                                            *)
(*                                                                         *)
(* Values are in hundredths.  The plant's record exists: what happens      *)
(* without one is in ToolPipeline.                                         *)
(***************************************************************************)
EXTENDS ParameterHistory, SequencesExt

CONSTANTS
  Flow,        \* the edges of the treatment train, pairs of units
  Limits,      \* the permit limits, in the order of the table
  Tables,      \* what the tables may hold: readings, effluent readings, alerts
  MaxAnswers   \* bound on the answers a caller holds at once

ASSUME LimitsAssumption  == \A i \in DOMAIN Limits : Limits[i].limit \in Nat
ASSUME TablesAssumption  == \A t \in Tables : /\ t.series \in Histories
                                             /\ \A i \in DOMAIN Limits : t.effluent[Limits[i].parameter] \in Seq(Int)
ASSUME AnswersAssumption == MaxAnswers \in Nat \ {0}

VARIABLES
  effluent,    \* parameter |-> its readings of the last week, oldest first
  alerts,      \* the rows of the alerts table
  overview,    \* get_plant_overview's last answer
  detail,      \* get_unit_detail's
  alerted,     \* get_active_alerts's
  compliance   \* get_compliance_status's

tables    == <<effluent, alerts>>
reports   == <<overview, detail, alerted, compliance>>
plantVars == <<historyVars, tables, reports>>

-------------------------------------------------------------------------------
PlantOverview == [ok |-> TRUE, units |-> UnitSet, flow |-> Flow]

\* A unit's parameters with their bands; the code raises for an unknown unit.
UnitDetail(unit) ==
  IF unit \notin UnitSet THEN Refused
  ELSE [ok |-> TRUE, unit |-> unit, bands |-> [code \in ParametersOf[unit] |-> Bands[code]]]

ActiveAlerts(includeResolved) ==
  [ok |-> TRUE, alerts |-> {a \in alerts : includeResolved \/ a.status = "active"}]

\* Mutant: reaching the limit is exceeding it.
TierForReached(value, limit) ==
  IF value >= limit THEN "exceedance" ELSE IF 10 * value > 9 * limit THEN "warning" ELSE "compliant"

\* _tier_for: exact, as 0.9 * limit is for the limits of the table.
TierFor(value, limit) ==
  IF value > limit THEN "exceedance" ELSE IF 10 * value > 9 * limit THEN "warning" ELSE "compliant"

TierOrder == [compliant |-> 0, warning |-> 1, exceedance |-> 2]

Recent(code) == effluent[code][Len(effluent[code])]

Row(l) ==
  [parameter |-> l.parameter, value |-> Recent(l.parameter), margin |-> l.limit - Recent(l.parameter),
   tier |-> TierFor(Recent(l.parameter), l.limit)]

\* The worst of the tiers, compliant if there are none.
Overall(rows) ==
  LET tiers == {"compliant"} \cup {rows[i].tier : i \in DOMAIN rows}
  IN  CHOOSE t \in tiers : \A o \in tiers : TierOrder[o] <= TierOrder[t]

Answer(judged) ==
  LET rows == [i \in DOMAIN judged |-> Row(judged[i])]
  IN  [ok |-> TRUE, rows |-> rows, overall |-> Overall(rows)]

\* Mutant: a limit without readings is passed over.
StatusOfTheMeasured == Answer(SelectSeq(Limits, LAMBDA l : effluent[l.parameter] # << >>))

\* A limit without readings makes the code raise.
ComplianceStatus ==
  IF \E i \in DOMAIN Limits : effluent[Limits[i].parameter] = << >> THEN Refused
  ELSE Answer(Limits)

-------------------------------------------------------------------------------
PlantInit ==
  /\ HistoryInit
  /\ \E t \in Tables : t.series = series /\ effluent = t.effluent /\ alerts = t.alerts
  /\ overview = Refused /\ detail = Refused /\ alerted = Refused /\ compliance = Refused

\* Answers do not depend on earlier ones: a caller asks each tool until it has an
\* answer, and for MaxAnswers of them.
Held == LET answers == <<explained, history, overview, detail, alerted, compliance>>
        IN  {i \in DOMAIN answers : answers[i].ok}

Room(last) == ~last.ok /\ Cardinality(Held) < MaxAnswers

GetPlantOverview ==
  /\ overview' = PlantOverview
  /\ UNCHANGED <<historyVars, tables, detail, alerted, compliance>>

GetUnitDetail(unit) ==
  /\ detail' = UnitDetail(unit)
  /\ UNCHANGED <<historyVars, tables, overview, alerted, compliance>>

GetActiveAlerts(includeResolved) ==
  /\ alerted' = ActiveAlerts(includeResolved)
  /\ UNCHANGED <<historyVars, tables, overview, detail, compliance>>

GetComplianceStatus ==
  /\ compliance' = ComplianceStatus
  /\ UNCHANGED <<historyVars, tables, overview, detail, alerted>>

PlantNext ==
  \/ Room(explained) /\ AskScore /\ UNCHANGED <<tables, reports>>
  \/ Room(history) /\ AskHistory /\ UNCHANGED <<tables, reports>>
  \/ Room(overview) /\ GetPlantOverview
  \/ Room(detail) /\ \E unit \in UnitSet \cup {None} : GetUnitDetail(unit)
  \/ Room(alerted) /\ \E includeResolved \in BOOLEAN : GetActiveAlerts(includeResolved)
  \/ Room(compliance) /\ GetComplianceStatus

PlantSpec == PlantInit /\ [][PlantNext]_plantVars

-------------------------------------------------------------------------------
Alerted    == IF alerted.ok THEN alerted.alerts ELSE {}
OfUnits    == {a \in Alerted : a.unit # None}
OfThePlant == {a \in Alerted : a.unit = None}

\* What an alert and a reading with its zone say of the day the alert fired and of
\* the day before.
Agree(alert, day, value, zone) ==
  /\ day = alert.day     => value = alert.value /\ zone # "normal"
  /\ day = alert.day - 1 => zone = "normal"

\* fixtures.py:484-487, 531-534: an alert is dated by the first day its parameter
\* leaves the normal zone and carries the reading of that day, so that it does not
\* contradict the explained score or the raw history of the same date, for any
\* two of the answers a caller may hold.
AlertsAgreeWithScores ==
  \A a \in OfUnits :
    /\ explained.ok /\ explained.unit = a.unit =>
         \A c \in explained.score.contributions :
           c.parameter = a.parameter => Agree(a, explained.as_of.day, c.value, c.zone)
    /\ history.ok /\ history.unit = a.unit /\ history.resolution = "raw" /\ a.parameter \in DOMAIN history.series =>
         \A i \in DOMAIN Points(a.parameter) :
           LET p == Points(a.parameter)[i] IN Agree(a, p.day, p.value, p.zone)

\* fixtures.py:501-506: what one tool names the next ones can resolve.  An alert of
\* a unit names one that the overview has, with a band and readings of the parameter;
\* an alert of the whole plant a parameter with a permit limit; the overview's
\* units and the ends of its flow have a detail.  (The parameters of the compliance
\* status have no history: asked for one, the tool answers with a blind spot.)
NamesCanBeFollowed ==
  /\ \A a \in OfUnits :
       /\ overview.ok => a.unit \in overview.units
       /\ detail.ok /\ detail.unit = a.unit => a.parameter \in DOMAIN detail.bands
       /\ history.ok /\ history.unit = a.unit /\ a.parameter \in DOMAIN history.series =>
            history.series[a.parameter].populated
  /\ compliance.ok => \A a \in OfThePlant : \E i \in DOMAIN compliance.rows :
       compliance.rows[i].parameter = a.parameter
  /\ overview.ok =>
       /\ \A i \in DOMAIN overview.flow : ToSet(overview.flow[i]) \subseteq overview.units
       /\ \A unit \in overview.units : UnitDetail(unit).ok

\* A parameter is over its limit in the compliance status exactly if an active alert
\* of the plant says so, with the same value.
AlertsAgreeWithCompliance ==
  alerted.ok /\ compliance.ok => \A i \in DOMAIN compliance.rows :
    LET row == compliance.rows[i]
    IN  row.tier = "exceedance" <=>
          \E a \in OfThePlant : a.parameter = row.parameter /\ a.value = row.value /\ a.status = "active"

\* compliance_status.py:72-76, 115-119: the overall tier is never understated.  A
\* status is given only if every limit has a reading; it is an exceedance exactly if
\* the last reading of some limit has a negative margin, and compliant only if all
\* of them leave a tenth.
ConformanceIsComplete ==
  compliance.ok =>
    LET margins == {[left |-> Limits[i].limit - Recent(Limits[i].parameter), of |-> Limits[i].limit] : i \in DOMAIN Limits}
    IN  /\ \A i \in DOMAIN Limits : effluent[Limits[i].parameter] # << >>
        /\ compliance.overall = "exceedance" <=> \E m \in margins : m.left < 0
        /\ compliance.overall = "compliant" <=> \A m \in margins : 10 * m.left >= m.of
===============================================================================
