-------------------------- MODULE PlantReportsProofs --------------------------
(***************************************************************************)
(* Theorems about what the six tools say of a plant next to one another,   *)
(* for any plant, tables and window and any number of answers held.        *)
(***************************************************************************)
EXTENDS PlantReports, ParameterHistoryProofs

(***************************************************************************)
(* The invariant: the tables are those of the start, and every answer held *)
(* is what the tool would say again.                                       *)
(***************************************************************************)
TablesOK == \E t \in Tables : t.series = series /\ effluent = t.effluent /\ alerts = t.alerts

ReportsOK ==
  /\ overview \in {Refused, PlantOverview}
  /\ detail = Refused \/ \E unit \in UnitSet \cup {None} : detail = UnitDetail(unit)
  /\ alerted = Refused \/ \E includeResolved \in BOOLEAN : alerted = ActiveAlerts(includeResolved)
  /\ compliance \in {Refused, ComplianceStatus}

PlantInv == Inv /\ HistoryInv /\ TablesOK /\ ReportsOK

LEMMA PlantStarts == PlantInit => PlantInv
<1> SUFFICES ASSUME PlantInit PROVE PlantInv
  OBVIOUS
<1>1. Inv
  BY DEF PlantInit, HistoryInit, Init, Inv
<1> QED BY <1>1 DEF PlantInit, HistoryInit, HistoryInv, TablesOK, ReportsOK, PlantInv

\* What is left alone keeps its part of the invariant.
LEMMA Unchanged == 
  /\ Inv /\ UNCHANGED vars => Inv'
  /\ HistoryInv /\ UNCHANGED series /\ UNCHANGED history => HistoryInv'
  /\ TablesOK /\ UNCHANGED series /\ UNCHANGED tables => TablesOK'
  /\ ReportsOK /\ UNCHANGED tables /\ UNCHANGED reports => ReportsOK'
<1>1. Inv /\ UNCHANGED vars => Inv'
  BY InvKeeps
<1>2. ASSUME HistoryInv, series' = series, history' = history PROVE HistoryInv'
  <2>1. \A unit, start, end, codes, up : HistoryOf(unit, start, end, codes, up)' = HistoryOf(unit, start, end, codes, up)
    BY <1>2 DEF HistoryOf, SeriesFor, InWindow
  <2> QED BY <1>2, <2>1 DEF HistoryInv
<1>3. ASSUME TablesOK, series' = series, UNCHANGED tables PROVE TablesOK'
  BY <1>3 DEF TablesOK, tables
<1>4. ASSUME ReportsOK, UNCHANGED tables, UNCHANGED reports PROVE ReportsOK'
  <2>1. ComplianceStatus' = ComplianceStatus /\ \A b : ActiveAlerts(b)' = ActiveAlerts(b)
    BY <1>4 DEF tables, ComplianceStatus, Answer, Row, Recent, ActiveAlerts
  <2> QED BY <1>4, <2>1 DEF ReportsOK, reports, tables, PlantOverview, UnitDetail
<1> QED BY <1>1, <1>2, <1>3, <1>4 DEF vars

LEMMA PlantKeeps == PlantInv /\ [PlantNext]_plantVars => PlantInv'
<1> SUFFICES ASSUME PlantInv, [PlantNext]_plantVars PROVE PlantInv'
  OBVIOUS
<1>1. Inv /\ HistoryInv /\ TablesOK /\ ReportsOK
  BY DEF PlantInv
<1>2. CASE AskScore /\ UNCHANGED <<tables, reports>>
  <2>1. PICK unit \in UnitSet, arg \in Arguments : ExplainScore(unit, arg) /\ UNCHANGED history
    BY <1>2 DEF AskScore, Explain
  <2>2. Inv'
    BY <1>1, <2>1, InvKeeps DEF Next
  <2>3. series' = series
    BY <2>1 DEF ExplainScore
  <2> QED BY <1>1, <1>2, <2>1, <2>2, <2>3, Unchanged DEF PlantInv
<1>3. CASE AskHistory /\ UNCHANGED <<tables, reports>>
  <2>1. PICK unit \in UnitSet \cup {None}, start, end \in Dates, codes \in Codes \cup {None}, up \in BOOLEAN :
          history' = HistoryOf(unit, start, end, codes, up) /\ UNCHANGED vars
    BY <1>3 DEF AskHistory, GetParameterHistory
  <2>2. series' = series
    BY <2>1 DEF vars
  <2>3. HistoryInv'
    <3>1. HistoryOf(unit, start, end, codes, up)' = HistoryOf(unit, start, end, codes, up)
      BY <2>2 DEF HistoryOf, SeriesFor, InWindow
    <3> QED BY <2>1, <3>1 DEF HistoryInv
  <2> QED BY <1>1, <1>3, <2>1, <2>2, <2>3, Unchanged DEF PlantInv
<1>4. ASSUME UNCHANGED historyVars, UNCHANGED tables, ReportsOK' PROVE PlantInv'
  BY <1>1, <1>4, Unchanged DEF historyVars, vars, PlantInv
<1>5. ASSUME UNCHANGED tables
      PROVE  ComplianceStatus' = ComplianceStatus /\ \A b : ActiveAlerts(b)' = ActiveAlerts(b)
  BY <1>5 DEF tables, ComplianceStatus, Answer, Row, Recent, ActiveAlerts
<1>6. CASE GetPlantOverview
  BY <1>1, <1>4, <1>5, <1>6 DEF GetPlantOverview, ReportsOK, PlantOverview, UnitDetail
<1>7. ASSUME NEW unit \in UnitSet \cup {None}, GetUnitDetail(unit) PROVE PlantInv'
  BY <1>1, <1>4, <1>5, <1>7 DEF GetUnitDetail, ReportsOK, PlantOverview, UnitDetail
<1>8. ASSUME NEW includeResolved \in BOOLEAN, GetActiveAlerts(includeResolved) PROVE PlantInv'
  BY <1>1, <1>4, <1>5, <1>8 DEF GetActiveAlerts, ReportsOK, PlantOverview, UnitDetail
<1>9. CASE GetComplianceStatus
  BY <1>1, <1>4, <1>5, <1>9 DEF GetComplianceStatus, ReportsOK, PlantOverview, UnitDetail
<1>10. CASE UNCHANGED plantVars
  BY <1>1, <1>10, Unchanged DEF plantVars, historyVars, PlantInv, vars
<1> QED BY <1>2, <1>3, <1>6, <1>7, <1>8, <1>9, <1>10 DEF PlantNext

\* The tables and the answers stay what they were and what the tools would say
\* again, in whatever order the tools are asked.
THEOREM PlantInvariant == PlantSpec => []PlantInv
BY PlantStarts, PlantKeeps, PTL DEF PlantSpec

LEMMA PlantSeries == PlantInv => SeriesOK
BY SeriesTyped DEF PlantInv

-------------------------------------------------------------------------------
(***************************************************************************)
(* The history.                                                            *)
(***************************************************************************)

\* get_parameter_history: an answer that does not disclose a bound has the reading
\* of every day asked for, and none is longer than the limit.
THEOREM NothingDroppedCorrect == PlantSpec => []NothingDroppedUnsaid
<1>1. PlantInv => NothingDroppedUnsaid
  BY PlantSeries, NothingIsDropped DEF PlantInv
<1> QED BY <1>1, PlantInvariant, PTL

\* _clip_window and _bucket_weekly together: every reading of the returned window
\* counts in exactly one point, whose value lies among the readings it stands for.
THEOREM PointsCoverCorrect == PlantSpec => []PointsCoverWindow
<1>1. PlantInv => PointsCoverWindow
  BY PlantSeries, PointsAreComplete DEF PlantInv
<1> QED BY <1>1, PlantInvariant, PTL

\* BRIDGE-9: a blind spot can be told from a recorded parameter in every answer.
THEOREM BlindSpotsCorrect == PlantSpec => []BlindSpotsShown
<1>1. PlantInv => BlindSpotsShown
  BY PlantSeries, BlindSpotsAreShown DEF PlantInv
<1> QED BY <1>1, PlantInvariant, PTL

\* explain_score and a raw history put a parameter in the same zone on the same day,
\* for dates written YYYY-MM-DD.
THEOREM RawAgreesCorrect ==
  ASSUME Forms \subseteq {"extended"}
  PROVE  PlantSpec => []RawAgreesWithScore
<1>1. PlantInv => RawAgreesWithScore
  BY RawAgrees DEF PlantInv
<1> QED BY <1>1, PlantInvariant, PTL

-------------------------------------------------------------------------------
(***************************************************************************)
(* The compliance status.                                                  *)
(***************************************************************************)
Tiers == {"compliant", "warning", "exceedance"}

\* The overall tier is one of the tiers, and none is worse.
LEMMA OverallIsWorst ==
  ASSUME NEW rows, \A i \in DOMAIN rows : rows[i].tier \in Tiers
  PROVE  /\ Overall(rows) \in Tiers
         /\ Overall(rows) = "exceedance" <=> \E i \in DOMAIN rows : rows[i].tier = "exceedance"
         /\ Overall(rows) = "compliant" <=> \A i \in DOMAIN rows : rows[i].tier = "compliant"
<1> DEFINE tiers == {"compliant"} \cup {rows[i].tier : i \in DOMAIN rows}
           worst(t) == \A o \in tiers : TierOrder[o] <= TierOrder[t]
<1>1. tiers \subseteq Tiers /\ "compliant" \in tiers
  BY DEF Tiers
<1>2. TierOrder["compliant"] = 0 /\ TierOrder["warning"] = 1 /\ TierOrder["exceedance"] = 2
  BY DEF TierOrder
<1>3. \A i \in DOMAIN rows : rows[i].tier \in tiers
  OBVIOUS
<1>4. \A t \in tiers : t # "compliant" => \E i \in DOMAIN rows : t = rows[i].tier
  OBVIOUS
<1> HIDE DEF tiers
<1>5. \E t \in tiers : worst(t)
  BY <1>1, <1>2 DEF Tiers
<1>6. Overall(rows) \in tiers /\ worst(Overall(rows))
  BY <1>5 DEF Overall, tiers
<1>7. \A o \in tiers : TierOrder[o] <= TierOrder[Overall(rows)]
  BY <1>6
<1>8. CASE Overall(rows) = "exceedance"
  BY <1>1, <1>3, <1>4, <1>6, <1>8
<1>9. CASE Overall(rows) = "warning"
  <2>1. \A o \in tiers : o # "exceedance"
    BY <1>2, <1>7, <1>9
  <2>2. \E i \in DOMAIN rows : rows[i].tier = "warning"
    BY <1>4, <1>6, <1>9
  <2> QED BY <1>1, <1>3, <1>6, <1>9, <2>1, <2>2
<1>10. CASE Overall(rows) = "compliant"
  <2>1. \A o \in tiers : o = "compliant"
    BY <1>1, <1>2, <1>7, <1>10 DEF Tiers
  <2> QED BY <1>1, <1>3, <1>6, <1>10, <2>1
<1> QED BY <1>1, <1>6, <1>8, <1>9, <1>10 DEF Tiers

\* The tiers split the values at the limit and at nine tenths of it.
LEMMA TierFacts ==
  ASSUME NEW value \in Int, NEW limit \in Nat
  PROVE  /\ TierFor(value, limit) \in Tiers
         /\ TierFor(value, limit) = "exceedance" <=> value > limit
         /\ TierFor(value, limit) = "compliant" <=> 10 * value <= 9 * limit
<1>1. value > limit => 10 * value > 9 * limit
  OBVIOUS
<1> QED BY <1>1 DEF TierFor, Tiers

\* What a status holds.
LEMMA StatusHolds ==
  ASSUME PlantInv, compliance.ok
  PROVE  /\ \A i \in DOMAIN Limits :
              /\ effluent[Limits[i].parameter] # << >> /\ Recent(Limits[i].parameter) \in Int /\ Limits[i].limit \in Nat
         /\ DOMAIN compliance.rows = DOMAIN Limits
         /\ \A i \in DOMAIN Limits : compliance.rows[i] = Row(Limits[i])
         /\ compliance.overall = Overall(compliance.rows)
<1>1. compliance = ComplianceStatus /\ compliance # Refused
  BY DEF PlantInv, ReportsOK, Refused
<1>2. /\ \A i \in DOMAIN Limits : effluent[Limits[i].parameter] # << >>
      /\ compliance = Answer(Limits)
  BY <1>1 DEF ComplianceStatus
<1>3. ASSUME NEW i \in DOMAIN Limits PROVE Recent(Limits[i].parameter) \in Int /\ Limits[i].limit \in Nat
  <2>1. PICK t \in Tables : effluent = t.effluent
    BY DEF PlantInv, TablesOK
  <2>2. effluent[Limits[i].parameter] \in Seq(Int)
    BY <2>1, TablesAssumption
  <2> DEFINE readings == effluent[Limits[i].parameter]
  <2>3. readings \in Seq(Int) /\ readings # << >>
    BY <1>2, <2>2
  <2> HIDE DEF readings
  <2>4. readings[Len(readings)] \in Int
    BY <2>3
  <2> QED BY <2>4, LimitsAssumption DEF Recent, readings
<1>4. compliance.rows = [i \in DOMAIN Limits |-> Row(Limits[i])] /\ compliance.overall = Overall(compliance.rows)
  BY <1>2 DEF Answer
<1> QED BY <1>2, <1>3, <1>4

\* compliance_status.py: for any table of limits the overall tier is an exceedance
\* exactly if some limit is passed, and compliant only if each leaves a tenth.
THEOREM ConformanceCorrect == PlantSpec => []ConformanceIsComplete
<1>1. ASSUME PlantInv PROVE ConformanceIsComplete
  <2> SUFFICES ASSUME compliance.ok PROVE ConformanceIsComplete
    BY DEF ConformanceIsComplete
  <2> DEFINE limit(i) == Limits[i].limit  value(i) == Recent(Limits[i].parameter)
             D == DOMAIN Limits  rows == compliance.rows
             margins == {[left |-> limit(i) - value(i), of |-> limit(i)] : i \in D}
  <2>1. \A i \in D : limit(i) \in Nat /\ value(i) \in Int /\ effluent[Limits[i].parameter] # << >>
    BY <1>1, StatusHolds
  <2>2. DOMAIN rows = D /\ compliance.overall = Overall(rows)
    BY <1>1, StatusHolds
  <2>3. ASSUME NEW i \in D PROVE rows[i].tier = TierFor(value(i), limit(i))
    <3>1. rows[i] = Row(Limits[i])
      BY <1>1, StatusHolds
    <3> QED BY <3>1 DEF Row
  <2>4. \A m \in margins : \E i \in D : m.left = limit(i) - value(i) /\ m.of = limit(i)
    OBVIOUS
  <2>5. ASSUME NEW i \in D PROVE \E m \in margins : m.left = limit(i) - value(i) /\ m.of = limit(i)
    <3> DEFINE m == [left |-> limit(i) - value(i), of |-> limit(i)]
    <3>1. m \in margins /\ m.left = limit(i) - value(i) /\ m.of = limit(i)
      OBVIOUS
    <3> QED BY <3>1
  <2> HIDE DEF limit, value, rows, D, margins
  <2>6. ASSUME NEW i \in D
        PROVE  /\ rows[i].tier \in Tiers
               /\ rows[i].tier = "exceedance" <=> limit(i) - value(i) < 0
               /\ rows[i].tier = "compliant" <=> 10 * (limit(i) - value(i)) >= limit(i)
    <3>1. limit(i) \in Nat /\ value(i) \in Int
      BY <2>1
    <3>2. /\ TierFor(value(i), limit(i)) \in Tiers
          /\ TierFor(value(i), limit(i)) = "exceedance" <=> value(i) > limit(i)
          /\ TierFor(value(i), limit(i)) = "compliant" <=> 10 * value(i) <= 9 * limit(i)
      BY <3>1, TierFacts
    <3>3. value(i) > limit(i) <=> limit(i) - value(i) < 0
      BY <3>1
    <3>4. 10 * value(i) <= 9 * limit(i) <=> 10 * (limit(i) - value(i)) >= limit(i)
      BY <3>1
    <3> QED BY <2>3, <3>2, <3>3, <3>4
  <2>7. /\ Overall(rows) = "exceedance" <=> \E i \in D : rows[i].tier = "exceedance"
        /\ Overall(rows) = "compliant" <=> \A i \in D : rows[i].tier = "compliant"
    BY <2>2, <2>6, OverallIsWorst
  <2>8. Overall(rows) = "exceedance" <=> \E m \in margins : m.left < 0
    BY <2>4, <2>5, <2>6, <2>7
  <2>9. Overall(rows) = "compliant" <=> \A m \in margins : 10 * m.left >= m.of
    BY <2>4, <2>5, <2>6, <2>7
  <2> QED BY <2>1, <2>2, <2>8, <2>9 DEF ConformanceIsComplete, margins, limit, value, D
<1> QED BY <1>1, PlantInvariant, PTL

-------------------------------------------------------------------------------
(***************************************************************************)
(* The alerts.  Nothing computes them from the readings, so that what they *)
(* say fits the rest only if the tables do; then every two answers do.     *)
(***************************************************************************)

\* services/fixtures.py:483-487: an alert of a unit is dated by a day on which its
\* parameter is out of the normal zone and was not the day before, and carries the
\* reading of that day.
AlertsAreOfTheReadings(t) ==
  \A a \in t.alerts : a.unit # None =>
    LET zone(d) == ZoneFor(t.series[a.parameter][d], Bands[a.parameter])
    IN  /\ a.day \in Days /\ a.value = t.series[a.parameter][a.day] /\ zone(a.day) # "normal"
        /\ a.day - 1 \in Days => zone(a.day - 1) = "normal"

\* The effluent's last reading is over a limit exactly if an active alert of the
\* plant says so.
ExceedancesAreAlerted(t) ==
  \A i \in DOMAIN Limits :
    LET readings == t.effluent[Limits[i].parameter]
        last     == readings[Len(readings)]
    IN  readings # << >> =>
          (last > Limits[i].limit <=>
             \E a \in t.alerts : a.unit = None /\ a.parameter = Limits[i].parameter /\ a.value = last /\ a.status = "active")

\* The tables the answers come from.
LEMMA AlertedFacts ==
  ASSUME PlantInv
  PROVE  \E t \in Tables :
           /\ series = t.series /\ effluent = t.effluent /\ Alerted \subseteq t.alerts
           /\ alerted.ok => \A a \in t.alerts : a.status = "active" => a \in Alerted
<1>1. PICK t \in Tables : series = t.series /\ effluent = t.effluent /\ alerts = t.alerts
  BY DEF PlantInv, TablesOK
<1>2. CASE alerted = Refused
  BY <1>1, <1>2 DEF Refused, Alerted
<1>3. ASSUME NEW b \in BOOLEAN, alerted = ActiveAlerts(b)
      PROVE  Alerted \subseteq alerts /\ \A a \in alerts : a.status = "active" => a \in Alerted
  BY <1>3 DEF ActiveAlerts, Alerted
<1> QED BY <1>1, <1>2, <1>3 DEF PlantInv, ReportsOK

\* get_active_alerts, explain_score and a raw history never contradict each other
\* about a day, if the alerts table is dated by the readings: no answer shows a
\* reading of another day than it says.
THEOREM AlertsAgreeCorrect ==
  ASSUME Forms \subseteq {"extended"}, \A t \in Tables : AlertsAreOfTheReadings(t)
  PROVE  PlantSpec => []AlertsAgreeWithScores
<1>1. ASSUME PlantInv PROVE AlertsAgreeWithScores
  <2> SUFFICES ASSUME NEW a \in OfUnits
               PROVE  /\ explained.ok /\ explained.unit = a.unit =>
                           \A c \in explained.score.contributions :
                             c.parameter = a.parameter => Agree(a, explained.as_of.day, c.value, c.zone)
                      /\ history.ok /\ history.unit = a.unit /\ history.resolution = "raw" /\ a.parameter \in DOMAIN history.series =>
                           \A i \in DOMAIN Points(a.parameter) :
                             LET p == Points(a.parameter)[i] IN Agree(a, p.day, p.value, p.zone)
    BY DEF AlertsAgreeWithScores
  <2> DEFINE code == a.parameter  zone(d) == ZoneFor(series[code][d], Bands[code])
  <2>1. /\ a.day \in Days /\ a.value = series[code][a.day] /\ zone(a.day) # "normal"
        /\ a.day - 1 \in Days => zone(a.day - 1) = "normal"
    BY <1>1, AlertedFacts DEF AlertsAreOfTheReadings, OfUnits
  <2>2. ASSUME NEW d \in Days PROVE Agree(a, d, series[code][d], zone(d))
    <3> HIDE DEF zone
    <3> QED BY <2>1, <2>2 DEF Agree
  <2>3. ASSUME explained.ok, NEW c \in explained.score.contributions, c.parameter = code
        PROVE  Agree(a, explained.as_of.day, c.value, c.zone)
    <3>1. /\ explained.as_of.day \in Days /\ c.value = series[code][explained.as_of.day]
          /\ c.zone = zone(explained.as_of.day)
      BY <1>1, <2>3, ExplainedOnDay DEF PlantInv
    <3> HIDE DEF code, zone
    <3> QED BY <2>2, <3>1
  <2>4. ASSUME history.ok, history.unit = a.unit, history.resolution = "raw", code \in DOMAIN history.series,
               NEW i \in DOMAIN Points(code)
        PROVE  Agree(a, Points(code)[i].day, Points(code)[i].value, Points(code)[i].zone)
    <3>1. code \in ParametersOf[history.unit]
      <4>1. PICK up : history.series[code] = SeriesFor(history.unit, code, history.returned, up)
        BY <1>1, <2>4, HistoryFacts DEF PlantInv
      <4>2. history.unit \in UnitSet /\ IsWindow(history.returned)
        BY <1>1, <2>4, HistoryFacts DEF PlantInv
      <4>3. ASSUME code \notin ParametersOf[history.unit] PROVE FALSE
        <5>1. Points(code) = << >>
          BY <1>1, <4>1, <4>2, <4>3, PlantSeries, StatusFacts DEF Points
        <5> QED BY <2>4, <5>1
      <4> QED BY <4>3
    <3>2. code \in Reported(history.unit)
      BY <2>4, <3>1 DEF Reported
    <3> DEFINE p == Points(code)[i]
    <3>3. p.day \in Days /\ p.value = series[code][p.day] /\ p.zone = zone(p.day)
      BY <1>1, <2>4, <3>2, PlantSeries, RawPointOnDay DEF PlantInv
    <3> HIDE DEF p, zone
    <3>4. Agree(a, p.day, p.value, p.zone)
      BY <2>2, <3>3
    <3> QED BY <3>4 DEF p
  <2> QED BY <2>3, <2>4
<1> QED BY <1>1, PlantInvariant, PTL

\* The compliance status and the alerts tell of the same exceedances, whether or not
\* resolved alerts are asked for, if the tables do.
THEOREM ComplianceAgreesCorrect ==
  ASSUME \A t \in Tables : ExceedancesAreAlerted(t)
  PROVE  PlantSpec => []AlertsAgreeWithCompliance
<1>1. ASSUME PlantInv PROVE AlertsAgreeWithCompliance
  <2> SUFFICES ASSUME alerted.ok, compliance.ok, NEW i \in DOMAIN compliance.rows
               PROVE  LET row == compliance.rows[i]
                      IN  row.tier = "exceedance" <=>
                            \E a \in OfThePlant : a.parameter = row.parameter /\ a.value = row.value /\ a.status = "active"
    BY DEF AlertsAgreeWithCompliance
  <2> DEFINE code == Limits[i].parameter  limit == Limits[i].limit  last == Recent(code)
  <2>1. /\ i \in DOMAIN Limits /\ effluent[code] # << >> /\ last \in Int /\ limit \in Nat
        /\ compliance.rows[i] = Row(Limits[i])
    BY <1>1, StatusHolds
  <2>2. compliance.rows[i].parameter = code /\ compliance.rows[i].value = last /\ compliance.rows[i].tier = TierFor(last, limit)
    BY <2>1 DEF Row
  <2>3. PICK t \in Tables : /\ effluent = t.effluent /\ Alerted \subseteq t.alerts
                            /\ \A a \in t.alerts : a.status = "active" => a \in Alerted
    BY <1>1, AlertedFacts
  <2>4. last > limit <=> \E a \in t.alerts : a.unit = None /\ a.parameter = code /\ a.value = last /\ a.status = "active"
    BY <2>1, <2>3 DEF ExceedancesAreAlerted, Recent
  <2> HIDE DEF code, limit, last
  <2>5. TierFor(last, limit) = "exceedance" <=> last > limit
    BY <2>1, TierFacts
  <2>6. (\E a \in t.alerts : a.unit = None /\ a.parameter = code /\ a.value = last /\ a.status = "active")
          <=> \E a \in OfThePlant : a.parameter = code /\ a.value = last /\ a.status = "active"
    BY <2>3 DEF OfThePlant
  <2> QED BY <2>2, <2>4, <2>5, <2>6
<1> QED BY <1>1, PlantInvariant, PTL
===============================================================================
