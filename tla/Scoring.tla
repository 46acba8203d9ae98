------------------------------- MODULE Scoring -------------------------------
(***************************************************************************)
(* The scoring engine (services/scoring.py, zone_for in models/common.py)  *)
(* and the two tools that report it, get_current_scores and explain_score, *)
(* over a plant's daily readings (services/fixtures.py).                   *)
(*                                                                         *)
(* Days are 1 (EARLIEST_DATE) to Today.  An as_of argument is a date that  *)
(* date.fromisoformat accepts, in one of its forms: "extended" is          *)
(* YYYY-MM-DD, the form the readings are dated in; "basic" is YYYYMMDD and *)
(* "week" YYYY-Www-D.  "bad" stands for text that is no date.  Readings    *)
(* are integers (the code's floats, fixed-point), a day without one is None.  *)
(***************************************************************************)
EXTENDS Integers, Sequences, FiniteSetsExt

CONSTANTS
  None,
  Today,        \* FIXTURE_TODAY; the history starts on day 1
  Units,        \* the plant's units, in the order of its record
  Parameters,
  ParametersOf, \* unit |-> its parameter codes
  Rank,         \* parameter |-> its place among the codes in string order
  Bands,        \* parameter |-> its band
  Histories,    \* the readings the plant may have had: parameter |-> day |-> reading
  Forms,        \* the forms a caller writes a date in
  AsOfDays      \* the days a caller asks about, some outside the history

Days      == 1..Today
UnitSet   == {Units[i] : i \in DOMAIN Units}
Zones     == {"normal", "watch", "alarm"}
Bound     == Int \cup {None}
BandRecords == [normal_min : Bound, normal_max : Bound, watch_min : Bound, watch_max : Bound,
                alarm_min : Bound, alarm_max : Bound]

ASSUME TodayAssumption == Today \in Nat \ {0}
ASSUME UnitAssumption  == /\ Units \in Seq(UnitSet) /\ Units # << >>
                          /\ ParametersOf \in [UnitSet -> SUBSET Parameters] /\ IsFiniteSet(Parameters)
ASSUME BandAssumption  == Bands \in [Parameters -> BandRecords] /\ None \notin Int
ASSUME RankAssumption  == \A p, q \in Parameters : Rank[p] \in Nat /\ (Rank[p] = Rank[q] => p = q)
ASSUME HistoryAssumption == Histories \subseteq [Parameters -> [Days -> Int]]
ASSUME FormAssumption  == Forms \subseteq {"extended", "basic", "week"} /\ AsOfDays \subseteq Int

VARIABLES
  series,     \* parameter |-> day |-> reading
  scores,     \* what get_current_scores has last said, per as_of argument
  explained   \* explain_score's last answer

vars == <<series, scores, explained>>

-------------------------------------------------------------------------------
\* zone_for(value, band): alarm bounds first, then watch bounds; the normal
\* bounds of a band are never looked at.
Below(value, bound) == bound # None /\ value < bound
Above(value, bound) == bound # None /\ value > bound

ZoneFor(value, band) ==
  IF Below(value, band.alarm_min) \/ Above(value, band.alarm_max) THEN "alarm"
  ELSE IF Below(value, band.watch_min) \/ Above(value, band.watch_max) THEN "watch"
  ELSE "normal"

ZonePenalty == [normal |-> 0, watch |-> 15, alarm |-> 35]

\* The dates an argument may name, and no argument.
AsOfDates == [form : Forms, day : AsOfDays] \cup {[form |-> "bad", day |-> 0]}
Arguments == AsOfDates \cup {None}

Iso(day) == [form |-> "extended", day |-> day]

\* Mutant: any date that parses is accepted.
ResolveAnyDate(arg) == IF arg = None THEN Iso(Today) ELSE IF arg.form = "bad" THEN None ELSE arg

\* resolve_as_of: the argument as it was written, or today's date for none;
\* None where the code raises ValueError.
ResolveAsOf(arg) ==
  IF arg = None THEN Iso(Today)
  ELSE IF arg.form # "bad" /\ arg.day \in Days THEN arg ELSE None

\* d <= as_of compares strings.  A reading's date is YYYY-MM-DD; against the
\* other forms of a date of the same year the comparison is decided by "-"
\* against a digit, or by a digit against "W", and holds for every d.
NotAfter(d, asOf) == asOf.form = "extended" => d <= asOf.day

\* Mutant: readings of the day itself are left out.
ValueBefore(readings, asOf) ==
  LET candidates == {d \in Days : readings[d] # None /\ d < asOf.day}
  IN  IF candidates = {} THEN None ELSE readings[Max(candidates)]

ValueAsOf(readings, asOf) ==
  LET candidates == {d \in Days : readings[d] # None /\ NotAfter(d, asOf)}
  IN  IF candidates = {} THEN None ELSE readings[Max(candidates)]

Contributions(unit, asOf) ==
  {[parameter |-> p, value |-> ValueAsOf(series[p], asOf),
    zone |-> ZoneFor(ValueAsOf(series[p], asOf), Bands[p]),
    penalty |-> ZonePenalty[ZoneFor(ValueAsOf(series[p], asOf), Bands[p])]] :
   p \in {q \in ParametersOf[unit] : ValueAsOf(series[q], asOf) # None}}

\* The sum of the penalties, which are those of the zones.
TotalPenalty(contributions) ==
  LET count(zone) == Cardinality({c \in contributions : c.zone = zone})
  IN  ZonePenalty.watch * count("watch") + ZonePenalty.alarm * count("alarm")

\* The contribution with the heaviest penalty, the last code among equals.
Worst(contributions) ==
  LET worst == CHOOSE c \in contributions : \A o \in contributions :
                 \/ o.penalty < c.penalty
                 \/ o.penalty = c.penalty /\ Rank[o.parameter] <= Rank[c.parameter]
  IN  IF \E c \in contributions : c.penalty > 0 THEN worst.parameter ELSE None

\* Mutant: the score is not held at zero.
HealthUnclamped(contributions) == 100 - TotalPenalty(contributions)

Health(contributions) == Max({0, 100 - TotalPenalty(contributions)})

ScoreUnit(unit, asOf) ==
  LET contributions == Contributions(unit, asOf)
  IN  [health |-> Health(contributions), contributions |-> contributions, worst |-> Worst(contributions)]

-------------------------------------------------------------------------------
\* Mutant: yesterday of the second day is taken to be before the history.
PreviousLate(asOf) == IF asOf.day - 1 > 1 THEN Iso(asOf.day - 1) ELSE asOf

\* The date the delta refers to: the day before, or the date itself on the
\* first day of the history.
Previous(asOf) == IF asOf.day - 1 >= 1 THEN Iso(asOf.day - 1) ELSE asOf

UnitReport(unit, asOf) ==
  LET current == ScoreUnit(unit, asOf)
  IN  [health |-> current.health, contributions |-> current.contributions, worst |-> current.worst,
       delta |-> current.health - ScoreUnit(unit, Previous(asOf)).health]

\* min() over the units in order: the first of the unhealthiest.
WorstUnit(report) ==
  LET unhealthiest == {i \in DOMAIN Units : \A j \in DOMAIN Units :
                         report[Units[i]].health <= report[Units[j]].health}
  IN  Units[Min(unhealthiest)]

Refused == [ok |-> FALSE]

CurrentScores(arg) ==
  LET asOf   == ResolveAsOf(arg)
      report == [u \in UnitSet |-> UnitReport(u, asOf)]
  IN  IF asOf = None THEN Refused
      ELSE [ok |-> TRUE, as_of |-> asOf, units |-> report, worst_unit |-> WorstUnit(report)]

\* Mutant: explain_score explains the latest day whatever was asked.
ExplainLatest(unit, arg) ==
  IF unit \notin UnitSet \/ ResolveAsOf(arg) = None THEN Refused
  ELSE [ok |-> TRUE, unit |-> unit, as_of |-> ResolveAsOf(arg),
        score |-> ScoreUnit(unit, Iso(Today))]

Explanation(unit, arg) ==
  IF unit \notin UnitSet \/ ResolveAsOf(arg) = None THEN Refused
  ELSE [ok |-> TRUE, unit |-> unit, as_of |-> ResolveAsOf(arg),
        score |-> ScoreUnit(unit, ResolveAsOf(arg))]

-------------------------------------------------------------------------------
\* Parameters measured every day, as the fixture's are.
Init ==
  /\ series \in Histories
  /\ scores = [arg \in Arguments |-> Refused]
  /\ explained = Refused

GetCurrentScores(arg) ==
  /\ scores' = [scores EXCEPT ![arg] = CurrentScores(arg)]
  /\ UNCHANGED <<series, explained>>

ExplainScore(unit, arg) ==
  /\ explained' = Explanation(unit, arg)
  /\ UNCHANGED <<series, scores>>

Next ==
  \/ \E arg \in Arguments : GetCurrentScores(arg)
  \/ \E unit \in UnitSet \cup {None}, arg \in Arguments : ExplainScore(unit, arg)  \* None: no such unit

Spec == Init /\ [][Next]_vars

-------------------------------------------------------------------------------
\* The day an argument names.
DayOf(arg)    == IF arg = None THEN Today ELSE arg.day
Answered      == {arg \in Arguments : scores[arg].ok}
InNormal(value, band) == ~Below(value, band.normal_min) /\ ~Above(value, band.normal_max)

ScoreTypeOK(score, unit) ==
  /\ score.health \in 0..100
  /\ score.worst \in ParametersOf[unit] \cup {None}
  /\ score.contributions \subseteq [parameter : ParametersOf[unit], value : Int, zone : Zones, penalty : 0..35]

ScoringTypeOK ==
  /\ series \in [Parameters -> [Days -> Int]]
  /\ DOMAIN scores = Arguments
  /\ \A arg \in Answered, u \in UnitSet :
       /\ ScoreTypeOK(scores[arg].units[u], u)
       /\ scores[arg].units[u].delta \in -100..100
  /\ explained.ok => ScoreTypeOK(explained.score, explained.unit)

\* _value_as_of: "the most recent reading on or before as_of - never a future
\* reading".  With a reading for every day, the score of a day is made from the
\* readings of that day, whichever way the date was written.
ScoreOfTheDay ==
  /\ \A arg \in Answered, u \in UnitSet : \A c \in scores[arg].units[u].contributions :
       c.value = series[c.parameter][DayOf(arg)]
  /\ explained.ok => \A c \in explained.score.contributions :
       c.value = series[c.parameter][explained.as_of.day]

\* resolve_as_of: a date without data is refused, never scored as a healthy
\* plant; every score rests on a reading of every parameter of the unit.
NoFabricatedScore ==
  \A arg \in Answered :
    /\ DayOf(arg) \in Days
    /\ \A u \in UnitSet : {c.parameter : c \in scores[arg].units[u].contributions} = ParametersOf[u]

\* The delta of one day's answer is the difference to the score that another
\* answer gives for the day before, for every two answers a caller may hold.
DeltaIsDayOverDay ==
  \A a, b \in Answered : DayOf(a) = DayOf(b) + 1 => \A u \in UnitSet :
    scores[a].units[u].delta = scores[a].units[u].health - scores[b].units[u].health

\* get_current_scores and explain_score tell one story: for the same date the
\* same health, contributions and worst parameter, and no unit's explained
\* score is below that of the unit reported as worst.
ToolsAgree ==
  explained.ok => \A arg \in Answered : scores[arg].as_of = explained.as_of =>
    LET report == scores[arg].units[explained.unit]
        worst  == scores[arg].units[scores[arg].worst_unit]
    IN  /\ explained.score = [health |-> report.health, contributions |-> report.contributions,
                              worst |-> report.worst]
        /\ worst.health <= explained.score.health

\* explain_score.py:55 says of a value in the zone "normal" that it is within
\* its normal band.
NormalIsInNormalBand ==
  explained.ok => \A c \in explained.score.contributions :
    c.zone = "normal" => InNormal(c.value, Bands[c.parameter])
===============================================================================
