---------------------------- MODULE ScoringProofs ----------------------------
(***************************************************************************)
(* Theorems about the scores, for any plant, bands and readings and any    *)
(* length of the history.                                                  *)
(***************************************************************************)
EXTENDS Scoring, FiniteSetTheorems, WellFoundedInduction, TLAPS

(***************************************************************************)
(* Greatest and least elements.                                            *)
(***************************************************************************)
LEMMA MaxIsTop ==
  ASSUME NEW S, \A x \in S : x \in Int, NEW m \in S, \A x \in S : x <= m
  PROVE  Max(S) = m
<1>1. \E x \in S : \A y \in S : x >= y
  OBVIOUS
<1>2. Max(S) \in S /\ \A y \in S : Max(S) >= y
  BY <1>1 DEF Max
<1>3. Max(S) \in Int /\ m \in Int /\ Max(S) >= m /\ Max(S) <= m
  BY <1>2
<1> QED BY <1>3

LEMMA MinIsLeast ==
  ASSUME NEW S, \A x \in S : x \in Nat, S # {}
  PROVE  Min(S) \in S /\ \A y \in S : Min(S) <= y
<1> DEFINE below(x) == {y \in S : y < x}  T == {below(x) : x \in S}
<1>1. T \subseteq FiniteSubsetsOf(S) /\ T # {}
  <2> SUFFICES ASSUME NEW x \in S PROVE IsFiniteSet(below(x))
    BY DEF FiniteSubsetsOf
  <2>1. x \in Int /\ 0 \in Int /\ below(x) \subseteq 0..x
    OBVIOUS
  <2>2. IsFiniteSet(0..x)
    BY <2>1, FS_Interval
  <2> QED BY <2>1, <2>2, FS_Subset
<1>2. PICK B \in T : \A U \in T : <<U, B>> \notin StrictSubsetOrdering(S)
  BY <1>1, FS_StrictSubsetOrderingWellFounded, WFMin
<1>3. PICK x \in S : B = below(x)
  OBVIOUS
<1>4. ASSUME NEW y \in below(x) PROVE FALSE
  <2>1. y \in S /\ y \notin below(y) /\ below(y) \subseteq below(x)
    BY <1>4
  <2>2. below(y) \in T /\ below(y) \subseteq S /\ B \subseteq S /\ below(y) # B /\ below(y) \subseteq B
    BY <1>3, <1>4, <2>1
  <2> HIDE DEF below, T
  <2>3. <<below(y), B>> \in StrictSubsetOrdering(S)
    BY <2>2 DEF StrictSubsetOrdering
  <2> QED BY <1>2, <2>2, <2>3
<1>5. \A y \in S : x <= y
  BY <1>4
<1> QED BY <1>5 DEF Min

-------------------------------------------------------------------------------
(***************************************************************************)
(* Readings, zones and contributions.                                      *)
(***************************************************************************)
SeriesOK == series \in [Parameters -> [Days -> Int]]

\* The day whose reading a date selects.
EffectiveDay(asOf) == IF asOf.form = "extended" THEN asOf.day ELSE Today

LEMMA ValueOnDay ==
  ASSUME NEW readings \in [Days -> Int], NEW asOf, asOf.day \in Days
  PROVE  /\ EffectiveDay(asOf) \in Days
         /\ ValueAsOf(readings, asOf) = readings[EffectiveDay(asOf)]
         /\ ValueAsOf(readings, asOf) \in Int /\ ValueAsOf(readings, asOf) # None
<1> DEFINE candidates == {d \in Days : readings[d] # None /\ NotAfter(d, asOf)}
           day == EffectiveDay(asOf)
<1>1. (\A d \in Days : d \in Int) /\ Today \in Days /\ \A d \in Days : d <= Today
  BY TodayAssumption DEF Days
<1>2. day \in candidates /\ \A d \in candidates : d <= day
  <2>1. \A d \in Days : readings[d] # None /\ d \in Int
    BY <1>1, BandAssumption
  <2>2. CASE asOf.form = "extended"
    <3>1. day = asOf.day /\ \A d \in Days : NotAfter(d, asOf) <=> d <= asOf.day
      BY <2>2 DEF EffectiveDay, NotAfter
    <3> HIDE DEF day
    <3> QED BY <1>1, <2>1, <3>1
  <2>3. CASE asOf.form # "extended"
    BY <1>1, <2>1, <2>3 DEF EffectiveDay, NotAfter
  <2> QED BY <2>2, <2>3
<1>3. Max(candidates) = day
  BY <1>1, <1>2, MaxIsTop
<1>4. ValueAsOf(readings, asOf) = readings[day]
  BY <1>2, <1>3 DEF ValueAsOf
<1> QED BY <1>2, <1>4, BandAssumption

LEMMA ZoneIsZone == \A v, b : ZoneFor(v, b) \in Zones
BY DEF ZoneFor, Zones

\* A unit's contribution for one of its parameters.
ContributionOf(p, day) ==
  [parameter |-> p, value |-> series[p][day], zone |-> ZoneFor(series[p][day], Bands[p]),
   penalty |-> ZonePenalty[ZoneFor(series[p][day], Bands[p])]]

LEMMA ContributionsOfDay ==
  ASSUME SeriesOK, NEW unit \in UnitSet, NEW asOf, asOf.day \in Days
  PROVE  Contributions(unit, asOf) = {ContributionOf(p, EffectiveDay(asOf)) : p \in ParametersOf[unit]}
<1> DEFINE day == EffectiveDay(asOf)
<1>1. ParametersOf[unit] \subseteq Parameters
  BY UnitAssumption
<1>2. \A p \in ParametersOf[unit] : ValueAsOf(series[p], asOf) = series[p][day] /\ ValueAsOf(series[p], asOf) # None
  BY <1>1, ValueOnDay DEF SeriesOK
<1> HIDE DEF day
<1>3. {q \in ParametersOf[unit] : ValueAsOf(series[q], asOf) # None} = ParametersOf[unit]
  BY <1>2
<1> QED BY <1>2, <1>3 DEF Contributions, ContributionOf, day

\* What the score of a day is made of.
OfUnit(contributions, unit, day) == contributions = {ContributionOf(p, day) : p \in ParametersOf[unit]}

LEMMA ContributionFacts ==
  ASSUME SeriesOK, NEW unit \in UnitSet, NEW day \in Days, NEW C, OfUnit(C, unit, day)
  PROVE  /\ IsFiniteSet(C)
         /\ C \subseteq [parameter : ParametersOf[unit], value : Int, zone : Zones, penalty : {0, 15, 35}]
         /\ \A c \in C : c.value = series[c.parameter][day] /\ c.zone = ZoneFor(c.value, Bands[c.parameter])
         /\ {c.parameter : c \in C} = ParametersOf[unit]
<1> DEFINE P == ParametersOf[unit]  f == [p \in P |-> ContributionOf(p, day)]
<1>1. P \subseteq Parameters /\ IsFiniteSet(P)
  BY UnitAssumption, FS_Subset
<1>2. f \in Surjection(P, C)
  BY DEF Surjection, OfUnit
<1>3. IsFiniteSet(C)
  BY <1>1, <1>2, FS_Surjection
<1>4. ASSUME NEW p \in P
      PROVE  /\ ContributionOf(p, day) \in [parameter : P, value : Int, zone : Zones, penalty : {0, 15, 35}]
             /\ ContributionOf(p, day).parameter = p
             /\ ContributionOf(p, day).value = series[p][day]
             /\ ContributionOf(p, day).zone = ZoneFor(series[p][day], Bands[p])
  <2>1. series[p][day] \in Int
    BY <1>1 DEF SeriesOK
  <2> DEFINE zone == ZoneFor(series[p][day], Bands[p])
  <2>2. zone \in Zones
    BY ZoneIsZone
  <2> HIDE DEF zone
  <2>3. ZonePenalty[zone] \in {0, 15, 35}
    BY <2>2 DEF Zones, ZonePenalty
  <2> QED BY <2>1, <2>2, <2>3 DEF ContributionOf, zone
<1>5. C = {ContributionOf(p, day) : p \in P}
  BY DEF OfUnit
<1> QED BY <1>3, <1>4, <1>5

LEMMA HealthInScale ==
  ASSUME NEW C, IsFiniteSet(C)
  PROVE  Health(C) \in 0..100
<1> DEFINE n(zone) == Cardinality({c \in C : c.zone = zone})
<1>1. \A zone : n(zone) \in Nat
  BY FS_Subset, FS_CardinalityType
<1>2. TotalPenalty(C) = 15 * n("watch") + 35 * n("alarm")
  BY DEF TotalPenalty, ZonePenalty
<1> HIDE DEF n
<1>3. TotalPenalty(C) \in Nat
  BY <1>1, <1>2
<1> DEFINE left == 100 - TotalPenalty(C)
<1>4. left \in Int /\ left <= 100
  BY <1>3
<1> HIDE DEF left
<1>5. Max({0, left}) = IF left > 0 THEN left ELSE 0
  BY <1>4, MaxIsTop
<1> QED BY <1>4, <1>5 DEF Health, left

\* o counts for more than c.
Outweighs(o, c) == o.penalty > c.penalty \/ (o.penalty = c.penalty /\ Rank[o.parameter] > Rank[c.parameter])

\* Among finitely many contributions one is outweighed by none.
LEMMA WorstExists ==
  ASSUME NEW C, IsFiniteSet(C), C # {}, \A c \in C : c.penalty \in Int /\ Rank[c.parameter] \in Int
  PROVE  \E c \in C : \A o \in C : o.penalty < c.penalty \/ (o.penalty = c.penalty /\ Rank[o.parameter] <= Rank[c.parameter])
<1> DEFINE above(c) == {o \in C : Outweighs(o, c)}  T == {above(c) : c \in C}
<1>1. T \subseteq FiniteSubsetsOf(C) /\ T # {}
  <2> SUFFICES ASSUME NEW c \in C PROVE IsFiniteSet(above(c))
    BY DEF FiniteSubsetsOf
  <2> QED BY FS_Subset
<1>2. PICK S \in T : \A U \in T : <<U, S>> \notin StrictSubsetOrdering(C)
  BY <1>1, FS_StrictSubsetOrderingWellFounded, WFMin
<1>3. PICK c \in C : S = above(c)
  OBVIOUS
<1>4. ASSUME NEW o \in above(c) PROVE FALSE
  <2>1. o \in C /\ o \notin above(o) /\ above(o) \subseteq above(c)
    BY <1>4 DEF Outweighs
  <2>2. above(o) \in T /\ above(o) \subseteq C /\ S \subseteq C /\ above(o) # S /\ above(o) \subseteq S
    BY <1>3, <1>4, <2>1
  <2> HIDE DEF above, T
  <2>3. <<above(o), S>> \in StrictSubsetOrdering(C)
    BY <2>2 DEF StrictSubsetOrdering
  <2> QED BY <1>2, <2>2, <2>3
<1>5. \A o \in C : ~Outweighs(o, c)
  BY <1>4
<1> QED BY <1>5 DEF Outweighs

LEMMA WorstIsAParameter ==
  ASSUME SeriesOK, NEW unit \in UnitSet, NEW day \in Days, NEW C, OfUnit(C, unit, day)
  PROVE  Worst(C) \in ParametersOf[unit] \cup {None}
<1>1. /\ IsFiniteSet(C) /\ C \subseteq [parameter : ParametersOf[unit], value : Int, zone : Zones, penalty : {0, 15, 35}]
  BY ContributionFacts
<1>2. ASSUME C # {}
      PROVE  \E c \in C : \A o \in C : o.penalty < c.penalty \/ (o.penalty = c.penalty /\ Rank[o.parameter] <= Rank[c.parameter])
  <2>1. \A c \in C : c.penalty \in Int /\ Rank[c.parameter] \in Int
    BY <1>1, RankAssumption, UnitAssumption
  <2> QED BY <1>1, <1>2, <2>1, WorstExists
<1> QED BY <1>1, <1>2 DEF Worst

-------------------------------------------------------------------------------
(***************************************************************************)
(* The answers.                                                            *)
(***************************************************************************)

\* A date as resolve_as_of returns it.
IsAsOf(asOf) == asOf \in [form : Forms \cup {"extended"}, day : Days]

LEMMA ResolvedDate ==
  ASSUME NEW arg \in Arguments, ResolveAsOf(arg) # None
  PROVE  /\ IsAsOf(ResolveAsOf(arg)) /\ ResolveAsOf(arg).day = DayOf(arg)
         /\ ResolveAsOf(arg).day \in Days /\ ResolveAsOf(arg).form \in Forms \cup {"extended"}
<1>1. Today \in Days
  BY TodayAssumption DEF Days
<1>2. CASE arg = None
  BY <1>1, <1>2 DEF ResolveAsOf, Iso, IsAsOf, DayOf
<1>3. CASE arg # None
  <2>1. arg.form # "bad" /\ arg.day \in Days /\ ResolveAsOf(arg) = arg
    BY <1>3 DEF ResolveAsOf
  <2>2. arg \in [form : Forms, day : AsOfDays]
    BY <1>3, <2>1 DEF Arguments, AsOfDates
  <2> QED BY <1>3, <2>1, <2>2 DEF IsAsOf, DayOf
<1> QED BY <1>2, <1>3

LEMMA PreviousDate ==
  ASSUME NEW asOf, IsAsOf(asOf)
  PROVE  Previous(asOf).day \in Days /\ (asOf.day > 1 => Previous(asOf) = Iso(asOf.day - 1))
<1>1. asOf.day \in Days /\ asOf.day \in Int /\ Today \in Nat
  BY TodayAssumption DEF IsAsOf, Days
<1>2. CASE asOf.day - 1 >= 1
  BY <1>1, <1>2 DEF Previous, Iso, Days
<1>3. CASE ~(asOf.day - 1 >= 1)
  BY <1>1, <1>3 DEF Previous
<1> QED BY <1>2, <1>3

\* The score of a unit on a date.
LEMMA ScoreFacts ==
  ASSUME SeriesOK, NEW unit \in UnitSet, NEW asOf, asOf.day \in Days
  PROVE  LET score == ScoreUnit(unit, asOf)
         IN  /\ ScoreTypeOK(score, unit)
             /\ score.health \in 0..100
             /\ \A c \in score.contributions : /\ c.value = series[c.parameter][EffectiveDay(asOf)]
                                                /\ c.zone = ZoneFor(c.value, Bands[c.parameter])
             /\ {c.parameter : c \in score.contributions} = ParametersOf[unit]
<1> DEFINE C == Contributions(unit, asOf)  day == EffectiveDay(asOf)
<1>1. day \in Days /\ OfUnit(C, unit, day)
  BY ContributionsOfDay, TodayAssumption DEF OfUnit, EffectiveDay, Days
<1> HIDE DEF C, day
<1>2. /\ Health(C) \in 0..100 /\ Worst(C) \in ParametersOf[unit] \cup {None}
      /\ C \subseteq [parameter : ParametersOf[unit], value : Int, zone : Zones, penalty : {0, 15, 35}]
      /\ \A c \in C : c.value = series[c.parameter][day] /\ c.zone = ZoneFor(c.value, Bands[c.parameter])
      /\ {c.parameter : c \in C} = ParametersOf[unit]
  BY <1>1, ContributionFacts, HealthInScale, WorstIsAParameter
<1>3. [parameter : ParametersOf[unit], value : Int, zone : Zones, penalty : {0, 15, 35}]
        \subseteq [parameter : ParametersOf[unit], value : Int, zone : Zones, penalty : 0..35]
  <2>1. {0, 15, 35} \subseteq 0..35
    OBVIOUS
  <2> QED BY <2>1
<1>4. C \subseteq [parameter : ParametersOf[unit], value : Int, zone : Zones, penalty : 0..35]
  BY <1>2, <1>3
<1>5. ScoreUnit(unit, asOf) = [health |-> Health(C), contributions |-> C, worst |-> Worst(C)]
  BY DEF ScoreUnit, C
<1> QED BY <1>2, <1>4, <1>5 DEF ScoreTypeOK, day

\* The unit reported as worst is a unit, and none is less healthy.
LEMMA WorstUnitIsWorst ==
  ASSUME NEW report, \A u \in UnitSet : report[u].health \in 0..100
  PROVE  /\ WorstUnit(report) \in UnitSet
         /\ \A u \in UnitSet : report[WorstUnit(report)].health <= report[u].health
<1> DEFINE D == DOMAIN Units  H == {report[Units[i]].health : i \in D}
           lowest == {i \in D : \A j \in D : report[Units[i]].health <= report[Units[j]].health}
<1>1. D # {} /\ (\A i \in D : i \in Nat /\ Units[i] \in UnitSet) /\ \A u \in UnitSet : \E i \in D : u = Units[i]
  BY UnitAssumption DEF UnitSet
<1>2. \A i \in D : report[Units[i]].health \in Nat
  BY <1>1
<1>3. Min(H) \in H /\ \A h \in H : Min(H) <= h
  <2>1. H # {} /\ \A h \in H : h \in Nat
    BY <1>1, <1>2
  <2> HIDE DEF H
  <2> QED BY <2>1, MinIsLeast
<1>4. lowest # {} /\ \A i \in lowest : i \in Nat
  <2>1. PICK i \in D : Min(H) = report[Units[i]].health
    BY <1>3
  <2>2. \A j \in D : report[Units[i]].health <= report[Units[j]].health
    BY <1>3, <2>1
  <2> QED BY <1>1, <2>2
<1>5. Min(lowest) \in lowest
  <2> HIDE DEF lowest
  <2> QED BY <1>4, MinIsLeast
<1>6. WorstUnit(report) = Units[Min(lowest)]
  BY DEF WorstUnit
<1> QED BY <1>1, <1>5, <1>6

-------------------------------------------------------------------------------
(***************************************************************************)
(* The invariant: every answer held is what the tool would say again.      *)
(***************************************************************************)
Inv ==
  /\ series \in Histories
  /\ scores = [arg \in Arguments |-> scores[arg]]
  /\ \A arg \in Arguments : scores[arg] \in {Refused, CurrentScores(arg)}
  /\ explained = Refused \/ \E unit \in UnitSet \cup {None}, arg \in Arguments : explained = Explanation(unit, arg)

LEMMA InvKeeps == Inv /\ [Next]_vars => Inv'
<1> SUFFICES ASSUME Inv, [Next]_vars PROVE Inv'
  OBVIOUS
<1>1. series' = series
  BY DEF Next, vars, GetCurrentScores, ExplainScore
<1>2. /\ \A arg : CurrentScores(arg)' = CurrentScores(arg)
      /\ \A unit, arg : Explanation(unit, arg)' = Explanation(unit, arg)
  BY <1>1 DEF CurrentScores, UnitReport, Explanation, ScoreUnit, Contributions
<1>3. ASSUME NEW arg \in Arguments, GetCurrentScores(arg) PROVE Inv'
  BY <1>1, <1>2, <1>3 DEF GetCurrentScores, Inv
<1>4. ASSUME NEW unit \in UnitSet \cup {None}, NEW arg \in Arguments, ExplainScore(unit, arg) PROVE Inv'
  BY <1>1, <1>2, <1>4 DEF ExplainScore, Inv
<1>5. CASE UNCHANGED vars
  BY <1>2, <1>5 DEF vars, Inv
<1> QED BY <1>3, <1>4, <1>5 DEF Next

LEMMA InvHolds == Spec => []Inv
<1>1. Init => Inv
  BY DEF Init, Inv
<1> QED BY <1>1, InvKeeps, PTL DEF Spec

LEMMA SeriesTyped == Inv => SeriesOK
BY HistoryAssumption DEF Inv, SeriesOK

\* What an answer of get_current_scores holds.
LEMMA AnswerFacts ==
  ASSUME Inv, NEW arg \in Answered
  PROVE  LET asOf == ResolveAsOf(arg)
         IN  /\ arg \in Arguments /\ asOf # None /\ scores[arg].as_of = asOf
             /\ IsAsOf(asOf) /\ asOf.day = DayOf(arg) /\ asOf.day \in Days /\ asOf.form \in Forms \cup {"extended"}
             /\ \A u \in UnitSet : scores[arg].units[u] = UnitReport(u, asOf)
             /\ scores[arg].worst_unit = WorstUnit(scores[arg].units)
<1> DEFINE asOf == ResolveAsOf(arg)  report == [u \in UnitSet |-> UnitReport(u, asOf)]
<1>1. arg \in Arguments /\ scores[arg].ok /\ scores[arg] \in {Refused, CurrentScores(arg)}
  BY DEF Answered, Inv
<1>2. scores[arg] = CurrentScores(arg) /\ asOf # None
  <2>1. scores[arg] # Refused
    BY <1>1 DEF Refused
  <2>2. scores[arg] = CurrentScores(arg) /\ CurrentScores(arg) # Refused
    BY <1>1, <2>1
  <2> QED BY <2>2 DEF CurrentScores
<1>3. scores[arg] = [ok |-> TRUE, as_of |-> asOf, units |-> report, worst_unit |-> WorstUnit(report)]
  BY <1>2 DEF CurrentScores
<1> QED BY <1>1, <1>2, <1>3, ResolvedDate

\* What an answer of explain_score holds.
LEMMA ExplainedFacts ==
  ASSUME Inv, explained.ok
  PROVE  /\ explained.unit \in UnitSet /\ explained.as_of.day \in Days
         /\ explained.as_of.form \in Forms \cup {"extended"}
         /\ explained.score = ScoreUnit(explained.unit, explained.as_of)
<1>1. explained # Refused
  BY DEF Refused
<1>2. PICK unit \in UnitSet \cup {None}, arg \in Arguments : explained = Explanation(unit, arg)
  BY <1>1 DEF Inv
<1>3. unit \in UnitSet /\ ResolveAsOf(arg) # None
  BY <1>1, <1>2 DEF Explanation
<1>4. explained = [ok |-> TRUE, unit |-> unit, as_of |-> ResolveAsOf(arg), score |-> ScoreUnit(unit, ResolveAsOf(arg))]
  BY <1>2, <1>3 DEF Explanation
<1> QED BY <1>3, <1>4, ResolvedDate

-------------------------------------------------------------------------------
(***************************************************************************)
(* The properties of the runs.                                             *)
(***************************************************************************)

\* A unit's figures in an answer are those of its score on the date.
LEMMA UnitFacts ==
  ASSUME Inv, NEW arg \in Answered, NEW u \in UnitSet
  PROVE  LET unit == scores[arg].units[u]  score == ScoreUnit(u, ResolveAsOf(arg))
         IN  /\ unit.health = score.health /\ unit.contributions = score.contributions
             /\ unit.worst = score.worst
             /\ unit.delta = score.health - ScoreUnit(u, Previous(ResolveAsOf(arg))).health
             /\ ScoreTypeOK(score, u) /\ score.health \in 0..100
             /\ ScoreUnit(u, Previous(ResolveAsOf(arg))).health \in 0..100
<1> DEFINE asOf == ResolveAsOf(arg)
<1>1. IsAsOf(asOf) /\ asOf.day \in Days /\ scores[arg].units[u] = UnitReport(u, asOf)
  BY AnswerFacts
<1>2. Previous(asOf).day \in Days
  BY <1>1, PreviousDate
<1> HIDE DEF asOf
<1>3. /\ ScoreTypeOK(ScoreUnit(u, asOf), u) /\ ScoreUnit(u, asOf).health \in 0..100
      /\ ScoreUnit(u, Previous(asOf)).health \in 0..100
  BY <1>1, <1>2, SeriesTyped, ScoreFacts
<1> QED BY <1>1, <1>3 DEF UnitReport, asOf

\* What a caller is told is of the right kind: healths of 0 to 100, deltas of at
\* most a hundred either way, and only the unit's own parameters.
THEOREM ScoresTyped == Spec => []ScoringTypeOK
<1>1. ASSUME Inv PROVE ScoringTypeOK
  <2>1. DOMAIN scores = Arguments
    BY <1>1 DEF Inv
  <2>2. ASSUME NEW arg \in Answered, NEW u \in UnitSet
        PROVE  ScoreTypeOK(scores[arg].units[u], u) /\ scores[arg].units[u].delta \in -100..100
    <3> DEFINE unit == scores[arg].units[u]  score == ScoreUnit(u, ResolveAsOf(arg))
               before == ScoreUnit(u, Previous(ResolveAsOf(arg))).health
    <3>1. /\ unit.health = score.health /\ unit.contributions = score.contributions /\ unit.worst = score.worst
          /\ unit.delta = score.health - before /\ ScoreTypeOK(score, u)
          /\ score.health \in 0..100 /\ before \in 0..100
      BY <1>1, UnitFacts
    <3> HIDE DEF unit, score, before
    <3>2. ScoreTypeOK(unit, u)
      BY <3>1 DEF ScoreTypeOK
    <3>3. unit.delta \in -100..100
      BY <3>1
    <3> QED BY <3>2, <3>3 DEF unit
  <2>3. ASSUME explained.ok PROVE ScoreTypeOK(explained.score, explained.unit)
    BY <1>1, <2>3, ExplainedFacts, SeriesTyped, ScoreFacts
  <2> QED BY <1>1, <2>1, <2>2, <2>3, SeriesTyped DEF ScoringTypeOK, SeriesOK
<1> QED BY <1>1, InvHolds, PTL

\* resolve_as_of refuses a date without data, in whatever form it is written: an
\* answer is about a day of the history and scores every parameter of every unit.
THEOREM NoScoreIsFabricated == Spec => []NoFabricatedScore
<1>1. ASSUME Inv PROVE NoFabricatedScore
  <2> SUFFICES ASSUME NEW arg \in Answered
               PROVE  /\ DayOf(arg) \in Days
                      /\ \A u \in UnitSet : {c.parameter : c \in scores[arg].units[u].contributions} = ParametersOf[u]
    BY DEF NoFabricatedScore
  <2>1. DayOf(arg) \in Days /\ ResolveAsOf(arg).day \in Days
    BY <1>1, AnswerFacts
  <2>2. ASSUME NEW u \in UnitSet
        PROVE  {c.parameter : c \in scores[arg].units[u].contributions} = ParametersOf[u]
    <3>1. scores[arg].units[u].contributions = ScoreUnit(u, ResolveAsOf(arg)).contributions
      BY <1>1, UnitFacts
    <3>2. {c.parameter : c \in ScoreUnit(u, ResolveAsOf(arg)).contributions} = ParametersOf[u]
      BY <1>1, <2>1, SeriesTyped, ScoreFacts
    <3> QED BY <3>1, <3>2
  <2> QED BY <2>1, <2>2
<1> QED BY <1>1, InvHolds, PTL

\* The two tools tell one story whenever their answers are about one date,
\* whatever was asked of them in between.
THEOREM ToolsAgreeAlways == Spec => []ToolsAgree
<1>1. ASSUME Inv PROVE ToolsAgree
  <2> SUFFICES ASSUME explained.ok, NEW arg \in Arguments, arg \in Answered, scores[arg].as_of = explained.as_of
               PROVE  LET report == scores[arg].units[explained.unit]
                          worst  == scores[arg].units[scores[arg].worst_unit]
                      IN  /\ explained.score = [health |-> report.health, contributions |-> report.contributions,
                                                worst |-> report.worst]
                          /\ worst.health <= explained.score.health
    BY DEF ToolsAgree, Answered
  <2> DEFINE u == explained.unit  report == scores[arg].units[u]  units == scores[arg].units
  <2>1. u \in UnitSet /\ explained.score = ScoreUnit(u, ResolveAsOf(arg))
    BY <1>1, ExplainedFacts, AnswerFacts
  <2>2. \A v \in UnitSet : units[v].health \in 0..100
    BY <1>1, UnitFacts
  <2>3. scores[arg].worst_unit = WorstUnit(units)
    BY <1>1, AnswerFacts
  <2>4. units[WorstUnit(units)].health <= units[u].health
    <3> HIDE DEF units, u
    <3> QED BY <2>1, <2>2, WorstUnitIsWorst
  <2>5. /\ report.health = explained.score.health /\ report.contributions = explained.score.contributions
        /\ report.worst = explained.score.worst
    BY <1>1, <2>1, UnitFacts
  <2>6. explained.score = [health |-> explained.score.health, contributions |-> explained.score.contributions,
                           worst |-> explained.score.worst]
    BY <2>1 DEF ScoreUnit
  <2> QED BY <2>3, <2>4, <2>5, <2>6
<1> QED BY <1>1, InvHolds, PTL

(***************************************************************************)
(* For dates written YYYY-MM-DD, as the readings' own are.                 *)
(***************************************************************************)
LEMMA ExtendedDay ==
  ASSUME Forms \subseteq {"extended"}, NEW asOf, asOf.form \in Forms \cup {"extended"}
  PROVE  asOf.form = "extended" /\ EffectiveDay(asOf) = asOf.day
BY DEF EffectiveDay

\* _value_as_of takes the reading of the day asked about, never a later one and
\* never an earlier one while the day has its own.
THEOREM ScoresAreOfTheDay ==
  ASSUME Forms \subseteq {"extended"}
  PROVE  Spec => []ScoreOfTheDay
<1>1. ASSUME Inv PROVE ScoreOfTheDay
  <2>1. ASSUME NEW arg \in Answered, NEW u \in UnitSet, NEW c \in scores[arg].units[u].contributions
        PROVE  c.value = series[c.parameter][DayOf(arg)]
    <3> DEFINE asOf == ResolveAsOf(arg)
    <3>1. asOf.day = DayOf(arg) /\ asOf.day \in Days /\ EffectiveDay(asOf) = asOf.day
      BY <1>1, AnswerFacts, ExtendedDay
    <3>2. c \in ScoreUnit(u, asOf).contributions
      BY <1>1, UnitFacts
    <3> HIDE DEF asOf
    <3> QED BY <1>1, <3>1, <3>2, SeriesTyped, ScoreFacts
  <2>2. ASSUME explained.ok, NEW c \in explained.score.contributions
        PROVE  c.value = series[c.parameter][explained.as_of.day]
    <3>1. /\ explained.unit \in UnitSet /\ explained.as_of.day \in Days
          /\ EffectiveDay(explained.as_of) = explained.as_of.day
          /\ c \in ScoreUnit(explained.unit, explained.as_of).contributions
      BY <1>1, <2>2, ExplainedFacts, ExtendedDay
    <3> QED BY <1>1, <3>1, SeriesTyped, ScoreFacts
  <2> QED BY <2>1, <2>2 DEF ScoreOfTheDay
<1> QED BY <1>1, InvHolds, PTL

\* The delta a caller reads for a day is the difference to the score that the
\* answer for the day before gives, when the caller holds both.
THEOREM DeltasAreDayOverDay ==
  ASSUME Forms \subseteq {"extended"}
  PROVE  Spec => []DeltaIsDayOverDay
<1>1. ASSUME Inv PROVE DeltaIsDayOverDay
  <2> SUFFICES ASSUME NEW a \in Answered, NEW b \in Answered, DayOf(a) = DayOf(b) + 1, NEW u \in UnitSet
               PROVE  scores[a].units[u].delta = scores[a].units[u].health - scores[b].units[u].health
    BY DEF DeltaIsDayOverDay
  <2>1. /\ IsAsOf(ResolveAsOf(a)) /\ ResolveAsOf(a).day = DayOf(a)
        /\ IsAsOf(ResolveAsOf(b)) /\ ResolveAsOf(b).day = DayOf(b) /\ DayOf(b) \in Days
        /\ ResolveAsOf(b).form = "extended"
    BY <1>1, AnswerFacts, ExtendedDay
  <2>2. DayOf(b) \in Int /\ DayOf(b) >= 1
    BY <2>1, TodayAssumption DEF Days
  <2>3. Previous(ResolveAsOf(a)) = Iso(DayOf(b))
    BY <2>1, <2>2, PreviousDate
  <2>4. ResolveAsOf(b) = Iso(DayOf(b))
    BY <2>1 DEF IsAsOf, Iso
  <2> QED BY <1>1, <2>3, <2>4, UnitFacts
<1> QED BY <1>1, InvHolds, PTL
===============================================================================
