-------------------------- MODULE ParameterHistory --------------------------
(***************************************************************************)
(* get_parameter_history (tools/parameter_history.py): the readings of a   *)
(* unit's parameters over a window of dates, clipped to the history, and   *)
(* summarised by the week when the window is long.  It reads the readings  *)
(* and the bands that explain_score does; the two are composed here.       *)
(*                                                                         *)
(* Dates are parsed before they are used, so their form does not matter: a *)
(* date is its day, which may lie outside 1..Today, and None is text that  *)
(* is no date.  Values are in hundredths, to which the weekly means are    *)
(* rounded.                                                                *)
(***************************************************************************)
EXTENDS Scoring

CONSTANTS
  MaxRaw,      \* MAX_RAW_WINDOW_DAYS
  Dates,       \* the dates a caller may write
  Codes        \* the lists of parameter codes a caller may ask for, as sets

\* The history is short enough for its summary by the week to keep to the limit.
ASSUME MaxRawAssumption == MaxRaw \in Nat \ {0} /\ Today <= 7 * MaxRaw
ASSUME DatesAssumption  == Dates \subseteq Int \cup {None}

VARIABLE history   \* get_parameter_history's last answer

historyVars == <<vars, history>>

-------------------------------------------------------------------------------
DaysOf(window)   == window.end - window.start + 1
Window(from, to) == [start |-> from, end |-> to]

\* _clip_window: the two dates in order, cut to the history.  A window that
\* lies outside the history altogether becomes the last day.
ClipWindow(start, end) ==
  LET requested == Window(Min({start, end}), Max({start, end}))
      from      == Max({requested.start, 1})
      to        == Min({requested.end, Today})
  IN  [requested |-> requested,
       returned |-> IF from > to THEN Window(Today, Today) ELSE Window(from, to)]

\* Mutant: the readings are taken to be stored latest first.
InWindowReversed(code, window) ==
  SubSeq([d \in Days |-> [day |-> d, value |-> series[code][Today + 1 - d]]], window.start, window.end)

\* The readings dated in the window: there is one for every day, in order.
InWindow(code, window) ==
  SubSeq([d \in Days |-> [day |-> d, value |-> series[code][d]]], window.start, window.end)

\* round(sum / n, 2).  Which way half a hundredth goes is up to the binary
\* fraction that stands for it: up says which.
Rounded(sum, n, up) ==
  IF 2 * (sum % n) > n \/ (2 * (sum % n) = n /\ up) THEN sum \div n + 1 ELSE sum \div n

\* The sum of the first i readings.
Totals(readings) ==
  LET total[i \in 0..Len(readings)] == IF i = 0 THEN 0 ELSE total[i - 1] + readings[i].value
  IN  total

\* The bucket of the readings after the first `before`, up to the last-th.
Bucket(readings, before, last, up) ==
  [day |-> readings[last].day,
   value |-> Rounded(Totals(readings)[last] - Totals(readings)[before], last - before, up)]

\* Mutant: a week that the window's end cuts short is left out.
WholeWeeks(readings, up) ==
  [k \in 1..(Len(readings) \div 7) |-> Bucket(readings, 7 * (k - 1), 7 * k, up)]

\* _bucket_weekly: seven readings at a time from the first, dated by the last of
\* them; the last bucket may be short.
BucketWeekly(readings, up) ==
  [k \in 1..((Len(readings) + 6) \div 7) |->
     Bucket(readings, 7 * (k - 1), Min({7 * k, Len(readings)}), up)]

Resolution(window) == IF DaysOf(window) <= MaxRaw THEN "raw" ELSE "weekly_summary"

\* Mutant: what was not returned is taken for what is not recorded.
SeriesByRows(unit, code, window, up) ==
  LET readings == IF code \in ParametersOf[unit] THEN InWindow(code, window) ELSE << >>
  IN  [points |-> [i \in DOMAIN readings |->
                     [day |-> readings[i].day, value |-> readings[i].value,
                      zone |-> ZoneFor(readings[i].value, Bands[code])]],
       populated |-> TRUE, records |-> Len(readings)]

\* One series of the answer.  A parameter without a band has no points.
SeriesFor(unit, code, window, up) ==
  LET populated == code \in ParametersOf[unit]
      readings  == IF populated THEN InWindow(code, window) ELSE << >>
      shown     == IF Resolution(window) = "raw" THEN readings ELSE BucketWeekly(readings, up)
  IN  [points |-> IF code \notin Parameters THEN << >>
                  ELSE [i \in DOMAIN shown |->
                          [day |-> shown[i].day, value |-> shown[i].value,
                           zone |-> ZoneFor(shown[i].value, Bands[code])]],
       populated |-> populated,
       records |-> Len(readings)]

\* Mutant: the summary alone is disclosed, not the clipping.
HistoryUndisclosed(unit, start, end, codes, up) ==
  IF unit \notin UnitSet \/ None \in {start, end} THEN Refused
  ELSE LET windows == ClipWindow(start, end)
           asked   == IF codes = None THEN ParametersOf[unit] ELSE codes
       IN  [ok |-> TRUE, unit |-> unit,
            series |-> [code \in asked |-> SeriesFor(unit, code, windows.returned, up)],
            resolution |-> Resolution(windows.returned),
            applied |-> Resolution(windows.returned) # "raw",
            requested |-> windows.requested, returned |-> windows.returned]

\* The answer with its BoundingDisclosure; Refused where the code raises for an
\* unknown unit or for text that is no date.
HistoryOf(unit, start, end, codes, up) ==
  IF unit \notin UnitSet \/ None \in {start, end} THEN Refused
  ELSE LET windows == ClipWindow(start, end)
           asked   == IF codes = None THEN ParametersOf[unit] ELSE codes
       IN  [ok |-> TRUE, unit |-> unit,
            series |-> [code \in asked |-> SeriesFor(unit, code, windows.returned, up)],
            resolution |-> Resolution(windows.returned),
            applied |-> windows.requested # windows.returned \/ Resolution(windows.returned) # "raw",
            requested |-> windows.requested, returned |-> windows.returned]

-------------------------------------------------------------------------------
HistoryInit == Init /\ history = Refused

GetParameterHistory(unit, start, end, codes) ==
  /\ \E up \in BOOLEAN : history' = HistoryOf(unit, start, end, codes, up)
  /\ UNCHANGED vars

Explain(unit, arg) == ExplainScore(unit, arg) /\ UNCHANGED history

AskHistory ==
  \E unit \in UnitSet \cup {None}, start, end \in Dates, codes \in Codes \cup {None} :
    GetParameterHistory(unit, start, end, codes)

AskScore == \E unit \in UnitSet, arg \in Arguments : Explain(unit, arg)

-------------------------------------------------------------------------------
Reported(unit) == {code \in DOMAIN history.series : code \in ParametersOf[unit]}
Points(code)   == history.series[code].points

\* A truncated result must not look like a genuinely short one (BoundingDisclosure,
\* models/common.py): unless the answer says that it was bounded, it holds the
\* reading of every day asked for; and bounded or not, no series is longer than
\* the limit.
NothingDroppedUnsaid ==
  history.ok => \A code \in DOMAIN history.series :
    /\ Len(Points(code)) <= MaxRaw
    /\ ~history.applied /\ code \in ParametersOf[history.unit] =>
         /\ history.requested.start..history.requested.end \subseteq Days
         /\ {[day |-> Points(code)[i].day, value |-> Points(code)[i].value] : i \in DOMAIN Points(code)}
              = {[day |-> d, value |-> series[code][d]] : d \in history.requested.start..history.requested.end}

\* Every reading of the returned window counts in exactly one point: points go
\* forward in time, at most a week apart, the last one is dated by the last day
\* of the window, and each value lies among the readings since the point before.
PointsCoverWindow ==
  history.ok => \A code \in Reported(history.unit) :
    LET points  == Points(code)
        since(i) == IF i = 1 THEN history.returned.start ELSE points[i - 1].day + 1
    IN  /\ points # << >> /\ points[Len(points)].day = history.returned.end
        /\ \A i \in DOMAIN points :
             LET readings == {series[code][d] : d \in since(i)..points[i].day}
             IN  /\ DaysOf(Window(since(i), points[i].day)) \in 1..7
                 /\ points[i].value \in Min(readings)..Max(readings)

\* BRIDGE-9: populated comes from what the unit records and not from the rows a
\* query finds.  A blind spot has no rows, and a parameter that is recorded has
\* one for each day returned: the two can be told apart in every answer.
BlindSpotsShown ==
  history.ok => \A code \in DOMAIN history.series :
    LET s == history.series[code]
    IN  /\ s.populated <=> code \in ParametersOf[history.unit]
        /\ s.records = IF s.populated THEN DaysOf(history.returned) ELSE 0
        /\ s.points = << >> <=> ~s.populated

\* What a point says of a day and what explain_score says of it.
AgreesWithScore(points) ==
  explained.ok /\ explained.unit = history.unit =>
    \A code \in Reported(history.unit) : \A i \in DOMAIN points[code], c \in explained.score.contributions :
      c.parameter = code /\ explained.as_of.day = points[code][i].day => points[code][i].zone = c.zone

AllPoints == [code \in DOMAIN history.series |-> Points(code)]

\* The raw readings of a day and the explanation of its score put a parameter in
\* the same zone, whichever was asked first.
RawAgreesWithScore == history.ok /\ history.resolution = "raw" => AgreesWithScore(AllPoints)

\* models/common.py:115-117: zones let the scores agree with the history.
HistoryAgreesWithScore == history.ok => AgreesWithScore(AllPoints)
===============================================================================
