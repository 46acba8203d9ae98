--------------------------- MODULE MCPlantReports ---------------------------
(***************************************************************************)
(* An instance of PlantReports for TLC: a plant with the membrane of one   *)
(* shipped plant and the sludge basin of the other, so that it has every   *)
(* shipped alert; the shipped sizes and readings, another course that the  *)
(* pressure could take, effluents at every side of a tier, and a limit     *)
(* that has lost its readings.  Windows end at and around every bound.     *)
(***************************************************************************)
EXTENDS Fixtures

MCParameters == DOMAIN FixtureBands
MCRank       == [flow_in |-> 1, flux |-> 2, ph |-> 3, svi |-> 4, tmp |-> 5]

Bouncing    == [FixtureSeries EXCEPT !.tmp = [d \in Days |-> IF d % 2 = 0 THEN 2910 ELSE 3100]]
MCHistories == {FixtureSeries, Bouncing}

\* The alert that was fired when the bouncing began is over.
Resolved == [UnitAlert(Bouncing, "u-mbr-01", "tmp", 1) EXCEPT !.status = "resolved"]

Effluent(cod, bod) == [FixtureEffluent.beta EXCEPT !["cod"][7] = cod, !["bod"][7] = bod]
UnitAlerts         == {TmpAlert(FixtureSeries), SviAlert(FixtureSeries)}
AllAlerts(readings) == UnitAlerts \cup {CodAlert(readings)}

MCTables ==
  {[series |-> FixtureSeries, effluent |-> FixtureEffluent.mbr, alerts |-> AllAlerts(FixtureEffluent.mbr)],
   [series |-> FixtureSeries, effluent |-> Effluent(25001, 2700), alerts |-> AllAlerts(Effluent(25001, 2700))],
   [series |-> FixtureSeries, effluent |-> Effluent(25000, 2701), alerts |-> UnitAlerts],
   [series |-> FixtureSeries, effluent |-> [FixtureEffluent.mbr EXCEPT !.cod = << >>], alerts |-> UnitAlerts],
   [series |-> Bouncing, effluent |-> Effluent(22500, 2700), alerts |-> {Resolved, SviAlert(Bouncing)}]}

MCDates    == {None, 0, 1, 2, 10, 22, 30, 31}
MCCodes    == {{"tmp", "cod"}}
MCAsOfDays == {0, 1, 2, 8, 9, 10, 15, 16, 21, 22, 23, 28, 29, 30, 31}
OneForm    == {"extended"}
===============================================================================
