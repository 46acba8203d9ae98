------------------------------- MODULE Fixtures -------------------------------
(***************************************************************************)
(* The tables of services/fixtures.py, in hundredths of their units, as    *)
(* values for the constants of PlantReports.  A series stands for what its *)
(* generator returns; do and mlss, which no alert is about, are left out.  *)
(***************************************************************************)
EXTENDS PlantReports

FixtureToday == 30

Band(nmin, nmax, wmin, wmax, amin, amax) ==
  [normal_min |-> nmin, normal_max |-> nmax, watch_min |-> wmin, watch_max |-> wmax,
   alarm_min |-> amin, alarm_max |-> amax]

FixtureBands ==
  [tmp     |-> Band(None, 3000, None, 3000, None, 4500),
   flux    |-> Band(1500, None, 1500, None, 1000, None),
   ph      |-> Band(650, 850, 650, 850, 550, 950),
   flow_in |-> Band(1500, 7000, 1000, 8000, 500, 10000),
   svi     |-> Band(None, 15000, None, 15000, None, 20000)]

\* The units of both plants; their equalization tanks are alike.
FixtureUnits == <<"u-eq-01", "u-mbr-01", "u-asp-01">>
FixtureCodes == [u \in {"u-eq-01", "u-mbr-01", "u-asp-01"} |->
                   CASE u = "u-eq-01"  -> {"ph", "flow_in"}
                     [] u = "u-mbr-01" -> {"tmp", "flux"}
                     [] u = "u-asp-01" -> {"svi"}]
FixtureFlow  == << <<"u-eq-01", "u-mbr-01">>, <<"u-eq-01", "u-asp-01">> >>

TmpMbr  == <<2200, 2270, 2310, 2320, 2280, 2220, 2150, 2100, 2080, 2110,
             2170, 2240, 2300, 2320, 2300, 2370, 2450, 2540, 2650, 2790,
             2960, 3140, 3310, 3480, 3610, 3720, 3810, 3900, 4000, 4120>>
FluxMbr == <<2400, 2440, 2470, 2480, 2470, 2450, 2410, 2370, 2340, 2320,
             2320, 2340, 2380, 2420, 2450, 2380, 2320, 2240, 2150, 2060,
             1970, 1890, 1820, 1760, 1710, 1660, 1620, 1570, 1520, 1450>>
SviAsp  == <<11000, 11200, 11400, 11600, 11600, 11500, 11400, 11200, 11000, 10700,
             10500, 10400, 10400, 10500, 10600, 10800, 11100, 11300, 11500, 11600,
             11900, 12400, 12900, 13300, 13700, 14100, 14500, 15000, 15600, 16200>>
PhEqMbr == <<720, 726, 731, 734, 735, 734, 730, 725, 719, 713,
             709, 706, 705, 707, 711, 716, 722, 727, 732, 735,
             735, 733, 729, 723, 717, 712, 708, 705, 705, 708>>
FlowEqMbr == <<4500, 4640, 4760, 4850, 4890, 4890, 4850, 4760, 4630, 4500,
               4360, 4240, 4150, 4110, 4110, 4160, 4250, 4370, 4510, 4640,
               4760, 4850, 4900, 4890, 4840, 4750, 4630, 4490, 4350, 4230>>

FixtureSeries ==
  [tmp |-> TmpMbr, flux |-> FluxMbr, svi |-> SviAsp, ph |-> PhEqMbr, flow_in |-> FlowEqMbr]

FixtureEffluent ==
  [mbr  |-> [cod |-> <<19500, 20200, 19800, 21000, 22500, 24800, 26500>>,
             bod |-> <<1800, 1900, 1800, 2000, 2100, 2200, 2200>>],
   beta |-> [cod |-> <<15000, 15500, 14800, 16000, 15800, 15200, 16100>>,
             bod |-> <<2000, 2100, 1900, 2200, 2100, 2000, 2100>>]]

\* The limits of the first plant.
FixtureLimits == <<[parameter |-> "cod", limit |-> 25000], [parameter |-> "bod", limit |-> 3000]>>

\* Mutant: the latest reading instead of that of the day.
SeriesValueLatest(readings, code, day) == readings[code][FixtureToday]

\* _series_value_at
SeriesValueAt(readings, code, day) == readings[code][day]

UnitAlert(readings, unit, code, day) ==
  [unit |-> unit, parameter |-> code, day |-> day, status |-> "active",
   value |-> SeriesValueAt(readings, code, day)]

\* Fired on DATES_30[21] and DATES_30[28].
TmpAlert(readings) == UnitAlert(readings, "u-mbr-01", "tmp", 22)
SviAlert(readings) == UnitAlert(readings, "u-asp-01", "svi", 29)

\* Mutant: the effluent alert names the unit that is to blame.
CodAlertOfUnit(readings) ==
  [unit |-> "u-mbr-01", parameter |-> "cod", day |-> FixtureToday, status |-> "active",
   value |-> readings["cod"][7]]

\* Not of a unit: COD has neither a band nor a series.
CodAlert(readings) ==
  [unit |-> None, parameter |-> "cod", day |-> FixtureToday, status |-> "active",
   value |-> readings["cod"][7]]
===============================================================================
