------------------------------ MODULE MCScoring ------------------------------
(***************************************************************************)
(* Instances of Scoring for TLC, with bands of PARAMETER_BANDS in tenths.  *)
(***************************************************************************)
EXTENDS Scoring

Open == [normal_min |-> None, normal_max |-> None, watch_min |-> None, watch_max |-> None,
         alarm_min |-> None, alarm_max |-> None]

TmpBand  == [Open EXCEPT !.normal_max = 300, !.watch_max = 300, !.alarm_max = 450]
FluxBand == [Open EXCEPT !.normal_min = 150, !.watch_min = 150, !.alarm_min = 100]
DoBand   == [normal_min |-> 20, normal_max |-> 60, watch_min |-> 20, watch_max |-> 60,
             alarm_min |-> 10, alarm_max |-> 80]
FlowBand == [normal_min |-> 150, normal_max |-> 700, watch_min |-> 100, watch_max |-> 800,
             alarm_min |-> 50, alarm_max |-> 1000]

\* Two units; in the second one parameter is in alarm every day, so that two more
\* lose more than 100 points.
TrainUnits      == <<"u-eq-01", "u-mbr-01">>
TrainParameters == {"flow_in", "do", "flux", "tmp"}
TrainOf         == [u \in {"u-eq-01", "u-mbr-01"} |->
                      IF u = "u-eq-01" THEN {"flow_in"} ELSE {"do", "flux", "tmp"}]
TrainRank       == [do |-> 1, flow_in |-> 2, flux |-> 3, tmp |-> 4]
TrainBands      == [flow_in |-> FlowBand, do |-> DoBand, flux |-> FluxBand, tmp |-> TmpBand]
TrainReadable   == [flow_in |-> <<450, 49>>, do |-> <<34, 9>>, flux |-> <<99, 99>>, tmp |-> <<301, 451>>]
TrainHistories  == {[p \in TrainParameters |-> [d \in Days |-> TrainReadable[p][pick[p][d]]]] :
                      pick \in [TrainParameters -> [Days -> 1..2]]}

\* The influent flow at every side of its bounds.
FlowUnits      == <<"u-eq-01">>
FlowParameters == {"flow_in"}
FlowOf         == [u \in {"u-eq-01"} |-> {"flow_in"}]
FlowRank       == [flow_in |-> 1]
FlowBands      == [flow_in |-> FlowBand]
FlowReadings   == {49, 50, 99, 100, 149, 150, 700, 701, 800, 801, 1000, 1001}
FlowHistories  == {[p \in FlowParameters |-> f] : f \in [Days -> FlowReadings]}

AnyDay   == 0..Today + 1
OneForm  == {"extended"}
AllForms == {"extended", "basic", "week"}
===============================================================================
