-------------------------------- MODULE Score --------------------------------
(***************************************************************************)
(* What the driver makes of the results of the traces (mdriver.c): the     *)
(* table's averages, the driver's own, and the performance index.          *)
(* Fractions are in hundredths, rounded down; s[t] has the results of      *)
(* trace t, and ops is the number of operations of a trace.                *)
(***************************************************************************)
EXTENDS FiniteSets, Sums

CONSTANT ops

ASSUME OpsAssumption == ops \in Nat \ {0}

\* The weights: a trace is ignored, counts for both averages, or for one.
WNONE == 0
WALL  == 1
WUTIL == 2
WPERF == 3

NaN == -1     \* what 0 / 0 gives

ForUtil(s, T) == {t \in T : s[t].weight \in {WALL, WUTIL}}
ForPerf(s, T) == {t \in T : s[t].weight \in {WALL, WPERF}}
Valid(s)      == {t \in DOMAIN s : s[t].valid}

Sum(w, s) == Total(w, Cardinality(DOMAIN s))

AvgUtil(s, T) ==
  LET util == [t \in DOMAIN s |-> IF t \in ForUtil(s, T) THEN s[t].util ELSE 0]
  IN  IF ForUtil(s, T) = {} THEN 0 ELSE Sum(util, s) \div Cardinality(ForUtil(s, T))

AvgThroughput(s, T) ==
  LET secs == Sum([t \in DOMAIN s |-> IF t \in ForPerf(s, T) THEN s[t].secs ELSE 0], s)
  IN  IF secs = 0 THEN 0 ELSE (ops * Cardinality(ForPerf(s, T))) \div secs

NoAverages == [util |-> 0, tput |-> 0]

\* The summary of the table, over the valid traces
printresults(s, errors) ==
  IF errors # 0 THEN NoAverages
  ELSE [util |-> AvgUtil(s, Valid(s)), tput |-> AvgThroughput(s, Valid(s))]

\* The averages main computes, over all of them
averages(s, errors) ==
  IF errors # 0 THEN NoAverages
  ELSE [util |-> AvgUtil(s, DOMAIN s), tput |-> AvgThroughput(s, DOMAIN s)]

correctindex(s) == (50 * Cardinality(Valid(s))) \div Cardinality(DOMAIN s)

score_component(perf, min_perf, max_perf) ==
  CASE perf < min_perf -> 0
    [] perf > max_perf -> 100
    [] perf = min_perf /\ perf = max_perf -> NaN
    [] OTHER -> (100 * (perf - min_perf)) \div (max_perf - min_perf)

\* MIN_SPACE, MAX_SPACE, MIN_SPEED_RATIO, MAX_SPEED_RATIO, UTIL_WEIGHT
perfindex(avg, ref_throughput) ==
  LET p1 == score_component(avg.util, 40, 63)
      p2 == score_component(100 * avg.tput, 30 * ref_throughput, 35 * ref_throughput)
  IN  IF p2 = NaN THEN NaN ELSE (60 * p1 + (100 - 60) * p2) \div 100
=============================================================================
