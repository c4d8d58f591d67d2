------------------------------ MODULE RunTests ------------------------------
(***************************************************************************)
(* The main loop of the driver (run_tests in mdriver.c), the timer it      *)
(* measures a valid trace with, the timeout of its -s option, and what     *)
(* main makes of the results.  main arms one alarm; SIGALRM may arrive     *)
(* before any statement, and its handler jumps back to the last setjmp.    *)
(* What a trace allocates is named by the trace: its ops and block arrays, *)
(* its range set, its mapping of the heap.                                 *)
(***************************************************************************)
EXTENDS Score

CONSTANTS
  NumTraces,   \* num_tracefiles
  MaxHanging,  \* bound on the traces on which the allocator never returns
  weights,     \* the weights in the headers of the trace files
  Utils,       \* what eval_mm_util may find, in hundredths
  RefThroughputs,  \* what measure_ref_throughput may return; 0 if the reference failed
  Costs, Readings, min_time, min_reps, kbest, maxsamples, percent   \* of Fcyc

Traces == 1 .. NumTraces

ASSUME TracesAssumption ==
  /\ NumTraces \in Nat \ {0} /\ MaxHanging \in Nat
  /\ weights \in [Traces -> {WNONE, WALL, WUTIL, WPERF}]
ASSUME ResultsAssumption == Utils \subseteq Nat \ {0} /\ RefThroughputs \subseteq Nat
ASSUME TimerAssumption ==
  /\ Costs \subseteq Nat \ {0} /\ Readings \subseteq Int
  /\ min_time \in Nat /\ min_reps \in Nat \ {0}
  /\ kbest \in Nat \ {0} /\ maxsamples \in Nat \ {0} /\ percent \in Nat

VARIABLES
  pc,          \* the statement main or run_tests is at
  i,           \* the loop's index
  trace, ranges, heap,      \* the locals trace and ranges, memlib's heap; 0: unset
  traces, sets, mapped,     \* what is allocated
  jmpbuf,      \* the locals at the last setjmp
  alarm,       \* "off", "armed" or "fired"
  mm_stats,    \* per trace, [weight, valid, util, secs]
  errors,      \* the global error count
  fault,       \* undefined behaviour met
  hanging,     \* the traces on which the allocator never returns
  onetime,     \* onetime_flag, the -c option
  score,       \* what main printed: [ref, table, avg, perf, correct]
  tpc, reps, sampler, arrays, samples, result   \* the variables of Fcyc

locals == <<i, trace, ranges, heap>>
owned  == <<traces, sets, mapped>>
stats  == <<mm_stats, errors>>
signal == <<jmpbuf, alarm>>
timer  == <<tpc, reps, sampler, arrays, samples, result>>
vars   == <<pc, locals, owned, stats, signal, fault, hanging, onetime, score, timer>>

Timer == INSTANCE Fcyc WITH pc <- tpc, armed <- (alarm = "armed")

Unset  == [set |-> FALSE, trace |-> 0, ranges |-> 0]

At(from, to)   == pc = from /\ pc' = to /\ UNCHANGED <<hanging, onetime>>
Goto(from, to) == At(from, to) /\ UNCHANGED <<score, timer>>

(***************************************************************************)
(* One iteration of the loop.                                              *)
(***************************************************************************)
\* From main's alarm(set_timeout) to its call of run_tests
Reference ==
  /\ At("reference", "mem_init")
  /\ \E t \in RefThroughputs : score' = [score EXCEPT !.ref = t]
  /\ UNCHANGED <<locals, owned, stats, signal, fault, timer>>

MemInit ==
  /\ Goto("mem_init", "new_range_set")
  /\ heap' = i /\ mapped' = mapped \cup {i}
  /\ UNCHANGED <<i, trace, ranges, traces, sets, stats, signal, fault>>

NewRangeSet ==
  /\ Goto("new_range_set", "read_trace")
  /\ ranges' = i /\ sets' = sets \cup {i}
  /\ UNCHANGED <<i, trace, heap, traces, mapped, stats, signal, fault>>

\* Variant: one trace serves all the iterations.
ReadTrace_hoisted ==
  /\ Goto("read_trace", "setjmp")
  /\ trace' = 1 /\ traces' = IF i = 1 THEN {1} ELSE traces
  /\ mm_stats' = [mm_stats EXCEPT ![i].weight = weights[i]]
  /\ UNCHANGED <<i, ranges, heap, sets, mapped, errors, signal, fault>>

ReadTrace ==
  /\ Goto("read_trace", "setjmp")
  /\ trace' = i /\ traces' = traces \cup {i}
  /\ mm_stats' = [mm_stats EXCEPT ![i].weight = weights[i]]
  /\ UNCHANGED <<i, ranges, heap, sets, mapped, errors, signal, fault>>

SetJmp ==
  /\ Goto("setjmp", "valid1")
  /\ jmpbuf' = [set |-> TRUE, trace |-> trace, ranges |-> ranges]
  /\ UNCHANGED <<locals, owned, stats, alarm, fault>>

\* Variant: the error is not counted.
Invalid_uncounted ==
  /\ UNCHANGED errors
  /\ mm_stats' = [mm_stats EXCEPT ![i].valid = FALSE]

\* eval_mm_valid reports an error whenever it returns false.
Invalid ==
  /\ errors' = errors + 1
  /\ mm_stats' = [mm_stats EXCEPT ![i].valid = FALSE]

Valid1 ==
  /\ i \notin hanging
  /\ \/ Goto("valid1", "valid2") /\ UNCHANGED stats
     \/ Goto("valid1", IF onetime THEN "onetime" ELSE "free_trace") /\ Invalid
  /\ UNCHANGED <<locals, owned, signal, fault>>

Valid2 ==
  /\ \/ /\ Goto("valid2", IF onetime THEN "onetime" ELSE "util")
        /\ mm_stats' = [mm_stats EXCEPT ![i].valid = TRUE] /\ UNCHANGED errors
     \/ Goto("valid2", IF onetime THEN "onetime" ELSE "free_trace") /\ Invalid
  /\ UNCHANGED <<locals, owned, signal, fault>>

\* The driver ends when the reference cannot be measured, and when the allocator
\* fails outside of eval_mm_valid.
AppError(at) == Goto(at, "aborted") /\ UNCHANGED <<locals, owned, stats, signal, fault>>

Util ==
  /\ Goto("util", "speed")
  /\ \E u \in Utils : mm_stats' = [mm_stats EXCEPT ![i].util = u]
  /\ UNCHANGED <<locals, owned, errors, signal, fault>>

\* fsec measures the trace; A is a step of the timer.
Speed(A) ==
  /\ UNCHANGED <<locals, owned, errors, signal, fault, score>>
  /\ A
  /\ IF tpc' = "idle"
     THEN At("speed", "free_trace") /\ mm_stats' = [mm_stats EXCEPT ![i].secs = result']
     ELSE At("speed", "speed") /\ UNCHANGED mm_stats

SpeedCall           == pc = "speed" /\ Speed(Timer!Call)
SpeedCalibrate      == pc = "speed" /\ \E cost \in Costs : Speed(Timer!Calibrate(cost))
SpeedSample(values) == pc = "speed" /\ \E sec \in values : Speed(Timer!Sample(sec))

\* A second free of the same storage is undefined; the run ends there.
FreeTrace(from, to) ==
  /\ Goto(from, IF trace \in traces THEN to ELSE "crashed")
  /\ fault' = IF trace \in traces THEN fault ELSE "double free"
  /\ traces' = traces \ {trace}
  /\ UNCHANGED <<locals, sets, mapped, stats, signal>>

FreeRangeSet ==
  /\ Goto("free_range_set", IF ranges \in sets THEN "mem_deinit" ELSE "crashed")
  /\ fault' = IF ranges \in sets THEN fault ELSE "double free"
  /\ sets' = sets \ {ranges}
  /\ UNCHANGED <<locals, traces, mapped, stats, signal>>

\* Variant: the loop runs once too often.
MemDeinit_once_more ==
  /\ Goto("mem_deinit", IF i <= NumTraces THEN "mem_init" ELSE "report")
  /\ mapped' = mapped \ {heap}
  /\ i' = i + 1
  /\ UNCHANGED <<trace, ranges, heap, traces, sets, stats, signal, fault>>

MemDeinit ==
  /\ Goto("mem_deinit", IF i < NumTraces THEN "mem_init" ELSE "report")
  /\ mapped' = mapped \ {heap}
  /\ i' = IF i < NumTraces THEN i + 1 ELSE i
  /\ UNCHANGED <<trace, ranges, heap, traces, sets, stats, signal, fault>>

\* What main does with the results after run_tests has returned; -c prints no table.
Report ==
  LET avg == averages(mm_stats, errors)
  IN  /\ At("report", "exit")
      /\ score' = [ref     |-> score.ref,
                   table   |-> IF onetime THEN NoAverages ELSE printresults(mm_stats, errors),
                   avg     |-> avg,
                   perf    |-> IF errors = 0 THEN perfindex(avg, score.ref) ELSE 0,
                   correct |-> correctindex(mm_stats)]
      /\ UNCHANGED <<locals, owned, stats, signal, fault, timer>>

\* Every step but a failure or a reading that shows no advance of the clock
Proceed ==
  \/ Reference \/ MemInit \/ NewRangeSet \/ ReadTrace \/ SetJmp
  \/ Valid1 \/ Valid2 \/ Util
  \/ SpeedCall \/ SpeedCalibrate \/ SpeedSample({sec \in Readings : sec > 0})
  \/ FreeTrace("free_trace", "free_range_set") \/ FreeTrace("onetime", "report")
  \/ FreeRangeSet \/ MemDeinit \/ Report

Step ==
  \/ Proceed
  \/ SpeedSample({sec \in Readings : sec <= 0})
  \/ AppError("reference") \/ AppError("util") \/ (tpc # "idle" /\ AppError("speed"))

(***************************************************************************)
(* SIGALRM.  Before the first setjmp, or once run_tests has returned, the  *)
(* jump is undefined.  Otherwise the loop goes on behind setjmp with the   *)
(* current i, which is volatile; trace and ranges are not, so what they    *)
(* hold is indeterminate if they changed since the setjmp.  The timer is   *)
(* left where it was and keeps its array until it is called again.         *)
(***************************************************************************)
Ended == {"exit", "crashed", "aborted"}

Arrives ==
  /\ alarm = "armed" /\ alarm' = "fired" /\ errors' = 1
  /\ IF tpc = "idle" THEN UNCHANGED timer ELSE Timer!Timeout
  /\ UNCHANGED <<i, heap, owned, jmpbuf, hanging, onetime, score>>

BadJump ==
  /\ ~jmpbuf.set \/ pc = "report"
  /\ pc \notin Ended
  /\ Arrives
  /\ pc' = "crashed" /\ fault' = "bad jump"
  /\ UNCHANGED <<trace, ranges, mm_stats>>

\* Variant: the handler returns.
TimedOut_returns ==
  /\ jmpbuf.set /\ pc \notin {"report"} \cup Ended
  /\ Arrives
  /\ UNCHANGED <<pc, trace, ranges, mm_stats, fault>>

\* Variant: the loop goes on at mem_deinit.
TimedOut_unfreed ==
  /\ jmpbuf.set /\ pc \notin {"report"} \cup Ended
  /\ Arrives
  /\ pc' = "mem_deinit"
  /\ mm_stats' = [mm_stats EXCEPT ![i].valid = FALSE]
  /\ UNCHANGED <<trace, ranges, fault>>

TimedOut ==
  /\ jmpbuf.set /\ pc \notin {"report"} \cup Ended
  /\ Arrives
  /\ pc' = "free_trace"
  /\ trace' \in {trace, jmpbuf.trace} /\ ranges' \in {ranges, jmpbuf.ranges}
  /\ mm_stats' = [mm_stats EXCEPT ![i].valid = FALSE]
  /\ UNCHANGED fault

Init ==
  /\ pc = "reference"
  /\ i = 1 /\ trace = 0 /\ ranges = 0 /\ heap = 0
  /\ traces = {} /\ sets = {} /\ mapped = {}
  /\ jmpbuf = Unset
  /\ alarm \in {"off", "armed"}
  /\ mm_stats = [t \in Traces |-> [weight |-> WNONE, valid |-> FALSE, util |-> 0, secs |-> 0]]
  /\ errors = 0
  /\ fault = "none"
  /\ hanging \in {H \in SUBSET Traces : Cardinality(H) <= MaxHanging}
  /\ onetime \in BOOLEAN
  /\ score = [ref |-> 0, table |-> NoAverages, avg |-> NoAverages, perf |-> 0, correct |-> 0]
  /\ Timer!Init

Next == Step \/ BadJump \/ TimedOut

\* The process runs on while it can, and the clock is seen to advance; the
\* kernel delivers an alarm in time.
Fairness == WF_vars(Proceed) /\ WF_vars(TimedOut \/ BadJump)

Spec == Init /\ [][Next]_vars /\ Fairness

\* The alarm arrives while a trace is being evaluated, where the driver spends
\* its time, and not in the few statements between two evaluations.
Evaluating == pc \in {"valid1", "valid2", "util", "speed"}

TimelyNext == Step \/ (Evaluating /\ TimedOut)

TimelySpec == Init /\ [][TimelyNext]_vars
              /\ WF_vars(Proceed) /\ WF_vars(Evaluating /\ TimedOut)

(***************************************************************************)
(* Properties.                                                             *)
(***************************************************************************)
\* The variables have their types.  The timer's sampler counts the samples of
\* this measurement and no others, and at most one array of samples is
\* allocated, also after the timeout left a measurement (fcyc.c:46-83).
TypeOK ==
  /\ pc \in {"reference", "mem_init", "new_range_set", "read_trace", "setjmp",
             "valid1", "valid2", "util", "speed", "free_trace", "onetime",
             "free_range_set", "mem_deinit", "report"} \cup Ended
  /\ i \in Traces /\ {trace, ranges, heap} \subseteq Traces \cup {0}
  /\ traces \subseteq Traces /\ sets \subseteq Traces /\ mapped \subseteq Traces
  /\ jmpbuf \in [set : BOOLEAN, trace : Traces \cup {0}, ranges : Traces \cup {0}]
  /\ alarm \in {"off", "armed", "fired"}
  /\ \A t \in Traces :
       mm_stats[t].weight \in {WNONE, WALL, WUTIL, WPERF} /\ mm_stats[t].valid \in BOOLEAN
  /\ errors \in 0 .. NumTraces
  /\ fault \in {"none", "double free", "bad jump"}
  /\ hanging \subseteq Traces /\ onetime \in BOOLEAN
  /\ Timer!TypeOK

\* "start each trace with a clean system" (mdriver.c:255-256): nothing of the
\* earlier traces is still allocated when a trace begins, not even of one that
\* timed out.
CleanStart == pc = "mem_init" => traces = {} /\ sets = {} /\ mapped = {}

\* Free the trace record and the arrays "all of which were allocated in
\* read_trace()" (mdriver.c:1009-1010): nothing is freed that is not allocated.
FreedOnce == fault # "double free"

\* A performance index above zero is only given to a run in which every trace
\* was found valid and every figure averaged was measured, wherever the alarm
\* interrupted it and whatever timing it interrupted; then main's averages
\* (mdriver.c:543-584) are those of the table, which leaves out the traces that
\* are not valid, and the correctness index is full.  It is not a number only
\* where the reference throughput is zero (mdriver.c:307-316).
ScoreHonest ==
  pc = "exit" =>
    /\ score.perf > 0 =>
         /\ ~onetime /\ score.correct = 50 /\ score.table = score.avg
         /\ \A t \in Traces :
              /\ mm_stats[t].valid
              /\ mm_stats[t].weight \in {WALL, WUTIL} => mm_stats[t].util > 0
              /\ mm_stats[t].weight \in {WALL, WPERF} => mm_stats[t].secs > 0
    /\ score.perf = NaN => score.ref = 0

\* The timer's array holds the smallest of all the samples of this measurement,
\* in order, whatever the order they came in and whatever the measurement before
\* left in it (add_sample, fcyc.c:62-83).
BestKept == Timer!BestKept

\* A measurement returns its fastest sample, and it stops only when kbest of
\* its samples agree within epsilon or all of maxsamples were taken
\* (fcyc.c:85-91, 181-193).
ResultJustified == Timer!ResultJustified

\* The run ends: the alarm gives up the trace that hangs, every measurement is
\* finished however much its samples differ, and the traces after it are run,
\* unless one of them hangs too, when no second alarm comes (mdriver.c:236-240).
Rescuable ==
  \A t \in hanging :
    \/ t < i
    \/ t = i /\ pc \notin {"reference", "mem_init", "new_range_set", "read_trace",
                           "setjmp", "valid1"}
    \/ t = i /\ pc = "valid1" /\ alarm = "armed"

Finishes == Rescuable ~> (pc \in {"exit", "aborted"})

=============================================================================
