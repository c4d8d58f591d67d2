-------------------------------- MODULE Fcyc --------------------------------
(***************************************************************************)
(* The K-best timer of fcyc.c (fsec and fcyc, which differ only in the     *)
(* unit of the time), called by the driver once for each trace, and the    *)
(* alarm of the driver, whose handler leaves the function being timed and  *)
(* never returns to the timer.                                             *)
(***************************************************************************)
EXTENDS Integers, Sequences, FiniteSets

CONSTANTS
  Costs,       \* how long one call of the timed function may take
  Readings,    \* the averages a round may be read as; 0 or less when the
               \* clock did not advance
  min_time,    \* what a round must take for its reading to mean something
  min_reps,    \* the calls in the first round
  kbest,       \* the measurements that must agree
  maxsamples,  \* the measurements after which the timer gives up
  percent      \* epsilon, in hundredths

VARIABLES
  pc,          \* "idle", "calibrate" or "sample"
  reps,        \* the calls in a round
  sampler,     \* [values, samplecount]; values[k] is the source's values[k-1]
  arrays,      \* the arrays of samples allocated and not freed
  armed,       \* the driver's alarm has not fired yet
  samples,     \* every positive reading of this measurement, in order
  result       \* what the last measurement returned; 0 before

vars == <<pc, reps, sampler, arrays, armed, samples, result>>

NULL == <<>>

(***************************************************************************)
(* The sampler.                                                            *)
(***************************************************************************)
\* The insertion sort moves the sample val, put at pos, down to the place k.
Settles(values, pos, val, k) ==
  /\ k = 1 \/ values[k - 1] <= val
  /\ \A j \in k .. pos - 1 : values[j] > val

Moved(values, pos, val, at) ==
  [j \in 1 .. kbest |-> IF j < at \/ j > pos THEN values[j]
                        ELSE IF j = at THEN val ELSE values[j - 1]]

Sorted(values, pos, val) ==
  Moved(values, pos, val, CHOOSE k \in 1 .. pos : Settles(values, pos, val, k))

\* Variant: the last sample replaces the worst, even if it is worse still.
Insert_last(s, val) ==
  Sorted(s.values, IF s.samplecount < kbest THEN s.samplecount + 1 ELSE kbest, val)

\* A sample takes the next place, or that of the worst if it is better.
Insert(s, val) ==
  IF s.samplecount < kbest THEN Sorted(s.values, s.samplecount + 1, val)
  ELSE IF val < s.values[kbest] THEN Sorted(s.values, kbest, val)
  ELSE s.values

add_sample(s, val) == [values |-> Insert(s, val), samplecount |-> s.samplecount + 1]

\* Variant: two samples that agree are enough.
has_converged_two(s) ==
  s.samplecount >= 2 /\ (100 + percent) * s.values[1] >= 100 * s.values[2]

has_converged(s) ==
  s.samplecount >= kbest /\ (100 + percent) * s.values[1] >= 100 * s.values[kbest]

Empty == [values |-> [k \in 1 .. kbest |-> 0], samplecount |-> 0]

\* Variant: the count of the measurement before goes on.
init_sampler_counting ==
  /\ sampler' = [Empty EXCEPT !.samplecount = sampler.samplecount]
  /\ arrays' = (IF sampler.values = NULL THEN arrays ELSE arrays - 1) + 1

init_sampler ==
  /\ sampler' = Empty
  /\ arrays' = (IF sampler.values = NULL THEN arrays ELSE arrays - 1) + 1

(***************************************************************************)
(* fsec: rounds until one is long enough, then samples of such rounds.     *)
(***************************************************************************)
Call ==
  /\ pc = "idle" /\ pc' = "calibrate"
  /\ reps' = min_reps
  /\ UNCHANGED <<sampler, arrays, armed, samples, result>>

Calibrate(cost) ==
  /\ pc = "calibrate"
  /\ IF reps * cost < min_time
     THEN reps' = reps + reps /\ UNCHANGED <<pc, sampler, arrays, samples>>
     ELSE pc' = "sample" /\ init_sampler /\ samples' = <<>> /\ UNCHANGED reps
  /\ UNCHANGED <<armed, result>>

\* A reading that is not positive is not a sample.
Sample(sec) ==
  LET s == IF sec > 0 THEN add_sample(sampler, sec) ELSE sampler
  IN  /\ pc = "sample"
      /\ samples' = IF sec > 0 THEN Append(samples, sec) ELSE samples
      /\ IF has_converged(s) \/ s.samplecount >= maxsamples
         THEN /\ pc' = "idle" /\ reps' = 0
              /\ result' = s.values[1]
              /\ sampler' = [s EXCEPT !.values = NULL] /\ arrays' = arrays - 1
         ELSE sampler' = s /\ UNCHANGED <<pc, reps, result, arrays>>
      /\ UNCHANGED armed

\* The handler of SIGALRM jumps out of the function being timed.
Timeout ==
  /\ armed /\ pc # "idle"
  /\ armed' = FALSE
  /\ pc' = "idle" /\ reps' = 0
  /\ UNCHANGED <<sampler, arrays, samples, result>>

Init ==
  /\ pc = "idle" /\ reps = 0
  /\ sampler = [values |-> NULL, samplecount |-> 0]
  /\ arrays = 0
  /\ armed \in BOOLEAN
  /\ samples = <<>>
  /\ result = 0

(***************************************************************************)
(* Properties.                                                             *)
(***************************************************************************)
Kept == IF Len(samples) < kbest THEN Len(samples) ELSE kbest

\* The sampler counts the samples of this measurement, and no others, so that
\* the places of the array not yet filled are not read; one array at most is
\* allocated, also after the timeout left a measurement (fcyc.c:46-83).
TypeOK ==
  /\ pc \in {"idle", "calibrate", "sample"}
  /\ reps \in Nat
  /\ sampler.samplecount \in 0 .. maxsamples
  /\ pc = "sample" => sampler.samplecount = Len(samples)
  /\ arrays = IF sampler.values = NULL THEN 0 ELSE 1

\* rank tells which of the samples s the first n values are.
Ranks(values, s, n, rank) ==
  /\ \A j, k \in 1 .. n : rank[j] = rank[k] => j = k
  /\ \A k \in 1 .. n : values[k] = s[rank[k]]
  /\ \A m \in DOMAIN s : (\A k \in 1 .. n : rank[k] # m) => \A k \in 1 .. n : values[k] <= s[m]

\* The array holds the smallest of all the samples taken, in order, whatever
\* the order they came in (add_sample, fcyc.c:62-83).
BestKept ==
  pc = "sample" =>
    /\ \A j, k \in 1 .. Kept : j < k => sampler.values[j] <= sampler.values[k]
    /\ \E rank \in [1 .. Kept -> DOMAIN samples] : Ranks(sampler.values, samples, Kept, rank)

\* A measurement returns its fastest sample, and it stops only when kbest of
\* its samples agree within epsilon or all of maxsamples were taken
\* (fcyc.c:85-91, 181-193).
Agreeing(s, best) == {k \in DOMAIN s : 100 * s[k] <= (100 + percent) * best}

Justified ==
  pc = "sample" /\ pc' = "idle" /\ armed' = armed =>
    /\ \E k \in DOMAIN samples' : samples'[k] = result'
    /\ \A k \in DOMAIN samples' : samples'[k] >= result'
    /\ Cardinality(Agreeing(samples', result')) >= kbest \/ Len(samples') = maxsamples

ResultJustified == [][Justified]_vars
=============================================================================
