------------------------------ MODULE SampleClock ------------------------------
(***************************************************************************)
(* sample_clock.rs: the times a device gives its samples are held against  *)
(* the clock of the host.  A time seen last is a duplicate; one that goes  *)
(* back, runs ahead of the host or is of another kind opens a new epoch.   *)
(***************************************************************************)
EXTENDS Integers, Sequences

CONSTANTS
  NsPerMs,   \* 1_000_000
  Tolerance  \* 2000 ms

ASSUME ClockAssumption == NsPerMs \in Nat \ {0} /\ Tolerance \in Nat

NewClock == [previous |-> <<>>, duplicates |-> 0, discontinuities |-> 0]

\* saturating_sub
Minus(a, b) == IF a > b THEN a - b ELSE 0

IsDuplicate(clock, kind, ms) ==
  clock.previous # <<>> /\ clock.previous[1].kind = kind /\ clock.previous[1].ms = ms

\* previous holds the last sample that was let through, and when it came.
Jumps(clock, kind, ms, ns) ==
  LET last == clock.previous[1] IN
  \/ kind # last.kind
  \/ ms < last.ms
  \/ Minus(ms, last.ms) > Minus(ns, clock.previous[2]) \div NsPerMs + Tolerance

Opens(clock, kind, ms, ns) == clock.previous # <<>> /\ Jumps(clock, kind, ms, ns)

\* observe: the clock after it; what it returns is previous[1] unless the time
\* is a duplicate.
Observed(clock, kind, ms, ns) ==
  IF IsDuplicate(clock, kind, ms) THEN [clock EXCEPT !.duplicates = @ + 1]
  ELSE LET opened == IF Opens(clock, kind, ms, ns) THEN 1 ELSE 0
           epoch == IF clock.previous = <<>> THEN 1 ELSE clock.previous[1].epoch + opened
       IN  [clock EXCEPT !.previous = <<[kind |-> kind, ms |-> ms, epoch |-> epoch], ns>>,
                         !.discontinuities = @ + opened]

=============================================================================
