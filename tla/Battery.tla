-------------------------------- MODULE Battery --------------------------------
(***************************************************************************)
(* battery.rs: a voltage in hundredths as the device's register gives it,  *)
(* what percentage is told of it, and for how long.                        *)
(***************************************************************************)
EXTENDS Integers, FiniteSets

CONSTANT BatteryStale  \* STALE_AFTER

\* What the lookup table says from each threshold on.
Level == [raw \in {200, 340, 350, 368, 370, 373, 377, 379, 382, 387, 393, 396} |->
            CASE raw = 200 -> 0  [] raw = 340 -> 5  [] raw = 350 -> 10 [] raw = 368 -> 15
              [] raw = 370 -> 20 [] raw = 373 -> 30 [] raw = 377 -> 40 [] raw = 379 -> 50
              [] raw = 382 -> 60 [] raw = 387 -> 75 [] raw = 393 -> 90 [] raw = 396 -> 100]
NoPercent == -1

Estimate(raw) ==
  IF raw \notin 200 .. 430 THEN NoPercent
  ELSE Level[CHOOSE t \in DOMAIN Level : t <= raw /\ \A u \in DOMAIN Level : u <= raw => u <= t]

\* -1: nothing was read.
NewBattery == [raw |-> -1, percent |-> NoPercent, failed |-> FALSE, received |-> -1]

Fail(b) == [b EXCEPT !.failed = TRUE]
Observe(b, raw, now) ==
  IF raw \notin 200 .. 550 THEN Fail(b)
  ELSE [raw |-> raw, percent |-> Estimate(raw), failed |-> FALSE, received |-> now]

FreshBattery(b, now, available) ==
  available /\ ~b.failed /\ b.received >= 0 /\ now - b.received < BatteryStale

=============================================================================
