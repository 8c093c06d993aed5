-------------------------------- MODULE Sweeps --------------------------------
(***************************************************************************)
(* The magnetic session as the client shows it.  The session reads the     *)
(* field and the calibration register, and keeps its latest readings with  *)
(* the phase they were taken in; the client's worker polls them, splits    *)
(* them into the sweeps before, during and after a calibration, and the    *)
(* panel offers what the stage of the session allows.  MagneticSession has *)
(* the requests and timeouts behind each step here; a reading is what      *)
(* calibration it was taken under, not a vector.                           *)
(***************************************************************************)
EXTENDS Naturals, Sequences

CONSTANTS
  Capacity,     \* MAGNETIC_HISTORY_CAPACITY
  MaxReadings,  \* bound of the readings of the session
  MaxActions    \* bound of the commands sent into it

ASSUME SweepsAssumption ==
  Capacity \in Nat \ {0} /\ MaxReadings \in Nat /\ MaxActions \in Nat

SweepNames == {"before", "during", "after"}
Actions == {"mag_start", "mag_stop", "save"}

VARIABLES
  calibrating,  \* the device: CALSW = 7
  session,      \* magnetic::State: phase, records, sequence, operation, step of execute
  run,          \* the client's Run: cursor, sweeps, last, overrun, end_verified
  view,         \* what the panel was shown last
  commands,     \* commands sent
  truth         \* history: calibrations started, readings of foreign ones, a stop that ended the latest

sweepsVars == <<calibrating, session, run, view, commands, truth>>

NoCommand == [action |-> "none", attempted |-> FALSE, verified |-> FALSE, outcome |-> "None"]

SweepsInit ==
  /\ calibrating \in BOOLEAN
  /\ session = [phase |-> "Opening", records |-> <<>>, sequence |-> 0, op |-> NoCommand,
                step |-> "open", previous |-> "Opening"]
  /\ run = [cursor |-> 0, sweeps |-> [s \in SweepNames |-> {}], last |-> "none",
            overrun |-> 0, verified |-> FALSE]
  /\ view = [phase |-> "Opening", op |-> NoCommand]
  /\ commands = 0
  /\ truth = [starts |-> 0, foreign |-> 0, ended |-> FALSE]

-----------------------------------------------------------------------------
(***************************************************************************)
(* The session.                                                            *)
(***************************************************************************)

Live == session.phase \notin {"Closed", "Failed"}

\* observe: a reading is kept with the phase of its moment, the oldest dropped.
Recorded(s) ==
  LET reading == [phase |-> s.phase, starts |-> truth.starts, foreign |-> truth.foreign]
      kept == IF Len(s.records) = Capacity THEN Tail(s.records) ELSE s.records IN
  [s EXCEPT !.records = Append(kept, reading), !.sequence = @ + 1]
Records(s) ==
  /\ s.sequence < MaxReadings /\ session' = Recorded(s)
  /\ truth' = [truth EXCEPT !.foreign = IF s.phase = "ExternalCalibration" THEN @ + 1 ELSE @]

\* observe_calsw: what the calibration register says of the phase.
Seen(phase, seven) ==
  CASE phase \in {"Monitoring", "ExternalCalibration", "Calibrated"} /\ seven -> "ExternalCalibration"
    [] phase = "ExternalCalibration" /\ ~seven -> "Monitoring"
    [] phase = "Calibrating" /\ ~seven -> "Calibrated"
    [] OTHER -> phase

Opens ==
  /\ session.step = "open"
  /\ session' = [session EXCEPT !.step = "idle",
                   !.phase = IF calibrating THEN "ExternalCalibration" ELSE "Monitoring"]
  /\ UNCHANGED <<calibrating, run, view, commands, truth>>

\* Five times a second, between commands.
Reads ==
  /\ Live /\ session.step = "idle" /\ Records(session)
  /\ UNCHANGED <<calibrating, run, view, commands>>
\* Once a second.
ReadsControl ==
  /\ Live /\ session.step = "idle"
  /\ session' = [session EXCEPT !.phase = Seen(@, calibrating)]
  /\ UNCHANGED <<calibrating, run, view, commands, truth>>

\* execute: the register is checked first.
Refuses(action) == action # "mag_stop" /\ calibrating
EnteredBy == [mag_stop |-> "Stopping", save |-> "Saving", mag_start |-> "Starting"]
Checks ==
  /\ session.step = "check"
  /\ LET action == session.op.action
         seen == [session EXCEPT !.previous = session.phase, !.phase = Seen(@, calibrating)] IN
     session' = IF Refuses(action)
       THEN [seen EXCEPT !.op.outcome = "Failed", !.step = "idle"]
     ELSE IF action = "mag_start" THEN [seen EXCEPT !.step = "prove"]
     ELSE [seen EXCEPT !.phase = EnteredBy[action], !.step = "write"]
  /\ UNCHANGED <<calibrating, run, view, commands, truth>>

\* A start takes a reading before any calibration is written.
Proves ==
  /\ session.step = "prove" /\ session.sequence < MaxReadings
  /\ session' = [Recorded(session) EXCEPT !.phase = "Starting", !.step = "write"]
  /\ truth' = [truth EXCEPT !.foreign =
                 IF session.phase = "ExternalCalibration" THEN @ + 1 ELSE @]
  /\ UNCHANGED <<calibrating, run, view, commands>>

Attempts ==
  /\ session.step = "write"
  /\ session' = [session EXCEPT !.op.attempted = TRUE, !.step = "verify"]
  /\ truth' = IF session.op.action = "mag_start"
                THEN [truth EXCEPT !.starts = @ + 1, !.ended = FALSE] ELSE truth
  /\ UNCHANGED <<calibrating, run, view, commands>>

\* The register reads what was written; a save is not read back, and returns to
\* the phase there was before the check.
Verifies ==
  /\ session.step = "verify"
  /\ LET action == session.op.action
         done == [session EXCEPT !.step = "idle"] IN
     IF action = "save"
       THEN /\ session' = [done EXCEPT !.phase = session.previous, !.op.outcome = "Unverified"]
            /\ UNCHANGED <<calibrating, truth>>
     ELSE /\ calibrating' = (action = "mag_start")
          /\ session' = [done EXCEPT !.op.verified = TRUE, !.op.outcome = "Succeeded",
                           !.phase = IF action = "mag_start" THEN "Calibrating" ELSE "Calibrated"]
          /\ truth' = [truth EXCEPT !.ended = (action = "mag_stop")]
  /\ UNCHANGED <<run, view, commands>>

\* An error or a cancel ends the session, with whatever the write still did.
Ends ==
  /\ Live
  /\ calibrating' \in (IF session.step = "verify" /\ session.op.action # "save"
                         THEN {calibrating, session.op.action = "mag_start"} ELSE {calibrating})
  /\ session' \in {[session EXCEPT !.phase = p, !.step = "ended",
                      !.op.outcome = IF @ = "Running" THEN "Failed" ELSE @] : p \in {"Closed", "Failed"}}
  /\ UNCHANGED <<run, view, commands, truth>>

\* Assumed: a calibration the session knows of lasts at least to the first
\* reading of it, which is due in a fifth of a second.
WasRead ==
  session.phase \in {"Calibrating", "ExternalCalibration"} =>
    session.records # <<>> /\ session.records[Len(session.records)].phase = session.phase

\* Other programs, and the device itself.
Others ==
  /\ session.step # "verify" /\ WasRead /\ calibrating' = ~calibrating
  /\ UNCHANGED <<session, run, view, commands, truth>>

-----------------------------------------------------------------------------
(***************************************************************************)
(* The client.                                                             *)
(***************************************************************************)

SweepOf(phase) ==
  CASE phase = "Monitoring" -> "before" [] phase = "Calibrating" -> "during"
    [] phase = "Calibrated" -> "after" [] OTHER -> "none"

Cleared(r) == [r EXCEPT !.sweeps = [s \in SweepNames |-> {}], !.last = "none"]
\* A second calibration is judged against the sweep after the first one.
Shifted(r) ==
  [r EXCEPT !.sweeps = [before |-> r.sweeps["after"], during |-> {}, after |-> {}]]
Binned(r, sweep, reading) == [r EXCEPT !.sweeps[sweep] = @ \cup {reading}, !.last = sweep]

\* Faulty variant of Taken: readings of a foreign calibration are only skipped.
TakenOver(r, reading) ==
  LET sweep == SweepOf(reading.phase) IN
  IF sweep = "none" THEN r
  ELSE IF sweep = "during" /\ r.last = "after" THEN Binned(Shifted(r), sweep, reading)
  ELSE Binned(r, sweep, reading)
\* Faulty variant of Taken: a second calibration goes on with the first one's sweeps.
TakenOn(r, reading) ==
  LET sweep == SweepOf(reading.phase) IN
  IF reading.phase = "ExternalCalibration" THEN Cleared(r)
  ELSE IF sweep = "none" THEN r
  ELSE Binned(r, sweep, reading)
\* Sweeps::absorb, of one reading.
Taken(r, reading) ==
  LET sweep == SweepOf(reading.phase) IN
  IF reading.phase = "ExternalCalibration" THEN Cleared(r)
  ELSE IF sweep = "none" THEN r
  ELSE IF sweep = "during" /\ r.last = "after" THEN Binned(Shifted(r), sweep, reading)
  ELSE Binned(r, sweep, reading)

\* Faulty variant of EndVerified: only a stop says anything of an end.
EndVerifiedByStop(cmd, before) ==
  IF cmd.action = "mag_stop" THEN cmd.verified /\ cmd.outcome = "Succeeded" ELSE before
\* A save that follows an end does not hide whether it was verified.
EndVerified(cmd, before) ==
  CASE cmd.action = "mag_start" /\ cmd.attempted -> FALSE
    [] cmd.action = "mag_stop" -> cmd.verified /\ cmd.outcome = "Succeeded"
    [] OTHER -> before

\* since: what the history no longer has of the readings after the cursor.
Missed ==
  LET first == session.sequence - Len(session.records) + 1 IN
  IF run.cursor = 0 \/ first <= run.cursor + 1 THEN 0 ELSE first - (run.cursor + 1)

\* since: a reading of the history is taken unless the cursor is past it.
TakenAt(r, i) ==
  IF session.sequence - Len(session.records) + i > run.cursor
    THEN Taken(r, session.records[i]) ELSE r
\* absorb: the readings of the history, one after the other.
Absorbed ==
  LET after[i \in 0 .. Len(session.records)] ==
        IF i = 0 THEN run ELSE TakenAt(after[i - 1], i)
  IN  after[Len(session.records)]

\* One poll of the worker: Run::absorb, and the session as the panel is shown it.
Polls ==
  /\ run' = [Absorbed EXCEPT !.cursor = session.sequence, !.overrun = @ + Missed,
                             !.verified = EndVerified(session.op, @)]
  /\ view' = [phase |-> session.phase, op |-> session.op]
  /\ UNCHANGED <<calibrating, session, commands, truth>>

\* Stage::of, of what was shown.
Stage ==
  CASE view.phase = "Opening" -> "Opening"
    [] view.phase = "Monitoring" -> "Before"
    [] view.phase = "ExternalCalibration" -> "External"
    [] view.phase \in {"Starting", "Calibrating", "Stopping"} -> "During"
    [] view.phase \in {"Calibrated", "Saving"} -> "After"
    [] OTHER -> "Ended"

\* calibrating, external and after: an end, whoever calibrates.
StopOffered == Stage \in {"External", "During", "After"}
\* session and after: a start or a save, through a dialog that may still be open
\* when somebody else calibrates.
DialogOffered == Stage \in {"Before", "External", "After"}
\* session_buttons: nothing while the last command runs.
Offered(action) ==
  /\ view.op.outcome # "Running"
  /\ IF action = "mag_stop" THEN StopOffered ELSE DialogOffered
Sends ==
  /\ commands < MaxActions /\ commands' = commands + 1
  /\ Live /\ session.step = "idle" /\ session.records # <<>> /\ WasRead
  /\ \E action \in Actions :
       /\ Offered(action)
       /\ LET cmd == [NoCommand EXCEPT !.action = action, !.outcome = "Running"] IN
          /\ session' = [session EXCEPT !.op = cmd, !.step = "check"]
          /\ view' = [view EXCEPT !.op = cmd]
  /\ UNCHANGED <<calibrating, run, truth>>

-----------------------------------------------------------------------------
SweepsNext ==
  \/ Opens \/ Reads \/ ReadsControl \/ Checks \/ Proves \/ Attempts \/ Verifies \/ Ends
  \/ Others \/ Polls \/ Sends

SweepsSpec == SweepsInit /\ [][SweepsNext]_sweepsVars

-----------------------------------------------------------------------------
(***************************************************************************)
(* Properties.                                                             *)
(***************************************************************************)

\* No sweep holds readings from both sides of a calibration by someone else of
\* which the session took a reading, and the sweep during a calibration holds
\* those of one calibration, as long as the history lost none.  A foreign
\* calibration that ended before a reading was taken of it is not counted, as
\* the client has no means to tell; one the session knows of, its own included,
\* is assumed to last to its first reading (WasRead).
SweepsDoNotMix ==
  run.overrun = 0 =>
    \A s \in SweepNames : \A r, q \in run.sweeps[s] :
      /\ r.foreign = q.foreign
      /\ s = "during" => r.starts = q.starts

\* What is compared are the sweeps around the latest calibration: every reading
\* after is later than its start, and none before is older than the start of
\* the calibration before it.
ComparesOneCalibration ==
  run.overrun = 0 /\ Stage = "After" =>
    \A r \in run.sweeps["before"], q \in run.sweeps["after"] :
      q.starts <= r.starts + 1 /\ r.starts <= q.starts

\* "End verified by readback" is said only of a calibration whose own stop was
\* read back: not of the one before it, and not of an end nobody asked for.  The
\* panel shows what was polled, so this is of a session that did not move on.
EndVerifiedIsHonest ==
  Stage = "After" /\ run.verified /\ view.op = session.op => truth.ended

=============================================================================
