--------------------------- MODULE ControllerTask ---------------------------
(***************************************************************************)
(* The controller as those who call it see it: at most one task, on a      *)
(* device, that publishes what it does and how it ended, and that is       *)
(* cancelled and joined by stop.  The steps of a command are in            *)
(* DeviceCommand, those of a magnetic session in MagneticSession, the      *)
(* handles and the abort in ControllerLifecycle; here a task is what a     *)
(* caller can tell of it.                                                  *)
(***************************************************************************)
CONSTANT Devices  \* the devices that can be reached

NoDevice == "none"

VARIABLES
  task,    \* the controller's task
  shared,  \* the controller's state, as snapshot and magnetic_since read it
  calsw,   \* the devices that are calibrating
  owes     \* history: devices whose start was announced and whose end nobody saw

taskVars == <<task, shared, calsw, owes>>

NoOperation == [action |-> "none", attempted |-> FALSE, verified |-> FALSE, outcome |-> "None"]
Closed == [open |-> FALSE, owned |-> FALSE, calibrating |-> FALSE, seven |-> FALSE, error |-> FALSE]
NoTask == [kind |-> "none", dev |-> NoDevice, do |-> "none", step |-> "ended",
           result |-> "Complete", cancel |-> FALSE, alive |-> FALSE]

TaskInit ==
  /\ shared = [state |-> "Idle", op |-> NoOperation, desc |-> FALSE, config |-> NoDevice,
               tracking |-> FALSE, commands |-> FALSE, chan |-> "none", mag |-> Closed]
  /\ task = NoTask
  /\ calsw = [d \in Devices |-> FALSE] /\ owes = {}

-----------------------------------------------------------------------------
(***************************************************************************)
(* The calls.                                                              *)
(***************************************************************************)

May == shared.mag.owned \/ shared.mag.seven
Busy == shared.op.outcome = "Running"
Ready == task.alive /\ shared.commands /\ shared.mag.open /\ ~Busy

\* configure_device into the open session, when it is ready.  When the session's
\* task is already gone, its error is what stop returns.
SendsInto(command) ==
  /\ shared' = IF Ready
       THEN [shared EXCEPT !.chan = command,
               !.op = [NoOperation EXCEPT !.action = command, !.outcome = "Running"]]
       ELSE IF task.alive THEN shared ELSE [shared EXCEPT !.commands = FALSE]
  /\ task' = IF task.alive THEN task ELSE NoTask

\* stop: the error of a session that failed, or whose cleanup did, is returned once.
StopFails == shared.commands /\ shared.mag.error
Stopped(s) == [s EXCEPT !.commands = FALSE, !.state = IF StopFails THEN @ ELSE "Stopped"]

\* set_config: another device, or another use of this one, starts from nothing;
\* of the same device its description is kept.
Configured(s, d, tracking) ==
  IF s.config = d /\ s.tracking = tracking THEN s
  ELSE [s EXCEPT !.config = d, !.tracking = tracking, !.mag = Closed, !.state = "Idle",
                 !.desc = @ /\ s.config = d]

\* The state each kind of task starts from.
Started(s, do) ==
  LET operation(a) == [NoOperation EXCEPT !.action = a, !.outcome = "Running"] IN
  CASE do \in {"inspect", "connect", "apply"} ->
         [s EXCEPT !.state = "Inspecting", !.mag = Closed, !.desc = FALSE, !.op = operation("inspect")]
    [] do = "magnetic" ->
         [s EXCEPT !.state = "Connecting", !.mag = Closed, !.desc = FALSE, !.op = NoOperation,
                   !.commands = TRUE, !.chan = "none"]
    [] do = "scan" -> [s EXCEPT !.state = "Scanning", !.mag = Closed]
    [] do = "track" -> [s EXCEPT !.state = "Connecting", !.mag = Closed]
    [] OTHER -> [s EXCEPT !.state = "Configuring", !.mag = Closed, !.op = operation(do)]

KindOf(do) ==
  CASE do \in {"inspect", "connect", "apply"} -> "inspect"
    [] do \in {"magnetic", "scan", "track"} -> do
    [] OTHER -> "write"
Launched(do, d) ==
  [kind |-> KindOf(do), dev |-> d, do |-> do, step |-> "work",
   result |-> "Complete", cancel |-> FALSE, alive |-> TRUE]

-----------------------------------------------------------------------------
(***************************************************************************)
(* The controller's task.                                                  *)
(***************************************************************************)

At(kind, step) == task.alive /\ task.kind = kind /\ task.step = step
Device == task.dev
Goes(step) == task' = [task EXCEPT !.step = step]

\* launch publishes how the work ended, and with it an operation still running.
Outcome(s, result) ==
  [s EXCEPT !.state = result,
            !.op.outcome = IF @ # "Running" \/ result = "Complete" THEN @
                           ELSE IF result = "Stopped" THEN "Cancelled" ELSE "Failed"]
Ends(result) ==
  /\ task' = [task EXCEPT !.step = "ended", !.result = result]
  /\ shared' = Outcome(shared, result)

ScanCompletes == At("scan", "work") /\ ~task.cancel /\ Ends("Complete") /\ UNCHANGED <<calsw, owes>>
InspectCompletes ==
  /\ At("inspect", "work") /\ ~task.cancel
  /\ task' = [task EXCEPT !.step = "ended"]
  /\ shared' = [shared EXCEPT !.state = "Complete", !.desc = calsw[Device],
                              !.op.verified = TRUE, !.op.outcome = "Succeeded"]
  /\ UNCHANGED <<calsw, owes>>

\* Before a write is sent it is announced, and the description is not valid any more.
Announced(s) == [s EXCEPT !.op.attempted = TRUE, !.desc = FALSE]
Owing(command) == IF command = "mag_start" THEN owes \cup {Device} ELSE owes
\* A calibration ends, or one starts, and the register was read back.
Obeyed(command) ==
  IF command \in {"mag_start", "mag_stop"}
    THEN [calsw EXCEPT ![Device] = (command = "mag_start")] ELSE calsw
Paid(command) == IF command = "mag_stop" THEN owes \ {Device} ELSE owes
Verified(s, command) ==
  [s EXCEPT !.op.verified = @ \/ command # "save",
            !.op.outcome = IF command = "save" THEN "Unverified" ELSE "Succeeded"]

WriteAnnounces ==
  /\ At("write", "work") /\ ~task.cancel /\ Goes("announced")
  /\ shared' = Announced(shared) /\ owes' = Owing(task.do) /\ UNCHANGED calsw
WriteVerifies ==
  /\ At("write", "announced") /\ ~task.cancel /\ Goes("done")
  /\ shared' = Verified(shared, task.do)
  /\ calsw' = Obeyed(task.do) /\ owes' = Paid(task.do)
WriteCompletes == At("write", "done") /\ Ends("Complete") /\ UNCHANGED <<calsw, owes>>

\* What a read of CALSW tells the session: its own calibration ended by itself,
\* or another program's goes on.
Saw(m, v) ==
  IF m.calibrating /\ ~v THEN [m EXCEPT !.seven = v, !.owned = FALSE, !.calibrating = FALSE]
  ELSE [m EXCEPT !.seven = v]
Sees == shared.mag.calibrating /\ ~calsw[Device]

SessionOpens ==
  /\ At("magnetic", "work") /\ ~task.cancel /\ Goes("ready")
  /\ shared' = [shared EXCEPT !.state = "Magnetic", !.mag.open = TRUE, !.mag.seven = calsw[Device]]
  /\ UNCHANGED <<calsw, owes>>
\* Once a second; a command is taken first.
SessionReads ==
  /\ At("magnetic", "ready") /\ ~task.cancel /\ shared.chan = "none"
  /\ shared' = [shared EXCEPT !.mag = Saw(@, calsw[Device])]
  /\ owes' = IF Sees THEN owes \ {Device} ELSE owes
  /\ UNCHANGED <<task, calsw>>
\* execute: a start or a save wants an idle device.
SessionExecutes ==
  /\ At("magnetic", "ready") /\ ~task.cancel /\ shared.chan # "none"
  /\ LET c == shared.chan
         read == [shared EXCEPT !.chan = "none", !.mag = Saw(@, calsw[Device])] IN
     IF c # "mag_stop" /\ calsw[Device]
       THEN shared' = [read EXCEPT !.op.outcome = "Failed"] /\ UNCHANGED <<task, owes>>
     ELSE /\ shared' = Announced([read EXCEPT !.mag.owned = @ \/ c = "mag_start",
                                              !.mag.calibrating = FALSE])
          /\ task' = [task EXCEPT !.step = "announced", !.do = c]
          /\ owes' = (IF Sees THEN owes \ {Device} ELSE owes)
                       \cup (IF c = "mag_start" THEN {Device} ELSE {})
  /\ UNCHANGED calsw
SessionVerifies ==
  /\ At("magnetic", "announced") /\ ~task.cancel /\ Goes("ready")
  /\ LET c == task.do IN
     /\ calsw' = Obeyed(c) /\ owes' = Paid(c)
     /\ shared' = LET s == Verified(shared, c) IN
                  IF c = "save" THEN s
                  ELSE [s EXCEPT !.mag.owned = (c = "mag_start"), !.mag.seven = (c = "mag_start"),
                                 !.mag.calibrating = (c = "mag_start")]

\* The work fails or is cancelled; a write under way may still have its effect.
\* A session that owns a calibration ends it before it closes.
MayObey == IF task.step = "announced" THEN {calsw, Obeyed(task.do)} ELSE {calsw}
Breaks(result) ==
  /\ task.alive /\ calsw' \in MayObey
  /\ IF task.kind = "magnetic"
       THEN /\ task.step \in {"work", "ready", "announced"}
            /\ task' = [task EXCEPT !.result = result,
                          !.step = IF shared.mag.owned THEN "cleanup" ELSE "closing"]
            /\ shared' = IF task.step = "announced"
                           THEN [Outcome(shared, result) EXCEPT !.state = shared.state, !.mag.open = FALSE]
                         ELSE [shared EXCEPT !.mag.open = FALSE]
     ELSE task.step \in {"work", "announced"} /\ Ends(result)
  /\ UNCHANGED owes
TaskStops == task.cancel /\ Breaks("Stopped")
TaskFails == Breaks("Failed")

\* The cleanup stops what the session started, within four seconds; cancel does
\* not reach it.
CleansUp ==
  /\ At("magnetic", "cleanup")
  /\ \/ /\ calsw' = Obeyed("mag_stop") /\ owes' = owes \ {Device} /\ Goes("closing")
        /\ shared' = [shared EXCEPT !.mag.owned = FALSE, !.mag.seven = FALSE]
     \/ /\ calsw' \in {calsw, Obeyed("mag_stop")} /\ UNCHANGED <<shared, owes>>
        /\ task' = [task EXCEPT !.step = "closing", !.result = "Failed"]
SessionCloses ==
  /\ At("magnetic", "closing")
  /\ \E result \in {task.result, "Failed"} :
       /\ task' = [task EXCEPT !.step = "ended", !.result = result]
       /\ shared' = [Outcome(shared, result) EXCEPT !.chan = "none", !.mag.error = (result = "Failed")]
  /\ UNCHANGED <<calsw, owes>>

\* The handle finishes after the end is published.
TaskFinishes ==
  /\ task.alive /\ task.step = "ended" /\ task' = NoTask
  /\ UNCHANGED <<shared, calsw, owes>>

TaskWork ==
  \/ ScanCompletes \/ InspectCompletes \/ WriteAnnounces \/ WriteVerifies \/ WriteCompletes
  \/ SessionOpens \/ SessionReads \/ SessionExecutes \/ SessionVerifies
  \/ TaskStops \/ CleansUp \/ SessionCloses \/ TaskFinishes

=============================================================================
