--------------------------- MODULE DeviceCommand ---------------------------
(***************************************************************************)
(* One device operation at a time: a configuration command (execute) or a  *)
(* read-only inspection, on a connection of its own.  A command is a list  *)
(* of steps, each of them an await that may fail, time out or be           *)
(* cancelled: checks that read a register, the unlock, the write itself,   *)
(* and what is read back.  The link keeps the order of what is written to  *)
(* it and may lose any of it; an answer to a request that was repeated may *)
(* come while a later step waits.                                          *)
(***************************************************************************)
EXTENDS Integers, Sequences

CONSTANTS
  MaxCommands,  \* bound of the operations of one run
  MaxLink,      \* bound of requests and answers under way when one is repeated
  MaxCycles,    \* bound of the times the device is switched off
  Initially     \* the registers the device may have at first


\* Register values, as far as the code tells them apart; "old" is any output
\* word of the firmware this program does not know.
Rates == {10, 20, 100}
Supported == {"motion", "quaternion", "full"}
Algorithms == {"nine", "six"}
RegisterValues == [calsw : {0, 1, 4, 7, 8}, rate : Rates,
                   output : Supported \cup {"old"}, algorithm : Algorithms]

\* The device is first met outside a procedure and in a state it accepts.
ASSUME DeviceAssumption ==
  /\ MaxCommands \in Nat \ {0} /\ MaxLink \in Nat \ {0} /\ MaxCycles \in Nat
  /\ Initially \subseteq RegisterValues
  /\ \A v \in Initially : v.calsw = 0 /\ (v.output = "full" => v.rate = 20)

\* The register a command writes and the value it writes there.
Command(n, r, v) == [name |-> n, reg |-> r, val |-> v]
Commands ==
  {Command("rate", "rate", hz) : hz \in Rates}
  \cup {Command("output", "output", f) : f \in Supported}
  \cup {Command("algorithm", "algorithm", a) : a \in Algorithms}
  \cup {Command("accel_calibrate", "calsw", 1), Command("mag_start", "calsw", 7),
        Command("mag_stop", "calsw", 0), Command("zero_yaw", "calsw", 4),
        Command("angle_reference", "calsw", 8), Command("save", "save", 0),
        Command("reset_defaults", "save", 1)}
Inspect == Command("inspect", "none", 0)

VARIABLES
  regs, unlocked,  \* the device,
  saved,           \* and the settings it has after it was switched off
  link, replies,   \* bytes under way to it and from it, in order
  cmd, phase, at,  \* the operation, its connection, and the step it awaits
  cancel,          \* stop was asked for
  ended,           \* how the task ended: its result, once it is closing
  op,              \* operation, as a caller sees it
  desc,            \* descriptor.device
  seen,            \* what the reads of an inspection have returned so far
  epochs,          \* increments of reference_epoch by this operation
  touched,         \* history: registers the device took a write to in this operation
  aged,            \* history: it was switched off since it was last inspected
  cycles, count

device == <<regs, unlocked, saved, touched, aged, cycles>>
task == <<cmd, phase, at, cancel, ended, seen, count>>
vars == <<device, link, replies, task, op, desc, epochs>>

Outcomes == {"Running", "Succeeded", "Unverified", "Failed", "Cancelled"}
NoOperation == [attempted |-> FALSE, sent |-> FALSE, verified |-> FALSE,
                completed |-> FALSE, reference |-> FALSE, outcome |-> "Running"]

-----------------------------------------------------------------------------
(***************************************************************************)
(* The steps of an operation.                                              *)
(***************************************************************************)

\* A read names the first of the eight registers of its answer: the answer to
\* "control" also holds the rate, the one to "options" the algorithm.
Read(do, addr, want) == [do |-> do, addr |-> addr, want |-> want]
Value(addr, values) ==
  CASE addr = "control" -> values.calsw
    [] addr = "options" -> values.algorithm
    [] addr \in {"rate", "output", "algorithm"} -> values[addr]
    [] OTHER -> 0
AddressOf(reg) == IF reg = "calsw" THEN "control" ELSE reg

Pause == [do |-> "pause"]
Unlock == [do |-> "unlock"]
Write(reg, val) == [do |-> "write", reg |-> reg, val |-> val]

\* Faulty variant of Checks: 20 Hz is not verified before the full frame.
ChecksWithoutRate(c) ==
  IF c.name \in {"output", "reset_defaults"} THEN <<Read("expect", "output", Supported)>> ELSE <<>>

Checks(c) ==
  (IF c.name = "output" /\ c.val = "full" THEN <<Read("expect", "rate", {20})>> ELSE <<>>)
  \o (IF c.name = "rate" /\ c.val # 20
        THEN <<Read("expect", "output", {"motion", "quaternion", "old"})>> ELSE <<>>)
  \o (IF c.name \in {"output", "reset_defaults"}
        THEN <<Read("expect", "output", Supported)>> ELSE <<>>)
  \o (IF c.name = "zero_yaw" THEN <<Read("expect", "algorithm", {"six"})>> ELSE <<>>)

Looks == <<Read("look", "control", {}), Read("look", "output", {}),
           Read("look", "options", {}), Read("look", "version", {})>>

\* Faulty variant of ReadBack: the first answer is taken, whatever it says.
ReadBackUnseen(c) ==
  IF c.name \in {"rate", "output", "algorithm", "mag_start", "mag_stop"}
    THEN <<Pause, Read("look", AddressOf(c.reg), {})>> ELSE <<>>
\* What is read back after the write.  A calibration of the accelerometer is
\* asked about until it has ended.
ReadBack(c) ==
  CASE c.name = "angle_reference" -> <<Pause, Write("save", 0)>>
    [] c.name \in {"save", "zero_yaw"} -> <<>>
    [] c.name = "reset_defaults" ->
         <<Pause, Read("confirm", "rate", {10}), Read("confirm", "output", {"motion"}),
           Read("confirm", "algorithm", {"nine"})>> \o Looks
    [] c.name = "accel_calibrate" ->
         <<Read("started", "control", {}), Pause, Read("finished", "control", {})>>
    [] OTHER -> <<Pause, Read("confirm", AddressOf(c.reg), {c.val})>>

Plan(c) ==
  IF c.name = "inspect" THEN Looks \o <<Read("battery", "battery", {})>>
  ELSE Checks(c) \o <<Unlock, Pause, Write(c.reg, c.val)>> \o ReadBack(c)

Reading(s) == s.do \in {"expect", "look", "battery", "confirm", "started", "finished"}

\* Save and angle_reference end with what nobody has read back.
OutcomeOf(c) ==
  IF c.name \in {"save", "zero_yaw", "angle_reference"} THEN "Unverified" ELSE "Succeeded"

\* A rate, an output format and a save leave the reference alone.
MovesReference(c) == c.name \notin {"rate", "output", "save"}

-----------------------------------------------------------------------------
Init ==
  /\ regs \in Initially
  /\ unlocked = FALSE /\ link = <<>> /\ replies = <<>>
  /\ cmd = Inspect /\ phase = "idle" /\ at = 1 /\ cancel = FALSE /\ ended = "None"
  /\ op = [NoOperation EXCEPT !.outcome = "Cancelled"]
  /\ desc = [valid |-> FALSE, values |-> regs] /\ seen = regs
  /\ epochs = 0 /\ touched = {} /\ count = 0
  /\ saved = regs /\ aged = FALSE /\ cycles = 0

\* configure_device and inspect_start: the operation is published before the
\* task runs; an inspection withdraws what is known of the device.
Begin(c) ==
  /\ phase = "idle" /\ count' = count + 1
  /\ cmd' = c /\ phase' = "opening" /\ at' = 1 /\ cancel' = FALSE /\ ended' = "None"
  /\ op' = NoOperation
  /\ desc' = IF c = Inspect THEN [desc EXCEPT !.valid = FALSE] ELSE desc
  /\ seen' = desc.values /\ epochs' = 0 /\ touched' = {}
  /\ UNCHANGED <<regs, unlocked, saved, aged, cycles, link, replies>>

Cancel ==
  /\ phase # "idle" /\ ~cancel /\ cancel' = TRUE
  /\ UNCHANGED <<device, link, replies, cmd, phase, at, ended, seen, count, op, desc, epochs>>

\* The write is announced before it is sent.
Announced(o, s) ==
  IF s.do = "write"
    THEN [o EXCEPT !.attempted = TRUE, !.reference = @ \/ MovesReference(cmd)] ELSE o
Sends(s) ==
  IF Reading(s) THEN Append(link, [do |-> "read", addr |-> s.addr])
  ELSE IF s.do = "pause" THEN link ELSE Append(link, s)

\* invalidate_reference counts one epoch for one operation.
Bump(o, s) == IF Announced(o, s).reference /\ ~o.reference THEN epochs + 1 ELSE epochs

\* Step k begins, with the operation o that the step before it left; from the
\* announcement on the registers are not known any more.
Enter(k, o) ==
  LET s == Plan(cmd)[k] IN
  /\ at' = k /\ phase' = "running"
  /\ link' = Sends(s)
  /\ op' = Announced(o, s)
  /\ epochs' = Bump(o, s)
  /\ desc' = IF s.do = "write" THEN [desc EXCEPT !.valid = FALSE] ELSE desc
  /\ UNCHANGED ended

\* The work returns.  The outcome of a command that returned Ok is published at
\* once; an error after the announcement leaves the reference uncertain.
Finish(result, o) ==
  /\ phase' = "closing" /\ ended' = result
  /\ op' = IF result \in {"Succeeded", "Unverified"} /\ cmd # Inspect
             THEN [o EXCEPT !.outcome = result]
           ELSE IF o.attempted THEN [o EXCEPT !.reference = TRUE] ELSE o
  /\ epochs' = IF op'.reference /\ ~o.reference THEN epochs + 1 ELSE epochs
  /\ desc' = IF result = "Succeeded" /\ cmd.name = "reset_defaults"
               THEN [valid |-> TRUE, values |-> seen'] ELSE desc
  /\ UNCHANGED <<at, link>>

\* The connection opens; a cancellation is looked at first.
Opens ==
  /\ phase = "opening" /\ ~cancel /\ Enter(1, op)
  /\ aged' = (aged /\ cmd # Inspect)
  /\ UNCHANGED <<regs, unlocked, saved, touched, cycles, replies, cmd, cancel, seen, count>>

\* It does not open, or is cancelled: there is nothing to close.
OpenFails ==
  /\ phase = "opening"
  /\ \E e \in {"Failed"} \cup (IF cancel THEN {"Cancelled"} ELSE {}) :
       ended' = e /\ op' = [op EXCEPT !.outcome = e]
  /\ phase' = "idle" /\ cancel' = FALSE
  /\ UNCHANGED <<device, link, replies, cmd, at, seen, count, desc, epochs>>

Step == Plan(cmd)[at]

\* What the end of a step says of the operation.
After(o, s) ==
  CASE s.do = "write" -> [o EXCEPT !.sent = TRUE]
    [] s.do = "started" -> [o EXCEPT !.verified = TRUE]
    [] s.do = "finished" -> [o EXCEPT !.completed = TRUE]
    [] s.do \notin {"write", "started", "finished"} /\ at = Len(Plan(cmd)) /\ cmd # Inspect
         /\ OutcomeOf(cmd) = "Succeeded" ->
         [o EXCEPT !.verified = TRUE, !.completed = cmd.name = "mag_stop"]
    [] OTHER -> o

Proceed ==
  IF at = Len(Plan(cmd)) THEN Finish(OutcomeOf(cmd), After(op, Step))
  ELSE IF cancel THEN Finish("Cancelled", After(op, Step))
  ELSE Enter(at + 1, After(op, Step))

\* Faulty variant of StepFails: only a single await is bounded, a calibration
\* that goes on is asked about for ever.
StepFailsAlone ==
  /\ phase = "running" /\ UNCHANGED seen
  /\ \/ cancel /\ Finish("Cancelled", op)
     \/ Step.do \notin {"battery", "pause", "finished"} /\ Finish("Failed", op)
     \/ Step.do = "battery" /\ Finish("Succeeded", op)
  /\ UNCHANGED <<device, replies, cmd, cancel, count>>

\* An unlock, a write or a pause comes to its end; a write may be accepted long
\* before the device takes it.
StepReturns ==
  /\ phase = "running" /\ ~Reading(Step) /\ UNCHANGED seen
  /\ Proceed
  /\ UNCHANGED <<device, replies, cmd, cancel, count>>

\* Any await may fail, time out, or see the cancellation.  The battery of an
\* inspection may not answer; only a cancellation there ends the inspection.
StepFails ==
  /\ phase = "running" /\ UNCHANGED seen
  /\ \/ cancel /\ Finish("Cancelled", op)
     \/ Step.do # "battery" /\ Step.do # "pause" /\ Finish("Failed", op)
     \/ Step.do = "battery" /\ Finish("Succeeded", op)
     \/ Step = Pause /\ cmd.name = "accel_calibrate" /\ op.verified /\ Finish("Failed", op)
  /\ UNCHANGED <<device, replies, cmd, cancel, count>>

\* A read is repeated after a quarter of a second.
Repeats ==
  /\ phase = "running" /\ Reading(Step) /\ Len(link) + Len(replies) < MaxLink
  /\ link' = Append(link, [do |-> "read", addr |-> Step.addr])
  /\ UNCHANGED <<device, replies, task, op, desc, epochs>>

\* Faulty variant of Kept: the output word is taken from the last inspection.
KeptWithoutOutput(s, values) ==
  IF s.do # "look" THEN seen ELSE
  CASE s.addr = "control" -> [seen EXCEPT !.calsw = values.calsw, !.rate = values.rate]
    [] s.addr = "options" -> [seen EXCEPT !.algorithm = values.algorithm]
    [] OTHER -> seen
\* What an inspection keeps of an answer.
Kept(s, values) ==
  IF s.do # "look" THEN seen ELSE
  CASE s.addr = "control" -> [seen EXCEPT !.calsw = values.calsw, !.rate = values.rate]
    [] s.addr = "output" -> [seen EXCEPT !.output = values.output]
    [] s.addr = "options" -> [seen EXCEPT !.algorithm = values.algorithm]
    [] OTHER -> seen

DefaultsHold(values) ==
  values.rate = 10 /\ values.output = "motion" /\ values.algorithm = "nine"

\* An answer arrives: one to another register, or another value than the one
\* asked for, is passed over.
Receives ==
  /\ phase = "running" /\ Reading(Step) /\ replies # <<>>
  /\ LET r == Head(replies)
         v == Value(r.addr, r.values) IN
     IF r.addr # Step.addr \/ (Step.do = "confirm" /\ v \notin Step.want)
       THEN UNCHANGED <<link, at, phase, ended, op, desc, epochs, seen>>
     ELSE /\ seen' = Kept(Step, r.values)
          /\ IF Step.do = "expect" /\ v \notin Step.want THEN Finish("Failed", op)
             ELSE IF Step.do = "started" /\ v # 1 THEN Finish("Unverified", op)
             ELSE IF Step.do = "finished" /\ v # 0
               THEN IF cancel THEN Finish("Cancelled", op) ELSE Enter(at - 1, op)
             ELSE IF cmd.name = "reset_defaults" /\ at = Len(Plan(cmd)) /\ ~DefaultsHold(seen')
               THEN Finish("Failed", op)
             ELSE Proceed
  /\ replies' = Tail(replies)
  /\ UNCHANGED <<device, cmd, cancel, count>>

\* The connection is closed whatever happened; then the task ends.  An
\* inspection publishes what it read only now.
Closes ==
  /\ phase = "closing" /\ phase' = "idle"
  /\ link' = <<>> /\ replies' = <<>>
  /\ op' = IF cmd = Inspect /\ ended = "Succeeded"
             THEN [op EXCEPT !.verified = TRUE, !.outcome = "Succeeded"]
           ELSE IF op.outcome = "Running" THEN [op EXCEPT !.outcome = ended] ELSE op
  /\ desc' = IF cmd = Inspect /\ ended = "Succeeded"
               THEN [valid |-> TRUE, values |-> seen] ELSE desc
  /\ at' = 1 /\ cancel' = FALSE /\ seen' = desc'.values
  /\ UNCHANGED <<device, cmd, ended, count, epochs>>

-----------------------------------------------------------------------------
(***************************************************************************)
(* The device and the link.                                                *)
(***************************************************************************)

Taken(w) ==
  CASE w.reg = "save" /\ w.val = 1 ->
         [regs EXCEPT !.rate = 10, !.output = "motion", !.algorithm = "nine"]
    [] w.reg = "save" /\ w.val # 1 -> regs
    [] OTHER -> [regs EXCEPT ![w.reg] = w.val]

\* The device takes the next request; a locked one ignores a write.
Takes ==
  /\ link # <<>> /\ link' = Tail(link)
  /\ LET m == Head(link) IN
     /\ unlocked' = (unlocked \/ m.do = "unlock")
     /\ regs' = IF m.do = "write" /\ unlocked THEN Taken(m) ELSE regs
     /\ touched' = IF m.do = "write" /\ unlocked THEN touched \cup {m.reg} ELSE touched
     /\ saved' = IF m.do = "write" /\ unlocked /\ m.reg = "save" THEN Taken(m) ELSE saved
     /\ replies' = IF m.do = "read" THEN Append(replies, [addr |-> m.addr, values |-> regs])
                   ELSE replies
  /\ UNCHANGED <<task, op, desc, epochs, aged, cycles>>

Loses ==
  /\ \/ link # <<>> /\ link' = Tail(link) /\ UNCHANGED replies
     \/ replies # <<>> /\ replies' = Tail(replies) /\ UNCHANGED link
  /\ UNCHANGED <<device, task, op, desc, epochs>>

\* A calibration of the accelerometer and the two settings of the angles end
\* by themselves.
Settles ==
  /\ regs.calsw \in {1, 4, 8} /\ regs' = [regs EXCEPT !.calsw = 0]
  /\ UNCHANGED <<unlocked, saved, touched, aged, cycles, link, replies, task, op, desc, epochs>>

\* While nobody is connected the device is switched off and on: what was not
\* saved is gone.
PowerCycle ==
  /\ phase = "opening" /\ cycles < MaxCycles /\ cycles' = cycles + 1
  /\ regs' = [saved EXCEPT !.calsw = 0] /\ unlocked' = FALSE /\ aged' = TRUE
  /\ UNCHANGED <<saved, touched, link, replies, task, op, desc, epochs>>

Work == Opens \/ OpenFails \/ StepReturns \/ Receives \/ Closes
Environment == Takes \/ Loses \/ Settles \/ PowerCycle

Next ==
  \/ count < MaxCommands /\ \E c \in Commands \cup {Inspect} : Begin(c)
  \/ Cancel \/ Work \/ StepFails \/ Repeats \/ Environment

Spec == Init /\ [][Next]_vars

-----------------------------------------------------------------------------
(***************************************************************************)
(* Properties.                                                             *)
(***************************************************************************)

TypeOK ==
  /\ regs \in RegisterValues /\ saved \in RegisterValues
  /\ unlocked \in BOOLEAN /\ aged \in BOOLEAN /\ cycles \in 0 .. MaxCycles
  /\ cmd \in Commands \cup {Inspect}
  /\ phase \in {"idle", "opening", "running", "closing"} /\ at \in 1 .. Len(Plan(cmd))
  /\ cancel \in BOOLEAN /\ ended \in Outcomes \cup {"None"}
  /\ op.outcome \in Outcomes
  /\ desc \in [valid : BOOLEAN, values : RegisterValues] /\ seen \in RegisterValues
  /\ epochs \in 0 .. 2 /\ count \in Nat

\* Whatever has reached the device was announced before, so that an operation
\* that says it attempted no write has changed nothing, however it ended; and
\* one that succeeded is what the device is set to, in spite of late answers
\* and lost writes.
OperationIsHonest ==
  /\ touched # {} => op.attempted
  /\ op.outcome = "Succeeded" =>
       CASE cmd.name = "inspect" -> TRUE
         [] cmd.name = "reset_defaults" -> DefaultsHold(regs)
         [] cmd.name = "accel_calibrate" -> regs.calsw = 0
         [] OTHER -> regs[cmd.reg] = cmd.val

\* Full inertial frames need 20 Hz: no order of commands, failures and
\* cancellations leaves the device with another rate.
FullFrameKeepsRate == regs.output = "full" => regs.rate = 20

\* A description that is called valid is the device's, unless the device was
\* switched off since.
ValidIsCurrent ==
  desc.valid /\ ~aged =>
    /\ desc.values.rate = regs.rate
    /\ desc.values.output = regs.output
    /\ desc.values.algorithm = regs.algorithm

\* A write that may have moved the reference is counted before it reaches the
\* device, and once, however many writes and errors the operation has.
ReferenceCountedOnce ==
  /\ epochs <= 1
  /\ touched # {} /\ MovesReference(cmd) => epochs = 1

=============================================================================
