-------------------------- MODULE MagneticSession --------------------------
(***************************************************************************)
(* One exclusive magnetic session: the controller calls that reach it      *)
(* (configure_device inside the session, stop), the worker of magnetic.rs  *)
(* (open, monitor, execute, cleanup, close), the epilogue of launch, and   *)
(* the device behind a link that may lose or delay what it carries.        *)
(*                                                                         *)
(* CALSW is 0 (idle), 1 (an accelerometer calibration) or 7 (a magnetic    *)
(* calibration).  Another program may change it at any time.  A read       *)
(* register reply answers whoever waits for that register: the protocol    *)
(* has no correlation, and control reads are repeated every 250 ms.        *)
(***************************************************************************)
EXTENDS Integers, Sequences

CONSTANTS
  MaxCommands,   \* bound of the commands accepted by the session
  MaxExternal,   \* bound of the changes another program makes to CALSW
  MaxInFlight,   \* a read is repeated while fewer messages than this are on the link
  Slow,          \* may an answer take longer than the delays and retries?
  IgnoredWrites  \* may the device ignore a command write?

ASSUME ConstantsAssumption ==
  /\ MaxCommands \in Nat /\ MaxExternal \in Nat
  /\ MaxInFlight \in Nat \ {0}
  /\ Slow \in BOOLEAN /\ IgnoredWrites \in BOOLEAN

Commands == {"start", "stop", "save"}
Unknown == -1
Switch == {0, 1, 7}
Outcomes == {"None", "Running", "Succeeded", "Failed", "Cancelled", "Unverified"}
Phases == {"Opening", "Monitoring", "ExternalCalibration", "Starting",
           "Calibrating", "Stopping", "Calibrated", "Saving", "Closed", "Failed"}

VARIABLES
  mag,       \* magnetic::State, what magnetic_since reports
  op,        \* Shared.operation: the command and its outcome
  cleanup,   \* the outcome of State.cleanup
  queue,     \* the command channel, of capacity 1
  cancel,    \* the watch channel; stop drops the sender of `queue` with it
  caller,    \* the control thread: "open", "stopping", or what stop returned
  pc,        \* where the worker is
  exec,      \* the command being executed and the phase it found
  failure,   \* the result the worker is about to return
  requests,  \* host to device
  replies,   \* device to host
  device,    \* CALSW, and whether our start put it there (history)
  external,  \* history: changes by the other program
  accepted,  \* history: commands accepted by configure_device
  written    \* history: command writes handed to the link

hostVars == <<mag, op, cleanup, exec, failure>>
callerVars == <<cancel, caller, accepted>>
link == <<requests, replies>>
world == <<device, external>>
vars == <<hostVars, queue, callerVars, pc, link, world, written>>

\* States in which the worker reads from the connection, and the register a
\* read_register waits for.
Expects == [first |-> "calsw", firstmag |-> "mag", pollcalsw |-> "calsw",
            pollmag |-> "mag", pre |-> "calsw", premag |-> "mag",
            verify |-> "calsw"]
Reading == DOMAIN Expects
Executing == {"pre", "premag", "unlock", "write", "settle", "verify"}
Listening == Reading \cup {"idle", "unlock", "settle"}
Target(command) == IF command = "start" THEN 7 ELSE 0

TypeOK ==
  /\ mag \in [phase : Phases, running : BOOLEAN, owned : BOOLEAN,
              calsw : Switch \cup {Unknown}, records : BOOLEAN,
              frozen : BOOLEAN, error : BOOLEAN]
  /\ op \in [command : Commands, outcome : Outcomes]
  /\ cleanup \in Outcomes
  /\ queue \in Seq(Commands) /\ Len(queue) <= 1
  /\ cancel \in BOOLEAN
  /\ caller \in {"open", "stopping", "Ok", "Io", "Timeout"}
  /\ pc \in Listening \cup {"open", "type", "write", "leave", "finish", "close",
                            "ended", "finished", "aborted"}
  /\ exec \in [command : Commands, previous : Phases, cleaning : BOOLEAN,
               turn : Nat, checked : Nat]
  /\ failure \in {"None", "Cancelled", "Error"}
  /\ requests \in Seq([kind : {"calsw", "mag"} \cup Commands, turn : Nat])
  /\ replies \in Seq([register : {"calsw", "mag"}, value : Switch, turn : Nat])
  /\ device \in [calsw : Switch, ours : BOOLEAN]
  /\ external \in 0 .. MaxExternal
  /\ accepted \in [Commands -> 0 .. MaxCommands]
  /\ written \in [Commands -> Nat]

Init ==
  /\ mag = [phase |-> "Opening", running |-> TRUE, owned |-> FALSE,
            calsw |-> Unknown, records |-> FALSE, frozen |-> FALSE,
            error |-> FALSE]
  /\ op = [command |-> "start", outcome |-> "None"] /\ cleanup = "None"
  /\ queue = <<>> /\ cancel = FALSE /\ caller = "open"
  /\ pc = "open" /\ failure = "None"
  /\ exec = [command |-> "start", previous |-> "Opening", cleaning |-> FALSE,
             turn |-> 0, checked |-> 0]
  /\ requests = <<>> /\ replies = <<>>
  /\ \E v \in Switch : device = [calsw |-> v, ours |-> FALSE]
  /\ external = 0
  /\ accepted = [c \in Commands |-> 0] /\ written = [c \in Commands |-> 0]

-----------------------------------------------------------------------------
(***************************************************************************)
(* What every received batch does to the state, whoever waits for it.      *)
(***************************************************************************)

ObserveCalsw(m, v) ==
  LET seen == [m EXCEPT !.calsw = v] IN
  IF v = 7 /\ m.phase \in {"Monitoring", "ExternalCalibration", "Calibrated"}
    THEN [seen EXCEPT !.phase = "ExternalCalibration"]
  ELSE IF v = 0 /\ m.phase = "ExternalCalibration"
    THEN [seen EXCEPT !.phase = "Monitoring"]
  ELSE IF v = 0 /\ m.phase = "Calibrating"
    THEN [seen EXCEPT !.phase = "Calibrated", !.owned = FALSE, !.frozen = TRUE]
  ELSE seen

Observe(m, reply) ==
  IF reply.register = "calsw" THEN ObserveCalsw(m, reply.value)
  ELSE [m EXCEPT !.records = TRUE]

\* A receive takes the k first replies in one batch and observes them all
\* before the waiting read looks at any of them.
Observed(k) ==
  LET after[i \in 0 .. k] == IF i = 0 THEN mag ELSE Observe(after[i - 1], replies[i])
  IN  after[k]
Answers(reply) ==
  /\ pc \in Reading /\ reply.register = Expects[pc]
  /\ pc = "verify" => reply.value = Target(exec.command)
Batches == 1 .. Len(replies)

Finish(m, failed) ==
  [m EXCEPT !.running = FALSE, !.frozen = TRUE, !.error = failed,
            !.phase = IF failed THEN "Failed" ELSE "Closed"]

CanAccept == accepted["start"] + accepted["stop"] + accepted["save"] < MaxCommands
Quiet == requests = <<>> /\ replies = <<>>
Send(kind, turn) == requests' = Append(requests, [kind |-> kind, turn |-> turn])

-----------------------------------------------------------------------------
(***************************************************************************)
(* The control thread.                                                     *)
(***************************************************************************)

Ready == mag.running /\ mag.records /\ mag.phase \notin {"Opening", "Closed", "Failed"}

\* configure_device inside the session: admission, queueing and the new
\* operation are one critical section.
Submit(command) ==
  /\ caller = "open" /\ pc \notin {"finished", "aborted"}
  /\ Ready /\ op.outcome # "Running" /\ queue = <<>>
  /\ CanAccept
  /\ queue' = <<command>>
  /\ op' = [command |-> command, outcome |-> "Running"]
  /\ accepted' = [accepted EXCEPT ![command] = @ + 1]
  /\ UNCHANGED <<mag, cleanup, exec, failure, cancel, caller, pc, link, world, written>>

\* stop drops the command sender and cancels.
StopBegins ==
  /\ caller = "open"
  /\ caller' = "stopping" /\ cancel' = TRUE
  /\ UNCHANGED <<hostVars, queue, accepted, pc, link, world, written>>

StopReturns ==
  /\ caller = "stopping" /\ pc = "finished"
  /\ caller' = IF mag.error THEN "Io" ELSE "Ok"
  /\ UNCHANGED <<hostVars, queue, cancel, accepted, pc, link, world, written>>

\* The worker did not end within five seconds: it is aborted.
StopTimesOut ==
  /\ caller = "stopping" /\ pc # "finished"
  /\ pc' = "aborted"
  /\ mag' = Finish(mag, TRUE)
  /\ caller' = "Timeout"
  /\ UNCHANGED <<op, cleanup, exec, failure, queue, cancel, accepted, link, world, written>>

-----------------------------------------------------------------------------
(***************************************************************************)
(* The worker: opening and monitoring.                                     *)
(***************************************************************************)

workerKeeps == <<callerVars, world>>

\* Faulty variant of Fail: a failed cleanup does not change the result.
FailKeepingResult(kind) ==
  /\ op' = IF pc \in Executing /\ ~exec.cleaning
             THEN [op EXCEPT !.outcome = IF kind = "Cancelled" THEN "Cancelled" ELSE "Failed"]
             ELSE op
  /\ cleanup' = IF exec.cleaning THEN "Failed" ELSE cleanup
  /\ failure' = IF exec.cleaning THEN failure ELSE kind
  /\ pc' = IF exec.cleaning THEN "finish" ELSE "leave"

\* Leave the monitor, or the cleanup, with an error.
Fail(kind) ==
  /\ op' = IF pc \in Executing /\ ~exec.cleaning
             THEN [op EXCEPT !.outcome = IF kind = "Cancelled" THEN "Cancelled" ELSE "Failed"]
             ELSE op
  /\ cleanup' = IF exec.cleaning THEN "Failed" ELSE cleanup
  /\ failure' = IF exec.cleaning THEN "Error" ELSE kind
  /\ pc' = IF exec.cleaning THEN "finish" ELSE "leave"

\* Connection::open succeeded, failed, or was cancelled.
Open ==
  /\ pc = "open"
  /\ \/ pc' = "type" /\ UNCHANGED <<mag, failure>>
     \/ /\ failure' \in {"Error"} \cup (IF cancel THEN {"Cancelled"} ELSE {})
        /\ mag' = Finish(mag, failure' = "Error")
        /\ pc' = "ended"
  /\ UNCHANGED <<op, cleanup, exec, queue, link, written, workerKeeps>>

\* The sensor type was read or not; only its units depend on it.
SensorType ==
  /\ pc = "type"
  /\ Send("calsw", exec.turn)
  /\ pc' = "first"
  /\ UNCHANGED <<hostVars, queue, replies, written, workerKeeps>>

\* A batch arrives that answers nobody.
Hear ==
  /\ pc \in Listening
  /\ \E k \in Batches :
       /\ \A i \in 1 .. k : ~Answers(replies[i])
       /\ mag' = Observed(k)
       /\ replies' = SubSeq(replies, k + 1, Len(replies))
  /\ UNCHANGED <<op, cleanup, exec, failure, queue, pc, requests, written, workerKeeps>>

\* The first k replies arrive, and the i-th is the answer the worker waits for
\* at `here`.
Heard(here, k, i) ==
  /\ pc = here /\ i <= k
  /\ Answers(replies[i]) /\ \A j \in 1 .. i - 1 : ~Answers(replies[j])
  /\ replies' = SubSeq(replies, k + 1, Len(replies))

FirstCalsw ==
  /\ \E k \in Batches, i \in Batches :
       /\ Heard("first", k, i)
       /\ mag' = [Observed(k) EXCEPT
                    !.phase = IF replies[i].value = 7 THEN "ExternalCalibration" ELSE "Monitoring"]
  /\ Send("mag", exec.turn)
  /\ pc' = "firstmag"
  /\ UNCHANGED <<op, cleanup, exec, failure, queue, written, workerKeeps>>

\* The first magnetic read and every later poll end in the select of monitor.
Polled ==
  /\ \E k \in Batches, i \in Batches, here \in {"firstmag", "pollmag", "pollcalsw"} :
       Heard(here, k, i) /\ mag' = Observed(k)
  /\ pc' = "idle"
  /\ UNCHANGED <<op, cleanup, exec, failure, queue, requests, written, workerKeeps>>

\* The select is biased: cancellation, then a command, then the timers.
Poll ==
  /\ pc = "idle" /\ ~cancel /\ queue = <<>>
  /\ \E here \in {"pollmag", "pollcalsw"} :
       pc' = here /\ Send(Expects[here], exec.turn)
  /\ UNCHANGED <<hostVars, queue, replies, written, workerKeeps>>

\* Faulty variant of Retry: an unconfirmed write is repeated with its readback.
RetryWithWrite ==
  /\ pc \in Reading /\ Expects[pc] = "calsw"
  /\ Len(requests) + Len(replies) < MaxInFlight /\ (Slow \/ Quiet)
  /\ IF pc = "verify" THEN pc' = "write" /\ UNCHANGED requests
     ELSE Send("calsw", exec.turn) /\ UNCHANGED pc
  /\ UNCHANGED <<hostVars, queue, replies, written, workerKeeps>>

\* Only control reads are repeated.
Retry ==
  /\ pc \in Reading /\ Expects[pc] = "calsw"
  /\ Len(requests) + Len(replies) < MaxInFlight /\ (Slow \/ Quiet)
  /\ Send("calsw", exec.turn)
  /\ UNCHANGED <<hostVars, queue, pc, replies, written, workerKeeps>>

\* A read missed its deadline of three seconds, or cleanup its four.
TimesOut ==
  /\ \/ pc \in Reading
     \/ pc \in Listening \cup {"write"} /\ exec.cleaning
  /\ Fail("Error")
  /\ UNCHANGED <<mag, exec, queue, link, written, workerKeeps>>

\* The connection reports an error.
IoFails ==
  /\ pc \in Listening /\ Fail("Error")
  /\ UNCHANGED <<mag, exec, queue, link, written, workerKeeps>>

\* Faulty variant of CancelNoticed: the select of monitor does not watch it.
CancelNoticedInReads ==
  /\ cancel /\ pc \in Reading \cup {"type"} /\ ~exec.cleaning
  /\ Fail("Cancelled")
  /\ UNCHANGED <<mag, exec, queue, link, written, workerKeeps>>

\* Cleanup runs with a cancellation channel of its own.
CancelNoticed ==
  /\ cancel /\ pc \in Listening \cup {"type"} /\ ~exec.cleaning
  /\ Fail("Cancelled")
  /\ UNCHANGED <<mag, exec, queue, link, written, workerKeeps>>

-----------------------------------------------------------------------------
(***************************************************************************)
(* The worker: execute.                                                    *)
(***************************************************************************)

\* monitor takes a command from the channel.
Begin ==
  /\ pc = "idle" /\ ~cancel /\ queue # <<>>
  /\ queue' = <<>>
  /\ exec' = [command |-> Head(queue), previous |-> mag.phase,
              cleaning |-> FALSE, turn |-> exec.turn + 1, checked |-> 0]
  /\ Send("calsw", exec.turn + 1)
  /\ pc' = "pre"
  /\ UNCHANGED <<mag, op, cleanup, failure, replies, written, workerKeeps>>

Permitted(command, calsw) ==
  IF command = "stop" THEN calsw \in {0, 7} ELSE calsw = 0

\* The check of CALSW refuses the command: the session goes on.
Refused ==
  /\ \E k \in Batches, i \in Batches :
       /\ Heard("pre", k, i) /\ ~Permitted(exec.command, replies[i].value)
       /\ mag' = Observed(k)
  /\ IF exec.cleaning
       THEN /\ cleanup' = "Failed" /\ failure' = "Error" /\ pc' = "finish"
            /\ UNCHANGED op
       ELSE /\ op' = [op EXCEPT !.outcome = "Failed"] /\ pc' = "idle"
            /\ UNCHANGED <<cleanup, failure>>
  /\ UNCHANGED <<exec, queue, requests, written, workerKeeps>>

\* The check permits it: a start first proves the magnetic path.
Checked ==
  /\ \E k \in Batches, i \in Batches :
       /\ Heard("pre", k, i) /\ Permitted(exec.command, replies[i].value)
       /\ exec' = [exec EXCEPT !.checked = replies[i].turn]
       /\ IF exec.command = "start"
            THEN /\ mag' = Observed(k)
                 /\ Send("mag", exec.turn) /\ pc' = "premag"
            ELSE /\ mag' = [Observed(k) EXCEPT
                              !.phase = IF exec.command = "stop" THEN "Stopping" ELSE "Saving"]
                 /\ pc' = "unlock" /\ UNCHANGED requests
  /\ UNCHANGED <<op, cleanup, failure, queue, written, workerKeeps>>

PathProven ==
  /\ \E k \in Batches, i \in Batches :
       Heard("premag", k, i) /\ mag' = [Observed(k) EXCEPT !.phase = "Starting"]
  /\ pc' = "unlock"
  /\ UNCHANGED <<op, cleanup, exec, failure, queue, requests, written, workerKeeps>>

\* Faulty variant of Unlocked: a start is owned only once it is confirmed.
UnlockedUnowned ==
  /\ pc = "unlock" /\ (Slow \/ Quiet)
  /\ pc' = "write"
  /\ UNCHANGED <<hostVars, queue, link, written, workerKeeps>>

\* UNLOCK and its delay are over: a start is owned before it is written.
Unlocked ==
  /\ pc = "unlock" /\ (Slow \/ Quiet)
  /\ mag' = [mag EXCEPT !.owned = @ \/ exec.command = "start"]
  /\ pc' = "write"
  /\ UNCHANGED <<op, cleanup, exec, failure, queue, link, written, workerKeeps>>

Write ==
  /\ pc = "write"
  /\ Send(exec.command, exec.turn)
  /\ written' = [written EXCEPT ![exec.command] = @ + 1]
  /\ IF exec.command = "save"
       THEN /\ mag' = [mag EXCEPT !.phase = exec.previous]
            /\ op' = [op EXCEPT !.outcome = "Unverified"]
            /\ pc' = "idle"
       ELSE pc' = "settle" /\ UNCHANGED <<mag, op>>
  /\ UNCHANGED <<cleanup, exec, failure, queue, replies, workerKeeps>>

\* The write fails or is cancelled: it may have reached the device or not.
WriteFails ==
  /\ pc = "write"
  /\ \/ Fail("Error")
     \/ cancel /\ ~exec.cleaning /\ Fail("Cancelled")
  /\ \/ UNCHANGED <<requests, written>>
     \/ /\ Send(exec.command, exec.turn)
        /\ written' = [written EXCEPT ![exec.command] = @ + 1]
  /\ UNCHANGED <<mag, exec, queue, replies, workerKeeps>>

Settled ==
  /\ pc = "settle" /\ (Slow \/ Quiet)
  /\ Send("calsw", exec.turn)
  /\ pc' = "verify"
  /\ UNCHANGED <<hostVars, queue, replies, written, workerKeeps>>

Verified ==
  /\ \E k \in Batches, i \in Batches :
       /\ Heard("verify", k, i)
       /\ mag' = IF exec.command = "start"
                   THEN [Observed(k) EXCEPT !.phase = "Calibrating", !.frozen = FALSE]
                   ELSE [Observed(k) EXCEPT !.phase = "Calibrated", !.frozen = TRUE,
                                            !.owned = FALSE]
  /\ IF exec.cleaning
       THEN cleanup' = "Succeeded" /\ pc' = "finish" /\ UNCHANGED op
       ELSE op' = [op EXCEPT !.outcome = "Succeeded"] /\ pc' = "idle" /\ UNCHANGED cleanup
  /\ UNCHANGED <<exec, failure, queue, requests, written, workerKeeps>>

-----------------------------------------------------------------------------
(***************************************************************************)
(* The worker: cleanup, close and the epilogue of launch.                  *)
(***************************************************************************)

\* A session that attempted a start ends it before it closes.
Leave ==
  /\ pc = "leave"
  /\ mag' = [mag EXCEPT !.running = FALSE]
  /\ IF mag.owned
       THEN /\ exec' = [command |-> "stop", previous |-> mag.phase,
                        cleaning |-> TRUE, turn |-> exec.turn + 1, checked |-> 0]
            /\ cleanup' = "Running"
            /\ Send("calsw", exec.turn + 1) /\ pc' = "pre"
       ELSE pc' = "finish" /\ UNCHANGED <<exec, cleanup, requests>>
  /\ UNCHANGED <<op, failure, queue, replies, written, workerKeeps>>

FinishSession ==
  /\ pc = "finish"
  /\ mag' = Finish(mag, failure = "Error")
  /\ pc' = "close"
  /\ UNCHANGED <<op, cleanup, exec, failure, queue, link, written, workerKeeps>>

Close ==
  /\ pc = "close" /\ pc' = "ended"
  /\ \/ UNCHANGED <<mag, failure>>
     \/ failure' = "Error" /\ mag' = Finish(mag, TRUE)
  /\ UNCHANGED <<op, cleanup, exec, queue, link, written, workerKeeps>>

\* Faulty variant of Epilogue: it leaves an outcome open.
EpilogueForgets ==
  /\ pc = "ended" /\ pc' = "finished"
  /\ queue' = <<>>
  /\ UNCHANGED <<hostVars, link, written, workerKeeps>>

\* The epilogue settles an operation nobody finished, one still queued included.
Epilogue ==
  /\ pc = "ended" /\ pc' = "finished"
  /\ queue' = <<>>
  /\ op' = IF op.outcome = "Running"
             THEN [op EXCEPT !.outcome = IF failure = "Cancelled" THEN "Cancelled" ELSE "Failed"]
             ELSE op
  /\ UNCHANGED <<mag, cleanup, exec, failure, link, written, workerKeeps>>

-----------------------------------------------------------------------------
(***************************************************************************)
(* The device, the link and the other program (external to the source).    *)
(***************************************************************************)

deviceKeeps == <<hostVars, queue, callerVars, pc, written>>

Serve ==
  /\ requests # <<>>
  /\ requests' = Tail(requests)
  /\ LET request == Head(requests) IN
     CASE request.kind = "start" ->
            device' = [calsw |-> 7, ours |-> TRUE] /\ UNCHANGED replies
       [] request.kind = "stop" ->
            device' = [calsw |-> 0, ours |-> FALSE] /\ UNCHANGED replies
       [] request.kind = "save" -> UNCHANGED <<device, replies>>
       [] OTHER ->
            /\ replies' = Append(replies, [register |-> request.kind,
                             value |-> device.calsw, turn |-> request.turn])
            /\ UNCHANGED device
  /\ UNCHANGED <<external, deviceKeeps>>

\* A request or a reply is damaged on its way; a write may be ignored.
LoseRequest ==
  /\ requests # <<>> /\ (IgnoredWrites \/ Head(requests).kind \in {"calsw", "mag"})
  /\ requests' = Tail(requests)
  /\ UNCHANGED <<replies, world, deviceKeeps>>
LoseReply ==
  /\ replies # <<>>
  /\ replies' = Tail(replies)
  /\ UNCHANGED <<requests, world, deviceKeeps>>

OtherProgram ==
  /\ external < MaxExternal
  /\ external' = external + 1
  /\ \E v \in Switch \ {device.calsw} : device' = [calsw |-> v, ours |-> FALSE]
  /\ UNCHANGED <<link, deviceKeeps>>

Caller == (\E c \in Commands : Submit(c)) \/ StopBegins \/ StopReturns \/ StopTimesOut
Monitor == Open \/ SensorType \/ Hear \/ FirstCalsw \/ Polled \/ Poll \/ Retry
             \/ TimesOut \/ IoFails \/ CancelNoticed
Execute == Begin \/ Refused \/ Checked \/ PathProven \/ Unlocked \/ Write
             \/ WriteFails \/ Settled \/ Verified
Ending == Leave \/ FinishSession \/ Close \/ Epilogue
Device == Serve \/ LoseRequest \/ LoseReply \/ OtherProgram

Next == Caller \/ Monitor \/ Execute \/ Ending \/ Device
Spec == Init /\ [][Next]_vars

\* The worker is scheduled: it notices what is ready, its deadlines expire,
\* and opening, writing and closing are bounded by timeouts of their own.
\* Nothing is assumed of the device, the link, or the caller.
FairSpec ==
  /\ Spec
  /\ WF_vars(Open) /\ WF_vars(SensorType) /\ WF_vars(Begin)
  /\ WF_vars(TimesOut) /\ WF_vars(CancelNoticed)
  /\ WF_vars(Unlocked) /\ WF_vars(Write) /\ WF_vars(Settled)
  /\ WF_vars(Ending) /\ WF_vars(StopReturns)

-----------------------------------------------------------------------------
(***************************************************************************)
(* Properties.                                                             *)
(***************************************************************************)

\* Will the device calibrate by our start once it has served what is on its
\* way?  The last start or stop in flight decides.
OursInEffect ==
  LET writes == {i \in DOMAIN requests : requests[i].kind \in {"start", "stop"}} IN
  IF writes = {} THEN device.ours
  ELSE \E i \in writes : requests[i].kind = "start" /\ \A j \in writes : j <= i

\* device_may_be_calibrating is never FALSE while a start of this session
\* holds the device, whatever was lost, cancelled or left unconfirmed.
CalibrationIsOwned == OursInEffect => mag.owned \/ mag.calsw = 7

\* When stop returns Ok the session has released the device: every other way
\* to end is reported as an error.
StopOkMeansReleased == caller = "Ok" => ~OursInEffect /\ ~mag.owned

\* Every write was asked for: one per accepted command, and one more stop
\* only if a start was.  A repeated read, a retry or the cleanup never
\* repeats a start, stops a session that started nothing, or saves.
WritesWereAsked ==
  /\ \A c \in {"start", "save"} : written[c] <= accepted[c]
  /\ written["stop"] <= accepted["stop"] + (IF accepted["start"] > 0 THEN 1 ELSE 0)

\* The operation a query reports is the command queued or executed: a result
\* is never credited to another command.
OperationIsTheCommand ==
  /\ queue # <<>> => op = [command |-> Head(queue), outcome |-> "Running"]
  /\ pc \in Executing /\ ~exec.cleaning =>
       op = [command |-> exec.command, outcome |-> "Running"]

\* An operation that has ended keeps its outcome until the next one replaces
\* it: neither the cleanup nor the epilogue rewrites it.
EndedStaysEnded ==
  [][op.outcome \notin {"None", "Running"} =>
       op' = op \/ (op'.outcome = "Running" /\ queue' # <<>>)]_vars

\* The CALSW value that permits a command was asked for by that command.
CheckIsCurrent ==
  pc \in {"premag", "unlock", "write", "settle", "verify"} /\ ~exec.cleaning =>
    exec.checked = exec.turn

\* While the phase is calibrating, the calibration is ours and its window
\* collects.
CalibratingWindowCollects == mag.phase = "Calibrating" => mag.owned /\ ~mag.frozen

\* stop returns, although nothing is assumed of the device and the link.
StopCompletes == caller = "stopping" ~> caller # "stopping"

\* An accepted command ends, unless its worker was aborted.
OperationEnds == op.outcome = "Running" ~> op.outcome # "Running" \/ caller = "Timeout"

=============================================================================
