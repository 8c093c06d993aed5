------------------------------ MODULE Programs ------------------------------
(***************************************************************************)
(* The programs that own a controller: the command line, the C consumer of *)
(* poses, and a C host that calls the interface in any order.  Each is one *)
(* thread of control that polls; Ctrl+C sets a flag it looks at; the       *)
(* controller's task moves under it.                                       *)
(***************************************************************************)
EXTENDS Integers, ControllerTask

CONSTANTS
  MaxSessions,  \* bound of the connections of one acquisition
  MaxSamples,   \* bound of the poses of one connection
  MaxCalls,     \* bound of the calls of the C host
  MaxGrowth     \* bound of the text of a snapshot, which changes between queries

ASSUME ProgramsAssumption ==
  /\ MaxSessions \in Nat /\ MaxSamples \in Nat /\ MaxCalls \in Nat /\ MaxGrowth \in Nat \ {0}
  /\ Devices # {}

Waiting == {"scan", "inspect", "configure"}
Magnetic == {"monitor", "calibrate", "save"}
Streaming == {"diagnose", "bridge"}  \* with a duration, and without
CommandLine == Waiting \cup Magnetic \cup Streaming

VARIABLES
  program,      \* the command, or the kind of C host
  pc,           \* where it polls
  interrupted,  \* Ctrl+C
  result,       \* what the work returned
  code,         \* the exit code, once there is one
  pose,         \* the pose a query returns; old ones do not get young again
  consumer,     \* ConsumerState
  copying,      \* the buffer of a snapshot and the attempts made
  calls, told   \* calls of the host; whether one returned a session's failure, or
                \* asked for a calibration that no session would end

programVars == <<program, pc, interrupted, result, code, pose, consumer, copying, calls, told>>
vars == <<taskVars, programVars>>

NoPose == [session |-> 0, seq |-> 0, young |-> FALSE, any |-> FALSE]
TheDevice == CHOOSE d \in Devices : TRUE

Init ==
  /\ TaskInit
  /\ program \in CommandLine \cup {"consumer", "host"}
  /\ pc = "begin" /\ interrupted = FALSE /\ result = "None" /\ code = "None"
  /\ pose = NoPose /\ calls = 0 /\ told = FALSE
  /\ consumer = [known |-> FALSE, session |-> 0, seq |-> 0, active |-> FALSE]
  /\ copying = [capacity |-> 0, attempts |-> 0]

-----------------------------------------------------------------------------
(***************************************************************************)
(* What a program can do with a controller.                                *)
(***************************************************************************)

Interrupt ==
  /\ ~interrupted /\ pc # "exited" /\ interrupted' = TRUE
  /\ UNCHANGED <<taskVars, program, pc, result, code, pose, consumer, copying, calls, told>>

Fresh == pose.young /\ shared.state = "Active"

\* A call that starts a task, on an idle controller.
Launches(do) ==
  /\ task' = Launched(do, TheDevice)
  /\ shared' = Started(Configured(Stopped(shared), TheDevice, do = "track"), do)
  /\ pose' = IF do \in {"track", "magnetic"} THEN [NoPose EXCEPT !.session = pose.session] ELSE pose

\* The work is over: stop cancels the task and joins it.
Gives(r) ==
  /\ result' = r /\ pc' = "ending" /\ task' = [task EXCEPT !.cancel = TRUE]
  /\ UNCHANGED <<shared, pose>>
Goto(p) == pc' = p /\ UNCHANGED <<task, shared, result, pose>>

\* What no step of the command line touches.
Aside == UNCHANGED <<calsw, owes, program, interrupted, consumer, copying, calls, told>>

-----------------------------------------------------------------------------
(***************************************************************************)
(* The command line.                                                       *)
(***************************************************************************)

TaskOf == CASE program \in Streaming -> "track" [] program \in Magnetic -> "magnetic"
            [] program = "configure" -> "other" [] OTHER -> program
FirstWait == CASE program \in Streaming -> "stream" [] program \in Magnetic -> "opening"
               [] OTHER -> "wait"

\* Arguments and configuration may be refused; the task is started otherwise.
Starts ==
  /\ pc = "begin" /\ program \in CommandLine /\ UNCHANGED code /\ Aside
  /\ \/ Gives("Error")
     \/ Launches(TaskOf) /\ pc' = FirstWait /\ UNCHANGED result

\* wait_operation: no deadline of its own.
WaitOperation ==
  /\ pc = "wait" /\ UNCHANGED code /\ Aside
  /\ CASE interrupted -> Gives("Cancelled")
       [] ~interrupted /\ shared.state = "Complete" -> Gives("Ok")
       [] ~interrupted /\ shared.state = "Failed" -> Gives("Error")
       [] OTHER -> FALSE

Over == interrupted \/ program = "diagnose"
Streamed == Gives(IF pose.any THEN "Ok" ELSE "Error")
\* Faulty variant of Stream: an acquisition that failed is watched on.
StreamOn == pc = "stream" /\ UNCHANGED code /\ Aside /\ Over /\ Streamed
\* stream: until Ctrl+C, or the duration if there is one; a run without a pose
\* is an error.
Stream ==
  /\ pc = "stream" /\ UNCHANGED code /\ Aside
  /\ \/ Over /\ Streamed
     \/ ~interrupted /\ shared.state = "Failed" /\ Gives("Error")

\* The first sample, within thirty seconds.
MagneticOpens ==
  /\ pc = "opening" /\ UNCHANGED code /\ Aside
  /\ CASE interrupted -> Gives("Cancelled")
       [] ~interrupted /\ shared.mag.error -> Gives("Error")
       [] OTHER -> \/ shared.mag.open
                        /\ Goto(IF program = "monitor" THEN "rotate" ELSE "ask mag_start")
                   \/ Gives("Error")

AskFor == [mag_start |-> "ask mag_start", mag_stop |-> "ask mag_stop", save |-> "ask save"]

\* magnetic_operation: the command is sent, or refused at once.
Asks(command) ==
  /\ pc = AskFor[command] /\ UNCHANGED code /\ Aside
  /\ IF interrupted THEN Gives("Cancelled")
     ELSE IF Ready THEN SendsInto(command) /\ pc' = command /\ UNCHANGED <<result, pose>>
     ELSE /\ SendsInto(command) /\ result' = "Error" /\ pc' = "ending" /\ UNCHANGED pose

\* Faulty variant of Following: what was collected is saved before it is ended.
FollowingSaved(command) ==
  CASE command = "mag_start" -> "rotate"
    [] command = "rotate" -> IF program = "save" THEN "ask save" ELSE "ask mag_stop"
    [] command = "save" -> "ask mag_stop"
    [] OTHER -> "done"
Following(command) ==
  CASE command = "mag_start" -> "rotate"
    [] command = "rotate" -> IF program = "monitor" THEN "done" ELSE "ask mag_stop"
    [] command = "mag_stop" /\ program = "save" -> "ask save"
    [] OTHER -> "done"
GoesOn(command) == IF Following(command) = "done" THEN Gives("Ok") ELSE Goto(Following(command))

\* Its outcome is awaited for fifteen seconds.
Awaits(command) ==
  /\ pc = command /\ UNCHANGED code /\ Aside
  /\ CASE interrupted -> Gives("Cancelled")
       [] ~interrupted /\ shared.mag.error -> Gives("Error")
       [] ~interrupted /\ ~shared.mag.error /\ ~Busy ->
            CASE shared.op.outcome \in {"Succeeded", "Unverified"} -> GoesOn(command)
              [] shared.op.outcome = "Cancelled" -> Gives("Cancelled")
              [] OTHER -> Gives("Error")
       [] OTHER -> Gives("Error")

\* The samples are printed until the duration has passed, which is looked at first.
Rotates ==
  /\ pc = "rotate" /\ UNCHANGED code /\ Aside
  /\ \/ interrupted /\ Gives("Cancelled")
     \/ ~interrupted /\ shared.mag.error /\ Gives("Error")
     \/ GoesOn("rotate")

\* Faulty variant of CodeOf: the first error is the one that counts.
CodeOfWork(r, failed) ==
  IF r = "Cancelled" THEN "130" ELSE IF r = "Error" \/ failed THEN "1" ELSE "0"
\* An error of stop makes an interrupted run a failed one.
CodeOf(r, failed) ==
  IF r = "Error" \/ failed THEN "1" ELSE IF r = "Cancelled" THEN "130" ELSE "0"

Exits ==
  /\ pc = "ending" /\ program \in CommandLine /\ ~task.alive
  /\ code' = CodeOf(result, StopFails) /\ pc' = "exited"
  /\ shared' = Stopped(shared) /\ task' = NoTask
  /\ UNCHANGED <<result, pose>> /\ Aside

MagneticOperation(command) == Asks(command) \/ Awaits(command)
CommandLineStep ==
  \/ Starts \/ WaitOperation \/ Stream \/ MagneticOpens \/ Rotates \/ Exits
  \/ \E command \in {"mag_start", "mag_stop", "save"} : MagneticOperation(command)

-----------------------------------------------------------------------------
(***************************************************************************)
(* The C consumer of poses.                                                *)
(***************************************************************************)

Moved(session, seq) == [known |-> TRUE, session |-> session, seq |-> seq, active |-> TRUE]

\* Faulty variant of Consumed: a new session counts on from the old one.
ConsumedBySequence(p, young) ==
  IF ~young THEN [consumer EXCEPT !.active = FALSE]
  ELSE IF p.seq <= consumer.seq THEN consumer
  ELSE Moved(p.session, p.seq)
\* consume_pose: age first, then identity, then the sequence.
Consumed(p, young) ==
  IF ~young THEN [consumer EXCEPT !.active = FALSE]
  ELSE IF consumer.known /\ consumer.session = p.session /\ p.seq <= consumer.seq THEN consumer
  ELSE Moved(p.session, p.seq)

\* create, configure and start; each may fail.
HostStarts ==
  /\ pc = "begin" /\ program = "consumer"
  /\ \/ Launches("track") /\ pc' = "pose" /\ UNCHANGED result
     \/ Gives("1")
  /\ UNCHANGED <<code, calsw, owes, program, interrupted, consumer, copying, calls, told>>

\* One round of the loop: the flag, the duration and the latest pose.
HostPolls ==
  /\ pc = "pose"
  /\ \/ interrupted /\ Gives("130") /\ UNCHANGED consumer
     \/ ~interrupted /\ Gives(IF consumer.known THEN "0" ELSE "2") /\ UNCHANGED consumer
     \/ ~interrupted /\ consumer' = Consumed(pose, Fresh /\ pose.seq > 0) /\ Goto("status")
  /\ UNCHANGED <<code, calsw, owes, program, interrupted, copying, calls, told>>

\* Then the status: a failed acquisition ends it.
HostLooks ==
  /\ pc = "status"
  /\ IF shared.state = "Failed" THEN Gives("1") ELSE Goto("pose")
  /\ UNCHANGED <<code, calsw, owes, program, interrupted, consumer, copying, calls, told>>

\* cleanup: stop, which freezes the consumer.
HostStops ==
  /\ pc = "ending" /\ program = "consumer" /\ ~task.alive
  /\ result' = IF StopFails THEN "1" ELSE result
  /\ consumer' = [consumer EXCEPT !.active = FALSE]
  /\ shared' = Stopped(shared) /\ task' = NoTask /\ pc' = "copy"
  /\ UNCHANGED <<code, pose, calsw, owes, program, interrupted, copying, calls, told>>

\* print_snapshot: the buffer grows to what was required, and that may have
\* grown again; then the context is destroyed.
HostCopies ==
  /\ pc = "copy"
  /\ \E required \in 1 .. MaxGrowth :
       LET fits == required <= copying.capacity
           last == copying.attempts = 4 IN
       /\ copying' = [capacity |-> required, attempts |-> copying.attempts + 1]
       /\ pc' = IF fits \/ last THEN "exited" ELSE "copy"
       /\ code' = IF fits THEN result ELSE IF last THEN "1" ELSE code
  /\ UNCHANGED <<taskVars, result, pose, program, interrupted, consumer, calls, told>>

ConsumerStep == HostStarts \/ HostPolls \/ HostLooks \/ HostStops \/ HostCopies

-----------------------------------------------------------------------------
(***************************************************************************)
(* A C host, which makes any call in any order.                            *)
(***************************************************************************)

Returns(rc) == result' = rc /\ UNCHANGED <<task, shared, pose>>

\* ensure_idle: a task that has finished is stopped first, and its failure is
\* what the call returns.
Idle(do) ==
  IF task.alive THEN Returns("BUSY")
  ELSE IF StopFails
    THEN result' = "IO" /\ shared' = Stopped(shared) /\ UNCHANGED <<task, pose>>
  ELSE Launches(do) /\ result' = "OK"

HostCalls ==
  /\ pc \in {"begin", "called"} /\ program = "host" /\ calls < MaxCalls /\ calls' = calls + 1
  /\ pc' = "called"
  /\ \/ \E do \in {"scan", "inspect", "magnetic", "track"} : Idle(do)
     \/ Returns("INVALID_ARGUMENT")
     \/ \E c \in {"mag_start", "mag_stop", "save"} :
          /\ shared.commands /\ task.alive /\ UNCHANGED pose
          /\ IF Ready THEN SendsInto(c) /\ result' = "OK" ELSE Returns("BUSY")
     \/ \E c \in {"mag_start", "mag_stop", "save", "other"} :
          (~shared.commands \/ ~task.alive) /\ Idle(c)
  /\ told' = (told \/ result' = "IO" \/ task' = Launched("mag_start", TheDevice))
  /\ UNCHANGED <<code, calsw, owes, program, interrupted, consumer, copying>>

\* stop, and destroy, which consumes the context whatever stop returned.
HostEnds ==
  /\ pc \in {"begin", "called"} /\ program = "host"
  /\ pc' \in {"stopping", "destroying"} /\ task' = [task EXCEPT !.cancel = TRUE]
  /\ UNCHANGED <<shared, result, code, pose, calsw, owes, program, interrupted, consumer, copying, calls, told>>
HostJoins ==
  /\ pc \in {"stopping", "destroying"} /\ ~task.alive
  /\ result' = IF StopFails THEN "IO" ELSE "OK"
  /\ told' = (told \/ StopFails)
  /\ shared' = Stopped(shared) /\ task' = NoTask
  /\ pc' = IF pc = "stopping" THEN "called" ELSE "exited"
  /\ code' = IF pc = "stopping" THEN code ELSE IF StopFails THEN "1" ELSE "0"
  /\ UNCHANGED <<pose, calsw, owes, program, interrupted, consumer, copying, calls>>

-----------------------------------------------------------------------------
(***************************************************************************)
(* The acquisition, and the rest of the task.                              *)
(***************************************************************************)

Connects ==
  /\ At("track", "work") /\ pose.session < MaxSessions
  /\ pose' = [NoPose EXCEPT !.session = pose.session + 1, !.any = pose.any]
  /\ shared' = [shared EXCEPT !.state = "Connecting"]
Publishes ==
  /\ At("track", "work") /\ pose.session > 0 /\ pose.seq < MaxSamples
  /\ pose' = [pose EXCEPT !.seq = @ + 1, !.young = TRUE, !.any = TRUE]
  /\ shared' = [shared EXCEPT !.state = "Active"]
Ages ==
  /\ pose.young /\ pose' = [pose EXCEPT !.young = FALSE]
  /\ shared' = IF shared.state = "Active" THEN [shared EXCEPT !.state = "Stale"] ELSE shared
Acquires ==
  /\ Connects \/ Publishes \/ Ages
  /\ UNCHANGED <<task, calsw, owes, program, pc, interrupted, result, code, consumer, copying, calls, told>>

Task == TaskWork /\ UNCHANGED programVars
TaskBreaks == TaskFails /\ UNCHANGED programVars

\* The device leaves a calibration by itself.
DeviceLeaves ==
  /\ calsw' \in {[calsw EXCEPT ![d] = FALSE] : d \in {e \in Devices : calsw[e]}}
  /\ UNCHANGED <<task, shared, owes, programVars>>

Terminated == pc = "exited" /\ ~task.alive /\ UNCHANGED vars

Next ==
  \/ Interrupt \/ CommandLineStep \/ ConsumerStep \/ HostCalls \/ HostEnds \/ HostJoins
  \/ Acquires \/ Task \/ TaskBreaks \/ DeviceLeaves \/ Terminated

\* The program is scheduled and every await of its task ends; the duration of
\* the consumer, which it looks at in every round, passes.
FairSpec ==
  /\ Init /\ [][Next]_vars
  /\ WF_vars(CommandLineStep) /\ WF_vars(HostStarts) /\ WF_vars(HostStops) /\ WF_vars(HostCopies)
  /\ SF_vars(HostPolls /\ pc' = "ending") /\ WF_vars(HostLooks) /\ WF_vars(HostJoins)
  /\ WF_vars(Task)

-----------------------------------------------------------------------------
(***************************************************************************)
(* Properties.                                                             *)
(***************************************************************************)

\* "Save only after normal completion and verified calibration exit": whenever a
\* save is sent, no calibration this program started is without a seen end.
SaveFollowsStop ==
  [][program = "save" /\ shared.chan # "save" /\ shared'.chan = "save" => owes = {}]_vars

\* A program that is gone has no task; one that says it succeeded or was merely
\* interrupted, or a host that was never told of a failure, leaves no
\* calibration of its session behind.
ExitIsHonest ==
  /\ pc = "exited" => ~task.alive
  /\ program \in Magnetic /\ code \in {"0", "130"} => owes = {}
  /\ program = "host" /\ pc = "exited" /\ ~told => owes = {}
  /\ code = "130" => interrupted

\* The consumer shows every pose that is young when it asks, of whatever
\* session, and freezes as soon as none is: not to show the same one twice
\* never keeps it frozen.
ConsumerFollows ==
  [][pc = "pose" /\ pc' = "status" =>
       IF Fresh /\ pose.seq > 0
         THEN consumer'.active /\ consumer'.session = pose.session /\ consumer'.seq = pose.seq
         ELSE ~consumer'.active]_vars

\* Every command ends, one without a duration when it is interrupted or its
\* acquisition has failed, and so does the consumer.
ProgramsEnd ==
  program # "host" /\ (program = "bridge" => interrupted \/ shared.state = "Failed")
    ~> pc = "exited"

=============================================================================
