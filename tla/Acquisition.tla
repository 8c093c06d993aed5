---------------------------- MODULE Acquisition ----------------------------
(***************************************************************************)
(* An acquisition: run opens the device again and again with a growing     *)
(* pause, and pump serves one connection.  One loop selects among bytes    *)
(* from the device, a writer that carries one read request at a time, the  *)
(* deadlines of the quaternion and battery requests, and a health check.   *)
(*                                                                         *)
(* Time is counted in ages: age[t] is the time since event t, capped where *)
(* nothing in the code tells larger values apart.                          *)
(***************************************************************************)
EXTENDS Integers

CONSTANTS
  QuatPeriod,       \* 20 ms between two quaternion requests
  QuatRetry,        \* 250 ms, then an unanswered one is repeated
  StaleAfter,       \* 500 ms, then the last pose is no longer fresh
  BatteryFirst,     \* 1 s before the first battery request
  WriteTimeout,     \* 2 s for one write
  ResponseTimeout,  \* 3 s for a battery answer
  Silence,          \* 10 s without bytes, or without a supported frame
  BatteryPoll,      \* 30 s between two battery requests
  MaxPause,         \* 8 s between two attempts
  MaxAnswers,       \* bound of the answers in flight, of each kind
  PolledModes,      \* the values of polled considered
  Prompt            \* does the worker serve what is due before time goes on?

ASSUME DurationsAssumption ==
  /\ {QuatPeriod, QuatRetry, StaleAfter, BatteryFirst, WriteTimeout, ResponseTimeout,
      Silence, BatteryPoll, MaxPause, MaxAnswers} \subseteq Nat \ {0}
  /\ QuatPeriod < QuatRetry /\ QuatRetry <= StaleAfter /\ StaleAfter <= BatteryFirst
  /\ BatteryFirst <= WriteTimeout /\ WriteTimeout <= ResponseTimeout
  /\ ResponseTimeout <= Silence /\ Silence < BatteryPoll
  /\ PolledModes \subseteq BOOLEAN /\ Prompt \in BOOLEAN

Timers == {"start", "bytes", "pose", "quat", "battery", "write", "tick"}
Cap == [t \in Timers |->
  CASE t \in {"start", "bytes"} -> Silence + 1
    [] t = "pose" -> StaleAfter
    [] t = "quat" -> QuatRetry
    [] t = "battery" -> BatteryPoll
    [] t = "write" -> WriteTimeout
    [] t = "tick" -> 1]
Requests == {"quat", "battery"}
Idle == "none"
VARIABLES
  polled,       \* is pose_input Quaternion, which is asked for?
  phase,        \* of run: "opening", "session" (pump), "closing", "waiting", "ended"
  status,        \* status.state
  error,        \* the result of the attempt: the class of its error and the cause
  backoff,
  productive,   \* status.session_samples > 0
  cancelled,
  age,
  writing,      \* a request was handed to the writer and is not done
  queued,       \* the channel of capacity one in front of the writer
  writer,       \* the request being written
  outstanding,  \* a quaternion request waits for its answer
  batteryOutstanding,
  receivedFrame,
  battery,      \* the last outcome of the battery query
  answers,      \* of each kind, the answers the device has under way
  pause,        \* history: the last pause between two attempts
  delivered     \* history: did the last attempt deliver samples?

runVars == <<polled, phase, status, error, backoff, productive, cancelled, pause, delivered>>
pumpVars == <<writing, queued, writer, outstanding, batteryOutstanding, receivedFrame>>
acqVars == <<runVars, pumpVars, age, battery, answers>>

NoError == [class |-> "none", cause |-> "none"]
Classes == {"none", "transient", "terminal", "cancelled"}
Causes == {"none", "open", "read", "write", "overrun", "rate", "silence", "unsupported", "cancel"}

AcquisitionTypeOK ==
  /\ polled \in BOOLEAN
  /\ phase \in {"opening", "session", "closing", "waiting", "ended"}
  /\ status \in {"Connecting", "Active", "Stale", "Reconnecting", "Stopped", "Failed"}
  /\ error \in [class : Classes, cause : Causes]
  /\ backoff \in 1 .. MaxPause /\ pause \in 0 .. MaxPause
  /\ productive \in BOOLEAN /\ cancelled \in BOOLEAN /\ delivered \in BOOLEAN
  /\ age \in [Timers -> Nat] /\ \A t \in Timers : age[t] <= Cap[t]
  /\ writing \in BOOLEAN
  /\ queued \in Requests \cup {Idle} /\ writer \in Requests \cup {Idle}
  /\ outstanding \in BOOLEAN /\ batteryOutstanding \in BOOLEAN /\ receivedFrame \in BOOLEAN
  /\ battery \in {"unknown", "read", "error"}
  /\ answers \in [Requests -> 0 .. MaxAnswers]

Fresh == status \in {"Active", "Stale"} /\ age["pose"] < StaleAfter

AcquisitionInit ==
  /\ polled \in PolledModes
  /\ phase = "opening" /\ status = "Connecting" /\ error = NoError
  /\ backoff = 1 /\ pause = 0 /\ delivered = FALSE
  /\ productive = FALSE /\ cancelled = FALSE
  /\ age = Cap
  /\ writing = FALSE /\ queued = Idle /\ writer = Idle
  /\ outstanding = FALSE /\ batteryOutstanding = FALSE /\ receivedFrame = FALSE
  /\ battery = "unknown" /\ answers = [r \in Requests |-> 0]

-----------------------------------------------------------------------------
(***************************************************************************)
(* pump: the requests.                                                     *)
(***************************************************************************)

Reset(t) == [age EXCEPT ![t] = 0]

\* pump returns; its writer, its channel, its timers and what the link held are
\* dropped.
PumpReturns(class, cause) ==
  /\ phase' = "closing" /\ error' = [class |-> class, cause |-> cause]
  /\ writing' = FALSE /\ queued' = Idle /\ writer' = Idle
  /\ outstanding' = FALSE /\ batteryOutstanding' = FALSE /\ receivedFrame' = FALSE
  /\ answers' = [r \in Requests |-> 0]
  /\ age' = [Cap EXCEPT !["pose"] = age["pose"]]
  /\ UNCHANGED <<polled, backoff, productive, cancelled, pause, delivered, battery>>
Ends(class, cause) == PumpReturns(class, cause) /\ UNCHANGED status

QuatDue ==
  /\ polled /\ ~writing
  /\ age["quat"] >= IF outstanding THEN QuatRetry ELSE QuatPeriod

\* Faulty variant of BatteryDue: a request may be under way.
BatteryDueWhileWriting == ~batteryOutstanding /\ age["battery"] >= BatteryPoll
BatteryDue == ~writing /\ ~batteryOutstanding /\ age["battery"] >= BatteryPoll

\* requests.try_send: it fails on a full channel.
Send(r) ==
  IF queued # Idle THEN Ends("transient", "overrun")
  ELSE /\ queued' = r /\ writing' = TRUE /\ age' = Reset(r)
       /\ outstanding' = (outstanding \/ r = "quat")
       /\ batteryOutstanding' = (batteryOutstanding \/ r = "battery")
       /\ UNCHANGED <<runVars, writer, receivedFrame, battery, answers>>

RequestQuat == phase = "session" /\ QuatDue /\ Send("quat")
RequestBattery == phase = "session" /\ BatteryDue /\ Send("battery")

\* The writer takes the request; the device may answer it, now or ever later.
WriterTakes ==
  /\ phase = "session" /\ writer = Idle /\ queued # Idle
  /\ writer' = queued /\ queued' = Idle /\ age' = Reset("write")
  /\ \E n \in {0, 1} :
       /\ answers[queued] + n <= MaxAnswers
       /\ answers' = [answers EXCEPT ![queued] = @ + n]
  /\ UNCHANGED <<runVars, writing, outstanding, batteryOutstanding, receivedFrame, battery>>

WriteDone ==
  /\ phase = "session" /\ writer # Idle
  /\ writer' = Idle /\ writing' = FALSE
  /\ UNCHANGED <<runVars, queued, outstanding, batteryOutstanding, receivedFrame, age, battery, answers>>

\* The failure of a battery request is noted, that of a quaternion request
\* ends the session.  A characteristic that cannot be written is terminal.
Classed == {"transient", "terminal"}
BatteryWriteFails ==
  /\ writer' = Idle /\ writing' = FALSE
  /\ batteryOutstanding' = FALSE /\ battery' = "error"
  /\ UNCHANGED <<runVars, queued, outstanding, receivedFrame, age, answers>>

WriteFails ==
  /\ phase = "session" /\ writer # Idle
  /\ IF writer = "battery" THEN BatteryWriteFails ELSE \E c \in Classed : Ends(c, "write")

\* Faulty variant of WriteTimesOut: the channel is not given back.
WriteTimesOutStillWriting ==
  /\ phase = "session" /\ writer # Idle /\ age["write"] >= WriteTimeout
  /\ IF writer = "battery"
       THEN /\ writer' = Idle /\ batteryOutstanding' = FALSE /\ battery' = "error"
            /\ UNCHANGED <<runVars, writing, queued, outstanding, receivedFrame, age, answers>>
       ELSE Ends("transient", "write")
WriteTimesOut ==
  /\ phase = "session" /\ writer # Idle /\ age["write"] >= WriteTimeout
  /\ IF writer = "battery" THEN BatteryWriteFails ELSE Ends("transient", "write")

BatteryLate == batteryOutstanding /\ age["battery"] >= ResponseTimeout
BatteryTimesOut ==
  /\ phase = "session" /\ BatteryLate
  /\ batteryOutstanding' = FALSE /\ battery' = "error"
  /\ UNCHANGED <<runVars, writing, queued, writer, outstanding, receivedFrame, age, answers>>

-----------------------------------------------------------------------------
(***************************************************************************)
(* pump: reception and the health check.                                   *)
(***************************************************************************)

\* A read with several frames is several reads in a row.
BytesArrive ==
  /\ phase = "session"
  /\ UNCHANGED <<polled, phase, error, backoff, cancelled, pause, delivered, writing, queued,
                 writer>>

\* publish_batch.
PosePublished ==
  /\ status' = "Active" /\ productive' = TRUE
  /\ age' = [age EXCEPT !["bytes"] = 0, !["pose"] = 0]
NoPosePublished == age' = Reset("bytes") /\ UNCHANGED <<status, productive>>

ReadNothing ==
  /\ BytesArrive /\ NoPosePublished
  /\ UNCHANGED <<outstanding, batteryOutstanding, receivedFrame, battery, answers>>

\* A frame that gives no valid pose in this mode, or one that does.
ReadFrame ==
  /\ BytesArrive /\ receivedFrame' = TRUE
  /\ NoPosePublished \/ (~polled /\ PosePublished)
  /\ UNCHANGED <<outstanding, batteryOutstanding, battery, answers>>

ReadQuat ==
  /\ BytesArrive /\ answers["quat"] > 0
  /\ answers' = [answers EXCEPT !["quat"] = @ - 1]
  /\ receivedFrame' = TRUE /\ outstanding' = FALSE
  /\ NoPosePublished \/ PosePublished
  /\ UNCHANGED <<batteryOutstanding, battery>>

\* An answer nobody asked for is dropped; a late one is an error.  It does not
\* count as a supported frame.
ReadBattery ==
  /\ BytesArrive /\ answers["battery"] > 0
  /\ answers' = [answers EXCEPT !["battery"] = @ - 1]
  /\ NoPosePublished
  /\ batteryOutstanding' = FALSE
  /\ IF ~batteryOutstanding THEN UNCHANGED battery
     ELSE IF age["battery"] < ResponseTimeout THEN battery' \in {"read", "error"}
     ELSE battery' = "error"
  /\ UNCHANGED <<outstanding, receivedFrame>>

\* The stream ends, or a full inertial frame is off its rate.
ReadFails ==
  /\ phase = "session"
  /\ Ends("transient", "read") \/ Ends("terminal", "rate")

TickDue == age["tick"] >= 1

\* Faulty variant of Silent: silence is only looked for until a frame came.
SilentAtFirst == ~receivedFrame /\ age["bytes"] > Silence
Silent == age["bytes"] > Silence

\* The clock is read a second time for the last check, so that it may have
\* passed the limit meanwhile.
Unsupported(passes) ==
  ~receivedFrame /\ (age["start"] > Silence \/ (passes /\ age["start"] = Silence))

Tick ==
  /\ phase = "session" /\ TickDue
  /\ status' = IF age["start"] >= StaleAfter /\ ~Fresh THEN "Stale" ELSE status
  /\ \E passes \in BOOLEAN :
       IF Silent THEN PumpReturns("transient", "silence")
       ELSE IF Unsupported(passes) THEN PumpReturns("terminal", "unsupported")
       ELSE /\ age' = Reset("tick")
            /\ UNCHANGED <<polled, phase, error, backoff, productive, cancelled, pause, delivered,
                           pumpVars, battery, answers>>

CancelNoticed == phase = "session" /\ cancelled /\ Ends("cancelled", "cancel")

-----------------------------------------------------------------------------
(***************************************************************************)
(* run: the connections.                                                   *)
(***************************************************************************)

\* begin_session, then pump starts.
OpenOk ==
  /\ phase = "opening"
  /\ phase' = "session" /\ status' = "Connecting" /\ productive' = FALSE
  /\ battery' = "unknown" /\ error' = NoError
  /\ age' = [t \in Timers |->
       CASE t = "quat" -> QuatPeriod
         [] t = "battery" -> BatteryPoll - BatteryFirst
         [] t = "pose" -> StaleAfter
         [] t = "tick" -> 1
         [] OTHER -> 0]
  /\ UNCHANGED <<polled, backoff, cancelled, pause, delivered, pumpVars, answers>>

\* Faulty variant of AttemptEnds: status.state is left as it was.
AttemptEndsSilently(e) ==
  /\ error' = e
  /\ IF e.class = "transient" THEN phase' = "waiting" /\ UNCHANGED status
     ELSE phase' = "ended" /\ status' = IF e.class = "cancelled" THEN "Stopped" ELSE "Failed"

\* The end of an attempt: the error decides whether there is another one.
AttemptEnds(e) ==
  /\ error' = e
  /\ IF e.class = "transient" THEN phase' = "waiting" /\ status' = "Reconnecting"
     ELSE /\ phase' = "ended"
          /\ status' = IF e.class = "cancelled" THEN "Stopped" ELSE "Failed"

OpenFails ==
  /\ phase = "opening" /\ delivered' = FALSE
  /\ \E c \in Classed \cup {"cancelled"} :
       /\ c = "cancelled" => cancelled
       /\ AttemptEnds([class |-> c, cause |-> "open"])
  /\ UNCHANGED <<polled, backoff, productive, cancelled, pause, pumpVars, age, battery, answers>>

\* The connection is closed, within its own time limits.
Closed ==
  /\ phase = "closing"
  /\ delivered' = productive
  /\ backoff' = IF productive THEN 1 ELSE backoff
  /\ AttemptEnds(error)
  /\ UNCHANGED <<polled, productive, cancelled, pause, pumpVars, age, battery, answers>>

Retry ==
  /\ phase = "waiting" /\ ~cancelled
  /\ phase' = "opening" /\ status' = "Connecting"
  /\ pause' = backoff
  /\ backoff' = IF 2 * backoff < MaxPause THEN 2 * backoff ELSE MaxPause
  /\ UNCHANGED <<polled, error, productive, cancelled, delivered, pumpVars, age, battery, answers>>

CancelWaiting ==
  /\ phase = "waiting" /\ cancelled
  /\ phase' = "ended" /\ status' = "Stopped"
  /\ error' = [class |-> "cancelled", cause |-> "cancel"]
  /\ UNCHANGED <<polled, backoff, productive, cancelled, pause, delivered, pumpVars, age, battery,
                 answers>>

\* stop.
Cancel ==
  /\ phase # "ended" /\ cancelled' = TRUE
  /\ UNCHANGED <<polled, phase, status, error, backoff, productive, pause, delivered, pumpVars, age,
                 battery, answers>>

Due ==
  \/ QuatDue \/ BatteryDue \/ BatteryLate \/ TickDue
  \/ (writer = Idle /\ queued # Idle) \/ (writer # Idle /\ age["write"] >= WriteTimeout)

Advance ==
  /\ phase # "ended"
  /\ phase = "session" /\ Prompt => ~Due
  /\ age' = [t \in Timers |-> IF age[t] < Cap[t] THEN age[t] + 1 ELSE Cap[t]]
  /\ UNCHANGED <<runVars, pumpVars, battery, answers>>

Pump ==
  \/ RequestQuat \/ RequestBattery \/ WriterTakes \/ WriteTimesOut \/ BatteryTimesOut
  \/ Tick \/ CancelNoticed
Device ==
  \/ WriteDone \/ WriteFails
  \/ ReadNothing \/ ReadFrame \/ ReadQuat \/ ReadBattery \/ ReadFails
AcquisitionNext ==
  \/ Pump \/ Device \/ Advance
  \/ OpenOk \/ OpenFails \/ Closed \/ Retry \/ CancelWaiting \/ Cancel

AcquisitionSpec == AcquisitionInit /\ [][AcquisitionNext]_acqVars

\* The select polls its branches in random order, so one that is ready time and
\* again is taken in the end: the two requests compete for the one writer, and
\* their fairness is strong.  An open and a close end (both are bounded in
\* time), and so does a pause.  Nothing is assumed of the device, of the link,
\* or of a write.
FairAcquisition ==
  /\ AcquisitionSpec
  /\ SF_acqVars(RequestQuat) /\ SF_acqVars(RequestBattery) /\ WF_acqVars(WriterTakes)
  /\ WF_acqVars(WriteTimesOut) /\ WF_acqVars(BatteryTimesOut) /\ WF_acqVars(Tick)
  /\ WF_acqVars(CancelNoticed) /\ WF_acqVars(Advance)
  /\ WF_acqVars(OpenOk \/ OpenFails) /\ WF_acqVars(Closed) /\ WF_acqVars(Retry \/ CancelWaiting)

-----------------------------------------------------------------------------
(***************************************************************************)
(* Properties.                                                             *)
(***************************************************************************)

\* writing guards the channel and the writer: there is a request in exactly
\* one of them, or in none, and try_send never meets a full channel.
OneRequestAtATime ==
  /\ queued = Idle \/ writer = Idle
  /\ writing <=> queued # Idle \/ writer # Idle
  /\ error.cause # "overrun"

\* A pose is only ever shown as fresh over the connection that delivered it:
\* not while its successor is opened, nor after the worker ended.
FreshIsConnected == Fresh => phase \in {"session", "closing"} /\ productive

\* The pauses are 1, 2, 4, 8, 8, ... seconds, and start again at one after a
\* connection that delivered samples, and only then.
PausesDouble ==
  phase = "waiting" =>
    backoff = IF delivered \/ pause = 0 THEN 1
              ELSE IF 2 * pause < MaxPause THEN 2 * pause ELSE MaxPause

\* A battery request that fails ends no session.
BatteryEndsNothing ==
  [][phase = "session" /\ error'.cause = "write" /\ phase' = "closing" => writer = "quat"]_acqVars

\* While a battery request is written, quaternion requests still go out in
\* time.
BatteryWriteDelaysNoPose ==
  polled /\ writer = "battery" /\ age["write"] > 0 => age["quat"] < QuatRetry

\* The requests go on, whatever is lost: as long as a session lasts there is
\* always another one.
PollingContinues ==
  /\ []<>(phase # "session") \/ []<><<RequestBattery>>_acqVars
  /\ polled => []<>(phase # "session") \/ []<><<RequestQuat>>_acqVars

\* A device that from some time on answers battery requests at most does not
\* keep its session.
BatteryKeepsNothingAlive ==
  []<>(phase # "session") \/ []<><<ReadNothing \/ ReadFrame \/ ReadQuat>>_acqVars

\* A cancelled acquisition ends.
CancelEnds == cancelled ~> phase = "ended"

=============================================================================
