--------------------------- MODULE ProgramsProofs ---------------------------
(***************************************************************************)
(* Proofs about Programs, for any bounds on the poses, the calls and the   *)
(* text of a snapshot: a calibration is saved only after its end was seen, *)
(* and no program that says it succeeded leaves one behind.                *)
(***************************************************************************)
EXTENDS Programs, TLAPS

Session == {"mag_start", "mag_stop", "save"}
Dos == {"none", "scan", "inspect", "connect", "apply", "magnetic", "track", "other"} \cup Session
Outcomes == {"None", "Running", "Succeeded", "Failed", "Cancelled", "Unverified"}
Endings == {"Complete", "Stopped", "Failed"}
Devs == Devices \cup {NoDevice}
Operations == [action : Dos, attempted : BOOLEAN, verified : BOOLEAN, outcome : Outcomes]
Sessions == [open : BOOLEAN, owned : BOOLEAN, calibrating : BOOLEAN, seven : BOOLEAN,
             error : BOOLEAN]
States == Endings \cup {"Idle", "Inspecting", "Connecting", "Scanning", "Configuring",
                      "Magnetic", "Active", "Stale"}
Shared == [state : States, op : Operations, desc : BOOLEAN, config : Devs, tracking : BOOLEAN,
           commands : BOOLEAN, chan : {"none"} \cup Session, mag : Sessions]
Tasks == [kind : {"none", "inspect", "magnetic", "scan", "track", "write"}, dev : Devs, do : Dos,
          step : {"work", "ready", "announced", "done", "cleanup", "closing", "ended"},
          result : Endings, cancel : BOOLEAN, alive : BOOLEAN]

TypeOK ==
  /\ shared \in Shared /\ task \in Tasks
  /\ calsw \in [Devices -> BOOLEAN] /\ owes \subseteq {TheDevice}
  /\ task.alive => task.dev = TheDevice

LEMMA TheDeviceIsADevice == TheDevice \in Devices
BY ProgramsAssumption DEF TheDevice

LEMMA OperationIsOne ==
  ASSUME NEW a \in Dos, NEW r \in Outcomes
  PROVE  /\ [NoOperation EXCEPT !.action = a, !.outcome = r] \in Operations
         /\ [NoOperation EXCEPT !.action = a, !.outcome = r].action = a
         /\ [NoOperation EXCEPT !.action = a, !.outcome = r].outcome = r
BY DEF NoOperation, Operations, Dos, Outcomes

LEMMA ClosedIsASession == Closed \in Sessions /\ NoOperation \in Operations
BY DEF Closed, Sessions, NoOperation, Operations, Dos, Outcomes

\* Only the state and the outcome of a running operation tell how the work ended.
LEMMA OutcomeSays ==
  ASSUME NEW s \in Shared, NEW r \in Endings
  PROVE  /\ Outcome(s, r) \in Shared
         /\ Outcome(s, r).chan = s.chan /\ Outcome(s, r).mag = s.mag
         /\ Outcome(s, r).commands = s.commands
         /\ Outcome(s, r).op.action = s.op.action
         /\ \/ Outcome(s, r).op.outcome = s.op.outcome
            \/ /\ s.op.outcome = "Running"
               /\ Outcome(s, r).op.outcome = IF r = "Stopped" THEN "Cancelled" ELSE "Failed"
<1> DEFINE o == IF s.op.outcome # "Running" \/ r = "Complete" THEN s.op.outcome
                ELSE IF r = "Stopped" THEN "Cancelled" ELSE "Failed"
           op == [s.op EXCEPT !.outcome = o]
<1>1. o \in Outcomes
  BY DEF Shared, Operations, Outcomes
<1>2. Outcome(s, r) = [s EXCEPT !.state = r, !.op = op]
  BY DEF Outcome, Shared
<1> HIDE DEF o
<1>3. op \in Operations /\ op.action = s.op.action /\ op.outcome = o
  BY <1>1 DEF Shared, Operations
<1> HIDE DEF op
<1>4. /\ Outcome(s, r) \in Shared /\ Outcome(s, r).op = op
      /\ Outcome(s, r).chan = s.chan /\ Outcome(s, r).mag = s.mag
      /\ Outcome(s, r).commands = s.commands
  BY <1>2, <1>3 DEF Shared, States
<1>5. QED
  BY <1>3, <1>4 DEF o

LEMMA AnnouncedSays ==
  ASSUME NEW s \in Shared
  PROVE  /\ Announced(s) \in Shared
         /\ Announced(s).chan = s.chan /\ Announced(s).mag = s.mag
         /\ Announced(s).commands = s.commands
         /\ Announced(s).op.action = s.op.action /\ Announced(s).op.outcome = s.op.outcome
<1> DEFINE op == [s.op EXCEPT !.attempted = TRUE]
<1>1. op \in Operations /\ op.action = s.op.action /\ op.outcome = s.op.outcome
  BY DEF Shared, Operations
<1>2. Announced(s) = [s EXCEPT !.op = op, !.desc = FALSE]
  BY DEF Announced, Shared
<1> HIDE DEF op
<1>3. QED
  BY <1>1, <1>2 DEF Shared

LEMMA VerifiedSays ==
  ASSUME NEW s \in Shared, NEW c \in Dos
  PROVE  /\ Verified(s, c) \in Shared
         /\ Verified(s, c).chan = s.chan /\ Verified(s, c).mag = s.mag
         /\ Verified(s, c).commands = s.commands
         /\ Verified(s, c).op.action = s.op.action
         /\ Verified(s, c).op.outcome = IF c = "save" THEN "Unverified" ELSE "Succeeded"
<1> DEFINE v == s.op.verified \/ c # "save"
           o == IF c = "save" THEN "Unverified" ELSE "Succeeded"
           op == [s.op EXCEPT !.verified = v, !.outcome = o]
<1>1. v \in BOOLEAN /\ o \in Outcomes
  BY DEF Outcomes
<1>2. Verified(s, c) = [s EXCEPT !.op = op]
  BY DEF Verified, Shared, Operations
<1> HIDE DEF v, o
<1>3. op \in Operations /\ op.action = s.op.action /\ op.outcome = o
  BY <1>1 DEF Shared, Operations
<1> HIDE DEF op
<1>4. /\ Verified(s, c) \in Shared /\ Verified(s, c).op = op
      /\ Verified(s, c).chan = s.chan /\ Verified(s, c).mag = s.mag
      /\ Verified(s, c).commands = s.commands
  BY <1>2, <1>3 DEF Shared
<1>5. QED
  BY <1>3, <1>4 DEF o

\* A call that starts a task.
LEMMA LaunchSays ==
  ASSUME TypeOK, NEW do \in Dos \ {"none"}, Launches(do)
  PROVE  /\ shared' \in Shared /\ task' \in Tasks
         /\ task'.alive /\ task'.dev = TheDevice /\ task'.do = do /\ task'.step = "work"
         /\ task'.kind = KindOf(do) /\ ~task'.cancel /\ task'.result = "Complete"
         /\ ~shared'.mag.error
         /\ do = "magnetic" => /\ shared'.commands /\ shared'.chan = "none"
                               /\ shared'.op.outcome = "None"
         /\ shared'.chan \in {"none", shared.chan}
<1> DEFINE s == Stopped(shared)
           c == Configured(s, TheDevice, do = "track")
<1>1. s \in Shared /\ s.chan = shared.chan
  BY DEF Stopped, TypeOK, Shared, States, Endings
<1> HIDE DEF s
<1>2. c \in Shared /\ c.chan = s.chan
  <2>1. Closed \in Sessions /\ TheDevice \in Devs /\ "Idle" \in States
        /\ (do = "track") \in BOOLEAN
    BY ClosedIsASession, TheDeviceIsADevice DEF Devs, States
  <2> DEFINE desc == s.desc /\ s.config = TheDevice
             new == [s EXCEPT !.config = TheDevice, !.tracking = (do = "track"), !.mag = Closed,
                              !.state = "Idle", !.desc = desc]
  <2>2. c = s \/ c = new
    BY <1>1 DEF Configured, Shared
  <2>3. desc \in BOOLEAN
    BY <1>1 DEF Shared
  <2> HIDE DEF desc
  <2>4. new \in Shared /\ new.chan = s.chan
    BY <1>1, <2>1, <2>3 DEF Shared
  <2> HIDE DEF c, new
  <2>5. QED
    BY <1>1, <2>2, <2>4
<1> HIDE DEF c
<1>3. shared' = Started(c, do)
  BY DEF Launches, c, s
<1>4. /\ Closed \in Sessions /\ ~Closed.error /\ NoOperation \in Operations
      /\ NoOperation.outcome = "None"
  BY ClosedIsASession DEF Closed, NoOperation
<1>5. /\ Started(c, do) \in Shared
      /\ ~Started(c, do).mag.error
      /\ do = "magnetic" => /\ Started(c, do).commands /\ Started(c, do).chan = "none"
                            /\ Started(c, do).op.outcome = "None"
      /\ Started(c, do).chan \in {"none", c.chan}
  <2> DEFINE run(a) == [NoOperation EXCEPT !.action = a, !.outcome = "Running"]
  <2>1. \A a \in Dos : run(a) \in Operations
    BY OperationIsOne DEF Outcomes
  <2>2. CASE do \in {"inspect", "connect", "apply"}
    <3>1. Started(c, do) = [c EXCEPT !.state = "Inspecting", !.mag = Closed, !.desc = FALSE,
                                     !.op = run("inspect")]
      BY <2>2 DEF Started
    <3>2. run("inspect") \in Operations
      BY <2>1 DEF Dos
    <3> HIDE DEF run
    <3>3. QED
      BY <2>2, <3>1, <3>2, <1>2, <1>4 DEF Shared, States
  <2>3. CASE do = "magnetic"
    <3>1. Started(c, do) = [c EXCEPT !.state = "Connecting", !.mag = Closed, !.desc = FALSE,
                              !.op = NoOperation, !.commands = TRUE, !.chan = "none"]
      BY <2>3 DEF Started
    <3>2. QED
      BY <2>3, <3>1, <1>2, <1>4 DEF Shared, States
  <2>4. CASE do = "scan"
    BY <2>4, <1>2, <1>4 DEF Started, Shared, States
  <2>5. CASE do = "track"
    BY <2>5, <1>2, <1>4 DEF Started, Shared, States
  <2>6. CASE do \notin {"inspect", "connect", "apply", "magnetic", "scan", "track"}
    <3>1. Started(c, do) = [c EXCEPT !.state = "Configuring", !.mag = Closed, !.op = run(do)]
      BY <2>6 DEF Started
    <3>2. run(do) \in Operations
      BY <2>1
    <3> HIDE DEF run
    <3>3. QED
      BY <2>6, <3>1, <3>2, <1>2, <1>4 DEF Shared, States
  <2>7. QED
    BY <2>2, <2>3, <2>4, <2>5, <2>6
<1>6. task' = Launched(do, TheDevice)
  BY DEF Launches
<1>7. KindOf(do) \in {"inspect", "magnetic", "scan", "track", "write"}
  BY DEF KindOf
<1>8. QED
  BY <1>1, <1>2, <1>3, <1>5, <1>6, <1>7, TheDeviceIsADevice DEF Launched, Tasks, Devs, Endings

\* A command sent into the session: accepted, refused, or the session is gone.
LEMMA SendSays ==
  ASSUME TypeOK, NEW c \in Session, SendsInto(c)
  PROVE  /\ shared' \in Shared /\ task' \in Tasks /\ shared'.mag = shared.mag
         /\ Ready => /\ task' = task /\ shared'.chan = c /\ shared'.commands = shared.commands
                     /\ shared'.op.action = c /\ shared'.op.outcome = "Running"
         /\ ~Ready /\ task.alive => UNCHANGED <<shared, task>>
         /\ ~task.alive => /\ task' = NoTask /\ ~shared'.commands
                           /\ shared'.chan = shared.chan /\ shared'.op = shared.op
<1> DEFINE run == [NoOperation EXCEPT !.action = c, !.outcome = "Running"]
<1>1. run \in Operations /\ run.action = c /\ run.outcome = "Running"
  BY OperationIsOne DEF Dos, Session, Outcomes
<1>2. NoTask \in Tasks
  BY DEF NoTask, Tasks, Endings, Devs, Dos
<1>3. Ready => task.alive
  BY DEF Ready
<1>4. CASE Ready
  <2>1. shared' = [shared EXCEPT !.chan = c, !.op = run] /\ task' = task
    BY <1>3, <1>4 DEF SendsInto
  <2> HIDE DEF run
  <2>2. QED
    BY <1>1, <1>3, <1>4, <2>1 DEF TypeOK, Shared
<1>5. CASE ~Ready /\ task.alive
  BY <1>5 DEF SendsInto, TypeOK
<1>6. CASE ~task.alive
  <2>1. shared' = [shared EXCEPT !.commands = FALSE] /\ task' = NoTask
    BY <1>3, <1>6 DEF SendsInto
  <2>2. QED
    BY <1>2, <1>3, <1>6, <2>1 DEF TypeOK, Shared
<1>7. QED
  BY <1>4, <1>5, <1>6

-----------------------------------------------------------------------------
(***************************************************************************)
(* The inductive invariant.                                                *)
(***************************************************************************)

Places == {"begin", "opening", "rotate", "ending", "exited"} \cup Session
            \cup {"ask mag_start", "ask mag_stop", "ask save"}

\* Where each program can be, and what it runs there.
WellPlaced ==
  /\ program \in Magnetic =>
       /\ pc \in Places
       /\ task.alive => task.kind = "magnetic"
       /\ pc = "begin" => owes = {} /\ ~task.alive
  /\ program = "host" => pc \in {"begin", "called", "stopping", "destroying", "exited"}
  /\ pc \in Places \ {"begin", "ending", "exited"} => program \in Magnetic
  /\ pc \in {"copy", "exited"} => ~task.alive
  /\ pc = "exited" /\ program \in Magnetic \cup {"host"} => ~shared.commands

\* Until it ends, a session's program has no result, and nothing was cancelled.
Undecided ==
  program \in Magnetic =>
    /\ pc \notin {"ending", "exited"} =>
         /\ result = "None"
         /\ ~task.cancel /\ task.result # "Stopped" /\ shared.op.outcome # "Cancelled"
    /\ pc # "exited" => code = "None"
    /\ result = "Error" => code \in {"None", "1"}

\* Only an interrupt makes a program exit with 130.
Interrupted ==
  /\ result \in {"Cancelled", "130"} => interrupted
  /\ code = "130" => interrupted
  /\ program = "host" => result # "130" /\ code # "130"

\* The task and its controller agree on what they are doing.
InSession ==
  /\ task.alive /\ task.kind = "magnetic" =>
       /\ shared.commands
       /\ task.step = "announced" => task.do \in Session
  /\ program = "host" /\ task.alive /\ task.kind = "write" /\ task.do = "mag_start" => told

\* A calibration nobody saw the end of is owned by its session, or will be, or
\* was, reported as the failure of that session.
Owed ==
  IF task.alive
    THEN /\ task.kind = "magnetic"
         /\ task.step = "closing" => task.result = "Failed"
         /\ task.step = "ended" => shared.mag.error
         /\ task.step \notin {"closing", "ended"} => shared.mag.owned
    ELSE StopFails
Told == IF program = "host" THEN told ELSE result = "Error" \/ code = "1"
Accounted == program \in Magnetic \cup {"host"} /\ owes # {} => Told \/ Owed

\* The command a session's program waits for is the one queued, the one written
\* and the one reported; before a save, the calibration was seen to end.
OneCommand ==
  program \in Magnetic =>
    /\ shared.chan # "none" =>
         shared.op.outcome = "Running" /\ shared.op.action = shared.chan
    /\ task.alive /\ task.step = "announced" =>
         /\ shared.chan = "none" /\ shared.op.outcome = "Running"
         /\ shared.op.action = task.do
    /\ pc \in Session => shared.op.action = pc
    /\ pc \in {"opening", "rotate", "ask mag_start", "ask mag_stop", "ask save"} =>
         shared.op.outcome # "Running"
    /\ pc = "mag_stop" /\ shared.op.outcome \in {"Succeeded", "Unverified"} => owes = {}
    /\ pc = "ask save" => owes = {}

IInv ==
  /\ TypeOK /\ WellPlaced /\ Undecided /\ Interrupted /\ InSession /\ Accounted /\ OneCommand

-----------------------------------------------------------------------------
(***************************************************************************)
(* The programs.                                                           *)
(***************************************************************************)

LEMMA InitInv == Init => IInv
<1> SUFFICES ASSUME Init PROVE IInv
  OBVIOUS
<1>1. Closed \in Sessions /\ NoOperation \in Operations
  BY ClosedIsASession
<1>2. shared \in Shared
  BY <1>1 DEF Init, TaskInit, Shared, States, Devs
<1>3. task \in Tasks /\ task = NoTask
  BY DEF Init, TaskInit, NoTask, Tasks, Endings, Devs, Dos
<1>4. shared.chan = "none" /\ shared.op.outcome = "None"
  BY DEF Init, TaskInit, NoOperation
<1>5. TypeOK
  BY <1>2, <1>3 DEF Init, TaskInit, TypeOK, NoTask
<1>6. WellPlaced /\ Undecided /\ Interrupted /\ InSession /\ Accounted /\ OneCommand
  BY <1>3, <1>4 DEF Init, TaskInit, NoTask, WellPlaced, Places, Undecided, Interrupted,
     InSession, Accounted, OneCommand, Session
<1>7. QED
  BY <1>5, <1>6 DEF IInv

LEMMA CancelledTask ==
  ASSUME task \in Tasks, task' = [task EXCEPT !.cancel = TRUE]
  PROVE  /\ task' \in Tasks
         /\ task'.kind = task.kind /\ task'.dev = task.dev /\ task'.do = task.do
         /\ task'.step = task.step /\ task'.result = task.result /\ task'.alive = task.alive
BY DEF Tasks

\* What changes neither the task nor the controller's state changes no promise.
LEMMA CommandLineQuiet ==
  ASSUME IInv, UNCHANGED <<calsw, owes, program, interrupted, told, code, shared>>,
         task' \in Tasks,
         /\ task'.kind = task.kind /\ task'.dev = task.dev /\ task'.do = task.do
         /\ task'.step = task.step /\ task'.result = task.result /\ task'.alive = task.alive,
         program \in Magnetic => result = "None" /\ code = "None"
  PROVE  TypeOK' /\ InSession' /\ Accounted'
<1>1. TypeOK'
  BY DEF IInv, TypeOK
<1>2. InSession'
  BY DEF IInv, InSession
<1>3. Accounted'
  <2>1. Owed' <=> Owed
    BY DEF Owed, StopFails
  <2>2. program \in Magnetic \cup {"host"} => (Told => Told')
    BY DEF Told, Magnetic
  <2>3. QED
    BY <2>1, <2>2 DEF IInv, Accounted
<1>4. QED
  BY <1>1, <1>2, <1>3

LEMMA GivesStep ==
  ASSUME IInv, NEW r, Gives(r), UNCHANGED <<calsw, owes, program, interrupted, told, code>>,
         program # "host", pc \notin {"copy", "exited", "ending"},
         r \in {"Cancelled", "130"} => interrupted
  PROVE  IInv'
<1>1. /\ task' = [task EXCEPT !.cancel = TRUE] /\ shared' = shared
      /\ pc' = "ending" /\ result' = r
  BY DEF Gives
<1>2. /\ task' \in Tasks
      /\ task'.kind = task.kind /\ task'.dev = task.dev /\ task'.do = task.do
      /\ task'.step = task.step /\ task'.result = task.result /\ task'.alive = task.alive
  BY <1>1, CancelledTask DEF IInv, TypeOK
<1>3. program \in Magnetic => result = "None" /\ code = "None"
  BY DEF IInv, Undecided
<1>4. TypeOK' /\ InSession' /\ Accounted'
  BY <1>1, <1>2, <1>3, CommandLineQuiet
<1>5. WellPlaced' /\ Undecided' /\ Interrupted'
  BY <1>1, <1>2, <1>3 DEF IInv, WellPlaced, Places, Undecided, Interrupted
<1>6. OneCommand'
  BY <1>1, <1>2 DEF IInv, OneCommand, Session
<1>7. QED
  BY <1>4, <1>5, <1>6 DEF IInv

LEMMA GotoStep ==
  ASSUME IInv, NEW p, Goto(p), UNCHANGED <<calsw, owes, program, interrupted, told, code>>,
         program # "host", p \notin {"copy", "exited", "begin", "ending"},
         p \in Places => program \in Magnetic,
         program \in Magnetic =>
           /\ pc \notin {"ending", "exited"}
           /\ p \in {"rotate", "ask mag_start", "ask mag_stop", "ask save"}
           /\ shared.op.outcome # "Running"
           /\ p = "ask save" => owes = {}
  PROVE  IInv'
<1>1. UNCHANGED <<task, shared, result>> /\ pc' = p
  BY DEF Goto
<1>2. program \in Magnetic => result = "None" /\ code = "None"
  BY DEF IInv, Undecided
<1>3. TypeOK' /\ InSession' /\ Accounted'
  BY <1>1, <1>2, CommandLineQuiet DEF IInv, TypeOK
<1>4. WellPlaced' /\ Undecided' /\ Interrupted'
  BY <1>1 DEF IInv, WellPlaced, Places, Undecided, Interrupted
<1>5. OneCommand'
  BY <1>1 DEF IInv, OneCommand, Session
<1>6. QED
  BY <1>3, <1>4, <1>5 DEF IInv

LEMMA InterruptStep ==
  ASSUME IInv, Interrupt
  PROVE  IInv'
BY DEF IInv, Interrupt, taskVars, TypeOK, WellPlaced, Undecided, Interrupted, InSession, Accounted,
   Told, Owed, StopFails, OneCommand

LEMMA StartsStep ==
  ASSUME IInv, Starts
  PROVE  IInv'
<1>1. /\ pc = "begin" /\ program \in CommandLine /\ program # "host"
      /\ UNCHANGED <<calsw, owes, program, interrupted, told, code>>
  BY DEF Starts, Aside, CommandLine, Waiting, Magnetic, Streaming
<1>2. CASE Gives("Error")
  BY <1>1, <1>2, GivesStep
<1>3. CASE Launches(TaskOf) /\ pc' = FirstWait /\ UNCHANGED result
  <2>1. TaskOf \in Dos \ {"none"} /\ (program \in Magnetic => TaskOf = "magnetic")
    BY <1>1 DEF TaskOf, Dos, CommandLine, Waiting, Magnetic, Streaming
  <2>2. program \in Magnetic => FirstWait = "opening"
    BY DEF FirstWait, Streaming, Magnetic
  <2>3. /\ FirstWait \in {"stream", "opening", "wait"}
        /\ FirstWait = "opening" => program \in Magnetic
    BY DEF FirstWait
  <2>4. /\ shared' \in Shared /\ task' \in Tasks
        /\ task'.alive /\ task'.dev = TheDevice /\ task'.do = TaskOf /\ task'.step = "work"
        /\ task'.kind = KindOf(TaskOf) /\ ~task'.cancel /\ task'.result = "Complete"
        /\ TaskOf = "magnetic" => /\ shared'.commands /\ shared'.chan = "none"
                                  /\ shared'.op.outcome = "None"
    BY <1>3, <2>1, LaunchSays DEF IInv
  <2>5. /\ KindOf(TaskOf) = "magnetic" => TaskOf = "magnetic"
        /\ KindOf("magnetic") = "magnetic"
    BY DEF KindOf
  <2>6. program \in Magnetic => owes = {}
    BY <1>1 DEF IInv, WellPlaced
  <2>7. TypeOK' /\ InSession' /\ Accounted'
    BY <1>1, <1>3, <2>4, <2>5, <2>6 DEF IInv, TypeOK, InSession, Accounted
  <2>8. WellPlaced' /\ Undecided' /\ Interrupted'
    BY <1>1, <1>3, <2>1, <2>2, <2>3, <2>4, <2>5
    DEF IInv, WellPlaced, Places, Session, Undecided, Interrupted
  <2>9. OneCommand'
    BY <1>1, <1>3, <2>1, <2>2, <2>4 DEF IInv, OneCommand, Session
  <2>10. QED
    BY <2>7, <2>8, <2>9 DEF IInv
<1>4. QED
  BY <1>2, <1>3 DEF Starts

LEMMA NoTaskIsATask ==
  /\ NoTask \in Tasks /\ ~NoTask.alive /\ ~NoTask.cancel /\ NoTask.result = "Complete"
  /\ NoTask.step = "ended" /\ NoTask.kind = "none"
BY DEF NoTask, Tasks, Endings, Devs, Dos

LEMMA StoppedSays ==
  ASSUME NEW s \in Shared
  PROVE  /\ Stopped(s) \in Shared /\ ~Stopped(s).commands
         /\ Stopped(s).chan = s.chan /\ Stopped(s).op = s.op /\ Stopped(s).mag = s.mag
BY DEF Stopped, Shared, States, Endings

LEMMA WaitOperationStep ==
  ASSUME IInv, WaitOperation
  PROVE  IInv'
<1>1. /\ pc = "wait" /\ UNCHANGED <<calsw, owes, program, interrupted, told, code>>
      /\ program # "host"
  BY DEF WaitOperation, Aside, IInv, WellPlaced
<1>2. Gives("Ok") \/ Gives("Error") \/ (interrupted /\ Gives("Cancelled"))
  BY DEF WaitOperation
<1>3. QED
  BY <1>1, <1>2, GivesStep

LEMMA StreamStep ==
  ASSUME IInv, Stream
  PROVE  IInv'
<1>1. /\ pc = "stream" /\ UNCHANGED <<calsw, owes, program, interrupted, told, code>>
      /\ program # "host"
  BY DEF Stream, Aside, IInv, WellPlaced
<1>2. Gives("Ok") \/ Gives("Error")
  BY DEF Stream, Streamed
<1>3. QED
  BY <1>1, <1>2, GivesStep

\* A session's program is at no other place than its own.
LEMMA PlaceOfASession ==
  ASSUME IInv, pc \in {"opening", "rotate", "ask mag_start", "ask mag_stop", "ask save"} \cup Session
  PROVE  /\ program \in Magnetic /\ program # "host"
         /\ pc \notin {"copy", "exited", "ending", "begin"}
         /\ result = "None" /\ code = "None"
         /\ ~task.cancel /\ task.result # "Stopped" /\ shared.op.outcome # "Cancelled"
BY DEF IInv, WellPlaced, Places, Undecided, Session, Magnetic

LEMMA MagneticOpensStep ==
  ASSUME IInv, MagneticOpens
  PROVE  IInv'
<1>1. pc = "opening" /\ UNCHANGED <<calsw, owes, program, interrupted, told, code>>
  BY DEF MagneticOpens, Aside
<1>2. /\ program \in Magnetic /\ program # "host"
      /\ pc \notin {"copy", "exited", "ending", "begin"}
  BY <1>1, PlaceOfASession
<1>3. \/ Gives("Error")
      \/ interrupted /\ Gives("Cancelled")
      \/ Goto("rotate") \/ Goto("ask mag_start")
  BY DEF MagneticOpens
<1>4. program \in Magnetic => shared.op.outcome # "Running"
  BY <1>1 DEF IInv, OneCommand
<1>5. QED
  BY <1>1, <1>2, <1>3, <1>4, GivesStep, GotoStep

LEMMA RotatesStep ==
  ASSUME IInv, Rotates
  PROVE  IInv'
<1>1. pc = "rotate" /\ UNCHANGED <<calsw, owes, program, interrupted, told, code>>
  BY DEF Rotates, Aside
<1>2. /\ program \in Magnetic /\ program # "host"
      /\ pc \notin {"copy", "exited", "ending", "begin"}
  BY <1>1, PlaceOfASession
<1>3. \/ Gives("Error") \/ Gives("Ok")
      \/ interrupted /\ Gives("Cancelled")
      \/ Goto("ask mag_stop")
  BY DEF Rotates, GoesOn, Following
<1>4. program \in Magnetic => shared.op.outcome # "Running"
  BY <1>1 DEF IInv, OneCommand
<1>5. QED
  BY <1>1, <1>2, <1>3, <1>4, GivesStep, GotoStep

LEMMA AsksStep ==
  ASSUME IInv, NEW c \in Session, Asks(c)
  PROVE  IInv'
<1>0. /\ AskFor["mag_start"] = "ask mag_start" /\ AskFor["mag_stop"] = "ask mag_stop"
      /\ AskFor["save"] = "ask save"
  BY DEF AskFor
<1>1. /\ pc \in {"ask mag_start", "ask mag_stop", "ask save"}
      /\ UNCHANGED <<calsw, owes, program, interrupted, told, code>>
  BY <1>0 DEF Asks, Aside, Session
<1>2. /\ program \in Magnetic /\ program # "host"
      /\ pc \notin {"copy", "exited", "ending", "begin"}
      /\ result = "None" /\ code = "None"
      /\ ~task.cancel /\ task.result # "Stopped" /\ shared.op.outcome # "Cancelled"
  BY <1>1, PlaceOfASession
<1>3. CASE interrupted
  BY <1>1, <1>2, <1>3, GivesStep DEF Asks
<1>4. ASSUME SendsInto(c)
      PROVE  /\ shared' \in Shared /\ task' \in Tasks /\ shared'.mag = shared.mag
             /\ Ready => /\ task' = task /\ shared'.chan = c /\ shared'.commands = shared.commands
                         /\ shared'.op.action = c /\ shared'.op.outcome = "Running"
             /\ ~Ready /\ task.alive => UNCHANGED <<shared, task>>
             /\ ~task.alive => /\ task' = NoTask /\ ~shared'.commands
                               /\ shared'.chan = shared.chan /\ shared'.op = shared.op
  BY <1>4, SendSays DEF IInv
<1>5. CASE ~interrupted /\ Ready
  <2>1. SendsInto(c) /\ pc' = c /\ UNCHANGED <<result, pose>>
    BY <1>5 DEF Asks
  <2>2. /\ shared' \in Shared /\ task' = task /\ shared'.mag = shared.mag
        /\ shared'.chan = c /\ shared'.commands = shared.commands
        /\ shared'.op.action = c /\ shared'.op.outcome = "Running"
    BY <1>4, <1>5, <2>1
  <2>3. task.alive /\ shared.op.outcome # "Running"
    BY <1>5 DEF Ready, Busy
  <2>4. TypeOK' /\ InSession'
    BY <1>1, <2>2 DEF IInv, TypeOK, InSession
  <2>5. Accounted'
    BY <1>1, <2>1, <2>2 DEF IInv, Accounted, Told, Owed, StopFails
  <2>6. WellPlaced' /\ Undecided' /\ Interrupted'
    BY <1>1, <1>2, <2>1, <2>2, <2>3 DEF IInv, WellPlaced, Places, Undecided, Interrupted, Session
  <2>7. OneCommand'
    BY <1>1, <2>1, <2>2, <2>3 DEF IInv, OneCommand, Session
  <2>8. QED
    BY <2>4, <2>5, <2>6, <2>7 DEF IInv
<1>6. CASE ~interrupted /\ ~Ready
  <2>1. SendsInto(c) /\ result' = "Error" /\ pc' = "ending" /\ UNCHANGED pose
    BY <1>6 DEF Asks
  <2>2. /\ shared' \in Shared /\ shared'.mag = shared.mag
        /\ shared'.chan = shared.chan /\ shared'.op = shared.op
        /\ task' = task \/ (task' = NoTask /\ ~task.alive)
        /\ shared'.commands => shared.commands
        /\ task' = task => shared'.commands = shared.commands \/ ~task.alive
    BY <1>4, <1>6, <2>1
  <2>3. TypeOK' /\ InSession'
    BY <1>1, <2>2, NoTaskIsATask DEF IInv, TypeOK, InSession
  <2>4. Accounted'
    BY <1>1, <1>2, <2>1 DEF Accounted, Told
  <2>5. WellPlaced' /\ Undecided' /\ Interrupted'
    BY <1>1, <1>2, <2>1, <2>2, NoTaskIsATask
    DEF IInv, WellPlaced, Places, Undecided, Interrupted, Session
  <2>6. OneCommand'
    BY <1>1, <2>1, <2>2, NoTaskIsATask DEF IInv, OneCommand, Session
  <2>7. QED
    BY <2>3, <2>4, <2>5, <2>6 DEF IInv
<1>7. QED
  BY <1>3, <1>5, <1>6

LEMMA AwaitsStep ==
  ASSUME IInv, NEW c \in Session, Awaits(c)
  PROVE  IInv'
<1>1. pc = c /\ UNCHANGED <<calsw, owes, program, interrupted, told, code>>
  BY DEF Awaits, Aside
<1>2. /\ program \in Magnetic /\ program # "host"
      /\ pc \notin {"copy", "exited", "ending", "begin"}
      /\ shared.op.outcome # "Cancelled"
  BY <1>1, PlaceOfASession
<1>3. \/ Gives("Error") \/ Gives("Ok")
      \/ (interrupted \/ shared.op.outcome = "Cancelled") /\ Gives("Cancelled")
      \/ /\ c = "mag_start" /\ shared.op.outcome # "Running" /\ Goto("rotate")
      \/ /\ c = "mag_stop" /\ shared.op.outcome \in {"Succeeded", "Unverified"}
         /\ Goto("ask save")
  BY DEF Awaits, GoesOn, Following, Session, Busy
<1>5. CASE c = "mag_stop" /\ shared.op.outcome \in {"Succeeded", "Unverified"} /\ Goto("ask save")
  <2>1. owes = {}
    BY <1>1, <1>2, <1>5 DEF IInv, OneCommand
  <2>2. QED
    BY <1>1, <1>2, <1>5, <2>1, GotoStep
<1>6. QED
  BY <1>1, <1>2, <1>3, <1>5, GivesStep, GotoStep

LEMMA ExitsStep ==
  ASSUME IInv, Exits
  PROVE  IInv'
<1>1. /\ pc = "ending" /\ program \in CommandLine /\ ~task.alive /\ program # "host"
      /\ code' = CodeOf(result, StopFails) /\ pc' = "exited"
      /\ shared' = Stopped(shared) /\ task' = NoTask
      /\ UNCHANGED <<result, calsw, owes, program, interrupted, told>>
  BY DEF Exits, Aside, CommandLine, Waiting, Magnetic, Streaming
<1>2. /\ shared' \in Shared /\ ~shared'.commands /\ task' \in Tasks /\ ~task'.alive
      /\ shared'.chan = shared.chan /\ shared'.op = shared.op
  BY <1>1, StoppedSays, NoTaskIsATask DEF IInv, TypeOK
<1>3. /\ code' \in {"0", "1", "130"} /\ (code' = "130" => result = "Cancelled")
      /\ result = "Error" \/ StopFails => code' = "1"
  BY <1>1 DEF CodeOf
<1>4. TypeOK' /\ InSession'
  BY <1>1, <1>2 DEF IInv, TypeOK, InSession
<1>5. Accounted'
  <2>1. program \in Magnetic => code = "None"
    BY <1>1 DEF IInv, Undecided
  <2>2. QED
    BY <1>1, <1>3, <2>1 DEF IInv, Accounted, Told, Owed
<1>6. WellPlaced' /\ Undecided' /\ Interrupted'
  BY <1>1, <1>2, <1>3 DEF IInv, WellPlaced, Places, Undecided, Interrupted
<1>7. OneCommand'
  BY <1>1, <1>2 DEF IInv, OneCommand, Session
<1>8. QED
  BY <1>4, <1>5, <1>6, <1>7 DEF IInv

LEMMA HostStartsStep ==
  ASSUME IInv, HostStarts
  PROVE  IInv'
<1>1. /\ pc = "begin" /\ program = "consumer" /\ program # "host" /\ program \notin Magnetic
      /\ UNCHANGED <<code, calsw, owes, program, interrupted, told>>
  BY DEF HostStarts, Magnetic
<1>2. CASE Gives("1")
  BY <1>1, <1>2, GivesStep
<1>3. CASE Launches("track") /\ pc' = "pose" /\ UNCHANGED result
  <2>1. /\ shared' \in Shared /\ task' \in Tasks
        /\ task'.dev = TheDevice /\ task'.kind = KindOf("track") /\ KindOf("track") = "track"
    BY <1>3, LaunchSays DEF IInv, Dos, KindOf
  <2>2. TypeOK' /\ InSession' /\ Accounted'
    BY <1>1, <2>1 DEF IInv, TypeOK, InSession, Accounted
  <2>3. WellPlaced' /\ Undecided' /\ Interrupted' /\ OneCommand'
    BY <1>1, <1>3 DEF IInv, WellPlaced, Places, Session, Undecided, Interrupted, OneCommand
  <2>4. QED
    BY <2>2, <2>3 DEF IInv
<1>4. QED
  BY <1>2, <1>3 DEF HostStarts

LEMMA HostPollsStep ==
  ASSUME IInv, HostPolls
  PROVE  IInv'
<1>1. /\ pc = "pose" /\ program # "host" /\ program \notin Magnetic
      /\ UNCHANGED <<code, calsw, owes, program, interrupted, told>>
  BY DEF HostPolls, IInv, WellPlaced, Places, Session
<1>2. \/ interrupted /\ Gives("130")
      \/ Gives("0") \/ Gives("2") \/ Goto("status")
  BY DEF HostPolls
<1>3. "status" \notin Places
  BY DEF Places, Session
<1>4. QED
  BY <1>1, <1>2, <1>3, GivesStep, GotoStep

LEMMA HostLooksStep ==
  ASSUME IInv, HostLooks
  PROVE  IInv'
<1>1. /\ pc = "status" /\ program # "host" /\ program \notin Magnetic
      /\ UNCHANGED <<code, calsw, owes, program, interrupted, told>>
  BY DEF HostLooks, IInv, WellPlaced, Places, Session
<1>2. Gives("1") \/ Goto("pose")
  BY DEF HostLooks
<1>3. "pose" \notin Places
  BY DEF Places, Session
<1>4. QED
  BY <1>1, <1>2, <1>3, GivesStep, GotoStep

LEMMA HostStopsStep ==
  ASSUME IInv, HostStops
  PROVE  IInv'
<1>1. /\ pc = "ending" /\ program = "consumer" /\ program # "host" /\ program \notin Magnetic
      /\ ~task.alive /\ result' \in {"1", result} /\ pc' = "copy"
      /\ shared' = Stopped(shared) /\ task' = NoTask
      /\ UNCHANGED <<code, calsw, owes, program, interrupted, told>>
  BY DEF HostStops, Magnetic
<1>2. shared' \in Shared /\ task' \in Tasks /\ ~task'.alive
  BY <1>1, StoppedSays, NoTaskIsATask DEF IInv, TypeOK
<1>3. TypeOK' /\ InSession' /\ Accounted'
  BY <1>1, <1>2 DEF IInv, TypeOK, InSession, Accounted
<1>4. WellPlaced' /\ Undecided' /\ Interrupted' /\ OneCommand'
  BY <1>1, <1>2 DEF IInv, WellPlaced, Places, Session, Undecided, Interrupted, OneCommand
<1>5. QED
  BY <1>3, <1>4 DEF IInv

LEMMA HostCopiesStep ==
  ASSUME IInv, HostCopies
  PROVE  IInv'
<1>1. /\ pc = "copy" /\ program # "host" /\ program \notin Magnetic
      /\ UNCHANGED <<task, shared, calsw, owes, result, program, interrupted, told>>
      /\ pc' \in {"copy", "exited"} /\ code' \in {result, "1", code}
  BY DEF HostCopies, taskVars, IInv, WellPlaced, Places, Session
<1>2. TypeOK' /\ InSession' /\ Accounted'
  BY <1>1 DEF IInv, TypeOK, InSession, Accounted
<1>3. WellPlaced' /\ Undecided' /\ Interrupted' /\ OneCommand'
  BY <1>1 DEF IInv, WellPlaced, Places, Session, Undecided, Interrupted, OneCommand
<1>4. QED
  BY <1>2, <1>3 DEF IInv

\* A host is told of what no session of its own will end.
LEMMA IdleStep ==
  ASSUME IInv, program = "host", pc \in {"begin", "called"}, pc' = "called",
         NEW do \in Dos \ {"none"}, Idle(do),
         told' = (told \/ result' = "IO" \/ task' = Launched("mag_start", TheDevice)),
         UNCHANGED <<code, calsw, owes, program, interrupted>>
  PROVE  IInv'
<1>1. program \notin Magnetic
  BY DEF Magnetic
<1>2. /\ result' \in {"BUSY", "IO", "OK"}
      /\ \/ UNCHANGED <<shared, task>>
         \/ ~task.alive /\ result' = "IO" /\ shared' = Stopped(shared) /\ UNCHANGED task
         \/ ~task.alive /\ ~StopFails /\ Launches(do)
  BY DEF Idle, Returns
<1>3. WellPlaced' /\ Undecided' /\ Interrupted' /\ OneCommand'
  BY <1>1, <1>2 DEF IInv, WellPlaced, Places, Session, Undecided, Interrupted, OneCommand
<1>4. CASE UNCHANGED <<shared, task>>
  <2>1. TypeOK' /\ InSession' /\ Accounted'
    BY <1>4 DEF IInv, TypeOK, InSession, Accounted, Told, Owed, StopFails
  <2>2. QED
    BY <1>3, <2>1 DEF IInv
<1>5. CASE ~task.alive /\ result' = "IO" /\ shared' = Stopped(shared) /\ UNCHANGED task
  <2>1. shared' \in Shared
    BY <1>5, StoppedSays DEF IInv, TypeOK
  <2>2. TypeOK' /\ InSession' /\ Accounted'
    BY <1>5, <2>1 DEF IInv, TypeOK, InSession, Accounted, Told
  <2>3. QED
    BY <1>3, <2>2 DEF IInv
<1>6. CASE ~task.alive /\ ~StopFails /\ Launches(do)
  <2>1. /\ shared' \in Shared /\ task' \in Tasks /\ task'.alive /\ task'.dev = TheDevice
        /\ task'.do = do /\ task'.step = "work" /\ task'.kind = KindOf(do)
        /\ do = "magnetic" => shared'.commands
    BY <1>6, LaunchSays DEF IInv
  <2>2. KindOf(do) = "magnetic" => do = "magnetic"
    BY DEF KindOf
  <2>3. task' = Launched(do, TheDevice)
    BY <1>6 DEF Launches
  <2>4. TypeOK' /\ InSession'
    BY <1>1, <2>1, <2>2, <2>3 DEF IInv, TypeOK, InSession
  <2>5. Accounted'
    BY <1>1, <1>6 DEF IInv, Accounted, Told, Owed
  <2>6. QED
    BY <1>3, <2>4, <2>5 DEF IInv
<1>7. QED
  BY <1>2, <1>4, <1>5, <1>6

LEMMA HostCallsStep ==
  ASSUME IInv, HostCalls
  PROVE  IInv'
<1>1. /\ pc \in {"begin", "called"} /\ program = "host" /\ pc' = "called"
      /\ told' = (told \/ result' = "IO" \/ task' = Launched("mag_start", TheDevice))
      /\ UNCHANGED <<code, calsw, owes, program, interrupted>>
  BY DEF HostCalls
<1>2. program \notin Magnetic
  BY <1>1 DEF Magnetic
<1>3. ASSUME NEW do \in Dos \ {"none"}, Idle(do)
      PROVE  IInv'
  BY <1>1, <1>3, IdleStep
<1>4. ASSUME NEW rc \in {"INVALID_ARGUMENT", "OK", "BUSY"}, result' = rc,
             shared' \in Shared, shared'.mag = shared.mag, shared'.commands = shared.commands,
             task' = task
      PROVE  IInv'
  <2>1. TypeOK' /\ InSession' /\ Accounted'
    BY <1>1, <1>2, <1>4 DEF IInv, TypeOK, InSession, Accounted, Told, Owed, StopFails
  <2>2. WellPlaced' /\ Undecided' /\ Interrupted' /\ OneCommand'
    BY <1>1, <1>2, <1>4
    DEF IInv, WellPlaced, Places, Session, Undecided, Interrupted, OneCommand
  <2>3. QED
    BY <2>1, <2>2 DEF IInv
<1>5. CASE Returns("INVALID_ARGUMENT")
  BY <1>4, <1>5 DEF Returns, IInv, TypeOK
<1>6. ASSUME NEW c \in Session, task.alive,
             IF Ready THEN SendsInto(c) /\ result' = "OK" ELSE Returns("BUSY")
      PROVE  IInv'
  <2>1. CASE Ready
    <3>1. SendsInto(c) /\ result' = "OK"
      BY <1>6, <2>1
    <3>2. /\ shared' \in Shared /\ shared'.mag = shared.mag
          /\ shared'.commands = shared.commands /\ task' = task
      BY <2>1, <3>1, SendSays DEF IInv
    <3>3. QED
      BY <1>4, <3>1, <3>2
  <2>2. CASE ~Ready
    BY <1>4, <1>6, <2>2 DEF Returns, IInv, TypeOK
  <2>3. QED
    BY <2>1, <2>2
<1>7. \/ \E do \in {"scan", "inspect", "magnetic", "track"} : Idle(do)
      \/ Returns("INVALID_ARGUMENT")
      \/ \E c \in Session :
           task.alive /\ IF Ready THEN SendsInto(c) /\ result' = "OK" ELSE Returns("BUSY")
      \/ \E c \in Session \cup {"other"} : Idle(c)
  BY DEF HostCalls, Session
<1>8. QED
  BY <1>3, <1>5, <1>6, <1>7 DEF Dos, Session

LEMMA HostEndsStep ==
  ASSUME IInv, HostEnds
  PROVE  IInv'
<1>1. /\ program = "host" /\ pc' \in {"stopping", "destroying"}
      /\ task' = [task EXCEPT !.cancel = TRUE]
      /\ UNCHANGED <<shared, result, code, calsw, owes, program, interrupted, told>>
  BY DEF HostEnds
<1>2. program \notin Magnetic
  BY <1>1 DEF Magnetic
<1>3. /\ task' \in Tasks
      /\ task'.kind = task.kind /\ task'.dev = task.dev /\ task'.do = task.do
      /\ task'.step = task.step /\ task'.result = task.result /\ task'.alive = task.alive
  BY <1>1, CancelledTask DEF IInv, TypeOK
<1>4. TypeOK' /\ InSession' /\ Accounted'
  BY <1>1, <1>2, <1>3, CommandLineQuiet
<1>5. WellPlaced' /\ Undecided' /\ Interrupted' /\ OneCommand'
  BY <1>1, <1>2 DEF IInv, WellPlaced, Places, Session, Undecided, Interrupted, OneCommand
<1>6. QED
  BY <1>4, <1>5 DEF IInv

LEMMA HostJoinsStep ==
  ASSUME IInv, HostJoins
  PROVE  IInv'
<1>1. /\ pc \in {"stopping", "destroying"} /\ ~task.alive
      /\ result' \in {"IO", "OK"} /\ told' = (told \/ StopFails)
      /\ shared' = Stopped(shared) /\ task' = NoTask
      /\ pc' \in {"called", "exited"} /\ code' \in {code, "1", "0"}
      /\ UNCHANGED <<calsw, owes, program, interrupted>>
  BY DEF HostJoins
<1>2. program \notin Magnetic
  BY <1>1 DEF IInv, WellPlaced, Places, Session
<1>3. shared' \in Shared /\ ~shared'.commands /\ task' \in Tasks /\ ~task'.alive
  BY <1>1, StoppedSays, NoTaskIsATask DEF IInv, TypeOK
<1>4. TypeOK' /\ InSession' /\ Accounted'
  BY <1>1, <1>2, <1>3 DEF IInv, TypeOK, InSession, Accounted, Told, Owed
<1>5. WellPlaced' /\ Undecided' /\ Interrupted' /\ OneCommand'
  BY <1>1, <1>2, <1>3
  DEF IInv, WellPlaced, Places, Session, Undecided, Interrupted, OneCommand
<1>6. QED
  BY <1>4, <1>5 DEF IInv

-----------------------------------------------------------------------------
(***************************************************************************)
(* The acquisition and the task.                                           *)
(***************************************************************************)

\* The state an acquisition publishes is no part of any promise.
LEMMA StateStep ==
  ASSUME IInv, NEW state \in States, shared' = [shared EXCEPT !.state = state],
         UNCHANGED <<task, calsw, owes, program, pc, interrupted, result, code, told>>
  PROVE  IInv'
<1>1. /\ shared' \in Shared /\ shared'.op = shared.op /\ shared'.chan = shared.chan
      /\ shared'.mag = shared.mag /\ shared'.commands = shared.commands
  BY DEF IInv, TypeOK, Shared
<1>2. TypeOK'
  BY <1>1 DEF IInv, TypeOK
<1>3. WellPlaced' /\ Interrupted'
  BY <1>1 DEF IInv, WellPlaced, Interrupted
<1>4. Undecided' /\ InSession'
  BY <1>1 DEF IInv, Undecided, InSession
<1>5. Accounted'
  BY <1>1 DEF IInv, Accounted, Told, Owed, StopFails
<1>6. OneCommand'
  BY <1>1 DEF IInv, OneCommand
<1>7. QED
  BY <1>2, <1>3, <1>4, <1>5, <1>6 DEF IInv

LEMMA AcquiresStep ==
  ASSUME IInv, Acquires
  PROVE  IInv'
<1>1. UNCHANGED <<task, calsw, owes, program, pc, interrupted, result, code, told>>
  BY DEF Acquires
<1>2. shared \in Shared /\ shared.state \in States
  BY DEF IInv, TypeOK, Shared
<1>3. \E state \in States : shared' = [shared EXCEPT !.state = state]
  <2>1. shared = [shared EXCEPT !.state = shared.state]
    BY <1>2 DEF Shared
  <2>2. {"Connecting", "Active", "Stale"} \subseteq States
    BY DEF States
  <2>3. CASE Connects
    BY <2>2, <2>3 DEF Connects
  <2>4. CASE Publishes
    BY <2>2, <2>4 DEF Publishes
  <2>5. CASE Ages
    BY <1>2, <2>1, <2>2, <2>5 DEF Ages
  <2>6. QED
    BY <2>3, <2>4, <2>5 DEF Acquires
<1>4. QED
  BY <1>1, <1>3, StateStep

LEMMA DeviceLeavesStep ==
  ASSUME IInv, DeviceLeaves
  PROVE  IInv'
<1>1. UNCHANGED <<task, shared, owes, programVars>> /\ calsw' \in [Devices -> BOOLEAN]
  BY DEF DeviceLeaves, IInv, TypeOK
<1>2. TypeOK'
  BY <1>1 DEF IInv, TypeOK
<1>3. WellPlaced' /\ Interrupted'
  BY <1>1 DEF IInv, WellPlaced, Interrupted, programVars
<1>4. Undecided' /\ InSession'
  BY <1>1 DEF IInv, Undecided, InSession, programVars
<1>5. Accounted'
  BY <1>1 DEF IInv, Accounted, Told, Owed, StopFails, programVars
<1>6. OneCommand'
  BY <1>1 DEF IInv, OneCommand, programVars
<1>7. QED
  BY <1>2, <1>3, <1>4, <1>5, <1>6 DEF IInv

\* What the steps of the task have in common.
Moves ==
  /\ task.alive /\ UNCHANGED programVars
  /\ shared' \in Shared /\ task' \in Tasks
  /\ calsw' \in [Devices -> BOOLEAN] /\ owes' \subseteq {TheDevice}
  /\ task'.alive /\ task'.kind = task.kind /\ task'.dev = task.dev
  /\ task'.cancel = task.cancel

LEMMA MovesStep ==
  ASSUME IInv, Moves
  PROVE  TypeOK' /\ WellPlaced' /\ Interrupted'
BY DEF Moves, IInv, TypeOK, WellPlaced, Interrupted, programVars

\* A step of the task on the state of its device.
LEMMA TaskFacts ==
  ASSUME IInv, task.alive
  PROVE  /\ shared \in Shared /\ task \in Tasks /\ calsw \in [Devices -> BOOLEAN]
         /\ Device = TheDevice /\ Device \in Devices /\ calsw[Device] \in BOOLEAN
         /\ owes \subseteq {TheDevice} /\ owes \ {Device} = {}
         /\ shared.mag \in Sessions /\ shared.op \in Operations
BY TheDeviceIsADevice DEF IInv, TypeOK, Device, Shared

LEMMA GoesSays ==
  ASSUME task \in Tasks, NEW step \in {"work", "ready", "announced", "done", "cleanup", "closing", "ended"},
         Goes(step)
  PROVE  /\ task' \in Tasks /\ task'.step = step
         /\ task'.alive = task.alive /\ task'.kind = task.kind /\ task'.dev = task.dev
         /\ task'.do = task.do /\ task'.cancel = task.cancel /\ task'.result = task.result
BY DEF Goes, Tasks

\* A task other than a session holds no calibration of a session's program.
LEMMA OtherTasks ==
  ASSUME IInv, Moves, task.kind # "magnetic", task'.do = task.do,
         owes' = owes \/ told' \/ owes' = {}
  PROVE  IInv'
<1>1. program \notin Magnetic
  BY DEF Moves, IInv, WellPlaced
<1>2. TypeOK' /\ WellPlaced' /\ Interrupted'
  BY MovesStep
<1>3. InSession' /\ Accounted'
  BY <1>1 DEF Moves, programVars, IInv, InSession, Accounted, Told, Owed
<1>4. Undecided' /\ OneCommand'
  BY <1>1 DEF Moves, programVars, Undecided, OneCommand
<1>5. QED
  BY <1>2, <1>3, <1>4 DEF IInv

LEMMA EndsSays ==
  ASSUME IInv, task.alive, NEW r \in Endings, Ends(r)
  PROVE  /\ task' \in Tasks /\ shared' \in Shared
         /\ task'.alive /\ task'.kind = task.kind /\ task'.dev = task.dev
         /\ task'.do = task.do /\ task'.cancel = task.cancel
BY TaskFacts, OutcomeSays DEF Ends, Tasks

LEMMA ScanCompletesStep ==
  ASSUME IInv, ScanCompletes, UNCHANGED programVars
  PROVE  IInv'
<1>1. task.alive /\ task.kind # "magnetic" /\ Ends("Complete") /\ UNCHANGED <<calsw, owes>>
  BY DEF ScanCompletes, At
<1>2. "Complete" \in Endings
  BY DEF Endings
<1>3. Moves /\ task'.do = task.do
  BY <1>1, <1>2, TaskFacts, EndsSays DEF Moves
<1>4. QED
  BY <1>1, <1>3, OtherTasks

LEMMA WriteCompletesStep ==
  ASSUME IInv, WriteCompletes, UNCHANGED programVars
  PROVE  IInv'
<1>1. task.alive /\ task.kind # "magnetic" /\ Ends("Complete") /\ UNCHANGED <<calsw, owes>>
  BY DEF WriteCompletes, At
<1>2. "Complete" \in Endings
  BY DEF Endings
<1>3. Moves /\ task'.do = task.do
  BY <1>1, <1>2, TaskFacts, EndsSays DEF Moves
<1>4. QED
  BY <1>1, <1>3, OtherTasks

LEMMA InspectCompletesStep ==
  ASSUME IInv, InspectCompletes, UNCHANGED programVars
  PROVE  IInv'
<1>1. /\ task.alive /\ task.kind # "magnetic" /\ UNCHANGED <<calsw, owes>>
      /\ task' = [task EXCEPT !.step = "ended"]
  BY DEF InspectCompletes, At
<1>2. shared \in Shared /\ task \in Tasks /\ calsw[Device] \in BOOLEAN
  BY <1>1, TaskFacts
<1> DEFINE op == [shared.op EXCEPT !.verified = TRUE, !.outcome = "Succeeded"]
           seven == calsw[Device]
<1>3. op \in Operations
  BY <1>2 DEF Shared, Operations, Outcomes
<1>4. shared' = [shared EXCEPT !.state = "Complete", !.desc = seven, !.op = op]
  BY <1>2 DEF InspectCompletes, Shared, Operations
<1> HIDE DEF op, seven
<1>5. shared' \in Shared
  BY <1>2, <1>3, <1>4 DEF Shared, States, Endings, seven
<1>6. Moves /\ task'.do = task.do
  BY <1>1, <1>2, <1>5, TaskFacts DEF Moves, Tasks
<1>7. QED
  BY <1>1, <1>6, OtherTasks

LEMMA WriteAnnouncesStep ==
  ASSUME IInv, WriteAnnounces, UNCHANGED programVars
  PROVE  IInv'
<1>1. /\ task.alive /\ task.kind = "write" /\ UNCHANGED calsw /\ Goes("announced")
      /\ shared' = Announced(shared) /\ owes' = Owing(task.do)
  BY DEF WriteAnnounces, At
<1>2. Moves /\ task'.do = task.do
  BY <1>1, TaskFacts, AnnouncedSays, GoesSays DEF Moves, Owing
<1>3. program \notin Magnetic
  BY <1>1 DEF IInv, WellPlaced
<1>4. CASE task.do = "mag_start" /\ program = "host"
  BY <1>1, <1>2, <1>4, OtherTasks DEF IInv, InSession, programVars
<1>5. CASE task.do # "mag_start"
  BY <1>1, <1>2, <1>5, OtherTasks DEF Owing
<1>6. CASE program # "host"
  <2>1. TypeOK' /\ WellPlaced' /\ Interrupted'
    BY <1>2, MovesStep
  <2>2. InSession' /\ Accounted' /\ Undecided' /\ OneCommand'
    BY <1>1, <1>2, <1>3, <1>6 DEF Moves, programVars, IInv, InSession, Accounted, Undecided, OneCommand
  <2>3. QED
    BY <2>1, <2>2 DEF IInv
<1>7. QED
  BY <1>4, <1>5, <1>6

LEMMA ObeyedIsASwitch ==
  ASSUME IInv, task.alive, NEW c
  PROVE  Obeyed(c) \in [Devices -> BOOLEAN]
<1>1. calsw \in [Devices -> BOOLEAN] /\ (c = "mag_start") \in BOOLEAN
  BY TaskFacts
<1>2. QED
  BY <1>1 DEF Obeyed

LEMMA WriteVerifiesStep ==
  ASSUME IInv, WriteVerifies, UNCHANGED programVars
  PROVE  IInv'
<1>1. /\ task.alive /\ task.kind = "write" /\ Goes("done")
      /\ shared' = Verified(shared, task.do) /\ calsw' = Obeyed(task.do)
      /\ owes' = Paid(task.do)
  BY DEF WriteVerifies, At
<1>2. task.do \in Dos
  BY <1>1, TaskFacts DEF Tasks
<1>3. owes' = owes \/ owes' = {}
  BY <1>1, TaskFacts DEF Paid
<1>4. Moves /\ task'.do = task.do
  BY <1>1, <1>2, <1>3, TaskFacts, VerifiedSays, GoesSays, ObeyedIsASwitch DEF Moves
<1>5. QED
  BY <1>1, <1>3, <1>4, OtherTasks

LEMMA SawSays ==
  ASSUME NEW m \in Sessions, NEW v \in BOOLEAN
  PROVE  /\ Saw(m, v) \in Sessions /\ Saw(m, v).error = m.error
         /\ ~(m.calibrating /\ ~v) => Saw(m, v).owned = m.owned
BY DEF Saw, Sessions

\* A step of the session in which no operation begins or ends.
LEMMA SessionStep ==
  ASSUME IInv, Moves, task.kind = "magnetic",
         task'.do = task.do, task'.result = task.result, task'.step # "announced",
         shared'.commands = shared.commands, shared'.chan = shared.chan,
         shared'.op = shared.op, owes' = owes \/ owes' = {},
         owes # {} /\ owes' # {} /\ Owed => Owed'
  PROVE  IInv'
<1>1. TypeOK' /\ WellPlaced' /\ Interrupted'
  BY MovesStep
<1>2. Undecided' /\ InSession'
  BY DEF Moves, programVars, IInv, Undecided, InSession
<1>3. Accounted'
  BY DEF Moves, programVars, IInv, Accounted, Told
<1>4. OneCommand'
  BY DEF Moves, programVars, IInv, OneCommand
<1>5. QED
  BY <1>1, <1>2, <1>3, <1>4 DEF IInv

LEMMA SessionOpensStep ==
  ASSUME IInv, SessionOpens, UNCHANGED programVars
  PROVE  IInv'
<1>1. /\ task.alive /\ task.kind = "magnetic" /\ task.step = "work"
      /\ Goes("ready") /\ UNCHANGED <<calsw, owes>>
  BY DEF SessionOpens, At
<1> DEFINE seven == calsw[Device]
           m == [shared.mag EXCEPT !.open = TRUE, !.seven = seven]
<1>2. seven \in BOOLEAN /\ shared \in Shared
  BY <1>1, TaskFacts
<1>3. shared' = [shared EXCEPT !.state = "Magnetic", !.mag = m]
  BY <1>2 DEF SessionOpens, Shared, Sessions
<1> HIDE DEF seven
<1>4. m \in Sessions /\ m.owned = shared.mag.owned
  BY <1>2 DEF Shared, Sessions
<1> HIDE DEF m
<1>5. /\ shared' \in Shared /\ shared'.mag.owned = shared.mag.owned
      /\ shared'.commands = shared.commands /\ shared'.chan = shared.chan
      /\ shared'.op = shared.op
  BY <1>2, <1>3, <1>4 DEF Shared, States
<1>6. /\ Moves /\ task'.step = "ready" /\ task'.do = task.do /\ task'.result = task.result
  BY <1>1, <1>5, TaskFacts, GoesSays DEF Moves
<1>7. Owed => Owed'
  BY <1>1, <1>5, <1>6 DEF Owed, Moves
<1>8. QED
  BY <1>1, <1>5, <1>6, <1>7, SessionStep

LEMMA SessionReadsStep ==
  ASSUME IInv, SessionReads, UNCHANGED programVars
  PROVE  IInv'
<1>1. /\ task.alive /\ task.kind = "magnetic" /\ task.step = "ready"
      /\ UNCHANGED <<task, calsw>>
      /\ owes' = IF Sees THEN owes \ {Device} ELSE owes
  BY DEF SessionReads, At
<1> DEFINE m == Saw(shared.mag, calsw[Device])
<1>2. shared \in Shared
  BY <1>1, TaskFacts
<1>3. m \in Sessions /\ (~Sees => m.owned = shared.mag.owned)
  BY <1>1, TaskFacts, SawSays DEF Sees
<1>4. shared' = [shared EXCEPT !.mag = m]
  BY <1>2 DEF SessionReads, Shared
<1> HIDE DEF m
<1>5. /\ shared' \in Shared /\ shared'.mag = m
      /\ shared'.commands = shared.commands /\ shared'.chan = shared.chan
      /\ shared'.op = shared.op
  BY <1>2, <1>3, <1>4 DEF Shared
<1>6. owes' = owes \/ owes' = {}
  BY <1>1, TaskFacts
<1>7. Moves
  BY <1>1, <1>5, <1>6, TaskFacts DEF Moves
<1>8. owes # {} /\ owes' # {} /\ Owed => Owed'
  BY <1>1, <1>3, <1>5, TaskFacts DEF Owed
<1>9. QED
  BY <1>1, <1>5, <1>6, <1>7, <1>8, SessionStep

\* The command is refused, or announced with its calibration owned.
LEMMA SessionExecutesStep ==
  ASSUME IInv, SessionExecutes, UNCHANGED programVars
  PROVE  IInv'
<1> DEFINE c == shared.chan
           m == Saw(shared.mag, calsw[Device])
<1>1. /\ task.alive /\ task.kind = "magnetic" /\ task.step = "ready"
      /\ c # "none" /\ UNCHANGED calsw
  BY DEF SessionExecutes, At
<1>2. shared \in Shared /\ c \in Session /\ task \in Tasks
  BY <1>1, TaskFacts DEF Shared
<1>3. m \in Sessions /\ (~Sees => m.owned = shared.mag.owned)
  BY <1>1, TaskFacts, SawSays DEF Sees
<1>4. program \in Magnetic => shared.op.action = c /\ shared.op.outcome = "Running"
  BY <1>1 DEF IInv, OneCommand
<1>5. CASE c # "mag_stop" /\ calsw[Device]
  <2> DEFINE op == [shared.op EXCEPT !.outcome = "Failed"]
  <2>1. op \in Operations /\ op.outcome = "Failed" /\ op.action = shared.op.action
    BY <1>2 DEF Shared, Operations, Outcomes
  <2>2. /\ shared' = [shared EXCEPT !.chan = "none", !.mag = m, !.op = op]
        /\ UNCHANGED <<task, owes>>
    BY <1>2, <1>5 DEF SessionExecutes, Shared
  <2> HIDE DEF op, m
  <2>3. /\ shared' \in Shared /\ shared'.mag = m /\ shared'.op = op
        /\ shared'.commands = shared.commands /\ shared'.chan = "none"
    BY <1>2, <1>3, <2>1, <2>2 DEF Shared
  <2>4. ~Sees
    BY <1>5 DEF Sees
  <2>5. TypeOK' /\ WellPlaced' /\ Interrupted'
    BY <1>1, <2>2, <2>3, MovesStep, TaskFacts DEF Moves
  <2>6. Undecided' /\ InSession'
    BY <1>1, <2>1, <2>2, <2>3 DEF programVars, IInv, Undecided, InSession
  <2>7. Accounted'
    BY <1>1, <1>3, <2>2, <2>3, <2>4 DEF programVars, IInv, Accounted, Told, Owed
  <2>8. OneCommand'
    BY <1>1, <2>1, <2>2, <2>3 DEF programVars, IInv, OneCommand, Session
  <2>9. QED
    BY <2>5, <2>6, <2>7, <2>8 DEF IInv
<1>6. CASE ~(c # "mag_stop" /\ calsw[Device])
  <2> DEFINE owned == m.owned \/ c = "mag_start"
             n == [m EXCEPT !.owned = owned, !.calibrating = FALSE]
             s == [shared EXCEPT !.chan = "none", !.mag = n]
  <2>1. owned \in BOOLEAN
    BY <1>3 DEF Sessions
  <2>2. /\ shared' = Announced([[shared EXCEPT !.chan = "none", !.mag = m]
                                  EXCEPT !.mag.owned = @ \/ c = "mag_start",
                                         !.mag.calibrating = FALSE])
        /\ task' = [task EXCEPT !.step = "announced", !.do = c]
        /\ owes' = (IF Sees THEN owes \ {Device} ELSE owes)
                     \cup (IF c = "mag_start" THEN {Device} ELSE {})
    BY <1>2, <1>6 DEF SessionExecutes, Shared
  <2>3. shared' = Announced(s)
    BY <1>2, <1>3, <2>2 DEF Shared, Sessions
  <2> HIDE DEF owned, m
  <2>4. n \in Sessions /\ n.owned = owned
    BY <1>3, <2>1 DEF Sessions
  <2> HIDE DEF n
  <2>5. /\ s \in Shared /\ s.mag = n /\ s.chan = "none" /\ s.op = shared.op
        /\ s.commands = shared.commands
    BY <1>2, <2>4 DEF Shared
  <2> HIDE DEF s
  <2>6. /\ shared' \in Shared /\ shared'.mag = n /\ shared'.chan = "none"
        /\ shared'.op.action = shared.op.action /\ shared'.op.outcome = shared.op.outcome
        /\ shared'.commands = shared.commands
    BY <2>3, <2>5, AnnouncedSays
  <2>7. /\ task' \in Tasks /\ task'.step = "announced" /\ task'.do = c
        /\ task'.alive = task.alive /\ task'.kind = task.kind /\ task'.dev = task.dev
        /\ task'.cancel = task.cancel /\ task'.result = task.result
    BY <1>2, <2>2 DEF Tasks, Dos
  <2>8. owes' \subseteq {TheDevice}
    BY <1>1, <2>2, TaskFacts
  <2>9. TypeOK' /\ WellPlaced' /\ Interrupted'
    BY <1>1, <2>6, <2>7, <2>8, MovesStep, TaskFacts DEF Moves
  <2>10. Undecided' /\ InSession'
    BY <1>1, <1>2, <2>6, <2>7 DEF programVars, IInv, Undecided, InSession
  <2>11. Accounted'
    <3>1. owes' # {} => owned \/ (owes # {} /\ ~Sees)
      BY <1>1, <2>2, TaskFacts DEF owned
    <3>2. owes # {} /\ ~Sees /\ Owed => owned
      BY <1>1, <1>3 DEF Owed, owned
    <3>3. owned => Owed'
      BY <1>1, <2>4, <2>6, <2>7 DEF Owed
    <3>4. QED
      BY <3>1, <3>2, <3>3 DEF programVars, IInv, Accounted, Told
  <2>12. OneCommand'
    <3>1. program \in Magnetic => owes' = {} \/ c = "mag_start" \/ owes' = owes
      BY <1>1, <2>2, TaskFacts
    <3>2. QED
      BY <1>1, <1>2, <1>4, <2>6, <2>7, <3>1 DEF programVars, IInv, OneCommand, Session
  <2>13. QED
    BY <2>9, <2>10, <2>11, <2>12 DEF IInv
<1>7. QED
  BY <1>5, <1>6

\* The end of a calibration was seen, or its start: it is owned from then on.
LEMMA SessionVerifiesStep ==
  ASSUME IInv, SessionVerifies, UNCHANGED programVars
  PROVE  IInv'
<1> DEFINE c == task.do
           s == Verified(shared, c)
           on == c = "mag_start"
           m == [s.mag EXCEPT !.owned = on, !.seven = on, !.calibrating = on]
<1>1. /\ task.alive /\ task.kind = "magnetic" /\ task.step = "announced" /\ Goes("ready")
      /\ calsw' = Obeyed(c) /\ owes' = Paid(c)
      /\ shared' = IF c = "save" THEN s
                   ELSE [s EXCEPT !.mag.owned = on, !.mag.seven = on, !.mag.calibrating = on]
  BY DEF SessionVerifies, At
<1>2. shared \in Shared /\ c \in Session /\ c \in Dos
  BY <1>1, TaskFacts DEF IInv, InSession, Dos
<1>3. /\ s \in Shared /\ s.chan = shared.chan /\ s.mag = shared.mag /\ s.commands = shared.commands
      /\ s.op.action = shared.op.action
      /\ s.op.outcome = IF c = "save" THEN "Unverified" ELSE "Succeeded"
  BY <1>2, VerifiedSays
<1> HIDE DEF s
<1>4. shared' = IF c = "save" THEN s ELSE [s EXCEPT !.mag = m]
  BY <1>1, <1>3 DEF Shared, Sessions
<1>5. m \in Sessions /\ m.owned = on
  <2>1. on \in BOOLEAN /\ s.mag \in Sessions
    BY <1>3 DEF Shared
  <2> HIDE DEF on
  <2>2. QED
    BY <2>1 DEF Sessions
<1> HIDE DEF m
<1>6. /\ shared' \in Shared /\ shared'.chan = shared.chan /\ shared'.commands = shared.commands
      /\ shared'.op = s.op
      /\ shared'.mag = IF c = "save" THEN shared.mag ELSE m
  BY <1>3, <1>4, <1>5 DEF Shared
<1>7. /\ task' \in Tasks /\ task'.step = "ready"
      /\ task'.alive = task.alive /\ task'.kind = task.kind /\ task'.dev = task.dev
      /\ task'.do = task.do /\ task'.cancel = task.cancel /\ task'.result = task.result
  BY <1>1, TaskFacts, GoesSays
<1>8. owes' = IF c = "mag_stop" THEN {} ELSE owes
  BY <1>1, TaskFacts DEF Paid
<1>9. TypeOK' /\ WellPlaced' /\ Interrupted'
  BY <1>1, <1>6, <1>7, <1>8, MovesStep, TaskFacts, ObeyedIsASwitch DEF Moves
<1>10. Undecided' /\ InSession'
  BY <1>1, <1>3, <1>6, <1>7 DEF programVars, IInv, Undecided, InSession
<1>11. Accounted'
  <2>1. owes' # {} /\ Owed => Owed'
    BY <1>1, <1>2, <1>5, <1>6, <1>7, <1>8 DEF Owed, Session
  <2>2. QED
    BY <1>8, <2>1 DEF programVars, IInv, Accounted, Told
<1>12. OneCommand'
  BY <1>1, <1>2, <1>3, <1>6, <1>7, <1>8 DEF programVars, IInv, OneCommand, Session
<1>13. QED
  BY <1>9, <1>10, <1>11, <1>12 DEF IInv

\* The work of a session ends early: a calibration it owns is cleaned up.
LEMMA SessionBreaks ==
  ASSUME IInv, NEW r \in {"Stopped", "Failed"}, Breaks(r), task.kind = "magnetic",
         r = "Stopped" => task.cancel, UNCHANGED programVars
  PROVE  IInv'
<1> DEFINE o == Outcome(shared, r)
           m == [shared.mag EXCEPT !.open = FALSE]
<1>1. /\ task.alive /\ calsw' \in MayObey /\ UNCHANGED owes
      /\ task.step \in {"work", "ready", "announced"}
      /\ task' = [task EXCEPT !.result = r,
                    !.step = IF shared.mag.owned THEN "cleanup" ELSE "closing"]
      /\ shared' = IF task.step = "announced"
                     THEN [o EXCEPT !.state = shared.state, !.mag.open = FALSE]
                     ELSE [shared EXCEPT !.mag.open = FALSE]
  BY DEF Breaks
<1>2. shared \in Shared /\ shared.state \in States /\ r \in Endings /\ task \in Tasks
  BY <1>1, TaskFacts DEF Shared, Endings
<1>3. /\ o \in Shared /\ o.chan = shared.chan /\ o.mag = shared.mag /\ o.commands = shared.commands
      /\ o.op.action = shared.op.action
      /\ \/ o.op.outcome = shared.op.outcome
         \/ o.op.outcome = IF r = "Stopped" THEN "Cancelled" ELSE "Failed"
  BY <1>2, OutcomeSays
<1> HIDE DEF o
<1>4. shared' = IF task.step = "announced" THEN [o EXCEPT !.state = shared.state, !.mag = m]
                ELSE [shared EXCEPT !.mag = m]
  BY <1>1, <1>2, <1>3 DEF Shared, Sessions
<1>5. m \in Sessions /\ m.owned = shared.mag.owned
  BY <1>2 DEF Shared, Sessions
<1> HIDE DEF m
<1>6. /\ shared' \in Shared /\ shared'.chan = shared.chan /\ shared'.commands = shared.commands
      /\ shared'.op = IF task.step = "announced" THEN o.op ELSE shared.op
      /\ shared'.mag = m
  BY <1>2, <1>3, <1>4, <1>5 DEF Shared
<1>7. /\ task' \in Tasks /\ task'.step = (IF shared.mag.owned THEN "cleanup" ELSE "closing")
      /\ task'.alive = task.alive /\ task'.kind = task.kind /\ task'.dev = task.dev
      /\ task'.do = task.do /\ task'.cancel = task.cancel /\ task'.result = r
  BY <1>1, <1>2 DEF Tasks
<1>8. calsw' \in [Devices -> BOOLEAN]
  BY <1>1, TaskFacts, ObeyedIsASwitch DEF MayObey
<1>9. TypeOK' /\ WellPlaced' /\ Interrupted'
  BY <1>1, <1>6, <1>7, <1>8, MovesStep, TaskFacts DEF Moves
<1>10. Undecided' /\ InSession'
  BY <1>1, <1>3, <1>6, <1>7 DEF programVars, IInv, Undecided, InSession
<1>11. Accounted'
  <2>1. Owed => shared.mag.owned
    BY <1>1 DEF Owed
  <2>2. shared.mag.owned => task'.step = "cleanup" /\ shared'.mag.owned
    BY <1>5, <1>6, <1>7
  <2>3. Owed => Owed'
    BY <1>1, <1>7, <2>1, <2>2 DEF Owed
  <2>4. QED
    BY <1>1, <2>3 DEF programVars, IInv, Accounted, Told
<1>12. OneCommand'
  <2>1. task'.step # "announced"
    BY <1>7
  <2>2. CASE task.step = "announced"
    <3>1. /\ shared'.op.action = shared.op.action
          /\ shared'.op.outcome \in {shared.op.outcome, "Cancelled", "Failed"}
      BY <1>3, <1>6, <2>2
    <3>2. program \in Magnetic => shared'.chan = "none"
      BY <1>1, <1>6, <2>2 DEF IInv, OneCommand
    <3>3. QED
      BY <1>1, <2>1, <3>1, <3>2 DEF programVars, IInv, OneCommand, Session
  <2>3. CASE task.step # "announced"
    <3>1. shared'.op = shared.op
      BY <1>6, <2>3
    <3>2. QED
      BY <1>1, <1>6, <2>1, <3>1 DEF programVars, IInv, OneCommand, Session
  <2>4. QED
    BY <2>2, <2>3
<1>13. QED
  BY <1>9, <1>10, <1>11, <1>12 DEF IInv

LEMMA BreaksStep ==
  ASSUME IInv, TaskStops \/ TaskFails, UNCHANGED programVars
  PROVE  IInv'
<1>1. PICK r \in {"Stopped", "Failed"} : Breaks(r) /\ (r = "Stopped" => task.cancel)
  BY DEF TaskStops, TaskFails
<1>2. CASE task.kind = "magnetic"
  BY <1>1, <1>2, SessionBreaks
<1>3. CASE task.kind # "magnetic"
  <2>1. task.alive /\ calsw' \in MayObey /\ Ends(r) /\ UNCHANGED owes /\ r \in Endings
    BY <1>1, <1>3 DEF Breaks, Endings
  <2>2. calsw' \in [Devices -> BOOLEAN]
    BY <2>1, TaskFacts, ObeyedIsASwitch DEF MayObey
  <2>3. Moves /\ task'.do = task.do
    BY <2>1, <2>2, TaskFacts, EndsSays DEF Moves
  <2>4. QED
    BY <1>3, <2>1, <2>3, OtherTasks
<1>4. QED
  BY <1>2, <1>3

LEMMA CleansUpStep ==
  ASSUME IInv, CleansUp, UNCHANGED programVars
  PROVE  IInv'
<1>1. task.alive /\ task.kind = "magnetic" /\ task.step = "cleanup"
  BY DEF CleansUp, At
<1>2. shared \in Shared /\ task \in Tasks
  BY <1>1, TaskFacts
<1>3. CASE /\ calsw' = Obeyed("mag_stop") /\ owes' = owes \ {Device} /\ Goes("closing")
           /\ shared' = [shared EXCEPT !.mag.owned = FALSE, !.mag.seven = FALSE]
  <2> DEFINE m == [shared.mag EXCEPT !.owned = FALSE, !.seven = FALSE]
  <2>1. shared' = [shared EXCEPT !.mag = m] /\ m \in Sessions
    BY <1>2, <1>3 DEF Shared, Sessions
  <2> HIDE DEF m
  <2>2. /\ shared' \in Shared /\ shared'.chan = shared.chan /\ shared'.op = shared.op
        /\ shared'.commands = shared.commands
    BY <1>2, <2>1 DEF Shared
  <2>3. owes' = {}
    BY <1>1, <1>3, TaskFacts
  <2>4. Moves /\ task'.do = task.do /\ task'.result = task.result /\ task'.step = "closing"
    BY <1>1, <1>3, <2>2, <2>3, TaskFacts, GoesSays, ObeyedIsASwitch DEF Moves
  <2>5. QED
    BY <1>1, <2>2, <2>3, <2>4, SessionStep
<1>4. CASE /\ calsw' \in {calsw, Obeyed("mag_stop")} /\ UNCHANGED <<shared, owes>>
           /\ task' = [task EXCEPT !.step = "closing", !.result = "Failed"]
  <2>1. /\ task' \in Tasks /\ task'.step = "closing" /\ task'.result = "Failed"
        /\ task'.alive = task.alive /\ task'.kind = task.kind /\ task'.dev = task.dev
        /\ task'.do = task.do /\ task'.cancel = task.cancel
    BY <1>2, <1>4 DEF Tasks, Endings
  <2>2. TypeOK' /\ WellPlaced' /\ Interrupted'
    BY <1>1, <1>2, <1>4, <2>1, MovesStep, TaskFacts, ObeyedIsASwitch DEF Moves
  <2>3. Undecided' /\ InSession' /\ Accounted' /\ OneCommand'
    BY <1>1, <1>4, <2>1
    DEF programVars, IInv, Undecided, InSession, Accounted, Told, Owed, OneCommand
  <2>4. QED
    BY <2>2, <2>3 DEF IInv
<1>5. QED
  BY <1>3, <1>4 DEF CleansUp

\* A session that did not see its calibration end reports a failure.
LEMMA SessionClosesStep ==
  ASSUME IInv, SessionCloses, UNCHANGED programVars
  PROVE  IInv'
<1>1. /\ task.alive /\ task.kind = "magnetic" /\ task.step = "closing"
      /\ UNCHANGED <<calsw, owes>>
  BY DEF SessionCloses, At
<1>2. PICK r \in {task.result, "Failed"} :
        /\ task' = [task EXCEPT !.step = "ended", !.result = r]
        /\ shared' = [Outcome(shared, r) EXCEPT !.chan = "none", !.mag.error = (r = "Failed")]
  BY DEF SessionCloses
<1> DEFINE o == Outcome(shared, r)
           failed == r = "Failed"
           m == [o.mag EXCEPT !.error = failed]
<1>3. shared \in Shared /\ task \in Tasks /\ r \in Endings
  BY <1>1, <1>2, TaskFacts DEF Tasks, Endings
<1>4. /\ o \in Shared /\ o.mag = shared.mag /\ o.commands = shared.commands
      /\ o.op.action = shared.op.action
      /\ \/ o.op.outcome = shared.op.outcome
         \/ o.op.outcome = IF r = "Stopped" THEN "Cancelled" ELSE "Failed"
  BY <1>3, OutcomeSays
<1>5. shared' = [o EXCEPT !.chan = "none", !.mag = m]
  BY <1>2, <1>4 DEF Shared, Sessions
<1> HIDE DEF o
<1>6. m \in Sessions /\ m.error = failed
  <2>1. failed \in BOOLEAN /\ o.mag \in Sessions
    BY <1>4 DEF Shared
  <2> HIDE DEF failed
  <2>2. QED
    BY <2>1 DEF Sessions
<1> HIDE DEF m
<1>7. /\ shared' \in Shared /\ shared'.chan = "none" /\ shared'.commands = shared.commands
      /\ shared'.op = o.op /\ shared'.mag = m
  BY <1>4, <1>5, <1>6 DEF Shared
<1>8. /\ task' \in Tasks /\ task'.step = "ended" /\ task'.result = r
      /\ task'.alive = task.alive /\ task'.kind = task.kind /\ task'.dev = task.dev
      /\ task'.do = task.do /\ task'.cancel = task.cancel
  BY <1>2, <1>3 DEF Tasks
<1>9. TypeOK' /\ WellPlaced' /\ Interrupted'
  BY <1>1, <1>7, <1>8, MovesStep, TaskFacts DEF Moves
<1>10. Undecided' /\ InSession'
  BY <1>1, <1>2, <1>4, <1>7, <1>8 DEF programVars, IInv, Undecided, InSession
<1>11. Accounted'
  <2>1. Owed => Owed'
    BY <1>1, <1>2, <1>6, <1>7, <1>8 DEF Owed
  <2>2. QED
    BY <1>1, <2>1 DEF programVars, IInv, Accounted, Told
<1>12. OneCommand'
  BY <1>1, <1>4, <1>7, <1>8 DEF programVars, IInv, OneCommand, Session
<1>13. QED
  BY <1>9, <1>10, <1>11, <1>12 DEF IInv

LEMMA TaskFinishesStep ==
  ASSUME IInv, TaskFinishes, UNCHANGED programVars
  PROVE  IInv'
<1>1. /\ task.alive /\ task.step = "ended" /\ task' = NoTask
      /\ UNCHANGED <<shared, calsw, owes>>
  BY DEF TaskFinishes
<1>2. task' \in Tasks /\ ~task'.alive /\ ~task'.cancel /\ task'.result = "Complete"
  BY <1>1, NoTaskIsATask
<1>3. TypeOK' /\ WellPlaced' /\ Interrupted' /\ Undecided' /\ InSession' /\ OneCommand'
  BY <1>1, <1>2
  DEF programVars, IInv, TypeOK, WellPlaced, Interrupted, Undecided, InSession, OneCommand
<1>4. Accounted'
  BY <1>1, <1>2 DEF programVars, IInv, Accounted, Told, Owed, StopFails, InSession
<1>5. QED
  BY <1>3, <1>4 DEF IInv

-----------------------------------------------------------------------------
(***************************************************************************)
(* A command is in the channel because the program sent it.                *)
(***************************************************************************)

ChannelKept == shared'.chan \in {shared.chan, "none"}

LEMMA ProgramSends ==
  ASSUME IInv, program \in Magnetic, CommandLineStep
  PROVE  ChannelKept \/ \E c \in Session : Asks(c) /\ shared'.chan = c
<1>1. ASSUME Starts PROVE ChannelKept
  <2>1. /\ TaskOf \in Dos \ {"none"}
        /\ (\E r \in {"Error"} : Gives(r)) \/ Launches(TaskOf)
    BY <1>1 DEF Starts, TaskOf, Dos, CommandLine, Waiting, Magnetic, Streaming
  <2>2. QED
    BY <2>1, LaunchSays DEF Gives, IInv, ChannelKept
<1>2. ASSUME Exits PROVE ChannelKept
  BY <1>2, StoppedSays DEF Exits, IInv, TypeOK, ChannelKept
<1>3. ASSUME NEW c \in Session, Asks(c) PROVE ChannelKept \/ shared'.chan = c
  <2>1. CASE interrupted
    BY <1>3, <2>1 DEF Asks, Gives, ChannelKept
  <2>2. CASE ~interrupted
    <3>1. SendsInto(c)
      BY <1>3, <2>2 DEF Asks
    <3>2. QED
      BY <3>1, SendSays DEF IInv, ChannelKept
  <2>3. QED
    BY <2>1, <2>2
<1>4. ASSUME NEW c \in Session, Awaits(c) PROVE ChannelKept
  BY <1>4 DEF Awaits, GoesOn, Gives, Goto, ChannelKept
<1>5. ASSUME WaitOperation \/ Stream \/ MagneticOpens \/ Rotates PROVE ChannelKept
  BY <1>5 DEF WaitOperation, Stream, Streamed, MagneticOpens, Rotates, GoesOn, Gives, Goto,
     ChannelKept
<1>6. QED
  BY <1>1, <1>2, <1>3, <1>4, <1>5 DEF CommandLineStep, MagneticOperation, Session

LEMMA TaskSendsNothing ==
  ASSUME IInv, program \in Magnetic, TaskWork \/ TaskFails
  PROVE  ChannelKept
<1>1. task.alive
  BY DEF TaskWork, TaskFails, TaskStops, Breaks, TaskFinishes, CleansUp, SessionCloses,
     ScanCompletes, InspectCompletes, WriteAnnounces, WriteVerifies, WriteCompletes,
     SessionOpens, SessionReads, SessionExecutes, SessionVerifies, At
<1>2. task.kind = "magnetic"
  BY <1>1 DEF IInv, WellPlaced
<1>3. shared \in Shared /\ task \in Tasks
  BY <1>1, TaskFacts
<1>4. ASSUME SessionOpens \/ SessionReads \/ CleansUp \/ TaskFinishes PROVE ChannelKept
  BY <1>3, <1>4 DEF SessionOpens, SessionReads, CleansUp, TaskFinishes, Shared, ChannelKept
<1>5. ASSUME SessionExecutes PROVE ChannelKept
  <2> DEFINE m == Saw(shared.mag, calsw[Device])
             read == [shared EXCEPT !.chan = "none", !.mag = m]
             owned == m.owned \/ shared.chan = "mag_start"
             n == [m EXCEPT !.owned = owned, !.calibrating = FALSE]
  <2>1. m \in Sessions /\ owned \in BOOLEAN
    BY <1>1, TaskFacts, SawSays DEF Sessions
  <2>2. read = [shared EXCEPT !.chan = "none", !.mag = Saw(@, calsw[Device])]
    BY <1>3 DEF Shared
  <2>3. \/ shared' = [read EXCEPT !.op.outcome = "Failed"]
        \/ shared' = Announced([read EXCEPT !.mag.owned = owned, !.mag.calibrating = FALSE])
    BY <1>3, <1>5, <2>1, <2>2 DEF SessionExecutes, Shared
  <2> HIDE DEF m, owned
  <2>4. read \in Shared /\ read.chan = "none" /\ read.mag = m
    BY <1>3, <2>1 DEF Shared
  <2> HIDE DEF read
  <2>5. [read EXCEPT !.op.outcome = "Failed"].chan = "none"
    BY <2>4 DEF Shared
  <2>6. /\ [read EXCEPT !.mag.owned = owned, !.mag.calibrating = FALSE] = [read EXCEPT !.mag = n]
        /\ n \in Sessions
    BY <2>1, <2>4 DEF Shared, Sessions
  <2> HIDE DEF n
  <2>7. [read EXCEPT !.mag = n] \in Shared /\ [read EXCEPT !.mag = n].chan = "none"
    BY <2>4, <2>6 DEF Shared
  <2>8. QED
    BY <2>3, <2>5, <2>6, <2>7, AnnouncedSays DEF ChannelKept
<1>6. ASSUME SessionVerifies PROVE ChannelKept
  <2> DEFINE s == Verified(shared, task.do)
  <2>1. s \in Shared /\ s.chan = shared.chan
    BY <1>3, VerifiedSays DEF Tasks
  <2>2. shared'.chan = s.chan
    BY <1>6, <2>1 DEF SessionVerifies, Shared
  <2>3. QED
    BY <2>1, <2>2 DEF ChannelKept
<1>7. ASSUME SessionCloses PROVE ChannelKept
  <2>1. PICK r \in Endings :
          shared' = [Outcome(shared, r) EXCEPT !.chan = "none", !.mag.error = (r = "Failed")]
    BY <1>3, <1>7 DEF SessionCloses, Tasks, Endings
  <2>2. Outcome(shared, r) \in Shared
    BY <1>3, OutcomeSays
  <2>3. QED
    BY <2>1, <2>2 DEF Shared, ChannelKept
<1>8. ASSUME TaskStops \/ TaskFails PROVE ChannelKept
  <2>1. PICK r \in Endings : Breaks(r)
    BY <1>8 DEF TaskStops, TaskFails, Endings
  <2>2. Outcome(shared, r) \in Shared /\ Outcome(shared, r).chan = shared.chan
    BY <1>3, OutcomeSays
  <2>3. QED
    BY <1>2, <1>3, <2>1, <2>2 DEF Breaks, Shared, ChannelKept
<1>9. QED
  BY <1>2, <1>4, <1>5, <1>6, <1>7, <1>8
  DEF TaskWork, ScanCompletes, InspectCompletes, WriteAnnounces, WriteVerifies, WriteCompletes, At

LEMMA OnlyAsking ==
  ASSUME IInv, program \in Magnetic, [Next]_vars
  PROVE  ChannelKept \/ \E c \in Session : Asks(c) /\ shared'.chan = c
<1>1. program # "consumer" /\ program # "host"
  BY DEF Magnetic
<1>2. ASSUME ConsumerStep PROVE FALSE
  BY <1>1, <1>2 DEF ConsumerStep, HostStarts, HostPolls, HostLooks, HostStops, HostCopies, IInv,
     WellPlaced, Places, Session
<1>3. ASSUME HostCalls \/ HostEnds \/ HostJoins PROVE FALSE
  BY <1>1, <1>3 DEF HostCalls, HostEnds, HostJoins, IInv, WellPlaced, Places, Session
<1>4. ASSUME Acquires PROVE ChannelKept
  BY <1>4 DEF Acquires, Connects, Publishes, Ages, IInv, TypeOK, Shared, ChannelKept
<1>5. ASSUME Interrupt \/ DeviceLeaves \/ Terminated \/ UNCHANGED vars PROVE ChannelKept
  BY <1>5 DEF Interrupt, DeviceLeaves, Terminated, vars, taskVars, ChannelKept
<1>6. QED
  BY <1>2, <1>3, <1>4, <1>5, ProgramSends, TaskSendsNothing DEF Next, Task, TaskBreaks

-----------------------------------------------------------------------------
(***************************************************************************)
(* The theorems.                                                           *)
(***************************************************************************)

LEMMA NextInv == IInv /\ [Next]_vars => IInv'
<1> SUFFICES ASSUME IInv, [Next]_vars PROVE IInv'
  OBVIOUS
<1>1. ASSUME CommandLineStep PROVE IInv'
  BY <1>1, StartsStep, WaitOperationStep, StreamStep, MagneticOpensStep, RotatesStep, ExitsStep,
     AsksStep, AwaitsStep DEF CommandLineStep, MagneticOperation, Session
<1>2. ASSUME ConsumerStep PROVE IInv'
  BY <1>2, HostStartsStep, HostPollsStep, HostLooksStep, HostStopsStep, HostCopiesStep
  DEF ConsumerStep
<1>3. ASSUME HostCalls \/ HostEnds \/ HostJoins PROVE IInv'
  BY <1>3, HostCallsStep, HostEndsStep, HostJoinsStep
<1>4. ASSUME TaskWork, UNCHANGED programVars PROVE IInv'
  BY <1>4, ScanCompletesStep, InspectCompletesStep, WriteAnnouncesStep, WriteVerifiesStep,
     WriteCompletesStep, SessionOpensStep, SessionReadsStep, SessionExecutesStep,
     SessionVerifiesStep, BreaksStep, CleansUpStep, SessionClosesStep, TaskFinishesStep
  DEF TaskWork
<1>5. ASSUME Terminated \/ UNCHANGED vars PROVE IInv'
  <2>1. /\ UNCHANGED <<task, shared, calsw, owes>>
        /\ UNCHANGED <<program, pc, interrupted, result, code, told>>
    BY <1>5 DEF Terminated, vars, taskVars, programVars
  <2>2. TypeOK' /\ WellPlaced' /\ Undecided' /\ Interrupted'
    BY <2>1 DEF IInv, TypeOK, WellPlaced, Undecided, Interrupted
  <2>3. InSession' /\ Accounted' /\ OneCommand'
    BY <2>1 DEF IInv, InSession, Accounted, Told, Owed, StopFails, OneCommand
  <2>4. QED
    BY <2>2, <2>3 DEF IInv
<1>6. QED
  BY <1>1, <1>2, <1>3, <1>4, <1>5, InterruptStep, AcquiresStep, BreaksStep, DeviceLeavesStep
  DEF Next, Task, TaskBreaks

LEMMA InvHolds == Init /\ [][Next]_vars => []IInv
BY InitInv, NextInv, PTL

\* The controller's state, its task, and what is owed keep their types, and a
\* task only runs on the program's device.
THEOREM ProgramsTypeCorrect == FairSpec => []TypeOK
<1>1. IInv => TypeOK
  BY DEF IInv
<1>2. QED
  BY InvHolds, <1>1, PTL DEF FairSpec

\* A program that is gone has no task, and one that says it succeeded or was
\* merely interrupted, or a host that was never told of a failure, leaves no
\* calibration of its session behind (main.rs run, c.rs posebridge_stop).
THEOREM ExitsAreHonest == FairSpec => []ExitIsHonest
<1>1. IInv => ExitIsHonest
  <2> SUFFICES ASSUME IInv PROVE ExitIsHonest
    OBVIOUS
  <2>1. pc = "exited" => ~task.alive
    BY DEF IInv, WellPlaced
  <2>2. code = "130" => interrupted
    BY DEF IInv, Interrupted
  <2>3. program \in Magnetic /\ code \in {"0", "130"} => owes = {}
    <3> SUFFICES ASSUME program \in Magnetic, code \in {"0", "130"} PROVE owes = {}
      OBVIOUS
    <3>1. result # "Error" /\ pc = "exited"
      BY DEF IInv, Undecided
    <3>2. ~task.alive /\ ~shared.commands
      BY <3>1 DEF IInv, WellPlaced
    <3>3. QED
      BY <3>1, <3>2 DEF IInv, Accounted, Told, Owed, StopFails, Magnetic
  <2>4. program = "host" /\ pc = "exited" /\ ~told => owes = {}
    BY DEF IInv, WellPlaced, Accounted, Told, Owed, StopFails
  <2>5. QED
    BY <2>1, <2>2, <2>3, <2>4 DEF ExitIsHonest
<1>2. QED
  BY InvHolds, <1>1, PTL DEF FairSpec

\* A save is only ever sent when the end of the calibration it saves was seen
\* (main.rs calibrate).
THEOREM SavesFollowTheEnd == FairSpec => SaveFollowsStop
<1> DEFINE Sent == program = "save" /\ shared.chan # "save" /\ shared'.chan = "save" => owes = {}
<1>1. IInv /\ [Next]_vars => [Sent]_vars
  <2> SUFFICES ASSUME IInv, [Next]_vars, program = "save", shared.chan # "save",
                      shared'.chan = "save"
               PROVE  owes = {}
    OBVIOUS
  <2>1. program \in Magnetic
    BY DEF Magnetic
  <2>2. Asks("save")
    BY <2>1, OnlyAsking DEF ChannelKept
  <2>3. AskFor["save"] = "ask save"
    BY DEF AskFor
  <2>4. pc = "ask save"
    BY <2>2, <2>3 DEF Asks
  <2>5. QED
    BY <2>1, <2>4 DEF IInv, OneCommand
<1>2. QED
  BY InvHolds, <1>1, PTL DEF FairSpec, SaveFollowsStop

=============================================================================
