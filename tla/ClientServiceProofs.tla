------------------------ MODULE ClientServiceProofs ------------------------
(***************************************************************************)
(* Proofs about ClientService, for any devices and any number of requests: *)
(* the types; that the panel shows "Not connected" only when no task is at *)
(* work; and that a calibration whose start was announced is held by the   *)
(* panel, latched or by the request that keeps the window open, while no   *)
(* second device is owed an end.                                           *)
(***************************************************************************)
EXTENDS ClientService, FiniteSetTheorems, TLAPS

Dos == {"none", "scan", "track"} \cup OnDevice
Outcomes == {"None", "Running", "Succeeded", "Failed", "Cancelled", "Unverified"}
Endings == {"Complete", "Stopped", "Failed"}
Devs == Devices \cup {NoDevice}
Operations == [action : Dos, attempted : BOOLEAN, verified : BOOLEAN, outcome : Outcomes]
Sessions == [open : BOOLEAN, owned : BOOLEAN, calibrating : BOOLEAN, seven : BOOLEAN,
             error : BOOLEAN]
States == Endings \cup {"Idle", "Inspecting", "Connecting", "Scanning", "Configuring", "Magnetic"}
Shared == [state : States, op : Operations, desc : BOOLEAN, config : Devs, tracking : BOOLEAN,
           commands : BOOLEAN, chan : {"none"} \cup InSession, mag : Sessions]
Steps == {"work", "ready", "announced", "done", "cleanup", "closing", "ended"}
Tasks == [kind : {"none", "inspect", "magnetic", "scan", "track", "write"}, dev : Devs, do : Dos,
          step : Steps, result : Endings, cancel : BOOLEAN, alive : BOOLEAN]

\* The controller: a task other than a scan is at work on a device.
TaskTypes ==
  /\ shared \in Shared /\ task \in Tasks
  /\ calsw \in [Devices -> BOOLEAN] /\ owes \subseteq Devices
  /\ task.alive /\ task.kind # "scan" => task.dev \in Devices

Phases == {"Idle", "Failed", "Scanning", "Tracking", "Inspecting", "Magnetic", "Operating",
           "Stopping"}
Views == [request : Nat, phase : Phases, device : Devs, magnetic : Devs, pending : BOOLEAN,
          session : [dev : Devs, may : BOOLEAN]]
Entries == {r \in [id : Nat, do : OnDevice \cup {"scan", "stop", "recenter", "shutdown"}, dev : Devs] :
              r.do \in OnDevice => r.dev \in Devices}
Workers == [pc : {"loop", "joining", "begin", "leaving", "gone", "poll", "absorb", "publish"},
            req : Entries, cur : Nat, phase : Phases, device : Devs, connect : Devs,
            apply : {"none", "before", "write", "after"}, run : Devs,
            snap : [state : States, op : Operations, desc : BOOLEAN],
            may : BOOLEAN, busy : BOOLEAN]

TypeOK ==
  /\ TaskTypes
  /\ view \in Views /\ queue \in Seq(Entries) /\ worker \in Workers
  /\ external \in Nat /\ released \in BOOLEAN /\ quit \in BOOLEAN
  /\ worker.apply # "none" => worker.device \in Devices

-----------------------------------------------------------------------------
(***************************************************************************)
(* The inductive invariant.                                                *)
(***************************************************************************)

Ordinary(r) == r.do \notin {"recenter", "shutdown"}
Quiet == ~task.alive \/ task.step = "ended"
Resting == Quiet /\ worker.apply = "none" /\ worker.connect = NoDevice

\* Requests reach the worker in the order of their numbers; a shutdown is the last.
InOrder ==
  /\ view.request <= MaxRequests
  /\ ~quit => worker.cur <= view.request
  /\ \A i \in 1..Len(queue) :
       /\ Ordinary(queue[i]) => worker.cur < queue[i].id /\ queue[i].id <= view.request
       /\ queue[i].do = "shutdown" => quit /\ i = Len(queue) /\ queue[i].id > MaxRequests
  /\ \A i, j \in 1..Len(queue) :
       i < j /\ Ordinary(queue[i]) /\ Ordinary(queue[j]) => queue[i].id < queue[j].id

\* A task at work has not published an end.
EndIsLast == ~Quiet => shared.state \notin {"Complete", "Stopped"}

\* Between a request taken and its command nothing is waited for, and a stop has
\* ended the task.
Forgotten ==
  /\ worker.pc \in {"joining", "begin"} =>
       worker.apply = "none" /\ worker.connect = NoDevice /\ Ordinary(worker.req)
  /\ worker.pc = "begin" /\ worker.req.do = "stop" => ~task.alive
  /\ worker.apply # "none" => worker.connect = NoDevice

\* The worker's "Not connected", and the panel's, which a request on its way ends.
WorkerIdle ==
  worker.pc \in {"loop", "poll", "absorb", "publish"} /\ worker.phase = "Idle" => Resting
ViewIdle ==
  view.phase = "Idle" =>
    /\ Resting /\ worker.pc \notin {"joining", "begin"}
    /\ \A i \in 1..Len(queue) : ~Ordinary(queue[i])

IInv == TypeOK /\ InOrder /\ EndIsLast /\ Forgotten /\ WorkerIdle /\ ViewIdle

-----------------------------------------------------------------------------
(***************************************************************************)
(* What the controller's operators keep.                                   *)
(***************************************************************************)

LEMMA OperationIsOne ==
  ASSUME NEW a \in Dos, NEW r \in Outcomes
  PROVE  [NoOperation EXCEPT !.action = a, !.outcome = r] \in Operations
BY DEF NoOperation, Operations, Dos, Outcomes, OnDevice, InSession

LEMMA ClosedIsASession == Closed \in Sessions /\ NoOperation \in Operations
BY DEF Closed, Sessions, NoOperation, Operations, Dos, Outcomes

LEMMA NoTaskIsATask == NoTask \in Tasks /\ ~NoTask.alive
BY DEF NoTask, Tasks, Steps, Endings, Devs, Dos

LEMMA OutcomeSays ==
  ASSUME NEW s \in Shared, NEW r \in Endings
  PROVE  /\ Outcome(s, r) \in Shared
         /\ Outcome(s, r).state = r /\ Outcome(s, r).mag = s.mag
<1> DEFINE o == IF s.op.outcome # "Running" \/ r = "Complete" THEN s.op.outcome
                ELSE IF r = "Stopped" THEN "Cancelled" ELSE "Failed"
           op == [s.op EXCEPT !.outcome = o]
<1>1. o \in Outcomes
  BY DEF Shared, Operations, Outcomes
<1>2. Outcome(s, r) = [s EXCEPT !.state = r, !.op = op]
  BY DEF Outcome, Shared
<1> HIDE DEF o
<1>3. op \in Operations
  BY <1>1 DEF Shared, Operations
<1> HIDE DEF op
<1>4. QED
  BY <1>2, <1>3 DEF Shared, States

LEMMA AnnouncedSays ==
  ASSUME NEW s \in Shared
  PROVE  /\ Announced(s) \in Shared
         /\ Announced(s).state = s.state
<1> DEFINE op == [s.op EXCEPT !.attempted = TRUE]
<1>1. op \in Operations
  BY DEF Shared, Operations
<1>2. Announced(s) = [s EXCEPT !.op = op, !.desc = FALSE]
  BY DEF Announced, Shared
<1> HIDE DEF op
<1>3. QED
  BY <1>1, <1>2 DEF Shared

LEMMA VerifiedSays ==
  ASSUME NEW s \in Shared, NEW c \in Dos
  PROVE  /\ Verified(s, c) \in Shared
         /\ Verified(s, c).state = s.state /\ Verified(s, c).mag = s.mag
<1> DEFINE v == s.op.verified \/ c # "save"
           o == IF c = "save" THEN "Unverified" ELSE "Succeeded"
           op == [s.op EXCEPT !.verified = v, !.outcome = o]
<1>1. v \in BOOLEAN /\ o \in Outcomes
  BY DEF Outcomes
<1>2. Verified(s, c) = [s EXCEPT !.op = op]
  BY DEF Verified, Shared, Operations
<1> HIDE DEF v, o
<1>3. op \in Operations
  BY <1>1 DEF Shared, Operations
<1> HIDE DEF op
<1>4. QED
  BY <1>2, <1>3 DEF Shared

LEMMA SawSays ==
  ASSUME NEW m \in Sessions, NEW v \in BOOLEAN
  PROVE  Saw(m, v) \in Sessions
BY DEF Saw, Sessions

\* What stop leaves, and what a device is configured with.
LEMMA StoppedSays ==
  ASSUME NEW s \in Shared
  PROVE  Stopped(s) \in Shared
BY DEF Stopped, Shared, States, Endings

LEMMA ConfiguredSays ==
  ASSUME NEW s \in Shared, NEW d \in Devs, NEW t \in BOOLEAN
  PROVE  Configured(s, d, t) \in Shared
<1> DEFINE desc == s.desc /\ s.config = d
           new == [s EXCEPT !.config = d, !.tracking = t, !.mag = Closed, !.state = "Idle",
                            !.desc = desc]
<1>1. Configured(s, d, t) = s \/ Configured(s, d, t) = new
  BY DEF Configured, Shared
<1>2. desc \in BOOLEAN /\ Closed \in Sessions /\ "Idle" \in States
  BY ClosedIsASession DEF Shared, States
<1> HIDE DEF desc
<1>3. new \in Shared
  BY <1>2 DEF Shared
<1> HIDE DEF new
<1>4. QED
  BY <1>1, <1>3

\* A task that starts has published no end.
LEMMA StartedSays ==
  ASSUME NEW s \in Shared, NEW do \in Dos
  PROVE  /\ Started(s, do) \in Shared
         /\ Started(s, do).state \notin {"Complete", "Stopped"}
<1> DEFINE run(a) == [NoOperation EXCEPT !.action = a, !.outcome = "Running"]
<1>1. \A a \in Dos : run(a) \in Operations
  BY OperationIsOne DEF Outcomes
<1>2. Closed \in Sessions /\ NoOperation \in Operations
  BY ClosedIsASession
<1>3. CASE do \in {"inspect", "connect", "apply"}
  <2>1. Started(s, do) = [s EXCEPT !.state = "Inspecting", !.mag = Closed, !.desc = FALSE,
                                   !.op = run("inspect")]
    BY <1>3 DEF Started
  <2>2. run("inspect") \in Operations
    BY <1>1 DEF Dos, OnDevice
  <2> HIDE DEF run
  <2>3. QED
    BY <2>1, <2>2, <1>2 DEF Shared, States
<1>4. CASE do = "magnetic"
  <2>1. Started(s, do) = [s EXCEPT !.state = "Connecting", !.mag = Closed, !.desc = FALSE,
                            !.op = NoOperation, !.commands = TRUE, !.chan = "none"]
    BY <1>4 DEF Started
  <2>2. QED
    BY <2>1, <1>2 DEF Shared, States
<1>5. CASE do = "scan"
  BY <1>5, <1>2 DEF Started, Shared, States
<1>6. CASE do = "track"
  BY <1>6, <1>2 DEF Started, Shared, States
<1>7. CASE do \notin {"inspect", "connect", "apply", "magnetic", "scan", "track"}
  <2>1. Started(s, do) = [s EXCEPT !.state = "Configuring", !.mag = Closed, !.op = run(do)]
    BY <1>7 DEF Started
  <2>2. run(do) \in Operations
    BY <1>1
  <2> HIDE DEF run
  <2>3. QED
    BY <2>1, <2>2, <1>2 DEF Shared, States
<1>8. QED
  BY <1>3, <1>4, <1>5, <1>6, <1>7

LEMMA LaunchedSays ==
  ASSUME NEW do \in Dos, NEW d \in Devs
  PROVE  /\ Launched(do, d) \in Tasks /\ Launched(do, d).dev = d
         /\ Launched(do, d).kind = KindOf(do)
         /\ KindOf(do) = "scan" => do = "scan"
<1>1. /\ KindOf(do) \in {"inspect", "magnetic", "scan", "track", "write"}
      /\ KindOf(do) = "scan" => do = "scan"
  BY DEF KindOf
<1>2. QED
  BY <1>1 DEF Launched, Tasks, Steps, Endings

-----------------------------------------------------------------------------
(***************************************************************************)
(* The task: a step of it keeps the types, brings no task that was at rest *)
(* back to work, and publishes an end only as its last act.                *)
(***************************************************************************)

Kept ==
  /\ TaskTypes' /\ EndIsLast'
  /\ Quiet => Quiet'
  /\ task'.alive => task.alive

LEMMA TaskFacts ==
  ASSUME TaskTypes, task.alive, task.kind # "scan"
  PROVE  Device \in Devices /\ calsw[Device] \in BOOLEAN
BY DEF TaskTypes, Device

LEMMA GoesSays ==
  ASSUME TaskTypes, NEW step \in Steps, Goes(step)
  PROVE  /\ task' \in Tasks /\ task'.step = step /\ task'.alive = task.alive
         /\ task'.kind = task.kind /\ task'.dev = task.dev
BY DEF Goes, TaskTypes, Tasks

LEMMA ObeyedIsASwitch ==
  ASSUME TaskTypes, NEW c
  PROVE  Obeyed(c) \in [Devices -> BOOLEAN]
<1>1. calsw \in [Devices -> BOOLEAN] /\ (c = "mag_start") \in BOOLEAN
  BY DEF TaskTypes
<1>2. QED
  BY <1>1 DEF Obeyed

\* A step after which the task is at work still.
LEMMA WorkingStep ==
  ASSUME TaskTypes, EndIsLast, task.alive, task.step # "ended",
         task' \in Tasks, task'.alive, task'.kind = task.kind, task'.dev = task.dev,
         shared' \in Shared, shared'.state \notin {"Complete", "Stopped"},
         calsw' \in [Devices -> BOOLEAN], owes' \subseteq Devices
  PROVE  Kept
BY DEF Kept, TaskTypes, EndIsLast, Quiet

\* The last step, with which the end is published.
LEMMA EndingStep ==
  ASSUME TaskTypes, task.alive,
         task' \in Tasks, task'.step = "ended", task'.kind = task.kind, task'.dev = task.dev,
         shared' \in Shared, calsw' \in [Devices -> BOOLEAN], owes' \subseteq Devices
  PROVE  Kept
BY DEF Kept, TaskTypes, EndIsLast, Quiet

LEMMA EndsStep ==
  ASSUME TaskTypes, task.alive, NEW r \in Endings, Ends(r),
         calsw' \in [Devices -> BOOLEAN], UNCHANGED owes
  PROVE  Kept
<1>1. task' \in Tasks /\ task'.step = "ended" /\ task'.kind = task.kind /\ task'.dev = task.dev
  BY DEF Ends, TaskTypes, Tasks, Steps
<1>2. shared' \in Shared
  BY OutcomeSays DEF Ends, TaskTypes
<1>3. QED
  BY <1>1, <1>2, EndingStep DEF TaskTypes

LEMMA InspectCompletesStep ==
  ASSUME TaskTypes, InspectCompletes
  PROVE  Kept
<1>1. /\ task.alive /\ task.kind = "inspect" /\ UNCHANGED <<calsw, owes>>
      /\ task' = [task EXCEPT !.step = "ended"]
  BY DEF InspectCompletes, At
<1> DEFINE op == [shared.op EXCEPT !.verified = TRUE, !.outcome = "Succeeded"]
           seven == calsw[Device]
<1>2. shared \in Shared /\ op \in Operations /\ seven \in BOOLEAN
  BY <1>1, TaskFacts DEF TaskTypes, Shared, Operations, Outcomes
<1>3. shared' = [shared EXCEPT !.state = "Complete", !.desc = seven, !.op = op]
  BY <1>2 DEF InspectCompletes, Shared, Operations
<1> HIDE DEF op, seven
<1>4. shared' \in Shared
  BY <1>2, <1>3 DEF Shared, States, Endings
<1>5. task' \in Tasks /\ task'.step = "ended" /\ task'.kind = task.kind /\ task'.dev = task.dev
  BY <1>1 DEF TaskTypes, Tasks, Steps
<1>6. QED
  BY <1>1, <1>4, <1>5, EndingStep DEF TaskTypes

LEMMA WritesStep ==
  ASSUME TaskTypes, EndIsLast, WriteAnnounces \/ WriteVerifies
  PROVE  Kept
<1>1. /\ task.alive /\ task.kind = "write" /\ task.step \in {"work", "announced"}
      /\ Device \in Devices /\ shared \in Shared /\ task.do \in Dos
      /\ shared.state \notin {"Complete", "Stopped"}
  <2>1. task.alive /\ task.kind = "write" /\ task.step \in {"work", "announced"}
    BY DEF WriteAnnounces, WriteVerifies, At
  <2>2. QED
    BY <2>1, TaskFacts DEF TaskTypes, Tasks, EndIsLast, Quiet
<1>2. /\ shared' \in Shared /\ shared'.state = shared.state
      /\ calsw' \in [Devices -> BOOLEAN] /\ owes' \subseteq Devices
      /\ \E step \in Steps : step # "ended" /\ Goes(step)
  <2>1. CASE WriteAnnounces
    BY <1>1, <2>1, AnnouncedSays DEF WriteAnnounces, TaskTypes, Owing, Steps
  <2>2. CASE WriteVerifies
    BY <1>1, <2>2, VerifiedSays, ObeyedIsASwitch DEF WriteVerifies, TaskTypes, Paid, Steps
  <2>3. QED
    BY <2>1, <2>2
<1>3. QED
  BY <1>1, <1>2, GoesSays, WorkingStep

LEMMA SessionOpensStep ==
  ASSUME TaskTypes, EndIsLast, SessionOpens
  PROVE  Kept
<1>1. /\ task.alive /\ task.kind = "magnetic" /\ task.step = "work"
      /\ Goes("ready") /\ UNCHANGED <<calsw, owes>>
  BY DEF SessionOpens, At
<1> DEFINE seven == calsw[Device]
           m == [shared.mag EXCEPT !.open = TRUE, !.seven = seven]
<1>2. seven \in BOOLEAN /\ shared \in Shared
  BY <1>1, TaskFacts DEF TaskTypes
<1>3. shared' = [shared EXCEPT !.state = "Magnetic", !.mag = m]
  BY <1>2 DEF SessionOpens, Shared, Sessions
<1> HIDE DEF seven
<1>4. m \in Sessions
  BY <1>2 DEF Shared, Sessions
<1> HIDE DEF m
<1>5. shared' \in Shared /\ shared'.state = "Magnetic"
  BY <1>2, <1>3, <1>4 DEF Shared, States
<1>6. task' \in Tasks /\ task'.alive /\ task'.kind = task.kind /\ task'.dev = task.dev
  BY <1>1, GoesSays DEF Steps
<1>7. QED
  BY <1>1, <1>5, <1>6, WorkingStep DEF TaskTypes

LEMMA SessionReadsStep ==
  ASSUME TaskTypes, EndIsLast, SessionReads
  PROVE  Kept
<1>1. /\ task.alive /\ task.kind = "magnetic" /\ task.step = "ready" /\ UNCHANGED <<task, calsw>>
      /\ owes' \subseteq owes
  BY DEF SessionReads, At
<1> DEFINE m == Saw(shared.mag, calsw[Device])
<1>2. m \in Sessions /\ shared \in Shared /\ shared.state \notin {"Complete", "Stopped"}
  BY <1>1, TaskFacts, SawSays DEF TaskTypes, Shared, EndIsLast, Quiet
<1>3. shared' = [shared EXCEPT !.mag = m]
  BY <1>2 DEF SessionReads, Shared
<1> HIDE DEF m
<1>4. shared' \in Shared /\ shared'.state = shared.state
  BY <1>2, <1>3 DEF Shared
<1>5. QED
  BY <1>1, <1>2, <1>4, WorkingStep DEF TaskTypes

LEMMA SessionExecutesStep ==
  ASSUME TaskTypes, EndIsLast, SessionExecutes
  PROVE  Kept
<1> DEFINE c == shared.chan
           m == Saw(shared.mag, calsw[Device])
<1>1. task.alive /\ task.kind = "magnetic" /\ task.step = "ready" /\ c # "none" /\ UNCHANGED calsw
  BY DEF SessionExecutes, At
<1>2. /\ shared \in Shared /\ c \in InSession /\ task \in Tasks
      /\ m \in Sessions /\ Device \in Devices /\ calsw \in [Devices -> BOOLEAN]
      /\ shared.state \notin {"Complete", "Stopped"} /\ owes \subseteq Devices
  BY <1>1, TaskFacts, SawSays DEF TaskTypes, Shared, EndIsLast, Quiet
<1>3. CASE c # "mag_stop" /\ calsw[Device]
  <2> DEFINE op == [shared.op EXCEPT !.outcome = "Failed"]
  <2>1. op \in Operations
    BY <1>2 DEF Shared, Operations, Outcomes
  <2>2. /\ shared' = [shared EXCEPT !.chan = "none", !.mag = m, !.op = op]
        /\ UNCHANGED <<task, owes>>
    BY <1>2, <1>3 DEF SessionExecutes, Shared
  <2> HIDE DEF op, m
  <2>3. shared' \in Shared /\ shared'.state = shared.state
    BY <1>2, <2>1, <2>2 DEF Shared
  <2>4. QED
    BY <1>1, <1>2, <2>2, <2>3, WorkingStep
<1>4. CASE ~(c # "mag_stop" /\ calsw[Device])
  <2> DEFINE owned == m.owned \/ c = "mag_start"
             n == [m EXCEPT !.owned = owned, !.calibrating = FALSE]
             s == [shared EXCEPT !.chan = "none", !.mag = n]
  <2>1. owned \in BOOLEAN
    BY <1>2 DEF Sessions
  <2>2. /\ shared' = Announced([[shared EXCEPT !.chan = "none", !.mag = m]
                                  EXCEPT !.mag.owned = @ \/ c = "mag_start",
                                         !.mag.calibrating = FALSE])
        /\ task' = [task EXCEPT !.step = "announced", !.do = c]
        /\ owes' = (IF Sees THEN owes \ {Device} ELSE owes)
                     \cup (IF c = "mag_start" THEN {Device} ELSE {})
    BY <1>2, <1>4 DEF SessionExecutes, Shared
  <2>3. shared' = Announced(s)
    BY <1>2, <2>2 DEF Shared, Sessions
  <2> HIDE DEF owned, m
  <2>4. n \in Sessions
    BY <1>2, <2>1 DEF Sessions
  <2> HIDE DEF n
  <2>5. s \in Shared /\ s.state = shared.state
    BY <1>2, <2>4 DEF Shared
  <2> HIDE DEF s
  <2>6. shared' \in Shared /\ shared'.state = shared.state
    BY <2>3, <2>5, AnnouncedSays
  <2>7. /\ task' \in Tasks /\ task'.alive = task.alive
        /\ task'.kind = task.kind /\ task'.dev = task.dev
    BY <1>2, <2>2 DEF Tasks, Dos, OnDevice, Steps
  <2>8. owes' \subseteq Devices
    BY <1>2, <2>2
  <2>9. QED
    BY <1>1, <1>2, <2>6, <2>7, <2>8, WorkingStep
<1>5. QED
  BY <1>3, <1>4

LEMMA SessionVerifiesStep ==
  ASSUME TaskTypes, EndIsLast, SessionVerifies
  PROVE  Kept
<1> DEFINE c == task.do
           s == Verified(shared, c)
           on == c = "mag_start"
           m == [s.mag EXCEPT !.owned = on, !.seven = on, !.calibrating = on]
<1>1. /\ task.alive /\ task.kind = "magnetic" /\ task.step = "announced" /\ Goes("ready")
      /\ calsw' = Obeyed(c) /\ owes' = Paid(c)
      /\ shared' = IF c = "save" THEN s
                   ELSE [s EXCEPT !.mag.owned = on, !.mag.seven = on, !.mag.calibrating = on]
  BY DEF SessionVerifies, At
<1>2. s \in Shared /\ s.state = shared.state /\ shared.state \notin {"Complete", "Stopped"}
  BY <1>1, VerifiedSays DEF TaskTypes, Tasks, EndIsLast, Quiet
<1> HIDE DEF s
<1>3. shared' = IF c = "save" THEN s ELSE [s EXCEPT !.mag = m]
  BY <1>1, <1>2 DEF Shared, Sessions
<1>4. m \in Sessions
  <2>1. on \in BOOLEAN /\ s.mag \in Sessions
    BY <1>2 DEF Shared
  <2> HIDE DEF on
  <2>2. QED
    BY <2>1 DEF Sessions
<1> HIDE DEF m
<1>5. shared' \in Shared /\ shared'.state = shared.state
  BY <1>2, <1>3, <1>4 DEF Shared
<1>6. task' \in Tasks /\ task'.alive /\ task'.kind = task.kind /\ task'.dev = task.dev
  BY <1>1, GoesSays DEF Steps
<1>7. calsw' \in [Devices -> BOOLEAN] /\ owes' \subseteq Devices
  BY <1>1, ObeyedIsASwitch DEF TaskTypes, Paid
<1>8. QED
  BY <1>1, <1>2, <1>5, <1>6, <1>7, WorkingStep

LEMMA BreaksStep ==
  ASSUME TaskTypes, EndIsLast, NEW r \in {"Stopped", "Failed"}, Breaks(r)
  PROVE  Kept
<1>1. r \in Endings /\ task.alive /\ UNCHANGED owes /\ calsw' \in [Devices -> BOOLEAN]
  BY ObeyedIsASwitch DEF Breaks, MayObey, Endings, TaskTypes
<1>2. CASE task.kind # "magnetic"
  BY <1>1, <1>2, EndsStep DEF Breaks
<1>3. CASE task.kind = "magnetic"
  <2> DEFINE o == Outcome(shared, r)
             m == [shared.mag EXCEPT !.open = FALSE]
  <2>1. /\ task.step \in {"work", "ready", "announced"}
        /\ task' = [task EXCEPT !.result = r,
                      !.step = IF shared.mag.owned THEN "cleanup" ELSE "closing"]
        /\ shared' = IF task.step = "announced"
                       THEN [o EXCEPT !.state = shared.state, !.mag.open = FALSE]
                       ELSE [shared EXCEPT !.mag.open = FALSE]
    BY <1>3 DEF Breaks
  <2>2. /\ shared \in Shared /\ task \in Tasks /\ shared.state \in States
        /\ shared.state \notin {"Complete", "Stopped"}
    BY <1>1, <2>1 DEF TaskTypes, Shared, EndIsLast, Quiet
  <2>3. o \in Shared /\ o.mag = shared.mag
    BY <1>1, <2>2, OutcomeSays
  <2> HIDE DEF o
  <2>4. shared' = IF task.step = "announced" THEN [o EXCEPT !.state = shared.state, !.mag = m]
                  ELSE [shared EXCEPT !.mag = m]
    BY <2>1, <2>2, <2>3 DEF Shared, Sessions
  <2>5. m \in Sessions
    BY <2>2 DEF Shared, Sessions
  <2> HIDE DEF m
  <2>6. shared' \in Shared /\ shared'.state = shared.state
    BY <2>2, <2>3, <2>4, <2>5 DEF Shared
  <2>7. task' \in Tasks /\ task'.alive = task.alive /\ task'.kind = task.kind /\ task'.dev = task.dev
    BY <1>1, <2>1, <2>2 DEF Tasks, Steps
  <2>8. QED
    BY <1>1, <2>1, <2>2, <2>6, <2>7, WorkingStep DEF TaskTypes
<1>4. QED
  BY <1>2, <1>3

LEMMA CleansUpStep ==
  ASSUME TaskTypes, EndIsLast, CleansUp
  PROVE  Kept
<1>1. task.alive /\ task.kind = "magnetic" /\ task.step = "cleanup"
  BY DEF CleansUp, At
<1>2. /\ shared \in Shared /\ task \in Tasks /\ shared.state \notin {"Complete", "Stopped"}
      /\ calsw \in [Devices -> BOOLEAN] /\ owes \subseteq Devices
      /\ Obeyed("mag_stop") \in [Devices -> BOOLEAN]
  BY <1>1, ObeyedIsASwitch DEF TaskTypes, EndIsLast, Quiet
<1>3. CASE /\ calsw' = Obeyed("mag_stop") /\ owes' = owes \ {Device} /\ Goes("closing")
           /\ shared' = [shared EXCEPT !.mag.owned = FALSE, !.mag.seven = FALSE]
  <2> DEFINE m == [shared.mag EXCEPT !.owned = FALSE, !.seven = FALSE]
  <2>1. shared' = [shared EXCEPT !.mag = m] /\ m \in Sessions
    BY <1>2, <1>3 DEF Shared, Sessions
  <2> HIDE DEF m
  <2>2. shared' \in Shared /\ shared'.state = shared.state
    BY <1>2, <2>1 DEF Shared
  <2>3. task' \in Tasks /\ task'.alive /\ task'.kind = task.kind /\ task'.dev = task.dev
    BY <1>1, <1>3, GoesSays DEF Steps
  <2>4. QED
    BY <1>1, <1>2, <1>3, <2>2, <2>3, WorkingStep
<1>4. CASE /\ calsw' \in {calsw, Obeyed("mag_stop")} /\ UNCHANGED <<shared, owes>>
           /\ task' = [task EXCEPT !.step = "closing", !.result = "Failed"]
  <2>1. task' \in Tasks /\ task'.alive /\ task'.kind = task.kind /\ task'.dev = task.dev
    BY <1>1, <1>2, <1>4 DEF Tasks, Steps, Endings
  <2>2. QED
    BY <1>1, <1>2, <1>4, <2>1, WorkingStep
<1>5. QED
  BY <1>3, <1>4 DEF CleansUp

LEMMA SessionClosesStep ==
  ASSUME TaskTypes, SessionCloses
  PROVE  Kept
<1>1. task.alive /\ UNCHANGED <<calsw, owes>>
  BY DEF SessionCloses, At
<1>2. PICK r \in {task.result, "Failed"} :
        /\ task' = [task EXCEPT !.step = "ended", !.result = r]
        /\ shared' = [Outcome(shared, r) EXCEPT !.chan = "none", !.mag.error = (r = "Failed")]
  BY DEF SessionCloses
<1> DEFINE o == Outcome(shared, r)
           failed == r = "Failed"
           m == [o.mag EXCEPT !.error = failed]
<1>3. task \in Tasks /\ r \in Endings /\ o \in Shared
  BY <1>2, OutcomeSays DEF TaskTypes, Tasks, Endings
<1>4. shared' = [o EXCEPT !.chan = "none", !.mag = m]
  BY <1>2, <1>3 DEF Shared, Sessions
<1> HIDE DEF o
<1>5. m \in Sessions
  <2>1. failed \in BOOLEAN /\ o.mag \in Sessions
    BY <1>3 DEF Shared
  <2> HIDE DEF failed
  <2>2. QED
    BY <2>1 DEF Sessions
<1> HIDE DEF m
<1>6. shared' \in Shared
  BY <1>3, <1>4, <1>5 DEF Shared
<1>7. task' \in Tasks /\ task'.step = "ended" /\ task'.kind = task.kind /\ task'.dev = task.dev
  BY <1>2, <1>3 DEF Tasks, Steps
<1>8. QED
  BY <1>1, <1>6, <1>7, EndingStep DEF TaskTypes

LEMMA TaskFinishesStep ==
  ASSUME TaskTypes, TaskFinishes
  PROVE  Kept
BY NoTaskIsATask DEF TaskFinishes, Kept, TaskTypes, EndIsLast, Quiet

LEMMA TaskStep ==
  ASSUME TaskTypes, EndIsLast, TaskWork \/ TaskFails
  PROVE  Kept
<1>1. {"Complete", "Stopped", "Failed"} = Endings
  BY DEF Endings
<1>2. CASE ScanCompletes
  BY <1>1, <1>2, EndsStep DEF ScanCompletes, At, TaskTypes
<1>3. CASE WriteCompletes
  BY <1>1, <1>3, EndsStep DEF WriteCompletes, At, TaskTypes
<1>4. CASE TaskStops \/ TaskFails
  BY <1>4, BreaksStep DEF TaskStops, TaskFails
<1>5. QED
  BY <1>2, <1>3, <1>4, InspectCompletesStep, WritesStep, SessionOpensStep, SessionReadsStep,
     SessionExecutesStep, SessionVerifiesStep, CleansUpStep, SessionClosesStep, TaskFinishesStep
  DEF TaskWork

-----------------------------------------------------------------------------
(***************************************************************************)
(* The queue, and the values the panel and the worker are given.           *)
(***************************************************************************)

\* The order is kept by whatever leaves queue and numbers alone.
LEMMA OrderKept ==
  ASSUME InOrder, queue' = queue, view'.request = view.request, worker'.cur = worker.cur,
         quit' = quit
  PROVE  InOrder'
BY DEF InOrder, Ordinary

LEMMA TailSays ==
  ASSUME queue \in Seq(Entries), queue # <<>>, queue' = Tail(queue)
  PROVE  /\ queue' \in Seq(Entries) /\ Head(queue) \in Entries /\ Head(queue) = queue[1]
         /\ Len(queue) \in Nat /\ Len(queue) >= 1 /\ Len(queue') = Len(queue) - 1
         /\ \A i \in 1..Len(queue') : i + 1 \in 2..Len(queue) /\ queue'[i] = queue[i + 1]
OBVIOUS

\* The worker takes the request at the head, and its number unless it is a recenter.
LEMMA OrderTaken ==
  ASSUME TypeOK, InOrder, queue # <<>>, queue' = Tail(queue), view'.request = view.request,
         quit' = quit,
         worker'.cur = IF Head(queue).do = "recenter" THEN worker.cur ELSE Head(queue).id
  PROVE  InOrder' /\ (Head(queue).do = "shutdown" => quit)
<1> DEFINE r == Head(queue)
<1>1. /\ queue' \in Seq(Entries) /\ r = queue[1] /\ 1 \in 1..Len(queue)
      /\ \A i \in 1..Len(queue') : i + 1 \in 2..Len(queue) /\ queue'[i] = queue[i + 1]
      /\ Len(queue) \in Nat /\ Len(queue') = Len(queue) - 1
  BY TailSays DEF TypeOK
<1>2. /\ \A i \in 1..Len(queue) : queue[i] \in Entries /\ queue[i].id \in Nat
      /\ view.request \in Nat /\ worker.cur \in Nat /\ quit \in BOOLEAN
  BY DEF TypeOK, Entries, Views, Workers
<1> DEFINE Later(i, j) ==
             i < j /\ Ordinary(queue'[i]) /\ Ordinary(queue'[j]) => queue'[i].id < queue'[j].id
<1>30. \A i, j \in 1..Len(queue') : Later(i, j)
  <2>1. ASSUME NEW i \in 1..Len(queue'), NEW j \in 1..Len(queue'), i < j,
               Ordinary(queue[i + 1]), Ordinary(queue[j + 1])
        PROVE  queue[i + 1].id < queue[j + 1].id
    <3>1. i + 1 \in 1..Len(queue) /\ j + 1 \in 1..Len(queue) /\ i + 1 < j + 1
      BY <1>1, <2>1
    <3>2. QED
      BY <2>1, <3>1 DEF InOrder
  <2>2. QED
    BY <1>1, <2>1
<1>31. \A i \in 1..Len(queue') :
        queue'[i].do = "shutdown" => quit /\ i = Len(queue') /\ queue'[i].id > MaxRequests
  <2>1. ASSUME NEW i \in 1..Len(queue'), queue[i + 1].do = "shutdown"
        PROVE  quit /\ i + 1 = Len(queue) /\ queue[i + 1].id > MaxRequests
    <3>1. i + 1 \in 1..Len(queue)
      BY <1>1, <2>1
    <3>2. QED
      BY <2>1, <3>1 DEF InOrder
  <2>2. ASSUME NEW i \in 1..Len(queue'), queue'[i].do = "shutdown"
        PROVE  quit /\ i = Len(queue') /\ queue'[i].id > MaxRequests
    <3>1. queue'[i] = queue[i + 1]
      BY <1>1, <2>2
    <3>2. quit /\ i + 1 = Len(queue) /\ queue[i + 1].id > MaxRequests
      BY <2>1, <2>2, <3>1
    <3>3. queue'[i].id > MaxRequests
      BY <3>1, <3>2, Zenon
    <3>4. i + 1 = Len(queue)
      BY <3>2
    <3>5. i = Len(queue')
      <4>1. i \in Int /\ Len(queue') = Len(queue) - 1 /\ Len(queue) \in Int
        BY <1>1
      <4>2. QED
        BY <3>4, <4>1
    <3>6. QED
      BY <3>2, <3>3, <3>5
  <2>3. QED
    BY <2>2
<1>3. CASE r.do = "recenter"
  <2>1. worker'.cur = worker.cur
    BY <1>3
  <2>2. ASSUME NEW i \in 1..Len(queue'), Ordinary(queue'[i])
        PROVE  worker.cur < queue'[i].id /\ queue'[i].id <= view.request
    <3>1. i + 1 \in 1..Len(queue) /\ queue'[i] = queue[i + 1]
      BY <1>1, <2>2
    <3>2. QED
      BY <2>2, <3>1 DEF InOrder
  <2>3. QED
    BY <1>3, <1>30, <1>31, <2>1, <2>2 DEF InOrder
<1>4. CASE r.do = "shutdown"
  <2>1. quit /\ Len(queue) = 1
    BY <1>1, <1>4 DEF InOrder
  <2>2. 1..Len(queue') = {}
    BY <1>1, <2>1
  <2>3. QED
    BY <2>1, <2>2 DEF InOrder
<1>5. CASE Ordinary(r)
  <2>1. worker'.cur = r.id /\ r.id <= view.request
    BY <1>1, <1>5 DEF InOrder, Ordinary
  <2>2. ASSUME NEW i \in 1..Len(queue'), Ordinary(queue'[i])
        PROVE  r.id < queue'[i].id
    <3>1. i + 1 \in 1..Len(queue) /\ 1 < i + 1 /\ queue'[i] = queue[i + 1]
      BY <1>1, <2>2
    <3>2. QED
      BY <1>1, <1>5, <2>2, <3>1 DEF InOrder
  <2>3. ASSUME NEW i \in 1..Len(queue'), Ordinary(queue'[i])
        PROVE  worker'.cur < queue'[i].id /\ queue'[i].id <= view.request
    <3>1. i + 1 \in 1..Len(queue) /\ queue'[i] = queue[i + 1]
      BY <1>1, <2>3
    <3>2. queue[i + 1].id <= view.request
      BY <2>3, <3>1 DEF InOrder
    <3>3. QED
      BY <2>1, <2>2, <2>3, <3>1, <3>2
  <2>4. worker'.cur <= view'.request /\ view'.request <= MaxRequests
    BY <2>1 DEF InOrder
  <2>5. QED
    BY <1>5, <1>30, <1>31, <2>3, <2>4 DEF InOrder, Ordinary
<1>6. QED
  BY <1>3, <1>4, <1>5 DEF Ordinary

LEMMA RefusedSays ==
  ASSUME NEW v \in Views, NEW id \in Nat
  PROVE  /\ Refused(v, id) \in Views
         /\ Refused(v, id).request = v.request /\ Refused(v, id).phase = v.phase
BY DEF Refused, Views

LEMMA PublishSessionSays ==
  ASSUME NEW v \in Views, NEW d \in Devs, NEW may \in BOOLEAN, NEW busy \in BOOLEAN,
         NEW request \in Nat
  PROVE  /\ PublishSession(v, d, may, busy, request) \in Views
         /\ PublishSession(v, d, may, busy, request).request = v.request
         /\ PublishSession(v, d, may, busy, request).phase = v.phase
<1> DEFINE mag == IF may THEN d ELSE v.magnetic
           pending == v.pending /\ (v.request = request => busy)
           session == [dev |-> d, may |-> may]
<1>1. mag \in Devs /\ pending \in BOOLEAN /\ session \in [dev : Devs, may : BOOLEAN]
  BY DEF Views
<1>2. PublishSession(v, d, may, busy, request)
        = [v EXCEPT !.magnetic = mag, !.pending = pending, !.session = session]
  BY DEF PublishSession, Views
<1> HIDE DEF mag, pending, session
<1>3. QED
  BY <1>1, <1>2 DEF Views

LEMMA ObserveMagneticSays ==
  ASSUME NEW v \in Views, NEW d \in Devs, NEW s
  PROVE  /\ ObserveMagnetic(v, s, d) \in Views
         /\ ObserveMagnetic(v, s, d).request = v.request
         /\ ObserveMagnetic(v, s, d).phase = v.phase
BY DEF ObserveMagnetic, Views, Devs

LEMMA LookedSays ==
  ASSUME NEW w \in Workers, NEW s \in Shared
  PROVE  /\ Looked(w, s) \in Workers /\ Looked(w, s).pc = "absorb"
         /\ Looked(w, s).phase = IF s.state = "Failed" THEN "Failed" ELSE w.phase
         /\ Looked(w, s).connect = IF s.state = "Failed" THEN NoDevice ELSE w.connect
         /\ Looked(w, s).apply = w.apply /\ Looked(w, s).device = w.device
         /\ Looked(w, s).cur = w.cur /\ Looked(w, s).req = w.req
<1> DEFINE snap == [state |-> s.state, op |-> s.op, desc |-> s.desc]
<1>1. snap \in [state : States, op : Operations, desc : BOOLEAN]
  BY DEF Shared
<1> DEFINE phase == IF s.state = "Failed" THEN "Failed" ELSE w.phase
           connect == IF s.state = "Failed" THEN NoDevice ELSE w.connect
<1>2. Looked(w, s) = [w EXCEPT !.snap = snap, !.pc = "absorb", !.phase = phase,
                               !.connect = connect]
  BY DEF Looked, Workers
<1>3. phase \in Phases /\ connect \in Devs
  BY DEF Workers, Phases, Devs
<1>4. /\ phase = IF s.state = "Failed" THEN "Failed" ELSE w.phase
      /\ connect = IF s.state = "Failed" THEN NoDevice ELSE w.connect
  OBVIOUS
<1> HIDE DEF snap, phase, connect
<1> DEFINE new == [w EXCEPT !.snap = snap, !.pc = "absorb", !.phase = phase, !.connect = connect]
<1>5. new \in Workers
  BY <1>1, <1>3 DEF Workers
<1>6. /\ new.pc = "absorb" /\ new.phase = phase /\ new.connect = connect
      /\ new.apply = w.apply /\ new.device = w.device /\ new.cur = w.cur /\ new.req = w.req
  BY DEF Workers
<1> HIDE DEF new
<1>7. Looked(w, s) = new
  BY <1>2 DEF new
<1>8. QED
  BY <1>4, <1>5, <1>6, <1>7

LEMMA MayBusy ==
  ASSUME TypeOK
  PROVE  May \in BOOLEAN /\ Busy \in BOOLEAN
BY DEF May, Busy, TypeOK, TaskTypes, Shared, Sessions

-----------------------------------------------------------------------------
(***************************************************************************)
(* The panel.                                                              *)
(***************************************************************************)

LEMMA SendStep ==
  ASSUME IInv, NEW c \in Requests, Send(c)
  PROVE  IInv'
<1> DEFINE id == IF c.do = "recenter" THEN view.request ELSE view.request + 1
           e == [id |-> id, do |-> c.do, dev |-> c.dev]
<1>1. /\ ~quit /\ Admits(c) /\ view.request < MaxRequests /\ queue' = Append(queue, e)
      /\ view' = IF c.do = "recenter" THEN view
                 ELSE [view EXCEPT !.request = id, !.phase = PhaseOf(c),
                                   !.device = IF c.dev = NoDevice THEN @ ELSE c.dev,
                                   !.pending = IntoSession(c)]
      /\ UNCHANGED <<worker, taskVars, external, released, quit>>
  BY DEF Send
<1>2. /\ view \in Views /\ view.request \in Nat /\ queue \in Seq(Entries) /\ worker.cur \in Nat
      /\ MaxRequests \in Nat
  BY ServiceAssumption DEF IInv, TypeOK, Views, Workers
<1>3. /\ c.do \in OnDevice \cup {"scan", "stop", "recenter"} /\ c.dev \in Devs
      /\ c.do \in OnDevice => c.dev \in Devices
  BY DEF Requests, OnDevice, InSession, Devs
<1>4. id \in Nat /\ e \in Entries /\ e.id = id /\ e.do = c.do
  <2>1. id \in Nat
    BY <1>2
  <2> HIDE DEF id
  <2>2. QED
    BY <1>3, <2>1 DEF Entries
<1>5. c.do # "recenter" =>
        /\ view' \in Views /\ view'.request = view.request + 1
        /\ view'.phase = PhaseOf(c) /\ PhaseOf(c) # "Idle"
  <2>1. PhaseOf(c) \in Phases \ {"Idle"}
    BY <1>3 DEF PhaseOf, Phases
  <2>2. IntoSession(c) \in BOOLEAN
    BY DEF IntoSession
  <2>3. QED
    BY <1>1, <1>2, <1>3, <1>4, <2>1, <2>2 DEF Views, Devs
<1>6. c.do = "recenter" => view' = view /\ view.phase = "Tracking"
  BY <1>1 DEF Admits
<1> HIDE DEF e
<1>7. /\ queue' \in Seq(Entries) /\ Len(queue') = Len(queue) + 1 /\ Len(queue) \in Nat
      /\ \A i \in 1..Len(queue) : queue'[i] = queue[i]
      /\ queue'[Len(queue) + 1] = e
  BY <1>1, <1>2, <1>4
<1>8. \A i \in 1..Len(queue') : i \in 1..Len(queue) \/ i = Len(queue) + 1
  BY <1>7
<1>9. view'.request \in {view.request, view.request + 1} /\ id <= view'.request
  BY <1>1, <1>2, <1>5
<1>10. InOrder'
  <2>1. view'.request <= MaxRequests /\ worker'.cur <= view'.request
    BY <1>1, <1>2, <1>9 DEF IInv, InOrder
  <2>2. \A i \in 1..Len(queue') : Ordinary(queue'[i]) =>
          worker'.cur < queue'[i].id /\ queue'[i].id <= view'.request
    <3>1. ASSUME NEW i \in 1..Len(queue), Ordinary(queue[i])
          PROVE  worker.cur < queue[i].id /\ queue[i].id <= view'.request
      <4>1. queue[i].id \in Nat
        BY <1>2 DEF Entries
      <4>2. QED
        BY <1>2, <1>9, <3>1, <4>1 DEF IInv, InOrder
    <3>2. Ordinary(e) => worker.cur < id /\ id <= view'.request
      BY <1>1, <1>2, <1>4, <1>5 DEF IInv, InOrder, Ordinary
    <3>3. QED
      BY <1>1, <1>4, <1>7, <1>8, <3>1, <3>2 DEF Ordinary
  <2>3. \A i \in 1..Len(queue') : queue'[i].do # "shutdown"
    BY <1>1, <1>3, <1>4, <1>7, <1>8 DEF IInv, InOrder, OnDevice, InSession
  <2>4. \A i, j \in 1..Len(queue') :
          i < j /\ Ordinary(queue'[i]) /\ Ordinary(queue'[j]) => queue'[i].id < queue'[j].id
    <3>1. ASSUME NEW i \in 1..Len(queue'), NEW j \in 1..Len(queue'), i < j,
                 Ordinary(queue'[i]), Ordinary(queue'[j])
          PROVE  queue'[i].id < queue'[j].id
      <4>1. i \in 1..Len(queue)
        BY <1>7, <3>1
      <4>2. CASE j \in 1..Len(queue)
        BY <1>7, <3>1, <4>1, <4>2 DEF IInv, InOrder
      <4>3. CASE j = Len(queue) + 1
        <5>1. Ordinary(e) /\ id = view.request + 1
          BY <1>4, <1>7, <3>1, <4>3 DEF Ordinary
        <5>2. queue[i].id <= view.request /\ queue[i].id \in Nat
          BY <1>2, <1>7, <3>1, <4>1 DEF IInv, InOrder, Entries
        <5>3. QED
          BY <1>2, <1>4, <1>7, <4>1, <4>3, <5>1, <5>2
      <4>4. QED
        BY <1>8, <4>2, <4>3
    <3>2. QED
      BY <3>1
  <2>5. QED
    BY <2>1, <2>2, <2>3, <2>4 DEF InOrder
<1>11. TypeOK'
  BY <1>1, <1>2, <1>5, <1>6, <1>7 DEF IInv, TypeOK, TaskTypes, taskVars
<1>12. EndIsLast' /\ Forgotten' /\ WorkerIdle'
  BY <1>1 DEF IInv, EndIsLast, Forgotten, WorkerIdle, Resting, Quiet, taskVars
<1>13. ViewIdle'
  BY <1>5, <1>6 DEF ViewIdle
<1>14. QED
  BY <1>10, <1>11, <1>12, <1>13 DEF IInv

LEMMA QuitStep ==
  ASSUME IInv, Quit
  PROVE  IInv'
<1> DEFINE e == [id |-> MaxRequests + 1, do |-> "shutdown", dev |-> NoDevice]
<1>1. /\ ~quit /\ queue' = Append(queue, e) /\ quit' = TRUE
      /\ UNCHANGED <<view, worker, taskVars, external, released>>
  BY DEF Quit
<1>2. queue \in Seq(Entries) /\ MaxRequests \in Nat
  BY ServiceAssumption DEF IInv, TypeOK
<1>3. e \in Entries /\ e.do = "shutdown" /\ e.id > MaxRequests
  BY <1>2 DEF Entries, Devs, OnDevice, InSession
<1> HIDE DEF e
<1>4. /\ queue' \in Seq(Entries) /\ Len(queue') = Len(queue) + 1 /\ Len(queue) \in Nat
      /\ \A i \in 1..Len(queue) : queue'[i] = queue[i]
      /\ queue'[Len(queue) + 1] = e
  BY <1>1, <1>2, <1>3
<1>5. \A i \in 1..Len(queue') : i \in 1..Len(queue) \/ i = Len(queue) + 1
  BY <1>4
<1>6. \A i \in 1..Len(queue') :
        Ordinary(queue'[i]) => i \in 1..Len(queue) /\ Ordinary(queue[i])
  BY <1>3, <1>4, <1>5 DEF Ordinary
<1>7. InOrder'
  <2>1. \A i \in 1..Len(queue') :
          /\ Ordinary(queue'[i]) => worker.cur < queue'[i].id /\ queue'[i].id <= view.request
          /\ queue'[i].do = "shutdown" => i = Len(queue') /\ queue'[i].id > MaxRequests
    BY <1>1, <1>3, <1>4, <1>5, <1>6 DEF IInv, InOrder
  <2>2. \A i, j \in 1..Len(queue') :
          i < j /\ Ordinary(queue'[i]) /\ Ordinary(queue'[j]) => queue'[i].id < queue'[j].id
    BY <1>4, <1>6 DEF IInv, InOrder
  <2>3. QED
    BY <1>1, <2>1, <2>2 DEF IInv, InOrder
<1>8. TypeOK'
  BY <1>1, <1>4 DEF IInv, TypeOK, TaskTypes, taskVars
<1>9. EndIsLast' /\ Forgotten' /\ WorkerIdle'
  BY <1>1 DEF IInv, EndIsLast, Forgotten, WorkerIdle, Resting, Quiet, taskVars
<1>10. ViewIdle'
  BY <1>1, <1>6 DEF IInv, ViewIdle, Resting, Quiet, taskVars
<1>11. QED
  BY <1>7, <1>8, <1>9, <1>10 DEF IInv

-----------------------------------------------------------------------------
(***************************************************************************)
(* The worker: a request.                                                  *)
(***************************************************************************)

\* The parts of the invariant that a step keeps when the controller, the panel's
\* phase and what the worker waits for stay as they are.
LEMMA StopStep ==
  ASSUME TaskTypes, task' = NoTask, shared' \in Shared, UNCHANGED <<calsw, owes>>
  PROVE  TaskTypes' /\ EndIsLast' /\ Quiet'
BY NoTaskIsATask DEF TaskTypes, EndIsLast, Quiet

LEMMA LaunchStep ==
  ASSUME TaskTypes, NEW s \in Shared, NEW do \in Dos, NEW d \in Devs, do # "scan" => d \in Devices,
         shared' = Started(s, do), task' = Launched(do, d), UNCHANGED <<calsw, owes>>
  PROVE  TaskTypes' /\ EndIsLast'
<1>1. shared' \in Shared /\ shared'.state \notin {"Complete", "Stopped"}
  BY StartedSays
<1>2. task' \in Tasks /\ task'.dev = d /\ task'.kind = KindOf(do)
  BY LaunchedSays
<1>3. task'.kind # "scan" => task'.dev \in Devices
  <2>1. do = "scan" => KindOf(do) = "scan"
    BY DEF KindOf
  <2>2. QED
    BY <1>2, <2>1
<1>4. TaskTypes'
  BY <1>1, <1>2, <1>3 DEF TaskTypes
<1>5. EndIsLast'
  BY <1>1 DEF EndIsLast
<1>6. QED
  BY <1>4, <1>5

LEMMA RecentersStep ==
  ASSUME IInv, Recenters
  PROVE  IInv'
<1>1. /\ worker.pc = "loop" /\ queue # <<>> /\ queue' = Tail(queue)
      /\ Head(queue).do = "recenter" /\ worker' = [worker EXCEPT !.pc = "poll"]
      /\ UNCHANGED <<view, taskVars, external, released, quit>>
  BY DEF Recenters, Taking
<1>2. /\ queue' \in Seq(Entries)
      /\ \A i \in 1..Len(queue') : i + 1 \in 1..Len(queue) /\ queue'[i] = queue[i + 1]
  BY <1>1, TailSays DEF IInv, TypeOK
<1>3. /\ worker' \in Workers /\ worker'.pc = "poll" /\ worker'.phase = worker.phase
      /\ worker'.apply = worker.apply /\ worker'.connect = worker.connect
      /\ worker'.device = worker.device /\ worker'.cur = worker.cur /\ worker'.req = worker.req
  BY <1>1 DEF IInv, TypeOK, Workers
<1>4. InOrder'
  BY <1>1, <1>3, OrderTaken DEF IInv
<1>5. TypeOK'
  BY <1>1, <1>2, <1>3 DEF IInv, TypeOK, TaskTypes, taskVars
<1>6. EndIsLast' /\ Forgotten' /\ WorkerIdle'
  BY <1>1, <1>3 DEF IInv, EndIsLast, Forgotten, WorkerIdle, Resting, Quiet, taskVars
<1>7. ViewIdle'
  BY <1>1, <1>2, <1>3 DEF IInv, ViewIdle, Resting, Quiet, taskVars
<1>8. QED
  BY <1>4, <1>5, <1>6, <1>7 DEF IInv

\* While the panel shows "Not connected" no request is taken but a shutdown.
LEMMA TakenIsShown ==
  ASSUME IInv, queue # <<>>, Ordinary(Head(queue))
  PROVE  view.phase # "Idle"
<1>1. Head(queue) = queue[1] /\ 1 \in 1..Len(queue)
  BY DEF IInv, TypeOK
<1>2. QED
  BY <1>1 DEF IInv, ViewIdle

LEMMA CommandsStep ==
  ASSUME IInv, Commands
  PROVE  IInv'
<1> DEFINE r == Head(queue)
<1>1. /\ worker.pc = "loop" /\ queue # <<>> /\ queue' = Tail(queue)
      /\ worker.phase = "Magnetic" /\ r.do \in InSession
      /\ worker' = [worker EXCEPT !.pc = "poll", !.cur = r.id]
      /\ SendsInto(r.do) /\ view' = (IF Ready THEN view ELSE Refused(view, r.id))
      /\ UNCHANGED <<calsw, owes, external, released, quit>>
  BY DEF Commands, Taking, IntoRun
<1>2. /\ queue' \in Seq(Entries) /\ r \in Entries
      /\ view \in Views /\ worker \in Workers /\ shared \in Shared /\ task \in Tasks
  BY <1>1, TailSays DEF IInv, TypeOK, TaskTypes
<1>3. Ordinary(r) /\ r.do # "recenter" /\ r.id \in Nat
  BY <1>1, <1>2 DEF Ordinary, InSession, Entries
<1>4. view.phase # "Idle"
  BY <1>1, <1>3, TakenIsShown
<1>5. view' \in Views /\ view'.request = view.request /\ view'.phase = view.phase
  BY <1>1, <1>2, <1>3, RefusedSays
<1>6. /\ worker' \in Workers /\ worker'.pc = "poll" /\ worker'.phase = "Magnetic"
      /\ worker'.apply = worker.apply /\ worker'.connect = worker.connect
      /\ worker'.device = worker.device /\ worker'.cur = r.id
  BY <1>1, <1>2, <1>3 DEF Workers
<1>7. InOrder'
  BY <1>1, <1>3, <1>5, <1>6, OrderTaken DEF IInv
<1>8. /\ shared' \in Shared /\ shared'.state = shared.state
      /\ task' = task \/ (~task.alive /\ task' = NoTask)
  <2> DEFINE run == [NoOperation EXCEPT !.action = r.do, !.outcome = "Running"]
  <2>1. run \in Operations
    BY <1>1, OperationIsOne DEF Dos, OnDevice, Outcomes
  <2>2. Ready => task.alive
    BY DEF Ready
  <2>3. CASE Ready
    <3>1. shared' = [shared EXCEPT !.chan = r.do, !.op = run] /\ task' = task
      BY <1>1, <2>2, <2>3 DEF SendsInto
    <3> HIDE DEF run
    <3>2. QED
      BY <1>1, <1>2, <2>1, <3>1 DEF Shared
  <2>4. CASE ~Ready /\ task.alive
    BY <1>1, <1>2, <2>4 DEF SendsInto
  <2>5. CASE ~Ready /\ ~task.alive
    BY <1>1, <1>2, <2>5 DEF SendsInto, Shared
  <2>6. QED
    BY <2>2, <2>3, <2>4, <2>5
<1>9. TaskTypes' /\ EndIsLast'
  BY <1>1, <1>8, NoTaskIsATask DEF IInv, TypeOK, TaskTypes, EndIsLast, Quiet
<1>10. TypeOK'
  BY <1>1, <1>2, <1>5, <1>6, <1>9 DEF IInv, TypeOK
<1>11. Forgotten' /\ WorkerIdle'
  BY <1>1, <1>6 DEF IInv, Forgotten, WorkerIdle
<1>12. ViewIdle'
  BY <1>4, <1>5 DEF ViewIdle
<1>13. QED
  BY <1>7, <1>9, <1>10, <1>11, <1>12 DEF IInv

LEMMA TakesStep ==
  ASSUME IInv, Takes
  PROVE  IInv'
<1> DEFINE r == Head(queue)
           connect == IF r.do = "shutdown" THEN worker.connect ELSE NoDevice
           next == IF r.do = "shutdown" THEN "leaving" ELSE IF Stops(r) THEN "joining" ELSE "begin"
           cancel == task.cancel \/ r.do = "shutdown" \/ Stops(r)
<1>1. /\ worker.pc = "loop" /\ queue # <<>> /\ queue' = Tail(queue) /\ r.do # "recenter"
      /\ worker' = [worker EXCEPT !.cur = r.id, !.req = r, !.apply = "none",
                                  !.connect = connect, !.pc = next]
      /\ task' = [task EXCEPT !.cancel = cancel]
      /\ UNCHANGED <<view, shared, calsw, owes, external, released, quit>>
  <2>1. worker \in Workers /\ task \in Tasks
    BY DEF IInv, TypeOK, TaskTypes
  <2>2. QED
    BY <2>1 DEF Takes, Taking, Workers, Tasks
<1>2. /\ queue' \in Seq(Entries) /\ r \in Entries /\ r.id \in Nat
      /\ \A i \in 1..Len(queue') : i + 1 \in 1..Len(queue) /\ queue'[i] = queue[i + 1]
      /\ view \in Views /\ worker \in Workers /\ task \in Tasks
  BY <1>1, TailSays DEF IInv, TypeOK, TaskTypes, Entries
<1>3. /\ connect \in {worker.connect, NoDevice} /\ connect \in Devs
      /\ next \in {"leaving", "joining", "begin"} /\ cancel \in BOOLEAN
      /\ r.do = "shutdown" => next = "leaving"
      /\ r.do # "shutdown" => next # "leaving" /\ connect = NoDevice
      /\ next = "begin" => r.do # "stop"
  BY <1>2 DEF Workers, Tasks, Devs, Stops
<1> HIDE DEF connect, next, cancel
<1>4. /\ worker' \in Workers /\ worker'.pc = next /\ worker'.cur = r.id /\ worker'.req = r
      /\ worker'.apply = "none" /\ worker'.connect = connect
  BY <1>1, <1>2, <1>3 DEF Workers
<1>5. /\ task' \in Tasks /\ task'.alive = task.alive /\ task'.step = task.step
      /\ task'.kind = task.kind /\ task'.dev = task.dev
  BY <1>1, <1>2, <1>3 DEF Tasks
<1>6. InOrder'
  BY <1>1, <1>4, OrderTaken DEF IInv
<1>7. TypeOK' /\ EndIsLast'
  BY <1>1, <1>2, <1>4, <1>5 DEF IInv, TypeOK, TaskTypes, EndIsLast, Quiet
<1>8. Forgotten'
  BY <1>1, <1>3, <1>4 DEF Forgotten, Ordinary
<1>9. WorkerIdle'
  BY <1>3, <1>4 DEF WorkerIdle
<1>10. ViewIdle'
  <2>1. CASE r.do = "shutdown"
    BY <1>1, <1>2, <1>3, <1>4, <1>5, <2>1 DEF IInv, ViewIdle, Resting, Quiet
  <2>2. CASE r.do # "shutdown"
    BY <1>1, <2>2, TakenIsShown DEF Ordinary, ViewIdle
  <2>3. QED
    BY <2>1, <2>2
<1>11. QED
  BY <1>6, <1>7, <1>8, <1>9, <1>10 DEF IInv

LEMMA RetiredSays ==
  ASSUME TypeOK
  PROVE  Retired \in Views /\ Retired.request = view.request /\ Retired.phase = view.phase
<1>1. view \in Views /\ worker.run \in Devs /\ worker.cur \in Nat
  BY DEF TypeOK, Workers
<1>2. QED
  BY <1>1, MayBusy, PublishSessionSays DEF Retired

LEMMA JoinsStep ==
  ASSUME IInv, Joins
  PROVE  IInv'
<1> DEFINE r == worker.req
           fails == r.do = "stop" /\ StopFails /\ worker.phase # "Failed"
<1>1. /\ worker.pc = "joining" /\ ~task.alive
      /\ worker' = IF fails THEN [worker EXCEPT !.run = NoDevice, !.phase = "Failed",
                                            !.pc = "poll", !.req = NoRequest]
                   ELSE [worker EXCEPT !.run = NoDevice, !.pc = "begin"]
      /\ view' = IF fails THEN Refused(Retired, worker.cur)
                 ELSE IF r.do # "stop" THEN [Retired EXCEPT !.session = NoSession] ELSE Retired
      /\ released' = (released \/ (view.pending /\ ~Retired.pending))
      /\ shared' = Stopped(shared) /\ task' = NoTask
      /\ UNCHANGED <<queue, calsw, owes, external, quit>>
  BY DEF Joins
<1>2. /\ worker \in Workers /\ view \in Views /\ Retired \in Views /\ worker.cur \in Nat
      /\ Retired.request = view.request /\ Retired.phase = view.phase /\ shared \in Shared
      /\ TaskTypes /\ released \in BOOLEAN
  BY RetiredSays DEF IInv, TypeOK, TaskTypes, Workers
<1>3. view.phase # "Idle"
  BY <1>1 DEF IInv, ViewIdle
<1>4. view' \in Views /\ view'.request = view.request /\ view'.phase = view.phase
  <2>1. NoSession \in [dev : Devs, may : BOOLEAN]
    BY DEF NoSession, Devs
  <2> DEFINE v == [Retired EXCEPT !.session = NoSession]
  <2>2. v \in Views /\ v.request = view.request /\ v.phase = view.phase
    BY <1>2, <2>1 DEF Views
  <2> HIDE DEF v, fails
  <2>3. view' \in {Refused(Retired, worker.cur), v, Retired}
    BY <1>1 DEF v
  <2>4. QED
    BY <1>2, <2>2, <2>3, RefusedSays
<1>5. NoRequest \in Entries
  BY DEF NoRequest, Entries, OnDevice, InSession, Devs
<1>6. /\ worker' \in Workers /\ worker'.cur = worker.cur /\ worker'.apply = worker.apply
      /\ worker'.connect = worker.connect /\ worker'.device = worker.device
      /\ \/ worker'.pc = "poll" /\ worker'.phase = "Failed"
         \/ worker'.pc = "begin" /\ worker'.req = worker.req
  <2> HIDE DEF fails
  <2>1. CASE fails
    BY <1>1, <1>2, <1>5, <2>1 DEF Workers, Phases, Devs
  <2>2. CASE ~fails
    BY <1>1, <1>2, <2>2 DEF Workers, Devs
  <2>3. QED
    BY <2>1, <2>2
<1>7. TaskTypes' /\ EndIsLast' /\ Quiet' /\ ~task'.alive
  BY <1>1, <1>2, StopStep, StoppedSays, NoTaskIsATask
<1>8. released' \in BOOLEAN
  BY <1>1, <1>2
<1>9. InOrder'
  BY <1>1, <1>4, <1>6, OrderKept DEF IInv
<1>10. TypeOK'
  BY <1>1, <1>2, <1>4, <1>6, <1>7, <1>8 DEF IInv, TypeOK
<1>11. Forgotten' /\ WorkerIdle'
  BY <1>1, <1>6, <1>7 DEF IInv, Forgotten, WorkerIdle
<1>12. ViewIdle'
  BY <1>3, <1>4 DEF ViewIdle
<1>13. QED
  BY <1>7, <1>9, <1>10, <1>11, <1>12 DEF IInv

LEMMA BeginsStep ==
  ASSUME IInv, Begins
  PROVE  IInv'
<1> DEFINE r == worker.req
<1>1. /\ worker.pc = "begin" /\ UNCHANGED <<queue, calsw, owes, external, released, quit>>
  BY DEF Begins
<1>2. /\ worker \in Workers /\ view \in Views /\ shared \in Shared /\ task \in Tasks /\ TaskTypes
      /\ worker.cur \in Nat /\ r \in Entries
  BY DEF IInv, TypeOK, TaskTypes, Workers
<1>3. view.phase # "Idle" /\ worker.apply = "none" /\ worker.connect = NoDevice /\ Ordinary(r)
  BY <1>1 DEF IInv, ViewIdle, Forgotten
<1>4. NoRequest \in Entries /\ NoSession \in [dev : Devs, may : BOOLEAN]
  BY DEF NoRequest, NoSession, Entries, OnDevice, InSession, Devs
<1>5. /\ r.do \in OnDevice \cup {"scan", "stop"} /\ r.dev \in Devs
      /\ r.do \in OnDevice => r.dev \in Devices
  BY <1>2, <1>3 DEF Entries, Ordinary
\* Each branch ends in the poll, with a task that is typed and no longer the old one.
<1>6. ASSUME view' \in Views, view'.request = view.request, view'.phase = view.phase,
             worker' \in Workers, worker'.pc = "poll", worker'.cur = worker.cur,
             worker'.phase = "Idle" => Resting',
             worker'.apply # "none" => worker'.device \in Devices /\ worker'.connect = NoDevice,
             TaskTypes', EndIsLast'
      PROVE  IInv'
  <2>1. InOrder'
    BY <1>1, <1>6, OrderKept DEF IInv
  <2>2. TypeOK'
    BY <1>1, <1>6 DEF IInv, TypeOK
  <2>3. Forgotten' /\ WorkerIdle' /\ ViewIdle'
    BY <1>3, <1>6 DEF Forgotten, WorkerIdle, ViewIdle
  <2>4. QED
    BY <1>6, <2>1, <2>2, <2>3 DEF IInv
<1>7. CASE /\ r.do = "stop"
           /\ worker' = [worker EXCEPT !.phase = "Idle", !.pc = "poll", !.req = NoRequest]
           /\ shared' = [shared EXCEPT !.state = "Stopped"]
           /\ UNCHANGED <<view, task>>
  <2>1. ~task.alive
    BY <1>1, <1>7 DEF IInv, Forgotten
  <2>2. /\ worker' \in Workers /\ worker'.pc = "poll" /\ worker'.cur = worker.cur
        /\ worker'.apply = "none" /\ worker'.connect = NoDevice
    BY <1>2, <1>3, <1>4, <1>7 DEF Workers, Phases
  <2>3. shared' \in Shared
    BY <1>2, <1>7 DEF Shared, States, Endings
  <2>4. TaskTypes' /\ EndIsLast' /\ Quiet'
    BY <1>1, <1>2, <1>7, <2>1, <2>3 DEF TaskTypes, EndIsLast, Quiet
  <2>5. QED
    BY <1>2, <1>6, <1>7, <2>2, <2>4 DEF Resting
<1>8. CASE /\ r.do # "stop" /\ (task.alive \/ r.do = "other")
           /\ worker' = [worker EXCEPT !.phase = "Failed", !.pc = "poll", !.req = NoRequest]
           /\ view' = [Refused(view, worker.cur) EXCEPT !.session = NoSession]
           /\ shared' = IF task.alive THEN shared ELSE Configured(Stopped(shared), r.dev, FALSE)
           /\ task' = IF task.alive THEN task ELSE NoTask
  <2>1. view' \in Views /\ view'.request = view.request /\ view'.phase = view.phase
    <3>1. /\ Refused(view, worker.cur) \in Views
          /\ Refused(view, worker.cur).request = view.request
          /\ Refused(view, worker.cur).phase = view.phase
      BY <1>2, RefusedSays
    <3>2. QED
      BY <1>4, <1>8, <3>1 DEF Views
  <2>2. /\ worker' \in Workers /\ worker'.pc = "poll" /\ worker'.cur = worker.cur
        /\ worker'.phase = "Failed" /\ worker'.apply = "none" /\ worker'.connect = NoDevice
    BY <1>2, <1>3, <1>4, <1>8 DEF Workers, Phases
  <2>3. TaskTypes' /\ EndIsLast'
    <3>1. CASE task.alive
      BY <1>1, <1>2, <1>8, <3>1 DEF IInv, TaskTypes, EndIsLast, Quiet
    <3>2. CASE ~task.alive
      <4>1. Configured(Stopped(shared), r.dev, FALSE) \in Shared
        BY <1>2, <1>5, StoppedSays, ConfiguredSays
      <4>2. QED
        BY <1>1, <1>2, <1>8, <3>2, <4>1, StopStep
    <3>3. QED
      BY <3>1, <3>2
  <2>4. QED
    BY <1>6, <2>1, <2>2, <2>3
<1>9. CASE /\ r.do # "stop" /\ ~task.alive
           /\ worker' = [worker EXCEPT !.phase = WorkerPhase(r.do), !.pc = "poll", !.req = NoRequest,
                !.device = IF r.do = "scan" THEN @ ELSE r.dev,
                !.connect = IF r.do = "connect" THEN r.dev ELSE NoDevice,
                !.apply = IF r.do = "apply" THEN "before" ELSE "none",
                !.run = IF r.do = "magnetic" THEN r.dev ELSE NoDevice]
           /\ view' = [view EXCEPT !.session = NoSession]
           /\ shared' = Started(IF r.do = "scan" THEN Stopped(shared)
                                ELSE Configured(Stopped(shared), r.dev, r.do = "connect"), r.do)
           /\ task' = Launched(r.do, r.dev)
  <2> DEFINE phase == WorkerPhase(r.do)
             device == IF r.do = "scan" THEN worker.device ELSE r.dev
             connect == IF r.do = "connect" THEN r.dev ELSE NoDevice
             apply == IF r.do = "apply" THEN "before" ELSE "none"
             mag == IF r.do = "magnetic" THEN r.dev ELSE NoDevice
  <2>1. /\ phase \in Phases \ {"Idle"} /\ device \in Devs /\ connect \in Devs /\ mag \in Devs
        /\ apply \in {"none", "before"}
        /\ apply # "none" => device \in Devices /\ connect = NoDevice
    BY <1>2, <1>5 DEF WorkerPhase, Phases, Workers, Devs, OnDevice
  <2>2. worker' = [worker EXCEPT !.phase = phase, !.pc = "poll", !.req = NoRequest,
                     !.device = device, !.connect = connect, !.apply = apply, !.run = mag]
    BY <1>2, <1>9 DEF Workers
  <2> HIDE DEF phase, device, connect, apply, mag
  <2>3. /\ worker' \in Workers /\ worker'.pc = "poll" /\ worker'.cur = worker.cur
        /\ worker'.phase = phase /\ worker'.device = device /\ worker'.connect = connect
        /\ worker'.apply = apply
    BY <1>2, <1>4, <2>1, <2>2 DEF Workers
  <2>4. view' \in Views /\ view'.request = view.request /\ view'.phase = view.phase
    BY <1>2, <1>4, <1>9 DEF Views
  <2>5. TaskTypes' /\ EndIsLast'
    <3> DEFINE s == IF r.do = "scan" THEN Stopped(shared)
                    ELSE Configured(Stopped(shared), r.dev, r.do = "connect")
    <3>1. s \in Shared
      <4>1. (r.do = "connect") \in BOOLEAN
        OBVIOUS
      <4>2. QED
        BY <1>2, <1>5, <4>1, StoppedSays, ConfiguredSays
    <3>2. shared' = Started(s, r.do)
      BY <1>9
    <3> HIDE DEF s
    <3>3. r.do \in Dos /\ (r.do # "scan" => r.dev \in Devices)
      BY <1>5, <1>9 DEF Dos
    <3>4. QED
      BY <1>1, <1>2, <1>5, <1>9, <3>1, <3>2, <3>3, LaunchStep
  <2>6. QED
    BY <1>6, <2>1, <2>3, <2>4, <2>5
<1>10. QED
  BY <1>7, <1>8, <1>9 DEF Begins

LEMMA LeavesStep ==
  ASSUME IInv, Leaves
  PROVE  IInv'
<1>1. /\ worker.pc = "leaving" /\ worker' = [worker EXCEPT !.pc = "gone"]
      /\ shared' = Stopped(shared) /\ task' = NoTask
      /\ UNCHANGED <<view, queue, calsw, owes, external, released, quit>>
  BY DEF Leaves
<1>2. worker \in Workers /\ shared \in Shared /\ TaskTypes
  BY DEF IInv, TypeOK, TaskTypes
<1>3. /\ worker' \in Workers /\ worker'.pc = "gone" /\ worker'.cur = worker.cur
      /\ worker'.apply = worker.apply /\ worker'.connect = worker.connect
      /\ worker'.device = worker.device
  BY <1>1, <1>2 DEF Workers
<1>4. TaskTypes' /\ EndIsLast' /\ Quiet'
  BY <1>1, <1>2, StopStep, StoppedSays
<1>5. InOrder'
  BY <1>1, <1>3, OrderKept DEF IInv
<1>6. TypeOK'
  BY <1>1, <1>3, <1>4 DEF IInv, TypeOK
<1>7. Forgotten' /\ WorkerIdle' /\ ViewIdle'
  BY <1>1, <1>3, <1>4 DEF IInv, Forgotten, WorkerIdle, ViewIdle, Resting
<1>8. QED
  BY <1>4, <1>5, <1>6, <1>7 DEF IInv

-----------------------------------------------------------------------------
(***************************************************************************)
(* The worker: a poll.                                                     *)
(***************************************************************************)

\* A step of the poll that leaves the controller alone.
LEMMA PollStep ==
  ASSUME IInv, UNCHANGED <<view, queue, taskVars, external, released, quit>>,
         worker' \in Workers, worker.pc \in {"loop", "poll", "absorb", "publish"},
         worker'.pc \in {"loop", "poll", "absorb", "publish"}, worker'.cur = worker.cur,
         worker'.device = worker.device, worker'.apply \in {worker.apply, "none"},
         worker'.connect \in {worker.connect, NoDevice},
         worker'.phase = "Idle" => Resting'
  PROVE  IInv'
<1>1. InOrder'
  BY OrderKept DEF IInv
<1>2. TypeOK' /\ EndIsLast' /\ Forgotten' /\ WorkerIdle'
  BY DEF IInv, TypeOK, TaskTypes, EndIsLast, Quiet, Forgotten, WorkerIdle, taskVars
<1>3. ViewIdle'
  BY DEF IInv, ViewIdle, Resting, Quiet, taskVars
<1>4. QED
  BY <1>1, <1>2, <1>3 DEF IInv

LEMMA WaitsStep ==
  ASSUME IInv, Waits
  PROVE  IInv'
<1>1. /\ worker.pc = "loop" /\ worker' = [worker EXCEPT !.pc = "poll"]
      /\ UNCHANGED <<view, queue, taskVars, external, released, quit>>
  BY DEF Waits
<1>2. /\ worker' \in Workers /\ worker'.pc = "poll" /\ worker'.cur = worker.cur
      /\ worker'.device = worker.device /\ worker'.apply = worker.apply
      /\ worker'.connect = worker.connect /\ worker'.phase = worker.phase
  BY <1>1 DEF IInv, TypeOK, Workers
<1>3. worker'.phase = "Idle" => Resting'
  BY <1>1, <1>2 DEF IInv, WorkerIdle, Resting, Quiet, taskVars
<1>4. QED
  BY <1>1, <1>2, <1>3, PollStep

LEMMA AbsorbsStep ==
  ASSUME IInv, Absorbs
  PROVE  IInv'
<1> DEFINE may == worker.run # NoDevice /\ May
           busy == worker.run # NoDevice /\ Busy
<1>1. /\ worker.pc = "absorb"
      /\ worker' = [worker EXCEPT !.pc = "publish", !.may = may, !.busy = busy]
      /\ UNCHANGED <<view, queue, taskVars, external, released, quit>>
  BY DEF Absorbs
<1>2. may \in BOOLEAN /\ busy \in BOOLEAN
  BY MayBusy DEF IInv
<1> HIDE DEF may, busy
<1>3. /\ worker' \in Workers /\ worker'.pc = "publish" /\ worker'.cur = worker.cur
      /\ worker'.device = worker.device /\ worker'.apply = worker.apply
      /\ worker'.connect = worker.connect /\ worker'.phase = worker.phase
  BY <1>1, <1>2 DEF IInv, TypeOK, Workers
<1>4. worker'.phase = "Idle" => Resting'
  BY <1>1, <1>3 DEF IInv, WorkerIdle, Resting, Quiet, taskVars
<1>5. QED
  BY <1>1, <1>3, <1>4, PollStep

\* A snapshot taken with nothing to wait for; an end that it shows is the task's.
LEMMA PollsStep ==
  ASSUME IInv, Polls
  PROVE  IInv'
<1> DEFINE ended == worker.phase \in {"Scanning", "Inspecting", "Operating"}
                      /\ shared.state \in {"Complete", "Stopped"}
           phase == IF ended THEN "Idle" ELSE worker.phase
           w == [worker EXCEPT !.phase = phase]
<1>1. /\ worker.pc = "poll" /\ worker.apply = "none" /\ worker.connect = NoDevice
      /\ UNCHANGED <<view, queue, taskVars, external, released, quit>>
  BY DEF Polls
<1>2. worker \in Workers /\ shared \in Shared
  BY DEF IInv, TypeOK, TaskTypes
<1>3. worker' = Looked(w, shared)
  BY <1>2 DEF Polls, Workers
<1>4. phase \in Phases /\ (phase = "Idle" => Resting)
  BY <1>1, <1>2 DEF IInv, WorkerIdle, EndIsLast, Resting, Workers, Phases
<1> HIDE DEF phase
<1>5. /\ w \in Workers /\ w.phase = phase /\ w.apply = "none" /\ w.connect = NoDevice
      /\ w.device = worker.device /\ w.cur = worker.cur
  BY <1>1, <1>2, <1>4 DEF Workers
<1> HIDE DEF w
<1>6. /\ worker' \in Workers /\ worker'.pc = "absorb" /\ worker'.cur = worker.cur
      /\ worker'.device = worker.device /\ worker'.apply = "none"
      /\ worker'.connect = NoDevice /\ worker'.phase \in {phase, "Failed"}
  BY <1>2, <1>3, <1>5, LookedSays
<1>7. worker'.phase = "Idle" => Resting'
  BY <1>1, <1>4, <1>6 DEF Resting, Quiet, taskVars
<1>8. QED
  BY <1>1, <1>6, <1>7, PollStep

\* A poll that may go on to the next task of what the worker waits for.
LEMMA GoesOnStep ==
  ASSUME IInv, UNCHANGED <<view, queue, calsw, owes, external, released, quit>>,
         worker.pc = "poll", worker.apply # "none" \/ worker.connect # NoDevice,
         NEW w \in Workers, w.cur = worker.cur, w.device = worker.device,
         worker' = Looked(w, shared'), TaskTypes', EndIsLast',
         w.apply # "none" => worker.apply # "none" /\ w.connect = NoDevice,
         w.phase = "Idle" => Quiet' /\ w.apply = "none" /\ w.connect = NoDevice
  PROVE  IInv'
<1>1. shared' \in Shared /\ w.connect \in Devs
  BY DEF TaskTypes, Workers
<1>2. /\ worker' \in Workers /\ worker'.pc = "absorb" /\ worker'.cur = worker.cur
      /\ worker'.phase \in {w.phase, "Failed"} /\ worker'.apply = w.apply
      /\ worker'.device = worker.device /\ worker'.connect \in {w.connect, NoDevice}
  BY <1>1, LookedSays
<1>3. view.phase # "Idle"
  BY DEF IInv, ViewIdle, Resting
<1>4. InOrder'
  BY <1>2, OrderKept DEF IInv
<1>5. TypeOK'
  BY <1>2 DEF IInv, TypeOK
<1>6. Forgotten' /\ WorkerIdle' /\ ViewIdle'
  BY <1>2, <1>3 DEF IInv, Forgotten, WorkerIdle, ViewIdle, Resting
<1>7. QED
  BY <1>4, <1>5, <1>6 DEF IInv

\* What waits is not idle.
LEMMA WaitingIsShown ==
  ASSUME IInv, worker.pc = "poll", worker.apply # "none" \/ worker.connect # NoDevice
  PROVE  worker.phase # "Idle"
BY DEF IInv, WorkerIdle, Resting

LEMMA AppliesOnStep ==
  ASSUME IInv, AppliesOn
  PROVE  IInv'
<1>1. /\ worker.pc = "poll" /\ worker.apply # "none"
      /\ UNCHANGED <<view, queue, calsw, owes, external, released, quit>>
  BY DEF AppliesOn
<1>2. /\ worker \in Workers /\ shared \in Shared /\ TaskTypes /\ EndIsLast
      /\ worker.device \in Devices /\ worker.device \in Devs /\ worker.connect = NoDevice
      /\ worker.phase # "Idle" /\ Stopped(shared) \in Shared
  BY <1>1, WaitingIsShown, StoppedSays DEF IInv, TypeOK, TaskTypes, Forgotten, Devs
<1>3. CASE /\ shared.state = "Complete" /\ ~task.alive
           /\ \E next \in {"write", "after", "done"} :
                /\ shared' = IF next = "done" THEN Stopped(shared)
                             ELSE Started(Stopped(shared), IF next = "write" THEN "other" ELSE "inspect")
                /\ task' = IF next = "done" THEN NoTask
                           ELSE Launched(IF next = "write" THEN "other" ELSE "inspect", worker.device)
                /\ worker' = Looked([worker EXCEPT !.apply = IF next = "done" THEN "none" ELSE next,
                                                   !.phase = IF next = "done" THEN "Idle" ELSE @], shared')
  <2>1. PICK next \in {"write", "after", "done"} :
          /\ shared' = IF next = "done" THEN Stopped(shared)
                       ELSE Started(Stopped(shared), IF next = "write" THEN "other" ELSE "inspect")
          /\ task' = IF next = "done" THEN NoTask
                     ELSE Launched(IF next = "write" THEN "other" ELSE "inspect", worker.device)
          /\ worker' = Looked([worker EXCEPT !.apply = IF next = "done" THEN "none" ELSE next,
                                             !.phase = IF next = "done" THEN "Idle" ELSE @], shared')
    BY <1>3
  <2>2. CASE next = "done"
    <3> DEFINE w == [worker EXCEPT !.apply = "none", !.phase = "Idle"]
    <3>1. worker' = Looked(w, shared')
      BY <1>2, <2>1, <2>2 DEF Workers
    <3>2. /\ w \in Workers /\ w.cur = worker.cur /\ w.device = worker.device
          /\ w.apply = "none" /\ w.connect = worker.connect
      BY <1>2 DEF Workers, Phases
    <3>3. TaskTypes' /\ EndIsLast' /\ Quiet'
      BY <1>1, <1>2, <2>1, <2>2, StopStep
    <3> HIDE DEF w
    <3>4. QED
      BY <1>1, <1>2, <3>1, <3>2, <3>3, GoesOnStep
  <2>3. CASE next # "done"
    <3> DEFINE w == [worker EXCEPT !.apply = next]
               do == IF next = "write" THEN "other" ELSE "inspect"
    <3>1. worker' = Looked(w, shared')
      <4>1. [worker EXCEPT !.apply = next, !.phase = worker.phase] = w
        BY <1>2 DEF Workers
      <4>2. [worker EXCEPT !.apply = IF next = "done" THEN "none" ELSE next,
                           !.phase = IF next = "done" THEN "Idle" ELSE @]
              = [worker EXCEPT !.apply = next, !.phase = worker.phase]
        BY <1>2, <2>3 DEF Workers
      <4>3. QED
        BY <2>1, <4>1, <4>2
    <3>2. /\ w \in Workers /\ w.cur = worker.cur /\ w.device = worker.device
          /\ w.apply # "none" /\ w.connect = worker.connect /\ w.phase = worker.phase
      BY <1>2, <2>1, <2>3 DEF Workers
    <3>3. do \in Dos /\ do # "scan"
      BY DEF Dos, OnDevice
    <3>4. shared' = Started(Stopped(shared), do) /\ task' = Launched(do, worker.device)
      BY <2>1, <2>3
    <3> HIDE DEF w, do
    <3>5. TaskTypes' /\ EndIsLast'
      BY <1>1, <1>2, <3>3, <3>4, LaunchStep
    <3>6. QED
      BY <1>1, <1>2, <3>1, <3>2, <3>5, GoesOnStep
  <2>4. QED
    BY <2>2, <2>3
<1>4. CASE /\ worker' = Looked([worker EXCEPT !.apply = "none", !.phase = "Failed"], shared)
           /\ UNCHANGED <<shared, task>>
  <2> DEFINE w == [worker EXCEPT !.apply = "none", !.phase = "Failed"]
  <2>1. worker' = Looked(w, shared')
    BY <1>4
  <2>2. /\ w \in Workers /\ w.cur = worker.cur /\ w.device = worker.device
        /\ w.apply = "none" /\ w.phase = "Failed"
    BY <1>2 DEF Workers, Phases
  <2>3. TaskTypes' /\ EndIsLast'
    BY <1>1, <1>2, <1>4 DEF TaskTypes, EndIsLast, Quiet
  <2> HIDE DEF w
  <2>4. QED
    BY <1>1, <2>1, <2>2, <2>3, GoesOnStep
<1>5. CASE worker' = Looked(worker, shared) /\ UNCHANGED <<shared, task>>
  <2>1. TaskTypes' /\ EndIsLast' /\ worker' = Looked(worker, shared')
    BY <1>1, <1>2, <1>5 DEF TaskTypes, EndIsLast, Quiet
  <2>2. QED
    BY <1>1, <1>2, <2>1, GoesOnStep
<1>6. QED
  BY <1>3, <1>4, <1>5 DEF AppliesOn

LEMMA ConnectsStep ==
  ASSUME IInv, Connects
  PROVE  IInv'
<1> DEFINE w == [worker EXCEPT !.connect = NoDevice]
           f == [w EXCEPT !.phase = "Failed"]
<1>1. /\ worker.pc = "poll" /\ worker.apply = "none" /\ worker.connect # NoDevice
      /\ UNCHANGED <<view, queue, calsw, owes, external, released, quit>>
  BY DEF Connects
<1>2. /\ worker \in Workers /\ shared \in Shared /\ TaskTypes /\ EndIsLast
      /\ worker.connect \in Devices /\ worker.connect \in Devs
      /\ worker.phase # "Idle"
  BY <1>1, WaitingIsShown DEF IInv, TypeOK, TaskTypes, Workers, Devs
<1>3. /\ w \in Workers /\ w.cur = worker.cur /\ w.device = worker.device
      /\ w.apply = "none" /\ w.phase = worker.phase
  BY <1>1, <1>2 DEF Workers, Devs
<1>4. /\ f \in Workers /\ f.cur = worker.cur /\ f.device = worker.device
      /\ f.apply = "none" /\ f.phase = "Failed"
  BY <1>1, <1>2 DEF Workers, Devs, Phases
<1>5. CASE /\ shared' = Started(Configured(Stopped(shared), worker.connect, TRUE), "track")
           /\ task' = Launched("track", worker.connect)
           /\ worker' = Looked(w, shared')
  <2>1. Configured(Stopped(shared), worker.connect, TRUE) \in Shared
    BY <1>2, StoppedSays, ConfiguredSays
  <2>2. TaskTypes' /\ EndIsLast'
    BY <1>1, <1>2, <1>5, <2>1, LaunchStep DEF Dos
  <2> HIDE DEF w
  <2>3. QED
    BY <1>1, <1>2, <1>3, <1>5, <2>2, GoesOnStep
<1>6. CASE worker' = Looked(f, shared) /\ UNCHANGED <<shared, task>>
  <2>1. TaskTypes' /\ EndIsLast' /\ worker' = Looked(f, shared')
    BY <1>1, <1>2, <1>6 DEF TaskTypes, EndIsLast, Quiet
  <2> HIDE DEF f
  <2>2. QED
    BY <1>1, <1>4, <2>1, GoesOnStep
<1>7. CASE worker' = Looked(worker, shared) /\ UNCHANGED <<shared, task>>
  <2>1. TaskTypes' /\ EndIsLast' /\ worker' = Looked(worker, shared')
    BY <1>1, <1>2, <1>7 DEF TaskTypes, EndIsLast, Quiet
  <2>2. QED
    BY <1>1, <1>2, <2>1, GoesOnStep
<1>8. QED
  BY <1>5, <1>6, <1>7 DEF Connects

\* What is published is the panel's as long as no newer request is on its way.
LEMMA PublishesStep ==
  ASSUME IInv, Publishes
  PROVE  IInv'
<1> DEFINE seen == ObserveMagnetic(view, worker.snap, worker.device)
           held == IF worker.run = NoDevice THEN seen
                   ELSE PublishSession(seen, worker.run, worker.may, worker.busy, worker.cur)
<1>1. /\ worker.pc = "publish"
      /\ worker' = [worker EXCEPT !.pc = "loop", !.snap = NoSnapshot, !.may = FALSE, !.busy = FALSE]
      /\ view' = IF ~Current THEN view ELSE [held EXCEPT !.phase = worker.phase]
      /\ UNCHANGED <<queue, taskVars, external, released, quit>>
  BY DEF Publishes
<1>2. worker \in Workers /\ view \in Views /\ worker.cur \in Nat
  BY DEF IInv, TypeOK, Workers
<1>3. NoSnapshot \in [state : States, op : Operations, desc : BOOLEAN]
  BY ClosedIsASession DEF NoSnapshot, States
<1>4. /\ worker' \in Workers /\ worker'.pc = "loop" /\ worker'.cur = worker.cur
      /\ worker'.device = worker.device /\ worker'.apply = worker.apply
      /\ worker'.connect = worker.connect /\ worker'.phase = worker.phase
  BY <1>1, <1>2, <1>3 DEF Workers
<1>5. held \in Views /\ held.request = view.request
  <2>1. worker.device \in Devs /\ worker.run \in Devs /\ worker.may \in BOOLEAN /\ worker.busy \in BOOLEAN
    BY <1>2 DEF Workers
  <2>2. seen \in Views /\ seen.request = view.request
    BY <1>2, <2>1, ObserveMagneticSays
  <2> HIDE DEF seen
  <2>3. QED
    BY <1>2, <2>1, <2>2, PublishSessionSays
<1> HIDE DEF held
<1>6. /\ view' \in Views /\ view'.request = view.request
      /\ view'.phase = IF Current THEN worker.phase ELSE view.phase
  BY <1>1, <1>2, <1>5 DEF Views, Workers
<1>7. InOrder'
  BY <1>1, <1>4, <1>6, OrderKept DEF IInv
<1>8. TypeOK' /\ EndIsLast' /\ Forgotten' /\ WorkerIdle'
  BY <1>1, <1>4, <1>6
  DEF IInv, TypeOK, TaskTypes, EndIsLast, Forgotten, WorkerIdle, Resting, Quiet, taskVars
<1>9. ViewIdle'
  <2>1. CASE ~Current
    BY <1>1, <1>4, <1>6, <2>1 DEF IInv, ViewIdle, Resting, Quiet, taskVars
  <2>2. CASE Current
    <3>1. worker.phase = "Idle" => Resting'
      BY <1>1, <1>4 DEF IInv, WorkerIdle, Resting, Quiet, taskVars
    <3>2. ASSUME NEW i \in 1..Len(queue)
          PROVE  ~Ordinary(queue[i])
      <4>1. queue[i] \in Entries /\ queue[i].id \in Nat /\ view.request \in Nat
        BY <1>2, <3>2 DEF IInv, TypeOK, Entries, Views
      <4>2. QED
        BY <1>2, <2>2, <3>2, <4>1 DEF IInv, InOrder, Current
    <3>3. QED
      BY <1>1, <1>4, <1>6, <2>2, <3>1, <3>2 DEF ViewIdle
  <2>3. QED
    BY <2>1, <2>2
<1>10. QED
  BY <1>7, <1>8, <1>9 DEF IInv

-----------------------------------------------------------------------------
(***************************************************************************)
(* The service.                                                            *)
(***************************************************************************)

LEMMA InitInv == Init => IInv
<1> SUFFICES ASSUME Init PROVE IInv
  OBVIOUS
<1>1. /\ task = NoTask /\ calsw = [d \in Devices |-> FALSE] /\ owes = {}
      /\ shared = [state |-> "Idle", op |-> NoOperation, desc |-> FALSE, config |-> NoDevice,
                   tracking |-> FALSE, commands |-> FALSE, chan |-> "none", mag |-> Closed]
  BY DEF Init, TaskInit
<1>2. NoOperation \in Operations /\ Closed \in Sessions /\ NoTask \in Tasks /\ ~NoTask.alive
  BY ClosedIsASession, NoTaskIsATask
<1>3. TaskTypes
  BY <1>1, <1>2 DEF TaskTypes, Shared, States, Devs
<1>4. NoRequest \in Entries
  BY DEF NoRequest, Entries, OnDevice, InSession, Devs
<1>5. NoSnapshot \in [state : States, op : Operations, desc : BOOLEAN]
  BY <1>2 DEF NoSnapshot, States
<1>6. /\ worker \in Workers /\ worker.pc = "loop" /\ worker.cur = 0 /\ worker.apply = "none"
      /\ worker.connect = NoDevice
  BY <1>4, <1>5 DEF Init, Workers, Phases, Devs
<1>7. /\ view \in Views /\ view.request = 0 /\ queue \in Seq(Entries) /\ Len(queue) = 0
      /\ external \in Nat /\ released \in BOOLEAN /\ quit \in BOOLEAN
  <2>1. view \in Views /\ view.request = 0
    <3>1. NoSession \in [dev : Devs, may : BOOLEAN] /\ NoDevice \in Devs
      BY DEF NoSession, Devs
    <3>2. QED
      BY <3>1 DEF Init, Views, Phases
  <2>2. queue \in Seq(Entries) /\ Len(queue) = 0
    BY DEF Init
  <2>3. external \in Nat /\ released \in BOOLEAN /\ quit \in BOOLEAN
    BY DEF Init
  <2>4. QED
    BY <2>1, <2>2, <2>3
<1>8. MaxRequests \in Nat
  BY ServiceAssumption
<1>9. TypeOK
  BY <1>3, <1>6, <1>7 DEF TypeOK
<1>10. InOrder /\ EndIsLast /\ Forgotten /\ WorkerIdle /\ ViewIdle
  BY <1>1, <1>2, <1>6, <1>7, <1>8
  DEF InOrder, EndIsLast, Forgotten, WorkerIdle, ViewIdle, Resting, Quiet
<1>11. QED
  BY <1>9, <1>10 DEF IInv

\* The controller's task moves, or another program.
LEMMA TaskMoves ==
  ASSUME IInv, TaskWork \/ TaskFails, Elsewhere
  PROVE  IInv'
<1>1. Kept
  BY TaskStep DEF IInv, TypeOK
<1>2. InOrder'
  BY OrderKept DEF IInv, Elsewhere
<1>3. TypeOK' /\ EndIsLast'
  BY <1>1 DEF IInv, TypeOK, Kept, Elsewhere
<1>4. Forgotten' /\ WorkerIdle' /\ ViewIdle'
  BY <1>1 DEF IInv, Kept, Elsewhere, Forgotten, WorkerIdle, ViewIdle, Resting
<1>5. QED
  BY <1>2, <1>3, <1>4 DEF IInv

LEMMA OtherProgramStep ==
  ASSUME IInv, OtherProgram
  PROVE  IInv'
<1>1. /\ external' = external + 1 /\ calsw' \in [Devices -> BOOLEAN]
      /\ UNCHANGED <<view, queue, worker, task, shared, owes, released, quit>>
  BY DEF OtherProgram, IInv, TypeOK, TaskTypes
<1>2. InOrder'
  BY <1>1, OrderKept DEF IInv
<1>3. TypeOK'
  BY <1>1 DEF IInv, TypeOK, TaskTypes
<1>4. EndIsLast' /\ Forgotten' /\ WorkerIdle' /\ ViewIdle'
  BY <1>1 DEF IInv, EndIsLast, Forgotten, WorkerIdle, ViewIdle, Resting, Quiet
<1>5. QED
  BY <1>2, <1>3, <1>4 DEF IInv

LEMMA NextInv == IInv /\ [Next]_vars => IInv'
<1> SUFFICES ASSUME IInv, [Next]_vars PROVE IInv'
  OBVIOUS
<1>1. CASE \E c \in Requests : Send(c)
  BY <1>1, SendStep
<1>2. CASE Quit
  BY <1>2, QuitStep
<1>3. CASE Work
  BY <1>3, RecentersStep, CommandsStep, TakesStep, JoinsStep, BeginsStep, LeavesStep, WaitsStep,
     AppliesOnStep, ConnectsStep, PollsStep, AbsorbsStep, PublishesStep
  DEF Work
<1>4. CASE Task \/ (TaskFails /\ Elsewhere)
  BY <1>4, TaskMoves DEF Task
<1>5. CASE OtherProgram
  BY <1>5, OtherProgramStep
<1>6. CASE UNCHANGED vars
  <2>1. UNCHANGED <<view, queue, worker, task, shared, calsw, owes, external, released, quit>>
    BY <1>6 DEF vars, taskVars
  <2>2. InOrder'
    BY <2>1, OrderKept DEF IInv
  <2>3. TypeOK'
    BY <2>1 DEF IInv, TypeOK, TaskTypes
  <2>4. EndIsLast' /\ Forgotten' /\ WorkerIdle' /\ ViewIdle'
    BY <2>1 DEF IInv, EndIsLast, Forgotten, WorkerIdle, ViewIdle, Resting, Quiet
  <2>5. QED
    BY <2>2, <2>3, <2>4 DEF IInv
<1>7. QED
  BY <1>1, <1>2, <1>3, <1>4, <1>5, <1>6 DEF Next

LEMMA InvHolds == Spec => []IInv
BY InitInv, NextInv, PTL DEF Spec

\* The controller, the panel's view, the requests on their way and the worker keep
\* their types, and a task other than a scan is on a device.
THEOREM ServiceTypeCorrect == Spec => []TypeOK
<1>1. IInv => TypeOK
  BY DEF IInv
<1>2. QED
  BY InvHolds, <1>1, PTL

\* While the panel shows "Not connected" no task is at work: the worker sees an
\* end only when it was published, and a request that was sent is shown as one
\* until it was answered (service.rs worker, send).
THEOREM NotConnectedIsQuiet == Spec => []IdleIsQuiet
<1>1. IInv => IdleIsQuiet
  BY DEF IInv, ViewIdle, Resting, Quiet, IdleIsQuiet
<1>2. QED
  BY InvHolds, <1>1, PTL

-----------------------------------------------------------------------------
(***************************************************************************)
(* What a start goes through, from the queue to the device.                *)
(***************************************************************************)

InLoop == worker.pc \in {"loop", "poll", "absorb", "publish"}
Held == worker.pc \in {"joining", "begin"}
D == worker.device

\* A start that the task has still to announce, and those that were.
AboutToWrite ==
  task.alive /\ task.kind = "write" /\ task.step = "work" /\ task.do = "mag_start"
AboutToStart ==
  \/ AboutToWrite
  \/ /\ task.alive /\ task.kind = "magnetic" /\ task.step \in {"work", "ready"}
     /\ shared.chan = "mag_start"
Starting == owes # {} \/ AboutToStart

\* The task and the operation that the controller reports.
OneOperation ==
  /\ task.alive /\ task.kind = "write" /\ task.step \in {"work", "announced"} =>
       shared.op.action = task.do
  /\ task.alive /\ task.kind = "inspect" /\ task.step = "work" => shared.op.action = "inspect"
  /\ task.alive /\ task.kind = "magnetic" /\ task.step \in {"work", "ready"}
       /\ shared.chan # "none" => shared.op.outcome = "Running" /\ shared.op.action = shared.chan
  /\ task.alive /\ task.kind = "magnetic" /\ task.step = "announced" =>
       /\ shared.chan = "none" /\ shared.op.outcome = "Running"
       /\ shared.op.action = task.do /\ task.do \in InSession
  /\ ~Quiet => shared.state # "Failed"

\* The worker knows the device of its task, and of its session.
OneDevice ==
  /\ worker.run \in {NoDevice, D} /\ worker.connect \in {NoDevice, D}
  /\ ~Quiet /\ task.kind # "scan" => task.dev = D
  /\ task.alive => (task.kind = "magnetic" <=> worker.run # NoDevice)
  /\ worker.pc = "begin" => worker.run = NoDevice
  /\ worker.apply # "none" \/ worker.connect # NoDevice => worker.run = NoDevice
  /\ InLoop /\ worker.run # NoDevice => worker.phase \in {"Magnetic", "Failed"}
  /\ InLoop /\ worker.phase \in Settled => worker.apply = "none" /\ worker.connect = NoDevice

\* What the panel shows for the requests that are on their way.
Shown(r) ==
  /\ view.device = r.dev
  /\ view.phase = "Stopping"
       \/ (view.request = r.id /\ (view.pending \/ view.phase = "Operating"))
Latest(r) ==
  r.id = view.request /\ Ordinary(r) =>
    /\ r.do \notin InSession => ~view.pending
    /\ r.do = "magnetic" => view.phase = "Magnetic"
    /\ r.do # "stop" => view.phase # "Stopping"
Alone(i) == \A j \in 1..Len(queue) : j < i => ~Ordinary(queue[j])
AllLatest == \A i \in 1..Len(queue) : Latest(queue[i])
AllShown ==
  \A i \in 1..Len(queue) : queue[i].do \in InSession =>
    /\ Shown(queue[i])
    /\ view.phase = "Operating" => InLoop /\ worker.phase \in Settled /\ Alone(i)
\* After a write only a stop is sent until the write was looked at.
OnlyStops ==
  \A i, j \in 1..Len(queue) :
    i < j /\ queue[i].do \in InSession /\ Ordinary(queue[j]) => queue[j].do = "stop"
HeldIsLatest == Held => worker.req.id = worker.cur /\ Latest(worker.req)
SettledIsRest ==
  view.phase \in Settled =>
    /\ ~Held /\ (InLoop => worker.phase \in Settled)
    /\ \A i \in 1..Len(queue) : ~Ordinary(queue[i])
NoSessionLeft ==
  InLoop /\ Current /\ view.phase \in {"Operating", "Stopping"} => worker.run = NoDevice
WindowOpen == (quit => ~view.pending) /\ (worker.pc \in {"leaving", "gone"} => quit)
Asked == /\ AllLatest /\ AllShown /\ OnlyStops /\ HeldIsLatest
         /\ SettledIsRest /\ NoSessionLeft /\ WindowOpen

\* While a start is under way, no other is let in: all that comes is for its device,
\* which is latched.
NoOther(r) ==
  Starting /\ Ordinary(r) /\ r.do # "stop" =>
    view.magnetic = D /\ (r.do \in OnDevice => r.dev = D)
Latched == view.magnetic = D
Excluded ==
  /\ \A i \in 1..Len(queue) : NoOther(queue[i])
  /\ Held => NoOther(worker.req)
  /\ Held /\ worker.req.do \in InSession =>
       /\ Shown(worker.req)
       /\ \A i \in 1..Len(queue) : Ordinary(queue[i]) => queue[i].do = "stop"
  /\ Starting /\ (worker.apply # "none" \/ worker.connect # NoDevice) => Latched

\* A start under way is guarded, and how it will be latched.
Backed ==
  owes # {} =>
    \/ shared.op.action = "mag_start" /\ shared.op.attempted /\ worker.run = NoDevice
    \/ worker.run = D /\ shared.mag.owned
Guarded ==
  /\ owes \subseteq {D}
  /\ Starting /\ ~Latched =>
       view.device = D /\ ((view.pending /\ Current) \/ view.phase \in {"Operating", "Stopping"})
  /\ ~Latched => Backed

\* What is about to be published shows it.
Seen(op) == op.action = "mag_start" /\ op.attempted
Ended(op) == op.action = "mag_stop" /\ op.verified /\ op.outcome = "Succeeded"
EndSeen == Ended(shared.op) => ~Starting
Reported ==
  /\ EndSeen
  /\ worker.pc \in {"absorb", "publish"} /\ Ended(worker.snap.op) => ~Starting
  /\ InLoop /\ AboutToWrite /\ ~Latched => worker.phase = "Operating"
  /\ worker.pc \in {"absorb", "publish"} /\ Starting /\ ~Latched /\ worker.run = NoDevice =>
       Seen(worker.snap.op) \/ worker.phase = "Operating"
  /\ worker.pc = "publish" /\ Starting /\ ~Latched /\ worker.run # NoDevice =>
       worker.may \/ worker.busy

Secured == Excluded /\ Guarded /\ Reported

GInv ==
  /\ OneOperation /\ OneDevice /\ Asked
  /\ ~released => Secured

-----------------------------------------------------------------------------
(***************************************************************************)
(* What each step of the panel and of the worker does to what the          *)
(* invariant speaks of.                                                    *)
(***************************************************************************)

SameLocals ==
  /\ worker'.cur = worker.cur /\ worker'.device = worker.device /\ worker'.run = worker.run
  /\ worker'.apply = worker.apply /\ worker'.connect = worker.connect
  /\ worker'.phase = worker.phase
SameView ==
  /\ view'.request = view.request /\ view'.phase = view.phase /\ view'.device = view.device
SameStart == UNCHANGED <<taskVars, released, quit>>

LEMMA Typed ==
  ASSUME TypeOK
  PROVE  /\ worker \in Workers /\ view \in Views /\ queue \in Seq(Entries) /\ shared \in Shared
         /\ task \in Tasks /\ owes \subseteq Devices /\ worker.cur \in Nat /\ view.request \in Nat
         /\ view.pending \in BOOLEAN /\ NoDevice \notin Devices /\ NoDevice \in Devs
         /\ worker.run \in Devs /\ worker.connect \in Devs /\ worker.req \in Entries
         /\ shared.op \in Operations /\ shared.mag \in Sessions
         /\ released \in BOOLEAN /\ quit \in BOOLEAN
BY ServiceAssumption DEF TypeOK, TaskTypes, Workers, Views, Shared, Devs

\* The request at the head, and the others after it.
LEMMA Taken ==
  ASSUME TypeOK, queue # <<>>, queue' = Tail(queue)
  PROVE  /\ Head(queue) \in Entries /\ Head(queue) = queue[1] /\ 1 \in 1..Len(queue)
         /\ Len(queue) \in Nat
         /\ \A i \in 1..Len(queue') : i + 1 \in 1..Len(queue) /\ 1 < i + 1
                                          /\ queue'[i] = queue[i + 1]
BY TailSays DEF TypeOK

LEMMA RecentersSays ==
  ASSUME IInv, Recenters
  PROVE  /\ worker.pc = "loop" /\ queue # <<>> /\ queue' = Tail(queue)
         /\ worker'.pc = "poll" /\ SameLocals /\ SameStart /\ view' = view
BY Typed DEF IInv, Recenters, Taking, Workers, SameLocals, SameStart

LEMMA CommandsSays ==
  ASSUME IInv, Commands
  PROVE  LET r == Head(queue) IN
         /\ worker.pc = "loop" /\ queue # <<>> /\ queue' = Tail(queue)
         /\ r.do \in InSession /\ r.dev \in Devices /\ r.id \in Nat
         /\ worker.phase = "Magnetic" /\ worker.run = r.dev
         /\ worker'.pc = "poll" /\ worker'.cur = r.id /\ worker'.run = worker.run
         /\ worker'.apply = worker.apply /\ worker'.connect = worker.connect
         /\ worker'.device = worker.device /\ worker'.phase = worker.phase
         /\ SameView /\ view'.magnetic = view.magnetic
         /\ view'.pending = (view.pending /\ (view.request = r.id => Ready))
         /\ UNCHANGED <<calsw, owes, released, quit>>
         /\ shared'.mag = shared.mag /\ shared'.state = shared.state
         /\ Ready => /\ task' = task /\ task.alive /\ shared'.chan = r.do
                     /\ shared'.op.action = r.do /\ shared'.op.outcome = "Running"
         /\ ~Ready => /\ task' = task \/ (~task.alive /\ task' = NoTask)
                      /\ shared'.op = shared.op /\ shared'.chan = shared.chan
<1> DEFINE r == Head(queue)
<1>1. /\ worker.pc = "loop" /\ queue # <<>> /\ queue' = Tail(queue)
      /\ worker.phase = "Magnetic" /\ r.do \in InSession /\ worker.run = r.dev
      /\ worker' = [worker EXCEPT !.pc = "poll", !.cur = r.id]
      /\ SendsInto(r.do) /\ view' = (IF Ready THEN view ELSE Refused(view, r.id))
      /\ UNCHANGED <<calsw, owes, external, released, quit>>
  BY DEF Commands, Taking, IntoRun
<1>2. /\ r \in Entries /\ view \in Views /\ worker \in Workers /\ shared \in Shared /\ task \in Tasks
  BY <1>1, Typed, Taken DEF IInv
<1>3. r.dev \in Devices /\ r.id \in Nat
  BY <1>1, <1>2 DEF Entries, OnDevice
<1>4. Ready \in BOOLEAN /\ (Ready => task.alive)
  BY <1>2 DEF Ready, Busy, Shared, Sessions, Tasks
<1>5. /\ SameView /\ view'.magnetic = view.magnetic
      /\ view'.pending = (view.pending /\ (view.request = r.id => Ready))
  BY <1>1, <1>2, <1>4 DEF Refused, Views, SameView
<1>6. /\ shared'.mag = shared.mag /\ shared'.state = shared.state
      /\ Ready => /\ task' = task /\ shared'.chan = r.do
                  /\ shared'.op.action = r.do /\ shared'.op.outcome = "Running"
      /\ ~Ready => /\ task' = task \/ (~task.alive /\ task' = NoTask)
                   /\ shared'.op = shared.op /\ shared'.chan = shared.chan
  <2> DEFINE run == [NoOperation EXCEPT !.action = r.do, !.outcome = "Running"]
  <2>1. run.action = r.do /\ run.outcome = "Running"
    BY DEF NoOperation
  <2>2. CASE Ready
    <3>1. shared' = [shared EXCEPT !.chan = r.do, !.op = run] /\ task' = task
      BY <1>1, <1>4, <2>2 DEF SendsInto
    <3> HIDE DEF run
    <3>2. QED
      BY <1>2, <2>1, <2>2, <3>1 DEF Shared
  <2>3. CASE ~Ready
    BY <1>1, <1>2, <2>3 DEF SendsInto, Shared
  <2>4. QED
    BY <2>2, <2>3
<1>7. QED
  BY <1>1, <1>2, <1>3, <1>4, <1>5, <1>6 DEF Workers

LEMMA TakesSays ==
  ASSUME IInv, Takes
  PROVE  LET r == Head(queue) IN
         /\ worker.pc = "loop" /\ queue # <<>> /\ queue' = Tail(queue) /\ r.do # "recenter"
         /\ worker'.cur = r.id /\ worker'.req = r /\ worker'.apply = "none"
         /\ worker'.device = worker.device /\ worker'.run = worker.run
         /\ worker'.phase = worker.phase
         /\ worker'.connect \in {NoDevice, worker.connect}
         /\ r.do = "shutdown" => worker'.pc = "leaving"
         /\ r.do # "shutdown" => worker'.pc \in {"joining", "begin"}
         /\ worker'.pc = "begin" => worker.run = NoDevice
         /\ task'.alive = task.alive /\ task'.kind = task.kind /\ task'.step = task.step
         /\ task'.do = task.do /\ task'.dev = task.dev
         /\ UNCHANGED <<view, shared, calsw, owes, released, quit>>
<1> DEFINE r == Head(queue)
           connect == IF r.do = "shutdown" THEN worker.connect ELSE NoDevice
           next == IF r.do = "shutdown" THEN "leaving" ELSE IF Stops(r) THEN "joining" ELSE "begin"
           cancel == task.cancel \/ r.do = "shutdown" \/ Stops(r)
<1>1. worker \in Workers /\ task \in Tasks
  BY Typed DEF IInv
<1>2. /\ worker.pc = "loop" /\ queue # <<>> /\ queue' = Tail(queue) /\ r.do # "recenter"
      /\ worker' = [worker EXCEPT !.cur = r.id, !.req = r, !.apply = "none",
                                  !.connect = connect, !.pc = next]
      /\ task' = [task EXCEPT !.cancel = cancel]
      /\ UNCHANGED <<view, shared, calsw, owes, released, quit>>
  BY <1>1 DEF Takes, Taking, Workers, Tasks
<1>3. /\ connect \in {NoDevice, worker.connect}
      /\ r.do = "shutdown" => next = "leaving"
      /\ r.do # "shutdown" => next \in {"joining", "begin"}
      /\ next = "begin" => worker.run = NoDevice
  BY DEF Stops
<1> HIDE DEF connect, next, cancel
<1>4. QED
  BY <1>1, <1>2, <1>3 DEF Workers, Tasks

LEMMA StoppedOnly ==
  ASSUME NEW s \in Shared
  PROVE  /\ Stopped(s) \in Shared /\ Stopped(s).op = s.op /\ Stopped(s).mag = s.mag
         /\ Stopped(s).chan = s.chan
BY StoppedSays DEF Stopped, Shared

LEMMA ConfiguredOnly ==
  ASSUME NEW s \in Shared, NEW d \in Devs, NEW t \in BOOLEAN
  PROVE  Configured(s, d, t) \in Shared /\ Configured(s, d, t).op = s.op
<1>1. Configured(s, d, t).op = s.op
  BY DEF Configured, Shared
<1>2. QED
  BY <1>1, ConfiguredSays

LEMMA JoinsSays ==
  ASSUME IInv, Joins
  PROVE  /\ worker.pc = "joining" /\ ~task.alive /\ task' = NoTask
         /\ worker'.cur = worker.cur /\ worker'.device = worker.device
         /\ worker'.run = NoDevice /\ worker'.apply = worker.apply
         /\ worker'.connect = worker.connect
         /\ \/ worker'.pc = "poll" /\ worker'.phase = "Failed" /\ worker.req.do = "stop"
            \/ worker'.pc = "begin" /\ worker'.req = worker.req /\ view'.pending = Retired.pending
         /\ SameView
         /\ view'.magnetic = IF worker.run # NoDevice /\ May THEN worker.run ELSE view.magnetic
         /\ Retired.pending = (view.pending /\ (worker.run # NoDevice /\ view.request = worker.cur => Busy))
         /\ view'.pending = Retired.pending \/ (view.request = worker.cur /\ view'.pending = FALSE)
         /\ released' = (released \/ (view.pending /\ ~Retired.pending))
         /\ shared'.op = shared.op /\ shared'.mag = shared.mag /\ shared'.chan = shared.chan
         /\ UNCHANGED <<queue, owes, quit>>
<1> DEFINE r == worker.req
           fails == r.do = "stop" /\ StopFails /\ worker.phase # "Failed"
<1>1. /\ worker.pc = "joining" /\ ~task.alive
      /\ worker' = IF fails THEN [worker EXCEPT !.run = NoDevice, !.phase = "Failed",
                                            !.pc = "poll", !.req = NoRequest]
                   ELSE [worker EXCEPT !.run = NoDevice, !.pc = "begin"]
      /\ view' = IF fails THEN Refused(Retired, worker.cur)
                 ELSE IF r.do # "stop" THEN [Retired EXCEPT !.session = NoSession] ELSE Retired
      /\ released' = (released \/ (view.pending /\ ~Retired.pending))
      /\ shared' = Stopped(shared) /\ task' = NoTask
      /\ UNCHANGED <<queue, calsw, owes, external, quit>>
  BY DEF Joins
<1>2. fails => r.do = "stop"
  OBVIOUS
<1> HIDE DEF fails
<1>3. /\ worker \in Workers /\ view \in Views /\ Retired \in Views /\ shared \in Shared
      /\ Retired.request = view.request /\ Retired.phase = view.phase /\ view.pending \in BOOLEAN
      /\ May \in BOOLEAN /\ Busy \in BOOLEAN
  BY Typed, RetiredSays, MayBusy DEF IInv
<1>4. /\ Retired.device = view.device
      /\ Retired.magnetic = IF worker.run # NoDevice /\ May THEN worker.run ELSE view.magnetic
      /\ Retired.pending = (view.pending /\ (worker.run # NoDevice /\ view.request = worker.cur => Busy))
  <2>1. CASE worker.run = NoDevice
    BY <1>3, <2>1 DEF Retired
  <2>2. CASE worker.run # NoDevice
    <3> DEFINE mag == IF May THEN worker.run ELSE view.magnetic
               pending == view.pending /\ (view.request = worker.cur => Busy)
               session == [dev |-> worker.run, may |-> May]
    <3>1. Retired = [view EXCEPT !.magnetic = mag, !.pending = pending, !.session = session]
      BY <1>3, <2>2 DEF Retired, PublishSession, Views
    <3>2. /\ mag = IF worker.run # NoDevice /\ May THEN worker.run ELSE view.magnetic
          /\ pending = (view.pending /\ (worker.run # NoDevice /\ view.request = worker.cur => Busy))
      BY <2>2
    <3> HIDE DEF mag, pending, session
    <3>3. Retired.device = view.device /\ Retired.magnetic = mag /\ Retired.pending = pending
      BY <1>3, <3>1 DEF Views
    <3>4. QED
      BY <3>2, <3>3
  <2>3. QED
    BY <2>1, <2>2
<1>5. /\ SameView /\ view'.magnetic = Retired.magnetic
      /\ view'.pending = Retired.pending
           \/ (fails /\ view.request = worker.cur /\ view'.pending = FALSE)
  <2> HIDE DEF Retired
  <2>1. CASE fails
    BY <1>1, <1>3, <1>4, <2>1 DEF Refused, Views, SameView
  <2>2. CASE ~fails
    BY <1>1, <1>3, <1>4, <2>2 DEF Views, SameView
  <2>3. QED
    BY <2>1, <2>2
<1>6. /\ worker'.cur = worker.cur /\ worker'.device = worker.device
      /\ worker'.run = NoDevice /\ worker'.apply = worker.apply
      /\ worker'.connect = worker.connect
      /\ fails => worker'.pc = "poll" /\ worker'.phase = "Failed"
      /\ ~fails => worker'.pc = "begin" /\ worker'.req = worker.req
  <2>1. CASE fails
    BY <1>1, <1>3, <2>1 DEF Workers
  <2>2. CASE ~fails
    BY <1>1, <1>3, <2>2 DEF Workers
  <2>3. QED
    BY <2>1, <2>2
<1>7. shared'.op = shared.op /\ shared'.mag = shared.mag /\ shared'.chan = shared.chan
  BY <1>1, <1>3, StoppedOnly
<1>8. QED
  BY <1>1, <1>2, <1>4, <1>5, <1>6, <1>7

\* The three ways in which a command begins.
BeginsStop ==
  /\ worker.req.do = "stop" /\ ~task.alive
  /\ worker'.phase = "Idle" /\ worker'.device = worker.device /\ worker'.run = worker.run
  /\ worker'.apply = worker.apply /\ worker'.connect = worker.connect
  /\ view' = view /\ task' = task
  /\ shared'.op = shared.op /\ shared'.mag = shared.mag
BeginsNothing ==
  /\ worker.req.do # "stop"
  /\ worker'.phase = "Failed" /\ worker'.device = worker.device /\ worker'.run = worker.run
  /\ worker'.apply = worker.apply /\ worker'.connect = worker.connect
  /\ SameView /\ view'.magnetic = view.magnetic
  /\ view'.pending = (view.pending /\ view.request # worker.cur)
  /\ \/ task.alive /\ task' = task /\ shared' = shared
     \/ ~task.alive /\ task' = NoTask /\ shared'.op = shared.op
BeginsTask ==
  LET r == worker.req IN
  /\ r.do \in OnDevice \cup {"scan"} /\ ~task.alive
  /\ r.do \in OnDevice => r.dev \in Devices
  /\ worker'.phase = WorkerPhase(r.do)
  /\ worker'.device = IF r.do = "scan" THEN worker.device ELSE r.dev
  /\ worker'.connect = IF r.do = "connect" THEN r.dev ELSE NoDevice
  /\ worker'.apply = IF r.do = "apply" THEN "before" ELSE "none"
  /\ worker'.run = IF r.do = "magnetic" THEN r.dev ELSE NoDevice
  /\ SameView /\ view'.magnetic = view.magnetic /\ view'.pending = view.pending
  /\ \E s \in Shared : s.op = shared.op /\ shared' = Started(s, r.do)
  /\ task' = Launched(r.do, r.dev)

LEMMA BeginsSays ==
  ASSUME IInv, Begins
  PROVE  /\ worker.pc = "begin" /\ worker'.pc = "poll" /\ worker'.cur = worker.cur
         /\ worker.apply = "none" /\ worker.connect = NoDevice /\ Ordinary(worker.req)
         /\ UNCHANGED <<queue, calsw, owes, released, quit>>
         /\ BeginsStop \/ BeginsNothing \/ BeginsTask
<1> DEFINE r == worker.req
<1>1. /\ worker.pc = "begin" /\ UNCHANGED <<queue, calsw, owes, released, quit>>
  BY DEF Begins
<1>2. /\ worker \in Workers /\ view \in Views /\ shared \in Shared /\ task \in Tasks
      /\ worker.cur \in Nat /\ r \in Entries /\ view.pending \in BOOLEAN
  BY Typed DEF IInv
<1>3. worker.apply = "none" /\ worker.connect = NoDevice /\ Ordinary(r)
  BY <1>1 DEF IInv, Forgotten
<1>4. /\ r.do \in OnDevice \cup {"scan", "stop"} /\ r.dev \in Devs
      /\ r.do \in OnDevice => r.dev \in Devices
  BY <1>2, <1>3 DEF Entries, Ordinary
<1>5. CASE /\ r.do = "stop"
           /\ worker' = [worker EXCEPT !.phase = "Idle", !.pc = "poll", !.req = NoRequest]
           /\ shared' = [shared EXCEPT !.state = "Stopped"]
           /\ UNCHANGED <<view, task>>
  <2>1. ~task.alive
    BY <1>1, <1>5 DEF IInv, Forgotten
  <2>2. BeginsStop /\ worker'.pc = "poll" /\ worker'.cur = worker.cur
    BY <1>2, <1>5, <2>1 DEF BeginsStop, Workers, Shared
  <2>3. QED
    BY <1>1, <1>3, <2>2
<1>6. CASE /\ r.do # "stop" /\ (task.alive \/ r.do = "other")
           /\ worker' = [worker EXCEPT !.phase = "Failed", !.pc = "poll", !.req = NoRequest]
           /\ view' = [Refused(view, worker.cur) EXCEPT !.session = NoSession]
           /\ shared' = IF task.alive THEN shared ELSE Configured(Stopped(shared), r.dev, FALSE)
           /\ task' = IF task.alive THEN task ELSE NoTask
  <2>1. /\ SameView /\ view'.magnetic = view.magnetic
        /\ view'.pending = (view.pending /\ view.request # worker.cur)
    BY <1>2, <1>6 DEF Refused, Views, SameView
  <2>2. /\ worker'.pc = "poll" /\ worker'.cur = worker.cur
        /\ worker'.phase = "Failed" /\ worker'.device = worker.device /\ worker'.run = worker.run
        /\ worker'.apply = worker.apply /\ worker'.connect = worker.connect
    BY <1>2, <1>6 DEF Workers
  <2>3. \/ task.alive /\ task' = task /\ shared' = shared
        \/ ~task.alive /\ task' = NoTask /\ shared'.op = shared.op
    BY <1>2, <1>4, <1>6, StoppedOnly, ConfiguredOnly DEF Tasks
  <2>4. BeginsNothing
    BY <1>6, <2>1, <2>2, <2>3 DEF BeginsNothing
  <2>5. QED
    BY <1>1, <1>3, <2>2, <2>4
<1>7. CASE /\ r.do # "stop" /\ ~task.alive
           /\ worker' = [worker EXCEPT !.phase = WorkerPhase(r.do), !.pc = "poll", !.req = NoRequest,
                !.device = IF r.do = "scan" THEN @ ELSE r.dev,
                !.connect = IF r.do = "connect" THEN r.dev ELSE NoDevice,
                !.apply = IF r.do = "apply" THEN "before" ELSE "none",
                !.run = IF r.do = "magnetic" THEN r.dev ELSE NoDevice]
           /\ view' = [view EXCEPT !.session = NoSession]
           /\ shared' = Started(IF r.do = "scan" THEN Stopped(shared)
                                ELSE Configured(Stopped(shared), r.dev, r.do = "connect"), r.do)
           /\ task' = Launched(r.do, r.dev)
  <2> DEFINE phase == WorkerPhase(r.do)
             device == IF r.do = "scan" THEN worker.device ELSE r.dev
             connect == IF r.do = "connect" THEN r.dev ELSE NoDevice
             apply == IF r.do = "apply" THEN "before" ELSE "none"
             mag == IF r.do = "magnetic" THEN r.dev ELSE NoDevice
             s == IF r.do = "scan" THEN Stopped(shared)
                  ELSE Configured(Stopped(shared), r.dev, r.do = "connect")
  <2>1. worker' = [worker EXCEPT !.phase = phase, !.pc = "poll", !.req = NoRequest,
                     !.device = device, !.connect = connect, !.apply = apply, !.run = mag]
    BY <1>2, <1>7 DEF Workers
  <2>2. s \in Shared /\ s.op = shared.op
    <3>1. (r.do = "connect") \in BOOLEAN
      OBVIOUS
    <3>2. QED
      BY <1>2, <1>4, <3>1, StoppedOnly, ConfiguredOnly
  <2>3. shared' = Started(s, r.do)
    BY <1>7
  <2> HIDE DEF s
  <2>4. SameView /\ view'.magnetic = view.magnetic /\ view'.pending = view.pending
    BY <1>2, <1>7 DEF Views, SameView
  <2>5. /\ worker'.pc = "poll" /\ worker'.cur = worker.cur
        /\ worker'.phase = phase /\ worker'.device = device /\ worker'.connect = connect
        /\ worker'.apply = apply /\ worker'.run = mag
    <3> HIDE DEF phase, device, connect, apply, mag
    <3>1. QED
      BY <1>2, <2>1 DEF Workers
  <2>6. BeginsTask
    BY <1>4, <1>7, <2>2, <2>3, <2>4, <2>5 DEF BeginsTask
  <2>7. QED
    BY <1>1, <1>3, <2>5, <2>6
<1>8. QED
  BY <1>5, <1>6, <1>7 DEF Begins

LEMMA LeavesSays ==
  ASSUME IInv, Leaves
  PROVE  /\ worker.pc = "leaving" /\ worker'.pc = "gone" /\ SameLocals /\ ~task.alive
         /\ task' = NoTask /\ shared'.op = shared.op /\ shared'.mag = shared.mag
         /\ UNCHANGED <<view, queue, owes, released, quit>>
BY Typed, StoppedOnly DEF IInv, Leaves, Workers, SameLocals

\* A task that starts.
LEMMA StartSays ==
  ASSUME NEW s \in Shared, NEW do \in OnDevice \cup {"scan", "track"}, NEW d \in Devs,
         shared' = Started(s, do), task' = Launched(do, d)
  PROVE  /\ task'.alive /\ task'.step = "work" /\ task'.kind = KindOf(do) /\ task'.dev = d
         /\ task'.do = do /\ shared'.state # "Failed"
         /\ KindOf(do) = "write" => shared'.op.action = do
         /\ KindOf(do) = "inspect" => shared'.op.action = "inspect"
         /\ KindOf(do) = "magnetic" => shared'.chan = "none"
         /\ KindOf(do) = "magnetic" <=> do = "magnetic"
         /\ KindOf(do) = "scan" <=> do = "scan"
         /\ shared'.op = s.op \/ shared'.op.outcome # "Succeeded"
<1>1. /\ task'.alive /\ task'.step = "work" /\ task'.kind = KindOf(do) /\ task'.dev = d
      /\ task'.do = do
  BY DEF Launched
<1>2. /\ KindOf(do) = "magnetic" <=> do = "magnetic"
      /\ KindOf(do) = "scan" <=> do = "scan"
      /\ KindOf(do) = "inspect" <=> do \in {"inspect", "connect", "apply"}
      /\ KindOf(do) = "track" <=> do = "track"
  BY DEF KindOf
<1> DEFINE run(a) == [NoOperation EXCEPT !.action = a, !.outcome = "Running"]
<1>3. \A a \in Dos : run(a).action = a /\ run(a).outcome = "Running"
  BY DEF NoOperation
<1>4. CASE do \in {"inspect", "connect", "apply"}
  <2>1. shared' = [s EXCEPT !.state = "Inspecting", !.mag = Closed, !.desc = FALSE,
                            !.op = run("inspect")]
    BY <1>4 DEF Started
  <2>2. run("inspect").action = "inspect" /\ run("inspect").outcome = "Running"
    BY <1>3 DEF Dos, OnDevice
  <2> HIDE DEF run
  <2>3. shared'.state = "Inspecting" /\ shared'.op = run("inspect")
    BY <2>1 DEF Shared
  <2>4. QED
    BY <1>1, <1>2, <1>4, <2>2, <2>3
<1>5. CASE do = "magnetic"
  <2>1. shared' = [s EXCEPT !.state = "Connecting", !.mag = Closed, !.desc = FALSE,
                            !.op = NoOperation, !.commands = TRUE, !.chan = "none"]
    BY <1>5 DEF Started
  <2>2. /\ shared'.state = "Connecting" /\ shared'.op.outcome = "None" /\ shared'.chan = "none"
    BY <2>1 DEF Shared, NoOperation
  <2>3. QED
    BY <1>1, <1>2, <1>5, <2>2
<1>6. CASE do \in {"scan", "track"}
  <2>1. shared'.state \in {"Scanning", "Connecting"} /\ shared'.op = s.op
    BY <1>6 DEF Started, Shared
  <2>2. QED
    BY <1>1, <1>2, <1>6, <2>1
<1>7. CASE do \notin {"inspect", "connect", "apply", "magnetic", "scan", "track"}
  <2>1. shared' = [s EXCEPT !.state = "Configuring", !.mag = Closed, !.op = run(do)]
    BY <1>7 DEF Started
  <2>2. run(do).action = do /\ run(do).outcome = "Running"
    BY <1>3 DEF Dos
  <2> HIDE DEF run
  <2>3. shared'.state = "Configuring" /\ shared'.op = run(do)
    BY <2>1 DEF Shared
  <2>4. QED
    BY <1>1, <1>2, <1>7, <2>2, <2>3
<1>8. QED
  BY <1>4, <1>5, <1>6, <1>7

LEMMA LookedAlso ==
  ASSUME NEW w \in Workers, NEW s \in Shared
  PROVE  Looked(w, s).run = w.run /\ Looked(w, s).snap.op = s.op
<1> DEFINE snap == [state |-> s.state, op |-> s.op, desc |-> s.desc]
           phase == IF s.state = "Failed" THEN "Failed" ELSE w.phase
           connect == IF s.state = "Failed" THEN NoDevice ELSE w.connect
<1>1. Looked(w, s) = [w EXCEPT !.snap = snap, !.pc = "absorb", !.phase = phase,
                               !.connect = connect]
  BY DEF Looked, Workers
<1>2. snap.op = s.op
  OBVIOUS
<1> HIDE DEF snap, phase, connect
<1>3. Looked(w, s).run = w.run /\ Looked(w, s).snap = snap
  BY <1>1 DEF Workers
<1>4. QED
  BY <1>2, <1>3

LEMMA WaitsSays ==
  ASSUME IInv, Waits
  PROVE  /\ worker.pc = "loop" /\ worker'.pc = "poll" /\ SameLocals
         /\ UNCHANGED <<view, queue, taskVars, released, quit>>
BY Typed DEF IInv, Waits, Workers, SameLocals

LEMMA PollsSays ==
  ASSUME IInv, Polls
  PROVE  /\ worker.pc = "poll" /\ worker'.pc = "absorb"
         /\ worker.apply = "none" /\ worker.connect = NoDevice
         /\ worker'.apply = "none" /\ worker'.connect = NoDevice
         /\ worker'.cur = worker.cur /\ worker'.device = worker.device /\ worker'.run = worker.run
         /\ worker'.phase \in {worker.phase, "Idle", "Failed"}
         /\ worker'.phase = "Idle" => worker.phase = "Idle" \/
              (worker.phase \in {"Scanning", "Inspecting", "Operating"} /\ shared.state \in {"Complete", "Stopped"})
         /\ worker'.phase = "Failed" => worker.phase = "Failed" \/ shared.state = "Failed"
         /\ worker'.snap.op = shared.op
         /\ UNCHANGED <<view, queue, taskVars, released, quit>>
<1> DEFINE ended == worker.phase \in {"Scanning", "Inspecting", "Operating"}
                      /\ shared.state \in {"Complete", "Stopped"}
           phase == IF ended THEN "Idle" ELSE worker.phase
           w == [worker EXCEPT !.phase = phase]
<1>1. /\ worker.pc = "poll" /\ worker.apply = "none" /\ worker.connect = NoDevice
      /\ UNCHANGED <<view, queue, taskVars, released, quit>>
  BY DEF Polls
<1>2. worker \in Workers /\ shared \in Shared
  BY Typed DEF IInv
<1>3. worker' = Looked(w, shared)
  BY <1>2 DEF Polls, Workers
<1>4. /\ phase \in Phases /\ phase \in {worker.phase, "Idle"}
      /\ phase = "Idle" => worker.phase = "Idle" \/
              (worker.phase \in {"Scanning", "Inspecting", "Operating"} /\ shared.state \in {"Complete", "Stopped"})
  BY <1>2 DEF Workers, Phases
<1> HIDE DEF phase
<1>5. /\ w \in Workers /\ w.phase = phase /\ w.apply = "none" /\ w.connect = NoDevice
      /\ w.device = worker.device /\ w.cur = worker.cur /\ w.run = worker.run
  BY <1>1, <1>2, <1>4 DEF Workers
<1> HIDE DEF w
<1>6. /\ worker'.pc = "absorb" /\ worker'.cur = worker.cur
      /\ worker'.device = worker.device /\ worker'.apply = "none" /\ worker'.run = worker.run
      /\ worker'.connect = NoDevice /\ worker'.snap.op = shared.op
      /\ worker'.phase = IF shared.state = "Failed" THEN "Failed" ELSE phase
  BY <1>2, <1>3, <1>5, LookedSays, LookedAlso
<1>7. QED
  BY <1>1, <1>4, <1>6

\* What waits is looked at, is over, or goes on with a task.
StaysWaiting ==
  /\ UNCHANGED <<shared, task>>
  /\ worker'.phase \in {worker.phase, "Failed"}
  /\ worker'.apply \in {worker.apply, "none"} /\ worker'.connect \in {worker.connect, NoDevice}
  /\ worker'.phase = worker.phase \/ (worker'.apply = "none" /\ worker'.connect = NoDevice)
WaitingIsOver ==
  /\ ~task.alive /\ task' = NoTask /\ shared'.op = shared.op
  /\ worker'.apply = "none" /\ worker'.connect = NoDevice
WaitingGoesOn ==
  /\ ~task.alive /\ worker'.phase = worker.phase
  /\ worker'.apply = "none" \/ worker.apply # "none"
  /\ worker'.connect = NoDevice
  /\ \E s \in Shared, do \in {"other", "inspect", "track"}, d \in {worker.device, worker.connect} :
       /\ do = "track" => d = worker.connect
       /\ do # "track" => d = worker.device
       /\ d \in Devices /\ s.op = shared.op /\ shared' = Started(s, do) /\ task' = Launched(do, d)

LEMMA GoesOnSays ==
  ASSUME IInv, AppliesOn \/ Connects
  PROVE  /\ worker.pc = "poll" /\ worker'.pc = "absorb"
         /\ worker.apply # "none" \/ worker.connect # NoDevice
         /\ worker'.cur = worker.cur /\ worker'.device = worker.device /\ worker'.run = worker.run
         /\ worker'.snap.op = shared'.op
         /\ UNCHANGED <<view, queue, calsw, owes, released, quit>>
         /\ StaysWaiting \/ WaitingIsOver \/ WaitingGoesOn
<1>1. /\ worker \in Workers /\ shared \in Shared /\ Stopped(shared) \in Shared
      /\ Stopped(shared).op = shared.op /\ worker.connect \in Devs
  BY Typed, StoppedOnly DEF IInv
<1>2. /\ worker.pc = "poll" /\ (worker.apply # "none" \/ worker.connect # NoDevice)
      /\ UNCHANGED <<view, queue, calsw, owes, released, quit>>
      /\ worker.apply # "none" => worker.connect = NoDevice /\ worker.device \in Devices
  BY DEF AppliesOn, Connects, IInv, TypeOK, Forgotten
<1>3. ASSUME NEW w \in Workers, worker' = Looked(w, shared'), shared' \in Shared,
             w.cur = worker.cur, w.device = worker.device, w.run = worker.run
      PROVE  /\ worker'.pc = "absorb" /\ worker'.cur = worker.cur
             /\ worker'.device = worker.device /\ worker'.run = worker.run
             /\ worker'.snap.op = shared'.op /\ worker'.apply = w.apply
             /\ worker'.phase = IF shared'.state = "Failed" THEN "Failed" ELSE w.phase
             /\ worker'.connect = IF shared'.state = "Failed" THEN NoDevice ELSE w.connect
  BY <1>3, LookedSays, LookedAlso
<1>4. ASSUME NEW next \in {"write", "after"}, ~task.alive, worker.apply # "none",
             shared' = Started(Stopped(shared), IF next = "write" THEN "other" ELSE "inspect"),
             task' = Launched(IF next = "write" THEN "other" ELSE "inspect", worker.device),
             worker' = Looked([worker EXCEPT !.apply = next], shared')
      PROVE  /\ worker'.pc = "absorb" /\ worker'.cur = worker.cur
             /\ worker'.device = worker.device /\ worker'.run = worker.run
             /\ worker'.snap.op = shared'.op /\ WaitingGoesOn
  <2> DEFINE w == [worker EXCEPT !.apply = next]
             do == IF next = "write" THEN "other" ELSE "inspect"
  <2>1. /\ w \in Workers /\ w.cur = worker.cur /\ w.device = worker.device
        /\ w.run = worker.run /\ w.apply = next /\ w.phase = worker.phase /\ w.connect = worker.connect
    BY <1>1, <1>4 DEF Workers
  <2>2. worker' = Looked(w, shared')
    BY <1>4
  <2>3. do \in {"other", "inspect"}
    OBVIOUS
  <2>4. shared' = Started(Stopped(shared), do) /\ task' = Launched(do, worker.device)
    BY <1>4
  <2> HIDE DEF w, do
  <2>5. shared' \in Shared /\ shared'.state # "Failed"
    <3>1. do \in OnDevice \cup {"scan", "track"} /\ do \in Dos /\ worker.device \in Devs
      BY <2>3, <1>1 DEF OnDevice, Dos, Workers
    <3>2. QED
      BY <1>1, <2>4, <3>1, StartedSays, StartSays
  <2>6. /\ worker'.pc = "absorb" /\ worker'.cur = worker.cur
        /\ worker'.device = worker.device /\ worker'.run = worker.run
        /\ worker'.snap.op = shared'.op /\ worker'.phase = worker.phase
        /\ worker'.connect = worker.connect
    BY <1>3, <2>1, <2>2, <2>5
  <2>7. WaitingGoesOn
    BY <1>1, <1>2, <1>4, <2>3, <2>4, <2>6 DEF WaitingGoesOn
  <2>8. QED
    BY <2>6, <2>7
<1>5. CASE AppliesOn
  <2>1. worker.apply # "none" /\ worker.connect = NoDevice
    BY <1>2, <1>5 DEF AppliesOn
  <2>2. CASE /\ ~task.alive
             /\ \E next \in {"write", "after", "done"} :
                  /\ shared' = IF next = "done" THEN Stopped(shared)
                               ELSE Started(Stopped(shared), IF next = "write" THEN "other" ELSE "inspect")
                  /\ task' = IF next = "done" THEN NoTask
                             ELSE Launched(IF next = "write" THEN "other" ELSE "inspect", worker.device)
                  /\ worker' = Looked([worker EXCEPT !.apply = IF next = "done" THEN "none" ELSE next,
                                                     !.phase = IF next = "done" THEN "Idle" ELSE @], shared')
    <3>1. PICK next \in {"write", "after", "done"} :
            /\ shared' = IF next = "done" THEN Stopped(shared)
                         ELSE Started(Stopped(shared), IF next = "write" THEN "other" ELSE "inspect")
            /\ task' = IF next = "done" THEN NoTask
                       ELSE Launched(IF next = "write" THEN "other" ELSE "inspect", worker.device)
            /\ worker' = Looked([worker EXCEPT !.apply = IF next = "done" THEN "none" ELSE next,
                                               !.phase = IF next = "done" THEN "Idle" ELSE @], shared')
      BY <2>2
    <3>2. CASE next = "done"
      <4> DEFINE w == [worker EXCEPT !.apply = "none", !.phase = "Idle"]
      <4>1. worker' = Looked(w, shared')
        BY <1>1, <3>1, <3>2 DEF Workers
      <4>2. /\ w \in Workers /\ w.cur = worker.cur /\ w.device = worker.device
            /\ w.run = worker.run /\ w.apply = "none" /\ w.connect = NoDevice
        BY <1>1, <2>1 DEF Workers, Phases
      <4>3. shared' = Stopped(shared) /\ task' = NoTask
        BY <3>1, <3>2
      <4> HIDE DEF w
      <4>4. /\ worker'.pc = "absorb" /\ worker'.cur = worker.cur
            /\ worker'.device = worker.device /\ worker'.run = worker.run
            /\ worker'.snap.op = shared'.op /\ worker'.apply = "none"
            /\ worker'.connect = NoDevice
        BY <1>1, <1>3, <4>1, <4>2, <4>3
      <4>5. QED
        BY <1>1, <1>2, <2>2, <4>3, <4>4 DEF WaitingIsOver
    <3>3. CASE next # "done"
      <4>1. [worker EXCEPT !.apply = next, !.phase = worker.phase] = [worker EXCEPT !.apply = next]
        BY <1>1 DEF Workers
      <4>2. [worker EXCEPT !.apply = IF next = "done" THEN "none" ELSE next,
                           !.phase = IF next = "done" THEN "Idle" ELSE @]
              = [worker EXCEPT !.apply = next, !.phase = worker.phase]
        BY <1>1, <3>3 DEF Workers
      <4>3. /\ worker' = Looked([worker EXCEPT !.apply = next], shared')
            /\ shared' = Started(Stopped(shared), IF next = "write" THEN "other" ELSE "inspect")
            /\ task' = Launched(IF next = "write" THEN "other" ELSE "inspect", worker.device)
        BY <3>1, <3>3, <4>1, <4>2
      <4>4. QED
        BY <1>2, <1>4, <2>1, <2>2, <3>1, <3>3, <4>3
    <3>4. QED
      BY <3>2, <3>3
  <2>3. CASE /\ worker' = Looked([worker EXCEPT !.apply = "none", !.phase = "Failed"], shared)
             /\ UNCHANGED <<shared, task>>
    <3> DEFINE w == [worker EXCEPT !.apply = "none", !.phase = "Failed"]
    <3>1. /\ w \in Workers /\ w.cur = worker.cur /\ w.device = worker.device
          /\ w.run = worker.run /\ w.apply = "none" /\ w.phase = "Failed" /\ w.connect = NoDevice
      BY <1>1, <2>1 DEF Workers, Phases
    <3>2. worker' = Looked(w, shared')
      BY <2>3
    <3> HIDE DEF w
    <3>3. /\ worker'.pc = "absorb" /\ worker'.cur = worker.cur
          /\ worker'.device = worker.device /\ worker'.run = worker.run
          /\ worker'.snap.op = shared'.op /\ worker'.apply = "none"
          /\ worker'.connect = NoDevice /\ worker'.phase = "Failed"
      BY <1>1, <1>3, <2>3, <3>1, <3>2
    <3>4. QED
      BY <1>2, <2>3, <3>3 DEF StaysWaiting
  <2>4. CASE /\ shared.state # "Failed"
             /\ worker' = Looked(worker, shared) /\ UNCHANGED <<shared, task>>
    <3>1. /\ worker'.pc = "absorb" /\ worker'.cur = worker.cur
          /\ worker'.device = worker.device /\ worker'.run = worker.run
          /\ worker'.snap.op = shared'.op /\ worker'.apply = worker.apply
          /\ worker'.connect = worker.connect /\ worker'.phase = worker.phase
      BY <1>1, <1>3, <2>4
    <3>2. QED
      BY <1>2, <2>4, <3>1 DEF StaysWaiting
  <2>5. QED
    BY <1>5, <2>2, <2>3, <2>4 DEF AppliesOn
<1>6. CASE Connects
  <2> DEFINE w == [worker EXCEPT !.connect = NoDevice]
             f == [w EXCEPT !.phase = "Failed"]
  <2>1. /\ worker.apply = "none" /\ worker.connect # NoDevice /\ worker.connect \in Devices
    BY <1>1, <1>6 DEF Connects, Devs
  <2>2. /\ w \in Workers /\ w.cur = worker.cur /\ w.device = worker.device /\ w.run = worker.run
        /\ w.apply = "none" /\ w.phase = worker.phase /\ w.connect = NoDevice
    BY <1>1, <2>1 DEF Workers, Devs
  <2>3. /\ f \in Workers /\ f.cur = worker.cur /\ f.device = worker.device /\ f.run = worker.run
        /\ f.apply = "none" /\ f.phase = "Failed" /\ f.connect = NoDevice
    BY <1>1, <2>1 DEF Workers, Devs, Phases
  <2>4. CASE /\ ~task.alive
             /\ shared' = Started(Configured(Stopped(shared), worker.connect, TRUE), "track")
             /\ task' = Launched("track", worker.connect)
             /\ worker' = Looked(w, shared')
    <3> DEFINE s == Configured(Stopped(shared), worker.connect, TRUE)
    <3>1. s \in Shared /\ s.op = shared.op
      BY <1>1, ConfiguredOnly
    <3>2. shared' = Started(s, "track")
      BY <2>4
    <3> HIDE DEF s, w
    <3>3. shared' \in Shared /\ shared'.state # "Failed"
      <4>1. "track" \in Dos /\ "track" \in OnDevice \cup {"scan", "track"}
        BY DEF Dos
      <4>2. shared' \in Shared
        BY <3>1, <3>2, <4>1, StartedSays
      <4>3. shared'.state # "Failed"
        BY <1>1, <2>4, <3>1, <3>2, <4>1, StartSays
      <4>4. QED
        BY <4>2, <4>3
    <3>4. /\ worker'.pc = "absorb" /\ worker'.cur = worker.cur
          /\ worker'.device = worker.device /\ worker'.run = worker.run
          /\ worker'.snap.op = shared'.op /\ worker'.apply = "none"
          /\ worker'.connect = NoDevice /\ worker'.phase = worker.phase
      BY <1>3, <2>2, <2>4, <3>3
    <3>5. WaitingGoesOn
      BY <2>1, <2>4, <3>1, <3>2, <3>4 DEF WaitingGoesOn
    <3>6. QED
      BY <1>2, <3>4, <3>5
  <2>5. CASE worker' = Looked(f, shared) /\ UNCHANGED <<shared, task>>
    <3> HIDE DEF f
    <3>1. /\ worker'.pc = "absorb" /\ worker'.cur = worker.cur
          /\ worker'.device = worker.device /\ worker'.run = worker.run
          /\ worker'.snap.op = shared'.op /\ worker'.apply = "none"
          /\ worker'.connect = NoDevice /\ worker'.phase = "Failed"
      BY <1>1, <1>3, <2>3, <2>5
    <3>2. QED
      BY <1>2, <2>5, <3>1 DEF StaysWaiting
  <2>6. CASE worker' = Looked(worker, shared) /\ UNCHANGED <<shared, task>>
    <3>1. /\ worker'.pc = "absorb" /\ worker'.cur = worker.cur
          /\ worker'.device = worker.device /\ worker'.run = worker.run
          /\ worker'.snap.op = shared'.op /\ worker'.apply = worker.apply
          /\ worker'.phase = IF shared.state = "Failed" THEN "Failed" ELSE worker.phase
          /\ worker'.connect = IF shared.state = "Failed" THEN NoDevice ELSE worker.connect
      BY <1>1, <1>3, <2>6
    <3>2. QED
      BY <1>2, <2>1, <2>6, <3>1 DEF StaysWaiting
  <2>7. QED
    BY <1>6, <2>4, <2>5, <2>6 DEF Connects
<1>7. QED
  BY <1>5, <1>6

LEMMA AbsorbsSays ==
  ASSUME IInv, Absorbs
  PROVE  /\ worker.pc = "absorb" /\ worker'.pc = "publish" /\ SameLocals
         /\ worker'.snap = worker.snap
         /\ worker'.may = (worker.run # NoDevice /\ May)
         /\ worker'.busy = (worker.run # NoDevice /\ Busy)
         /\ UNCHANGED <<view, queue, taskVars, released, quit>>
<1> DEFINE may == worker.run # NoDevice /\ May
           busy == worker.run # NoDevice /\ Busy
<1>1. /\ worker.pc = "absorb"
      /\ worker' = [worker EXCEPT !.pc = "publish", !.may = may, !.busy = busy]
      /\ UNCHANGED <<view, queue, taskVars, released, quit>>
  BY DEF Absorbs
<1>2. may = (worker.run # NoDevice /\ May) /\ busy = (worker.run # NoDevice /\ Busy)
  OBVIOUS
<1> HIDE DEF may, busy
<1>3. /\ worker'.pc = "publish" /\ SameLocals /\ worker'.snap = worker.snap
      /\ worker'.may = may /\ worker'.busy = busy
  BY <1>1, Typed DEF IInv, Workers, SameLocals
<1>4. QED
  BY <1>1, <1>2, <1>3

LEMMA PublishesSays ==
  ASSUME IInv, Publishes
  PROVE  /\ worker.pc = "publish" /\ worker'.pc = "loop" /\ SameLocals
         /\ view'.request = view.request /\ view'.device = view.device
         /\ ~Current => view' = view
         /\ Current => /\ view'.phase = worker.phase
                       /\ view'.pending = (view.pending /\ (worker.run # NoDevice => worker.busy))
         /\ /\ Current /\ worker.device # NoDevice /\ ~Ended(worker.snap.op)
            /\ worker.run \in {NoDevice, worker.device}
            /\ \/ view.magnetic = worker.device \/ Seen(worker.snap.op)
               \/ worker.run # NoDevice /\ worker.may
            => view'.magnetic = worker.device
         /\ UNCHANGED <<queue, taskVars, released, quit>>
<1> DEFINE seen == ObserveMagnetic(view, worker.snap, worker.device)
           held == IF worker.run = NoDevice THEN seen
                   ELSE PublishSession(seen, worker.run, worker.may, worker.busy, worker.cur)
<1>1. /\ worker.pc = "publish"
      /\ worker' = [worker EXCEPT !.pc = "loop", !.snap = NoSnapshot, !.may = FALSE, !.busy = FALSE]
      /\ view' = IF ~Current THEN view ELSE [held EXCEPT !.phase = worker.phase]
      /\ UNCHANGED <<queue, taskVars, external, released, quit>>
  BY DEF Publishes
<1>2. /\ worker \in Workers /\ view \in Views /\ worker.cur \in Nat
      /\ worker.device \in Devs /\ worker.run \in Devs /\ view.pending \in BOOLEAN
      /\ worker.may \in BOOLEAN /\ worker.busy \in BOOLEAN
  BY Typed DEF IInv, Workers
<1>3. worker'.pc = "loop" /\ SameLocals
  BY <1>1, <1>2 DEF Workers, SameLocals
<1>4. /\ seen \in Views /\ seen.request = view.request
      /\ seen.device = view.device /\ seen.pending = view.pending
      /\ /\ worker.device # NoDevice /\ ~Ended(worker.snap.op)
         /\ view.magnetic = worker.device \/ Seen(worker.snap.op)
         => seen.magnetic = worker.device
  <2>1. seen \in Views /\ seen.request = view.request
    BY <1>2, ObserveMagneticSays
  <2>2. seen.device = view.device /\ seen.pending = view.pending
    BY <1>2 DEF ObserveMagnetic, Views
  <2>3. ASSUME worker.device # NoDevice, ~Ended(worker.snap.op),
               view.magnetic = worker.device \/ Seen(worker.snap.op)
        PROVE  seen.magnetic = worker.device
    <3>1. \/ seen = [view EXCEPT !.magnetic = worker.device]
          \/ seen = view /\ ~Seen(worker.snap.op)
      BY <2>3 DEF ObserveMagnetic, Ended, Seen
    <3> HIDE DEF seen
    <3>2. QED
      BY <1>2, <2>3, <3>1 DEF Views
  <2>4. QED
    BY <2>1, <2>2, <2>3
<1> HIDE DEF seen
<1>5. /\ held \in Views /\ held.request = view.request /\ held.device = view.device
      /\ Current => held.pending = (view.pending /\ (worker.run # NoDevice => worker.busy))
      /\ held.magnetic = IF worker.run # NoDevice /\ worker.may THEN worker.run ELSE seen.magnetic
  <2>1. CASE worker.run = NoDevice
    BY <1>2, <1>4, <2>1
  <2>2. CASE worker.run # NoDevice
    <3> DEFINE mag == IF worker.may THEN worker.run ELSE seen.magnetic
               pending == seen.pending /\ (seen.request = worker.cur => worker.busy)
               session == [dev |-> worker.run, may |-> worker.may]
    <3>1. held = [seen EXCEPT !.magnetic = mag, !.pending = pending, !.session = session]
      BY <1>4, <2>2 DEF PublishSession, Views
    <3>2. /\ mag = IF worker.run # NoDevice /\ worker.may THEN worker.run ELSE seen.magnetic
          /\ Current => pending = (view.pending /\ (worker.run # NoDevice => worker.busy))
      BY <1>2, <1>4, <2>2 DEF Current
    <3>3. held \in Views
      BY <1>2, <1>4, <2>2, PublishSessionSays
    <3> HIDE DEF mag, pending, session, held
    <3>4. /\ held.request = seen.request /\ held.device = seen.device
          /\ held.magnetic = mag /\ held.pending = pending
      BY <1>4, <3>1 DEF Views
    <3>5. QED
      BY <1>4, <3>2, <3>3, <3>4
  <2>3. QED
    BY <2>1, <2>2
<1> HIDE DEF held
<1>6. /\ view'.request = view.request /\ view'.device = view.device
      /\ ~Current => view' = view
      /\ Current => /\ view'.phase = worker.phase /\ view'.magnetic = held.magnetic
                    /\ view'.pending = held.pending
  BY <1>1, <1>2, <1>5 DEF Views, Workers
<1>7. ASSUME Current, worker.device # NoDevice, ~Ended(worker.snap.op),
             worker.run \in {NoDevice, worker.device},
             \/ view.magnetic = worker.device \/ Seen(worker.snap.op)
             \/ worker.run # NoDevice /\ worker.may
      PROVE  view'.magnetic = worker.device
  BY <1>4, <1>5, <1>6, <1>7
<1>8. QED
  BY <1>1, <1>3, <1>5, <1>6, <1>7

\* A request that is sent: a stop, a write into the session, or one of its own.
SendsStop(c) ==
  /\ c.do = "stop" /\ view'.phase = "Stopping" /\ view'.device = view.device
  /\ view'.pending = FALSE
SendsWrite(c) ==
  /\ c.do \in InSession /\ c.dev \in Devices /\ ~view.pending /\ Allowed(c)
  /\ view.phase = "Magnetic" /\ view'.phase = "Magnetic" /\ view.device = c.dev
  /\ view'.device = c.dev /\ view'.pending = TRUE
SendsNew(c) ==
  /\ c.do \in OnDevice \cup {"scan"} /\ ~view.pending /\ Allowed(c)
  /\ view.phase \in Settled /\ view'.pending = FALSE
  /\ view'.phase \notin {"Idle", "Failed", "Stopping"}
  /\ c.do \in InSession => view'.phase = "Operating" /\ view'.device = c.dev
  /\ c.do = "magnetic" => view'.phase = "Magnetic"

LEMMA SendSays ==
  ASSUME IInv, NEW c \in Requests, Send(c)
  PROVE  /\ ~quit /\ UNCHANGED <<worker, taskVars, released, quit>>
         /\ queue' \in Seq(Entries) /\ Len(queue') = Len(queue) + 1 /\ Len(queue) \in Nat
         /\ \A i \in 1..Len(queue') : i \in 1..Len(queue) \/ i = Len(queue) + 1
         /\ \A i \in 1..Len(queue) : queue'[i] = queue[i]
         /\ queue'[Len(queue) + 1].do = c.do /\ queue'[Len(queue) + 1].dev = c.dev
         /\ queue'[Len(queue) + 1].id = view'.request
         /\ c.do \in OnDevice => c.dev \in Devices
         /\ view'.magnetic = view.magnetic
         /\ \/ c.do = "recenter" /\ view' = view /\ view.phase = "Tracking"
            \/ /\ c.do # "recenter" /\ view'.request = view.request + 1
               /\ SendsStop(c) \/ SendsWrite(c) \/ SendsNew(c)
<1> DEFINE id == IF c.do = "recenter" THEN view.request ELSE view.request + 1
           e == [id |-> id, do |-> c.do, dev |-> c.dev]
<1>1. /\ ~quit /\ Admits(c) /\ view.request < MaxRequests /\ queue' = Append(queue, e)
      /\ view' = IF c.do = "recenter" THEN view
                 ELSE [view EXCEPT !.request = id, !.phase = PhaseOf(c),
                                   !.device = IF c.dev = NoDevice THEN @ ELSE c.dev,
                                   !.pending = IntoSession(c)]
      /\ UNCHANGED <<worker, taskVars, external, released, quit>>
  BY DEF Send
<1>2. /\ view \in Views /\ view.request \in Nat /\ queue \in Seq(Entries) /\ NoDevice \notin Devices
      /\ view.pending \in BOOLEAN
  BY Typed DEF IInv
<1>3. /\ c.do \in OnDevice \cup {"scan", "stop", "recenter"} /\ c.dev \in Devs
      /\ c.do \in OnDevice => c.dev \in Devices
      /\ c.do \in {"scan", "stop", "recenter"} => c.dev = NoDevice
  BY DEF Requests, OnDevice, InSession, Devs
<1>4. id \in Nat /\ e \in Entries /\ e.id = id /\ e.do = c.do /\ e.dev = c.dev
  <2>1. id \in Nat
    BY <1>2
  <2> HIDE DEF id
  <2>2. QED
    BY <1>3, <2>1 DEF Entries
<1> HIDE DEF e
<1>5. /\ queue' \in Seq(Entries) /\ Len(queue') = Len(queue) + 1 /\ Len(queue) \in Nat
      /\ \A i \in 1..Len(queue) : queue'[i] = queue[i]
      /\ queue'[Len(queue) + 1] = e
  BY <1>1, <1>2, <1>4
<1>6. \A i \in 1..Len(queue') : i \in 1..Len(queue) \/ i = Len(queue) + 1
  BY <1>5
<1>7. CASE c.do = "recenter"
  <2>1. view' = view /\ view.phase = "Tracking" /\ id = view'.request
    BY <1>1, <1>7 DEF Admits
  <2>2. QED
    BY <1>1, <1>3, <1>4, <1>5, <1>6, <1>7, <2>1
<1>8. CASE c.do # "recenter"
  <2> DEFINE device == IF c.dev = NoDevice THEN view.device ELSE c.dev
             into == IntoSession(c)
             phase == PhaseOf(c)
  <2>1. view' = [view EXCEPT !.request = id, !.phase = phase, !.device = device, !.pending = into]
    BY <1>1, <1>2, <1>8 DEF Views
  <2> HIDE DEF device, into, phase
  <2>2. /\ view'.request = id /\ view'.magnetic = view.magnetic /\ view'.phase = phase
        /\ view'.device = device /\ view'.pending = into
    BY <1>2, <2>1 DEF Views
  <2>3. id = view.request + 1
    BY <1>8
  <2>4. into \in BOOLEAN /\ into = IntoSession(c)
    BY DEF into, IntoSession
  <2>5. CASE c.do = "stop"
    <3>1. phase = "Stopping" /\ device = view.device /\ ~into
      BY <1>3, <2>5 DEF phase, PhaseOf, device, into, IntoSession, InSession
    <3>2. SendsStop(c)
      BY <2>2, <2>4, <2>5, <3>1 DEF SendsStop
    <3>3. QED
      BY <1>1, <1>3, <1>4, <1>5, <1>6, <1>8, <2>2, <2>3, <3>2
  <2>6. CASE c.do # "stop"
    <3>1. ~view.pending /\ (view.phase \in Settled \/ IntoSession(c)) /\ Allowed(c)
      BY <1>1, <1>8, <2>6 DEF Admits
    <3>2. CASE IntoSession(c)
      <4>1. /\ view.phase = "Magnetic" /\ view.device = c.dev /\ c.do \in InSession
            /\ c.dev \in Devices
        BY <1>3, <3>2 DEF IntoSession, OnDevice
      <4>2. phase = "Magnetic" /\ device = c.dev /\ into
        BY <1>2, <3>2, <4>1 DEF phase, PhaseOf, device, into, InSession
      <4>3. SendsWrite(c)
        BY <2>2, <2>4, <3>1, <4>1, <4>2 DEF SendsWrite
      <4>4. QED
        BY <1>1, <1>3, <1>4, <1>5, <1>6, <1>8, <2>2, <2>3, <4>3
    <3>3. CASE ~IntoSession(c)
      <4>1. view.phase \in Settled /\ ~into
        BY <3>1, <3>3 DEF into
      <4>2. /\ phase \notin {"Idle", "Failed", "Stopping"}
            /\ c.do \in InSession => phase = "Operating" /\ device = c.dev
            /\ c.do = "magnetic" => phase = "Magnetic"
        <5>1. phase \notin {"Idle", "Failed", "Stopping"}
          BY <2>6 DEF phase, PhaseOf
        <5>2. c.do \in InSession => phase = "Operating" /\ device = c.dev
          BY <1>2, <1>3, <3>3 DEF phase, PhaseOf, device, InSession, OnDevice
        <5>3. c.do = "magnetic" => phase = "Magnetic"
          BY DEF phase, PhaseOf
        <5>4. QED
          BY <5>1, <5>2, <5>3
      <4>3. SendsNew(c)
        BY <1>3, <1>8, <2>2, <2>4, <2>6, <3>1, <4>1, <4>2 DEF SendsNew
      <4>4. QED
        BY <1>1, <1>3, <1>4, <1>5, <1>6, <1>8, <2>2, <2>3, <4>3
    <3>4. QED
      BY <3>2, <3>3
  <2>7. QED
    BY <2>5, <2>6
<1>9. QED
  BY <1>7, <1>8

LEMMA QuitSays ==
  ASSUME IInv, Quit
  PROVE  /\ ~GuardsQuit /\ ~view.pending /\ UNCHANGED <<view, worker, taskVars, released>>
         /\ queue' \in Seq(Entries) /\ Len(queue') = Len(queue) + 1 /\ Len(queue) \in Nat
         /\ \A i \in 1..Len(queue') : i \in 1..Len(queue) \/ i = Len(queue) + 1
         /\ \A i \in 1..Len(queue) : queue'[i] = queue[i]
         /\ queue'[Len(queue) + 1].do = "shutdown" /\ quit' = TRUE
<1> DEFINE e == [id |-> MaxRequests + 1, do |-> "shutdown", dev |-> NoDevice]
<1>1. /\ ~GuardsQuit /\ queue' = Append(queue, e) /\ quit' = TRUE
      /\ UNCHANGED <<view, worker, taskVars, external, released>>
  BY DEF Quit
<1>2. queue \in Seq(Entries) /\ MaxRequests \in Nat
  BY ServiceAssumption, Typed DEF IInv
<1>3. e \in Entries /\ e.do = "shutdown"
  BY <1>2 DEF Entries, Devs, OnDevice, InSession
<1> HIDE DEF e
<1>4. /\ queue' \in Seq(Entries) /\ Len(queue') = Len(queue) + 1 /\ Len(queue) \in Nat
      /\ \A i \in 1..Len(queue) : queue'[i] = queue[i]
      /\ queue'[Len(queue) + 1] = e
  BY <1>1, <1>2, <1>3
<1>5. \A i \in 1..Len(queue') : i \in 1..Len(queue) \/ i = Len(queue) + 1
  BY <1>4
<1>6. ~view.pending
  BY <1>1 DEF GuardsQuit
<1>7. QED
  BY <1>1, <1>3, <1>4, <1>5, <1>6

-----------------------------------------------------------------------------
(***************************************************************************)
(* The task, its operation and its device.                                 *)
(***************************************************************************)

DInv == OneOperation /\ OneDevice

LEMMA NoOperationLeft ==
  ASSUME ~task'.alive
  PROVE  OneOperation'
BY DEF OneOperation, Quiet

LEMMA SameOperation ==
  ASSUME OneOperation, task'.alive = task.alive, task'.kind = task.kind, task'.step = task.step,
         task'.do = task.do, shared'.op = shared.op, shared'.chan = shared.chan,
         shared'.state = shared.state
  PROVE  OneOperation'
BY DEF OneOperation, Quiet

LEMMA StartedOperation ==
  ASSUME NEW s \in Shared, NEW do \in OnDevice \cup {"scan", "track"}, NEW d \in Devs,
         shared' = Started(s, do), task' = Launched(do, d)
  PROVE  OneOperation'
<1>1. /\ task'.step = "work" /\ task'.kind = KindOf(do) /\ task'.do = do /\ shared'.state # "Failed"
      /\ KindOf(do) = "write" => shared'.op.action = do
      /\ KindOf(do) = "inspect" => shared'.op.action = "inspect"
      /\ KindOf(do) = "magnetic" => shared'.chan = "none"
  BY StartSays
<1>2. QED
  BY <1>1 DEF OneOperation

LEMMA SameDevice ==
  ASSUME OneDevice, worker'.device = worker.device, worker'.run = worker.run,
         worker'.apply = worker.apply, worker'.connect = worker.connect,
         worker'.phase = worker.phase, task'.alive = task.alive, task'.kind = task.kind,
         task'.step = task.step, task'.dev = task.dev,
         InLoop' => InLoop, worker'.pc # "begin"
  PROVE  OneDevice'
<1>1. worker'.run \in {NoDevice, D'} /\ worker'.connect \in {NoDevice, D'}
  BY DEF OneDevice, D
<1>2. /\ ~Quiet' /\ task'.kind # "scan" => task'.dev = D'
      /\ task'.alive => (task'.kind = "magnetic" <=> worker'.run # NoDevice)
  BY DEF OneDevice, D, Quiet
<1>3. /\ worker'.apply # "none" \/ worker'.connect # NoDevice => worker'.run = NoDevice
      /\ InLoop' /\ worker'.run # NoDevice => worker'.phase \in {"Magnetic", "Failed"}
      /\ InLoop' /\ worker'.phase \in Settled => worker'.apply = "none" /\ worker'.connect = NoDevice
  BY DEF OneDevice
<1>4. QED
  BY <1>1, <1>2, <1>3 DEF OneDevice

LEMMA CommandsD ==
  ASSUME IInv, DInv, Commands
  PROVE  DInv'
<1> DEFINE r == Head(queue)
<1>1. /\ worker.pc = "loop" /\ r.do \in InSession /\ r.dev \in Devices
      /\ worker.phase = "Magnetic" /\ worker.run = r.dev
      /\ worker'.pc = "poll" /\ worker'.run = worker.run
      /\ worker'.apply = worker.apply /\ worker'.connect = worker.connect
      /\ worker'.device = worker.device /\ worker'.phase = worker.phase
      /\ shared'.mag = shared.mag /\ shared'.state = shared.state
      /\ Ready => /\ task' = task /\ task.alive /\ shared'.chan = r.do
                  /\ shared'.op.action = r.do /\ shared'.op.outcome = "Running"
      /\ ~Ready => /\ task' = task \/ (~task.alive /\ task' = NoTask)
                   /\ shared'.op = shared.op /\ shared'.chan = shared.chan
  BY CommandsSays
<1>2. InLoop /\ worker.run # NoDevice
  BY <1>1, Typed DEF InLoop, IInv
<1>3. CASE Ready
  <2>1. task.kind = "magnetic" /\ task.step # "announced"
    BY <1>1, <1>2, <1>3 DEF DInv, OneOperation, OneDevice, Ready, Busy
  <2>2. OneOperation'
    BY <1>1, <1>3, <2>1 DEF DInv, OneOperation, Quiet
  <2>3. OneDevice'
    BY <1>1, <1>2, <1>3, SameDevice DEF DInv, InLoop
  <2>4. QED
    BY <2>2, <2>3 DEF DInv
<1>4. CASE ~Ready /\ task' = task
  BY <1>1, <1>2, <1>4, SameDevice, SameOperation DEF DInv, InLoop
<1>5. CASE ~task.alive /\ task' = NoTask
  <2>1. ~task'.alive
    BY <1>5, NoTaskIsATask
  <2>2. OneDevice'
    BY <1>1, <1>2, <2>1 DEF DInv, OneDevice, D, Quiet, InLoop
  <2>3. QED
    BY <2>1, <2>2, NoOperationLeft DEF DInv
<1>6. QED
  BY <1>1, <1>3, <1>4, <1>5

LEMMA TakesD ==
  ASSUME IInv, DInv, Takes
  PROVE  DInv'
<1>1. /\ worker'.apply = "none"
      /\ worker'.device = worker.device /\ worker'.run = worker.run
      /\ worker'.connect \in {NoDevice, worker.connect}
      /\ worker'.pc \in {"leaving", "joining", "begin"}
      /\ worker'.pc = "begin" => worker.run = NoDevice
      /\ task'.alive = task.alive /\ task'.kind = task.kind /\ task'.step = task.step
      /\ task'.do = task.do /\ task'.dev = task.dev
      /\ UNCHANGED shared
  BY TakesSays
<1>2. OneOperation'
  BY <1>1, SameOperation DEF DInv
<1>3. OneDevice'
  BY <1>1 DEF DInv, OneDevice, D, Quiet, InLoop
<1>4. QED
  BY <1>2, <1>3 DEF DInv

LEMMA JoinsD ==
  ASSUME IInv, DInv, Joins
  PROVE  DInv'
<1>1. /\ worker.pc = "joining" /\ ~task'.alive
      /\ worker'.device = worker.device
      /\ worker'.run = NoDevice /\ worker'.apply = worker.apply
      /\ worker'.connect = worker.connect
      /\ worker.apply = "none" /\ worker.connect = NoDevice
  BY JoinsSays, NoTaskIsATask DEF IInv, Forgotten
<1>2. OneDevice'
  BY <1>1 DEF DInv, OneDevice, D, Quiet, InLoop
<1>3. QED
  BY <1>1, <1>2, NoOperationLeft DEF DInv

LEMMA BeginsD ==
  ASSUME IInv, DInv, Begins
  PROVE  DInv'
<1>1. /\ worker.pc = "begin" /\ worker'.pc = "poll"
      /\ worker.apply = "none" /\ worker.connect = NoDevice
      /\ BeginsStop \/ BeginsNothing \/ BeginsTask
  BY BeginsSays
<1>2. worker.run = NoDevice /\ NoDevice \notin Devices /\ NoDevice \in Devs
  BY <1>1, Typed DEF IInv, DInv, OneDevice
<1>3. CASE BeginsStop
  <2>1. /\ ~task'.alive /\ worker'.device = worker.device /\ worker'.run = NoDevice
        /\ worker'.apply = "none" /\ worker'.connect = NoDevice
    BY <1>1, <1>2, <1>3 DEF BeginsStop
  <2>2. OneDevice'
    BY <1>1, <2>1 DEF OneDevice, D, Quiet
  <2>3. QED
    BY <2>1, <2>2, NoOperationLeft DEF DInv
<1>4. CASE BeginsNothing
  <2>1. /\ worker'.device = worker.device /\ worker'.run = NoDevice
        /\ worker'.apply = "none" /\ worker'.connect = NoDevice
        /\ \/ task' = task /\ shared' = shared
           \/ task' = NoTask
    BY <1>1, <1>2, <1>4 DEF BeginsNothing
  <2>2. CASE task' = task /\ shared' = shared
    <3>1. OneOperation'
      BY <2>2, SameOperation DEF DInv
    <3>2. OneDevice'
      BY <1>1, <1>2, <2>1, <2>2 DEF DInv, OneDevice, D, Quiet
    <3>3. QED
      BY <3>1, <3>2 DEF DInv
  <2>3. CASE task' = NoTask
    <3>1. ~task'.alive
      BY <2>3, NoTaskIsATask
    <3>2. OneDevice'
      BY <1>1, <2>1, <3>1 DEF OneDevice, D, Quiet
    <3>3. QED
      BY <3>1, <3>2, NoOperationLeft DEF DInv
  <2>4. QED
    BY <2>1, <2>2, <2>3
<1>5. CASE BeginsTask
  <2> DEFINE r == worker.req
  <2>1. /\ r.do \in OnDevice \cup {"scan"}
        /\ r.do \in OnDevice => r.dev \in Devices
        /\ worker'.phase = WorkerPhase(r.do)
        /\ worker'.device = IF r.do = "scan" THEN worker.device ELSE r.dev
        /\ worker'.connect = IF r.do = "connect" THEN r.dev ELSE NoDevice
        /\ worker'.apply = IF r.do = "apply" THEN "before" ELSE "none"
        /\ worker'.run = IF r.do = "magnetic" THEN r.dev ELSE NoDevice
        /\ task' = Launched(r.do, r.dev)
    BY <1>5 DEF BeginsTask
  <2>2. PICK s \in Shared : shared' = Started(s, r.do)
    BY <1>5 DEF BeginsTask
  <2>3. r.do \in OnDevice \cup {"scan", "track"} /\ r.dev \in Devs
    <3>1. worker.req \in Entries
      BY Typed DEF IInv
    <3>2. QED
      BY <2>1, <3>1 DEF Entries
  <2>4. /\ task'.alive /\ task'.kind = KindOf(r.do) /\ task'.dev = r.dev
        /\ KindOf(r.do) = "magnetic" <=> r.do = "magnetic"
        /\ KindOf(r.do) = "scan" <=> r.do = "scan"
    BY <2>1, <2>2, <2>3, StartSays
  <2>5. WorkerPhase(r.do) \notin Settled /\ (r.do = "magnetic" => WorkerPhase(r.do) = "Magnetic")
    BY DEF WorkerPhase, Settled
  <2>6. worker'.run # NoDevice => r.do = "magnetic" /\ worker'.run = r.dev
    BY <2>1
  <2>7. r.do = "magnetic" => r.dev # NoDevice
    BY <1>2, <2>1 DEF OnDevice
  <2>8. worker'.run \in {NoDevice, D'} /\ worker'.connect \in {NoDevice, D'}
    BY <2>1 DEF D
  <2>9. /\ task'.kind # "scan" => task'.dev = D'
        /\ task'.kind = "magnetic" <=> worker'.run # NoDevice
    BY <2>1, <2>4, <2>7 DEF D
  <2>10. worker'.apply # "none" \/ worker'.connect # NoDevice => worker'.run = NoDevice
    BY <2>1
  <2>11. OneDevice'
    BY <1>1, <2>1, <2>5, <2>6, <2>8, <2>9, <2>10 DEF OneDevice
  <2>12. OneOperation'
    BY <2>1, <2>2, <2>3, StartedOperation
  <2>13. QED
    BY <2>11, <2>12 DEF DInv
<1>6. QED
  BY <1>1, <1>3, <1>4, <1>5

LEMMA LeavesD ==
  ASSUME IInv, DInv, Leaves
  PROVE  DInv'
<1>1. worker.pc = "leaving" /\ worker'.pc = "gone" /\ SameLocals /\ ~task'.alive
  BY LeavesSays, NoTaskIsATask
<1>2. OneDevice'
  BY <1>1 DEF DInv, OneDevice, D, Quiet, InLoop, SameLocals
<1>3. QED
  BY <1>1, <1>2, NoOperationLeft DEF DInv

LEMMA PollsD ==
  ASSUME IInv, DInv, Polls
  PROVE  DInv'
<1>1. /\ worker.pc = "poll" /\ worker'.pc = "absorb"
      /\ worker'.apply = "none" /\ worker'.connect = NoDevice
      /\ worker'.device = worker.device /\ worker'.run = worker.run
      /\ worker'.phase \in {worker.phase, "Idle", "Failed"}
      /\ worker'.phase = "Idle" =>
           worker.phase = "Idle" \/ worker.phase \in {"Scanning", "Inspecting", "Operating"}
      /\ worker'.phase = "Failed" => worker.phase = "Failed" \/ shared.state = "Failed"
      /\ UNCHANGED <<task, shared>>
  BY PollsSays DEF taskVars
<1>2. OneOperation'
  BY <1>1, SameOperation DEF DInv
<1>3. worker.run # NoDevice => worker'.phase \in {"Magnetic", "Failed"}
  <2>1. worker.run # NoDevice => worker.phase \in {"Magnetic", "Failed"}
    BY <1>1 DEF DInv, OneDevice, InLoop
  <2>2. QED
    BY <1>1, <2>1
<1>4. OneDevice'
  BY <1>1, <1>3 DEF DInv, OneDevice, D, Quiet, InLoop
<1>5. QED
  BY <1>2, <1>4 DEF DInv

LEMMA GoesOnD ==
  ASSUME IInv, DInv, AppliesOn \/ Connects
  PROVE  DInv'
<1>1. /\ worker.pc = "poll" /\ worker'.pc = "absorb"
      /\ worker.apply # "none" \/ worker.connect # NoDevice
      /\ worker'.device = worker.device /\ worker'.run = worker.run
      /\ StaysWaiting \/ WaitingIsOver \/ WaitingGoesOn
  BY GoesOnSays
<1>2. /\ worker.run = NoDevice /\ worker.phase \notin Settled /\ InLoop
      /\ worker.connect \in {NoDevice, worker.device}
  BY <1>1 DEF DInv, OneDevice, InLoop, D
<1>3. CASE StaysWaiting
  <2>1. /\ UNCHANGED <<shared, task>>
        /\ worker'.apply \in {worker.apply, "none"} /\ worker'.connect \in {worker.connect, NoDevice}
        /\ worker'.phase = worker.phase \/ (worker'.apply = "none" /\ worker'.connect = NoDevice)
    BY <1>3 DEF StaysWaiting
  <2>2. OneOperation'
    BY <2>1, SameOperation DEF DInv
  <2>3. OneDevice'
    BY <1>1, <1>2, <2>1 DEF DInv, OneDevice, D, Quiet
  <2>4. QED
    BY <2>2, <2>3 DEF DInv
<1>4. CASE WaitingIsOver
  <2>1. ~task'.alive /\ worker'.apply = "none" /\ worker'.connect = NoDevice
    BY <1>4, NoTaskIsATask DEF WaitingIsOver
  <2>2. OneDevice'
    BY <1>1, <1>2, <2>1 DEF OneDevice, D, Quiet
  <2>3. QED
    BY <2>1, <2>2, NoOperationLeft DEF DInv
<1>5. CASE WaitingGoesOn
  <2>1. /\ worker'.phase = worker.phase /\ worker'.connect = NoDevice
        /\ \E s \in Shared, do \in {"other", "inspect", "track"}, d \in {worker.device, worker.connect} :
             /\ do = "track" => d = worker.connect
             /\ do # "track" => d = worker.device
             /\ d \in Devices /\ s.op = shared.op /\ shared' = Started(s, do) /\ task' = Launched(do, d)
    BY <1>5 DEF WaitingGoesOn
  <2>2. PICK s \in Shared, do \in {"other", "inspect", "track"}, d \in {worker.device, worker.connect} :
             d \in Devices /\ shared' = Started(s, do) /\ task' = Launched(do, d)
    BY <2>1
  <2>3. NoDevice \notin Devices /\ d \in Devs /\ do \in OnDevice \cup {"scan", "track"}
    BY <2>2, Typed DEF IInv, Devs, OnDevice
  <2>4. d = worker.device
    BY <1>2, <2>2, <2>3
  <2>5. task'.kind # "magnetic" /\ task'.dev = d
    BY <2>2, <2>3, StartSays
  <2>6. OneDevice'
    BY <1>1, <1>2, <2>1, <2>4, <2>5 DEF OneDevice, D
  <2>7. OneOperation'
    BY <2>2, <2>3, StartedOperation
  <2>8. QED
    BY <2>6, <2>7 DEF DInv
<1>6. QED
  BY <1>1, <1>3, <1>4, <1>5

\* Whatever leaves the task and the worker's locals alone.
LEMMA RestD ==
  ASSUME IInv, DInv,
         \/ \E c \in Requests : Send(c)
         \/ Quit \/ Recenters \/ Waits \/ Absorbs \/ Publishes \/ OtherProgram \/ UNCHANGED vars
  PROVE  DInv'
<1>1. UNCHANGED <<task, shared>>
  BY DEF Send, Quit, Recenters, Waits, Absorbs, Publishes, OtherProgram, vars, taskVars
<1>2. /\ SameLocals
      /\ \/ worker'.pc = worker.pc
         \/ InLoop /\ worker'.pc \in {"loop", "poll", "absorb", "publish"}
  <2>1. CASE (\E c \in Requests : Send(c)) \/ Quit \/ OtherProgram \/ UNCHANGED vars
    <3>1. worker' = worker
      BY <2>1 DEF Send, Quit, OtherProgram, vars
    <3>2. QED
      BY <3>1 DEF SameLocals
  <2>2. CASE Recenters \/ Waits \/ Absorbs \/ Publishes
    BY <2>2, RecentersSays, WaitsSays, AbsorbsSays, PublishesSays DEF InLoop
  <2>3. QED
    BY <2>1, <2>2
<1>3. OneOperation'
  BY <1>1, SameOperation DEF DInv
<1>4. OneDevice'
  <2>1. InLoop' => InLoop
    BY <1>2 DEF InLoop
  <2>2. worker'.pc = "begin" => worker.pc = "begin" /\ worker.run = NoDevice
    BY <1>2 DEF DInv, OneDevice
  <2>3. QED
    BY <1>1, <1>2, <2>1, <2>2 DEF DInv, OneDevice, SameLocals, D, Quiet
<1>5. QED
  BY <1>3, <1>4 DEF DInv

-----------------------------------------------------------------------------
(***************************************************************************)
(* The task: no step of it brings a start about that was not asked for,    *)
(* what it announces is backed by the operation or by the session, and     *)
(* the end it reports is that of the calibration.                          *)
(***************************************************************************)

TaskGuards ==
  /\ DInv'
  /\ owes \subseteq {D} => /\ owes' \subseteq {D'} /\ (Backed => Backed')
                           /\ (EndSeen => EndSeen')
  /\ Starting' => Starting
  /\ AboutToWrite' => AboutToWrite

LEMMA OutcomeOnly ==
  ASSUME NEW s \in Shared, NEW r \in Endings
  PROVE  /\ Outcome(s, r).mag = s.mag /\ Outcome(s, r).chan = s.chan
         /\ Outcome(s, r).op.action = s.op.action /\ Outcome(s, r).op.attempted = s.op.attempted
         /\ Outcome(s, r).op.verified = s.op.verified
         /\ Outcome(s, r).op.outcome \in {s.op.outcome, "Cancelled", "Failed"}
<1> DEFINE o == IF s.op.outcome # "Running" \/ r = "Complete" THEN s.op.outcome
                ELSE IF r = "Stopped" THEN "Cancelled" ELSE "Failed"
           op == [s.op EXCEPT !.outcome = o]
<1>1. o \in {s.op.outcome, "Cancelled", "Failed"}
  OBVIOUS
<1>2. Outcome(s, r) = [s EXCEPT !.state = r, !.op = op]
  BY DEF Outcome, Shared
<1> HIDE DEF o
<1>3. /\ op.action = s.op.action /\ op.attempted = s.op.attempted
      /\ op.verified = s.op.verified /\ op.outcome = o
  BY DEF Shared, Operations
<1> HIDE DEF op
<1>4. Outcome(s, r).mag = s.mag /\ Outcome(s, r).chan = s.chan /\ Outcome(s, r).op = op
  BY <1>2 DEF Shared
<1>5. QED
  BY <1>1, <1>3, <1>4

LEMMA AnnouncedOnly ==
  ASSUME NEW s \in Shared
  PROVE  /\ Announced(s).mag = s.mag /\ Announced(s).chan = s.chan
         /\ Announced(s).state = s.state
         /\ Announced(s).op.action = s.op.action /\ Announced(s).op.attempted
         /\ Announced(s).op.verified = s.op.verified
         /\ Announced(s).op.outcome = s.op.outcome
<1> DEFINE op == [s.op EXCEPT !.attempted = TRUE]
<1>1. Announced(s) = [s EXCEPT !.op = op, !.desc = FALSE]
  BY DEF Announced, Shared
<1>2. /\ op.action = s.op.action /\ op.attempted
      /\ op.verified = s.op.verified /\ op.outcome = s.op.outcome
  BY DEF Shared, Operations
<1> HIDE DEF op
<1>3. QED
  BY <1>1, <1>2 DEF Shared

LEMMA VerifiedOnly ==
  ASSUME NEW s \in Shared, NEW c \in Dos
  PROVE  /\ Verified(s, c).mag = s.mag /\ Verified(s, c).chan = s.chan
         /\ Verified(s, c).state = s.state
         /\ Verified(s, c).op.action = s.op.action
         /\ Verified(s, c).op.attempted = s.op.attempted
         /\ c = "save" => Verified(s, c).op.outcome = "Unverified"
<1> DEFINE v == s.op.verified \/ c # "save"
           o == IF c = "save" THEN "Unverified" ELSE "Succeeded"
           op == [s.op EXCEPT !.verified = v, !.outcome = o]
<1>1. Verified(s, c) = [s EXCEPT !.op = op]
  BY DEF Verified, Shared
<1>2. c = "save" => o = "Unverified"
  OBVIOUS
<1> HIDE DEF v, o
<1>3. op.action = s.op.action /\ op.attempted = s.op.attempted /\ op.outcome = o
  BY DEF Shared, Operations
<1> HIDE DEF op
<1>4. QED
  BY <1>1, <1>2, <1>3 DEF Shared

\* The worker and its session stay while the task moves.
LEMMA TaskDevice ==
  ASSUME OneDevice, worker' = worker, task'.alive => task.alive, task'.kind = task.kind,
         task'.dev = task.dev, Quiet => Quiet'
  PROVE  OneDevice'
BY DEF OneDevice, D, InLoop

\* The last step publishes the end, and with it an operation still running.
LEMMA EndingGuards ==
  ASSUME DInv, worker' = worker, task.alive, owes' = owes,
         task'.step = "ended", task'.kind = task.kind, task'.dev = task.dev,
         shared'.op.action = shared.op.action, shared'.op.attempted = shared.op.attempted,
         Ended(shared'.op) => Ended(shared.op), shared'.mag.owned = shared.mag.owned
  PROVE  TaskGuards
<1>1. ~AboutToStart' /\ ~AboutToWrite'
  BY DEF AboutToStart, AboutToWrite
<1>2. OneOperation' /\ OneDevice'
  BY TaskDevice DEF DInv, OneOperation, Quiet
<1>3. /\ Starting' => Starting
      /\ EndSeen => EndSeen'
  BY <1>1 DEF Starting, EndSeen
<1>4. Backed => Backed'
  BY DEF Backed, D
<1>5. QED
  BY <1>1, <1>2, <1>3, <1>4 DEF TaskGuards, DInv, D

LEMMA EndsGuards ==
  ASSUME TaskTypes, DInv, worker' = worker, task.alive, NEW r \in Endings, Ends(r),
         UNCHANGED owes
  PROVE  TaskGuards
<1>1. task'.step = "ended" /\ task'.kind = task.kind /\ task'.dev = task.dev
  BY DEF Ends, TaskTypes, Tasks
<1>2. /\ shared'.op.action = shared.op.action /\ shared'.op.attempted = shared.op.attempted
      /\ Ended(shared'.op) => Ended(shared.op)
      /\ shared'.mag.owned = shared.mag.owned
  BY OutcomeOnly DEF Ends, TaskTypes, Ended
<1>3. QED
  BY <1>1, <1>2, EndingGuards

LEMMA InspectCompletesGuards ==
  ASSUME TaskTypes, DInv, worker' = worker, InspectCompletes
  PROVE  TaskGuards
<1>1. /\ task.alive /\ task.kind = "inspect" /\ task.step = "work" /\ UNCHANGED <<calsw, owes>>
      /\ task' = [task EXCEPT !.step = "ended"]
  BY DEF InspectCompletes, At
<1> DEFINE op == [shared.op EXCEPT !.verified = TRUE, !.outcome = "Succeeded"]
           seven == calsw[Device]
<1>2. shared \in Shared /\ shared.op \in Operations /\ task \in Tasks
  BY DEF TaskTypes, Shared
<1>3. shared' = [shared EXCEPT !.state = "Complete", !.desc = seven, !.op = op]
  BY <1>2 DEF InspectCompletes, Shared, Operations
<1>4. /\ op.action = shared.op.action /\ op.attempted = shared.op.attempted
      /\ op.action = "inspect"
  BY <1>1, <1>2 DEF Operations, DInv, OneOperation
<1> HIDE DEF op, seven
<1>5. shared'.op = op /\ shared'.mag = shared.mag
  BY <1>2, <1>3 DEF Shared
<1>6. task'.step = "ended" /\ task'.kind = task.kind /\ task'.dev = task.dev
  BY <1>1, <1>2 DEF Tasks
<1>7. QED
  BY <1>1, <1>4, <1>5, <1>6, EndingGuards DEF Ended

LEMMA SessionClosesGuards ==
  ASSUME TaskTypes, DInv, worker' = worker, SessionCloses
  PROVE  TaskGuards
<1>1. task.alive /\ UNCHANGED <<calsw, owes>> /\ shared \in Shared /\ task \in Tasks
  BY DEF SessionCloses, At, TaskTypes
<1>2. PICK r \in {task.result, "Failed"} :
        /\ task' = [task EXCEPT !.step = "ended", !.result = r]
        /\ shared' = [Outcome(shared, r) EXCEPT !.chan = "none", !.mag.error = (r = "Failed")]
  BY DEF SessionCloses
<1> DEFINE o == Outcome(shared, r)
           failed == r = "Failed"
           m == [o.mag EXCEPT !.error = failed]
<1>3. r \in Endings /\ o \in Shared
  BY <1>1, <1>2, OutcomeSays DEF Tasks, Endings
<1>4. /\ o.mag = shared.mag
      /\ o.op.action = shared.op.action /\ o.op.attempted = shared.op.attempted
      /\ Ended(o.op) => Ended(shared.op)
  BY <1>1, <1>3, OutcomeOnly DEF Ended
<1>5. shared' = [o EXCEPT !.chan = "none", !.mag = m]
  BY <1>2, <1>3 DEF Shared, Sessions
<1> HIDE DEF o, failed
<1>6. m.owned = o.mag.owned
  BY <1>3 DEF Shared, Sessions
<1> HIDE DEF m
<1>7. shared'.op = o.op /\ shared'.mag = m
  BY <1>3, <1>5 DEF Shared
<1>8. task'.step = "ended" /\ task'.kind = task.kind /\ task'.dev = task.dev
  BY <1>1, <1>2 DEF Tasks
<1>9. QED
  BY <1>1, <1>4, <1>6, <1>7, <1>8, EndingGuards

LEMMA TaskFinishesGuards ==
  ASSUME TaskTypes, DInv, worker' = worker, TaskFinishes
  PROVE  TaskGuards
<1>1. /\ ~task'.alive /\ task' = NoTask /\ UNCHANGED <<shared, owes>> /\ task.alive
  BY NoTaskIsATask DEF TaskFinishes
<1>2. ~AboutToStart' /\ ~AboutToWrite'
  BY <1>1 DEF AboutToStart, AboutToWrite
<1>3. OneOperation'
  BY <1>1, NoOperationLeft
<1>4. OneDevice'
  BY <1>1 DEF DInv, OneDevice, D, Quiet, InLoop
<1>5. /\ Starting' => Starting
      /\ EndSeen => EndSeen'
      /\ Backed => Backed'
  BY <1>1, <1>2 DEF Starting, EndSeen, Backed, D
<1>6. QED
  BY <1>1, <1>2, <1>3, <1>4, <1>5 DEF TaskGuards, DInv, D

LEMMA SawOnly ==
  ASSUME NEW m \in Sessions, NEW v \in BOOLEAN
  PROVE  Saw(m, v).owned = (m.owned /\ ~(m.calibrating /\ ~v))
BY DEF Saw, Sessions

LEMMA AtWork ==
  ASSUME TaskTypes, DInv, task.alive, task.kind # "scan", task.step # "ended"
  PROVE  /\ Device = D /\ Device \in Devices /\ calsw[Device] \in BOOLEAN
         /\ shared \in Shared /\ task \in Tasks /\ shared.state # "Failed"
         /\ task.kind = "magnetic" <=> worker.run # NoDevice
         /\ worker.run \in {NoDevice, D}
BY TaskFacts DEF TaskTypes, DInv, OneDevice, OneOperation, Quiet, Device

\* A step after which the task is at work still.
LEMMA WorkingGuards ==
  ASSUME DInv, worker' = worker, task.alive, task.step # "ended",
         task'.alive, task'.kind = task.kind, task'.dev = task.dev, OneOperation',
         Starting' => Starting, AboutToWrite' => AboutToWrite,
         owes \subseteq {D} => owes' \subseteq {D} /\ (Backed => Backed') /\ (EndSeen => EndSeen')
  PROVE  TaskGuards
<1>1. OneDevice'
  BY TaskDevice DEF DInv, Quiet
<1>2. QED
  BY <1>1 DEF TaskGuards, DInv, D

LEMMA WriteAnnouncesGuards ==
  ASSUME TaskTypes, DInv, worker' = worker, WriteAnnounces
  PROVE  TaskGuards
<1>1. /\ task.alive /\ task.kind = "write" /\ task.step = "work" /\ Goes("announced")
      /\ shared' = Announced(shared) /\ owes' = Owing(task.do) /\ UNCHANGED calsw
  BY DEF WriteAnnounces, At
<1>2. Device = D /\ shared \in Shared /\ task \in Tasks /\ shared.state # "Failed" /\ worker.run = NoDevice
  BY <1>1, AtWork
<1>3. /\ task'.alive /\ task'.kind = "write" /\ task'.step = "announced" /\ task'.dev = task.dev
      /\ task'.do = task.do
  BY <1>1, <1>2 DEF Goes, Tasks
<1>4. /\ shared'.op.action = shared.op.action /\ shared'.op.attempted
      /\ shared'.op.verified = shared.op.verified /\ shared'.op.outcome = shared.op.outcome
      /\ shared'.mag = shared.mag /\ shared'.state = shared.state
  BY <1>1, <1>2, AnnouncedOnly
<1>5. shared.op.action = task.do
  BY <1>1 DEF DInv, OneOperation
<1>6. OneOperation'
  BY <1>2, <1>3, <1>4, <1>5 DEF OneOperation
<1>7. /\ ~AboutToWrite' /\ ~AboutToStart'
      /\ Starting' => Starting
  BY <1>1, <1>3 DEF AboutToWrite, AboutToStart, Starting, Owing
<1>8. owes \subseteq {D} => owes' \subseteq {D}
  BY <1>1, <1>2 DEF Owing
<1>9. Backed => Backed'
  BY <1>1, <1>2, <1>4, <1>5 DEF Backed, Owing, D
<1>10. EndSeen => EndSeen'
  BY <1>4, <1>7 DEF EndSeen, Ended
<1>11. QED
  BY <1>1, <1>3, <1>6, <1>7, <1>8, <1>9, <1>10, WorkingGuards

LEMMA WriteVerifiesGuards ==
  ASSUME TaskTypes, DInv, worker' = worker, WriteVerifies
  PROVE  TaskGuards
<1>1. /\ task.alive /\ task.kind = "write" /\ task.step = "announced" /\ Goes("done")
      /\ shared' = Verified(shared, task.do) /\ owes' = Paid(task.do)
  BY DEF WriteVerifies, At
<1>2. Device = D /\ shared \in Shared /\ task \in Tasks /\ shared.state # "Failed" /\ task.do \in Dos
  BY <1>1, AtWork DEF Tasks
<1>3. /\ task'.alive /\ task'.kind = "write" /\ task'.step = "done" /\ task'.dev = task.dev
      /\ task'.do = task.do
  BY <1>1, <1>2 DEF Goes, Tasks
<1>4. /\ shared'.op.action = shared.op.action /\ shared'.op.attempted = shared.op.attempted
      /\ shared'.mag = shared.mag /\ shared'.state = shared.state
  BY <1>1, <1>2, VerifiedOnly
<1>5. shared.op.action = task.do
  BY <1>1 DEF DInv, OneOperation
<1>6. OneOperation'
  BY <1>2, <1>3, <1>4 DEF OneOperation
<1>7. /\ ~AboutToWrite' /\ ~AboutToStart' /\ owes' \subseteq owes
      /\ Starting' => Starting
  BY <1>1, <1>3 DEF AboutToWrite, AboutToStart, Starting, Paid
<1>8. Backed => Backed'
  BY <1>1, <1>4, <1>7 DEF Backed, D
<1>9. owes \subseteq {D} => EndSeen'
  BY <1>1, <1>2, <1>4, <1>5, <1>7 DEF EndSeen, Ended, Starting, Paid
<1>10. QED
  BY <1>1, <1>3, <1>6, <1>7, <1>8, <1>9, WorkingGuards

LEMMA SessionOpensGuards ==
  ASSUME TaskTypes, DInv, worker' = worker, SessionOpens
  PROVE  TaskGuards
<1>1. /\ task.alive /\ task.kind = "magnetic" /\ task.step = "work"
      /\ Goes("ready") /\ UNCHANGED <<calsw, owes>>
  BY DEF SessionOpens, At
<1> DEFINE seven == calsw[Device]
           m == [shared.mag EXCEPT !.open = TRUE, !.seven = seven]
<1>2. shared \in Shared /\ task \in Tasks
  BY DEF TaskTypes
<1>3. shared' = [shared EXCEPT !.state = "Magnetic", !.mag = m]
  BY <1>2 DEF SessionOpens, Shared, Sessions
<1> HIDE DEF seven
<1>4. m.owned = shared.mag.owned
  BY <1>2 DEF Shared, Sessions
<1> HIDE DEF m
<1>5. /\ shared'.state = "Magnetic" /\ shared'.op = shared.op /\ shared'.chan = shared.chan
      /\ shared'.mag.owned = shared.mag.owned
  BY <1>2, <1>3, <1>4 DEF Shared
<1>6. /\ task'.alive /\ task'.kind = "magnetic" /\ task'.step = "ready" /\ task'.dev = task.dev
  BY <1>1, <1>2 DEF Goes, Tasks
<1>7. OneOperation'
  BY <1>1, <1>5, <1>6 DEF DInv, OneOperation
<1>8. /\ ~AboutToWrite' /\ (AboutToStart' => AboutToStart)
      /\ Starting' => Starting
  BY <1>1, <1>5, <1>6 DEF AboutToWrite, AboutToStart, Starting
<1>9. Backed => Backed'
  BY <1>1, <1>5 DEF Backed, D
<1>10. EndSeen => EndSeen'
  BY <1>5, <1>8 DEF EndSeen
<1>11. QED
  BY <1>1, <1>6, <1>7, <1>8, <1>9, <1>10, WorkingGuards

LEMMA SessionReadsGuards ==
  ASSUME TaskTypes, DInv, worker' = worker, SessionReads
  PROVE  TaskGuards
<1>1. /\ task.alive /\ task.kind = "magnetic" /\ task.step = "ready" /\ UNCHANGED <<task, calsw>>
      /\ shared.chan = "none"
      /\ owes' = IF Sees THEN owes \ {Device} ELSE owes
  BY DEF SessionReads, At
<1> DEFINE m == Saw(shared.mag, calsw[Device])
<1>2. /\ Device = D /\ shared \in Shared /\ calsw[Device] \in BOOLEAN /\ shared.mag \in Sessions
      /\ worker.run = D
  BY <1>1, AtWork DEF Shared
<1>3. shared' = [shared EXCEPT !.mag = m]
  BY <1>2 DEF SessionReads, Shared
<1>4. m.owned = (shared.mag.owned /\ ~Sees)
  BY <1>2, SawOnly DEF Sees
<1> HIDE DEF m
<1>5. /\ shared'.op = shared.op /\ shared'.chan = shared.chan /\ shared'.mag.owned = m.owned
      /\ shared'.state = shared.state
  BY <1>2, <1>3 DEF Shared
<1>6. OneOperation'
  BY <1>1, <1>5, SameOperation DEF DInv
<1>7. /\ AboutToWrite' => AboutToWrite
      /\ AboutToStart' => AboutToStart
      /\ owes' \subseteq owes
      /\ Starting' => Starting
  BY <1>1, <1>5 DEF AboutToWrite, AboutToStart, Starting
<1>8. owes \subseteq {D} /\ Backed => Backed'
  <2>1. CASE Sees
    <3>1. owes \subseteq {D} => owes' = {}
      BY <1>1, <1>2, <2>1
    <3>2. QED
      BY <3>1 DEF Backed
  <2>2. CASE ~Sees
    BY <1>1, <1>4, <1>5, <2>2 DEF Backed, D
  <2>3. QED
    BY <2>1, <2>2
<1>9. EndSeen => EndSeen'
  BY <1>5, <1>7 DEF EndSeen
<1>10. QED
  BY <1>1, <1>6, <1>7, <1>8, <1>9, WorkingGuards

LEMMA SessionExecutesGuards ==
  ASSUME TaskTypes, DInv, worker' = worker, SessionExecutes
  PROVE  TaskGuards
<1> DEFINE c == shared.chan
           m == Saw(shared.mag, calsw[Device])
<1>1. task.alive /\ task.kind = "magnetic" /\ task.step = "ready" /\ c # "none" /\ UNCHANGED calsw
  BY DEF SessionExecutes, At
<1>2. /\ Device = D /\ shared \in Shared /\ task \in Tasks /\ calsw[Device] \in BOOLEAN
      /\ shared.mag \in Sessions /\ shared.state # "Failed"
      /\ worker.run = D /\ c \in InSession /\ m \in Sessions
  BY <1>1, AtWork, SawSays DEF Shared
<1>3. m.owned = (shared.mag.owned /\ ~Sees)
  BY <1>2, SawOnly DEF Sees
<1>4. shared.op.outcome = "Running" /\ shared.op.action = c
  BY <1>1 DEF DInv, OneOperation
<1>5. CASE c # "mag_stop" /\ calsw[Device]
  <2> DEFINE op == [shared.op EXCEPT !.outcome = "Failed"]
  <2>1. /\ shared' = [shared EXCEPT !.chan = "none", !.mag = m, !.op = op]
        /\ UNCHANGED <<task, owes>>
    BY <1>2, <1>5 DEF SessionExecutes, Shared
  <2>2. /\ op.action = shared.op.action /\ op.attempted = shared.op.attempted
        /\ op.outcome = "Failed"
    BY <1>2 DEF Shared, Operations
  <2> HIDE DEF op, m
  <2>3. /\ shared'.op = op /\ shared'.chan = "none" /\ shared'.mag = m /\ shared'.state = shared.state
    BY <1>2, <2>1 DEF Shared
  <2>4. OneOperation'
    BY <1>1, <1>2, <2>1, <2>3 DEF OneOperation
  <2>5. ~AboutToWrite' /\ ~AboutToStart' /\ (Starting' => Starting)
    BY <1>1, <2>1, <2>3 DEF AboutToWrite, AboutToStart, Starting
  <2>6. Backed => Backed'
    BY <1>2, <1>3, <1>5, <2>1, <2>2, <2>3 DEF Backed, D, Sees
  <2>7. EndSeen'
    BY <2>2, <2>3 DEF EndSeen, Ended
  <2>8. QED
    BY <1>1, <2>1, <2>4, <2>5, <2>6, <2>7, WorkingGuards
<1>6. CASE ~(c # "mag_stop" /\ calsw[Device])
  <2> DEFINE owned == m.owned \/ c = "mag_start"
             n == [m EXCEPT !.owned = owned, !.calibrating = FALSE]
             s == [shared EXCEPT !.chan = "none", !.mag = n]
  <2>1. owned \in BOOLEAN
    BY <1>2 DEF Sessions
  <2>2. /\ shared' = Announced([[shared EXCEPT !.chan = "none", !.mag = m]
                                  EXCEPT !.mag.owned = @ \/ c = "mag_start",
                                         !.mag.calibrating = FALSE])
        /\ task' = [task EXCEPT !.step = "announced", !.do = c]
        /\ owes' = (IF Sees THEN owes \ {Device} ELSE owes)
                     \cup (IF c = "mag_start" THEN {Device} ELSE {})
    BY <1>2, <1>6 DEF SessionExecutes, Shared
  <2>3. shared' = Announced(s)
    BY <1>2, <2>2 DEF Shared, Sessions
  <2>4. owned = ((shared.mag.owned /\ ~Sees) \/ c = "mag_start")
    BY <1>3
  <2> HIDE DEF owned, m
  <2>5. n \in Sessions /\ n.owned = owned
    BY <1>2, <2>1 DEF Sessions
  <2> HIDE DEF n
  <2>6. /\ s \in Shared /\ s.chan = "none" /\ s.mag = n /\ s.op = shared.op
        /\ s.state = shared.state
    BY <1>2, <2>5 DEF Shared
  <2> HIDE DEF s
  <2>7. /\ shared'.chan = "none" /\ shared'.mag = n /\ shared'.state = shared.state
        /\ shared'.op.action = shared.op.action /\ shared'.op.outcome = shared.op.outcome
    BY <2>3, <2>6, AnnouncedOnly
  <2>8. /\ task'.alive /\ task'.kind = "magnetic" /\ task'.step = "announced"
        /\ task'.dev = task.dev /\ task'.do = c
    BY <1>1, <1>2, <2>2 DEF Tasks
  <2>9. OneOperation'
    BY <1>2, <1>4, <2>7, <2>8 DEF OneOperation
  <2>10. ~AboutToWrite' /\ ~AboutToStart'
    BY <2>8 DEF AboutToWrite, AboutToStart
  <2>11. Starting' => Starting
    BY <1>1, <2>2, <2>10 DEF Starting, AboutToStart
  <2>12. owes \subseteq {D} => owes' \subseteq {D}
    BY <1>2, <2>2
  <2>13. owes \subseteq {D} /\ Backed => Backed'
    <3>1. CASE c = "mag_start"
      BY <1>2, <2>4, <2>5, <2>7, <3>1 DEF Backed, D
    <3>2. CASE c # "mag_start" /\ Sees
      <4>1. owes \subseteq {D} => owes' = {}
        BY <1>2, <2>2, <3>2
      <4>2. QED
        BY <4>1 DEF Backed
    <3>3. CASE c # "mag_start" /\ ~Sees
      <4>1. owes' = owes /\ owned = shared.mag.owned
        BY <1>2, <2>2, <2>4, <3>3 DEF Sessions
      <4>2. worker.run # NoDevice
        BY <1>1, AtWork
      <4>3. QED
        BY <1>2, <2>5, <2>7, <4>1, <4>2 DEF Backed, D
    <3>4. QED
      BY <3>1, <3>2, <3>3
  <2>14. EndSeen'
    BY <1>4, <2>7 DEF EndSeen, Ended
  <2>15. QED
    BY <1>1, <2>8, <2>9, <2>10, <2>11, <2>12, <2>13, <2>14, WorkingGuards
<1>7. QED
  BY <1>5, <1>6

LEMMA SessionVerifiesGuards ==
  ASSUME TaskTypes, DInv, worker' = worker, SessionVerifies
  PROVE  TaskGuards
<1> DEFINE c == task.do
           s == Verified(shared, c)
           on == c = "mag_start"
           m == [s.mag EXCEPT !.owned = on, !.seven = on, !.calibrating = on]
<1>1. /\ task.alive /\ task.kind = "magnetic" /\ task.step = "announced" /\ Goes("ready")
      /\ owes' = Paid(c)
      /\ shared' = IF c = "save" THEN s
                   ELSE [s EXCEPT !.mag.owned = on, !.mag.seven = on, !.mag.calibrating = on]
  BY DEF SessionVerifies, At
<1>2. /\ Device = D /\ shared \in Shared /\ task \in Tasks /\ c \in Dos /\ worker.run = D
      /\ shared.state # "Failed" /\ worker.run # NoDevice
  BY <1>1, AtWork DEF Tasks
<1>3. shared.chan = "none" /\ shared.op.action = c /\ c \in InSession
  BY <1>1 DEF DInv, OneOperation
<1>4. /\ s \in Shared /\ s.mag = shared.mag /\ s.chan = "none" /\ s.state = shared.state
      /\ s.op.action = c
  BY <1>2, <1>3, VerifiedSays, VerifiedOnly
<1>5. c = "save" => s.op.outcome = "Unverified"
  BY <1>2, VerifiedOnly
<1> HIDE DEF s
<1>6. shared' = IF c = "save" THEN s ELSE [s EXCEPT !.mag = m]
  BY <1>1, <1>4 DEF Shared, Sessions
<1>7. m.owned = on
  BY <1>4 DEF Shared, Sessions
<1> HIDE DEF m
<1>8. /\ shared'.op = s.op /\ shared'.chan = "none" /\ shared'.state = shared.state
      /\ shared'.mag = IF c = "save" THEN shared.mag ELSE m
  BY <1>4, <1>6 DEF Shared
<1>9. /\ task'.alive /\ task'.kind = "magnetic" /\ task'.step = "ready" /\ task'.dev = task.dev
  BY <1>1, <1>2 DEF Goes, Tasks
<1>10. OneOperation'
  BY <1>2, <1>8, <1>9 DEF OneOperation
<1>11. /\ ~AboutToWrite' /\ ~AboutToStart' /\ owes' \subseteq owes
       /\ Starting' => Starting
  BY <1>1, <1>8, <1>9 DEF AboutToWrite, AboutToStart, Starting, Paid
<1>12. owes \subseteq {D} /\ c = "mag_stop" => owes' = {}
  BY <1>1, <1>2 DEF Paid
<1>13. owes \subseteq {D} /\ Backed => Backed'
  <2>1. CASE c = "mag_stop"
    BY <1>12, <2>1 DEF Backed
  <2>2. CASE c = "mag_start"
    BY <1>2, <1>7, <1>8, <2>2 DEF Backed, D
  <2>3. CASE c = "save"
    BY <1>2, <1>8, <1>11, <2>3 DEF Backed, D
  <2>4. QED
    BY <1>3, <2>1, <2>2, <2>3 DEF InSession
<1>14. owes \subseteq {D} => EndSeen'
  BY <1>4, <1>8, <1>11, <1>12 DEF EndSeen, Ended, Starting
<1>15. QED
  BY <1>1, <1>9, <1>10, <1>11, <1>13, <1>14, WorkingGuards

LEMMA BreaksGuards ==
  ASSUME TaskTypes, DInv, worker' = worker, NEW r \in Endings, Breaks(r)
  PROVE  TaskGuards
<1>1. task.alive /\ UNCHANGED owes /\ shared \in Shared /\ task \in Tasks
  BY DEF Breaks, TaskTypes
<1>2. CASE task.kind # "magnetic"
  BY <1>1, <1>2, EndsGuards DEF Breaks
<1>3. CASE task.kind = "magnetic"
  <2> DEFINE next == IF shared.mag.owned THEN "cleanup" ELSE "closing"
             s == IF task.step = "announced" THEN Outcome(shared, r) ELSE shared
             m == [s.mag EXCEPT !.open = FALSE]
  <2>1. /\ task.step \in {"work", "ready", "announced"}
        /\ task' = [task EXCEPT !.result = r, !.step = next]
    BY <1>3 DEF Breaks
  <2>2. next \in {"cleanup", "closing"}
    OBVIOUS
  <2>3. /\ s \in Shared /\ s.mag = shared.mag
        /\ s.op.action = shared.op.action /\ s.op.attempted = shared.op.attempted
        /\ Ended(s.op) => Ended(shared.op)
    BY <1>1, OutcomeSays, OutcomeOnly DEF Ended
  <2>4. shared' = [s EXCEPT !.state = shared.state, !.mag = m]
    <3>1. CASE task.step = "announced"
      BY <1>1, <1>3, <2>3, <3>1 DEF Breaks, Shared, Sessions
    <3>2. CASE task.step # "announced"
      BY <1>1, <1>3, <2>3, <3>2 DEF Breaks, Shared, Sessions
    <3>3. QED
      BY <3>1, <3>2
  <2> HIDE DEF next, s
  <2>5. m.owned = s.mag.owned
    BY <2>3 DEF Shared, Sessions
  <2> HIDE DEF m
  <2>6. shared'.op = s.op /\ shared'.mag = m /\ shared'.state = shared.state
    BY <2>3, <2>4 DEF Shared
  <2>7. /\ task'.step \in {"cleanup", "closing"} /\ task'.kind = "magnetic" /\ task'.alive
        /\ task'.dev = task.dev
    BY <1>1, <1>3, <2>1, <2>2 DEF Tasks
  <2>8. OneOperation'
    BY <1>1, <2>1, <2>6, <2>7 DEF DInv, OneOperation, Quiet
  <2>9. ~AboutToWrite' /\ ~AboutToStart' /\ (Starting' => Starting)
    BY <1>1, <2>7 DEF AboutToWrite, AboutToStart, Starting
  <2>10. Backed => Backed'
    BY <1>1, <2>3, <2>5, <2>6 DEF Backed, D
  <2>11. EndSeen => EndSeen'
    BY <2>3, <2>6, <2>9 DEF EndSeen
  <2>12. QED
    BY <1>1, <1>3, <2>1, <2>7, <2>8, <2>9, <2>10, <2>11, WorkingGuards
<1>4. QED
  BY <1>2, <1>3

LEMMA CleansUpGuards ==
  ASSUME TaskTypes, DInv, worker' = worker, CleansUp
  PROVE  TaskGuards
<1>1. task.alive /\ task.kind = "magnetic" /\ task.step = "cleanup"
  BY DEF CleansUp, At
<1>2. Device = D /\ shared \in Shared /\ task \in Tasks /\ worker.run = D /\ shared.state # "Failed"
  BY <1>1, AtWork
<1>3. CASE /\ owes' = owes \ {Device} /\ Goes("closing")
           /\ shared' = [shared EXCEPT !.mag.owned = FALSE, !.mag.seven = FALSE]
  <2> DEFINE m == [shared.mag EXCEPT !.owned = FALSE, !.seven = FALSE]
  <2>1. shared' = [shared EXCEPT !.mag = m]
    BY <1>2, <1>3 DEF Shared, Sessions
  <2> HIDE DEF m
  <2>2. shared'.op = shared.op /\ shared'.state = shared.state
    BY <1>2, <2>1 DEF Shared
  <2>3. /\ task'.step = "closing" /\ task'.kind = "magnetic" /\ task'.alive
        /\ task'.dev = task.dev
    BY <1>1, <1>2, <1>3 DEF Tasks, Goes
  <2>4. OneOperation'
    BY <1>2, <2>2, <2>3 DEF OneOperation
  <2>5. ~AboutToWrite' /\ ~AboutToStart' /\ owes' \subseteq owes /\ (Starting' => Starting)
    BY <1>3, <2>3 DEF AboutToWrite, AboutToStart, Starting
  <2>6. owes \subseteq {D} => owes' = {}
    BY <1>2, <1>3
  <2>7. owes \subseteq {D} => Backed' /\ EndSeen'
    BY <2>5, <2>6 DEF Backed, EndSeen, Starting
  <2>8. QED
    BY <1>1, <2>3, <2>4, <2>5, <2>7, WorkingGuards
<1>4. CASE /\ UNCHANGED <<shared, owes>>
           /\ task' = [task EXCEPT !.step = "closing", !.result = "Failed"]
  <2>1. /\ task'.step = "closing" /\ task'.kind = "magnetic" /\ task'.alive
        /\ task'.dev = task.dev
    BY <1>1, <1>2, <1>4 DEF Tasks
  <2>2. OneOperation'
    BY <1>2, <1>4, <2>1 DEF OneOperation
  <2>3. ~AboutToWrite' /\ ~AboutToStart' /\ (Starting' => Starting)
    BY <1>4, <2>1 DEF AboutToWrite, AboutToStart, Starting
  <2>4. (Backed => Backed') /\ (EndSeen => EndSeen')
    BY <1>4, <2>3 DEF Backed, EndSeen, D
  <2>5. QED
    BY <1>1, <1>4, <2>1, <2>2, <2>3, <2>4, WorkingGuards
<1>5. QED
  BY <1>3, <1>4 DEF CleansUp

\* Every step of the task.
TaskSteps == (TaskWork \/ TaskFails) /\ Elsewhere

LEMMA TaskStepsGuard ==
  ASSUME IInv, DInv, TaskSteps
  PROVE  TaskGuards /\ UNCHANGED <<view, queue, worker, released, quit>>
<1>1. TaskTypes /\ UNCHANGED <<view, queue, worker, released, quit>>
  BY DEF IInv, TypeOK, TaskSteps, Elsewhere
<1>2. worker' = worker /\ "Complete" \in Endings /\ "Stopped" \in Endings /\ "Failed" \in Endings
  BY <1>1 DEF Endings
<1>3. CASE ScanCompletes \/ WriteCompletes
  BY <1>1, <1>2, <1>3, EndsGuards DEF ScanCompletes, WriteCompletes, At
<1>4. CASE TaskStops \/ TaskFails
  BY <1>1, <1>2, <1>4, BreaksGuards DEF TaskStops, TaskFails
<1>5. CASE InspectCompletes
  BY <1>1, <1>2, <1>5, InspectCompletesGuards
<1>6. CASE WriteAnnounces \/ WriteVerifies
  BY <1>1, <1>2, <1>6, WriteAnnouncesGuards, WriteVerifiesGuards
<1>7. CASE SessionOpens \/ SessionReads \/ SessionExecutes \/ SessionVerifies
  BY <1>1, <1>2, <1>7, SessionOpensGuards, SessionReadsGuards, SessionExecutesGuards,
     SessionVerifiesGuards
<1>8. CASE CleansUp \/ SessionCloses \/ TaskFinishes
  BY <1>1, <1>2, <1>8, CleansUpGuards, SessionClosesGuards, TaskFinishesGuards
<1>9. QED
  BY <1>1, <1>3, <1>4, <1>5, <1>6, <1>7, <1>8 DEF TaskSteps, TaskWork

-----------------------------------------------------------------------------
(***************************************************************************)
(* What the panel shows for the requests on their way.                     *)
(***************************************************************************)

\* The queue of the next state is that of this one, from its entry s + 1 on.
Shifted(s) ==
  \A i \in 1..Len(queue') : i + s \in 1..Len(queue) /\ queue'[i] = queue[i + s]

LEMMA LatestKept ==
  ASSUME AllLatest, SameView, view'.pending => view.pending, NEW s \in {0, 1}, Shifted(s)
  PROVE  AllLatest'
<1> SUFFICES ASSUME NEW i \in 1..Len(queue') PROVE Latest(queue[i])'
  BY DEF AllLatest
<1>1. i + s \in 1..Len(queue) /\ queue'[i] = queue[i + s]
  BY DEF Shifted
<1>2. Latest(queue[i + s])
  BY <1>1 DEF AllLatest
<1>3. QED
  BY <1>1, <1>2 DEF Latest, SameView, Ordinary

LEMMA StopsKept ==
  ASSUME OnlyStops, NEW s \in {0, 1}, Shifted(s)
  PROVE  OnlyStops'
<1> SUFFICES ASSUME NEW i \in 1..Len(queue'), NEW j \in 1..Len(queue'), i < j,
                    queue'[i].do \in InSession, Ordinary(queue'[j])
             PROVE  queue'[j].do = "stop"
  BY DEF OnlyStops, Ordinary
<1>1. /\ i + s \in 1..Len(queue) /\ queue'[i] = queue[i + s]
      /\ j + s \in 1..Len(queue) /\ queue'[j] = queue[j + s]
  BY DEF Shifted
<1>2. i + s < j + s
  OBVIOUS
<1>3. QED
  BY <1>1, <1>2 DEF OnlyStops, Ordinary

LEMMA ShownKept ==
  ASSUME AllShown, SameView, NEW s \in {0, 1}, Shifted(s),
         \A i \in 1..Len(queue') : queue'[i].do \in InSession /\ view.pending
             /\ view.request = queue'[i].id => view'.pending,
         \A i \in 1..Len(queue') : queue'[i].do \in InSession /\ InLoop
             /\ worker.phase \in Settled /\ Alone(i + s) => InLoop' /\ worker'.phase \in Settled
  PROVE  AllShown'
<1> SUFFICES ASSUME NEW i \in 1..Len(queue'), queue'[i].do \in InSession
             PROVE  /\ Shown(queue[i])'
                    /\ view'.phase = "Operating" => InLoop' /\ worker'.phase \in Settled /\ Alone(i)'
  BY DEF AllShown
<1>1. i + s \in 1..Len(queue) /\ queue'[i] = queue[i + s]
  BY DEF Shifted
<1>2. /\ Shown(queue[i + s])
      /\ view.phase = "Operating" => InLoop /\ worker.phase \in Settled /\ Alone(i + s)
  BY <1>1 DEF AllShown
<1>3. Shown(queue[i])'
  BY <1>1, <1>2 DEF Shown, SameView
<1>4. ASSUME view'.phase = "Operating"
      PROVE  InLoop' /\ worker'.phase \in Settled /\ Alone(i)'
  <2>1. InLoop /\ worker.phase \in Settled /\ Alone(i + s)
    BY <1>2, <1>4 DEF SameView
  <2>2. InLoop' /\ worker'.phase \in Settled
    BY <2>1
  <2>3. ASSUME NEW j \in 1..Len(queue'), j < i
        PROVE  ~Ordinary(queue'[j])
    <3>1. j + s \in 1..Len(queue) /\ queue'[j] = queue[j + s]
      BY DEF Shifted
    <3>2. j + s < i + s
      BY <2>3
    <3>3. QED
      BY <2>1, <3>1, <3>2 DEF Alone
  <2>4. QED
    BY <2>2, <2>3 DEF Alone, Ordinary
<1>5. QED
  BY <1>3, <1>4

\* A step that sends nothing and publishes nothing new.
LEMMA AskedKept ==
  ASSUME Asked, SameView, view'.pending => view.pending, quit' = quit,
         NEW s \in {0, 1}, Shifted(s),
         \A i \in 1..Len(queue') : queue'[i].do \in InSession /\ view.pending
             /\ view.request = queue'[i].id => view'.pending,
         \A i \in 1..Len(queue') : queue'[i].do \in InSession /\ InLoop
             /\ worker.phase \in Settled /\ Alone(i + s) => InLoop' /\ worker'.phase \in Settled,
         Held' => worker'.req.id = worker'.cur /\ Latest(worker'.req),
         view.phase \in Settled => ~Held' /\ (InLoop' => worker'.phase \in Settled),
         NoSessionLeft', worker'.pc \in {"leaving", "gone"} => quit
  PROVE  Asked'
<1>1. AllLatest'
  BY LatestKept DEF Asked
<1>2. AllShown'
  BY ShownKept DEF Asked
<1>3. OnlyStops'
  BY StopsKept DEF Asked
<1>4. HeldIsLatest'
  BY DEF HeldIsLatest, Latest, SameView, Ordinary
<1>5. SettledIsRest'
  <2>1. ASSUME view.phase \in Settled, NEW i \in 1..Len(queue')
        PROVE  ~Ordinary(queue'[i])
    <3>1. i + s \in 1..Len(queue) /\ queue'[i] = queue[i + s]
      BY DEF Shifted
    <3>2. QED
      BY <2>1, <3>1 DEF Asked, SettledIsRest
  <2>2. QED
    BY <2>1 DEF SettledIsRest, SameView, Ordinary
<1>6. WindowOpen'
  BY DEF Asked, WindowOpen
<1>7. QED
  BY <1>1, <1>2, <1>3, <1>4, <1>5, <1>6 DEF Asked

LEMMA Unshifted ==
  ASSUME TypeOK, queue' = queue
  PROVE  Shifted(0)
<1>1. Len(queue) \in Nat
  BY Typed
<1>2. QED
  BY <1>1 DEF Shifted

LEMMA ShiftedByOne ==
  ASSUME TypeOK, queue # <<>>, queue' = Tail(queue)
  PROVE  Shifted(1)
BY Taken DEF Shifted

\* A step of the worker in its loop that leaves the queue and the view alone.
LEMMA SameAsked ==
  ASSUME IInv, Asked, UNCHANGED <<view, queue, quit>>, worker'.cur = worker.cur,
         worker'.run = worker.run, InLoop, InLoop',
         worker.phase \in Settled => worker'.phase \in Settled
  PROVE  Asked'
<1>1. Shifted(0) /\ SameView
  BY Unshifted DEF IInv, SameView
<1>2. ~Held' /\ worker'.pc \notin {"leaving", "gone"}
  BY DEF InLoop, Held
<1>3. NoSessionLeft'
  BY DEF Asked, NoSessionLeft, Current
<1>4. view.phase \in Settled => worker'.phase \in Settled
  BY DEF Asked, SettledIsRest
<1>5. QED
  BY <1>1, <1>2, <1>3, <1>4, AskedKept

\* No step of the service at all.
LEMMA NothingAsked ==
  ASSUME IInv, Asked, UNCHANGED <<view, queue, worker, quit>>
  PROVE  Asked'
<1>1. /\ AllLatest' /\ AllShown' /\ OnlyStops' /\ HeldIsLatest' /\ SettledIsRest'
      /\ NoSessionLeft' /\ WindowOpen'
  <2>1. AllLatest'
    BY DEF Asked, AllLatest, Latest, Ordinary
  <2>2. AllShown'
    BY DEF Asked, AllShown, Shown, Alone, InLoop, Ordinary
  <2>3. OnlyStops'
    BY DEF Asked, OnlyStops, Ordinary
  <2>4. HeldIsLatest'
    BY DEF Asked, HeldIsLatest, Held, Latest, Ordinary
  <2>5. SettledIsRest'
    BY DEF Asked, SettledIsRest, Held, InLoop, Ordinary
  <2>6. NoSessionLeft' /\ WindowOpen'
    BY DEF Asked, NoSessionLeft, WindowOpen, InLoop, Current
  <2>7. QED
    BY <2>1, <2>2, <2>3, <2>4, <2>5, <2>6
<1>2. QED
  BY <1>1 DEF Asked

LEMMA RecentersAsked ==
  ASSUME IInv, Asked, Recenters
  PROVE  Asked'
<1>1. /\ worker.pc = "loop" /\ queue # <<>> /\ queue' = Tail(queue)
      /\ worker'.pc = "poll" /\ SameLocals /\ SameStart /\ view' = view
  BY RecentersSays
<1>2. Shifted(1) /\ SameView
  BY <1>1, ShiftedByOne DEF IInv, SameView
<1>3. InLoop /\ InLoop' /\ ~Held' /\ worker'.phase = worker.phase
  BY <1>1 DEF InLoop, Held, SameLocals
<1>4. NoSessionLeft'
  BY <1>1, <1>3 DEF Asked, NoSessionLeft, Current, SameLocals
<1>5. view.phase \in Settled => worker'.phase \in Settled
  BY <1>3 DEF Asked, SettledIsRest
<1>6. quit' = quit /\ worker'.pc \notin {"leaving", "gone"}
  BY <1>1 DEF SameStart
<1>7. QED
  BY <1>1, <1>2, <1>3, <1>4, <1>5, <1>6, AskedKept

\* What InOrder says of the entries after the head and of those not taken.
LEMMA LaterEntries ==
  ASSUME IInv, queue # <<>>, queue' = Tail(queue)
  PROVE  /\ \A i \in 1..Len(queue') : Ordinary(Head(queue)) /\ Ordinary(queue'[i]) =>
              queue'[i].id # Head(queue).id
         /\ Head(queue).do = "shutdown" => quit /\ 1..Len(queue') = {}
<1>1. /\ Head(queue) = queue[1] /\ 1 \in 1..Len(queue) /\ Len(queue) \in Nat
      /\ \A i \in 1..Len(queue') : i + 1 \in 1..Len(queue) /\ 1 < i + 1 /\ queue'[i] = queue[i + 1]
      /\ queue \in Seq(Entries)
  BY Taken, Typed DEF IInv
<1>2. ASSUME NEW i \in 1..Len(queue'), Ordinary(Head(queue)), Ordinary(queue'[i])
      PROVE  queue'[i].id # Head(queue).id
  <2>1. i + 1 \in 1..Len(queue) /\ 1 < i + 1 /\ queue'[i] = queue[i + 1]
    BY <1>1
  <2>2. queue[1].id < queue[i + 1].id
    BY <1>1, <1>2, <2>1 DEF IInv, InOrder
  <2>3. queue[1].id \in Nat /\ queue[i + 1].id \in Nat
    BY <1>1, <2>1 DEF Entries
  <2>4. QED
    BY <1>1, <2>1, <2>2, <2>3
<1>3. ASSUME Head(queue).do = "shutdown"
      PROVE  quit /\ 1..Len(queue') = {}
  <2>1. quit /\ 1 = Len(queue)
    BY <1>1, <1>3 DEF IInv, InOrder
  <2>2. QED
    BY <1>1, <2>1
<1>4. QED
  BY <1>2, <1>3

LEMMA NotTaken ==
  ASSUME IInv, NEW i \in 1..Len(queue), Ordinary(queue[i])
  PROVE  queue[i].id # worker.cur /\ queue[i].id <= view.request /\ view.request # worker.cur
<1>1. worker.cur < queue[i].id /\ queue[i].id <= view.request
  BY DEF IInv, InOrder
<1>2. queue[i].id \in Nat /\ worker.cur \in Nat /\ view.request \in Nat
  BY Typed DEF IInv, Entries
<1>3. QED
  BY <1>1, <1>2

LEMMA WritesAreOrdinary ==
  ASSUME NEW r, r.do \in InSession
  PROVE  Ordinary(r) /\ r.do # "stop" /\ r.do # "magnetic"
BY DEF Ordinary, InSession

LEMMA CommandsAsked ==
  ASSUME IInv, Asked, Commands
  PROVE  Asked'
<1> DEFINE r == Head(queue)
<1>1. /\ worker.pc = "loop" /\ queue # <<>> /\ queue' = Tail(queue)
      /\ r.do \in InSession
      /\ worker.phase = "Magnetic"
      /\ worker'.pc = "poll" /\ worker'.cur = r.id /\ worker'.run = worker.run
      /\ worker'.phase = worker.phase
      /\ SameView
      /\ view'.pending = (view.pending /\ (view.request = r.id => Ready))
      /\ UNCHANGED <<released, quit>>
  BY CommandsSays
<1>2. /\ Shifted(1) /\ Ordinary(r) /\ r = queue[1] /\ 1 \in 1..Len(queue) /\ r.do # "stop"
  BY <1>1, ShiftedByOne, Taken, WritesAreOrdinary DEF IInv
<1>3. InLoop /\ InLoop' /\ ~Held' /\ worker.phase \notin Settled
  BY <1>1 DEF InLoop, Held, Settled
<1>4. ASSUME NEW i \in 1..Len(queue'), queue'[i].do \in InSession, view.pending,
             view.request = queue'[i].id
      PROVE  view'.pending
  <2>1. queue'[i].id # r.id
    BY <1>1, <1>2, <1>4, LaterEntries, WritesAreOrdinary
  <2>2. QED
    BY <1>1, <1>4, <2>1
<1>5. view.phase \notin Settled
  BY <1>2 DEF Asked, SettledIsRest
<1>6. NoSessionLeft'
  <2>1. Latest(r) /\ view.phase # "Operating"
    BY <1>1, <1>2, <1>3 DEF Asked, AllLatest, AllShown
  <2>2. r.id = view.request => view.phase # "Stopping"
    BY <1>2, <2>1 DEF Latest
  <2>3. QED
    BY <1>1, <2>1, <2>2 DEF NoSessionLeft, Current, SameView
<1>7. view'.pending => view.pending
  BY <1>1
<1>8. worker'.pc \notin {"leaving", "gone"}
  BY <1>1
<1>9. QED
  BY <1>1, <1>2, <1>3, <1>4, <1>5, <1>6, <1>7, <1>8, AskedKept

LEMMA TakesAsked ==
  ASSUME IInv, Asked, Takes
  PROVE  Asked'
<1> DEFINE r == Head(queue)
<1>1. /\ worker.pc = "loop" /\ queue # <<>> /\ queue' = Tail(queue) /\ r.do # "recenter"
      /\ worker'.cur = r.id /\ worker'.req = r
      /\ r.do = "shutdown" => worker'.pc = "leaving"
      /\ r.do # "shutdown" => worker'.pc \in {"joining", "begin"}
      /\ UNCHANGED <<view, released, quit>>
  BY TakesSays
<1>2. /\ Shifted(1) /\ SameView /\ r = queue[1] /\ 1 \in 1..Len(queue)
  BY <1>1, ShiftedByOne, Taken DEF IInv, SameView
<1>3. ~InLoop' /\ (Held' => r.do # "shutdown")
  BY <1>1 DEF InLoop, Held
<1>4. ASSUME NEW i \in 1..Len(queue'), Alone(i + 1)
      PROVE  FALSE
  <2>1. r.do # "shutdown"
    BY <1>1, LaterEntries
  <2>2. 1 < i + 1
    BY <1>1, Taken DEF IInv
  <2>3. ~Ordinary(r)
    BY <1>2, <1>4, <2>2 DEF Alone
  <2>4. QED
    BY <1>1, <2>1, <2>3 DEF Ordinary
<1>5. Latest(r)
  BY <1>2 DEF Asked, AllLatest
<1>6. view.phase \in Settled => ~Held'
  BY <1>1, <1>2, <1>3 DEF Asked, SettledIsRest, Ordinary
<1>7. NoSessionLeft'
  BY <1>3 DEF NoSessionLeft
<1>8. worker'.pc \in {"leaving", "gone"} => quit
  BY <1>1, LaterEntries
<1>9. /\ view'.pending = view.pending
      /\ Held' => worker'.req.id = worker'.cur /\ Latest(worker'.req)
  BY <1>1, <1>5
<1>10. QED
  BY <1>1, <1>2, <1>3, <1>4, <1>6, <1>7, <1>8, <1>9, AskedKept

LEMMA JoinsAsked ==
  ASSUME IInv, Asked, Joins
  PROVE  Asked'
<1>1. /\ worker.pc = "joining"
      /\ worker'.cur = worker.cur /\ worker'.run = NoDevice
      /\ \/ worker'.pc = "poll" /\ worker'.phase = "Failed"
         \/ worker'.pc = "begin" /\ worker'.req = worker.req
      /\ SameView
      /\ Retired.pending = (view.pending /\ (worker.run # NoDevice /\ view.request = worker.cur => Busy))
      /\ view'.pending = Retired.pending \/ (view.request = worker.cur /\ view'.pending = FALSE)
      /\ UNCHANGED <<queue, quit>>
  BY JoinsSays
<1>2. Shifted(0) /\ view.pending \in BOOLEAN
  BY <1>1, Unshifted, Typed DEF IInv
<1>3. Held /\ ~InLoop /\ view.phase \notin Settled
  BY <1>1 DEF Held, InLoop, Asked, SettledIsRest
<1>4. ASSUME NEW i \in 1..Len(queue'), queue'[i].do \in InSession, view.pending,
             view.request = queue'[i].id
      PROVE  view'.pending
  <2>1. view.request # worker.cur
    BY <1>1, <1>4, NotTaken, WritesAreOrdinary
  <2>2. QED
    BY <1>1, <1>4, <2>1
<1>5. NoSessionLeft'
  BY <1>1 DEF NoSessionLeft
<1>6. view'.pending => view.pending
  BY <1>1, <1>2
<1>7. Held' => worker'.req.id = worker'.cur /\ Latest(worker'.req)
  BY <1>1, <1>3 DEF Asked, HeldIsLatest, Held
<1>8. worker'.pc \notin {"leaving", "gone"}
  BY <1>1
<1>9. QED
  BY <1>1, <1>2, <1>3, <1>4, <1>5, <1>6, <1>7, <1>8, AskedKept

LEMMA BeginsAsked ==
  ASSUME IInv, DInv, Asked, Begins
  PROVE  Asked'
<1>1. /\ worker.pc = "begin" /\ worker'.pc = "poll" /\ worker'.cur = worker.cur
      /\ UNCHANGED <<queue, quit>>
      /\ BeginsStop \/ BeginsNothing \/ BeginsTask
      /\ worker.run = NoDevice /\ Ordinary(worker.req)
  BY BeginsSays DEF DInv, OneDevice
<1>2. Shifted(0) /\ view.pending \in BOOLEAN
  BY <1>1, Unshifted, Typed DEF IInv
<1>3. Held /\ ~InLoop /\ ~Held' /\ view.phase \notin Settled
  BY <1>1 DEF Held, InLoop, Asked, SettledIsRest
<1>4. /\ SameView /\ (view'.pending => view.pending)
      /\ view.request # worker.cur => view'.pending = view.pending
      /\ worker'.run # NoDevice => worker.req.do = "magnetic"
  <2>1. CASE BeginsStop
    BY <1>1, <2>1 DEF BeginsStop, SameView
  <2>2. CASE BeginsNothing
    BY <1>1, <1>2, <2>2 DEF BeginsNothing
  <2>3. CASE BeginsTask
    BY <2>3 DEF BeginsTask
  <2>4. QED
    BY <1>1, <2>1, <2>2, <2>3
<1>5. ASSUME NEW i \in 1..Len(queue'), queue'[i].do \in InSession, view.pending,
             view.request = queue'[i].id
      PROVE  view'.pending
  <2>1. view.request # worker.cur
    BY <1>1, <1>5, NotTaken, WritesAreOrdinary
  <2>2. QED
    BY <1>4, <1>5, <2>1
<1>6. NoSessionLeft'
  <2>1. worker.req.id = worker.cur /\ Latest(worker.req)
    BY <1>3 DEF Asked, HeldIsLatest
  <2>2. worker.req.do = "magnetic" /\ Current => view.phase = "Magnetic"
    BY <1>1, <2>1 DEF Latest, Current
  <2>3. QED
    BY <1>1, <1>4, <2>2 DEF NoSessionLeft, Current, SameView
<1>7. worker'.pc \notin {"leaving", "gone"}
  BY <1>1
<1>8. QED
  BY <1>1, <1>2, <1>3, <1>4, <1>5, <1>6, <1>7, AskedKept

LEMMA LeavesAsked ==
  ASSUME IInv, Asked, Leaves
  PROVE  Asked'
<1>1. /\ worker.pc = "leaving" /\ worker'.pc = "gone"
      /\ UNCHANGED <<view, queue, quit>>
  BY LeavesSays
<1>2. Shifted(0) /\ SameView
  BY <1>1, Unshifted DEF IInv, SameView
<1>3. ~InLoop /\ ~InLoop' /\ ~Held' /\ quit
  BY <1>1 DEF Held, InLoop, Asked, WindowOpen
<1>4. NoSessionLeft'
  BY <1>3 DEF NoSessionLeft
<1>5. QED
  BY <1>1, <1>2, <1>3, <1>4, AskedKept

LEMMA LoopAsked ==
  ASSUME IInv, DInv, Asked, Waits \/ Polls \/ Absorbs \/ AppliesOn \/ Connects
  PROVE  Asked'
<1>1. CASE Waits
  BY <1>1, WaitsSays, SameAsked DEF SameLocals, InLoop
<1>2. CASE Polls
  BY <1>2, PollsSays, SameAsked DEF InLoop, Settled
<1>3. CASE Absorbs
  BY <1>3, AbsorbsSays, SameAsked DEF SameLocals, InLoop
<1>4. CASE AppliesOn \/ Connects
  <2>1. /\ worker.pc = "poll" /\ worker'.pc = "absorb"
        /\ worker.apply # "none" \/ worker.connect # NoDevice
        /\ worker'.cur = worker.cur /\ worker'.run = worker.run
        /\ UNCHANGED <<view, queue, quit>>
    BY <1>4, GoesOnSays
  <2>2. InLoop /\ InLoop'
    BY <2>1 DEF InLoop
  <2>3. worker.phase \notin Settled
    BY <2>1, <2>2 DEF DInv, OneDevice
  <2>4. QED
    BY <2>1, <2>2, <2>3, SameAsked
<1>5. QED
  BY <1>1, <1>2, <1>3, <1>4

LEMMA PublishesAsked ==
  ASSUME IInv, DInv, Asked, Publishes
  PROVE  Asked'
<1>1. /\ worker.pc = "publish" /\ worker'.pc = "loop" /\ SameLocals
      /\ view'.request = view.request
      /\ ~Current => view' = view
      /\ Current => /\ view'.phase = worker.phase
                    /\ view'.pending = (view.pending /\ (worker.run # NoDevice => worker.busy))
      /\ UNCHANGED <<queue, quit>>
  BY PublishesSays
<1>2. InLoop /\ InLoop' /\ ~Held'
  BY <1>1 DEF InLoop, Held
<1>3. CASE ~Current
  BY <1>1, <1>2, <1>3, SameAsked DEF SameLocals
<1>4. CASE Current
  <2>1. \A i \in 1..Len(queue') : ~Ordinary(queue'[i])
    BY <1>1, <1>4, NotTaken DEF Current
  <2>2. \A i \in 1..Len(queue') : queue'[i].do \notin InSession
    BY <2>1, WritesAreOrdinary
  <2>3. AllLatest' /\ AllShown' /\ OnlyStops'
    BY <2>1, <2>2 DEF AllLatest, Latest, AllShown, OnlyStops, Ordinary
  <2>4. HeldIsLatest' /\ SettledIsRest'
    BY <1>1, <1>2, <1>4, <2>1 DEF HeldIsLatest, SettledIsRest, SameLocals, Ordinary
  <2>5. NoSessionLeft'
    <3>1. worker.run # NoDevice => worker.phase \notin {"Operating", "Stopping"}
      BY <1>2 DEF DInv, OneDevice
    <3>2. QED
      BY <1>1, <1>4, <3>1 DEF NoSessionLeft, SameLocals
  <2>6. WindowOpen'
    <3>1. view.pending \in BOOLEAN
      BY Typed DEF IInv
    <3>2. QED
      BY <1>1, <1>4, <3>1 DEF Asked, WindowOpen
  <2>7. QED
    BY <2>3, <2>4, <2>5, <2>6 DEF Asked
<1>5. QED
  BY <1>3, <1>4

\* A recenter and a shutdown are no requests of the panel's.
LEMMA AppendedAsked ==
  ASSUME IInv, Asked, UNCHANGED <<view, worker>>, Len(queue) \in Nat,
         \A i \in 1..Len(queue') : i \in 1..Len(queue) \/ i = Len(queue) + 1,
         \A i \in 1..Len(queue) : queue'[i] = queue[i],
         queue'[Len(queue) + 1].do \in {"recenter", "shutdown"},
         quit' => quit \/ ~view.pending, quit => quit'
  PROVE  Asked'
<1>1. /\ ~Ordinary(queue'[Len(queue) + 1]) /\ queue'[Len(queue) + 1].do \notin InSession
  BY DEF Ordinary, InSession
<1>2. \A i \in 1..Len(queue') : Ordinary(queue'[i]) \/ queue'[i].do \in InSession =>
        i \in 1..Len(queue) /\ queue'[i] = queue[i]
  BY <1>1
<1>3. AllLatest'
  BY <1>2 DEF Asked, AllLatest, Latest, Ordinary
<1>4. AllShown'
  <2> SUFFICES ASSUME NEW i \in 1..Len(queue'), queue'[i].do \in InSession
               PROVE  /\ Shown(queue[i])'
                      /\ view'.phase = "Operating" => InLoop' /\ worker'.phase \in Settled /\ Alone(i)'
    BY DEF AllShown
  <2>1. i \in 1..Len(queue) /\ queue'[i] = queue[i]
    BY <1>2
  <2>2. /\ Shown(queue[i])
        /\ view.phase = "Operating" => InLoop /\ worker.phase \in Settled /\ Alone(i)
    BY <2>1 DEF Asked, AllShown
  <2>3. Alone(i) => Alone(i)'
    BY <1>2 DEF Alone, Ordinary
  <2>4. QED
    BY <2>1, <2>2, <2>3 DEF Shown, InLoop
<1>5. OnlyStops'
  BY <1>2 DEF Asked, OnlyStops, Ordinary
<1>6. HeldIsLatest'
  BY DEF Asked, HeldIsLatest, Held, Latest, Ordinary
<1>7. SettledIsRest'
  BY <1>2 DEF Asked, SettledIsRest, Held, InLoop, Ordinary
<1>8. NoSessionLeft' /\ WindowOpen'
  BY DEF Asked, NoSessionLeft, WindowOpen, InLoop, Current
<1>9. QED
  BY <1>3, <1>4, <1>5, <1>6, <1>7, <1>8 DEF Asked

LEMMA QuitAsked ==
  ASSUME IInv, Asked, Quit
  PROVE  Asked'
BY QuitSays, AppendedAsked

LEMMA SendAsked ==
  ASSUME IInv, Asked, NEW c \in Requests, Send(c)
  PROVE  Asked'
<1>0. PICK n \in Nat : n = Len(queue) + 1
  BY Typed DEF IInv
<1>1. /\ ~quit /\ UNCHANGED <<worker, quit>> /\ Len(queue) \in Nat
      /\ \A i \in 1..Len(queue') : i \in 1..Len(queue) \/ i = n
      /\ \A i \in 1..Len(queue) : queue'[i] = queue[i]
      /\ queue'[n].do = c.do /\ queue'[n].dev = c.dev
      /\ queue'[n].id = view'.request
      /\ \/ c.do = "recenter" /\ view' = view /\ view.phase = "Tracking"
         \/ /\ c.do # "recenter" /\ view'.request = view.request + 1
            /\ SendsStop(c) \/ SendsWrite(c) \/ SendsNew(c)
  BY <1>0, SendSays
<1>2. CASE c.do = "recenter"
  BY <1>0, <1>1, <1>2, AppendedAsked
<1>3. CASE c.do # "recenter"
  <2>1. /\ view'.request = view.request + 1 /\ view.request \in Nat /\ worker.cur \in Nat
        /\ worker.cur <= view.request
    BY <1>1, <1>3, Typed DEF IInv, InOrder
  <2>2. ASSUME NEW i \in 1..Len(queue), Ordinary(queue[i])
        PROVE  queue[i].id # view'.request
    <3>1. queue[i].id <= view.request /\ queue[i].id \in Nat
      BY <2>2, NotTaken, Typed DEF IInv, Entries
    <3>2. QED
      BY <2>1, <3>1
  <2>3. /\ ~Current' /\ worker'.pc \notin {"leaving", "gone"}
    BY <1>1, <2>1 DEF Current, Asked, WindowOpen
  <2>4. NoSessionLeft' /\ WindowOpen'
    BY <1>1, <2>3 DEF NoSessionLeft, WindowOpen
  <2>5. HeldIsLatest'
    <3>1. Held => worker.req.id = worker.cur
      BY DEF Asked, HeldIsLatest
    <3>2. Held => worker.req.id # view'.request
      BY <2>1, <3>1
    <3>3. QED
      BY <1>1, <3>1, <3>2 DEF HeldIsLatest, Held, Latest
  \* What is left to say of each kind of request.
  <2>6. ASSUME Latest(queue[n])', view'.phase \notin Settled,
               OnlyStops',
               \A i \in 1..Len(queue') : queue'[i].do \in InSession =>
                 /\ Shown(queue[i])'
                 /\ view'.phase = "Operating" => InLoop' /\ worker'.phase \in Settled /\ Alone(i)'
        PROVE  Asked'
    <3>1. ASSUME NEW i \in 1..Len(queue')
          PROVE  Latest(queue[i])'
      <4>1. CASE i \in 1..Len(queue)
        <5>1. queue'[i] = queue[i]
          BY <1>1, <4>1
        <5>2. QED
          BY <2>2, <4>1, <5>1 DEF Latest, Ordinary
      <4>2. CASE i = n
        BY <2>6, <4>2
      <4>3. QED
        BY <1>1, <4>1, <4>2
    <3>2. AllLatest'
      BY <3>1 DEF AllLatest
    <3>3. AllShown'
      BY <2>6 DEF AllShown
    <3>4. SettledIsRest'
      BY <2>6 DEF SettledIsRest
    <3>5. QED
      BY <2>4, <2>5, <2>6, <3>2, <3>3, <3>4 DEF Asked
  <2>7. CASE SendsStop(c)
    <3>1. /\ c.do = "stop" /\ view'.phase = "Stopping" /\ view'.device = view.device
          /\ view'.pending = FALSE
      BY <2>7 DEF SendsStop
    <3>2. Latest(queue[n])' /\ view'.phase \notin Settled
      BY <1>1, <3>1 DEF Latest, Settled
    <3>3. \A i \in 1..Len(queue') : queue'[i].do \in InSession =>
            i \in 1..Len(queue) /\ queue'[i] = queue[i]
      BY <1>1, <3>1 DEF InSession
    <3>4. ASSUME NEW i \in 1..Len(queue'), NEW j \in 1..Len(queue'), i < j,
                 queue'[i].do \in InSession, Ordinary(queue'[j])
          PROVE  queue'[j].do = "stop"
      <4>1. CASE j = n
        BY <1>1, <3>1, <4>1
      <4>2. CASE j \in 1..Len(queue)
        BY <1>1, <3>3, <3>4, <4>2 DEF Asked, OnlyStops, Ordinary
      <4>3. QED
        BY <1>1, <4>1, <4>2
    <3>5. OnlyStops'
      BY <3>4 DEF OnlyStops, Ordinary
    <3>6. ASSUME NEW i \in 1..Len(queue'), queue'[i].do \in InSession
          PROVE  Shown(queue[i])'
      <4>1. Shown(queue[i]) /\ queue'[i] = queue[i]
        BY <3>3, <3>6 DEF Asked, AllShown
      <4>2. QED
        BY <3>1, <4>1 DEF Shown
    <3>7. QED
      BY <2>6, <3>1, <3>2, <3>5, <3>6
  <2>8. CASE SendsWrite(c)
    <3>1. /\ c.do \in InSession /\ ~view.pending /\ view.phase = "Magnetic"
          /\ view'.phase = "Magnetic" /\ view'.device = c.dev /\ view'.pending = TRUE
      BY <2>8 DEF SendsWrite
    <3>2. Latest(queue[n])' /\ view'.phase \notin Settled
      BY <1>1, <3>1, WritesAreOrdinary DEF Latest, Settled
    <3>3. \A i \in 1..Len(queue) : queue[i].do \notin InSession
      BY <3>1 DEF Asked, AllShown, Shown
    <3>4. \A i \in 1..Len(queue') : queue'[i].do \in InSession => i = n
      BY <1>1, <3>3
    <3>5. OnlyStops'
      BY <1>0, <1>1, <3>4 DEF OnlyStops, Ordinary
    <3>6. Shown(queue[n])'
      BY <1>1, <3>1 DEF Shown
    <3>7. QED
      BY <2>6, <3>1, <3>2, <3>4, <3>5, <3>6
  <2>9. CASE SendsNew(c)
    <3>1. /\ view.phase \in Settled /\ view'.pending = FALSE
          /\ view'.phase \notin {"Idle", "Failed", "Stopping"}
          /\ c.do \in InSession => view'.phase = "Operating" /\ view'.device = c.dev
          /\ c.do = "magnetic" => view'.phase = "Magnetic"
      BY <2>9 DEF SendsNew
    <3>2. Latest(queue[n])' /\ view'.phase \notin Settled
      BY <1>1, <3>1 DEF Latest, Settled
    <3>3. /\ ~Held /\ (InLoop => worker.phase \in Settled)
          /\ \A i \in 1..Len(queue) : ~Ordinary(queue[i])
      BY <3>1 DEF Asked, SettledIsRest
    <3>4. InLoop
      <4>1. worker.pc \in {"loop", "joining", "begin", "leaving", "gone", "poll", "absorb", "publish"}
        BY Typed DEF IInv, Workers
      <4>2. QED
        BY <1>1, <2>3, <3>3, <4>1 DEF InLoop, Held
    <3>5. \A i \in 1..Len(queue') : Ordinary(queue'[i]) => i = n
      BY <1>1, <3>3
    <3>6. \A i \in 1..Len(queue') : queue'[i].do \in InSession => i = n
      BY <3>5, WritesAreOrdinary
    <3>7. OnlyStops'
      BY <1>1, <3>5, <3>6 DEF OnlyStops, Ordinary
    <3>8. queue'[n].do \in InSession => Shown(queue[n])'
      BY <1>1, <3>1 DEF Shown
    <3>9. Alone(n)'
      BY <1>1, <3>5 DEF Alone, Ordinary
    <3>10. InLoop' /\ worker'.phase \in Settled
      BY <1>1, <3>3, <3>4 DEF InLoop
    <3>11. QED
      BY <2>6, <3>2, <3>6, <3>7, <3>8, <3>9, <3>10
  <2>10. QED
    BY <1>1, <1>3, <2>7, <2>8, <2>9
<1>4. QED
  BY <1>2, <1>3

LEMMA NextAsked ==
  ASSUME IInv, DInv, Asked, [Next]_vars
  PROVE  Asked'
<1>1. ASSUME NEW c \in Requests, Send(c) PROVE Asked'
  BY <1>1, SendAsked
<1>2. CASE Quit
  BY <1>2, QuitAsked
<1>3. CASE Recenters \/ Commands \/ Takes \/ Joins \/ Begins \/ Leaves
  BY <1>3, RecentersAsked, CommandsAsked, TakesAsked, JoinsAsked, BeginsAsked, LeavesAsked
<1>4. CASE Waits \/ AppliesOn \/ Connects \/ Polls \/ Absorbs \/ Publishes
  BY <1>4, LoopAsked, PublishesAsked
<1>5. CASE TaskSteps
  BY <1>5, TaskStepsGuard, NothingAsked
<1>6. CASE OtherProgram \/ UNCHANGED vars
  BY <1>6, NothingAsked DEF OtherProgram, vars
<1>7. QED
  BY <1>1, <1>2, <1>3, <1>4, <1>5, <1>6 DEF Next, Work, Task, TaskSteps

-----------------------------------------------------------------------------
(***************************************************************************)
(* Who may start, and what guards a start.                                 *)
(***************************************************************************)

LEMMA StartingDevice ==
  ASSUME IInv, DInv, Guarded, Starting
  PROVE  D \in Devices /\ D # NoDevice
<1>1. /\ owes \subseteq Devices /\ NoDevice \notin Devices
      /\ task.alive /\ task.kind # "scan" => task.dev \in Devices
  BY Typed DEF IInv, TypeOK, TaskTypes
<1>2. CASE owes # {}
  BY <1>1, <1>2 DEF Guarded
<1>3. CASE AboutToStart
  BY <1>1, <1>3 DEF AboutToStart, AboutToWrite, DInv, OneDevice, Quiet
<1>4. QED
  BY <1>2, <1>3, <1>1 DEF Starting

\* A start under way that is not announced yet is that of a command, or of a session.
LEMMA AboutToSays ==
  ASSUME IInv, DInv, AboutToStart
  PROVE  /\ ~Quiet /\ shared.state \notin {"Complete", "Stopped", "Failed"} /\ Starting
         /\ worker.run = NoDevice => AboutToWrite
         /\ worker.run # NoDevice => ~AboutToWrite /\ Busy
<1>1. ~Quiet /\ task.alive /\ Starting
  BY DEF AboutToStart, AboutToWrite, Quiet, Starting
<1>2. shared.state \notin {"Complete", "Stopped", "Failed"}
  BY <1>1 DEF IInv, EndIsLast, DInv, OneOperation
<1>3. task.kind = "magnetic" <=> worker.run # NoDevice
  BY <1>1 DEF DInv, OneDevice
<1>4. worker.run = NoDevice => AboutToWrite
  BY <1>3 DEF AboutToStart
<1>5. worker.run # NoDevice => ~AboutToWrite /\ Busy
  BY <1>3 DEF AboutToStart, AboutToWrite, DInv, OneOperation, Busy
<1>6. QED
  BY <1>1, <1>2, <1>4, <1>5

LEMMA OthersKept ==
  ASSUME Excluded, NEW s \in {0, 1}, Shifted(s), Starting' => Starting,
         Starting' => D' = D /\ (Latched => Latched')
  PROVE  \A i \in 1..Len(queue') : NoOther(queue[i])'
<1> SUFFICES ASSUME NEW i \in 1..Len(queue')
             PROVE  NoOther(queue[i])'
  OBVIOUS
<1>1. i + s \in 1..Len(queue) /\ queue'[i] = queue[i + s]
  BY DEF Shifted
<1>2. NoOther(queue[i + s])
  BY <1>1 DEF Excluded
<1>3. QED
  BY <1>1, <1>2 DEF NoOther, Ordinary, Latched

\* As long as a start under way is latched, the rest follows.
LEMMA LatchedIsSecured ==
  ASSUME \A i \in 1..Len(queue') : NoOther(queue[i])', ~Held',
         owes' \subseteq {D'}, Starting' => Latched', EndSeen',
         worker'.pc \in {"absorb", "publish"} /\ Ended(worker'.snap.op) => ~Starting'
  PROVE  Secured'
<1>1. Excluded'
  BY DEF Excluded
<1>2. Guarded'
  BY DEF Guarded, Backed, Starting
<1>3. Reported'
  BY DEF Reported, Starting, AboutToStart
<1>4. QED
  BY <1>1, <1>2, <1>3 DEF Secured

\* A step of which the worker and the panel take no part.
LEMMA ElsewhereSecured ==
  ASSUME Secured, TaskGuards, UNCHANGED <<view, queue, worker>>
  PROVE  Secured'
<1>1. /\ Starting' => Starting
      /\ AboutToWrite' => AboutToWrite
      /\ owes' \subseteq {D'} /\ EndSeen' /\ (Backed => Backed')
      /\ D' = D /\ (Latched' <=> Latched)
  BY DEF TaskGuards, Secured, Guarded, Reported, D, Latched
<1>2. /\ \A i \in 1..Len(queue) : NoOther(queue[i])
      /\ Held => NoOther(worker.req)
  BY DEF Secured, Excluded
<1>3. /\ \A i \in 1..Len(queue') : NoOther(queue[i])'
      /\ Held' => NoOther(worker.req)'
  BY <1>1, <1>2 DEF NoOther, Ordinary, Held
<1>4. /\ Held' /\ worker'.req.do \in InSession =>
           /\ Shown(worker.req)'
           /\ \A i \in 1..Len(queue') : Ordinary(queue'[i]) => queue'[i].do = "stop"
      /\ Starting' /\ (worker'.apply # "none" \/ worker'.connect # NoDevice) => Latched'
  BY <1>1 DEF Secured, Excluded, Held, Shown, Ordinary
<1>5. Excluded'
  BY <1>3, <1>4 DEF Excluded, Ordinary
<1>6. Guarded'
  BY <1>1 DEF Secured, Guarded, Current
<1>7. Reported'
  BY <1>1 DEF Secured, Reported, InLoop
<1>8. QED
  BY <1>5, <1>6, <1>7 DEF Secured

\* No step of the task: what it does stays.
LEMMA SameTask ==
  ASSUME task'.alive = task.alive, task'.kind = task.kind, task'.step = task.step,
         task'.do = task.do, shared'.op = shared.op, shared'.chan = shared.chan, owes' = owes
  PROVE  /\ Starting' <=> Starting
         /\ AboutToWrite' <=> AboutToWrite
         /\ EndSeen' <=> EndSeen
<1>1. /\ Starting' <=> Starting
      /\ AboutToWrite' <=> AboutToWrite
  BY DEF Starting, AboutToStart, AboutToWrite
<1>2. QED
  BY <1>1 DEF EndSeen

LEMMA NoTaskStarts ==
  ASSUME ~task'.alive, shared'.op = shared.op, owes' = owes
  PROVE  /\ Starting' <=> owes # {}
         /\ Starting' => Starting
         /\ ~AboutToWrite'
         /\ EndSeen => EndSeen'
<1>1. ~AboutToWrite' /\ ~AboutToStart'
  BY DEF AboutToStart, AboutToWrite
<1>2. QED
  BY <1>1 DEF Starting, EndSeen

\* The worker moves on in its loop with what it has.
LEMMA MovesOnSecured ==
  ASSUME IInv, Secured, SameLocals, UNCHANGED <<view, taskVars>>, InLoop, worker'.pc = "poll",
         NEW s \in {0, 1}, Shifted(s)
  PROVE  Secured'
<1>1. /\ Starting' <=> Starting
      /\ AboutToWrite' <=> AboutToWrite
      /\ EndSeen' <=> EndSeen
      /\ D' = D /\ (Latched' <=> Latched)
  BY SameTask DEF taskVars, SameLocals, D, Latched
<1>2. \A i \in 1..Len(queue') : NoOther(queue[i])'
  BY <1>1, OthersKept DEF Secured
<1>3. ~Held'
  BY DEF Held
<1>4. Excluded'
  BY <1>1, <1>2, <1>3 DEF Secured, Excluded, SameLocals
<1>5. Guarded'
  <2>1. Backed => Backed'
    BY DEF Backed, D, SameLocals, taskVars
  <2>2. QED
    BY <1>1, <2>1 DEF Secured, Guarded, Current, SameLocals, taskVars
<1>6. Reported'
  BY <1>1 DEF Secured, Reported, SameLocals
<1>7. QED
  BY <1>4, <1>5, <1>6 DEF Secured

LEMMA RecentersSecured ==
  ASSUME IInv, Secured, Recenters \/ Waits
  PROVE  Secured'
<1>1. CASE Recenters
  <2>1. Shifted(1)
    BY <1>1, RecentersSays, ShiftedByOne DEF IInv
  <2>2. QED
    BY <1>1, <2>1, RecentersSays, MovesOnSecured DEF SameStart, InLoop
<1>2. CASE Waits
  <2>1. Shifted(0)
    BY <1>2, WaitsSays, Unshifted DEF IInv
  <2>2. QED
    BY <1>2, <2>1, WaitsSays, MovesOnSecured DEF InLoop
<1>3. QED
  BY <1>1, <1>2

LEMMA AbsorbsSecured ==
  ASSUME IInv, DInv, Secured, Absorbs
  PROVE  Secured'
<1>1. /\ worker.pc = "absorb" /\ worker'.pc = "publish" /\ SameLocals
      /\ worker'.snap = worker.snap
      /\ worker'.may = (worker.run # NoDevice /\ May)
      /\ worker'.busy = (worker.run # NoDevice /\ Busy)
      /\ UNCHANGED <<view, queue, taskVars, released, quit>>
  BY AbsorbsSays
<1>2. /\ Starting' <=> Starting
      /\ AboutToWrite' <=> AboutToWrite
      /\ EndSeen' <=> EndSeen
      /\ D' = D /\ (Latched' <=> Latched) /\ worker'.run = worker.run
  BY <1>1, SameTask DEF taskVars, SameLocals, D, Latched
<1>3. Shifted(0) /\ ~Held' /\ InLoop
  BY <1>1, Unshifted DEF IInv, Held, InLoop
<1>4. \A i \in 1..Len(queue') : NoOther(queue[i])'
  BY <1>2, <1>3, OthersKept DEF Secured
<1>5. Excluded'
  BY <1>1, <1>2, <1>3, <1>4 DEF Secured, Excluded, SameLocals
<1>6. Backed => Backed'
  BY <1>1 DEF Backed, D, SameLocals, taskVars
<1>7. Guarded'
  BY <1>1, <1>2, <1>6 DEF Secured, Guarded, Current, SameLocals, taskVars
<1>8. ASSUME Starting, ~Latched, worker.run # NoDevice
      PROVE  May \/ Busy
  <2>1. CASE owes # {}
    BY <1>8, <2>1 DEF Secured, Guarded, Backed, May
  <2>2. CASE AboutToStart
    BY <1>8, <2>2, AboutToSays
  <2>3. QED
    BY <1>8, <2>1, <2>2 DEF Starting
<1>9. worker.run # NoDevice /\ (May \/ Busy) => worker'.may \/ worker'.busy
  BY <1>1
<1>10. Reported'
  <2>1. EndSeen' /\ (Ended(worker'.snap.op) => ~Starting')
    BY <1>1, <1>2 DEF Secured, Reported
  <2>2. InLoop' /\ AboutToWrite' /\ ~Latched' => worker'.phase = "Operating"
    BY <1>1, <1>2, <1>3 DEF Secured, Reported, SameLocals
  <2>3. Starting' /\ ~Latched' /\ worker'.run = NoDevice =>
          Seen(worker'.snap.op) \/ worker'.phase = "Operating"
    BY <1>1, <1>2 DEF Secured, Reported, SameLocals
  <2>4. Starting' /\ ~Latched' /\ worker'.run # NoDevice => worker'.may \/ worker'.busy
    BY <1>2, <1>8, <1>9
  <2>5. QED
    BY <2>1, <2>2, <2>3, <2>4 DEF Reported
<1>11. QED
  BY <1>5, <1>7, <1>10 DEF Secured

LEMMA PollsSecured ==
  ASSUME IInv, DInv, Secured, Polls
  PROVE  Secured'
<1>1. /\ worker.pc = "poll" /\ worker'.pc = "absorb"
      /\ worker'.apply = "none" /\ worker'.connect = NoDevice
      /\ worker'.cur = worker.cur /\ worker'.device = worker.device /\ worker'.run = worker.run
      /\ worker'.phase \in {worker.phase, "Idle", "Failed"}
      /\ worker'.phase = "Idle" => worker.phase = "Idle" \/ shared.state \in {"Complete", "Stopped"}
      /\ worker'.phase = "Failed" => worker.phase = "Failed" \/ shared.state = "Failed"
      /\ worker'.snap.op = shared.op
      /\ UNCHANGED <<view, queue, taskVars, released, quit>>
  BY PollsSays
<1>2. /\ Starting' <=> Starting
      /\ AboutToWrite' <=> AboutToWrite
      /\ EndSeen' <=> EndSeen
      /\ D' = D /\ (Latched' <=> Latched)
  BY <1>1, SameTask DEF taskVars, D, Latched
<1>3. Shifted(0) /\ ~Held' /\ InLoop
  BY <1>1, Unshifted DEF IInv, Held, InLoop
<1>4. \A i \in 1..Len(queue') : NoOther(queue[i])'
  BY <1>2, <1>3, OthersKept DEF Secured
<1>5. Excluded'
  BY <1>1, <1>3, <1>4 DEF Excluded
<1>6. Backed => Backed'
  BY <1>1 DEF Backed, D, taskVars
<1>7. Guarded'
  BY <1>1, <1>2, <1>6 DEF Secured, Guarded, Current, taskVars
<1>8. ASSUME AboutToWrite, ~Latched
      PROVE  worker'.phase = "Operating"
  <2>1. worker.phase = "Operating"
    BY <1>3, <1>8 DEF Secured, Reported
  <2>2. shared.state \notin {"Complete", "Stopped", "Failed"}
    BY <1>8, AboutToSays DEF AboutToStart
  <2>3. QED
    BY <1>1, <2>1, <2>2
<1>9. ASSUME Starting, ~Latched, worker.run = NoDevice
      PROVE  Seen(shared.op) \/ worker'.phase = "Operating"
  <2>1. CASE owes # {}
    <3>1. D # NoDevice
      BY <1>9, StartingDevice DEF Secured
    <3>2. QED
      BY <1>9, <2>1, <3>1 DEF Secured, Guarded, Backed, Seen
  <2>2. CASE AboutToStart
    BY <1>8, <1>9, <2>2, AboutToSays
  <2>3. QED
    BY <1>9, <2>1, <2>2 DEF Starting
<1>10. Reported'
  <2>1. EndSeen' /\ (Ended(worker'.snap.op) => ~Starting')
    BY <1>1, <1>2 DEF Secured, Reported, EndSeen
  <2>2. QED
    BY <1>1, <1>2, <1>8, <1>9, <2>1 DEF Reported
<1>11. QED
  BY <1>5, <1>7, <1>10 DEF Secured

LEMMA GoesOnSecured ==
  ASSUME IInv, DInv, Secured, AppliesOn \/ Connects
  PROVE  Secured'
<1>1. /\ worker.pc = "poll" /\ worker'.pc = "absorb"
      /\ worker.apply # "none" \/ worker.connect # NoDevice
      /\ worker'.cur = worker.cur /\ worker'.device = worker.device /\ worker'.run = worker.run
      /\ worker'.snap.op = shared'.op
      /\ UNCHANGED <<view, queue, calsw, owes, released, quit>>
      /\ StaysWaiting \/ WaitingIsOver \/ WaitingGoesOn
  BY GoesOnSays
<1>2. /\ Starting' => Starting
      /\ EndSeen => EndSeen'
  <2>1. CASE StaysWaiting
    BY <1>1, <2>1, SameTask DEF StaysWaiting
  <2>2. CASE WaitingIsOver
    BY <1>1, <2>2, NoTaskStarts, NoTaskIsATask DEF WaitingIsOver
  <2>3. CASE WaitingGoesOn
    <3>1. PICK s \in Shared, do \in {"other", "inspect", "track"}, d \in Devices :
            s.op = shared.op /\ shared' = Started(s, do) /\ task' = Launched(do, d)
      BY <2>3 DEF WaitingGoesOn
    <3>2. do \in OnDevice \cup {"scan", "track"} /\ d \in Devs
      BY DEF OnDevice, Devs
    <3>3. /\ task'.kind = KindOf(do) /\ task'.do = do
          /\ KindOf(do) = "magnetic" <=> do = "magnetic"
          /\ shared'.op = shared.op \/ shared'.op.outcome # "Succeeded"
      BY <3>1, <3>2, StartSays
    <3>4. ~AboutToStart'
      BY <3>3 DEF AboutToStart, AboutToWrite
    <3>5. QED
      BY <1>1, <3>3, <3>4 DEF Starting, EndSeen, Ended
  <2>4. QED
    BY <1>1, <2>1, <2>2, <2>3
<1>3. D' = D /\ (Latched' <=> Latched) /\ ~Held' /\ Shifted(0)
  BY <1>1, Unshifted DEF D, Latched, Held, IInv
<1>4. Starting' => Latched'
  BY <1>1, <1>2, <1>3 DEF Secured, Excluded
<1>5. \A i \in 1..Len(queue') : NoOther(queue[i])'
  BY <1>2, <1>3, OthersKept DEF Secured
<1>6. owes' \subseteq {D'} /\ EndSeen'
  BY <1>1, <1>2, <1>3 DEF Secured, Guarded, Reported
<1>7. Ended(worker'.snap.op) => ~Starting'
  BY <1>1, <1>6 DEF EndSeen
<1>8. QED
  BY <1>3, <1>4, <1>5, <1>6, <1>7, LatchedIsSecured

LEMMA PublishesSecured ==
  ASSUME IInv, DInv, Asked, Secured, Publishes
  PROVE  Secured'
<1>1. /\ worker.pc = "publish" /\ worker'.pc = "loop" /\ SameLocals
      /\ view'.request = view.request /\ view'.device = view.device
      /\ ~Current => view' = view
      /\ Current => /\ view'.phase = worker.phase
                    /\ view'.pending = (view.pending /\ (worker.run # NoDevice => worker.busy))
      /\ /\ Current /\ worker.device # NoDevice /\ ~Ended(worker.snap.op)
         /\ worker.run \in {NoDevice, worker.device}
         /\ \/ view.magnetic = worker.device \/ Seen(worker.snap.op)
            \/ worker.run # NoDevice /\ worker.may
         => view'.magnetic = worker.device
      /\ UNCHANGED <<queue, taskVars, released, quit>>
  BY PublishesSays
<1>2. /\ Starting' <=> Starting
      /\ AboutToWrite' <=> AboutToWrite
      /\ EndSeen' <=> EndSeen
      /\ D' = D /\ (Current' <=> Current) /\ worker'.run = worker.run
  BY <1>1, SameTask DEF taskVars, SameLocals, D, Current
<1>3. Shifted(0) /\ ~Held' /\ InLoop
  BY <1>1, Unshifted DEF IInv, Held, InLoop
\* A device whose start is under way is latched by what was seen.
<1>4. ASSUME Starting, Current,
             Latched \/ Seen(worker.snap.op) \/ (worker.run # NoDevice /\ worker.may)
      PROVE  Latched'
  <2>1. D # NoDevice /\ worker.run \in {NoDevice, D}
    BY <1>4, StartingDevice DEF Secured, DInv, OneDevice
  <2>2. ~Ended(worker.snap.op)
    BY <1>1, <1>4 DEF Secured, Reported
  <2>3. view'.magnetic = D
    BY <1>1, <1>4, <2>1, <2>2 DEF Latched, D
  <2>4. QED
    BY <1>2, <2>3 DEF Latched
<1>5. Starting /\ Latched => Latched'
  <2>1. CASE Current
    BY <1>4, <2>1
  <2>2. CASE ~Current
    BY <1>1, <1>2, <2>2 DEF Latched
  <2>3. QED
    BY <2>1, <2>2
<1>6. \A i \in 1..Len(queue') : NoOther(queue[i])'
  BY <1>2, <1>3, <1>5, OthersKept DEF Secured
<1>7. Excluded'
  BY <1>1, <1>2, <1>3, <1>5, <1>6 DEF Secured, Excluded, SameLocals
<1>8. ASSUME Starting, ~Latched'
      PROVE  /\ view'.device = D
             /\ (view'.pending /\ Current) \/ view'.phase \in {"Operating", "Stopping"}
  <2>1. ~Latched
    BY <1>5, <1>8
  <2>2. view.device = D /\ ((view.pending /\ Current) \/ view.phase \in {"Operating", "Stopping"})
    BY <1>8, <2>1 DEF Secured, Guarded
  <2>3. CASE ~Current
    BY <1>1, <2>2, <2>3
  <2>4. CASE Current /\ worker.run = NoDevice
    <3>1. worker.phase = "Operating"
      BY <1>1, <1>4, <1>8, <2>1, <2>4 DEF Secured, Reported
    <3>2. QED
      BY <1>1, <2>2, <2>4, <3>1
  <2>5. CASE Current /\ worker.run # NoDevice
    <3>1. worker.busy
      BY <1>1, <1>4, <1>8, <2>1, <2>5 DEF Secured, Reported
    <3>2. view.phase \notin {"Operating", "Stopping"}
      BY <1>3, <2>5 DEF Asked, NoSessionLeft
    <3>3. QED
      BY <1>1, <2>2, <2>5, <3>1, <3>2
  <2>6. QED
    BY <2>3, <2>4, <2>5
<1>9. Guarded'
  <2>1. Backed => Backed'
    BY <1>1, <1>2 DEF Backed, taskVars
  <2>2. ~Latched' => Backed'
    BY <1>1, <1>5, <2>1 DEF Secured, Guarded, Starting, Backed, taskVars
  <2>3. owes' \subseteq {D'}
    BY <1>1, <1>2 DEF Secured, Guarded, taskVars
  <2>4. QED
    BY <1>2, <1>8, <2>2, <2>3 DEF Guarded
<1>10. Reported'
  <2>1. InLoop' /\ AboutToWrite' /\ ~Latched' => worker'.phase = "Operating"
    <3>1. AboutToWrite => Starting
      BY DEF Starting, AboutToStart
    <3>2. QED
      BY <1>1, <1>2, <1>3, <1>5, <3>1 DEF Secured, Reported, SameLocals
  <2>2. QED
    BY <1>1, <1>2, <2>1 DEF Secured, Reported
<1>11. QED
  BY <1>7, <1>9, <1>10 DEF Secured

LEMMA CommandsSecured ==
  ASSUME IInv, DInv, Asked, Secured, Commands
  PROVE  Secured'
<1> DEFINE r == Head(queue)
<1>1. /\ worker.pc = "loop" /\ queue # <<>> /\ queue' = Tail(queue)
      /\ r.do \in InSession /\ r.dev \in Devices
      /\ worker.phase = "Magnetic" /\ worker.run = r.dev
      /\ worker'.pc = "poll" /\ worker'.cur = r.id /\ worker'.run = worker.run
      /\ worker'.apply = worker.apply /\ worker'.connect = worker.connect
      /\ worker'.device = worker.device /\ worker'.phase = worker.phase
      /\ SameView /\ view'.magnetic = view.magnetic
      /\ view'.pending = (view.pending /\ (view.request = r.id => Ready))
      /\ UNCHANGED <<calsw, owes, released, quit>>
      /\ Ready => /\ task' = task /\ task.alive /\ shared'.chan = r.do
                  /\ shared'.op.action = r.do /\ shared'.op.outcome = "Running"
      /\ ~Ready => /\ task' = task \/ (~task.alive /\ task' = NoTask)
                   /\ shared'.op = shared.op /\ shared'.chan = shared.chan
  BY CommandsSays
<1>2. /\ Shifted(1) /\ Ordinary(r) /\ r = queue[1] /\ 1 \in 1..Len(queue) /\ r.do # "stop"
  BY <1>1, ShiftedByOne, Taken, WritesAreOrdinary DEF IInv
<1>3. /\ worker.run # NoDevice /\ worker.run = D /\ r.dev = D
      /\ worker.apply = "none" /\ worker.connect = NoDevice
  BY <1>1, Typed DEF DInv, OneDevice, IInv
<1>4. D' = D /\ (Latched' <=> Latched) /\ ~Held' /\ InLoop /\ InLoop' /\ owes' \subseteq {D'}
  BY <1>1 DEF D, Latched, Held, InLoop, Secured, Guarded
<1>5. Starting => Latched
  BY <1>2 DEF Secured, Excluded, NoOther, Latched
<1>6. CASE ~Ready
  <2>1. /\ Starting' => Starting
        /\ EndSeen => EndSeen'
    <3>1. CASE task' = task
      BY <1>1, <1>6, <3>1, SameTask
    <3>2. CASE ~task.alive /\ task' = NoTask
      BY <1>1, <1>6, <3>2, NoTaskStarts, NoTaskIsATask
    <3>3. QED
      BY <1>1, <1>6, <3>1, <3>2
  <2>2. \A i \in 1..Len(queue') : NoOther(queue[i])'
    BY <1>2, <1>4, <2>1, OthersKept DEF Secured
  <2>3. EndSeen'
    BY <2>1 DEF Secured, Reported
  <2>4. QED
    BY <1>1, <1>4, <1>5, <2>1, <2>2, <2>3, LatchedIsSecured
<1>7. CASE Ready
  <2>1. /\ task' = task /\ task.alive /\ shared'.chan = r.do
        /\ shared'.op.action = r.do /\ shared'.op.outcome = "Running" /\ owes' = owes
    BY <1>1, <1>7
  <2>2. EndSeen'
    BY <2>1 DEF EndSeen, Ended
  <2>3. CASE Starting
    <3>1. \A i \in 1..Len(queue') : NoOther(queue[i])'
      BY <1>2, <1>4, <2>3, OthersKept DEF Secured
    <3>2. QED
      BY <1>1, <1>4, <1>5, <2>2, <2>3, <3>1, LatchedIsSecured
  <2>4. CASE ~Starting
    <3>1. owes' = {} /\ ~AboutToWrite'
      BY <1>3, <2>1, <2>4 DEF Starting, AboutToWrite, DInv, OneDevice
    <3>2. \A i \in 1..Len(queue') : Ordinary(queue'[i]) => queue'[i].do = "stop"
      <4> SUFFICES ASSUME NEW i \in 1..Len(queue'), Ordinary(queue'[i])
                   PROVE  queue'[i].do = "stop"
        OBVIOUS
      <4>1. i + 1 \in 1..Len(queue) /\ 1 < i + 1 /\ queue'[i] = queue[i + 1]
        BY <1>1, Taken DEF IInv
      <4>2. QED
        BY <1>1, <1>2, <4>1 DEF Asked, OnlyStops
    <3>3. \A i \in 1..Len(queue') : NoOther(queue[i])'
      BY <3>2 DEF NoOther, Ordinary
    <3>4. Excluded'
      BY <1>1, <1>3, <1>4, <3>3 DEF Excluded
    <3>5. Shown(r)
      BY <1>1, <1>2 DEF Asked, AllShown
    <3>6. /\ view'.device = D
          /\ (view'.pending /\ Current') \/ view'.phase \in {"Operating", "Stopping"}
      BY <1>1, <1>3, <1>7, <3>5 DEF Shown, Current, SameView
    <3>7. Guarded'
      BY <1>4, <3>1, <3>6 DEF Guarded, Backed
    <3>8. Reported'
      BY <1>1, <2>2, <3>1 DEF Reported
    <3>9. QED
      BY <3>4, <3>7, <3>8 DEF Secured
  <2>5. QED
    BY <2>3, <2>4
<1>8. QED
  BY <1>6, <1>7

LEMMA TakesSecured ==
  ASSUME IInv, DInv, Asked, Secured, Takes
  PROVE  Secured'
<1> DEFINE r == Head(queue)
<1>1. /\ worker.pc = "loop" /\ queue # <<>> /\ queue' = Tail(queue) /\ r.do # "recenter"
      /\ worker'.cur = r.id /\ worker'.req = r /\ worker'.apply = "none"
      /\ worker'.device = worker.device /\ worker'.run = worker.run
      /\ worker'.phase = worker.phase
      /\ worker'.connect \in {NoDevice, worker.connect}
      /\ worker'.pc \in {"leaving", "joining", "begin"}
      /\ task'.alive = task.alive /\ task'.kind = task.kind /\ task'.step = task.step
      /\ task'.do = task.do /\ task'.dev = task.dev
      /\ UNCHANGED <<view, shared, calsw, owes, released, quit>>
  BY TakesSays
<1>2. /\ Shifted(1) /\ r = queue[1] /\ 1 \in 1..Len(queue)
  BY <1>1, ShiftedByOne, Taken DEF IInv
<1>3. /\ Starting' <=> Starting
      /\ AboutToWrite' <=> AboutToWrite
      /\ EndSeen' <=> EndSeen
      /\ D' = D /\ (Latched' <=> Latched) /\ ~InLoop'
  BY <1>1, SameTask DEF D, Latched, InLoop
<1>4. \A i \in 1..Len(queue') : NoOther(queue[i])'
  BY <1>2, <1>3, OthersKept DEF Secured
<1>5. NoOther(worker.req)'
  <2>1. NoOther(r)
    BY <1>2 DEF Secured, Excluded
  <2>2. QED
    BY <1>1, <1>3, <2>1 DEF NoOther, Ordinary
<1>6. ASSUME r.do \in InSession
      PROVE  /\ Shown(worker.req)'
             /\ \A i \in 1..Len(queue') : Ordinary(queue'[i]) => queue'[i].do = "stop"
  <2>1. Shown(r)
    BY <1>2, <1>6 DEF Asked, AllShown
  <2>2. Shown(worker.req)'
    BY <1>1, <2>1 DEF Shown
  <2>3. ASSUME NEW i \in 1..Len(queue'), Ordinary(queue'[i])
        PROVE  queue'[i].do = "stop"
    <3>1. i + 1 \in 1..Len(queue) /\ 1 < i + 1 /\ queue'[i] = queue[i + 1]
      BY <1>1, Taken DEF IInv
    <3>2. QED
      BY <1>2, <1>6, <2>3, <3>1 DEF Asked, OnlyStops
  <2>4. QED
    BY <2>2, <2>3
<1>7. Starting' /\ (worker'.apply # "none" \/ worker'.connect # NoDevice) => Latched'
  BY <1>1, <1>3 DEF Secured, Excluded
<1>8. Excluded'
  BY <1>1, <1>4, <1>5, <1>6, <1>7 DEF Excluded, Ordinary
<1>9. ASSUME Starting, ~Latched
      PROVE  view.device = D /\ view.phase \in {"Operating", "Stopping"}
  <2>1. view.device = D /\ ((view.pending /\ Current) \/ view.phase \in {"Operating", "Stopping"})
    BY <1>9 DEF Secured, Guarded
  <2>2. CASE r.do = "shutdown"
    BY <1>1, <2>1, <2>2, LaterEntries DEF Asked, WindowOpen
  <2>3. CASE r.do # "shutdown"
    <3>1. Ordinary(r)
      BY <1>1, <2>3 DEF Ordinary
    <3>2. ~Current
      BY <1>2, <3>1, NotTaken DEF Current
    <3>3. QED
      BY <2>1, <3>2
  <2>4. QED
    BY <2>2, <2>3
<1>10. Guarded'
  <2>1. Backed => Backed'
    BY <1>1, <1>3 DEF Backed
  <2>2. QED
    BY <1>1, <1>3, <1>9, <2>1 DEF Secured, Guarded
<1>11. Reported'
  BY <1>1, <1>3 DEF Secured, Reported
<1>12. QED
  BY <1>8, <1>10, <1>11 DEF Secured

LEMMA JoinsSecured ==
  ASSUME IInv, DInv, Asked, Secured, Joins, ~released'
  PROVE  Secured'
<1>1. /\ worker.pc = "joining" /\ ~task'.alive
      /\ worker'.cur = worker.cur /\ worker'.device = worker.device
      /\ worker'.run = NoDevice /\ worker'.apply = worker.apply
      /\ worker'.connect = worker.connect
      /\ \/ worker'.pc = "poll" /\ worker'.phase = "Failed" /\ worker.req.do = "stop"
         \/ worker'.pc = "begin" /\ worker'.req = worker.req /\ view'.pending = Retired.pending
      /\ SameView
      /\ view'.magnetic = IF worker.run # NoDevice /\ May THEN worker.run ELSE view.magnetic
      /\ released' = (released \/ (view.pending /\ ~Retired.pending))
      /\ shared'.op = shared.op /\ shared'.mag = shared.mag
      /\ UNCHANGED <<queue, owes, quit>>
  BY JoinsSays, NoTaskIsATask
<1>2. /\ Held /\ Shifted(0) /\ worker.apply = "none" /\ worker.connect = NoDevice
      /\ ~InLoop /\ view.pending => Retired.pending
  BY <1>1, Unshifted DEF Held, InLoop, IInv, Forgotten
<1>3. /\ Starting' <=> owes # {}
      /\ Starting' => Starting
      /\ ~AboutToWrite'
      /\ EndSeen => EndSeen'
      /\ D' = D
  BY <1>1, NoTaskStarts DEF D
<1>4. ASSUME owes # {}, Latched \/ (worker.run # NoDevice /\ May)
      PROVE  Latched'
  <2>1. worker.run \in {NoDevice, D}
    BY DEF DInv, OneDevice
  <2>2. view'.magnetic = D
    BY <1>1, <1>4, <2>1 DEF Latched
  <2>3. QED
    BY <1>3, <2>2 DEF Latched
<1>5. \A i \in 1..Len(queue') : NoOther(queue[i])'
  BY <1>2, <1>3, <1>4, OthersKept DEF Secured
<1>6. Held' => NoOther(worker.req)'
  <2>1. NoOther(worker.req)
    BY <1>2 DEF Secured, Excluded
  <2>2. Starting' => (Latched => Latched')
    BY <1>3, <1>4
  <2>3. QED
    BY <1>1, <1>3, <2>1, <2>2 DEF NoOther, Ordinary, Held, Latched
<1>7. ASSUME Held', worker'.req.do \in InSession
      PROVE  /\ Shown(worker.req)'
             /\ \A i \in 1..Len(queue') : Ordinary(queue'[i]) => queue'[i].do = "stop"
  <2>1. worker'.req = worker.req /\ view'.pending = Retired.pending
    BY <1>1, <1>7 DEF Held
  <2>2. /\ Shown(worker.req)
        /\ \A i \in 1..Len(queue) : Ordinary(queue[i]) => queue[i].do = "stop"
    BY <1>2, <1>7, <2>1 DEF Secured, Excluded
  <2>3. QED
    BY <1>1, <1>2, <2>1, <2>2 DEF Shown, SameView
<1>8. Excluded'
  BY <1>1, <1>2, <1>5, <1>6, <1>7 DEF Excluded, Ordinary
<1>9. ASSUME owes # {}, ~Latched'
      PROVE  /\ view'.device = D
             /\ (view'.pending /\ Current') \/ view'.phase \in {"Operating", "Stopping"}
  <2>1. ~Latched
    BY <1>4, <1>9
  <2>2. view.device = D /\ ((view.pending /\ Current) \/ view.phase \in {"Operating", "Stopping"})
    BY <1>9, <2>1 DEF Secured, Guarded, Starting
  <2>3. CASE view.phase \in {"Operating", "Stopping"}
    BY <1>1, <2>2, <2>3 DEF SameView
  <2>4. CASE view.pending /\ Current
    <3>1. worker.req.do # "stop"
      <4>1. worker.req.id = worker.cur /\ Latest(worker.req)
        BY <1>2 DEF Asked, HeldIsLatest
      <4>2. QED
        BY <2>4, <4>1 DEF Latest, Current, Ordinary, InSession
    <3>2. view'.pending
      BY <1>1, <1>2, <2>4, <3>1
    <3>3. QED
      BY <1>1, <2>2, <2>4, <3>2 DEF Current, SameView
  <2>5. QED
    BY <2>2, <2>3, <2>4
<1>10. ~Latched' => Backed'
  <2>1. ASSUME owes # {}, ~Latched'
        PROVE  Backed'
    <3>1. ~Latched /\ ~(worker.run # NoDevice /\ May)
      BY <1>4, <2>1
    <3>2. D # NoDevice
      BY <2>1, StartingDevice DEF Secured, Starting
    <3>3. shared.op.action = "mag_start" /\ shared.op.attempted
      BY <2>1, <3>1, <3>2 DEF Secured, Guarded, Backed, May
    <3>4. QED
      BY <1>1, <3>3 DEF Backed
  <2>2. QED
    BY <1>1, <2>1 DEF Backed
<1>11. Guarded'
  BY <1>1, <1>3, <1>9, <1>10 DEF Guarded, Secured
<1>12. Reported'
  BY <1>1, <1>3 DEF Reported, Secured
<1>13. QED
  BY <1>8, <1>11, <1>12 DEF Secured

LEMMA LeavesSecured ==
  ASSUME IInv, DInv, Secured, Leaves
  PROVE  Secured'
<1>1. /\ worker.pc = "leaving" /\ worker'.pc = "gone" /\ SameLocals /\ ~task'.alive
      /\ shared'.op = shared.op /\ shared'.mag = shared.mag
      /\ UNCHANGED <<view, queue, owes, released, quit>>
  BY LeavesSays, NoTaskIsATask
<1>2. /\ Starting' => Starting
      /\ ~AboutToWrite'
      /\ EndSeen => EndSeen'
      /\ D' = D /\ (Latched' <=> Latched) /\ ~Held' /\ ~InLoop'
  BY <1>1, NoTaskStarts DEF D, SameLocals, Latched, Held, InLoop
<1>3. \A i \in 1..Len(queue') : NoOther(queue[i])'
  BY <1>1, <1>2, Unshifted, OthersKept DEF Secured, IInv
<1>4. Excluded'
  BY <1>1, <1>2, <1>3 DEF Secured, Excluded, SameLocals
<1>5. Backed => Backed'
  BY <1>1, <1>2 DEF Backed, SameLocals
<1>6. Guarded'
  BY <1>1, <1>2, <1>5 DEF Secured, Guarded, Current, SameLocals
<1>7. Reported'
  BY <1>1, <1>2 DEF Secured, Reported
<1>8. QED
  BY <1>4, <1>6, <1>7 DEF Secured

LEMMA BeginsSecured ==
  ASSUME IInv, DInv, Asked, Secured, Begins
  PROVE  Secured'
<1> DEFINE r == worker.req
<1>1. /\ worker.pc = "begin" /\ worker'.pc = "poll" /\ worker'.cur = worker.cur
      /\ worker.apply = "none" /\ worker.connect = NoDevice /\ Ordinary(r)
      /\ UNCHANGED <<queue, calsw, owes, released, quit>>
      /\ BeginsStop \/ BeginsNothing \/ BeginsTask
      /\ worker.run = NoDevice
  BY BeginsSays DEF DInv, OneDevice
<1>2. /\ Held /\ ~Held' /\ Shifted(0) /\ InLoop' /\ NoOther(r)
      /\ r.id = worker.cur
  BY <1>1, Unshifted DEF Held, InLoop, IInv, Secured, Excluded, Asked, HeldIsLatest
<1>3. CASE BeginsStop
  <2>1. /\ ~task'.alive /\ view' = view /\ worker'.device = worker.device
        /\ worker'.run = worker.run /\ worker'.apply = "none" /\ worker'.connect = NoDevice
        /\ shared'.op = shared.op /\ shared'.mag = shared.mag
    BY <1>1, <1>3 DEF BeginsStop
  <2>2. /\ Starting' => Starting
        /\ ~AboutToWrite'
        /\ EndSeen => EndSeen'
        /\ D' = D /\ (Latched' <=> Latched)
    BY <1>1, <2>1, NoTaskStarts DEF D, Latched
  <2>3. \A i \in 1..Len(queue') : NoOther(queue[i])'
    BY <1>2, <2>2, OthersKept DEF Secured
  <2>4. Excluded'
    BY <1>2, <2>1, <2>3 DEF Excluded
  <2>5. Backed => Backed'
    BY <1>1, <2>1, <2>2 DEF Backed
  <2>6. Guarded'
    BY <1>1, <2>1, <2>2, <2>5 DEF Secured, Guarded, Current
  <2>7. Reported'
    BY <1>1, <2>2 DEF Secured, Reported
  <2>8. QED
    BY <2>4, <2>6, <2>7 DEF Secured
<1>4. CASE BeginsNothing
  <2>1. /\ r.do # "stop" /\ worker'.device = worker.device /\ view'.magnetic = view.magnetic
        /\ \/ task.alive /\ task' = task /\ shared' = shared
           \/ ~task.alive /\ task' = NoTask /\ shared'.op = shared.op
    BY <1>4 DEF BeginsNothing
  <2>2. /\ Starting' => Starting
        /\ EndSeen => EndSeen'
    BY <1>1, <2>1, SameTask, NoTaskStarts, NoTaskIsATask
  <2>3. D' = D /\ (Latched' <=> Latched)
    BY <2>1 DEF D, Latched
  <2>4. \A i \in 1..Len(queue') : NoOther(queue[i])'
    BY <1>2, <2>2, <2>3, OthersKept DEF Secured
  <2>5. Starting' => Latched'
    BY <1>1, <1>2, <2>1, <2>2, <2>3 DEF NoOther, Latched
  <2>6. owes' \subseteq {D'} /\ EndSeen'
    BY <1>1, <2>2, <2>3 DEF Secured, Guarded, Reported
  <2>7. QED
    BY <1>1, <1>2, <2>4, <2>5, <2>6, LatchedIsSecured
<1>5. CASE BeginsTask
  <2>1. /\ r.do \in OnDevice \cup {"scan"} /\ ~task.alive
        /\ r.do \in OnDevice => r.dev \in Devices
        /\ worker'.phase = WorkerPhase(r.do)
        /\ worker'.device = IF r.do = "scan" THEN worker.device ELSE r.dev
        /\ worker'.connect = IF r.do = "connect" THEN r.dev ELSE NoDevice
        /\ worker'.apply = IF r.do = "apply" THEN "before" ELSE "none"
        /\ SameView /\ view'.magnetic = view.magnetic /\ view'.pending = view.pending
        /\ task' = Launched(r.do, r.dev)
    BY <1>5 DEF BeginsTask
  <2>2. r.do # "stop" /\ r.dev \in Devs
    BY <2>1, Typed DEF OnDevice, InSession, IInv, Entries
  <2>3. PICK s \in Shared : s.op = shared.op /\ shared' = Started(s, r.do)
    BY <1>5 DEF BeginsTask
  <2>4. /\ task'.alive /\ task'.step = "work" /\ task'.kind = KindOf(r.do)
        /\ task'.do = r.do
        /\ KindOf(r.do) = "write" => shared'.op.action = r.do
        /\ KindOf(r.do) = "magnetic" => shared'.chan = "none"
        /\ shared'.op = shared.op \/ shared'.op.outcome # "Succeeded"
    BY <2>1, <2>2, <2>3, StartSays
  <2>5. AboutToStart' => r.do = "mag_start" /\ shared'.op.action = "mag_start"
    BY <2>4 DEF AboutToStart, AboutToWrite
  \* A start under way is latched, and what begins is for its device.
  <2>6. ASSUME owes # {}
        PROVE  D' = D /\ Latched /\ Latched'
    <3>1. Latched /\ (r.do \in OnDevice => r.dev = D)
      BY <1>1, <1>2, <2>2, <2>6 DEF NoOther, Latched, Starting
    <3>2. D' = D
      BY <2>1, <3>1 DEF D
    <3>3. QED
      BY <2>1, <3>1, <3>2 DEF Latched
  <2>7. EndSeen'
    <3>1. ASSUME Ended(shared'.op)
          PROVE  ~Starting'
      <4>1. Ended(shared.op) /\ shared'.op.action # "mag_start"
        BY <2>4, <3>1 DEF Ended
      <4>2. ~Starting /\ ~AboutToStart'
        BY <2>5, <4>1 DEF Secured, Reported, EndSeen
      <4>3. QED
        BY <1>1, <4>2 DEF Starting
    <3>2. QED
      BY <3>1 DEF EndSeen
  <2>8. owes' \subseteq {D'}
    BY <1>1, <2>6 DEF Secured, Guarded
  <2>9. CASE owes # {}
    <3>1. Starting
      BY <2>9 DEF Starting
    <3>2. \A i \in 1..Len(queue') : NoOther(queue[i])'
      BY <1>2, <2>6, <2>9, <3>1, OthersKept DEF Secured
    <3>3. QED
      BY <1>1, <1>2, <2>6, <2>7, <2>8, <2>9, <3>2, LatchedIsSecured
  <2>10. CASE owes = {} /\ r.do # "mag_start"
    <3>1. ~Starting'
      BY <1>1, <2>5, <2>10 DEF Starting
    <3>2. \A i \in 1..Len(queue') : NoOther(queue[i])'
      BY <3>1 DEF NoOther
    <3>3. QED
      BY <1>1, <1>2, <2>7, <2>8, <3>1, <3>2, LatchedIsSecured
  <2>11. CASE owes = {} /\ r.do = "mag_start"
    <3>1. r.do \in InSession /\ r.do \in OnDevice
      BY <2>11 DEF InSession, OnDevice
    <3>2. /\ Shown(r)
          /\ \A i \in 1..Len(queue) : Ordinary(queue[i]) => queue[i].do = "stop"
      BY <1>2, <3>1 DEF Secured, Excluded
    <3>3. \A i \in 1..Len(queue') : NoOther(queue[i])'
      BY <1>1, <3>2 DEF NoOther, Ordinary
    <3>4. worker'.apply = "none" /\ worker'.connect = NoDevice /\ D' = r.dev
          /\ worker'.phase = "Operating"
      BY <2>1, <2>11 DEF D, WorkerPhase
    <3>5. Excluded'
      BY <1>2, <3>3, <3>4 DEF Excluded
    <3>6. /\ view'.device = D'
          /\ (view'.pending /\ Current') \/ view'.phase \in {"Operating", "Stopping"}
      BY <1>1, <1>2, <2>1, <3>2, <3>4 DEF Shown, Current, SameView
    <3>7. Guarded'
      BY <1>1, <2>8, <2>11, <3>6 DEF Guarded, Backed
    <3>8. Reported'
      BY <1>1, <2>7, <3>4 DEF Reported
    <3>9. QED
      BY <3>5, <3>7, <3>8 DEF Secured
  <2>12. QED
    BY <2>9, <2>10, <2>11
<1>6. QED
  BY <1>1, <1>3, <1>4, <1>5

\* The panel: what it sends is no other start, and keeps the guard.
LEMMA PanelSecured ==
  ASSUME Secured, UNCHANGED <<worker, taskVars>>, view'.magnetic = view.magnetic,
         \A i \in 1..Len(queue') : NoOther(queue[i]'),
         Held /\ worker.req.do \in InSession =>
           /\ Shown(worker.req)'
           /\ \A i \in 1..Len(queue') : Ordinary(queue'[i]) => queue'[i].do = "stop",
         Starting /\ ~Latched =>
           /\ view'.device = D
           /\ (view'.pending /\ Current') \/ view'.phase \in {"Operating", "Stopping"}
  PROVE  Secured'
<1>1. /\ Starting' <=> Starting
      /\ AboutToWrite' <=> AboutToWrite
      /\ EndSeen' <=> EndSeen
      /\ D' = D /\ (Latched' <=> Latched) /\ (Held' <=> Held)
  BY SameTask DEF taskVars, D, Latched, Held
<1>2. /\ \A i \in 1..Len(queue') : NoOther(queue[i])'
      /\ Held' => NoOther(worker.req)'
  BY <1>1 DEF Secured, Excluded, NoOther, Ordinary
<1>3. Excluded'
  BY <1>1, <1>2 DEF Secured, Excluded, Ordinary
<1>4. Backed => Backed'
  BY <1>1 DEF Backed, taskVars
<1>5. Guarded'
  BY <1>1, <1>4 DEF Secured, Guarded, taskVars
<1>6. Reported'
  BY <1>1 DEF Secured, Reported, InLoop
<1>7. QED
  BY <1>3, <1>5, <1>6 DEF Secured

LEMMA QuitSecured ==
  ASSUME IInv, Secured, Quit
  PROVE  Secured'
<1>0. PICK n \in Nat : n = Len(queue) + 1
  BY Typed DEF IInv
<1>1. /\ UNCHANGED <<view, worker, taskVars>>
      /\ \A i \in 1..Len(queue') : i \in 1..Len(queue) \/ i = n
      /\ \A i \in 1..Len(queue) : queue'[i] = queue[i]
      /\ queue'[n].do = "shutdown"
  BY <1>0, QuitSays
<1>2. ~Ordinary(queue'[n])
  BY <1>1 DEF Ordinary
<1>3. \A i \in 1..Len(queue') : NoOther(queue[i]')
  BY <1>1, <1>2 DEF Secured, Excluded, NoOther
<1>4. Held /\ worker.req.do \in InSession =>
        /\ Shown(worker.req)'
        /\ \A i \in 1..Len(queue') : Ordinary(queue'[i]) => queue'[i].do = "stop"
  BY <1>1, <1>2 DEF Secured, Excluded, Shown
<1>5. Starting /\ ~Latched =>
        /\ view'.device = D
        /\ (view'.pending /\ Current') \/ view'.phase \in {"Operating", "Stopping"}
  BY <1>1 DEF Secured, Guarded, Current
<1>6. QED
  BY <1>1, <1>3, <1>4, <1>5, PanelSecured

LEMMA SendSecured ==
  ASSUME IInv, DInv, Asked, Secured, NEW c \in Requests, Send(c)
  PROVE  Secured'
<1>0. PICK n \in Nat : n = Len(queue) + 1
  BY Typed DEF IInv
<1>1. /\ UNCHANGED <<worker, taskVars>>
      /\ \A i \in 1..Len(queue') : i \in 1..Len(queue) \/ i = n
      /\ \A i \in 1..Len(queue) : queue'[i] = queue[i]
      /\ queue'[n].do = c.do /\ queue'[n].dev = c.dev
      /\ view'.magnetic = view.magnetic
      /\ \/ c.do = "recenter" /\ view' = view
         \/ SendsStop(c) \/ SendsWrite(c) \/ SendsNew(c)
  BY <1>0, SendSays
\* With a start under way, what is let in is for its device.
<1>2. ASSUME SendsWrite(c) \/ SendsNew(c), Starting
      PROVE  Latched /\ c.dev = D
  <2>1. /\ ~view.pending /\ view.phase \notin {"Operating", "Stopping"} /\ Allowed(c)
    BY <1>2 DEF SendsWrite, SendsNew, Settled
  <2>2. Latched
    BY <1>2, <2>1 DEF Secured, Guarded
  <2>3. D # NoDevice
    BY <1>2, StartingDevice DEF Secured
  <2>4. QED
    BY <2>1, <2>2, <2>3 DEF Latched, Allowed
<1>3. NoOther(queue[n]')
  <2>1. CASE c.do \in {"recenter", "stop"}
    BY <1>1, <2>1 DEF NoOther, Ordinary
  <2>2. CASE c.do \notin {"recenter", "stop"}
    <3>1. SendsWrite(c) \/ SendsNew(c)
      BY <1>1, <2>2 DEF SendsStop
    <3>2. QED
      BY <1>1, <1>2, <3>1 DEF NoOther, Latched
  <2>3. QED
    BY <2>1, <2>2
<1>4. \A i \in 1..Len(queue') : NoOther(queue[i]')
  BY <1>1, <1>3 DEF Secured, Excluded
<1>5. ASSUME Held, worker.req.do \in InSession
      PROVE  /\ Shown(worker.req)'
             /\ \A i \in 1..Len(queue') : Ordinary(queue'[i]) => queue'[i].do = "stop"
  <2>1. /\ Shown(worker.req)
        /\ \A i \in 1..Len(queue) : Ordinary(queue[i]) => queue[i].do = "stop"
    BY <1>5 DEF Secured, Excluded
  <2>2. ~SendsWrite(c)
    BY <2>1 DEF SendsWrite, Shown
  <2>3. ~SendsNew(c)
    BY <1>5 DEF SendsNew, Asked, SettledIsRest
  <2>4. \A i \in 1..Len(queue') : Ordinary(queue'[i]) => queue'[i].do = "stop"
    BY <1>1, <2>1, <2>2, <2>3 DEF SendsStop, Ordinary
  <2>5. Shown(worker.req)'
    <3>1. worker'.req = worker.req
      BY <1>1
    <3>2. CASE view' = view
      BY <2>1, <3>1, <3>2 DEF Shown
    <3>3. CASE SendsStop(c)
      BY <2>1, <3>1, <3>3 DEF SendsStop, Shown
    <3>4. QED
      BY <1>1, <2>2, <2>3, <3>2, <3>3
  <2>6. QED
    BY <2>4, <2>5
<1>6. ASSUME Starting, ~Latched
      PROVE  /\ view'.device = D
             /\ (view'.pending /\ Current') \/ view'.phase \in {"Operating", "Stopping"}
  <2>1. view.device = D /\ ((view.pending /\ Current) \/ view.phase \in {"Operating", "Stopping"})
    BY <1>6 DEF Secured, Guarded
  <2>2. view' = view \/ SendsStop(c)
    BY <1>1, <1>2, <1>6
  <2>3. CASE view' = view
    BY <1>1, <2>1, <2>3 DEF Current
  <2>4. CASE SendsStop(c)
    BY <2>1, <2>4 DEF SendsStop
  <2>5. QED
    BY <2>2, <2>3, <2>4
<1>7. QED
  BY <1>1, <1>4, <1>5, <1>6, PanelSecured

LEMMA NextSecured ==
  ASSUME IInv, DInv, Asked, Secured, [Next]_vars, ~released'
  PROVE  Secured'
<1>1. ASSUME NEW c \in Requests, Send(c) PROVE Secured'
  BY <1>1, SendSecured
<1>2. CASE Quit \/ Recenters \/ Waits
  BY <1>2, QuitSecured, RecentersSecured
<1>3. CASE Commands \/ Takes \/ Joins \/ Begins \/ Leaves
  BY <1>3, CommandsSecured, TakesSecured, JoinsSecured, BeginsSecured, LeavesSecured
<1>4. CASE AppliesOn \/ Connects \/ Polls \/ Absorbs \/ Publishes
  BY <1>4, GoesOnSecured, PollsSecured, AbsorbsSecured, PublishesSecured
<1>5. CASE TaskSteps
  BY <1>5, TaskStepsGuard, ElsewhereSecured
<1>6. CASE OtherProgram \/ UNCHANGED vars
  <2>1. UNCHANGED <<view, queue, worker, task, shared, owes>>
    BY <1>6 DEF OtherProgram, vars, taskVars
  <2>2. /\ Starting' <=> Starting
        /\ AboutToWrite' <=> AboutToWrite
        /\ EndSeen' <=> EndSeen
    BY <2>1, SameTask
  <2>3. DInv' /\ (Backed => Backed') /\ D' = D
    BY <1>6, <2>1, RestD DEF Backed, D
  <2>4. TaskGuards
    BY <2>1, <2>2, <2>3 DEF TaskGuards
  <2>5. QED
    BY <2>1, <2>4, ElsewhereSecured
<1>7. QED
  BY <1>1, <1>2, <1>3, <1>4, <1>5, <1>6 DEF Next, Work, Task, TaskSteps

LEMMA NextD ==
  ASSUME IInv, DInv, [Next]_vars
  PROVE  DInv'
<1>1. CASE \/ \E c \in Requests : Send(c)
           \/ Quit \/ Recenters \/ Waits \/ Absorbs \/ Publishes \/ OtherProgram \/ UNCHANGED vars
  BY <1>1, RestD
<1>2. CASE Commands \/ Takes \/ Joins \/ Begins \/ Leaves
  BY <1>2, CommandsD, TakesD, JoinsD, BeginsD, LeavesD
<1>3. CASE AppliesOn \/ Connects \/ Polls
  BY <1>3, GoesOnD, PollsD
<1>4. CASE TaskSteps
  BY <1>4, TaskStepsGuard DEF TaskGuards
<1>5. QED
  BY <1>1, <1>2, <1>3, <1>4 DEF Next, Work, Task, TaskSteps

-----------------------------------------------------------------------------
(***************************************************************************)
(* The theorems.                                                           *)
(***************************************************************************)

LEMMA InitGInv == Init => GInv
<1> SUFFICES ASSUME Init PROVE GInv
  OBVIOUS
<1>1. /\ view.request = 0 /\ view.phase = "Idle" /\ ~view.pending
      /\ queue = <<>> /\ owes = {} /\ ~quit
      /\ ~task.alive /\ task.step = "ended" /\ shared.op.action = "none"
      /\ worker.pc = "loop" /\ worker.phase = "Idle" /\ worker.device = NoDevice
      /\ worker.connect = NoDevice /\ worker.apply = "none" /\ worker.run = NoDevice
  BY DEF Init, TaskInit, NoTask, NoOperation
<1>2. /\ 1..Len(queue) = {} /\ InLoop /\ ~Held /\ ~AboutToStart /\ ~AboutToWrite /\ ~Starting
      /\ "Idle" \in Settled
  BY <1>1 DEF InLoop, Held, AboutToStart, AboutToWrite, Starting, Settled
<1>3. OneOperation /\ OneDevice
  BY <1>1, <1>2 DEF OneOperation, OneDevice, D, Quiet
<1>4. Asked
  BY <1>1, <1>2 DEF Asked, AllLatest, AllShown, OnlyStops, HeldIsLatest, SettledIsRest,
     NoSessionLeft, WindowOpen
<1>5. Excluded
  BY <1>1, <1>2 DEF Excluded
<1>6. Guarded
  BY <1>1, <1>2 DEF Guarded, Backed
<1>7. Reported
  BY <1>1, <1>2 DEF Reported, EndSeen
<1>8. QED
  BY <1>3, <1>4, <1>5, <1>6, <1>7 DEF GInv, Secured

LEMMA NextGInv == IInv /\ GInv /\ [Next]_vars => GInv'
<1> SUFFICES ASSUME IInv, GInv, [Next]_vars PROVE GInv'
  OBVIOUS
<1>1. DInv /\ Asked
  BY DEF GInv, DInv
<1>2. DInv' /\ Asked'
  BY <1>1, NextD, NextAsked
<1>3. ~released' => ~released
  <2>1. CASE Joins
    BY <2>1, JoinsSays
  <2>2. CASE ~Joins
    BY <2>2 DEF Next, Send, Quit, Work, Recenters, Commands, Takes, Begins, Leaves, Waits,
       AppliesOn, Connects, Polls, Absorbs, Publishes, Task, Elsewhere, OtherProgram, vars
  <2>3. QED
    BY <2>1, <2>2
<1>4. ASSUME ~released' PROVE Secured'
  BY <1>1, <1>3, <1>4, NextSecured DEF GInv
<1>5. QED
  BY <1>2, <1>4 DEF GInv, DInv

LEMMA GInvHolds == Spec => []GInv
<1>1. IInv /\ GInv /\ [Next]_vars => GInv'
  BY NextGInv
<1>2. QED
  BY InitGInv, InvHolds, <1>1, PTL DEF Spec

\* A device whose calibration the client announced, and whose end nobody saw, is
\* latched, or is that of the request that keeps the window open, as long as no
\* retired session released the guard of a write (service.rs observe_magnetic,
\* publish_session, send, guards_quit).
THEOREM StartIsHeld == Spec => []StartedIsGuarded
<1>1. IInv /\ GInv => StartedIsGuarded
  <2> SUFFICES ASSUME IInv, GInv, ~released, NEW d \in owes
               PROVE  \/ view.magnetic = d
                      \/ (view.device = d /\ (view.pending \/ view.phase \in {"Operating", "Stopping"}))
    BY DEF StartedIsGuarded, StartIsGuarded
  <2>1. d = D /\ Starting /\ Guarded
    BY DEF GInv, Secured, Guarded, Starting
  <2>2. QED
    BY <2>1 DEF Guarded, Latched
<1>2. QED
  BY InvHolds, GInvHolds, <1>1, PTL

\* As long, the client owes the end of a calibration to one device at most, so
\* that the one latch of the panel is enough for all that it started
\* (service.rs View magnetic_device, send).
THEOREM OneOwes == Spec => []OneDeviceOwes
<1>1. IInv /\ GInv => OneDeviceOwes
  <2> SUFFICES ASSUME IInv, GInv, ~released
               PROVE  Cardinality(owes) <= 1
    BY DEF OneDeviceOwes
  <2>1. owes \subseteq {D}
    BY DEF GInv, Secured, Guarded
  <2>2. owes = {} \/ owes = {D}
    BY <2>1
  <2>3. Cardinality(owes) \in {0, 1}
    BY <2>2, FS_EmptySet, FS_Singleton
  <2>4. QED
    BY <2>3
<1>2. QED
  BY InvHolds, GInvHolds, <1>1, PTL

=============================================================================
