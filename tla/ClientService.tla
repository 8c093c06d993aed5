--------------------------- MODULE ClientService ---------------------------
(***************************************************************************)
(* The client's device service: the panel sends requests, one worker       *)
(* serialises every call of the controller and publishes what it saw, and  *)
(* the panel decides by what was published last.  The controller's task,   *)
(* the devices and other programs move at any time.  The steps of a        *)
(* command are in DeviceCommand, those of a session in MagneticSession;    *)
(* here a task is what the service can tell of it.                         *)
(***************************************************************************)
EXTENDS Integers, Sequences, FiniteSets, ControllerTask

CONSTANTS
  MaxRequests,  \* bound of the requests of one run
  MaxQueue,     \* room of the channel to the worker (8 in the code)
  MaxExternal   \* bound of the calibrations other programs start

ASSUME ServiceAssumption ==
  /\ MaxRequests \in Nat /\ MaxQueue \in Nat \ {0} /\ MaxExternal \in Nat
  /\ NoDevice \notin Devices

\* Writes that a magnetic session takes, and those with a connection of their
\* own; "other" is any write that calibrates nothing.
InSession == {"mag_start", "mag_stop", "save"}
OnDevice == InSession \cup {"other", "connect", "inspect", "magnetic", "apply"}
Requests == [do : OnDevice, dev : Devices]
              \cup [do : {"scan", "stop", "recenter"}, dev : {NoDevice}]

VARIABLES
  view,      \* View, shared by the panel and the worker under one lock
  queue,     \* requests on their way to the worker
  worker,    \* the locals of the worker
  external,  \* history: changes other programs made to a calibration
  released,  \* history: a session write lost its guard to a retired session
  quit       \* the panel is gone: Shutdown is all that follows

vars == <<view, queue, worker, taskVars, external, released, quit>>

Settled == {"Idle", "Failed"}
NoRequest == [id |-> 0, do |-> "stop", dev |-> NoDevice]
NoSnapshot == [state |-> "Idle", op |-> NoOperation, desc |-> FALSE]
NoSession == [dev |-> NoDevice, may |-> FALSE]

Init ==
  /\ view = [request |-> 0, phase |-> "Idle", device |-> NoDevice, magnetic |-> NoDevice,
             pending |-> FALSE, session |-> NoSession]
  /\ queue = <<>>
  /\ TaskInit
  /\ worker = [pc |-> "loop", req |-> NoRequest, cur |-> 0, phase |-> "Idle",
               device |-> NoDevice, connect |-> NoDevice, apply |-> "none", run |-> NoDevice,
               snap |-> NoSnapshot, may |-> FALSE, busy |-> FALSE]
  /\ external = 0 /\ released = FALSE
  /\ quit = FALSE

-----------------------------------------------------------------------------
(***************************************************************************)
(* The panel.                                                              *)
(***************************************************************************)

IntoSession(c) == view.phase = "Magnetic" /\ view.device = c.dev /\ c.do \in InSession

\* A latched device can be ended, looked at or watched, and nothing else started.
Allowed(c) ==
  view.magnetic = NoDevice
    \/ (c.do \in {"mag_stop", "inspect", "magnetic"} /\ c.dev = view.magnetic)

\* Faulty variant of Admits: the latch is not looked at.
AdmitsUnlatched(c) ==
  c.do = "stop" \/ (c.do # "recenter" /\ ~view.pending
                      /\ (view.phase \in Settled \/ IntoSession(c)))
Admits(c) ==
  CASE c.do = "stop" -> TRUE
    [] c.do = "recenter" -> view.phase = "Tracking" /\ view.magnetic = NoDevice
    [] OTHER -> ~view.pending /\ (view.phase \in Settled \/ IntoSession(c)) /\ Allowed(c)

PhaseOf(c) ==
  CASE c.do = "scan" -> "Scanning"
    [] c.do = "connect" -> "Tracking"
    [] c.do = "inspect" -> "Inspecting"
    [] c.do = "magnetic" \/ IntoSession(c) -> "Magnetic"
    [] c.do = "stop" -> "Stopping"
    [] OTHER -> "Operating"

\* send: admission, the channel and what the panel shows from then on, under
\* the lock.  A recenter is not a request of its own.
Send(c) ==
  /\ ~quit /\ Admits(c) /\ Len(queue) < MaxQueue /\ view.request < MaxRequests
  /\ LET id == IF c.do = "recenter" THEN view.request ELSE view.request + 1 IN
     /\ queue' = Append(queue, [id |-> id, do |-> c.do, dev |-> c.dev])
     /\ view' = IF c.do = "recenter" THEN view
                ELSE [view EXCEPT !.request = id, !.phase = PhaseOf(c),
                                  !.device = IF c.dev = NoDevice THEN @ ELSE c.dev,
                                  !.pending = IntoSession(c)]
  /\ UNCHANGED <<worker, taskVars, external, released, quit>>

\* guards_quit: the window does not close while this holds.
GuardsQuit == view.magnetic # NoDevice \/ view.pending \/ view.phase \in {"Operating", "Stopping"}

\* Drop: Shutdown waits for room in the channel, and then for the worker.
Quit ==
  /\ ~quit /\ ~GuardsQuit /\ Len(queue) < MaxQueue
  /\ queue' = Append(queue, [id |-> MaxRequests + 1, do |-> "shutdown", dev |-> NoDevice])
  /\ quit' = TRUE
  /\ UNCHANGED <<view, worker, taskVars, external, released>>

-----------------------------------------------------------------------------
(***************************************************************************)
(* What the worker publishes.                                              *)
(***************************************************************************)

\* Faulty variant of ObserveMagnetic: a start counts once it is verified.
ObserveMagneticVerified(v, s, d) ==
  IF d = NoDevice THEN v
  ELSE IF s.op.action = "mag_stop" /\ s.op.verified /\ s.op.outcome = "Succeeded"
    THEN [v EXCEPT !.magnetic = NoDevice]
  ELSE IF s.desc \/ (s.op.action = "mag_start" /\ s.op.verified) THEN [v EXCEPT !.magnetic = d]
  ELSE v
\* observe_magnetic: a start that was attempted latches, a verified stop unlatches.
ObserveMagnetic(v, s, d) ==
  IF d = NoDevice THEN v
  ELSE IF s.op.action = "mag_stop" /\ s.op.verified /\ s.op.outcome = "Succeeded"
    THEN [v EXCEPT !.magnetic = NoDevice]
  ELSE IF s.desc \/ (s.op.action = "mag_start" /\ s.op.attempted) THEN [v EXCEPT !.magnetic = d]
  ELSE v

\* Faulty variant of PublishSession: what became of the write is not looked at.
PublishSessionHolding(v, d, may, busy, request) ==
  [v EXCEPT !.magnetic = IF may THEN d ELSE @, !.session = [dev |-> d, may |-> may]]
\* publish_session: only the request that sent a write releases its guard.
PublishSession(v, d, may, busy, request) ==
  [v EXCEPT !.magnetic = IF may THEN d ELSE @,
            !.pending = @ /\ (v.request = request => busy),
            !.session = [dev |-> d, may |-> may]]

\* An error of the request is shown, and releases the guard, if it is still the
\* panel's latest.
Refused(v, id) == IF v.request = id THEN [v EXCEPT !.pending = FALSE] ELSE v

-----------------------------------------------------------------------------
(***************************************************************************)
(* The worker: a request.                                                  *)
(***************************************************************************)

Taking == worker.pc = "loop" /\ queue # <<>> /\ queue' = Tail(queue)
IntoRun(r) == worker.phase = "Magnetic" /\ worker.run = r.dev /\ r.do \in InSession

\* A recenter touches nothing but the Dolby output.
Recenters ==
  /\ Taking /\ Head(queue).do = "recenter"
  /\ worker' = [worker EXCEPT !.pc = "poll"]
  /\ UNCHANGED <<view, taskVars, external, released, quit>>

\* configure_device into the open session; a refusal releases the guard.  When
\* the session's task is already gone, its error is what stop returns.
Commands ==
  /\ Taking /\ IntoRun(Head(queue))
  /\ LET r == Head(queue) IN
     /\ worker' = [worker EXCEPT !.pc = "poll", !.cur = r.id]
     /\ SendsInto(r.do)
     /\ view' = IF Ready THEN view ELSE Refused(view, r.id)
  /\ UNCHANGED <<calsw, owes, external, released, quit>>

\* Commands that call stop before anything else.
Stops(r) == worker.run # NoDevice \/ r.do \in {"stop", "magnetic", "apply"}

\* Any other request ends what runs: what waited for a task is forgotten, and
\* stop cancels the task and waits for it.
Takes ==
  /\ Taking /\ Head(queue).do # "recenter" /\ ~IntoRun(Head(queue))
  /\ LET r == Head(queue) IN
     /\ worker' = [worker EXCEPT
          !.cur = r.id, !.req = r, !.apply = "none",
          !.connect = IF r.do = "shutdown" THEN @ ELSE NoDevice,
          !.pc = IF r.do = "shutdown" THEN "leaving" ELSE IF Stops(r) THEN "joining" ELSE "begin"]
     /\ task' = [task EXCEPT !.cancel = @ \/ r.do = "shutdown" \/ Stops(r)]
  /\ UNCHANGED <<view, shared, calsw, owes, external, released, quit>>

\* The session that was open is published as its cleanup left it.
Retired ==
  IF worker.run # NoDevice THEN PublishSession(view, worker.run, May, Busy, worker.cur) ELSE view

\* stop returned.  A stop of a healthy session whose cleanup failed is an error.
Joins ==
  /\ worker.pc = "joining" /\ ~task.alive
  /\ LET r == worker.req
         fails == r.do = "stop" /\ StopFails /\ worker.phase # "Failed" IN
     /\ worker' = IF fails THEN [worker EXCEPT !.run = NoDevice, !.phase = "Failed",
                                           !.pc = "poll", !.req = NoRequest]
                  ELSE [worker EXCEPT !.run = NoDevice, !.pc = "begin"]
     /\ view' = IF fails THEN Refused(Retired, worker.cur)
                ELSE IF r.do # "stop" THEN [Retired EXCEPT !.session = NoSession] ELSE Retired
  /\ released' = (released \/ (view.pending /\ ~Retired.pending))
  /\ shared' = Stopped(shared) /\ task' = NoTask
  /\ UNCHANGED <<queue, calsw, owes, external, quit>>

WorkerPhase(do) ==
  CASE do = "scan" -> "Scanning" [] do = "connect" -> "Tracking" [] do = "inspect" -> "Inspecting"
    [] do = "magnetic" -> "Magnetic" [] OTHER -> "Operating"

\* The command itself.  A task that has published its end but not finished makes
\* set_config fail; a write may be refused for its value.
Begins ==
  /\ worker.pc = "begin"
  /\ LET r == worker.req IN
     \/ /\ r.do = "stop"
        /\ worker' = [worker EXCEPT !.phase = "Idle", !.pc = "poll", !.req = NoRequest]
        /\ shared' = [shared EXCEPT !.state = "Stopped"]
        /\ UNCHANGED <<view, task>>
     \/ /\ r.do # "stop" /\ (task.alive \/ r.do = "other")
        /\ worker' = [worker EXCEPT !.phase = "Failed", !.pc = "poll", !.req = NoRequest]
        /\ view' = [Refused(view, worker.cur) EXCEPT !.session = NoSession]
        /\ shared' = IF task.alive THEN shared ELSE Configured(Stopped(shared), r.dev, FALSE)
        /\ task' = IF task.alive THEN task ELSE NoTask
     \/ /\ r.do # "stop" /\ ~task.alive
        /\ worker' = [worker EXCEPT !.phase = WorkerPhase(r.do), !.pc = "poll", !.req = NoRequest,
             !.device = IF r.do = "scan" THEN @ ELSE r.dev,
             !.connect = IF r.do = "connect" THEN r.dev ELSE NoDevice,
             !.apply = IF r.do = "apply" THEN "before" ELSE "none",
             !.run = IF r.do = "magnetic" THEN r.dev ELSE NoDevice]
        /\ view' = [view EXCEPT !.session = NoSession]
        /\ shared' = Started(IF r.do = "scan" THEN Stopped(shared)
                             ELSE Configured(Stopped(shared), r.dev, r.do = "connect"), r.do)
        /\ task' = Launched(r.do, r.dev)
  /\ UNCHANGED <<queue, calsw, owes, external, released, quit>>

\* Shutdown: the loop is left and the task stopped.
Leaves ==
  /\ worker.pc = "leaving" /\ ~task.alive
  /\ worker' = [worker EXCEPT !.pc = "gone"] /\ shared' = Stopped(shared) /\ task' = NoTask
  /\ UNCHANGED <<view, queue, calsw, owes, external, released, quit>>

-----------------------------------------------------------------------------
(***************************************************************************)
(* The worker: a poll, which follows every request and every 20 ms.        *)
(***************************************************************************)

Waits ==
  /\ worker.pc = "loop" /\ queue = <<>> /\ worker' = [worker EXCEPT !.pc = "poll"]
  /\ UNCHANGED <<view, queue, taskVars, external, released, quit>>

\* The snapshot s is kept for the publication; a failed controller fails whatever waited.
Looked(w, s) ==
  [w EXCEPT !.snap = [state |-> s.state, op |-> s.op, desc |-> s.desc], !.pc = "absorb",
            !.phase = IF s.state = "Failed" THEN "Failed" ELSE @,
            !.connect = IF s.state = "Failed" THEN NoDevice ELSE @]

\* A submission of settings goes from task to task; ClientSettings says how.
AppliesOn ==
  /\ worker.pc = "poll" /\ worker.apply # "none"
  /\ \/ /\ shared.state = "Complete" /\ ~task.alive
        /\ \E next \in {"write", "after", "done"} :
             /\ next = "done" => worker.apply \in {"before", "after"}
             /\ worker.apply = "after" => next = "done"
             /\ shared' = IF next = "done" THEN Stopped(shared)
                          ELSE Started(Stopped(shared), IF next = "write" THEN "other" ELSE "inspect")
             /\ task' = IF next = "done" THEN NoTask
                        ELSE Launched(IF next = "write" THEN "other" ELSE "inspect", worker.device)
             /\ worker' = Looked([worker EXCEPT !.apply = IF next = "done" THEN "none" ELSE next,
                                                !.phase = IF next = "done" THEN "Idle" ELSE @], shared')
     \/ /\ shared.state \in {"Complete", "Failed", "Stopped"}
        /\ worker' = Looked([worker EXCEPT !.apply = "none", !.phase = "Failed"], shared)
        /\ UNCHANGED <<shared, task>>
     \/ /\ shared.state \notin {"Complete", "Failed", "Stopped"}
        /\ worker' = Looked(worker, shared) /\ UNCHANGED <<shared, task>>
  /\ UNCHANGED <<view, queue, calsw, owes, external, released, quit>>

\* A connection is an inspection and then, unless the device calibrates or its
\* output is not one to track, the acquisition.
Connects ==
  /\ worker.pc = "poll" /\ worker.apply = "none" /\ worker.connect # NoDevice
  /\ LET w == [worker EXCEPT !.connect = NoDevice] IN
     \/ /\ shared.state = "Complete" /\ ~shared.desc /\ ~task.alive
        /\ shared' = Started(Configured(Stopped(shared), worker.connect, TRUE), "track")
        /\ task' = Launched("track", worker.connect)
        /\ worker' = Looked(w, shared')
     \/ /\ shared.state = "Complete"
        /\ worker' = Looked([w EXCEPT !.phase = "Failed"], shared) /\ UNCHANGED <<shared, task>>
     \/ /\ shared.state # "Complete"
        /\ worker' = Looked(worker, shared) /\ UNCHANGED <<shared, task>>
  /\ UNCHANGED <<view, queue, calsw, owes, external, released, quit>>

Polls ==
  /\ worker.pc = "poll" /\ worker.apply = "none" /\ worker.connect = NoDevice
  /\ LET ended == worker.phase \in {"Scanning", "Inspecting", "Operating"}
                    /\ shared.state \in {"Complete", "Stopped"} IN
     worker' = Looked([worker EXCEPT !.phase = IF ended THEN "Idle" ELSE @], shared)
  /\ UNCHANGED <<view, queue, taskVars, external, released, quit>>

\* The session's batch is read after the snapshot.
Absorbs ==
  /\ worker.pc = "absorb"
  /\ worker' = [worker EXCEPT !.pc = "publish", 
                             !.may = worker.run # NoDevice /\ May, !.busy = worker.run # NoDevice /\ Busy]
  /\ UNCHANGED <<view, queue, taskVars, external, released, quit>>

\* Faulty variant of Current: what is published is not compared with the request.
CurrentAlways == TRUE
\* A newer request supersedes what an older one is about to publish.
Current == view.request = worker.cur

Publishes ==
  /\ worker.pc = "publish" /\ worker' = [worker EXCEPT !.pc = "loop", !.snap = NoSnapshot, !.may = FALSE, !.busy = FALSE]
  /\ view' =
       IF ~Current THEN view
       ELSE LET seen == ObserveMagnetic(view, worker.snap, worker.device)
                held == IF worker.run = NoDevice THEN seen
                        ELSE PublishSession(seen, worker.run, worker.may, worker.busy, worker.cur)
            IN [held EXCEPT !.phase = worker.phase]
  /\ UNCHANGED <<queue, taskVars, external, released, quit>>

Work == Recenters \/ Commands \/ Takes \/ Joins \/ Begins \/ Leaves
          \/ Waits \/ AppliesOn \/ Connects \/ Polls \/ Absorbs \/ Publishes

Elsewhere == UNCHANGED <<view, queue, worker, external, released, quit>>
Task == TaskWork /\ Elsewhere

\* Another program starts or ends a calibration.
OtherProgram ==
  /\ external < MaxExternal /\ external' = external + 1
  /\ \E d \in Devices : calsw' = [calsw EXCEPT ![d] = ~@]
  /\ UNCHANGED <<view, queue, worker, task, shared, owes, released, quit>>

Next ==
  \/ \E c \in Requests : Send(c)
  \/ Quit \/ Work \/ Task
  \/ TaskFails /\ Elsewhere
  \/ OtherProgram

Spec == Init /\ [][Next]_vars

\* The worker's thread is scheduled, and every await of a task ends.
FairSpec == Spec /\ WF_vars(Work) /\ WF_vars(Task)

-----------------------------------------------------------------------------
(***************************************************************************)
(* Properties.                                                             *)
(***************************************************************************)

\* A device whose calibration this client announced, and whose end nobody has
\* seen, is the one the panel holds: it is latched, or it is the device of a
\* request that keeps the window open.
StartIsGuarded ==
  \A d \in owes :
    \/ view.magnetic = d
    \/ (view.device = d /\ (view.pending \/ view.phase \in {"Operating", "Stopping"}))

\* It holds as long as no guard was released before its write was made.
StartedIsGuarded == ~released => StartIsGuarded

\* As long, no two devices are owed an end: the panel could hold only one.
OneDeviceOwes == ~released => Cardinality(owes) <= 1

\* While the panel shows "Not connected" no task is at work for it: none on a
\* device, and nothing that a snapshot read too early has taken for its end.
IdleIsQuiet == view.phase = "Idle" => ~task.alive \/ task.step = "ended"

\* A write into the session does not hold the panel for ever, nor does a stop,
\* and the window that closes gets its worker back.
WaitingEnds ==
  /\ view.pending /\ ~released ~> ~view.pending \/ released
  /\ view.phase = "Stopping" ~> view.phase # "Stopping"
  /\ quit ~> worker.pc = "gone"

\* session_write_pending is "set by send", and stands for a write that "has been
\* queued and has not finished or been refused": some time it has.
GuardIsReleased == view.pending ~> ~view.pending

\* "Only a verified stop unlatches, so a session that stops saying so leaves the
\* latch as it was": while the last session says that its device may be
\* calibrating, the device is latched.
ClaimIsLatched == view.session.may => view.magnetic = view.session.dev

=============================================================================
