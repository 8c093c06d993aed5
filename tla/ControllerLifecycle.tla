------------------------ MODULE ControllerLifecycle ------------------------
(***************************************************************************)
(* The control facade and its worker tasks: a call that starts work first  *)
(* makes sure the previous task has ended (ensure_idle), prepares the      *)
(* shared state and spawns a worker; the worker opens its source, works,   *)
(* and publishes its end in the epilogue of launch; stop cancels it, waits *)
(* five seconds for its end and then aborts it.  An abort takes effect     *)
(* only where the worker awaits: a worker held in a synchronous call, as   *)
(* the open of a serial port is, outlives it.                              *)
(***************************************************************************)
EXTENDS Integers

CONSTANT
  MaxTasks  \* bound of the tasks spawned by one controller

ASSUME ConstantsAssumption == MaxTasks \in Nat \ {0}

Workers == 1 .. MaxTasks
NoTask == 0
Kinds == {"acquire", "scan", "inspect", "configure", "magnetic"}
\* Where a worker can still write to the shared state.
Live == {"spawned", "opening", "blocked", "working", "publish", "retire", "signal"}

VARIABLES
  state,       \* status.state
  op,          \* operation: the worker it belongs to and its outcome
  dolby,       \* the acquisition whose Dolby sender is installed, or NoTask
  magnetic,    \* magnetic.phase, of the phases of a session only that it runs
  task,        \* Controller.task
  magChannel,  \* Controller.magnetic_commands is set
  call,        \* the call in progress: "none", "stopping", "aborting"
  returned,    \* what the last call returned, the Ok of stop apart
  last,        \* the last task spawned
  kind, pc, cancel, abort, result,  \* of every worker
  unreported,  \* history: the magnetic session whose failure nobody was told
  outlived,    \* history: the workers whose abort found them held in an open
  overwritten  \* history: one of them wrote the state since stop returned Ok

shared == <<state, op, dolby, magnetic>>
history == <<unreported, outlived, overwritten>>
facade == <<task, magChannel, call, returned, last, history>>
workers == <<kind, pc, cancel, abort, result>>
vars == <<shared, facade, workers>>

TypeOK ==
  /\ state \in {"Idle", "Scanning", "Connecting", "Active", "Stale", "Reconnecting",
                "Stopped", "Failed", "Configuring", "Complete", "Inspecting", "Magnetic"}
  /\ op \in [owner : Workers \cup {NoTask},
             outcome : {"None", "Running", "Succeeded", "Failed", "Cancelled"}]
  /\ dolby \in Workers \cup {NoTask}
  /\ magnetic \in {"Idle", "Running", "Closed", "Failed"}
  /\ task \in Workers \cup {NoTask}
  /\ magChannel \in BOOLEAN
  /\ call \in {"none", "stopping", "aborting"} /\ (call # "none" => task # NoTask)
  /\ returned \in {"None", "Ok", "Stopped", "Error"}
  /\ last \in Workers \cup {NoTask}
  /\ unreported \in Workers \cup {NoTask}
  /\ outlived \subseteq Workers /\ overwritten \in BOOLEAN
  /\ kind \in [Workers -> Kinds]
  /\ pc \in [Workers -> Live \cup {"none", "done", "finished"}]
  /\ cancel \in [Workers -> BOOLEAN]
  /\ abort \in [Workers -> BOOLEAN]
  /\ result \in [Workers -> {"None", "Ok", "Cancelled", "Error", "Panic"}]

NoOperation == [owner |-> NoTask, outcome |-> "None"]

Init ==
  /\ state = "Idle" /\ op = NoOperation /\ dolby = NoTask /\ magnetic = "Idle"
  /\ task = NoTask /\ magChannel = FALSE
  /\ call = "none" /\ returned = "None" /\ last = NoTask
  /\ unreported = NoTask /\ outlived = {} /\ overwritten = FALSE
  /\ kind = [w \in Workers |-> "acquire"]
  /\ pc = [w \in Workers |-> "none"]
  /\ cancel = [w \in Workers |-> FALSE]
  /\ abort = [w \in Workers |-> FALSE]
  /\ result = [w \in Workers |-> "None"]

-----------------------------------------------------------------------------
(***************************************************************************)
(* Calls that start work.                                                  *)
(***************************************************************************)

HandleFinished == task # NoTask => pc[task] = "finished"
\* stop, called by ensure_idle on a finished task, returns its magnetic error:
\* last_error, which finish sets in a session that failed and clears in one closed.
MagneticFailed == magChannel /\ magnetic = "Failed"
IdleStopFails == task # NoTask /\ MagneticFailed

Busy ==
  /\ call = "none" /\ ~HandleFinished
  /\ returned' = "Error"
  /\ UNCHANGED <<shared, task, magChannel, call, last, history, workers>>

\* The failure of the previous magnetic session is returned instead.
StartReportsFailure ==
  /\ call = "none" /\ HandleFinished /\ IdleStopFails
  /\ task' = NoTask /\ magChannel' = FALSE
  /\ returned' = "Error" /\ unreported' = NoTask
  /\ UNCHANGED <<shared, call, last, outlived, overwritten, workers>>

\* ensure_idle on an idle controller: a finished task is stopped, none is left.
MadeIdle ==
  /\ call = "none" /\ HandleFinished /\ ~IdleStopFails
  /\ task' = NoTask /\ magChannel' = FALSE
StoppedIfFinished ==
  IF task = NoTask THEN UNCHANGED <<state, dolby>> ELSE state' = "Stopped" /\ dolby' = NoTask

\* The simulator has no registers: the finished task is gone all the same.
StartInvalid ==
  /\ MadeIdle /\ StoppedIfFinished /\ returned' = "Error"
  /\ UNCHANGED <<op, magnetic, call, last, history, workers>>

\* set_config: another configuration forgets the results of the last task, the
\* same one keeps them.
SetConfig(changed) ==
  /\ MadeIdle /\ returned' = "Ok"
  /\ IF changed THEN state' = "Idle" /\ dolby' = NoTask /\ magnetic' = "Idle"
     ELSE StoppedIfFinished /\ UNCHANGED magnetic
  /\ UNCHANGED <<op, call, last, history, workers>>

StateOf(k) ==
  CASE k \in {"acquire", "magnetic"} -> "Connecting"
    [] k = "scan" -> "Scanning"
    [] k = "inspect" -> "Inspecting"
    [] k = "configure" -> "Configuring"

\* The shared state is prepared under one lock, then the worker is spawned.
Spawn(k) ==
  /\ last < MaxTasks
  /\ last' = last + 1 /\ task' = last + 1
  /\ magChannel' = (k = "magnetic")
  /\ state' = StateOf(k)
  /\ magnetic' = IF k = "magnetic" THEN "Running" ELSE "Idle"
  /\ dolby' = NoTask
  /\ op' = IF k \in {"inspect", "configure"} THEN [owner |-> last + 1, outcome |-> "Running"]
           ELSE IF k = "magnetic" THEN NoOperation ELSE op
  /\ kind' = [kind EXCEPT ![last + 1] = k]
  /\ pc' = [pc EXCEPT ![last + 1] = "spawned"]
  /\ returned' = "Ok"
  /\ UNCHANGED <<call, cancel, abort, result>>

\* Faulty variant of Start: the error of the previous session is dropped.
StartDroppingFailure(k) == call = "none" /\ HandleFinished /\ Spawn(k) /\ UNCHANGED history

Start(k) ==
  /\ call = "none" /\ HandleFinished /\ ~IdleStopFails
  /\ Spawn(k) /\ UNCHANGED history

-----------------------------------------------------------------------------
(***************************************************************************)
(* stop.                                                                   *)
(***************************************************************************)

\* Nothing runs: stop is idempotent.
StopNothing ==
  /\ call = "none" /\ task = NoTask
  /\ state' = "Stopped" /\ dolby' = NoTask /\ returned' = "Stopped" /\ overwritten' = FALSE
  /\ UNCHANGED <<op, magnetic, task, magChannel, call, last, unreported, outlived, workers>>

StopBegins ==
  /\ call = "none" /\ task # NoTask
  /\ cancel' = [cancel EXCEPT ![task] = TRUE]
  /\ call' = "stopping"
  /\ UNCHANGED <<shared, task, magChannel, returned, last, history, kind, pc, abort, result>>

\* Faulty variant of Signalled: the signal is sent when the work returns, and
\* the epilogue comes after it.
SignalledBeforeEpilogue(w) == pc[w] \in {"publish", "retire", "signal", "done", "finished"}
Signalled(w) == pc[w] \in {"done", "finished"}

StopReturns ==
  /\ call = "stopping" /\ Signalled(task)
  /\ call' = "none" /\ task' = NoTask /\ magChannel' = FALSE
  /\ IF MagneticFailed
       THEN returned' = "Error" /\ unreported' = NoTask /\ UNCHANGED <<state, dolby, overwritten>>
       ELSE /\ returned' = "Stopped" /\ state' = "Stopped" /\ dolby' = NoTask
            /\ overwritten' = FALSE /\ UNCHANGED unreported
  /\ UNCHANGED <<op, magnetic, last, outlived, workers>>

\* Faulty variant of StopTimesOut: the worker is left alone.
StopTimesOutWithoutAbort ==
  /\ call = "stopping" /\ ~Signalled(task)
  /\ call' = "aborting"
  /\ UNCHANGED <<shared, task, magChannel, returned, last, history, workers>>

StopTimesOut ==
  /\ call = "stopping" /\ ~Signalled(task)
  /\ abort' = [abort EXCEPT ![task] = TRUE]
  /\ call' = "aborting"
  /\ UNCHANGED <<shared, task, magChannel, returned, last, history, kind, pc, cancel, result>>

\* One more second is granted; only a blocked worker does not end in it.  It is
\* forgotten all the same, and stop says only that it timed out.
AbortReturns ==
  /\ call = "aborting"
  /\ Signalled(task) \/ pc[task] = "blocked"
  /\ outlived' = IF Signalled(task) THEN outlived ELSE outlived \cup {task}
  /\ state' = "Failed" /\ dolby' = NoTask
  /\ magnetic' = IF magChannel THEN "Failed" ELSE magnetic
  /\ call' = "none" /\ task' = NoTask /\ magChannel' = FALSE
  /\ returned' = "Error" /\ unreported' = NoTask
  /\ UNCHANGED <<op, last, overwritten, workers>>

-----------------------------------------------------------------------------
(***************************************************************************)
(* The worker.                                                             *)
(***************************************************************************)

Go(w, from, to) == pc[w] = from /\ pc' = [pc EXCEPT ![w] = to]

\* A worker that outlived its abort still writes the shared state.
Overwrites(w) == overwritten' = (overwritten \/ w \in outlived)
FacadeStays == UNCHANGED <<task, magChannel, call, returned, last, unreported, outlived>>

\* run installs the Dolby sender before it opens the source.
Begin(w) ==
  /\ Go(w, "spawned", "opening")
  /\ dolby' = IF kind[w] = "acquire" THEN w ELSE dolby
  /\ UNCHANGED <<state, op, magnetic, facade, kind, cancel, abort, result>>

\* A serial port is opened, and listed, by a call that holds its thread; an
\* acquisition looks at its cancellation first, the others do not.
Blocks(w) ==
  /\ Go(w, "opening", "blocked") /\ (kind[w] = "acquire" => ~cancel[w])
  /\ UNCHANGED <<shared, facade, kind, cancel, abort, result>>

OpenReturns(w) ==
  /\ Go(w, "opening", "working") \/ Go(w, "blocked", "working")
  /\ state' = CASE kind[w] = "acquire" -> "Connecting"
                [] kind[w] = "magnetic" -> "Magnetic"
                [] OTHER -> state
  /\ Overwrites(w) /\ FacadeStays
  /\ UNCHANGED <<op, dolby, magnetic, kind, cancel, abort, result>>

\* An acquisition publishes poses, loses its connection, or fails to open one
\* and tries again, unless it finds itself cancelled.
Acquires(w) ==
  /\ kind[w] = "acquire"
  /\ \/ Go(w, "working", "working") /\ state' \in {"Active", "Stale"}
     \/ Go(w, "working", "opening") /\ state' = "Reconnecting"
     \/ Go(w, "opening", "opening") /\ ~cancel[w] /\ state' \in {"Reconnecting", "Connecting"}
     \/ Go(w, "blocked", "opening") /\ state' = "Reconnecting"
  /\ Overwrites(w) /\ FacadeStays
  /\ UNCHANGED <<op, dolby, magnetic, kind, cancel, abort, result>>

\* A command of a magnetic session begins (configure_device) or ends.  A worker
\* that outlived its abort may have settled it meanwhile as if it were its own.
MagneticCommand(w) ==
  /\ kind[w] = "magnetic" /\ Go(w, "working", "working")
  /\ \/ /\ op.outcome # "Running" /\ task = w /\ call = "none"
        /\ op' = [owner |-> w, outcome |-> "Running"]
     \/ /\ op.owner = w /\ (op.outcome = "Running" \/ outlived # {})
        /\ \E o \in {"Succeeded", "Failed"} : op' = [op EXCEPT !.outcome = o]
  /\ UNCHANGED <<state, dolby, magnetic, facade, kind, cancel, abort, result>>

\* The work future returns.  An acquisition or a magnetic session never
\* returns Ok; an inspection and a control settle their operation first, and
\* after an abort find themselves cancelled instead.
Returns(w, r) ==
  /\ pc[w] \in {"opening", "blocked", "working"} /\ pc' = [pc EXCEPT ![w] = "publish"]
  /\ r = "Ok" => /\ pc[w] = "working" /\ kind[w] \notin {"acquire", "magnetic"}
                 /\ w \in outlived => kind[w] = "scan"
  /\ r = "Cancelled" => cancel[w]
  /\ result' = [result EXCEPT ![w] = r]
  /\ op' = IF r = "Ok" /\ kind[w] \in {"inspect", "configure"}
             THEN [op EXCEPT !.outcome = "Succeeded"] ELSE op
  /\ magnetic' = IF kind[w] = "magnetic" /\ r # "Panic"
                   THEN IF r = "Error" THEN "Failed" ELSE "Closed"
                   ELSE magnetic
  /\ unreported' = IF kind[w] = "magnetic" /\ r \in {"Error", "Panic"} /\ w \notin outlived
                     THEN w ELSE unreported
  /\ UNCHANGED <<state, dolby, task, magChannel, call, returned, last, outlived, overwritten,
                 kind, cancel, abort>>

StateAfter(r) ==
  CASE r = "Ok" -> "Complete" [] r = "Cancelled" -> "Stopped" [] OTHER -> "Failed"
\* A panic ends a magnetic session that has not told its own end.
MagneticAfter(r) == IF r = "Panic" /\ magnetic = "Running" THEN "Failed" ELSE magnetic

\* Faulty variant of Publish: a panic leaves the operation as it is.
PublishPanicOnly(w) ==
  /\ Go(w, "publish", "retire")
  /\ state' = StateAfter(result[w]) /\ magnetic' = MagneticAfter(result[w])
  /\ op' = IF op.outcome = "Running" /\ result[w] \in {"Cancelled", "Error"}
             THEN [op EXCEPT !.outcome = "Failed"] ELSE op
  /\ result' = [result EXCEPT ![w] = "None"]
  /\ Overwrites(w) /\ FacadeStays
  /\ UNCHANGED <<dolby, kind, cancel, abort>>

\* The epilogue of launch: the state and an operation still open, whosever they
\* are by now ...
Publish(w) ==
  /\ Go(w, "publish", "retire")
  /\ state' = StateAfter(result[w]) /\ magnetic' = MagneticAfter(result[w])
  /\ op' = IF op.outcome = "Running" /\ result[w] # "Ok"
             THEN [op EXCEPT !.outcome = IF result[w] = "Cancelled" THEN "Cancelled" ELSE "Failed"]
             ELSE op
  /\ result' = [result EXCEPT ![w] = "None"]
  /\ Overwrites(w) /\ FacadeStays
  /\ UNCHANGED <<dolby, kind, cancel, abort>>

\* ... then, under a second lock, the Dolby sender.
Retire(w) ==
  /\ Go(w, "retire", "signal") /\ dolby' = NoTask
  /\ UNCHANGED <<state, op, magnetic, facade, kind, cancel, abort, result>>

\* The completion guard is dropped last; the handle finishes after it.
Signal(w) ==
  /\ Go(w, "signal", "done")
  /\ UNCHANGED <<shared, facade, kind, cancel, abort, result>>
HandleFinishes(w) ==
  /\ Go(w, "done", "finished")
  /\ UNCHANGED <<shared, facade, kind, cancel, abort, result>>

\* The abort takes effect at an await: everything is dropped, the completion
\* guard last.
Aborted(w) ==
  /\ abort[w]
  /\ pc[w] \in {"spawned", "opening", "working"}
  /\ pc' = [pc EXCEPT ![w] = "done"]
  /\ UNCHANGED <<shared, facade, kind, cancel, abort, result>>

Worker(w) ==
  \/ Begin(w) \/ Blocks(w) \/ OpenReturns(w) \/ Acquires(w) \/ MagneticCommand(w)
  \/ \E r \in {"Ok", "Cancelled", "Error", "Panic"} : Returns(w, r)
  \/ Publish(w) \/ Retire(w) \/ Signal(w) \/ HandleFinishes(w)
  \/ Aborted(w)

Next ==
  \/ Busy \/ StartReportsFailure \/ StartInvalid
  \/ \E changed \in BOOLEAN : SetConfig(changed)
  \/ \E k \in Kinds : Start(k)
  \/ StopNothing \/ StopBegins \/ StopReturns \/ StopTimesOut \/ AbortReturns
  \/ \E w \in Workers : Worker(w)

Spec == Init /\ [][Next]_vars

\* A worker is scheduled while it can run, an aborted future is dropped at
\* its next await, and the waits of stop end.  Nothing is assumed of the work
\* itself: a future that never notices its cancellation is aborted.
FairSpec ==
  /\ Spec
  /\ \A w \in Workers :
       /\ WF_vars(Begin(w) \/ Publish(w) \/ Retire(w) \/ Signal(w) \/ HandleFinishes(w))
       /\ WF_vars(Aborted(w))
  /\ WF_vars(StopReturns \/ StopTimesOut) /\ WF_vars(AbortReturns)

-----------------------------------------------------------------------------
(***************************************************************************)
(* Properties.                                                             *)
(***************************************************************************)

\* Two tasks never share the device or the state, but for one case: the worker
\* that can still write and is not the controller's task is one whose stop told
\* of a timeout, after its cancellation and its abort had found it held in an
\* open (stop, controller.rs 443-461).
OneWorker ==
  \A w \in Workers :
    pc[w] \in Live => w = task \/ (w \in outlived /\ cancel[w] /\ abort[w])

\* stop that returned Ok left no Dolby output and no worker, and the state says
\* stopped until the next call.  Only a worker that an earlier stop had to leave
\* held in an open may still live and publish its own end over the state.
StopOkReleases ==
  returned = "Stopped" /\ call = "none" =>
    /\ state = "Stopped" \/ overwritten
    /\ dolby = NoTask
    /\ \A w \in Workers : pc[w] \in Live => w \in outlived

\* An operation reported as running has a worker that will end it.
RunningHasWorker ==
  op.outcome = "Running" => op.owner # NoTask /\ pc[op.owner] \in Live

\* The same, where the worker was not aborted: cancellation, errors and
\* panics of the worker all settle the operation before the task ends.
RunningHasWorkerUnlessAborted ==
  op.outcome = "Running" => op.owner # NoTask /\ (pc[op.owner] \in Live \/ abort[op.owner])

\* An operation that runs changes only by a step of its own worker, unless
\* that worker was aborted: no later command replaces it and no other task
\* settles it, but for one that outlived its abort and takes it for its own in
\* its epilogue (controller.rs 403-429).
OwnerSettles ==
  [][op.outcome = "Running" /\ op' # op =>
       \/ abort[op.owner]
       \/ /\ pc[op.owner] \in Live /\ op'.owner = op.owner
          /\ \A w \in Workers \ ({op.owner} \cup outlived) : pc'[w] = pc[w]]_vars

\* The failure of a magnetic session, which may leave the device calibrating,
\* is returned by a call before anything else is started, unless an earlier
\* magnetic session that outlived its abort has got out of its open: it ends
\* with finish, which clears the error of the later one (magnetic.rs 293-302).
MagneticFailureIsReported ==
  unreported # NoTask =>
    unreported = task \/ \E w \in outlived : kind[w] = "magnetic" /\ pc[w] # "blocked"

\* A cancelled worker ends, by itself or aborted, unless stop found it held in
\* an open and said that it timed out; stop returns in any case.
CancelledEnds ==
  /\ \A w \in Workers : cancel[w] ~> (pc[w] = "finished" \/ w \in outlived)
  /\ call # "none" ~> call = "none"

=============================================================================
