--------------------------- MODULE ControllerProofs ---------------------------
(***************************************************************************)
(* Proofs about the controller: its tasks (ControllerLifecycle), for any   *)
(* number of them, and the work of an acquisition task (Acquisition), for  *)
(* every value of its durations and whether or not the worker is prompt.   *)
(* An open may hold its thread through a stop and its abort: the theorems  *)
(* say what such a worker, of outlived, may still do and what it may not.  *)
(***************************************************************************)
EXTENDS ControllerLifecycle, Acquisition, TLAPS

-----------------------------------------------------------------------------
(***************************************************************************)
(* The tasks: the inductive invariant.                                     *)
(***************************************************************************)

Unfinished == {"spawned", "opening", "blocked", "working"}

\* A call in progress has a task that it cancelled, and later aborted; nobody
\* refers to a task not spawned yet.
Known ==
  /\ call # "none" => cancel[task]
  /\ call = "aborting" => abort[task]
  /\ task <= last /\ op.owner <= last

\* A worker that outlived its abort is no longer the task of the controller and
\* does not open anything again, but for an acquisition that tried to.
LeftBehind ==
  \A w \in outlived :
    /\ w # task /\ w <= last /\ cancel[w] /\ abort[w]
    /\ pc[w] \notin {"none", "spawned"} /\ (pc[w] = "opening" => kind[w] = "acquire")

\* Only a task whose work goes on, or whose epilogue will settle it, can own
\* a running operation.
Settles ==
  op.outcome = "Running" =>
    /\ op.owner # NoTask
    /\ \/ abort[op.owner]
       \/ pc[op.owner] \in Unfinished
       \/ pc[op.owner] = "publish" /\ result[op.owner] # "Ok"
OwnersHaveOperations ==
  op.owner # NoTask => kind[op.owner] \in {"inspect", "configure", "magnetic"}

\* The error of a magnetic session is set, or will be by its epilogue, as long
\* as the controller holds its channel, unless a magnetic session that outlived
\* its abort got out of its open and closed the one shared state.
ChannelOfTask == task # NoTask => (magChannel <=> kind[task] = "magnetic")
MagneticLoose == \E w \in outlived : kind[w] = "magnetic" /\ pc[w] # "blocked"
SessionRuns ==
  task # NoTask /\ kind[task] = "magnetic" /\ pc[task] \in Unfinished =>
    magnetic \in {"Running", "Failed"} \/ MagneticLoose
FailureIsKept ==
  unreported # NoTask =>
    \/ MagneticLoose
    \/ /\ unreported = task /\ kind[unreported] = "magnetic"
       /\ pc[unreported] \notin Unfinished
       /\ \/ magnetic = "Failed"
          \/ magnetic = "Running" /\ pc[unreported] = "publish" /\ result[unreported] = "Panic"

-----------------------------------------------------------------------------
(***************************************************************************)
(* Types.                                                                  *)
(***************************************************************************)

LEMMA LifecycleTypeInit == Init => TypeOK
<1>1. Workers \subseteq Int /\ NoTask \in Int
  BY ConstantsAssumption DEF Workers, NoTask
<1>2. ASSUME Init
      PROVE  op \in [owner : Workers \cup {NoTask},
                    outcome : {"None", "Running", "Succeeded", "Failed", "Cancelled"}]
  BY <1>2 DEF Init, NoOperation
<1>3. ASSUME Init
      PROVE  /\ kind \in [Workers -> Kinds]
             /\ pc \in [Workers -> Live \cup {"none", "done", "finished"}]
             /\ cancel \in [Workers -> BOOLEAN]
             /\ abort \in [Workers -> BOOLEAN]
             /\ result \in [Workers -> {"None", "Ok", "Cancelled", "Error", "Panic"}]
  BY <1>3 DEF Init, Kinds
<1>4. QED
  BY <1>2, <1>3 DEF Init, TypeOK

LEMMA SpawnKeepsTypes ==
  ASSUME TypeOK, NEW k \in Kinds, Spawn(k)
  PROVE  /\ state' \in {"Scanning", "Connecting", "Configuring", "Inspecting"}
         /\ last' \in Workers /\ task' = last' /\ dolby' = NoTask
         /\ magChannel' \in BOOLEAN /\ magnetic' \in {"Idle", "Running"}
         /\ op' \in [owner : Workers \cup {NoTask},
                     outcome : {"None", "Running", "Succeeded", "Failed", "Cancelled"}]
         /\ kind' \in [Workers -> Kinds]
         /\ pc' \in [Workers -> Live \cup {"none", "done", "finished"}]
         /\ returned' = "Ok"
<1>1. last + 1 \in Workers
  BY ConstantsAssumption DEF Spawn, TypeOK, Workers, NoTask
<1>2. state' \in {"Scanning", "Connecting", "Configuring", "Inspecting"}
  BY DEF Spawn, StateOf, Kinds
<1>3. op' \in [owner : Workers \cup {NoTask},
              outcome : {"None", "Running", "Succeeded", "Failed", "Cancelled"}]
  BY <1>1 DEF Spawn, TypeOK, NoOperation
<1>4. kind' \in [Workers -> Kinds]
  BY <1>1 DEF Spawn, TypeOK
<1>5. pc' \in [Workers -> Live \cup {"none", "done", "finished"}]
  BY <1>1 DEF Spawn, TypeOK, Live
<1>6. QED
  BY <1>1, <1>2, <1>3, <1>4, <1>5 DEF Spawn

\* The types of what is not a record or a function of the workers.
FlatTypes ==
  /\ state \in {"Idle", "Scanning", "Connecting", "Active", "Stale", "Reconnecting",
                "Stopped", "Failed", "Configuring", "Complete", "Inspecting", "Magnetic"}
  /\ dolby \in Workers \cup {NoTask}
  /\ magnetic \in {"Idle", "Running", "Closed", "Failed"}
  /\ task \in Workers \cup {NoTask} /\ magChannel \in BOOLEAN
  /\ call \in {"none", "stopping", "aborting"} /\ (call # "none" => task # NoTask)
  /\ returned \in {"None", "Ok", "Stopped", "Error"}
  /\ last \in Workers \cup {NoTask} /\ unreported \in Workers \cup {NoTask}
  /\ outlived \subseteq Workers /\ overwritten \in BOOLEAN

LEMMA OnlyFlatChange ==
  ASSUME TypeOK, UNCHANGED <<op, kind, pc, cancel, abort, result>>, FlatTypes'
  PROVE  TypeOK'
<1>1. /\ op' = op /\ kind' = kind /\ pc' = pc /\ cancel' = cancel
      /\ abort' = abort /\ result' = result
  OBVIOUS
<1>2. QED
  BY <1>1, Zenon DEF TypeOK, FlatTypes

LEMMA LifecycleTypeStep == TypeOK /\ [Next]_vars => TypeOK'
<1> SUFFICES ASSUME TypeOK, [Next]_vars PROVE TypeOK'
  OBVIOUS
<1> USE DEF TypeOK
<1>1. CASE Busy
  BY <1>1 DEF Busy, shared, history, workers
<1>2. CASE StartReportsFailure
  <2>1. /\ UNCHANGED <<state, op, dolby, magnetic, call, last, outlived, overwritten,
                       kind, pc, cancel, abort, result>>
        /\ task' = NoTask /\ magChannel' = FALSE /\ returned' = "Error" /\ unreported' = NoTask
        /\ call = "none"
    BY <1>2 DEF StartReportsFailure, shared, workers
  <2>2. FlatTypes'
    BY <2>1 DEF FlatTypes, NoTask
  <2>3. QED
    BY <2>1, <2>2, OnlyFlatChange
<1>3. CASE StartInvalid
  <2>1. /\ state' \in {"Idle", "Scanning", "Connecting", "Active", "Stale", "Reconnecting",
                      "Stopped", "Failed", "Configuring", "Complete", "Inspecting", "Magnetic"}
        /\ dolby' \in Workers \cup {NoTask}
    BY <1>3 DEF StartInvalid, StoppedIfFinished
  <2>2. /\ UNCHANGED <<op, magnetic, call, last, history, kind, pc, cancel, abort, result>>
        /\ task' = NoTask /\ magChannel' = FALSE /\ returned' = "Error" /\ call = "none"
    BY <1>3 DEF StartInvalid, MadeIdle, workers
  <2>3. QED
    BY <2>1, <2>2 DEF history
<1>4. ASSUME NEW changed \in BOOLEAN, SetConfig(changed) PROVE TypeOK'
  <2>1. /\ state' \in {"Idle", "Scanning", "Connecting", "Active", "Stale", "Reconnecting",
                      "Stopped", "Failed", "Configuring", "Complete", "Inspecting", "Magnetic"}
        /\ dolby' \in Workers \cup {NoTask}
        /\ magnetic' \in {"Idle", "Running", "Closed", "Failed"}
    BY <1>4 DEF SetConfig, StoppedIfFinished
  <2>2. /\ UNCHANGED <<op, call, last, history, kind, pc, cancel, abort, result>>
        /\ task' = NoTask /\ magChannel' = FALSE /\ returned' = "Ok" /\ call = "none"
    BY <1>4 DEF SetConfig, MadeIdle, workers
  <2>3. QED
    BY <2>1, <2>2 DEF history
<1>5. ASSUME NEW k \in Kinds, Start(k) PROVE TypeOK'
  <2>1. Spawn(k) /\ UNCHANGED history
    BY <1>5 DEF Start
  <2>2. UNCHANGED <<call, cancel, abort, result>>
    BY <2>1 DEF Spawn
  <2>3. QED
    BY <1>5, <2>1, <2>2, SpawnKeepsTypes DEF history, Start
<1>6. CASE StopNothing
  BY <1>6 DEF StopNothing, workers
<1>7. CASE StopBegins
  <2>1. cancel' \in [Workers -> BOOLEAN]
    BY <1>7 DEF StopBegins
  <2>2. /\ UNCHANGED <<state, op, dolby, magnetic, task, magChannel, returned, last, unreported,
                       outlived, overwritten, kind, pc, abort, result>>
        /\ call' = "stopping" /\ task' # NoTask
    BY <1>7 DEF StopBegins, shared, history
  <2>3. QED
    BY <2>1, <2>2
<1>8. CASE StopReturns
  <2>1. /\ UNCHANGED <<op, magnetic, last, outlived, kind, pc, cancel, abort, result>>
        /\ call' = "none" /\ task' = NoTask /\ magChannel' = FALSE
    BY <1>8 DEF StopReturns, workers
  <2>2. /\ state' \in {"Idle", "Scanning", "Connecting", "Active", "Stale", "Reconnecting",
                      "Stopped", "Failed", "Configuring", "Complete", "Inspecting", "Magnetic"}
        /\ dolby' \in Workers \cup {NoTask} /\ returned' \in {"Error", "Stopped"}
        /\ unreported' \in Workers \cup {NoTask} /\ overwritten' \in BOOLEAN
    BY <1>8 DEF StopReturns
  <2>3. FlatTypes'
    BY <2>1, <2>2 DEF FlatTypes, NoTask
  <2>4. QED
    BY <2>1, <2>3, OnlyFlatChange
<1>9. CASE StopTimesOut
  <2>1. abort' \in [Workers -> BOOLEAN]
    BY <1>9 DEF StopTimesOut
  <2>2. /\ UNCHANGED <<state, op, dolby, magnetic, task, magChannel, returned, last, unreported,
                       outlived, overwritten, kind, pc, cancel, result>>
        /\ call' = "aborting" /\ call = "stopping"
    BY <1>9 DEF StopTimesOut, shared, history
  <2>3. QED
    BY <2>1, <2>2
<1>10. CASE AbortReturns
  <2>1. outlived' \subseteq Workers
    BY <1>10 DEF AbortReturns
  <2>2. /\ UNCHANGED <<op, last, overwritten, kind, pc, cancel, abort, result>>
        /\ state' = "Failed" /\ dolby' = NoTask /\ magnetic' \in {"Failed", magnetic}
        /\ call' = "none" /\ task' = NoTask /\ magChannel' = FALSE
        /\ returned' = "Error" /\ unreported' = NoTask
    BY <1>10 DEF AbortReturns, workers
  <2>3. FlatTypes'
    BY <2>1, <2>2 DEF FlatTypes, NoTask
  <2>4. QED
    BY <2>2, <2>3, OnlyFlatChange
<1>11. ASSUME NEW w \in Workers, Worker(w) PROVE TypeOK'
  <2> USE DEF facade, history, FacadeStays, Overwrites
  <2>1. CASE Begin(w)
    BY <2>1 DEF Begin, Go, Live
  <2>2. CASE Blocks(w)
    BY <2>2 DEF Blocks, Go, shared, Live
  <2>3. CASE OpenReturns(w)
    BY <2>3 DEF OpenReturns, Go, Live
  <2>4. CASE Acquires(w)
    BY <2>4 DEF Acquires, Go, Live
  <2>5. CASE MagneticCommand(w)
    BY <2>5 DEF MagneticCommand, Go, Live
  <2>6. ASSUME NEW r \in {"Ok", "Cancelled", "Error", "Panic"}, Returns(w, r) PROVE TypeOK'
    BY <2>6 DEF Returns, Live
  <2>7. CASE Publish(w)
    BY <2>7 DEF Publish, StateAfter, MagneticAfter, Go, Live
  <2>8. CASE Retire(w)
    BY <2>8 DEF Retire, Go, Live
  <2>9. CASE Signal(w)
    BY <2>9 DEF Signal, Go, shared
  <2>10. CASE HandleFinishes(w)
    BY <2>10 DEF HandleFinishes, Go, shared
  <2>11. CASE Aborted(w)
    BY <2>11 DEF Aborted, shared
  <2>12. QED
    BY <1>11, <2>1, <2>2, <2>3, <2>4, <2>5, <2>6, <2>7, <2>8, <2>9, <2>10, <2>11 DEF Worker
<1>12. CASE UNCHANGED vars
  BY <1>12 DEF vars, shared, facade, history, workers
<1>13. QED
  BY <1>1, <1>2, <1>3, <1>4, <1>5, <1>6, <1>7, <1>8, <1>9, <1>10, <1>11, <1>12 DEF Next

\* The types of the facade and of every worker, for any number of tasks.
THEOREM LifecycleTypeCorrect == Spec => []TypeOK
<1>1. QED
  BY LifecycleTypeInit, LifecycleTypeStep, PTL DEF Spec

-----------------------------------------------------------------------------
(***************************************************************************)
(* One worker at a time.                                                   *)
(***************************************************************************)

\* What a step of a worker does to the program counters.
LEMMA WorkerMoves ==
  ASSUME TypeOK, NEW w \in Workers, Worker(w)
  PROVE  /\ UNCHANGED <<task, magChannel, call, returned, last, outlived, kind, cancel, abort>>
         /\ \A v \in Workers \ {w} : pc'[v] = pc[v] /\ result'[v] = result[v]
         /\ pc[w] \in Live \/ (pc[w] = "done" /\ pc'[w] = "finished")
<1> USE DEF TypeOK, Live, facade, history, FacadeStays
<1>1. CASE Begin(w)
  BY <1>1 DEF Begin, Go
<1>2. CASE Blocks(w)
  BY <1>2 DEF Blocks, Go
<1>3. CASE OpenReturns(w)
  BY <1>3 DEF OpenReturns, Go
<1>4. CASE Acquires(w)
  BY <1>4 DEF Acquires, Go
<1>5. CASE MagneticCommand(w)
  BY <1>5 DEF MagneticCommand, Go
<1>6. ASSUME NEW r \in {"Ok", "Cancelled", "Error", "Panic"}, Returns(w, r)
      PROVE  /\ UNCHANGED <<task, magChannel, call, returned, last, outlived, kind, cancel, abort>>
             /\ \A v \in Workers \ {w} : pc'[v] = pc[v] /\ result'[v] = result[v]
             /\ pc[w] \in Live
  BY <1>6 DEF Returns
<1>7. CASE Publish(w)
  BY <1>7 DEF Publish, Go
<1>8. CASE Retire(w)
  BY <1>8 DEF Retire, Go
<1>9. CASE Signal(w)
  BY <1>9 DEF Signal, Go
<1>10. CASE HandleFinishes(w)
  BY <1>10 DEF HandleFinishes, Go
<1>11. CASE Aborted(w)
  BY <1>11 DEF Aborted
<1>12. QED
  BY <1>1, <1>2, <1>3, <1>4, <1>5, <1>6, <1>7, <1>8, <1>9, <1>10, <1>11 DEF Worker

\* Where it takes its own: only an acquisition goes back to open, unless it is
\* cancelled, and no worker gets into a synchronous open but from there.
LEMMA WorkerGoes ==
  ASSUME TypeOK, NEW w \in Workers, Worker(w)
  PROVE  /\ pc'[w] \notin {"none", "spawned"}
         /\ pc'[w] = "opening" => pc[w] = "spawned" \/ kind[w] = "acquire"
         /\ pc'[w] = "blocked" => pc[w] = "opening" /\ (kind[w] = "acquire" => ~cancel[w])
<1> USE DEF TypeOK
<1>1. CASE Begin(w)
  BY <1>1 DEF Begin, Go
<1>2. CASE Blocks(w)
  BY <1>2 DEF Blocks, Go
<1>3. CASE OpenReturns(w) \/ MagneticCommand(w)
  BY <1>3 DEF OpenReturns, MagneticCommand, Go
<1>4. CASE Acquires(w)
  BY <1>4 DEF Acquires, Go
<1>5. ASSUME NEW r \in {"Ok", "Cancelled", "Error", "Panic"}, Returns(w, r)
      PROVE  pc'[w] = "publish"
  BY <1>5 DEF Returns
<1>6. CASE Publish(w) \/ Retire(w) \/ Signal(w) \/ HandleFinishes(w) \/ Aborted(w)
  BY <1>6 DEF Publish, Retire, Signal, HandleFinishes, Aborted, Go
<1>7. QED
  BY <1>1, <1>2, <1>3, <1>4, <1>5, <1>6 DEF Worker

OnlyOutlived == \A w \in Workers : pc[w] \in Live => w \in outlived
Alone == TypeOK /\ Known /\ OneWorker /\ LeftBehind

\* Where the task has ended, only workers that outlived their abort are left.
LEMMA EndedMeansNone ==
  ASSUME Alone, task = NoTask \/ pc[task] \notin Live
  PROVE  OnlyOutlived
BY DEF Alone, OneWorker, OnlyOutlived, NoTask, Workers
LEMMA FinishedMeansNone == ASSUME Alone, HandleFinished PROVE OnlyOutlived
BY EndedMeansNone DEF HandleFinished, Live
LEMMA SignalledMeansNone == ASSUME Alone, Signalled(task) PROVE OnlyOutlived
BY EndedMeansNone DEF Signalled, Live

LEMMA AloneInit == Init => Alone
<1>1. Init => Known /\ OneWorker /\ LeftBehind
  BY DEF Init, Known, OneWorker, LeftBehind, NoOperation, NoTask, Live
<1>2. QED
  BY <1>1, LifecycleTypeInit DEF Alone

\* The operation is only ever given to a task that was spawned.
LEMMA OwnerIsKnown ==
  ASSUME Alone, NEW w \in Workers, Worker(w)
  PROVE  op'.owner \in {op.owner, task}
<1> USE DEF Alone, TypeOK
<1>1. CASE MagneticCommand(w)
  BY <1>1 DEF MagneticCommand
<1>2. ASSUME NEW r \in {"Ok", "Cancelled", "Error", "Panic"}, Returns(w, r)
      PROVE  op'.owner = op.owner
  BY <1>2 DEF Returns
<1>3. CASE Publish(w)
  BY <1>3 DEF Publish
<1>4. CASE Begin(w) \/ Blocks(w) \/ OpenReturns(w) \/ Acquires(w) \/ Retire(w) \/ Signal(w)
           \/ HandleFinishes(w) \/ Aborted(w)
  BY <1>4 DEF Begin, Blocks, OpenReturns, Acquires, Retire, Signal, HandleFinishes, Aborted, shared
<1>5. QED
  BY <1>1, <1>2, <1>3, <1>4 DEF Worker

\* The calls that neither spawn a task nor touch one.
Quiet ==
  \/ Busy \/ StartReportsFailure \/ StartInvalid \/ (\E changed \in BOOLEAN : SetConfig(changed))
  \/ StopNothing \/ StopBegins \/ StopTimesOut \/ UNCHANGED vars
\* What they leave as it is.
LEMMA QuietKeeps ==
  ASSUME Quiet
  PROVE  /\ UNCHANGED <<op, last, outlived, kind, pc, result>>
         /\ task' = task \/ (task' = NoTask /\ call = "none" /\ HandleFinished)
         /\ cancel' = cancel \/ (cancel' = [cancel EXCEPT ![task] = TRUE] /\ task' = task)
         /\ abort' = abort \/ (abort' = [abort EXCEPT ![task] = TRUE] /\ task' = task)
         /\ \/ call' = call
            \/ call' = "stopping" /\ task # NoTask /\ cancel' = [cancel EXCEPT ![task] = TRUE]
            \/ call' = "aborting" /\ call = "stopping" /\ abort' = [abort EXCEPT ![task] = TRUE]
BY DEF Quiet, Busy, StartReportsFailure, StartInvalid, SetConfig, MadeIdle, StopNothing,
   StopBegins, StopTimesOut, vars, shared, facade, history, workers
LEMMA AloneStep ==
  ASSUME Alone, [Next]_vars
  PROVE  Alone'
<1>1. TypeOK'
  BY LifecycleTypeStep DEF Alone
<1>2. CASE Quiet
  <2>1. /\ UNCHANGED <<op, last, outlived, kind, pc, result>>
        /\ task' = task \/ (task' = NoTask /\ call = "none" /\ HandleFinished)
    BY <1>2, QuietKeeps
  <2>2. /\ \A v \in Workers : cancel[v] => cancel'[v]
        /\ \A v \in Workers : abort[v] => abort'[v]
    BY <1>2, QuietKeeps DEF Alone, TypeOK
  <2>3. task \in Workers \cup {NoTask} /\ op.owner \in Workers \cup {NoTask}
        /\ last \in Workers \cup {NoTask} /\ outlived \subseteq Workers
    BY DEF Alone, TypeOK
  <2>4. call' # "none" => task' = task /\ task \in Workers /\ cancel'[task]
        /\ (call' = "aborting" => abort'[task])
    <3>1. CASE call' = call
      BY <1>2, <2>1, <2>2, <2>3, <3>1 DEF Alone, TypeOK, Known
    <3>2. CASE call' = "stopping" /\ task # NoTask /\ cancel' = [cancel EXCEPT ![task] = TRUE]
      BY <1>2, <2>1, <2>3, <3>2, <1>1, QuietKeeps DEF Alone, TypeOK
    <3>3. CASE call' = "aborting" /\ call = "stopping" /\ abort' = [abort EXCEPT ![task] = TRUE]
      BY <1>2, <2>1, <2>2, <2>3, <3>3 DEF Alone, TypeOK, Known
    <3>4. QED
      BY <1>2, <3>1, <3>2, <3>3, QuietKeeps
  <2>5. Known'
    <3>1. task' <= last' /\ op'.owner <= last'
      BY <2>1, <2>3 DEF Alone, Known, Workers, NoTask
    <3>2. QED
      BY <2>4, <3>1 DEF Known
  <2>6. OneWorker'
    <3>1. CASE task' = task
      BY <2>1, <2>2, <3>1 DEF Alone, OneWorker
    <3>2. CASE HandleFinished
      <4>1. OnlyOutlived
        BY <3>2, FinishedMeansNone
      <4>2. QED
        BY <2>1, <2>2, <4>1 DEF Alone, OneWorker, LeftBehind, OnlyOutlived
    <3>3. QED
      BY <2>1, <3>1, <3>2
  <2>7. LeftBehind'
    BY <2>1, <2>2, <2>3 DEF Alone, LeftBehind, Workers, NoTask
  <2>8. QED
    BY <1>1, <2>5, <2>6, <2>7 DEF Alone
<1>3. CASE StopReturns
  <2>1. /\ Signalled(task) /\ task' = NoTask /\ call' = "none"
        /\ UNCHANGED <<op, last, outlived, kind, pc, cancel, abort>>
    BY <1>3 DEF StopReturns, workers
  <2>2. OnlyOutlived
    BY <2>1, SignalledMeansNone
  <2>3. Known' /\ OneWorker' /\ LeftBehind'
    BY <2>1, <2>2
       DEF Alone, TypeOK, Known, OneWorker, LeftBehind, OnlyOutlived, Workers, NoTask
  <2>4. QED
    BY <1>1, <2>3 DEF Alone
<1>4. CASE AbortReturns
  <2>1. /\ call = "aborting" /\ task' = NoTask /\ call' = "none"
        /\ UNCHANGED <<op, last, kind, pc, cancel, abort>>
        /\ Signalled(task) \/ pc[task] = "blocked"
        /\ outlived' = IF Signalled(task) THEN outlived ELSE outlived \cup {task}
    BY <1>4 DEF AbortReturns, workers
  <2>2. task \in Workers /\ cancel[task] /\ abort[task] /\ task <= last
    BY <2>1 DEF Alone, TypeOK, Known
  <2>3. Known'
    BY <2>1 DEF Alone, TypeOK, Known, Workers, NoTask
  <2>4. CASE Signalled(task)
    <3>1. OnlyOutlived
      BY <2>4, SignalledMeansNone
    <3>2. OneWorker' /\ LeftBehind'
      BY <2>1, <2>4, <3>1
         DEF Alone, TypeOK, OneWorker, LeftBehind, OnlyOutlived, Workers, NoTask
    <3>3. QED
      BY <1>1, <2>3, <3>2 DEF Alone
  <2>5. CASE ~Signalled(task)
    <3>1. pc[task] = "blocked" /\ outlived' = outlived \cup {task}
      BY <2>1, <2>5
    <3>2. OneWorker'
      BY <2>1, <2>2, <3>1 DEF Alone, OneWorker, LeftBehind
    <3>3. LeftBehind'
      BY <2>1, <2>2, <3>1 DEF Alone, TypeOK, LeftBehind, Workers, NoTask
    <3>4. QED
      BY <1>1, <2>3, <3>2, <3>3 DEF Alone
  <2>6. QED
    BY <2>4, <2>5
<1>5. ASSUME NEW k \in Kinds, Start(k) PROVE Alone'
  <2>1. OnlyOutlived
    BY <1>5, FinishedMeansNone DEF Start
  <2>2. /\ task' = last + 1 /\ last' = last + 1 /\ call = "none" /\ call' = call
        /\ op'.owner \in {op.owner, NoTask, last + 1}
        /\ UNCHANGED <<outlived, cancel, abort>>
    BY <1>5 DEF Start, Spawn, NoOperation, history
  <2>3. \A v \in Workers : v # last + 1 => pc'[v] = pc[v] /\ kind'[v] = kind[v]
    BY <1>5 DEF Start, Spawn, Alone, TypeOK
  <2>4. /\ last \in Workers \cup {NoTask} /\ op.owner \in Workers \cup {NoTask}
        /\ op.owner <= last /\ outlived \subseteq Workers
        /\ \A v \in outlived : v <= last /\ v # last + 1
    BY DEF Alone, TypeOK, Known, LeftBehind, Workers, NoTask
  <2>5. Known'
    BY <2>2, <2>4 DEF Known, Workers, NoTask
  <2>6. OneWorker'
    BY <2>1, <2>2, <2>3 DEF Alone, OneWorker, OnlyOutlived, LeftBehind
  <2>7. LeftBehind'
    BY <2>2, <2>3, <2>4 DEF Alone, LeftBehind, Workers, NoTask
  <2>8. QED
    BY <1>1, <2>5, <2>6, <2>7 DEF Alone
<1>6. ASSUME NEW w \in Workers, Worker(w) PROVE Alone'
  <2>1. /\ UNCHANGED <<task, last, call, outlived, kind, cancel, abort>>
        /\ \A v \in Workers \ {w} : pc'[v] = pc[v]
        /\ pc[w] \in Live \/ pc'[w] = "finished"
    BY <1>6, WorkerMoves DEF Alone
  <2>2. op'.owner \in {op.owner, task}
    BY <1>6, OwnerIsKnown
  <2>3. Known'
    BY <2>1, <2>2 DEF Alone, Known
  <2>4. OneWorker'
    BY <2>1 DEF Alone, OneWorker, Live
  <2>5. /\ pc'[w] \notin {"none", "spawned"}
        /\ pc'[w] = "opening" => pc[w] = "spawned" \/ kind[w] = "acquire"
    BY <1>6, WorkerGoes DEF Alone
  <2>6. LeftBehind'
    BY <2>1, <2>5 DEF Alone, TypeOK, LeftBehind
  <2>7. QED
    BY <1>1, <2>3, <2>4, <2>6 DEF Alone
<1>7. QED
  BY <1>2, <1>3, <1>4, <1>5, <1>6 DEF Next, Quiet

\* Whatever the calls, cancellations, panics and aborts, and however long opens
\* hold their threads, a worker that can write the shared state is the task the
\* controller knows, or one whose stop told of a timeout after it had cancelled
\* and aborted it (stop, controller.rs 443-461).
THEOREM WorkersAreAlone == Spec => []OneWorker
<1>1. Alone /\ [Next]_vars => Alone'
  BY AloneStep
<1>2. Alone => OneWorker
  BY DEF Alone
<1>3. QED
  BY <1>1, <1>2, AloneInit, PTL DEF Spec

-----------------------------------------------------------------------------
(***************************************************************************)
(* What a successful stop leaves behind.                                   *)
(***************************************************************************)

\* Only the task installs the Dolby sender; a worker that outlived its abort
\* leaves a mark when it writes the state.
LEMMA OutlivedWrites ==
  ASSUME Alone, NEW w \in Workers, w \in outlived, Worker(w)
  PROVE  /\ state' = state \/ overwritten'
         /\ overwritten => overwritten'
         /\ dolby = NoTask => dolby' = NoTask
<1>0. pc[w] # "spawned" /\ overwritten \in BOOLEAN
  BY DEF Alone, TypeOK, LeftBehind
<1> USE DEF facade, history, Overwrites
<1>1. ~Begin(w)
  BY <1>0 DEF Begin, Go
<1>2. CASE Blocks(w) \/ Signal(w) \/ HandleFinishes(w) \/ Aborted(w)
  BY <1>2 DEF Blocks, Signal, HandleFinishes, Aborted, shared
<1>3. CASE OpenReturns(w)
  BY <1>3 DEF OpenReturns
<1>4. CASE Acquires(w)
  BY <1>4 DEF Acquires
<1>5. CASE MagneticCommand(w)
  BY <1>5 DEF MagneticCommand
<1>6. ASSUME NEW r \in {"Ok", "Cancelled", "Error", "Panic"}, Returns(w, r)
      PROVE  UNCHANGED <<state, dolby, overwritten>>
  BY <1>6 DEF Returns
<1>7. CASE Publish(w)
  BY <1>7 DEF Publish
<1>8. CASE Retire(w)
  BY <1>8 DEF Retire
<1>9. QED
  BY <1>1, <1>2, <1>3, <1>4, <1>5, <1>6, <1>7, <1>8 DEF Worker

\* The end of a handle says nothing more.
LEMMA DoneOnlyFinishes ==
  ASSUME NEW w \in Workers, Worker(w), pc[w] = "done"
  PROVE  HandleFinishes(w)
BY DEF Worker, Begin, Blocks, OpenReturns, Acquires, MagneticCommand, Returns, Publish, Retire,
   Signal, Aborted, Go

LEMMA ReleasedStep ==
  ASSUME Alone, StopOkReleases, [Next]_vars
  PROVE  StopOkReleases'
<1> USE DEF StopOkReleases
<1>1. CASE Busy \/ StartReportsFailure \/ StartInvalid \/ StopBegins \/ StopTimesOut \/ AbortReturns
  BY <1>1
     DEF Busy, StartReportsFailure, StartInvalid, StopBegins, StopTimesOut, AbortReturns
<1>2. ASSUME NEW changed \in BOOLEAN, SetConfig(changed) PROVE StopOkReleases'
  BY <1>2 DEF SetConfig
<1>3. CASE StopNothing
  <2>1. OnlyOutlived
    BY <1>3, FinishedMeansNone DEF StopNothing, HandleFinished
  <2>2. QED
    BY <1>3, <2>1 DEF StopNothing, OnlyOutlived, workers
<1>4. CASE StopReturns
  <2>1. OnlyOutlived
    BY <1>4, SignalledMeansNone DEF StopReturns
  <2>2. UNCHANGED <<outlived, pc>>
    BY <1>4 DEF StopReturns, workers
  <2>3. returned' = "Stopped" => state' = "Stopped" /\ dolby' = NoTask
    BY <1>4 DEF StopReturns
  <2>4. QED
    BY <2>1, <2>2, <2>3 DEF OnlyOutlived
<1>5. ASSUME NEW k \in Kinds, Start(k) PROVE StopOkReleases'
  BY <1>5 DEF Start, Spawn
<1>6. ASSUME NEW w \in Workers, Worker(w), returned = "Stopped", call = "none"
      PROVE  StopOkReleases'
  <2>1. /\ outlived' = outlived /\ \A v \in Workers \ {w} : pc'[v] = pc[v]
        /\ pc[w] \in Live \/ (pc[w] = "done" /\ pc'[w] = "finished")
    BY <1>6, WorkerMoves DEF Alone
  <2>2. CASE pc[w] \in Live
    <3>1. w \in outlived
      BY <1>6, <2>2
    <3>2. (state' = "Stopped" \/ overwritten') /\ dolby' = NoTask
      BY <1>6, <3>1, OutlivedWrites
    <3>3. \A v \in Workers : pc'[v] \in Live => v \in outlived'
      BY <1>6, <2>1, <3>1
    <3>4. QED
      BY <3>2, <3>3
  <2>3. CASE pc[w] \notin Live
    <3>1. HandleFinishes(w) /\ pc'[w] = "finished"
      BY <1>6, <2>1, <2>3, DoneOnlyFinishes
    <3>2. UNCHANGED <<state, dolby, overwritten>>
      BY <3>1 DEF HandleFinishes, shared, facade, history
    <3>3. \A v \in Workers : pc'[v] \in Live => v \in outlived'
      BY <1>6, <2>1, <3>1 DEF Live
    <3>4. QED
      BY <1>6, <3>2, <3>3
  <2>4. QED
    BY <2>2, <2>3
<1>7. ASSUME NEW w \in Workers, Worker(w), ~(returned = "Stopped" /\ call = "none")
      PROVE  StopOkReleases'
  BY <1>7, WorkerMoves DEF Alone
<1>8. CASE UNCHANGED vars
  BY <1>8 DEF vars, shared, facade, history, workers
<1>9. QED
  BY <1>1, <1>2, <1>3, <1>4, <1>5, <1>6, <1>7, <1>8 DEF Next

\* A stop that returned Ok leaves no Dolby output, no worker but those an earlier
\* stop had left in a blocked open, and a stopped state until the next call,
\* which only one of those can overwrite (stop, controller.rs 462-471).
THEOREM StopLeavesNothing == Spec => []StopOkReleases
<1>1. Init => StopOkReleases
  BY DEF Init, StopOkReleases
<1>2. Alone /\ [Next]_vars => Alone'
  BY AloneStep
<1>3. Alone /\ StopOkReleases /\ [Next]_vars => StopOkReleases'
  BY ReleasedStep
<1>4. QED
  BY <1>1, <1>2, <1>3, AloneInit, PTL DEF Spec

-----------------------------------------------------------------------------
(***************************************************************************)
(* The end of an operation.                                                *)
(***************************************************************************)

LEMMA NewTaskIsFresh ==
  ASSUME Alone, NEW k \in Kinds, Spawn(k)
  PROVE  last + 1 \in Workers /\ op.owner # last + 1 /\ last + 1 # NoTask
<1>1. last + 1 \in Workers
  BY SpawnKeepsTypes DEF Spawn, Alone
<1>2. op.owner \in Workers \cup {NoTask} /\ last \in Workers \cup {NoTask} /\ op.owner <= last
  BY DEF Alone, TypeOK, Known
<1>3. QED
  BY <1>1, <1>2 DEF Workers, NoTask

LEMMA OwnerKindsStep ==
  ASSUME Alone, OwnersHaveOperations, [Next]_vars
  PROVE  OwnersHaveOperations'
<1> USE DEF OwnersHaveOperations
<1>1. CASE Quiet \/ StopReturns \/ AbortReturns
  BY <1>1, QuietKeeps DEF StopReturns, AbortReturns, workers
<1>2. ASSUME NEW k \in Kinds, Start(k) PROVE OwnersHaveOperations'
  <2>1. last + 1 \in Workers /\ op.owner # last + 1
    BY <1>2, NewTaskIsFresh DEF Start
  <2>2. /\ kind' = [kind EXCEPT ![last + 1] = k]
        /\ \/ op' = op
           \/ op'.owner = NoTask
           \/ op'.owner = last + 1 /\ k \in {"inspect", "configure"}
    BY <1>2 DEF Start, Spawn, NoOperation
  <2>3. QED
    BY <2>1, <2>2 DEF Alone, TypeOK
<1>3. ASSUME NEW w \in Workers, Worker(w) PROVE OwnersHaveOperations'
  <2>1. kind' = kind /\ (op'.owner = op.owner \/ MagneticCommand(w))
    <3>1. ASSUME NEW r \in {"Ok", "Cancelled", "Error", "Panic"}, Returns(w, r)
          PROVE  op'.owner = op.owner
      BY <3>1 DEF Returns, Alone, TypeOK
    <3>2. CASE Publish(w)
      BY <1>3, <3>2, WorkerMoves DEF Publish, Alone, TypeOK
    <3>3. CASE Begin(w) \/ Blocks(w) \/ OpenReturns(w) \/ Acquires(w) \/ Retire(w) \/ Signal(w)
           \/ HandleFinishes(w) \/ Aborted(w)
      BY <1>3, <3>3, WorkerMoves
         DEF Begin, Blocks, OpenReturns, Acquires, Retire, Signal, HandleFinishes,
         Aborted, shared, Alone
    <3>4. QED
      BY <1>3, <3>1, <3>2, <3>3, WorkerMoves DEF Worker, Alone
  <2>2. CASE MagneticCommand(w)
    BY <2>1, <2>2 DEF MagneticCommand, Alone, TypeOK
  <2>3. QED
    BY <2>1, <2>2
<1>4. QED
  BY <1>1, <1>2, <1>3 DEF Next, Quiet

LEMMA SettlesStep ==
  ASSUME Alone, Settles, OwnersHaveOperations, [Next]_vars
  PROVE  Settles'
<1> USE DEF Settles
<1>1. CASE Quiet \/ StopReturns \/ AbortReturns
  <2>1. /\ UNCHANGED <<op, pc, result>>
        /\ abort' = abort \/ abort' = [abort EXCEPT ![task] = TRUE]
    BY <1>1, QuietKeeps DEF StopReturns, AbortReturns, workers
  <2>2. \A v \in Workers : abort[v] => abort'[v]
    BY <2>1 DEF Alone, TypeOK
  <2>3. op.owner \in Workers \cup {NoTask}
    BY DEF Alone, TypeOK
  <2>4. QED
    BY <2>1, <2>2, <2>3
<1>2. ASSUME NEW k \in Kinds, Start(k) PROVE Settles'
  <2>1. last + 1 \in Workers /\ op.owner # last + 1 /\ last + 1 # NoTask
    BY <1>2, NewTaskIsFresh DEF Start
  <2>2. /\ pc' = [pc EXCEPT ![last + 1] = "spawned"] /\ abort' = abort /\ result' = result
        /\ \/ op' = op
           \/ op'.outcome = "None"
           \/ op'.owner = last + 1
    BY <1>2 DEF Start, Spawn, NoOperation
  <2>3. /\ \A v \in Workers \ {last + 1} : pc'[v] = pc[v]
        /\ pc'[last + 1] = "spawned" /\ op.owner \in Workers \cup {NoTask}
    BY <2>1, <2>2 DEF Alone, TypeOK
  <2>4. QED
    BY <2>1, <2>2, <2>3 DEF Unfinished
<1>3. ASSUME NEW w \in Workers, Worker(w) PROVE Settles'
  <2> USE DEF Unfinished
  <2>1. /\ abort' = abort /\ w # NoTask
        /\ \A v \in Workers \ {w} : pc'[v] = pc[v] /\ result'[v] = result[v]
        /\ op \in [owner : Workers \cup {NoTask},
                   outcome : {"None", "Running", "Succeeded", "Failed", "Cancelled"}]
        /\ pc \in [Workers -> Live \cup {"none", "done", "finished"}]
        /\ result \in [Workers -> {"None", "Ok", "Cancelled", "Error", "Panic"}]
    BY <1>3, WorkerMoves DEF Alone, TypeOK, Workers, NoTask
  <2>2. CASE Begin(w) \/ Blocks(w) \/ OpenReturns(w) \/ Acquires(w)
    <3>1. pc[w] \in Unfinished /\ pc'[w] \in Unfinished /\ op' = op
      BY <2>1, <2>2 DEF Begin, Blocks, OpenReturns, Acquires, Go, shared
    <3>2. QED
      BY <2>1, <3>1
  <2>3. CASE MagneticCommand(w)
    BY <2>1, <2>3 DEF MagneticCommand, Go
  <2>4. ASSUME NEW r \in {"Ok", "Cancelled", "Error", "Panic"}, Returns(w, r) PROVE Settles'
    <3>1. /\ pc[w] \in Unfinished /\ pc'[w] = "publish" /\ result'[w] = r
          /\ op' = op \/ op'.outcome = "Succeeded"
      BY <2>1, <2>4 DEF Returns
    <3>2. r = "Ok" /\ op.owner = w => op'.outcome = "Succeeded"
      BY <2>1, <2>4 DEF Returns, OwnersHaveOperations
    <3>3. QED
      BY <2>1, <3>1, <3>2
  <2>5. CASE Publish(w)
    <3>1. /\ pc[w] = "publish"
          /\ op'.outcome # "Running" \/ (op' = op /\ result[w] = "Ok")
      BY <2>1, <2>5 DEF Publish, Go
    <3>2. QED
      BY <2>1, <3>1
  <2>6. CASE Retire(w) \/ Signal(w) \/ HandleFinishes(w)
    <3>1. pc[w] \in {"retire", "signal", "done"} /\ op' = op
      BY <2>6 DEF Retire, Signal, HandleFinishes, Go, shared
    <3>2. QED
      BY <2>1, <3>1
  <2>7. CASE Aborted(w)
    BY <2>1, <2>7 DEF Aborted, shared
  <2>8. QED
    BY <1>3, <2>2, <2>3, <2>4, <2>5, <2>6, <2>7 DEF Worker
<1>4. QED
  BY <1>1, <1>2, <1>3 DEF Next, Quiet

OperationsSettle == Alone /\ Settles /\ OwnersHaveOperations

LEMMA OperationsSettleAlways == Spec => []OperationsSettle
<1>1. Init => OperationsSettle
  BY AloneInit DEF Init, OperationsSettle, Settles, OwnersHaveOperations, NoOperation
<1>2. OperationsSettle /\ [Next]_vars => OperationsSettle'
  BY AloneStep, SettlesStep, OwnerKindsStep DEF OperationsSettle
<1>3. QED
  BY <1>1, <1>2, PTL DEF Spec

\* An operation reported as running has a worker that will settle it, or had
\* one that was aborted.
THEOREM OperationsAreSettled == Spec => []RunningHasWorkerUnlessAborted
<1>1. OperationsSettle => RunningHasWorkerUnlessAborted
  BY DEF OperationsSettle, Settles, RunningHasWorkerUnlessAborted, Unfinished, Live
<1>2. QED
  BY <1>1, OperationsSettleAlways, PTL

\* No other task settles an operation that runs, and no command replaces it, but
\* for a worker that outlived its abort and ends in the epilogue of launch.
THEOREM OnlyOwnersSettle == Spec => OwnerSettles
<1> DEFINE Mine ==
      \/ abort[op.owner]
      \/ /\ pc[op.owner] \in Live /\ op'.owner = op.owner
         /\ \A w \in Workers \ ({op.owner} \cup outlived) : pc'[w] = pc[w]
<1>1. ASSUME OperationsSettle, [Next]_vars, op.outcome = "Running", op' # op PROVE Mine
  <2>1. /\ op.owner \in Workers
        /\ abort[op.owner] \/ (pc[op.owner] \in Live /\ op.owner = task)
    BY <1>1 DEF OperationsSettle, Alone, Settles, Unfinished, Live, OneWorker, TypeOK
  <2>2. ASSUME NEW k \in Kinds, Start(k) PROVE Mine
    <3>1. OnlyOutlived
      BY <1>1, <2>2, FinishedMeansNone DEF Start, OperationsSettle
    <3>2. QED
      BY <1>1, <2>1, <3>1 DEF OnlyOutlived, OperationsSettle, Alone, LeftBehind
  <2>3. ASSUME NEW w \in Workers, Worker(w) PROVE Mine
    <3>1. /\ \A v \in Workers \ {w} : pc'[v] = pc[v]
          /\ pc[w] \in Live \/ pc[w] = "done"
          /\ op'.owner \in {op.owner, task}
      BY <1>1, <2>3, WorkerMoves, OwnerIsKnown DEF OperationsSettle, Alone
    <3>2. pc[w] \in Live
      <4>1. ~HandleFinishes(w)
        BY <1>1 DEF HandleFinishes, shared
      <4>2. QED
        BY <2>3, <3>1, <4>1, DoneOnlyFinishes
    <3>3. w = task \/ w \in outlived
      BY <1>1, <3>2 DEF OperationsSettle, Alone, OneWorker
    <3>4. QED
      BY <2>1, <3>1, <3>3
  <2>4. QED
    BY <1>1, <2>2, <2>3
       DEF Next, Busy, StartReportsFailure, StartInvalid, SetConfig, StopNothing,
       StopBegins, StopTimesOut, StopReturns, AbortReturns, vars, shared
<1>2. OperationsSettle /\ [Next]_vars =>
        [op.outcome = "Running" /\ op' # op => Mine]_vars
  BY <1>1
<1>3. QED
  BY <1>2, OperationsSettleAlways, PTL DEF Spec, OwnerSettles

-----------------------------------------------------------------------------
(***************************************************************************)
(* The failure of a magnetic session.                                      *)
(***************************************************************************)

FailureIsOwed == Alone /\ ChannelOfTask /\ SessionRuns /\ FailureIsKept

LEMMA ChannelStep ==
  ASSUME Alone, ChannelOfTask, [Next]_vars
  PROVE  ChannelOfTask'
<1> USE DEF ChannelOfTask
<1>1. CASE Quiet
  <2>1. kind' = kind /\ (task' = NoTask \/ (task' = task /\ magChannel' = magChannel))
    BY <1>1 DEF Quiet, Busy, StartReportsFailure, StartInvalid, SetConfig, MadeIdle, StopNothing,
       StopBegins, StopTimesOut, vars, shared, facade, history, workers
  <2>2. QED
    BY <2>1
<1>2. CASE StopReturns \/ AbortReturns
  BY <1>2 DEF StopReturns, AbortReturns
<1>3. ASSUME NEW k \in Kinds, Start(k) PROVE ChannelOfTask'
  <2>1. /\ task' = last + 1 /\ kind' = [kind EXCEPT ![last + 1] = k]
        /\ magChannel' = (k = "magnetic")
    BY <1>3 DEF Start, Spawn
  <2>2. kind'[last + 1] = k
    BY <1>3, <2>1, NewTaskIsFresh DEF Start, Alone, TypeOK
  <2>3. QED
    BY <2>1, <2>2
<1>4. ASSUME NEW w \in Workers, Worker(w) PROVE ChannelOfTask'
  BY <1>4, WorkerMoves DEF Alone
<1>5. QED
  BY <1>1, <1>2, <1>3, <1>4 DEF Next, Quiet

\* A magnetic session that outlived its abort does not go back into its open.
LEMMA LooseStays ==
  ASSUME Alone, MagneticLoose, [Next]_vars
  PROVE  MagneticLoose'
<1>1. PICK v \in outlived : kind[v] = "magnetic" /\ pc[v] # "blocked"
  BY DEF MagneticLoose
<1>2. v \in Workers /\ v <= last /\ pc[v] # "opening"
  BY <1>1 DEF Alone, TypeOK, LeftBehind
<1>3. v \in outlived' /\ kind'[v] = kind[v] /\ pc'[v] # "blocked"
  <2>1. CASE Quiet \/ StopReturns \/ AbortReturns
    BY <1>1, <2>1, QuietKeeps DEF StopReturns, AbortReturns, workers
  <2>2. ASSUME NEW k \in Kinds, Start(k)
        PROVE  v \in outlived' /\ kind'[v] = kind[v] /\ pc'[v] # "blocked"
    <3>1. v # last + 1
      BY <1>2 DEF Alone, TypeOK, Workers, NoTask
    <3>2. /\ outlived' = outlived /\ kind' = [kind EXCEPT ![last + 1] = k]
          /\ pc' = [pc EXCEPT ![last + 1] = "spawned"]
      BY <2>2 DEF Start, Spawn, history
    <3>3. QED
      BY <1>1, <1>2, <3>1, <3>2 DEF Alone, TypeOK
  <2>3. ASSUME NEW w \in Workers, Worker(w)
        PROVE  v \in outlived' /\ kind'[v] = kind[v] /\ pc'[v] # "blocked"
    <3>1. /\ UNCHANGED <<outlived, kind>>
          /\ w # v => pc'[v] = pc[v]
      BY <1>2, <2>3, WorkerMoves DEF Alone
    <3>2. w = v => pc'[v] # "blocked"
      BY <1>2, <2>3, WorkerGoes DEF Alone
    <3>3. QED
      BY <1>1, <3>1, <3>2
  <2>4. QED
    BY <2>1, <2>2, <2>3 DEF Next, Quiet
<1>4. QED
  BY <1>1, <1>3 DEF MagneticLoose

\* What a worker does to the phase: a magnetic session tells its own end, and a
\* panic the end of one that runs.
LEMMA WorkerPhases ==
  ASSUME Alone, NEW w \in Workers, Worker(w)
  PROVE  \/ /\ magnetic' = magnetic /\ unreported' = unreported
            /\ result' = result /\ (pc[w] = pc'[w] \/ pc[w] # "publish")
            /\ pc'[w] \in Unfinished => pc[w] \in Unfinished
         \/ \E r \in {"Ok", "Cancelled", "Error", "Panic"} : Returns(w, r)
         \/ Publish(w) /\ unreported' = unreported /\ pc[w] = "publish" /\ pc'[w] = "retire"
<1> USE DEF Alone, TypeOK, facade, history, FacadeStays, Unfinished
<1>1. CASE Begin(w) \/ Blocks(w) \/ Retire(w)
  BY <1>1 DEF Begin, Blocks, Retire, Go, shared
<1>2. CASE OpenReturns(w)
  BY <1>2 DEF OpenReturns, Go
<1>3. CASE Acquires(w)
  BY <1>3 DEF Acquires, Go
<1>4. CASE MagneticCommand(w)
  BY <1>4 DEF MagneticCommand, Go
<1>5. CASE Signal(w) \/ HandleFinishes(w) \/ Aborted(w)
  BY <1>5 DEF Signal, HandleFinishes, Aborted, Go, shared
<1>6. CASE Publish(w)
  BY <1>6 DEF Publish, Go
<1>7. QED
  BY <1>1, <1>2, <1>3, <1>4, <1>5, <1>6 DEF Worker

\* A magnetic session other than the controller's is one that got out of its
\* open after its abort.
LEMMA OtherSessionIsLoose ==
  ASSUME Alone, NEW w \in Workers, NEW r, Returns(w, r), w # task, kind[w] = "magnetic"
  PROVE  MagneticLoose'
<1>1. pc[w] \in Live /\ pc'[w] = "publish" /\ UNCHANGED <<outlived, kind>>
  BY DEF Returns, Live, Alone, TypeOK
<1>2. w \in outlived
  BY <1>1 DEF Alone, OneWorker
<1>3. QED
  BY <1>1, <1>2 DEF MagneticLoose

LEMMA SessionStep ==
  ASSUME Alone, SessionRuns, [Next]_vars
  PROVE  SessionRuns'
<1> SUFFICES ASSUME ~MagneticLoose', task' # NoTask, kind'[task'] = "magnetic",
                    pc'[task'] \in Unfinished
             PROVE  magnetic' \in {"Running", "Failed"}
  BY DEF SessionRuns
<1>1. ~MagneticLoose
  BY LooseStays
<1>2. CASE Quiet
  <2>1. task' = task /\ magnetic' = magnetic
    BY <1>2 DEF Quiet, Busy, StartReportsFailure, StartInvalid, SetConfig, MadeIdle, StopNothing,
       StopBegins, StopTimesOut, vars, shared, facade, history, workers
  <2>2. kind' = kind /\ pc' = pc
    BY <1>2, QuietKeeps
  <2>3. QED
    BY <1>1, <2>1, <2>2 DEF SessionRuns
<1>3. CASE StopReturns \/ AbortReturns
  BY <1>3 DEF StopReturns, AbortReturns
<1>4. ASSUME NEW k \in Kinds, Start(k) PROVE magnetic' \in {"Running", "Failed"}
  <2>1. /\ task' = last + 1 /\ kind' = [kind EXCEPT ![last + 1] = k]
        /\ magnetic' = IF k = "magnetic" THEN "Running" ELSE "Idle"
    BY <1>4 DEF Start, Spawn
  <2>2. kind'[last + 1] = k
    BY <1>4, <2>1, NewTaskIsFresh DEF Start, Alone, TypeOK
  <2>3. QED
    BY <2>1, <2>2
<1>5. ASSUME NEW w \in Workers, Worker(w) PROVE magnetic' \in {"Running", "Failed"}
  <2>1. /\ UNCHANGED <<task, kind>> /\ w # NoTask
        /\ \A v \in Workers \ {w} : pc'[v] = pc[v]
    BY <1>5, WorkerMoves DEF Alone, Workers, NoTask
  <2>2. task \in Workers
    BY <2>1 DEF Alone, TypeOK
  <2>3. ASSUME NEW r \in {"Ok", "Cancelled", "Error", "Panic"}, Returns(w, r)
        PROVE  magnetic' \in {"Running", "Failed"}
    <3>1. pc'[w] = "publish"
      BY <2>3 DEF Returns, Alone, TypeOK
    <3>2. w # task /\ pc[task] \in Unfinished
      BY <2>1, <2>2, <3>1 DEF Unfinished
    <3>3. kind[w] # "magnetic"
      BY <2>3, <3>2, OtherSessionIsLoose
    <3>4. magnetic' = magnetic
      BY <2>3, <3>3 DEF Returns
    <3>5. QED
      BY <1>1, <2>1, <3>2, <3>4 DEF SessionRuns
  <2>4. CASE Publish(w) /\ pc'[w] = "retire"
    <3>1. w # task /\ pc[task] \in Unfinished
      BY <2>1, <2>2, <2>4 DEF Unfinished
    <3>2. magnetic \in {"Running", "Failed"}
      BY <1>1, <2>1, <3>1 DEF SessionRuns
    <3>3. QED
      BY <2>4, <3>2 DEF Publish, MagneticAfter
  <2>5. CASE magnetic' = magnetic /\ (pc'[w] \in Unfinished => pc[w] \in Unfinished)
    BY <1>1, <2>1, <2>2, <2>5 DEF SessionRuns
  <2>6. QED
    BY <1>5, <2>3, <2>4, <2>5, WorkerPhases
<1>6. QED
  BY <1>2, <1>3, <1>4, <1>5 DEF Next, Quiet

LEMMA FailureStep ==
  ASSUME FailureIsOwed, [Next]_vars
  PROVE  FailureIsKept'
<1> USE DEF FailureIsOwed
<1> DEFINE Told ==
      \/ magnetic = "Failed"
      \/ magnetic = "Running" /\ pc[unreported] = "publish" /\ result[unreported] = "Panic"
<1> SUFFICES ASSUME ~MagneticLoose', unreported' # NoTask
             PROVE  /\ unreported' = task' /\ kind'[unreported'] = "magnetic"
                    /\ pc'[unreported'] \notin Unfinished
                    /\ Told'
  BY DEF FailureIsKept
<1>1. ~MagneticLoose
  BY LooseStays
<1>2. unreported \in Workers \cup {NoTask}
  BY DEF Alone, TypeOK
<1>3. unreported # NoTask =>
        /\ unreported = task /\ kind[unreported] = "magnetic"
        /\ pc[unreported] \notin Unfinished /\ Told
  BY <1>1 DEF FailureIsKept
\* Once its task ended, a failure of a magnetic session is an error that stop
\* returns.
<1>4. ASSUME unreported # NoTask, HandleFinished \/ Signalled(task) PROVE IdleStopFails
  BY <1>3, <1>4 DEF ChannelOfTask, HandleFinished, Signalled, IdleStopFails, MagneticFailed
<1> DEFINE Kept == /\ unreported' = task' /\ kind'[unreported'] = "magnetic"
                   /\ pc'[unreported'] \notin Unfinished
                   /\ Told'
<1>5. CASE Busy \/ StopBegins \/ StopTimesOut \/ UNCHANGED vars
  BY <1>3, <1>5 DEF Busy, StopBegins, StopTimesOut, vars, shared, facade, history, workers
<1>6. CASE StartReportsFailure \/ AbortReturns
  BY <1>6 DEF StartReportsFailure, AbortReturns
<1>7. CASE StartInvalid \/ \E changed \in BOOLEAN : SetConfig(changed)
  BY <1>4, <1>7 DEF StartInvalid, SetConfig, MadeIdle, history
<1>8. CASE StopNothing
  BY <1>3, <1>8 DEF StopNothing
<1>9. CASE StopReturns
  <2>1. ~MagneticFailed /\ unreported' = unreported
    BY <1>9 DEF StopReturns
  <2>2. QED
    BY <1>4, <1>9, <2>1 DEF StopReturns, IdleStopFails
<1>10. ASSUME NEW k \in Kinds, Start(k) PROVE Kept
  BY <1>4, <1>10 DEF Start, history
<1>11. ASSUME NEW w \in Workers, Worker(w) PROVE Kept
  <2>1. /\ UNCHANGED <<task, kind>> /\ w # NoTask
        /\ \A v \in Workers \ {w} : pc'[v] = pc[v] /\ result'[v] = result[v]
        /\ pc \in [Workers -> Live \cup {"none", "done", "finished"}]
        /\ result \in [Workers -> {"None", "Ok", "Cancelled", "Error", "Panic"}]
    BY <1>11, WorkerMoves DEF Alone, TypeOK, Workers, NoTask
  <2>2. ASSUME NEW r \in {"Ok", "Cancelled", "Error", "Panic"}, Returns(w, r) PROVE Kept
    <3>1. pc[w] \in Unfinished /\ pc'[w] = "publish" /\ result'[w] = r
      BY <2>1, <2>2 DEF Returns, Unfinished
    <3>2. kind[w] = "magnetic" => w = task
      BY <2>2, OtherSessionIsLoose
    <3>3. CASE kind[w] = "magnetic" /\ r \in {"Error", "Panic"} /\ w \notin outlived
      <4>1. unreported' = w /\ (r = "Error" => magnetic' = "Failed")
            /\ (r = "Panic" => magnetic' = magnetic)
        BY <2>2, <3>3 DEF Returns
      <4>2. magnetic \in {"Running", "Failed"}
        BY <1>1, <2>1, <3>1, <3>2, <3>3 DEF SessionRuns
      <4>3. QED
        BY <2>1, <3>1, <3>2, <3>3, <4>1, <4>2 DEF Unfinished
    <3>4. CASE ~(kind[w] = "magnetic" /\ r \in {"Error", "Panic"} /\ w \notin outlived)
      <4>1. unreported' = unreported
        BY <2>2, <3>4 DEF Returns
      <4>2. unreported # w /\ unreported = task
        BY <1>3, <3>1, <4>1
      <4>3. magnetic' = magnetic
        BY <2>2, <3>2, <4>2 DEF Returns
      <4>4. QED
        BY <1>2, <1>3, <2>1, <4>1, <4>2, <4>3
    <3>5. QED
      BY <3>3, <3>4
  <2>3. CASE Publish(w) /\ unreported' = unreported /\ pc[w] = "publish" /\ pc'[w] = "retire"
    <3>1. magnetic' = IF result[w] = "Panic" /\ magnetic = "Running" THEN "Failed" ELSE magnetic
      BY <2>3 DEF Publish, MagneticAfter
    <3>2. CASE w = unreported
      BY <1>3, <2>1, <2>3, <3>1, <3>2 DEF Unfinished
    <3>3. CASE w # unreported
      BY <1>2, <1>3, <2>1, <2>3, <3>1, <3>3
    <3>4. QED
      BY <3>2, <3>3
  <2>4. CASE /\ magnetic' = magnetic /\ unreported' = unreported /\ result' = result
             /\ pc[w] = pc'[w] \/ pc[w] # "publish"
             /\ pc'[w] \in Unfinished => pc[w] \in Unfinished
    BY <1>2, <1>3, <2>1, <2>4
  <2>5. QED
    BY <1>11, <2>2, <2>3, <2>4, WorkerPhases
<1>12. QED
  BY <1>5, <1>6, <1>7, <1>8, <1>9, <1>10, <1>11 DEF Next

\* The failure of a magnetic session is returned by a call before anything
\* else is started, unless an earlier session that outlived its abort has got out
\* of its open and overwritten it (magnetic.rs 293-302, controller.rs 462-467).
THEOREM FailuresAreReported == Spec => []MagneticFailureIsReported
<1>1. Init => FailureIsOwed
  BY AloneInit DEF Init, FailureIsOwed, ChannelOfTask, SessionRuns, FailureIsKept
<1>2. FailureIsOwed /\ [Next]_vars => FailureIsOwed'
  BY AloneStep, ChannelStep, SessionStep, FailureStep DEF FailureIsOwed
<1>3. FailureIsOwed => MagneticFailureIsReported
  BY DEF FailureIsOwed, FailureIsKept, MagneticLoose, MagneticFailureIsReported
<1>4. QED
  BY <1>1, <1>2, <1>3, PTL DEF Spec

-----------------------------------------------------------------------------
(***************************************************************************)
(* The acquisition: the request channel and its writer.                    *)
(***************************************************************************)

SessionSteps ==
  RequestQuat \/ RequestBattery \/ WriterTakes \/ WriteTimesOut \/ BatteryTimesOut \/ Tick
    \/ CancelNoticed \/ Device
RunSteps ==
  OpenOk \/ OpenFails \/ Closed \/ Retry \/ CancelWaiting \/ Cancel \/ Advance \/ UNCHANGED acqVars

LEMMA StepKinds == [AcquisitionNext]_acqVars => SessionSteps \/ RunSteps
BY DEF AcquisitionNext, Pump, SessionSteps, RunSteps

LEMMA OneRequestStep ==
  ASSUME OneRequestAtATime, [AcquisitionNext]_acqVars
  PROVE  OneRequestAtATime'
<1> USE DEF OneRequestAtATime, Idle
\* A request is only sent where the channel is empty.
<1>1. CASE RequestQuat
  <2>1. queued = Idle /\ writer = Idle
    BY <1>1 DEF RequestQuat, QuatDue
  <2>2. queued' = "quat" /\ writing' = TRUE /\ writer' = writer /\ error' = error
    BY <1>1, <2>1 DEF RequestQuat, Send, runVars
  <2>3. QED
    BY <2>1, <2>2
<1>2. CASE RequestBattery
  <2>1. queued = Idle /\ writer = Idle
    BY <1>2 DEF RequestBattery, BatteryDue
  <2>2. queued' = "battery" /\ writing' = TRUE /\ writer' = writer /\ error' = error
    BY <1>2, <2>1 DEF RequestBattery, Send, runVars
  <2>3. QED
    BY <2>1, <2>2
<1>3. CASE WriterTakes
  BY <1>3 DEF WriterTakes, runVars
\* Every end of a write gives the channel back.
<1>4. ASSUME writer # Idle, writer' = Idle, writing' = FALSE, queued' = queued, error' = error
      PROVE  OneRequestAtATime'
  BY <1>4
<1>5. ASSUME NEW class, NEW cause, cause # "overrun", PumpReturns(class, cause)
      PROVE  OneRequestAtATime'
  BY <1>5 DEF PumpReturns
<1>6. CASE WriteDone
  BY <1>6, <1>4 DEF WriteDone, runVars
<1>7. CASE WriteFails \/ WriteTimesOut
  <2>1. CASE writer = "battery"
    BY <1>7, <2>1, <1>4 DEF WriteFails, WriteTimesOut, BatteryWriteFails, runVars
  <2>2. CASE writer # "battery"
    <3>1. PICK c : PumpReturns(c, "write")
      BY <1>7, <2>2 DEF WriteFails, WriteTimesOut, Ends
    <3>2. QED
      BY <3>1, <1>5
  <2>3. QED
    BY <2>1, <2>2
<1>8. CASE ReadFails
  BY <1>8, <1>5 DEF ReadFails, Ends
<1>9. CASE CancelNoticed
  BY <1>9, <1>5 DEF CancelNoticed, Ends
<1>10. CASE Tick
  <2>1. CASE \E c : PumpReturns(c, "silence")
    BY <2>1, <1>5
  <2>2. CASE \E c : PumpReturns(c, "unsupported")
    BY <2>2, <1>5
  <2>3. CASE UNCHANGED <<error, pumpVars>>
    BY <2>3 DEF pumpVars
  <2>4. QED
    BY <1>10, <2>1, <2>2, <2>3 DEF Tick
<1>11. CASE BatteryTimesOut
  BY <1>11 DEF BatteryTimesOut, runVars
<1>12. CASE ReadNothing \/ ReadFrame \/ ReadQuat \/ ReadBattery
  BY <1>12 DEF ReadNothing, ReadFrame, ReadQuat, ReadBattery, BytesArrive
<1>13. CASE RunSteps
  BY <1>13 DEF RunSteps, OpenOk, OpenFails, AttemptEnds, Closed, Retry, CancelWaiting, Cancel,
     Advance, pumpVars, acqVars, runVars, NoError
<1>14. QED
  BY <1>1, <1>2, <1>3, <1>6, <1>7, <1>8, <1>9, <1>10, <1>11, <1>12, <1>13, StepKinds
     DEF SessionSteps, Device

\* There is one request at a time and try_send never fails, whatever the
\* durations and however late the worker is.
THEOREM WriterIsNeverOverrun == AcquisitionSpec => []OneRequestAtATime
<1>1. AcquisitionInit => OneRequestAtATime
  BY DEF AcquisitionInit, OneRequestAtATime, NoError
<1>2. QED
  BY <1>1, OneRequestStep, PTL DEF AcquisitionSpec

-----------------------------------------------------------------------------
(***************************************************************************)
(* The acquisition: types.                                                 *)
(***************************************************************************)

LEMMA Caps ==
  /\ Cap \in [Timers -> Nat]
  /\ Cap["start"] = Silence + 1 /\ Cap["bytes"] = Silence + 1 /\ Cap["pose"] = StaleAfter
  /\ Cap["quat"] = QuatRetry /\ Cap["battery"] = BatteryPoll /\ Cap["write"] = WriteTimeout
  /\ Cap["tick"] = 1
BY DurationsAssumption DEF Cap, Timers

Ages(a) == a \in [Timers -> Nat] /\ \A t \in Timers : a[t] <= Cap[t]

LEMMA ResetAges ==
  ASSUME NEW a, Ages(a), NEW t \in Timers
  PROVE  Ages([a EXCEPT ![t] = 0])
BY Caps DEF Ages
LEMMA KeptAges == ASSUME Ages(age) PROVE Ages([Cap EXCEPT !["pose"] = age["pose"]])
BY Caps DEF Ages, Timers
LEMMA OpenedAges ==
  Ages([t \in Timers |->
       CASE t = "quat" -> QuatPeriod
         [] t = "battery" -> BatteryPoll - BatteryFirst
         [] t = "pose" -> StaleAfter
         [] t = "tick" -> 1
         [] OTHER -> 0])
<1> DEFINE f(t) ==
       CASE t = "quat" -> QuatPeriod
         [] t = "battery" -> BatteryPoll - BatteryFirst
         [] t = "pose" -> StaleAfter
         [] t = "tick" -> 1
         [] OTHER -> 0
<1>1. ASSUME NEW t \in Timers PROVE f(t) \in Nat /\ f(t) <= Cap[t]
  <2>1. CASE t = "quat"
    BY <2>1, Caps, DurationsAssumption
  <2>2. CASE t = "battery"
    BY <2>2, Caps, DurationsAssumption
  <2>3. CASE t = "pose"
    BY <2>3, Caps, DurationsAssumption
  <2>4. CASE t = "tick"
    BY <2>4, Caps
  <2>5. CASE t \in {"start", "bytes", "write"}
    BY <2>5, Caps, DurationsAssumption
  <2>6. QED
    BY <2>1, <2>2, <2>3, <2>4, <2>5 DEF Timers
<1>2. QED
  BY <1>1 DEF Ages
LEMMA OlderAges ==
  ASSUME Ages(age)
  PROVE  Ages([t \in Timers |-> IF age[t] < Cap[t] THEN age[t] + 1 ELSE Cap[t]])
BY Caps DEF Ages

\* The types by groups: what run keeps, what pump keeps.
RunTypes ==
  /\ phase \in {"opening", "session", "closing", "waiting", "ended"}
  /\ status \in {"Connecting", "Active", "Stale", "Reconnecting", "Stopped", "Failed"}
  /\ error \in [class : Classes, cause : Causes]
  /\ productive \in BOOLEAN /\ cancelled \in BOOLEAN /\ delivered \in BOOLEAN
Pauses == backoff \in 1 .. MaxPause /\ pause \in 0 .. MaxPause
PumpTypes ==
  /\ writing \in BOOLEAN
  /\ queued \in Requests \cup {Idle} /\ writer \in Requests \cup {Idle}
  /\ outstanding \in BOOLEAN /\ batteryOutstanding \in BOOLEAN /\ receivedFrame \in BOOLEAN
DeviceTypes ==
  /\ battery \in {"unknown", "read", "error"}
  /\ answers \in [Requests -> 0 .. MaxAnswers]
ModeType == polled \in BOOLEAN
LEMMA TypeGroups ==
  AcquisitionTypeOK <=> ModeType /\ RunTypes /\ Pauses /\ PumpTypes /\ DeviceTypes /\ Ages(age)
BY DEF AcquisitionTypeOK, ModeType, RunTypes, Pauses, PumpTypes, DeviceTypes, Ages

\* No step changes the mode.
LEMMA ModeKept == ASSUME [AcquisitionNext]_acqVars PROVE polled' = polled
<1>1. ASSUME NEW class, NEW cause, PumpReturns(class, cause) PROVE polled' = polled
  BY <1>1 DEF PumpReturns
<1>2. ASSUME UNCHANGED runVars PROVE polled' = polled
  BY <1>2 DEF runVars
<1>3. CASE RequestQuat \/ RequestBattery
  BY <1>1, <1>2, <1>3 DEF RequestQuat, RequestBattery, Send, Ends
<1>4. CASE WriteFails \/ WriteTimesOut
  BY <1>1, <1>2, <1>4 DEF WriteFails, WriteTimesOut, BatteryWriteFails, Ends
<1>5. CASE ReadFails \/ CancelNoticed
  BY <1>1, <1>5 DEF ReadFails, CancelNoticed, Ends
<1>6. CASE Tick
  BY <1>1, <1>6 DEF Tick
<1>7. CASE WriterTakes \/ WriteDone \/ BatteryTimesOut \/ Advance \/ UNCHANGED acqVars
  BY <1>2, <1>7 DEF WriterTakes, WriteDone, BatteryTimesOut, Advance, acqVars
<1>8. CASE ReadNothing \/ ReadFrame \/ ReadQuat \/ ReadBattery
  BY <1>8 DEF ReadNothing, ReadFrame, ReadQuat, ReadBattery, BytesArrive
<1>9. QED
  BY <1>3, <1>4, <1>5, <1>6, <1>7, <1>8
     DEF AcquisitionNext, Pump, Device, OpenOk, OpenFails, Closed, Retry,
     CancelWaiting, Cancel

LEMMA RunTypesStep == ASSUME AcquisitionTypeOK, [AcquisitionNext]_acqVars PROVE RunTypes'
<1> USE DEF RunTypes, Classes, Causes
<1>1. ASSUME NEW class \in Classes, NEW cause \in Causes, PumpReturns(class, cause),
             status' \in {status, "Stale"}
      PROVE  RunTypes'
  BY <1>1 DEF PumpReturns, AcquisitionTypeOK
<1>2. ASSUME NEW r, Send(r) PROVE RunTypes'
  <2>1. CASE queued # Idle
    BY <1>1, <1>2, <2>1 DEF Send, Ends
  <2>2. CASE queued = Idle
    BY <1>2, <2>2 DEF Send, runVars, AcquisitionTypeOK
  <2>3. QED
    BY <2>1, <2>2
<1>3. CASE RequestQuat \/ RequestBattery
  BY <1>2, <1>3 DEF RequestQuat, RequestBattery
<1>4. CASE UNCHANGED runVars
  BY <1>4 DEF runVars, AcquisitionTypeOK
<1>5. CASE WriteFails \/ WriteTimesOut
  BY <1>1, <1>4, <1>5 DEF WriteFails, WriteTimesOut, BatteryWriteFails, Ends, Classed
<1>6. CASE ReadFails \/ CancelNoticed
  BY <1>1, <1>6 DEF ReadFails, CancelNoticed, Ends
<1>7. CASE Tick
  <2>1. status' \in {status, "Stale"}
    BY <1>7 DEF Tick
  <2>2. CASE \E passes \in BOOLEAN :
               PumpReturns("transient", "silence") \/ PumpReturns("terminal", "unsupported")
    BY <1>1, <2>1, <2>2
  <2>3. CASE UNCHANGED <<phase, error, productive, cancelled, delivered>>
    BY <2>1, <2>3 DEF AcquisitionTypeOK
  <2>4. QED
    BY <1>7, <2>2, <2>3 DEF Tick
<1>8. CASE ReadNothing \/ ReadFrame \/ ReadQuat \/ ReadBattery
  <2>1. status' \in {status, "Active"} /\ productive' \in {productive, TRUE}
    BY <1>8 DEF ReadNothing, ReadFrame, ReadQuat, ReadBattery, PosePublished, NoPosePublished
  <2>2. UNCHANGED <<phase, error, cancelled, delivered>>
    BY <1>8 DEF ReadNothing, ReadFrame, ReadQuat, ReadBattery, BytesArrive
  <2>3. productive' \in BOOLEAN
    BY <2>1 DEF AcquisitionTypeOK
  <2>4. status' \in {"Connecting", "Active", "Stale", "Reconnecting", "Stopped", "Failed"}
    BY <2>1 DEF AcquisitionTypeOK
  <2>5. QED
    BY <2>2, <2>3, <2>4 DEF AcquisitionTypeOK
<1>9. ASSUME NEW e \in [class : Classes, cause : Causes], AttemptEnds(e)
      PROVE  /\ phase' \in {"waiting", "ended"} /\ status' \in {"Reconnecting", "Stopped", "Failed"}
             /\ error' \in [class : Classes, cause : Causes]
  BY <1>9 DEF AttemptEnds
<1>10. CASE OpenFails
  <2>1. PICK c \in Classed \cup {"cancelled"} : AttemptEnds([class |-> c, cause |-> "open"])
    BY <1>10 DEF OpenFails
  <2>2. [class |-> c, cause |-> "open"] \in [class : Classes, cause : Causes]
    BY DEF Classed
  <2>3. QED
    BY <1>9, <1>10, <2>1, <2>2 DEF OpenFails, AcquisitionTypeOK
<1>11. CASE Closed
  BY <1>9, <1>11 DEF Closed, AcquisitionTypeOK
<1>12. CASE OpenOk
  BY <1>12 DEF OpenOk, NoError, AcquisitionTypeOK
<1>13. CASE Retry \/ CancelWaiting \/ Cancel
  <2>1. CASE Retry
    BY <2>1 DEF Retry, AcquisitionTypeOK
  <2>2. CASE CancelWaiting
    BY <2>2 DEF CancelWaiting, AcquisitionTypeOK
  <2>3. CASE Cancel
    BY <2>3 DEF Cancel, AcquisitionTypeOK
  <2>4. QED
    BY <1>13, <2>1, <2>2, <2>3
<1>14. CASE WriterTakes \/ WriteDone \/ BatteryTimesOut \/ Advance \/ UNCHANGED acqVars
  BY <1>4, <1>14 DEF WriterTakes, WriteDone, BatteryTimesOut, Advance, acqVars
<1>15. QED
  BY <1>3, <1>5, <1>6, <1>7, <1>8, <1>10, <1>11, <1>12, <1>13, <1>14
     DEF AcquisitionNext, Pump, Device

LEMMA PausesStep == ASSUME Pauses, [AcquisitionNext]_acqVars PROVE Pauses'
<1> USE DurationsAssumption DEF Pauses
<1>1. CASE UNCHANGED <<backoff, pause>>
  BY <1>1
<1>2. CASE OpenFails \/ Closed
  BY <1>2 DEF OpenFails, Closed
<1>3. CASE Retry
  BY <1>3 DEF Retry
<1>4. CASE RequestQuat \/ RequestBattery
  BY <1>1, <1>4 DEF RequestQuat, RequestBattery, Send, Ends, PumpReturns, runVars
<1>5. CASE Tick
  BY <1>1, <1>5 DEF Tick, PumpReturns
<1>6. QED
  BY <1>1, <1>2, <1>3, <1>4, <1>5
     DEF AcquisitionNext, Pump, Device, WriterTakes, WriteTimesOut, BatteryTimesOut,
     CancelNoticed, WriteDone, WriteFails, BatteryWriteFails, ReadNothing, ReadFrame, ReadQuat,
     ReadBattery, ReadFails, BytesArrive, Ends, PumpReturns, Advance, OpenOk, CancelWaiting, Cancel,
     acqVars, runVars

LEMMA AgesStep == ASSUME Ages(age), [AcquisitionNext]_acqVars PROVE Ages(age')
<1>1. CASE age' = age
  BY <1>1
<1>2. ASSUME NEW t \in Timers, age' = Reset(t) PROVE Ages(age')
  BY <1>2, ResetAges DEF Reset
<1>3. ASSUME NEW class, NEW cause, PumpReturns(class, cause) PROVE Ages(age')
  BY <1>3, KeptAges DEF PumpReturns
<1>4. CASE RequestQuat \/ RequestBattery
  <2>1. PICK r \in {"quat", "battery"} : Send(r)
    BY <1>4 DEF RequestQuat, RequestBattery
  <2>2. QED
    BY <2>1, <1>2, <1>3 DEF Send, Ends, Timers
<1>5. CASE WriteFails \/ WriteTimesOut
  BY <1>1, <1>3, <1>5 DEF WriteFails, WriteTimesOut, BatteryWriteFails, Ends
<1>6. CASE ReadFails \/ CancelNoticed
  BY <1>3, <1>6 DEF ReadFails, CancelNoticed, Ends
<1>7. CASE Tick
  BY <1>2, <1>3, <1>7 DEF Tick, Timers
<1>8. CASE WriterTakes
  BY <1>2, <1>8 DEF WriterTakes, Timers
<1>9. CASE ReadNothing \/ ReadFrame \/ ReadQuat \/ ReadBattery
  <2>1. NoPosePublished \/ PosePublished
    BY <1>9 DEF ReadNothing, ReadFrame, ReadQuat, ReadBattery
  <2>2. CASE NoPosePublished
    BY <2>2, <1>2 DEF NoPosePublished, Timers
  <2>3. CASE PosePublished
    <3> DEFINE b == [age EXCEPT !["bytes"] = 0]
    <3>1. Ages(b)
      BY ResetAges DEF Timers
    <3>2. Ages([b EXCEPT !["pose"] = 0])
      BY <3>1, ResetAges DEF Timers
    <3>3. age' = [b EXCEPT !["pose"] = 0]
      BY <2>3 DEF PosePublished
    <3>4. QED
      BY <3>2, <3>3
  <2>4. QED
    BY <2>1, <2>2, <2>3
<1>10. CASE OpenOk
  BY <1>10, OpenedAges DEF OpenOk
<1>11. CASE Advance
  BY <1>11, OlderAges DEF Advance
<1>12. QED
  BY <1>1, <1>4, <1>5, <1>6, <1>7, <1>8, <1>9, <1>10, <1>11
     DEF AcquisitionNext, Pump, Device, BatteryTimesOut,
     WriteDone, OpenFails, Closed, Retry, CancelWaiting, Cancel, acqVars

LEMMA DeviceTypesStep == ASSUME DeviceTypes, PumpTypes, [AcquisitionNext]_acqVars PROVE DeviceTypes'
<1> USE DurationsAssumption DEF DeviceTypes, Requests
<1>1. CASE UNCHANGED <<battery, answers>>
  BY <1>1
<1>2. ASSUME NEW class, NEW cause, PumpReturns(class, cause) PROVE DeviceTypes'
  BY <1>2 DEF PumpReturns
<1>3. CASE RequestQuat \/ RequestBattery
  BY <1>1, <1>2, <1>3 DEF RequestQuat, RequestBattery, Send, Ends
<1>4. CASE WriteFails \/ WriteTimesOut
  BY <1>1, <1>2, <1>4 DEF WriteFails, WriteTimesOut, BatteryWriteFails, Ends
<1>5. CASE ReadFails \/ CancelNoticed
  BY <1>2, <1>5 DEF ReadFails, CancelNoticed, Ends
<1>6. CASE Tick
  BY <1>1, <1>2, <1>6 DEF Tick
<1>7. CASE WriterTakes
  <2>1. queued \in Requests
    BY <1>7 DEF WriterTakes, PumpTypes
  <2>2. QED
    BY <1>7, <2>1 DEF WriterTakes
<1>8. CASE BatteryTimesOut
  BY <1>8 DEF BatteryTimesOut
<1>9. CASE ReadNothing \/ ReadFrame
  BY <1>1, <1>9 DEF ReadNothing, ReadFrame
<1>10. CASE ReadQuat
  BY <1>10 DEF ReadQuat
<1>11. CASE ReadBattery
  BY <1>11 DEF ReadBattery
<1>12. CASE OpenOk
  BY <1>12 DEF OpenOk
<1>13. QED
  BY <1>1, <1>3, <1>4, <1>5, <1>6, <1>7, <1>8, <1>9, <1>10, <1>11, <1>12
     DEF AcquisitionNext, Pump, Device,
     WriteDone, OpenFails, Closed, Retry, CancelWaiting, Cancel, Advance, acqVars

LEMMA PumpTypesStep == ASSUME PumpTypes, [AcquisitionNext]_acqVars PROVE PumpTypes'
<1> USE DEF PumpTypes, Requests
<1>1. CASE UNCHANGED pumpVars
  BY <1>1 DEF pumpVars
<1>2. ASSUME NEW class, NEW cause, PumpReturns(class, cause) PROVE PumpTypes'
  BY <1>2 DEF PumpReturns
<1>3. ASSUME NEW r \in Requests, Send(r) PROVE PumpTypes'
  <2>1. CASE queued # Idle
    BY <1>2, <1>3, <2>1 DEF Send, Ends
  <2>2. CASE queued = Idle
    <3>1. queued' = r /\ writing' = TRUE /\ UNCHANGED <<writer, receivedFrame>>
      BY <1>3, <2>2 DEF Send
    <3>2. outstanding' \in BOOLEAN /\ batteryOutstanding' \in BOOLEAN
      BY <1>3, <2>2, Zenon DEF Send
    <3>3. QED
      BY <3>1, <3>2
  <2>3. QED
    BY <2>1, <2>2
<1>4. CASE RequestQuat \/ RequestBattery
  BY <1>3, <1>4 DEF RequestQuat, RequestBattery
<1>5. CASE WriterTakes
  BY <1>5 DEF WriterTakes
<1>6. CASE WriteDone
  BY <1>6 DEF WriteDone
<1>7. CASE WriteFails \/ WriteTimesOut
  BY <1>2, <1>7 DEF WriteFails, WriteTimesOut, BatteryWriteFails, Ends
<1>8. CASE ReadFails \/ CancelNoticed
  BY <1>2, <1>8 DEF ReadFails, CancelNoticed, Ends
<1>9. CASE Tick
  BY <1>1, <1>2, <1>9 DEF Tick
<1>10. CASE BatteryTimesOut
  BY <1>10 DEF BatteryTimesOut
<1>11. CASE ReadNothing \/ ReadFrame \/ ReadQuat \/ ReadBattery
  BY <1>11 DEF ReadNothing, ReadFrame, ReadQuat, ReadBattery, BytesArrive
<1>12. QED
  BY <1>1, <1>4, <1>5, <1>6, <1>7, <1>8, <1>9, <1>10, <1>11 DEF AcquisitionNext, Pump, Device,
     OpenOk, OpenFails, Closed, Retry, CancelWaiting, Cancel, Advance, acqVars

\* Every variable keeps its type, and no age passes its cap.
THEOREM AcquisitionTypeCorrect == AcquisitionSpec => []AcquisitionTypeOK
<1>1. AcquisitionInit => AcquisitionTypeOK
  <2> SUFFICES ASSUME AcquisitionInit PROVE AcquisitionTypeOK
    OBVIOUS
  <2>1. Ages(age)
    BY Caps, DurationsAssumption DEF AcquisitionInit, Ages, Timers
  <2>2. Pauses /\ DeviceTypes
    BY DurationsAssumption DEF AcquisitionInit, Pauses, DeviceTypes
  <2>3. PumpTypes
    BY DEF AcquisitionInit, PumpTypes
  <2>4. RunTypes
    BY DEF AcquisitionInit, RunTypes, NoError, Classes, Causes
  <2>5. ModeType
    BY DurationsAssumption DEF AcquisitionInit, ModeType
  <2>6. QED
    BY <2>1, <2>2, <2>3, <2>4, <2>5, TypeGroups
<1>2. AcquisitionTypeOK /\ [AcquisitionNext]_acqVars => AcquisitionTypeOK'
  <2> SUFFICES ASSUME AcquisitionTypeOK, [AcquisitionNext]_acqVars PROVE AcquisitionTypeOK'
    OBVIOUS
  <2>1. ModeType /\ RunTypes /\ Pauses /\ PumpTypes /\ DeviceTypes /\ Ages(age)
    BY TypeGroups
  <2>2. RunTypes' /\ Pauses' /\ PumpTypes' /\ DeviceTypes'
    BY <2>1, RunTypesStep, PausesStep, PumpTypesStep, DeviceTypesStep
  <2>3. Ages(age')
    BY <2>1, AgesStep
  <2>4. polled' \in BOOLEAN
    BY <2>1, ModeKept DEF ModeType
  <2>5. QED
    BY <2>2, <2>3, <2>4 DEF AcquisitionTypeOK, RunTypes, Pauses, PumpTypes, DeviceTypes, Ages
<1>3. QED
  BY <1>1, <1>2, PTL DEF AcquisitionSpec

-----------------------------------------------------------------------------
(***************************************************************************)
(* The battery query beside the pose queries.                              *)
(***************************************************************************)

LEMMA BatteryStep ==
  ASSUME AcquisitionTypeOK, [AcquisitionNext]_acqVars, phase = "session",
         error'.cause = "write", phase' = "closing"
  PROVE  writer = "quat"
<1>1. ASSUME NEW class, NEW cause, cause # "write", PumpReturns(class, cause) PROVE FALSE
  BY <1>1 DEF PumpReturns
<1>2. ASSUME phase' = phase PROVE FALSE
  BY <1>2
<1>3. CASE RequestQuat \/ RequestBattery
  BY <1>1, <1>2, <1>3 DEF RequestQuat, RequestBattery, Send, Ends, runVars
<1>4. CASE WriteFails \/ WriteTimesOut
  <2>1. writer # Idle
    BY <1>4 DEF WriteFails, WriteTimesOut
  <2>2. CASE writer = "battery"
    BY <1>2, <1>4, <2>2 DEF WriteFails, WriteTimesOut, BatteryWriteFails, runVars
  <2>3. writer \in Requests \cup {Idle}
    BY DEF AcquisitionTypeOK
  <2>4. QED
    BY <2>1, <2>2, <2>3 DEF Requests
<1>5. CASE ReadFails \/ CancelNoticed
  BY <1>1, <1>5 DEF ReadFails, CancelNoticed, Ends
<1>6. CASE Tick
  BY <1>1, <1>2, <1>6 DEF Tick
<1>7. CASE WriterTakes \/ WriteDone \/ BatteryTimesOut \/ Advance \/ UNCHANGED acqVars
  BY <1>2, <1>7 DEF WriterTakes, WriteDone, BatteryTimesOut, Advance, acqVars, runVars
<1>8. CASE ReadNothing \/ ReadFrame \/ ReadQuat \/ ReadBattery
  BY <1>2, <1>8 DEF ReadNothing, ReadFrame, ReadQuat, ReadBattery, BytesArrive
<1>9. QED
  BY <1>2, <1>3, <1>4, <1>5, <1>6, <1>7, <1>8
     DEF AcquisitionNext, Pump, Device, OpenOk, OpenFails, Closed, Retry,
     CancelWaiting, Cancel

\* A session that ends over a write ends over a quaternion request.
THEOREM BatteryFailureIsHarmless == AcquisitionSpec => BatteryEndsNothing
<1>1. AcquisitionTypeOK /\ [AcquisitionNext]_acqVars =>
        [phase = "session" /\ error'.cause = "write" /\ phase' = "closing"
           => writer = "quat"]_acqVars
  BY BatteryStep
<1>2. QED
  BY <1>1, AcquisitionTypeCorrect, PTL DEF AcquisitionSpec, BatteryEndsNothing

-----------------------------------------------------------------------------
(***************************************************************************)
(* Freshness.                                                              *)
(***************************************************************************)

\* The state only says that poses come while there is a connection, and a pose
\* of less than StaleAfter is one of this connection.
Connected ==
  /\ status \in {"Active", "Stale"} => phase \in {"session", "closing"}
  /\ phase \in {"session", "closing"} /\ age["pose"] < StaleAfter =>
       status \in {"Active", "Stale"} /\ productive = TRUE

LEMMA ConnectedStep ==
  ASSUME AcquisitionTypeOK, Connected, [AcquisitionNext]_acqVars
  PROVE  Connected'
<1> USE DEF Connected
<1>a. age \in [Timers -> Nat] /\ StaleAfter \in Nat /\ "pose" \in Timers
  BY DurationsAssumption DEF AcquisitionTypeOK, Timers
<1>1. ASSUME phase' = phase, status' = status, productive' = productive, age'["pose"] = age["pose"]
      PROVE  Connected'
  BY <1>1
\* The end of a session keeps the state and the age of the last pose.
<1>2. ASSUME phase = "session", NEW class, NEW cause, PumpReturns(class, cause),
             status' \in {status, "Stale"}
      PROVE  Connected'
  <2>1. phase' = "closing" /\ productive' = productive
    BY <1>2 DEF PumpReturns
  <2>2. age'["pose"] = age["pose"]
    BY <1>2, Caps, <1>a DEF PumpReturns
  <2>3. QED
    BY <1>2, <2>1, <2>2
<1>3. ASSUME NEW t \in Timers \ {"pose"}, age' = Reset(t) PROVE age'["pose"] = age["pose"]
  BY <1>3, <1>a DEF Reset
<1>4. CASE RequestQuat \/ RequestBattery
  <2>1. PICK r \in {"quat", "battery"} : Send(r) /\ phase = "session"
    BY <1>4 DEF RequestQuat, RequestBattery
  <2>2. CASE queued # Idle
    BY <1>2, <2>1, <2>2 DEF Send, Ends
  <2>3. CASE queued = Idle
    <3>1. age'["pose"] = age["pose"]
      BY <1>3, <2>1, <2>3 DEF Send, Timers
    <3>2. QED
      BY <1>1, <2>1, <2>3, <3>1 DEF Send, runVars
  <2>4. QED
    BY <2>2, <2>3
<1>5. CASE WriteFails \/ WriteTimesOut
  <2>1. CASE writer = "battery"
    BY <1>1, <1>5, <2>1 DEF WriteFails, WriteTimesOut, BatteryWriteFails, runVars
  <2>2. CASE writer # "battery"
    BY <1>2, <1>5, <2>2 DEF WriteFails, WriteTimesOut, Ends
  <2>3. QED
    BY <2>1, <2>2
<1>6. CASE ReadFails \/ CancelNoticed
  BY <1>2, <1>6 DEF ReadFails, CancelNoticed, Ends
<1>7. CASE Tick
  <2>1. phase = "session" /\ status' \in {status, "Stale"}
    BY <1>7 DEF Tick
  <2>2. CASE PumpReturns("transient", "silence") \/ PumpReturns("terminal", "unsupported")
    BY <1>2, <2>1, <2>2
  <2>3. CASE age' = Reset("tick") /\ UNCHANGED <<phase, productive>>
    <3>1. age'["pose"] = age["pose"]
      BY <1>3, <2>3 DEF Timers
    <3>2. QED
      BY <2>1, <2>3, <3>1
  <2>4. QED
    BY <1>7, <2>2, <2>3 DEF Tick
<1>8. CASE WriterTakes
  <2>1. age'["pose"] = age["pose"]
    BY <1>3, <1>8 DEF WriterTakes, Timers
  <2>2. QED
    BY <1>1, <1>8, <2>1 DEF WriterTakes, runVars
<1>9. CASE ReadNothing \/ ReadFrame \/ ReadQuat \/ ReadBattery
  <2>1. phase = "session" /\ phase' = phase
    BY <1>9 DEF ReadNothing, ReadFrame, ReadQuat, ReadBattery, BytesArrive
  <2>2. NoPosePublished \/ PosePublished
    BY <1>9 DEF ReadNothing, ReadFrame, ReadQuat, ReadBattery
  <2>3. CASE NoPosePublished
    <3>1. age'["pose"] = age["pose"]
      BY <1>3, <2>3 DEF NoPosePublished, Timers
    <3>2. QED
      BY <1>1, <2>1, <2>3, <3>1 DEF NoPosePublished
  <2>4. CASE PosePublished
    BY <2>1, <2>4 DEF PosePublished
  <2>5. QED
    BY <2>2, <2>3, <2>4
<1>10. CASE OpenFails \/ Closed
  BY <1>10 DEF OpenFails, Closed, AttemptEnds
<1>11. CASE OpenOk
  <2>1. age'["pose"] = StaleAfter
    BY <1>11, <1>a DEF OpenOk
  <2>2. QED
    BY <1>11, <2>1, <1>a DEF OpenOk
<1>12. CASE Retry \/ CancelWaiting
  BY <1>12 DEF Retry, CancelWaiting
<1>13. CASE Advance
  <2>1. age'["pose"] < StaleAfter => age["pose"] < StaleAfter
    BY <1>13, <1>a, Caps DEF Advance
  <2>2. QED
    BY <1>13, <2>1 DEF Advance, runVars
<1>14. CASE WriteDone \/ BatteryTimesOut \/ Cancel \/ UNCHANGED acqVars
  BY <1>1, <1>14 DEF WriteDone, BatteryTimesOut, Cancel, acqVars, runVars
<1>15. QED
  BY <1>4, <1>5, <1>6, <1>7, <1>8, <1>9, <1>10, <1>11, <1>12, <1>13, <1>14
     DEF AcquisitionNext, Pump, Device

\* Whatever the durations, no pose is shown as fresh after its connection.
THEOREM FreshPosesAreOfTheConnection == AcquisitionSpec => []FreshIsConnected
<1>1. AcquisitionInit => Connected
  BY Caps, DurationsAssumption DEF AcquisitionInit, Connected
<1>2. Connected => FreshIsConnected
  BY DEF Connected, FreshIsConnected, Fresh
<1>3. QED
  BY <1>1, <1>2, ConnectedStep, AcquisitionTypeCorrect, PTL DEF AcquisitionSpec

-----------------------------------------------------------------------------
(***************************************************************************)
(* The pauses between the attempts.                                        *)
(***************************************************************************)

Doubled(p) == IF 2 * p < MaxPause THEN 2 * p ELSE MaxPause
Backoffs ==
  IF phase = "waiting" THEN backoff = IF delivered \/ pause = 0 THEN 1 ELSE Doubled(pause)
  ELSE phase # "ended" => backoff = IF pause = 0 THEN 1 ELSE Doubled(pause)

LEMMA BackoffsStep ==
  ASSUME AcquisitionTypeOK, Backoffs, [AcquisitionNext]_acqVars
  PROVE  Backoffs'
<1> USE DEF Backoffs
<1>1. ASSUME UNCHANGED <<phase, backoff, pause, delivered>> PROVE Backoffs'
  BY <1>1
<1>2. ASSUME phase = "session", NEW class, NEW cause, PumpReturns(class, cause) PROVE Backoffs'
  BY <1>2 DEF PumpReturns
<1>3. CASE RequestQuat \/ RequestBattery
  BY <1>1, <1>2, <1>3 DEF RequestQuat, RequestBattery, Send, Ends, runVars
<1>4. CASE WriteFails \/ WriteTimesOut
  BY <1>1, <1>2, <1>4 DEF WriteFails, WriteTimesOut, BatteryWriteFails, Ends, runVars
<1>5. CASE ReadFails \/ CancelNoticed
  BY <1>2, <1>5 DEF ReadFails, CancelNoticed, Ends
<1>6. CASE Tick
  BY <1>1, <1>2, <1>6 DEF Tick
<1>7. CASE ReadNothing \/ ReadFrame \/ ReadQuat \/ ReadBattery
  <2>1. UNCHANGED <<phase, backoff, pause, delivered>>
    BY <1>7 DEF ReadNothing, ReadFrame, ReadQuat, ReadBattery, BytesArrive
  <2>2. QED
    BY <1>1, <2>1
<1>8. CASE OpenOk
  BY <1>8 DEF OpenOk
<1>9. CASE OpenFails
  <2>1. phase = "opening" /\ phase' \in {"waiting", "ended"} /\ UNCHANGED <<backoff, pause>>
    BY <1>9 DEF OpenFails, AttemptEnds
  <2>2. delivered' = FALSE
    BY <1>9 DEF OpenFails
  <2>3. QED
    BY <2>1, <2>2
<1>10. CASE Closed
  <2>1. phase = "closing" /\ phase' \in {"waiting", "ended"} /\ pause' = pause
    BY <1>10 DEF Closed, AttemptEnds
  <2>2. delivered' = productive /\ backoff' = IF productive THEN 1 ELSE backoff
    BY <1>10 DEF Closed
  <2>3. QED
    BY <2>1, <2>2
<1>11. CASE Retry
  <2>1. backoff \in Nat /\ backoff # 0
    BY DurationsAssumption DEF AcquisitionTypeOK
  <2>2. phase' = "opening" /\ pause' = backoff /\ backoff' = Doubled(backoff)
    BY <1>11 DEF Retry, Doubled
  <2>3. QED
    BY <2>1, <2>2
<1>12. CASE CancelWaiting
  BY <1>12 DEF CancelWaiting
<1>13. CASE WriterTakes \/ WriteDone \/ BatteryTimesOut \/ Advance \/ Cancel \/ UNCHANGED acqVars
  BY <1>1, <1>13 DEF WriterTakes, WriteDone, BatteryTimesOut, Advance, Cancel, acqVars, runVars
<1>14. QED
  BY <1>3, <1>4, <1>5, <1>6, <1>7, <1>8, <1>9, <1>10, <1>11, <1>12, <1>13
     DEF AcquisitionNext, Pump, Device

\* The pauses double up to MaxPause, and a connection that delivered samples is
\* the only thing that resets them.
THEOREM PausesAlwaysDouble == AcquisitionSpec => []PausesDouble
<1>1. AcquisitionInit => Backoffs
  BY DEF AcquisitionInit, Backoffs
<1>2. Backoffs => PausesDouble
  BY DEF Backoffs, PausesDouble, Doubled
<1>3. QED
  BY <1>1, <1>2, BackoffsStep, AcquisitionTypeCorrect, PTL DEF AcquisitionSpec

=============================================================================
