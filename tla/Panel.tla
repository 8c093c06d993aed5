------------------------------- MODULE Panel -------------------------------
(***************************************************************************)
(* The window of the client.  Every frame is drawn from one copy of the    *)
(* service's view: the settings page is brought in line with it, and one   *)
(* click acts on what was drawn while the service moves on.  The page      *)
(* keeps a draft beside the settings last read, stages a preset that also  *)
(* changes how the device is read, and the window closes only when no      *)
(* operation is lost by it.                                                *)
(*                                                                         *)
(* Of the service only what this page sees is here: readings, connections, *)
(* submissions of settings and stops.  Latches, sessions and single writes *)
(* are in ClientService, the steps of a submission in ClientSettings.      *)
(***************************************************************************)
EXTENDS Integers, Sequences

CONSTANTS
  Devices,
  Formats,      \* the settings of a device
  Profile,      \* the settings the preset leads to
  MaxRequests   \* bound of the requests of one run

ASSUME PanelAssumption == Profile \in Formats /\ MaxRequests \in Nat

NoDevice == "no device"
Unread == [dev |-> NoDevice, stamp |-> 0, format |-> Profile]
NoApply == [target |-> Profile, complete |-> FALSE]

VARIABLES
  ui,      \* Panel: the frame, its copy of the view, the settings page
  prefs,   \* the selected device and, for every device remembered, its input
  close,   \* the closing of the window
  view,    \* View, shared with the worker
  worker,  \* the worker of the service and the task of its controller
  regs     \* the settings of the devices themselves

vars == <<ui, prefs, close, view, worker, regs>>

NoView == [request |-> 0, phase |-> "Idle", device |-> NoDevice, snap |-> Unread, apply |-> NoApply]

Init ==
  /\ ui = [pc |-> "logic", seen |-> NoView, of |-> NoDevice, draft |-> Profile, baseline |-> Unread,
           prepare |-> FALSE, prepared |-> 0, noted |-> <<NoDevice, 0>>, staged |-> 0]
  /\ prefs \in [dev : {NoDevice}, input : [Devices -> {"automatic"}]]
  /\ close = [closing |-> FALSE, allow |-> FALSE, leaving |-> FALSE, late |-> FALSE, closed |-> FALSE]
  /\ view = NoView
  /\ worker = [pc |-> "loop", queue |-> <<>>, cur |-> 0, phase |-> "Idle", state |-> "Idle",
               does |-> "none", dev |-> NoDevice, expected |-> Unread, target |-> Profile,
               desc |-> Unread, snap |-> Unread]
  /\ regs \in [Devices -> Formats]

Busy(v) == v.phase \notin {"Idle", "Failed"}

-----------------------------------------------------------------------------
(***************************************************************************)
(* The settings page.                                                      *)
(***************************************************************************)

\* current_settings: what the view says of the selected device, or nothing.
Current(p, v) == IF v.device = p.dev THEN v.snap ELSE Unread

Applied(p, v) == v.apply.complete /\ v.apply.target = Current(p, v).format

\* Another device is another page: nothing of the one before is kept.
\* Faulty variant of Switched: a staged preset stays.
SwitchedStaged(u, p) ==
  IF u.of = p.dev THEN u
  ELSE [u EXCEPT !.of = p.dev, !.baseline = Unread, !.noted = <<NoDevice, 0>>, !.draft = Profile,
                 !.prepared = 0]
Switched(u, p) ==
  IF u.of = p.dev THEN u
  ELSE [u EXCEPT !.of = p.dev, !.baseline = Unread, !.noted = <<NoDevice, 0>>, !.draft = Profile,
                 !.prepare = FALSE, !.prepared = 0]

\* A staged preset takes effect with the submission it was sent with.
Authorised(u, p, v) == Applied(p, v) /\ u.prepare /\ u.prepared = v.request

\* A new reading replaces a draft that was not edited, or was applied.
Redrafted(u, p, v) == u.baseline \in {Unread, [u.baseline EXCEPT !.format = u.draft]} \/ Applied(p, v)

\* sync_settings.
Synced(u0, p, v) ==
  LET u == Switched(u0, p)
      now == Current(p, v)
      done == IF Authorised(u, p, v) THEN [u EXCEPT !.prepare = FALSE, !.prepared = 0] ELSE u
      stamp == <<p.dev, now.stamp>>
  IN IF now = Unread THEN u
     ELSE IF u.noted = stamp THEN done
     ELSE [done EXCEPT !.draft = IF Redrafted(u, p, v) THEN now.format ELSE @,
                       !.baseline = now, !.noted = stamp]

Tracked(u, p, v) ==
  LET s == Switched(u, p) IN
  IF Current(p, v) # Unread /\ Authorised(s, p, v)
    THEN [p EXCEPT !.input[p.dev] = "automatic"] ELSE p

Staged == ui.prepare /\ prefs.dev # NoDevice /\ prefs.input[prefs.dev] # "automatic"
Edited == ui.baseline # Unread /\ ui.draft # ui.baseline.format
Count == (IF Edited THEN 1 ELSE 0) + (IF Staged THEN 1 ELSE 0)

-----------------------------------------------------------------------------
(***************************************************************************)
(* A frame: the logic, the look at the view, at most one click.            *)
(***************************************************************************)

\* Faulty variant of Guards: only the operation, not its end.
GuardsOperating(v) == v.phase = "Operating"
\* guards_quit, of the phases that are here.
Guards(v) == v.phase \in {"Operating", "Stopping"}

\* guard_close: a request to close is refused while an operation runs, and made
\* again by the window itself when it has ended.
Decided(requested, guarded) ==
  LET refused == requested /\ guarded /\ ~close.allow
      closing == close.closing \/ refused
      lets == closing /\ ~guarded
  IN [close EXCEPT !.closing = closing /\ ~lets, !.allow = @ \/ lets,
                   !.leaving = requested /\ ~refused]

\* logic: also in a frame that draws nothing.  A window that was allowed to
\* close has asked for it.
Logic ==
  /\ ui.pc = "logic" /\ ~close.closed
  /\ \E asked \in BOOLEAN : close' = Decided(asked \/ close.allow, Guards(view))
  /\ ui' = [ui EXCEPT !.pc = "look"]
  /\ UNCHANGED <<prefs, view, worker, regs>>

Look ==
  /\ ui.pc = "look"
  /\ ui' = [Synced(ui, prefs, view) EXCEPT !.pc = "page", !.seen = view]
  /\ prefs' = Tracked(ui, prefs, view)
  /\ UNCHANGED <<close, view, worker, regs>>

\* The end of a frame, drawn or not.  The last one ends the window.
Ends ==
  /\ ui.pc \in {"look", "page", "end"} /\ ui' = [ui EXCEPT !.pc = "logic", !.seen = NoView]
  /\ close' = [close EXCEPT !.closed = close.leaving]
  /\ UNCHANGED <<prefs, view, worker, regs>>

-----------------------------------------------------------------------------
(***************************************************************************)
(* Clicks.  What is enabled was decided by the copy of the view; a request *)
(* is admitted by the view itself.                                         *)
(***************************************************************************)

Shown == ui.pc = "page"
Drawn(u) == ui' = [u EXCEPT !.pc = "end"]
Calm == ~Busy(ui.seen)
Editable == ui.baseline # Unread /\ ui.seen.phase \in {"Idle", "Failed", "Tracking"}

PhaseOf(do) ==
  CASE do = "inspect" -> "Inspecting" [] do = "connect" -> "Tracking"
    [] do = "apply" -> "Operating" [] do = "stop" -> "Stopping"

\* send, of a request for the selected device.
Admitted(do) == (do = "stop" \/ ~Busy(view)) /\ Len(worker.queue) < 2
Sends(do) ==
  /\ view.request < MaxRequests
  /\ IF Admitted(do)
       THEN /\ view' = [view EXCEPT
                 !.request = @ + 1, !.phase = PhaseOf(do),
                 !.device = IF do = "stop" THEN @ ELSE prefs.dev,
                 !.apply = IF do = "stop" THEN @ ELSE NoApply]
            /\ worker' = [worker EXCEPT !.queue = Append(@,
                 [id |-> view.request + 1, do |-> do, dev |-> prefs.dev,
                  expected |-> ui.baseline, target |-> ui.draft])]
            /\ close' = [close EXCEPT !.late = @ \/ close.leaving \/ close.allow]
       ELSE UNCHANGED <<view, worker, close>>
  /\ UNCHANGED <<prefs, regs>>

\* Read settings and Connect, of a device that is chosen; Disconnect and Cancel.
Reads == Shown /\ Calm /\ prefs.dev # NoDevice /\ (Sends("inspect") \/ Sends("connect")) /\ Drawn(ui)
Stops == Shown /\ Busy(ui.seen) /\ ui.seen.phase # "Stopping" /\ Sends("stop") /\ Drawn(ui)

\* Apply changes; the request is remembered for a staged preset.
Applies ==
  /\ Shown /\ Calm /\ prefs.dev # NoDevice /\ Count > 0
  /\ Sends("apply")
  /\ Drawn([ui EXCEPT !.prepared = IF Admitted("apply") /\ ui.prepare THEN view.request + 1 ELSE @])

Discards ==
  /\ Shown /\ Calm /\ Count > 0
  /\ Drawn([ui EXCEPT !.draft = IF ui.baseline # Unread THEN ui.baseline.format ELSE @,
                      !.prepare = FALSE, !.prepared = 0])
  /\ UNCHANGED <<prefs, close, view, worker, regs>>

\* The choices of the page, and the preset: its format and the stream.
Edits ==
  /\ Shown /\ Editable
  /\ \/ \E f \in Formats : Drawn([ui EXCEPT !.draft = f])
     \/ /\ ui.draft # Profile \/ prefs.input[prefs.dev] # "automatic"
        /\ Drawn([ui EXCEPT !.draft = Profile, !.prepare = TRUE, !.prepared = 0,
                            !.staged = view.request])
  /\ UNCHANGED <<prefs, close, view, worker, regs>>

\* Selecting a device, whose input is the one remembered; the page follows in
\* the same frame.  The input is chosen with the mounting.
Selects ==
  /\ Shown /\ Calm
  /\ \E d \in Devices :
       LET p == [prefs EXCEPT !.dev = d] IN
       d # prefs.dev /\ Drawn(Synced(ui, p, ui.seen)) /\ prefs' = Tracked(ui, p, ui.seen)
  /\ UNCHANGED <<close, view, worker, regs>>
Inputs ==
  /\ Shown /\ Calm /\ prefs.dev # NoDevice
  /\ \E i \in {"automatic", "quaternion"} : prefs' = [prefs EXCEPT !.input[prefs.dev] = i]
  /\ Drawn(ui) /\ UNCHANGED <<close, view, worker, regs>>

\* Return to PoseBridge.
Returns ==
  /\ Shown /\ close.closing /\ close' = [close EXCEPT !.closing = FALSE]
  /\ Drawn(ui) /\ UNCHANGED <<prefs, view, worker, regs>>

Click == Reads \/ Stops \/ Applies \/ Discards \/ Edits \/ Selects \/ Inputs \/ Returns

-----------------------------------------------------------------------------
(***************************************************************************)
(* The service.                                                            *)
(***************************************************************************)

Service(w) == worker' = w /\ UNCHANGED <<ui, prefs, close, regs>>
Runs(w, do) == [w EXCEPT !.does = do, !.state = "Running", !.desc = Unread]

\* A request: stop ends the task; another may be refused by set_config while the
\* task before it finishes, which leaves everything of that task as it was.
Takes ==
  /\ worker.pc = "loop" /\ worker.queue # <<>>
  /\ LET r == Head(worker.queue)
         w == [worker EXCEPT !.queue = Tail(@), !.cur = r.id, !.pc = "poll"]
         started == [w EXCEPT !.dev = r.dev, !.phase = PhaseOf(r.do), !.expected = r.expected,
                              !.target = r.target]
     IN \/ /\ r.do = "stop" /\ view' = view
           /\ Service([w EXCEPT !.phase = "Idle", !.state = "Stopped", !.does = "none",
                                !.desc = IF worker.state = "Running" THEN Unread ELSE @])
        \/ /\ r.do \in {"inspect", "connect"} /\ view' = view
           /\ \/ Service(Runs(started, r.do))
              \/ worker.state = "Complete" /\ Service([w EXCEPT !.phase = "Failed", !.does = "none"])
        \/ /\ r.do = "apply" /\ view' = [view EXCEPT !.apply = [target |-> r.target, complete |-> FALSE]]
           /\ Service(Runs(started, "before"))

\* The task ends: a reading, with the writes of a submission before it, or a
\* failure, after which a write may have been made.
TaskEnds ==
  /\ worker.state = "Running"
  /\ \E after \in {regs[worker.dev]} \cup (IF worker.does = "write" THEN {worker.target} ELSE {}) :
       /\ regs' = [regs EXCEPT ![worker.dev] = after]
       /\ \/ worker' = [worker EXCEPT !.state = "Complete",
               !.desc = [dev |-> worker.dev, stamp |-> 2 * view.request
                           + (IF worker.does \in {"write", "after"} THEN 1 ELSE 0), format |-> after]]
          \/ worker' = [worker EXCEPT !.state = "Failed"]
  /\ UNCHANGED <<ui, prefs, close, view>>

\* What follows a task: the next step of a submission, the end of a reading, the
\* acquisition of a connection.
Polled ==
  LET w == [worker EXCEPT !.pc = "publish"]
      ended(phase) == [w EXCEPT !.does = "none", !.phase = phase]
  IN IF w.state = "Failed" THEN ended("Failed")
     ELSE IF w.state # "Complete" THEN w
     ELSE CASE w.does = "inspect" -> ended("Idle")
            [] w.does = "connect" -> [w EXCEPT !.does = "track", !.state = "Active"]
            [] w.does = "before" -> IF w.desc.format # w.expected.format THEN ended("Failed")
                                    ELSE IF w.target = w.desc.format THEN ended("Idle")
                                    ELSE Runs(w, "write")
            [] w.does = "write" -> Runs(w, "after")
            [] w.does = "after" -> ended(IF w.desc.format = w.target THEN "Idle" ELSE "Failed")
            [] OTHER -> w

\* The progress of a submission is published at once, the rest with the snapshot.
Polls ==
  /\ worker.pc \in {"loop", "poll"} /\ (worker.pc = "poll" \/ worker.queue = <<>>)
  /\ LET w == Polled
         completes == worker.does \in {"before", "after"} /\ w.phase = "Idle"
     IN /\ view' = IF completes THEN [view EXCEPT !.apply = [target |-> w.target, complete |-> TRUE]]
                   ELSE view
        /\ Service([w EXCEPT !.snap = w.desc])

\* A change of phase is published at once, a snapshot every 100 ms, and nothing
\* of a request that is not the latest.
Publishes ==
  /\ worker.pc = "publish" /\ Service([worker EXCEPT !.pc = "loop", !.snap = Unread])
  /\ LET now == [view EXCEPT !.phase = worker.phase, !.snap = worker.snap] IN
     IF view.request # worker.cur THEN view' = view
     ELSE view' = now \/ (view.phase = worker.phase /\ view' = view)

Work == Takes \/ Polls \/ Publishes

Next == Logic \/ Look \/ Click \/ Ends \/ ((Work \/ TaskEnds) /\ ~close.closed)

Spec == Init /\ [][Next]_vars

-----------------------------------------------------------------------------
(***************************************************************************)
(* Properties.                                                             *)
(***************************************************************************)

\* While Apply changes can be clicked there are settings that were read: the
\* code expects them.
ApplyHasBaseline == Count > 0 => ui.baseline # Unread

\* No reading takes an edit back, whether it comes before, with or after the end
\* of a submission: a draft that differs from what was read is left alone.
EditsAreKept ==
  [][Edited /\ ui'.pc = "page" /\ ui.pc = "look" /\ ui'.of = ui.of => ui'.draft = ui.draft]_vars

\* The input changes by itself only when a submission that was made after the
\* preset had been staged has been read back.
PresetIsVerified ==
  [][\A d \in Devices :
       ui.pc = "look" /\ prefs'.input[d] # prefs.input[d] =>
         /\ view.apply.complete /\ view.device = d /\ view.request > ui.staged]_vars

\* The window never closes on a device operation, unless it was started in the
\* frames in which the window was already closing.
QuitIsQuiet == close.closed => ~(view.phase \in {"Operating", "Stopping"}) \/ close.late

\* "Read settings" reads the values of the device, and what can be edited and
\* applied are "observed settings": those of the device that is selected.
BaselineIsOfTheDevice == ui.baseline # Unread => ui.baseline.dev = ui.of

=============================================================================
