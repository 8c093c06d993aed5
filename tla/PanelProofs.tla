---------------------------- MODULE PanelProofs ----------------------------
(***************************************************************************)
(* Proofs about the window: Panel, for any devices and settings and any    *)
(* number of requests (the page never applies without a reading, and the   *)
(* window does not close on an operation), and Guidance, for every way the *)
(* sensor may sit, any mountings tried and any number of sessions (a wrong *)
(* motion is caught, results are of one session, every turn leads on).     *)
(***************************************************************************)
EXTENDS Panel, Guidance, FiniteSetTheorems, TLAPS

-----------------------------------------------------------------------------
(***************************************************************************)
(* Types.                                                                  *)
(***************************************************************************)

Devs == Devices \cup {NoDevice}
Readings == [dev : Devs, stamp : Nat, format : Formats]
Phases == {"Idle", "Failed", "Inspecting", "Tracking", "Operating", "Stopping"}
Applications == [target : Formats, complete : BOOLEAN]
Views == [request : Nat, phase : Phases, device : Devs, snap : Readings, apply : Applications]
Asked == {"inspect", "connect", "apply", "stop"}
Requests == [id : Nat, do : Asked, dev : Devs, expected : Readings, target : Formats]
Pages == [pc : {"logic", "look", "page", "end"}, seen : Views, of : Devs, draft : Formats,
          baseline : Readings, prepare : BOOLEAN, prepared : Nat, noted : Devs \X Nat, staged : Nat]
Preferences == [dev : Devs, input : [Devices -> {"automatic", "quaternion"}]]
Closings == [closing : BOOLEAN, allow : BOOLEAN, leaving : BOOLEAN, late : BOOLEAN, closed : BOOLEAN]
Workers == [pc : {"loop", "poll", "publish"}, queue : Seq(Requests), cur : Nat,
            phase : Phases \ {"Stopping"},
            state : {"Idle", "Running", "Complete", "Failed", "Stopped", "Active"},
            does : {"none", "inspect", "connect", "before", "write", "after", "track"},
            dev : Devs, expected : Readings, target : Formats, desc : Readings, snap : Readings]

\* A task runs on a device, and so will those that were asked for.
OnADevice ==
  /\ worker.state \in {"Running", "Complete"} => worker.dev \in Devices
  /\ \A i \in 1 .. Len(worker.queue) :
       worker.queue[i].do # "stop" => worker.queue[i].dev \in Devices

TypeOK ==
  /\ ui \in Pages /\ prefs \in Preferences /\ close \in Closings
  /\ view \in Views /\ worker \in Workers /\ regs \in [Devices -> Formats]
  /\ OnADevice

-----------------------------------------------------------------------------
(***************************************************************************)
(* The inductive invariant.                                                *)
(***************************************************************************)

\* A preset is staged on a page with settings, and taken off with them.
StagedOnAReading == ui.prepare => ui.baseline # Unread

\* Requests are numbered in the order in which they are taken.
InOrder ==
  /\ worker.cur <= view.request
  /\ \A i \in 1 .. Len(worker.queue) :
       /\ worker.cur < worker.queue[i].id /\ worker.queue[i].id <= view.request
       /\ \A j \in 1 .. Len(worker.queue) : i < j => worker.queue[i].id < worker.queue[j].id

\* Until the worker publishes for the latest request the view shows what that
\* request set it to, so that it never shows an operation nobody clicked.
ShownAsAsked ==
  /\ \A i \in 1 .. Len(worker.queue) :
       worker.queue[i].id = view.request => view.phase = PhaseOf(worker.queue[i].do)
  /\ worker.cur = view.request /\ worker.phase = "Operating" => view.phase = "Operating"

\* A window that may close has seen no operation, unless one was clicked since.
LeavingIsQuiet ==
  /\ close.leaving \/ close.allow => close.late \/ ~Guards(view)
  /\ close.closed => close.leaving /\ ui.pc = "logic"

-----------------------------------------------------------------------------

LEMMA UnreadIsAReading == Unread \in Readings
BY PanelAssumption DEF Unread, Readings, Devs

LEMMA CurrentIsAReading ==
  ASSUME NEW p \in Preferences, NEW v \in Views
  PROVE  Current(p, v) \in Readings
BY UnreadIsAReading DEF Current, Views

LEMMA SwitchedIsAPage ==
  ASSUME NEW u \in Pages, NEW p \in Preferences
  PROVE  /\ Switched(u, p) \in Pages
         /\ (u.prepare => u.baseline # Unread)
              => (Switched(u, p).prepare => Switched(u, p).baseline # Unread)
<1>1. CASE u.of = p.dev
  BY <1>1 DEF Switched
<1>2. CASE u.of # p.dev
  <2>1. Switched(u, p) = [u EXCEPT !.of = p.dev, !.baseline = Unread, !.noted = <<NoDevice, 0>>,
                                  !.draft = Profile, !.prepare = FALSE, !.prepared = 0]
    BY <1>2 DEF Switched
  <2>2. p.dev \in Devs /\ NoDevice \in Devs /\ Profile \in Formats
    BY PanelAssumption DEF Preferences, Devs
  <2>3. <<NoDevice, 0>> \in Devs \X Nat
    BY <2>2
  <2>4. Switched(u, p) \in Pages
    BY <2>1, <2>2, <2>3, UnreadIsAReading DEF Pages
  <2>5. Switched(u, p).prepare = FALSE
    BY <2>1 DEF Pages
  <2>6. QED
    BY <2>4, <2>5
<1>3. QED
  BY <1>1, <1>2

\* What a page is after it was brought in line with a view.
LEMMA SyncedIsAPage ==
  ASSUME NEW u0 \in Pages, NEW p \in Preferences, NEW v \in Views,
         u0.prepare => u0.baseline # Unread
  PROVE  /\ Synced(u0, p, v) \in Pages
         /\ Synced(u0, p, v).prepare => Synced(u0, p, v).baseline # Unread
<1> DEFINE u == Switched(u0, p)
           now == Current(p, v)
           done == IF Authorised(u, p, v) THEN [u EXCEPT !.prepare = FALSE, !.prepared = 0] ELSE u
           stamp == <<p.dev, now.stamp>>
           new == [done EXCEPT !.draft = IF Redrafted(u, p, v) THEN now.format ELSE @,
                               !.baseline = now, !.noted = stamp]
<1>1. u \in Pages /\ (u.prepare => u.baseline # Unread)
  BY SwitchedIsAPage
<1>2. now \in Readings
  BY CurrentIsAReading
<1>3. now.stamp \in Nat /\ now.format \in Formats /\ p.dev \in Devs
  BY <1>2 DEF Readings, Preferences
<1>4. Synced(u0, p, v) = IF now = Unread THEN u ELSE IF u.noted = stamp THEN done ELSE new
  BY DEF Synced
<1> HIDE DEF u, now
<1>5. done \in Pages /\ (done.prepare => done.baseline # Unread)
  <2>1. CASE Authorised(u, p, v)
    <3>1. done = [u EXCEPT !.prepare = FALSE, !.prepared = 0]
      BY <2>1
    <3>2. QED
      BY <3>1, <1>1 DEF Pages
  <2>2. CASE ~Authorised(u, p, v)
    BY <2>2, <1>1
  <2>3. QED
    BY <2>1, <2>2
<1> HIDE DEF done
<1>6. stamp \in Devs \X Nat
  BY <1>3
<1> HIDE DEF stamp
<1>7. new \in Pages /\ new.baseline = now
  BY <1>2, <1>3, <1>5, <1>6 DEF Pages
<1> HIDE DEF new
<1>8. QED
  BY <1>1, <1>4, <1>5, <1>7

LEMMA TrackedArePreferences ==
  ASSUME NEW u, NEW p \in Preferences, NEW v
  PROVE  Tracked(u, p, v) \in Preferences
BY DEF Tracked, Preferences

LEMMA PhaseOfIsAPhase == \A do \in Asked : PhaseOf(do) \in Phases
BY DEF PhaseOf, Asked, Phases

LEMMA PageWithPc ==
  ASSUME NEW u \in Pages, NEW q \in {"logic", "look", "page", "end"}
  PROVE  /\ [u EXCEPT !.pc = q] \in Pages
         /\ [u EXCEPT !.pc = q].prepare = u.prepare
         /\ [u EXCEPT !.pc = q].baseline = u.baseline
BY DEF Pages

-----------------------------------------------------------------------------
(***************************************************************************)
(* Every step keeps the types.                                             *)
(***************************************************************************)

LEMMA PageStep ==
  ASSUME ui \in Pages, view \in Views, prefs \in Preferences, StagedOnAReading, Next
  PROVE  ui' \in Pages /\ StagedOnAReading'
<1>0. ASSUME NEW u \in Pages, u.prepare => u.baseline # Unread,
             NEW q \in {"logic", "look", "page", "end"}, ui' = [u EXCEPT !.pc = q]
      PROVE  ui' \in Pages /\ StagedOnAReading'
  BY <1>0, PageWithPc DEF StagedOnAReading
<1>1. CASE Drawn(ui)
  BY <1>0, <1>1 DEF Drawn, StagedOnAReading
<1>2. CASE Logic
  BY <1>0, <1>2 DEF Logic, StagedOnAReading
<1>3. CASE Look
  <2> DEFINE s == Synced(ui, prefs, view)
  <2>1. s \in Pages /\ (s.prepare => s.baseline # Unread)
    BY SyncedIsAPage DEF StagedOnAReading
  <2>2. ui' = [s EXCEPT !.pc = "page", !.seen = view]
    BY <1>3 DEF Look
  <2> HIDE DEF s
  <2>3. ui' \in Pages /\ ui'.prepare = s.prepare /\ ui'.baseline = s.baseline
    BY <2>1, <2>2 DEF Pages
  <2>4. QED
    BY <2>1, <2>3 DEF StagedOnAReading
<1>4. CASE Applies
  <2> DEFINE next == IF Admitted("apply") /\ ui.prepare THEN view.request + 1 ELSE ui.prepared
             u == [ui EXCEPT !.prepared = next]
  <2>1. next \in Nat
    BY DEF Pages, Views
  <2>2. ui' = [u EXCEPT !.pc = "end"]
    BY <1>4 DEF Applies, Drawn
  <2> HIDE DEF next
  <2>3. u \in Pages /\ u.prepare = ui.prepare /\ u.baseline = ui.baseline
    BY <2>1 DEF Pages
  <2> HIDE DEF u
  <2>4. QED
    BY <1>0, <2>2, <2>3 DEF StagedOnAReading
<1>5. CASE Discards
  <2> DEFINE draft == IF ui.baseline # Unread THEN ui.baseline.format ELSE ui.draft
             u == [ui EXCEPT !.draft = draft, !.prepare = FALSE, !.prepared = 0]
  <2>1. draft \in Formats
    BY DEF Pages, Readings
  <2>2. ui' = [u EXCEPT !.pc = "end"]
    BY <1>5 DEF Discards, Drawn
  <2> HIDE DEF draft
  <2>3. u \in Pages
    BY <2>1 DEF Pages
  <2>4. u.prepare = FALSE
    BY DEF Pages
  <2> HIDE DEF u
  <2>5. QED
    BY <1>0, <2>2, <2>3, <2>4
<1>6. CASE Edits
  <2>1. ui.baseline # Unread
    BY <1>6 DEF Edits, Editable
  <2>2. ASSUME NEW f \in Formats, Drawn([ui EXCEPT !.draft = f])
        PROVE  ui' \in Pages /\ StagedOnAReading'
    <3> DEFINE u == [ui EXCEPT !.draft = f]
    <3>1. u \in Pages /\ u.baseline = ui.baseline
      BY DEF Pages
    <3>2. ui' = [u EXCEPT !.pc = "end"]
      BY <2>2 DEF Drawn
    <3> HIDE DEF u
    <3>3. QED
      BY <1>0, <2>1, <3>1, <3>2
  <2>3. ASSUME Drawn([ui EXCEPT !.draft = Profile, !.prepare = TRUE, !.prepared = 0,
                                !.staged = view.request])
        PROVE  ui' \in Pages /\ StagedOnAReading'
    <3> DEFINE u == [ui EXCEPT !.draft = Profile, !.prepare = TRUE, !.prepared = 0,
                               !.staged = view.request]
    <3>1. Profile \in Formats /\ view.request \in Nat
      BY PanelAssumption DEF Views
    <3>2. u \in Pages /\ u.baseline = ui.baseline
      BY <3>1 DEF Pages
    <3>3. ui' = [u EXCEPT !.pc = "end"]
      BY <2>3 DEF Drawn
    <3> HIDE DEF u
    <3>4. QED
      BY <1>0, <2>1, <3>2, <3>3
  <2>4. QED
    BY <1>6, <2>2, <2>3 DEF Edits
<1>7. CASE Selects
  <2>1. PICK d \in Devices : Drawn(Synced(ui, [prefs EXCEPT !.dev = d], ui.seen))
    BY <1>7 DEF Selects
  <2> DEFINE p == [prefs EXCEPT !.dev = d]
             s == Synced(ui, p, ui.seen)
  <2>2. p \in Preferences /\ ui.seen \in Views
    BY DEF Preferences, Devs, Pages
  <2> HIDE DEF p
  <2>3. s \in Pages /\ (s.prepare => s.baseline # Unread)
    BY <2>2, SyncedIsAPage DEF StagedOnAReading
  <2>4. ui' = [s EXCEPT !.pc = "end"]
    BY <2>1 DEF Drawn, p
  <2> HIDE DEF s
  <2>5. QED
    BY <1>0, <2>3, <2>4
<1>8. CASE Ends
  <2> DEFINE u == [ui EXCEPT !.pc = "logic"]
  <2>1. ui' = [ui EXCEPT !.pc = "logic", !.seen = NoView]
    BY <1>8 DEF Ends
  <2>2. NoView \in Views
    BY UnreadIsAReading, PanelAssumption DEF NoView, Views, NoApply, Applications, Phases, Devs
  <2>3. ui' \in Pages /\ ui'.prepare = ui.prepare /\ ui'.baseline = ui.baseline
    BY <2>1, <2>2 DEF Pages
  <2>4. QED
    BY <2>3 DEF StagedOnAReading
<1>9. CASE ui' = ui
  BY <1>9 DEF StagedOnAReading
<1>10. QED
  <2>1. Reads \/ Stops \/ Inputs \/ Returns => Drawn(ui)
    BY DEF Reads, Stops, Inputs, Returns
  <2>2. (Work \/ TaskEnds) => ui' = ui
    BY DEF Work, Takes, Polls, Publishes, TaskEnds, Service
  <2>3. QED
    BY <2>1, <2>2, <1>1, <1>2, <1>3, <1>4, <1>5, <1>6, <1>7, <1>8, <1>9 DEF Next, Click

LEMMA PreferencesStep ==
  ASSUME ui \in Pages, prefs \in Preferences, Next
  PROVE  prefs' \in Preferences
<1>1. CASE Look
  BY <1>1, TrackedArePreferences DEF Look
<1>2. CASE Selects
  <2>1. PICK d \in Devices : prefs' = Tracked(ui, [prefs EXCEPT !.dev = d], ui.seen)
    BY <1>2 DEF Selects
  <2>2. [prefs EXCEPT !.dev = d] \in Preferences
    BY DEF Preferences, Devs
  <2>3. QED
    BY <2>1, <2>2, TrackedArePreferences
<1>3. CASE Inputs
  BY <1>3 DEF Inputs, Preferences
<1>4. QED
  BY <1>1, <1>2, <1>3 DEF Next, Click, Logic, Ends, Reads, Stops, Applies, Discards, Edits,
     Returns, Sends, Work, Takes, Polls, Publishes, TaskEnds, Service

LEMMA ClosingStep ==
  ASSUME close \in Closings, Next
  PROVE  close' \in Closings
<1>1. CASE Logic
  <2>1. PICK asked \in BOOLEAN : close' = Decided(asked \/ close.allow, Guards(view))
    BY <1>1 DEF Logic
  <2> DEFINE requested == asked \/ close.allow
             guarded == Guards(view)
             refused == requested /\ guarded /\ ~close.allow
             closing == (close.closing \/ refused) /\ ~((close.closing \/ refused) /\ ~guarded)
             allow == close.allow \/ ((close.closing \/ refused) /\ ~guarded)
             leaving == requested /\ ~refused
  <2>2. close' = [close EXCEPT !.closing = closing, !.allow = allow, !.leaving = leaving]
    BY <2>1 DEF Decided
  <2>3. closing \in BOOLEAN /\ allow \in BOOLEAN /\ leaving \in BOOLEAN
    OBVIOUS
  <2> HIDE DEF closing, allow, leaving
  <2>4. QED
    BY <2>2, <2>3 DEF Closings
<1>2. CASE Ends
  BY <1>2 DEF Ends, Closings
<1>3. ASSUME NEW do, Sends(do)
      PROVE  close' \in Closings
  <2>1. CASE Admitted(do)
    <3> DEFINE late == close.late \/ close.leaving \/ close.allow
    <3>1. close' = [close EXCEPT !.late = late]
      BY <1>3, <2>1 DEF Sends
    <3>2. late \in BOOLEAN
      OBVIOUS
    <3> HIDE DEF late
    <3>3. QED
      BY <3>1, <3>2 DEF Closings
  <2>2. CASE ~Admitted(do)
    BY <1>3, <2>2 DEF Sends
  <2>3. QED
    BY <2>1, <2>2
<1>4. CASE Returns
  BY <1>4 DEF Returns, Closings
<1>5. QED
  BY <1>1, <1>2, <1>3, <1>4 DEF Next, Click, Look, Reads, Stops, Applies, Discards, Edits,
     Selects, Inputs, Work, Takes, Polls, Publishes, TaskEnds, Service

\* What a request does to the view, and what the worker does.
LEMMA ViewStep ==
  ASSUME view \in Views, ui \in Pages, prefs \in Preferences, worker \in Workers, Next
  PROVE  view' \in Views
<1>1. ASSUME NEW do \in Asked, Sends(do)
      PROVE  view' \in Views
  <2>1. CASE Admitted(do)
    <3> DEFINE device == IF do = "stop" THEN view.device ELSE prefs.dev
               apply == IF do = "stop" THEN view.apply ELSE NoApply
               request == view.request + 1
               phase == PhaseOf(do)
    <3>1. view' = [view EXCEPT !.request = request, !.phase = phase,
                               !.device = device, !.apply = apply]
      BY <1>1, <2>1 DEF Sends
    <3>2. device \in Devs /\ apply \in Applications
      BY PanelAssumption DEF Views, Preferences, NoApply, Applications
    <3>3. phase \in Phases /\ request \in Nat
      BY PhaseOfIsAPhase DEF Views
    <3> HIDE DEF device, apply, request, phase
    <3>4. QED
      BY <3>1, <3>2, <3>3 DEF Views
  <2>2. CASE ~Admitted(do)
    BY <1>1, <2>2 DEF Sends
  <2>3. QED
    BY <2>1, <2>2
<1>2. CASE Takes
  <2> DEFINE r == Head(worker.queue)
  <2>1. r \in Requests
    BY <1>2 DEF Takes, Workers
  <2>2. view' = view \/ view' = [view EXCEPT !.apply = [target |-> r.target, complete |-> FALSE]]
    BY <1>2 DEF Takes
  <2> HIDE DEF r
  <2>3. [target |-> r.target, complete |-> FALSE] \in Applications
    BY <2>1 DEF Requests, Applications
  <2>4. QED
    BY <2>2, <2>3 DEF Views
<1>3. CASE Polls
  <2> DEFINE apply == [target |-> Polled.target, complete |-> TRUE]
  <2>1. view' = view \/ view' = [view EXCEPT !.apply = apply]
    BY <1>3 DEF Polls
  <2>2. Polled.target \in Formats
    BY DEF Polled, Runs, Workers
  <2>3. apply \in Applications
    BY <2>2 DEF Applications
  <2> HIDE DEF apply
  <2>4. QED
    BY <2>1, <2>3 DEF Views
<1>4. CASE Publishes
  <2>1. view' = view \/ view' = [view EXCEPT !.phase = worker.phase, !.snap = worker.snap]
    BY <1>4 DEF Publishes
  <2>2. worker.phase \in Phases /\ worker.snap \in Readings
    BY DEF Workers
  <2>3. QED
    BY <2>1, <2>2 DEF Views
<1>5. CASE view' = view
  BY <1>5
<1>6. QED
  <2>1. Reads \/ Stops \/ Applies => \E do \in Asked : Sends(do)
    BY DEF Reads, Stops, Applies, Asked
  <2>2. (Logic \/ Look \/ Ends \/ Discards \/ Edits \/ Selects \/ Inputs \/ Returns \/ TaskEnds)
          => view' = view
    BY DEF Logic, Look, Ends, Discards, Edits, Selects, Inputs, Returns, TaskEnds
  <2>3. QED
    BY <2>1, <2>2, <1>1, <1>2, <1>3, <1>4, <1>5 DEF Next, Click, Work

LEMMA PolledIsAWorker ==
  ASSUME worker \in Workers, OnADevice
  PROVE  /\ Polled \in Workers
         /\ Polled.queue = worker.queue /\ Polled.cur = worker.cur
         /\ Polled.state \in {"Running", "Complete"} => Polled.dev \in Devices
         /\ Polled.phase \in {"Idle", "Failed", worker.phase}
<1> DEFINE w == [worker EXCEPT !.pc = "publish"]
           ended(phase) == [w EXCEPT !.does = "none", !.phase = phase]
           Kept(x) == /\ x \in Workers
                      /\ x.queue = worker.queue /\ x.cur = worker.cur
                      /\ x.state \in {"Running", "Complete"} => x.dev \in Devices
                      /\ x.phase \in {"Idle", "Failed", worker.phase}
<1>1. w \in Workers /\ w.dev = worker.dev /\ w.state = worker.state /\ w.does = worker.does
      /\ w.phase = worker.phase /\ w.queue = worker.queue /\ w.cur = worker.cur
  BY DEF Workers
<1>2. w.state \in {"Running", "Complete"} => w.dev \in Devices
  BY <1>1 DEF OnADevice
<1> HIDE DEF w
<1>3. Kept(w)
  BY <1>1, <1>2
<1>4. ASSUME NEW phase \in {"Idle", "Failed"}
      PROVE  Kept(ended(phase))
  <2>1. phase \in Phases \ {"Stopping"}
    BY DEF Phases
  <2>2. ended(phase) \in Workers
    BY <1>1, <2>1 DEF Workers
  <2>3. /\ ended(phase).queue = w.queue /\ ended(phase).cur = w.cur /\ ended(phase).dev = w.dev
        /\ ended(phase).state = w.state /\ ended(phase).phase = phase
    BY <1>1 DEF Workers
  <2>4. QED
    BY <1>1, <1>2, <2>2, <2>3
<1>5. ASSUME NEW do \in {"write", "after"}, w.dev \in Devices
      PROVE  Kept(Runs(w, do))
  <2> DEFINE x == Runs(w, do)
  <2>1. x \in Workers
    BY <1>1, UnreadIsAReading DEF Runs, Workers
  <2>2. x.queue = w.queue /\ x.cur = w.cur /\ x.dev = w.dev /\ x.phase = w.phase
    BY <1>1 DEF Runs, Workers
  <2> HIDE DEF x
  <2>3. QED
    BY <1>1, <1>5, <2>1, <2>2 DEF x
<1>6. Kept([w EXCEPT !.does = "track", !.state = "Active"])
  <2> DEFINE x == [w EXCEPT !.does = "track", !.state = "Active"]
  <2>1. x \in Workers
    BY <1>1 DEF Workers
  <2>2. x.queue = w.queue /\ x.cur = w.cur /\ x.phase = w.phase /\ x.state = "Active"
    BY <1>1 DEF Workers
  <2> HIDE DEF x
  <2>3. QED
    BY <1>1, <2>1, <2>2 DEF x
<1>7. \/ Polled = w
      \/ Polled = ended("Failed")
      \/ Polled = ended("Idle")
      \/ Polled = [w EXCEPT !.does = "track", !.state = "Active"]
      \/ w.state = "Complete" /\ (Polled = Runs(w, "write") \/ Polled = Runs(w, "after"))
  BY <1>1 DEF Polled, w
<1> HIDE DEF Kept, ended
<1>8. w.state = "Complete" => w.dev \in Devices
  BY <1>2
<1>9. Kept(Polled)
  BY <1>3, <1>4, <1>5, <1>6, <1>7, <1>8
<1>10. QED
  BY <1>9 DEF Kept

LEMMA TakesTheHead ==
  ASSUME worker \in Workers, OnADevice, Takes
  PROVE  /\ worker.queue # <<>> /\ Head(worker.queue) \in Requests
         /\ worker' \in Workers
         /\ worker'.queue = Tail(worker.queue) /\ worker'.cur = Head(worker.queue).id
         /\ worker'.state \in {"Running", "Complete"} => worker'.dev \in Devices
         /\ worker'.phase = "Operating" => Head(worker.queue).do = "apply"
<1> DEFINE r == Head(worker.queue)
           rest == Tail(worker.queue)
           w == [worker EXCEPT !.queue = rest, !.cur = r.id, !.pc = "poll"]
           phase == PhaseOf(r.do)
           started == [w EXCEPT !.dev = r.dev, !.phase = phase, !.expected = r.expected,
                                !.target = r.target]
           Good(x) == /\ x \in Workers
                      /\ x.queue = rest /\ x.cur = r.id
                      /\ x.state \in {"Running", "Complete"} => x.dev \in Devices
                      /\ x.phase = "Operating" => r.do = "apply"
<1>1. worker.queue # <<>> /\ worker.queue \in Seq(Requests)
  BY DEF Takes, Workers
<1>2. r \in Requests /\ rest \in Seq(Requests)
  BY <1>1
<1>3. r.do # "stop" => r.dev \in Devices
  <2>1. 1 \in 1 .. Len(worker.queue) /\ r = worker.queue[1]
    BY <1>1
  <2>2. QED
    BY <2>1 DEF OnADevice
<1>4. \/ r.do = "stop" /\ worker' = [w EXCEPT !.phase = "Idle", !.state = "Stopped",
              !.does = "none", !.desc = IF worker.state = "Running" THEN Unread ELSE w.desc]
      \/ r.do \in {"inspect", "connect"} /\ worker' = Runs(started, r.do)
      \/ worker.state = "Complete" /\ worker' = [w EXCEPT !.phase = "Failed", !.does = "none"]
      \/ r.do = "apply" /\ worker' = Runs(started, "before")
  BY DEF Takes, Service
<1>5. /\ r.id \in Nat /\ r.dev \in Devs /\ r.expected \in Readings /\ r.target \in Formats
  BY <1>2 DEF Requests
<1> HIDE DEF r, rest, phase
<1>6. w \in Workers /\ w.queue = rest /\ w.cur = r.id /\ w.state = worker.state
      /\ w.dev = worker.dev /\ w.desc = worker.desc /\ w.desc \in Readings
  BY <1>2, <1>5 DEF Workers
<1> HIDE DEF w
<1>7. ASSUME r.do = "stop", worker' = [w EXCEPT !.phase = "Idle", !.state = "Stopped",
              !.does = "none", !.desc = IF worker.state = "Running" THEN Unread ELSE w.desc]
      PROVE  Good(worker')
  <2> DEFINE desc == IF worker.state = "Running" THEN Unread ELSE w.desc
  <2>1. desc \in Readings
    BY <1>6, UnreadIsAReading
  <2>2. worker' = [w EXCEPT !.phase = "Idle", !.state = "Stopped", !.does = "none", !.desc = desc]
    BY <1>7
  <2> HIDE DEF desc
  <2>3. worker' \in Workers
    BY <1>6, <2>1, <2>2 DEF Workers, Phases
  <2>4. worker'.queue = rest /\ worker'.cur = r.id /\ worker'.state = "Stopped"
        /\ worker'.phase = "Idle"
    BY <1>6, <2>2 DEF Workers
  <2>5. QED
    BY <2>3, <2>4
<1>8. ASSUME NEW do \in {"inspect", "connect", "before"}, worker' = Runs(started, do),
             r.do \in {"inspect", "connect", "apply"}, r.do = "apply" \/ r.do = do
      PROVE  Good(worker')
  <2>1. phase \in Phases \ {"Stopping"} /\ (phase = "Operating" => r.do = "apply")
    BY <1>8 DEF phase, PhaseOf, Phases
  <2>2. started \in Workers /\ started.queue = rest /\ started.cur = r.id
        /\ started.dev = r.dev /\ started.phase = phase
    BY <1>5, <1>6, <2>1 DEF Workers
  <2> HIDE DEF started
  <2>3. worker' \in Workers
    BY <1>8, <2>2, UnreadIsAReading DEF Runs, Workers
  <2>4. worker'.queue = rest /\ worker'.cur = r.id /\ worker'.dev = r.dev /\ worker'.phase = phase
    BY <1>8, <2>2 DEF Runs, Workers
  <2>5. QED
    BY <1>3, <1>8, <2>1, <2>3, <2>4
<1>9. ASSUME worker.state = "Complete", worker' = [w EXCEPT !.phase = "Failed", !.does = "none"]
      PROVE  Good(worker')
  <2>1. worker' \in Workers
    BY <1>6, <1>9 DEF Workers, Phases
  <2>2. worker'.queue = rest /\ worker'.cur = r.id /\ worker'.dev = w.dev /\ worker'.phase = "Failed"
    BY <1>6, <1>9 DEF Workers
  <2>3. worker.dev \in Devices
    BY <1>9 DEF OnADevice
  <2>4. QED
    BY <1>6, <2>1, <2>2, <2>3
<1> HIDE DEF started
<1>10. r.do \in {"inspect", "connect"} /\ worker' = Runs(started, r.do) => Good(worker')
  BY <1>8
<1>11. r.do = "apply" /\ worker' = Runs(started, "before") => Good(worker')
  BY <1>8
<1> HIDE DEF Good
<1>12. Good(worker')
  BY <1>4, <1>7, <1>9, <1>10, <1>11
<1>13. QED
  BY <1>1, <1>2, <1>12 DEF r, rest, Good

LEMMA WorkerStep ==
  ASSUME ui \in Pages, prefs \in Preferences, view \in Views, worker \in Workers,
         regs \in [Devices -> Formats], OnADevice, Next
  PROVE  worker' \in Workers /\ OnADevice'
<1>0. worker.queue \in Seq(Requests)
  BY DEF Workers
<1>1. ASSUME NEW do \in Asked, Sends(do), do # "stop" => prefs.dev \in Devices
      PROVE  worker' \in Workers /\ OnADevice'
  <2>1. CASE Admitted(do)
    <3> DEFINE r == [id |-> view.request + 1, do |-> do, dev |-> prefs.dev,
                     expected |-> ui.baseline, target |-> ui.draft]
               queue == Append(worker.queue, r)
    <3>1. worker' = [worker EXCEPT !.queue = queue]
      BY <1>1, <2>1 DEF Sends
    <3>2. r \in Requests /\ r.do = do /\ r.dev = prefs.dev
      BY DEF Requests, Views, Pages, Preferences
    <3> HIDE DEF r
    <3>3. queue \in Seq(Requests) /\ Len(queue) = Len(worker.queue) + 1
          /\ \A i \in 1 .. Len(worker.queue) : queue[i] = worker.queue[i]
          /\ queue[Len(worker.queue) + 1] = r
      BY <1>0, <3>2
    <3>4. \A i \in 1 .. Len(queue) : queue[i].do # "stop" => queue[i].dev \in Devices
      <4>1. \A i \in 1 .. Len(queue) : i \in 1 .. Len(worker.queue) \/ i = Len(worker.queue) + 1
        BY <1>0, <3>3
      <4>2. QED
        BY <4>1, <1>1, <3>2, <3>3 DEF OnADevice
    <3> HIDE DEF queue
    <3>5. worker' \in Workers /\ worker'.queue = queue /\ worker'.state = worker.state
          /\ worker'.dev = worker.dev
      BY <3>1, <3>3 DEF Workers
    <3>6. QED
      BY <3>4, <3>5 DEF OnADevice
  <2>2. CASE ~Admitted(do)
    BY <1>1, <2>2 DEF Sends, OnADevice
  <2>3. QED
    BY <2>1, <2>2
<1>2. CASE Takes
  <2>1. \A i \in 1 .. Len(Tail(worker.queue)) :
          i + 1 \in 1 .. Len(worker.queue) /\ Tail(worker.queue)[i] = worker.queue[i + 1]
    BY <1>0, <1>2, TakesTheHead
  <2>2. QED
    BY <2>1, <1>2, TakesTheHead DEF OnADevice
<1>3. CASE Polls
  <2>1. worker' = [Polled EXCEPT !.snap = Polled.desc]
    BY <1>3 DEF Polls, Service
  <2>2. Polled \in Workers /\ Polled.queue = worker.queue /\ Polled.desc \in Readings
    BY PolledIsAWorker DEF Workers
  <2>3. worker' \in Workers
    BY <2>1, <2>2 DEF Workers
  <2>4. worker'.queue = worker.queue /\ worker'.dev = Polled.dev /\ worker'.state = Polled.state
    BY <2>1, <2>2 DEF Workers
  <2>5. QED
    BY <2>3, <2>4, PolledIsAWorker DEF OnADevice
<1>4. CASE Publishes
  <2>1. worker' = [worker EXCEPT !.pc = "loop", !.snap = Unread]
    BY <1>4 DEF Publishes, Service
  <2>2. worker' \in Workers /\ worker'.queue = worker.queue /\ worker'.dev = worker.dev
        /\ worker'.state = worker.state
    BY <2>1, UnreadIsAReading DEF Workers
  <2>3. QED
    BY <2>2 DEF OnADevice
<1>5. CASE TaskEnds
  <2>1. worker.state = "Running" /\ worker.dev \in Devices
    BY <1>5 DEF TaskEnds, OnADevice
  <2>2. PICK after \in {regs[worker.dev]} \cup (IF worker.does = "write" THEN {worker.target} ELSE {}) :
          \/ worker' = [worker EXCEPT !.state = "Complete",
               !.desc = [dev |-> worker.dev, stamp |-> 2 * view.request
                           + (IF worker.does \in {"write", "after"} THEN 1 ELSE 0), format |-> after]]
          \/ worker' = [worker EXCEPT !.state = "Failed"]
    BY <1>5 DEF TaskEnds
  <2> DEFINE stamp == 2 * view.request + (IF worker.does \in {"write", "after"} THEN 1 ELSE 0)
             desc == [dev |-> worker.dev, stamp |-> stamp, format |-> after]
  <2>3. stamp \in Nat
    BY DEF Views
  <2>4. after \in Formats
    BY <2>1, <2>2 DEF Workers
  <2>5. \/ worker' = [worker EXCEPT !.state = "Complete", !.desc = desc]
        \/ worker' = [worker EXCEPT !.state = "Failed"]
    BY <2>2
  <2> HIDE DEF stamp
  <2>6. desc \in Readings
    BY <2>1, <2>3, <2>4 DEF Readings, Devs
  <2> HIDE DEF desc
  <2>7. worker' \in Workers /\ worker'.queue = worker.queue /\ worker'.dev = worker.dev
    BY <2>5, <2>6 DEF Workers
  <2>8. QED
    BY <2>1, <2>7 DEF OnADevice
<1>6. CASE worker' = worker
  BY <1>6 DEF OnADevice
<1>7. QED
  <2>1. Reads \/ Stops \/ Applies =>
          \E do \in Asked : Sends(do) /\ (do # "stop" => prefs.dev \in Devices)
    BY DEF Reads, Stops, Applies, Asked, Preferences, Devs
  <2>2. (Logic \/ Look \/ Ends \/ Discards \/ Edits \/ Selects \/ Inputs \/ Returns)
          => worker' = worker
    BY DEF Logic, Look, Ends, Discards, Edits, Selects, Inputs, Returns
  <2>3. QED
    BY <2>1, <2>2, <1>1, <1>2, <1>3, <1>4, <1>5, <1>6 DEF Next, Click, Work

LEMMA RegistersStep ==
  ASSUME worker \in Workers, OnADevice, regs \in [Devices -> Formats], Next
  PROVE  regs' \in [Devices -> Formats]
<1>1. CASE TaskEnds
  <2>1. PICK after \in {regs[worker.dev]} \cup (IF worker.does = "write" THEN {worker.target} ELSE {}) :
          regs' = [regs EXCEPT ![worker.dev] = after]
    BY <1>1 DEF TaskEnds
  <2>2. after \in Formats
    BY <1>1, <2>1 DEF TaskEnds, OnADevice, Workers
  <2>3. QED
    BY <2>1, <2>2
<1>2. CASE regs' = regs
  BY <1>2
<1>3. QED
  <2>1. Next => TaskEnds \/ regs' = regs
    BY DEF Next, Click, Logic, Look, Ends, Reads, Stops, Applies, Discards, Edits, Selects, Inputs,
       Returns, Sends, Work, Takes, Polls, Publishes, Service
  <2>2. QED
    BY <2>1, <1>1, <1>2

LEMMA InitTyped == Init => TypeOK
<1> SUFFICES ASSUME Init PROVE TypeOK
  OBVIOUS
<1>1. Unread \in Readings /\ Profile \in Formats /\ NoDevice \in Devs /\ NoApply \in Applications
  BY UnreadIsAReading, PanelAssumption DEF Devs, NoApply, Applications
<1>2. NoView \in Views
  BY <1>1 DEF NoView, Views, Phases
<1>3. ui \in Pages
  BY <1>1, <1>2 DEF Init, Pages
<1>4. prefs \in Preferences
  <2>1. prefs \in [dev : {NoDevice}, input : [Devices -> {"automatic"}]]
    BY DEF Init
  <2>2. prefs.input \in [Devices -> {"automatic", "quaternion"}]
    BY <2>1
  <2>3. QED
    BY <1>1, <2>1, <2>2 DEF Preferences
<1>5. close \in Closings
  BY DEF Init, Closings
<1>6. worker \in Workers /\ worker.queue = <<>> /\ worker.state = "Idle"
  BY <1>1 DEF Init, Workers, Phases
<1>7. view \in Views /\ regs \in [Devices -> Formats]
  BY <1>2 DEF Init
<1>8. OnADevice
  BY <1>6 DEF OnADevice
<1>9. QED
  BY <1>3, <1>4, <1>5, <1>6, <1>7, <1>8 DEF TypeOK

-----------------------------------------------------------------------------
(***************************************************************************)
(* Every step keeps the invariant.                                         *)
(***************************************************************************)

\* What a step does to the view and the worker, as far as the order of requests
\* and the phase that is shown go.
Requested ==
  \E do \in Asked :
    /\ view'.request = view.request + 1 /\ view'.phase = PhaseOf(do)
    /\ worker'.cur = worker.cur /\ worker'.phase = worker.phase
    /\ \E r \in Requests : /\ worker'.queue = Append(worker.queue, r)
                            /\ r.id = view.request + 1 /\ r.do = do
    /\ close' = [close EXCEPT !.late = close.late \/ close.leaving \/ close.allow]
Taken ==
  /\ view'.request = view.request /\ view'.phase = view.phase
  /\ worker.queue # <<>> /\ worker'.queue = Tail(worker.queue)
  /\ worker'.cur = Head(worker.queue).id
  /\ worker'.phase = "Operating" => Head(worker.queue).do = "apply"
Settled ==
  /\ view'.request = view.request /\ view'.phase = view.phase
  /\ worker'.queue = worker.queue /\ worker'.cur = worker.cur
  /\ worker'.phase \in {"Idle", "Failed", worker.phase}
Published ==
  /\ view'.request = view.request /\ worker.cur = view.request /\ view'.phase = worker.phase
  /\ worker'.queue = worker.queue /\ worker'.cur = worker.cur /\ worker'.phase = worker.phase

LEMMA SendsAreRequests ==
  ASSUME TypeOK, NEW do \in Asked, Sends(do)
  PROVE  Requested \/ (Settled /\ close' = close)
<1>0. view \in Views /\ worker \in Workers
  BY DEF TypeOK
<1>1. CASE Admitted(do)
  <2> DEFINE r == [id |-> view.request + 1, do |-> do, dev |-> prefs.dev,
                   expected |-> ui.baseline, target |-> ui.draft]
             device == IF do = "stop" THEN view.device ELSE prefs.dev
             apply == IF do = "stop" THEN view.apply ELSE NoApply
             request == view.request + 1
             phase == PhaseOf(do)
             queue == Append(worker.queue, r)
  <2>1. /\ view' = [view EXCEPT !.request = request, !.phase = phase,
                                !.device = device, !.apply = apply]
        /\ worker' = [worker EXCEPT !.queue = queue]
        /\ close' = [close EXCEPT !.late = close.late \/ close.leaving \/ close.allow]
    BY <1>1 DEF Sends
  <2>2. r \in Requests /\ r.id = request /\ r.do = do
    BY <1>0 DEF TypeOK, Requests, Views, Pages, Preferences
  <2>3. request = view.request + 1 /\ phase = PhaseOf(do) /\ queue = Append(worker.queue, r)
    OBVIOUS
  <2> HIDE DEF r, device, apply, request, phase, queue
  <2>4. view'.request = request /\ view'.phase = phase
    BY <1>0, <2>1 DEF Views
  <2>5. worker'.queue = queue /\ worker'.cur = worker.cur /\ worker'.phase = worker.phase
    BY <1>0, <2>1 DEF Workers
  <2>6. close' = [close EXCEPT !.late = close.late \/ close.leaving \/ close.allow]
    BY <2>1
  <2>7. QED
    BY <2>2, <2>3, <2>4, <2>5, <2>6 DEF Requested
<1>2. CASE ~Admitted(do)
  BY <1>2 DEF Sends, Settled
<1>3. QED
  BY <1>1, <1>2

LEMMA StepsOfRequests ==
  ASSUME TypeOK, Next
  PROVE  Requested \/ Taken \/ Settled \/ Published
<1>0. view \in Views /\ worker \in Workers /\ OnADevice
  BY DEF TypeOK
<1>1. \A do \in Asked : Sends(do) => Requested \/ Settled
  BY SendsAreRequests
<1>2. CASE Takes
  <2>1. view' = view \/ \E a : view' = [view EXCEPT !.apply = a]
    BY <1>2 DEF Takes
  <2>2. view'.request = view.request /\ view'.phase = view.phase
    BY <1>0, <2>1 DEF Views
  <2>3. QED
    BY <1>0, <1>2, <2>2, TakesTheHead DEF Taken
<1>3. CASE Polls
  <2>1. view' = view \/ \E a : view' = [view EXCEPT !.apply = a]
    BY <1>3 DEF Polls
  <2>2. view'.request = view.request /\ view'.phase = view.phase
    BY <1>0, <2>1 DEF Views
  <2>3. worker' = [Polled EXCEPT !.snap = Polled.desc]
    BY <1>3 DEF Polls, Service
  <2>4. Polled \in Workers
    BY <1>0, PolledIsAWorker
  <2>5. worker'.queue = Polled.queue /\ worker'.cur = Polled.cur /\ worker'.phase = Polled.phase
    BY <2>3, <2>4 DEF Workers
  <2>6. QED
    BY <1>0, <2>2, <2>5, PolledIsAWorker DEF Settled
<1>4. CASE Publishes
  <2>1. worker' = [worker EXCEPT !.pc = "loop", !.snap = Unread]
    BY <1>4 DEF Publishes, Service
  <2>2. worker'.queue = worker.queue /\ worker'.cur = worker.cur /\ worker'.phase = worker.phase
    BY <1>0, <2>1 DEF Workers
  <2>3. \/ view' = view
        \/ /\ view.request = worker.cur
           /\ view' = [view EXCEPT !.phase = worker.phase, !.snap = worker.snap]
    BY <1>4 DEF Publishes
  <2>4. CASE view' = view
    BY <2>2, <2>4 DEF Settled
  <2>5. CASE /\ view.request = worker.cur
             /\ view' = [view EXCEPT !.phase = worker.phase, !.snap = worker.snap]
    <3>1. view'.request = view.request /\ view'.phase = worker.phase
      BY <1>0, <2>5 DEF Views
    <3>2. QED
      BY <2>2, <2>5, <3>1 DEF Published
  <2>6. QED
    BY <2>3, <2>4, <2>5
<1>5. CASE TaskEnds
  <2>1. \/ \E d : worker' = [worker EXCEPT !.state = "Complete", !.desc = d]
        \/ worker' = [worker EXCEPT !.state = "Failed"]
    BY <1>5 DEF TaskEnds
  <2>2. worker'.queue = worker.queue /\ worker'.cur = worker.cur /\ worker'.phase = worker.phase
    BY <1>0, <2>1 DEF Workers
  <2>3. QED
    BY <1>5, <2>2 DEF TaskEnds, Settled
<1>6. CASE view' = view /\ worker' = worker
  BY <1>6 DEF Settled
<1>7. QED
  <2>1. Reads \/ Stops \/ Applies => \E do \in Asked : Sends(do)
    BY DEF Reads, Stops, Applies, Asked
  <2>2. (Logic \/ Look \/ Ends \/ Discards \/ Edits \/ Selects \/ Inputs \/ Returns)
          => view' = view /\ worker' = worker
    BY DEF Logic, Look, Ends, Discards, Edits, Selects, Inputs, Returns
  <2>3. QED
    BY <2>1, <2>2, <1>1, <1>2, <1>3, <1>4, <1>5, <1>6 DEF Next, Click, Work

LEMMA Numbered ==
  ASSUME TypeOK
  PROVE  /\ worker.queue \in Seq(Requests) /\ worker.cur \in Nat /\ view.request \in Nat
         /\ \A i \in 1 .. Len(worker.queue) : worker.queue[i].id \in Nat
<1>1. worker \in Workers /\ view \in Views
  BY DEF TypeOK
<1>2. worker.queue \in Seq(Requests) /\ worker.cur \in Nat /\ view.request \in Nat
  BY <1>1 DEF Workers, Views
<1>3. \A i \in 1 .. Len(worker.queue) : worker.queue[i] \in Requests
  BY <1>2
<1>4. QED
  BY <1>2, <1>3 DEF Requests

LEMMA OrderStep ==
  ASSUME TypeOK, InOrder, Requested \/ Taken \/ Settled \/ Published
  PROVE  InOrder'
<1> DEFINE q == worker.queue
<1>0. /\ q \in Seq(Requests) /\ worker.cur \in Nat /\ view.request \in Nat
      /\ \A i \in 1 .. Len(q) : q[i].id \in Nat
  BY Numbered
<1>1. CASE Requested
  <2>1. PICK r \in Requests : worker'.queue = Append(q, r) /\ r.id = view.request + 1
    BY <1>1 DEF Requested
  <2>2. view'.request = view.request + 1 /\ worker'.cur = worker.cur
    BY <1>1 DEF Requested
  <2>3. /\ Len(Append(q, r)) = Len(q) + 1 /\ Append(q, r)[Len(q) + 1] = r
        /\ \A i \in 1 .. Len(q) : Append(q, r)[i] = q[i]
    BY <1>0
  <2>4. \A i \in 1 .. Len(q) + 1 : i \in 1 .. Len(q) \/ i = Len(q) + 1
    BY <1>0
  <2>5. QED
    BY <1>0, <2>1, <2>2, <2>3, <2>4 DEF InOrder
<1>2. CASE Taken
  <2>1. \A i \in 1 .. Len(Tail(q)) : i + 1 \in 1 .. Len(q) /\ Tail(q)[i] = q[i + 1]
    BY <1>0, <1>2 DEF Taken
  <2>2. 1 \in 1 .. Len(q) /\ Head(q) = q[1]
    BY <1>0, <1>2 DEF Taken
  <2>3. view'.request = view.request /\ worker'.cur = q[1].id /\ worker'.queue = Tail(q)
    BY <1>2, <2>2 DEF Taken
  <2>4. \A i, j \in 1 .. Len(Tail(q)) : i < j => i + 1 < j + 1
    BY <1>0, <1>2
  <2>5. \A i \in 1 .. Len(Tail(q)) : 1 < i + 1
    BY <1>0, <1>2
  <2>6. QED
    BY <1>0, <2>1, <2>2, <2>3, <2>4, <2>5 DEF InOrder
<1>3. CASE Settled \/ Published
  BY <1>3 DEF Settled, Published, InOrder
<1>4. QED
  BY <1>1, <1>2, <1>3

LEMMA ShownStep ==
  ASSUME TypeOK, InOrder, ShownAsAsked, Requested \/ Taken \/ Settled \/ Published
  PROVE  ShownAsAsked'
<1> DEFINE q == worker.queue
<1>0. /\ q \in Seq(Requests) /\ worker.cur \in Nat /\ view.request \in Nat
      /\ \A i \in 1 .. Len(q) : q[i].id \in Nat
  BY Numbered
<1>1. CASE Requested
  <2>1. PICK do \in Asked :
          /\ view'.request = view.request + 1 /\ view'.phase = PhaseOf(do)
          /\ worker'.cur = worker.cur
          /\ \E r \in Requests : worker'.queue = Append(q, r) /\ r.id = view.request + 1 /\ r.do = do
    BY <1>1 DEF Requested
  <2>2. PICK r \in Requests : worker'.queue = Append(q, r) /\ r.id = view.request + 1 /\ r.do = do
    BY <2>1
  <2>3. /\ Len(Append(q, r)) = Len(q) + 1 /\ Append(q, r)[Len(q) + 1] = r
        /\ \A i \in 1 .. Len(q) : Append(q, r)[i] = q[i]
    BY <1>0
  <2>4. \A i \in 1 .. Len(q) + 1 : i \in 1 .. Len(q) \/ i = Len(q) + 1
    BY <1>0
  <2>5. \A i \in 1 .. Len(q) : q[i].id # view.request + 1
    BY <1>0 DEF InOrder
  <2>6. worker'.cur # view'.request
    BY <1>0, <2>1 DEF InOrder
  <2>7. \A i \in 1 .. Len(worker'.queue) :
          worker'.queue[i].id = view'.request => view'.phase = PhaseOf(worker'.queue[i].do)
    BY <2>1, <2>2, <2>3, <2>4, <2>5
  <2>8. QED
    BY <2>6, <2>7 DEF ShownAsAsked
<1>2. CASE Taken
  <2>1. \A i \in 1 .. Len(Tail(q)) : i + 1 \in 1 .. Len(q) /\ Tail(q)[i] = q[i + 1]
    BY <1>0, <1>2 DEF Taken
  <2>2. 1 \in 1 .. Len(q) /\ Head(q) = q[1]
    BY <1>0, <1>2 DEF Taken
  <2>3. view'.request = view.request /\ view'.phase = view.phase
        /\ worker'.cur = q[1].id /\ worker'.queue = Tail(q)
        /\ (worker'.phase = "Operating" => q[1].do = "apply")
    BY <1>2, <2>2 DEF Taken
  <2>4. PhaseOf("apply") = "Operating"
    BY DEF PhaseOf
  <2>5. QED
    BY <2>1, <2>2, <2>3, <2>4 DEF ShownAsAsked
<1>3. CASE Settled
  BY <1>3 DEF Settled, ShownAsAsked
<1>4. CASE Published
  <2>1. \A i \in 1 .. Len(q) : q[i].id # view.request
    BY <1>0, <1>4 DEF Published, InOrder
  <2>2. QED
    BY <1>4, <2>1 DEF Published, ShownAsAsked
<1>5. QED
  BY <1>1, <1>2, <1>3, <1>4

LEMMA LeavingStep ==
  ASSUME TypeOK, ShownAsAsked, LeavingIsQuiet, Next, Requested \/ Taken \/ Settled \/ Published
  PROVE  LeavingIsQuiet'
<1>0. close \in Closings /\ ui \in Pages /\ worker \in Workers
  BY DEF TypeOK
<1>1. ~close.closed
  BY DEF LeavingIsQuiet, Next, Logic, Click, Look, Reads, Stops, Applies, Discards, Edits, Selects,
     Inputs, Returns, Shown, Ends
<1>2. CASE Logic
  <2>1. PICK asked \in BOOLEAN : close' = Decided(asked \/ close.allow, Guards(view))
    BY <1>2 DEF Logic
  <2> DEFINE requested == asked \/ close.allow
             refused == requested /\ Guards(view) /\ ~close.allow
             lets == (close.closing \/ refused) /\ ~Guards(view)
             closing == (close.closing \/ refused) /\ ~lets
             allow == close.allow \/ lets
             leaving == requested /\ ~refused
  <2>2. close' = [close EXCEPT !.closing = closing, !.allow = allow, !.leaving = leaving]
    BY <2>1 DEF Decided
  <2>3. leaving \/ allow => close.allow \/ ~Guards(view)
    OBVIOUS
  <2> HIDE DEF closing, allow, leaving
  <2>4. close'.allow = allow /\ close'.leaving = leaving /\ close'.late = close.late
        /\ close'.closed = close.closed
    BY <1>0, <2>2 DEF Closings
  <2>5. view' = view
    BY <1>2 DEF Logic
  <2>6. QED
    BY <1>1, <2>3, <2>4, <2>5 DEF LeavingIsQuiet
<1>3. CASE Requested
  <2> DEFINE late == close.late \/ close.leaving \/ close.allow
  <2>1. close' = [close EXCEPT !.late = late]
    BY <1>3 DEF Requested
  <2> HIDE DEF late
  <2>2. close'.late = late /\ close'.allow = close.allow /\ close'.leaving = close.leaving
        /\ close'.closed = close.closed
    BY <1>0, <2>1 DEF Closings
  <2>3. QED
    BY <1>1, <2>2 DEF LeavingIsQuiet, late
<1>4. CASE ~Logic /\ ~Requested
  <2>1. Guards(view') => Guards(view)
    <3>1. view'.phase # view.phase =>
            worker.phase = view'.phase /\ (worker.phase = "Operating" => view.phase = "Operating")
      BY <1>4 DEF Taken, Settled, Published, ShownAsAsked
    <3>2. worker.phase # "Stopping"
      BY <1>0 DEF Workers
    <3>3. QED
      BY <3>1, <3>2 DEF Guards
  <2>2. close'.late = close.late /\ close'.allow = close.allow /\ close'.leaving = close.leaving
        /\ (close'.closed => close.leaving /\ ui'.pc = "logic")
    <3>1. CASE Ends
      <4>1. close' = [close EXCEPT !.closed = close.leaving]
            /\ ui' = [ui EXCEPT !.pc = "logic", !.seen = NoView]
        BY <3>1 DEF Ends
      <4>2. QED
        BY <1>0, <4>1 DEF Closings, Pages
    <3>2. CASE Returns
      <4>1. close' = [close EXCEPT !.closing = FALSE]
        BY <3>2 DEF Returns
      <4>2. QED
        BY <1>0, <1>1, <4>1 DEF Closings
    <3>3. ASSUME NEW do \in Asked, Sends(do)
          PROVE  close' = close \/ Requested
      BY <3>3, SendsAreRequests DEF TypeOK
    <3>4. QED
      <4>1. Reads \/ Stops \/ Applies => \E do \in Asked : Sends(do)
        BY DEF Reads, Stops, Applies, Asked
      <4>2. (Look \/ Discards \/ Edits \/ Selects \/ Inputs \/ Work \/ TaskEnds) => close' = close
        BY DEF Look, Discards, Edits, Selects, Inputs, Work, Takes, Polls, Publishes, TaskEnds, Service
      <4>3. close' = close \/ Ends \/ Returns
        BY <1>4, <3>3, <4>1, <4>2 DEF Next, Click
      <4>4. QED
        BY <1>1, <3>1, <3>2, <4>3
  <2>3. QED
    BY <2>1, <2>2 DEF LeavingIsQuiet
<1>5. QED
  BY <1>2, <1>3, <1>4

-----------------------------------------------------------------------------
(***************************************************************************)
(* The theorems.                                                           *)
(***************************************************************************)

IInv == TypeOK /\ StagedOnAReading /\ InOrder /\ ShownAsAsked /\ LeavingIsQuiet

LEMMA InitInv == Init => IInv
<1> SUFFICES ASSUME Init PROVE IInv
  OBVIOUS
<1>1. TypeOK
  BY InitTyped
<1>2. /\ ui.prepare = FALSE /\ worker.queue = <<>> /\ worker.cur = 0 /\ view.request = 0
      /\ worker.phase = "Idle" /\ ~close.leaving /\ ~close.allow /\ ~close.closed
  BY DEF Init, NoView
<1>3. StagedOnAReading /\ LeavingIsQuiet
  BY <1>2 DEF StagedOnAReading, LeavingIsQuiet
<1>4. InOrder /\ ShownAsAsked
  BY <1>2 DEF InOrder, ShownAsAsked
<1>5. QED
  BY <1>1, <1>3, <1>4 DEF IInv

LEMMA NextInv == IInv /\ [Next]_vars => IInv'
<1> SUFFICES ASSUME IInv, [Next]_vars PROVE IInv'
  OBVIOUS
<1>0. /\ ui \in Pages /\ prefs \in Preferences /\ close \in Closings
      /\ view \in Views /\ worker \in Workers /\ regs \in [Devices -> Formats]
      /\ OnADevice /\ TypeOK /\ StagedOnAReading /\ InOrder /\ ShownAsAsked /\ LeavingIsQuiet
  BY DEF IInv, TypeOK
<1>1. CASE Next
  <2>1. ui' \in Pages /\ StagedOnAReading'
    BY <1>0, <1>1, PageStep
  <2>2. prefs' \in Preferences /\ close' \in Closings
    BY <1>0, <1>1, PreferencesStep, ClosingStep
  <2>3. view' \in Views /\ worker' \in Workers /\ OnADevice'
    BY <1>0, <1>1, ViewStep, WorkerStep
  <2>4. regs' \in [Devices -> Formats]
    BY <1>0, <1>1, RegistersStep
  <2>5. TypeOK'
    BY <2>1, <2>2, <2>3, <2>4 DEF TypeOK
  <2>6. Requested \/ Taken \/ Settled \/ Published
    BY <1>0, <1>1, StepsOfRequests
  <2>7. InOrder' /\ ShownAsAsked'
    BY <1>0, <2>6, OrderStep, ShownStep
  <2>8. LeavingIsQuiet'
    BY <1>0, <1>1, <2>6, LeavingStep
  <2>9. QED
    BY <2>1, <2>5, <2>7, <2>8 DEF IInv
<1>2. CASE UNCHANGED vars
  BY <1>0, <1>2 DEF vars, IInv, TypeOK, OnADevice, StagedOnAReading, InOrder, ShownAsAsked,
     LeavingIsQuiet
<1>3. QED
  BY <1>1, <1>2

LEMMA InvHolds == Spec => []IInv
BY InitInv, NextInv, PTL DEF Spec

\* The page, the preferences, the closing, the view, the worker and the devices
\* keep their types, and a task only runs on a device.
THEOREM PanelTypeCorrect == Spec => []TypeOK
<1>1. IInv => TypeOK
  BY DEF IInv
<1>2. QED
  BY InvHolds, <1>1, PTL

\* Apply changes is never offered without settings that were read: a staged
\* preset alone offers it, and is staged on a reading (ui/device.rs).
THEOREM ApplyNeedsAReading == Spec => []ApplyHasBaseline
<1>1. IInv => ApplyHasBaseline
  BY DEF IInv, StagedOnAReading, ApplyHasBaseline, Count, Edited, Staged
<1>2. QED
  BY InvHolds, <1>1, PTL

\* The window never closes on an operation that was clicked before it was
\* closing, however late the worker publishes (ui.rs guard_close).
THEOREM ClosingIsQuiet == Spec => []QuitIsQuiet
<1>1. IInv => QuitIsQuiet
  BY DEF IInv, LeavingIsQuiet, QuitIsQuiet, Guards
<1>2. QED
  BY InvHolds, <1>1, PTL

-----------------------------------------------------------------------------
(***************************************************************************)
(* Guidance: signed axes and rotations.                                    *)
(***************************************************************************)

\* A sensor axis is one of six unit vectors, or none.
LEMMA Units ==
  /\ Unit(0) = <<0, 0, 0>>
  /\ Unit(1) = <<1, 0, 0>> /\ Unit(-1) = <<-1, 0, 0>>
  /\ Unit(2) = <<0, 1, 0>> /\ Unit(-2) = <<0, -1, 0>>
  /\ Unit(3) = <<0, 0, 1>> /\ Unit(-3) = <<0, 0, -1>>
<1>0. \A a \in Int : Abs(a) = IF a < 0 THEN 0 - a ELSE a BY DEF Abs
<1>1. /\ Abs(0) = 0 /\ Abs(1) = 1 /\ Abs(-1) = 1 /\ Abs(2) = 2 /\ Abs(-2) = 2
      /\ Abs(3) = 3 /\ Abs(-3) = 3
  BY <1>0
<1>2. /\ Sign(1) = 1 /\ Sign(-1) = -1 /\ Sign(2) = 1 /\ Sign(-2) = -1
      /\ Sign(3) = 1 /\ Sign(-3) = -1
  BY DEF Sign
<1> QED BY <1>1, <1>2 DEF Unit

\* The third axis of a rotation, by the other two.
Third(a, b) ==
  CASE a = 1 -> IF b = 2 THEN 3 ELSE IF b = -2 THEN -3 ELSE IF b = 3 THEN -2 ELSE IF b = -3 THEN 2 ELSE 0
    [] a = -1 -> IF b = 2 THEN -3 ELSE IF b = -2 THEN 3 ELSE IF b = 3 THEN 2 ELSE IF b = -3 THEN -2 ELSE 0
    [] a = 2 -> IF b = 3 THEN 1 ELSE IF b = -3 THEN -1 ELSE IF b = 1 THEN -3 ELSE IF b = -1 THEN 3 ELSE 0
    [] a = -2 -> IF b = 3 THEN -1 ELSE IF b = -3 THEN 1 ELSE IF b = 1 THEN 3 ELSE IF b = -1 THEN -3 ELSE 0
    [] a = 3 -> IF b = 1 THEN 2 ELSE IF b = -1 THEN -2 ELSE IF b = 2 THEN -1 ELSE IF b = -2 THEN 1 ELSE 0
    [] a = -3 -> IF b = 1 THEN -2 ELSE IF b = -1 THEN 2 ELSE IF b = 2 THEN 1 ELSE IF b = -2 THEN -1 ELSE 0

\* The cross product of two axes is the third one.
LEMMA CrossOfUnits ==
  ASSUME NEW a \in Axes \ {0}, NEW b \in Axes \ {0}
  PROVE  Cross(Unit(a), Unit(b)) = Unit(Third(a, b))
<1>1. CASE a = 1 BY Units, <1>1 DEF Cross, Third, Axes
<1>2. CASE a = -1 BY Units, <1>2 DEF Cross, Third, Axes
<1>3. CASE a = 2 BY Units, <1>3 DEF Cross, Third, Axes
<1>4. CASE a = -2 BY Units, <1>4 DEF Cross, Third, Axes
<1>5. CASE a = 3 BY Units, <1>5 DEF Cross, Third, Axes
<1>6. CASE a = -3 BY Units, <1>6 DEF Cross, Third, Axes
<1> QED BY <1>1, <1>2, <1>3, <1>4, <1>5, <1>6 DEF Axes

\* Axes are told apart by their vectors.
LEMMA UnitsDiffer ==
  ASSUME NEW a \in Axes, NEW b \in Axes, Unit(a) = Unit(b)
  PROVE  a = b
  BY Units DEF Axes

\* The axes of a rotation may be taken in turn.
LEMMA ThirdTurns ==
  ASSUME NEW a \in Axes \ {0}, NEW b \in Axes \ {0}, NEW c \in Axes \ {0}, c = Third(a, b)
  PROVE  a = Third(b, c) /\ b = Third(c, a)
<1>1. CASE a = 1 BY <1>1 DEF Third, Axes
<1>2. CASE a = -1 BY <1>2 DEF Third, Axes
<1>3. CASE a = 2 BY <1>3 DEF Third, Axes
<1>4. CASE a = -2 BY <1>4 DEF Third, Axes
<1>5. CASE a = 3 BY <1>5 DEF Third, Axes
<1>6. CASE a = -3 BY <1>6 DEF Third, Axes
<1> QED BY <1>1, <1>2, <1>3, <1>4, <1>5, <1>6 DEF Axes

\* Any two axes of a rotation, in their order, determine the third.
LEMMA RotationThird ==
  ASSUME NEW m \in [HeadDirs -> Axes], Proper(m)
  PROVE  /\ m[1] \in Axes \ {0} /\ m[2] \in Axes \ {0} /\ m[3] \in Axes \ {0}
         /\ m[3] = Third(m[1], m[2]) /\ m[1] = Third(m[2], m[3]) /\ m[2] = Third(m[3], m[1])
<1>1. m[1] \in Axes \ {0} /\ m[2] \in Axes \ {0} /\ m[3] \in Axes \ {0}
  BY DEF Proper, HeadDirs
<1>2. Third(m[1], m[2]) \in Axes
  BY <1>1 DEF Third, Axes
<1>3. m[3] = Third(m[1], m[2])
  BY <1>1, <1>2, CrossOfUnits, UnitsDiffer DEF Proper, RightHanded, HeadDirs
<1>4. m[1] = Third(m[2], m[3]) /\ m[2] = Third(m[3], m[1])
  BY <1>1, <1>3, ThirdTurns
<1> QED BY <1>1, <1>3, <1>4

\* A vector taken to the sensor and back is the same.
LEMMA AxesThereAndBack ==
  ASSUME NEW m \in [HeadDirs -> Axes], Proper(m), NEW x \in Int, NEW y \in Int, NEW z \in Int
  PROVE  HeadsetAxes(m, SensorAxes(m, <<x, y, z>>)) = <<x, y, z>>
<1>1. m[1] \in Axes \ {0} /\ m[2] \in Axes \ {0} /\ m[3] = Third(m[1], m[2])
  BY RotationThird
<1>2. ASSUME NEW a \in Axes \ {0}, NEW b \in Axes \ {0}, m[1] = a, m[2] = b, m[3] = Third(a, b), Third(a, b) # 0
      PROVE  HeadsetAxes(m, SensorAxes(m, <<x, y, z>>)) = <<x, y, z>>
  <2>1. CASE a = 1
    BY <1>2, <2>1, Units DEF HeadsetAxes, SensorAxes, Dot, Third, Axes
  <2>2. CASE a = -1
    BY <1>2, <2>2, Units DEF HeadsetAxes, SensorAxes, Dot, Third, Axes
  <2>3. CASE a = 2
    BY <1>2, <2>3, Units DEF HeadsetAxes, SensorAxes, Dot, Third, Axes
  <2>4. CASE a = -2
    BY <1>2, <2>4, Units DEF HeadsetAxes, SensorAxes, Dot, Third, Axes
  <2>5. CASE a = 3
    BY <1>2, <2>5, Units DEF HeadsetAxes, SensorAxes, Dot, Third, Axes
  <2>6. CASE a = -3
    BY <1>2, <2>6, Units DEF HeadsetAxes, SensorAxes, Dot, Third, Axes
  <2> QED BY <2>1, <2>2, <2>3, <2>4, <2>5, <2>6 DEF Axes
<1>3. Third(m[1], m[2]) # 0
  BY <1>1, RotationThird
<1> QED BY <1>1, <1>2, <1>3

\* A vector of the grid's corners stays one, whichever rotation it is seen through.
LEMMA CellsInAxes ==
  ASSUME NEW m \in [HeadDirs -> Axes], Proper(m), NEW v \in Cells
  PROVE  HeadsetAxes(m, v) \in Cells /\ SensorAxes(m, v) \in Cells
<1>1. m[1] \in Axes \ {0} /\ m[2] \in Axes \ {0} /\ m[3] = Third(m[1], m[2])
  BY RotationThird
<1>2. PICK x \in {-1, 1}, y \in {-1, 1}, z \in {-1, 1} : v = <<x, y, z>>
  BY DEF Cells
<1>20. \A i \in {-1, 1} : -1 * i \in {-1, 1}
  OBVIOUS
<1>3. ASSUME NEW a \in Axes \ {0}, NEW b \in Axes \ {0}, m[1] = a, m[2] = b,
             m[3] = Third(a, b), Third(a, b) # 0
      PROVE  HeadsetAxes(m, <<x, y, z>>) \in Cells /\ SensorAxes(m, <<x, y, z>>) \in Cells
  <2>1. CASE a = 1
    BY <1>20, <1>3, <2>1, Units DEF HeadsetAxes, SensorAxes, Dot, Third, Axes, Cells
  <2>2. CASE a = -1
    BY <1>20, <1>3, <2>2, Units DEF HeadsetAxes, SensorAxes, Dot, Third, Axes, Cells
  <2>3. CASE a = 2
    BY <1>20, <1>3, <2>3, Units DEF HeadsetAxes, SensorAxes, Dot, Third, Axes, Cells
  <2>4. CASE a = -2
    BY <1>20, <1>3, <2>4, Units DEF HeadsetAxes, SensorAxes, Dot, Third, Axes, Cells
  <2>5. CASE a = 3
    BY <1>20, <1>3, <2>5, Units DEF HeadsetAxes, SensorAxes, Dot, Third, Axes, Cells
  <2>6. CASE a = -3
    BY <1>20, <1>3, <2>6, Units DEF HeadsetAxes, SensorAxes, Dot, Third, Axes, Cells
  <2> QED BY <2>1, <2>2, <2>3, <2>4, <2>5, <2>6 DEF Axes
<1>4. Third(m[1], m[2]) # 0
  BY <1>1, RotationThird
<1> QED BY <1>1, <1>2, <1>3, <1>4

\* A quarter turn about one axis of the head keeps it and swaps the other two.
LEMMA TurnedIs ==
  ASSUME NEW x \in Int, NEW y \in Int, NEW z \in Int
  PROVE  /\ Turned(<<x, y, z>>, [motion |-> 1, positive |-> TRUE]) = <<x, z, 0 - y>>
         /\ Turned(<<x, y, z>>, [motion |-> 1, positive |-> FALSE]) = <<x, 0 - z, y>>
         /\ Turned(<<x, y, z>>, [motion |-> 2, positive |-> TRUE]) = <<0 - z, y, x>>
         /\ Turned(<<x, y, z>>, [motion |-> 2, positive |-> FALSE]) = <<z, y, 0 - x>>
         /\ Turned(<<x, y, z>>, [motion |-> 3, positive |-> TRUE]) = <<y, 0 - x, z>>
         /\ Turned(<<x, y, z>>, [motion |-> 3, positive |-> FALSE]) = <<0 - y, x, z>>
<1>1. Turned(<<x, y, z>>, [motion |-> 1, positive |-> TRUE]) = <<x, z, 0 - y>>
  BY Units DEF Turned, Cross, Dot
<1>2. Turned(<<x, y, z>>, [motion |-> 1, positive |-> FALSE]) = <<x, 0 - z, y>>
  BY Units DEF Turned, Cross, Dot
<1>3. Turned(<<x, y, z>>, [motion |-> 2, positive |-> TRUE]) = <<0 - z, y, x>>
  BY Units DEF Turned, Cross, Dot
<1>4. Turned(<<x, y, z>>, [motion |-> 2, positive |-> FALSE]) = <<z, y, 0 - x>>
  BY Units DEF Turned, Cross, Dot
<1>5. Turned(<<x, y, z>>, [motion |-> 3, positive |-> TRUE]) = <<y, 0 - x, z>>
  BY Units DEF Turned, Cross, Dot
<1>6. Turned(<<x, y, z>>, [motion |-> 3, positive |-> FALSE]) = <<0 - y, x, z>>
  BY Units DEF Turned, Cross, Dot
<1> QED BY <1>1, <1>2, <1>3, <1>4, <1>5, <1>6

\* The products and absolute values above, of any numbers.
LEMMA DotIs ==
  \A a, b, c, d, e, f \in Int : Dot(<<a, b, c>>, <<d, e, f>>) = a * d + b * e + c * f
BY DEF Dot

LEMMA CellIs ==
  ASSUME NEW v \in Cells
  PROVE  \E x, y, z \in {-1, 1} : v = <<x, y, z>>
BY DEF Cells

LEMMA AbsIs == \A a \in Int : Abs(a) = IF a < 0 THEN 0 - a ELSE a
BY DEF Abs

-----------------------------------------------------------------------------
(***************************************************************************)
(* Guidance: a turn towards a direction brings it nearer.                  *)
(***************************************************************************)

\* The plane of one quarter turn: where the turn leads to the target, it takes
\* the reading one component nearer, and where not, target and reading are in line.
LEMMA InOnePlane ==
  ASSUME NEW q \in {-1, 1}, NEW r \in {-1, 1}, NEW y \in {-1, 1}, NEW z \in {-1, 1}
  PROVE  /\ q * z - r * y > 0 => q * z + r * (0 - y) = q * y + r * z + 2
         /\ q * z - r * y < 0 => q * (0 - z) + r * y = q * y + r * z + 2
         /\ q * z - r * y = 0 /\ q # y => q = 0 - y /\ r = 0 - z
         /\ q * z - r * y = 0 /\ r # z => q = 0 - y /\ r = 0 - z
<1>1. CASE q = 1 /\ r = 1 BY <1>1
<1>2. CASE q = 1 /\ r = -1 BY <1>2
<1>3. CASE q = -1 /\ r = 1 BY <1>3
<1>4. CASE q = -1 /\ r = -1 BY <1>4
<1> QED BY <1>1, <1>2, <1>3, <1>4

\* And from the opposite direction every turn gains as much.
LEMMA FromOpposite ==
  ASSUME NEW y \in {-1, 1}, NEW z \in {-1, 1}
  PROVE  (0 - y) * (0 - z) + (0 - z) * y = (0 - y) * y + (0 - z) * z + 2
<1>1. CASE y = 1 BY <1>1
<1>2. CASE y = -1 BY <1>2
<1> QED BY <1>1, <1>2

LEMMA InAnyOrder ==
  ASSUME NEW a \in Int, NEW b \in Int, NEW c \in Int, NEW e \in Int, NEW d \in Int,
         a + b = c + e + 2
  PROVE  /\ d + a + b = d + c + e + 2
         /\ b + d + a = e + d + c + 2
         /\ a + b + d = c + e + d + 2
OBVIOUS

LEMMA ProductIsInt == \A a, b \in Int : a * b \in Int /\ 0 - a \in Int
OBVIOUS

\* The motion towards another cell brings the reading one component nearer.
LEMMA TowardsGains ==
  ASSUME NEW p \in {-1, 1}, NEW q \in {-1, 1}, NEW r \in {-1, 1},
         NEW x \in {-1, 1}, NEW y \in {-1, 1}, NEW z \in {-1, 1},
         <<p, q, r>> # <<x, y, z>>, NEW next \in Towards(<<x, y, z>>, <<p, q, r>>)
  PROVE  /\ Turned(<<x, y, z>>, next) \in Cells
         /\ Dot(<<p, q, r>>, Turned(<<x, y, z>>, next)) = Dot(<<p, q, r>>, <<x, y, z>>) + 2
<1> DEFINE A == q * z - r * y
           B == r * x - p * z
           C == p * y - q * x
<1>1. A \in Int /\ B \in Int /\ C \in Int
  OBVIOUS
<1>2. PICK j \in HeadDirs, way \in BOOLEAN :
        /\ next = [motion |-> j, positive |-> way]
        /\ way = (<<A, B, C>>[j] > 0)
        /\ \A k \in HeadDirs : Abs(<<A, B, C>>[k]) <= Abs(<<A, B, C>>[j])
  <2>1. Cross(<<p, q, r>>, <<x, y, z>>) = <<A, B, C>>
    BY DEF Cross
  <2>2. PICK j \in HeadDirs :
          /\ next = [motion |-> j, positive |-> <<A, B, C>>[j] > 0]
          /\ \A k \in HeadDirs : Abs(<<A, B, C>>[k]) <= Abs(<<A, B, C>>[j])
    <3> HIDE DEF A, B, C
    <3> QED BY <2>1 DEF Towards
  <2>3. (<<A, B, C>>[j] > 0) \in BOOLEAN
    OBVIOUS
  <2> HIDE DEF A, B, C
  <2> QED BY <2>2, <2>3
<1>3. /\ j = 1 => way = (A > 0) /\ Abs(B) <= Abs(A) /\ Abs(C) <= Abs(A)
      /\ j = 2 => way = (B > 0) /\ Abs(A) <= Abs(B) /\ Abs(C) <= Abs(B)
      /\ j = 3 => way = (C > 0) /\ Abs(A) <= Abs(C) /\ Abs(B) <= Abs(C)
  <2> HIDE DEF A, B, C
  <2> QED BY <1>2 DEF HeadDirs
<1>4. \/ j = 1 /\ A = 0
      \/ j = 2 /\ B = 0
      \/ j = 3 /\ C = 0
      => A = 0 /\ B = 0 /\ C = 0
  <2> HIDE DEF A, B, C
  <2> QED BY <1>1, <1>3, AbsIs
<1>5. A = 0 /\ B = 0 /\ C = 0 => p = 0 - x /\ q = 0 - y /\ r = 0 - z
  <2>1. CASE p # x BY <2>1, InOnePlane
  <2>2. CASE q # y BY <2>2, InOnePlane
  <2>3. CASE r # z BY <2>3, InOnePlane
  <2> QED BY <2>1, <2>2, <2>3
<1>20. 0 - x \in {-1, 1} /\ 0 - y \in {-1, 1} /\ 0 - z \in {-1, 1}
  OBVIOUS
<1>21. /\ p * x \in Int /\ q * y \in Int /\ r * z \in Int
      /\ p * y \in Int /\ p * z \in Int /\ p * (0 - y) \in Int /\ p * (0 - z) \in Int
      /\ q * x \in Int /\ q * z \in Int /\ q * (0 - x) \in Int /\ q * (0 - z) \in Int
      /\ r * x \in Int /\ r * y \in Int /\ r * (0 - x) \in Int /\ r * (0 - y) \in Int
  BY ProductIsInt
<1>22. Dot(<<p, q, r>>, <<x, y, z>>) = p * x + q * y + r * z
  BY DotIs
<1>23. /\ Turned(<<x, y, z>>, [motion |-> 1, positive |-> TRUE]) = <<x, z, 0 - y>>
      /\ Turned(<<x, y, z>>, [motion |-> 1, positive |-> FALSE]) = <<x, 0 - z, y>>
      /\ Turned(<<x, y, z>>, [motion |-> 2, positive |-> TRUE]) = <<0 - z, y, x>>
      /\ Turned(<<x, y, z>>, [motion |-> 2, positive |-> FALSE]) = <<z, y, 0 - x>>
      /\ Turned(<<x, y, z>>, [motion |-> 3, positive |-> TRUE]) = <<y, 0 - x, z>>
      /\ Turned(<<x, y, z>>, [motion |-> 3, positive |-> FALSE]) = <<0 - y, x, z>>
  BY TurnedIs
<1>6. CASE j = 1
  <2>1. CASE A > 0
    <3>1. Turned(<<x, y, z>>, next) = <<x, z, 0 - y>>
      <4>1. way = TRUE
        <5> HIDE DEF A, B, C
        <5> QED BY <1>3, <1>6, <2>1
      <4>2. next = [motion |-> 1, positive |-> TRUE]
        BY <1>2, <1>6, <4>1
      <4> QED BY <4>2, <1>23
    <3>2. q * z + r * (0 - y) = q * y + r * z + 2
      BY <2>1, InOnePlane
    <3>3. <<x, z, 0 - y>> \in Cells
      BY <1>20 DEF Cells
    <3>4. p * x + q * z + r * (0 - y) = p * x + q * y + r * z + 2
      BY <3>2, <1>21, InAnyOrder
    <3>5. Dot(<<p, q, r>>, <<x, z, 0 - y>>) = p * x + q * z + r * (0 - y)
      BY <1>20, DotIs
    <3> QED BY <3>1, <3>3, <3>4, <3>5, <1>22
  <2>2. CASE ~(A > 0)
    <3>1. Turned(<<x, y, z>>, next) = <<x, 0 - z, y>>
      <4>1. way = FALSE
        <5> HIDE DEF A, B, C
        <5> QED BY <1>3, <1>6, <2>2
      <4>2. next = [motion |-> 1, positive |-> FALSE]
        BY <1>2, <1>6, <4>1
      <4> QED BY <4>2, <1>23
    <3>2. q * (0 - z) + r * y = q * y + r * z + 2
      <4>1. CASE A < 0 BY <4>1, InOnePlane
      <4>2. CASE A = 0
        <5>1. q = 0 - y /\ r = 0 - z
          BY <1>4, <1>5, <1>6, <4>2
        <5> QED BY <5>1, FromOpposite
      <4> QED BY <1>1, <2>2, <4>1, <4>2
    <3>3. <<x, 0 - z, y>> \in Cells
      BY <1>20 DEF Cells
    <3>4. p * x + q * (0 - z) + r * y = p * x + q * y + r * z + 2
      BY <3>2, <1>21, InAnyOrder
    <3>5. Dot(<<p, q, r>>, <<x, 0 - z, y>>) = p * x + q * (0 - z) + r * y
      BY <1>20, DotIs
    <3> QED BY <3>1, <3>3, <3>4, <3>5, <1>22
  <2> QED BY <2>1, <2>2
<1>7. CASE j = 2
  <2>1. CASE B > 0
    <3>1. Turned(<<x, y, z>>, next) = <<0 - z, y, x>>
      <4>1. way = TRUE
        <5> HIDE DEF A, B, C
        <5> QED BY <1>3, <1>7, <2>1
      <4>2. next = [motion |-> 2, positive |-> TRUE]
        BY <1>2, <1>7, <4>1
      <4> QED BY <4>2, <1>23
    <3>2. r * x + p * (0 - z) = r * z + p * x + 2
      BY <2>1, InOnePlane
    <3>3. <<0 - z, y, x>> \in Cells
      BY <1>20 DEF Cells
    <3>4. p * (0 - z) + q * y + r * x = p * x + q * y + r * z + 2
      BY <3>2, <1>21, InAnyOrder
    <3>5. Dot(<<p, q, r>>, <<0 - z, y, x>>) = p * (0 - z) + q * y + r * x
      BY <1>20, DotIs
    <3> QED BY <3>1, <3>3, <3>4, <3>5, <1>22
  <2>2. CASE ~(B > 0)
    <3>1. Turned(<<x, y, z>>, next) = <<z, y, 0 - x>>
      <4>1. way = FALSE
        <5> HIDE DEF A, B, C
        <5> QED BY <1>3, <1>7, <2>2
      <4>2. next = [motion |-> 2, positive |-> FALSE]
        BY <1>2, <1>7, <4>1
      <4> QED BY <4>2, <1>23
    <3>2. r * (0 - x) + p * z = r * z + p * x + 2
      <4>1. CASE B < 0 BY <4>1, InOnePlane
      <4>2. CASE B = 0
        <5>1. r = 0 - z /\ p = 0 - x
          BY <1>4, <1>5, <1>7, <4>2
        <5> QED BY <5>1, FromOpposite
      <4> QED BY <1>1, <2>2, <4>1, <4>2
    <3>3. <<z, y, 0 - x>> \in Cells
      BY <1>20 DEF Cells
    <3>4. p * z + q * y + r * (0 - x) = p * x + q * y + r * z + 2
      BY <3>2, <1>21, InAnyOrder
    <3>5. Dot(<<p, q, r>>, <<z, y, 0 - x>>) = p * z + q * y + r * (0 - x)
      BY <1>20, DotIs
    <3> QED BY <3>1, <3>3, <3>4, <3>5, <1>22
  <2> QED BY <2>1, <2>2
<1>8. CASE j = 3
  <2>1. CASE C > 0
    <3>1. Turned(<<x, y, z>>, next) = <<y, 0 - x, z>>
      <4>1. way = TRUE
        <5> HIDE DEF A, B, C
        <5> QED BY <1>3, <1>8, <2>1
      <4>2. next = [motion |-> 3, positive |-> TRUE]
        BY <1>2, <1>8, <4>1
      <4> QED BY <4>2, <1>23
    <3>2. p * y + q * (0 - x) = p * x + q * y + 2
      BY <2>1, InOnePlane
    <3>3. <<y, 0 - x, z>> \in Cells
      BY <1>20 DEF Cells
    <3>4. p * y + q * (0 - x) + r * z = p * x + q * y + r * z + 2
      BY <3>2, <1>21, InAnyOrder
    <3>5. Dot(<<p, q, r>>, <<y, 0 - x, z>>) = p * y + q * (0 - x) + r * z
      BY <1>20, DotIs
    <3> QED BY <3>1, <3>3, <3>4, <3>5, <1>22
  <2>2. CASE ~(C > 0)
    <3>1. Turned(<<x, y, z>>, next) = <<0 - y, x, z>>
      <4>1. way = FALSE
        <5> HIDE DEF A, B, C
        <5> QED BY <1>3, <1>8, <2>2
      <4>2. next = [motion |-> 3, positive |-> FALSE]
        BY <1>2, <1>8, <4>1
      <4> QED BY <4>2, <1>23
    <3>2. p * (0 - y) + q * x = p * x + q * y + 2
      <4>1. CASE C < 0 BY <4>1, InOnePlane
      <4>2. CASE C = 0
        <5>1. p = 0 - x /\ q = 0 - y
          BY <1>4, <1>5, <1>8, <4>2
        <5> QED BY <5>1, FromOpposite
      <4> QED BY <1>1, <2>2, <4>1, <4>2
    <3>3. <<0 - y, x, z>> \in Cells
      BY <1>20 DEF Cells
    <3>4. p * (0 - y) + q * x + r * z = p * x + q * y + r * z + 2
      BY <3>2, <1>21, InAnyOrder
    <3>5. Dot(<<p, q, r>>, <<0 - y, x, z>>) = p * (0 - y) + q * x + r * z
      BY <1>20, DotIs
    <3> QED BY <3>1, <3>3, <3>4, <3>5, <1>22
  <2> QED BY <2>1, <2>2
<1> QED BY <1>6, <1>7, <1>8 DEF HeadDirs

-----------------------------------------------------------------------------
(***************************************************************************)
(* Guidance: the inductive invariant.                                      *)
(***************************************************************************)

Links == [on : BOOLEAN, mounting : [HeadDirs -> Axes], epoch : Nat]
Findings == [axis : Axes, whole : BOOLEAN]
Checks == [source : Links, found : [HeadDirs -> Findings], capture : [motion : 0 .. 3, start : Nat]]
SweepRecords ==
  [open : BOOLEAN, mounting : [HeadDirs -> Axes], at : Cells, read : SUBSET Cells, wasted : Nat]

GuidanceTypeOK ==
  /\ real \in Rotations /\ mounting \in [HeadDirs -> Axes]
  /\ link \in Links /\ heard \in Links /\ sample \in Nat
  /\ check \in Checks /\ sweep \in SweepRecords

\* The connection and what was heard of it: no fresh pose is of an earlier
\* session than the one heard of.
Heard ==
  /\ link.on => Proper(link.mounting)
  /\ heard.on => Proper(heard.mounting)
  /\ heard.epoch <= link.epoch /\ sample <= link.epoch
  /\ sample # 0 /\ heard.on => heard.epoch <= sample

\* A check as of a session of the connection: a capture began in the session of
\* its source or after it, and a result across two sessions is of a source that
\* is over.
Measured(c, epoch) ==
  /\ c.source.on => Proper(c.source.mounting)
  /\ c.source.epoch <= epoch
  /\ c.capture.motion # 0 =>
       /\ c.source.on /\ c.capture.start # 0
       /\ c.source.epoch <= c.capture.start /\ c.capture.start <= epoch
  /\ \A i \in HeadDirs : ~c.found[i].whole => c.source.on /\ c.source.epoch < epoch

\* A sweep seen through the right mounting always has a direction left that is
\* nearer than the turns wasted so far.
LeadsOn ==
  /\ sweep.open => Proper(sweep.mounting)
  /\ sweep.open /\ sweep.mounting = real =>
       /\ sweep.at \in sweep.read
       /\ sweep.read # Cells =>
            \E d \in Cells \ sweep.read : Dot(d, sweep.at) >= 2 * sweep.wasted - 3

GuidanceInv == GuidanceTypeOK /\ Heard /\ Measured(check, link.epoch) /\ LeadsOn

\* No axis chosen yet is a choice.
LEMMA NoAxes == <<0, 0, 0>> \in [HeadDirs -> Axes]
BY DEF HeadDirs, Axes

\* What a session of the connection does to its record.
LEMMA LinkSteps ==
  ASSUME NEW l \in Links
  PROVE  /\ [l EXCEPT !.on = FALSE] \in Links
         /\ [l EXCEPT !.on = FALSE].on = FALSE /\ [l EXCEPT !.on = FALSE].epoch = l.epoch
         /\ [l EXCEPT !.epoch = @ + 1] \in Links
         /\ [l EXCEPT !.epoch = @ + 1].on = l.on
         /\ [l EXCEPT !.epoch = @ + 1].mounting = l.mounting
         /\ [l EXCEPT !.epoch = @ + 1].epoch = l.epoch + 1
         /\ l.epoch \in Nat
<1>1. /\ [l EXCEPT !.on = FALSE] \in Links
      /\ [l EXCEPT !.on = FALSE].on = FALSE /\ [l EXCEPT !.on = FALSE].epoch = l.epoch
  BY DEF Links
<1>2. l.epoch \in Nat
  BY DEF Links
<1>3. ASSUME NEW n \in Nat
      PROVE  /\ [l EXCEPT !.epoch = n] \in Links /\ [l EXCEPT !.epoch = n].on = l.on
             /\ [l EXCEPT !.epoch = n].mounting = l.mounting /\ [l EXCEPT !.epoch = n].epoch = n
  BY DEF Links
<1> QED BY <1>1, <1>2, <1>3

\* Before the first session there is none.
LEMMA OffIsALink == Off \in Links /\ Off.on = FALSE /\ Off.epoch = 0
BY NoAxes DEF Off, Links

\* A check that begins holds no result.
LEMMA UncheckedIs ==
  ASSUME NEW source \in Links, NEW epoch \in Nat, source.epoch <= epoch,
         source.on => Proper(source.mounting)
  PROVE  /\ Unchecked(source) \in Checks /\ Unchecked(source).source = source
         /\ Unchecked(source).capture.motion = 0
         /\ Measured(Unchecked(source), epoch)
<1>1. Unchecked(source) \in Checks
  BY DEF Unchecked, Checks, Findings, NotFound, NoCapture, Axes
<1>2. /\ Unchecked(source).source = source
      /\ Unchecked(source).capture.motion = 0
      /\ \A i \in HeadDirs : Unchecked(source).found[i].whole = TRUE
  BY DEF Unchecked, NotFound, NoCapture
<1> QED BY <1>1, <1>2 DEF Measured

\* A frame starts from a check of the source there is.
LEMMA SourcedIs ==
  ASSUME GuidanceTypeOK, Heard, Measured(check, link.epoch)
  PROVE  /\ CurrentSource \in Links /\ CurrentSource.epoch <= link.epoch
         /\ CurrentSource.on => Proper(CurrentSource.mounting) /\ sample # 0 /\ CurrentSource = heard
         /\ Sourced \in Checks /\ Sourced.source = CurrentSource
         /\ Measured(Sourced, link.epoch)
<1>1. /\ CurrentSource \in Links /\ CurrentSource.epoch <= link.epoch
      /\ CurrentSource.on => Proper(CurrentSource.mounting) /\ sample # 0 /\ CurrentSource = heard
  BY OffIsALink DEF CurrentSource, GuidanceTypeOK, Heard, Links
<1>2. link.epoch \in Nat
  BY DEF GuidanceTypeOK, Links
<1>3. /\ Unchecked(CurrentSource) \in Checks /\ Unchecked(CurrentSource).source = CurrentSource
      /\ Measured(Unchecked(CurrentSource), link.epoch)
  BY <1>1, <1>2, UncheckedIs
<1> QED BY <1>1, <1>3 DEF Sourced, GuidanceTypeOK

\* The axes of a rotation are the three there are.
LEMMA EveryAxisIsThere ==
  ASSUME NEW m \in [HeadDirs -> Axes], Proper(m), NEW a \in Axes \ {0}
  PROVE  \E i \in HeadDirs : Abs(m[i]) = Abs(a)
<1>1. /\ m[1] \in Axes \ {0} /\ m[2] \in Axes \ {0} /\ m[3] \in Axes \ {0}
      /\ m[3] = Third(m[1], m[2])
  BY RotationThird
<1>2. ASSUME NEW b \in Axes \ {0}, NEW c \in Axes \ {0}, NEW d \in Axes \ {0}, d = Third(b, c)
      PROVE  Abs(b) = Abs(a) \/ Abs(c) = Abs(a) \/ Abs(d) = Abs(a)
  <2>1. CASE b = 1 BY <1>2, <2>1, AbsIs DEF Third, Axes
  <2>2. CASE b = -1 BY <1>2, <2>2, AbsIs DEF Third, Axes
  <2>3. CASE b = 2 BY <1>2, <2>3, AbsIs DEF Third, Axes
  <2>4. CASE b = -2 BY <1>2, <2>4, AbsIs DEF Third, Axes
  <2>5. CASE b = 3 BY <1>2, <2>5, AbsIs DEF Third, Axes
  <2>6. CASE b = -3 BY <1>2, <2>6, AbsIs DEF Third, Axes
  <2> QED BY <2>1, <2>2, <2>3, <2>4, <2>5, <2>6 DEF Axes
<1> QED BY <1>1, <1>2 DEF HeadDirs

\* A motion read under a rotation names a sensor axis.
LEMMA NamedIsAnAxis ==
  ASSUME NEW sits \in Rotations, NEW m \in [HeadDirs -> Axes], Proper(m), NEW motion \in HeadDirs,
         NEW peak \in Turns(motion), peak # 0
  PROVE  Named(m, motion, Observed(sits, m, peak)) \in Axes
<1> DEFINE turned == IF peak > 0 THEN sits[peak] ELSE -sits[-peak]
           axis == CHOOSE i \in HeadDirs : Abs(m[i]) = Abs(turned)
<1>1. (peak > 0 /\ peak \in HeadDirs) \/ (~(peak > 0) /\ -peak \in HeadDirs)
  <2>1. CASE motion = 1 BY <2>1 DEF Turns, HeadDirs
  <2>2. CASE motion = 2 BY <2>2 DEF Turns, HeadDirs
  <2>3. CASE motion = 3 BY <2>3 DEF Turns, HeadDirs
  <2> QED BY <2>1, <2>2, <2>3 DEF HeadDirs
<1>2. turned \in Axes \ {0}
  BY <1>1 DEF Rotations, Axes
<1>3. axis \in HeadDirs
  BY <1>2, EveryAxisIsThere
<1>4. m[axis] \in Axes /\ -m[axis] \in Axes
  BY <1>3 DEF Axes
<1>5. Observed(sits, m, peak).axis = axis
  BY DEF Observed
<1> QED BY <1>4, <1>5 DEF Named

\* What was measured stays so as the sessions go on.
LEMMA MeasuredLater ==
  ASSUME NEW c \in Checks, NEW e \in Nat, NEW f \in Nat, e <= f, Measured(c, e)
  PROVE  Measured(c, f)
BY DEF Measured, Checks, Links

\* A result recorded is of one session, or of a source that is over.
LEMMA RecordedIs ==
  ASSUME GuidanceInv, NEW c \in Checks, Measured(c, link.epoch), c.source = CurrentSource,
         c.capture.motion # 0, NEW peak \in Turns(c.capture.motion),
         NEW whole \in BOOLEAN, whole = FALSE => c.capture.start # sample
  PROVE  /\ Recorded(c, peak, whole) \in Checks
         /\ Recorded(c, peak, whole).source = CurrentSource
         /\ Measured(Recorded(c, peak, whole), link.epoch)
<1>1. /\ c.capture.motion \in HeadDirs /\ c.source.on /\ Proper(c.source.mounting)
      /\ c.source \in Links /\ c.source.mounting \in [HeadDirs -> Axes]
      /\ c.found \in [HeadDirs -> Findings] /\ c.capture.start \in Nat
  BY DEF Measured, Checks, Links, HeadDirs
<1>2. real \in Rotations
  BY DEF GuidanceInv, GuidanceTypeOK
<1> DEFINE motion == c.capture.motion
           found == Found(c, peak, whole)
<1>3. found \in Findings
  <2>1. CASE peak = 0 BY <2>1 DEF Found, Findings, NotFound, Axes
  <2>2. CASE peak # 0 BY <1>1, <1>2, <2>2, NamedIsAnAxis DEF Found, Findings
  <2> QED BY <2>1, <2>2
<1>4. /\ Recorded(c, peak, whole).source = c.source
      /\ Recorded(c, peak, whole).capture = NoCapture
      /\ Recorded(c, peak, whole).found = [c.found EXCEPT ![motion] = found]
      /\ Recorded(c, peak, whole) \in Checks
  <2> DEFINE With(x, k) == [c EXCEPT !.capture = k, !.found[motion] = x]
  <2>1. Recorded(c, peak, whole) = With(found, NoCapture)
    BY DEF Recorded
  <2>2. NoCapture \in [motion : 0 .. 3, start : Nat]
    BY DEF NoCapture
  <2>3. ASSUME NEW x \in Findings, NEW k \in [motion : 0 .. 3, start : Nat]
        PROVE  With(x, k) \in Checks
    <3>1. [c EXCEPT !.found[motion] = x] \in Checks
      BY <1>1 DEF Checks
    <3>2. ASSUME NEW d \in Checks
          PROVE  [d EXCEPT !.capture = k] \in Checks
      BY DEF Checks
    <3>3. With(x, k) = [[c EXCEPT !.found[motion] = x] EXCEPT !.capture = k]
      BY DEF Checks
    <3> QED BY <3>1, <3>2, <3>3
  <2>4. ASSUME NEW x \in Findings, NEW k \in [motion : 0 .. 3, start : Nat]
        PROVE  /\ With(x, k).source = c.source
               /\ With(x, k).capture = k
               /\ With(x, k).found = [c.found EXCEPT ![motion] = x]
    BY <1>1 DEF Checks
  <2> HIDE DEF found, With
  <2>5. With(found, NoCapture) \in Checks
    BY <1>3, <2>2, <2>3
  <2>6. /\ With(found, NoCapture).source = c.source
        /\ With(found, NoCapture).capture = NoCapture
        /\ With(found, NoCapture).found = [c.found EXCEPT ![motion] = found]
    BY <1>3, <2>2, <2>4
  <2> QED BY <2>1, <2>5, <2>6
<1>5. found.whole = FALSE => c.source.epoch < link.epoch
  <2>1. found.whole = FALSE => whole = FALSE
    BY DEF Found, NotFound
  <2>2. /\ sample # 0 /\ c.source = heard
    <3>1. CASE CurrentSource = heard /\ sample # 0
      BY <3>1
    <3>2. CASE CurrentSource = Off
      BY <1>1, <3>2, OffIsALink
    <3> QED BY <3>1, <3>2 DEF CurrentSource
  <2>3. /\ heard.epoch <= sample /\ sample <= link.epoch /\ heard.epoch \in Nat
        /\ sample \in Nat /\ link.epoch \in Nat
    BY <1>1, <2>2 DEF GuidanceInv, GuidanceTypeOK, Heard, Links
  <2>4. c.source.epoch <= c.capture.start /\ c.capture.start <= link.epoch
    BY DEF Measured
  <2> HIDE DEF found
  <2> QED BY <1>1, <2>1, <2>2, <2>3, <2>4
<1>6. \A i \in HeadDirs : ~[c.found EXCEPT ![motion] = found][i].whole =>
        c.source.on /\ c.source.epoch < link.epoch
  <2> HIDE DEF found
  <2> QED BY <1>1, <1>3, <1>5 DEF Measured, Findings
<1> HIDE DEF found
<1> QED BY <1>1, <1>4, <1>6 DEF Measured, NoCapture

\* Whatever a frame makes of the check before it is drawn.
LEMMA AdvancedIs ==
  ASSUME GuidanceInv, NEW c \in Advanced
  PROVE  c \in Checks /\ c.source = CurrentSource /\ Measured(c, link.epoch)
<1>1. Sourced \in Checks /\ Sourced.source = CurrentSource /\ Measured(Sourced, link.epoch)
  BY SourcedIs DEF GuidanceInv
<1>2. CASE c = Sourced BY <1>1, <1>2
<1>3. CASE c # Sourced
  <2>1. PICK peak \in Peaks(Sourced), whole \in Wholes(Sourced) :
          c = Recorded(Sourced, peak, whole)
    BY <1>3 DEF Advanced
  <2>2. Sourced.capture.motion # 0 /\ peak \in Turns(Sourced.capture.motion)
    BY <2>1 DEF Peaks
  <2>3. CASE whole = TRUE
    <3>1. whole \in BOOLEAN /\ (whole = FALSE => Sourced.capture.start # sample)
      BY <2>3
    <3> QED BY <1>1, <2>1, <2>2, <3>1, RecordedIs
  <2>4. CASE whole # TRUE
    <3>1. whole = FALSE /\ Sourced.capture.start # sample
      BY <2>1, <2>4 DEF Wholes
    <3> QED BY <1>1, <2>1, <2>2, <3>1, RecordedIs
  <2> QED BY <2>3, <2>4
<1> QED BY <1>2, <1>3

\* The invariant at first.
LEMMA GuidanceStarts == GuidanceInit => GuidanceInv
<1> SUFFICES ASSUME GuidanceInit PROVE GuidanceInv
  OBVIOUS
<1>1. real \in Rotations
  BY GuidanceAssumption DEF GuidanceInit
<1>2. sweep \in SweepRecords
  BY NoAxes DEF GuidanceInit, NoSweep, SweepRecords, Cells
<1>3. check \in Checks /\ Measured(check, 0)
  BY OffIsALink, UncheckedIs DEF GuidanceInit
<1>4. GuidanceTypeOK
  BY <1>1, <1>2, <1>3, GuidanceAssumption, OffIsALink DEF GuidanceInit, GuidanceTypeOK
<1>5. Heard
  BY OffIsALink DEF GuidanceInit, Heard
<1>6. LeadsOn
  BY DEF GuidanceInit, LeadsOn, NoSweep
<1> QED BY <1>3, <1>4, <1>5, <1>6, OffIsALink DEF GuidanceInv, GuidanceInit

-----------------------------------------------------------------------------
(***************************************************************************)
(* Guidance: the connection, the check and the choice.                     *)
(***************************************************************************)

\* A choice of an axis.
LEMMA PicksKeeps ==
  ASSUME GuidanceInv, Picks
  PROVE  GuidanceInv'
<1> USE DEF Picks
<1>1. mounting' \in [HeadDirs -> Axes]
  BY NoAxes DEF GuidanceInv, GuidanceTypeOK
<1>2. check' \in Checks /\ Measured(check', link.epoch)
  BY SourcedIs DEF GuidanceInv
<1> QED BY <1>1, <1>2 DEF GuidanceInv, GuidanceTypeOK, Heard, LeadsOn

\* A connection begins another session.
LEMMA ConnectsKeeps ==
  ASSUME GuidanceInv, Connects
  PROVE  GuidanceInv'
<1> USE DEF Connects
<1>0. link.epoch \in Nat /\ link'.epoch = link.epoch + 1 /\ link'.mounting = mounting
  BY DEF GuidanceInv, GuidanceTypeOK, Links
<1>1. link' \in Links /\ heard' \in Links /\ heard'.on = FALSE /\ heard'.epoch = heard.epoch
      /\ heard.epoch \in Nat
  <2>1. link' \in Links
    BY <1>0 DEF GuidanceInv, GuidanceTypeOK, Links
  <2> QED BY <2>1, LinkSteps DEF GuidanceInv, GuidanceTypeOK
<1>2. check' \in Checks /\ Measured(check', link.epoch)
  BY SourcedIs DEF GuidanceInv
<1>3. Measured(check', link'.epoch)
  BY <1>0, <1>2, MeasuredLater
<1>4. Heard'
  BY <1>0, <1>1 DEF GuidanceInv, Heard
<1> QED BY <1>1, <1>2, <1>3, <1>4 DEF GuidanceInv, GuidanceTypeOK, LeadsOn

\* A reconnection begins another session.
LEMMA RestartsKeeps ==
  ASSUME GuidanceInv, Restarts
  PROVE  GuidanceInv'
<1> USE DEF Restarts
<1>0. link.epoch \in Nat /\ link'.epoch = link.epoch + 1 /\ link'.mounting = link.mounting
      /\ link'.on = link.on /\ link' \in Links
  BY LinkSteps DEF GuidanceInv, GuidanceTypeOK
<1>1. Measured(check', link'.epoch)
  BY <1>0, MeasuredLater DEF GuidanceInv, GuidanceTypeOK
<1>2. Heard'
  BY <1>0 DEF GuidanceInv, GuidanceTypeOK, Heard, Links
<1> QED BY <1>0, <1>1, <1>2 DEF GuidanceInv, GuidanceTypeOK, LeadsOn

\* The end of a connection.
LEMMA DisconnectsKeeps ==
  ASSUME GuidanceInv, Disconnects
  PROVE  GuidanceInv'
<1> USE DEF Disconnects
<1>0. /\ link'.epoch = link.epoch /\ link'.on = FALSE /\ link' \in Links /\ link.epoch \in Nat
      /\ heard'.epoch = heard.epoch /\ heard'.on = FALSE /\ heard' \in Links
  BY DEF GuidanceInv, GuidanceTypeOK, Links
<1>1. Heard'
  BY <1>0 DEF GuidanceInv, Heard
<1> QED BY <1>0, <1>1 DEF GuidanceInv, GuidanceTypeOK, LeadsOn

\* A fresh pose, or none any more.
LEMMA SamplesKeeps ==
  ASSUME GuidanceInv, Samples
  PROVE  GuidanceInv'
<1> USE DEF Samples
<1>1. sample' \in Nat /\ sample' <= link.epoch
  BY DEF GuidanceInv, GuidanceTypeOK, Links
<1>2. Heard'
  BY <1>1 DEF GuidanceInv, GuidanceTypeOK, Links, Heard
<1> QED BY <1>1, <1>2 DEF GuidanceInv, GuidanceTypeOK, LeadsOn

\* The connection as it is reaches the panel.
LEMMA PublishesLinkKeeps ==
  ASSUME GuidanceInv, PublishesLink
  PROVE  GuidanceInv'
<1> USE DEF PublishesLink
<1>1. sample' \in Nat /\ sample' <= link.epoch /\ (sample' # 0 => sample' = link.epoch)
  BY DEF GuidanceInv, GuidanceTypeOK, Links
<1>2. Heard'
  BY <1>1 DEF GuidanceInv, GuidanceTypeOK, Links, Heard
<1> QED BY <1>1, <1>2 DEF GuidanceInv, GuidanceTypeOK, LeadsOn

\* A frame of the check.
LEMMA FrameKeeps ==
  ASSUME GuidanceInv, Frame
  PROVE  GuidanceInv'
<1>1. PICK c \in Advanced :
        \/ check' = c /\ UNCHANGED mounting
        \/ /\ c.source.on /\ c.capture.motion = 0 /\ UNCHANGED mounting
           /\ \E motion \in HeadDirs : check' = Started(c, motion)
        \/ c.capture.motion # 0 /\ check' = [c EXCEPT !.capture = NoCapture] /\ UNCHANGED mounting
        \/ /\ c.source.on /\ Resolves(c.found)
           /\ mounting' = [i \in HeadDirs |-> c.found[i].axis] /\ mounting' # mounting
           /\ check' = Unchecked(Off)
  BY DEF Frame
<1>9. UNCHANGED <<real, link, heard, sample, sweep>>
  BY DEF Frame
<1>2. c \in Checks /\ c.source = CurrentSource /\ Measured(c, link.epoch)
  BY AdvancedIs
<1>3. /\ CurrentSource \in Links /\ CurrentSource.epoch <= link.epoch
      /\ CurrentSource.on => sample # 0 /\ CurrentSource = heard
  BY SourcedIs DEF GuidanceInv
<1>4. link.epoch \in Nat /\ sample \in Nat /\ sample <= link.epoch
      /\ (sample # 0 /\ heard.on => heard.epoch <= sample) /\ mounting \in [HeadDirs -> Axes]
  BY DEF GuidanceInv, GuidanceTypeOK, Links, Heard
<1>5. mounting' \in [HeadDirs -> Axes] /\ check' \in Checks /\ Measured(check', link.epoch)
  <2>1. CASE check' = c /\ UNCHANGED mounting
    BY <1>2, <1>4, <2>1
  <2>2. ASSUME NEW motion \in HeadDirs, c.source.on, c.capture.motion = 0, UNCHANGED mounting,
               check' = Started(c, motion)
        PROVE  mounting' \in [HeadDirs -> Axes] /\ check' \in Checks /\ Measured(check', link.epoch)
    <3> DEFINE new == [motion |-> motion, start |-> sample]
    <3>1. new \in [motion : 0 .. 3, start : Nat] /\ new.motion = motion /\ new.start = sample
      BY <1>4 DEF HeadDirs
    <3>2. NotFound \in Findings /\ NotFound.whole = TRUE
      BY DEF NotFound, Findings, Axes
    <3>3. check' = [c EXCEPT !.found[motion] = NotFound, !.capture = new]
      BY <2>2 DEF Started
    <3> DEFINE With(x, k) == [c EXCEPT !.found[motion] = x, !.capture = k]
    <3>4. ASSUME NEW x \in Findings, NEW k \in [motion : 0 .. 3, start : Nat]
          PROVE  /\ With(x, k).source = c.source
                 /\ With(x, k).capture = k
                 /\ With(x, k).found = [c.found EXCEPT ![motion] = x]
                 /\ With(x, k) \in Checks
      <4>1. [c EXCEPT !.found[motion] = x] \in Checks
        BY <1>2 DEF Checks
      <4>2. ASSUME NEW d \in Checks
            PROVE  [d EXCEPT !.capture = k] \in Checks
        BY DEF Checks
      <4>3. With(x, k) = [[c EXCEPT !.found[motion] = x] EXCEPT !.capture = k]
        BY <1>2 DEF Checks
      <4>4. With(x, k) \in Checks
        BY <4>1, <4>2, <4>3
      <4>5. /\ With(x, k).source = c.source
            /\ With(x, k).capture = k
            /\ With(x, k).found = [c.found EXCEPT ![motion] = x]
        BY <1>2 DEF Checks
      <4> QED BY <4>4, <4>5
    <3>5. check' = With(NotFound, new)
      BY <3>3
    <3> HIDE DEF With, new
    <3>6. /\ check' \in Checks /\ check'.source = c.source /\ check'.capture = new
          /\ check'.found = [c.found EXCEPT ![motion] = NotFound]
      BY <3>1, <3>2, <3>4, <3>5
    <3>7. c.source.epoch <= sample /\ sample # 0
      BY <1>2, <1>3, <1>4, <2>2
    <3>8. c.found \in [HeadDirs -> Findings]
      BY <1>2 DEF Checks
    <3>9. Measured(check', link.epoch)
      BY <1>2, <1>4, <2>2, <3>1, <3>2, <3>6, <3>7, <3>8 DEF Measured
    <3> QED BY <1>4, <2>2, <3>6, <3>9
  <2>3. CASE check' = [c EXCEPT !.capture = NoCapture] /\ UNCHANGED mounting
    <3>1. /\ check' \in Checks /\ check'.source = c.source /\ check'.found = c.found
          /\ check'.capture = NoCapture
      BY <1>2, <2>3 DEF Checks, NoCapture
    <3> QED BY <1>2, <1>4, <2>3, <3>1 DEF Measured, NoCapture
  <2>4. CASE mounting' = [i \in HeadDirs |-> c.found[i].axis] /\ check' = Unchecked(Off)
    <3>1. mounting' \in [HeadDirs -> Axes]
      BY <1>2, <2>4 DEF Checks, Findings
    <3>2. check' \in Checks /\ Measured(check', link.epoch)
      BY <1>4, <2>4, OffIsALink, UncheckedIs
    <3> QED BY <3>1, <3>2
  <2> QED BY <1>1, <2>1, <2>2, <2>3, <2>4
<1> QED BY <1>5, <1>9 DEF GuidanceInv, GuidanceTypeOK, Heard, LeadsOn

-----------------------------------------------------------------------------
(***************************************************************************)
(* Guidance: the sweep.                                                    *)
(***************************************************************************)

\* Two directions of the grid have three components in common only when they
\* are the same.
LEMMA DotOfCells ==
  ASSUME NEW v \in Cells, NEW w \in Cells
  PROVE  Dot(v, w) \in -3 .. 3 /\ (Dot(v, w) = 3 => v = w)
<1>1. PICK p, q, r \in {-1, 1} : v = <<p, q, r>>
  BY CellIs
<1>2. PICK x, y, z \in {-1, 1} : w = <<x, y, z>>
  BY CellIs
<1>3. Dot(v, w) = p * x + q * y + r * z
  BY <1>1, <1>2, DotIs
<1>4. ASSUME NEW s \in {-1, 1}, NEW t \in {-1, 1}
      PROVE  s * t \in {-1, 1} /\ (s * t = 1 => s = t)
  <2>1. CASE s = 1 BY <2>1
  <2>2. CASE s = -1 BY <2>2
  <2> QED BY <2>1, <2>2
<1>5. /\ p * x \in {-1, 1} /\ q * y \in {-1, 1} /\ r * z \in {-1, 1}
      /\ (p * x = 1 => p = x) /\ (q * y = 1 => q = y) /\ (r * z = 1 => r = z)
  BY <1>4
<1>6. ASSUME NEW a \in {-1, 1}, NEW b \in {-1, 1}, NEW c \in {-1, 1}
      PROVE  a + b + c \in -3 .. 3 /\ (a + b + c = 3 => a = 1 /\ b = 1 /\ c = 1)
  BY <1>6
<1> QED BY <1>1, <1>2, <1>3, <1>5, <1>6

\* A quarter turn leads from a direction of the grid to another.
LEMMA TurnedIsACell ==
  ASSUME NEW at \in Cells, NEW motion \in HeadDirs, NEW way \in BOOLEAN
  PROVE  Turned(at, [motion |-> motion, positive |-> way]) \in Cells
<1>1. PICK x, y, z \in {-1, 1} : at = <<x, y, z>>
  BY CellIs
<1>2. x \in Int /\ y \in Int /\ z \in Int
  OBVIOUS
<1>3. 0 - x \in {-1, 1} /\ 0 - y \in {-1, 1} /\ 0 - z \in {-1, 1}
  OBVIOUS
<1>4. /\ Turned(<<x, y, z>>, [motion |-> 1, positive |-> TRUE]) = <<x, z, 0 - y>>
      /\ Turned(<<x, y, z>>, [motion |-> 1, positive |-> FALSE]) = <<x, 0 - z, y>>
      /\ Turned(<<x, y, z>>, [motion |-> 2, positive |-> TRUE]) = <<0 - z, y, x>>
      /\ Turned(<<x, y, z>>, [motion |-> 2, positive |-> FALSE]) = <<z, y, 0 - x>>
      /\ Turned(<<x, y, z>>, [motion |-> 3, positive |-> TRUE]) = <<y, 0 - x, z>>
      /\ Turned(<<x, y, z>>, [motion |-> 3, positive |-> FALSE]) = <<0 - y, x, z>>
  BY <1>2, TurnedIs
<1>5. /\ <<x, z, 0 - y>> \in Cells
      /\ <<x, 0 - z, y>> \in Cells
      /\ <<0 - z, y, x>> \in Cells
      /\ <<z, y, 0 - x>> \in Cells
      /\ <<y, 0 - x, z>> \in Cells
      /\ <<0 - y, x, z>> \in Cells
  BY <1>3 DEF Cells
<1>6. ASSUME NEW m \in {1, 2, 3}
      PROVE  /\ Turned(<<x, y, z>>, [motion |-> m, positive |-> TRUE]) \in Cells
             /\ Turned(<<x, y, z>>, [motion |-> m, positive |-> FALSE]) \in Cells
  BY <1>4, <1>5
<1>7. motion \in {1, 2, 3} /\ (way = TRUE \/ way = FALSE)
  BY DEF HeadDirs
<1> QED BY <1>1, <1>6, <1>7

\* Through the right mounting the headset sees a direction as it is.
LEMMA MountedRight ==
  ASSUME NEW m \in [HeadDirs -> Axes], Proper(m), NEW v \in Cells
  PROVE  HeadsetAxes(m, SensorAxes(m, v)) = v
<1>1. PICK x, y, z \in {-1, 1} : v = <<x, y, z>>
  BY CellIs
<1> QED BY <1>1, AxesThereAndBack

\* The sensor sits in some rotation.
LEMMA RealIs ==
  ASSUME GuidanceInv
  PROVE  real \in [HeadDirs -> Axes] /\ Proper(real)
BY DEF GuidanceInv, GuidanceTypeOK, Rotations

\* The field read through a mounting is one of the grid's corners.
LEMMA SeenIsACell ==
  ASSUME GuidanceInv, NEW m \in [HeadDirs -> Axes], Proper(m), NEW at \in Cells
  PROVE  HeadsetAxes(m, SensorAxes(real, at)) \in Cells
BY RealIs, CellsInAxes

\* A direction not read yet is never further than the opposite one.
LEMMA SomethingIsLeft ==
  ASSUME NEW at \in Cells, NEW read \in SUBSET Cells, read # Cells
  PROVE  \E d \in Cells \ read : Dot(d, at) >= 2 * 0 - 3
<1>1. PICK d \in Cells : d \notin read
  OBVIOUS
<1> QED BY <1>1, DotOfCells

\* A sweep begins with the direction read first.
LEMMA OpensKeeps ==
  ASSUME GuidanceInv, Opens
  PROVE  GuidanceInv'
<1> USE DEF Opens
<1>1. check' \in Checks /\ Measured(check', link.epoch)
  BY SourcedIs DEF GuidanceInv
<1>2. mounting \in [HeadDirs -> Axes] /\ Proper(mounting)
  BY DEF GuidanceInv, GuidanceTypeOK
<1>3. PICK at \in Cells :
        sweep' = [open |-> TRUE, mounting |-> mounting, at |-> at,
                  read |-> {HeadsetAxes(mounting, SensorAxes(real, at))}, wasted |-> 0]
  OBVIOUS
<1>4. HeadsetAxes(mounting, SensorAxes(real, at)) \in Cells
  BY <1>2, SeenIsACell
<1>5. sweep' \in SweepRecords
  BY <1>2, <1>3, <1>4 DEF SweepRecords
<1>6. mounting = real => HeadsetAxes(mounting, SensorAxes(real, at)) = at
  BY RealIs, MountedRight
<1>7. LeadsOn'
  <2>1. sweep'.open => Proper(sweep'.mounting)
    BY <1>2, <1>3
  <2>2. ASSUME sweep'.mounting = real'
        PROVE  /\ sweep'.at \in sweep'.read
               /\ sweep'.read # Cells =>
                    \E d \in Cells \ sweep'.read : Dot(d, sweep'.at) >= 2 * sweep'.wasted - 3
    <3>0. mounting = real
      BY <1>3, <2>2
    <3>1. sweep'.at = at /\ sweep'.read = {at} /\ sweep'.wasted = 0
      BY <1>3, <1>6, <3>0
    <3>2. {at} \in SUBSET Cells
      OBVIOUS
    <3>3. {at} # Cells => \E d \in Cells \ {at} : Dot(d, at) >= 2 * 0 - 3
      BY <3>2, SomethingIsLeft
    <3> QED BY <3>1, <3>3
  <2> QED BY <2>1, <2>2 DEF LeadsOn
<1>8. GuidanceTypeOK' /\ Heard'
  BY <1>1, <1>5 DEF GuidanceInv, GuidanceTypeOK, Heard
<1>9. Measured(check', link'.epoch)
  BY <1>1
<1> QED BY <1>7, <1>8, <1>9 DEF GuidanceInv

\* A turn that is followed: the direction asked for is one step nearer.
LEMMA FollowsKeeps ==
  ASSUME GuidanceInv, Follows
  PROVE  GuidanceInv'
<1> DEFINE shown == HeadsetAxes(sweep.mounting, SensorAxes(real, sweep.at))
           turned(next) == Turned(sweep.at, next)
           seenAt(at) == HeadsetAxes(sweep.mounting, SensorAxes(real, at))
           moved(at, seen) == [sweep EXCEPT !.at = at, !.read = @ \cup {seen},
                                 !.wasted = IF seen \in sweep.read THEN @ + 1 ELSE 0]
<1>0. \E target \in Nearest(sweep.read, shown) : \E next \in Towards(shown, target) :
        sweep' = moved(turned(next), seenAt(turned(next)))
  BY DEF Follows
<1>10. PICK target \in Nearest(sweep.read, shown) :
        \E next \in Towards(shown, target) : sweep' = moved(turned(next), seenAt(turned(next)))
  <2> HIDE DEF shown, turned, seenAt, moved
  <2> QED BY <1>0
<1>1. PICK next \in Towards(shown, target) : sweep' = moved(turned(next), seenAt(turned(next)))
  <2> HIDE DEF shown, turned, seenAt, moved
  <2> QED BY <1>10
<1> DEFINE at == turned(next)
           seen == seenAt(at)
<1>2. /\ sweep \in SweepRecords /\ sweep.open /\ Proper(sweep.mounting)
      /\ sweep.at \in Cells /\ sweep.mounting \in [HeadDirs -> Axes] /\ sweep.read \in SUBSET Cells
      /\ sweep.wasted \in Nat
  BY DEF Follows, GuidanceInv, GuidanceTypeOK, LeadsOn, SweepRecords
<1>3. PICK motion \in HeadDirs, way \in BOOLEAN : next = [motion |-> motion, positive |-> way]
  <2> DEFINE axis == Cross(target, shown)
  <2>1. PICK i \in HeadDirs : next = [motion |-> i, positive |-> axis[i] > 0]
    BY DEF Towards
  <2>2. (axis[i] > 0) \in BOOLEAN
    OBVIOUS
  <2> HIDE DEF axis
  <2> QED BY <2>1, <2>2
<1>4. at \in Cells /\ seen \in Cells
  <2>1. at \in Cells
    BY <1>2, <1>3, TurnedIsACell
  <2> HIDE DEF at
  <2> QED BY <1>2, <2>1, SeenIsACell
<1>5. /\ sweep'.open = TRUE /\ sweep'.mounting = sweep.mounting /\ sweep'.at = at
      /\ sweep'.read = sweep.read \cup {seen}
      /\ sweep'.wasted = IF seen \in sweep.read THEN sweep.wasted + 1 ELSE 0
      /\ sweep' \in SweepRecords
  <2>1. sweep' = moved(at, seen)
    BY <1>1
  <2>2. ASSUME NEW x \in Cells, NEW y \in Cells
        PROVE  /\ moved(x, y).open = TRUE /\ moved(x, y).mounting = sweep.mounting
               /\ moved(x, y).at = x /\ moved(x, y).read = sweep.read \cup {y}
               /\ moved(x, y).wasted = IF y \in sweep.read THEN sweep.wasted + 1 ELSE 0
               /\ moved(x, y) \in SweepRecords
    <3>1. /\ moved(x, y).open = TRUE /\ moved(x, y).mounting = sweep.mounting
          /\ moved(x, y).at = x /\ moved(x, y).read = sweep.read \cup {y}
          /\ moved(x, y).wasted = IF y \in sweep.read THEN sweep.wasted + 1 ELSE 0
      BY <1>2 DEF SweepRecords
    <3>2. ASSUME NEW r \in SUBSET Cells, NEW n \in Nat
          PROVE  [sweep EXCEPT !.at = x, !.read = r, !.wasted = n] \in SweepRecords
      <4>1. \A w \in SweepRecords : [w EXCEPT !.at = x] \in SweepRecords
        BY DEF SweepRecords
      <4>2. \A w \in SweepRecords : [w EXCEPT !.read = r] \in SweepRecords
        BY DEF SweepRecords
      <4>3. \A w \in SweepRecords : [w EXCEPT !.wasted = n] \in SweepRecords
        BY DEF SweepRecords
      <4>4. [sweep EXCEPT !.at = x, !.read = r, !.wasted = n] =
              [[[sweep EXCEPT !.at = x] EXCEPT !.read = r] EXCEPT !.wasted = n]
        BY <1>2 DEF SweepRecords
      <4> QED BY <1>2, <4>1, <4>2, <4>3, <4>4
    <3>3. (IF y \in sweep.read THEN sweep.wasted + 1 ELSE 0) \in Nat
      BY <1>2
    <3> QED BY <1>2, <3>1, <3>2, <3>3
  <2> HIDE DEF at, seen, moved
  <2> QED BY <1>4, <2>1, <2>2
<1>6. ASSUME sweep.mounting = real
      PROVE  /\ at \in sweep'.read
             /\ sweep'.read # Cells =>
                  \E d \in Cells \ sweep'.read : Dot(d, at) >= 2 * sweep'.wasted - 3
  <2>1. shown = sweep.at /\ seen = at
    BY <1>2, <1>4, <1>6, MountedRight
  <2>2. CASE at \in sweep.read
    <3>1. target \in Cells /\ target \notin sweep.read
          /\ \A d \in Cells \ sweep.read : Dot(d, sweep.at) <= Dot(target, sweep.at)
      BY <2>1 DEF Nearest
    <3>2. sweep.at \in sweep.read
      BY <1>2, <1>6 DEF GuidanceInv, LeadsOn
    <3>3. PICK d \in Cells \ sweep.read : Dot(d, sweep.at) >= 2 * sweep.wasted - 3
      BY <1>2, <1>6, <3>1 DEF GuidanceInv, LeadsOn
    <3>4. Dot(target, at) = Dot(target, sweep.at) + 2
      <4>1. PICK p, q, r \in {-1, 1} : target = <<p, q, r>>
        BY <3>1, CellIs
      <4>2. PICK x, y, z \in {-1, 1} : sweep.at = <<x, y, z>>
        BY <1>2, CellIs
      <4> QED BY <2>1, <3>1, <3>2, <4>1, <4>2, TowardsGains
    <3>5. Dot(d, sweep.at) \in Int /\ Dot(target, sweep.at) \in Int
          /\ Dot(d, sweep.at) <= Dot(target, sweep.at)
      BY <1>2, <3>1, DotOfCells
    <3>6. sweep'.read = sweep.read /\ sweep'.wasted = sweep.wasted + 1
      BY <1>5, <2>1, <2>2
    <3>7. Dot(target, at) >= 2 * sweep'.wasted - 3
      BY <1>2, <3>3, <3>4, <3>5, <3>6
    <3> HIDE DEF at
    <3> QED BY <2>2, <3>1, <3>6, <3>7
  <2>3. CASE at \notin sweep.read
    <3> HIDE DEF at, seen
    <3> QED BY <1>2, <1>4, <1>5, <2>1, <2>3, SomethingIsLeft
  <2> QED BY <2>2, <2>3
<1>9. UNCHANGED <<real, mounting, link, heard, sample, check>>
  BY DEF Follows
<1>7. LeadsOn'
  <2> HIDE DEF at, seen
  <2> QED BY <1>2, <1>5, <1>6, <1>9 DEF LeadsOn
<1> HIDE DEF at, seen
<1> QED BY <1>5, <1>7, <1>9 DEF GuidanceInv, GuidanceTypeOK, Heard

\* The end of a sweep.
LEMMA ClosesKeeps ==
  ASSUME GuidanceInv, Closes
  PROVE  GuidanceInv'
<1> USE DEF Closes
<1>1. sweep' \in SweepRecords /\ sweep'.open = FALSE
  BY NoAxes DEF NoSweep, SweepRecords, Cells
<1> QED BY <1>1 DEF GuidanceInv, GuidanceTypeOK, Heard, LeadsOn

-----------------------------------------------------------------------------
(***************************************************************************)
(* Guidance: theorems.                                                     *)
(***************************************************************************)

\* The invariant is kept by every step.
LEMMA GuidanceSteps ==
  ASSUME GuidanceInv, [GuidanceNext]_guidanceVars
  PROVE  GuidanceInv'
<1>1. CASE UNCHANGED guidanceVars
  BY <1>1 DEF guidanceVars, GuidanceInv, GuidanceTypeOK, Heard, LeadsOn
<1>2. CASE GuidanceNext
  BY <1>2, PicksKeeps, ConnectsKeeps, RestartsKeeps, DisconnectsKeeps, SamplesKeeps,
     PublishesLinkKeeps, FrameKeeps, OpensKeeps, FollowsKeeps, ClosesKeeps DEF GuidanceNext
<1> QED BY <1>1, <1>2

\* The connection, what was heard of it, what was measured and what the sweep
\* has left, together: no sample, capture or result is older than the session it
\* is held against, whatever is lost and made again (tracking.rs, ui/calibration.rs).
THEOREM GuidanceIsInvariant == GuidanceSpec => []GuidanceInv
<1>1. GuidanceInit => GuidanceInv
  BY GuidanceStarts
<1>2. GuidanceInv /\ [GuidanceNext]_guidanceVars => GuidanceInv'
  BY GuidanceSteps
<1> QED BY <1>1, <1>2, PTL DEF GuidanceSpec

\* The choice, the connection, the check and the sweep keep their types: the
\* result of a motion is always a signed axis, and the directions read are of the
\* grid (mounting.rs, coverage.rs).
THEOREM GuidanceTypeCorrect == GuidanceSpec => []GuidanceTypeOK
<1>1. GuidanceInv => GuidanceTypeOK
  BY DEF GuidanceInv
<1> QED BY <1>1, GuidanceIsInvariant, PTL

\* At most one motion done wrong.
LEMMA AtMostOne ==
  ASSUME NEW D \in SUBSET HeadDirs, Cardinality(D) <= 1, NEW i \in D, NEW j \in D
  PROVE  i = j
<1> SUFFICES ASSUME i # j PROVE FALSE
  OBVIOUS
<1>0. IsFiniteSet(1 .. 3)
  BY FS_Interval, 1 \in Int, 3 \in Int
<1>1. IsFiniteSet(D)
  <2>1. D \in SUBSET (1 .. 3)
    BY DEF HeadDirs
  <2> QED BY <1>0, <2>1, FS_Subset
<1>2. IsFiniteSet({i}) /\ Cardinality({i}) = 1
  BY FS_Singleton
<1>3. Cardinality({i} \cup {j}) = 2
  BY <1>2, FS_AddElement
<1>4. Cardinality({i} \cup {j}) <= Cardinality(D)
  <2>1. {i} \cup {j} \in SUBSET D
    OBVIOUS
  <2> QED BY <1>1, <2>1, FS_Subset
<1>5. Cardinality(D) \in Nat
  BY <1>1, FS_CardinalityType
<1> QED BY <1>3, <1>4, <1>5

\* Two rotations that agree on two axes agree on the third.
LEMMA SameRotation ==
  ASSUME NEW m \in [HeadDirs -> Axes], Proper(m), NEW n \in [HeadDirs -> Axes], Proper(n),
         NEW k \in HeadDirs, \A i \in HeadDirs \ {k} : m[i] = n[i]
  PROVE  m[k] = n[k]
<1>1. /\ m[3] = Third(m[1], m[2]) /\ m[1] = Third(m[2], m[3]) /\ m[2] = Third(m[3], m[1])
      /\ n[3] = Third(n[1], n[2]) /\ n[1] = Third(n[2], n[3]) /\ n[2] = Third(n[3], n[1])
  BY RotationThird
<1>2. CASE k = 1
  <2>1. m[2] = n[2] /\ m[3] = n[3] BY <1>2 DEF HeadDirs
  <2> QED BY <1>1, <1>2, <2>1
<1>3. CASE k = 2
  <2>1. m[1] = n[1] /\ m[3] = n[3] BY <1>3 DEF HeadDirs
  <2> QED BY <1>1, <1>3, <2>1
<1>4. CASE k = 3
  <2>1. m[1] = n[1] /\ m[2] = n[2] BY <1>4 DEF HeadDirs
  <2> QED BY <1>1, <1>4, <2>1
<1> QED BY <1>2, <1>3, <1>4 DEF HeadDirs

\* However the sensor sits and under whatever mounting the motions were read, a
\* check with at most one motion done wrong resolves to how it sits or to nothing
\* (mounting.rs resolve).
THEOREM OneSlipCaught == GuidanceSpec => []OneSlipIsCaught
<1>1. ASSUME GuidanceInv
      PROVE  OneSlipIsCaught
  <2> SUFFICES ASSUME Resolves(check.found),
                      Cardinality({i \in HeadDirs : check.found[i].axis # real[i]}) <= 1
               PROVE  \A i \in HeadDirs : check.found[i].axis = real[i]
    BY DEF OneSlipIsCaught
  <2> DEFINE m == [i \in HeadDirs |-> check.found[i].axis]
             D == {i \in HeadDirs : m[i] # real[i]}
  <2>1. m \in [HeadDirs -> Axes] /\ Proper(m)
    <3>1. check.found \in [HeadDirs -> Findings]
      BY <1>1 DEF GuidanceInv, GuidanceTypeOK, Checks
    <3>2. m \in [HeadDirs -> Axes]
      BY <3>1 DEF Findings
    <3>3. Proper(m)
      BY DEF Resolves, Proper
    <3> QED BY <3>2, <3>3
  <2>2. real \in [HeadDirs -> Axes] /\ Proper(real)
    BY <1>1, RealIs
  <2>3. Cardinality(D) <= 1
    <3>1. D = {i \in HeadDirs : check.found[i].axis # real[i]}
      OBVIOUS
    <3> QED BY <3>1
  <2>4. \A i \in HeadDirs : m[i] = check.found[i].axis
    OBVIOUS
  <2> HIDE DEF m
  <2> SUFFICES ASSUME NEW k \in HeadDirs, m[k] # real[k] PROVE FALSE
    BY <2>4
  <2>5. \A i \in HeadDirs \ {k} : m[i] = real[i]
    BY <2>3, AtMostOne
  <2> QED BY <2>1, <2>2, <2>5, SameRotation
<1> QED BY <1>1, GuidanceIsInvariant, PTL

\* Once the panel has heard of the connection as it is, no result it holds was
\* measured from a pose of one session to a pose of another, for any number of
\* reconnections (ui/calibration.rs CheckSource, advance_check).
THEOREM ResultsOfOneSource == GuidanceSpec => []ResultsAreOfOneSource
<1>1. ASSUME GuidanceInv
      PROVE  ResultsAreOfOneSource
  <2> SUFFICES ASSUME heard = link, check.source = CurrentSource, NEW i \in HeadDirs,
                      ~check.found[i].whole
               PROVE  FALSE
    BY DEF ResultsAreOfOneSource
  <2>1. check.source.on /\ check.source.epoch < link.epoch
    BY <1>1 DEF GuidanceInv, Measured
  <2>2. CurrentSource = heard
    BY <2>1, OffIsALink DEF CurrentSource
  <2> QED BY <1>1, <2>1, <2>2 DEF GuidanceInv, GuidanceTypeOK, Links
<1> QED BY <1>1, GuidanceIsInvariant, PTL

\* With the mounting as the sensor sits, whatever rotation that is, no three
\* instructions that were followed lead to directions read before (coverage.rs next).
THEOREM TurnsLeadOn == GuidanceSpec => []EveryTurnLeadsOn
<1>1. ASSUME GuidanceInv
      PROVE  EveryTurnLeadsOn
  <2> SUFFICES ASSUME sweep.open, sweep.mounting = real, sweep.read # Cells
               PROVE  sweep.wasted <= 2
    BY DEF EveryTurnLeadsOn
  <2>1. sweep.at \in Cells /\ sweep.wasted \in Nat
    BY <1>1 DEF GuidanceInv, GuidanceTypeOK, SweepRecords
  <2>2. sweep.at \in sweep.read
    BY <1>1 DEF GuidanceInv, LeadsOn
  <2>3. PICK d \in Cells \ sweep.read : Dot(d, sweep.at) >= 2 * sweep.wasted - 3
    BY <1>1 DEF GuidanceInv, LeadsOn
  <2>4. Dot(d, sweep.at) \in -3 .. 3 /\ Dot(d, sweep.at) # 3
    BY <2>1, <2>2, <2>3, DotOfCells
  <2> QED BY <2>1, <2>3, <2>4
<1> QED BY <1>1, GuidanceIsInvariant, PTL

-----------------------------------------------------------------------------
(***************************************************************************)
(* Guidance: the choice of a mounting.                                     *)
(***************************************************************************)

\* Three axes of which the third is that of the other two are a rotation.
LEMMA ThreeMakeARotation ==
  ASSUME NEW a \in Axes \ {0}, NEW b \in Axes \ {0}, NEW c \in Axes \ {0}, c = Third(a, b)
  PROVE  \E n \in Rotations : n[1] = a /\ n[2] = b /\ n[3] = c
<1> DEFINE n == [i \in HeadDirs |-> IF i = 1 THEN a ELSE IF i = 2 THEN b ELSE c]
<1>1. n[1] = a /\ n[2] = b /\ n[3] = c
  BY DEF HeadDirs
<1>2. n \in [HeadDirs -> Axes \ {0}]
  OBVIOUS
<1> HIDE DEF n
<1>3. RightHanded(n)
  BY <1>1, CrossOfUnits DEF RightHanded
<1>4. Proper(n)
  BY <1>2, <1>3 DEF Proper
<1> QED BY <1>1, <1>2, <1>4 DEF Rotations

\* Two axes that differ leave one rotation.
LEMMA TwoLeaveOne ==
  ASSUME NEW a \in Axes \ {0}, NEW b \in Axes \ {0}, Abs(a) # Abs(b)
  PROVE  Third(a, b) \in Axes \ {0}
<1>1. CASE a = 1 BY <1>1, AbsIs DEF Third, Axes
<1>2. CASE a = -1 BY <1>2, AbsIs DEF Third, Axes
<1>3. CASE a = 2 BY <1>3, AbsIs DEF Third, Axes
<1>4. CASE a = -2 BY <1>4, AbsIs DEF Third, Axes
<1>5. CASE a = 3 BY <1>5, AbsIs DEF Third, Axes
<1>6. CASE a = -3 BY <1>6, AbsIs DEF Third, Axes
<1> QED BY <1>1, <1>2, <1>3, <1>4, <1>5, <1>6 DEF Axes

\* Any two axes that differ are the axes of some rotation.
LEMMA TwoMakeARotation ==
  ASSUME NEW a \in Axes \ {0}, NEW b \in Axes \ {0}, Abs(a) # Abs(b)
  PROVE  /\ \E n \in Rotations : n[1] = a /\ n[2] = b
         /\ \E n \in Rotations : n[2] = a /\ n[3] = b
         /\ \E n \in Rotations : n[3] = a /\ n[1] = b
<1> DEFINE c == Third(a, b)
<1>1. c \in Axes \ {0}
  BY TwoLeaveOne
<1>2. a = Third(b, c) /\ b = Third(c, a)
  BY <1>1, ThirdTurns
<1> HIDE DEF c
<1>3. \E n \in Rotations : n[1] = a /\ n[2] = b /\ n[3] = c
  BY <1>1, ThreeMakeARotation DEF c
<1>4. \E n \in Rotations : n[1] = c /\ n[2] = a /\ n[3] = b
  BY <1>1, <1>2, ThreeMakeARotation
<1>5. \E n \in Rotations : n[1] = b /\ n[2] = c /\ n[3] = a
  BY <1>1, <1>2, ThreeMakeARotation
<1> QED BY <1>3, <1>4, <1>5

\* So is any one.
LEMMA OneMakesARotation ==
  ASSUME NEW a \in Axes \ {0}
  PROVE  /\ \E n \in Rotations : n[1] = a
         /\ \E n \in Rotations : n[2] = a
         /\ \E n \in Rotations : n[3] = a
<1>1. PICK b \in Axes \ {0} : Abs(a) # Abs(b)
  <2>1. Abs(1) = 1 /\ Abs(2) = 2 /\ 1 \in Axes \ {0} /\ 2 \in Axes \ {0}
    BY AbsIs DEF Axes
  <2> QED BY <2>1
<1> QED BY <1>1, TwoMakeARotation

\* The rule of the choice leaves a rotation possible.
LEMMA CompletesToARotation ==
  ASSUME NEW m \in [HeadDirs -> Axes], CanComplete(m)
  PROVE  OfARotation(m)
<1>1. m[1] \in Axes /\ m[2] \in Axes /\ m[3] \in Axes
  BY DEF HeadDirs
<1>2. /\ m[1] # 0 => Abs(m[1]) # Abs(m[2]) /\ Abs(m[1]) # Abs(m[3])
      /\ m[2] # 0 => Abs(m[2]) # Abs(m[3]) /\ Abs(m[2]) # Abs(m[1])
      /\ m[3] # 0 => Abs(m[3]) # Abs(m[1]) /\ Abs(m[3]) # Abs(m[2])
  BY DEF CanComplete, Distinct, HeadDirs
<1>3. ASSUME NEW n \in Rotations,
             m[1] # 0 => m[1] = n[1], m[2] # 0 => m[2] = n[2], m[3] # 0 => m[3] = n[3]
      PROVE  OfARotation(m)
  BY <1>3 DEF OfARotation, HeadDirs
<1>4. CASE m[1] # 0 /\ m[2] # 0 /\ m[3] # 0
  <2>1. \A i \in HeadDirs : m[i] # 0
    BY <1>4 DEF HeadDirs
  <2>2. Proper(m)
    BY <2>1 DEF CanComplete, Proper
  <2>3. m \in Rotations
    BY <2>1, <2>2 DEF Rotations
  <2> QED BY <1>3, <2>3
<1>5. CASE m[3] = 0 /\ m[1] # 0 /\ m[2] # 0
  BY <1>1, <1>2, <1>3, <1>5, TwoMakeARotation
<1>6. CASE m[1] = 0 /\ m[2] # 0 /\ m[3] # 0
  BY <1>1, <1>2, <1>3, <1>6, TwoMakeARotation
<1>7. CASE m[2] = 0 /\ m[1] # 0 /\ m[3] # 0
  BY <1>1, <1>2, <1>3, <1>7, TwoMakeARotation
<1>8. CASE m[2] = 0 /\ m[3] = 0 /\ m[1] # 0
  BY <1>1, <1>3, <1>8, OneMakesARotation
<1>9. CASE m[1] = 0 /\ m[3] = 0 /\ m[2] # 0
  BY <1>1, <1>3, <1>9, OneMakesARotation
<1>10. CASE m[1] = 0 /\ m[2] = 0 /\ m[3] # 0
  BY <1>1, <1>3, <1>10, OneMakesARotation
<1>11. CASE m[1] = 0 /\ m[2] = 0 /\ m[3] = 0
  <2>1. PICK n \in Rotations : n[1] = 1
    <3>1. 1 \in Axes \ {0}
      BY DEF Axes
    <3> QED BY <3>1, OneMakesARotation
  <2> QED BY <1>3, <1>11, <2>1
<1> QED BY <1>4, <1>5, <1>6, <1>7, <1>8, <1>9, <1>10, <1>11

\* Nothing chosen is of any rotation.
LEMMA NothingIsOfARotation == OfARotation(<<0, 0, 0>>)
<1>1. \A i \in HeadDirs : <<0, 0, 0>>[i] = 0
  BY DEF HeadDirs
<1> QED BY <1>1, NoAxes, CompletesToARotation DEF CanComplete, Distinct, HeadDirs

\* Only a pick and a check taken over change the mounting.
LEMMA ChoiceSteps ==
  ASSUME GuidanceInv, [GuidanceNext]_guidanceVars,
         OfARotation(mounting) \/ SetsAnAxis(mounting, mounting')
  PROVE  OfARotation(mounting')
<1>1. CASE UNCHANGED mounting
  BY <1>1 DEF OfARotation, SetsAnAxis
<1>2. CASE Picks
  <2>1. CASE mounting' = <<0, 0, 0>>
    BY <2>1, NothingIsOfARotation
  <2>2. ASSUME NEW i \in HeadDirs, NEW a \in Axes, AllowsAxis(mounting, i, a),
               mounting' = [mounting EXCEPT ![i] = a]
        PROVE  OfARotation(mounting')
    <3>1. mounting \in [HeadDirs -> Axes]
      BY DEF GuidanceInv, GuidanceTypeOK
    <3>2. CASE a = 0
      <4>1. \A j \in HeadDirs : mounting'[j] \in {0, mounting[j]}
        BY <2>2, <3>1, <3>2
      <4>2. OfARotation(mounting)
        BY <4>1 DEF SetsAnAxis
      <4> QED BY <4>1, <4>2 DEF OfARotation
    <3>3. CASE a # 0
      <4>1. mounting' \in [HeadDirs -> Axes] /\ CanComplete(mounting')
        BY <2>2, <3>1, <3>3 DEF AllowsAxis
      <4> QED BY <4>1, CompletesToARotation
    <3> QED BY <3>2, <3>3
  <2> QED BY <1>2, <2>1, <2>2 DEF Picks
<1>3. CASE Frame
  <2>1. CASE mounting' # mounting
    <3>1. PICK c \in Advanced :
            Resolves(c.found) /\ mounting' = [i \in HeadDirs |-> c.found[i].axis]
      BY <1>3, <2>1 DEF Frame
    <3>2. c \in Checks
      BY <3>1, AdvancedIs
    <3>3. mounting' \in [HeadDirs -> Axes]
      BY <3>1, <3>2 DEF Checks, Findings
    <3>4. CanComplete(mounting')
      BY <3>1 DEF Resolves, CanComplete
    <3> QED BY <3>3, <3>4, CompletesToARotation
  <2> QED BY <1>1, <2>1
<1>4. CASE ~Picks /\ ~Frame
  <2>1. UNCHANGED mounting
    BY <1>4 DEF GuidanceNext, guidanceVars, Connects, Restarts, Disconnects, Samples,
       PublishesLink, Opens, Follows, Closes
  <2> QED BY <1>1, <2>1
<1> QED BY <1>2, <1>3, <1>4

\* Whatever mounting the preferences held, setting an axis leaves those of some
\* rotation, and a choice that is of one stays so, whatever is picked, cleared
\* or taken from a check (mounting.rs allows_axis, can_complete).
THEOREM ChoicesAreOfARotation == GuidanceSpec => ChoiceIsOfARotation
<1>1. GuidanceInv /\ [GuidanceNext]_guidanceVars =>
        [OfARotation(mounting) \/ SetsAnAxis(mounting, mounting') =>
           OfARotation(mounting')]_mounting
  BY ChoiceSteps
<1> QED BY <1>1, GuidanceIsInvariant, PTL DEF GuidanceSpec, ChoiceIsOfARotation

=============================================================================
