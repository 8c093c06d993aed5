----------------------------- MODULE PoseOutput -----------------------------
(***************************************************************************)
(* The output path of one acquisition run: the worker task publishes       *)
(* samples into the shared state (publish_batch), then calls emit, which   *)
(* copies the latest pose under the lock, releases it, offers the copy to  *)
(* the PoseBridge OSC sender, takes the lock again and offers the same     *)
(* copy to the Dolby sender.  A control thread may recenter Dolby between  *)
(* any two of those steps.  Both senders drop repeated and stale samples,  *)
(* limit their rate with a grid of slots, and arm a deadline when a sample *)
(* came too early or the socket refused it.                                *)
(*                                                                         *)
(* Time is counted in ticks.  A session number stands for the identity     *)
(* (instance_id, session_id, reference_epoch): within one run all three    *)
(* change together, in begin_session.                                      *)
(***************************************************************************)
EXTENDS Integers, FiniteSets, FiniteSetsExt

CONSTANTS
  StaleAfter,     \* STALE_AFTER, in ticks
  OscInterval,    \* 1 / osc.max_rate_hz, in ticks
  DolbyInterval,  \* 1 / dolby_osc.max_rate_hz, in ticks
  MaxTime,        \* bound of the clock
  MaxSession,     \* bound of the sessions of the run
  MaxSample       \* bound of the samples of a session

ASSUME ConstantsAssumption ==
  /\ StaleAfter \in Nat \ {0}
  /\ OscInterval \in Nat \ {0}
  /\ DolbyInterval \in Nat \ {0}
  /\ MaxTime \in Nat
  /\ MaxSession \in Nat
  /\ MaxSample \in Nat

NoTime == -1
NoMark == [session |-> 0, seq |-> 0]
NoCopy == [mark |-> NoMark, fresh |-> FALSE, at |-> 0]

VARIABLES
  now,        \* the monotonic clock
  conn,       \* status.state
  session,    \* status.session_id, 0 before the first session
  samples,    \* status.session_samples: the sequence of the latest sample
  received,   \* last_pose: when the latest sample was received; there is a pose
              \* exactly when there is such a time
  started,    \* when pump entered this session
  pc,         \* where the worker is
  wake,       \* the output deadline its select waits for
  copy,       \* the pose emit copied out of the lock
  osc,        \* the PoseBridge sender (owned by the worker)
  dolby,      \* the Dolby sender (in the shared state)
  oscSent,    \* history: the PoseBridge packets accepted by the socket
  dolbySent,  \* history: the Dolby packets accepted by the socket
  forward     \* history: the last recenter of this session

shared == <<conn, session, samples, received, started>>
history == <<oscSent, dolbySent, forward>>
vars == <<now, shared, pc, wake, copy, osc, dolby, history>>

Times == 0 .. MaxTime
Marks == [session : 0 .. MaxSession, seq : 0 .. MaxSample]
MaybeTime == Nat \cup {NoTime}
OscSenders ==
  [slot : MaybeTime, pending : MaybeTime, key : Marks, tx : Nat,
   coalesced : Nat]
DolbySenders ==
  [active : BOOLEAN, slot : MaybeTime, pending : MaybeTime, key : Marks,
   sent : Nat, coalesced : Nat, identity : 0 .. MaxSession, ref : Marks,
   after : 0 .. MaxSample]

Copies == [mark : Marks, fresh : BOOLEAN, at : Times]
OscPackets == [mark : Marks, tx : Nat, at : Times]
DolbyPackets ==
  [mark : Marks, tx : Nat, at : Times, ref : Marks, forward : Marks]

TypeOK ==
  /\ now \in Times
  /\ conn \in {"Connecting", "Active", "Stale", "Reconnecting", "Stopped"}
  /\ session \in 0 .. MaxSession
  /\ samples \in 0 .. MaxSample
  /\ received \in Times \cup {NoTime}
  /\ started \in Times
  /\ pc \in {"open", "select", "emit", "osc", "dolby", "retire", "done"}
  /\ wake \in MaybeTime
  /\ copy \in Copies
  /\ osc \in OscSenders
  /\ dolby \in DolbySenders
  /\ oscSent \subseteq OscPackets
  /\ dolbySent \subseteq DolbyPackets
  /\ forward \in Marks

Init ==
  /\ now = 0
  /\ conn = "Connecting"
  /\ session = 0 /\ samples = 0
  /\ received = NoTime /\ started = 0
  /\ pc = "open" /\ wake = NoTime
  /\ copy = NoCopy
  /\ osc = [slot |-> NoTime, pending |-> NoTime, key |-> NoMark, tx |-> 0,
            coalesced |-> 0]
  /\ \E active \in BOOLEAN :
       dolby = [active |-> active, slot |-> NoTime, pending |-> NoTime,
                key |-> NoMark, sent |-> 0, coalesced |-> 0, identity |-> 0,
                ref |-> NoMark, after |-> 0]
  /\ oscSent = {} /\ dolbySent = {} /\ forward = NoMark

-----------------------------------------------------------------------------
(***************************************************************************)
(* Operators shared by the actions.                                        *)
(***************************************************************************)

\* A pose is fresh while the state still names a live stream and the sample
\* is younger than STALE_AFTER.
Fresh ==
  /\ conn \in {"Active", "Stale"}
  /\ received # NoTime
  /\ now - received < StaleAfter

Mark == [session |-> session, seq |-> samples]

\* The grid of slots: the slot after an accepted packet is one interval after
\* the previous slot, or after the send when the grid has fallen behind.
NextSlot(slot, at, interval) ==
  IF slot # NoTime /\ slot + interval > at THEN slot + interval
  ELSE at + interval

\* Faulty variant of Skipped: the sample being sent is counted as well.
SkippedAndSent(key, mark) ==
  mark.seq - (IF key.session = mark.session THEN key.seq ELSE 0)

\* Samples of this session that no packet will carry once `mark` is sent.
Skipped(key, mark) ==
  mark.seq - (IF key.session = mark.session THEN key.seq ELSE 0) - 1

\* output_deadline: the earlier of the two armed deadlines.
EarlierOf(a, b) ==
  IF a = NoTime THEN b ELSE IF b = NoTime \/ a <= b THEN a ELSE b

\* clear_reference of the Dolby sender.
ClearReference(d) == [d EXCEPT !.ref = NoMark, !.after = 0, !.pending = NoTime]

-----------------------------------------------------------------------------
(***************************************************************************)
(* The worker: run and pump.                                               *)
(***************************************************************************)

\* A connection is open: begin_session clears what belonged to the previous
\* session and gives the new one an identity of its own.
BeginSession ==
  /\ pc = "open" /\ session < MaxSession
  /\ session' = session + 1
  /\ samples' = 0 /\ received' = NoTime
  /\ conn' = "Connecting"
  /\ started' = now
  /\ dolby' = IF dolby.active THEN ClearReference(dolby) ELSE dolby
  /\ wake' = EarlierOf(osc.pending, dolby'.pending)
  /\ pc' = "select"
  /\ forward' = NoMark
  /\ UNCHANGED <<now, copy, osc, oscSent, dolbySent>>

\* A read completed: its k poses are published as one batch, and emit follows.
Publish(k) ==
  /\ pc = "select" /\ samples + k <= MaxSample
  /\ samples' = samples + k
  /\ IF k > 0
       THEN conn' = "Active" /\ received' = now
       ELSE UNCHANGED <<conn, received>>
  /\ pc' = "emit" /\ wake' = NoTime
  /\ UNCHANGED <<now, session, started, copy, osc, dolby, history>>

\* The output deadline passed.
DeadlineReached ==
  /\ pc = "select" /\ wake # NoTime /\ wake <= now
  /\ pc' = "emit" /\ wake' = NoTime
  /\ UNCHANGED <<now, shared, copy, osc, dolby, history>>

\* The health tick of pump marks a stream without a fresh pose as stale.
MarkStale ==
  /\ pc = "select" /\ now - started >= StaleAfter
  /\ ~Fresh
  /\ conn' = "Stale"
  /\ wake' = EarlierOf(osc.pending, dolby.pending)
  /\ UNCHANGED <<now, session, samples, received, started, pc, copy,
                 osc, dolby, history>>

\* The connection is lost: the run keeps its senders and opens a new one.
Disconnect ==
  /\ pc = "select"
  /\ conn' = "Reconnecting"
  /\ pc' = "open" /\ wake' = NoTime
  /\ UNCHANGED <<now, session, samples, received, started, copy,
                 osc, dolby, history>>

\* The run is cancelled; the launch epilogue publishes the state first and
\* retires the Dolby sender under a second lock.
Cancel ==
  /\ pc \in {"open", "select"}
  /\ conn' = "Stopped"
  /\ pc' = "retire" /\ wake' = NoTime
  /\ UNCHANGED <<now, session, samples, received, started, copy,
                 osc, dolby, history>>

RetireDolby ==
  /\ pc = "retire"
  /\ dolby' = [ClearReference(dolby) EXCEPT !.active = FALSE]
  /\ pc' = "done"
  /\ UNCHANGED <<now, shared, wake, copy, osc, history>>

-----------------------------------------------------------------------------
(***************************************************************************)
(* emit.                                                                   *)
(***************************************************************************)

\* First lock: the pose, its freshness and the time are read together.
CopyPose ==
  /\ pc = "emit"
  /\ copy' = [mark |-> IF received = NoTime THEN NoMark ELSE Mark,
               fresh |-> Fresh, at |-> now]
  /\ pc' = "osc"
  /\ UNCHANGED <<now, shared, wake, osc, dolby, history>>

OscDuplicate == copy.mark = NoMark \/ ~copy.fresh \/ osc.key = copy.mark
\* Faulty variant of OscEarly: the rate limit forgets slots of earlier sessions.
OscEarlyInSession == osc.slot > copy.at /\ osc.key.session = copy.mark.session
OscEarly == osc.slot > copy.at
OscDone == pc' = "dolby" /\ UNCHANGED <<now, shared, wake, copy, dolby,
                                        dolbySent, forward>>

\* Faulty variant of OscSkip: the deadline of the dropped sample stays armed.
OscSkipStillArmed ==
  /\ pc = "osc" /\ OscDuplicate
  /\ OscDone /\ UNCHANGED <<osc, oscSent>>

\* No pose, a stale one, or one already sent: nothing is left to wait for.
OscSkip ==
  /\ pc = "osc" /\ OscDuplicate
  /\ osc' = [osc EXCEPT !.pending = NoTime]
  /\ OscDone /\ UNCHANGED oscSent

\* A new sample before its slot waits for it.
OscWait ==
  /\ pc = "osc" /\ ~OscDuplicate /\ OscEarly
  /\ osc' = [osc EXCEPT !.pending = osc.slot]
  /\ OscDone /\ UNCHANGED oscSent

\* The socket took the packet.
OscAccepted ==
  /\ pc = "osc" /\ ~OscDuplicate /\ ~OscEarly
  /\ osc' = [osc EXCEPT !.tx = @ + 1, !.key = copy.mark, !.pending = NoTime,
                        !.coalesced = @ + Skipped(osc.key, copy.mark),
                        !.slot = NextSlot(osc.slot, copy.at, OscInterval)]
  /\ oscSent' = oscSent \cup
       {[mark |-> copy.mark, tx |-> osc.tx + 1, at |-> copy.at]}
  /\ OscDone

\* The socket would block or nobody listens: the sample waits one interval.
\* A hard error takes the same slot, but emit disarms the deadline.
OscRefused(hard) ==
  /\ pc = "osc" /\ ~OscDuplicate /\ ~OscEarly
  /\ osc' = [osc EXCEPT !.slot = copy.at + OscInterval,
                        !.pending = IF hard THEN NoTime
                                    ELSE copy.at + OscInterval]
  /\ OscDone /\ UNCHANGED oscSent

\* The packet could not be encoded: no slot is taken.
OscUnencodable ==
  /\ pc = "osc" /\ ~OscDuplicate /\ ~OscEarly
  /\ osc' = [osc EXCEPT !.pending = NoTime]
  /\ OscDone /\ UNCHANGED oscSent

\* The Dolby sender as the second lock finds it: a reference of another
\* identity is dropped before anything else.
Current ==
  IF dolby.identity = copy.mark.session THEN dolby
  ELSE [ClearReference(dolby) EXCEPT !.identity = copy.mark.session]

DolbyUnwanted(d) ==
  \/ ~copy.fresh
  \/ d.key = copy.mark
  \/ copy.mark.seq <= d.after
DolbyEarly(d) == d.slot > copy.at
DolbyReady == pc = "dolby" /\ dolby.active /\ copy.mark # NoMark

DolbyDone ==
  /\ pc' = "select"
  /\ wake' = EarlierOf(osc.pending, dolby'.pending)
  /\ copy' = NoCopy
  /\ UNCHANGED <<now, shared, osc, oscSent, forward>>

\* No Dolby output, or no pose: only a deadline is disarmed.
DolbyAbsent ==
  /\ pc = "dolby" /\ (~dolby.active \/ copy.mark = NoMark)
  /\ dolby' = [dolby EXCEPT !.pending = NoTime]
  /\ DolbyDone /\ UNCHANGED dolbySent

DolbySkip ==
  /\ DolbyReady /\ DolbyUnwanted(Current)
  /\ dolby' = [Current EXCEPT !.pending = NoTime]
  /\ DolbyDone /\ UNCHANGED dolbySent

DolbyWait ==
  /\ DolbyReady /\ ~DolbyUnwanted(Current) /\ DolbyEarly(Current)
  /\ dolby' = [Current EXCEPT !.pending = Current.slot]
  /\ DolbyDone /\ UNCHANGED dolbySent

DolbyAccepted ==
  /\ DolbyReady /\ ~DolbyUnwanted(Current) /\ ~DolbyEarly(Current)
  /\ dolby' = [Current EXCEPT
       !.sent = @ + 1, !.key = copy.mark, !.pending = NoTime,
       !.coalesced = @ + Skipped(Current.key, copy.mark),
       !.slot = NextSlot(Current.slot, copy.at, DolbyInterval)]
  /\ dolbySent' = dolbySent \cup
       {[mark |-> copy.mark, tx |-> Current.sent + 1, at |-> copy.at,
         ref |-> Current.ref, forward |-> forward]}
  /\ DolbyDone

DolbyRefused ==
  /\ DolbyReady /\ ~DolbyUnwanted(Current) /\ ~DolbyEarly(Current)
  /\ dolby' = [Current EXCEPT !.slot = copy.at + DolbyInterval,
                              !.pending = copy.at + DolbyInterval]
  /\ DolbyDone /\ UNCHANGED dolbySent

-----------------------------------------------------------------------------
(***************************************************************************)
(* The control thread and the clock.                                       *)
(***************************************************************************)

\* Faulty variant of Recenter: the sample it was taken from may still be sent.
RecenterAtOnce ==
  /\ Fresh /\ dolby.active
  /\ dolby' = [dolby EXCEPT !.identity = session, !.ref = Mark,
                            !.after = 0, !.pending = NoTime]
  /\ forward' = Mark
  /\ UNCHANGED <<now, shared, pc, wake, copy, osc, oscSent, dolbySent>>

\* recenter_dolby: one critical section; the fresh pose becomes the forward
\* reference, which only samples after it may use.
Recenter ==
  /\ Fresh /\ dolby.active
  /\ dolby' = [dolby EXCEPT !.identity = session, !.ref = Mark,
                            !.after = samples, !.pending = NoTime]
  /\ forward' = Mark
  /\ UNCHANGED <<now, shared, pc, wake, copy, osc, oscSent, dolbySent>>

Tick ==
  /\ now < MaxTime
  /\ now' = now + 1
  /\ UNCHANGED <<shared, pc, wake, copy, osc, dolby, history>>

Emit ==
  \/ CopyPose
  \/ OscSkip \/ OscWait \/ OscAccepted \/ OscUnencodable
  \/ \E hard \in BOOLEAN : OscRefused(hard)
  \/ DolbyAbsent \/ DolbySkip \/ DolbyWait \/ DolbyAccepted \/ DolbyRefused

Next ==
  \/ BeginSession
  \/ \E k \in 0 .. 2 : Publish(k)
  \/ DeadlineReached \/ MarkStale \/ Disconnect
  \/ Cancel \/ RetireDolby
  \/ Emit
  \/ Recenter
  \/ Tick

Spec == Init /\ [][Next]_vars

\* The worker task keeps running and time passes; nothing is assumed of the
\* device, of the socket or of the control thread.
FairSpec == Spec /\ WF_vars(DeadlineReached) /\ WF_vars(Emit) /\ WF_vars(Tick)

-----------------------------------------------------------------------------
(***************************************************************************)
(* Properties.                                                             *)
(***************************************************************************)

\* Among any n + 1 consecutive packets of a sender, the last is sent more
\* than n - 1 intervals after the first: catching up after a late send never
\* turns into a burst of three packets within one interval, whatever mixture
\* of early samples, refusals and reconnections came before.
RateLimited(sent, interval) ==
  \A p, q \in sent :
    p.tx < q.tx => q.at - p.at > (q.tx - p.tx - 1) * interval
OscRateLimited == RateLimited(oscSent, OscInterval)
DolbyRateLimited == RateLimited(dolbySent, DolbyInterval)
OutputsRateLimited == OscRateLimited /\ DolbyRateLimited

\* Packets carry samples in the order they were published and none twice:
\* a retry after a refusal or a deadline never repeats a delivered sample.
Before(a, b) ==
  a.session < b.session \/ (a.session = b.session /\ a.seq < b.seq)
InOrder(sent) == \A p, q \in sent : p.tx < q.tx => Before(p.mark, q.mark)
SamplesInOrder == InOrder(oscSent) /\ InOrder(dolbySent)

\* Every sample up to the last one sent in its session is either sent or
\* counted as coalesced, over reconnections too: the counters the status
\* reports add up to what the device produced.
LastSent(sent, s) ==
  Max({0} \cup {p.mark.seq : p \in {x \in sent : x.mark.session = s}})
Covered(sent) ==
  MapThenSumSet(LAMBDA s : LastSent(sent, s), 1 .. MaxSession)
SamplesAccounted ==
  /\ osc.tx + osc.coalesced = Covered(oscSent)
  /\ dolby.sent + dolby.coalesced = Covered(dolbySent)

\* A Dolby packet is relative to the latest recenter of its session, and only
\* samples received after that recenter are: a recenter that falls between
\* the copy of a pose and its Dolby send never mixes the two.
ForwardTakesEffectOnNextSample ==
  \A p \in dolbySent :
    /\ p.ref = p.forward
    /\ p.ref # NoMark => p.mark.session = p.ref.session /\ p.mark.seq > p.ref.seq

\* The reference that the status reports as set belongs to the session in
\* progress, from the first instant of that session on.
ReferenceOfThisSession == dolby.ref # NoMark => dolby.ref.session = session

\* What a recenter promises: the status shows a reference of this session, and
\* the packets are relative to it from the next sample on.
ReferenceIsSound == ForwardTakesEffectOnNextSample /\ ReferenceOfThisSession

\* While the worker waits, its timer covers every armed deadline: no armed
\* sample can be slept over.
TimerCoversDeadlines ==
  pc = "select" =>
    \A deadline \in {osc.pending, dolby.pending} \ {NoTime} :
      wake # NoTime /\ wake <= deadline

\* An armed deadline is served: the sample is sent, takes a later slot, or is
\* given up because it grew stale; the worker never spins on a past deadline.
DeadlinesServed ==
  \A d \in Times :
    /\ (osc.pending = d /\ pc = "select")
         ~> (osc.pending # d \/ pc \in {"open", "retire", "done"})
    /\ (dolby.pending = d /\ pc = "select")
         ~> (dolby.pending # d \/ pc \in {"open", "retire", "done"})
=============================================================================
