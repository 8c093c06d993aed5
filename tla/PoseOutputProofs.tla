-------------------------- MODULE PoseOutputProofs --------------------------
(***************************************************************************)
(* Proofs about PoseOutput, for every value of its constants, and about    *)
(* the Telemetry that goes to the same receivers.                          *)
(***************************************************************************)
EXTENDS PoseOutput, Telemetry, TLAPS, FiniteSetTheorems, WellFoundedInduction

-----------------------------------------------------------------------------
(***************************************************************************)
(* The inductive invariant.                                                *)
(***************************************************************************)

UpTo(a, b) ==
  a.session < b.session \/ (a.session = b.session /\ a.seq <= b.seq)

\* The senders never run ahead of the published samples, and the pose emit
\* works on is still the latest one: only the worker itself publishes.
Position ==
  /\ pc \in {"select", "emit", "osc", "dolby"} => session >= 1
  /\ received # NoTime => samples >= 1
  /\ UpTo(osc.key, Mark)
  /\ UpTo(dolby.key, Mark)
  /\ pc \in {"osc", "dolby"} => copy.mark = (IF received = NoTime THEN NoMark ELSE Mark)

\* The next slot lies beyond every packet already sent, one interval further
\* for each packet that followed it.
Paced(sent, slot, count, interval) ==
  \A p \in sent : /\ p.tx <= count
                  /\ slot > p.at + (count - p.tx) * interval
OscPaced == Paced(oscSent, osc.slot, osc.tx, OscInterval)
DolbyPaced == Paced(dolbySent, dolby.slot, dolby.sent, DolbyInterval)

KeyIsLast(sent, key) == \A p \in sent : UpTo(p.mark, key)
Ordered ==
  /\ KeyIsLast(oscSent, osc.key)
  /\ KeyIsLast(dolbySent, dolby.key)

\* The Dolby reference is the last recenter of the session in progress, and
\* reference_after is its sequence.
ReferenceIsForward ==
  /\ dolby.active => dolby.ref = forward
  /\ ~dolby.active => dolby.ref = NoMark
  /\ dolby.ref # NoMark =>
       /\ dolby.ref.session = session
       /\ dolby.identity = session
       /\ dolby.after = dolby.ref.seq

-----------------------------------------------------------------------------
(***************************************************************************)
(* Arithmetic of the slots.                                                *)
(***************************************************************************)

LEMMA OneMoreInterval ==
  ASSUME NEW n \in Nat, NEW k \in Nat, k <= n, NEW interval \in Nat
  PROVE  /\ (n + 1 - k) * interval = (n - k) * interval + interval
         /\ (n + 1 - k - 1) * interval = (n - k) * interval
         /\ (n - k) * interval \in Nat
<1>1. n - k \in Nat /\ n + 1 - k = (n - k) + 1 /\ n + 1 - k - 1 = n - k
  OBVIOUS
<1>2. ASSUME NEW d \in Nat
      PROVE  (d + 1) * interval = d * interval + interval /\ d * interval \in Nat
  OBVIOUS
<1> QED BY <1>1, <1>2

LEMMA NextSlotBeyond ==
  ASSUME NEW slot \in Nat \cup {NoTime}, NEW at \in Nat, slot <= at,
         NEW interval \in Nat \ {0}
  PROVE  /\ NextSlot(slot, at, interval) \in Nat
         /\ NextSlot(slot, at, interval) > at
         /\ NextSlot(slot, at, interval) >= slot + interval
  BY DEF NextSlot, NoTime

-----------------------------------------------------------------------------
(***************************************************************************)
(* Type correctness, together with the position of the senders, which it   *)
(* needs: Skipped is a natural number only because a sender never repeats  *)
(* a sample nor runs ahead.                                                *)
(***************************************************************************)

LEMMA SkippedNat ==
  ASSUME NEW key \in Marks, NEW mark \in Marks, UpTo(key, mark), key # mark,
         mark.seq >= 1
  PROVE  Skipped(key, mark) \in Nat
<1>1. CASE key.session = mark.session
  <2>1. key.seq # mark.seq
    BY <1>1 DEF Marks
  <2> QED BY <1>1, <2>1, ConstantsAssumption DEF UpTo, Skipped, Marks
<1>2. CASE key.session # mark.session
  BY <1>2, ConstantsAssumption DEF Skipped, Marks
<1> QED BY <1>1, <1>2

LEMMA CurrentType ==
  ASSUME TypeOK
  PROVE  /\ Current \in DolbySenders
         /\ Current.active = dolby.active
         /\ Current.slot = dolby.slot
         /\ Current.key = dolby.key
         /\ Current.sent = dolby.sent
         /\ Current.coalesced = dolby.coalesced
         /\ copy.mark.session = dolby.identity => Current = dolby
         /\ copy.mark.session # dolby.identity =>
              Current.ref = NoMark /\ Current.after = 0
         /\ Current.identity = copy.mark.session
<1> USE DEF NoTime, MaybeTime, DolbySenders, TypeOK
<1>1. NoMark \in Marks /\ 0 \in 0 .. MaxSample
  BY ConstantsAssumption DEF Marks, NoMark
<1>2. copy.mark.session \in 0 .. MaxSession
  BY DEF Marks, Copies
<1>3. CASE dolby.identity = copy.mark.session
  BY <1>2, <1>3 DEF Current
<1>4. CASE dolby.identity # copy.mark.session
  <2> DEFINE d == [dolby EXCEPT !.ref = NoMark, !.after = 0,
                     !.pending = NoTime, !.identity = copy.mark.session]
  <2>1. Current = d
    BY <1>4 DEF Current, ClearReference
  <2>2. d \in DolbySenders
    BY <1>1, <1>2
  <2> QED BY <1>4, <2>1, <2>2
<1> QED BY <1>3, <1>4

TypedPosition == TypeOK /\ Position

LEMMA ClearReferenceType ==
  ASSUME NEW d \in DolbySenders
  PROVE  /\ ClearReference(d) \in DolbySenders
         /\ ClearReference(d).key = d.key
         /\ ClearReference(d).slot = d.slot
         /\ ClearReference(d).sent = d.sent
         /\ ClearReference(d).ref = NoMark
<1>1. NoMark \in Marks /\ 0 \in 0 .. MaxSample
  BY ConstantsAssumption DEF Marks, NoMark
<1> QED BY <1>1 DEF ClearReference, DolbySenders, MaybeTime

LEMMA TypedPositionInit == Init => TypedPosition
<1> SUFFICES ASSUME Init PROVE TypedPosition
  OBVIOUS
<1> USE ConstantsAssumption DEF Init, NoMark, NoTime
<1>1. NoMark \in Marks
  BY DEF Marks
<1>2. copy \in Copies
  BY <1>1 DEF NoCopy, Copies, Times
<1>3. osc \in OscSenders
  BY <1>1 DEF OscSenders, MaybeTime
<1>4. dolby \in DolbySenders /\ dolby.key = NoMark
  BY <1>1 DEF DolbySenders, MaybeTime
<1>5. TypeOK
  BY <1>1, <1>2, <1>3, <1>4 DEF TypeOK, Times, MaybeTime
<1>6. Position
  BY <1>4 DEF Position, UpTo, Mark
<1> QED BY <1>5, <1>6 DEF TypedPosition

LEMMA MarkType == ASSUME TypeOK PROVE Mark \in Marks
  BY DEF TypeOK, Mark, Marks

LEMMA EarlierOfType ==
  ASSUME NEW a \in MaybeTime, NEW b \in MaybeTime
  PROVE  EarlierOf(a, b) \in MaybeTime
  BY DEF EarlierOf

LEMMA TypedPositionStep == TypedPosition /\ [Next]_vars => TypedPosition'
<1> SUFFICES ASSUME TypedPosition, [Next]_vars PROVE TypedPosition'
  OBVIOUS
<1> USE DEF TypedPosition
<1>1. TypeOK /\ Position
  OBVIOUS
<1>2. NoMark \in Marks /\ NoTime \in MaybeTime /\ Mark \in Marks
  BY <1>1, MarkType, ConstantsAssumption DEF Marks, NoMark, MaybeTime
<1>3. CASE BeginSession
  <2>1. dolby' \in DolbySenders /\ dolby'.key = dolby.key
    <3>1. CASE dolby.active
      BY <1>1, <1>3, <3>1, ClearReferenceType DEF BeginSession, TypeOK
    <3>2. CASE ~dolby.active
      BY <1>1, <1>3, <3>2 DEF BeginSession, TypeOK
    <3> QED BY <3>1, <3>2
  <2>2. wake' \in MaybeTime
    BY <1>1, <1>3, <2>1, EarlierOfType DEF BeginSession, TypeOK, OscSenders, DolbySenders
  <2>3. TypeOK'
    BY <1>1, <1>2, <1>3, <2>1, <2>2, ConstantsAssumption DEF BeginSession, TypeOK, Times
  <2>4. Position'
    BY <1>1, <1>3, <2>1 DEF BeginSession, Position, UpTo, Mark, TypeOK, OscSenders, DolbySenders, Marks
  <2> QED BY <2>3, <2>4
<1>4. ASSUME NEW k \in 0 .. 2, Publish(k) PROVE TypedPosition'
  <2>1. TypeOK'
    BY <1>1, <1>2, <1>4, ConstantsAssumption DEF Publish, TypeOK, history
  <2>2. Position'
    BY <1>1, <1>4 DEF Publish, Position, UpTo, Mark, TypeOK, OscSenders, DolbySenders, Marks, history
  <2> QED BY <2>1, <2>2
<1>5. CASE DeadlineReached
  BY <1>1, <1>2, <1>5 DEF DeadlineReached, TypeOK, Position, Mark, shared, history
<1>6. CASE MarkStale
  <2>1. wake' \in MaybeTime
    BY <1>1, <1>6, EarlierOfType DEF MarkStale, TypeOK, OscSenders, DolbySenders
  <2> QED BY <1>1, <1>6, <2>1 DEF MarkStale, TypeOK, Position, Mark, history
<1>7. CASE Disconnect
  BY <1>1, <1>2, <1>7 DEF Disconnect, TypeOK, Position, Mark, history
<1>8. CASE Cancel
  BY <1>1, <1>2, <1>8 DEF Cancel, TypeOK, Position, Mark, history
<1>9. CASE RetireDolby
  <2>1. dolby' \in DolbySenders /\ dolby'.key = dolby.key
    <3> DEFINE d == ClearReference(dolby)
    <3>1. d \in DolbySenders /\ d.key = dolby.key
      BY <1>1, ClearReferenceType DEF TypeOK
    <3>2. [d EXCEPT !.active = FALSE] \in DolbySenders /\ [d EXCEPT !.active = FALSE].key = d.key
      BY <3>1 DEF DolbySenders
    <3> QED BY <1>9, <3>1, <3>2 DEF RetireDolby
  <2> QED BY <1>1, <1>9, <2>1 DEF RetireDolby, TypeOK, Position, Mark, shared, history
<1>10. CASE CopyPose
  <2>1. copy' \in Copies
    BY <1>1, <1>2, <1>10 DEF CopyPose, Copies, TypeOK, Fresh
  <2>2. Position'
    BY <1>1, <1>10 DEF CopyPose, Position, Mark, shared, history
  <2> QED BY <1>1, <1>10, <2>1, <2>2 DEF CopyPose, TypeOK, shared, history
<1>11. CASE OscSkip
  <2>1. osc' \in OscSenders /\ osc'.key = osc.key
    BY <1>1, <1>2, <1>11 DEF OscSkip, TypeOK, OscSenders
  <2> QED BY <1>1, <1>11, <2>1 DEF OscSkip, OscDone, TypeOK, Position, Mark, shared
<1>12. CASE OscWait
  <2>1. osc' \in OscSenders /\ osc'.key = osc.key
    BY <1>1, <1>12 DEF OscWait, TypeOK, OscSenders
  <2> QED BY <1>1, <1>12, <2>1 DEF OscWait, OscDone, TypeOK, Position, Mark, shared
<1>13. CASE OscAccepted
  <2>1. copy.mark = Mark /\ copy.mark \in Marks /\ copy.mark.seq >= 1
    BY <1>1, <1>2, <1>13 DEF OscAccepted, OscDuplicate, Position, Mark, TypeOK
  <2>2. copy.at \in Nat /\ copy.at \in Times
    BY <1>1 DEF TypeOK, Copies, Times
  <2>3. osc.key \in Marks /\ osc.slot \in MaybeTime /\ osc.slot <= copy.at
    BY <1>1, <1>13, <2>2 DEF OscAccepted, OscEarly, TypeOK, OscSenders, MaybeTime, NoTime
  <2>4. Skipped(osc.key, copy.mark) \in Nat
    BY <1>1, <1>13, <2>1, <2>3, SkippedNat DEF OscAccepted, OscDuplicate, Position
  <2>5. NextSlot(osc.slot, copy.at, OscInterval) \in MaybeTime
    BY <2>2, <2>3, NextSlotBeyond, ConstantsAssumption DEF MaybeTime
  <2>6. osc' \in OscSenders /\ osc'.key = copy.mark
    <3>1. /\ osc.tx + 1 \in Nat /\ osc.coalesced + Skipped(osc.key, copy.mark) \in Nat
          /\ osc \in OscSenders
      BY <1>1, <2>4 DEF TypeOK, OscSenders
    <3> HIDE DEF Skipped, NextSlot
    <3> QED BY <1>2, <1>13, <2>1, <2>5, <3>1 DEF OscAccepted, OscSenders
  <2>7. oscSent' \subseteq OscPackets
    <3>1. [mark |-> copy.mark, tx |-> osc.tx + 1, at |-> copy.at] \in OscPackets
      BY <1>1, <2>1, <2>2 DEF TypeOK, OscSenders, OscPackets
    <3> QED BY <1>1, <1>13, <3>1 DEF OscAccepted, TypeOK
  <2>8. UpTo(Mark, Mark)
    BY <1>1 DEF UpTo, Mark, TypeOK
  <2> QED BY <1>1, <1>13, <2>1, <2>6, <2>7, <2>8
          DEF OscAccepted, OscDone, TypeOK, Position, Mark, shared
<1>14. ASSUME NEW hard \in BOOLEAN, OscRefused(hard) PROVE TypedPosition'
  <2>1. copy.at + OscInterval \in MaybeTime
    BY <1>1, ConstantsAssumption DEF TypeOK, Copies, Times, MaybeTime
  <2>2. osc' \in OscSenders /\ osc'.key = osc.key
    BY <1>1, <1>2, <1>14, <2>1 DEF OscRefused, TypeOK, OscSenders
  <2> QED BY <1>1, <1>14, <2>2 DEF OscRefused, OscDone, TypeOK, Position, Mark, shared
<1>15. CASE OscUnencodable
  <2>1. osc' \in OscSenders /\ osc'.key = osc.key
    BY <1>1, <1>2, <1>15 DEF OscUnencodable, TypeOK, OscSenders
  <2> QED BY <1>1, <1>15, <2>1 DEF OscUnencodable, OscDone, TypeOK, Position, Mark, shared
<1>16. ASSUME pc = "dolby", DolbyDone, dolby' \in DolbySenders,
              UpTo(dolby'.key, Mark), dolbySent' \subseteq DolbyPackets
       PROVE  TypedPosition'
  <2>1. NoCopy \in Copies
    BY <1>2, ConstantsAssumption DEF NoCopy, Copies, Times
  <2>2. wake' \in MaybeTime
    BY <1>1, <1>16, EarlierOfType DEF DolbyDone, TypeOK, OscSenders, DolbySenders
  <2> QED BY <1>1, <1>16, <2>1, <2>2 DEF DolbyDone, TypeOK, Position, Mark, shared
<1>17. CASE DolbyAbsent
  <2>1. dolby' \in DolbySenders /\ dolby'.key = dolby.key
    BY <1>1, <1>2, <1>17 DEF DolbyAbsent, TypeOK, DolbySenders
  <2> QED BY <1>1, <1>16, <1>17, <2>1 DEF DolbyAbsent, TypeOK, Position
<1>18. Current \in DolbySenders /\ Current.key = dolby.key
  BY <1>1, CurrentType
<1>19. CASE DolbySkip
  <2>1. dolby' \in DolbySenders /\ dolby'.key = dolby.key
    BY <1>2, <1>18, <1>19 DEF DolbySkip, DolbySenders
  <2> QED BY <1>1, <1>16, <1>19, <2>1 DEF DolbySkip, DolbyReady, TypeOK, Position
<1>20. CASE DolbyWait
  <2>1. dolby' \in DolbySenders /\ dolby'.key = dolby.key
    BY <1>18, <1>20 DEF DolbyWait, DolbySenders
  <2> QED BY <1>1, <1>16, <1>20, <2>1 DEF DolbyWait, DolbyReady, TypeOK, Position
<1>21. CASE DolbyAccepted
  <2>1. copy.mark = Mark /\ copy.mark \in Marks /\ copy.mark.seq >= 1
    BY <1>1, <1>2, <1>21 DEF DolbyAccepted, DolbyReady, Position, Mark, TypeOK
  <2>2. copy.at \in Nat /\ copy.at \in Times
    BY <1>1 DEF TypeOK, Copies, Times
  <2>3. Current.key \in Marks /\ Current.slot \in MaybeTime /\ Current.slot <= copy.at
    BY <1>18, <1>21, <2>2 DEF DolbyAccepted, DolbyEarly, DolbySenders, MaybeTime, NoTime
  <2>4. Skipped(Current.key, copy.mark) \in Nat
    BY <1>1, <1>18, <1>21, <2>1, <2>3, SkippedNat DEF DolbyAccepted, DolbyUnwanted, Position
  <2>5. NextSlot(Current.slot, copy.at, DolbyInterval) \in MaybeTime
    BY <2>2, <2>3, NextSlotBeyond, ConstantsAssumption DEF MaybeTime
  <2>6. dolby' \in DolbySenders /\ dolby'.key = copy.mark
    <3> DEFINE skipped == Skipped(Current.key, copy.mark)
               slot == NextSlot(Current.slot, copy.at, DolbyInterval)
    <3>1. /\ Current.sent + 1 \in Nat
          /\ Current.coalesced + skipped \in Nat
          /\ slot \in MaybeTime
      BY <1>18, <2>4, <2>5 DEF DolbySenders
    <3>2. dolby' = [Current EXCEPT !.sent = @ + 1, !.key = copy.mark,
                      !.pending = NoTime, !.coalesced = @ + skipped, !.slot = slot]
      BY <1>21 DEF DolbyAccepted
    <3> HIDE DEF skipped, slot
    <3> QED BY <1>2, <1>18, <2>1, <3>1, <3>2 DEF DolbySenders
  <2>7. dolbySent' \subseteq DolbyPackets
    <3>1. [mark |-> copy.mark, tx |-> Current.sent + 1, at |-> copy.at,
           ref |-> Current.ref, forward |-> forward] \in DolbyPackets
      BY <1>1, <1>18, <2>1, <2>2 DEF TypeOK, DolbySenders, DolbyPackets
    <3> QED BY <1>1, <1>21, <3>1 DEF DolbyAccepted, TypeOK
  <2>8. UpTo(Mark, Mark)
    BY <1>1 DEF UpTo, Mark, TypeOK
  <2> QED BY <1>16, <1>21, <2>1, <2>6, <2>7, <2>8 DEF DolbyAccepted, DolbyReady
<1>22. CASE DolbyRefused
  <2>1. copy.at + DolbyInterval \in MaybeTime
    BY <1>1, ConstantsAssumption DEF TypeOK, Copies, Times, MaybeTime
  <2>2. dolby' \in DolbySenders /\ dolby'.key = dolby.key
    BY <1>18, <1>22, <2>1 DEF DolbyRefused, DolbySenders
  <2> QED BY <1>1, <1>16, <1>22, <2>2 DEF DolbyRefused, DolbyReady, TypeOK, Position
<1>23. CASE Recenter
  <2>1. dolby' \in DolbySenders /\ dolby'.key = dolby.key
    BY <1>1, <1>2, <1>23 DEF Recenter, TypeOK, DolbySenders
  <2> QED BY <1>1, <1>2, <1>23, <2>1 DEF Recenter, TypeOK, Position, Mark, shared
<1>24. CASE Tick
  BY <1>1, <1>24, ConstantsAssumption DEF Tick, TypeOK, Position, Mark, shared, history, Times
<1>25. CASE UNCHANGED vars
  BY <1>1, <1>25 DEF vars, shared, history, TypeOK, Position, Mark
<1> QED
  BY <1>3, <1>4, <1>5, <1>6, <1>7, <1>8, <1>9, <1>10, <1>11, <1>12, <1>13,
     <1>14, <1>15, <1>17, <1>19, <1>20, <1>21, <1>22, <1>23, <1>24, <1>25
  DEF Next, Emit

\* Every state of a run is well typed: in particular the counters of coalesced
\* samples never go below zero and no sender is ahead of the samples published.
THEOREM TypeCorrect == Spec => []TypeOK
<1>1. Spec => []TypedPosition
  BY TypedPositionInit, TypedPositionStep, PTL DEF Spec
<1>2. TypedPosition => TypeOK
  BY DEF TypedPosition
<1> QED BY <1>1, <1>2, PTL

-----------------------------------------------------------------------------
(***************************************************************************)
(* Which actions touch a sender's slot and packets.                        *)
(***************************************************************************)

OscFrame ==
  /\ osc'.slot = osc.slot /\ osc'.tx = osc.tx /\ osc'.key = osc.key
  /\ oscSent' = oscSent

LEMMA OscChanges ==
  ASSUME TypeOK, [Next]_vars
  PROVE  OscAccepted \/ (\E hard \in BOOLEAN : OscRefused(hard)) \/ OscFrame
<1> USE DEF OscFrame
<1>1. CASE BeginSession BY <1>1 DEF BeginSession
<1>2. CASE \E k \in 0 .. 2 : Publish(k) BY <1>2 DEF Publish, history
<1>3. CASE DeadlineReached BY <1>3 DEF DeadlineReached, history
<1>4. CASE MarkStale BY <1>4 DEF MarkStale, history
<1>5. CASE Disconnect BY <1>5 DEF Disconnect, history
<1>6. CASE Cancel BY <1>6 DEF Cancel, history
<1>7. CASE RetireDolby BY <1>7 DEF RetireDolby, history
<1>8. CASE CopyPose BY <1>8 DEF CopyPose, history
<1>9. CASE OscSkip BY <1>9 DEF OscSkip, TypeOK, OscSenders
<1>10. CASE OscWait BY <1>10 DEF OscWait, TypeOK, OscSenders
<1>11. CASE OscUnencodable BY <1>11 DEF OscUnencodable, TypeOK, OscSenders
<1>12. CASE DolbyAbsent \/ DolbySkip \/ DolbyWait \/ DolbyAccepted \/ DolbyRefused
  BY <1>12 DEF DolbyAbsent, DolbySkip, DolbyWait, DolbyAccepted, DolbyRefused, DolbyDone
<1>13. CASE Recenter BY <1>13 DEF Recenter
<1>14. CASE Tick BY <1>14 DEF Tick, history
<1>15. CASE UNCHANGED vars BY <1>15 DEF vars, history
<1> QED
  BY <1>1, <1>2, <1>3, <1>4, <1>5, <1>6, <1>7, <1>8, <1>9, <1>10, <1>11,
     <1>12, <1>13, <1>14, <1>15 DEF Next, Emit

DolbyFrame ==
  /\ dolby'.slot = dolby.slot /\ dolby'.sent = dolby.sent
  /\ dolby'.key = dolby.key
  /\ dolbySent' = dolbySent

LEMMA DolbyChanges ==
  ASSUME TypeOK, [Next]_vars
  PROVE  DolbyAccepted \/ DolbyRefused \/ DolbyFrame
<1> USE DEF DolbyFrame
<1>1. CASE BeginSession
  BY <1>1, ClearReferenceType DEF BeginSession, TypeOK
<1>2. CASE \E k \in 0 .. 2 : Publish(k) BY <1>2 DEF Publish, history
<1>3. CASE DeadlineReached BY <1>3 DEF DeadlineReached, history
<1>4. CASE MarkStale BY <1>4 DEF MarkStale, history
<1>5. CASE Disconnect BY <1>5 DEF Disconnect, history
<1>6. CASE Cancel BY <1>6 DEF Cancel, history
<1>7. CASE RetireDolby
  <2> DEFINE d == ClearReference(dolby)
  <2>1. d \in DolbySenders /\ d.key = dolby.key /\ d.slot = dolby.slot /\ d.sent = dolby.sent
    BY ClearReferenceType DEF TypeOK
  <2>2. dolby' = [d EXCEPT !.active = FALSE] /\ dolbySent' = dolbySent
    BY <1>7 DEF RetireDolby, history
  <2> HIDE DEF d
  <2> QED BY <2>1, <2>2 DEF DolbySenders
<1>8. CASE CopyPose BY <1>8 DEF CopyPose, history
<1>9. CASE OscSkip \/ OscWait \/ OscUnencodable \/ OscAccepted
  BY <1>9 DEF OscSkip, OscWait, OscUnencodable, OscAccepted, OscDone
<1>10. CASE \E hard \in BOOLEAN : OscRefused(hard) BY <1>10 DEF OscRefused, OscDone
<1>11. CASE DolbyAbsent BY <1>11 DEF DolbyAbsent, TypeOK, DolbySenders
<1>12. CASE DolbySkip
  BY <1>12, CurrentType DEF DolbySkip, DolbySenders
<1>13. CASE DolbyWait
  BY <1>13, CurrentType DEF DolbyWait, DolbySenders
<1>14. CASE Recenter BY <1>14 DEF Recenter, TypeOK, DolbySenders
<1>15. CASE Tick BY <1>15 DEF Tick, history
<1>16. CASE UNCHANGED vars BY <1>16 DEF vars, history
<1> QED
  BY <1>1, <1>2, <1>3, <1>4, <1>5, <1>6, <1>7, <1>8, <1>9, <1>10, <1>11,
     <1>12, <1>13, <1>14, <1>15, <1>16 DEF Next, Emit

-----------------------------------------------------------------------------
(***************************************************************************)
(* The rate limit.                                                         *)
(***************************************************************************)

OscRate == OscPaced /\ OscRateLimited
DolbyRate == DolbyPaced /\ DolbyRateLimited

\* The step both senders share: a packet goes out at a time `at` not before
\* the slot, and the slot moves past `at` by at least one interval.
LEMMA PacketKeepsPace ==
  ASSUME NEW sent, NEW sentAfter, NEW packet,
         NEW count \in Nat, NEW slot \in MaybeTime, NEW slotAfter \in Nat,
         NEW interval \in Nat \ {0}, NEW at \in Nat,
         \A p \in sent : p.tx \in Nat /\ p.at \in Nat,
         Paced(sent, slot, count, interval),
         RateLimited(sent, interval),
         packet.tx = count + 1, packet.at = at,
         sentAfter = sent \cup {packet},
         slot <= at, slotAfter > at, slotAfter >= slot + interval
  PROVE  /\ Paced(sentAfter, slotAfter, count + 1, interval)
         /\ RateLimited(sentAfter, interval)
<1>1. ASSUME NEW p \in sent
      PROVE  /\ p.tx <= count + 1
             /\ slotAfter > p.at + (count + 1 - p.tx) * interval
             /\ at - p.at > (count + 1 - p.tx - 1) * interval
  <2>1. /\ p.tx <= count
        /\ (count + 1 - p.tx) * interval = (count - p.tx) * interval + interval
        /\ (count + 1 - p.tx - 1) * interval = (count - p.tx) * interval
        /\ (count - p.tx) * interval \in Nat
    BY OneMoreInterval DEF Paced
  <2> DEFINE gap == (count - p.tx) * interval
  <2>2. gap \in Nat /\ slot > p.at + gap /\ slot \in Nat
    BY <2>1 DEF MaybeTime, NoTime, Paced
  <2>3. slotAfter > p.at + (gap + interval) /\ at - p.at > gap
    <3> HIDE DEF gap
    <3> QED BY <2>2
  <2> QED BY <2>1, <2>3
<1>2. packet.tx <= count + 1 /\ slotAfter > packet.at + (count + 1 - packet.tx) * interval
  OBVIOUS
<1>3. ASSUME NEW p \in sentAfter, NEW q \in sentAfter, p.tx < q.tx
      PROVE  q.at - p.at > (q.tx - p.tx - 1) * interval
  <2>1. CASE p \in sent /\ q \in sent
    BY <1>3, <2>1 DEF RateLimited
  <2>2. CASE p \in sent /\ q = packet
    BY <1>1, <2>2
  <2>3. CASE p = packet
    BY <1>1, <1>3, <2>3
  <2> QED BY <2>1, <2>2, <2>3
<1> QED BY <1>1, <1>2, <1>3 DEF RateLimited, Paced

\* A refusal after the slot moves the slot on and sends nothing.
LEMMA RefusalKeepsPace ==
  ASSUME NEW sent, NEW count \in Nat, NEW slot \in MaybeTime,
         NEW interval \in Nat \ {0}, NEW at \in Nat,
         \A p \in sent : p.tx \in Nat /\ p.at \in Nat,
         Paced(sent, slot, count, interval), slot <= at
  PROVE  Paced(sent, at + interval, count, interval)
<1> SUFFICES ASSUME NEW p \in sent
             PROVE  p.tx <= count /\ at + interval > p.at + (count - p.tx) * interval
  BY DEF Paced
<1> DEFINE gap == (count - p.tx) * interval
<1>1. p.tx <= count /\ slot > p.at + gap /\ p.at \in Nat
  BY DEF Paced
<1>2. gap \in Nat
  BY <1>1, OneMoreInterval
<1>3. at + interval > p.at + gap
  <2> HIDE DEF gap
  <2> QED BY <1>1, <1>2 DEF MaybeTime, NoTime
<1> QED BY <1>1, <1>3

LEMMA OscRateStep == TypedPosition /\ OscRate /\ [Next]_vars => OscRate'
<1> SUFFICES ASSUME TypeOK, OscRate, [Next]_vars PROVE OscRate'
  BY DEF TypedPosition
<1> USE DEF OscRate, OscPaced, OscRateLimited
<1>1. \A p \in oscSent : p.tx \in Nat /\ p.at \in Nat
  BY DEF TypeOK, OscPackets, Times
<1>2. osc.tx \in Nat /\ osc.slot \in MaybeTime /\ copy.at \in Nat
  BY DEF TypeOK, OscSenders, Copies, Times
<1>3. CASE OscAccepted
  <2> DEFINE packet == [mark |-> copy.mark, tx |-> osc.tx + 1, at |-> copy.at]
             slot == NextSlot(osc.slot, copy.at, OscInterval)
  <2>1. osc.slot <= copy.at
    BY <1>2, <1>3 DEF OscAccepted, OscEarly, MaybeTime, NoTime
  <2>2. slot \in Nat /\ slot > copy.at /\ slot >= osc.slot + OscInterval
    BY <1>2, <2>1, NextSlotBeyond, ConstantsAssumption DEF MaybeTime
  <2>3. osc'.slot = slot /\ osc'.tx = osc.tx + 1 /\ oscSent' = oscSent \cup {packet}
    BY <1>3 DEF OscAccepted, TypeOK, OscSenders
  <2>4. packet.tx = osc.tx + 1 /\ packet.at = copy.at
    OBVIOUS
  <2> HIDE DEF slot, packet
  <2>5. /\ Paced(oscSent', slot, osc.tx + 1, OscInterval)
        /\ RateLimited(oscSent', OscInterval)
    BY <1>1, <1>2, <2>1, <2>2, <2>3, <2>4, PacketKeepsPace, ConstantsAssumption
  <2> QED BY <2>3, <2>5
<1>4. ASSUME NEW hard \in BOOLEAN, OscRefused(hard) PROVE OscRate'
  <2>1. osc'.slot = copy.at + OscInterval /\ osc'.tx = osc.tx /\ oscSent' = oscSent
    BY <1>4 DEF OscRefused, TypeOK, OscSenders
  <2>2. osc.slot <= copy.at
    BY <1>2, <1>4 DEF OscRefused, OscEarly, MaybeTime, NoTime
  <2>3. Paced(oscSent, copy.at + OscInterval, osc.tx, OscInterval)
    BY <1>1, <1>2, <2>2, RefusalKeepsPace, ConstantsAssumption
  <2> QED BY <2>1, <2>3
<1>5. CASE OscFrame
  BY <1>5 DEF OscFrame, RateLimited
<1> QED BY <1>3, <1>4, <1>5, OscChanges

LEMMA DolbyRateStep == TypedPosition /\ DolbyRate /\ [Next]_vars => DolbyRate'
<1> SUFFICES ASSUME TypeOK, DolbyRate, [Next]_vars PROVE DolbyRate'
  BY DEF TypedPosition
<1> USE DEF DolbyRate, DolbyPaced, DolbyRateLimited
<1>1. \A p \in dolbySent : p.tx \in Nat /\ p.at \in Nat
  BY DEF TypeOK, DolbyPackets, Times
<1>2. dolby.sent \in Nat /\ dolby.slot \in MaybeTime /\ copy.at \in Nat
  BY DEF TypeOK, DolbySenders, Copies, Times
<1>3. Current \in DolbySenders /\ Current.slot = dolby.slot /\ Current.sent = dolby.sent
  BY CurrentType
<1>4. CASE DolbyAccepted
  <2> DEFINE packet == [mark |-> copy.mark, tx |-> Current.sent + 1, at |-> copy.at,
                        ref |-> Current.ref, forward |-> forward]
             slot == NextSlot(Current.slot, copy.at, DolbyInterval)
  <2>1. dolby.slot <= copy.at
    BY <1>2, <1>3, <1>4 DEF DolbyAccepted, DolbyEarly, MaybeTime, NoTime
  <2>2. slot \in Nat /\ slot > copy.at /\ slot >= dolby.slot + DolbyInterval
    BY <1>2, <1>3, <2>1, NextSlotBeyond, ConstantsAssumption DEF MaybeTime
  <2>3. dolby'.slot = slot /\ dolby'.sent = dolby.sent + 1
        /\ dolbySent' = dolbySent \cup {packet}
    BY <1>3, <1>4 DEF DolbyAccepted, DolbySenders
  <2>4. packet.tx = dolby.sent + 1 /\ packet.at = copy.at
    BY <1>3
  <2> HIDE DEF slot, packet
  <2>5. /\ Paced(dolbySent', slot, dolby.sent + 1, DolbyInterval)
        /\ RateLimited(dolbySent', DolbyInterval)
    BY <1>1, <1>2, <2>1, <2>2, <2>3, <2>4, PacketKeepsPace, ConstantsAssumption
  <2> QED BY <2>3, <2>5
<1>5. CASE DolbyRefused
  <2>1. dolby'.slot = copy.at + DolbyInterval /\ dolby'.sent = dolby.sent
        /\ dolbySent' = dolbySent
    BY <1>3, <1>5 DEF DolbyRefused, DolbySenders
  <2>2. dolby.slot <= copy.at
    BY <1>2, <1>3, <1>5 DEF DolbyRefused, DolbyEarly, MaybeTime, NoTime
  <2>3. Paced(dolbySent, copy.at + DolbyInterval, dolby.sent, DolbyInterval)
    BY <1>1, <1>2, <2>2, RefusalKeepsPace, ConstantsAssumption
  <2> QED BY <2>1, <2>3
<1>6. CASE DolbyFrame
  BY <1>6 DEF DolbyFrame, RateLimited
<1> QED BY <1>4, <1>5, <1>6, DolbyChanges

\* The max_rate_hz limit of the PoseBridge sender, for every interval and every
\* run: n packets after a given one, more than n - 1 intervals have passed.
THEOREM OscRateBound == Spec => []OscRateLimited
<1>1. Init => OscRate
  BY DEF Init, OscRate, OscPaced, OscRateLimited, Paced, RateLimited
<1>2. Spec => []OscRate
  BY <1>1, TypedPositionInit, TypedPositionStep, OscRateStep, PTL DEF Spec
<1>3. OscRate => OscRateLimited
  BY DEF OscRate
<1> QED BY <1>2, <1>3, PTL

\* The same limit for the Dolby sender.
THEOREM DolbyRateBound == Spec => []DolbyRateLimited
<1>1. Init => DolbyRate
  BY DEF Init, DolbyRate, DolbyPaced, DolbyRateLimited, Paced, RateLimited
<1>2. Spec => []DolbyRate
  BY <1>1, TypedPositionInit, TypedPositionStep, DolbyRateStep, PTL DEF Spec
<1>3. DolbyRate => DolbyRateLimited
  BY DEF DolbyRate
<1> QED BY <1>2, <1>3, PTL

\* No output exceeds its rate, whatever its interval.
THEOREM RateBound == Spec => []OutputsRateLimited
<1>1. OscRateLimited /\ DolbyRateLimited => OutputsRateLimited
  BY DEF OutputsRateLimited
<1> QED BY <1>1, OscRateBound, DolbyRateBound, PTL

-----------------------------------------------------------------------------
(***************************************************************************)
(* The order of the samples.                                               *)
(***************************************************************************)

LEMMA UpToTransitive ==
  ASSUME NEW a \in Marks, NEW b \in Marks, NEW c \in Marks, UpTo(a, b), UpTo(b, c)
  PROVE  UpTo(a, c) /\ (b # c => Before(a, c))
<1>1. \A x \in Marks : x.session \in Int /\ x.seq \in Int
  BY DEF Marks
<1>2. b # c => b.session # c.session \/ b.seq # c.seq
  BY DEF Marks
<1> QED BY <1>1, <1>2 DEF UpTo, Before

LEMMA PacketKeepsOrder ==
  ASSUME NEW sent, NEW sentAfter, NEW packet, NEW count \in Nat,
         NEW key \in Marks, packet.mark \in Marks,
         \A p \in sent : p.mark \in Marks /\ p.tx \in Nat /\ p.tx <= count,
         KeyIsLast(sent, key), InOrder(sent),
         UpTo(key, packet.mark), key # packet.mark,
         packet.tx = count + 1, sentAfter = sent \cup {packet}
  PROVE  KeyIsLast(sentAfter, packet.mark) /\ InOrder(sentAfter)
<1>1. ASSUME NEW p \in sent
      PROVE  UpTo(p.mark, packet.mark) /\ Before(p.mark, packet.mark)
  BY UpToTransitive DEF KeyIsLast
<1>2. UpTo(packet.mark, packet.mark)
  BY DEF UpTo, Marks
<1>3. ASSUME NEW p \in sentAfter, NEW q \in sentAfter, p.tx < q.tx
      PROVE  Before(p.mark, q.mark)
  <2>1. CASE p \in sent /\ q \in sent
    BY <1>3, <2>1 DEF InOrder
  <2>2. CASE p \in sent /\ q = packet
    BY <1>1, <2>2
  <2>3. CASE p = packet
    BY <1>3, <2>3
  <2> QED BY <2>1, <2>2, <2>3
<1> QED BY <1>1, <1>2, <1>3 DEF KeyIsLast, InOrder

Order == Ordered /\ SamplesInOrder

LEMMA OrderStep ==
  TypedPosition /\ OscRate /\ DolbyRate /\ Order /\ [Next]_vars => Order'
<1> SUFFICES ASSUME TypeOK, Position, OscPaced, DolbyPaced, Order, [Next]_vars
             PROVE  Order'
  BY DEF TypedPosition, OscRate, DolbyRate
<1> USE DEF Order, Ordered, SamplesInOrder
<1>1. KeyIsLast(oscSent', osc'.key) /\ InOrder(oscSent')
  <2>1. /\ \A p \in oscSent : p.mark \in Marks /\ p.tx \in Nat /\ p.tx <= osc.tx
        /\ osc.tx \in Nat /\ osc.key \in Marks
    BY DEF TypeOK, OscPackets, OscSenders, OscPaced, Paced
  <2>2. CASE OscAccepted
    <3> DEFINE packet == [mark |-> copy.mark, tx |-> osc.tx + 1, at |-> copy.at]
               slot == NextSlot(osc.slot, copy.at, OscInterval)
               skipped == Skipped(osc.key, copy.mark)
    <3>1. /\ copy.mark \in Marks /\ UpTo(osc.key, copy.mark) /\ osc.key # copy.mark
      BY <2>2, MarkType DEF OscAccepted, OscDuplicate, Position
    <3>2. osc'.key = copy.mark /\ oscSent' = oscSent \cup {packet}
      <4> osc' = [osc EXCEPT !.tx = @ + 1, !.key = copy.mark, !.pending = NoTime,
                     !.coalesced = @ + skipped, !.slot = slot]
        BY <2>2 DEF OscAccepted
      <4> HIDE DEF slot, skipped
      <4> QED BY <2>2 DEF OscAccepted, TypeOK, OscSenders
    <3>3. packet.tx = osc.tx + 1 /\ packet.mark = copy.mark
      OBVIOUS
    <3> HIDE DEF packet
    <3> QED BY <2>1, <3>1, <3>2, <3>3, PacketKeepsOrder
  <2>3. ASSUME NEW hard \in BOOLEAN, OscRefused(hard)
        PROVE  osc'.key = osc.key /\ oscSent' = oscSent
    BY <2>3 DEF OscRefused, TypeOK, OscSenders
  <2> QED BY <2>2, <2>3, OscChanges DEF OscFrame
<1>2. KeyIsLast(dolbySent', dolby'.key) /\ InOrder(dolbySent')
  <2>1. /\ \A p \in dolbySent : p.mark \in Marks /\ p.tx \in Nat /\ p.tx <= dolby.sent
        /\ dolby.sent \in Nat /\ dolby.key \in Marks
    BY DEF TypeOK, DolbyPackets, DolbySenders, DolbyPaced, Paced
  <2>2. Current \in DolbySenders /\ Current.key = dolby.key /\ Current.sent = dolby.sent
    BY CurrentType
  <2>3. CASE DolbyAccepted
    <3> DEFINE packet == [mark |-> copy.mark, tx |-> Current.sent + 1, at |-> copy.at,
                          ref |-> Current.ref, forward |-> forward]
               slot == NextSlot(Current.slot, copy.at, DolbyInterval)
               skipped == Skipped(Current.key, copy.mark)
    <3>1. /\ copy.mark \in Marks /\ UpTo(dolby.key, copy.mark) /\ dolby.key # copy.mark
      BY <2>2, <2>3, MarkType DEF DolbyAccepted, DolbyReady, DolbyUnwanted, Position
    <3>2. dolby'.key = copy.mark /\ dolbySent' = dolbySent \cup {packet}
      <4> dolby' = [Current EXCEPT !.sent = @ + 1, !.key = copy.mark,
                      !.pending = NoTime, !.coalesced = @ + skipped, !.slot = slot]
        BY <2>3 DEF DolbyAccepted
      <4> HIDE DEF slot, skipped
      <4> QED BY <2>2, <2>3 DEF DolbyAccepted, DolbySenders
    <3>3. packet.tx = dolby.sent + 1 /\ packet.mark = copy.mark
      BY <2>2
    <3> HIDE DEF packet
    <3> QED BY <2>1, <3>1, <3>2, <3>3, PacketKeepsOrder
  <2>4. CASE DolbyRefused
    BY <2>2, <2>4 DEF DolbyRefused, DolbySenders
  <2> QED BY <2>3, <2>4, DolbyChanges DEF DolbyFrame
<1> QED BY <1>1, <1>2

\* Neither sender ever repeats a sample or goes back to an earlier one, across
\* refusals, delayed samples, recenters and reconnections.
THEOREM SamplesNeverGoBack == Spec => []SamplesInOrder
<1>1. Init => OscRate /\ DolbyRate /\ Order
  BY DEF Init, OscRate, OscPaced, OscRateLimited, DolbyRate, DolbyPaced,
         DolbyRateLimited, Paced, RateLimited, Order, Ordered, KeyIsLast,
         SamplesInOrder, InOrder
<1>2. Spec => []Order
  BY <1>1, TypedPositionInit, TypedPositionStep, OscRateStep, DolbyRateStep,
     OrderStep, PTL DEF Spec
<1>3. Order => SamplesInOrder
  BY DEF Order
<1> QED BY <1>2, <1>3, PTL

-----------------------------------------------------------------------------
(***************************************************************************)
(* The Dolby reference.                                                    *)
(***************************************************************************)

ReferenceFrame ==
  /\ dolby'.active = dolby.active /\ dolby'.ref = dolby.ref
  /\ dolby'.identity = dolby.identity /\ dolby'.after = dolby.after
  /\ session' = session /\ forward' = forward

\* A Dolby step that starts from `Current` keeps its reference.
OfCurrent ==
  /\ pc = "dolby" /\ dolby.active
  /\ dolby'.active = Current.active /\ dolby'.ref = Current.ref
  /\ dolby'.identity = Current.identity /\ dolby'.after = Current.after
  /\ session' = session /\ forward' = forward

ReferenceHeld == ReferenceIsForward /\ ForwardTakesEffectOnNextSample

LEMMA ReferenceChanges ==
  ASSUME TypeOK, [Next]_vars
  PROVE  \/ BeginSession \/ RetireDolby \/ Recenter \/ DolbyAccepted
         \/ OfCurrent /\ copy.mark # NoMark /\ dolbySent' = dolbySent
         \/ ReferenceFrame /\ dolbySent' = dolbySent
<1> USE DEF ReferenceFrame
<1>1. CASE \E k \in 0 .. 2 : Publish(k) BY <1>1 DEF Publish, history
<1>2. CASE DeadlineReached BY <1>2 DEF DeadlineReached, history, shared
<1>3. CASE MarkStale BY <1>3 DEF MarkStale, history
<1>4. CASE Disconnect BY <1>4 DEF Disconnect, history
<1>5. CASE Cancel BY <1>5 DEF Cancel, history
<1>6. CASE CopyPose BY <1>6 DEF CopyPose, history, shared
<1>7. CASE OscSkip \/ OscWait \/ OscUnencodable \/ OscAccepted
  BY <1>7 DEF OscSkip, OscWait, OscUnencodable, OscAccepted, OscDone, shared
<1>8. CASE \E hard \in BOOLEAN : OscRefused(hard)
  BY <1>8 DEF OscRefused, OscDone, shared
<1>9. CASE DolbyAbsent
  BY <1>9 DEF DolbyAbsent, DolbyDone, shared, TypeOK, DolbySenders
<1>10. ASSUME DolbySkip \/ DolbyWait \/ DolbyRefused
       PROVE  OfCurrent /\ copy.mark # NoMark /\ dolbySent' = dolbySent
  <2>1. Current \in DolbySenders
    BY CurrentType
  <2>2. CASE DolbySkip
    BY <2>1, <2>2 DEF DolbySkip, OfCurrent, DolbyReady, DolbyDone, shared, DolbySenders
  <2>3. CASE DolbyWait
    BY <2>1, <2>3 DEF DolbyWait, OfCurrent, DolbyReady, DolbyDone, shared, DolbySenders
  <2>4. CASE DolbyRefused
    BY <2>1, <2>4 DEF DolbyRefused, OfCurrent, DolbyReady, DolbyDone, shared, DolbySenders
  <2> QED BY <1>10, <2>2, <2>3, <2>4
<1>11. CASE Tick BY <1>11 DEF Tick, history, shared
<1>12. CASE UNCHANGED vars BY <1>12 DEF vars, history, shared
<1> QED
  BY <1>1, <1>2, <1>3, <1>4, <1>5, <1>6, <1>7, <1>8, <1>9, <1>10, <1>11, <1>12
  DEF Next, Emit

\* While a copied pose waits for the Dolby sender, `Current` is the sender
\* itself whenever a reference is set: both belong to the session in progress.
LEMMA CurrentReference ==
  ASSUME TypedPosition, ReferenceIsForward, pc = "dolby", dolby.active,
         copy.mark # NoMark
  PROVE  /\ Current.ref = forward
         /\ Current.ref # NoMark => Current = dolby /\ copy.mark.session = session
<1>1. TypeOK /\ copy.mark = Mark
  BY DEF TypedPosition, Position
<1>2. copy.mark.session = session
  BY <1>1 DEF Mark
<1>3. CASE dolby.ref = NoMark
  BY <1>1, <1>2, <1>3, CurrentType DEF ReferenceIsForward
<1>4. CASE dolby.ref # NoMark
  BY <1>1, <1>2, <1>4, CurrentType DEF ReferenceIsForward
<1> QED BY <1>3, <1>4

LEMMA ReferenceStep == TypedPosition /\ ReferenceHeld /\ [Next]_vars => ReferenceHeld'
<1> SUFFICES ASSUME TypedPosition, ReferenceHeld, [Next]_vars PROVE ReferenceHeld'
  OBVIOUS
<1> USE DEF ReferenceHeld
<1>1. TypeOK
  BY DEF TypedPosition
<1>2. CASE BeginSession
  <2>1. dolby'.active = dolby.active /\ dolby'.ref = NoMark
    <3>1. CASE dolby.active
      <4>1. dolby' = ClearReference(dolby)
        BY <1>2, <3>1 DEF BeginSession
      <4>2. dolby'.active = dolby.active
        BY <1>1, <4>1 DEF ClearReference, TypeOK, DolbySenders
      <4> QED BY <1>1, <4>1, <4>2, ClearReferenceType DEF TypeOK
    <3>2. CASE ~dolby.active
      BY <1>2, <3>2 DEF BeginSession, ReferenceIsForward
    <3> QED BY <3>1, <3>2
  <2>2. forward' = NoMark /\ dolbySent' = dolbySent
    BY <1>2 DEF BeginSession
  <2> QED BY <2>1, <2>2 DEF ReferenceIsForward, ForwardTakesEffectOnNextSample
<1>3. CASE RetireDolby
  <2>1. ~dolby'.active /\ dolby'.ref = NoMark
    <3> DEFINE d == ClearReference(dolby)
    <3>1. d \in DolbySenders /\ d.ref = NoMark
      BY <1>1, ClearReferenceType DEF TypeOK
    <3>2. dolby' = [d EXCEPT !.active = FALSE]
      BY <1>3 DEF RetireDolby
    <3> HIDE DEF d
    <3> QED BY <3>1, <3>2 DEF DolbySenders
  <2> QED BY <1>3, <2>1
          DEF RetireDolby, history, ReferenceIsForward, ForwardTakesEffectOnNextSample
<1>4. CASE Recenter
  <2>1. /\ dolby'.active /\ dolby'.ref = Mark /\ forward' = Mark
        /\ dolby'.identity = session /\ dolby'.after = samples
        /\ session' = session /\ dolbySent' = dolbySent
    BY <1>1, <1>4 DEF Recenter, TypeOK, DolbySenders, shared
  <2> QED BY <2>1 DEF Mark, ReferenceIsForward, ForwardTakesEffectOnNextSample
<1>5. CASE DolbyAccepted
  <2> DEFINE packet == [mark |-> copy.mark, tx |-> Current.sent + 1, at |-> copy.at,
                        ref |-> Current.ref, forward |-> forward]
             slot == NextSlot(Current.slot, copy.at, DolbyInterval)
             skipped == Skipped(Current.key, copy.mark)
  <2>1. /\ pc = "dolby" /\ dolby.active /\ copy.mark # NoMark
        /\ ~(copy.mark.seq <= Current.after)
        /\ session' = session /\ forward' = forward
    BY <1>5 DEF DolbyAccepted, DolbyReady, DolbyUnwanted, DolbyDone, shared
  <2>2. Current.ref = forward
        /\ (Current.ref # NoMark => Current = dolby /\ copy.mark.session = session)
    BY <2>1, CurrentReference
  <2>3. OfCurrent
    <3>1. dolby' = [Current EXCEPT !.sent = @ + 1, !.key = copy.mark,
                      !.pending = NoTime, !.coalesced = @ + skipped, !.slot = slot]
      BY <1>5 DEF DolbyAccepted
    <3>2. Current \in DolbySenders
      BY <1>1, CurrentType
    <3> HIDE DEF skipped, slot
    <3> QED BY <2>1, <3>1, <3>2 DEF OfCurrent, DolbySenders
  <2>4. ReferenceIsForward'
    <3>1. Current.active = dolby.active
      BY <1>1, CurrentType
    <3> QED BY <2>1, <2>2, <2>3, <3>1 DEF OfCurrent, ReferenceIsForward
  <2>5. packet.ref = packet.forward
        /\ (packet.ref # NoMark => packet.mark.session = packet.ref.session
                                   /\ packet.mark.seq > packet.ref.seq)
    <3>1. copy.mark.seq \in Int /\ (Current.ref # NoMark => Current.after = Current.ref.seq)
      BY <1>1, <2>2 DEF TypeOK, Copies, Marks, ReferenceIsForward
    <3>2. Current.after \in Int
      BY <1>1, CurrentType DEF DolbySenders
    <3> QED BY <2>1, <2>2, <3>1, <3>2 DEF ReferenceIsForward
  <2>6. dolbySent' = dolbySent \cup {packet}
    BY <1>5 DEF DolbyAccepted
  <2> HIDE DEF packet
  <2> QED BY <2>4, <2>5, <2>6 DEF ForwardTakesEffectOnNextSample
<1>6. CASE OfCurrent /\ copy.mark # NoMark /\ dolbySent' = dolbySent
  <2>1. Current.active = dolby.active
    BY <1>1, CurrentType
  <2>2. Current.ref = forward
        /\ (Current.ref # NoMark => Current = dolby /\ copy.mark.session = session)
    BY <1>6, CurrentReference DEF OfCurrent
  <2> QED BY <1>6, <2>1, <2>2
          DEF OfCurrent, ReferenceIsForward, ForwardTakesEffectOnNextSample
<1>7. CASE ReferenceFrame /\ dolbySent' = dolbySent
  BY <1>7 DEF ReferenceFrame, ReferenceIsForward, ForwardTakesEffectOnNextSample
<1> QED BY <1>1, <1>2, <1>3, <1>4, <1>5, <1>6, <1>7, ReferenceChanges

LEMMA ReferenceAlways == Spec => []ReferenceHeld
<1>1. Init => ReferenceHeld
  BY DEF Init, ReferenceHeld, ReferenceIsForward, ForwardTakesEffectOnNextSample
<1> QED BY <1>1, TypedPositionInit, TypedPositionStep, ReferenceStep, PTL DEF Spec

\* A Dolby packet is always relative to the latest recenter of its session and
\* carries a sample received after it, wherever the recenter falls between the
\* steps of emit.
THEOREM RecenterIsAtomic == Spec => []ForwardTakesEffectOnNextSample
<1>1. ReferenceHeld => ForwardTakesEffectOnNextSample
  BY DEF ReferenceHeld
<1> QED BY <1>1, ReferenceAlways, PTL

\* The forward reference never outlives its session.
THEOREM ReferenceIsCurrent == Spec => []ReferenceOfThisSession
<1>1. ReferenceHeld => ReferenceOfThisSession
  BY DEF ReferenceHeld, ReferenceIsForward, ReferenceOfThisSession
<1> QED BY <1>1, ReferenceAlways, PTL

\* The reference shown and the reference sent are sound, for every interleaving
\* of recenters with the two steps of emit and with changes of session.
THEOREM ReferenceStaysSound == Spec => []ReferenceIsSound
<1>1. ForwardTakesEffectOnNextSample /\ ReferenceOfThisSession => ReferenceIsSound
  BY DEF ReferenceIsSound
<1> QED BY <1>1, RecenterIsAtomic, ReferenceIsCurrent, PTL

-----------------------------------------------------------------------------
(***************************************************************************)
(* Sums.  MapThenSumSet is a fold over a finite set: that it is well       *)
(* defined, and that one term more or less changes it by that term, are    *)
(* inductions over the size of the set.  The library's theorems of         *)
(* induction take an operator, so induction is stated for a set of         *)
(* numbers.                                                                *)
(***************************************************************************)

\* A set that has 0, and the successor of each number it has, has them all.
LEMMA SetInduction ==
  ASSUME NEW S, 0 \in S, \A n \in Nat : n \in S => n + 1 \in S
  PROVE  Nat \subseteq S
<1> DEFINE R == OpToRel(<, Nat)
           T == Nat \ S
<1>1. IsWellFoundedOn(R, Nat)
  BY NatLessThanWellFounded
<1>2. SUFFICES ASSUME T # {} PROVE FALSE
  OBVIOUS
<1>3. T \subseteq Nat
  OBVIOUS
<1> HIDE DEF T
<1>4. PICK m \in T : \A y \in T : ~(<<y, m>> \in R)
  BY <1>1, <1>2, <1>3, WFMin
<1>5. \A y \in Nat : y < m => <<y, m>> \in R
  BY <1>3, <1>4 DEF OpToRel
<1>6. m \in Nat /\ m \notin S
  BY <1>4 DEF T
<1>7. m - 1 \in Nat /\ m - 1 < m /\ (m - 1) + 1 = m
  BY <1>6
<1>8. m - 1 \in S
  BY <1>4, <1>5, <1>7 DEF T
<1> QED BY <1>6, <1>7, <1>8

\* One element of a set, the same one wherever the set is met.
Any(s) == CHOOSE x \in s : TRUE

\* f adds up h over every subset of S.
AddsUp(f, h, S) ==
  f = [s \in SUBSET S |-> IF s = {} THEN 0 ELSE h[Any(s)] + f[s \ {Any(s)}]]

SumOf(h, S) == (CHOOSE f : AddsUp(f, h, S))[S]

\* What the packets of all sessions cover is such a sum.
LEMMA CoveredIsSum ==
  ASSUME NEW sent
  PROVE  Covered(sent) = SumOf([s \in 1 .. MaxSession |-> LastSent(sent, s)], 1 .. MaxSession)
<1> DEFINE h == [s \in 1 .. MaxSession |-> LastSent(sent, s)]
           S == 1 .. MaxSession
<1>0. ASSUME NEW s \in SUBSET S, s # {} PROVE h[Any(s)] = LastSent(sent, Any(s))
   BY <1>0 DEF Any
<1>1. ASSUME NEW f 
      PROVE  [s \in SUBSET S |-> IF s = {} THEN 0 ELSE h[Any(s)] + f[s \ {Any(s)}]]
           = [s \in SUBSET S |-> IF s = {} THEN 0 ELSE LastSent(sent, Any(s)) + f[s \ {Any(s)}]]
   <2> HIDE DEF h, S
   <2> QED BY <1>0
<1>2. \A f : AddsUp(f, h, S) <=> (f = [s \in SUBSET S |-> IF s = {} THEN 0 ELSE LastSent(sent, Any(s)) + f[s \ {Any(s)}]])
   <2> HIDE DEF h, S
   <2> QED BY <1>1 DEF AddsUp
<1>3. (CHOOSE f : AddsUp(f, h, S)) = (CHOOSE f : f = [s \in SUBSET S |-> IF s = {} THEN 0 ELSE LastSent(sent, Any(s)) + f[s \ {Any(s)}]])
   <2> HIDE DEF h, S
   <2> QED BY <1>2
<1>4. Covered(sent) = (CHOOSE f : f = [s \in SUBSET S |-> IF s = {} THEN 0 ELSE LastSent(sent, Any(s)) + f[s \ {Any(s)}]])[S]
   BY DEF Covered, MapThenSumSet, MapThenFoldSet, Any
<1> QED BY <1>3, <1>4 DEF SumOf

\* Over a finite set there is a function that adds up.
LEMMA AddsUpExists ==
  ASSUME NEW S, IsFiniteSet(S), NEW h \in [S -> Int]
  PROVE  \E f \in [SUBSET S -> Int] : AddsUp(f, h, S)
<1> DEFINE D(n) == {s \in SUBSET S : Cardinality(s) <= n}
           Good == {n \in Nat : \E f \in [D(n) -> Int] :
                      \A s \in D(n) : f[s] = IF s = {} THEN 0 ELSE h[Any(s)] + f[s \ {Any(s)}]}
<1>1. ASSUME NEW n \in Nat
      PROVE  /\ \A s \in D(n) : IsFiniteSet(s) /\ Cardinality(s) \in Nat
             /\ \A s \in D(n + 1) : s # {} => Any(s) \in S /\ s \ {Any(s)} \in D(n)
             /\ D(n) \subseteq D(n + 1)
             /\ {} \in D(n)
  <2>1. \A s \in SUBSET S : IsFiniteSet(s) /\ Cardinality(s) \in Nat
    BY FS_Subset, FS_CardinalityType
  <2>2. ASSUME NEW s \in D(n + 1), s # {}
        PROVE  Any(s) \in S /\ s \ {Any(s)} \in D(n)
    <3>1. Any(s) \in s
      BY <2>2 DEF Any
    <3>2. Cardinality(s \ {Any(s)}) = Cardinality(s) - 1
      BY <2>1, <3>1, FS_RemoveElement
    <3> QED BY <2>1, <3>1, <3>2
  <2>3. D(n) \subseteq D(n + 1)
    BY <2>1
  <2>4. {} \in D(n)
    BY FS_EmptySet
  <2> QED BY <2>1, <2>2, <2>3, <2>4
<1>2. 0 \in Good
  <2>1. \A s \in D(0) : s = {}
    BY <1>1, FS_EmptySet
  <2>2. [s \in D(0) |-> 0] \in [D(0) -> Int]
    OBVIOUS
  <2> HIDE DEF D
  <2> QED BY <2>1, <2>2
<1>3. ASSUME NEW n \in Nat, n \in Good PROVE n + 1 \in Good
  <2>1. PICK f \in [D(n) -> Int] :
          \A s \in D(n) : f[s] = IF s = {} THEN 0 ELSE h[Any(s)] + f[s \ {Any(s)}]
    BY <1>3
  <2> DEFINE g == [s \in D(n + 1) |-> IF s = {} THEN 0 ELSE h[Any(s)] + f[s \ {Any(s)}]]
  <2>2. \A s \in D(n) : g[s] = f[s]
    <3> HIDE DEF D
    <3> QED BY <1>1, <2>1
  <2>3. g \in [D(n + 1) -> Int]
    <3> HIDE DEF D
    <3> QED BY <1>1
  <2>4. \A s \in D(n + 1) : g[s] = IF s = {} THEN 0 ELSE h[Any(s)] + g[s \ {Any(s)}]
    <3> HIDE DEF D
    <3> QED BY <1>1, <2>2
  <2> HIDE DEF g, D
  <2> QED BY <2>3, <2>4
<1>4. Cardinality(S) \in Good
  <2> HIDE DEF Good
  <2> QED BY <1>2, <1>3, SetInduction, FS_CardinalityType
<1>5. D(Cardinality(S)) = SUBSET S
  BY FS_Subset
<1>6. PICK f \in [SUBSET S -> Int] :
        \A s \in SUBSET S : f[s] = IF s = {} THEN 0 ELSE h[Any(s)] + f[s \ {Any(s)}]
  BY <1>4, <1>5
<1>7. AddsUp(f, h, S)
  BY <1>6 DEF AddsUp
<1> QED BY <1>7

\* What is added to one element is added to the sum.
LEMMA SumGrows ==
  ASSUME NEW S, IsFiniteSet(S), NEW h \in [S -> Int], NEW e \in S, NEW d \in Int
  PROVE  SumOf([h EXCEPT ![e] = @ + d], S) = SumOf(h, S) + d /\ SumOf(h, S) \in Int
<1> DEFINE k == [h EXCEPT ![e] = @ + d]
           f == CHOOSE f : AddsUp(f, h, S)
           g == CHOOSE g : AddsUp(g, k, S)
<1>1. k \in [S -> Int]
  OBVIOUS
<1>2. AddsUp(f, h, S) /\ AddsUp(g, k, S)
  <2> HIDE DEF k
  <2> QED BY <1>1, AddsUpExists
<1> HIDE DEF f, g
<1>3. \A s \in SUBSET S : /\ f[s] = IF s = {} THEN 0 ELSE h[Any(s)] + f[s \ {Any(s)}]
                          /\ g[s] = IF s = {} THEN 0 ELSE k[Any(s)] + g[s \ {Any(s)}]
  <2> HIDE DEF k
  <2> QED BY <1>2 DEF AddsUp
<1> DEFINE Good == {n \in Nat : \A s \in SUBSET S :
                      Cardinality(s) = n => /\ f[s] \in Int
                                            /\ g[s] = f[s] + (IF e \in s THEN d ELSE 0)}
<1>4. \A s \in SUBSET S : IsFiniteSet(s) /\ Cardinality(s) \in Nat
  BY FS_Subset, FS_CardinalityType
<1>5. 0 \in Good
  <2> SUFFICES ASSUME NEW s \in SUBSET S, Cardinality(s) = 0
               PROVE  f[s] \in Int /\ g[s] = f[s] + (IF e \in s THEN d ELSE 0)
    OBVIOUS
  <2>1. s = {}
    BY <1>4, FS_EmptySet
  <2>2. f[s] = 0 /\ g[s] = 0 /\ e \notin s
    BY <1>3, <2>1
  <2> QED BY <2>2
<1>6. ASSUME NEW n \in Nat, n \in Good PROVE n + 1 \in Good
  <2> SUFFICES ASSUME NEW s \in SUBSET S, Cardinality(s) = n + 1
               PROVE  f[s] \in Int /\ g[s] = f[s] + (IF e \in s THEN d ELSE 0)
    OBVIOUS
  <2>1. s # {}
    BY FS_EmptySet
  <2> DEFINE x == Any(s)
             t == s \ {x}
  <2>2. x \in s
    BY <2>1 DEF Any
  <2>3. t \in SUBSET S /\ Cardinality(t) = n
    BY <1>4, <2>2, FS_RemoveElement
  <2>4. f[t] \in Int /\ g[t] = f[t] + (IF e \in t THEN d ELSE 0)
    BY <1>6, <2>3
  <2>5. f[s] = h[x] + f[t] /\ g[s] = k[x] + g[t]
    BY <1>3, <2>1
  <2>6. h[x] \in Int /\ k[x] = h[x] + (IF x = e THEN d ELSE 0)
    BY <2>2
  <2>7. (e \in s <=> e \in t \/ x = e) /\ (x = e => e \notin t)
    BY <2>2
  <2> HIDE DEF x, t, k
  <2> QED BY <2>4, <2>5, <2>6, <2>7
<1>7. Cardinality(S) \in Good
  <2> HIDE DEF Good
  <2> QED BY <1>4, <1>5, <1>6, SetInduction
<1> QED BY <1>7 DEF SumOf, f, g

\* A sum of zeros is zero.
LEMMA SumOfZeros ==
  ASSUME NEW S, IsFiniteSet(S), NEW h \in [S -> {0}]
  PROVE  SumOf(h, S) = 0
<1> DEFINE f == CHOOSE f : AddsUp(f, h, S)
<1>1. AddsUp(f, h, S)
  <2>1. h \in [S -> Int]
    OBVIOUS
  <2>2. \E g : AddsUp(g, h, S)
    BY <2>1, AddsUpExists
  <2> QED BY <2>2
<1> HIDE DEF f
<1>2. \A s \in SUBSET S : f[s] = IF s = {} THEN 0 ELSE h[Any(s)] + f[s \ {Any(s)}]
  BY <1>1 DEF AddsUp
<1> DEFINE Good == {n \in Nat : \A s \in SUBSET S : Cardinality(s) = n => f[s] = 0}
<1>3. \A s \in SUBSET S : IsFiniteSet(s) /\ Cardinality(s) \in Nat
  BY FS_Subset, FS_CardinalityType
<1>4. 0 \in Good
  BY <1>2, <1>3, FS_EmptySet
<1>5. ASSUME NEW n \in Nat, n \in Good PROVE n + 1 \in Good
  <2> SUFFICES ASSUME NEW s \in SUBSET S, Cardinality(s) = n + 1 PROVE f[s] = 0
    OBVIOUS
  <2>1. s # {}
    BY FS_EmptySet
  <2>2. Any(s) \in s
    BY <2>1 DEF Any
  <2>3. s \ {Any(s)} \in SUBSET S /\ Cardinality(s \ {Any(s)}) = n
    BY <1>3, <2>2, FS_RemoveElement
  <2>4. f[s \ {Any(s)}] = 0 /\ h[Any(s)] = 0
    BY <1>5, <2>2, <2>3
  <2>5. f[s] = h[Any(s)] + f[s \ {Any(s)}]
    BY <1>2, <2>1
  <2> QED BY <2>4, <2>5
<1>6. Cardinality(S) \in Good
  <2> HIDE DEF Good
  <2> QED BY <1>3, <1>4, <1>5, SetInduction
<1> QED BY <1>6 DEF SumOf, f

\* The last sample sent is the sequence of the sender's key, and what was sent
\* and what was skipped add up, session by session.
Accounted(sent, key, count, coalesced) ==
  /\ \A s \in 1 .. MaxSession : LastSent(sent, s) \in Nat
  /\ key.session >= 1 => LastSent(sent, key.session) = key.seq
  /\ count + coalesced = Covered(sent)

\* Before the first packet.
LEMMA NothingAccounted == Accounted({}, NoMark, 0, 0)
<1>1. \A s : LastSent({}, s) = 0
  <2>1. \A s : {0} \cup {p.mark.seq : p \in {x \in {} : x.mark.session = s}} = {0}
    OBVIOUS
  <2>2. (CHOOSE x \in {0} : \A y \in {0} : x >= y) = 0
    OBVIOUS
  <2> QED BY <2>1, <2>2 DEF LastSent, Max
<1>2. IsFiniteSet(1 .. MaxSession)
  BY FS_Interval, ConstantsAssumption
<1>3. [s \in 1 .. MaxSession |-> LastSent({}, s)] \in [1 .. MaxSession -> {0}]
  BY <1>1
<1>4. Covered({}) = 0
  BY <1>2, <1>3, SumOfZeros, CoveredIsSum
<1> QED BY <1>1, <1>4 DEF Accounted, NoMark

\* A packet counts for itself and for the samples it passes over.
LEMMA PacketIsAccounted ==
  ASSUME NEW sent, NEW sentAfter, NEW packet, NEW count \in Nat, NEW coalesced \in Nat,
         NEW key \in Marks, packet.mark \in Marks, packet.mark.session >= 1,
         \A p \in sent : p.mark \in Marks,
         KeyIsLast(sent, key), UpTo(key, packet.mark),
         Accounted(sent, key, count, coalesced), sentAfter = sent \cup {packet}
  PROVE  Accounted(sentAfter, packet.mark, count + 1,
                   coalesced + Skipped(key, packet.mark))
<1> DEFINE m == packet.mark
           S == 1 .. MaxSession
           before == IF key.session = m.session THEN key.seq ELSE 0
           Seqs(set, s) == {0} \cup {p.mark.seq : p \in {x \in set : x.mark.session = s}}
<1>1. /\ \A a \in Marks : a.session \in 0 .. MaxSession /\ a.session \in Int /\ a.seq \in Nat
      /\ MaxSession \in Nat
  BY ConstantsAssumption DEF Marks
<1>2. /\ m \in Marks /\ m.session \in S /\ m.seq \in Nat /\ m.session \in Int
      /\ key.session \in Int /\ key.seq \in Nat /\ before \in Nat
  BY <1>1
<1>3. \A n \in Nat : \A set : n \in set /\ (\A x \in set : x \in Nat /\ x <= n) => Max(set) = n
  <2> SUFFICES ASSUME NEW n \in Nat, NEW set, n \in set, \A x \in set : x \in Nat /\ x <= n
               PROVE  Max(set) = n
    OBVIOUS
  <2>1. n \in set /\ \A y \in set : n >= y
    OBVIOUS
  <2>2. Max(set) \in set /\ \A y \in set : Max(set) >= y
    BY <2>1 DEF Max
  <2>3. Max(set) \in Nat /\ Max(set) <= n /\ Max(set) >= n
    BY <2>2
  <2> QED BY <2>3
<1>4. LastSent(sentAfter, m.session) = m.seq
  <2>1. m.seq \in Seqs(sentAfter, m.session)
    OBVIOUS
  <2>2. ASSUME NEW p \in sentAfter, p.mark.session = m.session
        PROVE  p.mark.seq \in Nat /\ p.mark.seq <= m.seq
    <3>1. CASE p = packet
      BY <1>2, <3>1
    <3>2. CASE p \in sent
      <4>1. UpTo(p.mark, key) /\ p.mark \in Marks
        BY <3>2 DEF KeyIsLast
      <4> HIDE DEF m
      <4>2. UpTo(key, m) /\ p.mark.session \in Int /\ p.mark.seq \in Nat
        BY <1>1, <4>1 DEF m
      <4> QED BY <1>2, <2>2, <4>1, <4>2 DEF UpTo
    <3> QED BY <3>1, <3>2
  <2>3. \A x \in Seqs(sentAfter, m.session) : x \in Nat /\ x <= m.seq
    BY <1>2, <2>2
  <2> HIDE DEF m, Seqs
  <2>4. Max(Seqs(sentAfter, m.session)) = m.seq
    BY <1>2, <1>3, <2>1, <2>3
  <2> QED BY <2>4 DEF LastSent, Seqs
<1>5. ASSUME NEW s \in S, s # m.session
      PROVE  LastSent(sentAfter, s) = LastSent(sent, s)
  <2>1. {x \in sentAfter : x.mark.session = s} = {x \in sent : x.mark.session = s}
    BY <1>5
  <2> QED BY <2>1 DEF LastSent
<1>6. LastSent(sent, m.session) = before
  <2>1. CASE key.session = m.session
    BY <1>2, <2>1 DEF Accounted
  <2>2. CASE key.session # m.session
    <3>1. key.session < m.session
      BY <1>2, <2>2 DEF UpTo
    <3>2. ASSUME NEW p \in sent PROVE p.mark.session # m.session
      <4>1. UpTo(p.mark, key) /\ p.mark.session \in Int
        BY <1>1 DEF KeyIsLast
      <4> HIDE DEF m
      <4> QED BY <1>2, <3>1, <4>1 DEF UpTo
    <3>3. Seqs(sent, m.session) = {0}
      BY <3>2
    <3> HIDE DEF m, Seqs
    <3>4. Max(Seqs(sent, m.session)) = 0
      BY <1>3, <3>3
    <3> QED BY <2>2, <3>4 DEF LastSent, Seqs
  <2> QED BY <2>1, <2>2
<1> DEFINE h == [s \in S |-> LastSent(sent, s)]
           k == [s \in S |-> LastSent(sentAfter, s)]
           d == m.seq - before
<1>7. h \in [S -> Int] /\ d \in Int
  BY <1>2 DEF Accounted
<1>8. k = [h EXCEPT ![m.session] = @ + d]
  <2>1. \A s \in S : k[s] = (IF s = m.session THEN h[s] + d ELSE h[s])
    <3> SUFFICES ASSUME NEW s \in S
                 PROVE  k[s] = (IF s = m.session THEN h[s] + d ELSE h[s])
      OBVIOUS
    <3>1. h[s] = LastSent(sent, s) /\ k[s] = LastSent(sentAfter, s)
      OBVIOUS
    <3>2. m.seq = before + (m.seq - before)
      BY <1>2
    <3> HIDE DEF m, S, before, h, k
    <3> QED BY <1>2, <1>4, <1>5, <1>6, <3>1, <3>2
  <2> HIDE DEF m, S, before, d
  <2> QED BY <1>2, <2>1 DEF h, k
<1>9. SumOf(k, S) = SumOf(h, S) + d /\ SumOf(h, S) \in Int
  <2>1. IsFiniteSet(S)
    <3>1. 1 \in Int /\ MaxSession \in Int
      BY <1>1
    <3> QED BY <3>1, FS_Interval
  <2> HIDE DEF S, m, h, k, d
  <2> QED BY <1>2, <1>7, <1>8, <2>1, SumGrows
<1>10. Covered(sent) = SumOf(h, S) /\ Covered(sentAfter) = SumOf(k, S)
  BY CoveredIsSum
<1>11. count + coalesced = Covered(sent)
  BY DEF Accounted
<1>12. Skipped(key, m) = d - 1
  BY <1>2 DEF Skipped
<1>13. (count + 1) + (coalesced + Skipped(key, m)) = Covered(sentAfter)
  <2> HIDE DEF d, m, h, k, S
  <2> QED BY <1>7, <1>9, <1>10, <1>11, <1>12
<1>14. \A s \in S : LastSent(sentAfter, s) \in Nat
  BY <1>2, <1>4, <1>5 DEF Accounted
<1> QED BY <1>4, <1>13, <1>14 DEF Accounted

-----------------------------------------------------------------------------
(***************************************************************************)
(* The accounts of the senders.                                            *)
(***************************************************************************)

OscAccount == Accounted(oscSent, osc.key, osc.tx, osc.coalesced)
DolbyAccount == Accounted(dolbySent, dolby.key, dolby.sent, dolby.coalesced)

\* Only an accepted packet changes the count of what was coalesced.
LEMMA CoalescedChanges ==
  ASSUME TypeOK, [Next]_vars
  PROVE  /\ OscAccepted \/ osc'.coalesced = osc.coalesced
         /\ DolbyAccepted \/ dolby'.coalesced = dolby.coalesced
<1>1. \A d \in DolbySenders : ClearReference(d).coalesced = d.coalesced
  BY DEF ClearReference, DolbySenders
<1>2. Current \in DolbySenders /\ Current.coalesced = dolby.coalesced
  BY CurrentType
<1>3. CASE BeginSession
  BY <1>1, <1>3 DEF BeginSession, TypeOK
<1>4. CASE \E k \in 0 .. 2 : Publish(k) BY <1>4 DEF Publish, history
<1>5. CASE DeadlineReached BY <1>5 DEF DeadlineReached, history
<1>6. CASE MarkStale BY <1>6 DEF MarkStale, history
<1>7. CASE Disconnect BY <1>7 DEF Disconnect, history
<1>8. CASE Cancel BY <1>8 DEF Cancel, history
<1>9. CASE RetireDolby
  <2> DEFINE d == ClearReference(dolby)
  <2>1. d \in DolbySenders /\ d.coalesced = dolby.coalesced
    BY <1>1, ClearReferenceType DEF TypeOK
  <2>2. dolby' = [d EXCEPT !.active = FALSE] /\ osc' = osc
    BY <1>9 DEF RetireDolby
  <2> HIDE DEF d
  <2> QED BY <2>1, <2>2 DEF DolbySenders
<1>10. CASE CopyPose BY <1>10 DEF CopyPose, history
<1>11. CASE OscSkip BY <1>11 DEF OscSkip, OscDone, TypeOK, OscSenders
<1>12. CASE OscWait BY <1>12 DEF OscWait, OscDone, TypeOK, OscSenders
<1>13. CASE OscUnencodable BY <1>13 DEF OscUnencodable, OscDone, TypeOK, OscSenders
<1>14. CASE OscAccepted BY <1>14 DEF OscAccepted, OscDone
<1>15. CASE \E hard \in BOOLEAN : OscRefused(hard)
  BY <1>15 DEF OscRefused, OscDone, TypeOK, OscSenders
<1>16. CASE DolbyAbsent BY <1>16 DEF DolbyAbsent, DolbyDone, TypeOK, DolbySenders
<1>17. CASE DolbySkip BY <1>2, <1>17 DEF DolbySkip, DolbyDone, DolbySenders
<1>18. CASE DolbyWait BY <1>2, <1>18 DEF DolbyWait, DolbyDone, DolbySenders
<1>19. CASE DolbyRefused BY <1>2, <1>19 DEF DolbyRefused, DolbyDone, DolbySenders
<1>20. CASE DolbyAccepted BY <1>20 DEF DolbyAccepted, DolbyDone
<1>21. CASE Recenter BY <1>21 DEF Recenter, TypeOK, DolbySenders
<1>22. CASE Tick BY <1>22 DEF Tick, history
<1>23. CASE UNCHANGED vars BY <1>23 DEF vars, history
<1> QED
  BY <1>3, <1>4, <1>5, <1>6, <1>7, <1>8, <1>9, <1>10, <1>11, <1>12, <1>13,
     <1>14, <1>15, <1>16, <1>17, <1>18, <1>19, <1>20, <1>21, <1>22, <1>23
  DEF Next, Emit

LEMMA OscAccountStep ==
  TypedPosition /\ Order /\ OscAccount /\ [Next]_vars => OscAccount'
<1> SUFFICES ASSUME TypeOK, Position, Ordered, OscAccount, [Next]_vars
             PROVE  OscAccount'
  BY DEF TypedPosition, Order
<1>1. CASE OscAccepted
  <2> DEFINE packet == [mark |-> copy.mark, tx |-> osc.tx + 1, at |-> copy.at]
             slot == NextSlot(osc.slot, copy.at, OscInterval)
             skipped == Skipped(osc.key, copy.mark)
  <2>1. /\ copy.mark \in Marks /\ UpTo(osc.key, copy.mark) /\ copy.mark.session >= 1
        /\ osc.key \in Marks /\ osc.tx \in Nat /\ osc.coalesced \in Nat
    BY <1>1, MarkType
    DEF OscAccepted, OscDuplicate, Position, Mark, TypeOK, OscSenders
  <2>2. /\ osc'.key = copy.mark /\ osc'.tx = osc.tx + 1
        /\ osc'.coalesced = osc.coalesced + skipped /\ oscSent' = oscSent \cup {packet}
    <3>1. osc' = [osc EXCEPT !.tx = @ + 1, !.key = copy.mark, !.pending = NoTime,
                     !.coalesced = @ + skipped, !.slot = slot]
      BY <1>1 DEF OscAccepted
    <3>2. osc \in OscSenders /\ oscSent' = oscSent \cup {packet}
      BY <1>1 DEF OscAccepted, TypeOK
    <3> HIDE DEF slot, skipped
    <3> QED BY <3>1, <3>2 DEF OscSenders
  <2>3. (\A p \in oscSent : p.mark \in Marks) /\ KeyIsLast(oscSent, osc.key)
    BY DEF TypeOK, OscPackets, Ordered
  <2>4. packet.mark = copy.mark
    OBVIOUS
  <2>5. skipped = Skipped(osc.key, packet.mark)
    OBVIOUS
  <2> HIDE DEF packet, skipped
  <2>6. Accounted(oscSent', packet.mark, osc.tx + 1, osc.coalesced + skipped)
    BY <2>1, <2>2, <2>3, <2>4, <2>5, PacketIsAccounted DEF OscAccount
  <2> QED BY <2>2, <2>4, <2>6 DEF OscAccount
<1>2. CASE ~OscAccepted
  <2>1. osc'.key = osc.key /\ osc'.tx = osc.tx /\ oscSent' = oscSent
    <3>1. ASSUME NEW hard \in BOOLEAN, OscRefused(hard)
          PROVE  osc'.key = osc.key /\ osc'.tx = osc.tx /\ oscSent' = oscSent
      BY <3>1 DEF OscRefused, TypeOK, OscSenders
    <3> QED BY <1>2, <3>1, OscChanges DEF OscFrame
  <2>2. osc'.coalesced = osc.coalesced
    BY <1>2, CoalescedChanges
  <2> QED BY <2>1, <2>2 DEF OscAccount
<1> QED BY <1>1, <1>2

LEMMA DolbyAccountStep ==
  TypedPosition /\ Order /\ DolbyAccount /\ [Next]_vars => DolbyAccount'
<1> SUFFICES ASSUME TypeOK, Position, Ordered, DolbyAccount, [Next]_vars
             PROVE  DolbyAccount'
  BY DEF TypedPosition, Order
<1>1. /\ Current \in DolbySenders /\ Current.key = dolby.key
      /\ Current.sent = dolby.sent /\ Current.coalesced = dolby.coalesced
  BY CurrentType
<1>2. CASE DolbyAccepted
  <2> DEFINE packet == [mark |-> copy.mark, tx |-> Current.sent + 1, at |-> copy.at,
                        ref |-> Current.ref, forward |-> forward]
             slot == NextSlot(Current.slot, copy.at, DolbyInterval)
             skipped == Skipped(Current.key, copy.mark)
  <2>1. /\ copy.mark \in Marks /\ UpTo(dolby.key, copy.mark) /\ copy.mark.session >= 1
        /\ dolby.key \in Marks /\ dolby.sent \in Nat /\ dolby.coalesced \in Nat
    BY <1>2, MarkType
    DEF DolbyAccepted, DolbyReady, Position, Mark, TypeOK, DolbySenders
  <2>2. /\ dolby'.key = copy.mark /\ dolby'.sent = dolby.sent + 1
        /\ dolby'.coalesced = dolby.coalesced + skipped
        /\ dolbySent' = dolbySent \cup {packet}
    <3>1. dolby' = [Current EXCEPT !.sent = @ + 1, !.key = copy.mark,
                      !.pending = NoTime, !.coalesced = @ + skipped, !.slot = slot]
      BY <1>2 DEF DolbyAccepted
    <3>2. dolbySent' = dolbySent \cup {packet}
      BY <1>2 DEF DolbyAccepted
    <3> HIDE DEF slot, skipped
    <3> QED BY <1>1, <3>1, <3>2 DEF DolbySenders
  <2>3. (\A p \in dolbySent : p.mark \in Marks) /\ KeyIsLast(dolbySent, dolby.key)
    BY DEF TypeOK, DolbyPackets, Ordered
  <2>4. packet.mark = copy.mark
    OBVIOUS
  <2>5. skipped = Skipped(dolby.key, packet.mark)
    BY <1>1
  <2> HIDE DEF packet, skipped
  <2>6. Accounted(dolbySent', packet.mark, dolby.sent + 1, dolby.coalesced + skipped)
    BY <2>1, <2>2, <2>3, <2>4, <2>5, PacketIsAccounted DEF DolbyAccount
  <2> QED BY <2>2, <2>4, <2>6 DEF DolbyAccount
<1>3. CASE ~DolbyAccepted
  <2>1. dolby'.key = dolby.key /\ dolby'.sent = dolby.sent /\ dolbySent' = dolbySent
    <3>1. CASE DolbyRefused
      BY <1>1, <3>1 DEF DolbyRefused, DolbySenders
    <3> QED BY <1>3, <3>1, DolbyChanges DEF DolbyFrame
  <2>2. dolby'.coalesced = dolby.coalesced
    BY <1>3, CoalescedChanges
  <2> QED BY <2>1, <2>2 DEF DolbyAccount
<1> QED BY <1>2, <1>3

\* The counters of sent and coalesced samples that the status reports add up to
\* the last sequence sent, summed over the sessions: no sample between two
\* packets goes uncounted, across refusals, waits, recenters and reconnections.
THEOREM NoSampleUnaccounted == Spec => []SamplesAccounted
<1>1. Init => OscRate /\ DolbyRate /\ Order
  BY DEF Init, OscRate, OscPaced, OscRateLimited, DolbyRate, DolbyPaced,
         DolbyRateLimited, Paced, RateLimited, Order, Ordered, KeyIsLast,
         SamplesInOrder, InOrder
<1>2. Init => OscAccount /\ DolbyAccount
  BY NothingAccounted DEF Init, OscAccount, DolbyAccount
<1>3. Spec => [](OscAccount /\ DolbyAccount)
  BY <1>1, <1>2, TypedPositionInit, TypedPositionStep, OscRateStep, DolbyRateStep,
     OrderStep, OscAccountStep, DolbyAccountStep, PTL DEF Spec
<1>4. OscAccount /\ DolbyAccount => SamplesAccounted
  BY DEF OscAccount, DolbyAccount, Accounted, SamplesAccounted
<1> QED BY <1>3, <1>4, PTL

-----------------------------------------------------------------------------
(***************************************************************************)
(* The timer of the worker.                                                *)
(***************************************************************************)

\* A timer set by output_deadline is no later than either of the two.
LEMMA EarlierOfCovers ==
  ASSUME NEW a \in MaybeTime, NEW b \in MaybeTime
  PROVE  \A d \in {a, b} \ {NoTime} :
           EarlierOf(a, b) # NoTime /\ EarlierOf(a, b) <= d
  BY DEF EarlierOf, MaybeTime, NoTime

LEMMA TimerStep ==
  TypedPosition /\ TimerCoversDeadlines /\ [Next]_vars => TimerCoversDeadlines'
<1> SUFFICES ASSUME TypedPosition, TimerCoversDeadlines, [Next]_vars
             PROVE  TimerCoversDeadlines'
  OBVIOUS
<1>1. TypeOK /\ TypeOK'
  BY TypedPositionStep DEF TypedPosition
<1>2. osc'.pending \in MaybeTime /\ dolby'.pending \in MaybeTime
  BY <1>1 DEF TypeOK, OscSenders, DolbySenders
<1>3. ASSUME wake' = EarlierOf(osc'.pending, dolby'.pending)
      PROVE  TimerCoversDeadlines'
  BY <1>2, <1>3, EarlierOfCovers DEF TimerCoversDeadlines
<1>4. CASE BeginSession BY <1>3, <1>4 DEF BeginSession
<1>5. CASE MarkStale BY <1>3, <1>5 DEF MarkStale
<1>6. CASE \E k \in 0 .. 2 : Publish(k) BY <1>6 DEF Publish, TimerCoversDeadlines
<1>7. CASE DeadlineReached \/ Disconnect \/ Cancel \/ RetireDolby
  BY <1>7 DEF DeadlineReached, Disconnect, Cancel, RetireDolby, TimerCoversDeadlines
<1>8. CASE CopyPose BY <1>8 DEF CopyPose, TimerCoversDeadlines
<1>9. CASE OscSkip \/ OscWait \/ OscAccepted \/ OscUnencodable
  BY <1>9 DEF OscSkip, OscWait, OscAccepted, OscUnencodable, OscDone, TimerCoversDeadlines
<1>10. CASE \E hard \in BOOLEAN : OscRefused(hard)
  BY <1>10 DEF OscRefused, OscDone, TimerCoversDeadlines
<1>11. CASE DolbyAbsent \/ DolbySkip \/ DolbyWait \/ DolbyAccepted \/ DolbyRefused
  <2>1. DolbyDone
    BY <1>11 DEF DolbyAbsent, DolbySkip, DolbyWait, DolbyAccepted, DolbyRefused
  <2> QED BY <1>3, <2>1 DEF DolbyDone
<1>12. CASE Recenter
  <2>1. /\ dolby'.pending = NoTime /\ osc' = osc /\ wake' = wake /\ pc' = pc
    BY <1>1, <1>12 DEF Recenter, TypeOK, DolbySenders
  <2> QED BY <2>1 DEF TimerCoversDeadlines
<1>13. CASE Tick BY <1>13 DEF Tick, TimerCoversDeadlines
<1>14. CASE UNCHANGED vars BY <1>14 DEF vars, TimerCoversDeadlines
<1> QED
  BY <1>4, <1>5, <1>6, <1>7, <1>8, <1>9, <1>10, <1>11, <1>12, <1>13, <1>14
  DEF Next, Emit

\* The worker never sleeps over a deadline that a sender has armed, whatever
\* recenters, stale marks and reconnections fall between emit and select.
THEOREM NoDeadlineSleptOver == Spec => []TimerCoversDeadlines
<1>1. Init => TimerCoversDeadlines
  BY DEF Init, TimerCoversDeadlines
<1> QED BY <1>1, TypedPositionInit, TypedPositionStep, TimerStep, PTL DEF Spec

-----------------------------------------------------------------------------
(***************************************************************************)
(* The telemetry, over all the refreshes of a worker.                      *)
(***************************************************************************)

ConnectionStates ==
  {"Idle", "Scanning", "Connecting", "Active", "Stale", "Reconnecting", "Stopped", "Failed",
   "Configuring", "Complete", "Inspecting", "Magnetic"}
LastStates == ConnectionStates \cup {"none"}
Outcomes == {"delivered", "refused", "error"}
Telemetries == [infoSeq : Nat, statusSeq : Nat, nextInfo : Nat, nextStatus : Nat,
                revision : Nat, lastState : LastStates, errors : Nat]
\* One call of refresh and how its packets fare.
Refreshes == [snap : [revision : Nat, state : ConnectionStates], force : BOOLEAN, now : Nat,
              info : Outcomes, status : Outcomes]

AsksInfo(t, r) == r.force \/ DueInfo(t, r.snap, r.now)
AsksStatus(t, r) == r.force \/ DueStatus(t, r.snap, r.now)
\* A packet that was asked for and did not arrive; an info that fails takes the
\* status of its refresh with it.
InfoFails(t, r) == AsksInfo(t, r) /\ r.info = "error"
LosesInfo(t, r) == AsksInfo(t, r) /\ r.info # "delivered"
LosesStatus(t, r) == AsksStatus(t, r) /\ (r.status # "delivered" \/ InfoFails(t, r))

\* What a refresh makes of the telemetry.
Leaves(t, r, d) ==
  /\ d \in Telemetries
  /\ d.infoSeq > t.infoSeq <=> AsksInfo(t, r) /\ r.info = "delivered"
  /\ d.nextInfo = IF AsksInfo(t, r) THEN r.now + InfoPeriod ELSE t.nextInfo
  /\ d.statusSeq > t.statusSeq <=> AsksStatus(t, r) /\ ~LosesStatus(t, r)
  /\ d.nextStatus = IF AsksStatus(t, r) /\ ~InfoFails(t, r) THEN r.now + StatusPeriod
                    ELSE t.nextStatus
  /\ LET fails == InfoFails(t, r) \/ (AsksStatus(t, r) /\ r.status = "error") IN
     /\ d.revision = IF fails THEN t.revision ELSE r.snap.revision
     /\ d.lastState = IF fails THEN t.lastState ELSE r.snap.state

\* That is what refresh does.
LEMMA RefreshLeaves ==
  ASSUME NEW t \in Telemetries, NEW r \in Refreshes, NEW d,
         d = Refresh(t, r.snap, r.force, r.now, r.info, r.status)
  PROVE  Leaves(t, r, d)
<1> DEFINE With(i, s, ni, ns, rev, st, e) ==
             [infoSeq |-> i, statusSeq |-> s, nextInfo |-> ni, nextStatus |-> ns,
              revision |-> rev, lastState |-> st, errors |-> e]
           first == IF AsksInfo(t, r) THEN SentInfo(t, r.now, r.info) ELSE t
           second == IF AsksStatus(t, r) THEN SentStatus(first, r.now, r.status) ELSE first
<1>1. /\ t.infoSeq \in Nat /\ t.statusSeq \in Nat /\ t.nextInfo \in Nat /\ t.nextStatus \in Nat
      /\ t.revision \in Nat /\ t.lastState \in LastStates /\ t.errors \in Nat
      /\ r.now \in Nat /\ r.snap.revision \in Nat /\ r.snap.state \in ConnectionStates /\ r.snap.state \in LastStates
      /\ r.info \in Outcomes /\ r.status \in Outcomes
  BY DEF Telemetries, Refreshes, LastStates
<1>2. /\ r.now + InfoPeriod \in Nat /\ r.now + StatusPeriod \in Nat
  BY <1>1, TelemetryAssumption
<1>3. first = With(IF LosesInfo(t, r) \/ ~AsksInfo(t, r) THEN t.infoSeq ELSE t.infoSeq + 1,
                   t.statusSeq,
                   IF AsksInfo(t, r) THEN r.now + InfoPeriod ELSE t.nextInfo,
                   t.nextStatus, t.revision, t.lastState,
                   IF LosesInfo(t, r) THEN t.errors + 1 ELSE t.errors)
  BY DEF SentInfo, LosesInfo, Telemetries
<1> DEFINE i1 == IF LosesInfo(t, r) \/ ~AsksInfo(t, r) THEN t.infoSeq ELSE t.infoSeq + 1
           n1 == IF AsksInfo(t, r) THEN r.now + InfoPeriod ELSE t.nextInfo
           e1 == IF LosesInfo(t, r) THEN t.errors + 1 ELSE t.errors
           LostStatus == AsksStatus(t, r) /\ r.status # "delivered"
           s2 == IF LostStatus \/ ~AsksStatus(t, r) THEN t.statusSeq ELSE t.statusSeq + 1
           n2 == IF AsksStatus(t, r) THEN r.now + StatusPeriod ELSE t.nextStatus
           e2 == IF LostStatus THEN e1 + 1 ELSE e1
<1>4. /\ i1 \in Nat /\ n1 \in Nat /\ e1 \in Nat /\ s2 \in Nat /\ n2 \in Nat /\ e2 \in Nat
      /\ (i1 > t.infoSeq <=> AsksInfo(t, r) /\ ~LosesInfo(t, r))
      /\ (s2 > t.statusSeq <=> AsksStatus(t, r) /\ ~LostStatus)
  BY <1>1, <1>2
<1>5. first = With(i1, t.statusSeq, n1, t.nextStatus, t.revision, t.lastState, e1)
  BY <1>3
<1> HIDE DEF first, i1, n1, e1
<1>6. second = With(i1, s2, n1, n2, t.revision, t.lastState, e2)
  BY <1>5 DEF SentStatus
<1>7. d = IF InfoFails(t, r) THEN first
          ELSE IF AsksStatus(t, r) /\ r.status = "error" THEN second
          ELSE [second EXCEPT !.revision = r.snap.revision, !.lastState = r.snap.state]
  BY DEF Refresh, AsksInfo, AsksStatus, InfoFails, first
<1> HIDE DEF second
<1>8. d = IF InfoFails(t, r)
            THEN With(i1, t.statusSeq, n1, t.nextStatus, t.revision, t.lastState, e1)
          ELSE IF AsksStatus(t, r) /\ r.status = "error"
            THEN With(i1, s2, n1, n2, t.revision, t.lastState, e2)
          ELSE With(i1, s2, n1, n2, r.snap.revision, r.snap.state, e2)
  BY <1>5, <1>6, <1>7
<1> HIDE DEF With
<1>9. AsksInfo(t, r) /\ ~LosesInfo(t, r) <=> AsksInfo(t, r) /\ r.info = "delivered"
  BY DEF LosesInfo
<1>10. n1 = IF AsksInfo(t, r) THEN r.now + InfoPeriod ELSE t.nextInfo
  BY DEF n1
<1> HIDE DEF s2, n2, e2
<1>11. CASE InfoFails(t, r)
  <2>1. d = With(i1, t.statusSeq, n1, t.nextStatus, t.revision, t.lastState, e1)
    BY <1>8, <1>11
  <2>2. ~(t.statusSeq > t.statusSeq) /\ (AsksStatus(t, r) => LosesStatus(t, r))
    BY <1>1, <1>11 DEF LosesStatus
  <2>3. /\ d \in Telemetries /\ d.infoSeq = i1 /\ d.statusSeq = t.statusSeq /\ d.nextInfo = n1
        /\ d.nextStatus = t.nextStatus /\ d.revision = t.revision /\ d.lastState = t.lastState
    BY <1>1, <1>4, <2>1 DEF With, Telemetries
  <2>4. d.infoSeq > t.infoSeq <=> AsksInfo(t, r) /\ r.info = "delivered"
    BY <1>4, <1>9, <2>3
  <2>5. d.statusSeq > t.statusSeq <=> AsksStatus(t, r) /\ ~LosesStatus(t, r)
    BY <2>2, <2>3
  <2> QED BY <1>10, <1>11, <2>3, <2>4, <2>5 DEF Leaves
<1>12. CASE ~InfoFails(t, r)
  <2>1. AsksStatus(t, r) /\ ~LostStatus <=> AsksStatus(t, r) /\ ~LosesStatus(t, r)
    BY <1>12 DEF LosesStatus
  <2>2. n2 = IF AsksStatus(t, r) THEN r.now + StatusPeriod ELSE t.nextStatus
    BY DEF n2
  <2>3. CASE AsksStatus(t, r) /\ r.status = "error"
    <3>1. d = With(i1, s2, n1, n2, t.revision, t.lastState, e2)
      BY <1>8, <1>12, <2>3
    <3>2. /\ d \in Telemetries /\ d.infoSeq = i1 /\ d.statusSeq = s2 /\ d.nextInfo = n1
          /\ d.nextStatus = n2 /\ d.revision = t.revision /\ d.lastState = t.lastState
      BY <1>1, <1>4, <3>1 DEF With, Telemetries
    <3>3. d.infoSeq > t.infoSeq <=> AsksInfo(t, r) /\ r.info = "delivered"
      BY <1>4, <1>9, <3>2
    <3>4. d.statusSeq > t.statusSeq <=> AsksStatus(t, r) /\ ~LosesStatus(t, r)
      BY <1>4, <2>1, <3>2
    <3> QED BY <1>10, <1>12, <2>2, <2>3, <3>2, <3>3, <3>4 DEF Leaves
  <2>4. CASE ~(AsksStatus(t, r) /\ r.status = "error")
    <3>1. d = With(i1, s2, n1, n2, r.snap.revision, r.snap.state, e2)
      BY <1>8, <1>12, <2>4
    <3>2. /\ d \in Telemetries /\ d.infoSeq = i1 /\ d.statusSeq = s2 /\ d.nextInfo = n1
          /\ d.nextStatus = n2 /\ d.revision = r.snap.revision /\ d.lastState = r.snap.state
      BY <1>1, <1>4, <3>1 DEF With, Telemetries
    <3>3. d.infoSeq > t.infoSeq <=> AsksInfo(t, r) /\ r.info = "delivered"
      BY <1>4, <1>9, <3>2
    <3>4. d.statusSeq > t.statusSeq <=> AsksStatus(t, r) /\ ~LosesStatus(t, r)
      BY <1>4, <2>1, <3>2
    <3> QED BY <1>10, <1>12, <2>2, <2>4, <3>2, <3>3, <3>4 DEF Leaves
  <2> QED BY <2>3, <2>4
<1> QED BY <1>11, <1>12

\* The info told last is that of the latest refresh, or the next one is due by
\* the deadline of one that was lost.
InfoKnown(t, told, last, deadlines) ==
  t.nextInfo = 0 \/ told = last \/ t.nextInfo \in deadlines

\* A refresh keeps that, for what it tells and what it loses.
LEMMA InfoStep ==
  ASSUME NEW t \in Telemetries, NEW r \in Refreshes, NEW d, Leaves(t, r, d),
         NEW told, NEW last \in Nat, NEW deadlines,
         t.revision <= last, last <= r.snap.revision, InfoKnown(t, told, last, deadlines)
  PROVE  /\ d \in Telemetries /\ d.revision <= r.snap.revision /\ r.now < d.nextInfo
         /\ \/ d.infoSeq > t.infoSeq
            \/ ~(d.infoSeq > t.infoSeq) /\ told = r.snap.revision
            \/ d.nextInfo \in deadlines
            \/ LosesInfo(t, r) /\ d.nextInfo = r.now + InfoPeriod
<1>1. /\ t.nextInfo \in Nat /\ t.revision \in Nat /\ r.now \in Nat /\ r.snap.revision \in Nat
      /\ d.nextInfo \in Nat
  BY DEF Telemetries, Refreshes, Leaves
<1>2. d \in Telemetries /\ d.revision <= r.snap.revision
  <2>1. d.revision = t.revision \/ d.revision = r.snap.revision
    BY DEF Leaves
  <2> QED BY <1>1, <2>1 DEF Leaves
<1>3. CASE AsksInfo(t, r)
  <2>1. d.nextInfo = r.now + InfoPeriod
    BY <1>3 DEF Leaves
  <2>2. r.now < d.nextInfo
    BY <1>1, <2>1, TelemetryAssumption
  <2>3. CASE r.info = "delivered"
    <3>1. d.infoSeq > t.infoSeq
      BY <1>3, <2>3 DEF Leaves
    <3> QED BY <1>2, <2>2, <3>1
  <2>4. CASE r.info # "delivered"
    BY <1>2, <1>3, <2>1, <2>2, <2>4 DEF LosesInfo
  <2> QED BY <2>3, <2>4
<1>4. CASE ~AsksInfo(t, r)
  <2>1. r.now < t.nextInfo /\ t.revision = r.snap.revision
    BY <1>1, <1>4 DEF AsksInfo, DueInfo
  <2>2. d.nextInfo = t.nextInfo /\ ~(d.infoSeq > t.infoSeq)
    BY <1>4 DEF Leaves
  <2>3. t.nextInfo # 0 /\ last = r.snap.revision
    BY <1>1, <2>1
  <2> QED BY <1>2, <2>1, <2>2, <2>3 DEF InfoKnown
<1> QED BY <1>3, <1>4

\* The same of the status, which is recorded when it was told or refused.
StatusKnown(t, told, deadlines) ==
  \/ t.nextStatus = 0 \/ t.nextStatus \in deadlines
  \/ told.revision = t.revision /\ told.state = t.lastState

\* A refresh keeps that too.
LEMMA StatusStep ==
  ASSUME NEW t \in Telemetries, NEW r \in Refreshes, NEW d, Leaves(t, r, d),
         NEW told, NEW deadlines, StatusKnown(t, told, deadlines)
  PROVE  LET tells == IF d.statusSeq > t.statusSeq THEN r.snap ELSE told IN
         /\ \/ StatusKnown(d, tells, deadlines)
            \/ LosesStatus(t, r) /\ d.nextStatus = r.now + StatusPeriod
         /\ \/ tells.revision = r.snap.revision /\ tells.state = r.snap.state
            \/ d.nextStatus \in deadlines /\ r.now < d.nextStatus
            \/ LosesStatus(t, r)
<1> DEFINE tells == IF d.statusSeq > t.statusSeq THEN r.snap ELSE told
<1>1. \/ t.nextStatus = 0 \/ t.nextStatus \in deadlines
      \/ told.revision = t.revision /\ told.state = t.lastState
  BY DEF StatusKnown
<1>2. /\ t.nextStatus \in Nat /\ r.now \in Nat /\ d.nextStatus \in Nat
      /\ r.now < r.now + StatusPeriod
  BY TelemetryAssumption DEF Telemetries, Refreshes, Leaves
<1> DEFINE fails == InfoFails(t, r) \/ (AsksStatus(t, r) /\ r.status = "error")
<1>3. /\ d.revision = IF fails THEN t.revision ELSE r.snap.revision
      /\ d.lastState = IF fails THEN t.lastState ELSE r.snap.state
      /\ d.nextStatus = IF AsksStatus(t, r) /\ ~InfoFails(t, r) THEN r.now + StatusPeriod
                        ELSE t.nextStatus
      /\ d.statusSeq > t.statusSeq <=> AsksStatus(t, r) /\ ~LosesStatus(t, r)
  BY DEF Leaves
<1>4. CASE ~AsksStatus(t, r)
  <2>1. r.now < t.nextStatus /\ t.lastState = r.snap.state /\ t.revision = r.snap.revision
    BY <1>2, <1>4 DEF AsksStatus, DueStatus
  <2>2. d.nextStatus = t.nextStatus /\ tells = told
    BY <1>3, <1>4
  <2>3. d.revision = t.revision /\ d.lastState = t.lastState
    BY <1>3, <2>1
  <2>4. t.nextStatus # 0
    BY <1>2, <2>1
  <2> QED BY <1>1, <2>1, <2>2, <2>3, <2>4 DEF StatusKnown
<1>5. CASE AsksStatus(t, r) /\ ~LosesStatus(t, r)
  <2>1. ~fails /\ tells = r.snap
    BY <1>3, <1>5 DEF LosesStatus
  <2> QED BY <1>3, <2>1 DEF StatusKnown
<1>6. CASE LosesStatus(t, r)
  <2>1. AsksStatus(t, r) /\ tells = told
    BY <1>3, <1>6 DEF LosesStatus
  <2>2. CASE InfoFails(t, r)
    <3>1. d.nextStatus = t.nextStatus /\ d.revision = t.revision /\ d.lastState = t.lastState
      BY <1>3, <2>2
    <3> QED BY <1>6, <1>1, <2>1, <3>1 DEF StatusKnown
  <2>3. CASE ~InfoFails(t, r)
    BY <1>3, <1>6, <2>1, <2>3
  <2> QED BY <2>2, <2>3
<1> QED BY <1>4, <1>5, <1>6

\* Refreshes one after the other, what is recorded after each, and what a receiver
\* was told last: a packet that is delivered uses its number up.
Reported(refreshes, t, info, status) ==
  /\ refreshes \in [Nat -> Refreshes] /\ t[0] = NewTelemetry
  /\ status[0] = [revision |-> 0, state |-> "none"]
  /\ \A k \in Nat :
       LET r == refreshes[k] IN
       /\ t[k + 1] = Refresh(t[k], r.snap, r.force, r.now, r.info, r.status)
       /\ info[k + 1] = IF t[k + 1].infoSeq > t[k].infoSeq THEN r.snap.revision ELSE info[k]
       /\ status[k + 1] = IF t[k + 1].statusSeq > t[k].statusSeq THEN r.snap ELSE status[k]
       /\ r.snap.revision <= refreshes[k + 1].snap.revision

\* The deadlines of the packets that were lost.
InfoDeadlines(refreshes, t, k) ==
  {refreshes[j].now + InfoPeriod : j \in {i \in Nat : i < k /\ LosesInfo(t[i], refreshes[i])}}
StatusDeadlines(refreshes, t, k) ==
  {refreshes[j].now + StatusPeriod : j \in {i \in Nat : i < k /\ LosesStatus(t[i], refreshes[i])}}

\* What is known before refresh k.
InfoFollows(refreshes, t, info, k) ==
  /\ t[k] \in Telemetries
  /\ \E last \in Nat :
       /\ t[k].revision <= last /\ last <= refreshes[k].snap.revision
       /\ InfoKnown(t[k], info[k], last, InfoDeadlines(refreshes, t, k))
StatusFollows(refreshes, t, status, k) ==
  StatusKnown(t[k], status[k], StatusDeadlines(refreshes, t, k))

\* A refresh, and the deadlines it adds.
LEMMA ReportsAre ==
  ASSUME NEW refreshes, NEW t, NEW info, NEW status, Reported(refreshes, t, info, status),
         NEW k \in Nat
  PROVE  /\ refreshes[k] \in Refreshes /\ k + 1 \in Nat
         /\ refreshes[k].snap.revision \in Nat /\ refreshes[k + 1].snap.revision \in Nat
         /\ refreshes[k].snap.revision <= refreshes[k + 1].snap.revision
         /\ t[k] \in Telemetries => Leaves(t[k], refreshes[k], t[k + 1])
         /\ info[k + 1] = IF t[k + 1].infoSeq > t[k].infoSeq THEN refreshes[k].snap.revision
                          ELSE info[k]
         /\ status[k + 1] = IF t[k + 1].statusSeq > t[k].statusSeq THEN refreshes[k].snap
                            ELSE status[k]
<1> DEFINE r == refreshes[k]
<1>1. k + 1 \in Nat /\ r \in Refreshes /\ refreshes[k + 1] \in Refreshes
  BY DEF Reported
<1>2. \A s \in Refreshes : s.snap.revision \in Nat
  BY DEF Refreshes
<1>3. /\ t[k + 1] = Refresh(t[k], r.snap, r.force, r.now, r.info, r.status)
      /\ info[k + 1] = IF t[k + 1].infoSeq > t[k].infoSeq THEN r.snap.revision ELSE info[k]
      /\ status[k + 1] = IF t[k + 1].statusSeq > t[k].statusSeq THEN r.snap ELSE status[k]
      /\ r.snap.revision <= refreshes[k + 1].snap.revision
  BY DEF Reported
<1>4. t[k] \in Telemetries => Leaves(t[k], r, t[k + 1])
  BY <1>1, <1>3, RefreshLeaves
<1> QED BY <1>1, <1>2, <1>3, <1>4

\* A lost packet adds a deadline, and none goes.
LEMMA DeadlinesGrow ==
  ASSUME NEW refreshes, NEW t, NEW k \in Nat
  PROVE  /\ InfoDeadlines(refreshes, t, k) \subseteq InfoDeadlines(refreshes, t, k + 1)
         /\ StatusDeadlines(refreshes, t, k) \subseteq StatusDeadlines(refreshes, t, k + 1)
         /\ LosesInfo(t[k], refreshes[k]) =>
              refreshes[k].now + InfoPeriod \in InfoDeadlines(refreshes, t, k + 1)
         /\ LosesStatus(t[k], refreshes[k]) =>
              refreshes[k].now + StatusPeriod \in StatusDeadlines(refreshes, t, k + 1)
<1>1. k < k + 1 /\ \A i \in Nat : i < k => i < k + 1
  OBVIOUS
<1> QED BY <1>1 DEF InfoDeadlines, StatusDeadlines

\* One refresh after the others.
LEMMA NextReport ==
  ASSUME NEW refreshes, NEW t, NEW info, NEW status, Reported(refreshes, t, info, status),
         NEW k \in Nat,
         InfoFollows(refreshes, t, info, k), StatusFollows(refreshes, t, status, k)
  PROVE  LET r == refreshes[k] IN
         /\ InfoFollows(refreshes, t, info, k + 1) /\ StatusFollows(refreshes, t, status, k + 1)
         /\ \/ info[k + 1] = r.snap.revision
            \/ \E e \in InfoDeadlines(refreshes, t, k + 1) : r.now < e
         /\ \/ status[k + 1].revision = r.snap.revision /\ status[k + 1].state = r.snap.state
            \/ \E e \in StatusDeadlines(refreshes, t, k + 1) : r.now < e
<1> DEFINE r == refreshes[k]
           infos == InfoDeadlines(refreshes, t, k)
           statuses == StatusDeadlines(refreshes, t, k)
           moreInfos == InfoDeadlines(refreshes, t, k + 1)
           moreStatuses == StatusDeadlines(refreshes, t, k + 1)
<1>1. /\ infos \subseteq moreInfos /\ statuses \subseteq moreStatuses
      /\ LosesInfo(t[k], r) => r.now + InfoPeriod \in moreInfos
      /\ LosesStatus(t[k], r) => r.now + StatusPeriod \in moreStatuses
  BY DeadlinesGrow
<1>2. /\ t[k] \in Telemetries /\ r \in Refreshes /\ Leaves(t[k], r, t[k + 1])
      /\ r.snap.revision \in Nat /\ r.snap.revision <= refreshes[k + 1].snap.revision
      /\ info[k + 1] = IF t[k + 1].infoSeq > t[k].infoSeq THEN r.snap.revision ELSE info[k]
      /\ status[k + 1] = IF t[k + 1].statusSeq > t[k].statusSeq THEN r.snap ELSE status[k]
  BY ReportsAre DEF InfoFollows
<1>3. PICK last \in Nat :
        /\ t[k].revision <= last /\ last <= r.snap.revision
        /\ InfoKnown(t[k], info[k], last, infos)
  BY DEF InfoFollows
<1>4. StatusKnown(t[k], status[k], statuses)
  BY DEF StatusFollows
<1>5. r.now < r.now + StatusPeriod
  BY <1>2, TelemetryAssumption DEF Refreshes
<1> HIDE DEF r, infos, statuses, moreInfos, moreStatuses
<1>6. /\ t[k + 1] \in Telemetries /\ t[k + 1].revision <= r.snap.revision
      /\ r.now < t[k + 1].nextInfo
      /\ \/ info[k + 1] = r.snap.revision
         \/ t[k + 1].nextInfo \in infos
         \/ LosesInfo(t[k], r) /\ t[k + 1].nextInfo = r.now + InfoPeriod
  <2>1. /\ t[k + 1] \in Telemetries /\ t[k + 1].revision <= r.snap.revision
        /\ r.now < t[k + 1].nextInfo
        /\ \/ t[k + 1].infoSeq > t[k].infoSeq
           \/ ~(t[k + 1].infoSeq > t[k].infoSeq) /\ info[k] = r.snap.revision
           \/ t[k + 1].nextInfo \in infos
           \/ LosesInfo(t[k], r) /\ t[k + 1].nextInfo = r.now + InfoPeriod
    BY <1>2, <1>3, InfoStep
  <2> QED BY <1>2, <2>1
<1>7. /\ \/ StatusKnown(t[k + 1], status[k + 1], statuses)
         \/ LosesStatus(t[k], r) /\ t[k + 1].nextStatus = r.now + StatusPeriod
      /\ \/ status[k + 1].revision = r.snap.revision /\ status[k + 1].state = r.snap.state
         \/ t[k + 1].nextStatus \in statuses /\ r.now < t[k + 1].nextStatus
         \/ LosesStatus(t[k], r)
  BY <1>2, <1>4, StatusStep
<1>8. info[k + 1] = r.snap.revision \/ t[k + 1].nextInfo \in moreInfos
  BY <1>1, <1>6
<1>9. InfoFollows(refreshes, t, info, k + 1)
  BY <1>2, <1>6, <1>8 DEF InfoFollows, InfoKnown, moreInfos
<1>10. StatusFollows(refreshes, t, status, k + 1)
  BY <1>1, <1>7 DEF StatusFollows, StatusKnown, moreStatuses
<1>11. \/ status[k + 1].revision = r.snap.revision /\ status[k + 1].state = r.snap.state
       \/ \E e \in moreStatuses : r.now < e
  BY <1>1, <1>5, <1>7
<1> QED BY <1>6, <1>8, <1>9, <1>10, <1>11 DEF r, moreInfos, moreStatuses

\* A receiver knows the source and its state as of the latest refresh, unless a
\* packet that was asked for less than its period ago was lost: osc.rs, refresh,
\* however its packets fare, whatever its clock says, and however often it is
\* forced, for revisions that do not decrease.
THEOREM ReceiversStayTold ==
  ASSUME NEW refreshes, NEW t, NEW info, NEW status, Reported(refreshes, t, info, status),
         NEW k \in Nat
  PROVE  LET r == refreshes[k] IN
         /\ \/ info[k + 1] = r.snap.revision
            \/ \E j \in 0 .. k : /\ LosesInfo(t[j], refreshes[j])
                                 /\ r.now < refreshes[j].now + InfoPeriod
         /\ \/ status[k + 1].revision = r.snap.revision /\ status[k + 1].state = r.snap.state
            \/ \E j \in 0 .. k : /\ LosesStatus(t[j], refreshes[j])
                                 /\ r.now < refreshes[j].now + StatusPeriod
<1> DEFINE S == {n \in Nat : InfoFollows(refreshes, t, info, n)
                              /\ StatusFollows(refreshes, t, status, n)}
<1>1. 0 \in S
  <2>1. t[0] = NewTelemetry
    BY DEF Reported
  <2>2. 0 \in Nat
    OBVIOUS
  <2>3. refreshes[0].snap.revision \in Nat
    BY <2>2, ReportsAre
  <2>4. /\ NewTelemetry \in Telemetries /\ NewTelemetry.nextInfo = 0
        /\ NewTelemetry.nextStatus = 0 /\ NewTelemetry.revision = 0
    <3>1. "none" \in LastStates
      BY DEF LastStates
    <3>2. /\ NewTelemetry.nextInfo = 0 /\ NewTelemetry.nextStatus = 0 /\ NewTelemetry.revision = 0
      BY DEF NewTelemetry
    <3>3. NewTelemetry \in Telemetries
      BY <3>1 DEF NewTelemetry, Telemetries
    <3> QED BY <3>2, <3>3
  <2>5. t[0] \in Telemetries /\ t[0].nextInfo = 0 /\ t[0].nextStatus = 0 /\ t[0].revision = 0
    BY <2>1, <2>4
  <2>6. /\ t[0].revision <= 0 /\ 0 <= refreshes[0].snap.revision
    BY <2>5, <2>3
  <2> QED BY <2>5, <2>6, <2>2 DEF InfoFollows, InfoKnown, StatusFollows, StatusKnown
<1>2. \A n \in Nat : n \in S => n + 1 \in S
  BY NextReport
<1>3. k \in S
  <2> HIDE DEF S
  <2> QED BY <1>1, <1>2, SetInduction
<1>4. /\ \/ info[k + 1] = refreshes[k].snap.revision
         \/ \E e \in InfoDeadlines(refreshes, t, k + 1) : refreshes[k].now < e
      /\ \/ /\ status[k + 1].revision = refreshes[k].snap.revision
            /\ status[k + 1].state = refreshes[k].snap.state
         \/ \E e \in StatusDeadlines(refreshes, t, k + 1) : refreshes[k].now < e
  BY <1>3, NextReport
<1>5. \A j \in Nat : j < k + 1 => j \in 0 .. k
  OBVIOUS
<1> QED BY <1>4, <1>5 DEF InfoDeadlines, StatusDeadlines

=============================================================================
