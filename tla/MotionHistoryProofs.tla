------------------------- MODULE MotionHistoryProofs -------------------------
(***************************************************************************)
(* Proofs about MotionHistory, for every capacity, batch size and set of   *)
(* readers: the ring implements the feed; and about the SampleClock that   *)
(* gives the samples their times.                                          *)
(***************************************************************************)
EXTENDS MotionHistory, SampleClock, TLAPS, SequenceTheorems, WellFoundedInduction

Old == Len(records)
Excess(n) == IF Old + n > Capacity THEN Old + n - Capacity ELSE 0
\* A delivery of n poses.
Fresh(n, d) == [i \in 1 .. n |-> [id |-> source, sequence |-> samples + i, delivery |-> d]]

LEMMA SomeCapacity == Capacity \in Nat /\ Capacity > 0
BY HistoryAssumption

\* The last elements of a concatenation.
LEMMA LastOfConcat ==
  ASSUME NEW S, NEW s \in Seq(S), NEW t \in Seq(S), NEW e \in 0 .. Len(s) + Len(t)
  PROVE  LET last == SubSeq(s \o t, e + 1, Len(s) + Len(t)) IN
         /\ last \in Seq(S)
         /\ Len(last) = Len(s) + Len(t) - e
         /\ \A i \in 1 .. Len(s) + Len(t) - e :
              last[i] = IF i + e <= Len(s) THEN s[i + e] ELSE t[i + e - Len(s)]
<1> DEFINE all == s \o t
           m == e + 1
           k == Len(s) + Len(t)
           last == SubSeq(all, m, k)
<1>1. /\ all \in Seq(S) /\ Len(all) = k
      /\ \A i \in 1 .. k : all[i] = IF i <= Len(s) THEN s[i] ELSE t[i - Len(s)]
  BY ConcatProperties
<1>2. Len(s) \in Nat /\ Len(t) \in Nat
  BY LenProperties
<1>3. m \in Int /\ k \in Int /\ e \in Nat /\ e <= k /\ m = e + 1
  BY <1>2
<1> HIDE DEF all, m, k
<1>4. \A i \in m .. k : all[i] \in S
  <2>1. \A i \in m .. k : i \in 1 .. Len(all)
    BY <1>1, <1>3
  <2>2. QED
    BY <1>1, <2>1, ElementOfSeq
<1>5. /\ last \in Seq(S)
      /\ Len(last) = IF m <= k THEN k - m + 1 ELSE 0
      /\ \A i \in 1 .. k - m + 1 : last[i] = all[m + i - 1]
  BY <1>3, <1>4, SubSeqProperties
<1> HIDE DEF last
<1>6. Len(last) = k - e
  BY <1>3, <1>5
<1>7. ASSUME NEW i \in 1 .. k - e
      PROVE  last[i] = IF i + e <= Len(s) THEN s[i + e] ELSE t[i + e - Len(s)]
  <2>1. i \in 1 .. k - m + 1 /\ m + i - 1 = i + e /\ i + e \in 1 .. k
    BY <1>3
  <2>2. QED
    BY <2>1, <1>1, <1>5
<1>8. QED
  BY <1>5, <1>6, <1>7 DEF last, all, m, k

\* The poses of a delivery are records.
LEMMA FreshIsASequence ==
  ASSUME TypeOK, NEW n \in Nat, NEW d \in Nat
  PROVE  Fresh(n, d) \in Seq(Records) /\ Len(Fresh(n, d)) = n
<1> DEFINE new == Fresh(n, d)
<1>1. source \in Nat \X Nat /\ samples \in Nat
  BY DEF TypeOK, source
<1>2. \A i \in 1 .. n : [id |-> source, sequence |-> samples + i, delivery |-> d] \in Records
  BY <1>1 DEF Records
<1>3. new \in [1 .. n -> Records] /\ DOMAIN new = 1 .. n
  BY <1>2 DEF Fresh
<1> HIDE DEF new
<1>4. new \in Seq(Records)
  BY <1>3, SeqDef
<1>5. Len(new) \in Nat /\ DOMAIN new = 1 .. Len(new)
  BY <1>4, LenProperties
<1>6. Len(new) = n
  BY <1>3, <1>5
<1>7. QED
  BY <1>4, <1>6 DEF new

\* What push leaves of the ring.
LEMMA PushKeepsTheNewest ==
  ASSUME TypeOK, NEW n \in Nat, NEW d \in Nat
  PROVE  /\ Pushed(Fresh(n, d)) \in Seq(Records)
         /\ Len(Pushed(Fresh(n, d))) = Old + n - Excess(n)
         /\ \A i \in 1 .. Old + n - Excess(n) :
              Pushed(Fresh(n, d))[i] =
                IF i + Excess(n) <= Old THEN records[i + Excess(n)]
                ELSE Fresh(n, d)[i + Excess(n) - Old]
<1> DEFINE new == Fresh(n, d)
<1>1. new \in Seq(Records) /\ Len(new) = n
  BY FreshIsASequence
<1>2. records \in Seq(Records)
  BY DEF TypeOK
<1>3. Old \in Nat
  BY <1>2, LenProperties DEF Old
<1>4. Excess(n) \in 0 .. Len(records) + Len(new)
  BY <1>1, <1>3, SomeCapacity DEF Excess, Old
<1> HIDE DEF new
<1>5. PICK e \in 0 .. Len(records) + Len(new) : e = Excess(n)
  BY <1>4
<1> DEFINE all == records \o new
           last == SubSeq(all, e + 1, Len(records) + Len(new))
<1>6. Pushed(new) = last
  <2>1. Len(all) = Len(records) + Len(new)
    BY <1>1, <1>2, ConcatProperties
  <2>2. Pushed(new) =
          SubSeq(all, (IF Len(all) > Capacity THEN Len(all) - Capacity ELSE 0) + 1, Len(all))
    BY DEF Pushed
  <2> HIDE DEF all
  <2>3. (IF Len(all) > Capacity THEN Len(all) - Capacity ELSE 0) = e
    BY <2>1, <1>1, <1>3, <1>5, SomeCapacity DEF Excess, Old
  <2>4. QED
    BY <2>1, <2>2, <2>3
<1>7. /\ last \in Seq(Records)
      /\ Len(last) = Len(records) + Len(new) - e
      /\ \A i \in 1 .. Len(records) + Len(new) - e :
           last[i] = IF i + e <= Len(records) THEN records[i + e] ELSE new[i + e - Len(records)]
  BY <1>1, <1>2, LastOfConcat
<1> HIDE DEF last
<1>8. QED
  BY <1>1, <1>5, <1>6, <1>7 DEF new, Old

-----------------------------------------------------------------------------
(***************************************************************************)
(* Types.                                                                  *)
(***************************************************************************)

LEMMA RingTypes ==
  ASSUME TypeOK, [Next]_vars
  PROVE  /\ records' \in Seq(Records) /\ Len(records') <= Capacity
         /\ samples' \in Nat /\ delivery' \in Nat
<1>1. CASE UNCHANGED <<records, samples, delivery>>
  BY <1>1 DEF TypeOK
<1>2. CASE Cleared
  BY <1>2, SomeCapacity DEF Cleared
<1>3. CASE PublishBatch
  <2>1. PICK n \in 0 .. MaxBatch :
          samples' = samples + n /\ records' = Pushed(Fresh(n, delivery'))
    BY <1>3 DEF PublishBatch, Fresh
  <2>2. n \in Nat /\ delivery' \in Nat
    BY <1>3 DEF PublishBatch, TypeOK
  <2>3. Old \in Nat /\ Old <= Capacity
    BY LenProperties DEF TypeOK, Old
  <2>4. records' \in Seq(Records) /\ Len(records') = Old + n - Excess(n)
    BY <2>1, <2>2, PushKeepsTheNewest
  <2>5. QED
    BY <2>1, <2>2, <2>3, <2>4, SomeCapacity DEF Excess, TypeOK
<1>4. QED
  BY <1>1, <1>2, <1>3 DEF Next, SetConfig, Start, MagneticStart, Stop, BeginSession, Poll, Forget, vars

LEMMA NewestType ==
  ASSUME TypeOK
  PROVE  Newest \in [id : Nat \X Nat, sequence : Nat]
<1>1. CASE records = <<>>
  BY <1>1 DEF Newest, None
<1>2. CASE records # <<>>
  <2>1. Len(records) \in 1 .. Len(records)
    BY <1>2, EmptySeq, LenProperties DEF TypeOK
  <2>2. records[Len(records)] \in Records
    BY <2>1, ElementOfSeq DEF TypeOK
  <2>3. QED
    BY <1>2, <2>2 DEF Newest, Records
<1>3. QED
  BY <1>1, <1>2

LEMMA RecordTypes ==
  ASSUME TypeOK, NEW i \in 1 .. Len(records)
  PROVE  records[i] \in Records /\ records[i].sequence \in Nat /\ records[i].delivery \in Nat
<1>1. records \in Seq(Records)
  BY DEF TypeOK
<1>2. records[i] \in Records
  BY <1>1, ElementOfSeq
<1>3. QED
  BY <1>2 DEF Records

LEMMA AnswerTypes ==
  ASSUME TypeOK, NEW c \in [id : Nat \X Nat, sequence : Nat]
  PROVE  Overrun(c) \in Nat /\ Reset(c) \in BOOLEAN
         /\ {records[i].sequence : i \in Unread(c)} \in SUBSET Nat
<1>1. After(c) \in Nat
  BY DEF After
<1>2. records # <<>> => records[1].sequence \in Nat
  <2>1. records # <<>> => 1 \in 1 .. Len(records)
    BY EmptySeq DEF TypeOK
  <2>2. QED
    BY <2>1, RecordTypes
<1>3. Overrun(c) \in Nat
  BY <1>1, <1>2 DEF Overrun
<1>4. Reset(c) \in BOOLEAN
  BY DEF Reset, Foreign
<1>5. {records[i].sequence : i \in Unread(c)} \in SUBSET Nat
  BY RecordTypes DEF Unread
<1>6. QED
  BY <1>3, <1>4, <1>5

LEMMA TypesStep ==
  ASSUME TypeOK, [Next]_vars
  PROVE  TypeOK'
<1>1. /\ records' \in Seq(Records) /\ Len(records') <= Capacity
      /\ samples' \in Nat /\ delivery' \in Nat
  BY RingTypes
<1>2. running' \in BOOLEAN
  BY DEF TypeOK, Next, SetConfig, Start, MagneticStart, Stop, BeginSession, PublishBatch, Poll, Forget,
     vars
<1>3. instance' \in Nat /\ session' \in Nat /\ ids' \in Nat
  BY DEF TypeOK, Next, SetConfig, Start, MagneticStart, Stop, BeginSession, PublishBatch, Poll, Forget,
     vars
<1>4. /\ cursor' \in [Readers -> [id : Nat \X Nat, sequence : Nat]]
      /\ batch' \in [Readers -> [reset : BOOLEAN, overrun : Nat, samples : SUBSET Nat]]
      /\ latest' \in [Readers -> Records]
  <2>1. CASE UNCHANGED readerVars
    BY <2>1 DEF readerVars, TypeOK
  <2>2. ASSUME NEW r \in Readers, Poll(r)
        PROVE  /\ cursor' \in [Readers -> [id : Nat \X Nat, sequence : Nat]]
               /\ batch' \in [Readers -> [reset : BOOLEAN, overrun : Nat, samples : SUBSET Nat]]
               /\ latest' \in [Readers -> Records]
    <3>1. cursor[r] \in [id : Nat \X Nat, sequence : Nat]
      BY DEF TypeOK
    <3>2. cursor' \in [Readers -> [id : Nat \X Nat, sequence : Nat]]
      BY <2>2, NewestType DEF Poll, TypeOK
    <3>3. [reset |-> Reset(cursor[r]), overrun |-> Overrun(cursor[r]),
           samples |-> {records[i].sequence : i \in Unread(cursor[r])}]
            \in [reset : BOOLEAN, overrun : Nat, samples : SUBSET Nat]
      BY <3>1, AnswerTypes
    <3>4. batch' \in [Readers -> [reset : BOOLEAN, overrun : Nat, samples : SUBSET Nat]]
      BY <2>2, <3>3 DEF Poll, TypeOK
    <3>5. Unread(cursor[r]) # {} => records[Len(records)] \in Records
      <4>1. Unread(cursor[r]) # {} => Len(records) \in 1 .. Len(records)
        BY LenProperties DEF Unread, TypeOK
      <4>2. QED
        BY <4>1, RecordTypes
    <3>6. NoSample \in Records /\ latest[r] \in Records
      BY DEF NoSample, Records, TypeOK
    <3>7. latest' \in [Readers -> Records]
      BY <2>2, <3>5, <3>6 DEF Poll, TypeOK
    <3>8. QED
      BY <3>2, <3>4, <3>7
  <2>3. ASSUME NEW r \in Readers, Forget(r)
        PROVE  /\ cursor' \in [Readers -> [id : Nat \X Nat, sequence : Nat]]
               /\ batch' = batch
               /\ latest' \in [Readers -> Records]
    BY <2>3 DEF Forget, TypeOK, None, NoSample, Records
  <2>4. batch \in [Readers -> [reset : BOOLEAN, overrun : Nat, samples : SUBSET Nat]]
    BY DEF TypeOK
  <2>5. QED
    BY <2>1, <2>2, <2>3, <2>4 DEF Next, SetConfig, Start, MagneticStart, Stop, BeginSession, PublishBatch,
       vars
<1>5. QED
  BY <1>1, <1>2, <1>3, <1>4 DEF TypeOK

LEMMA TypesAtFirst ==
  ASSUME Init
  PROVE  TypeOK
<1>1. /\ running \in BOOLEAN /\ instance \in Nat /\ session \in Nat /\ ids \in Nat
      /\ samples \in Nat /\ delivery \in Nat
  BY DEF Init
<1>2. records \in Seq(Records) /\ Len(records) <= Capacity
  BY EmptySeq, SomeCapacity DEF Init
<1>3. /\ cursor \in [Readers -> [id : Nat \X Nat, sequence : Nat]]
      /\ latest \in [Readers -> Records]
  BY DEF Init, None, NoSample, Records
<1>4. batch \in [Readers -> [reset : BOOLEAN, overrun : Nat, samples : SUBSET Nat]]
  BY DEF Init, NoBatch
<1>5. QED
  BY <1>1, <1>2, <1>3, <1>4 DEF TypeOK

\* Every variable keeps its type, and the ring its capacity.
THEOREM HistoryTypeCorrect == Spec => []TypeOK
<1>1. Init => TypeOK
  BY TypesAtFirst
<1>2. QED
  BY <1>1, TypesStep, PTL DEF Spec

-----------------------------------------------------------------------------
(***************************************************************************)
(* The inductive invariant.  The records are the last samples of this      *)
(* session in order; a cursor names a sample that was read in a session    *)
(* that is drawn already, and one of this session a sample there is; the   *)
(* sample a reader goes on with is of the session of its cursor; whatever  *)
(* came after that sample came in a later delivery.                        *)
(***************************************************************************)

Ring ==
  /\ Len(records) = IF samples > Capacity THEN Capacity ELSE samples
  /\ \A i \in 1 .. Len(records) :
       records[i].id = source /\ records[i].sequence = samples - Len(records) + i
  /\ samples # 0 => session # 0

CursorHeld(c) ==
  c # None =>
    /\ c.id[2] # 0 /\ c.id[2] <= ids /\ c.sequence # 0
    /\ c.id = source => c.sequence <= samples
Cursors == session <= ids /\ \A r \in Readers : CursorHeld(cursor[r])

Latest ==
  \A r \in Readers : latest[r] # NoSample => cursor[r] # None /\ cursor[r].id = latest[r].id

Deliveries ==
  /\ \A i \in 1 .. Len(records) : records[i].delivery <= delivery
  /\ \A r \in Readers : latest[r] # NoSample /\ latest[r].id = source =>
       /\ latest[r].delivery <= delivery
       /\ \A i \in 1 .. Len(records) :
            records[i].sequence > latest[r].sequence => records[i].delivery > latest[r].delivery

Inv == TypeOK /\ Ring /\ Cursors /\ Latest /\ Deliveries

\* What a step can do: another session, a delivery, a query, or none of them.
Renewed ==
  /\ Cleared /\ UNCHANGED readerVars
  /\ session' = 0 \/ session' > ids
  /\ session' <= ids' /\ ids <= ids'
Idle == UNCHANGED <<source, ids, samples, records, delivery, readerVars>>

LEMMA StepKinds ==
  ASSUME TypeOK, [Next]_vars
  PROVE  Renewed \/ PublishBatch \/ Idle \/ \E r \in Readers : Poll(r) \/ Forget(r)
<1>1. ids \in Nat
  BY DEF TypeOK
<1>2. CASE SetConfig \/ Start \/ MagneticStart \/ BeginSession
  BY <1>1, <1>2 DEF SetConfig, Start, MagneticStart, BeginSession, Renewed
<1>3. CASE Stop
  BY <1>3 DEF Stop, Idle, source, readerVars
<1>4. CASE UNCHANGED vars
  BY <1>4 DEF vars, Idle, source, readerVars
<1>5. QED
  BY <1>2, <1>3, <1>4 DEF Next

LEMMA RingFacts ==
  ASSUME TypeOK, Ring
  PROVE  /\ Len(records) \in Nat /\ samples \in Nat /\ delivery \in Nat
         /\ Len(records) <= samples /\ Len(records) <= Capacity
         /\ Len(records) = 0 <=> samples = 0
         /\ records = <<>> <=> samples = 0
<1>1. records \in Seq(Records) /\ samples \in Nat /\ delivery \in Nat
  BY DEF TypeOK
<1>2. Len(records) \in Nat /\ (records = <<>> <=> Len(records) = 0)
  BY <1>1, LenProperties, EmptySeq
<1>3. Len(records) = IF samples > Capacity THEN Capacity ELSE samples
  BY DEF Ring
<1>4. QED
  BY <1>1, <1>2, <1>3, SomeCapacity

\* After a query every cursor names the newest sample there is.
LEMMA NewestIsLast ==
  ASSUME TypeOK, Ring
  PROVE  /\ Newest = IF samples = 0 THEN None ELSE [id |-> source, sequence |-> samples]
         /\ samples # 0 =>
              /\ Len(records) \in 1 .. Len(records)
              /\ records[Len(records)].id = source
              /\ records[Len(records)].sequence = samples
<1>1. CASE samples = 0
  BY <1>1, RingFacts DEF Newest
<1>2. CASE samples # 0
  <2>1. Len(records) \in 1 .. Len(records) /\ records # <<>>
    BY <1>2, RingFacts
  <2>2. records[Len(records)].id = source /\ records[Len(records)].sequence = samples
    BY <2>1, RingFacts DEF Ring
  <2>3. QED
    BY <1>2, <2>1, <2>2 DEF Newest
<1>3. QED
  BY <1>1, <1>2

LEMMA NewSource ==
  ASSUME Inv, Renewed, NEW r \in Readers
  PROVE  /\ cursor[r] # None => cursor[r].id # source'
         /\ latest[r] # NoSample => latest[r].id # source'
<1>1. cursor[r] # None => cursor[r].id[2] # 0 /\ cursor[r].id[2] <= ids
  BY DEF Inv, Cursors, CursorHeld
<1>2. cursor[r].id \in Nat \X Nat
  BY DEF Inv, TypeOK
<1>3. ASSUME cursor[r] # None PROVE cursor[r].id # source'
  <2>1. source'[2] = session'
    BY DEF source
  <2>2. cursor[r].id[2] # session'
    BY <1>1, <1>2, <1>3 DEF Inv, TypeOK, Renewed
  <2>3. QED
    BY <2>1, <2>2
<1>4. QED
  BY <1>3 DEF Inv, Latest

LEMMA RingStep ==
  ASSUME Inv, [Next]_vars
  PROVE  Ring'
<1>1. CASE Renewed
  BY <1>1, SomeCapacity, EmptySeq DEF Renewed, Cleared, Ring
<1>2. CASE UNCHANGED <<source, samples, records>>
  BY <1>2 DEF Inv, Ring, source
<1>3. CASE PublishBatch
  <2>1. PICK n \in 0 .. MaxBatch :
          samples' = samples + n /\ records' = Pushed(Fresh(n, delivery'))
    BY <1>3 DEF PublishBatch, Fresh
  <2>2. n \in Nat /\ delivery' \in Nat /\ source' = source /\ session # 0 /\ session' = session
    BY <1>3 DEF PublishBatch, Inv, TypeOK, source
  <2>3. Old \in Nat /\ samples \in Nat /\ Old = IF samples > Capacity THEN Capacity ELSE samples
    BY RingFacts DEF Inv, Ring, Old
  <2>4. Excess(n) \in Nat /\ Excess(n) = IF Old + n > Capacity THEN Old + n - Capacity ELSE 0
    BY <2>2, <2>3, SomeCapacity DEF Excess
  <2>5. /\ Len(records') = Old + n - Excess(n)
        /\ \A i \in 1 .. Old + n - Excess(n) :
             records'[i] = IF i + Excess(n) <= Old THEN records[i + Excess(n)]
                           ELSE Fresh(n, delivery')[i + Excess(n) - Old]
    BY <2>1, <2>2, PushKeepsTheNewest DEF Inv
  <2>6. Len(records') = IF samples' > Capacity THEN Capacity ELSE samples'
    BY <2>1, <2>2, <2>3, <2>4, <2>5, SomeCapacity
  <2>7. ASSUME NEW i \in 1 .. Len(records')
        PROVE  records'[i].id = source /\ records'[i].sequence = samples' - Len(records') + i
    <3>1. i \in Nat /\ i >= 1 /\ i + Excess(n) <= Old + n /\ i \in 1 .. Old + n - Excess(n)
      BY <2>2, <2>3, <2>4, <2>5
    <3>2. CASE i + Excess(n) <= Old
      <4>1. records'[i] = records[i + Excess(n)]
        BY <2>5, <3>1, <3>2
      <4>2. i + Excess(n) \in 1 .. Len(records)
        BY <2>3, <2>4, <3>1, <3>2 DEF Old
      <4>3. /\ records[i + Excess(n)].id = source
            /\ records[i + Excess(n)].sequence = samples - Len(records) + (i + Excess(n))
        BY <4>2 DEF Inv, Ring
      <4>4. samples' - Len(records') + i = samples - Old + (i + Excess(n))
        BY <2>1, <2>2, <2>3, <2>4, <2>5, <3>1
      <4>5. QED
        BY <4>1, <4>3, <4>4 DEF Old
    <3>3. CASE ~(i + Excess(n) <= Old)
      <4>1. i + Excess(n) - Old \in 1 .. n
        BY <2>2, <2>3, <2>4, <3>1, <3>3
      <4>2. records'[i] = [id |-> source, sequence |-> samples + (i + Excess(n) - Old), delivery |-> delivery']
        BY <2>5, <3>1, <3>3, <4>1 DEF Fresh
      <4>3. samples' - Len(records') + i = samples + (i + Excess(n) - Old)
        <5>1. samples' = samples + n /\ Len(records') = Old + n - Excess(n)
          BY <2>1, <2>5
        <5>2. QED
          BY <5>1, <2>2, <2>3, <2>4, <3>1
      <4>4. QED
        BY <4>2, <4>3
    <3>4. QED
      BY <3>2, <3>3
  <2>8. QED
    BY <2>2, <2>6, <2>7 DEF Ring
<1>4. QED
  BY <1>1, <1>2, <1>3, StepKinds DEF Inv, Idle, Poll, Forget, source

LEMMA CursorsStep ==
  ASSUME Inv, [Next]_vars
  PROVE  Cursors'
<1>1. CASE Renewed
  <2>1. session' <= ids' /\ ids <= ids' /\ ids \in Nat /\ ids' \in Nat
    BY <1>1, TypesStep DEF Renewed, Inv, TypeOK
  <2>2. ASSUME NEW r \in Readers PROVE CursorHeld(cursor[r])'
    <3>1. cursor'[r] = cursor[r] /\ cursor[r].id \in Nat \X Nat
      BY <1>1 DEF Renewed, readerVars, Inv, TypeOK
    <3>2. cursor[r] # None => cursor[r].id # source'
      BY <1>1, NewSource
    <3>3. QED
      BY <2>1, <3>1, <3>2 DEF CursorHeld, Inv, Cursors
  <2>3. QED
    BY <2>1, <2>2 DEF Cursors
<1>2. CASE PublishBatch
  <2>1. samples <= samples' /\ source' = source /\ session' = session /\ ids' = ids /\ cursor' = cursor
    BY <1>2 DEF PublishBatch, Inv, TypeOK, source, readerVars
  <2>2. samples \in Nat /\ samples' \in Nat /\ \A r \in Readers : cursor[r].sequence \in Nat
    BY TypesStep DEF Inv, TypeOK
  <2>3. QED
    BY <2>1, <2>2 DEF Inv, Cursors, CursorHeld
<1>3. CASE Idle
  BY <1>3 DEF Idle, readerVars, source, Inv, Cursors, CursorHeld
<1>4. ASSUME NEW r \in Readers, Poll(r) PROVE Cursors'
  <2>1. /\ UNCHANGED <<instance, session, ids, samples>>
        /\ cursor' = [cursor EXCEPT ![r] = Newest]
    BY <1>4 DEF Poll
  <2>2. CursorHeld(Newest)
    <3>1. CASE samples = 0
      BY <3>1, NewestIsLast DEF CursorHeld, Inv
    <3>2. CASE samples # 0
      <4>1. Newest = [id |-> source, sequence |-> samples] /\ session # 0 /\ session <= ids
        BY <3>2, NewestIsLast DEF Inv, Ring, Cursors
      <4>2. Newest.id[2] = session /\ Newest.sequence = samples /\ samples \in Nat
        BY <4>1 DEF source, Inv, TypeOK
      <4>3. QED
        BY <3>2, <4>1, <4>2 DEF CursorHeld
    <3>3. QED
      BY <3>1, <3>2
  <2>3. ASSUME NEW s \in Readers PROVE CursorHeld(cursor'[s])
    <3>1. cursor'[s] = IF s = r THEN Newest ELSE cursor[s]
      BY <2>1 DEF Inv, TypeOK
    <3>2. QED
      BY <2>2, <3>1 DEF Inv, Cursors
  <2>4. QED
    BY <2>1, <2>3 DEF Cursors, CursorHeld, source, Inv
<1>5. ASSUME NEW r \in Readers, Forget(r) PROVE Cursors'
  <2>1. /\ UNCHANGED <<instance, session, ids, samples>>
        /\ \A s \in Readers : cursor'[s] = IF s = r THEN None ELSE cursor[s]
    BY <1>5 DEF Forget, Inv, TypeOK
  <2>2. QED
    BY <2>1 DEF Inv, Cursors, CursorHeld, source
<1>6. QED
  BY <1>1, <1>2, <1>3, <1>4, <1>5, StepKinds DEF Inv

\* What a query answers, said of the samples of the session.
LEMMA AnswerIsOfTheFeed ==
  ASSUME Inv, NEW r \in Readers
  PROVE  LET c == cursor[r]
             held == c # None /\ c.id = source
             position == IF held THEN c.sequence ELSE 0
             evicted == Feed!Behind(samples, Capacity) IN
         /\ Reset(c) = (c # None /\ ~held)
         /\ Overrun(c) = IF held THEN Feed!Behind(evicted, position) ELSE 0
         /\ {records[i].sequence : i \in Unread(c)} = Feed!Later(position, evicted) + 1 .. samples
         /\ Unread(c) # {} => samples # 0
<1> DEFINE c == cursor[r]
           held == c # None /\ c.id = source
           position == IF held THEN c.sequence ELSE 0
           evicted == Feed!Behind(samples, Capacity)
<1>1. c.sequence \in Nat /\ CursorHeld(c)
  BY DEF Inv, TypeOK, Cursors
<1>2. /\ Len(records) \in Nat /\ samples \in Nat /\ Len(records) <= samples
      /\ records = <<>> <=> samples = 0
      /\ Len(records) = 0 <=> samples = 0
  BY RingFacts DEF Inv
<1>3. evicted = samples - Len(records)
  BY <1>2, SomeCapacity DEF Feed!Behind, Inv, Ring
<1>4. held => samples # 0 /\ c.sequence \in 1 .. samples
  BY <1>1, <1>2 DEF CursorHeld
<1>5. samples # 0 => Newest.id = source /\ Newest.sequence = samples
  BY NewestIsLast DEF Inv
<1>6. Foreign(c) <=> c # None /\ samples # 0 /\ ~held
  BY <1>1, <1>2, <1>4, <1>5 DEF Foreign
<1>7. samples # 0 => After(c) = position
  BY <1>6 DEF After, None
<1>8. \A i \in 1 .. Len(records) : records[i].sequence = evicted + i
  BY <1>2, <1>3 DEF Inv, Ring
<1> HIDE DEF c, position, evicted
<1>9. position \in Nat /\ position <= samples /\ evicted \in Nat /\ evicted <= samples
  BY <1>1, <1>2, <1>3, <1>4 DEF position
<1>10. Reset(c) = (c # None /\ ~held)
  BY <1>6 DEF Reset
<1>11. Overrun(c) = IF held THEN Feed!Behind(evicted, position) ELSE 0
  <2>1. CASE held
    <3>1. records # <<>> /\ records[1].sequence = evicted + 1 /\ ~Foreign(c) /\ After(c) = position
      BY <2>1, <1>2, <1>4, <1>6, <1>7, <1>8
    <3>2. QED
      BY <2>1, <3>1, <1>9 DEF Overrun, Feed!Behind
  <2>2. CASE ~held
    BY <2>2, <1>2, <1>6 DEF Overrun
  <2>3. QED
    BY <2>1, <2>2
<1>12. Unread(c) # {} => samples # 0
  BY <1>2 DEF Unread
<1>13. {records[i].sequence : i \in Unread(c)} = Feed!Later(position, evicted) + 1 .. samples
  <2>1. CASE samples = 0
    <3>1. Unread(c) = {} /\ position = 0 /\ evicted = 0
      BY <2>1, <1>2, <1>9 DEF Unread
    <3>2. QED
      BY <2>1, <3>1 DEF Feed!Later
  <2>2. CASE samples # 0
    <3>1. Unread(c) = {i \in 1 .. Len(records) : evicted + i > position}
      BY <2>2, <1>7, <1>8 DEF Unread
    <3>2. ASSUME NEW x \in {records[i].sequence : i \in Unread(c)}
          PROVE  x \in Feed!Later(position, evicted) + 1 .. samples
      <4>1. PICK i \in 1 .. Len(records) : x = evicted + i /\ evicted + i > position
        BY <3>1, <1>8
      <4>2. QED
        BY <4>1, <1>2, <1>3, <1>9 DEF Feed!Later
    <3>3. ASSUME NEW x \in Feed!Later(position, evicted) + 1 .. samples
          PROVE  x \in {records[i].sequence : i \in Unread(c)}
      <4>1. x \in Nat /\ x > position /\ x > evicted /\ x <= samples
        BY <1>9 DEF Feed!Later
      <4>2. x - evicted \in 1 .. Len(records) /\ evicted + (x - evicted) = x
        BY <4>1, <1>2, <1>3, <1>9
      <4>3. records[x - evicted].sequence = x /\ x - evicted \in Unread(c)
        BY <4>1, <4>2, <3>1, <1>8
      <4>4. QED
        BY <4>3
    <3>4. QED
      BY <3>2, <3>3
  <2>3. QED
    BY <2>1, <2>2
<1>14. QED
  BY <1>10, <1>11, <1>12, <1>13 DEF c, position, evicted

\* What a query leaves its reader with.
LEMMA QueryLeaves ==
  ASSUME Inv, NEW r \in Readers, Poll(r)
  PROVE  /\ cursor'[r] = IF samples = 0 THEN None ELSE [id |-> source, sequence |-> samples]
         /\ latest'[r] # NoSample => latest'[r].id = source /\ cursor'[r] # None
         /\ \/ latest'[r] = records[Len(records)] /\ samples # 0
            \/ latest'[r] \in {NoSample, latest[r]}
<1>1. /\ cursor'[r] = Newest
      /\ latest'[r] = IF Unread(cursor[r]) # {} THEN records[Len(records)]
                      ELSE IF Reset(cursor[r]) THEN NoSample ELSE latest[r]
  BY DEF Poll, Inv, TypeOK
<1>2. cursor'[r] = IF samples = 0 THEN None ELSE [id |-> source, sequence |-> samples]
  BY <1>1, NewestIsLast DEF Inv
<1>3. samples # 0 => cursor'[r] # None
  BY <1>2 DEF None, Inv, TypeOK
<1>4. CASE Unread(cursor[r]) # {}
  <2>1. samples # 0
    BY <1>4, AnswerIsOfTheFeed
  <2>2. latest'[r] = records[Len(records)] /\ records[Len(records)].id = source
    BY <1>1, <1>4, <2>1, NewestIsLast DEF Inv
  <2>3. QED
    BY <1>2, <1>3, <2>1, <2>2
<1>5. CASE Unread(cursor[r]) = {} /\ Reset(cursor[r])
  BY <1>1, <1>2, <1>5
<1>6. CASE Unread(cursor[r]) = {} /\ ~Reset(cursor[r])
  <2>1. latest'[r] = latest[r]
    BY <1>1, <1>6
  <2>2. ASSUME latest[r] # NoSample PROVE latest[r].id = source /\ samples # 0
    <3>1. cursor[r] # None /\ cursor[r].id = latest[r].id
      BY <2>2 DEF Inv, Latest
    <3>2. cursor[r].id = source
      BY <1>6, <3>1, AnswerIsOfTheFeed
    <3>3. cursor[r].sequence # 0 /\ cursor[r].sequence <= samples /\ cursor[r].sequence \in Nat
      BY <3>1, <3>2 DEF Inv, Cursors, CursorHeld, TypeOK
    <3>4. QED
      BY <3>1, <3>2, <3>3
  <2>3. QED
    BY <1>2, <1>3, <2>1, <2>2
<1>7. QED
  BY <1>4, <1>5, <1>6

LEMMA LatestStep ==
  ASSUME Inv, [Next]_vars
  PROVE  Latest'
<1>1. CASE UNCHANGED readerVars
  BY <1>1 DEF readerVars, Inv, Latest
<1>2. ASSUME NEW r \in Readers, Poll(r) PROVE Latest'
  <2>1. \A s \in Readers : s # r => cursor'[s] = cursor[s] /\ latest'[s] = latest[s]
    BY <1>2 DEF Poll, Inv, TypeOK
  <2>2. latest'[r] # NoSample => cursor'[r] # None /\ cursor'[r].id = latest'[r].id
    BY <1>2, QueryLeaves
  <2>3. QED
    BY <2>1, <2>2 DEF Inv, Latest
<1>3. ASSUME NEW r \in Readers, Forget(r) PROVE Latest'
  <2>1. \A s \in Readers : s # r => cursor'[s] = cursor[s] /\ latest'[s] = latest[s]
    BY <1>3 DEF Forget, Inv, TypeOK
  <2>2. latest'[r] = NoSample
    BY <1>3 DEF Forget, Inv, TypeOK
  <2>3. QED
    BY <2>1, <2>2 DEF Inv, Latest
<1>4. QED
  BY <1>1, <1>2, <1>3, StepKinds DEF Inv, Renewed, PublishBatch, Idle

LEMMA DeliveriesStep ==
  ASSUME Inv, [Next]_vars
  PROVE  Deliveries'
<1>1. CASE Renewed
  <2>1. Len(records') = 0 /\ latest' = latest
    BY <1>1, EmptySeq DEF Renewed, Cleared, readerVars
  <2>2. \A r \in Readers : ~(latest'[r] # NoSample /\ latest'[r].id = source')
    BY <1>1, <2>1, NewSource
  <2>3. QED
    BY <2>1, <2>2 DEF Deliveries
<1>2. CASE PublishBatch
  <2>1. PICK n \in 0 .. MaxBatch :
          samples' = samples + n /\ records' = Pushed(Fresh(n, delivery'))
    BY <1>2 DEF PublishBatch, Fresh
  <2>2. /\ n \in Nat /\ delivery \in Nat /\ delivery' = delivery + 1 /\ delivery' \in Nat
        /\ source' = source /\ latest' = latest
    BY <1>2 DEF PublishBatch, Inv, TypeOK, source, readerVars
  <2>3. Old \in Nat /\ Excess(n) \in Nat
    BY <2>2, RingFacts, SomeCapacity DEF Inv, Old, Excess
  <2>4. /\ Len(records') = Old + n - Excess(n)
        /\ \A i \in 1 .. Old + n - Excess(n) :
             records'[i] = IF i + Excess(n) <= Old THEN records[i + Excess(n)]
                           ELSE Fresh(n, delivery')[i + Excess(n) - Old]
    BY <2>1, <2>2, PushKeepsTheNewest DEF Inv
  <2>5. ASSUME NEW i \in 1 .. Len(records')
        PROVE  \/ i + Excess(n) \in 1 .. Len(records) /\ records'[i] = records[i + Excess(n)]
               \/ records'[i].delivery = delivery'
    <3>1. i \in Nat /\ i >= 1 /\ i + Excess(n) <= Old + n /\ i \in 1 .. Old + n - Excess(n)
      BY <2>2, <2>3, <2>4
    <3>2. CASE i + Excess(n) <= Old
      BY <2>3, <2>4, <3>1, <3>2 DEF Old
    <3>3. CASE ~(i + Excess(n) <= Old)
      <4>1. i + Excess(n) - Old \in 1 .. n
        BY <2>2, <2>3, <3>1, <3>3
      <4>2. records'[i] = Fresh(n, delivery')[i + Excess(n) - Old]
        BY <2>4, <3>1, <3>3
      <4>3. QED
        BY <4>1, <4>2 DEF Fresh
    <3>4. QED
      BY <3>2, <3>3
  <2>6. ASSUME NEW i \in 1 .. Len(records') PROVE records'[i].delivery <= delivery'
    <3>1. CASE records'[i].delivery = delivery'
      BY <2>2, <3>1
    <3>2. ASSUME i + Excess(n) \in 1 .. Len(records), records'[i] = records[i + Excess(n)]
          PROVE  records'[i].delivery <= delivery'
      <4>1. records[i + Excess(n)].delivery \in Nat /\ records[i + Excess(n)].delivery <= delivery
        BY <3>2, RecordTypes DEF Inv, Deliveries
      <4>2. QED
        BY <2>2, <3>2, <4>1
    <3>3. QED
      BY <2>5, <3>1, <3>2
  <2>7. ASSUME NEW r \in Readers, latest[r] # NoSample, latest[r].id = source
        PROVE  /\ latest[r].delivery <= delivery'
               /\ \A i \in 1 .. Len(records') :
                    records'[i].sequence > latest[r].sequence => records'[i].delivery > latest[r].delivery
    <3>1. latest[r].delivery \in Nat /\ latest[r].delivery <= delivery
      BY <2>7 DEF Inv, TypeOK, Deliveries, Records
    <3>2. ASSUME NEW i \in 1 .. Len(records'), records'[i].sequence > latest[r].sequence
          PROVE  records'[i].delivery > latest[r].delivery
      <4>1. CASE records'[i].delivery = delivery'
        BY <2>2, <3>1, <4>1
      <4>2. ASSUME i + Excess(n) \in 1 .. Len(records), records'[i] = records[i + Excess(n)]
            PROVE  records'[i].delivery > latest[r].delivery
        BY <2>7, <3>2, <4>2 DEF Inv, Deliveries
      <4>3. QED
        BY <2>5, <4>1, <4>2
    <3>3. QED
      BY <2>2, <3>1, <3>2
  <2>8. QED
    BY <2>2, <2>6, <2>7 DEF Deliveries
<1>3. CASE Idle
  BY <1>3 DEF Idle, readerVars, source, Inv, Deliveries
<1>4. ASSUME NEW r \in Readers, Poll(r) PROVE Deliveries'
  <2>1. /\ UNCHANGED <<source, samples, records, delivery>>
        /\ \A s \in Readers : s # r => latest'[s] = latest[s]
    BY <1>4 DEF Poll, Inv, TypeOK, source
  <2>2. CASE latest'[r] \in {NoSample, latest[r]}
    BY <2>1, <2>2 DEF Inv, Deliveries
  <2>3. CASE latest'[r] = records[Len(records)] /\ samples # 0
    <3>1. /\ Len(records) \in 1 .. Len(records) /\ records[Len(records)].sequence = samples
          /\ samples \in Nat
      BY <2>3, NewestIsLast DEF Inv, TypeOK
    <3>2. \A i \in 1 .. Len(records) : ~(records[i].sequence > samples)
      BY RingFacts DEF Inv, Ring
    <3>3. latest'[r].delivery <= delivery
      BY <2>3, <3>1 DEF Inv, Deliveries
    <3>4. QED
      BY <2>1, <2>3, <3>1, <3>2, <3>3 DEF Inv, Deliveries
  <2>4. QED
    BY <1>4, <2>2, <2>3, QueryLeaves
<1>5. ASSUME NEW r \in Readers, Forget(r) PROVE Deliveries'
  <2>1. /\ UNCHANGED <<source, samples, records, delivery>>
        /\ \A s \in Readers : s # r => latest'[s] = latest[s]
        /\ latest'[r] = NoSample
    BY <1>5 DEF Forget, Inv, TypeOK, source
  <2>2. QED
    BY <2>1 DEF Inv, Deliveries
<1>6. QED
  BY <1>1, <1>2, <1>3, <1>4, <1>5, StepKinds DEF Inv

LEMMA InvHolds == Spec => []Inv
<1>1. ASSUME Init PROVE Inv
  <2>1. TypeOK
    BY <1>1, TypesAtFirst
  <2>2. Len(records) = 0
    BY <1>1, EmptySeq DEF Init
  <2>3. Ring /\ Cursors /\ Latest /\ Deliveries
    BY <1>1, <2>2, SomeCapacity DEF Init, Ring, Cursors, CursorHeld, Latest, Deliveries
  <2>4. QED
    BY <2>1, <2>3 DEF Inv
<1>2. ASSUME Inv, [Next]_vars PROVE Inv'
  BY <1>2, TypesStep, RingStep, CursorsStep, LatestStep, DeliveriesStep DEF Inv
<1>3. QED
  BY <1>1, <1>2, PTL DEF Spec

-----------------------------------------------------------------------------
(***************************************************************************)
(* The theorems.                                                           *)
(***************************************************************************)

\* A reader gets each sample of a session once and in order or has it in its
\* history_overrun, and no change of session escapes it, whatever the capacity
\* of the ring, the sizes of the reads and the interleaving of the readers.
THEOREM FeedImplemented == Spec => ImplementsFeed
<1>1. ASSUME Init PROVE Feed!Init
  BY <1>1 DEF Init, Feed!Init, None, NoBatch, Feed!None, Feed!NoBatch
<1>2. ASSUME Inv, [Next]_vars PROVE [Feed!Next]_(Feed!vars)
  <2>1. CASE Renewed
    <3>1. \A r \in Readers : cursor[r] # Feed!None => cursor[r].id # source'
      BY <1>2, <2>1, NewSource DEF None, Feed!None
    <3>2. Feed!Renew
      BY <2>1, <3>1 DEF Feed!Renew, Renewed, Cleared, readerVars
    <3>3. QED
      BY <3>2 DEF Feed!Next
  <2>2. CASE PublishBatch
    <3>1. samples' \in Nat /\ samples' >= samples
      BY <2>2, <1>2 DEF PublishBatch, Inv, TypeOK
    <3>2. Feed!Publish
      BY <2>2, <3>1 DEF Feed!Publish, PublishBatch, readerVars, source
    <3>3. QED
      BY <3>2 DEF Feed!Next
  <2>3. CASE Idle
    BY <2>3 DEF Idle, readerVars, Feed!vars
  <2>4. ASSUME NEW r \in Readers, Poll(r) PROVE Feed!Read(r)
    <3>1. /\ batch' = [batch EXCEPT ![r] =
                [reset |-> Reset(cursor[r]), overrun |-> Overrun(cursor[r]),
                 samples |-> {records[i].sequence : i \in Unread(cursor[r])}]]
          /\ cursor' = [cursor EXCEPT ![r] = Newest]
          /\ UNCHANGED <<source, samples>>
      BY <2>4 DEF Poll, source
    <3>2. Newest = IF samples = 0 THEN None ELSE [id |-> source, sequence |-> samples]
      BY <1>2, NewestIsLast DEF Inv
    <3>3. LET c == cursor[r]
              held == c # None /\ c.id = source
              position == IF held THEN c.sequence ELSE 0
              evicted == Feed!Behind(samples, Capacity) IN
          batch' = [batch EXCEPT ![r] =
            [reset |-> c # None /\ ~held,
             overrun |-> IF held THEN Feed!Behind(evicted, position) ELSE 0,
             samples |-> Feed!Later(position, evicted) + 1 .. samples]]
      BY <1>2, <3>1, AnswerIsOfTheFeed, Zenon
    <3>4. None = Feed!None
      BY DEF None, Feed!None
    <3>5. QED
      BY <3>1, <3>2, <3>3, <3>4, Zenon DEF Feed!Read
  <2>5. ASSUME NEW r \in Readers, Forget(r) PROVE Feed!Forget(r)
    BY <2>5 DEF Forget, Feed!Forget, None, Feed!None, source
  <2>6. QED
    BY <1>2, <2>1, <2>2, <2>3, <2>4, <2>5, StepKinds DEF Inv, Feed!Next
<1>3. QED
  BY <1>1, <1>2, InvHolds, PTL DEF Spec, ImplementsFeed, Feed!Spec

\* A reader never goes on with a sample of another session after a query.
THEOREM LatestStaysCurrent == Spec => LatestIsCurrent
<1>1. ASSUME Inv, [Next]_vars
      PROVE  [\A r \in Readers : Poll(r) => latest'[r] = NoSample \/ latest'[r].id = source]_vars
  BY <1>1, QueryLeaves
<1>2. QED
  BY <1>1, InvHolds, PTL DEF Spec, LatestIsCurrent

\* No query falls between two poses of one read.
THEOREM AnchorsAreLast == Spec => []AnchorIsLast
<1>1. ASSUME Inv PROVE AnchorIsLast
  <2>1. ASSUME NEW r \in Readers, latest[r].id = source /\ latest[r] # NoSample,
               NEW i \in 1 .. Len(records), records[i].delivery = latest[r].delivery
        PROVE  records[i].sequence <= latest[r].sequence
    <3>1. records[i].sequence \in Nat /\ records[i].delivery \in Nat
      BY <1>1, RecordTypes DEF Inv
    <3>2. latest[r].sequence \in Nat
      BY <1>1 DEF Inv, TypeOK, Records
    <3>3. ~(records[i].sequence > latest[r].sequence)
      BY <1>1, <2>1, <3>1 DEF Inv, Deliveries
    <3>4. QED
      BY <3>1, <3>2, <3>3
  <2>2. QED
    BY <2>1 DEF AnchorIsLast
<1>2. QED
  BY <1>1, InvHolds, PTL

-----------------------------------------------------------------------------
(***************************************************************************)
(* The sample clock, over all that one connection is given.                *)
(***************************************************************************)

\* What holds of 0, and of n + 1 when it holds of n, holds of every number.
LEMMA SetInduction ==
  ASSUME NEW S, 0 \in S, \A n \in Nat : n \in S => n + 1 \in S
  PROVE  Nat \subseteq S
<1> DEFINE R == OpToRel(<, Nat)
           T == Nat \ S
<1>1. IsWellFoundedOn(R, Nat)
  BY NatLessThanWellFounded
<1>2. SUFFICES ASSUME T # {} PROVE FALSE
  OBVIOUS
<1>3. T \subseteq Nat
  OBVIOUS
<1> HIDE DEF T
<1>4. PICK m \in T : \A y \in T : ~(<<y, m>> \in R)
  BY <1>1, <1>2, <1>3, WFMin
<1>5. \A y \in Nat : y < m => <<y, m>> \in R
  BY <1>3, <1>4 DEF OpToRel
<1>6. m \in Nat /\ m \notin S
  BY <1>4 DEF T
<1>7. m - 1 \in Nat /\ m - 1 < m /\ (m - 1) + 1 = m
  BY <1>6
<1>8. m - 1 \in S
  BY <1>4, <1>5, <1>7 DEF T
<1>9. QED
  BY <1>6, <1>7, <1>8

\* Division, as the provers know it.
LEMMA DivIs ==
  ASSUME NEW a \in Nat
  PROVE  /\ a \div NsPerMs \in Nat
         /\ NsPerMs * (a \div NsPerMs) <= a
         /\ a < NsPerMs * (a \div NsPerMs) + NsPerMs
BY ClockAssumption

\* Times in milliseconds pass no faster in two spans than in the two as one.
LEMMA DivAddsUp ==
  ASSUME NEW a \in Nat, NEW b \in Nat
  PROVE  a \div NsPerMs + b \div NsPerMs <= (a + b) \div NsPerMs
<1> DEFINE p == a \div NsPerMs
           q == b \div NsPerMs
           r == (a + b) \div NsPerMs
           N == NsPerMs
<1>1. /\ p \in Nat /\ q \in Nat /\ r \in Nat /\ N \in Nat /\ N > 0
      /\ N * p <= a /\ N * q <= b /\ a + b < N * r + N
  BY DivIs, ClockAssumption
<1> HIDE DEF p, q, r, N
<1>2. N * p + N * q = N * (p + q) /\ N * r + N = N * (r + 1)
  BY <1>1
<1>3. N * (p + q) < N * (r + 1)
  <2>1. N * p \in Nat /\ N * q \in Nat /\ N * r \in Nat
    BY <1>1
  <2> QED BY <1>1, <1>2, <2>1
<1>4. p + q < r + 1
  <2>1. ASSUME NEW x \in Nat, NEW y \in Nat, x >= y PROVE N * x >= N * y
    BY <1>1, <2>1
  <2> QED BY <1>1, <1>3, <2>1
<1> QED BY <1>1, <1>4 DEF p, q, r, N

Kinds == {"DeviceCalendar", "SimulatedElapsed"}
Stamps == [kind : Kinds, ms : Nat, epoch : Nat] \X Nat
Previous == {<<>>} \cup Stamps
Clocks == [previous : Previous, duplicates : Nat, discontinuities : Nat]

\* Stamp q comes after stamp p, r samples later: the epochs are numbered, and
\* within one the times are of one kind and grow, with the clock of the host and
\* the tolerance of each sample.
Behind(p, q, r) ==
  /\ p[2] <= q[2] /\ p[1].epoch <= q[1].epoch
  /\ p[1].epoch = q[1].epoch =>
       /\ p[1].kind = q[1].kind /\ p[1].ms <= q[1].ms
       /\ q[1].ms - p[1].ms <= (q[2] - p[2]) \div NsPerMs + r * Tolerance

\* Stamp q is the one after stamp p.
Continues(p, q) ==
  \/ q[1].epoch = p[1].epoch + 1
  \/ /\ q[1].epoch = p[1].epoch /\ q[1].kind = p[1].kind /\ p[1].ms < q[1].ms
     /\ q[1].ms - p[1].ms <= Minus(q[2], p[2]) \div NsPerMs + Tolerance

\* What a stamp is made of.
LEMMA StampIs ==
  ASSUME NEW p \in Stamps
  PROVE  /\ p # <<>> /\ p[1].kind \in Kinds /\ p[1].ms \in Nat /\ p[1].epoch \in Nat /\ p[2] \in Nat
<1>1. PICK t \in [kind : Kinds, ms : Nat, epoch : Nat], n \in Nat : p = <<t, n>>
  BY DEF Stamps
<1>2. t.kind \in Kinds /\ t.ms \in Nat /\ t.epoch \in Nat
  OBVIOUS
<1> QED BY <1>1, <1>2

\* What two spans of the host's clock and their samples allow, they allow as one.
LEMMA SpansAddUp ==
  ASSUME NEW a \in Nat, NEW b \in Nat, NEW c \in Nat, a <= b, b <= c,
         NEW x \in Int, NEW y \in Int, NEW z \in Int, NEW r \in Nat,
         y - x <= (b - a) \div NsPerMs + r * Tolerance,
         z - y <= (c - b) \div NsPerMs + Tolerance
  PROVE  z - x <= (c - a) \div NsPerMs + (r + 1) * Tolerance
<1> DEFINE p == b - a
           q == c - b
<1>1. p \in Nat /\ q \in Nat /\ p + q = c - a
  OBVIOUS
<1> HIDE DEF p, q
<1>2. p \div NsPerMs + q \div NsPerMs <= (p + q) \div NsPerMs
  BY <1>1, DivAddsUp
<1>3. p \div NsPerMs \in Nat /\ q \div NsPerMs \in Nat /\ (p + q) \div NsPerMs \in Nat
  BY <1>1, DivIs
<1>4. (r + 1) * Tolerance = r * Tolerance + Tolerance /\ r * Tolerance \in Nat /\ Tolerance \in Nat
  BY ClockAssumption
<1>5. y - x <= p \div NsPerMs + r * Tolerance /\ z - y <= q \div NsPerMs + Tolerance
  BY DEF p, q
<1>6. ASSUME NEW d \in Int, NEW e \in Int, NEW f \in Int, NEW t \in Int, NEW m \in Int,
             y - x <= d + t, z - y <= e + m, d + e <= f
      PROVE  z - x <= f + (t + m)
  BY <1>6
<1>7. z - x <= (p + q) \div NsPerMs + (r * Tolerance + Tolerance)
  BY <1>2, <1>3, <1>4, <1>5, <1>6
<1> QED BY <1>1, <1>4, <1>7

\* The epochs and times of two samples, carried on to the one after them.
LEMMA BehindNext ==
  ASSUME NEW p \in Stamps, NEW q \in Stamps, NEW s \in Stamps, NEW r \in Nat,
         Behind(p, q, r), Continues(q, s), q[2] <= s[2]
  PROVE  /\ Behind(p, s, r + 1)
         /\ p[1].epoch = s[1].epoch => p[1].ms < s[1].ms
<1>1. /\ p[1].ms \in Nat /\ p[1].epoch \in Nat /\ p[2] \in Nat
      /\ q[1].ms \in Nat /\ q[1].epoch \in Nat /\ q[2] \in Nat
      /\ s[1].ms \in Nat /\ s[1].epoch \in Nat /\ s[2] \in Nat
  BY StampIs
<1>2. p[2] <= q[2] /\ p[1].epoch <= q[1].epoch
  BY DEF Behind
<1>3. p[2] <= s[2]
  BY <1>1, <1>2
<1>4. CASE s[1].epoch = q[1].epoch + 1
  <2>1. p[1].epoch < s[1].epoch
    BY <1>1, <1>2, <1>4
  <2>2. p[1].epoch <= s[1].epoch /\ p[1].epoch # s[1].epoch
    BY <1>1, <2>1
  <2> QED BY <1>3, <2>2 DEF Behind
<1>5. CASE /\ s[1].epoch = q[1].epoch /\ s[1].kind = q[1].kind /\ q[1].ms < s[1].ms
           /\ s[1].ms - q[1].ms <= Minus(s[2], q[2]) \div NsPerMs + Tolerance
  <2>1. ASSUME p[1].epoch = s[1].epoch
        PROVE  /\ p[1].kind = s[1].kind /\ p[1].ms < s[1].ms
               /\ s[1].ms - p[1].ms <= (s[2] - p[2]) \div NsPerMs + (r + 1) * Tolerance
    <3>1. /\ p[1].kind = q[1].kind /\ p[1].ms <= q[1].ms
          /\ q[1].ms - p[1].ms <= (q[2] - p[2]) \div NsPerMs + r * Tolerance
      BY <1>5, <2>1 DEF Behind
    <3>2. Minus(s[2], q[2]) = s[2] - q[2]
      BY <1>1 DEF Minus
    <3>3. s[1].ms - q[1].ms <= (s[2] - q[2]) \div NsPerMs + Tolerance
      BY <1>5, <3>2
    <3>4. s[1].ms - p[1].ms <= (s[2] - p[2]) \div NsPerMs + (r + 1) * Tolerance
      <4>1. p[1].ms \in Int /\ q[1].ms \in Int /\ s[1].ms \in Int
        BY <1>1
      <4> QED BY <1>1, <1>2, <3>1, <3>3, <4>1, SpansAddUp
    <3>5. p[1].ms < s[1].ms
      BY <1>1, <1>5, <3>1
    <3> QED BY <1>5, <3>1, <3>4, <3>5
  <2>2. p[1].ms < s[1].ms => p[1].ms <= s[1].ms
    BY <1>1
  <2>3. p[1].epoch <= s[1].epoch
    BY <1>2, <1>5
  <2> QED BY <1>3, <2>1, <2>2, <2>3 DEF Behind
<1> QED BY <1>4, <1>5 DEF Continues

\* What a sample makes of the clock.
Takes(c, kind, ms, ns, d) ==
  /\ d \in Clocks
  /\ IsDuplicate(c, kind, ms) =>
       /\ c.previous # <<>> /\ d.previous = c.previous
       /\ d.duplicates = c.duplicates + 1 /\ d.discontinuities = c.discontinuities
  /\ ~IsDuplicate(c, kind, ms) =>
       /\ d.previous \in Stamps /\ d.previous[2] = ns /\ d.duplicates = c.duplicates
       /\ c.previous = <<>> =>
            d.previous[1].epoch = 1 /\ d.discontinuities = c.discontinuities
       /\ c.previous # <<>> =>
            /\ Continues(c.previous, d.previous)
            /\ d.discontinuities - c.discontinuities
                 = d.previous[1].epoch - c.previous[1].epoch

\* That is what observe does.
LEMMA ObservedSays ==
  ASSUME NEW c \in Clocks, NEW kind \in Kinds, NEW ms \in Nat, NEW ns \in Nat,
         NEW d, d = Observed(c, kind, ms, ns)
  PROVE  Takes(c, kind, ms, ns, d)
<1> DEFINE last == c.previous[1]
           With(p, k, n) == [c EXCEPT !.previous = p, !.duplicates = k, !.discontinuities = n]
<1>1. ASSUME NEW p \in Previous, NEW k \in Nat, NEW n \in Nat
      PROVE  /\ With(p, k, n) \in Clocks /\ With(p, k, n).previous = p
             /\ With(p, k, n).duplicates = k /\ With(p, k, n).discontinuities = n
  BY DEF Clocks
<1>2. /\ c.previous \in Previous /\ c.duplicates \in Nat /\ c.discontinuities \in Nat
  BY DEF Clocks
<1>3. c.previous # <<>> => c.previous \in Stamps
  BY <1>2 DEF Previous
<1>4. CASE IsDuplicate(c, kind, ms)
  <2>1. d = With(c.previous, c.duplicates + 1, c.discontinuities)
    BY <1>4 DEF Observed, Clocks
  <2>2. c.previous # <<>>
    BY <1>4 DEF IsDuplicate
  <2> HIDE DEF With
  <2>3. c.duplicates + 1 \in Nat
    BY <1>2
  <2> QED BY <1>1, <1>2, <1>4, <2>1, <2>2, <2>3 DEF Takes
<1>5. CASE ~IsDuplicate(c, kind, ms)
  <2> DEFINE opened == IF Opens(c, kind, ms, ns) THEN 1 ELSE 0
             epoch == IF c.previous = <<>> THEN 1 ELSE last.epoch + opened
             stamp == <<[kind |-> kind, ms |-> ms, epoch |-> epoch], ns>>
  <2>1. d = With(stamp, c.duplicates, c.discontinuities + opened)
    BY <1>5 DEF Observed, Clocks
  <2>2. ASSUME c.previous # <<>>
        PROVE  /\ c.previous \in Stamps /\ last.epoch \in Nat /\ last.ms \in Nat /\ c.previous[2] \in Nat
    BY <1>3, <2>2, StampIs
  <2>3. opened \in {0, 1} /\ epoch \in Nat
    BY <2>2
  <2>4. /\ stamp \in Stamps /\ stamp[1].kind = kind /\ stamp[1].ms = ms /\ stamp[1].epoch = epoch
        /\ stamp[2] = ns
    BY <2>3 DEF Stamps
  <2>5. c.previous = <<>> => opened = 0 /\ epoch = 1
    BY DEF Opens
  <2>6. ASSUME c.previous # <<>>, opened = 0
        PROVE  /\ epoch = last.epoch /\ kind = last.kind /\ last.ms < ms
               /\ ms - last.ms <= Minus(ns, c.previous[2]) \div NsPerMs + Tolerance
    <3>1. ~Jumps(c, kind, ms, ns)
      BY <2>6 DEF Opens
    <3>2. kind = last.kind /\ ~(ms < last.ms)
          /\ ~(Minus(ms, last.ms) > Minus(ns, c.previous[2]) \div NsPerMs + Tolerance)
      BY <3>1 DEF Jumps
    <3>3. ms # last.ms
      BY <1>5, <2>6, <3>2 DEF IsDuplicate
    <3>4. last.ms < ms /\ Minus(ms, last.ms) = ms - last.ms
      BY <2>2, <2>6, <3>2, <3>3 DEF Minus
    <3>5. Minus(ns, c.previous[2]) \in Nat
      BY <2>2, <2>6 DEF Minus
    <3>6. Minus(ns, c.previous[2]) \div NsPerMs \in Nat
      BY <3>5, DivIs
    <3>7. epoch = last.epoch
      BY <2>2, <2>6
    <3> QED BY <2>2, <2>6, <3>2, <3>4, <3>6, <3>7, ClockAssumption
  <2>7. ASSUME c.previous # <<>>, opened = 1
        PROVE  epoch = last.epoch + 1
    BY <2>7
  <2> HIDE DEF opened, epoch, stamp, With
  <2>8. /\ d \in Clocks /\ d.previous = stamp /\ d.duplicates = c.duplicates
        /\ d.discontinuities = c.discontinuities + opened
    <3>1. stamp \in Previous /\ c.discontinuities + opened \in Nat
      BY <1>2, <2>3, <2>4 DEF Previous
    <3> QED BY <1>1, <1>2, <2>1, <3>1
  <2>9. ASSUME c.previous # <<>>
        PROVE  /\ Continues(c.previous, stamp) /\ epoch - last.epoch = opened
    <3>1. CASE opened = 0
      BY <2>2, <2>4, <2>6, <2>9, <3>1 DEF Continues
    <3>2. CASE opened = 1
      BY <2>2, <2>4, <2>7, <2>9, <3>2 DEF Continues
    <3> QED BY <2>3, <3>1, <3>2
  <2>10. (c.discontinuities + opened) - c.discontinuities = opened
    BY <1>2, <2>3
  <2>11. c.previous = <<>> => c.discontinuities + opened = c.discontinuities
    BY <1>2, <2>5
  <2> QED BY <1>5, <2>4, <2>5, <2>8, <2>9, <2>10, <2>11 DEF Takes
<1> QED BY <1>4, <1>5

\* Differences that are equal, and what they are counted from.
LEMMA NumbersKeepStep ==
  ASSUME NEW m \in Nat, NEW n \in Nat, NEW e \in Nat, NEW f \in Nat, m - n = e - f, f = n + 1
  PROVE  e = m + 1
OBVIOUS

\* The number of a sample among those let through, when one more is a duplicate,
LEMMA RanksKeepStep ==
  ASSUME NEW n \in Nat, NEW i \in Nat, NEW b \in Nat, NEW a \in Nat
  PROVE  ((n + 1) - (b + 1)) - (i - a) = (n - b) - (i - a)
OBVIOUS

\* and when it is not.
LEMMA RanksStep ==
  ASSUME NEW n \in Nat, NEW i \in Nat, NEW b \in Nat, NEW a \in Nat
  PROVE  ((n + 1) - b) - (i - a) = ((n - b) - (i - a)) + 1
OBVIOUS

\* What a connection is given, in the order it arrives in, and the clock after each.
Clocked(given, clock) ==
  /\ given \in Seq([kind : Kinds, ms : Nat, ns : Nat])
  /\ \A i \in 1 .. Len(given) - 1 : given[i].ns <= given[i + 1].ns
  /\ clock[0] = NewClock
  /\ \A i \in 1 .. Len(given) :
       clock[i] = Observed(clock[i - 1], given[i].kind, given[i].ms, given[i].ns)

LetThrough(given, clock, i) == ~IsDuplicate(clock[i - 1], given[i].kind, given[i].ms)
\* The number of a sample among those that were let through.
Rank(clock, i) == i - clock[i].duplicates

\* The samples that are given, and the clocks in steps.
LEMMA GivenAre ==
  ASSUME NEW given, NEW clock, Clocked(given, clock)
  PROVE  /\ Len(given) \in Nat /\ clock[0] = NewClock
         /\ \A i \in Nat : i + 1 \in 1 .. Len(given) =>
              /\ given[i + 1].kind \in Kinds /\ given[i + 1].ms \in Nat /\ given[i + 1].ns \in Nat
              /\ clock[i + 1] = Observed(clock[i], given[i + 1].kind, given[i + 1].ms, given[i + 1].ns)
              /\ i > 0 => given[i].ns <= given[i + 1].ns /\ given[i].ns \in Nat
              /\ LetThrough(given, clock, i + 1)
                   <=> ~IsDuplicate(clock[i], given[i + 1].kind, given[i + 1].ms)
<1> DEFINE G == [kind : Kinds, ms : Nat, ns : Nat]
<1>1. given \in Seq(G)
  BY DEF Clocked
<1>2. \A g \in G : g.kind \in Kinds /\ g.ms \in Nat /\ g.ns \in Nat
  OBVIOUS
<1> HIDE DEF G
<1>3. Len(given) \in Nat /\ \A i \in 1 .. Len(given) : given[i] \in G
  BY <1>1
<1>4. \A i \in 1 .. Len(given) :
        clock[i] = Observed(clock[i - 1], given[i].kind, given[i].ms, given[i].ns)
  BY DEF Clocked
<1>5. \A k \in 1 .. Len(given) - 1 : given[k].ns <= given[k + 1].ns
  BY DEF Clocked
<1>6. ASSUME NEW i \in Nat, i + 1 \in 1 .. Len(given)
      PROVE  /\ clock[i + 1] = Observed(clock[i], given[i + 1].kind, given[i + 1].ms, given[i + 1].ns)
             /\ i > 0 => given[i].ns <= given[i + 1].ns /\ given[i].ns \in Nat
             /\ LetThrough(given, clock, i + 1)
                  <=> ~IsDuplicate(clock[i], given[i + 1].kind, given[i + 1].ms)
  <2>1. (i + 1) - 1 = i /\ (i > 0 => i \in 1 .. Len(given) - 1 /\ i \in 1 .. Len(given))
    BY <1>3, <1>6
  <2>2. clock[i + 1] = Observed(clock[(i + 1) - 1], given[i + 1].kind, given[i + 1].ms, given[i + 1].ns)
    BY <1>4, <1>6
  <2> QED BY <1>2, <1>3, <1>5, <2>1, <2>2 DEF LetThrough
<1>7. clock[0] = NewClock
  BY DEF Clocked
<1> QED BY <1>2, <1>3, <1>6, <1>7

\* What is known of the clock and of the epochs it has opened.
Sound(given, clock, i) ==
  /\ clock[i] \in Clocks
  /\ clock[i].previous # <<>> =>
       /\ i > 0 /\ clock[i].previous[2] <= given[i].ns
       /\ clock[i].previous[1].epoch = clock[i].discontinuities + 1
  /\ clock[i].previous = <<>> => clock[i].discontinuities = 0

\* The epoch of the last sample is the number of those opened so far.
LEMMA ClocksAre ==
  ASSUME NEW given, NEW clock, Clocked(given, clock), NEW n \in 0 .. Len(given)
  PROVE  Sound(given, clock, n)
<1> DEFINE S == {i \in Nat : i <= Len(given) => Sound(given, clock, i)}
<1>1. 0 \in S
  BY GivenAre DEF NewClock, Clocks, Previous, Sound
<1>2. ASSUME NEW i \in Nat, i \in S
      PROVE  i + 1 \in S
  <2> SUFFICES ASSUME i + 1 <= Len(given)
               PROVE  Sound(given, clock, i + 1)
    OBVIOUS
  <2> DEFINE g == given[i + 1]
             c == clock[i]
             d == clock[i + 1]
  <2>1. Len(given) \in Nat /\ i + 1 \in 1 .. Len(given) /\ i <= Len(given)
    BY GivenAre
  <2>2. /\ g.kind \in Kinds /\ g.ms \in Nat /\ g.ns \in Nat /\ d = Observed(c, g.kind, g.ms, g.ns)
        /\ i > 0 => given[i].ns <= g.ns /\ given[i].ns \in Nat
    BY <2>1, GivenAre
  <2>3. Sound(given, clock, i)
    BY <1>2, <2>1
  <2>4. /\ c \in Clocks /\ c.discontinuities \in Nat /\ (c.previous # <<>> => c.previous \in Stamps)
        /\ c.previous # <<>> =>
             i > 0 /\ c.previous[2] <= given[i].ns /\ c.previous[1].epoch = c.discontinuities + 1
        /\ c.previous = <<>> => c.discontinuities = 0
    BY <2>3 DEF Sound, Clocks, Previous
  <2>5. c.previous # <<>> => c.previous[2] \in Nat /\ c.previous[1].epoch \in Nat
    BY <2>4, StampIs
  <2> HIDE DEF g, c, d
  <2>6. Takes(c, g.kind, g.ms, g.ns, d) /\ d \in Clocks
    <3>1. Takes(c, g.kind, g.ms, g.ns, d)
      BY <2>2, <2>4, ObservedSays
    <3> QED BY <3>1 DEF Takes
  <2>7. i + 1 > 0
    OBVIOUS
  <2>8. CASE IsDuplicate(c, g.kind, g.ms)
    <3>1. c.previous # <<>> /\ d.previous = c.previous /\ d.discontinuities = c.discontinuities
      BY <2>6, <2>8 DEF Takes
    <3>2. c.previous[2] <= g.ns
      BY <2>2, <2>4, <2>5, <3>1
    <3> QED BY <2>4, <2>6, <2>7, <3>1, <3>2 DEF Sound, g, d
  <2>9. CASE ~IsDuplicate(c, g.kind, g.ms)
    <3>1. /\ d.previous \in Stamps /\ d.previous[2] = g.ns
          /\ c.previous = <<>> => d.previous[1].epoch = 1 /\ d.discontinuities = c.discontinuities
          /\ c.previous # <<>> => d.discontinuities - c.discontinuities
                                     = d.previous[1].epoch - c.previous[1].epoch
      BY <2>6, <2>9 DEF Takes
    <3>2. d.discontinuities \in Nat /\ d.previous # <<>> /\ d.previous[1].epoch \in Nat
      BY <2>6, <3>1, StampIs DEF Clocks
    <3>3. d.previous[1].epoch = d.discontinuities + 1
      <4>1. CASE c.previous = <<>>
        BY <2>4, <3>1, <4>1
      <4>2. CASE c.previous # <<>>
        <5>1. /\ c.discontinuities \in Nat /\ c.previous[1].epoch \in Nat
              /\ c.previous[1].epoch = c.discontinuities + 1
              /\ d.discontinuities - c.discontinuities = d.previous[1].epoch - c.previous[1].epoch
          BY <2>4, <2>5, <3>1, <4>2
        <5> QED BY <3>2, <5>1, NumbersKeepStep
      <4> QED BY <4>1, <4>2
    <3>4. d.previous[2] <= g.ns
      BY <2>2, <3>1
    <3> QED BY <2>6, <2>7, <3>2, <3>3, <3>4 DEF Sound, g, d
  <2> QED BY <2>8, <2>9
<1>3. Nat \subseteq S
  <2> HIDE DEF S
  <2> QED BY <1>1, <1>2, SetInduction
<1>4. Len(given) \in Nat
  BY GivenAre
<1> QED BY <1>3, <1>4

\* What is between a sample that was let through and the clock later.
Follows(clock, i, n) ==
  /\ clock[n].previous \in Stamps
  /\ Rank(clock, n) - Rank(clock, i) \in Nat
  /\ Behind(clock[i].previous, clock[n].previous, Rank(clock, n) - Rank(clock, i))

\* One sample more.
LEMMA NextFollows ==
  ASSUME NEW given, NEW clock, Clocked(given, clock),
         NEW i \in Nat, NEW n \in Nat, i <= n, n + 1 <= Len(given),
         clock[i].previous \in Stamps, Follows(clock, i, n)
  PROVE  /\ Follows(clock, i, n + 1)
         /\ (LetThrough(given, clock, n + 1)
               /\ clock[i].previous[1].epoch = clock[n + 1].previous[1].epoch) =>
              clock[i].previous[1].ms < clock[n + 1].previous[1].ms
<1> DEFINE g == given[n + 1]
           b == clock[n]
           d == clock[n + 1]
           r == Rank(clock, n) - Rank(clock, i)
           p == clock[i].previous
<1>1. Len(given) \in Nat /\ n + 1 \in 1 .. Len(given) /\ n \in 0 .. Len(given) /\ n + 1 \in 0 .. Len(given)
      /\ i \in 0 .. Len(given)
  BY GivenAre
<1>2. /\ g.kind \in Kinds /\ g.ms \in Nat /\ g.ns \in Nat /\ d = Observed(b, g.kind, g.ms, g.ns)
      /\ n > 0 => given[n].ns <= g.ns /\ given[n].ns \in Nat
      /\ LetThrough(given, clock, n + 1) <=> ~IsDuplicate(b, g.kind, g.ms)
  BY <1>1, GivenAre
<1>3. Sound(given, clock, n) /\ Sound(given, clock, n + 1) /\ Sound(given, clock, i)
  BY <1>1, ClocksAre
<1>4. /\ b \in Clocks /\ d \in Clocks /\ b.duplicates \in Nat /\ d.duplicates \in Nat
      /\ clock[i].duplicates \in Nat
  BY <1>3 DEF Sound, Clocks
<1>5. b.previous \in Stamps /\ p \in Stamps /\ r \in Nat /\ Behind(p, b.previous, r)
  BY DEF Follows
<1>6. b.previous # <<>> /\ b.previous[2] \in Nat
  BY <1>5, StampIs
<1>7. b.previous[2] <= g.ns
  <2>1. n > 0 /\ b.previous[2] <= given[n].ns
    BY <1>3, <1>6 DEF Sound
  <2> QED BY <1>2, <1>6, <2>1
<1>8. /\ r = (n - b.duplicates) - (i - clock[i].duplicates)
      /\ Rank(clock, n + 1) - Rank(clock, i) = ((n + 1) - d.duplicates) - (i - clock[i].duplicates)
  BY DEF Rank
<1> HIDE DEF g, b, d, r, p
<1>9. Takes(b, g.kind, g.ms, g.ns, d)
  BY <1>2, <1>4, ObservedSays
<1>10. CASE IsDuplicate(b, g.kind, g.ms)
  <2>1. d.previous = b.previous /\ d.duplicates = b.duplicates + 1
    BY <1>9, <1>10 DEF Takes
  <2>2. Rank(clock, n + 1) - Rank(clock, i) = r
    <3>1. ((n + 1) - (b.duplicates + 1)) - (i - clock[i].duplicates)
            = (n - b.duplicates) - (i - clock[i].duplicates)
      BY <1>4, RanksKeepStep
    <3> QED BY <1>8, <2>1, <3>1, Zenon
  <2>3. Follows(clock, i, n + 1)
    BY <1>5, <2>1, <2>2 DEF Follows, d, p
  <2> QED BY <1>2, <1>10, <2>3
<1>11. CASE ~IsDuplicate(b, g.kind, g.ms)
  <2>1. /\ d.previous \in Stamps /\ d.previous[2] = g.ns /\ d.duplicates = b.duplicates
        /\ Continues(b.previous, d.previous)
    BY <1>6, <1>9, <1>11 DEF Takes
  <2>2. Rank(clock, n + 1) - Rank(clock, i) = r + 1
    <3>1. ((n + 1) - b.duplicates) - (i - clock[i].duplicates)
            = ((n - b.duplicates) - (i - clock[i].duplicates)) + 1
      <4>1. b.duplicates \in Nat /\ clock[i].duplicates \in Nat
        BY <1>4
      <4>2. \A x, y \in Nat : ((n + 1) - x) - (i - y) = ((n - x) - (i - y)) + 1
        BY RanksStep
      <4> QED BY <4>1, <4>2, Zenon
    <3> QED BY <1>8, <2>1, <3>1, Zenon
  <2>3. b.previous[2] <= d.previous[2]
    BY <1>7, <2>1
  <2>4. /\ Behind(p, d.previous, r + 1)
        /\ p[1].epoch = d.previous[1].epoch => p[1].ms < d.previous[1].ms
    BY <1>5, <2>1, <2>3, BehindNext
  <2>5. r + 1 \in Nat
    BY <1>5
  <2>6. Follows(clock, i, n + 1)
    <3>1. /\ d.previous \in Stamps /\ Rank(clock, n + 1) - Rank(clock, i) \in Nat
          /\ Behind(p, d.previous, Rank(clock, n + 1) - Rank(clock, i))
      BY <2>1, <2>2, <2>4, <2>5, Zenon
    <3> QED BY <3>1 DEF Follows, d, p
  <2> QED BY <2>4, <2>6 DEF d, p
<1> QED BY <1>10, <1>11

\* What the clock keeps of a sample that it lets through.
LEMMA LetThroughIs ==
  ASSUME NEW given, NEW clock, Clocked(given, clock), NEW i \in 1 .. Len(given),
         LetThrough(given, clock, i)
  PROVE  /\ clock[i].previous \in Stamps /\ clock[i].previous[2] = given[i].ns
         /\ clock[i].previous[1].epoch = clock[i].discontinuities + 1
<1> DEFINE m == i - 1
           g == given[m + 1]
           d == clock[m + 1]
<1>1. Len(given) \in Nat /\ m \in Nat /\ m + 1 = i /\ m + 1 \in 1 .. Len(given)
      /\ m \in 0 .. Len(given) /\ i \in 0 .. Len(given)
  BY GivenAre
<1> HIDE DEF m
<1>2. /\ g.kind \in Kinds /\ g.ms \in Nat /\ g.ns \in Nat
      /\ d = Observed(clock[m], g.kind, g.ms, g.ns) /\ ~IsDuplicate(clock[m], g.kind, g.ms)
  BY <1>1, GivenAre
<1>3. clock[m] \in Clocks /\ Sound(given, clock, i)
  BY <1>1, ClocksAre DEF Sound
<1>4. d.previous \in Stamps /\ d.previous[2] = g.ns
  <2> HIDE DEF g, d
  <2>1. Takes(clock[m], g.kind, g.ms, g.ns, d)
    BY <1>2, <1>3, ObservedSays
  <2> QED BY <1>2, <2>1 DEF Takes
<1>5. d = clock[i] /\ g = given[i]
  BY <1>1
<1>6. d.previous # <<>>
  BY <1>4, StampIs
<1> QED BY <1>3, <1>4, <1>5, <1>6 DEF Sound

\* The epochs of a connection are numbered by the discontinuities it has seen, never
\* come back, and within one the times are of one kind, grow, and run ahead of the
\* host by no more than the tolerance at each sample that was let through:
\* sample_clock.rs, observe, whatever times the device gives, for a host whose clock
\* does not go back.
THEOREM EpochsStayCoherent ==
  ASSUME NEW given, NEW clock, Clocked(given, clock)
  PROVE  /\ \A i \in 1 .. Len(given) : LetThrough(given, clock, i) =>
              clock[i].previous[1].epoch = clock[i].discontinuities + 1
         /\ \A i, j \in 1 .. Len(given) :
              (i < j /\ LetThrough(given, clock, i) /\ LetThrough(given, clock, j)) =>
                LET time == clock[i].previous[1]
                    later == clock[j].previous[1] IN
                /\ time.epoch <= later.epoch
                /\ time.epoch = later.epoch =>
                     /\ time.kind = later.kind /\ time.ms < later.ms
                     /\ later.ms - time.ms <=
                          (given[j].ns - given[i].ns) \div NsPerMs
                          + (Rank(clock, j) - Rank(clock, i)) * Tolerance
<1>1. Len(given) \in Nat
  BY GivenAre
<1>2. ASSUME NEW i \in 1 .. Len(given), LetThrough(given, clock, i), NEW n \in i .. Len(given)
      PROVE  Follows(clock, i, n)
  <2> DEFINE S == {k \in Nat : i + k <= Len(given) => Follows(clock, i, i + k)}
  <2>1. Follows(clock, i, i)
    <3>1. clock[i].previous \in Stamps /\ clock[i].duplicates \in Nat
      BY <1>1, <1>2, LetThroughIs, ClocksAre DEF Sound, Clocks
    <3>2. /\ clock[i].previous[2] \in Nat /\ clock[i].previous[1].ms \in Nat
          /\ clock[i].previous[1].epoch \in Nat
      BY <3>1, StampIs
    <3>3. Rank(clock, i) - Rank(clock, i) = 0
      BY <3>1 DEF Rank
    <3>4. /\ clock[i].previous[2] - clock[i].previous[2] = 0
          /\ clock[i].previous[1].ms - clock[i].previous[1].ms = 0
      BY <3>2
    <3>5. 0 \div NsPerMs \in Nat /\ 0 * Tolerance = 0
      BY DivIs, ClockAssumption
    <3>6. 0 <= 0 \div NsPerMs + 0 * Tolerance
      BY <3>5
    <3>7. Behind(clock[i].previous, clock[i].previous, 0)
      BY <3>2, <3>4, <3>6 DEF Behind
    <3> QED BY <3>1, <3>3, <3>7 DEF Follows
  <2>2. 0 \in S
    <3>1. i + 0 = i
      OBVIOUS
    <3> QED BY <2>1, <3>1
  <2>3. ASSUME NEW k \in Nat, k \in S
        PROVE  k + 1 \in S
    <3> SUFFICES ASSUME i + (k + 1) <= Len(given)
                 PROVE  Follows(clock, i, i + (k + 1))
      OBVIOUS
    <3>1. /\ i \in Nat /\ i + k \in Nat /\ i <= i + k /\ (i + k) + 1 <= Len(given)
          /\ (i + k) + 1 = i + (k + 1) /\ i + k <= Len(given)
      BY <1>1
    <3>2. Follows(clock, i, i + k)
      BY <2>3, <3>1
    <3>3. clock[i].previous \in Stamps
      BY <1>2, LetThroughIs
    <3>4. Follows(clock, i, (i + k) + 1)
      BY <3>1, <3>2, <3>3, NextFollows
    <3> QED BY <3>1, <3>4
  <2>4. Nat \subseteq S
    <3> HIDE DEF S
    <3> QED BY <2>2, <2>3, SetInduction
  <2>5. n - i \in Nat /\ i + (n - i) = n /\ n <= Len(given)
    BY <1>1
  <2> QED BY <2>4, <2>5
<1>3. ASSUME NEW i \in 1 .. Len(given), NEW j \in 1 .. Len(given), i < j,
             LetThrough(given, clock, i), LetThrough(given, clock, j)
      PROVE  LET time == clock[i].previous[1]
                 later == clock[j].previous[1] IN
             /\ time.epoch <= later.epoch
             /\ time.epoch = later.epoch =>
                  /\ time.kind = later.kind /\ time.ms < later.ms
                  /\ later.ms - time.ms <=
                       (given[j].ns - given[i].ns) \div NsPerMs
                       + (Rank(clock, j) - Rank(clock, i)) * Tolerance
  <2> DEFINE m == j - 1
  <2>1. /\ m \in i .. Len(given) /\ m + 1 = j /\ i \in Nat /\ m \in Nat /\ i <= m
        /\ m + 1 <= Len(given) /\ j \in i .. Len(given)
    BY <1>1, <1>3
  <2> HIDE DEF m
  <2>2. Follows(clock, i, m) /\ Follows(clock, i, j)
    BY <1>2, <1>3, <2>1
  <2>3. clock[i].previous \in Stamps /\ clock[i].previous[2] = given[i].ns
        /\ clock[j].previous[2] = given[j].ns
    BY <1>3, LetThroughIs
  <2>4. clock[i].previous[1].epoch = clock[j].previous[1].epoch =>
          clock[i].previous[1].ms < clock[j].previous[1].ms
    <3>1. (LetThrough(given, clock, m + 1)
             /\ clock[i].previous[1].epoch = clock[m + 1].previous[1].epoch) =>
            clock[i].previous[1].ms < clock[m + 1].previous[1].ms
      BY <2>1, <2>2, <2>3, NextFollows
    <3> QED BY <1>3, <2>1, <3>1
  <2>5. Behind(clock[i].previous, clock[j].previous, Rank(clock, j) - Rank(clock, i))
    BY <2>2 DEF Follows
  <2> QED BY <2>3, <2>4, <2>5 DEF Behind
<1>4. ASSUME NEW i \in 1 .. Len(given), LetThrough(given, clock, i)
      PROVE  clock[i].previous[1].epoch = clock[i].discontinuities + 1
  BY <1>4, LetThroughIs
<1> QED BY <1>3, <1>4

=============================================================================
