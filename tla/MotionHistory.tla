---------------------------- MODULE MotionHistory ----------------------------
(***************************************************************************)
(* The motion history of a controller: a ring of the last records, filled  *)
(* by the worker one delivery at a time, emptied whenever the session or   *)
(* the instance changes, and read through cursors that the readers keep.   *)
(* Every step is one critical section of the shared lock.                  *)
(***************************************************************************)
EXTENDS Integers, Sequences

CONSTANTS
  Readers,
  Capacity,     \* MOTION_HISTORY_CAPACITY
  MaxBatch,     \* bound of the poses of one read
  MaxSample,    \* bound of the poses of one session
  MaxDelivery,  \* bound of the reads of one session
  MaxId         \* bound of the identifiers drawn

ASSUME HistoryAssumption ==
  /\ Capacity \in Nat \ {0}
  /\ MaxBatch \in Nat /\ MaxSample \in Nat
  /\ MaxDelivery \in Nat /\ MaxId \in Nat

VARIABLES
  running,   \* does an acquisition worker run?
  instance, session,
  ids,       \* the identifiers new_id has drawn
  samples,   \* status.session_samples
  records,
  delivery,
  cursor,    \* of each reader
  batch,     \* of each reader, the last answer of motion_since
  latest     \* of each reader, the sample it goes on with

source == <<instance, session>>
readerVars == <<cursor, batch, latest>>
vars == <<running, instance, session, ids, samples, records, delivery, readerVars>>

None == [id |-> <<0, 0>>, sequence |-> 0]
NoSample == [id |-> <<0, 0>>, sequence |-> 0, delivery |-> 0]
NoBatch == [reset |-> FALSE, overrun |-> 0, samples |-> {}]
Records == [id : Nat \X Nat, sequence : Nat, delivery : Nat]

TypeOK ==
  /\ running \in BOOLEAN
  /\ instance \in Nat /\ session \in Nat /\ ids \in Nat
  /\ samples \in Nat /\ delivery \in Nat
  /\ records \in Seq(Records) /\ Len(records) <= Capacity
  /\ cursor \in [Readers -> [id : Nat \X Nat, sequence : Nat]]
  /\ batch \in [Readers -> [reset : BOOLEAN, overrun : Nat, samples : SUBSET Nat]]
  /\ latest \in [Readers -> Records]

Init ==
  /\ running = FALSE /\ instance = 0 /\ session = 0 /\ ids = 0
  /\ samples = 0 /\ records = <<>> /\ delivery = 0
  /\ cursor = [r \in Readers |-> None] /\ batch = [r \in Readers |-> NoBatch]
  /\ latest = [r \in Readers |-> NoSample]

-----------------------------------------------------------------------------
(***************************************************************************)
(* The control thread and the worker.                                      *)
(***************************************************************************)

Cleared == samples' = 0 /\ records' = <<>> /\ delivery' = 0

SetConfig ==
  /\ ~running /\ instance' = 0 /\ session' = 0 /\ Cleared
  /\ UNCHANGED <<running, ids, readerVars>>
Start ==
  /\ ~running /\ running' = TRUE
  /\ ids < MaxId /\ ids' = ids + 1 /\ instance' = ids' /\ session' = 0 /\ Cleared
  /\ UNCHANGED readerVars
MagneticStart ==
  /\ ~running
  /\ ids + 1 < MaxId /\ ids' = ids + 2 /\ instance' = ids + 1 /\ session' = ids' /\ Cleared
  /\ UNCHANGED <<running, readerVars>>
Stop ==
  /\ running /\ running' = FALSE
  /\ UNCHANGED <<instance, session, ids, samples, records, delivery, readerVars>>

BeginSession ==
  /\ running /\ ids < MaxId
  /\ ids' = ids + 1 /\ session' = ids' /\ Cleared
  /\ UNCHANGED <<running, instance, readerVars>>

\* push, once for each record: the oldest ones make room.
Pushed(new) ==
  LET all == records \o new
      excess == IF Len(all) > Capacity THEN Len(all) - Capacity ELSE 0 IN
  SubSeq(all, excess + 1, Len(all))

\* publish_batch: all valid poses of one read.
PublishBatch ==
  /\ running /\ session # 0
  /\ delivery < MaxDelivery /\ delivery' = delivery + 1
  /\ \E n \in 0 .. MaxBatch :
       /\ samples + n <= MaxSample /\ samples' = samples + n
       /\ records' = Pushed([i \in 1 .. n |->
            [id |-> source, sequence |-> samples + i, delivery |-> delivery']])
  /\ UNCHANGED <<running, instance, session, ids, readerVars>>

-----------------------------------------------------------------------------
(***************************************************************************)
(* motion_since and its readers.                                           *)
(***************************************************************************)

Newest == IF records = <<>> THEN None
          ELSE [id |-> records[Len(records)].id, sequence |-> records[Len(records)].sequence]

\* History::since: its cursor is of other records than those kept.
Foreign(c) ==
  c # None /\ records # <<>> /\ (c.id # Newest.id \/ c.sequence > Newest.sequence)
After(c) == IF Foreign(c) THEN 0 ELSE c.sequence

\* Faulty variant of Overrun: the sample of the cursor counts as unread.
OverrunFromCursor(c) ==
  IF c = None \/ Foreign(c) \/ records = <<>> \/ records[1].sequence <= After(c) THEN 0
  ELSE records[1].sequence - After(c)
Overrun(c) ==
  IF c = None \/ Foreign(c) \/ records = <<>> \/ records[1].sequence <= After(c) + 1 THEN 0
  ELSE records[1].sequence - (After(c) + 1)

\* Faulty variant of Reset: what History::since finds from its records alone.
ResetOfRecords(c) == Foreign(c)
Reset(c) == Foreign(c) \/ (c # None /\ c.id # source)

Unread(c) == {i \in 1 .. Len(records) : records[i].sequence > After(c)}

\* A reader, as the client's worker polls: it keeps the cursor of the answer,
\* and a reset drops the sample it went on with.
Poll(r) ==
  /\ batch' = [batch EXCEPT ![r] =
       [reset |-> Reset(cursor[r]), overrun |-> Overrun(cursor[r]),
        samples |-> {records[i].sequence : i \in Unread(cursor[r])}]]
  /\ cursor' = [cursor EXCEPT ![r] = Newest]
  /\ latest' = [latest EXCEPT ![r] =
       IF Unread(cursor[r]) # {} THEN records[Len(records)]
       ELSE IF Reset(cursor[r]) THEN NoSample ELSE @]
  /\ UNCHANGED <<running, instance, session, ids, samples, records, delivery>>

\* A new request starts over.
Forget(r) ==
  /\ cursor' = [cursor EXCEPT ![r] = None]
  /\ latest' = [latest EXCEPT ![r] = NoSample]
  /\ UNCHANGED <<running, instance, session, ids, samples, records, delivery, batch>>

Next ==
  \/ SetConfig \/ Start \/ MagneticStart \/ Stop \/ BeginSession \/ PublishBatch
  \/ \E r \in Readers : Poll(r) \/ Forget(r)
Spec == Init /\ [][Next]_vars

-----------------------------------------------------------------------------
(***************************************************************************)
(* Properties.                                                             *)
(***************************************************************************)

\* The ring, the cursors and the two places that detect a reset implement the
\* feed: in a session each sample reaches each reader once, or is in its
\* history_overrun, and a change of session is never missed.
Feed == INSTANCE MotionFeed WITH published <- samples
ImplementsFeed == Feed!Spec

\* No reader goes on with a sample of an earlier session once it has polled:
\* what it holds under the cursor of this session, or under none after a
\* reset, is of this session.
LatestIsCurrent ==
  [][\A r \in Readers : Poll(r) => latest'[r] = NoSample \/ latest'[r].id = source]_vars

\* The last sample a reader got is the last one of its delivery, as it is
\* used for a reception anchor: no query falls between two poses of one read.
AnchorIsLast ==
  \A r \in Readers : latest[r].id = source /\ latest[r] # NoSample =>
    \A i \in 1 .. Len(records) :
      records[i].delivery = latest[r].delivery => records[i].sequence <= latest[r].sequence

=============================================================================
