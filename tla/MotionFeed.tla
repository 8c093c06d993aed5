----------------------------- MODULE MotionFeed -----------------------------
(***************************************************************************)
(* What motion_since promises its readers: samples are numbered from one   *)
(* in every session, a reader gets each of them once and in order, and     *)
(* those it comes too late for are counted.  Nothing is said of how they   *)
(* are kept, except that the last Capacity ones are.                       *)
(***************************************************************************)
EXTENDS Integers

CONSTANTS Readers, Capacity

VARIABLES
  source,     \* the instance and session the samples belong to
  published,  \* the samples of this session
  cursor,     \* of each reader, the last sample it was told of
  batch       \* of each reader, what it was told last

vars == <<source, published, cursor, batch>>

None == [id |-> <<0, 0>>, sequence |-> 0]
NoBatch == [reset |-> FALSE, overrun |-> 0, samples |-> {}]
Behind(a, b) == IF a > b THEN a - b ELSE 0
Later(a, b) == IF a > b THEN a ELSE b

Init ==
  /\ published = 0
  /\ cursor = [r \in Readers |-> None] /\ batch = [r \in Readers |-> NoBatch]

Publish ==
  /\ published' \in Nat /\ published' >= published
  /\ UNCHANGED <<source, cursor, batch>>

\* A session that no reader has heard of.
Renew ==
  /\ published' = 0
  /\ \A r \in Readers : cursor[r] # None => cursor[r].id # source'
  /\ UNCHANGED <<cursor, batch>>

Read(r) ==
  LET held == cursor[r] # None /\ cursor[r].id = source
      position == IF held THEN cursor[r].sequence ELSE 0
      evicted == Behind(published, Capacity) IN
  /\ batch' = [batch EXCEPT ![r] =
       [reset |-> cursor[r] # None /\ ~held,
        overrun |-> IF held THEN Behind(evicted, position) ELSE 0,
        samples |-> Later(position, evicted) + 1 .. published]]
  /\ cursor' = [cursor EXCEPT ![r] =
       IF published = 0 THEN None ELSE [id |-> source, sequence |-> published]]
  /\ UNCHANGED <<source, published>>

Forget(r) ==
  /\ cursor' = [cursor EXCEPT ![r] = None]
  /\ UNCHANGED <<source, published, batch>>

Next == Publish \/ Renew \/ \E r \in Readers : Read(r) \/ Forget(r)
Spec == Init /\ [][Next]_vars

=============================================================================
