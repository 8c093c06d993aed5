------------------------------- MODULE Telemetry -------------------------------
(***************************************************************************)
(* osc.rs, Telemetry: what a worker tells a receiver beside its poses.  A  *)
(* packet of info describes the source, one of status its state; each is   *)
(* due when its period is over or what it tells has changed, and a packet  *)
(* may be refused by the socket or fail.                                   *)
(***************************************************************************)
EXTENDS Integers, Sequences

CONSTANTS
  InfoPeriod,   \* 5 s
  StatusPeriod  \* 1 s

ASSUME TelemetryAssumption == InfoPeriod \in Nat \ {0} /\ StatusPeriod \in Nat \ {0}

NewTelemetry == [infoSeq |-> 0, statusSeq |-> 0, nextInfo |-> 0, nextStatus |-> 0,
                 revision |-> 0, lastState |-> "none", errors |-> 0]

DueInfo(t, snap, now) == now >= t.nextInfo \/ t.revision # snap.revision
DueStatus(t, snap, now) ==
  now >= t.nextStatus \/ t.lastState # snap.state \/ t.revision # snap.revision

\* How the two packets fare.  Only one that is delivered uses its number up.
SentInfo(t, now, outcome) ==
  [t EXCEPT !.nextInfo = now + InfoPeriod, !.infoSeq = IF outcome = "delivered" THEN @ + 1 ELSE @,
            !.errors = IF outcome = "delivered" THEN @ ELSE @ + 1]
SentStatus(t, now, outcome) ==
  [t EXCEPT !.nextStatus = now + StatusPeriod,
            !.statusSeq = IF outcome = "delivered" THEN @ + 1 ELSE @,
            !.errors = IF outcome = "delivered" THEN @ ELSE @ + 1]

\* refresh: an error returns at once; what was told is recorded at the end,
\* delivered or refused.
Refresh(t, snap, force, now, info, status) ==
  LET asksInfo == force \/ DueInfo(t, snap, now)
      asksStatus == force \/ DueStatus(t, snap, now)
      first == IF asksInfo THEN SentInfo(t, now, info) ELSE t
      second == IF asksStatus THEN SentStatus(first, now, status) ELSE first
  IN  IF asksInfo /\ info = "error" THEN first
      ELSE IF asksStatus /\ status = "error" THEN second
      ELSE [second EXCEPT !.revision = snap.revision, !.lastState = snap.state]

=============================================================================
