------------------------------- MODULE MCReports -------------------------------
(***************************************************************************)
(* What is told beside the samples, checked on all short histories: the    *)
(* telemetry of a worker and the battery of its device.                    *)
(***************************************************************************)
EXTENDS Telemetry, Battery, SequencesExt

\* One refresh a unit of time, up to five of them: what the snapshot says and
\* how the packets fare.
Refreshes == [snap : {[revision |-> 1, state |-> "Active"], [revision |-> 1, state |-> "Stale"],
                      [revision |-> 2, state |-> "Active"]},
              fate : {<<"delivered", "delivered">>, <<"refused", "delivered">>,
                      <<"delivered", "refused">>, <<"error", "delivered">>, <<"delivered", "error">>}]
Told(t, r, now) == Refresh(t, r.snap, FALSE, now, r.fate[1], r.fate[2])
Receiver(history) ==
  FoldLeft(LAMBDA run, r :
             LET t == run.t
                 u == Told(t, r, run.now)
             IN  [t |-> u, now |-> run.now + 1,
                  info |-> IF u.infoSeq > t.infoSeq THEN r.snap.revision ELSE run.info,
                  status |-> IF u.statusSeq > t.statusSeq THEN r.snap ELSE run.status],
           [t |-> NewTelemetry, now |-> 0, info |-> 0, status |-> [revision |-> 0, state |-> "none"]],
           history)

\* A receiver is told of a change at once, unless its packet, or one before it in
\* the same refresh, was not delivered: then it is at most one period behind.
Fares(r, kind) ==
  IF kind = "info" THEN r.fate[1] = "delivered" ELSE r.fate[1] # "error" /\ r.fate[2] = "delivered"
Grows(history) ==
  \A i \in 2 .. Len(history) : history[i - 1].snap.revision <= history[i].snap.revision
ASSUME ReceiversAreTold ==
  \A n \in 1 .. 5 : \A history \in {h \in [1 .. n -> Refreshes] : Grows(h)} :
    LET end == Receiver(history)
        last == history[n].snap
        Clear(kind, period) ==
          \A i \in 1 .. n : n - i <= period => Fares(history[i], kind)
    IN  /\ Clear("info", InfoPeriod) => end.info = last.revision
        /\ Clear("status", StatusPeriod) => end.status = last
        /\ end.t.infoSeq + end.t.statusSeq + end.t.errors <= 2 * n

-----------------------------------------------------------------------------

Answers == [do : {"answer"}, raw : {199, 200, 339, 396, 430, 431, 551}, gap : {0, 2}]
              \cup [do : {"fail"}, raw : {0}, gap : {1}]
Reading(run, r) ==
  LET now == run.now + r.gap IN
  [b |-> IF r.do = "fail" THEN Fail(run.b) ELSE Observe(run.b, r.raw, now), now |-> now]

\* A higher voltage is never a lower percentage, and one beyond a single cell
\* is none.
ASSUME EstimateIsMonotone ==
  \A raw \in 200 .. 430 :
    /\ Estimate(raw) \in 0 .. 100
    /\ raw < 430 => Estimate(raw) <= Estimate(raw + 1)

\* An error or the time never lets an old reading pass for a fresh one, and a
\* reading that is shown keeps the percentage it was taken with.
ASSUME OldReadingsAreNotFresh ==
  \A n \in 0 .. 3 : \A history \in [1 .. n -> Answers] :
    LET end == FoldLeft(Reading, [b |-> NewBattery, now |-> 0], history) IN
    /\ end.b.percent = Estimate(end.b.raw)
    /\ \A later \in end.now .. end.now + 3 :
         FreshBattery(end.b, later, TRUE) =>
           /\ n > 0 /\ history[n].do = "answer" /\ history[n].raw \in 200 .. 550
           /\ end.b.raw = history[n].raw /\ later - end.now < BatteryStale
=============================================================================
