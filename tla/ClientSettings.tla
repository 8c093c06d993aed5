-------------------------- MODULE ClientSettings --------------------------
(***************************************************************************)
(* Settings applied by the client: one submission is an inspection, the    *)
(* writes that lead from what was read to what is wanted, each of them a   *)
(* task of its own, and an inspection at the end.  It runs over            *)
(* DeviceCommand; ordinary commands come before and after it.              *)
(***************************************************************************)
EXTENDS DeviceCommand

CONSTANT Submissions  \* pairs <<settings last read, settings wanted>>

Settings == [rate : Rates, format : Supported, algorithm : Algorithms]

\* validate: the full frame is for 20 Hz.
Valid(s) == s.format = "full" => s.rate = 20

\* Submissions with an invalid target are refused by new.
ASSUME SubmissionsAssumption == Submissions \subseteq Settings \X Settings

VARIABLE apply
applyVars == <<vars, apply>>

NoApply == [stage |-> "none", expected |-> [rate |-> 20, format |-> "motion", algorithm |-> "nine"],
            target |-> [rate |-> 20, format |-> "motion", algorithm |-> "nine"],
            pending |-> <<>>, verified |-> {}, step |-> "none", complete |-> FALSE, error |-> FALSE]

ApplyInit == Init /\ apply = NoApply

\* Settings::observed: nothing of an invalid or an unknown description.
Observed(d) ==
  IF d.valid /\ d.values.output \in Supported
    THEN {[rate |-> d.values.rate, format |-> d.values.output, algorithm |-> d.values.algorithm]}
    ELSE {}

When(condition, c) == IF condition THEN <<c>> ELSE <<>>

\* 20 Hz is entered before the full frame, and left after it.
Writes(target, current) ==
  When(target.format = "full" /\ target.rate # current.rate, Command("rate", "rate", target.rate))
  \o When(target.format # current.format, Command("output", "output", target.format))
  \o When(target.format # "full" /\ target.rate # current.rate, Command("rate", "rate", target.rate))
  \o When(target.algorithm # current.algorithm, Command("algorithm", "algorithm", target.algorithm))

Applying == apply.stage \in {"before", "write", "after"} /\ ~apply.error

\* The submission is refused, or its first inspection starts.
Submit(s) ==
  /\ ~Applying /\ count <= MaxCommands /\ Valid(s[2]) /\ Begin(Inspect)
  /\ apply' = [NoApply EXCEPT !.stage = "before", !.expected = s[1], !.target = s[2]]

Fails == apply' = [apply EXCEPT !.error = TRUE, !.pending = <<>>]

\* The next write of the list, or the final inspection.
Continue(a) ==
  IF a.pending # <<>>
    THEN /\ apply' = [a EXCEPT !.stage = "write", !.step = Head(a.pending).name,
                               !.pending = Tail(a.pending)]
         /\ Begin(Head(a.pending))
    ELSE apply' = [a EXCEPT !.stage = "after"] /\ Begin(Inspect)

Completes(a) == apply' = [a EXCEPT !.stage = "done", !.complete = TRUE] /\ UNCHANGED vars

\* Faulty variant of Advances: the list of writes is followed whatever came of
\* each, and its end is the end.
AdvancesUnread ==
  /\ Applying /\ phase = "idle" /\ ended \in {"Succeeded", "Unverified"}
  /\ IF apply.stage = "write" /\ apply.pending = <<>>
       THEN Completes([apply EXCEPT !.verified = @ \cup {apply.step}])
     ELSE IF apply.stage = "write" THEN Continue([apply EXCEPT !.verified = @ \cup {apply.step}])
     ELSE IF apply.stage = "after" THEN Completes(apply)
     ELSE Continue([apply EXCEPT !.pending = Writes(apply.target, apply.expected)])

Advances ==
  /\ Applying /\ phase = "idle" /\ ended \in {"Succeeded", "Unverified"}
  /\ CASE apply.stage = "before" ->
            IF desc.values.calsw # 7 /\ Observed(desc) = {apply.expected}
              THEN LET a == [apply EXCEPT !.pending = Writes(apply.target, apply.expected)] IN
                   IF a.pending = <<>> THEN Completes(a) ELSE Continue(a)
              ELSE Fails /\ UNCHANGED vars
       [] apply.stage = "write" ->
            IF op.outcome = "Succeeded" /\ op.verified
              THEN Continue([apply EXCEPT !.verified = @ \cup {apply.step}])
              ELSE Fails /\ UNCHANGED vars
       [] apply.stage = "after" ->
            IF Observed(desc) = {apply.target} THEN Completes(apply) ELSE Fails /\ UNCHANGED vars

\* The task failed or was stopped: what remains is not applied.
Gives ==
  /\ Applying /\ phase = "idle" /\ ended \in {"Failed", "Cancelled"}
  /\ Fails /\ UNCHANGED vars

\* Stop takes the submission back, then cancels and joins the task.
Stop ==
  /\ phase # "idle" /\ Cancel
  /\ IF Applying THEN Fails ELSE UNCHANGED apply

\* A command of its own; the submission before it is not shown any more.
Direct == ~Applying /\ count < MaxCommands
          /\ (\E c \in Commands \cup {Inspect} : Begin(c)) /\ apply' = NoApply

ApplyNext ==
  \/ Direct \/ \E s \in Submissions : Submit(s)
  \/ Advances \/ Gives \/ Stop
  \/ (Work \/ StepFails \/ Repeats \/ Environment) /\ UNCHANGED apply

ApplySpec == ApplyInit /\ [][ApplyNext]_applyVars

\* Every await of an operation ends, if only by its timeout: the three seconds
\* of a read, the two of a write, the eight of a whole calibration.
ApplyFairSpec ==
  /\ ApplySpec
  /\ WF_applyVars(Work /\ UNCHANGED apply) /\ WF_applyVars(StepFails /\ UNCHANGED apply)
  /\ WF_applyVars(Advances) /\ WF_applyVars(Gives)

-----------------------------------------------------------------------------
(***************************************************************************)
(* Properties.                                                             *)
(***************************************************************************)

Holds(name) ==
  CASE name = "rate" -> regs.rate = apply.target.rate
    [] name = "output" -> regs.output = apply.target.format
    [] name = "algorithm" -> regs.algorithm = apply.target.algorithm

\* Settings reported as applied are those of the device, unless it was switched
\* off after the final inspection: one that lost a setting between two writes is
\* found out.  Until then what is listed as verified holds.
AppliedIsTrue ==
  ~aged =>
    /\ apply.complete => \A name \in {"rate", "output", "algorithm"} : Holds(name)
    /\ apply.stage = "write" => \A name \in apply.verified : Holds(name)

\* No operation runs for ever, and no submission waits for ever.
OperationsEnd ==
  /\ op.outcome = "Running" ~> op.outcome # "Running"
  /\ Applying ~> ~Applying

=============================================================================
