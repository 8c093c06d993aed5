------------------------ MODULE MagneticSessionProofs ------------------------
(***************************************************************************)
(* Proofs about the magnetic session.  MagneticSession: a calibration it   *)
(* may have started is owned until its end, stop does not return Ok while  *)
(* one is, no write was not asked for, and an operation that has ended     *)
(* stays as it ended.  Sweeps, the session as the client shows it: what is *)
(* compared is of one calibration, and an end is called verified only when *)
(* it was.                                                                 *)
(***************************************************************************)
EXTENDS MagneticSession, Sweeps, TLAPS, WellFoundedInduction

-----------------------------------------------------------------------------
(***************************************************************************)
(* A batch of replies.  What observing them one after the other comes to   *)
(* is an induction over the batch; the library's theorems of induction     *)
(* take an operator, so it is stated for a set of numbers.                 *)
(***************************************************************************)

\* A set that has 0, and the successor of each number it has, has them all.
LEMMA SetInduction ==
  ASSUME NEW S, 0 \in S, \A n \in Nat : n \in S => n + 1 \in S
  PROVE  Nat \subseteq S
<1> DEFINE R == OpToRel(<, Nat)
           T == Nat \ S
<1>1. IsWellFoundedOn(R, Nat)
  BY NatLessThanWellFounded
<1>2. SUFFICES ASSUME T # {} PROVE FALSE
  OBVIOUS
<1>3. T \subseteq Nat
  OBVIOUS
<1> HIDE DEF T
<1>4. PICK m \in T : \A y \in T : ~(<<y, m>> \in R)
  BY <1>1, <1>2, <1>3, WFMin
<1>5. \A y \in Nat : y < m => <<y, m>> \in R
  BY <1>3, <1>4 DEF OpToRel
<1>6. m \in Nat /\ m \notin S
  BY <1>4 DEF T
<1>7. m - 1 \in Nat /\ m - 1 < m /\ (m - 1) + 1 = m
  BY <1>6
<1>8. m - 1 \in S
  BY <1>4, <1>5, <1>7 DEF T
<1>9. QED
  BY <1>6, <1>7, <1>8

\* A function defined by what it is at 0 and how it goes on is that function.
LEMMA RecursionDefines ==
  ASSUME NEW start, NEW step(_, _), NEW k \in Nat
  PROVE  LET f[i \in 0 .. k] == IF i = 0 THEN start ELSE step(f[i - 1], i)
         IN  f = [i \in 0 .. k |-> IF i = 0 THEN start ELSE step(f[i - 1], i)]
<1> DEFINE Fix(g, n) == g = [i \in 0 .. n |-> IF i = 0 THEN start ELSE step(g[i - 1], i)]
           S == {n \in Nat : \E g : Fix(g, n)}
<1>1. 0 \in S
  <2>1. Fix([i \in 0 .. 0 |-> start], 0)
    OBVIOUS
  <2>2. QED BY <2>1
<1>2. \A n \in Nat : n \in S => n + 1 \in S
  <2>1. SUFFICES ASSUME NEW n \in Nat, NEW g, Fix(g, n)
                 PROVE  \E h : Fix(h, n + 1)
    OBVIOUS
  <2> DEFINE h == [i \in 0 .. n + 1 |-> IF i = 0 THEN start ELSE step(g[i - 1], i)]
  <2>2. ASSUME NEW i \in 0 .. n PROVE h[i] = g[i]
    <3>1. g[i] = IF i = 0 THEN start ELSE step(g[i - 1], i)
      BY <2>1
    <3>2. QED BY <3>1
  <2>3. ASSUME NEW i \in 0 .. n + 1
        PROVE  h[i] = IF i = 0 THEN start ELSE step(h[i - 1], i)
    <3>1. CASE i = 0
      BY <3>1
    <3>2. CASE i # 0
      <4>1. i - 1 \in 0 .. n
        BY <3>2
      <4>2. h[i - 1] = g[i - 1]
        BY <4>1, <2>2
      <4>3. QED BY <4>2, <3>2
    <3>3. QED BY <3>1, <3>2
  <2> HIDE DEF h
  <2>4. h = [i \in 0 .. n + 1 |-> h[i]]
    BY DEF h
  <2>5. Fix(h, n + 1)
    BY <2>3, <2>4
  <2>6. QED BY <2>5
<1>3. k \in S
  <2> HIDE DEF S
  <2>1. QED BY <1>1, <1>2, SetInduction
<1>4. PICK g : Fix(g, k)
  BY <1>3
<1>5. QED BY <1>4

ReplyType == [register : {"calsw", "mag"}, value : Switch, turn : Nat]
MagType ==
  [phase : Phases, running : BOOLEAN, owned : BOOLEAN, calsw : Switch \cup {Unknown},
   records : BOOLEAN, frozen : BOOLEAN, error : BOOLEAN]

\* A reply that says that no calibration runs.
Zero(reply) == reply.register = "calsw" /\ reply.value = 0

\* One reply ends the ownership only by saying that no calibration runs.
LEMMA ObserveSays ==
  ASSUME NEW m \in MagType, NEW reply \in ReplyType
  PROVE  /\ Observe(m, reply) \in MagType
         /\ Observe(m, reply).running = m.running
         /\ Observe(m, reply).error = m.error
         /\ Observe(m, reply).owned => m.owned
         /\ m.owned /\ ~Observe(m, reply).owned => Zero(reply)
<1>1. reply.register = "calsw" \/ reply.register = "mag"
  BY DEF ReplyType
<1>2. CASE reply.register = "calsw"
  <2> DEFINE v == reply.value
  <2>1. v \in Switch
    BY DEF ReplyType
  <2>2. ObserveCalsw(m, v) \in MagType
    BY <2>1 DEF ObserveCalsw, MagType, Phases
  <2>3. ObserveCalsw(m, v).running = m.running /\ ObserveCalsw(m, v).error = m.error
    BY <2>1 DEF ObserveCalsw, MagType
  <2>4. ObserveCalsw(m, v).owned => m.owned
    BY <2>1 DEF ObserveCalsw, MagType
  <2>5. m.owned /\ ~ObserveCalsw(m, v).owned => v = 0
    BY <2>1 DEF ObserveCalsw, MagType, Switch
  <2>6. QED BY <1>2, <2>2, <2>3, <2>4, <2>5 DEF Observe, Zero
<1>3. CASE reply.register = "mag"
  BY <1>3 DEF Observe, MagType
<1>4. QED BY <1>1, <1>2, <1>3

\* Nor does a batch: what it leaves of the state, whoever waits for it.
LEMMA ObservedSays ==
  ASSUME mag \in MagType, NEW k \in Nat,
         \A i \in 1 .. k : replies[i] \in ReplyType
  PROVE  /\ Observed(k) \in MagType
         /\ Observed(k).running = mag.running
         /\ Observed(k).error = mag.error
         /\ Observed(k).owned => mag.owned
         /\ mag.owned /\ ~Observed(k).owned => \E i \in 1 .. k : Zero(replies[i])
<1> DEFINE Step(m, i) == Observe(m, replies[i])
           Trail[i \in 0 .. k] == IF i = 0 THEN mag ELSE Observe(Trail[i - 1], replies[i])
<1>1. Trail = [i \in 0 .. k |-> IF i = 0 THEN mag ELSE Step(Trail[i - 1], i)]
  <2> HIDE DEF Step
  <2>1. LET f[i \in 0 .. k] == IF i = 0 THEN mag ELSE Step(f[i - 1], i)
        IN  f = [i \in 0 .. k |-> IF i = 0 THEN mag ELSE Step(f[i - 1], i)]
    BY RecursionDefines
  <2>2. QED BY <2>1 DEF Step
<1>2. Observed(k) = Trail[k]
  BY DEF Observed
<1> HIDE DEF Trail
<1> DEFINE Says(m, n) ==
      /\ m \in MagType /\ m.running = mag.running /\ m.error = mag.error
      /\ m.owned => mag.owned
      /\ mag.owned /\ ~m.owned => \E i \in 1 .. n : Zero(replies[i])
    S == {n \in Nat : n <= k => Says(Trail[n], n)}
<1>3. 0 \in S
  <2>1. Trail[0] = mag
    BY <1>1
  <2>2. QED BY <2>1
<1>4. ASSUME NEW n \in Nat, n \in S PROVE n + 1 \in S
  <2>1. SUFFICES ASSUME n + 1 <= k PROVE Says(Trail[n + 1], n + 1)
    OBVIOUS
  <2>2. Says(Trail[n], n)
    BY <1>4, <2>1
  <2>3. Trail[n + 1] = Observe(Trail[n], replies[n + 1]) /\ replies[n + 1] \in ReplyType
    BY <1>1, <2>1
  <2> DEFINE m == Trail[n]
             r == replies[n + 1]
  <2>4. /\ Observe(m, r) \in MagType
        /\ Observe(m, r).running = m.running /\ Observe(m, r).error = m.error
        /\ Observe(m, r).owned => m.owned
        /\ m.owned /\ ~Observe(m, r).owned => Zero(r)
    BY <2>2, <2>3, ObserveSays
  <2>5. (\E i \in 1 .. n : Zero(replies[i])) => \E i \in 1 .. n + 1 : Zero(replies[i])
    OBVIOUS
  <2>6. QED BY <2>2, <2>3, <2>4, <2>5
<1>5. k \in S
  <2> HIDE DEF S
  <2>1. QED BY <1>3, <1>4, SetInduction
<1>6. QED BY <1>2, <1>5

-----------------------------------------------------------------------------
(***************************************************************************)
(* Types.                                                                  *)
(***************************************************************************)

RequestType == [kind : {"calsw", "mag"} \cup Commands, turn : Nat]
ExecType ==
  [command : Commands, previous : Phases, cleaning : BOOLEAN, turn : Nat, checked : Nat]
Places == Listening \cup {"open", "type", "write", "leave", "finish", "close",
                          "ended", "finished", "aborted"}

\* What is left of a sequence behind its first k.
LEMMA RestSays ==
  ASSUME NEW T, NEW s \in Seq(T), NEW k \in 1 .. Len(s)
  PROVE  /\ SubSeq(s, k + 1, Len(s)) \in Seq(T)
         /\ Len(SubSeq(s, k + 1, Len(s))) = Len(s) - k
         /\ \A j \in 1 .. Len(s) - k : SubSeq(s, k + 1, Len(s))[j] = s[j + k]
  OBVIOUS

\* What was received is a part of the state, and is taken from the link.
LEMMA HeardSays ==
  ASSUME TypeOK, NEW here, NEW k \in Batches, NEW i \in Batches, Heard(here, k, i)
  PROVE  /\ Observed(k) \in MagType /\ replies' \in Seq(ReplyType)
         /\ replies[i] \in ReplyType /\ i \in 1 .. k /\ Answers(replies[i])
         /\ pc = here
         /\ Observed(k).running = mag.running
         /\ Observed(k).error = mag.error
         /\ Observed(k).owned => mag.owned
         /\ mag.owned /\ ~Observed(k).owned => \E j \in 1 .. k : Zero(replies[j])
         /\ Len(replies') = Len(replies) - k
         /\ \A j \in 1 .. Len(replies') : replies'[j] = replies[j + k]
<1>1. mag \in MagType /\ replies \in Seq(ReplyType)
  BY DEF TypeOK, MagType, ReplyType
<1>2. k \in 1 .. Len(replies) /\ i \in 1 .. Len(replies) /\ i <= k
  BY DEF Batches, Heard
<1>3. k \in Nat /\ i \in 1 .. k
  BY <1>1, <1>2
<1>4. \A j \in 1 .. k : replies[j] \in ReplyType
  BY <1>1, <1>2
<1>5. replies' = SubSeq(replies, k + 1, Len(replies))
  BY DEF Heard
<1>6. /\ replies' \in Seq(ReplyType) /\ Len(replies') = Len(replies) - k
      /\ \A j \in 1 .. Len(replies') : replies'[j] = replies[j + k]
  BY <1>1, <1>2, <1>5, RestSays
<1>7. pc = here /\ Answers(replies[i])
  BY DEF Heard
<1>8. QED
  BY <1>1, <1>3, <1>4, <1>6, <1>7, ObservedSays

\* The same of a batch that answers nobody.
LEMMA HearSays ==
  ASSUME TypeOK, Hear
  PROVE  \E k \in 1 .. Len(replies) :
           /\ mag' \in MagType /\ replies' \in Seq(ReplyType)
           /\ mag'.running = mag.running /\ mag'.error = mag.error
           /\ mag'.owned => mag.owned
           /\ mag.owned /\ ~mag'.owned => \E j \in 1 .. k : Zero(replies[j])
           /\ Len(replies') = Len(replies) - k
           /\ \A j \in 1 .. Len(replies') : replies'[j] = replies[j + k]
<1>1. mag \in MagType /\ replies \in Seq(ReplyType)
  BY DEF TypeOK, MagType, ReplyType
<1>2. PICK k \in 1 .. Len(replies) :
        mag' = Observed(k) /\ replies' = SubSeq(replies, k + 1, Len(replies))
  BY DEF Hear, Batches
<1>3. k \in Nat /\ \A j \in 1 .. k : replies[j] \in ReplyType
  BY <1>1, <1>2
<1>4. /\ replies' \in Seq(ReplyType) /\ Len(replies') = Len(replies) - k
      /\ \A j \in 1 .. Len(replies') : replies'[j] = replies[j + k]
  BY <1>1, <1>2, RestSays
<1>5. QED
  BY <1>1, <1>2, <1>3, <1>4, ObservedSays

\* TypeOK in the words of the types above.
Types ==
  /\ mag \in MagType
  /\ op \in [command : Commands, outcome : Outcomes] /\ cleanup \in Outcomes
  /\ queue \in Seq(Commands) /\ Len(queue) <= 1
  /\ cancel \in BOOLEAN /\ caller \in {"open", "stopping", "Ok", "Io", "Timeout"}
  /\ pc \in Places /\ exec \in ExecType /\ failure \in {"None", "Cancelled", "Error"}
  /\ requests \in Seq(RequestType) /\ replies \in Seq(ReplyType)
  /\ device \in [calsw : Switch, ours : BOOLEAN] /\ external \in 0 .. MaxExternal
  /\ accepted \in [Commands -> 0 .. MaxCommands] /\ written \in [Commands -> Nat]

LEMMA TypesAreTypeOK == TypeOK <=> Types
  BY DEF TypeOK, Types, MagType, Places, ExecType, RequestType, ReplyType

\* What is used of them most.
LEMMA TypesSay ==
  ASSUME Types
  PROVE  /\ TypeOK
         /\ mag \in MagType /\ failure \in {"None", "Cancelled", "Error"}
         /\ exec \in ExecType /\ exec.turn \in Nat /\ exec.turn + 1 \in Nat
         /\ exec.command \in Commands /\ exec.cleaning \in BOOLEAN
         /\ requests \in Seq(RequestType) /\ Len(requests) \in Nat
         /\ replies \in Seq(ReplyType) /\ Len(replies) \in Nat
<1>1. exec \in ExecType /\ requests \in Seq(RequestType) /\ replies \in Seq(ReplyType)
  BY DEF Types
<1>2. mag \in MagType /\ failure \in {"None", "Cancelled", "Error"}
  BY DEF Types
<1>3. exec.turn \in Nat /\ exec.command \in Commands /\ exec.cleaning \in BOOLEAN
  BY <1>1 DEF ExecType
<1>4. Len(requests) \in Nat /\ Len(replies) \in Nat
  BY <1>1
<1>5. QED BY <1>1, <1>2, <1>3, <1>4, TypesAreTypeOK

\* What is sent is of the type of requests.
LEMMA SendSays ==
  ASSUME Types, NEW kind \in {"calsw", "mag"} \cup Commands, NEW turn \in Nat, Send(kind, turn)
  PROVE  /\ requests' \in Seq(RequestType) /\ Len(requests') = Len(requests) + 1
         /\ requests'[Len(requests) + 1].kind = kind
         /\ \A i \in 1 .. Len(requests) : requests'[i] = requests[i]
<1>1. [kind |-> kind, turn |-> turn] \in RequestType
  BY DEF RequestType
<1>2. requests \in Seq(RequestType)
  BY DEF Types
<1>3. QED
  BY <1>1, <1>2 DEF Send

LEMMA InitTypes == Init => Types
<1> SUFFICES ASSUME Init PROVE Types
  OBVIOUS
<1>1. mag \in MagType
  BY DEF Init, MagType, Phases, Unknown
<1>2. exec \in ExecType
  BY DEF Init, ExecType, Commands, Phases
<1>3. op \in [command : Commands, outcome : Outcomes] /\ cleanup \in Outcomes
  BY DEF Init, Commands, Outcomes
<1>4. device \in [calsw : Switch, ours : BOOLEAN]
  BY DEF Init
<1>5. accepted \in [Commands -> 0 .. MaxCommands] /\ written \in [Commands -> Nat]
      /\ external \in 0 .. MaxExternal
  BY ConstantsAssumption DEF Init
<1>6. queue \in Seq(Commands) /\ Len(queue) <= 1
      /\ requests \in Seq(RequestType) /\ replies \in Seq(ReplyType)
  BY DEF Init
<1>7. QED
  BY <1>1, <1>2, <1>3, <1>4, <1>5, <1>6 DEF Init, Types, Places

\* Ending a session, or leaving the monitor, keeps the types.
LEMMA FinishSays ==
  ASSUME NEW m \in MagType, NEW failed \in BOOLEAN
  PROVE  /\ Finish(m, failed) \in MagType
         /\ Finish(m, failed).owned = m.owned
         /\ Finish(m, failed).error = failed
         /\ ~Finish(m, failed).running
  BY DEF Finish, MagType, Phases

LEMMA FailSays ==
  ASSUME Types, NEW kind \in {"Cancelled", "Error"}, Fail(kind)
  PROVE  /\ op' \in [command : Commands, outcome : Outcomes]
         /\ op'.command = op.command
         /\ cleanup' \in Outcomes /\ failure' \in {"Cancelled", "Error"}
         /\ pc' = IF exec.cleaning THEN "finish" ELSE "leave"
         /\ exec.cleaning => failure' = "Error"
         /\ op' # op => pc \in Executing /\ ~exec.cleaning
         /\ op' # op => op'.outcome \notin {"None", "Running"}
<1>1. exec.cleaning \in BOOLEAN
  BY DEF Types, ExecType
<1>2. op \in [command : Commands, outcome : Outcomes] /\ cleanup \in Outcomes
  BY DEF Types
<1>3. pc' = IF exec.cleaning THEN "finish" ELSE "leave"
  BY DEF Fail
<1>4. failure' \in {"Cancelled", "Error"} /\ (exec.cleaning => failure' = "Error")
  BY <1>1 DEF Fail
<1>5. cleanup' \in Outcomes
  BY <1>1, <1>2 DEF Fail, Outcomes
<1> DEFINE settled == [op EXCEPT !.outcome = IF kind = "Cancelled" THEN "Cancelled" ELSE "Failed"]
<1>6. settled \in [command : Commands, outcome : Outcomes] /\ settled.command = op.command
      /\ settled.outcome \notin {"None", "Running"}
  BY <1>2 DEF Outcomes
<1>7. op' = IF pc \in Executing /\ ~exec.cleaning THEN settled ELSE op
  BY DEF Fail
<1> HIDE DEF settled
<1>8. QED BY <1>1, <1>2, <1>3, <1>4, <1>5, <1>6, <1>7

LEMMA CallerTypes == ASSUME Types, Caller PROVE Types'
<1> USE DEF hostVars, link, world
<1>1. ASSUME NEW c \in Commands, Submit(c) PROVE Types'
  <2>1. queue' \in Seq(Commands) /\ Len(queue') <= 1
    BY <1>1 DEF Submit
  <2>2. op' \in [command : Commands, outcome : Outcomes]
    BY <1>1 DEF Submit, Outcomes
  <2>3. accepted["start"] \in 0 .. MaxCommands /\ accepted["stop"] \in 0 .. MaxCommands
        /\ accepted["save"] \in 0 .. MaxCommands
    BY DEF Types, Commands
  <2>4. accepted[c] + 1 \in 0 .. MaxCommands
    BY <1>1, <2>3, ConstantsAssumption DEF Submit, CanAccept, Commands
  <2>5. accepted' \in [Commands -> 0 .. MaxCommands]
    BY <1>1, <2>4 DEF Submit, Types
  <2>6. QED BY <1>1, <2>1, <2>2, <2>5 DEF Submit, Types
<1>2. CASE StopBegins
  BY <1>2 DEF StopBegins, Types
<1>3. CASE StopReturns
  BY <1>3 DEF StopReturns, Types
<1>4. CASE StopTimesOut
  <2>1. mag' \in MagType
    BY <1>4, FinishSays DEF StopTimesOut, Types
  <2>2. QED BY <1>4, <2>1 DEF StopTimesOut, Types, Places
<1>5. QED BY <1>1, <1>2, <1>3, <1>4 DEF Caller

LEMMA MonitorTypes == ASSUME Types, Monitor PROVE Types'
<1> USE DEF hostVars, callerVars, link, world, workerKeeps
<1>1. TypeOK
  BY TypesAreTypeOK
<1>2. exec.turn \in Nat
  BY DEF Types, ExecType
<1>3. CASE Open
  <2>1. failure' \in {"None", "Cancelled", "Error"}
    BY <1>3 DEF Open, Types
  <2>2. mag' = mag \/ mag' = Finish(mag, failure' = "Error")
    BY <1>3 DEF Open
  <2>3. mag \in MagType
    BY DEF Types
  <2>4. Finish(mag, failure' = "Error") \in MagType
    BY <2>3, FinishSays, Zenon
  <2>5. mag' \in MagType
    BY <2>2, <2>3, <2>4
  <2>6. QED BY <1>3, <2>1, <2>5 DEF Open, Types, Places
<1>4. CASE SensorType
  <2>1. requests' \in Seq(RequestType)
    BY <1>2, <1>4, SendSays DEF SensorType
  <2>2. QED BY <1>4, <2>1 DEF SensorType, Types, Places, Listening, Reading, Expects
<1>5. CASE Hear
  <2>1. mag' \in MagType /\ replies' \in Seq(ReplyType)
    BY <1>1, <1>5, HearSays
  <2>2. QED BY <1>5, <2>1 DEF Hear, Types
<1>6. CASE FirstCalsw
  <2>1. PICK k \in Batches, i \in Batches :
          /\ Heard("first", k, i)
          /\ mag' = [Observed(k) EXCEPT !.phase = IF replies[i].value = 7
                                                    THEN "ExternalCalibration" ELSE "Monitoring"]
    BY <1>6 DEF FirstCalsw
  <2>2. Observed(k) \in MagType /\ replies' \in Seq(ReplyType)
    BY <1>1, <2>1, HeardSays
  <2>3. mag' \in MagType
    BY <2>1, <2>2 DEF MagType, Phases
  <2>4. requests' \in Seq(RequestType)
    BY <1>2, <1>6, SendSays DEF FirstCalsw
  <2>5. QED BY <1>6, <2>2, <2>3, <2>4 DEF FirstCalsw, Types, Places, Listening, Reading, Expects
<1>7. CASE Polled
  <2>1. PICK k \in Batches, i \in Batches, here \in {"firstmag", "pollmag", "pollcalsw"} :
          Heard(here, k, i) /\ mag' = Observed(k)
    BY <1>7 DEF Polled
  <2>2. mag' \in MagType /\ replies' \in Seq(ReplyType)
    BY <1>1, <2>1, HeardSays
  <2>3. QED BY <1>7, <2>2 DEF Polled, Types, Places, Listening
<1>8. CASE Poll
  <2>1. PICK here \in {"pollmag", "pollcalsw"} : pc' = here /\ Send(Expects[here], exec.turn)
    BY <1>8 DEF Poll
  <2>2. Expects[here] \in {"calsw", "mag"} /\ here \in Places
    BY DEF Expects, Places, Listening, Reading
  <2>3. requests' \in Seq(RequestType)
    BY <1>2, <2>1, <2>2, SendSays
  <2>4. QED BY <1>8, <2>1, <2>2, <2>3 DEF Poll, Types
<1>9. CASE Retry
  <2>1. requests' \in Seq(RequestType)
    BY <1>2, <1>9, SendSays DEF Retry
  <2>2. QED BY <1>9, <2>1 DEF Retry, Types
<1>10. ASSUME TimesOut \/ IoFails \/ CancelNoticed PROVE Types'
  <2>1. PICK kind \in {"Cancelled", "Error"} : Fail(kind)
    BY <1>10 DEF TimesOut, IoFails, CancelNoticed
  <2>2. /\ op' \in [command : Commands, outcome : Outcomes]
        /\ cleanup' \in Outcomes /\ failure' \in {"None", "Cancelled", "Error"}
        /\ pc' \in {"finish", "leave"}
    BY <2>1, FailSays
  <2>3. UNCHANGED <<mag, exec, queue, link, written, workerKeeps>>
    BY <1>10 DEF TimesOut, IoFails, CancelNoticed
  <2>4. QED BY <2>2, <2>3 DEF Types, Places
<1>11. QED BY <1>3, <1>4, <1>5, <1>6, <1>7, <1>8, <1>9, <1>10 DEF Monitor

LEMMA ExecuteTypes == ASSUME Types, Execute PROVE Types'
<1> USE DEF hostVars, callerVars, link, world, workerKeeps
<1>1. TypeOK
  BY TypesAreTypeOK
<1>2. exec.turn \in Nat /\ exec.command \in Commands
  BY DEF Types, ExecType
<1>3. CASE Begin
  <2>1. Head(queue) \in Commands /\ queue' \in Seq(Commands) /\ Len(queue') <= 1
    BY <1>3 DEF Begin, Types
  <2>2. exec' \in ExecType
    BY <1>2, <1>3, <2>1 DEF Begin, Types, ExecType, MagType
  <2>3. requests' \in Seq(RequestType)
    BY <1>2, <1>3, SendSays DEF Begin
  <2>4. QED BY <1>3, <2>1, <2>2, <2>3 DEF Begin, Types, Places, Listening, Reading, Expects
<1>4. CASE Refused
  <2>1. PICK k \in Batches, i \in Batches : Heard("pre", k, i) /\ mag' = Observed(k)
    BY <1>4 DEF Refused
  <2>2. mag' \in MagType /\ replies' \in Seq(ReplyType)
    BY <1>1, <2>1, HeardSays
  <2>3. /\ op' \in [command : Commands, outcome : Outcomes] /\ cleanup' \in Outcomes
        /\ failure' \in {"None", "Cancelled", "Error"} /\ pc' \in Places
    BY <1>4 DEF Refused, Types, Outcomes, Places, Listening
  <2>4. QED BY <1>4, <2>2, <2>3 DEF Refused, Types
<1>5. CASE Checked
  <2>1. PICK k \in Batches, i \in Batches :
          /\ Heard("pre", k, i)
          /\ exec' = [exec EXCEPT !.checked = replies[i].turn]
          /\ IF exec.command = "start"
               THEN /\ mag' = Observed(k)
                    /\ Send("mag", exec.turn) /\ pc' = "premag"
               ELSE /\ mag' = [Observed(k) EXCEPT
                                 !.phase = IF exec.command = "stop" THEN "Stopping" ELSE "Saving"]
                    /\ pc' = "unlock" /\ UNCHANGED requests
    BY <1>5 DEF Checked
  <2>2. Observed(k) \in MagType /\ replies' \in Seq(ReplyType) /\ replies[i] \in ReplyType
    BY <1>1, <2>1, HeardSays
  <2>3. mag' \in MagType
    BY <2>1, <2>2 DEF MagType, Phases
  <2>4. exec' \in ExecType
    BY <2>1, <2>2 DEF Types, ExecType, ReplyType
  <2>5. requests' \in Seq(RequestType)
    BY <1>2, <2>1, SendSays DEF Types
  <2>6. pc' \in Places
    BY <2>1 DEF Places, Listening, Reading, Expects
  <2>7. QED BY <1>5, <2>2, <2>3, <2>4, <2>5, <2>6 DEF Checked, Types
<1>6. CASE PathProven
  <2>1. PICK k \in Batches, i \in Batches :
          Heard("premag", k, i) /\ mag' = [Observed(k) EXCEPT !.phase = "Starting"]
    BY <1>6 DEF PathProven
  <2>2. Observed(k) \in MagType /\ replies' \in Seq(ReplyType)
    BY <1>1, <2>1, HeardSays
  <2>3. mag' \in MagType
    BY <2>1, <2>2 DEF MagType, Phases
  <2>4. QED BY <1>6, <2>2, <2>3 DEF PathProven, Types, Places, Listening
<1>7. CASE Unlocked
  <2>1. mag' \in MagType
    BY <1>7 DEF Unlocked, Types, MagType
  <2>2. QED BY <1>7, <2>1 DEF Unlocked, Types, Places
<1>8. CASE Write
  <2>1. requests' \in Seq(RequestType)
    BY <1>2, <1>8, SendSays DEF Write
  <2>2. written' \in [Commands -> Nat]
    BY <1>2, <1>8 DEF Write, Types
  <2>3. mag' \in MagType
    BY <1>8 DEF Write, Types, MagType, ExecType
  <2>4. op' \in [command : Commands, outcome : Outcomes] /\ pc' \in Places
    BY <1>8 DEF Write, Types, Outcomes, Places, Listening
  <2>5. QED BY <1>8, <2>1, <2>2, <2>3, <2>4 DEF Write, Types
<1>9. CASE WriteFails
  <2>1. PICK kind \in {"Cancelled", "Error"} : Fail(kind)
    BY <1>9 DEF WriteFails
  <2>2. /\ op' \in [command : Commands, outcome : Outcomes]
        /\ cleanup' \in Outcomes /\ failure' \in {"None", "Cancelled", "Error"}
        /\ pc' \in {"finish", "leave"}
    BY <2>1, FailSays
  <2>3. requests' \in Seq(RequestType)
    BY <1>2, <1>9, SendSays DEF WriteFails, Types
  <2>4. written' \in [Commands -> Nat]
    <3>1. written' = written \/ written' = [written EXCEPT ![exec.command] = @ + 1]
      BY <1>9 DEF WriteFails
    <3>2. written \in [Commands -> Nat]
      BY DEF Types
    <3>3. QED BY <1>2, <3>1, <3>2
  <2>5. UNCHANGED <<mag, exec, queue, replies, workerKeeps>>
    BY <1>9 DEF WriteFails
  <2>6. QED BY <2>2, <2>3, <2>4, <2>5 DEF Types, Places
<1>10. CASE Settled
  <2>1. requests' \in Seq(RequestType)
    BY <1>2, <1>10, SendSays DEF Settled
  <2>2. QED BY <1>10, <2>1 DEF Settled, Types, Places, Listening, Reading, Expects
<1>11. CASE Verified
  <2>1. PICK k \in Batches, i \in Batches :
          /\ Heard("verify", k, i)
          /\ mag' = IF exec.command = "start"
                      THEN [Observed(k) EXCEPT !.phase = "Calibrating", !.frozen = FALSE]
                      ELSE [Observed(k) EXCEPT !.phase = "Calibrated", !.frozen = TRUE,
                                               !.owned = FALSE]
    BY <1>11 DEF Verified
  <2>2. Observed(k) \in MagType /\ replies' \in Seq(ReplyType)
    BY <1>1, <2>1, HeardSays
  <2>3. mag' \in MagType
    BY <2>1, <2>2 DEF MagType, Phases
  <2>4. /\ op' \in [command : Commands, outcome : Outcomes] /\ cleanup' \in Outcomes
        /\ pc' \in Places
    BY <1>11 DEF Verified, Types, Outcomes, Places, Listening
  <2>5. QED BY <1>11, <2>2, <2>3, <2>4 DEF Verified, Types
<1>12. QED
  BY <1>3, <1>4, <1>5, <1>6, <1>7, <1>8, <1>9, <1>10, <1>11 DEF Execute

LEMMA EndingTypes == ASSUME Types, Ending PROVE Types'
<1> USE DEF hostVars, callerVars, link, world, workerKeeps
<1>1. mag \in MagType /\ exec \in ExecType /\ exec.turn \in Nat /\ exec.turn + 1 \in Nat
  BY DEF Types, ExecType
<1>2. CASE Leave
  <2>1. mag' \in MagType
    BY <1>1, <1>2 DEF Leave, MagType
  <2> DEFINE ending == [command |-> "stop", previous |-> mag.phase, cleaning |-> TRUE,
                        turn |-> exec.turn + 1, checked |-> 0]
  <2>2. exec' \in ExecType
    <3>1. exec' = ending \/ exec' = exec
      BY <1>2 DEF Leave
    <3>2. mag.phase \in Phases /\ "stop" \in Commands
      BY <1>1 DEF MagType, Commands
    <3>3. ending \in ExecType
      BY <1>1, <3>2 DEF ExecType
    <3>4. QED BY <1>1, <3>1, <3>3
  <2>3. requests' \in Seq(RequestType)
    <3>1. Send("calsw", exec.turn + 1) \/ requests' = requests
      BY <1>2 DEF Leave
    <3>2. QED BY <1>1, <3>1, SendSays DEF Types
  <2>4. cleanup' \in Outcomes /\ pc' \in Places
    BY <1>2 DEF Leave, Types, Outcomes, Places, Listening, Reading, Expects
  <2>5. QED BY <1>2, <2>1, <2>2, <2>3, <2>4 DEF Leave, Types
<1>3. CASE FinishSession
  <2>1. mag' = Finish(mag, failure = "Error")
    BY <1>3 DEF FinishSession
  <2>2. Finish(mag, failure = "Error") \in MagType
    BY <1>1, FinishSays, Zenon
  <2>3. QED BY <1>3, <2>1, <2>2 DEF FinishSession, Types, Places
<1>4. CASE Close
  <2>1. mag' \in MagType
    BY <1>1, <1>4, FinishSays DEF Close
  <2>2. QED BY <1>4, <2>1 DEF Close, Types, Places
<1>5. CASE Epilogue
  <2>1. op' \in [command : Commands, outcome : Outcomes]
    BY <1>5 DEF Epilogue, Types, Outcomes
  <2>2. QED BY <1>5, <2>1 DEF Epilogue, Types, Places
<1>6. QED BY <1>2, <1>3, <1>4, <1>5 DEF Ending

LEMMA DeviceTypes == ASSUME Types, Device PROVE Types'
<1> USE DEF hostVars, callerVars, link, world, deviceKeeps
<1>1. requests \in Seq(RequestType) /\ replies \in Seq(ReplyType)
      /\ device \in [calsw : Switch, ours : BOOLEAN]
  BY DEF Types
<1>2. CASE Serve
  <2>1. Head(requests) \in RequestType /\ requests' \in Seq(RequestType)
    BY <1>1, <1>2 DEF Serve
  <2>2. device' \in [calsw : Switch, ours : BOOLEAN]
    <3>1. device' \in {device, [calsw |-> 7, ours |-> TRUE], [calsw |-> 0, ours |-> FALSE]}
      <4>1. CASE Head(requests).kind = "start"
        BY <1>2, <4>1 DEF Serve
      <4>2. CASE Head(requests).kind = "stop"
        BY <1>2, <4>2 DEF Serve
      <4>3. CASE Head(requests).kind = "save"
        BY <1>2, <4>3 DEF Serve
      <4>4. CASE Head(requests).kind \in {"calsw", "mag"}
        BY <1>2, <4>4 DEF Serve
      <4>5. QED BY <2>1, <4>1, <4>2, <4>3, <4>4 DEF RequestType, Commands
    <3>2. [calsw |-> 7, ours |-> TRUE] \in [calsw : Switch, ours : BOOLEAN]
      BY DEF Switch
    <3>3. [calsw |-> 0, ours |-> FALSE] \in [calsw : Switch, ours : BOOLEAN]
      BY DEF Switch
    <3>4. QED BY <1>1, <3>1, <3>2, <3>3, Zenon
  <2>3. replies' \in Seq(ReplyType)
    <3>1. CASE Head(requests).kind \in {"calsw", "mag"}
      <4>1. replies' = Append(replies, [register |-> Head(requests).kind,
                                        value |-> device.calsw, turn |-> Head(requests).turn])
        BY <1>2, <3>1 DEF Serve
      <4>2. [register |-> Head(requests).kind, value |-> device.calsw,
             turn |-> Head(requests).turn] \in ReplyType
        BY <1>1, <2>1, <3>1 DEF RequestType, ReplyType
      <4>3. QED BY <1>1, <4>1, <4>2
    <3>2. CASE Head(requests).kind \in Commands
      BY <1>1, <1>2, <3>2 DEF Serve, Commands
    <3>3. QED BY <2>1, <3>1, <3>2 DEF RequestType
  <2>4. QED BY <1>2, <2>1, <2>2, <2>3 DEF Serve, Types
<1>3. CASE LoseRequest
  <2>1. requests' \in Seq(RequestType)
    BY <1>1, <1>3 DEF LoseRequest
  <2>2. QED BY <1>3, <2>1 DEF LoseRequest, Types
<1>4. CASE LoseReply
  <2>1. replies' \in Seq(ReplyType)
    BY <1>1, <1>4 DEF LoseReply
  <2>2. QED BY <1>4, <2>1 DEF LoseReply, Types
<1>5. CASE OtherProgram
  <2>1. external' \in 0 .. MaxExternal
    BY <1>5, ConstantsAssumption DEF OtherProgram, Types
  <2>2. device' \in [calsw : Switch, ours : BOOLEAN]
    BY <1>5 DEF OtherProgram
  <2>3. QED BY <1>5, <2>1, <2>2 DEF OtherProgram, Types
<1>6. QED BY <1>2, <1>3, <1>4, <1>5 DEF Device

LEMMA StepTypes == ASSUME Types, [Next]_vars PROVE Types'
<1>1. CASE UNCHANGED vars
  BY <1>1 DEF vars, hostVars, callerVars, link, world, Types
<1>2. CASE Next
  BY <1>2, CallerTypes, MonitorTypes, ExecuteTypes, EndingTypes, DeviceTypes DEF Next
<1>3. QED BY <1>1, <1>2

\* The state of the session, the worker, the link and the device has the types
\* of the program's, however many commands and whatever another program does.
THEOREM SessionTypeCorrect == Spec => []TypeOK
<1>1. Init => Types
  BY InitTypes
<1>2. Types /\ [Next]_vars => Types'
  BY StepTypes
<1>3. Types => TypeOK
  BY TypesAreTypeOK
<1>4. QED BY <1>1, <1>2, <1>3, PTL DEF Spec

-----------------------------------------------------------------------------
(***************************************************************************)
(* The link.  A start is written only when everything asked before it was  *)
(* answered or lost, because the magnetic path was proven in between: so   *)
(* an answer that no calibration runs is never older than our start.       *)
(***************************************************************************)

\* The cleanup is a stop, and the worker does nothing after it but close.
Cleaning ==
  exec.cleaning =>
    /\ exec.command = "stop"
    /\ pc \in {"pre", "unlock", "write", "settle", "verify", "finish", "close", "ended",
               "finished", "aborted"}

\* The worker waits for a magnetic reading, or will not ask for one again.
Polling == {"firstmag", "pollmag", "premag"}
Leaving == {"leave", "finish", "close", "ended", "finished", "aborted"}

NoPathRead ==
  /\ \A i \in 1 .. Len(requests) : requests[i].kind # "mag"
  /\ \A i \in 1 .. Len(replies) : replies[i].register # "mag"

\* Nobody else asks for magnetic readings,
PathAskedWhenAwaited == pc \notin Polling \cup Leaving /\ ~exec.cleaning => NoPathRead

\* and the one that is awaited is behind everything else.
PathIsLast ==
  pc \in Polling =>
    /\ \A i \in 1 .. Len(requests) : requests[i].kind = "mag" => i = Len(requests)
    /\ \A i \in 1 .. Len(replies) :
         replies[i].register = "mag" => i = Len(replies) /\ Len(requests) = 0

Flushed ==
  exec.command = "start" /\ pc \in {"unlock", "write"} => Len(requests) = 0 /\ Len(replies) = 0

StartFirst ==
  \A i \in 1 .. Len(requests) : requests[i].kind = "start" => i = 1 /\ Len(replies) = 0

\* While the device calibrates by our start no answer says that none runs.
OursIsSeven ==
  device.ours =>
    device.calsw = 7 /\ \A i \in 1 .. Len(replies) : ~Zero(replies[i])

LinkInv ==
  /\ Types /\ Cleaning
  /\ PathAskedWhenAwaited /\ PathIsLast /\ Flushed /\ StartFirst /\ OursIsSeven

\* The worker draws some replies, or none, from the front,
Draws ==
  \E k \in 0 .. Len(replies) :
    /\ Len(replies') = Len(replies) - k
    /\ \A j \in 1 .. Len(replies') : replies'[j] = replies[j + k]

\* and sends one request of this kind, or none.
Asks(kind) == UNCHANGED requests \/ \E turn \in Nat : Send(kind, turn)

LEMMA DrawsSays ==
  ASSUME Types, Draws
  PROVE  /\ Len(replies') <= Len(replies)
         /\ \A j \in 1 .. Len(replies') : \E i \in 1 .. Len(replies) : replies'[j] = replies[i]
<1>1. Len(replies) \in Nat
  BY DEF Types
<1>2. PICK k \in 0 .. Len(replies) :
        /\ Len(replies') = Len(replies) - k
        /\ \A j \in 1 .. Len(replies') : replies'[j] = replies[j + k]
  BY DEF Draws
<1>3. ASSUME NEW j \in 1 .. Len(replies')
      PROVE  \E i \in 1 .. Len(replies) : replies'[j] = replies[i]
  <2>1. j + k \in 1 .. Len(replies)
    BY <1>1, <1>2
  <2>2. QED BY <1>2, <2>1
<1>4. QED BY <1>1, <1>2, <1>3

LEMMA AsksSays ==
  ASSUME Types, NEW kind \in {"calsw", "mag"} \cup Commands, Asks(kind)
  PROVE  /\ Len(requests') = Len(requests) \/ Len(requests') = Len(requests) + 1
         /\ \A i \in 1 .. Len(requests) : requests'[i] = requests[i]
         /\ \A i \in 1 .. Len(requests') : i \notin 1 .. Len(requests) =>
              i = Len(requests) + 1 /\ requests'[i].kind = kind
<1>1. Len(requests) \in Nat
  BY DEF Types
<1>2. CASE UNCHANGED requests
  BY <1>1, <1>2
<1>3. ASSUME NEW turn \in Nat, Send(kind, turn)
      PROVE  /\ Len(requests') = Len(requests) + 1
             /\ requests'[Len(requests) + 1].kind = kind
             /\ \A i \in 1 .. Len(requests) : requests'[i] = requests[i]
  BY <1>3, SendSays
<1>4. QED BY <1>1, <1>2, <1>3 DEF Asks

\* What the worker does to the link keeps what is said of a start in it.
LEMMA WorkerKeepsStart ==
  ASSUME LinkInv, NEW kind \in {"calsw", "mag"} \cup Commands, Asks(kind), Draws,
         kind = "start" => Len(requests) = 0 /\ Len(replies) = 0,
         UNCHANGED device
  PROVE  StartFirst' /\ OursIsSeven'
<1>1. Types /\ StartFirst /\ OursIsSeven /\ Len(requests) \in Nat /\ Len(replies) \in Nat
  BY DEF LinkInv, Types
<1>2. /\ Len(replies') <= Len(replies)
      /\ \A j \in 1 .. Len(replies') : \E i \in 1 .. Len(replies) : replies'[j] = replies[i]
  BY <1>1, DrawsSays
<1>3. /\ Len(requests') = Len(requests) \/ Len(requests') = Len(requests) + 1
      /\ \A i \in 1 .. Len(requests) : requests'[i] = requests[i]
      /\ \A i \in 1 .. Len(requests') : i \notin 1 .. Len(requests) =>
           i = Len(requests) + 1 /\ requests'[i].kind = kind
  BY <1>1, AsksSays
<1>4. Len(replies') \in Nat
  <2>1. PICK k \in 0 .. Len(replies) : Len(replies') = Len(replies) - k
    BY DEF Draws
  <2>2. QED BY <1>1, <2>1
<1>5. ASSUME NEW i \in 1 .. Len(requests'), requests'[i].kind = "start"
      PROVE  i = 1 /\ Len(replies') = 0
  <2>1. CASE i \in 1 .. Len(requests)
    <3>1. requests[i].kind = "start"
      BY <1>3, <1>5, <2>1
    <3>2. i = 1 /\ Len(replies) = 0
      BY <1>1, <2>1, <3>1 DEF StartFirst
    <3>3. QED BY <1>2, <1>4, <3>2
  <2>2. CASE i \notin 1 .. Len(requests)
    <3>1. i = Len(requests) + 1 /\ kind = "start"
      BY <1>3, <1>5, <2>2
    <3>2. QED BY <1>2, <1>4, <3>1
  <2>3. QED BY <2>1, <2>2
<1>6. StartFirst'
  BY <1>5 DEF StartFirst
<1>7. ASSUME device.ours, NEW j \in 1 .. Len(replies') PROVE ~Zero(replies'[j])
  <2>1. PICK i \in 1 .. Len(replies) : replies'[j] = replies[i]
    BY <1>2
  <2>2. ~Zero(replies[i])
    BY <1>1, <1>7 DEF OursIsSeven
  <2>3. QED BY <2>1, <2>2
<1>8. device.ours => device.calsw = 7
  BY <1>1 DEF OursIsSeven
<1>9. (\A j \in 1 .. Len(replies) : ~Zero(replies[j]))' = (\A j \in 1 .. Len(replies') : ~Zero(replies'[j]))
  OBVIOUS
<1>10. OursIsSeven'
  BY <1>7, <1>8 DEF OursIsSeven
<1>11. QED BY <1>6, <1>10

\* A worker that asks for no magnetic reading leaves none on the link.
LEMMA WorkerAsksNoPath ==
  ASSUME Types, NEW kind \in {"calsw"} \cup Commands, Asks(kind), Draws, NoPathRead
  PROVE  NoPathRead'
<1>1. \A j \in 1 .. Len(replies') : \E i \in 1 .. Len(replies) : replies'[j] = replies[i]
  BY DrawsSays
<1>2. /\ \A i \in 1 .. Len(requests) : requests'[i] = requests[i]
      /\ \A i \in 1 .. Len(requests') : i \notin 1 .. Len(requests) => requests'[i].kind = kind
  BY AsksSays
<1>3. ASSUME NEW i \in 1 .. Len(requests') PROVE requests'[i].kind # "mag"
  <2>1. CASE i \in 1 .. Len(requests)
    BY <1>2, <2>1 DEF NoPathRead
  <2>2. CASE i \notin 1 .. Len(requests)
    BY <1>2, <2>2 DEF Commands
  <2>3. QED BY <2>1, <2>2
<1>4. ASSUME NEW j \in 1 .. Len(replies') PROVE replies'[j].register # "mag"
  BY <1>1 DEF NoPathRead
<1>5. QED BY <1>3, <1>4 DEF NoPathRead

\* One that asks for the first is right behind it.
LEMMA WorkerAsksPath ==
  ASSUME Types, Asks("mag"), Draws, NoPathRead
  PROVE  PathIsLast'
<1>1. \A j \in 1 .. Len(replies') : \E i \in 1 .. Len(replies) : replies'[j] = replies[i]
  BY DrawsSays
<1>2. /\ Len(requests') = Len(requests) \/ Len(requests') = Len(requests) + 1
      /\ \A i \in 1 .. Len(requests) : requests'[i] = requests[i]
      /\ \A i \in 1 .. Len(requests') : i \notin 1 .. Len(requests) => i = Len(requests) + 1
  BY AsksSays
<1>3. Len(requests) \in Nat
  BY DEF Types
<1>4. ASSUME NEW i \in 1 .. Len(requests'), requests'[i].kind = "mag"
      PROVE  i = Len(requests')
  <2>1. i \notin 1 .. Len(requests)
    BY <1>2, <1>4 DEF NoPathRead
  <2>2. QED BY <1>2, <1>3, <2>1
<1>5. ASSUME NEW j \in 1 .. Len(replies') PROVE replies'[j].register # "mag"
  BY <1>1 DEF NoPathRead
<1>6. QED BY <1>4, <1>5 DEF PathIsLast

\* The magnetic reading that is heard leaves nothing behind it.
LEMMA PathEmpties ==
  ASSUME LinkInv, NEW here \in Polling, NEW k \in Batches, NEW i \in Batches, Heard(here, k, i)
  PROVE  Len(requests) = 0 /\ Len(replies') = 0
<1>1. TypeOK /\ Types /\ PathIsLast
  BY TypesAreTypeOK DEF LinkInv
<1>2. /\ i \in 1 .. k /\ Answers(replies[i]) /\ pc = here
      /\ Len(replies') = Len(replies) - k
  BY <1>1, HeardSays
<1>3. Expects[here] = "mag"
  BY DEF Polling, Expects
<1>4. replies[i].register = "mag"
  BY <1>2, <1>3 DEF Answers
<1>5. i \in 1 .. Len(replies) /\ k \in 1 .. Len(replies) /\ Len(replies) \in Nat
  BY <1>1 DEF Batches, Types
<1>6. i = Len(replies) /\ Len(requests) = 0
  BY <1>1, <1>2, <1>4, <1>5 DEF PathIsLast
<1>7. QED BY <1>2, <1>5, <1>6

LEMMA HeardDraws ==
  ASSUME Types, NEW here, NEW k \in Batches, NEW i \in Batches, Heard(here, k, i)
  PROVE  Draws
<1>1. TypeOK /\ k \in 1 .. Len(replies) /\ Len(replies) \in Nat
  BY TypesAreTypeOK DEF Batches, Types
<1>2. Len(replies') = Len(replies) - k /\ \A j \in 1 .. Len(replies') : replies'[j] = replies[j + k]
  BY <1>1, HeardSays
<1>3. QED BY <1>1, <1>2 DEF Draws

LEMMA NothingDrawn == ASSUME Types, UNCHANGED replies PROVE Draws
<1>1. Len(replies) \in Nat
  BY DEF Types
<1>2. 0 \in 0 .. Len(replies) /\ Len(replies') = Len(replies) - 0
      /\ \A j \in 1 .. Len(replies') : replies'[j] = replies[j + 0]
  BY <1>1
<1>3. QED BY <1>2 DEF Draws

\* A step that leaves the link, the device and what is executed alone keeps
\* the invariant, when it does not bring the worker to a place that awaits.
LEMMA LinkAlone ==
  ASSUME LinkInv, Types', UNCHANGED <<requests, replies, device, exec>>,
         \/ pc' = pc
         \/ pc' \in Leaving /\ (exec.cleaning => pc' # "leave")
         \/ pc = "open" /\ pc' = "type"
         \/ pc = "unlock" /\ pc' = "write"
  PROVE  LinkInv'
<1>1. /\ Types /\ Cleaning /\ PathAskedWhenAwaited /\ PathIsLast /\ Flushed /\ StartFirst
      /\ OursIsSeven
  BY DEF LinkInv
<1>2. Cleaning'
  BY <1>1 DEF Cleaning, Leaving
<1>3. PathAskedWhenAwaited'
  BY <1>1 DEF PathAskedWhenAwaited, NoPathRead, Polling, Leaving
<1>4. PathIsLast'
  BY <1>1 DEF PathIsLast, Polling, Leaving
<1>5. Flushed'
  BY <1>1 DEF Flushed, Leaving
<1>6. StartFirst' /\ OursIsSeven'
  BY <1>1 DEF StartFirst, OursIsSeven
<1>7. QED BY <1>2, <1>3, <1>4, <1>5, <1>6 DEF LinkInv

\* What a step of the worker has to show, besides, when it uses the link.
LEMMA LinkUsed ==
  ASSUME LinkInv, Types', UNCHANGED device, Draws,
         NEW kind \in {"calsw", "mag"} \cup Commands, Asks(kind),
         kind = "start" => Len(requests) = 0 /\ Len(replies) = 0,
         Cleaning', Flushed', PathIsLast',
         pc' \notin Polling \cup Leaving /\ ~exec'.cleaning => NoPathRead'
  PROVE  LinkInv'
  BY WorkerKeepsStart DEF LinkInv, PathAskedWhenAwaited

LEMMA HearLink == ASSUME LinkInv, Hear PROVE LinkInv'
<1> USE DEF hostVars, callerVars, world, workerKeeps
<1> DEFINE n == Len(replies)
<1>0. Types /\ Types'
  <2>1. Types /\ Monitor
    BY DEF LinkInv, Monitor
  <2>2. QED BY <2>1, MonitorTypes
<1>1. Types /\ TypeOK /\ Types' /\ n \in Nat /\ Len(replies') \in Nat
  <2>1. replies \in Seq(ReplyType) /\ replies' \in Seq(ReplyType)
    BY <1>0 DEF Types
  <2>2. n \in Nat /\ Len(replies') \in Nat
    BY <2>1
  <2>3. QED BY <1>0, <2>2, TypesAreTypeOK
<1>2. PICK k \in 1 .. Len(replies) :
        /\ Len(replies') = Len(replies) - k
        /\ \A j \in 1 .. Len(replies') : replies'[j] = replies[j + k]
  BY <1>1, HearSays
<1>3. Draws
  BY <1>1, <1>2 DEF Draws
<1>4. UNCHANGED <<pc, exec, requests, device>>
  BY DEF Hear
<1>5. Asks("calsw")
  BY <1>4 DEF Asks
<1>6. Cleaning'
  BY <1>4 DEF LinkInv, Cleaning
<1>7. Flushed'
  BY <1>1, <1>2, <1>4 DEF LinkInv, Flushed
<1>8. PathIsLast'
  <2>1. ASSUME pc \in Polling, NEW j \in 1 .. Len(replies'), replies'[j].register = "mag"
        PROVE  j = Len(replies') /\ Len(requests) = 0
    <3>1. j + k \in 1 .. Len(replies) /\ replies[j + k].register = "mag"
      BY <1>1, <1>2, <2>1
    <3>2. j + k = Len(replies) /\ Len(requests) = 0
      BY <2>1, <3>1 DEF LinkInv, PathIsLast
    <3>3. Len(replies') = Len(replies) - k /\ k \in Nat /\ j \in Nat
      <4>1. Len(replies) \in Nat
        BY <1>1
      <4>2. k \in Nat /\ Len(replies') = Len(replies) - k
        BY <1>2, <4>1
      <4>3. QED BY <4>1, <4>2
    <3>4. j = Len(replies')
      BY <3>2, <3>3
    <3>5. QED BY <3>2, <3>4
  <2>2. QED BY <1>4, <2>1 DEF LinkInv, PathIsLast
<1>9. pc' \notin Polling \cup Leaving /\ ~exec'.cleaning => NoPathRead'
  BY <1>1, <1>3, <1>4, <1>5, WorkerAsksNoPath DEF LinkInv, PathAskedWhenAwaited
<1>10. QED BY <1>1, <1>3, <1>4, <1>5, <1>6, <1>7, <1>8, <1>9, LinkUsed

LEMMA MonitorLink == ASSUME LinkInv, Monitor PROVE LinkInv'
<1> USE DEF hostVars, callerVars, link, world, workerKeeps
<1>1. Types /\ Types' /\ exec.turn \in Nat
  <2>1. Types
    BY DEF LinkInv
  <2>2. QED BY <2>1, MonitorTypes, TypesSay
<1>2. CASE Open
  BY <1>1, <1>2, LinkAlone DEF Open, Leaving
<1>3. CASE Hear
  BY <1>3, HearLink
<1>4. ASSUME TimesOut \/ IoFails \/ CancelNoticed PROVE LinkInv'
  <2>1. PICK kind \in {"Cancelled", "Error"} : Fail(kind)
    BY <1>4 DEF TimesOut, IoFails, CancelNoticed
  <2>2. pc' \in Leaving /\ (exec.cleaning => pc' # "leave")
    BY <1>1, <2>1, FailSays DEF Leaving
  <2>3. UNCHANGED <<requests, replies, device, exec>>
    BY <1>4 DEF TimesOut, IoFails, CancelNoticed
  <2>4. QED BY <1>1, <2>2, <2>3, LinkAlone
<1>5. ASSUME SensorType \/ Retry \/ (Poll /\ pc' = "pollcalsw") PROVE LinkInv'
  <2>1. Asks("calsw") /\ UNCHANGED <<replies, device, exec>>
    BY <1>1, <1>5 DEF SensorType, Retry, Poll, Asks, Expects
  <2>2. Draws
    BY <1>1, <2>1, NothingDrawn
  <2>3. pc \notin Polling /\ pc' \notin Polling /\ pc' \notin {"unlock", "write"}
        /\ pc \notin Leaving
    BY <1>5 DEF SensorType, Retry, Poll, Polling, Leaving, Expects, Reading
  <2>4. Cleaning'
    BY <1>5 DEF LinkInv, Cleaning, SensorType, Retry, Poll
  <2>5. Flushed' /\ PathIsLast'
    BY <2>3 DEF Flushed, PathIsLast
  <2>6. pc' \notin Polling \cup Leaving /\ ~exec'.cleaning => NoPathRead'
    BY <1>1, <2>1, <2>2, <2>3, WorkerAsksNoPath DEF LinkInv, PathAskedWhenAwaited
  <2>7. QED BY <1>1, <2>1, <2>2, <2>4, <2>5, <2>6, LinkUsed
<1>6. ASSUME FirstCalsw \/ (Poll /\ pc' = "pollmag") PROVE LinkInv'
  <2>1. Asks("mag") /\ UNCHANGED <<device, exec>>
    BY <1>1, <1>6 DEF FirstCalsw, Poll, Asks, Expects
  <2>2. Draws
    BY <1>1, <1>6, HeardDraws, NothingDrawn DEF FirstCalsw, Poll
  <2>3. pc \in {"first", "idle"} /\ pc' \in Polling
    BY <1>6 DEF FirstCalsw, Poll, Heard, Polling
  <2>4. ~exec.cleaning /\ NoPathRead
    BY <2>3 DEF LinkInv, Cleaning, PathAskedWhenAwaited, Polling, Leaving
  <2>5. Cleaning' /\ Flushed'
    BY <2>1, <2>3, <2>4 DEF Cleaning, Flushed, Polling
  <2>6. PathIsLast'
    BY <1>1, <2>1, <2>2, <2>4, WorkerAsksPath
  <2>7. QED BY <1>1, <2>1, <2>2, <2>3, <2>5, <2>6, LinkUsed
<1>7. CASE Polled
  <2>1. PICK k \in Batches, i \in Batches, here \in {"firstmag", "pollmag", "pollcalsw"} :
          Heard(here, k, i)
    BY <1>7 DEF Polled
  <2>2. Draws /\ pc = here
    BY <1>1, <2>1, HeardDraws DEF Heard
  <2>3. UNCHANGED <<device, exec, requests>> /\ pc' = "idle" /\ Asks("calsw")
    BY <1>7 DEF Polled, Asks
  <2>4. ~exec.cleaning
    BY <2>1, <2>2 DEF LinkInv, Cleaning
  <2>5. Cleaning' /\ Flushed' /\ PathIsLast'
    BY <2>3, <2>4 DEF Cleaning, Flushed, PathIsLast, Polling
  <2>6. NoPathRead'
    <3>1. CASE here = "pollcalsw"
      BY <1>1, <2>2, <2>3, <2>4, <3>1, WorkerAsksNoPath
         DEF LinkInv, PathAskedWhenAwaited, Polling, Leaving
    <3>2. CASE here \in Polling
      <4>1. Len(requests') = 0 /\ Len(replies') = 0
        BY <2>1, <2>3, <3>2, PathEmpties
      <4>2. QED BY <4>1 DEF NoPathRead
    <3>3. QED BY <3>1, <3>2 DEF Polling
  <2>7. QED BY <1>1, <2>2, <2>3, <2>5, <2>6, LinkUsed
<1>8. ASSUME Poll PROVE pc' \in {"pollcalsw", "pollmag"}
  BY <1>8 DEF Poll
<1>9. QED BY <1>2, <1>3, <1>4, <1>5, <1>6, <1>7, <1>8 DEF Monitor

LEMMA ExecuteLink == ASSUME LinkInv, Execute PROVE LinkInv'
<1> USE DEF hostVars, callerVars, link, world, workerKeeps
<1>1. Types /\ Types' /\ exec.turn \in Nat /\ exec.command \in Commands
  <2>1. Types
    BY DEF LinkInv
  <2>2. QED BY <2>1, ExecuteTypes, TypesSay
<1>2. CASE Begin
  <2>1. Send("calsw", exec.turn + 1) /\ UNCHANGED <<replies, device>>
    BY <1>2 DEF Begin
  <2>2. Asks("calsw") /\ Draws
    BY <1>1, <2>1, NothingDrawn DEF Asks
  <2>3. pc = "idle" /\ pc' = "pre" /\ ~exec'.cleaning
    BY <1>2 DEF Begin
  <2>4. ~exec.cleaning /\ NoPathRead
    BY <2>3 DEF LinkInv, Cleaning, PathAskedWhenAwaited, Polling, Leaving
  <2>5. Cleaning' /\ Flushed' /\ PathIsLast'
    BY <2>3 DEF Cleaning, Flushed, PathIsLast, Polling
  <2>6. NoPathRead'
    BY <1>1, <2>2, <2>4, WorkerAsksNoPath
  <2>7. QED BY <1>1, <2>1, <2>2, <2>5, <2>6, LinkUsed
<1>3. CASE Refused
  <2>1. Draws /\ pc = "pre"
    BY <1>1, <1>3, HeardDraws DEF Refused, Heard
  <2>2. UNCHANGED <<device, exec, requests>> /\ Asks("calsw")
    BY <1>3 DEF Refused, Asks
  <2>3. pc' = IF exec.cleaning THEN "finish" ELSE "idle"
    BY <1>3 DEF Refused
  <2>4. Cleaning' /\ Flushed' /\ PathIsLast'
    BY <2>2, <2>3 DEF LinkInv, Cleaning, Flushed, PathIsLast, Polling
  <2>5. ~exec.cleaning => NoPathRead
    BY <2>1 DEF LinkInv, PathAskedWhenAwaited, Polling, Leaving
  <2>6. ~exec.cleaning => NoPathRead'
    BY <1>1, <2>1, <2>2, <2>5, WorkerAsksNoPath
  <2>7. QED BY <1>1, <2>1, <2>2, <2>4, <2>6, LinkUsed
<1>4. CASE Checked /\ exec.command = "start"
  <2>1. Draws /\ pc = "pre"
    BY <1>1, <1>4, HeardDraws DEF Checked, Heard
  <2>2. Send("mag", exec.turn) /\ pc' = "premag" /\ UNCHANGED device
    BY <1>4 DEF Checked
  <2>3. exec'.cleaning = exec.cleaning /\ ~exec.cleaning
    BY <1>1, <1>4 DEF Checked, LinkInv, Cleaning, Types, ExecType
  <2>4. NoPathRead
    BY <2>1, <2>3 DEF LinkInv, PathAskedWhenAwaited, Polling, Leaving
  <2>5. Asks("mag")
    BY <1>1, <2>2 DEF Asks
  <2>6. Cleaning' /\ Flushed'
    BY <2>2, <2>3 DEF Cleaning, Flushed
  <2>7. PathIsLast'
    BY <1>1, <2>1, <2>4, <2>5, WorkerAsksPath
  <2>8. pc' \in Polling
    BY <2>2 DEF Polling
  <2>9. QED BY <1>1, <2>1, <2>2, <2>5, <2>6, <2>7, <2>8, LinkUsed
<1>5. CASE Checked /\ exec.command # "start"
  <2>1. Draws /\ pc = "pre"
    BY <1>1, <1>5, HeardDraws DEF Checked, Heard
  <2>2. UNCHANGED <<device, requests>> /\ Asks("calsw") /\ pc' = "unlock"
    BY <1>5 DEF Checked, Asks
  <2>3. exec'.cleaning = exec.cleaning /\ exec'.command = exec.command
    BY <1>1, <1>5 DEF Checked, Types, ExecType
  <2>4. Cleaning' /\ Flushed' /\ PathIsLast'
    BY <1>5, <2>2, <2>3 DEF LinkInv, Cleaning, Flushed, PathIsLast, Polling
  <2>5. ~exec.cleaning => NoPathRead
    BY <2>1 DEF LinkInv, PathAskedWhenAwaited, Polling, Leaving
  <2>6. ~exec.cleaning => NoPathRead'
    BY <1>1, <2>1, <2>2, <2>5, WorkerAsksNoPath
  <2>7. QED BY <1>1, <2>1, <2>2, <2>3, <2>4, <2>6, LinkUsed
<1>6. CASE PathProven
  <2>1. PICK k \in Batches, i \in Batches : Heard("premag", k, i)
    BY <1>6 DEF PathProven
  <2>2. UNCHANGED <<device, exec, requests>> /\ Asks("calsw") /\ pc' = "unlock"
    BY <1>6 DEF PathProven, Asks
  <2>3. Draws /\ pc = "premag"
    BY <1>1, <2>1, HeardDraws DEF Heard
  <2>4. Len(requests') = 0 /\ Len(replies') = 0
    BY <2>1, <2>2, PathEmpties DEF Polling
  <2>5. Cleaning' /\ Flushed' /\ PathIsLast' /\ NoPathRead'
    BY <2>2, <2>3, <2>4 DEF LinkInv, Cleaning, Flushed, PathIsLast, NoPathRead, Polling
  <2>6. QED BY <1>1, <2>2, <2>3, <2>5, LinkUsed
<1>7. CASE Unlocked
  BY <1>1, <1>7, LinkAlone DEF Unlocked
<1>8. CASE Write
  <2>1. Send(exec.command, exec.turn) /\ UNCHANGED <<device, exec, replies>> /\ pc = "write"
    BY <1>8 DEF Write
  <2>2. Asks(exec.command) /\ Draws
    BY <1>1, <2>1, NothingDrawn DEF Asks
  <2>3. pc' = IF exec.command = "save" THEN "idle" ELSE "settle"
    BY <1>8 DEF Write
  <2>4. exec.command = "start" => Len(requests) = 0 /\ Len(replies) = 0
    BY <2>1 DEF LinkInv, Flushed
  <2>5. Cleaning' /\ Flushed' /\ PathIsLast'
    BY <2>1, <2>3 DEF LinkInv, Cleaning, Flushed, PathIsLast, Polling
  <2>6. ~exec.cleaning => NoPathRead
    BY <2>1 DEF LinkInv, PathAskedWhenAwaited, Polling, Leaving
  <2>7. ~exec.cleaning => NoPathRead'
    BY <1>1, <2>2, <2>6, WorkerAsksNoPath
  <2>8. QED BY <1>1, <2>1, <2>2, <2>4, <2>5, <2>7, LinkUsed
<1>9. CASE WriteFails
  <2>1. PICK kind \in {"Cancelled", "Error"} : Fail(kind)
    BY <1>9 DEF WriteFails
  <2>2. pc' \in Leaving /\ (exec.cleaning => pc' # "leave")
    BY <1>1, <2>1, FailSays DEF Leaving
  <2>3. UNCHANGED <<replies, device, exec>> /\ pc = "write"
    BY <1>9 DEF WriteFails
  <2>4. Asks(exec.command) /\ Draws
    <3>1. UNCHANGED requests \/ Send(exec.command, exec.turn)
      BY <1>9 DEF WriteFails
    <3>2. QED BY <1>1, <2>3, <3>1, NothingDrawn DEF Asks
  <2>5. exec.command = "start" => Len(requests) = 0 /\ Len(replies) = 0
    BY <2>3 DEF LinkInv, Flushed
  <2>6. Cleaning' /\ Flushed' /\ PathIsLast'
    BY <2>2, <2>3 DEF LinkInv, Cleaning, Flushed, PathIsLast, Polling, Leaving
  <2>7. QED BY <1>1, <2>2, <2>3, <2>4, <2>5, <2>6, LinkUsed
<1>10. CASE Settled
  <2>1. Send("calsw", exec.turn) /\ UNCHANGED <<replies, device, exec>>
        /\ pc = "settle" /\ pc' = "verify"
    BY <1>10 DEF Settled
  <2>2. Asks("calsw") /\ Draws
    BY <1>1, <2>1, NothingDrawn DEF Asks
  <2>3. Cleaning' /\ Flushed' /\ PathIsLast'
    BY <2>1 DEF LinkInv, Cleaning, Flushed, PathIsLast, Polling
  <2>4. ~exec.cleaning => NoPathRead
    BY <2>1 DEF LinkInv, PathAskedWhenAwaited, Polling, Leaving
  <2>5. ~exec.cleaning => NoPathRead'
    BY <1>1, <2>2, <2>4, WorkerAsksNoPath
  <2>6. QED BY <1>1, <2>1, <2>2, <2>3, <2>5, LinkUsed
<1>11. CASE Verified
  <2>1. Draws /\ pc = "verify"
    BY <1>1, <1>11, HeardDraws DEF Verified, Heard
  <2>2. UNCHANGED <<device, exec, requests>> /\ Asks("calsw")
    BY <1>11 DEF Verified, Asks
  <2>3. pc' = IF exec.cleaning THEN "finish" ELSE "idle"
    BY <1>11 DEF Verified
  <2>4. Cleaning' /\ Flushed' /\ PathIsLast'
    BY <2>2, <2>3 DEF LinkInv, Cleaning, Flushed, PathIsLast, Polling
  <2>5. ~exec.cleaning => NoPathRead
    BY <2>1 DEF LinkInv, PathAskedWhenAwaited, Polling, Leaving
  <2>6. ~exec.cleaning => NoPathRead'
    BY <1>1, <2>1, <2>2, <2>5, WorkerAsksNoPath
  <2>7. QED BY <1>1, <2>1, <2>2, <2>4, <2>6, LinkUsed
<1>12. QED
  BY <1>2, <1>3, <1>4, <1>5, <1>6, <1>7, <1>8, <1>9, <1>10, <1>11 DEF Execute

LEMMA EndingLink == ASSUME LinkInv, Ending PROVE LinkInv'
<1> USE DEF hostVars, callerVars, link, world, workerKeeps
<1>1. Types /\ Types' /\ exec.turn \in Nat
  <2>1. Types
    BY DEF LinkInv
  <2>2. QED BY <2>1, EndingTypes, TypesSay
<1>2. CASE Leave /\ mag.owned
  <2>1. Send("calsw", exec.turn + 1) /\ UNCHANGED <<replies, device>> /\ pc' = "pre"
    BY <1>2 DEF Leave
  <2>2. exec'.cleaning /\ exec'.command = "stop"
    BY <1>2 DEF Leave
  <2>3. Asks("calsw") /\ Draws
    BY <1>1, <2>1, NothingDrawn DEF Asks
  <2>4. Cleaning' /\ Flushed' /\ PathIsLast'
    BY <2>1, <2>2 DEF Cleaning, Flushed, PathIsLast, Polling
  <2>5. QED BY <1>1, <2>1, <2>2, <2>3, <2>4, LinkUsed
<1>3. CASE Leave /\ ~mag.owned
  BY <1>1, <1>3, LinkAlone DEF Leave, Leaving
<1>4. ASSUME FinishSession \/ Close \/ Epilogue PROVE LinkInv'
  BY <1>1, <1>4, LinkAlone DEF FinishSession, Close, Epilogue, Leaving
<1>5. QED BY <1>2, <1>3, <1>4 DEF Ending

LEMMA CallerLink == ASSUME LinkInv, Caller PROVE LinkInv'
<1> USE DEF hostVars, link, world
<1>1. Types'
  BY CallerTypes DEF LinkInv
<1>2. UNCHANGED <<requests, replies, device, exec>> /\ (pc' = pc \/ pc' = "aborted")
  BY DEF Caller, Submit, StopBegins, StopReturns, StopTimesOut
<1>3. QED BY <1>1, <1>2, LinkAlone DEF Leaving

\* The device answers in the order it was asked.
LEMMA DeviceLink == ASSUME LinkInv, Device PROVE LinkInv'
<1> USE DEF hostVars, callerVars, link, world, deviceKeeps
<1>1. /\ Types /\ Types' /\ Cleaning /\ PathAskedWhenAwaited /\ PathIsLast /\ Flushed
      /\ StartFirst /\ OursIsSeven
      /\ Len(requests) \in Nat /\ Len(replies) \in Nat
      /\ requests \in Seq(RequestType) /\ replies \in Seq(ReplyType)
  <2>1. /\ Types /\ Cleaning /\ PathAskedWhenAwaited /\ PathIsLast /\ Flushed
        /\ StartFirst /\ OursIsSeven
    BY DEF LinkInv
  <2>2. QED BY <2>1, DeviceTypes, TypesSay
<1>2. UNCHANGED <<pc, exec>>
  BY DEF Device, Serve, LoseRequest, LoseReply, OtherProgram
<1>3. Cleaning'
  BY <1>1, <1>2 DEF Cleaning
<1>4. ASSUME requests # <<>>, requests' = Tail(requests)
      PROVE  /\ Len(requests) >= 1 /\ Len(requests') = Len(requests) - 1
             /\ Head(requests) = requests[1] /\ requests[1] \in RequestType
             /\ \A i \in 1 .. Len(requests') : requests'[i] = requests[i + 1]
  BY <1>1, <1>4
<1>5. CASE OtherProgram
  <2>1. UNCHANGED <<requests, replies>> /\ ~device'.ours
    BY <1>5 DEF OtherProgram
  <2>2. QED BY <1>1, <1>2, <1>3, <2>1
          DEF LinkInv, PathAskedWhenAwaited, NoPathRead, PathIsLast, Flushed, StartFirst, OursIsSeven
<1>6. CASE LoseReply
  <2>1. replies # <<>> /\ replies' = Tail(replies) /\ UNCHANGED <<requests, device>>
    BY <1>6 DEF LoseReply
  <2>2. /\ Len(replies') = Len(replies) - 1 /\ Len(replies) >= 1
        /\ \A j \in 1 .. Len(replies') : replies'[j] = replies[j + 1]
    BY <1>1, <2>1
  <2>3. NoPathRead => NoPathRead'
    BY <1>1, <2>1, <2>2 DEF NoPathRead
  <2>4. PathIsLast'
    <3>1. ASSUME pc \in Polling, NEW j \in 1 .. Len(replies'), replies'[j].register = "mag"
          PROVE  j = Len(replies') /\ Len(requests) = 0
      <4>1. j + 1 \in 1 .. Len(replies) /\ replies[j + 1].register = "mag"
        BY <1>1, <2>2, <3>1
      <4>2. j + 1 = Len(replies) /\ Len(requests) = 0
        BY <1>1, <3>1, <4>1 DEF PathIsLast
      <4>3. QED BY <1>1, <2>2, <4>2
    <3>2. QED BY <1>1, <1>2, <2>1, <3>1 DEF PathIsLast
  <2>5. Flushed' /\ StartFirst'
    BY <1>1, <1>2, <2>1, <2>2 DEF Flushed, StartFirst
  <2>6. OursIsSeven'
    BY <1>1, <2>1, <2>2 DEF OursIsSeven
  <2>7. PathAskedWhenAwaited'
    BY <1>1, <1>2, <2>3 DEF PathAskedWhenAwaited
  <2>8. QED BY <1>1, <1>3, <2>4, <2>5, <2>6, <2>7 DEF LinkInv
<1>7. CASE LoseRequest
  <2>1. requests # <<>> /\ requests' = Tail(requests) /\ UNCHANGED <<replies, device>>
    BY <1>7 DEF LoseRequest
  <2>2. /\ Len(requests') = Len(requests) - 1 /\ Len(requests) >= 1
        /\ \A i \in 1 .. Len(requests') : requests'[i] = requests[i + 1]
    BY <1>4, <2>1
  <2>3. NoPathRead => NoPathRead'
    BY <1>1, <2>1, <2>2 DEF NoPathRead
  <2>4. PathIsLast'
    <3>1. ASSUME pc \in Polling, NEW i \in 1 .. Len(requests'), requests'[i].kind = "mag"
          PROVE  i = Len(requests')
      <4>1. i + 1 \in 1 .. Len(requests) /\ requests[i + 1].kind = "mag"
        BY <1>1, <2>2, <3>1
      <4>2. i + 1 = Len(requests)
        BY <1>1, <3>1, <4>1 DEF PathIsLast
      <4>3. QED BY <1>1, <2>2, <4>2
    <3>2. ASSUME pc \in Polling, NEW j \in 1 .. Len(replies), replies[j].register = "mag"
          PROVE  FALSE
      BY <1>1, <2>2, <3>2 DEF PathIsLast
    <3>3. QED BY <1>2, <2>1, <3>1, <3>2 DEF PathIsLast
  <2>5. Flushed' /\ StartFirst'
    BY <1>1, <1>2, <2>1, <2>2 DEF Flushed, StartFirst
  <2>6. OursIsSeven'
    BY <1>1, <2>1 DEF OursIsSeven
  <2>7. PathAskedWhenAwaited'
    BY <1>1, <1>2, <2>3 DEF PathAskedWhenAwaited
  <2>8. QED BY <1>1, <1>3, <2>4, <2>5, <2>6, <2>7 DEF LinkInv
<1>8. CASE Serve /\ Head(requests).kind \in Commands
  <2>1. requests # <<>> /\ requests' = Tail(requests)
    BY <1>8 DEF Serve
  <2>2. /\ Len(requests') = Len(requests) - 1 /\ Len(requests) >= 1
        /\ \A i \in 1 .. Len(requests') : requests'[i] = requests[i + 1]
        /\ Head(requests) = requests[1]
    BY <1>4, <2>1
  <2>3. UNCHANGED replies
    BY <1>8 DEF Serve, Commands
  <2>4. NoPathRead => NoPathRead'
    BY <1>1, <2>2, <2>3 DEF NoPathRead
  <2>5. PathIsLast'
    BY <1>1, <1>2, <2>2, <2>3 DEF PathIsLast
  <2>6. Flushed' /\ StartFirst'
    BY <1>1, <1>2, <2>2, <2>3 DEF Flushed, StartFirst
  <2>7. device' = device \/ ~device'.ours
          \/ (device' = [calsw |-> 7, ours |-> TRUE] /\ requests[1].kind = "start")
    BY <1>8, <2>2 DEF Serve, Commands
  <2>8. OursIsSeven'
    <3>1. CASE device' = device
      BY <1>1, <2>3, <3>1 DEF OursIsSeven
    <3>2. CASE ~device'.ours
      BY <3>2 DEF OursIsSeven
    <3>3. CASE device' = [calsw |-> 7, ours |-> TRUE] /\ requests[1].kind = "start"
      <4>1. Len(replies) = 0
        BY <1>1, <2>2, <3>3 DEF StartFirst
      <4>2. QED BY <1>1, <2>3, <3>3, <4>1 DEF OursIsSeven
    <3>4. QED BY <2>7, <3>1, <3>2, <3>3
  <2>9. PathAskedWhenAwaited'
    BY <1>1, <1>2, <2>4 DEF PathAskedWhenAwaited
  <2>10. QED BY <1>1, <1>3, <2>5, <2>6, <2>8, <2>9 DEF LinkInv
<1>9. CASE Serve /\ Head(requests).kind \in {"calsw", "mag"}
  <2> DEFINE reply == [register |-> Head(requests).kind, value |-> device.calsw,
                       turn |-> Head(requests).turn]
  <2>1. requests # <<>> /\ requests' = Tail(requests)
    BY <1>9 DEF Serve
  <2>2. /\ Len(requests') = Len(requests) - 1 /\ Len(requests) >= 1
        /\ \A i \in 1 .. Len(requests') : requests'[i] = requests[i + 1]
        /\ Head(requests) = requests[1]
    BY <1>4, <2>1
  <2>3. replies' = Append(replies, reply) /\ UNCHANGED device
    BY <1>9 DEF Serve
  <2>4. reply.register = requests[1].kind /\ reply.value = device.calsw
    BY <2>2
  <2> HIDE DEF reply
  <2>5. /\ Len(replies') = Len(replies) + 1
        /\ replies'[Len(replies) + 1] = reply
        /\ \A j \in 1 .. Len(replies) : replies'[j] = replies[j]
    BY <1>1, <2>3
  <2>6. NoPathRead => NoPathRead'
    <3>1. \A i \in 1 .. Len(requests') : i + 1 \in 1 .. Len(requests)
      BY <1>1, <2>2
    <3>2. ASSUME NoPathRead, NEW j \in 1 .. Len(replies')
          PROVE  replies'[j].register # "mag"
      <4>1. CASE j = Len(replies) + 1
        BY <2>2, <2>4, <2>5, <3>2, <4>1 DEF NoPathRead
      <4>2. CASE j # Len(replies) + 1
        <5>1. j \in 1 .. Len(replies)
          BY <1>1, <2>5, <3>2, <4>2
        <5>2. QED BY <2>5, <3>2, <5>1 DEF NoPathRead
      <4>3. QED BY <4>1, <4>2
    <3>3. QED BY <2>2, <3>1, <3>2 DEF NoPathRead
  <2>7. PathIsLast'
    <3>1. ASSUME pc \in Polling, NEW i \in 1 .. Len(requests'), requests'[i].kind = "mag"
          PROVE  i = Len(requests')
      <4>1. i + 1 \in 1 .. Len(requests) /\ requests[i + 1].kind = "mag"
        BY <1>1, <2>2, <3>1
      <4>2. i + 1 = Len(requests)
        BY <1>1, <3>1, <4>1 DEF PathIsLast
      <4>3. QED BY <1>1, <2>2, <4>2
    <3>2. ASSUME pc \in Polling, NEW j \in 1 .. Len(replies'), replies'[j].register = "mag"
          PROVE  j = Len(replies') /\ Len(requests') = 0
      <4>1. CASE j \in 1 .. Len(replies)
        <5>1. Len(requests) = 0
          BY <1>1, <2>5, <3>2, <4>1 DEF PathIsLast
        <5>2. QED BY <2>2, <5>1
      <4>2. CASE j = Len(replies) + 1
        <5>1. 1 \in 1 .. Len(requests) /\ requests[1].kind = "mag"
          BY <1>1, <2>2, <2>4, <2>5, <3>2, <4>2
        <5>2. 1 = Len(requests)
          BY <1>1, <3>2, <5>1 DEF PathIsLast
        <5>3. j = Len(replies')
          BY <2>5, <4>2
        <5>4. Len(requests') = 0
          <6>1. Len(requests) = 1 /\ Len(requests') = Len(requests) - 1
            BY <2>2, <5>2
          <6>2. QED BY <6>1
        <5>5. QED BY <5>3, <5>4
      <4>3. QED BY <1>1, <2>5, <3>2, <4>1, <4>2
    <3>3. QED BY <1>2, <3>1, <3>2 DEF PathIsLast
  <2>8. ASSUME NEW i \in 1 .. Len(requests) PROVE requests[i].kind # "start"
    <3>1. requests[i].kind = "start" => i = 1
      BY <1>1 DEF StartFirst
    <3>2. QED BY <1>9, <2>2, <3>1
  <2>9. StartFirst'
    <3>1. ASSUME NEW i \in 1 .. Len(requests') PROVE requests'[i].kind # "start"
      <4>1. i + 1 \in 1 .. Len(requests) /\ requests'[i] = requests[i + 1]
        BY <1>1, <2>2
      <4>2. QED BY <2>8, <4>1
    <3>2. QED BY <3>1 DEF StartFirst
  <2>10. Flushed'
    BY <1>1, <1>2, <2>2 DEF Flushed
  <2>11. OursIsSeven'
    <3>1. device.ours => reply.value = 7
      BY <1>1, <2>4 DEF OursIsSeven
    <3>2. ASSUME device.ours, NEW j \in 1 .. Len(replies') PROVE ~Zero(replies'[j])
      <4>1. CASE j \in 1 .. Len(replies)
        BY <1>1, <2>5, <3>2, <4>1 DEF OursIsSeven
      <4>2. CASE j = Len(replies) + 1
        BY <2>5, <3>1, <3>2, <4>2 DEF Zero
      <4>3. QED BY <1>1, <2>5, <3>2, <4>1, <4>2
    <3>3. device.ours => device.calsw = 7
      BY <1>1 DEF OursIsSeven
    <3>4. QED BY <2>3, <3>2, <3>3 DEF OursIsSeven
  <2>12. PathAskedWhenAwaited'
    BY <1>1, <1>2, <2>6 DEF PathAskedWhenAwaited
  <2>13. QED BY <1>1, <1>3, <2>7, <2>9, <2>10, <2>11, <2>12 DEF LinkInv
<1>10. Serve => Head(requests).kind \in Commands \cup {"calsw", "mag"}
  <2>1. Serve => requests # <<>> /\ requests' = Tail(requests)
    BY DEF Serve
  <2>2. Serve => Head(requests) \in RequestType
    BY <1>4, <2>1
  <2>3. QED BY <2>2 DEF RequestType
<1>11. QED BY <1>5, <1>6, <1>7, <1>8, <1>9, <1>10 DEF Device

LEMMA StepLink == ASSUME LinkInv, [Next]_vars PROVE LinkInv'
<1>1. CASE UNCHANGED vars
  <2>1. Types'
    BY <1>1, StepTypes DEF LinkInv
  <2>2. QED BY <1>1, <2>1, LinkAlone DEF vars, hostVars, link, world
<1>2. CASE Next
  BY <1>2, CallerLink, MonitorLink, ExecuteLink, EndingLink, DeviceLink DEF Next
<1>3. QED BY <1>1, <1>2

LEMMA InitLink == Init => LinkInv
<1> SUFFICES ASSUME Init PROVE LinkInv
  OBVIOUS
<1>1. Types
  BY InitTypes
<1>2. Len(requests) = 0 /\ Len(replies) = 0 /\ ~device.ours /\ pc = "open" /\ ~exec.cleaning
  BY DEF Init
<1>3. QED
  BY <1>1, <1>2 DEF LinkInv, Cleaning, PathAskedWhenAwaited, NoPathRead, PathIsLast, Flushed,
       StartFirst, OursIsSeven, Polling

-----------------------------------------------------------------------------
(***************************************************************************)
(* Ownership.  A start is owned before it is written, and stays so until an *)
(* answer says that no calibration runs; by the invariant of the link that *)
(* answer is younger than the start.                                       *)
(***************************************************************************)

\* The device calibrates by our start, or will when it has served what is on
\* its way.
MayHold == device.ours \/ \E i \in 1 .. Len(requests) : requests[i].kind = "start"

HeldIsOwned == MayHold => mag.owned

\* A worker that has passed its cleanup owns nothing, or returns an error.
Released ==
  /\ pc = "open" => ~mag.owned
  /\ pc \in {"finish", "close", "ended", "finished"} => failure = "Error" \/ ~mag.owned

\* An error is in the state when the connection is closed, and stop saw it.
Told ==
  /\ pc \in {"close", "ended", "finished"} /\ failure = "Error" => mag.error
  /\ caller = "Ok" => pc = "finished" /\ ~mag.error

OwnInv == LinkInv /\ HeldIsOwned /\ Released /\ Told

\* Only a start, written or served, makes the device hold.
LEMMA HoldNeedsStart ==
  ASSUME LinkInv, NEW kind \in {"calsw", "mag"} \cup Commands, Asks(kind), UNCHANGED device, MayHold'
  PROVE  MayHold \/ kind = "start"
<1>1. Types
  BY DEF LinkInv
<1>2. /\ \A i \in 1 .. Len(requests) : requests'[i] = requests[i]
      /\ \A i \in 1 .. Len(requests') : i \notin 1 .. Len(requests) => requests'[i].kind = kind
  BY <1>1, AsksSays
<1>3. CASE device.ours
  BY <1>3 DEF MayHold
<1>4. ASSUME NEW i \in 1 .. Len(requests'), requests'[i].kind = "start"
      PROVE  MayHold \/ kind = "start"
  <2>1. CASE i \in 1 .. Len(requests)
    BY <1>2, <1>4, <2>1 DEF MayHold
  <2>2. CASE i \notin 1 .. Len(requests)
    BY <1>2, <1>4, <2>2
  <2>3. QED BY <2>1, <2>2
<1>5. QED BY <1>3, <1>4 DEF MayHold

\* While it holds, no answer on the link says that no calibration runs.
LEMMA HoldsNoZero ==
  ASSUME LinkInv, MayHold
  PROVE  \A i \in 1 .. Len(replies) : ~Zero(replies[i])
<1>1. CASE device.ours
  BY <1>1 DEF LinkInv, OursIsSeven
<1>2. CASE \E i \in 1 .. Len(requests) : requests[i].kind = "start"
  <2>1. Len(replies) = 0
    BY <1>2 DEF LinkInv, StartFirst
  <2>2. QED BY <2>1
<1>3. QED BY <1>1, <1>2 DEF MayHold

\* Hence what is heard takes no ownership while the device may hold.
LEMMA HeardKeepsOwner ==
  ASSUME LinkInv, HeldIsOwned, MayHold, NEW here, NEW k \in Batches, NEW i \in Batches,
         Heard(here, k, i)
  PROVE  Observed(k).owned /\ ~Zero(replies[i])
<1>1. TypeOK /\ Len(replies) \in Nat
  <2>1. Types
    BY DEF LinkInv
  <2>2. QED BY <2>1, TypesSay
<1>2. mag.owned /\ ~Observed(k).owned => \E j \in 1 .. k : Zero(replies[j])
  BY <1>1, HeardSays
<1>3. k \in 1 .. Len(replies) /\ i \in 1 .. Len(replies)
  BY DEF Batches
<1>4. \A j \in 1 .. k : ~Zero(replies[j])
  BY <1>1, <1>3, HoldsNoZero
<1>5. ~Zero(replies[i])
  BY <1>3, HoldsNoZero
<1>6. mag.owned
  BY DEF HeldIsOwned
<1>7. QED BY <1>2, <1>4, <1>5, <1>6

\* The answer that verifies a stop says that no calibration runs.
LEMMA StopAnswerIsZero ==
  ASSUME Types, NEW k \in Batches, NEW i \in Batches, Heard("verify", k, i),
         exec.command # "start"
  PROVE  Zero(replies[i])
<1>1. Answers(replies[i]) /\ pc = "verify"
  BY DEF Heard
<1>2. Expects["verify"] = "calsw"
  BY DEF Expects
<1>3. QED BY <1>1, <1>2 DEF Answers, Target, Zero

LEMMA CallerOwns == ASSUME OwnInv, Caller PROVE HeldIsOwned' /\ Released' /\ Told'
<1> USE DEF hostVars, link, world
<1>1. Types /\ HeldIsOwned /\ Released /\ Told /\ mag \in MagType
  BY DEF OwnInv, LinkInv, Types
<1>2. UNCHANGED <<requests, device>>
  BY DEF Caller, Submit, StopBegins, StopReturns, StopTimesOut
<1>3. MayHold' = MayHold
  BY <1>2 DEF MayHold
<1>4. ASSUME (\E c \in Commands : Submit(c)) \/ StopBegins
      PROVE  HeldIsOwned' /\ Released' /\ Told'
  BY <1>1, <1>3, <1>4 DEF Submit, StopBegins, HeldIsOwned, Released, Told
<1>5. CASE StopReturns
  BY <1>1, <1>3, <1>5 DEF StopReturns, HeldIsOwned, Released, Told
<1>6. CASE StopTimesOut
  <2>1. mag'.owned = mag.owned
    BY <1>1, <1>6, FinishSays DEF StopTimesOut
  <2>2. QED BY <1>1, <1>3, <1>6, <2>1 DEF StopTimesOut, HeldIsOwned, Released, Told
<1>7. QED BY <1>4, <1>5, <1>6 DEF Caller

LEMMA MonitorOwns == ASSUME OwnInv, Monitor PROVE HeldIsOwned' /\ Released' /\ Told'
<1> USE DEF hostVars, callerVars, link, world, workerKeeps
<1>1. LinkInv /\ Types /\ TypeOK /\ HeldIsOwned /\ Released /\ Told
      /\ mag \in MagType /\ exec.turn \in Nat
  <2>1. LinkInv /\ Types /\ HeldIsOwned /\ Released /\ Told
    BY DEF OwnInv, LinkInv
  <2>2. QED BY <2>1, TypesSay
<1>2. UNCHANGED <<device, caller>>
  BY DEF Monitor, Open, SensorType, Hear, FirstCalsw, Polled, Poll, Retry, TimesOut, IoFails,
         CancelNoticed
<1>3. pc \notin {"finish", "close", "ended", "finished"}
  BY DEF Monitor, Open, SensorType, Hear, FirstCalsw, Polled, Poll, Retry, TimesOut, IoFails,
         CancelNoticed, Heard, Listening, Reading, Expects
<1>4. Told'
  <2>1. caller' # "Ok"
    BY <1>1, <1>2, <1>3 DEF Told
  <2>2. CASE Open
    <3>1. pc' = "type" \/ mag' = Finish(mag, failure' = "Error")
      BY <2>2 DEF Open
    <3>2. Finish(mag, failure' = "Error").error = (failure' = "Error")
      BY <1>1, FinishSays, Zenon
    <3>3. QED BY <2>1, <2>2, <3>1, <3>2 DEF Told, Open
  <2>3. CASE ~Open
    <3>1. pc' \notin {"close", "ended", "finished"}
      BY <1>3, <2>3 DEF Monitor, SensorType, Hear, FirstCalsw, Polled, Poll, Retry, TimesOut,
           IoFails, CancelNoticed, Fail
    <3>2. QED BY <2>1, <3>1 DEF Told
  <2>4. QED BY <2>2, <2>3
<1>5. Asks("calsw") \/ Asks("mag")
  BY <1>1 DEF Monitor, Open, SensorType, Hear, FirstCalsw, Polled, Poll, Retry, TimesOut, IoFails,
         CancelNoticed, Asks, Expects
<1>6. MayHold' => MayHold
  BY <1>1, <1>2, <1>5, HoldNeedsStart
<1>7. ASSUME MayHold PROVE mag'.owned
  <2>1. mag.owned /\ pc # "open"
    BY <1>1, <1>7 DEF HeldIsOwned, Released
  <2>2. CASE Hear
    <3>1. PICK k \in 1 .. Len(replies) :
            mag.owned /\ ~mag'.owned => \E j \in 1 .. k : Zero(replies[j])
      BY <1>1, <2>2, HearSays
    <3>2. Len(replies) \in Nat
      BY <1>1 DEF Types
    <3>3. \A j \in 1 .. k : ~Zero(replies[j])
      BY <1>1, <1>7, <3>2, HoldsNoZero
    <3>4. QED BY <2>1, <3>1, <3>3
  <2>3. CASE FirstCalsw
    <3>1. PICK k \in Batches, i \in Batches :
            Heard("first", k, i) /\ \E p \in Phases : mag' = [Observed(k) EXCEPT !.phase = p]
      BY <2>3 DEF FirstCalsw, Phases
    <3>2. Observed(k).owned /\ Observed(k) \in MagType
      BY <1>1, <1>7, <3>1, HeardKeepsOwner, HeardSays
    <3>3. QED BY <3>1, <3>2 DEF MagType
  <2>4. CASE Polled
    <3>1. PICK k \in Batches, i \in Batches, here \in {"firstmag", "pollmag", "pollcalsw"} :
            Heard(here, k, i) /\ mag' = Observed(k)
      BY <2>4 DEF Polled
    <3>2. QED BY <1>1, <1>7, <3>1, HeardKeepsOwner
  <2>5. CASE ~(Hear \/ FirstCalsw \/ Polled)
    <3>1. UNCHANGED mag
      BY <2>1, <2>5 DEF Monitor, Open, SensorType, Poll, Retry, TimesOut, IoFails, CancelNoticed
    <3>2. QED BY <2>1, <3>1
  <2>6. QED BY <2>2, <2>3, <2>4, <2>5
<1>8. HeldIsOwned'
  BY <1>6, <1>7 DEF HeldIsOwned
<1>9. Released'
  <2>1. CASE Open
    <3>1. mag'.owned = mag.owned
      <4>1. mag' = mag \/ mag' = Finish(mag, failure' = "Error")
        BY <2>1 DEF Open
      <4>2. Finish(mag, failure' = "Error").owned = mag.owned
        BY <1>1, FinishSays, Zenon
      <4>3. QED BY <4>1, <4>2
    <3>2. QED BY <1>1, <2>1, <3>1 DEF Open, Released
  <2>2. ASSUME TimesOut \/ IoFails \/ CancelNoticed PROVE Released'
    <3>1. PICK kind \in {"Cancelled", "Error"} : Fail(kind)
      BY <2>2 DEF TimesOut, IoFails, CancelNoticed
    <3>2. pc' = IF exec.cleaning THEN "finish" ELSE "leave"
      BY <1>1, <3>1, FailSays
    <3>3. exec.cleaning => failure' = "Error"
      BY <1>1, <3>1, FailSays
    <3>4. QED BY <3>2, <3>3 DEF Released
  <2>3. ASSUME SensorType \/ Hear \/ FirstCalsw \/ Polled \/ Poll \/ Retry PROVE Released'
    <3>1. pc' \notin {"open", "finish", "close", "ended", "finished"}
      BY <1>3, <2>3 DEF SensorType, Hear, FirstCalsw, Polled, Poll, Retry, Listening, Reading, Expects
    <3>2. QED BY <3>1 DEF Released
  <2>4. QED BY <2>1, <2>2, <2>3 DEF Monitor
<1>10. QED BY <1>4, <1>8, <1>9

\* A start that is about to be written is owned.
Attempted == pc = "write" /\ exec.command = "start" => mag.owned

LEMMA StepAttempted == ASSUME Types, Attempted, [Next]_vars PROVE Attempted'
<1> USE DEF hostVars, callerVars, link, world, workerKeeps, deviceKeeps
<1>1. CASE UNCHANGED vars
  BY <1>1 DEF vars, Attempted
<1>2. CASE Caller
  BY <1>2 DEF Caller, Submit, StopBegins, StopReturns, StopTimesOut, Attempted
<1>3. CASE Monitor
  <2>1. pc' # "write"
    BY <1>3 DEF Monitor, Open, SensorType, Hear, FirstCalsw, Polled, Poll, Retry, TimesOut, IoFails,
         CancelNoticed, Fail, Listening, Reading, Expects
  <2>2. QED BY <2>1 DEF Attempted
<1>4. CASE Unlocked
  <2>1. mag'.owned = (mag.owned \/ exec.command = "start") /\ UNCHANGED exec
    BY <1>4 DEF Unlocked, Types, MagType
  <2>2. QED BY <2>1 DEF Attempted
<1>5. CASE Execute /\ ~Unlocked
  <2>1. pc' # "write"
    BY <1>5 DEF Execute, Begin, Refused, Checked, PathProven, Write, WriteFails, Settled, Verified,
         Fail
  <2>2. QED BY <2>1 DEF Attempted
<1>6. CASE Ending
  <2>1. pc' # "write"
    BY <1>6 DEF Ending, Leave, FinishSession, Close, Epilogue
  <2>2. QED BY <2>1 DEF Attempted
<1>7. CASE Device
  BY <1>7 DEF Device, Serve, LoseRequest, LoseReply, OtherProgram, Attempted
<1>8. QED BY <1>1, <1>2, <1>3, <1>4, <1>5, <1>6, <1>7 DEF Next

\* What is heard in a step of execute leaves the owner, whatever phase it sets.
LEMMA ExecuteOwns == ASSUME OwnInv, Attempted, Execute PROVE HeldIsOwned' /\ Released' /\ Told'
<1> USE DEF hostVars, callerVars, link, world, workerKeeps
<1>1. LinkInv /\ Types /\ TypeOK /\ HeldIsOwned /\ Released /\ Told
      /\ mag \in MagType /\ exec.turn \in Nat /\ exec.turn + 1 \in Nat /\ exec.command \in Commands
      /\ exec.cleaning \in BOOLEAN
  <2>1. LinkInv /\ Types /\ HeldIsOwned /\ Released /\ Told
    BY DEF OwnInv, LinkInv
  <2>2. QED BY <2>1, TypesSay
<1>2. UNCHANGED <<device, caller>>
  BY DEF Execute, Begin, Refused, Checked, PathProven, Unlocked, Write, WriteFails, Settled, Verified
<1>3. pc \notin {"finish", "close", "ended", "finished", "open"}
  BY DEF Execute, Begin, Refused, Checked, PathProven, Unlocked, Write, WriteFails, Settled, Verified,
         Heard
<1>4. pc' \notin {"ended", "finished", "open", "close"}
  BY DEF Execute, Begin, Refused, Checked, PathProven, Unlocked, Write, WriteFails, Settled, Verified,
         Fail
<1>5. Told'
  BY <1>1, <1>2, <1>3, <1>4 DEF Told
<1>6. CASE Begin \/ Settled
  <2>1. Send("calsw", exec.turn + 1) \/ Send("calsw", exec.turn)
    BY <1>6 DEF Begin, Settled
  <2>2. Asks("calsw")
    BY <1>1, <2>1 DEF Asks
  <2>3. MayHold' => MayHold
    BY <1>1, <1>2, <2>2, HoldNeedsStart
  <2>4. UNCHANGED mag /\ pc' # "finish"
    BY <1>6 DEF Begin, Settled
  <2>5. QED BY <1>1, <1>4, <1>5, <2>3, <2>4 DEF HeldIsOwned, Released
<1>7. CASE Refused
  <2>1. PICK k \in Batches, i \in Batches : Heard("pre", k, i) /\ mag' = Observed(k)
    BY <1>7 DEF Refused
  <2>2. MayHold => mag'.owned
    BY <1>1, <2>1, HeardKeepsOwner
  <2>3. UNCHANGED requests
    BY <1>7 DEF Refused
  <2>4. MayHold' = MayHold
    BY <1>2, <2>3 DEF MayHold
  <2>5. pc' = "finish" => failure' = "Error"
    BY <1>7 DEF Refused
  <2>6. QED BY <1>4, <1>5, <2>2, <2>4, <2>5 DEF HeldIsOwned, Released
<1>8. CASE Checked
  <2>1. PICK k \in Batches, i \in Batches :
          Heard("pre", k, i)
          /\ (mag' = Observed(k) \/ \E p \in Phases : mag' = [Observed(k) EXCEPT !.phase = p])
    BY <1>8 DEF Checked, Phases
  <2>2. MayHold => Observed(k).owned
    BY <1>1, <2>1, HeardKeepsOwner
  <2>3. mag'.owned = Observed(k).owned
    <3>1. Observed(k) \in MagType
      BY <1>1, <2>1, HeardSays
    <3>2. QED BY <2>1, <3>1 DEF MagType
  <2>4. Asks("mag")
    <3>1. UNCHANGED requests \/ Send("mag", exec.turn)
      BY <1>8 DEF Checked
    <3>2. QED BY <1>1, <3>1 DEF Asks
  <2>5. MayHold' => MayHold
    BY <1>1, <1>2, <2>4, HoldNeedsStart
  <2>6. pc' # "finish"
    BY <1>8 DEF Checked
  <2>7. QED BY <1>4, <1>5, <2>2, <2>3, <2>5, <2>6 DEF HeldIsOwned, Released
<1>9. CASE PathProven
  <2>1. PICK k \in Batches, i \in Batches :
          Heard("premag", k, i) /\ \E p \in Phases : mag' = [Observed(k) EXCEPT !.phase = p]
    BY <1>9 DEF PathProven, Phases
  <2>2. MayHold => Observed(k).owned
    BY <1>1, <2>1, HeardKeepsOwner
  <2>3. mag'.owned = Observed(k).owned
    <3>1. Observed(k) \in MagType
      BY <1>1, <2>1, HeardSays
    <3>2. QED BY <2>1, <3>1 DEF MagType
  <2>4. UNCHANGED requests /\ pc' # "finish"
    BY <1>9 DEF PathProven
  <2>5. MayHold' = MayHold
    BY <1>2, <2>4 DEF MayHold
  <2>6. QED BY <1>4, <1>5, <2>2, <2>3, <2>4, <2>5 DEF HeldIsOwned, Released
<1>10. CASE Unlocked
  <2>1. mag'.owned = (mag.owned \/ exec.command = "start")
    BY <1>1, <1>10 DEF Unlocked, MagType
  <2>2. UNCHANGED requests /\ pc' # "finish"
    BY <1>10 DEF Unlocked
  <2>3. MayHold' = MayHold
    BY <1>2, <2>2 DEF MayHold
  <2>4. QED BY <1>1, <1>4, <1>5, <2>1, <2>2, <2>3 DEF HeldIsOwned, Released
<1>11. CASE Write \/ WriteFails
  <2>1. UNCHANGED requests \/ Send(exec.command, exec.turn)
    BY <1>11 DEF Write, WriteFails
  <2>2. Asks(exec.command)
    BY <1>1, <2>1 DEF Asks
  <2>3. MayHold' => MayHold \/ exec.command = "start"
    BY <1>1, <1>2, <2>2, HoldNeedsStart
  <2>4. pc = "write" /\ mag'.owned = mag.owned
    BY <1>1, <1>11 DEF Write, WriteFails, MagType
  <2>5. HeldIsOwned'
    BY <1>1, <2>3, <2>4 DEF HeldIsOwned, Attempted
  <2>6. pc' = "finish" => failure' = "Error"
    <3>1. CASE Write
      BY <3>1 DEF Write
    <3>2. CASE WriteFails
      <4>1. PICK kind \in {"Cancelled", "Error"} : Fail(kind)
        BY <3>2 DEF WriteFails
      <4>2. QED BY <1>1, <4>1, FailSays
    <3>3. QED BY <1>11, <3>1, <3>2
  <2>7. QED BY <1>4, <1>5, <2>5, <2>6 DEF Released
<1>12. CASE Verified
  <2>1. PICK k \in Batches, i \in Batches :
          /\ Heard("verify", k, i)
          /\ mag' = IF exec.command = "start"
                      THEN [Observed(k) EXCEPT !.phase = "Calibrating", !.frozen = FALSE]
                      ELSE [Observed(k) EXCEPT !.phase = "Calibrated", !.frozen = TRUE,
                                               !.owned = FALSE]
    BY <1>12 DEF Verified
  <2>2. Observed(k) \in MagType
    BY <1>1, <2>1, HeardSays
  <2>3. MayHold => Observed(k).owned /\ ~Zero(replies[i])
    BY <1>1, <2>1, HeardKeepsOwner
  <2>4. UNCHANGED requests
    BY <1>12 DEF Verified
  <2>5. MayHold' = MayHold
    BY <1>2, <2>4 DEF MayHold
  <2>6. CASE exec.command = "start"
    <3>1. mag'.owned = Observed(k).owned
      BY <2>1, <2>2, <2>6 DEF MagType
    <3>2. ~exec.cleaning
      BY <1>1, <2>6 DEF LinkInv, Cleaning
    <3>3. pc' # "finish"
      BY <1>12, <3>2 DEF Verified
    <3>4. QED BY <1>4, <1>5, <2>3, <2>5, <3>1, <3>3 DEF HeldIsOwned, Released
  <2>7. CASE exec.command # "start"
    <3>1. ~mag'.owned
      BY <2>1, <2>2, <2>7 DEF MagType
    <3>2. Zero(replies[i])
      BY <1>1, <2>1, <2>7, StopAnswerIsZero
    <3>3. QED BY <1>4, <1>5, <2>3, <2>5, <3>1, <3>2 DEF HeldIsOwned, Released
  <2>8. QED BY <2>6, <2>7
<1>13. QED BY <1>6, <1>7, <1>8, <1>9, <1>10, <1>11, <1>12 DEF Execute

LEMMA EndingOwns == ASSUME OwnInv, Ending PROVE HeldIsOwned' /\ Released' /\ Told'
<1> USE DEF hostVars, callerVars, link, world, workerKeeps
<1>1. LinkInv /\ Types /\ HeldIsOwned /\ Released /\ Told
      /\ mag \in MagType /\ exec.turn \in Nat /\ exec.turn + 1 \in Nat
      /\ failure \in {"None", "Cancelled", "Error"}
  BY DEF OwnInv, LinkInv, Types, ExecType
<1>2. UNCHANGED <<device, caller>> /\ pc \in {"leave", "finish", "close", "ended"}
  BY DEF Ending, Leave, FinishSession, Close, Epilogue
<1>3. Asks("calsw")
  <2>1. UNCHANGED requests \/ Send("calsw", exec.turn + 1)
    BY DEF Ending, Leave, FinishSession, Close, Epilogue
  <2>2. QED BY <1>1, <2>1 DEF Asks
<1>4. MayHold' => MayHold
  BY <1>1, <1>2, <1>3, HoldNeedsStart
<1>5. mag'.owned = mag.owned
  <2>1. CASE Leave
    BY <1>1, <2>1 DEF Leave, MagType
  <2>2. CASE FinishSession
    <3>1. mag' = Finish(mag, failure = "Error")
      BY <2>2 DEF FinishSession
    <3>2. Finish(mag, failure = "Error").owned = mag.owned
      BY <1>1, FinishSays, Zenon
    <3>3. QED BY <3>1, <3>2
  <2>3. CASE Close
    <3>1. mag' = mag \/ mag' = Finish(mag, TRUE)
      BY <2>3 DEF Close
    <3>2. Finish(mag, TRUE).owned = mag.owned
      BY <1>1, FinishSays
    <3>3. QED BY <3>1, <3>2
  <2>4. CASE Epilogue
    BY <2>4 DEF Epilogue
  <2>5. QED BY <2>1, <2>2, <2>3, <2>4 DEF Ending
<1>6. HeldIsOwned'
  BY <1>1, <1>4, <1>5 DEF HeldIsOwned
<1>7. Released'
  <2>1. CASE Leave
    BY <1>5, <2>1 DEF Leave, Released
  <2>2. CASE FinishSession \/ Close \/ Epilogue
    <3>1. pc \in {"finish", "close", "ended"} /\ (failure' = failure \/ failure' = "Error")
          /\ pc' # "open"
      BY <2>2 DEF FinishSession, Close, Epilogue
    <3>2. QED BY <1>1, <1>5, <3>1 DEF Released
  <2>3. QED BY <2>1, <2>2 DEF Ending
<1>8. Told'
  <2>1. caller' # "Ok"
    BY <1>1, <1>2 DEF Told
  <2>2. CASE Leave
    <3>1. pc' \notin {"close", "ended", "finished"}
      BY <2>2 DEF Leave
    <3>2. QED BY <2>1, <3>1 DEF Told
  <2>5. CASE FinishSession
    <3>1. mag' = Finish(mag, failure = "Error") /\ UNCHANGED failure
      BY <2>5 DEF FinishSession
    <3>2. Finish(mag, failure = "Error").error = (failure = "Error")
      BY <1>1, FinishSays, Zenon
    <3>3. QED BY <2>1, <3>1, <3>2 DEF Told
  <2>3. CASE Epilogue
    BY <1>1, <2>1, <2>3 DEF Epilogue, Told
  <2>4. CASE Close
    <3>1. CASE UNCHANGED <<mag, failure>>
      BY <1>1, <2>1, <2>4, <3>1 DEF Close, Told
    <3>2. CASE mag' = Finish(mag, TRUE)
      <4>1. Finish(mag, TRUE).error
        BY <1>1, FinishSays
      <4>2. QED BY <2>1, <3>2, <4>1 DEF Told
    <3>3. QED BY <2>4, <3>1, <3>2 DEF Close
  <2>6. QED BY <2>2, <2>3, <2>4, <2>5 DEF Ending
<1>9. QED BY <1>6, <1>7, <1>8

\* What is on its way to the device loses its head when the device serves it,
LEMMA TailHolds ==
  ASSUME Types, requests # <<>>, requests' = Tail(requests),
         NEW i \in 1 .. Len(requests'), requests'[i].kind = "start"
  PROVE  MayHold
<1>1. requests \in Seq(RequestType)
  BY DEF Types
<1>2. i + 1 \in 1 .. Len(requests) /\ requests'[i] = requests[i + 1]
  BY <1>1
<1>3. QED BY <1>2 DEF MayHold

\* and holds only by a start that was there.
LEMMA DeviceOwns == ASSUME OwnInv, Device PROVE HeldIsOwned' /\ Released' /\ Told'
<1> USE DEF hostVars, callerVars, link, world, deviceKeeps
<1>1. Types /\ HeldIsOwned /\ Released /\ Told
  BY DEF OwnInv, LinkInv
<1>2. UNCHANGED <<mag, pc, failure, caller>>
  BY DEF Device, Serve, LoseRequest, LoseReply, OtherProgram
<1>3. Released' /\ Told'
  BY <1>1, <1>2 DEF Released, Told
<1>4. MayHold' => MayHold
  <2>1. CASE OtherProgram
    BY <2>1 DEF OtherProgram, MayHold
  <2>2. CASE LoseReply
    BY <2>2 DEF LoseReply, MayHold
  <2>3. CASE LoseRequest
    <3>1. requests # <<>> /\ requests' = Tail(requests) /\ UNCHANGED device
      BY <2>3 DEF LoseRequest
    <3>2. QED BY <1>1, <3>1, TailHolds DEF MayHold
  <2>4. CASE Serve
    <3>1. requests # <<>> /\ requests' = Tail(requests)
      BY <2>4 DEF Serve
    <3>2. Head(requests) = requests[1] /\ 1 \in 1 .. Len(requests)
          /\ requests[1] \in RequestType
      BY <1>1, <3>1 DEF Types
    <3>3. device'.ours => device.ours \/ requests[1].kind = "start"
      <4>1. CASE requests[1].kind = "start"
        BY <4>1
      <4>2. CASE requests[1].kind = "stop"
        BY <2>4, <3>2, <4>2 DEF Serve
      <4>3. CASE requests[1].kind = "save"
        BY <2>4, <3>2, <4>3 DEF Serve
      <4>4. CASE requests[1].kind \in {"calsw", "mag"}
        BY <2>4, <3>2, <4>4 DEF Serve
      <4>5. QED BY <3>2, <4>1, <4>2, <4>3, <4>4 DEF RequestType, Commands
    <3>4. QED BY <1>1, <3>1, <3>2, <3>3, TailHolds DEF MayHold
  <2>5. QED BY <2>1, <2>2, <2>3, <2>4 DEF Device
<1>5. QED BY <1>1, <1>2, <1>3, <1>4 DEF HeldIsOwned

LEMMA StepOwns == ASSUME OwnInv /\ Attempted, [Next]_vars PROVE (OwnInv /\ Attempted)'
<1>1. LinkInv /\ Types /\ Attempted
  BY DEF OwnInv, LinkInv
<1>2. LinkInv' /\ Attempted'
  BY <1>1, StepLink, StepAttempted
<1>3. HeldIsOwned' /\ Released' /\ Told'
  <2>1. CASE UNCHANGED vars
    BY <2>1 DEF vars, hostVars, callerVars, link, world, OwnInv, HeldIsOwned, MayHold, Released, Told
  <2>2. CASE Next
    BY <1>1, <2>2, CallerOwns, MonitorOwns, ExecuteOwns, EndingOwns, DeviceOwns DEF Next
  <2>3. QED BY <2>1, <2>2
<1>4. QED BY <1>2, <1>3 DEF OwnInv

LEMMA InitOwns == Init => OwnInv /\ Attempted
<1> SUFFICES ASSUME Init PROVE OwnInv /\ Attempted
  OBVIOUS
<1>1. LinkInv
  BY InitLink
<1>2. Len(requests) = 0 /\ ~device.ours /\ pc = "open" /\ ~mag.owned /\ failure = "None"
      /\ caller = "open"
  BY DEF Init
<1>3. QED BY <1>1, <1>2 DEF OwnInv, HeldIsOwned, MayHold, Released, Told, Attempted

\* A start that will decide what the device does is one that it may hold.
LEMMA InEffectMayHold == ASSUME Types, OursInEffect PROVE MayHold
<1>1. DOMAIN requests = 1 .. Len(requests)
  BY DEF Types
<1>2. QED BY <1>1 DEF OursInEffect, MayHold

\* As long as a start of this session is in effect, or will be when the device
\* has served what is on its way, the session reports it as its own: lost,
\* delayed and ignored messages, cancellation, another program, failed reads
\* and a failed cleanup never make it forget (device_may_be_calibrating).
THEOREM SessionOwnsItsCalibration == Spec => []CalibrationIsOwned
<1>1. Init => OwnInv /\ Attempted
  BY InitOwns
<1>2. (OwnInv /\ Attempted) /\ [Next]_vars => (OwnInv /\ Attempted)'
  BY StepOwns
<1>3. OwnInv => CalibrationIsOwned
  BY InEffectMayHold DEF OwnInv, LinkInv, HeldIsOwned, CalibrationIsOwned
<1>4. QED
  BY <1>1, <1>2, <1>3, PTL DEF Spec

\* A stop that returns Ok has released the device: every other way to end is
\* reported to its caller as an error (stop, State.finish and the epilogue).
THEOREM SessionStopReleases == Spec => []StopOkMeansReleased
<1>1. Init => OwnInv /\ Attempted
  BY InitOwns
<1>2. (OwnInv /\ Attempted) /\ [Next]_vars => (OwnInv /\ Attempted)'
  BY StepOwns
<1>3. OwnInv => StopOkMeansReleased
  <2> SUFFICES ASSUME OwnInv, caller = "Ok" PROVE ~OursInEffect /\ ~mag.owned
    BY DEF StopOkMeansReleased
  <2>1. Types /\ HeldIsOwned /\ Released /\ Told
    BY DEF OwnInv, LinkInv
  <2>2. pc = "finished" /\ ~mag.error
    BY <2>1 DEF Told
  <2>3. failure # "Error"
    BY <2>1, <2>2 DEF Told
  <2>4. ~mag.owned
    BY <2>1, <2>2, <2>3 DEF Released
  <2>5. ~MayHold
    BY <2>1, <2>4 DEF HeldIsOwned
  <2>6. QED BY <2>1, <2>4, <2>5, InEffectMayHold
<1>4. QED
  BY <1>1, <1>2, <1>3, PTL DEF Spec

-----------------------------------------------------------------------------
(***************************************************************************)
(* Writes.  What is queued, and what is being executed but not written, is *)
(* owed to a command that was accepted; the cleanup owes one stop to the   *)
(* start it ends.                                                          *)
(***************************************************************************)

Queued(c) == queue # <<>> /\ Head(queue) = c
Before == {"pre", "premag", "unlock", "write"}
Owed(c) == (IF Queued(c) THEN 1 ELSE 0) + (IF pc \in Before /\ exec.command = c THEN 1 ELSE 0)
Extra(c) == IF c = "stop" /\ exec.cleaning THEN 1 ELSE 0

Counted == \A c \in Commands : written[c] + Owed(c) <= accepted[c] + Extra(c)

\* Only a command that was accepted is executed, owned or cleaned up after.
Asked ==
  /\ Queued("start") => accepted["start"] > 0
  /\ pc \in Executing /\ exec.command = "start" => accepted["start"] > 0
  /\ mag.owned => accepted["start"] > 0
  /\ exec.cleaning => accepted["start"] > 0
  /\ pc = "premag" => exec.command = "start"
  /\ pc = "leave" => ~exec.cleaning

CountInv == Types /\ Cleaning /\ Counted /\ Asked

\* A step that writes nothing and owes nothing more keeps the count.
LEMMA CountKept ==
  ASSUME Types, Types', Counted, UNCHANGED <<written, accepted>>,
         \A c \in Commands : Owed(c)' <= Owed(c) /\ Extra(c)' >= Extra(c)
  PROVE  Counted'
<1>1. \A c \in Commands : written[c] \in Nat /\ accepted[c] \in Nat
  BY ConstantsAssumption DEF Types
<1>2. \A c \in Commands : Owed(c) \in Nat /\ Extra(c) \in Nat /\ Owed(c)' \in Nat /\ Extra(c)' \in Nat
  BY DEF Owed, Extra
<1>3. ASSUME NEW c \in Commands PROVE (written[c] + Owed(c))' <= (accepted[c] + Extra(c))'
  BY <1>1, <1>2 DEF Counted
<1>4. QED BY <1>3 DEF Counted

\* What is owed and what is extra are numbers.
LEMMA OwedIs ==
  ASSUME NEW c
  PROVE  Owed(c) \in Nat /\ Extra(c) \in Nat
<1> DEFINE a == IF Queued(c) THEN 1 ELSE 0
           b == IF pc \in Before /\ exec.command = c THEN 1 ELSE 0
<1>1. a \in Nat /\ b \in Nat /\ Extra(c) \in Nat
  BY DEF Extra
<1>2. Owed(c) = a + b
  BY DEF Owed
<1> HIDE DEF a, b
<1> QED BY <1>1, <1>2

LEMMA CountersAre ==
  ASSUME Types, NEW c \in Commands
  PROVE  written[c] \in Nat /\ accepted[c] \in Nat
BY ConstantsAssumption DEF Types

\* One that writes, or may have written, settles what it owed.
LEMMA CountWritten ==
  ASSUME Types, Types', Counted, pc = "write", pc' \notin Before,
         UNCHANGED <<queue, exec, accepted>>,
         written' = written \/ written' = [written EXCEPT ![exec.command] = @ + 1]
  PROVE  Counted'
<1>1. \A c \in Commands : written[c] \in Nat /\ accepted[c] \in Nat
  BY ConstantsAssumption DEF Types
<1>2. written \in [Commands -> Nat] /\ exec.command \in Commands
  BY DEF Types, ExecType
<1>3. ASSUME NEW c \in Commands PROVE (written[c] + Owed(c))' <= (accepted[c] + Extra(c))'
  <2>1. Extra(c)' = Extra(c) /\ Extra(c) \in Nat /\ Owed(c) \in Nat /\ Queued(c)' = Queued(c)
    BY OwedIs DEF Extra, Queued
  <2>2. Owed(c)' = Owed(c) - (IF exec.command = c THEN 1 ELSE 0)
    BY <2>1 DEF Owed, Before
  <2>3. written'[c] <= written[c] + (IF exec.command = c THEN 1 ELSE 0) /\ written'[c] \in Nat
    BY <1>1, <1>2
  <2>4. written[c] + Owed(c) <= accepted[c] + Extra(c)
    BY DEF Counted
  <2>5. (accepted[c] + Extra(c))' = accepted[c] + Extra(c)
    BY <2>1
  <2>6. CASE exec.command = c
    <3>1. Owed(c)' = Owed(c) - 1 /\ written'[c] <= written[c] + 1
      BY <2>2, <2>3, <2>6
    <3>2. QED BY <1>1, <2>1, <2>3, <2>4, <2>5, <3>1
  <2>7. CASE exec.command # c
    <3>1. Owed(c)' = Owed(c) /\ written'[c] <= written[c]
      BY <1>1, <2>1, <2>2, <2>3, <2>7
    <3>2. QED BY <1>1, <2>1, <2>3, <2>4, <2>5, <3>1
  <2>8. QED BY <2>6, <2>7
<1>4. QED BY <1>3 DEF Counted

LEMMA CallerCounts == ASSUME CountInv, Caller PROVE Counted' /\ Asked'
<1> USE DEF hostVars, link, world
<1>1. Types /\ Types' /\ Cleaning /\ Counted /\ Asked
  <2>1. Types /\ Cleaning /\ Counted /\ Asked
    BY DEF CountInv
  <2>2. QED BY <2>1, CallerTypes
<1>2. \A c \in Commands : written[c] \in Nat /\ accepted[c] \in Nat /\ Owed(c) \in Nat /\ Extra(c) \in Nat
  BY <1>1, CountersAre, OwedIs
<1>3. ASSUME NEW command \in Commands, Submit(command) PROVE Counted' /\ Asked'
  <2>1. /\ queue = <<>> /\ queue' = <<command>> /\ UNCHANGED <<mag, exec, pc, written>>
        /\ accepted' = [accepted EXCEPT ![command] = @ + 1]
    BY <1>3 DEF Submit
  <2>2. \A c \in Commands : Queued(c)' <=> c = command
    BY <2>1 DEF Queued
  <2>3. \A c \in Commands : accepted'[c] = accepted[c] + (IF c = command THEN 1 ELSE 0)
    BY <1>1, <2>1 DEF Types
  <2>4. ASSUME NEW c \in Commands PROVE (written[c] + Owed(c))' <= (accepted[c] + Extra(c))'
    <3>1. ~Queued(c)
      BY <2>1 DEF Queued
    <3>2. Owed(c)' = Owed(c) + (IF c = command THEN 1 ELSE 0) /\ Extra(c)' = Extra(c)
      BY <2>1, <2>2, <3>1 DEF Owed, Extra
    <3>3. written[c] + Owed(c) <= accepted[c] + Extra(c)
      BY <1>1 DEF Counted
    <3>4. QED BY <1>2, <2>1, <2>3, <3>2, <3>3
  <2>5. accepted'["start"] >= accepted["start"] /\ accepted["start"] \in Nat
        /\ (Queued("start")' => accepted'["start"] > 0)
    BY <1>2, <2>2, <2>3 DEF Commands
  <2>6. Asked'
    BY <1>1, <2>1, <2>5 DEF Asked, Executing
  <2>7. QED BY <2>4, <2>6 DEF Counted
<1>4. ASSUME StopBegins \/ StopReturns \/ StopTimesOut PROVE Counted' /\ Asked'
  <2>1. /\ UNCHANGED <<exec, queue, written, accepted>> /\ (pc' = pc \/ pc' = "aborted")
        /\ mag'.owned = mag.owned
    <3>1. CASE StopTimesOut
      BY <1>1, <3>1, FinishSays DEF StopTimesOut, Types
    <3>2. CASE StopBegins \/ StopReturns
      BY <3>2 DEF StopBegins, StopReturns
    <3>3. QED BY <1>4, <3>1, <3>2
  <2>2. \A c \in Commands : Owed(c)' <= Owed(c) /\ Extra(c)' >= Extra(c)
    BY <2>1 DEF Owed, Extra, Queued, Before
  <2>3. Counted'
    BY <1>1, <2>1, <2>2, CountKept
  <2>4. Asked'
    BY <1>1, <2>1 DEF Asked, Queued, Executing
  <2>5. QED BY <2>3, <2>4
<1>5. QED BY <1>3, <1>4 DEF Caller

LEMMA MonitorCounts == ASSUME CountInv, Monitor PROVE Counted' /\ Asked'
<1> USE DEF hostVars, callerVars, link, world, workerKeeps
<1>1. Types /\ Types' /\ TypeOK /\ Cleaning /\ Counted /\ Asked /\ mag \in MagType
  <2>1. Types /\ Cleaning /\ Counted /\ Asked
    BY DEF CountInv
  <2>2. QED BY <2>1, MonitorTypes, TypesSay
<1>2. UNCHANGED <<exec, queue, written, accepted>>
  BY DEF Monitor, Open, SensorType, Hear, FirstCalsw, Polled, Poll, Retry, TimesOut, IoFails,
         CancelNoticed
<1>3. pc' = pc \/ pc' \notin Before \cup Executing \cup {"leave"}
        \/ (pc' = "leave" /\ ~exec.cleaning)
  BY DEF Monitor, Open, SensorType, Hear, FirstCalsw, Polled, Poll, Retry, TimesOut, IoFails,
         CancelNoticed, Fail, Before, Executing
<1>4. mag'.owned => mag.owned
  <2>1. CASE Hear
    BY <1>1, <2>1, HearSays
  <2>2. CASE FirstCalsw \/ Polled
    <3>1. PICK k \in Batches, i \in Batches, here \in {"first", "firstmag", "pollmag", "pollcalsw"} :
            /\ Heard(here, k, i)
            /\ mag' = Observed(k) \/ \E p \in Phases : mag' = [Observed(k) EXCEPT !.phase = p]
      BY <2>2 DEF FirstCalsw, Polled, Phases
    <3>2. Observed(k) \in MagType /\ (Observed(k).owned => mag.owned)
      BY <1>1, <3>1, HeardSays
    <3>3. QED BY <3>1, <3>2 DEF MagType
  <2>3. CASE Open
    <3>1. mag' = mag \/ mag' = Finish(mag, failure' = "Error")
      BY <2>3 DEF Open
    <3>2. Finish(mag, failure' = "Error").owned = mag.owned
      BY <1>1, FinishSays, Zenon
    <3>3. QED BY <3>1, <3>2
  <2>4. CASE ~(Hear \/ FirstCalsw \/ Polled \/ Open)
    BY <2>4 DEF Monitor, SensorType, Poll, Retry, TimesOut, IoFails, CancelNoticed
  <2>5. QED BY <2>1, <2>2, <2>3, <2>4
<1>5. \A c \in Commands : Owed(c)' <= Owed(c) /\ Extra(c)' >= Extra(c)
  BY <1>2, <1>3 DEF Owed, Extra, Queued, Before
<1>6. Counted'
  BY <1>1, <1>2, <1>5, CountKept
<1>7. Asked'
  BY <1>1, <1>2, <1>3, <1>4 DEF Asked, Queued, Executing, Before
<1>8. QED BY <1>6, <1>7

LEMMA ExecuteCounts == ASSUME CountInv, Execute PROVE Counted' /\ Asked'
<1> USE DEF hostVars, callerVars, link, world, workerKeeps
<1>1. Types /\ Types' /\ TypeOK /\ Cleaning /\ Counted /\ Asked /\ mag \in MagType
      /\ exec.command \in Commands
  <2>1. Types /\ Cleaning /\ Counted /\ Asked
    BY DEF CountInv
  <2>2. QED BY <2>1, ExecuteTypes, TypesSay
<1>2. CASE Begin
  <2>1. /\ pc = "idle" /\ queue # <<>> /\ queue' = <<>> /\ pc' = "pre"
        /\ UNCHANGED <<mag, written, accepted>>
        /\ exec'.command = Head(queue) /\ ~exec'.cleaning /\ ~exec.cleaning
    BY <1>1, <1>2 DEF Begin, Cleaning
  <2>2. \A c \in Commands : (Queued(c) <=> Head(queue) = c) /\ ~Queued(c)'
    BY <2>1 DEF Queued
  <2>3. ASSUME NEW c \in Commands PROVE Owed(c)' = Owed(c) /\ Extra(c)' = Extra(c)
    <3>1. Owed(c)' = (IF Head(queue) = c THEN 1 ELSE 0)
      BY <2>1, <2>2 DEF Owed, Before
    <3>2. Owed(c) = (IF Head(queue) = c THEN 1 ELSE 0)
      <4>1. pc \notin Before
        BY <2>1 DEF Before
      <4>2. Owed(c) = (IF Queued(c) THEN 1 ELSE 0)
        BY <4>1 DEF Owed
      <4>3. QED BY <2>2, <4>2
    <3>3. QED BY <2>1, <3>1, <3>2 DEF Extra
  <2>4. \A c \in Commands : Owed(c) \in Nat /\ Extra(c) \in Nat
    BY DEF Owed, Extra
  <2>5. Counted'
    BY <1>1, <2>1, <2>3, <2>4, CountKept
  <2>6. Asked'
    <3>1. exec'.command = "start" => accepted["start"] > 0
      BY <1>1, <2>1 DEF Asked, Queued
    <3>2. QED BY <1>1, <2>1, <3>1 DEF Asked, Queued
  <2>7. QED BY <2>5, <2>6
<1>3. ASSUME Refused \/ Verified \/ Checked \/ PathProven PROVE Counted' /\ Asked'
  <2>1. /\ UNCHANGED <<queue, written, accepted>>
        /\ exec'.command = exec.command /\ exec'.cleaning = exec.cleaning
    BY <1>1, <1>3 DEF Refused, Verified, Checked, PathProven, Types, ExecType
  <2>2. /\ pc \in {"pre", "premag", "verify"}
        /\ pc' \in {"finish", "idle"} \/ (pc' \in {"premag", "unlock"} /\ pc # "verify")
        /\ pc' = "premag" => exec.command = "start"
    BY <1>3 DEF Refused, Verified, Checked, PathProven, Heard
  <2>3. mag'.owned => mag.owned
    <3>1. PICK k \in Batches, i \in Batches, here \in {"pre", "premag", "verify"} :
            /\ Heard(here, k, i)
            /\ \/ mag' = Observed(k)
               \/ \E p \in Phases : mag' = [Observed(k) EXCEPT !.phase = p]
               \/ mag' = [Observed(k) EXCEPT !.phase = "Calibrating", !.frozen = FALSE]
               \/ mag' = [Observed(k) EXCEPT !.phase = "Calibrated", !.frozen = TRUE,
                                             !.owned = FALSE]
      BY <1>3 DEF Refused, Verified, Checked, PathProven, Phases
    <3>2. Observed(k) \in MagType /\ (Observed(k).owned => mag.owned)
      BY <1>1, <3>1, HeardSays
    <3>3. QED BY <3>1, <3>2 DEF MagType
  <2>4. \A c \in Commands : Owed(c)' <= Owed(c) /\ Extra(c)' >= Extra(c)
    BY <2>1, <2>2 DEF Owed, Extra, Queued, Before
  <2>5. Counted'
    BY <1>1, <2>1, <2>4, CountKept
  <2>6. Asked'
    BY <1>1, <2>1, <2>2, <2>3 DEF Asked, Queued, Executing
  <2>7. QED BY <2>5, <2>6
<1>4. ASSUME Unlocked \/ Settled PROVE Counted' /\ Asked'
  <2>1. /\ UNCHANGED <<exec, queue, written, accepted>>
        /\ (pc = "unlock" /\ pc' = "write") \/ (pc = "settle" /\ pc' = "verify")
        /\ mag'.owned => mag.owned \/ exec.command = "start"
    BY <1>1, <1>4 DEF Unlocked, Settled, MagType
  <2>2. \A c \in Commands : Owed(c)' <= Owed(c) /\ Extra(c)' >= Extra(c)
    BY <2>1 DEF Owed, Extra, Queued, Before
  <2>3. Counted'
    BY <1>1, <2>1, <2>2, CountKept
  <2>4. exec.command = "start" => accepted["start"] > 0
    BY <1>1, <2>1 DEF Asked, Executing
  <2>5. Asked'
    BY <1>1, <2>1, <2>4 DEF Asked, Queued, Executing
  <2>6. QED BY <2>3, <2>5
<1>5. ASSUME Write \/ WriteFails PROVE Counted' /\ Asked'
  <2>1. /\ UNCHANGED <<exec, queue, accepted>> /\ pc = "write"
        /\ written' = written \/ written' = [written EXCEPT ![exec.command] = @ + 1]
        /\ pc' \in {"idle", "settle", "finish"} \/ (pc' = "leave" /\ ~exec.cleaning)
    BY <1>5 DEF Write, WriteFails, Fail
  <2>2. mag'.owned = mag.owned
    BY <1>1, <1>5 DEF Write, WriteFails, MagType
  <2>3. Counted'
    BY <1>1, <2>1, CountWritten DEF Before
  <2>4. Asked'
    BY <1>1, <2>1, <2>2 DEF Asked, Queued, Executing
  <2>5. QED BY <2>3, <2>4
<1>6. QED BY <1>2, <1>3, <1>4, <1>5 DEF Execute

LEMMA EndingCounts == ASSUME CountInv, Ending PROVE Counted' /\ Asked'
<1> USE DEF hostVars, callerVars, link, world, workerKeeps
<1>1. Types /\ Types' /\ Cleaning /\ Counted /\ Asked /\ mag \in MagType
      /\ failure \in {"None", "Cancelled", "Error"}
  <2>1. Types /\ Cleaning /\ Counted /\ Asked
    BY DEF CountInv
  <2>2. QED BY <2>1, EndingTypes, TypesSay
<1>2. CASE Leave /\ mag.owned
  <2>1. /\ pc = "leave" /\ pc' = "pre" /\ UNCHANGED <<queue, written, accepted>>
        /\ ~exec.cleaning /\ exec'.cleaning /\ exec'.command = "stop"
    BY <1>1, <1>2 DEF Leave, Asked
  <2>2. accepted["start"] > 0
    BY <1>1, <1>2 DEF Asked
  <2>3. ASSUME NEW c \in Commands PROVE (written[c] + Owed(c))' <= (accepted[c] + Extra(c))'
    <3>1. Owed(c)' = Owed(c) + (IF c = "stop" THEN 1 ELSE 0)
      BY <2>1 DEF Owed, Queued, Before
    <3>2. Extra(c)' = Extra(c) + (IF c = "stop" THEN 1 ELSE 0)
      BY <2>1 DEF Extra
    <3>3. written[c] + Owed(c) <= accepted[c] + Extra(c)
      BY <1>1 DEF Counted
    <3>4. written[c] \in Nat /\ accepted[c] \in Nat /\ Owed(c) \in Nat /\ Extra(c) \in Nat
      BY <1>1, CountersAre, OwedIs
    <3>5. CASE c = "stop"
      <4>1. Owed(c)' = Owed(c) + 1 /\ Extra(c)' = Extra(c) + 1
        BY <3>1, <3>2, <3>5
      <4>2. QED BY <2>1, <3>3, <3>4, <4>1
    <3>6. CASE c # "stop"
      <4>1. Owed(c)' = Owed(c) /\ Extra(c)' = Extra(c)
        BY <3>1, <3>2, <3>4, <3>6
      <4>2. QED BY <2>1, <3>3, <4>1
    <3>7. QED BY <3>5, <3>6
  <2>4. Asked'
    BY <1>1, <2>1, <2>2 DEF Asked, Queued
  <2>5. QED BY <2>3, <2>4 DEF Counted
<1>3. ASSUME (Leave /\ ~mag.owned) \/ FinishSession \/ Close \/ Epilogue PROVE Counted' /\ Asked'
  <2>1. /\ UNCHANGED <<exec, written, accepted>> /\ (queue' = queue \/ queue' = <<>>)
        /\ pc' \in {"finish", "close", "ended", "finished"}
    BY <1>3 DEF Leave, FinishSession, Close, Epilogue
  <2>2. mag'.owned = mag.owned
    <3>1. mag' \in {mag, [mag EXCEPT !.running = FALSE], Finish(mag, failure = "Error"), Finish(mag, TRUE)}
      BY <1>3 DEF Leave, FinishSession, Close, Epilogue
    <3>2. Finish(mag, failure = "Error").owned = mag.owned
      BY <1>1, FinishSays, Zenon
    <3>3. Finish(mag, TRUE).owned = mag.owned
      BY <1>1, FinishSays
    <3>4. [mag EXCEPT !.running = FALSE].owned = mag.owned
      BY <1>1 DEF MagType
    <3>5. QED BY <3>1, <3>2, <3>3, <3>4
  <2>3. \A c \in Commands : Owed(c)' <= Owed(c) /\ Extra(c)' >= Extra(c)
    BY <2>1 DEF Owed, Extra, Queued, Before
  <2>4. Counted'
    BY <1>1, <2>1, <2>3, CountKept
  <2>5. Asked'
    BY <1>1, <2>1, <2>2 DEF Asked, Queued, Executing
  <2>6. QED BY <2>4, <2>5
<1>4. QED BY <1>2, <1>3 DEF Ending

LEMMA StepCounts == ASSUME LinkInv /\ CountInv, [Next]_vars PROVE (LinkInv /\ CountInv)'
<1>1. Types /\ CountInv /\ LinkInv'
  BY StepLink DEF CountInv
<1>2. Types' /\ Cleaning'
  BY <1>1 DEF LinkInv
<1>3. CASE Device \/ UNCHANGED vars
  <2>1. UNCHANGED <<mag, pc, exec, queue, written, accepted>>
    BY <1>3 DEF Device, Serve, LoseRequest, LoseReply, OtherProgram, deviceKeeps, vars, hostVars,
         callerVars
  <2>2. Counted' /\ Asked'
    BY <1>1, <2>1 DEF CountInv, Counted, Owed, Extra, Queued, Asked
  <2>3. QED BY <1>1, <1>2, <2>2 DEF CountInv
<1>4. CASE Next /\ ~Device
  <2>1. Counted' /\ Asked'
    BY <1>1, <1>4, CallerCounts, MonitorCounts, ExecuteCounts, EndingCounts DEF Next
  <2>2. QED BY <1>1, <1>2, <2>1 DEF CountInv
<1>5. QED BY <1>3, <1>4

LEMMA InitCounts == Init => LinkInv /\ CountInv
<1> SUFFICES ASSUME Init PROVE LinkInv /\ CountInv
  OBVIOUS
<1>1. LinkInv /\ Types /\ Cleaning
  BY InitLink DEF LinkInv
<1>2. /\ queue = <<>> /\ pc = "open" /\ ~exec.cleaning /\ ~mag.owned
      /\ \A c \in Commands : written[c] = 0 /\ accepted[c] = 0
  BY DEF Init
<1>3. Counted /\ Asked
  BY <1>2 DEF Counted, Owed, Extra, Queued, Before, Asked, Executing
<1>4. QED BY <1>1, <1>3 DEF CountInv

\* No command is written that was not asked for, whatever is repeated, lost or
\* late: a start or a save at most once for each that was accepted, a stop
\* once more only if a start was accepted (read_register repeats reads, never
\* writes, and cleanup issues one stop of its own).
THEOREM SessionWritesWereAsked == Spec => []WritesWereAsked
<1>1. Init => LinkInv /\ CountInv
  BY InitCounts
<1>2. (LinkInv /\ CountInv) /\ [Next]_vars => (LinkInv /\ CountInv)'
  BY StepCounts
<1>3. LinkInv /\ CountInv => WritesWereAsked
  <2> SUFFICES ASSUME CountInv PROVE WritesWereAsked
    OBVIOUS
  <2>1. \A c \in Commands : /\ written[c] + Owed(c) <= accepted[c] + Extra(c)
                            /\ written[c] \in Nat /\ accepted[c] \in Nat /\ Owed(c) \in Nat
    BY ConstantsAssumption DEF CountInv, Counted, Types, Owed
  <2>2. \A c \in {"start", "save"} : c \in Commands /\ Extra(c) = 0
    BY DEF Commands, Extra
  <2>3. \A c \in {"start", "save"} : written[c] <= accepted[c]
    BY <2>1, <2>2
  <2>4. Extra("stop") <= (IF accepted["start"] > 0 THEN 1 ELSE 0) /\ Extra("stop") \in Nat
    BY DEF CountInv, Asked, Extra
  <2>5. written["stop"] <= accepted["stop"] + (IF accepted["start"] > 0 THEN 1 ELSE 0)
    BY <2>1, <2>4 DEF Commands
  <2>6. QED BY <2>3, <2>5 DEF WritesWereAsked
<1>4. QED
  BY <1>1, <1>2, <1>3, PTL DEF Spec

-----------------------------------------------------------------------------
(***************************************************************************)
(* The operation.                                                          *)
(***************************************************************************)

\* A command is queued or executed, never one behind another.
OneAtATime == queue # <<>> => pc \notin Executing \/ exec.cleaning

OpInv == LinkInv /\ OperationIsTheCommand /\ OneAtATime

\* A step leaves what has ended, or submits the next command.
Kept ==
  op.outcome \notin {"None", "Running"} =>
    op' = op \/ (op'.outcome = "Running" /\ queue' # <<>>)

\* A step that executes nothing and leaves the queue and the operation.
LEMMA OpAlone ==
  ASSUME OperationIsTheCommand, OneAtATime, UNCHANGED <<op, queue>>,
         \/ pc' \notin Executing
         \/ pc \in Executing /\ exec'.command = exec.command /\ exec'.cleaning = exec.cleaning
         \/ exec'.cleaning
  PROVE  OperationIsTheCommand' /\ OneAtATime' /\ Kept
<1>1. OperationIsTheCommand'
  BY DEF OperationIsTheCommand
<1>2. OneAtATime'
  BY DEF OneAtATime
<1>3. QED BY <1>1, <1>2 DEF Kept

\* One that ends what was executed: nothing is queued, nothing is executed.
LEMMA OpEnds ==
  ASSUME OperationIsTheCommand, OneAtATime, UNCHANGED queue, pc \in Executing, ~exec.cleaning,
         pc' \notin Executing
  PROVE  OperationIsTheCommand' /\ OneAtATime' /\ Kept
<1>1. queue' = <<>>
  BY DEF OneAtATime
<1>2. op.outcome = "Running"
  BY DEF OperationIsTheCommand
<1>3. QED BY <1>1, <1>2 DEF OperationIsTheCommand, OneAtATime, Kept

LEMMA CallerOp == ASSUME OpInv, Caller PROVE OperationIsTheCommand' /\ OneAtATime' /\ Kept
<1> USE DEF hostVars, link, world
<1>1. OperationIsTheCommand /\ OneAtATime
  BY DEF OpInv
<1>2. ASSUME NEW c \in Commands, Submit(c) PROVE OperationIsTheCommand' /\ OneAtATime' /\ Kept
  <2>1. /\ queue' = <<c>> /\ op' = [command |-> c, outcome |-> "Running"] /\ UNCHANGED <<pc, exec>>
        /\ op.outcome # "Running"
    BY <1>2 DEF Submit
  <2>2. pc \notin Executing \/ exec.cleaning
    BY <1>1, <2>1 DEF OperationIsTheCommand
  <2>3. Head(queue') = c /\ queue' # <<>>
    BY <2>1
  <2>4. OperationIsTheCommand'
    BY <2>1, <2>2, <2>3 DEF OperationIsTheCommand
  <2>5. QED BY <2>1, <2>2, <2>3, <2>4 DEF OneAtATime, Kept
<1>3. ASSUME StopBegins \/ StopReturns \/ StopTimesOut
      PROVE  OperationIsTheCommand' /\ OneAtATime' /\ Kept
  <2>1. UNCHANGED <<op, queue, exec>> /\ (pc' = pc \/ pc' \notin Executing)
    BY <1>3 DEF StopBegins, StopReturns, StopTimesOut, Executing
  <2>2. QED BY <1>1, <2>1, OpAlone
<1>4. QED BY <1>2, <1>3 DEF Caller

LEMMA FailOp ==
  ASSUME OpInv, NEW kind \in {"Cancelled", "Error"}, Fail(kind), UNCHANGED <<queue, exec>>
  PROVE  OperationIsTheCommand' /\ OneAtATime' /\ Kept
<1>1. OperationIsTheCommand /\ OneAtATime
  BY DEF OpInv
<1>2. pc' \notin Executing
  BY DEF Fail, Executing
<1>3. CASE pc \in Executing /\ ~exec.cleaning
  BY <1>1, <1>2, <1>3, OpEnds
<1>4. CASE ~(pc \in Executing /\ ~exec.cleaning)
  <2>1. UNCHANGED op
    BY <1>4 DEF Fail
  <2>2. QED BY <1>1, <1>2, <2>1, OpAlone
<1>5. QED BY <1>3, <1>4

LEMMA WorkerOp ==
  ASSUME OpInv, Monitor \/ Execute \/ Ending
  PROVE  OperationIsTheCommand' /\ OneAtATime' /\ Kept
<1> USE DEF hostVars, callerVars, link, world, workerKeeps
<1>1. OperationIsTheCommand /\ OneAtATime /\ Cleaning /\ exec \in ExecType /\ exec.cleaning \in BOOLEAN
  BY DEF OpInv, LinkInv, Types, ExecType
<1>2. ASSUME TimesOut \/ IoFails \/ CancelNoticed \/ WriteFails
      PROVE  OperationIsTheCommand' /\ OneAtATime' /\ Kept
  <2>1. PICK kind \in {"Cancelled", "Error"} : Fail(kind)
    BY <1>2 DEF TimesOut, IoFails, CancelNoticed, WriteFails
  <2>2. UNCHANGED <<queue, exec>>
    BY <1>2 DEF TimesOut, IoFails, CancelNoticed, WriteFails
  <2>3. QED BY <2>1, <2>2, FailOp
<1>3. ASSUME Open \/ SensorType \/ Hear \/ FirstCalsw \/ Polled \/ Poll \/ Retry
      PROVE  OperationIsTheCommand' /\ OneAtATime' /\ Kept
  <2>1. UNCHANGED <<op, queue, exec>> /\ (pc' = pc \/ pc' \notin Executing)
    BY <1>3 DEF Open, SensorType, Hear, FirstCalsw, Polled, Poll, Retry, Executing
  <2>2. QED BY <1>1, <2>1, OpAlone
<1>4. CASE Begin
  <2>1. /\ queue # <<>> /\ queue' = <<>> /\ UNCHANGED op /\ ~exec'.cleaning
        /\ exec'.command = Head(queue)
    BY <1>4 DEF Begin
  <2>2. op = [command |-> Head(queue), outcome |-> "Running"]
    BY <1>1, <2>1 DEF OperationIsTheCommand
  <2>3. QED BY <2>1, <2>2 DEF OperationIsTheCommand, OneAtATime, Kept
<1>5. ASSUME Refused \/ Verified PROVE OperationIsTheCommand' /\ OneAtATime' /\ Kept
  <2>1. /\ UNCHANGED <<queue, exec>> /\ pc \in Executing /\ pc' \notin Executing
        /\ exec.cleaning => UNCHANGED op
    BY <1>5 DEF Refused, Verified, Heard, Executing
  <2>2. CASE exec.cleaning
    BY <1>1, <2>1, <2>2, OpAlone
  <2>3. CASE ~exec.cleaning
    BY <1>1, <2>1, <2>3, OpEnds
  <2>4. QED BY <2>2, <2>3
<1>6. ASSUME Checked \/ PathProven \/ Unlocked \/ Settled
      PROVE  OperationIsTheCommand' /\ OneAtATime' /\ Kept
  <2>1. /\ UNCHANGED <<op, queue>> /\ pc \in Executing
        /\ exec'.command = exec.command /\ exec'.cleaning = exec.cleaning
    BY <1>1, <1>6 DEF Checked, PathProven, Unlocked, Settled, Heard, Executing, ExecType
  <2>2. QED BY <1>1, <2>1, OpAlone
<1>7. CASE Write /\ exec.command # "save"
  <2>1. /\ UNCHANGED <<op, queue, exec>> /\ pc \in Executing
    BY <1>7 DEF Write, Executing
  <2>2. QED BY <1>1, <2>1, OpAlone
<1>8. CASE Write /\ exec.command = "save"
  <2>1. UNCHANGED <<queue, exec>> /\ pc \in Executing /\ pc' \notin Executing /\ ~exec.cleaning
    BY <1>1, <1>8 DEF Write, Executing, Cleaning
  <2>2. QED BY <1>1, <2>1, OpEnds
<1>9. CASE Leave \/ FinishSession \/ Close
  <2>1. UNCHANGED <<op, queue>>
    BY <1>9 DEF Leave, FinishSession, Close
  <2>2. CASE Leave /\ mag.owned
    <3>1. exec'.cleaning
      BY <2>2 DEF Leave
    <3>2. QED BY <1>1, <2>1, <3>1, OpAlone
  <2>3. CASE ~(Leave /\ mag.owned)
    <3>1. pc' \notin Executing
      BY <1>9, <2>3 DEF Leave, FinishSession, Close, Executing
    <3>2. QED BY <1>1, <2>1, <3>1, OpAlone
  <2>4. QED BY <2>2, <2>3
<1>10. CASE Epilogue
  <2>1. queue' = <<>> /\ pc' \notin Executing /\ (op.outcome # "Running" => op' = op)
    BY <1>10 DEF Epilogue, Executing
  <2>2. QED BY <2>1 DEF OperationIsTheCommand, OneAtATime, Kept
<1>11. QED
  BY <1>2, <1>3, <1>4, <1>5, <1>6, <1>7, <1>8, <1>9, <1>10 DEF Monitor, Execute, Ending

LEMMA StepOp == ASSUME OpInv, [Next]_vars PROVE OpInv' /\ Kept
<1>1. LinkInv'
  BY StepLink DEF OpInv
<1>2. CASE Device \/ UNCHANGED vars
  <2>1. UNCHANGED <<op, queue, exec, pc>>
    BY <1>2 DEF Device, Serve, LoseRequest, LoseReply, OtherProgram, deviceKeeps, vars, hostVars
  <2>2. QED BY <1>1, <2>1, OpAlone DEF OpInv
<1>3. CASE Next /\ ~Device
  BY <1>1, <1>3, CallerOp, WorkerOp DEF Next, OpInv
<1>4. QED BY <1>2, <1>3

LEMMA InitOp == Init => OpInv
<1> SUFFICES ASSUME Init PROVE OpInv
  OBVIOUS
<1>1. LinkInv
  BY InitLink
<1>2. queue = <<>> /\ pc \notin Executing
  BY DEF Init, Executing
<1>3. QED BY <1>1, <1>2 DEF OpInv, OperationIsTheCommand, OneAtATime

\* The operation a query reports is the command queued or executed, and it
\* runs: no result is credited to another command (configure_device inside the
\* session, execute, and the operation it updates).
THEOREM SessionOperationIsTheCommand == Spec => []OperationIsTheCommand
<1>1. Init => OpInv
  BY InitOp
<1>2. OpInv /\ [Next]_vars => OpInv'
  BY StepOp
<1>3. OpInv => OperationIsTheCommand
  BY DEF OpInv
<1>4. QED
  BY <1>1, <1>2, <1>3, PTL DEF Spec

\* An operation that has ended keeps its outcome until the next is accepted:
\* the failing reads, the cleanup and the epilogue of launch do not rewrite it.
THEOREM SessionEndedStaysEnded == Spec => EndedStaysEnded
<1>1. Init => OpInv
  BY InitOp
<1>2. OpInv /\ [Next]_vars => OpInv'
  BY StepOp
<1>3. OpInv /\ [Next]_vars =>
        [op.outcome \notin {"None", "Running"} =>
           op' = op \/ (op'.outcome = "Running" /\ queue' # <<>>)]_vars
  BY StepOp DEF Kept
<1>4. QED
  BY <1>1, <1>2, <1>3, PTL DEF Spec, EndedStaysEnded

-----------------------------------------------------------------------------
(***************************************************************************)
(* Sweeps: readings in a row, and what taking one makes of the sweeps.     *)
(***************************************************************************)

\* The phases a reading is taken in.
Measuring == {"Monitoring", "ExternalCalibration", "Calibrating", "Calibrated"}
Taking == [phase : Measuring, starts : Nat, foreign : Nat]

\* Reading x is the one after reading p.
After(p, x) ==
  /\ x.foreign = IF p.phase = "ExternalCalibration" THEN p.foreign + 1 ELSE p.foreign
  /\ \/ x.starts = p.starts
     \/ /\ x.starts = p.starts + 1 /\ x.phase = "Calibrating"
        /\ p.phase \in {"Monitoring", "Calibrated"}
  /\ p.phase \in {"Calibrating", "Calibrated"} => x.phase # "Monitoring"

\* What the sweeps have in common with the next reading x.
Sorted(r, x) ==
  /\ \A s \in SweepNames : \A q \in r.sweeps[s] : q.foreign = x.foreign
  /\ r.last = "none" => \A s \in SweepNames : r.sweeps[s] = {}
  /\ r.last = "before" =>
       /\ r.sweeps["during"] = {} /\ r.sweeps["after"] = {}
       /\ \A q \in r.sweeps["before"] :
            x.starts = q.starts \/ (x.starts = q.starts + 1 /\ x.phase = "Calibrating")
  /\ r.last = "during" =>
       /\ r.sweeps["after"] = {} /\ x.phase # "Monitoring"
       /\ \A q \in r.sweeps["during"] : q.starts = x.starts
       /\ \A q \in r.sweeps["before"] : x.starts \in {q.starts, q.starts + 1}
  /\ r.last = "after" =>
       /\ x.phase # "Monitoring"
       /\ \A q, p \in r.sweeps["during"] : q.starts = p.starts
       /\ \E a \in Nat :
            /\ x.starts = a \/ (x.starts = a + 1 /\ x.phase = "Calibrating")
            /\ \A q \in r.sweeps["after"] : q.starts = a
            /\ \A q \in r.sweeps["before"] : a \in {q.starts, q.starts + 1}

\* What the sweeps have in common with each other.
Consistent(r) ==
  /\ \A s, t \in SweepNames : \A q \in r.sweeps[s], p \in r.sweeps[t] : q.foreign = p.foreign
  /\ \A q, p \in r.sweeps["during"] : q.starts = p.starts
  /\ \A q \in r.sweeps["before"], p \in r.sweeps["after"] : p.starts \in {q.starts, q.starts + 1}

SweepSets == [SweepNames -> SUBSET Taking]
LastSweeps == SweepNames \cup {"none"}
Runs == [cursor : Nat, sweeps : SweepSets, last : LastSweeps, overrun : Nat, verified : BOOLEAN]

\* Sweeps that are cleared.
LEMMA ClearedIs ==
  ASSUME NEW r \in Runs
  PROVE  /\ Cleared(r) \in Runs /\ Cleared(r).cursor = r.cursor
         /\ Cleared(r).overrun = r.overrun /\ Cleared(r).verified = r.verified
         /\ Cleared(r).last = "none" /\ \A s \in SweepNames : Cleared(r).sweeps[s] = {}
<1> DEFINE w == [s \in SweepNames |-> {}]
           c == Cleared(r)
<1>1. w \in SweepSets /\ \A s \in SweepNames : w[s] = {}
  BY DEF SweepSets
<1>2. "none" \in LastSweeps
  BY DEF LastSweeps
<1>3. c = [r EXCEPT !.sweeps = w, !.last = "none"]
  BY DEF Cleared
<1> HIDE DEF w, c
<1>4. /\ c \in Runs /\ c.cursor = r.cursor /\ c.overrun = r.overrun
      /\ c.verified = r.verified /\ c.last = "none" /\ c.sweeps = w
  BY <1>1, <1>2, <1>3 DEF Runs
<1>5. /\ c \in Runs /\ c.cursor = r.cursor /\ c.overrun = r.overrun
      /\ c.verified = r.verified /\ c.last = "none" /\ \A s \in SweepNames : c.sweeps[s] = {}
  BY <1>1, <1>4
<1> QED BY <1>5 DEF c

\* Sweeps that are moved on as a calibration begins again.
LEMMA ShiftedIs ==
  ASSUME NEW r \in Runs
  PROVE  /\ Shifted(r) \in Runs /\ Shifted(r).cursor = r.cursor
         /\ Shifted(r).overrun = r.overrun /\ Shifted(r).verified = r.verified
         /\ Shifted(r).last = r.last
         /\ Shifted(r).sweeps["before"] = r.sweeps["after"]
         /\ Shifted(r).sweeps["during"] = {} /\ Shifted(r).sweeps["after"] = {}
<1> DEFINE w == [before |-> r.sweeps["after"], during |-> {}, after |-> {}]
<1>1. w \in SweepSets
  <2>1. r.sweeps["after"] \in SUBSET Taking
    BY DEF Runs, SweepSets, SweepNames
  <2> QED BY <2>1 DEF SweepSets, SweepNames
<1>2. w["before"] = r.sweeps["after"] /\ w["during"] = {} /\ w["after"] = {}
  OBVIOUS
<1>3. Shifted(r) = [r EXCEPT !.sweeps = w]
  BY DEF Shifted
<1> HIDE DEF w
<1> QED BY <1>1, <1>2, <1>3 DEF Runs

\* A reading put into its sweep.
LEMMA BinnedIs ==
  ASSUME NEW r \in Runs, NEW sweep \in SweepNames, NEW p \in Taking
  PROVE  /\ Binned(r, sweep, p) \in Runs /\ Binned(r, sweep, p).cursor = r.cursor
         /\ Binned(r, sweep, p).overrun = r.overrun /\ Binned(r, sweep, p).verified = r.verified
         /\ Binned(r, sweep, p).last = sweep
         /\ Binned(r, sweep, p).sweeps[sweep] = r.sweeps[sweep] \cup {p}
         /\ \A s \in SweepNames \ {sweep} : Binned(r, sweep, p).sweeps[s] = r.sweeps[s]
<1> DEFINE w == [r.sweeps EXCEPT ![sweep] = @ \cup {p}]
<1>1. /\ w \in SweepSets /\ w[sweep] = r.sweeps[sweep] \cup {p}
      /\ \A s \in SweepNames \ {sweep} : w[s] = r.sweeps[s]
  <2>1. r.sweeps \in SweepSets
    BY DEF Runs
  <2> QED BY <2>1 DEF SweepSets
<1>2. Binned(r, sweep, p) = [r EXCEPT !.sweeps = w, !.last = sweep]
  BY DEF Binned, Runs
<1>3. sweep \in LastSweeps
  BY DEF LastSweeps
<1> DEFINE c == Binned(r, sweep, p)
<1>4. c = [r EXCEPT !.sweeps = w, !.last = sweep]
  BY <1>2
<1> HIDE DEF w, c
<1>5. /\ c \in Runs /\ c.cursor = r.cursor /\ c.overrun = r.overrun
      /\ c.verified = r.verified /\ c.last = sweep /\ c.sweeps = w
  BY <1>1, <1>3, <1>4 DEF Runs
<1>6. /\ c \in Runs /\ c.cursor = r.cursor /\ c.overrun = r.overrun
      /\ c.verified = r.verified /\ c.last = sweep
      /\ c.sweeps[sweep] = r.sweeps[sweep] \cup {p}
      /\ \A s \in SweepNames \ {sweep} : c.sweeps[s] = r.sweeps[s]
  BY <1>1, <1>5
<1> QED BY <1>6 DEF c

\* What taking a reading can come to.
LEMMA TakenIs ==
  ASSUME NEW r \in Runs, NEW p \in Taking
  PROVE  \/ p.phase = "ExternalCalibration" /\ Taken(r, p) = Cleared(r)
         \/ p.phase = "Monitoring" /\ Taken(r, p) = Binned(r, "before", p)
         \/ p.phase = "Calibrating" /\ r.last = "after" /\ Taken(r, p) = Binned(Shifted(r), "during", p)
         \/ p.phase = "Calibrating" /\ r.last # "after" /\ Taken(r, p) = Binned(r, "during", p)
         \/ p.phase = "Calibrated" /\ Taken(r, p) = Binned(r, "after", p)
<1>0. p.phase \in Measuring
  BY DEF Taking
<1>1. CASE p.phase = "ExternalCalibration"
  BY <1>1 DEF Taken, SweepOf
<1>2. CASE p.phase = "Monitoring"
  BY <1>2 DEF Taken, SweepOf
<1>3. CASE p.phase = "Calibrating"
  BY <1>3 DEF Taken, SweepOf
<1>4. CASE p.phase = "Calibrated"
  BY <1>4 DEF Taken, SweepOf
<1> QED BY <1>0, <1>1, <1>2, <1>3, <1>4 DEF Measuring

\* What taking a reading leaves alone.
LEMMA TakenKeeps ==
  ASSUME NEW r \in Runs, NEW p \in Taking
  PROVE  /\ Taken(r, p) \in Runs /\ Taken(r, p).cursor = r.cursor
         /\ Taken(r, p).overrun = r.overrun /\ Taken(r, p).verified = r.verified
<1>1. "before" \in SweepNames /\ "during" \in SweepNames /\ "after" \in SweepNames
  BY DEF SweepNames
<1>2. CASE Taken(r, p) = Cleared(r)
  BY <1>2, ClearedIs
<1>3. ASSUME NEW s \in SweepNames, Taken(r, p) = Binned(r, s, p)
      PROVE  /\ Taken(r, p) \in Runs /\ Taken(r, p).cursor = r.cursor
             /\ Taken(r, p).overrun = r.overrun /\ Taken(r, p).verified = r.verified
  BY <1>3, BinnedIs
<1>4. CASE Taken(r, p) = Binned(Shifted(r), "during", p)
  <2>1. /\ Shifted(r) \in Runs /\ Shifted(r).cursor = r.cursor
        /\ Shifted(r).overrun = r.overrun /\ Shifted(r).verified = r.verified
    BY ShiftedIs
  <2> DEFINE h == Shifted(r)
  <2>2. /\ Binned(h, "during", p) \in Runs /\ Binned(h, "during", p).cursor = h.cursor
        /\ Binned(h, "during", p).overrun = h.overrun
        /\ Binned(h, "during", p).verified = h.verified
    <3> HIDE DEF h
    <3>1. h \in Runs
      BY <2>1 DEF h
    <3> QED BY <1>1, <3>1, BinnedIs
  <2> QED BY <1>4, <2>1, <2>2
<1> QED BY <1>1, <1>2, <1>3, <1>4, TakenIs

\* A reading that is next is taken to where it leaves the sweeps as sorted
\* towards the one after it, and as consistent as they were.
LEMMA TakenSorts ==
  ASSUME NEW r \in Runs, NEW p \in Taking, Sorted(r, p), Consistent(r)
  PROVE  /\ Consistent(Taken(r, p))
         /\ \A x \in Taking : After(p, x) => Sorted(Taken(r, p), x)
<1>21. "before" \in SweepNames /\ "during" \in SweepNames /\ "after" \in SweepNames
      /\ \A s \in SweepNames : s \in {"before", "during", "after"}
  BY DEF SweepNames
<1>22. /\ p.starts \in Nat /\ p.foreign \in Nat /\ r.last \in LastSweeps
      /\ \A s \in SweepNames : \A q \in r.sweeps[s] : q.starts \in Nat /\ q.foreign \in Nat
  BY DEF Runs, Taking, SweepSets
<1> DEFINE n == Taken(r, p)
<1>1. CASE p.phase = "ExternalCalibration"
  <2>1. n.last = "none" /\ \A s \in SweepNames : n.sweeps[s] = {}
    BY <1>1, TakenIs, ClearedIs
  <2> HIDE DEF n
  <2>2. Consistent(n)
    BY <1>21, <2>1 DEF Consistent
  <2>3. \A x \in Taking : Sorted(n, x)
    BY <1>21, <2>1 DEF Sorted
  <2> QED BY <2>2, <2>3 DEF n
<1>2. CASE p.phase = "Monitoring"
  <2>1. /\ n.last = "before" /\ n.sweeps["before"] = r.sweeps["before"] \cup {p}
        /\ n.sweeps["during"] = r.sweeps["during"] /\ n.sweeps["after"] = r.sweeps["after"]
    BY <1>21, <1>2, TakenIs, BinnedIs
  <2>2. /\ r.sweeps["during"] = {} /\ r.sweeps["after"] = {}
        /\ \A q \in r.sweeps["before"] : q.foreign = p.foreign /\ q.starts = p.starts
    BY <1>21, <1>22, <1>2 DEF Sorted, LastSweeps, SweepNames
  <2> HIDE DEF n
  <2>3. Consistent(n)
    BY <1>21, <2>1, <2>2 DEF Consistent
  <2>4. ASSUME NEW x \in Taking, After(p, x)
        PROVE  Sorted(n, x)
    BY <1>21, <1>2, <2>1, <2>2, <2>4 DEF Sorted, After
  <2> QED BY <2>3, <2>4 DEF n
<1>3. CASE p.phase = "Calibrating" /\ r.last = "after"
  <2>1. /\ n.last = "during" /\ n.sweeps["before"] = r.sweeps["after"]
        /\ n.sweeps["during"] = {p} /\ n.sweeps["after"] = {}
    <3> DEFINE h == Shifted(r)
    <3>1. /\ h \in Runs /\ h.sweeps["before"] = r.sweeps["after"]
          /\ h.sweeps["during"] = {} /\ h.sweeps["after"] = {}
      BY ShiftedIs
    <3>2. n = Binned(h, "during", p)
      BY <1>3, TakenIs
    <3> HIDE DEF h, n
    <3>3. /\ n.last = "during" /\ n.sweeps["during"] = h.sweeps["during"] \cup {p}
          /\ \A s \in SweepNames \ {"during"} : n.sweeps[s] = h.sweeps[s]
      BY <1>21, <3>1, <3>2, BinnedIs
    <3> QED BY <1>21, <3>1, <3>3
  <2>2. \A q \in r.sweeps["after"] : q.foreign = p.foreign /\ p.starts \in {q.starts, q.starts + 1}
    BY <1>21, <1>22, <1>3 DEF Sorted
  <2> HIDE DEF n
  <2>3. Consistent(n)
    BY <1>21, <2>1, <2>2 DEF Consistent
  <2>4. ASSUME NEW x \in Taking, After(p, x)
        PROVE  Sorted(n, x)
    <3>1. x.foreign = p.foreign /\ x.starts = p.starts /\ x.phase # "Monitoring"
      BY <1>3, <2>4 DEF After
    <3> QED BY <1>21, <1>3, <2>1, <2>2, <3>1 DEF Sorted
  <2> QED BY <2>3, <2>4 DEF n
<1>4. CASE p.phase = "Calibrating" /\ r.last # "after"
  <2>1. /\ n.last = "during" /\ n.sweeps["during"] = r.sweeps["during"] \cup {p}
        /\ n.sweeps["before"] = r.sweeps["before"] /\ n.sweeps["after"] = r.sweeps["after"]
    BY <1>21, <1>4, TakenIs, BinnedIs
  <2>2. /\ r.sweeps["after"] = {}
        /\ \A q \in r.sweeps["before"] : q.foreign = p.foreign /\ p.starts \in {q.starts, q.starts + 1}
        /\ \A q \in r.sweeps["during"] : q.foreign = p.foreign /\ q.starts = p.starts
    BY <1>21, <1>22, <1>4 DEF Sorted, LastSweeps, SweepNames
  <2> HIDE DEF n
  <2>3. Consistent(n)
    BY <1>21, <2>1, <2>2 DEF Consistent
  <2>4. ASSUME NEW x \in Taking, After(p, x)
        PROVE  Sorted(n, x)
    <3>1. x.foreign = p.foreign /\ x.starts = p.starts /\ x.phase # "Monitoring"
      BY <1>4, <2>4 DEF After
    <3> QED BY <1>21, <1>4, <2>1, <2>2, <3>1 DEF Sorted
  <2> QED BY <2>3, <2>4 DEF n
<1>5. CASE p.phase = "Calibrated"
  <2>1. /\ n.last = "after" /\ n.sweeps["after"] = r.sweeps["after"] \cup {p}
        /\ n.sweeps["before"] = r.sweeps["before"] /\ n.sweeps["during"] = r.sweeps["during"]
    BY <1>21, <1>5, TakenIs, BinnedIs
  <2>2. /\ \A q \in r.sweeps["after"] : q.foreign = p.foreign /\ q.starts = p.starts
        /\ \A q \in r.sweeps["before"] : q.foreign = p.foreign /\ p.starts \in {q.starts, q.starts + 1}
        /\ \A q \in r.sweeps["during"] : q.foreign = p.foreign
        /\ \A q, d \in r.sweeps["during"] : q.starts = d.starts
    BY <1>21, <1>22, <1>5 DEF Sorted, Consistent, LastSweeps, SweepNames
  <2> HIDE DEF n
  <2>3. Consistent(n)
    BY <1>21, <2>1, <2>2 DEF Consistent
  <2>4. ASSUME NEW x \in Taking, After(p, x)
        PROVE  Sorted(n, x)
    <3>1. /\ x.foreign = p.foreign /\ x.phase # "Monitoring"
          /\ x.starts = p.starts \/ (x.starts = p.starts + 1 /\ x.phase = "Calibrating")
      BY <1>5, <2>4 DEF After
    <3>2. \A q \in n.sweeps["after"] : q.starts = p.starts
      BY <2>1, <2>2
    <3>3. \A q \in n.sweeps["before"] : p.starts \in {q.starts, q.starts + 1}
      BY <2>1, <2>2
    <3>4. \A s \in SweepNames : \A q \in n.sweeps[s] : q.foreign = x.foreign
      BY <1>21, <2>1, <2>2, <3>1
    <3>5. \A q, d \in n.sweeps["during"] : q.starts = d.starts
      BY <2>1, <2>2
    <3> QED BY <1>22, <2>1, <3>1, <3>2, <3>3, <3>4, <3>5 DEF Sorted
  <2> QED BY <2>3, <2>4 DEF n
<1> QED
  <2>1. p.phase \in Measuring
    BY DEF Taking
  <2> QED BY <1>1, <1>2, <1>3, <1>4, <1>5, <2>1 DEF Measuring


-----------------------------------------------------------------------------
(***************************************************************************)
(* Sweeps: the inductive invariant.                                        *)
(***************************************************************************)

\* The values of the variables.
Histories == Seq(Taking)
SweepPhases == Measuring \cup {"Opening", "Starting", "Stopping", "Saving", "Closed", "Failed"}
SweepSteps == {"open", "idle", "check", "prove", "write", "verify", "ended"}
Ops == [action : Actions \cup {"none"}, attempted : BOOLEAN, verified : BOOLEAN,
        outcome : {"None", "Running", "Succeeded", "Failed", "Unverified"}]
Sessions == [phase : SweepPhases, records : Histories, sequence : Nat, op : Ops,
             step : SweepSteps, previous : SweepPhases]
Truths == [starts : Nat, foreign : Nat, ended : BOOLEAN]
Shown == [phase : SweepPhases, op : Ops]

SweepsTypeOK ==
  /\ calibrating \in BOOLEAN /\ session \in Sessions /\ run \in Runs
  /\ view \in Shown /\ commands \in Nat /\ truth \in Truths

\* The last reading kept, those that were dropped, and what a history keeps.
LastReading == session.records[Len(session.records)]
Dropped == session.sequence - Len(session.records)
Retained ==
  /\ Len(session.records) <= session.sequence
  /\ session.sequence # 0 => session.records # <<>>

\* The phases of the next reading, without another start before it.
Later(phase) ==
  CASE phase = "Monitoring" -> {"Monitoring", "ExternalCalibration", "Calibrated"}
    [] phase = "ExternalCalibration" -> {"Monitoring", "ExternalCalibration", "Calibrated"}
    [] phase = "Calibrating" -> {"Calibrating", "ExternalCalibration", "Calibrated"}
    [] OTHER -> {"ExternalCalibration", "Calibrated"}

\* Nothing is compared with what was read while somebody else calibrated.
AfterForeign ==
  session.records # <<>> /\ LastReading.phase = "ExternalCalibration"
AtWrite == session.step \in {"write", "verify"}

\* The next reading there can be.
Comes(x) ==
  /\ session.step # "ended" /\ x.foreign = truth.foreign
  /\ session.step \in {"idle", "check"} =>
       /\ x.starts = truth.starts
       /\ AfterForeign \/ x.phase \in IF WasRead THEN Later(session.phase) ELSE {session.phase}
  /\ session.step = "prove" => x.starts = truth.starts /\ x.phase = session.phase
  /\ AtWrite /\ session.op.action = "mag_start" =>
       /\ x.starts = IF session.step = "write" THEN truth.starts + 1 ELSE truth.starts
       /\ x.phase = "Calibrating"
  /\ AtWrite /\ session.op.action = "mag_stop" =>
       x.starts = truth.starts /\ (AfterForeign \/ x.phase \in Later("Calibrated"))
  /\ AtWrite /\ session.op.action = "save" =>
       x.starts = truth.starts /\ (AfterForeign \/ x.phase \in Later(session.previous))

\* Where a command stands.
Stepwise ==
  /\ session.step = "open" => session.sequence = 0
  /\ session.step \in {"idle", "check", "prove"} => session.phase \in Measuring
  /\ session.step = "idle" /\ ~WasRead => calibrating
  /\ session.step = "check" => WasRead
  /\ session.step = "prove" =>
       session.op.action = "mag_start" /\ session.phase \in {"Monitoring", "Calibrated"}
  /\ session.step \in {"check", "prove", "write", "verify"} =>
       session.op.action \in Actions /\ session.records # <<>>
  /\ AtWrite /\ session.op.action = "mag_start" =>
       LastReading.phase \in {"Monitoring", "Calibrated"}
  /\ AtWrite /\ session.op.action = "save" =>
       /\ session.previous \in Measuring
       /\ session.previous \in {"ExternalCalibration", "Calibrating"} =>
            LastReading.phase = session.previous

\* The readings kept are in the order they were taken in, and the next one goes on from them.
InARow ==
  /\ \A i \in 1 .. Len(session.records) - 1 : After(session.records[i], session.records[i + 1])
  /\ session.records # <<>> => \A x \in Taking : Comes(x) => After(LastReading, x)

\* The sweeps fit the reading that is taken next, as long as none was lost.
SweepsKept ==
  /\ run.cursor <= session.sequence
  /\ run.cursor = 0 => run.last = "none" /\ \A s \in SweepNames : run.sweeps[s] = {}
  /\ run.overrun = 0 => Consistent(run)
  /\ run.overrun = 0 /\ run.cursor # 0 =>
       IF run.cursor = session.sequence THEN \A x \in Taking : Comes(x) => Sorted(run, x)
       ELSE Dropped <= run.cursor => Sorted(run, session.records[run.cursor - Dropped + 1])

\* Whether an end was verified, while the panel is behind the session.
EndKnown ==
  /\ session.step \in {"check", "prove", "write"} =>
       /\ session.op.outcome = "Running" /\ ~session.op.attempted /\ ~session.op.verified
       /\ view.op = session.op
  /\ session.step = "verify" /\ session.op.action = "mag_start" => ~truth.ended
  /\ session.op.action = "mag_stop" /\ session.op.verified => truth.ended
  /\ run.verified =>
       \/ truth.ended
       \/ /\ session.op.action = "mag_start" /\ session.op.attempted
          /\ view.op.outcome = "Running" /\ ~view.op.attempted

\* The inductive invariant.
SweepsInv == SweepsTypeOK /\ Retained /\ Stepwise /\ InARow /\ SweepsKept /\ EndKnown

-----------------------------------------------------------------------------
(***************************************************************************)
(* Sweeps: the steps that take no reading.                                 *)
(***************************************************************************)

\* A step that takes no reading keeps the order of the readings, if it allows no
\* next one that was not allowed before.
LEMMA QuietKeeps ==
  ASSUME SweepsInv, session'.records = session.records, session'.sequence = session.sequence,
         UNCHANGED run,
         session.records # <<>> => \A x \in Taking : Comes(x)' => Comes(x)
  PROVE  Retained' /\ InARow' /\ SweepsKept'
<1>1. Retained' /\ LastReading' = LastReading /\ Dropped' = Dropped
  BY DEF SweepsInv, Retained, LastReading, Dropped
<1>2. InARow'
  BY <1>1 DEF SweepsInv, InARow
<1>3. SweepsKept'
  <2>1. CASE session.records = <<>>
    <3>1. session.sequence = 0 /\ run.cursor = 0
      BY <2>1 DEF SweepsInv, Retained, SweepsKept, SweepsTypeOK, Sessions, Runs
    <3> QED BY <3>1 DEF SweepsInv, SweepsKept
  <2>2. CASE session.records # <<>>
    BY <1>1, <2>2 DEF SweepsInv, SweepsKept
  <2> QED BY <2>1, <2>2
<1> QED BY <1>1, <1>2, <1>3

\* The parts of the state, by their types.
LEMMA SessionIs ==
  ASSUME SweepsInv
  PROVE  /\ session \in Sessions /\ session.phase \in SweepPhases /\ session.records \in Histories
         /\ session.sequence \in Nat /\ session.op \in Ops /\ session.step \in SweepSteps
         /\ session.previous \in SweepPhases
         /\ calibrating \in BOOLEAN /\ run \in Runs /\ view \in Shown /\ commands \in Nat
         /\ truth \in Truths /\ truth.starts \in Nat /\ truth.foreign \in Nat /\ truth.ended \in BOOLEAN
BY DEF SweepsInv, SweepsTypeOK, Sessions, Truths

\* The phase that a look at the register leaves.
LEMMA SeenIs ==
  ASSUME NEW phase \in Measuring, NEW seven \in BOOLEAN
  PROVE  /\ Seen(phase, seven) \in Measuring
         /\ seven => Seen(phase, seven) = IF phase = "Calibrating" THEN phase ELSE "ExternalCalibration"
         /\ ~seven => Seen(phase, seven) =
              CASE phase = "ExternalCalibration" -> "Monitoring"
                [] phase = "Calibrating" -> "Calibrated" [] OTHER -> phase
BY DEF Seen, Measuring

\* The field was read in this phase, when the last reading was taken in that.
Reached(phase, last) == phase \in {"Calibrating", "ExternalCalibration"} => last = phase
NextPhases(phase, last) == IF Reached(phase, last) THEN Later(phase) ELSE {phase}

\* What a look at the register leaves for the reading that comes next.
LEMMA LookComes ==
  ASSUME NEW phase \in Measuring, NEW seven \in BOOLEAN, NEW last \in Measuring,
         ~Reached(phase, last) => seven, last # "ExternalCalibration"
  PROVE  /\ NextPhases(Seen(phase, seven), last) \subseteq NextPhases(phase, last)
         /\ ~Reached(Seen(phase, seven), last) => seven
<1>1. CASE phase = "Monitoring" BY <1>1, SeenIs DEF Later, Measuring, Reached, NextPhases
<1>2. CASE phase = "ExternalCalibration" BY <1>2, SeenIs DEF Later, Measuring, Reached, NextPhases
<1>3. CASE phase = "Calibrating" BY <1>3, SeenIs DEF Later, Measuring, Reached, NextPhases
<1>4. CASE phase = "Calibrated" BY <1>4, SeenIs DEF Later, Measuring, Reached, NextPhases
<1> QED BY <1>1, <1>2, <1>3, <1>4 DEF Measuring

\* The last reading, and whether the field was read in this phase.
LEMMA LastIs ==
  ASSUME SweepsInv, session.records # <<>>
  PROVE  /\ LastReading \in Taking /\ LastReading.phase \in Measuring
         /\ WasRead <=> Reached(session.phase, LastReading.phase)
         /\ AfterForeign <=> LastReading.phase = "ExternalCalibration"
<1>1. session.records \in Seq(Taking) /\ Len(session.records) \in 1 .. Len(session.records)
  BY SessionIs DEF Histories
<1>2. LastReading \in Taking
  BY <1>1 DEF LastReading
<1> QED BY <1>2 DEF Taking, WasRead, Reached, LastReading, AfterForeign

\* The steps of the session that take no reading.
LEMMA OpensKeeps ==
  ASSUME SweepsInv, Opens
  PROVE  SweepsInv'
<1>1. /\ session' \in Sessions /\ session'.records = session.records
      /\ session'.sequence = session.sequence /\ session'.op = session.op
      /\ session'.step = "idle"
      /\ session'.phase = IF calibrating THEN "ExternalCalibration" ELSE "Monitoring"
  BY SessionIs DEF Opens, Sessions, SweepPhases, Measuring, SweepSteps
<1>2. session.records = <<>>
  <2>1. session.sequence = 0
    BY DEF SweepsInv, Stepwise, Opens
  <2> QED BY <2>1, SessionIs DEF SweepsInv, Retained, Histories
<1>3. Retained' /\ InARow' /\ SweepsKept'
  BY <1>1, <1>2, QuietKeeps DEF Opens
<1>4. SweepsTypeOK'
  BY <1>1 DEF Opens, SweepsInv, SweepsTypeOK
<1>5. Stepwise'
  BY <1>1 DEF Opens, Stepwise, WasRead, Measuring, AtWrite
<1>6. EndKnown'
  BY <1>1 DEF Opens, SweepsInv, EndKnown
<1> QED BY <1>3, <1>4, <1>5, <1>6 DEF SweepsInv

LEMMA ReadsControlKeeps ==
  ASSUME SweepsInv, ReadsControl
  PROVE  SweepsInv'
<1>0. session.phase \in Measuring /\ session.step = "idle" /\ calibrating \in BOOLEAN
      /\ (~WasRead => calibrating)
  BY SessionIs DEF ReadsControl, SweepsInv, Stepwise
<1> DEFINE now == Seen(session.phase, calibrating)
<1>1. /\ session' \in Sessions /\ session'.records = session.records
      /\ session'.sequence = session.sequence /\ session'.op = session.op
      /\ session'.step = session.step /\ session'.phase = now
  <2>1. now \in SweepPhases
    BY <1>0, SeenIs DEF SweepPhases
  <2>2. session' = [session EXCEPT !.phase = now]
    BY DEF ReadsControl
  <2> HIDE DEF now
  <2> QED BY <2>1, <2>2, SessionIs DEF Sessions
<1>2. now \in Measuring
  BY <1>0, SeenIs
<1>3. session.records # <<>> => \A x \in Taking : Comes(x)' => Comes(x)
  <2> SUFFICES ASSUME session.records # <<>>, NEW x \in Taking, Comes(x)'
               PROVE  Comes(x)
    OBVIOUS
  <2>1. x.foreign = truth.foreign /\ x.starts = truth.starts
    BY <1>0, <1>1 DEF ReadsControl, Comes
  <2>2. CASE AfterForeign
    BY <1>0, <2>1, <2>2 DEF Comes, AtWrite
  <2>3. CASE ~AfterForeign
    <3>1. LastReading' = LastReading /\ session'.records # <<>> /\ ~AfterForeign'
      BY <1>1, <2>3 DEF LastReading, AfterForeign
    <3>2. WasRead' <=> Reached(now, LastReading.phase)
      BY <1>1, <3>1 DEF WasRead, Reached, LastReading
    <3>3. x.phase \in NextPhases(now, LastReading.phase)
      <4> HIDE DEF now
      <4> QED BY <1>0, <1>1, <3>1, <3>2 DEF Comes, NextPhases
    <3>4. x.phase \in NextPhases(session.phase, LastReading.phase)
      <4>1. ~Reached(session.phase, LastReading.phase) => calibrating
        BY <1>0, LastIs
      <4> QED BY <1>0, <2>3, <3>3, <4>1, LastIs, LookComes
    <3>5. x.phase \in IF WasRead THEN Later(session.phase) ELSE {session.phase}
      BY <3>4, LastIs DEF NextPhases
    <3> QED BY <1>0, <2>1, <3>5 DEF Comes, AtWrite
  <2> QED BY <2>2, <2>3
<1>4. Retained' /\ InARow' /\ SweepsKept'
  BY <1>1, <1>3, QuietKeeps DEF ReadsControl
<1>5. SweepsTypeOK'
  BY <1>1 DEF ReadsControl, SweepsInv, SweepsTypeOK
<1>6. ~WasRead' => calibrating
  <2> SUFFICES ASSUME ~WasRead', ~calibrating PROVE FALSE
    OBVIOUS
  <2>1. now \notin {"Calibrating", "ExternalCalibration"}
    BY <1>0, SeenIs DEF Measuring
  <2> QED BY <1>1, <2>1 DEF WasRead
<1>7. Stepwise'
  BY <1>0, <1>1, <1>2, <1>6 DEF ReadsControl, Stepwise, AtWrite
<1>8. EndKnown'
  BY <1>0, <1>1 DEF ReadsControl, SweepsInv, EndKnown
<1> QED BY <1>4, <1>5, <1>7, <1>8 DEF SweepsInv

\* The check of a command: what it leaves of the session.
LEMMA ChecksSays ==
  ASSUME SweepsInv, Checks
  PROVE  /\ session' \in Sessions /\ session'.records = session.records
         /\ session'.sequence = session.sequence
         /\ session'.op.action = session.op.action /\ session'.op.attempted = session.op.attempted
         /\ session'.op.verified = session.op.verified
         /\ \/ /\ calibrating /\ session.op.action # "mag_stop" /\ session'.step = "idle"
               /\ session'.phase = Seen(session.phase, calibrating)
            \/ /\ ~calibrating /\ session.op.action = "mag_start" /\ session'.step = "prove"
               /\ session'.phase = Seen(session.phase, calibrating) /\ session'.op = session.op
            \/ /\ session.op.action = "mag_stop" /\ session'.step = "write" /\ session'.op = session.op
               /\ session'.phase = "Stopping"
            \/ /\ session.op.action = "save" /\ session'.step = "write" /\ session'.op = session.op
               /\ session'.phase = "Saving" /\ session'.previous = session.phase
<1>0. session.phase \in Measuring /\ session.step = "check" /\ calibrating \in BOOLEAN
      /\ session.op.action \in Actions
  BY SessionIs DEF Checks, SweepsInv, Stepwise
<1> DEFINE now == Seen(session.phase, calibrating)
           seen == [session EXCEPT !.previous = session.phase, !.phase = now]
<1>1. /\ seen \in Sessions /\ seen.records = session.records /\ seen.sequence = session.sequence
      /\ seen.op = session.op /\ seen.phase = now /\ seen.previous = session.phase
  <2>1. now \in SweepPhases /\ session.phase \in SweepPhases
    BY <1>0, SeenIs DEF SweepPhases
  <2> HIDE DEF now
  <2> QED BY <2>1, SessionIs DEF Sessions
<1>2. session' = IF Refuses(session.op.action)
        THEN [seen EXCEPT !.op.outcome = "Failed", !.step = "idle"]
        ELSE IF session.op.action = "mag_start" THEN [seen EXCEPT !.step = "prove"]
        ELSE [seen EXCEPT !.phase = EnteredBy[session.op.action], !.step = "write"]
  BY DEF Checks
<1> HIDE DEF now, seen
<1>3. session.op \in Ops
  BY SessionIs
<1>4. CASE Refuses(session.op.action)
  <2> DEFINE cmd == [session.op EXCEPT !.outcome = "Failed"]
  <2>1. cmd \in Ops /\ cmd.action = session.op.action /\ cmd.attempted = session.op.attempted
        /\ cmd.verified = session.op.verified
    BY <1>3 DEF Ops
  <2>2. session' = [seen EXCEPT !.op = cmd, !.step = "idle"]
    BY <1>1, <1>2, <1>4 DEF Sessions
  <2> HIDE DEF cmd
  <2>3. /\ session' \in Sessions /\ session'.records = seen.records
        /\ session'.sequence = seen.sequence /\ session'.op = cmd /\ session'.step = "idle"
        /\ session'.phase = seen.phase
    BY <1>1, <2>1, <2>2 DEF Sessions, SweepSteps
  <2> QED BY <1>1, <1>4, <2>1, <2>3 DEF Refuses, now
<1>5. CASE ~Refuses(session.op.action) /\ session.op.action = "mag_start"
  <2>1. /\ session' \in Sessions /\ session'.records = seen.records
        /\ session'.sequence = seen.sequence /\ session'.op = seen.op /\ session'.step = "prove"
        /\ session'.phase = seen.phase
    BY <1>1, <1>2, <1>5 DEF Sessions, SweepSteps
  <2> QED BY <1>1, <1>5, <2>1 DEF Refuses, now
<1>6. CASE ~Refuses(session.op.action) /\ session.op.action # "mag_start"
  <2>1. EnteredBy[session.op.action] = IF session.op.action = "mag_stop" THEN "Stopping" ELSE "Saving"
    BY <1>0, <1>6 DEF EnteredBy, Actions
  <2> DEFINE p == IF session.op.action = "mag_stop" THEN "Stopping" ELSE "Saving"
  <2>2. session' = [seen EXCEPT !.phase = p, !.step = "write"] /\ p \in SweepPhases
    BY <1>2, <1>6, <2>1 DEF SweepPhases
  <2> HIDE DEF p
  <2>3. /\ session' \in Sessions /\ session'.records = seen.records
        /\ session'.sequence = seen.sequence /\ session'.op = seen.op /\ session'.step = "write"
        /\ session'.phase = p /\ session'.previous = seen.previous
    BY <1>1, <2>2 DEF Sessions, SweepSteps
  <2> QED BY <1>0, <1>1, <1>6, <2>3 DEF p, Actions
<1> QED BY <1>4, <1>5, <1>6

\* What may come after an end is allowed before one.
LEMMA LaterAfterEnds ==
  ASSUME NEW phase \in Measuring
  PROVE  Later("Calibrated") \subseteq Later(phase)
BY DEF Later, Measuring

\* The check of a command; what may come next came next before.
LEMMA ChecksKeeps ==
  ASSUME SweepsInv, Checks
  PROVE  SweepsInv'
<1>0. session.phase \in Measuring /\ session.step = "check" /\ calibrating \in BOOLEAN
      /\ session.op.action \in Actions /\ WasRead /\ session.records # <<>>
  BY SessionIs DEF Checks, SweepsInv, Stepwise
<1> DEFINE now == Seen(session.phase, calibrating)
<1>20. UNCHANGED <<calibrating, run, view, commands, truth>>
  BY DEF Checks
<1>1. /\ session' \in Sessions /\ session'.records = session.records
      /\ session'.sequence = session.sequence
      /\ session'.op.action = session.op.action /\ session'.op.attempted = session.op.attempted
      /\ session'.op.verified = session.op.verified
  BY ChecksSays
<1>2. LastReading' = LastReading /\ session'.records # <<>> /\ (AfterForeign' <=> AfterForeign)
      /\ (WasRead' <=> Reached(session'.phase, LastReading.phase))
  BY <1>0, <1>1 DEF LastReading, AfterForeign, WasRead, Reached
<1>3. /\ now \in Measuring
      /\ ~AfterForeign =>
           /\ NextPhases(now, LastReading.phase) \subseteq Later(session.phase)
           /\ ~Reached(now, LastReading.phase) => calibrating
           /\ ~calibrating => now \in Later(session.phase)
      /\ ~calibrating => now \in {"Monitoring", "Calibrated"}
  <2>1. NextPhases(session.phase, LastReading.phase) = Later(session.phase)
    BY <1>0, LastIs DEF NextPhases
  <2>2. LastReading.phase \in Measuring /\ Reached(session.phase, LastReading.phase)
    BY <1>0, LastIs
  <2>3. ~AfterForeign => LastReading.phase # "ExternalCalibration"
    BY <1>0, LastIs
  <2>4. ~calibrating => now \in {"Monitoring", "Calibrated"}
    BY <1>0, SeenIs DEF Measuring
  <2>5. ~AfterForeign => session.phase # "ExternalCalibration"
    BY <2>2, <2>3 DEF Reached
  <2>6. session.phase # "ExternalCalibration" /\ ~calibrating => now \in Later(session.phase)
    BY <1>0, SeenIs DEF Later, Measuring
  <2>7. now \in Measuring
    BY <1>0, SeenIs
  <2>8. ~AfterForeign => /\ NextPhases(now, LastReading.phase) \subseteq Later(session.phase)
                         /\ ~Reached(now, LastReading.phase) => calibrating
    BY <1>0, <2>1, <2>2, <2>3, LookComes
  <2> QED BY <2>4, <2>5, <2>6, <2>7, <2>8
<1>4. ASSUME NEW x \in Taking, Comes(x)'
      PROVE  Comes(x)
  <2>1. x.foreign = truth.foreign
    BY <1>4, <1>20 DEF Comes
  <2>2. x.starts = truth.starts
    <3>1. session'.step \in {"idle", "prove"} \/
            (session'.step = "write" /\ session'.op.action \in {"mag_stop", "save"})
      BY ChecksSays
    <3> QED BY <1>4, <1>20, <3>1 DEF Comes, AtWrite
  <2>3. AfterForeign \/ x.phase \in Later(session.phase)
    <3> SUFFICES ASSUME ~AfterForeign PROVE x.phase \in Later(session.phase)
      OBVIOUS
    <3>1. CASE session'.step = "idle" /\ session'.phase = now
      <4>1. x.phase \in NextPhases(now, LastReading.phase)
        <5> HIDE DEF now
        <5> QED BY <1>2, <1>4, <3>1 DEF Comes, NextPhases
      <4> QED BY <1>3, <4>1
    <3>2. CASE session'.step = "prove" /\ session'.phase = now /\ ~calibrating
      <4>1. x.phase = now
        BY <1>4, <3>2 DEF Comes
      <4> QED BY <1>3, <3>2, <4>1
    <3>3. CASE session'.op.action = "mag_stop" /\ session'.step = "write"
      <4>1. x.phase \in Later("Calibrated")
        BY <1>2, <1>4, <3>3 DEF Comes, AtWrite
      <4> QED BY <1>0, <4>1, LaterAfterEnds
    <3>4. CASE session'.op.action = "save" /\ session'.step = "write" /\ session'.previous = session.phase
      BY <1>2, <1>4, <3>4 DEF Comes, AtWrite
    <3> QED BY <1>1, <3>1, <3>2, <3>3, <3>4, ChecksSays
  <2> QED BY <1>0, <2>1, <2>2, <2>3 DEF Comes, AtWrite
<1>5. Retained' /\ InARow' /\ SweepsKept'
  BY <1>1, <1>4, <1>20, QuietKeeps
<1>6. SweepsTypeOK'
  BY <1>1, <1>20 DEF SweepsInv, SweepsTypeOK
<1>7. session'.step = "idle" /\ session'.phase = now /\ ~WasRead' => calibrating
  <2> SUFFICES ASSUME session'.phase = now, ~WasRead', ~calibrating PROVE FALSE
    OBVIOUS
  <2>1. now \notin {"Calibrating", "ExternalCalibration"}
    BY <1>3
  <2> QED BY <2>1 DEF WasRead
<1>8. Stepwise'
  <2>1. session.phase \in {"ExternalCalibration", "Calibrating"} => LastReading.phase = session.phase
    BY <1>0, LastIs DEF Reached
  <2>2. CASE session'.step = "idle" /\ session'.phase = now
    BY <1>3, <1>7, <1>20, <2>2 DEF Stepwise, AtWrite
  <2>3. CASE session'.step = "prove" /\ session'.phase = now /\ ~calibrating
             /\ session.op.action = "mag_start"
    BY <1>0, <1>1, <1>3, <2>3 DEF Stepwise, AtWrite
  <2>4. CASE session'.step = "write" /\ session.op.action = "mag_stop"
    BY <1>0, <1>1, <2>4 DEF Stepwise, AtWrite
  <2>5. CASE session'.step = "write" /\ session.op.action = "save" /\ session'.previous = session.phase
    BY <1>0, <1>1, <1>2, <2>1, <2>5 DEF Stepwise, AtWrite
  <2> QED BY <2>2, <2>3, <2>4, <2>5, ChecksSays
<1>9. EndKnown'
  <2>1. /\ session.op.outcome = "Running" /\ ~session.op.attempted /\ ~session.op.verified
        /\ view.op = session.op
    BY <1>0 DEF SweepsInv, EndKnown
  <2>2. session'.step = "idle" \/ (session'.op = session.op /\ session'.step \in {"prove", "write"})
    BY ChecksSays
  <2> QED BY <1>0, <1>1, <1>20, <2>1, <2>2 DEF SweepsInv, EndKnown
<1> QED BY <1>5, <1>6, <1>8, <1>9 DEF SweepsInv

\* The write of a command.
LEMMA AttemptsKeeps ==
  ASSUME SweepsInv, Attempts
  PROVE  SweepsInv'
<1>0. /\ session.step = "write" /\ session.op.action \in Actions /\ session.records # <<>>
      /\ session.op.outcome = "Running" /\ ~session.op.verified /\ view.op = session.op
      /\ ~session.op.attempted
  BY DEF Attempts, SweepsInv, Stepwise, EndKnown
<1>1. /\ session' \in Sessions /\ session'.records = session.records
      /\ session'.sequence = session.sequence /\ session'.step = "verify"
      /\ session'.phase = session.phase /\ session'.previous = session.previous
      /\ session'.op.action = session.op.action /\ session'.op.attempted
      /\ session'.op.verified = session.op.verified
  <2> DEFINE cmd == [session.op EXCEPT !.attempted = TRUE]
  <2>1. cmd \in Ops /\ cmd.action = session.op.action /\ cmd.attempted = TRUE
        /\ cmd.verified = session.op.verified
    BY SessionIs DEF Ops
  <2>2. session' = [session EXCEPT !.op = cmd, !.step = "verify"]
    BY SessionIs DEF Attempts, Sessions
  <2> HIDE DEF cmd
  <2>3. /\ session' \in Sessions /\ session'.records = session.records
        /\ session'.sequence = session.sequence /\ session'.op = cmd /\ session'.step = "verify"
        /\ session'.phase = session.phase /\ session'.previous = session.previous
    BY <2>1, <2>2, SessionIs DEF Sessions, SweepSteps
  <2> QED BY <2>1, <2>3
<1>2. /\ truth' \in Truths /\ truth'.foreign = truth.foreign
      /\ session.op.action = "mag_start" => truth'.starts = truth.starts + 1 /\ ~truth'.ended
      /\ session.op.action # "mag_start" => truth' = truth
  <2>1. CASE session.op.action = "mag_start"
    <3>1. ASSUME NEW n \in Nat
          PROVE  /\ [truth EXCEPT !.starts = n, !.ended = FALSE] \in Truths
                 /\ [truth EXCEPT !.starts = n, !.ended = FALSE].starts = n
                 /\ [truth EXCEPT !.starts = n, !.ended = FALSE].foreign = truth.foreign
                 /\ ~[truth EXCEPT !.starts = n, !.ended = FALSE].ended
      BY SessionIs DEF Truths
    <3>2. truth' = [truth EXCEPT !.starts = truth.starts + 1, !.ended = FALSE]
          /\ truth.starts + 1 \in Nat
      BY <2>1, SessionIs DEF Attempts, Truths
    <3> QED BY <2>1, <3>1, <3>2
  <2>2. CASE session.op.action # "mag_start"
    BY <2>2, SessionIs DEF Attempts
  <2> QED BY <2>1, <2>2
<1>20. UNCHANGED <<calibrating, run, view, commands>>
  BY DEF Attempts
<1>3. LastReading' = LastReading /\ session'.records # <<>> /\ (AfterForeign' <=> AfterForeign)
      /\ AtWrite /\ AtWrite'
  BY <1>0, <1>1 DEF LastReading, AfterForeign, AtWrite
<1>4. ASSUME NEW x \in Taking, Comes(x)'
      PROVE  Comes(x)
  BY <1>0, <1>1, <1>2, <1>3, <1>4 DEF Comes, Actions
<1>5. Retained' /\ InARow' /\ SweepsKept'
  BY <1>1, <1>4, <1>20, QuietKeeps
<1>6. SweepsTypeOK'
  BY <1>1, <1>2, <1>20 DEF SweepsInv, SweepsTypeOK
<1>7. Stepwise'
  BY <1>0, <1>1, <1>3 DEF SweepsInv, Stepwise
<1>8. EndKnown'
  BY <1>0, <1>1, <1>2, <1>20 DEF SweepsInv, EndKnown
<1> QED BY <1>5, <1>6, <1>7, <1>8 DEF SweepsInv

\* The end of a command: what it leaves of the session.
LEMMA VerifiesSays ==
  ASSUME SweepsInv, Verifies
  PROVE  /\ session' \in Sessions /\ session'.records = session.records
         /\ session'.sequence = session.sequence /\ session'.step = "idle"
         /\ session'.op.action = session.op.action /\ session'.op.attempted = session.op.attempted
         /\ session.op.action = "save" =>
              /\ session'.phase = session.previous /\ session'.op.verified = session.op.verified
              /\ UNCHANGED <<calibrating, truth>>
         /\ session.op.action # "save" =>
              /\ session'.phase = IF session.op.action = "mag_start" THEN "Calibrating" ELSE "Calibrated"
              /\ calibrating' = (session.op.action = "mag_start")
              /\ truth' = [truth EXCEPT !.ended = (session.op.action = "mag_stop")]
<1> DEFINE With(p, cmd) == [session EXCEPT !.step = "idle", !.phase = p, !.op = cmd]
<1>1. ASSUME NEW p \in SweepPhases, NEW cmd \in Ops
      PROVE  /\ With(p, cmd) \in Sessions /\ With(p, cmd).records = session.records
             /\ With(p, cmd).sequence = session.sequence /\ With(p, cmd).step = "idle"
             /\ With(p, cmd).op = cmd /\ With(p, cmd).phase = p
  BY SessionIs DEF Sessions, SweepSteps
<1>2. CASE session.op.action = "save"
  <2> DEFINE cmd == [session.op EXCEPT !.outcome = "Unverified"]
  <2>1. cmd \in Ops /\ cmd.action = session.op.action /\ cmd.attempted = session.op.attempted
        /\ cmd.verified = session.op.verified
    BY SessionIs DEF Ops
  <2>2. session' = With(session.previous, cmd)
    BY <1>2, SessionIs DEF Verifies, Sessions
  <2>3. UNCHANGED <<calibrating, truth>>
    BY <1>2 DEF Verifies
  <2> HIDE DEF With, cmd
  <2> QED BY <1>1, <1>2, <2>1, <2>2, <2>3, SessionIs
<1>3. CASE session.op.action # "save"
  <2> DEFINE cmd == [session.op EXCEPT !.verified = TRUE, !.outcome = "Succeeded"]
             p == IF session.op.action = "mag_start" THEN "Calibrating" ELSE "Calibrated"
  <2>1. cmd \in Ops /\ cmd.action = session.op.action /\ cmd.attempted = session.op.attempted
    BY SessionIs DEF Ops
  <2>2. session' = With(p, cmd)
    BY <1>3, SessionIs DEF Verifies, Sessions
  <2>3. p \in SweepPhases
    BY DEF SweepPhases, Measuring
  <2>4. /\ calibrating' = (session.op.action = "mag_start")
        /\ truth' = [truth EXCEPT !.ended = (session.op.action = "mag_stop")]
    BY <1>3 DEF Verifies
  <2>5. /\ session' \in Sessions /\ session'.records = session.records
        /\ session'.sequence = session.sequence /\ session'.step = "idle"
        /\ session'.op = cmd /\ session'.phase = p
    <3> HIDE DEF With, cmd, p
    <3> QED BY <1>1, <2>1, <2>2, <2>3
  <2> HIDE DEF cmd
  <2> QED BY <1>3, <2>1, <2>4, <2>5
<1> QED BY <1>2, <1>3

\* The read-back of a command: after an end, what may come is what came before it.
LEMMA VerifiesKeeps ==
  ASSUME SweepsInv, Verifies
  PROVE  SweepsInv'
<1>0. /\ session.step = "verify" /\ session.op.action \in Actions /\ session.records # <<>>
      /\ AtWrite /\ LastReading.phase \in Measuring
      /\ session.op.action = "mag_start" => LastReading.phase \in {"Monitoring", "Calibrated"}
      /\ session.op.action = "save" =>
           /\ session.previous \in Measuring
           /\ session.previous \in {"ExternalCalibration", "Calibrating"} =>
                LastReading.phase = session.previous
  BY LastIs DEF Verifies, SweepsInv, Stepwise, AtWrite
<1>1. /\ session' \in Sessions /\ session'.records = session.records
      /\ session'.sequence = session.sequence /\ session'.step = "idle"
      /\ session'.op.action = session.op.action /\ session'.op.attempted = session.op.attempted
  BY VerifiesSays
<1>20. UNCHANGED <<run, view, commands>>
  BY DEF Verifies
<1>2. LastReading' = LastReading /\ session'.records # <<>> /\ (AfterForeign' <=> AfterForeign)
      /\ (AfterForeign <=> LastReading.phase = "ExternalCalibration")
      /\ (WasRead' <=> Reached(session'.phase, LastReading.phase))
  BY <1>0, <1>1, LastIs DEF LastReading, AfterForeign, WasRead, Reached
<1>3. /\ calibrating' \in BOOLEAN /\ truth' \in Truths /\ truth'.starts = truth.starts
      /\ truth'.foreign = truth.foreign
      /\ session.op.action = "mag_start" => calibrating' /\ ~truth'.ended
      /\ session.op.action = "mag_stop" => truth'.ended
      /\ session.op.action = "save" => truth'.ended = truth.ended
  <2>1. CASE session.op.action = "save"
    BY <2>1, VerifiesSays, SessionIs
  <2>2. CASE session.op.action = "mag_start"
    <3>1. truth' = [truth EXCEPT !.ended = FALSE] /\ calibrating' = TRUE
      BY <2>2, VerifiesSays
    <3> QED BY <2>2, <3>1, SessionIs DEF Truths
  <2>3. CASE session.op.action = "mag_stop"
    <3>1. truth' = [truth EXCEPT !.ended = TRUE] /\ calibrating' = FALSE
      BY <2>3, VerifiesSays
    <3> QED BY <2>3, <3>1, SessionIs DEF Truths
  <2> QED BY <1>0, <2>1, <2>2, <2>3 DEF Actions
<1>4. ASSUME NEW x \in Taking, Comes(x)'
      PROVE  Comes(x)
  <2>1. x.foreign = truth.foreign /\ x.starts = truth.starts
        /\ (AfterForeign \/ x.phase \in NextPhases(session'.phase, LastReading.phase))
    BY <1>1, <1>2, <1>3, <1>4 DEF Comes, NextPhases
  <2>2. CASE session.op.action = "save"
    <3>1. session'.phase = session.previous
      BY <2>2, VerifiesSays
    <3>2. NextPhases(session'.phase, LastReading.phase) = Later(session.previous)
      BY <1>0, <2>2, <3>1 DEF NextPhases, Reached
    <3> QED BY <1>0, <2>1, <2>2, <3>2 DEF Comes
  <2>3. CASE session.op.action = "mag_start"
    <3>1. session'.phase = "Calibrating"
      BY <2>3, VerifiesSays
    <3>2. NextPhases(session'.phase, LastReading.phase) = {"Calibrating"}
      BY <1>0, <2>3, <3>1 DEF NextPhases, Reached
    <3> QED BY <1>0, <1>2, <2>1, <2>3, <3>2 DEF Comes
  <2>4. CASE session.op.action = "mag_stop"
    <3>1. session'.phase = "Calibrated"
      BY <2>4, VerifiesSays
    <3>2. NextPhases(session'.phase, LastReading.phase) = Later("Calibrated")
      BY <3>1 DEF NextPhases, Reached
    <3> QED BY <1>0, <2>1, <2>4, <3>2 DEF Comes
  <2> QED BY <1>0, <2>2, <2>3, <2>4 DEF Actions
<1>5. Retained' /\ InARow' /\ SweepsKept'
  BY <1>1, <1>4, <1>20, QuietKeeps
<1>6. SweepsTypeOK'
  BY <1>1, <1>3, <1>20 DEF SweepsInv, SweepsTypeOK
<1>7. session'.phase \in Measuring /\ (~WasRead' => calibrating')
  <2>1. CASE session.op.action = "save"
    BY <1>0, <1>2, <2>1, VerifiesSays DEF Reached
  <2>2. CASE session.op.action = "mag_start"
    BY <1>3, <2>2, VerifiesSays DEF Measuring
  <2>3. CASE session.op.action = "mag_stop"
    BY <1>2, <2>3, VerifiesSays DEF Measuring, Reached
  <2> QED BY <1>0, <2>1, <2>2, <2>3 DEF Actions
<1>8. Stepwise'
  BY <1>1, <1>7 DEF Stepwise, AtWrite
<1>9. EndKnown'
  <2>1. CASE session.op.action = "save"
    BY <1>1, <1>3, <1>20, <2>1 DEF SweepsInv, EndKnown
  <2>2. CASE session.op.action = "mag_start"
    <3>1. run.verified => session.op.attempted /\ view.op.outcome = "Running" /\ ~view.op.attempted
      BY <1>0, <2>2 DEF SweepsInv, EndKnown
    <3> QED BY <1>1, <1>20, <2>2, <3>1 DEF EndKnown
  <2>3. CASE session.op.action = "mag_stop"
    BY <1>1, <1>3, <1>20, <2>3 DEF EndKnown
  <2> QED BY <1>0, <2>1, <2>2, <2>3 DEF Actions
<1> QED BY <1>5, <1>6, <1>8, <1>9 DEF SweepsInv

\* The session ends, and no reading comes.
LEMMA EndsKeeps ==
  ASSUME SweepsInv, Ends
  PROVE  SweepsInv'
<1>1. /\ session' \in Sessions /\ session'.records = session.records
      /\ session'.sequence = session.sequence /\ session'.step = "ended"
      /\ session'.op.action = session.op.action /\ session'.op.attempted = session.op.attempted
      /\ session'.op.verified = session.op.verified
  <2> DEFINE With(p, cmd) == [session EXCEPT !.phase = p, !.step = "ended", !.op = cmd]
             now == IF session.op.outcome = "Running" THEN "Failed" ELSE session.op.outcome
             cmd == [session.op EXCEPT !.outcome = now]
  <2>1. PICK p \in {"Closed", "Failed"} :
          session' = [session EXCEPT !.phase = p, !.step = "ended",
                        !.op.outcome = IF @ = "Running" THEN "Failed" ELSE @]
    BY DEF Ends
  <2>2. session' = With(p, cmd) /\ p \in SweepPhases
    BY <2>1, SessionIs DEF Sessions, SweepPhases
  <2>3. now \in {"None", "Running", "Succeeded", "Failed", "Unverified"}
    BY SessionIs DEF Ops
  <2>4. cmd \in Ops /\ cmd.action = session.op.action /\ cmd.attempted = session.op.attempted
        /\ cmd.verified = session.op.verified
    <3> HIDE DEF now
    <3> QED BY <2>3, SessionIs DEF Ops
  <2>5. ASSUME NEW o \in Ops
        PROVE  /\ With(p, o) \in Sessions /\ With(p, o).records = session.records
               /\ With(p, o).sequence = session.sequence /\ With(p, o).step = "ended"
               /\ With(p, o).op = o
    BY <2>2, SessionIs DEF Sessions, SweepSteps
  <2> HIDE DEF With, cmd
  <2> QED BY <2>2, <2>4, <2>5
<1>20. UNCHANGED <<run, view, commands, truth>>
  BY DEF Ends
<1>2. calibrating' \in BOOLEAN
  BY SessionIs DEF Ends
<1>3. \A x \in Taking : ~Comes(x)'
  BY <1>1 DEF Comes
<1>4. Retained' /\ InARow' /\ SweepsKept'
  BY <1>1, <1>3, <1>20, QuietKeeps
<1>5. SweepsTypeOK'
  BY <1>1, <1>2, <1>20 DEF SweepsInv, SweepsTypeOK
<1>6. Stepwise'
  BY <1>1 DEF Stepwise, AtWrite
<1>7. EndKnown'
  BY <1>1, <1>20 DEF SweepsInv, EndKnown
<1> QED BY <1>4, <1>5, <1>6, <1>7 DEF SweepsInv

\* Another program starts or ends a calibration.
LEMMA OthersKeeps ==
  ASSUME SweepsInv, Others
  PROVE  SweepsInv'
<1>20. UNCHANGED <<session, run, view, commands, truth>> /\ WasRead /\ session.step # "verify"
  BY DEF Others
<1>1. calibrating' \in BOOLEAN
  BY SessionIs DEF Others
<1>2. \A x \in Taking : Comes(x)' => Comes(x)
  BY <1>20 DEF Comes, AfterForeign, LastReading, WasRead, AtWrite
<1>3. Retained' /\ InARow' /\ SweepsKept'
  BY <1>2, <1>20, QuietKeeps
<1>4. SweepsTypeOK'
  BY <1>1, <1>20 DEF SweepsInv, SweepsTypeOK
<1>5. Stepwise'
  BY <1>20 DEF SweepsInv, Stepwise, AtWrite, LastReading, WasRead
<1>6. EndKnown'
  BY <1>20 DEF SweepsInv, EndKnown
<1> QED BY <1>3, <1>4, <1>5, <1>6 DEF SweepsInv

\* A command that the page sends.
LEMMA SendsKeeps ==
  ASSUME SweepsInv, Sends
  PROVE  SweepsInv'
<1>0. session.step = "idle" /\ session.records # <<>> /\ WasRead /\ session.phase \in Measuring
  BY DEF Sends, SweepsInv, Stepwise
<1>1. PICK action \in Actions :
        LET cmd == [NoCommand EXCEPT !.action = action, !.outcome = "Running"] IN
        /\ Offered(action)
        /\ session' = [session EXCEPT !.op = cmd, !.step = "check"]
        /\ view' = [view EXCEPT !.op = cmd]
  BY DEF Sends
<1> DEFINE cmd == [NoCommand EXCEPT !.action = action, !.outcome = "Running"]
<1>2. /\ cmd \in Ops /\ cmd.action = action /\ cmd.attempted = FALSE /\ cmd.verified = FALSE
      /\ cmd.outcome = "Running"
  BY DEF Ops, NoCommand, Actions
<1>3. /\ session' \in Sessions /\ session'.records = session.records
      /\ session'.sequence = session.sequence /\ session'.step = "check"
      /\ session'.op = cmd /\ session'.phase = session.phase
      /\ view' \in Shown /\ view'.op = cmd
  <2>1. session' = [session EXCEPT !.op = cmd, !.step = "check"] /\ view' = [view EXCEPT !.op = cmd]
    BY <1>1
  <2> HIDE DEF cmd
  <2> QED BY <1>2, <2>1, SessionIs DEF Sessions, Shown, SweepSteps
<1>4. UNCHANGED <<calibrating, run, truth>> /\ commands' \in Nat /\ view.op.outcome # "Running"
  BY <1>1, SessionIs DEF Sends, Offered
<1> HIDE DEF cmd
<1>5. LastReading' = LastReading /\ (AfterForeign' <=> AfterForeign) /\ (WasRead' <=> WasRead)
  BY <1>0, <1>3 DEF LastReading, AfterForeign, WasRead
<1>6. ASSUME NEW x \in Taking, Comes(x)'
      PROVE  Comes(x)
  BY <1>0, <1>3, <1>4, <1>5, <1>6 DEF Comes, AtWrite
<1>7. Retained' /\ InARow' /\ SweepsKept'
  BY <1>3, <1>4, <1>6, QuietKeeps
<1>8. SweepsTypeOK'
  BY <1>3, <1>4 DEF SweepsInv, SweepsTypeOK
<1>9. Stepwise'
  BY <1>0, <1>2, <1>3, <1>5 DEF Stepwise, AtWrite
<1>10. EndKnown'
  BY <1>0, <1>2, <1>3, <1>4 DEF SweepsInv, EndKnown
<1> QED BY <1>7, <1>8, <1>9, <1>10 DEF SweepsInv

-----------------------------------------------------------------------------
(***************************************************************************)
(* Sweeps: the steps that take a reading.                                  *)
(***************************************************************************)

\* The reading that is due.
Due == [phase |-> session.phase, starts |-> truth.starts, foreign |-> truth.foreign]

\* A reading goes to the end of the history, and the first is dropped when it is full.
LEMMA RecordedIs ==
  ASSUME SweepsInv, session.phase \in Measuring
  PROVE  /\ Due \in Taking /\ Due.phase = session.phase
         /\ Due.starts = truth.starts /\ Due.foreign = truth.foreign
         /\ \E kept \in Histories : \E cut \in {0, 1} :
              /\ Recorded(session) = [session EXCEPT !.records = Append(kept, Due), !.sequence = @ + 1]
              /\ Len(kept) = Len(session.records) - cut
              /\ \A i \in 1 .. Len(kept) : kept[i] = session.records[i + cut]
<1>1. Due \in Taking /\ Due.phase = session.phase
      /\ Due.starts = truth.starts /\ Due.foreign = truth.foreign
  BY SessionIs DEF Due, Taking
<1> DEFINE kept == IF Len(session.records) = Capacity THEN Tail(session.records) ELSE session.records
<1>2. Recorded(session) = [session EXCEPT !.records = Append(kept, Due), !.sequence = @ + 1]
  BY DEF Recorded, Due
<1>3. session.records \in Seq(Taking) /\ Capacity \in Nat \ {0}
  BY SessionIs, SweepsAssumption DEF Histories
<1>4. \E cut \in {0, 1} :
        /\ kept \in Seq(Taking)
        /\ Len(kept) = Len(session.records) - cut
        /\ \A i \in 1 .. Len(kept) : kept[i] = session.records[i + cut]
  <2>1. CASE Len(session.records) = Capacity
    <3>1. session.records # <<>> /\ kept = Tail(session.records)
      BY <1>3, <2>1
    <3>2. /\ Tail(session.records) \in Seq(Taking)
          /\ Len(Tail(session.records)) = Len(session.records) - 1
          /\ \A i \in 1 .. Len(Tail(session.records)) :
               Tail(session.records)[i] = session.records[i + 1]
      BY <1>3, <3>1
    <3> HIDE DEF kept
    <3> QED BY <3>1, <3>2
  <2>2. CASE Len(session.records) # Capacity
    <3>1. kept = session.records
      BY <2>2
    <3> HIDE DEF kept
    <3> QED BY <1>3, <3>1
  <2> QED BY <2>1, <2>2
<1> HIDE DEF kept
<1>5. PICK cut \in {0, 1} :
        /\ kept \in Seq(Taking)
        /\ Len(kept) = Len(session.records) - cut
        /\ \A i \in 1 .. Len(kept) : kept[i] = session.records[i + cut]
  BY <1>4
<1> QED BY <1>1, <1>2, <1>5 DEF Histories

\* A reading that is taken, with a next one that goes on from it.
LEMMA TakingKeeps ==
  ASSUME SweepsInv, session.phase \in Measuring, Comes(Due),
         session'.records = Recorded(session).records,
         session'.sequence = Recorded(session).sequence, UNCHANGED run,
         \A x \in Taking : Comes(x)' => After(Due, x)
  PROVE  /\ session'.records \in Histories /\ session'.sequence = session.sequence + 1
         /\ session'.records # <<>> /\ LastReading' = Due
         /\ Retained' /\ InARow' /\ SweepsKept'
<1> DEFINE R == session.records
<1>1. PICK kept \in Histories, cut \in {0, 1} :
        /\ Recorded(session) = [session EXCEPT !.records = Append(kept, Due), !.sequence = @ + 1]
        /\ Len(kept) = Len(R) - cut
        /\ \A i \in 1 .. Len(kept) : kept[i] = R[i + cut]
  BY RecordedIs
<1>2. Due \in Taking
  BY RecordedIs
<1>3. session'.records = Append(kept, Due) /\ session'.sequence = session.sequence + 1
  BY <1>1, SessionIs DEF Sessions
<1>4. /\ session'.records \in Histories /\ Len(session'.records) = Len(kept) + 1
      /\ session'.records # <<>> /\ session'.records[Len(session'.records)] = Due
      /\ \A i \in 1 .. Len(kept) : session'.records[i] = kept[i]
  BY <1>2, <1>3 DEF Histories
<1>5. R \in Seq(Taking) /\ kept \in Seq(Taking) /\ Len(R) \in Nat /\ Len(kept) \in Nat
      /\ session.sequence \in Nat /\ run \in Runs /\ run.cursor \in Nat
      /\ session'.records \in Seq(Taking) /\ Len(session'.records) \in Nat
  BY <1>4, SessionIs DEF Histories, Runs
<1>6. LastReading' = Due
  BY <1>4 DEF LastReading
<1>7. Retained'
  BY <1>1, <1>3, <1>4, <1>5 DEF SweepsInv, Retained
<1>8. InARow'
  <2>1. ASSUME NEW i \in 1 .. Len(session'.records) - 1
        PROVE  After(session'.records[i], session'.records[i + 1])
    <3>1. CASE i = Len(kept)
      <4>1. session'.records[i] = R[i + cut] /\ i + cut = Len(R) /\ session'.records[i + 1] = Due
        BY <1>1, <1>4, <1>5, <2>1, <3>1
      <4>2. R # <<>> /\ LastReading = R[Len(R)]
        BY <1>1, <1>4, <1>5, <2>1, <3>1 DEF LastReading
      <4>3. After(LastReading, Due)
        BY <1>2, <4>2 DEF SweepsInv, InARow
      <4> QED BY <4>1, <4>2, <4>3
    <3>2. CASE i # Len(kept)
      <4>1. i \in 1 .. Len(kept) /\ i + 1 \in 1 .. Len(kept)
        BY <1>4, <1>5, <2>1, <3>2
      <4>2. session'.records[i] = R[i + cut] /\ session'.records[i + 1] = R[(i + cut) + 1]
            /\ i + cut \in 1 .. Len(R) - 1
        BY <1>1, <1>4, <1>5, <4>1
      <4>3. After(R[i + cut], R[(i + cut) + 1])
        BY <4>2 DEF SweepsInv, InARow
      <4> QED BY <4>2, <4>3
    <3> QED BY <3>1, <3>2
  <2> QED BY <1>6, <2>1 DEF InARow
<1>9. SweepsKept'
  <2>1. run.cursor <= session.sequence
    BY DEF SweepsInv, SweepsKept
  <2>2. ASSUME run.overrun = 0, run.cursor # 0, Dropped' <= run.cursor
        PROVE  Sorted(run, session'.records[run.cursor - Dropped' + 1])
    <3>1. Dropped' = session.sequence - Len(kept) /\ Dropped = session.sequence - Len(R)
      BY <1>3, <1>4, <1>5 DEF Dropped
    <3>2. CASE run.cursor = session.sequence
      <4>1. run.cursor - Dropped' + 1 = Len(session'.records)
        BY <1>4, <1>5, <3>1, <3>2
      <4>2. Sorted(run, Due)
        BY <1>2, <2>2, <3>2 DEF SweepsInv, SweepsKept
      <4> QED BY <1>4, <4>1, <4>2
    <3>3. CASE run.cursor # session.sequence
      <4>1. /\ Dropped <= run.cursor
            /\ run.cursor - Dropped' + 1 \in 1 .. Len(kept)
            /\ (run.cursor - Dropped' + 1) + cut = run.cursor - Dropped + 1
        <5>1. session.sequence - Len(kept) <= run.cursor
          BY <2>2, <3>1
        <5> DEFINE c == run.cursor
                   n == session.sequence
                   k == Len(kept)
                   r == Len(R)
        <5>2. /\ c \in Int /\ n \in Int /\ k \in Int /\ r \in Int /\ k = r - cut /\ cut \in Int
              /\ c <= n /\ c # n /\ n - k <= c /\ cut >= 0
          BY <1>1, <1>5, <2>1, <3>3, <5>1
        <5>3. n - r <= c /\ c - (n - k) + 1 \in 1 .. k /\ (c - (n - k) + 1) + cut = c - (n - r) + 1
          <6> HIDE DEF c, n, k, r
          <6> QED BY <5>2
        <5> QED BY <3>1, <5>3
      <4>2. Sorted(run, R[run.cursor - Dropped + 1])
        BY <2>2, <3>3, <4>1 DEF SweepsInv, SweepsKept
      <4>3. session'.records[run.cursor - Dropped' + 1] = R[run.cursor - Dropped + 1]
        BY <1>1, <1>4, <4>1
      <4> QED BY <4>2, <4>3
    <3> QED BY <3>2, <3>3
  <2>3. run.cursor <= session'.sequence /\ run.cursor # session'.sequence
    BY <1>3, <1>5, <2>1
  <2> QED BY <2>2, <2>3 DEF SweepsInv, SweepsKept
<1> QED BY <1>3, <1>4, <1>6, <1>7, <1>8, <1>9

\* The step of the session that records: the rest of it is left alone.
LEMMA RecordedSays ==
  ASSUME SweepsInv, session.phase \in Measuring
  PROVE  /\ Recorded(session) \in Sessions /\ Recorded(session).phase = session.phase
         /\ Recorded(session).op = session.op /\ Recorded(session).step = session.step
         /\ Recorded(session).previous = session.previous
<1>1. PICK kept \in Histories :
        Recorded(session) = [session EXCEPT !.records = Append(kept, Due), !.sequence = @ + 1]
  BY RecordedIs
<1> DEFINE With(h, n) == [session EXCEPT !.records = h, !.sequence = n]
<1>2. ASSUME NEW h \in Histories, NEW n \in Nat
      PROVE  /\ With(h, n) \in Sessions /\ With(h, n).phase = session.phase
             /\ With(h, n).op = session.op /\ With(h, n).step = session.step
             /\ With(h, n).previous = session.previous
  BY SessionIs DEF Sessions
<1>3. Append(kept, Due) \in Histories /\ session.sequence + 1 \in Nat
  <2>1. Due \in Taking
    BY RecordedIs
  <2>2. Append(kept, Due) \in Histories
    BY <2>1 DEF Histories
  <2>3. session.sequence + 1 \in Nat
    BY SessionIs
  <2> QED BY <2>2, <2>3
<1>4. Recorded(session) = With(Append(kept, Due), session.sequence + 1)
  BY <1>1, SessionIs DEF Sessions
<1> HIDE DEF With
<1> QED BY <1>2, <1>3, <1>4

\* The readings of foreign calibrations, counted.
LEMMA ForeignIs ==
  ASSUME SweepsInv,
         truth' = [truth EXCEPT !.foreign = IF session.phase = "ExternalCalibration" THEN @ + 1 ELSE @]
  PROVE  /\ truth' \in Truths /\ truth'.starts = truth.starts /\ truth'.ended = truth.ended
         /\ truth'.foreign = IF session.phase = "ExternalCalibration" THEN truth.foreign + 1
                             ELSE truth.foreign
<1> DEFINE n == IF session.phase = "ExternalCalibration" THEN truth.foreign + 1 ELSE truth.foreign
<1>1. n \in Nat /\ truth' = [truth EXCEPT !.foreign = n]
  BY SessionIs
<1> HIDE DEF n
<1>2. /\ truth' \in Truths /\ truth'.starts = truth.starts /\ truth'.ended = truth.ended
      /\ truth'.foreign = n
  BY <1>1, SessionIs DEF Truths
<1> QED BY <1>2 DEF n

\* The steps that take a reading.
LEMMA ReadsKeeps ==
  ASSUME SweepsInv, Reads
  PROVE  SweepsInv'
<1>0. session.step = "idle" /\ session.phase \in Measuring
  BY DEF Reads, SweepsInv, Stepwise
<1>1. /\ session' = Recorded(session) /\ UNCHANGED <<calibrating, run, view, commands>>
      /\ truth' = [truth EXCEPT !.foreign = IF session.phase = "ExternalCalibration" THEN @ + 1 ELSE @]
  BY DEF Reads, Records
<1>2. /\ session' \in Sessions /\ session'.phase = session.phase
      /\ session'.op = session.op /\ session'.step = "idle"
  BY <1>0, <1>1, RecordedSays
<1>3. /\ truth' \in Truths /\ truth'.starts = truth.starts /\ truth'.ended = truth.ended
      /\ truth'.foreign = IF session.phase = "ExternalCalibration" THEN truth.foreign + 1
                          ELSE truth.foreign
  BY <1>1, ForeignIs
<1>4. Due \in Taking /\ Due.phase = session.phase
      /\ Due.starts = truth.starts /\ Due.foreign = truth.foreign
  BY <1>0, RecordedIs
<1>5. Comes(Due)
  <2>1. session.phase \in Later(session.phase)
    BY <1>0 DEF Later, Measuring
  <2> QED BY <1>0, <1>4, <2>1 DEF Comes, AtWrite
<1>6. \E kept \in Histories : session'.records = Append(kept, Due)
  BY <1>0, <1>1, RecordedIs, SessionIs DEF Sessions
<1>7. session'.records # <<>> /\ LastReading' = Due
  BY <1>4, <1>6 DEF Histories, LastReading
<1>8. ASSUME NEW x \in Taking, Comes(x)'
      PROVE  After(Due, x)
  <2>1. x.foreign = truth'.foreign /\ x.starts = truth.starts
    BY <1>2, <1>3, <1>8 DEF Comes
  <2>2. CASE session.phase = "ExternalCalibration"
    BY <1>3, <1>4, <2>1, <2>2 DEF After
  <2>3. CASE session.phase # "ExternalCalibration"
    <3>1. ~AfterForeign' /\ WasRead'
      BY <1>2, <1>4, <1>7, <2>3 DEF AfterForeign, WasRead, LastReading
    <3>2. x.phase \in Later(session.phase)
      BY <1>2, <1>8, <3>1 DEF Comes
    <3>3. session.phase \in {"Calibrating", "Calibrated"} => x.phase # "Monitoring"
      BY <3>2 DEF Later
    <3> QED BY <1>3, <1>4, <2>1, <2>3, <3>3 DEF After
  <2> QED BY <2>2, <2>3
<1>9. Retained' /\ InARow' /\ SweepsKept'
  BY <1>0, <1>1, <1>5, <1>8, TakingKeeps
<1>10. SweepsTypeOK'
  BY <1>1, <1>2, <1>3 DEF SweepsInv, SweepsTypeOK
<1>11. WasRead'
  BY <1>2, <1>4, <1>7 DEF WasRead, LastReading
<1>12. Stepwise'
  BY <1>0, <1>2, <1>11 DEF Stepwise, AtWrite
<1>13. EndKnown'
  BY <1>0, <1>1, <1>2, <1>3 DEF SweepsInv, EndKnown
<1> QED BY <1>9, <1>10, <1>12, <1>13 DEF SweepsInv

\* The reading that proves the path of a start.
LEMMA ProvesKeeps ==
  ASSUME SweepsInv, Proves
  PROVE  SweepsInv'
<1>0. /\ session.step = "prove" /\ session.phase \in {"Monitoring", "Calibrated"}
      /\ session.phase \in Measuring /\ session.op.action = "mag_start"
  BY DEF Proves, SweepsInv, Stepwise
<1>1. /\ session' = [Recorded(session) EXCEPT !.phase = "Starting", !.step = "write"]
      /\ UNCHANGED <<calibrating, run, view, commands>>
      /\ truth' = [truth EXCEPT !.foreign = IF session.phase = "ExternalCalibration" THEN @ + 1 ELSE @]
  BY DEF Proves
<1>2. /\ session' \in Sessions /\ session'.records = Recorded(session).records
      /\ session'.sequence = Recorded(session).sequence
      /\ session'.op = session.op /\ session'.step = "write"
  <2> DEFINE s == Recorded(session)
  <2>1. s \in Sessions /\ s.op = session.op /\ session' = [s EXCEPT !.phase = "Starting", !.step = "write"]
    BY <1>0, <1>1, RecordedSays
  <2> HIDE DEF s
  <2>2. /\ session' \in Sessions /\ session'.records = s.records
        /\ session'.sequence = s.sequence
        /\ session'.op = s.op /\ session'.step = "write"
    BY <2>1 DEF Sessions, SweepPhases, SweepSteps
  <2> QED BY <2>1, <2>2 DEF s
<1>3. /\ truth' \in Truths /\ truth'.starts = truth.starts /\ truth'.ended = truth.ended
      /\ truth'.foreign = truth.foreign
  BY <1>0, <1>1, ForeignIs
<1>4. Due \in Taking /\ Due.phase = session.phase
      /\ Due.starts = truth.starts /\ Due.foreign = truth.foreign
  BY <1>0, RecordedIs
<1>5. Comes(Due)
  BY <1>0, <1>4 DEF Comes, AtWrite
<1>6. ASSUME NEW x \in Taking, Comes(x)'
      PROVE  After(Due, x)
  <2>1. /\ x.foreign = truth.foreign /\ x.starts = truth.starts + 1 /\ x.phase = "Calibrating"
    BY <1>0, <1>2, <1>3, <1>6 DEF Comes, AtWrite
  <2> QED BY <1>0, <1>4, <2>1 DEF After
<1>7. Retained' /\ InARow' /\ SweepsKept' /\ session'.records # <<>> /\ LastReading' = Due
  BY <1>0, <1>1, <1>2, <1>5, <1>6, TakingKeeps
<1>8. SweepsTypeOK'
  BY <1>1, <1>2, <1>3 DEF SweepsInv, SweepsTypeOK
<1>9. Stepwise'
  BY <1>0, <1>2, <1>4, <1>7 DEF Stepwise, AtWrite, Actions
<1>10. EndKnown'
  BY <1>0, <1>1, <1>2, <1>3 DEF SweepsInv, EndKnown
<1> QED BY <1>7, <1>8, <1>9, <1>10 DEF SweepsInv

-----------------------------------------------------------------------------
(***************************************************************************)
(* Sweeps: the poll.  What taking the readings of the history one after    *)
(* the other comes to is an induction over them, as for the replies above. *)
(***************************************************************************)

\* Nothing was lost, and the reading behind the cursor is there or still to come.
Whole == run.overrun = 0 /\ (run.cursor = 0 \/ Dropped <= run.cursor)
Cut == IF run.cursor = 0 THEN 0 ELSE run.cursor - Dropped
FitsAt(r, i) ==
  IF i < Len(session.records) THEN Sorted(r, session.records[i + 1])
  ELSE \A x \in Taking : Comes(x) => Sorted(r, x)

\* Empty sweeps fit any reading.
LEMMA NothingFits ==
  ASSUME NEW r, r.last = "none", \A s \in SweepNames : r.sweeps[s] = {}
  PROVE  Consistent(r) /\ \A x : Sorted(r, x)
<1>1. Consistent(r)
  BY DEF Consistent, SweepNames
<1>2. ASSUME NEW x PROVE Sorted(r, x)
  BY DEF Sorted, SweepNames
<1> QED BY <1>1, <1>2

\* The numbers of the history and of the cursor.
LEMMA CountsAre ==
  ASSUME SweepsInv
  PROVE  /\ session.records \in Seq(Taking) /\ Len(session.records) \in Nat
         /\ session.sequence \in Nat /\ Dropped \in Nat
         /\ Dropped = session.sequence - Len(session.records)
         /\ session.sequence = Dropped + Len(session.records)
         /\ run \in Runs /\ run.cursor \in Nat /\ run.overrun \in Nat /\ run.verified \in BOOLEAN
         /\ run.cursor <= session.sequence
<1>1. /\ session.records \in Seq(Taking) /\ Len(session.records) \in Nat
      /\ session.sequence \in Nat
      /\ run \in Runs /\ run.cursor \in Nat /\ run.overrun \in Nat /\ run.verified \in BOOLEAN
  BY SessionIs DEF Histories, Runs
<1>2. Len(session.records) <= session.sequence /\ run.cursor <= session.sequence
  BY DEF SweepsInv, Retained, SweepsKept
<1> QED BY <1>1, <1>2 DEF Dropped

\* Where the readings that are taken begin.
LEMMA CutIs ==
  ASSUME SweepsInv, Whole
  PROVE  /\ Cut \in 0 .. Len(session.records) /\ Consistent(run) /\ FitsAt(run, Cut)
         /\ \A i \in 1 .. Len(session.records) : Dropped + i > run.cursor <=> i > Cut
<1>1. Cut \in 0 .. Len(session.records)
      /\ \A i \in 1 .. Len(session.records) : Dropped + i > run.cursor <=> i > Cut
  BY CountsAre DEF Whole, Cut
<1>2. Consistent(run) /\ FitsAt(run, Cut)
  <2>1. CASE run.cursor = 0
    <3>1. run.last = "none" /\ \A s \in SweepNames : run.sweeps[s] = {}
      BY <2>1 DEF SweepsInv, SweepsKept
    <3> QED BY <3>1, NothingFits DEF FitsAt
  <2>2. CASE run.cursor # 0 /\ run.cursor = session.sequence
    <3>1. Cut = Len(session.records)
      BY <2>2, CountsAre DEF Cut
    <3>2. Consistent(run) /\ \A x \in Taking : Comes(x) => Sorted(run, x)
      BY <2>2 DEF Whole, SweepsInv, SweepsKept
    <3> QED BY <3>1, <3>2, CountsAre DEF FitsAt
  <2>3. CASE run.cursor # 0 /\ run.cursor # session.sequence
    <3>1. Cut = run.cursor - Dropped /\ Cut < Len(session.records)
      BY <2>3, CountsAre DEF Cut
    <3>2. Consistent(run) /\ Sorted(run, session.records[run.cursor - Dropped + 1])
      BY <2>3 DEF Whole, SweepsInv, SweepsKept
    <3> QED BY <3>1, <3>2 DEF FitsAt
  <2> QED BY <2>1, <2>2, <2>3
<1> QED BY <1>1, <1>2

\* One reading more.
LEMMA NextFits ==
  ASSUME SweepsInv, NEW r \in Runs, Consistent(r), NEW i \in Nat, i < Len(session.records),
         FitsAt(r, i)
  PROVE  LET n == Taken(r, session.records[i + 1]) IN
         Consistent(n) /\ FitsAt(n, i + 1)
<1> DEFINE p == session.records[i + 1]
           n == Taken(r, p)
<1>1. p \in Taking /\ Sorted(r, p)
  BY CountsAre DEF FitsAt
<1>2. Consistent(n) /\ \A x \in Taking : After(p, x) => Sorted(n, x)
  BY <1>1, TakenSorts
<1>3. CASE i + 1 < Len(session.records)
  <2>1. session.records[(i + 1) + 1] \in Taking
    BY <1>3, CountsAre
  <2>2. After(session.records[i + 1], session.records[(i + 1) + 1])
    <3>1. i + 1 \in 1 .. Len(session.records) - 1
      BY <1>3, CountsAre
    <3> QED BY <3>1 DEF SweepsInv, InARow
  <2>3. Sorted(n, session.records[(i + 1) + 1])
    <3> HIDE DEF n
    <3> QED BY <1>2, <2>1, <2>2
  <2> HIDE DEF n
  <2>4. FitsAt(n, i + 1)
    BY <1>3, <2>3 DEF FitsAt
  <2> QED BY <1>2, <2>4 DEF n
<1>4. CASE ~(i + 1 < Len(session.records))
  <2>1. i + 1 = Len(session.records) /\ session.records # <<>> /\ LastReading = p
    BY <1>4, CountsAre DEF LastReading
  <2>2. \A x \in Taking : Comes(x) => After(p, x)
    BY <2>1 DEF SweepsInv, InARow
  <2> HIDE DEF n
  <2>3. FitsAt(n, i + 1)
    BY <1>2, <1>4, <2>2 DEF FitsAt
  <2> QED BY <1>2, <2>3 DEF n
<1> QED BY <1>3, <1>4

\* What a poll makes of the sweeps.
LEMMA AbsorbedSays ==
  ASSUME SweepsInv
  PROVE  /\ Absorbed \in Runs /\ Absorbed.cursor = run.cursor
         /\ Absorbed.overrun = run.overrun /\ Absorbed.verified = run.verified
         /\ session.records = <<>> => Absorbed = run
         /\ Whole => Consistent(Absorbed) /\ \A x \in Taking : Comes(x) => Sorted(Absorbed, x)
<1> DEFINE k == Len(session.records)
           Step(r, i) == TakenAt(r, i)
           Trail[i \in 0 .. k] == IF i = 0 THEN run ELSE TakenAt(Trail[i - 1], i)
<1>1. Trail = [i \in 0 .. k |-> IF i = 0 THEN run ELSE Step(Trail[i - 1], i)]
  <2>0. k \in Nat
    BY CountsAre
  <2> HIDE DEF Step, k
  <2>1. LET f[i \in 0 .. k] == IF i = 0 THEN run ELSE Step(f[i - 1], i)
        IN  f = [i \in 0 .. k |-> IF i = 0 THEN run ELSE Step(f[i - 1], i)]
    BY <2>0, RecursionDefines
  <2>2. QED BY <2>1 DEF Step
<1>2. Absorbed = Trail[k]
  BY DEF Absorbed
<1> HIDE DEF Trail
<1> DEFINE Says(r, n) ==
      /\ r \in Runs /\ r.cursor = run.cursor /\ r.overrun = run.overrun /\ r.verified = run.verified
      /\ Whole => Consistent(r) /\ (n <= Cut => r = run) /\ (n >= Cut => FitsAt(r, n))
    S == {n \in Nat : n <= k => Says(Trail[n], n)}
<1>3. Trail[0] = run
  BY <1>1, CountsAre
<1>4. 0 \in S
  <2>1. Whole => Consistent(run) /\ (0 >= Cut => FitsAt(run, 0))
    BY CutIs
  <2>2. QED BY <1>3, <2>1, CountsAre
<1>5. ASSUME NEW n \in Nat, n \in S PROVE n + 1 \in S
  <2>1. SUFFICES ASSUME n + 1 <= k PROVE Says(Trail[n + 1], n + 1)
    OBVIOUS
  <2>2. Says(Trail[n], n)
    BY <1>5, <2>1, CountsAre
  <2>3. Trail[n + 1] = TakenAt(Trail[n], n + 1)
    <3>1. n + 1 \in 0 .. k /\ n + 1 # 0 /\ (n + 1) - 1 = n
      BY <2>1, CountsAre
    <3> QED BY <1>1, <3>1
  <2> DEFINE r == Trail[n]
             t == Trail[n + 1]
             p == session.records[n + 1]
  <2>4. p \in Taking /\ n < k /\ n + 1 \in 1 .. k
    BY <2>1, CountsAre
  <2>5. t = IF Dropped + (n + 1) > run.cursor THEN Taken(r, p) ELSE r
    BY <2>3 DEF TakenAt, Dropped
  <2>6. /\ t \in Runs /\ t.cursor = run.cursor /\ t.overrun = run.overrun
        /\ t.verified = run.verified
    <3> HIDE DEF r, t, p
    <3>1. r \in Runs /\ r.cursor = run.cursor /\ r.overrun = run.overrun /\ r.verified = run.verified
      BY <2>2 DEF r
    <3> QED BY <2>4, <2>5, <3>1, TakenKeeps
  <2>7. ASSUME Whole
        PROVE  Consistent(t) /\ (n + 1 <= Cut => t = run) /\ (n + 1 >= Cut => FitsAt(t, n + 1))
    <3>1. Consistent(r) /\ (n <= Cut => r = run) /\ (n >= Cut => FitsAt(r, n)) /\ r \in Runs
      BY <2>2, <2>7
    <3>2. Cut \in 0 .. k /\ FitsAt(run, Cut) /\ (Dropped + (n + 1) > run.cursor <=> n + 1 > Cut)
      BY <2>4, <2>7, CutIs
    <3>3. CASE n + 1 > Cut
      <4>1. n >= Cut /\ t = Taken(r, p)
        BY <2>5, <3>2, <3>3
      <4>2. Consistent(Taken(r, p)) /\ FitsAt(Taken(r, p), n + 1)
        BY <2>4, <3>1, <4>1, NextFits
      <4> HIDE DEF r, t, p
      <4> QED BY <3>2, <3>3, <4>1, <4>2
    <3>4. CASE ~(n + 1 > Cut)
      <4>1. n <= Cut /\ t = r
        BY <2>5, <3>2, <3>4
      <4>2. t = run
        BY <3>1, <4>1
      <4> HIDE DEF r, t, p
      <4>3. n + 1 >= Cut => n + 1 = Cut
        BY <3>2, <3>4
      <4> QED BY <2>7, <3>2, <4>2, <4>3, CutIs
    <3> QED BY <3>3, <3>4
  <2>8. QED BY <2>6, <2>7
<1>6. k \in S
  <2>1. k \in Nat
    BY CountsAre
  <2> HIDE DEF S
  <2>2. QED BY <1>4, <1>5, <2>1, SetInduction
<1>7. Says(Absorbed, k)
  BY <1>2, <1>6, CountsAre
<1>8. session.records = <<>> => Absorbed = run
  BY <1>2, <1>3
<1>9. Whole => FitsAt(Absorbed, k)
  BY <1>7, CutIs
<1>10. Whole => \A x \in Taking : Comes(x) => Sorted(Absorbed, x)
  BY <1>9, CountsAre DEF FitsAt
<1> QED BY <1>7, <1>8, <1>10

\* A poll misses nothing exactly when the reading behind the cursor is still there.
LEMMA MissedIs ==
  ASSUME SweepsInv
  PROVE  Missed \in Nat /\ (Missed = 0 => run.cursor = 0 \/ Dropped <= run.cursor)
BY CountsAre DEF Missed

\* A poll.
LEMMA PollsKeeps ==
  ASSUME SweepsInv, Polls
  PROVE  SweepsInv'
<1> DEFINE verified == EndVerified(session.op, run.verified)
<1>20. UNCHANGED <<calibrating, session, commands, truth>>
      /\ view' = [phase |-> session.phase, op |-> session.op]
  BY DEF Polls
<1>1. verified \in BOOLEAN
  BY SessionIs DEF EndVerified, Ops, Runs
<1>2. /\ Absorbed \in Runs /\ Absorbed.cursor = run.cursor
      /\ Absorbed.overrun = run.overrun /\ Absorbed.verified = run.verified
  BY AbsorbedSays
<1>3. /\ run' \in Runs /\ run'.cursor = session.sequence
      /\ run'.overrun = run.overrun + Missed /\ run'.verified = verified
      /\ run'.sweeps = Absorbed.sweeps /\ run'.last = Absorbed.last
  <2> DEFINE With(c, o, v) == [Absorbed EXCEPT !.cursor = c, !.overrun = o, !.verified = v]
  <2>1. run' = With(session.sequence, run.overrun + Missed, verified)
    BY <1>2 DEF Polls, Runs
  <2>2. ASSUME NEW c \in Nat, NEW o \in Nat, NEW v \in BOOLEAN
        PROVE  /\ With(c, o, v) \in Runs /\ With(c, o, v).cursor = c
               /\ With(c, o, v).overrun = o /\ With(c, o, v).verified = v
               /\ With(c, o, v).sweeps = Absorbed.sweeps /\ With(c, o, v).last = Absorbed.last
    BY <1>2 DEF Runs
  <2>3. session.sequence \in Nat /\ run.overrun + Missed \in Nat
    BY CountsAre, MissedIs
  <2> HIDE DEF With, verified
  <2> QED BY <1>1, <2>1, <2>2, <2>3
<1> HIDE DEF verified
<1>4. ASSUME run'.overrun = 0
      PROVE  Consistent(Absorbed) /\ \A x \in Taking : Comes(x) => Sorted(Absorbed, x)
  <2>1. run.overrun = 0 /\ Missed = 0
    BY <1>3, <1>4, CountsAre, MissedIs
  <2> QED BY <2>1, MissedIs, AbsorbedSays DEF Whole
<1>5. Retained' /\ InARow' /\ Stepwise'
  BY <1>20 DEF SweepsInv, Retained, InARow, Stepwise, WasRead, AtWrite, LastReading, Comes, AfterForeign
<1>6. SweepsKept'
  <2>1. run'.cursor <= session'.sequence /\ run'.cursor = session'.sequence
    BY <1>3, <1>20, CountsAre
  <2>2. ASSUME run'.cursor = 0
        PROVE  run'.last = "none" /\ \A s \in SweepNames : run'.sweeps[s] = {}
    <3>1. session.records = <<>> /\ run.cursor = 0
      <4>1. session.sequence = 0
        BY <1>3, <2>2
      <4>2. Len(session.records) <= session.sequence
        BY DEF SweepsInv, Retained
      <4>3. run.cursor <= 0 /\ Len(session.records) <= 0
        BY <4>1, <4>2, CountsAre
      <4>4. ASSUME NEW n \in Nat, n <= 0
            PROVE  n = 0
        BY <4>4
      <4>5. Len(session.records) = 0 /\ run.cursor = 0
        BY <4>3, <4>4, CountsAre
      <4> QED BY <4>5, CountsAre
    <3>2. run'.sweeps = run.sweeps /\ run'.last = run.last
      BY <1>3, <3>1, AbsorbedSays
    <3> QED BY <3>1, <3>2 DEF SweepsInv, SweepsKept
  <2>3. ASSUME run'.overrun = 0
        PROVE  Consistent(run')
    BY <1>3, <1>4, <2>3 DEF Consistent
  <2>4. ASSUME run'.overrun = 0, NEW x \in Taking, Comes(x)'
        PROVE  Sorted(run', x)
    <3>1. Comes(x)
      BY <1>20, <2>4 DEF Comes, WasRead, AtWrite, LastReading, AfterForeign
    <3>2. Sorted(Absorbed, x)
      BY <1>4, <2>4, <3>1
    <3> QED BY <1>3, <3>2 DEF Sorted
  <2> QED BY <2>1, <2>2, <2>3, <2>4 DEF SweepsKept
<1>7. SweepsTypeOK'
  <2>1. view' \in Shown
    BY <1>20, SessionIs DEF Shown
  <2> QED BY <1>3, <1>20, <2>1 DEF SweepsInv, SweepsTypeOK
<1>8. EndKnown'
  <2>1. view'.op = session.op
    BY <1>20
  <2>2. run'.verified => truth.ended
    <3> SUFFICES ASSUME verified PROVE truth.ended
      BY <1>3
    <3>1. CASE session.op.action = "mag_start" /\ session.op.attempted
      BY <3>1 DEF verified, EndVerified
    <3>2. CASE session.op.action = "mag_stop"
      BY <3>2 DEF verified, EndVerified, SweepsInv, EndKnown
    <3>3. CASE ~(session.op.action = "mag_start" /\ session.op.attempted)
               /\ session.op.action # "mag_stop"
      <4>1. verified = run.verified
        BY <3>3 DEF verified, EndVerified
      <4> QED BY <3>3, <4>1 DEF SweepsInv, EndKnown
    <3> QED BY <3>1, <3>2, <3>3
  <2> QED BY <1>20, <2>1, <2>2 DEF SweepsInv, EndKnown
<1> QED BY <1>5, <1>6, <1>7, <1>8 DEF SweepsInv

-----------------------------------------------------------------------------
(***************************************************************************)
(* Sweeps: theorems.                                                       *)
(***************************************************************************)

\* The invariant at first.
LEMMA SweepsStarts == SweepsInit => SweepsInv
<1> SUFFICES ASSUME SweepsInit PROVE SweepsInv
  OBVIOUS
<1>1. NoCommand \in Ops /\ NoCommand.action = "none" /\ ~NoCommand.attempted /\ ~NoCommand.verified
  BY DEF NoCommand, Ops
<1>2. /\ session.records = <<>> /\ session.sequence = 0 /\ session.op = NoCommand
      /\ session.step = "open" /\ run.cursor = 0 /\ run.last = "none" /\ run.verified = FALSE
      /\ run.overrun = 0 /\ \A s \in SweepNames : run.sweeps[s] = {}
  BY DEF SweepsInit
<1>3. session \in Sessions
  <2>1. <<>> \in Histories
    BY DEF Histories
  <2> QED BY <1>1, <2>1 DEF SweepsInit, Sessions, SweepPhases, SweepSteps
<1>4. run \in Runs
  <2>1. [s \in SweepNames |-> {}] \in SweepSets
    BY DEF SweepSets
  <2>2. "none" \in LastSweeps
    BY DEF LastSweeps
  <2> QED BY <2>1, <2>2 DEF SweepsInit, Runs
<1>5. view \in Shown /\ truth \in Truths /\ calibrating \in BOOLEAN /\ commands \in Nat
  BY <1>1 DEF SweepsInit, Shown, Truths, SweepPhases
<1>6. SweepsTypeOK
  BY <1>3, <1>4, <1>5 DEF SweepsTypeOK
<1>7. Retained /\ InARow /\ Stepwise /\ EndKnown
  BY <1>1, <1>2 DEF Retained, InARow, Stepwise, EndKnown, AtWrite
<1>8. SweepsKept
  BY <1>2, NothingFits DEF SweepsKept
<1> QED BY <1>6, <1>7, <1>8 DEF SweepsInv

\* The invariant is kept by every step.
LEMMA SweepsSteps ==
  ASSUME SweepsInv, [SweepsNext]_sweepsVars
  PROVE  SweepsInv'
<1>1. CASE UNCHANGED sweepsVars
  BY <1>1 DEF sweepsVars, SweepsInv, SweepsTypeOK, Retained, Stepwise, InARow, SweepsKept, EndKnown,
     WasRead, AtWrite, LastReading, Comes, AfterForeign, Dropped
<1>2. CASE SweepsNext
  BY <1>2, OpensKeeps, ReadsKeeps, ReadsControlKeeps, ChecksKeeps, ProvesKeeps, AttemptsKeeps,
     VerifiesKeeps, EndsKeeps, OthersKeeps, PollsKeeps, SendsKeeps DEF SweepsNext
<1> QED BY <1>1, <1>2

\* The invariant holds.
LEMMA SweepsHold == SweepsSpec => []SweepsInv
BY SweepsStarts, SweepsSteps, PTL DEF SweepsSpec

\* The session, what the client keeps of it and what the panel shows have their
\* types, for a history of any length (magnetic.rs State, Run, Stage).
THEOREM SweepsTypeCorrect == SweepsSpec => []SweepsTypeOK
<1>1. SweepsInv => SweepsTypeOK
  BY DEF SweepsInv
<1> QED BY <1>1, SweepsHold, PTL

\* As long as the client missed no reading, no sweep lies on both sides of a
\* calibration of another program of which a reading was taken, and the readings during a calibration are
\* of one, however polls, commands and the other program interleave
\* (Sweeps::absorb).
THEOREM SweepsStayApart == SweepsSpec => []SweepsDoNotMix
<1>1. SweepsInv => SweepsDoNotMix
  BY DEF SweepsInv, SweepsKept, Consistent, SweepsDoNotMix, SweepNames
<1> QED BY <1>1, SweepsHold, PTL

\* As long as the client missed no reading, between what is compared, before and
\* after, lies one calibration of this session at most (Sweeps::absorb).
THEOREM OneCalibrationIsCompared == SweepsSpec => []ComparesOneCalibration
<1>1. ASSUME SweepsInv
      PROVE  ComparesOneCalibration
  <2> SUFFICES ASSUME run.overrun = 0, NEW r \in run.sweeps["before"], NEW q \in run.sweeps["after"]
               PROVE  q.starts <= r.starts + 1 /\ r.starts <= q.starts
    BY DEF ComparesOneCalibration
  <2>1. q.starts \in {r.starts, r.starts + 1}
    BY <1>1 DEF SweepsInv, SweepsKept, Consistent
  <2>2. r.starts \in Nat
    BY <1>1, CountsAre DEF Runs, SweepSets, SweepNames, Taking
  <2> QED BY <2>1, <2>2
<1> QED BY <1>1, SweepsHold, PTL

\* The panel does not call a calibration ended when the latest start of this
\* session was not (Run::absorb, end_verified), unless it has not polled since.
THEOREM VerifiedEndsAreHonest == SweepsSpec => []EndVerifiedIsHonest
<1>1. SweepsInv => EndVerifiedIsHonest
  BY DEF SweepsInv, EndKnown, EndVerifiedIsHonest
<1> QED BY <1>1, SweepsHold, PTL

=============================================================================
