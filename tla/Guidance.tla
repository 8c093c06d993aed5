------------------------------- MODULE Guidance -------------------------------
(***************************************************************************)
(* What the client tells the listener to do with the sensor on the head:   *)
(* the mounting chosen axis by axis, its check by three motions, and the   *)
(* magnetic sweep in which each instruction turns the headset towards the  *)
(* nearest direction not read yet.  A mounting names, for each head        *)
(* direction (right, forward, up), the signed sensor axis along it; turns  *)
(* are quarter turns, and the grid of directions has one cell per octant.  *)
(* The worker publishes poses and its view of the connection separately,   *)
(* and the panel is drawn from whatever it has of both.                    *)
(***************************************************************************)
EXTENDS Integers, FiniteSets

CONSTANTS
  Truths,    \* how the sensor may really sit
  Tried,     \* the mountings the listener connects or sweeps with
  Loaded,    \* the mountings the preferences may have been saved with, of any kind
  MaxEpochs, \* bound of the sessions of the connection
  MaxWasted  \* bound of the turns of a sweep in a row that show nothing new

Axes == -3 .. 3
HeadDirs == 1 .. 3

-----------------------------------------------------------------------------
(***************************************************************************)
(* mounting.rs and coverage.rs: signed axes and directions.                *)
(***************************************************************************)

Abs(a) == IF a < 0 THEN -a ELSE a
Sign(a) == IF a < 0 THEN -1 ELSE 1
Unit(a) == CASE Abs(a) = 1 -> <<Sign(a), 0, 0>> [] Abs(a) = 2 -> <<0, Sign(a), 0>>
             [] Abs(a) = 3 -> <<0, 0, Sign(a)>> [] OTHER -> <<0, 0, 0>>
Dot(v, w) == v[1] * w[1] + v[2] * w[2] + v[3] * w[3]
Cross(v, w) == << v[2] * w[3] - v[3] * w[2], v[3] * w[1] - v[1] * w[3],
                  v[1] * w[2] - v[2] * w[1] >>

Distinct(m) == \A i, j \in HeadDirs : i # j /\ m[i] # 0 => Abs(m[i]) # Abs(m[j])
RightHanded(m) == Cross(Unit(m[1]), Unit(m[2])) = Unit(m[3])
Proper(m) == (\A i \in HeadDirs : m[i] # 0) /\ RightHanded(m)
Rotations == {m \in [HeadDirs -> Axes \ {0}] : Proper(m)}

ASSUME GuidanceAssumption ==
  /\ Truths \subseteq Rotations
  /\ Tried \subseteq [HeadDirs -> Axes] /\ Loaded \subseteq [HeadDirs -> Axes]
  /\ MaxEpochs \in Nat /\ MaxWasted \in Nat

\* Three axes must make a rotation; fewer must leave one possible.
CanComplete(m) ==
  Distinct(m) /\ ((\A i \in HeadDirs : m[i] # 0) => RightHanded(m))
AllowsAxis(m, i, a) == a = 0 \/ CanComplete([m EXCEPT ![i] = a])

\* A sensor vector in the headset's axes, and the other way around.
HeadsetAxes(m, s) == <<Dot(Unit(m[1]), s), Dot(Unit(m[2]), s), Dot(Unit(m[3]), s)>>
SensorAxes(m, h) ==
  LET along(i) == h[1] * Unit(m[1])[i] + h[2] * Unit(m[2])[i] + h[3] * Unit(m[3])[i] IN
  <<along(1), along(2), along(3)>>

\* observe: what a turn of the head about axis t > 0, or the other way about
\* -t, is seen as under mounting m by a sensor that sits so.
Observed(sits, m, t) ==
  LET turned == IF t > 0 THEN sits[t] ELSE -sits[-t]
      axis == CHOOSE i \in HeadDirs : Abs(m[i]) = Abs(turned) IN
  [axis |-> axis, positive |-> m[axis] = turned]
\* record: the signed sensor axis a motion named.
Named(m, motion, o) == IF o.positive THEN m[o.axis] ELSE -m[o.axis]

\* Faulty variant of Resolves: three different axes are enough.
ResolvesDistinct(found) ==
  LET m == [i \in HeadDirs |-> found[i].axis] IN (\A i \in HeadDirs : m[i] # 0) /\ Distinct(m)
\* resolve: three motions that describe a rotation.
Resolves(found) ==
  LET m == [i \in HeadDirs |-> found[i].axis] IN
  (\A i \in HeadDirs : m[i] # 0) /\ Distinct(m) /\ RightHanded(m)

Cells == {<<x, y, z>> : x, y, z \in {-1, 1}}
\* The nearest cells not read, of which next takes one.
Nearest(read, at) ==
  LET empty == Cells \ read IN
  {c \in empty : \A d \in empty : Dot(d, at) <= Dot(c, at)}
\* Faulty variant of Towards: the field is taken to turn with the headset.
TowardsField(at, target) ==
  LET axis == Cross(at, target) IN
  {[motion |-> i, positive |-> axis[i] > 0] :
     i \in {j \in HeadDirs : \A k \in HeadDirs : Abs(axis[k]) <= Abs(axis[j])}}
\* The motion that carries the reading to the target: about the largest
\* component of target x reading, any of those that tie.
Towards(at, target) ==
  LET axis == Cross(target, at) IN
  {[motion |-> i, positive |-> axis[i] > 0] :
     i \in {j \in HeadDirs : \A k \in HeadDirs : Abs(axis[k]) <= Abs(axis[j])}}

\* The headset turns a quarter; the field, in its axes, turns the other way.
Turned(at, next) ==
  LET k == Unit(IF next.positive THEN next.motion ELSE -next.motion)
      across == Cross(k, at) IN
  <<Dot(k, at) * k[1] - across[1], Dot(k, at) * k[2] - across[2], Dot(k, at) * k[3] - across[3]>>

-----------------------------------------------------------------------------
VARIABLES
  real,      \* how the sensor sits
  mounting,  \* preferences: the chosen mounting
  link,      \* the worker's connection: on, its mounting, its session
  heard,     \* what the panel last heard of it
  sample,    \* the session of the latest fresh pose, 0 for none
  check,     \* the mounting check of the panel
  sweep      \* one sweep of a magnetic session

guidanceVars == <<real, mounting, link, heard, sample, check, sweep>>

Off == [on |-> FALSE, mounting |-> <<0, 0, 0>>, epoch |-> 0]
NoCapture == [motion |-> 0, start |-> 0]
NotFound == [axis |-> 0, whole |-> TRUE]
Unchecked(source) ==
  [source |-> source, found |-> [i \in HeadDirs |-> NotFound], capture |-> NoCapture]
NoSweep == [open |-> FALSE, mounting |-> <<0, 0, 0>>, at |-> <<1, 1, 1>>, read |-> {},
            wasted |-> 0]

GuidanceInit ==
  /\ real \in Truths /\ mounting \in Loaded
  /\ link = Off /\ heard = Off /\ sample = 0 /\ check = Unchecked(Off) /\ sweep = NoSweep

\* Faulty variant of CurrentSource: a session is as good as the one before it.
SourceOfDevice ==
  IF sample # 0 /\ heard.on /\ heard.mounting = mounting THEN [heard EXCEPT !.epoch = 0] ELSE Off
\* CheckSource::current: a fresh pose, of a connection with the chosen mounting.
CurrentSource == IF sample # 0 /\ heard.on /\ heard.mounting = mounting THEN heard ELSE Off
\* Every frame of the panel begins with it: another source starts over.
Sourced == IF check.source = CurrentSource THEN check ELSE Unchecked(CurrentSource)

\* mounting_input, only while nothing runs on the device: an axis is chosen or
\* cleared, or all choices are.
Picks ==
  /\ ~link.on /\ ~sweep.open
  /\ \/ \E i \in HeadDirs, a \in Axes :
          AllowsAxis(mounting, i, a) /\ mounting' = [mounting EXCEPT ![i] = a]
     \/ mounting' = <<0, 0, 0>>
  /\ check' = Sourced /\ UNCHANGED <<real, link, heard, sample, sweep>>

Connects ==
  /\ ~link.on /\ ~sweep.open /\ mounting \in Tried /\ Proper(mounting)
  /\ link.epoch < MaxEpochs
  /\ link' = [on |-> TRUE, mounting |-> mounting, epoch |-> link.epoch + 1]
  /\ heard' = [heard EXCEPT !.on = FALSE] /\ sample' = 0
  /\ check' = Sourced /\ UNCHANGED <<real, mounting, sweep>>
\* A reconnection, with a new reference: earlier poses do not compare with later.
Restarts ==
  /\ link.on /\ link.epoch < MaxEpochs /\ link' = [link EXCEPT !.epoch = @ + 1]
  /\ UNCHANGED <<real, mounting, heard, sample, check, sweep>>
Disconnects ==
  /\ link.on /\ link' = [link EXCEPT !.on = FALSE]
  /\ heard' = [heard EXCEPT !.on = FALSE] /\ sample' = 0
  /\ UNCHANGED <<real, mounting, check, sweep>>

\* The pose is published every 5 ms, the view every 100 ms and then with a pose
\* that is no older: one of another session was taken back.
Samples ==
  /\ link.on /\ sample' \in {0, link.epoch} /\ sample' # sample
  /\ UNCHANGED <<real, mounting, link, heard, check, sweep>>
PublishesLink ==
  /\ heard # link /\ heard' = link
  /\ sample' = IF sample = link.epoch THEN sample ELSE 0
  /\ UNCHANGED <<real, mounting, link, check, sweep>>

\* What the listener may do when asked for a motion: the motion, the motion the
\* other way, another one, or 0, a turn too small or about several axes.
Turns(motion) == {motion, -motion, (motion % 3) + 1, 0}

\* advance_check, before anything is drawn: a capture is recorded when its time is up, by the largest turn of its frames.
Found(c, peak, whole) ==
  LET m == c.source.mounting  motion == c.capture.motion IN
  IF peak = 0 THEN NotFound
  ELSE [axis |-> Named(m, motion, Observed(real, m, peak)), whole |-> whole]
Recorded(c, peak, whole) ==
  [c EXCEPT !.capture = NoCapture, !.found[c.capture.motion] = Found(c, peak, whole)]
Peaks(c) == IF c.capture.motion = 0 THEN {} ELSE Turns(c.capture.motion)
Wholes(c) == {TRUE, c.capture.start = sample}
Advanced ==
  {Sourced} \cup
    {Recorded(Sourced, peak, whole) : peak \in Peaks(Sourced), whole \in Wholes(Sourced)}

\* check_row and check_result: a motion starts or is stopped, and what the three
\* describe may be taken for the mounting.
Started(c, motion) ==
  [c EXCEPT !.found[motion] = NotFound,
            !.capture = [motion |-> motion, start |-> sample]]
Frame ==
  /\ \E c \in Advanced :
       \/ check' = c /\ UNCHANGED mounting
       \/ /\ c.source.on /\ c.capture.motion = 0 /\ UNCHANGED mounting
          /\ \E motion \in HeadDirs : check' = Started(c, motion)
       \/ c.capture.motion # 0 /\ check' = [c EXCEPT !.capture = NoCapture] /\ UNCHANGED mounting
       \/ /\ c.source.on /\ Resolves(c.found)
          /\ mounting' = [i \in HeadDirs |-> c.found[i].axis] /\ mounting' # mounting
          /\ check' = Unchecked(Off)
  /\ UNCHANGED <<real, link, heard, sample, sweep>>

-----------------------------------------------------------------------------
\* A magnetic session holds the device instead, from a mounting that is a rotation.
Opens ==
  /\ ~link.on /\ ~sweep.open /\ Proper(mounting) /\ mounting \in Tried \cup {real}
  /\ \E at \in Cells :
       sweep' = [open |-> TRUE, mounting |-> mounting, at |-> at,
                 read |-> {HeadsetAxes(mounting, SensorAxes(real, at))}, wasted |-> 0]
  /\ check' = Sourced /\ UNCHANGED <<real, mounting, link, heard, sample>>
\* The listener does what the panel says, and the field is read again.  Until
\* so many turns in a row showed nothing new: nobody goes on for ever.
Follows ==
  /\ sweep.open /\ sweep.wasted < MaxWasted
  /\ \E shown \in {HeadsetAxes(sweep.mounting, SensorAxes(real, sweep.at))} :
     \E target \in Nearest(sweep.read, shown) : \E next \in Towards(shown, target) :
     LET at == Turned(sweep.at, next)
         seen == HeadsetAxes(sweep.mounting, SensorAxes(real, at)) IN
     sweep' = [sweep EXCEPT !.at = at, !.read = @ \cup {seen},
                 !.wasted = IF seen \in sweep.read THEN @ + 1 ELSE 0]
  /\ UNCHANGED <<real, mounting, link, heard, sample, check>>
Closes ==
  /\ sweep.open /\ sweep' = NoSweep
  /\ UNCHANGED <<real, mounting, link, heard, sample, check>>

GuidanceNext ==
  \/ Picks \/ Connects \/ Restarts \/ Disconnects \/ Samples \/ PublishesLink \/ Frame
  \/ Opens \/ Follows \/ Closes

GuidanceSpec == GuidanceInit /\ [][GuidanceNext]_guidanceVars

-----------------------------------------------------------------------------
(***************************************************************************)
(* Properties.                                                             *)
(***************************************************************************)

\* Whatever sets an axis, a choice or a check taken over, leaves the axes of some
\* rotation, even where the preferences held a mounting that cannot be completed;
\* and a choice that is of a rotation stays so, cleared ones included: the
\* listener is never led where an earlier choice must be taken back.
OfARotation(m) == \E n \in Rotations : \A i \in HeadDirs : m[i] # 0 => m[i] = n[i]
SetsAnAxis(from, to) == \E i \in HeadDirs : to[i] \notin {0, from[i]}
ChoiceIsOfARotation ==
  [][OfARotation(mounting) \/ SetsAnAxis(mounting, mounting') => OfARotation(mounting')]_mounting

\* A check with at most one motion done wrong (the other way, about another
\* axis) describes the sensor as it sits or nothing: a slip is refused, whatever
\* mounting the motions were read under.
OneSlipIsCaught ==
  Resolves(check.found) /\ Cardinality({i \in HeadDirs : check.found[i].axis # real[i]}) <= 1
    => \A i \in HeadDirs : check.found[i].axis = real[i]

\* Once the panel has heard of the connection as it is and drawn itself from it,
\* no result it holds was measured from a pose of one session to a pose of another.
ResultsAreOfOneSource ==
  heard = link /\ check.source = CurrentSource => \A i \in HeadDirs : check.found[i].whole

\* With the mounting as the sensor sits, a listener who does what each
\* instruction says comes to a direction not read yet in three quarter turns at
\* the most, wherever the sweep stands: every direction is read in the end.
EveryTurnLeadsOn ==
  sweep.open /\ sweep.mounting = real /\ sweep.read # Cells => sweep.wasted <= 2

=============================================================================
