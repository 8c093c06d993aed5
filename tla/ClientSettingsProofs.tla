------------------------ MODULE ClientSettingsProofs ------------------------
(***************************************************************************)
(* Proofs about ClientSettings and the device command it runs over: an     *)
(* operation is what it says, however it ended and whatever was lost; no   *)
(* order of commands breaks the full frame; what is called valid, verified *)
(* or applied is what the device is set to.                                *)
(***************************************************************************)
EXTENDS ClientSettings, SequenceTheorems, TLAPS

-----------------------------------------------------------------------------
(***************************************************************************)
(* The plans.  They are built by concatenation, of which the provers know  *)
(* little, so each plan is first written out.                              *)
(***************************************************************************)

LEMMA JoinIs ==
  ASSUME NEW S, NEW s \in Seq(S), NEW t \in Seq(S), NEW u \in Seq(S),
         Len(u) = Len(s) + Len(t),
         \A i \in 1 .. Len(s) : u[i] = s[i],
         \A i \in 1 .. Len(t) : u[Len(s) + i] = t[i]
  PROVE  s \o t = u
<1>1. Len(s) \in Nat /\ Len(t) \in Nat
  OBVIOUS
<1>2. s \o t \in Seq(S) /\ Len(s \o t) = Len(u)
  BY ConcatProperties
<1>3. ASSUME NEW i \in 1 .. Len(u) PROVE (s \o t)[i] = u[i]
  <2>1. (s \o t)[i] = IF i <= Len(s) THEN s[i] ELSE t[i - Len(s)]
    BY ConcatProperties
  <2>2. CASE i <= Len(s)
    BY <1>1, <2>1, <2>2
  <2>3. CASE ~(i <= Len(s))
    <3>1. i - Len(s) \in 1 .. Len(t) /\ Len(s) + (i - Len(s)) = i
      BY <1>1, <2>3
    <3>2. u[Len(s) + (i - Len(s))] = t[i - Len(s)]
      BY <3>1
    <3>3. QED BY <2>1, <2>3, <3>1, <3>2
  <2>4. QED BY <2>2, <2>3
<1>4. QED BY <1>2, <1>3, SeqEqual

LEMMA Join1And1 ==
  ASSUME NEW a, NEW b
  PROVE  <<a>> \o <<b>>
           = <<a, b>>
<1> DEFINE S == {a, b}
           s == <<a>>
           t == <<b>>
           u == <<a, b>>
<1>1. s \in Seq(S) /\ t \in Seq(S) /\ u \in Seq(S) /\ Len(u) = Len(s) + Len(t)
  OBVIOUS
<1>2. (\A n \in 1 .. Len(s) : u[n] = s[n]) /\ \A n \in 1 .. Len(t) : u[Len(s) + n] = t[n]
  <2>1. Len(s) = 1 /\ Len(t) = 1 /\ u[1] = s[1] /\ u[2] = t[1]
    OBVIOUS
  <2> HIDE DEF s, t, u
  <2>2. QED BY <2>1
<1> HIDE DEF S, s, t, u
<1>3. s \o t = u
  BY <1>1, <1>2, JoinIs
<1>4. QED BY <1>3 DEF s, t, u

LEMMA Join1And3 ==
  ASSUME NEW a, NEW b, NEW c, NEW d
  PROVE  <<a>> \o <<b, c, d>>
           = <<a, b, c, d>>
<1> DEFINE S == {a, b, c, d}
           s == <<a>>
           t == <<b, c, d>>
           u == <<a, b, c, d>>
<1>1. s \in Seq(S) /\ t \in Seq(S) /\ u \in Seq(S) /\ Len(u) = Len(s) + Len(t)
  OBVIOUS
<1>2. (\A n \in 1 .. Len(s) : u[n] = s[n]) /\ \A n \in 1 .. Len(t) : u[Len(s) + n] = t[n]
  OBVIOUS
<1> HIDE DEF S, s, t, u
<1>3. s \o t = u
  BY <1>1, <1>2, JoinIs
<1>4. QED BY <1>3 DEF s, t, u

LEMMA Join2And3 ==
  ASSUME NEW a, NEW b, NEW c, NEW d, NEW e
  PROVE  <<a, b>> \o <<c, d, e>>
           = <<a, b, c, d, e>>
<1> DEFINE S == {a, b, c, d, e}
           s == <<a, b>>
           t == <<c, d, e>>
           u == <<a, b, c, d, e>>
<1>1. s \in Seq(S) /\ t \in Seq(S) /\ u \in Seq(S) /\ Len(u) = Len(s) + Len(t)
  OBVIOUS
<1>2. (\A n \in 1 .. Len(s) : u[n] = s[n]) /\ \A n \in 1 .. Len(t) : u[Len(s) + n] = t[n]
  OBVIOUS
<1> HIDE DEF S, s, t, u
<1>3. s \o t = u
  BY <1>1, <1>2, JoinIs
<1>4. QED BY <1>3 DEF s, t, u

LEMMA Join3And2 ==
  ASSUME NEW a, NEW b, NEW c, NEW d, NEW e
  PROVE  <<a, b, c>> \o <<d, e>>
           = <<a, b, c, d, e>>
<1> DEFINE S == {a, b, c, d, e}
           s == <<a, b, c>>
           t == <<d, e>>
           u == <<a, b, c, d, e>>
<1>1. s \in Seq(S) /\ t \in Seq(S) /\ u \in Seq(S) /\ Len(u) = Len(s) + Len(t)
  OBVIOUS
<1>2. (\A n \in 1 .. Len(s) : u[n] = s[n]) /\ \A n \in 1 .. Len(t) : u[Len(s) + n] = t[n]
  OBVIOUS
<1> HIDE DEF S, s, t, u
<1>3. s \o t = u
  BY <1>1, <1>2, JoinIs
<1>4. QED BY <1>3 DEF s, t, u

LEMMA Join3And3 ==
  ASSUME NEW a, NEW b, NEW c, NEW d, NEW e, NEW f
  PROVE  <<a, b, c>> \o <<d, e, f>>
           = <<a, b, c, d, e, f>>
<1> DEFINE S == {a, b, c, d, e, f}
           s == <<a, b, c>>
           t == <<d, e, f>>
           u == <<a, b, c, d, e, f>>
<1>1. s \in Seq(S) /\ t \in Seq(S) /\ u \in Seq(S) /\ Len(u) = Len(s) + Len(t)
  OBVIOUS
<1>2. (\A n \in 1 .. Len(s) : u[n] = s[n]) /\ \A n \in 1 .. Len(t) : u[Len(s) + n] = t[n]
  OBVIOUS
<1> HIDE DEF S, s, t, u
<1>3. s \o t = u
  BY <1>1, <1>2, JoinIs
<1>4. QED BY <1>3 DEF s, t, u

LEMMA Join4And1 ==
  ASSUME NEW a, NEW b, NEW c, NEW d, NEW e
  PROVE  <<a, b, c, d>> \o <<e>>
           = <<a, b, c, d, e>>
<1> DEFINE S == {a, b, c, d, e}
           s == <<a, b, c, d>>
           t == <<e>>
           u == <<a, b, c, d, e>>
<1>1. s \in Seq(S) /\ t \in Seq(S) /\ u \in Seq(S) /\ Len(u) = Len(s) + Len(t)
  OBVIOUS
<1>2. (\A n \in 1 .. Len(s) : u[n] = s[n]) /\ \A n \in 1 .. Len(t) : u[Len(s) + n] = t[n]
  OBVIOUS
<1> HIDE DEF S, s, t, u
<1>3. s \o t = u
  BY <1>1, <1>2, JoinIs
<1>4. QED BY <1>3 DEF s, t, u

LEMMA Join4And2 ==
  ASSUME NEW a, NEW b, NEW c, NEW d, NEW e, NEW f
  PROVE  <<a, b, c, d>> \o <<e, f>>
           = <<a, b, c, d, e, f>>
<1> DEFINE S == {a, b, c, d, e, f}
           s == <<a, b, c, d>>
           t == <<e, f>>
           u == <<a, b, c, d, e, f>>
<1>1. s \in Seq(S) /\ t \in Seq(S) /\ u \in Seq(S) /\ Len(u) = Len(s) + Len(t)
  OBVIOUS
<1>2. (\A n \in 1 .. Len(s) : u[n] = s[n]) /\ \A n \in 1 .. Len(t) : u[Len(s) + n] = t[n]
  OBVIOUS
<1> HIDE DEF S, s, t, u
<1>3. s \o t = u
  BY <1>1, <1>2, JoinIs
<1>4. QED BY <1>3 DEF s, t, u

LEMMA Join5And2 ==
  ASSUME NEW a, NEW b, NEW c, NEW d, NEW e, NEW f, NEW g
  PROVE  <<a, b, c, d, e>> \o <<f, g>>
           = <<a, b, c, d, e, f, g>>
<1> DEFINE S == {a, b, c, d, e, f, g}
           s == <<a, b, c, d, e>>
           t == <<f, g>>
           u == <<a, b, c, d, e, f, g>>
<1>1. s \in Seq(S) /\ t \in Seq(S) /\ u \in Seq(S) /\ Len(u) = Len(s) + Len(t)
  OBVIOUS
<1>2. (\A n \in 1 .. Len(s) : u[n] = s[n]) /\ \A n \in 1 .. Len(t) : u[Len(s) + n] = t[n]
  OBVIOUS
<1> HIDE DEF S, s, t, u
<1>3. s \o t = u
  BY <1>1, <1>2, JoinIs
<1>4. QED BY <1>3 DEF s, t, u

LEMMA Join4And4 ==
  ASSUME NEW a, NEW b, NEW c, NEW d, NEW e, NEW f, NEW g, NEW h
  PROVE  <<a, b, c, d>> \o <<e, f, g, h>>
           = <<a, b, c, d, e, f, g, h>>
<1> DEFINE S == {a, b, c, d, e, f, g, h}
           s == <<a, b, c, d>>
           t == <<e, f, g, h>>
           u == <<a, b, c, d, e, f, g, h>>
<1>1. s \in Seq(S) /\ t \in Seq(S) /\ u \in Seq(S) /\ Len(u) = Len(s) + Len(t)
  OBVIOUS
<1>2. (\A n \in 1 .. Len(s) : u[n] = s[n]) /\ \A n \in 1 .. Len(t) : u[Len(s) + n] = t[n]
  OBVIOUS
<1> HIDE DEF S, s, t, u
<1>3. s \o t = u
  BY <1>1, <1>2, JoinIs
<1>4. QED BY <1>3 DEF s, t, u

LEMMA Join4And8 ==
  ASSUME NEW a, NEW b, NEW c, NEW d, NEW e, NEW f, NEW g, NEW h, NEW m, NEW j, NEW k, NEW l
  PROVE  <<a, b, c, d>> \o <<e, f, g, h, m, j, k, l>>
           = <<a, b, c, d, e, f, g, h, m, j, k, l>>
<1> DEFINE S == {a, b, c, d, e, f, g, h, m, j, k, l}
           s == <<a, b, c, d>>
           t == <<e, f, g, h, m, j, k, l>>
           u == <<a, b, c, d, e, f, g, h, m, j, k, l>>
<1>1. s \in Seq(S) /\ t \in Seq(S) /\ u \in Seq(S) /\ Len(u) = Len(s) + Len(t)
  OBVIOUS
<1>2. (\A n \in 1 .. Len(s) : u[n] = s[n]) /\ \A n \in 1 .. Len(t) : u[Len(s) + n] = t[n]
  OBVIOUS
<1> HIDE DEF S, s, t, u
<1>3. s \o t = u
  BY <1>1, <1>2, JoinIs
<1>4. QED BY <1>3 DEF s, t, u

Names == {"rate", "output", "algorithm", "accel_calibrate", "mag_start", "mag_stop", "zero_yaw",
          "angle_reference", "save", "reset_defaults"}

\* The register and the value of a command, by its name.
LEMMA CommandSays ==
  ASSUME NEW c \in Commands
  PROVE  /\ c = Command(c.name, c.reg, c.val) /\ c.name \in Names /\ c # Inspect
         /\ c.name = "rate" => c.reg = "rate" /\ c.val \in Rates
         /\ c.name = "output" => c.reg = "output" /\ c.val \in Supported
         /\ c.name = "algorithm" => c.reg = "algorithm" /\ c.val \in Algorithms
         /\ c.name = "accel_calibrate" => c.reg = "calsw" /\ c.val = 1
         /\ c.name = "mag_start" => c.reg = "calsw" /\ c.val = 7
         /\ c.name = "mag_stop" => c.reg = "calsw" /\ c.val = 0
         /\ c.name = "zero_yaw" => c.reg = "calsw" /\ c.val = 4
         /\ c.name = "angle_reference" => c.reg = "calsw" /\ c.val = 8
         /\ c.name = "save" => c.reg = "save" /\ c.val = 0
         /\ c.name = "reset_defaults" => c.reg = "save" /\ c.val = 1
  BY DEF Commands, Command, Names, Inspect

\* The commands whose write is confirmed by one reading of its register.
Confirmed == {"rate", "output", "algorithm", "mag_start", "mag_stop"}
Confirm(c) == Read("confirm", AddressOf(c.reg), {c.val})

LEMMA ConfirmedPlan ==
  ASSUME NEW c \in Commands, c.name \in Confirmed
  PROVE  ReadBack(c) = <<Pause, Confirm(c)>>
  BY CommandSays DEF ReadBack, Confirmed, Confirm

LEMMA PlainPlan ==
  ASSUME NEW c \in Commands,
         c.name \in {"algorithm", "mag_start", "mag_stop"} \/ (c.name = "rate" /\ c.val = 20)
  PROVE  Plan(c) = <<Unlock, Pause, Write(c.reg, c.val), Pause, Confirm(c)>>
<1>1. Checks(c) = <<>>
  BY DEF Checks
<1>2. ReadBack(c) = <<Pause, Confirm(c)>>
  BY ConfirmedPlan DEF Confirmed
<1>3. Plan(c) = <<Unlock, Pause, Write(c.reg, c.val)>> \o <<Pause, Confirm(c)>>
  BY <1>1, <1>2, CommandSays DEF Plan, Names
<1>4. QED BY <1>3, Join3And2

LEMMA RatePlan ==
  ASSUME NEW c \in Commands, c.name = "rate", c.val # 20
  PROVE  Plan(c) = <<Read("expect", "output", {"motion", "quaternion", "old"}), Unlock, Pause,
                     Write(c.reg, c.val), Pause, Confirm(c)>>
<1> DEFINE check == Read("expect", "output", {"motion", "quaternion", "old"})
<1>1. Checks(c) = <<check>>
  BY DEF Checks
<1>2. ReadBack(c) = <<Pause, Confirm(c)>>
  BY ConfirmedPlan DEF Confirmed
<1>3. <<check>> \o <<Unlock, Pause, Write(c.reg, c.val)>>
        = <<check, Unlock, Pause, Write(c.reg, c.val)>>
  BY Join1And3
<1>4. Plan(c) = <<check, Unlock, Pause, Write(c.reg, c.val)>> \o <<Pause, Confirm(c)>>
  BY <1>1, <1>2, <1>3 DEF Plan
<1>5. QED BY <1>4, Join4And2

LEMMA OutputPlan ==
  ASSUME NEW c \in Commands, c.name = "output", c.val # "full"
  PROVE  Plan(c) = <<Read("expect", "output", Supported), Unlock, Pause, Write(c.reg, c.val),
                     Pause, Confirm(c)>>
<1> DEFINE check == Read("expect", "output", Supported)
<1>1. Checks(c) = <<check>>
  BY DEF Checks
<1>2. ReadBack(c) = <<Pause, Confirm(c)>>
  BY ConfirmedPlan DEF Confirmed
<1>3. <<check>> \o <<Unlock, Pause, Write(c.reg, c.val)>>
        = <<check, Unlock, Pause, Write(c.reg, c.val)>>
  BY Join1And3
<1>4. Plan(c) = <<check, Unlock, Pause, Write(c.reg, c.val)>> \o <<Pause, Confirm(c)>>
  BY <1>1, <1>2, <1>3 DEF Plan
<1>5. QED BY <1>4, Join4And2

LEMMA FullPlan ==
  ASSUME NEW c \in Commands, c.name = "output", c.val = "full"
  PROVE  Plan(c) = <<Read("expect", "rate", {20}), Read("expect", "output", Supported), Unlock,
                     Pause, Write(c.reg, c.val), Pause, Confirm(c)>>
<1> DEFINE rate == Read("expect", "rate", {20})
           check == Read("expect", "output", Supported)
<1>1. <<rate>> \o <<check>> = <<rate, check>>
  BY Join1And1
<1>2. Checks(c) = <<rate, check>>
  BY <1>1 DEF Checks
<1>3. ReadBack(c) = <<Pause, Confirm(c)>>
  BY ConfirmedPlan DEF Confirmed
<1>4. <<rate, check>> \o <<Unlock, Pause, Write(c.reg, c.val)>>
        = <<rate, check, Unlock, Pause, Write(c.reg, c.val)>>
  BY Join2And3
<1>5. Plan(c) = <<rate, check, Unlock, Pause, Write(c.reg, c.val)>> \o <<Pause, Confirm(c)>>
  BY <1>2, <1>3, <1>4 DEF Plan
<1>6. QED BY <1>5, Join5And2

LEMMA YawPlan ==
  ASSUME NEW c \in Commands, c.name = "zero_yaw"
  PROVE  Plan(c) = <<Read("expect", "algorithm", {"six"}), Unlock, Pause, Write(c.reg, c.val)>>
<1> DEFINE check == Read("expect", "algorithm", {"six"})
<1>1. Checks(c) = <<check>> /\ ReadBack(c) = <<>>
  BY DEF Checks, ReadBack
<1>2. <<check>> \o <<Unlock, Pause, Write(c.reg, c.val)>>
        = <<check, Unlock, Pause, Write(c.reg, c.val)>>
  BY Join1And3
<1>3. QED BY <1>1, <1>2 DEF Plan

LEMMA AnglePlan ==
  ASSUME NEW c \in Commands, c.name = "angle_reference"
  PROVE  Plan(c) = <<Unlock, Pause, Write(c.reg, c.val), Pause, Write("save", 0)>>
<1>1. Checks(c) = <<>> /\ ReadBack(c) = <<Pause, Write("save", 0)>>
  BY DEF Checks, ReadBack
<1>2. Plan(c) = <<Unlock, Pause, Write(c.reg, c.val)>> \o <<Pause, Write("save", 0)>>
  BY <1>1 DEF Plan
<1>3. QED BY <1>2, Join3And2

LEMMA SavePlan ==
  ASSUME NEW c \in Commands, c.name = "save"
  PROVE  Plan(c) = <<Unlock, Pause, Write(c.reg, c.val)>>
<1>1. Checks(c) = <<>> /\ ReadBack(c) = <<>>
  BY DEF Checks, ReadBack
<1>2. QED BY <1>1 DEF Plan

LEMMA AccelPlan ==
  ASSUME NEW c \in Commands, c.name = "accel_calibrate"
  PROVE  Plan(c) = <<Unlock, Pause, Write(c.reg, c.val), Read("started", "control", {}), Pause,
                     Read("finished", "control", {})>>
<1>1. Checks(c) = <<>>
  BY DEF Checks
<1>2. ReadBack(c) = <<Read("started", "control", {}), Pause, Read("finished", "control", {})>>
  BY DEF ReadBack
<1>3. Plan(c) = <<Unlock, Pause, Write(c.reg, c.val)>>
                  \o <<Read("started", "control", {}), Pause, Read("finished", "control", {})>>
  BY <1>1, <1>2 DEF Plan
<1>4. QED BY <1>3, Join3And3

LEMMA ResetPlan ==
  ASSUME NEW c \in Commands, c.name = "reset_defaults"
  PROVE  Plan(c) = <<Read("expect", "output", Supported), Unlock, Pause, Write(c.reg, c.val),
                     Pause, Read("confirm", "rate", {10}), Read("confirm", "output", {"motion"}),
                     Read("confirm", "algorithm", {"nine"}), Read("look", "control", {}),
                     Read("look", "output", {}), Read("look", "options", {}),
                     Read("look", "version", {})>>
<1> DEFINE check == Read("expect", "output", Supported)
           write == Write(c.reg, c.val)
           r == Read("confirm", "rate", {10})
           o == Read("confirm", "output", {"motion"})
           a == Read("confirm", "algorithm", {"nine"})
           l1 == Read("look", "control", {})
           l2 == Read("look", "output", {})
           l3 == Read("look", "options", {})
           l4 == Read("look", "version", {})
<1>1. Checks(c) = <<check>>
  BY DEF Checks
<1>2. Looks = <<l1, l2, l3, l4>>
  BY DEF Looks
<1>3. ReadBack(c) = <<Pause, r, o, a>> \o <<l1, l2, l3, l4>>
  BY <1>2 DEF ReadBack
<1>4. ReadBack(c) = <<Pause, r, o, a, l1, l2, l3, l4>>
  BY <1>3, Join4And4
<1>5. <<check>> \o <<Unlock, Pause, write>> = <<check, Unlock, Pause, write>>
  BY Join1And3
<1>6. Plan(c) = <<check, Unlock, Pause, write>> \o <<Pause, r, o, a, l1, l2, l3, l4>>
  BY <1>1, <1>4, <1>5 DEF Plan
<1>7. QED BY <1>6, Join4And8

LEMMA InspectPlan ==
  Plan(Inspect) = <<Read("look", "control", {}), Read("look", "output", {}),
                    Read("look", "options", {}), Read("look", "version", {}),
                    Read("battery", "battery", {})>>
<1>1. Plan(Inspect) = <<Read("look", "control", {}), Read("look", "output", {}),
                        Read("look", "options", {}), Read("look", "version", {})>>
                        \o <<Read("battery", "battery", {})>>
  BY DEF Plan, Inspect, Command, Looks
<1>2. QED BY <1>1, Join4And1

-----------------------------------------------------------------------------
(***************************************************************************)
(* The device and what is on the link.                                     *)
(***************************************************************************)

Addresses == {"control", "rate", "output", "options", "algorithm", "battery", "version"}
Messages ==
  {Unlock} \cup {Write(c.reg, c.val) : c \in Commands} \cup [do : {"read"}, addr : Addresses]
ReplyType == [addr : Addresses, values : RegisterValues]

LEMMA FieldIs ==
  ASSUME NEW v \in RegisterValues
  PROVE  /\ v["rate"] = v.rate /\ v["output"] = v.output
         /\ v["algorithm"] = v.algorithm /\ v["calsw"] = v.calsw
  OBVIOUS

LEMMA ValueSays ==
  ASSUME NEW v \in RegisterValues
  PROVE  /\ Value("control", v) = v.calsw /\ Value("options", v) = v.algorithm
         /\ Value("rate", v) = v.rate /\ Value("output", v) = v.output
         /\ Value("algorithm", v) = v.algorithm
  BY DEF Value

\* What a write of a command leaves in the registers.
Only(old, new, field) ==
  /\ field # "calsw" => new.calsw = old.calsw
  /\ field # "rate" => new.rate = old.rate
  /\ field # "output" => new.output = old.output
  /\ field # "algorithm" => new.algorithm = old.algorithm

LEMMA TakenSays ==
  ASSUME regs \in RegisterValues, NEW c \in Commands
  PROVE  /\ Taken(Write(c.reg, c.val)) \in RegisterValues
         /\ c.reg \in {"calsw", "rate", "output", "algorithm"} =>
              /\ Only(regs, Taken(Write(c.reg, c.val)), c.reg)
              /\ Taken(Write(c.reg, c.val))[c.reg] = c.val
         /\ c.name = "save" => Taken(Write(c.reg, c.val)) = regs
         /\ c.name = "reset_defaults" =>
              /\ DefaultsHold(Taken(Write(c.reg, c.val)))
              /\ Taken(Write(c.reg, c.val)).calsw = regs.calsw
<1> DEFINE w == Write(c.reg, c.val)
<1>1. w.reg = c.reg /\ w.val = c.val
  BY DEF Write
<1>2. CASE c.name = "rate"
  <2>1. Taken(w) = [regs EXCEPT !.rate = c.val]
    BY <1>1, <1>2, CommandSays DEF Taken
  <2>2. QED BY <1>2, <2>1, CommandSays DEF RegisterValues, Only
<1>3. CASE c.name = "output"
  <2>1. Taken(w) = [regs EXCEPT !.output = c.val]
    BY <1>1, <1>3, CommandSays DEF Taken
  <2>2. QED BY <1>3, <2>1, CommandSays DEF RegisterValues, Only
<1>4. CASE c.name = "algorithm"
  <2>1. Taken(w) = [regs EXCEPT !.algorithm = c.val]
    BY <1>1, <1>4, CommandSays DEF Taken
  <2>2. QED BY <1>4, <2>1, CommandSays DEF RegisterValues, Only
<1>5. CASE c.reg = "calsw"
  <2>1. Taken(w) = [regs EXCEPT !.calsw = c.val]
    BY <1>1, <1>5 DEF Taken
  <2>2. c.val \in {0, 1, 4, 7, 8}
    BY <1>5, CommandSays DEF Names
  <2>3. c.name # "save" /\ c.name # "reset_defaults"
    BY <1>5, CommandSays
  <2>4. QED BY <1>5, <2>1, <2>2, <2>3 DEF RegisterValues, Only
<1>6. CASE c.name = "save"
  BY <1>1, <1>6, CommandSays DEF Taken
<1>7. CASE c.name = "reset_defaults"
  <2>1. Taken(w) = [regs EXCEPT !.rate = 10, !.output = "motion", !.algorithm = "nine"]
    BY <1>1, <1>7, CommandSays DEF Taken
  <2>2. c.reg = "save"
    BY <1>7, CommandSays
  <2>3. QED BY <1>7, <2>1, <2>2 DEF RegisterValues, Rates, Supported, Algorithms, DefaultsHold
<1>8. QED BY <1>2, <1>3, <1>4, <1>5, <1>6, <1>7, CommandSays DEF Names

-----------------------------------------------------------------------------
(***************************************************************************)
(* The inductive invariant of an operation.                                *)
(***************************************************************************)

OpType ==
  [attempted : BOOLEAN, sent : BOOLEAN, verified : BOOLEAN, completed : BOOLEAN,
   reference : BOOLEAN, outcome : Outcomes]
On(s) == {s[i] : i \in 1 .. Len(s)}
Live == phase \in {"running", "closing"}

Shape ==
  /\ regs \in RegisterValues /\ saved \in RegisterValues
  /\ unlocked \in BOOLEAN /\ aged \in BOOLEAN /\ cycles \in 0 .. MaxCycles
  /\ cmd \in Commands \cup {Inspect}
  /\ phase \in {"idle", "opening", "running", "closing"} /\ at \in 1 .. Len(Plan(cmd))
  /\ cancel \in BOOLEAN /\ ended \in Outcomes \cup {"None"}
  /\ op \in OpType /\ desc \in [valid : BOOLEAN, values : RegisterValues]
  /\ seen \in RegisterValues /\ count \in Nat
  /\ link \in Seq(Messages) /\ replies \in Seq(ReplyType)

\* Between two connections nothing is under way, an operation that has no
\* connection yet has done nothing, and one that is closing has its result.
Rest ==
  /\ phase \in {"idle", "opening"} => link = <<>> /\ replies = <<>>
  /\ phase = "opening" => op = NoOperation /\ touched = {} /\ at = 1
  /\ phase = "running" => op.outcome = "Running"
  /\ phase = "closing" =>
       /\ ended \in Outcomes
       /\ ended = "Succeeded" /\ cmd # Inspect => op.outcome = "Succeeded"

\* What may still reach the device, and what has reached it, was announced.
Announces ==
  /\ \A m \in On(link) :
       m.do = "write" => op.attempted /\ m \in {Write(cmd.reg, cmd.val), Write("save", 0)}
  /\ touched # {} => op.attempted
  /\ op.attempted => cmd \in Commands
  /\ op.attempted /\ Live => at > 1

\* One epoch for an operation that may have moved the reference.
Counts ==
  /\ epochs = IF op.reference THEN 1 ELSE 0
  /\ op.attempted /\ MovesReference(cmd) => op.reference

\* The full frame goes with 20 Hz: once its check has passed, an operation that
\* would break this finds the other register as it was checked.
FullFrame(v) == v.output = "full" => v.rate = 20
Frames ==
  /\ FullFrame(regs) /\ FullFrame(saved)
  /\ Live /\ at > 1 /\ cmd.name = "output" /\ cmd.val = "full" => regs.rate = 20
  /\ Live /\ at > 1 /\ cmd.name = "rate" /\ cmd.val # 20 => regs.output # "full"

\* An answer on its way says what a register holds, or is older than the write
\* of this operation, which holds by now.
Agrees(r) ==
  /\ \/ r.values.rate = regs.rate
     \/ cmd.name = "rate" /\ regs.rate = cmd.val
     \/ cmd.name = "reset_defaults" /\ DefaultsHold(regs)
  /\ \/ r.values.output = regs.output
     \/ cmd.name = "output" /\ regs.output = cmd.val
     \/ cmd.name = "reset_defaults" /\ DefaultsHold(regs)
  /\ \/ r.values.algorithm = regs.algorithm
     \/ cmd.name = "algorithm" /\ regs.algorithm = cmd.val
     \/ cmd.name = "reset_defaults" /\ DefaultsHold(regs)
  /\ cmd.name = "mag_start" /\ r.values.calsw = 7 => regs.calsw = 7
  /\ cmd.name \in {"mag_stop", "accel_calibrate"} /\ r.values.calsw = 0 => regs.calsw = 0
Answers == \A r \in On(replies) : Agrees(r)

\* The readings on the link are behind the writes.
ReadsBehind(s) == \A i, j \in 1 .. Len(s) : s[i].do = "write" /\ s[j].do = "read" => i < j

\* A calibration of the accelerometer is read only behind its write: once there
\* is an answer, the write is not under way any more.
AccelOrder ==
  cmd.name = "accel_calibrate" =>
    /\ phase = "running" /\ at <= 3 =>
         replies = <<>> /\ \A m \in On(link) : m.do # "read"
    /\ replies # <<>> => \A m \in On(link) : m.do # "write"
    /\ ReadsBehind(link)

\* A reset has confirmed the default settings one by one.
Resets ==
  cmd.name = "reset_defaults" /\ Live =>
    /\ at > 6 => regs.rate = 10
    /\ at > 7 => regs.output = "motion"
    /\ at > 8 => regs.algorithm = "nine"

\* An inspection has withdrawn what was known, and what it has read holds.
Looked ==
  cmd = Inspect /\ phase # "idle" =>
    /\ ~desc.valid
    /\ Live => /\ at > 1 => seen.rate = regs.rate
               /\ at > 2 => seen.output = regs.output
               /\ at > 3 => seen.algorithm = regs.algorithm
    /\ phase = "closing" /\ ended = "Succeeded" => at = 5

\* A command that succeeded is in effect, and what is left on the link cannot
\* undo it.
Achieved ==
  op.outcome = "Succeeded" =>
    \/ cmd = Inspect
    \/ cmd.name = "reset_defaults" /\ DefaultsHold(regs)
    \/ /\ cmd.name = "accel_calibrate" /\ regs.calsw = 0
       /\ \A m \in On(link) : m.do # "write"
    \/ cmd.name \in Confirmed /\ regs[cmd.reg] = cmd.val

\* A description is valid only while nothing that changes it is under way.
Same(v, w) == v.rate = w.rate /\ v.output = w.output /\ v.algorithm = w.algorithm
Describes ==
  /\ desc.valid /\ op.attempted /\ phase # "idle" =>
       cmd.name = "reset_defaults" /\ DefaultsHold(regs)
  /\ desc.valid /\ ~aged => Same(desc.values, regs)

DeviceInv ==
  /\ Shape /\ Rest /\ Announces /\ Counts /\ Frames /\ Answers /\ AccelOrder
  /\ Resets /\ Looked /\ Achieved /\ Describes

-----------------------------------------------------------------------------
(***************************************************************************)
(* The inductive invariant of a submission.                                *)
(***************************************************************************)

Fields == {"rate", "output", "algorithm"}
Wanted(target, name) ==
  Command(name, name, CASE name = "rate" -> target.rate
                        [] name = "output" -> target.format
                        [] name = "algorithm" -> target.algorithm)
ApplyType ==
  [stage : {"none", "before", "write", "after", "done"}, expected : Settings,
   target : Settings, pending : Seq(Commands), verified : SUBSET Fields,
   step : Fields \cup {"none"}, complete : BOOLEAN, error : BOOLEAN]

\* Writes for the fields of a set, each at most once.
WritesFor(s, target, names) ==
  /\ \A i \in 1 .. Len(s) : \E n \in names : s[i] = Wanted(target, n)
  /\ \A i, j \in 1 .. Len(s) : s[i].name = s[j].name => i = j

\* The write under way and those to come are of fields that are not verified,
\* so they leave the verified ones as they are.
Advancing ==
  /\ apply \in ApplyType
  /\ apply.complete => phase = "idle" /\ apply.stage = "done"
  /\ apply.stage = "before" => apply.verified = {}
  /\ apply.stage = "write" =>
       /\ apply.step \in Fields \ apply.verified
       /\ cmd = Wanted(apply.target, apply.step)
       /\ WritesFor(apply.pending, apply.target, Fields \ (apply.verified \cup {apply.step}))

ApplyInv == DeviceInv /\ Advancing /\ AppliedIsTrue

-----------------------------------------------------------------------------
(***************************************************************************)
(* What a step of a plan is.                                               *)
(***************************************************************************)

\* The steps of the command or inspection c, where the proofs tell them apart.
StepIs(c, k, s) ==
  /\ Reading(s) => s.addr \in Addresses
  /\ ~Reading(s) =>
       \/ s = Pause \/ s = Unlock
       \/ c \in Commands /\ s \in {Write(c.reg, c.val), Write("save", 0)}
  /\ s.do = "write" => k > 1
  /\ s.do = "battery" => c = Inspect /\ k = 5
  /\ s.do \in {"started", "finished"} => c.name = "accel_calibrate" /\ k > 3
  /\ s.do = "finished" => k = 6

LEMMA KindsOfSteps ==
  ASSUME NEW c \in Commands \cup {Inspect}, NEW k \in Nat
  PROVE  /\ StepIs(c, k, Pause) /\ StepIs(c, k, Unlock)
         /\ c \in Commands /\ k > 1 =>
              StepIs(c, k, Write(c.reg, c.val)) /\ StepIs(c, k, Write("save", 0))
         /\ \A do \in {"expect", "look", "confirm"}, addr \in Addresses : \A want :
              StepIs(c, k, Read(do, addr, want))
  BY DEF StepIs, Reading, Read, Pause, Unlock, Write

LEMMA ConfirmIs ==
  ASSUME NEW c \in Commands, c.name \in Confirmed, NEW k \in Nat
  PROVE  AddressOf(c.reg) \in Addresses /\ StepIs(c, k, Confirm(c))
<1>1. AddressOf(c.reg) \in Addresses
  BY CommandSays DEF Confirmed, AddressOf, Addresses
<1>2. QED BY <1>1, KindsOfSteps DEF Confirm

LEMMA StepsAre ==
  ASSUME NEW c \in Commands \cup {Inspect}
  PROVE  /\ Len(Plan(c)) \in Nat /\ Len(Plan(c)) > 1
         /\ \A k \in 1 .. Len(Plan(c)) : StepIs(c, k, Plan(c)[k])
<1>1. CASE c = Inspect
  <2>1. Len(Plan(c)) = 5
    BY <1>1, InspectPlan
  <2>2. StepIs(c, 1, Plan(c)[1])
    BY <1>1, InspectPlan, KindsOfSteps DEF Addresses
  <2>3. StepIs(c, 2, Plan(c)[2])
    BY <1>1, InspectPlan, KindsOfSteps DEF Addresses
  <2>4. StepIs(c, 3, Plan(c)[3])
    BY <1>1, InspectPlan, KindsOfSteps DEF Addresses
  <2>5. StepIs(c, 4, Plan(c)[4])
    BY <1>1, InspectPlan, KindsOfSteps DEF Addresses
  <2>6. StepIs(c, 5, Plan(c)[5])
    BY <1>1, InspectPlan DEF StepIs, Reading, Read, Addresses
  <2>7. \A k \in 1 .. 5 : k = 1 \/ k = 2 \/ k = 3 \/ k = 4 \/ k = 5
    OBVIOUS
  <2>8. QED BY <2>1, <2>2, <2>3, <2>4, <2>5, <2>6, <2>7
<1>2. CASE c \in Commands /\ (c.name \in {"algorithm", "mag_start", "mag_stop"}
                              \/ (c.name = "rate" /\ c.val = 20))
  <2>1. Len(Plan(c)) = 5
    BY <1>2, PlainPlan
  <2>2. StepIs(c, 1, Plan(c)[1])
    BY <1>2, PlainPlan, KindsOfSteps
  <2>3. StepIs(c, 2, Plan(c)[2])
    BY <1>2, PlainPlan, KindsOfSteps
  <2>4. StepIs(c, 3, Plan(c)[3])
    BY <1>2, PlainPlan, KindsOfSteps
  <2>5. StepIs(c, 4, Plan(c)[4])
    BY <1>2, PlainPlan, KindsOfSteps
  <2>6. StepIs(c, 5, Plan(c)[5])
    BY <1>2, PlainPlan, ConfirmIs DEF Confirmed
  <2>7. \A k \in 1 .. 5 : k = 1 \/ k = 2 \/ k = 3 \/ k = 4 \/ k = 5
    OBVIOUS
  <2>8. QED BY <2>1, <2>2, <2>3, <2>4, <2>5, <2>6, <2>7
<1>3. CASE c \in Commands /\ c.name = "rate" /\ c.val # 20
  <2>1. Len(Plan(c)) = 6
    BY <1>3, RatePlan
  <2>2. StepIs(c, 1, Plan(c)[1])
    BY <1>3, RatePlan, KindsOfSteps DEF Addresses
  <2>3. StepIs(c, 2, Plan(c)[2])
    BY <1>3, RatePlan, KindsOfSteps
  <2>4. StepIs(c, 3, Plan(c)[3])
    BY <1>3, RatePlan, KindsOfSteps
  <2>5. StepIs(c, 4, Plan(c)[4])
    BY <1>3, RatePlan, KindsOfSteps
  <2>6. StepIs(c, 5, Plan(c)[5])
    BY <1>3, RatePlan, KindsOfSteps
  <2>7. StepIs(c, 6, Plan(c)[6])
    BY <1>3, RatePlan, ConfirmIs DEF Confirmed
  <2>8. \A k \in 1 .. 6 : k = 1 \/ k = 2 \/ k = 3 \/ k = 4 \/ k = 5 \/ k = 6
    OBVIOUS
  <2>9. QED BY <2>1, <2>2, <2>3, <2>4, <2>5, <2>6, <2>7, <2>8
<1>4. CASE c \in Commands /\ c.name = "output" /\ c.val # "full"
  <2>1. Len(Plan(c)) = 6
    BY <1>4, OutputPlan
  <2>2. StepIs(c, 1, Plan(c)[1])
    BY <1>4, OutputPlan, KindsOfSteps DEF Addresses
  <2>3. StepIs(c, 2, Plan(c)[2])
    BY <1>4, OutputPlan, KindsOfSteps
  <2>4. StepIs(c, 3, Plan(c)[3])
    BY <1>4, OutputPlan, KindsOfSteps
  <2>5. StepIs(c, 4, Plan(c)[4])
    BY <1>4, OutputPlan, KindsOfSteps
  <2>6. StepIs(c, 5, Plan(c)[5])
    BY <1>4, OutputPlan, KindsOfSteps
  <2>7. StepIs(c, 6, Plan(c)[6])
    BY <1>4, OutputPlan, ConfirmIs DEF Confirmed
  <2>8. \A k \in 1 .. 6 : k = 1 \/ k = 2 \/ k = 3 \/ k = 4 \/ k = 5 \/ k = 6
    OBVIOUS
  <2>9. QED BY <2>1, <2>2, <2>3, <2>4, <2>5, <2>6, <2>7, <2>8
<1>5. CASE c \in Commands /\ c.name = "output" /\ c.val = "full"
  <2>1. Len(Plan(c)) = 7
    BY <1>5, FullPlan
  <2>2. StepIs(c, 1, Plan(c)[1])
    BY <1>5, FullPlan, KindsOfSteps DEF Addresses
  <2>3. StepIs(c, 2, Plan(c)[2])
    BY <1>5, FullPlan, KindsOfSteps DEF Addresses
  <2>4. StepIs(c, 3, Plan(c)[3])
    BY <1>5, FullPlan, KindsOfSteps
  <2>5. StepIs(c, 4, Plan(c)[4])
    BY <1>5, FullPlan, KindsOfSteps
  <2>6. StepIs(c, 5, Plan(c)[5])
    BY <1>5, FullPlan, KindsOfSteps
  <2>7. StepIs(c, 6, Plan(c)[6])
    BY <1>5, FullPlan, KindsOfSteps
  <2>8. StepIs(c, 7, Plan(c)[7])
    BY <1>5, FullPlan, ConfirmIs DEF Confirmed
  <2>9. \A k \in 1 .. 7 : k = 1 \/ k = 2 \/ k = 3 \/ k = 4 \/ k = 5 \/ k = 6
                          \/ k = 7
    OBVIOUS
  <2>10. QED BY <2>1, <2>2, <2>3, <2>4, <2>5, <2>6, <2>7, <2>8, <2>9
<1>6. CASE c \in Commands /\ c.name = "zero_yaw"
  <2>1. Len(Plan(c)) = 4
    BY <1>6, YawPlan
  <2>2. StepIs(c, 1, Plan(c)[1])
    BY <1>6, YawPlan, KindsOfSteps DEF Addresses
  <2>3. StepIs(c, 2, Plan(c)[2])
    BY <1>6, YawPlan, KindsOfSteps
  <2>4. StepIs(c, 3, Plan(c)[3])
    BY <1>6, YawPlan, KindsOfSteps
  <2>5. StepIs(c, 4, Plan(c)[4])
    BY <1>6, YawPlan, KindsOfSteps
  <2>6. \A k \in 1 .. 4 : k = 1 \/ k = 2 \/ k = 3 \/ k = 4
    OBVIOUS
  <2>7. QED BY <2>1, <2>2, <2>3, <2>4, <2>5, <2>6
<1>7. CASE c \in Commands /\ c.name = "angle_reference"
  <2>1. Len(Plan(c)) = 5
    BY <1>7, AnglePlan
  <2>2. StepIs(c, 1, Plan(c)[1])
    BY <1>7, AnglePlan, KindsOfSteps
  <2>3. StepIs(c, 2, Plan(c)[2])
    BY <1>7, AnglePlan, KindsOfSteps
  <2>4. StepIs(c, 3, Plan(c)[3])
    BY <1>7, AnglePlan, KindsOfSteps
  <2>5. StepIs(c, 4, Plan(c)[4])
    BY <1>7, AnglePlan, KindsOfSteps
  <2>6. StepIs(c, 5, Plan(c)[5])
    BY <1>7, AnglePlan, KindsOfSteps
  <2>7. \A k \in 1 .. 5 : k = 1 \/ k = 2 \/ k = 3 \/ k = 4 \/ k = 5
    OBVIOUS
  <2>8. QED BY <2>1, <2>2, <2>3, <2>4, <2>5, <2>6, <2>7
<1>8. CASE c \in Commands /\ c.name = "save"
  <2>1. Len(Plan(c)) = 3
    BY <1>8, SavePlan
  <2>2. StepIs(c, 1, Plan(c)[1])
    BY <1>8, SavePlan, KindsOfSteps
  <2>3. StepIs(c, 2, Plan(c)[2])
    BY <1>8, SavePlan, KindsOfSteps
  <2>4. StepIs(c, 3, Plan(c)[3])
    BY <1>8, SavePlan, KindsOfSteps
  <2>5. \A k \in 1 .. 3 : k = 1 \/ k = 2 \/ k = 3
    OBVIOUS
  <2>6. QED BY <2>1, <2>2, <2>3, <2>4, <2>5
<1>9. CASE c \in Commands /\ c.name = "accel_calibrate"
  <2>1. Len(Plan(c)) = 6
    BY <1>9, AccelPlan
  <2>2. StepIs(c, 1, Plan(c)[1])
    BY <1>9, AccelPlan, KindsOfSteps
  <2>3. StepIs(c, 2, Plan(c)[2])
    BY <1>9, AccelPlan, KindsOfSteps
  <2>4. StepIs(c, 3, Plan(c)[3])
    BY <1>9, AccelPlan, KindsOfSteps
  <2>5. StepIs(c, 4, Plan(c)[4])
    BY <1>9, AccelPlan DEF StepIs, Reading, Read, Addresses
  <2>6. StepIs(c, 5, Plan(c)[5])
    BY <1>9, AccelPlan, KindsOfSteps
  <2>7. StepIs(c, 6, Plan(c)[6])
    BY <1>9, AccelPlan DEF StepIs, Reading, Read, Addresses
  <2>8. \A k \in 1 .. 6 : k = 1 \/ k = 2 \/ k = 3 \/ k = 4 \/ k = 5 \/ k = 6
    OBVIOUS
  <2>9. QED BY <2>1, <2>2, <2>3, <2>4, <2>5, <2>6, <2>7, <2>8
<1>10. CASE c \in Commands /\ c.name = "reset_defaults"
  <2>1. Len(Plan(c)) = 12
    BY <1>10, ResetPlan
  <2>2. StepIs(c, 1, Plan(c)[1])
    BY <1>10, ResetPlan, KindsOfSteps DEF Addresses
  <2>3. StepIs(c, 2, Plan(c)[2])
    BY <1>10, ResetPlan, KindsOfSteps
  <2>4. StepIs(c, 3, Plan(c)[3])
    BY <1>10, ResetPlan, KindsOfSteps
  <2>5. StepIs(c, 4, Plan(c)[4])
    BY <1>10, ResetPlan, KindsOfSteps
  <2>6. StepIs(c, 5, Plan(c)[5])
    BY <1>10, ResetPlan, KindsOfSteps
  <2>7. StepIs(c, 6, Plan(c)[6])
    BY <1>10, ResetPlan, KindsOfSteps DEF Addresses
  <2>8. StepIs(c, 7, Plan(c)[7])
    BY <1>10, ResetPlan, KindsOfSteps DEF Addresses
  <2>9. StepIs(c, 8, Plan(c)[8])
    BY <1>10, ResetPlan, KindsOfSteps DEF Addresses
  <2>10. StepIs(c, 9, Plan(c)[9])
    BY <1>10, ResetPlan, KindsOfSteps DEF Addresses
  <2>11. StepIs(c, 10, Plan(c)[10])
    BY <1>10, ResetPlan, KindsOfSteps DEF Addresses
  <2>12. StepIs(c, 11, Plan(c)[11])
    BY <1>10, ResetPlan, KindsOfSteps DEF Addresses
  <2>13. StepIs(c, 12, Plan(c)[12])
    BY <1>10, ResetPlan, KindsOfSteps DEF Addresses
  <2>14. \A k \in 1 .. 12 : k = 1 \/ k = 2 \/ k = 3 \/ k = 4 \/ k = 5 \/ k = 6
                          \/ k = 7 \/ k = 8 \/ k = 9 \/ k = 10 \/ k = 11 \/ k = 12
    OBVIOUS
  <2>15. QED BY <2>1, <2>2, <2>3, <2>4, <2>5, <2>6, <2>7, <2>8, <2>9, <2>10, <2>11, <2>12, <2>13, <2>14
<1>11. QED
  BY <1>1, <1>2, <1>3, <1>4, <1>5, <1>6, <1>7, <1>8, <1>9, <1>10, CommandSays DEF Names

\* The steps that decide what an operation may say of the device.
LEMMA FirstSteps ==
  ASSUME NEW c \in Commands
  PROVE  /\ c.name = "output" /\ c.val = "full" => Plan(c)[1] = Read("expect", "rate", {20})
         /\ c.name = "rate" /\ c.val # 20 =>
              Plan(c)[1] = Read("expect", "output", {"motion", "quaternion", "old"})
  BY FullPlan, RatePlan

LEMMA ConfirmIsLast ==
  ASSUME NEW c \in Commands, c.name \in Confirmed
  PROVE  Plan(c)[Len(Plan(c))] = Confirm(c)
<1>1. CASE c.name \in {"algorithm", "mag_start", "mag_stop"} \/ (c.name = "rate" /\ c.val = 20)
  <2>1. Len(Plan(c)) = 5 /\ Plan(c)[5] = Confirm(c)
    BY <1>1, PlainPlan
  <2>2. QED BY <2>1
<1>2. CASE c.name = "rate" /\ c.val # 20
  <2>1. Len(Plan(c)) = 6 /\ Plan(c)[6] = Confirm(c)
    BY <1>2, RatePlan
  <2>2. QED BY <2>1
<1>3. CASE c.name = "output" /\ c.val # "full"
  <2>1. Len(Plan(c)) = 6 /\ Plan(c)[6] = Confirm(c)
    BY <1>3, OutputPlan
  <2>2. QED BY <2>1
<1>4. CASE c.name = "output" /\ c.val = "full"
  <2>1. Len(Plan(c)) = 7 /\ Plan(c)[7] = Confirm(c)
    BY <1>4, FullPlan
  <2>2. QED BY <2>1
<1>5. QED BY <1>1, <1>2, <1>3, <1>4 DEF Confirmed

LEMMA AccelSteps ==
  ASSUME NEW c \in Commands, c.name = "accel_calibrate"
  PROVE  /\ Len(Plan(c)) = 6
         /\ Plan(c)[1] = Unlock /\ Plan(c)[2] = Pause /\ Plan(c)[3] = Write(c.reg, c.val)
         /\ Plan(c)[4] = Read("started", "control", {}) /\ Plan(c)[5] = Pause
         /\ Plan(c)[6] = Read("finished", "control", {})
  BY AccelPlan

LEMMA ResetSteps ==
  ASSUME NEW c \in Commands, c.name = "reset_defaults"
  PROVE  /\ Len(Plan(c)) = 12
         /\ Plan(c)[6] = Read("confirm", "rate", {10})
         /\ Plan(c)[7] = Read("confirm", "output", {"motion"})
         /\ Plan(c)[8] = Read("confirm", "algorithm", {"nine"})
         /\ Plan(c)[12] = Read("look", "version", {})
  BY ResetPlan

LEMMA InspectSteps ==
  /\ Len(Plan(Inspect)) = 5
  /\ Plan(Inspect)[1] = Read("look", "control", {})
  /\ Plan(Inspect)[2] = Read("look", "output", {})
  /\ Plan(Inspect)[3] = Read("look", "options", {})
  /\ Plan(Inspect)[4] = Read("look", "version", {})
  /\ Plan(Inspect)[5] = Read("battery", "battery", {})
  BY InspectPlan

-----------------------------------------------------------------------------
(***************************************************************************)
(* What is on a sequence.                                                  *)
(***************************************************************************)

LEMMA OnSays ==
  ASSUME NEW S, NEW s \in Seq(S)
  PROVE  /\ \A e \in S : On(Append(s, e)) = On(s) \cup {e}
         /\ On(s) \subseteq S
         /\ s # <<>> => /\ Head(s) \in On(s) /\ On(Tail(s)) \subseteq On(s)
                        /\ Tail(s) \in Seq(S) /\ Head(s) \in S
                        /\ Head(s) = s[1] /\ Len(Tail(s)) = Len(s) - 1
                        /\ \A i \in 1 .. Len(s) - 1 : Tail(s)[i] = s[i + 1]
<1>1. ASSUME NEW e \in S PROVE On(Append(s, e)) = On(s) \cup {e}
  <2>1. /\ Len(Append(s, e)) = Len(s) + 1 /\ Len(s) \in Nat
        /\ \A i \in 1 .. Len(s) : Append(s, e)[i] = s[i]
        /\ Append(s, e)[Len(s) + 1] = e
    OBVIOUS
  <2> DEFINE a == Append(s, e)
  <2> HIDE DEF a
  <2>2. QED BY <2>1 DEF On, a
<1>2. On(s) \subseteq S
  BY DEF On
<1>3. ASSUME s # <<>>
      PROVE  /\ Head(s) = s[1] /\ Head(s) \in S /\ Tail(s) \in Seq(S)
             /\ Len(Tail(s)) = Len(s) - 1 /\ Len(s) \in Nat /\ Len(s) >= 1
             /\ \A i \in 1 .. Len(s) - 1 : Tail(s)[i] = s[i + 1]
  BY <1>3
<1>4. ASSUME s # <<>> PROVE Head(s) \in On(s) /\ On(Tail(s)) \subseteq On(s)
  <2> DEFINE t == Tail(s)
  <2>1. /\ Head(s) = s[1] /\ Len(t) = Len(s) - 1 /\ Len(s) \in Nat /\ Len(s) >= 1
        /\ \A i \in 1 .. Len(s) - 1 : t[i] = s[i + 1]
    BY <1>3, <1>4
  <2> HIDE DEF t
  <2>2. Head(s) \in On(s)
    BY <2>1 DEF On
  <2>3. \A i \in 1 .. Len(t) : t[i] = s[i + 1] /\ i + 1 \in 1 .. Len(s)
    BY <2>1
  <2>4. On(t) \subseteq On(s)
    BY <2>3 DEF On
  <2>5. QED BY <2>2, <2>4 DEF t
<1>5. QED BY <1>1, <1>2, <1>3, <1>4

-----------------------------------------------------------------------------
(***************************************************************************)
(* What the actions do.                                                    *)
(***************************************************************************)

\* The worker behind an operation takes a step of its plan.
Worker == StepReturns \/ Receives \/ StepFails

\* A step of the device, of the link or of the task, whoever asked for it.
DeviceStep ==
  \/ \E c \in Commands \cup {Inspect} : Begin(c)
  \/ Cancel \/ Opens \/ OpenFails \/ Worker \/ Closes \/ Repeats
  \/ Takes \/ Loses \/ Settles \/ PowerCycle
  \/ UNCHANGED vars

\* The step the worker awaits came to its end; of a reading, with this answer.
AnswerIs(r, s) ==
  /\ r \in On(replies) /\ r.addr = s.addr
  /\ s.do \in {"expect", "confirm"} => Value(r.addr, r.values) \in s.want
  /\ seen' = Kept(s, r.values)
Passed(s) ==
  /\ Reading(s) => \E r \in ReplyType : AnswerIs(r, s)
  /\ ~Reading(s) => seen' = seen

EntersNext == at < Len(Plan(cmd)) /\ Enter(at + 1, After(op, Step)) /\ Passed(Step)
EntersBack == Step.do = "finished" /\ Enter(at - 1, op) /\ seen' = seen
Ends(result, o) ==
  /\ Finish(result, o)
  /\ result = "Succeeded" =>
       \/ /\ at = Len(Plan(cmd)) /\ OutcomeOf(cmd) = "Succeeded" /\ Passed(Step)
          /\ Step.do = "finished" =>
               \E r \in ReplyType : AnswerIs(r, Step) /\ Value(r.addr, r.values) = 0
          /\ cmd.name = "reset_defaults" => DefaultsHold(seen')
       \/ Step.do = "battery" /\ seen' = seen
  /\ seen' = seen \/ Passed(Step)

LEMMA ProceedSays ==
  ASSUME Shape, Proceed, Passed(Step),
         at = Len(Plan(cmd)) /\ Step.do = "finished" =>
           \E r \in ReplyType : AnswerIs(r, Step) /\ Value(r.addr, r.values) = 0,
         at = Len(Plan(cmd)) /\ cmd.name = "reset_defaults" => DefaultsHold(seen')
  PROVE  \/ EntersNext
         \/ \E result \in {"Succeeded", "Unverified", "Failed", "Cancelled"} :
              Ends(result, After(op, Step))
<1>1. at \in Nat /\ at <= Len(Plan(cmd)) /\ Len(Plan(cmd)) \in Nat
  BY StepsAre DEF Shape
<1>2. CASE at = Len(Plan(cmd))
  <2>1. Finish(OutcomeOf(cmd), After(op, Step))
    BY <1>2 DEF Proceed
  <2>2. Ends(OutcomeOf(cmd), After(op, Step))
    BY <1>2, <2>1 DEF Ends
  <2>3. OutcomeOf(cmd) \in {"Succeeded", "Unverified"}
    BY DEF OutcomeOf
  <2>4. QED BY <2>2, <2>3
<1>3. CASE at # Len(Plan(cmd)) /\ cancel
  <2>1. Ends("Cancelled", After(op, Step))
    BY <1>3 DEF Proceed, Ends
  <2>2. QED BY <2>1
<1>4. CASE at # Len(Plan(cmd)) /\ ~cancel
  BY <1>1, <1>4 DEF Proceed, EntersNext
<1>5. QED BY <1>2, <1>3, <1>4

LEMMA WorkerSays ==
  ASSUME Shape, Worker
  PROVE  /\ phase = "running" /\ UNCHANGED <<device, cmd, cancel, count>>
         /\ replies' = replies \/ (replies # <<>> /\ replies' = Tail(replies))
         /\ \/ UNCHANGED <<link, at, phase, ended, op, desc, epochs, seen>>
            \/ EntersNext
            \/ EntersBack
            \/ \E result \in {"Succeeded", "Unverified", "Failed", "Cancelled"},
                  o \in {op, After(op, Step)} : Ends(result, o)
<1> DEFINE Over == \E result \in {"Succeeded", "Unverified", "Failed", "Cancelled"},
                        o \in {op, After(op, Step)} : Ends(result, o)
<1>1. CASE StepReturns
  <2>1. phase = "running" /\ UNCHANGED <<device, cmd, cancel, count>> /\ replies' = replies
        /\ Proceed /\ ~Reading(Step) /\ seen' = seen
    BY <1>1 DEF StepReturns
  <2>2. CASE at = Len(Plan(cmd))
    <3>1. cmd.name # "reset_defaults"
      <4>1. SUFFICES ASSUME cmd.name = "reset_defaults" PROVE FALSE
        OBVIOUS
      <4>2. cmd \in Commands
        BY <4>1 DEF Shape, Inspect, Command
      <4>3. Step = Read("look", "version", {})
        BY <2>2, <4>1, <4>2, ResetSteps DEF Step
      <4>4. QED BY <2>1, <4>3 DEF Reading, Read
    <3>2. Step.do # "finished"
      BY <2>1 DEF Reading
    <3>3. EntersNext \/ \E result \in {"Succeeded", "Unverified", "Failed", "Cancelled"} :
                          Ends(result, After(op, Step))
      BY <2>1, <3>1, <3>2, ProceedSays DEF Passed
    <3>4. QED BY <2>1, <3>3
  <2>3. CASE at # Len(Plan(cmd))
    <3>1. EntersNext \/ \E result \in {"Succeeded", "Unverified", "Failed", "Cancelled"} :
                          Ends(result, After(op, Step))
      BY <2>1, <2>3, ProceedSays DEF Passed
    <3>2. QED BY <2>1, <3>1
  <2>4. QED BY <2>2, <2>3
<1>2. CASE StepFails
  <2>1. phase = "running" /\ UNCHANGED <<device, cmd, cancel, count>> /\ replies' = replies
        /\ seen' = seen
    BY <1>2 DEF StepFails
  <2>2. Finish("Cancelled", op) \/ Finish("Failed", op)
        \/ (Step.do = "battery" /\ Finish("Succeeded", op))
    BY <1>2 DEF StepFails
  <2>3. Over
    BY <2>1, <2>2 DEF Ends
  <2>4. QED BY <2>1, <2>3
<1>3. CASE Receives
  <2> DEFINE r == Head(replies)
             v == Value(r.addr, r.values)
  <2>1. /\ phase = "running" /\ UNCHANGED <<device, cmd, cancel, count>>
        /\ replies # <<>> /\ replies' = Tail(replies) /\ Reading(Step)
    BY <1>3 DEF Receives
  <2>2. r \in On(replies) /\ r \in ReplyType
    BY <2>1, OnSays DEF Shape
  <2>3. CASE r.addr # Step.addr \/ (Step.do = "confirm" /\ v \notin Step.want)
    <3>1. UNCHANGED <<link, at, phase, ended, op, desc, epochs, seen>>
      BY <1>3, <2>3 DEF Receives
    <3>2. QED BY <2>1, <3>1
  <2>4. CASE ~(r.addr # Step.addr \/ (Step.do = "confirm" /\ v \notin Step.want))
    <3>1. /\ r.addr = Step.addr /\ (Step.do = "confirm" => v \in Step.want)
          /\ seen' = Kept(Step, r.values)
          /\ IF Step.do = "expect" /\ v \notin Step.want THEN Finish("Failed", op)
             ELSE IF Step.do = "started" /\ v # 1 THEN Finish("Unverified", op)
             ELSE IF Step.do = "finished" /\ v # 0
               THEN IF cancel THEN Finish("Cancelled", op) ELSE Enter(at - 1, op)
             ELSE IF cmd.name = "reset_defaults" /\ at = Len(Plan(cmd)) /\ ~DefaultsHold(seen')
               THEN Finish("Failed", op)
             ELSE Proceed
      BY <1>3, <2>4 DEF Receives
    <3> HIDE DEF r, v
    <3>2. Step.do # "look" => seen' = seen
      BY <3>1 DEF Kept
    <3>3. CASE Step.do = "expect" /\ v \notin Step.want
      <4>1. Ends("Failed", op)
        BY <3>1, <3>2, <3>3 DEF Ends
      <4>2. QED BY <2>1, <4>1
    <3>4. CASE Step.do = "started" /\ v # 1
      <4>1. Ends("Unverified", op)
        BY <3>1, <3>2, <3>4 DEF Ends
      <4>2. QED BY <2>1, <4>1
    <3>5. CASE Step.do = "finished" /\ v # 0
      <4>1. Finish("Cancelled", op) \/ Enter(at - 1, op)
        BY <3>1, <3>5
      <4>2. Ends("Cancelled", op) \/ EntersBack
        BY <3>2, <3>5, <4>1 DEF Ends, EntersBack
      <4>3. QED BY <2>1, <4>2
    <3>6. CASE /\ ~(Step.do = "expect" /\ v \notin Step.want)
               /\ ~(Step.do = "started" /\ v # 1)
               /\ ~(Step.do = "finished" /\ v # 0)
      <4>1. AnswerIs(r, Step)
        BY <2>2, <3>1, <3>6 DEF AnswerIs, v
      <4>2. Passed(Step)
        BY <2>1, <2>2, <4>1 DEF Passed
      <4>3. CASE cmd.name = "reset_defaults" /\ at = Len(Plan(cmd)) /\ ~DefaultsHold(seen')
        <5>1. Finish("Failed", op)
          BY <3>1, <3>6, <4>3
        <5>2. Ends("Failed", op)
          BY <4>2, <5>1 DEF Ends
        <5>3. QED BY <2>1, <5>2
      <4>4. CASE ~(cmd.name = "reset_defaults" /\ at = Len(Plan(cmd)) /\ ~DefaultsHold(seen'))
        <5>1. Proceed
          BY <3>1, <3>6, <4>4
        <5>2. Step.do = "finished" =>
                \E x \in ReplyType : AnswerIs(x, Step) /\ Value(x.addr, x.values) = 0
          BY <2>2, <3>6, <4>1 DEF v
        <5>3. EntersNext \/ \E result \in {"Succeeded", "Unverified", "Failed", "Cancelled"} :
                              Ends(result, After(op, Step))
          BY <4>2, <4>4, <5>1, <5>2, ProceedSays
        <5>4. QED BY <2>1, <5>3
      <4>5. QED BY <4>3, <4>4
    <3>7. QED BY <3>3, <3>4, <3>5, <3>6
  <2>5. QED BY <2>3, <2>4
<1>4. QED BY <1>1, <1>2, <1>3 DEF Worker

\* The fields of an operation that the end of a step leaves alone.
Kin(o, p) ==
  p.attempted = o.attempted /\ p.reference = o.reference /\ p.outcome = o.outcome

LEMMA AfterSays ==
  ASSUME NEW o \in OpType, NEW s
  PROVE  After(o, s) \in OpType /\ Kin(o, After(o, s))
<1>1. (cmd.name = "mag_stop") \in BOOLEAN
  OBVIOUS
<1>2. /\ [o EXCEPT !.sent = TRUE] \in OpType /\ Kin(o, [o EXCEPT !.sent = TRUE])
      /\ [o EXCEPT !.verified = TRUE] \in OpType /\ Kin(o, [o EXCEPT !.verified = TRUE])
      /\ [o EXCEPT !.completed = TRUE] \in OpType /\ Kin(o, [o EXCEPT !.completed = TRUE])
  BY DEF OpType, Kin
<1>3. /\ [o EXCEPT !.verified = TRUE, !.completed = cmd.name = "mag_stop"] \in OpType
      /\ Kin(o, [o EXCEPT !.verified = TRUE, !.completed = cmd.name = "mag_stop"])
  BY <1>1 DEF OpType, Kin
<1>4. Kin(o, o)
  BY DEF Kin
<1>5. \/ After(o, s) = [o EXCEPT !.sent = TRUE]
      \/ After(o, s) = [o EXCEPT !.verified = TRUE]
      \/ After(o, s) = [o EXCEPT !.completed = TRUE]
      \/ After(o, s) = [o EXCEPT !.verified = TRUE, !.completed = cmd.name = "mag_stop"]
      \/ After(o, s) = o
  BY DEF After
<1>6. QED BY <1>2, <1>3, <1>4, <1>5

LEMMA KeptSays ==
  ASSUME NEW r \in ReplyType, NEW s, seen \in RegisterValues
  PROVE  /\ Kept(s, r.values) \in RegisterValues
         /\ s.do # "look" => Kept(s, r.values) = seen
         /\ s.do = "look" =>
              /\ Kept(s, r.values).rate
                   = IF s.addr = "control" THEN r.values.rate ELSE seen.rate
              /\ Kept(s, r.values).output
                   = IF s.addr = "output" THEN r.values.output ELSE seen.output
              /\ Kept(s, r.values).algorithm
                   = IF s.addr = "options" THEN r.values.algorithm ELSE seen.algorithm
  BY DEF Kept, ReplyType, RegisterValues

\* A step begins.
LEMMA EnterSays ==
  ASSUME Shape, NEW k \in 1 .. Len(Plan(cmd)), NEW o \in OpType, Enter(k, o)
  PROVE  LET s == Plan(cmd)[k] IN
         /\ at' = k /\ phase' = "running" /\ ended' = ended /\ op' \in OpType
         /\ op'.outcome = o.outcome /\ (o.attempted => op'.attempted)
         /\ desc' \in [valid : BOOLEAN, values : RegisterValues] /\ desc'.values = desc.values
         /\ desc'.valid => desc.valid
         /\ o.reference => op'.reference
         /\ epochs' = IF op'.reference /\ ~o.reference THEN epochs + 1 ELSE epochs
         /\ s.do = "write" =>
              /\ cmd \in Commands /\ k > 1 /\ s \in {Write(cmd.reg, cmd.val), Write("save", 0)}
              /\ link' = Append(link, s) /\ op'.attempted /\ ~desc'.valid
              /\ MovesReference(cmd) => op'.reference
         /\ s.do # "write" =>
              /\ op' = o /\ desc' = desc
              /\ \/ link' = link
                 \/ link' = Append(link, Unlock)
                 \/ /\ Reading(s)
                    /\ \E a \in Addresses : link' = Append(link, [do |-> "read", addr |-> a])
<1> DEFINE s == Plan(cmd)[k]
<1>1. StepIs(cmd, k, s)
  BY StepsAre DEF Shape
<1>2. /\ at' = k /\ phase' = "running" /\ ended' = ended
      /\ link' = Sends(s) /\ op' = Announced(o, s) /\ epochs' = Bump(o, s)
      /\ desc' = IF s.do = "write" THEN [desc EXCEPT !.valid = FALSE] ELSE desc
  BY DEF Enter
<1> HIDE DEF s
<1>3. MovesReference(cmd) \in BOOLEAN
  BY DEF MovesReference
<1>4. CASE s.do = "write"
  <2>1. op' = [o EXCEPT !.attempted = TRUE, !.reference = @ \/ MovesReference(cmd)]
    BY <1>2, <1>4 DEF Announced
  <2>2. op' \in OpType /\ op'.attempted /\ op'.outcome = o.outcome
        /\ (op'.reference <=> o.reference \/ MovesReference(cmd))
    BY <1>3, <2>1 DEF OpType
  <2>3. desc' \in [valid : BOOLEAN, values : RegisterValues] /\ ~desc'.valid
        /\ desc'.values = desc.values
    BY <1>2, <1>4 DEF Shape
  <2>4. link' = Append(link, s)
    BY <1>2, <1>4 DEF Sends, Reading
  <2>5. cmd \in Commands /\ k > 1 /\ s \in {Write(cmd.reg, cmd.val), Write("save", 0)}
    BY <1>1, <1>4 DEF StepIs, Reading, Pause, Unlock
  <2>6. epochs' = IF op'.reference /\ ~o.reference THEN epochs + 1 ELSE epochs
    BY <1>2 DEF Bump
  <2>7. QED BY <1>2, <1>4, <2>2, <2>3, <2>4, <2>5, <2>6 DEF s
<1>5. CASE s.do # "write"
  <2>1. op' = o /\ desc' = desc
    BY <1>2, <1>5 DEF Announced
  <2>2. epochs' = IF op'.reference /\ ~o.reference THEN epochs + 1 ELSE epochs
    BY <1>2 DEF Bump
  <2>3. \/ link' = link \/ link' = Append(link, Unlock)
        \/ Reading(s) /\ \E a \in Addresses : link' = Append(link, [do |-> "read", addr |-> a])
    <3>1. CASE Reading(s)
      BY <1>1, <1>2, <3>1 DEF Sends, StepIs
    <3>2. CASE ~Reading(s)
      <4>1. s = Pause \/ s = Unlock
        BY <1>1, <1>5, <3>2 DEF StepIs, Write
      <4>2. QED BY <1>2, <3>2, <4>1 DEF Sends, Pause, Unlock
    <3>3. QED BY <3>1, <3>2
  <2>4. desc' \in [valid : BOOLEAN, values : RegisterValues]
    BY <2>1 DEF Shape
  <2>5. QED BY <1>2, <1>5, <2>1, <2>2, <2>3, <2>4 DEF s
<1>6. QED BY <1>4, <1>5

\* The work returns.
LEMMA FinishSays ==
  ASSUME Shape, NEW o \in OpType, seen' \in RegisterValues,
         NEW result \in {"Succeeded", "Unverified", "Failed", "Cancelled"}, Finish(result, o)
  PROVE  /\ phase' = "closing" /\ ended' = result /\ at' = at /\ link' = link
         /\ op' \in OpType /\ op'.attempted = o.attempted
         /\ op'.outcome \in {o.outcome, result}
         /\ op'.outcome = "Succeeded" =>
              o.outcome = "Succeeded" \/ (result = "Succeeded" /\ cmd # Inspect)
         /\ result = "Succeeded" /\ cmd # Inspect => op'.outcome = "Succeeded"
         /\ o.reference => op'.reference
         /\ epochs' = IF op'.reference /\ ~o.reference THEN epochs + 1 ELSE epochs
         /\ desc' \in [valid : BOOLEAN, values : RegisterValues]
         /\ \/ desc' = desc
            \/ /\ result = "Succeeded" /\ cmd.name = "reset_defaults"
               /\ desc' = [valid |-> TRUE, values |-> seen']
<1>1. /\ phase' = "closing" /\ ended' = result /\ at' = at /\ link' = link
      /\ op' = IF result \in {"Succeeded", "Unverified"} /\ cmd # Inspect
                 THEN [o EXCEPT !.outcome = result]
               ELSE IF o.attempted THEN [o EXCEPT !.reference = TRUE] ELSE o
      /\ epochs' = IF op'.reference /\ ~o.reference THEN epochs + 1 ELSE epochs
      /\ desc' = IF result = "Succeeded" /\ cmd.name = "reset_defaults"
                   THEN [valid |-> TRUE, values |-> seen'] ELSE desc
  BY DEF Finish
<1>2. /\ op' \in OpType /\ op'.attempted = o.attempted
      /\ op'.outcome \in {o.outcome, result}
      /\ op'.outcome = "Succeeded" =>
           o.outcome = "Succeeded" \/ (result = "Succeeded" /\ cmd # Inspect)
      /\ result = "Succeeded" /\ cmd # Inspect => op'.outcome = "Succeeded"
      /\ o.reference => op'.reference
  <2>1. CASE op' = [o EXCEPT !.outcome = result] /\ cmd # Inspect
    BY <2>1 DEF OpType, Outcomes
  <2>2. CASE op' = [o EXCEPT !.reference = TRUE] /\ ~(result = "Succeeded" /\ cmd # Inspect)
    BY <2>2 DEF OpType
  <2>3. CASE op' = o /\ ~(result = "Succeeded" /\ cmd # Inspect)
    BY <2>3
  <2>4. QED BY <1>1, <2>1, <2>2, <2>3
<1>3. desc' \in [valid : BOOLEAN, values : RegisterValues]
      /\ (\/ desc' = desc
          \/ /\ result = "Succeeded" /\ cmd.name = "reset_defaults"
             /\ desc' = [valid |-> TRUE, values |-> seen'])
  BY <1>1 DEF Shape
<1>4. QED BY <1>1, <1>2, <1>3

\* The device takes the write of the operation, something that leaves the
\* registers as they are, or a reading that it answers.
Wrote ==
  /\ cmd \in Commands /\ Head(link) = Write(cmd.reg, cmd.val)
  /\ op.attempted /\ regs' = Taken(Head(link)) /\ replies' = replies
  /\ saved' = saved \/ (cmd.reg = "save" /\ saved' = regs')
Ignored ==
  /\ regs' = regs /\ replies' = replies /\ saved' \in {saved, regs}
  /\ touched' = touched \/ op.attempted
Asked ==
  /\ Head(link).do = "read" /\ Head(link).addr \in Addresses
  /\ regs' = regs /\ saved' = saved /\ touched' = touched
  /\ replies' = Append(replies, [addr |-> Head(link).addr, values |-> regs])

LEMMA MessageSays ==
  ASSUME NEW m \in Messages
  PROVE  /\ m = Unlock \/ (m.do = "write" /\ \E c \in Commands : m = Write(c.reg, c.val))
            \/ (m.do = "read" /\ m.addr \in Addresses)
         /\ Unlock.do = "unlock"
  BY DEF Messages, Unlock, Write

LEMMA TakesSays ==
  ASSUME Shape, Rest, Announces, Takes
  PROVE  /\ link # <<>> /\ Live /\ link' = Tail(link) /\ Head(link) \in On(link)
         /\ On(link') \subseteq On(link) /\ link' \in Seq(Messages)
         /\ UNCHANGED <<task, op, desc, epochs, aged, cycles>> /\ unlocked' \in BOOLEAN
         /\ Wrote \/ Ignored \/ Asked
         /\ Asked \/ Head(link).do # "read"
<1> DEFINE m == Head(link)
<1>1. /\ link # <<>> /\ link' = Tail(link)
      /\ unlocked' = (unlocked \/ m.do = "unlock")
      /\ regs' = IF m.do = "write" /\ unlocked THEN Taken(m) ELSE regs
      /\ touched' = IF m.do = "write" /\ unlocked THEN touched \cup {m.reg} ELSE touched
      /\ saved' = IF m.do = "write" /\ unlocked /\ m.reg = "save" THEN Taken(m) ELSE saved
      /\ replies' = IF m.do = "read" THEN Append(replies, [addr |-> m.addr, values |-> regs])
                    ELSE replies
      /\ UNCHANGED <<task, op, desc, epochs, aged, cycles>>
  BY DEF Takes
<1>2. m \in On(link) /\ m \in Messages /\ On(link') \subseteq On(link) /\ link' \in Seq(Messages)
  BY <1>1, OnSays DEF Shape
<1>3. Live
  BY <1>1 DEF Rest, Live, Shape
<1>4. unlocked' \in BOOLEAN
  BY <1>1 DEF Shape
<1> HIDE DEF m
<1>5. CASE m.do = "read"
  <2>1. m.addr \in Addresses
    BY <1>2, <1>5, MessageSays
  <2>2. Asked
    BY <1>1, <1>5, <2>1 DEF Asked, m
  <2>3. QED BY <1>1, <1>2, <1>3, <1>4, <2>2 DEF m
<1>6. CASE m.do # "read" /\ ~(m.do = "write" /\ unlocked)
  <2>1. Ignored
    BY <1>1, <1>6 DEF Ignored
  <2>2. QED BY <1>1, <1>2, <1>3, <1>4, <1>6, <2>1 DEF m
<1>7. CASE m.do = "write" /\ unlocked
  <2>1. op.attempted /\ cmd \in Commands /\ m \in {Write(cmd.reg, cmd.val), Write("save", 0)}
    BY <1>2, <1>7 DEF Announces
  <2>2. CASE m = Write(cmd.reg, cmd.val)
    <3>1. m.reg = cmd.reg
      BY <2>2 DEF Write
    <3>2. Wrote
      BY <1>1, <1>7, <2>1, <2>2, <3>1 DEF Wrote, m
    <3>3. QED BY <1>1, <1>2, <1>3, <1>4, <1>7, <3>2 DEF m
  <2>3. CASE m = Write("save", 0)
    <3>1. Taken(m) = regs /\ m.reg = "save"
      BY <2>3 DEF Taken, Write
    <3>2. Ignored
      BY <1>1, <1>7, <2>1, <3>1 DEF Ignored
    <3>3. QED BY <1>1, <1>2, <1>3, <1>4, <1>7, <3>2 DEF m
  <2>4. QED BY <2>1, <2>2, <2>3
<1>8. QED BY <1>5, <1>6, <1>7

\* What becomes of the registers in a step.
Settled ==
  /\ regs.calsw \in {1, 4, 8} /\ regs' = [regs EXCEPT !.calsw = 0]
  /\ UNCHANGED <<unlocked, saved, touched, aged, cycles, link, replies, task, op, desc, epochs>>
LEMMA RegsSay ==
  ASSUME Shape, Rest, Announces, DeviceStep
  PROVE  \/ regs' = regs /\ (saved' = saved \/ (Takes /\ saved' = regs))
         \/ Settled
         \/ PowerCycle
         \/ Takes /\ Wrote
<1>1. CASE \E c \in Commands \cup {Inspect} : Begin(c)
  BY <1>1 DEF Begin
<1>2. CASE Cancel \/ Opens \/ OpenFails \/ Closes \/ Repeats \/ Loses
  BY <1>2 DEF Cancel, Opens, OpenFails, Closes, Repeats, Loses, device
<1>3. CASE Worker
  BY <1>3, WorkerSays DEF device
<1>4. CASE Takes
  BY <1>4, TakesSays DEF Ignored, Asked
<1>5. CASE Settles
  BY <1>5 DEF Settles, Settled
<1>6. CASE UNCHANGED vars
  BY <1>6 DEF vars, device
<1>7. QED BY <1>1, <1>2, <1>3, <1>4, <1>5, <1>6 DEF DeviceStep

\* A step begins behind another, ...
LEMMA NextSays ==
  ASSUME Shape, EntersNext
  PROVE  /\ at \in Nat /\ at >= 1 /\ at + 1 \in 1 .. Len(Plan(cmd))
         /\ at' = at + 1 /\ phase' = "running" /\ ended' = ended
         /\ op' \in OpType /\ op'.outcome = op.outcome
         /\ (op.attempted => op'.attempted) /\ (op.reference => op'.reference)
         /\ epochs' = IF op'.reference /\ ~op.reference THEN epochs + 1 ELSE epochs
         /\ desc' \in [valid : BOOLEAN, values : RegisterValues] /\ desc'.values = desc.values
         /\ (desc'.valid => desc.valid) /\ seen' \in RegisterValues
         /\ Plan(cmd)[at + 1].do = "write" =>
              /\ cmd \in Commands /\ op'.attempted /\ ~desc'.valid
              /\ Plan(cmd)[at + 1] \in {Write(cmd.reg, cmd.val), Write("save", 0)}
              /\ link' = Append(link, Plan(cmd)[at + 1])
              /\ MovesReference(cmd) => op'.reference
         /\ Plan(cmd)[at + 1].do # "write" =>
              /\ op'.attempted = op.attempted /\ op'.reference = op.reference /\ desc' = desc
              /\ \/ link' = link
                 \/ link' = Append(link, Unlock)
                 \/ /\ Reading(Plan(cmd)[at + 1])
                    /\ \E a \in Addresses : link' = Append(link, [do |-> "read", addr |-> a])
<1> DEFINE o == After(op, Step)
           k == at + 1
<1>1. at \in Nat /\ at >= 1 /\ k \in 1 .. Len(Plan(cmd))
  BY StepsAre DEF Shape, EntersNext
<1>2. o \in OpType /\ Kin(op, o)
  BY AfterSays DEF Shape
<1>3. Enter(k, o)
  BY DEF EntersNext
<1>4. seen' \in RegisterValues
  BY KeptSays DEF EntersNext, Passed, AnswerIs, Shape
<1> HIDE DEF o, k
<1>5. LET s == Plan(cmd)[k] IN
         /\ at' = k /\ phase' = "running" /\ ended' = ended /\ op' \in OpType
         /\ op'.outcome = o.outcome /\ (o.attempted => op'.attempted)
         /\ desc' \in [valid : BOOLEAN, values : RegisterValues] /\ desc'.values = desc.values
         /\ desc'.valid => desc.valid
         /\ o.reference => op'.reference
         /\ epochs' = IF op'.reference /\ ~o.reference THEN epochs + 1 ELSE epochs
         /\ s.do = "write" =>
              /\ cmd \in Commands /\ k > 1 /\ s \in {Write(cmd.reg, cmd.val), Write("save", 0)}
              /\ link' = Append(link, s) /\ op'.attempted /\ ~desc'.valid
              /\ MovesReference(cmd) => op'.reference
         /\ s.do # "write" =>
              /\ op' = o /\ desc' = desc
              /\ \/ link' = link
                 \/ link' = Append(link, Unlock)
                 \/ /\ Reading(s)
                    /\ \E a \in Addresses : link' = Append(link, [do |-> "read", addr |-> a])
  BY <1>1, <1>2, <1>3, EnterSays
<1>6. QED BY <1>1, <1>2, <1>4, <1>5 DEF Kin, k

\* ... again, while a calibration of the accelerometer goes on, ...
LEMMA BackSays ==
  ASSUME Shape, EntersBack
  PROVE  /\ cmd \in Commands /\ cmd.name = "accel_calibrate" /\ at = 6 /\ at' = 5
         /\ phase' = "running"
         /\ UNCHANGED <<ended, op, epochs, desc, link, seen>>
<1>1. at = 6 /\ cmd.name = "accel_calibrate"
  BY StepsAre DEF Shape, EntersBack, Step, StepIs
<1>2. cmd \in Commands
  BY <1>1 DEF Shape, Inspect, Command
<1>3. Plan(cmd)[5] = Pause /\ at - 1 = 5
  BY <1>1, <1>2, AccelSteps
<1>4. Enter(5, op) /\ seen' = seen
  BY <1>3 DEF EntersBack
<1>5. Pause.do = "pause"
  BY DEF Pause
<1>6. at' = 5 /\ phase' = "running" /\ UNCHANGED <<ended, desc>>
      /\ link' = Sends(Pause) /\ op' = Announced(op, Pause) /\ epochs' = Bump(op, Pause)
  BY <1>3, <1>4, <1>5 DEF Enter
<1>7. link' = link /\ op' = op /\ epochs' = epochs
  BY <1>5, <1>6 DEF Sends, Announced, Bump, Reading
<1>8. QED BY <1>1, <1>2, <1>4, <1>6, <1>7

\* ... and as the first of an operation.
LEMMA OpensSays ==
  ASSUME Shape, Rest, Opens
  PROVE  /\ phase = "opening" /\ at' = 1 /\ phase' = "running"
         /\ op = NoOperation /\ touched = {} /\ link = <<>> /\ replies = <<>>
         /\ UNCHANGED <<regs, unlocked, saved, touched, cycles, replies, cmd, cancel, seen,
                        count, ended, op, desc, epochs>>
         /\ aged' = (aged /\ cmd # Inspect)
         /\ \/ link' = link
            \/ link' = Append(link, Unlock)
            \/ /\ Reading(Plan(cmd)[1])
               /\ \E a \in Addresses : link' = Append(link, [do |-> "read", addr |-> a])
<1>1. /\ phase = "opening" /\ Enter(1, op) /\ aged' = (aged /\ cmd # Inspect)
      /\ UNCHANGED <<regs, unlocked, saved, touched, cycles, replies, cmd, cancel, seen, count>>
  BY DEF Opens
<1>2. op = NoOperation /\ touched = {} /\ link = <<>> /\ replies = <<>>
  BY <1>1 DEF Rest
<1>3. 1 \in 1 .. Len(Plan(cmd)) /\ Plan(cmd)[1].do # "write" /\ op \in OpType
  BY StepsAre DEF Shape, StepIs
<1>4. /\ at' = 1 /\ phase' = "running" /\ ended' = ended /\ op' = op /\ desc' = desc
      /\ epochs' = IF op'.reference /\ ~op.reference THEN epochs + 1 ELSE epochs
      /\ \/ link' = link
         \/ link' = Append(link, Unlock)
         \/ /\ Reading(Plan(cmd)[1])
            /\ \E a \in Addresses : link' = Append(link, [do |-> "read", addr |-> a])
  BY <1>1, <1>3, EnterSays
<1>5. QED BY <1>1, <1>2, <1>4

LEMMA EndsSays ==
  ASSUME Shape, NEW result \in {"Succeeded", "Unverified", "Failed", "Cancelled"},
         NEW o \in {op, After(op, Step)}, Ends(result, o)
  PROVE  /\ phase' = "closing" /\ ended' = result /\ at' = at /\ link' = link
         /\ op' \in OpType /\ op'.attempted = op.attempted
         /\ op'.outcome \in {op.outcome, result} /\ (op.reference => op'.reference)
         /\ op'.outcome = "Succeeded" =>
              op.outcome = "Succeeded" \/ (result = "Succeeded" /\ cmd # Inspect)
         /\ result = "Succeeded" /\ cmd # Inspect => op'.outcome = "Succeeded"
         /\ epochs' = IF op'.reference /\ ~op.reference THEN epochs + 1 ELSE epochs
         /\ desc' \in [valid : BOOLEAN, values : RegisterValues] /\ seen' \in RegisterValues
         /\ \/ desc' = desc
            \/ /\ result = "Succeeded" /\ cmd.name = "reset_defaults"
               /\ desc' = [valid |-> TRUE, values |-> seen']
<1>1. o \in OpType /\ Kin(op, o)
  <2>1. op \in OpType /\ Kin(op, op)
    BY DEF Shape, Kin
  <2>2. QED BY <2>1, AfterSays
<1>2. seen' \in RegisterValues
  BY KeptSays DEF Ends, Passed, AnswerIs, Shape
<1>3. Finish(result, o)
  BY DEF Ends
<1>4. /\ phase' = "closing" /\ ended' = result /\ at' = at /\ link' = link
      /\ op' \in OpType /\ op'.attempted = o.attempted
      /\ op'.outcome \in {o.outcome, result}
      /\ op'.outcome = "Succeeded" =>
           o.outcome = "Succeeded" \/ (result = "Succeeded" /\ cmd # Inspect)
      /\ result = "Succeeded" /\ cmd # Inspect => op'.outcome = "Succeeded"
      /\ o.reference => op'.reference
      /\ epochs' = IF op'.reference /\ ~o.reference THEN epochs + 1 ELSE epochs
      /\ desc' \in [valid : BOOLEAN, values : RegisterValues]
      /\ \/ desc' = desc
         \/ /\ result = "Succeeded" /\ cmd.name = "reset_defaults"
            /\ desc' = [valid |-> TRUE, values |-> seen']
  BY <1>1, <1>2, <1>3, FinishSays
<1>5. QED BY <1>1, <1>2, <1>4 DEF Kin

-----------------------------------------------------------------------------
(***************************************************************************)
(* Every step is one of these; what it does to each part of the invariant  *)
(* follows.                                                                *)
(***************************************************************************)

Shorter(old, new) == new = old \/ (old # <<>> /\ new = Tail(old))

Quiet ==
  /\ UNCHANGED <<regs, unlocked, saved, touched, aged, cycles, cmd, phase, at, ended, seen, count,
                 op, desc, epochs>>
  /\ cancel' \in BOOLEAN /\ Shorter(link, link') /\ Shorter(replies, replies')
Working ==
  /\ phase = "running" /\ Shorter(replies, replies')
  /\ UNCHANGED <<regs, unlocked, saved, touched, aged, cycles, cmd, cancel, count>>
EndsSomehow ==
  \E result \in {"Succeeded", "Unverified", "Failed", "Cancelled"},
     o \in {op, After(op, Step)} : Ends(result, o)
Begins == \E c \in Commands \cup {Inspect} : Begin(c)

LEMMA StepsSay ==
  ASSUME Shape, DeviceStep
  PROVE  \/ Begins \/ Quiet \/ Repeats \/ Opens \/ OpenFails
         \/ (Working /\ EntersNext) \/ (Working /\ EntersBack) \/ (Working /\ EndsSomehow)
         \/ Closes \/ Takes \/ Settled \/ PowerCycle
<1>1. CASE Cancel
  <2>1. cancel' = TRUE /\ UNCHANGED <<device, link, replies, cmd, phase, at, ended, seen, count, op,
                                      desc, epochs>>
    BY <1>1 DEF Cancel
  <2>2. Quiet
    BY <2>1 DEF Quiet, device, Shorter
  <2>3. QED BY <2>2
<1>2. CASE Loses
  <2>1. Quiet
    BY <1>2 DEF Loses, Quiet, device, task, Shorter, Shape
  <2>2. QED BY <2>1
<1>3. CASE UNCHANGED vars
  <2>1. Quiet
    BY <1>3 DEF vars, Quiet, device, task, Shorter, Shape
  <2>2. QED BY <2>1
<1>4. CASE Worker
  <2>1. /\ phase = "running" /\ UNCHANGED <<device, cmd, cancel, count>>
        /\ replies' = replies \/ (replies # <<>> /\ replies' = Tail(replies))
        /\ \/ UNCHANGED <<link, at, phase, ended, op, desc, epochs, seen>>
           \/ EntersNext
           \/ EntersBack
           \/ EndsSomehow
    BY <1>4, WorkerSays DEF EndsSomehow
  <2>2. Working
    BY <2>1 DEF Working, device, Shorter
  <2>3. CASE UNCHANGED <<link, at, phase, ended, op, desc, epochs, seen>>
    <3>1. Quiet
      BY <2>2, <2>3 DEF Quiet, Working, Shorter, Shape
    <3>2. QED BY <3>1
  <2>4. QED BY <2>1, <2>2, <2>3
<1>5. CASE Settles
  BY <1>5 DEF Settles, Settled
<1>6. CASE \E c \in Commands \cup {Inspect} : Begin(c)
  BY <1>6 DEF Begins
<1>7. QED BY <1>1, <1>2, <1>3, <1>4, <1>5, <1>6 DEF DeviceStep

LEMMA ShorterSays ==
  ASSUME NEW S, NEW s \in Seq(S), NEW t, Shorter(s, t)
  PROVE  /\ t \in Seq(S) /\ On(t) \subseteq On(s) /\ (s = <<>> => t = <<>>)
         /\ \E d \in {0, 1} : \A i \in 1 .. Len(t) : i + d \in 1 .. Len(s) /\ t[i] = s[i + d]
<1>1. CASE t = s
  <2>1. \A i \in 1 .. Len(t) : i + 0 \in 1 .. Len(s) /\ t[i] = s[i + 0]
    BY <1>1
  <2>2. QED BY <1>1, <2>1
<1>2. CASE s # <<>> /\ t = Tail(s)
  <2>1. /\ t \in Seq(S) /\ On(t) \subseteq On(s) /\ Len(t) = Len(s) - 1
        /\ \A i \in 1 .. Len(s) - 1 : Tail(s)[i] = s[i + 1]
    BY <1>2, OnSays
  <2>2. Len(s) \in Nat
    OBVIOUS
  <2>3. \A i \in 1 .. Len(t) : i + 1 \in 1 .. Len(s) /\ t[i] = s[i + 1]
    BY <1>2, <2>1, <2>2
  <2>4. QED BY <1>2, <2>1, <2>3
<1>3. QED BY <1>1, <1>2 DEF Shorter

LEMMA MessagesAre ==
  /\ Unlock \in Messages
  /\ \A c \in Commands : Write(c.reg, c.val) \in Messages
  /\ Write("save", 0) \in Messages
  /\ \A a \in Addresses : [do |-> "read", addr |-> a] \in Messages
<1>1. Command("save", "save", 0) \in Commands
  BY DEF Commands
<1>2. Write("save", 0) \in Messages
  BY <1>1 DEF Messages, Command
<1>3. QED BY <1>2 DEF Messages

-----------------------------------------------------------------------------
(***************************************************************************)
(* The shape is kept.                                                      *)
(***************************************************************************)

LEMMA ShapeStep ==
  ASSUME Shape, Rest, Announces, DeviceStep, DeviceAssumption
  PROVE  Shape'
<1>1. CASE Begins
  <2>1. PICK c \in Commands \cup {Inspect} : Begin(c)
    BY <1>1 DEF Begins
  <2>2. 1 \in 1 .. Len(Plan(c))
    BY StepsAre
  <2>3. NoOperation \in OpType
    BY DEF NoOperation, OpType, Outcomes
  <2>4. desc' \in [valid : BOOLEAN, values : RegisterValues] /\ seen' \in RegisterValues
    BY <2>1 DEF Begin, Shape
  <2>5. cmd' = c /\ at' = 1
    BY <2>1 DEF Begin
  <2>6. UNCHANGED <<regs, unlocked, saved, aged, cycles, link, replies>> /\ count' = count + 1
        /\ phase' = "opening" /\ cancel' = FALSE /\ ended' = "None" /\ op' = NoOperation
    BY <2>1 DEF Begin
  <2>7. (at \in 1 .. Len(Plan(cmd)))'
    BY <2>2, <2>5
  <2>8. (/\ regs \in RegisterValues /\ saved \in RegisterValues
         /\ unlocked \in BOOLEAN /\ aged \in BOOLEAN /\ cycles \in 0 .. MaxCycles)'
    BY <2>6 DEF Shape
  <2>9. (/\ cmd \in Commands \cup {Inspect}
         /\ phase \in {"idle", "opening", "running", "closing"}
         /\ cancel \in BOOLEAN /\ ended \in Outcomes \cup {"None"})'
    BY <2>5, <2>6
  <2>10. (op \in OpType /\ count \in Nat /\ link \in Seq(Messages) /\ replies \in Seq(ReplyType))'
    BY <2>3, <2>6 DEF Shape
  <2>11. QED BY <2>4, <2>7, <2>8, <2>9, <2>10 DEF Shape
<1>2. CASE Quiet
  <2>1. link' \in Seq(Messages) /\ replies' \in Seq(ReplyType)
    BY <1>2, ShorterSays DEF Quiet, Shape
  <2>2. QED BY <1>2, <2>1 DEF Quiet, Shape
<1>3. CASE Repeats
  <2>1. Step.addr \in Addresses
    BY <1>3, StepsAre DEF Repeats, Shape, Step, StepIs
  <2>2. link' \in Seq(Messages)
    BY <1>3, <2>1, MessagesAre DEF Repeats, Shape
  <2>3. QED BY <1>3, <2>2 DEF Repeats, Shape, device, task
<1>4. CASE Opens
  <2>1. link' \in Seq(Messages)
    <3>1. link \in Seq(Messages) /\ \A m \in Messages : Append(link, m) \in Seq(Messages)
      BY DEF Shape
    <3>2. QED BY <1>4, <3>1, OpensSays, MessagesAre
  <2>2. 1 \in 1 .. Len(Plan(cmd))
    BY StepsAre DEF Shape
  <2>3. QED BY <1>4, <2>1, <2>2, OpensSays DEF Shape
<1>5. CASE OpenFails
  <2>1. op' \in OpType /\ ended' \in Outcomes \cup {"None"}
    BY <1>5 DEF OpenFails, Shape, OpType, Outcomes
  <2>2. QED BY <1>5, <2>1 DEF OpenFails, Shape, device
<1>6. CASE Working /\ EntersNext
  <2>1. replies' \in Seq(ReplyType)
    BY <1>6, ShorterSays DEF Working, Shape
  <2>2. link' \in Seq(Messages)
    <3>1. link \in Seq(Messages) /\ \A m \in Messages : Append(link, m) \in Seq(Messages)
      BY DEF Shape
    <3>2. CASE Plan(cmd)[at + 1].do = "write"
      BY <1>6, <3>1, <3>2, NextSays, MessagesAre
    <3>3. CASE Plan(cmd)[at + 1].do # "write"
      BY <1>6, <3>1, <3>3, NextSays, MessagesAre
    <3>4. QED BY <3>2, <3>3
  <2>3. QED BY <1>6, <2>1, <2>2, NextSays DEF Working, Shape
<1>7. CASE Working /\ EntersBack
  <2>1. replies' \in Seq(ReplyType)
    BY <1>7, ShorterSays DEF Working, Shape
  <2>2. at' \in 1 .. Len(Plan(cmd))
    BY <1>7, BackSays, AccelSteps
  <2>3. QED BY <1>7, <2>1, <2>2, BackSays DEF Working, Shape
<1>8. CASE Working /\ EndsSomehow
  <2>1. replies' \in Seq(ReplyType)
    BY <1>8, ShorterSays DEF Working, Shape
  <2>2. PICK result \in {"Succeeded", "Unverified", "Failed", "Cancelled"},
             o \in {op, After(op, Step)} : Ends(result, o)
    BY <1>8 DEF EndsSomehow
  <2>3. /\ phase' = "closing" /\ ended' = result /\ at' = at /\ link' = link /\ op' \in OpType
        /\ desc' \in [valid : BOOLEAN, values : RegisterValues] /\ seen' \in RegisterValues
    BY <2>2, EndsSays
  <2>4. ended' \in Outcomes
    BY <2>2, <2>3 DEF Outcomes
  <2>5. QED BY <1>8, <2>1, <2>3, <2>4 DEF Working, Shape
<1>9. CASE Closes
  <2>1. op' \in OpType
    <3>1. ended \in Outcomes
      BY <1>9 DEF Closes, Rest
    <3>2. \/ op' = [op EXCEPT !.verified = TRUE, !.outcome = "Succeeded"]
          \/ op' = [op EXCEPT !.outcome = ended]
          \/ op' = op
      BY <1>9 DEF Closes
    <3>3. QED BY <3>1, <3>2 DEF Shape, OpType, Outcomes
  <2>2. desc' \in [valid : BOOLEAN, values : RegisterValues]
    BY <1>9 DEF Closes, Shape
  <2>3. 1 \in 1 .. Len(Plan(cmd))
    BY StepsAre DEF Shape
  <2>4. <<>> \in Seq(Messages) /\ <<>> \in Seq(ReplyType)
    OBVIOUS
  <2>5. seen' \in RegisterValues
    BY <1>9, <2>2 DEF Closes
  <2>6. QED BY <1>9, <2>1, <2>2, <2>3, <2>4, <2>5 DEF Closes, Shape, device
<1>10. CASE Takes
  <2>1. /\ link' \in Seq(Messages) /\ unlocked' \in BOOLEAN
        /\ UNCHANGED <<task, op, desc, epochs, aged, cycles>>
        /\ Wrote \/ Ignored \/ Asked
    BY <1>10, TakesSays
  <2>2. regs' \in RegisterValues /\ saved' \in RegisterValues
    BY <2>1, TakenSays DEF Wrote, Ignored, Asked, Shape
  <2>3. replies' \in Seq(ReplyType)
    <3>1. CASE Asked
      <4>1. [addr |-> Head(link).addr, values |-> regs] \in ReplyType
        BY <3>1 DEF Asked, ReplyType, Shape
      <4>2. QED BY <3>1, <4>1 DEF Asked, Shape
    <3>2. CASE Wrote \/ Ignored
      BY <3>2 DEF Wrote, Ignored, Shape
    <3>3. QED BY <2>1, <3>1, <3>2
  <2>4. QED BY <2>1, <2>2, <2>3 DEF Shape, task
<1>11. CASE Settled
  <2>1. regs' \in RegisterValues
    BY <1>11 DEF Settled, Shape, RegisterValues
  <2>2. QED BY <1>11, <2>1 DEF Settled, Shape, task
<1>12. CASE PowerCycle
  <2>1. regs' \in RegisterValues
    BY <1>12 DEF PowerCycle, Shape, RegisterValues
  <2>2. cycles' \in 0 .. MaxCycles
    BY <1>12 DEF PowerCycle, Shape, DeviceAssumption
  <2>3. QED BY <1>12, <2>1, <2>2 DEF PowerCycle, Shape, task
<1>13. QED
  BY <1>1, <1>2, <1>3, <1>4, <1>5, <1>6, <1>7, <1>8, <1>9, <1>10, <1>11, <1>12, StepsSay

-----------------------------------------------------------------------------
(***************************************************************************)
(* What is under way, and what was announced.                              *)
(***************************************************************************)

LEMMA RestStep ==
  ASSUME Shape, Rest, Announces, DeviceStep
  PROVE  Rest'
<1>1. CASE Begins
  <2>1. phase = "idle" /\ phase' = "opening" /\ at' = 1 /\ op' = NoOperation /\ touched' = {}
        /\ UNCHANGED <<link, replies>>
    BY <1>1 DEF Begins, Begin
  <2>2. QED BY <2>1 DEF Rest
<1>2. CASE Quiet
  <2>1. (link = <<>> => link' = <<>>) /\ (replies = <<>> => replies' = <<>>)
    BY <1>2, ShorterSays DEF Quiet, Shape
  <2>2. QED BY <1>2, <2>1 DEF Quiet, Rest
<1>3. CASE Repeats
  BY <1>3 DEF Repeats, Rest, task
<1>4. CASE Opens
  <2>1. phase' = "running" /\ op' = NoOperation
    BY <1>4, OpensSays
  <2>2. QED BY <2>1 DEF Rest, NoOperation
<1>5. CASE OpenFails
  BY <1>5 DEF OpenFails, Rest
<1>6. CASE Working /\ EntersNext
  <2>1. phase' = "running" /\ op'.outcome = op.outcome
    BY <1>6, NextSays
  <2>2. QED BY <1>6, <2>1 DEF Rest, Working
<1>7. CASE Working /\ EntersBack
  <2>1. phase' = "running" /\ op' = op
    BY <1>7, BackSays
  <2>2. QED BY <1>7, <2>1 DEF Rest, Working
<1>8. CASE Working /\ EndsSomehow
  <2>1. PICK result \in {"Succeeded", "Unverified", "Failed", "Cancelled"},
             o \in {op, After(op, Step)} : Ends(result, o)
    BY <1>8 DEF EndsSomehow
  <2>2. /\ phase' = "closing" /\ ended' = result
        /\ result = "Succeeded" /\ cmd # Inspect => op'.outcome = "Succeeded"
    BY <2>1, EndsSays
  <2>3. cmd' = cmd /\ result \in Outcomes
    BY <1>8 DEF Working, Outcomes
  <2>4. QED BY <2>2, <2>3 DEF Rest
<1>9. CASE Closes
  BY <1>9 DEF Closes, Rest
<1>10. CASE Takes
  <2>1. Live /\ UNCHANGED <<task, op>>
    BY <1>10, TakesSays
  <2>2. QED BY <2>1 DEF Live, Rest, task
<1>11. CASE Settled
  BY <1>11 DEF Settled, Rest, task
<1>12. CASE PowerCycle
  BY <1>12 DEF PowerCycle, Rest, task
<1>13. QED
  BY <1>1, <1>2, <1>3, <1>4, <1>5, <1>6, <1>7, <1>8, <1>9, <1>10, <1>11, <1>12, StepsSay

\* Only the beginning of a step puts a write on the link, and the device takes
\* nothing away from what else is on it.
NewWrite(m) ==
  /\ Working /\ EntersNext /\ Plan(cmd)[at + 1].do = "write" /\ m = Plan(cmd)[at + 1]
LEMMA NoNewWrite ==
  ASSUME link \in Seq(Messages),
         \/ link' = link
         \/ link' = Append(link, Unlock)
         \/ \E a \in Addresses : link' = Append(link, [do |-> "read", addr |-> a])
  PROVE  \A m \in On(link') : m.do = "write" => m \in On(link)
<1>1. \A m \in Messages : On(Append(link, m)) = On(link) \cup {m}
  BY OnSays
<1>2. CASE link' = link
  BY <1>2
<1>3. CASE link' = Append(link, Unlock)
  <2>1. On(link') = On(link) \cup {Unlock} /\ Unlock.do # "write"
    BY <1>1, <1>3, MessagesAre DEF Unlock
  <2>2. QED BY <2>1
<1>4. ASSUME NEW a \in Addresses, link' = Append(link, [do |-> "read", addr |-> a])
      PROVE  \A m \in On(link') : m.do = "write" => m \in On(link)
  <2>1. On(link') = On(link) \cup {[do |-> "read", addr |-> a]}
    BY <1>1, <1>4, MessagesAre
  <2>2. QED BY <2>1
<1>5. QED BY <1>2, <1>3, <1>4

LEMMA LinkSays ==
  ASSUME Shape, Rest, Announces, DeviceStep
  PROVE  \A m \in On(link') : m.do = "write" => m \in On(link) \/ NewWrite(m)
<1>1. link \in Seq(Messages) /\ \A m \in Messages : On(Append(link, m)) = On(link) \cup {m}
  BY OnSays DEF Shape
<1>3. CASE Begins \/ OpenFails \/ Settled \/ PowerCycle
  BY <1>3 DEF Begins, Begin, OpenFails, Settled, PowerCycle
<1>4. CASE Quiet
  <2>1. On(link') \subseteq On(link)
    BY <1>1, <1>4, ShorterSays DEF Quiet
  <2>2. QED BY <2>1
<1>5. CASE Repeats
  <2>1. Step.addr \in Addresses
    BY <1>5, StepsAre DEF Repeats, Shape, Step, StepIs
  <2>2. On(link') = On(link) \cup {[do |-> "read", addr |-> Step.addr]}
    BY <1>1, <1>5, <2>1, MessagesAre DEF Repeats
  <2>3. QED BY <2>2
<1>6. CASE Opens
  <2>1. \/ link' = link
        \/ link' = Append(link, Unlock)
        \/ \E a \in Addresses : link' = Append(link, [do |-> "read", addr |-> a])
    BY <1>6, OpensSays
  <2>2. QED BY <2>1, NoNewWrite DEF Shape
<1>7. CASE Working /\ EntersNext
  <2>1. CASE Plan(cmd)[at + 1].do = "write"
    <3>1. link' = Append(link, Plan(cmd)[at + 1]) /\ Plan(cmd)[at + 1] \in Messages
      BY <1>7, <2>1, NextSays, MessagesAre
    <3>2. QED BY <1>1, <1>7, <2>1, <3>1 DEF NewWrite
  <2>2. CASE Plan(cmd)[at + 1].do # "write"
    <3>1. \/ link' = link
          \/ link' = Append(link, Unlock)
          \/ \E a \in Addresses : link' = Append(link, [do |-> "read", addr |-> a])
      BY <1>7, <2>2, NextSays
    <3>2. QED BY <3>1, NoNewWrite DEF Shape
  <2>3. QED BY <2>1, <2>2
<1>8. CASE Working /\ EntersBack
  BY <1>8, BackSays
<1>9. CASE Working /\ EndsSomehow
  BY <1>9, EndsSays DEF EndsSomehow
<1>10. CASE Closes
  BY <1>10 DEF Closes, On
<1>11. CASE Takes
  BY <1>11, TakesSays
<1>12. QED
  BY <1>3, <1>4, <1>5, <1>6, <1>7, <1>8, <1>9, <1>10, <1>11, StepsSay

\* Only a reading the device took puts an answer on its way.
LEMMA RepliesSay ==
  ASSUME Shape, Rest, Announces, DeviceStep
  PROVE  \A r \in On(replies') :
           r \in On(replies) \/ (Takes /\ Asked /\ r.values = regs)
<1>1. CASE Begins \/ OpenFails \/ Settled \/ PowerCycle \/ Repeats
  BY <1>1 DEF Begins, Begin, OpenFails, Settled, PowerCycle, Repeats
<1>2. CASE Opens
  BY <1>2, OpensSays
<1>3. CASE Quiet \/ Working
  <2>1. On(replies') \subseteq On(replies)
    BY <1>3, ShorterSays DEF Quiet, Working, Shape
  <2>2. QED BY <2>1
<1>4. CASE Closes
  BY <1>4 DEF Closes, On
<1>5. CASE Takes
  <2>1. CASE Asked
    <3>1. [addr |-> Head(link).addr, values |-> regs] \in ReplyType
      BY <2>1 DEF Asked, ReplyType, Shape
    <3>2. On(replies') = On(replies) \cup {[addr |-> Head(link).addr, values |-> regs]}
      BY <2>1, <3>1, OnSays DEF Asked, Shape
    <3>3. QED BY <1>5, <2>1, <3>2
  <2>2. CASE Wrote \/ Ignored
    BY <2>2 DEF Wrote, Ignored
  <2>3. QED BY <1>5, <2>1, <2>2, TakesSays
<1>6. QED BY <1>1, <1>2, <1>3, <1>4, <1>5, StepsSay

\* What the operation says changes only when it begins, and as its steps do.
LEMMA OpSays ==
  ASSUME Shape, Rest, Announces, DeviceStep
  PROVE  \/ Begins
         \/ /\ cmd' = cmd /\ (op.attempted => op'.attempted) /\ (op.reference => op'.reference)
            /\ epochs' = IF op'.reference /\ ~op.reference THEN epochs + 1 ELSE epochs
            /\ op'.attempted => \/ op.attempted
                                \/ /\ cmd \in Commands /\ at' > 1
                                   /\ MovesReference(cmd) => op'.reference
            /\ Live /\ Live' /\ at > 1 => at' > 1
            /\ Live' /\ ~Live => op' = NoOperation
            /\ op.outcome = "Succeeded" => op'.outcome = "Succeeded" \/ ~Live
<1>1. op \in OpType /\ at \in Nat
  BY StepsAre DEF Shape
<1>2. CASE Quiet
  BY <1>2 DEF Quiet, Live
<1>3. CASE Repeats
  BY <1>3 DEF Repeats, task, Live
<1>4. CASE Opens
  BY <1>4, OpensSays DEF Live
<1>5. CASE OpenFails
  <2>1. /\ phase = "opening" /\ phase' = "idle" /\ UNCHANGED <<cmd, epochs>>
        /\ \E e \in {"Failed", "Cancelled"} : op' = [op EXCEPT !.outcome = e]
    BY <1>5 DEF OpenFails
  <2>2. op'.attempted = op.attempted /\ op'.reference = op.reference
    BY <1>1, <2>1 DEF OpType
  <2>3. QED BY <2>1, <2>2 DEF Live
<1>6. CASE Working /\ EntersNext
  <2>1. at' > 1 /\ at' = at + 1
    BY <1>1, <1>6, NextSays
  <2>2. cmd' = cmd /\ phase = "running"
    BY <1>6 DEF Working
  <2>3. CASE Plan(cmd)[at + 1].do = "write"
    BY <1>6, <2>1, <2>2, <2>3, NextSays DEF Live
  <2>4. CASE Plan(cmd)[at + 1].do # "write"
    BY <1>6, <2>1, <2>2, <2>4, NextSays DEF Live
  <2>5. QED BY <2>3, <2>4
<1>7. CASE Working /\ EntersBack
  BY <1>1, <1>7, BackSays DEF Working, Live
<1>8. CASE Working /\ EndsSomehow
  <2>1. PICK result \in {"Succeeded", "Unverified", "Failed", "Cancelled"},
             o \in {op, After(op, Step)} : Ends(result, o)
    BY <1>8 DEF EndsSomehow
  <2>2. /\ at' = at /\ op'.attempted = op.attempted /\ (op.reference => op'.reference)
        /\ epochs' = IF op'.reference /\ ~op.reference THEN epochs + 1 ELSE epochs
    BY <2>1, EndsSays
  <2>3. cmd' = cmd /\ phase = "running" /\ op.outcome = "Running"
    BY <1>8 DEF Working, Rest
  <2>4. QED BY <2>2, <2>3 DEF Live
<1>9. CASE Closes
  <2>1. \/ op' = [op EXCEPT !.verified = TRUE, !.outcome = "Succeeded"]
        \/ op' = [op EXCEPT !.outcome = ended] /\ op.outcome = "Running"
        \/ op' = op
    BY <1>9 DEF Closes
  <2>2. op'.attempted = op.attempted /\ op'.reference = op.reference
        /\ (op.outcome = "Succeeded" => op'.outcome = "Succeeded")
    BY <1>1, <2>1 DEF OpType
  <2>3. phase' = "idle" /\ UNCHANGED <<cmd, epochs>>
    BY <1>9 DEF Closes
  <2>4. QED BY <2>2, <2>3 DEF Live
<1>10. CASE Takes
  <2>1. UNCHANGED <<task, op, epochs>>
    BY <1>10, TakesSays
  <2>2. QED BY <2>1 DEF task, Live
<1>11. CASE Settled
  BY <1>11 DEF Settled, task, Live
<1>12. CASE PowerCycle
  BY <1>12 DEF PowerCycle, task, Live
<1>13. QED
  BY <1>2, <1>3, <1>4, <1>5, <1>6, <1>7, <1>8, <1>9, <1>10, <1>11, <1>12, StepsSay

LEMMA TouchedSays ==
  ASSUME Shape, Rest, Announces, DeviceStep
  PROVE  \/ Begins /\ touched' = {}
         \/ touched' = touched
         \/ op.attempted
<1>1. CASE Begins
  BY <1>1 DEF Begins, Begin
<1>2. CASE Quiet \/ Repeats \/ OpenFails \/ Working \/ Closes \/ Settled \/ PowerCycle
  BY <1>2 DEF Quiet, Repeats, OpenFails, Working, Closes, Settled, PowerCycle, device
<1>3. CASE Opens
  BY <1>3, OpensSays
<1>4. CASE Takes
  BY <1>4, TakesSays DEF Wrote, Ignored, Asked
<1>5. QED BY <1>1, <1>2, <1>3, <1>4, StepsSay

LEMMA BeginsSay ==
  ASSUME Shape, Rest, Begins
  PROVE  /\ phase = "idle" /\ phase' = "opening" /\ at' = 1 /\ cmd' \in Commands \cup {Inspect}
         /\ op' = NoOperation /\ touched' = {} /\ epochs' = 0 /\ ended' = "None"
         /\ link' = <<>> /\ replies' = <<>> /\ On(link') = {} /\ On(replies') = {}
         /\ UNCHANGED <<regs, saved, aged>>
         /\ desc'.values = desc.values /\ (desc'.valid => desc.valid)
         /\ cmd' = Inspect => ~desc'.valid
         /\ cmd' # Inspect => desc' = desc
<1>1. PICK c \in Commands \cup {Inspect} : Begin(c)
  BY DEF Begins
<1>2. /\ phase = "idle" /\ phase' = "opening" /\ at' = 1 /\ cmd' = c
      /\ op' = NoOperation /\ touched' = {} /\ epochs' = 0 /\ ended' = "None"
      /\ desc' = IF c = Inspect THEN [desc EXCEPT !.valid = FALSE] ELSE desc
      /\ UNCHANGED <<regs, saved, aged, link, replies>>
  BY <1>1 DEF Begin
<1>3. link' = <<>> /\ replies' = <<>>
  BY <1>2 DEF Rest
<1>4. On(link') = {} /\ On(replies') = {}
  BY <1>3 DEF On
<1>5. desc'.values = desc.values /\ (desc'.valid => desc.valid)
      /\ (c = Inspect => ~desc'.valid) /\ (c # Inspect => desc' = desc)
  BY <1>2 DEF Shape
<1>6. QED BY <1>2, <1>3, <1>4, <1>5

LEMMA AnnouncesStep ==
  ASSUME Shape, Rest, Announces, DeviceStep
  PROVE  Announces'
<1>1. CASE Begins
  <2>1. ~op'.attempted /\ On(link') = {} /\ touched' = {}
    BY <1>1, BeginsSay DEF NoOperation
  <2>2. QED BY <2>1 DEF Announces
<1>2. CASE ~Begins
  <2>1. /\ cmd' = cmd /\ (op.attempted => op'.attempted)
        /\ op'.attempted => op.attempted \/ (cmd \in Commands /\ at' > 1)
        /\ Live /\ Live' /\ at > 1 => at' > 1
        /\ Live' /\ ~Live => op' = NoOperation
    BY <1>2, OpSays
  <2>2. ASSUME NEW m \in On(link'), m.do = "write"
        PROVE  op'.attempted /\ m \in {Write(cmd'.reg, cmd'.val), Write("save", 0)}
    <3>1. CASE m \in On(link)
      BY <2>1, <2>2, <3>1 DEF Announces
    <3>2. CASE NewWrite(m)
      BY <2>1, <2>2, <3>2, NextSays DEF NewWrite
    <3>3. QED BY <2>2, <3>1, <3>2, LinkSays
  <2>3. touched' # {} => op'.attempted
    BY <1>2, <2>1, TouchedSays DEF Announces
  <2>4. op'.attempted => cmd' \in Commands
    BY <2>1 DEF Announces
  <2>5. op'.attempted /\ Live' => at' > 1
    BY <2>1 DEF Announces, NoOperation
  <2>6. QED BY <2>2, <2>3, <2>4, <2>5 DEF Announces
<1>3. QED BY <1>1, <1>2

LEMMA CountsStep ==
  ASSUME Shape, Rest, Announces, Counts, DeviceStep
  PROVE  Counts'
<1>1. CASE Begins
  BY <1>1, BeginsSay DEF NoOperation, Counts
<1>2. CASE ~Begins
  <2>1. /\ cmd' = cmd /\ (op.reference => op'.reference)
        /\ epochs' = IF op'.reference /\ ~op.reference THEN epochs + 1 ELSE epochs
        /\ op'.attempted => op.attempted \/ (MovesReference(cmd) => op'.reference)
    BY <1>2, OpSays
  <2>2. epochs' = IF op'.reference THEN 1 ELSE 0
    BY <2>1 DEF Counts
  <2>3. MovesReference(cmd') <=> MovesReference(cmd)
    BY <2>1
  <2>4. op'.attempted /\ MovesReference(cmd') => op'.reference
    BY <2>1, <2>3 DEF Counts
  <2>5. QED BY <2>2, <2>4 DEF Counts
<1>3. QED BY <1>1, <1>2

-----------------------------------------------------------------------------
(***************************************************************************)
(* A step that has passed.                                                 *)
(***************************************************************************)

\* What an expected or confirmed value says of the registers.
LEMMA PassedSays ==
  ASSUME Shape, Answers, Passed(Step), Step.do \in {"expect", "confirm"}
  PROVE  /\ Step.addr = "rate" =>
              \/ regs.rate \in Step.want
              \/ cmd.name = "rate" /\ regs.rate = cmd.val
              \/ cmd.name = "reset_defaults" /\ DefaultsHold(regs)
         /\ Step.addr = "output" =>
              \/ regs.output \in Step.want
              \/ cmd.name = "output" /\ regs.output = cmd.val
              \/ cmd.name = "reset_defaults" /\ DefaultsHold(regs)
         /\ Step.addr = "algorithm" =>
              \/ regs.algorithm \in Step.want
              \/ cmd.name = "algorithm" /\ regs.algorithm = cmd.val
              \/ cmd.name = "reset_defaults" /\ DefaultsHold(regs)
         /\ Step.addr = "control" =>
              /\ cmd.name = "mag_start" /\ Step.want = {7} => regs.calsw = 7
              /\ cmd.name = "mag_stop" /\ Step.want = {0} => regs.calsw = 0
<1>1. Reading(Step)
  BY DEF Reading
<1>2. PICK r \in ReplyType : AnswerIs(r, Step)
  BY <1>1 DEF Passed
<1>3. r.addr = Step.addr /\ Value(r.addr, r.values) \in Step.want /\ Agrees(r)
  BY <1>2 DEF AnswerIs, Answers
<1>4. r.values \in RegisterValues
  BY DEF ReplyType
<1>5. /\ Step.addr = "rate" => r.values.rate \in Step.want
      /\ Step.addr = "output" => r.values.output \in Step.want
      /\ Step.addr = "algorithm" => r.values.algorithm \in Step.want
      /\ Step.addr = "control" => r.values.calsw \in Step.want
  BY <1>3, <1>4, ValueSays
<1>6. QED BY <1>3, <1>5 DEF Agrees

\* The device takes a write of the full frame or of a rate only as checked.
LEMMA WroteSays ==
  ASSUME Shape, Wrote
  PROVE  /\ cmd.name \in Names
         /\ cmd.name = "rate" => cmd.val \in Rates /\ regs'.rate = cmd.val /\ Only(regs, regs', "rate")
         /\ cmd.name = "output" => regs'.output = cmd.val /\ Only(regs, regs', "output")
         /\ cmd.name = "algorithm" => regs'.algorithm = cmd.val /\ Only(regs, regs', "algorithm")
         /\ cmd.name = "accel_calibrate" => regs'.calsw = 1 /\ Only(regs, regs', "calsw")
         /\ cmd.name = "mag_start" => regs'.calsw = 7 /\ Only(regs, regs', "calsw")
         /\ cmd.name = "mag_stop" => regs'.calsw = 0 /\ Only(regs, regs', "calsw")
         /\ cmd.name = "zero_yaw" => Only(regs, regs', "calsw")
         /\ cmd.name = "angle_reference" => Only(regs, regs', "calsw")
         /\ cmd.name = "save" => regs' = regs
         /\ cmd.name = "reset_defaults" => DefaultsHold(regs') /\ regs'.calsw = regs.calsw
<1>1. cmd \in Commands /\ regs' = Taken(Write(cmd.reg, cmd.val))
  BY DEF Wrote
<1>2. /\ Taken(Write(cmd.reg, cmd.val)) \in RegisterValues
      /\ cmd.reg \in {"calsw", "rate", "output", "algorithm"} =>
           /\ Only(regs, Taken(Write(cmd.reg, cmd.val)), cmd.reg)
           /\ Taken(Write(cmd.reg, cmd.val))[cmd.reg] = cmd.val
      /\ cmd.name = "save" => Taken(Write(cmd.reg, cmd.val)) = regs
      /\ cmd.name = "reset_defaults" =>
           /\ DefaultsHold(Taken(Write(cmd.reg, cmd.val)))
           /\ Taken(Write(cmd.reg, cmd.val)).calsw = regs.calsw
  BY <1>1, TakenSays DEF Shape
<1>3. /\ regs' \in RegisterValues
      /\ cmd.reg \in {"calsw", "rate", "output", "algorithm"} =>
           Only(regs, regs', cmd.reg) /\ regs'[cmd.reg] = cmd.val
      /\ cmd.name = "save" => regs' = regs
      /\ cmd.name = "reset_defaults" => DefaultsHold(regs') /\ regs'.calsw = regs.calsw
  BY <1>1, <1>2
<1>4. /\ cmd.name \in Names
      /\ cmd.name = "rate" => cmd.reg = "rate" /\ cmd.val \in Rates
      /\ cmd.name = "output" => cmd.reg = "output"
      /\ cmd.name = "algorithm" => cmd.reg = "algorithm"
      /\ cmd.name = "accel_calibrate" => cmd.reg = "calsw" /\ cmd.val = 1
      /\ cmd.name = "mag_start" => cmd.reg = "calsw" /\ cmd.val = 7
      /\ cmd.name = "mag_stop" => cmd.reg = "calsw" /\ cmd.val = 0
      /\ cmd.name \in {"zero_yaw", "angle_reference"} => cmd.reg = "calsw"
  BY <1>1, CommandSays
<1>5. regs'["rate"] = regs'.rate /\ regs'["output"] = regs'.output
      /\ regs'["algorithm"] = regs'.algorithm /\ regs'["calsw"] = regs'.calsw
  OBVIOUS
<1>6. QED BY <1>3, <1>4, <1>5

-----------------------------------------------------------------------------
(***************************************************************************)
(* The registers.                                                          *)
(***************************************************************************)

LEMMA AtSays ==
  ASSUME Shape, Rest, Announces, DeviceStep
  PROVE  \/ Begins
         \/ /\ cmd' = cmd /\ at \in Nat /\ at >= 1
            /\ \/ ~Live' \/ at' = 1 \/ (Live /\ at' \in Nat /\ at' <= at)
               \/ (Working /\ EntersNext /\ at' = at + 1)
<1>1. at \in Nat /\ at >= 1
  BY StepsAre DEF Shape
<1>2. CASE Quiet
  BY <1>1, <1>2 DEF Quiet, Live
<1>3. CASE Repeats
  BY <1>1, <1>3 DEF Repeats, task, Live
<1>4. CASE Opens
  BY <1>1, <1>4, OpensSays
<1>5. CASE OpenFails
  BY <1>1, <1>5 DEF OpenFails, Live
<1>6. CASE Working /\ EntersNext
  BY <1>1, <1>6, NextSays DEF Working
<1>7. CASE Working /\ EntersBack
  BY <1>1, <1>7, BackSays DEF Working, Live
<1>8. CASE Working /\ EndsSomehow
  <2>1. at' = at
    BY <1>8, EndsSays DEF EndsSomehow
  <2>2. QED BY <1>1, <1>8, <2>1 DEF Working, Live
<1>9. CASE Closes
  BY <1>1, <1>9 DEF Closes, Live
<1>10. CASE Takes
  <2>1. Live /\ UNCHANGED task
    BY <1>10, TakesSays
  <2>2. QED BY <1>1, <2>1 DEF task
<1>11. CASE Settled
  BY <1>1, <1>11 DEF Settled, task, Live
<1>12. CASE PowerCycle
  BY <1>1, <1>12 DEF PowerCycle, task, Live
<1>13. QED
  BY <1>2, <1>3, <1>4, <1>5, <1>6, <1>7, <1>8, <1>9, <1>10, <1>11, <1>12, StepsSay

\* What a step leaves of the registers.
LEMMA RegsKept ==
  ASSUME Shape, Rest, Announces, DeviceStep
  PROVE  \/ regs' = regs /\ saved' \in {saved, regs}
         \/ /\ Settled /\ Same(regs', regs) /\ saved' = saved
            /\ regs.calsw \in {1, 4, 8} /\ regs'.calsw = 0
         \/ PowerCycle
         \/ Takes /\ Wrote
<1>1. CASE Settled
  BY <1>1 DEF Settled, Same, Shape, RegisterValues
<1>2. QED BY <1>1, RegsSay

LEMMA FramesStep ==
  ASSUME Shape, Rest, Announces, Answers, Frames, DeviceStep
  PROVE  Frames'
<1>1. CASE PowerCycle
  <2>1. regs' = [saved EXCEPT !.calsw = 0] /\ saved' = saved /\ phase' = "opening"
    BY <1>1 DEF PowerCycle, task
  <2>2. regs'.rate = saved.rate /\ regs'.output = saved.output
    BY <2>1 DEF Shape, RegisterValues
  <2>3. QED BY <2>1, <2>2 DEF Frames, FullFrame, Live
<1>2. CASE Takes /\ Wrote
  <2>1. Live /\ at > 1 /\ UNCHANGED <<cmd, phase, at>>
    BY <1>2, TakesSays DEF Wrote, Announces, task
  <2>2. saved' = saved \/ saved' = regs'
    BY <1>2 DEF Wrote
  <2>3. CASE cmd.name = "rate" /\ cmd.val = 20
    <3>1. regs'.rate = 20
      BY <1>2, <2>3, WroteSays
    <3>2. QED BY <2>1, <2>2, <2>3, <3>1 DEF Frames, FullFrame
  <2>4. CASE cmd.name = "rate" /\ cmd.val # 20
    <3>1. regs.output # "full" /\ regs'.output = regs.output
      BY <1>2, <2>1, <2>4, WroteSays DEF Only, Frames
    <3>2. QED BY <2>1, <2>2, <2>4, <3>1 DEF Frames, FullFrame
  <2>5. CASE cmd.name = "output"
    <3>1. regs'.output = cmd.val /\ regs'.rate = regs.rate
      BY <1>2, <2>5, WroteSays DEF Only
    <3>2. cmd.val = "full" => regs.rate = 20
      BY <2>1, <2>5 DEF Frames
    <3>3. QED BY <2>1, <2>2, <2>5, <3>1, <3>2 DEF Frames, FullFrame
  <2>6. CASE cmd.name = "reset_defaults"
    <3>1. regs'.output = "motion"
      BY <1>2, <2>6, WroteSays DEF DefaultsHold
    <3>2. QED BY <2>1, <2>2, <2>6, <3>1 DEF Frames, FullFrame
  <2>7. CASE cmd.name \in Names \ {"rate", "output", "reset_defaults"}
    <3>1. regs'.rate = regs.rate /\ regs'.output = regs.output
      BY <1>2, <2>7, WroteSays DEF Only, Names
    <3>2. QED BY <2>1, <2>2, <2>7, <3>1 DEF Frames, FullFrame
  <2>8. QED BY <1>2, <2>3, <2>4, <2>5, <2>6, <2>7, WroteSays
<1>3. CASE regs'.rate = regs.rate /\ regs'.output = regs.output /\ saved' \in {saved, regs}
  <2>1. FullFrame(regs)' /\ FullFrame(saved)'
    BY <1>3 DEF Frames, FullFrame
  <2>2. CASE Begins
    <3>1. ~Live'
      BY <2>2, BeginsSay DEF Live
    <3>2. QED BY <2>1, <3>1 DEF Frames
  <2>3. CASE ~Live' \/ at' = 1
    BY <2>1, <2>3 DEF Frames
  <2>4. CASE cmd' = cmd /\ Live /\ at \in Nat /\ at' \in Nat /\ at' <= at
    BY <1>3, <2>1, <2>4 DEF Frames
  <2>5. CASE cmd' = cmd /\ Working /\ EntersNext /\ at \in Nat /\ at > 1
    BY <1>3, <2>1, <2>5 DEF Frames, Working, Live
  <2>6. CASE cmd' = cmd /\ Working /\ EntersNext /\ at = 1
    <3>1. Passed(Step) /\ Step = Plan(cmd)[1]
      BY <2>6 DEF EntersNext, Step
    <3>2. cmd.name = "output" /\ cmd.val = "full" => regs.rate = 20
      <4>1. SUFFICES ASSUME cmd.name = "output", cmd.val = "full" PROVE regs.rate = 20
        OBVIOUS
      <4>2. cmd \in Commands
        BY <4>1 DEF Shape, Inspect, Command
      <4>3. Step = Read("expect", "rate", {20})
        BY <3>1, <4>1, <4>2, FirstSteps
      <4>4. Step.do = "expect" /\ Step.addr = "rate" /\ Step.want = {20}
        BY <4>3 DEF Read
      <4>5. QED BY <3>1, <4>1, <4>4, PassedSays
    <3>3. cmd.name = "rate" /\ cmd.val # 20 => regs.output # "full"
      <4>1. SUFFICES ASSUME cmd.name = "rate", cmd.val # 20 PROVE regs.output # "full"
        OBVIOUS
      <4>2. cmd \in Commands
        BY <4>1 DEF Shape, Inspect, Command
      <4>3. Step = Read("expect", "output", {"motion", "quaternion", "old"})
        BY <3>1, <4>1, <4>2, FirstSteps
      <4>4. Step.do = "expect" /\ Step.addr = "output"
            /\ Step.want = {"motion", "quaternion", "old"}
        BY <4>3 DEF Read
      <4>5. QED BY <3>1, <4>1, <4>4, PassedSays
    <3>4. QED BY <1>3, <2>1, <2>6, <3>2, <3>3 DEF Frames
  <2>7. QED BY <2>2, <2>3, <2>4, <2>5, <2>6, AtSays
<1>4. QED BY <1>1, <1>2, <1>3, RegsKept DEF Same

LEMMA ResetsStep ==
  ASSUME Shape, Rest, Announces, Answers, Resets, DeviceStep
  PROVE  Resets'
<1>1. CASE Begins
  <2>1. ~Live'
    BY <1>1, BeginsSay DEF Live
  <2>2. QED BY <2>1 DEF Resets
<1>2. CASE ~Live' \/ at' = 1
  BY <1>2 DEF Resets
<1>3. CASE cmd' = cmd /\ Live /\ at \in Nat /\ at' \in Nat /\ at' <= at
  <2>1. ~PowerCycle
    BY <1>3 DEF PowerCycle, Live
  <2>2. CASE Same(regs', regs)
    BY <1>3, <2>2 DEF Resets, Same
  <2>3. CASE Wrote
    <3>1. cmd.name = "reset_defaults" => DefaultsHold(regs')
      BY <2>3, WroteSays
    <3>2. QED BY <1>3, <3>1 DEF Resets, DefaultsHold
  <2>4. QED BY <2>1, <2>2, <2>3, RegsKept DEF Same
<1>4. CASE cmd' = cmd /\ Working /\ EntersNext /\ at \in Nat /\ at' = at + 1
  <2>1. regs' = regs /\ Live
    BY <1>4 DEF Working, Live
  <2>2. CASE cmd.name = "reset_defaults"
    <3>1. cmd \in Commands
      BY <2>2 DEF Shape, Inspect, Command
    <3>2. Passed(Step) /\ Step = Plan(cmd)[at]
      BY <1>4 DEF EntersNext, Step
    <3>3. at = 6 => regs.rate = 10
      <4>1. SUFFICES ASSUME at = 6 PROVE regs.rate = 10
        OBVIOUS
      <4>2. Step.do = "confirm" /\ Step.addr = "rate" /\ Step.want = {10}
        BY <2>2, <3>1, <3>2, <4>1, ResetSteps DEF Read
      <4>3. QED BY <2>2, <3>2, <4>2, PassedSays DEF DefaultsHold
    <3>4. at = 7 => regs.output = "motion"
      <4>1. SUFFICES ASSUME at = 7 PROVE regs.output = "motion"
        OBVIOUS
      <4>2. Step.do = "confirm" /\ Step.addr = "output" /\ Step.want = {"motion"}
        BY <2>2, <3>1, <3>2, <4>1, ResetSteps DEF Read
      <4>3. QED BY <2>2, <3>2, <4>2, PassedSays DEF DefaultsHold
    <3>5. at = 8 => regs.algorithm = "nine"
      <4>1. SUFFICES ASSUME at = 8 PROVE regs.algorithm = "nine"
        OBVIOUS
      <4>2. Step.do = "confirm" /\ Step.addr = "algorithm" /\ Step.want = {"nine"}
        BY <2>2, <3>1, <3>2, <4>1, ResetSteps DEF Read
      <4>3. QED BY <2>2, <3>2, <4>2, PassedSays DEF DefaultsHold
    <3>6. QED BY <1>4, <2>1, <2>2, <3>3, <3>4, <3>5 DEF Resets
  <2>3. CASE cmd.name # "reset_defaults"
    BY <1>4, <2>3 DEF Resets
  <2>4. QED BY <2>2, <2>3
<1>5. QED BY <1>1, <1>2, <1>3, <1>4, AtSays

-----------------------------------------------------------------------------
(***************************************************************************)
(* The answers.                                                            *)
(***************************************************************************)

LEMMA AnswersStep ==
  ASSUME Shape, Rest, Announces, Answers, AccelOrder, DeviceStep
  PROVE  Answers'
<1>1. CASE Begins
  <2>1. On(replies') = {}
    BY <1>1, BeginsSay
  <2>2. QED BY <2>1 DEF Answers
<1>2. CASE ~Begins
  <2>1. cmd' = cmd
    BY <1>2, AtSays
  <2>2. SUFFICES ASSUME NEW r \in On(replies') PROVE Agrees(r)'
    BY DEF Answers
  <2>3. CASE Asked /\ r.values = regs
    BY <2>3 DEF Asked, Agrees
  <2>4. CASE r \in On(replies)
    <3>1. Agrees(r)
      BY <2>4 DEF Answers
    <3>2. CASE regs' = regs
      BY <2>1, <3>1, <3>2 DEF Agrees, DefaultsHold
    <3>3. CASE Same(regs', regs) /\ regs.calsw \in {1, 4, 8} /\ regs'.calsw = 0
      BY <2>1, <3>1, <3>3 DEF Agrees, DefaultsHold, Same
    <3>4. CASE PowerCycle
      <4>1. On(replies) = {}
        BY <3>4 DEF PowerCycle, Rest, On
      <4>2. QED BY <2>4, <4>1
    <3>5. CASE Takes /\ Wrote
      <4>1. cmd.name # "accel_calibrate"
        <5>1. SUFFICES ASSUME cmd.name = "accel_calibrate" PROVE FALSE
          OBVIOUS
        <5>2. replies # <<>>
          BY <2>4 DEF On
        <5>3. Head(link) \in On(link) /\ Head(link).do = "write"
          BY <3>5, TakesSays DEF Wrote, Write
        <5>4. QED BY <5>1, <5>2, <5>3 DEF AccelOrder
      <4>2. CASE cmd.name = "rate"
        BY <2>1, <3>1, <3>5, <4>2, WroteSays DEF Agrees, Only
      <4>3. CASE cmd.name = "output"
        BY <2>1, <3>1, <3>5, <4>3, WroteSays DEF Agrees, Only
      <4>4. CASE cmd.name = "algorithm"
        BY <2>1, <3>1, <3>5, <4>4, WroteSays DEF Agrees, Only
      <4>5. CASE cmd.name = "mag_start"
        BY <2>1, <3>1, <3>5, <4>5, WroteSays DEF Agrees, Only
      <4>6. CASE cmd.name = "mag_stop"
        BY <2>1, <3>1, <3>5, <4>6, WroteSays DEF Agrees, Only
      <4>7. CASE cmd.name \in {"zero_yaw", "angle_reference", "save"}
        BY <2>1, <3>1, <3>5, <4>7, WroteSays DEF Agrees, Only
      <4>8. CASE cmd.name = "reset_defaults"
        BY <2>1, <3>1, <3>5, <4>8, WroteSays DEF Agrees
      <4>9. QED
        BY <3>5, <4>1, <4>2, <4>3, <4>4, <4>5, <4>6, <4>7, <4>8, WroteSays DEF Names
    <3>6. QED BY <3>2, <3>3, <3>4, <3>5, RegsKept
  <2>5. QED BY <2>3, <2>4, RepliesSay
<1>3. QED BY <1>1, <1>2

LEMMA AppendOrder ==
  ASSUME NEW s \in Seq(Messages), NEW m \in Messages, ReadsBehind(s),
         m.do = "write" => \A x \in On(s) : x.do # "read"
  PROVE  ReadsBehind(Append(s, m))
<1> DEFINE t == Append(s, m)
<1>1. Len(s) \in Nat /\ Len(t) = Len(s) + 1 /\ t[Len(s) + 1] = m
      /\ \A i \in 1 .. Len(s) : t[i] = s[i]
  OBVIOUS
<1> HIDE DEF t
<1>2. ASSUME NEW i \in 1 .. Len(t), NEW j \in 1 .. Len(t), t[i].do = "write", t[j].do = "read"
      PROVE  i < j
  <2>1. CASE i \in 1 .. Len(s) /\ j \in 1 .. Len(s)
    BY <1>1, <1>2, <2>1 DEF ReadsBehind
  <2>2. CASE i \in 1 .. Len(s) /\ j = Len(s) + 1
    BY <1>1, <2>2
  <2>3. CASE i = Len(s) + 1 /\ j \in 1 .. Len(s)
    <3>1. m.do = "write" /\ s[j].do = "read" /\ s[j] \in On(s)
      BY <1>1, <1>2, <2>3 DEF On
    <3>2. QED BY <3>1
  <2>4. CASE i = Len(s) + 1 /\ j = Len(s) + 1
    BY <1>1, <1>2, <2>4
  <2>5. QED BY <1>1, <2>1, <2>2, <2>3, <2>4
<1>3. QED BY <1>2 DEF ReadsBehind, t

LEMMA ShorterOrder ==
  ASSUME NEW s \in Seq(Messages), NEW t, Shorter(s, t), ReadsBehind(s)
  PROVE  ReadsBehind(t)
<1>1. PICK d \in {0, 1} : \A i \in 1 .. Len(t) : i + d \in 1 .. Len(s) /\ t[i] = s[i + d]
  BY ShorterSays
<1>2. ASSUME NEW i \in 1 .. Len(t), NEW j \in 1 .. Len(t), t[i].do = "write", t[j].do = "read"
      PROVE  i < j
  <2>1. /\ i + d \in 1 .. Len(s) /\ j + d \in 1 .. Len(s)
        /\ s[i + d].do = "write" /\ s[j + d].do = "read"
    BY <1>1, <1>2
  <2>2. i + d < j + d
    BY <2>1 DEF ReadsBehind
  <2>3. QED BY <2>2
<1>3. QED BY <1>2 DEF ReadsBehind

\* The reading of a calibration of the accelerometer begins behind its write.
LEMMA AccelReads ==
  ASSUME NEW c \in Commands, c.name = "accel_calibrate", NEW k \in 1 .. Len(Plan(c))
  PROVE  /\ Reading(Plan(c)[k]) => k > 3
         /\ Plan(c)[k].do = "write" => k = 3
<1>1. Len(Plan(c)) = 6
  BY AccelSteps
<1>2. k = 1 \/ k = 2 \/ k = 3 \/ k = 4 \/ k = 5 \/ k = 6
  BY <1>1
<1>3. CASE k \in {1, 2, 3}
  <2>1. Unlock.do = "unlock" /\ Pause.do = "pause" /\ Write(c.reg, c.val).do = "write"
    BY DEF Unlock, Pause, Write
  <2>2. Plan(c)[1].do = "unlock" /\ Plan(c)[2].do = "pause" /\ Plan(c)[3].do = "write"
    BY <2>1, AccelSteps
  <2>3. Plan(c)[k].do \in {"unlock", "pause", "write"} /\ (Plan(c)[k].do = "write" => k = 3)
    BY <1>3, <2>2
  <2>4. QED BY <2>3 DEF Reading
<1>4. CASE k \in {4, 5, 6}
  <2>1. Plan(c)[k].do # "write" /\ k > 3
    BY <1>4, AccelSteps DEF Read, Pause
  <2>2. QED BY <2>1
<1>5. QED BY <1>2, <1>3, <1>4

\* Nothing is added to the link or to the answers.
LEMMA AccelShrinks ==
  ASSUME Shape, AccelOrder, cmd' = cmd, Shorter(link, link'), Shorter(replies, replies'),
         phase' = "running" /\ at' <= 3 => phase = "running" /\ at <= 3
  PROVE  AccelOrder'
<1>1. On(link') \subseteq On(link) /\ (replies = <<>> => replies' = <<>>)
  BY ShorterSays DEF Shape
<1>2. ReadsBehind(link) => ReadsBehind(link')
  BY ShorterOrder DEF Shape
<1>3. QED BY <1>1, <1>2 DEF AccelOrder

\* What a step adds to the link is not a write.
LEMMA AccelGrows ==
  ASSUME Shape, AccelOrder, cmd' = cmd, cmd.name = "accel_calibrate", Shorter(replies, replies'),
         \/ link' = link
         \/ link' = Append(link, Unlock)
         \/ /\ phase' = "running" => at' > 3
            /\ \E a \in Addresses : link' = Append(link, [do |-> "read", addr |-> a]),
         at' \in Nat, phase' = "running" /\ at' <= 3 => phase = "running" /\ at <= 3
  PROVE  AccelOrder'
<1>1. (replies = <<>> => replies' = <<>>) /\ ReadsBehind(link)
  BY ShorterSays DEF Shape, AccelOrder
<1>2. \A m \in On(link') : m.do = "write" => m \in On(link)
  BY NoNewWrite DEF Shape
<1>3. \A m \in Messages : On(Append(link, m)) = On(link) \cup {m}
  BY OnSays DEF Shape
<1>4. CASE link' = link
  BY <1>1, <1>4 DEF AccelOrder
<1>5. CASE link' = Append(link, Unlock)
  <2>1. Unlock \in Messages /\ Unlock.do # "write" /\ Unlock.do # "read"
    BY MessagesAre DEF Unlock
  <2>2. ReadsBehind(link') /\ On(link') = On(link) \cup {Unlock}
    BY <1>1, <1>3, <1>5, <2>1, AppendOrder DEF Shape
  <2>3. QED BY <1>1, <1>2, <2>1, <2>2 DEF AccelOrder
<1>6. ASSUME phase' = "running" => at' > 3,
             NEW a \in Addresses, link' = Append(link, [do |-> "read", addr |-> a])
      PROVE  AccelOrder'
  <2>1. [do |-> "read", addr |-> a] \in Messages /\ [do |-> "read", addr |-> a].do # "write"
    BY MessagesAre
  <2>2. ReadsBehind(link')
    BY <1>1, <1>6, <2>1, AppendOrder DEF Shape
  <2>3. ~(phase' = "running" /\ at' <= 3)
    BY <1>6
  <2>4. QED BY <1>1, <1>2, <2>2, <2>3 DEF AccelOrder
<1>7. QED BY <1>4, <1>5, <1>6

LEMMA AccelOrderStep ==
  ASSUME Shape, Rest, Announces, AccelOrder, DeviceStep
  PROVE  AccelOrder'
<1>1. CASE Begins
  <2>1. link' = <<>> /\ replies' = <<>> /\ phase' = "opening"
    BY <1>1, BeginsSay
  <2>2. QED BY <2>1 DEF AccelOrder, ReadsBehind
<1>2. CASE ~Begins /\ cmd.name # "accel_calibrate"
  BY <1>2, AtSays DEF AccelOrder
<1>3. CASE ~Begins /\ cmd.name = "accel_calibrate"
  <2>1. cmd' = cmd /\ cmd \in Commands /\ at \in 1 .. Len(Plan(cmd)) /\ at \in Nat
    BY <1>3, AtSays DEF Shape, Inspect, Command
  <2>2. CASE Quiet
    BY <2>1, <2>2, AccelShrinks DEF Quiet
  <2>3. CASE Repeats
    <3>1. at > 3 /\ UNCHANGED <<at, phase>> /\ Step.addr \in Addresses
      <4>1. Reading(Step) /\ UNCHANGED <<at, phase>>
        BY <2>3 DEF Repeats, task
      <4>2. at > 3
        BY <1>3, <2>1, <4>1, AccelReads DEF Step
      <4>3. Step.addr \in Addresses
        BY <2>1, <4>1, StepsAre DEF Step, StepIs
      <4>4. QED BY <4>1, <4>2, <4>3
    <3>2. link' = Append(link, [do |-> "read", addr |-> Step.addr]) /\ Shorter(replies, replies')
      BY <2>3 DEF Repeats, Shorter
    <3>3. QED BY <1>3, <2>1, <3>1, <3>2, AccelGrows
  <2>4. CASE Opens
    <3>1. /\ at' = 1 /\ link = <<>> /\ replies = <<>> /\ replies' = replies
          /\ \/ link' = link
             \/ link' = Append(link, Unlock)
             \/ Reading(Plan(cmd)[1])
      BY <2>4, OpensSays
    <3>2. ~Reading(Plan(cmd)[1])
      BY <1>3, <2>1, AccelReads
    <3>3. On(link) = {} /\ (link' = <<>> \/ link' = <<Unlock>>)
      BY <3>1, <3>2 DEF On
    <3>4. Len(link') \in {0, 1} /\ \A m \in On(link') : m.do = "unlock"
      BY <3>3 DEF On, Unlock
    <3>5. ReadsBehind(link')
      BY <3>3 DEF ReadsBehind, Unlock
    <3>6. QED BY <3>1, <3>4, <3>5 DEF AccelOrder
  <2>5. CASE OpenFails
    BY <2>1, <2>5, AccelShrinks DEF OpenFails, Shorter
  <2>6. CASE Working /\ EntersNext
    <3>1. Shorter(replies, replies') /\ phase = "running"
      BY <2>6 DEF Working
    <3>2. /\ at + 1 \in 1 .. Len(Plan(cmd)) /\ at' = at + 1
          /\ Plan(cmd)[at + 1].do = "write" => link' = Append(link, Plan(cmd)[at + 1])
          /\ Plan(cmd)[at + 1].do # "write" =>
               \/ link' = link
               \/ link' = Append(link, Unlock)
               \/ /\ Reading(Plan(cmd)[at + 1])
                  /\ \E a \in Addresses : link' = Append(link, [do |-> "read", addr |-> a])
      BY <2>6, NextSays
    <3>3. CASE Plan(cmd)[at + 1].do = "write"
      <4>1. at + 1 = 3
        BY <1>3, <2>1, <3>2, <3>3, AccelReads
      <4>2. replies = <<>> /\ (\A m \in On(link) : m.do # "read") /\ ReadsBehind(link)
        BY <1>3, <2>1, <3>1, <4>1 DEF AccelOrder
      <4>3. Plan(cmd)[at + 1] \in Messages
        BY <2>6, <3>3, NextSays, MessagesAre
      <4>4. ReadsBehind(link') /\ On(link') = On(link) \cup {Plan(cmd)[at + 1]}
        <5> DEFINE w == Plan(cmd)[at + 1]
        <5>1. link' = Append(link, w) /\ w \in Messages /\ link \in Seq(Messages)
          BY <3>2, <3>3, <4>3 DEF Shape
        <5> HIDE DEF w
        <5>2. ReadsBehind(Append(link, w))
          BY <4>2, <5>1, AppendOrder
        <5>3. On(Append(link, w)) = On(link) \cup {w}
          BY <5>1, OnSays
        <5>4. QED BY <5>1, <5>2, <5>3 DEF w
      <4>5. replies' = <<>>
        BY <3>1, <4>2 DEF Shorter
      <4>6. \A m \in On(link') : m.do # "read"
        BY <3>3, <4>2, <4>4
      <4>7. QED BY <4>4, <4>5, <4>6 DEF AccelOrder
    <3>4. CASE Plan(cmd)[at + 1].do # "write"
      <4>1. Reading(Plan(cmd)[at + 1]) => at' > 3
        BY <1>3, <2>1, <3>2, AccelReads
      <4>2. \/ link' = link
            \/ link' = Append(link, Unlock)
            \/ /\ phase' = "running" => at' > 3
               /\ \E a \in Addresses : link' = Append(link, [do |-> "read", addr |-> a])
        BY <3>2, <3>4, <4>1
      <4>3. at' \in Nat /\ (phase' = "running" /\ at' <= 3 => phase = "running" /\ at <= 3)
        BY <2>1, <3>1, <3>2
      <4>4. QED BY <1>3, <2>1, <3>1, <4>2, <4>3, AccelGrows
    <3>5. QED BY <3>3, <3>4
  <2>7. CASE Working /\ EntersBack
    <3>1. link' = link /\ at' = 5
      BY <2>7, BackSays
    <3>2. Shorter(link, link') /\ Shorter(replies, replies')
      BY <2>7, <3>1 DEF Working, Shorter
    <3>3. QED BY <2>1, <3>1, <3>2, AccelShrinks
  <2>8. CASE Working /\ EndsSomehow
    <3>1. link' = link /\ phase' = "closing"
      BY <2>8, EndsSays DEF EndsSomehow
    <3>2. Shorter(link, link') /\ Shorter(replies, replies')
      BY <2>8, <3>1 DEF Working, Shorter
    <3>3. QED BY <2>1, <3>1, <3>2, AccelShrinks
  <2>9. CASE Closes
    <3>1. link' = <<>> /\ replies' = <<>> /\ phase' = "idle"
      BY <2>9 DEF Closes
    <3>2. QED BY <3>1 DEF AccelOrder, ReadsBehind
  <2>10. CASE Takes
    <3>1. /\ link # <<>> /\ link' = Tail(link) /\ UNCHANGED task
          /\ Wrote \/ Ignored \/ Asked
      BY <2>10, TakesSays
    <3>2. UNCHANGED <<phase, at>>
      BY <3>1 DEF task
    <3>3. Shorter(link, link')
      BY <3>1 DEF Shorter
    <3>4. CASE Wrote \/ Ignored
      <4>1. Shorter(replies, replies')
        BY <3>4 DEF Wrote, Ignored, Shorter
      <4>2. QED BY <2>1, <3>2, <3>3, <4>1, AccelShrinks
    <3>5. CASE Asked
      <4>1. Head(link).do = "read" /\ Head(link) \in On(link)
        BY <2>10, <3>5, TakesSays DEF Asked
      <4>2. ~(phase = "running" /\ at <= 3)
        BY <1>3, <4>1 DEF AccelOrder
      <4>3. \A m \in On(link) : m.do # "write"
        <5>1. SUFFICES ASSUME NEW m \in On(link), m.do = "write" PROVE FALSE
          OBVIOUS
        <5>2. PICK i \in 1 .. Len(link) : link[i] = m
          BY DEF On
        <5>3. 1 \in 1 .. Len(link) /\ link[1] = Head(link)
          BY <3>1 DEF Shape
        <5>4. i < 1
          BY <1>3, <4>1, <5>1, <5>2, <5>3 DEF AccelOrder, ReadsBehind
        <5>5. QED BY <5>2, <5>4
      <4>4. On(link') \subseteq On(link) /\ ReadsBehind(link')
        BY <1>3, <3>3, ShorterSays, ShorterOrder DEF AccelOrder, Shape
      <4>5. QED BY <3>2, <4>2, <4>3, <4>4 DEF AccelOrder
    <3>6. QED BY <3>1, <3>4, <3>5
  <2>11. CASE Settled
    BY <2>1, <2>11, AccelShrinks DEF Settled, Shorter, task
  <2>12. CASE PowerCycle
    BY <2>1, <2>12, AccelShrinks DEF PowerCycle, Shorter, task
  <2>13. QED
    BY <1>3, <2>2, <2>3, <2>4, <2>5, <2>6, <2>7, <2>8, <2>9, <2>10, <2>11, <2>12, StepsSay
<1>4. QED BY <1>1, <1>2, <1>3

-----------------------------------------------------------------------------
(***************************************************************************)
(* What an inspection has read, and what a command has achieved.           *)
(***************************************************************************)

LEMMA LookSays ==
  ASSUME Shape, Answers, Looked, Live, cmd = Inspect, Passed(Step)
  PROVE  /\ seen'.rate = regs.rate
         /\ at > 1 => seen'.output = regs.output
         /\ at > 2 => seen'.algorithm = regs.algorithm
<1>1. at = 1 \/ at = 2 \/ at = 3 \/ at = 4 \/ at = 5
  BY InspectSteps DEF Shape
<1>2. Step = Plan(Inspect)[at]
  BY DEF Step
<1>3. Reading(Step)
  BY <1>1, <1>2, InspectSteps DEF Reading, Read
<1>4. PICK r \in ReplyType : AnswerIs(r, Step)
  BY <1>3 DEF Passed
<1>5. seen' = Kept(Step, r.values) /\ Agrees(r)
  BY <1>4 DEF AnswerIs, Answers
<1>6. cmd.name = "inspect"
  BY DEF Inspect, Command
<1>7. /\ r.values.rate = regs.rate /\ r.values.output = regs.output
      /\ r.values.algorithm = regs.algorithm
  BY <1>5, <1>6 DEF Agrees
<1>8. /\ at > 1 => seen.rate = regs.rate
      /\ at > 2 => seen.output = regs.output
      /\ at > 3 => seen.algorithm = regs.algorithm
  BY DEF Looked, Live
<1>9. /\ Kept(Step, r.values) \in RegisterValues
      /\ Step.do # "look" => Kept(Step, r.values) = seen
      /\ Step.do = "look" =>
           /\ Kept(Step, r.values).rate = IF Step.addr = "control" THEN r.values.rate ELSE seen.rate
           /\ Kept(Step, r.values).output
                = IF Step.addr = "output" THEN r.values.output ELSE seen.output
           /\ Kept(Step, r.values).algorithm
                = IF Step.addr = "options" THEN r.values.algorithm ELSE seen.algorithm
  BY KeptSays DEF Shape
<1>10. CASE at = 1
  <2>1. Step.do = "look" /\ Step.addr = "control"
    BY <1>2, <1>10, InspectSteps DEF Read
  <2>2. QED BY <1>5, <1>7, <1>9, <1>10, <2>1
<1>11. CASE at = 2
  <2>1. Step.do = "look" /\ Step.addr = "output"
    BY <1>2, <1>11, InspectSteps DEF Read
  <2>2. QED BY <1>5, <1>7, <1>8, <1>9, <1>11, <2>1
<1>12. CASE at = 3
  <2>1. Step.do = "look" /\ Step.addr = "options"
    BY <1>2, <1>12, InspectSteps DEF Read
  <2>2. QED BY <1>5, <1>7, <1>8, <1>9, <1>12, <2>1
<1>13. CASE at = 4
  <2>1. Step.do = "look" /\ Step.addr = "version"
    BY <1>2, <1>13, InspectSteps DEF Read
  <2>2. QED BY <1>5, <1>7, <1>8, <1>9, <1>13, <2>1
<1>14. CASE at = 5
  <2>1. Step.do # "look"
    BY <1>2, <1>14, InspectSteps DEF Read
  <2>2. QED BY <1>5, <1>8, <1>9, <1>14, <2>1
<1>15. QED BY <1>1, <1>10, <1>11, <1>12, <1>13, <1>14

\* The description and the age of what it says.
LEMMA DescSays ==
  ASSUME Shape, Rest, Announces, DeviceStep
  PROVE  \/ Begins
         \/ Working /\ EndsSomehow
         \/ Closes
         \/ /\ desc'.values = desc.values /\ (desc'.valid => desc.valid)
            /\ cmd' = cmd /\ (phase' # "idle" => phase # "idle")
            /\ op'.attempted = op.attempted \/ ~desc'.valid
            /\ aged' = aged \/ aged' \/ (phase = "opening" /\ cmd = Inspect)
            /\ seen' = seen \/ (Working /\ EntersNext)
            /\ phase' = "closing" => phase = "closing" /\ at' = at /\ ended' = ended
<1>1. CASE Quiet
  BY <1>1 DEF Quiet
<1>2. CASE Repeats
  BY <1>2 DEF Repeats, device, task
<1>3. CASE Opens
  <2>1. /\ phase = "opening" /\ phase' = "running" /\ UNCHANGED <<seen, op, desc, cmd>>
        /\ aged' = (aged /\ cmd # Inspect)
    BY <1>3, OpensSays
  <2>2. aged' = aged \/ cmd = Inspect
    BY <2>1 DEF Shape
  <2>3. QED BY <2>1, <2>2
<1>4. CASE OpenFails
  BY <1>4 DEF OpenFails, device, Shape, OpType
<1>5. CASE Working /\ EntersNext
  <2>1. /\ phase' = "running" /\ desc'.values = desc.values /\ (desc'.valid => desc.valid)
        /\ op'.attempted = op.attempted \/ ~desc'.valid
    BY <1>5, NextSays
  <2>2. QED BY <1>5, <2>1 DEF Working
<1>6. CASE Working /\ EntersBack
  BY <1>6, BackSays DEF Working
<1>7. CASE Takes
  <2>1. UNCHANGED <<task, op, desc, aged>>
    BY <1>7, TakesSays
  <2>2. QED BY <2>1 DEF task
<1>8. CASE Settled
  BY <1>8 DEF Settled, task
<1>9. CASE PowerCycle
  BY <1>9 DEF PowerCycle, task
<1>10. QED BY <1>1, <1>2, <1>3, <1>4, <1>5, <1>6, <1>7, <1>8, <1>9, StepsSay

LEMMA LookedStep ==
  ASSUME Shape, Rest, Announces, Answers, Looked, DeviceStep
  PROVE  Looked'
<1> SUFFICES ASSUME cmd' = Inspect, phase' # "idle"
             PROVE  /\ ~desc'.valid
                    /\ Live' => /\ at' > 1 => seen'.rate = regs'.rate
                                /\ at' > 2 => seen'.output = regs'.output
                                /\ at' > 3 => seen'.algorithm = regs'.algorithm
                    /\ phase' = "closing" /\ ended' = "Succeeded" => at' = 5
  BY DEF Looked
<1>1. CASE Begins
  <2>1. phase' = "opening" /\ ~desc'.valid
    BY <1>1, BeginsSay
  <2>2. QED BY <2>1 DEF Live
<1>2. CASE Closes
  BY <1>2 DEF Closes
<1>3. CASE Working /\ EndsSomehow
  <2>1. PICK result \in {"Succeeded", "Unverified", "Failed", "Cancelled"},
             o \in {op, After(op, Step)} : Ends(result, o)
    BY <1>3 DEF EndsSomehow
  <2>2. cmd = Inspect /\ regs' = regs /\ phase = "running"
    BY <1>3 DEF Working
  <2>3. /\ ended' = result /\ at' = at
        /\ \/ desc' = desc
           \/ cmd.name = "reset_defaults"
    BY <2>1, EndsSays
  <2>4. ~desc'.valid
    BY <2>2, <2>3 DEF Looked, Inspect, Command
  <2>5. result = "Succeeded" => at = 5
    <3>1. result = "Succeeded" => at = Len(Plan(cmd)) \/ Step.do = "battery"
      BY <2>1 DEF Ends
    <3>2. Step.do = "battery" => at = 5
      BY StepsAre DEF Shape, Step, StepIs
    <3>3. QED BY <2>2, <3>1, <3>2, InspectSteps
  <2>6. Live
    BY <2>2 DEF Live
  <2>7. CASE seen' = seen
    BY <2>2, <2>3, <2>4, <2>5, <2>6, <2>7 DEF Looked
  <2>8. CASE Passed(Step)
    <3>1. /\ seen'.rate = regs.rate
          /\ at > 1 => seen'.output = regs.output
          /\ at > 2 => seen'.algorithm = regs.algorithm
      BY <2>2, <2>6, <2>8, LookSays
    <3>2. at \in Nat
      BY StepsAre DEF Shape
    <3>3. QED BY <2>2, <2>3, <2>4, <2>5, <3>1, <3>2
  <2>9. seen' = seen \/ Passed(Step)
    BY <2>1 DEF Ends
  <2>10. QED BY <2>7, <2>8, <2>9
<1>4. CASE ~Begins /\ ~Closes /\ ~(Working /\ EndsSomehow)
  <2>1. /\ (desc'.valid => desc.valid) /\ cmd = Inspect /\ phase # "idle"
        /\ seen' = seen \/ (Working /\ EntersNext)
        /\ phase' = "closing" => phase = "closing" /\ at' = at /\ ended' = ended
    BY <1>4, DescSays
  <2>2. ~desc'.valid /\ (phase' = "closing" /\ ended' = "Succeeded" => at' = 5)
    BY <2>1 DEF Looked
  <2>3. CASE Working /\ EntersNext
    <3>1. regs' = regs /\ Live /\ at' = at + 1 /\ at \in Nat /\ Passed(Step)
      BY <2>3, NextSays DEF Working, Live, EntersNext
    <3>2. /\ seen'.rate = regs.rate
          /\ at > 1 => seen'.output = regs.output
          /\ at > 2 => seen'.algorithm = regs.algorithm
      BY <2>1, <3>1, LookSays
    <3>3. QED BY <2>2, <3>1, <3>2
  <2>4. CASE ~(Working /\ EntersNext)
    <3>1. seen' = seen /\ at \in Nat
      BY <2>1, <2>4, AtSays, StepsAre DEF Shape
    <3>2. SUFFICES ASSUME Live'
                   PROVE  /\ at' > 1 => seen'.rate = regs'.rate
                          /\ at' > 2 => seen'.output = regs'.output
                          /\ at' > 3 => seen'.algorithm = regs'.algorithm
      BY <2>2
    <3>3. at' = 1 \/ (Live /\ at' \in Nat /\ at' <= at)
      BY <1>4, <2>4, <3>2, AtSays
    <3>4. Same(regs', regs)
      <4>1. ~Wrote
        BY <2>1 DEF Wrote, Commands, Inspect, Command
      <4>2. ~PowerCycle
        BY <3>2 DEF PowerCycle, task, Live
      <4>3. QED BY <4>1, <4>2, RegsKept DEF Same
    <3>5. QED BY <2>1, <3>1, <3>3, <3>4 DEF Looked, Same
  <2>5. QED BY <2>3, <2>4
<1>5. QED BY <1>1, <1>2, <1>3, <1>4

\* The work returns with success only when its last step has found the value
\* in the device.
LEMMA SuccessSays ==
  ASSUME Shape, Rest, Answers, AccelOrder, Resets, phase = "running", cmd \in Commands,
         NEW o \in {op, After(op, Step)}, Ends("Succeeded", o)
  PROVE  \/ cmd.name = "reset_defaults" /\ DefaultsHold(regs) /\ DefaultsHold(seen')
         \/ /\ cmd.name = "accel_calibrate" /\ regs.calsw = 0
            /\ \A m \in On(link) : m.do # "write"
         \/ cmd.name \in Confirmed /\ regs[cmd.reg] = cmd.val
<1>1. Step.do # "battery"
  BY StepsAre, CommandSays DEF Shape, Step, StepIs
<1>2. /\ at = Len(Plan(cmd)) /\ OutcomeOf(cmd) = "Succeeded" /\ Passed(Step)
      /\ Step.do = "finished" =>
           \E r \in ReplyType : AnswerIs(r, Step) /\ Value(r.addr, r.values) = 0
      /\ cmd.name = "reset_defaults" => DefaultsHold(seen')
  BY <1>1 DEF Ends
<1>3. cmd.name \in Confirmed \cup {"accel_calibrate", "reset_defaults"}
  BY <1>2, CommandSays DEF OutcomeOf, Names, Confirmed
<1>4. CASE cmd.name = "reset_defaults"
  <2>1. at = 12 /\ Live
    BY <1>2, <1>4, ResetSteps DEF Live
  <2>2. QED BY <1>2, <1>4, <2>1 DEF Resets, DefaultsHold
<1>5. CASE cmd.name = "accel_calibrate"
  <2>1. Step.do = "finished" /\ Step.addr = "control"
    <3>1. at = 6 /\ Plan(cmd)[6] = Read("finished", "control", {})
      BY <1>2, <1>5, AccelSteps
    <3>2. Step = Read("finished", "control", {})
      BY <3>1 DEF Step
    <3>3. QED BY <3>2 DEF Read
  <2>2. PICK r \in ReplyType : AnswerIs(r, Step) /\ Value(r.addr, r.values) = 0
    BY <1>2, <2>1
  <2>3. r \in On(replies) /\ r.addr = "control" /\ r.values \in RegisterValues
    BY <2>1, <2>2 DEF AnswerIs, ReplyType
  <2>4. r.values.calsw = 0
    BY <2>2, <2>3, ValueSays
  <2>5. regs.calsw = 0
    BY <1>5, <2>3, <2>4 DEF Answers, Agrees
  <2>6. replies # <<>>
    BY <2>3 DEF On
  <2>7. QED BY <1>5, <2>5, <2>6 DEF AccelOrder
<1>6. CASE cmd.name \in Confirmed
  <2>1. Step = Confirm(cmd)
    BY <1>2, <1>6, ConfirmIsLast DEF Step
  <2>2. Step.do = "confirm" /\ Step.addr = AddressOf(cmd.reg) /\ Step.want = {cmd.val}
    BY <2>1 DEF Confirm, Read
  <2>3. CASE cmd.name = "rate"
    <3>1. cmd.reg = "rate" /\ Step.addr = "rate"
      BY <2>2, <2>3, CommandSays DEF AddressOf
    <3>2. regs.rate = cmd.val
      BY <1>2, <2>2, <2>3, <3>1, PassedSays
    <3>3. QED BY <1>6, <3>1, <3>2, FieldIs DEF Shape
  <2>4. CASE cmd.name = "output"
    <3>1. cmd.reg = "output" /\ Step.addr = "output"
      BY <2>2, <2>4, CommandSays DEF AddressOf
    <3>2. regs.output = cmd.val
      BY <1>2, <2>2, <2>4, <3>1, PassedSays
    <3>3. QED BY <1>6, <3>1, <3>2, FieldIs DEF Shape
  <2>5. CASE cmd.name = "algorithm"
    <3>1. cmd.reg = "algorithm" /\ Step.addr = "algorithm"
      BY <2>2, <2>5, CommandSays DEF AddressOf
    <3>2. regs.algorithm = cmd.val
      BY <1>2, <2>2, <2>5, <3>1, PassedSays
    <3>3. QED BY <1>6, <3>1, <3>2, FieldIs DEF Shape
  <2>6. CASE cmd.name = "mag_start"
    <3>1. cmd.reg = "calsw" /\ Step.addr = "control" /\ cmd.val = 7
      BY <2>2, <2>6, CommandSays DEF AddressOf
    <3>2. regs.calsw = 7
      BY <1>2, <2>2, <2>6, <3>1, PassedSays
    <3>3. QED BY <1>6, <3>1, <3>2, FieldIs DEF Shape
  <2>7. CASE cmd.name = "mag_stop"
    <3>1. cmd.reg = "calsw" /\ Step.addr = "control" /\ cmd.val = 0
      BY <2>2, <2>7, CommandSays DEF AddressOf
    <3>2. regs.calsw = 0
      BY <1>2, <2>2, <2>7, <3>1, PassedSays
    <3>3. QED BY <1>6, <3>1, <3>2, FieldIs DEF Shape
  <2>8. QED BY <1>6, <2>3, <2>4, <2>5, <2>6, <2>7 DEF Confirmed
<1>7. QED BY <1>3, <1>4, <1>5, <1>6

\* An operation becomes a success as its work returns, or, an inspection, as
\* its connection closes.
LEMMA OutcomeSays ==
  ASSUME Shape, Rest, Announces, DeviceStep, op'.outcome = "Succeeded"
  PROVE  \/ op.outcome = "Succeeded" /\ phase \in {"closing", "idle"}
         \/ cmd = Inspect /\ cmd' = Inspect
         \/ /\ Working /\ cmd \in Commands /\ link' = link
            /\ \E o \in {op, After(op, Step)} : Ends("Succeeded", o)
<1>1. op \in OpType
  BY DEF Shape
<1>2. op.outcome = "Succeeded" => phase \in {"closing", "idle"}
  BY DEF Rest, NoOperation, Shape
<1>3. CASE Begins
  BY <1>3, BeginsSay DEF NoOperation
<1>4. CASE Working /\ EndsSomehow
  <2>1. PICK result \in {"Succeeded", "Unverified", "Failed", "Cancelled"},
             o \in {op, After(op, Step)} : Ends(result, o)
    BY <1>4 DEF EndsSomehow
  <2>2. link' = link /\ result = "Succeeded" /\ cmd # Inspect
    BY <1>2, <1>4, <2>1, EndsSays DEF Working
  <2>3. QED BY <1>4, <2>1, <2>2 DEF Shape
<1>5. CASE Closes
  <2>1. \/ cmd = Inspect
        \/ op' = [op EXCEPT !.outcome = ended] /\ op.outcome = "Running"
        \/ op' = op
    BY <1>5 DEF Closes
  <2>2. phase = "closing" /\ cmd' = cmd
    BY <1>5 DEF Closes
  <2>3. CASE op' = [op EXCEPT !.outcome = ended] /\ op.outcome = "Running" /\ cmd # Inspect
    <3>1. ended = "Succeeded"
      BY <1>1, <2>3 DEF OpType
    <3>2. QED BY <2>2, <2>3, <3>1 DEF Rest
  <2>4. QED BY <1>2, <2>1, <2>2, <2>3
<1>6. CASE OpenFails
  <2>1. \E e \in {"Failed", "Cancelled"} : op' = [op EXCEPT !.outcome = e]
    BY <1>6 DEF OpenFails
  <2>2. QED BY <1>1, <2>1 DEF OpType
<1>7. CASE Quiet \/ Repeats \/ Takes \/ Settled \/ PowerCycle
  <2>1. op' = op
    BY <1>7, TakesSays DEF Quiet, Repeats, Settled, PowerCycle
  <2>2. QED BY <1>2, <2>1
<1>8. CASE Opens
  BY <1>2, <1>8, OpensSays
<1>9. CASE Working /\ EntersNext
  BY <1>2, <1>9, NextSays
<1>10. CASE Working /\ EntersBack
  BY <1>2, <1>10, BackSays
<1>11. QED BY <1>3, <1>4, <1>5, <1>6, <1>7, <1>8, <1>9, <1>10, StepsSay

LEMMA AchievedStep ==
  ASSUME Shape, Rest, Announces, Answers, AccelOrder, Resets, Achieved, DeviceStep
  PROVE  Achieved'
<1> SUFFICES ASSUME op'.outcome = "Succeeded"
             PROVE  \/ cmd' = Inspect
                    \/ cmd'.name = "reset_defaults" /\ DefaultsHold(regs')
                    \/ /\ cmd'.name = "accel_calibrate" /\ regs'.calsw = 0
                       /\ \A m \in On(link') : m.do # "write"
                    \/ cmd'.name \in Confirmed /\ regs'[cmd'.reg] = cmd'.val
  BY DEF Achieved
<1>1. CASE cmd = Inspect /\ cmd' = Inspect
  BY <1>1
<1>2. CASE /\ Working /\ cmd \in Commands /\ link' = link
           /\ \E o \in {op, After(op, Step)} : Ends("Succeeded", o)
  <2>1. phase = "running" /\ UNCHANGED <<regs, cmd>>
    BY <1>2 DEF Working
  <2>2. \/ cmd.name = "reset_defaults" /\ DefaultsHold(regs)
        \/ /\ cmd.name = "accel_calibrate" /\ regs.calsw = 0
           /\ \A m \in On(link) : m.do # "write"
        \/ cmd.name \in Confirmed /\ regs[cmd.reg] = cmd.val
    BY <1>2, <2>1, SuccessSays
  <2>3. QED BY <1>2, <2>1, <2>2
<1>3. CASE op.outcome = "Succeeded" /\ phase \in {"closing", "idle"}
  <2>1. ~Begins /\ cmd' = cmd
    BY AtSays, BeginsSay DEF NoOperation
  <2>2. \A m \in On(link') : m.do = "write" => m \in On(link)
    BY <1>3, LinkSays DEF NewWrite, Working
  <2>3. ~PowerCycle
    BY <1>3 DEF PowerCycle
  <2>4. CASE cmd = Inspect
    BY <2>1, <2>4
  <2>5. CASE cmd.name = "reset_defaults" /\ DefaultsHold(regs)
    <3>1. DefaultsHold(regs')
      <4>1. CASE Same(regs', regs)
        BY <2>5, <4>1 DEF Same, DefaultsHold
      <4>2. CASE Wrote
        BY <2>5, <4>2, WroteSays
      <4>3. QED BY <2>3, <4>1, <4>2, RegsKept DEF Same
    <3>2. QED BY <2>1, <2>5, <3>1
  <2>6. CASE /\ cmd.name = "accel_calibrate" /\ regs.calsw = 0
             /\ \A m \in On(link) : m.do # "write"
    <3>1. ~(Takes /\ Wrote)
      BY <2>6, TakesSays DEF Wrote, Write
    <3>2. regs'.calsw = 0
      BY <2>3, <2>6, <3>1, RegsKept
    <3>3. QED BY <2>1, <2>2, <2>6, <3>2
  <2>7. CASE cmd.name \in Confirmed /\ regs[cmd.reg] = cmd.val /\ cmd # Inspect
    <3>1. cmd \in Commands /\ regs \in RegisterValues
      BY <2>7 DEF Shape
    <3>2. regs' \in RegisterValues \/ regs' = regs
      <4>1. CASE Takes /\ Wrote
        BY <3>1, <4>1, TakenSays DEF Wrote
      <4>2. CASE Settled
        BY <3>1, <4>2 DEF Settled, RegisterValues
      <4>3. QED BY <2>3, <4>1, <4>2, RegsKept
    <3>3. CASE regs' = regs
      BY <2>1, <2>7, <3>3
    <3>4. CASE Takes /\ Wrote
      <4>1. regs' = Taken(Write(cmd.reg, cmd.val))
        BY <3>4 DEF Wrote
      <4>2. cmd.reg \in {"calsw", "rate", "output", "algorithm"}
        BY <2>7, <3>1, CommandSays DEF Confirmed
      <4>3. regs'[cmd.reg] = cmd.val
        BY <3>1, <4>1, <4>2, TakenSays
      <4>4. QED BY <2>1, <2>7, <4>3
    <3>5. CASE /\ Settled /\ Same(regs', regs) /\ regs.calsw \in {1, 4, 8} /\ regs'.calsw = 0
      <4>1. regs' \in RegisterValues
        BY <3>1, <3>5 DEF Settled, RegisterValues
      <4>2. /\ regs["rate"] = regs.rate /\ regs["output"] = regs.output
            /\ regs["algorithm"] = regs.algorithm /\ regs["calsw"] = regs.calsw
            /\ regs'["rate"] = regs'.rate /\ regs'["output"] = regs'.output
            /\ regs'["algorithm"] = regs'.algorithm /\ regs'["calsw"] = regs'.calsw
        BY <3>1, <4>1, FieldIs
      <4>3. cmd.reg \in {"rate", "output", "algorithm"} \/ (cmd.reg = "calsw" /\ cmd.val \in {0, 7})
        BY <2>7, <3>1, CommandSays DEF Confirmed
      <4>4. regs'[cmd.reg] = cmd.val
        BY <2>7, <3>5, <4>2, <4>3 DEF Same
      <4>5. QED BY <2>1, <2>7, <4>4
    <3>6. QED BY <2>3, <3>3, <3>4, <3>5, RegsKept
  <2>8. QED BY <1>3, <2>4, <2>5, <2>6, <2>7 DEF Achieved
<1>4. QED BY <1>1, <1>2, <1>3, OutcomeSays

LEMMA DescribesStep ==
  ASSUME DeviceInv, DeviceStep
  PROVE  Describes'
<1> USE DEF DeviceInv
<1>1. CASE Begins
  <2>1. /\ ~op'.attempted /\ UNCHANGED <<regs, aged>>
        /\ desc'.values = desc.values /\ (desc'.valid => desc.valid)
    BY <1>1, BeginsSay DEF NoOperation
  <2>2. QED BY <2>1 DEF Describes, Same
<1>2. CASE Working /\ EndsSomehow
  <2>1. PICK result \in {"Succeeded", "Unverified", "Failed", "Cancelled"},
             o \in {op, After(op, Step)} : Ends(result, o)
    BY <1>2 DEF EndsSomehow
  <2>2. phase = "running" /\ UNCHANGED <<regs, aged, cmd>>
    BY <1>2 DEF Working
  <2>3. /\ op'.attempted = op.attempted
        /\ \/ desc' = desc
           \/ /\ result = "Succeeded" /\ cmd.name = "reset_defaults"
              /\ desc' = [valid |-> TRUE, values |-> seen']
    BY <2>1, EndsSays
  <2>4. CASE desc' = desc
    BY <2>2, <2>3, <2>4 DEF Describes
  <2>5. CASE /\ result = "Succeeded" /\ cmd.name = "reset_defaults"
             /\ desc' = [valid |-> TRUE, values |-> seen']
    <3>1. cmd \in Commands
      BY <2>5 DEF Shape, Inspect, Command
    <3>2. Ends("Succeeded", o)
      BY <2>1, <2>5
    <3>3. DefaultsHold(regs) /\ DefaultsHold(seen')
      BY <2>2, <2>5, <3>1, <3>2, SuccessSays DEF Confirmed
    <3>4. QED BY <2>2, <2>5, <3>3 DEF Describes, Same, DefaultsHold
  <2>6. QED BY <2>3, <2>4, <2>5
<1>3. CASE Closes
  <2>1. phase = "closing" /\ phase' = "idle" /\ UNCHANGED <<regs, aged>>
    BY <1>3 DEF Closes, device
  <2>2. CASE cmd = Inspect /\ ended = "Succeeded"
    <3>1. desc' = [valid |-> TRUE, values |-> seen]
      BY <1>3, <2>2 DEF Closes
    <3>2. at = 5 /\ Live
      BY <2>1, <2>2 DEF Looked, Live
    <3>3. seen.rate = regs.rate /\ seen.output = regs.output /\ seen.algorithm = regs.algorithm
      BY <2>1, <2>2, <3>2 DEF Looked
    <3>4. QED BY <2>1, <3>1, <3>3 DEF Describes, Same
  <2>3. CASE ~(cmd = Inspect /\ ended = "Succeeded")
    <3>1. desc' = desc
      BY <1>3, <2>3 DEF Closes
    <3>2. QED BY <2>1, <3>1 DEF Describes
  <2>4. QED BY <2>2, <2>3
<1>4. CASE ~Begins /\ ~Closes /\ ~(Working /\ EndsSomehow)
  <2>1. /\ desc'.values = desc.values /\ (desc'.valid => desc.valid)
        /\ cmd' = cmd /\ (phase' # "idle" => phase # "idle")
        /\ op'.attempted = op.attempted \/ ~desc'.valid
        /\ aged' = aged \/ aged' \/ (phase = "opening" /\ cmd = Inspect)
    BY <1>4, DescSays
  <2>2. phase = "opening" /\ cmd = Inspect => ~desc'.valid
    BY <2>1 DEF Looked
  <2>3. CASE ~desc'.valid
    BY <2>3 DEF Describes
  <2>4. CASE desc'.valid /\ Same(regs', regs)
    <3>1. DefaultsHold(regs') <=> DefaultsHold(regs)
      BY <2>4 DEF Same, DefaultsHold
    <3>2. Same(desc.values, regs) => Same(desc'.values, regs')
      BY <2>1, <2>4 DEF Same
    <3>3. QED BY <2>1, <2>2, <2>4, <3>1, <3>2 DEF Describes
  <2>5. CASE desc'.valid /\ PowerCycle
    <3>1. aged' = TRUE /\ op' = NoOperation
      BY <2>5 DEF PowerCycle, Rest
    <3>2. QED BY <3>1 DEF Describes, NoOperation
  <2>6. CASE desc'.valid /\ Takes /\ Wrote
    <3>1. op.attempted /\ phase # "idle"
      BY <2>6, TakesSays DEF Wrote, Live
    <3>2. cmd.name = "reset_defaults" /\ DefaultsHold(regs)
      BY <2>1, <2>6, <3>1 DEF Describes
    <3>3. DefaultsHold(regs')
      BY <2>6, <3>2, WroteSays
    <3>4. Same(desc.values, regs) => Same(desc'.values, regs')
      BY <2>1, <3>2, <3>3 DEF Same, DefaultsHold
    <3>5. QED BY <2>1, <2>2, <2>6, <3>2, <3>3, <3>4 DEF Describes
  <2>7. QED BY <2>3, <2>4, <2>5, <2>6, RegsKept DEF Same
<1>5. QED BY <1>1, <1>2, <1>3, <1>4

-----------------------------------------------------------------------------
(***************************************************************************)
(* What holds of the device and of an operation, whoever asks for it.      *)
(***************************************************************************)

LEMMA DeviceInit ==
  ASSUME DeviceAssumption, Init
  PROVE  DeviceInv
<1>1. regs \in RegisterValues /\ FullFrame(regs)
  BY DEF Init, DeviceAssumption, FullFrame
<1>2. op = [NoOperation EXCEPT !.outcome = "Cancelled"]
  BY DEF Init
<1>3. op \in OpType /\ ~op.attempted /\ ~op.reference /\ op.outcome = "Cancelled"
  BY <1>2 DEF NoOperation, OpType, Outcomes
<1>4. 1 \in 1 .. Len(Plan(Inspect))
  BY InspectSteps
<1>5. Shape
  <2>1. /\ unlocked = FALSE /\ link = <<>> /\ replies = <<>> /\ cmd = Inspect /\ phase = "idle"
        /\ at = 1 /\ cancel = FALSE /\ ended = "None" /\ seen = regs /\ count = 0
        /\ saved = regs /\ aged = FALSE /\ cycles = 0
        /\ desc = [valid |-> FALSE, values |-> regs]
    BY DEF Init
  <2>2. cycles \in 0 .. MaxCycles
    BY <2>1 DEF DeviceAssumption
  <2>3. at \in 1 .. Len(Plan(cmd))
    BY <1>4, <2>1
  <2>4. desc \in [valid : BOOLEAN, values : RegisterValues]
    BY <1>1, <2>1
  <2>5. link \in Seq(Messages) /\ replies \in Seq(ReplyType)
    BY <2>1
  <2>6. /\ regs \in RegisterValues /\ saved \in RegisterValues /\ seen \in RegisterValues
        /\ unlocked \in BOOLEAN /\ aged \in BOOLEAN /\ cancel \in BOOLEAN /\ count \in Nat
        /\ cmd \in Commands \cup {Inspect} /\ ended \in Outcomes \cup {"None"}
        /\ phase \in {"idle", "opening", "running", "closing"}
    BY <1>1, <2>1
  <2>7. QED BY <1>3, <2>2, <2>3, <2>4, <2>5, <2>6 DEF Shape
<1>6. phase = "idle" /\ link = <<>> /\ replies = <<>> /\ touched = {} /\ epochs = 0
      /\ saved = regs /\ cmd = Inspect /\ ~desc.valid
  BY DEF Init
<1>7. On(link) = {} /\ On(replies) = {}
  BY <1>6 DEF On
<1>8. Rest /\ Announces /\ Counts
  BY <1>3, <1>6, <1>7 DEF Rest, Announces, Counts
<1>9. Frames /\ Answers /\ Resets
  BY <1>1, <1>6, <1>7 DEF Frames, Answers, Resets, Live
<1>10. AccelOrder /\ Looked /\ Achieved /\ Describes
  BY <1>3, <1>6 DEF AccelOrder, Looked, Achieved, Describes, Inspect, Command
<1>11. QED BY <1>5, <1>8, <1>9, <1>10 DEF DeviceInv

LEMMA DeviceInvStep ==
  ASSUME DeviceAssumption, DeviceInv, DeviceStep
  PROVE  DeviceInv'
<1>1. /\ Shape /\ Rest /\ Announces /\ Counts /\ Frames /\ Answers /\ AccelOrder
      /\ Resets /\ Looked /\ Achieved /\ Describes
  BY DEF DeviceInv
<1>2. Shape'
  BY <1>1, ShapeStep
<1>3. Rest'
  BY <1>1, RestStep
<1>4. Announces'
  BY <1>1, AnnouncesStep
<1>5. Counts'
  BY <1>1, CountsStep
<1>6. Frames'
  BY <1>1, FramesStep
<1>7. Answers'
  BY <1>1, AnswersStep
<1>8. AccelOrder'
  BY <1>1, AccelOrderStep
<1>9. Resets'
  BY <1>1, ResetsStep
<1>10. Looked'
  BY <1>1, LookedStep
<1>11. Achieved'
  BY <1>1, AchievedStep
<1>12. Describes'
  BY DescribesStep
<1>13. QED
  BY <1>2, <1>3, <1>4, <1>5, <1>6, <1>7, <1>8, <1>9, <1>10, <1>11, <1>12 DEF DeviceInv

LEMMA DeviceInvGives ==
  ASSUME DeviceInv
  PROVE  TypeOK /\ OperationIsHonest /\ FullFrameKeepsRate /\ ValidIsCurrent /\ ReferenceCountedOnce
<1>1. Shape /\ Announces /\ Counts /\ Frames /\ Achieved /\ Describes
  BY DEF DeviceInv
<1>2. TypeOK
  <2>1. op.outcome \in Outcomes /\ epochs \in 0 .. 2
    BY <1>1 DEF Shape, OpType, Counts
  <2>2. QED BY <1>1, <2>1 DEF Shape, TypeOK
<1>3. OperationIsHonest
  <2>1. touched # {} => op.attempted
    BY <1>1 DEF Announces
  <2>2. ASSUME op.outcome = "Succeeded"
        PROVE  CASE cmd.name = "inspect" -> TRUE
                 [] cmd.name = "reset_defaults" -> DefaultsHold(regs)
                 [] cmd.name = "accel_calibrate" -> regs.calsw = 0
                 [] OTHER -> regs[cmd.reg] = cmd.val
    <3>1. CASE cmd = Inspect
      BY <3>1 DEF Inspect, Command
    <3>2. CASE cmd.name = "reset_defaults" /\ DefaultsHold(regs)
      BY <3>2
    <3>3. CASE cmd.name = "accel_calibrate" /\ regs.calsw = 0
      BY <3>3
    <3>4. CASE cmd.name \in Confirmed /\ regs[cmd.reg] = cmd.val
      BY <3>4 DEF Confirmed
    <3>5. QED BY <1>1, <2>2, <3>1, <3>2, <3>3, <3>4 DEF Achieved
  <2>3. QED BY <2>1, <2>2 DEF OperationIsHonest
<1>4. FullFrameKeepsRate
  BY <1>1 DEF Frames, FullFrame, FullFrameKeepsRate
<1>5. ValidIsCurrent
  BY <1>1 DEF Describes, Same, ValidIsCurrent
<1>6. ReferenceCountedOnce
  BY <1>1 DEF Counts, Announces, ReferenceCountedOnce
<1>7. QED BY <1>2, <1>3, <1>4, <1>5, <1>6

LEMMA NextIsDeviceStep ==
  ASSUME [Next]_vars
  PROVE  DeviceStep
  BY DEF Next, DeviceStep, Work, Environment, Worker

\* The device, the operation and the description keep their types (the structs
\* of model.rs), a reference is counted twice at most and no plan is left
\* through its end (execute and inspect in device.rs), whatever the order of
\* requests, failures, cancellations, losses and switchings off.
THEOREM DeviceTypeCorrect == Spec => []TypeOK
<1>1. Init => DeviceInv
  BY DeviceAssumption, DeviceInit
<1>2. DeviceInv /\ [Next]_vars => DeviceInv'
  BY DeviceAssumption, DeviceInvStep, NextIsDeviceStep
<1>3. DeviceInv => TypeOK
  BY DeviceInvGives
<1>4. QED BY <1>1, <1>2, <1>3, PTL DEF Spec

-----------------------------------------------------------------------------
(***************************************************************************)
(* The list of writes.                                                     *)
(***************************************************************************)

LEMMA WantedSays ==
  ASSUME NEW target \in Settings, NEW n \in Fields
  PROVE  /\ Wanted(target, n) \in Commands /\ Wanted(target, n) # Inspect
         /\ Wanted(target, n).name = n /\ Wanted(target, n).reg = n
         /\ n = "rate" => Wanted(target, n) = Command("rate", "rate", target.rate)
         /\ n = "output" => Wanted(target, n) = Command("output", "output", target.format)
         /\ n = "algorithm" => Wanted(target, n) = Command("algorithm", "algorithm", target.algorithm)
<1>1. target.rate \in Rates /\ target.format \in Supported /\ target.algorithm \in Algorithms
  BY DEF Settings
<1>2. CASE n = "rate"
  BY <1>1, <1>2 DEF Wanted, Command, Commands, Inspect
<1>3. CASE n = "output"
  BY <1>1, <1>3 DEF Wanted, Command, Commands, Inspect
<1>4. CASE n = "algorithm"
  BY <1>1, <1>4 DEF Wanted, Command, Commands, Inspect
<1>5. QED BY <1>2, <1>3, <1>4 DEF Fields

LEMMA OneWrite ==
  ASSUME NEW target \in Settings, NEW n \in Fields, NEW c
  PROVE  /\ When(c, Wanted(target, n)) \in Seq(Commands)
         /\ WritesFor(When(c, Wanted(target, n)), target, {n})
         /\ When(c, Wanted(target, n)) = <<>> => ~c
<1>1. Wanted(target, n) \in Commands
  BY WantedSays
<1> DEFINE w == Wanted(target, n)
<1>2. WritesFor(<<w>>, target, {n}) /\ WritesFor(<<>>, target, {n})
  <2> DEFINE s == <<w>>
  <2>1. Len(s) = 1 /\ s[1] = w
    OBVIOUS
  <2> HIDE DEF s
  <2>2. WritesFor(s, target, {n})
    BY <2>1 DEF WritesFor
  <2>3. WritesFor(<<>>, target, {n})
    BY DEF WritesFor
  <2>4. QED BY <2>2, <2>3 DEF s
<1>3. <<w>> \in Seq(Commands) /\ <<>> \in Seq(Commands) /\ <<w>> # <<>>
  BY <1>1
<1>4. (When(c, w) = <<w>> /\ c) \/ (When(c, w) = <<>> /\ ~c)
  BY DEF When
<1> HIDE DEF w
<1>5. /\ When(c, w) \in Seq(Commands) /\ WritesFor(When(c, w), target, {n})
      /\ When(c, w) = <<>> => ~c
  <2>1. CASE When(c, w) = <<w>> /\ c
    BY <1>2, <1>3, <2>1
  <2>2. CASE When(c, w) = <<>> /\ ~c
    BY <1>2, <1>3, <2>2
  <2>3. QED BY <1>4, <2>1, <2>2
<1>6. QED BY <1>5 DEF w

LEMMA JoinWrites ==
  ASSUME NEW target \in Settings, NEW A \in SUBSET Fields, NEW B \in SUBSET Fields, A \cap B = {},
         NEW s \in Seq(Commands), NEW t \in Seq(Commands),
         WritesFor(s, target, A), WritesFor(t, target, B)
  PROVE  /\ s \o t \in Seq(Commands) /\ WritesFor(s \o t, target, A \cup B)
         /\ s \o t = <<>> => s = <<>> /\ t = <<>>
<1> DEFINE u == s \o t
<1>1. /\ u \in Seq(Commands) /\ Len(u) = Len(s) + Len(t) /\ Len(s) \in Nat /\ Len(t) \in Nat
      /\ \A i \in 1 .. Len(s) + Len(t) : u[i] = IF i <= Len(s) THEN s[i] ELSE t[i - Len(s)]
  BY ConcatProperties
<1> HIDE DEF u
<1>2. \A n \in Fields : Wanted(target, n).name = n
  BY WantedSays
<1>3. \A i \in 1 .. Len(u) :
        \/ i \in 1 .. Len(s) /\ u[i] = s[i]
        \/ i - Len(s) \in 1 .. Len(t) /\ i > Len(s) /\ u[i] = t[i - Len(s)]
  BY <1>1
<1>4. ASSUME NEW i \in 1 .. Len(u) PROVE \E n \in A \cup B : u[i] = Wanted(target, n)
  <2>1. CASE i \in 1 .. Len(s) /\ u[i] = s[i]
    BY <2>1 DEF WritesFor
  <2>2. CASE i - Len(s) \in 1 .. Len(t) /\ u[i] = t[i - Len(s)]
    BY <2>2 DEF WritesFor
  <2>3. QED BY <1>3, <2>1, <2>2
<1>5. \A i \in 1 .. Len(s) : s[i].name \in A
  BY <1>2 DEF WritesFor
<1>6. \A i \in 1 .. Len(t) : t[i].name \in B
  BY <1>2 DEF WritesFor
<1>7. ASSUME NEW i \in 1 .. Len(u), NEW j \in 1 .. Len(u), u[i].name = u[j].name
      PROVE  i = j
  <2>1. CASE i \in 1 .. Len(s) /\ u[i] = s[i] /\ j \in 1 .. Len(s) /\ u[j] = s[j]
    BY <1>7, <2>1 DEF WritesFor
  <2>2. CASE /\ i - Len(s) \in 1 .. Len(t) /\ u[i] = t[i - Len(s)]
             /\ j - Len(s) \in 1 .. Len(t) /\ u[j] = t[j - Len(s)]
    <3>1. i - Len(s) = j - Len(s)
      BY <1>7, <2>2 DEF WritesFor
    <3>2. QED BY <1>1, <3>1
  <2>3. CASE i \in 1 .. Len(s) /\ u[i] = s[i] /\ j - Len(s) \in 1 .. Len(t) /\ u[j] = t[j - Len(s)]
    <3>1. u[i].name \in A /\ u[j].name \in B
      BY <1>5, <1>6, <2>3
    <3>2. QED BY <1>7, <3>1
  <2>4. CASE j \in 1 .. Len(s) /\ u[j] = s[j] /\ i - Len(s) \in 1 .. Len(t) /\ u[i] = t[i - Len(s)]
    <3>1. u[j].name \in A /\ u[i].name \in B
      BY <1>5, <1>6, <2>4
    <3>2. QED BY <1>7, <3>1
  <2>5. QED BY <1>3, <2>1, <2>2, <2>3, <2>4
<1>8. u = <<>> => s = <<>> /\ t = <<>>
  <2>1. u = <<>> => Len(s) = 0 /\ Len(t) = 0
    BY <1>1
  <2>2. QED BY <2>1, EmptySeq
<1>9. WritesFor(u, target, A \cup B)
  BY <1>4, <1>7 DEF WritesFor
<1>10. QED BY <1>1, <1>8, <1>9 DEF u

LEMMA NoWrites ==
  ASSUME NEW target, NEW c
  PROVE  /\ <<>> \in Seq(Commands) /\ WritesFor(<<>>, target, {})
         /\ When(FALSE, c) = <<>>
  BY DEF WritesFor, When

\* The writes are for distinct fields, and there is none only when what is
\* wanted is what there is.
LEMMA WritesSay ==
  ASSUME NEW target \in Settings, NEW current \in Settings
  PROVE  /\ Writes(target, current) \in Seq(Commands)
         /\ WritesFor(Writes(target, current), target, Fields)
         /\ Writes(target, current) = <<>> =>
              /\ target.rate = current.rate /\ target.format = current.format
              /\ target.algorithm = current.algorithm
<1> DEFINE full == target.format = "full"
           w1 == When(full /\ target.rate # current.rate, Command("rate", "rate", target.rate))
           w2 == When(target.format # current.format, Command("output", "output", target.format))
           w3 == When(~full /\ target.rate # current.rate, Command("rate", "rate", target.rate))
           w4 == When(target.algorithm # current.algorithm,
                      Command("algorithm", "algorithm", target.algorithm))
<1>1. Writes(target, current) = ((w1 \o w2) \o w3) \o w4
  BY DEF Writes
<1>2. /\ w2 \in Seq(Commands) /\ WritesFor(w2, target, {"output"})
      /\ w2 = <<>> => target.format = current.format
  BY OneWrite, WantedSays DEF Fields
<1>3. /\ w4 \in Seq(Commands) /\ WritesFor(w4, target, {"algorithm"})
      /\ w4 = <<>> => target.algorithm = current.algorithm
  BY OneWrite, WantedSays DEF Fields
<1>4. PICK A \in SUBSET {"rate"}, B \in SUBSET {"rate"} :
        /\ A \cap B = {} /\ A \cup B = {"rate"}
        /\ w1 \in Seq(Commands) /\ WritesFor(w1, target, A)
        /\ w3 \in Seq(Commands) /\ WritesFor(w3, target, B)
        /\ w1 = <<>> /\ w3 = <<>> => target.rate = current.rate
  <2>1. Command("rate", "rate", target.rate) = Wanted(target, "rate") /\ "rate" \in Fields
    BY WantedSays DEF Fields
  <2>2. CASE full
    <3>1. /\ w1 \in Seq(Commands) /\ WritesFor(w1, target, {"rate"})
          /\ w1 = <<>> => target.rate = current.rate
      BY <2>1, <2>2, OneWrite
    <3>2. w3 = <<>>
      BY <2>2 DEF When
    <3>3. w3 \in Seq(Commands) /\ WritesFor(w3, target, {})
      BY <3>2, NoWrites
    <3> HIDE DEF w1, w3
    <3>4. WITNESS {"rate"} \in SUBSET {"rate"}, {} \in SUBSET {"rate"}
    <3>5. QED BY <3>1, <3>3
  <2>3. CASE ~full
    <3>1. /\ w3 \in Seq(Commands) /\ WritesFor(w3, target, {"rate"})
          /\ w3 = <<>> => target.rate = current.rate
      BY <2>1, <2>3, OneWrite
    <3>2. w1 = <<>>
      BY <2>3 DEF When
    <3>3. w1 \in Seq(Commands) /\ WritesFor(w1, target, {})
      BY <3>2, NoWrites
    <3> HIDE DEF w1, w3
    <3>4. WITNESS {} \in SUBSET {"rate"}, {"rate"} \in SUBSET {"rate"}
    <3>5. QED BY <3>1, <3>3
  <2>4. QED BY <2>2, <2>3
<1> HIDE DEF w1, w2, w3, w4
<1>5. /\ w1 \o w2 \in Seq(Commands) /\ WritesFor(w1 \o w2, target, A \cup {"output"})
      /\ w1 \o w2 = <<>> => w1 = <<>> /\ w2 = <<>>
  <2>1. A \in SUBSET Fields /\ {"output"} \in SUBSET Fields /\ A \cap {"output"} = {}
    BY <1>4 DEF Fields
  <2>2. QED BY <1>2, <1>4, <2>1, JoinWrites
<1>6. /\ (w1 \o w2) \o w3 \in Seq(Commands)
      /\ WritesFor((w1 \o w2) \o w3, target, (A \cup {"output"}) \cup B)
      /\ (w1 \o w2) \o w3 = <<>> => w1 \o w2 = <<>> /\ w3 = <<>>
  <2>1. A \in SUBSET {"rate"} /\ B \in SUBSET {"rate"} /\ A \cap B = {}
    BY <1>4
  <2>2. A \cup {"output"} \in SUBSET Fields /\ B \in SUBSET Fields
    BY <2>1 DEF Fields
  <2>3. (A \cup {"output"}) \cap B = {}
    BY <2>1
  <2> DEFINE v == w1 \o w2
             AO == A \cup {"output"}
  <2>4. /\ v \in Seq(Commands) /\ WritesFor(v, target, AO)
        /\ w3 \in Seq(Commands) /\ WritesFor(w3, target, B)
        /\ AO \in SUBSET Fields /\ B \in SUBSET Fields /\ AO \cap B = {}
    BY <1>4, <1>5, <2>2, <2>3
  <2> HIDE DEF v, AO
  <2>5. /\ v \o w3 \in Seq(Commands) /\ WritesFor(v \o w3, target, AO \cup B)
        /\ v \o w3 = <<>> => v = <<>> /\ w3 = <<>>
    BY <2>4, JoinWrites
  <2>6. QED BY <2>5 DEF v, AO
<1>7. (A \cup {"output"}) \cup B = {"rate", "output"}
  BY <1>4
<1>8. /\ ((w1 \o w2) \o w3) \o w4 \in Seq(Commands)
      /\ WritesFor(((w1 \o w2) \o w3) \o w4, target, {"rate", "output"} \cup {"algorithm"})
      /\ ((w1 \o w2) \o w3) \o w4 = <<>> => (w1 \o w2) \o w3 = <<>> /\ w4 = <<>>
  <2>1. {"rate", "output"} \in SUBSET Fields /\ {"algorithm"} \in SUBSET Fields
        /\ {"rate", "output"} \cap {"algorithm"} = {}
    BY DEF Fields
  <2>2. WritesFor((w1 \o w2) \o w3, target, {"rate", "output"})
    BY <1>6, <1>7
  <2> DEFINE v == (w1 \o w2) \o w3
  <2>3. v \in Seq(Commands) /\ WritesFor(v, target, {"rate", "output"})
    BY <1>6, <2>2
  <2> HIDE DEF v
  <2>4. /\ v \o w4 \in Seq(Commands)
        /\ WritesFor(v \o w4, target, {"rate", "output"} \cup {"algorithm"})
        /\ v \o w4 = <<>> => v = <<>> /\ w4 = <<>>
    BY <1>3, <2>1, <2>3, JoinWrites
  <2>5. QED BY <2>4 DEF v
<1>9. {"rate", "output"} \cup {"algorithm"} = Fields
  BY DEF Fields
<1>10. QED BY <1>1, <1>2, <1>3, <1>4, <1>5, <1>6, <1>8, <1>9

-----------------------------------------------------------------------------
(***************************************************************************)
(* A submission.                                                           *)
(***************************************************************************)

\* A step nobody asked for: the operation stays what it is.
Plain == Work \/ StepFails \/ Repeats \/ Environment \/ Cancel \/ UNCHANGED vars

LEMMA PlainSays ==
  ASSUME Shape, Rest, Announces, Plain
  PROVE  /\ DeviceStep /\ cmd' = cmd /\ (phase = "idle" => phase' = "idle")
         /\ ~aged' => ~aged \/ (phase = "opening" /\ cmd = Inspect)
<1>1. CASE Worker
  <2>1. phase = "running" /\ UNCHANGED <<device, cmd, cancel, count>>
    BY <1>1, WorkerSays
  <2>2. QED BY <1>1, <2>1 DEF DeviceStep, device
<1>2. CASE Opens
  BY <1>2, OpensSays DEF DeviceStep, Shape
<1>3. CASE OpenFails \/ Closes \/ Repeats \/ Loses \/ Settles \/ Cancel
  BY <1>3 DEF DeviceStep, OpenFails, Closes, Repeats, Loses, Settles, Cancel, device, task
<1>4. CASE Takes
  BY <1>4, TakesSays DEF DeviceStep, task
<1>5. CASE PowerCycle
  BY <1>5 DEF DeviceStep, PowerCycle, task
<1>6. CASE UNCHANGED vars
  BY <1>6 DEF DeviceStep, vars, device, task
<1>7. QED BY <1>1, <1>2, <1>3, <1>4, <1>5, <1>6 DEF Plain, Work, Environment, Worker

LEMMA TailWrites ==
  ASSUME NEW target \in Settings, NEW names \in SUBSET Fields, NEW s \in Seq(Commands),
         s # <<>>, WritesFor(s, target, names)
  PROVE  \E n \in names : /\ Head(s) = Wanted(target, n)
                          /\ WritesFor(Tail(s), target, names \ {n})
<1> DEFINE t == Tail(s)
<1>1. /\ Len(s) \in Nat /\ 1 \in 1 .. Len(s) /\ Head(s) = s[1] /\ Len(t) = Len(s) - 1
      /\ \A i \in 1 .. Len(s) - 1 : t[i] = s[i + 1]
  OBVIOUS
<1> HIDE DEF t
<1>2. PICK n \in names : s[1] = Wanted(target, n)
  BY <1>1 DEF WritesFor
<1>3. \A i \in 1 .. Len(t) : i + 1 \in 1 .. Len(s) /\ t[i] = s[i + 1] /\ i + 1 # 1
  BY <1>1
<1>4. Wanted(target, n).name = n
  BY WantedSays
<1>5. ASSUME NEW i \in 1 .. Len(t) PROVE \E m \in names \ {n} : t[i] = Wanted(target, m)
  <2>1. PICK m \in names : s[i + 1] = Wanted(target, m)
    BY <1>3 DEF WritesFor
  <2>2. Wanted(target, m).name = m
    BY WantedSays
  <2>3. m # n
    <3>1. SUFFICES ASSUME m = n PROVE FALSE
      OBVIOUS
    <3>2. s[i + 1].name = s[1].name
      BY <1>2, <2>1, <3>1
    <3>3. i + 1 = 1
      BY <1>1, <1>3, <3>2 DEF WritesFor
    <3>4. QED BY <1>3, <3>3
  <2>4. QED BY <1>3, <2>1, <2>3
<1>6. ASSUME NEW i \in 1 .. Len(t), NEW j \in 1 .. Len(t), t[i].name = t[j].name
      PROVE  i = j
  <2>1. i + 1 \in 1 .. Len(s) /\ j + 1 \in 1 .. Len(s) /\ s[i + 1].name = s[j + 1].name
    BY <1>3, <1>6
  <2>2. i + 1 = j + 1
    BY <2>1 DEF WritesFor
  <2>3. QED BY <2>2
<1>7. WritesFor(t, target, names \ {n})
  BY <1>5, <1>6 DEF WritesFor
<1>8. QED BY <1>1, <1>2, <1>7 DEF t

\* The next write, or the inspection at the end.
LEMMA ContinueSays ==
  ASSUME NEW a \in ApplyType, NEW names \in SUBSET Fields,
         WritesFor(a.pending, a.target, names), Continue(a)
  PROVE  /\ apply' \in ApplyType /\ Begins /\ apply'.target = a.target
         /\ apply'.verified = a.verified /\ apply'.complete = a.complete
         /\ \/ /\ apply'.stage = "write"
               /\ \E n \in names :
                    /\ apply'.step = n /\ cmd' = Wanted(a.target, n)
                    /\ WritesFor(apply'.pending, a.target, names \ {n})
            \/ apply'.stage = "after"
<1>1. a.pending \in Seq(Commands) /\ a.target \in Settings
  BY DEF ApplyType
<1>2. CASE a.pending # <<>>
  <2>1. PICK n \in names : /\ Head(a.pending) = Wanted(a.target, n)
                           /\ WritesFor(Tail(a.pending), a.target, names \ {n})
    BY <1>1, <1>2, TailWrites
  <2>2. n \in Fields /\ Head(a.pending).name = n /\ Head(a.pending) \in Commands
    BY <1>1, <2>1, WantedSays
  <2>3. /\ apply' = [a EXCEPT !.stage = "write", !.step = Head(a.pending).name,
                              !.pending = Tail(a.pending)]
        /\ Begin(Head(a.pending))
    BY <1>2 DEF Continue
  <2>4. Tail(a.pending) \in Seq(Commands)
    BY <1>1, <1>2
  <2>5. cmd' = Head(a.pending) /\ Begins
    BY <2>2, <2>3 DEF Begin, Begins
  <2>6. /\ apply' \in ApplyType /\ apply'.stage = "write" /\ apply'.step = n
        /\ apply'.pending = Tail(a.pending) /\ apply'.target = a.target
        /\ apply'.verified = a.verified /\ apply'.complete = a.complete
    BY <2>2, <2>3, <2>4 DEF ApplyType
  <2>7. QED BY <2>1, <2>5, <2>6
<1>3. CASE a.pending = <<>>
  <2>1. apply' = [a EXCEPT !.stage = "after"] /\ Begin(Inspect)
    BY <1>3 DEF Continue
  <2>2. /\ apply' \in ApplyType /\ apply'.stage = "after" /\ apply'.target = a.target
        /\ apply'.verified = a.verified /\ apply'.complete = a.complete
    BY <2>1 DEF ApplyType
  <2>3. Begins
    BY <2>1 DEF Begins
  <2>4. QED BY <2>2, <2>3
<1>4. QED BY <1>2, <1>3

\* What is left of a submission that failed or was taken back.
LEMMA FailsSays ==
  ASSUME apply \in ApplyType, Fails
  PROVE  /\ apply' \in ApplyType /\ apply'.target = apply.target /\ apply'.stage = apply.stage
         /\ apply'.verified = apply.verified /\ apply'.complete = apply.complete
         /\ apply'.step = apply.step /\ apply'.pending = <<>>
<1>1. <<>> \in Seq(Commands)
  OBVIOUS
<1>2. QED BY <1>1 DEF Fails, ApplyType

\* The kinds of steps of a submission: another operation begins ahead of the
\* writes or behind them, ...
BeginsOutside ==
  /\ Begins /\ apply' \in ApplyType /\ ~apply'.complete
  /\ apply'.stage \in {"none", "before", "after"}
  /\ apply'.stage = "before" => apply'.verified = {}
\* ... a write begins, the one before it, if there is one, being verified, ...
BeginsWrite ==
  /\ Begins /\ apply' \in ApplyType /\ ~apply'.complete /\ apply'.stage = "write"
  /\ apply'.step \in Fields \ apply'.verified /\ cmd' = Wanted(apply'.target, apply'.step)
  /\ WritesFor(apply'.pending, apply'.target, Fields \ (apply'.verified \cup {apply'.step}))
  /\ \/ apply'.verified = {}
     \/ /\ apply.stage = "write" /\ op.outcome = "Succeeded" /\ apply'.target = apply.target
        /\ apply'.verified = apply.verified \cup {apply.step}
\* ... it is complete, ...
Meets(s) ==
  /\ desc.valid /\ desc.values.rate = s.rate /\ desc.values.output = s.format
  /\ desc.values.algorithm = s.algorithm
Done ==
  /\ UNCHANGED vars /\ phase = "idle" /\ apply' \in ApplyType /\ apply'.stage = "done"
  /\ Meets(apply'.target)
\* ... or given up.
GivenUp == Plain /\ apply \in ApplyType /\ Fails

LEMMA ObservedSays ==
  ASSUME NEW s \in Settings, Observed(desc) = {s}
  PROVE  Meets(s)
<1>1. desc.valid
  BY DEF Observed
<1>2. s = [rate |-> desc.values.rate, format |-> desc.values.output,
           algorithm |-> desc.values.algorithm]
  BY DEF Observed
<1>3. QED BY <1>1, <1>2 DEF Meets

LEMMA NoApplyIs ==
  NoApply \in ApplyType /\ NoApply.stage = "none" /\ ~NoApply.complete /\ NoApply.verified = {}
<1>1. [rate |-> 20, format |-> "motion", algorithm |-> "nine"] \in Settings
  BY DEF Settings, Rates, Supported, Algorithms
<1>2. <<>> \in Seq(Commands)
  OBVIOUS
<1>3. QED BY <1>1, <1>2 DEF NoApply, ApplyType

LEMMA AdvancesSays ==
  ASSUME Advancing, Advances
  PROVE  BeginsOutside \/ BeginsWrite \/ Done \/ GivenUp
<1>1. /\ apply \in ApplyType /\ apply.stage \in {"before", "write", "after"} /\ phase = "idle"
      /\ ~apply.complete
  BY DEF Advances, Applying, Advancing
<1>2. apply.target \in Settings /\ apply.expected \in Settings
  BY <1>1 DEF ApplyType
<1>3. UNCHANGED vars /\ Fails => GivenUp
  BY <1>1 DEF GivenUp, Plain
<1>4. ASSUME NEW a \in ApplyType, Completes(a), Meets(a.target)
      PROVE  Done
  <2>1. /\ apply' = [a EXCEPT !.stage = "done", !.complete = TRUE] /\ UNCHANGED vars
    BY <1>4 DEF Completes
  <2>2. apply' \in ApplyType /\ apply'.stage = "done" /\ apply'.target = a.target
    BY <2>1 DEF ApplyType
  <2>3. QED BY <1>1, <1>4, <2>1, <2>2 DEF Done
<1>5. CASE apply.stage = "before"
  <2> DEFINE a == [apply EXCEPT !.pending = Writes(apply.target, apply.expected)]
  <2>1. /\ Writes(apply.target, apply.expected) \in Seq(Commands)
        /\ WritesFor(Writes(apply.target, apply.expected), apply.target, Fields)
        /\ Writes(apply.target, apply.expected) = <<>> =>
             /\ apply.target.rate = apply.expected.rate
             /\ apply.target.format = apply.expected.format
             /\ apply.target.algorithm = apply.expected.algorithm
    BY <1>2, WritesSay
  <2>2. /\ a \in ApplyType /\ a.pending = Writes(apply.target, apply.expected)
        /\ a.target = apply.target /\ a.verified = apply.verified /\ a.complete = apply.complete
    BY <1>1, <2>1 DEF ApplyType
  <2>3. \/ /\ Observed(desc) = {apply.expected}
           /\ (a.pending = <<>> /\ Completes(a)) \/ Continue(a)
        \/ Fails /\ UNCHANGED vars
    BY <1>5 DEF Advances
  <2> HIDE DEF a
  <2>4. apply.verified = {}
    BY <1>5 DEF Advancing
  <2>5. CASE Observed(desc) = {apply.expected} /\ a.pending = <<>> /\ Completes(a)
    <3>1. Meets(apply.expected)
      BY <1>2, <2>5, ObservedSays
    <3>2. Meets(a.target)
      BY <2>1, <2>2, <2>5, <3>1 DEF Meets
    <3>3. QED BY <1>4, <2>2, <2>5, <3>2
  <2>6. CASE Continue(a)
    <3>1. WritesFor(a.pending, a.target, Fields)
      BY <2>1, <2>2
    <3>2. /\ apply' \in ApplyType /\ Begins /\ apply'.target = a.target
          /\ apply'.verified = a.verified /\ apply'.complete = a.complete
          /\ \/ /\ apply'.stage = "write"
                /\ \E n \in Fields :
                     /\ apply'.step = n /\ cmd' = Wanted(a.target, n)
                     /\ WritesFor(apply'.pending, a.target, Fields \ {n})
             \/ apply'.stage = "after"
      BY <2>2, <2>6, <3>1, ContinueSays
    <3>3. CASE apply'.stage = "after"
      BY <1>1, <2>2, <3>2, <3>3 DEF BeginsOutside
    <3>4. CASE apply'.stage = "write"
      <4>1. apply'.verified = {} /\ Fields \ (apply'.verified \cup {apply'.step}) = Fields \ {apply'.step}
        BY <2>2, <2>4, <3>2
      <4>2. BeginsWrite
        BY <1>1, <2>2, <3>2, <3>4, <4>1 DEF BeginsWrite
      <4>3. QED BY <4>2
    <3>5. QED BY <3>2, <3>3, <3>4
  <2>7. QED BY <1>3, <2>3, <2>5, <2>6
<1>6. CASE apply.stage = "write"
  <2> DEFINE a == [apply EXCEPT !.verified = @ \cup {apply.step}]
             names == Fields \ (apply.verified \cup {apply.step})
  <2>1. apply.step \in Fields /\ WritesFor(apply.pending, apply.target, names)
    BY <1>6 DEF Advancing
  <2>2. /\ a \in ApplyType /\ a.pending = apply.pending /\ a.target = apply.target
        /\ a.verified = apply.verified \cup {apply.step} /\ a.complete = apply.complete
    BY <1>1, <2>1 DEF ApplyType
  <2>3. (op.outcome = "Succeeded" /\ Continue(a)) \/ (Fails /\ UNCHANGED vars)
    BY <1>6 DEF Advances
  <2> HIDE DEF a
  <2>4. CASE op.outcome = "Succeeded" /\ Continue(a)
    <3>1. WritesFor(a.pending, a.target, names) /\ names \in SUBSET Fields
      BY <2>1, <2>2
    <3> HIDE DEF names
    <3>2. /\ apply' \in ApplyType /\ Begins /\ apply'.target = a.target
          /\ apply'.verified = a.verified /\ apply'.complete = a.complete
          /\ \/ /\ apply'.stage = "write"
                /\ \E n \in names :
                     /\ apply'.step = n /\ cmd' = Wanted(a.target, n)
                     /\ WritesFor(apply'.pending, a.target, names \ {n})
             \/ apply'.stage = "after"
      BY <2>2, <2>4, <3>1, ContinueSays
    <3>3. CASE apply'.stage = "after"
      BY <1>1, <2>2, <3>2, <3>3 DEF BeginsOutside
    <3>4. CASE apply'.stage = "write"
      <4>1. names \ {apply'.step} = Fields \ (apply'.verified \cup {apply'.step})
        BY <2>2, <3>2 DEF names
      <4>2. apply'.step \in Fields \ apply'.verified
        BY <2>2, <3>2, <3>4 DEF names
      <4>3. /\ cmd' = Wanted(apply'.target, apply'.step)
            /\ WritesFor(apply'.pending, apply'.target, Fields \ (apply'.verified \cup {apply'.step}))
        BY <3>2, <3>4, <4>1
      <4>4. BeginsWrite
        BY <1>1, <1>6, <2>2, <2>4, <3>2, <3>4, <4>2, <4>3 DEF BeginsWrite
      <4>5. QED BY <4>4
    <3>5. QED BY <3>2, <3>3, <3>4
  <2>5. QED BY <1>3, <2>3, <2>4
<1>7. CASE apply.stage = "after"
  <2>1. (Observed(desc) = {apply.target} /\ Completes(apply)) \/ (Fails /\ UNCHANGED vars)
    BY <1>7 DEF Advances
  <2>2. CASE Observed(desc) = {apply.target} /\ Completes(apply)
    BY <1>1, <1>2, <1>4, <2>2, ObservedSays
  <2>3. QED BY <1>3, <2>1, <2>2
<1>8. QED BY <1>1, <1>5, <1>6, <1>7

LEMMA ApplyStepsSay ==
  ASSUME SubmissionsAssumption, Advancing, [ApplyNext]_applyVars
  PROVE  BeginsOutside \/ BeginsWrite \/ Done \/ GivenUp \/ (Plain /\ apply' = apply)
<1>1. apply \in ApplyType
  BY DEF Advancing
<1>2. CASE Direct
  <2>1. Begins /\ apply' = NoApply
    BY <1>2 DEF Direct, Begins
  <2>2. QED BY <2>1, NoApplyIs DEF BeginsOutside
<1>3. ASSUME NEW s \in Submissions, Submit(s) PROVE BeginsOutside
  <2>1. s[1] \in Settings /\ s[2] \in Settings
    BY DEF SubmissionsAssumption
  <2>2. /\ Begin(Inspect)
        /\ apply' = [NoApply EXCEPT !.stage = "before", !.expected = s[1], !.target = s[2]]
    BY <1>3 DEF Submit
  <2>3. /\ apply' \in ApplyType /\ apply'.stage = "before" /\ apply'.verified = {}
        /\ ~apply'.complete
    <3> DEFINE n == NoApply
    <3>1. n \in ApplyType /\ n.verified = {} /\ ~n.complete
      BY NoApplyIs
    <3> HIDE DEF n
    <3>2. apply' = [n EXCEPT !.stage = "before", !.expected = s[1], !.target = s[2]]
      BY <2>2 DEF n
    <3>3. QED BY <2>1, <3>1, <3>2 DEF ApplyType
  <2>4. QED BY <2>2, <2>3 DEF BeginsOutside, Begins
<1>4. CASE Gives
  BY <1>1, <1>4 DEF Gives, GivenUp, Plain
<1>5. CASE Stop
  BY <1>1, <1>5 DEF Stop, GivenUp, Plain
<1>6. CASE (Work \/ StepFails \/ Repeats \/ Environment) /\ UNCHANGED apply
  BY <1>6 DEF Plain
<1>7. CASE UNCHANGED applyVars
  BY <1>7 DEF Plain, applyVars
<1>8. QED BY <1>2, <1>3, <1>4, <1>5, <1>6, <1>7, AdvancesSays DEF ApplyNext

LEMMA PlainOrBegins ==
  ASSUME SubmissionsAssumption, Shape, Rest, Announces, Advancing, [ApplyNext]_applyVars
  PROVE  DeviceStep
<1>1. Plain => DeviceStep
  BY PlainSays
<1>2. Begins => DeviceStep
  BY DEF Begins, DeviceStep
<1>3. UNCHANGED vars => DeviceStep
  BY DEF DeviceStep
<1>4. QED
  BY <1>1, <1>2, <1>3, ApplyStepsSay DEF BeginsOutside, BeginsWrite, Done, GivenUp

LEMMA AdvancingStep ==
  ASSUME SubmissionsAssumption, Shape, Rest, Announces, Advancing, [ApplyNext]_applyVars
  PROVE  Advancing'
<1>1. CASE BeginsOutside
  BY <1>1 DEF BeginsOutside, Advancing
<1>2. CASE BeginsWrite
  BY <1>2 DEF BeginsWrite, Advancing
<1>3. CASE Done
  BY <1>3 DEF Done, Advancing, vars, task
<1>4. CASE GivenUp
  <2>1. /\ apply' \in ApplyType /\ apply'.target = apply.target /\ apply'.stage = apply.stage
        /\ apply'.verified = apply.verified /\ apply'.complete = apply.complete
        /\ apply'.step = apply.step /\ apply'.pending = <<>>
    BY <1>4, FailsSays DEF GivenUp
  <2>2. cmd' = cmd /\ (phase = "idle" => phase' = "idle")
    BY <1>4, PlainSays DEF GivenUp
  <2>3. \A target, names : WritesFor(<<>>, target, names)
    BY DEF WritesFor
  <2>4. QED BY <2>1, <2>2, <2>3 DEF Advancing
<1>5. CASE Plain /\ apply' = apply
  <2>1. cmd' = cmd /\ (phase = "idle" => phase' = "idle")
    BY <1>5, PlainSays
  <2>2. QED BY <1>5, <2>1 DEF Advancing
<1>6. QED BY <1>1, <1>2, <1>3, <1>4, <1>5, ApplyStepsSay

LEMMA HoldsStays ==
  ASSUME Same(regs', regs), apply'.target = apply.target, NEW name \in Fields, Holds(name)
  PROVE  Holds(name)'
  BY DEF Same, Holds, Fields

\* While a submission writes, the device changes only in the field the write
\* is for; once it is complete, in none.
LEMMA HoldsPlainly ==
  ASSUME Shape, Rest, Announces, Looked, Advancing, AppliedIsTrue, Plain, ~aged',
         apply'.target = apply.target, apply'.verified = apply.verified,
         apply'.stage = apply.stage, apply'.complete = apply.complete
  PROVE  /\ apply'.complete => \A name \in Fields : Holds(name)'
         /\ apply'.stage = "write" => \A name \in apply'.verified : Holds(name)'
<1>1. /\ DeviceStep /\ cmd' = cmd
      /\ ~aged \/ (phase = "opening" /\ cmd = Inspect)
  BY PlainSays
<1>2. ~PowerCycle
  BY DEF PowerCycle
<1>3. apply \in ApplyType
  BY DEF Advancing
<1>4. ASSUME apply.complete, NEW name \in Fields PROVE Holds(name)'
  <2>1. phase = "idle"
    BY <1>4 DEF Advancing
  <2>2. Holds(name)
    BY <1>1, <1>4, <2>1 DEF AppliedIsTrue, Fields
  <2>3. ~Takes
    BY <2>1, TakesSays DEF Live
  <2>4. Same(regs', regs)
    BY <1>1, <1>2, <2>3, RegsKept DEF Same
  <2>5. QED BY <2>2, <2>4, HoldsStays
<1>5. ASSUME apply.stage = "write", NEW name \in apply.verified PROVE Holds(name)'
  <2>1. /\ apply.step \in Fields \ apply.verified /\ cmd = Wanted(apply.target, apply.step)
        /\ name \in Fields /\ apply.target \in Settings
    BY <1>3, <1>5 DEF Advancing, ApplyType
  <2>2. cmd # Inspect /\ cmd.name = apply.step /\ name # apply.step
    BY <1>5, <2>1, WantedSays
  <2>3. Holds(name)
    BY <1>1, <1>5, <2>2 DEF AppliedIsTrue
  <2>4. CASE Same(regs', regs)
    BY <2>1, <2>3, <2>4, HoldsStays
  <2>5. CASE Wrote
    <3>1. cmd.name \in Fields /\ Only(regs, regs', cmd.name)
      BY <2>1, <2>2, <2>5, WroteSays DEF Fields
    <3>2. QED BY <2>1, <2>2, <2>3, <3>1 DEF Only, Holds, Fields
  <2>6. QED BY <1>1, <1>2, <2>4, <2>5, RegsKept DEF Same
<1>6. QED BY <1>4, <1>5

LEMMA AppliedStep ==
  ASSUME SubmissionsAssumption, DeviceInv, Advancing, AppliedIsTrue, [ApplyNext]_applyVars
  PROVE  AppliedIsTrue'
<1>1. Shape /\ Rest /\ Announces /\ Looked /\ Achieved /\ Describes
  BY DEF DeviceInv
<1>2. SUFFICES ASSUME ~aged'
               PROVE  /\ apply'.complete => \A name \in Fields : Holds(name)'
                      /\ apply'.stage = "write" => \A name \in apply'.verified : Holds(name)'
  BY DEF AppliedIsTrue, Fields
<1>3. CASE BeginsOutside
  BY <1>3 DEF BeginsOutside
<1>4. CASE BeginsWrite
  <2>1. ~apply'.complete /\ UNCHANGED <<regs, aged>>
    BY <1>1, <1>4, BeginsSay DEF BeginsWrite
  <2>2. CASE apply'.verified = {}
    BY <2>1, <2>2
  <2>3. CASE /\ apply.stage = "write" /\ op.outcome = "Succeeded" /\ apply'.target = apply.target
             /\ apply'.verified = apply.verified \cup {apply.step}
    <3>1. /\ apply.step \in Fields /\ cmd = Wanted(apply.target, apply.step)
          /\ apply.target \in Settings /\ apply.verified \subseteq Fields
      BY <2>3 DEF Advancing, ApplyType
    <3>2. cmd.name = apply.step /\ cmd.reg = apply.step /\ cmd # Inspect
      BY <3>1, WantedSays
    <3>3. regs[cmd.reg] = cmd.val
      BY <1>1, <2>3, <3>1, <3>2 DEF Achieved, Fields
    <3>4. Holds(apply.step)
      <4>1. regs["rate"] = regs.rate /\ regs["output"] = regs.output
            /\ regs["algorithm"] = regs.algorithm
        BY <1>1, FieldIs DEF Shape
      <4>2. /\ apply.step = "rate" => cmd.val = apply.target.rate
            /\ apply.step = "output" => cmd.val = apply.target.format
            /\ apply.step = "algorithm" => cmd.val = apply.target.algorithm
        BY <3>1, WantedSays DEF Command
      <4>3. QED BY <3>1, <3>2, <3>3, <4>1, <4>2 DEF Holds, Fields
    <3>5. \A name \in apply.verified : Holds(name)
      BY <1>2, <2>1, <2>3 DEF AppliedIsTrue
    <3>6. Same(regs', regs)
      BY <2>1 DEF Same
    <3>7. \A name \in apply'.verified : Holds(name)'
      BY <2>3, <3>1, <3>4, <3>5, <3>6, HoldsStays
    <3>8. QED BY <2>1, <3>7
  <2>4. QED BY <1>4, <2>2, <2>3 DEF BeginsWrite
<1>5. CASE Done
  <2>1. UNCHANGED <<regs, aged>> /\ apply'.stage = "done" /\ Meets(apply'.target)
    BY <1>5 DEF Done, vars, device
  <2>2. Same(desc.values, regs)
    BY <1>1, <1>2, <2>1 DEF Describes, Meets
  <2>3. /\ regs'.rate = apply'.target.rate /\ regs'.output = apply'.target.format
        /\ regs'.algorithm = apply'.target.algorithm
    BY <2>1, <2>2 DEF Same, Meets
  <2>4. QED BY <2>1, <2>3 DEF Holds, Fields
<1>6. CASE GivenUp
  <2>1. /\ apply'.target = apply.target /\ apply'.stage = apply.stage
        /\ apply'.verified = apply.verified /\ apply'.complete = apply.complete
    BY <1>6, FailsSays DEF GivenUp
  <2>2. QED BY <1>1, <1>2, <1>6, <2>1, HoldsPlainly DEF GivenUp
<1>7. CASE Plain /\ apply' = apply
  BY <1>1, <1>2, <1>7, HoldsPlainly
<1>8. QED BY <1>3, <1>4, <1>5, <1>6, <1>7, ApplyStepsSay

-----------------------------------------------------------------------------
(***************************************************************************)
(* The theorems of the submissions and of the commands between them.       *)
(***************************************************************************)

LEMMA ApplyInvInit ==
  ASSUME DeviceAssumption, ApplyInit
  PROVE  ApplyInv
<1>1. Init /\ apply = NoApply
  BY DEF ApplyInit
<1>2. DeviceInv
  BY <1>1, DeviceInit
<1>3. Advancing /\ AppliedIsTrue
  BY <1>1, NoApplyIs DEF Advancing, AppliedIsTrue
<1>4. QED BY <1>2, <1>3 DEF ApplyInv

LEMMA ApplyInvStep ==
  ASSUME DeviceAssumption, SubmissionsAssumption, ApplyInv, [ApplyNext]_applyVars
  PROVE  ApplyInv'
<1>1. DeviceInv /\ Advancing /\ AppliedIsTrue /\ Shape /\ Rest /\ Announces
  BY DEF ApplyInv, DeviceInv
<1>2. DeviceStep
  BY <1>1, PlainOrBegins
<1>3. DeviceInv'
  BY <1>1, <1>2, DeviceInvStep
<1>4. Advancing'
  BY <1>1, AdvancingStep
<1>5. AppliedIsTrue'
  BY <1>1, AppliedStep
<1>6. QED BY <1>3, <1>4, <1>5 DEF ApplyInv

LEMMA ApplyInvAlways == ApplySpec => []ApplyInv
<1>1. ApplyInit => ApplyInv
  BY DeviceAssumption, ApplyInvInit
<1>2. ApplyInv /\ [ApplyNext]_applyVars => ApplyInv'
  BY DeviceAssumption, SubmissionsAssumption, ApplyInvStep
<1>3. QED BY <1>1, <1>2, PTL DEF ApplySpec

LEMMA ApplyInvGives ==
  ASSUME ApplyInv
  PROVE  /\ TypeOK /\ OperationIsHonest /\ FullFrameKeepsRate /\ ValidIsCurrent
         /\ ReferenceCountedOnce /\ AppliedIsTrue
  BY DeviceInvGives DEF ApplyInv

\* Whatever has reached the device was announced before, and an operation that
\* succeeded is what the device is set to (execute in device.rs, called by
\* control_connection in controller.rs), under a submission as under commands of
\* their own, with any order of failures, cancellations, repeats and losses.
THEOREM OperationsAreHonest == ApplySpec => []OperationIsHonest
  BY ApplyInvAlways, ApplyInvGives, PTL

\* No order of commands, submissions, failures, cancellations and switchings
\* off leaves the device with full frames at another rate than 20 Hz (the
\* checks of execute in device.rs before a rate or an output is written).
THEOREM FullFrameKeptAt20Hz == ApplySpec => []FullFrameKeepsRate
  BY ApplyInvAlways, ApplyInvGives, PTL

\* A description that is called valid is the device's, unless it was switched
\* off since (inspect_start and control_connection in controller.rs forget it
\* before an inspection and every write, inspect in device.rs makes it anew).
THEOREM DescriptionsAreCurrent == ApplySpec => []ValidIsCurrent
  BY ApplyInvAlways, ApplyInvGives, PTL

\* Settings a submission reports as applied are the device's, and those it has
\* verified still hold while it writes the others (Apply::advance, with writes
\* and observed, in configuration.rs).
THEOREM AppliedSettingsHold == ApplySpec => []AppliedIsTrue
  BY ApplyInvAlways, ApplyInvGives, PTL

\* An operation that may have moved the reference is counted before its write
\* reaches the device, and once (invalidate_reference in controller.rs).
THEOREM ReferencesAreCountedOnce == ApplySpec => []ReferenceCountedOnce
  BY ApplyInvAlways, ApplyInvGives, PTL

\* The same of the device worker alone, without a client that applies settings.
THEOREM CommandsAreHonest ==
  Spec => [](OperationIsHonest /\ FullFrameKeepsRate /\ ValidIsCurrent /\ ReferenceCountedOnce)
<1>1. Init => DeviceInv
  BY DeviceAssumption, DeviceInit
<1>2. DeviceInv /\ [Next]_vars => DeviceInv'
  BY DeviceAssumption, DeviceInvStep, NextIsDeviceStep
<1>3. DeviceInv => OperationIsHonest /\ FullFrameKeepsRate /\ ValidIsCurrent /\ ReferenceCountedOnce
  BY DeviceInvGives
<1>4. QED BY <1>1, <1>2, <1>3, PTL DEF Spec

=============================================================================
