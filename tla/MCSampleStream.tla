---------------------------- MODULE MCSampleStream ----------------------------
(***************************************************************************)
(* What comes before the history, checked on all small inputs: the parser  *)
(* against a reading of the whole stream at once, and the sample clock.    *)
(* Header is 0; flag 1 has three bytes and always decodes, flag 2 has five *)
(* and may not; 8 is any other byte and 9 a damaged one.                   *)
(***************************************************************************)
EXTENDS FrameParser, SampleClock, FiniteSets

MCFrameLength == 1 :> 3 @@ 2 :> 5
Longest == 5
Byte == {0, 1, 2, 8, 9}

\* Reference: from position i on, a frame is taken where one is, a position is
\* left where none can be, and the rest is what may still become one.
RECURSIVE Read(_, _)
Read(stream, i) ==
  LET length == Claimed(SubSeq(stream, i, i + 1))
      frame == SubSeq(stream, i, i + length - 1)
  IN  IF i >= Len(stream) \/ i + length - 1 > Len(stream)
        THEN [frames |-> <<>>, rest |-> SubSeq(stream, i, Len(stream))]
      ELSE IF length > 0 /\ Decodes(frame)
        THEN LET later == Read(stream, i + length) IN [later EXCEPT !.frames = <<frame>> \o @]
      ELSE Read(stream, i + 1)

Streams(n) == UNION {[1 .. k -> Byte] : k \in 0 .. n}

\* Pushed byte by byte the parser finds the frames a reader of the whole
\* stream finds, keeps what may still become one, in less than the longest
\* frame, and has counted every other byte.
ASSUME ParserReadsTheStream ==
  \A stream \in Streams(7) :
    LET parser == Parsed(stream) reference == Read(stream, 1) IN
    /\ parser.frames = reference.frames /\ parser.buffer = reference.rest
    /\ Len(parser.buffer) < Longest
    /\ parser.discarded =
         Len(stream) - Len(parser.buffer) - Len(FlattenSeq(parser.frames))
    /\ parser.invalid <= parser.discarded

\* Whole frames whose payload holds no header byte.
Plain(flag, byte) == <<0, flag>> \o [i \in 1 .. MCFrameLength[flag] - 2 |-> byte]
PlainFrames == {Plain(1, 8), Plain(2, 8), Plain(1, 2)}

\* After anything at all the frames that follow are found, from the first one
\* that a frame begun in it cannot reach; after bytes without a header all are.
ASSUME ParserResynchronises ==
  \A noise \in Streams(4) :
    \A frames \in [1 .. 3 -> PlainFrames] :
      LET found == Parsed(noise \o FlattenSeq(frames)).frames
          Before(j) == Len(FlattenSeq(SubSeq(frames, 1, j - 1)))
          sure == {j \in 1 .. 3 : Before(j) >= Longest - 1 \/ 0 \notin ToSet(noise)}
      IN  \A j \in sure :
            /\ Len(found) >= 4 - j
            /\ found[Len(found) - (3 - j)] = frames[j]

-----------------------------------------------------------------------------

\* Times given by two kinds of clock, and how long after the one before each
\* arrived.
Given == [kind : {"DeviceCalendar", "SimulatedElapsed"}, ms : {0, 1, 2, 5}, gap : {0, 1, 3}]

\* What the samples of one connection are given, the duplicates left out.
RECURSIVE Timed(_, _, _)
Timed(clock, ns, given) ==
  IF given = <<>> THEN [clock |-> clock, times |-> <<>>]
  ELSE LET g == Head(given)
           after == Observed(clock, g.kind, g.ms, ns + g.gap)
           later == Timed(after, ns + g.gap, Tail(given))
       IN  IF IsDuplicate(clock, g.kind, g.ms) THEN later
           ELSE [later EXCEPT !.times = <<[time |-> after.previous[1], ns |-> ns + g.gap]>> \o @]

\* Within an epoch the times are of one kind, grow, and run ahead of the host by
\* no more than the tolerance of every step; epochs are numbered without a gap,
\* every one after the first counted; and each sample is let through or counted.
ASSUME EpochsAreCoherent ==
  \A given \in UNION {[1 .. n -> Given] : n \in 0 .. 3} :
    LET end == Timed(NewClock, 0, given) times == end.times IN
    /\ Len(times) + end.clock.duplicates = Len(given)
    /\ \A i \in DOMAIN times :
         times[i].time.epoch \in 1 .. end.clock.discontinuities + 1
    /\ times # <<>> => Last(times).time.epoch = end.clock.discontinuities + 1
    /\ \A i, j \in DOMAIN times : i < j =>
         /\ times[i].time.epoch <= times[j].time.epoch
         /\ times[i].time.epoch = times[j].time.epoch =>
              /\ times[i].time.kind = times[j].time.kind
              /\ times[i].time.ms < times[j].time.ms
              /\ times[j].time.ms - times[i].time.ms <=
                   (times[j].ns - times[i].ns) \div NsPerMs + (j - i) * Tolerance

\* A duplicate leaves no trace: without it, the others are given the same times.
ASSUME DuplicatesLeaveNoTrace ==
  \A given \in UNION {[1 .. n -> Given] : n \in 0 .. 3} :
    LET times == Timed(NewClock, 0, given).times
        kept == [i \in DOMAIN times |->
                   [kind |-> times[i].time.kind, ms |-> times[i].time.ms,
                    gap |-> times[i].ns - (IF i = 1 THEN 0 ELSE times[i - 1].ns)]]
    IN  Timed(NewClock, 0, kept).times = times

=============================================================================
