------------------------------ MODULE FrameParser ------------------------------
(***************************************************************************)
(* protocol.rs, Parser: frames are cut out of a stream of bytes that may   *)
(* begin in the middle of one, be damaged, or hold anything in between.    *)
(* There is no checksum: a header byte, a known flag and, for some frames, *)
(* a payload that decodes are all there is to tell a frame by.             *)
(***************************************************************************)
EXTENDS Integers, Sequences, SequencesExt

CONSTANTS
  Header,       \* 0x55
  FrameLength,  \* of each flag, header and flag included
  Checked,      \* the flags whose payload may not decode: a date or a quaternion in it
  Damaged       \* a payload byte that does not decode

ASSUME FrameAssumption ==
  /\ Header \notin DOMAIN FrameLength /\ Damaged \notin DOMAIN FrameLength \cup {Header}
  /\ Checked \subseteq DOMAIN FrameLength
  /\ \A flag \in DOMAIN FrameLength : FrameLength[flag] \in Nat /\ FrameLength[flag] > 2

\* The length a buffer claims that has at least two bytes; 0 when it claims none.
Claimed(buffer) ==
  IF buffer[1] = Header /\ buffer[2] \in DOMAIN FrameLength THEN FrameLength[buffer[2]] ELSE 0

Decodes(frame) ==
  frame[2] \in Checked => \A i \in 3 .. Len(frame) : frame[i] # Damaged

NewParser == [buffer |-> <<>>, frames |-> <<>>, discarded |-> 0, invalid |-> 0]

Popped(parser) == [parser EXCEPT !.buffer = Tail(@), !.discarded = @ + 1]

\* The loop of push, after each byte.
RECURSIVE Settled(_)
Settled(parser) ==
  LET buffer == parser.buffer
      length == Claimed(buffer)
  IN  IF Len(buffer) < 2 THEN parser
      ELSE IF length = 0 THEN Settled(Popped(parser))
      ELSE IF Len(buffer) < length THEN parser
      ELSE IF Decodes(SubSeq(buffer, 1, length))
        THEN Settled([parser EXCEPT !.buffer = SubSeq(buffer, length + 1, Len(buffer)),
                                    !.frames = Append(@, SubSeq(buffer, 1, length))])
      ELSE Settled([Popped(parser) EXCEPT !.invalid = @ + 1])

Push(parser, byte) == Settled([parser EXCEPT !.buffer = Append(@, byte)])

\* What push has made of a stream, in however many reads it came.
Parsed(stream) == FoldLeft(Push, NewParser, stream)

=============================================================================
