-------------------------------- MODULE Hdlc --------------------------------
(***************************************************************************)
(* HDLC framing (encode, decode and the frame readers in src/src/hdlc.rs). *)
(* An octet, and the 16 bits of the frame check sequence, are the set of   *)
(* the bits that are 1, so exclusive or is the symmetric difference.       *)
(***************************************************************************)
EXTENDS Loops, SequencesExt

CONSTANT MaxFrameSize  \* MAX_FRAME_SIZE

ASSUME FrameSizeAssumption == MaxFrameSize \in Nat

Byte == SUBSET (0..7)
Word == SUBSET (0..15)

Xor(a, b) == (a \ b) \cup (b \ a)

FLAG      == 1..6              \* 0x7e
ESCAPE    == (0..6) \ {1}      \* 0x7d
EscapeXor == {5}               \* 0x20
InitialFcs == 0..15            \* 0xffff
FcsPoly    == {15, 10, 3}      \* 0x8408

-----------------------------------------------------------------------------
(* The frame check sequence.                                               *)

ShiftRight(w) == {b - 1 : b \in w \ {0}}

UpdateBit(fcs) == IF 0 \in fcs THEN Xor(ShiftRight(fcs), FcsPoly)
                  ELSE ShiftRight(fcs)

BitStep == [bit \in 1..8 |-> [fcs \in Word |-> UpdateBit(fcs)]]

(* As if the loop stopped a bit short.                                     *)
SevenBits(fcs, octet) == Loop(BitStep, Xor(fcs, octet), <<1, 2, 3, 4, 5, 6, 7>>)

UpdateFcs(fcs, octet) == Loop(BitStep, Xor(fcs, octet), <<1, 2, 3, 4, 5, 6, 7, 8>>)

FcsStep == [octet \in Byte |-> [fcs \in Word |-> UpdateFcs(fcs, octet)]]

Register(octets) == Loop(FcsStep, InitialFcs, octets)

FrameFcs(payload) == (0..15) \ Register(payload)

(* to_le_bytes: the low octet first.                                       *)
LeBytes(fcs) == <<fcs \cap (0..7), {b - 8 : b \in fcs \cap (8..15)}>>

-----------------------------------------------------------------------------
(* encode.                                                                 *)

(* As if only flags had to be escaped.                                     *)
FlagOnly == {FLAG}

Escaped == {FLAG, ESCAPE}

EscapeOne(octet) ==
  IF octet \in Escaped THEN <<ESCAPE, Xor(octet, EscapeXor)>> ELSE <<octet>>

EscapeStep == [octet \in Byte |-> [out \in Seq(Byte) |-> out \o EscapeOne(octet)]]

EscapeInto(octets) == Loop(EscapeStep, <<>>, octets)

EncodeFrame(payload) ==
  <<FLAG>> \o EscapeInto(payload) \o EscapeInto(LeBytes(FrameFcs(payload))) \o <<FLAG>>

-----------------------------------------------------------------------------
(* decode: the set of the one payload a frame has, or of none.             *)

(* One octet of the frame, with an escape or without one before it.        *)
Unescape(s, octet) ==
  IF s.escaped THEN [s EXCEPT !.out = Append(@, Xor(octet, EscapeXor)), !.escaped = FALSE]
  ELSE IF octet = ESCAPE THEN [s EXCEPT !.escaped = TRUE]
  ELSE IF octet = FLAG THEN [s EXCEPT !.flag = TRUE]
  ELSE [s EXCEPT !.out = Append(@, octet)]

Unescaping == [out : Seq(Byte), escaped : BOOLEAN, flag : BOOLEAN]

UnescapeStep == [octet \in Byte |-> [s \in Unescaping |-> Unescape(s, octet)]]

Unescaped(octets) ==
  Loop(UnescapeStep, [out |-> <<>>, escaped |-> FALSE, flag |-> FALSE], octets)

(* As if nobody compared.                                                  *)
AnyFcs(payload, received) == TRUE

FcsMatches(payload, received) == LeBytes(FrameFcs(payload)) = received

DecodeFrame(frame) ==
  IF Len(frame) \notin 4..MaxFrameSize \/ frame[1] # FLAG \/ frame[Len(frame)] # FLAG
  THEN {}
  ELSE LET s == Unescaped(SubSeq(frame, 2, Len(frame) - 1))
           n == Len(s.out) - 2
       IN  IF s.flag \/ s.escaped \/ Len(s.out) < 2 THEN {}
           ELSE IF FcsMatches(SubSeq(s.out, 1, n), SubSeq(s.out, n + 1, n + 2))
                THEN {SubSeq(s.out, 1, n)}
                ELSE {}

(* The frames read_frame makes of a stream of octets, one after another:   *)
(* the flag that ends a frame begins none, and a frame that is too long    *)
(* ends the reading.                                                       *)
Push(r, octet) ==
  IF Len(r.frame) >= MaxFrameSize THEN [r EXCEPT !.failed = TRUE]
  ELSE IF octet = FLAG
  THEN [r EXCEPT !.inFrame = FALSE, !.frame = <<>>,
                 !.frames = Append(@, Append(r.frame, octet))]
  ELSE [r EXCEPT !.frame = Append(@, octet)]

ReadOctet(r, octet) ==
  IF r.failed THEN r
  ELSE IF r.inFrame THEN Push(r, octet)
  ELSE IF octet = FLAG THEN [r EXCEPT !.inFrame = TRUE, !.frame = <<octet>>] ELSE r

Readers == [inFrame : BOOLEAN, failed : BOOLEAN, frame : Seq(Byte), frames : Seq(Seq(Byte))]

ReadStep == [octet \in Byte |-> [r \in Readers |-> ReadOctet(r, octet)]]

FramesOf(stream) ==
  Loop(ReadStep, [inFrame |-> FALSE, failed |-> FALSE, frame |-> <<>>, frames |-> <<>>],
       stream).frames

-----------------------------------------------------------------------------
(* Properties.                                                             *)

(* What the reader makes of two frames, with noise before, between and     *)
(* behind them, is the two, up to the first that is too long, and they     *)
(* decode to what was sent: flags occur nowhere else, whatever payload and *)
(* check sequence hold (hdlc.rs:74-113, 117-149).                          *)
Noise == <<{}, {0}, ESCAPE>>

Fits(frame) == Len(frame) <= MaxFrameSize

Fitting(frames) ==
  IF ~Fits(frames[1]) THEN <<>> ELSE IF ~Fits(frames[2]) THEN <<frames[1]>> ELSE frames

FrameApart(payload) ==
  LET frames == <<EncodeFrame(payload), EncodeFrame(Reverse(payload))>>
  IN  /\ FramesOf(Noise \o frames[1] \o Noise \o frames[2] \o Noise) = Fitting(frames)
      /\ Fits(frames[1]) => DecodeFrame(frames[1]) = {payload}
      /\ Fits(frames[2]) => DecodeFrame(frames[2]) = {Reverse(payload)}

(* The check sequence is that of HDLC (RFC 1662, appendix C): over payload *)
(* and check sequence the register ends at 0xf0b8, so that other stations  *)
(* take the frame for whole (hdlc.rs:188-204).                             *)
GoodFcs == {15, 14, 13, 12, 7, 5, 4, 3}

ResidueGood(payload) ==
  Register(payload \o LeBytes(FrameFcs(payload))) = GoodFcs

(* A frame with one bit turned on the air decodes to nothing, also when    *)
(* that makes or unmakes a flag (hdlc.rs:112).  No check sequence can help *)
(* in two cases.  The turned bit makes a flag, and what comes before it    *)
(* happens to be a whole frame.  Or it makes an escape, or unmakes one: an *)
(* octet is then added or lost, and two differ, which 16 bits may not      *)
(* tell.                                                                   *)
Turned(frame, i, b) == [frame EXCEPT ![i] = Xor(@, {b})]

StartsWithFrameOf(payload, d) ==
  IsPrefix(d \o LeBytes(FrameFcs(d)), payload \o LeBytes(FrameFcs(payload)))

BitTold(payload) ==
  \A i \in 1..Len(EncodeFrame(payload)), b \in 0..7 :
    LET frame  == Turned(EncodeFrame(payload), i, b)
        frames == FramesOf(frame)
    IN  ESCAPE \notin {frame[i], EncodeFrame(payload)[i]} =>
          \A k \in 1..Len(frames) : \A d \in DecodeFrame(frames[k]) :
            StartsWithFrameOf(payload, d) /\ frame[i] = FLAG /\ k = 1
=============================================================================
