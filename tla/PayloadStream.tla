--------------------------- MODULE PayloadStream ---------------------------
(***************************************************************************)
(* One direction of an established session: the write half of one          *)
(* PayloadStream, the byte stream beneath it, and the read half of the     *)
(* other (src/src/transport.rs over AsyncFrameReader of src/src/hdlc.rs,   *)
(* PacketSign and PacketVerify of src/src/lib.rs).                         *)
(*                                                                         *)
(* The i-th byte the application writes is the number i, and a payload is  *)
(* an interval of them.  An octet on the wire is a flag, noise, or the     *)
(* i-th octet of the k-th payload signed: what cannot be forged is never   *)
(* on the wire, and a frame decodes when its octets are those of one       *)
(* payload, all of them and in order (FCS and signature catch the rest).   *)
(* A step of the writer is one poll of its stream, a step of the reader    *)
(* one octet: between any two the other half, the radio or the clock may   *)
(* act, and a read that is cancelled is simply not followed by the next.   *)
(***************************************************************************)
EXTENDS Integers, Sequences

CONSTANTS
  MaxBytes,    \* bound: bytes the application writes
  MaxWrite,    \* bound: bytes in one write
  MaxRead,     \* bound: bytes one read has room for
  MaxPackets,  \* bound: payloads signed, keepalives included
  MaxEscapes,  \* bound: octets of one frame that are escaped
  MaxFaults,   \* bound: how often the radio misbehaves
  Overhead,    \* octets of a frame besides its flags and data
  Capacity,    \* octets the byte stream holds
  MaxFrame,    \* MAX_FRAME_SIZE
  MaxIdle      \* MAX_CONNECTION_IDLE, in ticks of the clock

ASSUME BoundAssumption ==
  /\ MaxBytes \in Nat /\ MaxWrite \in Nat /\ MaxRead \in Nat
  /\ MaxPackets \in Nat /\ MaxEscapes \in Nat /\ MaxFaults \in Nat

ASSUME SizeAssumption ==
  /\ Overhead \in Nat \ {0} /\ Capacity \in Nat \ {0}
  /\ MaxFrame \in Nat \ {0} /\ MaxIdle \in Nat

VARIABLES
  sender,         \* what the application did with the write half
  signed,         \* every payload signed so far
  writeBuf,       \* write_buffer[write_offset..]
  wire,           \* octets on their way
  inFrame, frame, \* the AsyncFrameReader
  verifyCounter,  \* counter of the payload expected next
  idle,           \* clock ticks since last_success
  unread,         \* read_buffer[read_offset..], an interval of bytes
  delivered,      \* the bytes the application has read
  reader,         \* what the application knows of the read half
  readErr,        \* the last error a read returned
  faults          \* how often the radio has misbehaved

writerVars == <<sender, signed, writeBuf>>
frameVars  == <<inFrame, frame>>
verifyVars == <<verifyCounter, idle>>
dataVars   == <<unread, delivered>>
endVars    == <<reader, readErr>>
vars == <<writerVars, wire, frameVars, verifyVars, dataVars, endVars, faults>>

Empty == [from |-> 0, to |-> 0]

Init ==
  /\ sender = "open" /\ signed = <<>> /\ writeBuf = <<>>
  /\ wire = <<>>
  /\ inFrame = FALSE /\ frame = <<>>
  /\ verifyCounter = 0 /\ idle = 0
  /\ unread = Empty /\ delivered = <<>>
  /\ reader = "open" /\ readErr = "none"
  /\ faults = 0

-----------------------------------------------------------------------------
(* Payloads and frames.                                                    *)

Flag  == <<0, 0>>
Noise == <<0, 1>>

LastOf(k) == IF k = 0 THEN 0 ELSE signed[k].to

Written == LastOf(Len(signed))

(* The counter is signed with the data but not sent.                       *)
SignCounter == Len(signed)

Payload(n, escapes) == [counter |-> SignCounter,
                        from    |-> Written,
                        to      |-> Written + n,
                        octets  |-> Overhead + n + escapes]

Frame(k, octets) == <<Flag>> \o [i \in 1..octets |-> <<k, i>>] \o <<Flag>>

Carries(f, k) == f = Frame(k, signed[k].octets)

-----------------------------------------------------------------------------
(* The write half.                                                         *)

NeverBusy == TRUE

Drained == writeBuf = <<>>

(* poll_write and keepalive drain what is queued, then sign and queue one  *)
(* more frame, of any size; it stays queued until the next call.           *)
Queue(n, escapes) ==
  /\ sender = "open"
  /\ Drained
  /\ Len(signed) < MaxPackets
  /\ Written + n <= MaxBytes
  /\ signed' = Append(signed, Payload(n, escapes))
  /\ writeBuf' = Frame(Len(signed) + 1, Overhead + n + escapes)
  /\ UNCHANGED <<sender, wire, frameVars, verifyVars, dataVars, endVars, faults>>

Write == \E n \in 1..MaxWrite, escapes \in 0..MaxEscapes : Queue(n, escapes)

Keepalive == \E escapes \in 0..MaxEscapes : Queue(0, escapes)

(* One poll_write of the stream beneath takes as much as it has room for,  *)
(* or less; any call on the write half comes here first.                   *)
Drain ==
  /\ sender = "open"
  /\ \E n \in 1..Len(writeBuf) :
       /\ Len(wire) + n <= Capacity
       /\ wire' = wire \o SubSeq(writeBuf, 1, n)
       /\ writeBuf' = SubSeq(writeBuf, n + 1, Len(writeBuf))
  /\ UNCHANGED <<sender, signed, frameVars, verifyVars, dataVars, endVars, faults>>

(* The peer is gone: the write fails and the application gives up.         *)
DrainFails ==
  /\ sender = "open"
  /\ reader = "gone"
  /\ ~Drained
  /\ sender' = "failed"
  /\ UNCHANGED <<signed, writeBuf, wire, frameVars, verifyVars, dataVars, endVars,
                 faults>>

AtOnce == TRUE

MayShutdown == Drained

Shutdown ==
  /\ sender = "open"
  /\ MayShutdown
  /\ sender' = "shut"
  /\ UNCHANGED <<signed, writeBuf, wire, frameVars, verifyVars, dataVars, endVars,
                 faults>>

(* The application drops the stream, with whatever was still queued.       *)
Drop ==
  /\ sender = "open"
  /\ sender' = "dropped"
  /\ writeBuf' = <<>>
  /\ UNCHANGED <<signed, wire, frameVars, verifyVars, dataVars, endVars, faults>>

-----------------------------------------------------------------------------
(* The read half.                                                          *)

(* A read goes to the wire only when the last payload is used up.          *)
Reading == reader = "open" /\ unread.from = unread.to

Octet == Head(wire)

Skip ==
  /\ Reading
  /\ wire # <<>>
  /\ ~inFrame
  /\ Octet # Flag
  /\ wire' = Tail(wire)
  /\ UNCHANGED <<writerVars, frameVars, verifyVars, dataVars, endVars, faults>>

OpenFrame ==
  /\ Reading
  /\ wire # <<>>
  /\ ~inFrame
  /\ Octet = Flag
  /\ inFrame' = TRUE
  /\ frame' = <<Flag>>
  /\ wire' = Tail(wire)
  /\ UNCHANGED <<writerVars, verifyVars, dataVars, endVars, faults>>

FitsOneMore == Len(frame) <= MaxFrame

Fits == Len(frame) < MaxFrame

Collect ==
  /\ Reading
  /\ wire # <<>>
  /\ inFrame
  /\ Fits
  /\ Octet # Flag
  /\ frame' = Append(frame, Octet)
  /\ wire' = Tail(wire)
  /\ UNCHANGED <<writerVars, inFrame, verifyVars, dataVars, endVars, faults>>

(* push_frame_byte fails; the frame is kept, and so is in_frame.           *)
RefuseLongFrame ==
  /\ Reading
  /\ wire # <<>>
  /\ inFrame
  /\ ~Fits
  /\ readErr' = "long"
  /\ wire' = Tail(wire)
  /\ UNCHANGED <<writerVars, frameVars, verifyVars, dataVars, reader, faults>>

CloseFrame ==
  /\ Reading
  /\ wire # <<>>
  /\ inFrame
  /\ Fits
  /\ Octet = Flag
  /\ inFrame' = FALSE
  /\ frame' = <<>>
  /\ wire' = Tail(wire)

Fresh == idle <= MaxIdle

AnyCounter(k) == TRUE

CounterMatches(k) == signed[k].counter = verifyCounter

AcceptsIdle(k) == Carries(Append(frame, Flag), k) /\ CounterMatches(k)

(* The closing flag completes the k-th payload signed.                     *)
Accepts(k) == /\ Carries(Append(frame, Flag), k)
              /\ Fresh
              /\ CounterMatches(k)

CountsData(k) ==
  IF signed[k].from = signed[k].to THEN verifyCounter ELSE verifyCounter + 1

CounterAfter(k) == verifyCounter + 1

CopyAndKeep(r, n) ==
  /\ delivered' = delivered \o [i \in 1..n |-> r.from + i]
  /\ unread' = r

(* A read of n bytes from the interval r.                                  *)
Copy(r, n) == /\ delivered' = delivered \o [i \in 1..n |-> r.from + i]
              /\ unread' = [r EXCEPT !.from = @ + n]

CopyableFrom(r) ==
  {n \in 1..MaxRead : n <= r.to - r.from}

(* The frame verifies; data is handed to the waiting read at once, and an  *)
(* empty payload, a keepalive, is passed over.                             *)
AcceptPayload ==
  /\ CloseFrame
  /\ \E k \in 1..Len(signed) :
       /\ Accepts(k)
       /\ verifyCounter' = CounterAfter(k)
       /\ LET r == [from |-> signed[k].from, to |-> signed[k].to]
          IN  IF r.from = r.to THEN UNCHANGED dataVars
              ELSE \E n \in CopyableFrom(r) : Copy(r, n)
  /\ idle' = 0
  /\ UNCHANGED <<writerVars, endVars, faults>>

(* Anything else - a bad FCS, a wrong counter, a session idle for too long *)
(* - is an error of this read; later reads go on with the next octet.      *)
RefuseFrame ==
  /\ CloseFrame
  /\ ~\E k \in 1..Len(signed) : Accepts(k)
  /\ readErr' = "packet"
  /\ UNCHANGED <<writerVars, verifyVars, dataVars, reader, faults>>

(* A read served from the payload in hand.                                 *)
ReadOn ==
  /\ reader = "open"
  /\ \E n \in CopyableFrom(unread) : Copy(unread, n)
  /\ UNCHANGED <<writerVars, wire, frameVars, verifyVars, endVars, faults>>

(* The end of the stream is clean between frames, an error inside one.     *)
ReadEof ==
  /\ Reading
  /\ wire = <<>>
  /\ sender # "open"
  /\ reader' = "eof"
  /\ readErr' = IF inFrame THEN "eof" ELSE readErr
  /\ UNCHANGED <<writerVars, wire, frameVars, verifyVars, dataVars, faults>>

(* The application drops the read half: nobody takes the octets any more,  *)
(* and the writer learns of it sooner or later.                            *)
ReaderDrops ==
  /\ reader = "open"
  /\ reader' = "gone"
  /\ UNCHANGED <<writerVars, wire, frameVars, verifyVars, dataVars, readErr, faults>>

-----------------------------------------------------------------------------
(* The clock and the radio.                                                *)

Tick ==
  /\ reader = "open"
  /\ Fresh
  /\ idle' = idle + 1
  /\ UNCHANGED <<writerVars, wire, frameVars, verifyCounter, dataVars, endVars, faults>>

Fault == /\ faults < MaxFaults
         /\ reader = "open"
         /\ faults' = faults + 1
         /\ UNCHANGED <<writerVars, frameVars, verifyVars, dataVars, endVars>>

Lose == /\ Fault
        /\ wire # <<>>
        /\ wire' = Tail(wire)

Stray == /\ Fault
         /\ \E o \in {Flag, Noise} : wire' = <<o>> \o wire

(* A frame that was once on the air is heard again.                        *)
Replay == /\ Fault
          /\ \E k \in 1..Len(signed) :
               /\ k = Len(signed) => Drained
               /\ wire' = Frame(k, signed[k].octets) \o wire

-----------------------------------------------------------------------------
WriteHalf == Write \/ Keepalive \/ Drain \/ DrainFails \/ Shutdown \/ Drop

Receive == \/ Skip
           \/ OpenFrame
           \/ Collect
           \/ RefuseLongFrame
           \/ AcceptPayload
           \/ RefuseFrame
           \/ ReadOn
           \/ ReadEof

Radio == Lose \/ Stray \/ Replay

Next == WriteHalf \/ Receive \/ ReaderDrops \/ Tick \/ Radio

Spec == Init /\ [][Next]_vars

(* The applications flush what they write and read what has arrived, as    *)
(* the loops of axsh and axshd do; nothing obliges them to write, to end   *)
(* the session, or the clock and the radio to act.                         *)
FairSpec == Spec /\ WF_vars(Drain) /\ WF_vars(Receive)

-----------------------------------------------------------------------------
(* Properties.                                                             *)

PayloadType == [counter : Nat, from : Nat, to : Nat, octets : Nat]

(* Every variable holds a value of its kind; the frame being collected is  *)
(* never longer than MAX_FRAME_SIZE (hdlc.rs:177).                         *)
TypeOK ==
  /\ sender \in {"open", "shut", "dropped", "failed"}
  /\ signed \in Seq(PayloadType)
  /\ writeBuf \in Seq(Nat \X Nat)
  /\ wire \in Seq(Nat \X Nat)
  /\ inFrame \in BOOLEAN
  /\ frame \in Seq(Nat \X Nat)
  /\ Len(frame) <= MaxFrame
  /\ verifyCounter \in Nat
  /\ idle \in 0..(MaxIdle + 1)
  /\ unread \in [from : Nat, to : Nat]
  /\ delivered \in Seq(Nat)
  /\ reader \in {"open", "eof", "gone"}
  /\ readErr \in {"none", "packet", "long", "eof"}
  /\ faults \in 0..MaxFaults

(* Whatever the radio loses, garbles or repeats, the application reads a   *)
(* prefix of what its peer wrote, every byte once and in order (README.md, *)
(* "Replay": the counter prevents replay and reorder).                     *)
InOrder ==
  /\ Len(delivered) <= Written
  /\ \A i \in 1..Len(delivered) : delivered[i] = i

(* A session that was idle for too long is over: no later packet, genuine  *)
(* or heard again, revives it (lib.rs:406).                                *)
IdleIsFinal ==
  [][~Fresh => ~Fresh' /\ UNCHANGED verifyCounter]_vars

Stream == INSTANCE ByteStream WITH sent <- Written, got <- delivered

(* The direction is an ordered byte stream to the two applications.        *)
IsByteStream == Stream!Spec

(* A clean end of file after a shutdown means that all that was written    *)
(* has been read: the queued frame was drained first, and the reader was   *)
(* between frames with nothing in hand (transport.rs:98, hdlc.rs:42).      *)
CleanEofIsComplete ==
  /\ reader = "eof" /\ readErr = "none"
  /\ sender = "shut" /\ faults = 0
  => Len(delivered) = Written

Oversized == \E k \in 1..Len(signed) : signed[k].octets + 2 > MaxFrame

(* Without faults a read fails only for a reason: a frame was refused      *)
(* because the session had been idle, or was too long for the reader, or   *)
(* was cut off when the writer dropped the stream.  In particular the two  *)
(* counters never part and no queued frame is overwritten (transport.rs:79,*)
(* 160).                                                                   *)
ErrorsHaveCause ==
  faults = 0 => CASE readErr = "none" -> TRUE
                  [] readErr = "packet" -> ~Fresh
                  [] readErr = "long" -> Oversized
                  [] readErr = "eof" -> sender = "dropped" \/ Oversized

Disturbed == \/ faults > 0
             \/ ~Fresh
             \/ Oversized
             \/ sender = "dropped"
             \/ reader = "gone"

(* What is written and flushed is read in the end, unless the session is   *)
(* broken off, idle for too long or disturbed.                             *)
WritesArrive ==
  \A n \in 1..MaxBytes : Written >= n ~> Len(delivered) >= n \/ Disturbed
=============================================================================
