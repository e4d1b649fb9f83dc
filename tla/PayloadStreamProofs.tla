------------------------ MODULE PayloadStreamProofs ------------------------
(***************************************************************************)
(* TypeOK, InOrder and IdleIsFinal hold of PayloadStream, and it           *)
(* implements ByteStream, for every value of its constants.                *)
(*                                                                         *)
(* InOrder alone is not inductive: that the next byte copied is the right  *)
(* one rests on what the counter ties together.  Ledger says the payloads  *)
(* signed are numbered from 0 and cut the written bytes into consecutive   *)
(* intervals; Cursor, that the reader stands at the end of payload number  *)
(* verifyCounter, less what is unread.  A frame that verifies is therefore *)
(* the next interval, whatever the wire holds.                             *)
(***************************************************************************)
EXTENDS PayloadStream, SequenceTheorems, TLAPS

Ledger ==
  /\ \A k \in 1..Len(signed) : /\ signed[k].counter = k - 1
                               /\ signed[k].from = LastOf(k - 1)
                               /\ signed[k].from <= signed[k].to
  /\ \A k \in 0..Len(signed) : LastOf(k) <= Written

Cursor ==
  /\ verifyCounter <= Len(signed)
  /\ unread.to = LastOf(verifyCounter)
  /\ unread.from <= unread.to
  /\ Len(delivered) = unread.from
  /\ \A i \in 1..Len(delivered) : delivered[i] = i

Inv == TypeOK /\ Ledger /\ Cursor

-----------------------------------------------------------------------------
(* Sequences.                                                              *)

(* A frame is a sequence of octets.                                        *)
LEMMA FrameType ==
  ASSUME NEW k \in Nat, NEW n \in Nat
  PROVE  Frame(k, n) \in Seq(Nat \X Nat)
<1>1. [i \in 1..n |-> <<k, i>>] \in Seq(Nat \X Nat)
  OBVIOUS
<1>2. <<Flag>> \in Seq(Nat \X Nat)
  BY DEF Flag
<1> QED
  BY <1>1, <1>2 DEF Frame

(* What is left of a sequence after its head are elements of it.           *)
LEMMA TailType ==
  ASSUME NEW S, NEW s \in Seq(S), s # <<>>
  PROVE  Head(s) \in S /\ Tail(s) \in Seq(S)
  OBVIOUS

(* Reading n bytes on from a prefix keeps it a prefix.                     *)
LEMMA ExtendPrefix ==
  ASSUME NEW d \in Seq(Nat), NEW n \in Nat,
         \A i \in 1..Len(d) : d[i] = i,
         NEW e, e = d \o [i \in 1..n |-> Len(d) + i]
  PROVE  /\ e \in Seq(Nat)
         /\ Len(e) = Len(d) + n
         /\ \A i \in 1..Len(e) : e[i] = i
<1> DEFINE t == [i \in 1..n |-> Len(d) + i]
<1>1. t \in Seq(Nat) /\ Len(t) = n
  OBVIOUS
<1>2. e \in Seq(Nat) /\ Len(e) = Len(d) + n
  BY <1>1
<1>3. ASSUME NEW i \in 1..Len(e)
      PROVE  e[i] = i
  <2>1. CASE i <= Len(d)
    BY <2>1, <1>1, <1>2
  <2>2. CASE i > Len(d)
    <3>1. i - Len(d) \in 1..n
      BY <2>2, <1>2
    <3>2. e[i] = t[i - Len(d)]
      BY <2>2, <1>1, <1>2
    <3> QED
      BY <3>1, <3>2
  <2> QED
    BY <2>1, <2>2
<1> QED
  BY <1>2, <1>3

-----------------------------------------------------------------------------
LEMMA WrittenType ==
  ASSUME TypeOK
  PROVE  /\ Written \in Nat
         /\ \A k \in 0..Len(signed) : LastOf(k) \in Nat
<1>1. Len(signed) \in Nat /\ \A k \in 1..Len(signed) : signed[k] \in PayloadType
  BY DEF TypeOK
<1>2. \A k \in 1..Len(signed) : signed[k].to \in Nat
  BY <1>1 DEF PayloadType
<1>3. ASSUME NEW k \in 0..Len(signed)
      PROVE  LastOf(k) \in Nat
  BY <1>1, <1>2 DEF LastOf
<1> QED
  BY <1>1, <1>3 DEF Written

(* Writing extends the ledger by the next interval.                        *)
LEMMA QueueKeepsInv ==
  ASSUME Inv, NEW n \in Nat, NEW escapes \in Nat, Queue(n, escapes)
  PROVE  Inv' /\ Written' = Written + n
<1> DEFINE p == Payload(n, escapes)
<1>0. TypeOK /\ Ledger /\ Cursor
  BY DEF Inv
<1>1. /\ Written \in Nat
      /\ \A k \in 0..Len(signed) : LastOf(k) \in Nat
  BY <1>0, WrittenType
<1>2. p \in PayloadType
  <2>1. Len(signed) \in Nat
    BY <1>0 DEF TypeOK
  <2> QED
    BY <1>1, <2>1, SizeAssumption DEF Payload, PayloadType, SignCounter
<1>3. /\ signed' = Append(signed, p)
      /\ signed \in Seq(PayloadType)
  BY <1>0 DEF Queue, TypeOK
<1>4. /\ signed' \in Seq(PayloadType)
      /\ Len(signed') = Len(signed) + 1
      /\ signed'[Len(signed) + 1] = p
      /\ \A k \in 1..Len(signed) : signed'[k] = signed[k]
  BY <1>2, <1>3
<1>5. /\ p.counter = Len(signed)
      /\ p.from = Written
      /\ p.to = Written + n
  BY DEF Payload, SignCounter
<1>6. /\ \A k \in 0..Len(signed) : LastOf(k)' = LastOf(k)
      /\ Written' = Written + n
  BY <1>3, <1>4, <1>5 DEF LastOf, Written
<1>7. TypeOK'
  <2>1. writeBuf' \in Seq(Nat \X Nat)
    <3>1. Len(signed) + 1 \in Nat /\ Overhead + n + escapes \in Nat
      BY <1>3, SizeAssumption
    <3> QED
      BY <3>1, FrameType DEF Queue
  <2> QED
    BY <1>0, <1>4, <2>1
    DEF TypeOK, Queue, frameVars, verifyVars, dataVars, endVars
<1>8. Ledger'
  <2>1. ASSUME NEW k \in 1..Len(signed')
        PROVE  (/\ signed[k].counter = k - 1
                /\ signed[k].from = LastOf(k - 1)
                /\ signed[k].from <= signed[k].to)'
    <3>1. CASE k \in 1..Len(signed)
      <4>1. k - 1 \in 0..Len(signed)
        BY <3>1
      <4> QED
        BY <1>0, <1>4, <1>6, <3>1, <4>1 DEF Ledger
    <3>2. CASE k = Len(signed) + 1
      <4>1. LastOf(k - 1)' = Written
        BY <1>3, <1>6, <3>2 DEF Written
      <4> QED
        BY <1>1, <1>3, <1>4, <1>5, <3>2, <4>1
    <3> QED
      BY <1>3, <1>4, <3>1, <3>2
  <2>2. ASSUME NEW k \in 0..Len(signed')
        PROVE  (LastOf(k) <= Written)'
    <3>1. CASE k \in 0..Len(signed)
      BY <1>0, <1>1, <1>6, <3>1 DEF Ledger
    <3>2. CASE k = Len(signed) + 1
      BY <1>1, <1>3, <1>4, <1>5, <1>6, <3>2 DEF LastOf
    <3> QED
      BY <1>3, <1>4, <3>1, <3>2
  <2> QED
    BY <2>1, <2>2 DEF Ledger
<1>9. Cursor'
  <2>1. UNCHANGED <<verifyCounter, unread, delivered>>
    BY DEF Queue, verifyVars, dataVars
  <2>2. verifyCounter \in 0..Len(signed)
    BY <1>0, <1>3 DEF Cursor, TypeOK
  <2> QED
    BY <1>0, <1>3, <1>4, <1>6, <2>1, <2>2 DEF Cursor
<1> QED
  BY <1>6, <1>7, <1>8, <1>9 DEF Inv

(* The reader's place in the ledger survives a step that signs nothing,    *)
(* verifies nothing and reads nothing.                                     *)
LEMMA BookkeepingKept ==
  ASSUME Ledger, Cursor,
         UNCHANGED <<signed, verifyCounter, unread, delivered>>
  PROVE  Ledger' /\ Cursor'
<1>1. \A k : LastOf(k)' = LastOf(k)
  BY DEF LastOf
<1>2. Written' = Written
  BY DEF Written, LastOf
<1> QED
  BY <1>1, <1>2 DEF Ledger, Cursor

(* Copying n unread bytes: they are the next ones.                         *)
LEMMA CopyKeepsOrder ==
  ASSUME NEW r \in [from : Nat, to : Nat], NEW n \in CopyableFrom(r),
         delivered \in Seq(Nat),
         \A i \in 1..Len(delivered) : delivered[i] = i,
         Len(delivered) = r.from,
         Copy(r, n)
  PROVE  /\ unread' \in [from : Nat, to : Nat]
         /\ delivered' \in Seq(Nat)
         /\ unread'.to = r.to
         /\ unread'.from <= unread'.to
         /\ Len(delivered)' = unread'.from
         /\ Len(delivered)' = Len(delivered) + n
         /\ \A i \in 1..Len(delivered') : delivered'[i] = i
<1>1. /\ n \in Nat /\ n >= 1 /\ n <= r.to - r.from
  BY BoundAssumption DEF CopyableFrom
<1>2. delivered' = delivered \o [i \in 1..n |-> Len(delivered) + i]
  BY DEF Copy
<1>3. /\ delivered' \in Seq(Nat)
      /\ Len(delivered') = Len(delivered) + n
      /\ \A i \in 1..Len(delivered') : delivered'[i] = i
  BY <1>1, <1>2, ExtendPrefix
<1>4. unread' = [r EXCEPT !.from = r.from + n]
  BY DEF Copy
<1>5. /\ unread' \in [from : Nat, to : Nat]
      /\ unread'.to = r.to
      /\ unread'.from = r.from + n
  BY <1>1, <1>4
<1> QED
  BY <1>1, <1>3, <1>5

(* The payload that verifies is the next interval of the stream.           *)
LEMMA VerifiedIsNext ==
  ASSUME Inv, Reading, NEW k \in 1..Len(signed), CounterMatches(k)
  PROVE  /\ k = verifyCounter + 1
         /\ signed[k].from = Len(delivered)
         /\ signed[k].from = unread.to
         /\ signed[k].from <= signed[k].to
         /\ LastOf(k) = signed[k].to
         /\ [from |-> signed[k].from, to |-> signed[k].to]
              \in [from : Nat, to : Nat]
<1>1. signed[k] \in PayloadType /\ k \in Nat /\ verifyCounter \in Nat
  BY DEF Inv, TypeOK
<1>2. k = verifyCounter + 1
  BY <1>1 DEF Inv, Ledger, CounterMatches
<1> QED
  BY <1>1, <1>2 DEF Inv, Ledger, Cursor, Reading, LastOf, PayloadType

LEMMA AcceptKeepsInv ==
  ASSUME Inv, AcceptPayload
  PROVE  Inv' /\ (\/ UNCHANGED <<signed, delivered>>
                  \/ /\ UNCHANGED signed
                     /\ \E n \in 1..(Written - Len(delivered)) :
                          delivered' = delivered
                                       \o [i \in 1..n |-> Len(delivered) + i])
<1>0. TypeOK /\ Ledger /\ Cursor
  BY DEF Inv
<1>1. /\ CloseFrame /\ Reading /\ wire # <<>>
      /\ UNCHANGED <<sender, signed, writeBuf, reader, readErr, faults>>
      /\ idle' = 0
  BY DEF AcceptPayload, CloseFrame, writerVars, endVars
<1>2. PICK k \in 1..Len(signed) :
        /\ Accepts(k)
        /\ verifyCounter' = CounterAfter(k)
        /\ LET r == [from |-> signed[k].from, to |-> signed[k].to]
           IN  IF r.from = r.to THEN UNCHANGED dataVars
               ELSE \E n \in CopyableFrom(r) : Copy(r, n)
  BY DEF AcceptPayload
<1> DEFINE r == [from |-> signed[k].from, to |-> signed[k].to]
<1>3. /\ k = verifyCounter + 1
      /\ signed[k].from = Len(delivered)
      /\ signed[k].from = unread.to
      /\ signed[k].from <= signed[k].to
      /\ LastOf(k) = signed[k].to
      /\ r \in [from : Nat, to : Nat]
  BY <1>1, <1>2, VerifiedIsNext DEF Accepts
<1>4. /\ verifyCounter' = k
      /\ verifyCounter' \in Nat
      /\ k <= Len(signed)
  BY <1>0, <1>2, <1>3 DEF CounterAfter, TypeOK
<1>5. /\ \A j : LastOf(j)' = LastOf(j)
      /\ Written' = Written
  BY <1>1 DEF LastOf, Written
<1>6. Ledger'
  BY <1>0, <1>1, <1>5 DEF Ledger
<1>7. /\ wire' \in Seq(Nat \X Nat)
      /\ frame' = <<>> /\ inFrame' = FALSE
  BY <1>0, <1>1, TailType DEF CloseFrame, TypeOK
<1>8. ASSUME unread' \in [from : Nat, to : Nat], delivered' \in Seq(Nat)
      PROVE  TypeOK'
  <2>1. /\ frame' \in Seq(Nat \X Nat) /\ Len(frame') <= MaxFrame
        /\ idle' \in 0..(MaxIdle + 1)
    BY <1>1, <1>7, SizeAssumption
  <2>2. inFrame' \in BOOLEAN
    BY <1>7
  <2>3. wire' \in Seq(Nat \X Nat) /\ verifyCounter' \in Nat
    BY <1>4, <1>7
  <2>4. UNCHANGED <<sender, signed, writeBuf, reader, readErr, faults>>
    BY <1>1
  <2>5. TypeOK
    BY <1>0
  <2> QED
    BY <1>8, <2>1, <2>2, <2>3, <2>4, <2>5 DEF TypeOK
<1>9. CASE r.from = r.to
  <2>1. UNCHANGED <<unread, delivered>>
    BY <1>2, <1>9 DEF dataVars
  <2>2. TypeOK'
    BY <1>0, <1>8, <2>1 DEF TypeOK
  <2>3. Cursor'
    BY <1>0, <1>1, <1>3, <1>4, <1>5, <1>9, <2>1 DEF Cursor
  <2> QED
    BY <1>1, <1>6, <2>1, <2>2, <2>3 DEF Inv
<1>10. CASE r.from # r.to
  <2>1. PICK n \in CopyableFrom(r) : Copy(r, n)
    BY <1>2, <1>10
  <2>2. /\ unread' \in [from : Nat, to : Nat]
        /\ delivered' \in Seq(Nat)
        /\ unread'.to = r.to
        /\ unread'.from <= unread'.to
        /\ Len(delivered)' = unread'.from
        /\ \A i \in 1..Len(delivered') : delivered'[i] = i
    BY <1>0, <1>3, <2>1, CopyKeepsOrder DEF TypeOK, Cursor
  <2>3. TypeOK'
    BY <1>8, <2>2
  <2>4. Cursor'
    BY <1>1, <1>3, <1>4, <1>5, <2>2 DEF Cursor
  <2>5. delivered' = delivered \o [i \in 1..n |-> Len(delivered) + i]
    BY <1>3, <2>1 DEF Copy
  <2>6. n \in 1..(Written - Len(delivered))
    <3>1. n \in Nat /\ n >= 1 /\ n <= r.to - r.from
      BY BoundAssumption DEF CopyableFrom
    <3>2. r.to <= Written /\ Written \in Nat
      BY <1>0, <1>3, <1>4, WrittenType DEF Ledger
    <3> QED
      BY <1>3, <3>1, <3>2
  <2> QED
    BY <1>1, <1>6, <2>3, <2>4, <2>5, <2>6 DEF Inv
<1> QED
  BY <1>9, <1>10

LEMMA ReadOnKeepsInv ==
  ASSUME Inv, ReadOn
  PROVE  Inv' /\ UNCHANGED signed
         /\ \E n \in 1..(Written - Len(delivered)) :
              delivered' = delivered \o [i \in 1..n |-> Len(delivered) + i]
<1>0. TypeOK /\ Ledger /\ Cursor
  BY DEF Inv
<1>1. PICK n \in CopyableFrom(unread) : Copy(unread, n)
  BY DEF ReadOn
<1>2. /\ unread' \in [from : Nat, to : Nat]
      /\ delivered' \in Seq(Nat)
      /\ unread'.to = unread.to
      /\ unread'.from <= unread'.to
      /\ Len(delivered)' = unread'.from
      /\ \A i \in 1..Len(delivered') : delivered'[i] = i
  BY <1>0, <1>1, CopyKeepsOrder DEF TypeOK, Cursor
<1>3. UNCHANGED <<sender, signed, writeBuf, wire, inFrame, frame, verifyCounter,
                  idle, reader, readErr, faults>>
  BY DEF ReadOn, writerVars, frameVars, verifyVars, endVars
<1>4. /\ \A j : LastOf(j)' = LastOf(j)
      /\ Written' = Written
  BY <1>3 DEF LastOf, Written
<1>5. TypeOK'
  BY <1>0, <1>2, <1>3 DEF TypeOK
<1>6. Ledger' /\ Cursor'
  BY <1>0, <1>2, <1>3, <1>4 DEF Ledger, Cursor
<1>7. n \in 1..(Written - Len(delivered))
  <2>1. n \in Nat /\ n >= 1 /\ n <= unread.to - unread.from
    BY BoundAssumption DEF CopyableFrom
  <2>2. verifyCounter \in 0..Len(signed)
    BY <1>0 DEF TypeOK, Cursor
  <2>3. unread.to <= Written /\ Written \in Nat
    BY <1>0, <2>2, WrittenType DEF Cursor, Ledger
  <2> QED
    BY <1>0, <2>1, <2>3 DEF Cursor, TypeOK
<1>8. delivered' = delivered \o [i \in 1..n |-> Len(delivered) + i]
  BY <1>0, <1>1 DEF Copy, Cursor
<1> QED
  BY <1>3, <1>5, <1>6, <1>7, <1>8 DEF Inv

(* Every other step leaves the ledger and the cursor alone.                *)
Plumbing == \/ Drain \/ DrainFails \/ Shutdown \/ Drop
            \/ Skip \/ OpenFrame \/ Collect \/ RefuseLongFrame \/ RefuseFrame
            \/ ReadEof \/ ReaderDrops
            \/ Tick \/ Radio
            \/ UNCHANGED vars

LEMMA PlumbingKeepsType ==
  ASSUME TypeOK, Plumbing
  PROVE  TypeOK'
<1> USE DEF writerVars, frameVars, verifyVars, dataVars, endVars
<1>1. CASE Drain
  <2>1. PICK n \in 1..Len(writeBuf) :
          /\ wire' = wire \o SubSeq(writeBuf, 1, n)
          /\ writeBuf' = SubSeq(writeBuf, n + 1, Len(writeBuf))
    BY <1>1 DEF Drain
  <2>2. writeBuf \in Seq(Nat \X Nat) /\ wire \in Seq(Nat \X Nat)
    BY DEF TypeOK
  <2>3. /\ SubSeq(writeBuf, 1, n) \in Seq(Nat \X Nat)
        /\ SubSeq(writeBuf, n + 1, Len(writeBuf)) \in Seq(Nat \X Nat)
    BY <2>2, SMTT(30)
  <2>4. /\ wire' \in Seq(Nat \X Nat)
        /\ writeBuf' \in Seq(Nat \X Nat)
    BY <2>1, <2>2, <2>3
  <2>5. UNCHANGED <<sender, signed, inFrame, frame, verifyCounter, idle, unread,
                    delivered, reader, readErr, faults>>
    BY <1>1 DEF Drain
  <2> QED
    BY <2>4, <2>5 DEF TypeOK
<1>2. CASE DrainFails
  BY <1>2 DEF DrainFails, TypeOK
<1>3. CASE Shutdown
  BY <1>3 DEF Shutdown, TypeOK
<1>4. CASE Drop
  <2>1. writeBuf' \in Seq(Nat \X Nat)
    BY <1>4 DEF Drop
  <2> QED
    BY <1>4, <2>1 DEF Drop, TypeOK
<1>5. ASSUME wire # <<>>, wire' = Tail(wire)
      PROVE  wire' \in Seq(Nat \X Nat)
  BY <1>5, TailType DEF TypeOK
<1>6. CASE Skip
  BY <1>5, <1>6 DEF Skip, TypeOK
<1>7. CASE OpenFrame
  <2>1. frame' \in Seq(Nat \X Nat) /\ Len(frame') <= MaxFrame
    BY <1>7, SizeAssumption DEF OpenFrame, Flag
  <2>2. inFrame' \in BOOLEAN
    BY <1>7 DEF OpenFrame
  <2>3. wire' \in Seq(Nat \X Nat)
    BY <1>5, <1>7 DEF OpenFrame
  <2> QED
    BY <1>7, <2>1, <2>2, <2>3 DEF OpenFrame, TypeOK
<1>8. CASE Collect
  <2>1. Octet \in Nat \X Nat
    BY <1>8, TailType DEF Collect, Octet, TypeOK
  <2>2. frame \in Seq(Nat \X Nat) /\ Len(frame) < MaxFrame
    BY <1>8 DEF Collect, Fits, TypeOK
  <2>3. frame' \in Seq(Nat \X Nat) /\ Len(frame') <= MaxFrame
    BY <1>8, <2>1, <2>2, SizeAssumption DEF Collect
  <2>4. wire' \in Seq(Nat \X Nat)
    BY <1>5, <1>8 DEF Collect
  <2> QED
    BY <1>8, <2>3, <2>4 DEF Collect, TypeOK
<1>9. CASE RefuseLongFrame
  BY <1>5, <1>9 DEF RefuseLongFrame, TypeOK
<1>10. CASE RefuseFrame
  <2>1. frame' \in Seq(Nat \X Nat) /\ Len(frame') <= MaxFrame
    BY <1>10, SizeAssumption DEF RefuseFrame, CloseFrame
  <2>2. inFrame' \in BOOLEAN
    BY <1>10 DEF RefuseFrame, CloseFrame
  <2>3. wire' \in Seq(Nat \X Nat)
    BY <1>5, <1>10 DEF RefuseFrame, CloseFrame
  <2> QED
    BY <1>10, <2>1, <2>2, <2>3 DEF RefuseFrame, TypeOK
<1>11. CASE ReadEof
  BY <1>11 DEF ReadEof, TypeOK
<1>12. CASE ReaderDrops
  BY <1>12 DEF ReaderDrops, TypeOK
<1>13. CASE Tick
  <2>1. idle' \in 0..(MaxIdle + 1)
    BY <1>13, SizeAssumption DEF Tick, Fresh, TypeOK
  <2> QED
    BY <1>13, <2>1 DEF Tick, TypeOK
<1>14. CASE Radio
  <2>1. wire' \in Seq(Nat \X Nat)
    <3>1. CASE Lose
      BY <1>5, <3>1 DEF Lose
    <3>2. CASE Stray
      <4>1. PICK o \in {Flag, Noise} : wire' = <<o>> \o wire
        BY <3>2 DEF Stray
      <4>2. <<o>> \in Seq(Nat \X Nat) /\ wire \in Seq(Nat \X Nat)
        BY <4>1 DEF Flag, Noise, TypeOK
      <4> QED
        BY <4>1, <4>2
    <3>3. CASE Replay
      <4>1. PICK k \in 1..Len(signed) :
              wire' = Frame(k, signed[k].octets) \o wire
        BY <3>3 DEF Replay
      <4>2. k \in Nat /\ signed[k] \in PayloadType
        BY DEF TypeOK
      <4>3. Frame(k, signed[k].octets) \in Seq(Nat \X Nat)
        BY <4>2, FrameType DEF PayloadType
      <4>4. wire \in Seq(Nat \X Nat)
        BY DEF TypeOK
      <4> QED
        BY <4>1, <4>3, <4>4
    <3> QED
      BY <1>14, <3>1, <3>2, <3>3 DEF Radio
  <2>2. Fault
    BY <1>14 DEF Radio, Lose, Stray, Replay
  <2>3. faults' \in 0..MaxFaults
    BY <2>2, BoundAssumption DEF Fault, TypeOK
  <2> QED
    BY <2>1, <2>2, <2>3 DEF Fault, TypeOK
<1>15. CASE UNCHANGED vars
  BY <1>15 DEF vars, TypeOK
<1> QED
  BY <1>1, <1>2, <1>3, <1>4, <1>6, <1>7, <1>8, <1>9, <1>10, <1>11, <1>12, <1>13,
     <1>14, <1>15 DEF Plumbing

LEMMA PlumbingKeepsInv ==
  ASSUME Inv, Plumbing
  PROVE  Inv' /\ UNCHANGED <<signed, verifyCounter, delivered>>
<1>1. UNCHANGED <<signed, verifyCounter, unread, delivered>>
  BY DEF Plumbing, Drain, DrainFails, Shutdown, Drop, Skip, OpenFrame, Collect,
         RefuseLongFrame, RefuseFrame, CloseFrame, ReadEof, ReaderDrops, Tick,
         Radio, Fault, Lose, Stray, Replay, vars,
         writerVars, frameVars, verifyVars, dataVars, endVars
<1> QED
  BY <1>1, BookkeepingKept, PlumbingKeepsType DEF Inv

-----------------------------------------------------------------------------
LEMMA InitInv == Init => Inv
<1> SUFFICES ASSUME Init PROVE Inv
  OBVIOUS
<1>1. TypeOK
  <2>1. inFrame \in BOOLEAN
    BY DEF Init
  <2>2. /\ signed \in Seq(PayloadType) /\ delivered \in Seq(Nat)
        /\ writeBuf \in Seq(Nat \X Nat) /\ wire \in Seq(Nat \X Nat)
        /\ frame \in Seq(Nat \X Nat) /\ Len(frame) <= MaxFrame
    BY SizeAssumption DEF Init
  <2>3. idle \in 0..(MaxIdle + 1) /\ faults \in 0..MaxFaults
    BY BoundAssumption, SizeAssumption DEF Init
  <2>4. unread \in [from : Nat, to : Nat]
    BY DEF Init, Empty
  <2> QED
    BY <2>1, <2>2, <2>3, <2>4 DEF Init, TypeOK
<1>2. Ledger /\ Cursor
  BY DEF Init, Empty, Ledger, Cursor, LastOf, Written
<1> QED
  BY <1>1, <1>2 DEF Inv

LEMMA NextCases ==
  ASSUME [Next]_vars
  PROVE  \/ \E n \in 0..MaxWrite, escapes \in 0..MaxEscapes : Queue(n, escapes)
         \/ AcceptPayload
         \/ ReadOn
         \/ Plumbing
  BY BoundAssumption
  DEF Next, WriteHalf, Receive, Write, Keepalive, Plumbing

LEMMA StepInv == Inv /\ [Next]_vars => Inv'
<1> SUFFICES ASSUME Inv, [Next]_vars PROVE Inv'
  OBVIOUS
<1>1. CASE \E n \in 0..MaxWrite, escapes \in 0..MaxEscapes : Queue(n, escapes)
  BY <1>1, QueueKeepsInv, BoundAssumption
<1> QED
  BY <1>1, AcceptKeepsInv, ReadOnKeepsInv, PlumbingKeepsInv, NextCases

THEOREM Invariance == Spec => []Inv
  BY InitInv, StepInv, PTL DEF Spec

(* Every variable keeps its type, and the frame in hand the size limit     *)
(* (hdlc.rs:177), in every reachable state.                                *)
THEOREM TypeCorrect == Spec => []TypeOK
<1>1. Inv => TypeOK
  BY DEF Inv
<1> QED
  BY <1>1, Invariance, PTL

(* The application reads a prefix of what its peer wrote, under any number *)
(* of lost, stray and repeated octets (README.md, "Replay").               *)
THEOREM ReadsInOrder == Spec => []InOrder
<1>1. Inv => InOrder
  <2> SUFFICES ASSUME Inv PROVE InOrder
    OBVIOUS
  <2>1. verifyCounter \in 0..Len(signed)
    BY DEF Inv, TypeOK, Cursor
  <2>2. LastOf(verifyCounter) <= Written
    BY <2>1 DEF Inv, Ledger
  <2>3. /\ Written \in Nat /\ LastOf(verifyCounter) \in Nat
        /\ Len(delivered) \in Nat
    BY <2>1, WrittenType DEF Inv, TypeOK
  <2> QED
    BY <2>2, <2>3 DEF Inv, Cursor, InOrder, TypeOK
<1> QED
  BY <1>1, Invariance, PTL

(* A session idle beyond MAX_CONNECTION_IDLE verifies nothing any more     *)
(* (lib.rs:406).                                                           *)
THEOREM IdleSessionsEnd == Spec => IdleIsFinal
<1>1. Inv /\ [Next]_vars => [~Fresh => ~Fresh' /\ UNCHANGED verifyCounter]_vars
  <2> SUFFICES ASSUME Inv, [Next]_vars, ~Fresh
               PROVE  ~Fresh' /\ UNCHANGED verifyCounter
    OBVIOUS
  <2>1. UNCHANGED <<verifyCounter, idle>>
    <3>1. ~AcceptPayload /\ ~Tick
      BY DEF AcceptPayload, Accepts, Tick
    <3> QED
      BY <3>1
      DEF Next, WriteHalf, Receive, Radio, Write, Keepalive, Queue, Drain,
          DrainFails, Shutdown, Drop, Skip, OpenFrame, Collect, RefuseLongFrame,
          CloseFrame, RefuseFrame, ReadOn, ReadEof, ReaderDrops, Fault, Lose,
          Stray, Replay, verifyVars, vars
  <2> QED
    BY <2>1 DEF Fresh
<1> QED
  BY <1>1, Invariance, PTL DEF Spec, IdleIsFinal

(* Every behaviour of the direction is one of an ordered byte stream.      *)
THEOREM Implements == Spec => IsByteStream
<1>1. Init => Stream!Init
  BY DEF Init, Stream!Init, Written, LastOf
<1>2. Inv /\ [Next]_vars => [Stream!Next]_<<Written, delivered>>
  <2> SUFFICES ASSUME Inv, [Next]_vars
               PROVE  [Stream!Next]_<<Written, delivered>>
    OBVIOUS
  <2>1. Written \in Nat
    BY WrittenType DEF Inv
  <2>2. ASSUME UNCHANGED signed
        PROVE  Written' = Written
    BY <2>2 DEF Written, LastOf
  <2>3. CASE \E n \in 0..MaxWrite, escapes \in 0..MaxEscapes : Queue(n, escapes)
    <3>1. PICK n \in 0..MaxWrite, escapes \in 0..MaxEscapes : Queue(n, escapes)
      BY <2>3
    <3>2. Written' = Written + n /\ UNCHANGED delivered /\ n \in Nat
      BY <3>1, QueueKeepsInv, BoundAssumption DEF Queue, dataVars
    <3> QED
      BY <2>1, <3>2 DEF Stream!Next, Stream!Send
  <2>4. CASE AcceptPayload
    BY <2>2, <2>4, AcceptKeepsInv DEF Stream!Next, Stream!Receive
  <2>5. CASE ReadOn
    BY <2>2, <2>5, ReadOnKeepsInv DEF Stream!Next, Stream!Receive
  <2>6. CASE Plumbing
    BY <2>2, <2>6, PlumbingKeepsInv
  <2> QED
    BY <2>3, <2>4, <2>5, <2>6, NextCases
<1> QED
  BY <1>1, <1>2, Invariance, PTL DEF Spec, IsByteStream, Stream!Spec

-----------------------------------------------------------------------------
(***************************************************************************)
(* ErrorsHaveCause and CleanEofIsComplete hold of PayloadStream for every  *)
(* value of its constants.                                                 *)
(*                                                                         *)
(* Both are about a medium without faults, so the invariant has to say     *)
(* where every octet under way belongs.  A place is an octet of a payload's*)
(* frame.  What is on the wire and still queued is a route of places, each *)
(* after the one before; it starts where the reader is and ends where the  *)
(* next frame will start - unless the writer dropped the stream, or the    *)
(* reader met a frame that is too long and reads no other any more.        *)
(***************************************************************************)

Octets == Nat \X Nat
Places == (Nat \ {0}) \X (Nat \ {0})

(* Of a session that has signed the payloads s.                            *)
Size(s, k)    == s[k].octets + 2
IsPlace(s, q) == q[1] \in 1..Len(s) /\ q[2] \in 1..Size(s, q[1])
OctetAt(s, q) == Frame(q[1], s[q[1]].octets)[q[2]]
After(s, q)   == IF q[2] < Size(s, q[1]) THEN <<q[1], q[2] + 1>>
                                         ELSE <<q[1] + 1, 1>>

(* The octets of f are those at the places p, and p goes one place beyond. *)
Route(p, f, s) ==
  /\ p \in [1..(Len(f) + 1) -> Places]
  /\ \A i \in 1..Len(f) : /\ IsPlace(s, p[i])
                          /\ f[i] = OctetAt(s, p[i])
                          /\ p[i + 1] = After(s, p[i])

(* It goes right to where the next payload's frame will start.             *)
ToEnd(p, f, s) == p[Len(f) + 1] = <<Len(s) + 1, 1>>

InFlight == wire \o writeBuf

(* The next octet for the reader is the one at q.                          *)
ReadsAt(q) ==
  /\ IF inFrame
     THEN /\ IsPlace(signed, q) /\ q[2] > 1
          /\ Len(frame) = q[2] - 1
          /\ \A i \in 1..Len(frame) : frame[i] = OctetAt(signed, <<q[1], i>>)
     ELSE q[2] = 1
  /\ Fresh \/ readErr = "none" => verifyCounter = q[1] - 1

Aligned ==
  \E p : /\ Route(p, InFlight, signed)
         /\ sender # "dropped" => ToEnd(p, InFlight, signed)
         /\ ReadsAt(p[1])

Stuck == inFrame /\ ~Fits /\ Oversized

Causes ==
  /\ readErr = "packet" => ~Fresh
  /\ readErr = "long" => Oversized
  /\ readErr = "eof" => sender = "dropped" \/ Oversized

(* How either half ends.                                                   *)
Endings ==
  /\ sender \in {"shut", "dropped"} => writeBuf = <<>>
  /\ sender = "failed" => reader = "gone"
  /\ reader = "eof" => /\ wire = <<>> /\ sender # "open"
                       /\ unread.from = unread.to
                       /\ readErr = "none" => ~inFrame

Clean == faults = 0 => Causes /\ Endings /\ (Stuck \/ Aligned)

-----------------------------------------------------------------------------
(* Frames and routes.                                                      *)

(* The elements of two sequences joined.                                   *)
LEMMA Joined ==
  ASSUME NEW S, NEW a \in Seq(S), NEW b \in Seq(S)
  PROVE  /\ a \o b \in Seq(S)
         /\ Len(a) \in Nat /\ Len(b) \in Nat
         /\ Len(a \o b) = Len(a) + Len(b)
         /\ \A i \in 1..Len(a) : (a \o b)[i] = a[i]
         /\ \A i \in 1..Len(a \o b) : i > Len(a) => (a \o b)[i] = b[i - Len(a)]
OBVIOUS

(* A frame has a flag at either end and nowhere else.                      *)
LEMMA FrameOctets ==
  ASSUME NEW k \in Nat \ {0}, NEW n \in Nat
  PROVE  /\ Len(Frame(k, n)) = n + 2
         /\ \A i \in 1..(n + 2) : Frame(k, n)[i] = Flag <=> i = 1 \/ i = n + 2
<1> DEFINE m == [i \in 1..n |-> <<k, i>>]
<1>1. m \in Seq(Octets) /\ Len(m) = n
  BY DEF Octets
<1>2. <<Flag>> \in Seq(Octets) /\ Len(<<Flag>>) = 1 /\ <<Flag>>[1] = Flag
  BY DEF Flag, Octets
<1>3. /\ <<Flag>> \o m \in Seq(Octets)
      /\ Len(<<Flag>> \o m) = n + 1
      /\ (<<Flag>> \o m)[1] = Flag
      /\ \A i \in 2..(n + 1) : (<<Flag>> \o m)[i] = m[i - 1]
  BY <1>1, <1>2
<1>4. \A i \in 2..(n + 1) : (<<Flag>> \o m)[i] # Flag
  <2>1. ASSUME NEW i \in 2..(n + 1)
        PROVE  m[i - 1] = <<k, i - 1>>
    OBVIOUS
  <2>2. \A j : <<k, j>> # <<0, 0>>
    OBVIOUS
  <2> QED
    BY <1>3, <2>1, <2>2 DEF Flag
<1> HIDE DEF m
<1>5. Frame(k, n) = (<<Flag>> \o m) \o <<Flag>>
  BY DEF Frame, m
<1>6. /\ Len(Frame(k, n)) = n + 2
      /\ \A i \in 1..(n + 1) : Frame(k, n)[i] = (<<Flag>> \o m)[i]
      /\ Frame(k, n)[n + 2] = Flag
  <2> DEFINE a == <<Flag>> \o m
  <2>1. a \in Seq(Octets) /\ Len(a) = n + 1
    BY <1>3
  <2> HIDE DEF a
  <2>2. /\ Len(a \o <<Flag>>) = n + 2
        /\ \A i \in 1..(n + 1) : (a \o <<Flag>>)[i] = a[i]
        /\ (a \o <<Flag>>)[n + 2] = Flag
    BY <1>2, <2>1
  <2> QED
    BY <1>5, <2>2 DEF a
<1>7. ASSUME NEW i \in 1..(n + 2)
      PROVE  Frame(k, n)[i] = Flag <=> i = 1 \/ i = n + 2
  <2>1. CASE i = 1
    BY <1>3, <1>6, <2>1
  <2>2. CASE i = n + 2
    BY <1>6, <2>2
  <2>3. CASE i \in 2..(n + 1)
    <3>1. i \in 1..(n + 1) /\ i # 1 /\ i # n + 2
      BY <2>3
    <3>2. Frame(k, n)[i] = (<<Flag>> \o m)[i]
      BY <1>6, <3>1
    <3>3. (<<Flag>> \o m)[i] # Flag
      BY <1>4, <2>3
    <3> QED
      BY <3>1, <3>2, <3>3
  <2> QED
    BY <2>1, <2>2, <2>3
<1> QED
  BY <1>6, <1>7

(* Flags mark the first and last place of every frame.                     *)
LEMMA FlagPlaces ==
  ASSUME NEW s \in Seq(PayloadType), NEW q \in Places, IsPlace(s, q)
  PROVE  OctetAt(s, q) = Flag <=> q[2] = 1 \/ q[2] = Size(s, q[1])
<1>1. q[1] \in Nat \ {0} /\ s[q[1]] \in PayloadType
  BY DEF Places, IsPlace
<1>2. s[q[1]].octets \in Nat
  BY <1>1 DEF PayloadType
<1> QED
  BY <1>1, <1>2, FrameOctets DEF IsPlace, OctetAt, Size

(* The place after a place.                                                *)
LEMMA AfterType ==
  ASSUME NEW s, NEW q \in Places
  PROVE  After(s, q) \in Places
BY DEF Places, After

(* Taking the first octet of a route leaves a route.                       *)
LEMMA RouteTail ==
  ASSUME NEW f \in Seq(Octets), f # <<>>, NEW s, NEW p, Route(p, f, s)
  PROVE  /\ IsPlace(s, p[1]) /\ p[1] \in Places
         /\ Head(f) = OctetAt(s, p[1])
         /\ \E t : /\ Route(t, Tail(f), s)
                   /\ t[1] = After(s, p[1])
                   /\ ToEnd(p, f, s) => ToEnd(t, Tail(f), s)
<1> DEFINE t == [i \in 1..(Len(Tail(f)) + 1) |-> p[i + 1]]
<1>1. /\ Len(f) \in Nat /\ Len(f) >= 1
      /\ Len(Tail(f)) = Len(f) - 1
      /\ \A i \in 1..Len(Tail(f)) : Tail(f)[i] = f[i + 1]
      /\ Head(f) = f[1]
  OBVIOUS
<1>2. p \in [1..(Len(f) + 1) -> Places]
  BY DEF Route
<1>3. \A i \in 1..(Len(Tail(f)) + 1) : i + 1 \in 1..(Len(f) + 1)
  BY <1>1
<1>4. t \in [1..(Len(Tail(f)) + 1) -> Places]
  BY <1>2, <1>3
<1>5. ASSUME NEW i \in 1..Len(Tail(f))
      PROVE  /\ IsPlace(s, t[i])
             /\ Tail(f)[i] = OctetAt(s, t[i])
             /\ t[i + 1] = After(s, t[i])
  <2>1. i + 1 \in 1..Len(f) /\ i \in 1..(Len(Tail(f)) + 1)
        /\ i + 1 \in 1..(Len(Tail(f)) + 1)
    BY <1>1
  <2>2. t[i] = p[i + 1] /\ t[i + 1] = p[(i + 1) + 1]
    BY <2>1
  <2> QED
    BY <1>1, <2>1, <2>2 DEF Route
<1>6. 1 \in 1..Len(f) /\ 1 \in 1..(Len(Tail(f)) + 1)
      /\ Len(Tail(f)) + 1 \in 1..(Len(Tail(f)) + 1)
  BY <1>1
<1>7. t[1] = p[1 + 1] /\ t[Len(Tail(f)) + 1] = p[Len(f) + 1]
  BY <1>1, <1>6
<1> HIDE DEF t
<1>8. Route(t, Tail(f), s)
  BY <1>4, <1>5 DEF Route
<1>9. IsPlace(s, p[1]) /\ p[1] \in Places /\ f[1] = OctetAt(s, p[1])
      /\ p[1 + 1] = After(s, p[1])
  BY <1>1, <1>2, <1>6 DEF Route
<1> QED
  BY <1>1, <1>7, <1>8, <1>9 DEF ToEnd

(* A route can be cut short.                                               *)
LEMMA RouteCut ==
  ASSUME NEW f \in Seq(Octets), NEW g \in Seq(Octets),
         NEW s, NEW p, Route(p, f \o g, s)
  PROVE  \E t : Route(t, f, s) /\ t[1] = p[1]
<1> DEFINE t == [i \in 1..(Len(f) + 1) |-> p[i]]
<1>1. /\ Len(f) \in Nat /\ Len(g) \in Nat
      /\ Len(f \o g) = Len(f) + Len(g)
      /\ \A i \in 1..Len(f) : (f \o g)[i] = f[i]
  OBVIOUS
<1>2. p \in [1..(Len(f \o g) + 1) -> Places]
  BY DEF Route
<1>3. t \in [1..(Len(f) + 1) -> Places]
  BY <1>1, <1>2
<1>4. ASSUME NEW i \in 1..Len(f)
      PROVE  IsPlace(s, t[i]) /\ f[i] = OctetAt(s, t[i]) /\ t[i + 1] = After(s, t[i])
  <2>1. i \in 1..Len(f \o g) /\ i \in 1..(Len(f) + 1) /\ i + 1 \in 1..(Len(f) + 1)
    BY <1>1
  <2>2. t[i] = p[i] /\ t[i + 1] = p[i + 1]
    BY <2>1
  <2> QED
    BY <1>1, <2>1, <2>2 DEF Route
<1>5. t[1] = p[1]
  BY <1>1
<1> HIDE DEF t
<1> QED
  BY <1>3, <1>4, <1>5 DEF Route

(* The octets before a place have places too.                              *)
LEMMA EarlierPlace ==
  ASSUME NEW s \in Seq(PayloadType), NEW q, IsPlace(s, q), NEW i \in 1..(q[2] - 1)
  PROVE  IsPlace(s, <<q[1], i>>)
<1>0. s[q[1]] \in PayloadType
  BY DEF IsPlace
<1>1. s[q[1]].octets \in Nat
  BY <1>0 DEF PayloadType
<1> QED
  BY <1>1 DEF IsPlace, Size

(* A place stays what it is when another payload is signed.                *)
LEMMA PlaceStays ==
  ASSUME NEW s \in Seq(PayloadType), NEW e \in PayloadType,
         NEW q, IsPlace(s, q)
  PROVE  /\ IsPlace(Append(s, e), q)
         /\ OctetAt(Append(s, e), q) = OctetAt(s, q)
         /\ After(Append(s, e), q) = After(s, q)
<1>1. /\ Len(s) \in Nat /\ Len(Append(s, e)) = Len(s) + 1
      /\ Append(s, e)[q[1]] = s[q[1]]
  BY DEF IsPlace
<1> QED
  BY <1>1 DEF IsPlace, OctetAt, After, Size

(* The frame of a payload just signed prolongs a route that ends where it  *)
(* starts.                                                                 *)
LEMMA RouteOn ==
  ASSUME NEW s \in Seq(PayloadType), NEW e \in PayloadType,
         NEW f \in Seq(Octets), NEW p, Route(p, f, s),
         ToEnd(p, f, s)
  PROVE  LET g == f \o Frame(Len(s) + 1, e.octets)
         IN  \E t : /\ Route(t, g, Append(s, e))
                    /\ t[1] = p[1]
                    /\ ToEnd(t, g, Append(s, e))
<1> DEFINE k == Len(s) + 1
           h == Frame(k, e.octets)
           g == f \o h
           z == Append(s, e)
           t == [i \in 1..(Len(g) + 1) |->
                   IF i <= Len(f) THEN p[i]
                   ELSE IF i <= Len(g) THEN <<k, i - Len(f)>>
                   ELSE <<k + 1, 1>>]
<1>1. /\ Len(s) \in Nat /\ k \in Nat \ {0} /\ k = Len(s) + 1
      /\ e.octets \in Nat
      /\ z[k] = e /\ Len(z) = k
  BY DEF PayloadType
<1>2. h \in Seq(Octets) /\ Len(h) = e.octets + 2
  BY <1>1, FrameOctets, FrameType DEF Octets
<1> HIDE DEF h, k, z
<1>3. /\ Len(f) \in Nat
      /\ Len(g) \in Nat
      /\ Len(g) = Len(f) + e.octets + 2
      /\ \A i \in 1..Len(f) : g[i] = f[i]
      /\ \A i \in 1..Len(g) : i > Len(f) => g[i] = h[i - Len(f)]
  <2>1. /\ Len(f) \in Nat /\ Len(h) \in Nat /\ Len(g) = Len(f) + Len(h)
        /\ \A i \in 1..Len(f) : g[i] = f[i]
        /\ \A i \in 1..Len(g) : i > Len(f) => g[i] = h[i - Len(f)]
    BY <1>2, Joined
  <2>2. e.octets \in Nat /\ Len(h) = e.octets + 2
    BY <1>1, <1>2
  <2> HIDE DEF g
  <2>3. Len(g) \in Nat /\ Len(g) = Len(f) + e.octets + 2
    BY <2>1, <2>2
  <2> QED
    BY <2>1, <2>3
<1> HIDE DEF g
<1>sizes. /\ Len(f) \in Nat /\ Len(g) \in Nat /\ e.octets \in Nat
       /\ Len(g) = Len(f) + e.octets + 2
  BY <1>1, <1>3
<1>4. p \in [1..(Len(f) + 1) -> Places]
  BY DEF Route
<1>5. t \in [1..(Len(g) + 1) -> Places]
  <2>1. ASSUME NEW i \in 1..(Len(g) + 1)
        PROVE  t[i] \in Places
    <3>1. CASE i <= Len(f)
      BY <1>3, <1>4, <3>1
    <3>2. CASE i > Len(f) /\ i <= Len(g)
      <4>1. t[i] = <<k, i - Len(f)>> /\ i - Len(f) \in Nat \ {0}
        BY <1>3, <3>2
      <4> QED
        BY <1>1, <4>1 DEF Places
    <3>3. CASE i > Len(g)
      <4>1. ~(i <= Len(f)) /\ ~(i <= Len(g))
        BY <1>1, <1>3, <3>3
      <4>2. t[i] = <<k + 1, 1>>
        BY <4>1
      <4>3. <<k + 1, 1>> \in Places
        BY <1>1 DEF Places
      <4> HIDE DEF t
      <4> QED
        BY <4>2, <4>3
    <3> QED
      BY <1>3, <3>1, <3>2, <3>3
  <2> QED
    BY <2>1
<1>6. \A i \in 1..(Len(f) + 1) : t[i] = p[i]
  <2>1. ASSUME NEW i \in 1..(Len(f) + 1)
        PROVE  t[i] = p[i]
    <3>1. i \in 1..(Len(g) + 1)
      BY <1>1, <1>3
    <3>2. CASE i <= Len(f)
      BY <3>1, <3>2
    <3>3. CASE i = Len(f) + 1
      <4>1. i > Len(f) /\ i <= Len(g) /\ i - Len(f) = 1
        BY <1>1, <1>3, <3>3
      <4>2. t[i] = <<k, 1>>
        BY <3>1, <4>1
      <4>3. p[i] = <<k, 1>>
        BY <1>1, <3>3 DEF ToEnd
      <4> QED
        BY <4>2, <4>3
    <3> QED
      BY <1>3, <3>2, <3>3
  <2> QED
    BY <2>1
<1>7. \A j \in 1..(e.octets + 2) : t[Len(f) + j] = <<k, j>>
  <2>1. ASSUME NEW j \in 1..(e.octets + 2)
        PROVE  t[Len(f) + j] = <<k, j>>
    <3>1. /\ Len(f) + j \in 1..(Len(g) + 1) /\ Len(f) + j > Len(f)
          /\ Len(f) + j <= Len(g) /\ (Len(f) + j) - Len(f) = j
      BY <1>1, <1>3
    <3> QED
      BY <3>1
  <2> QED
    BY <2>1
<1>8. t[Len(g) + 1] = <<k + 1, 1>>
  <2>1. /\ Len(g) + 1 \in 1..(Len(g) + 1) /\ ~(Len(g) + 1 <= Len(f))
        /\ ~(Len(g) + 1 <= Len(g))
    BY <1>1, <1>3
  <2> QED
    BY <2>1
<1> HIDE DEF t
<1>9. ASSUME NEW i \in 1..Len(g)
      PROVE  IsPlace(z, t[i]) /\ g[i] = OctetAt(z, t[i]) /\ t[i + 1] = After(z, t[i])
  <2>1. CASE i <= Len(f)
    <3>1. i \in 1..Len(f) /\ i \in 1..(Len(f) + 1) /\ i + 1 \in 1..(Len(f) + 1)
      BY <1>3, <2>1
    <3>2. /\ IsPlace(s, p[i]) /\ f[i] = OctetAt(s, p[i])
          /\ p[i + 1] = After(s, p[i])
      BY <3>1 DEF Route
    <3>3. /\ IsPlace(z, p[i]) /\ OctetAt(z, p[i]) = OctetAt(s, p[i])
          /\ After(z, p[i]) = After(s, p[i])
      BY <3>2, PlaceStays DEF z
    <3> QED
      BY <1>3, <1>6, <3>1, <3>2, <3>3
  <2>2. CASE i > Len(f)
    <3> DEFINE j == i - Len(f)
    <3>1. j \in 1..(e.octets + 2) /\ i = Len(f) + j
      BY <1>sizes, <2>2
    <3>2. t[i] = <<k, j>> /\ g[i] = h[j]
      BY <1>3, <1>7, <2>2, <3>1
    <3>3. IsPlace(z, <<k, j>>) /\ OctetAt(z, <<k, j>>) = h[j]
      BY <1>1, <3>1 DEF IsPlace, OctetAt, Size, h
    <3>4. t[i + 1] = After(z, <<k, j>>)
      <4>1. Size(z, k) = e.octets + 2
        BY <1>1 DEF Size
      <4>2. CASE j < e.octets + 2
        <5>1. j + 1 \in 1..(e.octets + 2) /\ i + 1 = Len(f) + (j + 1)
          BY <1>1, <1>3, <3>1, <4>2
        <5> QED
          BY <1>7, <4>1, <4>2, <5>1 DEF After
      <4>3. CASE j = e.octets + 2
        <5>1. i = Len(f) + (e.octets + 2)
          BY <3>1, <4>3
        <5>2. Len(g) = Len(f) + (e.octets + 2)
          BY <1>sizes
        <5>3. t[i + 1] = <<k + 1, 1>>
          BY <1>8, <5>1, <5>2
        <5>4. After(z, <<k, j>>) = <<k + 1, 1>>
          BY <1>sizes, <4>1, <4>3 DEF After
        <5> QED
          BY <5>3, <5>4
      <4> QED
        BY <1>1, <3>1, <4>2, <4>3
    <3> QED
      BY <3>2, <3>3, <3>4
  <2> QED
    BY <1>3, <2>1, <2>2
<1>10. Route(t, g, z)
  BY <1>5, <1>9 DEF Route
<1>11. t[1] = p[1]
  BY <1>3, <1>6
<1>12. ToEnd(t, g, z)
  BY <1>1, <1>8 DEF ToEnd
<1> QED
  BY <1>10, <1>11, <1>12
  DEF g, h, k, z

-----------------------------------------------------------------------------
(* Steps.                                                                  *)

(* What is under way, by type.                                             *)
LEMMA InFlightType ==
  ASSUME TypeOK
  PROVE  InFlight \in Seq(Octets) /\ wire \in Seq(Octets)
         /\ writeBuf \in Seq(Octets) /\ signed \in Seq(PayloadType)
BY DEF TypeOK, InFlight, Octets

(* A frame too long stays one.                                             *)
LEMMA OversizedStays ==
  ASSUME TypeOK, Oversized, [Next]_vars
  PROVE  Oversized'
<1>1. PICK k \in 1..Len(signed) : signed[k].octets + 2 > MaxFrame
  BY DEF Oversized
<1>2. signed \in Seq(PayloadType)
  BY DEF TypeOK
<1>3. CASE UNCHANGED signed
  BY <1>1, <1>3 DEF Oversized
<1>4. ASSUME NEW n, NEW escapes, Queue(n, escapes)
      PROVE  Oversized'
  <2>1. signed' = Append(signed, Payload(n, escapes))
    BY <1>4 DEF Queue
  <2>2. k \in 1..Len(signed') /\ signed'[k] = signed[k]
    BY <1>2, <2>1
  <2> QED
    BY <1>1, <2>2 DEF Oversized
<1>5. CASE AcceptPayload
  BY <1>3, <1>5 DEF AcceptPayload, writerVars
<1>6. CASE ReadOn
  BY <1>3, <1>6 DEF ReadOn, writerVars
<1>7. CASE Plumbing
  BY <1>3, <1>7
  DEF Plumbing, Drain, DrainFails, Shutdown, Drop, Skip, OpenFrame, Collect,
      RefuseLongFrame, RefuseFrame, ReadEof, ReaderDrops, Tick,
      Radio, Fault, Lose, Stray, Replay, vars, writerVars
<1> QED
  BY <1>4, <1>5, <1>6, <1>7, NextCases

(* The reader stays where it is, with the same ahead of it.                *)
LEMMA ReaderStays ==
  ASSUME NEW q, ReadsAt(q), UNCHANGED <<inFrame, frame, verifyCounter>>,
         IsPlace(signed, q) => IsPlace(signed', q),
         \A i \in 1..Len(frame) :
           OctetAt(signed', <<q[1], i>>) = OctetAt(signed, <<q[1], i>>),
         Fresh' => Fresh, readErr' = "none" => readErr = "none"
  PROVE  ReadsAt(q)'
BY DEF ReadsAt

(* And so does the route.                                                  *)
LEMMA AlignedStays ==
  ASSUME Aligned,
         UNCHANGED <<sender, signed, writeBuf, wire, inFrame, frame, verifyCounter>>,
         Fresh' => Fresh, readErr' = "none" => readErr = "none"
  PROVE  Aligned'
<1>1. PICK p : /\ Route(p, InFlight, signed)
               /\ sender # "dropped" => ToEnd(p, InFlight, signed)
               /\ ReadsAt(p[1])
  BY DEF Aligned
<1>2. InFlight' = InFlight
  BY DEF InFlight
<1>3. ReadsAt(p[1])'
  BY <1>1, ReaderStays
<1>4. Route(p, InFlight', signed')
  BY <1>1, <1>2
<1> QED
  BY <1>1, <1>2, <1>3, <1>4 DEF Aligned

(* Signing a payload puts its frame at the end of the route.               *)
LEMMA QueueAligned ==
  ASSUME TypeOK, Aligned, NEW n \in Nat, NEW escapes \in Nat, Queue(n, escapes)
  PROVE  Aligned'
<1> DEFINE e == Payload(n, escapes)
           k == Len(signed) + 1
           h == Frame(k, e.octets)
<1>1. PICK p : /\ Route(p, InFlight, signed)
               /\ sender # "dropped" => ToEnd(p, InFlight, signed)
               /\ ReadsAt(p[1])
  BY DEF Aligned
<1>2. /\ signed' = Append(signed, e) /\ writeBuf = <<>> /\ sender = "open"
      /\ e.octets = Overhead + n + escapes
      /\ writeBuf' = h
      /\ UNCHANGED <<sender, wire, inFrame, frame, verifyCounter, idle, readErr>>
  BY DEF Queue, Drained, Payload, frameVars, verifyVars, endVars
<1>3. e \in PayloadType
  <2>1. Written \in Nat /\ Len(signed) \in Nat
    BY WrittenType DEF TypeOK
  <2> QED
    BY <2>1, SizeAssumption DEF Payload, PayloadType, SignCounter
<1>4. InFlight \in Seq(Octets) /\ signed \in Seq(PayloadType)
  BY InFlightType
<1>5. InFlight' = InFlight \o h
  <2>1. wire \in Seq(Octets)
    BY InFlightType
  <2>2. InFlight = wire
    BY <1>2, <2>1 DEF InFlight
  <2> QED
    BY <1>2, <2>2 DEF InFlight
<1> HIDE DEF e
<1>6. PICK t : /\ Route(t, InFlight \o h, Append(signed, e))
               /\ t[1] = p[1]
               /\ ToEnd(t, InFlight \o h, Append(signed, e))
  BY <1>1, <1>2, <1>3, <1>4, RouteOn
<1>8. ReadsAt(p[1])'
  <2>1. ASSUME NEW q, IsPlace(signed, q)
        PROVE  IsPlace(signed', q) /\ OctetAt(signed', q) = OctetAt(signed, q)
    BY <1>2, <1>3, <1>4, <2>1, PlaceStays
  <2>2. CASE inFrame
    <3>1. IsPlace(signed, p[1]) /\ p[1][2] > 1 /\ Len(frame) = p[1][2] - 1
      BY <1>1, <2>2 DEF ReadsAt
    <3>2. ASSUME NEW i \in 1..Len(frame)
          PROVE  OctetAt(signed', <<p[1][1], i>>) = OctetAt(signed, <<p[1][1], i>>)
      <4>1. IsPlace(signed, <<p[1][1], i>>)
        BY <1>4, <3>1, EarlierPlace
      <4> QED
        BY <2>1, <4>1
    <3>3. IsPlace(signed', p[1])
      BY <2>1, <3>1
    <3> QED
      BY <1>1, <1>2, <3>2, <3>3, ReaderStays DEF Fresh
  <2>3. CASE ~inFrame
    BY <1>1, <1>2, <2>3 DEF ReadsAt, Fresh
  <2> QED
    BY <2>2, <2>3
<1>9. Route(t, InFlight', signed') /\ ToEnd(t, InFlight', signed')
  BY <1>2, <1>5, <1>6
<1> QED
  BY <1>6, <1>8, <1>9 DEF Aligned

(* Draining moves octets from the queue to the wire.                       *)
LEMMA DrainAligned ==
  ASSUME TypeOK, Aligned, Drain
  PROVE  Aligned'
<1>1. PICK n \in 1..Len(writeBuf) :
        /\ wire' = wire \o SubSeq(writeBuf, 1, n)
        /\ writeBuf' = SubSeq(writeBuf, n + 1, Len(writeBuf))
  BY DEF Drain
<1>2. wire \in Seq(Octets) /\ writeBuf \in Seq(Octets)
  BY InFlightType
<1>3. SubSeq(writeBuf, 1, n) \o SubSeq(writeBuf, n + 1, Len(writeBuf)) = writeBuf
  BY <1>2
<1>4. InFlight' = InFlight
  <2> DEFINE a == SubSeq(writeBuf, 1, n)
             b == SubSeq(writeBuf, n + 1, Len(writeBuf))
  <2>1. a \in Seq(Octets) /\ b \in Seq(Octets)
    BY <1>2
  <2> HIDE DEF a, b
  <2>2. (wire \o a) \o b = wire \o (a \o b)
    BY <1>2, <2>1
  <2>3. InFlight' = (wire \o a) \o b /\ a \o b = writeBuf
    BY <1>1, <1>3 DEF InFlight, a, b
  <2> QED
    BY <2>2, <2>3 DEF InFlight
<1>5. PICK p : /\ Route(p, InFlight, signed)
               /\ sender # "dropped" => ToEnd(p, InFlight, signed)
               /\ ReadsAt(p[1])
  BY DEF Aligned
<1>6. UNCHANGED <<sender, signed, inFrame, frame, verifyCounter, idle, readErr>>
  BY DEF Drain, frameVars, verifyVars, endVars
<1>7. ReadsAt(p[1])'
  BY <1>5, <1>6, ReaderStays DEF Fresh
<1>8. Route(p, InFlight', signed')
  BY <1>4, <1>5, <1>6
<1> QED
  BY <1>4, <1>5, <1>6, <1>7, <1>8 DEF Aligned

(* Dropping the stream cuts the route.                                     *)
LEMMA DropAligned ==
  ASSUME TypeOK, Aligned, Drop
  PROVE  Aligned'
<1>1. PICK p : Route(p, InFlight, signed) /\ ReadsAt(p[1])
  BY DEF Aligned
<1>2. /\ sender' = "dropped" /\ writeBuf' = <<>>
      /\ UNCHANGED <<signed, wire, inFrame, frame, verifyCounter, idle, readErr>>
  BY DEF Drop, frameVars, verifyVars, endVars
<1>3. wire \in Seq(Octets) /\ writeBuf \in Seq(Octets)
  BY InFlightType
<1>4. InFlight' = wire
  BY <1>2, <1>3 DEF InFlight
<1>5. PICK t : Route(t, wire, signed) /\ t[1] = p[1]
  BY <1>1, <1>3, RouteCut DEF InFlight
<1>6. ReadsAt(p[1])'
  BY <1>1, <1>2, ReaderStays DEF Fresh
<1>7. Route(t, InFlight', signed')
  BY <1>2, <1>4, <1>5
<1> QED
  BY <1>2, <1>5, <1>6, <1>7 DEF Aligned

(* The reader takes the octet at its place, and the route goes on after.   *)
LEMMA OctetTaken ==
  ASSUME TypeOK, Aligned, wire # <<>>, wire' = Tail(wire), UNCHANGED writerVars
  PROVE  \E q \in Places : /\ ReadsAt(q)
                           /\ IsPlace(signed, q)
                           /\ Octet = OctetAt(signed, q)
                           /\ ReadsAt(After(signed, q))' => Aligned'
<1>1. PICK p : /\ Route(p, InFlight, signed)
               /\ sender # "dropped" => ToEnd(p, InFlight, signed)
               /\ ReadsAt(p[1])
  BY DEF Aligned
<1>2. wire \in Seq(Octets) /\ writeBuf \in Seq(Octets) /\ InFlight \in Seq(Octets)
  BY InFlightType
<1>3. UNCHANGED <<sender, signed, writeBuf>>
  BY DEF writerVars
<1>4. /\ InFlight # <<>> /\ Head(InFlight) = Octet
      /\ Tail(InFlight) = InFlight'
  <2>1. /\ wire \o writeBuf # <<>> /\ Head(wire \o writeBuf) = Head(wire)
        /\ Tail(wire \o writeBuf) = Tail(wire) \o writeBuf
    BY <1>2
  <2> QED
    BY <1>3, <2>1 DEF InFlight, Octet
<1>5. PICK t : /\ Route(t, Tail(InFlight), signed)
               /\ t[1] = After(signed, p[1])
               /\ ToEnd(p, InFlight, signed) => ToEnd(t, Tail(InFlight), signed)
  BY <1>1, <1>2, <1>4, RouteTail
<1>6. /\ IsPlace(signed, p[1]) /\ p[1] \in Places
      /\ Octet = OctetAt(signed, p[1])
  BY <1>1, <1>2, <1>4, RouteTail
<1>7. ASSUME ReadsAt(After(signed, p[1]))'
      PROVE  Aligned'
  <2>1. Route(t, InFlight', signed')
    BY <1>3, <1>4, <1>5
  <2>2. sender' # "dropped" => ToEnd(t, InFlight', signed')
    BY <1>1, <1>3, <1>4, <1>5
  <2>3. ReadsAt(t[1])'
    BY <1>3, <1>5, <1>7
  <2> QED
    BY <2>1, <2>2, <2>3 DEF Aligned
<1> QED
  BY <1>1, <1>6, <1>7

(* A place within a frame.                                                 *)
LEMMA PlaceFacts ==
  ASSUME TypeOK, NEW q \in Places, IsPlace(signed, q)
  PROVE  /\ q[1] \in 1..Len(signed) /\ q[2] \in Nat /\ q[2] >= 1
         /\ signed[q[1]].octets \in Nat
         /\ Size(signed, q[1]) = signed[q[1]].octets + 2
         /\ q[2] <= Size(signed, q[1])
         /\ OctetAt(signed, q) = Flag <=> q[2] = 1 \/ q[2] = Size(signed, q[1])
<1>1. signed \in Seq(PayloadType)
  BY DEF TypeOK
<1>2. q[1] \in 1..Len(signed) /\ signed[q[1]] \in PayloadType
  BY <1>1 DEF IsPlace
<1>3. signed[q[1]].octets \in Nat
  BY <1>2 DEF PayloadType
<1>4. q[2] \in 1..Size(signed, q[1])
  BY DEF IsPlace
<1>5. Size(signed, q[1]) = signed[q[1]].octets + 2
  BY DEF Size
<1>6. OctetAt(signed, q) = Flag <=> q[2] = 1 \/ q[2] = Size(signed, q[1])
  BY <1>1, FlagPlaces
<1> QED
  BY <1>2, <1>3, <1>4, <1>5, <1>6

(* Between frames the next octet is a flag.                                *)
LEMMA NothingSkipped ==
  ASSUME TypeOK, Aligned
  PROVE  ~Skip
<1> SUFFICES ASSUME Skip PROVE FALSE
  OBVIOUS
<1>1. /\ wire # <<>> /\ wire' = Tail(wire) /\ UNCHANGED writerVars
      /\ ~inFrame /\ Octet # Flag
  BY DEF Skip
<1>2. PICK q \in Places : ReadsAt(q) /\ IsPlace(signed, q)
                          /\ Octet = OctetAt(signed, q)
  BY <1>1, OctetTaken
<1>3. q[2] = 1
  BY <1>1, <1>2 DEF ReadsAt
<1> QED
  BY <1>1, <1>2, <1>3, PlaceFacts

(* The opening flag.                                                       *)
LEMMA OpenAligned ==
  ASSUME TypeOK, Aligned, OpenFrame
  PROVE  Aligned'
<1>1. /\ wire # <<>> /\ wire' = Tail(wire) /\ UNCHANGED writerVars
      /\ ~inFrame /\ inFrame' = TRUE /\ frame' = <<Flag>>
      /\ UNCHANGED <<signed, verifyCounter, idle, readErr>>
  BY DEF OpenFrame, writerVars, verifyVars, endVars
<1>2. PICK q \in Places : /\ ReadsAt(q) /\ IsPlace(signed, q)
                          /\ Octet = OctetAt(signed, q)
                          /\ ReadsAt(After(signed, q))' => Aligned'
  BY <1>1, OctetTaken
<1>3. /\ q[1] \in 1..Len(signed) /\ signed[q[1]].octets \in Nat
      /\ Size(signed, q[1]) = signed[q[1]].octets + 2
  BY <1>2, PlaceFacts
<1>4. q[2] = 1
  BY <1>1, <1>2 DEF ReadsAt
<1>5. After(signed, q) = <<q[1], 2>>
  BY <1>3, <1>4 DEF After
<1>6. IsPlace(signed, <<q[1], 2>>)
  BY <1>3 DEF IsPlace
<1>7. Octet = Flag
  BY DEF OpenFrame
<1>8. OctetAt(signed, <<q[1], 1>>) = Flag
  <2>1. q = <<q[1], 1>>
    BY <1>4 DEF Places
  <2> QED
    BY <1>2, <1>7, <2>1
<1>9. Len(frame') = 1 /\ frame'[1] = Flag
  BY <1>1
<1>10. Fresh \/ readErr = "none" => verifyCounter = q[1] - 1
  BY <1>2 DEF ReadsAt
<1>11. ReadsAt(<<q[1], 2>>)'
  BY <1>1, <1>6, <1>8, <1>9, <1>10 DEF ReadsAt, Fresh
<1> QED
  BY <1>1, <1>2, <1>5, <1>11

(* An octet of the frame in hand.                                          *)
LEMMA CollectAligned ==
  ASSUME TypeOK, Aligned, Collect
  PROVE  Aligned'
<1>1. /\ wire # <<>> /\ wire' = Tail(wire) /\ UNCHANGED writerVars
      /\ inFrame /\ inFrame' = inFrame /\ Octet # Flag
      /\ frame' = Append(frame, Octet)
      /\ UNCHANGED <<signed, verifyCounter, idle, readErr>>
  BY DEF Collect, writerVars, verifyVars, endVars
<1>2. PICK q \in Places : /\ ReadsAt(q) /\ IsPlace(signed, q)
                          /\ Octet = OctetAt(signed, q)
                          /\ ReadsAt(After(signed, q))' => Aligned'
  BY <1>1, OctetTaken
<1>3. /\ q[1] \in 1..Len(signed) /\ q[2] \in Nat /\ q[2] <= Size(signed, q[1])
      /\ Size(signed, q[1]) \in Nat /\ q[2] # Size(signed, q[1])
  BY <1>1, <1>2, PlaceFacts
<1>4. /\ q[2] > 1 /\ Len(frame) = q[2] - 1
      /\ \A i \in 1..Len(frame) : frame[i] = OctetAt(signed, <<q[1], i>>)
      /\ Fresh \/ readErr = "none" => verifyCounter = q[1] - 1
  BY <1>1, <1>2 DEF ReadsAt
<1>5. After(signed, q) = <<q[1], q[2] + 1>>
  BY <1>3 DEF After
<1>6. IsPlace(signed, <<q[1], q[2] + 1>>)
  BY <1>3 DEF IsPlace
<1>7. frame \in Seq(Octets) /\ Octet \in Octets
  BY <1>1, TailType DEF TypeOK, Octet, Octets
<1>8. /\ Len(frame') = q[2]
      /\ frame'[q[2]] = Octet
      /\ \A i \in 1..(q[2] - 1) : frame'[i] = frame[i]
  BY <1>1, <1>3, <1>4, <1>7
<1>9. q = <<q[1], q[2]>>
  BY DEF Places
<1>10. ASSUME NEW i \in 1..Len(frame')
       PROVE  frame'[i] = OctetAt(signed, <<q[1], i>>)
  <2>1. CASE i = q[2]
    BY <1>2, <1>8, <1>9, <2>1
  <2>2. CASE i # q[2]
    <3>1. i \in 1..(q[2] - 1)
      BY <1>3, <1>8, <2>2
    <3> QED
      BY <1>4, <1>8, <3>1
  <2> QED
    BY <2>1, <2>2
<1>11. (q[2] + 1) > 1 /\ Len(frame') = (q[2] + 1) - 1
  <2>1. q[2] \in Nat /\ q[2] > 1
    BY <1>3, <1>4
  <2>2. Len(frame') = q[2]
    BY <1>8
  <2> QED
    BY <2>1, <2>2
<1>12. ReadsAt(<<q[1], q[2] + 1>>)'
  BY <1>1, <1>4, <1>6, <1>10, <1>11 DEF ReadsAt, Fresh
<1> QED
  BY <1>1, <1>2, <1>5, <1>12

(* A frame that does not fit is one that was too long when it was written. *)
LEMMA TooLong ==
  ASSUME TypeOK, Aligned, RefuseLongFrame
  PROVE  Oversized
<1>1. wire # <<>> /\ wire' = Tail(wire) /\ UNCHANGED writerVars /\ inFrame /\ ~Fits
  BY DEF RefuseLongFrame
<1>2. PICK q \in Places : ReadsAt(q) /\ IsPlace(signed, q)
  BY <1>1, OctetTaken
<1>3. /\ q[1] \in 1..Len(signed) /\ q[2] \in Nat
      /\ signed[q[1]].octets \in Nat
      /\ q[2] <= signed[q[1]].octets + 2
  BY <1>2, PlaceFacts
<1>4. Len(frame) = q[2] - 1
  BY <1>1, <1>2 DEF ReadsAt
<1>5. Len(frame) >= MaxFrame
  BY <1>1, <1>3, <1>4, SizeAssumption DEF Fits
<1>6. signed[q[1]].octets + 2 > MaxFrame
  BY <1>3, <1>4, <1>5, SizeAssumption
<1> QED
  BY <1>3, <1>6 DEF Oversized

(* A flag inside a frame closes it: it is whole, and it is the one whose   *)
(* counter is due, unless one before it was refused.                       *)
LEMMA ClosedFrame ==
  ASSUME TypeOK, Ledger, Aligned, CloseFrame, UNCHANGED writerVars
  PROVE  \E k \in 1..Len(signed) :
           /\ Carries(Append(frame, Flag), k)
           /\ signed[k].counter = k - 1
           /\ Fresh \/ readErr = "none" => verifyCounter = k - 1
           /\ ReadsAt(<<k + 1, 1>>)' => Aligned'
<1>1. /\ wire # <<>> /\ wire' = Tail(wire) /\ inFrame /\ Octet = Flag
  BY DEF CloseFrame
<1>2. PICK q \in Places : /\ ReadsAt(q) /\ IsPlace(signed, q)
                          /\ Octet = OctetAt(signed, q)
                          /\ ReadsAt(After(signed, q))' => Aligned'
  BY <1>1, OctetTaken
<1> DEFINE k == q[1]
           n == signed[k].octets
<1>3. /\ k \in 1..Len(signed) /\ k \in Nat \ {0}
      /\ n \in Nat /\ Size(signed, k) = n + 2
      /\ q[2] = 1 \/ q[2] = n + 2
  BY <1>1, <1>2, PlaceFacts DEF Places
<1>4. /\ q[2] > 1 /\ Len(frame) = q[2] - 1
      /\ \A i \in 1..Len(frame) : frame[i] = OctetAt(signed, <<k, i>>)
      /\ Fresh \/ readErr = "none" => verifyCounter = k - 1
  BY <1>1, <1>2 DEF ReadsAt
<1>5. q[2] = n + 2
  BY <1>3, <1>4
<1>6. After(signed, q) = <<k + 1, 1>>
  BY <1>3, <1>5 DEF After
<1>7. Carries(Append(frame, Flag), k)
  <2> DEFINE f == Append(frame, Flag)
             g == Frame(k, n)
  <2>1. frame \in Seq(Octets) /\ Flag \in Octets
    BY DEF TypeOK, Flag, Octets
  <2>2. Len(frame) = n + 1
    BY <1>3, <1>4, <1>5
  <2>3. /\ f \in Seq(Octets) /\ Len(f) = n + 2 /\ f[n + 2] = Flag
        /\ \A i \in 1..(n + 1) : f[i] = frame[i]
    BY <1>3, <2>1, <2>2
  <2>4. g \in Seq(Octets)
    BY <1>3, FrameType DEF Octets
  <2>5. Len(g) = n + 2 /\ g[n + 2] = Flag
    BY <1>3, FrameOctets
  <2>6. \A i \in 1..(n + 1) : f[i] = g[i]
    <3>1. \A i \in 1..(n + 1) : OctetAt(signed, <<k, i>>) = g[i]
      BY DEF OctetAt
    <3> QED
      BY <1>4, <2>2, <2>3, <3>1
  <2> HIDE DEF f, g
  <2>7. \A i \in 1..(n + 2) : f[i] = g[i]
    <3>1. ASSUME NEW i \in 1..(n + 2)
          PROVE  f[i] = g[i]
      <4>1. i \in 1..(n + 1) \/ i = n + 2
        BY <1>3
      <4> QED
        BY <2>3, <2>5, <2>6, <4>1
    <3> QED
      BY <3>1
  <2>8. f = g
    BY <2>3, <2>4, <2>5, <2>7, SeqEqual
  <2> QED
    BY <2>8 DEF Carries, f, g
<1>8. signed[k].counter = k - 1
  BY <1>3 DEF Ledger
<1>9. ReadsAt(<<k + 1, 1>>)' => Aligned'
  <2>1. signed' = signed
    BY DEF writerVars
  <2> QED
    BY <1>2, <1>6, <2>1
<1> HIDE DEF k
<1> QED
  BY <1>3, <1>4, <1>7, <1>8, <1>9, Zenon

(* A frame that verifies is the one whose counter was due.                 *)
LEMMA AcceptAligned ==
  ASSUME TypeOK, Ledger, Cursor, Aligned, AcceptPayload
  PROVE  Aligned'
<1>1. /\ CloseFrame /\ UNCHANGED writerVars /\ inFrame' = FALSE
  BY DEF AcceptPayload, CloseFrame
<1>2. PICK k \in 1..Len(signed) :
        /\ signed[k].counter = k - 1
        /\ Fresh \/ readErr = "none" => verifyCounter = k - 1
        /\ ReadsAt(<<k + 1, 1>>)' => Aligned'
  BY <1>1, ClosedFrame
<1>3. PICK j \in 1..Len(signed) : Accepts(j) /\ verifyCounter' = CounterAfter(j)
  BY DEF AcceptPayload
<1>4. verifyCounter' = (k + 1) - 1
  <2>1. verifyCounter = k - 1 /\ k \in Nat
    BY <1>2, <1>3 DEF Accepts
  <2> QED
    BY <1>3, <2>1 DEF CounterAfter
<1>5. ReadsAt(<<k + 1, 1>>)'
  BY <1>1, <1>4 DEF ReadsAt
<1> QED
  BY <1>2, <1>5

(* Without faults only an idle session refuses a frame.                    *)
LEMMA RefuseAligned ==
  ASSUME TypeOK, Ledger, Aligned, RefuseFrame
  PROVE  Aligned' /\ ~Fresh
<1>1. /\ CloseFrame /\ UNCHANGED writerVars /\ inFrame' = FALSE
      /\ readErr' = "packet" /\ UNCHANGED idle
  BY DEF RefuseFrame, CloseFrame, verifyVars
<1>2. PICK k \in 1..Len(signed) :
        /\ Carries(Append(frame, Flag), k)
        /\ signed[k].counter = k - 1
        /\ Fresh \/ readErr = "none" => verifyCounter = k - 1
        /\ ReadsAt(<<k + 1, 1>>)' => Aligned'
  BY <1>1, ClosedFrame
<1>3. ~Accepts(k)
  BY DEF RefuseFrame
<1>4. ~Fresh
  BY <1>2, <1>3 DEF Accepts, CounterMatches
<1>5. ReadsAt(<<k + 1, 1>>)'
  BY <1>1, <1>4 DEF ReadsAt, Fresh
<1> QED
  BY <1>2, <1>4, <1>5

-----------------------------------------------------------------------------
(* The invariant.                                                          *)

(* Nothing is under way, and the first frame will start here.              *)
LEMMA InitClean == Init => Clean
<1> SUFFICES ASSUME Init PROVE Clean
  OBVIOUS
<1> DEFINE p == [i \in 1..1 |-> <<1, 1>>]
<1>1. InFlight = <<>> /\ signed = <<>> /\ Len(InFlight) = 0 /\ Len(signed) = 0
  BY DEF Init, InFlight
<1>2. <<1, 1>> \in Places
  BY DEF Places
<1>3. p \in [1..1 -> Places] /\ p[1] = <<1, 1>>
  BY <1>2
<1> HIDE DEF p
<1>4. Route(p, InFlight, signed) /\ ToEnd(p, InFlight, signed)
  BY <1>1, <1>3 DEF Route, ToEnd
<1>5. ReadsAt(p[1])
  BY <1>3 DEF ReadsAt, Init
<1>6. Aligned
  BY <1>4, <1>5 DEF Aligned
<1>7. Causes /\ Endings
  BY DEF Init, Causes, Endings
<1> QED
  BY <1>6, <1>7 DEF Clean

(* What the writer does, the reader does not see.                          *)
WriterStep == \/ \E n \in 0..MaxWrite, escapes \in 0..MaxEscapes : Queue(n, escapes)
              \/ Drain \/ DrainFails \/ Shutdown \/ Drop

LEMMA WriterStepClean ==
  ASSUME Inv, [Next]_vars, Causes, Endings, Stuck \/ Aligned, WriterStep
  PROVE  Causes' /\ Endings' /\ (Stuck \/ Aligned)'
<1>0. TypeOK
  BY DEF Inv
<1>1. sender = "open" /\ UNCHANGED <<inFrame, frame, verifyCounter, idle, reader,
                                     readErr, unread>>
  BY DEF WriterStep, Queue, Drain, DrainFails, Shutdown, Drop, frameVars,
         verifyVars, dataVars, endVars
<1>2. Oversized => Oversized'
  BY <1>0, OversizedStays
<1>3. Causes'
  BY <1>1, <1>2 DEF Causes, Fresh
<1>4. /\ reader # "eof" /\ reader' # "eof"
      /\ sender' \in {"shut", "dropped"} => writeBuf' = <<>>
      /\ sender' = "failed" => reader' = "gone"
  BY <1>1
  DEF WriterStep, Queue, Drain, DrainFails, Shutdown, Drop, Endings, MayShutdown,
      Drained, endVars, writerVars
<1>5. Endings'
  BY <1>4 DEF Endings
<1>6. (Stuck \/ Aligned)'
  <2>1. CASE Stuck
    BY <1>1, <1>2, <2>1 DEF Stuck, Fits
  <2>2. CASE Aligned
    <3>1. CASE \E n \in 0..MaxWrite, escapes \in 0..MaxEscapes : Queue(n, escapes)
      BY <1>0, <2>2, <3>1, QueueAligned, BoundAssumption
    <3>2. CASE Drain
      BY <1>0, <2>2, <3>2, DrainAligned
    <3>3. CASE Drop
      BY <1>0, <2>2, <3>3, DropAligned
    <3>4. CASE DrainFails \/ Shutdown
      <4>1. sender' # "dropped" /\ sender # "dropped"
            /\ UNCHANGED <<signed, writeBuf, wire>>
        BY <1>1, <3>4 DEF DrainFails, Shutdown
      <4>2. PICK p : /\ Route(p, InFlight, signed)
                     /\ sender # "dropped" => ToEnd(p, InFlight, signed)
                     /\ ReadsAt(p[1])
        BY <2>2 DEF Aligned
      <4>3. InFlight' = InFlight
        BY <4>1 DEF InFlight
      <4>4. ReadsAt(p[1])'
        BY <1>1, <4>1, <4>2, ReaderStays DEF Fresh
      <4>5. Route(p, InFlight', signed') /\ ToEnd(p, InFlight', signed')
        BY <4>1, <4>2, <4>3
      <4> QED
        BY <4>4, <4>5 DEF Aligned
    <3> QED
      BY <3>1, <3>2, <3>3, <3>4 DEF WriterStep
  <2> QED
    BY <2>1, <2>2
<1> QED
  BY <1>3, <1>5, <1>6

(* Taking an octet.                                                        *)
OctetStep == \/ Skip \/ OpenFrame \/ Collect \/ RefuseLongFrame
             \/ AcceptPayload \/ RefuseFrame

LEMMA OctetStepClean ==
  ASSUME Inv, [Next]_vars, Causes, Endings, Stuck \/ Aligned, OctetStep
  PROVE  Causes' /\ Endings' /\ (Stuck \/ Aligned)'
<1>0. TypeOK /\ Ledger /\ Cursor
  BY DEF Inv
<1>1. /\ UNCHANGED <<sender, writeBuf, reader>> /\ reader = "open"
  BY DEF OctetStep, Skip, OpenFrame, Collect, RefuseLongFrame, AcceptPayload,
         RefuseFrame, CloseFrame, Reading, writerVars, endVars
<1>2. Endings'
  BY <1>1 DEF Endings
<1>3. Oversized => Oversized'
  BY <1>0, OversizedStays
<1>4. CASE RefuseLongFrame
  <2>1. Oversized
    BY <1>0, <1>4, TooLong DEF Stuck
  <2>2. /\ inFrame /\ ~Fits /\ readErr' = "long"
        /\ UNCHANGED <<inFrame, frame>>
    BY <1>4 DEF RefuseLongFrame, frameVars
  <2>3. Stuck'
    BY <1>3, <2>1, <2>2 DEF Stuck, Fits
  <2>4. Causes'
    BY <1>3, <2>1, <2>2 DEF Causes
  <2> QED
    BY <1>2, <2>3, <2>4
<1>5. CASE ~RefuseLongFrame
  <2>1. ~Stuck /\ Aligned
    BY <1>5 DEF Stuck, OctetStep, Skip, OpenFrame, Collect, AcceptPayload,
                RefuseFrame, CloseFrame
  <2>2. CASE Skip
    BY <1>0, <2>1, <2>2, NothingSkipped
  <2>3. CASE OpenFrame
    <3>1. UNCHANGED <<idle, readErr>>
      BY <2>3 DEF OpenFrame, verifyVars, endVars
    <3>2. Causes'
      BY <1>1, <1>3, <3>1 DEF Causes, Fresh
    <3> QED
      BY <1>0, <1>2, <2>1, <2>3, <3>2, OpenAligned
  <2>4. CASE Collect
    <3>1. UNCHANGED <<idle, readErr>>
      BY <2>4 DEF Collect, verifyVars, endVars
    <3>2. Causes'
      BY <1>1, <1>3, <3>1 DEF Causes, Fresh
    <3> QED
      BY <1>0, <1>2, <2>1, <2>4, <3>2, CollectAligned
  <2>5. CASE AcceptPayload
    <3>1. UNCHANGED readErr /\ Fresh
      BY <2>5 DEF AcceptPayload, Accepts, endVars
    <3>2. Causes'
      BY <1>1, <1>3, <3>1 DEF Causes
    <3> QED
      BY <1>0, <1>2, <2>1, <2>5, <3>2, AcceptAligned
  <2>6. CASE RefuseFrame
    <3>1. UNCHANGED idle /\ readErr' = "packet"
      BY <2>6 DEF RefuseFrame, verifyVars
    <3>2. Aligned' /\ ~Fresh
      BY <1>0, <2>1, <2>6, RefuseAligned
    <3>3. Causes'
      BY <3>1, <3>2 DEF Causes, Fresh
    <3> QED
      BY <1>2, <3>2, <3>3
  <2> QED
    BY <1>5, <2>2, <2>3, <2>4, <2>5, <2>6 DEF OctetStep
<1> QED
  BY <1>4, <1>5

(* The end of the stream comes between frames, or it was cut off.          *)
LEMMA EofClean ==
  ASSUME Inv, [Next]_vars, Causes, Endings, Stuck \/ Aligned, ReadEof
  PROVE  Causes' /\ Endings' /\ (Stuck \/ Aligned)'
<1>0. TypeOK
  BY DEF Inv
<1>1. /\ wire = <<>> /\ sender # "open" /\ reader = "open" /\ unread.from = unread.to
      /\ reader' = "eof" /\ readErr' = IF inFrame THEN "eof" ELSE readErr
      /\ UNCHANGED <<sender, signed, writeBuf, wire, inFrame, frame, verifyCounter,
                     idle, unread>>
  BY DEF ReadEof, Reading, writerVars, frameVars, verifyVars, dataVars
<1>2. Oversized => Oversized'
  BY <1>0, OversizedStays
<1>3. Endings'
  BY <1>1 DEF Endings
<1>4. (Stuck \/ Aligned)'
  <2>1. CASE Stuck
    BY <1>1, <1>2, <2>1 DEF Stuck, Fits
  <2>2. CASE Aligned
    BY <1>1, <2>2, AlignedStays DEF Fresh
  <2> QED
    BY <2>1, <2>2
<1>5. ASSUME inFrame
      PROVE  sender = "dropped" \/ Oversized
  <2>1. CASE Stuck
    BY <2>1 DEF Stuck
  <2>2. CASE Aligned /\ sender # "dropped"
    <3>1. sender = "shut"
      BY <1>0, <1>1, <2>2 DEF Endings, TypeOK
    <3>2. InFlight = <<>> /\ Len(InFlight) = 0
      BY <1>1, <3>1 DEF Endings, InFlight
    <3>3. PICK p : ToEnd(p, InFlight, signed) /\ ReadsAt(p[1])
      BY <2>2 DEF Aligned
    <3>4. p[1] = <<Len(signed) + 1, 1>>
      BY <3>2, <3>3 DEF ToEnd
    <3> QED
      BY <1>5, <3>3, <3>4 DEF ReadsAt
  <2> QED
    BY <2>1, <2>2
<1>6. Causes'
  BY <1>1, <1>2, <1>5 DEF Causes, Fresh
<1> QED
  BY <1>3, <1>4, <1>6

(* The rest does not touch the octets.                                     *)
AsideStep == ReadOn \/ ReaderDrops \/ Tick \/ UNCHANGED vars

LEMMA AsideStepClean ==
  ASSUME Inv, [Next]_vars, Causes, Endings, Stuck \/ Aligned, AsideStep
  PROVE  Causes' /\ Endings' /\ (Stuck \/ Aligned)'
<1>0. TypeOK
  BY DEF Inv
<1>1. /\ UNCHANGED <<sender, signed, writeBuf, wire, inFrame, frame, verifyCounter,
                     readErr>>
      /\ Fresh' => Fresh
      /\ ~Fresh => ~Fresh'
  <2>1. CASE ReadOn
    BY <2>1 DEF ReadOn, writerVars, frameVars, verifyVars, endVars, Fresh
  <2>2. CASE ReaderDrops
    BY <2>2 DEF ReaderDrops, writerVars, frameVars, verifyVars, Fresh
  <2>3. CASE Tick
    BY <2>3 DEF Tick, writerVars, frameVars, endVars
  <2>4. CASE UNCHANGED vars
    BY <2>4 DEF vars, writerVars, frameVars, verifyVars, endVars, Fresh
  <2> QED
    BY <2>1, <2>2, <2>3, <2>4 DEF AsideStep
<1>2. Oversized => Oversized'
  BY <1>0, OversizedStays
<1>3. Causes'
  BY <1>1, <1>2 DEF Causes
<1>4. Endings'
  <2>1. \/ reader' # "eof" /\ (reader = "gone" => reader' = "gone")
        \/ UNCHANGED <<reader, unread>>
    BY DEF AsideStep, ReadOn, ReaderDrops, Tick, vars, endVars, dataVars
  <2> QED
    BY <1>1, <2>1 DEF Endings
<1>5. (Stuck \/ Aligned)'
  <2>1. CASE Stuck
    BY <1>1, <1>2, <2>1 DEF Stuck, Fits
  <2>2. CASE Aligned
    BY <1>1, <2>2, AlignedStays
  <2> QED
    BY <2>1, <2>2
<1> QED
  BY <1>3, <1>4, <1>5

(* Every step keeps what is under way in its place.                        *)
LEMMA StepClean == Inv /\ Clean /\ [Next]_vars => Clean'
<1> SUFFICES ASSUME Inv, Clean, [Next]_vars, faults' = 0
             PROVE  Causes' /\ Endings' /\ (Stuck \/ Aligned)'
  BY DEF Clean
<1>1. \/ WriterStep \/ OctetStep \/ ReadEof \/ AsideStep \/ Radio
  BY NextCases DEF WriterStep, OctetStep, AsideStep, Plumbing
<1>2. ~Radio /\ faults = 0
  <2>1. faults \in Nat
    BY BoundAssumption DEF Inv, TypeOK
  <2>2. ~Radio
    BY <2>1 DEF Radio, Lose, Stray, Replay, Fault
  <2>3. faults' = faults
    BY <1>1, <2>2
    DEF WriterStep, OctetStep, AsideStep, Queue, Drain, DrainFails, Shutdown, Drop,
        Skip, OpenFrame, Collect, RefuseLongFrame, AcceptPayload, RefuseFrame,
        ReadOn, ReadEof, ReaderDrops, Tick, vars
  <2> QED
    BY <2>2, <2>3
<1>3. Causes /\ Endings /\ (Stuck \/ Aligned)
  BY <1>2 DEF Clean
<1> QED
  BY <1>1, <1>2, <1>3, WriterStepClean, OctetStepClean, EofClean, AsideStepClean

(* As long as there are no faults, all that is under way is in its place.  *)
THEOREM CleanMedium == Spec => [](Inv /\ Clean)
<1>1. Init => Inv /\ Clean
  BY InitInv, InitClean
<1>2. Inv /\ Clean /\ [Next]_vars => (Inv /\ Clean)'
  BY StepInv, StepClean
<1> QED
  BY <1>1, <1>2, PTL DEF Spec

(* On a medium without faults a read fails only because the session had    *)
(* been idle, a frame was too long, or the writer dropped the stream       *)
(* (transport.rs:79, 160).                                                 *)
THEOREM ErrorsExplained == Spec => []ErrorsHaveCause
<1>1. Inv /\ Clean => ErrorsHaveCause
  <2> SUFFICES ASSUME Inv, Clean, faults = 0
               PROVE  CASE readErr = "none" -> TRUE
                        [] readErr = "packet" -> ~Fresh
                        [] readErr = "long" -> Oversized
                        [] readErr = "eof" -> sender = "dropped" \/ Oversized
    BY DEF ErrorsHaveCause
  <2>1. Causes
    BY DEF Clean
  <2>2. readErr \in {"none", "packet", "long", "eof"}
    BY DEF Inv, TypeOK
  <2> QED
    BY <2>1, <2>2 DEF Causes
<1> QED
  BY <1>1, CleanMedium, PTL

(* After a shutdown, a clean end of file on such a medium means that all   *)
(* that was written has been read (transport.rs:98, hdlc.rs:42).           *)
THEOREM EofComplete == Spec => []CleanEofIsComplete
<1>1. Inv /\ Clean => CleanEofIsComplete
  <2> SUFFICES ASSUME Inv, Clean, reader = "eof", readErr = "none",
                      sender = "shut", faults = 0
               PROVE  Len(delivered) = Written
    BY DEF CleanEofIsComplete
  <2>1. Endings /\ (Stuck \/ Aligned)
    BY DEF Clean
  <2>2. /\ wire = <<>> /\ writeBuf = <<>> /\ ~inFrame
        /\ unread.from = unread.to
    BY <2>1 DEF Endings
  <2>3. Aligned
    BY <2>1, <2>2 DEF Stuck
  <2>4. PICK p : ToEnd(p, InFlight, signed) /\ ReadsAt(p[1])
    BY <2>3 DEF Aligned
  <2>5. Len(InFlight) = 0
    BY <2>2 DEF InFlight
  <2>6. p[1] = <<Len(signed) + 1, 1>>
    BY <2>4, <2>5 DEF ToEnd
  <2>7. verifyCounter = Len(signed)
    <3>1. verifyCounter = (Len(signed) + 1) - 1
      BY <2>4, <2>6 DEF ReadsAt
    <3>2. Len(signed) \in Nat
      BY DEF Inv, TypeOK
    <3> QED
      BY <3>1, <3>2
  <2>8. Len(delivered) = LastOf(verifyCounter)
    BY <2>2 DEF Inv, Cursor
  <2> QED
    BY <2>7, <2>8 DEF Written
<1> QED
  BY <1>1, CleanMedium, PTL
=============================================================================
