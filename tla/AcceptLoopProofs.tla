-------------------------- MODULE AcceptLoopProofs --------------------------
(***************************************************************************)
(* OthersGoOn holds of AcceptLoop for any number of callers, descriptors   *)
(* and failing accepts, and so does what the loops keep true of their      *)
(* connections: the backlog holds the callers that wait, each once         *)
(* (Queued); over AGW the loop waits for the one connection there is, and  *)
(* accepts only when there is none (OneByOne); over TCP the process never  *)
(* has more connections than descriptors (WithinLimit).                    *)
(***************************************************************************)
EXTENDS AcceptLoop, SequenceTheorems, FiniteSetTheorems, TLAPS

Phases == {"away", "queued", "handshake", "session", "over"}

TypeOK ==
  /\ mode \in {"tcp", "agw"}
  /\ talks \in SUBSET Callers
  /\ phase \in [Callers -> Phases]
  /\ gone \in SUBSET Callers
  /\ backlog \in Seq(Callers)
  /\ daemon \in {"accept", "handle", "down"}
  /\ faults \in Nat

Queued ==
  /\ \A i \in 1..Len(backlog) : phase[backlog[i]] = "queued"
  /\ \A i, j \in 1..Len(backlog) : backlog[i] = backlog[j] => i = j
  /\ \A c \in Callers : phase[c] = "queued" => \E i \in 1..Len(backlog) : backlog[i] = c

OneByOne ==
  /\ daemon = "handle" => mode = "agw" /\ Open # {}
  /\ daemon = "down" => Open = {}
  /\ mode = "agw" => /\ \A c, d \in Open : c = d
                     /\ daemon = "accept" => Open = {}

WithinLimit == mode = "tcp" => IsFiniteSet(Open) /\ Cardinality(Open) <= MaxOpen

Inv == TypeOK /\ Queued /\ OneByOne /\ WithinLimit

-----------------------------------------------------------------------------
LEMMA InitInv == Init => Inv
<1> SUFFICES ASSUME Init PROVE Inv
  OBVIOUS
<1>1. TypeOK
  BY DEF Init, TypeOK, Phases
<1>2. Open = {}
  BY DEF Init, Open
<1>3. Queued
  BY DEF Init, Queued
<1>4. OneByOne
  BY <1>2 DEF Init, OneByOne
<1>5. WithinLimit
  BY <1>2, FS_EmptySet, LimitAssumption DEF WithinLimit
<1> QED
  BY <1>1, <1>3, <1>4, <1>5 DEF Inv

LEMMA TypeStep == TypeOK /\ [Next]_vars => TypeOK'
<1> SUFFICES ASSUME TypeOK, [Next]_vars PROVE TypeOK'
  OBVIOUS
<1> USE DEF TypeOK, Phases
<1>1. ASSUME NEW c \in Callers, Call(c) PROVE TypeOK'
  BY <1>1 DEF Call
<1>2. ASSUME NEW c \in Callers, HangUp(c) PROVE TypeOK'
  BY <1>2 DEF HangUp
<1>3. ASSUME NEW c \in Callers, HandshakeSucceeds(c) PROVE TypeOK'
  BY <1>3 DEF HandshakeSucceeds
<1>4. ASSUME NEW c \in Callers, HandshakeFails(c) PROVE TypeOK'
  BY <1>4 DEF HandshakeFails, Fails, Returns
<1>5. ASSUME NEW c \in Callers, HandshakeTimeout(c) PROVE TypeOK'
  BY <1>5 DEF HandshakeTimeout, Fails, Returns
<1>6. ASSUME NEW c \in Callers, SessionReturns(c) PROVE TypeOK'
  BY <1>6 DEF SessionReturns, Fails, Returns
<1>7. CASE Accept
  <2>1. Head(backlog) \in Callers /\ Tail(backlog) \in Seq(Callers)
    BY <1>7, HeadTailProperties DEF Accept
  <2> QED
    BY <1>7, <2>1 DEF Accept, Handling
<1>8. CASE AcceptFails
  BY <1>8 DEF AcceptFails, Exit
<1>9. CASE UNCHANGED vars
  BY <1>9 DEF vars
<1> QED
  BY <1>1, <1>2, <1>3, <1>4, <1>5, <1>6, <1>7, <1>8, <1>9 DEF Next

(* The connection of c is over: its stream is dropped.                     *)
Ends(c) == /\ phase[c] \in {"handshake", "session"}
           /\ phase' = [phase EXCEPT ![c] = "over"]
           /\ daemon' = "accept"
           /\ UNCHANGED <<mode, backlog>>

(* The steps by what they do to connections and queue.                     *)
LEMMA NextCases ==
  ASSUME TypeOK, [Next]_vars
  PROVE  \/ \E c \in Callers : Call(c)
         \/ \E c \in Callers : /\ phase[c] = "handshake"
                              /\ phase' = [phase EXCEPT ![c] = "session"]
                              /\ UNCHANGED <<mode, backlog, daemon>>
         \/ \E c \in Callers : Ends(c)
         \/ Accept
         \/ AcceptFails
         \/ UNCHANGED <<mode, phase, backlog, daemon>>
<1>1. ASSUME NEW c \in Callers,
             \/ Call(c) \/ HangUp(c) \/ HandshakeSucceeds(c)
             \/ HandshakeFails(c) \/ HandshakeTimeout(c) \/ SessionReturns(c)
      PROVE  \/ Call(c)
             \/ /\ phase[c] = "handshake"
                /\ phase' = [phase EXCEPT ![c] = "session"]
                /\ UNCHANGED <<mode, backlog, daemon>>
             \/ Ends(c)
             \/ UNCHANGED <<mode, phase, backlog, daemon>>
  BY <1>1 DEF HangUp, HandshakeSucceeds, HandshakeFails, HandshakeTimeout, TimerFires,
              SessionReturns, Fails, Returns, Ends
<1>2. CASE UNCHANGED vars
  BY <1>2 DEF vars
<1> QED
  BY <1>1, <1>2 DEF Next

LEMMA QueuedStep == Inv /\ [Next]_vars => Queued'
<1> SUFFICES ASSUME Inv, [Next]_vars PROVE Queued'
  OBVIOUS
<1>0. TypeOK /\ Queued
  BY DEF Inv
<1>1. ASSUME NEW c \in Callers, Call(c) PROVE Queued'
  <2>1. \A i \in 1..Len(backlog) : backlog[i] \in Callers /\ backlog[i] # c
    BY <1>0, <1>1 DEF Call, TypeOK, Queued
  <2>2. /\ Len(backlog') = Len(backlog) + 1
        /\ \A i \in 1..Len(backlog) : backlog'[i] = backlog[i]
        /\ backlog'[Len(backlog) + 1] = c
    BY <1>0, <1>1, AppendProperties DEF Call, TypeOK
  <2>3. \A d \in Callers : phase'[d] = IF d = c THEN "queued" ELSE phase[d]
    BY <1>0, <1>1 DEF Call, TypeOK
  <2> QED
    BY <1>0, <2>1, <2>2, <2>3 DEF TypeOK, Queued
<1>2. ASSUME NEW c \in Callers, phase[c] = "handshake",
             phase' = [phase EXCEPT ![c] = "session"], UNCHANGED backlog
      PROVE  Queued'
  BY <1>0, <1>2 DEF TypeOK, Queued
<1>3. ASSUME NEW c \in Callers, Ends(c) PROVE Queued'
  BY <1>0, <1>3 DEF Ends, TypeOK, Queued
<1>4. CASE Accept
  <2>1. /\ Len(backlog') = Len(backlog) - 1
        /\ \A i \in 1..Len(backlog') : backlog'[i] = backlog[i + 1]
        /\ Head(backlog) = backlog[1]
        /\ Len(backlog) \in Nat /\ Len(backlog) >= 1
    BY <1>0, <1>4, HeadTailProperties, EmptySeq DEF Accept, TypeOK
  <2>2. \A d \in Callers : phase'[d] = IF d = backlog[1] THEN "handshake" ELSE phase[d]
    BY <1>0, <1>4, <2>1 DEF Accept, TypeOK
  <2>3. \A i \in 1..Len(backlog') : /\ backlog'[i] \in Callers /\ backlog'[i] # backlog[1]
                                    /\ phase[backlog'[i]] = "queued"
    BY <1>0, <2>1 DEF TypeOK, Queued
  <2>4. \A d \in Callers : phase'[d] = "queued" => \E i \in 1..Len(backlog') : backlog'[i] = d
    <3> SUFFICES ASSUME NEW d \in Callers, phase'[d] = "queued"
                 PROVE  \E i \in 1..Len(backlog') : backlog'[i] = d
      OBVIOUS
    <3>1. PICK i \in 1..Len(backlog) : backlog[i] = d
      BY <1>0, <2>2 DEF Queued
    <3>2. i # 1
      BY <2>2, <3>1
    <3>3. i - 1 \in 1..Len(backlog') /\ backlog'[i - 1] = d
      BY <2>1, <3>1, <3>2
    <3> QED
      BY <3>3
  <2>5. \A i, j \in 1..Len(backlog') : backlog'[i] = backlog'[j] => i = j
    <3> SUFFICES ASSUME NEW i \in 1..Len(backlog'), NEW j \in 1..Len(backlog'),
                        backlog'[i] = backlog'[j]
                 PROVE  i = j
      OBVIOUS
    <3>1. i + 1 \in 1..Len(backlog) /\ j + 1 \in 1..Len(backlog)
      BY <2>1
    <3>2. backlog[i + 1] = backlog[j + 1]
      BY <2>1
    <3>3. i + 1 = j + 1
      BY <1>0, <3>1, <3>2 DEF Queued
    <3> QED
      BY <3>3
  <2> QED
    BY <2>2, <2>3, <2>4, <2>5 DEF Queued
<1>5. CASE AcceptFails
  BY <1>0, <1>5 DEF AcceptFails, Exit, TypeOK, Queued
<1>6. CASE UNCHANGED <<mode, phase, backlog, daemon>>
  BY <1>0, <1>6 DEF Queued
<1> QED
  BY <1>0, <1>1, <1>2, <1>3, <1>4, <1>5, <1>6, NextCases

(* What a step does to the connections that are open.                      *)
LEMMA OpenStep ==
  ASSUME Inv, [Next]_vars
  PROVE  /\ mode' = mode
         /\ \/ Open' = Open /\ daemon' = daemon
            \/ /\ daemon = "accept" /\ ~NoDescriptor /\ daemon' = Handling
               /\ \E c \in Callers : Open' = Open \cup {c}
            \/ /\ daemon' = "accept"
               /\ \E c \in Open : Open' = Open \ {c}
            \/ daemon' = "down" /\ Open' = {}
<1>0. TypeOK /\ Queued
  BY DEF Inv
<1>1. ASSUME NEW c \in Callers, Call(c) PROVE Open' = Open
  BY <1>0, <1>1 DEF Call, TypeOK, Open
<1>2. ASSUME NEW c \in Callers, phase[c] = "handshake",
             phase' = [phase EXCEPT ![c] = "session"]
      PROVE  Open' = Open
  BY <1>0, <1>2 DEF TypeOK, Open
<1>3. ASSUME NEW c \in Callers, Ends(c) PROVE c \in Open /\ Open' = Open \ {c}
  BY <1>0, <1>3 DEF Ends, TypeOK, Open
<1>4. CASE Accept
  <2>1. Head(backlog) \in Callers
    BY <1>0, <1>4, HeadTailProperties DEF Accept, TypeOK
  <2>2. Open' = Open \cup {Head(backlog)}
    BY <1>0, <1>4, <2>1 DEF Accept, TypeOK, Open
  <2> QED
    BY <1>4, <2>1, <2>2 DEF Accept
<1>5. CASE AcceptFails
  BY <1>0, <1>5 DEF AcceptFails, Exit, TypeOK, Open
<1>6. CASE UNCHANGED <<mode, phase, backlog, daemon>>
  BY <1>6 DEF Open
<1>7. \A c \in Callers : Call(c) => UNCHANGED <<mode, daemon>>
  BY DEF Call
<1>8. \A c \in Callers : Ends(c) => mode' = mode /\ daemon' = "accept"
  BY DEF Ends
<1> QED
  BY <1>0, <1>1, <1>2, <1>3, <1>4, <1>5, <1>6, <1>7, <1>8, NextCases

LEMMA OneByOneStep == Inv /\ [Next]_vars => OneByOne'
<1> SUFFICES ASSUME Inv, [Next]_vars PROVE OneByOne'
  OBVIOUS
<1>1. TypeOK /\ OneByOne
  BY DEF Inv
<1> QED
  BY <1>1, OpenStep DEF TypeOK, OneByOne, Handling

LEMMA WithinLimitStep == Inv /\ [Next]_vars => WithinLimit'
<1> SUFFICES ASSUME Inv, [Next]_vars, mode' = "tcp"
             PROVE  IsFiniteSet(Open') /\ Cardinality(Open') <= MaxOpen
  BY DEF WithinLimit
<1>1. mode = "tcp" /\ IsFiniteSet(Open) /\ Cardinality(Open) <= MaxOpen
  BY OpenStep DEF Inv, WithinLimit
<1>2. Cardinality(Open) \in Nat /\ MaxOpen \in Nat \ {0}
  BY <1>1, FS_CardinalityType, LimitAssumption
<1>3. ASSUME ~NoDescriptor, NEW c \in Callers, Open' = Open \cup {c}
      PROVE  IsFiniteSet(Open') /\ Cardinality(Open') <= MaxOpen
  <2>1. Cardinality(Open) < MaxOpen
    BY <1>1, <1>2, <1>3 DEF NoDescriptor
  <2> QED
    BY <1>1, <1>2, <1>3, <2>1, FS_AddElement
<1>4. ASSUME NEW c \in Open, Open' = Open \ {c}
      PROVE  IsFiniteSet(Open') /\ Cardinality(Open') <= MaxOpen
  BY <1>1, <1>2, <1>4, FS_RemoveElement
<1>5. ASSUME Open' = {}
      PROVE  IsFiniteSet(Open') /\ Cardinality(Open') <= MaxOpen
  BY <1>2, <1>5, FS_EmptySet
<1> QED
  BY <1>1, <1>3, <1>4, <1>5, OpenStep

-----------------------------------------------------------------------------
(* axshd keeps account of its connections: nobody waits twice or is        *)
(* forgotten, over AGW one connection at most is open and is what the loop *)
(* waits for, and over TCP there are never more than descriptors           *)
(* (axshd.rs:184-252).                                                     *)
THEOREM ConnectionsAccounted == Spec => []Inv
<1>1. Inv /\ [Next]_vars => Inv'
  BY TypeStep, QueuedStep, OneByOneStep, WithinLimitStep DEF Inv
<1> QED
  BY InitInv, <1>1, PTL DEF Spec

(* No connection ends because of another, for whatever reason that one     *)
(* ends: two that end in one step do so because accept failed, and main    *)
(* with it (axshd.rs:229, 240).                                            *)
THEOREM ConnectionsApart == Spec => OthersGoOn
<1>1. ASSUME Inv, [Next]_vars, EndTogether PROVE CannotAccept \/ faults' > faults
  <2>0. TypeOK
    BY <1>1 DEF Inv
  <2>1. PICK c \in Callers, d \in Callers :
           /\ c # d
           /\ phase[c] \in {"handshake", "session"} /\ phase[d] \in {"handshake", "session"}
           /\ phase'[c] = "over" /\ phase'[d] = "over"
    BY <1>1 DEF EndTogether, Open
  <2>2. ASSUME NEW e \in Callers, NEW p, phase' = [phase EXCEPT ![e] = p] PROVE FALSE
    BY <2>0, <2>1, <2>2 DEF TypeOK
  <2>3. phase' # phase
    BY <2>1
  <2>4. ~Accept
    <3>1. Accept => Head(backlog) \in Callers
      BY <2>0, HeadTailProperties DEF Accept, TypeOK
    <3> QED
      BY <2>2, <3>1 DEF Accept
  <2>5. AcceptFails
    BY <1>1, <2>0, <2>2, <2>3, <2>4, NextCases DEF Call, Ends
  <2> QED
    BY <2>0, <2>5 DEF AcceptFails, TypeOK
<1>2. Inv /\ [Next]_vars => (EndTogether => CannotAccept \/ faults' > faults)
  BY <1>1
<1> QED
  BY ConnectionsAccounted, <1>2, PTL DEF Spec, OthersGoOn
=============================================================================
