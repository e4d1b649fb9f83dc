------------------------- MODULE ShellSessionProofs -------------------------
(***************************************************************************)
(* TypeOK holds of ShellSession, and it implements LocalShell, for any     *)
(* lines, outputs, capacities and faults.                                  *)
(*                                                                         *)
(* What the terminal may show next is a matter of what it has shown, and   *)
(* that lies with the client; what is sent next is a matter of how far the *)
(* server has read the pipes.  Shown ties them together: as long as the    *)
(* server goes on, the chunks on the terminal and under way are all those  *)
(* of the commands before, and of this one those taken from its pipes but  *)
(* for the chunk in hand.  Ordered says each chunk under way will follow   *)
(* when its turn comes, and stays true when the server is gone.            *)
(***************************************************************************)
EXTENDS ShellSession, SequenceTheorems, FiniteSetTheorems, TLAPS

(* The lines under way are those after the one the server runs.            *)
LinesFollow ==
  srv \notin Ended =>
    /\ \A i \in 1..Len(up) : up[i] = cmd + i
    /\ cmd + Len(up) <= typed
    /\ cli = "loop" => typed = cmd + Len(up)
    /\ cli = "writing" => typed = cmd + Len(up) + 1

(* The server closes a pipe at its end only, and sends what it took last.  *)
Runs ==
  Serving =>
    /\ cmd \in Lines
    /\ \A p \in Pipes : /\ made[p] <= output[cmd][p]
                        /\ p \notin held => made[p] = output[cmd][p]
                        /\ p \notin open => taken[p] = output[cmd][p]
    /\ srv = "writing" =>
         \/ sending = Status(cmd) /\ open = {}
         \/ \E p \in Pipes : sending = Chunk(cmd, p, taken[p]) /\ taken[p] >= 1

(* The chunks and the status of a command that has run.                    *)
OfCommand(c) ==
  \/ c = Status(c.line)
  \/ c.from \in Pipes /\ c.n \in 1..output[c.line][c.from]

IsShown(c) ==
  \/ c.line < cmd /\ OfCommand(c)
  \/ c.line = cmd /\ srv = "reading" /\ OfCommand(c)
  \/ /\ c.line = cmd /\ Serving
     /\ c.from \in Pipes /\ c.n \in 1..taken[c.from]
     /\ srv = "writing" => c # sending

Sent == Local!Seen(terminal) \cup Local!Seen(down)

Shown == srv \notin Ended => \A c \in Chunks : c \in Sent <=> IsShown(c)

Ordered ==
  \A i \in 1..Len(down) :
    /\ down[i].line \in 1..typed
    /\ Local!Follows(down[i], Local!Seen(terminal) \cup {down[j] : j \in 1..(i - 1)}, output)

IInv == TypeOK /\ LinesFollow /\ Runs /\ Shown /\ Ordered

-----------------------------------------------------------------------------
(* Sequences and chunks.                                                   *)

LEMMA AppendOne ==
  ASSUME NEW S, NEW s \in Seq(S), NEW x \in S
  PROVE  /\ Append(s, x) \in Seq(S)
         /\ Len(Append(s, x)) = Len(s) + 1
         /\ \A i \in 1..Len(s) : Append(s, x)[i] = s[i]
         /\ Append(s, x)[Len(s) + 1] = x
         /\ Local!Seen(Append(s, x)) = Local!Seen(s) \cup {x}
<1>1. /\ Append(s, x) \in Seq(S)
      /\ Len(Append(s, x)) = Len(s) + 1
      /\ \A i \in 1..Len(s) : Append(s, x)[i] = s[i]
      /\ Append(s, x)[Len(s) + 1] = x
  OBVIOUS
<1>2. Len(s) \in Nat
  OBVIOUS
<1> DEFINE t == Append(s, x)
<1> HIDE DEF t
<1>3. \A i \in 1..Len(t) : i \in 1..Len(s) \/ i = Len(s) + 1
  BY <1>1, <1>2 DEF t
<1>4. \A i \in 1..Len(s) : i \in 1..Len(t)
  BY <1>1, <1>2 DEF t
<1>5. Len(s) + 1 \in 1..Len(t)
  BY <1>1, <1>2 DEF t
<1>6. Local!Seen(t) = Local!Seen(s) \cup {x}
  BY <1>1, <1>3, <1>4, <1>5 DEF Local!Seen, t
<1> QED
  BY <1>1, <1>6 DEF t

LEMMA TakeOne ==
  ASSUME NEW S, NEW s \in Seq(S), s # <<>>
  PROVE  /\ Head(s) \in S /\ Head(s) = s[1]
         /\ Tail(s) \in Seq(S)
         /\ Len(s) \in Nat /\ Len(s) >= 1 /\ Len(Tail(s)) = Len(s) - 1
         /\ \A i \in 1..(Len(s) - 1) : Tail(s)[i] = s[i + 1]
         /\ Local!Seen(s) = {s[1]} \cup Local!Seen(Tail(s))
<1>1. /\ Head(s) \in S /\ Head(s) = s[1]
      /\ Tail(s) \in Seq(S)
      /\ Len(s) \in Nat /\ Len(s) >= 1 /\ Len(Tail(s)) = Len(s) - 1
      /\ \A i \in 1..(Len(s) - 1) : Tail(s)[i] = s[i + 1]
  OBVIOUS
<1> DEFINE t == Tail(s)
<1> HIDE DEF t
<1>2. \A i \in 1..Len(s) : i = 1 \/ (i - 1 \in 1..Len(t) /\ s[i] = t[i - 1])
  <2> TAKE i \in 1..Len(s)
  <2>1. CASE i # 1
    <3>1. i - 1 \in 1..(Len(s) - 1) /\ (i - 1) + 1 = i
      BY <2>1, <1>1
    <3> QED
      BY <3>1, <1>1 DEF t
  <2> QED
    BY <2>1
<1>3. \A i \in 1..Len(t) : i + 1 \in 1..Len(s) /\ t[i] = s[i + 1]
  BY <1>1 DEF t
<1>4. 1 \in 1..Len(s)
  BY <1>1
<1>5. Local!Seen(s) = {s[1]} \cup Local!Seen(t)
  <2>1. ASSUME NEW x \in Local!Seen(s) PROVE x \in {s[1]} \cup Local!Seen(t)
    <3>1. PICK i \in 1..Len(s) : x = s[i]
      BY <2>1 DEF Local!Seen
    <3> QED
      BY <3>1, <1>2 DEF Local!Seen
  <2>2. ASSUME NEW x \in Local!Seen(t) PROVE x \in Local!Seen(s)
    <3>1. PICK i \in 1..Len(t) : x = t[i]
      BY <2>2 DEF Local!Seen
    <3> QED
      BY <3>1, <1>3 DEF Local!Seen
  <2>3. s[1] \in Local!Seen(s)
    BY <1>4 DEF Local!Seen
  <2> QED
    BY <2>1, <2>2, <2>3
<1> QED
  BY <1>1, <1>5 DEF t

(* Chunks are told apart by their fields, and the status from any of them. *)
LEMMA ChunkFields ==
  ASSUME NEW c \in Chunks
  PROVE  /\ c.line \in Lines /\ c.from \in Pipes \cup {"status"} /\ c.n \in Nat
         /\ \A l, p, n : c = Chunk(l, p, n) <=> c.line = l /\ c.from = p /\ c.n = n
         /\ \A l : c = Status(l) <=> c.line = l /\ c.from = "status" /\ c.n = 0
  BY DEF Chunks, Chunk, Status, Local!Chunk, Local!Status

LEMMA StatusType ==
  ASSUME NEW l \in Lines
  PROVE  /\ Status(l) \in Chunks /\ Status(l).line = l
         /\ Status(l).from = "status" /\ Status(l).n = 0
  BY DEF Chunks, Status, Local!Status, Local!Chunk

LEMMA ChunkType ==
  ASSUME NEW l \in Lines, NEW p \in Pipes, NEW n \in Nat
  PROVE  /\ Chunk(l, p, n) \in Chunks /\ Chunk(l, p, n).line = l
         /\ Chunk(l, p, n).from = p /\ Chunk(l, p, n).n = n
  BY DEF Chunks, Chunk, Local!Chunk

-----------------------------------------------------------------------------
LEMMA InitInv == Init => IInv
<1> SUFFICES ASSUME Init PROVE IInv
  OBVIOUS
<1>1. TypeOK
  <2>1. output \in [Lines -> [Pipes -> Nat]]
    BY CapacityAssumption DEF Init
  <2>2. Len(<<>>) = 0 /\ <<>> \in Seq(Lines) /\ <<>> \in Seq(Chunks)
    OBVIOUS
  <2>3. 0 <= UpCapacity /\ 0 <= DownCapacity /\ 0 \in 0..MaxLines /\ 0 \in 0..MaxFaults
    BY CapacityAssumption
  <2>4. up \in Seq(Lines) /\ Len(up) <= UpCapacity /\ down \in Seq(Chunks)
        /\ Len(down) <= DownCapacity /\ terminal \in Seq(Chunks)
    BY <2>2, <2>3 DEF Init
  <2>5. /\ made \in [Pipes -> Nat] /\ taken \in [Pipes -> Nat]
        /\ \A p \in Pipes : taken[p] <= made[p] /\ made[p] <= taken[p] + PipeCapacity
    BY CapacityAssumption DEF Init
  <2>6. stdinOpen \in BOOLEAN /\ exited \in BOOLEAN /\ broken \in BOOLEAN
    BY DEF Init
  <2>7. typed \in 0..MaxLines /\ cmd \in 0..MaxLines /\ faults \in 0..MaxFaults
    BY <2>3 DEF Init
  <2>8. /\ cli \in {"loop", "writing"} \cup Ended
        /\ srv \in {"reading", "running", "writing"} \cup Ended
        /\ held \in SUBSET Pipes /\ open \in SUBSET Pipes
        /\ sending \in Chunks \cup {NoChunk} /\ stale \in SUBSET {"up", "down"}
    BY DEF Init
  <2> QED
    BY <2>1, <2>4, <2>5, <2>6, <2>7, <2>8 DEF TypeOK
<1>2. LinesFollow
  BY DEF Init, LinesFollow, Ended
<1>3. Runs
  BY DEF Init, Runs, Serving
<1>4. Shown
  <2>1. Sent = {}
    BY DEF Init, Sent, Local!Seen
  <2>2. \A c \in Chunks : ~IsShown(c)
    <3> TAKE c \in Chunks
    <3>1. c.line \in 1..MaxLines
      BY ChunkFields DEF Lines
    <3> QED
      BY <3>1, CapacityAssumption DEF Init, IsShown, Serving
  <2> QED
    BY <2>1, <2>2 DEF Shown
<1>5. Ordered
  BY DEF Init, Ordered
<1> QED
  BY <1>1, <1>2, <1>3, <1>4, <1>5 DEF IInv

-----------------------------------------------------------------------------
(* Steps that touch neither the lines, the command, the pipes nor the      *)
(* chunks, except that axsh may end.                                       *)
LEMMA QuietInv ==
  ASSUME IInv, TypeOK', cli' \in {cli} \cup Ended,
         UNCHANGED <<output, typed, srv, cmd, made, held, taken, open, sending,
                     up, down, terminal>>
  PROVE  IInv'
<1>1. LinesFollow'
  BY DEF IInv, LinesFollow, Ended
<1>2. Runs'
  BY DEF IInv, Runs, Serving
<1>3. Sent' = Sent
  BY DEF Sent
<1>4. \A c : IsShown(c)' <=> IsShown(c)
  BY DEF IsShown, OfCommand, Serving
<1>5. Shown'
  BY <1>3, <1>4 DEF IInv, Shown
<1>6. Ordered'
  BY DEF IInv, Ordered
<1> QED
  BY <1>1, <1>2, <1>5, <1>6 DEF IInv

(* Steps that end the server's task; what it has sent is still under way.  *)
LEMMA ServerGoneInv ==
  ASSUME IInv, TypeOK', srv' \in Ended, UNCHANGED <<output, typed, down, terminal>>
  PROVE  IInv'
<1>1. LinesFollow' /\ Runs' /\ Shown'
  BY DEF LinesFollow, Runs, Shown, Serving, Ended
<1>2. Ordered'
  BY DEF IInv, Ordered
<1> QED
  BY <1>1, <1>2 DEF IInv

LEMMA SendLineFailsInv == ASSUME IInv, SendLineFails PROVE IInv'
<1>1. TypeOK'
  BY DEF IInv, TypeOK, SendLineFails, serverVars, commandVars, otherVars, Ended
<1> QED
  BY <1>1, QuietInv DEF SendLineFails, serverVars, commandVars, otherVars, Ended

LEMMA InputEndsInv == ASSUME IInv, InputEnds PROVE IInv'
<1>1. cli' = cli
  BY DEF InputEnds, AfterInput
<1>2. stdinOpen' \in BOOLEAN
  BY DEF InputEnds
<1>3. TypeOK'
  BY <1>1, <1>2 DEF IInv, TypeOK, InputEnds, serverVars, commandVars, otherVars
<1> QED
  BY <1>1, <1>3, QuietInv DEF InputEnds, serverVars, commandVars, otherVars

LEMMA ReadEofInv == ASSUME IInv, ReadEof PROVE IInv'
<1>1. TypeOK'
  BY DEF IInv, TypeOK, ReadEof, serverVars, commandVars, otherVars, Ended
<1> QED
  BY <1>1, QuietInv DEF ReadEof, serverVars, commandVars, otherVars, Ended

LEMMA ReadFailsInv == ASSUME IInv, ReadFails PROVE IInv'
<1>1. TypeOK'
  BY DEF IInv, TypeOK, ReadFails, serverVars, commandVars, otherVars, Ended
<1> QED
  BY <1>1, QuietInv DEF ReadFails, serverVars, commandVars, otherVars, Ended

LEMMA ShellExitsInv == ASSUME IInv, ShellExits PROVE IInv'
<1>1. exited' \in BOOLEAN
  BY DEF ShellExits
<1>2. TypeOK'
  BY <1>1 DEF IInv, TypeOK, ShellExits, clientVars, serverVars, otherVars
<1> QED
  BY <1>2, QuietInv DEF ShellExits, clientVars, serverVars, otherVars

LEMMA AnHourPassesInv == ASSUME IInv, NEW d \in MayIdle, AnHourPasses(d) PROVE IInv'
<1>1. d \in {"up", "down"}
  BY CapacityAssumption
<1>2. TypeOK'
  BY <1>1 DEF IInv, TypeOK, AnHourPasses, clientVars, serverVars, commandVars
<1> QED
  BY <1>2, QuietInv DEF AnHourPasses, clientVars, serverVars, commandVars

(* A fault is counted.                                                     *)
LEMMA FaultCounted == IInv /\ Fault => faults' \in 0..MaxFaults
  BY CapacityAssumption DEF IInv, TypeOK, Fault

LEMMA LinkBreaksInv == ASSUME IInv, LinkBreaks PROVE IInv'
<1>1. faults' \in 0..MaxFaults
  BY FaultCounted DEF LinkBreaks
<1>2. broken' \in BOOLEAN
  BY DEF LinkBreaks
<1>3. TypeOK'
  BY <1>1, <1>2 DEF IInv, TypeOK, LinkBreaks, clientVars, serverVars, commandVars
<1> QED
  BY <1>3, QuietInv DEF LinkBreaks, clientVars, serverVars, commandVars

LEMMA ClientKilledInv == ASSUME IInv, ClientKilled PROVE IInv'
<1>1. faults' \in 0..MaxFaults
  BY FaultCounted DEF ClientKilled
<1>2. TypeOK'
  BY <1>1 DEF IInv, TypeOK, ClientKilled, serverVars, commandVars, Ended
<1> QED
  BY <1>2, QuietInv DEF ClientKilled, serverVars, commandVars, Ended

LEMMA ReadEndInv == ASSUME IInv, ReadEnd PROVE IInv'
<1>1. TypeOK'
  BY DEF IInv, TypeOK, ReadEnd, clientVars, commandVars, otherVars, Ended
<1> QED
  BY <1>1, ServerGoneInv DEF ReadEnd, clientVars, otherVars, Ended

LEMMA ReadCommandFailsInv == ASSUME IInv, ReadCommandFails PROVE IInv'
<1>1. TypeOK'
  BY DEF IInv, TypeOK, ReadCommandFails, clientVars, commandVars, otherVars, Ended
<1> QED
  BY <1>1, ServerGoneInv DEF ReadCommandFails, clientVars, otherVars, Ended

LEMMA SendChunkFailsInv == ASSUME IInv, SendChunkFails PROVE IInv'
<1>1. TypeOK'
  BY DEF IInv, TypeOK, SendChunkFails, clientVars, commandVars, otherVars, Ended
<1> QED
  BY <1>1, ServerGoneInv DEF SendChunkFails, clientVars, otherVars, Ended

LEMMA SpawnFailsInv == ASSUME IInv, SpawnFails PROVE IInv'
<1>1. faults' \in 0..MaxFaults
  BY FaultCounted DEF SpawnFails
<1>2. up \in Seq(Lines) /\ up # <<>> /\ up' = Tail(up) /\ Len(up) <= UpCapacity
  BY DEF IInv, TypeOK, SpawnFails
<1>3. up' \in Seq(Lines) /\ Len(up') <= UpCapacity
  <2>1. up' \in Seq(Lines) /\ Len(up) \in Nat /\ Len(up') = Len(up) - 1
    BY <1>2, TakeOne
  <2> QED
    BY <2>1, <1>2, CapacityAssumption
<1>4. TypeOK'
  BY <1>1, <1>3 DEF IInv, TypeOK, SpawnFails, clientVars, commandVars, Ended
<1> QED
  BY <1>4, ServerGoneInv DEF SpawnFails, clientVars, Ended

-----------------------------------------------------------------------------
(* The lines.                                                              *)

LEMMA TypeLineInv == ASSUME IInv, TypeLine PROVE IInv'
<1>1. /\ cli = "loop" /\ cli' = "writing" /\ typed' = typed + 1 /\ typed < MaxLines
      /\ UNCHANGED <<stdinOpen, terminal, serverVars, commandVars, otherVars, up, down>>
  BY DEF TypeLine
<1>2. typed \in Nat /\ typed' \in 0..MaxLines
  BY <1>1, CapacityAssumption DEF IInv, TypeOK
<1>3. TypeOK'
  BY <1>1, <1>2 DEF IInv, TypeOK, serverVars, commandVars, otherVars
<1>4. LinesFollow'
  <2>1. cmd \in Nat /\ Len(up) \in Nat
    BY DEF IInv, TypeOK
  <2> QED
    BY <1>1, <1>2, <2>1 DEF IInv, LinesFollow, serverVars
<1>5. Runs'
  BY <1>1 DEF IInv, Runs, Serving, serverVars, commandVars, otherVars
<1>6. Shown'
  <2>1. Sent' = Sent
    BY <1>1 DEF Sent
  <2>2. \A c : IsShown(c)' <=> IsShown(c)
    BY <1>1 DEF IsShown, OfCommand, Serving, serverVars, otherVars
  <2> QED
    BY <1>1, <2>1, <2>2 DEF IInv, Shown, serverVars
<1>7. Ordered'
  <2>1. \A k : k \in 1..typed => k \in 1..typed'
    BY <1>1, <1>2
  <2>2. \A i \in 1..Len(down) : down[i].line \in 1..typed
    BY DEF IInv, Ordered
  <2>3. \A i \in 1..Len(down) : down[i].line \in 1..typed'
    BY <2>1, <2>2
  <2>4. down' = down /\ terminal' = terminal /\ output' = output
    BY <1>1 DEF otherVars
  <2> QED
    BY <2>3, <2>4 DEF IInv, Ordered
<1> QED
  BY <1>3, <1>4, <1>5, <1>6, <1>7 DEF IInv

LEMMA SendLineInv == ASSUME IInv, SendLine PROVE IInv'
<1>1. /\ cli = "writing" /\ cli' = "loop" /\ srv \notin Ended
      /\ up' = Append(up, typed) /\ Len(up) < UpCapacity
      /\ UNCHANGED <<typed, stdinOpen, terminal, serverVars, commandVars, otherVars, down>>
  BY DEF SendLine
<1>2. /\ cmd \in Nat /\ up \in Seq(Lines) /\ Len(up) \in Nat
      /\ typed \in 0..MaxLines /\ MaxLines \in Nat /\ UpCapacity \in Nat
  BY CapacityAssumption DEF IInv, TypeOK
<1>3. typed = cmd + Len(up) + 1
  BY <1>1 DEF IInv, LinesFollow
<1>4. typed \in Lines
  BY <1>2, <1>3 DEF Lines
<1>5. /\ up' \in Seq(Lines) /\ Len(up') = Len(up) + 1
      /\ \A i \in 1..Len(up) : up'[i] = up[i]
      /\ up'[Len(up) + 1] = typed
  BY <1>1, <1>2, <1>4, AppendOne
<1>6. TypeOK'
  <2>1. Len(up') <= UpCapacity
    BY <1>1, <1>2, <1>5
  <2> QED
    BY <1>1, <1>5, <2>1 DEF IInv, TypeOK, serverVars, commandVars, otherVars
<1>7. LinesFollow'
  <2>1. \A i \in 1..Len(up') : up'[i] = cmd + i
    <3> TAKE i \in 1..Len(up')
    <3>1. CASE i \in 1..Len(up)
      BY <1>1, <1>5, <3>1 DEF IInv, LinesFollow
    <3>2. CASE i = Len(up) + 1
      BY <1>2, <1>3, <1>5, <3>2
    <3> QED
      BY <1>2, <1>5, <3>1, <3>2
  <2> QED
    BY <1>1, <1>2, <1>3, <1>5, <2>1 DEF LinesFollow, serverVars
<1>8. Runs'
  BY <1>1 DEF IInv, Runs, Serving, serverVars, commandVars, otherVars
<1>9. Shown'
  <2>1. Sent' = Sent
    BY <1>1 DEF Sent
  <2>2. \A c : IsShown(c)' <=> IsShown(c)
    BY <1>1 DEF IsShown, OfCommand, Serving, serverVars, otherVars
  <2> QED
    BY <1>1, <2>1, <2>2 DEF IInv, Shown, serverVars
<1>10. Ordered'
  BY <1>1 DEF IInv, Ordered, otherVars
<1> QED
  BY <1>6, <1>7, <1>8, <1>9, <1>10 DEF IInv

LEMMA ReadCommandInv == ASSUME IInv, ReadCommand PROVE IInv'
<1>1. /\ srv = "reading" /\ srv' = "running" /\ up # <<>>
      /\ cmd' = Head(up) /\ up' = Tail(up)
      /\ made' = [p \in Pipes |-> 0] /\ held' = Pipes /\ exited' = FALSE
      /\ taken' = [p \in Pipes |-> 0] /\ open' = Pipes
      /\ UNCHANGED <<clientVars, sending, otherVars, down>>
  BY DEF ReadCommand
<1>2. /\ up \in Seq(Lines) /\ cmd \in Nat /\ typed \in Nat /\ MaxLines \in Nat
      /\ Len(up) <= UpCapacity /\ UpCapacity \in Nat
  BY CapacityAssumption DEF IInv, TypeOK
<1>3. /\ Head(up) \in Lines /\ Head(up) = up[1]
      /\ up' \in Seq(Lines)
      /\ Len(up) \in Nat /\ Len(up) >= 1 /\ Len(up') = Len(up) - 1
      /\ \A i \in 1..(Len(up) - 1) : up'[i] = up[i + 1]
  BY <1>1, <1>2, TakeOne
<1>4. /\ \A i \in 1..Len(up) : up[i] = cmd + i
      /\ cmd + Len(up) <= typed
      /\ cli = "loop" => typed = cmd + Len(up)
      /\ cli = "writing" => typed = cmd + Len(up) + 1
  BY <1>1 DEF IInv, LinesFollow, Ended
<1>5. cmd' = cmd + 1 /\ cmd' \in Lines
  <2>1. 1 \in 1..Len(up)
    BY <1>3
  <2> QED
    BY <2>1, <1>1, <1>3, <1>4
<1>6. TypeOK'
  <2>1. Len(up') <= UpCapacity
    BY <1>2, <1>3
  <2>2. cmd' \in 0..MaxLines
    BY <1>5 DEF Lines
  <2>3. /\ made' \in [Pipes -> Nat] /\ taken' \in [Pipes -> Nat]
        /\ \A p \in Pipes : taken'[p] <= made'[p] /\ made'[p] <= taken'[p] + PipeCapacity
    BY <1>1, CapacityAssumption
  <2>4. exited' \in BOOLEAN /\ held' \in SUBSET Pipes /\ open' \in SUBSET Pipes
    BY <1>1
  <2> QED
    BY <1>1, <1>3, <2>1, <2>2, <2>3, <2>4 DEF IInv, TypeOK, clientVars, otherVars
<1>7. LinesFollow'
  <2>1. \A i \in 1..Len(up') : up'[i] = cmd' + i
    <3> TAKE i \in 1..Len(up')
    <3>1. i \in 1..(Len(up) - 1) /\ i + 1 \in 1..Len(up)
      BY <1>3
    <3> QED
      BY <3>1, <1>2, <1>3, <1>4, <1>5
  <2>2. cmd' + Len(up') = cmd + Len(up)
    BY <1>2, <1>3, <1>5
  <2> QED
    BY <1>1, <1>4, <2>1, <2>2 DEF LinesFollow, clientVars
<1>8. Runs'
  <2>1. output' = output /\ \A p \in Pipes : output[cmd'][p] \in Nat
    BY <1>1, <1>5 DEF IInv, TypeOK, otherVars
  <2>2. \A p \in Pipes : made'[p] = 0
    BY <1>1
  <2> QED
    BY <1>1, <1>5, <2>1, <2>2 DEF Runs
<1>9. Shown'
  <2>1. Sent' = Sent
    BY <1>1 DEF Sent, clientVars
  <2>2. ASSUME NEW c \in Chunks PROVE IsShown(c)' <=> IsShown(c)
    <3>1. c.line \in Nat
      BY ChunkFields DEF Lines
    <3>2. OfCommand(c)' <=> OfCommand(c)
      BY <1>1 DEF OfCommand, otherVars
    <3>3. IsShown(c) <=> (c.line < cmd \/ c.line = cmd) /\ OfCommand(c)
      BY <1>1 DEF IsShown, Serving
    <3>4. c.from \in Pipes => c.n \notin 1..taken'[c.from]
      BY <1>1
    <3>5. IsShown(c)' <=> c.line < cmd' /\ OfCommand(c)'
      BY <1>1, <3>4 DEF IsShown, Serving
    <3>6. c.line < cmd' <=> (c.line < cmd \/ c.line = cmd)
      BY <1>2, <1>5, <3>1
    <3> QED
      BY <3>2, <3>3, <3>5, <3>6
  <2> QED
    BY <1>1, <2>1, <2>2 DEF IInv, Shown, Ended
<1>10. Ordered'
  BY <1>1 DEF IInv, Ordered, clientVars, otherVars
<1> QED
  BY <1>6, <1>7, <1>8, <1>9, <1>10 DEF IInv

-----------------------------------------------------------------------------
(* The pipes.                                                              *)

LEMMA CommandWritesInv == ASSUME IInv, NEW p \in Pipes, CommandWrites(p) PROVE IInv'
<1>1. /\ Serving /\ p \in held
      /\ made[p] < output[cmd][p] /\ made[p] - taken[p] < PipeCapacity
      /\ made' = [made EXCEPT ![p] = @ + 1]
      /\ UNCHANGED <<clientVars, serverVars, held, exited, otherVars, up, down>>
  BY DEF CommandWrites
<1>2. /\ made \in [Pipes -> Nat] /\ taken \in [Pipes -> Nat] /\ PipeCapacity \in Nat
      /\ cmd \in Lines /\ \A q \in Pipes : output[cmd][q] \in Nat
  BY <1>1, CapacityAssumption DEF IInv, TypeOK, Runs
<1>3. /\ made' \in [Pipes -> Nat] /\ made'[p] = made[p] + 1
      /\ \A q \in Pipes \ {p} : made'[q] = made[q]
  BY <1>1, <1>2
<1>4. TypeOK'
  <2>1. ASSUME NEW q \in Pipes
        PROVE  taken[q] <= made'[q] /\ made'[q] <= taken[q] + PipeCapacity
    <3>1. taken[q] <= made[q] /\ made[q] <= taken[q] + PipeCapacity
      BY DEF IInv, TypeOK
    <3>2. CASE q = p
      BY <1>1, <1>2, <1>3, <3>1, <3>2
    <3>3. CASE q # p
      BY <1>3, <3>1, <3>3
    <3> QED
      BY <3>2, <3>3
  <2> QED
    BY <1>1, <1>3, <2>1 DEF IInv, TypeOK, clientVars, serverVars, otherVars
<1>5. LinesFollow'
  BY <1>1 DEF IInv, LinesFollow, clientVars, serverVars
<1>6. Runs'
  <2>1. ASSUME NEW q \in Pipes
        PROVE  made'[q] <= output[cmd][q] /\ (q \notin held => made'[q] = output[cmd][q])
    <3>1. CASE q = p
      BY <1>1, <1>2, <1>3, <3>1
    <3>2. CASE q # p
      BY <1>1, <1>3, <3>2 DEF IInv, Runs
    <3> QED
      BY <3>1, <3>2
  <2> QED
    BY <1>1, <2>1 DEF IInv, Runs, Serving, serverVars, otherVars
<1>7. Shown'
  <2>1. Sent' = Sent
    BY <1>1 DEF Sent, clientVars
  <2>2. \A c : IsShown(c)' <=> IsShown(c)
    BY <1>1 DEF IsShown, OfCommand, Serving, serverVars, otherVars
  <2> QED
    BY <1>1, <2>1, <2>2 DEF IInv, Shown, serverVars
<1>8. Ordered'
  BY <1>1 DEF IInv, Ordered, clientVars, otherVars
<1> QED
  BY <1>4, <1>5, <1>6, <1>7, <1>8 DEF IInv

LEMMA CommandClosesInv == ASSUME IInv, NEW p \in Pipes, CommandCloses(p) PROVE IInv'
<1>1. /\ Serving /\ made[p] = output[cmd][p] /\ held' = held \ {p}
      /\ UNCHANGED <<clientVars, serverVars, made, exited, otherVars, up, down>>
  BY DEF CommandCloses
<1>2. TypeOK'
  BY <1>1 DEF IInv, TypeOK, clientVars, serverVars, otherVars
<1>3. LinesFollow'
  BY <1>1 DEF IInv, LinesFollow, clientVars, serverVars
<1>4. Runs'
  BY <1>1 DEF IInv, Runs, Serving, serverVars, otherVars
<1>5. Shown'
  <2>1. Sent' = Sent
    BY <1>1 DEF Sent, clientVars
  <2>2. \A c : IsShown(c)' <=> IsShown(c)
    BY <1>1 DEF IsShown, OfCommand, Serving, serverVars, otherVars
  <2> QED
    BY <1>1, <2>1, <2>2 DEF IInv, Shown, serverVars
<1>6. Ordered'
  BY <1>1 DEF IInv, Ordered, clientVars, otherVars
<1> QED
  BY <1>2, <1>3, <1>4, <1>5, <1>6 DEF IInv

LEMMA PipeEofInv == ASSUME IInv, NEW p \in Pipes, PipeEof(p) PROVE IInv'
<1>1. /\ srv = "running" /\ taken[p] = made[p] /\ p \notin held /\ open' = open \ {p}
      /\ UNCHANGED <<clientVars, srv, cmd, taken, sending, commandVars, otherVars, up, down>>
  BY DEF PipeEof
<1>2. TypeOK'
  BY <1>1 DEF IInv, TypeOK, clientVars, commandVars, otherVars
<1>3. LinesFollow'
  BY <1>1 DEF IInv, LinesFollow, clientVars
<1>4. Runs'
  BY <1>1 DEF IInv, Runs, Serving, commandVars, otherVars
<1>5. Shown'
  <2>1. Sent' = Sent
    BY <1>1 DEF Sent, clientVars
  <2>2. \A c : IsShown(c)' <=> IsShown(c)
    BY <1>1 DEF IsShown, OfCommand, Serving, otherVars
  <2> QED
    BY <1>1, <2>1, <2>2 DEF IInv, Shown
<1>6. Ordered'
  BY <1>1 DEF IInv, Ordered, clientVars, otherVars
<1> QED
  BY <1>2, <1>3, <1>4, <1>5, <1>6 DEF IInv

LEMMA ReadPipeInv == ASSUME IInv, NEW p \in Pipes, ReadPipe(p) PROVE IInv'
<1>1. /\ srv = "running" /\ srv' = "writing" /\ p \in open /\ taken[p] < made[p]
      /\ taken' = [taken EXCEPT ![p] = @ + 1]
      /\ sending' = Chunk(cmd, p, taken[p] + 1)
      /\ UNCHANGED <<clientVars, cmd, open, commandVars, otherVars, up, down>>
  BY DEF ReadPipe, Readable
<1>2. /\ made \in [Pipes -> Nat] /\ taken \in [Pipes -> Nat] /\ PipeCapacity \in Nat
      /\ cmd \in Lines
  BY <1>1, CapacityAssumption DEF IInv, TypeOK, Runs, Serving
<1>3. /\ taken' \in [Pipes -> Nat] /\ taken'[p] = taken[p] + 1 /\ taken[p] \in Nat
      /\ \A q \in Pipes \ {p} : taken'[q] = taken[q]
  BY <1>1, <1>2
<1>4. /\ sending' \in Chunks
      /\ sending'.line = cmd /\ sending'.from = p /\ sending'.n = taken'[p]
      /\ sending' = Chunk(cmd, p, taken'[p])
  BY <1>1, <1>2, <1>3, ChunkType
<1>5. TypeOK'
  <2>1. ASSUME NEW q \in Pipes
        PROVE  taken'[q] <= made[q] /\ made[q] <= taken'[q] + PipeCapacity
    <3>1. taken[q] <= made[q] /\ made[q] <= taken[q] + PipeCapacity
      BY DEF IInv, TypeOK
    <3>2. CASE q = p
      BY <1>1, <1>2, <1>3, <3>1, <3>2
    <3>3. CASE q # p
      BY <1>3, <3>1, <3>3
    <3> QED
      BY <3>2, <3>3
  <2> QED
    BY <1>1, <1>3, <1>4, <2>1 DEF IInv, TypeOK, clientVars, commandVars, otherVars
<1>6. LinesFollow'
  BY <1>1 DEF IInv, LinesFollow, clientVars, Ended
<1>7. Runs'
  <2>1. \A q \in Pipes : /\ made[q] <= output[cmd][q]
                         /\ q \notin held => made[q] = output[cmd][q]
                         /\ q \notin open => taken[q] = output[cmd][q]
    BY <1>1 DEF IInv, Runs, Serving
  <2>2. \A q \in Pipes : q \notin open => taken'[q] = output[cmd][q]
    BY <1>1, <1>3, <2>1
  <2>3. taken'[p] >= 1
    BY <1>3
  <2> QED
    BY <1>1, <1>2, <1>4, <2>1, <2>2, <2>3 DEF Runs, commandVars, otherVars,
       Chunk, Status, Local!Chunk, Local!Status
<1>8. Shown'
  <2>1. Sent' = Sent
    BY <1>1 DEF Sent, clientVars
  <2>2. ASSUME NEW c \in Chunks PROVE IsShown(c)' <=> IsShown(c)
    <3>1. OfCommand(c)' <=> OfCommand(c)
      BY <1>1 DEF OfCommand, otherVars
    <3>2. ASSUME c.line = cmd, c.from \in Pipes
          PROVE  c.n \in 1..taken[c.from] <=> c.n \in 1..taken'[c.from] /\ c # sending'
      <4>1. CASE c.from # p
        BY <1>3, <1>4, <3>2, <4>1
      <4>2. CASE c.from = p
        <5>1. c.n \in Nat
          BY ChunkFields
        <5>2. c = sending' <=> c.n = taken'[p]
          BY <1>4, <3>2, <4>2, ChunkFields
        <5>3. c.n \in 1..taken[p] <=> c.n \in 1..taken'[p] /\ c.n # taken'[p]
          BY <1>3, <5>1
        <5> QED
          BY <4>2, <5>2, <5>3
      <4> QED
        BY <4>1, <4>2
    <3> QED
      BY <1>1, <3>1, <3>2 DEF IsShown, Serving
  <2> QED
    BY <1>1, <2>1, <2>2 DEF IInv, Shown, Ended
<1>9. Ordered'
  BY <1>1 DEF IInv, Ordered, clientVars, otherVars
<1> QED
  BY <1>5, <1>6, <1>7, <1>8, <1>9 DEF IInv

LEMMA ReportStatusInv == ASSUME IInv, ReportStatus PROVE IInv'
<1>1. /\ srv = "running" /\ srv' = "writing" /\ open = {}
      /\ sending' = Status(cmd)
      /\ UNCHANGED <<clientVars, cmd, taken, open, commandVars, otherVars, up, down>>
  BY DEF ReportStatus, MoreOutput
<1>2. cmd \in Lines
  BY <1>1 DEF IInv, Runs, Serving
<1>3. sending' \in Chunks /\ sending'.from = "status"
  BY <1>1, <1>2, StatusType
<1>4. TypeOK'
  BY <1>1, <1>3 DEF IInv, TypeOK, clientVars, commandVars, otherVars
<1>5. LinesFollow'
  BY <1>1 DEF IInv, LinesFollow, clientVars, Ended
<1>6. Runs'
  <2>1. Status(cmd)' = Status(cmd)
    BY <1>1 DEF Status, Local!Status, Local!Chunk
  <2> QED
    BY <1>1, <2>1 DEF IInv, Runs, Serving, commandVars, otherVars
<1>7. Shown'
  <2>1. Sent' = Sent
    BY <1>1 DEF Sent, clientVars
  <2>2. ASSUME NEW c \in Chunks PROVE IsShown(c)' <=> IsShown(c)
    <3>1. OfCommand(c)' <=> OfCommand(c)
      BY <1>1 DEF OfCommand, otherVars
    <3>2. c.from \in Pipes => c # sending'
      BY <1>3 DEF Pipes
    <3> QED
      BY <1>1, <3>1, <3>2 DEF IsShown, Serving
  <2> QED
    BY <1>1, <2>1, <2>2 DEF IInv, Shown, Ended
<1>8. Ordered'
  BY <1>1 DEF IInv, Ordered, clientVars, otherVars
<1> QED
  BY <1>4, <1>5, <1>6, <1>7, <1>8 DEF IInv

-----------------------------------------------------------------------------
(* The chunks.                                                             *)

(* The chunk in hand follows what the client has or will have.             *)
LEMMA SendingFollows ==
  IInv /\ srv = "writing" =>
    /\ sending \in Chunks /\ sending.line = cmd /\ cmd \in Lines
    /\ Local!Follows(sending, Sent, output)
<1> SUFFICES ASSUME IInv, srv = "writing"
             PROVE  /\ sending \in Chunks /\ sending.line = cmd /\ cmd \in Lines
                    /\ Local!Follows(sending, Sent, output)
  OBVIOUS
<1>1. /\ cmd \in Lines
      /\ \A p \in Pipes : p \notin open => taken[p] = output[cmd][p]
      /\ \A p \in Pipes : taken[p] \in Nat /\ output[cmd][p] \in Nat
      /\ \A p \in Pipes : taken[p] <= output[cmd][p]
  <2>1. /\ cmd \in Lines
        /\ \A p \in Pipes : p \notin open => taken[p] = output[cmd][p]
        /\ \A p \in Pipes : made[p] <= output[cmd][p]
    BY DEF IInv, Runs, Serving
  <2>2. /\ made \in [Pipes -> Nat] /\ taken \in [Pipes -> Nat]
        /\ output \in [Lines -> [Pipes -> Nat]]
        /\ \A p \in Pipes : taken[p] <= made[p]
    BY DEF IInv, TypeOK
  <2>3. ASSUME NEW p \in Pipes
        PROVE  taken[p] \in Nat /\ output[cmd][p] \in Nat /\ taken[p] <= output[cmd][p]
    <3>1. /\ taken[p] \in Nat /\ made[p] \in Nat /\ output[cmd][p] \in Nat
          /\ taken[p] <= made[p] /\ made[p] <= output[cmd][p]
      BY <2>1, <2>2
    <3> QED
      BY <3>1
  <2> QED
    BY <2>1, <2>3
<1>2. \/ sending = Status(cmd) /\ open = {}
      \/ \E p \in Pipes : sending = Chunk(cmd, p, taken[p]) /\ taken[p] >= 1
  BY DEF IInv, Runs, Serving
<1>3. sending \in Chunks /\ sending.line = cmd
  BY <1>1, <1>2, StatusType, ChunkType
<1>4. \A c \in Chunks : c \in Sent <=> IsShown(c)
  BY DEF IInv, Shown, Ended
<1>5. cmd \in Nat /\ ~(cmd < cmd)
  BY <1>1 DEF Lines
<1>6. sending \notin Sent
  BY <1>3, <1>4, <1>5 DEF IsShown
<1>7. \A l \in 1..(cmd - 1) : Local!Status(l) \in Sent
  <2> TAKE l \in 1..(cmd - 1)
  <2>1. l \in Lines /\ l < cmd
    BY <1>1, CapacityAssumption DEF Lines
  <2>2. Status(l) \in Chunks /\ Status(l).line = l
    BY <2>1, StatusType
  <2>3. IsShown(Status(l))
    BY <2>1, <2>2 DEF IsShown, OfCommand
  <2> QED
    BY <1>4, <2>2, <2>3 DEF Status
<1>8. Local!Status(cmd) \notin Sent
  <2>1. /\ Status(cmd) \in Chunks /\ Status(cmd).line = cmd
        /\ Status(cmd).from \notin Pipes
    BY <1>1, StatusType DEF Pipes
  <2>2. ~IsShown(Status(cmd))
    BY <1>5, <2>1 DEF IsShown
  <2> QED
    BY <1>4, <2>1, <2>2 DEF Status
(* Chunks of this command that were taken, but for the one in hand.        *)
<1>9. ASSUME NEW p \in Pipes, NEW n \in 1..taken[p], Chunk(cmd, p, n) # sending
      PROVE  Local!Chunk(cmd, p, n) \in Sent
  <2>1. n \in Nat
    BY <1>1
  <2>2. /\ Chunk(cmd, p, n) \in Chunks /\ Chunk(cmd, p, n).line = cmd
        /\ Chunk(cmd, p, n).from = p /\ Chunk(cmd, p, n).n = n
    BY <1>1, <2>1, ChunkType
  <2>3. IsShown(Chunk(cmd, p, n))
    BY <1>9, <2>2 DEF IsShown, Serving
  <2> QED
    BY <1>4, <2>2, <2>3 DEF Chunk
<1>10. DOMAIN output[sending.line] = Pipes
  <2>1. output \in [Lines -> [Pipes -> Nat]]
    BY DEF IInv, TypeOK
  <2> QED
    BY <1>1, <1>3, <2>1
<1>11. CASE sending = Status(cmd) /\ open = {}
  <2>1. ASSUME NEW p \in Pipes, NEW n \in 1..output[cmd][p]
        PROVE  Local!Chunk(cmd, p, n) \in Sent
    <3>1. n \in 1..taken[p] /\ n \in Nat
      BY <1>1, <1>11
    <3>2. Chunk(cmd, p, n).from = p
      BY <1>1, <3>1, ChunkType
    <3>3. Chunk(cmd, p, n) # sending
      BY <1>1, <1>11, <3>2, StatusType DEF Pipes
    <3> QED
      BY <1>9, <3>1, <3>3
  <2>2. sending = Local!Status(sending.line)
    BY <1>3, <1>11 DEF Status
  <2> QED
    BY <1>1, <1>3, <1>6, <1>7, <1>8, <1>10, <2>1, <2>2 DEF Local!Follows
<1>12. CASE \E p \in Pipes : sending = Chunk(cmd, p, taken[p]) /\ taken[p] >= 1
  <2>1. PICK p \in Pipes : sending = Chunk(cmd, p, taken[p]) /\ taken[p] >= 1
    BY <1>12
  <2>2. sending.from = p /\ sending.n = taken[p]
    BY <1>1, <2>1, ChunkType
  <2>3. sending.n \in 1..output[sending.line][sending.from]
    BY <1>1, <1>3, <2>1, <2>2
  <2>4. ASSUME NEW n \in 1..(sending.n - 1)
        PROVE  Local!Chunk(sending.line, sending.from, n) \in Sent
    <3>1. n \in 1..taken[p] /\ n \in Nat /\ n # taken[p]
      BY <1>1, <2>2
    <3>2. Chunk(cmd, p, n).n = n
      BY <1>1, <3>1, ChunkType
    <3>3. Chunk(cmd, p, n) # sending
      BY <2>2, <3>1, <3>2
    <3> QED
      BY <1>3, <1>9, <2>2, <3>1, <3>3
  <2> QED
    BY <1>1, <1>3, <1>6, <1>7, <1>8, <1>10, <2>2, <2>3, <2>4 DEF Local!Follows
<1> QED
  BY <1>1, <1>2, <1>3, <1>11, <1>12

LEMMA SendChunkInv == ASSUME IInv, SendChunk PROVE IInv'
<1>1. /\ srv = "writing" /\ Len(down) < DownCapacity
      /\ down' = Append(down, sending)
      /\ srv' = IF sending = Status(cmd) THEN "reading" ELSE "running"
      /\ UNCHANGED <<clientVars, cmd, taken, open, sending, commandVars, otherVars, up>>
  BY DEF SendChunk
<1>2. /\ sending \in Chunks /\ sending.line = cmd /\ cmd \in Lines
      /\ Local!Follows(sending, Sent, output)
  BY <1>1, SendingFollows
<1>3. /\ down \in Seq(Chunks) /\ Len(down) \in Nat /\ DownCapacity \in Nat
      /\ cmd \in Nat /\ typed \in Nat /\ Len(up) \in Nat /\ taken \in [Pipes -> Nat]
  BY CapacityAssumption DEF IInv, TypeOK
<1>4. /\ down' \in Seq(Chunks) /\ Len(down') = Len(down) + 1
      /\ \A i \in 1..Len(down) : down'[i] = down[i]
      /\ down'[Len(down) + 1] = sending
      /\ Local!Seen(down') = Local!Seen(down) \cup {sending}
  BY <1>1, <1>2, <1>3, AppendOne
<1>5. srv' \in {"reading", "running"}
  BY <1>1
<1>6. TypeOK'
  <2>1. Len(down') <= DownCapacity
    BY <1>1, <1>3, <1>4
  <2> QED
    BY <1>1, <1>4, <1>5, <2>1 DEF IInv, TypeOK, clientVars, commandVars, otherVars
<1>7. LinesFollow'
  BY <1>1, <1>5 DEF IInv, LinesFollow, clientVars, Ended
<1>8. Runs'
  BY <1>1, <1>5 DEF IInv, Runs, Serving, commandVars, otherVars
<1>9. \/ sending = Status(cmd) /\ open = {}
      \/ \E p \in Pipes : sending = Chunk(cmd, p, taken[p]) /\ taken[p] >= 1
  BY <1>1 DEF IInv, Runs, Serving
<1>10. Shown'
  <2>1. Sent' = Sent \cup {sending}
    BY <1>1, <1>4 DEF Sent, clientVars
  <2>2. \A c : OfCommand(c)' <=> OfCommand(c)
    BY <1>1 DEF OfCommand, otherVars
  <2>3. ASSUME NEW c \in Chunks PROVE IsShown(c)' <=> IsShown(c) \/ c = sending
    <3>1. CASE sending = Status(cmd) /\ open = {}
      <4>1. srv' = "reading"
        BY <1>1, <3>1
      <4>2. \A p \in Pipes : taken[p] = output[cmd][p]
        BY <1>1, <3>1 DEF IInv, Runs, Serving
      <4>3. c.from \in Pipes => c # sending
        BY <1>2, <3>1, StatusType DEF Pipes
      <4>4. c = sending <=> c.line = cmd /\ c = Status(c.line)
        BY <1>2, <3>1, StatusType
      <4>5. IsShown(c)' <=> (c.line < cmd \/ c.line = cmd) /\ OfCommand(c)
        BY <1>1, <2>2, <4>1 DEF IsShown, Serving
      <4>6. IsShown(c) <=> \/ c.line < cmd /\ OfCommand(c)
                           \/ c.line = cmd /\ c.from \in Pipes /\ c.n \in 1..taken[c.from]
        BY <1>1, <4>3 DEF IsShown, Serving
      <4>7. c.line = cmd =>
              (OfCommand(c) <=> \/ c = sending
                                \/ c.from \in Pipes /\ c.n \in 1..taken[c.from])
        BY <4>2, <4>4 DEF OfCommand
      <4> QED
        BY <1>2, <4>4, <4>5, <4>6, <4>7
    <3>2. CASE \E p \in Pipes : sending = Chunk(cmd, p, taken[p]) /\ taken[p] >= 1
      <4>1. PICK p \in Pipes : sending = Chunk(cmd, p, taken[p]) /\ taken[p] >= 1
        BY <3>2
      <4>2. sending.from = p /\ sending.n = taken[p]
        BY <1>2, <1>3, <4>1, ChunkType
      <4>3. sending # Status(cmd)
        BY <1>2, <4>2, StatusType DEF Pipes
      <4>4. srv' = "running"
        BY <1>1, <4>3
      <4>5. sending.n \in 1..taken[sending.from]
        BY <1>3, <4>1, <4>2
      <4>6. IsShown(c)' <=> \/ c.line < cmd /\ OfCommand(c)
                            \/ c.line = cmd /\ c.from \in Pipes /\ c.n \in 1..taken[c.from]
        BY <1>1, <2>2, <4>4 DEF IsShown, Serving
      <4>7. IsShown(c) <=> \/ c.line < cmd /\ OfCommand(c)
                           \/ /\ c.line = cmd /\ c.from \in Pipes
                              /\ c.n \in 1..taken[c.from] /\ c # sending
        BY <1>1 DEF IsShown, Serving
      <4>8. c = sending => c.line = cmd /\ c.from \in Pipes /\ c.n \in 1..taken[c.from]
        BY <1>2, <4>2, <4>5
      <4> QED
        BY <4>6, <4>7, <4>8
    <3> QED
      BY <1>9, <3>1, <3>2
  <2>4. \A c \in Chunks : c \in Sent <=> IsShown(c)
    BY <1>1 DEF IInv, Shown, Ended
  <2> QED
    BY <2>1, <2>3, <2>4 DEF Shown
<1>11. Ordered'
  <2>1. output' = output /\ typed' = typed /\ terminal' = terminal
    BY <1>1 DEF clientVars, otherVars
  <2>2. ASSUME NEW i \in 1..Len(down')
        PROVE  /\ down'[i].line \in 1..typed
               /\ Local!Follows(down'[i],
                    Local!Seen(terminal) \cup {down'[j] : j \in 1..(i - 1)}, output)
    <3>1. CASE i \in 1..Len(down)
      <4>1. \A j \in 1..(i - 1) : down'[j] = down[j]
        BY <1>3, <1>4, <3>1
      <4>2. {down'[j] : j \in 1..(i - 1)} = {down[j] : j \in 1..(i - 1)}
        BY <4>1
      <4> QED
        BY <1>4, <3>1, <4>2 DEF IInv, Ordered
    <3>2. CASE i = Len(down) + 1
      <4>1. cmd \in 1..typed
        <5>1. cmd + Len(up) <= typed
          BY <1>1 DEF IInv, LinesFollow, Ended
        <5> QED
          BY <1>2, <1>3, <5>1 DEF Lines
      <4>2. i - 1 = Len(down)
        BY <1>3, <3>2
      <4>3. {down'[j] : j \in 1..(i - 1)} = Local!Seen(down)
        BY <1>4, <4>2 DEF Local!Seen
      <4> QED
        BY <1>2, <1>4, <3>2, <4>1, <4>3 DEF Sent
    <3> QED
      BY <1>3, <1>4, <3>1, <3>2
  <2> QED
    BY <2>1, <2>2 DEF Ordered
<1> QED
  BY <1>6, <1>7, <1>8, <1>10, <1>11 DEF IInv

LEMMA PrintOutputInv == ASSUME IInv, PrintOutput PROVE IInv'
<1>1. /\ down # <<>> /\ terminal' = Append(terminal, Head(down)) /\ down' = Tail(down)
      /\ UNCHANGED <<typed, stdinOpen, cli, serverVars, commandVars, otherVars, up>>
  BY DEF PrintOutput
<1>2. /\ down \in Seq(Chunks) /\ terminal \in Seq(Chunks) /\ DownCapacity \in Nat
      /\ Len(down) <= DownCapacity
  BY CapacityAssumption DEF IInv, TypeOK
<1>3. /\ Head(down) \in Chunks /\ Head(down) = down[1]
      /\ down' \in Seq(Chunks)
      /\ Len(down) \in Nat /\ Len(down) >= 1 /\ Len(down') = Len(down) - 1
      /\ \A i \in 1..(Len(down) - 1) : down'[i] = down[i + 1]
      /\ Local!Seen(down) = {down[1]} \cup Local!Seen(down')
  BY <1>1, <1>2, TakeOne
<1>4. /\ terminal' \in Seq(Chunks)
      /\ Local!Seen(terminal') = Local!Seen(terminal) \cup {down[1]}
  BY <1>1, <1>2, <1>3, AppendOne
<1>5. TypeOK'
  <2>1. Len(down') <= DownCapacity
    BY <1>2, <1>3
  <2> QED
    BY <1>1, <1>3, <1>4, <2>1 DEF IInv, TypeOK, serverVars, commandVars, otherVars
<1>6. LinesFollow'
  BY <1>1 DEF IInv, LinesFollow, serverVars
<1>7. Runs'
  BY <1>1 DEF IInv, Runs, Serving, serverVars, commandVars, otherVars
<1>8. Shown'
  <2>1. Sent' = Sent
    BY <1>3, <1>4 DEF Sent
  <2>2. \A c : IsShown(c)' <=> IsShown(c)
    BY <1>1 DEF IsShown, OfCommand, Serving, serverVars, otherVars
  <2> QED
    BY <1>1, <2>1, <2>2 DEF IInv, Shown, serverVars
<1>9. Ordered'
  <2>1. output' = output /\ typed' = typed
    BY <1>1 DEF otherVars
  <2>2. ASSUME NEW i \in 1..Len(down')
        PROVE  /\ down'[i].line \in 1..typed
               /\ Local!Follows(down'[i],
                    Local!Seen(terminal') \cup {down'[j] : j \in 1..(i - 1)}, output)
    <3>1. i \in 1..(Len(down) - 1) /\ i + 1 \in 1..Len(down) /\ (i + 1) - 1 = i /\ i \in Nat
      BY <1>3
    <3>2. down'[i] = down[i + 1]
      BY <1>3, <3>1
    <3>3. /\ \A j \in 1..i : j = 1 \/ (j - 1 \in 1..(i - 1) /\ down'[j - 1] = down[j])
          /\ \A j \in 1..(i - 1) : j + 1 \in 1..i /\ down'[j] = down[j + 1]
          /\ 1 \in 1..i
      <4>1. ASSUME NEW j \in 1..i
            PROVE  j = 1 \/ (j - 1 \in 1..(i - 1) /\ down'[j - 1] = down[j])
        <5>1. CASE j # 1
          <6>1. j - 1 \in 1..(i - 1) /\ j - 1 \in 1..(Len(down) - 1) /\ (j - 1) + 1 = j
            BY <1>3, <3>1, <5>1
          <6> QED
            BY <1>3, <6>1
        <5> QED
          BY <5>1
      <4>2. ASSUME NEW j \in 1..(i - 1)
            PROVE  j + 1 \in 1..i /\ down'[j] = down[j + 1]
        <5>1. j + 1 \in 1..i /\ j \in 1..(Len(down) - 1)
          BY <1>3, <3>1
        <5> QED
          BY <1>3, <5>1
      <4> QED
        BY <3>1, <4>1, <4>2
    <3>4. Local!Seen(terminal') \cup {down'[j] : j \in 1..(i - 1)}
            = Local!Seen(terminal) \cup {down[j] : j \in 1..i}
      <4>1. {down[j] : j \in 1..i} = {down[1]} \cup {down'[j] : j \in 1..(i - 1)}
        <5> DEFINE A == {down[j] : j \in 1..i}
                   B == {down'[j] : j \in 1..(i - 1)}
        <5>1. ASSUME NEW x \in A PROVE x \in {down[1]} \cup B
          <6>1. PICK j \in 1..i : x = down[j]
            OBVIOUS
          <6> QED
            BY <6>1, <3>3
        <5>2. ASSUME NEW x \in B PROVE x \in A
          <6>1. PICK j \in 1..(i - 1) : x = down'[j]
            OBVIOUS
          <6> QED
            BY <6>1, <3>3
        <5>3. down[1] \in A
          BY <3>3
        <5> QED
          BY <5>1, <5>2, <5>3
      <4> QED
        BY <1>4, <4>1
    <3>5. /\ down[i + 1].line \in 1..typed
          /\ Local!Follows(down[i + 1],
               Local!Seen(terminal) \cup {down[j] : j \in 1..i}, output)
      BY <3>1 DEF IInv, Ordered
    <3> QED
      BY <3>2, <3>4, <3>5
  <2> QED
    BY <2>1, <2>2 DEF Ordered
<1> QED
  BY <1>5, <1>6, <1>7, <1>8, <1>9 DEF IInv

-----------------------------------------------------------------------------
LEMMA StepInv == IInv /\ [Next]_vars => IInv'
<1> SUFFICES ASSUME IInv, [Next]_vars PROVE IInv'
  OBVIOUS
<1>1. CASE Input
  BY <1>1, TypeLineInv, InputEndsInv DEF Input
<1>2. CASE Client
  BY <1>2, SendLineInv, SendLineFailsInv, PrintOutputInv, ReadEofInv, ReadFailsInv
     DEF Client
<1>3. CASE Server
  BY <1>3, ReadCommandInv, ReadEndInv, ReadCommandFailsInv, ReadPipeInv, PipeEofInv,
     ReportStatusInv, SendChunkInv, SendChunkFailsInv DEF Server
<1>4. CASE Command
  BY <1>4, CommandWritesInv, CommandClosesInv, ShellExitsInv DEF Command
<1>5. CASE Environment
  BY <1>5, AnHourPassesInv, LinkBreaksInv, ClientKilledInv, SpawnFailsInv
     DEF Environment
<1>6. CASE UNCHANGED vars
  <2>1. TypeOK'
    BY <1>6 DEF IInv, TypeOK, vars, clientVars, serverVars, commandVars, otherVars
  <2> QED
    BY <1>6, <2>1, QuietInv DEF vars, clientVars, serverVars, commandVars, otherVars
<1> QED
  BY <1>1, <1>2, <1>3, <1>4, <1>5, <1>6 DEF Next

(* A step shows the chunk that is next, types a line, or changes nothing   *)
(* the user sees.                                                          *)
LEMMA StepLocal == IInv /\ [Next]_vars => [Local!Next]_<<output, typed, terminal>>
<1> SUFFICES ASSUME IInv, [Next]_vars
             PROVE  Local!Next \/ UNCHANGED <<output, typed, terminal>>
  OBVIOUS
<1>1. CASE TypeLine
  BY <1>1 DEF TypeLine, otherVars, Local!Next, Local!Type
<1>2. CASE PrintOutput
  <2>1. /\ down # <<>> /\ terminal' = Append(terminal, Head(down))
        /\ output' = output /\ typed' = typed
    BY <1>2 DEF PrintOutput, otherVars
  <2>2. down \in Seq(Chunks) /\ terminal \in Seq(Chunks)
    BY DEF IInv, TypeOK
  <2>3. Head(down) \in Chunks /\ Head(down) = down[1] /\ 1 \in 1..Len(down)
    BY <2>1, <2>2, TakeOne
  <2>4. /\ Len(terminal') = Len(terminal) + 1 /\ Len(terminal) \in Nat
        /\ terminal'[Len(terminal')] = Head(down)
    BY <2>1, <2>2, <2>3, AppendOne
  <2>5. {down[j] : j \in 1..(1 - 1)} = {}
    OBVIOUS
  <2>6. down[1].line \in 1..typed /\ Local!Follows(down[1], Local!Seen(terminal), output)
    BY <2>3, <2>5 DEF IInv, Ordered
  <2>7. Local!Show(Head(down))
    BY <2>1, <2>3, <2>6 DEF Local!Show
  <2>8. terminal' # terminal
    BY <2>4
  <2> QED
    BY <2>4, <2>7, <2>8 DEF Local!Next, Local!Shows
<1>3. ASSUME Input \/ Client, ~TypeLine, ~PrintOutput
      PROVE  UNCHANGED <<output, typed, terminal>>
  BY <1>3 DEF Input, Client, InputEnds, SendLine, SendLineFails, ReadEof, ReadFails,
     otherVars
<1>4. CASE Server
  BY <1>4 DEF Server, ReadCommand, ReadEnd, ReadCommandFails, ReadPipe, PipeEof,
     ReportStatus, SendChunk, SendChunkFails, clientVars, otherVars
<1>5. CASE Command
  BY <1>5 DEF Command, CommandWrites, CommandCloses, ShellExits, clientVars, otherVars
<1>6. CASE Environment
  BY <1>6 DEF Environment, AnHourPasses, LinkBreaks, ClientKilled, SpawnFails, clientVars
<1>7. CASE UNCHANGED vars
  BY <1>7 DEF vars, clientVars, otherVars
<1> QED
  BY <1>1, <1>2, <1>3, <1>4, <1>5, <1>6, <1>7 DEF Next

(* Every variable keeps its type, and no stream or pipe holds more than it *)
(* has room for, however many lines, faults and hours of quiet there are.  *)
THEOREM ShellTypeCorrect == Spec => []TypeOK
<1>1. IInv => TypeOK
  BY DEF IInv
<1> QED
  BY InitInv, StepInv, <1>1, PTL DEF Spec

(* What the terminal shows is what the shell would show here (axsh.rs:249, *)
(* axshd.rs:114-144): whatever the outputs of the commands, the capacities *)
(* of streams and pipes, and whatever breaks.                              *)
THEOREM ShellLooksLocal == Spec => LooksLocal
<1>1. Init => Local!Init
  BY DEF Init, Local!Init
<1> QED
  BY InitInv, StepInv, StepLocal, <1>1, PTL DEF Spec, LooksLocal, Local!Spec
-----------------------------------------------------------------------------
(* Leaving.  The lines whose status is on the terminal are counted on the  *)
(* steps LocalShell allows, which show no status twice.                    *)

Statuses(t) == {i \in 1..Len(t) : t[i].from = "status"}

Told == {l \in Lines : Status(l) \in Local!Seen(terminal)}

Counted == Told \subseteq 1..typed /\ Finished = Cardinality(Told)

(* As long as nothing breaks nobody fails; the server is done when axsh    *)
(* has closed its direction and all it was sent has run, and axsh when the *)
(* server is and the last chunk was printed.                               *)
Untroubled ==
  /\ ~broken
  /\ cli # "failed" /\ srv # "failed"
  /\ cli = "writing" => stdinOpen
  /\ srv = "done" => ~stdinOpen /\ \A l \in 1..typed : Status(l) \in Sent
  /\ cli = "done" => srv = "done" /\ down = <<>>

Intact == faults = 0 /\ stale = {} => Untroubled

LeaveInv == IInv /\ Counted /\ Intact

LEMMA InitLeave == Init => LeaveInv
<1> SUFFICES ASSUME Init PROVE LeaveInv
  OBVIOUS
<1>1. Told = {} /\ Statuses(terminal) = {}
  BY DEF Init, Told, Statuses, Local!Seen
<1>2. Counted
  BY <1>1, FS_EmptySet DEF Counted, Finished, Statuses
<1>3. Intact
  BY DEF Init, Intact, Untroubled, Ended
<1> QED
  BY <1>2, <1>3, InitInv DEF LeaveInv

(* One more chunk on the terminal is one more status of one more line, or  *)
(* neither.                                                                *)
LEMMA ShowsCounted ==
  ASSUME IInv, IInv', Counted, Local!Shows
  PROVE  Counted'
<1> DEFINE c == terminal'[Len(terminal')]
<1>1. /\ c.line \in 1..typed
      /\ Local!Follows(c, Local!Seen(terminal), output)
      /\ terminal' = Append(terminal, c)
      /\ typed' = typed
  BY DEF Local!Shows, Local!Show
<1>2. /\ terminal \in Seq(Chunks) /\ terminal' \in Seq(Chunks) /\ Len(terminal) \in Nat
      /\ typed \in 0..MaxLines /\ output \in [Lines -> [Pipes -> Nat]]
  BY DEF IInv, TypeOK
<1> HIDE DEF c
<1>3. /\ Len(terminal') = Len(terminal) + 1
      /\ \A i \in 1..Len(terminal) : terminal'[i] = terminal[i]
      /\ terminal'[Len(terminal) + 1] = c
  BY <1>1, <1>2
<1>4. c \in Chunks
  <2>1. Len(terminal) + 1 \in 1..Len(terminal')
    BY <1>2, <1>3
  <2> QED
    BY <1>2, <1>3, <2>1
<1>5. Local!Seen(terminal') = Local!Seen(terminal) \cup {c}
  BY <1>1, <1>2, <1>4, AppendOne
<1>6. c.line \in Lines
  BY <1>4, ChunkFields
<1>7. IsFiniteSet(Told) /\ IsFiniteSet(Statuses(terminal))
  <2>1. IsFiniteSet(1..MaxLines) /\ IsFiniteSet(1..Len(terminal))
    BY <1>2, CapacityAssumption, FS_Interval
  <2> QED
    BY <2>1, FS_Subset DEF Told, Statuses, Lines
<1>8. Finished = Cardinality(Statuses(terminal))
      /\ Finished' = Cardinality(Statuses(terminal'))
  BY DEF Finished, Statuses
<1>9. CASE c.from = "status"
  <2>1. c = Status(c.line)
    <3>1. c.from \notin DOMAIN output[c.line]
      BY <1>2, <1>6, <1>9 DEF Pipes
    <3> QED
      BY <1>1, <3>1 DEF Local!Follows, Status
  <2>2. c.line \notin Told /\ Told' = Told \cup {c.line}
    <3>1. \A l \in Lines : Status(l) = c <=> l = c.line
      BY <2>1, StatusType, <1>6
    <3>2. c \notin Local!Seen(terminal)
      BY <1>1 DEF Local!Follows
    <3> QED
      BY <1>5, <1>6, <2>1, <3>1, <3>2 DEF Told
  <2>3. Len(terminal) + 1 \notin Statuses(terminal)
    BY <1>2 DEF Statuses
  <2>4. Statuses(terminal') = Statuses(terminal) \cup {Len(terminal) + 1}
    BY <1>2, <1>3, <1>9 DEF Statuses
  <2>5. Cardinality(Told') = Cardinality(Told) + 1
    BY <1>7, <2>2, FS_AddElement
  <2>6. Cardinality(Statuses(terminal')) = Cardinality(Statuses(terminal)) + 1
    BY <1>7, <2>3, <2>4, FS_AddElement
  <2>7. Told' \subseteq 1..typed'
    BY <1>1, <2>2 DEF Counted
  <2> QED
    BY <1>8, <2>5, <2>6, <2>7 DEF Counted
<1>10. CASE c.from # "status"
  <2>1. \A l \in Lines : Status(l) # c
    BY <1>10, StatusType
  <2>2. Told' = Told
    BY <1>5, <2>1 DEF Told
  <2>3. Statuses(terminal') = Statuses(terminal)
    BY <1>2, <1>3, <1>10 DEF Statuses
  <2> QED
    BY <1>1, <1>8, <2>2, <2>3 DEF Counted
<1> QED
  BY <1>9, <1>10

LEMMA StepCounted == IInv /\ IInv' /\ Counted /\ [Next]_vars => Counted'
<1> SUFFICES ASSUME IInv, IInv', Counted, [Next]_vars PROVE Counted'
  OBVIOUS
<1>1. Local!Next \/ UNCHANGED <<output, typed, terminal>>
  BY StepLocal
<1>2. CASE Local!Shows
  BY <1>2, ShowsCounted
<1>3. CASE Local!Type \/ UNCHANGED <<output, typed, terminal>>
  <2>1. terminal' = terminal /\ typed' \in {typed, typed + 1} /\ typed \in Nat
    BY <1>3 DEF Local!Type, IInv, TypeOK
  <2>2. Told' = Told /\ Finished' = Finished
    BY <2>1 DEF Told, Finished
  <2>3. 1..typed \subseteq 1..typed'
    BY <2>1
  <2> QED
    BY <2>2, <2>3 DEF Counted
<1> QED
  BY <1>1, <1>2, <1>3 DEF Local!Next

-----------------------------------------------------------------------------
(* Steps of an untroubled session.                                         *)

LEMMA ClientUntroubled ==
  ASSUME IInv, Untroubled, stale = {}, Input \/ Client
  PROVE  Untroubled'
<1>1. CASE TypeLine
  BY <1>1 DEF Untroubled, TypeLine, serverVars, otherVars
<1>2. CASE InputEnds
  <2>1. Sent' = Sent
    BY <1>2 DEF Sent, InputEnds
  <2> QED
    BY <1>2, <2>1 DEF Untroubled, InputEnds, AfterInput, serverVars, otherVars
<1>3. CASE SendLine
  <2>1. Sent' = Sent
    BY <1>3 DEF Sent, SendLine
  <2> QED
    BY <1>3, <2>1 DEF Untroubled, SendLine, serverVars, otherVars
<1>4. ~SendLineFails
  BY DEF Untroubled, SendLineFails, Ended
<1>5. CASE PrintOutput
  <2>1. Sent' = Sent
    <3>1. /\ down # <<>> /\ terminal' = Append(terminal, Head(down)) /\ down' = Tail(down)
          /\ down \in Seq(Chunks) /\ terminal \in Seq(Chunks)
      BY <1>5 DEF PrintOutput, IInv, TypeOK
    <3>2. /\ Head(down) \in Chunks /\ Head(down) = down[1]
          /\ Local!Seen(down) = {down[1]} \cup Local!Seen(down')
      BY <3>1, TakeOne
    <3>3. Local!Seen(terminal') = Local!Seen(terminal) \cup {down[1]}
      BY <3>1, <3>2, AppendOne
    <3> QED
      BY <3>2, <3>3 DEF Sent
  <2> QED
    BY <1>5, <2>1 DEF Untroubled, PrintOutput, serverVars, otherVars
<1>6. CASE ReadEof
  <2>1. Sent' = Sent
    BY <1>6 DEF Sent, ReadEof
  <2> QED
    BY <1>6, <2>1 DEF Untroubled, ReadEof, Ended, serverVars, otherVars
<1>7. ~ReadFails
  BY DEF Untroubled, ReadFails
<1> QED
  BY <1>1, <1>2, <1>3, <1>4, <1>5, <1>6, <1>7 DEF Input, Client

(* When the server finds the end of its commands, every line typed has     *)
(* reached it and has run.                                                 *)
LEMMA ReadEndUntroubled ==
  ASSUME IInv, Untroubled, ReadEnd
  PROVE  Untroubled'
<1>1. /\ srv = "reading" /\ srv' = "done" /\ up = <<>> /\ UpEnded
      /\ UNCHANGED <<typed, stdinOpen, cli, terminal, down, broken>>
  BY DEF ReadEnd, CommandsEnd, clientVars, otherVars
<1>2. ~stdinOpen /\ cli \in {"loop", "writing"}
  BY <1>1 DEF Untroubled, UpEnded, Ended, IInv, TypeOK
<1>3. cli = "loop"
  BY <1>2 DEF Untroubled
<1>4. typed = cmd + Len(up) /\ Len(up) = 0
  BY <1>1, <1>3 DEF IInv, LinesFollow, Ended
<1>5. typed \in 0..MaxLines /\ cmd \in 0..MaxLines /\ typed = cmd /\ MaxLines \in Nat
  BY <1>4, CapacityAssumption DEF IInv, TypeOK
<1>6. ASSUME NEW l \in 1..typed PROVE Status(l) \in Sent
  <2>1. l \in Lines /\ (l < cmd \/ l = cmd)
    BY <1>5 DEF Lines
  <2>2. Status(l) \in Chunks /\ Status(l).line = l
    BY <2>1, StatusType
  <2>3. OfCommand(Status(l))
    BY <2>2 DEF OfCommand
  <2>4. IsShown(Status(l))
    BY <1>1, <2>1, <2>2, <2>3 DEF IsShown
  <2> QED
    BY <1>1, <2>2, <2>4 DEF IInv, Shown, Ended
<1>7. Sent' = Sent
  BY <1>1 DEF Sent
<1> QED
  BY <1>1, <1>2, <1>3, <1>6, <1>7 DEF Untroubled

LEMMA ServerUntroubled ==
  ASSUME IInv, Untroubled, stale = {}, Server
  PROVE  Untroubled'
<1>1. ~ReadCommandFails
  BY DEF Untroubled, ReadCommandFails
<1>2. ~SendChunkFails
  BY DEF Untroubled, SendChunkFails, WriteBreaks, Ended
<1>3. CASE ReadCommand
  BY <1>3 DEF Untroubled, ReadCommand, clientVars, otherVars
<1>4. ASSUME NEW p \in Pipes, ReadPipe(p) PROVE Untroubled'
  BY <1>4 DEF Untroubled, ReadPipe, clientVars, otherVars
<1>5. ASSUME NEW p \in Pipes, PipeEof(p) PROVE Untroubled'
  BY <1>5 DEF Untroubled, PipeEof, clientVars, otherVars
<1>6. CASE ReportStatus
  BY <1>6 DEF Untroubled, ReportStatus, clientVars, otherVars
<1>7. CASE SendChunk
  <2>1. srv' \in {"reading", "running"} /\ srv = "writing"
    BY <1>7 DEF SendChunk
  <2> QED
    BY <1>7, <2>1 DEF Untroubled, SendChunk, clientVars, otherVars
<1> QED
  BY <1>1, <1>2, <1>3, <1>4, <1>5, <1>6, <1>7, ReadEndUntroubled DEF Server

LEMMA OthersUntroubled ==
  ASSUME Untroubled,
         UNCHANGED <<typed, stdinOpen, cli, srv, terminal, down, broken>>
  PROVE  Untroubled'
<1>1. Sent' = Sent
  BY DEF Sent
<1> QED
  BY <1>1 DEF Untroubled

LEMMA StepIntact == IInv /\ Intact /\ [Next]_vars => Intact'
<1> SUFFICES ASSUME IInv, Intact, [Next]_vars, faults' = 0, stale' = {} PROVE Untroubled'
  BY DEF Intact
<1>1. faults \in Nat
  BY DEF IInv, TypeOK
<1>2. ~Environment
  <2>1. ~Fault
    BY <1>1 DEF Fault
  <2>2. \A d \in MayIdle : ~AnHourPasses(d)
    BY DEF AnHourPasses
  <2> QED
    BY <2>1, <2>2 DEF Environment, LinkBreaks, ClientKilled, SpawnFails
<1>3. UNCHANGED <<faults, stale>>
  BY <1>2 DEF Next, vars, Input, Client, Server, Command, TypeLine, InputEnds, SendLine,
     SendLineFails, PrintOutput, ReadEof, ReadFails, ReadCommand, ReadEnd, ReadCommandFails,
     ReadPipe, PipeEof, ReportStatus, SendChunk, SendChunkFails, CommandWrites,
     CommandCloses, ShellExits, otherVars
<1>4. Untroubled
  BY <1>3 DEF Intact
<1>5. CASE Input \/ Client
  BY <1>3, <1>4, <1>5, ClientUntroubled
<1>6. CASE Server
  BY <1>3, <1>4, <1>6, ServerUntroubled
<1>7. CASE Command
  BY <1>4, <1>7, OthersUntroubled DEF Command, CommandWrites, CommandCloses, ShellExits,
     clientVars, serverVars, otherVars
<1>8. CASE UNCHANGED vars
  BY <1>4, <1>8, OthersUntroubled DEF vars, clientVars, serverVars, otherVars
<1> QED
  BY <1>2, <1>5, <1>6, <1>7, <1>8 DEF Next

LEMMA LeaveImplies == LeaveInv => LeavesWhenAllIsShown
<1> SUFFICES ASSUME LeaveInv, faults = 0, stale = {}
             PROVE  /\ "failed" \notin {cli, srv}
                    /\ cli = "done" => ~stdinOpen /\ Finished = typed
  BY DEF LeavesWhenAllIsShown
<1>1. Untroubled
  BY DEF LeaveInv, Intact
<1>2. ASSUME cli = "done" PROVE ~stdinOpen /\ Finished = typed
  <2>1. ~stdinOpen /\ down = <<>> /\ \A l \in 1..typed : Status(l) \in Sent
    BY <1>1, <1>2 DEF Untroubled
  <2>2. Sent = Local!Seen(terminal)
    BY <2>1 DEF Sent, Local!Seen
  <2>3. typed \in 0..MaxLines /\ MaxLines \in Nat
    BY CapacityAssumption DEF LeaveInv, IInv, TypeOK
  <2>4. 1..typed \subseteq Told
    BY <2>1, <2>2, <2>3 DEF Told, Lines
  <2>5. Told = 1..typed
    BY <2>4 DEF LeaveInv, Counted
  <2>6. Cardinality(1..typed) = typed
    BY <2>3, FS_Interval
  <2> QED
    BY <2>1, <2>5, <2>6 DEF LeaveInv, Counted
<1> QED
  BY <1>1, <1>2 DEF Untroubled

(* Unless something breaks or an hour is quiet, axsh leaves only after its *)
(* input has ended and each line typed has run and shown its status, and   *)
(* neither side fails (axsh.rs:249-277, axshd.rs:157-179).                 *)
THEOREM ShellLeaves == Spec => []LeavesWhenAllIsShown
<1>1. LeaveInv /\ [Next]_vars => LeaveInv'
  BY StepInv, StepCounted, StepIntact DEF LeaveInv
<1> QED
  BY InitLeave, LeaveImplies, <1>1, PTL DEF Spec
=============================================================================
