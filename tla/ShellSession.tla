---------------------------- MODULE ShellSession ----------------------------
(***************************************************************************)
(* An established session: the select loop of axsh (src/src/bin/axsh.rs),  *)
(* handle_connection and run_command_line of axshd (src/src/bin/axshd.rs), *)
(* and the command the server runs.                                        *)
(*                                                                         *)
(* Each direction of the session is an ordered stream of payloads, as      *)
(* PayloadStream promises, with room for so many.  A payload carries one   *)
(* line, or one chunk: what one read of a pipe returned.  Neither loop     *)
(* reads from the session while it awaits a write to it.                   *)
(***************************************************************************)
EXTENDS Naturals, Sequences, FiniteSets

CONSTANTS
  MaxLines,      \* bound: lines typed
  MaxAhead,      \* bound: lines typed before their commands' status is shown
  MaxOutput,     \* bound: chunks a command writes to each pipe
  MaxFaults,     \* bound: how often something breaks
  MayIdle,       \* the directions that may be quiet for an hour
  UpCapacity,    \* payloads the stream to the server holds
  DownCapacity,  \* payloads the stream to the client holds
  PipeCapacity   \* chunks a pipe holds

Lines == 1..MaxLines
Pipes == {"stdout", "stderr"}

ASSUME CapacityAssumption ==
  /\ MaxLines \in Nat /\ MaxAhead \in Nat /\ MaxOutput \in Nat /\ MaxFaults \in Nat
  /\ MayIdle \subseteq {"up", "down"}
  /\ UpCapacity \in Nat \ {0} /\ DownCapacity \in Nat \ {0}
  /\ PipeCapacity \in Nat \ {0}

VARIABLES
  output,     \* output[l][p]: chunks the command in line l writes to p, fixed
  typed,      \* lines read from stdin
  stdinOpen,  \* stdin_open
  cli,        \* where axsh is
  up,         \* lines on their way to the server
  srv,        \* where the server's task is
  cmd,        \* the line it runs, or ran last
  made,       \* made[p]: chunks the command has written to p
  held,       \* the pipes some process of the command holds open
  exited,     \* whether the shell has exited
  taken,      \* taken[p]: chunks the server has read from p
  open,       \* stdout_open, stderr_open
  sending,    \* the chunk being written
  down,       \* chunks on their way to the client
  terminal,   \* the chunks printed
  stale,      \* the directions whose last accepted packet is too long ago
  broken,     \* whether the link is down
  faults      \* how often something broke

clientVars  == <<typed, stdinOpen, cli, terminal>>
serverVars  == <<srv, cmd, taken, open, sending>>
commandVars == <<made, held, exited>>
otherVars   == <<output, stale, broken, faults>>
vars == <<clientVars, serverVars, commandVars, otherVars, up, down>>

Local == INSTANCE LocalShell

Chunk(l, p, n) == Local!Chunk(l, p, n)
Status(l)      == Local!Status(l)
NoChunk        == Chunk(0, "none", 0)

Ended == {"done", "failed"}

Init ==
  /\ output \in [Lines -> [Pipes -> 0..MaxOutput]]
  /\ typed = 0 /\ stdinOpen = TRUE /\ cli = "loop"
  /\ up = <<>> /\ down = <<>> /\ terminal = <<>>
  /\ srv = "reading" /\ cmd = 0 /\ sending = NoChunk
  /\ made = [p \in Pipes |-> 0] /\ taken = [p \in Pipes |-> 0]
  /\ held = {} /\ open = {} /\ exited = TRUE
  /\ stale = {} /\ broken = FALSE /\ faults = 0

-----------------------------------------------------------------------------
(* axsh.                                                                   *)

Finished == Cardinality({i \in 1..Len(terminal) : terminal[i].from = "status"})

(* The select takes a line: write_all queues its payload ...               *)
TypeLine ==
  /\ cli = "loop" /\ stdinOpen
  /\ typed < MaxLines
  /\ typed - Finished < MaxAhead
  /\ typed' = typed + 1
  /\ cli' = "writing"
  /\ UNCHANGED <<stdinOpen, terminal, serverVars, commandVars, otherVars, up, down>>

(* ... and flush returns when the stream has taken it.                     *)
SendLine ==
  /\ cli = "writing"
  /\ ~broken /\ srv \notin Ended
  /\ Len(up) < UpCapacity
  /\ up' = Append(up, typed)
  /\ cli' = "loop"
  /\ UNCHANGED <<typed, stdinOpen, terminal, serverVars, commandVars, otherVars, down>>

SendLineFails ==
  /\ cli = "writing"
  /\ broken \/ srv \in Ended
  /\ cli' = "failed"
  /\ UNCHANGED <<typed, stdinOpen, terminal, serverVars, commandVars, otherVars,
                 up, down>>

LeavesAtOnce == "done"

AfterInput == "loop"

(* End of the input: shut the stream down, and go on reading.              *)
InputEnds ==
  /\ cli = "loop" /\ stdinOpen
  /\ stdinOpen' = FALSE
  /\ cli' = AfterInput
  /\ UNCHANGED <<typed, terminal, serverVars, commandVars, otherVars, up, down>>

PrintOutput ==
  /\ cli = "loop"
  /\ down # <<>>
  /\ "down" \notin stale
  /\ terminal' = Append(terminal, Head(down))
  /\ down' = Tail(down)
  /\ UNCHANGED <<typed, stdinOpen, cli, serverVars, commandVars, otherVars, up>>

(* A read returns nothing, the loop is left and the stream shut down.      *)
ReadEof ==
  /\ cli = "loop"
  /\ srv \in Ended /\ down = <<>>
  /\ cli' = "done"
  /\ UNCHANGED <<typed, stdinOpen, terminal, serverVars, commandVars, otherVars,
                 up, down>>

(* A read fails: the first payload after an hour of quiet is refused, a    *)
(* broken link or a server that died takes what was under way with it.     *)
ReadFails ==
  /\ cli = "loop"
  /\ \/ down # <<>> /\ "down" \in stale
     \/ broken
     \/ srv = "failed"
  /\ cli' = "failed"
  /\ UNCHANGED <<typed, stdinOpen, terminal, serverVars, commandVars, otherVars,
                 up, down>>

-----------------------------------------------------------------------------
(* axshd: handle_connection.                                               *)

UpEnded == ~stdinOpen \/ cli \in Ended

(* next_line; run_command_line starts the shell.                           *)
ReadCommand ==
  /\ srv = "reading"
  /\ up # <<>>
  /\ "up" \notin stale
  /\ cmd' = Head(up)
  /\ up' = Tail(up)
  /\ srv' = "running"
  /\ made' = [p \in Pipes |-> 0] /\ held' = Pipes /\ exited' = FALSE
  /\ taken' = [p \in Pipes |-> 0] /\ open' = Pipes
  /\ UNCHANGED <<clientVars, sending, otherVars, down>>

EndsWhenClosed == UpEnded

CommandsEnd == UpEnded /\ up = <<>>

ReadEnd ==
  /\ srv = "reading"
  /\ CommandsEnd
  /\ srv' = "done"
  /\ UNCHANGED <<clientVars, cmd, taken, open, sending, commandVars, otherVars, up, down>>

ReadCommandFails ==
  /\ srv = "reading"
  /\ \/ up # <<>> /\ "up" \in stale
     \/ broken
     \/ cli = "failed"
  /\ srv' = "failed"
  /\ UNCHANGED <<clientVars, cmd, taken, open, sending, commandVars, otherVars, up, down>>

-----------------------------------------------------------------------------
(* axshd: run_command_line.                                                *)

(* As if the end of the pipe were one more chunk of it.                    *)
ReadableOrEof(p) == taken[p] < made[p] \/ p \notin held

Readable(p) == taken[p] < made[p]

BothOpen == open = Pipes

MoreOutput == open # {}

ReadPipe(p) ==
  /\ srv = "running" /\ MoreOutput
  /\ p \in open
  /\ Readable(p)
  /\ taken' = [taken EXCEPT ![p] = @ + 1]
  /\ sending' = Chunk(cmd, p, taken[p] + 1)
  /\ srv' = "writing"
  /\ UNCHANGED <<clientVars, cmd, open, commandVars, otherVars, up, down>>

(* End of file: nothing left in the pipe and nobody holds it.              *)
PipeEof(p) ==
  /\ srv = "running" /\ MoreOutput
  /\ p \in open
  /\ taken[p] = made[p] /\ p \notin held
  /\ open' = open \ {p}
  /\ UNCHANGED <<clientVars, srv, cmd, taken, sending, commandVars, otherVars, up, down>>

(* child.wait, then the status line.                                       *)
ReportStatus ==
  /\ srv = "running" /\ ~MoreOutput
  /\ exited
  /\ sending' = Status(cmd)
  /\ srv' = "writing"
  /\ UNCHANGED <<clientVars, cmd, taken, open, commandVars, otherVars, up, down>>

(* write_all and flush return when the stream has taken the payload; the   *)
(* loop goes on with the pipes, or with the next line.                     *)
SendChunk ==
  /\ srv = "writing"
  /\ ~broken /\ cli \notin Ended
  /\ Len(down) < DownCapacity
  /\ down' = Append(down, sending)
  /\ srv' = IF sending = Status(cmd) THEN "reading" ELSE "running"
  /\ UNCHANGED <<clientVars, cmd, taken, open, sending, commandVars, otherVars, up>>

NeverBreaks == FALSE

WriteBreaks == broken \/ cli \in Ended

SendChunkFails ==
  /\ srv = "writing"
  /\ WriteBreaks
  /\ srv' = "failed"
  /\ UNCHANGED <<clientVars, cmd, taken, open, sending, commandVars, otherVars, up, down>>

-----------------------------------------------------------------------------
(* The command: the shell and whatever it leaves in the background.        *)

Serving == srv \in {"running", "writing"}

CommandWrites(p) ==
  /\ Serving
  /\ p \in held
  /\ made[p] < output[cmd][p]
  /\ made[p] - taken[p] < PipeCapacity
  /\ made' = [made EXCEPT ![p] = @ + 1]
  /\ UNCHANGED <<clientVars, serverVars, held, exited, otherVars, up, down>>

CommandCloses(p) ==
  /\ Serving
  /\ p \in held
  /\ made[p] = output[cmd][p]
  /\ held' = held \ {p}
  /\ UNCHANGED <<clientVars, serverVars, made, exited, otherVars, up, down>>

ShellExits ==
  /\ Serving
  /\ ~exited
  /\ exited' = TRUE
  /\ UNCHANGED <<clientVars, serverVars, made, held, otherVars, up, down>>

-----------------------------------------------------------------------------
(* The clock, and what may break.                                          *)

(* An hour passes without a packet in direction d.                         *)
AnHourPasses(d) ==
  /\ d \in MayIdle \ stale
  /\ stale' = stale \cup {d}
  /\ UNCHANGED <<clientVars, serverVars, commandVars, output, broken, faults, up, down>>

Fault == faults < MaxFaults /\ faults' = faults + 1

LinkBreaks ==
  /\ Fault
  /\ ~broken
  /\ broken' = TRUE
  /\ UNCHANGED <<clientVars, serverVars, commandVars, output, stale, up, down>>

(* axsh is killed, or its standard input cannot be read.                   *)
ClientKilled ==
  /\ Fault
  /\ cli \notin Ended
  /\ cli' = "failed"
  /\ UNCHANGED <<typed, stdinOpen, terminal, serverVars, commandVars, output, stale,
                 broken, up, down>>

(* /bin/sh cannot be started: the line is lost and the session over.       *)
SpawnFails ==
  /\ Fault
  /\ srv = "reading"
  /\ up # <<>> /\ "up" \notin stale
  /\ up' = Tail(up)
  /\ srv' = "failed"
  /\ UNCHANGED <<clientVars, cmd, taken, open, sending, commandVars, output, stale,
                 broken, down>>

-----------------------------------------------------------------------------
Input == TypeLine \/ InputEnds

Client == SendLine \/ SendLineFails \/ PrintOutput \/ ReadEof \/ ReadFails

Server == \/ ReadCommand
          \/ ReadEnd
          \/ ReadCommandFails
          \/ \E p \in Pipes : ReadPipe(p) \/ PipeEof(p)
          \/ ReportStatus
          \/ SendChunk
          \/ SendChunkFails

Command == \/ \E p \in Pipes : CommandWrites(p) \/ CommandCloses(p)
           \/ ShellExits

Environment == \/ \E d \in MayIdle : AnHourPasses(d)
               \/ LinkBreaks
               \/ ClientKilled
               \/ SpawnFails

Next == Input \/ Client \/ Server \/ Command \/ Environment

Spec == Init /\ [][Next]_vars

(* tokio polls both tasks while they can go on, and commands get done when *)
(* their output is taken.  Nobody has to type, or to end the input.        *)
Fairness == WF_vars(Client) /\ WF_vars(Server) /\ WF_vars(Command)

FairSpec == Spec /\ Fairness

-----------------------------------------------------------------------------
(* Properties.                                                             *)

Chunks == [line : Lines, from : Pipes \cup {"status"}, n : Nat]

(* Every variable holds a value of its kind; streams and pipes never hold  *)
(* more than they have room for.                                           *)
TypeOK ==
  /\ output \in [Lines -> [Pipes -> Nat]]
  /\ typed \in 0..MaxLines
  /\ stdinOpen \in BOOLEAN
  /\ cli \in {"loop", "writing"} \cup Ended
  /\ up \in Seq(Lines) /\ Len(up) <= UpCapacity
  /\ srv \in {"reading", "running", "writing"} \cup Ended
  /\ cmd \in 0..MaxLines
  /\ made \in [Pipes -> Nat]
  /\ held \in SUBSET Pipes
  /\ exited \in BOOLEAN
  /\ taken \in [Pipes -> Nat]
  /\ \A p \in Pipes : taken[p] <= made[p] /\ made[p] <= taken[p] + PipeCapacity
  /\ open \in SUBSET Pipes
  /\ sending \in Chunks \cup {NoChunk}
  /\ down \in Seq(Chunks) /\ Len(down) <= DownCapacity
  /\ terminal \in Seq(Chunks)
  /\ stale \in SUBSET {"up", "down"}
  /\ broken \in BOOLEAN
  /\ faults \in 0..MaxFaults

(* The terminal shows what running the lines here would: output complete   *)
(* and in order before the status, one command after another, whatever     *)
(* breaks (axshd.rs:114-144).                                              *)
LooksLocal == Local!Spec

(* If nothing breaks and no direction is quiet for an hour, nobody fails,  *)
(* and axsh only leaves after its input has ended and every line typed has *)
(* run, with its status shown (axsh.rs:249-277).                           *)
LeavesWhenAllIsShown ==
  faults = 0 /\ stale = {} =>
    /\ "failed" \notin {cli, srv}
    /\ cli = "done" => ~stdinOpen /\ Finished = typed

(* Once the input has ended or one side is gone, both sides end, whatever  *)
(* the commands still have to say; and where the link breaks while one     *)
(* side is about to write, that side ends at its next write: a server is   *)
(* not kept by the command it runs (axsh.rs:263, axshd.rs:121, 133).  Who  *)
(* only reads may wait for ever on a link that went silent.                *)
SessionEnds ==
  /\ (~stdinOpen \/ cli \in Ended \/ srv \in Ended)
       ~> (cli \in Ended /\ srv \in Ended) \/ broken
  /\ (broken /\ Serving) ~> srv \in Ended
  /\ (broken /\ cli = "writing") ~> cli \in Ended

(* What a command writes is streamed to the client (axshd.rs:90).          *)
OutputStreamed ==
  \A l \in Lines, p \in Pipes :
    (cmd = l /\ made[p] > 0)
      ~> \/ \E i \in 1..Len(terminal) : terminal[i] = Chunk(l, p, 1)
         \/ cli \in Ended
=============================================================================
