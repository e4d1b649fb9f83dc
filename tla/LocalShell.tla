---------------------------- MODULE LocalShell ----------------------------
(***************************************************************************)
(* What an axsh session shows its user (README.md, "Run client"): what     *)
(* /bin/sh would show here.  The lines typed are run one after another;    *)
(* the terminal gets all a command writes to each of its two pipes, in     *)
(* order, and then its exit status, before anything of the next command.   *)
(***************************************************************************)
EXTENDS Naturals, Sequences

(* One piece of output, or the exit status, of the command in line l.      *)
Chunk(l, p, n) == [line |-> l, from |-> p, n |-> n]
Status(l)      == Chunk(l, "status", 0)

(* Whether c is the next chunk of its pipe, or the status after them all,  *)
(* of a command whose line is the first without a status, when the chunks  *)
(* in seen were shown.                                                     *)
Follows(c, seen, output) ==
  /\ c \notin seen
  /\ \A l \in 1..(c.line - 1) : Status(l) \in seen
  /\ Status(c.line) \notin seen
  /\ \/ /\ c = Status(c.line)
        /\ \A p \in DOMAIN output[c.line] : \A n \in 1..output[c.line][p] :
             Chunk(c.line, p, n) \in seen
     \/ /\ c.from \in DOMAIN output[c.line]
        /\ c.n \in 1..output[c.line][c.from]
        /\ \A n \in 1..(c.n - 1) : Chunk(c.line, c.from, n) \in seen

Seen(shown) == {shown[i] : i \in 1..Len(shown)}

VARIABLES
  output,   \* output[l][p]: how many chunks the command in line l writes to p
  typed,    \* how many lines were typed
  terminal  \* the chunks shown

Init == typed = 0 /\ terminal = <<>>

Type == /\ typed' = typed + 1
        /\ UNCHANGED <<output, terminal>>

Show(c) == /\ c.line \in 1..typed
           /\ Follows(c, Seen(terminal), output)
           /\ terminal' = Append(terminal, c)
           /\ UNCHANGED <<output, typed>>

Shows == /\ terminal' # terminal
         /\ Show(terminal'[Len(terminal')])

Next == Type \/ Shows

Spec == Init /\ [][Next]_<<output, typed, terminal>>
=============================================================================
