------------------------------- MODULE Loops -------------------------------
(***************************************************************************)
(* The loops of the readers and writers: one pass over a sequence, with a  *)
(* state that every element changes.  The recursion is a function's, and a *)
(* step is a function too, so that one lemma holds of all loops.           *)
(***************************************************************************)
EXTENDS Naturals, Sequences

(* What the state init has become behind s, when an element a makes the    *)
(* state u to step[a][u].                                                  *)
Loop(step, init, s) ==
  LET at[i \in 0..Len(s)] == IF i = 0 THEN init ELSE step[s[i]][at[i - 1]]
  IN  at[Len(s)]

(* The elements of s that are in A, in their order.                        *)
Kept(s, A) ==
  LET Elements == {s[i] : i \in 1..Len(s)}
  IN  Loop([a \in Elements |-> [kept \in Seq(Elements) |->
              IF a \in A THEN Append(kept, a) ELSE kept]], <<>>, s)
=============================================================================
