---------------------------- MODULE MCKnownHosts ----------------------------
(* KnownHosts for TLC: processes and keys are interchangeable.             *)
EXTENDS KnownHosts, TLC

CONSTANTS a, b  \* letters

(* A piece of the one name, in front of the other, makes the one.          *)
MCHosts == {<<a, b>>, <<b>>}

Symmetry == Permutations(Procs) \cup Permutations(Keys)
=============================================================================
