--------------------------- MODULE MCShellSession ---------------------------
(* Small instances of ShellSession for TLC.                                *)
EXTENDS ShellSession, FiniteSetsExt

CONSTANT MaxChunks   \* bound: chunks all commands write together

FewChunks ==
  MapThenSumSet(LAMBDA lp : output[lp[1]][lp[2]], Lines \X Pipes) <= MaxChunks

MCInit == Init /\ FewChunks

MCSpec == MCInit /\ [][Next]_vars /\ Fairness
=============================================================================
