------------------------------- MODULE MCFat32 -------------------------------
(* Fat32 for TLC.                                                           *)
EXTENDS Fat32, TLC

Symmetric == Permutations(Files) \cup Permutations(Values)

\* What follows a crash between the two FAT writes is not explored: no
\* property speaks about it.
Untorn == ~torn
=============================================================================
