---------------------------- MODULE MCWorkingOn ----------------------------
(* Staff are interchangeable, and so are requests.                         *)
EXTENDS WorkingOn, TLC

SymmetricSignals == Permutations(Staff) \cup Permutations(Requests)
=============================================================================
