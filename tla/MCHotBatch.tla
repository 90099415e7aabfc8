----------------------------- MODULE MCHotBatch -----------------------------
(* Requests and claims are interchangeable.                                *)
EXTENDS HotBatch, TLC

SymmetricSaves == Permutations(Claims) \cup Permutations(Requests)
=============================================================================
