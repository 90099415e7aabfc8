------------------------- MODULE MCReplacementOrder -------------------------
(* Values for TLC: requests, and an agent and a finance user.              *)
EXTENDS ReplacementOrderImpl, TLC

CONSTANTS c1, c2, q1, q2, p1, p2, p3, d1, d2, e1, agent, finance

Nobody == {}
TwoQuantities == {q1, q2}
OneClaim == {c1}
TwoPushers == {p1, p2}
OneDeleter == {d1}
TwoDeleters == {d1, d2}
OneEditor == {e1}
Staff == {agent, finance}
Finance == {finance}
Agent == {agent}

SymmetricRequests == Permutations(Pushers) \cup Permutations(Deleters)
SymmetricWork == SymmetricRequests \cup Permutations(Quantities)
=============================================================================
