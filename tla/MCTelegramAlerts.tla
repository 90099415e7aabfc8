-------------------------- MODULE MCTelegramAlerts --------------------------
(* A superuser who has linked a chat, a finance user who has not, and a    *)
(* group that the environment lists twice.                                 *)
EXTENDS TelegramAlerts, TLC

CONSTANTS p1, p2, g

TwiceTheGroup == <<g, g>>
SampleInboxes == {<<p2, g, p2>>, <<g, Garbage>>}

Row(role, super, chat) == [role |-> role, super |-> super, active |-> TRUE, chat |-> chat]

SampleTeams ==
  {[user |-> <<Row("agent", TRUE, p1), Row("finance", FALSE, Nothing)>>, inbox |-> <<>>]}

SymmetricWork == Permutations(Workers) \cup Permutations(Tickets)
=============================================================================
