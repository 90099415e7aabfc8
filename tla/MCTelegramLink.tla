--------------------------- MODULE MCTelegramLink ---------------------------
(* Users, chats and deliveries are interchangeable.                        *)
EXTENDS TelegramLink, TLC

SymmetricLinks ==
  Permutations(Users) \cup Permutations(Chats) \cup Permutations(Requests)
=============================================================================
