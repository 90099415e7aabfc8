------------------------ MODULE ReplacementOrderImpl ------------------------
(***************************************************************************)
(* ReplacementOrder implements OrderLedger: an order in Zoho is an order   *)
(* placed, a claim's entry is the number on the claim.                     *)
(***************************************************************************)
EXTENDS ReplacementOrder

Ledger == INSTANCE OrderLedger WITH
  orders <- [c \in Claims |-> Cardinality(OrdersOf(c))],
  onFile <- soNumber

(* While no answer is lost, no request is killed and the admin site does   *)
(* not edit the claim, every step of the pushes and undos is a step of the *)
(* ledger or leaves it alone: one order at most, numbers undone only when  *)
(* simulated, real ones shown only once their order exists.                *)
ImplementsLedger == Ledger!LedgerSpec
=============================================================================
