----------------------------- MODULE OrderLedger -----------------------------
(***************************************************************************)
(* What the replacement order machinery promises of a claim: Zoho is given *)
(* at most one order for it, the claim shows a real number only after that *)
(* order exists, a real number stays, and only a simulated one is undone.  *)
(***************************************************************************)
EXTENDS Naturals

CONSTANT Claims

VARIABLES
  orders,  \* how many orders Zoho has for the claim
  onFile   \* the claim's number: "", "sim" or "real"

ledger == <<orders, onFile>>

LedgerTypeOK ==
  /\ orders \in [Claims -> {0, 1}]
  /\ onFile \in [Claims -> {"", "sim", "real"}]

LedgerInit ==
  /\ orders = [c \in Claims |-> 0]
  /\ onFile = [c \in Claims |-> ""]

Place(c) ==
  /\ orders[c] = 0
  /\ onFile[c] = ""
  /\ orders' = [orders EXCEPT ![c] = 1]
  /\ UNCHANGED onFile

RecordReal(c) ==
  /\ orders[c] = 1
  /\ onFile[c] = ""
  /\ onFile' = [onFile EXCEPT ![c] = "real"]
  /\ UNCHANGED orders

RecordSimulated(c) ==
  /\ orders[c] = 0
  /\ onFile[c] = ""
  /\ onFile' = [onFile EXCEPT ![c] = "sim"]
  /\ UNCHANGED orders

Undo(c) ==
  /\ onFile[c] = "sim"
  /\ onFile' = [onFile EXCEPT ![c] = ""]
  /\ UNCHANGED orders

LedgerNext == \E c \in Claims :
  Place(c) \/ RecordReal(c) \/ RecordSimulated(c) \/ Undo(c)

LedgerSpec == LedgerInit /\ [][LedgerNext]_ledger
=============================================================================
