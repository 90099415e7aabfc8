--------------------------- MODULE MCPortalIntake ---------------------------
(* Two forms, which meet every rule between them, and the seeded rules     *)
(* (photos, shipping) with two more.                                       *)
EXTENDS PortalIntake, TLC

SampleForms ==
  {[lot |-> FALSE, files |-> FALSE, defect |-> "shipping", claimed |-> 90, qty |-> 1],
   [lot |-> TRUE, files |-> TRUE, defect |-> "other", claimed |-> 0, qty |-> 3]}

SampleRules ==
  <<[type |-> "missing_attachments", bound |-> 0,
     do |-> <<"request_evidence", "set_pending_info">>],
    [type |-> "shipping_damage", bound |-> 0, do |-> <<"route_logistics_queue">>],
    [type |-> "repeat_batch", bound |-> 2, do |-> <<"escalate_quality">>],
    [type |-> "small_claim_amount", bound |-> 38,
     do |-> <<"auto_approve_reimbursement">>]>>

(* Nothing, and more than the limit of a small claim.                      *)
SampleAmounts == {<<0, 0>>, <<90, 90>>}

SymmetricRequests == Permutations(Requests)
=============================================================================
