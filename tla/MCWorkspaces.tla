----------------------------- MODULE MCWorkspaces -----------------------------
(* A distributor who is deactivated or becomes an agent, and an agent or   *)
(* distributor who becomes a superuser.                                    *)
EXTENDS Workspaces

CONSTANTS dan, sam

Row(role, super, active) == [role |-> role, super |-> super, active |-> active]

SampleRows ==
  [u \in Users |->
     IF u = dan
     THEN {Row("distributor", FALSE, TRUE), Row("agent", FALSE, TRUE),
           Row("distributor", FALSE, FALSE)}
     ELSE {Row("distributor", FALSE, TRUE), Row("distributor", TRUE, TRUE)}]
=============================================================================
