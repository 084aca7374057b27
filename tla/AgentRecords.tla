---------------------------- MODULE AgentRecords ----------------------------
(***************************************************************************)
(* The records the API server keeps about an agent, side by side: its      *)
(* delegations and credentials (Vac, Delegations), its verified events     *)
(* (Events), the chain verifications of its receipts (ChainVerify) and the *)
(* extension credentials that integrators attach to it (Extensions).       *)
(* Every component works on tables of its own, except that a presentation  *)
(* may carry a Delegation VC; requests to all of them interleave.          *)
(***************************************************************************)
EXTENDS Vac, Events, ChainVerify, Extensions

vars == <<left, dvars, vvars, evars, cvars, xvars>>

Init == left \in Loads /\ DelegationInit /\ VacInit /\ EventInit /\ ChainInit /\ ExtensionInit

Next ==
  \/ DelegationNext /\ UNCHANGED <<vvars, evars, cvars, xvars>>
  \/ VacNext        /\ UNCHANGED <<evars, cvars, xvars>>
  \/ EventNext      /\ UNCHANGED <<dvars, vvars, cvars, xvars>>
  \/ ChainNext      /\ UNCHANGED <<dvars, vvars, evars, xvars>>
  \/ ExtensionNext  /\ UNCHANGED <<dvars, vvars, evars, cvars>>

Spec == Init /\ [][Next]_vars

TypeOK ==
  /\ left \in [Services -> Nat]
  /\ DelegationTypeOK /\ VacTypeOK /\ EventTypeOK /\ ChainTypeOK /\ ExtensionTypeOK

=============================================================================
