----------------------------- MODULE MCPolicyGate ---------------------------
(***************************************************************************)
(* Small instances of PolicyGate for TLC.                                  *)
(***************************************************************************)
EXTENDS PolicyGate

CONSTANTS r1, r2, c1
=============================================================================
