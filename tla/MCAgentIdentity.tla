--------------------------- MODULE MCAgentIdentity --------------------------
(***************************************************************************)
(* Small instances of AgentIdentity for TLC.                               *)
(***************************************************************************)
EXTENDS AgentIdentity, TLC

CONSTANTS k1, k2, t1, t2

MCKeys == {k1, k2}
MCThreads == {t1, t2}
Symmetry == Permutations(MCKeys) \cup Permutations(MCThreads)
=============================================================================
