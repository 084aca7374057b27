---------------------------- MODULE MCMagicLinks ----------------------------
(***************************************************************************)
(* Small instances of MagicLinks for TLC.                                  *)
(***************************************************************************)
EXTENDS MagicLinks

CONSTANTS p1, p2, l1, l2

MCPages == {p1, p2}
=============================================================================
