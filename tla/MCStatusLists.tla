---------------------------- MODULE MCStatusLists ---------------------------
(***************************************************************************)
(* Small instances of StatusLists for TLC.                                 *)
(***************************************************************************)
EXTENDS StatusLists

CONSTANTS w1, w2, l1, l2, d1, d2

MCWorkers1 == {w1}
MCWorkers2 == {w1, w2}
MCLists1 == {l1}
MCLists2 == {l1, l2}
MCDIDs1 == {d1}
MCDIDs2 == {d1, d2}
=============================================================================
