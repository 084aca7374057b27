------------------------------ MODULE MCIndexer -----------------------------
(***************************************************************************)
(* Small instances of Indexer for TLC.                                     *)
(***************************************************************************)
EXTENDS Indexer

CONSTANTS t1, o1, o2, q1

MCTokens == {t1}
MCOwners == {o1, o2}
MCRequests == {q1}
=============================================================================
