------------------------- MODULE MCCredentialCache --------------------------
(***************************************************************************)
(* Small instances of CredentialCache for TLC: one credential with a       *)
(* revocation and a suspension entry, as Spec 3.3 shows them.              *)
(***************************************************************************)
EXTENDS CredentialCache, TLC

CONSTANTS c1, r1, r2, lr, ls

MCLists == {lr, ls}
\* A second bit: the first list an issuer can publish has some bit set.
MCIndex == {0, 1}
MCEntries == [c \in {c1} |->
  <<[purpose |-> "revocation", list |-> lr, index |-> 0],
    [purpose |-> "suspension", list |-> ls, index |-> 0]>>]

Symmetry == Permutations({r1, r2})
=============================================================================
