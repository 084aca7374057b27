--------------------------- MODULE StatusRegistry ---------------------------
(***************************************************************************)
(* What the OP-hosted status lists of Spec 3.3 promise to a verifier: a    *)
(* list, once created, has one purpose for ever; the bits it serves change *)
(* only by publishing a new signed list; and on a revocation list a bit    *)
(* that was served as set is served as set ever after.                     *)
(*                                                                         *)
(* StatusLists (the store and its endpoints) is shown to implement this;   *)
(* CredentialCache (the reader of the lists) is built on top of it.        *)
(***************************************************************************)
EXTENDS Naturals

CONSTANTS Lists,      \* identifiers of status lists
          Index       \* bit positions of a list

VARIABLES purpose,    \* purpose[l]: "none" until l is created
          served      \* served[l]: the bits GET serves, NotServed before the
                      \* first signed list replaces the placeholder

regVars == <<purpose, served>>

Purposes == {"revocation", "suspension"}
NotServed == [published |-> FALSE, bits |-> {}]
Serving(b) == [published |-> TRUE, bits |-> b]

RegTypeOK ==
  /\ purpose \in [Lists -> Purposes \cup {"none"}]
  /\ served \in [Lists -> [published: BOOLEAN, bits: SUBSET Index]]

RegInit ==
  /\ purpose = [l \in Lists |-> "none"]
  /\ served = [l \in Lists |-> NotServed]

\* A new list: it has a purpose and is not served yet.
RegCreate(l, p) ==
  /\ purpose[l] = "none"
  /\ purpose' = [purpose EXCEPT ![l] = p]
  /\ UNCHANGED served

\* The rules of a status list update: something changes, and a revocation is
\* never taken back.
LegalChange(p, old, new) ==
  /\ new # old
  /\ p = "revocation" => old \subseteq new

RegPublish(l, b) ==
  /\ purpose[l] # "none"
  /\ LegalChange(purpose[l], served[l].bits, b)
  /\ served' = [served EXCEPT ![l] = Serving(b)]
  /\ UNCHANGED purpose

RegNext ==
  \E l \in Lists :
    \/ \E p \in Purposes : RegCreate(l, p)
    \/ \E b \in SUBSET Index : RegPublish(l, b)

RegSpec == RegInit /\ [][RegNext]_regVars
=============================================================================
