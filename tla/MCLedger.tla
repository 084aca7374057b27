------------------------------ MODULE MCLedger ------------------------------
(***************************************************************************)
(* Small instances of Ledger for TLC: two transfers of one payer; two      *)
(* receipts of the first, one of them for the other agent, and one of the  *)
(* second for nobody, one for an agent the server does not know and one    *)
(* without an amount; both agents in one organisation.                     *)
(***************************************************************************)
EXTENDS Ledger, TLC

CONSTANTS v1, v2, v3, v4, v5, a9, t1, t2, a1, a2, o1, p1, r1, r2

MCVc ==
  LET base == [wellFormed |-> TRUE, rail |-> "tron:trc20", amount |-> 1, asset |-> "USDT",
               at |-> 0, expires |-> MaxTime + 1, affiliated |-> FALSE, issuer |-> "i1"]
  IN (v1 :> ([at |-> -1, expires |-> MaxTime] @@ base @@ [tx |-> t1, agent |-> a1, sender |-> p1]))
     @@ (v2 :> ([affiliated |-> TRUE, issuer |-> "i2"]
                 @@ base @@ [tx |-> t1, agent |-> a1, sender |-> Unset]))
     @@ (v3 :> (base @@ [tx |-> t2, agent |-> Unset, sender |-> p1]))
     @@ (v4 :> (base @@ [tx |-> t2, agent |-> a9, sender |-> p1]))
     @@ (v5 :> ([wellFormed |-> FALSE, amount |-> Unset]
                 @@ base @@ [tx |-> t2, agent |-> a2, sender |-> p1]))

MCTransfer == [t \in {t1, t2} |-> [sender |-> p1, amount |-> 1, agent |-> IF t = t1 THEN a1 ELSE a2]]
MCOrgOf == [a \in {a1, a2} |-> o1]
=============================================================================
