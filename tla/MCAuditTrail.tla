---------------------------- MODULE MCAuditTrail ----------------------------
(***************************************************************************)
(* A small instance of AuditTrail for TLC: two activities of one payment   *)
(* at different times, one of them without a time of its own, receipts at  *)
(* and just beyond the tolerance, a receipt without a reference, a request *)
(* and a rejection, and a receipt whose proof is wrong.                    *)
(***************************************************************************)
EXTENDS AuditTrail, TLC

CONSTANTS c1, c2, r1, r2, r3, q1, k1, k2, u1, g1, s1, l1, l2

MCCred ==
  LET base == [signature |-> TRUE, ref |-> "tx", rail |-> "trc20", expects |-> TRUE, status |-> Unset, merkle |-> FALSE,
               windowStart |-> Unset, activityTimestamp |-> Unset, validFrom |-> Unset]
      activity == base @@ [type |-> "AgentActivityCredential", issuer |-> g1, signer |-> g1,
                           subject |-> g1, counterparty |-> s1]
      receipt == base @@ [type |-> "CounterpartyReceiptCredential", issuer |-> s1, signer |-> s1,
                          subject |-> g1, counterparty |-> Unset]
  IN (c1 :> ([activityTimestamp |-> 0, expects |-> FALSE] @@ activity))
     @@ (c2 :> ([merkle |-> TRUE, validFrom |-> 2, windowStart |-> 3] @@ activity))
     @@ (r1 :> ([activityTimestamp |-> 2] @@ receipt))
     @@ (r2 :> ([validFrom |-> 3, rail |-> "none"] @@ receipt))
     @@ (r3 :> ([validFrom |-> 1, ref |-> Unset] @@ receipt))
     @@ (q1 :> (base @@ [type |-> "ReceiptRequestCredential", issuer |-> g1, signer |-> g1,
                         subject |-> s1, counterparty |-> Unset]))
     @@ (k1 :> ([status |-> "rejected", type |-> "ReceiptAcknowledgment"] @@ receipt))
     @@ (u1 :> ([signature |-> FALSE, validFrom |-> 3] @@ receipt))
     @@ (k2 :> ([status |-> "accepted", type |-> "ReceiptAcknowledgment"] @@ receipt))

MCFinality == [rail \in {"trc20"} |-> 0]
=============================================================================
