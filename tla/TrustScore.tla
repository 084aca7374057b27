----------------------------- MODULE TrustScore -----------------------------
(***************************************************************************)
(* compute_tron_trust_score of api/trust_score.py, over the metrics that   *)
(* the view v_tron_trust_metrics aggregates from an agent's receipts.      *)
(* Scores are kept in hundredths of a point, so that the weights need no   *)
(* fractions; rounding is left out.                                        *)
(***************************************************************************)
EXTENDS Integers

CONSTANTS ReceiptCap,        \* receipts for the full receipt score (50)
          CounterpartyCap,   \* counterparties for the full diversity score (20)
          VolumeUnit         \* hundredths of a dollar per point of volume score (10000)

ASSUME ScoreAssumption ==
  /\ ReceiptCap \in Nat \ {0} /\ CounterpartyCap \in Nat \ {0} /\ VolumeUnit \in Nat \ {0}

AtMost(bound, x) == IF x < bound THEN x ELSE bound
AtLeast(bound, x) == IF x > bound THEN x ELSE bound

ReceiptScore(m) == AtMost(100, (m.receipts * 100) \div ReceiptCap)
CounterpartyScore(m) == AtMost(100, (m.counterparties * 100) \div CounterpartyCap)
OrgScore(m) == IF m.affiliated > 0 THEN 100 ELSE 50

\* Ten points a day since the last transaction; a transaction dated in the future
\* scores more than 100.
RecencyScore(m) == AtLeast(0, 100 - 10 * m.idle)

\* A TRX counts as a hundredth of a dollar.
VolumeScore(m) == AtMost(100, (m.trx + 100 * m.stable) \div VolumeUnit)

\* An agent the view has no row for scores nothing.
Score(m) ==
  IF m.receipts = 0 THEN 0
  ELSE 25 * ReceiptScore(m) + 25 * CounterpartyScore(m) + 20 * OrgScore(m)
       + 15 * RecencyScore(m) + 15 * VolumeScore(m)

=============================================================================
