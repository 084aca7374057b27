------------------------------ MODULE TronRail ------------------------------
(***************************************************************************)
(* What TronReceiptVerifier.verifyReceipt of rails/tron accepts, as the    *)
(* API server's subprocess runs it: without a configuration object, so the *)
(* contract's network is checked by the client only.  A receipt is a       *)
(* record of what its issuer claims, a transfer one of what the chain      *)
(* says; Unset is a field that the receipt leaves out.                     *)
(***************************************************************************)
EXTENDS Integers

CONSTANTS Unset,      \* an optional field that is absent
          MinConf,    \* minConfirmations (19)
          MaxAge,     \* maxAgeHours, in ticks
          SkipVerification   \* OP_SKIP_TRON_VERIFICATION: the chain is not asked

\* validateTronReceiptData: the required fields are there and are well formed.
ValidateReceiptData(c) == c.wellFormed /\ c.rail \in {"tron", "tron:trc20", "tron:native"}

Matches(claim, fact) == claim \in {Unset, fact}

\* verifyTRC20Transfer: the transaction is on the chain, and one of its Transfer
\* events has the sender, the recipient and the amount that are claimed.
VerifyTRC20Transfer(c, transfer, depth) ==
  /\ depth >= 0
  /\ Matches(c.sender, transfer.sender)
  /\ c.amount = transfer.amount

\* verifyNativeTransfer calls require() in an ES module to convert the addresses;
\* the exception is caught and the transfer is reported as not verified.
VerifyNativeTransfer(c, transfer) == FALSE

\* verifyReceipt: depth is the number of confirmations, or -1 off the chain.
VerifyReceipt(c, transfer, depth, now) ==
  /\ ValidateReceiptData(c)
  /\ \/ SkipVerification
     \/ c.rail = "tron:trc20" /\ VerifyTRC20Transfer(c, transfer, depth) /\ depth >= MinConf
     \/ c.rail # "tron:trc20" /\ VerifyNativeTransfer(c, transfer)
  /\ now - c.at <= MaxAge

=============================================================================
