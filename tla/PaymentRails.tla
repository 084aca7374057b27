---------------------------- MODULE PaymentRails ----------------------------
(***************************************************************************)
(* What the payment rails accept as settled: x402 (rails/x402), Solana     *)
(* (rails/solana) and the chain adapters behind POST /v1/chain/verify.     *)
(* What a service answers is an argument; Chain is what the ledger says.   *)
(* A transaction of Base is [settled, transfers], transfers the amounts of *)
(* its USDC Transfer events in order; one of Solana is [finalized, payer,  *)
(* native, pre, post], native its System transfers, pre and post the token *)
(* balance of each owner (the last entry of the owner, for the one mint).  *)
(***************************************************************************)
EXTENDS Integers, Sequences

CONSTANTS Chain,        \* transaction -> its record
          Tolerance     \* lamports by which a SOL amount may be off

ASSUME RailsAssumption ==
  Tolerance \in Nat /\ \A tx \in DOMAIN Chain : Chain[tx].transfers \in Seq(Nat)

-----------------------------------------------------------------------------
\* verify_via_facilitator: some endpoint answers 200; what it says is not read.
VerifyViaFacilitator(answers) == \E i \in DOMAIN answers : answers[i] = "200"

\* verify_onchain: the first USDC transfer of the receipt is the one that counts.
\* (The caller passes no expected_recipient.)
VerifyOnchain(tx, amount) ==
  /\ Chain[tx].settled
  /\ Chain[tx].transfers # <<>>
  /\ Head(Chain[tx].transfers) = amount

\* fetch_transaction: two attempts at each node.  A missing, failed or not
\* finalized transaction and a transport error are retried; an RPC error raises
\* the built-in ConnectionError, which the loop does not catch.
FetchTransaction(tx, answers) ==
  /\ Chain[tx].finalized
  /\ \E i \in DOMAIN answers :
       answers[i] = "result" /\ \A j \in 1 .. (i - 1) : answers[j] # "rpc error"

\* parse_system_transfer: the fee payer is the sender; the first transfer from
\* it to the recipient counts.  What is transferred: one amount, or none.
ParseSystemTransfer(tx, from, to) ==
  LET native     == Chain[tx].native
      Matches(i) == native[i].from = from /\ native[i].to = to
  IN  {native[i].amount : i \in {j \in DOMAIN native :
         Chain[tx].payer = from /\ Matches(j) /\ \A k \in 1 .. (j - 1) : ~Matches(k)}}

\* parse_spl_transfer: the recipient has more and the sender less than before.
ParseSplTransfer(tx, from, to) ==
  LET pre == Chain[tx].pre  post == Chain[tx].post
  IN  IF post[to] > pre[to] /\ pre[from] > post[from] THEN {post[to] - pre[to]} ELSE {}

\* verify_solana_transaction: SOL within the tolerance, a token exactly.
VerifySolanaTransaction(tx, asset, from, to, amount, answers) ==
  /\ FetchTransaction(tx, answers)
  /\ IF asset = "SOL"
     THEN \E got \in ParseSystemTransfer(tx, from, to) : got - amount \in -Tolerance .. Tolerance
     ELSE amount \in ParseSplTransfer(tx, from, to)

-----------------------------------------------------------------------------
\* What _verify_payee_attestation and _resolve_issuer_key look at, in order; an
\* attestation is the set of the checks it passes, {} when there is none.
AttestationChecks == {"schema", "payment_hash", "preimage", "proof", "issuer_key", "signature"}

\* _verify_payee_attestation
VerifyPayeeAttestation(ev) == AttestationChecks \subseteq ev.attestation

\* _query_lnd: unconfigured or unreachable, the node says nothing; then lnd is "none".
QueryLnd(ev) == ev.lnd = "settled"

\* Mutant: the preimage alone is enough for either side.
LightningTierPreimage(ev) ==
  IF ~ev.preimage \/ ev.role \notin {"payer", "payee"} THEN "none"
  ELSE IF ev.role = "payer" /\ VerifyPayeeAttestation(ev) THEN "payee_attestation"
  ELSE IF QueryLnd(ev) THEN "lnd_query"
  ELSE "preimage_only"

\* LightningAdapter.verify_transaction: the tier that is reached, or "none".  The
\* two conflict rules leave the tier as it is.
LightningTier(ev) ==
  IF ~ev.preimage \/ ev.role \notin {"payer", "payee"} THEN "none"
  ELSE IF ev.role = "payer" /\ VerifyPayeeAttestation(ev) THEN "payee_attestation"
  ELSE IF QueryLnd(ev) THEN "lnd_query"
  ELSE IF ev.role = "payee" THEN "preimage_only"
  ELSE "none"

\* TronAdapter builds a receipt without an issuer, a subject or a timestamp, which
\* validateTronReceiptData requires: it never verifies.
TronTier(ev) == "none"

\* StacksAdapter is a stub.
StacksTier(ev) == "none"

Chains == {"lightning", "tron", "stacks"}

\* get_adapter and verify_transaction.
AdapterTier(chain, ev) ==
  CASE chain = "lightning" -> LightningTier(ev)
    [] chain = "tron"      -> TronTier(ev)
    [] chain = "stacks"    -> StacksTier(ev)

=============================================================================
