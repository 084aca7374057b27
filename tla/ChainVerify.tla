---------------------------- MODULE ChainVerify -----------------------------
(***************************************************************************)
(* POST /v1/chain/verify of api/verify_endpoints.py.  receipt_reference is *)
(* a unique key of chain_verifications and the key of idempotency: a call  *)
(* looks for the receipt's row, refuses or replays what is there, inserts  *)
(* a pending row, asks the chain's adapter with no transaction open, and   *)
(* updates the row by its receipt.  A failed row may be tried again: it is *)
(* deleted first.  Statements of two calls interleave between the commits. *)
(* A caller is an active integrator; whose row it is nobody compares.      *)
(***************************************************************************)
EXTENDS ApiRequests, PaymentRails

CONSTANTS VerifyCalls,      \* calls of chain_verify
          VerifyReceipts,   \* receipt_references
          Evidence          \* chain_specific: [preimage, role, attestation, lnd]

NoRow == [none |-> "row"]

VARIABLES rows,         \* chain_verifications: receipt -> row; `by` updated it last
          verifying,    \* the calls
          everFailed    \* receipts of which some row was failed

cvars == <<rows, verifying, everFailed>>

ChainInit ==
  /\ rows = [r \in VerifyReceipts |-> NoRow]
  /\ verifying = [c \in VerifyCalls |-> [at |-> "new"]]
  /\ everFailed = {}

-----------------------------------------------------------------------------
\* Mutant: a pending row is retried like a failed one.
ExistingRowRetried(row, chain) ==
  IF row = NoRow THEN "insert"
  ELSE IF row.chain # chain THEN "refused"
  ELSE IF row.status = "verified" THEN "replayed"
  ELSE "delete"

\* What the row that is found means for a call on this chain.
ExistingRow(row, chain) ==
  IF row = NoRow THEN "insert"
  ELSE IF row.chain # chain THEN "refused"
  ELSE IF row.status = "verified" THEN "replayed"
  ELSE IF row.status = "pending" THEN "refused"
  ELSE "delete"

\* chain_verify up to the idempotency check.
VerifySelect(c, r, chain, ev) ==
  /\ Ask("chain")
  /\ verifying[c].at = "new"
  /\ verifying' = [verifying EXCEPT ![c] =
       [at |-> ExistingRow(rows[r], chain), receipt |-> r, chain |-> chain, ev |-> ev]]
  /\ UNCHANGED <<rows, everFailed>>

\* DELETE ... WHERE receipt_reference: whatever row is there by now.
VerifyDelete(c) ==
  /\ verifying[c].at = "delete"
  /\ rows' = [rows EXCEPT ![verifying[c].receipt] = NoRow]
  /\ verifying' = [verifying EXCEPT ![c].at = "insert"]
  /\ UNCHANGED <<everFailed, left>>

\* INSERT of the pending row; on a row the unique key ends the call with a 500.
VerifyInsert(c) ==
  /\ verifying[c].at = "insert"
  /\ LET r == verifying[c].receipt
     IN  IF rows[r] = NoRow
         THEN /\ rows' = [rows EXCEPT ![r] =
                   [chain |-> verifying[c].chain, status |-> "pending", tier |-> "none", by |-> c]]
              /\ verifying' = [verifying EXCEPT ![c].at = "dispatched"]
         ELSE /\ verifying' = [verifying EXCEPT ![c].at = "refused"]
              /\ UNCHANGED rows
  /\ UNCHANGED <<everFailed, left>>

\* What the adapter says of the call's evidence.
Outcome(c) ==
  IF AdapterTier(verifying[c].chain, verifying[c].ev) # "none" THEN "verified" ELSE "failed"

\* The adapter's answer is written by receipt, to whatever row is there (UPDATE of
\* no row is no error); 'failed' leaves the tier, and neither touches the chain.
VerifyRecord(c) ==
  /\ verifying[c].at = "dispatched"
  /\ LET r    == verifying[c].receipt
         tier == AdapterTier(verifying[c].chain, verifying[c].ev)
     IN  /\ rows' = IF rows[r] = NoRow THEN rows
                    ELSE [rows EXCEPT ![r].status = Outcome(c), ![r].by = c,
                            ![r].tier = IF Outcome(c) = "verified" THEN tier ELSE @]
         /\ everFailed' = IF rows[r] # NoRow /\ Outcome(c) = "failed"
                          THEN everFailed \cup {r} ELSE everFailed
  /\ verifying' = [verifying EXCEPT ![c].at = Outcome(c)]
  /\ UNCHANGED left

\* The process stops, or the adapter raises: the pending row stays.
VerifyBreaksOff(c) ==
  /\ verifying[c].at = "dispatched"
  /\ verifying' = [verifying EXCEPT ![c].at = "gone"]
  /\ UNCHANGED <<rows, everFailed, left>>

ChainNext ==
  \E c \in VerifyCalls :
    \/ \E r \in VerifyReceipts, chain \in Chains, ev \in Evidence : VerifySelect(c, r, chain, ev)
    \/ VerifyDelete(c) \/ VerifyInsert(c) \/ VerifyRecord(c) \/ VerifyBreaksOff(c)

-----------------------------------------------------------------------------
ChainTypeOK ==
  /\ \A r \in VerifyReceipts : rows[r] # NoRow =>
       /\ rows[r].chain \in Chains /\ rows[r].status \in {"pending", "verified", "failed"}
       /\ rows[r].by \in VerifyCalls
  /\ \A c \in VerifyCalls : verifying[c].at \in
       {"new", "refused", "replayed", "delete", "insert", "dispatched", "verified", "failed", "gone"}
  /\ everFailed \subseteq VerifyReceipts

\* Two calls ask the adapter about one receipt at the same time only after an
\* attempt failed: without a failure the pending row keeps every other call out,
\* whatever breaks off.
DispatchedOnce ==
  \A c, d \in VerifyCalls :
    /\ c # d
    /\ verifying[c].at = "dispatched" /\ verifying[d].at = "dispatched"
    /\ verifying[c].receipt = verifying[d].receipt
    => verifying[c].receipt \in everFailed

\* A verified row was verified by a call for that receipt whose evidence carries
\* its tier: an attestation of the payee presented by the payer, the node's
\* settlement, or the payee's own preimage; a payer's preimage is never enough.
\* The row's chain is that call's unless an attempt at the receipt failed before.
VerifiedRowsAreBacked ==
  \A r \in VerifyReceipts : rows[r] # NoRow /\ rows[r].status = "verified" =>
    LET row == rows[r]  call == verifying[row.by]  ev == call.ev
    IN  /\ call.at = "verified" /\ call.receipt = r /\ ev.preimage
        /\ row.tier = "payee_attestation" => ev.role = "payer" /\ VerifyPayeeAttestation(ev)
        /\ row.tier = "lnd_query" => ev.lnd = "settled"
        /\ row.tier = "preimage_only" => ev.role = "payee"
        /\ row.tier # "none"
        /\ row.chain = call.chain \/ r \in everFailed

=============================================================================
