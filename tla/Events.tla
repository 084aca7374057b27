------------------------------- MODULE Events -------------------------------
(***************************************************************************)
(* The writers of verified_events: submit_transaction of the API server,   *)
(* audit_verified_event of api/verify_endpoints.py and the verify routes   *)
(* of the x402 and Solana rails.  The first two look for the transaction   *)
(* or the receipt and then insert, with no unique key behind them; the     *)
(* rails do not look.  The audit route writes the event and commits before *)
(* it writes the activity credential, whose failure it only logs.  A call  *)
(* that never takes its next step was cut off there.                       *)
(*                                                                         *)
(* Policy consultation is PolicyGate's.  submit_transaction verifies the   *)
(* signature and accepts the transaction either way, so signatures are not *)
(* modelled.                                                               *)
(***************************************************************************)
EXTENDS ApiRequests, PaymentRails

CONSTANTS EventCalls,   \* calls; each is also the event_id that it generates
          Receipts,     \* receipt_references
          Wallets,      \* Solana addresses
          Amounts,      \* amounts that are claimed
          NoHash        \* an empty transaction_reference

NoEvent == [none |-> "event"]

VARIABLES events,       \* verified_events: event_id -> row
          calls,        \* the calls of the four writers
          credentials   \* event_ids of the activity and payment credentials

evars == <<events, calls, credentials>>

EventInit ==
  /\ events = [c \in EventCalls |-> NoEvent]
  /\ calls = [c \in EventCalls |-> [at |-> "new"]]
  /\ credentials = {}

Recorded == {c \in EventCalls : events[c] # NoEvent}

-----------------------------------------------------------------------------
\* Mutant: no look for the hash.
SubmitCheckNot(c, a, h) ==
  /\ Ask("event")
  /\ calls[c].at = "new"
  /\ calls' = [calls EXCEPT ![c] =
       [at |-> "submit", agent |-> a, hash |-> h, seen |-> Recorded]]
  /\ UNCHANGED <<events, credentials>>

\* submit_transaction up to the test for a duplicate, which an empty reference
\* skips; `seen` remembers which events were committed by then.
SubmitCheck(c, a, h) ==
  /\ Ask("event")
  /\ calls[c].at = "new"
  /\ h # NoHash => \A e \in Recorded : events[e].hash # h
  /\ calls' = [calls EXCEPT ![c] =
       [at |-> "submit", agent |-> a, hash |-> h, seen |-> Recorded]]
  /\ UNCHANGED <<events, credentials>>

SubmitInsert(c) ==
  /\ calls[c].at = "submit"
  /\ events' = [events EXCEPT ![c] =
       [kind |-> "submit", agent |-> calls[c].agent, hash |-> calls[c].hash]]
  /\ calls' = [calls EXCEPT ![c].at = "done"]
  /\ UNCHANGED <<credentials, left>>

\* audit_verified_event up to the test for a replay: the call names receipt r and
\* the settlement h; its metadata is applied last and may store another, s.
AuditCheck(c, a, r, s, h) ==
  /\ Ask("event")
  /\ calls[c].at = "new"
  /\ \A e \in Recorded : events[e].kind = "audit" => events[e].receipt # r
  /\ calls' = [calls EXCEPT ![c] =
       [at |-> "audit", agent |-> a, receipt |-> r, stored |-> s, hash |-> h, seen |-> Recorded]]
  /\ UNCHANGED <<events, credentials>>

\* Write 1: the event, and its commit.
AuditInsert(c) ==
  /\ calls[c].at = "audit"
  /\ events' = [events EXCEPT ![c] =
       [kind |-> "audit", agent |-> calls[c].agent, hash |-> calls[c].hash,
        receipt |-> calls[c].stored]]
  /\ calls' = [calls EXCEPT ![c].at = "stored"]
  /\ UNCHANGED <<credentials, left>>

\* Write 2: the activity credential; a failure is logged and the answer is the same.
AuditActivity(c) ==
  /\ calls[c].at = "stored"
  /\ \E written \in BOOLEAN :
       credentials' = IF written THEN credentials \cup {c} ELSE credentials
  /\ calls' = [calls EXCEPT ![c].at = "done"]
  /\ UNCHANGED <<events, left>>

-----------------------------------------------------------------------------
\* What the facilitator's endpoints and the two Solana nodes may answer.
FacilitatorAnswers == {<<"200">>, <<"timeout", "200">>, <<"402", "402">>}
NodeAnswers == {<<"result">>, <<"missing", "result">>, <<"timeout", "timeout", "result">>,
                <<"rpc error", "result">>, <<"missing", "missing">>}

\* Mutant: one of the two checks need not pass.
VerifyAndAttestAny(tx, amount, answers) ==
  [issued   |-> TRUE,
   mismatch |-> VerifyViaFacilitator(answers) # VerifyOnchain(tx, amount)]

\* verify_and_attest: a credential when one of the checks passes, marked when they differ.
VerifyAndAttest(tx, amount, answers) ==
  LET facilitator == VerifyViaFacilitator(answers)
      onchain     == VerifyOnchain(tx, amount)
  IN  [issued |-> facilitator \/ onchain, mismatch |-> facilitator # onchain]

\* issue_x402_credential and the route: the credential row and the event, one commit.
VerifyX402Payment(c, a, tx, amount, answers) ==
  /\ Ask("event")
  /\ calls[c].at = "new"
  /\ LET result == VerifyAndAttest(tx, amount, answers)
     IN  /\ result.issued
         /\ events' = [events EXCEPT ![c] = [kind |-> "x402", agent |-> a, hash |-> tx,
              amount |-> amount, mismatch |-> result.mismatch]]
  /\ credentials' = credentials \cup {c}
  /\ calls' = [calls EXCEPT ![c].at = "done"]

VerifySolanaPayment(c, a, tx, asset, from, to, amount, answers) ==
  /\ Ask("event")
  /\ calls[c].at = "new"
  /\ VerifySolanaTransaction(tx, asset, from, to, amount, answers)
  /\ events' = [events EXCEPT ![c] = [kind |-> "solana", agent |-> a, hash |-> tx,
       amount |-> amount, asset |-> asset, from |-> from, to |-> to]]
  /\ credentials' = credentials \cup {c}
  /\ calls' = [calls EXCEPT ![c].at = "done"]

EventNext ==
  \/ \E c \in EventCalls, a \in Agents :
       \/ \E h \in DOMAIN Chain \cup {NoHash} :
            SubmitCheck(c, a, h) \/ \E r, s \in Receipts : AuditCheck(c, a, r, s, h)
       \/ \E tx \in DOMAIN Chain, amount \in Amounts :
            \/ \E answers \in FacilitatorAnswers : VerifyX402Payment(c, a, tx, amount, answers)
            \/ \E asset \in {"SOL", "USDC"}, from, to \in Wallets, answers \in NodeAnswers :
                 VerifySolanaPayment(c, a, tx, asset, from, to, amount, answers)
  \/ \E c \in EventCalls : SubmitInsert(c) \/ AuditInsert(c) \/ AuditActivity(c)

-----------------------------------------------------------------------------
EventTypeOK ==
  /\ \A c \in EventCalls : calls[c].at \in {"new", "submit", "audit", "stored", "done"}
  /\ \A e \in Recorded : events[e].agent \in Agents
                         /\ events[e].hash \in DOMAIN Chain \cup {NoHash}
  /\ credentials \subseteq EventCalls

\* A transaction_hash is submitted twice, a receipt recorded twice, only by calls
\* that overlapped: whatever was committed before a call's test, by any writer,
\* keeps that call from recording the same hash (submit_transaction) or the same
\* receipt (audit_verified_event) again.
RepeatsOnlyByRaces ==
  \A c \in Recorded, e \in Recorded :
    c # e => CASE events[c].kind = "submit" ->
                    events[c].hash # NoHash /\ events[e].hash = events[c].hash
                      => e \notin calls[c].seen
               [] events[c].kind = "audit" ->
                    events[e].kind = "audit" /\ events[e].receipt = calls[c].receipt
                      => e \notin calls[c].seen
               [] OTHER -> TRUE

\* A credential, of an activity or of a payment, always has its event, although the
\* audit route writes the two in separate transactions, and a payment that is
\* recorded without a discrepancy happened: the x402 transaction moves that amount of
\* USDC, the Solana transaction moved the amount (within the tolerance for SOL) from
\* the sender to the recipient, however many nodes failed before one answered.
CredentialsAreBacked ==
  /\ credentials \subseteq Recorded
  /\ \A e \in Recorded :
       LET ev == events[e]  tx == Chain[ev.hash]
       IN  /\ ev.kind \in {"x402", "solana"} => e \in credentials
           /\ ev.kind = "x402" /\ ~ev.mismatch =>
                tx.settled /\ \E i \in DOMAIN tx.transfers : tx.transfers[i] = ev.amount
           /\ ev.kind = "solana" =>
                /\ tx.finalized
                /\ IF ev.asset = "SOL"
                   THEN \E i \in DOMAIN tx.native :
                          /\ tx.native[i].from = ev.from /\ tx.native[i].to = ev.to
                          /\ tx.native[i].amount - ev.amount \in -Tolerance .. Tolerance
                   ELSE tx.post[ev.to] - tx.pre[ev.to] = ev.amount /\ tx.post[ev.from] < tx.pre[ev.from]

=============================================================================
