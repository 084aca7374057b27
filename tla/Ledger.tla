------------------------------- MODULE Ledger -------------------------------
(***************************************************************************)
(* TRON receipts and what follows from them: submit_tron_receipt stores a  *)
(* verified receipt, the trigger of migration 009 bridges it into          *)
(* agent_transactions, the trigger of migration 014 turns the transaction  *)
(* into an observed counterparty of the agent's organisation, which its    *)
(* operators accept or revoke (api/counterparty_routes and _store), and    *)
(* the receipts make the agent's trust score.                              *)
(*                                                                         *)
(* The endpoints that write are coroutines: from one await to the next     *)
(* they have the event loop for themselves.  The chain listener is another *)
(* process, which inserts the transfers it sees into agent_transactions.   *)
(***************************************************************************)
EXTENDS Integers, FiniteSets, FiniteSetsExt, Clock, TronRail, TrustScore

CONSTANTS Vcs,          \* vc_id values
          Vc,           \* Vc[v]: what receipt v claims
          Txs,          \* transaction hashes
          Transfer,     \* Transfer[t]: what the chain and the listener know of t
          Agents,       \* observer_agents
          OrgOf,        \* the organisation of an agent, or Unset
          Orgs,
          Addresses,    \* addresses of paying counterparties
          Requests,     \* calls of submit_tron_receipt
          Executors     \* max_workers of _tron_executor

\* A receipt and a transfer name a transaction, and an address or none; a receipt may
\* name any agent, the listener knows its own.  A receipt that validates has an amount
\* in digits and a date.
ASSUME LedgerAssumption ==
  /\ Executors \in Nat \ {0} /\ MaxTime \in Nat /\ MinConf \in Nat
  /\ Unset \notin Agents \cup Orgs \cup Addresses \cup Vcs \cup Txs
  /\ OrgOf \in [Agents -> Orgs \cup {Unset}]
  /\ \A v \in Vcs : Vc[v].tx \in Txs /\ Vc[v].sender \in Addresses \cup {Unset}
  /\ \A v \in Vcs : Vc[v].wellFormed => Vc[v].amount \in Nat /\ Vc[v].at \in Int
  /\ \A t \in Txs : Transfer[t].agent \in Agents /\ Transfer[t].sender \in Addresses \cup {Unset}

VARIABLES depth,        \* confirmations of a transaction, -1 off the chain
          receipts,     \* tron_receipts: the vc_ids stored, each with verified = TRUE
          row,          \* agent_transactions, by tx_hash
          cp,           \* counterparties, by organisation and address
          req,          \* the submissions
          listener,     \* the row that the listener is inserting
          accept        \* accept_counterparty between its SELECT and its write

chainVars == <<depth, now>>
bookVars == <<receipts, row, cp>>
vars == <<depth, now, receipts, row, cp, req, listener, accept>>

NoRow == [agent |-> Unset, counterparty |-> Unset, vc |-> Unset]
NoCp == [status |-> "none", count |-> 0]
Idle == [pc |-> "idle", vc |-> Unset]
Quiet == [tx |-> Unset, vc |-> Unset]
NoAccept == [org |-> Unset, address |-> Unset, found |-> FALSE]

Init ==
  /\ depth = [t \in Txs |-> -1]
  /\ now = 0
  /\ receipts = {}
  /\ row = [t \in Txs |-> NoRow]
  /\ cp = [o \in Orgs |-> [a \in Addresses |-> NoCp]]
  /\ req = [r \in Requests |-> Idle]
  /\ listener = Quiet
  /\ accept = NoAccept

Present(t) == row[t].agent # Unset
LoopFree == accept = NoAccept
Org(agent) == IF agent \in Agents THEN OrgOf[agent] ELSE Unset

-----------------------------------------------------------------------------
Tick ==
  /\ Later
  /\ UNCHANGED <<depth, bookVars, req, listener, accept>>

\* A block that holds or confirms t.
Confirm(t) ==
  /\ depth[t] < MinConf
  /\ depth' = [depth EXCEPT ![t] = @ + 1]
  /\ UNCHANGED <<now, bookVars, req, listener, accept>>

\* trg_counterparty_observe: agents without an organisation and transactions
\* without an address are left out; a known counterparty is only counted.
Observed(o, a) ==
  IF o = Unset \/ a = Unset THEN cp
  ELSE [cp EXCEPT ![o][a].status = IF @ = "none" THEN "observed" ELSE @,
                  ![o][a].count = @ + 1]

\* An INSERT into agent_transactions, with the counterparty trigger behind it.
InsertRow(t, r) ==
  /\ row' = [row EXCEPT ![t] = r]
  /\ cp' = Observed(Org(r.agent), r.counterparty)

\* Mutant: the upsert of the bridge runs the counterparty trigger in both cases.
BridgeCountsTwice(v) ==
  LET c == Vc[v] IN
  IF c.agent = Unset THEN UNCHANGED <<row, cp>>
  ELSE IF Present(c.tx)
  THEN /\ row' = [row EXCEPT ![c.tx].vc = v]
       /\ cp' = Observed(Org(row[c.tx].agent), row[c.tx].counterparty)
  ELSE InsertRow(c.tx, [agent |-> c.agent, counterparty |-> c.sender, vc |-> v])

\* Mutant: ON CONFLICT (tx_hash) DO NOTHING.
BridgeNoEnrichment(v) ==
  LET c == Vc[v] IN
  IF c.agent = Unset \/ Present(c.tx) THEN UNCHANGED <<row, cp>>
  ELSE InsertRow(c.tx, [agent |-> c.agent, counterparty |-> c.sender, vc |-> v])

\* fn_tron_receipt_to_agent_transaction: a receipt of no known agent is not
\* bridged; a transaction that is already there gets the receipt's metadata and
\* keeps its agent.
Bridge(v) ==
  LET c == Vc[v] IN
  IF c.agent = Unset THEN UNCHANGED <<row, cp>>
  ELSE IF Present(c.tx)
  THEN row' = [row EXCEPT ![c.tx].vc = v] /\ UNCHANGED cp
  ELSE InsertRow(c.tx, [agent |-> c.agent, counterparty |-> c.sender, vc |-> v])

\* submit_tron_receipt up to its await: a receipt that is stored is answered at
\* once, any other goes to the thread pool.
SubmitReceipt(r, v) ==
  /\ LoopFree
  /\ req[r].pc = "idle"
  /\ req' = [req EXCEPT ![r] = [pc |-> IF v \in receipts THEN "done" ELSE "queued", vc |-> v]]
  /\ UNCHANGED <<chainVars, bookVars, listener, accept>>

\* _tron_executor starts _call_tron_rail_verify when one of its threads is free.
RailStart(r) ==
  /\ req[r].pc = "queued"
  /\ Cardinality({q \in Requests : req[q].pc = "verifying"}) < Executors
  /\ req' = [req EXCEPT ![r].pc = "verifying"]
  /\ UNCHANGED <<chainVars, bookVars, listener, accept>>

\* The subprocess answers.  TronGrid may fail at any of the rail's requests, which
\* makes the receipt unverified.
RailAnswers(r, gridFails) ==
  LET c == Vc[req[r].vc]
      ok == ~gridFails /\ VerifyReceipt(c, Transfer[c.tx], depth[c.tx], now)
  IN /\ req[r].pc = "verifying"
     /\ req' = [req EXCEPT ![r].pc = IF ok THEN "verified" ELSE "failed"]
     /\ UNCHANGED <<chainVars, bookVars, listener, accept>>

\* Mutant: subprocess.run without its timeout.
RailTimeoutNever(r) == FALSE /\ UNCHANGED vars

\* subprocess.run(..., timeout=30).
RailTimeout(r) ==
  /\ req[r].pc = "verifying"
  /\ req' = [req EXCEPT ![r].pc = "failed"]
  /\ UNCHANGED <<chainVars, bookVars, listener, accept>>

\* The rest of submit_tron_receipt: the policy engine's refusal, a database error
\* (an unknown agent among them), or the INSERT with its triggers and the commit.
\* A receipt stored by a concurrent request is left as it is and answered.
PersistReceipt(r, goesThrough) ==
  LET v == req[r].vc
      stores == goesThrough /\ Vc[v].agent \in Agents \cup {Unset}
  IN /\ LoopFree
     /\ req[r].pc = "verified"
     /\ req' = [req EXCEPT ![r].pc = IF stores THEN "done" ELSE "failed"]
     /\ IF stores /\ v \notin receipts
        THEN receipts' = receipts \cup {v} /\ Bridge(v)
        ELSE UNCHANGED bookVars
     /\ UNCHANGED <<chainVars, listener, accept>>

\* auto-restart.sh: requests in progress are gone, open transactions roll back.
Restart ==
  /\ req' = [r \in Requests |-> IF req[r].pc \in {"done", "failed", "idle"} THEN req[r]
                                ELSE [req[r] EXCEPT !.pc = "failed"]]
  /\ accept' = NoAccept
  /\ req' # req \/ accept' # accept
  /\ UNCHANGED <<chainVars, bookVars, listener>>

-----------------------------------------------------------------------------
\* The listener starts to insert a transfer; fn_enrich_agent_transaction_with_vc
\* runs before the insert and looks for a receipt (any, it has LIMIT 1).
ListenerEnriches(t) ==
  LET found == {v \in receipts : Vc[v].tx = t} IN
  /\ listener = Quiet
  /\ depth[t] >= 0
  /\ ~Present(t)
  /\ \E v \in found \cup (IF found = {} THEN {Unset} ELSE {}) :
       listener' = [tx |-> t, vc |-> v]
  /\ UNCHANGED <<chainVars, bookVars, req, accept>>

\* The insert itself; a row that came in between keeps its place (tx_hash is unique).
ListenerInserts ==
  LET t == listener.tx IN
  /\ listener # Quiet
  /\ listener' = Quiet
  /\ IF Present(t) THEN UNCHANGED <<row, cp>>
     ELSE InsertRow(t, [agent |-> Transfer[t].agent, counterparty |-> Transfer[t].sender,
                        vc |-> listener.vc])
  /\ UNCHANGED <<chainVars, receipts, req, accept>>

-----------------------------------------------------------------------------
\* accept_counterparty up to its SELECT.
AcceptSelect(o, a) ==
  /\ LoopFree
  /\ accept' = [org |-> o, address |-> a, found |-> cp[o][a].status # "none"]
  /\ UNCHANGED <<chainVars, bookVars, req, listener>>

\* Its UPDATE, or its INSERT, which the
\* unique key refuses when the listener has been faster; and the commit.
AcceptWrite ==
  LET o == accept.org
      a == accept.address
  IN /\ accept # NoAccept
     /\ accept' = NoAccept
     /\ cp' = IF accept.found
              THEN [cp EXCEPT ![o][a].status = "accepted"]
              ELSE IF cp[o][a].status # "none" THEN cp
              ELSE [cp EXCEPT ![o][a] = [NoCp EXCEPT !.status = "accepted"]]
     /\ UNCHANGED <<chainVars, receipts, row, req, listener>>

\* revoke_counterparty: one UPDATE, whatever the status was.
RevokeCounterparty(o, a) ==
  /\ LoopFree
  /\ cp[o][a].status # "none"
  /\ cp' = [cp EXCEPT ![o][a].status = "revoked"]
  /\ UNCHANGED <<chainVars, receipts, row, req, listener, accept>>

-----------------------------------------------------------------------------
Serve(r) == RailStart(r) \/ RailTimeout(r) \/ \E ok \in BOOLEAN : PersistReceipt(r, ok)

Next ==
  \/ Tick
  \/ \E t \in Txs : Confirm(t) \/ ListenerEnriches(t)
  \/ ListenerInserts
  \/ \E r \in Requests :
       \/ \E v \in Vcs : SubmitReceipt(r, v)
       \/ \E fails \in BOOLEAN : RailAnswers(r, fails)
       \/ Serve(r)
  \/ Restart
  \/ \E o \in Orgs, a \in Addresses :
       AcceptSelect(o, a) \/ RevokeCounterparty(o, a)
  \/ AcceptWrite

\* The server runs what it has begun and a subprocess ends by its timeout;
\* nothing is assumed of the chain, the listener, TronGrid or the operators.
Spec ==
  /\ Init /\ [][Next]_vars
  /\ \A r \in Requests : SF_vars(Serve(r))
  /\ WF_vars(AcceptWrite)

-----------------------------------------------------------------------------
\* Mutant: MIN(tx_timestamp).
LastTxEarliest(rs) == Min({Vc[v].at : v \in rs})

\* MAX(tx_timestamp).
LastTx(rs) == Max({Vc[v].at : v \in rs})

Volume(rs, assets) == MapThenSumSet(LAMBDA v : Vc[v].amount, {v \in rs : Vc[v].asset \in assets})

\* v_tron_trust_metrics: the agent's verified receipts that have not expired.
Metrics(agent) ==
  LET rs == {v \in receipts : Vc[v].agent = agent /\ Vc[v].expires > now} IN
  [receipts |-> Cardinality(rs),
   counterparties |-> Cardinality({Vc[v].issuer : v \in rs}),
   affiliated |-> Cardinality({v \in rs : Vc[v].affiliated}),
   idle |-> IF rs = {} THEN 0 ELSE now - LastTx(rs),
   trx |-> Volume(rs, {"TRX"}),
   stable |-> Volume(rs, {"USDT", "USDC", "TUSD", "USDD"})]

\* get_tron_trust_score.
TrustScoreOf(agent) == Score(Metrics(agent))

-----------------------------------------------------------------------------
TypeOK ==
  /\ depth \in [Txs -> -1 .. MinConf]
  /\ now \in 0 .. MaxTime
  /\ receipts \subseteq Vcs
  /\ row \in [Txs -> [agent: Agents \cup {Unset}, counterparty: Addresses \cup {Unset},
                      vc: Vcs \cup {Unset}]]
  /\ cp \in [Orgs -> [Addresses -> [status: {"none", "observed", "accepted", "revoked"},
                                    count: Nat]]]
  /\ req \in [Requests -> [pc: {"idle", "queued", "verifying", "verified", "done", "failed"},
                           vc: Vcs \cup {Unset}]]
  /\ listener \in [tx: Txs \cup {Unset}, vc: Vcs \cup {Unset}]
  /\ accept \in [org: Orgs \cup {Unset}, address: Addresses \cup {Unset}, found: BOOLEAN]

\* What an organisation sees counted against a counterparty is the number of its
\* agents' transactions with it, each once, whether the listener or a receipt
\* brought them and whenever the counterparty was accepted.
CountsMatchTransactions ==
  \A o \in Orgs, a \in Addresses :
    cp[o][a].count = Cardinality({t \in Txs : /\ Present(t)
                                              /\ Org(row[t].agent) = o
                                              /\ row[t].counterparty = a})

\* "Bridges verified tron_receipts into agent_transactions": a stored receipt of an
\* agent has a transaction that shows a receipt, in whichever order the receipt and
\* the listener came, and no transaction shows a receipt that is not stored.
ReceiptsAreBridged ==
  /\ \A v \in receipts : Vc[v].agent # Unset => row[Vc[v].tx].vc # Unset
  /\ \A t \in Txs : row[t].vc # Unset => row[t].vc \in receipts /\ Vc[row[t].vc].tx = t

\* At one moment, one more receipt never lowers an agent's score, although five
\* aggregates of different kinds go into it.
ReceiptsRaiseScore ==
  [][now' = now => \A a \in Agents : TrustScoreOf(a)' >= TrustScoreOf(a)]_vars

\* Every submission is answered, however many wait for the pool's threads and
\* whatever TronGrid does.
SubmissionsEnd ==
  \A r \in Requests : req[r].pc = "queued" ~> req[r].pc \in {"done", "failed"}

=============================================================================
