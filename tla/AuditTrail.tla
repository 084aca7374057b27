----------------------------- MODULE AuditTrail -----------------------------
(***************************************************************************)
(* The audit trail of Spec 3.4: api/audit_routes with the store, the       *)
(* matcher, the anomaly detectors and the coverage rollup behind it.       *)
(*                                                                         *)
(* The ingest endpoints are coroutines without an await after the body:    *)
(* one at a time has the event loop, but each of its commits is visible    *)
(* to the threads that compute coverage, and an error or a crash leaves    *)
(* what is committed.  A credential is identified by its id; re-submitted  *)
(* ones have the same content.                                             *)
(***************************************************************************)
EXTENDS Integers, FiniteSets, FiniteSetsExt, Clock, MerkleTree

CONSTANTS Unset,         \* a field that a credential leaves out
          Credentials,   \* credential ids
          Cred,          \* Cred[c]: the signed document
          Agents,        \* agent DIDs
          Threads,       \* threads that serve coverage queries
          Windows,       \* rolling windows, in ticks (7, 30 and 90 days)
          Floor,         \* DEFAULT_TOLERANCE_SECONDS, in ticks
          Finality,      \* RAIL_FINALITY_SECONDS, in ticks
          MaxBroken      \* bound: ingests that break off

\* The times in a document are dates, or left out.
ASSUME AuditAssumption ==
  /\ Unset \notin Credentials
  /\ Windows \subseteq Nat /\ Floor \in Nat /\ MaxTime \in Nat /\ MaxBroken \in Nat
  /\ \A rail \in DOMAIN Finality : Finality[rail] \in Nat
  /\ \A c \in Credentials :
       {Cred[c].activityTimestamp, Cred[c].windowStart, Cred[c].validFrom} \subseteq Nat \cup {Unset}

VARIABLES db,          \* the credentials in the four tables
          matched,     \* matched_activity_id of a receipt
          anomalies,   \* audit_anomalies: the rows about a receipt or an acknowledgment
          handler,     \* the ingest that has the event loop
          thread,      \* compute_coverage, by thread
          rollup,      \* audit_coverage_rollup
          abandoned    \* history: receipts and acknowledgments whose ingest broke off

vars == <<now, db, matched, anomalies, handler, thread, rollup, abandoned>>

Idle == [pc |-> "idle", id |-> Unset]
Asleep == [pc |-> "idle", agent |-> Unset, window |-> 0, from |-> 0, expected |-> 0, received |-> 0]

Init ==
  /\ now = 0
  /\ db = {}
  /\ matched = [c \in Credentials |-> Unset]
  /\ anomalies = [c \in Credentials |-> 0]
  /\ handler = Idle
  /\ thread = [t \in Threads |-> Asleep]
  /\ rollup = [a \in Agents |-> [w \in Windows |-> Unset]]
  /\ abandoned = {}

LoopFree == handler = Idle

-----------------------------------------------------------------------------
\* x or y.
Or(x, y) == IF x = Unset THEN y ELSE x

\* extract_activity_fields: the agent is the issuer.
ActivityRow(c) ==
  [agent |-> Cred[c].issuer, counterparty |-> Cred[c].counterparty, ref |-> Cred[c].ref,
   at |-> Or(Cred[c].activityTimestamp, Or(Cred[c].windowStart, Cred[c].validFrom))]

\* extract_receipt_fields: the counterparty is the issuer, the agent the subject.
ReceiptRow(c) ==
  [agent |-> Cred[c].subject, counterparty |-> Cred[c].issuer, ref |-> Cred[c].ref,
   at |-> Or(Cred[c].activityTimestamp, Cred[c].validFrom)]

\* extract_receipt_request_fields.
RequestRow(c) == [agent |-> Cred[c].issuer, counterparty |-> Cred[c].subject]

\* extract_receipt_ack_fields.
AckRow(c) == [agent |-> Cred[c].subject, counterparty |-> Cred[c].issuer, status |-> Cred[c].status]

Is(c, type) == Cred[c].type = type
\* The rows of agent_activity_credentials.
Activities == {c \in db : Is(c, "AgentActivityCredential")}

\* _verify_credential after the type test of an ingest endpoint.
Accepts(c, type) == LoopFree /\ Is(c, type) /\ Cred[c].signature

\* POST /audit/activity: the signer must be the issuer.
ActivityAccepted(c) ==
  Accepts(c, "AgentActivityCredential") /\ Cred[c].signer = Cred[c].issuer

\* POST /audit/receipt-request.
RequestAccepted(c) == Accepts(c, "ReceiptRequestCredential")

\* POST /audit/receipt: whoever submits it.
ReceiptAccepted(c) == Accepts(c, "CounterpartyReceiptCredential")

\* POST /audit/receipt-ack.
AckAccepted(c) == Accepts(c, "ReceiptAcknowledgment")

\* The second submission of an id is answered and changes nothing; a NOT NULL
\* column that the document leaves empty makes an INSERT fail.
IngestActivity(c) ==
  /\ ActivityAccepted(c)
  /\ Unset \notin {ActivityRow(c).agent, ActivityRow(c).at}
  /\ db' = db \cup {c}
  /\ UNCHANGED <<now, matched, anomalies, handler, thread, rollup, abandoned>>

IngestReceiptRequest(c) ==
  /\ RequestAccepted(c)
  /\ Unset \notin {RequestRow(c).agent, RequestRow(c).counterparty}
  /\ db' = db \cup {c}
  /\ UNCHANGED <<now, matched, anomalies, handler, thread, rollup, abandoned>>

\* Mutant: a replay is classified again.
IngestReceiptAgain(c) ==
  /\ ReceiptAccepted(c)
  /\ Unset \notin {ReceiptRow(c).agent, ReceiptRow(c).at}
  /\ db' = db \cup {c}
  /\ handler' = [pc |-> "match", id |-> c]
  /\ UNCHANGED <<now, matched, anomalies, thread, rollup, abandoned>>

\* Up to the commit of ingest_receipt; only a new receipt goes on to be matched.
IngestReceipt(c) ==
  /\ ReceiptAccepted(c)
  /\ Unset \notin {ReceiptRow(c).agent, ReceiptRow(c).at}
  /\ db' = db \cup {c}
  /\ handler' = IF c \in db THEN Idle ELSE [pc |-> "match", id |-> c]
  /\ UNCHANGED <<now, matched, anomalies, thread, rollup, abandoned>>

\* Up to the commit of ingest_receipt_ack.
IngestReceiptAck(c) ==
  /\ AckAccepted(c)
  /\ Unset \notin {AckRow(c).agent, AckRow(c).status}
  /\ db' = db \cup {c}
  /\ handler' = IF c \in db THEN Idle ELSE [pc |-> "flag", id |-> c]
  /\ UNCHANGED <<now, matched, anomalies, thread, rollup, abandoned>>

Distance(i, j) == IF i < j THEN j - i ELSE i - j

\* get_match_tolerance.
MatchTolerance(rail) ==
  IF rail \in DOMAIN Finality THEN Max({Floor, 5 * Finality[rail]}) ELSE Floor

\* Mutant: the time of the activity plays no part.
MatchingAnyTime(c) ==
  LET r == ReceiptRow(c) IN
  {a \in Activities : /\ ActivityRow(a).agent = r.agent
                      /\ ActivityRow(a).counterparty = r.counterparty
                      /\ ActivityRow(a).ref = r.ref}

\* attempt_match and find_matching_activity: the activities ORDER BY may put first.
Matching(c) ==
  LET r == ReceiptRow(c)
      near == {a \in Activities :
                 /\ ActivityRow(a).agent = r.agent
                 /\ ActivityRow(a).counterparty = r.counterparty
                 /\ r.ref # Unset /\ ActivityRow(a).ref = r.ref
                 /\ Distance(ActivityRow(a).at, r.at) <= MatchTolerance(Cred[c].rail)}
  IN {a \in near : \A b \in near : Distance(ActivityRow(a).at, r.at) <= Distance(ActivityRow(b).at, r.at)}

\* match_and_link with the commit of set_receipt_match.
MatchAndLink ==
  LET r == handler.id IN
  /\ handler.pc = "match"
  /\ \/ /\ \E a \in Matching(r) : matched' = [matched EXCEPT ![r] = a]
        /\ handler' = Idle
     \/ /\ Matching(r) = {}
        /\ handler' = [handler EXCEPT !.pc = "flag"]
        /\ UNCHANGED matched
  /\ UNCHANGED <<now, db, anomalies, thread, rollup, abandoned>>

\* detect_unmatched_receipt: receipts without a reference are not reported.
DetectUnmatchedReceipt(c) == Is(c, "CounterpartyReceiptCredential") /\ ReceiptRow(c).ref # Unset

\* detect_receipt_rejected.
DetectReceiptRejected(c) == Is(c, "ReceiptAcknowledgment") /\ AckRow(c).status = "rejected"

\* record_anomaly and its commit.
RecordAnomaly ==
  LET c == handler.id IN
  /\ handler.pc = "flag"
  /\ anomalies' = [anomalies EXCEPT ![c] = IF DetectUnmatchedReceipt(c) \/ DetectReceiptRejected(c)
                                            THEN @ + 1 ELSE @]
  /\ handler' = Idle
  /\ UNCHANGED <<now, db, matched, thread, rollup, abandoned>>

\* An error of the database ends the request; what is committed stays.
IngestFails ==
  /\ handler # Idle
  /\ Cardinality(abandoned) < MaxBroken
  /\ handler' = Idle
  /\ abandoned' = abandoned \cup {handler.id}
  /\ UNCHANGED <<now, db, matched, anomalies, thread, rollup>>

-----------------------------------------------------------------------------
\* Activities of an agent that expect a receipt, in the window that starts at from.
Expecting(agent, from) ==
  {a \in Activities : /\ ActivityRow(a).agent = agent
                      /\ Cred[a].expects
                      /\ ActivityRow(a).at >= from}

\* Mutant: COUNT(*) instead of COUNT(DISTINCT a.id).
ReceivedRows(agent, from) ==
  Cardinality({c \in db : matched[c] # Unset /\ matched[c] \in Expecting(agent, from)})

\* COUNT(DISTINCT a.id) over the join with the receipts.
Received(agent, from) ==
  Cardinality({a \in Expecting(agent, from) : \E c \in db : matched[c] = a})

\* GET .../coverage: compute_coverage counts what is expected; NOW() is the start
\* of its transaction.
CountExpected(t, agent, window) ==
  /\ thread[t].pc = "idle"
  /\ thread' = [thread EXCEPT ![t] =
       [pc |-> "counted", agent |-> agent, window |-> window, from |-> now - window,
        expected |-> Cardinality(Expecting(agent, now - window)), received |-> 0]]
  /\ UNCHANGED <<now, db, matched, anomalies, handler, rollup, abandoned>>

\* Its second query, on a later snapshot (READ COMMITTED).
CountReceived(t) ==
  /\ thread[t].pc = "counted"
  /\ thread' = [thread EXCEPT ![t].pc = "upsert",
                              ![t].received = Received(thread[t].agent, thread[t].from)]
  /\ UNCHANGED <<now, db, matched, anomalies, handler, rollup, abandoned>>

\* The upsert into audit_coverage_rollup and the commit.
StoreCoverage(t) ==
  LET s == thread[t] IN
  /\ s.pc = "upsert"
  /\ rollup' = [rollup EXCEPT ![s.agent][s.window] = [expected |-> s.expected, received |-> s.received]]
  /\ thread' = [thread EXCEPT ![t] = Asleep]
  /\ UNCHANGED <<now, db, matched, anomalies, handler, abandoned>>

Restart ==
  /\ handler # Idle \/ thread # [t \in Threads |-> Asleep]
  /\ handler # Idle => Cardinality(abandoned) < MaxBroken
  /\ handler' = Idle
  /\ thread' = [t \in Threads |-> Asleep]
  /\ abandoned' = abandoned \cup ({handler.id} \ {Unset})
  /\ UNCHANGED <<now, db, matched, anomalies, rollup>>

Tick ==
  /\ Later
  /\ UNCHANGED <<db, matched, anomalies, handler, thread, rollup, abandoned>>

Next ==
  \/ \E c \in Credentials :
       IngestActivity(c) \/ IngestReceiptRequest(c) \/ IngestReceipt(c) \/ IngestReceiptAck(c)
  \/ MatchAndLink \/ RecordAnomaly \/ IngestFails
  \/ \E t \in Threads :
       \/ \E a \in Agents, w \in Windows : CountExpected(t, a, w)
       \/ CountReceived(t) \/ StoreCoverage(t)
  \/ Restart \/ Tick

Spec == Init /\ [][Next]_vars

-----------------------------------------------------------------------------
TypeOK ==
  /\ now \in 0 .. MaxTime
  /\ db \subseteq {c \in Credentials : Cred[c].signature}
  /\ matched \in [Credentials -> Credentials \cup {Unset}]
  /\ anomalies \in [Credentials -> 0 .. 1]
  /\ handler \in [pc: {"idle", "match", "flag"}, id: Credentials \cup {Unset}]
  /\ \A t \in Threads : thread[t].pc \in {"idle", "counted", "upsert"}
  /\ \A a \in Agents, w \in Windows :
       rollup[a][w] = Unset \/ rollup[a][w] \in [expected: Nat, received: Nat]
  /\ abandoned \subseteq db

\* "Match on (agent_did, counterparty_did, transaction_reference) within timestamp
\* tolerance": a linked receipt and its activity agree on the parties and the
\* reference, and their times differ by the tolerance of the rail at most.
LinksAgree ==
  \A c \in Credentials : matched[c] # Unset =>
    LET r == ReceiptRow(c)
        a == ActivityRow(matched[c])
    IN /\ {c, matched[c]} \subseteq db
       /\ <<a.agent, a.counterparty, a.ref>> = <<r.agent, r.counterparty, r.ref>>
       /\ a.at - r.at <= MatchTolerance(Cred[c].rail)
       /\ r.at - a.at <= MatchTolerance(Cred[c].rail)

\* "When a match is found ... anomaly detection is skipped": a stored receipt with a
\* reference is either linked or reported, and a stored rejection reported, once and
\* not twice however often it is submitted; only an ingest that is running or was
\* broken off may have left it at neither.
ClassifiedOnce ==
  LET classified(c) == anomalies[c] + (IF matched[c] = Unset THEN 0 ELSE 1)
      expected(c) == \/ Is(c, "CounterpartyReceiptCredential") /\ ReceiptRow(c).ref # Unset
                     \/ Is(c, "ReceiptAcknowledgment") /\ AckRow(c).status = "rejected"
  IN  \A c \in Credentials :
        /\ classified(c) <= 1
        /\ c \in db \ (abandoned \cup {handler.id}) /\ expected(c) => classified(c) = 1

\* The server keeps the root of a batch and the agent its entries: the root leaves no
\* choice of entries to the agent afterwards, and the proofs of generate_proof convince
\* verify_proof of the entry they are made for and of no other.
RootsStandForTheirEntries ==
  (\E c \in Activities : Cred[c].merkle) => RootIsBinding /\ ProofsAreExact

\* The rollup never reports more receipts than the agent has activities that expect
\* one, although several receipts may name one activity.
RollupCountsActivities ==
  \A a \in Agents, w \in Windows : rollup[a][w] # Unset =>
    rollup[a][w].received <= Cardinality(Expecting(a, -MaxTime))

=============================================================================
