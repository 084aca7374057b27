---------------------------- MODULE AuditProofs -----------------------------
(***************************************************************************)
(* Proofs about what is permitted and what is on record: the audit trail,  *)
(* for every set of credentials, agents, threads and windows, with its     *)
(* Merkle trees over batches of any length, and the policy consultation,   *)
(* for every number of requests of either kind, every rate limit and any   *)
(* length of time.  The trail and the consultation share nothing but time. *)
(***************************************************************************)
EXTENDS AuditTrail, PolicyGate, FiniteSetTheorems, TLAPS

(***************************************************************************)
(* AuditTrail                                                              *)
(***************************************************************************)
\* What a rejected or unmatched credential calls for.
Expected(c) == DetectUnmatchedReceipt(c) \/ DetectReceiptRejected(c)

\* How often a credential was linked or reported.
Classified(c) == anomalies[c] + (IF matched[c] = Unset THEN 0 ELSE 1)

\* A stored activity or receipt has a time.
Dated(c) ==
  /\ Is(c, "AgentActivityCredential") => ActivityRow(c).at \in Nat
  /\ Is(c, "CounterpartyReceiptCredential") => ReceiptRow(c).at \in Nat

\* The running ingest has stored its credential and neither linked nor reported it.
HandlerOK(h) ==
  h # Idle =>
    /\ h.pc \in {"match", "flag"} /\ h.id \in db
    /\ Classified(h.id) = 0
    /\ h.pc = "match" => Is(h.id, "CounterpartyReceiptCredential")

\* Nothing is known of a credential that was not stored.
UnstoredIsUnknown == \A c \in Credentials \ db : Classified(c) = 0

\* The invariant of the trail.
TrailOK ==
  /\ db \subseteq {c \in Credentials : Cred[c].signature} /\ abandoned \subseteq db
  /\ matched \in [Credentials -> Credentials \cup {Unset}]
  /\ anomalies \in [Credentials -> 0 .. 1]
  /\ handler \in [pc: {"idle", "match", "flag"}, id: Credentials \cup {Unset}]
  /\ HandlerOK(handler)
  /\ \A c \in db : Dated(c)
  /\ UnstoredIsUnknown
  /\ LinksAgree /\ ClassifiedOnce

\* The activities of an agent that expect a receipt, whatever their time.
Ever(rows, a) ==
  {x \in rows : /\ Is(x, "AgentActivityCredential") /\ ActivityRow(x).agent = a /\ Cred[x].expects
                /\ ActivityRow(x).at >= -MaxTime}

\* The shapes of a rollup and of a query in progress.
Count == [expected: Nat, received: Nat]

Query == [pc: {"idle", "counted", "upsert"}, agent: Agents \cup {Unset}, window: Nat,
          from: Int, expected: Nat, received: Nat]

\* What a thread has counted is no more than the activities there are.
ThreadOK(s) ==
  /\ s.pc # "idle" => s.agent \in Agents /\ s.window \in Windows
  /\ s.pc = "upsert" => s.received <= Cardinality(Ever(db, s.agent))

\* The invariant of the threads that compute coverage.
CoverageOK ==
  /\ now \in 0 .. MaxTime
  /\ IsFiniteSet(db)
  /\ thread \in [Threads -> Query]
  /\ \A t \in Threads : ThreadOK(thread[t])
  /\ rollup \in [Agents -> [Windows -> Count \cup {Unset}]]
  /\ RollupCountsActivities

\* The inductive invariant of both.
AuditInv == TrailOK /\ CoverageOK

\* Of an empty trail nothing is known: the invariant holds.
LEMMA AuditInit == Init => AuditInv
<1> SUFFICES ASSUME Init PROVE AuditInv
  OBVIOUS
<1> USE AuditAssumption
<1>1. TrailOK
  BY DEF Init, TrailOK, HandlerOK, UnstoredIsUnknown, Classified, LinksAgree, ClassifiedOnce, Idle
<1>2. IsFiniteSet(db)
  BY FS_EmptySet DEF Init
<1>3. CoverageOK
  BY <1>2 DEF Init, CoverageOK, ThreadOK, Query, Asleep, RollupCountsActivities
<1> QED
  BY <1>1, <1>3 DEF AuditInv

\* An ingest that leaves the loop free again has stored nothing that calls for a
\* report, or stored it before; one that goes on has stored something new.
LEMMA IngestMoves ==
  ASSUME AuditInv, NEW c \in Credentials, Cred[c].signature, LoopFree, Dated(c),
         db' = db \cup {c},
         \/ handler' = Idle /\ (c \in db \/ ~Expected(c))
         \/ /\ c \notin db /\ handler' \in [pc : {"match", "flag"}, id : {c}]
            /\ handler'.pc = "match" => Is(c, "CounterpartyReceiptCredential"),
         UNCHANGED <<matched, anomalies, abandoned>>
  PROVE  TrailOK'
<1> USE AuditAssumption
<1>1. handler.id = Unset /\ handler = Idle
  BY DEF LoopFree, Idle
<1>2. \A x \in Credentials : Classified(x)' = Classified(x)
  BY DEF Classified
<1>3. HandlerOK(handler)'
  BY <1>2 DEF AuditInv, TrailOK, UnstoredIsUnknown, HandlerOK, Classified
<1>4. LinksAgree'
  BY DEF AuditInv, TrailOK, LinksAgree, ReceiptRow, ActivityRow
<1>5. ClassifiedOnce'
  <2> SUFFICES ASSUME NEW x \in Credentials
               PROVE  /\ Classified(x) <= 1
                      /\ x \in db' \ (abandoned \cup {handler'.id}) /\ Expected(x)
                           => Classified(x) = 1
    BY <1>2 DEF ClassifiedOnce, Classified, Expected, DetectUnmatchedReceipt, DetectReceiptRejected
  <2>1. /\ Classified(x) <= 1
        /\ x \in db \ abandoned /\ Expected(x) => Classified(x) = 1
    BY <1>1 DEF AuditInv, TrailOK, ClassifiedOnce, Classified, Expected, DetectUnmatchedReceipt,
                DetectReceiptRejected
  <2> QED
    BY <1>1, <2>1
<1>6. UnstoredIsUnknown'
  BY <1>2 DEF AuditInv, TrailOK, UnstoredIsUnknown
<1>7. \A x \in db' : Dated(x)'
  BY DEF AuditInv, TrailOK, Dated, Is, ActivityRow, ReceiptRow
<1>8. handler' \in [pc: {"idle", "match", "flag"}, id: Credentials \cup {Unset}]
  BY DEF Idle
<1> QED
  BY <1>3, <1>4, <1>5, <1>6, <1>7, <1>8 DEF AuditInv, TrailOK

\* The tolerance of a rail, known or not, is a number.
LEMMA ToleranceIsANumber == \A rail : MatchTolerance(rail) \in Nat
<1> USE AuditAssumption
<1>1. ASSUME NEW rail, rail \in DOMAIN Finality PROVE Max({Floor, 5 * Finality[rail]}) \in Nat
  <2>1. Finality[rail] \in Nat
    BY <1>1
  <2>2. \E x \in {Floor, 5 * Finality[rail]} : \A y \in {Floor, 5 * Finality[rail]} : x >= y
    BY <2>1
  <2>3. Max({Floor, 5 * Finality[rail]}) \in {Floor, 5 * Finality[rail]}
    BY <2>2 DEF Max
  <2> QED
    BY <2>1, <2>3
<1> QED
  BY <1>1 DEF MatchTolerance

\* The activity of a link has the receipt's parties and reference and is near it.
LEMMA MatchingAgrees ==
  ASSUME AuditInv, NEW c \in db, Is(c, "CounterpartyReceiptCredential"), NEW a \in Matching(c)
  PROVE  LET r == ReceiptRow(c)
             x == ActivityRow(a)
         IN  /\ a \in db
             /\ <<x.agent, x.counterparty, x.ref>> = <<r.agent, r.counterparty, r.ref>>
             /\ x.at - r.at <= MatchTolerance(Cred[c].rail)
             /\ r.at - x.at <= MatchTolerance(Cred[c].rail)
<1>1. /\ a \in db /\ Is(a, "AgentActivityCredential")
      /\ ActivityRow(a).agent = ReceiptRow(c).agent
      /\ ActivityRow(a).counterparty = ReceiptRow(c).counterparty
      /\ ActivityRow(a).ref = ReceiptRow(c).ref
      /\ Distance(ActivityRow(a).at, ReceiptRow(c).at) <= MatchTolerance(Cred[c].rail)
  BY DEF Matching, Activities
<1>2. ActivityRow(a).at \in Nat /\ ReceiptRow(c).at \in Nat
  BY <1>1 DEF AuditInv, TrailOK, Dated
<1>3. \A i, j, n \in Nat : Distance(i, j) <= n => i - j <= n /\ j - i <= n
  BY DEF Distance
<1>4. /\ ActivityRow(a).at - ReceiptRow(c).at <= MatchTolerance(Cred[c].rail)
      /\ ReceiptRow(c).at - ActivityRow(a).at <= MatchTolerance(Cred[c].rail)
  BY <1>1, <1>2, <1>3, ToleranceIsANumber
<1> QED
  BY <1>1, <1>4

\* The running ingest links or reports its credential, or breaks off and is
\* abandoned.
LEMMA IngestEnds ==
  ASSUME AuditInv, NEW c, c = handler.id, handler # Idle, handler' = Idle, UNCHANGED db,
         \/ /\ \E a \in Matching(c) : matched' = [matched EXCEPT ![c] = a]
            /\ handler.pc = "match" /\ UNCHANGED <<anomalies, abandoned>>
         \/ /\ anomalies' = [anomalies EXCEPT ![c] = IF Expected(c) THEN @ + 1 ELSE @]
            /\ UNCHANGED <<matched, abandoned>>
         \/ abandoned' = abandoned \cup {c} /\ UNCHANGED <<matched, anomalies>>
  PROVE  TrailOK'
<1> USE AuditAssumption
<1>1. /\ c \in Credentials /\ c \in db /\ c # Unset
      /\ Classified(c) = 0 /\ matched[c] = Unset /\ anomalies[c] = 0
  BY DEF AuditInv, TrailOK, HandlerOK, Classified
<1>2. HandlerOK(handler)' /\ handler'.id = Unset
  BY DEF HandlerOK, Idle
<1>3. \A x \in db' : Dated(x)'
  BY DEF AuditInv, TrailOK, Dated, Is, ActivityRow, ReceiptRow
<1>4. \A x \in Credentials :
        /\ Classified(x) <= 1
        /\ x \in db \ (abandoned \cup {c}) /\ Expected(x) => Classified(x) = 1
        /\ x \notin db => Classified(x) = 0
  BY DEF AuditInv, TrailOK, ClassifiedOnce, Classified, Expected, DetectUnmatchedReceipt,
         DetectReceiptRejected, UnstoredIsUnknown
<1>5. /\ matched' \in [Credentials -> Credentials \cup {Unset}]
      /\ anomalies' \in [Credentials -> 0 .. 1]
      /\ \A x \in Credentials : x # c => Classified(x)' = Classified(x)
      /\ Classified(c)' <= 1
      /\ c \notin abandoned' /\ Expected(c) => Classified(c)' = 1
      /\ abandoned' \subseteq db /\ abandoned \subseteq abandoned'
  <2>1. CASE /\ \E a \in Matching(c) : matched' = [matched EXCEPT ![c] = a]
             /\ UNCHANGED <<anomalies, abandoned>>
    <3>1. PICK a \in Matching(c) : matched' = [matched EXCEPT ![c] = a]
      BY <2>1
    <3>2. a \in Credentials /\ a # Unset
      BY <1>1 DEF AuditInv, TrailOK, Matching, Activities
    <3>3. Classified(c)' = 1 /\ \A x \in Credentials : x # c => Classified(x)' = Classified(x)
      BY <1>1, <2>1, <3>1, <3>2 DEF AuditInv, TrailOK, Classified
    <3> QED
      BY <1>1, <2>1, <3>1, <3>2, <3>3 DEF AuditInv, TrailOK
  <2>2. CASE /\ anomalies' = [anomalies EXCEPT ![c] = IF Expected(c) THEN @ + 1 ELSE @]
             /\ UNCHANGED <<matched, abandoned>>
    BY <1>1, <2>2 DEF AuditInv, TrailOK, Classified
  <2>3. CASE abandoned' = abandoned \cup {c} /\ UNCHANGED <<matched, anomalies>>
    BY <1>1, <2>3 DEF AuditInv, TrailOK, Classified
  <2> QED
    BY <2>1, <2>2, <2>3
<1>6. ClassifiedOnce'
  <2> SUFFICES ASSUME NEW x \in Credentials
               PROVE /\ Classified(x)' <= 1
                     /\ x \in db \ (abandoned' \cup {Unset}) /\ Expected(x) => Classified(x)' = 1
    BY <1>2 DEF ClassifiedOnce, Classified, Expected, DetectUnmatchedReceipt, DetectReceiptRejected
  <2> QED
    BY <1>4, <1>5
<1>7. UnstoredIsUnknown'
  BY <1>1, <1>4, <1>5 DEF UnstoredIsUnknown
<1>8. LinksAgree'
  <2>1. CASE matched' = matched
    BY <2>1 DEF AuditInv, TrailOK, LinksAgree, ReceiptRow, ActivityRow
  <2>2. ASSUME NEW a \in Matching(c), matched' = [matched EXCEPT ![c] = a], handler.pc = "match"
        PROVE  LinksAgree'
    <3>1. Is(c, "CounterpartyReceiptCredential")
      BY <2>2 DEF AuditInv, TrailOK, HandlerOK
    <3> QED
      BY <1>1, <2>2, <3>1, MatchingAgrees DEF AuditInv, TrailOK, LinksAgree, ReceiptRow, ActivityRow
  <2> QED
    BY <2>1, <2>2
<1>9. handler' \in [pc: {"idle", "match", "flag"}, id: Credentials \cup {Unset}]
  BY DEF Idle
<1> QED
  BY <1>2, <1>3, <1>5, <1>6, <1>7, <1>8, <1>9 DEF AuditInv, TrailOK

\* An ingest that has found no activity goes on to the report.
LEMMA IngestGoesOn ==
  ASSUME AuditInv, handler.pc = "match", handler' = [handler EXCEPT !.pc = "flag"],
         UNCHANGED <<db, matched, anomalies, abandoned>>
  PROVE  TrailOK'
<1>1. /\ handler \in [pc: {"idle", "match", "flag"}, id: Credentials \cup {Unset}]
      /\ HandlerOK(handler)
  BY DEF AuditInv, TrailOK
<1>2. /\ handler' \in [pc: {"idle", "match", "flag"}, id: Credentials \cup {Unset}]
      /\ handler'.id = handler.id /\ handler'.pc = "flag"
  BY <1>1
<1>3. HandlerOK(handler)'
  BY <1>1, <1>2 DEF HandlerOK, Classified, Idle
<1>4. LinksAgree'
  BY DEF AuditInv, TrailOK, LinksAgree, ReceiptRow, ActivityRow
<1>5. ClassifiedOnce'
  BY <1>2 DEF AuditInv, TrailOK, ClassifiedOnce
<1>6. UnstoredIsUnknown'
  BY DEF AuditInv, TrailOK, UnstoredIsUnknown, Classified
<1>7. \A x \in db' : Dated(x)'
  BY DEF AuditInv, TrailOK, Dated, Is, ActivityRow, ReceiptRow
<1> QED
  BY <1>2, <1>3, <1>4, <1>5, <1>6, <1>7 DEF AuditInv, TrailOK

TrailVars == <<db, matched, anomalies, handler, abandoned>>

\* What calls for a report is a receipt or an acknowledgment.
LEMMA ExpectedTypes ==
  \A c : Expected(c) => Is(c, "CounterpartyReceiptCredential") \/ Is(c, "ReceiptAcknowledgment")
BY DEF Expected, DetectUnmatchedReceipt, DetectReceiptRejected

\* Every step keeps what is known of the credentials: ingests store, link, report or
\* break off, and the threads and the clock leave the trail alone.
LEMMA TrailSteps == AuditInv /\ [Next]_vars => TrailOK'
<1> SUFFICES ASSUME AuditInv, [Next]_vars PROVE TrailOK'
  OBVIOUS
<1> USE AuditAssumption
<1>1. CASE UNCHANGED TrailVars
  <2>1. LinksAgree' /\ ClassifiedOnce' /\ UnstoredIsUnknown' /\ HandlerOK(handler)'
    BY <1>1 DEF TrailVars, AuditInv, TrailOK, LinksAgree, ClassifiedOnce, UnstoredIsUnknown,
                Classified, HandlerOK
  <2>2. \A x \in db' : Dated(x)'
    BY <1>1 DEF TrailVars, AuditInv, TrailOK, Dated
  <2> QED
    BY <1>1, <2>1, <2>2 DEF TrailVars, AuditInv, TrailOK
<1>2. ASSUME NEW c \in Credentials, IngestActivity(c)
      PROVE  TrailOK'
  <2>1. ~Expected(c)
    BY <1>2, ExpectedTypes DEF IngestActivity, ActivityAccepted, Accepts, Is
  <2>2. Dated(c)
    <3>1. ActivityRow(c).at \in Nat \cup {Unset}
      BY DEF ActivityRow, Or
    <3>2. ActivityRow(c).at # Unset /\ ~Is(c, "CounterpartyReceiptCredential")
      BY <1>2 DEF IngestActivity, ActivityAccepted, Accepts, Is
    <3> QED
      BY <3>1, <3>2 DEF Dated
  <2> QED
    BY <1>2, <2>1, <2>2, IngestMoves DEF IngestActivity, ActivityAccepted, Accepts, LoopFree
<1>3. ASSUME NEW c \in Credentials, IngestReceiptRequest(c)
      PROVE  TrailOK'
  <2>1. ~Expected(c) /\ Dated(c)
    BY <1>3, ExpectedTypes DEF IngestReceiptRequest, RequestAccepted, Accepts, Is, Dated
  <2> QED
    BY <1>3, <2>1, IngestMoves DEF IngestReceiptRequest, RequestAccepted, Accepts, LoopFree
<1>4. ASSUME NEW c \in Credentials, IngestReceipt(c)
      PROVE  TrailOK'
  <2>1. Is(c, "CounterpartyReceiptCredential") /\ Dated(c)
    <3>1. ReceiptRow(c).at \in Nat \cup {Unset}
      BY DEF ReceiptRow, Or
    <3>2. /\ ReceiptRow(c).at # Unset /\ Is(c, "CounterpartyReceiptCredential")
          /\ ~Is(c, "AgentActivityCredential")
      BY <1>4 DEF IngestReceipt, ReceiptAccepted, Accepts, Is
    <3> QED
      BY <3>1, <3>2 DEF Dated
  <2>2. \/ c \in db /\ handler' = Idle
        \/ c \notin db /\ handler' \in [pc : {"match", "flag"}, id : {c}]
    BY <1>4 DEF IngestReceipt
  <2> QED
    BY <1>4, <2>1, <2>2, IngestMoves DEF IngestReceipt, ReceiptAccepted, Accepts
<1>5. ASSUME NEW c \in Credentials, IngestReceiptAck(c)
      PROVE  TrailOK'
  <2>1. Dated(c)
    BY <1>5 DEF IngestReceiptAck, AckAccepted, Accepts, Is, Dated
  <2>2. \/ c \in db /\ handler' = Idle
        \/ c \notin db /\ handler' \in [pc : {"match", "flag"}, id : {c}] /\ handler'.pc = "flag"
    BY <1>5 DEF IngestReceiptAck
  <2> QED
    BY <1>5, <2>1, <2>2, IngestMoves DEF IngestReceiptAck, AckAccepted, Accepts
<1>6. CASE MatchAndLink
  <2>1. CASE handler' = Idle
    BY <1>6, <2>1, IngestEnds DEF MatchAndLink, Idle
  <2>2. CASE handler' = [handler EXCEPT !.pc = "flag"]
    BY <1>6, <2>2, IngestGoesOn DEF MatchAndLink, Idle
  <2> QED
    BY <1>6, <2>1, <2>2 DEF MatchAndLink
<1>7. CASE RecordAnomaly
  <2>1. /\ handler # Idle /\ handler' = Idle /\ UNCHANGED <<db, matched, abandoned>>
        /\ anomalies' = [anomalies EXCEPT ![handler.id] = IF Expected(handler.id) THEN @ + 1 ELSE @]
    BY <1>7 DEF RecordAnomaly, Expected, Idle
  <2> QED
    BY <2>1, IngestEnds
<1>8. CASE IngestFails
  BY <1>8, IngestEnds DEF IngestFails
<1>9. CASE Restart
  <2>1. CASE handler = Idle
    BY <1>1, <1>9, <2>1 DEF Restart, TrailVars, Idle
  <2>2. CASE handler # Idle
    <3>1. handler.id # Unset
      BY <2>2 DEF AuditInv, TrailOK, HandlerOK
    <3> QED
      BY <1>9, <2>2, <3>1, IngestEnds DEF Restart
  <2> QED
    BY <2>1, <2>2
<1>10. CASE \/ \E t \in Threads : \/ \E a \in Agents, w \in Windows : CountExpected(t, a, w)
                                \/ CountReceived(t) \/ StoreCoverage(t)
            \/ Tick \/ UNCHANGED vars
  BY <1>1, <1>10 DEF TrailVars, vars, CountExpected, CountReceived, StoreCoverage, Tick, Later
<1> QED
  BY <1>2, <1>3, <1>4, <1>5, <1>6, <1>7, <1>8, <1>9, <1>10 DEF Next

\* Counting activities from any moment gives numbers, no higher than counting
\* them all.
LEMMA CountsAreBounded ==
  ASSUME AuditInv, NEW a, NEW from
  PROVE  /\ Cardinality(Expecting(a, from)) \in Nat
         /\ Received(a, from) \in Nat /\ Received(a, from) <= Cardinality(Ever(db, a))
<1> USE AuditAssumption
<1> DEFINE R == {x \in Expecting(a, from) : \E c \in db : matched[c] = x}
<1>1. Expecting(a, from) \subseteq db /\ Ever(db, a) \subseteq db
  BY DEF Expecting, Ever, Activities
<1>2. Expecting(a, from) \subseteq Ever(db, a)
  <2> SUFFICES ASSUME NEW x \in Expecting(a, from) PROVE x \in Ever(db, a)
    OBVIOUS
  <2>1. ActivityRow(x).at \in Nat /\ x \in Activities /\ ActivityRow(x).agent = a /\ Cred[x].expects
    BY DEF Expecting, Activities, AuditInv, TrailOK, Dated
  <2>2. ActivityRow(x).at >= -MaxTime
    BY <2>1
  <2> QED
    BY <2>1, <2>2 DEF Ever, Activities
<1>3. IsFiniteSet(Expecting(a, from)) /\ IsFiniteSet(Ever(db, a)) /\ R \subseteq Ever(db, a)
  BY <1>1, <1>2, FS_Subset DEF AuditInv, CoverageOK
<1>4. IsFiniteSet(R) /\ Cardinality(R) <= Cardinality(Ever(db, a))
  BY <1>3, FS_Subset
<1> QED
  BY <1>3, <1>4, FS_CardinalityType DEF Received

\* What is counted over more rows is no less.
LEMMA ActivitiesStay ==
  ASSUME NEW S, NEW T, S \subseteq T, IsFiniteSet(T), NEW a
  PROVE  /\ Cardinality(Ever(S, a)) \in Nat /\ Cardinality(Ever(T, a)) \in Nat
         /\ Cardinality(Ever(S, a)) <= Cardinality(Ever(T, a))
<1>1. Ever(S, a) \subseteq Ever(T, a) /\ Ever(T, a) \subseteq T
  BY DEF Ever
<1>2. IsFiniteSet(Ever(T, a))
  BY <1>1, FS_Subset
<1>3. IsFiniteSet(Ever(S, a)) /\ Cardinality(Ever(S, a)) <= Cardinality(Ever(T, a))
  BY <1>1, <1>2, FS_Subset
<1> QED
  BY <1>2, <1>3, FS_CardinalityType

\* A step that takes away no activity keeps what was counted and stored.
LEMMA CoverageStays ==
  ASSUME AuditInv, db \subseteq db', IsFiniteSet(db'), now' \in 0 .. MaxTime,
         thread' \in [Threads -> Query],
         \A t \in Threads : thread'[t] = thread[t] \/ ThreadOK(thread'[t]),
         rollup' \in [Agents -> [Windows -> Count \cup {Unset}]],
         \A a \in Agents, w \in Windows : rollup'[a][w] = rollup[a][w]
            \/ rollup'[a][w].received <= Cardinality(Ever(db, a))
  PROVE  CoverageOK'
<1> USE AuditAssumption
<1>1. \A a : /\ Cardinality(Ever(db, a)) \in Nat /\ Cardinality(Ever(db', a)) \in Nat
             /\ Cardinality(Ever(db, a)) <= Cardinality(Ever(db', a))
  BY ActivitiesStay
<1>2. ASSUME NEW t \in Threads PROVE ThreadOK(thread[t])'
  <2>1. PICK s \in Query : s = thread'[t]
    OBVIOUS
  <2>2. ThreadOK(s)
    BY <2>1 DEF AuditInv, CoverageOK
  <2>3. s.pc = "upsert" => s.received <= Cardinality(Ever(db', s.agent))
    BY <1>1, <2>2 DEF ThreadOK, Query
  <2> QED
    BY <2>1, <2>2, <2>3 DEF ThreadOK
<1>3. RollupCountsActivities'
  <2>1. \A a : Expecting(a, -MaxTime) = Ever(db, a) /\ Expecting(a, -MaxTime)' = Ever(db', a)
    BY DEF Expecting, Ever, Activities
  <2>2. \A a \in Agents, w \in Windows : rollup[a][w] # Unset =>
          rollup[a][w].received <= Cardinality(Ever(db, a))
    BY <2>1 DEF AuditInv, CoverageOK, RollupCountsActivities
  <2> SUFFICES ASSUME NEW a \in Agents, NEW w \in Windows, rollup'[a][w] # Unset
               PROVE  rollup'[a][w].received <= Cardinality(Ever(db', a))
    BY <2>1 DEF RollupCountsActivities
  <2>3. rollup'[a][w].received <= Cardinality(Ever(db, a)) /\ rollup'[a][w] \in Count
    BY <2>2
  <2> QED
    BY <2>3, <1>1 DEF Count
<1> QED
  BY <1>2, <1>3 DEF CoverageOK

\* Every step keeps the counts within the activities there are: the rows only grow,
\* and what a thread received is counted over the rows of that moment.
LEMMA CoverageSteps == AuditInv /\ [Next]_vars => CoverageOK'
<1> SUFFICES ASSUME AuditInv, [Next]_vars PROVE CoverageOK'
  OBVIOUS
<1> USE AuditAssumption
<1>0. /\ thread \in [Threads -> Query] /\ rollup \in [Agents -> [Windows -> Count \cup {Unset}]]
      /\ \A t \in Threads : thread[t] \in Query /\ ThreadOK(thread[t])
      /\ now \in 0 .. MaxTime /\ IsFiniteSet(db)
  BY DEF AuditInv, CoverageOK
\* An ingest adds at most one row.
<1>1. ASSUME db' = db \/ \E c : db' = db \cup {c}, now' \in 0 .. MaxTime,
             UNCHANGED <<thread, rollup>>
      PROVE  CoverageOK'
  <2>1. db \subseteq db' /\ IsFiniteSet(db')
    BY <1>0, <1>1, FS_AddElement
  <2> QED
    BY <1>0, <1>1, <2>1, CoverageStays
<1>2. ASSUME NEW c \in Credentials,
             IngestActivity(c) \/ IngestReceiptRequest(c) \/ IngestReceipt(c) \/ IngestReceiptAck(c)
      PROVE  CoverageOK'
  BY <1>0, <1>1, <1>2 DEF IngestActivity, IngestReceiptRequest, IngestReceipt, IngestReceiptAck
<1>3. CASE MatchAndLink \/ RecordAnomaly \/ IngestFails \/ Tick \/ UNCHANGED vars
  BY <1>0, <1>1, <1>3 DEF MatchAndLink, RecordAnomaly, IngestFails, Tick, Later, vars
<1>4. ASSUME NEW t \in Threads, NEW a \in Agents, NEW w \in Windows, CountExpected(t, a, w)
      PROVE  CoverageOK'
  <2> DEFINE s == [pc |-> "counted", agent |-> a, window |-> w, from |-> now - w,
                   expected |-> Cardinality(Expecting(a, now - w)), received |-> 0]
  <2>1. s \in Query /\ ThreadOK(s)
    BY <1>0, CountsAreBounded DEF Query, ThreadOK
  <2>2. thread' = [thread EXCEPT ![t] = s] /\ UNCHANGED <<db, now, rollup>>
    BY <1>4 DEF CountExpected
  <2> QED
    BY <1>0, <2>1, <2>2, CoverageStays
<1>5. ASSUME NEW t \in Threads, CountReceived(t)
      PROVE  CoverageOK'
  <2> DEFINE n == Received(thread[t].agent, thread[t].from)
             s == [thread[t] EXCEPT !.pc = "upsert", !.received = n]
  <2>1. n \in Nat /\ n <= Cardinality(Ever(db, thread[t].agent))
    BY CountsAreBounded
  <2>2. s \in Query /\ ThreadOK(s)
    BY <1>0, <1>5, <2>1 DEF CountReceived, Query, ThreadOK
  <2>3. thread' = [thread EXCEPT ![t] = s] /\ UNCHANGED <<db, now, rollup>>
    BY <1>0, <1>5 DEF CountReceived
  <2> QED
    BY <1>0, <2>2, <2>3, CoverageStays
<1>6. ASSUME NEW t \in Threads, StoreCoverage(t)
      PROVE  CoverageOK'
  <2> DEFINE s == thread[t]
             n == [expected |-> s.expected, received |-> s.received]
  <2>1. /\ s.agent \in Agents /\ s.window \in Windows /\ n \in Count
        /\ n.received <= Cardinality(Ever(db, s.agent))
    BY <1>0, <1>6 DEF StoreCoverage, ThreadOK, Query, Count
  <2>2. /\ rollup' = [rollup EXCEPT ![s.agent][s.window] = n]
        /\ thread' = [thread EXCEPT ![t] = Asleep] /\ UNCHANGED <<db, now>>
    BY <1>6 DEF StoreCoverage
  <2>3. Asleep \in Query /\ ThreadOK(Asleep)
    BY DEF Asleep, Query, ThreadOK
  <2> HIDE DEF n
  <2>4. /\ rollup' \in [Agents -> [Windows -> Count \cup {Unset}]]
        /\ \A a \in Agents, w \in Windows : rollup'[a][w] = rollup[a][w]
             \/ rollup'[a][w].received <= Cardinality(Ever(db, a))
    BY <1>0, <2>1, <2>2
  <2> QED
    BY <1>0, <2>2, <2>3, <2>4, CoverageStays
<1>7. CASE Restart
  <2>1. Asleep \in Query /\ ThreadOK(Asleep)
    BY DEF Asleep, Query, ThreadOK
  <2> QED
    BY <1>0, <1>7, <2>1, CoverageStays DEF Restart
<1> QED
  BY <1>2, <1>3, <1>4, <1>5, <1>6, <1>7 DEF Next

\* The invariant of the trail holds in every reachable state.
LEMMA AuditAlways == Spec => []AuditInv
<1>1. AuditInv /\ [Next]_vars => AuditInv'
  BY TrailSteps, CoverageSteps DEF AuditInv
<1> QED
  BY <1>1, AuditInit, PTL DEF Spec

\* The types of the trail, among them that a receipt is reported once at most and that
\* an ingest that was broken off has stored its credential.
THEOREM TypeCorrect == Spec => []TypeOK
<1>1. AuditInv => TypeOK
  BY DEF AuditInv, TrailOK, CoverageOK, TypeOK, Query, Count
<1> QED
  BY <1>1, AuditAlways, PTL

\* Whatever comes first, and however often, a receipt is linked only to a stored
\* activity of its parties and reference within the tolerance of its rail.
THEOREM LinkedReceiptsAgree == Spec => []LinksAgree
<1>1. AuditInv => LinksAgree
  BY DEF AuditInv, TrailOK
<1> QED
  BY <1>1, AuditAlways, PTL

\* A receipt with a reference is linked or reported, and a rejection reported, once and
\* never twice, through replays, errors and restarts; only an ingest that is running
\* or broke off may leave it at neither.
THEOREM ReceiptsAreClassifiedOnce == Spec => []ClassifiedOnce
<1>1. AuditInv => ClassifiedOnce
  BY DEF AuditInv, TrailOK
<1> QED
  BY <1>1, AuditAlways, PTL

\* Threads that count over different snapshots never store more receipts than the agent
\* has activities that expect one.
THEOREM RollupIsBounded == Spec => []RollupCountsActivities
<1>1. AuditInv => RollupCountsActivities
  BY DEF AuditInv, CoverageOK
<1> QED
  BY <1>1, AuditAlways, PTL

(***************************************************************************)
(* MerkleTree.  What build_tree, generate_proof and verify_proof compute   *)
(* for a batch of any length is shown level by level, by induction over    *)
(* sets of levels: the numbers whose statement fails would have a least    *)
(* one, since inclusion of finite sets is well founded.                    *)
(***************************************************************************)
\* A set of numbers that is not empty has a least element.
LEMMA LeastNumber ==
  ASSUME NEW S \in SUBSET Nat, S # {}
  PROVE  \E x \in S : \A y \in S : x <= y
<1> DEFINE T == {0 .. x : x \in S}
           R == StrictSubsetOrdering(Nat)
<1>1. T \subseteq FiniteSubsetsOf(Nat) /\ T # {}
  <2>1. ASSUME NEW x \in S PROVE 0 .. x \in FiniteSubsetsOf(Nat)
    BY FS_Interval DEF FiniteSubsetsOf
  <2> QED
    BY <2>1
<1>2. IsWellFoundedOn(R, FiniteSubsetsOf(Nat))
  BY FS_StrictSubsetOrderingWellFounded
<1>3. PICK X \in T : \A Y \in T : ~(<<Y, X>> \in R)
  BY <1>1, <1>2, WFMin, Zenon
<1>4. PICK x \in S : X = 0 .. x
  BY <1>3
<1>5. ASSUME NEW y \in S, y < x PROVE FALSE
  <2>1. 0 .. y \subseteq 0 .. x /\ 0 .. y # 0 .. x /\ 0 .. y \in T
    <3>1. x \in 0 .. x /\ x \notin 0 .. y /\ 0 .. y \subseteq 0 .. x
      BY <1>5
    <3> QED
      BY <3>1
  <2>2. <<0 .. y, X>> \in R
    BY <1>4, <2>1 DEF StrictSubsetOrdering
  <2> QED
    BY <1>3, <2>1, <2>2
<1>6. \A y \in S : x <= y
  BY <1>5
<1> QED
  BY <1>6

\* Induction over the numbers up to n, with a set for the property.
LEMMA CountingUp ==
  ASSUME NEW n \in Nat, NEW G, 0 \in G, \A k \in 0 .. n - 1 : k \in G => k + 1 \in G
  PROVE  0 .. n \subseteq G
<1> DEFINE Bad == (0 .. n) \ G
<1> SUFFICES ASSUME Bad # {} PROVE FALSE
  OBVIOUS
<1>1. Bad \in SUBSET Nat
  OBVIOUS
<1> HIDE DEF Bad
<1>2. PICK x \in Bad : \A y \in Bad : x <= y
  BY <1>1, LeastNumber
<1> USE DEF Bad
<1>3. x # 0 /\ x - 1 \in 0 .. n - 1
  BY <1>2
<1>4. x - 1 \notin Bad
  BY <1>2, <1>3
<1>5. x - 1 \in G
  BY <1>3, <1>4
<1> QED
  BY <1>2, <1>3, <1>5

\* Half a number, rounded up.
LEMMA Half ==
  ASSUME NEW n \in Nat \ {0}
  PROVE  LET h == (n + 1) \div 2
         IN  /\ h \in Nat \ {0} /\ (2 * h = n \/ 2 * h = n + 1)
             /\ n > 1 => h < n
OBVIOUS

\* Half a number, rounded down.
LEMMA HalfDown ==
  ASSUME NEW x \in Nat
  PROVE  LET a == x \div 2
         IN  /\ a \in Nat
             /\ x % 2 = 0 => x = 2 * a
             /\ x % 2 # 0 => x = 2 * a + 1
OBVIOUS

\* Half an index below a bound is below half the bound.
LEMMA HalfBelow ==
  ASSUME NEW m \in Nat \ {0}, NEW x \in 0 .. m - 1
  PROVE  x \div 2 \in 0 .. (m + 1) \div 2 - 1
<1>1. PICK a \in Nat : a = x \div 2 /\ (x = 2 * a \/ x = 2 * a + 1)
  BY HalfDown
<1>2. PICK h \in Nat \ {0} : h = (m + 1) \div 2 /\ (2 * h = m \/ 2 * h = m + 1)
  BY Half
<1>3. a \in 0 .. h - 1
  BY <1>1, <1>2
<1> QED
  BY <1>1, <1>2, <1>3

\* What is a level: a sequence that is not empty.
Level(p) == Len(p) \in Nat \ {0} /\ p = [i \in 1 .. Len(p) |-> p[i]]

\* It has a length.
LEMMA LengthIs == \A p : Level(p) => Len(p) \in Nat \ {0}
BY DEF Level

\* Hashes of pairs are free.
LEMMA PairsAreFree ==
  ASSUME NEW a, NEW b, NEW c, NEW d
  PROVE  /\ HashPair(a, b) = HashPair(c, d) <=> (a = c /\ b = d)
         /\ LeafHash(c) # HashPair(a, b)
<1>1. HashPair(a, b)[1] = a /\ HashPair(a, b)[2] = b /\ DOMAIN HashPair(a, b) = 1 .. 2
  BY DEF HashPair
<1>2. HashPair(c, d)[1] = c /\ HashPair(c, d)[2] = d
  BY DEF HashPair
<1>3. DOMAIN LeafHash(c) = 1 .. 1
  BY DEF LeafHash
<1>4. 2 \in 1 .. 2 /\ 2 \notin 1 .. 1
  OBVIOUS
<1> QED
  BY <1>1, <1>2, <1>3, <1>4

\* A leaf is not the hash of a pair.
LEMMA LeafIsNoPair ==
  ASSUME NEW a \in Leaves, NEW b, NEW c
  PROVE  a # HashPair(b, c)
<1>1. PICK e \in Entries : a = LeafHash(e)
  BY DEF Leaves
<1> QED
  BY <1>1, PairsAreFree

\* A level that is padded has an even length.
LEMMA PaddedIs ==
  ASSUME NEW p, Level(p)
  PROVE  LET q == Padded(p)
             h == (Len(p) + 1) \div 2
         IN /\ Len(q) = 2 * h
            /\ \A i \in 1 .. 2 * h : q[i] = IF i <= Len(p) THEN p[i] ELSE p[Len(p)]
<1> DEFINE n == Len(p)
           q == Padded(p)
           h == (n + 1) \div 2
<1>1. n \in Nat \ {0} /\ h \in Nat
  BY DEF Level
<1>2. CASE n % 2 = 1
  <2>1. q = Append(p, p[n])
    BY <1>2 DEF Padded, Last
  <2>2. q = [i \in 1 .. n + 1 |-> IF i = n + 1 THEN p[n] ELSE p[i]]
    BY <1>1, <2>1 DEF Level
  <2>3. Len(q) = n + 1 /\ n + 1 = 2 * h
    BY <1>1, <1>2, <2>2
  <2> HIDE DEF n, h
  <2>4. ASSUME NEW i \in 1 .. n + 1
        PROVE q[i] = IF i <= n THEN p[i] ELSE p[n]
    BY <1>1, <2>2
  <2> QED
    BY <2>3, <2>4 DEF n, h
<1>3. CASE n % 2 # 1
  <2>1. q = p /\ n = 2 * h
    BY <1>1, <1>3 DEF Padded
  <2> QED
    BY <1>1, <2>1
<1> QED
  BY <1>2, <1>3

\* The level above pairs the nodes off.
LEMMA NextLevelIs ==
  ASSUME NEW p, Level(p)
  PROVE  LET q == NextLevel(p)
             h == (Len(p) + 1) \div 2
         IN /\ Level(q) /\ Len(q) = h
            /\ \A i \in 1 .. h :
                 q[i] = HashPair(p[2 * i - 1],
                                 IF 2 * i <= Len(p) THEN p[2 * i] ELSE p[2 * i - 1])
<1> DEFINE n == Len(p)
           q == NextLevel(p)
           r == Padded(p)
           h == (n + 1) \div 2
<1>1. n \in Nat \ {0} /\ h \in Nat \ {0} /\ (2 * h = n \/ 2 * h = n + 1)
  BY Half DEF Level
<1>2. Len(r) = 2 * h /\ \A i \in 1 .. 2 * h : r[i] = IF i <= n THEN p[i] ELSE p[n]
  BY PaddedIs
<1>3. q = [i \in 1 .. Len(r) \div 2 |-> HashPair(r[2 * i - 1], r[2 * i])]
  BY DEF NextLevel
<1> HIDE DEF n, h, q, r
<1>4. Len(r) \div 2 = h
  BY <1>1, <1>2
<1>5. q = [i \in 1 .. h |-> HashPair(r[2 * i - 1], r[2 * i])]
  BY <1>3, <1>4
<1>6. Len(q) = h /\ Level(q)
  <2>1. Len(q) = h
    BY <1>1, <1>5
  <2>2. q = [i \in 1 .. h |-> q[i]]
    BY <1>5
  <2> QED
    BY <1>1, <2>1, <2>2 DEF Level
<1>7. ASSUME NEW i \in 1 .. h
      PROVE  q[i] = HashPair(p[2 * i - 1], IF 2 * i <= n THEN p[2 * i] ELSE p[2 * i - 1])
  <2>1. 2 * i - 1 \in 1 .. 2 * h /\ 2 * i \in 1 .. 2 * h /\ 2 * i - 1 <= n
    BY <1>1
  <2>2. r[2 * i - 1] = p[2 * i - 1]
    BY <1>2, <2>1
  <2>3. r[2 * i] = IF 2 * i <= n THEN p[2 * i] ELSE p[2 * i - 1]
    <3>1. 2 * i <= n \/ n = 2 * i - 1
      BY <1>1, <2>1
    <3> QED
      BY <1>1, <1>2, <2>1, <3>1
  <2> QED
    BY <1>5, <2>2, <2>3
<1> QED
  BY <1>6, <1>7 DEF n, h, q

\* All nodes of a level are in the pairs of the level above, and nothing else.
LEMMA NodesArePaired ==
  ASSUME NEW p, Level(p)
  PROVE  \A a : a \in Range(p) <=> \E b : HashPair(a, b) \in Range(NextLevel(p))
                                          \/ HashPair(b, a) \in Range(NextLevel(p))
<1> DEFINE n == Len(p)
           q == NextLevel(p)
           h == (n + 1) \div 2
<1>1. n \in Nat \ {0} /\ h \in Nat \ {0} /\ (2 * h = n \/ 2 * h = n + 1)
  BY Half DEF Level
<1>2. /\ Level(q) /\ Len(q) = h
      /\ \A i \in 1 .. h :
           q[i] = HashPair(p[2 * i - 1], IF 2 * i <= n THEN p[2 * i] ELSE p[2 * i - 1])
  BY NextLevelIs
<1>3. DOMAIN p = 1 .. n /\ DOMAIN q = 1 .. h
  BY <1>2 DEF Level
<1> HIDE DEF n, h, q
<1>4. ASSUME NEW a, a \in Range(p)
      PROVE  \E b : HashPair(a, b) \in Range(q) \/ HashPair(b, a) \in Range(q)
  <2>1. PICK j \in 1 .. n : a = p[j]
    BY <1>3, <1>4 DEF Range
  <2>2. PICK i \in 1 .. h : j = 2 * i - 1 \/ j = 2 * i
    <3>1. CASE j % 2 = 0
      <4>1. j \div 2 \in 1 .. h /\ j = 2 * (j \div 2)
        BY <1>1, <3>1
      <4> QED
        BY <4>1
    <3>2. CASE j % 2 = 1
      <4>1. (j + 1) \div 2 \in 1 .. h /\ j = 2 * ((j + 1) \div 2) - 1
        BY <1>1, <3>2
      <4> QED
        BY <4>1
    <3> QED
      BY <1>1, <3>1, <3>2
  <2>3. q[i] \in Range(q)
    BY <1>3 DEF Range
  <2>4. \E b : q[i] = HashPair(a, b) \/ q[i] = HashPair(b, a)
    <3>1. CASE j = 2 * i - 1
      BY <1>2, <2>1, <3>1
    <3>2. CASE j = 2 * i
      <4>1. q[i] = HashPair(p[2 * i - 1], a)
        BY <1>1, <1>2, <2>1, <3>2
      <4> QED
        BY <4>1
    <3> QED
      BY <2>2, <3>1, <3>2
  <2> QED
    BY <2>3, <2>4
<1>5. ASSUME NEW a, NEW b, HashPair(a, b) \in Range(q) \/ HashPair(b, a) \in Range(q)
      PROVE  a \in Range(p)
  <2>1. PICK i \in 1 .. h : q[i] = HashPair(a, b) \/ q[i] = HashPair(b, a)
    BY <1>3, <1>5 DEF Range
  <2>2. 2 * i - 1 \in 1 .. n /\ (2 * i <= n => 2 * i \in 1 .. n)
    BY <1>1
  <2>3. a = p[2 * i - 1] \/ (2 * i <= n /\ a = p[2 * i])
    BY <1>2, <2>1, PairsAreFree
  <2> QED
    BY <1>3, <2>2, <2>3 DEF Range
<1> QED
  BY <1>4, <1>5 DEF q

\* So a level above tells which nodes it was made from.
LEMMA LevelAboveTellsNodes ==
  ASSUME NEW p, NEW q, Level(p), Level(q), Range(NextLevel(p)) = Range(NextLevel(q))
  PROVE  Range(p) = Range(q)
<1>1. \A a : a \in Range(p) <=> a \in Range(q)
  BY NodesArePaired
<1> QED
  BY <1>1

\* And, with the length, in which order.
LEMMA LevelAboveTellsOrder ==
  ASSUME NEW p, NEW q, Level(p), Level(q), Len(p) = Len(q), NextLevel(p) = NextLevel(q)
  PROVE  p = q
<1> DEFINE n == Len(p)
           h == (n + 1) \div 2
           r == NextLevel(p)
<1>1. n \in Nat \ {0} /\ h \in Nat \ {0} /\ (2 * h = n \/ 2 * h = n + 1)
  BY Half DEF Level
<1>2. \A i \in 1 .. h :
        /\ r[i] = HashPair(p[2 * i - 1], IF 2 * i <= n THEN p[2 * i] ELSE p[2 * i - 1])
        /\ r[i] = HashPair(q[2 * i - 1], IF 2 * i <= n THEN q[2 * i] ELSE q[2 * i - 1])
  BY NextLevelIs
<1> HIDE DEF n, h, r
<1>3. \A i \in 1 .. h : p[2 * i - 1] = q[2 * i - 1] /\ (2 * i <= n => p[2 * i] = q[2 * i])
  BY <1>2, PairsAreFree
<1>4. ASSUME NEW j \in 1 .. n PROVE p[j] = q[j]
  <2>1. CASE j % 2 = 0
    <3>1. j \div 2 \in 1 .. h /\ j = 2 * (j \div 2) /\ j <= n
      BY <1>1, <2>1
    <3> QED
      BY <1>3, <3>1
  <2>2. CASE j % 2 = 1
    <3>1. (j + 1) \div 2 \in 1 .. h /\ j = 2 * ((j + 1) \div 2) - 1
      BY <1>1, <2>2
    <3> QED
      BY <1>3, <3>1
  <2> QED
    BY <1>1, <2>1, <2>2
<1> QED
  BY <1>4 DEF Level, n

-----------------------------------------------------------------------------
\* L gives the levels of a tree.
AreLevels(L, s) ==
  L = [k \in 0 .. Len(s) |-> IF k = 0 THEN s ELSE Above(L[k - 1])]

\* The recursion of Levels has a solution.
LEMMA LevelsExist ==
  ASSUME NEW s, Len(s) \in Nat
  PROVE  AreLevels(Levels(s), s)
<1> DEFINE n == Len(s)
           Upto(L, k) == \A j \in 0 .. k : L[j] = IF j = 0 THEN s ELSE Above(L[j - 1])
           G == {k \in Nat : \E L : Upto(L, k)}
<1>1. 0 \in G
  <2>1. Upto([k \in {0} |-> s], 0)
    OBVIOUS
  <2> QED
    BY <2>1
<1>2. ASSUME NEW k \in 0 .. n - 1, k \in G PROVE k + 1 \in G
  <2>1. PICK L : Upto(L, k)
    BY <1>2
  <2> DEFINE M == [j \in 0 .. k + 1 |-> IF j = 0 THEN s ELSE Above(L[j - 1])]
  <2>2. \A j \in 0 .. k : M[j] = L[j]
    BY <2>1
  <2>3. ASSUME NEW j \in 0 .. k + 1 PROVE M[j] = IF j = 0 THEN s ELSE Above(M[j - 1])
    <3>1. j # 0 => j - 1 \in 0 .. k
      OBVIOUS
    <3>2. j # 0 => M[j - 1] = L[j - 1]
      BY <2>2, <3>1
    <3>3. M[j] = IF j = 0 THEN s ELSE Above(L[j - 1])
      OBVIOUS
    <3> HIDE DEF M
    <3> QED
      BY <3>2, <3>3
  <2> HIDE DEF M
  <2>4. Upto(M, k + 1)
    BY <2>3
  <2> QED
    BY <2>4
<1>3. n \in G
  <2> HIDE DEF G
  <2>1. 0 .. n \subseteq G
    BY <1>1, <1>2, CountingUp
  <2> QED
    BY <2>1
<1>4. PICK L : Upto(L, n)
  BY <1>3
<1> DEFINE M == [k \in 0 .. n |-> L[k]]
<1>5. ASSUME NEW k \in 0 .. n PROVE M[k] = IF k = 0 THEN s ELSE Above(M[k - 1])
  <2>1. k # 0 => k - 1 \in 0 .. n
    OBVIOUS
  <2> QED
    BY <1>4, <2>1
<1>6. AreLevels(M, s)
  <2>1. M = [k \in 0 .. n |-> M[k]]
    OBVIOUS
  <2> HIDE DEF M
  <2> QED
    BY <1>5, <2>1 DEF AreLevels
<1>7. Levels(s) = CHOOSE F : AreLevels(F, s)
  BY DEF Levels, AreLevels
<1> QED
  BY <1>6, <1>7

\* The levels of a batch: each is shorter than the one below, down to the root.
LEMMA LevelsShrink ==
  ASSUME NEW s, Level(s)
  PROVE  /\ Levels(s)[0] = s
         /\ \A k \in 1 .. Len(s) : Levels(s)[k] = Above(Levels(s)[k - 1])
         /\ \A k \in 0 .. Len(s) : /\ Level(Levels(s)[k])
                                   /\ Len(Levels(s)[k]) = 1 \/ Len(Levels(s)[k]) + k <= Len(s)
<1> DEFINE n == Len(s)
           L == Levels(s)
           G == {k \in 0 .. n : Level(L[k]) /\ (Len(L[k]) = 1 \/ Len(L[k]) + k <= n)}
<1>1. n \in Nat \ {0}
  BY DEF Level
<1>2. \A k \in 0 .. n : L[k] = IF k = 0 THEN s ELSE Above(L[k - 1])
  BY <1>1, LevelsExist DEF AreLevels
<1> HIDE DEF L, n
<1>3. L[0] = s /\ \A k \in 1 .. n : L[k] = Above(L[k - 1])
  BY <1>1, <1>2
<1>4. 0 \in G
  BY <1>1, <1>3 DEF n
<1>5. ASSUME NEW k \in 0 .. n - 1, k \in G PROVE k + 1 \in G
  <2>1. L[k + 1] = Above(L[k]) /\ k + 1 \in 0 .. n
    BY <1>1, <1>3
  <2>2. Level(L[k]) /\ (Len(L[k]) = 1 \/ Len(L[k]) + k <= n)
    BY <1>5
  <2>3. CASE Len(L[k]) = 1
    BY <2>1, <2>2, <2>3 DEF Above
  <2>4. CASE Len(L[k]) # 1
    <3>1. PICK m \in Nat \ {0} : m = Len(L[k]) /\ m > 1 /\ m + k <= n
      <4>1. PICK m \in Nat \ {0} : m = Len(L[k])
        BY <2>2, LengthIs
      <4>2. m # 1 /\ m + k <= n
        BY <2>2, <2>4, <4>1
      <4>3. m > 1
        BY <4>2
      <4> QED
        BY <4>1, <4>2, <4>3
    <3>2. L[k + 1] = NextLevel(L[k])
      BY <2>1, <2>4 DEF Above
    <3>3. Level(L[k + 1]) /\ Len(L[k + 1]) = (m + 1) \div 2
      BY <2>2, <3>1, <3>2, NextLevelIs
    <3>4. PICK h \in Nat : h = Len(L[k + 1]) /\ h < m
      BY <3>1, <3>3, Half
    <3>5. Len(L[k + 1]) + (k + 1) <= n
      <4>1. m \in Int /\ h \in Int /\ k \in Int /\ n \in Int /\ h < m /\ m + k <= n
        BY <1>1, <3>1, <3>4
      <4>2. h + (k + 1) <= n
        BY <4>1
      <4> QED
        BY <3>4, <4>2
    <3> QED
      BY <2>1, <3>3, <3>5
  <2> QED
    BY <2>3, <2>4
<1>6. 0 .. n \subseteq G
  <2> HIDE DEF G
  <2> QED
    BY <1>1, <1>4, <1>5, CountingUp
<1> QED
  BY <1>3, <1>6 DEF L, n

\* The root is the first level of one node, and the levels below it have more.
LEMMA HeightIs ==
  ASSUME NEW s, Level(s)
  PROVE  /\ Height(s) \in 0 .. Len(s) /\ Len(Levels(s)[Height(s)]) = 1
         /\ \A k \in 0 .. Len(s) : Level(Levels(s)[k])
         /\ Levels(s)[0] = s
         /\ \A k \in 1 .. Height(s) : /\ Len(Levels(s)[k - 1]) > 1
                                      /\ Levels(s)[k] = NextLevel(Levels(s)[k - 1])
<1> DEFINE n == Len(s)
           L == Levels(s)
           S == {k \in 0 .. n : Len(L[k]) = 1}
<1>1. n \in Nat \ {0}
  BY DEF Level
<1>2. /\ L[0] = s /\ \A k \in 1 .. n : L[k] = Above(L[k - 1])
      /\ \A k \in 0 .. n : Level(L[k]) /\ (Len(L[k]) = 1 \/ Len(L[k]) + k <= n)
  BY LevelsShrink
<1> HIDE DEF L, n
<1>3. \A k \in 0 .. n : Len(L[k]) \in Nat \ {0}
  BY <1>2 DEF Level
<1>4. S \in SUBSET Nat /\ n \in S
  BY <1>1, <1>2, <1>3
<1>5. \E k \in S : \A j \in S : k <= j
  <2> HIDE DEF S
  <2> QED
    BY <1>4, LeastNumber
<1> DEFINE H == CHOOSE k \in 0 .. n : Len(L[k]) = 1 /\ \A j \in 0 .. k - 1 : Len(L[j]) > 1
<1>6. \E k \in 0 .. n : Len(L[k]) = 1 /\ \A j \in 0 .. k - 1 : Len(L[j]) > 1
  <2>1. PICK k \in S : \A j \in S : k <= j
    BY <1>5
  <2>2. ASSUME NEW j \in 0 .. k - 1 PROVE Len(L[j]) > 1
    <3>1. j \in 0 .. n /\ j \notin S
      BY <1>1, <2>1
    <3>2. PICK m \in Nat \ {0} : m = Len(L[j])
      BY <1>3, <3>1
    <3>3. m # 1
      BY <3>1, <3>2
    <3> QED
      BY <3>2, <3>3
  <2> QED
    BY <2>1, <2>2
<1>7. H \in 0 .. n /\ Len(L[H]) = 1 /\ \A j \in 0 .. H - 1 : Len(L[j]) > 1
  BY <1>6
<1>8. Height(s) = H
  BY DEF Height, L, n
<1> HIDE DEF H
<1>9. ASSUME NEW k \in 1 .. H PROVE Len(L[k - 1]) > 1 /\ L[k] = NextLevel(L[k - 1])
  <2>1. k - 1 \in 0 .. H - 1 /\ k \in 1 .. n
    BY <1>1, <1>7
  <2>2. Len(L[k - 1]) > 1 /\ L[k] = Above(L[k - 1])
    BY <1>2, <1>7, <2>1
  <2>3. ASSUME Len(L[k - 1]) = 1 PROVE FALSE
    <3>1. 1 > 1
      BY <2>2, <2>3
    <3> QED
      BY <3>1
  <2> QED
    BY <2>2, <2>3 DEF Above
<1> QED
  BY <1>2, <1>7, <1>8, <1>9 DEF L, n

-----------------------------------------------------------------------------
\* I gives the ancestors' indices over H levels.
AreAncestors(I, H, index) ==
  I = [k \in 0 .. H |-> IF k = 0 THEN index ELSE I[k - 1] \div 2]

\* The recursion of Ancestor has a solution.
LEMMA AncestorsExist ==
  ASSUME NEW s, Height(s) \in Nat, NEW index
  PROVE  AreAncestors(Ancestor(s, index), Height(s), index)
<1> DEFINE n == Height(s)
           Upto(I, k) == \A j \in 0 .. k : I[j] = IF j = 0 THEN index ELSE I[j - 1] \div 2
           G == {k \in Nat : \E I : Upto(I, k)}
<1>1. 0 \in G
  <2>1. Upto([k \in {0} |-> index], 0)
    OBVIOUS
  <2> QED
    BY <2>1
<1>2. ASSUME NEW k \in 0 .. n - 1, k \in G PROVE k + 1 \in G
  <2>1. PICK I : Upto(I, k)
    BY <1>2
  <2> DEFINE M == [j \in 0 .. k + 1 |-> IF j = 0 THEN index ELSE I[j - 1] \div 2]
  <2>2. \A j \in 0 .. k : M[j] = I[j]
    BY <2>1
  <2>3. ASSUME NEW j \in 0 .. k + 1 PROVE M[j] = IF j = 0 THEN index ELSE M[j - 1] \div 2
    <3>1. j # 0 => j - 1 \in 0 .. k
      OBVIOUS
    <3>2. j # 0 => M[j - 1] = I[j - 1]
      BY <2>2, <3>1
    <3>3. M[j] = IF j = 0 THEN index ELSE I[j - 1] \div 2
      OBVIOUS
    <3> HIDE DEF M
    <3> QED
      BY <3>2, <3>3
  <2> HIDE DEF M
  <2>4. Upto(M, k + 1)
    BY <2>3
  <2> QED
    BY <2>4
<1>3. n \in G
  <2> HIDE DEF G
  <2>1. 0 .. n \subseteq G
    BY <1>1, <1>2, CountingUp
  <2> QED
    BY <2>1
<1>4. PICK I : Upto(I, n)
  BY <1>3
<1> DEFINE M == [k \in 0 .. n |-> I[k]]
<1>5. ASSUME NEW k \in 0 .. n PROVE M[k] = IF k = 0 THEN index ELSE M[k - 1] \div 2
  <2>1. k # 0 => k - 1 \in 0 .. n
    OBVIOUS
  <2> QED
    BY <1>4, <2>1
<1>6. AreAncestors(M, n, index)
  <2>1. M = [k \in 0 .. n |-> M[k]]
    OBVIOUS
  <2> HIDE DEF M
  <2> QED
    BY <1>5, <2>1 DEF AreAncestors
<1>7. Ancestor(s, index) = CHOOSE F : AreAncestors(F, n, index)
  BY DEF Ancestor, AreAncestors
<1> HIDE DEF n
<1>8. AreAncestors(Ancestor(s, index), n, index)
  BY <1>6, <1>7
<1> QED
  BY <1>8 DEF n

\* C gives the hashes that the loop of verify_proof goes through.
AreRecomputed(C, leaf, proof) ==
  C = [k \in 0 .. Len(proof) |-> IF k = 0 THEN leaf ELSE Combine(C[k - 1], proof[k])]

\* The recursion of Recomputed has a solution.
LEMMA RecomputedExist ==
  ASSUME NEW proof, Len(proof) \in Nat, NEW leaf
  PROVE  AreRecomputed(Recomputed(leaf, proof), leaf, proof)
<1> DEFINE n == Len(proof)
           Upto(C, k) ==
             \A j \in 0 .. k : C[j] = IF j = 0 THEN leaf ELSE Combine(C[j - 1], proof[j])
           G == {k \in Nat : \E C : Upto(C, k)}
<1>1. 0 \in G
  <2>1. Upto([k \in {0} |-> leaf], 0)
    OBVIOUS
  <2> QED
    BY <2>1
<1>2. ASSUME NEW k \in 0 .. n - 1, k \in G PROVE k + 1 \in G
  <2>1. PICK C : Upto(C, k)
    BY <1>2
  <2> DEFINE M == [j \in 0 .. k + 1 |-> IF j = 0 THEN leaf ELSE Combine(C[j - 1], proof[j])]
  <2>2. \A j \in 0 .. k : M[j] = C[j]
    BY <2>1
  <2>3. ASSUME NEW j \in 0 .. k + 1
        PROVE  M[j] = IF j = 0 THEN leaf ELSE Combine(M[j - 1], proof[j])
    <3>1. j # 0 => j - 1 \in 0 .. k
      OBVIOUS
    <3>2. j # 0 => M[j - 1] = C[j - 1]
      BY <2>2, <3>1
    <3>3. M[j] = IF j = 0 THEN leaf ELSE Combine(C[j - 1], proof[j])
      OBVIOUS
    <3> HIDE DEF M
    <3> QED
      BY <3>2, <3>3
  <2> HIDE DEF M
  <2>4. Upto(M, k + 1)
    BY <2>3
  <2> QED
    BY <2>4
<1>3. n \in G
  <2> HIDE DEF G
  <2>1. 0 .. n \subseteq G
    BY <1>1, <1>2, CountingUp
  <2> QED
    BY <2>1
<1>4. PICK C : Upto(C, n)
  BY <1>3
<1> DEFINE M == [k \in 0 .. n |-> C[k]]
<1>5. ASSUME NEW k \in 0 .. n
      PROVE  M[k] = IF k = 0 THEN leaf ELSE Combine(M[k - 1], proof[k])
  <2>1. k # 0 => k - 1 \in 0 .. n
    OBVIOUS
  <2> QED
    BY <1>4, <2>1
<1>6. AreRecomputed(M, leaf, proof)
  <2>1. M = [k \in 0 .. n |-> M[k]]
    OBVIOUS
  <2> HIDE DEF M
  <2> QED
    BY <1>5, <2>1 DEF AreRecomputed
<1>7. Recomputed(leaf, proof) = CHOOSE F : AreRecomputed(F, leaf, proof)
  BY DEF Recomputed, AreRecomputed
<1> QED
  BY <1>6, <1>7

\* The ancestor of a leaf of the batch is a node of its level.
LEMMA AncestorsAreNodes ==
  ASSUME NEW s, Level(s), NEW i \in 1 .. Len(s)
  PROVE  LET I == Ancestor(s, i - 1)
         IN  /\ I[0] = i - 1
             /\ \A k \in 1 .. Height(s) : I[k] = I[k - 1] \div 2
             /\ \A k \in 0 .. Height(s) : I[k] \in 0 .. Len(Levels(s)[k]) - 1
<1> DEFINE I == Ancestor(s, i - 1)
           L == Levels(s)
           H == Height(s)
           n == Len(s)
           G == {k \in 0 .. H : I[k] \in 0 .. Len(L[k]) - 1}
<1>1. n \in Nat \ {0}
  BY LengthIs
<1>2. /\ H \in 0 .. n
      /\ \A k \in 0 .. n : Level(L[k])
      /\ L[0] = s
      /\ \A k \in 1 .. H : Len(L[k - 1]) > 1 /\ L[k] = NextLevel(L[k - 1])
  BY HeightIs
<1>3. \A k \in 0 .. H : I[k] = IF k = 0 THEN i - 1 ELSE I[k - 1] \div 2
  BY <1>1, <1>2, AncestorsExist DEF AreAncestors
<1> HIDE DEF I, L, H
<1>4. I[0] = i - 1 /\ \A k \in 1 .. H : I[k] = I[k - 1] \div 2
  BY <1>1, <1>2, <1>3
<1>5. 0 \in G
  BY <1>1, <1>2, <1>4
<1>6. ASSUME NEW k \in 0 .. H - 1, k \in G PROVE k + 1 \in G
  <2>1. k \in 0 .. n /\ k + 1 \in 1 .. H /\ (k + 1) - 1 = k /\ k + 1 \in 0 .. H
    BY <1>1, <1>2
  <2>2. L[k + 1] = NextLevel(L[k]) /\ Level(L[k]) /\ I[k + 1] = I[k] \div 2
    BY <1>2, <1>4, <2>1
  <2>3. PICK m \in Nat \ {0} : m = Len(L[k])
    BY <2>2, LengthIs
  <2>4. Len(L[k + 1]) = (m + 1) \div 2
    BY <2>2, <2>3, NextLevelIs
  <2>5. PICK x \in 0 .. m - 1 : x = I[k]
    BY <1>6, <2>3
  <2>6. x \div 2 \in 0 .. (m + 1) \div 2 - 1
    BY HalfBelow
  <2> QED
    BY <2>1, <2>2, <2>4, <2>5, <2>6
<1>7. 0 .. H \subseteq G
  <2>1. H \in Nat
    BY <1>1, <1>2
  <2> HIDE DEF G
  <2> QED
    BY <1>5, <1>6, <2>1, CountingUp
<1> QED
  BY <1>4, <1>7 DEF I, L, H

-----------------------------------------------------------------------------
\* A node and its sibling make their parent.
LEMMA SiblingsMakeParent ==
  ASSUME NEW p, Level(p), NEW x \in 0 .. Len(p) - 1
  PROVE  Combine(p[x + 1], Sibling(p, x)) = NextLevel(p)[x \div 2 + 1]
<1>1. PICK n \in Nat \ {0} : n = Len(p)
  BY LengthIs
<1>2. PICK h \in Nat \ {0} : h = (n + 1) \div 2 /\ (2 * h = n \/ 2 * h = n + 1)
  BY Half
<1>3. \A i \in 1 .. h :
        NextLevel(p)[i] = HashPair(p[2 * i - 1], IF 2 * i <= n THEN p[2 * i] ELSE p[2 * i - 1])
  BY <1>1, <1>2, NextLevelIs
<1>4. \A i \in 1 .. 2 * h : Padded(p)[i] = IF i <= n THEN p[i] ELSE p[n]
  BY <1>1, <1>2, PaddedIs
<1>5. PICK a \in Nat : /\ a = x \div 2
                       /\ x % 2 = 0 => x = 2 * a
                       /\ x % 2 # 0 => x = 2 * a + 1
  BY <1>1, HalfDown
<1>6. x \in 0 .. n - 1
  BY <1>1
<1>7. CASE x % 2 = 0
  <2>1. x = 2 * a
    BY <1>5, <1>7
  <2>2. a + 1 \in 1 .. h /\ 2 * (a + 1) - 1 = x + 1 /\ 2 * (a + 1) = x + 2
    BY <1>2, <1>6, <2>1
  <2>3. NextLevel(p)[a + 1] = HashPair(p[x + 1], IF x + 2 <= n THEN p[x + 2] ELSE p[x + 1])
    BY <1>3, <2>2
  <2>4. Padded(p)[x + 2] = IF x + 2 <= n THEN p[x + 2] ELSE p[x + 1]
    <3>1. x + 2 \in 1 .. 2 * h
      BY <1>2, <1>6, <2>2
    <3>2. x + 2 <= n \/ n = x + 1
      BY <1>2, <1>6, <2>2
    <3> QED
      BY <1>4, <3>1, <3>2
  <2>5. Combine(p[x + 1], Sibling(p, x)) = HashPair(p[x + 1], Padded(p)[x + 2])
    BY <1>7 DEF Combine, Sibling
  <2> QED
    BY <1>5, <2>3, <2>4, <2>5
<1>8. CASE x % 2 # 0
  <2>1. x = 2 * a + 1
    BY <1>5, <1>8
  <2>2. a + 1 \in 1 .. h /\ 2 * (a + 1) - 1 = x /\ 2 * (a + 1) = x + 1 /\ x + 1 <= n
    BY <1>2, <1>6, <2>1
  <2>3. NextLevel(p)[a + 1] = HashPair(p[x], p[x + 1])
    BY <1>3, <2>2
  <2>4. Padded(p)[x] = p[x]
    <3>1. x \in 1 .. 2 * h /\ x <= n
      BY <1>2, <1>6, <2>1, <2>2
    <3> QED
      BY <1>4, <3>1
  <2>5. Combine(p[x + 1], Sibling(p, x)) = HashPair(Padded(p)[x], p[x + 1])
    BY <1>8 DEF Combine, Sibling
  <2> QED
    BY <1>5, <2>3, <2>4, <2>5
<1> QED
  BY <1>7, <1>8

\* A step of verify_proof loses nothing of the hash it starts from.
LEMMA CombineTells ==
  ASSUME NEW a, NEW b, NEW step
  PROVE  Combine(a, step) = Combine(b, step) <=> a = b
BY PairsAreFree DEF Combine

\* The proof for an index is accepted for the entry there and for no other.
LEMMA ProofIsExact ==
  ASSUME NEW s, Level(s), NEW i \in 1 .. Len(s), NEW x
  PROVE  VerifyProof(x, GenerateProof(s, i - 1), Root(s)) <=> x = s[i]
<1> DEFINE L == Levels(s)
           H == Height(s)
           I == Ancestor(s, i - 1)
           proof == GenerateProof(s, i - 1)
           C == Recomputed(x, proof)
           G == {k \in 0 .. H : C[k] = L[k][I[k] + 1] <=> x = s[i]}
<1>1. PICK n \in Nat \ {0} : n = Len(s)
  BY LengthIs
<1>2. /\ H \in 0 .. n /\ Len(L[H]) = 1
      /\ \A k \in 0 .. n : Level(L[k])
      /\ L[0] = s
      /\ \A k \in 1 .. H : L[k] = NextLevel(L[k - 1])
  BY <1>1, HeightIs
<1>3. /\ I[0] = i - 1
      /\ \A k \in 1 .. H : I[k] = I[k - 1] \div 2
      /\ \A k \in 0 .. H : I[k] \in 0 .. Len(L[k]) - 1
  BY AncestorsAreNodes
<1>4. proof = [k \in 1 .. H |-> Sibling(L[k - 1], I[k - 1])]
  BY DEF GenerateProof
<1>5. VerifyProof(x, proof, Root(s)) <=> L[H][1] = C[Len(proof)]
  BY DEF VerifyProof, Root
<1> HIDE DEF L, H, I, proof
<1>6. H \in Nat
  BY <1>1, <1>2
<1>7. Len(proof) = H
  BY <1>4, <1>6
<1>8. \A k \in 0 .. H : C[k] = IF k = 0 THEN x ELSE Combine(C[k - 1], proof[k])
  BY <1>6, <1>7, RecomputedExist DEF AreRecomputed
<1> HIDE DEF C
<1>9. 0 \in G
  <2>1. C[0] = x /\ L[0][I[0] + 1] = s[i]
    BY <1>1, <1>2, <1>3, <1>6, <1>8
  <2> QED
    BY <1>6, <2>1
<1>10. ASSUME NEW k \in 0 .. H - 1, k \in G PROVE k + 1 \in G
  <2>1. k \in 0 .. n /\ k \in 0 .. H /\ k + 1 \in 1 .. H /\ k + 1 \in 0 .. H /\ (k + 1) - 1 = k
        /\ k + 1 # 0
    BY <1>1, <1>2
  <2>2. C[k + 1] = Combine(C[k], proof[k + 1])
    BY <1>8, <2>1
  <2>3. proof[k + 1] = Sibling(L[k], I[k])
    BY <1>4, <2>1
  <2>4. Level(L[k]) /\ I[k] \in 0 .. Len(L[k]) - 1 /\ L[k + 1] = NextLevel(L[k])
        /\ I[k + 1] = I[k] \div 2
    BY <1>2, <1>3, <2>1
  <2>5. L[k + 1][I[k + 1] + 1] = Combine(L[k][I[k] + 1], Sibling(L[k], I[k]))
    BY <2>4, SiblingsMakeParent
  <2>6. C[k + 1] = L[k + 1][I[k + 1] + 1] <=> C[k] = L[k][I[k] + 1]
    BY <2>2, <2>3, <2>5, CombineTells
  <2> QED
    BY <1>10, <2>1, <2>6
<1>11. 0 .. H \subseteq G
  <2> HIDE DEF G
  <2> QED
    BY <1>6, <1>9, <1>10, CountingUp
<1>12. I[H] = 0
  <2>1. I[H] \in 0 .. Len(L[H]) - 1
    BY <1>3, <1>6
  <2> QED
    BY <1>2, <2>1
<1>13. C[H] = L[H][1] <=> x = s[i]
  <2>1. H \in G
    BY <1>6, <1>11
  <2>2. I[H] + 1 = 1
    BY <1>12
  <2> QED
    BY <2>1, <2>2
<1> QED
  BY <1>5, <1>7, <1>13 DEF proof

\* The nodes above the leaves are pairs, and no leaf is among them.
LEMMA LeavesAreNoPairs ==
  ASSUME NEW p, Level(p), NEW a \in Range(NextLevel(p))
  PROVE  a \notin Leaves
<1> DEFINE h == (Len(p) + 1) \div 2
<1>1. /\ Level(NextLevel(p)) /\ Len(NextLevel(p)) = h
      /\ \A i \in 1 .. h : \E b, c : NextLevel(p)[i] = HashPair(b, c)
  BY NextLevelIs
<1> HIDE DEF h
<1>2. DOMAIN NextLevel(p) = 1 .. h
  BY <1>1 DEF Level
<1>3. \E b, c : a = HashPair(b, c)
  BY <1>1, <1>2 DEF Range
<1> QED
  BY <1>3, LeafIsNoPair

\* A batch of entries.
Batch(s) == Level(s) /\ \A i \in 1 .. Len(s) : s[i] \in Leaves

\* It has an entry, and all of them are leaves.
LEMMA EntriesAreLeaves ==
  ASSUME NEW s, Batch(s)
  PROVE  Range(s) # {} /\ Range(s) \subseteq Leaves
<1>1. PICK n \in Nat \ {0} : n = Len(s)
  BY LengthIs DEF Batch
<1>2. DOMAIN s = 1 .. n /\ 1 \in 1 .. n
  BY <1>1 DEF Level, Batch
<1> QED
  BY <1>1, <1>2 DEF Range, Batch

\* Going down from one root, the levels of two trees have the same nodes.
LEMMA SameNodesBelow ==
  ASSUME NEW s, NEW t, Level(s), Level(t), Root(s) = Root(t)
  PROVE  \A d \in Nat : d <= Height(s) /\ d <= Height(t) =>
           Range(Levels(s)[Height(s) - d]) = Range(Levels(t)[Height(t) - d])
<1> DEFINE L == Levels(s)
           H == Height(s)
           M == Levels(t)
           J == Height(t)
           G == {d \in Nat : d <= H /\ d <= J => Range(L[H - d]) = Range(M[J - d])}
<1>1. /\ H \in Nat /\ J \in Nat /\ Len(L[H]) = 1 /\ Len(M[J]) = 1
      /\ \A k \in 0 .. H : Level(L[k])
      /\ \A k \in 0 .. J : Level(M[k])
      /\ \A k \in 1 .. H : L[k] = NextLevel(L[k - 1])
      /\ \A k \in 1 .. J : M[k] = NextLevel(M[k - 1])
  <2>1. PICK m \in Nat \ {0}, n \in Nat \ {0} : m = Len(s) /\ n = Len(t)
    BY LengthIs
  <2>2. /\ H \in 0 .. m /\ Len(L[H]) = 1
        /\ \A k \in 0 .. m : Level(L[k])
        /\ \A k \in 1 .. H : L[k] = NextLevel(L[k - 1])
    BY <2>1, HeightIs
  <2>3. /\ J \in 0 .. n /\ Len(M[J]) = 1
        /\ \A k \in 0 .. n : Level(M[k])
        /\ \A k \in 1 .. J : M[k] = NextLevel(M[k - 1])
    BY <2>1, HeightIs
  <2> HIDE DEF L, M, H, J
  <2> QED
    BY <2>2, <2>3
<1>2. L[H][1] = M[J][1]
  BY DEF Root
<1> HIDE DEF L, M, H, J
<1>3. 0 \in G
  <2>1. ASSUME NEW p, Level(p), Len(p) = 1 PROVE Range(p) = {p[1]}
    <3>1. DOMAIN p = {1}
      BY <2>1 DEF Level
    <3> QED
      BY <3>1 DEF Range
  <2>2. Level(L[H]) /\ Level(M[J]) /\ H - 0 = H /\ J - 0 = J
    BY <1>1
  <2> QED
    BY <1>1, <1>2, <2>1, <2>2
<1>4. ASSUME NEW d \in Nat, d \in G PROVE d + 1 \in G
  <2> SUFFICES ASSUME d + 1 <= H, d + 1 <= J
               PROVE  Range(L[H - (d + 1)]) = Range(M[J - (d + 1)])
    OBVIOUS
  <2> DEFINE k == H - (d + 1)
             j == J - (d + 1)
  <2>1. /\ k \in 0 .. H /\ k + 1 \in 1 .. H /\ H - d = k + 1 /\ (k + 1) - 1 = k
        /\ j \in 0 .. J /\ j + 1 \in 1 .. J /\ J - d = j + 1 /\ (j + 1) - 1 = j
        /\ d <= H /\ d <= J
    BY <1>1
  <2> HIDE DEF k, j
  <2>2. Range(L[k + 1]) = Range(M[j + 1])
    BY <1>4, <2>1
  <2>3. /\ L[k + 1] = NextLevel(L[k]) /\ M[j + 1] = NextLevel(M[j])
        /\ Level(L[k]) /\ Level(M[j])
    BY <1>1, <2>1
  <2>4. Range(L[k]) = Range(M[j])
    BY <2>2, <2>3, LevelAboveTellsNodes
  <2> QED
    BY <2>4 DEF k, j
<1>5. ASSUME NEW d \in Nat PROVE d \in G
  <2> HIDE DEF G
  <2>1. 0 .. d \subseteq G
    BY <1>3, <1>4, CountingUp
  <2> QED
    BY <2>1
<1> QED
  BY <1>5 DEF L, M, H, J

\* Trees with one root have one height.
LEMMA NoHigherTree ==
  ASSUME NEW s, NEW t, Batch(s), Batch(t), Root(s) = Root(t)
  PROVE  ~(Height(s) < Height(t))
<1> SUFFICES ASSUME Height(s) < Height(t) PROVE FALSE
  OBVIOUS
<1> DEFINE L == Levels(s)
           H == Height(s)
           M == Levels(t)
           J == Height(t)
<1>1. H \in Nat /\ J \in Nat /\ L[0] = s
      /\ (\A k \in 0 .. J : Level(M[k])) /\ (\A k \in 1 .. J : M[k] = NextLevel(M[k - 1]))
  <2>1. PICK m \in Nat \ {0}, n \in Nat \ {0} : m = Len(s) /\ n = Len(t)
    BY LengthIs DEF Batch
  <2>2. H \in 0 .. m /\ L[0] = s
    BY <2>1, HeightIs DEF Batch
  <2>3. /\ J \in 0 .. n
        /\ \A k \in 0 .. n : Level(M[k])
        /\ \A k \in 1 .. J : M[k] = NextLevel(M[k - 1])
    BY <2>1, HeightIs DEF Batch
  <2> HIDE DEF L, M, H, J
  <2> QED
    BY <2>2, <2>3
<1>2. H <= H /\ H <= J => Range(L[H - H]) = Range(M[J - H])
  BY <1>1, SameNodesBelow DEF Batch
<1>3. H < J
  OBVIOUS
<1> HIDE DEF L, M, H, J
<1>4. /\ H <= H /\ H <= J /\ H - H = 0 /\ J - H \in 1 .. J
      /\ (J - H) - 1 \in 0 .. J
  BY <1>1, <1>3
<1>5. Range(s) = Range(NextLevel(M[(J - H) - 1])) /\ Level(M[(J - H) - 1])
  BY <1>1, <1>2, <1>4
<1>6. PICK a \in Range(s) : a \in Leaves
  BY EntriesAreLeaves
<1> QED
  BY <1>5, <1>6, LeavesAreNoPairs

\* Trees with one root have the same entries.
LEMMA RootTellsEntries ==
  ASSUME NEW s, NEW t, Batch(s), Batch(t), Root(s) = Root(t)
  PROVE  Height(s) = Height(t) /\ Range(s) = Range(t)
<1>1. PICK m \in Nat \ {0}, n \in Nat \ {0} : m = Len(s) /\ n = Len(t)
  BY LengthIs DEF Batch
<1>2. Height(s) \in 0 .. m /\ Levels(s)[0] = s /\ Height(t) \in 0 .. n /\ Levels(t)[0] = t
  BY <1>1, HeightIs DEF Batch
<1>3. Height(s) = Height(t)
  <2>1. ~(Height(s) < Height(t)) /\ ~(Height(t) < Height(s))
    BY NoHigherTree
  <2> QED
    BY <1>1, <1>2, <2>1
<1>4. Height(s) \in Nat /\ Height(s) <= Height(s) /\ Height(s) - Height(s) = 0
  BY <1>1, <1>2
<1>5. Range(Levels(s)[0]) = Range(Levels(t)[0])
  BY <1>3, <1>4, SameNodesBelow DEF Batch
<1> QED
  BY <1>2, <1>3, <1>5

-----------------------------------------------------------------------------
\* Of one length, they have them in one order.
LEMMA RootTellsOrder ==
  ASSUME NEW s, NEW t, Batch(s), Batch(t), Root(s) = Root(t), Len(s) = Len(t)
  PROVE  s = t
<1> DEFINE L == Levels(s)
           H == Height(s)
           M == Levels(t)
           Long == {k \in 0 .. H : Len(L[k]) = Len(M[k])}
           Same == {d \in Nat : d <= H => L[H - d] = M[H - d]}
<1>1. PICK n \in Nat \ {0} : n = Len(s) /\ n = Len(t)
  BY LengthIs DEF Batch
<1>2. Height(t) = H
  BY RootTellsEntries
<1>3. /\ H \in 0 .. n /\ Len(L[H]) = 1 /\ Len(M[H]) = 1
      /\ \A k \in 0 .. n : Level(L[k]) /\ Level(M[k])
      /\ L[0] = s /\ M[0] = t
      /\ \A k \in 1 .. H : L[k] = NextLevel(L[k - 1]) /\ M[k] = NextLevel(M[k - 1])
  BY <1>1, <1>2, HeightIs DEF Batch
<1>4. L[H][1] = M[H][1]
  BY <1>2 DEF Root
<1> HIDE DEF L, M, H
<1>5. H \in Nat /\ \A k \in 0 .. H : k \in 0 .. n
  BY <1>3
<1>6. 0 \in Long
  BY <1>1, <1>3, <1>5
<1>7. ASSUME NEW k \in 0 .. H - 1, k \in Long PROVE k + 1 \in Long
  <2>1. k \in 0 .. H /\ k + 1 \in 1 .. H /\ (k + 1) - 1 = k /\ k + 1 \in 0 .. H
    BY <1>5
  <2>2. /\ Level(L[k]) /\ Level(M[k]) /\ Len(L[k]) = Len(M[k])
        /\ L[k + 1] = NextLevel(L[k]) /\ M[k + 1] = NextLevel(M[k])
    BY <1>3, <1>5, <1>7, <2>1
  <2>3. /\ Len(L[k + 1]) = (Len(L[k]) + 1) \div 2
        /\ Len(M[k + 1]) = (Len(M[k]) + 1) \div 2
    BY <2>2, NextLevelIs
  <2> QED
    BY <2>1, <2>2, <2>3
<1>8. 0 .. H \subseteq Long
  <2> HIDE DEF Long
  <2> QED
    BY <1>5, <1>6, <1>7, CountingUp
<1>9. 0 \in Same
  <2>1. Level(L[H]) /\ Level(M[H])
    BY <1>3
  <2>2. L[H] = [i \in 1 .. 1 |-> L[H][i]] /\ M[H] = [i \in 1 .. 1 |-> M[H][i]]
    BY <1>3, <2>1 DEF Level
  <2>3. \A i \in 1 .. 1 : i = 1
    OBVIOUS
  <2>4. L[H] = M[H] /\ H - 0 = H
    BY <1>4, <1>5, <2>2, <2>3
  <2> QED
    BY <2>4
<1>10. ASSUME NEW d \in 0 .. H - 1, d \in Same PROVE d + 1 \in Same
  <2> DEFINE k == H - (d + 1)
  <2>1. /\ k \in 0 .. H /\ k + 1 \in 1 .. H /\ H - d = k + 1 /\ (k + 1) - 1 = k
        /\ d \in Nat /\ d <= H /\ d + 1 \in Nat
    BY <1>5
  <2> HIDE DEF k
  <2>2. L[k + 1] = M[k + 1]
    BY <1>10, <2>1
  <2>3. /\ L[k + 1] = NextLevel(L[k]) /\ M[k + 1] = NextLevel(M[k])
        /\ Level(L[k]) /\ Level(M[k]) /\ Len(L[k]) = Len(M[k])
    BY <1>3, <1>5, <1>8, <2>1
  <2>4. L[k] = M[k]
    BY <2>2, <2>3, LevelAboveTellsOrder
  <2> QED
    BY <2>1, <2>4 DEF k
<1>11. H \in Same
  <2> HIDE DEF Same
  <2>1. 0 .. H \subseteq Same
    BY <1>5, <1>9, <1>10, CountingUp
  <2> QED
    BY <1>5, <2>1
<1>12. L[0] = M[0]
  <2>1. H - H = 0 /\ H <= H
    BY <1>5
  <2> QED
    BY <1>11, <2>1
<1> QED
  BY <1>3, <1>12

\* Whatever proof is shown, and of whatever length: if verify_proof accepts it for an
\* entry and the root of a batch, the entry is in the batch.
THEOREM AcceptedMeansIncluded ==
  ASSUME NEW s, Batch(s), NEW x \in Leaves, NEW proof, Len(proof) \in Nat,
         VerifyProof(x, proof, Root(s))
  PROVE  x \in Range(s)
<1> DEFINE L == Levels(s)
           H == Height(s)
           n == Len(proof)
           C == Recomputed(x, proof)
           G == {d \in Nat : d <= H /\ C[n - d] \in Range(L[H - d])}
<1>1. /\ H \in Nat /\ Len(L[H]) = 1 /\ L[0] = s
      /\ \A k \in 0 .. H : Level(L[k])
      /\ \A k \in 1 .. H : L[k] = NextLevel(L[k - 1])
  <2>1. PICK m \in Nat \ {0} : m = Len(s)
    BY LengthIs DEF Batch
  <2>2. /\ H \in 0 .. m /\ Len(L[H]) = 1 /\ L[0] = s
        /\ \A k \in 0 .. m : Level(L[k])
        /\ \A k \in 1 .. H : L[k] = NextLevel(L[k - 1])
    BY <2>1, HeightIs DEF Batch
  <2> HIDE DEF L, H
  <2> QED
    BY <2>2
<1>2. C[n] = L[H][1]
  BY DEF VerifyProof, Root
<1>3. \A k \in 0 .. n : C[k] = IF k = 0 THEN x ELSE Combine(C[k - 1], proof[k])
  BY RecomputedExist DEF AreRecomputed
<1>4. n \in Nat
  OBVIOUS
<1> HIDE DEF L, H, n, C
<1>5. 0 \in G
  <2>1. Level(L[H])
    BY <1>1
  <2>2. DOMAIN L[H] = 1 .. 1
    BY <1>1, <2>1 DEF Level
  <2>3. L[H][1] \in Range(L[H])
    BY <2>2 DEF Range
  <2>4. n - 0 = n /\ H - 0 = H /\ 0 <= H
    BY <1>1, <1>4
  <2> QED
    BY <1>2, <2>3, <2>4
<1>6. ASSUME NEW d \in 0 .. n - 1, d \in G PROVE d + 1 \in G
  <2> DEFINE j == n - (d + 1)
             k == H - (d + 1)
  <2>1. /\ j \in 0 .. n /\ j + 1 \in 0 .. n /\ j + 1 # 0 /\ (j + 1) - 1 = j /\ n - d = j + 1
        /\ k \in Int /\ H - d = k + 1 /\ (k + 1) - 1 = k /\ d <= H /\ d + 1 \in Nat
    BY <1>1, <1>4, <1>6
  <2>2. k + 1 \in 0 .. H /\ (k + 1 # 0 => k \in 0 .. H /\ k + 1 \in 1 .. H /\ d + 1 <= H)
    BY <1>1, <1>6
  <2> HIDE DEF j, k
  <2>3. C[j + 1] \in Range(L[k + 1])
    BY <1>6, <2>1
  <2>4. C[j + 1] = Combine(C[j], proof[j + 1])
    BY <1>3, <2>1
  <2>5. \E b : C[j + 1] = HashPair(b, C[j]) \/ C[j + 1] = HashPair(C[j], b)
    BY <2>4 DEF Combine
  <2>6. k + 1 # 0
    <3> SUFFICES ASSUME k + 1 = 0 PROVE FALSE
      OBVIOUS
    <3>1. C[j + 1] \in Leaves
      BY <1>1, <2>3, EntriesAreLeaves
    <3> QED
      BY <2>5, <3>1, LeafIsNoPair
  <2>7. L[k + 1] = NextLevel(L[k]) /\ Level(L[k])
    BY <1>1, <2>1, <2>2, <2>6
  <2>8. C[j] \in Range(L[k])
    BY <2>3, <2>5, <2>7, NodesArePaired
  <2> QED
    BY <2>1, <2>2, <2>6, <2>8 DEF j, k
<1>7. n \in G
  <2> HIDE DEF G
  <2>1. 0 .. n \subseteq G
    BY <1>4, <1>5, <1>6, CountingUp
  <2> QED
    BY <1>4, <2>1
<1>8. n <= H /\ x \in Range(L[H - n])
  <2>1. n - n = 0 /\ C[0] = x
    BY <1>3, <1>4
  <2> QED
    BY <1>7, <2>1
<1>9. H - n = 0
  <2> SUFFICES ASSUME H - n # 0 PROVE FALSE
    OBVIOUS
  <2>1. H - n \in 1 .. H /\ (H - n) - 1 \in 0 .. H
    BY <1>1, <1>4, <1>8
  <2>2. L[H - n] = NextLevel(L[(H - n) - 1]) /\ Level(L[(H - n) - 1])
    BY <1>1, <2>1
  <2> QED
    BY <1>8, <2>2, LeavesAreNoPairs
<1> QED
  BY <1>1, <1>8, <1>9

\* The batches of the model are batches.
LEMMA BatchesAre == \A s \in Batches : Batch(s)
<1> SUFFICES ASSUME NEW s \in Batches PROVE Batch(s)
  OBVIOUS
<1>1. PICK n \in 1 .. MaxLeaves : s \in [1 .. n -> Leaves]
  BY DEF Batches
<1>2. n \in Nat \ {0}
  BY MerkleAssumption
<1>3. Len(s) = n /\ s = [i \in 1 .. n |-> s[i]]
  BY <1>1, <1>2
<1> QED
  BY <1>1, <1>2, <1>3 DEF Batch, Level

\* ProofsAreExact for batches of any length over any entries: generate_proof's proof for
\* an index convinces verify_proof of the entry there, and of no other.
THEOREM ProofsConvinceOfTheirEntry == ProofsAreExact
BY BatchesAre, ProofIsExact DEF ProofsAreExact, Batch

\* RootIsBinding for batches of any length over any entries: compute_root tells the
\* entries, and with their number the order.
THEOREM RootsBind == RootIsBinding
BY BatchesAre, RootTellsEntries, RootTellsOrder DEF RootIsBinding

\* RootsStandForTheirEntries: what the server keeps of a batch fixes its entries, and
\* the proofs that are checked against it prove what they are made for.
THEOREM RootsKeepTheirMeaning == Spec => []RootsStandForTheirEntries
<1>1. RootsStandForTheirEntries
  BY RootsBind, ProofsConvinceOfTheirEntry DEF RootsStandForTheirEntries
<1> QED
  BY <1>1, PTL

(***************************************************************************)
(* PolicyGate                                                              *)
(***************************************************************************)
\* A request on its way to its consultation and in it; one that holds the event
\* loop, if it is a coroutine.
Asking == {"queued", "lookup", "limit", "count", "call", "log"}
Midway == {"lookup", "limit", "count", "call", "log", "act"}

\* Nothing is logged of a request, and no failure of it swallowed, before its
\* consultation ends.
LogIsLast(q, logged) == q.pc \in Asking => logged = {} /\ ~q.open

\* Who is asked is the engine the request came in under.
AsksItsEngine(q) == q.pc \in {"limit", "count", "call", "log"} /\ q.from # "none" => q.url = q.from

\* What is logged is an answer, and what passes or refuses the request is what is
\* logged of it.
Answered(q, logged) ==
  /\ q.pc = "log" => q.answer \in Answers
  /\ q.pc \in {"act", "done"} /\ q.from # "none" /\ ~q.open
       => q.url = q.from /\ logged = {"permit"}
  /\ q.pc = "refused" => logged = {q.answer} /\ q.answer # "permit"

\* The count a request is about to write fits the window it read.
CountFits(q) == q.pc = "count" => NewWindow(q.seen, q.at) \/ q.seen.count < Limit

ReqInv(q, logged) ==
  LogIsLast(q, logged) /\ AsksItsEngine(q) /\ Answered(q, logged) /\ CountFits(q)

\* A request that is still held to the engine it came in under finds it
\* registered.
FromIsRegistered == \A r \in Requests : req[r].from # "none" => req[r].from = engine

\* The event loop is held by a coroutine in the middle of its handler.
LoopIsHeldMidway == \A r \in Requests : loop = r => req[r].pc \in Midway

\* The inductive invariant of the consultation.
GateInv ==
  /\ GateTypeOK
  /\ \A r \in Requests : ReqInv(req[r], log[r])
  /\ FromIsRegistered
  /\ LoopIsHeldMidway

\* The shapes of a request and of a window.
Request == [pc: {"queued", "lookup", "limit", "count", "call", "log", "act", "refused", "done",
                 "failed"},
            url: Engines \cup {"none"},
            seen: [count: 0 .. Limit, start: 0 .. MaxTime + 1], at: 0 .. now,
            answer: Answers \cup {"none"}, from: Engines \cup {"none"}, open: BOOLEAN]
Window == [count: 0 .. Limit, start: 0 .. MaxTime + 1]

\* Nobody has arrived: the invariant holds.
LEMMA GateInitially == GateInit => GateInv
<1> SUFFICES ASSUME GateInit PROVE GateInv
  OBVIOUS
<1> USE GateAssumption
<1>1. NoEntry \in Window
  BY DEF NoEntry, Window
<1>2. 0 \in 0 .. now /\ now \in 0 .. MaxTime
  BY DEF GateInit
<1>3. New \in Request
  BY <1>1, <1>2 DEF New, Request, Window
<1>4. GateTypeOK
  BY <1>1, <1>2, <1>3 DEF GateInit, GateTypeOK, Request, Window
<1>5. \A r \in Requests : ReqInv(New, {})
  BY DEF New, ReqInv, LogIsLast, AsksItsEngine, Answered, CountFits
<1>6. FromIsRegistered /\ LoopIsHeldMidway
  BY DEF GateInit, New, FromIsRegistered, LoopIsHeldMidway
<1> QED
  BY <1>4, <1>5, <1>6 DEF GateInit, GateInv

\* A step of one request preserves the invariant when the request itself comes
\* out right, keeps or loses its engine, and leaves the loop to others unless it
\* is in the middle of its handler.
LEMMA RequestMoves ==
  ASSUME GateInv, NEW r \in Requests, NEW q \in Request,
         NEW logged \in SUBSET Answers,
         req' = [req EXCEPT ![r] = q], log' = [log EXCEPT ![r] = logged],
         ReqInv(q, logged),
         q.from \in {req[r].from, engine, "none"},
         loop' \in Coroutines \cup {NoReq},
         loop' \in {loop, r, NoReq},
         loop' = r => q.pc \in Midway,
         limiter' \in Window,
         UNCHANGED <<engine, now>>
  PROVE GateInv'
<1>1. GateTypeOK'
  BY DEF GateInv, GateTypeOK, Request, Window
<1>2. \A s \in Requests : ReqInv(req'[s], log'[s])
  BY DEF GateInv, GateTypeOK
<1>3. FromIsRegistered'
  BY DEF GateInv, GateTypeOK, FromIsRegistered
<1>4. LoopIsHeldMidway'
  BY GateAssumption DEF GateInv, GateTypeOK, LoopIsHeldMidway
<1> QED
  BY <1>1, <1>2, <1>3, <1>4 DEF GateInv, ReqInv, LogIsLast, AsksItsEngine, Answered, CountFits,
                                NewWindow

\* An engine that changes forgets whom the requests came in under, and nothing
\* else of them.
LEMMA EngineMoves ==
  ASSUME GateInv, engine' \in Engines \cup {"none"}, req' = Forget,
         UNCHANGED <<loop, limiter, log, now>>
  PROVE GateInv'
<1>1. ASSUME NEW r \in Requests
      PROVE /\ req'[r] \in Request /\ req'[r].from = "none" /\ req'[r].pc = req[r].pc
            /\ ReqInv(req'[r], log[r])
  <2>1. req[r] \in Request /\ req'[r] = [req[r] EXCEPT !.from = "none"]
    BY DEF GateInv, GateTypeOK, Request, Forget
  <2>2. /\ req'[r] \in Request /\ req'[r].from = "none" /\ req'[r].pc = req[r].pc
        /\ req'[r].open = req[r].open /\ req'[r].answer = req[r].answer
        /\ req'[r].seen = req[r].seen /\ req'[r].at = req[r].at
    BY <2>1 DEF Request
  <2> QED
    BY <2>2 DEF GateInv, ReqInv, LogIsLast, AsksItsEngine, Answered, CountFits, NewWindow
<1>2. GateTypeOK'
  BY <1>1 DEF GateInv, GateTypeOK, Request, Forget
<1>3. FromIsRegistered' /\ LoopIsHeldMidway'
  BY <1>1 DEF GateInv, FromIsRegistered, LoopIsHeldMidway
<1> QED
  BY <1>1, <1>2, <1>3 DEF GateInv, ReqInv, LogIsLast, AsksItsEngine, Answered, CountFits,
                          NewWindow

\* Every step preserves it.
LEMMA GateStep == GateInv /\ [GateNext]_gateVars => GateInv'
<1> SUFFICES ASSUME GateInv, [GateNext]_gateVars PROVE GateInv'
  OBVIOUS
<1> USE GateAssumption
<1>0. /\ \A r \in Requests : req[r] \in Request /\ log[r] \in SUBSET Answers
                             /\ ReqInv(req[r], log[r])
      /\ limiter \in Window /\ loop \in Coroutines \cup {NoReq}
      /\ engine \in Engines \cup {"none"}
      /\ \A r \in Requests : Released(r) \in {loop, NoReq} /\ Released(r) # r
      /\ log \in [Requests -> SUBSET Answers]
  BY DEF GateInv, GateTypeOK, Request, Window, Released
<1>1. CASE GateTick
  <2>1. GateTypeOK'
    BY <1>1 DEF GateTick, Later, GateInv, GateTypeOK
  <2> QED
    BY <1>1, <2>1 DEF GateTick, Later, GateInv, FromIsRegistered, LoopIsHeldMidway, ReqInv,
                      LogIsLast, AsksItsEngine, Answered, CountFits, NewWindow
<1>2. ASSUME NEW e \in Engines, RegisterEngine(e)
      PROVE GateInv'
  BY <1>2, EngineMoves DEF RegisterEngine
<1>3. CASE DeactivateEngine
  BY <1>3, EngineMoves DEF DeactivateEngine
<1>4. ASSUME NEW r \in Requests, NEW hasOrg \in BOOLEAN, Arrive(r, hasOrg)
      PROVE GateInv'
  <2> DEFINE q == [req[r] EXCEPT !.pc = IF hasOrg THEN "lookup" ELSE "act",
                                 !.from = IF hasOrg THEN engine ELSE "none",
                                 !.answer = IF hasOrg THEN "none" ELSE "permit"]
  <2>1. /\ q \in Request /\ q.pc = (IF hasOrg THEN "lookup" ELSE "act")
        /\ q.from = (IF hasOrg THEN engine ELSE "none") /\ q.open = req[r].open
    BY <1>0 DEF Request, Answers
  <2>2. /\ req' = [req EXCEPT ![r] = q] /\ log' = [log EXCEPT ![r] = log[r]]
        /\ loop' = (IF r \in Coroutines THEN r ELSE loop) /\ req[r].pc = "queued"
        /\ UNCHANGED <<engine, limiter, now>>
    BY <1>0, <1>4 DEF Arrive, GateInv, GateTypeOK
  <2> HIDE DEF q
  <2>3. ReqInv(q, log[r])
    BY <1>0, <2>1, <2>2 DEF ReqInv, LogIsLast, AsksItsEngine, Answered, CountFits, Asking
  <2>4. loop # r
    BY <2>2 DEF GateInv, LoopIsHeldMidway, Midway
  <2> QED
    BY <1>0, <2>1, <2>2, <2>3, <2>4, RequestMoves DEF Midway
<1>5. ASSUME NEW r \in Requests, LookUpEngine(r)
      PROVE GateInv'
  <2> DEFINE q == [req[r] EXCEPT !.url = engine,
                                 !.pc = IF engine = "none" THEN "log" ELSE "limit",
                                 !.answer = IF engine = "none" THEN "permit" ELSE "none"]
  <2>1. /\ q \in Request /\ q.pc = (IF engine = "none" THEN "log" ELSE "limit")
        /\ q.url = engine /\ q.answer = (IF engine = "none" THEN "permit" ELSE "none")
        /\ q.from = req[r].from /\ q.open = req[r].open
    BY <1>0 DEF Request, Answers
  <2>2. /\ req' = [req EXCEPT ![r] = q] /\ log' = [log EXCEPT ![r] = log[r]]
        /\ req[r].pc = "lookup" /\ UNCHANGED <<engine, loop, limiter, now>>
    BY <1>0, <1>5 DEF LookUpEngine, GateInv, GateTypeOK
  <2> HIDE DEF q
  <2>3. ReqInv(q, log[r])
    BY <1>0, <2>1, <2>2 DEF ReqInv, LogIsLast, AsksItsEngine, Answered, CountFits, Asking,
                            Answers, GateInv, FromIsRegistered
  <2> QED
    BY <1>0, <2>1, <2>2, <2>3, RequestMoves DEF Midway
<1>6. ASSUME NEW r \in Requests, RateLimitRead(r)
      PROVE GateInv'
  <2> DEFINE pass == [req[r] EXCEPT !.pc = "count", !.seen = limiter, !.at = now]
             full == [req[r] EXCEPT !.pc = "log", !.answer = "unavailable"]
  <2>1. /\ pass \in Request /\ pass.pc = "count" /\ pass.seen = limiter /\ pass.at = now
        /\ pass.from = req[r].from /\ pass.open = req[r].open /\ pass.url = req[r].url
    <3>1. now \in 0 .. now /\ limiter \in Window
      BY <1>0 DEF GateInv, GateTypeOK
    <3> QED
      BY <1>0, <3>1 DEF Request, Window
  <2>2. /\ full \in Request /\ full.pc = "log" /\ full.answer = "unavailable"
        /\ full.from = req[r].from /\ full.open = req[r].open /\ full.url = req[r].url
    BY <1>0 DEF Request, Answers
  <2>3. /\ \/ /\ req' = [req EXCEPT ![r] = pass]
              /\ NewWindow(limiter, now) \/ limiter.count < Limit
           \/ req' = [req EXCEPT ![r] = full]
        /\ log' = [log EXCEPT ![r] = log[r]] /\ req[r].pc = "limit"
        /\ UNCHANGED <<engine, loop, limiter, now>>
    <3>1. log' = [log EXCEPT ![r] = log[r]] /\ UNCHANGED <<engine, loop, limiter, now>>
      BY <1>0, <1>6 DEF RateLimitRead, GateInv, GateTypeOK
    <3>2. /\ req[r].pc = "limit"
          /\ req' = IF NewWindow(limiter, now) \/ limiter.count < Limit
                    THEN [req EXCEPT ![r] = pass] ELSE [req EXCEPT ![r] = full]
      BY <1>6 DEF RateLimitRead
    <3> QED
      BY <3>1, <3>2
  <2> HIDE DEF pass, full
  <2>4. NewWindow(limiter, now) \/ limiter.count < Limit => ReqInv(pass, log[r])
    BY <1>0, <2>1, <2>3 DEF ReqInv, LogIsLast, AsksItsEngine, Answered, CountFits, Asking
  <2>5. ReqInv(full, log[r])
    BY <1>0, <2>2, <2>3 DEF ReqInv, LogIsLast, AsksItsEngine, Answered, CountFits, Asking,
                            Answers
  <2>6. CASE req' = [req EXCEPT ![r] = full]
    BY <1>0, <2>2, <2>3, <2>5, <2>6, RequestMoves DEF Midway
  <2>7. CASE /\ req' = [req EXCEPT ![r] = pass]
             /\ NewWindow(limiter, now) \/ limiter.count < Limit
    BY <1>0, <2>1, <2>3, <2>4, <2>7, RequestMoves DEF Midway
  <2> QED
    BY <2>3, <2>6, <2>7
<1>7. ASSUME NEW r \in Requests, RateLimitWrite(r)
      PROVE GateInv'
  <2> DEFINE q == [req[r] EXCEPT !.pc = "call"]
  <2>1. /\ q \in Request /\ q.pc = "call"
        /\ q.from = req[r].from /\ q.open = req[r].open /\ q.url = req[r].url
    BY <1>0 DEF Request
  <2>2. /\ req' = [req EXCEPT ![r] = q] /\ log' = [log EXCEPT ![r] = log[r]]
        /\ req[r].pc = "count" /\ limiter' = Counted(r) /\ UNCHANGED <<engine, loop, now>>
    BY <1>0, <1>7 DEF RateLimitWrite, GateInv, GateTypeOK
  <2>3. Counted(r) \in Window
    <3>1. req[r].seen \in Window /\ req[r].at \in 0 .. MaxTime + 1
      BY <1>0 DEF Request, Window, GateInv, GateTypeOK
    <3>2. NewWindow(req[r].seen, req[r].at) \/ req[r].seen.count < Limit
      BY <1>0, <2>2 DEF ReqInv, CountFits
    <3>3. \A w \in Window : w.count < Limit => [w EXCEPT !.count = @ + 1] \in Window
      BY DEF Window
    <3> QED
      BY <3>1, <3>2, <3>3 DEF Counted, Window
  <2> HIDE DEF q
  <2>4. ReqInv(q, log[r])
    BY <1>0, <2>1, <2>2 DEF ReqInv, LogIsLast, AsksItsEngine, Answered, CountFits, Asking
  <2> QED
    BY <1>0, <2>1, <2>2, <2>3, <2>4, RequestMoves DEF Midway
<1>8. ASSUME NEW r \in Requests, NEW d \in Answers,
             EngineAnswers(r, d) \/ (EngineTimeout(r) /\ d = "unavailable")
      PROVE GateInv'
  <2> DEFINE q == [req[r] EXCEPT !.pc = "log", !.answer = d]
  <2>1. /\ q \in Request /\ q.pc = "log" /\ q.answer = d
        /\ q.from = req[r].from /\ q.open = req[r].open /\ q.url = req[r].url
    BY <1>0 DEF Request
  <2>2. /\ req' = [req EXCEPT ![r] = q] /\ log' = [log EXCEPT ![r] = log[r]]
        /\ req[r].pc = "call" /\ UNCHANGED <<engine, loop, limiter, now>>
    BY <1>0, <1>8 DEF EngineAnswers, EngineTimeout, GateInv, GateTypeOK
  <2> HIDE DEF q
  <2>3. ReqInv(q, log[r])
    BY <1>0, <2>1, <2>2 DEF ReqInv, LogIsLast, AsksItsEngine, Answered, CountFits, Asking
  <2> QED
    BY <1>0, <2>1, <2>2, <2>3, RequestMoves DEF Midway
<1>9. ASSUME NEW r \in Requests, LogConsultation(r)
      PROVE GateInv'
  <2> DEFINE q == [req[r] EXCEPT !.pc = Decided(r)]
  <2>1. /\ q \in Request /\ q.pc = Decided(r) /\ q.answer = req[r].answer
        /\ q.from = req[r].from /\ q.open = req[r].open /\ q.url = req[r].url
    BY <1>0 DEF Request, Decided
  <2>2. /\ req' = [req EXCEPT ![r] = q] /\ log' = [log EXCEPT ![r] = log[r] \cup {req[r].answer}]
        /\ req[r].pc = "log" /\ UNCHANGED <<engine, limiter, now>>
        /\ loop' = (IF Decided(r) = "refused" THEN Released(r) ELSE loop)
    BY <1>0, <1>9 DEF LogConsultation, GateInv, GateTypeOK
  <2> HIDE DEF q
  <2>3. log[r] = {} /\ ~req[r].open /\ req[r].answer \in Answers
    BY <1>0, <2>2 DEF ReqInv, LogIsLast, Answered, Asking
  <2>4. ReqInv(q, log[r] \cup {req[r].answer})
    BY <1>0, <2>1, <2>2, <2>3 DEF ReqInv, LogIsLast, AsksItsEngine, Answered, CountFits, Asking,
                                  Decided
  <2>5. loop' = r => q.pc \in Midway
    BY <1>0, <2>1, <2>2 DEF Decided, Midway
  <2> QED
    BY <1>0, <2>1, <2>2, <2>3, <2>4, <2>5, RequestMoves
<1>10. ASSUME NEW r \in Requests, NEW logged \in BOOLEAN, InfrastructureFails(r, logged)
       PROVE GateInv'
  <2> DEFINE q == [req[r] EXCEPT !.pc = "act", !.open = TRUE]
             l == IF logged THEN log[r] \cup {req[r].answer} ELSE log[r]
  <2>1. q \in Request /\ q.pc = "act" /\ q.from = req[r].from /\ q.open
    BY <1>0 DEF Request
  <2>2. /\ req' = [req EXCEPT ![r] = q] /\ log' = [log EXCEPT ![r] = l]
        /\ UNCHANGED <<engine, limiter, loop, now>>
        /\ logged => req[r].pc = "log"
    BY <1>0, <1>10 DEF InfrastructureFails, GateInv, GateTypeOK
  <2>3. l \in SUBSET Answers
    BY <1>0, <2>2 DEF ReqInv, Answered
  <2> HIDE DEF q, l
  <2>4. ReqInv(q, l)
    BY <2>1 DEF ReqInv, LogIsLast, AsksItsEngine, Answered, CountFits, Asking
  <2> QED
    BY <1>0, <2>1, <2>2, <2>3, <2>4, RequestMoves DEF Midway
<1>11. ASSUME NEW r \in Requests, NEW ok \in BOOLEAN, Act(r, ok)
       PROVE GateInv'
  <2> DEFINE q == [req[r] EXCEPT !.pc = IF ok THEN "done" ELSE "failed"]
  <2>1. /\ q \in Request /\ q.pc \in {"done", "failed"} /\ q.from = req[r].from
        /\ q.open = req[r].open /\ q.url = req[r].url
    BY <1>0 DEF Request
  <2>2. /\ req' = [req EXCEPT ![r] = q] /\ log' = [log EXCEPT ![r] = log[r]]
        /\ req[r].pc = "act" /\ loop' = Released(r) /\ UNCHANGED <<engine, limiter, now>>
    BY <1>0, <1>11 DEF Act, GateInv, GateTypeOK
  <2> HIDE DEF q
  <2>3. ReqInv(q, log[r])
    BY <1>0, <2>1, <2>2 DEF ReqInv, LogIsLast, AsksItsEngine, Answered, CountFits, Asking
  <2> QED
    BY <1>0, <2>1, <2>2, <2>3, RequestMoves
<1>12. CASE UNCHANGED gateVars
  BY <1>12 DEF gateVars, GateInv, GateTypeOK, FromIsRegistered, LoopIsHeldMidway, ReqInv,
               LogIsLast, AsksItsEngine, Answered, CountFits, NewWindow
<1>13. "unavailable" \in Answers
  BY DEF Answers
<1> QED
  BY <1>1, <1>2, <1>3, <1>4, <1>5, <1>6, <1>7, <1>8, <1>9, <1>10, <1>11, <1>12, <1>13
  DEF GateNext, Advance

\* The invariant of the consultation holds in every reachable state.
LEMMA GateInvariant == GateSpec => []GateInv
BY GateInitially, GateStep, PTL DEF GateSpec

\* Type correctness: in particular no interleaving of _check_rate_limit writes a
\* count above the limit into a window.
THEOREM GateTypeCorrect == GateSpec => []GateTypeOK
BY GateInvariant, PTL DEF GateInv

\* With any number of threads and coroutines, engines that change under them and
\* database failures at any point, an action under a registered engine has the
\* permit of that engine in the log, and a refusal has its refusal there.
THEOREM OutcomesStandInTheLog == GateSpec => []OutcomesAreLogged
<1>1. GateInv => OutcomesAreLogged
  BY DEF GateInv, ReqInv, Answered, LoopIsHeldMidway, Midway, OutcomesAreLogged
<1> QED
  BY <1>1, GateInvariant, PTL
=============================================================================
