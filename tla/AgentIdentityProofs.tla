------------------------ MODULE AgentIdentityProofs -------------------------
(***************************************************************************)
(* Proofs about AgentIdentity, for every number of keys, requests and      *)
(* challenges: wherever a key of an agent may be found (its row, the key   *)
(* table, the cache, a request in progress), it was bound to that agent.   *)
(***************************************************************************)
EXTENDS AgentIdentity, TLAPS

\* The public_key column, the rows of the key table and the cached key of an
\* agent are keys that were bound to it.
StoredKeysAreBound ==
  \A a \in Keys :
    /\ agent[a].exists => agent[a].publicKey \in bound[a]
    /\ \A k \in Keys : keyRow[k] = a => k \in bound[a]
    /\ cache[a] # NoKey => cache[a] \in bound[a]

\* A request that is about to persist or cache a key bound it; one that verifies
\* serves an agent that exists, for a challenge it was given.
RequestsKeepToTheirAgent ==
  \A t \in Threads :
    /\ thread[t].pc \in {"persist", "cache"} =>
         thread[t].agent \in Keys /\ thread[t].key \in bound[thread[t].agent]
    /\ thread[t].pc = "verify" =>
         /\ thread[t].agent \in Keys /\ agent[thread[t].agent].exists
         /\ thread[t].nonce \in DOMAIN challenge[thread[t].agent]

\* The inductive invariant of the key store.
KeyInv ==
  /\ TypeOK
  /\ StoredKeysAreBound
  /\ RequestsKeepToTheirAgent
  /\ VerifiedByBoundKey

\* The shapes of an agent row, of a request and of a history of challenges.
Row == [exists: BOOLEAN, publicKey: Keys \cup {NoKey}, docKey: Keys \cup {NoKey},
        verified: BOOLEAN]
Request == [pc: {"idle", "persist", "cache", "verify"}, agent: Keys \cup {NoKey},
            key: Keys \cup {NoKey}, nonce: Nat]
History == Seq({"fresh", "used", "expired"})

\* The key a lookup finds, in the cache, in the table or in the agent row, was
\* bound to the agent it was looked up for.
LEMMA LookupsFindBoundKeys ==
  ASSUME KeyInv, NEW a \in Keys, agent[a].exists, NEW k \in KeyChoices(a)
  PROVE k \in bound[a] /\ k \in Keys
BY KeyAssumption DEF KeyInv, TypeOK, StoredKeysAreBound, KeyChoices

\* Rewriting the entries of a history keeps it a history of the same length.
LEMMA HistoryRewritten ==
  ASSUME NEW s \in History, NEW h, DOMAIN h = DOMAIN s,
         h = [i \in DOMAIN h |-> h[i]],
         \A i \in DOMAIN s : h[i] \in {"fresh", "used", "expired"}
  PROVE h \in History
<1>1. DOMAIN s = 1 .. Len(s) /\ Len(s) \in Nat
  BY DEF History
<1>2. h \in [1 .. Len(s) -> {"fresh", "used", "expired"}]
  BY <1>1
<1> QED
  BY <1>1, <1>2 DEF History

\* Nobody has registered: the invariant holds.
LEMMA KeyInit == Init => KeyInv
<1> SUFFICES ASSUME Init PROVE KeyInv
  OBVIOUS
<1>1. TypeOK
  BY DEF Init, TypeOK, NoAgent, Idle
<1>2. StoredKeysAreBound /\ RequestsKeepToTheirAgent /\ VerifiedByBoundKey
  BY KeyAssumption DEF Init, StoredKeysAreBound, RequestsKeepToTheirAgent, VerifiedByBoundKey,
                       NoAgent, Idle
<1> QED
  BY <1>1, <1>2 DEF KeyInv

\* A key that is bound to an agent, with the request that will store it: what
\* registering and rotating have in common.
LEMMA BindKey ==
  ASSUME KeyInv, NEW t \in Threads, NEW a \in Keys, NEW k \in Keys, NEW row \in Row,
         NEW job \in Request,
         agent' = [agent EXCEPT ![a] = row],
         bound' = [bound EXCEPT ![a] = @ \cup {k}],
         thread' = [thread EXCEPT ![t] = job],
         row.exists, row.publicKey \in bound[a] \cup {k}, row.publicKey \in Keys,
         row.docKey \in Keys,
         row.verified => proved[a] # {},
         job.pc = "persist", job.agent = a, job.key = k,
         UNCHANGED <<keyRow, cache, challenge, proved>>
  PROVE KeyInv'
<1>1. TypeOK'
  <2>1. agent' \in [Keys -> Row] /\ thread' \in [Threads -> Request]
    BY DEF KeyInv, TypeOK, Row, Request
  <2>2. \A b \in Keys : agent'[b].exists => agent'[b].publicKey # NoKey /\ agent'[b].docKey # NoKey
    BY KeyAssumption DEF KeyInv, TypeOK
  <2>3. bound' \in [Keys -> SUBSET Keys]
    BY DEF KeyInv, TypeOK
  <2> QED
    BY <2>1, <2>2, <2>3 DEF KeyInv, TypeOK, Row, Request
<1>2. StoredKeysAreBound'
  BY DEF KeyInv, TypeOK, StoredKeysAreBound
<1>3. RequestsKeepToTheirAgent'
  <2>1. \A b \in Keys : bound[b] \subseteq bound'[b] /\ (agent[b].exists => agent'[b].exists)
    BY DEF KeyInv, TypeOK
  <2>2. k \in bound'[a]
    BY DEF KeyInv, TypeOK
  <2>3. thread'[t] = job /\ \A u \in Threads : u # t => thread'[u] = thread[u]
    BY DEF KeyInv, TypeOK
  <2> QED
    BY <2>1, <2>2, <2>3 DEF KeyInv, RequestsKeepToTheirAgent
<1>4. VerifiedByBoundKey'
  BY DEF KeyInv, TypeOK, VerifiedByBoundKey
<1> QED
  BY <1>1, <1>2, <1>3, <1>4 DEF KeyInv

\* Every step preserves it.
LEMMA KeyStep == KeyInv /\ [Next]_vars => KeyInv'
<1> SUFFICES ASSUME KeyInv, [Next]_vars PROVE KeyInv'
  OBVIOUS
<1> USE KeyAssumption
<1>0. /\ \A a \in Keys : agent[a] \in Row /\ challenge[a] \in History
      /\ \A t \in Threads : thread[t] \in Request
      /\ Idle \in Request /\ Idle.pc = "idle"
  BY DEF KeyInv, TypeOK, Row, Request, History, Idle
<1>1. ASSUME NEW t \in Threads, NEW a \in Keys, RegisterAgent(t, a)
      PROVE KeyInv'
  <2> DEFINE job == [pc |-> "persist", agent |-> a, key |-> a, nonce |-> 0]
  <2>1. job \in Request /\ job.pc = "persist" /\ job.agent = a /\ job.key = a
    BY DEF Request
  <2>2. /\ Upserted(a) \in Row /\ Upserted(a).exists /\ Upserted(a).docKey = a
        /\ Upserted(a).publicKey \in bound[a] \cup {a} /\ Upserted(a).publicKey \in Keys
        /\ Upserted(a).verified => agent[a].verified
    <3>1. CASE agent[a].exists
      <4>1. agent[a].publicKey \in bound[a] /\ bound[a] \subseteq Keys
        BY <3>1 DEF KeyInv, TypeOK, StoredKeysAreBound
      <4> QED
        BY <1>0, <3>1, <4>1 DEF Upserted, Row
    <3>2. CASE ~agent[a].exists
      BY <3>2 DEF Upserted, Row
    <3> QED
      BY <3>1, <3>2
  <2>3. /\ agent' = [agent EXCEPT ![a] = Upserted(a)]
        /\ bound' = [bound EXCEPT ![a] = @ \cup {a}]
        /\ thread' = [thread EXCEPT ![t] = job]
        /\ UNCHANGED <<keyRow, cache, challenge, proved>>
    BY <1>1 DEF RegisterAgent
  <2>4. agent[a].verified => proved[a] # {}
    BY DEF KeyInv, VerifiedByBoundKey
  <2> HIDE DEF job
  <2> QED
    BY <2>1, <2>2, <2>3, <2>4, BindKey
<1>2. ASSUME NEW a \in Keys, RegisterAgentForOrg(a)
      PROVE KeyInv'
  <2> DEFINE row == [exists |-> TRUE, publicKey |-> a, docKey |-> a, verified |-> FALSE]
  <2>1. row \in Row /\ row.exists /\ row.publicKey = a /\ row.docKey = a /\ ~row.verified
    BY DEF Row
  <2>2. /\ agent' = [agent EXCEPT ![a] = row]
        /\ bound' = [bound EXCEPT ![a] = @ \cup {a}]
        /\ UNCHANGED <<keyRow, cache, challenge, thread, proved>>
    BY <1>2 DEF RegisterAgentForOrg
  <2> HIDE DEF row
  <2>3. TypeOK'
    BY <2>1, <2>2 DEF KeyInv, TypeOK, Row
  <2>4. StoredKeysAreBound' /\ VerifiedByBoundKey'
    BY <2>1, <2>2 DEF KeyInv, TypeOK, StoredKeysAreBound, VerifiedByBoundKey
  <2>5. \A b \in Keys : bound[b] \subseteq bound'[b] /\ (agent[b].exists => agent'[b].exists)
    BY <2>1, <2>2 DEF KeyInv, TypeOK
  <2>6. RequestsKeepToTheirAgent'
    BY <2>2, <2>5 DEF KeyInv, TypeOK, RequestsKeepToTheirAgent
  <2> QED
    BY <2>3, <2>4, <2>6 DEF KeyInv
<1>3. ASSUME NEW t \in Threads, NEW a \in Keys, NEW k \in Keys, RotateAgentKey(t, a, k)
      PROVE KeyInv'
  <2> DEFINE row == [agent[a] EXCEPT !.publicKey = k, !.docKey = k]
             job == [pc |-> "persist", agent |-> a, key |-> k, nonce |-> 0]
  <2>1. job \in Request /\ job.pc = "persist" /\ job.agent = a /\ job.key = k
    BY DEF Request
  <2>2. agent[a].exists
    BY <1>3 DEF RotateAgentKey
  <2>3. /\ row \in Row /\ row.exists = agent[a].exists /\ row.publicKey = k /\ row.docKey = k
        /\ row.verified = agent[a].verified
    BY <1>0 DEF Row
  <2>4. /\ agent' = [agent EXCEPT ![a] = row]
        /\ bound' = [bound EXCEPT ![a] = @ \cup {k}]
        /\ thread' = [thread EXCEPT ![t] = job]
        /\ UNCHANGED <<keyRow, cache, challenge, proved>>
    BY <1>3 DEF RotateAgentKey, KeyInv, TypeOK
  <2>5. agent[a].verified => proved[a] # {}
    BY DEF KeyInv, VerifiedByBoundKey
  <2> HIDE DEF row, job
  <2> QED
    BY <2>1, <2>2, <2>3, <2>4, <2>5, BindKey
<1>4. ASSUME NEW t \in Threads, NEW ok \in BOOLEAN, PersistPublicKey(t, ok)
      PROVE KeyInv'
  <2> DEFINE job == [thread[t] EXCEPT !.pc = "cache"]
  <2>1. /\ job \in Request /\ job.pc = "cache" /\ job.agent = thread[t].agent
        /\ job.key = thread[t].key
    BY <1>0 DEF Request
  <2>2. /\ thread[t].agent \in Keys /\ thread[t].key \in bound[thread[t].agent]
        /\ thread[t].key \in Keys
    BY <1>4 DEF PersistPublicKey, KeyInv, RequestsKeepToTheirAgent, TypeOK
  <2>3. /\ thread' = [thread EXCEPT ![t] = job]
        /\ keyRow' = (IF ok THEN [keyRow EXCEPT ![thread[t].key] = thread[t].agent] ELSE keyRow)
        /\ UNCHANGED <<agent, cache, challenge, bound, proved>>
    BY <1>4 DEF PersistPublicKey
  <2> HIDE DEF job
  <2>4. TypeOK'
    BY <2>1, <2>2, <2>3 DEF KeyInv, TypeOK, Request
  <2>5. StoredKeysAreBound' /\ VerifiedByBoundKey'
    BY <2>2, <2>3 DEF KeyInv, TypeOK, StoredKeysAreBound, VerifiedByBoundKey
  <2>6. RequestsKeepToTheirAgent'
    BY <2>1, <2>2, <2>3 DEF KeyInv, TypeOK, RequestsKeepToTheirAgent
  <2> QED
    BY <2>4, <2>5, <2>6 DEF KeyInv
<1>5. ASSUME NEW t \in Threads, CachePublicKey(t)
      PROVE KeyInv'
  <2>1. /\ thread[t].agent \in Keys /\ thread[t].key \in bound[thread[t].agent]
        /\ thread[t].key \in Keys
    BY <1>5 DEF CachePublicKey, KeyInv, RequestsKeepToTheirAgent, TypeOK
  <2>2. /\ thread' = [thread EXCEPT ![t] = Idle]
        /\ cache' = [cache EXCEPT ![thread[t].agent] = thread[t].key]
        /\ UNCHANGED <<agent, keyRow, challenge, bound, proved>>
    BY <1>5 DEF CachePublicKey
  <2>3. TypeOK'
    BY <1>0, <2>1, <2>2 DEF KeyInv, TypeOK, Request
  <2>4. StoredKeysAreBound' /\ VerifiedByBoundKey'
    BY <2>1, <2>2 DEF KeyInv, TypeOK, StoredKeysAreBound, VerifiedByBoundKey
  <2>5. RequestsKeepToTheirAgent'
    BY <1>0, <2>2 DEF KeyInv, TypeOK, RequestsKeepToTheirAgent
  <2> QED
    BY <2>3, <2>4, <2>5 DEF KeyInv
<1>6. ASSUME NEW a \in Keys, GenerateChallenge(a)
      PROVE KeyInv'
  <2>1. /\ challenge' = [challenge EXCEPT ![a] = Append(@, "fresh")]
        /\ UNCHANGED <<agent, keyRow, cache, thread, bound, proved>>
    BY <1>6 DEF GenerateChallenge
  <2>2. \A b \in Keys : challenge'[b] \in History /\ DOMAIN challenge[b] \subseteq DOMAIN challenge'[b]
    BY <1>0, <2>1 DEF KeyInv, TypeOK, History
  <2>3. TypeOK'
    BY <2>1, <2>2 DEF KeyInv, TypeOK, History
  <2>4. StoredKeysAreBound' /\ VerifiedByBoundKey'
    BY <2>1 DEF KeyInv, StoredKeysAreBound, VerifiedByBoundKey
  <2>5. RequestsKeepToTheirAgent'
    BY <2>1, <2>2 DEF KeyInv, RequestsKeepToTheirAgent
  <2> QED
    BY <2>3, <2>4, <2>5 DEF KeyInv
<1>7. ASSUME NEW a \in Keys, NEW n \in 1 .. MaxChallenges, Expire(a, n)
      PROVE KeyInv'
  <2> DEFINE h == [i \in DOMAIN challenge[a] |->
                     IF i <= n /\ challenge[a][i] = "fresh" THEN "expired" ELSE challenge[a][i]]
  <2>1. /\ challenge' = [challenge EXCEPT ![a] = h]
        /\ UNCHANGED <<agent, keyRow, cache, thread, bound, proved>>
    BY <1>7 DEF Expire
  <2>2. DOMAIN h = DOMAIN challenge[a] /\ h = [i \in DOMAIN h |-> h[i]]
    OBVIOUS
  <2>3. \A i \in DOMAIN challenge[a] : h[i] \in {"fresh", "used", "expired"}
    BY <1>0 DEF History
  <2> HIDE DEF h
  <2>4. h \in History
    BY <1>0, <2>2, <2>3, HistoryRewritten
  <2>5. \A b \in Keys : challenge'[b] \in History /\ DOMAIN challenge[b] = DOMAIN challenge'[b]
    BY <1>0, <2>1, <2>2, <2>4 DEF KeyInv, TypeOK
  <2>6. TypeOK'
    BY <2>1, <2>5 DEF KeyInv, TypeOK, History
  <2>7. StoredKeysAreBound' /\ VerifiedByBoundKey'
    BY <2>1 DEF KeyInv, StoredKeysAreBound, VerifiedByBoundKey
  <2>8. RequestsKeepToTheirAgent'
    BY <2>1, <2>5 DEF KeyInv, RequestsKeepToTheirAgent
  <2> QED
    BY <2>6, <2>7, <2>8 DEF KeyInv
<1>8. ASSUME NEW t \in Threads, NEW a \in Keys, VerifySelect(t, a)
      PROVE KeyInv'
  <2>1. PICK n \in Fresh(a) :
          /\ thread' = [thread EXCEPT ![t] = [pc |-> "verify", agent |-> a, key |-> NoKey, nonce |-> n]]
          /\ agent[a].exists /\ UNCHANGED <<agent, keyRow, cache, challenge, bound, proved>>
    BY <1>8 DEF VerifySelect
  <2> DEFINE job == [pc |-> "verify", agent |-> a, key |-> NoKey, nonce |-> n]
  <2>2. n \in DOMAIN challenge[a] /\ n \in Nat
    BY <1>0, <2>1 DEF Fresh, History
  <2>3. job \in Request /\ job.pc = "verify" /\ job.agent = a /\ job.nonce = n
    BY <2>2 DEF Request
  <2>4. thread' = [thread EXCEPT ![t] = job]
    BY <2>1
  <2> HIDE DEF job
  <2>5. TypeOK'
    BY <2>1, <2>3, <2>4 DEF KeyInv, TypeOK, Request
  <2>6. StoredKeysAreBound' /\ VerifiedByBoundKey'
    BY <2>1 DEF KeyInv, StoredKeysAreBound, VerifiedByBoundKey
  <2>7. RequestsKeepToTheirAgent'
    BY <2>1, <2>2, <2>3, <2>4 DEF KeyInv, TypeOK, RequestsKeepToTheirAgent
  <2> QED
    BY <2>5, <2>6, <2>7 DEF KeyInv
<1>9. ASSUME NEW t \in Threads, NEW signer \in Keys, NEW n \in 1 .. MaxChallenges,
             VerifyCommit(t, signer, n)
      PROVE KeyInv'
  <2> DEFINE a == thread[t].agent
             row == [agent[a] EXCEPT !.verified = TRUE]
             h == [challenge[a] EXCEPT ![n] = "used"]
  <2>1. a \in Keys /\ agent[a].exists
    BY <1>9 DEF VerifyCommit, KeyInv, RequestsKeepToTheirAgent
  <2>2. signer \in KeyChoices(a) /\ cache' = [cache EXCEPT ![a] = signer]
    BY <1>9 DEF VerifyCommit
  <2>3. signer \in bound[a]
    BY <2>1, <2>2, LookupsFindBoundKeys
  <2>4. /\ row \in Row /\ row.exists /\ row.publicKey = agent[a].publicKey
        /\ row.docKey = agent[a].docKey
    BY <1>0, <2>1 DEF Row
  <2>5. DOMAIN h = DOMAIN challenge[a] /\ h = [i \in DOMAIN h |-> h[i]]
    OBVIOUS
  <2>6. \A i \in DOMAIN challenge[a] : h[i] \in {"fresh", "used", "expired"}
    BY <1>0, <2>1 DEF History
  <2>7. /\ agent' = [agent EXCEPT ![a] = row]
        /\ challenge' = [challenge EXCEPT ![a] = h]
        /\ proved' = [proved EXCEPT ![a] = @ \cup {signer}]
        /\ thread' = [thread EXCEPT ![t] = Idle]
        /\ UNCHANGED <<keyRow, bound>>
    BY <1>9 DEF VerifyCommit
  <2> HIDE DEF a, row, h
  <2>8. h \in History
    BY <1>0, <2>1, <2>5, <2>6, HistoryRewritten
  <2>9. \A b \in Keys : /\ challenge'[b] \in History /\ DOMAIN challenge'[b] = DOMAIN challenge[b]
                        /\ agent'[b].exists = agent[b].exists
    BY <1>0, <2>1, <2>4, <2>5, <2>7, <2>8 DEF KeyInv, TypeOK
  <2>10. TypeOK'
    BY <1>0, <2>1, <2>2, <2>4, <2>7, <2>9 DEF KeyInv, TypeOK, Row, Request, History
  <2>11. StoredKeysAreBound'
    BY <2>1, <2>2, <2>3, <2>4, <2>7 DEF KeyInv, TypeOK, StoredKeysAreBound
  <2>12. RequestsKeepToTheirAgent'
    BY <1>0, <2>7, <2>9 DEF KeyInv, TypeOK, RequestsKeepToTheirAgent
  <2>13. VerifiedByBoundKey'
    BY <2>1, <2>3, <2>7 DEF KeyInv, TypeOK, VerifiedByBoundKey
  <2> QED
    BY <2>10, <2>11, <2>12, <2>13 DEF KeyInv
<1>10. ASSUME NEW t \in Threads, VerifyRefuse(t)
       PROVE KeyInv'
  <2> DEFINE a == thread[t].agent
  <2>1. a \in Keys /\ agent[a].exists
    BY <1>10 DEF VerifyRefuse, KeyInv, RequestsKeepToTheirAgent
  <2>2. PICK k \in KeyChoices(a) : cache' = [cache EXCEPT ![a] = k]
    BY <1>10 DEF VerifyRefuse
  <2>3. k \in bound[a] /\ k \in Keys
    BY <2>1, LookupsFindBoundKeys
  <2>4. thread' = [thread EXCEPT ![t] = Idle] /\ UNCHANGED <<agent, keyRow, challenge, bound, proved>>
    BY <1>10 DEF VerifyRefuse
  <2> HIDE DEF a
  <2>5. TypeOK'
    BY <1>0, <2>2, <2>3, <2>4 DEF KeyInv, TypeOK, Request
  <2>6. StoredKeysAreBound' /\ VerifiedByBoundKey'
    BY <2>1, <2>2, <2>3, <2>4 DEF KeyInv, TypeOK, StoredKeysAreBound, VerifiedByBoundKey
  <2>7. RequestsKeepToTheirAgent'
    BY <1>0, <2>4 DEF KeyInv, TypeOK, RequestsKeepToTheirAgent
  <2> QED
    BY <2>5, <2>6, <2>7 DEF KeyInv
<1>11. CASE Restart
  <2>1. /\ cache' \in [Keys -> Keys \cup {NoKey}]
        /\ \A a \in Keys : cache'[a] # NoKey => cache'[a] \in Keys /\ keyRow[cache'[a]] = a
        /\ thread' = [t \in Threads |-> Idle]
        /\ UNCHANGED <<agent, keyRow, challenge, bound, proved>>
    BY <1>11 DEF Restart, LoadedCaches
  <2>2. TypeOK'
    BY <1>0, <2>1 DEF KeyInv, TypeOK, Request
  <2>3. StoredKeysAreBound' /\ VerifiedByBoundKey'
    BY <2>1 DEF KeyInv, TypeOK, StoredKeysAreBound, VerifiedByBoundKey
  <2>4. RequestsKeepToTheirAgent'
    BY <1>0, <2>1 DEF RequestsKeepToTheirAgent
  <2> QED
    BY <2>2, <2>3, <2>4 DEF KeyInv
<1>12. CASE UNCHANGED vars
  BY <1>12 DEF vars, KeyInv, TypeOK, StoredKeysAreBound, RequestsKeepToTheirAgent,
               VerifiedByBoundKey
<1> QED
  BY <1>1, <1>2, <1>3, <1>4, <1>5, <1>6, <1>7, <1>8, <1>9, <1>10, <1>11, <1>12 DEF Next

\* The invariant of the key store holds in every reachable state.
LEMMA KeyInvariant == Spec => []KeyInv
BY KeyInit, KeyStep, PTL DEF Spec

\* Type correctness: in particular an agent that exists has a current key.
THEOREM TypeCorrect == Spec => []TypeOK
BY KeyInvariant, PTL DEF KeyInv

\* Through any interleaving of registrations, rotations that take a key over from
\* another agent, lookups and restarts, only keys bound to an agent verify it.
THEOREM OnlyBoundKeysVerify == Spec => []VerifiedByBoundKey
BY KeyInvariant, PTL DEF KeyInv
=============================================================================
