---------------------------- MODULE AgentIdentity ---------------------------
(***************************************************************************)
(* Agent registration, key rotation and challenge-response verification    *)
(* (api/api-server-v2.py) over the key store of crypto_verification.py: the*)
(* agent rows, the public_keys table and the per-process key cache.        *)
(*                                                                         *)
(* agent_id is a hash of the first key, so an agent is named by that key.  *)
(* The handlers are plain functions that run in threads and interleave     *)
(* between commits; a restart empties the cache and kills the threads.     *)
(***************************************************************************)
EXTENDS Naturals, Sequences

CONSTANTS Keys,           \* public keys; also the agents, by first key
          Threads,        \* concurrent requests
          NoKey,          \* no key cached, no owner of a key row
          MaxChallenges   \* bound: challenges generated per agent

ASSUME KeyAssumption == NoKey \notin Keys /\ MaxChallenges \in Nat

VARIABLES agent,          \* observer_agents
          keyRow,         \* public_keys: keyRow[k] is the agent_id of row k
          cache,          \* _PUBLIC_KEY_CACHE
          challenge,      \* verification_challenges, oldest first, by agent
          thread,         \* the requests in progress
          bound,          \* keys ever registered for, or rotated to by, an agent
          proved          \* keys that signed the challenge of an accepted request

vars == <<agent, keyRow, cache, challenge, thread, bound, proved>>

NoAgent == [exists |-> FALSE, publicKey |-> NoKey, docKey |-> NoKey, verified |-> FALSE]
Idle == [pc |-> "idle", agent |-> NoKey, key |-> NoKey, nonce |-> 0]

Init ==
  /\ agent = [a \in Keys |-> NoAgent]
  /\ keyRow = [k \in Keys |-> NoKey]
  /\ cache = [a \in Keys |-> NoKey]
  /\ challenge = [a \in Keys |-> <<>>]
  /\ thread = [t \in Threads |-> Idle]
  /\ bound = [a \in Keys |-> {}]
  /\ proved = [a \in Keys |-> {}]

-----------------------------------------------------------------------------
\* INSERT ... ON CONFLICT (agent_id) DO UPDATE: a known agent gets the document
\* of the key it registers with, its public_key and verified columns stay.
Upserted(a) ==
  IF agent[a].exists THEN [agent[a] EXCEPT !.docKey = a]
  ELSE [exists |-> TRUE, publicKey |-> a, docKey |-> a, verified |-> FALSE]

\* register_agent up to its commit; persist_public_key follows.
RegisterAgent(t, a) ==
  /\ thread[t] = Idle
  /\ agent' = [agent EXCEPT ![a] = Upserted(a)]
  /\ bound' = [bound EXCEPT ![a] = @ \cup {a}]
  /\ thread' = [thread EXCEPT ![t] = [pc |-> "persist", agent |-> a, key |-> a, nonce |-> 0]]
  /\ UNCHANGED <<keyRow, cache, challenge, proved>>

\* register_agent_for_org: a key some agent has now is refused, and so is an
\* agent_id that is taken; the key store is not written.
RegisterAgentForOrg(a) ==
  /\ \A b \in Keys : agent[b].publicKey # a
  /\ ~agent[a].exists
  /\ agent' = [agent EXCEPT ![a] = [exists |-> TRUE, publicKey |-> a, docKey |-> a,
                                    verified |-> FALSE]]
  /\ bound' = [bound EXCEPT ![a] = @ \cup {a}]
  /\ UNCHANGED <<keyRow, cache, challenge, thread, proved>>

\* rotate_agent_key up to its commit.
RotateAgentKey(t, a, k) ==
  /\ thread[t] = Idle
  /\ agent[a].exists
  /\ agent' = [agent EXCEPT ![a].publicKey = k, ![a].docKey = k]
  /\ bound' = [bound EXCEPT ![a] = @ \cup {k}]
  /\ thread' = [thread EXCEPT ![t] = [pc |-> "persist", agent |-> a, key |-> k, nonce |-> 0]]
  /\ UNCHANGED <<keyRow, cache, challenge, proved>>

\* persist_public_key, the table: one row per key, taken over from another agent
\* that had it.  A failing statement is logged and the key is cached all the same.
PersistPublicKey(t, ok) ==
  /\ thread[t].pc = "persist"
  /\ keyRow' = IF ok THEN [keyRow EXCEPT ![thread[t].key] = thread[t].agent] ELSE keyRow
  /\ thread' = [thread EXCEPT ![t].pc = "cache"]
  /\ UNCHANGED <<agent, cache, challenge, bound, proved>>

\* cache_public_key, and the reply.
CachePublicKey(t) ==
  /\ thread[t].pc = "cache"
  /\ cache' = [cache EXCEPT ![thread[t].agent] = thread[t].key]
  /\ thread' = [thread EXCEPT ![t] = Idle]
  /\ UNCHANGED <<agent, keyRow, challenge, bound, proved>>

\* generate_challenge.  Deleting the expired ones is not visible: every query
\* filters them out.
GenerateChallenge(a) ==
  /\ agent[a].exists
  /\ Len(challenge[a]) < MaxChallenges
  /\ challenge' = [challenge EXCEPT ![a] = Append(@, "fresh")]
  /\ UNCHANGED <<agent, keyRow, cache, thread, bound, proved>>

\* Five minutes pass for challenge n and the ones before it.
Expire(a, n) ==
  /\ n \in DOMAIN challenge[a]
  /\ challenge[a][n] = "fresh"
  /\ challenge' = [challenge EXCEPT ![a] =
       [i \in DOMAIN @ |-> IF i <= n /\ @[i] = "fresh" THEN "expired" ELSE @[i]]]
  /\ UNCHANGED <<agent, keyRow, cache, thread, bound, proved>>

Fresh(a) == {n \in DOMAIN challenge[a] : challenge[a][n] = "fresh"}

\* verify_agent up to the challenge it selects, the latest fresh one.  Nothing
\* happens for an agent that is verified already.
VerifySelect(t, a) ==
  /\ thread[t] = Idle
  /\ agent[a].exists
  /\ ~agent[a].verified
  /\ \E n \in Fresh(a) :
       /\ \A m \in Fresh(a) : m <= n
       /\ thread' = [thread EXCEPT ![t] = [pc |-> "verify", agent |-> a, key |-> NoKey, nonce |-> n]]
  /\ UNCHANGED <<agent, keyRow, cache, challenge, bound, proved>>

\* Mutant of KeyChoices: on a cache miss any stored key will do.
KeyChoicesAny(a) ==
  IF cache[a] # NoKey THEN {cache[a]}
  ELSE IF \E k \in Keys : keyRow[k] # NoKey THEN {k \in Keys : keyRow[k] # NoKey}
  ELSE {agent[a].publicKey}

\* get_cached_public_key and load_public_key_from_db: the cached key, or any row
\* of the agent (LIMIT 1, no order), or the column of the agent row.
KeyChoices(a) ==
  IF cache[a] # NoKey THEN {cache[a]}
  ELSE IF \E k \in Keys : keyRow[k] = a THEN {k \in Keys : keyRow[k] = a}
  ELSE {agent[a].publicKey}

\* The rest of verify_agent: the request carries nonce n signed with the key
\* signer; when it checks, the challenge is used and the agent verified.
VerifyCommit(t, signer, n) ==
  LET a == thread[t].agent IN
  /\ thread[t].pc = "verify"
  /\ n = thread[t].nonce
  /\ \E k \in KeyChoices(a) : k = signer /\ cache' = [cache EXCEPT ![a] = k]
  /\ challenge' = [challenge EXCEPT ![a][n] = "used"]
  /\ agent' = [agent EXCEPT ![a].verified = TRUE]
  /\ proved' = [proved EXCEPT ![a] = @ \cup {signer}]
  /\ thread' = [thread EXCEPT ![t] = Idle]
  /\ UNCHANGED <<keyRow, bound>>

\* The signature does not check: 400, but the key lookup has filled the cache.
VerifyRefuse(t) ==
  LET a == thread[t].agent IN
  /\ thread[t].pc = "verify"
  /\ \E k \in KeyChoices(a) : cache' = [cache EXCEPT ![a] = k]
  /\ thread' = [thread EXCEPT ![t] = Idle]
  /\ UNCHANGED <<agent, keyRow, challenge, bound, proved>>

\* load_all_public_keys_from_db: of several rows of an agent, the one that comes
\* last in a result without an order stays.
LoadedCaches ==
  {c \in [Keys -> Keys \cup {NoKey}] :
     \A a \in Keys : IF \E k \in Keys : keyRow[k] = a
                     THEN c[a] \in {k \in Keys : keyRow[k] = a} ELSE c[a] = NoKey}

\* The process is restarted: threads are gone, startup_event fills the cache.
Restart ==
  /\ cache' \in LoadedCaches
  /\ thread' = [t \in Threads |-> Idle]
  /\ UNCHANGED <<agent, keyRow, challenge, bound, proved>>

Next ==
  \/ \E t \in Threads, a \in Keys :
       \/ RegisterAgent(t, a)
       \/ \E k \in Keys : RotateAgentKey(t, a, k)
       \/ VerifySelect(t, a)
  \/ \E t \in Threads :
       \/ \E ok \in BOOLEAN : PersistPublicKey(t, ok)
       \/ CachePublicKey(t)
       \/ \E k \in Keys, n \in 1 .. MaxChallenges : VerifyCommit(t, k, n)
       \/ VerifyRefuse(t)
  \/ \E a \in Keys :
       \/ RegisterAgentForOrg(a)
       \/ GenerateChallenge(a)
       \/ \E n \in 1 .. MaxChallenges : Expire(a, n)
  \/ Restart

Spec == Init /\ [][Next]_vars

-----------------------------------------------------------------------------
TypeOK ==
  /\ agent \in [Keys -> [exists: BOOLEAN, publicKey: Keys \cup {NoKey},
                         docKey: Keys \cup {NoKey}, verified: BOOLEAN]]
  /\ \A a \in Keys : agent[a].exists => agent[a].publicKey # NoKey /\ agent[a].docKey # NoKey
  /\ keyRow \in [Keys -> Keys \cup {NoKey}]
  /\ cache \in [Keys -> Keys \cup {NoKey}]
  /\ challenge \in [Keys -> Seq({"fresh", "used", "expired"})]
  /\ thread \in [Threads -> [pc: {"idle", "persist", "cache", "verify"},
                             agent: Keys \cup {NoKey}, key: Keys \cup {NoKey}, nonce: Nat]]
  /\ bound \in [Keys -> SUBSET Keys]
  /\ proved \in [Keys -> SUBSET Keys]

\* An agent is verified only by a signature of a key that was registered for it
\* or that it rotated to: through cache misses, restarts, keys that change hands
\* between agents and interleaved rotations, no other agent's key is consulted.
VerifiedByBoundKey ==
  \A a \in Keys : /\ proved[a] \subseteq bound[a]
                  /\ agent[a].verified => proved[a] # {}

=============================================================================
