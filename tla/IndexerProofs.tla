--------------------------- MODULE IndexerProofs ----------------------------
(***************************************************************************)
(* Proofs about Indexer, for every number of tokens, owners, requests,     *)
(* blocks and faults and every batch size: the tables follow the chain     *)
(* through failures, crashes and replayed batches.                         *)
(***************************************************************************)
EXTENDS Indexer, FiniteSetTheorems, TLAPS

\* A set of numbers that is not empty has a least element: the one whose initial
\* segment is minimal, as finite sets are well-founded under inclusion.
LEMMA MinIsLeast ==
  ASSUME NEW S \in SUBSET Nat, S # {}
  PROVE  Min(S) \in S /\ \A y \in S : Min(S) <= y
<1> DEFINE T == {0 .. x : x \in S}
           R == StrictSubsetOrdering(Nat)
<1>1. T \subseteq FiniteSubsetsOf(Nat) /\ T # {}
  <2>1. ASSUME NEW x \in S PROVE 0 .. x \in FiniteSubsetsOf(Nat)
    BY FS_Interval DEF FiniteSubsetsOf
  <2> QED
    BY <2>1
<1>2. IsWellFoundedOn(R, FiniteSubsetsOf(Nat))
  BY FS_StrictSubsetOrderingWellFounded
<1>3. PICK X \in T : \A Y \in T : ~(<<Y, X>> \in R)
  BY <1>1, <1>2, WFMin, Zenon
<1>4. PICK x \in S : X = 0 .. x
  BY <1>3
<1>5. ASSUME NEW y \in S, y < x PROVE FALSE
  <2>1. 0 .. y \subseteq 0 .. x /\ 0 .. y # 0 .. x /\ 0 .. y \in T
    <3>1. x \in 0 .. x /\ x \notin 0 .. y /\ 0 .. y \subseteq 0 .. x
      BY <1>5
    <3> QED
      BY <3>1
  <2>2. <<0 .. y, X>> \in R
    BY <1>4, <2>1 DEF StrictSubsetOrdering
  <2> QED
    BY <1>3, <2>1, <2>2
<1>6. \A y \in S : x <= y
  BY <1>5
<1> QED
  BY <1>6 DEF Min

\* A non-empty set of numbers up to n has a greatest element: the one farthest from 0,
\* nearest to n.
LEMMA MaxIsGreatest ==
  ASSUME NEW n \in Nat, NEW S \in SUBSET (0 .. n), S # {}
  PROVE  Max(S) \in S /\ \A y \in S : Max(S) >= y
<1> DEFINE T == {n - x : x \in S}
<1>0. \A x \in S : x \in Nat /\ n - x \in Nat
  OBVIOUS
<1>1. T \in SUBSET Nat /\ T # {}
  BY <1>0, Zenon
<1>2. PICK m \in T : \A y \in T : m <= y
  BY <1>1, MinIsLeast
<1>3. \E x \in S : \A y \in S : x >= y
  <2>1. PICK x \in S : m = n - x
    BY <1>2
  <2>2. ASSUME NEW y \in S PROVE x >= y
    <3>1. n - y \in T
      OBVIOUS
    <3>2. n - x <= n - y
      BY <1>2, <2>1, <3>1
    <3> QED
      BY <1>0, <3>2
  <2> QED
    BY <2>2
<1> QED
  BY <1>3 DEF Max

-----------------------------------------------------------------------------
InBatch == {"fetch", "store", "advance"}

ProcRecord == [registry: Registries \cup {"none"},
               pc: {"sleep", "begin", "fetch", "store", "advance"},
               from: 0 .. head, to: 0 .. head, logs: SUBSET (1 .. head)]

\* A batch starts right above its cursor and is not empty.
BatchOK(p) ==
  /\ p.pc # "sleep" => p.registry \in Registries
  /\ p.pc \in InBatch => /\ p.from = cursor[p.registry] + 1 /\ p.from <= p.to
                         /\ p.to <= p.from + BatchSize

\* The logs about to be stored are all there are in the range, or the range is lost.
LogsOK(p) ==
  p.pc = "store" => \/ p.logs = EventsOf(p.registry) \cap (p.from .. p.to)
                    \/ p.logs = {} /\ p.from .. p.to \subseteq lost[p.registry]

\* A batch that is replayed reaches as far as the one that failed: no row of
\* erc8004_agents is ahead of it.
ReachOK(p) ==
  p.pc \in InBatch /\ p.registry = "identity" => \A t \in Tokens : agents[t].last <= p.to

AgentsWithinReach == \A t \in Tokens : agents[t].last <= cursor["identity"] + 1 + BatchSize

\* The events of registry r up to block n are in the tables, unless they were lost.
Covered(r, n) ==
  \A b \in EventsOf(r) :
    b <= n /\ b \notin lost[r] /\ (r = "validation" => lost[r] = {}) => Indexed(b)

\* While no log was lost, the row of a request is of its first event.
FirstRequests ==
  lost["validation"] = {} =>
    \A b \in EventsOf("validation") :
      validations[chain[b].request] # 0 => validations[chain[b].request] <= b

\* Feedback that is stored but not behind the cursor belongs to the batch whose
\* cursor is about to move, or to one that a fault cut off.
StoredOnce(b) ==
  b <= cursor["reputation"]
    \/ (proc.registry = "reputation" /\ proc.pc = "advance" /\ b <= proc.to)

FeedbackOK ==
  \A b \in Blocks : /\ StoredOnce(b) => feedback[b] <= 1 + faults
                    /\ ~StoredOnce(b) => feedback[b] <= faults

\* The inductive invariant of the indexer.
IndexInv ==
  /\ TypeOK /\ head <= MaxBlock
  /\ OwnerFollowsChain
  /\ BatchOK(proc) /\ LogsOK(proc) /\ ReachOK(proc) /\ AgentsWithinReach
  /\ \A r \in Registries : Covered(r, cursor[r])
  /\ proc.pc = "advance" => Covered(proc.registry, proc.to)
  /\ FirstRequests
  /\ FeedbackOK

\* The first and last block of an agent's row are blocks of the chain.
LEMMA AgentsAreTyped ==
  ASSUME TypeOK, NEW t \in Tokens
  PROVE  agents[t].last \in 0 .. head /\ agents[t].first \in 0 .. head
         /\ (agents[t] # NoAgent => agents[t].owner \in Owners /\ agents[t].first \in 1 .. head)
BY DEF TypeOK, NoAgent, head

\* The events of a registry are blocks of the chain, and of its kind.
LEMMA EventsAreTyped ==
  ASSUME TypeOK
  PROVE  /\ head \in Nat
         /\ \A b \in 1 .. head : chain[b] \in Events
         /\ \A r \in Registries : EventsOf(r) \subseteq 1 .. head
         /\ \A b \in EventsOf("identity") : chain[b].token \in Tokens /\ chain[b].owner \in Owners
         /\ \A b \in EventsOf("validation") : chain[b].request \in Requests
<1>1. chain \in Seq(Events)
  BY DEF TypeOK
<1>2. head \in Nat /\ DOMAIN chain = 1 .. head /\ \A b \in 1 .. head : chain[b] \in Events
  BY <1>1 DEF head
<1>3. \A e \in Events : /\ e.registry = "identity" => e.token \in Tokens /\ e.owner \in Owners
                        /\ e.registry = "validation" => e.request \in Requests
  BY DEF Events
<1> QED
  BY <1>2, <1>3 DEF EventsOf

\* An empty chain and empty tables satisfy the invariant.
LEMMA IndexInit == Init => IndexInv
<1> SUFFICES ASSUME Init PROVE IndexInv
  OBVIOUS
<1>1. head = 0 /\ EventsOf("identity") = {} /\ \A r \in Registries : EventsOf(r) = {}
  BY DEF Init, head, EventsOf, Registries
<1>2. TypeOK /\ head <= MaxBlock
  BY <1>1, IndexerAssumption DEF Init, TypeOK, Asleep
<1>3. OwnerFollowsChain /\ AgentsWithinReach
  BY IndexerAssumption DEF Init, OwnerFollowsChain, AgentsWithinReach, NoAgent, Registries
<1>4. BatchOK(proc) /\ LogsOK(proc) /\ ReachOK(proc) /\ proc.pc # "advance"
  BY DEF Init, Asleep, BatchOK, LogsOK, ReachOK, InBatch
<1>5. (\A r \in Registries : Covered(r, cursor[r])) /\ FirstRequests
  BY <1>1 DEF Covered, FirstRequests, Registries
<1>6. FeedbackOK
  BY DEF Init, FeedbackOK, Blocks
<1> QED
  BY <1>2, <1>3, <1>4, <1>5, <1>6 DEF IndexInv

\* The loop moves on without touching a table: what it asks for is right, more may
\* be lost and more have failed, and a batch of feedback is left only by a fault.
LEMMA LoopMoves ==
  ASSUME IndexInv, NEW p \in ProcRecord, proc' = p, p.pc # "advance",
         UNCHANGED <<chain, cursor, agents, feedback, validations>>,
         lost' \in [Registries -> SUBSET Blocks], \A r \in Registries : lost[r] \subseteq lost'[r],
         faults' \in 0 .. MaxFaults, faults <= faults',
         proc.pc = "advance" => faults + 1 <= faults',
         BatchOK(p), LogsOK(p)', ReachOK(p)
  PROVE  IndexInv'
<1>1. (TypeOK /\ head <= MaxBlock /\ OwnerFollowsChain)'
  BY DEF IndexInv, TypeOK, head, OwnerFollowsChain, EventsOf, ProcRecord
<1>2. (BatchOK(proc) /\ LogsOK(proc) /\ ReachOK(proc) /\ AgentsWithinReach)'
  BY DEF IndexInv, BatchOK, LogsOK, ReachOK, AgentsWithinReach
<1>3. \A r \in Registries : Covered(r, cursor[r])'
  BY DEF IndexInv, Covered, EventsOf, Indexed
<1>4. FirstRequests'
  BY DEF IndexInv, FirstRequests, EventsOf, Registries
<1>5. FeedbackOK'
  <2> SUFFICES ASSUME NEW b \in Blocks
               PROVE  /\ StoredOnce(b)' => feedback[b] <= 1 + faults'
                      /\ ~StoredOnce(b)' => feedback[b] <= faults'
    BY DEF FeedbackOK, Blocks
  <2>1. feedback[b] \in Nat /\ faults \in Nat /\ faults' \in Nat
    BY DEF IndexInv, TypeOK
  <2>2. StoredOnce(b)' <=> b <= cursor["reputation"]
    BY DEF StoredOnce
  <2> QED
    BY <2>1, <2>2 DEF IndexInv, FeedbackOK, StoredOnce
<1> QED
  BY <1>1, <1>2, <1>3, <1>4, <1>5 DEF IndexInv

-----------------------------------------------------------------------------
\* The steps of the loop that leave the tables alone.
LEMMA AfterIsQuiet ==
  ASSUME TypeOK, NEW r \in Registries
  PROVE  /\ After(r) \in ProcRecord /\ After(r).pc \in {"begin", "sleep"}
         /\ BatchOK(After(r)) /\ ReachOK(After(r))
         /\ Begin("identity") \in ProcRecord /\ Begin("identity").pc = "begin"
         /\ BatchOK(Begin("identity")) /\ ReachOK(Begin("identity"))
         /\ Asleep \in ProcRecord /\ Asleep.pc = "sleep"
         /\ BatchOK(Asleep) /\ ReachOK(Asleep)
<1>1. head \in Nat
  BY EventsAreTyped
<1>2. /\ Asleep \in ProcRecord /\ Asleep.pc = "sleep"
      /\ \A s \in Registries : /\ Begin(s) \in ProcRecord /\ Begin(s).pc = "begin"
                               /\ Begin(s).registry = s
  <2>1. Asleep \in ProcRecord /\ Asleep.pc = "sleep"
    BY <1>1 DEF Asleep, ProcRecord
  <2>2. ASSUME NEW s \in Registries
        PROVE  Begin(s) \in ProcRecord /\ Begin(s).pc = "begin" /\ Begin(s).registry = s
    <3> HIDE DEF Asleep
    <3> QED
      BY <2>1 DEF Begin, ProcRecord
  <2> QED
    BY <2>1, <2>2
<1>3. After(r) = Asleep \/ \E s \in Registries : After(r) = Begin(s)
  BY DEF After, Registries
<1>4. "identity" \in Registries
  BY DEF Registries
<1>5. ASSUME NEW p, p.pc = "sleep" \/ (p.pc = "begin" /\ p.registry \in Registries)
      PROVE  BatchOK(p) /\ ReachOK(p)
  BY <1>5 DEF BatchOK, ReachOK, InBatch
<1> QED
  BY <1>2, <1>3, <1>4, <1>5

\* The loop wakes up and looks at the first registry; no table changes.
LEMMA WakeStep == ASSUME IndexInv, Wake PROVE IndexInv'
<1>1. TypeOK /\ "identity" \in Registries
  BY DEF IndexInv, Registries
<1> DEFINE p == Begin("identity")
<1>2. p \in ProcRecord /\ p.pc = "begin" /\ BatchOK(p) /\ ReachOK(p)
  BY <1>1, AfterIsQuiet
<1>3. LogsOK(p)'
  BY <1>2 DEF LogsOK, Begin, Asleep
<1>4. /\ proc' = p /\ proc.pc # "advance"
      /\ UNCHANGED <<chain, cursor, agents, feedback, validations, lost, faults>>
  BY DEF Wake
<1>5. lost \in [Registries -> SUBSET Blocks] /\ faults \in 0 .. MaxFaults
  BY <1>1 DEF TypeOK
<1> HIDE DEF p
<1> QED
  BY <1>2, <1>3, <1>4, <1>5, IndexerAssumption, LoopMoves

\* An exception, or the end of the process: a batch is given up only at the price
\* of a fault.
LEMMA FaultSteps == ASSUME IndexInv, RecordError \/ Crash PROVE IndexInv'
<1>1. TypeOK /\ (RecordError => proc.registry \in Registries) /\ "identity" \in Registries
  BY DEF IndexInv, BatchOK, RecordError, Registries
<1>2. PICK p \in ProcRecord : /\ proc' = p /\ p.pc \in {"begin", "sleep"}
                              /\ BatchOK(p) /\ ReachOK(p)
  <2>1. CASE RecordError
    BY <1>1, <2>1, AfterIsQuiet DEF RecordError
  <2>2. CASE Crash
    BY <1>1, <2>2, AfterIsQuiet DEF Crash
  <2> QED
    BY <2>1, <2>2
<1>3. LogsOK(p)'
  BY <1>2 DEF LogsOK
<1>4. /\ UNCHANGED <<chain, cursor, agents, feedback, validations, lost>>
      /\ faults' = faults + 1 /\ faults < MaxFaults
  BY DEF RecordError, Crash
<1>5. lost \in [Registries -> SUBSET Blocks] /\ faults \in 0 .. MaxFaults
  BY <1>1 DEF TypeOK
<1>6. faults' \in 0 .. MaxFaults /\ faults <= faults' /\ faults + 1 <= faults' /\ p.pc # "advance"
  BY <1>2, <1>4, <1>5, IndexerAssumption
<1> QED
  BY <1>2, <1>3, <1>4, <1>5, <1>6, LoopMoves

\* The range a cycle asks for starts above the cursor, ends at or below the head
\* and is at most BatchSize longer than one block.
LEMMA BatchIsNext ==
  ASSUME NEW last \in Nat, head \in Nat, NEW k \in Batch(last)
  PROVE  /\ last < head /\ k.from = last + 1 /\ k.from <= k.to /\ k.to <= head
         /\ k.to \in Nat /\ k.to <= k.from + BatchSize
         /\ k.to = last + 1 + BatchSize \/ k.to = head
<1> DEFINE S == {last + 1 + BatchSize, head}
<1>1. last < head /\ k = [from |-> last + 1, to |-> Min(S)]
  BY DEF Batch
<1>2. S \in SUBSET Nat /\ S # {}
  BY IndexerAssumption
<1>3. Min(S) \in S /\ \A y \in S : Min(S) <= y
  BY <1>2, MinIsLeast
<1>4. k.from = last + 1 /\ k.to = Min(S)
  BY <1>1
<1> QED
  BY <1>1, <1>3, <1>4, IndexerAssumption

\* A batch starts right above the cursor.
LEMMA StartBatchStep == ASSUME IndexInv, StartBatch PROVE IndexInv'
<1> DEFINE r == proc.registry
<1>1. TypeOK /\ r \in Registries /\ proc.pc = "begin" /\ head \in Nat /\ proc \in ProcRecord
  BY EventsAreTyped DEF IndexInv, BatchOK, StartBatch, TypeOK, ProcRecord
<1>2. cursor[r] \in 0 .. head
  BY <1>1 DEF TypeOK
<1>3. lost \in [Registries -> SUBSET Blocks] /\ faults \in 0 .. MaxFaults
  BY <1>1 DEF TypeOK
<1>4. PICK p \in ProcRecord : /\ proc' = p /\ p.pc \notin {"store", "advance"}
                              /\ BatchOK(p) /\ ReachOK(p)
  <2>1. CASE Batch(cursor[r]) = {}
    BY <1>1, <2>1, AfterIsQuiet DEF StartBatch
  <2>2. CASE Batch(cursor[r]) # {}
    <3> DEFINE k == CHOOSE k \in Batch(cursor[r]) : TRUE
               p == [proc EXCEPT !.pc = "fetch", !.from = k.from, !.to = k.to]
    <3>1. proc' = p
      BY <2>2 DEF StartBatch
    <3>2. k \in Batch(cursor[r])
      BY <2>2
    <3>3. /\ cursor[r] < head /\ k.from = cursor[r] + 1 /\ k.from <= k.to /\ k.to <= head
          /\ k.to \in Nat /\ k.to <= k.from + BatchSize
          /\ k.to = cursor[r] + 1 + BatchSize \/ k.to = head
      <4> HIDE DEF k
      <4> QED
        BY <1>1, <1>2, <3>2, BatchIsNext
    <3> HIDE DEF k
    <3>4. /\ p \in ProcRecord /\ p.pc = "fetch" /\ p.registry = r /\ p.from = k.from
          /\ p.to = k.to
      <4>1. k.from \in 0 .. head /\ k.to \in 0 .. head
        BY <1>1, <1>2, <3>3
      <4> QED
        BY <1>1, <4>1 DEF ProcRecord
    <3> HIDE DEF p
    <3>5. BatchOK(p)
      BY <1>1, <3>3, <3>4 DEF BatchOK
    <3>6. ReachOK(p)
      <4>1. \A t \in Tokens : agents[t].last <= head /\ agents[t].last \in Nat
        BY <1>1, AgentsAreTyped
      <4>2. r = "identity" => \A t \in Tokens : agents[t].last <= cursor[r] + 1 + BatchSize
        BY DEF IndexInv, AgentsWithinReach
      <4> QED
        BY <3>3, <3>4, <4>1, <4>2 DEF ReachOK
    <3> QED
      BY <3>1, <3>4, <3>5, <3>6
  <2> QED
    BY <2>1, <2>2
<1>5. LogsOK(p)'
  BY <1>4 DEF LogsOK
<1>6. UNCHANGED <<chain, cursor, agents, feedback, validations, lost, faults>>
  BY DEF StartBatch
<1> QED
  BY <1>1, <1>3, <1>4, <1>5, <1>6, IndexerAssumption, LoopMoves

\* The node's answer: the logs of the range, or none and the range is lost.
LEMMA FetchSteps == ASSUME IndexInv, GetLogs \/ GetLogsError PROVE IndexInv'
<1>0. PICK r : r = proc.registry
  OBVIOUS
<1> DEFINE range == proc.from .. proc.to
           logs == IF GetLogs THEN EventsOf(r) \cap range ELSE {}
<1>1. TypeOK /\ r \in Registries /\ proc.pc = "fetch" /\ proc \in ProcRecord
  BY <1>0 DEF IndexInv, BatchOK, InBatch, GetLogs, GetLogsError, TypeOK, ProcRecord
<1>2. head \in Nat /\ EventsOf(r) \subseteq 1 .. head /\ head <= MaxBlock
  BY <1>1, EventsAreTyped DEF IndexInv
<1>3. lost \in [Registries -> SUBSET Blocks] /\ faults \in 0 .. MaxFaults
  BY <1>1 DEF TypeOK
<1>4. range \subseteq Blocks
  <2>1. proc.from \in Nat /\ proc.to \in 0 .. head /\ cursor[r] \in Nat /\ proc.from = cursor[r] + 1
    BY <1>0, <1>1 DEF IndexInv, BatchOK, InBatch, ProcRecord, TypeOK
  <2> QED
    BY <1>2, <2>1, IndexerAssumption DEF Blocks
<1>5. PICK p \in ProcRecord :
         /\ proc' = p /\ p.pc = "store" /\ p.registry = r /\ p.from = proc.from
         /\ p.to = proc.to /\ p.logs = logs
  <2> DEFINE p == [proc EXCEPT !.pc = "store", !.logs = logs]
  <2>1. proc' = p
    BY <1>0 DEF GetLogs, GetLogsError
  <2>2. logs \in SUBSET (1 .. head)
    BY <1>2
  <2> HIDE DEF logs
  <2>3. /\ p \in ProcRecord /\ p.pc = "store" /\ p.registry = r /\ p.from = proc.from
        /\ p.to = proc.to /\ p.logs = logs
    BY <1>0, <1>1, <2>2 DEF ProcRecord
  <2> QED
    BY <2>1, <2>3
<1>6. /\ lost' \in [Registries -> SUBSET Blocks] /\ \A s \in Registries : lost[s] \subseteq lost'[s]
      /\ faults' \in 0 .. MaxFaults /\ faults <= faults'
      /\ GetLogs \/ range \subseteq lost'[r]
  <2>1. CASE GetLogs
    BY <1>0, <1>3, <2>1, IndexerAssumption DEF GetLogs
  <2>2. CASE GetLogsError
    BY <1>0, <1>1, <1>3, <1>4, <2>2, IndexerAssumption DEF GetLogsError
  <2> QED
    BY <2>1, <2>2
<1>7. UNCHANGED <<chain, cursor, agents, feedback, validations>>
  BY DEF GetLogs, GetLogsError
<1>8. LogsOK(p)'
  <2>1. EventsOf(r)' = EventsOf(r)
    BY <1>7 DEF EventsOf
  <2> QED
    BY <1>5, <1>6, <1>7 DEF LogsOK, EventsOf
<1>9. BatchOK(p) /\ ReachOK(p)
  BY <1>0, <1>1, <1>5 DEF IndexInv, BatchOK, ReachOK, InBatch
<1> QED
  BY <1>1, <1>5, <1>6, <1>7, <1>8, <1>9, LoopMoves

-----------------------------------------------------------------------------
\* A new block is beyond every cursor and every range that was asked for.
LEMMA NewBlockStep == ASSUME IndexInv, NEW e \in Events, NewBlock(e) PROVE IndexInv'
<1>1. TypeOK /\ chain \in Seq(Events) /\ head \in Nat /\ head + 1 <= MaxBlock
  BY EventsAreTyped, IndexerAssumption DEF IndexInv, TypeOK, NewBlock
<1>2. /\ chain' \in Seq(Events) /\ head' = head + 1 /\ DOMAIN chain' = 1 .. (head + 1)
      /\ \A b \in 1 .. head : chain'[b] = chain[b]
      /\ chain'[head + 1] = e /\ DOMAIN chain = 1 .. head
  BY <1>1 DEF NewBlock, head
<1>3. UNCHANGED <<cursor, agents, feedback, validations, proc, lost, faults>>
  BY DEF NewBlock
<1>4. ASSUME NEW r \in Registries
      PROVE  /\ EventsOf(r) \subseteq EventsOf(r)'
             /\ \A b \in EventsOf(r)' : b \in EventsOf(r) \/ (b = head + 1 /\ e.registry = r)
  BY <1>1, <1>2 DEF EventsOf
<1>5. TypeOK'
  <2>1. (cursor \in [Registries -> 0 .. head] /\ validations \in [Requests -> 0 .. head])'
    BY <1>1, <1>2, <1>3 DEF TypeOK
  <2>2. (\A t \in Tokens : agents[t] = NoAgent
                       \/ agents[t] \in [owner: Owners, first: 1 .. head, last: 1 .. head])'
    BY <1>1, <1>2, <1>3 DEF TypeOK
  <2>3. (proc \in ProcRecord)'
    BY <1>1, <1>2, <1>3 DEF TypeOK, ProcRecord, Registries
  <2> QED
    BY <1>1, <1>2, <1>3, <2>1, <2>2, <2>3 DEF TypeOK, ProcRecord, Registries, Blocks
<1>6. OwnerFollowsChain'
  BY <1>1, <1>2, <1>3, <1>4, EventsAreTyped DEF IndexInv, OwnerFollowsChain, Registries
<1>7. (BatchOK(proc) /\ ReachOK(proc) /\ AgentsWithinReach)'
  BY <1>3 DEF IndexInv, BatchOK, ReachOK, AgentsWithinReach
<1>8. LogsOK(proc)'
  <2> SUFFICES ASSUME proc.pc = "store"
               PROVE  \/ proc.logs = EventsOf(proc.registry)' \cap (proc.from .. proc.to)
                      \/ proc.logs = {} /\ proc.from .. proc.to \subseteq lost[proc.registry]
    BY <1>3 DEF LogsOK, EventsOf
  <2>1. proc.registry \in Registries /\ proc.to \in 0 .. head /\ proc.from \in Nat
    BY <1>1 DEF IndexInv, BatchOK, TypeOK
  <2>2. EventsOf(proc.registry)' \cap (proc.from .. proc.to)
          = EventsOf(proc.registry) \cap (proc.from .. proc.to)
    BY <1>1, <1>3, <1>4, <2>1
  <2> QED
    BY <2>2 DEF IndexInv, LogsOK
<1>9. ASSUME NEW r \in Registries, NEW n \in 0 .. head, Covered(r, n)
      PROVE  Covered(r, n)'
  <2> SUFFICES ASSUME NEW b \in EventsOf(r)', b <= n, b \notin lost[r],
                      r = "validation" => lost[r] = {}
               PROVE  Indexed(b)'
    BY <1>3 DEF Covered
  <2>1. b \in EventsOf(r) /\ b \in 1 .. head
    BY <1>1, <1>4, EventsAreTyped
  <2>2. Indexed(b) /\ chain'[b] = chain[b]
    BY <1>2, <1>9, <2>1 DEF Covered
  <2> QED
    BY <1>3, <2>2 DEF Indexed
<1>10. (\A r \in Registries : Covered(r, cursor[r]))'
  <2> SUFFICES ASSUME NEW r \in Registries PROVE Covered(r, cursor[r])'
    OBVIOUS
  <2>1. PICK n \in 0 .. head : n = cursor[r]
    BY <1>1 DEF TypeOK
  <2>2. Covered(r, n)'
    BY <1>9, <2>1 DEF IndexInv
  <2> QED
    BY <1>3, <2>1, <2>2 DEF Covered
<1>11. (proc.pc = "advance" => Covered(proc.registry, proc.to))'
  <2> SUFFICES ASSUME proc.pc = "advance" PROVE Covered(proc.registry, proc.to)'
    BY <1>3
  <2>1. PICK r \in Registries, n \in 0 .. head : r = proc.registry /\ n = proc.to
    BY <1>1 DEF IndexInv, BatchOK, TypeOK
  <2>2. Covered(r, n)'
    BY <1>9, <2>1 DEF IndexInv
  <2> QED
    BY <1>3, <2>1, <2>2 DEF Covered, EventsOf
<1>12. FirstRequests'
  <2> SUFFICES ASSUME lost["validation"] = {}, NEW b \in EventsOf("validation")',
                      validations[chain'[b].request] # 0
               PROVE  validations[chain'[b].request] <= b
    BY <1>3 DEF FirstRequests
  <2>1. CASE b \in EventsOf("validation")
    BY <1>1, <1>2, <2>1, EventsAreTyped DEF IndexInv, FirstRequests, Registries
  <2>2. CASE b = head + 1 /\ e.registry = "validation"
    <3>1. e.request \in Requests
      BY <2>2 DEF Events
    <3>2. validations[e.request] \in 0 .. head
      BY <1>1, <3>1 DEF TypeOK
    <3> QED
      BY <1>1, <1>2, <2>2, <3>2
  <2> QED
    BY <1>4, <2>1, <2>2 DEF Registries
<1>13. FeedbackOK'
  BY <1>3 DEF IndexInv, FeedbackOK, StoredOnce, Blocks
<1> QED
  BY <1>1, <1>2, <1>5, <1>6, <1>7, <1>8, <1>10, <1>11, <1>12, <1>13 DEF IndexInv

\* The cursor moves to the end of a batch whose events are in the tables.
LEMMA AdvanceStep == ASSUME IndexInv, AdvanceCursor PROVE IndexInv'
<1>1. PICK r \in Registries : r = proc.registry
  BY DEF IndexInv, BatchOK, AdvanceCursor
<1>2. TypeOK /\ proc.pc = "advance" /\ proc \in ProcRecord
  BY DEF IndexInv, TypeOK, ProcRecord, AdvanceCursor
<1>3. PICK p \in ProcRecord : /\ proc' = p /\ p.pc \in {"begin", "sleep"}
                              /\ BatchOK(p) /\ ReachOK(p)
  BY <1>1, <1>2, AfterIsQuiet DEF AdvanceCursor
<1>4. PICK n \in 0 .. head : n = proc.to
  BY <1>2 DEF ProcRecord
<1>5. /\ UNCHANGED <<chain, agents, feedback, validations, lost, faults>>
      /\ cursor' = [cursor EXCEPT ![r] = n]
  BY <1>1, <1>4 DEF AdvanceCursor
<1>6. /\ cursor \in [Registries -> 0 .. head] /\ head \in Nat
      /\ cursor[r] < n /\ n <= cursor[r] + 1 + BatchSize
  BY <1>1, <1>2, <1>4, EventsAreTyped, IndexerAssumption DEF IndexInv, TypeOK, BatchOK, InBatch
<1>7. /\ cursor' \in [Registries -> 0 .. head] /\ cursor'[r] = n
      /\ \A s \in Registries : s # r => cursor'[s] = cursor[s]
  BY <1>5, <1>6
<1>8. (TypeOK /\ head <= MaxBlock /\ OwnerFollowsChain)'
  BY <1>2, <1>3, <1>5, <1>7 DEF IndexInv, TypeOK, head, OwnerFollowsChain, EventsOf, ProcRecord
<1>9. (BatchOK(proc) /\ LogsOK(proc) /\ ReachOK(proc))' /\ proc'.pc # "advance"
  BY <1>3, <1>5 DEF BatchOK, LogsOK, ReachOK, InBatch
<1>10. AgentsWithinReach'
  <2>1. ASSUME NEW t \in Tokens PROVE agents[t].last \in Nat
    BY <1>2, AgentsAreTyped, EventsAreTyped
  <2>2. "identity" \in Registries
    BY DEF Registries
  <2>3. CASE r = "identity"
    BY <1>1, <1>2, <1>4, <1>5, <1>6, <1>7, <2>1, <2>3, IndexerAssumption
       DEF IndexInv, ReachOK, InBatch, AgentsWithinReach
  <2>4. CASE r # "identity"
    BY <1>5, <1>7, <2>2, <2>4 DEF IndexInv, AgentsWithinReach
  <2> QED
    BY <2>3, <2>4
<1>11. (\A s \in Registries : Covered(s, cursor[s]))'
  <2> SUFFICES ASSUME NEW s \in Registries PROVE Covered(s, cursor[s])'
    OBVIOUS
  <2>1. Covered(s, cursor'[s])
    BY <1>1, <1>2, <1>4, <1>7 DEF IndexInv
  <2> QED
    BY <1>5, <2>1 DEF Covered, EventsOf, Indexed
<1>12. FirstRequests'
  BY <1>5 DEF IndexInv, FirstRequests, EventsOf
<1>13. FeedbackOK'
  <2> SUFFICES ASSUME NEW b \in Blocks PROVE StoredOnce(b)' <=> StoredOnce(b)
    BY <1>5 DEF IndexInv, FeedbackOK, Blocks
  <2>1. b \in Nat
    BY IndexerAssumption DEF Blocks
  <2>2. "reputation" \in Registries
    BY DEF Registries
  <2>3. StoredOnce(b)' <=> b <= cursor'["reputation"]
    BY <1>9 DEF StoredOnce
  <2> QED
    BY <1>1, <1>2, <1>4, <1>6, <1>7, <2>1, <2>2, <2>3 DEF StoredOnce
<1> QED
  BY <1>8, <1>9, <1>10, <1>11, <1>12, <1>13 DEF IndexInv

-----------------------------------------------------------------------------
\* What a transaction of a batch has to do: the tables only grow, agents keep up
\* with the chain and within reach, and what was not lost of the range is stored.
TablesGrow(r) ==
  /\ \A t \in Tokens :
       /\ agents'[t] = NoAgent
            \/ agents'[t] \in [owner: Owners, first: 1 .. head, last: 1 .. head]
       /\ agents[t].last <= agents'[t].last
       /\ r = "identity" => agents'[t].last <= proc.to
  /\ r # "identity" => agents' = agents
  /\ feedback' \in [Blocks -> Nat] /\ \A b \in Blocks : feedback[b] <= feedback'[b]
  /\ validations' \in [Requests -> 0 .. head]
  /\ \A q \in Requests : validations[q] # 0 => validations'[q] = validations[q]
  /\ \A b \in EventsOf(r) :
       b \in proc.from .. proc.to /\ b \notin lost[r] /\ (r = "validation" => lost[r] = {})
         => Indexed(b)'

\* What is left to show of storing a batch is what it does to the tables of its registry.
LEMMA StoreStep ==
  ASSUME IndexInv, NEW r \in Registries, r = proc.registry, StoreRows, TablesGrow(r),
         OwnerFollowsChain', FirstRequests',
         \A b \in Blocks : /\ b <= cursor["reputation"] \/ (r = "reputation" /\ b <= proc.to)
                                => feedback'[b] <= 1 + faults
                           /\ ~(b <= cursor["reputation"] \/ (r = "reputation" /\ b <= proc.to))
                                => feedback'[b] <= faults
  PROVE  IndexInv'
<1>1. TypeOK /\ proc.pc = "store" /\ proc \in ProcRecord /\ head \in Nat
  BY EventsAreTyped DEF IndexInv, TypeOK, ProcRecord, StoreRows
<1>2. PICK p \in ProcRecord :
         /\ proc' = p /\ p.pc = "advance" /\ p.registry = r /\ p.from = proc.from
         /\ p.to = proc.to
  <2> DEFINE p == [proc EXCEPT !.pc = "advance"]
  <2>1. proc' = p
    BY DEF StoreRows
  <2>2. /\ p \in ProcRecord /\ p.pc = "advance" /\ p.registry = r /\ p.from = proc.from
        /\ p.to = proc.to
    BY <1>1 DEF ProcRecord
  <2> QED
    BY <2>1, <2>2
<1>3. UNCHANGED <<chain, cursor, lost, faults>>
  BY DEF StoreRows
<1>4. PICK n \in 0 .. head : n = proc.to
  BY <1>1 DEF ProcRecord
<1>5. /\ proc.from = cursor[r] + 1 /\ proc.from <= n /\ n <= proc.from + BatchSize
      /\ cursor[r] \in Nat /\ \A s \in Registries : cursor[s] \in 0 .. head
  BY <1>1, <1>4 DEF IndexInv, TypeOK, BatchOK, InBatch
<1>6. (TypeOK /\ head <= MaxBlock)'
  BY <1>1, <1>2, <1>3 DEF TablesGrow, IndexInv, TypeOK, head, ProcRecord
<1>7. (BatchOK(proc) /\ LogsOK(proc) /\ ReachOK(proc))'
  BY <1>1, <1>2, <1>3 DEF IndexInv, TablesGrow, BatchOK, LogsOK, ReachOK, InBatch
<1>8. AgentsWithinReach'
  <2>1. CASE r = "identity"
    <3>1. ASSUME NEW t \in Tokens PROVE agents'[t].last \in Nat /\ agents'[t].last <= n
      BY <1>1, <1>4, <2>1 DEF TablesGrow, NoAgent
    <3> QED
      BY <1>3, <1>5, <2>1, <3>1, IndexerAssumption DEF AgentsWithinReach
  <2>2. CASE r # "identity"
    BY <1>3, <2>2 DEF IndexInv, TablesGrow, AgentsWithinReach
  <2> QED
    BY <2>1, <2>2
<1>9. ASSUME NEW s \in Registries, NEW b \in EventsOf(s), Indexed(b)
      PROVE  Indexed(b)'
  <2>1. b \in 1 .. head /\ b \in Blocks /\ chain[b].registry = s
    BY <1>1, EventsAreTyped, IndexerAssumption DEF EventsOf, IndexInv, Blocks
  <2>2. CASE s = "identity"
    <3>1. PICK t \in Tokens : t = chain[b].token
      BY <1>1, <2>2, EventsAreTyped
    <3>2. agents[t].last >= b /\ agents[t].last \in Nat
      BY <1>1, <1>9, <2>1, <2>2, <3>1, AgentsAreTyped DEF Indexed
    <3>3. agents'[t].last >= b
      BY <1>1, <2>1, <3>2 DEF TablesGrow, NoAgent
    <3> QED
      BY <1>3, <2>1, <2>2, <3>1, <3>3 DEF Indexed
  <2>3. CASE s = "reputation"
    <3>1. feedback[b] > 0 /\ feedback[b] \in Nat /\ feedback'[b] \in Nat /\ feedback[b] <= feedback'[b]
      BY <1>1, <1>9, <2>1, <2>3 DEF Indexed, TablesGrow, TypeOK
    <3> QED
      BY <1>3, <2>1, <2>3, <3>1 DEF Indexed
  <2>4. CASE s = "validation"
    <3>1. PICK q \in Requests : q = chain[b].request
      BY <1>1, <2>4, EventsAreTyped
    <3>2. validations[q] \in 1 .. b
      BY <1>9, <2>1, <2>4, <3>1 DEF Indexed
    <3>3. validations'[q] \in 1 .. b
      BY <2>1, <3>2 DEF TablesGrow
    <3> QED
      BY <1>3, <2>1, <2>4, <3>1, <3>3 DEF Indexed
  <2> QED
    BY <2>2, <2>3, <2>4 DEF Registries
<1>10. (\A s \in Registries : Covered(s, cursor[s]))'
  <2> SUFFICES ASSUME NEW s \in Registries, NEW b \in EventsOf(s), b <= cursor[s], b \notin lost[s],
                      s = "validation" => lost[s] = {}
               PROVE  Indexed(b)'
    BY <1>3 DEF Covered, EventsOf
  <2> QED
    BY <1>9 DEF IndexInv, Covered
<1>11. Covered(proc.registry, proc.to)'
  <2> SUFFICES ASSUME NEW b \in EventsOf(r), b <= n, b \notin lost[r], r = "validation" => lost[r] = {}
               PROVE  Indexed(b)'
    BY <1>2, <1>3, <1>4 DEF Covered, EventsOf
  <2>1. b \in Nat
    BY <1>1, EventsAreTyped
  <2>2. CASE b <= cursor[r]
    BY <1>9, <2>2 DEF IndexInv, Covered
  <2>3. CASE b > cursor[r]
    <3>1. b \in proc.from .. proc.to
      BY <1>4, <1>5, <2>1, <2>3
    <3> QED
      BY <3>1 DEF TablesGrow
  <2> QED
    BY <1>5, <2>1, <2>2, <2>3
<1>12. FeedbackOK'
  <2> SUFFICES ASSUME NEW b \in Blocks
               PROVE  StoredOnce(b)' <=> (b <= cursor["reputation"] \/ (r = "reputation" /\ b <= proc.to))
    BY <1>3 DEF FeedbackOK, Blocks
  <2> QED
    BY <1>2, <1>3 DEF StoredOnce
<1> QED
  BY <1>6, <1>7, <1>8, <1>10, <1>11, <1>12 DEF IndexInv

\* The logs of a batch lie in its range, which is above the cursor; those that the
\* node did not lose are all there.
LEMMA LogsAreTheRange ==
  ASSUME IndexInv, proc.pc = "store", NEW r \in Registries, r = proc.registry
  PROVE  /\ proc.from = cursor[r] + 1 /\ cursor[r] \in Nat /\ proc.from \in Nat
         /\ proc.to \in 0 .. head /\ proc.from <= proc.to
         /\ proc.logs \subseteq EventsOf(r) \cap (proc.from .. proc.to)
         /\ \A b \in EventsOf(r) \cap (proc.from .. proc.to) :
              b \notin lost[r] \/ proc.logs # {} => b \in proc.logs
<1>1. TypeOK
  BY DEF IndexInv
<1>2. /\ proc.from = cursor[r] + 1 /\ cursor[r] \in Nat /\ proc.from \in Nat
      /\ proc.to \in 0 .. head /\ proc.from <= proc.to
  BY <1>1 DEF TypeOK, IndexInv, BatchOK, InBatch
<1> QED
  BY <1>2 DEF IndexInv, LogsOK

\* The identity registry: the upsert keeps the row of a token at the last of its
\* events so far, because a batch always reaches at least as far as the row.
LEMMA UpsertFollows ==
  ASSUME IndexInv, proc.pc = "store", proc.registry = "identity", NEW t \in Tokens,
         NEW a, a = UpsertedAgent(t)
  PROVE  /\ a = NoAgent \/ a \in [owner: Owners, first: 1 .. head, last: 1 .. head]
         /\ agents[t].last <= a.last /\ a.last <= proc.to
         /\ \A b \in LogsOfToken(t) : a.last >= b
         /\ a # NoAgent => /\ a.last \in EventsOf("identity") /\ chain[a.last].token = t
                           /\ chain[a.last].owner = a.owner /\ a.first <= a.last
<1>1. TypeOK /\ head \in Nat /\ "identity" \in Registries
  BY EventsAreTyped DEF IndexInv, Registries
<1>2. /\ agents[t].last \in 0 .. head /\ agents[t].first \in 0 .. head
      /\ agents[t].last <= proc.to
      /\ agents[t] = NoAgent \/ agents[t] \in [owner: Owners, first: 1 .. head, last: 1 .. head]
  BY <1>1, AgentsAreTyped DEF IndexInv, ReachOK, InBatch, TypeOK
<1>3. agents[t] # NoAgent =>
        /\ agents[t].last \in EventsOf("identity") /\ chain[agents[t].last].token = t
        /\ chain[agents[t].last].owner = agents[t].owner /\ agents[t].first <= agents[t].last
  BY DEF IndexInv, OwnerFollowsChain
<1>4. CASE LogsOfToken(t) = {}
  <2>1. a = agents[t]
    BY <1>4 DEF UpsertedAgent
  <2> QED
    BY <1>2, <1>3, <1>4, <2>1
<1>5. CASE LogsOfToken(t) # {}
  <2> DEFINE L == LogsOfToken(t)
             last == Max(L)
             first == IF agents[t] = NoAgent THEN Min(L) ELSE agents[t].first
  <2>1. /\ L \subseteq EventsOf("identity") \cap (proc.from .. proc.to) /\ L # {}
        /\ \A b \in L : chain[b].token = t
        /\ \A b \in EventsOf("identity") \cap (proc.from .. proc.to) : chain[b].token = t => b \in L
    BY <1>1, <1>5, LogsAreTheRange DEF LogsOfToken
  <2>2. EventsOf("identity") \subseteq 1 .. head
    BY <1>1, EventsAreTyped
  <2>3. L \in SUBSET (0 .. head) /\ L \in SUBSET Nat
    BY <1>1, <2>1, <2>2
  <2> HIDE DEF L
  <2>4. last \in L /\ \A b \in L : last >= b
    BY <1>1, <2>1, <2>3, MaxIsGreatest
  <2>5. Min(L) \in L /\ Min(L) <= last
    BY <2>1, <2>3, <2>4, MinIsLeast
  <2> HIDE DEF last
  <2>6. last \in 1 .. head /\ last \in proc.from .. proc.to /\ Min(L) \in 1 .. head
    BY <2>1, <2>2, <2>4, <2>5
  <2>7. last \in EventsOf("identity") /\ chain[last].token = t /\ chain[last].owner \in Owners
    BY <1>1, <2>1, <2>4, EventsAreTyped
  <2>8. agents[t].last <= last
    <3>1. proc.from \in Nat /\ proc.to \in Nat
      BY <1>1, LogsAreTheRange
    <3>2. CASE agents[t].last < proc.from
      BY <1>2, <2>6, <3>1, <3>2
    <3>3. CASE agents[t].last >= proc.from
      <4>1. agents[t] # NoAgent
        BY <1>1, <3>3, LogsAreTheRange DEF NoAgent
      <4>2. agents[t].last \in L
        BY <1>2, <1>3, <2>1, <3>1, <3>3, <4>1
      <4> QED
        BY <2>4, <4>2
    <3> QED
      BY <1>2, <3>1, <3>2, <3>3
  <2>9. first \in 1 .. head /\ first <= last
    BY <1>2, <1>3, <2>5, <2>6, <2>8
  <2> HIDE DEF first
  <2>10. a = [owner |-> chain[last].owner, first |-> first, last |-> last]
    BY <1>5 DEF UpsertedAgent, last, first, L
  <2> QED
    BY <2>4, <2>6, <2>7, <2>8, <2>9, <2>10 DEF L
<1> QED
  BY <1>4, <1>5

\* Upserts in the order of the chain leave the owner of the last event.
LEMMA StoreIdentity ==
  ASSUME IndexInv, StoreRows, proc.registry = "identity" PROVE IndexInv'
<1>1. TypeOK /\ proc.pc = "store" /\ head \in Nat /\ "identity" \in Registries
  BY EventsAreTyped DEF IndexInv, StoreRows, Registries
<1>2. /\ UNCHANGED <<chain, cursor, lost, faults, feedback, validations>>
      /\ \A t \in Tokens : agents'[t] = UpsertedAgent(t)
  BY DEF StoreRows
<1>3. OwnerFollowsChain'
  BY <1>1, <1>2, UpsertFollows DEF OwnerFollowsChain, EventsOf
<1>4. TablesGrow("identity")
  <2>1. ASSUME NEW t \in Tokens
        PROVE  /\ agents'[t] = NoAgent
                    \/ agents'[t] \in [owner: Owners, first: 1 .. head, last: 1 .. head]
               /\ agents[t].last <= agents'[t].last /\ agents'[t].last <= proc.to
    BY <1>1, <1>2, UpsertFollows
  <2>2. /\ feedback' \in [Blocks -> Nat] /\ \A b \in Blocks : feedback[b] <= feedback'[b]
        /\ validations' \in [Requests -> 0 .. head]
        /\ \A q \in Requests : validations[q] # 0 => validations'[q] = validations[q]
    BY <1>1, <1>2 DEF TypeOK
  <2>3. ASSUME NEW b \in EventsOf("identity"), b \in proc.from .. proc.to, b \notin lost["identity"]
        PROVE  Indexed(b)'
    <3>1. PICK t \in Tokens : t = chain[b].token
      BY <1>1, EventsAreTyped
    <3>2. b \in LogsOfToken(t)
      BY <1>1, <2>3, <3>1, LogsAreTheRange DEF LogsOfToken
    <3>3. agents'[t].last >= b
      BY <1>1, <1>2, <3>2, UpsertFollows
    <3>4. chain'[b] = chain[b] /\ chain[b].registry = "identity"
      BY <1>2 DEF EventsOf
    <3> QED
      BY <3>1, <3>3, <3>4 DEF Indexed
  <2> QED
    BY <2>1, <2>2, <2>3 DEF TablesGrow
<1>5. FirstRequests'
  BY <1>2 DEF IndexInv, FirstRequests, EventsOf
<1>6. \A b \in Blocks : /\ b <= cursor["reputation"] => feedback'[b] <= 1 + faults
                        /\ ~(b <= cursor["reputation"]) => feedback'[b] <= faults
  BY <1>1, <1>2 DEF IndexInv, FeedbackOK, StoredOnce
<1> QED
  BY <1>1, <1>3, <1>4, <1>5, <1>6, StoreStep

\* The reputation registry: every row of the batch is inserted, again if the batch
\* was stored before and a fault kept its cursor back.
LEMMA StoreReputation ==
  ASSUME IndexInv, StoreRows, proc.registry = "reputation" PROVE IndexInv'
<1>1. /\ TypeOK /\ proc.pc = "store" /\ head \in Nat /\ "reputation" \in Registries
      /\ faults \in Nat /\ feedback \in [Blocks -> Nat]
  BY EventsAreTyped DEF IndexInv, StoreRows, Registries, TypeOK
<1>2. /\ UNCHANGED <<chain, cursor, lost, faults, agents, validations>>
      /\ feedback' = [b \in Blocks |-> IF b \in proc.logs THEN feedback[b] + 1 ELSE feedback[b]]
  BY DEF StoreRows
<1>3. /\ proc.from = cursor["reputation"] + 1 /\ cursor["reputation"] \in Nat /\ proc.to \in Nat
      /\ proc.from <= proc.to
      /\ proc.logs \subseteq EventsOf("reputation") \cap (proc.from .. proc.to)
      /\ \A b \in EventsOf("reputation") \cap (proc.from .. proc.to) :
           b \notin lost["reputation"] => b \in proc.logs
  BY <1>1, LogsAreTheRange
<1>4. OwnerFollowsChain' /\ FirstRequests'
  BY <1>2 DEF IndexInv, OwnerFollowsChain, FirstRequests, EventsOf
<1>5. TablesGrow("reputation")
  <2>1. /\ \A t \in Tokens : /\ agents[t] = NoAgent
                                 \/ agents[t] \in [owner: Owners, first: 1 .. head, last: 1 .. head]
                             /\ agents[t].last <= agents[t].last
        /\ agents' = agents
    BY <1>1, <1>2, AgentsAreTyped DEF TypeOK
  <2>2. feedback' \in [Blocks -> Nat] /\ \A b \in Blocks : feedback[b] <= feedback'[b]
    BY <1>1, <1>2
  <2>3. /\ validations' \in [Requests -> 0 .. head]
        /\ \A q \in Requests : validations[q] # 0 => validations'[q] = validations[q]
    BY <1>1, <1>2 DEF TypeOK
  <2>4. ASSUME NEW b \in EventsOf("reputation"), b \in proc.from .. proc.to,
               b \notin lost["reputation"]
        PROVE  Indexed(b)'
    <3>1. b \in Blocks /\ chain[b].registry = "reputation"
      BY <1>1, EventsAreTyped, IndexerAssumption DEF IndexInv, Blocks, EventsOf
    <3>2. feedback'[b] > 0
      BY <1>1, <1>2, <1>3, <2>4, <3>1
    <3> QED
      BY <1>2, <3>1, <3>2 DEF Indexed
  <2> QED
    BY <2>1, <2>2, <2>3, <2>4 DEF TablesGrow
<1>6. ASSUME NEW b \in Blocks
      PROVE  /\ b <= cursor["reputation"] \/ b <= proc.to => feedback'[b] <= 1 + faults
             /\ ~(b <= cursor["reputation"] \/ b <= proc.to) => feedback'[b] <= faults
  <2>1. b \in Nat /\ feedback[b] \in Nat
    BY <1>1, IndexerAssumption DEF Blocks
  <2>2. /\ b <= cursor["reputation"] => feedback[b] <= 1 + faults
        /\ ~(b <= cursor["reputation"]) => feedback[b] <= faults
    BY <1>1 DEF IndexInv, FeedbackOK, StoredOnce
  <2>3. b \in proc.logs => b > cursor["reputation"] /\ b <= proc.to
    BY <1>3, <2>1
  <2> QED
    BY <1>1, <1>2, <1>3, <2>1, <2>2, <2>3
<1> QED
  BY <1>1, <1>4, <1>5, <1>6, StoreStep

\* The validation registry: a request keeps the row of its first event, as every
\* earlier event is already in the table.
LEMMA StoreValidation ==
  ASSUME IndexInv, StoreRows, proc.registry = "validation" PROVE IndexInv'
<1> DEFINE r == "validation"
           Of(q) == {b \in proc.logs : chain[b].request = q}
<1>1. /\ TypeOK /\ proc.pc = "store" /\ head \in Nat /\ r \in Registries
      /\ validations \in [Requests -> 0 .. head] /\ EventsOf(r) \subseteq 1 .. head
  BY EventsAreTyped DEF IndexInv, StoreRows, Registries, TypeOK
<1>2. /\ UNCHANGED <<chain, cursor, lost, faults, agents, feedback>>
      /\ validations' = [q \in Requests |-> InsertedValidation(q)]
  BY DEF StoreRows
<1>3. /\ proc.from = cursor[r] + 1 /\ cursor[r] \in Nat /\ proc.to \in Nat
      /\ proc.from <= proc.to
      /\ proc.logs \subseteq EventsOf(r) \cap (proc.from .. proc.to)
      /\ \A b \in EventsOf(r) \cap (proc.from .. proc.to) : b \notin lost[r] => b \in proc.logs
  BY <1>1, LogsAreTheRange
<1>4. ASSUME NEW q \in Requests
      PROVE  /\ validations'[q] \in 0 .. head
             /\ validations[q] # 0 => validations'[q] = validations[q]
             /\ validations[q] = 0 /\ Of(q) = {} => validations'[q] = 0
             /\ validations[q] = 0 /\ Of(q) # {} =>
                  /\ validations'[q] \in proc.from .. proc.to
                  /\ \A b \in Of(q) : validations'[q] <= b
  <2>1. validations'[q] = IF validations[q] # 0 \/ Of(q) = {} THEN validations[q] ELSE Min(Of(q))
    BY <1>2 DEF InsertedValidation
  <2>2. Of(q) \in SUBSET Nat /\ Of(q) \subseteq 1 .. head /\ Of(q) \subseteq proc.from .. proc.to
    BY <1>1, <1>3
  <2> HIDE DEF Of
  <2>3. Of(q) # {} => Min(Of(q)) \in Of(q) /\ \A b \in Of(q) : Min(Of(q)) <= b
    BY <2>2, MinIsLeast
  <2>4. validations[q] \in 0 .. head
    BY <1>1
  <2>5. CASE validations[q] # 0 \/ Of(q) = {}
    BY <2>1, <2>4, <2>5
  <2>6. CASE validations[q] = 0 /\ Of(q) # {}
    <3>1. validations'[q] = Min(Of(q))
      BY <2>1, <2>6
    <3>2. Min(Of(q)) \in 1 .. head /\ Min(Of(q)) \in proc.from .. proc.to
      BY <2>2, <2>3, <2>6
    <3> QED
      BY <1>1, <2>3, <2>6, <3>1, <3>2
  <2> QED
    BY <2>5, <2>6
<1>5. ASSUME NEW b \in EventsOf(r), NEW q \in Requests, q = chain[b].request,
             validations'[q] # 0, lost[r] = {}
      PROVE  validations'[q] <= b
  <2>1. b \in Nat /\ b \in 1 .. head /\ chain[b].registry = r
    BY <1>1 DEF EventsOf
  <2>2. CASE validations[q] # 0
    BY <1>1, <1>4, <1>5, <2>2 DEF IndexInv, FirstRequests
  <2>3. CASE validations[q] = 0
    <3>1. b > cursor[r]
      <4> SUFFICES ASSUME b <= cursor[r] PROVE FALSE
        BY <1>3, <2>1
      <4>1. Indexed(b)
        BY <1>1, <1>5 DEF IndexInv, Covered
      <4> QED
        BY <1>5, <2>1, <2>3, <4>1 DEF Indexed
    <3>2. Of(q) # {} /\ validations'[q] \in proc.from .. proc.to
      BY <1>4, <1>5, <2>3
    <3>3. CASE b <= proc.to
      <4>1. b \in Of(q)
        BY <1>3, <1>5, <2>1, <3>1, <3>3
      <4> QED
        BY <1>4, <2>3, <4>1
    <3>4. CASE b > proc.to
      BY <1>3, <2>1, <3>2, <3>4
    <3> QED
      BY <1>3, <2>1, <3>3, <3>4
  <2> QED
    BY <2>2, <2>3
<1>6. OwnerFollowsChain'
  BY <1>2 DEF IndexInv, OwnerFollowsChain, EventsOf
<1>7. FirstRequests'
  <2> SUFFICES ASSUME lost[r] = {}, NEW b \in EventsOf(r), validations'[chain[b].request] # 0
               PROVE  validations'[chain[b].request] <= b
    BY <1>2 DEF FirstRequests, EventsOf
  <2>1. chain[b].request \in Requests
    BY <1>1, EventsAreTyped
  <2> QED
    BY <1>5, <2>1
<1>8. TablesGrow(r)
  <2>1. /\ \A t \in Tokens : /\ agents[t] = NoAgent
                                 \/ agents[t] \in [owner: Owners, first: 1 .. head, last: 1 .. head]
                             /\ agents[t].last <= agents[t].last
        /\ agents' = agents
    BY <1>1, <1>2, AgentsAreTyped DEF TypeOK
  <2>2. feedback' \in [Blocks -> Nat] /\ \A b \in Blocks : feedback[b] <= feedback'[b]
    BY <1>1, <1>2 DEF TypeOK
  <2>3. /\ validations' \in [Requests -> 0 .. head]
        /\ \A q \in Requests : validations[q] # 0 => validations'[q] = validations[q]
    BY <1>2, <1>4
  <2>4. ASSUME NEW b \in EventsOf(r), b \in proc.from .. proc.to, lost[r] = {}
        PROVE  Indexed(b)'
    <3>1. PICK q \in Requests : q = chain[b].request
      BY <1>1, EventsAreTyped
    <3>2. b \in Of(q)
      BY <1>3, <2>4, <3>1
    <3>3. validations'[q] \in 0 .. head /\ validations'[q] # 0
      <4>1. proc.from \in Nat /\ proc.from > 0
        BY <1>3
      <4> QED
        BY <1>3, <1>4, <3>2, <4>1
    <3>4. validations'[q] <= b
      BY <1>5, <2>4, <3>1, <3>3
    <3>5. chain'[b] = chain[b] /\ chain[b].registry = r /\ b \in 1 .. head
      BY <1>1, <1>2 DEF EventsOf
    <3>6. validations'[q] \in 1 .. b
      BY <1>1, <3>3, <3>4, <3>5
    <3> QED
      BY <3>1, <3>5, <3>6 DEF Indexed
  <2> QED
    BY <2>1, <2>2, <2>3, <2>4 DEF TablesGrow
<1>9. \A b \in Blocks : /\ b <= cursor["reputation"] => feedback'[b] <= 1 + faults
                        /\ ~(b <= cursor["reputation"]) => feedback'[b] <= faults
  BY <1>1, <1>2 DEF IndexInv, FeedbackOK, StoredOnce
<1> QED
  BY <1>1, <1>6, <1>7, <1>8, <1>9, StoreStep

\* The invariant is inductive.
LEMMA IndexStep == IndexInv /\ [Next]_vars => IndexInv'
<1> SUFFICES ASSUME IndexInv, [Next]_vars PROVE IndexInv'
  OBVIOUS
<1>1. ASSUME NEW e \in Events, NewBlock(e) PROVE IndexInv'
  BY <1>1, NewBlockStep
<1>2. CASE StoreRows
  <2>1. proc.registry \in Registries
    BY <1>2 DEF IndexInv, BatchOK, StoreRows
  <2> QED
    BY <1>2, <2>1, StoreIdentity, StoreReputation, StoreValidation DEF Registries
<1>3. CASE UNCHANGED vars
  <2>1. (TypeOK /\ head <= MaxBlock /\ OwnerFollowsChain)'
    BY <1>3 DEF vars, IndexInv, TypeOK, head, OwnerFollowsChain, EventsOf
  <2>2. (BatchOK(proc) /\ LogsOK(proc) /\ ReachOK(proc) /\ AgentsWithinReach)'
    BY <1>3 DEF vars, IndexInv, BatchOK, LogsOK, ReachOK, AgentsWithinReach, EventsOf
  <2>3. /\ (\A r \in Registries : Covered(r, cursor[r]))'
        /\ (proc.pc = "advance" => Covered(proc.registry, proc.to))'
    BY <1>3 DEF vars, IndexInv, Covered, EventsOf, Indexed
  <2>4. (FirstRequests /\ FeedbackOK)'
    BY <1>3 DEF vars, IndexInv, FirstRequests, FeedbackOK, StoredOnce, EventsOf, Blocks
  <2> QED
    BY <2>1, <2>2, <2>3, <2>4 DEF IndexInv
<1> QED
  BY <1>1, <1>2, <1>3, WakeStep, StartBatchStep, FetchSteps, AdvanceStep, FaultSteps
     DEF Next, Loop

\* It holds in every reachable state.
LEMMA IndexAlways == Spec => []IndexInv
BY IndexInit, IndexStep, PTL DEF Spec

-----------------------------------------------------------------------------
\* Every state is well-typed: no cursor, range or row points beyond the head of
\* the chain.
THEOREM TypeCorrect == Spec => []TypeOK
<1>1. IndexInv => TypeOK
  BY DEF IndexInv
<1> QED
  BY <1>1, IndexAlways, PTL

\* The owner shown for a token is the one of the last event the table has seen,
\* through failed transactions, crashes and replayed batches (_upsert_agent).
THEOREM OwnersFollow == Spec => []OwnerFollowsChain
<1>1. IndexInv => OwnerFollowsChain
  BY DEF IndexInv
<1> QED
  BY <1>1, IndexAlways, PTL

\* A block at or below its registry's cursor is in the table, unless the node
\* answered its query with an error (_update_last_indexed_block after the rows).
THEOREM CursorMeansIndexed == Spec => []IndexedUpToCursor
<1>1. IndexInv => IndexedUpToCursor
  BY DEF IndexInv, IndexedUpToCursor, Covered
<1> QED
  BY <1>1, IndexAlways, PTL

\* The feedback table stores one event at most once more for every fault
\* (ON CONFLICT DO NOTHING never applies there).
THEOREM FaultsBoundDuplicates == Spec => []DuplicatesOnlyByFaults
<1>1. IndexInv => DuplicatesOnlyByFaults
  <2> SUFFICES ASSUME IndexInv, NEW b \in Blocks PROVE feedback[b] <= 1 + faults
    BY DEF DuplicatesOnlyByFaults
  <2>1. feedback[b] \in Nat /\ faults \in Nat
    BY IndexerAssumption DEF IndexInv, TypeOK
  <2> QED
    BY <2>1 DEF IndexInv, FeedbackOK
<1> QED
  BY <1>1, IndexAlways, PTL

=============================================================================
