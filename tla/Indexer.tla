------------------------------- MODULE Indexer ------------------------------
(***************************************************************************)
(* The ERC-8004 event indexer, rails/erc8004/indexer.py: one polling loop  *)
(* that copies the events of three registries into three tables, each with *)
(* a cursor of its own in erc8004_indexer_state.                           *)
(*                                                                         *)
(* The chain grows by one block at a time and never reorganises; a block   *)
(* carries one event of one registry here, so it is an empty block for the *)
(* other two.  The rows of a batch are one transaction, the cursor is      *)
(* another, and the process may die between the two.                       *)
(***************************************************************************)
EXTENDS Naturals, Sequences, FiniteSetsExt

CONSTANTS Tokens,         \* agent NFTs
          Owners,         \* wallet addresses
          Requests,       \* validation request hashes
          BatchSize,      \* BLOCK_BATCH_SIZE
          MaxBlock,       \* bound: length of the chain
          MaxFaults       \* bound: RPC failures, database failures and crashes

VARIABLES chain,          \* the events, by block: the canonical truth
          cursor,         \* last_indexed_block, by registry
          agents,         \* erc8004_agents, by token
          feedback,       \* feedback[b]: rows of erc8004_feedback for the event of b
          validations,    \* validations[q]: request_block of the row of q, 0 if none
          proc,           \* the polling loop
          lost,           \* blocks whose eth_getLogs answered with an error, by registry
          faults

vars == <<chain, cursor, agents, feedback, validations, proc, lost, faults>>

Registries == {"identity", "reputation", "validation"}
Blocks == 1 .. MaxBlock
head == Len(chain)

Events ==
       [registry: {"identity"}, token: Tokens, owner: Owners]
  \cup [registry: {"reputation"}, token: Tokens]
  \cup [registry: {"validation"}, request: Requests]

ASSUME IndexerAssumption ==
  BatchSize \in Nat /\ MaxBlock \in Nat /\ MaxFaults \in Nat

EventsOf(r) == {b \in DOMAIN chain : chain[b].registry = r}

NoAgent == [first |-> 0, last |-> 0]
Asleep == [registry |-> "none", pc |-> "sleep", from |-> 0, to |-> 0, logs |-> {}]
Begin(r) == [Asleep EXCEPT !.registry = r, !.pc = "begin"]

Init ==
  /\ chain = <<>>
  /\ cursor = [r \in Registries |-> 0]
  /\ agents = [t \in Tokens |-> NoAgent]
  /\ feedback = [b \in Blocks |-> 0]
  /\ validations = [q \in Requests |-> 0]
  /\ proc = Asleep
  /\ lost = [r \in Registries |-> {}]
  /\ faults = 0

-----------------------------------------------------------------------------
\* The chain produces a block.
NewBlock(e) ==
  /\ head < MaxBlock
  /\ chain' = Append(chain, e)
  /\ UNCHANGED <<cursor, agents, feedback, validations, proc, lost, faults>>

\* run_forever starts a cycle of run_once.
Wake ==
  /\ proc.pc = "sleep"
  /\ proc' = Begin("identity")
  /\ UNCHANGED <<chain, cursor, agents, feedback, validations, lost, faults>>

\* run_once: the registries in turn.  The three steps after the last one fill
\* other columns and leave the cursors alone.
After(r) == CASE r = "identity" -> Begin("reputation")
              [] r = "reputation" -> Begin("validation")
              [] r = "validation" -> Asleep

\* Mutants of Batch: the newest block is left for later; a range starts one block
\* late.
BatchLagging(last) ==
  IF last + 1 >= head THEN {} ELSE {[from |-> last + 1, to |-> Min({last + 1 + BatchSize, head})]}

BatchGap(last) ==
  IF last >= head THEN {}
  ELSE {[from |-> IF last = 0 THEN 1 ELSE Min({last + 2, head}), to |-> Min({last + 1 + BatchSize, head})]}

\* The range a cycle asks for, if there is anything new.
Batch(last) ==
  IF last >= head THEN {} ELSE {[from |-> last + 1, to |-> Min({last + 1 + BatchSize, head})]}

\* index_*_events up to eth_getLogs.
StartBatch ==
  LET r == proc.registry IN
  /\ proc.pc = "begin"
  /\ proc' = IF Batch(cursor[r]) = {} THEN After(r)
             ELSE LET k == CHOOSE k \in Batch(cursor[r]) : TRUE
                  IN [proc EXCEPT !.pc = "fetch", !.from = k.from, !.to = k.to]
  /\ UNCHANGED <<chain, cursor, agents, feedback, validations, lost, faults>>

\* _get_logs: the logs of the range.
GetLogs ==
  /\ proc.pc = "fetch"
  /\ proc' = [proc EXCEPT !.pc = "store",
                          !.logs = EventsOf(proc.registry) \cap (proc.from .. proc.to)]
  /\ UNCHANGED <<chain, cursor, agents, feedback, validations, lost, faults>>

\* The node answers {"error": ...}: result.get("result", []) is an empty list.
GetLogsError ==
  /\ proc.pc = "fetch"
  /\ faults < MaxFaults
  /\ faults' = faults + 1
  /\ lost' = [lost EXCEPT ![proc.registry] = @ \cup (proc.from .. proc.to)]
  /\ proc' = [proc EXCEPT !.pc = "store", !.logs = {}]
  /\ UNCHANGED <<chain, cursor, agents, feedback, validations>>

LogsOfToken(t) == {b \in proc.logs : chain[b].token = t}

\* Mutant of UpsertedAgent: the conflict leaves the owner column alone.
UpsertedAgentOwnerKept(t) ==
  IF LogsOfToken(t) = {} THEN agents[t]
  ELSE LET last == Max(LogsOfToken(t))
       IN [owner |-> IF agents[t] = NoAgent THEN chain[last].owner ELSE agents[t].owner,
           first |-> IF agents[t] = NoAgent THEN Min(LogsOfToken(t)) ELSE agents[t].first,
           last |-> last]

\* INSERT ... ON CONFLICT (chain, token_id) DO UPDATE, over the logs in order.
UpsertedAgent(t) ==
  IF LogsOfToken(t) = {} THEN agents[t]
  ELSE LET last == Max(LogsOfToken(t))
       IN [owner |-> chain[last].owner,
           first |-> IF agents[t] = NoAgent THEN Min(LogsOfToken(t)) ELSE agents[t].first,
           last |-> last]

\* INSERT ... ON CONFLICT (chain, request_id) DO NOTHING.
InsertedValidation(q) ==
  LET logs == {b \in proc.logs : chain[b].request = q}
  IN IF validations[q] # 0 \/ logs = {} THEN validations[q] ELSE Min(logs)

\* The transaction of a batch.  The feedback table's only key has a column the
\* insert leaves NULL, so ON CONFLICT DO NOTHING never applies there.
StoreRows ==
  LET r == proc.registry IN
  /\ proc.pc = "store"
  /\ agents' = IF r = "identity" THEN [t \in Tokens |-> UpsertedAgent(t)] ELSE agents
  /\ feedback' = IF r = "reputation"
                 THEN [b \in Blocks |-> IF b \in proc.logs THEN feedback[b] + 1 ELSE feedback[b]]
                 ELSE feedback
  /\ validations' = IF r = "validation"
                    THEN [q \in Requests |-> InsertedValidation(q)] ELSE validations
  /\ proc' = [proc EXCEPT !.pc = "advance"]
  /\ UNCHANGED <<chain, cursor, lost, faults>>

\* Mutant of AdvanceCursor: the last block of a batch is read again.
AdvanceCursorOverlaps ==
  /\ proc.pc = "advance"
  /\ cursor' = [cursor EXCEPT ![proc.registry] = Max({proc.to - 1, @})]
  /\ proc' = After(proc.registry)
  /\ UNCHANGED <<chain, agents, feedback, validations, lost, faults>>

\* _update_last_indexed_block.
AdvanceCursor ==
  /\ proc.pc = "advance"
  /\ cursor' = [cursor EXCEPT ![proc.registry] = proc.to]
  /\ proc' = After(proc.registry)
  /\ UNCHANGED <<chain, agents, feedback, validations, lost, faults>>

\* An exception after the range was chosen (a timeout, a failing statement): the
\* transaction is lost, _record_error counts it and the next registry follows.
RecordError ==
  /\ proc.pc \in {"fetch", "store", "advance"}
  /\ faults < MaxFaults
  /\ faults' = faults + 1
  /\ proc' = After(proc.registry)
  /\ UNCHANGED <<chain, cursor, agents, feedback, validations, lost>>

\* The cycle ends early: an exception outside the try blocks, or the process is
\* killed and started again.
Crash ==
  /\ proc.pc # "sleep"
  /\ faults < MaxFaults
  /\ faults' = faults + 1
  /\ proc' = Asleep
  /\ UNCHANGED <<chain, cursor, agents, feedback, validations, lost>>

Loop == Wake \/ StartBatch \/ GetLogs \/ StoreRows \/ AdvanceCursor

Next ==
  \/ \E e \in Events : NewBlock(e)
  \/ Loop
  \/ GetLogsError
  \/ RecordError
  \/ Crash

\* run_forever never stops; nothing is assumed of the chain.
Spec == Init /\ [][Next]_vars /\ WF_vars(Loop)

-----------------------------------------------------------------------------
\* No cursor passes the head of the chain, so no range is skipped for good.
TypeOK ==
  /\ chain \in Seq(Events)
  /\ cursor \in [Registries -> 0 .. head]
  /\ \A t \in Tokens : agents[t] = NoAgent
                       \/ agents[t] \in [owner: Owners, first: 1 .. head, last: 1 .. head]
  /\ feedback \in [Blocks -> Nat]
  /\ validations \in [Requests -> 0 .. head]
  /\ proc \in [registry: Registries \cup {"none"},
               pc: {"sleep", "begin", "fetch", "store", "advance"},
               from: 0 .. head, to: 0 .. head, logs: SUBSET (1 .. head)]
  /\ lost \in [Registries -> SUBSET Blocks]
  /\ faults \in 0 .. MaxFaults

\* The owner a row of erc8004_agents shows is the one of the last event it has
\* seen, however often a batch was replayed after a crash.
OwnerFollowsChain ==
  \A t \in Tokens : agents[t] # NoAgent =>
    /\ agents[t].last \in EventsOf("identity")
    /\ chain[agents[t].last].token = t
    /\ chain[agents[t].last].owner = agents[t].owner
    /\ agents[t].first <= agents[t].last

Indexed(b) ==
  CASE chain[b].registry = "identity" -> agents[chain[b].token].last >= b
    [] chain[b].registry = "reputation" -> feedback[b] > 0
    [] chain[b].registry = "validation" -> validations[chain[b].request] \in 1 .. b

\* A block at or below the cursor is in the table, unless the node answered its
\* query with an error: crashes and failed transactions lose nothing.
IndexedUpToCursor ==
  \A r \in Registries : \A b \in EventsOf(r) :
    b <= cursor[r] /\ b \notin lost[r] /\ (r = "validation" => lost[r] = {}) => Indexed(b)

\* Every cursor catches up with every block, through failures and restarts.
CatchesUp == \A b \in Blocks : head >= b ~> \A r \in Registries : cursor[r] >= b

\* ON CONFLICT DO NOTHING does not keep a replayed batch from storing its feedback
\* again, so a count may be too high: by at most one row for every failure.
DuplicatesOnlyByFaults == \A b \in Blocks : feedback[b] <= 1 + faults

=============================================================================
