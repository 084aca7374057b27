----------------------------- MODULE Delegations ----------------------------
(***************************************************************************)
(* Delegation requests of api/api-server-v2.py: an agent asks, an          *)
(* administrator approves, which puts a Delegation VC and a bonus on the   *)
(* agent's record, and anyone revokes the request.  The endpoints are      *)
(* plain functions, so calls run in threads; approve_delegation reads the  *)
(* request, then the score, and then writes both rows in one transaction.  *)
(* Policy consultation is PolicyGate's: here an approval is one that was   *)
(* permitted.  delegation_requests has the columns the code uses.          *)
(***************************************************************************)
EXTENDS ApiRequests

CONSTANTS DelegationIds,    \* request_ids
          Approvals,        \* calls of approve_delegation; each is also the id of its VC
          StartScores       \* the trust_scores that agents may start with; 0 counts as none

Bonus        == 25
DefaultScore == 58
MaxScore     == 100

ASSUME DelegationsAssumption == StartScores \subseteq [Agents -> 0 .. MaxScore]

NoRequest == [none |-> "request"]
NoVc      == [none |-> "delegation_vc"]

VARIABLES delegations,  \* delegation_requests: id -> row
          agentRow,     \* observer_agents: trust_score and delegation_vc
          approvals,    \* the calls of approve_delegation
          startScore    \* the trust_score each agent started with

dvars == <<delegations, agentRow, approvals, startScore>>

DelegationInit ==
  /\ delegations = [q \in DelegationIds |-> NoRequest]
  /\ startScore \in StartScores
  /\ agentRow = [a \in Agents |-> [score |-> startScore[a], vc |-> NoVc]]
  /\ approvals = [v \in Approvals |-> [at |-> "new"]]

\* The approvals that are through.
Granted == {v \in Approvals : approvals[v].at = "granted"}

-----------------------------------------------------------------------------
RequestDelegation(q, a) ==
  /\ Ask("delegation")
  /\ delegations[q] = NoRequest
  /\ delegations' = [delegations EXCEPT
       ![q] = [agent |-> a, status |-> "pending_approval", vc |-> NoVc]]
  /\ UNCHANGED <<agentRow, approvals, startScore>>

RevokeDelegation(q) ==
  /\ Ask("delegation")
  /\ delegations[q] # NoRequest
  /\ delegations[q].status # "revoked"
  /\ delegations' = [delegations EXCEPT ![q].status = "revoked"]
  /\ UNCHANGED <<agentRow, approvals, startScore>>

\* SELECT ... WHERE status = 'pending_approval'.
ApproveSelect(v, q) ==
  /\ Ask("delegation")
  /\ approvals[v].at = "new"
  /\ delegations[q] # NoRequest
  /\ delegations[q].status = "pending_approval"
  /\ approvals' = [approvals EXCEPT ![v] =
       [at |-> "selected", request |-> q, agent |-> delegations[q].agent]]
  /\ UNCHANGED <<delegations, agentRow, startScore>>

\* Mutant: a missing score counts as 0.
WithBonusNoDefault(score) == IF score + Bonus > MaxScore THEN MaxScore ELSE score + Bonus

\* A score of None or 0 counts as 58.
WithBonus(score) ==
  LET new == (IF score = 0 THEN DefaultScore ELSE score) + Bonus
  IN  IF new > MaxScore THEN MaxScore ELSE new

\* The agent's committed score is read and the VC issued over the request.
ApproveIssue(v) ==
  /\ approvals[v].at = "selected"
  /\ LET p == approvals[v]
     IN  approvals' = [approvals EXCEPT ![v] =
           [at |-> "issued", request |-> p.request, agent |-> p.agent,
            score |-> WithBonus(agentRow[p.agent].score)]]
  /\ UNCHANGED <<delegations, agentRow, startScore, left>>

\* Mutant: only the UPDATE of the request asks that it is still pending.
ApproveCommitGuarded(v) ==
  /\ approvals[v].at = "issued"
  /\ LET p == approvals[v]
     IN  /\ agentRow' = [agentRow EXCEPT ![p.agent] = [score |-> p.score, vc |-> [vc |-> v]]]
         /\ delegations' =
              IF delegations[p.request].status = "pending_approval"
              THEN [delegations EXCEPT ![p.request].status = "approved",
                                       ![p.request].vc = [vc |-> v]]
              ELSE delegations
  /\ approvals' = [approvals EXCEPT ![v].at = "granted"]
  /\ UNCHANGED <<startScore, left>>

\* UPDATE observer_agents and UPDATE delegation_requests, each by id alone,
\* in one transaction: a revocation since the SELECT is overwritten.
ApproveCommit(v) ==
  /\ approvals[v].at = "issued"
  /\ LET p == approvals[v]
     IN  /\ agentRow' = [agentRow EXCEPT ![p.agent] = [score |-> p.score, vc |-> [vc |-> v]]]
         /\ delegations' = [delegations EXCEPT ![p.request].status = "approved",
                                               ![p.request].vc = [vc |-> v]]
  /\ approvals' = [approvals EXCEPT ![v].at = "granted"]
  /\ UNCHANGED <<startScore, left>>

\* The process stops or a statement fails before the commit: nothing is kept.
ApproveFails(v) ==
  /\ approvals[v].at \in {"selected", "issued"}
  /\ approvals' = [approvals EXCEPT ![v].at = "failed"]
  /\ UNCHANGED <<delegations, agentRow, startScore, left>>

DelegationNext ==
  \/ \E q \in DelegationIds : \/ \E a \in Agents : RequestDelegation(q, a)
                              \/ RevokeDelegation(q)
                              \/ \E v \in Approvals : ApproveSelect(v, q)
  \/ \E v \in Approvals : ApproveIssue(v) \/ ApproveCommit(v) \/ ApproveFails(v)

-----------------------------------------------------------------------------
DelegationTypeOK ==
  /\ \A q \in DelegationIds : delegations[q] = NoRequest \/
       /\ delegations[q].agent \in Agents
       /\ delegations[q].status \in {"pending_approval", "approved", "revoked"}
       /\ delegations[q].vc \in {NoVc} \cup {[vc |-> v] : v \in Approvals}
  /\ agentRow \in [Agents -> [score : 0 .. MaxScore, vc : {NoVc} \cup {[vc |-> v] : v \in Approvals}]]
  /\ \A v \in Approvals : approvals[v].at \in {"new", "selected", "issued", "granted", "failed"}

\* The Delegation VC on an agent's record is the one its request names, even
\* when approvals of one request, of two requests of the agent, and
\* revocations overlap: whoever reads the VC's scope from the request finds
\* the scope of that VC.
AgentVcIsItsRequests ==
  \A a \in Agents, v \in Approvals : agentRow[a].vc = [vc |-> v] =>
    /\ approvals[v].agent = a
    /\ delegations[approvals[v].request].vc = [vc |-> v]

\* An agent's trust_score is earned: at most one bonus for each approval that
\* went through and, once any did, at least one, up to the limit of 100.
\* (Overlapping approvals may lose a bonus, never add one.)
ScoreBacked ==
  \A a \in Agents :
    LET mine == {v \in Granted : approvals[v].agent = a}
        base == IF startScore[a] = 0 THEN DefaultScore ELSE startScore[a]
    IN  /\ mine = {} => agentRow[a].score = startScore[a]
        /\ mine # {} => /\ (agentRow[a].score >= base + Bonus \/ agentRow[a].score = MaxScore)
                        /\ agentRow[a].score <= base + Bonus * Cardinality(mine)

=============================================================================
