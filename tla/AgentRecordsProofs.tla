------------------------- MODULE AgentRecordsProofs -------------------------
(***************************************************************************)
(* Proofs about the records kept of an agent, for every number of agents,  *)
(* requests and calls.  Each service has an inductive invariant over its   *)
(* own tables, which a step of any other service leaves alone; the last    *)
(* section puts them together for AgentRecords.                            *)
(***************************************************************************)
EXTENDS AgentRecords, FiniteSetTheorems, TLAPS

(***************************************************************************)
(* Delegations                                                             *)
(***************************************************************************)
VcRefs   == {NoVc} \cup {[vc |-> v] : v \in Approvals}
Request  == [agent : Agents, status : {"pending_approval", "approved", "revoked"}, vc : VcRefs]
Approval == [at : {"new"}] \cup [at : {"selected", "failed"}, request : DelegationIds, agent : Agents]
              \cup [at : {"issued", "granted", "failed"}, request : DelegationIds, agent : Agents,
                    score : 0 .. MaxScore]

\* What an agent's first bonus is added to, and the approvals that gave it one.
Base(a) == IF startScore[a] = 0 THEN DefaultScore ELSE startScore[a]
Mine(a) == {v \in Granted : approvals[v].agent = a}

\* A score of the agent that holds at least one bonus and at most n.
Earned(score, a, n) ==
  (score >= Base(a) + Bonus \/ score = MaxScore) /\ score <= Base(a) + Bonus * n

DelegationShape ==
  /\ delegations \in [DelegationIds -> Request \cup {NoRequest}]
  /\ agentRow \in [Agents -> [score : 0 .. MaxScore, vc : VcRefs]]
  /\ approvals \in [Approvals -> Approval]
  /\ startScore \in [Agents -> 0 .. MaxScore]

\* An approval is for the agent of its request, whose row stays.
ApprovalsAreOfRequests ==
  \A v \in Approvals : approvals[v].at # "new" =>
    /\ delegations[approvals[v].request] # NoRequest
    /\ delegations[approvals[v].request].agent = approvals[v].agent

\* Only an approval that went through put its VC on an agent's record.
VcsAreGranted == \A a \in Agents, v \in Approvals : agentRow[a].vc = [vc |-> v] => v \in Granted

\* What approvals have gone through is what an agent's score holds.
ScoresAreEarned ==
  \A a \in Agents : /\ Mine(a) = {} => agentRow[a].score = startScore[a]
                    /\ Mine(a) # {} => Earned(agentRow[a].score, a, Cardinality(Mine(a)))

\* The score an approval is about to write has one bonus more, at most, than
\* approvals have gone through.
IssuedScoresAreEarned ==
  \A v \in Approvals, a \in Agents : approvals[v].at = "issued" /\ approvals[v].agent = a =>
    Earned(approvals[v].score, a, Cardinality(Mine(a)) + 1)

\* The inductive invariant of the delegations.  That finitely many approvals have
\* gone through holds of every behaviour, however many calls may be made.
DelegationInv ==
  /\ DelegationShape /\ ApprovalsAreOfRequests /\ VcsAreGranted /\ AgentVcIsItsRequests
  /\ IsFiniteSet(Granted) /\ ScoresAreEarned /\ IssuedScoresAreEarned

\* A row is not the marker for no row.
LEMMA RequestIsThere == \A r \in Request : r # NoRequest
<1> SUFFICES ASSUME NEW r \in Request, r = NoRequest PROVE FALSE
  OBVIOUS
<1>1. "agent" \in DOMAIN r
  BY DEF Request
<1>2. "agent" \notin DOMAIN NoRequest
  BY DEF NoRequest
<1> QED
  BY <1>1, <1>2

\* The reference to one VC is no other's, and not the absence of one.
LEMMA VcRefsDiffer ==
  ASSUME NEW v, NEW w
  PROVE  ([vc |-> v] = [vc |-> w] => v = w) /\ NoVc # [vc |-> v]
<1>1. [vc |-> v].vc = v /\ [vc |-> w].vc = w
  OBVIOUS
<1>2. "none" \in DOMAIN NoVc /\ "none" \notin DOMAIN [vc |-> v]
  BY DEF NoVc
<1> QED
  BY <1>1, <1>2

\* What the runs check of the delegations follows from the invariant.
LEMMA DelegationInvIsSafe == DelegationInv => AgentVcIsItsRequests /\ ScoreBacked
<1> SUFFICES ASSUME DelegationInv PROVE ScoreBacked
  BY DEF DelegationInv
<1>1. \A a \in Agents : agentRow[a].score \in 0 .. MaxScore /\ startScore[a] \in 0 .. MaxScore
  BY DEF DelegationInv, DelegationShape
<1> QED
  BY <1>1 DEF DelegationInv, ScoresAreEarned, ScoreBacked, Mine, Earned, Base

\* Of finitely many grants an agent's are finitely many.
LEMMA MineIsFinite ==
  ASSUME IsFiniteSet(Granted), NEW a
  PROVE  IsFiniteSet(Mine(a)) /\ Cardinality(Mine(a)) \in Nat
         /\ (Mine(a) # {} => Cardinality(Mine(a)) >= 1)
<1>1. IsFiniteSet(Mine(a))
  BY FS_Subset DEF Mine
<1>2. Cardinality(Mine(a)) \in Nat /\ (Cardinality(Mine(a)) = 0 <=> Mine(a) = {})
  BY <1>1, FS_CardinalityType, FS_EmptySet
<1> QED
  BY <1>1, <1>2

\* No request was made yet: the invariant holds.
LEMMA DelegationStarts == DelegationInit => DelegationInv
<1> SUFFICES ASSUME DelegationInit PROVE DelegationInv
  OBVIOUS
<1>1. DelegationShape
  <2>1. startScore \in [Agents -> 0 .. MaxScore]
    BY DelegationsAssumption DEF DelegationInit
  <2>2. [at |-> "new"] \in Approval
    BY DEF Approval
  <2>3. NoVc \in VcRefs
    BY DEF VcRefs
  <2> QED
    BY <2>1, <2>2, <2>3 DEF DelegationInit, DelegationShape
<1>2. Granted = {} /\ \A a : Mine(a) = {}
  BY DEF DelegationInit, Granted, Mine
<1>3. ApprovalsAreOfRequests /\ IssuedScoresAreEarned
  BY DEF DelegationInit, ApprovalsAreOfRequests, IssuedScoresAreEarned
<1>4. VcsAreGranted /\ AgentVcIsItsRequests
  BY VcRefsDiffer DEF DelegationInit, VcsAreGranted, AgentVcIsItsRequests
<1>5. ScoresAreEarned
  BY <1>2 DEF DelegationInit, ScoresAreEarned
<1> QED
  BY <1>1, <1>2, <1>3, <1>4, <1>5, FS_EmptySet DEF DelegationInv

\* A call that has not gone through, and does not now, moves on.
LEMMA ApprovalMoves ==
  ASSUME DelegationInv, NEW v \in Approvals, NEW x \in Approval,
         approvals[v].at # "granted", x.at # "granted",
         approvals' = [approvals EXCEPT ![v] = x],
         x.at # "new" => /\ delegations[x.request] # NoRequest
                         /\ delegations[x.request].agent = x.agent,
         x.at = "issued" => Earned(x.score, x.agent, Cardinality(Mine(x.agent)) + 1),
         UNCHANGED <<delegations, agentRow, startScore>>
  PROVE  DelegationInv'
<1>1. DelegationShape'
  BY DEF DelegationInv, DelegationShape
<1>2. \A w \in Approvals : approvals'[w] = IF w = v THEN x ELSE approvals[w]
  BY DEF DelegationInv, DelegationShape
<1>3. Granted' = Granted /\ \A a : Mine(a)' = Mine(a)
  BY <1>2 DEF Granted, Mine
<1>4. ApprovalsAreOfRequests'
  BY <1>2 DEF DelegationInv, ApprovalsAreOfRequests
<1>5. VcsAreGranted'
  BY <1>3 DEF DelegationInv, VcsAreGranted
<1>6. AgentVcIsItsRequests'
  <2> SUFFICES ASSUME NEW a \in Agents, NEW w \in Approvals, agentRow[a].vc = [vc |-> w]
               PROVE  approvals'[w].agent = a /\ delegations[approvals'[w].request].vc = [vc |-> w]
    BY DEF AgentVcIsItsRequests
  <2>1. w # v
    BY DEF DelegationInv, VcsAreGranted, Granted
  <2> QED
    BY <1>2, <2>1 DEF DelegationInv, AgentVcIsItsRequests
<1>8. ScoresAreEarned'
  BY <1>3 DEF DelegationInv, ScoresAreEarned, Earned, Base
<1>9. IssuedScoresAreEarned'
  BY <1>2, <1>3 DEF DelegationInv, IssuedScoresAreEarned, Earned, Base
<1> QED
  BY <1>1, <1>3, <1>4, <1>5, <1>6, <1>8, <1>9 DEF DelegationInv

\* A request is new, or is of the same agent and names the same VC as before.
LEMMA RequestMoves ==
  ASSUME DelegationInv, NEW q \in DelegationIds, NEW row \in Request,
         delegations' = [delegations EXCEPT ![q] = row],
         delegations[q] # NoRequest => /\ row.agent = delegations[q].agent
                                       /\ row.vc = delegations[q].vc,
         UNCHANGED <<approvals, agentRow, startScore>>
  PROVE  DelegationInv'
<1>1. DelegationShape'
  BY DEF DelegationInv, DelegationShape
<1>2. \A p \in DelegationIds : delegations'[p] = IF p = q THEN row ELSE delegations[p]
  BY DEF DelegationInv, DelegationShape
<1>3. Granted' = Granted /\ \A a : Mine(a)' = Mine(a)
  BY DEF Granted, Mine
<1>4. \A v \in Approvals : approvals[v].at # "new" => approvals[v].request \in DelegationIds
  BY DEF DelegationInv, DelegationShape, Approval
<1>5. ApprovalsAreOfRequests'
  BY <1>2, <1>4, RequestIsThere DEF DelegationInv, ApprovalsAreOfRequests
<1>6. VcsAreGranted'
  BY <1>3 DEF DelegationInv, VcsAreGranted
<1>7. AgentVcIsItsRequests'
  <2> SUFFICES ASSUME NEW a \in Agents, NEW v \in Approvals, agentRow[a].vc = [vc |-> v]
               PROVE  /\ approvals[v].agent = a
                      /\ delegations'[approvals[v].request].vc = [vc |-> v]
    BY DEF AgentVcIsItsRequests
  <2>1. approvals[v].at # "new"
    BY DEF DelegationInv, VcsAreGranted, Granted
  <2> QED
    BY <1>2, <1>4, <2>1 DEF DelegationInv, AgentVcIsItsRequests, ApprovalsAreOfRequests
<1>8. ScoresAreEarned' /\ IssuedScoresAreEarned'
  BY <1>3 DEF DelegationInv, ScoresAreEarned, IssuedScoresAreEarned, Earned, Base
<1> QED
  BY <1>1, <1>3, <1>5, <1>6, <1>7, <1>8 DEF DelegationInv

\* One bonus more, in numbers.
LEMMA OneMoreBonus ==
  ASSUME NEW n \in Nat
  PROVE  Bonus * n \in Nat /\ Bonus * (n + 1) = Bonus * n + Bonus
BY DEF Bonus

\* The score that WithBonus makes of an agent's is one bonus further.
LEMMA BonusIsEarned ==
  ASSUME DelegationInv, NEW a \in Agents
  PROVE  /\ WithBonus(agentRow[a].score) \in 0 .. MaxScore
         /\ Earned(WithBonus(agentRow[a].score), a, Cardinality(Mine(a)) + 1)
<1>1. agentRow[a].score \in 0 .. MaxScore /\ startScore[a] \in 0 .. MaxScore
  BY DEF DelegationInv, DelegationShape
<1>2. Base(a) \in 1 .. MaxScore
  BY <1>1 DEF Base, MaxScore, DefaultScore
<1>3. CASE Mine(a) = {}
  <2>1. agentRow[a].score = startScore[a] /\ Cardinality(Mine(a)) = 0
    BY <1>3, FS_EmptySet DEF DelegationInv, ScoresAreEarned
  <2> QED
    BY <1>1, <1>2, <2>1 DEF WithBonus, Earned, Base, Bonus, MaxScore, DefaultScore
<1>4. CASE Mine(a) # {}
  <2>1. Earned(agentRow[a].score, a, Cardinality(Mine(a))) /\ Cardinality(Mine(a)) \in Nat
    BY <1>4, MineIsFinite DEF DelegationInv, ScoresAreEarned
  <2>2. Bonus * Cardinality(Mine(a)) \in Nat
        /\ Bonus * (Cardinality(Mine(a)) + 1) = Bonus * Cardinality(Mine(a)) + Bonus
    BY <2>1, OneMoreBonus
  <2>3. agentRow[a].score # 0
    BY <1>2, <2>1 DEF Earned, Bonus, MaxScore
  <2>4. WithBonus(agentRow[a].score)
          = IF agentRow[a].score + Bonus > MaxScore THEN MaxScore ELSE agentRow[a].score + Bonus
    BY <2>3 DEF WithBonus
  <2>5. Bonus \in Nat /\ MaxScore \in Nat
    BY DEF Bonus, MaxScore
  <2> QED
    BY <1>1, <1>2, <2>1, <2>2, <2>4, <2>5 DEF Earned
<1> QED
  BY <1>3, <1>4

\* An approval goes through: its VC and its score are the agent's, its VC the
\* request's.
LEMMA CommitApproves ==
  ASSUME DelegationInv, NEW v \in Approvals, ApproveCommit(v)
  PROVE  DelegationInv'
<1>1. PICK q \in DelegationIds, b \in Agents, s \in 0 .. MaxScore :
        /\ approvals[v].request = q /\ approvals[v].agent = b /\ approvals[v].score = s
        /\ approvals[v].at = "issued"
        /\ delegations[q] \in Request /\ delegations[q].agent = b
  BY DEF ApproveCommit, DelegationInv, DelegationShape, Approval, ApprovalsAreOfRequests
<1>2. /\ delegations' \in [DelegationIds -> Request \cup {NoRequest}]
      /\ \A p \in DelegationIds : p # q => delegations'[p] = delegations[p]
      /\ delegations'[q] \in Request /\ delegations'[q].agent = b
      /\ delegations'[q].vc = [vc |-> v]
  <2>1. [delegations[q] EXCEPT !.status = "approved", !.vc = [vc |-> v]] \in Request
    BY <1>1 DEF Request, VcRefs
  <2>2. delegations' = [delegations EXCEPT
           ![q] = [delegations[q] EXCEPT !.status = "approved", !.vc = [vc |-> v]]]
    BY <1>1 DEF ApproveCommit, DelegationInv, DelegationShape
  <2> QED
    BY <1>1, <2>1, <2>2 DEF DelegationInv, DelegationShape, Request
<1>3. /\ agentRow' = [agentRow EXCEPT ![b] = [score |-> s, vc |-> [vc |-> v]]]
      /\ agentRow' \in [Agents -> [score : 0 .. MaxScore, vc : VcRefs]]
      /\ startScore' = startScore
  BY <1>1 DEF ApproveCommit, DelegationInv, DelegationShape, VcRefs
<1>4. /\ approvals' \in [Approvals -> Approval]
      /\ approvals'[v].at = "granted" /\ approvals'[v].request = q /\ approvals'[v].agent = b
      /\ \A w \in Approvals : w # v => approvals'[w] = approvals[w]
  <2>1. [approvals[v] EXCEPT !.at = "granted"] \in Approval
    BY <1>1 DEF DelegationInv, DelegationShape, Approval
  <2> QED
    BY <1>1, <2>1 DEF ApproveCommit, DelegationInv, DelegationShape, Approval
<1>5. Granted' = Granted \cup {v} /\ v \notin Granted
  BY <1>1, <1>4 DEF Granted
<1>6. Mine(b)' = Mine(b) \cup {v} /\ v \notin Mine(b)
      /\ \A a : a # b => Mine(a)' = Mine(a)
  BY <1>4, <1>5 DEF Mine, Granted
<1>7. /\ Cardinality(Mine(b)') = Cardinality(Mine(b)) + 1
      /\ \A a : Cardinality(Mine(a)) \in Nat
  <2>1. \A a : IsFiniteSet(Mine(a)) /\ Cardinality(Mine(a)) \in Nat
    BY MineIsFinite DEF DelegationInv
  <2> QED
    BY <1>6, <2>1, FS_AddElement
<1>8. DelegationShape' /\ IsFiniteSet(Granted')
  BY <1>2, <1>3, <1>4, <1>5, FS_AddElement DEF DelegationInv, DelegationShape
<1>9. ApprovalsAreOfRequests'
  BY <1>1, <1>2, <1>4, RequestIsThere
     DEF DelegationInv, DelegationShape, Approval, ApprovalsAreOfRequests
<1>10. \A a \in Agents, w \in Approvals : agentRow'[a].vc = [vc |-> w] =>
         \/ a = b /\ w = v
         \/ a # b /\ w # v /\ agentRow[a].vc = [vc |-> w] /\ w \in Granted
  BY <1>3, <1>5, VcRefsDiffer DEF DelegationInv, DelegationShape, VcsAreGranted
<1>11. VcsAreGranted'
  BY <1>5, <1>10 DEF VcsAreGranted
<1>12. AgentVcIsItsRequests'
  <2> SUFFICES ASSUME NEW a \in Agents, NEW w \in Approvals, agentRow'[a].vc = [vc |-> w]
               PROVE  /\ approvals'[w].agent = a
                      /\ delegations'[approvals'[w].request].vc = [vc |-> w]
    BY DEF AgentVcIsItsRequests
  <2>1. CASE a = b /\ w = v
    BY <2>1, <1>2, <1>4
  <2>2. CASE a # b /\ w # v /\ agentRow[a].vc = [vc |-> w] /\ w \in Granted
    <3>1. approvals[w].agent = a /\ delegations[approvals[w].request].vc = [vc |-> w]
      BY <2>2 DEF DelegationInv, AgentVcIsItsRequests
    <3>2. approvals[w].request # q /\ approvals[w].request \in DelegationIds
      BY <1>1, <2>2, <3>1
         DEF DelegationInv, DelegationShape, ApprovalsAreOfRequests, Granted, Approval
    <3> QED
      BY <1>2, <1>4, <2>2, <3>1, <3>2
  <2> QED
    BY <1>10, <2>1, <2>2
<1>14. ScoresAreEarned'
  <2> SUFFICES ASSUME NEW a \in Agents
               PROVE  /\ Mine(a)' = {} => agentRow'[a].score = startScore'[a]
                      /\ Mine(a)' # {} => Earned(agentRow'[a].score, a, Cardinality(Mine(a)'))
    BY <1>3 DEF ScoresAreEarned, Earned, Base
  <2>1. CASE a = b
    <3>1. Earned(s, b, Cardinality(Mine(b)) + 1) /\ agentRow'[b].score = s
      BY <1>1, <1>3 DEF DelegationInv, DelegationShape, IssuedScoresAreEarned
    <3> QED
      BY <1>6, <1>7, <2>1, <3>1
  <2>2. CASE a # b
    BY <1>3, <1>6, <2>2 DEF DelegationInv, DelegationShape, ScoresAreEarned
  <2> QED
    BY <2>1, <2>2
<1>15. IssuedScoresAreEarned'
  <2> SUFFICES ASSUME NEW w \in Approvals, NEW a \in Agents,
                      approvals'[w].at = "issued", approvals'[w].agent = a
               PROVE  Earned(approvals'[w].score, a, Cardinality(Mine(a)') + 1)
    BY <1>3 DEF IssuedScoresAreEarned, Earned, Base
  <2>1. /\ w # v /\ approvals'[w] = approvals[w] /\ approvals[w].score \in 0 .. MaxScore
    BY <1>4 DEF DelegationInv, DelegationShape, Approval
  <2>2. Earned(approvals[w].score, a, Cardinality(Mine(a)) + 1)
    BY <2>1 DEF DelegationInv, IssuedScoresAreEarned
  <2>3. Base(a) \in 0 .. MaxScore
    BY <2>1 DEF DelegationInv, DelegationShape, Base, MaxScore, DefaultScore
  <2>4. CASE a = b
    <3> DEFINE n == Cardinality(Mine(b))
    <3>1. n \in Nat /\ Cardinality(Mine(b)') = n + 1 /\ n + 1 \in Nat
      BY <1>7
    <3>2. Bonus * (n + 1 + 1) = Bonus * (n + 1) + Bonus /\ Bonus * (n + 1) \in Nat /\ Bonus \in Nat
      BY <3>1, OneMoreBonus DEF Bonus
    <3> HIDE DEF n
    <3> QED
      BY <2>1, <2>2, <2>3, <2>4, <3>1, <3>2 DEF Earned, n
  <2>5. CASE a # b
    BY <1>6, <2>1, <2>2, <2>5
  <2> QED
    BY <2>4, <2>5
<1> QED
  BY <1>8, <1>9, <1>11, <1>12, <1>14, <1>15 DEF DelegationInv

\* No handler of a delegation request breaks the invariant, in any order of their halves.
LEMMA DelegationSteps ==
  ASSUME DelegationInv, DelegationNext \/ UNCHANGED dvars
  PROVE  DelegationInv'
<1>1. ASSUME NEW q \in DelegationIds, NEW a \in Agents, RequestDelegation(q, a)
      PROVE  DelegationInv'
  <2>1. [agent |-> a, status |-> "pending_approval", vc |-> NoVc] \in Request
    BY DEF Request, VcRefs
  <2> QED
    BY <1>1, <2>1, RequestMoves DEF RequestDelegation
<1>2. ASSUME NEW q \in DelegationIds, RevokeDelegation(q)
      PROVE  DelegationInv'
  <2> DEFINE row == [delegations[q] EXCEPT !.status = "revoked"]
  <2>1. delegations[q] \in Request
    BY <1>2 DEF RevokeDelegation, DelegationInv, DelegationShape
  <2>2. row \in Request /\ row.agent = delegations[q].agent /\ row.vc = delegations[q].vc
    BY <2>1 DEF Request
  <2>3. delegations' = [delegations EXCEPT ![q] = row]
    BY <1>2 DEF RevokeDelegation
  <2> HIDE DEF row
  <2> QED
    BY <1>2, <2>2, <2>3, RequestMoves DEF RevokeDelegation
<1>3. ASSUME NEW v \in Approvals, NEW q \in DelegationIds, ApproveSelect(v, q)
      PROVE  DelegationInv'
  <2> DEFINE x == [at |-> "selected", request |-> q, agent |-> delegations[q].agent]
  <2>1. delegations[q] \in Request
    BY <1>3 DEF ApproveSelect, DelegationInv, DelegationShape
  <2>2. x \in Approval /\ x.at = "selected" /\ x.request = q /\ x.agent = delegations[q].agent
    BY <2>1 DEF Approval, Request
  <2>3. approvals' = [approvals EXCEPT ![v] = x]
    BY <1>3 DEF ApproveSelect
  <2> HIDE DEF x
  <2> QED
    BY <1>3, <2>2, <2>3, ApprovalMoves DEF ApproveSelect
<1>4. ASSUME NEW v \in Approvals, ApproveIssue(v)
      PROVE  DelegationInv'
  <2> DEFINE p == approvals[v]
             x == [at |-> "issued", request |-> p.request, agent |-> p.agent,
                   score |-> WithBonus(agentRow[p.agent].score)]
  <2>1. /\ p.request \in DelegationIds /\ p.agent \in Agents
        /\ delegations[p.request] # NoRequest /\ delegations[p.request].agent = p.agent
    BY <1>4 DEF ApproveIssue, DelegationInv, DelegationShape, Approval, ApprovalsAreOfRequests
  <2>2. /\ WithBonus(agentRow[p.agent].score) \in 0 .. MaxScore
        /\ Earned(WithBonus(agentRow[p.agent].score), p.agent, Cardinality(Mine(p.agent)) + 1)
    BY <2>1, BonusIsEarned
  <2>3. /\ x \in Approval /\ x.at = "issued" /\ x.request = p.request /\ x.agent = p.agent
        /\ x.score = WithBonus(agentRow[p.agent].score)
    BY <2>1, <2>2 DEF Approval
  <2>4. approvals' = [approvals EXCEPT ![v] = x] /\ p.at # "granted"
    BY <1>4 DEF ApproveIssue
  <2> HIDE DEF x
  <2> QED
    BY <1>4, <2>1, <2>2, <2>3, <2>4, ApprovalMoves DEF ApproveIssue
<1>5. ASSUME NEW v \in Approvals, ApproveFails(v)
      PROVE  DelegationInv'
  <2> DEFINE x == [approvals[v] EXCEPT !.at = "failed"]
  <2>1. approvals[v] \in Approval /\ approvals[v].at \in {"selected", "issued"}
    BY <1>5 DEF ApproveFails, DelegationInv, DelegationShape
  <2>2. /\ x \in Approval /\ x.at = "failed" /\ x.request = approvals[v].request
        /\ x.agent = approvals[v].agent
    BY <2>1 DEF Approval
  <2>3. /\ delegations[approvals[v].request] # NoRequest
        /\ delegations[approvals[v].request].agent = approvals[v].agent
    BY <2>1 DEF DelegationInv, ApprovalsAreOfRequests
  <2>4. /\ approvals' = [approvals EXCEPT ![v] = x] /\ approvals[v].at # "granted"
        /\ UNCHANGED <<delegations, agentRow, startScore>>
    BY <1>5, <2>1 DEF ApproveFails
  <2>5. x.at # "granted" /\ x.at # "issued"
    BY <2>2
  <2> HIDE DEF x
  <2> QED
    BY <2>2, <2>3, <2>4, <2>5, ApprovalMoves
<1>6. CASE UNCHANGED dvars
  <2>1. Granted' = Granted /\ \A a : Mine(a)' = Mine(a)
    BY <1>6 DEF dvars, Granted, Mine
  <2>2. (DelegationShape /\ ApprovalsAreOfRequests /\ VcsAreGranted /\ AgentVcIsItsRequests)'
    BY <1>6, <2>1 DEF dvars, DelegationInv, DelegationShape, ApprovalsAreOfRequests, VcsAreGranted,
                      AgentVcIsItsRequests
  <2>3. ScoresAreEarned' /\ IssuedScoresAreEarned'
    BY <1>6, <2>1 DEF dvars, DelegationInv, ScoresAreEarned, IssuedScoresAreEarned, Earned, Base
  <2> QED
    BY <2>1, <2>2, <2>3 DEF DelegationInv
<1>7. ASSUME NEW v \in Approvals, ApproveCommit(v)
      PROVE  DelegationInv'
  BY <1>7, CommitApproves
<1>8. CASE DelegationNext
  BY <1>1, <1>2, <1>3, <1>4, <1>5, <1>7, <1>8, Zenon DEF DelegationNext
<1> QED
  BY <1>6, <1>8

(***************************************************************************)
(* Verified agent credentials                                              *)
(***************************************************************************)
Vc     == [agent : Agents, expires : Nat]
VacRow == [agent : Agents, issued : Nat, expires : Nat, revoked : BOOLEAN]
Read   == [at : {"new"}]
            \cup [at : {"generate", "fetch", "generated", "not found"}, agent : Agents,
                  extensions : BOOLEAN, before : SUBSET Creds]
            \cup [at : {"served"}, agent : Agents, before : SUBSET Creds, cred : Creds, when : Nat]

\* The tables are true, and what is listed as revoked is stored.
VacTablesInv ==
  /\ schema \in Schemas /\ now \in 0 .. MaxNow
  /\ vcs \in [VacIds -> Vc \cup {NoVac}]
  /\ creds \in [Creds -> VacRow \cup {NoCred}]
  /\ listed \subseteq Stored
  /\ RowsAreTrue

\* What a call remembers as revoked is listed; what it served was none of that and
\* is a VC that had not expired.
ReadOK(r) ==
  /\ r.at # "new" => r.before \subseteq listed
  /\ r.at = "served" =>
       /\ r.cred \notin r.before
       /\ HasExpiry(r.cred) => vcs[r.cred] # NoVac /\ vcs[r.cred].expires > r.when

ReadsInv == reads \in [Reads -> Read] /\ \A g \in Reads : ReadOK(reads[g])

\* The inductive invariant of the credentials.
VacInv == VacTablesInv /\ ReadsInv

\* What every step keeps: a VC that was issued, an entry of the registry, and the
\* revocation of a row.
VacStands ==
  /\ \A i \in VacIds : vcs[i] # NoVac => vcs'[i] = vcs[i]
  /\ listed \subseteq listed'
  /\ \A c \in Stored : creds[c].revoked => creds'[c] # NoCred /\ creds'[c].revoked

\* A VC is not the marker for none.
LEMMA VcIsThere == \A x \in Vc : x # NoVac
<1> SUFFICES ASSUME NEW x \in Vc, x = NoVac PROVE FALSE
  OBVIOUS
<1>1. "agent" \in DOMAIN x /\ "agent" \notin DOMAIN NoVac
  BY DEF Vc, NoVac
<1> QED
  BY <1>1

\* A row of vac_credentials is not the marker for none.
LEMMA VacRowIsThere == \A x \in VacRow : x # NoCred
<1> SUFFICES ASSUME NEW x \in VacRow, x = NoCred PROVE FALSE
  OBVIOUS
<1>1. "agent" \in DOMAIN x /\ "agent" \notin DOMAIN NoCred
  BY DEF VacRow, NoCred
<1> QED
  BY <1>1

\* Before the first request the tables are true and nobody reads.
LEMMA VacStarts == VacInit => VacInv
<1> SUFFICES ASSUME VacInit PROVE VacInv
  OBVIOUS
<1>1. VacTablesInv
  BY VacAssumption DEF VacInit, VacTablesInv, Stored, RowsAreTrue
<1>2. [at |-> "new"] \in Read
  BY DEF Read
<1>3. ReadsInv
  BY <1>2 DEF VacInit, ReadsInv, ReadOK
<1> QED
  BY <1>1, <1>3 DEF VacInv

\* generate_vac: the id was not issued, so that its row is new and not listed.
LEMMA GenerateIsTrue ==
  ASSUME VacTablesInv, NEW i \in VacIds, NEW a \in Agents, NEW flag \in BOOLEAN,
         GenerateVac(i, a, flag), Granted' = Granted
  PROVE  VacTablesInv' /\ VacStands
<1> DEFINE vc  == [agent |-> a, expires |-> now + VacAge]
           row == [agent |-> a, issued |-> now, expires |-> now + VacAge, revoked |-> FALSE]
<1>1. now \in Nat /\ now + VacAge \in Nat
  BY VacAssumption DEF VacTablesInv
<1>2. /\ vc \in Vc /\ row \in VacRow /\ row # NoCred /\ vc # NoVac
      /\ row.expires = vc.expires /\ row.revoked = FALSE
  BY <1>1, VacRowIsThere, VcIsThere DEF Vc, VacRow
<1>3. /\ vcs' = [vcs EXCEPT ![i] = vc] /\ creds' = [creds EXCEPT ![i] = row]
      /\ vcs[i] = NoVac /\ UNCHANGED <<schema, now, listed>>
  BY DEF GenerateVac, IssueVc, StoreVp
<1> HIDE DEF vc, row
<1>4. i \in Creds /\ creds[i] = NoCred /\ i \notin listed
  BY <1>3 DEF VacTablesInv, RowsAreTrue, Signed, Stored, Creds
<1>5. Stored' = Stored \cup {i}
  BY <1>2, <1>3, <1>4 DEF VacTablesInv, Stored
<1>6. RowsAreTrue'
  BY <1>2, <1>3, <1>4, <1>5 DEF VacTablesInv, RowsAreTrue, Signed, HasExpiry, Creds
<1>7. VacStands
  BY <1>3, <1>4 DEF VacTablesInv, VacStands, Stored
<1> QED
  BY <1>2, <1>3, <1>5, <1>6, <1>7 DEF VacTablesInv

\* submit_vp: what is submitted was signed, and the row keeps its revocation.
LEMMA SubmitIsTrue ==
  ASSUME VacTablesInv, NEW c \in Creds, NEW a \in Agents, SubmitVp(c, a)
  PROVE  VacTablesInv' /\ VacStands
<1> DEFINE row ==
      [agent   |-> IF creds[c] = NoCred THEN a ELSE creds[c].agent,
       issued  |-> now,
       expires |-> IF HasExpiry(c) THEN vcs[c].expires ELSE now + VacAge,
       revoked |-> creds[c] # NoCred /\ creds[c].revoked]
<1>1. now \in Nat /\ now + VacAge \in Nat
  BY VacAssumption DEF VacTablesInv
<1>2. Signed(c) /\ Granted' = Granted /\ UNCHANGED <<schema, now, vcs, listed>>
      /\ creds' = [creds EXCEPT ![c] = row]
  BY DEF SubmitVp, VerifyVc, StoreSubmittedVp, dvars, Granted
<1>3. HasExpiry(c) => vcs[c].expires \in Nat
  BY <1>2 DEF VacTablesInv, Signed, HasExpiry, Vc
<1>4. creds[c] # NoCred => creds[c].agent \in Agents /\ creds[c].revoked \in BOOLEAN
  BY DEF VacTablesInv, VacRow
<1>5. row \in VacRow
  BY <1>1, <1>3, <1>4 DEF VacRow
<1>6. row # NoCred /\ (HasExpiry(c) => row.expires = vcs[c].expires)
      /\ (row.revoked <=> creds[c] # NoCred /\ creds[c].revoked)
  BY <1>5, VacRowIsThere
<1> HIDE DEF row
<1>7. row.revoked <=> c \in listed
  BY <1>4, <1>6 DEF VacTablesInv, RowsAreTrue, Stored
<1>8. Stored' = Stored \cup {c}
  BY <1>2, <1>6 DEF VacTablesInv, Stored
<1>9. RowsAreTrue'
  BY <1>2, <1>6, <1>7, <1>8 DEF VacTablesInv, RowsAreTrue, Signed, HasExpiry
<1>10. VacStands
  BY <1>2, <1>6 DEF VacTablesInv, VacStands, Stored
<1> QED
  BY <1>2, <1>5, <1>8, <1>9, <1>10 DEF VacTablesInv

\* revoke_vac: the row and the registry move together.
LEMMA RevocationIsTrue ==
  ASSUME VacTablesInv, NEW c \in Creds, RevokeCredential(c)
  PROVE  VacTablesInv' /\ VacStands
<1> DEFINE row == [creds[c] EXCEPT !.revoked = TRUE]
<1>1. /\ Granted' = Granted /\ UNCHANGED <<schema, now, vcs>>
      /\ creds' = [creds EXCEPT ![c] = row] /\ listed' = listed \cup {c} /\ creds[c] # NoCred
  BY DEF RevokeCredential, RevokeVac, dvars, Granted, Stored
<1>2. creds[c] \in VacRow
  BY <1>1 DEF VacTablesInv
<1>3. row \in VacRow /\ row.revoked = TRUE /\ row.expires = creds[c].expires /\ row # NoCred
  BY <1>2, VacRowIsThere DEF VacRow
<1> HIDE DEF row
<1>4. Stored' = Stored
  BY <1>1, <1>3 DEF VacTablesInv, Stored
<1>5. RowsAreTrue'
  BY <1>1, <1>3, <1>4 DEF VacTablesInv, RowsAreTrue, Signed, HasExpiry, Stored
<1>6. VacStands
  BY <1>1, <1>3 DEF VacTablesInv, VacStands, Stored
<1> QED
  BY <1>1, <1>3, <1>4, <1>5, <1>6 DEF VacTablesInv, Stored

\* Nothing happens to the tables but that the clock moves and approvals go through.
LEMMA TablesStayTrue ==
  ASSUME VacTablesInv, UNCHANGED <<schema, vcs, creds, listed>>, now' \in 0 .. MaxNow,
         Granted \subseteq Granted'
  PROVE  VacTablesInv' /\ VacStands
<1>1. Stored' = Stored
  BY DEF Stored
<1>2. RowsAreTrue'
  BY <1>1 DEF VacTablesInv, RowsAreTrue, Signed, HasExpiry
<1>3. VacStands
  BY DEF VacStands, Stored
<1> QED
  BY <1>1, <1>2, <1>3 DEF VacTablesInv

\* Reads in progress are not disturbed by a step that keeps VCs and revocations.
LEMMA ReadsStayOK ==
  ASSUME ReadsInv, VacStands
  PROVE  /\ reads' = reads => ReadsInv'
         /\ \A g \in Reads, r \in Read : reads' = [reads EXCEPT ![g] = r] /\ ReadOK(r)' => ReadsInv'
<1>1. ASSUME NEW x \in Read, ReadOK(x) PROVE ReadOK(x)'
  BY <1>1 DEF ReadOK, VacStands, HasExpiry
<1> QED
  BY <1>1 DEF ReadsInv

\* A call starts and remembers what is listed.
LEMMA StartReadIsTrue ==
  ASSUME VacInv, NEW g \in Reads, NEW at \in {"generate", "fetch"}, NEW a \in Agents,
         NEW flag \in BOOLEAN, StartRead(g, at, a, flag)
  PROVE  VacInv' /\ VacStands
<1> DEFINE r == [at |-> at, agent |-> a, extensions |-> flag, before |-> listed]
<1>1. VacTablesInv' /\ VacStands
  BY TablesStayTrue DEF VacInv, VacTablesInv, StartRead, dvars, Granted
<1>2. listed \subseteq Creds
  BY DEF VacInv, VacTablesInv, Stored
<1>3. r \in Read /\ r.at = at /\ r.before = listed
  BY <1>2 DEF Read
<1>4. reads' = [reads EXCEPT ![g] = r] /\ listed' = listed
  BY DEF StartRead
<1> HIDE DEF r
<1>5. ReadsInv'
  <2>1. PICK x \in Read : x = r
    BY <1>3
  <2>2. ReadOK(x)'
    BY <1>3, <1>4, <2>1 DEF ReadOK
  <2> QED
    BY <1>1, <1>4, <2>1, <2>2, ReadsStayOK DEF VacInv
<1> QED
  BY <1>1, <1>5 DEF VacInv

\* The second SELECT finds a row that is neither revoked nor expired, or nothing.
LEMMA GetVacIsTrue ==
  ASSUME VacInv, NEW g \in Reads, GetVac(g)
  PROVE  VacInv' /\ VacStands
<1>1. VacTablesInv' /\ VacStands
  BY TablesStayTrue DEF VacInv, VacTablesInv, GetVac, dvars, Granted
<1>2. /\ reads[g] \in Read /\ reads[g].at = "fetch"
      /\ reads[g].agent \in Agents /\ reads[g].before \subseteq listed
      /\ UNCHANGED <<vcs, creds, listed>> /\ now \in Nat /\ listed \subseteq Creds
  <2>1. reads[g] \in Read /\ reads[g].at = "fetch" /\ UNCHANGED <<vcs, creds, listed>>
    BY DEF VacInv, ReadsInv, GetVac
  <2>2. reads[g].agent \in Agents
    BY <2>1 DEF Read
  <2>3. reads[g].before \subseteq listed
    BY <2>1 DEF VacInv, ReadsInv, ReadOK
  <2>4. now \in Nat /\ listed \subseteq Creds
    BY VacAssumption DEF VacInv, VacTablesInv, Stored
  <2> QED
    BY <2>1, <2>2, <2>3, <2>4
<1>3. CASE reads' = [reads EXCEPT ![g].at = "not found"]
  <2> DEFINE y == [reads[g] EXCEPT !.at = "not found"]
  <2>1. y \in Read /\ y.at = "not found" /\ y.before = reads[g].before
    BY <1>2 DEF Read
  <2>2. reads' = [reads EXCEPT ![g] = y]
    BY <1>3
  <2> HIDE DEF y
  <2>3. PICK x \in Read : x = y
    BY <2>1
  <2>4. ReadOK(x)'
    BY <1>2, <2>1, <2>3 DEF ReadOK
  <2> QED
    BY <1>1, <2>2, <2>3, <2>4, ReadsStayOK DEF VacInv
<1>4. ASSUME NEW c \in Newest(Active(reads[g].agent)),
             reads' = [reads EXCEPT ![g] = [at |-> "served", agent |-> reads[g].agent,
                         before |-> reads[g].before, cred |-> c, when |-> now]]
      PROVE  ReadsInv'
  <2> DEFINE y == [at |-> "served", agent |-> reads[g].agent, before |-> reads[g].before,
                   cred |-> c, when |-> now]
  <2>1. c \in Stored /\ ~creds[c].revoked /\ creds[c].expires > now
    BY DEF Newest, Active, Unrevoked
  <2>2. c \notin listed /\ Signed(c) /\ (HasExpiry(c) => creds[c].expires = vcs[c].expires)
    BY <2>1 DEF VacInv, VacTablesInv, RowsAreTrue
  <2>3. /\ y \in Read /\ y.at = "served" /\ y.before = reads[g].before /\ y.cred = c
        /\ y.when = now
    BY <1>2, <2>1 DEF Read, Stored
  <2>4. reads' = [reads EXCEPT ![g] = y]
    BY <1>4
  <2> HIDE DEF y
  <2>5. PICK x \in Read : x = y
    BY <2>3
  <2>6. ReadOK(x)'
    BY <1>2, <2>1, <2>2, <2>3, <2>5 DEF ReadOK, Signed, HasExpiry
  <2> QED
    BY <1>1, <2>4, <2>5, <2>6, ReadsStayOK DEF VacInv
<1>5. ReadsInv'
  BY <1>1, <1>3, <1>4, ReadsStayOK DEF VacInv, GetVac
<1> QED
  BY <1>1, <1>5 DEF VacInv

\* The VC that get_vac generates when it finds none is inserted, and the read that asked goes on.
LEMMA GenerateForReadIsTrue ==
  ASSUME VacInv, NEW g \in Reads, NEW i \in VacIds, GenerateForRead(g, i)
  PROVE  VacInv' /\ VacStands
<1> DEFINE y == [reads[g] EXCEPT !.at = "generated"]
<1>1. /\ reads[g] \in Read /\ reads[g].at = "generate" /\ reads[g].before \subseteq listed
      /\ reads[g].agent \in Agents /\ reads[g].extensions \in BOOLEAN
  BY DEF VacInv, ReadsInv, ReadOK, Read, GenerateForRead
<1>2. VacTablesInv' /\ VacStands
  BY <1>1, GenerateIsTrue DEF VacInv, GenerateForRead, dvars, Granted
<1>3. y \in Read /\ y.at = "generated" /\ y.before = reads[g].before
  BY <1>1 DEF Read
<1>4. reads' = [reads EXCEPT ![g] = y] /\ listed \subseteq listed'
  BY <1>2 DEF GenerateForRead, VacStands
<1> HIDE DEF y
<1>5. PICK x \in Read : x = y
  BY <1>3
<1>6. ReadOK(x)'
  BY <1>1, <1>3, <1>4, <1>5 DEF ReadOK
<1>7. ReadsInv'
  BY <1>2, <1>4, <1>5, <1>6, ReadsStayOK DEF VacInv
<1> QED
  BY <1>2, <1>7 DEF VacInv

\* The writers that no call remembers.
LEMMA WritersAreTrue ==
  ASSUME VacInv, VacTablesInv' /\ VacStands, reads' = reads
  PROVE  VacInv' /\ VacStands
BY ReadsStayOK DEF VacInv

\* No handler of a credential breaks the invariant, a read that is half done included.
LEMMA VacSteps ==
  ASSUME VacInv, VacNext \/ (UNCHANGED vvars /\ Granted \subseteq Granted')
  PROVE  VacInv' /\ VacStands
<1> USE DEF VacInv
<1>1. CASE Tick
  <2>1. now' \in 0 .. MaxNow /\ Granted' = Granted /\ UNCHANGED <<schema, vcs, creds, listed, reads>>
    BY <1>1, VacAssumption DEF Tick, VacTablesInv, dvars, Granted
  <2> QED
    BY <2>1, TablesStayTrue, WritersAreTrue
<1>2. ASSUME NEW a \in Agents, NEW i \in VacIds,
             RefreshVacCredential(i, a) \/ PresentVp(i, a) \/ RefreshAllVacs(i, a)
      PROVE  VacInv' /\ VacStands
  <2>1. GenerateVac(i, a, TRUE) /\ Granted' = Granted /\ reads' = reads
    BY <1>2 DEF RefreshVacCredential, PresentVp, RefreshAllVacs, dvars, Granted
  <2> QED
    BY <2>1, GenerateIsTrue, WritersAreTrue
<1>3. ASSUME NEW a \in Agents, NEW g \in Reads, NEW flag \in BOOLEAN,
             \/ GetVacCredential(g, a, flag) \/ GetVacCredentialFull(g, a, flag)
             \/ ReconstructVp(g, a, flag)
      PROVE  VacInv' /\ VacStands
  <2>1. \E at \in {"generate", "fetch"}, f \in BOOLEAN : StartRead(g, at, a, f)
    BY <1>3, Zenon DEF GetVacCredential, GetVacCredentialFull, ReconstructVp
  <2> QED
    BY <2>1, StartReadIsTrue, Zenon
<1>4. ASSUME NEW a \in Agents, NEW g \in Reads, IssueAttestation(g, a)
      PROVE  VacInv' /\ VacStands
  BY <1>4, StartReadIsTrue DEF IssueAttestation
<1>5. ASSUME NEW c \in Creds, NEW a \in Agents, SubmitVp(c, a)
      PROVE  VacInv' /\ VacStands
  <2>1. reads' = reads
    BY <1>5 DEF SubmitVp
  <2> QED
    BY <1>5, <2>1, SubmitIsTrue, WritersAreTrue
<1>6. ASSUME NEW c \in Creds, RevokeCredential(c)
      PROVE  VacInv' /\ VacStands
  <2>1. reads' = reads
    BY <1>6 DEF RevokeCredential
  <2> QED
    BY <1>6, <2>1, RevocationIsTrue, WritersAreTrue
<1>7. CASE UNCHANGED vvars /\ Granted \subseteq Granted'
  <2>1. now' \in 0 .. MaxNow /\ UNCHANGED <<schema, vcs, creds, listed, reads>>
    BY <1>7 DEF vvars, VacTablesInv
  <2> QED
    BY <1>7, <2>1, TablesStayTrue, WritersAreTrue
<1>8. CASE VacNext
  BY <1>1, <1>2, <1>3, <1>4, <1>5, <1>6, <1>8, GetVacIsTrue, GenerateForReadIsTrue, Zenon DEF VacNext
<1> QED
  BY <1>7, <1>8

\* An approval that went through stays through.
LEMMA GrantsStand ==
  ASSUME DelegationInv, DelegationNext PROVE Granted \subseteq Granted'
<1> SUFFICES ASSUME NEW w \in Approvals, approvals[w].at = "granted"
             PROVE  approvals'[w].at = "granted"
  BY DEF Granted
<1> USE DEF DelegationInv, DelegationShape
<1>1. ASSUME NEW q \in DelegationIds, NEW a \in Agents, RequestDelegation(q, a)
      PROVE  approvals'[w].at = "granted"
  BY <1>1 DEF RequestDelegation
<1>2. ASSUME NEW q \in DelegationIds, RevokeDelegation(q)
      PROVE  approvals'[w].at = "granted"
  BY <1>2 DEF RevokeDelegation
<1>3. ASSUME NEW v \in Approvals, NEW q \in DelegationIds, ApproveSelect(v, q)
      PROVE  approvals'[w].at = "granted"
  BY <1>3 DEF ApproveSelect
<1>4. ASSUME NEW v \in Approvals, ApproveIssue(v)
      PROVE  approvals'[w].at = "granted"
  BY <1>4 DEF ApproveIssue
<1>5. ASSUME NEW v \in Approvals, ApproveFails(v)
      PROVE  approvals'[w].at = "granted"
  BY <1>5 DEF ApproveFails
<1>6. ASSUME NEW v \in Approvals, ApproveCommit(v)
      PROVE  approvals'[w].at = "granted"
  <2>1. CASE w = v
    BY <1>6, <2>1 DEF ApproveCommit, Approval
  <2>2. CASE w # v
    BY <1>6, <2>2 DEF ApproveCommit
  <2> QED
    BY <2>1, <2>2
<1> QED
  BY <1>1, <1>2, <1>3, <1>4, <1>5, <1>6, Zenon DEF DelegationNext

(***************************************************************************)
(* The extension registry                                                  *)
(***************************************************************************)
ExtRow == [by : Integrators, seen : SUBSET ExtensionIds]
Tag    == [extension : ExtensionIds, by : Integrators]
ExtCall ==
  [at : {"new"}]
    \cup [at : {"insert", "refused", "registered"}, by : Integrators, id : ExtensionIds,
          seen : SUBSET ExtensionIds]
    \cup [at : {"store", "stored"}, by : Integrators, id : ExtensionIds, credential : CredentialIds]

ExtensionShape ==
  /\ registered \in [ExtensionIds -> ExtRow \cup {NoExtension}]
  /\ tagged \in [CredentialIds -> Tag \cup {NoTag}]
  /\ extending \in [ExtensionCalls -> ExtCall]

\* Whatever a registration saw in its namespace is the same integrator's.
SeenIsOwn(table, by, seen) ==
  \A y \in seen : y \in ExtensionIds /\ table[y] # NoExtension /\ table[y].by = by

\* The unique key: two rows of a namespace have different versions.
VersionsDiffer ==
  \A x, y \in ExtensionIds :
    /\ x # y /\ x.namespace = y.namespace
    /\ registered[x] # NoExtension /\ registered[y] # NoExtension
    => VersionOf(x) # VersionOf(y)

HolderOf(table, x, by) == table[x] # NoExtension /\ table[x].by = by

\* The inductive invariant of the registry.
ExtensionInv ==
  /\ ExtensionShape /\ VersionsDiffer
  /\ \A x \in ExtensionIds : registered[x] # NoExtension =>
       SeenIsOwn(registered, registered[x].by, registered[x].seen)
  /\ \A c \in ExtensionCalls :
       /\ extending[c].at = "insert" => SeenIsOwn(registered, extending[c].by, extending[c].seen)
       /\ extending[c].at = "store" => HolderOf(registered, extending[c].id, extending[c].by)
  /\ \A k \in CredentialIds : tagged[k] # NoTag => HolderOf(registered, tagged[k].extension, tagged[k].by)

\* Two integrators in one namespace looked past each other, and each credential is its
\* registrant's.
LEMMA ExtensionInvIsSafe == ExtensionInv => NamespaceSharedOnlyByRace
<1> SUFFICES ASSUME ExtensionInv PROVE NamespaceSharedOnlyByRace
  OBVIOUS
<1>1. ASSUME NEW x \in ExtensionIds, NEW y \in ExtensionIds,
             x # y, x.namespace = y.namespace,
             registered[x] # NoExtension, registered[y] # NoExtension,
             registered[x].by # registered[y].by
      PROVE  x \notin registered[y].seen /\ y \notin registered[x].seen /\ VersionOf(x) # VersionOf(y)
  BY <1>1 DEF ExtensionInv, SeenIsOwn, VersionsDiffer
<1>2. \A k \in CredentialIds : tagged[k] # NoTag => HolderOf(registered, tagged[k].extension, tagged[k].by)
  BY DEF ExtensionInv
<1> QED
  BY <1>1, <1>2 DEF NamespaceSharedOnlyByRace, HolderOf

\* A row of the registry and a tagged attestation are not the markers for none.
LEMMA ExtRowIsThere == (\A x \in ExtRow : x # NoExtension) /\ (\A x \in Tag : x # NoTag)
<1>1. ASSUME NEW x \in ExtRow, x = NoExtension PROVE FALSE
  <2>1. "by" \in DOMAIN x /\ "by" \notin DOMAIN NoExtension
    BY DEF ExtRow, NoExtension
  <2> QED
    BY <1>1, <2>1
<1>2. ASSUME NEW x \in Tag, x = NoTag PROVE FALSE
  <2>1. "by" \in DOMAIN x /\ "by" \notin DOMAIN NoTag
    BY DEF Tag, NoTag
  <2> QED
    BY <1>2, <2>1
<1> QED
  BY <1>1, <1>2

\* An empty registry satisfies the invariant.
LEMMA ExtensionStarts == ExtensionInit => ExtensionInv
<1> SUFFICES ASSUME ExtensionInit PROVE ExtensionInv
  OBVIOUS
<1>1. [at |-> "new"] \in ExtCall
  BY DEF ExtCall
<1>2. ExtensionShape
  BY <1>1 DEF ExtensionInit, ExtensionShape
<1> QED
  BY <1>2 DEF ExtensionInit, ExtensionInv, VersionsDiffer

\* No row is changed or removed, so that a call may move on when what it holds is
\* true of the rows there are.
LEMMA ExtensionCallMoves ==
  ASSUME ExtensionInv, NEW c \in ExtensionCalls, NEW x \in ExtCall,
         extending' = [extending EXCEPT ![c] = x], UNCHANGED <<registered, tagged>>,
         x.at = "insert" => SeenIsOwn(registered, x.by, x.seen),
         x.at = "store" => HolderOf(registered, x.id, x.by)
  PROVE  ExtensionInv'
<1>1. ExtensionShape' /\ VersionsDiffer'
  BY DEF ExtensionInv, ExtensionShape, VersionsDiffer
<1>2. \A d \in ExtensionCalls : extending'[d] = IF d = c THEN x ELSE extending[d]
  BY DEF ExtensionInv, ExtensionShape
<1> QED
  BY <1>1, <1>2 DEF ExtensionInv, SeenIsOwn, HolderOf

\* register_extension looks for other holders and changes no table.
LEMMA RegisterLookMoves ==
  ASSUME ExtensionInv, NEW c \in ExtensionCalls, NEW i \in Integrators, NEW id \in ExtensionIds,
         RegisterLook(c, i, id)
  PROVE  ExtensionInv'
<1> DEFINE x == [at |-> "insert", by |-> i, id |-> id, seen |-> InNamespace(id.namespace)]
<1>1. InNamespace(id.namespace) \subseteq ExtensionIds
  BY DEF InNamespace
<1>2. x \in ExtCall /\ x.at = "insert" /\ x.by = i /\ x.id = id /\ x.seen = InNamespace(id.namespace)
  BY <1>1 DEF ExtCall
<1>3. SeenIsOwn(registered, i, InNamespace(id.namespace))
  BY DEF RegisterLook, InNamespace, SeenIsOwn
<1>4. extending' = [extending EXCEPT ![c] = x] /\ UNCHANGED <<registered, tagged>>
  BY DEF RegisterLook
<1> HIDE DEF x
<1> QED
  BY <1>2, <1>3, <1>4, ExtensionCallMoves

\* submit_extension_attestation looks up the extension and changes no table.
LEMMA AttestLookMoves ==
  ASSUME ExtensionInv, NEW c \in ExtensionCalls, NEW i \in Integrators, NEW id \in ExtensionIds,
         NEW k \in CredentialIds, AttestLook(c, i, id, k)
  PROVE  ExtensionInv'
<1> DEFINE x == [at |-> "store", by |-> i, id |-> id, credential |-> k]
<1>1. x \in ExtCall /\ x.at = "store" /\ x.by = i /\ x.id = id
  BY DEF ExtCall
<1>2. HolderOf(registered, id, i)
  BY DEF AttestLook, HolderOf
<1>3. extending' = [extending EXCEPT ![c] = x] /\ UNCHANGED <<registered, tagged>>
  BY DEF AttestLook
<1> HIDE DEF x
<1> QED
  BY <1>1, <1>2, <1>3, ExtensionCallMoves

\* A row is inserted under an id that had none.
LEMMA RegisterMoves ==
  ASSUME ExtensionInv, NEW c \in ExtensionCalls, RegisterExtension(c)
  PROVE  ExtensionInv'
<1>1. PICK by \in Integrators, id \in ExtensionIds, seen \in SUBSET ExtensionIds :
        /\ extending[c].by = by /\ extending[c].id = id /\ extending[c].seen = seen
        /\ SeenIsOwn(registered, by, seen)
  BY DEF RegisterExtension, ExtensionInv, ExtensionShape, ExtCall
<1>2. extending[c] \in ExtCall /\ extending[c].at = "insert" /\ tagged' = tagged
  BY DEF RegisterExtension, ExtensionInv, ExtensionShape
<1>3. CASE \E y \in InNamespace(id.namespace) : VersionOf(y) = VersionOf(id)
  <2> DEFINE x == [extending[c] EXCEPT !.at = "refused"]
  <2>1. x \in ExtCall /\ x.at = "refused"
    BY <1>2 DEF ExtCall
  <2>2. extending' = [extending EXCEPT ![c] = x] /\ UNCHANGED <<registered, tagged>>
    BY <1>1, <1>2, <1>3 DEF RegisterExtension
  <2> HIDE DEF x
  <2> QED
    BY <2>1, <2>2, ExtensionCallMoves
<1>4. CASE ~\E y \in InNamespace(id.namespace) : VersionOf(y) = VersionOf(id)
  <2> DEFINE x == [extending[c] EXCEPT !.at = "registered"]
             row == [by |-> by, seen |-> seen]
  <2>1. x \in ExtCall /\ x.at = "registered"
    BY <1>2 DEF ExtCall
  <2>2. row \in ExtRow /\ row.by = by /\ row.seen = seen /\ row # NoExtension
    BY ExtRowIsThere DEF ExtRow
  <2>3. /\ extending' = [extending EXCEPT ![c] = x]
        /\ registered' = [registered EXCEPT ![id] = row]
    BY <1>1, <1>2, <1>4 DEF RegisterExtension
  <2> HIDE DEF x, row
  <2>4. ExtensionShape'
    BY <1>2, <2>1, <2>2, <2>3 DEF ExtensionInv, ExtensionShape
  <2>5. registered[id] = NoExtension
    BY <1>4 DEF InNamespace
  <2>6. /\ \A y \in ExtensionIds : registered'[y] = IF y = id THEN row ELSE registered[y]
        /\ \A d \in ExtensionCalls : extending'[d] = IF d = c THEN x ELSE extending[d]
    BY <2>3 DEF ExtensionInv, ExtensionShape
  <2>7. \A y \in ExtensionIds : registered[y] # NoExtension => registered'[y] = registered[y]
    BY <2>5, <2>6
  <2>8. VersionsDiffer'
    BY <1>4, <2>2, <2>6 DEF ExtensionInv, VersionsDiffer, InNamespace
  <2>9. /\ \A b \in Integrators, s \in SUBSET ExtensionIds :
             SeenIsOwn(registered, b, s) => SeenIsOwn(registered', b, s)
        /\ \A e \in ExtensionIds, b \in Integrators :
             HolderOf(registered, e, b) => HolderOf(registered', e, b)
    BY <2>7 DEF SeenIsOwn, HolderOf
  <2>10. \A y \in ExtensionIds : registered'[y] # NoExtension =>
           SeenIsOwn(registered', registered'[y].by, registered'[y].seen)
    BY <1>1, <2>2, <2>6, <2>7 DEF ExtensionInv, SeenIsOwn
  <2>11. ASSUME NEW d \in ExtensionCalls
         PROVE  /\ extending'[d].at = "insert"
                     => SeenIsOwn(registered', extending'[d].by, extending'[d].seen)
                /\ extending'[d].at = "store"
                     => HolderOf(registered', extending'[d].id, extending'[d].by)
    <3>1. CASE d = c
      BY <2>1, <2>6, <3>1
    <3>2. CASE d # c
      <4>1. extending'[d] = extending[d] /\ extending[d] \in ExtCall
        BY <2>6, <3>2 DEF ExtensionInv, ExtensionShape
      <4>2. /\ extending[d].at = "insert" => extending[d].by \in Integrators
                                             /\ extending[d].seen \in SUBSET ExtensionIds
            /\ extending[d].at = "store" => extending[d].by \in Integrators
                                            /\ extending[d].id \in ExtensionIds
        BY <4>1 DEF ExtCall
      <4> QED
        BY <2>9, <4>1, <4>2 DEF ExtensionInv
    <3> QED
      BY <3>1, <3>2
  <2>12. \A k \in CredentialIds : tagged[k] # NoTag
           => HolderOf(registered', tagged[k].extension, tagged[k].by)
    BY <2>9 DEF ExtensionInv, ExtensionShape, Tag
  <2> QED
    BY <1>2, <2>4, <2>8, <2>10, <2>11, <2>12 DEF ExtensionInv
<1> QED
  BY <1>3, <1>4

\* A credential is stored for the holder that its look found.
LEMMA AttestMoves ==
  ASSUME ExtensionInv, NEW c \in ExtensionCalls, AttestExtension(c)
  PROVE  ExtensionInv'
<1>1. PICK by \in Integrators, id \in ExtensionIds, k \in CredentialIds :
        /\ extending[c].by = by /\ extending[c].id = id /\ extending[c].credential = k
        /\ HolderOf(registered, id, by)
  BY DEF AttestExtension, ExtensionInv, ExtensionShape, ExtCall
<1>2. extending[c] \in ExtCall /\ extending[c].at = "store" /\ registered' = registered
  BY DEF AttestExtension, ExtensionInv, ExtensionShape
<1> DEFINE x == [extending[c] EXCEPT !.at = "stored"]
           tag == [extension |-> id, by |-> by]
<1>3. x \in ExtCall /\ x.at = "stored"
  BY <1>2 DEF ExtCall
<1>4. tag \in Tag /\ tag.extension = id /\ tag.by = by
  BY DEF Tag
<1>5. extending' = [extending EXCEPT ![c] = x]
      /\ (tagged' = tagged \/ tagged' = [tagged EXCEPT ![k] = tag])
  BY <1>1, <1>2 DEF AttestExtension
<1> HIDE DEF x, tag
<1>6. ExtensionShape' /\ VersionsDiffer'
  BY <1>2, <1>3, <1>4, <1>5 DEF ExtensionInv, ExtensionShape, VersionsDiffer
<1>7. \A d \in ExtensionCalls : extending'[d] = IF d = c THEN x ELSE extending[d]
  BY <1>5 DEF ExtensionInv, ExtensionShape
<1>8. \A l \in CredentialIds : tagged'[l] = tagged[l] \/ tagged'[l] = tag
  BY <1>5 DEF ExtensionInv, ExtensionShape
<1>9. \A l \in CredentialIds : tagged'[l] # NoTag => HolderOf(registered', tagged'[l].extension, tagged'[l].by)
  BY <1>1, <1>2, <1>4, <1>8 DEF ExtensionInv
<1> QED
  BY <1>2, <1>3, <1>6, <1>7, <1>9 DEF ExtensionInv

\* No handler of the registry breaks its invariant.
LEMMA ExtensionSteps ==
  ASSUME ExtensionInv, ExtensionNext \/ UNCHANGED xvars
  PROVE  ExtensionInv'
<1>1. CASE UNCHANGED xvars
  BY <1>1 DEF xvars, ExtensionInv, ExtensionShape, VersionsDiffer, SeenIsOwn, HolderOf
<1>2. CASE ExtensionNext
  BY <1>2, RegisterLookMoves, AttestLookMoves, RegisterMoves, AttestMoves, Zenon DEF ExtensionNext
<1> QED
  BY <1>1, <1>2

(***************************************************************************)
(* Chain verification                                                      *)
(***************************************************************************)
Tiers     == {"none", "payee_attestation", "lnd_query", "preimage_only"}
ChainRow  == [chain : Chains, status : {"pending", "verified", "failed"}, tier : Tiers,
              by : VerifyCalls]
ChainCall ==
  [at : {"new"}]
    \cup [at : {"refused", "replayed", "delete", "insert", "dispatched", "verified", "failed", "gone"},
          receipt : VerifyReceipts, chain : Chains, ev : Evidence]

ChainShape ==
  /\ rows \in [VerifyReceipts -> ChainRow \cup {NoRow}]
  /\ verifying \in [VerifyCalls -> ChainCall]
  /\ everFailed \subseteq VerifyReceipts

\* Unless its receipt has failed, the row of a call that asks the adapter is the
\* pending one that it inserted; a call deletes only what has failed.
CallOwnsRow(c) ==
  LET r == verifying[c].receipt
  IN  /\ verifying[c].at = "dispatched" /\ r \notin everFailed =>
           /\ rows[r] # NoRow
           /\ rows[r].status = "pending" /\ rows[r].by = c /\ rows[r].chain = verifying[c].chain
      /\ verifying[c].at = "delete" => r \in everFailed

\* A failed row is remembered; a verified one has the tier that its call's evidence
\* reached.
RowIsBacked(r) ==
  LET call == verifying[rows[r].by]
  IN  rows[r] # NoRow =>
        /\ rows[r].status = "failed" => r \in everFailed
        /\ rows[r].status = "verified" =>
             /\ call.at = "verified" /\ call.receipt = r
             /\ rows[r].tier = AdapterTier(call.chain, call.ev) /\ rows[r].tier # "none"
             /\ rows[r].chain = call.chain \/ r \in everFailed

\* The inductive invariant of the chain verifications.
ChainInv ==
  /\ ChainShape
  /\ \A c \in VerifyCalls : CallOwnsRow(c)
  /\ \A r \in VerifyReceipts : RowIsBacked(r)

\* What each tier takes.
LEMMA TierTakesEvidence ==
  ASSUME NEW chain \in Chains, NEW ev
  PROVE  LET tier == AdapterTier(chain, ev)
         IN  /\ tier \in Tiers
             /\ tier # "none" => ev.preimage
             /\ tier = "payee_attestation" => ev.role = "payer" /\ VerifyPayeeAttestation(ev)
             /\ tier = "lnd_query" => ev.lnd = "settled"
             /\ tier = "preimage_only" => ev.role = "payee"
BY DEF AdapterTier, LightningTier, TronTier, StacksTier, Chains, Tiers, QueryLnd

\* A row of chain_verifications is not the marker for none.
LEMMA ChainRowIsThere == \A x \in ChainRow : x # NoRow
<1> SUFFICES ASSUME NEW x \in ChainRow, x = NoRow PROVE FALSE
  OBVIOUS
<1>1. "by" \in DOMAIN x /\ "by" \notin DOMAIN NoRow
  BY DEF ChainRow, NoRow
<1> QED
  BY <1>1

\* Of two calls that ask the adapter for one receipt the row is of one only, so there was
\* a failure; a verified row has its call's evidence.
LEMMA ChainInvIsSafe == ChainInv => DispatchedOnce /\ VerifiedRowsAreBacked
<1> SUFFICES ASSUME ChainInv PROVE DispatchedOnce /\ VerifiedRowsAreBacked
  OBVIOUS
<1>1. DispatchedOnce
  BY DEF ChainInv, CallOwnsRow, DispatchedOnce
<1>2. ASSUME NEW r \in VerifyReceipts, rows[r] # NoRow, rows[r].status = "verified"
      PROVE  LET row == rows[r]  call == verifying[row.by]  ev == call.ev
             IN  /\ call.at = "verified" /\ call.receipt = r /\ ev.preimage
                 /\ row.tier = "payee_attestation" => ev.role = "payer" /\ VerifyPayeeAttestation(ev)
                 /\ row.tier = "lnd_query" => ev.lnd = "settled"
                 /\ row.tier = "preimage_only" => ev.role = "payee"
                 /\ row.tier # "none"
                 /\ row.chain = call.chain \/ r \in everFailed
  <2>1. PICK call \in ChainCall : call = verifying[rows[r].by]
    BY <1>2 DEF ChainInv, ChainShape, ChainRow
  <2>2. /\ call.at = "verified" /\ call.receipt = r
        /\ rows[r].tier = AdapterTier(call.chain, call.ev) /\ rows[r].tier # "none"
        /\ rows[r].chain = call.chain \/ r \in everFailed
    BY <1>2, <2>1 DEF ChainInv, RowIsBacked
  <2>3. call.chain \in Chains
    BY <2>2 DEF ChainCall
  <2> QED
    BY <2>1, <2>2, <2>3, TierTakesEvidence
<1> QED
  BY <1>1, <1>2 DEF VerifiedRowsAreBacked

\* Without rows and calls the invariant holds.
LEMMA ChainStarts == ChainInit => ChainInv
<1> SUFFICES ASSUME ChainInit PROVE ChainInv
  OBVIOUS
<1>1. [at |-> "new"] \in ChainCall
  BY DEF ChainCall
<1>2. ChainShape
  BY <1>1 DEF ChainInit, ChainShape
<1> QED
  BY <1>2 DEF ChainInit, ChainInv, CallOwnsRow, RowIsBacked

\* A call moves on without touching a row.
LEMMA ChainCallMoves ==
  ASSUME ChainInv, NEW c \in VerifyCalls, NEW x \in ChainCall,
         verifying[c].at # "verified", x.at # "dispatched",
         x.at = "delete" => x.receipt \in everFailed,
         verifying' = [verifying EXCEPT ![c] = x], UNCHANGED <<rows, everFailed>>
  PROVE  ChainInv'
<1>1. ChainShape'
  BY DEF ChainInv, ChainShape
<1>2. \A d \in VerifyCalls : verifying'[d] = IF d = c THEN x ELSE verifying[d]
  BY DEF ChainInv, ChainShape
<1>3. ASSUME NEW d \in VerifyCalls PROVE CallOwnsRow(d)'
  BY <1>2 DEF ChainInv, CallOwnsRow
<1>4. ASSUME NEW r \in VerifyReceipts PROVE RowIsBacked(r)'
  BY <1>2 DEF ChainInv, ChainShape, ChainRow, RowIsBacked
<1> QED
  BY <1>1, <1>3, <1>4 DEF ChainInv

\* What call x, which is c's, may write into the row of receipt r when the receipts
\* in `failed` have failed.
RowFits(c, x, r, row, failed) ==
  /\ \A d \in VerifyCalls : d # c /\ verifying[d].at = "dispatched" /\ verifying[d].receipt = r
                              => r \in failed
  /\ x.at = "dispatched" => /\ row # NoRow /\ row.status = "pending" /\ row.by = c
                            /\ row.chain = x.chain
  /\ row # NoRow => /\ row.by = c
                    /\ row.status = "failed" => r \in failed
                    /\ row.status = "verified" =>
                         /\ x.at = "verified"
                         /\ row.tier = AdapterTier(x.chain, x.ev) /\ row.tier # "none"
                         /\ row.chain = x.chain \/ r \in failed

\* A row, too, is written; the call whose row it was is not one that asks an adapter.
LEMMA ChainRowMoves ==
  ASSUME ChainInv, NEW c \in VerifyCalls, NEW x \in ChainCall, NEW r \in VerifyReceipts,
         NEW row \in ChainRow \cup {NoRow}, NEW failed \in SUBSET VerifyReceipts,
         verifying[c].at # "verified", x.receipt = r, x.at # "delete",
         verifying' = [verifying EXCEPT ![c] = x], rows' = [rows EXCEPT ![r] = row],
         everFailed' = failed, everFailed \subseteq failed,
         RowFits(c, x, r, row, failed)
  PROVE  ChainInv'
<1>1. ChainShape'
  BY DEF ChainInv, ChainShape
<1>2. /\ \A d \in VerifyCalls : verifying'[d] = IF d = c THEN x ELSE verifying[d]
      /\ \A s \in VerifyReceipts : rows'[s] = IF s = r THEN row ELSE rows[s]
  BY DEF ChainInv, ChainShape
<1>3. ASSUME NEW d \in VerifyCalls PROVE CallOwnsRow(d)'
  <2>1. CASE d = c
    BY <1>2, <2>1 DEF CallOwnsRow, RowFits
  <2>2. CASE d # c
    <3>1. verifying'[d] = verifying[d] /\ CallOwnsRow(d)
      BY <1>2, <2>2 DEF ChainInv
    <3>2. verifying[d].at = "dispatched" => verifying[d].receipt \in VerifyReceipts
      BY DEF ChainInv, ChainShape, ChainCall
    <3> QED
      BY <1>2, <2>2, <3>1, <3>2 DEF CallOwnsRow, RowFits
  <2> QED
    BY <2>1, <2>2
<1>4. ASSUME NEW s \in VerifyReceipts PROVE RowIsBacked(s)'
  <2>1. CASE s = r
    BY <1>2, <2>1 DEF RowIsBacked, RowFits
  <2>2. CASE s # r
    <3>1. rows'[s] = rows[s] /\ RowIsBacked(s) /\ (rows[s] # NoRow => rows[s].by \in VerifyCalls)
      BY <1>2, <2>2 DEF ChainInv, ChainShape, ChainRow
    <3> QED
      BY <1>2, <3>1 DEF RowIsBacked
  <2> QED
    BY <2>1, <2>2
<1> QED
  BY <1>1, <1>3, <1>4 DEF ChainInv

\* The SELECT decides on the row it sees; only a failed one sends the call to the DELETE.
LEMMA VerifySelectMoves ==
  ASSUME ChainInv, NEW c \in VerifyCalls, NEW r \in VerifyReceipts, NEW chain \in Chains,
         NEW ev \in Evidence, VerifySelect(c, r, chain, ev)
  PROVE  ChainInv'
<1> DEFINE x == [at |-> ExistingRow(rows[r], chain), receipt |-> r, chain |-> chain, ev |-> ev]
<1>1. /\ ExistingRow(rows[r], chain) \in {"insert", "refused", "replayed", "delete"}
      /\ ExistingRow(rows[r], chain) = "delete" => r \in everFailed
  BY DEF ChainInv, ChainShape, ChainRow, RowIsBacked, ExistingRow
<1>2. x \in ChainCall /\ x.at = ExistingRow(rows[r], chain) /\ x.receipt = r
  BY <1>1 DEF ChainCall
<1>3. /\ verifying' = [verifying EXCEPT ![c] = x] /\ verifying[c].at # "verified"
      /\ UNCHANGED <<rows, everFailed>>
  BY DEF VerifySelect
<1> HIDE DEF x
<1> QED
  BY <1>1, <1>2, <1>3, ChainCallMoves

\* The DELETE by receipt removes any row, but only of a receipt that has failed.
LEMMA VerifyDeleteMoves ==
  ASSUME ChainInv, NEW c \in VerifyCalls, VerifyDelete(c)
  PROVE  ChainInv'
<1> DEFINE x == [verifying[c] EXCEPT !.at = "insert"]
<1>1. PICK r \in VerifyReceipts : r = verifying[c].receipt /\ r \in everFailed
  BY DEF VerifyDelete, ChainInv, ChainShape, ChainCall, CallOwnsRow
<1>2. verifying[c] \in ChainCall /\ verifying[c].at = "delete"
  BY DEF VerifyDelete, ChainInv, ChainShape
<1>3. x \in ChainCall /\ x.at = "insert" /\ x.receipt = r
  BY <1>1, <1>2 DEF ChainCall
<1>4. /\ verifying' = [verifying EXCEPT ![c] = x] /\ rows' = [rows EXCEPT ![r] = NoRow]
      /\ everFailed' = everFailed /\ everFailed \in SUBSET VerifyReceipts
  BY <1>1 DEF VerifyDelete, ChainInv, ChainShape
<1> HIDE DEF x
<1>5. RowFits(c, x, r, NoRow, everFailed)
  BY <1>1, <1>3 DEF RowFits
<1> QED
  BY <1>2, <1>3, <1>4, <1>5, ChainRowMoves

\* The INSERT succeeds where there is no row, and the row is then the call's.
LEMMA VerifyInsertMoves ==
  ASSUME ChainInv, NEW c \in VerifyCalls, VerifyInsert(c)
  PROVE  ChainInv'
<1>1. PICK r \in VerifyReceipts, chain \in Chains :
        r = verifying[c].receipt /\ chain = verifying[c].chain
  BY DEF VerifyInsert, ChainInv, ChainShape, ChainCall
<1>2. verifying[c] \in ChainCall /\ verifying[c].at = "insert" /\ everFailed' = everFailed
  BY DEF VerifyInsert, ChainInv, ChainShape
<1>3. CASE rows[r] = NoRow
  <2> DEFINE x   == [verifying[c] EXCEPT !.at = "dispatched"]
             row == [chain |-> chain, status |-> "pending", tier |-> "none", by |-> c]
  <2>1. x \in ChainCall /\ x.at = "dispatched" /\ x.receipt = r /\ x.chain = chain
    BY <1>1, <1>2 DEF ChainCall
  <2>2. /\ row \in ChainRow /\ row # NoRow
        /\ row.status = "pending" /\ row.by = c /\ row.chain = chain
    BY ChainRowIsThere DEF ChainRow, Tiers
  <2>3. verifying' = [verifying EXCEPT ![c] = x] /\ rows' = [rows EXCEPT ![r] = row]
    BY <1>1, <1>3 DEF VerifyInsert
  <2>4. \A d \in VerifyCalls : verifying[d].at = "dispatched" /\ verifying[d].receipt = r
                                 => r \in everFailed
    BY <1>3 DEF ChainInv, CallOwnsRow
  <2>5. everFailed \in SUBSET VerifyReceipts
    BY DEF ChainInv, ChainShape
  <2> HIDE DEF x, row
  <2> QED
    <3>1. RowFits(c, x, r, row, everFailed)
      BY <2>1, <2>2, <2>4 DEF RowFits
    <3>2. verifying[c].at # "verified" /\ x.at # "delete" /\ everFailed' = everFailed
      BY <1>2, <2>1
    <3> QED
      BY <2>1, <2>2, <2>3, <2>5, <3>1, <3>2, ChainRowMoves
<1>4. CASE rows[r] # NoRow
  <2> DEFINE x == [verifying[c] EXCEPT !.at = "refused"]
  <2>1. x \in ChainCall /\ x.at = "refused"
    BY <1>2 DEF ChainCall
  <2>2. verifying' = [verifying EXCEPT ![c] = x] /\ rows' = rows
    BY <1>1, <1>4 DEF VerifyInsert
  <2> HIDE DEF x
  <2> QED
    BY <1>2, <2>1, <2>2, ChainCallMoves
<1> QED
  BY <1>3, <1>4

\* The UPDATE by receipt reaches another call's row only after a failure.
LEMMA VerifyRecordMoves ==
  ASSUME ChainInv, NEW c \in VerifyCalls, VerifyRecord(c)
  PROVE  ChainInv'
<1>1. PICK r \in VerifyReceipts, chain \in Chains, ev \in Evidence :
        r = verifying[c].receipt /\ chain = verifying[c].chain /\ ev = verifying[c].ev
  BY DEF VerifyRecord, ChainInv, ChainShape, ChainCall
<1>2. /\ verifying[c] \in ChainCall /\ verifying[c].at = "dispatched"
      /\ everFailed \in SUBSET VerifyReceipts /\ CallOwnsRow(c)
  BY DEF VerifyRecord, ChainInv, ChainShape
<1> DEFINE outcome == Outcome(c)
           tier    == AdapterTier(chain, ev)
           x       == [verifying[c] EXCEPT !.at = outcome]
<1>3. /\ outcome \in {"verified", "failed"} /\ (outcome = "verified" <=> tier # "none")
      /\ tier \in Tiers
  BY <1>1, TierTakesEvidence DEF Outcome
<1>4. x \in ChainCall /\ x.at = outcome /\ x.receipt = r /\ x.chain = chain /\ x.ev = ev
  BY <1>1, <1>2, <1>3 DEF ChainCall
<1>5. verifying' = [verifying EXCEPT ![c] = x]
  BY DEF VerifyRecord
<1>6. CASE rows[r] = NoRow
  <2>1. rows' = rows /\ everFailed' = everFailed
    BY <1>1, <1>6 DEF VerifyRecord
  <2> HIDE DEF x, outcome, tier
  <2> QED
    BY <1>2, <1>3, <1>4, <1>5, <2>1, ChainCallMoves
<1>7. CASE rows[r] # NoRow
  <2> DEFINE row == [rows[r] EXCEPT !.status = outcome, !.by = c,
                                    !.tier = IF outcome = "verified" THEN tier ELSE @]
             failed == IF outcome = "failed" THEN everFailed \cup {r} ELSE everFailed
  <2>1. rows[r] \in ChainRow
    BY <1>7 DEF ChainInv, ChainShape
  <2>2. /\ row \in ChainRow /\ row # NoRow /\ row.by = c /\ row.status = outcome
        /\ row.chain = rows[r].chain /\ (outcome = "verified" => row.tier = tier)
    BY <1>3, <2>1, ChainRowIsThere DEF ChainRow
  <2>3. rows' = [rows EXCEPT ![r] = row] /\ everFailed' = failed
    BY <1>1, <1>7 DEF VerifyRecord
  <2>4. failed \in SUBSET VerifyReceipts /\ everFailed \subseteq failed
        /\ (outcome = "failed" => r \in failed)
    BY <1>2
  <2>5. rows[r].chain = chain \/ r \in failed
    BY <1>1, <1>2, <2>4 DEF CallOwnsRow
  <2>6. \A d \in VerifyCalls : d # c /\ verifying[d].at = "dispatched" /\ verifying[d].receipt = r
                                 => r \in failed
    BY <1>1, <1>2, <2>4 DEF ChainInv, CallOwnsRow
  <2>7. outcome = "verified" => row.tier # "none"
    BY <1>3, <2>2
  <2>8. tier = AdapterTier(x.chain, x.ev)
    BY <1>4
  <2> HIDE DEF x, outcome, tier, row, failed
  <2> QED
    <3>1. RowFits(c, x, r, row, failed)
      BY <1>3, <1>4, <2>2, <2>4, <2>5, <2>6, <2>7, <2>8 DEF RowFits
    <3>2. verifying[c].at # "verified" /\ x.at # "delete"
      BY <1>2, <1>3, <1>4
    <3> QED
      BY <1>4, <1>5, <2>2, <2>3, <2>4, <3>1, <3>2, ChainRowMoves
<1> QED
  BY <1>6, <1>7

\* A call that breaks off leaves its pending row to nobody, and nobody asks again.
LEMMA VerifyBreaksOffMoves ==
  ASSUME ChainInv, NEW c \in VerifyCalls, VerifyBreaksOff(c)
  PROVE  ChainInv'
<1> DEFINE x == [verifying[c] EXCEPT !.at = "gone"]
<1>1. verifying[c] \in ChainCall /\ verifying[c].at = "dispatched"
  BY DEF VerifyBreaksOff, ChainInv, ChainShape
<1>2. x \in ChainCall /\ x.at = "gone"
  BY <1>1 DEF ChainCall
<1>3. verifying' = [verifying EXCEPT ![c] = x] /\ UNCHANGED <<rows, everFailed>>
  BY DEF VerifyBreaksOff
<1> HIDE DEF x
<1> QED
  BY <1>1, <1>2, <1>3, ChainCallMoves

\* No step of a chain verification breaks the invariant.
LEMMA ChainSteps ==
  ASSUME ChainInv, ChainNext \/ UNCHANGED cvars
  PROVE  ChainInv'
<1>1. CASE UNCHANGED cvars
  BY <1>1 DEF cvars, ChainInv, ChainShape, CallOwnsRow, RowIsBacked
<1>2. CASE ChainNext
  BY <1>2, VerifySelectMoves, VerifyDeleteMoves, VerifyInsertMoves, VerifyRecordMoves,
     VerifyBreaksOffMoves, Zenon DEF ChainNext
<1> QED
  BY <1>1, <1>2

(***************************************************************************)
(* Verified events                                                         *)
(***************************************************************************)
Hashes     == DOMAIN Chain \cup {NoHash}
SubmitRow  == [kind : {"submit"}, agent : Agents, hash : Hashes]
AuditRow   == [kind : {"audit"}, agent : Agents, hash : Hashes, receipt : Receipts]
X402Row    == [kind : {"x402"}, agent : Agents, hash : DOMAIN Chain, amount : Amounts,
               mismatch : BOOLEAN]
SolanaRow  == [kind : {"solana"}, agent : Agents, hash : DOMAIN Chain, amount : Amounts,
               asset : {"SOL", "USDC"}, from : Wallets, to : Wallets]
EventRow   == SubmitRow \cup AuditRow \cup X402Row \cup SolanaRow
SubmitCall == [at : {"submit", "done"}, agent : Agents, hash : Hashes, seen : SUBSET EventCalls]
AuditCall  == [at : {"audit", "stored", "done"}, agent : Agents, receipt : Receipts,
               stored : Receipts, hash : Hashes, seen : SUBSET EventCalls]
EventCall  == [at : {"new", "done"}] \cup SubmitCall \cup AuditCall

EventShape ==
  /\ events \in [EventCalls -> EventRow \cup {NoEvent}]
  /\ calls \in [EventCalls -> EventCall]
  /\ credentials \subseteq Recorded

\* None of the events that a call saw is a duplicate of its own.
SawNoDuplicate(x, table) ==
  /\ x \in SubmitCall /\ x.hash # NoHash =>
       \A e \in x.seen : table[e] # NoEvent /\ table[e].hash # x.hash
  /\ x \in AuditCall =>
       \A e \in x.seen : /\ table[e] # NoEvent
                         /\ table[e].kind = "audit" => table[e].receipt # x.receipt

\* What a payment's row says happened.
PaymentHappened(ev) ==
  LET tx == Chain[ev.hash]
  IN  /\ ev.kind = "x402" /\ ~ev.mismatch =>
           tx.settled /\ \E i \in DOMAIN tx.transfers : tx.transfers[i] = ev.amount
      /\ ev.kind = "solana" =>
           /\ tx.finalized
           /\ IF ev.asset = "SOL"
              THEN \E i \in DOMAIN tx.native :
                     /\ tx.native[i].from = ev.from /\ tx.native[i].to = ev.to
                     /\ tx.native[i].amount - ev.amount \in -Tolerance .. Tolerance
              ELSE tx.post[ev.to] - tx.pre[ev.to] = ev.amount /\ tx.post[ev.from] < tx.pre[ev.from]

\* The event of a call x: it is recorded once the call inserted it, as the call asked.
EventOfCall(ev, x) ==
  /\ x.at = "stored" => ev # NoEvent
  /\ ev # NoEvent =>
       /\ x.at \in {"stored", "done"}
       /\ ev.kind = "submit" => x \in SubmitCall /\ ev.hash = x.hash
       /\ ev.kind = "audit" => x \in AuditCall
       /\ PaymentHappened(ev)

PaymentsHaveCredentials ==
  \A e \in Recorded : events[e].kind \in {"x402", "solana"} => e \in credentials

\* The inductive invariant of the events.
EventInv ==
  /\ EventShape /\ PaymentsHaveCredentials
  /\ \A c \in EventCalls : SawNoDuplicate(calls[c], events) /\ EventOfCall(events[c], calls[c])

\* A row of verified_events is not the marker for none.
LEMMA EventIsThere == \A x \in EventRow : x # NoEvent
<1> SUFFICES ASSUME NEW x \in EventRow, x = NoEvent PROVE FALSE
  OBVIOUS
<1>1. "agent" \in DOMAIN x
  BY DEF EventRow, SubmitRow, AuditRow, X402Row, SolanaRow
<1>2. "agent" \notin DOMAIN NoEvent
  BY DEF NoEvent
<1> QED
  BY <1>1, <1>2

\* Duplicates were not seen because they were not there; payments without the mark happened.
LEMMA EventInvIsSafe == EventInv => RepeatsOnlyByRaces /\ CredentialsAreBacked
<1> SUFFICES ASSUME EventInv PROVE RepeatsOnlyByRaces /\ CredentialsAreBacked
  OBVIOUS
<1>1. ASSUME NEW c \in Recorded, NEW e \in Recorded
      PROVE  /\ events[c].kind = "submit" /\ events[c].hash # NoHash /\ events[e].hash = events[c].hash
                  => e \notin calls[c].seen
             /\ events[c].kind = "audit" /\ events[e].kind = "audit"
                  /\ events[e].receipt = calls[c].receipt
                  => e \notin calls[c].seen
  <2>1. SawNoDuplicate(calls[c], events) /\ EventOfCall(events[c], calls[c]) /\ events[c] # NoEvent
    BY DEF EventInv, Recorded
  <2> QED
    BY <2>1 DEF SawNoDuplicate, EventOfCall
<1>2. RepeatsOnlyByRaces
  BY <1>1 DEF RepeatsOnlyByRaces
<1>3. ASSUME NEW e \in Recorded PROVE PaymentHappened(events[e])
  BY DEF EventInv, EventOfCall, Recorded
<1>4. CredentialsAreBacked
  BY <1>3 DEF EventInv, EventShape, PaymentsHaveCredentials, PaymentHappened, CredentialsAreBacked
<1> QED
  BY <1>2, <1>4

\* An empty table satisfies the invariant.
LEMMA EventsStart == EventInit => EventInv
<1> SUFFICES ASSUME EventInit PROVE EventInv
  OBVIOUS
<1>1. Recorded = {}
  BY DEF EventInit, Recorded
<1>2. [at |-> "new"] \in EventCall
  BY DEF EventCall
<1>3. EventShape /\ PaymentsHaveCredentials
  BY <1>1, <1>2 DEF EventInit, EventShape, PaymentsHaveCredentials
<1>4. ASSUME NEW x, x = [at |-> "new"]
      PROVE  SawNoDuplicate(x, events) /\ EventOfCall(NoEvent, x)
  <2>1. x.at = "new"
    BY <1>4
  <2>2. x \notin SubmitCall /\ x \notin AuditCall
    BY <2>1 DEF SubmitCall, AuditCall
  <2> QED
    BY <2>1, <2>2 DEF SawNoDuplicate, EventOfCall
<1> QED
  BY <1>3, <1>4 DEF EventInit, EventInv

\* Call c moves on to x, and its event, which it had not recorded, to ev.
LEMMA EventCallMoves ==
  ASSUME EventInv, NEW c \in EventCalls, NEW x \in EventCall, NEW ev \in EventRow \cup {NoEvent},
         NEW known \in SUBSET EventCalls,
         calls' = [calls EXCEPT ![c] = x], events' = [events EXCEPT ![c] = ev],
         credentials' = known, credentials \subseteq known, known \subseteq credentials \cup {c},
         events[c] = NoEvent \/ ev = events[c],
         c \in known => ev # NoEvent,
         ev # NoEvent /\ ev.kind \in {"x402", "solana"} => c \in known,
         SawNoDuplicate(x, events), EventOfCall(ev, x)
  PROVE  EventInv'
<1>1. /\ \A d \in EventCalls : calls'[d] = IF d = c THEN x ELSE calls[d]
      /\ \A d \in EventCalls : events'[d] = IF d = c THEN ev ELSE events[d]
  BY DEF EventInv, EventShape
<1>2. \A d \in EventCalls : events[d] # NoEvent => events'[d] = events[d]
  BY <1>1
<1>3. EventShape'
  <2>1. Recorded \subseteq Recorded'
    BY <1>2 DEF Recorded
  <2>2. c \in known => c \in Recorded'
    BY <1>1 DEF Recorded
  <2> QED
    BY <2>1, <2>2 DEF EventInv, EventShape
<1>4. PaymentsHaveCredentials'
  BY <1>1 DEF EventInv, PaymentsHaveCredentials, Recorded
<1>5. ASSUME NEW y \in EventCall, SawNoDuplicate(y, events)
      PROVE  SawNoDuplicate(y, events')
  <2>1. y \in SubmitCall \cup AuditCall => y.seen \subseteq EventCalls
    BY DEF SubmitCall, AuditCall
  <2> QED
    BY <1>2, <1>5, <2>1 DEF SawNoDuplicate
<1>6. ASSUME NEW d \in EventCalls
      PROVE  SawNoDuplicate(calls'[d], events') /\ EventOfCall(events'[d], calls'[d])
  <2>1. calls[d] \in EventCall /\ SawNoDuplicate(calls[d], events) /\ EventOfCall(events[d], calls[d])
    BY DEF EventInv, EventShape
  <2> QED
    BY <1>1, <1>5, <2>1
<1> QED
  BY <1>3, <1>4, <1>6 DEF EventInv

\* The submission and the audit look; nothing is written.
LEMMA SubmitCheckMoves ==
  ASSUME EventInv, NEW c \in EventCalls, NEW a \in Agents, NEW h \in Hashes, SubmitCheck(c, a, h)
  PROVE  EventInv'
<1> DEFINE x == [at |-> "submit", agent |-> a, hash |-> h, seen |-> Recorded]
<1>1. /\ x \in SubmitCall /\ x.at = "submit" /\ x.hash = h /\ x.seen = Recorded
      /\ x \notin AuditCall
  BY DEF SubmitCall, AuditCall, Recorded
<1>2. /\ calls' = [calls EXCEPT ![c] = x] /\ calls[c].at = "new"
      /\ UNCHANGED <<events, credentials>>
      /\ (h # NoHash => \A e \in Recorded : events[e].hash # h)
  BY DEF SubmitCheck
<1> HIDE DEF x
<1>3. events[c] = NoEvent
  BY <1>2 DEF EventInv, EventOfCall
<1>4. events' = [events EXCEPT ![c] = NoEvent] /\ credentials \in SUBSET EventCalls /\ c \notin credentials
  BY <1>2, <1>3 DEF EventInv, EventShape, Recorded
<1>5. SawNoDuplicate(x, events) /\ EventOfCall(NoEvent, x)
  BY <1>1, <1>2 DEF SawNoDuplicate, EventOfCall, Recorded
<1>6. x \in EventCall
  BY <1>1 DEF EventCall
<1> QED
  BY <1>2, <1>3, <1>4, <1>5, <1>6, EventCallMoves

\* The duplicate check of audit_verified_event remembers the events there are.
LEMMA AuditCheckMoves ==
  ASSUME EventInv, NEW c \in EventCalls, NEW a \in Agents, NEW r \in Receipts, NEW s \in Receipts,
         NEW h \in Hashes, AuditCheck(c, a, r, s, h)
  PROVE  EventInv'
<1> DEFINE x == [at |-> "audit", agent |-> a, receipt |-> r, stored |-> s, hash |-> h,
                 seen |-> Recorded]
<1>1. /\ x \in AuditCall /\ x.at = "audit" /\ x.receipt = r /\ x.seen = Recorded
      /\ x \notin SubmitCall
  BY DEF SubmitCall, AuditCall, Recorded
<1>2. /\ calls' = [calls EXCEPT ![c] = x] /\ calls[c].at = "new"
      /\ UNCHANGED <<events, credentials>>
      /\ \A e \in Recorded : events[e].kind = "audit" => events[e].receipt # r
  BY DEF AuditCheck
<1> HIDE DEF x
<1>3. events[c] = NoEvent
  BY <1>2 DEF EventInv, EventOfCall
<1>4. events' = [events EXCEPT ![c] = NoEvent] /\ credentials \in SUBSET EventCalls /\ c \notin credentials
  BY <1>2, <1>3 DEF EventInv, EventShape, Recorded
<1>5. SawNoDuplicate(x, events) /\ EventOfCall(NoEvent, x)
  BY <1>1, <1>2 DEF SawNoDuplicate, EventOfCall, Recorded
<1>6. x \in EventCall
  BY <1>1 DEF EventCall
<1> QED
  BY <1>2, <1>3, <1>4, <1>5, <1>6, EventCallMoves

\* submit_transaction inserts what it checked: the events it saw are still no duplicates.
LEMMA SubmitInsertMoves ==
  ASSUME EventInv, NEW c \in EventCalls, SubmitInsert(c)
  PROVE  EventInv'
<1>1. calls[c] \in SubmitCall /\ calls[c].at = "submit" /\ events[c] = NoEvent
  BY DEF SubmitInsert, EventInv, EventShape, EventCall, SubmitCall, AuditCall, EventOfCall
<1> DEFINE x  == [calls[c] EXCEPT !.at = "done"]
           ev == [kind |-> "submit", agent |-> calls[c].agent, hash |-> calls[c].hash]
<1>2. /\ x \in SubmitCall /\ x.at = "done" /\ x.hash = calls[c].hash /\ x.seen = calls[c].seen
      /\ x \notin AuditCall
  BY <1>1 DEF SubmitCall, AuditCall
<1>3. ev \in SubmitRow /\ ev.kind = "submit" /\ ev.hash = calls[c].hash
  BY <1>1 DEF SubmitRow, SubmitCall
<1>4. /\ calls' = [calls EXCEPT ![c] = x] /\ events' = [events EXCEPT ![c] = ev]
      /\ credentials' = credentials
  BY DEF SubmitInsert
<1> HIDE DEF x, ev
<1>5. credentials \in SUBSET EventCalls /\ c \notin credentials
  BY <1>1 DEF EventInv, EventShape, Recorded
<1>6. SawNoDuplicate(x, events)
  BY <1>1, <1>2 DEF EventInv, SawNoDuplicate
<1>7. EventOfCall(ev, x)
  BY <1>2, <1>3 DEF EventOfCall, PaymentHappened
<1>8. x \in EventCall /\ ev \in EventRow /\ ev.kind \notin {"x402", "solana"}
  BY <1>2, <1>3 DEF EventCall, EventRow
<1> QED
  BY <1>1, <1>4, <1>5, <1>6, <1>7, <1>8, EventCallMoves

\* audit_verified_event inserts under the receipt it checked, or one its metadata names.
LEMMA AuditInsertMoves ==
  ASSUME EventInv, NEW c \in EventCalls, AuditInsert(c)
  PROVE  EventInv'
<1>1. calls[c] \in AuditCall /\ calls[c].at = "audit" /\ events[c] = NoEvent
  BY DEF AuditInsert, EventInv, EventShape, EventCall, SubmitCall, AuditCall, EventOfCall
<1> DEFINE x  == [calls[c] EXCEPT !.at = "stored"]
           ev == [kind |-> "audit", agent |-> calls[c].agent, hash |-> calls[c].hash,
                  receipt |-> calls[c].stored]
<1>2. /\ x \in AuditCall /\ x.at = "stored" /\ x.receipt = calls[c].receipt
      /\ x.seen = calls[c].seen /\ x \notin SubmitCall
  BY <1>1 DEF SubmitCall, AuditCall
<1>3. ev \in AuditRow /\ ev.kind = "audit"
  BY <1>1 DEF AuditRow, AuditCall
<1>4. /\ calls' = [calls EXCEPT ![c] = x] /\ events' = [events EXCEPT ![c] = ev]
      /\ credentials' = credentials
  BY DEF AuditInsert
<1> HIDE DEF x, ev
<1>5. credentials \in SUBSET EventCalls /\ c \notin credentials
  BY <1>1 DEF EventInv, EventShape, Recorded
<1>6. SawNoDuplicate(x, events)
  BY <1>1, <1>2 DEF EventInv, SawNoDuplicate
<1>7. x \in EventCall /\ ev \in EventRow /\ ev # NoEvent /\ ev.kind \notin {"x402", "solana"}
  BY <1>2, <1>3, EventIsThere DEF EventCall, EventRow
<1>8. EventOfCall(ev, x)
  BY <1>2, <1>3, <1>7 DEF EventOfCall, PaymentHappened
<1> QED
  BY <1>1, <1>4, <1>5, <1>6, <1>7, <1>8, EventCallMoves

\* The activity credential of an audited event, or a failure that is only logged.
LEMMA AuditActivityMoves ==
  ASSUME EventInv, NEW c \in EventCalls, AuditActivity(c)
  PROVE  EventInv'
<1>1. calls[c] \in AuditCall /\ calls[c].at = "stored" /\ events[c] # NoEvent
      /\ events[c] \in EventRow
  BY DEF AuditActivity, EventInv, EventShape, EventCall, SubmitCall, AuditCall, EventOfCall
<1> DEFINE x == [calls[c] EXCEPT !.at = "done"]
<1>2. /\ x \in AuditCall /\ x.at = "done" /\ x.receipt = calls[c].receipt
      /\ x.seen = calls[c].seen /\ x \notin SubmitCall
  BY <1>1 DEF SubmitCall, AuditCall
<1>3. PICK known \in SUBSET EventCalls :
        /\ credentials' = known /\ credentials \subseteq known /\ known \subseteq credentials \cup {c}
  BY DEF AuditActivity, EventInv, EventShape, Recorded
<1>4. calls' = [calls EXCEPT ![c] = x] /\ events' = events
  BY DEF AuditActivity
<1>5. events' = [events EXCEPT ![c] = events[c]]
  BY <1>4 DEF EventInv, EventShape
<1> HIDE DEF x
<1>6. SawNoDuplicate(x, events)
  BY <1>1, <1>2 DEF EventInv, SawNoDuplicate
<1>7. calls[c] \notin SubmitCall
  BY <1>1 DEF SubmitCall
<1>8. EventOfCall(events[c], x)
  BY <1>1, <1>2, <1>7 DEF EventInv, EventOfCall
<1>9. events[c].kind \in {"x402", "solana"} => c \in credentials
  BY <1>1 DEF EventInv, PaymentsHaveCredentials, Recorded
<1>10. x \in EventCall
  BY <1>2 DEF EventCall
<1>11. PICK ev \in EventRow \cup {NoEvent} : ev = events[c]
  BY <1>1
<1> QED
  BY <1>1, <1>3, <1>4, <1>5, <1>6, <1>8, <1>9, <1>10, <1>11, EventCallMoves

\* A payment's credential and event are one commit.
LEMMA PaymentMoves ==
  ASSUME EventInv, NEW c \in EventCalls, NEW ev \in X402Row \cup SolanaRow, PaymentHappened(ev),
         calls[c].at = "new", calls' = [calls EXCEPT ![c].at = "done"],
         events' = [events EXCEPT ![c] = ev], credentials' = credentials \cup {c}
  PROVE  EventInv'
<1> DEFINE x == [calls[c] EXCEPT !.at = "done"]
<1>1. events[c] = NoEvent /\ calls[c] \in [at : {"new", "done"}]
  BY DEF EventInv, EventShape, EventOfCall, EventCall, SubmitCall, AuditCall
<1>2. x \in [at : {"new", "done"}] /\ x.at = "done"
  BY <1>1
<1>3. x \notin SubmitCall /\ x \notin AuditCall
  <2>1. DOMAIN x = {"at"}
    BY <1>2
  <2>2. ASSUME NEW y \in SubmitCall \cup AuditCall PROVE "seen" \in DOMAIN y
    BY DEF SubmitCall, AuditCall
  <2> QED
    BY <2>1, <2>2
<1>4. calls' = [calls EXCEPT ![c] = x]
  OBVIOUS
<1>5. x \in EventCall
  BY <1>2 DEF EventCall
<1> HIDE DEF x
<1>6. ev \in EventRow /\ ev # NoEvent /\ ev.kind \in {"x402", "solana"}
  BY EventIsThere DEF EventRow, X402Row, SolanaRow
<1>7. SawNoDuplicate(x, events) /\ EventOfCall(ev, x)
  BY <1>2, <1>3, <1>6 DEF SawNoDuplicate, EventOfCall
<1>8. PICK known \in SUBSET EventCalls : known = credentials \cup {c}
  BY DEF EventInv, EventShape, Recorded
<1>9. /\ credentials' = known /\ credentials \subseteq known /\ known \subseteq credentials \cup {c}
      /\ c \in known
  BY <1>8
<1> QED
  BY <1>1, <1>4, <1>5, <1>6, <1>7, <1>9, EventCallMoves

\* A payment without a discrepancy passed the check on the chain: the facilitator's
\* answer agrees with it, and one of the two was positive.
LEMMA X402Moves ==
  ASSUME EventInv, NEW c \in EventCalls, NEW a \in Agents, NEW tx \in DOMAIN Chain,
         NEW amount \in Amounts, NEW answers, VerifyX402Payment(c, a, tx, amount, answers)
  PROVE  EventInv'
<1> DEFINE onchain     == VerifyOnchain(tx, amount)
           facilitator == VerifyViaFacilitator(answers)
           mismatch    == facilitator # onchain
           ev == [kind |-> "x402", agent |-> a, hash |-> tx, amount |-> amount, mismatch |-> mismatch]
<1>1. /\ calls[c].at = "new" /\ (facilitator \/ onchain) /\ events' = [events EXCEPT ![c] = ev]
      /\ credentials' = credentials \cup {c} /\ calls' = [calls EXCEPT ![c].at = "done"]
  BY DEF VerifyX402Payment, VerifyAndAttest
<1>2. ~mismatch => onchain
  BY <1>1 DEF VerifyOnchain, VerifyViaFacilitator
<1>3. onchain => Chain[tx].settled /\ \E i \in DOMAIN Chain[tx].transfers : Chain[tx].transfers[i] = amount
  BY RailsAssumption DEF VerifyOnchain
<1>4. mismatch \in BOOLEAN
  OBVIOUS
<1> HIDE DEF mismatch, onchain
<1>5. /\ ev \in X402Row /\ ev.kind = "x402" /\ ev.hash = tx /\ ev.amount = amount
      /\ (ev.mismatch <=> mismatch)
  BY <1>4 DEF X402Row
<1> HIDE DEF ev
<1>6. PaymentHappened(ev)
  BY <1>2, <1>3, <1>5 DEF PaymentHappened
<1> QED
  BY <1>1, <1>5, <1>6, PaymentMoves

\* verify_solana inserts what the node that answered says of a finalized transaction.
LEMMA SolanaMoves ==
  ASSUME EventInv, NEW c \in EventCalls, NEW a \in Agents, NEW tx \in DOMAIN Chain,
         NEW asset \in {"SOL", "USDC"}, NEW from \in Wallets, NEW to \in Wallets,
         NEW amount \in Amounts, NEW answers,
         VerifySolanaPayment(c, a, tx, asset, from, to, amount, answers)
  PROVE  EventInv'
<1> DEFINE ev == [kind |-> "solana", agent |-> a, hash |-> tx, amount |-> amount, asset |-> asset,
                  from |-> from, to |-> to]
<1>1. /\ calls[c].at = "new" /\ events' = [events EXCEPT ![c] = ev]
      /\ credentials' = credentials \cup {c} /\ calls' = [calls EXCEPT ![c].at = "done"]
      /\ VerifySolanaTransaction(tx, asset, from, to, amount, answers)
  BY DEF VerifySolanaPayment
<1>2. /\ ev \in SolanaRow /\ ev.kind = "solana" /\ ev.hash = tx /\ ev.amount = amount
      /\ ev.asset = asset /\ ev.from = from /\ ev.to = to
  BY DEF SolanaRow
<1> HIDE DEF ev
<1>3. Chain[tx].finalized
  BY <1>1 DEF VerifySolanaTransaction, FetchTransaction
<1>4. asset = "SOL" => \E i \in DOMAIN Chain[tx].native :
        /\ Chain[tx].native[i].from = from /\ Chain[tx].native[i].to = to
        /\ Chain[tx].native[i].amount - amount \in -Tolerance .. Tolerance
  BY <1>1 DEF VerifySolanaTransaction, ParseSystemTransfer
<1>5. asset # "SOL" => /\ Chain[tx].post[to] - Chain[tx].pre[to] = amount
                       /\ Chain[tx].pre[from] > Chain[tx].post[from]
  BY <1>1 DEF VerifySolanaTransaction, ParseSplTransfer
<1>6. PaymentHappened(ev)
  BY <1>2, <1>3, <1>4, <1>5 DEF PaymentHappened
<1> QED
  BY <1>1, <1>2, <1>6, PaymentMoves

\* No writer of verified_events breaks the invariant.
LEMMA EventSteps ==
  ASSUME EventInv, EventNext \/ UNCHANGED evars
  PROVE  EventInv'
<1>1. CASE UNCHANGED evars
  BY <1>1 DEF evars, EventInv, EventShape, PaymentsHaveCredentials, Recorded
<1>2. ASSUME NEW c \in EventCalls, NEW a \in Agents, NEW h \in DOMAIN Chain \cup {NoHash},
             SubmitCheck(c, a, h) \/ \E r, s \in Receipts : AuditCheck(c, a, r, s, h)
      PROVE  EventInv'
  BY <1>2, SubmitCheckMoves, AuditCheckMoves DEF Hashes
<1>3. CASE EventNext
  BY <1>2, <1>3, SubmitInsertMoves, AuditInsertMoves, AuditActivityMoves, X402Moves, SolanaMoves,
     Zenon DEF EventNext
<1> QED
  BY <1>1, <1>3

(***************************************************************************)
(* The records of an agent                                                 *)
(***************************************************************************)
LoadsOK == left \in [Services -> Nat]

AgentInv == LoadsOK /\ DelegationInv /\ VacInv /\ EventInv /\ ChainInv /\ ExtensionInv

\* A step is a request's arrival, or leaves the arrivals alone.
Asked == (\E service \in Services : Ask(service)) \/ left' = left

\* The bound on requests stays a number.
LEMMA AskedKeepsLoads == LoadsOK /\ Asked => LoadsOK'
<1> SUFFICES ASSUME LoadsOK, Asked PROVE LoadsOK'
  OBVIOUS
<1>1. ASSUME NEW service \in Services, Ask(service) PROVE LoadsOK'
  BY <1>1 DEF LoadsOK, Ask
<1> QED
  BY <1>1 DEF Asked, LoadsOK

\* A delegation step is a request's arrival or leaves the bound alone.
LEMMA DelegationAsks == DelegationNext => Asked
BY Zenon DEF DelegationNext, RequestDelegation, RevokeDelegation, ApproveSelect, ApproveIssue,
             ApproveCommit, ApproveFails, Asked, Services

\* So is a step of the credentials, and it leaves the delegations alone.
LEMMA VacAsks == VacNext => Asked /\ UNCHANGED dvars
<1> USE DEF Asked, Services
<1>1. ASSUME NEW g \in Reads, NEW at, NEW a, NEW flag, StartRead(g, at, a, flag)
      PROVE  Asked /\ UNCHANGED dvars
  BY <1>1, Zenon DEF StartRead
<1>2. Tick => Asked /\ UNCHANGED dvars
  BY DEF Tick
<1>3. ASSUME NEW a \in Agents, NEW i \in VacIds,
             RefreshVacCredential(i, a) \/ PresentVp(i, a) \/ RefreshAllVacs(i, a)
      PROVE  Asked /\ UNCHANGED dvars
  BY <1>3, Zenon DEF RefreshVacCredential, PresentVp, RefreshAllVacs
<1>4. ASSUME NEW a \in Agents, NEW g \in Reads, NEW flag \in BOOLEAN,
             \/ GetVacCredential(g, a, flag) \/ GetVacCredentialFull(g, a, flag)
             \/ ReconstructVp(g, a, flag) \/ IssueAttestation(g, a)
      PROVE  Asked /\ UNCHANGED dvars
  BY <1>1, <1>4, Zenon DEF GetVacCredential, GetVacCredentialFull, ReconstructVp, IssueAttestation
<1>5. ASSUME NEW g \in Reads, GetVac(g) \/ \E i \in VacIds : GenerateForRead(g, i)
      PROVE  Asked /\ UNCHANGED dvars
  BY <1>5 DEF GetVac, GenerateForRead
<1>6. ASSUME NEW c \in Creds, RevokeCredential(c) \/ \E a \in Agents : SubmitVp(c, a)
      PROVE  Asked /\ UNCHANGED dvars
  BY <1>6, Zenon DEF RevokeCredential, SubmitVp
<1> QED
  BY <1>2, <1>3, <1>4, <1>5, <1>6, Zenon DEF VacNext

\* So is a step of a writer of events.
LEMMA EventAsks == EventNext => Asked
<1> USE DEF Asked, Services
<1>1. ASSUME NEW c, NEW a, NEW h, SubmitCheck(c, a, h) \/ \E r, s \in Receipts : AuditCheck(c, a, r, s, h)
      PROVE  Asked
  BY <1>1, Zenon DEF SubmitCheck, AuditCheck
<1>2. ASSUME NEW c, NEW a, NEW tx, NEW amount, NEW answers, VerifyX402Payment(c, a, tx, amount, answers)
      PROVE  Asked
  BY <1>2, Zenon DEF VerifyX402Payment
<1>3. ASSUME NEW c, NEW a, NEW tx, NEW asset, NEW from, NEW to, NEW amount, NEW answers,
             VerifySolanaPayment(c, a, tx, asset, from, to, amount, answers)
      PROVE  Asked
  BY <1>3, Zenon DEF VerifySolanaPayment
<1>4. ASSUME NEW c, SubmitInsert(c) \/ AuditInsert(c) \/ AuditActivity(c)
      PROVE  Asked
  BY <1>4, Zenon DEF SubmitInsert, AuditInsert, AuditActivity
<1> QED
  BY <1>1, <1>2, <1>3, <1>4, Zenon DEF EventNext

\* So is a step of a chain verification.
LEMMA ChainAsks == ChainNext => Asked
BY Zenon DEF ChainNext, VerifySelect, VerifyDelete, VerifyInsert, VerifyRecord, VerifyBreaksOff,
             Asked, Services

\* So is a step of the extension registry.
LEMMA ExtensionAsks == ExtensionNext => Asked
BY Zenon DEF ExtensionNext, RegisterLook, RegisterExtension, AttestLook, AttestExtension,
             Asked, Services

\* The services start in their invariants.
LEMMA AgentStarts == Init => AgentInv
BY RequestsAssumption, DelegationStarts, VacStarts, EventsStart, ChainStarts, ExtensionStarts
   DEF Init, AgentInv, LoadsOK

\* Each service's step keeps its own invariant and leaves the tables of the others;
\* the credentials also see approvals go through.
LEMMA AgentSteps ==
  ASSUME AgentInv, [Next]_vars
  PROVE  AgentInv' /\ [VacStands]_vvars
<1> USE DEF AgentInv
<1>1. CASE DelegationNext /\ UNCHANGED <<vvars, evars, cvars, xvars>>
  BY <1>1, DelegationAsks, AskedKeepsLoads, DelegationSteps, GrantsStand, VacSteps, EventSteps,
     ChainSteps, ExtensionSteps
<1>2. CASE VacNext /\ UNCHANGED <<evars, cvars, xvars>>
  BY <1>2, VacAsks, AskedKeepsLoads, DelegationSteps, VacSteps, EventSteps, ChainSteps,
     ExtensionSteps
<1>3. CASE EventNext /\ UNCHANGED <<dvars, vvars, cvars, xvars>>
  <2>1. Granted \subseteq Granted'
    BY <1>3 DEF dvars, Granted
  <2> QED
    BY <1>3, <2>1, EventAsks, AskedKeepsLoads, DelegationSteps, VacSteps, EventSteps, ChainSteps,
       ExtensionSteps
<1>4. CASE ChainNext /\ UNCHANGED <<dvars, vvars, evars, xvars>>
  <2>1. Granted \subseteq Granted'
    BY <1>4 DEF dvars, Granted
  <2> QED
    BY <1>4, <2>1, ChainAsks, AskedKeepsLoads, DelegationSteps, VacSteps, EventSteps, ChainSteps,
       ExtensionSteps
<1>5. CASE ExtensionNext /\ UNCHANGED <<dvars, vvars, evars, cvars>>
  <2>1. Granted \subseteq Granted'
    BY <1>5 DEF dvars, Granted
  <2> QED
    BY <1>5, <2>1, ExtensionAsks, AskedKeepsLoads, DelegationSteps, VacSteps, EventSteps,
       ChainSteps, ExtensionSteps
<1>6. CASE UNCHANGED vars
  <2>1. left' = left /\ UNCHANGED dvars /\ UNCHANGED vvars /\ UNCHANGED evars /\ UNCHANGED cvars
        /\ UNCHANGED xvars
    BY <1>6 DEF vars
  <2>2. Granted \subseteq Granted'
    BY <2>1 DEF dvars, Granted
  <2> QED
    BY <2>1, <2>2, AskedKeepsLoads, DelegationSteps, VacSteps, EventSteps, ChainSteps,
       ExtensionSteps DEF Asked
<1> QED
  BY <1>1, <1>2, <1>3, <1>4, <1>5, <1>6 DEF Next

\* The conjunction of the services' invariants holds in every reachable state.
LEMMA AgentInvHolds == Spec => []AgentInv
<1>1. AgentInv /\ [Next]_vars => AgentInv'
  BY AgentSteps
<1> QED
  BY AgentStarts, <1>1, PTL DEF Spec

\* The shapes of the five services are their types.
LEMMA AgentInvIsTyped == AgentInv => TypeOK
<1> SUFFICES ASSUME AgentInv PROVE TypeOK
  OBVIOUS
<1>1. DelegationTypeOK
  BY RequestIsThere
     DEF AgentInv, DelegationInv, DelegationShape, DelegationTypeOK, Request, VcRefs, Approval
<1>2. VacTypeOK
  BY DEF AgentInv, VacInv, VacTablesInv, ReadsInv, VacTypeOK, Vc, VacRow, Read, Stored
<1>3. EventTypeOK
  <2>1. \A c \in EventCalls : calls[c].at \in {"new", "submit", "audit", "stored", "done"}
    BY DEF AgentInv, EventInv, EventShape, EventCall, SubmitCall, AuditCall
  <2>2. \A e \in Recorded : events[e].agent \in Agents /\ events[e].hash \in Hashes
    BY DEF AgentInv, EventInv, EventShape, Recorded, EventRow, SubmitRow, AuditRow, X402Row,
           SolanaRow, Hashes
  <2> QED
    BY <2>1, <2>2 DEF AgentInv, EventInv, EventShape, EventTypeOK, Hashes, Recorded
<1>4. ChainTypeOK
  BY DEF AgentInv, ChainInv, ChainShape, ChainTypeOK, ChainRow, ChainCall
<1>5. ExtensionTypeOK
  BY DEF AgentInv, ExtensionInv, ExtensionShape, ExtensionTypeOK, ExtRow, Tag, ExtCall
<1> QED
  BY <1>1, <1>2, <1>3, <1>4, <1>5 DEF AgentInv, LoadsOK, TypeOK

\* Rows are true and served presentations were live, as the invariant says of reads.
LEMMA VacInvIsSafe == VacInv => RowsAreTrue /\ ServedIsLive
BY DEF VacInv, VacTablesInv, ReadsInv, ReadOK, ServedIsLive

\* The tables and the calls of every service keep their types.
THEOREM TypeCorrect == Spec => []TypeOK
BY AgentInvHolds, AgentInvIsTyped, PTL

\* The Delegation VC of an agent's record is the one its request names, however
\* approvals of the same request or agent and revocations overlap.
THEOREM VcsMatchTheirRequests == Spec => []AgentVcIsItsRequests
<1>1. AgentInv => AgentVcIsItsRequests
  BY DelegationInvIsSafe DEF AgentInv
<1> QED
  BY AgentInvHolds, <1>1, PTL

\* A trust score holds at most one bonus for each approval that went through, and at
\* least one once any did, or is at the limit.
THEOREM ScoresAreEarnedByApprovals == Spec => []ScoreBacked
<1>1. AgentInv => ScoreBacked
  BY DelegationInvIsSafe DEF AgentInv
<1> QED
  BY AgentInvHolds, <1>1, PTL

\* A row of vac_credentials is of a VC the server signed, expires with it and is
\* revoked exactly when the registry lists it.
THEOREM CredentialRowsAreTrue == Spec => []RowsAreTrue
<1>1. AgentInv => RowsAreTrue
  BY VacInvIsSafe DEF AgentInv
<1> QED
  BY AgentInvHolds, <1>1, PTL

\* What a read serves was not revoked when the read came in and has not expired.
THEOREM ServedPresentationsAreLive == Spec => []ServedIsLive
<1>1. AgentInv => ServedIsLive
  BY VacInvIsSafe DEF AgentInv
<1> QED
  BY AgentInvHolds, <1>1, PTL

\* No step of any service takes a revocation back.
THEOREM RevocationIsForGood == Spec => RevokedForGood
<1>1. AgentInv /\ [Next]_vars => [\A c \in Stored : creds[c].revoked
                                    => creds'[c] # NoCred /\ creds'[c].revoked]_vvars
  <2> SUFFICES ASSUME AgentInv, [Next]_vars
               PROVE  [\A c \in Stored : creds[c].revoked
                         => creds'[c] # NoCred /\ creds'[c].revoked]_vvars
    OBVIOUS
  <2>1. [VacStands]_vvars
    BY AgentSteps
  <2> QED
    BY <2>1 DEF VacStands
<1> QED
  BY AgentInvHolds, <1>1, PTL DEF Spec, RevokedForGood

\* A transaction hash is submitted twice, a receipt recorded twice, only by calls
\* that overlapped.
THEOREM RepeatsAreRaces == Spec => []RepeatsOnlyByRaces
<1>1. AgentInv => RepeatsOnlyByRaces
  BY EventInvIsSafe DEF AgentInv
<1> QED
  BY AgentInvHolds, <1>1, PTL

\* A credential has its event, and a payment recorded without a discrepancy happened
\* on its chain, whatever the facilitators and the nodes answered before.
THEOREM CredentialsHaveTheirEvents == Spec => []CredentialsAreBacked
<1>1. AgentInv => CredentialsAreBacked
  BY EventInvIsSafe DEF AgentInv
<1> QED
  BY AgentInvHolds, <1>1, PTL

\* Two calls ask an adapter about one receipt at a time only after an attempt at it
\* failed.
THEOREM AdapterIsAskedOnce == Spec => []DispatchedOnce
<1>1. AgentInv => DispatchedOnce
  BY ChainInvIsSafe DEF AgentInv
<1> QED
  BY AgentInvHolds, <1>1, PTL

\* A verified row has the tier that the evidence of a call for its receipt reached.
THEOREM VerifiedMeansBacked == Spec => []VerifiedRowsAreBacked
<1>1. AgentInv => VerifiedRowsAreBacked
  BY ChainInvIsSafe DEF AgentInv
<1> QED
  BY AgentInvHolds, <1>1, PTL

\* A namespace has two holders only where their registrations overlapped, and then of
\* different versions; a tagged credential is of the extension's own integrator.
THEOREM NamespacesAreHeldOnce == Spec => []NamespaceSharedOnlyByRace
<1>1. AgentInv => NamespaceSharedOnlyByRace
  BY ExtensionInvIsSafe DEF AgentInv
<1> QED
  BY AgentInvHolds, <1>1, PTL

=============================================================================
