-------------------------- MODULE StatusListsProofs -------------------------
(***************************************************************************)
(* Proofs about StatusLists, for every number of lists, issuers and        *)
(* workers and every capacity: the allocation of indices is sound with any *)
(* number of workers, and with one worker the store implements the         *)
(* registry, so that revocation is terminal.                               *)
(***************************************************************************)
EXTENDS StatusLists, TLAPS

\* A list that does not exist has its initial row, and one that does has a
\* purpose: what makes CreateList the only writer of owner and purpose.
RowsAreCreated ==
  \A l \in Lists : IF Exists(l) THEN registry[l].purpose \in Purposes
                   ELSE registry[l] = NoRow

\* A worker about to write a list writes an existing row.
UpdatesTargetRows ==
  \A w \in Workers :
    worker[w].op = "update" => worker[w].list \in Lists /\ Exists(worker[w].list)

\* The inductive invariant of allocate_index.
AllocInv ==
  /\ TypeOK
  /\ RowsAreCreated
  /\ UpdatesTargetRows
  /\ LockedReadIsCurrent
  /\ NextIsHighWaterMark

\* The row after the UPDATE of allocate_index.
LEMMA AllocatedRow ==
  ASSUME NEW r \in Row, r.next < Capacity
  PROVE LET q == [r EXCEPT !.next = @ + 1] IN
        /\ q \in Row /\ q.next = r.next + 1
        /\ q.owner = r.owner /\ q.purpose = r.purpose
        /\ q.bits = r.bits /\ q.placeholder = r.placeholder
BY CapacityAssumption DEF Row

\* The row after the UPDATE of update_status_list.
LEMMA PublishedRow ==
  ASSUME NEW r \in Row, NEW b \in SUBSET Index
  PROVE LET q == [r EXCEPT !.bits = b, !.placeholder = FALSE] IN
        /\ q \in Row /\ q.next = r.next
        /\ q.owner = r.owner /\ q.purpose = r.purpose
        /\ q.bits = b /\ q.placeholder = FALSE
BY DEF Row

\* The empty registry satisfies the invariant.
LEMMA AllocInit == Init => AllocInv
<1> SUFFICES ASSUME Init PROVE AllocInv
  OBVIOUS
<1> USE CapacityAssumption, NoneAssumption
<1>1. TypeOK
  <2>1. NoRow \in Row
    BY DEF NoRow, Row, Index, Purposes
  <2>2. Idle \in Work
    BY DEF Idle, Work, Index
  <2> QED
    BY <2>1, <2>2 DEF Init, TypeOK
<1>2. RowsAreCreated
  BY DEF Init, RowsAreCreated, Exists, NoRow
<1>3. LockedReadIsCurrent /\ UpdatesTargetRows
  BY DEF Init, LockedReadIsCurrent, UpdatesTargetRows, Idle
<1>4. NextIsHighWaterMark
  BY DEF Init, NextIsHighWaterMark, NoRow, Index
<1> QED
  BY <1>1, <1>2, <1>3, <1>4 DEF AllocInv

\* Every step preserves it: only AllocateCommit moves next and handedOut, and it
\* moves them for the value its lock kept current.
LEMMA AllocStep == AllocInv /\ [Next]_vars => AllocInv'
<1> SUFFICES ASSUME AllocInv, [Next]_vars PROVE AllocInv'
  OBVIOUS
<1> USE CapacityAssumption, NoneAssumption
<1>0. Idle \in Work
  BY DEF Idle, Work, Index
<1>1. ASSUME NEW w \in Workers, NEW l \in Lists, NEW d \in DIDs, NEW p \in Purposes,
             CreateList(w, l, d, p)
      PROVE AllocInv'
  <2> DEFINE new == [owner |-> d, purpose |-> p, bits |-> {}, placeholder |-> TRUE, next |-> 0]
  <2>1. new \in Row /\ new.next = 0 /\ new.owner # NoOwner
    BY DEF Row
  <2>2. registry' = [registry EXCEPT ![l] = new] /\ registry[l] = NoRow
    BY <1>1 DEF CreateList, AllocInv, RowsAreCreated
  <2> HIDE DEF new
  <2>3. TypeOK'
    BY <1>1, <2>1, <2>2 DEF CreateList, AllocInv, TypeOK
  <2>4. RowsAreCreated'
    BY <1>1, <2>1, <2>2 DEF AllocInv, TypeOK, RowsAreCreated, Exists, new
  <2>5. LockedReadIsCurrent' /\ UpdatesTargetRows'
    BY <1>1, <2>1, <2>2 DEF CreateList, AllocInv, TypeOK, LockedReadIsCurrent,
                            UpdatesTargetRows, Exists
  <2>6. NextIsHighWaterMark'
    BY <1>1, <2>1, <2>2 DEF CreateList, AllocInv, TypeOK, NextIsHighWaterMark, NoRow
  <2> QED
    BY <2>3, <2>4, <2>5, <2>6 DEF AllocInv
<1>2. ASSUME NEW w \in Workers, NEW l \in Lists, NEW d \in DIDs, AllocateSelect(w, l, d)
      PROVE AllocInv'
  <2> DEFINE job == [op |-> "alloc", list |-> l, index |-> registry[l].next, bits |-> {}]
  <2>1. job \in Work /\ job.op = "alloc" /\ job.list = l /\ job.index = registry[l].next
    BY <1>2 DEF AllocInv, TypeOK, Row, Work
  <2>2. worker' = [worker EXCEPT ![w] = job] /\ UNCHANGED <<registry, handedOut>>
    BY <1>2 DEF AllocateSelect
  <2> HIDE DEF job
  <2>3. TypeOK'
    BY <1>2, <2>1, <2>2 DEF AllocateSelect, AllocInv, TypeOK
  <2>4. RowsAreCreated' /\ NextIsHighWaterMark' /\ UpdatesTargetRows'
    BY <2>1, <2>2 DEF AllocInv, TypeOK, RowsAreCreated, NextIsHighWaterMark,
                      UpdatesTargetRows, Exists
  <2>5. LockedReadIsCurrent'
    <3> SUFFICES ASSUME NEW v \in Workers, worker'[v].op = "alloc"
                 PROVE /\ worker'[v].list \in Lists
                       /\ Exists(worker'[v].list)
                       /\ rowLock'[worker'[v].list] = {v}
                       /\ worker'[v].index = registry[worker'[v].list].next
                       /\ registry[worker'[v].list].next < Capacity
      BY <2>2 DEF LockedReadIsCurrent, Exists
    <3>1. CASE v = w
      BY <1>2, <2>1, <2>2, <3>1 DEF AllocateSelect, AllocInv, TypeOK
    <3>2. CASE v # w
      <4>1. worker'[v] = worker[v]
        BY <2>2, <3>2 DEF AllocInv, TypeOK
      <4>2. worker[v].list # l
        BY <1>2, <4>1 DEF AllocateSelect, AllocInv, LockedReadIsCurrent
      <4> QED
        BY <1>2, <4>1, <4>2 DEF AllocateSelect, AllocInv, TypeOK, LockedReadIsCurrent
    <3> QED
      BY <3>1, <3>2
  <2> QED
    BY <2>3, <2>4, <2>5 DEF AllocInv
<1>3. ASSUME NEW w \in Workers, AllocateCommit(w)
      PROVE AllocInv'
  <2> DEFINE l == worker[w].list
             row == [registry[l] EXCEPT !.next = @ + 1]
  <2>1. /\ l \in Lists /\ Exists(l) /\ rowLock[l] = {w}
        /\ worker[w].index = registry[l].next /\ registry[l].next < Capacity
    BY <1>3 DEF AllocateCommit, AllocInv, LockedReadIsCurrent
  <2>2. registry[l] \in Row /\ registry[l].next \in Index
    BY <2>1 DEF AllocInv, TypeOK, Row, Index
  <2>3. /\ row \in Row /\ row.next = registry[l].next + 1
        /\ row.owner = registry[l].owner /\ row.purpose = registry[l].purpose
    BY <2>1, <2>2, AllocatedRow
  <2>4. registry' = [registry EXCEPT ![l] = row]
    BY <1>3 DEF AllocateCommit
  <2>5. /\ worker' = [worker EXCEPT ![w] = Idle]
        /\ rowLock' = [rowLock EXCEPT ![l] = @ \ {w}]
        /\ handedOut' = [handedOut EXCEPT ![l][registry[l].next] = @ + 1]
    BY <1>3, <2>1 DEF AllocateCommit
  <2> HIDE DEF l, row
  <2>6. TypeOK'
    BY <1>0, <2>1, <2>2, <2>3, <2>4, <2>5 DEF AllocInv, TypeOK
  <2>7. RowsAreCreated'
    BY <2>1, <2>3, <2>4 DEF AllocInv, TypeOK, RowsAreCreated, Exists
  <2>8. LockedReadIsCurrent' /\ UpdatesTargetRows'
    BY <2>1, <2>3, <2>4, <2>5 DEF AllocInv, TypeOK, LockedReadIsCurrent,
                                  UpdatesTargetRows, Exists, Idle
  <2>9. NextIsHighWaterMark'
    BY <2>1, <2>2, <2>3, <2>4, <2>5 DEF AllocInv, TypeOK, NextIsHighWaterMark, Index, Row
  <2> QED
    BY <2>6, <2>7, <2>8, <2>9 DEF AllocInv
<1>4. ASSUME NEW w \in Workers, NEW l \in Lists, NEW d \in DIDs, NEW p \in Purposes,
             NEW b \in SUBSET Index, NEW n, UpdateValidate(w, l, d, p, b, n)
      PROVE AllocInv'
  <2> DEFINE job == [op |-> "update", list |-> l, index |-> 0, bits |-> b]
  <2>1. job \in Work /\ job.op = "update" /\ job.list = l
    BY DEF Work
  <2>2. /\ worker' = [worker EXCEPT ![w] = job] /\ Exists(l)
        /\ UNCHANGED <<registry, rowLock, handedOut>>
    BY <1>4 DEF UpdateValidate
  <2> HIDE DEF job
  <2> QED
    BY <2>1, <2>2 DEF AllocInv, TypeOK, RowsAreCreated, UpdatesTargetRows,
                      LockedReadIsCurrent, NextIsHighWaterMark, Exists
<1>5. ASSUME NEW w \in Workers, UpdateApply(w)
      PROVE AllocInv'
  <2> DEFINE l == worker[w].list
             row == [registry[l] EXCEPT !.bits = worker[w].bits, !.placeholder = FALSE]
  <2>1. l \in Lists /\ Exists(l) /\ registry[l] \in Row /\ worker[w].bits \in SUBSET Index
    BY <1>5 DEF UpdateApply, AllocInv, UpdatesTargetRows, TypeOK, Work
  <2>2. /\ row \in Row /\ row.next = registry[l].next
        /\ row.owner = registry[l].owner /\ row.purpose = registry[l].purpose
    BY <2>1, PublishedRow
  <2>3. registry' = [registry EXCEPT ![l] = row]
    BY <1>5 DEF UpdateApply
  <2>4. worker' = [worker EXCEPT ![w] = Idle] /\ UNCHANGED <<rowLock, handedOut>>
    BY <1>5 DEF UpdateApply
  <2> HIDE DEF l, row
  <2>5. TypeOK'
    BY <1>0, <2>1, <2>2, <2>3, <2>4 DEF AllocInv, TypeOK
  <2>6. RowsAreCreated' /\ NextIsHighWaterMark'
    BY <2>1, <2>2, <2>3, <2>4 DEF AllocInv, TypeOK, RowsAreCreated, NextIsHighWaterMark, Exists
  <2>7. LockedReadIsCurrent' /\ UpdatesTargetRows'
    BY <2>1, <2>2, <2>3, <2>4 DEF AllocInv, TypeOK, LockedReadIsCurrent,
                                  UpdatesTargetRows, Exists, Idle
  <2> QED
    BY <2>5, <2>6, <2>7 DEF AllocInv
<1>6. ASSUME NEW w \in Workers, Crash(w)
      PROVE AllocInv'
  BY <1>0, <1>6 DEF Crash, AllocInv, TypeOK, RowsAreCreated, UpdatesTargetRows,
                    LockedReadIsCurrent, NextIsHighWaterMark, Exists, Idle
<1>7. CASE UNCHANGED vars
  BY <1>7 DEF vars, AllocInv, TypeOK, RowsAreCreated, UpdatesTargetRows,
              LockedReadIsCurrent, NextIsHighWaterMark, Exists
<1> QED
  BY <1>1, <1>2, <1>3, <1>4, <1>5, <1>6, <1>7 DEF Next

\* The invariant of allocate_index holds in every reachable state.
LEMMA AllocInvariant == Spec => []AllocInv
BY AllocInit, AllocStep, PTL DEF Spec

\* Type correctness of the registry and of the requests: in particular
\* next_available_index never passes the capacity of its list.
THEOREM TypeCorrect == Spec => []TypeOK
BY AllocInvariant, PTL DEF AllocInv

\* With any number of workers, dying at any point, allocate_index returns no
\* index of a list twice.
THEOREM IndicesAreUnique == Spec => []IndexHandedOutOnce
<1>1. AllocInv => IndexHandedOutOnce
  BY DEF AllocInv, NextIsHighWaterMark, IndexHandedOutOnce
<1> QED
  BY <1>1, AllocInvariant, PTL

\* next_available_index is exactly the number of indices returned: a worker that
\* dies before its commit wastes none.
THEOREM HighWaterMark == Spec => []NextIsHighWaterMark
BY AllocInvariant, PTL DEF AllocInv

-----------------------------------------------------------------------------
\* With one process, the validation of an update is still true when it is
\* applied.
LEMMA UpdateStep ==
  ASSUME SingleWorker
  PROVE AllocInv /\ ValidatedUpdateIsCurrent /\ [Next]_vars => ValidatedUpdateIsCurrent'
<1> SUFFICES ASSUME AllocInv, ValidatedUpdateIsCurrent, [Next]_vars
             PROVE ValidatedUpdateIsCurrent'
  OBVIOUS
<1> USE DEF ValidatedUpdateIsCurrent
<1>1. ASSUME NEW w \in Workers, NEW l \in Lists, NEW d \in DIDs, NEW p \in Purposes,
             CreateList(w, l, d, p)
      PROVE ValidatedUpdateIsCurrent'
  BY <1>1 DEF CreateList, SingleWorker, Idle
<1>2. ASSUME NEW w \in Workers, NEW l \in Lists, NEW d \in DIDs, AllocateSelect(w, l, d)
      PROVE ValidatedUpdateIsCurrent'
  BY <1>2 DEF AllocateSelect, SingleWorker, AllocInv, TypeOK
<1>3. ASSUME NEW w \in Workers, AllocateCommit(w)
      PROVE ValidatedUpdateIsCurrent'
  BY <1>3 DEF AllocateCommit, SingleWorker, Idle, AllocInv, TypeOK
<1>4. ASSUME NEW w \in Workers, NEW l \in Lists, NEW d \in DIDs, NEW p \in Purposes,
             NEW b \in SUBSET Index, NEW n, UpdateValidate(w, l, d, p, b, n)
      PROVE ValidatedUpdateIsCurrent'
  <2> DEFINE job == [op |-> "update", list |-> l, index |-> 0, bits |-> b]
  <2>1. worker' = [worker EXCEPT ![w] = job] /\ job.list = l /\ job.bits = b
    BY <1>4 DEF UpdateValidate
  <2> HIDE DEF job
  <2>2. worker'[w].list = l /\ worker'[w].bits = b
    BY <2>1 DEF AllocInv, TypeOK
  <2>3. Exists(l) /\ ValidUpdate(registry[l], b, Capacity) /\ registry' = registry
    BY <1>4 DEF UpdateValidate, ValidUpdate
  <2> QED
    BY <2>2, <2>3 DEF SingleWorker, Exists, ValidUpdate
<1>5. ASSUME NEW w \in Workers, UpdateApply(w) \/ Crash(w)
      PROVE ValidatedUpdateIsCurrent'
  BY <1>5 DEF UpdateApply, Crash, SingleWorker, Idle, AllocInv, TypeOK
<1>6. CASE UNCHANGED vars
  BY <1>6 DEF vars, Exists, ValidUpdate
<1> QED
  BY <1>1, <1>2, <1>3, <1>4, <1>5, <1>6 DEF Next

\* The invariant behind both results about one process.
LEMMA UpdateInvariant ==
  ASSUME SingleWorker PROVE Spec => [](AllocInv /\ ValidatedUpdateIsCurrent)
<1>1. Init => ValidatedUpdateIsCurrent
  BY DEF Init, ValidatedUpdateIsCurrent, Idle
<1> QED
  BY <1>1, UpdateStep, AllocInit, AllocStep, PTL DEF Spec

\* A row nobody created, as the registry sees it.
LEMMA NoRowIsNotServed ==
  /\ NoRow.purpose = "none" /\ NoRow.bits = {} /\ NoRow.placeholder = TRUE
  /\ [published |-> ~NoRow.placeholder, bits |-> NoRow.bits] = Abs!NotServed
BY DEF NoRow, Abs!NotServed

\* Every step of the store is a step of the registry or changes nothing in it:
\* creating a list is RegCreate, the UPDATE of a validated list is RegPublish.
LEMMA StepRefines ==
  AllocInv /\ ValidatedUpdateIsCurrent /\ [Next]_vars => [Abs!RegNext]_<<AbsPurpose, AbsServed>>
<1> SUFFICES ASSUME AllocInv, ValidatedUpdateIsCurrent, [Next]_vars
             PROVE [Abs!RegNext]_<<AbsPurpose, AbsServed>>
  OBVIOUS
<1>1. ASSUME NEW w \in Workers, NEW l \in Lists, NEW d \in DIDs, NEW p \in Purposes,
             CreateList(w, l, d, p)
      PROVE Abs!RegNext
  <2> DEFINE new == [owner |-> d, purpose |-> p, bits |-> {}, placeholder |-> TRUE, next |-> 0]
  <2>1. new.purpose = p /\ new.bits = {} /\ new.placeholder = TRUE
    OBVIOUS
  <2>2. registry' = [registry EXCEPT ![l] = new] /\ registry[l] = NoRow
    BY <1>1 DEF CreateList, AllocInv, RowsAreCreated
  <2> HIDE DEF new
  <2>3. AbsPurpose[l] = "none" /\ AbsPurpose' = [AbsPurpose EXCEPT ![l] = p]
    BY <2>1, <2>2, NoRowIsNotServed DEF AbsPurpose, AllocInv, TypeOK
  <2>4. AbsServed' = AbsServed
    <3>1. \A m \in Lists : /\ registry'[m].placeholder = registry[m].placeholder
                           /\ registry'[m].bits = registry[m].bits
      BY <2>1, <2>2, NoRowIsNotServed DEF AllocInv, TypeOK
    <3> QED
      BY <3>1 DEF AbsServed
  <2>5. Abs!RegCreate(l, p)
    BY <2>3, <2>4 DEF Abs!RegCreate
  <2> QED
    BY <2>5 DEF Abs!RegNext, Abs!Purposes, Purposes
<1>2. ASSUME NEW w \in Workers, UpdateApply(w)
      PROVE Abs!RegNext
  <2> DEFINE l == worker[w].list
             b == worker[w].bits
             row == [registry[l] EXCEPT !.bits = b, !.placeholder = FALSE]
  <2>1. /\ l \in Lists /\ Exists(l) /\ registry[l] \in Row /\ b \in SUBSET Index
        /\ ValidUpdate(registry[l], b, Capacity) /\ registry[l].purpose \in Purposes
    BY <1>2 DEF UpdateApply, AllocInv, ValidatedUpdateIsCurrent, TypeOK, Work, RowsAreCreated
  <2>2. row.purpose = registry[l].purpose /\ row.bits = b /\ row.placeholder = FALSE
    BY <2>1, PublishedRow
  <2>3. registry' = [registry EXCEPT ![l] = row]
    BY <1>2 DEF UpdateApply
  <2> HIDE DEF l, b, row
  <2>4. AbsPurpose' = AbsPurpose
    BY <2>1, <2>2, <2>3 DEF AbsPurpose, AllocInv, TypeOK
  <2>5. AbsServed' = [AbsServed EXCEPT ![l] = Abs!Serving(b)]
    BY <2>1, <2>2, <2>3 DEF AbsServed, AllocInv, TypeOK, Abs!Serving
  <2>6. AbsPurpose[l] = registry[l].purpose /\ AbsServed[l].bits = registry[l].bits
    BY <2>1 DEF AbsPurpose, AbsServed
  <2>7. Abs!RegPublish(l, b)
    BY <2>1, <2>4, <2>5, <2>6 DEF Abs!RegPublish, Abs!LegalChange, ValidUpdate, Purposes
  <2> QED
    BY <2>1, <2>7 DEF Abs!RegNext
<1>3. ASSUME NEW w \in Workers, AllocateCommit(w)
      PROVE UNCHANGED <<AbsPurpose, AbsServed>>
  <2> DEFINE l == worker[w].list
             row == [registry[l] EXCEPT !.next = @ + 1]
  <2>1. l \in Lists /\ registry[l].next < Capacity
    BY <1>3 DEF AllocateCommit, AllocInv, LockedReadIsCurrent
  <2>2. /\ row.purpose = registry[l].purpose /\ row.bits = registry[l].bits
        /\ row.placeholder = registry[l].placeholder
    BY <2>1, AllocatedRow DEF AllocInv, TypeOK
  <2>3. registry' = [registry EXCEPT ![l] = row]
    BY <1>3 DEF AllocateCommit
  <2> HIDE DEF l, row
  <2> QED
    BY <2>1, <2>2, <2>3 DEF AbsPurpose, AbsServed, AllocInv, TypeOK
<1>4. ASSUME UNCHANGED registry
      PROVE UNCHANGED <<AbsPurpose, AbsServed>>
  BY <1>4 DEF AbsPurpose, AbsServed
<1> QED
  BY <1>1, <1>2, <1>3, <1>4 DEF Next, AllocateSelect, UpdateValidate, Crash, vars

\* With one process, what GET serves behaves as the registry that verifiers rely
\* on, for every number of lists and issuers and every capacity.
THEOREM StoreImplementsRegistry == ASSUME SingleWorker PROVE Spec => ImplementsRegistry
<1>1. Init => Abs!RegInit
  BY NoRowIsNotServed DEF Init, Abs!RegInit, AbsPurpose, AbsServed
<1> QED
  BY <1>1, StepRefines, UpdateInvariant, PTL
  DEF Spec, ImplementsRegistry, Abs!RegSpec, Abs!regVars

\* With one process, a bit a revocation list has set is never cleared.
THEOREM RevocationIsTerminal == ASSUME SingleWorker PROVE Spec => RevocationTerminal
<1> DEFINE Kept == \A l \in Lists : registry[l].purpose = "revocation"
                     => registry[l].bits \subseteq registry'[l].bits
<1>1. ASSUME AllocInv, ValidatedUpdateIsCurrent, [Next]_vars
      PROVE [Kept]_vars
  <2>1. [Abs!RegNext]_<<AbsPurpose, AbsServed>>
    BY <1>1, StepRefines
  <2>2. \A l \in Lists : /\ AbsPurpose[l] = registry[l].purpose
                         /\ AbsServed[l].bits = registry[l].bits
                         /\ AbsServed'[l].bits = registry'[l].bits
    BY DEF AbsPurpose, AbsServed
  <2>3. CASE UNCHANGED <<AbsPurpose, AbsServed>>
    BY <2>2, <2>3
  <2>4. ASSUME NEW l \in Lists, NEW p, Abs!RegCreate(l, p)
        PROVE Kept
    BY <2>2, <2>4 DEF Abs!RegCreate
  <2>5. ASSUME NEW l \in Lists, NEW b, Abs!RegPublish(l, b)
        PROVE Kept
    BY <2>2, <2>5 DEF Abs!RegPublish, Abs!LegalChange, Abs!Serving, AbsServed
  <2> QED
    BY <2>1, <2>3, <2>4, <2>5 DEF Abs!RegNext
<1> QED
  BY <1>1, UpdateInvariant, PTL DEF Spec, RevocationTerminal
=============================================================================
