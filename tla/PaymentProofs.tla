--------------------------- MODULE PaymentProofs ----------------------------
(***************************************************************************)
(* Proofs about what is paid: that the book of transactions and            *)
(* counterparties is true and that receipts never lower a score (Ledger),  *)
(* for every set of receipts, transfers, agents and organisations, and     *)
(* that purchases were approved (MagicLinks),                              *)
(* for every number of links and pages and every ttl.  The two share       *)
(* nothing but time.                                                       *)
(***************************************************************************)
EXTENDS Ledger, MagicLinks, FiniteSetTheorems, TLAPS

(***************************************************************************)
(* Ledger                                                                  *)
(***************************************************************************)
\* The shapes of a transaction's row, a submission and a counterparty.
Row == [agent: Agents \cup {Unset}, counterparty: Addresses \cup {Unset}, vc: Vcs \cup {Unset}]
Submission == [pc: {"idle", "queued", "verifying", "verified", "done", "failed"},
               vc: Vcs \cup {Unset}]
Entry == [status: {"none", "observed", "accepted", "revoked"}, count: Nat]

\* The transactions that have a row.
There(rows) == {t \in Txs : rows[t].agent # Unset}

\* The transactions of an organisation's agents with an address.
TheirTxs(rows, o, a) ==
  {t \in There(rows) : Org(rows[t].agent) = o /\ rows[t].counterparty = a}

\* A request has a receipt, an acceptance its counterparty.
ActorsKnowTheirs ==
  /\ \A r \in Requests : req[r].pc # "idle" => req[r].vc \in Vcs
  /\ accept # NoAccept => accept.org \in Orgs /\ accept.address \in Addresses

\* The listener shows no receipt but one of its transaction.
ListenerIsTrue ==
  listener # Quiet =>
    /\ listener.tx \in Txs
    /\ listener.vc # Unset => listener.vc \in receipts /\ Vc[listener.vc].tx = listener.tx

\* Only a row that is there shows a receipt; there are finitely many.
RowsAreThere ==
  /\ \A t \in Txs : row[t].vc # Unset => Present(t)
  /\ IsFiniteSet(There(row))

\* Nothing is counted before the counterparty has its row.
UnknownIsUncounted ==
  \A o \in Orgs, a \in Addresses : cp[o][a].status = "none" => cp[o][a].count = 0

\* The inductive invariant of the book.
LedgerInv ==
  /\ TypeOK
  /\ ActorsKnowTheirs /\ ListenerIsTrue /\ RowsAreThere /\ UnknownIsUncounted
  /\ CountsMatchTransactions /\ ReceiptsAreBridged

\* The empty book satisfies the invariant.
LEMMA LedgerInit == Init => LedgerInv
<1> SUFFICES ASSUME Init PROVE LedgerInv
  OBVIOUS
<1> USE LedgerAssumption
<1>1. TypeOK
  BY DEF Init, TypeOK, NoRow, NoCp, Idle, Quiet, NoAccept
<1>2. ActorsKnowTheirs /\ ListenerIsTrue /\ UnknownIsUncounted /\ ReceiptsAreBridged
  BY DEF Init, ActorsKnowTheirs, ListenerIsTrue, UnknownIsUncounted, ReceiptsAreBridged,
         Idle, NoCp, NoRow
<1>3. \A t \in Txs : ~Present(t) /\ row[t].vc = Unset
  BY DEF Init, Present, NoRow
<1>4. RowsAreThere
  <2>1. There(row) = {}
    BY <1>3 DEF There, Present
  <2> QED
    BY <1>3, <2>1, FS_EmptySet DEF RowsAreThere
<1>5. CountsMatchTransactions
  <2> SUFFICES ASSUME NEW o \in Orgs, NEW a \in Addresses
               PROVE  cp[o][a].count =
                        Cardinality({t \in Txs : /\ Present(t) /\ Org(row[t].agent) = o
                                                 /\ row[t].counterparty = a})
    BY DEF CountsMatchTransactions
  <2>1. {t \in Txs : Present(t) /\ Org(row[t].agent) = o /\ row[t].counterparty = a} = {}
    BY <1>3
  <2> QED
    BY <2>1, FS_EmptySet DEF Init, NoCp
<1> QED
  BY <1>1, <1>2, <1>4, <1>5 DEF LedgerInv

\* The trigger counts one transaction more against one counterparty of one
\* organisation.
LEMMA ObservedOnce ==
  ASSUME cp \in [Orgs -> [Addresses -> Entry]], NEW o \in Orgs, NEW a \in Addresses
  PROVE  /\ Observed(o, a) \in [Orgs -> [Addresses -> Entry]]
         /\ Observed(o, a)[o][a].count = cp[o][a].count + 1
         /\ Observed(o, a)[o][a].status # "none"
         /\ \A p \in Orgs, b \in Addresses : p # o \/ b # a => Observed(o, a)[p][b] = cp[p][b]
<1> USE LedgerAssumption
<1>1. Observed(o, a) = [cp EXCEPT ![o][a].status = IF cp[o][a].status = "none" THEN "observed"
                                                   ELSE cp[o][a].status,
                                  ![o][a].count = cp[o][a].count + 1]
  BY DEF Observed
<1>2. /\ Observed(o, a)[o][a] \in Entry
      /\ Observed(o, a)[o][a].count = cp[o][a].count + 1
      /\ Observed(o, a)[o][a].status # "none"
  BY <1>1 DEF Entry
<1>3. \A p \in Orgs, b \in Addresses : p # o \/ b # a => Observed(o, a)[p][b] = cp[p][b]
  BY <1>1
<1>4. Observed(o, a) \in [Orgs -> [Addresses -> Entry]]
  <2> DEFINE n == [cp[o] EXCEPT ![a].status = IF cp[o][a].status = "none" THEN "observed"
                                              ELSE cp[o][a].status,
                                ![a].count = cp[o][a].count + 1]
  <2>1. n \in [Addresses -> Entry]
    BY DEF Entry
  <2>2. Observed(o, a) = [cp EXCEPT ![o] = n]
    BY <1>1
  <2> HIDE DEF n
  <2> QED
    BY <2>1, <2>2
<1> QED
  BY <1>2, <1>3, <1>4

\* A new row is counted once, for the organisation and the address it names.
LEMMA InsertsAreCounted ==
  ASSUME LedgerInv, NEW t \in Txs, ~Present(t), NEW r \in Row, r.agent # Unset, InsertRow(t, r)
  PROVE  /\ row' \in [Txs -> Row] /\ cp' \in [Orgs -> [Addresses -> Entry]]
         /\ row'[t] = r /\ \A u \in Txs : u # t => row'[u] = row[u]
         /\ IsFiniteSet(There(row'))
         /\ UnknownIsUncounted' /\ CountsMatchTransactions'
<1> USE LedgerAssumption
<1>1. row \in [Txs -> Row] /\ cp \in [Orgs -> [Addresses -> Entry]]
  BY DEF LedgerInv, TypeOK, Row, Entry
<1>2. row' = [row EXCEPT ![t] = r] /\ cp' = Observed(Org(r.agent), r.counterparty)
  BY DEF InsertRow
<1>3. row' \in [Txs -> Row] /\ row'[t] = r /\ \A u \in Txs : u # t => row'[u] = row[u]
  BY <1>1, <1>2
<1>4. IsFiniteSet(There(row'))
  <2>1. There(row') = There(row) \cup {t}
    BY <1>3 DEF There, Present
  <2> QED
    BY <2>1, FS_AddElement DEF LedgerInv, RowsAreThere
<1>5. Org(r.agent) \in Orgs \cup {Unset} /\ r.counterparty \in Addresses \cup {Unset}
  BY DEF Org, Row
<1>6. /\ cp' \in [Orgs -> [Addresses -> Entry]]
      /\ \A o \in Orgs, a \in Addresses :
           IF o = Org(r.agent) /\ a = r.counterparty
           THEN cp'[o][a].count = cp[o][a].count + 1 /\ cp'[o][a].status # "none"
           ELSE cp'[o][a] = cp[o][a]
  <2>1. CASE Org(r.agent) = Unset \/ r.counterparty = Unset
    BY <1>1, <1>2, <2>1 DEF Observed
  <2>2. CASE Org(r.agent) \in Orgs /\ r.counterparty \in Addresses
    BY <1>1, <1>2, <2>2, ObservedOnce
  <2> QED
    BY <1>5, <2>1, <2>2
<1>7. UnknownIsUncounted'
  BY <1>6 DEF UnknownIsUncounted, LedgerInv
<1>8. CountsMatchTransactions'
  <2> SUFFICES ASSUME NEW o \in Orgs, NEW a \in Addresses
               PROVE  cp'[o][a].count = Cardinality(TheirTxs(row', o, a))
    BY DEF CountsMatchTransactions, TheirTxs, There, Present
  <2>1. cp[o][a].count = Cardinality(TheirTxs(row, o, a))
    BY DEF LedgerInv, CountsMatchTransactions, TheirTxs, There, Present
  <2>2. t \notin TheirTxs(row, o, a)
    BY DEF TheirTxs, There, Present
  <2>3. IsFiniteSet(TheirTxs(row, o, a))
    BY FS_Subset DEF TheirTxs, LedgerInv, RowsAreThere
  <2>4. CASE o = Org(r.agent) /\ a = r.counterparty
    <3>1. TheirTxs(row', o, a) = TheirTxs(row, o, a) \cup {t}
      BY <1>3, <2>4 DEF TheirTxs, There
    <3>2. Cardinality(TheirTxs(row', o, a)) = Cardinality(TheirTxs(row, o, a)) + 1
      BY <2>2, <2>3, <3>1, FS_AddElement
    <3> QED
      BY <1>6, <2>1, <2>4, <3>2
  <2>5. CASE ~(o = Org(r.agent) /\ a = r.counterparty)
    <3>1. TheirTxs(row', o, a) = TheirTxs(row, o, a)
      BY <1>3, <2>2, <2>5 DEF TheirTxs, There
    <3> QED
      BY <1>6, <2>1, <2>5, <3>1
  <2> QED
    BY <2>4, <2>5
<1> QED
  BY <1>3, <1>4, <1>6, <1>7, <1>8

\* The book is as good as it was when no row and no count changes.
LEMMA BookStays ==
  ASSUME LedgerInv, UNCHANGED row, cp' \in [Orgs -> [Addresses -> Entry]],
         \A o \in Orgs, a \in Addresses : /\ cp'[o][a].count = cp[o][a].count
                                          /\ cp'[o][a].status = "none" => cp[o][a].status = "none"
  PROVE  RowsAreThere' /\ UnknownIsUncounted' /\ CountsMatchTransactions'
<1>1. RowsAreThere'
  BY DEF LedgerInv, RowsAreThere, Present
<1>2. UnknownIsUncounted'
  BY DEF LedgerInv, UnknownIsUncounted
<1>3. CountsMatchTransactions'
  <2> SUFFICES ASSUME NEW o \in Orgs, NEW a \in Addresses
               PROVE  cp'[o][a].count = Cardinality(TheirTxs(row', o, a))
    BY DEF CountsMatchTransactions, TheirTxs, There, Present
  <2> QED
    BY DEF LedgerInv, CountsMatchTransactions, TheirTxs, There, Present
<1> QED
  BY <1>1, <1>2, <1>3

\* A new receipt of an agent gets its transaction, or finds it and is shown by it.
LEMMA StoringBridges ==
  ASSUME LedgerInv, NEW v \in Vcs \ receipts, Vc[v].agent \in Agents \cup {Unset},
         receipts' = receipts \cup {v}, Bridge(v), UNCHANGED listener
  PROVE  /\ row' \in [Txs -> Row] /\ cp' \in [Orgs -> [Addresses -> Entry]]
         /\ ListenerIsTrue' /\ RowsAreThere' /\ UnknownIsUncounted'
         /\ CountsMatchTransactions' /\ ReceiptsAreBridged'
<1> USE LedgerAssumption
<1>1. row \in [Txs -> Row] /\ cp \in [Orgs -> [Addresses -> Entry]] /\ receipts \subseteq Vcs
  BY DEF LedgerInv, TypeOK, Row, Entry
<1>2. ListenerIsTrue'
  BY DEF LedgerInv, ListenerIsTrue
<1>3. Vc[v].tx \in Txs /\ Vc[v].sender \in Addresses \cup {Unset}
  OBVIOUS
<1>4. CASE Vc[v].agent = Unset
  <2>1. UNCHANGED <<row, cp>>
    BY <1>4 DEF Bridge
  <2>2. ReceiptsAreBridged'
    BY <1>4, <2>1 DEF LedgerInv, ReceiptsAreBridged
  <2> QED
    BY <1>1, <1>2, <2>1, <2>2, BookStays
<1>5. CASE Vc[v].agent # Unset /\ Present(Vc[v].tx)
  <2> DEFINE t == Vc[v].tx
             n == [row[t] EXCEPT !.vc = v]
  <2>1. row' = [row EXCEPT ![t] = n] /\ UNCHANGED cp
    BY <1>1, <1>3, <1>5 DEF Bridge
  <2>2. row[t] \in Row
    BY <1>1, <1>3
  <2>3. n \in Row /\ n.vc = v /\ n.agent = row[t].agent /\ n.counterparty = row[t].counterparty
    BY <2>2 DEF Row
  <2> HIDE DEF n
  <2>4. /\ row' \in [Txs -> Row] /\ row'[t].vc = v /\ \A u \in Txs : u # t => row'[u] = row[u]
        /\ \A u \in Txs : row'[u].agent = row[u].agent /\ row'[u].counterparty = row[u].counterparty
    BY <1>1, <1>3, <2>1, <2>3
  <2>5. ReceiptsAreBridged'
    BY <1>1, <1>3, <2>4 DEF LedgerInv, ReceiptsAreBridged
  <2>6. \A u \in Txs : Present(u)' = Present(u)
    BY <2>4 DEF Present
  <2>7. RowsAreThere'
    <3>1. There(row') = There(row)
      BY <2>4 DEF There
    <3>2. \A u \in Txs : row'[u].vc # Unset => Present(u)'
      BY <1>5, <2>4, <2>6 DEF LedgerInv, RowsAreThere
    <3> QED
      BY <3>1, <3>2 DEF LedgerInv, RowsAreThere
  <2>8. UnknownIsUncounted'
    BY <2>1 DEF LedgerInv, UnknownIsUncounted
  <2>9. CountsMatchTransactions'
    <3>1. \A o, a : TheirTxs(row', o, a) = TheirTxs(row, o, a)
      BY <2>4 DEF TheirTxs, There
    <3> SUFFICES ASSUME NEW o \in Orgs, NEW a \in Addresses
                 PROVE  cp'[o][a].count = Cardinality(TheirTxs(row', o, a))
      BY DEF CountsMatchTransactions, TheirTxs, There, Present
    <3>2. cp[o][a].count = Cardinality(TheirTxs(row, o, a))
      BY DEF LedgerInv, CountsMatchTransactions, TheirTxs, There, Present
    <3> QED
      BY <2>1, <3>1, <3>2
  <2> QED
    BY <1>1, <1>2, <2>1, <2>4, <2>5, <2>7, <2>8, <2>9
<1>6. CASE Vc[v].agent # Unset /\ ~Present(Vc[v].tx)
  <2> DEFINE r == [agent |-> Vc[v].agent, counterparty |-> Vc[v].sender, vc |-> v]
  <2>1. r \in Row /\ r.agent # Unset /\ r.vc = v
    BY <1>3, <1>6 DEF Row
  <2>2. InsertRow(Vc[v].tx, r)
    BY <1>6 DEF Bridge
  <2> HIDE DEF r
  <2>3. /\ row' \in [Txs -> Row] /\ cp' \in [Orgs -> [Addresses -> Entry]]
        /\ row'[Vc[v].tx] = r /\ \A u \in Txs : u # Vc[v].tx => row'[u] = row[u]
        /\ IsFiniteSet(There(row'))
        /\ UnknownIsUncounted' /\ CountsMatchTransactions'
    BY <1>3, <1>6, <2>1, <2>2, InsertsAreCounted
  <2>4. RowsAreThere'
    BY <2>1, <2>3 DEF LedgerInv, RowsAreThere, Present
  <2>5. ReceiptsAreBridged'
    <3>1. ASSUME NEW w \in receipts', Vc[w].agent # Unset PROVE row'[Vc[w].tx].vc # Unset
      <4>1. CASE Vc[w].tx = Vc[v].tx
        BY <2>1, <2>3, <4>1
      <4>2. CASE Vc[w].tx # Vc[v].tx
        <5>1. w \in receipts /\ Vc[w].tx \in Txs /\ row[Vc[w].tx].vc # Unset
          BY <1>1, <3>1, <4>2 DEF LedgerInv, ReceiptsAreBridged
        <5> QED
          BY <2>3, <4>2, <5>1
      <4> QED
        BY <4>1, <4>2
    <3>2. \A t \in Txs : row'[t].vc # Unset => row'[t].vc \in receipts' /\ Vc[row'[t].vc].tx = t
      BY <2>1, <2>3 DEF LedgerInv, ReceiptsAreBridged
    <3> QED
      BY <3>1, <3>2 DEF ReceiptsAreBridged
  <2> QED
    BY <1>2, <2>3, <2>4, <2>5
<1> QED
  BY <1>4, <1>5, <1>6

\* A step that leaves the book, the receipts and the listener alone.
LEMMA OthersMove ==
  ASSUME LedgerInv, UNCHANGED <<bookVars, listener>>, ActorsKnowTheirs',
         depth' \in [Txs -> -1 .. MinConf], now' \in 0 .. MaxTime,
         req' \in [Requests -> Submission],
         accept' \in [org: Orgs \cup {Unset}, address: Addresses \cup {Unset}, found: BOOLEAN]
  PROVE  LedgerInv'
<1>1. UNCHANGED <<receipts, row, cp, listener>>
  BY DEF bookVars
<1>2. cp \in [Orgs -> [Addresses -> Entry]]
  BY DEF LedgerInv, TypeOK, Entry
<1>3. RowsAreThere' /\ UnknownIsUncounted' /\ CountsMatchTransactions'
  BY <1>1, <1>2, BookStays
<1>4. ListenerIsTrue' /\ ReceiptsAreBridged' /\ TypeOK'
  BY <1>1 DEF LedgerInv, TypeOK, ListenerIsTrue, ReceiptsAreBridged, Submission
<1> QED
  BY <1>3, <1>4 DEF LedgerInv

\* A step of the submissions, each of which keeps or gets a receipt.
LEMMA RequestsMove ==
  ASSUME LedgerInv, UNCHANGED <<chainVars, bookVars, listener, accept>>,
         req' \in [Requests -> Submission],
         \A q \in Requests : req'[q].pc # "idle" => req'[q].vc \in Vcs
  PROVE  LedgerInv'
<1>1. depth \in [Txs -> -1 .. MinConf] /\ now \in 0 .. MaxTime /\ UNCHANGED <<depth, now>>
  BY DEF LedgerInv, TypeOK, chainVars
<1>2. accept' \in [org: Orgs \cup {Unset}, address: Addresses \cup {Unset}, found: BOOLEAN]
  BY DEF LedgerInv, TypeOK
<1>3. ActorsKnowTheirs'
  BY DEF LedgerInv, ActorsKnowTheirs
<1> QED
  BY <1>1, <1>2, <1>3, OthersMove

\* A submission in progress goes on with the receipt it has.
LEMMA RequestGoesOn ==
  ASSUME LedgerInv, NEW r \in Requests, req[r].pc # "idle",
         NEW pc \in {"queued", "verifying", "verified", "done", "failed"},
         req' = [req EXCEPT ![r].pc = pc]
  PROVE  /\ req' \in [Requests -> Submission]
         /\ \A q \in Requests : req'[q].pc # "idle" => req'[q].vc \in Vcs
BY DEF LedgerInv, TypeOK, ActorsKnowTheirs, Submission

\* An acceptance or a revocation of a known counterparty.
LEMMA StatusChanges ==
  ASSUME cp \in [Orgs -> [Addresses -> Entry]], NEW o \in Orgs, NEW a \in Addresses,
         NEW s \in {"accepted", "revoked"}, cp' = [cp EXCEPT ![o][a].status = s]
  PROVE  /\ cp' \in [Orgs -> [Addresses -> Entry]]
         /\ \A p \in Orgs, b \in Addresses :
              /\ cp'[p][b].count = cp[p][b].count
              /\ cp'[p][b].status = "none" => cp[p][b].status = "none"
<1> DEFINE n == [cp[o] EXCEPT ![a].status = s]
<1>1. /\ n \in [Addresses -> Entry]
      /\ \A b \in Addresses : /\ n[b].count = cp[o][b].count
                              /\ n[b].status = "none" => cp[o][b].status = "none"
  BY DEF Entry
<1>2. cp' = [cp EXCEPT ![o] = n]
  OBVIOUS
<1> HIDE DEF n
<1> QED
  BY <1>1, <1>2

\* Every step preserves it: only PersistReceipt and ListenerInserts insert a row, an
\* existing one keeps its place, and acceptances and revocations count nothing.
LEMMA LedgerSteps == LedgerInv /\ [Next]_vars => LedgerInv'
<1> SUFFICES ASSUME LedgerInv, [Next]_vars PROVE LedgerInv'
  OBVIOUS
<1> USE LedgerAssumption
<1>0. /\ depth \in [Txs -> -1 .. MinConf] /\ now \in 0 .. MaxTime
      /\ req \in [Requests -> Submission]
      /\ accept \in [org: Orgs \cup {Unset}, address: Addresses \cup {Unset}, found: BOOLEAN]
      /\ listener \in [tx: Txs \cup {Unset}, vc: Vcs \cup {Unset}]
      /\ receipts \subseteq Vcs /\ row \in [Txs -> Row] /\ cp \in [Orgs -> [Addresses -> Entry]]
      /\ ActorsKnowTheirs
  BY DEF LedgerInv, TypeOK, Row, Entry, Submission
<1>1. CASE Tick
  BY <1>0, <1>1, OthersMove DEF Tick, Later, ActorsKnowTheirs
<1>2. ASSUME NEW t \in Txs, Confirm(t) PROVE LedgerInv'
  <2>1. depth' \in [Txs -> -1 .. MinConf]
    BY <1>0, <1>2 DEF Confirm
  <2> QED
    BY <1>0, <1>2, <2>1, OthersMove DEF Confirm, ActorsKnowTheirs
<1>3. ASSUME NEW t \in Txs, ListenerEnriches(t) PROVE LedgerInv'
  <2>1. PICK v \in Vcs \cup {Unset} :
          listener' = [tx |-> t, vc |-> v] /\ (v # Unset => v \in receipts /\ Vc[v].tx = t)
    BY <1>0, <1>3 DEF ListenerEnriches
  <2>2. UNCHANGED <<depth, now, receipts, row, cp, req, accept>>
    BY <1>3 DEF ListenerEnriches, chainVars, bookVars
  <2>3. ListenerIsTrue'
    BY <2>1, <2>2 DEF ListenerIsTrue
  <2>4. listener' \in [tx: Txs \cup {Unset}, vc: Vcs \cup {Unset}]
    BY <2>1
  <2>5. TypeOK' /\ ActorsKnowTheirs' /\ ReceiptsAreBridged'
    BY <2>2, <2>4 DEF LedgerInv, TypeOK, ActorsKnowTheirs, ReceiptsAreBridged
  <2> QED
    BY <1>0, <2>2, <2>3, <2>5, BookStays DEF LedgerInv
<1>4. CASE ListenerInserts
  <2>1. /\ listener.tx \in Txs /\ listener' = Quiet
        /\ UNCHANGED <<depth, now, receipts, req, accept>>
        /\ listener.vc # Unset => listener.vc \in receipts /\ Vc[listener.vc].tx = listener.tx
    BY <1>4 DEF ListenerInserts, LedgerInv, ListenerIsTrue, chainVars
  <2>2. ListenerIsTrue' /\ ActorsKnowTheirs'
    BY <2>1 DEF ListenerIsTrue, LedgerInv, ActorsKnowTheirs
  <2>3. CASE Present(listener.tx)
    <3>1. UNCHANGED <<row, cp>>
      BY <1>4, <2>3 DEF ListenerInserts
    <3>2. TypeOK' /\ ReceiptsAreBridged'
      BY <2>1, <3>1 DEF LedgerInv, TypeOK, ReceiptsAreBridged, Quiet
    <3> QED
      BY <1>0, <2>2, <3>1, <3>2, BookStays DEF LedgerInv
  <2>4. ASSUME NEW t \in Txs, t = listener.tx, ~Present(t) PROVE LedgerInv'
    <3> DEFINE r == [agent |-> Transfer[t].agent, counterparty |-> Transfer[t].sender,
                     vc |-> listener.vc]
    <3>1. r \in Row /\ r.agent # Unset /\ r.vc = listener.vc
      BY <1>0 DEF Row
    <3>2. InsertRow(t, r)
      BY <1>4, <2>4 DEF ListenerInserts
    <3> HIDE DEF r
    <3>3. /\ row' \in [Txs -> Row] /\ cp' \in [Orgs -> [Addresses -> Entry]]
          /\ row'[t] = r /\ \A u \in Txs : u # t => row'[u] = row[u]
          /\ IsFiniteSet(There(row'))
          /\ UnknownIsUncounted' /\ CountsMatchTransactions'
      BY <2>4, <3>1, <3>2, InsertsAreCounted
    <3>4. RowsAreThere'
      BY <3>1, <3>3 DEF LedgerInv, RowsAreThere, Present
    <3>5. row[t].vc = Unset
      BY <2>4 DEF LedgerInv, RowsAreThere
    <3>6. ReceiptsAreBridged'
      <4>1. ASSUME NEW w \in receipts', Vc[w].agent # Unset PROVE row'[Vc[w].tx].vc # Unset
        <5>1. row[Vc[w].tx].vc # Unset /\ Vc[w].tx \in Txs
          BY <1>0, <2>1, <4>1 DEF LedgerInv, ReceiptsAreBridged
        <5> QED
          BY <3>3, <3>5, <5>1
      <4>2. ASSUME NEW u \in Txs, row'[u].vc # Unset
            PROVE  row'[u].vc \in receipts' /\ Vc[row'[u].vc].tx = u
        BY <2>1, <2>4, <3>1, <3>3, <4>2 DEF LedgerInv, ReceiptsAreBridged
      <4> QED
        BY <4>1, <4>2 DEF ReceiptsAreBridged
    <3>7. TypeOK'
      BY <1>0, <2>1, <3>3 DEF TypeOK, Row, Entry, Submission, Quiet
    <3> QED
      BY <2>2, <3>3, <3>4, <3>6, <3>7 DEF LedgerInv
  <2> QED
    BY <2>1, <2>3, <2>4
<1>5. ASSUME NEW r \in Requests, NEW v \in Vcs, SubmitReceipt(r, v) PROVE LedgerInv'
  <2>1. /\ req' \in [Requests -> Submission]
        /\ \A q \in Requests : req'[q].pc # "idle" => req'[q].vc \in Vcs
    BY <1>0, <1>5 DEF SubmitReceipt, ActorsKnowTheirs, Submission
  <2> QED
    BY <1>5, <2>1, RequestsMove DEF SubmitReceipt
<1>6. ASSUME NEW r \in Requests, NEW pc \in {"verifying", "verified", "failed"}, req[r].pc # "idle",
             req' = [req EXCEPT ![r].pc = pc], UNCHANGED <<chainVars, bookVars, listener, accept>>
      PROVE  LedgerInv'
  BY <1>6, RequestGoesOn, RequestsMove
<1>7. ASSUME NEW r \in Requests,
             RailStart(r) \/ RailTimeout(r) \/ \E fails \in BOOLEAN : RailAnswers(r, fails)
      PROVE  LedgerInv'
  BY <1>6, <1>7 DEF RailStart, RailTimeout, RailAnswers
<1>8. ASSUME NEW r \in Requests, NEW ok \in BOOLEAN, PersistReceipt(r, ok) PROVE LedgerInv'
  <2>1. req[r].vc \in Vcs /\ req[r].pc # "idle" /\ UNCHANGED <<chainVars, listener, accept>>
    BY <1>0, <1>8 DEF PersistReceipt, ActorsKnowTheirs
  <2>2. PICK pc \in {"done", "failed"} : req' = [req EXCEPT ![r].pc = pc]
    BY <1>8 DEF PersistReceipt
  <2>3. CASE UNCHANGED bookVars
    BY <2>1, <2>2, <2>3, RequestGoesOn, RequestsMove
  <2>4. ASSUME NEW v \in Vcs \ receipts, Vc[v].agent \in Agents \cup {Unset},
               receipts' = receipts \cup {v}, Bridge(v)
        PROVE  LedgerInv'
    <3>1. /\ row' \in [Txs -> Row] /\ cp' \in [Orgs -> [Addresses -> Entry]]
          /\ ListenerIsTrue' /\ RowsAreThere' /\ UnknownIsUncounted'
          /\ CountsMatchTransactions' /\ ReceiptsAreBridged'
      BY <2>1, <2>4, StoringBridges
    <3>2. /\ req' \in [Requests -> Submission]
          /\ \A q \in Requests : req'[q].pc # "idle" => req'[q].vc \in Vcs
      BY <2>1, <2>2, RequestGoesOn
    <3>3. TypeOK' /\ ActorsKnowTheirs'
      BY <1>0, <2>1, <2>4, <3>1, <3>2
      DEF TypeOK, ActorsKnowTheirs, chainVars, Row, Entry, Submission
    <3> QED
      BY <3>1, <3>3 DEF LedgerInv
  <2> QED
    BY <1>8, <2>1, <2>3, <2>4 DEF PersistReceipt
<1>9. CASE Restart
  <2>1. /\ req' \in [Requests -> Submission]
        /\ \A r \in Requests : req'[r].pc # "idle" => req'[r].vc \in Vcs
    BY <1>0, <1>9 DEF Restart, ActorsKnowTheirs, Submission
  <2>2. ActorsKnowTheirs' /\ accept' = NoAccept
    BY <1>9, <2>1 DEF Restart, ActorsKnowTheirs
  <2> QED
    BY <1>0, <1>9, <2>1, <2>2, OthersMove DEF Restart, chainVars, NoAccept
<1>10. ASSUME NEW o \in Orgs, NEW a \in Addresses, AcceptSelect(o, a) PROVE LedgerInv'
  <2>1. ActorsKnowTheirs'
    BY <1>0, <1>10 DEF AcceptSelect, ActorsKnowTheirs
  <2> QED
    BY <1>0, <1>10, <2>1, OthersMove DEF AcceptSelect, chainVars
<1>11. ASSUME NEW o \in Orgs, NEW a \in Addresses, RevokeCounterparty(o, a) PROVE LedgerInv'
  <2>1. UNCHANGED <<depth, now, receipts, row, req, listener, accept>>
    BY <1>11 DEF RevokeCounterparty, chainVars
  <2>2. /\ cp' \in [Orgs -> [Addresses -> Entry]]
        /\ \A p \in Orgs, b \in Addresses : /\ cp'[p][b].count = cp[p][b].count
                                            /\ cp'[p][b].status = "none" => cp[p][b].status = "none"
    BY <1>0, <1>11, StatusChanges DEF RevokeCounterparty
  <2>3. TypeOK' /\ ActorsKnowTheirs' /\ ListenerIsTrue' /\ ReceiptsAreBridged'
    BY <2>1, <2>2 DEF LedgerInv, TypeOK, ActorsKnowTheirs, ListenerIsTrue, ReceiptsAreBridged, Entry
  <2> QED
    BY <2>1, <2>2, <2>3, BookStays DEF LedgerInv
<1>12. CASE AcceptWrite
  <2>1. /\ UNCHANGED <<depth, now, receipts, row, req, listener>> /\ accept' = NoAccept
        /\ accept.org \in Orgs /\ accept.address \in Addresses
    BY <1>0, <1>12 DEF AcceptWrite, chainVars, ActorsKnowTheirs
  <2>2. ASSUME NEW o \in Orgs, NEW a \in Addresses, o = accept.org, a = accept.address
        PROVE  /\ cp' \in [Orgs -> [Addresses -> Entry]]
               /\ \A p \in Orgs, b \in Addresses :
                    /\ cp'[p][b].count = cp[p][b].count
                    /\ cp'[p][b].status = "none" => cp[p][b].status = "none"
    <3>1. CASE accept.found
      BY <1>0, <1>12, <2>2, <3>1, StatusChanges DEF AcceptWrite
    <3>2. CASE ~accept.found /\ cp[o][a].status # "none"
      BY <1>0, <1>12, <2>2, <3>2 DEF AcceptWrite
    <3>3. CASE ~accept.found /\ cp[o][a].status = "none"
      <4> DEFINE n == [NoCp EXCEPT !.status = "accepted"]
      <4>1. cp' = [cp EXCEPT ![o][a] = n]
        BY <1>12, <2>2, <3>3 DEF AcceptWrite
      <4>2. n \in Entry /\ n.count = 0 /\ n.status = "accepted"
        BY DEF NoCp, Entry
      <4>3. cp[o][a].count = 0
        BY <3>3 DEF LedgerInv, UnknownIsUncounted
      <4> HIDE DEF n
      <4> QED
        BY <1>0, <4>1, <4>2, <4>3
    <3> QED
      BY <3>1, <3>2, <3>3
  <2>3. NoAccept \in [org: Orgs \cup {Unset}, address: Addresses \cup {Unset}, found: BOOLEAN]
    BY DEF NoAccept
  <2>4. cp' \in [Orgs -> [Addresses -> Entry]]
    BY <2>1, <2>2
  <2>5. TypeOK' /\ ActorsKnowTheirs' /\ ListenerIsTrue' /\ ReceiptsAreBridged'
    BY <2>1, <2>3, <2>4 DEF LedgerInv, TypeOK, ActorsKnowTheirs, ListenerIsTrue,
                            ReceiptsAreBridged, Entry
  <2> QED
    BY <2>1, <2>2, <2>5, BookStays DEF LedgerInv
<1>13. CASE UNCHANGED vars
  BY <1>0, <1>13, OthersMove DEF vars, bookVars, ActorsKnowTheirs
<1> QED
  BY <1>1, <1>2, <1>3, <1>4, <1>5, <1>7, <1>8, <1>9, <1>10, <1>11, <1>12, <1>13 DEF Next, Serve

\* The invariant of the book holds in every reachable state.
LEMMA LedgerAlways == Spec => []LedgerInv
BY LedgerInit, LedgerSteps, PTL DEF Spec

\* The rows, counterparties, submissions and the listener stay in their types.
THEOREM LedgerTypeCorrect == Spec => []TypeOK
BY LedgerAlways, PTL DEF LedgerInv

\* What an organisation sees counted against an address is the number of its agents'
\* transactions with it, for any number of receipts, transfers and submissions.
THEOREM TransactionsAreCountedOnce == Spec => []CountsMatchTransactions
BY LedgerAlways, PTL DEF LedgerInv

\* A stored receipt of an agent has a transaction that shows a receipt, and a transaction
\* shows only a stored receipt of its own, whichever of trigger and listener was first.
THEOREM ReceiptsReachTheBook == Spec => []ReceiptsAreBridged
BY LedgerAlways, PTL DEF LedgerInv

(***************************************************************************)
(* The trust score.  The view sums amounts over sets and takes a maximum,  *)
(* and what such an aggregate is for every set follows by induction.  The  *)
(* induction is over sets: the numbers whose statement fails would have a  *)
(* least one, since inclusion of finite sets is well founded.              *)
(***************************************************************************)
\* A set of numbers that is not empty has a least element.
LEMMA LeastNumber ==
  ASSUME NEW S \in SUBSET Nat, S # {}
  PROVE  \E x \in S : \A y \in S : x <= y
<1> DEFINE T == {0 .. x : x \in S}
           R == StrictSubsetOrdering(Nat)
<1>1. T \subseteq FiniteSubsetsOf(Nat) /\ T # {}
  <2>1. ASSUME NEW x \in S PROVE 0 .. x \in FiniteSubsetsOf(Nat)
    BY FS_Interval DEF FiniteSubsetsOf
  <2> QED
    BY <2>1
<1>2. IsWellFoundedOn(R, FiniteSubsetsOf(Nat))
  BY FS_StrictSubsetOrderingWellFounded
<1>3. PICK X \in T : \A Y \in T : ~(<<Y, X>> \in R)
  BY <1>1, <1>2, WFMin, Zenon
<1>4. PICK x \in S : X = 0 .. x
  BY <1>3
<1>5. ASSUME NEW y \in S, y < x PROVE FALSE
  <2>1. 0 .. y \subseteq 0 .. x /\ 0 .. y # 0 .. x /\ 0 .. y \in T
    <3>1. x \in 0 .. x /\ x \notin 0 .. y /\ 0 .. y \subseteq 0 .. x
      BY <1>5
    <3> QED
      BY <3>1
  <2>2. <<0 .. y, X>> \in R
    BY <1>4, <2>1 DEF StrictSubsetOrdering
  <2> QED
    BY <1>3, <2>1, <2>2
<1>6. \A y \in S : x <= y
  BY <1>5
<1> QED
  BY <1>6

\* Induction over the numbers up to n, with a set for the property.
LEMMA CountingUp ==
  ASSUME NEW n \in Nat, NEW G, 0 \in G, \A k \in 0 .. n - 1 : k \in G => k + 1 \in G
  PROVE  0 .. n \subseteq G
<1> DEFINE Bad == (0 .. n) \ G
<1> SUFFICES ASSUME Bad # {} PROVE FALSE
  OBVIOUS
<1>1. Bad \in SUBSET Nat
  OBVIOUS
<1> HIDE DEF Bad
<1>2. PICK x \in Bad : \A y \in Bad : x <= y
  BY <1>1, LeastNumber
<1> USE DEF Bad
<1>3. x # 0 /\ x - 1 \in 0 .. n - 1
  BY <1>2
<1>4. x - 1 \notin Bad
  BY <1>2, <1>3
<1>5. x - 1 \in G
  BY <1>3, <1>4
<1> QED
  BY <1>2, <1>3, <1>5

\* A finite set of numbers that is not empty has a greatest element: the one that
\* leaves the fewest above it.
LEMMA GreatestNumber ==
  ASSUME NEW S \in SUBSET Int, S # {}, IsFiniteSet(S)
  PROVE  Max(S) \in S /\ \A y \in S : Max(S) >= y
<1> DEFINE Above(x) == {y \in S : y > x}
           T == {Above(x) : x \in S}
<1>1. T \subseteq FiniteSubsetsOf(S) /\ T # {}
  <2>1. ASSUME NEW x \in S PROVE Above(x) \in FiniteSubsetsOf(S)
    BY FS_Subset DEF FiniteSubsetsOf
  <2> QED
    BY <2>1
<1>2. IsWellFoundedOn(StrictSubsetOrdering(S), FiniteSubsetsOf(S))
  BY FS_StrictSubsetOrderingWellFounded
<1>3. PICK X \in T : \A Y \in T : ~(<<Y, X>> \in StrictSubsetOrdering(S))
  BY <1>1, <1>2, WFMin, Zenon
<1>4. PICK x \in S : X = Above(x)
  BY <1>3
<1>5. ASSUME NEW y \in S, y > x PROVE FALSE
  <2>1. Above(y) \subseteq Above(x) /\ Above(y) # Above(x) /\ Above(y) \in T
    <3>1. y \in Int /\ x \in Int /\ y > x
      BY <1>5
    <3>2. y \in Above(x) /\ y \notin Above(y)
      BY <3>1
    <3>3. \A z \in S : z > y => z > x
      BY <3>1
    <3> QED
      BY <3>2, <3>3
  <2>2. <<Above(y), X>> \in StrictSubsetOrdering(S)
    BY <1>4, <2>1 DEF StrictSubsetOrdering
  <2> QED
    BY <1>3, <2>1, <2>2
<1>6. \A y \in S : x >= y
  BY <1>5
<1> QED
  BY <1>6 DEF Max

-----------------------------------------------------------------------------
\* F gives every subset of S the sum of its amounts, in the order of CHOOSE.
IsSum(F, S) ==
  F = [s \in SUBSET S |->
         IF s = {} THEN 0
         ELSE Vc[CHOOSE x \in s : TRUE].amount + F[s \ {CHOOSE x \in s : TRUE}]]

\* Volume is such a sum.
LEMMA VolumeIsSum ==
  ASSUME NEW rs, NEW assets
  PROVE  LET S == {v \in rs : Vc[v].asset \in assets}
         IN  Volume(rs, assets) = (CHOOSE F : IsSum(F, S))[S]
BY DEF Volume, MapThenSumSet, MapThenFoldSet, IsSum

\* The sum over a finite set exists: one is built up by the size of the subsets.
LEMMA SumExists ==
  ASSUME NEW S, IsFiniteSet(S)
  PROVE  \E F : IsSum(F, S)
<1> DEFINE Small(k) == {s \in SUBSET S : Cardinality(s) <= k}
           Sums(F, k) == \A s \in Small(k) :
                           F[s] = IF s = {} THEN 0
                                  ELSE Vc[CHOOSE x \in s : TRUE].amount
                                       + F[s \ {CHOOSE x \in s : TRUE}]
           G == {k \in Nat : \E F : Sums(F, k)}
           n == Cardinality(S)
<1>1. n \in Nat /\ \A s \in SUBSET S : IsFiniteSet(s) /\ Cardinality(s) \in 0 .. n
  BY FS_CardinalityType, FS_Subset
<1>2. 0 \in G
  <2>1. \A s \in Small(0) : s = {}
    BY <1>1, FS_EmptySet
  <2>2. Sums([s \in SUBSET S |-> 0], 0)
    BY <2>1
  <2> QED
    BY <2>2
<1>3. ASSUME NEW k \in 0 .. n - 1, k \in G PROVE k + 1 \in G
  <2>1. PICK F : Sums(F, k)
    BY <1>3
  <2> DEFINE H == [s \in SUBSET S |->
                     IF s = {} THEN 0
                     ELSE Vc[CHOOSE x \in s : TRUE].amount + F[s \ {CHOOSE x \in s : TRUE}]]
  <2>2. \A s \in Small(k) : H[s] = F[s]
    BY <2>1
  <2>3. ASSUME NEW s \in Small(k + 1), s # {}
        PROVE  s \ {CHOOSE x \in s : TRUE} \in Small(k)
    <3>1. (CHOOSE x \in s : TRUE) \in s
      BY <2>3
    <3>2. Cardinality(s \ {CHOOSE x \in s : TRUE}) = Cardinality(s) - 1
      BY <1>1, <3>1, FS_RemoveElement
    <3> QED
      BY <1>1, <3>2
  <2>4. Sums(H, k + 1)
    <3> SUFFICES ASSUME NEW s \in Small(k + 1)
                 PROVE  H[s] = IF s = {} THEN 0
                               ELSE Vc[CHOOSE x \in s : TRUE].amount
                                    + H[s \ {CHOOSE x \in s : TRUE}]
      OBVIOUS
    <3> HIDE DEF Small
    <3>1. s \in SUBSET S
      BY DEF Small
    <3>2. s # {} => H[s \ {CHOOSE x \in s : TRUE}] = F[s \ {CHOOSE x \in s : TRUE}]
      BY <2>2, <2>3
    <3> QED
      BY <3>1, <3>2
  <2>5. k + 1 \in Nat
    BY <1>1
  <2> HIDE DEF Sums, H
  <2> QED
    BY <2>4, <2>5
<1>4. n \in G
  <2> HIDE DEF G
  <2>1. 0 .. n \subseteq G
    BY <1>1, <1>2, <1>3, CountingUp
  <2> QED
    BY <1>1, <2>1
<1>5. PICK F : Sums(F, n)
  BY <1>4
<1>6. Small(n) = SUBSET S
  BY <1>1
<1>7. IsSum([s \in SUBSET S |-> F[s]], S)
  BY <1>5, <1>6 DEF IsSum
<1> QED
  BY <1>7

\* One element less.
LEMMA OneLess ==
  ASSUME NEW s, IsFiniteSet(s), NEW x \in s, NEW k \in Int, Cardinality(s) = k + 1
  PROVE  Cardinality(s \ {x}) = k
<1>1. Cardinality(s \ {x}) = Cardinality(s) - 1
  BY FS_RemoveElement
<1> QED
  BY <1>1

\* The amounts of a set of receipts are numbers.
Amounted(S) == \A v \in S : Vc[v].amount \in Nat

\* What a sum says of one subset.
LEMMA SumOf ==
  ASSUME NEW S, NEW F, IsSum(F, S), NEW s \in SUBSET S
  PROVE  /\ s = {} => F[s] = 0
         /\ s # {} => \E x \in s : F[s] = Vc[x].amount + F[s \ {x}]
<1>1. s # {} => (CHOOSE x \in s : TRUE) \in s
  OBVIOUS
<1>2. F[s] = IF s = {} THEN 0
             ELSE Vc[CHOOSE x \in s : TRUE].amount + F[s \ {CHOOSE x \in s : TRUE}]
  BY DEF IsSum
<1> QED
  BY <1>1, <1>2

\* Sums of amounts are numbers.
LEMMA SumIsANumber ==
  ASSUME NEW S, IsFiniteSet(S), Amounted(S), NEW F, IsSum(F, S)
  PROVE  \A s \in SUBSET S : F[s] \in Nat
<1> DEFINE G == {k \in Nat : \A s \in SUBSET S : Cardinality(s) = k => F[s] \in Nat}
           n == Cardinality(S)
<1>1. n \in Nat /\ \A s \in SUBSET S : IsFiniteSet(s) /\ Cardinality(s) \in 0 .. n
  BY FS_CardinalityType, FS_Subset
<1>2. 0 \in G
  BY <1>1, FS_EmptySet, SumOf
<1>3. ASSUME NEW k \in 0 .. n - 1, k \in G PROVE k + 1 \in G
  <2> SUFFICES ASSUME NEW s \in SUBSET S, Cardinality(s) = k + 1 PROVE F[s] \in Nat
    BY <1>1
  <2>1. s # {}
    BY <1>1, FS_EmptySet
  <2>2. PICK x \in s : F[s] = Vc[x].amount + F[s \ {x}]
    BY <2>1, SumOf
  <2>3. IsFiniteSet(s) /\ Vc[x].amount \in Nat
    BY <1>1 DEF Amounted
  <2>4. Cardinality(s \ {x}) = k
    BY <2>3, OneLess
  <2>5. F[s \ {x}] \in Nat
    BY <1>3, <2>4
  <2> QED
    BY <2>2, <2>3, <2>5
<1> HIDE DEF G
<1>4. 0 .. n \subseteq G
  BY <1>1, <1>2, <1>3, CountingUp
<1> QED
  BY <1>1, <1>4 DEF G

\* Any element may be the one that is added last.
LEMMA SumInAnyOrder ==
  ASSUME NEW S, IsFiniteSet(S), Amounted(S), NEW F, IsSum(F, S)
  PROVE  \A s \in SUBSET S : \A v \in s : F[s] = Vc[v].amount + F[s \ {v}]
<1> DEFINE G == {k \in Nat : \A s \in SUBSET S : Cardinality(s) = k =>
                               \A v \in s : F[s] = Vc[v].amount + F[s \ {v}]}
           n == Cardinality(S)
<1>1. n \in Nat /\ \A s \in SUBSET S : IsFiniteSet(s) /\ Cardinality(s) \in 0 .. n
  BY FS_CardinalityType, FS_Subset
<1>2. 0 \in G
  BY <1>1, FS_EmptySet
<1>3. ASSUME NEW k \in 0 .. n - 1, k \in G PROVE k + 1 \in G
  <2> SUFFICES ASSUME NEW s \in SUBSET S, Cardinality(s) = k + 1, NEW v \in s
               PROVE  F[s] = Vc[v].amount + F[s \ {v}]
    BY <1>1
  <2>1. PICK x \in s : F[s] = Vc[x].amount + F[s \ {x}]
    BY SumOf
  <2>2. CASE v = x
    BY <2>1, <2>2
  <2>3. CASE v # x
    <3>0. IsFiniteSet(s) /\ Vc[x].amount \in Nat /\ Vc[v].amount \in Nat
      BY <1>1 DEF Amounted
    <3>1. Cardinality(s \ {x}) = k /\ Cardinality(s \ {v}) = k
      BY <3>0, OneLess
    <3>2. F[s \ {x}] = Vc[v].amount + F[(s \ {x}) \ {v}]
      BY <1>3, <2>3, <3>1
    <3>3. F[s \ {v}] = Vc[x].amount + F[(s \ {v}) \ {x}]
      BY <1>3, <2>3, <3>1
    <3>4. (s \ {x}) \ {v} = (s \ {v}) \ {x} /\ F[(s \ {x}) \ {v}] \in Nat
      BY SumIsANumber
    <3>5. F[s \ {v}] = Vc[x].amount + F[(s \ {x}) \ {v}]
      BY <3>3, <3>4
    <3>6. F[s] = Vc[x].amount + (Vc[v].amount + F[(s \ {x}) \ {v}])
      BY <2>1, <3>2
    <3> QED
      BY <3>0, <3>4, <3>5, <3>6
  <2> QED
    BY <2>2, <2>3
<1> HIDE DEF G
<1>4. 0 .. n \subseteq G
  BY <1>1, <1>2, <1>3, CountingUp
<1> QED
  BY <1>1, <1>4 DEF G

\* The sum of a set does not depend on the set it is taken as a subset of.
LEMMA SumsAgree ==
  ASSUME NEW S, NEW T, IsFiniteSet(T), S \subseteq T, Amounted(T),
         NEW F, IsSum(F, S), NEW H, IsSum(H, T)
  PROVE  \A s \in SUBSET S : F[s] = H[s]
<1> DEFINE G == {k \in Nat : \A s \in SUBSET S : Cardinality(s) = k => F[s] = H[s]}
           n == Cardinality(S)
<1>0. IsFiniteSet(S)
  BY FS_Subset
<1>1. n \in Nat /\ \A s \in SUBSET S : IsFiniteSet(s) /\ Cardinality(s) \in 0 .. n
  BY <1>0, FS_CardinalityType, FS_Subset
<1>2. 0 \in G
  <2>1. \A s \in SUBSET S : Cardinality(s) = 0 => s = {} /\ s \in SUBSET T
    BY <1>1, FS_EmptySet
  <2> QED
    BY <2>1, SumOf
<1>3. ASSUME NEW k \in 0 .. n - 1, k \in G PROVE k + 1 \in G
  <2> SUFFICES ASSUME NEW s \in SUBSET S, Cardinality(s) = k + 1 PROVE F[s] = H[s]
    BY <1>1
  <2>1. s # {}
    BY <1>1, FS_EmptySet
  <2>2. PICK x \in s : F[s] = Vc[x].amount + F[s \ {x}]
    BY <2>1, SumOf
  <2>3. H[s] = Vc[x].amount + H[s \ {x}]
    BY SumInAnyOrder
  <2>4. IsFiniteSet(s)
    BY <1>1
  <2>5. Cardinality(s \ {x}) = k
    BY <2>4, OneLess
  <2>6. F[s \ {x}] = H[s \ {x}]
    BY <1>3, <2>5
  <2> QED
    BY <2>2, <2>3, <2>6
<1> HIDE DEF G
<1>4. 0 .. n \subseteq G
  BY <1>1, <1>2, <1>3, CountingUp
<1> QED
  BY <1>1, <1>4 DEF G

\* A volume is a number, and one more receipt never lowers it.
LEMMA VolumeGrows ==
  ASSUME NEW rs, IsFiniteSet(rs), NEW v, Amounted(rs \cup {v}), NEW assets
  PROVE  /\ Volume(rs, assets) \in Nat
         /\ Volume(rs \cup {v}, assets) \in Nat
         /\ Volume(rs \cup {v}, assets) >= Volume(rs, assets)
<1> DEFINE S == {x \in rs : Vc[x].asset \in assets}
           T == {x \in rs \cup {v} : Vc[x].asset \in assets}
           F == CHOOSE F : IsSum(F, S)
           H == CHOOSE H : IsSum(H, T)
<1>1. Volume(rs, assets) = F[S] /\ Volume(rs \cup {v}, assets) = H[T]
  BY VolumeIsSum
<1>2. IsFiniteSet(rs \cup {v})
  BY FS_AddElement
<1>3. S \subseteq T /\ S \subseteq rs /\ T \subseteq rs \cup {v}
  OBVIOUS
<1>4. T = S \/ (T = S \cup {v} /\ v \in T /\ v \notin S)
  <2>1. CASE v \in rs \/ Vc[v].asset \notin assets
    <3>1. T = S
      BY <2>1
    <3> QED
      BY <3>1
  <2>2. CASE v \notin rs /\ Vc[v].asset \in assets
    <3>1. T = S \cup {v} /\ v \notin S
      BY <2>2
    <3>2. v \in T
      BY <2>2
    <3> HIDE DEF S, T
    <3> QED
      BY <3>1, <3>2
  <2> QED
    BY <2>1, <2>2
<1> HIDE DEF S, T
<1>5. IsFiniteSet(S) /\ IsFiniteSet(T) /\ Amounted(S) /\ Amounted(T)
  <2>1. IsFiniteSet(S)
    BY <1>3, FS_Subset
  <2>2. IsFiniteSet(T)
    BY <1>2, <1>3, FS_Subset
  <2> QED
    BY <1>3, <2>1, <2>2 DEF Amounted
<1>6. IsSum(F, S) /\ IsSum(H, T)
  BY <1>5, SumExists
<1> HIDE DEF F, H
<1>7. F[S] \in Nat /\ \A s \in SUBSET T : H[s] \in Nat
  BY <1>5, <1>6, SumIsANumber
<1>8. F[S] = H[S]
  BY <1>3, <1>5, <1>6, SumsAgree
<1>9. CASE T = S
  BY <1>1, <1>7, <1>8, <1>9
<1>10. CASE T = S \cup {v} /\ v \in T /\ v \notin S
  <2>1. T \ {v} = S
    BY <1>10
  <2>2. H[T] = Vc[v].amount + H[S]
    BY <1>5, <1>6, <1>10, <2>1, SumInAnyOrder
  <2>3. Vc[v].amount \in Nat
    BY DEF Amounted
  <2> QED
    BY <1>1, <1>7, <1>8, <2>2, <2>3
<1> QED
  BY <1>4, <1>9, <1>10

-----------------------------------------------------------------------------
\* A quotient grows with its dividend.
LEMMA DivGrows ==
  ASSUME NEW k \in Nat \ {0}, NEW x \in Nat, NEW y \in Nat, x <= y
  PROVE  x \div k \in Nat /\ y \div k \in Nat /\ x \div k <= y \div k
OBVIOUS

\* And so does a capped one.
LEMMA CappedGrows ==
  ASSUME NEW k \in Nat \ {0}, NEW x \in Nat, NEW y \in Nat, x <= y
  PROVE  /\ AtMost(100, x \div k) \in 0 .. 100 /\ AtMost(100, y \div k) \in 0 .. 100
         /\ AtMost(100, x \div k) <= AtMost(100, y \div k)
<1>1. PICK p \in Nat, q \in Nat : p = x \div k /\ q = y \div k /\ p <= q
  BY DivGrows
<1>2. /\ AtMost(100, p) \in 0 .. 100 /\ AtMost(100, q) \in 0 .. 100
      /\ AtMost(100, p) <= AtMost(100, q)
  BY <1>1 DEF AtMost
<1> QED
  BY <1>1, <1>2

\* A weighted sum grows with what it weighs.
LEMMA WeightsGrow ==
  ASSUME NEW a \in Nat, NEW b \in Nat, NEW c \in Nat, NEW d \in Nat, NEW e \in Nat
  PROVE  /\ 25 * a + 25 * b + 20 * c + 15 * d + 15 * e \in Nat
         /\ \A f, g, h, i, j \in Nat :
              a <= f /\ b <= g /\ c <= h /\ d <= i /\ e <= j =>
                25 * a + 25 * b + 20 * c + 15 * d + 15 * e
                  <= 25 * f + 25 * g + 20 * h + 15 * i + 15 * j
OBVIOUS

\* What the view aggregates from some receipts at a time.
Aggregates(rs, time) ==
  [receipts |-> Cardinality(rs),
   counterparties |-> Cardinality({Vc[v].issuer : v \in rs}),
   affiliated |-> Cardinality({v \in rs : Vc[v].affiliated}),
   idle |-> IF rs = {} THEN 0 ELSE time - LastTx(rs),
   trx |-> Volume(rs, {"TRX"}),
   stable |-> Volume(rs, {"USDT", "USDC", "TUSD", "USDD"})]

Metric == [receipts: Nat, counterparties: Nat, affiliated: Nat, idle: Int, trx: Nat, stable: Nat]

\* The score grows with every aggregate and falls with the idle time; the first
\* receipt brings it above the nothing of an agent that has none.
THEOREM ScoreGrows ==
  ASSUME NEW m \in Metric, NEW n \in Metric,
         m.receipts <= n.receipts, m.counterparties <= n.counterparties,
         m.affiliated <= n.affiliated, m.trx <= n.trx, m.stable <= n.stable,
         m.receipts > 0 => n.idle <= m.idle
  PROVE  Score(n) >= Score(m)
<1> DEFINE Points == 0 .. 100
<1>0. ReceiptCap \in Nat \ {0} /\ CounterpartyCap \in Nat \ {0} /\ VolumeUnit \in Nat \ {0}
  BY ScoreAssumption
<1>1. /\ ReceiptScore(m) \in Points /\ ReceiptScore(n) \in Points
      /\ ReceiptScore(m) <= ReceiptScore(n)
  <2>1. /\ m.receipts * 100 \in Nat /\ n.receipts * 100 \in Nat
        /\ m.receipts * 100 <= n.receipts * 100
    BY DEF Metric
  <2> QED
    BY <1>0, <2>1, CappedGrows DEF ReceiptScore
<1>2. /\ CounterpartyScore(m) \in Points /\ CounterpartyScore(n) \in Points
      /\ CounterpartyScore(m) <= CounterpartyScore(n)
  <2>1. /\ m.counterparties * 100 \in Nat /\ n.counterparties * 100 \in Nat
        /\ m.counterparties * 100 <= n.counterparties * 100
    BY DEF Metric
  <2> QED
    BY <1>0, <2>1, CappedGrows DEF CounterpartyScore
<1>3. /\ VolumeScore(m) \in Points /\ VolumeScore(n) \in Points
      /\ VolumeScore(m) <= VolumeScore(n)
  <2>1. /\ m.trx + 100 * m.stable \in Nat /\ n.trx + 100 * n.stable \in Nat
        /\ m.trx + 100 * m.stable <= n.trx + 100 * n.stable
    BY DEF Metric
  <2> QED
    BY <1>0, <2>1, CappedGrows DEF VolumeScore
<1>4. OrgScore(m) \in Points /\ OrgScore(n) \in Points /\ OrgScore(m) <= OrgScore(n)
  BY DEF OrgScore, Metric
<1>5. /\ RecencyScore(m) \in Nat /\ RecencyScore(n) \in Nat
      /\ m.receipts > 0 => RecencyScore(m) <= RecencyScore(n)
  BY DEF RecencyScore, AtLeast, Metric
<1>6. m.receipts \in Nat /\ n.receipts \in Nat /\ m.receipts <= n.receipts
  BY DEF Metric
<1> DEFINE Weighted(x) == 25 * ReceiptScore(x) + 25 * CounterpartyScore(x) + 20 * OrgScore(x)
                         + 15 * RecencyScore(x) + 15 * VolumeScore(x)
<1>7. /\ Score(m) = IF m.receipts = 0 THEN 0 ELSE Weighted(m)
      /\ Score(n) = IF n.receipts = 0 THEN 0 ELSE Weighted(n)
  BY DEF Score
<1>8. /\ Weighted(m) \in Nat /\ Weighted(n) \in Nat
      /\ m.receipts > 0 => Weighted(m) <= Weighted(n)
  <2>1. /\ {ReceiptScore(m), CounterpartyScore(m), OrgScore(m), RecencyScore(m), VolumeScore(m)}
             \subseteq Nat
        /\ {ReceiptScore(n), CounterpartyScore(n), OrgScore(n), RecencyScore(n), VolumeScore(n)}
             \subseteq Nat
    BY <1>1, <1>2, <1>3, <1>4, <1>5
  <2> QED
    BY <1>1, <1>2, <1>3, <1>4, <1>5, <2>1, WeightsGrow
<1> HIDE DEF Weighted
<1> QED
  BY <1>6, <1>7, <1>8

\* Receipts that were validated have an amount and a time.
Valid(rs) == \A v \in rs : Vc[v].amount \in Nat /\ Vc[v].at \in Int

\* One more receipt raises every aggregate but the idle time, and not that.
LEMMA AggregatesGrow ==
  ASSUME NEW rs, IsFiniteSet(rs), NEW v, Valid(rs \cup {v}), NEW time \in Int
  PROVE  /\ Aggregates(rs, time) \in Metric
         /\ Score(Aggregates(rs \cup {v}, time)) >= Score(Aggregates(rs, time))
<1> DEFINE more == rs \cup {v}
           m == Aggregates(rs, time)
           n == Aggregates(more, time)
<1>1. IsFiniteSet(more)
  BY FS_AddElement
<1>2. ASSUME NEW s, NEW t, IsFiniteSet(t), s \subseteq t
      PROVE  Cardinality(s) \in Nat /\ Cardinality(t) \in Nat /\ Cardinality(s) <= Cardinality(t)
  <2>1. IsFiniteSet(s) /\ Cardinality(s) <= Cardinality(t)
    BY <1>2, FS_Subset
  <2> QED
    BY <1>2, <2>1, FS_CardinalityType
<1>3. Cardinality(rs) \in Nat /\ Cardinality(more) \in Nat /\ Cardinality(rs) <= Cardinality(more)
  BY <1>1, <1>2
<1>4. LET s == {Vc[x].issuer : x \in rs}
          t == {Vc[x].issuer : x \in more}
      IN  Cardinality(s) \in Nat /\ Cardinality(t) \in Nat /\ Cardinality(s) <= Cardinality(t)
  <2> DEFINE t == {Vc[x].issuer : x \in more}
             issuer == [x \in more |-> Vc[x].issuer]
  <2>1. issuer \in Surjection(more, t)
    BY DEF Surjection
  <2>2. IsFiniteSet(t)
    BY <1>1, <2>1, FS_Surjection
  <2> QED
    BY <1>2, <2>2
<1>5. LET s == {x \in rs : Vc[x].affiliated}
          t == {x \in more : Vc[x].affiliated}
      IN  Cardinality(s) \in Nat /\ Cardinality(t) \in Nat /\ Cardinality(s) <= Cardinality(t)
  <2> DEFINE t == {x \in more : Vc[x].affiliated}
  <2>1. IsFiniteSet(t)
    BY <1>1, FS_Subset
  <2> QED
    BY <1>2, <2>1
<1>6. ASSUME NEW s \in SUBSET more, s # {}
      PROVE  /\ LastTx(s) \in Int
             /\ \A x \in s : LastTx(s) >= Vc[x].at
             /\ \E x \in s : LastTx(s) = Vc[x].at
  <2> DEFINE times == {Vc[x].at : x \in s}
             at == [x \in s |-> Vc[x].at]
  <2>1. at \in Surjection(s, times)
    BY DEF Surjection
  <2>2. IsFiniteSet(s)
    BY <1>1, FS_Subset
  <2>3. IsFiniteSet(times) /\ times # {} /\ times \in SUBSET Int
    BY <1>6, <2>1, <2>2, FS_Surjection DEF Valid
  <2> HIDE DEF times
  <2>4. Max(times) \in times /\ \A y \in times : Max(times) >= y
    BY <2>3, GreatestNumber
  <2> USE DEF times
  <2>5. LastTx(s) = Max(times)
    BY DEF LastTx
  <2> QED
    BY <2>3, <2>4, <2>5
<1>7. LastTx(more) \in Int /\ (rs # {} => LastTx(rs) \in Int /\ LastTx(rs) <= LastTx(more))
  <2>1. LastTx(more) \in Int /\ \A x \in more : LastTx(more) >= Vc[x].at
    BY <1>6
  <2>2. ASSUME rs # {} PROVE LastTx(rs) \in Int /\ \E x \in rs : LastTx(rs) = Vc[x].at
    BY <1>6, <2>2
  <2> QED
    BY <2>1, <2>2
<1>8. /\ n.idle \in Int /\ m.idle \in Int
      /\ rs # {} => n.idle <= m.idle
  BY <1>7 DEF Aggregates
<1>9. /\ Cardinality(rs) > 0 => rs # {}
  BY FS_EmptySet
<1>10. /\ m.trx \in Nat /\ n.trx \in Nat /\ m.trx <= n.trx
       /\ m.stable \in Nat /\ n.stable \in Nat /\ m.stable <= n.stable
  <2>1. Amounted(more)
    BY DEF Amounted, Valid
  <2>2. ASSUME NEW assets
        PROVE  /\ Volume(rs, assets) \in Nat /\ Volume(more, assets) \in Nat
               /\ Volume(more, assets) >= Volume(rs, assets)
    BY <2>1, VolumeGrows
  <2> QED
    BY <2>2 DEF Aggregates
<1>11. m \in Metric /\ n \in Metric
  BY <1>3, <1>4, <1>5, <1>8, <1>10 DEF Metric, Aggregates
<1>12. /\ m.receipts <= n.receipts /\ m.counterparties <= n.counterparties
       /\ m.affiliated <= n.affiliated /\ (m.receipts > 0 => n.idle <= m.idle)
  BY <1>3, <1>4, <1>5, <1>8, <1>9 DEF Aggregates
<1> HIDE DEF m, n
<1>13. Score(n) >= Score(m)
  BY <1>10, <1>11, <1>12, ScoreGrows
<1> QED
  BY <1>11, <1>13 DEF m, n

-----------------------------------------------------------------------------
\* Only receipts that the rail has validated are stored or about to be.
ValidatedOnly ==
  /\ \A v \in receipts : Vc[v].wellFormed
  /\ \A r \in Requests : req[r].pc = "verified" => Vc[req[r].vc].wellFormed

\* What the score needs to be a number.
ScoredInv == LedgerInv /\ IsFiniteSet(receipts) /\ ValidatedOnly

\* Only PersistReceipt stores a receipt, one, and one that has been verified.
LEMMA OneReceiptAStep ==
  ASSUME LedgerInv, [Next]_vars
  PROVE  \/ UNCHANGED receipts
         \/ \E r \in Requests : req[r].pc = "verified" /\ receipts' = receipts \cup {req[r].vc}
BY DEF Next, vars, Tick, Confirm, ListenerEnriches, ListenerInserts, SubmitReceipt, RailAnswers,
       Serve, RailStart, RailTimeout, PersistReceipt, Restart, AcceptSelect, AcceptWrite,
       RevokeCounterparty, bookVars

\* A submission becomes verified only when the rail accepts its receipt.
LEMMA VerifiedByTheRail ==
  ASSUME LedgerInv, [Next]_vars, NEW q \in Requests, req'[q].pc = "verified",
         req[q].pc # "verified"
  PROVE  Vc[req'[q].vc].wellFormed
<1>1. req \in [Requests -> Submission]
  BY DEF LedgerInv, TypeOK, Submission
<1>2. CASE \E r \in Requests, fails \in BOOLEAN : RailAnswers(r, fails)
  <2>1. PICK r \in Requests, fails \in BOOLEAN : RailAnswers(r, fails)
    BY <1>2
  <2>2. q = r
    BY <1>1, <2>1 DEF RailAnswers, Submission
  <2> DEFINE ok == ~fails /\ VerifyReceipt(Vc[req[q].vc], Transfer[Vc[req[q].vc].tx],
                                          depth[Vc[req[q].vc].tx], now)
  <2>3. req' = [req EXCEPT ![q].pc = IF ok THEN "verified" ELSE "failed"]
    BY <2>1, <2>2 DEF RailAnswers
  <2> HIDE DEF ok
  <2>4. ok /\ req'[q].vc = req[q].vc
    BY <1>1, <2>3 DEF Submission
  <2> QED
    BY <2>4 DEF ok, VerifyReceipt, ValidateReceiptData
<1>3. ASSUME NEW r \in Requests, NEW v \in Vcs, SubmitReceipt(r, v) PROVE FALSE
  BY <1>1, <1>3 DEF SubmitReceipt, Submission
<1>4. ASSUME NEW r \in Requests, Serve(r) PROVE FALSE
  BY <1>1, <1>4 DEF Serve, RailStart, RailTimeout, PersistReceipt, Submission
<1>5. CASE Restart
  <2>1. req'[q] = IF req[q].pc \in {"done", "failed", "idle"} THEN req[q]
                  ELSE [req[q] EXCEPT !.pc = "failed"]
    BY <1>5 DEF Restart
  <2> QED
    BY <1>1, <2>1 DEF Submission
<1>6. ~UNCHANGED req
  OBVIOUS
<1> QED
  BY <1>2, <1>3, <1>4, <1>5, <1>6
  DEF Next, vars, Tick, Confirm, ListenerEnriches, ListenerInserts, AcceptSelect, AcceptWrite,
      RevokeCounterparty

\* A verified submission keeps its receipt.
LEMMA VerifiedStays ==
  ASSUME LedgerInv, [Next]_vars, NEW q \in Requests, req'[q].pc = "verified",
         req[q].pc = "verified"
  PROVE  req'[q].vc = req[q].vc
<1>1. req \in [Requests -> Submission]
  BY DEF LedgerInv, TypeOK, Submission
<1> QED
  BY <1>1
  DEF Next, vars, Tick, Confirm, ListenerEnriches, ListenerInserts, SubmitReceipt, Serve,
      RailAnswers, RailStart, RailTimeout, PersistReceipt, Restart, AcceptSelect, AcceptWrite,
      RevokeCounterparty, Submission

\* The empty book has no receipt.
LEMMA ScoredInitially == Init => ScoredInv
<1> SUFFICES ASSUME Init PROVE ScoredInv
  OBVIOUS
<1>1. receipts = {} /\ \A r \in Requests : req[r].pc # "verified"
  BY DEF Init, Idle
<1> QED
  BY <1>1, LedgerInit, FS_EmptySet DEF ScoredInv, ValidatedOnly

\* Every step keeps what is stored validated.
LEMMA ScoredSteps == ScoredInv /\ [Next]_vars => ScoredInv'
<1> SUFFICES ASSUME ScoredInv, [Next]_vars PROVE ScoredInv'
  OBVIOUS
<1>0. LedgerInv /\ IsFiniteSet(receipts) /\ ValidatedOnly
  BY DEF ScoredInv
<1>1. LedgerInv'
  BY <1>0, LedgerSteps
<1>2. IsFiniteSet(receipts') /\ \A v \in receipts' : Vc[v].wellFormed
  <2>1. CASE UNCHANGED receipts
    BY <1>0, <2>1 DEF ValidatedOnly
  <2>2. ASSUME NEW r \in Requests, req[r].pc = "verified", receipts' = receipts \cup {req[r].vc}
        PROVE  IsFiniteSet(receipts') /\ \A v \in receipts' : Vc[v].wellFormed
    <3>1. IsFiniteSet(receipts')
      BY <1>0, <2>2, FS_AddElement
    <3> QED
      BY <1>0, <2>2, <3>1 DEF ValidatedOnly
  <2> QED
    BY <1>0, <2>1, <2>2, OneReceiptAStep
<1>3. ASSUME NEW q \in Requests, req'[q].pc = "verified" PROVE Vc[req'[q].vc].wellFormed
  BY <1>0, <1>3, VerifiedByTheRail, VerifiedStays DEF ValidatedOnly
<1> QED
  BY <1>1, <1>2, <1>3 DEF ScoredInv, ValidatedOnly

\* ReceiptsRaiseScore: while the clock stands, no step of the book lowers the score of
\* any agent (submit_tron_receipt, v_tron_trust_metrics, compute_tron_trust_score),
\* whatever the receipts claim and however the caps are set.
THEOREM ReceiptsNeverLowerScore == Spec => ReceiptsRaiseScore
<1>1. ASSUME ScoredInv, [Next]_vars, now' = now, NEW a \in Agents
      PROVE  TrustScoreOf(a)' >= TrustScoreOf(a)
  <2> DEFINE rs == {v \in receipts : Vc[v].agent = a /\ Vc[v].expires > now}
             more == {v \in receipts' : Vc[v].agent = a /\ Vc[v].expires > now}
  <2>0. LedgerInv /\ IsFiniteSet(receipts) /\ ValidatedOnly /\ LedgerInv' /\ ValidatedOnly'
    BY <1>1, ScoredSteps DEF ScoredInv
  <2>1. receipts \subseteq Vcs /\ receipts' \subseteq Vcs /\ now \in Int
    BY <2>0 DEF LedgerInv, TypeOK
  <2>2. /\ TrustScoreOf(a) = Score(Aggregates(rs, now))
        /\ TrustScoreOf(a)' = Score(Aggregates(more, now))
    BY <1>1 DEF TrustScoreOf, Metrics, Aggregates
  <2>3. IsFiniteSet(rs) /\ Valid(rs) /\ Valid(more)
    <3>1. IsFiniteSet(rs)
      BY <2>0, FS_Subset
    <3> QED
      BY <2>0, <2>1, <3>1, LedgerAssumption DEF Valid, ValidatedOnly
  <2>4. more = rs \/ \E v \in more : more = rs \cup {v}
    <3>1. CASE UNCHANGED receipts
      BY <3>1
    <3>2. ASSUME NEW r \in Requests, receipts' = receipts \cup {req[r].vc}
          PROVE  more = rs \/ \E v \in more : more = rs \cup {v}
      BY <3>2
    <3> QED
      BY <1>1, <2>0, <3>1, <3>2, OneReceiptAStep
  <2> HIDE DEF rs, more
  <2>5. ASSUME more = rs PROVE Score(Aggregates(more, now)) >= Score(Aggregates(rs, now))
    <3>1. CASE rs = {}
      BY <2>5, <3>1, FS_EmptySet DEF Aggregates, Score
    <3>2. CASE rs # {}
      <4>1. PICK v \in rs : rs \cup {v} = rs
        BY <3>2
      <4> QED
        BY <2>1, <2>3, <2>5, <4>1, AggregatesGrow
    <3> QED
      BY <3>1, <3>2
  <2>6. ASSUME NEW v \in more, more = rs \cup {v}
        PROVE  Score(Aggregates(more, now)) >= Score(Aggregates(rs, now))
    BY <2>1, <2>3, <2>6, AggregatesGrow
  <2> QED
    BY <2>2, <2>4, <2>5, <2>6
<1>2. ScoredInv /\ [Next]_vars
        => [now' = now => \A a \in Agents : TrustScoreOf(a)' >= TrustScoreOf(a)]_vars
  BY <1>1
<1>3. Spec => []ScoredInv
  BY ScoredInitially, ScoredSteps, PTL DEF Spec
<1> QED
  BY <1>2, <1>3, PTL DEF Spec, ReceiptsRaiseScore

(***************************************************************************)
(* MagicLinks                                                              *)
(***************************************************************************)
\* Before a link is issued nothing is recorded of it.
UnissuedIsUntouched ==
  \A l \in Links : ~link[l].issued => link[l] = Unissued /\ told[l] = {} /\ got[l] = {}

\* A page that was opened shows an issued link.
PagesShowLinks ==
  \A p \in Pages : page[p].pc # "closed" =>
    page[p].link \in Links /\ link[page[p].link].issued

\* A page signs its credential before it sends it.
SignedBeforeSent ==
  \A p \in Pages : page[p].pc \in {"storing", "stored"} => cred[p].signed

\* The credential a link holds is that of a page whose store request for this
\* very link was accepted.
HeldWasStored ==
  \A l \in Links : link[l].redeemed =>
    page[link[l].credential].pc = "stored" /\ page[link[l].credential].link = l

\* What polls returned is still what the row says: the UPDATE of a decline spares
\* a redeemed row, and no store undoes a decline.
ToldIsOnRecord ==
  \A l \in Links :
    /\ "authorized" \in told[l] => link[l].redeemed /\ ~link[l].declined
    /\ "declined" \in told[l] => link[l].declined

\* A credential left the API with an "authorized", and its page was done by then.
DeliveredAsTold ==
  \A l \in Links : \A p \in got[l] :
    "authorized" \in told[l] /\ page[p].pc = "stored" /\ page[p].link = l

\* The inductive invariant of the flow.
LinkInv ==
  /\ LinkTypeOK
  /\ UnissuedIsUntouched
  /\ PagesShowLinks
  /\ SignedBeforeSent
  /\ HeldWasStored
  /\ ToldIsOnRecord
  /\ DeliveredAsTold

\* The shapes of the rows and pages the actions write.
LinkRow == [issued: BOOLEAN, expires: Nat, redeemed: BOOLEAN, declined: BOOLEAN,
        credential: Pages \cup {NoPage}]
Tab == [pc: {"closed", "open", "storing", "stored", "declined", "failed"},
        link: Links \cup {NoLink}]

\* The empty flow satisfies the invariant.
LEMMA LinkInitially == LinkInit => LinkInv
<1> SUFFICES ASSUME LinkInit PROVE LinkInv
  OBVIOUS
<1> USE LinkAssumption
<1>1. LinkTypeOK
  BY DEF LinkInit, LinkTypeOK, Unissued, NoCred, Closed, Levels
<1>2. /\ UnissuedIsUntouched /\ PagesShowLinks /\ SignedBeforeSent
      /\ HeldWasStored /\ ToldIsOnRecord /\ DeliveredAsTold
  BY DEF LinkInit, UnissuedIsUntouched, PagesShowLinks, SignedBeforeSent, HeldWasStored,
         ToldIsOnRecord, DeliveredAsTold, Unissued, Closed
<1> QED
  BY <1>1, <1>2 DEF LinkInv

\* A page that changes without becoming or leaving "stored", and whose link is an
\* issued one, disturbs nothing.
LEMMA PageMoves ==
  ASSUME LinkInv, NEW p \in Pages, NEW tab \in Tab,
         page' = [page EXCEPT ![p] = tab],
         page[p].pc # "stored", tab.pc # "stored",
         tab.link \in Links, link[tab.link].issued,
         cred'[p].signed \/ tab.pc # "storing",
         \A q \in Pages \ {p} : cred'[q] = cred[q],
         cred' \in [Pages -> [signed: BOOLEAN, level: Levels, until: Nat]],
         UNCHANGED <<link, told, got, bought, now>>
  PROVE LinkInv'
<1>1. LinkTypeOK'
  BY DEF LinkInv, LinkTypeOK, Tab
<1>2. UnissuedIsUntouched' /\ ToldIsOnRecord'
  BY DEF LinkInv, UnissuedIsUntouched, ToldIsOnRecord
<1>3. PagesShowLinks' /\ SignedBeforeSent'
  BY DEF LinkInv, LinkTypeOK, PagesShowLinks, SignedBeforeSent
<1>4. \A q \in Pages : page[q].pc = "stored" => page'[q] = page[q]
  BY DEF LinkInv, LinkTypeOK
<1>5. HeldWasStored'
  BY <1>4 DEF LinkInv, LinkTypeOK, HeldWasStored
<1>6. DeliveredAsTold'
  BY <1>4 DEF LinkInv, LinkTypeOK, DeliveredAsTold
<1> QED
  BY <1>1, <1>2, <1>3, <1>5, <1>6 DEF LinkInv

\* Every step preserves it: a stored page is never reopened, a redeemed row is
\* never declined, and only Poll tells or delivers anything.
LEMMA LinkStep == LinkInv /\ [LinkNext]_linkVars => LinkInv'
<1> SUFFICES ASSUME LinkInv, [LinkNext]_linkVars PROVE LinkInv'
  OBVIOUS
<1> USE LinkAssumption
<1>1. CASE LinkTick
  BY <1>1 DEF LinkTick, Later, LinkInv, LinkTypeOK, UnissuedIsUntouched, PagesShowLinks,
              SignedBeforeSent, HeldWasStored, ToldIsOnRecord, DeliveredAsTold
<1>2. ASSUME NEW p \in Pages, NEW l \in Links, OpenByToken(p, l) \/ OpenBySlug(p, l)
      PROVE LinkInv'
  <2> DEFINE tab == [pc |-> "open", link |-> l]
  <2>1. /\ tab \in Tab /\ tab.pc = "open" /\ tab.link = l
    BY DEF Tab
  <2>2. /\ page' = [page EXCEPT ![p] = tab] /\ page[p].pc = "closed" /\ link[l].issued
        /\ UNCHANGED <<link, cred, told, got, bought, now>>
    BY <1>2 DEF OpenByToken, OpenBySlug, Usable
  <2> HIDE DEF tab
  <2> QED
    BY <2>1, <2>2, PageMoves DEF LinkInv, LinkTypeOK
<1>3. ASSUME NEW p \in Pages, NEW level \in Levels, StoreSelect(p, level)
      PROVE LinkInv'
  <2> DEFINE tab == [page[p] EXCEPT !.pc = "storing"]
             new == [signed |-> TRUE, level |-> level, until |-> now + TTL]
  <2>1. page[p] \in Tab
    BY DEF LinkInv, LinkTypeOK, Tab
  <2>2. tab \in Tab /\ tab.pc = "storing" /\ tab.link = page[p].link
    BY <2>1 DEF Tab
  <2>3. new \in [signed: BOOLEAN, level: Levels, until: Nat] /\ new.signed
    BY DEF LinkInv, LinkTypeOK
  <2>4. /\ page' = [page EXCEPT ![p] = tab] /\ page[p].pc = "open"
        /\ cred' = [cred EXCEPT ![p] = new]
        /\ UNCHANGED <<link, told, got, bought, now>>
    BY <1>3 DEF StoreSelect
  <2>5. page[p].link \in Links /\ link[page[p].link].issued
    BY <2>4 DEF LinkInv, PagesShowLinks
  <2> HIDE DEF tab, new
  <2>6. /\ cred'[p].signed /\ \A q \in Pages \ {p} : cred'[q] = cred[q]
        /\ cred' \in [Pages -> [signed: BOOLEAN, level: Levels, until: Nat]]
    BY <2>3, <2>4 DEF LinkInv, LinkTypeOK
  <2> QED
    BY <2>2, <2>4, <2>5, <2>6, PageMoves
<1>4. ASSUME NEW p \in Pages, StoreUpdate(p)
      PROVE LinkInv'
  <2> DEFINE l == page[p].link
             entry == [link[l] EXCEPT !.redeemed = TRUE, !.credential = p]
             tab == [page[p] EXCEPT !.pc = "stored"]
  <2>1. page[p].pc = "storing" /\ l \in Links /\ link[l].issued /\ cred[p].signed
    BY <1>4 DEF StoreUpdate, LinkInv, PagesShowLinks, SignedBeforeSent
  <2>2. link[l] \in LinkRow /\ page[p] \in Tab
    BY <2>1 DEF LinkInv, LinkTypeOK, LinkRow, Tab
  <2>3. /\ entry \in LinkRow /\ entry.issued /\ entry.redeemed /\ entry.credential = p
        /\ entry.declined = link[l].declined
    BY <2>1, <2>2 DEF LinkRow
  <2>4. tab \in Tab /\ tab.pc = "stored" /\ tab.link = l
    BY <2>2 DEF Tab
  <2>5. /\ link' = [link EXCEPT ![l] = entry] /\ page' = [page EXCEPT ![p] = tab]
        /\ UNCHANGED <<cred, told, got, bought, now>>
    BY <1>4, <2>1 DEF StoreUpdate, LinkInv, LinkTypeOK
  <2> HIDE DEF l, entry, tab
  <2>6. LinkTypeOK'
    BY <2>1, <2>3, <2>4, <2>5 DEF LinkInv, LinkTypeOK, LinkRow, Tab
  <2>7. UnissuedIsUntouched' /\ PagesShowLinks' /\ SignedBeforeSent' /\ ToldIsOnRecord'
    BY <2>1, <2>3, <2>4, <2>5 DEF LinkInv, LinkTypeOK, UnissuedIsUntouched, PagesShowLinks,
                                  SignedBeforeSent, ToldIsOnRecord
  <2>8. \A q \in Pages : page[q].pc = "stored" => page'[q] = page[q]
    BY <2>1, <2>5 DEF LinkInv, LinkTypeOK
  <2>9. HeldWasStored'
    BY <2>1, <2>3, <2>4, <2>5, <2>8 DEF LinkInv, LinkTypeOK, HeldWasStored
  <2>10. DeliveredAsTold'
    BY <2>5, <2>8 DEF LinkInv, LinkTypeOK, DeliveredAsTold
  <2> QED
    BY <2>6, <2>7, <2>9, <2>10 DEF LinkInv
<1>5. ASSUME NEW p \in Pages, Decline(p)
      PROVE LinkInv'
  <2> DEFINE l == page[p].link
             entry == [link[l] EXCEPT !.declined = TRUE]
             tab == [page[p] EXCEPT !.pc = "declined"]
  <2>1. page[p].pc = "open" /\ l \in Links /\ link[l].issued /\ ~link[l].redeemed
    BY <1>5 DEF Decline, LinkInv, PagesShowLinks
  <2>2. link[l] \in LinkRow /\ page[p] \in Tab
    BY <2>1 DEF LinkInv, LinkTypeOK, LinkRow, Tab
  <2>3. /\ entry \in LinkRow /\ entry.issued /\ ~entry.redeemed /\ entry.declined
        /\ entry.credential = link[l].credential
    BY <2>1, <2>2 DEF LinkRow
  <2>4. tab \in Tab /\ tab.pc = "declined" /\ tab.link = l
    BY <2>2 DEF Tab
  <2>5. /\ link' = [link EXCEPT ![l] = entry] /\ page' = [page EXCEPT ![p] = tab]
        /\ UNCHANGED <<cred, told, got, bought, now>>
    BY <1>5, <2>1 DEF Decline, LinkInv, LinkTypeOK
  <2> HIDE DEF l, entry, tab
  <2>6. LinkTypeOK'
    BY <2>1, <2>3, <2>4, <2>5 DEF LinkInv, LinkTypeOK, LinkRow, Tab
  <2>7. UnissuedIsUntouched' /\ PagesShowLinks' /\ SignedBeforeSent' /\ ToldIsOnRecord'
    BY <2>1, <2>3, <2>4, <2>5 DEF LinkInv, LinkTypeOK, UnissuedIsUntouched, PagesShowLinks,
                                  SignedBeforeSent, ToldIsOnRecord
  <2>8. \A q \in Pages : page[q].pc = "stored" => page'[q] = page[q]
    BY <2>1, <2>5 DEF LinkInv, LinkTypeOK
  <2>9. HeldWasStored'
    BY <2>1, <2>3, <2>4, <2>5, <2>8 DEF LinkInv, LinkTypeOK, HeldWasStored
  <2>10. DeliveredAsTold'
    BY <2>5, <2>8 DEF LinkInv, LinkTypeOK, DeliveredAsTold
  <2> QED
    BY <2>6, <2>7, <2>9, <2>10 DEF LinkInv
<1>6. ASSUME NEW p \in Pages, Leave(p)
      PROVE LinkInv'
  <2> DEFINE tab == [page[p] EXCEPT !.pc = "failed"]
  <2>1. page[p] \in Tab
    BY DEF LinkInv, LinkTypeOK, Tab
  <2>2. tab \in Tab /\ tab.pc = "failed" /\ tab.link = page[p].link
    BY <2>1 DEF Tab
  <2>3. /\ page' = [page EXCEPT ![p] = tab] /\ page[p].pc \in {"open", "storing"}
        /\ UNCHANGED <<link, cred, told, got, bought, now>>
    BY <1>6 DEF Leave
  <2>4. page[p].link \in Links /\ link[page[p].link].issued
    BY <2>3 DEF LinkInv, PagesShowLinks
  <2> HIDE DEF tab
  <2> QED
    BY <2>2, <2>3, <2>4, PageMoves DEF LinkInv, LinkTypeOK
<1>7. ASSUME NEW l \in Links, GenerateMagicLink(l)
      PROVE LinkInv'
  <2> DEFINE entry == [Unissued EXCEPT !.issued = TRUE, !.expires = now + TTL]
  <2>1. /\ entry \in LinkRow /\ entry.issued /\ ~entry.redeemed /\ ~entry.declined
        /\ entry.credential = NoPage
    <3>1. /\ Unissued \in LinkRow /\ ~Unissued.redeemed /\ ~Unissued.declined
          /\ Unissued.credential = NoPage
      BY DEF Unissued, LinkRow
    <3>2. now + TTL \in Nat
      BY DEF LinkInv, LinkTypeOK
    <3> QED
      BY <3>1, <3>2 DEF LinkRow
  <2>2. /\ link' = [link EXCEPT ![l] = entry] /\ ~link[l].issued
        /\ UNCHANGED <<page, cred, told, got, bought, now>>
    BY <1>7 DEF GenerateMagicLink
  <2> HIDE DEF entry
  <2>3. LinkTypeOK'
    BY <2>1, <2>2 DEF LinkInv, LinkTypeOK, LinkRow
  <2>4. UnissuedIsUntouched' /\ PagesShowLinks' /\ SignedBeforeSent'
    BY <2>1, <2>2 DEF LinkInv, LinkTypeOK, UnissuedIsUntouched, PagesShowLinks, SignedBeforeSent
  <2>5. HeldWasStored' /\ ToldIsOnRecord' /\ DeliveredAsTold'
    BY <2>1, <2>2 DEF LinkInv, LinkTypeOK, HeldWasStored, ToldIsOnRecord, DeliveredAsTold,
                      UnissuedIsUntouched
  <2> QED
    BY <2>3, <2>4, <2>5 DEF LinkInv
<1>8. ASSUME NEW l \in Links, Poll(l)
      PROVE LinkInv'
  <2>1. /\ PollStatus(l) \in Statuses
        /\ PollStatus(l) = "declined" => link[l].declined
        /\ PollStatus(l) = "authorized" => /\ link[l].redeemed /\ ~link[l].declined
                                           /\ link[l].credential \in Pages
    BY DEF PollStatus, Statuses, LinkInv, LinkTypeOK
  <2>2. /\ told' = [told EXCEPT ![l] = @ \cup {PollStatus(l)}] /\ link[l].issued
        /\ \A m \in Links : \A p \in got'[m] :
             p \in got[m] \/ (m = l /\ PollStatus(l) = "authorized" /\ p = link[l].credential)
        /\ \A m \in Links : m # l => got'[m] = got[m]
        /\ got' \in [Links -> SUBSET Pages]
        /\ UNCHANGED <<link, page, cred, bought, now>>
    BY <1>8, <2>1 DEF Poll, LinkInv, LinkTypeOK
  <2>3. LinkTypeOK'
    BY <2>1, <2>2 DEF LinkInv, LinkTypeOK
  <2>4. UnissuedIsUntouched' /\ ToldIsOnRecord'
    BY <2>1, <2>2 DEF LinkInv, LinkTypeOK, UnissuedIsUntouched, ToldIsOnRecord
  <2>5. PagesShowLinks' /\ SignedBeforeSent' /\ HeldWasStored'
    BY <2>2 DEF LinkInv, PagesShowLinks, SignedBeforeSent, HeldWasStored
  <2>6. DeliveredAsTold'
    BY <2>1, <2>2 DEF LinkInv, LinkTypeOK, DeliveredAsTold, HeldWasStored
  <2> QED
    BY <2>3, <2>4, <2>5, <2>6 DEF LinkInv
<1>9. ASSUME NEW l \in Links, NEW p \in Pages, NEW amount \in Amounts,
             Purchase(l, p, amount)
      PROVE LinkInv'
  <2>1. /\ bought' \in [Pages -> 0 .. MaxReceipts]
        /\ UNCHANGED <<link, page, cred, told, got, now>>
    BY <1>9 DEF Purchase, LinkInv, LinkTypeOK
  <2> QED
    BY <2>1 DEF LinkInv, LinkTypeOK, UnissuedIsUntouched, PagesShowLinks, SignedBeforeSent,
                HeldWasStored, ToldIsOnRecord, DeliveredAsTold
<1>10. CASE UNCHANGED linkVars
  BY <1>10 DEF linkVars, LinkInv, LinkTypeOK, UnissuedIsUntouched, PagesShowLinks,
               SignedBeforeSent, HeldWasStored, ToldIsOnRecord, DeliveredAsTold
<1> QED
  BY <1>1, <1>2, <1>3, <1>4, <1>5, <1>6, <1>7, <1>8, <1>9, <1>10 DEF LinkNext, PageStep

\* The invariant of the flow holds in every reachable state.
LEMMA LinkInvariant == LinkSpec => []LinkInv
BY LinkInitially, LinkStep, PTL DEF LinkSpec

\* Type correctness of the rows, the pages and the answers.
THEOREM LinkTypeCorrect == LinkSpec => []LinkTypeOK
BY LinkInvariant, PTL DEF LinkInv

\* However many tabs of one link decline and store, and whenever it expires, the
\* agent is never told both "authorized" and "declined".
THEOREM VerdictsNeverConflict == LinkSpec => []VerdictsAgree
<1>1. LinkInv => VerdictsAgree
  BY DEF LinkInv, ToldIsOnRecord, VerdictsAgree
<1> QED
  BY <1>1, LinkInvariant, PTL

\* A credential that left the API was stored for that link and signed, and what it
\* bought was not declined.
THEOREM DeliveriesWereApproved == LinkSpec => []SettledWasApproved
<1>1. ASSUME LinkInv PROVE SettledWasApproved
  <2>1. ASSUME NEW tab \in Tab, NEW l, tab.pc = "stored", tab.link = l
        PROVE tab = [pc |-> "stored", link |-> l]
    BY <2>1 DEF Tab
  <2>2. \A p \in Pages : page[p].pc = "stored" => page[p] = [pc |-> "stored", link |-> page[p].link]
    <3>1. \A p \in Pages : page[p] \in Tab
      BY <1>1 DEF LinkInv, LinkTypeOK, Tab
    <3> QED
      BY <2>1, <3>1
  <2> QED
    BY <1>1, <2>2 DEF LinkInv, DeliveredAsTold, ToldIsOnRecord, SignedBeforeSent,
                SettledWasApproved, LinkTypeOK
<1> QED
  BY <1>1, LinkInvariant, PTL
=============================================================================
