----------------------------- MODULE StatusLists ----------------------------
(***************************************************************************)
(* The OP-hosted status lists: the table vac_revocation_registry and the   *)
(* endpoints of api/status_list_routes.py that write it.                   *)
(*                                                                         *)
(* A worker is one server process.  The writing endpoints are coroutines   *)
(* that do not await anything after they have read the request body, so a  *)
(* worker runs one of them at a time from its first database access to its *)
(* reply; two workers interleave at every database access.  A database     *)
(* transaction that a dying worker leaves open is rolled back.             *)
(*                                                                         *)
(* A bitstring is the set of its set bits.  current_bitstring and the      *)
(* encodedList inside current_credential_jsonld are written together with  *)
(* the same value and are the one field "bits".                            *)
(***************************************************************************)
EXTENDS Naturals

CONSTANTS Lists,       \* identifiers generate_list_id can return
          DIDs,        \* issuers
          Workers,     \* server processes
          Capacity,    \* total_capacity, 131072 in the code
          NoOwner,     \* owner of a list that does not exist yet
          NoList       \* the list of an idle worker

ASSUME CapacityAssumption == Capacity \in Nat
ASSUME NoneAssumption == NoOwner \notin DIDs /\ NoList \notin Lists

VARIABLES registry,    \* the rows, by list
          worker,      \* what each worker's event loop is doing
          rowLock,     \* workers holding a FOR UPDATE lock, by list
          handedOut    \* how often each index of a list was returned to a client

vars == <<registry, worker, rowLock, handedOut>>

Index == 0 .. (Capacity - 1)
Purposes == {"revocation", "suspension"}

Row == [owner: DIDs \cup {NoOwner}, purpose: Purposes \cup {"none"},
        bits: SUBSET Index, placeholder: BOOLEAN, next: 0 .. Capacity]
NoRow == [owner |-> NoOwner, purpose |-> "none", bits |-> {},
          placeholder |-> TRUE, next |-> 0]
Exists(l) == registry[l].owner # NoOwner

Work == [op: {"idle", "alloc", "update"}, list: Lists \cup {NoList},
         index: 0 .. Capacity, bits: SUBSET Index]
Idle == [op |-> "idle", list |-> NoList, index |-> 0, bits |-> {}]

Init ==
  /\ registry = [l \in Lists |-> NoRow]
  /\ worker = [w \in Workers |-> Idle]
  /\ rowLock = [l \in Lists |-> {}]
  /\ handedOut = [l \in Lists |-> [i \in Index |-> 0]]

-----------------------------------------------------------------------------
\* Mutant of CreateList: a list identifier is used a second time.
CreateListReused(w, l, signer, p) ==
  /\ worker[w] = Idle
  /\ registry' = [registry EXCEPT ![l] =
                    [owner |-> signer, purpose |-> p, bits |-> {},
                     placeholder |-> TRUE, next |-> 0]]
  /\ UNCHANGED <<worker, rowLock, handedOut>>

\* POST /sovereign/status-lists.  The signer owns the new list; the row starts
\* with a zeroed bitstring and a placeholder credential that is never served.
CreateList(w, l, signer, p) ==
  /\ worker[w] = Idle
  /\ ~Exists(l)
  /\ registry' = [registry EXCEPT ![l] =
                    [owner |-> signer, purpose |-> p, bits |-> {},
                     placeholder |-> TRUE, next |-> 0]]
  /\ UNCHANGED <<worker, rowLock, handedOut>>

\* Mutants of AllocateSelect: the SELECT takes no lock; the reply carries the
\* index after the increment; an index is handed out by a full list.
AllocateSelectNoLock(w, l, signer) ==
  /\ worker[w] = Idle
  /\ Exists(l)
  /\ registry[l].owner = signer
  /\ registry[l].next < Capacity
  /\ worker' = [worker EXCEPT ![w] = [op |-> "alloc", list |-> l,
                                      index |-> registry[l].next, bits |-> {}]]
  /\ UNCHANGED <<registry, rowLock, handedOut>>

AllocateSelectLastIndex(w, l, signer) ==
  /\ worker[w] = Idle
  /\ Exists(l)
  /\ rowLock[l] = {}
  /\ registry[l].owner = signer
  /\ registry[l].next + 1 < Capacity
  /\ rowLock' = [rowLock EXCEPT ![l] = {w}]
  /\ worker' = [worker EXCEPT ![w] = [op |-> "alloc", list |-> l,
                                      index |-> registry[l].next + 1, bits |-> {}]]
  /\ UNCHANGED <<registry, handedOut>>

AllocateSelectNoCapacityCheck(w, l, signer) ==
  /\ worker[w] = Idle
  /\ Exists(l)
  /\ rowLock[l] = {}
  /\ registry[l].owner = signer
  /\ registry[l].next <= Capacity
  /\ rowLock' = [rowLock EXCEPT ![l] = {w}]
  /\ worker' = [worker EXCEPT ![w] = [op |-> "alloc", list |-> l,
                                      index |-> registry[l].next, bits |-> {}]]
  /\ UNCHANGED <<registry, handedOut>>

\* POST .../allocate-index, up to SELECT ... FOR UPDATE.  A missing list, another
\* owner and a full list end the request with a rollback.
AllocateSelect(w, l, signer) ==
  /\ worker[w] = Idle
  /\ Exists(l)
  /\ rowLock[l] = {}
  /\ registry[l].owner = signer
  /\ registry[l].next < Capacity
  /\ rowLock' = [rowLock EXCEPT ![l] = {w}]
  /\ worker' = [worker EXCEPT ![w] = [op |-> "alloc", list |-> l,
                                      index |-> registry[l].next, bits |-> {}]]
  /\ UNCHANGED <<registry, handedOut>>

\* The UPDATE increments the column, not the value that was read; the reply
\* carries the value that was read.
AllocateCommit(w) ==
  LET l == worker[w].list IN
  /\ worker[w].op = "alloc"
  /\ registry' = [registry EXCEPT ![l].next = @ + 1]
  /\ handedOut' = [handedOut EXCEPT ![l][worker[w].index] = @ + 1]
  /\ rowLock' = [rowLock EXCEPT ![l] = @ \ {w}]
  /\ worker' = [worker EXCEPT ![w] = Idle]

\* Mutant of ValidUpdate: the terminal rule is dropped.
ValidUpdateReversible(row, bits, size) == size = Capacity /\ bits # row.bits

\* validate_status_list_update: same size, at least one bit changed, and no
\* 1 -> 0 on a revocation list.
ValidUpdate(row, bits, size) ==
  /\ size = Capacity
  /\ bits # row.bits
  /\ row.purpose = "revocation" => row.bits \subseteq bits

\* POST /sovereign/status-lists/{id} up to the validation: the credential is
\* checked against the row as a plain SELECT returned it, with no lock.  A
\* malformed credential or a bad signature ends the request and changes nothing.
UpdateValidate(w, l, signer, p, bits, size) ==
  /\ worker[w] = Idle
  /\ Exists(l)
  /\ p = registry[l].purpose
  /\ signer = registry[l].owner
  /\ ValidUpdate(registry[l], bits, size)
  /\ worker' = [worker EXCEPT ![w] = [op |-> "update", list |-> l,
                                      index |-> 0, bits |-> bits]]
  /\ UNCHANGED <<registry, rowLock, handedOut>>

\* update_status_list: both columns are replaced, whatever the row holds now.
\* The UPDATE waits for a row lock another transaction holds.
UpdateApply(w) ==
  LET l == worker[w].list IN
  /\ worker[w].op = "update"
  /\ rowLock[l] = {}
  /\ registry' = [registry EXCEPT ![l].bits = worker[w].bits,
                                  ![l].placeholder = FALSE]
  /\ worker' = [worker EXCEPT ![w] = Idle]
  /\ UNCHANGED <<rowLock, handedOut>>

\* The process dies in the middle of a request (auto-restart kills it with -9):
\* its open transaction is rolled back and its locks are released.
Crash(w) ==
  /\ worker[w] # Idle
  /\ worker' = [worker EXCEPT ![w] = Idle]
  /\ rowLock' = [l \in Lists |-> rowLock[l] \ {w}]
  /\ UNCHANGED <<registry, handedOut>>

Next ==
  \E w \in Workers :
    \/ \E l \in Lists, d \in DIDs, p \in Purposes : CreateList(w, l, d, p)
    \/ \E l \in Lists, d \in DIDs : AllocateSelect(w, l, d)
    \/ AllocateCommit(w)
    \/ \E l \in Lists, d \in DIDs, p \in Purposes, b \in SUBSET Index,
          n \in {Capacity, Capacity + 8} : UpdateValidate(w, l, d, p, b, n)
    \/ UpdateApply(w)
    \/ Crash(w)

Spec == Init /\ [][Next]_vars

-----------------------------------------------------------------------------
TypeOK ==
  /\ registry \in [Lists -> Row]
  /\ worker \in [Workers -> Work]
  /\ rowLock \in [Lists -> SUBSET Workers]
  /\ handedOut \in [Lists -> [Index -> Nat]]

\* allocate_index hands every index of a list out at most once, with any number
\* of workers and with workers dying between the SELECT and the UPDATE: no two
\* credentials share a bit.
IndexHandedOutOnce == \A l \in Lists, i \in Index : handedOut[l][i] <= 1

\* The other direction of the same bookkeeping: next_available_index is a
\* high-water mark, every index under it was returned and none at or over it.
NextIsHighWaterMark ==
  \A l \in Lists, i \in Index : handedOut[l][i] = IF i < registry[l].next THEN 1 ELSE 0

\* What SELECT ... FOR UPDATE gives allocate_index until it commits: the worker
\* is the only holder of the row, the value it read is still the column's, and
\* the list still has room.
LockedReadIsCurrent ==
  \A w \in Workers :
    worker[w].op = "alloc" =>
      LET l == worker[w].list IN
      /\ l \in Lists
      /\ Exists(l)
      /\ rowLock[l] = {w}
      /\ worker[w].index = registry[l].next
      /\ registry[l].next < Capacity

\* "Revocation is terminal": a bit that a revocation list once served as set is
\* never cleared by any step, whatever was validated, when, against which row.
RevocationTerminal ==
  [][\A l \in Lists : registry[l].purpose = "revocation"
        => registry[l].bits \subseteq registry'[l].bits]_vars

\* One process serves the API, as README and auto-restart.sh start it.
SingleWorker == \A v, w \in Workers : v = w

\* With one process, what update_status_list writes is still a valid update of
\* the row it writes to: nothing came between the validation and the UPDATE.
ValidatedUpdateIsCurrent ==
  \A w \in Workers :
    worker[w].op = "update" =>
      LET l == worker[w].list IN
      /\ l \in Lists
      /\ Exists(l)
      /\ ValidUpdate(registry[l], worker[w].bits, Capacity)

\* What GET serves, as the abstract registry sees it.
AbsPurpose == [l \in Lists |-> registry[l].purpose]
AbsServed == [l \in Lists |-> [published |-> ~registry[l].placeholder,
                               bits |-> registry[l].bits]]
Abs == INSTANCE StatusRegistry WITH purpose <- AbsPurpose, served <- AbsServed

\* The store and its endpoints implement the registry that verifiers rely on.
ImplementsRegistry == Abs!RegSpec
=============================================================================
