----------------------- MODULE CredentialCacheProofs ------------------------
(***************************************************************************)
(* Proofs about CredentialCache, for every number of credentials, status   *)
(* entries, lists and concurrent requests and every re-check age: what a   *)
(* cached credential is answered with against what its issuer published.   *)
(***************************************************************************)
EXTENDS CredentialCache, TLAPS

\* A cached credential names lists of the right purpose; a list keeps its purpose,
\* so it does so for ever.
CachedIsWellFormed == \A c \in Creds : row[c].cached => WellFormed(c)

\* A read that looks upstream is of a cached credential and not over its time.
ReadsAreInFlight ==
  \A r \in Readers : reader[r].pc = "check" =>
    /\ reader[r].cred \in Creds /\ row[reader[r].cred].cached
    /\ Len(reader[r].checks) <= Len(Entries[reader[r].cred])
    /\ reader[r].start <= now /\ now <= reader[r].start + MaxFlight

\* A revocation that was served when the read began is still served, and has been
\* found if its list was read: a revocation list takes no bit back.
MarkedIsFound ==
  \A r \in Readers : reader[r].pc = "check" /\ reader[r].marked =>
    \E k \in EntriesFor(reader[r].cred, "revocation") :
      /\ BitSet(Entries[reader[r].cred][k])
      /\ k <= Len(reader[r].checks) => ~reader[r].checks[k]

\* A bit that a read found clear, and that is set now, was set since it began.
PassedWasClear ==
  \A r \in Readers : reader[r].pc = "check" =>
    \A k \in 1 .. Len(reader[r].checks) :
      reader[r].checks[k] /\ BitSet(Entries[reader[r].cred][k])
        => reader[r].start <= since[reader[r].cred][k]

\* A row that a check left clear was verified at most one flight after any of the
\* bits that are set now.
ClearWasChecked ==
  \A c \in Creds : checkedBy[c] = "check" =>
    /\ row[c].verified \in Nat
    /\ ~row[c].revoked /\ ~row[c].suspended =>
         \A k \in DOMAIN Entries[c] :
           BitSet(Entries[c][k]) => row[c].verified <= since[c][k] + MaxFlight

\* The inductive invariant of the cache.
CacheInv ==
  /\ TypeOK
  /\ CachedIsWellFormed
  /\ ReadsAreInFlight
  /\ MarkedIsFound
  /\ PassedWasClear
  /\ ClearWasChecked
  /\ UpstreamReadReportsRevocation
  /\ CheckedRowIsFresh

\* The shapes of a row, of a read and of an answer.
Row == [cached: BOOLEAN, revoked: BOOLEAN, suspended: BOOLEAN, verified: 0 .. now \cup {Never}]
Read == [pc: {"idle", "check"}, cred: Creds \cup {NoCred}, suspended: BOOLEAN,
         checks: Seq(BOOLEAN), start: Nat, marked: BOOLEAN]
Reply == [cred: Creds \cup {NoCred}, valid: BOOLEAN, revoked: BOOLEAN, suspended: BOOLEAN,
          upstream: BOOLEAN, marked: BOOLEAN, by: {"none", "check", "cache"}]

\* An entry of a credential has one of the two purposes and a place in a list.
LEMMA EntryShape ==
  ASSUME NEW c \in Creds
  PROVE /\ Len(Entries[c]) \in Nat /\ DOMAIN Entries[c] = 1 .. Len(Entries[c])
        /\ \A k \in DOMAIN Entries[c] :
             Entries[c][k].purpose \in Purposes /\ Entries[c][k].list \in Lists
<1> DEFINE E == [purpose: Purposes, list: Lists, index: Index]
<1>1. Entries[c] \in Seq(E)
  BY EntriesAssumption
<1>2. \A e \in E : e.purpose \in Purposes /\ e.list \in Lists
  OBVIOUS
<1> HIDE DEF E
<1>3. /\ Len(Entries[c]) \in Nat /\ DOMAIN Entries[c] = 1 .. Len(Entries[c])
      /\ \A k \in DOMAIN Entries[c] : Entries[c][k] \in E
  BY <1>1
<1> QED
  BY <1>2, <1>3

\* An issuer's step keeps the purpose of every list that exists, and the bits of
\* every revocation list.
LEMMA RegistryStep ==
  ASSUME RegTypeOK, RegNext
  PROVE /\ RegTypeOK'
        /\ \A l \in Lists : /\ purpose[l] \in Purposes => purpose'[l] = purpose[l]
                            /\ purpose[l] = "revocation" => served[l].bits \subseteq served'[l].bits
<1>1. ASSUME NEW l \in Lists, NEW p \in Purposes, RegCreate(l, p)
      PROVE /\ RegTypeOK'
            /\ \A m \in Lists : /\ purpose[m] \in Purposes => purpose'[m] = purpose[m]
                                /\ served'[m] = served[m]
  BY <1>1 DEF RegCreate, RegTypeOK, Purposes
<1>2. ASSUME NEW l \in Lists, NEW b \in SUBSET Index, RegPublish(l, b)
      PROVE /\ RegTypeOK'
            /\ \A m \in Lists : /\ purpose'[m] = purpose[m]
                                /\ purpose[m] = "revocation" => served[m].bits \subseteq served'[m].bits
  <2>1. Serving(b) \in [published: BOOLEAN, bits: SUBSET Index] /\ Serving(b).bits = b
    BY DEF Serving
  <2> QED
    BY <1>2, <2>1 DEF RegPublish, LegalChange, RegTypeOK
<1> QED
  BY <1>1, <1>2 DEF RegNext

\* Nothing is cached: the invariant holds.
LEMMA CacheInit == Init => CacheInv
<1> SUFFICES ASSUME Init PROVE CacheInv
  OBVIOUS
<1> USE TimeAssumption
<1>1. NoRow \in Row /\ IdleReader \in Read /\ NoReply \in Reply
  BY DEF NoRow, IdleReader, NoReply, Row, Read, Reply
<1>2. RegTypeOK
  BY DEF Init, RegInit, RegTypeOK, NotServed
<1>3. TypeOK
  BY <1>1, <1>2 DEF Init, TypeOK, Row, Read, Reply
<1>4. CachedIsWellFormed /\ ClearWasChecked
  BY DEF Init, CachedIsWellFormed, ClearWasChecked, NoRow
<1>5. ReadsAreInFlight /\ MarkedIsFound /\ PassedWasClear
  BY DEF Init, ReadsAreInFlight, MarkedIsFound, PassedWasClear, IdleReader
<1>6. UpstreamReadReportsRevocation /\ CheckedRowIsFresh
  BY DEF Init, UpstreamReadReportsRevocation, CheckedRowIsFresh, NoReply
<1> QED
  BY <1>3, <1>4, <1>5, <1>6 DEF CacheInv

\* The answer of a step that answers nothing.
LEMMA NoReplyIsSafe ==
  ASSUME reply' = NoReply
  PROVE reply' \in Reply /\ UpstreamReadReportsRevocation' /\ CheckedRowIsFresh'
BY DEF NoReply, Reply, UpstreamReadReportsRevocation, CheckedRowIsFresh

\* The issuers: a bit that appears is as old as the clock says.
LEMMA IssuerStep == CacheInv /\ Issuer => CacheInv'
<1> SUFFICES ASSUME CacheInv, Issuer PROVE CacheInv'
  OBVIOUS
<1> USE TimeAssumption
<1>1. /\ RegTypeOK'
      /\ \A l \in Lists : /\ purpose[l] \in Purposes => purpose'[l] = purpose[l]
                          /\ purpose[l] = "revocation" => served[l].bits \subseteq served'[l].bits
  BY RegistryStep DEF Issuer, CacheInv, TypeOK
<1>2. reply' = NoReply /\ UNCHANGED <<row, reader, now, checkedBy>>
  BY DEF Issuer
<1>3. \A c \in Creds : /\ since'[c] \in [DOMAIN Entries[c] -> Nat]
                       /\ \A k \in DOMAIN Entries[c] :
                            BitSet(Entries[c][k])' =>
                              since'[c][k] = IF BitSet(Entries[c][k]) THEN since[c][k] ELSE now
  BY DEF Issuer, CacheInv, TypeOK
<1>4. reply' \in Reply /\ UpstreamReadReportsRevocation' /\ CheckedRowIsFresh'
  BY <1>2, NoReplyIsSafe
<1>5. TypeOK'
  BY <1>1, <1>2, <1>3, <1>4 DEF CacheInv, TypeOK, Reply
<1>6. \A c \in Creds : WellFormed(c) => WellFormed(c)'
  BY <1>1, EntryShape DEF WellFormed
<1>7. CachedIsWellFormed' /\ ReadsAreInFlight'
  BY <1>2, <1>6 DEF CacheInv, CachedIsWellFormed, ReadsAreInFlight
<1>8. \A c \in Creds : row[c].cached =>
        \A k \in EntriesFor(c, "revocation") :
          BitSet(Entries[c][k]) => BitSet(Entries[c][k])'
  <2> SUFFICES ASSUME NEW c \in Creds, row[c].cached, NEW k \in EntriesFor(c, "revocation"),
                      BitSet(Entries[c][k])
               PROVE BitSet(Entries[c][k])'
    OBVIOUS
  <2>1. /\ k \in DOMAIN Entries[c] /\ Entries[c][k].purpose = "revocation"
        /\ Entries[c][k].list \in Lists
    BY EntryShape DEF EntriesFor
  <2>2. purpose[Entries[c][k].list] = "revocation"
    BY <2>1 DEF CacheInv, CachedIsWellFormed, WellFormed
  <2> QED
    BY <1>1, <2>1, <2>2 DEF BitSet
<1>9. MarkedIsFound'
  BY <1>2, <1>8 DEF CacheInv, MarkedIsFound, ReadsAreInFlight
<1>10. PassedWasClear'
  <2> SUFFICES ASSUME NEW r \in Readers, reader[r].pc = "check",
                      NEW k \in 1 .. Len(reader[r].checks), reader[r].checks[k],
                      BitSet(Entries[reader[r].cred][k])'
               PROVE reader[r].start <= since'[reader[r].cred][k]
    BY <1>2 DEF PassedWasClear
  <2>1. /\ reader[r].cred \in Creds /\ reader[r].start <= now
        /\ Len(reader[r].checks) <= Len(Entries[reader[r].cred])
    BY DEF CacheInv, ReadsAreInFlight
  <2>2. k \in DOMAIN Entries[reader[r].cred]
    BY <2>1, EntryShape DEF CacheInv, TypeOK
  <2> QED
    BY <1>2, <1>3, <2>1, <2>2 DEF CacheInv, PassedWasClear
<1>11. ClearWasChecked'
  <2> SUFFICES ASSUME NEW c \in Creds, checkedBy[c] = "check"
               PROVE /\ row[c].verified \in Nat
                     /\ ~row[c].revoked /\ ~row[c].suspended =>
                          \A k \in DOMAIN Entries[c] :
                            BitSet(Entries[c][k])' => row[c].verified <= since'[c][k] + MaxFlight
    BY <1>2 DEF ClearWasChecked
  <2>1. row[c].verified \in Nat /\ row[c].verified <= now /\ now \in Nat
    BY DEF CacheInv, ClearWasChecked, TypeOK
  <2> QED
    BY <1>3, <2>1 DEF CacheInv, ClearWasChecked
<1> QED
  BY <1>4, <1>5, <1>7, <1>9, <1>10, <1>11 DEF CacheInv

\* The clock: no read is overtaken by it.
LEMMA TickStep == CacheInv /\ Tick => CacheInv'
<1> SUFFICES ASSUME CacheInv, Tick PROVE CacheInv'
  OBVIOUS
<1> USE TimeAssumption
<1>1. /\ reply' = NoReply /\ UNCHANGED <<purpose, served, row, reader, since, checkedBy>>
      /\ now \in Nat /\ now' = now + 1
      /\ \A r \in Readers : reader[r].pc # "idle" => now < reader[r].start + MaxFlight
  BY DEF Tick, CacheInv, TypeOK
<1>2. reply' \in Reply /\ UpstreamReadReportsRevocation' /\ CheckedRowIsFresh'
  BY <1>1, NoReplyIsSafe
<1>3. row' \in [Creds -> Row']
  <2>1. 0 .. now \subseteq 0 .. now'
    BY <1>1
  <2> QED
    BY <1>1, <2>1 DEF CacheInv, TypeOK, Row
<1>4. TypeOK'
  BY <1>1, <1>2, <1>3 DEF CacheInv, TypeOK, RegTypeOK, Row, Reply
<1>5. CachedIsWellFormed'
  BY <1>1 DEF CacheInv, CachedIsWellFormed, WellFormed
<1>6. ReadsAreInFlight'
  <2>1. \A r \in Readers : reader[r].start \in Nat
    BY DEF CacheInv, TypeOK
  <2> QED
    BY <1>1, <2>1 DEF CacheInv, ReadsAreInFlight
<1>7. MarkedIsFound' /\ PassedWasClear' /\ ClearWasChecked'
  BY <1>1 DEF CacheInv, MarkedIsFound, PassedWasClear, ClearWasChecked, BitSet
<1> QED
  BY <1>2, <1>4, <1>5, <1>6, <1>7 DEF CacheInv

\* The two endpoints that write rows keep what they find in revoked and suspended.
LEMMA StoredRow ==
  ASSUME CacheInv, NEW c \in Creds, CacheAttestation(c) \/ StoreAttestation(c)
  PROVE LET q == row'[c] IN
        /\ q \in Row /\ q.cached /\ q.revoked = row[c].revoked /\ q.suspended = row[c].suspended
        /\ \/ q.verified = row[c].verified /\ checkedBy' = checkedBy
           \/ checkedBy' = [checkedBy EXCEPT ![c] = "cache"]
        /\ row' = [row EXCEPT ![c] = q]
<1> DEFINE q == row'[c]
<1>1. row[c] \in Row /\ now \in 0 .. now
  BY DEF CacheInv, TypeOK, Row
<1>2. CASE CacheAttestation(c)
  <2>1. /\ row' = [row EXCEPT ![c] = [row[c] EXCEPT !.cached = TRUE, !.verified = now]]
        /\ checkedBy' = [checkedBy EXCEPT ![c] = "cache"]
    BY <1>2 DEF CacheAttestation, CacheInv, TypeOK
  <2>2. q = [row[c] EXCEPT !.cached = TRUE, !.verified = now]
    BY <2>1 DEF CacheInv, TypeOK
  <2>3. /\ q \in Row /\ q.cached /\ q.revoked = row[c].revoked
        /\ q.suspended = row[c].suspended
    BY <1>1, <2>2 DEF Row
  <2>4. row' = [row EXCEPT ![c] = q]
    BY <2>1, <2>2
  <2> QED
    BY <2>1, <2>3, <2>4
<1>3. CASE StoreAttestation(c)
  <2>1. /\ row' = [row EXCEPT ![c] = [row[c] EXCEPT !.cached = TRUE]]
        /\ checkedBy' = checkedBy
    BY <1>3 DEF StoreAttestation, CacheInv, TypeOK
  <2>2. q = [row[c] EXCEPT !.cached = TRUE]
    BY <2>1 DEF CacheInv, TypeOK
  <2> QED
    BY <1>1, <2>1, <2>2 DEF Row
<1> QED
  BY <1>2, <1>3

\* Caching a credential again disturbs no read and no verdict.
LEMMA StoreStep ==
  ASSUME CacheInv, NEW c \in Creds, CacheAttestation(c) \/ StoreAttestation(c)
  PROVE CacheInv'
<1> USE TimeAssumption
<1> DEFINE q == row'[c]
<1>1. /\ q \in Row /\ q.cached /\ q.revoked = row[c].revoked /\ q.suspended = row[c].suspended
      /\ \/ q.verified = row[c].verified /\ checkedBy' = checkedBy
         \/ checkedBy' = [checkedBy EXCEPT ![c] = "cache"]
      /\ row' = [row EXCEPT ![c] = q]
  BY StoredRow
<1>2. WellFormed(c) /\ reply' = NoReply /\ UNCHANGED <<purpose, served, reader, now, since>>
  BY DEF CacheAttestation, StoreAttestation
<1> HIDE DEF q
<1>3. reply' \in Reply /\ UpstreamReadReportsRevocation' /\ CheckedRowIsFresh'
  BY <1>2, NoReplyIsSafe
<1>4. TypeOK'
  BY <1>1, <1>2, <1>3 DEF CacheInv, TypeOK, RegTypeOK, Row, Reply
<1>5. CachedIsWellFormed' /\ ReadsAreInFlight'
  BY <1>1, <1>2 DEF CacheInv, TypeOK, CachedIsWellFormed, WellFormed, ReadsAreInFlight
<1>6. MarkedIsFound' /\ PassedWasClear'
  BY <1>2 DEF CacheInv, MarkedIsFound, PassedWasClear, BitSet
<1>7. ClearWasChecked'
  BY <1>1, <1>2 DEF CacheInv, TypeOK, ClearWasChecked, BitSet
<1> QED
  BY <1>3, <1>4, <1>5, <1>6, <1>7 DEF CacheInv

\* A read that is answered from the row.
LEMMA CachedReadStep ==
  ASSUME CacheInv, NEW r \in Readers, NEW c \in Creds, NEW force \in BOOLEAN,
         ReadCached(r, c, force)
  PROVE CacheInv'
<1> USE TimeAssumption
<1> DEFINE a == [cred |-> c, valid |-> ~row[c].revoked /\ ~row[c].suspended,
                 revoked |-> row[c].revoked, suspended |-> ~row[c].revoked /\ row[c].suspended,
                 upstream |-> FALSE, marked |-> UpstreamRevoked(c), by |-> checkedBy[c]]
<1>1. /\ reply' = a
      /\ row[c].revoked \/ ~NeedsRecheck(row[c].verified)
      /\ UNCHANGED <<purpose, served, row, reader, now, since, checkedBy>>
  BY DEF ReadCached
<1>2. /\ a \in Reply /\ a.cred = c /\ a.upstream = FALSE /\ a.by = checkedBy[c]
      /\ a.valid => ~row[c].revoked /\ ~row[c].suspended
  <2>1. UpstreamRevoked(c) \in BOOLEAN /\ checkedBy[c] \in {"none", "check", "cache"}
    BY DEF UpstreamRevoked, CacheInv, TypeOK
  <2>2. row[c].revoked \in BOOLEAN /\ row[c].suspended \in BOOLEAN
    BY DEF CacheInv, TypeOK
  <2> QED
    BY <2>1, <2>2 DEF Reply
<1> HIDE DEF a
<1>3. TypeOK'
  BY <1>1, <1>2 DEF CacheInv, TypeOK, RegTypeOK, Reply
<1>4. /\ CachedIsWellFormed' /\ ReadsAreInFlight' /\ MarkedIsFound' /\ PassedWasClear'
      /\ ClearWasChecked'
  BY <1>1 DEF CacheInv, CachedIsWellFormed, WellFormed, ReadsAreInFlight, MarkedIsFound,
              PassedWasClear, ClearWasChecked, BitSet
<1>5. UpstreamReadReportsRevocation'
  BY <1>1, <1>2 DEF UpstreamReadReportsRevocation
<1>6. CheckedRowIsFresh'
  <2> SUFFICES ASSUME checkedBy[c] = "check", ~row[c].revoked, ~row[c].suspended
               PROVE ~LongBlocked(c)'
    BY <1>1, <1>2 DEF CheckedRowIsFresh
  <2>1. row[c].verified \in Nat /\ now <= row[c].verified + RecheckAge /\ now \in Nat
    BY <1>1 DEF CacheInv, ClearWasChecked, NeedsRecheck, TypeOK
  <2>2. \A k \in DOMAIN Entries[c] :
          /\ since[c][k] \in Nat
          /\ BitSet(Entries[c][k]) => row[c].verified <= since[c][k] + MaxFlight
    BY DEF CacheInv, ClearWasChecked, TypeOK
  <2>3. \A k \in DOMAIN Entries[c] :
          BitSet(Entries[c][k]) => ~(now > since[c][k] + RecheckAge + MaxFlight)
    BY <2>1, <2>2
  <2> QED
    BY <1>1, <2>3 DEF LongBlocked, BitSet
<1> QED
  BY <1>3, <1>4, <1>5, <1>6 DEF CacheInv

\* A read that becomes one that looks upstream, or reads one more list, or dies.
LEMMA ReaderStep ==
  ASSUME CacheInv, NEW r \in Readers, NEW q \in Read, reader' = [reader EXCEPT ![r] = q],
         reply' = NoReply, UNCHANGED <<purpose, served, row, now, since, checkedBy>>,
         q.pc = "check" =>
           /\ q.cred \in Creds /\ row[q.cred].cached
           /\ Len(q.checks) <= Len(Entries[q.cred])
           /\ q.start <= now /\ now <= q.start + MaxFlight
           /\ q.marked => \E k \in EntriesFor(q.cred, "revocation") :
                            /\ BitSet(Entries[q.cred][k])
                            /\ k <= Len(q.checks) => ~q.checks[k]
           /\ \A k \in 1 .. Len(q.checks) :
                q.checks[k] /\ BitSet(Entries[q.cred][k]) => q.start <= since[q.cred][k]
  PROVE CacheInv'
<1>1. reply' \in Reply /\ UpstreamReadReportsRevocation' /\ CheckedRowIsFresh'
  BY NoReplyIsSafe
<1>2. reader'[r] = q /\ \A s \in Readers : s # r => reader'[s] = reader[s]
  BY DEF CacheInv, TypeOK
<1>3. TypeOK'
  BY <1>1 DEF CacheInv, TypeOK, RegTypeOK, Read, Reply
<1>4. CachedIsWellFormed' /\ ClearWasChecked'
  BY DEF CacheInv, CachedIsWellFormed, WellFormed, ClearWasChecked, BitSet
<1>5. ReadsAreInFlight'
  BY <1>2 DEF CacheInv, ReadsAreInFlight
<1>6. MarkedIsFound'
  BY <1>2 DEF CacheInv, MarkedIsFound, BitSet
<1>7. PassedWasClear'
  BY <1>2 DEF CacheInv, PassedWasClear, BitSet
<1> QED
  BY <1>1, <1>3, <1>4, <1>5, <1>6, <1>7 DEF CacheInv

\* The row _update_cache leaves.
LEMMA UpdatedRowShape ==
  ASSUME CacheInv, NEW r \in Readers, NEW c \in Creds
  PROVE LET q == UpdatedRow(r, c) IN
        /\ q \in Row /\ q.cached = row[c].cached /\ q.verified = now
        /\ q.revoked <=> row[c].revoked \/ Failed(r, "revocation")
        /\ ~Failed(r, "revocation") /\ Failed(r, "suspension") => q.suspended
<1> DEFINE checked == [row[c] EXCEPT !.verified = now]
<1>1. row[c] \in Row /\ now \in 0 .. now
  BY DEF CacheInv, TypeOK, Row
<1>2. /\ checked \in Row /\ checked.cached = row[c].cached /\ checked.verified = now
      /\ checked.revoked = row[c].revoked
  BY <1>1 DEF Row
<1> HIDE DEF checked
<1>3. \A b \in BOOLEAN :
        /\ LET q == [checked EXCEPT !.suspended = b] IN
           /\ q \in Row /\ q.cached = checked.cached /\ q.verified = checked.verified
           /\ q.revoked = checked.revoked /\ q.suspended = b
        /\ LET q == [checked EXCEPT !.revoked = b] IN
           /\ q \in Row /\ q.cached = checked.cached /\ q.verified = checked.verified
           /\ q.revoked = b
  BY <1>2 DEF Row
<1>4. UpdatedRow(r, c) =
        IF Failed(r, "revocation") THEN [checked EXCEPT !.revoked = TRUE]
        ELSE IF Failed(r, "suspension") THEN [checked EXCEPT !.suspended = TRUE]
        ELSE IF Lifted(r) THEN [checked EXCEPT !.suspended = FALSE]
        ELSE checked
  BY DEF UpdatedRow, checked
<1> QED
  BY <1>2, <1>3, <1>4

\* The end of a read that looked upstream.
LEMMA WriteBackStep ==
  ASSUME CacheInv, NEW r \in Readers, WriteBack(r)
  PROVE CacheInv'
<1> USE TimeAssumption
<1> DEFINE c == reader[r].cred
           f == Failed(r, "revocation")
           g == Failed(r, "suspension")
           l == Lifted(r)
           q == UpdatedRow(r, c)
           a == [cred |-> c, valid |-> (~f /\ ~g) \/ (l /\ ~g), revoked |-> f,
                 suspended |-> g, upstream |-> TRUE, marked |-> reader[r].marked, by |-> "check"]
<1>1. /\ reader[r].pc = "check" /\ Len(reader[r].checks) = Len(Entries[c])
      /\ row' = [row EXCEPT ![c] = q] /\ reply' = a
      /\ checkedBy' = [checkedBy EXCEPT ![c] = "check"]
      /\ reader' = [reader EXCEPT ![r] = IdleReader]
      /\ UNCHANGED <<purpose, served, now, since>>
  BY DEF WriteBack
<1>2. /\ c \in Creds /\ row[c].cached /\ reader[r] \in Read
      /\ reader[r].start <= now /\ now <= reader[r].start + MaxFlight
      /\ reader[r].start \in Nat /\ now \in Nat
  BY <1>1 DEF CacheInv, ReadsAreInFlight, TypeOK, Read
<1>3. f \in BOOLEAN /\ g \in BOOLEAN /\ l \in BOOLEAN
  BY DEF Failed, Lifted
<1>4. /\ q \in Row /\ q.cached /\ q.verified = now /\ (q.revoked <=> row[c].revoked \/ f)
      /\ ~f /\ g => q.suspended
  BY <1>2, UpdatedRowShape
<1>5. /\ a \in Reply /\ a.cred = c /\ a.revoked = f /\ a.marked = reader[r].marked
      /\ a.valid => ~g
  BY <1>2, <1>3 DEF Reply, Read
<1>6. IdleReader \in Read /\ IdleReader.pc = "idle"
  BY DEF IdleReader, Read
<1>7. reader[r].marked => f
  <2> SUFFICES ASSUME reader[r].marked PROVE f
    OBVIOUS
  <2>1. PICK k \in EntriesFor(c, "revocation") :
          k <= Len(reader[r].checks) => ~reader[r].checks[k]
    BY <1>1 DEF CacheInv, MarkedIsFound
  <2>2. k <= Len(reader[r].checks)
    BY <1>1, <1>2, EntryShape DEF EntriesFor
  <2> QED
    BY <2>1, <2>2 DEF Failed
\* Every list was read clear, so no bit that is set now is older than the read.
<1>8. ~f /\ ~g => \A k \in DOMAIN Entries[c] :
        BitSet(Entries[c][k]) => since[c][k] \in Nat /\ now <= since[c][k] + MaxFlight
  <2> SUFFICES ASSUME ~f, ~g, NEW k \in DOMAIN Entries[c], BitSet(Entries[c][k])
               PROVE since[c][k] \in Nat /\ now <= since[c][k] + MaxFlight
    OBVIOUS
  <2>1. Entries[c][k].purpose \in {"revocation", "suspension"}
    BY <1>2, EntryShape DEF Purposes
  <2>2. reader[r].checks[k]
    BY <2>1 DEF Failed, EntriesFor
  <2>3. k \in 1 .. Len(reader[r].checks)
    BY <1>1, <1>2, EntryShape
  <2>4. reader[r].start <= since[c][k]
    BY <1>1, <2>2, <2>3 DEF CacheInv, PassedWasClear
  <2>5. since[c][k] \in Nat
    BY <1>2 DEF CacheInv, TypeOK
  <2> QED
    BY <1>2, <2>4, <2>5
<1> HIDE DEF c, f, g, l, q, a
<1>9. TypeOK'
  BY <1>1, <1>2, <1>4, <1>5, <1>6 DEF CacheInv, TypeOK, RegTypeOK, Row, Read, Reply
<1>10. CachedIsWellFormed'
  BY <1>1, <1>2, <1>4 DEF CacheInv, TypeOK, CachedIsWellFormed, WellFormed
<1>11. /\ \A s \in Readers : reader'[s].pc = "check" => s # r /\ reader'[s] = reader[s]
       /\ \A d \in Creds : row'[d].cached = row[d].cached
  BY <1>1, <1>2, <1>4, <1>6 DEF CacheInv, TypeOK
<1>12. ReadsAreInFlight'
  BY <1>1, <1>11 DEF CacheInv, ReadsAreInFlight
<1>13. MarkedIsFound' /\ PassedWasClear'
  BY <1>1, <1>11 DEF CacheInv, MarkedIsFound, PassedWasClear, BitSet
<1>14. ClearWasChecked'
  <2> SUFFICES ASSUME NEW d \in Creds, checkedBy'[d] = "check"
               PROVE /\ row'[d].verified \in Nat
                     /\ ~row'[d].revoked /\ ~row'[d].suspended =>
                          \A k \in DOMAIN Entries[d] :
                            BitSet(Entries[d][k]) => row'[d].verified <= since[d][k] + MaxFlight
    BY <1>1 DEF ClearWasChecked, BitSet
  <2>1. CASE d # c
    BY <1>1, <2>1 DEF CacheInv, TypeOK, ClearWasChecked
  <2>2. CASE d = c
    <3>1. row'[c] = q
      BY <1>1, <1>2 DEF CacheInv, TypeOK
    <3>2. ~q.revoked /\ ~q.suspended => ~f /\ ~g
      BY <1>3, <1>4
    <3> QED
      BY <1>2, <1>4, <1>8, <2>2, <3>1, <3>2
  <2> QED
    BY <2>1, <2>2
<1>15. UpstreamReadReportsRevocation'
  BY <1>1, <1>5, <1>7 DEF UpstreamReadReportsRevocation
<1>16. CheckedRowIsFresh'
  <2> SUFFICES ASSUME ~f, ~g
               PROVE ~\E k \in DOMAIN Entries[c] :
                        BitSet(Entries[c][k]) /\ now > since[c][k] + RecheckAge + MaxFlight
    BY <1>1, <1>5 DEF CheckedRowIsFresh, LongBlocked, BitSet
  <2>1. \A k \in DOMAIN Entries[c] :
          BitSet(Entries[c][k]) => ~(now > since[c][k] + RecheckAge + MaxFlight)
    BY <1>2, <1>8
  <2> QED
    BY <2>1
<1> QED
  BY <1>9, <1>10, <1>12, <1>13, <1>14, <1>15, <1>16 DEF CacheInv

\* Every step preserves the invariant.
LEMMA CacheStep == CacheInv /\ [Next]_vars => CacheInv'
<1> SUFFICES ASSUME CacheInv, [Next]_vars PROVE CacheInv'
  OBVIOUS
<1> USE TimeAssumption
<1>1. ASSUME NEW r \in Readers, NEW c \in Creds, NEW force \in BOOLEAN, ReadStart(r, c, force)
      PROVE CacheInv'
  <2> DEFINE q == [pc |-> "check", cred |-> c, suspended |-> row[c].suspended,
                   checks |-> <<>>, start |-> now, marked |-> UpstreamRevoked(c)]
  <2>1. /\ reader' = [reader EXCEPT ![r] = q] /\ reply' = NoReply /\ row[c].cached
        /\ UNCHANGED <<purpose, served, row, now, since, checkedBy>>
    BY <1>1 DEF ReadStart
  <2>2. /\ q \in Read /\ q.pc = "check" /\ q.cred = c /\ q.checks = <<>> /\ q.start = now
        /\ q.marked => UpstreamRevoked(c)
    <3>1. UpstreamRevoked(c) \in BOOLEAN /\ row[c].suspended \in BOOLEAN /\ now \in Nat
      BY DEF UpstreamRevoked, CacheInv, TypeOK
    <3> QED
      BY <3>1 DEF Read
  <2> HIDE DEF q
  <2>3. Len(q.checks) = 0 /\ Len(Entries[c]) \in Nat /\ now \in Nat
    BY <2>2, EntryShape DEF CacheInv, TypeOK
  <2>4. q.marked => \E k \in EntriesFor(c, "revocation") :
                      BitSet(Entries[c][k]) /\ (k <= Len(q.checks) => ~q.checks[k])
    BY <2>2, <2>3, EntryShape DEF UpstreamRevoked, EntriesFor
  <2>5. /\ Len(q.checks) <= Len(Entries[q.cred]) /\ 1 .. Len(q.checks) = {}
        /\ q.start <= now /\ now <= q.start + MaxFlight
    BY <2>2, <2>3
  <2> QED
    BY <2>1, <2>2, <2>4, <2>5, ReaderStep
<1>2. ASSUME NEW r \in Readers, NEW error \in BOOLEAN, CheckEntry(r, error)
      PROVE CacheInv'
  <2> DEFINE c == reader[r].cred
             k == Len(reader[r].checks) + 1
             v == ValidForPurpose(Entries[c][k], error)
             q == [reader[r] EXCEPT !.checks = Append(@, v)]
  <2>1. /\ reader[r].pc = "check" /\ k <= Len(Entries[c])
        /\ reader' = [reader EXCEPT ![r] = q] /\ reply' = NoReply
        /\ UNCHANGED <<purpose, served, row, now, since, checkedBy>>
    BY <1>2 DEF CheckEntry, CacheInv, TypeOK
  <2>2. /\ reader[r] \in Read /\ c \in Creds /\ row[c].cached
        /\ reader[r].start <= now /\ now <= reader[r].start + MaxFlight
    BY <2>1 DEF CacheInv, ReadsAreInFlight, TypeOK, Read
  <2>3. v \in BOOLEAN /\ (v => ~BitSet(Entries[c][k]))
    BY DEF ValidForPurpose
  <2>4. reader[r].checks \in Seq(BOOLEAN)
    BY <2>2 DEF Read
  <2>5. /\ Append(reader[r].checks, v) \in Seq(BOOLEAN)
        /\ Len(Append(reader[r].checks, v)) = k
        /\ Append(reader[r].checks, v)[k] = v
        /\ \A i \in 1 .. Len(reader[r].checks) :
             Append(reader[r].checks, v)[i] = reader[r].checks[i]
    BY <2>3, <2>4
  <2>6. /\ q \in Read /\ q.pc = "check" /\ q.cred = c /\ q.checks = Append(reader[r].checks, v)
        /\ q.start = reader[r].start /\ q.marked = reader[r].marked
    BY <2>1, <2>2, <2>5 DEF Read
  <2>7. Len(reader[r].checks) \in Nat
    BY <2>4
  <2>8. reader[r].marked =>
          \E i \in EntriesFor(c, "revocation") :
            BitSet(Entries[c][i]) /\ (i <= Len(reader[r].checks) => ~reader[r].checks[i])
    BY <2>1 DEF CacheInv, MarkedIsFound
  <2>9. \A i \in 1 .. Len(reader[r].checks) :
          reader[r].checks[i] /\ BitSet(Entries[c][i]) => reader[r].start <= since[c][i]
    BY <2>1 DEF CacheInv, PassedWasClear
  <2>10. \A i \in EntriesFor(c, "revocation") : i \in Nat /\ i >= 1
    BY <2>2, EntryShape DEF EntriesFor
  <2>11. k = Len(reader[r].checks) + 1
    OBVIOUS
  <2> HIDE DEF c, k, v, q
  <2>12. q.marked => \E i \in EntriesFor(c, "revocation") :
                       BitSet(Entries[c][i]) /\ (i <= Len(q.checks) => ~q.checks[i])
    <3> SUFFICES ASSUME q.marked,
                        NEW i \in EntriesFor(c, "revocation"), BitSet(Entries[c][i]),
                        i <= Len(reader[r].checks) => ~reader[r].checks[i]
                 PROVE i <= Len(q.checks) => ~q.checks[i]
      BY <2>6, <2>8
    <3>1. CASE i <= Len(reader[r].checks)
      BY <2>5, <2>6, <2>7, <2>10, <3>1
    <3>2. CASE i = k
      BY <2>3, <2>5, <2>6, <3>2
    <3> QED
      BY <2>5, <2>6, <2>7, <2>10, <2>11, <3>1, <3>2
  <2>13. \A i \in 1 .. Len(q.checks) :
           q.checks[i] /\ BitSet(Entries[c][i]) => q.start <= since[c][i]
    <3> SUFFICES ASSUME NEW i \in 1 .. Len(q.checks), q.checks[i], BitSet(Entries[c][i])
                 PROVE q.start <= since[c][i]
      OBVIOUS
    <3>1. i # k
      BY <2>3, <2>5, <2>6
    <3>2. i \in 1 .. Len(reader[r].checks)
      BY <2>5, <2>6, <2>7, <2>11, <3>1
    <3> QED
      BY <2>5, <2>6, <2>9, <3>2
  <2> QED
    BY <2>1, <2>2, <2>5, <2>6, <2>12, <2>13, ReaderStep
<1>3. ASSUME NEW r \in Readers, Abort(r)
      PROVE CacheInv'
  <2>1. IdleReader \in Read /\ IdleReader.pc = "idle"
    BY DEF IdleReader, Read
  <2>2. /\ reader' = [reader EXCEPT ![r] = IdleReader] /\ reply' = NoReply
        /\ UNCHANGED <<purpose, served, row, now, since, checkedBy>>
    BY <1>3 DEF Abort
  <2> QED
    BY <2>1, <2>2, ReaderStep
<1>4. CASE UNCHANGED vars
  <2>1. TypeOK'
    BY <1>4 DEF vars, CacheInv, TypeOK, RegTypeOK
  <2>2. /\ CachedIsWellFormed' /\ ReadsAreInFlight' /\ MarkedIsFound' /\ PassedWasClear'
        /\ ClearWasChecked' /\ UpstreamReadReportsRevocation' /\ CheckedRowIsFresh'
    BY <1>4 DEF vars, CacheInv, CachedIsWellFormed, WellFormed, ReadsAreInFlight, MarkedIsFound,
                PassedWasClear, ClearWasChecked, UpstreamReadReportsRevocation,
                CheckedRowIsFresh, LongBlocked, BitSet
  <2> QED
    BY <2>1, <2>2 DEF CacheInv
<1> QED
  BY <1>1, <1>2, <1>3, <1>4, IssuerStep, TickStep, StoreStep, CachedReadStep, WriteBackStep
  DEF Next

\* The invariant of the cache holds in every reachable state.
LEMMA CacheInvariant == Spec => []CacheInv
BY CacheInit, CacheStep, PTL DEF Spec

\* Type correctness of the rows, the reads and the answers.
THEOREM TypeCorrect == Spec => []TypeOK
BY CacheInvariant, PTL DEF CacheInv

\* A read that looks upstream reports every revocation served before it began,
\* with any number of lists, reads and publications in between.
THEOREM UpstreamReadsReport == Spec => []UpstreamReadReportsRevocation
BY CacheInvariant, PTL DEF CacheInv

\* A row left by a status check answers "valid" no longer than the re-check age
\* and one flight after a revocation or suspension.
THEOREM CheckedRowsAreFresh == Spec => []CheckedRowIsFresh
BY CacheInvariant, PTL DEF CacheInv

\* No step clears revoked_at: neither a write back from an older snapshot nor
\* caching the credential again.
THEOREM RevocationSticks == Spec => RevokedSticky
<1> DEFINE Kept == \A c \in Creds : row[c].revoked => row'[c].revoked
<1>1. ASSUME CacheInv, [Next]_vars PROVE [Kept]_vars
  <2>1. ASSUME NEW c \in Creds, CacheAttestation(c) \/ StoreAttestation(c)
        PROVE Kept
    BY <1>1, <2>1, StoredRow DEF CacheInv, TypeOK
  <2>2. ASSUME NEW r \in Readers, WriteBack(r)
        PROVE Kept
    <3> DEFINE c == reader[r].cred
    <3>1. c \in Creds /\ row' = [row EXCEPT ![c] = UpdatedRow(r, c)]
      BY <1>1, <2>2 DEF WriteBack, CacheInv, ReadsAreInFlight
    <3>2. row[c].revoked => UpdatedRow(r, c).revoked
      BY <1>1, <3>1, UpdatedRowShape
    <3> HIDE DEF c
    <3> QED
      BY <1>1, <3>1, <3>2 DEF CacheInv, TypeOK
  <2>3. ASSUME UNCHANGED row PROVE Kept
    BY <2>3
  <2> QED
    BY <1>1, <2>1, <2>2, <2>3 DEF Next, Issuer, Tick, ReadCached, ReadStart, CheckEntry, Abort,
                                  vars
<1> QED
  BY <1>1, CacheInvariant, PTL DEF Spec, RevokedSticky
=============================================================================
