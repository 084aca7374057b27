-------------------------- MODULE CredentialCache ---------------------------
(***************************************************************************)
(* The cache of third-party credentials (partner_attestations and          *)
(* delegation_credentials) and its status re-check on read:                *)
(* api/cache_invalidation.py over api/status_checker.py, with the two      *)
(* endpoints that write rows, on top of the registry of status lists.      *)
(*                                                                         *)
(* A reader is one request.  It takes a snapshot of the row, reads each    *)
(* status list of the credential at a moment of its own, then writes the   *)
(* row and answers; readers, writers and issuers interleave in between.    *)
(* Timestamps are clock ticks; revoked_at and suspended_at are kept as     *)
(* whether they are set.                                                   *)
(***************************************************************************)
EXTENDS StatusRegistry, Sequences

CONSTANTS Creds,        \* credential identifiers
          Readers,      \* concurrent requests
          Entries,      \* Entries[c]: credentialStatus of c, a sequence of
                        \* [purpose, list, index]
          NoCred,       \* the credential of an idle reader
          Never,        \* last_verified_at IS NULL
          RecheckAge,   \* RECHECK_THRESHOLD_HOURS
          MaxFlight,    \* bound: how long a request can take
          MaxTime       \* bound: the end of the modelled time

ASSUME TimeAssumption ==
  /\ RecheckAge \in Nat /\ MaxFlight \in Nat /\ MaxTime \in Nat
  /\ Never \notin Nat /\ NoCred \notin Creds

\* Every schema that has a credentialStatus enumerates the two purposes.
ASSUME EntriesAssumption ==
  Entries \in [Creds -> Seq([purpose: Purposes, list: Lists, index: Index])]

VARIABLES row,          \* the cache table, by credential
          reader,       \* each request's progress
          reply,        \* the CacheStatusResult the last step returned, if it did
          now,          \* the clock
          since,        \* since[c][k]: when the bit of entry k of c was last set
          checkedBy     \* what wrote last_verified_at of each row last

vars == <<purpose, served, row, reader, reply, now, since, checkedBy>>

NoRow == [cached |-> FALSE, revoked |-> FALSE, suspended |-> FALSE, verified |-> Never]
IdleReader == [pc |-> "idle", cred |-> NoCred, suspended |-> FALSE,
               checks |-> <<>>, start |-> 0, marked |-> FALSE]
NoReply == [cred |-> NoCred, valid |-> FALSE, revoked |-> FALSE, suspended |-> FALSE,
            upstream |-> FALSE, marked |-> FALSE, by |-> "none"]

BitSet(e) == e.index \in served[e.list].bits
EntriesFor(c, p) == {k \in DOMAIN Entries[c] : Entries[c][k].purpose = p}
UpstreamRevoked(c) == \E k \in EntriesFor(c, "revocation") : BitSet(Entries[c][k])

\* An issuer puts a list of the right purpose into a credentialStatus entry.
WellFormed(c) == \A k \in DOMAIN Entries[c] : purpose[Entries[c][k].list] = Entries[c][k].purpose

Init ==
  /\ RegInit
  /\ row = [c \in Creds |-> NoRow]
  /\ reader = [r \in Readers |-> IdleReader]
  /\ reply = NoReply
  /\ now = 0
  /\ since = [c \in Creds |-> [k \in DOMAIN Entries[c] |-> 0]]
  /\ checkedBy = [c \in Creds |-> "none"]

-----------------------------------------------------------------------------
\* An issuer creates or publishes a status list.
Issuer ==
  /\ RegNext
  /\ since' = [c \in Creds |-> [k \in DOMAIN Entries[c] |->
                 IF BitSet(Entries[c][k])' /\ ~BitSet(Entries[c][k]) THEN now ELSE since[c][k]]]
  /\ reply' = NoReply
  /\ UNCHANGED <<row, reader, now, checkedBy>>

\* Time passes, but no request takes longer than MaxFlight.
Tick ==
  /\ now < MaxTime
  /\ \A r \in Readers : reader[r].pc # "idle" => now < reader[r].start + MaxFlight
  /\ now' = now + 1
  /\ reply' = NoReply
  /\ UNCHANGED <<purpose, served, row, reader, since, checkedBy>>

\* Mutant of CacheAttestation: the upsert replaces the whole row.
CacheAttestationReplace(c) ==
  /\ WellFormed(c)
  /\ row' = [row EXCEPT ![c] = [NoRow EXCEPT !.cached = TRUE, !.verified = now]]
  /\ checkedBy' = [checkedBy EXCEPT ![c] = "cache"]
  /\ reply' = NoReply
  /\ UNCHANGED <<purpose, served, reader, now, since>>

\* POST /api/v1/attestations/cache: the signature is verified, the status is
\* not, and last_verified_at = NOW() on insert and on conflict.
CacheAttestation(c) ==
  /\ WellFormed(c)
  /\ row' = [row EXCEPT ![c].cached = TRUE, ![c].verified = now]
  /\ checkedBy' = [checkedBy EXCEPT ![c] = "cache"]
  /\ reply' = NoReply
  /\ UNCHANGED <<purpose, served, reader, now, since>>

\* POST /api/v1/attestations/store: last_verified_at is left alone.
StoreAttestation(c) ==
  /\ WellFormed(c)
  /\ row' = [row EXCEPT ![c].cached = TRUE]
  /\ reply' = NoReply
  /\ UNCHANGED <<purpose, served, reader, now, since, checkedBy>>

\* Mutant: the re-check is due one tick late.
NeedsRecheckLate(verified) == verified # Never => now > verified + RecheckAge + 1

\* _needs_recheck: never verified, or verified more than the threshold ago.
NeedsRecheck(verified) == verified # Never => now > verified + RecheckAge

\* check_cached_credential, the returns that do not look upstream: a row that is
\* revoked, or whose last verification is recent enough.
ReadCached(r, c, force) ==
  /\ reader[r].pc = "idle"
  /\ row[c].cached
  /\ row[c].revoked \/ ~(force \/ NeedsRecheck(row[c].verified))
  /\ reply' =
       [cred |-> c, valid |-> ~row[c].revoked /\ ~row[c].suspended,
        revoked |-> row[c].revoked, suspended |-> ~row[c].revoked /\ row[c].suspended,
        upstream |-> FALSE, marked |-> UpstreamRevoked(c), by |-> checkedBy[c]]
  /\ UNCHANGED <<purpose, served, row, reader, now, since, checkedBy>>

\* The same, up to the first fetch: what the rest uses of the row is the
\* snapshot taken here.
ReadStart(r, c, force) ==
  /\ reader[r].pc = "idle"
  /\ row[c].cached
  /\ ~row[c].revoked
  /\ force \/ NeedsRecheck(row[c].verified)
  /\ reader' = [reader EXCEPT ![r] =
       [pc |-> "check", cred |-> c, suspended |-> row[c].suspended,
        checks |-> <<>>, start |-> now, marked |-> UpstreamRevoked(c)]]
  /\ reply' = NoReply
  /\ UNCHANGED <<purpose, served, row, now, since, checkedBy>>

\* Mutant: a list that cannot be fetched does not count against the credential.
ValidForPurposeLenient(e, error) == error \/ ~served[e.list].published \/ ~BitSet(e)

\* _check_single_entry: anything but a published list with a readable clear bit
\* is not valid for its purpose.
ValidForPurpose(e, error) == ~error /\ served[e.list].published /\ ~BitSet(e)

\* One iteration of check_credential_status.  error stands for a failing fetch,
\* signature, decoding or index.
CheckEntry(r, error) ==
  LET k == Len(reader[r].checks) + 1 IN
  /\ reader[r].pc = "check"
  /\ k <= Len(Entries[reader[r].cred])
  /\ reader' = [reader EXCEPT ![r].checks =
                  Append(@, ValidForPurpose(Entries[reader[r].cred][k], error))]
  /\ reply' = NoReply
  /\ UNCHANGED <<purpose, served, row, now, since, checkedBy>>

Failed(r, p) == \E k \in EntriesFor(reader[r].cred, p) : ~reader[r].checks[k]
Lifted(r) == reader[r].suspended
             /\ \E k \in EntriesFor(reader[r].cred, "suspension") : reader[r].checks[k]

\* _update_cache: one UPDATE of the columns of the first case that applies.
UpdatedRow(r, c) ==
  LET checked == [row[c] EXCEPT !.verified = now]
  IN IF Failed(r, "revocation") THEN [checked EXCEPT !.revoked = TRUE]
     ELSE IF Failed(r, "suspension") THEN [checked EXCEPT !.suspended = TRUE]
     ELSE IF Lifted(r) THEN [checked EXCEPT !.suspended = FALSE]
     ELSE checked

\* The rest of check_cached_credential: write the row, commit and answer.
WriteBack(r) ==
  LET c == reader[r].cred
      revoked == Failed(r, "revocation")
      suspended == Failed(r, "suspension")
  IN /\ reader[r].pc = "check"
     /\ Len(reader[r].checks) = Len(Entries[c])
     /\ row' = [row EXCEPT ![c] = UpdatedRow(r, c)]
     /\ checkedBy' = [checkedBy EXCEPT ![c] = "check"]
     /\ reply' =
          [cred |-> c,
           valid |-> (~revoked /\ ~suspended) \/ (Lifted(r) /\ ~suspended),
           revoked |-> revoked, suspended |-> suspended, upstream |-> TRUE,
           marked |-> reader[r].marked, by |-> "check"]
     /\ reader' = [reader EXCEPT ![r] = IdleReader]
     /\ UNCHANGED <<purpose, served, now, since>>

\* The request dies, or its UPDATE fails and is rolled back.
Abort(r) ==
  /\ reader[r].pc = "check"
  /\ reader' = [reader EXCEPT ![r] = IdleReader]
  /\ reply' = NoReply
  /\ UNCHANGED <<purpose, served, row, now, since, checkedBy>>

Next ==
  \/ Issuer
  \/ Tick
  \/ \E c \in Creds : CacheAttestation(c) \/ StoreAttestation(c)
  \/ \E r \in Readers :
       \/ \E c \in Creds, force \in BOOLEAN : ReadCached(r, c, force) \/ ReadStart(r, c, force)
       \/ \E error \in BOOLEAN : CheckEntry(r, error)
       \/ WriteBack(r)
       \/ Abort(r)

Spec == Init /\ [][Next]_vars

-----------------------------------------------------------------------------
TypeOK ==
  /\ RegTypeOK
  /\ row \in [Creds -> [cached: BOOLEAN, revoked: BOOLEAN, suspended: BOOLEAN,
                        verified: 0 .. now \cup {Never}]]
  /\ reader \in [Readers -> [pc: {"idle", "check"}, cred: Creds \cup {NoCred},
                             suspended: BOOLEAN, checks: Seq(BOOLEAN), start: Nat,
                             marked: BOOLEAN]]
  /\ reply \in [cred: Creds \cup {NoCred}, valid: BOOLEAN, revoked: BOOLEAN,
                suspended: BOOLEAN, upstream: BOOLEAN,
                marked: BOOLEAN, by: {"none", "check", "cache"}]
  /\ now \in Nat
  /\ \A c \in Creds : since[c] \in [DOMAIN Entries[c] -> Nat]
  /\ checkedBy \in [Creds -> {"none", "check", "cache"}]

\* "revoked_at is set once and never cleared": neither a request that holds an
\* older snapshot of the row nor caching the credential again clears it.
RevokedSticky == [][\A c \in Creds : row[c].revoked => row'[c].revoked]_vars

\* A read that looks upstream reports a revocation that was served before the
\* read began, however its fetches interleave with publications and other reads.
UpstreamReadReportsRevocation == reply.upstream /\ reply.marked => reply.revoked

\* Some bit of the credential has been set for longer than the re-check age plus
\* the time a request can take.
LongBlocked(c) ==
  \E k \in DOMAIN Entries[c] :
    BitSet(Entries[c][k]) /\ now > since[c][k] + RecheckAge + MaxFlight

\* A row whose last_verified_at comes from a status check answers "valid" for at
\* most the re-check age (plus the time that check was in flight) after the
\* credential was revoked or suspended.
CheckedRowIsFresh ==
  reply.valid /\ ~reply.revoked /\ reply.by = "check" => ~LongBlocked(reply.cred)

=============================================================================
