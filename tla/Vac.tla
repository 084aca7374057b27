-------------------------------- MODULE Vac ---------------------------------
(***************************************************************************)
(* Verified agent credentials: api/vac_generator.py, vp_reconstructor.py,  *)
(* vc_verifier.py and the /vac, /vp and attestation endpoints of the API   *)
(* server.  A VC is issued with an expiry and stored with its presentation *)
(* in vac_credentials; an agent may submit a presentation of any VC that   *)
(* the server signed, a Delegation VC without an expiry too; a credential  *)
(* is revoked in vac_credentials and in vac_revocation_registry.  A GET    *)
(* decides on one SELECT and then generates, or reads again.               *)
(*                                                                         *)
(* Two migrations redefine tables that this code writes: 003 leaves        *)
(* partner_attestations without the columns _load_partner_attestations     *)
(* reads, 006 leaves vac_revocation_registry without those revoke_vac      *)
(* writes.  schema is the last migration of the database.                  *)
(***************************************************************************)
EXTENDS Delegations

CONSTANTS VacIds,       \* the VCs that generate_vac may issue
          Reads,        \* calls of the endpoints that read and may generate
          Schemas,      \* schema versions that a database may have
          VacAge,       \* VAC_MAX_AGE_DAYS, in ticks
          RefreshAge,   \* VAC_REFRESH_HOURS, in ticks
          MaxNow        \* bound: the clock

ASSUME VacAssumption == VacAge \in Nat /\ RefreshAge \in Nat /\ MaxNow \in Nat

NoVac  == [none |-> "vac"]
NoCred == [none |-> "credential"]
Creds  == VacIds \cup Approvals

VARIABLES schema,
          now,
          vcs,      \* the activity VCs that were issued: id -> [agent, expires]
          creds,    \* vac_credentials: credential_id -> row
          listed,   \* vac_revocation_registry
          reads     \* the calls under way

vvars == <<schema, now, vcs, creds, listed, reads>>

VacInit ==
  /\ schema \in Schemas
  /\ now = 0
  /\ vcs = [i \in VacIds |-> NoVac]
  /\ creds = [c \in Creds |-> NoCred]
  /\ listed = {}
  /\ reads = [g \in Reads |-> [at |-> "new"]]

\* The clock moves while a request that reads it is to come or under way.
Tick ==
  /\ now < MaxNow
  /\ left["vac"] > 0 \/ \E g \in Reads : reads[g].at \in {"generate", "fetch"}
  /\ now' = now + 1
  /\ UNCHANGED <<schema, vcs, creds, listed, reads, left, dvars>>

-----------------------------------------------------------------------------
Stored == {c \in Creds : creds[c] # NoCred}
Unrevoked(a) == {c \in Stored : creds[c].agent = a /\ ~creds[c].revoked}

\* Mutant: revoked rows are read too.
ActiveOrRevoked(a) == {c \in Stored : creds[c].agent = a /\ creds[c].expires > now}

\* The condition of get_vac, get_cached_vp and issue_attestation.
Active(a) == {c \in Unrevoked(a) : creds[c].expires > now}

\* ORDER BY issued_at DESC LIMIT 1; rows of one tick are in either order.
Newest(S) == {c \in S : \A d \in S : creds[d].issued <= creds[c].issued}

\* issue_vc: an activity VC of this agent, signed by the server.
IssueVc(i, a) == vcs' = [vcs EXCEPT ![i] = [agent |-> a, expires |-> now + VacAge]]

\* _store_vp: expires_at is the VC's expirationDate.
StoreVp(i, a) ==
  creds' = [creds EXCEPT ![i] =
    [agent |-> a, issued |-> now, expires |-> now + VacAge, revoked |-> FALSE]]

\* _load_partner_attestations needs the columns that migration 003 takes away.
LoadPartnerAttestations == schema < 3

\* generate_vac: the claims, the VC, the VP, the row; an exception leaves no row.
GenerateVac(i, a, extensions) ==
  /\ vcs[i] = NoVac
  /\ extensions => LoadPartnerAttestations
  /\ IssueVc(i, a)
  /\ StoreVp(i, a)
  /\ UNCHANGED <<schema, now, listed>>

-----------------------------------------------------------------------------
RefreshVacCredential(i, a) == Ask("vac") /\ GenerateVac(i, a, TRUE) /\ UNCHANGED <<reads, dvars>>

\* present_vp: the same, with the presentation signed by the holder's key.
PresentVp(i, a) == Ask("vac") /\ GenerateVac(i, a, TRUE) /\ UNCHANGED <<reads, dvars>>

\* refresh_all_vacs, for one of the agents it selects.
RefreshAllVacs(i, a) ==
  /\ Ask("vac")
  /\ ~\E c \in Unrevoked(a) : creds[c].issued > now - RefreshAge
  /\ GenerateVac(i, a, TRUE)
  /\ UNCHANGED <<reads, dvars>>

\* A call starts: what it does next, and what was revoked by then.
StartRead(g, at, a, extensions) ==
  /\ Ask("vac")
  /\ reads[g].at = "new"
  /\ reads' = [reads EXCEPT ![g] =
       [at |-> at, agent |-> a, extensions |-> extensions, before |-> listed]]
  /\ UNCHANGED <<schema, now, vcs, creds, listed, dvars>>

\* get_vac_credential: the newest unrevoked row decides, if there is one, by its
\* expiry.
GetVacCredential(g, a, extensions) ==
  LET newest == Newest(Unrevoked(a))
  IN  \/ /\ newest = {} \/ \E c \in newest : creds[c].expires < now
         /\ StartRead(g, "generate", a, extensions)
      \/ /\ \E c \in newest : creds[c].expires >= now
         /\ StartRead(g, "fetch", a, extensions)

\* get_vac_credential_full: the same for a session with the viewer role; the
\* answer carries more of the agent's record.
GetVacCredentialFull(g, a, extensions) == GetVacCredential(g, a, extensions)

\* reconstruct_vp: the cached presentation, or a fresh one.
ReconstructVp(g, a, force) ==
  StartRead(g, IF ~force /\ Active(a) # {} THEN "fetch" ELSE "generate", a, TRUE)

\* issue_attestation without a credential_id, and issue_corpo_attestation: a VAC
\* is generated when none is active.  The signature is over a hash of the server's
\* own clock, so the call then fails, and its attestation is never stored.
IssueAttestation(g, a) ==
  /\ Active(a) = {}
  /\ StartRead(g, "generate", a, FALSE)

GenerateForRead(g, i) ==
  /\ reads[g].at = "generate"
  /\ GenerateVac(i, reads[g].agent, reads[g].extensions)
  /\ reads' = [reads EXCEPT ![g].at = "generated"]
  /\ UNCHANGED <<left, dvars>>

\* get_vac, the second SELECT: 404 when nothing is active any more.
GetVac(g) ==
  /\ reads[g].at = "fetch"
  /\ LET newest == Newest(Active(reads[g].agent))
         r      == reads[g]
     IN  \/ /\ newest = {}
            /\ reads' = [reads EXCEPT ![g].at = "not found"]
         \/ \E c \in newest :
              reads' = [reads EXCEPT ![g] =
                [at |-> "served", agent |-> r.agent, before |-> r.before, cred |-> c, when |-> now]]
  /\ UNCHANGED <<schema, now, vcs, creds, listed, left, dvars>>

-----------------------------------------------------------------------------
\* What the server signed: activity VCs, and Delegation VCs once the approval is
\* answered.  (Payment credentials, which expire after the clock's bound, behave
\* like activity VCs.)
Signed(c) == IF c \in VacIds THEN vcs[c] # NoVac ELSE c \in Granted

\* The VC's expirationDate; a Delegation VC has none.
HasExpiry(c) == c \in VacIds

\* verify_vc: the server's signature, and not yet past the expiry.
VerifyVc(c) == Signed(c) /\ (HasExpiry(c) => now <= vcs[c].expires)

\* Mutant: every submission is good for another seven days.
StoreSubmittedVpSevenDays(c, a) ==
  creds' = [creds EXCEPT ![c] =
    [agent   |-> IF creds[c] = NoCred THEN a ELSE creds[c].agent,
     issued  |-> now,
     expires |-> now + VacAge,
     revoked |-> creds[c] # NoCred /\ creds[c].revoked]]

\* store_submitted_vp: INSERT ... ON CONFLICT DO UPDATE of the document and the
\* two dates; the row keeps its agent and its revocation.
StoreSubmittedVp(c, a) ==
  creds' = [creds EXCEPT ![c] =
    [agent   |-> IF creds[c] = NoCred THEN a ELSE creds[c].agent,
     issued  |-> now,
     expires |-> IF HasExpiry(c) THEN vcs[c].expires ELSE now + VacAge,
     revoked |-> creds[c] # NoCred /\ creds[c].revoked]]

\* Mutant: a submission renews the credential and takes it off the registry.
SubmitVpRenews(c, a) ==
  /\ Ask("vac")
  /\ VerifyVc(c)
  /\ creds' = [creds EXCEPT ![c] =
       [agent |-> a, issued |-> now, revoked |-> FALSE,
        expires |-> IF HasExpiry(c) THEN vcs[c].expires ELSE now + VacAge]]
  /\ listed' = listed \ {c}
  /\ UNCHANGED <<schema, now, vcs, reads, dvars>>

\* submit_vp_endpoint: c is the presentation's first VC; the agent_id of the
\* request is compared with nothing.  A failing store is only reported.
SubmitVp(c, a) ==
  /\ Ask("vac")
  /\ VerifyVc(c)
  /\ StoreSubmittedVp(c, a)
  /\ UNCHANGED <<schema, now, vcs, listed, reads, dvars>>

\* revoke_vac: the row and the registry in one transaction, which rolls back where
\* migration 006 replaced the registry.
RevokeVac(c) ==
  /\ schema < 6
  /\ creds' = [creds EXCEPT ![c].revoked = TRUE]
  /\ listed' = listed \cup {c}

\* revoke_credential; consultation of the policy engine is PolicyGate's.
RevokeCredential(c) ==
  /\ Ask("vac")
  /\ c \in Stored
  /\ RevokeVac(c)
  /\ UNCHANGED <<schema, now, vcs, reads, dvars>>

VacNext ==
  \/ Tick
  \/ \E a \in Agents, i \in VacIds :
       RefreshVacCredential(i, a) \/ PresentVp(i, a) \/ RefreshAllVacs(i, a)
  \/ \E a \in Agents, g \in Reads :
       \/ \E flag \in BOOLEAN : \/ GetVacCredential(g, a, flag)
                               \/ GetVacCredentialFull(g, a, flag)
                               \/ ReconstructVp(g, a, flag)
       \/ IssueAttestation(g, a)
  \/ \E g \in Reads : GetVac(g) \/ \E i \in VacIds : GenerateForRead(g, i)
  \/ \E c \in Creds : RevokeCredential(c) \/ \E a \in Agents : SubmitVp(c, a)

-----------------------------------------------------------------------------
VacTypeOK ==
  /\ schema \in Schemas /\ now \in 0 .. MaxNow /\ listed \subseteq Creds
  /\ \A i \in VacIds : vcs[i] # NoVac => vcs[i].agent \in Agents /\ vcs[i].expires \in Nat
  /\ \A c \in Stored : creds[c].agent \in Agents /\ creds[c].revoked \in BOOLEAN
  /\ \A g \in Reads : reads[g].at \in {"new", "generate", "fetch", "generated", "served", "not found"}

\* "Revoked credentials are permanently invalidated": a revoked row is never
\* active again, whoever submits its presentation or refreshes the agent.
RevokedForGood ==
  [][\A c \in Stored : creds[c].revoked => creds'[c] # NoCred /\ creds'[c].revoked]_vvars

\* What the rows say is what was signed and listed: every row is of a VC that the
\* server issued and, when that VC expires, expires with it, however often a
\* presentation is submitted again, and is revoked exactly when the registry lists
\* it, also where a later migration replaced the registry's table.
RowsAreTrue ==
  \A c \in Stored :
    /\ Signed(c) /\ (HasExpiry(c) => creds[c].expires = vcs[c].expires)
    /\ creds[c].revoked <=> c \in listed

\* A presentation that is served was not revoked when the request came in, and
\* the VC in it has not expired, although the decision to serve and the read are
\* two transactions.
ServedIsLive ==
  \A g \in Reads : reads[g].at = "served" =>
    /\ reads[g].cred \notin reads[g].before
    /\ HasExpiry(reads[g].cred) => vcs[reads[g].cred].expires > reads[g].when

=============================================================================
