--------------------------- MODULE EnterpriseAuth ---------------------------
(***************************************************************************)
(* How a person gets an enterprise session: sign-in with a wallet          *)
(* (challenge, signature, invitation), the chain-aware onboarding and      *)
(* login, SAML single sign-on, and the platform administrator who creates  *)
(* organisations, invitations and IdP configurations.                      *)
(*                                                                         *)
(* Endpoints written as `async def` run on the event loop and never give   *)
(* it up once they touch the database, so they are one step each, except   *)
(* the SAML callback, which commits three times and can be cut off between *)
(* commits.  Endpoints written as `def` run on threads: /auth/verify reads *)
(* the challenge, takes the row's lock by marking it used, and commits.    *)
(* A handler that only refuses changes nothing and is no action.           *)
(*                                                                         *)
(* users, user_invitations and auth_sessions are created outside the       *)
(* repository; users.email is unique there.  No code deactivates a user or *)
(* revokes a membership, so those columns are left out; an invitation's    *)
(* role is never null, because the one INSERT writes 'admin'.              *)
(***************************************************************************)
EXTENDS Naturals, Sequences, FiniteSets

CONSTANTS
    Emails,         \* people, by e-mail address, which is their SAML NameID
    Orgs,           \* organisations
    Seeded,         \* the organisations that exist at the start, with a DNS domain
    Wallets,        \* wallet addresses
    Kind,           \* the wallet_type / chain_type a wallet is used with
    Nonces,         \* challenge nonces
    Invites,        \* invitation tokens
    SeedInvites,    \* the invitations that exist at the start
    Requests,       \* AuthnRequest ids
    Responses,      \* what identity providers may post to the callback
    Threads,        \* threads serving /auth/verify
    ChallengeTtl, RequestMaxAge, InviteTtl, SessionTtl, AdminTtl, ClockSkew,
    MaxTime, MaxSessions,   \* bounds
    MaxEvents       \* bound on administrator's requests and restarts together

ASSUME AuthAssumption ==
    /\ Seeded \subseteq Orgs
    /\ {ChallengeTtl, RequestMaxAge, InviteTtl, SessionTtl, AdminTtl,
        ClockSkew, MaxTime, MaxSessions, MaxEvents} \subseteq Nat

NoUser      == [none |-> "user"]
NoInvite    == [none |-> "invitation"]
NoChallenge == [none |-> "challenge"]
NoRequest   == [none |-> "request"]
NoWallet    == [none |-> "wallet"]
Unsent      == [none |-> "not generated yet"]
Spent       == [none |-> "consumed, expired or lost"]
Idle        == [at |-> "idle"]

VARIABLES
    users,      \* e-mail -> account; `by` is the invitation that created it
    members,    \* wallet_org_memberships rows
    invites,    \* token -> user_invitations row; accepted_at and used_at differ
    challenges, \* nonce -> auth_challenges row
    sessions,   \* auth_sessions in order of creation
    orgs,       \* the organisations that exist
    idp,        \* org_idp_config: organisation -> "none", "active", "inactive"
    pending,    \* saml_handler._pending_requests: in memory only
    verify,     \* thread -> its /auth/verify call
    callback,   \* the SAML callback in progress on the event loop
    admin,      \* when the platform administrator's session ends; 0: no session
    asked,      \* requests the administrator has made
    now, restarts

tables == <<users, members, invites, challenges, sessions, orgs, idp>>
vars == <<tables, pending, verify, callback, admin, asked, now, restarts>>

Roles == {"viewer", "auditor", "operator", "admin", "platform-admin"}

User == [org : Orgs, role : Roles, sso : BOOLEAN, by : Invites]
Member == [user : Emails, org : Orgs, wallet : Wallets, role : Roles,
           by : Invites \cup {NoInvite}]
Invite == [org : Orgs, email : Emails, role : Roles, expires : Nat,
           accepted : BOOLEAN, used : BOOLEAN]
Session == [user : Emails, org : Orgs, wallet : Wallets \cup {NoWallet},
            from : Nonces \cup Requests \cup {"direct"},
            saml : BOOLEAN, expires : Nat, revoked : BOOLEAN]

\* Nonces and AuthnRequest ids are drawn at random from large spaces; a response
\* names a request or none, and a person.
ASSUME NamesAssumption ==
    /\ NoInvite \notin Invites /\ NoRequest \notin Requests /\ NoWallet \notin Wallets
    /\ "direct" \notin Nonces \cup Requests /\ Nonces \cap Requests = {}
    /\ SeedInvites \in [Invites -> Invite \cup {NoInvite}]
    /\ \A p \in Responses : p.to \in Requests \cup {NoRequest} /\ p.subject \in Emails

TypeOK ==
    /\ users \in [Emails -> User \cup {NoUser}]
    /\ members \subseteq Member
    /\ \A a, b \in members : a.wallet = b.wallet /\ a.org = b.org => a = b
    /\ invites \in [Invites -> Invite \cup {NoInvite}]
    /\ challenges \in [Nonces -> {NoChallenge}
                         \cup [wallet : Wallets, expires : Nat, used : BOOLEAN]]
    /\ sessions \in Seq(Session) /\ Len(sessions) <= MaxSessions
    /\ \A i \in DOMAIN sessions : users[sessions[i].user] # NoUser
    /\ orgs \subseteq Orgs /\ Seeded \subseteq orgs
    /\ idp \in [Orgs -> {"none", "active", "inactive"}]
    /\ pending \in [Requests -> {Unsent, Spent}
                      \cup [created : Nat, org : Orgs,
                            invite : Invites \cup {NoInvite}]]
    /\ verify \in [Threads -> {Idle} \cup
                     [at : {"selected", "marked"}, nonce : Nonces,
                      invite : Invites \cup {NoInvite}]]
    /\ callback = Idle \/ callback \in
         [at : {"mark", "session"}, user : Emails, org : Orgs,
          invite : Invites \cup {NoInvite}, from : Requests \cup {"direct"}]
    /\ {admin, asked, now, restarts} \subseteq Nat

Init ==
    /\ users = [e \in Emails |-> NoUser]
    /\ members = {}
    /\ invites = SeedInvites
    /\ challenges = [n \in Nonces |-> NoChallenge]
    /\ sessions = <<>>
    /\ orgs = Seeded
    /\ idp = [o \in Orgs |-> IF o \in Seeded THEN "active" ELSE "none"]
    /\ pending = [r \in Requests |-> Unsent]
    /\ verify = [t \in Threads |-> Idle]
    /\ callback = Idle
    /\ admin = 0 /\ asked = 0 /\ now = 0 /\ restarts = 0

-----------------------------------------------------------------------------
(* Helpers shared by the handlers.                                         *)

\* Coroutines run only while no other coroutine holds the event loop.
LoopFree == callback = Idle

\* Sessions are bounded; a callback in progress has its place reserved.
Room == Len(sessions) + (IF LoopFree THEN 0 ELSE 1) < MaxSessions

NewSession(e, o, w, from, saml) ==
    Append(sessions, [user |-> e, org |-> o, wallet |-> w, from |-> from,
                      saml |-> saml, expires |-> now + SessionTtl,
                      revoked |-> FALSE])

\* validate_enterprise_session.
ValidateSession(s) == ~s.revoked /\ s.expires > now

RoleLevel == [r \in Roles |->
    CASE r \in {"viewer", "auditor"} -> 0
      [] r = "operator" -> 1
      [] r = "admin" -> 2
      [] r = "platform-admin" -> 3]

RequireRole(role, minimum) == RoleLevel[role] >= RoleLevel[minimum]

\* SELECT id FROM users WHERE email, else INSERT with the invitation's
\* organisation and role.
FindOrCreate(i) ==
    LET e == invites[i].email IN
    IF users[e] # NoUser THEN users
    ELSE [users EXCEPT ![e] = [org |-> invites[i].org, role |-> invites[i].role,
                               sso |-> FALSE, by |-> i]]

InsertMember(e, o, w, role, i) ==
    members \cup {[user |-> e, org |-> o, wallet |-> w, role |-> role, by |-> i]}

\* The UNIQUE key of wallet_org_memberships.  The handlers catch the violation,
\* but it has aborted their transaction: the next statement fails, and all of
\* the request is rolled back.
Unbound(w, o) == ~ \E m \in members : m.wallet = w /\ m.org = o

\* verify_signature: Solana, Lightning and WDK wallets are not implemented,
\* any other type is an error.  Whether the signature is right is the
\* environment's choice: a wrong one is a request that changes nothing.
ChainSupported(w) == Kind[w] \in {"evm", "tron"}

InvitationOpen(i) == invites[i] # NoInvite /\ invites[i].expires >= now

\* The platform administrator's token: not revoked, not expired.
AdminSession == admin > 0 /\ admin >= now

AdminAsks ==
    /\ AdminSession
    /\ asked + restarts < MaxEvents /\ asked' = asked + 1

-----------------------------------------------------------------------------
(* The platform administrator.                                             *)

AdminLogin ==
    /\ ~AdminSession
    /\ admin' = now + AdminTtl
    /\ UNCHANGED <<tables, pending, verify, callback, asked, now, restarts>>

\* The check "Organization slug already exists" compares the slug with the
\* column domain, into which the INSERT writes a random key: it never refuses,
\* and the new organisation has no domain a login could name.
CreateAdminOrg(o) ==
    /\ AdminAsks /\ o \notin orgs
    /\ orgs' = orgs \cup {o}
    /\ UNCHANGED <<users, members, invites, challenges, sessions, idp, pending,
                   verify, callback, admin, now, restarts>>

InviteAdminToOrg(i, o, e) ==
    /\ AdminAsks /\ o \in orgs /\ invites[i] = NoInvite
    /\ users[e] # NoUser => users[e].org # o
    /\ invites' = [invites EXCEPT ![i] =
          [org |-> o, email |-> e, role |-> "admin", expires |-> now + InviteTtl,
           accepted |-> FALSE, used |-> FALSE]]
    /\ UNCHANGED <<users, members, challenges, sessions, orgs, idp, pending,
                   verify, callback, admin, now, restarts>>

\* The stores: an upsert makes the row active again, a delete is soft.
CreateOrUpdateIdpConfig(o) == [idp EXCEPT ![o] = "active"]
DeleteIdpConfig(o) == [idp EXCEPT ![o] = "inactive"]

CreateIdpConfigEndpoint(o) ==
    /\ AdminAsks /\ LoopFree /\ o \in orgs
    /\ idp' = CreateOrUpdateIdpConfig(o)
    /\ UNCHANGED <<users, members, invites, challenges, sessions, orgs, pending,
                   verify, callback, admin, now, restarts>>

DeleteIdpConfigEndpoint(o) ==
    /\ AdminAsks /\ idp[o] = "active"
    /\ idp' = DeleteIdpConfig(o)
    /\ UNCHANGED <<users, members, invites, challenges, sessions, orgs, pending,
                   verify, callback, admin, now, restarts>>

-----------------------------------------------------------------------------
(* Sign-in with a wallet: /auth/challenge and /auth/verify, on threads.    *)

InsertChallenge(n, w) ==
    /\ challenges[n] = NoChallenge
    /\ challenges' = [challenges EXCEPT ![n] =
          [wallet |-> w, expires |-> now + ChallengeTtl, used |-> FALSE]]
    /\ UNCHANGED <<users, members, invites, sessions, orgs, idp, pending,
                   verify, callback, admin, asked, now, restarts>>

SiwwCreateChallenge(n, w) == InsertChallenge(n, w)

\* Step 1: the challenge is unused and in date.
VerifySelect(t, n, i) ==
    /\ verify[t] = Idle
    /\ challenges[n] # NoChallenge
    /\ ~challenges[n].used /\ challenges[n].expires >= now
    /\ verify' = [verify EXCEPT ![t] = [at |-> "selected", nonce |-> n, invite |-> i]]
    /\ UNCHANGED <<tables, pending, callback, admin, asked, now, restarts>>

\* Step 2: UPDATE ... SET used_at locks the row until the transaction ends; a
\* second request for the same nonce waits here, and then goes on.
VerifyMark(t) ==
    /\ verify[t].at = "selected"
    /\ \A u \in Threads : ~ /\ verify[u].at = "marked"
                            /\ verify[u].nonce = verify[t].nonce
    /\ verify' = [verify EXCEPT ![t].at = "marked"]
    /\ UNCHANGED <<tables, pending, callback, admin, asked, now, restarts>>

\* Step 3: only MetaMask and Alby signatures are checked.
SiwwSupported(w) == Kind[w] \in {"metamask", "alby"}

\* Step 5: the session and the used challenge are committed together.
VerifyCommit(t, e, o) ==
    LET n == verify[t].nonce IN
    /\ Room
    /\ challenges' = [challenges EXCEPT ![n].used = TRUE]
    /\ sessions' = NewSession(e, o, challenges[n].wallet, n, FALSE)
    /\ verify' = [verify EXCEPT ![t] = Idle]
    /\ UNCHANGED <<invites, orgs, idp, pending, callback, admin, asked, now, restarts>>

\* Step 4 with a magic link: neither accepted_at nor used_at is looked at.
VerifyOnboard(t) ==
    LET i == verify[t].invite
        w == challenges[verify[t].nonce].wallet IN
    /\ verify[t].at = "marked" /\ i # NoInvite
    /\ SiwwSupported(w) /\ InvitationOpen(i)
    /\ Unbound(w, invites[i].org)
    /\ users' = FindOrCreate(i)
    /\ members' = InsertMember(invites[i].email, invites[i].org, w, invites[i].role, i)
    /\ VerifyCommit(t, invites[i].email, invites[i].org)

\* Step 4 without one: the wallet must have exactly one membership.
VerifyReauth(t) ==
    LET w == challenges[verify[t].nonce].wallet
        mine == {m \in members : m.wallet = w} IN
    /\ verify[t].at = "marked" /\ verify[t].invite = NoInvite
    /\ SiwwSupported(w) /\ Cardinality(mine) = 1
    /\ \E m \in mine : VerifyCommit(t, m.user, m.org)
    /\ UNCHANGED <<users, members>>

VerifyRollbackKeepsMark(t) ==
    /\ verify[t].at = "marked"
    /\ verify' = [verify EXCEPT ![t] = Idle]
    /\ challenges' = [challenges EXCEPT ![verify[t].nonce].used = TRUE]
    /\ UNCHANGED <<users, members, invites, sessions, orgs, idp,
                   pending, callback, admin, asked, now, restarts>>

\* Every refusal after the mark, a wrong signature and a database error roll
\* the whole transaction back.
VerifyRollback(t) ==
    /\ verify[t].at = "marked"
    /\ verify' = [verify EXCEPT ![t] = Idle]
    /\ UNCHANGED <<tables, pending, callback, admin, asked, now, restarts>>

Logout(k) ==
    /\ k \in DOMAIN sessions /\ ~sessions[k].revoked
    /\ sessions' = [sessions EXCEPT ![k].revoked = TRUE]
    /\ UNCHANGED <<users, members, invites, challenges, orgs, idp, pending,
                   verify, callback, admin, asked, now, restarts>>

-----------------------------------------------------------------------------
(* The chain-aware endpoints, on the event loop.  Their nonces are stored   *)
(* like challenges, but no handler looks them up again.                     *)

AuthNonce(n, w) == LoopFree /\ InsertChallenge(n, w)

AcceptInvitationConflictIgnored(i, w) ==
    LET v == invites[i] IN
    /\ users' = FindOrCreate(i)
    /\ members' = IF Unbound(w, v.org)
                  THEN InsertMember(v.email, v.org, w, v.role, i) ELSE members
    /\ invites' = [invites EXCEPT ![i].accepted = TRUE]
    /\ sessions' = NewSession(v.email, v.org, w, "direct", FALSE)
    /\ UNCHANGED <<challenges, orgs, idp, pending, verify, callback, admin, asked,
                   now, restarts>>

\* What bind_wallet and onboard do once their checks have passed.
AcceptInvitation(i, w) ==
    LET v == invites[i] IN
    /\ Unbound(w, v.org)
    /\ users' = FindOrCreate(i)
    /\ members' = InsertMember(v.email, v.org, w, v.role, i)
    /\ invites' = [invites EXCEPT ![i].accepted = TRUE]
    /\ sessions' = NewSession(v.email, v.org, w, "direct", FALSE)
    /\ UNCHANGED <<challenges, orgs, idp, pending, verify, callback, admin, asked,
                   now, restarts>>

\* An accepted invitation is refused once its e-mail has a wallet in the
\* organisation.  The signature must be present; it is not verified.
BindWallet(i, w) ==
    /\ LoopFree /\ Room /\ InvitationOpen(i)
    /\ invites[i].accepted =>
         ~ \E m \in members : m.user = invites[i].email /\ m.org = invites[i].org
    /\ AcceptInvitation(i, w)

\* An accepted invitation is refused once its e-mail has a wallet of this
\* chain, in any organisation.
AuthOnboard(i, w) ==
    /\ LoopFree /\ Room /\ InvitationOpen(i)
    /\ invites[i].accepted =>
         ~ \E m \in members : m.user = invites[i].email /\ Kind[m.wallet] = Kind[w]
    /\ ChainSupported(w)
    /\ AcceptInvitation(i, w)

\* fetchone: any membership of the wallet.
AuthLogin(w) ==
    /\ LoopFree /\ Room /\ ChainSupported(w)
    /\ \E m \in members :
         /\ m.wallet = w
         /\ sessions' = NewSession(m.user, m.org, w, "direct", FALSE)
    /\ UNCHANGED <<users, members, invites, challenges, orgs, idp, pending,
                   verify, callback, admin, asked, now, restarts>>

\* The row is written with the account's own organisation and role.
AddWallet(k, w) ==
    /\ LoopFree /\ k \in DOMAIN sessions
    /\ LET e == sessions[k].user
           u == users[e]
           rows == {m \in members : m.wallet = w} IN
       /\ ValidateSession(sessions[k]) /\ RequireRole(u.role, "operator")
       /\ ChainSupported(w)
       /\ rows = {} \/ \E m \in rows : m.user = e
       /\ Unbound(w, u.org)
       /\ members' = InsertMember(e, u.org, w, u.role, NoInvite)
    /\ UNCHANGED <<users, invites, challenges, sessions, orgs, idp, pending,
                   verify, callback, admin, asked, now, restarts>>

-----------------------------------------------------------------------------
(* SAML single sign-on.                                                     *)

\* get_idp_config and get_idp_config_by_domain see active rows only.
GetIdpConfig(o) == idp[o] = "active"
GetIdpConfigByDomain(o) == o \in Seeded /\ idp[o] = "active"

ValidateInvitationToken(i) ==
    invites[i] # NoInvite /\ ~invites[i].used /\ invites[i].expires > now

IsPending(r) == pending[r] \notin {Unsent, Spent}
Expired(r) == IsPending(r) /\ now - pending[r].created > RequestMaxAge

\* _cleanup_expired_requests runs only when a request is generated.
GenerateAuthnRequest(r, o, i) ==
    pending' = [q \in Requests |->
        IF q = r THEN [created |-> now, org |-> o, invite |-> i]
        ELSE IF Expired(q) THEN Spent ELSE pending[q]]

SsoSamlLogin(r, o, i) ==
    /\ LoopFree /\ pending[r] = Unsent
    /\ \/ i # NoInvite /\ ValidateInvitationToken(i) /\ invites[i].org = o
          /\ GetIdpConfig(o)
       \/ i = NoInvite /\ GetIdpConfigByDomain(o)
    /\ GenerateAuthnRequest(r, o, i)
    /\ UNCHANGED <<tables, verify, callback, admin, asked, now, restarts>>

ConsumeKeeps(p) == pending

\* InResponseTo, when present, must be pending; looking it up removes it.
Consume(p) ==
    IF p.to = NoRequest THEN pending
    ELSE [pending EXCEPT ![p.to] = IF IsPending(p.to) THEN Spent ELSE @]

InResponseTo(p) == p.to # NoRequest => IsPending(p.to) /\ ~Expired(p.to)

CheckConditions(p) == now + ClockSkew >= p.notBefore /\ now < p.notOnOrAfter

\* The signature is checked against the certificate in o's configuration.
SignedByIdpOf(p, o) == p.signer = o

\* The response is posted to organisation o's callback.
VerifySamlResponse(p, o) ==
    /\ p.success /\ InResponseTo(p) /\ SignedByIdpOf(p, o)
    /\ CheckConditions(p) /\ p.audience = o

FindUserBySso(e, o) == users[e] # NoUser /\ users[e].sso /\ users[e].org = o

\* pending.invitation_token or RelayState.
InvitationOf(p, relay) ==
    IF p.to # NoRequest /\ pending[p.to].invite # NoInvite
    THEN pending[p.to].invite ELSE relay

CallbackFor(at, p, o, i) ==
    [at |-> at, user |-> p.subject, org |-> o, invite |-> i,
     from |-> IF p.to = NoRequest THEN "direct" ELSE p.to]

\* A returning user.
SsoReturning(p, o) ==
    /\ LoopFree /\ Room /\ GetIdpConfig(o) /\ VerifySamlResponse(p, o)
    /\ FindUserBySso(p.subject, o)
    /\ pending' = Consume(p)
    /\ callback' = CallbackFor("session", p, o, NoInvite)
    /\ UNCHANGED <<tables, verify, admin, asked, now, restarts>>

CreateSsoUserDefaultRole(p, o, i) ==
    [users EXCEPT ![p.subject] =
        [org |-> o, role |-> "viewer", sso |-> TRUE, by |-> i]]

\* A first login: the account is committed first.  An e-mail that already has
\* an account is a unique violation, and the request fails (SsoRefused).
CreateSsoUser(p, o, i) ==
    [users EXCEPT ![p.subject] =
        [org |-> o, role |-> invites[i].role, sso |-> TRUE, by |-> i]]

SsoFirstLogin(p, o, relay) ==
    LET i == InvitationOf(p, relay) IN
    /\ LoopFree /\ Room /\ GetIdpConfig(o) /\ VerifySamlResponse(p, o)
    /\ ~FindUserBySso(p.subject, o)
    /\ i # NoInvite /\ ValidateInvitationToken(i) /\ invites[i].org = o
    /\ users[p.subject] = NoUser
    /\ users' = CreateSsoUser(p, o, i)
    /\ pending' = Consume(p)
    /\ callback' = CallbackFor("mark", p, o, i)
    /\ UNCHANGED <<members, invites, challenges, sessions, orgs, idp, verify,
                   admin, asked, now, restarts>>

\* Any other outcome after InResponseTo was looked up: a wrong signature,
\* audience or date, no invitation, a database error.  The AuthnRequest is spent
\* all the same; an error status is refused before.
SsoRefused(p, o) ==
    /\ LoopFree /\ GetIdpConfig(o) /\ p.success /\ p.to # NoRequest /\ IsPending(p.to)
    /\ pending' = Consume(p)
    /\ UNCHANGED <<tables, verify, callback, admin, asked, now, restarts>>

MarkInvitationUsed ==
    /\ callback.at = "mark"
    /\ invites' = [invites EXCEPT ![callback.invite].used = TRUE]
    /\ callback' = [callback EXCEPT !.at = "session"]
    /\ UNCHANGED <<users, members, challenges, sessions, orgs, idp, pending,
                   verify, admin, asked, now, restarts>>

CreateSession ==
    /\ callback.at = "session"
    /\ sessions' = NewSession(callback.user, callback.org, NoWallet, callback.from, TRUE)
    /\ callback' = Idle
    /\ UNCHANGED <<users, members, invites, challenges, orgs, idp, pending,
                   verify, admin, asked, now, restarts>>

-----------------------------------------------------------------------------
(* The process dies: open transactions roll back, the pending requests are  *)
(* lost, what was committed stays.                                          *)
Restart ==
    /\ asked + restarts < MaxEvents
    /\ restarts' = restarts + 1
    /\ pending' = [r \in Requests |-> IF IsPending(r) THEN Spent ELSE pending[r]]
    /\ verify' = [t \in Threads |-> Idle]
    /\ callback' = Idle
    /\ UNCHANGED <<tables, admin, asked, now>>

Tick ==
    /\ now < MaxTime
    /\ now' = now + 1
    /\ UNCHANGED <<tables, pending, verify, callback, admin, asked, restarts>>

Next ==
    \/ AdminLogin
    \/ \E o \in Orgs : CreateAdminOrg(o) \/ CreateIdpConfigEndpoint(o)
                      \/ DeleteIdpConfigEndpoint(o)
    \/ \E i \in Invites, o \in Orgs, e \in Emails : InviteAdminToOrg(i, o, e)
    \/ \E n \in Nonces, w \in Wallets : SiwwCreateChallenge(n, w) \/ AuthNonce(n, w)
    \/ \E t \in Threads, n \in Nonces, i \in Invites \cup {NoInvite} : VerifySelect(t, n, i)
    \/ \E t \in Threads : VerifyMark(t) \/ VerifyOnboard(t) \/ VerifyReauth(t)
                          \/ VerifyRollback(t)
    \/ \E k \in 1..MaxSessions : Logout(k)
    \/ \E i \in Invites, w \in Wallets : BindWallet(i, w) \/ AuthOnboard(i, w)
    \/ \E w \in Wallets : AuthLogin(w)
    \/ \E k \in 1..MaxSessions, w \in Wallets : AddWallet(k, w)
    \/ \E r \in Requests, o \in Orgs, i \in Invites \cup {NoInvite} : SsoSamlLogin(r, o, i)
    \/ \E p \in Responses, o \in Orgs : SsoReturning(p, o) \/ SsoRefused(p, o)
    \/ \E p \in Responses, o \in Orgs, i \in Invites \cup {NoInvite} : SsoFirstLogin(p, o, i)
    \/ MarkInvitationUsed \/ CreateSession
    \/ Restart \/ Tick

Spec == Init /\ [][Next]_vars

-----------------------------------------------------------------------------
\* Every account and every membership has the organisation and the role of the
\* invitation it came from, or, for an added wallet, of the account itself: no
\* order of onboardings, single sign-ons and added wallets gives a role that an
\* administrator did not grant.
RolesWereGranted ==
    /\ \A e \in Emails : users[e] # NoUser =>
         LET v == invites[users[e].by] IN
         v # NoInvite /\ users[e].org = v.org /\ users[e].role = v.role
    /\ \A m \in members :
         LET grant == IF m.by = NoInvite THEN users[m.user] ELSE invites[m.by] IN
         m.org = grant.org /\ m.role = grant.role

\* A challenge is marked used exactly when a session was issued for it, although
\* the mark is written before the signature, the invitation and the membership
\* are checked (siww_verify_signature): a refused request leaves the challenge
\* usable, and a session is never issued on an unmarked one.
ChallengeSpentWithSession ==
    \A n \in Nonces : challenges[n] # NoChallenge =>
        (challenges[n].used <=> \E k \in DOMAIN sessions : sessions[k].from = n)

\* One AuthnRequest yields at most one session, through replayed callbacks,
\* refused responses, expiry and restarts (saml_handler's replay cache).
AuthnRequestYieldsOneSession ==
    \A j, k \in DOMAIN sessions :
        sessions[j].from \in Requests /\ sessions[j].from = sessions[k].from => j = k

\* A session belongs to whom its login identified: one issued to a wallet to a user
\* whose wallet it is, even when the wallet is already bound to somebody else in the
\* organisation and the handlers pass over the unique violation; one issued to a SAML
\* response to an account of the organisation whose identity provider signed it, and
\* never to an account that a wallet created.
SessionsAreBound ==
    \A k \in DOMAIN sessions :
        /\ sessions[k].wallet # NoWallet =>
             \E m \in members : m.wallet = sessions[k].wallet /\ m.user = sessions[k].user
        /\ sessions[k].saml =>
             LET u == users[sessions[k].user] IN u.org = sessions[k].org /\ u.sso

=============================================================================
