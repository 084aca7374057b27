------------------------ MODULE EnterpriseAuthProofs ------------------------
(***************************************************************************)
(* Proofs about EnterpriseAuth, for every number of people, organisations, *)
(* wallets, invitations, AuthnRequests, threads and restarts: who gets a   *)
(* session, with which role, and how often.                                *)
(***************************************************************************)
EXTENDS EnterpriseAuth, SequenceTheorems, TLAPS

\* The variables that an action leaves to the type checker: no relation to others.
Typed ==
  /\ users \in [Emails -> User \cup {NoUser}]
  /\ invites \in [Invites -> Invite \cup {NoInvite}]
  /\ challenges \in [Nonces -> {NoChallenge}
                       \cup [wallet : Wallets, expires : Nat, used : BOOLEAN]]
  /\ orgs \subseteq Orgs /\ Seeded \subseteq orgs
  /\ idp \in [Orgs -> {"none", "active", "inactive"}]
  /\ pending \in [Requests -> {Unsent, Spent}
                    \cup [created : Nat, org : Orgs, invite : Invites \cup {NoInvite}]]
  /\ verify \in [Threads -> {Idle} \cup
                   [at : {"selected", "marked"}, nonce : Nonces,
                    invite : Invites \cup {NoInvite}]]
  /\ callback = Idle \/ callback \in
       [at : {"mark", "session"}, user : Emails, org : Orgs,
        invite : Invites \cup {NoInvite}, from : Requests \cup {"direct"}]
  /\ {admin, asked, now, restarts} \subseteq Nat

\* A callback in progress has its place among the sessions.
Fits == Len(sessions) + (IF LoopFree THEN 0 ELSE 1) <= MaxSessions

\* A membership is of an account that exists, and of an invitation if it names one.
MembersAreUsers ==
  \A m \in members : users[m.user] # NoUser /\ (m.by # NoInvite => invites[m.by] # NoInvite)

\* Only a challenge that is marked has a session; a thread works on one that exists.
ChallengesOK ==
  /\ \A k \in DOMAIN sessions : \A n \in Nonces :
       sessions[k].from = n => challenges[n] # NoChallenge /\ challenges[n].used
  /\ \A n \in Nonces : challenges[n] # NoChallenge /\ challenges[n].used =>
       \E k \in DOMAIN sessions : sessions[k].from = n
  /\ \A t \in Threads : verify[t] # Idle => challenges[verify[t].nonce] # NoChallenge

\* An AuthnRequest is spent before its session exists, and so it stays; the
\* callback holds the one session of its request that is still to come.
RequestsOK ==
  /\ \A k \in DOMAIN sessions : \A r \in Requests :
       sessions[k].from = r => pending[r] = Spent /\ (callback # Idle => callback.from # r)
  /\ \A r \in Requests : callback # Idle /\ callback.from = r => pending[r] = Spent

\* The callback has committed the account it makes a session for.
CallbackOK ==
  callback # Idle =>
    /\ users[callback.user] # NoUser
    /\ users[callback.user].sso /\ users[callback.user].org = callback.org
    /\ callback.at = "mark" => callback.invite \in Invites /\ invites[callback.invite] # NoInvite

\* The inductive invariant.
AuthInv ==
  /\ TypeOK /\ Fits
  /\ RolesWereGranted /\ MembersAreUsers
  /\ SessionsAreBound
  /\ ChallengesOK
  /\ RequestsOK /\ AuthnRequestYieldsOneSession
  /\ CallbackOK

\* A row is none of the markers for what is not there.
LEMMA RowsAreRows ==
  /\ \A u \in User : u # NoUser
  /\ \A v \in Invite : v # NoInvite
  /\ \A c \in [wallet : Wallets, expires : Nat, used : BOOLEAN] : c # NoChallenge
<1>1. \A u \in User : u # NoUser
  BY DEF User, NoUser
<1>2. \A v \in Invite : v # NoInvite
  BY DEF Invite, NoInvite
<1>3. \A c \in [wallet : Wallets, expires : Nat, used : BOOLEAN] : c # NoChallenge
  BY DEF NoChallenge
<1> QED
  BY <1>1, <1>2, <1>3

\* The seeded users and invitations satisfy the invariant; nobody has a session.
LEMMA AuthInit == Init => AuthInv
<1> SUFFICES ASSUME Init PROVE AuthInv
  OBVIOUS
<1>1. Len(sessions) = 0 /\ DOMAIN sessions = {} /\ members = {} /\ sessions \in Seq(Session)
  BY DEF Init
<1>2. TypeOK
  BY <1>1, AuthAssumption, NamesAssumption DEF Init, TypeOK, Idle
<1>3. Fits /\ CallbackOK
  BY <1>1, AuthAssumption DEF Init, Fits, CallbackOK, LoopFree
<1>4. RolesWereGranted /\ MembersAreUsers
  BY <1>1 DEF Init, RolesWereGranted, MembersAreUsers
<1>5. SessionsAreBound /\ AuthnRequestYieldsOneSession
  BY <1>1 DEF SessionsAreBound, AuthnRequestYieldsOneSession
<1>6. ChallengesOK /\ RequestsOK
  BY <1>1 DEF Init, ChallengesOK, RequestsOK
<1> QED
  BY <1>2, <1>3, <1>4, <1>5, <1>6 DEF AuthInv

-----------------------------------------------------------------------------
(* What a step may do to each table.                                       *)

\* An account is created by an invitation that exists, and never changed.
UsersStep ==
  \A e \in Emails : \/ users'[e] = users[e]
                    \/ /\ users[e] = NoUser /\ users'[e] # NoUser
                       /\ users'[e].by \in Invites /\ invites[users'[e].by] # NoInvite
                       /\ users'[e].org = invites[users'[e].by].org
                       /\ users'[e].role = invites[users'[e].by].role

\* An invitation that exists keeps its organisation and its role.
InvitesStep ==
  \A i \in Invites : invites[i] # NoInvite =>
    invites'[i] # NoInvite /\ invites'[i].org = invites[i].org /\ invites'[i].role = invites[i].role

\* A membership is granted by an invitation or by its account.
Granted(m) ==
  /\ users'[m.user] # NoUser
  /\ m.by = NoInvite => m.org = users'[m.user].org /\ m.role = users'[m.user].role
  /\ m.by # NoInvite => /\ invites[m.by] # NoInvite
                        /\ m.org = invites[m.by].org /\ m.role = invites[m.by].role

MembersStep ==
  \/ members' = members
  \/ \E m \in Member : /\ members' = members \cup {m}
                       /\ Unbound(m.wallet, m.org) /\ Granted(m)

\* A session is for whom the login identified: a nonce that is marked with it, a
\* callback that ends with it, or neither.
Identified(s) ==
  /\ users'[s.user] # NoUser
  /\ s.wallet # NoWallet => \E m \in members' : m.wallet = s.wallet /\ m.user = s.user
  /\ s.saml => users'[s.user].org = s.org /\ users'[s.user].sso
  /\ s.from \in Nonces => challenges'[s.from] # NoChallenge /\ challenges'[s.from].used
  /\ s.from \in Requests => callback # Idle /\ callback.from = s.from /\ callback' = Idle

SessionsStep ==
  \/ sessions' = sessions
  \/ \E k \in DOMAIN sessions : sessions' = [sessions EXCEPT ![k].revoked = TRUE]
  \/ \E s \in Session : sessions' = Append(sessions, s) /\ Identified(s)

\* A challenge is new, or is marked with a session of its own.
ChallengesStep ==
  \A n \in Nonces :
    \/ challenges'[n] = challenges[n]
    \/ challenges[n] = NoChallenge /\ challenges'[n] # NoChallenge /\ ~challenges'[n].used
    \/ /\ challenges[n] # NoChallenge /\ challenges'[n] # NoChallenge /\ challenges'[n].used
       /\ \E s \in Session : sessions' = Append(sessions, s) /\ s.from = n

VerifyStep ==
  \A t \in Threads :
    \/ verify'[t] = Idle
    \/ verify[t] # Idle /\ verify'[t].nonce = verify[t].nonce
    \/ challenges[verify'[t].nonce] # NoChallenge

\* A spent request stays spent.
PendingStep == \A r \in Requests : pending[r] = Spent => pending'[r] = Spent

\* A callback begins with a request that was not spent before and is now.
CallbackStep ==
  \/ callback' = Idle
  \/ callback' = callback
  \/ /\ callback # Idle /\ callback'.at # "mark"
     /\ callback'.user = callback.user /\ callback'.org = callback.org
     /\ callback'.from = callback.from
  \/ /\ users'[callback'.user] # NoUser
     /\ users'[callback'.user].sso /\ users'[callback'.user].org = callback'.org
     /\ callback'.at = "mark" =>
          callback'.invite \in Invites /\ invites[callback'.invite] # NoInvite
     /\ callback'.from \in Requests =>
          pending[callback'.from] # Spent /\ pending'[callback'.from] = Spent
     /\ sessions' = sessions

StepOK ==
  /\ Typed' /\ Fits'
  /\ UsersStep /\ InvitesStep /\ MembersStep /\ SessionsStep
  /\ ChallengesStep /\ VerifyStep /\ PendingStep /\ CallbackStep

\* Roles stay granted: memberships grow, users and invitations are never taken away.
LEMMA RolesKept == ASSUME AuthInv, StepOK PROVE (RolesWereGranted /\ MembersAreUsers)'
<1>1. TypeOK
  BY DEF AuthInv
<1>2. ASSUME NEW e \in Emails, users'[e] # NoUser
      PROVE  /\ users'[e].by \in Invites /\ invites[users'[e].by] # NoInvite
             /\ users'[e].org = invites[users'[e].by].org
             /\ users'[e].role = invites[users'[e].by].role
  <2>1. users[e] # NoUser => users[e] \in User
    BY <1>1 DEF TypeOK
  <2>2. CASE users'[e] = users[e]
    BY <1>2, <2>1, <2>2 DEF AuthInv, RolesWereGranted, User
  <2>3. CASE users'[e] # users[e]
    BY <2>3 DEF StepOK, UsersStep
  <2> QED
    BY <2>2, <2>3
<1>3. ASSUME NEW e \in Emails, users[e] # NoUser
      PROVE  users'[e] = users[e]
  BY <1>3 DEF StepOK, UsersStep
<1>4. ASSUME NEW i \in Invites, invites[i] # NoInvite
      PROVE  /\ invites'[i] # NoInvite /\ invites'[i].org = invites[i].org
             /\ invites'[i].role = invites[i].role
  BY <1>4 DEF StepOK, InvitesStep
<1>5. ASSUME NEW m \in members'
      PROVE  m.by \in Invites \cup {NoInvite} /\ Granted(m)
  <2>1. CASE m \in members
    <3>1. m.user \in Emails /\ m.by \in Invites \cup {NoInvite}
      BY <1>1, <2>1 DEF TypeOK, Member
    <3>2. users[m.user] # NoUser /\ users'[m.user] = users[m.user]
      BY <1>3, <2>1, <3>1 DEF AuthInv, MembersAreUsers
    <3>3. m.by # NoInvite => invites[m.by] # NoInvite
      BY <2>1 DEF AuthInv, MembersAreUsers
    <3>4. LET grant == IF m.by = NoInvite THEN users[m.user] ELSE invites[m.by]
          IN  m.org = grant.org /\ m.role = grant.role
      BY <2>1 DEF AuthInv, RolesWereGranted
    <3> QED
      BY <3>1, <3>2, <3>3, <3>4 DEF Granted
  <2>2. CASE m \notin members
    <3>1. m \in Member /\ Granted(m)
      BY <2>2 DEF StepOK, MembersStep
    <3> QED
      BY <3>1 DEF Member
  <2> QED
    BY <2>1, <2>2
<1>6. RolesWereGranted'
  <2>1. ASSUME NEW e \in Emails, users'[e] # NoUser
        PROVE  LET v == invites'[users'[e].by]
               IN  v # NoInvite /\ users'[e].org = v.org /\ users'[e].role = v.role
    BY <1>2, <1>4, <2>1
  <2>2. ASSUME NEW m \in members'
        PROVE  LET grant == IF m.by = NoInvite THEN users'[m.user] ELSE invites'[m.by]
               IN  m.org = grant.org /\ m.role = grant.role
    BY <1>4, <1>5 DEF Granted
  <2> QED
    BY <2>1, <2>2 DEF RolesWereGranted
<1>7. MembersAreUsers'
  BY <1>4, <1>5 DEF MembersAreUsers, Granted
<1> QED
  BY <1>6, <1>7

\* After a step a session is an old one, perhaps revoked, or the new one at the end.
LEMMA SessionsGrow ==
  ASSUME AuthInv, StepOK
  PROVE  /\ sessions' \in Seq(Session) /\ DOMAIN sessions \subseteq DOMAIN sessions'
         /\ \A k \in DOMAIN sessions :
              /\ sessions'[k].user = sessions[k].user /\ sessions'[k].org = sessions[k].org
              /\ sessions'[k].wallet = sessions[k].wallet /\ sessions'[k].saml = sessions[k].saml
              /\ sessions'[k].from = sessions[k].from
         /\ \A k \in DOMAIN sessions' : k \notin DOMAIN sessions =>
              sessions' = Append(sessions, sessions'[k]) /\ Identified(sessions'[k])
                /\ k = Len(sessions) + 1
<1>1. sessions \in Seq(Session) /\ DOMAIN sessions = 1 .. Len(sessions) /\ Len(sessions) \in Nat
  BY DEF AuthInv, TypeOK
<1>2. CASE sessions' = sessions
  BY <1>1, <1>2
<1>3. ASSUME NEW k \in DOMAIN sessions, sessions' = [sessions EXCEPT ![k].revoked = TRUE]
      PROVE  /\ sessions' \in Seq(Session) /\ DOMAIN sessions' = DOMAIN sessions
             /\ \A j \in DOMAIN sessions :
                  /\ sessions'[j].user = sessions[j].user /\ sessions'[j].org = sessions[j].org
                  /\ sessions'[j].wallet = sessions[j].wallet /\ sessions'[j].saml = sessions[j].saml
                  /\ sessions'[j].from = sessions[j].from
  <2> DEFINE s == [sessions[k] EXCEPT !.revoked = TRUE]
  <2>1. sessions[k] \in Session
    BY <1>1, <1>3
  <2>2. /\ s \in Session /\ s.user = sessions[k].user /\ s.org = sessions[k].org
        /\ s.wallet = sessions[k].wallet /\ s.saml = sessions[k].saml /\ s.from = sessions[k].from
    <3>1. PICK x \in Session : x = sessions[k]
      BY <2>1
    <3>2. [x EXCEPT !.revoked = TRUE] \in Session
      BY Zenon DEF Session
    <3>3. \A f \in DOMAIN x : f # "revoked" => [x EXCEPT !.revoked = TRUE][f] = x[f]
      BY Zenon
    <3>4. DOMAIN x = {"user", "org", "wallet", "from", "saml", "expires", "revoked"}
      BY DEF Session
    <3> QED
      BY <3>1, <3>2, <3>3, <3>4
  <2>3. sessions' = [sessions EXCEPT ![k] = s]
    BY <1>3
  <2> HIDE DEF s
  <2>4. /\ sessions' \in Seq(Session) /\ DOMAIN sessions' = DOMAIN sessions /\ sessions'[k] = s
        /\ \A j \in DOMAIN sessions : j # k => sessions'[j] = sessions[j]
    <3>1. s \in Session /\ k \in 1 .. Len(sessions)
      BY <1>1, <2>2
    <3> QED
      BY <1>1, <2>3, <3>1
  <2> QED
    BY <2>2, <2>4, Zenon
<1>4. ASSUME NEW s \in Session, sessions' = Append(sessions, s), Identified(s)
      PROVE  /\ sessions' \in Seq(Session) /\ DOMAIN sessions' = 1 .. (Len(sessions) + 1)
             /\ \A j \in DOMAIN sessions : sessions'[j] = sessions[j]
             /\ sessions'[Len(sessions) + 1] = s
  BY <1>1, <1>4
<1>5. CASE \E s \in Session : sessions' = Append(sessions, s) /\ Identified(s)
  <2>1. PICK s \in Session : sessions' = Append(sessions, s) /\ Identified(s)
    BY <1>5
  <2>2. /\ sessions' \in Seq(Session) /\ DOMAIN sessions' = 1 .. (Len(sessions) + 1)
        /\ \A j \in DOMAIN sessions : sessions'[j] = sessions[j]
        /\ sessions'[Len(sessions) + 1] = s
    BY <1>4, <2>1
  <2>3. \A k \in DOMAIN sessions' : k \notin DOMAIN sessions => k = Len(sessions) + 1
    BY <1>1, <2>2
  <2> QED
    BY <1>1, <2>1, <2>2, <2>3
<1>6. CASE \E k \in DOMAIN sessions : sessions' = [sessions EXCEPT ![k].revoked = TRUE]
  <2>1. PICK k \in DOMAIN sessions : sessions' = [sessions EXCEPT ![k].revoked = TRUE]
    BY <1>6
  <2> QED
    BY <1>3, <2>1
<1> QED
  BY <1>2, <1>5, <1>6 DEF StepOK, SessionsStep

\* A session's account exists.
LEMMA SessionsAreOfUsers ==
  ASSUME TypeOK, NEW k \in DOMAIN sessions
  PROVE  /\ sessions[k] \in Session
         /\ sessions[k].user \in Emails /\ users[sessions[k].user] # NoUser
         /\ users[sessions[k].user] \in User
<1>1. sessions[k] \in Session
  BY DEF TypeOK
<1>2. sessions[k].user \in Emails
  BY <1>1 DEF Session
<1> QED
  BY <1>1, <1>2 DEF TypeOK

\* An account is never changed, so what a callback or a session says of it stays.
LEMMA UsersStay ==
  ASSUME UsersStep, NEW e \in Emails, users[e] # NoUser
  PROVE  users'[e] = users[e]
BY DEF UsersStep

\* A membership is never taken away.
LEMMA MembersGrow == ASSUME StepOK PROVE members \subseteq members'
BY DEF StepOK, MembersStep

\* A session stays bound to its wallet's user or its provider's organisation.
LEMMA BindingsKept == ASSUME AuthInv, StepOK PROVE SessionsAreBound'
<1>1. /\ sessions \in Seq(Session) /\ UsersStep
      /\ \A k \in DOMAIN sessions : users[sessions[k].user] # NoUser
  BY DEF AuthInv, TypeOK, StepOK
<1> SUFFICES ASSUME NEW k \in DOMAIN sessions'
             PROVE  /\ sessions'[k].wallet # NoWallet =>
                         \E m \in members' : m.wallet = sessions'[k].wallet
                                             /\ m.user = sessions'[k].user
                    /\ sessions'[k].saml => /\ users'[sessions'[k].user].org = sessions'[k].org
                                            /\ users'[sessions'[k].user].sso
  BY Zenon DEF SessionsAreBound
<1>2. CASE k \in DOMAIN sessions
  <2>1. /\ sessions'[k].user = sessions[k].user /\ sessions'[k].org = sessions[k].org
        /\ sessions'[k].wallet = sessions[k].wallet /\ sessions'[k].saml = sessions[k].saml
    BY <1>2, SessionsGrow
  <2>2. sessions[k].user \in Emails
    BY <1>2, SessionsAreOfUsers DEF AuthInv
  <2>3. users'[sessions[k].user] = users[sessions[k].user]
    BY <1>1, <1>2, <2>2, UsersStay
  <2>4. sessions[k].wallet # NoWallet =>
           \E m \in members' : m.wallet = sessions[k].wallet /\ m.user = sessions[k].user
    BY <1>2, MembersGrow, Zenon DEF AuthInv, SessionsAreBound
  <2>5. sessions[k].saml =>
           users[sessions[k].user].org = sessions[k].org /\ users[sessions[k].user].sso
    BY <1>2, Zenon DEF AuthInv, SessionsAreBound
  <2> QED
    BY <2>1, <2>3, <2>4, <2>5, Zenon
<1>3. CASE k \notin DOMAIN sessions
  <2>1. Identified(sessions'[k])
    BY <1>3, SessionsGrow
  <2> QED
    BY <2>1, Zenon DEF Identified
<1> QED
  BY <1>2, <1>3

\* A challenge that is marked keeps its session; a new session has marked its own.
LEMMA ChallengesKept == ASSUME AuthInv, StepOK PROVE ChallengesOK'
<1>1. /\ sessions \in Seq(Session) /\ sessions' \in Seq(Session) /\ TypeOK
      /\ DOMAIN sessions \subseteq DOMAIN sessions'
  BY SessionsGrow DEF AuthInv, TypeOK
<1>2. ASSUME NEW n \in Nonces, challenges[n] # NoChallenge
      PROVE  challenges'[n] # NoChallenge /\ (challenges[n].used => challenges'[n].used)
  BY <1>2 DEF StepOK, ChallengesStep
<1>3. ASSUME NEW k \in DOMAIN sessions', NEW n \in Nonces, sessions'[k].from = n
      PROVE  challenges'[n] # NoChallenge /\ challenges'[n].used
  <2>1. CASE k \in DOMAIN sessions
    <3>1. sessions[k].from = n
      BY <1>3, <2>1, SessionsGrow
    <3>2. challenges[n] # NoChallenge /\ challenges[n].used
      BY <2>1, <3>1 DEF AuthInv, ChallengesOK
    <3> QED
      BY <1>2, <3>2
  <2>2. CASE k \notin DOMAIN sessions
    <3>1. Identified(sessions'[k])
      BY <2>2, SessionsGrow
    <3> QED
      BY <1>3, <3>1 DEF Identified
  <2> QED
    BY <2>1, <2>2
<1>4. ASSUME NEW n \in Nonces, challenges'[n] # NoChallenge, challenges'[n].used
      PROVE  \E k \in DOMAIN sessions' : sessions'[k].from = n
  <2>1. CASE challenges[n] # NoChallenge /\ challenges[n].used
    <3>1. PICK k \in DOMAIN sessions : sessions[k].from = n
      BY <2>1 DEF AuthInv, ChallengesOK
    <3>2. k \in DOMAIN sessions' /\ sessions'[k].from = n
      BY <1>1, <3>1, SessionsGrow
    <3> QED
      BY <3>2
  <2>2. CASE ~(challenges[n] # NoChallenge /\ challenges[n].used)
    <3>1. PICK s \in Session : sessions' = Append(sessions, s) /\ s.from = n
      BY <1>4, <2>2 DEF StepOK, ChallengesStep
    <3>2. Len(sessions) + 1 \in DOMAIN sessions' /\ sessions'[Len(sessions) + 1] = s
      BY <1>1, <3>1
    <3> QED
      BY <3>1, <3>2
  <2> QED
    BY <2>1, <2>2
<1>5. ASSUME NEW t \in Threads, verify'[t] # Idle
      PROVE  challenges'[verify'[t].nonce] # NoChallenge
  <2>1. Typed'
    BY DEF StepOK
  <2>2. verify'[t].nonce \in Nonces
    BY <1>5, <2>1 DEF Typed
  <2>3. challenges[verify'[t].nonce] # NoChallenge
    BY <1>5 DEF StepOK, VerifyStep, AuthInv, ChallengesOK
  <2> QED
    BY <1>2, <2>2, <2>3
<1> QED
  BY <1>3, <1>4, <1>5, Zenon DEF ChallengesOK

\* An AuthnRequest stays spent and yields no second session.
LEMMA RequestsKept ==
  ASSUME AuthInv, StepOK PROVE (RequestsOK /\ AuthnRequestYieldsOneSession)'
<1>1. /\ sessions \in Seq(Session) /\ sessions' \in Seq(Session)
      /\ DOMAIN sessions \subseteq DOMAIN sessions'
  BY SessionsGrow DEF AuthInv, TypeOK
<1>2. \A r \in Requests : pending[r] = Spent => pending'[r] = Spent
  BY DEF StepOK, PendingStep
\* A session that is there already: its request was and stays spent.
<1>3. ASSUME NEW k \in DOMAIN sessions, NEW r \in Requests, sessions[k].from = r
      PROVE  pending[r] = Spent /\ pending'[r] = Spent /\ (callback # Idle => callback.from # r)
  BY <1>2, <1>3 DEF AuthInv, RequestsOK
\* The session that the step adds: its request was the one of the callback.
<1>4. ASSUME NEW k \in DOMAIN sessions', NEW r \in Requests, sessions'[k].from = r,
             k \notin DOMAIN sessions
      PROVE  callback # Idle /\ callback.from = r /\ callback' = Idle /\ pending'[r] = Spent
  <2>1. Identified(sessions'[k])
    BY <1>4, SessionsGrow
  <2>2. callback # Idle /\ callback.from = r /\ callback' = Idle
    BY <1>4, <2>1 DEF Identified
  <2> QED
    BY <1>2, <2>2 DEF AuthInv, RequestsOK
<1>5. ASSUME NEW k \in DOMAIN sessions', NEW r \in Requests, sessions'[k].from = r
      PROVE  pending'[r] = Spent /\ (callback' # Idle => callback'.from # r)
  <2>1. CASE k \notin DOMAIN sessions
    BY <1>4, <1>5, <2>1
  <2>2. CASE k \in DOMAIN sessions
    <3>1. sessions[k].from = r
      BY <1>5, <2>2, SessionsGrow
    <3>2. pending[r] = Spent /\ pending'[r] = Spent /\ (callback # Idle => callback.from # r)
      BY <1>3, <2>2, <3>1
    <3>3. ASSUME callback' # Idle PROVE callback'.from # r
      BY <3>2, <3>3 DEF StepOK, CallbackStep
    <3> QED
      BY <3>2, <3>3
  <2> QED
    BY <2>1, <2>2
<1>6. ASSUME NEW r \in Requests, callback' # Idle, callback'.from = r
      PROVE  pending'[r] = Spent
  <2>1. callback # Idle /\ callback.from = r => pending'[r] = Spent
    BY <1>2 DEF AuthInv, RequestsOK
  <2> QED
    BY <1>6, <2>1 DEF StepOK, CallbackStep
<1>7. ASSUME NEW j \in DOMAIN sessions', NEW k \in DOMAIN sessions', NEW r \in Requests,
             sessions'[j].from = r, sessions'[k].from = r
      PROVE  j = k
  <2>1. CASE j \in DOMAIN sessions /\ k \in DOMAIN sessions
    <3>1. sessions[j].from = r /\ sessions[k].from = r
      BY <1>7, <2>1, SessionsGrow
    <3> QED
      BY <2>1, <3>1 DEF AuthInv, AuthnRequestYieldsOneSession
  <2>2. CASE j \notin DOMAIN sessions /\ k \notin DOMAIN sessions
    BY <2>2, SessionsGrow
  <2>3. ASSUME NEW a \in DOMAIN sessions', NEW b \in DOMAIN sessions', a \in DOMAIN sessions,
               b \notin DOMAIN sessions, sessions'[a].from = r, sessions'[b].from = r
        PROVE  FALSE
    <3>1. sessions[a].from = r
      BY <2>3, SessionsGrow
    <3>2. callback # Idle => callback.from # r
      BY <1>3, <2>3, <3>1
    <3>3. callback # Idle /\ callback.from = r
      BY <1>4, <2>3
    <3> QED
      BY <3>2, <3>3
  <2> QED
    BY <1>7, <2>1, <2>2, <2>3
<1>8. RequestsOK'
  BY <1>5, <1>6, Zenon DEF RequestsOK
<1>9. AuthnRequestYieldsOneSession'
  BY <1>7, Zenon DEF AuthnRequestYieldsOneSession
<1> QED
  BY <1>8, <1>9

\* What the callback committed is not taken back before its session.
LEMMA CallbackKept == ASSUME AuthInv, StepOK PROVE CallbackOK'
<1>1. TypeOK /\ UsersStep
  BY DEF AuthInv, StepOK
<1> SUFFICES ASSUME callback' # Idle
             PROVE  /\ users'[callback'.user] # NoUser /\ users'[callback'.user].sso
                    /\ users'[callback'.user].org = callback'.org
                    /\ callback'.at = "mark" => /\ callback'.invite \in Invites
                                                /\ invites'[callback'.invite] # NoInvite
  BY Zenon DEF CallbackOK
<1>2. \A i \in Invites : invites[i] # NoInvite => invites'[i] # NoInvite
  BY DEF StepOK, InvitesStep
<1>3. CASE callback # Idle /\ callback'.user = callback.user /\ callback'.org = callback.org
             /\ (callback' = callback \/ callback'.at # "mark")
  <2>1. /\ callback.user \in Emails /\ users[callback.user] # NoUser
        /\ users[callback.user].sso /\ users[callback.user].org = callback.org
        /\ callback.at = "mark" => callback.invite \in Invites /\ invites[callback.invite] # NoInvite
    BY <1>1, <1>3 DEF AuthInv, CallbackOK, TypeOK
  <2>2. users'[callback.user] = users[callback.user]
    BY <1>1, <2>1, UsersStay
  <2> QED
    BY <1>2, <1>3, <2>1, <2>2
<1>4. CASE /\ users'[callback'.user] # NoUser
           /\ users'[callback'.user].sso /\ users'[callback'.user].org = callback'.org
           /\ callback'.at = "mark" =>
                callback'.invite \in Invites /\ invites[callback'.invite] # NoInvite
  BY <1>2, <1>4
<1> QED
  BY <1>3, <1>4 DEF StepOK, CallbackStep

\* The variables stay in their types.
LEMMA TypesKept == ASSUME AuthInv, StepOK PROVE TypeOK'
<1>1. TypeOK /\ Typed' /\ Fits' /\ UsersStep
  BY DEF AuthInv, StepOK
<1>2. (members \subseteq Member)' /\ (\A a, b \in members : a.wallet = b.wallet /\ a.org = b.org => a = b)'
  BY <1>1 DEF TypeOK, StepOK, MembersStep, Unbound
<1>3. (sessions \in Seq(Session) /\ Len(sessions) <= MaxSessions)'
  <2>1. sessions' \in Seq(Session) /\ Len(sessions') \in Nat
    BY SessionsGrow
  <2> QED
    BY <1>1, <2>1, AuthAssumption DEF Fits
<1>4. ASSUME NEW k \in DOMAIN sessions'
      PROVE  users'[sessions'[k].user] # NoUser
  <2>1. CASE k \in DOMAIN sessions
    <3>1. sessions[k].user \in Emails /\ users[sessions[k].user] # NoUser
      BY <1>1, <2>1, SessionsAreOfUsers
    <3>2. sessions'[k].user = sessions[k].user
      BY <2>1, SessionsGrow
    <3> QED
      BY <1>1, <3>1, <3>2, UsersStay
  <2>2. CASE k \notin DOMAIN sessions
    BY <2>2, SessionsGrow DEF Identified
  <2> QED
    BY <2>1, <2>2
<1> QED
  BY <1>1, <1>2, <1>3, <1>4 DEF Typed, TypeOK

\* A step that is a StepOK keeps the whole invariant; the actions below are.
LEMMA InvKept == ASSUME AuthInv, StepOK PROVE AuthInv'
<1>1. Fits'
  BY DEF StepOK
<1> QED
  BY <1>1, TypesKept, RolesKept, BindingsKept, ChallengesKept, RequestsKept, CallbackKept DEF AuthInv

-----------------------------------------------------------------------------
(* Every action is such a step.                                            *)

\* The types of the tables are part of TypeOK.
LEMMA TypesGiveTyped == TypeOK => Typed
BY DEF TypeOK, Typed

\* What leaves a table alone keeps to the rules for it.
LEMMA Frame ==
  /\ users' = users => UsersStep
  /\ invites' = invites => InvitesStep
  /\ members' = members => MembersStep
  /\ sessions' = sessions => SessionsStep
  /\ challenges' = challenges => ChallengesStep
  /\ verify' = verify => VerifyStep
  /\ pending' = pending => PendingStep
  /\ callback' = callback => CallbackStep
<1>1. users' = users => UsersStep
  BY DEF UsersStep
<1>2. invites' = invites => InvitesStep
  BY DEF InvitesStep
<1>3. challenges' = challenges => ChallengesStep
  BY DEF ChallengesStep
<1>4. verify' = verify => VerifyStep
  BY DEF VerifyStep
<1>5. pending' = pending => PendingStep
  BY DEF PendingStep
<1> QED
  BY <1>1, <1>2, <1>3, <1>4, <1>5, Zenon DEF MembersStep, SessionsStep, CallbackStep

\* The bound on sessions survives a step that makes none and begins no callback.
LEMMA FitsKept ==
  AuthInv /\ Len(sessions') = Len(sessions) /\ (callback' = callback \/ callback' = Idle) => Fits'
<1> SUFFICES ASSUME AuthInv, Len(sessions') = Len(sessions), callback' = callback \/ callback' = Idle
             PROVE  Fits'
  OBVIOUS
<1>1. Len(sessions) \in Nat /\ MaxSessions \in Nat
  BY AuthAssumption DEF AuthInv, TypeOK
<1> QED
  BY <1>1 DEF AuthInv, Fits, LoopFree

\* The platform administrator, the clock and a new challenge.
LEMMA AdminSteps ==
  ASSUME AuthInv,
         \/ AdminLogin \/ Tick
         \/ \E o \in Orgs : CreateAdminOrg(o) \/ CreateIdpConfigEndpoint(o)
                            \/ DeleteIdpConfigEndpoint(o)
  PROVE  StepOK
<1> DEFINE Quiet ==
             UNCHANGED <<users, members, invites, challenges, sessions, pending, verify, callback>>
           Settings ==
             /\ {admin, asked, now, restarts}' \subseteq Nat
             /\ orgs' \subseteq Orgs /\ Seeded \subseteq orgs'
             /\ idp' \in [Orgs -> {"none", "active", "inactive"}]
<1>1. Quiet /\ Settings
  <2>1. /\ {admin, asked, now, restarts} \subseteq Nat
        /\ orgs \subseteq Orgs /\ Seeded \subseteq orgs /\ idp \in [Orgs -> {"none", "active", "inactive"}]
    BY DEF AuthInv, TypeOK
  <2>2. CASE AdminLogin
    BY <2>1, <2>2, AuthAssumption DEF AdminLogin, tables
  <2>3. CASE Tick
    BY <2>1, <2>3 DEF Tick, tables
  <2>4. ASSUME NEW o \in Orgs, CreateAdminOrg(o)
        PROVE  Quiet /\ Settings
    BY <2>1, <2>4 DEF CreateAdminOrg, AdminAsks
  <2>5. ASSUME NEW o \in Orgs, CreateIdpConfigEndpoint(o)
        PROVE  Quiet /\ Settings
    BY <2>1, <2>5 DEF CreateIdpConfigEndpoint, CreateOrUpdateIdpConfig, AdminAsks
  <2>6. ASSUME NEW o \in Orgs, DeleteIdpConfigEndpoint(o)
        PROVE  Quiet /\ Settings
    BY <2>1, <2>6 DEF DeleteIdpConfigEndpoint, DeleteIdpConfig, AdminAsks
  <2> QED
    BY <2>2, <2>3, <2>4, <2>5, <2>6
<1>2. Typed'
  BY <1>1, TypesGiveTyped DEF AuthInv, Typed
<1>3. Fits'
  BY <1>1, FitsKept
<1> QED
  BY <1>1, <1>2, <1>3, Frame DEF StepOK

\* An administrator's invitation is new, so no membership names it yet.
LEMMA InviteStep ==
  ASSUME AuthInv, NEW i \in Invites, NEW o \in Orgs, NEW e \in Emails, InviteAdminToOrg(i, o, e)
  PROVE  StepOK
<1> DEFINE v == [org |-> o, email |-> e, role |-> "admin", expires |-> now + InviteTtl,
                 accepted |-> FALSE, used |-> FALSE]
<1>1. /\ UNCHANGED <<users, members, challenges, sessions, orgs, idp, pending, verify, callback,
                     admin, now, restarts>>
      /\ invites[i] = NoInvite /\ invites' = [invites EXCEPT ![i] = v] /\ asked' = asked + 1
  BY DEF InviteAdminToOrg, AdminAsks
<1>2. Typed /\ now \in Nat /\ asked \in Nat
  BY TypesGiveTyped DEF AuthInv, TypeOK
<1>3. v \in Invite
  BY <1>2, AuthAssumption DEF Invite, Roles
<1> HIDE DEF v
<1>4. Typed'
  BY <1>1, <1>2, <1>3 DEF Typed
<1>5. InvitesStep
  BY <1>1, <1>2 DEF Typed, InvitesStep
<1>6. Fits'
  BY <1>1, FitsKept
<1> QED
  BY <1>1, <1>4, <1>5, <1>6, Frame DEF StepOK

\* A challenge is issued under an unused nonce, unmarked and without a session.
LEMMA ChallengeStep ==
  ASSUME AuthInv, NEW n \in Nonces, NEW w \in Wallets, InsertChallenge(n, w)
  PROVE  StepOK
<1> DEFINE c == [wallet |-> w, expires |-> now + ChallengeTtl, used |-> FALSE]
<1>1. /\ UNCHANGED <<users, members, invites, sessions, orgs, idp, pending, verify, callback,
                     admin, asked, now, restarts>>
      /\ challenges[n] = NoChallenge /\ challenges' = [challenges EXCEPT ![n] = c]
  BY DEF InsertChallenge
<1>2. Typed /\ now \in Nat
  BY TypesGiveTyped DEF AuthInv, TypeOK
<1>3. c \in [wallet : Wallets, expires : Nat, used : BOOLEAN] /\ c # NoChallenge /\ ~c.used
  <2>1. now + ChallengeTtl \in Nat
    BY <1>2, AuthAssumption
  <2>2. c \in [wallet : Wallets, expires : Nat, used : BOOLEAN]
    BY <2>1, Zenon
  <2>3. ~c.used
    OBVIOUS
  <2> QED
    BY <2>2, <2>3, RowsAreRows
<1> HIDE DEF c
<1>4. Typed'
  BY <1>1, <1>2, <1>3 DEF Typed
<1>5. ChallengesStep
  BY <1>1, <1>2, <1>3 DEF Typed, ChallengesStep
<1>6. Fits'
  BY <1>1, FitsKept
<1> QED
  BY <1>1, <1>4, <1>5, <1>6, Frame DEF StepOK

\* A thread of /auth/verify before and after its transaction's work.
LEMMA ThreadSteps ==
  ASSUME AuthInv, NEW t \in Threads,
         \/ \E n \in Nonces, i \in Invites \cup {NoInvite} : VerifySelect(t, n, i)
         \/ VerifyMark(t) \/ VerifyRollback(t)
  PROVE  StepOK
<1> DEFINE Call == [at : {"selected", "marked"}, nonce : Nonces, invite : Invites \cup {NoInvite}]
<1>1. Typed /\ verify \in [Threads -> {Idle} \cup Call]
  BY TypesGiveTyped DEF AuthInv, Typed
<1> DEFINE Moves(x) == /\ verify' = [verify EXCEPT ![t] = x]
                       /\ \/ x = Idle
                          \/ verify[t] # Idle /\ x.nonce = verify[t].nonce
                          \/ challenges[x.nonce] # NoChallenge
<1>2. PICK x \in {Idle} \cup Call : Moves(x)
  <2>1. ASSUME NEW n \in Nonces, NEW i \in Invites \cup {NoInvite}, VerifySelect(t, n, i)
        PROVE  \E x \in {Idle} \cup Call : Moves(x)
    <3> DEFINE x == [at |-> "selected", nonce |-> n, invite |-> i]
    <3>1. x \in Call /\ x.nonce = n
      OBVIOUS
    <3>2. verify' = [verify EXCEPT ![t] = x] /\ challenges[n] # NoChallenge
      BY <2>1 DEF VerifySelect
    <3> HIDE DEF x, Call
    <3> QED
      BY <3>1, <3>2
  <2>2. CASE VerifyMark(t)
    <3>1. verify[t] \in Call /\ verify[t] # Idle
      BY <1>1, <2>2 DEF VerifyMark, Idle
    <3> DEFINE x == [verify[t] EXCEPT !.at = "marked"]
    <3>2. x \in Call /\ x.nonce = verify[t].nonce
      BY <3>1
    <3>3. verify' = [verify EXCEPT ![t] = x]
      BY <2>2 DEF VerifyMark
    <3> HIDE DEF x, Call
    <3> QED
      BY <3>1, <3>2, <3>3
  <2>3. CASE VerifyRollback(t)
    BY <2>3 DEF VerifyRollback
  <2> QED
    BY <2>1, <2>2, <2>3
<1>3. /\ UNCHANGED <<users, members, invites, challenges, sessions, orgs, idp, pending, callback,
                     admin, asked, now, restarts>>
  BY DEF VerifySelect, VerifyMark, VerifyRollback, tables
<1> HIDE DEF Call
<1>4. verify' \in [Threads -> {Idle} \cup Call]
  BY <1>1, <1>2
<1>5. Typed'
  BY <1>1, <1>3, <1>4 DEF Typed, Call
<1>6. VerifyStep
  BY <1>1, <1>2 DEF VerifyStep
<1>7. Fits'
  BY <1>3, FitsKept
<1> QED
  BY <1>3, <1>5, <1>6, <1>7, Frame DEF StepOK

\* A session is revoked.
LEMMA LogoutStep == ASSUME AuthInv, NEW k \in 1 .. MaxSessions, Logout(k) PROVE StepOK
<1>1. /\ UNCHANGED <<users, members, invites, challenges, orgs, idp, pending, verify, callback,
                     admin, asked, now, restarts>>
      /\ k \in DOMAIN sessions /\ sessions' = [sessions EXCEPT ![k].revoked = TRUE]
  BY DEF Logout
<1>2. sessions \in Seq(Session)
  BY DEF AuthInv, TypeOK
<1>3. Len(sessions') = Len(sessions)
  <2> DEFINE s == [sessions[k] EXCEPT !.revoked = TRUE]
  <2>1. sessions' = [sessions EXCEPT ![k] = s]
    BY <1>1
  <2> HIDE DEF s
  <2>2. DOMAIN sessions' = 1 .. Len(sessions) /\ Len(sessions) \in Nat
    BY <1>2, <2>1
  <2> QED
    BY <1>2, <2>1, <2>2, LenProperties
<1>4. Typed'
  BY <1>1, TypesGiveTyped DEF AuthInv, Typed
<1>5. Fits' /\ SessionsStep
  BY <1>1, <1>3, FitsKept DEF SessionsStep
<1> QED
  BY <1>1, <1>4, <1>5, Frame DEF StepOK

-----------------------------------------------------------------------------
(* Sign-in with a wallet.                                                  *)

\* A session issued to a wallet, or to a SAML response, is the last in the list.
LastSession(e, o, w, from, saml) ==
  /\ Len(sessions') = Len(sessions) + 1
  /\ \E s \in Session : /\ sessions' = Append(sessions, s)
                        /\ s.user = e /\ s.org = o /\ s.wallet = w /\ s.from = from
                        /\ (s.saml <=> saml)

\* An appended session is the last, and the others keep their places.
LEMMA NewSessionIsLast ==
  ASSUME AuthInv, NEW e \in Emails, NEW o \in Orgs, NEW w \in Wallets \cup {NoWallet},
         NEW from \in Nonces \cup Requests \cup {"direct"}
  PROVE  /\ sessions' = NewSession(e, o, w, from, FALSE) => LastSession(e, o, w, from, FALSE)
         /\ sessions' = NewSession(e, o, w, from, TRUE) => LastSession(e, o, w, from, TRUE)
<1> SUFFICES ASSUME NEW saml \in BOOLEAN, sessions' = NewSession(e, o, w, from, saml)
             PROVE  LastSession(e, o, w, from, saml)
  BY Zenon
<1> DEFINE s == [user |-> e, org |-> o, wallet |-> w, from |-> from, saml |-> saml,
                 expires |-> now + SessionTtl, revoked |-> FALSE]
<1>1. sessions \in Seq(Session) /\ now \in Nat
  BY DEF AuthInv, TypeOK
<1>2. now + SessionTtl \in Nat
  BY <1>1, AuthAssumption
<1>3. s \in Session
  BY <1>2, Zenon DEF Session
<1>4. s.user = e /\ s.org = o /\ s.wallet = w /\ s.from = from /\ s.saml = saml
  BY Zenon
<1>5. sessions' = Append(sessions, s)
  BY DEF NewSession
<1> HIDE DEF s
<1>6. Len(sessions') = Len(sessions) + 1
  BY <1>1, <1>3, <1>5
<1> QED
  BY <1>3, <1>4, <1>5, <1>6, Zenon DEF LastSession

\* An onboarding handler has a place for its session.
LEMMA RoomFits ==
  ASSUME AuthInv, Room, callback' = callback, Len(sessions') = Len(sessions) + 1
  PROVE  Fits'
<1>1. Len(sessions) \in Nat /\ MaxSessions \in Nat
  BY AuthAssumption DEF AuthInv, TypeOK
<1> QED
  BY <1>1 DEF Room, Fits, LoopFree

\* Finding or creating the account of an open invitation and binding the wallet.
LEMMA Joined ==
  ASSUME AuthInv, NEW i \in Invites, invites[i] # NoInvite, NEW w \in Wallets,
         Unbound(w, invites[i].org), users' = FindOrCreate(i),
         members' = InsertMember(invites[i].email, invites[i].org, w, invites[i].role, i)
  PROVE  /\ users' \in [Emails -> User \cup {NoUser}] /\ UsersStep /\ MembersStep
         /\ invites[i] \in Invite /\ invites[i].email \in Emails /\ invites[i].org \in Orgs
         /\ users'[invites[i].email] # NoUser
         /\ \E m \in members' : m.wallet = w /\ m.user = invites[i].email
<1> DEFINE e == invites[i].email
           o == invites[i].org
           role == invites[i].role
           u == [org |-> o, role |-> role, sso |-> FALSE, by |-> i]
           m == [user |-> e, org |-> o, wallet |-> w, role |-> role, by |-> i]
<1>1. invites[i] \in Invite /\ users \in [Emails -> User \cup {NoUser}]
  BY DEF AuthInv, TypeOK
<1>2. e \in Emails /\ o \in Orgs /\ role \in Roles
  BY <1>1 DEF Invite
<1>3. users' = IF users[e] # NoUser THEN users ELSE [users EXCEPT ![e] = u]
  BY DEF FindOrCreate
<1>4. members' = members \cup {m}
  BY DEF InsertMember
<1>5. o = invites[i].org /\ role = invites[i].role /\ e = invites[i].email
  OBVIOUS
<1> HIDE DEF e, o, role
<1>6. u \in User /\ u # NoUser /\ u.by = i /\ u.org = o /\ u.role = role
  <2>1. u \in User
    BY <1>2, Zenon DEF User
  <2>2. u.by = i /\ u.org = o /\ u.role = role
    BY Zenon
  <2> QED
    BY <2>1, <2>2, RowsAreRows
<1>7. m \in Member /\ m.user = e /\ m.org = o /\ m.wallet = w /\ m.role = role /\ m.by = i
  BY <1>2 DEF Member
<1> HIDE DEF u, m
<1>8. users' \in [Emails -> User \cup {NoUser}] /\ users'[e] # NoUser
  BY <1>1, <1>2, <1>3, <1>6
<1>9. UsersStep
  BY <1>1, <1>2, <1>3, <1>5, <1>6 DEF UsersStep
<1>10. MembersStep
  <2>1. Granted(m)
    BY <1>5, <1>7, <1>8, NamesAssumption DEF Granted
  <2> QED
    BY <1>4, <1>5, <1>7, <2>1 DEF MembersStep
<1> QED
  BY <1>1, <1>2, <1>4, <1>5, <1>7, <1>8, <1>9, <1>10

\* /auth/verify: the session and the used challenge are committed together.
LEMMA CommitStep ==
  ASSUME AuthInv, NEW t \in Threads, NEW e \in Emails, NEW o \in Orgs,
         verify[t].at = "marked", VerifyCommit(t, e, o),
         users' \in [Emails -> User \cup {NoUser}], UsersStep, MembersStep,
         users'[e] # NoUser,
         \E m \in members' : m.wallet = challenges[verify[t].nonce].wallet /\ m.user = e
  PROVE  StepOK
<1>1. Typed
  BY TypesGiveTyped DEF AuthInv
<1>2. PICK n \in Nonces : n = verify[t].nonce
  BY <1>1 DEF Typed, Idle
<1>3. verify[t] # Idle /\ challenges[n] # NoChallenge
  BY <1>2 DEF AuthInv, ChallengesOK, Idle
<1> DEFINE c == [challenges[n] EXCEPT !.used = TRUE]
           Challenge == [wallet : Wallets, expires : Nat, used : BOOLEAN]
<1>4. challenges[n] \in Challenge
  BY <1>1, <1>3 DEF Typed
<1>5. /\ UNCHANGED <<invites, orgs, idp, pending, callback, admin, asked, now, restarts>>
      /\ Room /\ challenges' = [challenges EXCEPT ![n] = c]
      /\ sessions' = NewSession(e, o, challenges[n].wallet, n, FALSE)
      /\ verify' = [verify EXCEPT ![t] = Idle]
  BY <1>2 DEF VerifyCommit
<1>6. c \in Challenge /\ c.used /\ c # NoChallenge
  <2>1. PICK x \in Challenge : x = challenges[n]
    BY <1>4
  <2>2. [x EXCEPT !.used = TRUE] \in Challenge /\ [x EXCEPT !.used = TRUE].used
    BY Zenon
  <2> QED
    BY <2>1, <2>2, RowsAreRows
<1> HIDE DEF c
<1>7. challenges[n].wallet \in Wallets
  BY <1>4
<1> HIDE DEF Challenge
<1>8. LastSession(e, o, challenges[n].wallet, n, FALSE)
  BY <1>5, <1>7, NewSessionIsLast
<1>9. PICK s \in Session : /\ sessions' = Append(sessions, s)
                           /\ s.user = e /\ s.wallet = challenges[n].wallet /\ s.from = n /\ ~s.saml
  BY <1>8, Zenon DEF LastSession
<1>10. challenges' \in [Nonces -> {NoChallenge} \cup Challenge] /\ challenges'[n] = c
       /\ \A x \in Nonces : x # n => challenges'[x] = challenges[x]
  BY <1>1, <1>5, <1>6 DEF Typed, Challenge
<1>11. verify' \in [Threads -> {Idle} \cup [at : {"selected", "marked"}, nonce : Nonces,
                                             invite : Invites \cup {NoInvite}]]
  BY <1>1, <1>5 DEF Typed
<1>12. Typed'
  BY <1>1, <1>5, <1>10, <1>11 DEF Typed, Challenge
<1>13. Identified(s)
  <2>1. s.from \notin Requests
    BY <1>9, NamesAssumption
  <2> QED
    BY <1>2, <1>6, <1>9, <1>10, <2>1 DEF Identified
<1>14. SessionsStep /\ ChallengesStep
  BY <1>3, <1>6, <1>9, <1>10, <1>13 DEF SessionsStep, ChallengesStep
<1>15. VerifyStep
  BY <1>1, <1>5 DEF Typed, VerifyStep
<1>16. Fits'
  BY <1>5, <1>8, RoomFits DEF LastSession
<1> QED
  BY <1>5, <1>12, <1>14, <1>15, <1>16, Frame DEF StepOK

\* /auth/verify commits the mark and the session together, for a new or a known user.
LEMMA VerifySteps ==
  ASSUME AuthInv, NEW t \in Threads, VerifyOnboard(t) \/ VerifyReauth(t)
  PROVE  StepOK
<1>1. Typed /\ members \subseteq Member /\ verify[t].at = "marked"
  BY TypesGiveTyped DEF AuthInv, TypeOK, VerifyOnboard, VerifyReauth
<1>2. PICK n \in Nonces, i \in Invites \cup {NoInvite} : n = verify[t].nonce /\ i = verify[t].invite
  BY <1>1 DEF Typed, Idle
<1>3. challenges[n] # NoChallenge /\ challenges[n].wallet \in Wallets
  <2>1. challenges[n] # NoChallenge
    BY <1>1, <1>2 DEF AuthInv, ChallengesOK, Idle
  <2> QED
    BY <1>1, <2>1 DEF Typed
<1>4. CASE VerifyOnboard(t)
  <2>1. /\ i \in Invites /\ invites[i] # NoInvite /\ Unbound(challenges[n].wallet, invites[i].org)
        /\ users' = FindOrCreate(i)
        /\ members' = InsertMember(invites[i].email, invites[i].org, challenges[n].wallet,
                                   invites[i].role, i)
        /\ VerifyCommit(t, invites[i].email, invites[i].org)
    BY <1>2, <1>4 DEF VerifyOnboard, InvitationOpen
  <2>2. /\ users' \in [Emails -> User \cup {NoUser}] /\ UsersStep /\ MembersStep
        /\ invites[i].email \in Emails /\ invites[i].org \in Orgs
        /\ users'[invites[i].email] # NoUser
        /\ \E m \in members' : m.wallet = challenges[n].wallet /\ m.user = invites[i].email
    BY <1>3, <2>1, Joined
  <2> QED
    BY <1>1, <1>2, <2>1, <2>2, CommitStep
<1>5. CASE VerifyReauth(t)
  <2>1. PICK m \in members : /\ m.wallet = challenges[n].wallet
                             /\ VerifyCommit(t, m.user, m.org) /\ users' = users /\ members' = members
    BY <1>2, <1>5 DEF VerifyReauth
  <2>2. m.user \in Emails /\ m.org \in Orgs /\ users[m.user] # NoUser
    BY <1>1 DEF Member, AuthInv, MembersAreUsers
  <2>3. users' \in [Emails -> User \cup {NoUser}] /\ UsersStep /\ MembersStep
    BY <1>1, <2>1, Frame DEF Typed
  <2>4. \E k \in members' : k.wallet = challenges[verify[t].nonce].wallet /\ k.user = m.user
    BY <1>2, <2>1
  <2> QED
    BY <1>1, <2>1, <2>2, <2>3, <2>4, CommitStep
<1> QED
  BY <1>4, <1>5

\* The chain-aware endpoints.
LEMMA DirectStep ==
  ASSUME AuthInv, NEW e \in Emails, NEW o \in Orgs, NEW w \in Wallets, Room,
         sessions' = NewSession(e, o, w, "direct", FALSE),
         UNCHANGED <<challenges, orgs, idp, pending, verify, callback, admin, asked, now, restarts>>,
         users' \in [Emails -> User \cup {NoUser}], UsersStep, MembersStep,
         invites' \in [Invites -> Invite \cup {NoInvite}], InvitesStep,
         users'[e] # NoUser, \E m \in members' : m.wallet = w /\ m.user = e
  PROVE  StepOK
<1>1. Typed'
  BY TypesGiveTyped DEF AuthInv, Typed
<1>2. LastSession(e, o, w, "direct", FALSE)
  BY NewSessionIsLast
<1>3. PICK s \in Session : /\ sessions' = Append(sessions, s) /\ s.user = e /\ s.wallet = w
                           /\ s.from = "direct" /\ ~s.saml
  BY <1>2, Zenon DEF LastSession
<1>4. s.from \notin Nonces /\ s.from \notin Requests
  BY <1>3, NamesAssumption
<1>5. SessionsStep
  BY <1>3, <1>4 DEF SessionsStep, Identified
<1>6. Fits'
  BY <1>2, RoomFits DEF LastSession
<1> QED
  BY <1>1, <1>5, <1>6, Frame DEF StepOK

\* Onboarding creates the user, the membership and the session in one request.
LEMMA OnboardSteps ==
  ASSUME AuthInv, NEW i \in Invites, NEW w \in Wallets, BindWallet(i, w) \/ AuthOnboard(i, w)
  PROVE  StepOK
<1>1. Room /\ invites[i] # NoInvite /\ AcceptInvitation(i, w)
  BY DEF BindWallet, AuthOnboard, InvitationOpen
<1>2. /\ Unbound(w, invites[i].org) /\ users' = FindOrCreate(i)
      /\ members' = InsertMember(invites[i].email, invites[i].org, w, invites[i].role, i)
      /\ invites' = [invites EXCEPT ![i].accepted = TRUE]
      /\ sessions' = NewSession(invites[i].email, invites[i].org, w, "direct", FALSE)
      /\ UNCHANGED <<challenges, orgs, idp, pending, verify, callback, admin, asked, now, restarts>>
  BY <1>1 DEF AcceptInvitation
<1>3. /\ users' \in [Emails -> User \cup {NoUser}] /\ UsersStep /\ MembersStep
      /\ invites[i] \in Invite /\ invites[i].email \in Emails /\ invites[i].org \in Orgs
      /\ users'[invites[i].email] # NoUser
      /\ \E m \in members' : m.wallet = w /\ m.user = invites[i].email
  BY <1>1, <1>2, Joined
<1>4. invites' \in [Invites -> Invite \cup {NoInvite}] /\ InvitesStep
  <2>1. PICK v \in Invite : v = invites[i]
    BY <1>3
  <2> DEFINE x == [v EXCEPT !.accepted = TRUE]
  <2>2. x \in Invite
    BY Zenon DEF Invite
  <2>3. x.org = v.org /\ x.role = v.role
    BY DEF Invite
  <2>4. invites' = [invites EXCEPT ![i] = x] /\ x # NoInvite
    BY <1>2, <2>1, <2>2, RowsAreRows
  <2> HIDE DEF x
  <2>5. invites \in [Invites -> Invite \cup {NoInvite}]
    BY DEF AuthInv, TypeOK
  <2> QED
    BY <2>1, <2>2, <2>3, <2>4, <2>5 DEF InvitesStep
<1> QED
  BY <1>1, <1>2, <1>3, <1>4, DirectStep

\* A login gives a session to the user the wallet is bound to.
LEMMA LoginStep == ASSUME AuthInv, NEW w \in Wallets, AuthLogin(w) PROVE StepOK
<1>1. PICK m \in members : m.wallet = w /\ sessions' = NewSession(m.user, m.org, w, "direct", FALSE)
  BY DEF AuthLogin
<1>2. /\ Room
      /\ UNCHANGED <<users, members, invites, challenges, orgs, idp, pending, verify, callback,
                     admin, asked, now, restarts>>
  BY DEF AuthLogin
<1>3. Typed /\ members \subseteq Member
  BY TypesGiveTyped DEF AuthInv, TypeOK
<1>4. m.user \in Emails /\ m.org \in Orgs /\ users[m.user] # NoUser
  BY <1>3 DEF Member, AuthInv, MembersAreUsers
<1>5. /\ users' \in [Emails -> User \cup {NoUser}] /\ UsersStep /\ MembersStep
      /\ invites' \in [Invites -> Invite \cup {NoInvite}] /\ InvitesStep
  BY <1>2, <1>3, Frame DEF Typed
<1>6. users'[m.user] # NoUser /\ \E k \in members' : k.wallet = w /\ k.user = m.user
  BY <1>1, <1>2, <1>4
<1> QED
  BY <1>1, <1>2, <1>4, <1>5, <1>6, DirectStep

\* The added wallet's row carries the account's own organisation and role.
LEMMA AddWalletStep ==
  ASSUME AuthInv, NEW k \in 1 .. MaxSessions, NEW w \in Wallets, AddWallet(k, w)
  PROVE  StepOK
<1> DEFINE e == sessions[k].user
           u == users[e]
           m == [user |-> e, org |-> u.org, wallet |-> w, role |-> u.role, by |-> NoInvite]
<1>1. /\ k \in DOMAIN sessions /\ Unbound(w, u.org) /\ members' = members \cup {m}
      /\ UNCHANGED <<users, invites, challenges, sessions, orgs, idp, pending, verify, callback,
                     admin, asked, now, restarts>>
  BY DEF AddWallet, InsertMember
<1>2. e \in Emails /\ u # NoUser /\ u \in User
  BY <1>1, SessionsAreOfUsers DEF AuthInv
<1>3. u = users[e]
  OBVIOUS
<1> HIDE DEF e, u
<1>4. /\ m \in Member /\ m.user = e /\ m.org = u.org /\ m.wallet = w /\ m.role = u.role
      /\ m.by = NoInvite
  BY <1>2 DEF Member, User
<1> HIDE DEF m
<1>5. Granted(m)
  BY <1>1, <1>2, <1>3, <1>4 DEF Granted
<1>6. MembersStep
  BY <1>1, <1>4, <1>5 DEF MembersStep
<1>7. Typed'
  BY <1>1, TypesGiveTyped DEF AuthInv, Typed
<1>8. Fits'
  BY <1>1, FitsKept
<1> QED
  BY <1>1, <1>6, <1>7, <1>8, Frame DEF StepOK

-----------------------------------------------------------------------------
(* SAML single sign-on, and a restart.                                     *)

\* A pending request is of the current run and has not been consumed.
LEMMA ConsumeSpends ==
  ASSUME AuthInv, NEW p \in Responses, pending' = Consume(p)
  PROVE  /\ pending' \in [Requests -> {Unsent, Spent}
                            \cup [created : Nat, org : Orgs, invite : Invites \cup {NoInvite}]]
         /\ PendingStep
         /\ p.to \in Requests /\ IsPending(p.to) => pending'[p.to] = Spent /\ pending[p.to] # Spent
<1>1. /\ p.to \in Requests \cup {NoRequest}
      /\ pending \in [Requests -> {Unsent, Spent}
                        \cup [created : Nat, org : Orgs, invite : Invites \cup {NoInvite}]]
  BY NamesAssumption DEF AuthInv, TypeOK
<1>2. CASE p.to = NoRequest
  BY <1>1, <1>2, NamesAssumption DEF Consume, PendingStep
<1>3. CASE p.to # NoRequest
  <2>1. p.to \in Requests
    BY <1>1, <1>3
  <2>2. pending' = [pending EXCEPT ![p.to] = IF IsPending(p.to) THEN Spent ELSE pending[p.to]]
    BY <1>3 DEF Consume
  <2>3. IsPending(p.to) => pending[p.to] # Spent
    BY DEF IsPending
  <2> HIDE DEF IsPending
  <2> QED
    BY <1>1, <2>1, <2>2, <2>3 DEF PendingStep
<1> QED
  BY <1>2, <1>3

\* An SSO login starts under an AuthnRequest that was never used.
LEMMA LoginRequestStep ==
  ASSUME AuthInv, NEW r \in Requests, NEW o \in Orgs, NEW i \in Invites \cup {NoInvite},
         SsoSamlLogin(r, o, i)
  PROVE  StepOK
<1> DEFINE Open == [created : Nat, org : Orgs, invite : Invites \cup {NoInvite}]
           x == [created |-> now, org |-> o, invite |-> i]
<1>1. /\ UNCHANGED <<users, members, invites, challenges, sessions, orgs, idp, verify, callback,
                     admin, asked, now, restarts>>
      /\ pending[r] = Unsent
      /\ pending' = [q \in Requests |-> IF q = r THEN x ELSE IF Expired(q) THEN Spent ELSE pending[q]]
  BY DEF SsoSamlLogin, GenerateAuthnRequest, tables
<1>2. Typed /\ now \in Nat /\ pending \in [Requests -> {Unsent, Spent} \cup Open]
  BY TypesGiveTyped DEF AuthInv, TypeOK
<1>3. x \in Open
  BY <1>2
<1> HIDE DEF x, Open
<1>4. pending' \in [Requests -> {Unsent, Spent} \cup Open]
  BY <1>1, <1>2, <1>3
<1>5. Typed'
  BY <1>1, <1>2, <1>4 DEF Typed, Open
<1>6. PendingStep
  <2>1. Unsent # Spent
    BY DEF Unsent, Spent
  <2> QED
    BY <1>1, <2>1 DEF PendingStep
<1>7. Fits'
  BY <1>1, FitsKept
<1> QED
  BY <1>1, <1>5, <1>6, <1>7, Frame DEF StepOK

\* A response that is accepted spends its request and begins a callback.
LEMMA CallbackBegins ==
  ASSUME AuthInv, NEW p \in Responses, NEW o \in Orgs, NEW i \in Invites \cup {NoInvite},
         NEW at \in {"mark", "session"},
         LoopFree, Room, InResponseTo(p), pending' = Consume(p),
         callback' = CallbackFor(at, p, o, i),
         UNCHANGED <<members, invites, challenges, sessions, orgs, idp, verify,
                     admin, asked, now, restarts>>,
         users' \in [Emails -> User \cup {NoUser}], UsersStep,
         users'[p.subject] # NoUser, users'[p.subject].sso, users'[p.subject].org = o,
         at = "mark" => i \in Invites /\ invites[i] # NoInvite
  PROVE  StepOK
<1> DEFINE from == IF p.to = NoRequest THEN "direct" ELSE p.to
           Call == [at : {"mark", "session"}, user : Emails, org : Orgs,
                    invite : Invites \cup {NoInvite}, from : Requests \cup {"direct"}]
           c == [at |-> at, user |-> p.subject, org |-> o, invite |-> i, from |-> from]
<1>1. p.to \in Requests \cup {NoRequest} /\ p.subject \in Emails
  BY NamesAssumption
<1>2. callback' = c
  BY DEF CallbackFor
<1>3. from \in Requests \cup {"direct"}
  BY <1>1
<1>4. from \in Requests => from = p.to /\ p.to # NoRequest
  BY NamesAssumption
<1> HIDE DEF from
<1>5. /\ c \in Call /\ c.at = at /\ c.user = p.subject /\ c.org = o /\ c.invite = i
      /\ c.from = from
  BY <1>1, <1>3
<1>6. c # Idle
  BY DEF Idle
<1> HIDE DEF c
<1>7. from \in Requests => pending[from] # Spent /\ pending'[from] = Spent
  BY <1>4, ConsumeSpends DEF InResponseTo
<1>8. CallbackStep
  BY <1>2, <1>5, <1>7 DEF CallbackStep
<1>9. PendingStep /\ pending' \in [Requests -> {Unsent, Spent}
                        \cup [created : Nat, org : Orgs, invite : Invites \cup {NoInvite}]]
  BY ConsumeSpends
<1>10. Typed'
  <2>1. Typed /\ callback' \in Call
    BY <1>2, <1>5, TypesGiveTyped DEF AuthInv
  <2> QED
    BY <1>9, <2>1 DEF Typed
<1>11. Fits'
  <2>1. Len(sessions) \in Nat /\ MaxSessions \in Nat
    BY AuthAssumption DEF AuthInv, TypeOK
  <2>2. Len(sessions) + 1 <= MaxSessions
    BY <2>1 DEF Room, LoopFree
  <2> QED
    BY <1>2, <1>6, <2>1, <2>2 DEF Fits, LoopFree
<1> QED
  BY <1>8, <1>9, <1>10, <1>11, Frame DEF StepOK

\* The callback of an account that exists goes on to its session.
LEMMA ReturningStep ==
  ASSUME AuthInv, NEW p \in Responses, NEW o \in Orgs, SsoReturning(p, o)
  PROVE  StepOK
<1>1. /\ LoopFree /\ Room /\ InResponseTo(p) /\ pending' = Consume(p)
      /\ callback' = CallbackFor("session", p, o, NoInvite)
      /\ UNCHANGED <<users, members, invites, challenges, sessions, orgs, idp, verify,
                     admin, asked, now, restarts>>
      /\ users[p.subject] # NoUser /\ users[p.subject].sso /\ users[p.subject].org = o
  BY DEF SsoReturning, VerifySamlResponse, FindUserBySso, tables
<1>2. users' \in [Emails -> User \cup {NoUser}] /\ UsersStep
  BY <1>1, Frame DEF AuthInv, TypeOK
<1>3. NoInvite \in Invites \cup {NoInvite} /\ "session" \in {"mark", "session"} /\ "session" # "mark"
  OBVIOUS
<1> QED
  BY <1>1, <1>2, <1>3, CallbackBegins

\* A first login creates an account the invitation grants.
LEMMA FirstLoginStep ==
  ASSUME AuthInv, NEW p \in Responses, NEW o \in Orgs, NEW relay \in Invites \cup {NoInvite},
         SsoFirstLogin(p, o, relay)
  PROVE  StepOK
<1>0. PICK i : i = InvitationOf(p, relay)
  OBVIOUS
<1>1. /\ LoopFree /\ Room /\ InResponseTo(p) /\ pending' = Consume(p)
      /\ callback' = CallbackFor("mark", p, o, i)
      /\ UNCHANGED <<members, invites, challenges, sessions, orgs, idp, verify,
                     admin, asked, now, restarts>>
      /\ i # NoInvite /\ invites[i] # NoInvite /\ invites[i].org = o
      /\ users[p.subject] = NoUser
      /\ users' = CreateSsoUser(p, o, i)
  BY <1>0 DEF SsoFirstLogin, VerifySamlResponse, ValidateInvitationToken
<1>2. i \in Invites
  <2>1. CASE p.to # NoRequest /\ pending[p.to].invite # NoInvite
    <3>1. p.to \in Requests /\ IsPending(p.to)
      BY <1>1, <2>1, NamesAssumption DEF InResponseTo
    <3>2. pending[p.to] \in [created : Nat, org : Orgs, invite : Invites \cup {NoInvite}]
      BY <3>1 DEF AuthInv, TypeOK, IsPending
    <3> QED
      BY <1>0, <1>1, <2>1, <3>2 DEF InvitationOf
  <2>2. CASE ~(p.to # NoRequest /\ pending[p.to].invite # NoInvite)
    BY <1>0, <1>1, <2>2 DEF InvitationOf
  <2> QED
    BY <2>1, <2>2
<1> DEFINE e == p.subject
           role == invites[i].role
           u == [org |-> o, role |-> role, sso |-> TRUE, by |-> i]
<1>3. e \in Emails /\ role \in Roles /\ users \in [Emails -> User \cup {NoUser}]
  <2>1. invites[i] \in Invite
    BY <1>1, <1>2 DEF AuthInv, TypeOK
  <2> QED
    BY <2>1, NamesAssumption DEF AuthInv, TypeOK, Invite
<1>4. users' = [users EXCEPT ![e] = u]
  BY <1>1 DEF CreateSsoUser
<1>5. role = invites[i].role /\ e = p.subject
  OBVIOUS
<1> HIDE DEF e, role
<1>6. u \in User /\ u # NoUser /\ u.org = o /\ u.role = role /\ u.by = i /\ u.sso
  <2>1. u \in User
    BY <1>2, <1>3, Zenon DEF User
  <2>2. u.org = o /\ u.role = role /\ u.by = i /\ u.sso
    BY Zenon
  <2> QED
    BY <2>1, <2>2, RowsAreRows
<1> HIDE DEF u
<1>7. users' \in [Emails -> User \cup {NoUser}] /\ users'[e] = u
  BY <1>3, <1>4, <1>6
<1>8. UsersStep
  BY <1>1, <1>2, <1>3, <1>4, <1>5, <1>6 DEF UsersStep
<1>9. users'[p.subject] # NoUser /\ users'[p.subject].sso /\ users'[p.subject].org = o
  BY <1>5, <1>6, <1>7
<1>10. "mark" \in {"mark", "session"} /\ i \in Invites \cup {NoInvite}
  BY <1>2
<1> QED
  BY <1>1, <1>2, <1>7, <1>8, <1>9, <1>10, CallbackBegins

\* A refused callback has spent its AuthnRequest and makes no session.
LEMMA RefusedStep ==
  ASSUME AuthInv, NEW p \in Responses, NEW o \in Orgs, SsoRefused(p, o)
  PROVE  StepOK
<1>1. /\ UNCHANGED <<users, members, invites, challenges, sessions, orgs, idp, verify, callback,
                     admin, asked, now, restarts>>
      /\ pending' = Consume(p)
  BY DEF SsoRefused, tables
<1>2. Typed'
  BY <1>1, ConsumeSpends, TypesGiveTyped DEF AuthInv, Typed
<1>3. PendingStep /\ Fits'
  BY <1>1, ConsumeSpends, FitsKept
<1> QED
  BY <1>1, <1>2, <1>3, Frame DEF StepOK

\* The second commit of the callback marks the invitation and leaves the account.
LEMMA MarkStep == ASSUME AuthInv, MarkInvitationUsed PROVE StepOK
<1> DEFINE Call == [at : {"mark", "session"}, user : Emails, org : Orgs,
                    invite : Invites \cup {NoInvite}, from : Requests \cup {"direct"}]
<1>1. Typed /\ callback # Idle /\ callback \in Call
  BY TypesGiveTyped DEF AuthInv, MarkInvitationUsed, Typed, Idle
<1>2. PICK i \in Invites : i = callback.invite /\ invites[i] # NoInvite
  BY <1>1 DEF AuthInv, CallbackOK, MarkInvitationUsed
<1>3. PICK v \in Invite : v = invites[i]
  BY <1>1, <1>2 DEF Typed
<1> DEFINE x == [v EXCEPT !.used = TRUE]
           c == [callback EXCEPT !.at = "session"]
<1>4. /\ UNCHANGED <<users, members, challenges, sessions, orgs, idp, pending, verify,
                     admin, asked, now, restarts>>
      /\ invites' = [invites EXCEPT ![i] = x] /\ callback' = c
  BY <1>2, <1>3 DEF MarkInvitationUsed
<1>5. x \in Invite /\ x # NoInvite
  <2>1. x \in Invite
    BY Zenon DEF Invite
  <2> QED
    BY <2>1, RowsAreRows
<1>6. x.org = v.org /\ x.role = v.role
  BY DEF Invite
<1>7. /\ c \in Call /\ c.at = "session" /\ c.user = callback.user /\ c.org = callback.org
      /\ c.from = callback.from /\ c # Idle
  BY <1>1 DEF Idle
<1> HIDE DEF x, c
<1>8. invites' \in [Invites -> Invite \cup {NoInvite}] /\ InvitesStep
  BY <1>1, <1>3, <1>4, <1>5, <1>6 DEF Typed, InvitesStep
<1>9. CallbackStep
  BY <1>1, <1>4, <1>7 DEF CallbackStep
<1>10. Typed'
  BY <1>1, <1>4, <1>7, <1>8 DEF Typed
<1>11. Fits'
  BY <1>1, <1>4, <1>7 DEF AuthInv, Fits, LoopFree
<1> QED
  BY <1>4, <1>8, <1>9, <1>10, <1>11, Frame DEF StepOK

\* The callback's session is of the account it has committed.
LEMMA SessionStep == ASSUME AuthInv, CreateSession PROVE StepOK
<1> DEFINE e == callback.user
           o == callback.org
           from == callback.from
<1>1. /\ UNCHANGED <<users, members, invites, challenges, orgs, idp, pending, verify,
                     admin, asked, now, restarts>>
      /\ sessions' = NewSession(e, o, NoWallet, from, TRUE) /\ callback' = Idle /\ callback # Idle
  BY DEF CreateSession, Idle
<1>2. Typed /\ e \in Emails /\ o \in Orgs /\ from \in Requests \cup {"direct"}
  BY <1>1, TypesGiveTyped DEF AuthInv, Typed
<1>3. users[e] # NoUser /\ users[e].sso /\ users[e].org = o
  BY <1>1 DEF AuthInv, CallbackOK
<1>4. from = callback.from
  OBVIOUS
<1> HIDE DEF e, o, from
<1>5. LastSession(e, o, NoWallet, from, TRUE)
  BY <1>1, <1>2, NewSessionIsLast
<1>6. PICK s \in Session : /\ sessions' = Append(sessions, s) /\ s.user = e /\ s.org = o
                           /\ s.wallet = NoWallet /\ s.from = from
  BY <1>5, Zenon DEF LastSession
<1>7. s.from \notin Nonces
  BY <1>2, <1>6, NamesAssumption
<1>8. Identified(s)
  BY <1>1, <1>3, <1>4, <1>6, <1>7 DEF Identified
<1>9. SessionsStep /\ CallbackStep
  BY <1>1, <1>6, <1>8 DEF SessionsStep, CallbackStep
<1>10. Typed'
  BY <1>1, <1>2 DEF Typed
<1>11. Fits'
  <2>1. Len(sessions) \in Nat /\ MaxSessions \in Nat
    BY AuthAssumption DEF AuthInv, TypeOK
  <2>2. Len(sessions) + 1 <= MaxSessions
    BY <1>1 DEF AuthInv, Fits, LoopFree
  <2>3. Len(sessions') = Len(sessions) + 1
    BY <1>5 DEF LastSession
  <2>4. LoopFree'
    BY <1>1 DEF LoopFree
  <2> QED
    BY <2>1, <2>2, <2>3, <2>4 DEF Fits
<1> QED
  BY <1>1, <1>9, <1>10, <1>11, Frame DEF StepOK

\* A restart forgets pending requests and the replay cache; a spent request stays spent.
LEMMA RestartStep == ASSUME AuthInv, Restart PROVE StepOK
<1>1. /\ UNCHANGED <<users, members, invites, challenges, sessions, orgs, idp, admin, asked, now>>
      /\ restarts' = restarts + 1 /\ callback' = Idle /\ verify' = [t \in Threads |-> Idle]
      /\ pending' = [r \in Requests |-> IF IsPending(r) THEN Spent ELSE pending[r]]
  BY DEF Restart, tables
<1>2. Typed
  BY TypesGiveTyped DEF AuthInv
<1>3. Typed'
  BY <1>1, <1>2 DEF Typed
<1>4. PendingStep /\ VerifyStep /\ CallbackStep
  BY <1>1 DEF PendingStep, VerifyStep, CallbackStep
<1>5. Fits'
  BY <1>1, FitsKept
<1> QED
  BY <1>1, <1>3, <1>4, <1>5, Frame DEF StepOK

-----------------------------------------------------------------------------
\* Every action of the server is a StepOK.
LEMMA NextIsOK == ASSUME AuthInv, Next PROVE StepOK
<1>1. CASE AdminLogin \/ Tick
  BY <1>1, AdminSteps
<1>2. ASSUME NEW o \in Orgs,
             CreateAdminOrg(o) \/ CreateIdpConfigEndpoint(o) \/ DeleteIdpConfigEndpoint(o)
      PROVE  StepOK
  BY <1>2, AdminSteps
<1>3. ASSUME NEW i \in Invites, NEW o \in Orgs, NEW e \in Emails, InviteAdminToOrg(i, o, e)
      PROVE  StepOK
  BY <1>3, InviteStep
<1>4. ASSUME NEW n \in Nonces, NEW w \in Wallets, SiwwCreateChallenge(n, w) \/ AuthNonce(n, w)
      PROVE  StepOK
  BY <1>4, ChallengeStep DEF SiwwCreateChallenge, AuthNonce
<1>5. ASSUME NEW t \in Threads, NEW n \in Nonces, NEW i \in Invites \cup {NoInvite},
             VerifySelect(t, n, i)
      PROVE  StepOK
  BY <1>5, ThreadSteps
<1>6. ASSUME NEW t \in Threads,
             VerifyMark(t) \/ VerifyOnboard(t) \/ VerifyReauth(t) \/ VerifyRollback(t)
      PROVE  StepOK
  BY <1>6, ThreadSteps, VerifySteps
<1>7. ASSUME NEW k \in 1 .. MaxSessions, Logout(k) PROVE StepOK
  BY <1>7, LogoutStep
<1>8. ASSUME NEW i \in Invites, NEW w \in Wallets, BindWallet(i, w) \/ AuthOnboard(i, w)
      PROVE  StepOK
  BY <1>8, OnboardSteps
<1>9. ASSUME NEW w \in Wallets, AuthLogin(w) PROVE StepOK
  BY <1>9, LoginStep
<1>10. ASSUME NEW k \in 1 .. MaxSessions, NEW w \in Wallets, AddWallet(k, w) PROVE StepOK
  BY <1>10, AddWalletStep
<1>11. ASSUME NEW r \in Requests, NEW o \in Orgs, NEW i \in Invites \cup {NoInvite},
              SsoSamlLogin(r, o, i)
       PROVE  StepOK
  BY <1>11, LoginRequestStep
<1>12. ASSUME NEW p \in Responses, NEW o \in Orgs, SsoReturning(p, o) \/ SsoRefused(p, o)
       PROVE  StepOK
  BY <1>12, ReturningStep, RefusedStep
<1>13. ASSUME NEW p \in Responses, NEW o \in Orgs, NEW i \in Invites \cup {NoInvite},
              SsoFirstLogin(p, o, i)
       PROVE  StepOK
  BY <1>13, FirstLoginStep
<1>14. CASE MarkInvitationUsed \/ CreateSession \/ Restart
  BY <1>14, MarkStep, SessionStep, RestartStep
<1> QED
  BY <1>1, <1>2, <1>3, <1>4, <1>5, <1>6, <1>7, <1>8, <1>9, <1>10, <1>11, <1>12, <1>13, <1>14,
     Zenon DEF Next

\* The invariant is inductive.
LEMMA AuthStep == AuthInv /\ [Next]_vars => AuthInv'
<1> SUFFICES ASSUME AuthInv, [Next]_vars PROVE StepOK
  BY InvKept
<1>1. CASE Next
  BY <1>1, NextIsOK
<1>2. CASE UNCHANGED vars
  <2>1. UNCHANGED <<users, members, invites, challenges, sessions, orgs, idp, pending, verify,
                    callback, admin, asked, now, restarts>>
    BY <1>2 DEF vars, tables
  <2>2. Typed'
    BY <2>1, TypesGiveTyped DEF AuthInv, Typed
  <2>3. Fits'
    BY <2>1, FitsKept
  <2> QED
    BY <2>1, <2>2, <2>3, Frame DEF StepOK
<1> QED
  BY <1>1, <1>2

\* It holds in every reachable state.
LEMMA AuthAlways == Spec => []AuthInv
BY AuthInit, AuthStep, PTL DEF Spec

\* Every state is well-typed: one owner for a wallet in an organisation, and every
\* session of an account that exists.
THEOREM TypeCorrect == Spec => []TypeOK
<1>1. AuthInv => TypeOK
  BY DEF AuthInv
<1> QED
  BY <1>1, AuthAlways, PTL

\* No account and no membership has an organisation or a role that no administrator
\* granted with an invitation (find-or-create, create_sso_user, add_wallet).
THEOREM RolesAreGranted == Spec => []RolesWereGranted
<1>1. AuthInv => RolesWereGranted
  BY DEF AuthInv
<1> QED
  BY <1>1, AuthAlways, PTL

\* A challenge is used exactly when a session was issued for it (siww_verify_signature).
THEOREM ChallengesAreSpentOnSessions == Spec => []ChallengeSpentWithSession
<1>1. AuthInv => ChallengeSpentWithSession
  BY DEF AuthInv, ChallengesOK, ChallengeSpentWithSession
<1> QED
  BY <1>1, AuthAlways, PTL

\* A session belongs to the account of the wallet or of the SAML subject it was issued to.
THEOREM SessionsBelong == Spec => []SessionsAreBound
<1>1. AuthInv => SessionsAreBound
  BY DEF AuthInv
<1> QED
  BY <1>1, AuthAlways, PTL

\* One AuthnRequest never yields two sessions, whatever is replayed, refused, expired
\* or lost in a restart (the replay cache of saml_handler).
THEOREM ResponsesAreNotReplayed == Spec => []AuthnRequestYieldsOneSession
<1>1. AuthInv => AuthnRequestYieldsOneSession
  BY DEF AuthInv
<1> QED
  BY <1>1, AuthAlways, PTL

=============================================================================
