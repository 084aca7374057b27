----------------------------- MODULE MagicLinks -----------------------------
(***************************************************************************)
(* The remediation flow: api/remediation_routes.py (magic links) and the   *)
(* purchase endpoint of the demonstration merchant, api/demo_neuralbridge. *)
(*                                                                         *)
(* A merchant that refuses an agent has a link generated; the human opens  *)
(* it on an authorize page and approves (a signed credential is stored     *)
(* under the link) or declines; the agent polls the link and buys with the *)
(* credential it is given.  A page is one browser tab, so two of them may  *)
(* be open on one link.  The endpoints are plain functions: each runs in a *)
(* thread of its own and they interleave at every SQL statement.           *)
(***************************************************************************)
EXTENDS Clock

CONSTANTS Links,        \* jti values
          Pages,        \* authorize pages the human may open
          NoPage,       \* credential_json IS NULL
          NoLink,       \* the link of a page that shows none
          TTL,          \* ttl_minutes
          MaxReceipts   \* bound: purchases with one credential

ASSUME LinkAssumption ==
  /\ TTL \in Nat /\ MaxTime \in Nat /\ MaxReceipts \in Nat
  /\ NoPage \notin Pages /\ NoLink \notin Links

VARIABLES link,         \* magic_link_tokens, by jti
          page,         \* the authorize pages and the requests they send
          cred,         \* cred[p]: the credential signed on page p
          told,         \* told[l]: the statuses polls of l returned
          got,          \* got[l]: whose credentials those polls returned
          bought        \* bought[p]: bought issued for p's credential

linkVars == <<link, page, cred, told, got, bought, now>>

Levels == {"one-time", "recurring", "policy"}
Amounts == 1 .. 2     \* the amount of the refused purchase, and more than that
Statuses == {"declined", "authorized", "expired", "pending"}

Unissued == [issued |-> FALSE, expires |-> 0, redeemed |-> FALSE, declined |-> FALSE,
          credential |-> NoPage]
NoCred == [signed |-> FALSE, level |-> "policy", until |-> 0]
Closed == [pc |-> "closed", link |-> NoLink]

LinkInit ==
  /\ link = [l \in Links |-> Unissued]
  /\ page = [p \in Pages |-> Closed]
  /\ cred = [p \in Pages |-> NoCred]
  /\ told = [l \in Links |-> {}]
  /\ got = [l \in Links |-> {}]
  /\ bought = [p \in Pages |-> 0]
  /\ now = 0

-----------------------------------------------------------------------------
LinkTick ==
  /\ Later
  /\ UNCHANGED <<link, page, cred, told, got, bought>>

\* attempt_purchase without a credential, and generate_magic_link behind it.
GenerateMagicLink(l) ==
  /\ ~link[l].issued
  /\ now + TTL < MaxTime
  /\ link' = [link EXCEPT ![l] = [Unissued EXCEPT !.issued = TRUE, !.expires = now + TTL]]
  /\ UNCHANGED <<page, cred, told, got, bought, now>>

\* pyjwt.decode refuses a token from the second of its exp on; the comparisons
\* with the expires_at column refuse it only after that.
JwtValid(l) == now < link[l].expires
ColumnExpired(l) == link[l].expires < now

\* What verify_magic_link, resolve_short_url and resolve_slug check of a row.
Usable(l) == link[l].issued /\ ~link[l].redeemed /\ ~link[l].declined /\ ~ColumnExpired(l)

\* The human opens the link: by its token (verify_magic_link) or by its slug
\* (resolve_short_url and resolve_slug, which do not decode the token).
OpenByToken(p, l) ==
  /\ page[p].pc = "closed"
  /\ JwtValid(l)
  /\ Usable(l)
  /\ page' = [page EXCEPT ![p] = [pc |-> "open", link |-> l]]
  /\ UNCHANGED <<link, cred, told, got, bought, now>>

OpenBySlug(p, l) ==
  /\ page[p].pc = "closed"
  /\ Usable(l)
  /\ page' = [page EXCEPT ![p] = [pc |-> "open", link |-> l]]
  /\ UNCHANGED <<link, cred, told, got, bought, now>>

\* store_credential up to its SELECT: the human approved, the page signed a
\* credential and sends it; a redeemed or expired link refuses it.
StoreSelect(p, level) ==
  LET l == page[p].link IN
  /\ page[p].pc = "open"
  /\ JwtValid(l)
  /\ ~link[l].redeemed
  /\ ~ColumnExpired(l)
  /\ page' = [page EXCEPT ![p].pc = "storing"]
  /\ cred' = [cred EXCEPT ![p] = [signed |-> TRUE, level |-> level, until |-> now + TTL]]
  /\ UNCHANGED <<link, told, got, bought, now>>

\* The UPDATE ... WHERE jti = %s and the reply {"stored": True}.
StoreUpdate(p) ==
  LET l == page[p].link IN
  /\ page[p].pc = "storing"
  /\ link' = [link EXCEPT ![l].redeemed = TRUE, ![l].credential = p]
  /\ page' = [page EXCEPT ![p].pc = "stored"]
  /\ UNCHANGED <<cred, told, got, bought, now>>

\* Mutant of Decline: the UPDATE has no AND redeemed_at IS NULL.
DeclineAlways(p) ==
  LET l == page[p].link IN
  /\ page[p].pc = "open"
  /\ link' = [link EXCEPT ![l].declined = TRUE]
  /\ page' = [page EXCEPT ![p].pc = "declined"]
  /\ UNCHANGED <<cred, told, got, bought, now>>

\* decline_authorization: one UPDATE ... WHERE jti = %s AND redeemed_at IS NULL,
\* whether the link has expired or not.
Decline(p) ==
  LET l == page[p].link IN
  /\ page[p].pc = "open"
  /\ ~link[l].redeemed
  /\ link' = [link EXCEPT ![l].declined = TRUE]
  /\ page' = [page EXCEPT ![p].pc = "declined"]
  /\ UNCHANGED <<cred, told, got, bought, now>>

\* The request fails (401, 409, 410, 404 or a lost connection) or the tab is
\* closed; an open transaction is rolled back.
Leave(p) ==
  /\ page[p].pc \in {"open", "storing"}
  /\ page' = [page EXCEPT ![p].pc = "failed"]
  /\ UNCHANGED <<link, cred, told, got, bought, now>>

\* Mutants of PollStatus: the redeemed case comes first; an expired link is
\* still pending.
PollStatusRedeemedFirst(l) ==
  IF link[l].redeemed /\ link[l].credential # NoPage THEN "authorized"
  ELSE IF link[l].declined THEN "declined"
  ELSE IF ColumnExpired(l) THEN "expired" ELSE "pending"

PollStatusNoExpiry(l) ==
  IF link[l].declined THEN "declined"
  ELSE IF link[l].redeemed /\ link[l].credential # NoPage THEN "authorized"
  ELSE "pending"

\* retrieve_credential: the first of these that applies.
PollStatus(l) ==
  IF link[l].declined THEN "declined"
  ELSE IF link[l].redeemed /\ link[l].credential # NoPage THEN "authorized"
  ELSE IF ColumnExpired(l) THEN "expired" ELSE "pending"

Poll(l) ==
  /\ link[l].issued
  /\ told' = [told EXCEPT ![l] = @ \cup {PollStatus(l)}]
  /\ got' = IF PollStatus(l) = "authorized"
            THEN [got EXCEPT ![l] = @ \cup {link[l].credential}] ELSE got
  /\ UNCHANGED <<link, page, cred, bought, now>>

\* _verify_delegation_credential: in time, and the scope of its level covers the
\* amount.
VerifyDelegation(c, amount) ==
  /\ now <= c.until
  /\ CASE c.level = "one-time" -> amount = 1
       [] c.level = "recurring" -> amount <= 1
       [] c.level = "policy" -> TRUE

\* attempt_purchase with a credential a poll returned: a receipt is issued.
Purchase(l, p, amount) ==
  /\ p \in got[l]
  /\ bought[p] < MaxReceipts
  /\ VerifyDelegation(cred[p], amount)
  /\ bought' = [bought EXCEPT ![p] = @ + 1]
  /\ UNCHANGED <<link, page, cred, told, got, now>>

PageStep(p) ==
  \/ \E l \in Links : OpenByToken(p, l) \/ OpenBySlug(p, l)
  \/ \E level \in Levels : StoreSelect(p, level)
  \/ StoreUpdate(p)
  \/ Decline(p)
  \/ Leave(p)

LinkNext ==
  \/ LinkTick
  \/ \E p \in Pages : PageStep(p)
  \/ \E l \in Links :
       \/ GenerateMagicLink(l)
       \/ Poll(l)
       \/ \E p \in Pages, amount \in Amounts : Purchase(l, p, amount)

\* Time passes and agents keep polling; nothing is assumed of the human.
LinkFairness == WF_linkVars(LinkTick) /\ \A l \in Links : WF_linkVars(Poll(l))

LinkSpec == LinkInit /\ [][LinkNext]_linkVars /\ LinkFairness

-----------------------------------------------------------------------------
LinkTypeOK ==
  /\ link \in [Links -> [issued: BOOLEAN, expires: Nat, redeemed: BOOLEAN,
                         declined: BOOLEAN, credential: Pages \cup {NoPage}]]
  /\ \A l \in Links : link[l].redeemed <=> link[l].credential # NoPage
  /\ page \in [Pages -> [pc: {"closed", "open", "storing", "stored", "declined", "failed"},
                         link: Links \cup {NoLink}]]
  /\ cred \in [Pages -> [signed: BOOLEAN, level: Levels, until: Nat]]
  /\ told \in [Links -> SUBSET Statuses]
  /\ got \in [Links -> SUBSET Pages]
  /\ bought \in [Pages -> 0 .. MaxReceipts]
  /\ now \in Nat

\* An agent is never told both "authorized" and "declined" for one link, in
\* either order, whatever two open pages and the expiry do to it.
VerdictsAgree == \A l \in Links : ~({"authorized", "declined"} \subseteq told[l])

\* What leaves the API and what it buys was approved: a credential is delivered only
\* for the link it was stored for, after its store request was accepted, and settles
\* a purchase only if that link was not declined, though one tab may decline while
\* another stores.
SettledWasApproved ==
  \A l \in Links : \A p \in got[l] :
    /\ page[p] = [pc |-> "stored", link |-> l] /\ cred[p].signed
    /\ bought[p] > 0 => ~link[l].declined

\* "202 pending ... 410 expired": an agent that keeps polling is told the end of
\* its request, whatever the human does.
PollingEnds ==
  \A l \in Links : link[l].issued ~> told[l] \cap {"authorized", "declined", "expired"} # {}

\* "Store in DB for single-use enforcement": one page per link is told that its
\* credential was stored.
SingleUse ==
  \A l \in Links, p, q \in Pages :
    page[p] = [pc |-> "stored", link |-> l] /\ page[q] = [pc |-> "stored", link |-> l] => p = q

=============================================================================
