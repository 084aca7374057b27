-------------------------- MODULE MCEnterpriseAuth --------------------------
(***************************************************************************)
(* A small instance of EnterpriseAuth for TLC: two people, an invitation   *)
(* that expires, two wallets of different kinds, a SAML login and another  *)
(* identity provider's response that nobody asked for, and two threads of  *)
(* the wallet endpoints, which are interchangeable.                        *)
(***************************************************************************)
EXTENDS EnterpriseAuth, TLC

CONSTANTS ann, bob, acme, zeta, nova, mm, evm, i1, i2, r1, t1, t2

Symmetry == Permutations({t1, t2})

MCKind == mm :> "metamask" @@ evm :> "evm"

MCSeedInvites ==
    i1 :> [org |-> acme, email |-> ann, role |-> "operator", expires |-> 1,
           accepted |-> FALSE, used |-> FALSE] @@
    i2 :> NoInvite

\* An answer to the request, and another identity provider's answer that no
\* request asked for.
MCResponses ==
    {[to |-> r1, success |-> TRUE, signer |-> acme, audience |-> acme,
      notBefore |-> 0, notOnOrAfter |-> 2, subject |-> bob],
     [to |-> NoRequest, success |-> TRUE, signer |-> zeta, audience |-> zeta,
      notBefore |-> 1, notOnOrAfter |-> 2, subject |-> bob]}
=============================================================================
