--------------------------- MODULE MCAgentRecords ---------------------------
(***************************************************************************)
(* A small instance of AgentRecords for TLC.                               *)
(***************************************************************************)
EXTENDS AgentRecords, TLC

CONSTANTS a1, a2, v1, v2, i1, i2, e1, e2, c1, c2, c3, w1, w2, tx1, tx2,
          p1, p2, x1, x2, x3

\* tx1 settles on Base, with the amount in its first transfer; tx2 is a Solana
\* transaction that moves tokens and lamports from w1 to w2.
MCChain ==
  tx1 :> [settled |-> TRUE, transfers |-> <<5000, 7000>>, finalized |-> FALSE,
          payer |-> w1, native |-> <<>>, pre |-> (w1 :> 0 @@ w2 :> 0), post |-> (w1 :> 0 @@ w2 :> 0)] @@
  tx2 :> [settled |-> FALSE, transfers |-> <<>>, finalized |-> TRUE, payer |-> w1,
          native |-> <<[from |-> w1, to |-> w2, amount |-> 5900]>>,
          pre |-> (w1 :> 9000 @@ w2 :> 0), post |-> (w1 :> 2000 @@ w2 :> 7000)]

\* A payer with a full attestation, with an attestation whose issuer has no key,
\* and with the preimage alone; a payee with the preimage; a wrong preimage.
MCEvidence == {
  [preimage |-> TRUE, role |-> "payer", attestation |-> AttestationChecks, lnd |-> "open"],
  [preimage |-> TRUE, role |-> "payer", attestation |-> AttestationChecks \ {"issuer_key"}, lnd |-> "settled"],
  [preimage |-> TRUE, role |-> "payer", attestation |-> {}, lnd |-> "none"],
  [preimage |-> TRUE, role |-> "payee", attestation |-> {}, lnd |-> "none"],
  [preimage |-> FALSE, role |-> "payee", attestation |-> {}, lnd |-> "settled"]}

\* Delegations and presentations meet; the other services share nothing, so that
\* each is loaded by itself.
MCLoads == {
  [delegation |-> 5, vac |-> 0, event |-> 0, chain |-> 0, extension |-> 0],
  [delegation |-> 2, vac |-> 3, event |-> 0, chain |-> 0, extension |-> 0],
  [delegation |-> 0, vac |-> 4, event |-> 0, chain |-> 0, extension |-> 0],
  [delegation |-> 0, vac |-> 0, event |-> 2, chain |-> 0, extension |-> 0],
  [delegation |-> 0, vac |-> 0, event |-> 0, chain |-> 3, extension |-> 0],
  [delegation |-> 0, vac |-> 0, event |-> 0, chain |-> 0, extension |-> 3]}

\* p1 has a domain, p2 has none; the id without a version has version 1.
MCExtensionIds ==
  {[namespace |-> "acme", suffix |-> s] : s \in {<<>>, <<1>>, <<2>>}}
    \cup {[namespace |-> "tron_fees", suffix |-> <<1>>]}
MCPrefixed == p1 :> {"acme"} @@ p2 :> {"beta"}

\* One agent without a score, one that a bonus takes to the limit.
MCStartScores == {a1 :> 0 @@ a2 :> 82}

MCSymmetry == Permutations({v1, v2}) \cup Permutations({i1, i2}) \cup Permutations({e1, e2})
              \cup Permutations({c1, c2, c3})
=============================================================================
