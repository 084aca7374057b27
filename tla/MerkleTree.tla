----------------------------- MODULE MerkleTree -----------------------------
(***************************************************************************)
(* api/merkle_tree.py: the tree an agent batches its audit entries into    *)
(* and the inclusion proofs of single entries.  SHA-256 is a free          *)
(* constructor: different arguments have different hashes.                 *)
(***************************************************************************)
EXTENDS Integers, Sequences, FiniteSets, SequencesExt

CONSTANTS Entries,    \* canonicalised audit entries
          MaxLeaves   \* bound: the longest batch that is considered

ASSUME MerkleAssumption == MaxLeaves \in Nat

\* An entry is hashed as JSON text and a pair as 64 bytes: no leaf is a pair's hash.
LeafHash(entry) == <<entry>>
HashPair(left, right) == <<left, right>>

Leaves == {LeafHash(e) : e \in Entries}

Padded(level) == IF Len(level) % 2 = 1 THEN Append(level, Last(level)) ELSE level

NextLevel(level) ==
  LET p == Padded(level) IN [i \in 1 .. Len(p) \div 2 |-> HashPair(p[2 * i - 1], p[2 * i])]

\* From the root on a level repeats.
Above(level) == IF Len(level) = 1 THEN level ELSE NextLevel(level)

\* build_tree: level 0 are the leaves.
Levels(leaves) ==
  LET level[k \in 0 .. Len(leaves)] == IF k = 0 THEN leaves ELSE Above(level[k - 1])
  IN level

Height(leaves) == CHOOSE k \in 0 .. Len(leaves) : /\ Len(Levels(leaves)[k]) = 1
                                                  /\ \A j \in 0 .. k - 1 : Len(Levels(leaves)[j]) > 1

Root(leaves) == Levels(leaves)[Height(leaves)][1]

\* idx = idx // 2: the index of a leaf's ancestor, level by level.
Ancestor(leaves, index) ==
  LET idx[k \in 0 .. Height(leaves)] == IF k = 0 THEN index ELSE idx[k - 1] \div 2 IN idx

\* The sibling of a node, with the side it is on; x counts from 0.
Sibling(level, x) ==
  IF x % 2 = 0 THEN [hash |-> Padded(level)[x + 2], position |-> "right"]
  ELSE [hash |-> Padded(level)[x], position |-> "left"]

\* Mutant: the index is not halved on the way up.
GenerateProofSameIndex(leaves, index) ==
  [k \in 1 .. Height(leaves) |->
     LET level == Levels(leaves)[k - 1] IN Sibling(level, index % Len(Padded(level)))]

\* generate_proof: the sibling on each level below the root.
GenerateProof(leaves, index) ==
  [k \in 1 .. Height(leaves) |->
     Sibling(Levels(leaves)[k - 1], Ancestor(leaves, index)[k - 1])]

\* One step of verify_proof, and its loop.
Combine(current, step) ==
  IF step.position = "left" THEN HashPair(step.hash, current) ELSE HashPair(current, step.hash)

Recomputed(leaf, proof) ==
  LET current[k \in 0 .. Len(proof)] ==
        IF k = 0 THEN leaf ELSE Combine(current[k - 1], proof[k])
  IN current

VerifyProof(leaf, proof, root) == root = Recomputed(leaf, proof)[Len(proof)]

Batches == UNION {[1 .. n -> Leaves] : n \in 1 .. MaxLeaves}

\* A proof that generate_proof makes for an index is accepted by verify_proof for
\* the entry at that index and for no other entry, in batches of every shape up to
\* the bound, the ones with an odd level included.
ProofsAreExact ==
  \A s \in Batches : \A i \in 1 .. Len(s) : \A x \in Leaves :
    VerifyProof(x, GenerateProof(s, i - 1), Root(s)) <=> x = s[i]

\* Two batches with one root hold the same entries, although duplicating the last
\* entry gives batches of different lengths the same root.
RootIsBinding ==
  \A s, t \in Batches : Root(s) = Root(t) =>
    /\ Range(s) = Range(t)
    /\ Len(s) = Len(t) => s = t

=============================================================================
