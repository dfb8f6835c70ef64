---------------------------- MODULE AuditMerkle -----------------------------
(***************************************************************************)
(* Inclusion proofs of the session audit log (nono/src/audit.rs): the      *)
(* Merkle root over the log's leaves, the proof that one leaf is under it, *)
(* and its verification by someone who has only the proof.                 *)
(*                                                                         *)
(* A hash is the term it was computed from: leaves are atoms, a node is    *)
(* the pair of its children, and the domain prefixes keep them apart.  The *)
(* log grows, a proof is built at some point, and on its way to the        *)
(* verifier any of its fields may come to differ.                          *)
(***************************************************************************)
EXTENDS Naturals, Sequences, SequencesExt

CONSTANTS
    Leaves,          \* hashes of events
    MaxLeaves,       \* bound on the length of the log
    MaxAlterations,  \* bound on the fields of a proof that differ
    None             \* no proof was built yet

MerkleConfigured ==
    /\ None \notin Leaves
    /\ MaxLeaves \in Nat /\ MaxAlterations \in Nat

VARIABLES
    log,       \* leaf_hashes
    proof,     \* the proof as the verifier sees it
    altered    \* how many of its fields were changed

vars == <<log, proof, altered>>

-----------------------------------------------------------------------------
hash_merkle_node(left, right) == <<left, right>>

\* A mutant: an unpaired node is hashed with itself.
NextLevelDuplicates(level) ==
    [k \in 1 .. (Len(level) + 1) \div 2 |->
        hash_merkle_node(level[2 * k - 1],
                         level[IF 2 * k > Len(level) THEN 2 * k - 1 ELSE 2 * k])]

\* level.chunks(2): a node over each pair, an unpaired one is promoted.
NextLevel(level) ==
    [k \in 1 .. (Len(level) + 1) \div 2 |->
        IF 2 * k > Len(level)
        THEN level[2 * k - 1]
        ELSE hash_merkle_node(level[2 * k - 1], level[2 * k])]

RECURSIVE Top(_)
Top(level) == IF Len(level) = 1 THEN level[1] ELSE Top(NextLevel(level))

merkle_root(leaves) == IF leaves = <<>> THEN <<>> ELSE Top(leaves)

RECURSIVE SiblingsOf(_, _)
SiblingsOf(level, index) ==
    LET sibling == IF index % 2 = 0 THEN index + 1 ELSE index - 1
        node == [direction |-> IF sibling < index THEN "Left" ELSE "Right",
                 hash |-> level[sibling + 1]]
    IN  IF Len(level) = 1
        THEN <<>>
        ELSE (IF sibling < Len(level) THEN <<node>> ELSE <<>>)
                \o SiblingsOf(NextLevel(level), index \div 2)

build_inclusion_proof(leaves, leaf_index) ==
    [leaf_index |-> leaf_index, leaf_count |-> Len(leaves),
     leaf_hash |-> leaves[leaf_index + 1], merkle_root |-> merkle_root(leaves),
     siblings |-> SiblingsOf(leaves, leaf_index)]

\* Whether the nodes that are left lead from computed to the root: at each width
\* the index says whether a sibling is due, and on which side.
RECURSIVE Climbs(_, _, _, _, _)
Climbs(computed, index, width, siblings, root) ==
    LET due == index % 2 = 1 \/ index + 1 < width
        side == IF index % 2 = 1 THEN "Left" ELSE "Right"
        node == Head(siblings)
        up == IF side = "Left" THEN hash_merkle_node(node.hash, computed)
                               ELSE hash_merkle_node(computed, node.hash)
    IN  IF width <= 1
        THEN siblings = <<>> /\ computed = root
        ELSE IF due
        THEN /\ siblings # <<>>
             /\ node.direction = side
             /\ Climbs(up, index \div 2, (width + 1) \div 2, Tail(siblings), root)
        ELSE Climbs(computed, index \div 2, (width + 1) \div 2, siblings, root)

verify_inclusion_proof(p) ==
    /\ p.leaf_index < p.leaf_count
    /\ Climbs(p.leaf_hash, p.leaf_index, p.leaf_count, p.siblings, p.merkle_root)

-----------------------------------------------------------------------------
Init == log = <<>> /\ proof = None /\ altered = 0

\* append_event pushes the leaf.
AppendLeaf(l) ==
    /\ Len(log) < MaxLeaves
    /\ log' = Append(log, l)
    /\ UNCHANGED <<proof, altered>>

Build(i) ==
    /\ proof = None
    /\ i < Len(log)
    /\ proof' = build_inclusion_proof(log, i)
    /\ UNCHANGED <<log, altered>>

\* What a field of a proof can come to hold: as leaf the hash of an event, which
\* the verifier has computed from the event it asks about; otherwise hashes that occur in the log's
\* trees, its roots at any length, and numbers in and out of range.
LogAt(n) == SubSeq(log, 1, n)
Hashes == Leaves \cup {hash_merkle_node(l, m) : l, m \in Leaves}
Roots == {merkle_root(LogAt(n)) : n \in 1 .. Len(log)}
Nodes == [direction : {"Left", "Right"}, hash : Hashes]

OtherSiblings(s) ==
    {RemoveAt(s, k) : k \in DOMAIN s}
        \cup {Append(s, n) : n \in Nodes}
        \cup {[s EXCEPT ![k] = n] : k \in DOMAIN s, n \in Nodes}

Alter ==
    /\ proof # None
    /\ altered < MaxAlterations
    /\ \/ \E l \in Leaves : proof' = [proof EXCEPT !.leaf_hash = l]
       \/ \E i \in 0 .. MaxLeaves : proof' = [proof EXCEPT !.leaf_index = i]
       \/ \E n \in 0 .. MaxLeaves + 1 : proof' = [proof EXCEPT !.leaf_count = n]
       \/ \E r \in Roots : proof' = [proof EXCEPT !.merkle_root = r]
       \/ \E s \in OtherSiblings(proof.siblings) : proof' = [proof EXCEPT !.siblings = s]
    /\ proof' # proof
    /\ altered' = altered + 1
    /\ UNCHANGED log

Next ==
    \/ \E l \in Leaves : AppendLeaf(l)
    \/ \E i \in 0 .. MaxLeaves - 1 : Build(i)
    \/ Alter

Spec == Init /\ [][Next]_vars

-----------------------------------------------------------------------------
TypeOK ==
    /\ log \in Seq(Leaves) /\ Len(log) <= MaxLeaves
    /\ altered \in 0 .. MaxAlterations

\* The tree as RFC 6962 defines it: the left part holds the largest power of
\* two below the number of leaves.
RECURSIVE Rfc6962(_)
Rfc6962(leaves) ==
    LET n == Len(leaves)
        k == CHOOSE j \in {1, 2, 4, 8, 16} : j < n /\ 2 * j >= n
    IN  IF n = 1 THEN leaves[1]
        ELSE <<Rfc6962(SubSeq(leaves, 1, k)), Rfc6962(SubSeq(leaves, k + 1, n))>>

\* The proof built for a leaf is accepted, under the root RFC 6962 gives the
\* log, whatever was appended afterwards.  An accepted proof, whichever of
\* its fields differ from what was built, names a leaf of every log whose root
\* it carries, and the one at its index when it carries that log's length too
\* (audit.rs, build_inclusion_proof and verify_inclusion_proof).
AcceptedProofsAreTrue ==
    proof # None =>
        /\ altered = 0 =>
              /\ verify_inclusion_proof(proof)
              /\ proof.merkle_root = Rfc6962(LogAt(proof.leaf_count))
        /\ verify_inclusion_proof(proof) =>
              \A n \in 1 .. Len(log) : proof.merkle_root = Rfc6962(LogAt(n)) =>
                 /\ \E k \in 1 .. n : log[k] = proof.leaf_hash
                 /\ proof.leaf_count = n => log[proof.leaf_index + 1] = proof.leaf_hash
=============================================================================
