----------------------------- MODULE AuditTrees ------------------------------
(***************************************************************************)
(* The Merkle trees over the audit records and the proofs the gateway      *)
(* gives of them.  The worker folds the oldest pending records into a tree *)
(* (AuditAnchor models its steps and failures; here a batch is one step);  *)
(* the gateway later rebuilds the tree from the rows marked with the       *)
(* batch, and the PDF export from the rows it exports.                     *)
(*                                                                         *)
(* keccak256 is modelled as an injective pairing: the digest of two nodes  *)
(* is the pair of them.  created_at is the start of the writing            *)
(* transaction, so rows appear out of its order; ids break ties.           *)
(***************************************************************************)
EXTENDS Integers, SequencesExt, FiniteSetsExt

CONSTANTS
    Records,      \* ids of audit records
    Hashes,       \* event hashes; two records may have the same
    Times,        \* values of created_at
    Orgs,
    OrgOf,        \* [Records -> Orgs]
    MaxRecords,   \* AUDIT_BATCH_MAX_RECORDS
    ExportLimit,  \* rows of a PDF export
    Null

TreeConstants ==
    /\ Records \subseteq Nat /\ Times \subseteq Nat
    /\ OrgOf \in [Records -> Orgs]
    /\ MaxRecords \in Nat \ {0} /\ ExportLimit \in Nat \ {0}

VARIABLES
    rows,   \* committed audit_records: [at, hash], or Null
    batch,  \* column anchored_batch_id: 0 is NULL
    roots   \* column merkle_root of anchor_batches, by batch id

vars == <<rows, batch, roots>>

Init ==
    /\ rows = [r \in Records |-> Null]
    /\ batch = [r \in Records |-> 0]
    /\ roots = <<>>

-----------------------------------------------------------------------------
(* The tree *)

\* The odd trailing node is duplicated.
Pad(level) == IF Len(level) % 2 = 1 THEN Append(level, Last(level)) ELSE level

Parents(level) ==
    LET full == Pad(level)
    IN  [i \in 1 .. Len(full) \div 2 |-> <<full[2 * i - 1], full[2 * i]>>]

\* The levels of the tree, the leaves at height 0; above the root nothing changes
\* that the proofs look at.
Levels(leaves) ==
    LET level[h \in Nat] == IF h = 0 THEN leaves ELSE Parents(level[h - 1]) IN level

\* The place of the i-th leaf's ancestor on every level.
Ancestors(i) ==
    LET at[h \in Nat] == IF h = 0 THEN i ELSE (at[h - 1] + 1) \div 2 IN at

\* The loops end on the first level of one node.
Height(leaves) == Min({h \in 0 .. Len(leaves) : Len(Levels(leaves)[h]) = 1})

MerkleRoot(leaves) == Levels(leaves)[Height(leaves)][1]

\* The sibling of a node of a level.
Sibling(level, at) ==
    LET left == at % 2 = 1
    IN  [hash |-> Pad(level)[IF left THEN at + 1 ELSE at - 1], right |-> left]

\* The siblings on the way from the i-th leaf to the root.
MerkleProof(leaves, i) ==
    [h \in 1 .. Height(leaves) |-> Sibling(Levels(leaves)[h - 1], Ancestors(i)[h - 1])]

Hashed(digest, step) ==
    IF step.right THEN <<digest, step.hash>> ELSE <<step.hash, digest>>

Recomputed(leaf, proof) ==
    LET digest[k \in Nat] == IF k = 0 THEN leaf ELSE Hashed(digest[k - 1], proof[k])
    IN  digest[Len(proof)]

Before(table, r, s) ==
    table[r].at < table[s].at \/ (table[r].at = table[s].at /\ r < s)

\* ORDER BY created_at, id: the record at a place has as many before it.
Earlier(table, S, r) == {s \in S : Before(table, s, r)}
InOrder(table, S) ==
    [i \in 1 .. Cardinality(S) |->
        CHOOSE r \in S : Cardinality(Earlier(table, S, r)) = i - 1]

Leaves(table, order) == [i \in DOMAIN order |-> table[order[i]].hash]

-----------------------------------------------------------------------------
(* Writing and anchoring *)

Write(r, at, hash) ==
    /\ rows[r] = Null
    /\ rows' = [rows EXCEPT ![r] = [at |-> at, hash |-> hash]]
    /\ UNCHANGED <<batch, roots>>

Written == {r \in Records : rows[r] # Null}
Pending == {r \in Written : batch[r] = 0}

\* The oldest pending records, in the order of their leaves.
LoadPending ==
    LET order == InOrder(rows, Pending)
    IN  SubSeq(order, 1, IF Len(order) < MaxRecords THEN Len(order) ELSE MaxRecords)

Anchor ==
    LET order == LoadPending IN
    /\ Pending # {}
    /\ roots' = Append(roots, MerkleRoot(Leaves(rows, order)))
    /\ batch' = [r \in Records |-> IF r \in ToSet(order) THEN Len(roots') ELSE batch[r]]
    /\ UNCHANGED rows

Next ==
    \/ \E r \in Records, at \in Times, hash \in Hashes : Write(r, at, hash)
    \/ Anchor

Spec == Init /\ [][Next]_vars

-----------------------------------------------------------------------------
(* What the gateway answers, from a table that may have been altered *)

\* Mutant: the rows of the batch are taken in the order of their ids.
SiblingsMutant(table, b) == SetToSortSeq({r \in Records : batch[r] = b}, <)

Siblings(table, b) == InOrder(table, {r \in Records : batch[r] = b})

\* The leaf is found by its hash, which need not be the record's own.
ProofOf(table, r) ==
    LET leaves == Leaves(table, Siblings(table, batch[r]))
    IN  MerkleProof(leaves, Min({i \in DOMAIN leaves : leaves[i] = table[r].hash}))

\* Mutant: the root is the one of the rows, not the one recorded.
VerifiedMutant(table, r) ==
    Recomputed(table[r].hash, ProofOf(table, r))
        = MerkleRoot(Leaves(table, Siblings(table, batch[r])))

\* The field `verified` of the proof of an anchored record.
Verified(table, r) == Recomputed(table[r].hash, ProofOf(table, r)) = roots[batch[r]]

\* The rows of an export: one organisation's, since a date, at most so many.  It
\* leaves ties of created_at to the database; here they too go by the ids.
Exported(org, from) ==
    LET order == InOrder(rows, {r \in Written : OrgOf[r] = org /\ rows[r].at >= from})
    IN  SubSeq(order, 1, IF Len(order) < ExportLimit THEN Len(order) ELSE ExportLimit)

\* Its appendix: the proof of a record among the exported rows of its batch.
ExportedProof(order, r) ==
    LET known == SelectSeq(order, LAMBDA s : batch[s] = batch[r])
    IN  MerkleProof(Leaves(rows, known), CHOOSE i \in DOMAIN known : known[i] = r)

-----------------------------------------------------------------------------
(* Properties *)

Anchored == {r \in Records : batch[r] # 0}

\* The proof of every anchored record verifies against the root of its batch,
\* whatever the order the records were committed in, however many share the
\* batch or a hash, and however many are written later.
EveryProofVerifies == \A r \in Anchored : Verified(rows, r)

\* An anchored hash cannot be changed unnoticed: the proof of every record of
\* its batch stops verifying (FR-AUDIT-01 tamper detection).
TamperEvident ==
    \A r \in Anchored : \A hash \in Hashes \ {rows[r].hash} :
        \A s \in Anchored :
            batch[s] = batch[r] => ~Verified([rows EXCEPT ![r].hash = hash], s)

\* The proof an export carries recomputes the anchored root (audit.py: the
\* export is self-contained, an auditor can recompute the root off-line).
ExportedProofVerifies ==
    \A org \in Orgs : \A from \in Times :
        LET order == Exported(org, from) IN
        \A r \in ToSet(order) \cap Anchored :
            Recomputed(rows[r].hash, ExportedProof(order, r)) = roots[batch[r]]
=============================================================================
