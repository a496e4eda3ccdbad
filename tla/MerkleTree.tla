----------------------------- MODULE MerkleTree -----------------------------
(***************************************************************************)
(* The proof systems' salted Merkle commitment: the prover's tree, which   *)
(* keeps only its upper nodes and may forget its leaves, its multiproofs,  *)
(* and the verifier's reading of their records. A digest is the term that  *)
(* was hashed, so two digests are equal when their inputs are.             *)
(***************************************************************************)
EXTENDS Integers, Sequences, SequencesExt, FiniteSets, FiniteSetsExt, Functions

CONSTANTS
    Lengths,            \* the tree lengths, powers of two
    RECOMPUTED_LEVELS,  \* the inner levels above the leaves no tree keeps
    SUBTREE_LEAVES,     \* the most leaves one subtree job covers
    Window,             \* the jobs that run at once
    MaxOpened,          \* bound on the leaves of an opening
    Stage,              \* the stage whose leaves and nodes the hashes name
    None

TreeAssumption ==
    /\ \A length \in Lengths : \E k \in 1..20 : length = 2 ^ k
    /\ \E k \in 1..20 : SUBTREE_LEAVES = 2 ^ k /\ RECOMPUTED_LEVELS < k
    /\ Window \in Nat

VARIABLES
    length,
    leaves,     \* the kept digests of the leaves, or None once forgotten
    upper,      \* the kept inner nodes in heap order
    first,      \* the first leaf of the next subtree job
    running,    \* the first leaves of the submitted jobs
    indices,    \* the opened leaves in increasing order, or None
    multiproof, \* known nodes, the last block and the restored leaves
    written,    \* the records written so far
    wire,       \* the items the verifier reads, or None before they are sent
    altered,
    nodes,      \* the verifier's authenticated nodes
    position,   \* the record the verifier reads next
    verdict     \* None, "complete" or "refused"

vars == <<length, leaves, upper, first, running, indices, multiproof, written, wire, altered,
          nodes, position, verdict>>

Log2(n) == CHOOSE k \in 0..n : 2 ^ k = n
Least(a, b) == IF a < b THEN a ELSE b
\* The level of a heap index: the leaves are at level zero.
Ilog2(n) == CHOOSE k \in 0..n : 2 ^ k <= n /\ n < 2 ^ (k + 1)
Sibling(n) == IF n % 2 = 0 THEN n + 1 ELSE n - 1

----
(* Hashing.                                                                *)

Row(index) == <<"row", index>>
Salt(index) == <<"salt", index>>

LeafDigest(index, salt, row) == <<"leaf", Stage, index, salt, row>>
NodeDigest(level, left, right) == <<"node", Stage, level, left, right>>

\* The inner levels a tree of the length recomputes; its root is always kept.
RecomputedLevels(n) == Least(RECOMPUTED_LEVELS, Log2(n) - 1)

SubtreeLeaves == Least(SUBTREE_LEAVES, length)
BlockLeaves == 2 ^ (RecomputedLevels(length) + 1)

\* The digests of a level from those of the level below, as the jobs hash them.
Parents(level, digests) ==
    [i \in 1..(Len(digests) \div 2) |-> NodeDigest(level, digests[2 * i - 1], digests[2 * i])]

\* Every level of a subtree above its leaves' digests, lowest first.
AppendNodes(digests) ==
    LET levels == Log2(Len(digests))
        at[level \in 0..levels] == IF level = 0 THEN digests ELSE Parents(level, at[level - 1])
    IN  at

\* A job's output: the leaves' digests of a contiguous range and the levels
\* above them that the tree keeps.
SubtreeJob(start, count, omitted) ==
    LET digests == [i \in 1..count |-> LeafDigest(start + i - 1, Salt(start + i - 1), Row(start + i - 1))]
        at == AppendNodes(digests)
    IN  [digests |-> digests, kept |-> [level \in (omitted + 1)..Log2(count) |-> at[level]]]

----
(* The tree.                                                               *)

Init ==
    /\ length \in Lengths
    /\ \E forget \in BOOLEAN : leaves = IF forget THEN None ELSE [i \in 0..(length - 1) |-> None]
    /\ upper = [i \in 1..((length \div 2 ^ RecomputedLevels(length)) - 1) |-> None]
    /\ first = 0 /\ running = <<>>
    /\ indices = None /\ written = <<>>
    /\ multiproof = [known |-> {}, block |-> None, restored |-> <<>>]
    /\ wire = None /\ altered = FALSE
    /\ nodes = <<>> /\ position = 0 /\ verdict = None

\* place_nodes: each kept level goes to its heap places above the first leaf.
PlacedNodes(nodesAbove, start, job) ==
    LET From(level) == (length + start) \div 2 ^ level
        At(i) == {level \in DOMAIN job.kept : i \in From(level)..(From(level) + Len(job.kept[level]) - 1)}
    IN  [i \in DOMAIN nodesAbove |->
            IF At(i) = {} THEN nodesAbove[i]
            ELSE LET level == CHOOSE l \in At(i) : TRUE IN job.kept[level][i - From(level) + 1]]

\* place_leaves: the digests too, unless the tree forgets them.
Place(start) ==
    LET job == SubtreeJob(start, SubtreeLeaves, RecomputedLevels(length))
    IN  /\ upper' = PlacedNodes(upper, start, job)
        /\ leaves' = IF leaves = None THEN None
                     ELSE [i \in DOMAIN leaves |->
                            IF i \in start..(start + SubtreeLeaves - 1) THEN job.digests[i - start + 1] ELSE leaves[i]]

\* hash_rows submits the next subtree; the oldest output is placed once more
\* jobs than the window run.
SubmitSubtree ==
    /\ first < length
    /\ first' = first + SubtreeLeaves
    /\ LET submitted == Append(running, first)
       IN  IF Len(submitted) > (IF Window = 0 THEN 1 ELSE Window)
           THEN Place(Head(submitted)) /\ running' = Tail(submitted)
           ELSE running' = submitted /\ UNCHANGED <<upper, leaves>>
    /\ UNCHANGED <<length, indices, multiproof, written, wire, altered, nodes, position, verdict>>

\* The pipeline's remaining outputs, in submission order.
DrainSubtree ==
    /\ first = length /\ running # <<>>
    /\ Place(Head(running))
    /\ running' = Tail(running)
    /\ UNCHANGED <<length, first, indices, multiproof, written, wire, altered, nodes, position, verdict>>

\* finish_above_subtrees: each level above the subtrees from the one below.
AboveSubtrees(nodesAbove) ==
    LET top == length \div SubtreeLeaves
        at[i \in 1..(2 * top - 1)] ==
            IF i >= top THEN nodesAbove[i]
            ELSE NodeDigest(Log2(length) - Ilog2(i), at[2 * i], at[2 * i + 1])
    IN  [i \in DOMAIN nodesAbove |-> IF i < top THEN at[i] ELSE nodesAbove[i]]

FinishAbove ==
    /\ first = length /\ running = <<>>
    /\ first' = length + 1
    /\ upper' = AboveSubtrees(upper)
    /\ UNCHANGED <<length, leaves, running, indices, multiproof, written, wire, altered, nodes, position, verdict>>

Built == first = length + 1
Root == upper[1]

----
(* Openings.                                                               *)

\* The leaves whose rows an opening reads: the indices, or every leaf of
\* their blocks when the tree forgot its leaves.
OpeningLeaves(opened) ==
    IF leaves # None THEN opened
    ELSE UNION {(BlockLeaves * b)..(BlockLeaves * (b + 1) - 1) : b \in {i \div BlockLeaves : i \in opened}}

\* restore: the leaves of each block hashed again; a block must hash to its
\* kept node.
Restored(opened) ==
    IF leaves # None THEN <<>>
    ELSE [i \in OpeningLeaves(opened) |-> LeafDigest(i, Salt(i), Row(i))]

BlockMatches(block) ==
    LET job == SubtreeJob(BlockLeaves * block, BlockLeaves, RecomputedLevels(length))
    IN  job.kept[Log2(BlockLeaves)][1] = upper[(length \div BlockLeaves) + block]

\* write_multiproof opens the rows; its records follow one at a time.
OpenRows(opened) ==
    /\ leaves = None => \A i \in opened : BlockMatches(i \div BlockLeaves)
    /\ indices' = SetToSortSeq(opened, <)
    /\ multiproof' = [known |-> {}, block |-> None, restored |-> Restored(opened)]
    /\ UNCHANGED <<length, leaves, upper, first, running, written, wire, altered, nodes, position, verdict>>

LeafAt(index, restored) == IF leaves = None THEN restored[index] ELSE leaves[index]

\* Whether the multiproof's block is the one below the ancestor.
HasBlock(ancestor, proof) == proof.block # None /\ proof.block.ancestor = ancestor

\* The recomputed nodes below a kept ancestor in its local heap order.
BlockNodes(ancestor, restored) ==
    LET span == BlockLeaves
        start == ancestor * span - length
        at[local \in 1..(2 * span - 1)] ==
            IF local >= span THEN LeafAt(start + local - span, restored)
            ELSE NodeDigest(Log2(span) - Ilog2(local), at[2 * local], at[2 * local + 1])
    IN  at

\* Tree::node: the digest at the heap index and the block it leaves cached.
NodeAt(index, proof) ==
    IF index >= length THEN [digest |-> LeafAt(index - length, proof.restored), block |-> proof.block]
    ELSE IF index \in DOMAIN upper THEN [digest |-> upper[index], block |-> proof.block]
    ELSE LET below == RecomputedLevels(length) + 1 - (Log2(length) - Ilog2(index))
             ancestor == index \div 2 ^ below
             block == IF HasBlock(ancestor, proof) THEN proof.block
                      ELSE [ancestor |-> ancestor, at |-> BlockNodes(ancestor, proof.restored)]
         IN  [digest |-> block.at[index - ancestor * 2 ^ below + 2 ^ below], block |-> block]

WritesSibling(known, node) == Sibling(node) \notin known

\* The node at each level of a leaf's path, and the levels its record climbs:
\* those below the first node that is already known, or the root.
PathNode(index, level) == (length + index) \div 2 ^ level
Climbed(index, known) ==
    {k \in 0..(Log2(length) - 1) : \A j \in 0..k : PathNode(index, j) \notin known}

\* The path of a leaf: the multiproof after it and the siblings it writes.
Walk(index, proof) ==
    LET climbed == Climbed(index, proof.known)
        writes == SetToSortSeq({k \in climbed : WritesSibling(proof.known, PathNode(index, k))}, <)
        Step(read, k) ==
            LET sibling == NodeAt(Sibling(PathNode(index, k)), [proof EXCEPT !.block = read.block])
            IN  [block |-> sibling.block, siblings |-> Append(read.siblings, sibling.digest)]
        read == FoldLeft(Step, [block |-> proof.block, siblings |-> <<>>], writes)
    IN  [known |-> proof.known \cup UNION {{PathNode(index, k), Sibling(PathNode(index, k))} : k \in climbed},
         block |-> read.block,
         siblings |-> read.siblings]

WriteRecord ==
    /\ indices # None /\ wire = None /\ Len(written) < Len(indices)
    /\ LET index == indices[Len(written) + 1]
           walk == Walk(index, multiproof)
       IN  /\ written' = Append(written, <<<<"index", index>>, Row(index), Salt(index)>> \o walk.siblings)
           /\ multiproof' = [multiproof EXCEPT !.known = walk.known, !.block = walk.block]
    /\ UNCHANGED <<length, leaves, upper, first, running, indices, wire, altered, nodes, position, verdict>>

----
(* The wire, and the verifier's reading of it.                             *)

\* The items: the count, then every record's.
Items == <<<<"count", Len(indices)>>>> \o FlattenSeq(written)

Other == <<"other", 0>>

Alterations(items) ==
    UNION {{[items EXCEPT ![i] = Other], RemoveAt(items, i),
            SubSeq(items, 1, i) \o SubSeq(items, i, Len(items))} : i \in DOMAIN items}

Send ==
    /\ indices # None /\ Len(written) = Len(indices) /\ wire = None
    /\ \/ wire' = Items /\ altered' = FALSE
       \/ \E items \in Alterations(Items) \ {Items} : wire' = items /\ altered' = TRUE
    /\ UNCHANGED <<length, leaves, upper, first, running, indices, multiproof, written, nodes, position, verdict>>

\* The levels of a record's path whose sibling it must supply.
Supplied(index) ==
    {k \in Climbed(index, DOMAIN nodes) : Sibling(PathNode(index, k)) \notin DOMAIN nodes}

\* missing_siblings: what the next record must supply.
MissingSiblings(index) == Cardinality(Supplied(index))

Required == 3 + MissingSiblings(indices[position])

\* The parent's digest, the even child on the left.
Joined(node, level, digest, sibling) ==
    IF node % 2 = 0 THEN NodeDigest(level, digest, sibling) ELSE NodeDigest(level, sibling, digest)

\* opening: the record's path from its leaf to the first authenticated node
\* or the root, and the nodes it leaves pending.
Path(index, record) ==
    LET supplied == Supplied(index)
        climbed == Climbed(index, DOMAIN nodes)
        SiblingAt(k) == IF k \in supplied THEN record[3 + Cardinality({j \in supplied : j <= k})]
                        ELSE nodes[Sibling(PathNode(index, k))]
        digest[k \in 0..Cardinality(climbed)] ==
            IF k = 0 THEN LeafDigest(index, record[3], record[2])
            ELSE Joined(PathNode(index, k - 1), k, digest[k - 1], SiblingAt(k - 1))
        LevelOf(n) == CHOOSE k \in climbed : n \in {PathNode(index, k), Sibling(PathNode(index, k))}
    IN  [node |-> PathNode(index, Cardinality(climbed)),
         digest |-> digest[Cardinality(climbed)],
         pending |-> [n \in UNION {{PathNode(index, k), Sibling(PathNode(index, k))} : k \in climbed} |->
                        IF n = PathNode(index, LevelOf(n)) THEN digest[LevelOf(n)] ELSE SiblingAt(LevelOf(n))]]

Authentic(path) == path.digest = (IF path.node \in DOMAIN nodes THEN nodes[path.node] ELSE Root)

\* The record must name the next requested index.
NamesNext(record) == record[1] = <<"index", indices[position]>>

Refuse == /\ verdict' = "refused"
          /\ UNCHANGED <<nodes, position>>

ReadCount ==
    /\ wire # None /\ verdict = None /\ position = 0 /\ wire # <<>>
    /\ wire' = Tail(wire)
    /\ IF Head(wire) = <<"count", Len(indices)>>
       THEN position' = 1 /\ UNCHANGED <<nodes, verdict>>
       ELSE Refuse
    /\ UNCHANGED <<length, leaves, upper, first, running, indices, multiproof, written, altered>>

\* opening: the nodes of a record's path are kept once it is authentic.
ReadRecord ==
    /\ wire # None /\ verdict = None /\ position > 0 /\ position <= Len(indices)
    /\ Len(wire) >= Required
    /\ LET record == SubSeq(wire, 1, Required)
           path == Path(indices[position], record)
       IN  IF NamesNext(record) /\ Authentic(path)
           THEN /\ nodes' = [n \in DOMAIN nodes \cup DOMAIN path.pending |->
                                IF n \in DOMAIN path.pending THEN path.pending[n] ELSE nodes[n]]
                /\ position' = position + 1
                /\ UNCHANGED verdict
           ELSE Refuse
    /\ wire' = SubSeq(wire, Required + 1, Len(wire))
    /\ UNCHANGED <<length, leaves, upper, first, running, indices, multiproof, written, altered>>

\* The proof ends: complete when every record was read and nothing remains.
FinishReading ==
    /\ wire # None /\ verdict = None
    /\ \/ position = 0 /\ wire = <<>>
       \/ position > 0 /\ position <= Len(indices) /\ Len(wire) < Required
       \/ position > Len(indices)
    /\ verdict' = IF position > Len(indices) /\ wire = <<>> THEN "complete" ELSE "refused"
    /\ UNCHANGED <<length, leaves, upper, first, running, indices, multiproof, written, wire, altered, nodes, position>>

\* The sets of leaves an opening may request.
Openings == {Range(f) : f \in [1..MaxOpened -> 0..(length - 1)]}

Done == verdict # None /\ UNCHANGED vars

Next == \/ SubmitSubtree \/ DrainSubtree \/ FinishAbove
        \/ Built /\ indices = None /\ \E opened \in Openings : OpenRows(opened)
        \/ WriteRecord \/ Send
        \/ ReadCount \/ ReadRecord \/ FinishReading
        \/ Done

Spec == Init /\ [][Next]_vars

----
TypeOK ==
    /\ length \in Lengths
    /\ first \in 0..(length + 1)
    /\ position \in 0..(MaxOpened + 1)
    /\ verdict \in {None, "complete", "refused"}
    /\ altered \in BOOLEAN

\* Every node of the tree hashed directly from all its leaves.
Reference ==
    LET at[i \in 1..(2 * length - 1)] ==
            IF i >= length THEN LeafDigest(i - length, Salt(i - length), Row(i - length))
            ELSE NodeDigest(Log2(length) - Ilog2(i), at[2 * i], at[2 * i + 1])
    IN  at

\* A finished tree's kept nodes are those of the directly hashed tree, however
\* its subtrees were split, and an opening of a forgotten tree finds each of
\* its blocks under its kept node (Tree::hash_rows, place_nodes,
\* finish_above_subtrees, restore).
RootIsReference ==
    Built /\ indices = None =>
        /\ \A i \in DOMAIN upper : upper[i] = Reference[i]
        /\ leaves = None => \A b \in 0..((length \div BlockLeaves) - 1) : BlockMatches(b)

Covered(k) ==
    UNION {LET n == (length + indices[j]) \div 2 ^ level IN {n, Sibling(n)} :
            <<j, level>> \in (1..(k - 1)) \X (0..(Log2(length) - 1))}

\* Each record supplies exactly the siblings of its path that no earlier
\* record's path or siblings cover, with the digests of the directly hashed
\* tree, whether the tree kept its leaves or hashed their blocks again
\* (Tree::write_record, Tree::node, Tree::opened_rows).
ProofIsReference ==
    wire = None => \A k \in DOMAIN written :
        LET path == [level \in 1..Log2(length) |-> (length + indices[k]) \div 2 ^ (level - 1)]
            fresh == SelectSeq(path, LAMBDA n : n \notin Covered(k) /\ Sibling(n) \notin Covered(k))
        IN  written[k] = <<<<"index", indices[k]>>, Row(indices[k]), Salt(indices[k])>>
                         \o [i \in DOMAIN fresh |-> Reference[Sibling(fresh[i])]]

\* A proof read as it was written completes, and one that lost, gained or
\* changed any item never does (Verifier::push_proof, opening, finish).
CompleteIsWritten == verdict # None => (verdict = "complete" <=> ~altered)

\* Every node the verifier authenticates while it reads is the committed
\* tree's, so a later record is never checked against a supplied digest that
\* an altered record left behind (Verifier::opening).
AuthenticatedCommitted == \A n \in DOMAIN nodes : nodes[n] = Reference[n]

====
