----------------------------- MODULE BasmProof -----------------------------
(***************************************************************************)
(* The compound Merkle path of the BASM read service                       *)
(* (pkg/core/engine/basm-read-proof.go, pkg/core/basm/hash.go, wire.go):   *)
(* the stored proof of every requested transaction is parsed, checked      *)
(* against the canonical header and merged into one path.                  *)
(*                                                                         *)
(* The storage is not trusted: SupplyNode lets it put any node into the    *)
(* proof it hands out.  SHA256d is free of collisions: a transaction ID is *)
(* a tuple of length one, a parent the pair of its children, the zero hash *)
(* the empty tuple.  A proof is a set of nodes, and its size in bytes is   *)
(* the number of its nodes.                                                *)
(***************************************************************************)
EXTENDS Integers, Sequences, FiniteSets, FiniteSetsExt

CONSTANTS MaxCount,       \* transactions of a block
          MaxNodes,       \* nodes of one stored proof
          MaxTxIDs,       \* requested transactions
          MaxProofBytes   \* the byte budget of a request, in nodes

BoundsAssumption ==
    /\ MaxCount \in Nat \ {0}
    /\ MaxNodes \in Nat
    /\ MaxTxIDs \in Nat \ {0}
    /\ MaxProofBytes \in Nat \ {0}

VARIABLES count,      \* header.TransactionCount
          nodes,      \* the stored proof that is being handed out
          merged,     \* the union of the proofs served so far
          served,     \* <<txid, position>> of the requests merged so far
          totalBytes, \* the bytes they took
          result      \* "merging", or how the request ended

vars == <<count, nodes, merged, served, totalBytes, result>>

----------------------------------------------------------------------------
Zero == << >>
Nil  == <<0, 0, 0>>    \* the hash of a duplicate node, equal to no hash
Parent(left, right) == <<left, right>>

\* pkg/core/basm/hash.go: an odd layer pairs its last hash with itself.
hashMerkleLayer(layer) ==
    [p \in 1..((Len(layer) + 1) \div 2) |->
        Parent(layer[2 * p - 1],
               layer[IF 2 * p > Len(layer) THEN 2 * p - 1 ELSE 2 * p])]

Root(leaves) ==
    LET layer[d \in 0..Len(leaves)] ==
            IF d = 0 THEN leaves
            ELSE IF Len(layer[d - 1]) = 1 THEN layer[d - 1]
            ELSE hashMerkleLayer(layer[d - 1])
    IN IF leaves = << >> THEN Zero ELSE layer[Len(leaves)][1]

TxID(i)   == <<i>>
Forged    == <<MaxCount>>        \* a hash that is in no block
Block(n)  == [i \in 1..n |-> TxID(i - 1)]
MerkleRoot(n) == Root(Block(n))

----------------------------------------------------------------------------
(* Validation of one proof.  A node is [level, offset, hash].              *)

merkleProofDepth(n) == CHOOSE d \in 1..n : /\ 2 ^ d >= n
                                           /\ d = 1 \/ 2 ^ (d - 1) < n

Width(n, level) == (n + 2 ^ level - 1) \div 2 ^ level

Sibling(offset) == IF offset % 2 = 0 THEN offset + 1 ELSE offset - 1

\* preflightMerklePath: no offset twice, a duplicate on the right, a hash at
\* the leaf level.
ParseBoundedMerklePath(path) ==
    /\ \A a, b \in path.nodes :
          a.level = b.level /\ a.offset = b.offset => a = b
    /\ \A a \in path.nodes : a.hash = Nil => a.offset % 2 = 1
    /\ \E a \in path.nodes : a.level = 0 /\ a.hash # Nil

validateProofNodePlacement(node, width) ==
    IF node.hash = Nil
    THEN width > 1 /\ width % 2 = 1 /\ node.offset = width
    ELSE node.offset < width

baseOffsets(path) == {a.offset : a \in {b \in path.nodes : b.level = 0 /\ b.hash # Nil}}

legalProofAncestor(node, bases) ==
    \E base \in bases : base \div 2 ^ node.level = Sibling(node.offset)

indexProofNodes(path, n) ==
    \A a \in path.nodes :
        /\ validateProofNodePlacement(a, Width(n, a.level))
        /\ a.level > 0 => legalProofAncestor(a, baseOffsets(path))

LeafAnywhere(path, n, txid, position) ==
    \E a \in path.nodes : a.level = 0 /\ a.hash = txid

checkProofLeaf(path, n, txid, position) ==
    /\ [level |-> 0, offset |-> position, hash |-> txid] \in path.nodes
    /\ n = 1 => /\ path.levels = 1
                /\ Cardinality(path.nodes) = 1
                /\ position = 0
                /\ txid = MerkleRoot(n)

\* The hashes of a level: the supplied ones, overwritten by the parents of
\* the pairs one level below.  A supplied hash that differs is an error.
Supplied(path, level) ==
    LET at == {a \in path.nodes : a.level = level}
    IN [o \in {a.offset : a \in at} |-> (CHOOSE a \in at : a.offset = o).hash]

Pairs(hashes) == {o \in DOMAIN hashes : /\ o % 2 = 0
                                        /\ hashes[o] # Nil
                                        /\ o + 1 \in DOMAIN hashes}

Derived(hashes) ==
    [p \in {o \div 2 : o \in Pairs(hashes)} |->
        Parent(hashes[2 * p],
               IF hashes[2 * p + 1] = Nil THEN hashes[2 * p] ELSE hashes[2 * p + 1])]

deriveProofParents(path, depth) ==
    LET levels[l \in 0..depth] ==
            IF l = 0 THEN Supplied(path, 0)
            ELSE LET own == Supplied(path, l)
                     der == Derived(levels[l - 1])
                 IN [o \in DOMAIN own \cup DOMAIN der |->
                        IF o \in DOMAIN der THEN der[o] ELSE own[o]]
    IN levels

\* deriveProofLevel: a derived parent must agree with a supplied one.
deriveProofLevel(path, levels, depth) ==
    \A l \in 1..depth : LET own == Supplied(path, l)
                            der == Derived(levels[l - 1])
                        IN \A o \in DOMAIN own \cap DOMAIN der : own[o] = der[o]

connectedProofBase(levels, offset, depth) ==
    \A l \in 0..(depth - 1) :
        LET o == offset \div 2 ^ l
        IN /\ Sibling(o) \in DOMAIN levels[l]
           /\ o \div 2 \in DOMAIN levels[l + 1]
           /\ levels[l + 1][o \div 2] # Nil

validateBASMProof(path, n, txid, position) ==
    LET depth  == merkleProofDepth(n)
        levels == deriveProofParents(path, depth)
    IN /\ path.matchesHeight
       /\ path.levels \in 1..depth
       /\ indexProofNodes(path, n)
       /\ checkProofLeaf(path, n, txid, position)
       /\ n > 1 => /\ deriveProofLevel(path, levels, depth)
                   /\ 0 \in DOMAIN levels[depth]
                   /\ levels[depth][0] = MerkleRoot(n)
                   /\ \A o \in baseOffsets(path) : connectedProofBase(levels, o, depth)

----------------------------------------------------------------------------
(* Merging the requested proofs.                                           *)

mergeProofLevels(old, path) == old \cup path.nodes

Conflict(old, path) ==
    \E a \in old, b \in path.nodes :
        a.level = b.level /\ a.offset = b.offset /\ a.hash # b.hash

Init == /\ count \in 1..MaxCount
        /\ nodes = {}
        /\ merged = {}
        /\ served = {}
        /\ totalBytes = 0
        /\ result = "merging"

TrueHash(n, level, offset) ==
    LET layer[l \in 0..level] == IF l = 0 THEN Block(n) ELSE hashMerkleLayer(layer[l - 1])
    IN layer[level][offset + 1]

\* What the storage may put at a place: the true hash, a hash of no block, a
\* duplicate mark, and among the leaves the first transaction.
HashesAt(n, level, offset) ==
    {Forged, Nil}
    \cup (IF level = 0 THEN {TxID(0)} ELSE {})
    \cup (IF offset < Width(n, level) THEN {TrueHash(n, level, offset)} ELSE {})

\* The view composes the proof it will return from MerklePath.
SupplyNode(level, offset, hash) ==
    /\ result = "merging"
    /\ Cardinality(served) < MaxTxIDs
    /\ Cardinality(nodes) < MaxNodes
    /\ \A a \in nodes : a.level = level => a.offset < offset
    /\ \A a \in nodes : a.level <= level
    /\ nodes' = nodes \cup {[level |-> level, offset |-> offset, hash |-> hash]}
    /\ UNCHANGED <<count, merged, served, totalBytes, result>>

OverBudget(bytes) == bytes > MaxProofBytes - totalBytes \/ MaxProofBytes = totalBytes

\* One requested transaction at the position its admitted list gives.  The
\* requested IDs are distinct, and so are the positions of a list.
mergeOneProof(txid, position, levels, matchesHeight) ==
    LET path == [matchesHeight |-> matchesHeight, levels |-> levels, nodes |-> nodes]
        size == Cardinality(nodes)
        ok   == /\ ParseBoundedMerklePath(path)
                /\ validateBASMProof(path, count, txid, position)
    IN /\ result = "merging"
       /\ Cardinality(served) < MaxTxIDs
       /\ \A s \in served : s[1] # txid /\ s[2] # position
       /\ nodes' = {}
       /\ IF OverBudget(size)
          THEN /\ result' = "limit"
               /\ UNCHANGED <<merged, served, totalBytes>>
          ELSE IF ~ok
          THEN /\ result' = "invalid"
               /\ UNCHANGED <<merged, served, totalBytes>>
          ELSE IF Conflict(merged, path)
          THEN /\ result' = "conflict"
               /\ UNCHANGED <<merged, served, totalBytes>>
          ELSE /\ merged' = mergeProofLevels(merged, path)
               /\ served' = served \cup {<<txid, position>>}
               /\ totalBytes' = totalBytes + size
               /\ UNCHANGED result
       /\ UNCHANGED count

\* encodeMergedProof writes every level of the tree.
encodeMergedProof ==
    /\ result = "merging"
    /\ served # {}
    /\ nodes = {}
    /\ result' = IF Cardinality(merged) > MaxProofBytes THEN "limit" ELSE "encoded"
    /\ UNCHANGED <<count, nodes, merged, served, totalBytes>>

\* A path has at least the levels of its nodes.
Levels == Max({1} \cup {a.level + 1 : a \in nodes})

Next ==
    \/ \E level \in 0..merkleProofDepth(count) :
          \E offset \in 0..Width(count, level) :
              \E hash \in HashesAt(count, level, offset) : SupplyNode(level, offset, hash)
    \/ \E txid \in {TxID(i) : i \in 0..(count - 1)} \cup {Forged},
          position \in 0..(count - 1),
          levels \in Levels..(merkleProofDepth(count) + 1),
          matchesHeight \in BOOLEAN :
          mergeOneProof(txid, position, levels, matchesHeight)
    \/ encodeMergedProof

Spec == Init /\ [][Next]_vars

----------------------------------------------------------------------------
IsNode(a) == /\ a.level \in 0..merkleProofDepth(count)
             /\ a.offset \in 0..count

\* Every variable is of its type, and the proofs merged so far never took
\* more than the budget of the request.
TypeOK ==
    /\ count \in 1..MaxCount
    /\ \A a \in nodes \cup merged : IsNode(a)
    /\ \A s \in served : s[2] \in 0..(count - 1)
    /\ totalBytes \in 0..MaxProofBytes
    /\ result \in {"merging", "encoded", "invalid", "limit", "conflict"}

\* A transaction is served only at its real position in the block, whatever
\* the storage put into its proof and whatever position its list claimed
\* (validateBASMProof against the header's root).
ServedAtRealPosition ==
    \A s \in served : Block(count)[s[2] + 1] = s[1]

\* The path that is sent proves every requested transaction: it passes the
\* same validation for each of them (mergeProofLevels, encodeMergedProof).
MergedProvesAll ==
    result = "encoded" =>
        LET path == [matchesHeight |-> TRUE, levels |-> merkleProofDepth(count), nodes |-> merged]
        IN /\ ParseBoundedMerklePath(path)
           /\ \A s \in served : validateBASMProof(path, count, s[1], s[2])

\* Two proofs that were accepted never contradict each other: every node of
\* an accepted proof is the true one, so the error of mergeProofNode is dead.
AcceptedNodesAreTrue ==
    /\ result # "conflict"
    /\ \A a \in merged : a.hash # Nil => a.hash = TrueHash(count, a.level, a.offset)

\* The direct proof of position p: the leaf, and the sibling of every
\* ancestor, marked as a duplicate where the layer ends.
DirectProof(n, p) ==
    LET Node(l, o) == [level |-> l, offset |-> o,
                       hash |-> IF o < Width(n, l) THEN TrueHash(n, l, o) ELSE Nil]
        depth == merkleProofDepth(n)
    IN [matchesHeight |-> TRUE, levels |-> depth,
        nodes |-> {Node(0, p)}
                  \cup (IF n = 1 THEN {}
                        ELSE {Node(l, Sibling(p \div 2 ^ l)) : l \in 0..(depth - 1)})]

\* No genuine proof is refused: the direct proof of every transaction passes,
\* in blocks of one transaction and of odd width at any level too.  (It says
\* something of the block alone, so one look per block is enough.)
DirectProofsAccepted ==
    nodes = {} /\ served = {} => \A p \in 0..(count - 1) :
        /\ ParseBoundedMerklePath(DirectProof(count, p))
        /\ validateBASMProof(DirectProof(count, p), count, TxID(p), p)

=============================================================================
