------------------------------ MODULE BasmWire ------------------------------
(***************************************************************************)
(* The binary formats of pkg/core/basm/wire.go: CompactSize numbers, topic *)
(* block anchors and Merkle paths (BUMPs).  A byte has Base values (256 in *)
(* the code), of which the last three announce 2, 4 or 8 more bytes; a     *)
(* hash and a height are HashSize and HeightSize bytes long (32 and 4).    *)
(* The sender appends bytes of Symbols one at a time, so that every string *)
(* of them up to the bound is decoded.                                     *)
(***************************************************************************)
EXTENDS Integers, Sequences, SequencesExt, FiniteSets

CONSTANTS Base, HashSize, HeightSize,
          MaxTopicBytes, MaxAdmitted, MaxTreeHeight,   \* limits
          MaxPosition,                  \* the last leaf of the largest tree, 2^64 - 1
          Symbols,                      \* bound: the bytes that are sent
          MaxBytes                      \* bound: length of the data

BoundsAssumption ==
    /\ Base \in Nat /\ Base > 3
    /\ HashSize \in Nat \ {0} /\ HeightSize \in Nat \ {0}
    /\ MaxTopicBytes \in Nat \ {0} /\ MaxAdmitted \in Nat \ {0} /\ MaxTreeHeight \in Nat \ {0}
    /\ MaxPosition \in Nat /\ MaxBytes \in Nat /\ Symbols \subseteq 0..(Base - 1)

VARIABLE data   \* the bytes received

----------------------------------------------------------------------------
(* boundedWireReader.  A read returns whether it succeeded, its value, and *)
(* the rest of the data.                                                   *)

Failed == [ok |-> FALSE, value |-> 0, rest |-> << >>]

bytes(d, n) == IF n > Len(d) THEN Failed
               ELSE [ok |-> TRUE, value |-> SubSeq(d, 1, n), rest |-> SubSeq(d, n + 1, Len(d))]

\* The next read needs the one before it.
Then(r, Read(_)) == IF r.ok THEN Read(r) ELSE Failed

\* n reads in a row, from the data d; each adds to the value.
Repeat(n, value, d, Read(_, _)) ==
    FoldLeft(Read, [ok |-> TRUE, value |-> value, rest |-> d], [i \in 1..n |-> i])

\* Little-endian number of a byte string.
Number(s) == FoldRight(LAMBDA b, n : b + Base * n, s, 0)

\* The number in w bytes, little endian.
Digits(v, w) == [i \in 1..w |-> (v \div Base ^ (i - 1)) % Base]

\* Bytes that follow a first byte, and the least number they may stand for.
Width(prefix)   == IF prefix < Base - 3 THEN 0 ELSE 2 ^ (prefix - Base + 4)
Minimum(prefix) == IF prefix = Base - 3 THEN Base - 3 ELSE Base ^ (Width(prefix) \div 2)

CompactSizeOfAnyWidth(d) ==
    IF d = << >> THEN Failed
    ELSE IF Width(d[1]) = 0 THEN [ok |-> TRUE, value |-> d[1], rest |-> Tail(d)]
    ELSE LET more == bytes(Tail(d), Width(d[1]))
         IN IF ~more.ok THEN Failed
            ELSE [ok |-> TRUE, value |-> Number(more.value), rest |-> more.rest]

compactSize(d) ==
    IF d = << >> THEN Failed
    ELSE IF Width(d[1]) = 0 THEN [ok |-> TRUE, value |-> d[1], rest |-> Tail(d)]
    ELSE LET more == bytes(Tail(d), Width(d[1]))
         IN IF ~more.ok \/ Number(more.value) < Minimum(d[1]) THEN Failed
            ELSE [ok |-> TRUE, value |-> Number(more.value), rest |-> more.rest]

appendCompactSize(value) ==
    IF value < Base - 3 THEN <<value>>
    ELSE IF value < Base ^ 2 THEN <<Base - 3>> \o Digits(value, 2)
    ELSE IF value < Base ^ 4 THEN <<Base - 2>> \o Digits(value, 4)
    ELSE <<Base - 1>> \o Digits(value, 8)

----------------------------------------------------------------------------
(* Anchors.                                                                *)

Zero == [i \in 1..HashSize |-> 0]

\* TopicBlockAnchor.Validate.
Valid(a) == /\ Len(a.topic) \in 1..MaxTopicBytes
            /\ a.count <= MaxAdmitted
            /\ a.count = 0 => a.root = Zero

EncodeAnchorBinary(a) ==
    appendCompactSize(Len(a.topic)) \o a.topic \o a.height \o a.hash \o a.root
        \o appendCompactSize(a.count)

DecodeAnchorBinary(d) ==
    LET length == compactSize(d)
        topic  == bytes(length.rest, length.value)
        height == bytes(topic.rest, HeightSize)
        hash   == bytes(height.rest, HashSize)
        root   == bytes(hash.rest, HashSize)
        count  == compactSize(root.rest)
        anchor == [topic |-> topic.value, height |-> height.value, hash |-> hash.value,
                   root |-> root.value, count |-> count.value]
    IN IF /\ length.ok /\ length.value \in 1..MaxTopicBytes
          /\ topic.ok /\ height.ok /\ hash.ok /\ root.ok /\ count.ok
          /\ count.rest = << >>
          /\ Valid(anchor)
       THEN [ok |-> TRUE, value |-> anchor]
       ELSE [ok |-> FALSE, value |-> << >>]

----------------------------------------------------------------------------
(* Merkle paths.  Flag 1 is a duplicate, 2 a transaction the path is for.  *)
(* A level is read as the set of its items: no two have one offset, and    *)
(* their order in the data is not kept.                                    *)

\* A level halves the positions of the level below it.
validBUMPPosition(offset, level) == offset <= MaxPosition \div 2 ^ level

\* An item, once its offset and its flags are read.
MerkleItem(offset, flags) ==
    LET dup  == flags.value[1] % 2 = 1
        hash == bytes(flags.rest, IF dup THEN 0 ELSE HashSize)
    IN IF flags.value[1] < 3 /\ (dup => offset.value % 2 = 1) /\ hash.ok
       THEN [ok |-> TRUE, rest |-> hash.rest,
             value |-> [offset |-> offset.value, flags |-> flags.value[1], hash |-> hash.value]]
       ELSE Failed

preflightMerkleItem(d) ==
    Then(compactSize(d), LAMBDA offset :
        Then(bytes(offset.rest, 1), LAMBDA flags : MerkleItem(offset, flags)))

\* One item more, within the level and at an offset no item before it has.
AddItem(before, level) ==
    Then(before, LAMBDA b :
        Then(preflightMerkleItem(b.rest), LAMBDA item :
            IF \/ ~validBUMPPosition(item.value.offset, level)
               \/ \E other \in b.value : other.offset = item.value.offset
            THEN Failed
            ELSE [ok |-> TRUE, value |-> b.value \cup {item.value}, rest |-> item.rest]))

HasHash(level) == \E item \in level.value : item.hash # << >>

preflightMerkleLevel(d, level) ==
    Then(compactSize(d), LAMBDA count :
        IF count.value > Len(count.rest) \div 2 THEN Failed
        ELSE Then(Repeat(count.value, {}, count.rest, LAMBDA b, k : AddItem(b, level)),
                  LAMBDA items :
                IF level = 0 /\ ~HasHash(items) THEN Failed ELSE items))

AddLevel(before, k) ==
    Then(before, LAMBDA b :
        Then(preflightMerkleLevel(b.rest, k - 1), LAMBDA level :
            [ok |-> TRUE, value |-> Append(b.value, level.value), rest |-> level.rest]))

readBUMPLevels(d) ==
    Then(compactSize(d), LAMBDA height :
        Then(bytes(height.rest, 1), LAMBDA tree :
            IF \/ height.value >= Base ^ 4
               \/ tree.value[1] \notin 1..MaxTreeHeight
               \/ tree.value[1] > Len(tree.rest)
            THEN Failed
            ELSE Then(Repeat(tree.value[1], << >>, tree.rest, AddLevel), LAMBDA path :
                    [path EXCEPT !.value = [height |-> height.value, levels |-> @]])))

preflightMerklePath(d) ==
    Then(readBUMPLevels(d), LAMBDA path : IF path.rest = << >> THEN path ELSE Failed)

\* What may be written for a path: the items of a level in any order.
PathEncodings(p) ==
    LET Item(it)      == appendCompactSize(it.offset) \o <<it.flags>> \o it.hash
        Level(items)  == appendCompactSize(Len(items)) \o FlattenSeq([i \in 1..Len(items) |-> Item(items[i])])
        AddTo(out, l) == {o \o Level(items) : o \in out, items \in SetToSeqs(l)}
    IN FoldLeft(AddTo, {appendCompactSize(p.height) \o <<Len(p.levels)>>}, p.levels)

----------------------------------------------------------------------------
Init == data = << >>

Receive == /\ Len(data) < MaxBytes
           /\ \E b \in Symbols : data' = Append(data, b)

Spec == Init /\ [][Receive]_data

----------------------------------------------------------------------------
\* A number has one encoding: bytes that decode are the bytes that encoding
\* the number gives, the lengths at the edges of the widths included.
OneEncodingPerNumber ==
    LET r == compactSize(data)
    IN r.ok /\ r.rest = << >> => appendCompactSize(r.value) = data

\* An anchor has one encoding: no two byte strings decode to the same
\* anchor, and a peer can encode again whatever it decoded.
OneEncodingPerAnchor ==
    LET r == DecodeAnchorBinary(data)
    IN r.ok => /\ Valid(r.value)
               /\ EncodeAnchorBinary(r.value) = data

\* A path that passes the preflight is what a writer gives for it, up to the
\* order of the items in a level: nothing is skipped, and no item, level or
\* count is read twice.  Every item is above some leaf the tree can have.
PathsAreReadWhole ==
    LET r == preflightMerklePath(data)
    IN r.ok => /\ data \in PathEncodings(r.value)
               /\ \A l \in 1..Len(r.value.levels) : \A item \in r.value.levels[l] :
                    item.offset * 2 ^ (l - 1) <= MaxPosition

\* "ParseBoundedMerklePath accepts one canonical BRC-74 BUMP with no trailing
\* data" (wire.go:91): of the ways to write a path one alone is accepted.  It
\* is not so: preflightMerkleItem takes the items of a level in any order.
OneEncodingPerPath ==
    LET r == preflightMerklePath(data)
    IN r.ok => \A e \in PathEncodings(r.value) : preflightMerklePath(e).ok => e = data

=============================================================================
