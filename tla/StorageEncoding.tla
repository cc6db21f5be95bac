--------------------------- MODULE StorageEncoding ---------------------------
(***************************************************************************)
(* How numbers and document IDs are written in MongoDB (encoding.go, the   *)
(* pattern of schema.go's schemaUint64, ParseStorageUint64 of the engine). *)
(* A text is a sequence of symbols: the digits 0..Base-1, the colon, and   *)
(* one symbol that is neither.  Numbers have Width digits and go up to     *)
(* max, for which the code's 18446744073709551615 is one instance.         *)
(***************************************************************************)
EXTENDS Naturals, Sequences, SequencesExt

CONSTANTS Base, Width,
          Maxima,       \* the largest numbers, as sequences of Width digits
          MaxText,      \* bound: symbols of a text
          MaxFields     \* bound: fields of a tuple

Digits == 0..(Base - 1)
Colon == Base
Symbols == 0..(Base + 1)

EncodingConstants ==
    /\ Base \in Nat /\ Base > 1 /\ Width \in Nat \ {0}
    /\ \A m \in Maxima : m \in [1..Width -> Digits] /\ m[1] # 0

VARIABLES max, left, right   \* tuples of texts, built one symbol at a time

vars == <<max, left, right>>

Number(t) == FoldLeft(LAMBDA n, d : n * Base + d, 0, t)
AllDigits(t) == \A i \in 1..Len(t) : t[i] \in Digits

\* strconv.FormatUint: no leading zeroes.
FormatUint(n) ==
    LET width == CHOOSE w \in 1..(n + 1) :
                    n < Base ^ w /\ (w = 1 \/ n >= Base ^ (w - 1))
    IN  [i \in 1..width |-> (n \div Base ^ (width - i)) % Base]

-----------------------------------------------------------------------------
(* Numbers.                                                                  *)

\* ParseStorageUint64 succeeds.
ParseStorageUint64(t) ==
    /\ Len(t) \in 1..Width
    /\ Len(t) > 1 => t[1] # 0
    /\ AllDigits(t)
    /\ Number(t) <= Number(max)

EncodeUint64(t) == [i \in 1..(Width - Len(t)) |-> 0] \o t

DecodeUint64(t) ==
    [ok |-> Len(t) = Width /\ AllDigits(t) /\ Number(t) <= Number(max),
     text |-> IF AllDigits(t) THEN FormatUint(Number(t)) ELSE <<>>]

\* Mutant: the range at a digit includes that digit.
AlternativesWide ==
    {[i \in 1..Width |-> {max[i]}]} \cup
    {[j \in 1..Width |-> CASE j < i -> {max[j]} [] j = i -> 0..max[i] [] j > i -> Digits] :
        i \in {k \in 1..Width : max[k] # 0}}

\* schemaUint64: the maximum itself, and for each of its digits but zero, what
\* agrees with the maximum up to there and is smaller at that digit.
Alternatives ==
    {[i \in 1..Width |-> {max[i]}]} \cup
    {[j \in 1..Width |-> CASE j < i -> {max[j]} [] j = i -> 0..(max[i] - 1) [] j > i -> Digits] :
        i \in {k \in 1..Width : max[k] # 0}}

MatchesPattern(t) ==
    \E p \in Alternatives : Len(t) = Width /\ \A i \in 1..Width : t[i] \in p[i]

\* The order of strings under simple collation.
Before(s, t) ==
    \E i \in 1..Len(t) :
        /\ i - 1 <= Len(s) /\ SubSeq(s, 1, i - 1) = SubSeq(t, 1, i - 1)
        /\ i > Len(s) \/ s[i] < t[i]

-----------------------------------------------------------------------------
(* Document IDs: what tupleID feeds to SHA-256.                              *)

TupleBytes(fields) ==
    FoldLeft(LAMBDA out, f : out \o FormatUint(Len(f)) \o <<Colon>> \o f, <<>>, fields)

-----------------------------------------------------------------------------
(* All tuples within the bounds.                                             *)

TextLength(fields) == FoldLeft(LAMBDA n, f : n + Len(f), 0, fields)

Longer(fields) ==
    (IF Len(fields) < MaxFields THEN {Append(fields, <<>>)} ELSE {}) \cup
    (IF fields = <<>> \/ TextLength(fields) = MaxText THEN {}
     ELSE {[fields EXCEPT ![Len(fields)] = Append(@, c)] : c \in Symbols})

Init == max \in Maxima /\ left = <<>> /\ right = <<>>

ExtendLeft == left' \in Longer(left) /\ UNCHANGED <<max, right>>
ExtendRight == right' \in Longer(right) /\ UNCHANGED <<max, left>>

Next == ExtendLeft \/ ExtendRight

Spec == Init /\ [][Next]_vars

-----------------------------------------------------------------------------
(* Properties.                                                               *)

\* The first text of a tuple.
First(fields) == IF fields = <<>> THEN <<>> ELSE Head(fields)

\* The validator's pattern admits exactly the texts DecodeUint64 reads: no number
\* can be stored that is not read back, at any digit of the maximum (schemaUint64).
PatternIsRange == MatchesPattern(First(left)) <=> DecodeUint64(First(left)).ok

\* Every number the engine accepts is stored as a text the validator admits and
\* DecodeUint64 returns it in the engine's own form (EncodeUint64, DecodeUint64).
RoundTrip ==
    LET t == First(left)
    IN  ParseStorageUint64(t) =>
            /\ MatchesPattern(EncodeUint64(t))
            /\ DecodeUint64(EncodeUint64(t)) = [ok |-> TRUE, text |-> t]

\* "its BSON string order is its unsigned numeric order" (EncodeUint64): what
\* sorting, paging and comparisons of leases in the database rest on.
OrderIsNumeric ==
    LET s == First(left)  t == First(right)
    IN  ParseStorageUint64(s) /\ ParseStorageUint64(t) =>
            (Before(EncodeUint64(s), EncodeUint64(t)) <=> Number(s) < Number(t))

\* Different tuples are hashed from different bytes, whatever colons and digits
\* the topics, hosts and IDs in them contain: no document of one scope, topic or
\* collection is ever taken for another's (tupleID).
TuplesStayApart == TupleBytes(left) = TupleBytes(right) => left = right
=============================================================================
