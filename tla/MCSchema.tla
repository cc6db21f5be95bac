------------------------------ MODULE MCSchema ------------------------------
(***************************************************************************)
(* TLC instances of the schema and of the byte formats: SchemaBootstrap,   *)
(* which this module extends, StorageEncoding and BasmWire.  A behaviour   *)
(* belongs to one part, which `part' names from the first state on; the    *)
(* variables of the other modules stay as they are, with no store opened   *)
(* or Off.                                                                 *)
(*                                                                         *)
(*   bootstrap  three stores on a database that is empty or that an        *)
(*              operator has touched: two of one scope and two releases,   *)
(*              and one of another scope                                   *)
(*   numbers    texts of up to four symbols against two maxima, with a     *)
(*              zero in the middle and at the end                          *)
(*   tuples     pairs of tuples of up to three fields                      *)
(*   sizes      all data of up to nine bytes of four values, of which 1 to *)
(*              3 announce a width: the widest number is nine bytes        *)
(*   anchors    data of up to eleven bytes 0 to 2 of five: 2 announces a   *)
(*              width, for a topic of two bytes and a count of two or more *)
(*   paths      data of up to eleven bytes 0 to 2 of six, all of them      *)
(*              numbers: two levels, of two items                          *)
(***************************************************************************)
EXTENDS SchemaBootstrap, TLC

CONSTANT Off

VARIABLES part, max, left, right, data

textVars == <<max, left, right>>
allVars == <<part, vars, textVars, data>>

Index(n, d) == [name |-> n, def |-> d]

MCValidators ==
    [r \in {"r1", "r2"} |-> [meta |-> "m", payloads |-> "p", outputs |-> "o"]]

\* Release r2 drops an index and has a new one.
MCWanted ==
    [r \in {"r1", "r2"} |->
        [meta |-> <<>>,
         payloads |-> <<Index("state", "k1")>>,
         outputs |-> IF r = "r1" THEN <<Index("owner", "u1"), Index("score", "k2")>>
                                 ELSE <<Index("owner", "u1"), Index("height", "k4")>>]]

Clean == [coll |-> [meta |-> None, payloads |-> None, outputs |-> None],
          index |-> [meta |-> <<>>, payloads |-> <<>>, outputs |-> <<>>],
          ledger |-> [here |-> None, there |-> None], dups |-> {}, replica |-> TRUE]

\* A collection that differs, an index that differs, one nobody asked for, data
\* that forbid a unique index, the ledger of another version, and a standalone
\* server.
MCDatabases ==
    {Clean,
     [Clean EXCEPT !.coll.outputs = "view"],
     [Clean EXCEPT !.coll.outputs = "o", !.index.outputs = "score" :> "ttl"],
     [Clean EXCEPT !.coll.payloads = "p", !.index.payloads = "extra" :> "k9"],
     [Clean EXCEPT !.coll.outputs = "o", !.dups = {"owner"}],
     [Clean EXCEPT !.coll.meta = "m", !.ledger.here = "other"],
     [Clean EXCEPT !.replica = FALSE]}

MCScopeOf == [s1 |-> "here", s2 |-> "here", s3 |-> "there"]
MCReleaseOf == [s1 |-> "r1", s2 |-> "r2", s3 |-> "r1"]
MCDataCollections == <<"payloads", "outputs">>

ASSUME SchemaConstants

Numbers == INSTANCE StorageEncoding WITH
    Base <- 3, Width <- 3,
    Maxima <- {<<2, 0, 1>>, <<1, 2, 0>>}, MaxText <- 4, MaxFields <- 1

Tuples == INSTANCE StorageEncoding WITH
    Base <- 2, Width <- 2, Maxima <- {<<1, 1>>}, MaxText <- 3, MaxFields <- 3

Sizes == INSTANCE BasmWire WITH
    Base <- 4, HashSize <- 1, HeightSize <- 1, MaxTopicBytes <- 2, MaxAdmitted <- 6,
    MaxTreeHeight <- 2, MaxPosition <- 4 ^ 8 - 1, Symbols <- 0..3, MaxBytes <- 9

Anchors == INSTANCE BasmWire WITH
    Base <- 5, HashSize <- 1, HeightSize <- 1, MaxTopicBytes <- 2, MaxAdmitted <- 6,
    MaxTreeHeight <- 2, MaxPosition <- 5 ^ 8 - 1, Symbols <- 0..2, MaxBytes <- 11

Paths == INSTANCE BasmWire WITH
    Base <- 6, HashSize <- 1, HeightSize <- 1, MaxTopicBytes <- 2, MaxAdmitted <- 6,
    MaxTreeHeight <- 2, MaxPosition <- 3, Symbols <- 0..2, MaxBytes <- 11

ASSUME Numbers!EncodingConstants /\ Tuples!EncodingConstants
ASSUME Sizes!BoundsAssumption /\ Anchors!BoundsAssumption /\ Paths!BoundsAssumption

Unopened == Init /\ db = Clean
TextOff == max = Off /\ left = Off /\ right = Off

MCInit ==
    \/ part = "bootstrap" /\ Init /\ TextOff /\ data = Off
    \/ part = "numbers" /\ Numbers!Init /\ Unopened /\ data = Off
    \/ part = "tuples" /\ Tuples!Init /\ Unopened /\ data = Off
    \/ part = "sizes" /\ Sizes!Init /\ Unopened /\ TextOff
    \/ part = "anchors" /\ Anchors!Init /\ Unopened /\ TextOff
    \/ part = "paths" /\ Paths!Init /\ Unopened /\ TextOff

BootstrapNext == part = "bootstrap" /\ Next /\ UNCHANGED <<part, textVars, data>>
NumbersNext == part = "numbers" /\ Numbers!Next /\ UNCHANGED <<part, vars, data>>
TuplesNext == part = "tuples" /\ Tuples!Next /\ UNCHANGED <<part, vars, data>>
SizesNext == part = "sizes" /\ Sizes!Receive /\ UNCHANGED <<part, vars, textVars>>
AnchorsNext == part = "anchors" /\ Anchors!Receive /\ UNCHANGED <<part, vars, textVars>>
PathsNext == part = "paths" /\ Paths!Receive /\ UNCHANGED <<part, vars, textVars>>

MCNext == BootstrapNext \/ NumbersNext \/ TuplesNext \/ SizesNext \/ AnchorsNext \/ PathsNext

MCSpec == MCInit /\ [][MCNext]_allVars

-----------------------------------------------------------------------------

\* The validator's pattern of schemaUint64 admits exactly the texts that
\* DecodeUint64 reads, every number the engine accepts is stored as such a text and
\* read back in the engine's own form, and the order of the texts is the numeric
\* order (EncodeUint64).  tupleID hashes different tuples from different bytes.  A
\* compact size and an anchor have one encoding each: what wire.go decodes encodes
\* to the bytes it came from.  A merkle path is read whole and nothing of it twice;
\* its encodings differ in the order of the items of a level only.
EncodingsAreExact ==
    /\ part = "numbers" =>
        Numbers!PatternIsRange /\ Numbers!RoundTrip /\ Numbers!OrderIsNumeric
    /\ part = "tuples" => Tuples!TuplesStayApart
    /\ part = "sizes" => Sizes!OneEncodingPerNumber
    /\ part = "anchors" => Anchors!OneEncodingPerAnchor
    /\ part = "paths" => Paths!PathsAreReadWhole
=============================================================================
