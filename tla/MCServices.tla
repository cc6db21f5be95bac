----------------------------- MODULE MCServices -----------------------------
(***************************************************************************)
(* TLC instances of what the engine's callers see: EngineRegistry,         *)
(* LookupHistory, IdentityTopic and IdentityQuery, all of which this       *)
(* module extends.  A behaviour belongs to one part, which `part' names    *)
(* from the first state on; the other components rest in an initial state. *)
(*                                                                         *)
(*   sync     SyncAdvertisements calls one after the other, with failures, *)
(*            while a goroutine registers, unregisters and lists           *)
(*   overlap  two SyncAdvertisements calls at once                         *)
(*   lock     two goroutines register, unregister and list                 *)
(*   history  one lookup of a diamond of outputs in two topics, with       *)
(*            admissions, deletions and changed edges                      *)
(*   answers  shorter chains of outputs whose edges are there or not, with *)
(*            failing calls and an output whose BEEF is missing            *)
(*   topic    a transaction of up to three outputs through the identity    *)
(*            manager and its notifications                                *)
(*   query    every combination of selectors on three records              *)
(*   pages    every limit and offset about the bounds, four records        *)
(***************************************************************************)
EXTENDS IdentityTopic, EngineRegistry, LookupHistory, IdentityQuery, TLC

VARIABLE part

allVars == <<part, vars, registryVars, lookupVars, queryVars>>

-----------------------------------------------------------------------------
(* The registry: advertisements of a topic at either address, and of a     *)
(* service.                                                                *)

CarrierTopic == "SHIP" :> "tm_ship" @@ "SLAP" :> "tm_slap"

Earlier(p, n, d) == [protocol |-> p, name |-> n, domain |-> d, by |-> 0]

EarlierAds ==
    {Earlier("SHIP", "tm_ship", "HostingURL"), Earlier("SHIP", "tm_slap", "EarlierURL"),
     Earlier("SLAP", "tm_slap", "HostingURL")}

\* The three parts of the registry use fewer goroutines, earlier advertisements or
\* calls than the constants allow.
Within(callers, syncers, earlier, changes, syncs, outages) ==
    /\ \A c \in Callers \ callers : call[c] = Idle
    /\ \A s \in Syncers \ syncers : sync[s] = NotSync
    /\ {ad \in ads : ad.by = 0} \subseteq earlier
    /\ tally.change <= changes /\ tally.sync <= syncs /\ tally.failure <= outages

SyncPart == Within({"c1"}, {"s1"}, EarlierAds, 1, 3, 1)
OverlapPart ==
    Within({"c1"}, {"s1", "s2"}, {Earlier("SHIP", "tm_slap", "EarlierURL")}, 1, 2, 0)
LockPart == Within({"c1", "c2"}, {}, {}, 2, 0, 0)

ASSUME RegistryAssumption

-----------------------------------------------------------------------------
(* The lookup: "d" consumed "b" and "c", which both consumed "a", and "e"  *)
(* consumed "n", whose BEEF is missing and which consumed "a"; topic "t2"  *)
(* admitted less.  "c" is not selected as a root, and "a" only two steps   *)
(* below one; the transaction of "c" may be mined.  Part history has topic *)
(* "t2" for "b" alone.                                                     *)

Diamond ==
    "t1" :> [a |-> {}, b |-> {"a"}, c |-> {"a"}, d |-> {"b", "c"}, e |-> {"n"}, n |-> {"a"}]
    @@ "t2" :> [a |-> {}, b |-> {"a"}, c |-> {}, d |-> {"b"}, e |-> {}, n |-> {}]

SelectedAt ==
    {<<"d", 0>>, <<"b", 0>>, <<"b", 1>>, <<"c", 1>>, <<"a", 2>>, <<"e", 0>>, <<"n", 1>>}

Asked(o, s) == [outpoint |-> o, selector |-> s]

AskedFormulas ==
    <<Asked("d", TRUE), Asked("c", TRUE), Asked("b", TRUE), Asked("e", TRUE), Asked("a", FALSE)>>

HistoryDocs == ({"t1"} \X {"a", "b", "c", "d"}) \cup {<<"t2", "b">>}
AnswersDocs == {"t1"} \X {"a", "b", "e", "n"}

HistoryPart ==
    /\ stored \in SUBSET HistoryDocs
    /\ edges \in SUBSET EdgesOf(HistoryDocs)
AnswersPart ==
    /\ stored \in SUBSET AnswersDocs
    /\ edges \in SUBSET EdgesOf(AnswersDocs)

ASSUME LookupAssumption

-----------------------------------------------------------------------------
(* The identity topic: outputs at their limits, over each of them, and     *)
(* failing each check; fewer kinds for transactions of several outputs.    *)

Policy ==
    [MaxScriptBytes |-> 2, MaxFields |-> 2, MaxOutputs |-> 3, MaxTotalScriptBytes |-> 4,
     MaxNotificationBytes |-> 2]

Good == [bytes |-> 1, pushes |-> 2, fields |-> 1, bad |-> {}]

OneOutput ==
    {Good, [Good EXCEPT !.bytes = 2, !.pushes = 3, !.fields = 2],
     [Good EXCEPT !.bytes = 3], [Good EXCEPT !.pushes = 4], [Good EXCEPT !.pushes = 1],
     [Good EXCEPT !.fields = 3], [Good EXCEPT !.fields = 0], [Good EXCEPT !.bytes = 0]}
    \cup {[Good EXCEPT !.bad = {c}] :
            c \in {"envelope", "fields", "certificate", "signature", "verify", "decrypt"}}

SomeOutputs == {Good, [Good EXCEPT !.bytes = 2], [Good EXCEPT !.bad = {"verify"}]}

Tx(outputs, inputs, beef) ==
    [outputs |-> outputs, inputs |-> inputs, beef |-> beef, atomic |-> TRUE, whole |-> TRUE]

SubmittedTxs ==
    {Tx(<<o>>, 1, beef) : o \in OneOutput, beef \in {2, 3}}
    \cup {Tx(s, 1, 2) : s \in SeqOf(SomeOutputs, 2)}
    \cup {Tx(<<o, p, Good>>, 1, 2) : o, p \in SomeOutputs}
    \cup {Tx(<<Good>>, 0, 2), Tx([i \in 1 .. 4 |-> Good], 1, 2),
          [Tx(<<Good>>, 1, 2) EXCEPT !.whole = FALSE]}
    \cup {[Tx(<<o, Good>>, 1, 2) EXCEPT !.atomic = FALSE] : o \in SomeOutputs}

ASSUME TopicAssumption

-----------------------------------------------------------------------------
(* The identity lookup: every combination of selectors with few            *)
(* attributes, every attribute alone, and questions by identity key with   *)
(* every limit and offset about the bounds.                                *)

R(o, serial, key, type, certifier, userName, name) ==
    [outpoint |-> o, serial |-> serial, key |-> key, type |-> type, certifier |-> certifier,
     userName |-> userName, name |-> name, text |-> userName \o <<" ">> \o name]

ThreeRecords ==
    {R(1, "s1", "k1", "t1", "c1", <<"x">>, <<"y", "x">>),
     R(2, "s2", "k1", "t2", "c2", <<"x", " ", "y">>, <<"y">>),
     R(3, "s3", "k2", "t1", "c1", <<"y">>, <<"z", "z", "z">>)}

FourRecords == {R(i, "s", "k1", "t1", "c1", <<"x">>, <<"y">>) : i \in 1 .. 4}

\* A property is absent, malformed, or has a value.
Property(holds, bad) == {<<>>, <<bad, bad>>} \cup {<<v>> : v \in holds}
NoneAsked == {<<>>}

Texts ==
    SeqOf({"x", " "}, 3)
    \cup {<<"y", "x">>, <<"x", "y">>, <<"x", " ", "y">>, <<"y", " ", " ", "y">>, <<"z", "z", "z">>}
AskedNames ==
    {<<"x">>, <<" ", "y", " ">>, <<" ">>, <<"y", " ", " ", "x">>, <<"x", " ", "y">>, <<"z", " ", "z", "z">>,
     <<"z", "z", " ", "z", "z">>}

Attributes ==
    {<<>>} \cup [{"any"} -> Texts] \cup [{"userName"} -> Texts] \cup [{"userName", "name"} -> AskedNames]
    \cup [{"any", "name"} -> AskedNames]

Ask(serials, attributes, keys, types, certifiers, limits, offsets) ==
    [serialNumber : serials, attributes : attributes, identityKey : keys,
     certificateTypes : types, certifiers : certifiers, limit : limits, offset : offsets]

Certifiers == Property({{}, {"c1"}}, {})

SelectorQueries ==
    Ask(Property({"", "s2"}, ""),
        Property({<<>>, [f \in {"name"} |-> <<"y">>]}, <<>>),
        Property({"", "k1"}, ""), Property({{}, {"t1"}}, {}), Certifiers, NoneAsked, NoneAsked)
    \cup Ask(NoneAsked, {<<a>> : a \in Attributes}, NoneAsked, NoneAsked,
             Certifiers, NoneAsked, NoneAsked)

PageQueries ==
    Ask(NoneAsked, NoneAsked, {<<"k1">>}, NoneAsked, NoneAsked,
        Property(-1 .. 4, 0), Property(-1 .. 3, 0))

PlainQuery ==
    Ask(NoneAsked, NoneAsked, {<<"k1">>}, NoneAsked, NoneAsked, NoneAsked, NoneAsked)

AskedQueries == SelectorQueries \cup PageQueries
IndexedRecords == ThreeRecords \cup FourRecords

QueryPart == indexed \in SUBSET ThreeRecords /\ values \in SelectorQueries
PagesPart == indexed \in SUBSET FourRecords /\ values \in PageQueries

ASSUME QueryPolicyAssumption /\ RecordAssumption /\ SearchAssumption

-----------------------------------------------------------------------------

RegistryIdle == registered = NoSets /\ ads = {} /\ RegistryInit

LookupIdle == stored = {} /\ edges = {} /\ LookupInit

TopicIdle == tx = Tx(<<Good>>, 1, 2) /\ Init

QueryIdle == indexed = {} /\ values \in PlainQuery /\ QueryInit

InRegistry == TopicIdle /\ LookupIdle /\ QueryIdle
InLookup == TopicIdle /\ RegistryIdle /\ QueryIdle
InTopic == RegistryIdle /\ LookupIdle /\ QueryIdle
InQuery == TopicIdle /\ RegistryIdle /\ LookupIdle

MCInit ==
    \/ part = "sync" /\ RegistryInit /\ SyncPart /\ InRegistry
    \/ part = "overlap" /\ RegistryInit /\ OverlapPart /\ InRegistry
    \/ part = "lock" /\ RegistryInit /\ LockPart /\ InRegistry
    \/ part = "history" /\ HistoryPart /\ edges = EdgesOf(stored) /\ LookupInit /\ InLookup
    \/ part = "answers" /\ AnswersPart /\ LookupInit /\ InLookup
    \/ part = "topic" /\ Init /\ InTopic
    \/ part = "query" /\ QueryPart /\ QueryInit /\ InQuery
    \/ part = "pages" /\ PagesPart /\ QueryInit /\ InQuery

outsideRegistry == <<part, vars, lookupVars, queryVars>>
outsideLookup == <<part, vars, registryVars, queryVars>>
outsideTopic == <<part, registryVars, lookupVars, queryVars>>
outsideQuery == <<part, vars, registryVars, lookupVars>>

SyncNext == part = "sync" /\ RegistryNext /\ SyncPart' /\ UNCHANGED outsideRegistry
OverlapNext == part = "overlap" /\ RegistryNext /\ OverlapPart' /\ UNCHANGED outsideRegistry
LockNext == part = "lock" /\ RegistryNext /\ LockPart' /\ UNCHANGED outsideRegistry
HistoryNext ==
    part = "history" /\ LookupNext /\ HistoryPart' /\ counted'.failure = 0 /\ UNCHANGED outsideLookup
AnswersNext == part = "answers" /\ LookupNext /\ AnswersPart' /\ UNCHANGED outsideLookup
TopicNext == part = "topic" /\ Next /\ UNCHANGED outsideTopic
SelectorsNext == part = "query" /\ QueryNext /\ UNCHANGED outsideQuery
PagesNext == part = "pages" /\ QueryNext /\ UNCHANGED outsideQuery

MCNext ==
    \/ SyncNext \/ OverlapNext \/ LockNext \/ HistoryNext \/ AnswersNext
    \/ TopicNext \/ SelectorsNext \/ PagesNext

MCSpec == MCInit /\ [][MCNext]_allVars
=============================================================================
