---------------------------- MODULE IdentityQuery ----------------------------
(***************************************************************************)
(* Queries of the identity lookup service: CompileQuery of                 *)
(* pkg/topics/identity/query.go, and Lookup of lookup.go, which runs the   *)
(* compiled query on the injected projection and checks its answer.        *)
(*                                                                         *)
(* A JSON property is a sequence: <<>> when it is absent, <<v>> when it    *)
(* holds v, and <<v, v>> when it is malformed (of another type, null, or   *)
(* over its size limit).  A search text is a sequence of characters.  The  *)
(* projection is the host's: it is modelled by the contract in the         *)
(* package's README, with any order of results, and it may also break the  *)
(* limit it was given.                                                     *)
(***************************************************************************)
EXTENDS Integers, Sequences, FiniteSets, SequencesExt, FiniteSetsExt

CONSTANTS
    Records,      \* identity records that may be indexed
    Queries,      \* the JSON objects that are asked
    MaxResults,   \* QueryPolicy.MaxResults
    MaxOffset     \* QueryPolicy.MaxOffset

\* QueryPolicy.validate
QueryPolicyAssumption == {MaxResults, MaxOffset} \subseteq Nat \ {0}

\* A serial number encodes 32 bytes, so it is never empty.
RecordAssumption == IsFiniteSet(Records) /\ \A r \in Records : r.serial # ""

VARIABLES
    indexed,   \* records in the projection
    progress,  \* "idle", "compiled", "found", "answered", "error"
    values,    \* the decoded JSON object
    query,     \* the compiled query
    found,     \* what the projection returned
    answer     \* the outpoints of the formulas

queryVars == <<indexed, progress, values, query, found, answer>>

Space == " "

Given(v) == Len(v) >= 1
Malformed(v) == Len(v) = 2
\* The decoded value, or d when the property is absent.
ValueOr(v, d) == IF Given(v) THEN v[1] ELSE d

-----------------------------------------------------------------------------
(* CompileQuery *)

\* The builder, and whether a space is pending between two words.
normalizeSearchInput(input) ==
    FoldLeft(LAMBDA b, c :
                IF c = Space THEN [b EXCEPT !.pending = b.text # <<>>]
                ELSE [text |-> (IF b.pending THEN Append(b.text, Space) ELSE b.text) \o <<c>>,
                      pending |-> FALSE],
             [text |-> <<>>, pending |-> FALSE], input).text

\* The tokens of a normalized text, which the pattern joins by ".*".
fuzzyPattern(text) ==
    FoldLeft(LAMBDA tokens, c :
                IF c = Space THEN Append(tokens, <<>>)
                ELSE [tokens EXCEPT ![Len(tokens)] = Append(@, c)],
             <<<<>>>>, text)

\* The value is a sequence of texts, a single one unless it is a fuzzy pattern.
Predicate(field, value, match) == [field |-> field, value |-> value, match |-> match]

\* No more than one unit: empty; two: fuzzy; more: full text.
compileAnyAttribute(input) ==
    LET text == normalizeSearchInput(input)
    IN CASE Len(text) <= 1 -> {}
         [] Len(text) = 2  -> {Predicate("", fuzzyPattern(text), "fuzzy")}
         [] OTHER          -> {Predicate("", <<text>>, "text")}

\* userName is compared exactly; a blank field is left out.
compileFieldAttributes(attributes) ==
    LET text(field) == normalizeSearchInput(attributes[field])
    IN {IF field = "userName"
        THEN Predicate(field, <<text(field)>>, "exact")
        ELSE Predicate(field, fuzzyPattern(text(field)), "fuzzy") :
           field \in {f \in DOMAIN attributes : text(f) # <<>>}}

compileAttributes(attributes) ==
    IF "any" \in DOMAIN attributes
    THEN compileAnyAttribute(attributes["any"])
    ELSE compileFieldAttributes(attributes)

NoQuery ==
    [kind |-> "none", serial |-> "", key |-> "", types |-> {}, certifiers |-> {},
     predicates |-> {}, limit |-> 0, offset |-> 0, unbounded |-> FALSE]

\* The limit of an unbounded query has no room for the extra record.
PaginationWithoutExtra(q, v) ==
    LET limit == ValueOr(v.limit, 0)
    IN [q EXCEPT !.unbounded = limit = 0,
                 !.limit = IF limit = 0 THEN MaxResults ELSE limit,
                 !.offset = ValueOr(v.offset, 0)]

\* An absent or zero limit is unbounded and asks for one record more.
compilePagination(q, v) ==
    LET limit == ValueOr(v.limit, 0)
    IN [q EXCEPT !.unbounded = limit = 0,
                 !.limit = IF limit = 0 THEN MaxResults + 1 ELSE limit,
                 !.offset = ValueOr(v.offset, 0)]

PaginationInvalid(v) ==
    \/ Malformed(v.limit)
    \/ Malformed(v.offset)
    \/ ValueOr(v.limit, 0) \notin 0 .. MaxResults
    \/ ValueOr(v.offset, 0) \notin 0 .. MaxOffset

\* The selectors in their order; a lower one is not even decoded.
SelectorInvalid(v) ==
    IF Given(v.serialNumber) THEN Malformed(v.serialNumber)
    ELSE IF Given(v.attributes) THEN Malformed(v.attributes) \/ Malformed(v.certifiers)
    ELSE \/ Malformed(v.identityKey)
         \/ Malformed(v.certificateTypes)
         \/ Malformed(v.certifiers)
         \/ ~Given(v.identityKey) /\ ~Given(v.certifiers)

\* The branch CompileQuery takes.
Kind(v) ==
    IF Given(v.serialNumber) THEN "serialNumber"
    ELSE IF Given(v.attributes) THEN "attributes"
    ELSE IF ~Given(v.identityKey) THEN "certifiers"
    ELSE IF Given(v.certificateTypes) THEN "identityKeyAndTypes" ELSE "identityKey"

\* Whether the branch is known to match nothing.
Empty(q) ==
    \/ q.kind = "serialNumber" /\ q.serial = ""
    \/ q.kind = "attributes" /\ q.predicates = {}
    \/ q.kind = "identityKeyAndTypes" /\ q.types = {}
    \/ q.kind = "certifiers" /\ q.certifiers = {}

\* A branch fills in the properties it uses and leaves the others zero.
Select(v) ==
    LET kind == Kind(v)
        read(kinds, property, zero) == IF kind \in kinds THEN ValueOr(property, zero) ELSE zero
    IN [NoQuery EXCEPT
          !.kind       = kind,
          !.serial     = read({"serialNumber"}, v.serialNumber, ""),
          !.key        = read({"identityKey", "identityKeyAndTypes"}, v.identityKey, ""),
          !.types      = read({"identityKeyAndTypes"}, v.certificateTypes, {}),
          !.certifiers = IF kind = "serialNumber" THEN {} ELSE ValueOr(v.certifiers, {}),
          !.predicates = IF kind = "attributes" THEN compileAttributes(v.attributes[1]) ELSE {}]

-----------------------------------------------------------------------------
(* The projection *)

\* The words of a text, as intervals and as texts.
Spans(text) ==
    {p \in (1 .. Len(text)) \X (1 .. Len(text)) :
        /\ p[1] <= p[2]
        /\ \A k \in p[1] .. p[2] : text[k] # Space
        /\ p[1] = 1 \/ text[p[1] - 1] = Space
        /\ p[2] = Len(text) \/ text[p[2] + 1] = Space}
Words(text) == {SubSeq(text, w[1], w[2]) : w \in Spans(text)}

\* Whether a text stands at a place in another.
StandsAt(part, text, i) == \A k \in DOMAIN part : i + k - 1 \in DOMAIN text /\ text[i + k - 1] = part[k]

\* The regular expression of the tokens matches somewhere in the text.
FuzzyMatch(tokens, text) ==
    \E at \in [DOMAIN tokens -> DOMAIN text] :
        /\ \A k \in DOMAIN tokens : StandsAt(tokens[k], text, at[k])
        /\ \A k \in 2 .. Len(tokens) : at[k] >= at[k - 1] + Len(tokens[k - 1])

\* Field "" is the searchable text of the record.
FieldOf(r, field) == CASE field = "userName" -> r.userName
                       [] field = ""         -> r.text
                       [] OTHER              -> r.name

Holds(p, r) ==
    LET text == FieldOf(r, p.field)
    IN CASE p.match = "exact" -> text = p.value[1]
         [] p.match = "fuzzy" -> FuzzyMatch(p.value, text)
         [] OTHER             -> Words(p.value[1]) \cap Words(text) # {}

\* Projection.Find honours the kind, the exact filters and every predicate.
FindMatches(q) ==
    {r \in indexed :
        /\ q.kind = "serialNumber" => r.serial = q.serial
        /\ q.kind \in {"identityKey", "identityKeyAndTypes"} => r.key = q.key
        /\ q.kind = "identityKeyAndTypes" => r.type \in q.types
        /\ q.certifiers # {} => r.certifier \in q.certifiers
        /\ \A p \in q.predicates : Holds(p, r)}

\* How many results are left after the offset, within the limit.
PageSize(matches, q) == Min({q.limit, Max({0, Cardinality(matches) - q.offset})})

-----------------------------------------------------------------------------
(* Lookup *)

QueryInit ==
    /\ indexed \in SUBSET Records
    /\ progress = "idle"
    /\ values \in Queries
    /\ query = NoQuery
    /\ found = {}
    /\ answer = {}

\* CompileQuery refuses the question.
RejectQuery ==
    /\ progress = "idle"
    /\ PaginationInvalid(values) \/ SelectorInvalid(values)
    /\ progress' = "error"
    /\ UNCHANGED <<indexed, values, query, found, answer>>

CompileQuery ==
    /\ progress = "idle"
    /\ ~PaginationInvalid(values)
    /\ ~SelectorInvalid(values)
    /\ query' = compilePagination(Select(values), values)
    /\ progress' = "compiled"
    /\ UNCHANGED <<indexed, values, found, answer>>

\* A query that cannot match is answered without the projection.
AnswerEmpty ==
    /\ progress = "compiled"
    /\ Empty(query)
    /\ progress' = "answered"
    /\ UNCHANGED <<indexed, values, query, found, answer>>

\* The projection answers with a page of the matches, in no particular order.
ProjectionFinds ==
    /\ progress = "compiled"
    /\ ~Empty(query)
    /\ found' \in kSubset(PageSize(FindMatches(query), query), FindMatches(query))
    /\ progress' = "found"
    /\ UNCHANGED <<indexed, values, query, answer>>

\* A projection that does not keep to the limit.
FindIgnoresLimit ==
    /\ progress = "compiled"
    /\ ~Empty(query)
    /\ found' = FindMatches(query)
    /\ progress' = "found"
    /\ UNCHANGED <<indexed, values, query, answer>>

\* The projection fails, or the context is cancelled.
ProjectionFails ==
    /\ progress = "compiled"
    /\ ~Empty(query)
    /\ progress' = "error"
    /\ UNCHANGED <<indexed, values, query, found, answer>>

\* ErrQueryBudget and ErrProjectionContract.
OverBudget ==
    \/ query.unbounded /\ Cardinality(found) > MaxResults
    \/ Cardinality(found) > query.limit

Refuse ==
    /\ progress = "found"
    /\ OverBudget
    /\ progress' = "error"
    /\ UNCHANGED <<indexed, values, query, found, answer>>

AnswerQuery ==
    /\ progress = "found"
    /\ ~OverBudget
    /\ answer' = found
    /\ progress' = "answered"
    /\ UNCHANGED <<indexed, values, query, found>>

QueryNext ==
    \/ RejectQuery
    \/ CompileQuery
    \/ AnswerEmpty
    \/ ProjectionFinds
    \/ FindIgnoresLimit
    \/ ProjectionFails
    \/ Refuse
    \/ AnswerQuery

QuerySpec == QueryInit /\ [][QueryNext]_queryVars

-----------------------------------------------------------------------------
(* The meaning of a question, as the package's README gives it *)

Trusted(v, r) ==
    \/ ~Given(v.certifiers)
    \/ v.certifiers[1] = {}
    \/ r.certifier \in v.certifiers[1]

\* The length of a text whose words are separated by single spaces.
PlainLength(text) ==
    LET spaces == {i \in 2 .. Len(text) - 1 :
                     /\ text[i] = Space
                     /\ text[i - 1] # Space
                     /\ \E k \in i + 1 .. Len(text) : text[k] # Space}
    IN Cardinality({i \in DOMAIN text : text[i] # Space}) + Cardinality(spaces)

\* The words of a question stand in a text, apart and in the order they were asked.
InOrder(asked, text) ==
    \E at \in [Spans(asked) -> DOMAIN text] : \A s \in Spans(asked) :
        /\ StandsAt(SubSeq(asked, s[1], s[2]), text, at[s])
        /\ \A u \in Spans(asked) : s[2] < u[1] => at[s] + s[2] - s[1] < at[u]

MeansAttributes(a, r) ==
    IF "any" \in DOMAIN a
    THEN /\ PlainLength(a["any"]) >= 2
         /\ IF PlainLength(a["any"]) = 2
            THEN InOrder(a["any"], r.text)
            ELSE Words(a["any"]) \cap Words(r.text) # {}
    ELSE /\ \E f \in DOMAIN a : Spans(a[f]) # {}
         /\ \A f \in DOMAIN a : Spans(a[f]) # {} =>
               IF f = "userName"
               THEN /\ InOrder(a[f], r.userName)
                    /\ Words(a[f]) = Words(r.userName)
                    /\ PlainLength(a[f]) = Len(r.userName)
               ELSE InOrder(a[f], r.name)

\* What the attributes of the questions are compiled to means the same to the
\* projection: the fold over their characters, on the questions at hand.
SearchAssumption ==
    \A v \in {w \in Queries : Given(w.attributes) /\ ~Malformed(w.attributes)}, r \in Records :
        LET predicates == compileAttributes(v.attributes[1])
        IN MeansAttributes(v.attributes[1], r) <=>
             predicates # {} /\ \A p \in predicates : Holds(p, r)

\* Whether record r is an answer to v.
Means(v, r) ==
    IF Given(v.serialNumber) THEN r.serial = v.serialNumber[1]
    ELSE IF Given(v.attributes) THEN MeansAttributes(v.attributes[1], r) /\ Trusted(v, r)
    ELSE IF Given(v.identityKey)
         THEN /\ r.key = v.identityKey[1]
              /\ Given(v.certificateTypes) => r.type \in v.certificateTypes[1]
              /\ Trusted(v, r)
    ELSE r.certifier \in v.certifiers[1]

-----------------------------------------------------------------------------
QueryTypeOK ==
    /\ indexed \subseteq Records
    /\ progress \in {"idle", "compiled", "found", "answered", "error"}
    /\ values \in Queries
    /\ answer \subseteq found
    /\ found \subseteq Records
    /\ query.limit \in 0 .. MaxResults + 1
    /\ query.offset \in 0 .. MaxOffset

(***************************************************************************)
(* Lookup answers the question that was asked: each record it returns is   *)
(* one the question means under the precedence of the selectors, and a     *)
(* question without pagination that gets an answer gets every such record, *)
(* also when CompileQuery declares it empty and never asks the projection. *)
(***************************************************************************)
AnswerMeansQuestion ==
    progress = "answered" =>
        /\ \A r \in answer : Means(values, r)
        /\ ~Given(values.limit) /\ ~Given(values.offset) =>
              answer = {r \in indexed : Means(values, r)}

(***************************************************************************)
(* An unbounded question is never silently cut short: it is answered with  *)
(* everything after its offset or with ErrQueryBudget, and a bounded one   *)
(* with exactly as many records as its page holds, when the projection     *)
(* keeps to the limit and the offset it was given.                         *)
(***************************************************************************)
NeverTruncated ==
    LET means == Cardinality({r \in indexed : Means(values, r)})
        left  == Max({0, means - ValueOr(values.offset, 0)})
        limit == ValueOr(values.limit, 0)
    IN progress = "answered" /\ Cardinality(found) = PageSize(FindMatches(query), query) =>
          /\ limit = 0 => Cardinality(answer) = left /\ left <= MaxResults
          /\ limit # 0 => Cardinality(answer) = Min({limit, left})

\* No answer is larger than the policy allows, whatever the projection returns.
AnswerWithinPolicy ==
    progress = "answered" =>
        /\ Cardinality(answer) <= MaxResults
        /\ ValueOr(values.limit, 0) # 0 => Cardinality(answer) <= values.limit[1]

(***************************************************************************)
(* The comment of CompileQuery: "malformed known properties are rejected". *)
(***************************************************************************)
MalformedRejected ==
    progress # "idle" /\ progress # "error" =>
        \A name \in DOMAIN values : ~Malformed(values[name])

\* The identity lookup returns the records that the question means under the
\* precedence of its selectors; it answers in full or with ErrQueryBudget, never cut
\* short, and never with more than the policy allows, whatever the projection returns.
AnswersTheQuestion ==
    QueryTypeOK /\ AnswerMeansQuestion /\ NeverTruncated /\ AnswerWithinPolicy

=============================================================================
