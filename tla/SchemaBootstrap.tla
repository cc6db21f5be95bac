------------------------------ MODULE SchemaBootstrap ------------------------------
(***************************************************************************)
(* Opening a store (pkg/storage/mongodb/store.go, New) and the bootstrap   *)
(* of its database (schema.go).  Several processes open stores on one      *)
(* database at the same time, any of them may crash or lose the answer to  *)
(* any call, and a write whose sender has given up may still be applied.   *)
(* A definition (of a collection's validator and options, or of an index's *)
(* keys and options) is one value: compatible means equal.                 *)
(***************************************************************************)
EXTENDS Naturals, Sequences, FiniteSets

CONSTANTS
    Stores,         \* the processes that call New
    Scopes,         \* network, genesis hash and node ID
    ScopeOf,        \* the scope of each store
    ReleaseOf,      \* the release of the program each store runs
    Releases,
    SchemaCollection,
    DataCollections,    \* the sequence of schemaDataSpecs, by name
    Validator,      \* Validator[r][c]: the definition release r wants for c
    Wanted,         \* Wanted[r][c]: the sequence of [name, def] indexes
    None,
    InitialDatabases,   \* what an operator may have left in the database
    MaxFaults       \* crashes and failed calls of a behaviour

VARIABLES
    db,         \* coll, index, ledger, dups (unique indexes the data forbids),
                \* replica (a writable primary of an unsharded replica set)
    wire,       \* writes whose sender has given up
    pc, at,     \* how far each bootstrap is, and in which collection
    missing,    \* indexes still to be created there, by their place in Wants
    faults

vars == <<db, wire, pc, at, missing, faults>>

Names == {SchemaCollection} \cup {DataCollections[i] : i \in 1..Len(DataCollections)}
CollectionOf(s) == IF at[s] = 0 THEN SchemaCollection ELSE DataCollections[at[s]]
Wants(s) == Wanted[ReleaseOf[s]][CollectionOf(s)]

Answers == {"ready", "incompatible", "reported", "failed"}
Waiting == {"topology", "list", "create", "relist", "check", "indexes",
            "build", "probe", "ledger", "verify"}

IsDatabase(d) ==
    /\ DOMAIN d = {"coll", "index", "ledger", "dups", "replica"}
    /\ DOMAIN d.coll = Names /\ DOMAIN d.index = Names /\ DOMAIN d.ledger = Scopes

\* Everything release r asks of a database is there as r defines it.
CompleteIn(d, r) ==
    /\ \A c \in Names : d.coll[c] = Validator[r][c]
    /\ \A c \in Names : \A i \in 1..Len(Wanted[r][c]) :
        LET m == Wanted[r][c][i]
        IN  m.name \in DOMAIN d.index[c] /\ d.index[c][m.name] = m.def

\* The schema collection has no indexes of its own, a collection's indexes have
\* different names, and nobody but New has written the ledger of a release.
SchemaConstants ==
    /\ ScopeOf \in [Stores -> Scopes] /\ ReleaseOf \in [Stores -> Releases]
    /\ DataCollections \in Seq(Names \ {SchemaCollection})
    /\ None \notin Releases
    /\ \A r \in Releases : Wanted[r][SchemaCollection] = <<>>
    /\ \A r \in Releases : \A c \in Names :
        /\ Validator[r][c] # None
        /\ \A i \in 1..Len(Wanted[r][c]) :
            LET m == Wanted[r][c][i]
            IN  /\ m = [name |-> m.name, def |-> m.def]
                /\ \A j \in 1..Len(Wanted[r][c]) : Wanted[r][c][j].name = m.name => j = i
    /\ \A d \in InitialDatabases :
        /\ IsDatabase(d)
        /\ \A x \in Scopes : d.ledger[x] \in Releases => CompleteIn(d, d.ledger[x])
    /\ MaxFaults \in Nat

-----------------------------------------------------------------------------
(* The database.                                                             *)

\* schemaIndexCompatible: keys, unique, sparse and hidden agree, nothing else is set.
SameIndex(m, n, def) == m = [name |-> n, def |-> def]

Write(kind, on, name, def) == [kind |-> kind, on |-> on, name |-> name, def |-> def]

\* The database after a write: creating what exists, and $setOnInsert on an
\* existing document, change nothing; a unique index needs unique data.
Applied(d, w) ==
    CASE w.kind = "collection" /\ d.coll[w.on] = None -> [d EXCEPT !.coll[w.on] = w.def]
      [] w.kind = "index" /\ w.name \notin DOMAIN d.index[w.on] \cup d.dups ->
            [d EXCEPT !.index[w.on] = [n \in {w.name} \cup DOMAIN @ |->
                                            IF n = w.name THEN w.def ELSE @[n]]]
      [] w.kind = "ledger" /\ d.ledger[w.on] = None -> [d EXCEPT !.ledger[w.on] = w.def]
      [] OTHER -> d

\* The indexes are created in the order in which they are wanted.
First(s) == {i \in missing[s] : \A j \in missing[s] : i <= j}

\* The write a store is about to send; `{}' when it is not about to write.
Sending(s) ==
    CASE pc[s] = "create" ->
            {Write("collection", CollectionOf(s), "", Validator[ReleaseOf[s]][CollectionOf(s)])}
      [] pc[s] = "build" ->
            {Write("index", CollectionOf(s), Wants(s)[i].name, Wants(s)[i].def) : i \in First(s)}
      [] pc[s] = "ledger" -> {Write("ledger", ScopeOf[s], "", ReleaseOf[s])}
      [] OTHER -> {}

LateApply ==
    /\ \E w \in wire : db' = Applied(db, w) /\ wire' = wire \ {w}
    /\ UNCHANGED <<pc, at, missing, faults>>

Goes(s, where) == pc' = [pc EXCEPT ![s] = where]

-----------------------------------------------------------------------------
(* Init: the database is as the operator left it.                            *)

Init ==
    /\ db \in InitialDatabases
    /\ wire = {}
    /\ pc = [s \in Stores |-> "idle"]
    /\ at = [s \in Stores |-> 0]
    /\ missing = [s \in Stores |-> {}]
    /\ faults = 0

\* New, or New again after an error.
New(s) ==
    /\ pc[s] \in {"idle", "incompatible", "reported", "failed"}
    /\ Goes(s, "topology")
    /\ at' = [at EXCEPT ![s] = 0]
    /\ missing' = [missing EXCEPT ![s] = {}]
    /\ UNCHANGED <<db, wire, faults>>

SchemaTopology(s) ==
    /\ pc[s] = "topology"
    /\ Goes(s, IF db.replica THEN "list" ELSE "incompatible")
    /\ UNCHANGED <<db, wire, at, missing, faults>>

\* Where bootstrap goes once a collection is there, and once its indexes are.
AfterCollection(s) == IF at[s] = 0 THEN "check" ELSE "indexes"

NextSpec(s) ==
    IF at[s] = Len(DataCollections)
    THEN Goes(s, "probe") /\ UNCHANGED at
    ELSE Goes(s, "list") /\ at' = [at EXCEPT ![s] = @ + 1]

\* Mutant: the options of a collection that exists are not compared.
CollectionVerdictAny(s) == AfterCollection(s)

\* schemaCollectionCompatible on the one collection listed.
CollectionVerdict(s) ==
    IF db.coll[CollectionOf(s)] = Validator[ReleaseOf[s]][CollectionOf(s)]
    THEN AfterCollection(s) ELSE "incompatible"

ListCollections(s) ==
    /\ pc[s] = "list"
    /\ Goes(s, IF db.coll[CollectionOf(s)] = None THEN "create" ELSE CollectionVerdict(s))
    /\ UNCHANGED <<db, wire, at, missing, faults>>

\* Mutant: a lost race is tried again as if the collection were still missing.
CreateCollectionAgain(s) ==
    /\ pc[s] = "create"
    /\ \E w \in Sending(s) :
        /\ Goes(s, IF db.coll[w.on] = None THEN AfterCollection(s) ELSE "create")
        /\ db' = Applied(db, w)
    /\ UNCHANGED <<wire, at, missing, faults>>

\* The server refuses to create what exists; some versions accept it when the
\* options are the same.
CreateCollection(s) ==
    /\ pc[s] = "create"
    /\ \E w \in Sending(s) :
        /\ \/ db.coll[w.on] \in {None, w.def} /\ Goes(s, AfterCollection(s))
           \/ db.coll[w.on] # None /\ Goes(s, "relist")
        /\ db' = Applied(db, w)
    /\ UNCHANGED <<wire, at, missing, faults>>

\* "A concurrent bootstrap may have created it; inspect rather than overwrite."
InspectCollection(s) ==
    /\ pc[s] = "relist"
    /\ Goes(s, IF db.coll[CollectionOf(s)] = None THEN "failed" ELSE CollectionVerdict(s))
    /\ UNCHANGED <<db, wire, at, missing, faults>>

\* schemaCheckLedger before the data collections.
CheckLedger(s) ==
    /\ pc[s] = "check"
    /\ IF db.ledger[ScopeOf[s]] \in {None, ReleaseOf[s]}
       THEN NextSpec(s)
       ELSE Goes(s, "incompatible") /\ UNCHANGED at
    /\ UNCHANGED <<db, wire, missing, faults>>

\* schemaRejectUnexpectedIndexes.
UnexpectedIndexes(s) ==
    \E n \in DOMAIN db.index[CollectionOf(s)] :
        \A i \in 1..Len(Wants(s)) :
            ~SameIndex(Wants(s)[i], n, db.index[CollectionOf(s)][n])

\* schemaListIndexes; what is missing is decided on this list.
ListIndexes(s) ==
    /\ pc[s] = "indexes"
    /\ IF UnexpectedIndexes(s)
       THEN Goes(s, "incompatible") /\ UNCHANGED <<at, missing>>
       ELSE LET todo == {i \in 1..Len(Wants(s)) :
                            Wants(s)[i].name \notin DOMAIN db.index[CollectionOf(s)]}
            IN  /\ missing' = [missing EXCEPT ![s] = todo]
                /\ IF todo = {} THEN NextSpec(s) ELSE Goes(s, "build") /\ UNCHANGED at
    /\ UNCHANGED <<db, wire, faults>>

\* One CreateOne of schemaCreateMissingIndexes: an equal index is accepted, an
\* index of the same name that differs, or data with duplicates, is an error.
CreateIndex(s) ==
    /\ pc[s] = "build"
    /\ \E w \in Sending(s) :
        /\ db' = Applied(db, w)
        /\ IF w.name \in DOMAIN db'.index[w.on] /\ db'.index[w.on][w.name] = w.def
           THEN /\ missing' = [missing EXCEPT ![s] = @ \ First(s)]
                /\ IF missing'[s] = {} THEN NextSpec(s) ELSE UNCHANGED <<pc, at>>
           ELSE Goes(s, "incompatible") /\ UNCHANGED <<at, missing>>
    /\ UNCHANGED <<wire, faults>>

\* A document of this owner's own is inserted, read and deleted in a transaction.
ProbeTransaction(s) ==
    /\ pc[s] = "probe"
    /\ Goes(s, "ledger")
    /\ UNCHANGED <<db, wire, at, missing, faults>>

\* Mutant: $set in place of $setOnInsert replaces the ledger of another release.
WriteLedgerOver(s) ==
    /\ pc[s] = "ledger"
    /\ db' = [db EXCEPT !.ledger[ScopeOf[s]] = ReleaseOf[s]]
    /\ Goes(s, "verify")
    /\ UNCHANGED <<wire, at, missing, faults>>

WriteLedger(s) ==
    /\ pc[s] = "ledger"
    /\ \E w \in Sending(s) : db' = Applied(db, w)
    /\ Goes(s, "verify")
    /\ UNCHANGED <<wire, at, missing, faults>>

\* schemaCheckLedger after the upsert, which may have found another's document.
VerifyLedger(s) ==
    /\ pc[s] = "verify"
    /\ Goes(s, IF db.ledger[ScopeOf[s]] \in {None, ReleaseOf[s]} THEN "ready" ELSE "incompatible")
    /\ UNCHANGED <<db, wire, at, missing, faults>>

-----------------------------------------------------------------------------
(* Faults.                                                                   *)

\* A call of bootstrap fails, or its deadline passes; a write may be under way.
\* hello, index builds and the probe report any error as ErrIncompatibleSchema;
\* a failed create is looked into.
CallFails(s) ==
    /\ pc[s] \in Waiting /\ faults < MaxFaults
    /\ faults' = faults + 1
    /\ wire' \in {wire, wire \cup Sending(s)}
    /\ Goes(s, CASE pc[s] = "create" -> "relist"
                 [] pc[s] \in {"topology", "build", "probe"} -> "reported"
                 [] OTHER -> "failed")
    /\ UNCHANGED <<db, at, missing>>

\* The process dies, with or without a store.
Crash(s) ==
    /\ pc[s] \in Waiting \cup {"ready"} /\ faults < MaxFaults
    /\ faults' = faults + 1
    /\ wire' \in {wire, wire \cup Sending(s)}
    /\ Goes(s, "idle")
    /\ UNCHANGED <<db, at, missing>>

Step(s) ==
    \/ SchemaTopology(s) \/ ListCollections(s) \/ CreateCollection(s)
    \/ InspectCollection(s) \/ CheckLedger(s) \/ ListIndexes(s) \/ CreateIndex(s)
    \/ ProbeTransaction(s) \/ WriteLedger(s) \/ VerifyLedger(s)

Next ==
    \/ \E s \in Stores : New(s) \/ Step(s) \/ CallFails(s) \/ Crash(s)
    \/ LateApply

Spec == Init /\ [][Next]_vars

-----------------------------------------------------------------------------
(* Properties.                                                               *)

TypeOK ==
    /\ IsDatabase(db)
    /\ \A w \in wire : w.kind \in {"collection", "index", "ledger"}
    /\ pc \in [Stores -> Waiting \cup Answers \cup {"idle"}]
    /\ at \in [Stores -> 0..Len(DataCollections)]
    /\ \A s \in Stores : pc[s] = "build" => missing[s] # {}
    /\ faults \in 0..MaxFaults

Complete(r) == CompleteIn(db, r)

\* What a store can object to.
Mismatch(s) ==
    LET r == ReleaseOf[s]
    IN  \/ \E c \in Names : db.coll[c] \notin {None, Validator[r][c]}
        \/ \E c \in Names : \E n \in DOMAIN db.index[c] :
            \A i \in 1..Len(Wanted[r][c]) :
                ~SameIndex(Wanted[r][c][i], n, db.index[c][n])
        \/ db.ledger[ScopeOf[s]] \notin {None, r}
        \/ db.dups # {}
        \/ ~db.replica

\* The ledger of a scope is written last and speaks for the whole database: once
\* it names a release, every collection and index of that release is in place,
\* whatever crashed, came late or ran beside it (schema.go, bootstrap).
LedgerIsTrue ==
    \A x \in Scopes : db.ledger[x] \in Releases => Complete(db.ledger[x])

\* A store that New returned has its ledger and all of its structures, and keeps
\* them, also when stores of another release are opened on the database.
ReadyIsComplete ==
    \A s \in Stores : pc[s] = "ready" =>
        db.ledger[ScopeOf[s]] = ReleaseOf[s] /\ Complete(ReleaseOf[s])

\* A store is refused after a comparison only for a difference that is really
\* there: bootstraps of one release that race never take each other's half-made
\* database for an incompatible one (schemaEnsureCollection, schemaEnsureIndexes).
VerdictIsReal ==
    \A s \in Stores : pc[s] = "incompatible" => Mismatch(s)

\* Bootstraps that race, crash and come late agree on what is in the database.
BootstrapIsSound == TypeOK /\ VerdictIsReal /\ LedgerIsTrue /\ ReadyIsComplete

\* "incompatible existing structures are rejected without alteration" (store.go,
\* New): no step changes or removes a definition that exists.
NothingAlteredStep ==
    /\ \A c \in Names : db.coll[c] # None => db'.coll[c] = db.coll[c]
    /\ \A c \in Names : \A n \in DOMAIN db.index[c] :
        n \in DOMAIN db'.index[c] /\ db'.index[c][n] = db.index[c][n]
    /\ \A x \in Scopes : db.ledger[x] # None => db'.ledger[x] = db.ledger[x]

NothingAltered == [][NothingAlteredStep]_vars

\* ErrIncompatibleSchema "indicates bootstrap found an incompatible schema or
\* topology" (store.go:24).
IncompatibleMeansMismatch ==
    \A s \in Stores : pc[s] \in {"incompatible", "reported"} => Mismatch(s)

=============================================================================
