------------------------- MODULE MCStorageProgress -------------------------
(***************************************************************************)
(* TLC instances for what must eventually happen in the MongoDB adapter.   *)
(* A behaviour belongs to one part, which `part' names from the first      *)
(* state on; the variables of the other modules stay Off.                  *)
(*                                                                         *)
(*   operation  OperationStore: two callers and two attempts               *)
(*   payload    PayloadLifecycle: two goroutines of one store              *)
(*   schema     SchemaBootstrap: two releases that disagree, on databases  *)
(*              an operator has touched                                    *)
(***************************************************************************)
EXTENDS Integers, Sequences, FiniteSets, TLC

CONSTANTS Off, None

VARIABLES
    part,
    row, tx, txReceipt, effects, fresh, op, asked, runs, commits, told,
    payload, files, chunks, refs, lock, doc, sent, holder, resumed,
    db, at, missing, faults,
    wire,   \* of OperationStore and SchemaBootstrap
    pc      \* of all three

operationVars == <<row, tx, txReceipt, effects, fresh, op, asked, runs, commits, told>>
payloadVars == <<payload, files, chunks, refs, lock, doc, sent, holder, resumed>>
schemaVars == <<db, at, missing, faults>>
vars == <<part, operationVars, payloadVars, schemaVars, wire, pc>>

-----------------------------------------------------------------------------
Operations == INSTANCE OperationStore WITH
    Callers <- {"c1", "c2"}, Digests <- {"d1"}, Receipts <- {"r1"},
    NoDigest <- None, NoReceipt <- None, MaxAttempts <- 2, MaxLate <- 1, MaxToken <- 2,
    MaxBodyAttempts <- 1, MaxCommitAttempts <- 1

Payloads == INSTANCE PayloadLifecycle WITH
    Callers <- {"c1", "c2"}, Stores <- {"s1"}, StoreOf <- [c1 |-> "s1", c2 |-> "s1"],
    Holders <- {"h1"}, Nobody <- None, NumChunks <- 1, MaxToken <- 2, Inline <- FALSE

Index(n, d) == [name |-> n, def |-> d]

\* The two releases define an index of the outputs differently.
IndexesOf(scoreKey) ==
    [meta |-> <<>>, payloads |-> <<Index("state", "k1")>>,
     outputs |-> <<Index("owner", "u1"), Index("score", scoreKey)>>]

Clean == [coll |-> [meta |-> None, payloads |-> None, outputs |-> None],
          index |-> [meta |-> <<>>, payloads |-> <<>>, outputs |-> <<>>],
          ledger |-> [here |-> None], dups |-> {}, replica |-> TRUE]

Databases ==
    {Clean,
     [Clean EXCEPT !.coll.outputs = "view"],
     [Clean EXCEPT !.coll.outputs = "o", !.index.outputs = "score" :> "k3"],
     [Clean EXCEPT !.coll.outputs = "o", !.dups = {"owner"}],
     [Clean EXCEPT !.coll.meta = "m", !.ledger.here = "other"]}

Schemas == INSTANCE SchemaBootstrap WITH
    Stores <- {"s1", "s2"}, Scopes <- {"here"}, ScopeOf <- [s1 |-> "here", s2 |-> "here"],
    ReleaseOf <- [s1 |-> "r1", s2 |-> "r3"], Releases <- {"r1", "r3"},
    SchemaCollection <- "meta", DataCollections <- <<"payloads", "outputs">>,
    Validator <- [r \in {"r1", "r3"} |-> [meta |-> "m", payloads |-> "p", outputs |-> "o"]],
    Wanted <- [r1 |-> IndexesOf("k2"), r3 |-> IndexesOf("k3")],
    InitialDatabases <- Databases, MaxFaults <- 2

ASSUME Operations!OperationConstants /\ Payloads!PayloadConstants /\ Schemas!SchemaConstants

-----------------------------------------------------------------------------
OperationOff ==
    /\ row = Off /\ tx = Off /\ txReceipt = Off /\ effects = Off
    /\ fresh = Off /\ op = Off /\ asked = Off /\ runs = Off /\ commits = Off
    /\ told = Off

PayloadOff ==
    /\ payload = Off /\ files = Off /\ chunks = Off /\ refs = Off
    /\ lock = Off /\ doc = Off /\ sent = Off /\ holder = Off /\ resumed = Off

SchemaOff ==
    /\ db = Off /\ at = Off /\ missing = Off /\ faults = Off

outsideOperation == <<part, payloadVars, schemaVars>>
outsidePayload == <<part, operationVars, schemaVars, wire>>
outsideSchema == <<part, operationVars, payloadVars>>

Init ==
    \/ part = "operation" /\ Operations!Init /\ PayloadOff /\ SchemaOff
    \/ part = "payload" /\ Payloads!Init /\ OperationOff /\ SchemaOff /\ wire = Off
    \/ part = "schema" /\ Schemas!Init /\ OperationOff /\ PayloadOff

OperationNext == part = "operation" /\ Operations!Next /\ UNCHANGED outsideOperation
PayloadNext == part = "payload" /\ Payloads!Next /\ UNCHANGED outsidePayload
SchemaNext == part = "schema" /\ Schemas!Next /\ UNCHANGED outsideSchema

Next == OperationNext \/ PayloadNext \/ SchemaNext

-----------------------------------------------------------------------------
(* Fairness.                                                               *)
(*                                                                         *)
(* As `part' never changes, fairness of a disjunction of actions of        *)
(* different parts is fairness of each of them in its own part.            *)

OfOperation(A) == part = "operation" /\ A /\ UNCHANGED outsideOperation
OfPayload(A) == part = "payload" /\ A /\ UNCHANGED outsidePayload
OfSchema(A) == part = "schema" /\ A /\ UNCHANGED outsideSchema

\* Deadlines end every wait of a caller of the operation and the payload store,
\* and the calls of a bootstrap are answered; who runs a node opens its store
\* again after an error or a crash.
CallsEnd(i) ==
    LET c == <<"c1", "c2">>[i]
        s == <<"s1", "s2">>[i]
    IN WF_vars(\/ OfOperation(Operations!CallerStep(c) \/ Operations!pendingOperation(c))
               \/ OfPayload(Payloads!Erase(c) \/ Payloads!Abandon(c))
               \/ OfSchema(Schemas!New(s) \/ Schemas!Step(s)))

\* The server ends every transaction and its clock runs.
ServerRuns ==
    /\ \A a \in 1 .. 2 :
          WF_vars(OfOperation(Operations!ServerCommit(a) \/ Operations!ServerAbort(a)))
    /\ WF_vars(OfOperation(Operations!ExpireLease))

\* One caller keeps calling ReconcileOperation for the digest of the row until
\* one of its fences reaches the database, and CollectPayload for as long as the
\* deletion is unfinished: a database that keeps answering some of the calls
\* eventually answers each of the steps of one.
CallsRepeated ==
    /\ SF_vars(\/ OfOperation(row.digest = "d1" /\ Operations!ReconcileOperation("c1", "d1", 0))
               \/ OfPayload(payload.state = "deleting" /\ Payloads!CollectPayload("c1")))
    /\ SF_vars(\/ OfOperation(Operations!FenceExpired("c1"))
               \/ OfPayload(Payloads!RemoveFile("c1", "erase", "eraseChunks")))
    /\ SF_vars(OfPayload(Payloads!RemoveChunks("c1", "eraseChunks", "finish")))
    /\ SF_vars(OfPayload(Payloads!finishPayloadDeletion("c1")))

Spec == Init /\ [][Next]_vars /\ (\A i \in 1 .. 2 : CallsEnd(i)) /\ ServerRuns /\ CallsRepeated

-----------------------------------------------------------------------------
(* Properties.                                                             *)

\* An operation does not stay pending for ever: neither a crashed worker nor an
\* ambiguous commit can block its operation ID (operation.go).
PendingResolves ==
    part = "operation" /\ row.state = "pending" ~> part = "operation" /\ row.state # "pending"

\* A deletion that was claimed is finished, though its claimer may have crashed
\* between any two of the writes of CollectPayload (payload.go, blob.go).
DeletingFinishes ==
    part = "payload" /\ payload.state = "deleting" ~> part = "payload" /\ payload.state = "deleted"

\* A half-made database never locks anyone out (schema.go): whoever keeps trying
\* gets a store unless the database holds something the release must object to.
OpensOrMismatch ==
    \A s \in {"s1", "s2"} :
        []<>(part = "schema" => pc[s] = "ready" \/ Schemas!Mismatch(s))
=============================================================================
