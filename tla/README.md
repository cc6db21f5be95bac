# A TLA+ model of go-overlay-services

The repository is an overlay node: it takes transactions (BEEF), lets *topic managers* decide
which of their outputs belong to a topic, stores the outputs, answers lookups and exchanges
topic state with peers. This directory models the parts of it whose correctness depends on
orders of events that tests hardly reach, checks them with TLC on small instances, and proves
the most important properties with TLAPS for every instance.

Paths below are relative to the repository root; `engine/` is `pkg/core/engine/` and
`mongodb/` is `pkg/storage/mongodb/`.

## Inventory

| part | state | operations | what is hard | what makes it correct |
|---|---|---|---|---|
| operation store (`mongodb/operation.go`, `transaction.go`) | one row per operation ID: state, attempt, token, digest, lease, receipt | `ExecuteOperation`, `ReconcileOperation` | concurrent claims, unknown commits, late writes, crashes, expiry | one body takes effect; no answer is contradicted later; nothing stays pending |
| payload store (`mongodb/payload.go`, `blob.go`) | payload document, GridFS files and chunks, references | `PublishPayload`, `PinPayload`, `CopyPayload`, `ReleasePayload`, `CollectPayload` | uploads outside transactions, resumed uploads, collectors racing with pins, interrupted deletion | a ready payload can be read; a pin excludes collection; deletion finishes |
| admission (`engine/admission_submit.go`, `mongodb/admission.go`, `engine/recovery_contract.go`) | outputs, applied transactions, edges, outbox, fences, leases | `submitWithAdmission`, `CommitAdmission`, `ReconcileAdmission` | plans built from stale reads, snapshot transactions, recovery workers | no double spend, no second admission, history graph and generations consistent |
| submit without admission store (`engine/engine.go`, `mongodb/storage.go`) | outputs, spends, edges, applied records, the index of a lookup service | `Submit` and its steps, `deleteUTXODeep` | check-then-act on shared documents, duplicates, errors between steps | what is applied is served; index, outputs and edges agree |
| Merkle proofs (`engine/engine.go`, `internal/app/arc_ingest_service.go`) | BEEF, block height and merkle state of outputs | `HandleNewMerkleProof`, `ReconcileMerkleRoot` | whole BEEFs loaded and written back, recursion over consumers, reorganisations | a proof is the transaction's own and reaches every holder |
| synchronisation (`engine/engine.go`, `pkg/core/gasp/gasp.go`) | cursor per peer and topic, scores of the peer | `StartGASPSync`, `syncWithPeer`, `Sync` | pages by score, failing nodes, overlapping sessions, outputs that become visible late | nothing is skipped without a known reason; sessions end |
| GASP graphs (`pkg/core/gasp/gasp.go`, `engine/gasp-storage.go`, `engine/gasp-remote.go`) | queue, slots, temporary graphs, requests and submissions in flight | `ProcessUTXO`, `ProcessUTXOToCompletion`, `processUTXO`, `AppendToGraph`, `FinalizeGraph`, `RequestNode`, `Close` | three tables of shared work, a bounded pool, errors of dependencies | a completed root is applied, inputs first; everyone returns |
| BASM reads (`engine/basm-read*.go`, `internal/ports/basm_read_handler.go`, `pkg/core/basm`) | a view of anchors and headers during one call | tip, range, list, proof and raw reads | reorganisations during a read, untrusted stored proofs, odd trees, sizes that wrap | an answer is of one moment and whole; a proof proves its transaction; limits are exact |
| registry, advertisements (`engine/engine.go`, `pkg/core/advertiser`) | maps of managers and services under a `RWMutex`, published SHIP/SLAP advertisements | Register/Unregister/List, `SyncAdvertisements` | plug-in calls under the lock, snapshots, partial failure | advertisements follow the registry; calls return |
| lookup (`engine/engine.go`) | the stack of one history walk | `Lookup`, `GetUTXOHistory` | outputs deleted, admitted or relinked during the walk; outputs without BEEF | every path is real; none whose documents and edges stayed is missing |
| identity topic (`pkg/topics/identity`) | the projection of admitted outputs | `IdentifyAdmissibleOutputs`, notifications, `CompileQuery`, `Lookup` | cancellation between steps, repeated notifications, limits | admitted is projected; a question is answered in full or refused |
| schema, encodings (`mongodb/schema.go`, `encoding.go`, `pkg/core/basm/wire.go`) | collections, indexes, schema ledger; texts and bytes | `New`, `bootstrap`; encode and decode | processes that race, crash and run different releases; digits at boundaries | the ledger tells the truth; one encoding per value |
| HTTP server, configuration | none of their own | parsing, routing, loading | byte-level detail | not modelled |

How they interact. The HTTP server and the synchronisation both end in
`Engine.submitParsedBeefInternal`. With a store that advertises admission it plans
(`identifyAdmissibleOutputsPerTopic`, `broadcastIfNeeded`, `buildAdmissionPlan`) and calls
`CommitAdmission`; that is a body under `ExecuteOperation`, which runs in a MongoDB snapshot
transaction and pins payloads that `PublishPayload` made ready before. Without one it makes the
separate writes of `LegacySubmit`. `StartGASPSync` pages through a peer's outputs
(`GaspSync`); each output is the root of a graph that `GaspGraph` fetches and submits. Lookup
services are told of admissions and spends by `Submit` and are asked by `Lookup`. Nothing in the
repository calls `ReconcileAdmission`, `ReconcileOperation` or `CollectPayload` by itself: an
operator or an embedding program does. Processes share state only through MongoDB documents;
goroutines of one process also through the registry, the limiter and the three tables of GASP.

`PROJECT.json` lists every part, the hazards with the line at which each bites, and the
source lines behind every definition.

## Modules

Components:

| module | models | instantiated by |
|---|---|---|
| `OperationStore` | operation row, claims, bodies, commits, fences, reconciliation | `MCOperationStore`, `MCStorageProgress` |
| `AtomicOperation` | what the storage contract promises of one operation | `OperationStore` (refinement) |
| `PayloadLifecycle` | one payload and its GridFS content | `MCPayloadLifecycle`, `MCStorageProgress` |
| `AdmissionStore` | planning and committing admissions | `MCAdmissionStore` |
| `LegacySubmit` | `Submit` without an admission store, deletion of spent outputs | `MCEngine` |
| `MerkleProofs` | ARC callback, `HandleNewMerkleProof`, `ReconcileMerkleRoot` | `MCEngine` |
| `GaspSync` | sessions, pages and cursors | `MCEngine`, `MCEngineProgress` |
| `GaspGraph` | queue, traversals, shared requests and submissions | `MCEngine`, `MCEngineProgress` |
| `BasmProof` | validation and merging of stored Merkle paths | `MCBasm` |
| `BasmRead` | one BASM read from the handler to its answer | `MCBasm` |
| `BasmBudget` | size and range limits in words that wrap | `MCBasm` |
| `EngineRegistry` | registry, mutex, `SyncAdvertisements` | `MCServices`, `MCEngineProgress` |
| `LookupHistory` | `Lookup` and the history walk | `MCServices` |
| `IdentityTopic` | admission, projection and notifications of the identity topic | `MCServices` |
| `IdentityQuery` | compilation, execution and budgets of identity queries | `MCServices` |
| `SchemaBootstrap` | opening stores on one database | `MCSchema`, `MCStorageProgress` |
| `StorageEncoding` | numbers and keys as text | `MCSchema` |
| `BasmWire` | CompactSize, anchors, Merkle paths as bytes | `MCSchema` |
| `OperationStoreProofs`, `PayloadLifecycleProofs`, `AdmissionStoreProofs`, `SchemaBootstrapProofs` | theorems about the module they are named after | |
| `EngineWritesProofs` | theorems about `LegacySubmit` and `MerkleProofs` | |
| `GaspProofs` | theorems about `GaspSync` and `GaspGraph` | |
| `BasmServiceProofs` | theorems about `BasmRead` and `BasmBudget` | |
| `ServicesProofs` | theorems about `EngineRegistry`, `LookupHistory`, `IdentityTopic` and `IdentityQuery` | |

Actions carry the name of the Go function whose step they are; a function that talks to the
database several times is several actions, one per round trip, and a program counter says how
far a caller is. A definition that stands right before another one and that nothing uses, most
with a comment that starts with "Mutant", is a deliberate bug: replacing the definition it
precedes by it must break a property.

**Instances in parts.** `MCEngine`, `MCBasm`, `MCServices`, `MCSchema`, `MCStorageProgress` and
`MCEngineProgress` each check several component modules. A variable `part` is chosen initially and
never changes, and each step is a step of the component that `part` names. TLC thus explores a
disjoint union of instances in one run. `MCEngine` and `MCServices` extend all of their components,
`MCBasm` extends `BasmRead` and `BasmBudget`, `MCSchema` extends `SchemaBootstrap`: they check the
properties of these components under the components' own names, which are the names the theorems
use, and outside its parts a component rests in an initial state. A component has one set of
constants in a run; a part may use less of it (fewer callers, fewer outputs, no failing call), as
its next-state relation says. Components that are instantiated instead, some more than once with
different constants, have their variables `Off` in the other parts, and their properties are
conjunctions of implications, one per part. Nothing is composed that way: the components are composed where the
code composes them, by `AdmissionStore` resting on `OperationStore` and `PayloadLifecycle`, by
`GaspSync` resting on `CompletedIsApplied` of `GaspGraph`, and by `GaspGraph` submitting into the
engine of `LegacySubmit` or `AdmissionStore`, each time with the promise of the lower module as
one step of the upper one. In `MCAdmissionStore` the variable `scenario` likewise only selects
which submissions are made.

### OperationStore

`row` is the `operationDocument`; `tx` the server's side of each attempt's transaction;
`effects` what bodies committed; `wire` writes whose sender has stopped waiting; `told` the
answers given. `ExecuteOperation` is `ExecuteUnclaimed`/`ExecuteClaim`, `ClaimOperation`,
`ClaimReread`, then the transaction runner (`TxGuard`, `TxSave`, `TxConflict`, `TxBodyFails`,
`Commit...` with the two retry budgets) and `FenceAborted`/`FenceReread`.
`ReconcileOperation` is `ReconcileOperation`, `ReconcileAbsent`, `InsertTombstone`,
`ReconcileReload`, `FenceExpired`, `ReconcileReread`. `pendingOperation` is a call that gives
up (deadline, error or crash) at any point: its write may still be applied (`LateApply`) and
its transaction may still commit (`ServerCommit`). A lease is only whether the server clock
has passed it. Attempt UUIDs are numbers.

`AtomicOperation` says: at most one body is decided, and the answers committed, aborted and
rejected are promises about the decision, made now and kept for ever.

### PayloadLifecycle

One payload document with its owner, fencing token and lease; `files` and `chunks` are
GridFS; `refs` the reference documents. Publication is not transactional, so reserve, remove,
upload chunk by chunk, publish and mark ready interleave with everything. Pins, releases and
collection claims are transactions that write the payload document first, hence `lock`. File
IDs are identified with tokens, since each reservation makes one of both. A read pin that a
crashed `CopyPayload` leaves behind, and a file published after its payload was collected, cost
space only; the code promises nothing about them.

### AdmissionStore

The database is one variable per collection; `request`, `todo`, `at`, `found`, `expected` and
`held` are the plan of a caller. The engine reads inputs topic by topic (`IdentifyTopic`),
publishes the payload, reads and ensures fences (`CurrentHistoryFence`,
`EnsureHistoryFence`), and then the body runs: `applyAdmission` checks on a snapshot
(`validateDecisionState`), `CommitAdmission` writes all effects if no written document has
changed since, otherwise `WriteConflict` runs the body again. That at most one body commits
under an ID is taken from `OperationStore`, and that a referenced payload stays ready from
`PayloadLifecycle`. The engine itself never revises, evicts or hands off; `CommitAdmission`
supports plans that do, so requests with these effects stand for the recovery workers.
Leases are documents that `CommitAdmission` compares and moves; who takes them is outside the
repository (`TakeLease`). The broadcast that precedes the plan leaves no local state and is not
modelled.

### LegacySubmit

`call[c]` is one submission: the topic it is at, the inputs it read while the topic managers
ran, what is left of the loop it is in. Every read and write of `submitParsedBeefInternal` is an
action, in the code's order: duplicate check per topic, inputs, marks, notification of spends,
outputs, notification of admissions, consumed-by lists, the recursion of `deleteUTXODeep` as a
stack of tasks, and `InsertAppliedTransaction` last. Any of them may fail (`SubmitMayFail`) and ends
the call where it stands.

### MerkleProofs

A handler is the tail of the ARC callback: it loads a BEEF, changes proofs in it
(`UpdateInputProofs`), writes it back and goes on to the consumers, each load and write a step of
its own. `canon` is the chain, which `Reorg` changes. `ReconcileMerkleRoot` runs at any time.

### GaspSync and GaspGraph

`GaspSync` is the consumer's loop and the peer's listing. A peer draws the score of a
transaction's outputs when it prepares them and makes them visible later, so scores appear out
of order and outputs share them. `Wait` is the end of `eg.Wait()`: an error of one node ends the
session without moving the cursor. `Crash` drops all sessions.

`GaspGraph` is what `GaspSync` takes as one step. A slot runs one traversal; its stack is the
recursion of `processUTXO`. `processing`, `inflight` and `submission` are the tables by root, by
requested outpoint and by transaction. A waiter takes over the result of the owner, error or
not, as `Submit` and `doNodeRequest` do. `plan` remembers the BEEFs that `FinalizeGraph` made:
`InputsFirst` is about them and not about the temporary graph, which a slower traversal that
shared a request may still add nodes to after it was finalized. `shared` remembers the outpoints
whose request was shared: until there is one, traversals keep to their own graphs. `AppendToGraph`
reads the count of the graph and stores the node later (`gasp-storage.go:289` and 314), so it is two
steps: `AppendToGraph` up to the check, and `StoreNode`. In between another traversal may fill the
graph, or its owner may drop it (`cut`); a node that finds its graph dropped is stored in a graph
nobody sees. `limit` is `MaxNodesInGraph`, one of `Limits`, where `None` stands for no limit: that is
how the engine runs it (`engine.go:1135`).

### BasmProof, BasmRead, BasmBudget, BasmWire

`BasmProof` lets the storage hand out any set of nodes as a proof and asks what validation and
merging let through; hashes are free of collisions. `BasmRead` runs one request while the chain
reorganises and the stored history is rewritten, and remembers in `moments` which states the
answer could describe. The handler's `validateResponse` is modelled with its limits (`MaxRange`,
`MaxTxIDs`, `MaxAdmitted`) and its byte budget, in rough units: an answer it takes for malformed and
one it takes for too large are told apart, and `HandlerAgrees` says that an answer of the service is
never malformed. `BasmBudget` has the budget exactly and keeps integer widths (halved to 8 and 4
bits), so that a wrapped sum or product would show. `BasmWire` decodes every string of some bytes up
to a bound. A level of a path is the set of its items, since its order in the data is not kept:
`PathsAreReadWhole` says that what passes the preflight is a way to write what was read, and
`OneEncodingPerPath` that there is one. The SDK's parser, which runs after the preflight and is not
part of the repository, is taken to accept what the preflight accepts. For raw
reads the handler's estimate is two bytes per transaction larger than the service's, so a raw
answer right below the limit can be refused late; `HandlerReservesNoMore` is about the other
four kinds.

### EngineRegistry, LookupHistory

The registry's critical sections are single steps except in the list methods, which call
`GetMetaData` inside them. `SyncAdvertisements` is a snapshot, two searches, a creation and a
revocation. `OneAdPerName` is about calls one after the other: two overlapping calls can both
find a name missing and publish it twice, and one with an older snapshot can revoke an
advertisement that a newer one relies on, which is why `QuietSyncAligns` excludes passes that
another snapshot disturbed.

`LookupHistory` walks while outputs come and go and while lists of consumers are replaced.
`UpdateConsumedBy` writes any list that some reader may have seen, fewer or more consumers than are
stored: a stale one of `updateConsumedByReferences`, or that of `deleteUTXODeep`, which takes a kept
output out of the lists of what it consumed. The edges may be anything such writes leave, from the
first state on. So a stored output can have lost its history before the lookup starts or during it,
and `HistoryIsComplete` is about paths whose documents stayed and whose edges were there throughout.
A BEEF is the set of paths it proves: `stitchSourceTransactions` adds those of the children, and
`tx.BEEF()` stops at a transaction with a Merkle path, behind which nothing is sent (`Mined`, which
`ReadEdges` finds attached or not yet). An output without BEEF is handed up as it is and reported as
`ErrMissingBeef` by its consumer, if it consumed nothing; otherwise `engine.go:819` dereferences nil
(`NilBeef`), and that lookup answers nothing either.

### IdentityTopic, IdentityQuery

The context may be cancelled between any two steps, and an SDK call under a cancelled context
fails or succeeds. The injected projection is modelled by the package's README, in any order of
results, and may break the limit it was given. Notifications are repeated but not delivered
after the spend of the same output, which that README asks of the host. The engine passes the
submitter's bytes on as `AtomicBEEF` whatever their form (`engine.go:323`, 673); `atomic` is the form,
and `parseNotificationBEEF` refuses any other: `AdmittedIsProjected` therefore knows two reasons for
which an admitted output is refused, its form and its size. A fuzzy predicate is matched as `fuzzyPattern` builds it: the
symbols of the text in their order, with anything in between.

### SchemaBootstrap, StorageEncoding

`db` is the server: collections, indexes, ledgers per scope, data that forbid a unique index, and
whether it is a replica set. A store lists, creates, compares, builds, probes, writes and reads
back its ledger, each a step; a call can fail, be applied late (`wire`) or be cut by a crash.
Definitions are values and compatible means equal. `StorageEncoding` enumerates texts and tuples.

## Runs

| run | parts and bounds | checks | result |
|---|---|---|---|
| `operation` | 2 callers, 2 digests, 2 receipts, 2 attempts, 1 late write, 2 tokens, 2 body and 2 commit tries | `TypeOK`, `CommittedAnswersAgree`, `AbortedNeverCommits`, `UnresolvedHoldsRow`, `RejectedNeverCommits`, `RowHistory`, `LeaseProtectsWorker`, `ImplementsAtomic` | holds |
| `payload_safety` | 2 goroutines of one node, 1 of another, 3 tokens | `TypeOK`, `ReadyHasContent`, `PinnedIsReady`, `PinProtectsReader` | holds |
| `payload_resume` | 2 goroutines of one node | `ReferencedHasContent` | **violated** |
| `admission` | scenario conflicts: 2 callers, 2 topics, 3 transactions (two conflict, one spends the other's output), both modes, two contexts; scenario revisions: 1 topic, a revision, an eviction and a handoff, 2 lease tokens | `TypeOK`, `SpendOnce`, `AppliedOnce`, `AckedIsDurable`, `EdgesFollowSpends`, `RevisionsInLine`, `HandoffByHolder` | holds |
| `admission_fence` | as before | `AdmittedUnderFence` | **violated** |
| `admission_clock` | as before, slow clocks | `HandoffOnDatabaseTime` | **violated** |
| `engine` | replay: 2 callers, a coin and its spend, 2 topics, every call of one of them may fail; chain: 1 caller, 4 transactions, one with two outputs; join: 2 handlers, a transaction with two parents, 3 proofs, a reorganisation; descent: chain of 3, 2 heights, 3 proofs, 2 reorganisations; paging: 3 outputs, pages of 2; overlap: 2 sessions, where only output 3 changes outside them; graph: 2 slots, 3 calls, an unproven transaction and the two outputs it spends, no limit; crowd: 2 slots, 2 calls, 3 transactions with 5 outputs, limits 2 and 3 | `SubmitsAreWhole`, `ProofsAreOwn`, `QuietWritesAgree`, `LossIsExplained`, `TraversalsAreSound`, `InputsFirst` | holds |
| `basm` | merge: 2 proofs of up to 5 nodes, blocks of up to 3; position: 1 proof of up to 3 nodes, blocks of up to 6; range and block: 2 heights, 2 reorganisations, 1 rewrite; budget: 8-bit words | `ProofsAreSound`, `AnswersAreSound`, `LimitsAreExact` | holds |
| `services` | sync, overlap, lock: 2 names, 2 goroutines, 3 syncs (2 when they overlap), failures; history: a diamond of outputs, one of them in 2 topics and one mined, every set of stored outputs, 2 changes during the lookup; answers: 1 topic, every set of stored outputs and of edges, an output without BEEF, a failing call; both with 5 formulas; topic: up to 3 outputs, BEEF atomic or not; query and pages: every combination of selectors on 3 records, every limit and offset about the bounds on 4 | `RegistryAndAdsAgree`, `HistoryIsExact`, `ProjectionFollowsAdmission`, `AnswersTheQuestion` | holds |
| `schema` | bootstrap: 3 stores, 2 scopes, 2 releases, 7 initial databases, 2 faults; numbers: texts of up to 4 symbols, 2 maxima; tuples: up to 3 fields; sizes: all data of up to 9 bytes of 4 values, so that every width is read whole; anchors: 11 bytes; paths: 11 bytes, two levels with two items in one | `BootstrapIsSound`, `NothingAltered`, `EncodingsAreExact` | holds |
| `storage_progress` | operation: 2 callers, 1 digest, 2 attempts; payload: 2 goroutines, 2 tokens; schema: 2 releases that disagree, 5 databases, 2 faults | `PendingResolves`, `DeletingFinishes`, `OpensOrMismatch` | holds |
| `engine_progress` | sync: 1 session, 2 transactions; graph: 2 slots, 2 calls, a child and its parent as roots, so that one waits for the other's submission; registry: 2 goroutines, 1 syncer | `SyncEnds`, `CallsReturn` | holds |

Most of these properties are conjunctions of properties that the component modules state one by
one, each with its own comment; the type invariants of the components are conjuncts too. A
condition under which a conjunct is claimed is part of what is said: `OwnGraphOnly`,
`GraphsDiscarded` and `GraphsWithinLimit` hold as long as no request was shared, one advertisement per name as long as no
two calls of `SyncAdvertisements` overlapped, and the conjuncts of `QuietWritesAgree` with one
submission or one proof at a time and no failing call (parts chain and descent). What holds of
submissions and proofs without such a condition is `SubmitsAreWhole` and `ProofsAreOwn`.

Why the bounds are enough to be interesting: two attempts and two tokens let an aborted row be
taken over while the first attempt's writes are still under way; three payload tokens allow a
reservation, a collection and a second reservation; in the admission instance one transaction
conflicts with another, a third depends on the first, and the same transaction is submitted
under two topic sets, modes and contexts; a chain of four transactions lets a deletion pass an
output that is kept; pages smaller than a transaction's outputs split equal scores; blocks of
three and five have odd levels at the bottom and further up; with a limit of two or three nodes and
five outputs, two traversals that share a request both pass the check of a graph that has room for
one; nine bytes hold the widest number; stores of two releases with a fault each reach
every half-made database. Deadlock is checked in the operation, payload and admission runs. In the
other runs calls are bounded in number and the system stops when they are used up.

### Findings

1. `payload_resume`. `reservePayload` lets a second goroutine of a store resume an upload of
   the same store that is still running. It then removes the GridFS file (`payload.go:158`)
   without looking at the payload again. If the first goroutine has published and marked it
   ready, a pinned payload has lost its bytes, against the comment at `payload.go:128`.
   `payload_safety` checks everything else under the hypothesis that an upload was not resumed
   (`resumed` remembers which were).
2. `admission_fence`. An ordinary admission reads the topic's history fence in a snapshot
   transaction and never writes it. A revision that commits in between is not noticed (write
   skew), against `docs/persistence-v1.md:7`. Between revisions the fence works: see
   `RevisionsInLine`.
3. `admission_clock`. Without a clock document, and only tests write one, lease expiry is
   judged by the process's own clock, against `recovery_contract.go:4` and
   `docs/persistence-v1.md:23`. The token still decides who may hand off: see
   `HandoffByHolder`.

### Divergences met while modelling

The component modules also state sentences of the repository's comments, tests and docs that
the code does not keep. TLC refutes each of them when it is added to the part named here; these
are kept as definitions, not as runs, and the properties of the runs are stated so that they are
true beside them.

| statement | part | what the code does |
|---|---|---|
| `LegacySubmit!HistoryKept` (`engine/lookup-service.go:46`) | chain | `deleteUTXODeep` keeps an output that still has consumers but goes on to the outputs it consumed: they lose the kept output as a consumer and are deleted (`engine.go:1346`). |
| `LegacySubmit!NoResurrection` (`pkg/topics/identity/README.md:53`) | replay | Two submissions of one transaction both pass the duplicate check (`engine.go:456`); the second inserts and indexes an output again after its spend was applied. A host with an admission store does not take this path. |
| `MerkleProofs!ProofContainsTx` (test `engine_handle_merkle_proof_test.go:104`) | join | `updateInputProofs` gives the new proof to every ancestor that has one already, without comparing txids (`engine.go:1382`). |
| `MerkleProofs!HeightIsStored` (same test, line 70) | join | A handler that fails after it wrote the BEEF makes the retry find the root unchanged: the documents keep the old height while the lookup services are told the new one (`engine.go:1415`). |
| `MerkleProofs!ReconciledIsValidated` (`engine/storage.go:62`) | descent | No write fills `merkleRoot` of an output document, so `ReconcileMerkleRoot` finds it empty and writes "unmined" (`mongodb/storage.go:451`). |
| `GaspSync!EqualScoresDrained` (`docs/persistence-v1.md:25`) | paging | Pages are asked for by score greater than the cursor (`mongodb/storage.go:230`), which is stored without `CanAdvanceGASPCursor`: one that ends between two outputs of one score loses the second (`engine.go:1154`). |
| `GaspGraph!OwnGraphOnly` (`engine/gasp-storage.go:68`) | graph | Requests in flight are shared by outpoint and carry the graph ID of the first: the other traversal appends the node to a graph that is not its own (`gasp-remote.go:108`). |
| `GaspGraph!GraphsDiscarded` (`gasp.go:430`) | graph | A node of a shared request creates a graph again after its owner has dropped it, and nobody drops it then (`gasp-storage.go:287`). |
| `GaspGraph!GraphsWithinLimit` (`gasp-storage.go:22`) | crowd | Two traversals that share a request pass the check of one graph together and both store a node (`gasp-storage.go:289`). |
| `GaspGraph!SubmittedOnce` (`gasp.go:507`) | graph | The tracker forgets a transaction when its submission returns, and a second output submits it again; the engine's duplicate check makes it harmless (`gasp-storage.go:466`). |
| `GaspGraph!NeededInputsSuffice` (`gasp-storage.go:170`) | graph | Inputs that are in storage are not requested, but the BEEF of an unproven transaction is built from the temporary graph alone (`gasp-storage.go:587`). |
| `EngineRegistry!MethodsRunUnlocked` (`docs/THREAD_SAFE_MANAGERS.md:99`) | sync, lock | The list methods call `GetMetaData` under the read lock (`engine.go:1598`); a plug-in that asks the engine something waits behind a waiting writer. |
| `IdentityTopic!OnlyAtomicBEEF` (`pkg/topics/identity/lookup.go:113`) | topic | `Submit` accepts BEEF that is not atomic and passes it on as it came (`engine.go:323`, 673); the identity service refuses it, so the output is admitted and never projected (`lookup.go:122`). |
| `IdentityQuery!MalformedRejected` (`pkg/topics/identity/query.go:126`) | query | The branch of the first selector returns before the properties beside it are decoded (`query.go:154`). |
| `BasmWire!OneEncodingPerPath` (`pkg/core/basm/wire.go:91`) | paths | `preflightMerkleItem` takes the items of a level in any order, so that a path has several accepted encodings (`wire.go:203`). |
| `SchemaBootstrap!IncompatibleMeansMismatch` (`mongodb/store.go:24`) | bootstrap | A hello, an index build or a probe that fails for any reason is reported as `ErrIncompatibleSchema` (`schema.go:70`, 220, 394). |

### Fairness

`PendingResolves` assumes: a call ends (every database call has a deadline); the server ends
every transaction (transaction lifetime limit); the server clock runs; and one caller calls
reconciliation again until one of its fences reaches the database. The last is an assumption
about the operator, since no loop of the repository calls it: strong fairness says that an
operator who keeps trying eventually gets through. `DeletingFinishes` assumes the same of
`CollectPayload` and of its three deletion steps. No fairness is assumed of workers: they may
crash anywhere. `OpensOrMismatch` assumes that the calls of a bootstrap are answered (they have
a deadline) and that whoever runs a node opens its store again; failing calls are bounded by
`MaxFaults`. `SyncEnds` and `CallsReturn` assume that a goroutine that can run does run and that
the calls it makes return, as their contexts ensure; the worker of the queue competes with direct
calls for a slot and gets one that is free again and again (strong fairness: Go's semaphore is
first in, first out). Nothing makes anyone start a session, a call or `Close`. What a peer lists is finite: a
peer that lists ever higher scores keeps `syncWithPeer` asking, and the code has no bound against it,
so that part of `SyncEnds` is about peers that stop. As `part` never
changes, fairness of a disjunction of actions of different parts is fairness of each in its own
part, which `MCStorageProgress` uses.

## Proofs

The `...Proofs` modules prove properties of the components for every value of the constants that
satisfies the component's named assumption, which TLC evaluates for the instances it checks.
None of the invariants is inductive by itself. Each proof defines a strengthening (`IInv` or a name
that ends in it, `SubmitInv`, `MerkleInv`), as a conjunction of named parts, and has a lemma per
part or per action. Most strengthenings were also checked with TLC on small instances; that of the
history walk, for one, quantifies over all sequences of outputs and was only proved.

| module | theorems about | hypotheses |
|---|---|---|
| `OperationStoreProofs` | every property of the run `operation`, with the refinement of `AtomicOperation` | `OperationConstants` |
| `PayloadLifecycleProofs` | `TypeOK`, `ReadyHasContent`, `PinnedIsReady`, `PinProtectsReader` | `PayloadConstants` |
| `AdmissionStoreProofs` | every property of the run `admission` | `AdmissionConstants` |
| `EngineWritesProofs` | `SubmitsAreWhole`, `ProofsAreOwn` | `LegacyConstants`, `MerkleConstants` |
| `GaspProofs` | `LossIsExplained`, `TraversalsAreSound`, `InputsFirst` | `GaspSyncAssumption`, `GaspGraphAssumption` |
| `BasmServiceProofs` | `AnswersAreSound`, `LimitsAreExact` | `ReadAssumption`, `BudgetAssumption` |
| `ServicesProofs` | `RegistryAndAdsAgree`, `HistoryIsExact`, `ProjectionFollowsAdmission`, `AnswersTheQuestion` | `RegistryAssumption`; `LookupAssumption`; `TopicAssumption` and one policy; `QueryPolicyAssumption`, `RecordAssumption` and `SearchAssumption` |
| `SchemaBootstrapProofs` | `BootstrapIsSound`, `NothingAltered` | `SchemaConstants` |

**Operations.** For any number of callers, digests, receipts, attempts, late writes and retry
budgets. A promise "aborted" stays true only because every claim of that attempt still under way
can never match again, so `IInv` says of each write on the wire or about to be sent which rows it
can still match: `Stale` and `Claimed` for claims, `TombstoneInv`, `WorkerInv` for callers past
their claim, `TxInv` for open transactions (they belong to the pending attempt), `EffectInv`
(effects are what the row says) and `ToldInv`. The proof classifies steps (`WriteApplied`,
`TransactionMoved`, ...) and shows each part of `IInv` for each class.

**Payloads.** For any goroutines, stores, reference owners, chunks and tokens. The argument is
about the fencing token: a reservation gets a new one, which names its file; only a resumed upload
shares it. `UploaderInv` says that a token nobody resumed has one uploader and none once the
payload is ready or claimed, `ProgressInv` how many of the bytes are there, `DocumentInv` and
`RememberedInv` that an eraser works on a file older than its own token, `ClaimInv` that a claim
about to commit has seen no reference, and `LockInv` that only one transaction is at the document.

**Admission.** For any set of requests with any inputs, outputs, revisions and evictions. `IInv`
adds `WriterInv` (an open transaction's snapshot passed the checks), `PlanInv`, `IdleInv` and
`FenceInv` (a topic without a fence has generation zero, so `EnsureHistoryFence` cannot undo a
revision), `ReceiptInv` (what was spent is not unspent, revised generations are past), and
`CreatedInv`, which is what makes `SpendOnce` inductive: an evicted output cannot be created and
spent again, because its transaction is still applied. Every step but a commit is `Quiet`, so one
lemma per part looks at commits only; `CommitFinds` says what snapshot validation plus unchanged
written documents give a commit. The assumption asks that different transactions have different
outputs and that genesis outputs belong to no transaction, which outpoints guarantee, and that a
history update names a greater generation, which `validHistoryUpdate` checks.

**Submissions.** For any callers, ordered topics and transactions, and wherever a call fails. What
a submission deletes, from the store or from the index, was marked spent in that topic before: its
own inputs once the marking loop is past the topic (`SoundMarks`), and what `deleteUTXODeep` reaches
from them because a consumption edge starts at an output that its writer had marked
(`SourcesMarked`, `SoundStack`). So an output that is stored and then indexed stays served until
its spend is submitted, and the applied record comes after both (`SoundAdmits`). The deletion may go
deeper than it should (`HistoryKept` is false); it still reaches nothing that was not marked.

**Merkle proofs.** For any handlers, transactions and chain. Handlers load, change and write back
whole BEEFs beside one another, so a write may undo another one; but a loaded BEEF that is about to
be given the proof for its own transaction is that of the proof's transaction, or was loaded
without a proof of its own (`SoundTask`), and `UpdateInputProofs` writes
only where there was a proof and at the proof's own transaction.
`ProofContainsTx`, the same for ancestors, is false.

**Sessions.** For any peers, finite set of outputs, page size, limiter and number of sessions,
with crashes and failing nodes. A score never changes once it is visible, and one that becomes visible
where a cursor or a session has already been is recorded as late; so the page a session holds is
still the lowest part of what lies above its score (`PageInv`), and a session carries along that
everything behind it is applied, late or tied (`BehindInv`). Only such a score is stored. That is
the exact extent of the loss: `EqualScoresDrained` is false, and there is no third reason.

**Graphs.** For any graph of transactions, any slots, calls, queue and limit on nodes. A traversal
under way owns its root in `processing` (`OwnerInv`), so no other call drops its graph between
`CompleteGraph` and `FinalizeGraph`; then its plan contains the transaction of the root, and what
is off the list is applied, by itself or by the call whose result it shared (`PlanInv`). This gives
`CompletedIsApplied`, which `GaspSync` relies on, and `InputsFirst`. As long as no request was
shared, every frame and node is about the graph of the root (`UnsharedInv`). A graph may outgrow the
limit, by less than the number of slots: the nodes of a graph and the slots that have passed its check
and not stored yet are together fewer than limit and slots (`LimitInv`). The assumption says that a transaction does
not spend its own outputs and that a missing graph is no set of nodes.

**BASM reads.** For any chains, histories, requests, block sizes and bounds, with any number of
reorganisations and rewrites. `PageInv` says that what has been collected is of the pinned view, and
`ViewInv` that a view is of one chain. A canonical block has canonical ancestors, because a hash
commits to them (`ChainPrefix`); so each header that is looked up again moves the moment that the
answer describes forward (`MomentInv`), and when the revision is still the view's at the end, every
moment since the view was taken held its prefix (`OriginInv`). `CurrentInv` turns that into one
moment for a complete answer; `ListInv` and `RawInv` say that it is whole and in order.

**Budgets.** For limits of any range (a word has its square), and any sequence of additions. While the budget is
not exceeded it is the exact sum (`BudgetInv`): the check before an addition compares with what is
left, which cannot wrap, and the division before a product says exactly whether the product fits.

**Registry.** For any names, goroutines, calls and failures. A call that nothing has disturbed
shares the current registry with all calls in flight (`SnapshotInv`), so none of their steps takes
back an advertisement of a registered name or publishes another one, and what it found still
covers what is missing or unwanted (`CoverInv`). `OnceInv` is the same for duplicates, for any
number of syncers as long as no two calls overlapped; `LockInv` says who holds the mutex in the list methods.

**Lookup.** For any outputs, topics, selectors and formulas, whatever other requests store, delete
and unlink meanwhile. The stack is a chain of outputs, each consumed by the one below it
(`Descends`). `FindsAll` says, of each frame and each path that has to be found from it: the path's
next output is still to be visited, or the frame holds the path already, or it goes through the
frame above. Edges may be missing or replaced at any time; `linked` remembers those that were there
throughout, and only paths along them have to be found. Which paths have to be found only shrinks as documents come and go, so what must be
there at the end has had to be found all along.

**Identity topic.** For any transaction, outputs, deliveries and failures, provided manager and
service have the same policy, as their constructors give them. `IdentifyInv` follows the loop over
outputs: what was admitted so far passed every stage, and nothing was left out unless the context
is cancelled, which the check after the loop turns into an error. `VerdictInv` and
`NotificationInv` say that a notification under way is about an admitted output.

**Identity queries.** For every policy, index and question, whatever the projection returns. The
compiled query matches exactly the records that the question means under the precedence of the
selectors, and one that is declared empty means none (`CompiledMeans`); the numbers decide how many
of them a projection that keeps to its limit can have left out, and the one record more that an
unbounded query asks for tells a full answer from a cut one. What `normalizeSearchInput` makes of a
text is a fold over its characters: that compiled attributes mean what the attributes mean is
therefore a hypothesis, `SearchAssumption`, which TLC evaluates for every text the run asks with.

**Schema.** For any stores, scopes, releases, collections, indexes, faults and late writes. The
database only grows (`NothingAltered`), so what a store has compared stays so; `ProgressInv` says
what each store has found or made so far, up to the complete schema, and `WireInv` that a ledger
write still on its way is about a complete schema. The assumption asks that the releases and
initial databases are well formed, that the initial ledgers are true, and that no release has two
indexes of one name on a collection.

Only model-checked:

- the progress properties `PendingResolves`, `DeletingFinishes`, `OpensOrMismatch`, `SyncEnds` and
  `CallsReturn`: liveness under fairness and `ENABLED` are beyond the prover;
- `ProofsAreSound` (`BasmProof`) and `EncodingsAreExact` (`StorageEncoding`, `BasmWire`): what their
  recursive operators compute for every input needs induction over data, and the installed provers
  cannot instantiate the induction theorems. The least-element principle, which they do prove
  (`LeastOf`), is enough where an argument follows one index and not where it follows a definition;
- `QuietWritesAgree`: between submissions the store, the index and the edges agree, and between
  handlers every holder of a transaction has its proof. Both are statements about the end of a
  whole recursion (`deleteUTXODeep`, the descent over consumers), which reaches outputs through
  relations of any depth; the strengthening would have to describe what is still to be visited by
  paths in the graph, which is again induction over data.

## What could come next

Every module and run of the plan exists, and every safety property of a run except the three above
has its theorem. What is left is `QuietWritesAgree` by an invariant over paths, in the manner of the
proof of the history walk; the refinement of a single abstract submission by `LegacySubmit` on its
quiet behaviours; and the parts listed below, should they gain state of their own.

## Not modelled

- HTTP routing, middleware, generated code and configuration: no state of their own, no order of
  events; what the handlers decide is modelled where it is decided.
- The outgoing half of GASP (`processOutgoingNode`, `SubmitNode`, `GetInitialReply`): the
  repository's remote answers `ErrNotImplemented` to it and the engine always runs unidirectional.
- `SyncInvalidatedOutputs`: it acts on invalidated outputs, of which the storage makes none (see
  `ReconciledIsValidated`).
- `propagateToNetwork` and broadcasts: they change no local state.
- In admission: validation of a plan's shape (the engine builds well-formed plans), read
  predicates (the engine sends none), more than one outbox event, chain epochs.
- JSON and raw-transaction parsing, scripts, certificates, signatures and hashing: each is one
  decision or one value here.
- The test support under `mongodb/internal/mongotest` and the examples.
