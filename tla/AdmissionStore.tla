--------------------------- MODULE AdmissionStore ---------------------------
(***************************************************************************)
(* Admission of transactions to topics through the MongoDB adapter: the    *)
(* engine's submitWithAdmission (pkg/core/engine/admission_submit.go) and  *)
(* CommitAdmission (pkg/storage/mongodb/admission.go).                     *)
(*                                                                         *)
(* A submission reads the inputs of its transaction topic by topic, then   *)
(* publishes the payload, then reads the history fences, and only then     *)
(* runs a body that checks the plan again and writes its effects.  All of  *)
(* this interleaves with other submissions, with the payload collector and *)
(* with recovery workers that revise a topic's history.                    *)
(*                                                                         *)
(* The body is a snapshot transaction: its checks see the database as it   *)
(* was when the body began, and the transaction commits if no document it  *)
(* WRITES has changed since.  A document it only reads may have changed.   *)
(* ExecuteOperation is taken for what OperationStore shows it to be: at    *)
(* most one body commits under an operation ID.                            *)
(*                                                                         *)
(* What is abstracted: a transaction has one payload and its topic         *)
(* managers admit all its outputs; a fence is its topic generation; the    *)
(* outbox events of an operation are one event; a submission of a recovery *)
(* worker is a request that also revises, evicts or hands off.             *)
(***************************************************************************)
EXTENDS Naturals, FiniteSets

CONSTANTS
  Callers,   \* goroutines of the nodes that share the scope
  Topics,    \* topics
  Txs,       \* transactions
  Outpoints, \* outputs of all transactions
  Inputs,    \* Inputs[x]: the outpoints transaction x spends
  Outputs,   \* Outputs[x]: the outpoints transaction x creates
  Retained,  \* Retained[x]: the inputs the topic managers retain as history
  Genesis,   \* outpoints that every topic holds from the start
  Contexts,  \* digests of the off-chain values of a submission
  Requests,  \* submissions that callers make
  None,      \* no plan, no snapshot
  Clocks,    \* how a process's clock may differ from the database's
  MaxToken   \* bound on the recovery leases taken

Request == [tx: Txs, topics: SUBSET Topics, mode: {"live", "historical"}, context: Contexts,
            revises: SUBSET Topics, advance: Nat \ {0}, evicts: SUBSET Outpoints,
            handoff: BOOLEAN]

ASSUME AdmissionConstants ==
  /\ Inputs \in [Txs -> SUBSET Outpoints]
  /\ Outputs \in [Txs -> SUBSET Outpoints]
  /\ Retained \in [Txs -> SUBSET Outpoints]
  /\ \A x \in Txs : Retained[x] \subseteq Inputs[x]
  /\ \A x \in Txs : Outputs[x] \cap Genesis = {}
  /\ \A x, y \in Txs : x # y => Outputs[x] \cap Outputs[y] = {}
  /\ Genesis \subseteq Outpoints
  /\ Requests \subseteq Request
  /\ \A r \in Requests : r.revises \subseteq r.topics
  /\ Clocks \subseteq {"exact", "slow", "fast"}
  /\ MaxToken \in Nat
  /\ "absent" \notin Txs /\ "unspent" \notin Txs

VARIABLES
  outputs,    \* outputs[t][o]: output o in topic t
  applied,    \* <<t, x>>: transaction x is applied in topic t
  edges,      \* <<t, o, n>>: the history graph of topic t, from input to output
  outbox,     \* operations that left an event
  receipts,   \* committed operations
  fenced,     \* topics that have a history fence
  generation, \* generation[t]: topicHistoryGeneration
  lease,      \* lease[t]: the recovery lease of topic t
  ready,      \* payloads that are ready
  pinned,     \* payloads that are referenced
  pc,         \* pc[c]: where caller c is in its call
  request,    \* request[c]: the submission c makes
  todo,       \* todo[c]: topics c has still to look at
  at,         \* at[c]: the topic whose fence c is about to ensure
  found,      \* found[c][t]: the inputs c found in topic t
  expected,   \* expected[c][t]: the generation c decided for
  held,       \* held[c][t]: the lease c holds
  snap,       \* snap[c]: what the checks of c's open transaction saw
  acked       \* operations acknowledged as committed

db == <<outputs, applied, edges, outbox, receipts, fenced, generation, lease, ready, pinned>>
plan == <<request, todo, at, found, expected, held>>
vars == <<db, pc, plan, snap, acked>>

----------------------------------------------------------------------------
(* Data                                                                    *)

\* admissionOperationID: the context is not part of it.
OperationID(r) == [tx |-> r.tx, topics |-> r.topics, mode |-> r.mode]

Operations == {OperationID(r) : r \in Requests}

\* An output is not stored, unspent, or spent by a transaction.
OutputState == {"absent", "unspent"} \cup Txs

Lease == [token: Nat, generation: Nat, expired: BOOLEAN]

\* Token 0: the lease document does not exist.
NoLease == [token |-> 0, generation |-> 0, expired |-> TRUE]

\* A committed operation: what its row and its effects tell of it.
Receipt == [operation: Operations, context: Contexts, spends: SUBSET (Topics \X Outpoints),
            expected: [Topics -> Nat], revises: SUBSET Topics]

\* The documents that a transaction reads, and may write, as its checks saw them.
Snapshot == [outputs: [Topics -> [Outpoints -> OutputState]], applied: SUBSET (Topics \X Txs),
             generation: [Topics -> Nat], lease: [Topics -> Lease]]

Labels == {"idle", "identify", "fence", "ensure", "commit", "write"}

Init ==
  /\ outputs = [t \in Topics |-> [o \in Outpoints |->
                  IF o \in Genesis THEN "unspent" ELSE "absent"]]
  /\ applied = {} /\ edges = {} /\ outbox = {} /\ receipts = {}
  /\ fenced = {}
  /\ generation = [t \in Topics |-> 0]
  /\ lease = [t \in Topics |-> NoLease]
  /\ ready = {} /\ pinned = {}
  /\ pc = [c \in Callers |-> "idle"]
  /\ request = [c \in Callers |-> None]
  /\ todo = [c \in Callers |-> {}]
  /\ at = [c \in Callers |-> {}]
  /\ found = [c \in Callers |-> [t \in Topics |-> {}]]
  /\ expected = [c \in Callers |-> [t \in Topics |-> 0]]
  /\ held = [c \in Callers |-> [t \in Topics |-> NoLease]]
  /\ snap = [c \in Callers |-> None]
  /\ acked = {}

----------------------------------------------------------------------------
(* Control of one call                                                     *)

Goto(c, l) == pc' = [pc EXCEPT ![c] = l]

\* The call returns, whatever it returns, and its plan is gone.
Return(c) ==
  /\ Goto(c, "idle")
  /\ request' = [request EXCEPT ![c] = None]
  /\ todo' = [todo EXCEPT ![c] = {}]
  /\ at' = [at EXCEPT ![c] = {}]
  /\ found' = [found EXCEPT ![c] = [t \in Topics |-> {}]]
  /\ expected' = [expected EXCEPT ![c] = [t \in Topics |-> 0]]
  /\ held' = [held EXCEPT ![c] = [t \in Topics |-> NoLease]]
  /\ snap' = [snap EXCEPT ![c] = None]

\* The call fails or the process crashes between two steps.
Abandon(c) ==
  /\ pc[c] # "idle"
  /\ Return(c)
  /\ UNCHANGED <<db, acked>>

----------------------------------------------------------------------------
(* The engine builds the plan                                              *)

Submit(c, r) ==
  /\ pc[c] = "idle"
  /\ Goto(c, "identify")
  /\ request' = [request EXCEPT ![c] = r]
  /\ todo' = [todo EXCEPT ![c] = r.topics]
  /\ UNCHANGED <<db, at, found, expected, held, snap, acked>>

\* identifyAdmissibleOutputsPerTopic reads the inputs stored for one topic, spent
\* ones included.
IdentifyTopic(c, t) ==
  /\ pc[c] = "identify"
  /\ t \in todo[c]
  /\ found' = [found EXCEPT ![c] = [found[c] EXCEPT
                 ![t] = {o \in Inputs[request[c].tx] : outputs[t][o] # "absent"}]]
  /\ todo' = [todo EXCEPT ![c] = todo[c] \ {t}]
  /\ UNCHANGED <<db, pc, request, at, expected, held, snap, acked>>

\* broadcastIfNeeded and publishAdmissionPayloads: the payload is ready when
\* PublishPayload returns.
publishAdmissionPayloads(c) ==
  /\ pc[c] = "identify"
  /\ todo[c] = {}
  /\ ready' = ready \cup {request[c].tx}
  /\ Goto(c, "fence")
  /\ todo' = [todo EXCEPT ![c] = request[c].topics]
  /\ UNCHANGED <<outputs, applied, edges, outbox, receipts, fenced, generation, lease, pinned,
                 request, at, found, expected, held, snap, acked>>

\* buildTopicDecision reads the fence of one topic, zero if there is none.  A
\* recovery worker has its lease in hand.
CurrentHistoryFence(c, t) ==
  /\ pc[c] = "fence"
  /\ t \in todo[c]
  /\ Goto(c, "ensure")
  /\ expected' = [expected EXCEPT ![c] = [expected[c] EXCEPT ![t] = generation[t]]]
  /\ held' = [held EXCEPT ![c] = [held[c] EXCEPT ![t] = lease[t]]]
  /\ at' = [at EXCEPT ![c] = {t}]
  /\ UNCHANGED <<db, request, todo, found, snap, acked>>

\* EnsureHistoryFence inserts the fence that was read unless there is one by now.
EnsureHistoryFence(c, t) ==
  /\ pc[c] = "ensure"
  /\ t \in at[c]
  /\ fenced' = fenced \cup {t}
  /\ generation' = IF t \in fenced THEN generation
                   ELSE [generation EXCEPT ![t] = expected[c][t]]
  /\ Goto(c, IF todo[c] = {t} THEN "commit" ELSE "fence")
  /\ todo' = [todo EXCEPT ![c] = todo[c] \ {t}]
  /\ at' = [at EXCEPT ![c] = {}]
  /\ UNCHANGED <<outputs, applied, edges, outbox, receipts, lease, ready, pinned,
                 request, found, expected, held, snap, acked>>

----------------------------------------------------------------------------
(* CommitAdmission                                                         *)

\* admissionNowMS is the clock of the process.
LooksExpired(l, clock) == clock = "fast" \/ (clock = "exact" /\ l.expired)

\* Mutant: the token of the lease is not compared.
validateHandoffAnyToken(c, t, clock) ==
  /\ lease[t].token # NoLease.token
  /\ lease[t].generation = held[c][t].generation
  /\ held[c][t].generation = expected[c][t]
  /\ ~LooksExpired(lease[t], clock)

\* The lease checks of validateHandoff and of applyHistoryUpdate.
validateHandoff(c, t, clock) ==
  /\ lease[t].token # NoLease.token
  /\ lease[t].token = held[c][t].token
  /\ lease[t].generation = held[c][t].generation
  /\ held[c][t].generation = expected[c][t]
  /\ ~LooksExpired(lease[t], clock)

\* Mutant: spent inputs are not noticed.
validateDecisionStateSpent(c, t, clock) ==
  LET r == request[c]
  IN  /\ t \in fenced /\ generation[t] = expected[c][t]
      /\ \A o \in r.evicts : outputs[t][o] # "absent"
      /\ \A o \in Outputs[r.tx] : outputs[t][o] = "absent"
      /\ <<t, r.tx>> \notin applied
      /\ t \in r.revises /\ r.handoff => validateHandoff(c, t, clock)

\* Mutant: the applied transaction is not looked up.
validateDecisionStateApplied(c, t, clock) ==
  LET r == request[c]
  IN  /\ t \in fenced /\ generation[t] = expected[c][t]
      /\ \A o \in found[c][t] : outputs[t][o] = "unspent"
      /\ \A o \in r.evicts : outputs[t][o] # "absent"
      /\ \A o \in Outputs[r.tx] : outputs[t][o] = "absent"
      /\ t \in r.revises /\ r.handoff => validateHandoff(c, t, clock)

\* Mutant: the history fence is not compared.
validateDecisionStateUnfenced(c, t, clock) ==
  LET r == request[c]
  IN  /\ \A o \in found[c][t] : outputs[t][o] = "unspent"
      /\ \A o \in r.evicts : outputs[t][o] # "absent"
      /\ \A o \in Outputs[r.tx] : outputs[t][o] = "absent"
      /\ <<t, r.tx>> \notin applied
      /\ t \in r.revises /\ r.handoff => validateHandoff(c, t, clock)

\* validateDecisionState for topic t.
validateDecisionState(c, t, clock) ==
  LET r == request[c]
  IN  /\ t \in fenced /\ generation[t] = expected[c][t]
      /\ \A o \in found[c][t] : outputs[t][o] = "unspent"
      /\ \A o \in r.evicts : outputs[t][o] # "absent"
      /\ \A o \in Outputs[r.tx] : outputs[t][o] = "absent"
      /\ <<t, r.tx>> \notin applied
      /\ t \in r.revises /\ r.handoff => validateHandoff(c, t, clock)

\* The checks of applyAdmission.
validateAdmission(c, clock) ==
  /\ request[c].tx \in ready
  /\ OperationID(request[c]) \notin outbox
  /\ \A t \in request[c].topics : validateDecisionState(c, t, clock)

\* ExecuteOperation finds the operation committed: a retry with the same context
\* gets the saved receipt, another context is rejected.
CommittedBefore(c) ==
  /\ pc[c] = "commit"
  /\ \E s \in receipts :
       /\ s.operation = OperationID(request[c])
       /\ acked' = IF s.context = request[c].context
                   THEN acked \cup {s.operation} ELSE acked
  /\ Return(c)
  /\ UNCHANGED db

NotCommitted(r) == \A s \in receipts : s.operation # OperationID(r)

\* The body starts on a snapshot and the plan is rejected or goes on to write.
applyAdmission(c) ==
  /\ pc[c] = "commit"
  /\ NotCommitted(request[c])
  /\ \E clock \in Clocks :
       \/ /\ ~validateAdmission(c, clock)
          /\ Return(c)
       \/ /\ validateAdmission(c, clock)
          /\ Goto(c, "write")
          /\ snap' = [snap EXCEPT ![c] = [outputs |-> outputs, applied |-> applied,
                                        generation |-> generation, lease |-> lease]]
          /\ UNCHANGED plan
  /\ UNCHANGED <<db, acked>>

\* The documents of outputs that the plan writes in a topic.
WrittenOutputs(c, t) == found[c][t] \cup request[c].evicts \cup Outputs[request[c].tx]

\* No document the plan writes has changed since its snapshot.
WritesUnchanged(c) ==
  LET r == request[c]
      d == snap[c]
  IN  /\ NotCommitted(r)
      /\ r.tx \in ready
      /\ \A t \in r.topics :
           /\ \A o \in WrittenOutputs(c, t) : outputs[t][o] = d.outputs[t][o]
           /\ <<t, r.tx>> \in applied <=> <<t, r.tx>> \in d.applied
      /\ \A t \in r.revises :
           /\ generation[t] = d.generation[t]
           /\ r.handoff => /\ lease[t].token = d.lease[t].token
                           /\ lease[t].generation = d.lease[t].generation

\* Mutant: retained inputs are not spent.
admissionSpendsUnretained(c) ==
  {s \in Topics \X Outpoints :
     s[1] \in request[c].topics /\ s[2] \in found[c][s[1]] \ Retained[request[c].tx]}

\* admissionSpends: every input found is spent.
admissionSpends(c) == {s \in Topics \X Outpoints : s[1] \in request[c].topics /\ s[2] \in found[c][s[1]]}

\* admissionEdges: from every retained input found to every output.
admissionEdges(c) ==
  {e \in request[c].topics \X Outpoints \X Outpoints :
     e[2] \in found[c][e[1]] \cap Retained[request[c].tx] /\ e[3] \in Outputs[request[c].tx]}

\* Mutant: a spent output does not name its spender.
writeDecisionEffectsNoSpender(c, t) ==
  LET r == request[c]
  IN  [o \in Outpoints |->
         IF o \in Outputs[r.tx] THEN "unspent"
         ELSE IF o \in r.evicts THEN "absent"
         ELSE IF <<t, o>> \in admissionSpends(c) THEN "spent"
         ELSE outputs[t][o]]

\* The outputs of topic t after writeDecisionEffects: spends, then evictions, then
\* new outputs.
writeDecisionEffects(c, t) ==
  LET r == request[c]
  IN  [o \in Outpoints |->
         IF o \in Outputs[r.tx] THEN "unspent"
         ELSE IF o \in r.evicts THEN "absent"
         ELSE IF <<t, o>> \in admissionSpends(c) THEN r.tx
         ELSE outputs[t][o]]

\* applyHistoryUpdate moves the generation to a greater one (validHistoryUpdate), and the lease with it on a handoff.
applyHistoryUpdate(c, t) == IF t \in request[c].revises THEN expected[c][t] + request[c].advance
                            ELSE generation[t]

makeAdmissionReceipt(c) ==
  [operation |-> OperationID(request[c]), context |-> request[c].context,
   spends |-> admissionSpends(c), expected |-> expected[c], revises |-> request[c].revises]

\* Mutant: the payload is checked but not pinned.
writeAdmissionEffectsUnpinned(c) ==
  LET r == request[c]
  IN  /\ outputs' = [t \in Topics |-> IF t \in r.topics THEN writeDecisionEffects(c, t)
                                       ELSE outputs[t]]
      /\ applied' = applied \cup (r.topics \X {r.tx})
      /\ outbox' = outbox \cup {OperationID(r)}
      /\ receipts' = receipts \cup {makeAdmissionReceipt(c)}
      /\ UNCHANGED <<edges, fenced, generation, lease, ready, pinned>>

\* All effects of a plan and its receipt.
writeAdmissionEffects(c) ==
  LET r == request[c]
  IN  /\ outputs' = [t \in Topics |-> IF t \in r.topics THEN writeDecisionEffects(c, t)
                                       ELSE outputs[t]]
      /\ applied' = applied \cup (r.topics \X {r.tx})
      /\ edges' = edges \cup admissionEdges(c)
      /\ outbox' = outbox \cup {OperationID(r)}
      /\ receipts' = receipts \cup {makeAdmissionReceipt(c)}
      /\ generation' = [t \in Topics |-> applyHistoryUpdate(c, t)]
      /\ lease' = [t \in Topics |->
                     IF t \in r.revises /\ r.handoff
                     THEN [token |-> lease[t].token, generation |-> expected[c][t] + r.advance,
                           expired |-> lease[t].expired]
                     ELSE lease[t]]
      /\ pinned' = pinned \cup {r.tx}
      /\ UNCHANGED <<fenced, ready>>

\* The transaction commits; the acknowledgement may be lost.
CommitAdmission(c) ==
  /\ pc[c] = "write"
  /\ WritesUnchanged(c)
  /\ writeAdmissionEffects(c)
  /\ acked' \in {acked, acked \cup {OperationID(request[c])}}
  /\ Return(c)

\* A write conflict is transient: the body runs again on a new snapshot.
WriteConflict(c) ==
  /\ pc[c] = "write"
  /\ ~WritesUnchanged(c)
  /\ Goto(c, "commit")
  /\ snap' = [snap EXCEPT ![c] = None]
  /\ UNCHANGED <<db, plan, acked>>

----------------------------------------------------------------------------
(* The surroundings                                                        *)

\* CollectPayload, as PayloadLifecycle has it: a referenced payload stays ready.
CollectPayload(x) ==
  /\ x \in ready \ pinned
  /\ ready' = ready \ {x}
  /\ UNCHANGED <<outputs, applied, edges, outbox, receipts, fenced, generation, lease, pinned,
                 pc, plan, snap, acked>>

\* A recovery worker takes the lease of a topic under a new token.
TakeLease(t) ==
  /\ t \in fenced
  /\ lease[t].expired
  /\ lease[t].token < MaxToken
  /\ lease' = [lease EXCEPT ![t] = [token |-> lease[t].token + 1, generation |-> generation[t],
                                    expired |-> FALSE]]
  /\ UNCHANGED <<outputs, applied, edges, outbox, receipts, fenced, generation, ready, pinned,
                 pc, plan, snap, acked>>

\* The database clock passes expiresAtMs.
LeaseExpires(t) ==
  /\ ~lease[t].expired
  /\ lease' = [lease EXCEPT ![t] = [token |-> lease[t].token, generation |-> lease[t].generation,
                                    expired |-> TRUE]]
  /\ UNCHANGED <<outputs, applied, edges, outbox, receipts, fenced, generation, ready, pinned,
                 pc, plan, snap, acked>>

----------------------------------------------------------------------------
CallerStep(c) ==
  \/ \E r \in Requests : Submit(c, r)
  \/ \E t \in Topics : IdentifyTopic(c, t) \/ CurrentHistoryFence(c, t) \/ EnsureHistoryFence(c, t)
  \/ publishAdmissionPayloads(c)
  \/ CommittedBefore(c) \/ applyAdmission(c) \/ CommitAdmission(c) \/ WriteConflict(c)
  \/ Abandon(c)

Next ==
  \/ \E c \in Callers : CallerStep(c)
  \/ \E x \in Txs : CollectPayload(x)
  \/ \E t \in Topics : TakeLease(t) \/ LeaseExpires(t)

Spec == Init /\ [][Next]_vars

----------------------------------------------------------------------------
(* Properties                                                              *)

\* Every variable holds a value of its type.
TypeOK ==
  /\ outputs \in [Topics -> [Outpoints -> OutputState]]
  /\ applied \subseteq Topics \X Txs
  /\ edges \subseteq Topics \X Outpoints \X Outpoints
  /\ outbox \subseteq Operations
  /\ receipts \subseteq Receipt
  /\ fenced \subseteq Topics
  /\ generation \in [Topics -> Nat]
  /\ lease \in [Topics -> Lease]
  /\ ready \subseteq Txs
  /\ pinned \subseteq Txs
  /\ pc \in [Callers -> Labels]
  /\ request \in [Callers -> Requests \cup {None}]
  /\ todo \in [Callers -> SUBSET Topics]
  /\ at \in [Callers -> SUBSET Topics]
  /\ found \in [Callers -> [Topics -> SUBSET Outpoints]]
  /\ expected \in [Callers -> [Topics -> Nat]]
  /\ held \in [Callers -> [Topics -> Lease]]
  /\ snap \in [Callers -> Snapshot \cup {None}]
  /\ acked \subseteq Operations

\* No output of a topic is spent by two admissions: concurrent submissions that
\* both found it unspent conflict, and an evicted output does not come back.
SpendOnce ==
  \A x, y \in receipts : x # y => x.spends \cap y.spends = {}

\* A transaction is admitted to a topic at most once, although live and
\* historical submissions and different topic sets are different operations.
AppliedOnce ==
  \A x, y \in receipts :
    x # y /\ x.operation.tx = y.operation.tx => x.operation.topics \cap y.operation.topics = {}

\* What was acknowledged is there: the transaction is applied in every topic of
\* the operation and its payload is still ready, whatever the collector does.
AckedIsDurable ==
  \A o \in acked : \A t \in o.topics : <<t, o.tx>> \in applied /\ o.tx \in ready

\* The history graph agrees with the outputs: the source of an edge has been
\* spent or evicted, so no unspent output has consumers.
EdgesFollowSpends ==
  \A e \in edges : outputs[e[1]][e[2]] # "unspent"

\* No two revisions start from the same generation: none is lost.
RevisionsInLine ==
  \A x, y \in receipts : \A t \in x.revises \cap y.revises :
    x # y => x.expected[t] # y.expected[t]

HandoffStep ==
  \A c \in Callers : CommitAdmission(c) /\ request[c].handoff =>
    \A t \in request[c].revises : held[c][t].token = lease[t].token

\* A recovery worker whose lease has been taken over does not hand off: its
\* checkpoint and its revision fail together.
HandoffByHolder == [][HandoffStep]_vars

AdmittedUnderFenceStep ==
  \A x \in receipts' \ receipts : \A t \in x.operation.topics :
    x.expected[t] = generation[t]

\* docs/persistence-v1.md: history fences are revalidated atomically with the
\* effects, so an admission commits under the generation it was decided for.
AdmittedUnderFence == [][AdmittedUnderFenceStep]_vars

DatabaseTimeStep ==
  \A c \in Callers : pc[c] = "commit" /\ pc'[c] = "write" /\ request[c].handoff =>
    \A t \in request[c].revises : ~lease[t].expired

\* recovery_contract.go: the lease of a handoff is checked against database time.
HandoffOnDatabaseTime == [][DatabaseTimeStep]_vars
=============================================================================
