--------------------------- MODULE OperationStore ---------------------------
(***************************************************************************)
(* The operation row of the MongoDB adapter: ExecuteOperation and          *)
(* ReconcileOperation of pkg/storage/mongodb/operation.go on top of        *)
(* runTransaction of transaction.go.                                       *)
(*                                                                         *)
(* One operation row (one scope and operation ID) is shared by any number  *)
(* of callers, in one process or in several.  A single-document write      *)
(* outside a transaction (claim, tombstone, fence) may be applied by the   *)
(* database long after its sender has given up, or never.  A transaction   *)
(* lives on the server and may commit or abort after its client has        *)
(* stopped waiting or has crashed.                                         *)
(*                                                                         *)
(* What is abstracted: attempt UUIDs are numbers handed out in order; the  *)
(* owner field is left out of the predicates, since an attempt UUID is     *)
(* only ever claimed by one store; the lease timestamp is the fact whether *)
(* the server clock has passed it; the uncommitted writes of the body are  *)
(* the one entry the transaction adds to `effects' when it commits.        *)
(***************************************************************************)
EXTENDS Naturals, Sequences, FiniteSets

CONSTANTS
  Callers,           \* goroutines that call the store
  Digests,           \* semantic digests used with this operation ID
  Receipts,          \* receipts a body can produce
  NoDigest,          \* digest of the absent row
  NoReceipt,         \* no receipt saved
  MaxAttempts,       \* bound on the attempt UUIDs handed out
  MaxLate,           \* bound on the writes under way without a sender
  MaxToken,          \* the largest fencing token (2^64 - 1 in the code)
  MaxBodyAttempts,   \* config.MaxBodyAttempts
  MaxCommitAttempts  \* config.MaxCommitAttempts

ASSUME OperationConstants ==
  /\ NoDigest \notin Digests
  /\ NoReceipt \notin Receipts
  /\ MaxAttempts \in Nat \ {0}
  /\ MaxLate \in Nat
  /\ MaxToken \in Nat \ {0}
  /\ MaxBodyAttempts \in Nat \ {0}
  /\ MaxCommitAttempts \in Nat \ {0}

VARIABLES
  row,        \* the operation document
  tx,         \* tx[a]: the server's transaction of attempt a
  txReceipt,  \* txReceipt[a]: receipt written inside that transaction
  effects,    \* committed bodies, in commit order
  wire,       \* writes whose sender gave up and that may still be applied
  fresh,      \* next attempt UUID
  pc,         \* pc[c]: where caller c is in its call
  op,         \* op[c]: the operation document c holds
  asked,      \* asked[c]: the attempt argument of a reconcile call
  runs,       \* runs[c]: body runs already failed in this transaction loop
  commits,    \* commits[c]: commit calls already failed in this body run
  told        \* definitive results returned to callers so far

dbVars == <<row, tx, txReceipt, effects>>
callVars == <<pc, op, asked, runs, commits>>
vars == <<row, tx, txReceipt, effects, wire, fresh,
          pc, op, asked, runs, commits, told>>

----------------------------------------------------------------------------
(* Data                                                                    *)

Attempts == 1..MaxAttempts

\* A nil attempt argument, and an attempt that no claim ever used.
Nil == 0
Invented == MaxAttempts + 1

RowStates == {"absent", "pending", "aborted", "committed"}
TxStates == {"none", "guarded", "saved", "committed", "aborted"}

\* Transactions that hold the write lock of the operation row.
Live == {"guarded", "saved"}

\* Single-document writes; a caller that waits for one has it as its label.
Writes == {"claim", "tombstone", "fenceAborted", "fenceExpired"}

Labels == Writes \cup {"idle", "claimReread", "claimed", "guarded", "committing",
                       "fenceReread", "reload", "expireReread"}

Row == [state: RowStates, digest: Digests \cup {NoDigest}, attempt: Nat,
        token: 0..MaxToken, lease: BOOLEAN, receipt: Receipts \cup {NoReceipt}]

\* prev is the attempt a claim expects to find aborted, Nil for an upsert.
Operation == [attempt: Nat, token: 0..MaxToken, digest: Digests \cup {NoDigest}, prev: Nat]

LateWrite == [kind: Writes, operation: Operation]

\* Definitive results.  A pending result, an error without a result and
\* ErrConflict promise nothing, so they are not recorded.
Answer == [state: {"committed", "aborted", "rejected"},
           attempt: Nat, digest: Digests \cup {NoDigest},
           receipt: Receipts \cup {NoReceipt}]

Effect == [attempt: Nat, digest: Digests \cup {NoDigest}, receipt: Receipts \cup {NoReceipt}]

NoRow == [state |-> "absent", digest |-> NoDigest, attempt |-> Nil,
          token |-> 0, lease |-> FALSE, receipt |-> NoReceipt]

NoOperation == [attempt |-> Nil, token |-> 0, digest |-> NoDigest, prev |-> Nil]

committed(d, r) == [state |-> "committed", attempt |-> Nil, digest |-> d, receipt |-> r]
aborted(a) == [state |-> "aborted", attempt |-> a, digest |-> NoDigest, receipt |-> NoReceipt]
rejected(d) == [state |-> "rejected", attempt |-> Nil, digest |-> d, receipt |-> NoReceipt]

\* Mutant: every claim starts again at the first token.
operationDocumentFirstToken(s, o) ==
  [state |-> s, digest |-> o.digest, attempt |-> o.attempt,
   token |-> 1, lease |-> TRUE, receipt |-> NoReceipt]

\* The document a claim or a tombstone puts in place of the row.
operationDocument(s, o) ==
  [state |-> s, digest |-> o.digest, attempt |-> o.attempt,
   token |-> o.token, lease |-> TRUE, receipt |-> NoReceipt]

----------------------------------------------------------------------------
(* The database                                                            *)

\* operationPredicate: the row is still pending under exactly this attempt.
operationPredicate(o) ==
  /\ row.state = "pending"
  /\ row.digest = o.digest
  /\ row.attempt = o.attempt
  /\ row.token = o.token

\* Mutant: the first claim replaces an aborted row as well as an absent one.
claimMatchesAborted(o) ==
  IF o.prev = Nil
  THEN row.state \in {"absent", "aborted"}
  ELSE row.state = "aborted" /\ row.attempt = o.prev /\ row.token + 1 = o.token

\* Filter of claimOperation's FindOneAndUpdate.
claimMatches(o) ==
  IF o.prev = Nil
  THEN row.state = "absent"
  ELSE /\ row.state = "aborted"
       /\ row.attempt = o.prev
       /\ row.token + 1 = o.token
       /\ row.digest = o.digest

\* Mutant: a fence does not wait for the transaction holding the row.
RowUnlockedAlways == TRUE

\* A write outside a transaction waits for the transaction holding the row.
RowUnlocked == \A a \in Attempts : tx[a] \notin Live

\* Mutant: the reconciler's fence forgets leaseExpired.
MatchesAnyLease(k, o) ==
  \/ k = "claim" /\ claimMatches(o)
  \/ k = "tombstone" /\ row.state = "absent"
  \/ k \in {"fenceAborted", "fenceExpired"} /\ operationPredicate(o)

\* Mutant: the reconciler's fence asks for a current lease.
MatchesCurrentLease(k, o) ==
  \/ k = "claim" /\ claimMatches(o)
  \/ k = "tombstone" /\ row.state = "absent"
  \/ k = "fenceAborted" /\ operationPredicate(o)
  \/ k = "fenceExpired" /\ operationPredicate(o) /\ row.lease

Matches(k, o) ==
  \/ k = "claim" /\ claimMatches(o)
  \/ k = "tombstone" /\ row.state = "absent"
  \/ k = "fenceAborted" /\ operationPredicate(o)
  \/ k = "fenceExpired" /\ operationPredicate(o) /\ ~row.lease

\* The document left by a write that matches.
Written(k, o) ==
  IF k = "claim" THEN operationDocument("pending", o)
  ELSE IF k = "tombstone" THEN operationDocument("aborted", o)
  ELSE [row EXCEPT !.state = "aborted"]

Apply(k, o) ==
  /\ RowUnlocked
  /\ row' = IF Matches(k, o) THEN Written(k, o) ELSE row
  /\ UNCHANGED <<tx, txReceipt, effects>>

\* What operationResult reports for a present row: nothing definitive while the
\* row is pending.
operationResult(d) ==
  IF row.digest # d THEN {rejected(d)}
  ELSE IF row.state = "committed" THEN {committed(d, row.receipt)}
  ELSE IF row.state = "aborted" THEN {aborted(row.attempt)}
  ELSE {}

----------------------------------------------------------------------------
Init ==
  /\ row = NoRow
  /\ tx = [a \in Attempts |-> "none"]
  /\ txReceipt = [a \in Attempts |-> NoReceipt]
  /\ effects = <<>>
  /\ wire = {}
  /\ fresh = 1
  /\ pc = [c \in Callers |-> "idle"]
  /\ op = [c \in Callers |-> NoOperation]
  /\ asked = [c \in Callers |-> Nil]
  /\ runs = [c \in Callers |-> 0]
  /\ commits = [c \in Callers |-> 0]
  /\ told = {}

----------------------------------------------------------------------------
(* Control of one call                                                     *)

\* The call returns the given definitive results; its variables go out of scope.
Return(c, answers) ==
  /\ pc' = [pc EXCEPT ![c] = "idle"]
  /\ op' = [op EXCEPT ![c] = NoOperation]
  /\ asked' = [asked EXCEPT ![c] = Nil]
  /\ runs' = [runs EXCEPT ![c] = 0]
  /\ commits' = [commits EXCEPT ![c] = 0]
  /\ told' = told \cup answers

Goto(c, l) == pc' = [pc EXCEPT ![c] = l]

\* pendingOperation: the deadline of a write passes, or the commit stays
\* ambiguous, and the caller is told that the attempt is unresolved while the
\* write or the commit may still be applied, or never reach the database.  A
\* crash of the caller's process at any point leaves the same state behind.
pendingOperation(c) ==
  /\ pc[c] # "idle"
  /\ \/ UNCHANGED wire
     \/ /\ pc[c] \in Writes
        /\ Cardinality(wire) < MaxLate
        /\ wire' = wire \cup {[kind |-> pc[c], operation |-> op[c]]}
  /\ Return(c, {})
  /\ UNCHANGED <<dbVars, fresh>>

\* The database applies a write nobody waits for any more.
LateApply(w) ==
  /\ Apply(w.kind, w.operation)
  /\ wire' = wire \ {w}
  /\ UNCHANGED <<fresh, callVars, told>>

----------------------------------------------------------------------------
(* ExecuteOperation: the claim                                             *)

\* claimOperation's first read when it does not lead to a claim: the row has
\* another digest, or is pending or committed.
ExecuteUnclaimed(c, d) ==
  /\ pc[c] = "idle"
  /\ row.state # "absent"
  /\ row.digest # d \/ row.state # "aborted"
  /\ told' = told \cup operationResult(d)
  /\ UNCHANGED <<dbVars, wire, fresh, callVars>>

\* claimOperation reads an absent or aborted row and sends the claim.  nextToken
\* fails on the largest token, and nothing is sent.
ExecuteClaim(c, d) ==
  /\ pc[c] = "idle"
  /\ row.state = "absent" \/ (row.state = "aborted" /\ row.digest = d)
  /\ row.token < MaxToken
  /\ fresh <= MaxAttempts
  /\ fresh' = fresh + 1
  /\ Goto(c, "claim")
  /\ op' = [op EXCEPT ![c] = [attempt |-> fresh, token |-> row.token + 1,
                              digest |-> d, prev |-> row.attempt]]
  /\ UNCHANGED <<dbVars, wire, asked, runs, commits, told>>

\* The claim is applied and its sender learns whether it owns the operation.
ClaimOperation(c) ==
  /\ pc[c] = "claim"
  /\ Apply("claim", op[c])
  /\ Goto(c, IF claimMatches(op[c]) THEN "claimed" ELSE "claimReread")
  /\ UNCHANGED <<wire, fresh, op, asked, runs, commits, told>>

\* unclaimedOperationResult after a lost claim: an aborted row of the same
\* digest is ErrConflict, which says nothing about the operation.
ClaimReread(c) ==
  /\ pc[c] = "claimReread"
  /\ Return(c, IF row.state = "aborted" /\ row.digest = op[c].digest
               THEN {} ELSE operationResult(op[c].digest))
  /\ UNCHANGED <<dbVars, wire, fresh>>

----------------------------------------------------------------------------
(* ExecuteOperation: the transaction                                       *)

\* runTransaction ends with outcome aborted: on to fenceAbortedOperation.
ToFence(c) ==
  /\ Goto(c, "fenceAborted")
  /\ runs' = [runs EXCEPT ![c] = 0]
  /\ commits' = [commits EXCEPT ![c] = 0]

\* Mutant: the loop runs the body once more than MaxBodyAttempts.
RetryBodyOnceMore(c) ==
  /\ runs' = [runs EXCEPT ![c] = @ + 1]
  /\ commits' = [commits EXCEPT ![c] = 0]
  /\ IF runs[c] < MaxBodyAttempts THEN Goto(c, "claimed") ELSE ToFence(c)

\* One more iteration of runTransaction's loop, or the retry budget is spent.
RetryBody(c) ==
  \/ /\ runs[c] + 1 < MaxBodyAttempts
     /\ runs' = [runs EXCEPT ![c] = @ + 1]
     /\ commits' = [commits EXCEPT ![c] = 0]
     /\ Goto(c, "claimed")
  \/ /\ runs[c] + 1 >= MaxBodyAttempts
     /\ ToFence(c)

\* Mutant: the guard finds the row by its ID alone.
TxGuardByID(c) ==
  /\ pc[c] = "claimed"
  /\ RowUnlocked
  /\ tx' = [tx EXCEPT ![op[c].attempt] = "guarded"]
  /\ Goto(c, "guarded")
  /\ UNCHANGED <<row, txReceipt, effects, wire, fresh, op, asked, runs, commits, told>>

\* applyOperationBody's first write guards the row for the transaction.  While an
\* earlier run's transaction still holds the row the write fails (TxBodyFails).
TxGuard(c) ==
  /\ pc[c] = "claimed"
  /\ RowUnlocked
  /\ operationPredicate(op[c]) /\ row.lease
  /\ tx' = [tx EXCEPT ![op[c].attempt] = "guarded"]
  /\ Goto(c, "guarded")
  /\ UNCHANGED <<row, txReceipt, effects, wire, fresh, op, asked, runs, commits, told>>

\* The guard, or the save of the receipt, matches nothing: ErrConflict, which
\* is not retried.
TxConflict(c) ==
  /\ pc[c] \in {"claimed", "guarded"}
  /\ ~(operationPredicate(op[c]) /\ row.lease)
  /\ ToFence(c)
  /\ tx' = IF tx[op[c].attempt] \in Live
           THEN [tx EXCEPT ![op[c].attempt] = "aborted"] ELSE tx
  /\ UNCHANGED <<row, txReceipt, effects, wire, fresh, op, asked, told>>

\* The body succeeds, the receipt is saved under the same predicate and the
\* commit command is sent.
TxSave(c) ==
  /\ pc[c] = "guarded"
  /\ tx[op[c].attempt] = "guarded"
  /\ operationPredicate(op[c]) /\ row.lease
  /\ \E r \in Receipts : txReceipt' = [txReceipt EXCEPT ![op[c].attempt] = r]
  /\ tx' = [tx EXCEPT ![op[c].attempt] = "saved"]
  /\ Goto(c, "committing")
  /\ UNCHANGED <<row, effects, wire, fresh, op, asked, runs, commits, told>>

\* A write or the body fails.  The abort may reach the server or not; a
\* transient label allows another run, anything else ends the transaction.
TxBodyFails(c) ==
  /\ pc[c] \in {"claimed", "guarded"}
  /\ RetryBody(c) \/ ToFence(c)
  /\ \/ UNCHANGED tx
     \/ /\ tx[op[c].attempt] \in Live
        /\ tx' = [tx EXCEPT ![op[c].attempt] = "aborted"]
  /\ UNCHANGED <<row, txReceipt, effects, wire, fresh, op, asked, told>>

\* Mutant: the end of the commit call is taken for its success.
CommitAcknowledgedAlways(c) ==
  /\ pc[c] = "committing"
  /\ Return(c, {committed(op[c].digest, txReceipt[op[c].attempt])})
  /\ UNCHANGED <<dbVars, wire, fresh>>

\* CommitTransaction returns nil.
CommitAcknowledged(c) ==
  /\ pc[c] = "committing"
  /\ tx[op[c].attempt] = "committed"
  /\ Return(c, {committed(op[c].digest, txReceipt[op[c].attempt])})
  /\ UNCHANGED <<dbVars, wire, fresh>>

\* The first commit call fails with the transient label, which proves that the
\* server aborted the transaction.
CommitTransient(c) ==
  /\ pc[c] = "committing"
  /\ commits[c] = 0
  /\ tx[op[c].attempt] = "aborted"
  /\ RetryBody(c)
  /\ UNCHANGED <<dbVars, wire, fresh, op, asked, told>>

\* Any other commit error, and every error after one, leaves the transaction
\* unresolved: the commit command is sent again, and pendingOperation ends the
\* call once the attempts or the commit budget are spent.
CommitUnknown(c) ==
  /\ pc[c] = "committing"
  /\ commits[c] + 1 < MaxCommitAttempts
  /\ commits' = [commits EXCEPT ![c] = @ + 1]
  /\ UNCHANGED <<dbVars, wire, fresh, pc, op, asked, runs, told>>

\* The server executes the commit command, whoever still waits for it.
ServerCommit(a) ==
  /\ tx[a] = "saved"
  /\ tx' = [tx EXCEPT ![a] = "committed"]
  /\ row' = [row EXCEPT !.state = "committed", !.receipt = txReceipt[a]]
  /\ effects' = Append(effects, [attempt |-> a, digest |-> row.digest, receipt |-> txReceipt[a]])
  /\ UNCHANGED <<txReceipt, wire, fresh, callVars, told>>

\* The server aborts an open transaction: an abort arrives late, its lifetime
\* ends, a failover drops it.
ServerAbort(a) ==
  /\ tx[a] \in Live
  /\ tx' = [tx EXCEPT ![a] = "aborted"]
  /\ UNCHANGED <<row, txReceipt, effects, wire, fresh, callVars, told>>

----------------------------------------------------------------------------
(* ExecuteOperation: the fence after an aborted transaction                *)

\* The compare-and-set of fenceAbortedOperation.
FenceAborted(c) ==
  /\ pc[c] = "fenceAborted"
  /\ Apply("fenceAborted", op[c])
  /\ \/ /\ operationPredicate(op[c])
        /\ Return(c, {aborted(op[c].attempt)})
     \/ /\ ~operationPredicate(op[c])
        /\ Goto(c, "fenceReread")
        /\ UNCHANGED <<op, asked, runs, commits, told>>
  /\ UNCHANGED <<wire, fresh>>

\* The re-read after a fence that matched nothing.  A row aborted by somebody
\* else is the transaction's own error again.
FenceReread(c) ==
  /\ pc[c] = "fenceReread"
  /\ Return(c, IF row.state = "aborted" /\ row.digest = op[c].digest
               THEN {aborted(op[c].attempt)} ELSE operationResult(op[c].digest))
  /\ UNCHANGED <<dbVars, wire, fresh>>

----------------------------------------------------------------------------
(* ReconcileOperation                                                      *)

\* An attempt a caller may pass: nil, any UUID handed out, or an invented one.
Askable == {Nil, Invented} \cup 1..(fresh - 1)

\* reconcileLoadedOperation on a row that is present.
ReconcileLoaded(c, d, a) ==
  /\ row.state # "absent"
  /\ \/ /\ row.digest # d
        /\ Return(c, operationResult(d))
     \/ /\ row.digest = d
        /\ a \notin {Nil, row.attempt}      \* ErrConflict
        /\ Return(c, {})
     \/ /\ row.digest = d
        /\ a \in {Nil, row.attempt}
        /\ row.state # "pending"
        /\ Return(c, operationResult(d))
     \/ /\ row.digest = d
        /\ a \in {Nil, row.attempt}
        /\ row.state = "pending"
        /\ Goto(c, "fenceExpired")
        /\ op' = [op EXCEPT ![c] = [attempt |-> row.attempt, token |-> row.token,
                                    digest |-> d, prev |-> Nil]]
        /\ asked' = [asked EXCEPT ![c] = a]
        /\ UNCHANGED <<runs, commits, told>>
  /\ UNCHANGED <<dbVars, wire, fresh>>

ReconcileOperation(c, d, a) ==
  /\ pc[c] = "idle"
  /\ ReconcileLoaded(c, d, a)

\* The row is absent: with an explicit attempt, insert an aborted tombstone.
ReconcileAbsent(c, d, a) ==
  /\ pc[c] = "idle"
  /\ a # Nil
  /\ row.state = "absent"
  /\ Goto(c, "tombstone")
  /\ op' = [op EXCEPT ![c] = [attempt |-> a, token |-> 1, digest |-> d, prev |-> Nil]]
  /\ asked' = [asked EXCEPT ![c] = a]
  /\ UNCHANGED <<dbVars, wire, fresh, runs, commits, told>>

\* Mutant: an absent row is called aborted without a tombstone.
InsertTombstoneSkipped(c) ==
  /\ pc[c] = "tombstone"
  /\ Return(c, {aborted(op[c].attempt)})
  /\ UNCHANGED <<dbVars, wire, fresh>>

\* The tombstone is inserted, or its key is already taken.
InsertTombstone(c) ==
  /\ pc[c] = "tombstone"
  /\ Apply("tombstone", op[c])
  /\ \/ /\ row.state = "absent"
        /\ Return(c, {aborted(op[c].attempt)})
     \/ /\ row.state # "absent"
        /\ Goto(c, "reload")
        /\ UNCHANGED <<op, asked, runs, commits, told>>
  /\ UNCHANGED <<wire, fresh>>

\* The re-read after a duplicate key continues as if the row had been found.
ReconcileReload(c) ==
  /\ pc[c] = "reload"
  /\ ReconcileLoaded(c, op[c].digest, asked[c])

\* The compare-and-set of fenceExpiredPendingOperation.
FenceExpired(c) ==
  /\ pc[c] = "fenceExpired"
  /\ Apply("fenceExpired", op[c])
  /\ \/ /\ Matches("fenceExpired", op[c])
        /\ Return(c, {aborted(op[c].attempt)})
     \/ /\ ~Matches("fenceExpired", op[c])
        /\ Goto(c, "expireReread")
        /\ UNCHANGED <<op, asked, runs, commits, told>>
  /\ UNCHANGED <<wire, fresh>>

\* The re-read after an expiry fence that matched nothing.
ReconcileReread(c) ==
  /\ pc[c] = "expireReread"
  /\ Return(c, IF asked[c] \in {Nil, row.attempt} THEN operationResult(op[c].digest) ELSE {})
  /\ UNCHANGED <<dbVars, wire, fresh>>

\* The server clock passes leaseUntil.
ExpireLease ==
  /\ row.state = "pending" /\ row.lease
  /\ row' = [row EXCEPT !.lease = FALSE]
  /\ UNCHANGED <<tx, txReceipt, effects, wire, fresh, callVars, told>>

----------------------------------------------------------------------------
CallerStart(c) ==
  \E d \in Digests :
    \/ ExecuteUnclaimed(c, d)
    \/ ExecuteClaim(c, d)
    \/ \E a \in Askable : ReconcileOperation(c, d, a) \/ ReconcileAbsent(c, d, a)

CallerStep(c) ==
  \/ ClaimOperation(c) \/ ClaimReread(c)
  \/ TxGuard(c) \/ TxConflict(c) \/ TxSave(c) \/ TxBodyFails(c)
  \/ CommitAcknowledged(c) \/ CommitTransient(c) \/ CommitUnknown(c)
  \/ FenceAborted(c) \/ FenceReread(c)
  \/ InsertTombstone(c) \/ ReconcileReload(c)
  \/ FenceExpired(c) \/ ReconcileReread(c)

Next ==
  \/ \E c \in Callers : CallerStart(c) \/ CallerStep(c) \/ pendingOperation(c)
  \/ \E w \in wire : LateApply(w)
  \/ \E a \in Attempts : ServerCommit(a) \/ ServerAbort(a)
  \/ ExpireLease

Spec == Init /\ [][Next]_vars

----------------------------------------------------------------------------
(* Properties                                                              *)

\* Every variable holds a value of its type: in particular the retry loops keep
\* to their budgets and no token passes the largest one.
TypeOK ==
  /\ row \in Row
  /\ tx \in [Attempts -> TxStates]
  /\ txReceipt \in [Attempts -> Receipts \cup {NoReceipt}]
  /\ effects \in Seq(Effect)
  /\ wire \subseteq LateWrite
  /\ fresh \in 1..(MaxAttempts + 1)
  /\ pc \in [Callers -> Labels]
  /\ op \in [Callers -> Operation]
  /\ asked \in [Callers -> Nat]
  /\ runs \in [Callers -> 0..(MaxBodyAttempts - 1)]
  /\ commits \in [Callers -> 0..(MaxCommitAttempts - 1)]
  /\ told \subseteq Answer

\* At most one body takes effect under an operation ID, and every committed
\* answer (from the commit itself or from the saved receipt) is about that body.
CommittedAnswersAgree ==
  /\ Len(effects) <= 1
  /\ \A t \in told : t.state = "committed" =>
       \E i \in DOMAIN effects : effects[i].digest = t.digest /\ effects[i].receipt = t.receipt

\* An attempt reported aborted (by its own fence, by a reconciler's fence or by
\* a tombstone) has not taken effect, in spite of late claims and late commits.
AbortedNeverCommits ==
  \A t \in told : t.state = "aborted" =>
    \A i \in DOMAIN effects : effects[i].attempt # t.attempt

\* A digest rejected as a mismatch has not taken effect: the digest that first
\* reaches the row owns the operation ID for good.
RejectedNeverCommits ==
  \A t \in told : t.state = "rejected" =>
    \A i \in DOMAIN effects : effects[i].digest # t.digest

\* A transaction that can still commit belongs to the attempt the row is pending
\* under: no fence and no newer claim gets past an unresolved transaction.
UnresolvedHoldsRow ==
  \A a \in Attempts : tx[a] \in Live => row.state = "pending" /\ row.attempt = a

RowStepAllowed ==
  /\ row.state = "committed" => row' = row
  /\ row.state = "pending" => row'.attempt = row.attempt /\ row'.token = row.token
  /\ row.state = "aborted" => row' = row \/ (row'.state = "pending" /\ row'.token = row.token + 1)

\* A committed row is final, a pending row keeps its attempt until it commits or
\* is fenced, and a new attempt takes over an aborted row with the next token.
RowHistory == [][RowStepAllowed]_row

FencedByOwner ==
  \/ \E c \in Callers : pc[c] = "fenceAborted" /\ op[c].attempt = row.attempt
  \/ \E w \in wire : w.kind = "fenceAborted" /\ w.operation.attempt = row.attempt

FenceAllowed ==
  row.state = "pending" /\ row.lease /\ row'.state = "aborted" => FencedByOwner

\* While its lease is current a pending operation is only fenced by its own
\* caller's abort, never by a reconciler.
LeaseProtectsWorker == [][FenceAllowed]_vars

Atomic == INSTANCE AtomicOperation WITH decided <- effects, promises <- told

\* The operation store implements the atomic operation.
ImplementsAtomic == Atomic!Spec
=============================================================================
