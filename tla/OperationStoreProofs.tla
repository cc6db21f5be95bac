------------------------ MODULE OperationStoreProofs ------------------------
(***************************************************************************)
(* Proofs about OperationStore, for any number of callers, digests,        *)
(* receipts and attempts and any retry budgets.                            *)
(***************************************************************************)
EXTENDS OperationStore, TLAPS

----------------------------------------------------------------------------
(* The inductive invariant                                                 *)

Present == row.state # "absent"

\* An attempt that no later claim will be given.
Issued(a) == a # Nil /\ (a < fresh \/ a = Invented)

\* A write of kind k that its caller waits for or has left behind.
Outstanding(k, o) ==
  \/ \E c \in Callers : pc[c] = k /\ op[c] = o
  \/ [kind |-> k, operation |-> o] \in wire

\* A claim the row has moved past: its filter can never match again.
Stale(o) == Present /\ (o.prev = Nil \/ row.token >= o.token)

\* Every claim of attempt a has been applied or has become useless.
Claimed(a) ==
  \A o \in Operation : Outstanding("claim", o) /\ o.attempt = a => Stale(o)

\* The attempt can never take effect any more.
Dead(a) ==
  /\ Present
  /\ Issued(a)
  /\ row.attempt = a => row.state = "aborted"
  /\ Claimed(a)

RowInv ==
  /\ ~Present => row.attempt = Nil /\ row.token = 0
  /\ Present => /\ Issued(row.attempt)
                /\ row.digest \in Digests
                /\ Claimed(row.attempt)

ClaimInv ==
  \A o \in Operation : Outstanding("claim", o) =>
    /\ o.attempt \in Attempts /\ o.attempt < fresh
    /\ o.digest \in Digests
    /\ o.prev = Nil => o.token = 1
    /\ o.prev # Nil => Present
    /\ \A q \in Operation :
         Outstanding("claim", q) /\ q.attempt = o.attempt => q.token = o.token

TombstoneInv ==
  \A o \in Operation : Outstanding("tombstone", o) =>
    Issued(o.attempt) /\ o.digest \in Digests /\ o.token = 1

\* Labels of a caller whose claim was applied.
Owning == {"claimed", "guarded", "committing", "fenceAborted", "fenceReread"}

WorkerInv ==
  \A c \in Callers : pc[c] \in Owning =>
    /\ op[c].attempt \in Attempts /\ op[c].attempt < fresh
    /\ Present /\ row.digest = op[c].digest
    /\ Claimed(op[c].attempt)

\* Labels reached only after a row was seen.
Rereading == {"claimReread", "fenceExpired", "expireReread"}

RereadInv == \A c \in Callers : pc[c] \in Rereading => Present

TxInv ==
  \A a \in Attempts :
    /\ tx[a] \in Live => row.state = "pending" /\ row.attempt = a
    /\ tx[a] = "committed" => /\ row.state = "committed" /\ row.attempt = a
                              /\ row.receipt = txReceipt[a]

EffectInv ==
  /\ row.state # "committed" => effects = <<>>
  /\ row.state = "committed" =>
       effects = <<[attempt |-> row.attempt, digest |-> row.digest, receipt |-> row.receipt]>>

ToldInv ==
  \A t \in told :
    /\ t.state = "committed" =>
         row.state = "committed" /\ row.digest = t.digest /\ row.receipt = t.receipt
    /\ t.state = "aborted" => Dead(t.attempt)
    /\ t.state = "rejected" => Present /\ row.digest # t.digest

IInv ==
  /\ TypeOK /\ RowInv /\ ClaimInv /\ TombstoneInv
  /\ WorkerInv /\ RereadInv /\ TxInv /\ EffectInv /\ ToldInv

----------------------------------------------------------------------------
(* What one step can do, part by part                                      *)

\* A claim, a tombstone or a fence is applied to the unlocked row.
WriteApplied ==
  /\ RowUnlocked
  /\ UNCHANGED <<tx, txReceipt, effects>>
  /\ \/ \E o \in Operation : /\ Outstanding("claim", o) /\ claimMatches(o)
                             /\ row' = operationDocument("pending", o)
     \/ \E o \in Operation : /\ Outstanding("tombstone", o) /\ ~Present
                             /\ row' = operationDocument("aborted", o)
     \/ row.state = "pending" /\ row' = [row EXCEPT !.state = "aborted"]

\* Only transactions move: one is opened by the row's attempt, saved or aborted.
TransactionMoved ==
  /\ row' = row /\ effects' = effects
  /\ \A a \in Attempts :
       /\ tx'[a] \in Live => tx[a] \in Live \/ (row.state = "pending" /\ row.attempt = a)
       /\ tx'[a] = "committed" => tx[a] = "committed" /\ txReceipt'[a] = txReceipt[a]

LeaseExpired ==
  /\ row.state = "pending"
  /\ row' = [row EXCEPT !.lease = FALSE]
  /\ UNCHANGED <<tx, txReceipt, effects>>

Committed ==
  \E a \in Attempts :
    /\ tx[a] = "saved"
    /\ tx' = [tx EXCEPT ![a] = "committed"]
    /\ row' = [row EXCEPT !.state = "committed", !.receipt = txReceipt[a]]
    /\ effects' = Append(effects, [attempt |-> a, digest |-> row.digest, receipt |-> txReceipt[a]])
    /\ UNCHANGED txReceipt

DatabaseStep == WriteApplied \/ TransactionMoved \/ LeaseExpired \/ Committed

\* A write outside a transaction either misses or is one of WriteApplied.
LEMMA ApplyStep ==
  ASSUME TypeOK, NEW k \in Writes, NEW o \in Operation,
         Outstanding(k, o), Apply(k, o)
  PROVE  WriteApplied \/ (row' = row /\ UNCHANGED <<tx, txReceipt, effects>>)
<1>1. CASE ~Matches(k, o)
  BY <1>1 DEF Apply
<1>2. CASE Matches(k, o) /\ k = "claim"
  BY <1>2 DEF Apply, Matches, Written, WriteApplied
<1>3. CASE Matches(k, o) /\ k = "tombstone"
  BY <1>3 DEF Apply, Matches, Written, WriteApplied, Present
<1>4. CASE Matches(k, o) /\ k \in {"fenceAborted", "fenceExpired"}
  BY <1>4 DEF Apply, Matches, Written, WriteApplied, operationPredicate
<1> QED BY <1>1, <1>2, <1>3, <1>4 DEF Writes

\* Every step of the specification does one of the four things to the database.
LEMMA DatabaseSteps ==
  ASSUME TypeOK, WorkerInv, Next
  PROVE  DatabaseStep
<1> USE DEF TypeOK, DatabaseStep
<1>1. ASSUME NEW c \in Callers, CallerStart(c)
      PROVE  DatabaseStep
  <2>1. row' = row /\ UNCHANGED <<tx, txReceipt, effects>>
    BY <1>1 DEF CallerStart, ExecuteUnclaimed, ExecuteClaim, ReconcileOperation,
       ReconcileLoaded, ReconcileAbsent, dbVars
  <2> QED BY <2>1 DEF TransactionMoved
<1>2. ASSUME NEW c \in Callers, pendingOperation(c)
      PROVE  DatabaseStep
  BY <1>2 DEF pendingOperation, dbVars, TransactionMoved
<1>3. ASSUME NEW c \in Callers, CallerStep(c)
      PROVE  DatabaseStep
  <2>1. CASE \E k \in Writes : pc[c] = k /\ Apply(k, op[c])
    <3>1. PICK k \in Writes : pc[c] = k /\ Apply(k, op[c])
      BY <2>1
    <3>2. op[c] \in Operation /\ Outstanding(k, op[c])
      BY <3>1 DEF Outstanding
    <3> QED BY <3>1, <3>2, ApplyStep DEF TransactionMoved
  <2>2. CASE ClaimReread(c) \/ CommitAcknowledged(c) \/ CommitTransient(c) \/ CommitUnknown(c)
             \/ FenceReread(c) \/ ReconcileReload(c) \/ ReconcileReread(c)
    <3>1. row' = row /\ UNCHANGED <<tx, txReceipt, effects>>
      BY <2>2 DEF ClaimReread, CommitAcknowledged, CommitTransient, CommitUnknown,
         FenceReread, ReconcileReload, ReconcileLoaded, ReconcileReread, dbVars
    <3> QED BY <3>1 DEF TransactionMoved
  <2>3. CASE TxGuard(c)
    <3>1. op[c].attempt \in Attempts
      BY <2>3 DEF TxGuard, WorkerInv, Owning
    <3> QED BY <2>3, <3>1 DEF TxGuard, operationPredicate, TransactionMoved, Live
  <2>4. CASE TxConflict(c)
    <3>1. op[c].attempt \in Attempts
      BY <2>4 DEF TxConflict, WorkerInv, Owning
    <3> QED BY <2>4, <3>1 DEF TxConflict, TransactionMoved, Live
  <2>5. CASE TxSave(c)
    <3>1. op[c].attempt \in Attempts
      BY <2>5 DEF TxSave, WorkerInv, Owning
    <3>2. PICK r \in Receipts : txReceipt' = [txReceipt EXCEPT ![op[c].attempt] = r]
      BY <2>5 DEF TxSave
    <3> QED BY <2>5, <3>1, <3>2 DEF TxSave, TransactionMoved, Live
  <2>6. CASE TxBodyFails(c)
    <3>1. op[c].attempt \in Attempts
      BY <2>6 DEF TxBodyFails, WorkerInv, Owning
    <3> QED BY <2>6, <3>1 DEF TxBodyFails, TransactionMoved, Live
  <2> QED BY <1>3, <2>1, <2>2, <2>3, <2>4, <2>5, <2>6
      DEF CallerStep, ClaimOperation, FenceAborted, InsertTombstone, FenceExpired, Writes
<1>4. ASSUME NEW w \in wire, LateApply(w)
      PROVE  DatabaseStep
  <2>1. w \in LateWrite
    OBVIOUS
  <2>2. w.kind \in Writes /\ w.operation \in Operation /\ w = [kind |-> w.kind, operation |-> w.operation]
    BY <2>1 DEF LateWrite
  <2>3. Outstanding(w.kind, w.operation)
    BY <1>4, <2>2 DEF Outstanding
  <2> QED BY <1>4, <2>2, <2>3, ApplyStep DEF LateApply, TransactionMoved
<1>5. ASSUME NEW a \in Attempts, ServerCommit(a)
      PROVE  DatabaseStep
  BY <1>5 DEF ServerCommit, Committed
<1>6. ASSUME NEW a \in Attempts, ServerAbort(a)
      PROVE  DatabaseStep
  BY <1>6 DEF ServerAbort, TransactionMoved, Live
<1>7. ASSUME ExpireLease
      PROVE  DatabaseStep
  BY <1>7 DEF ExpireLease, LeaseExpired
<1> QED BY <1>1, <1>2, <1>3, <1>4, <1>5, <1>6, <1>7 DEF Next

----------------------------------------------------------------------------
(* Which writes can be outstanding after a step                            *)

\* The claim ExecuteClaim sends.
NewClaim(o) ==
  /\ fresh <= MaxAttempts /\ fresh' = fresh + 1 /\ row' = row
  /\ o.attempt = fresh
  /\ o.token = row.token + 1
  /\ o.prev = row.attempt
  /\ o.digest \in Digests

\* The tombstone ReconcileAbsent sends.
NewTombstone(o) == Issued(o.attempt) /\ o.token = 1 /\ o.digest \in Digests

\* A write is outstanding because it was before, or because it was just sent.
OutstandingFrame(o) ==
  /\ Outstanding("claim", o)' => Outstanding("claim", o) \/ NewClaim(o)
  /\ Outstanding("tombstone", o)' => Outstanding("tombstone", o) \/ NewTombstone(o)

\* Attempt numbers are handed out in order and writes only appear when sent.
LEMMA OutstandingSteps ==
  ASSUME TypeOK, Next, NEW o \in Operation
  PROVE  OutstandingFrame(o) /\ fresh' \in {fresh, fresh + 1}
<1> USE DEF TypeOK, OutstandingFrame
\* A step that sends nothing and moves no caller into a waiting label.
<1>q. ASSUME fresh' = fresh, wire' \subseteq wire,
             \A c \in Callers : pc'[c] \in {"claim", "tombstone"} => pc'[c] = pc[c] /\ op'[c] = op[c]
      PROVE  OutstandingFrame(o) /\ fresh' \in {fresh, fresh + 1}
  BY <1>q DEF Outstanding
<1>1. ASSUME NEW c \in Callers, CallerStart(c)
      PROVE  OutstandingFrame(o) /\ fresh' \in {fresh, fresh + 1}
  <2>1. PICK d \in Digests :
          \/ ExecuteUnclaimed(c, d) \/ ExecuteClaim(c, d)
          \/ \E a \in Askable : ReconcileOperation(c, d, a) \/ ReconcileAbsent(c, d, a)
    BY <1>1 DEF CallerStart
  <2>2. CASE ExecuteUnclaimed(c, d)
    BY <2>2, <1>q DEF ExecuteUnclaimed, callVars
  <2>3. CASE ExecuteClaim(c, d)
    BY <2>3 DEF ExecuteClaim, Goto, Outstanding, NewClaim, dbVars
  <2>4. ASSUME NEW a \in Askable, ReconcileOperation(c, d, a)
        PROVE  OutstandingFrame(o) /\ fresh' \in {fresh, fresh + 1}
    BY <2>4, <1>q DEF ReconcileOperation, ReconcileLoaded, Return, Goto
  <2>5. ASSUME NEW a \in Askable, ReconcileAbsent(c, d, a)
        PROVE  OutstandingFrame(o) /\ fresh' \in {fresh, fresh + 1}
    <3>1. Issued(a)
      BY <2>5 DEF ReconcileAbsent, Askable, Issued, Nil, Invented
    <3> QED BY <2>5, <3>1 DEF ReconcileAbsent, Goto, Outstanding, NewTombstone
  <2> QED BY <2>1, <2>2, <2>3, <2>4, <2>5
<1>2. ASSUME NEW c \in Callers, pendingOperation(c)
      PROVE  OutstandingFrame(o) /\ fresh' \in {fresh, fresh + 1}
  <2>1. fresh' = fresh /\ \A b \in Callers : pc'[b] # "idle" => pc'[b] = pc[b] /\ op'[b] = op[b]
    BY <1>2 DEF pendingOperation, Return
  <2>2. CASE wire' = wire
    BY <2>1, <2>2, <1>q
  <2>3. CASE wire' = wire \cup {[kind |-> pc[c], operation |-> op[c]]}
    BY <2>1, <2>3 DEF Outstanding
  <2> QED BY <1>2, <2>2, <2>3 DEF pendingOperation
<1>3. ASSUME NEW c \in Callers, CallerStep(c)
      PROVE  OutstandingFrame(o) /\ fresh' \in {fresh, fresh + 1}
  <2>1. fresh' = fresh /\ wire' = wire
    BY <1>3 DEF CallerStep, ClaimOperation, ClaimReread, TxGuard, TxConflict, TxSave,
       TxBodyFails, CommitAcknowledged, CommitTransient, CommitUnknown, FenceAborted,
       FenceReread, InsertTombstone, ReconcileReload, ReconcileLoaded, FenceExpired,
       ReconcileReread
  <2>2. pc'[c] \notin {"claim", "tombstone"}
        /\ \A b \in Callers \ {c} : pc'[b] = pc[b] /\ op'[b] = op[b]
    <3>1. CASE ClaimOperation(c)
      BY <3>1 DEF ClaimOperation, Goto
    <3>2. CASE ClaimReread(c) \/ CommitAcknowledged(c) \/ FenceReread(c) \/ ReconcileReread(c)
      BY <3>2 DEF ClaimReread, CommitAcknowledged, FenceReread, ReconcileReread, Return
    <3>3. CASE TxGuard(c) \/ TxSave(c) \/ TxConflict(c) \/ TxBodyFails(c)
      BY <3>3 DEF TxGuard, TxSave, TxConflict, TxBodyFails, RetryBody, ToFence, Goto
    <3>4. CASE CommitTransient(c) \/ CommitUnknown(c)
      BY <3>4 DEF CommitTransient, CommitUnknown, RetryBody, ToFence, Goto
    <3>5. CASE FenceAborted(c) \/ InsertTombstone(c) \/ FenceExpired(c)
      BY <3>5 DEF FenceAborted, InsertTombstone, FenceExpired, Return, Goto
    <3>6. CASE ReconcileReload(c)
      BY <3>6 DEF ReconcileReload, ReconcileLoaded, Return, Goto
    <3> QED BY <1>3, <3>1, <3>2, <3>3, <3>4, <3>5, <3>6 DEF CallerStep
  <2> QED BY <2>1, <2>2, <1>q
<1>4. ASSUME NEW w \in wire, LateApply(w)
      PROVE  OutstandingFrame(o) /\ fresh' \in {fresh, fresh + 1}
  BY <1>4, <1>q DEF LateApply, callVars
<1>5. ASSUME NEW a \in Attempts, ServerCommit(a) \/ ServerAbort(a)
      PROVE  OutstandingFrame(o) /\ fresh' \in {fresh, fresh + 1}
  BY <1>5, <1>q DEF ServerCommit, ServerAbort, callVars
<1>6. ASSUME ExpireLease
      PROVE  OutstandingFrame(o) /\ fresh' \in {fresh, fresh + 1}
  BY <1>6, <1>q DEF ExpireLease, callVars
<1> QED BY <1>1, <1>2, <1>3, <1>4, <1>5, <1>6 DEF Next

----------------------------------------------------------------------------
(* Who owns a claim after a step                                           *)

\* A caller past its claim was past it before, or has just won it.
OwnerFrame(c) ==
  pc'[c] \in Owning =>
    /\ op'[c] = op[c]
    /\ \/ pc[c] \in Owning
       \/ /\ pc[c] = "claim" /\ claimMatches(op[c])
          /\ row' = operationDocument("pending", op[c])

\* Every step treats the claim of every caller in one of these two ways.
LEMMA OwnerSteps ==
  ASSUME TypeOK, Next, NEW b \in Callers
  PROVE  OwnerFrame(b)
<1> USE DEF TypeOK, OwnerFrame, Owning
<1>1. ASSUME NEW c \in Callers, CallerStart(c)
      PROVE  OwnerFrame(b)
  <2>1. PICK d \in Digests :
          \/ ExecuteUnclaimed(c, d) \/ ExecuteClaim(c, d)
          \/ \E a \in Askable : ReconcileOperation(c, d, a) \/ ReconcileAbsent(c, d, a)
    BY <1>1 DEF CallerStart
  <2> QED BY <2>1 DEF ExecuteUnclaimed, ExecuteClaim, ReconcileOperation, ReconcileLoaded,
      ReconcileAbsent, Return, Goto, callVars
<1>2. ASSUME NEW c \in Callers, pendingOperation(c)
      PROVE  OwnerFrame(b)
  BY <1>2 DEF pendingOperation, Return
<1>3. ASSUME NEW c \in Callers, CallerStep(c)
      PROVE  OwnerFrame(b)
  <2>1. CASE ClaimOperation(c)
    BY <2>1 DEF ClaimOperation, Apply, Matches, Written, Goto
  <2>2. CASE ClaimReread(c) \/ CommitAcknowledged(c) \/ FenceReread(c) \/ ReconcileReread(c)
    BY <2>2 DEF ClaimReread, CommitAcknowledged, FenceReread, ReconcileReread, Return
  <2>3. CASE TxGuard(c) \/ TxSave(c) \/ TxConflict(c) \/ TxBodyFails(c)
    BY <2>3 DEF TxGuard, TxSave, TxConflict, TxBodyFails, RetryBody, ToFence, Goto
  <2>4. CASE CommitTransient(c) \/ CommitUnknown(c)
    BY <2>4 DEF CommitTransient, CommitUnknown, RetryBody, ToFence, Goto
  <2>5. CASE FenceAborted(c) \/ InsertTombstone(c) \/ FenceExpired(c)
    BY <2>5 DEF FenceAborted, InsertTombstone, FenceExpired, Return, Goto
  <2>6. CASE ReconcileReload(c)
    BY <2>6 DEF ReconcileReload, ReconcileLoaded, Return, Goto
  <2> QED BY <1>3, <2>1, <2>2, <2>3, <2>4, <2>5, <2>6 DEF CallerStep
<1>4. ASSUME NEW w \in wire, LateApply(w)
      PROVE  OwnerFrame(b)
  BY <1>4 DEF LateApply, callVars
<1>5. ASSUME NEW a \in Attempts, ServerCommit(a) \/ ServerAbort(a)
      PROVE  OwnerFrame(b)
  BY <1>5 DEF ServerCommit, ServerAbort, callVars
<1>6. ASSUME ExpireLease
      PROVE  OwnerFrame(b)
  BY <1>6 DEF ExpireLease, callVars
<1> QED BY <1>1, <1>2, <1>3, <1>4, <1>5, <1>6 DEF Next

\* A caller that is about to re-read the row has seen it or lost a claim to it.
LEMMA RereadSteps ==
  ASSUME TypeOK, ClaimInv, RereadInv, Next, NEW b \in Callers, pc'[b] \in Rereading
  PROVE  Present
<1> USE DEF TypeOK, Rereading
<1>0. pc[b] \in Rereading => Present
  BY DEF RereadInv
<1>1. ASSUME NEW c \in Callers, CallerStart(c)
      PROVE  Present
  <2>1. PICK d \in Digests :
          \/ ExecuteUnclaimed(c, d) \/ ExecuteClaim(c, d)
          \/ \E a \in Askable : ReconcileOperation(c, d, a) \/ ReconcileAbsent(c, d, a)
    BY <1>1 DEF CallerStart
  <2> QED BY <1>0, <2>1 DEF ExecuteUnclaimed, ExecuteClaim, ReconcileOperation, ReconcileLoaded,
      ReconcileAbsent, Return, Goto, callVars, Present
<1>2. ASSUME NEW c \in Callers, pendingOperation(c)
      PROVE  Present
  BY <1>0, <1>2 DEF pendingOperation, Return
<1>3. ASSUME NEW c \in Callers, CallerStep(c)
      PROVE  Present
  <2>1. CASE ClaimOperation(c)
    <3>1. CASE b = c
      <4>1. Outstanding("claim", op[c]) /\ op[c] \in Operation
        BY <2>1 DEF ClaimOperation, Outstanding
      <4>2. op[c].prev # Nil => Present
        BY <4>1 DEF ClaimInv
      <4>3. ~claimMatches(op[c])
        BY <2>1, <3>1 DEF ClaimOperation, Goto
      <4> QED BY <4>2, <4>3 DEF claimMatches, Present
    <3>2. CASE b # c
      BY <1>0, <2>1, <3>2 DEF ClaimOperation, Goto
    <3> QED BY <3>1, <3>2
  <2>2. CASE ClaimReread(c) \/ CommitAcknowledged(c) \/ FenceReread(c) \/ ReconcileReread(c)
    BY <1>0, <2>2 DEF ClaimReread, CommitAcknowledged, FenceReread, ReconcileReread, Return
  <2>3. CASE TxGuard(c) \/ TxSave(c) \/ TxConflict(c) \/ TxBodyFails(c)
    BY <1>0, <2>3 DEF TxGuard, TxSave, TxConflict, TxBodyFails, RetryBody, ToFence, Goto
  <2>4. CASE CommitTransient(c) \/ CommitUnknown(c)
    BY <1>0, <2>4 DEF CommitTransient, CommitUnknown, RetryBody, ToFence, Goto
  <2>5. CASE FenceAborted(c) \/ InsertTombstone(c) \/ FenceExpired(c)
    BY <1>0, <2>5 DEF FenceAborted, InsertTombstone, FenceExpired, Return, Goto
  <2>6. CASE ReconcileReload(c)
    BY <1>0, <2>6 DEF ReconcileReload, ReconcileLoaded, Return, Goto, Present
  <2> QED BY <1>3, <2>1, <2>2, <2>3, <2>4, <2>5, <2>6 DEF CallerStep
<1>4. ASSUME NEW w \in wire, LateApply(w)
      PROVE  Present
  BY <1>0, <1>4 DEF LateApply, callVars
<1>5. ASSUME NEW a \in Attempts, ServerCommit(a) \/ ServerAbort(a)
      PROVE  Present
  BY <1>0, <1>5 DEF ServerCommit, ServerAbort, callVars
<1>6. ASSUME ExpireLease
      PROVE  Present
  BY <1>0, <1>6 DEF ExpireLease, callVars
<1> QED BY <1>1, <1>2, <1>3, <1>4, <1>5, <1>6 DEF Next

----------------------------------------------------------------------------
(* What a step can tell a caller                                           *)

Justified(t) ==
  \/ /\ t.state = "committed"
     /\ row' = row /\ row.state = "committed"
     /\ row.digest = t.digest /\ row.receipt = t.receipt
  \/ /\ t.state = "aborted"
     /\ row'.state = "aborted" /\ row'.attempt = t.attempt
  \/ /\ t.state = "aborted"
     /\ row' = row /\ row.state = "aborted"
     /\ \E c \in Callers : pc[c] \in Owning /\ op[c].attempt = t.attempt
  \/ /\ t.state = "rejected"
     /\ row' = row /\ Present /\ row.digest # t.digest

\* The answers operationResult gives for a row that the step leaves alone.
LEMMA ResultJustified ==
  ASSUME TypeOK, Present, row' = row, NEW d, NEW t \in operationResult(d)
  PROVE  Justified(t)
BY DEF operationResult, Justified, committed, aborted, rejected, TypeOK, Row, Present

\* Every new answer is justified by the row.
LEMMA ToldSteps ==
  ASSUME TypeOK, WorkerInv, RereadInv, TxInv, Next, NEW t \in told', t \notin told
  PROVE  Justified(t)
<1> USE DEF TypeOK
<1>1. ASSUME NEW c \in Callers, CallerStart(c)
      PROVE  Justified(t)
  <2>1. PICK d \in Digests :
          \/ ExecuteUnclaimed(c, d) \/ ExecuteClaim(c, d)
          \/ \E a \in Askable : ReconcileOperation(c, d, a) \/ ReconcileAbsent(c, d, a)
    BY <1>1 DEF CallerStart
  <2>2. t \in operationResult(d) /\ Present /\ row' = row
    BY <2>1 DEF ExecuteUnclaimed, ExecuteClaim, ReconcileOperation, ReconcileLoaded,
       ReconcileAbsent, Return, dbVars, Present
  <2> QED BY <2>2, ResultJustified
<1>2. ASSUME NEW c \in Callers, pendingOperation(c)
      PROVE  Justified(t)
  BY <1>2 DEF pendingOperation, Return
<1>3. ASSUME NEW c \in Callers, CallerStep(c)
      PROVE  Justified(t)
  <2>1. CASE ClaimReread(c)
    <3>1. t \in operationResult(op[c].digest) /\ row' = row
      BY <2>1 DEF ClaimReread, Return, dbVars
    <3>2. Present
      BY <2>1 DEF ClaimReread, RereadInv, Rereading
    <3> QED BY <3>1, <3>2, ResultJustified
  <2>2. CASE CommitAcknowledged(c)
    <3>1. op[c].attempt \in Attempts /\ row.digest = op[c].digest
      BY <2>2 DEF CommitAcknowledged, WorkerInv, Owning
    <3>2. t = committed(op[c].digest, txReceipt[op[c].attempt]) /\ row' = row
      BY <2>2 DEF CommitAcknowledged, Return, dbVars
    <3> QED BY <2>2, <3>1, <3>2 DEF CommitAcknowledged, TxInv, Justified, committed
  <2>3. CASE FenceReread(c)
    <3>1. Present /\ row' = row
      BY <2>3 DEF FenceReread, WorkerInv, Owning, dbVars
    <3>2. CASE t \in operationResult(op[c].digest)
      BY <3>1, <3>2, ResultJustified
    <3>3. CASE t = aborted(op[c].attempt) /\ row.state = "aborted"
      BY <2>3, <3>1, <3>3 DEF FenceReread, Justified, aborted, Owning
    <3> QED BY <2>3, <3>2, <3>3 DEF FenceReread, Return
  <2>4. CASE ReconcileReread(c)
    <3>1. t \in operationResult(op[c].digest) /\ row' = row
      BY <2>4 DEF ReconcileReread, Return, dbVars
    <3>2. Present
      BY <2>4 DEF ReconcileReread, RereadInv, Rereading
    <3> QED BY <3>1, <3>2, ResultJustified
  <2>5. CASE FenceAborted(c)
    <3>1. t = aborted(op[c].attempt) /\ operationPredicate(op[c]) /\ row' = [row EXCEPT !.state = "aborted"]
      BY <2>5 DEF FenceAborted, Apply, Matches, Written, Return
    <3> QED BY <3>1 DEF operationPredicate, Justified, aborted, Row
  <2>6. CASE FenceExpired(c)
    <3>1. t = aborted(op[c].attempt) /\ operationPredicate(op[c]) /\ row' = [row EXCEPT !.state = "aborted"]
      BY <2>6 DEF FenceExpired, Apply, Matches, Written, Return
    <3> QED BY <3>1 DEF operationPredicate, Justified, aborted, Row
  <2>7. CASE InsertTombstone(c)
    <3>1. t = aborted(op[c].attempt) /\ row' = operationDocument("aborted", op[c])
      BY <2>7 DEF InsertTombstone, Apply, Matches, Written, Return
    <3> QED BY <3>1 DEF operationDocument, Justified, aborted
  <2>8. CASE ReconcileReload(c)
    <3>1. t \in operationResult(op[c].digest) /\ Present /\ row' = row
      BY <2>8 DEF ReconcileReload, ReconcileLoaded, Return, dbVars, Present
    <3> QED BY <3>1, ResultJustified
  <2> QED BY <1>3, <2>1, <2>2, <2>3, <2>4, <2>5, <2>6, <2>7, <2>8
      DEF CallerStep, ClaimOperation, TxGuard, TxConflict, TxSave, TxBodyFails,
          CommitTransient, CommitUnknown
<1>4. ASSUME NEW w \in wire, LateApply(w)
      PROVE  Justified(t)
  BY <1>4 DEF LateApply
<1>5. ASSUME NEW a \in Attempts, ServerCommit(a) \/ ServerAbort(a)
      PROVE  Justified(t)
  BY <1>5 DEF ServerCommit, ServerAbort
<1>6. ASSUME ExpireLease
      PROVE  Justified(t)
  BY <1>6 DEF ExpireLease
<1> QED BY <1>1, <1>2, <1>3, <1>4, <1>5, <1>6 DEF Next

----------------------------------------------------------------------------
(* Each part of the invariant is preserved                                 *)

\* Returning answers that are answers keeps the caller's variables typed.
LEMMA ReturnType ==
  ASSUME TypeOK, NEW c \in Callers, NEW S \in SUBSET Answer, Return(c, S)
  PROVE  /\ pc' \in [Callers -> Labels] /\ op' \in [Callers -> Operation]
         /\ asked' \in [Callers -> Nat]
         /\ runs' \in [Callers -> 0..(MaxBodyAttempts - 1)]
         /\ commits' \in [Callers -> 0..(MaxCommitAttempts - 1)]
         /\ told' \subseteq Answer
<1>1. NoOperation \in Operation /\ Nil \in Nat /\ "idle" \in Labels
  BY OperationConstants DEF NoOperation, Operation, Nil, Labels
<1>2. 0 \in 0..(MaxBodyAttempts - 1) /\ 0 \in 0..(MaxCommitAttempts - 1)
  BY OperationConstants
<1> QED BY <1>1, <1>2 DEF TypeOK, Return

\* operationResult yields answers.
LEMMA ResultType ==
  ASSUME TypeOK, NEW d \in Digests \cup {NoDigest}
  PROVE  operationResult(d) \in SUBSET Answer
BY DEF TypeOK, Row, operationResult, committed, aborted, rejected, Answer, Nil

\* Applying a single-document write keeps the database typed.
LEMMA ApplyType ==
  ASSUME TypeOK, NEW k, NEW o \in Operation, Apply(k, o)
  PROVE  row' \in Row /\ UNCHANGED <<tx, txReceipt, effects>>
BY DEF TypeOK, Row, Operation, Apply, Written, operationDocument, RowStates

\* So does the body of ReconcileOperation on a present row.
LEMMA LoadedType ==
  ASSUME TypeOK, NEW c \in Callers, NEW d \in Digests \cup {NoDigest}, NEW a \in Nat,
         ReconcileLoaded(c, d, a)
  PROVE  TypeOK'
<1>1. UNCHANGED <<row, tx, txReceipt, effects, wire, fresh>>
  BY DEF ReconcileLoaded, dbVars
<1>2. CASE Return(c, operationResult(d)) \/ Return(c, {})
  <2>1. operationResult(d) \in SUBSET Answer /\ {} \in SUBSET Answer
    BY ResultType
  <2> QED BY <1>1, <1>2, <2>1, ReturnType DEF TypeOK
<1>3. CASE /\ Goto(c, "fenceExpired")
           /\ op' = [op EXCEPT ![c] = [attempt |-> row.attempt, token |-> row.token,
                                       digest |-> d, prev |-> Nil]]
           /\ asked' = [asked EXCEPT ![c] = a]
           /\ UNCHANGED <<runs, commits, told>>
  <2>1. [attempt |-> row.attempt, token |-> row.token, digest |-> d, prev |-> Nil] \in Operation
    BY DEF TypeOK, Row, Operation, Nil
  <2>2. "fenceExpired" \in Labels
    BY DEF Labels, Writes
  <2> QED BY <1>1, <1>3, <2>1, <2>2 DEF TypeOK, Goto
<1> QED BY <1>2, <1>3 DEF ReconcileLoaded

\* The types are preserved.
LEMMA TypeStep ==
  ASSUME TypeOK, WorkerInv, Next
  PROVE  TypeOK'
<1> USE DEF TypeOK
<1>l. Writes \subseteq Labels /\ Owning \subseteq Labels /\ Rereading \subseteq Labels
      /\ "reload" \in Labels
  BY DEF Writes, Labels, Owning, Rereading
<1>1. ASSUME NEW c \in Callers, CallerStart(c)
      PROVE  TypeOK'
  <2>1. PICK d \in Digests :
          \/ ExecuteUnclaimed(c, d) \/ ExecuteClaim(c, d)
          \/ \E a \in Askable : ReconcileOperation(c, d, a) \/ ReconcileAbsent(c, d, a)
    BY <1>1 DEF CallerStart
  <2>2. operationResult(d) \in SUBSET Answer /\ {} \in SUBSET Answer
    BY ResultType
  <2>3. CASE ExecuteUnclaimed(c, d)
    BY <2>2, <2>3 DEF ExecuteUnclaimed, dbVars, callVars
  <2>4. CASE ExecuteClaim(c, d)
    <3>1. op' \in [Callers -> Operation]
      BY <2>4, OperationConstants DEF ExecuteClaim, Operation, Row
    <3>2. fresh' \in 1..(MaxAttempts + 1)
      BY <2>4, OperationConstants DEF ExecuteClaim
    <3> QED BY <2>4, <3>1, <3>2, <1>l DEF ExecuteClaim, Goto, dbVars, Writes
  <2>5. ASSUME NEW a \in Askable, ReconcileOperation(c, d, a)
        PROVE  TypeOK'
    <3>1. a \in Nat
      BY OperationConstants DEF Askable, Nil, Invented
    <3> QED BY <2>5, <3>1, LoadedType DEF ReconcileOperation
  <2>6. ASSUME NEW a \in Askable, ReconcileAbsent(c, d, a)
        PROVE  TypeOK'
    <3>1. a \in Nat /\ 1 \in 0..MaxToken
      BY OperationConstants DEF Askable, Nil, Invented
    <3> QED BY <2>6, <3>1, <1>l DEF ReconcileAbsent, Goto, Operation, Nil, Writes, dbVars
  <2> QED BY <2>1, <2>3, <2>4, <2>5, <2>6
<1>2. ASSUME NEW c \in Callers, pendingOperation(c)
      PROVE  TypeOK'
  <2>1. wire' \subseteq LateWrite
    BY <1>2 DEF pendingOperation, LateWrite
  <2> QED BY <1>2, <2>1, ReturnType DEF pendingOperation, dbVars
<1>3. ASSUME NEW c \in Callers, CallerStep(c)
      PROVE  TypeOK'
  <2>r. operationResult(op[c].digest) \in SUBSET Answer /\ {} \in SUBSET Answer
    BY ResultType DEF Operation
  <2>a. {aborted(op[c].attempt)} \in SUBSET Answer
    BY DEF Answer, aborted, Operation
  <2>b. RetryBody(c) \/ ToFence(c) =>
          /\ pc' \in [Callers -> Labels]
          /\ runs' \in [Callers -> 0..(MaxBodyAttempts - 1)]
          /\ commits' \in [Callers -> 0..(MaxCommitAttempts - 1)]
    <3>1. "claimed" \in Labels /\ "fenceAborted" \in Labels
      BY DEF Labels, Writes
    <3>2. 0 \in 0..(MaxBodyAttempts - 1) /\ 0 \in 0..(MaxCommitAttempts - 1)
      BY OperationConstants
    <3>3. runs[c] + 1 < MaxBodyAttempts => runs[c] + 1 \in 0..(MaxBodyAttempts - 1)
      BY OperationConstants
    <3>4. CASE ToFence(c)
      BY <3>1, <3>2, <3>4 DEF ToFence, Goto
    <3>5. CASE /\ runs[c] + 1 < MaxBodyAttempts
               /\ runs' = [runs EXCEPT ![c] = @ + 1]
               /\ commits' = [commits EXCEPT ![c] = 0]
               /\ Goto(c, "claimed")
      BY <3>1, <3>2, <3>3, <3>5 DEF Goto
    <3> QED BY <3>4, <3>5 DEF RetryBody
  <2>1. CASE ClaimOperation(c)
    BY <2>1, <1>l, ApplyType DEF ClaimOperation, Goto, Owning, Rereading
  <2>2. CASE ClaimReread(c) \/ ReconcileReread(c)
    BY <2>2, <2>r, ReturnType DEF ClaimReread, ReconcileReread, dbVars
  <2>3. CASE FenceReread(c)
    BY <2>3, <2>r, <2>a, ReturnType DEF FenceReread, dbVars
  <2>4. CASE TxGuard(c) \/ TxSave(c)
    <3>1. pc' \in [Callers -> Labels]
      BY <2>4, <1>l DEF TxGuard, TxSave, Goto, Owning
    <3>2. tx' \in [Attempts -> TxStates]
      BY <2>4 DEF TxGuard, TxSave, TxStates
    <3>3. txReceipt' \in [Attempts -> Receipts \cup {NoReceipt}]
      BY <2>4 DEF TxGuard, TxSave
    <3> QED BY <2>4, <3>1, <3>2, <3>3 DEF TxGuard, TxSave
  <2>5. CASE TxConflict(c) \/ TxBodyFails(c)
    BY <2>5, <2>b DEF TxConflict, TxBodyFails, TxStates
  <2>6. CASE CommitAcknowledged(c)
    <3>1. op[c].attempt \in Attempts
      BY <2>6 DEF CommitAcknowledged, WorkerInv, Owning
    <3>2. {committed(op[c].digest, txReceipt[op[c].attempt])} \in SUBSET Answer
      BY <3>1 DEF committed, Answer, Operation, Nil
    <3> QED BY <2>6, <3>2, ReturnType DEF CommitAcknowledged, dbVars
  <2>7. CASE CommitTransient(c)
    BY <2>7, <2>b DEF CommitTransient, dbVars
  <2>8. CASE CommitUnknown(c)
    BY <2>8, OperationConstants DEF CommitUnknown, dbVars
  <2>9. CASE FenceAborted(c)
    BY <2>9, <2>a, <1>l, ReturnType, ApplyType DEF FenceAborted, Goto, Owning
  <2>10. CASE InsertTombstone(c)
    BY <2>10, <2>a, <1>l, ReturnType, ApplyType DEF InsertTombstone, Goto
  <2>11. CASE FenceExpired(c)
    BY <2>11, <2>a, <1>l, ReturnType, ApplyType DEF FenceExpired, Goto, Rereading
  <2>12. CASE ReconcileReload(c)
    <3>1. op[c].digest \in Digests \cup {NoDigest} /\ asked[c] \in Nat
      BY DEF Operation
    <3> QED BY <2>12, <3>1, LoadedType DEF ReconcileReload
  <2> QED BY <1>3, <2>1, <2>2, <2>3, <2>4, <2>5, <2>6, <2>7, <2>8, <2>9, <2>10, <2>11, <2>12
      DEF CallerStep
<1>4. ASSUME NEW w \in wire, LateApply(w)
      PROVE  TypeOK'
  <2>1. w.operation \in Operation
    BY DEF LateWrite
  <2> QED BY <1>4, <2>1, ApplyType DEF LateApply, callVars
<1>5. ASSUME NEW a \in Attempts, ServerCommit(a)
      PROVE  TypeOK'
  <2>1. row' \in Row
    BY <1>5 DEF ServerCommit, Row, RowStates
  <2>2. [attempt |-> a, digest |-> row.digest, receipt |-> txReceipt[a]] \in Effect
    BY OperationConstants DEF Effect, Row, Attempts
  <2> QED BY <1>5, <2>1, <2>2 DEF ServerCommit, TxStates, callVars
<1>6. ASSUME NEW a \in Attempts, ServerAbort(a)
      PROVE  TypeOK'
  BY <1>6 DEF ServerAbort, TxStates, callVars
<1>7. ASSUME ExpireLease
      PROVE  TypeOK'
  BY <1>7 DEF ExpireLease, Row, callVars
<1> QED BY <1>1, <1>2, <1>3, <1>4, <1>5, <1>6, <1>7 DEF Next

\* The row never disappears, never changes its digest and never loses a token,
\* and its attempt only changes when it is absent or aborted.
LEMMA RowMonotone ==
  ASSUME IInv, DatabaseStep
  PROVE  /\ Present => Present' /\ row'.digest = row.digest
         /\ row.token <= row'.token
         /\ row.state \in {"pending", "committed"} => row'.attempt = row.attempt
<1> USE DEF IInv, TypeOK, Present
<1>0. row \in Row /\ row.token \in Nat
  BY DEF Row
<1>1. CASE WriteApplied
  <2>1. ASSUME NEW o \in Operation, Outstanding("claim", o), claimMatches(o),
               row' = operationDocument("pending", o)
        PROVE  /\ Present => Present' /\ row'.digest = row.digest
               /\ row.token <= row'.token
               /\ row.state \in {"pending", "committed"} => row'.attempt = row.attempt
    <3>1. o.prev = Nil => o.token = 1
      BY <2>1 DEF ClaimInv
    <3>2. ~Present => row.token = 0
      BY DEF RowInv
    <3> QED BY <1>0, <2>1, <3>1, <3>2 DEF claimMatches, operationDocument, Operation
  <2>2. ASSUME NEW o \in Operation, Outstanding("tombstone", o), ~Present,
               row' = operationDocument("aborted", o)
        PROVE  row.token <= row'.token
    BY <1>0, <2>2 DEF operationDocument, Operation, RowInv
  <2>3. CASE row.state = "pending" /\ row' = [row EXCEPT !.state = "aborted"]
    BY <1>0, <2>3 DEF Row
  <2> QED BY <1>1, <2>1, <2>2, <2>3 DEF WriteApplied
<1>2. CASE TransactionMoved
  BY <1>0, <1>2 DEF TransactionMoved
<1>3. CASE LeaseExpired
  BY <1>0, <1>3 DEF LeaseExpired, Row
<1>4. CASE Committed
  BY <1>0, <1>4 DEF Committed, Row
<1> QED BY <1>1, <1>2, <1>3, <1>4 DEF DatabaseStep

\* An attempt whose claims are useless stays so, and no new claim gets its number.
LEMMA ClaimedStep ==
  ASSUME IInv, Next, NEW a \in Nat, Issued(a), Present, Claimed(a)
  PROVE  Issued(a)' /\ Present' /\ Claimed(a)'
<1> USE DEF IInv
<1>1. DatabaseStep
  BY DatabaseSteps
<1>2. Present' /\ row.token <= row'.token
  BY <1>1, RowMonotone
<1>3. fresh \in Nat /\ row.token \in Nat /\ TypeOK'
  BY TypeStep DEF TypeOK, Row
<1>4. row'.token \in Nat
  BY <1>3 DEF TypeOK, Row
<1>5. Issued(a)'
  <2>1. NoOperation \in Operation
    BY OperationConstants DEF NoOperation, Operation, Nil
  <2>2. fresh' \in {fresh, fresh + 1}
    BY <2>1, OutstandingSteps
  <2> QED BY <1>3, <2>2 DEF Issued
<1>6. ASSUME NEW o \in Operation, Outstanding("claim", o)', o.attempt = a
      PROVE  Stale(o)'
  <2>1. ~NewClaim(o)
    BY <1>3, <1>6, OperationConstants DEF NewClaim, Issued, Invented
  <2>2. Stale(o)
    BY <1>6, <2>1, OutstandingSteps DEF OutstandingFrame, Claimed
  <2> QED BY <1>2, <1>3, <1>4, <2>2 DEF Stale, Operation
<1> QED BY <1>2, <1>5, <1>6 DEF Claimed

\* The facts about a step that the remaining lemmas share.
LEMMA StepFacts ==
  ASSUME IInv, Next
  PROVE  /\ DatabaseStep /\ TypeOK'
         /\ fresh' \in {fresh, fresh + 1}
         /\ fresh \in Nat /\ row.token \in Nat /\ row'.token \in Nat
<1>1. DatabaseStep /\ TypeOK'
  BY DatabaseSteps, TypeStep DEF IInv
<1>2. NoOperation \in Operation
  BY OperationConstants DEF NoOperation, Operation, Nil
<1>3. fresh' \in {fresh, fresh + 1}
  BY <1>2, OutstandingSteps DEF IInv
<1> QED BY <1>1, <1>3 DEF IInv, TypeOK, Row

\* The row's attempt is issued, and its claim cannot be applied again.
LEMMA RowStep ==
  ASSUME IInv, Next
  PROVE  RowInv'
<1> USE StepFacts DEF IInv
<1>0. row \in Row /\ row' \in Row
  BY DEF TypeOK
<1>1. ASSUME Present, row'.attempt = row.attempt, row'.digest = row.digest
      PROVE  RowInv'
  <2>1. row.attempt \in Nat /\ Issued(row.attempt) /\ Claimed(row.attempt) /\ row.digest \in Digests
    BY <1>0, <1>1 DEF RowInv, Row
  <2>2. PICK a \in Nat : a = row.attempt
    BY <2>1
  <2>3. Issued(a)' /\ Present' /\ Claimed(a)'
    BY <1>1, <2>1, <2>2, ClaimedStep
  <2> QED BY <1>1, <2>1, <2>2, <2>3 DEF RowInv, Issued, Claimed
<1>2. ASSUME NEW o \in Operation, Outstanding("claim", o), claimMatches(o),
             row' = operationDocument("pending", o)
      PROVE  RowInv'
  <2>1. o.attempt \in Attempts /\ o.attempt < fresh /\ o.digest \in Digests
    BY <1>2 DEF ClaimInv
  <2>2. ASSUME NEW q \in Operation, Outstanding("claim", q)', q.attempt = o.attempt
        PROVE  Stale(q)'
    <3>1. ~NewClaim(q)
      BY <2>1, <2>2 DEF NewClaim, Attempts
    <3>2. Outstanding("claim", q)
      BY <2>2, <3>1, OutstandingSteps DEF OutstandingFrame
    <3>3. q.token = o.token
      BY <1>2, <2>2, <3>2 DEF ClaimInv
    <3> QED BY <1>2, <3>3 DEF Stale, Present, operationDocument, Operation
  <2>3. Issued(o.attempt)'
    BY <2>1 DEF Issued, Attempts, Nil
  <2> QED BY <1>2, <2>1, <2>2, <2>3 DEF RowInv, Present, operationDocument, Claimed, Issued
<1>3. ASSUME NEW o \in Operation, Outstanding("tombstone", o), ~Present,
             row' = operationDocument("aborted", o)
      PROVE  RowInv'
  <2>1. Issued(o.attempt) /\ o.digest \in Digests
    BY <1>3 DEF TombstoneInv
  <2>2. ASSUME NEW q \in Operation, Outstanding("claim", q)'
        PROVE  Stale(q)'
    <3>1. ~NewClaim(q)
      BY <1>3 DEF NewClaim, Present, operationDocument
    <3>2. q.prev = Nil
      BY <1>3, <2>2, <3>1, OutstandingSteps DEF OutstandingFrame, ClaimInv
    <3> QED BY <1>3, <3>2 DEF Stale, Present, operationDocument
  <2>3. Issued(o.attempt)'
    BY <2>1 DEF Issued, Operation
  <2> QED BY <1>3, <2>1, <2>2, <2>3 DEF RowInv, Present, operationDocument, Claimed, Issued
<1>4. ASSUME ~Present, row' = row
      PROVE  RowInv'
  BY <1>4 DEF RowInv, Present
<1>5. CASE WriteApplied
  <2>1. CASE row.state = "pending" /\ row' = [row EXCEPT !.state = "aborted"]
    BY <1>0, <1>1, <2>1 DEF Present, Row
  <2> QED BY <1>2, <1>3, <1>5, <2>1 DEF WriteApplied
<1>6. CASE TransactionMoved
  BY <1>1, <1>4, <1>6 DEF TransactionMoved
<1>7. CASE LeaseExpired
  BY <1>0, <1>1, <1>7 DEF LeaseExpired, Present, Row
<1>8. CASE Committed
  BY <1>0, <1>1, <1>8 DEF Committed, TxInv, Live, Present, Row
<1> QED BY <1>5, <1>6, <1>7, <1>8 DEF DatabaseStep

\* Outstanding claims keep their number, digest and token.
LEMMA ClaimStep ==
  ASSUME IInv, Next
  PROVE  ClaimInv'
<1> USE StepFacts DEF IInv
<1>1. Present => Present'
  BY RowMonotone
<1>2. ASSUME NEW o \in Operation, NewClaim(o)
      PROVE  /\ o.attempt \in Attempts /\ o.attempt < fresh'
             /\ o.digest \in Digests
             /\ o.prev = Nil => o.token = 1
             /\ o.prev # Nil => Present'
  <2>1. o.prev = Nil => ~Present
    BY <1>2 DEF NewClaim, RowInv, Issued
  <2>2. o.prev # Nil => Present
    BY <1>2 DEF NewClaim, RowInv
  <2>3. fresh \in Attempts
    BY <1>2 DEF NewClaim, TypeOK, Attempts
  <2> QED BY <1>1, <1>2, <2>1, <2>2, <2>3 DEF NewClaim, RowInv
<1>3. ASSUME NEW o \in Operation, Outstanding("claim", o)
      PROVE  /\ o.attempt \in Attempts /\ o.attempt < fresh /\ o.attempt < fresh'
             /\ o.digest \in Digests
             /\ o.prev = Nil => o.token = 1
             /\ o.prev # Nil => Present'
  BY <1>1, <1>3 DEF ClaimInv, Attempts
<1>4. ASSUME NEW o \in Operation, Outstanding("claim", o)',
             NEW q \in Operation, Outstanding("claim", q)', q.attempt = o.attempt
      PROVE  q.token = o.token
  <2>1. CASE NewClaim(o)
    <3>1. NewClaim(q)
      BY <1>3, <1>4, <2>1, OutstandingSteps DEF OutstandingFrame, NewClaim
    <3> QED BY <2>1, <3>1 DEF NewClaim
  <2>2. CASE ~NewClaim(o)
    <3>1. Outstanding("claim", o)
      BY <1>4, <2>2, OutstandingSteps DEF OutstandingFrame
    <3>2. ~NewClaim(q)
      BY <1>3, <1>4, <3>1 DEF NewClaim, Attempts
    <3>3. Outstanding("claim", q)
      BY <1>4, <3>2, OutstandingSteps DEF OutstandingFrame
    <3> QED BY <1>4, <3>1, <3>3 DEF ClaimInv
  <2> QED BY <2>1, <2>2
<1>5. ASSUME NEW o \in Operation, Outstanding("claim", o)'
      PROVE  Outstanding("claim", o) \/ NewClaim(o)
  BY <1>5, OutstandingSteps DEF OutstandingFrame
<1> QED BY <1>2, <1>3, <1>4, <1>5 DEF ClaimInv

\* Outstanding tombstones keep an issued attempt.
LEMMA TombstoneStep ==
  ASSUME IInv, Next
  PROVE  TombstoneInv'
<1>1. ASSUME NEW o \in Operation, Outstanding("tombstone", o)'
      PROVE  Issued(o.attempt)' /\ o.digest \in Digests /\ o.token = 1
  <2>1. Issued(o.attempt) /\ o.digest \in Digests /\ o.token = 1
    BY <1>1, OutstandingSteps DEF IInv, OutstandingFrame, TombstoneInv, NewTombstone
  <2>2. Issued(o.attempt)'
    BY <2>1, StepFacts DEF Issued, Operation
  <2> QED BY <2>1, <2>2
<1> QED BY <1>1 DEF TombstoneInv, Issued

\* A caller that won its claim keeps a row of its digest and a used-up claim.
LEMMA WorkerStep ==
  ASSUME IInv, Next
  PROVE  WorkerInv'
<1> USE StepFacts DEF IInv
<1> SUFFICES ASSUME NEW c \in Callers, pc'[c] \in Owning
             PROVE  /\ op'[c].attempt \in Attempts /\ op'[c].attempt < fresh'
                    /\ Present' /\ row'.digest = op'[c].digest
                    /\ Claimed(op[c].attempt)'
  BY DEF WorkerInv, Claimed
<1>1. op'[c] = op[c] /\ op[c] \in Operation
  BY OwnerSteps DEF OwnerFrame, TypeOK
<1>2. CASE pc[c] \in Owning
  <2>1. op[c].attempt \in Attempts /\ op[c].attempt < fresh /\ Present
        /\ row.digest = op[c].digest /\ Claimed(op[c].attempt)
    BY <1>2 DEF WorkerInv
  <2>2. PICK a \in Nat : a = op[c].attempt
    BY <1>1 DEF Operation
  <2>3. Issued(a)
    BY <2>1, <2>2 DEF Issued, Attempts, Nil
  <2>4. Claimed(a)'
    BY <2>1, <2>2, <2>3, ClaimedStep
  <2>5. Present' /\ row'.digest = row.digest
    BY <2>1, RowMonotone
  <2> QED BY <1>1, <2>1, <2>2, <2>4, <2>5 DEF Claimed, Attempts
<1>3. CASE /\ pc[c] = "claim" /\ claimMatches(op[c])
           /\ row' = operationDocument("pending", op[c])
  <2>1. Outstanding("claim", op[c])
    BY <1>3 DEF Outstanding
  <2>2. op[c].attempt \in Attempts /\ op[c].attempt < fresh
    BY <1>1, <2>1 DEF ClaimInv
  <2>3. Present' /\ row'.attempt = op[c].attempt /\ row'.digest = op[c].digest
    BY <1>3 DEF Present, operationDocument
  <2>4. Claimed(row.attempt)'
    BY <2>3, RowStep DEF RowInv
  <2> QED BY <1>1, <2>2, <2>3, <2>4 DEF Claimed, Attempts
<1> QED BY <1>2, <1>3, OwnerSteps DEF OwnerFrame

\* A caller about to re-read keeps a present row.
LEMMA RereadStep ==
  ASSUME IInv, Next
  PROVE  RereadInv'
BY StepFacts, RereadSteps, RowMonotone DEF IInv, RereadInv

\* Open transactions keep the row pending under their attempt: writes outside
\* transactions wait for them and only the holder commits.
LEMMA TxStep ==
  ASSUME IInv, Next
  PROVE  TxInv'
<1> USE StepFacts DEF IInv
<1>0. row \in Row /\ tx \in [Attempts -> TxStates]
  BY DEF TypeOK
<1>1. CASE WriteApplied
  <2>1. UNCHANGED <<tx, txReceipt>> /\ \A a \in Attempts : tx[a] \notin Live
    BY <1>1 DEF WriteApplied, RowUnlocked
  <2>2. row.state # "committed"
    BY <1>1 DEF WriteApplied, claimMatches, Present
  <2> QED BY <2>1, <2>2 DEF TxInv
<1>2. CASE TransactionMoved
  BY <1>2 DEF TransactionMoved, TxInv
<1>3. CASE LeaseExpired
  BY <1>0, <1>3 DEF LeaseExpired, TxInv, Row
<1>4. CASE Committed
  <2>1. PICK a \in Attempts :
          /\ tx[a] = "saved" /\ tx' = [tx EXCEPT ![a] = "committed"]
          /\ row' = [row EXCEPT !.state = "committed", !.receipt = txReceipt[a]]
          /\ UNCHANGED txReceipt
    BY <1>4 DEF Committed
  <2>2. row.state = "pending" /\ row.attempt = a
    BY <2>1 DEF TxInv, Live
  <2>3. \A b \in Attempts \ {a} : tx[b] \notin Live /\ tx[b] # "committed"
    BY <2>2 DEF TxInv
  <2> QED BY <1>0, <2>1, <2>2, <2>3 DEF TxInv, Live, Row
<1> QED BY <1>1, <1>2, <1>3, <1>4 DEF DatabaseStep

\* The one committed body is the one the row remembers.
LEMMA EffectStep ==
  ASSUME IInv, Next
  PROVE  EffectInv'
<1> USE StepFacts DEF IInv
<1>0. row \in Row
  BY DEF TypeOK
<1>1. CASE WriteApplied
  <2>1. row.state # "committed" /\ row'.state # "committed" /\ effects' = effects
    BY <1>0, <1>1 DEF WriteApplied, claimMatches, Present, operationDocument, Row
  <2> QED BY <2>1 DEF EffectInv
<1>2. CASE TransactionMoved
  BY <1>2 DEF TransactionMoved, EffectInv
<1>3. CASE LeaseExpired
  BY <1>0, <1>3 DEF LeaseExpired, EffectInv, Row
<1>4. CASE Committed
  <2>1. PICK a \in Attempts :
          /\ tx[a] = "saved"
          /\ row' = [row EXCEPT !.state = "committed", !.receipt = txReceipt[a]]
          /\ effects' = Append(effects, [attempt |-> a, digest |-> row.digest, receipt |-> txReceipt[a]])
    BY <1>4 DEF Committed
  <2>2. row.state = "pending" /\ row.attempt = a
    BY <2>1 DEF TxInv, Live
  <2>3. effects = <<>>
    BY <2>2 DEF EffectInv
  <2>4. row'.state = "committed" /\ row'.attempt = a /\ row'.digest = row.digest
        /\ row'.receipt = txReceipt[a]
    BY <1>0, <2>1, <2>2 DEF Row
  <2> QED BY <2>1, <2>3, <2>4 DEF EffectInv
<1> QED BY <1>1, <1>2, <1>3, <1>4 DEF DatabaseStep

\* A dead attempt stays dead: the only way back to life is a claim of its number,
\* and every such claim is stale.
LEMMA DeadStep ==
  ASSUME IInv, Next, NEW a \in Nat, Dead(a)
  PROVE  Dead(a)'
<1> USE StepFacts DEF IInv
<1>0. row \in Row
  BY DEF TypeOK
<1>1. Present' /\ Issued(a)' /\ Claimed(a)'
  BY ClaimedStep DEF Dead
<1>2. row'.attempt = a => row'.state = "aborted"
  <2>1. ASSUME row'.attempt = row.attempt, row'.state = row.state \/ row'.state = "aborted"
        PROVE  row'.attempt = a => row'.state = "aborted"
    BY <2>1 DEF Dead
  <2>2. ASSUME NEW o \in Operation, Outstanding("claim", o), claimMatches(o),
               row' = operationDocument("pending", o)
        PROVE  row'.attempt = a => row'.state = "aborted"
    <3>1. o.attempt # a
      BY <2>2 DEF Dead, Claimed, Stale, Present, claimMatches, Operation
    <3> QED BY <2>2, <3>1 DEF operationDocument
  <2>3. CASE WriteApplied
    <3>1. Present
      BY DEF Dead
    <3>2. CASE row.state = "pending" /\ row' = [row EXCEPT !.state = "aborted"]
      BY <1>0, <2>1, <3>2 DEF Row
    <3> QED BY <2>2, <2>3, <3>1, <3>2 DEF WriteApplied
  <2>4. CASE TransactionMoved
    BY <2>1, <2>4 DEF TransactionMoved
  <2>5. CASE LeaseExpired
    BY <1>0, <2>1, <2>5 DEF LeaseExpired, Row
  <2>6. CASE Committed
    BY <1>0, <2>6 DEF Committed, TxInv, Live, Dead, Row
  <2> QED BY <2>3, <2>4, <2>5, <2>6 DEF DatabaseStep
<1> QED BY <1>1, <1>2 DEF Dead

\* A committed row is final.
LEMMA CommittedRowStep ==
  ASSUME IInv, Next, row.state = "committed"
  PROVE  row' = row
BY StepFacts DEF IInv, DatabaseStep, WriteApplied, TransactionMoved, LeaseExpired, Committed,
   claimMatches, Present, TxInv, Live

\* Every answer given so far stays true of the row.
LEMMA ToldStep ==
  ASSUME IInv, Next
  PROVE  ToldInv'
<1> USE StepFacts DEF IInv
<1> SUFFICES ASSUME NEW t \in told'
             PROVE  /\ t.state = "committed" =>
                         row'.state = "committed" /\ row'.digest = t.digest /\ row'.receipt = t.receipt
                    /\ t.state = "aborted" => Dead(t.attempt)'
                    /\ t.state = "rejected" => Present' /\ row'.digest # t.digest
  BY DEF ToldInv
<1>1. t.attempt \in Nat
  BY DEF TypeOK, Answer
<1>2. CASE t \in told
  <2>1. t.state = "committed" =>
          row'.state = "committed" /\ row'.digest = t.digest /\ row'.receipt = t.receipt
    BY <1>2, CommittedRowStep DEF ToldInv
  <2>2. t.state = "aborted" => Dead(t.attempt)'
    BY <1>1, <1>2, DeadStep DEF ToldInv
  <2>3. t.state = "rejected" => Present' /\ row'.digest # t.digest
    BY <1>2, RowMonotone DEF ToldInv
  <2> QED BY <2>1, <2>2, <2>3
<1>3. CASE t \notin told
  <2>1. Justified(t)
    BY <1>3, ToldSteps
  <2>2. CASE t.state = "aborted" /\ row'.state = "aborted" /\ row'.attempt = t.attempt
    <3>1. Present' /\ Issued(row.attempt)' /\ Claimed(row.attempt)'
      BY <2>2, RowStep DEF RowInv, Present
    <3>2. Issued(t.attempt)' /\ Claimed(t.attempt)'
      BY <2>2, <3>1 DEF Issued, Claimed
    <3> QED BY <2>2, <3>1, <3>2 DEF Dead
  <2>3. CASE /\ t.state = "aborted"
             /\ row' = row /\ row.state = "aborted"
             /\ \E c \in Callers : pc[c] \in Owning /\ op[c].attempt = t.attempt
    <3>1. Present /\ Issued(t.attempt) /\ Claimed(t.attempt)
      BY <2>3 DEF WorkerInv, Issued, Attempts, Nil
    <3> QED BY <1>1, <2>3, <3>1, DeadStep DEF Dead
  <2> QED BY <2>1, <2>2, <2>3 DEF Justified, Present
<1> QED BY <1>2, <1>3

----------------------------------------------------------------------------
(* The theorems                                                            *)

\* The absent row, with nobody calling, satisfies the inductive invariant.
LEMMA InitIInv ==
  ASSUME Init
  PROVE  IInv
<1> USE OperationConstants DEF Init
<1>1. TypeOK
  BY DEF TypeOK, NoRow, Row, RowStates, TxStates, Labels, NoOperation, Operation, Nil
<1>2. \A k \in Writes, o \in Operation : ~Outstanding(k, o)
  BY DEF Outstanding, Writes
<1>3. row.state = "absent" /\ row.attempt = Nil /\ row.token = 0
  BY DEF NoRow
<1> QED BY <1>1, <1>2, <1>3 DEF IInv, RowInv, ClaimInv, TombstoneInv, WorkerInv, RereadInv,
    TxInv, EffectInv, ToldInv, Present, Owning, Rereading, Live, Writes

\* A stuttering step keeps the inductive invariant.
LEMMA StutterIInv ==
  ASSUME IInv, UNCHANGED vars
  PROVE  IInv'
<1> USE DEF vars
<1>1. \A k \in Writes, o \in Operation : Outstanding(k, o)' <=> Outstanding(k, o)
  BY DEF Outstanding
<1> QED BY <1>1 DEF IInv, TypeOK, RowInv, ClaimInv, TombstoneInv, WorkerInv, RereadInv,
    TxInv, EffectInv, ToldInv, Dead, Claimed, Stale, Issued, Present, Writes

\* The operation store keeps its inductive invariant, whatever the callers, the
\* late writes, the server and the clock do.
THEOREM Inductive == Spec => []IInv
<1>1. Init => IInv
  BY InitIInv
<1>2. IInv /\ [Next]_vars => IInv'
  <2>1. ASSUME IInv, Next
        PROVE  IInv'
    BY <2>1, StepFacts, RowStep, ClaimStep, TombstoneStep, WorkerStep, RereadStep, TxStep,
       EffectStep, ToldStep DEF IInv
  <2> QED BY <2>1, StutterIInv
<1> QED BY <1>1, <1>2, PTL DEF Spec

\* The variables keep their types: the loops of runTransaction keep to their
\* budgets and tokens never pass the largest one.
THEOREM TypeCorrect == Spec => []TypeOK
<1>1. IInv => TypeOK
  BY DEF IInv
<1> QED BY <1>1, Inductive, PTL

\* At most one body commits, and every committed answer reports that body's
\* digest and receipt.
THEOREM CommittedAgree == Spec => []CommittedAnswersAgree
<1>1. IInv => CommittedAnswersAgree
  <2> SUFFICES ASSUME IInv PROVE CommittedAnswersAgree
    OBVIOUS
  <2>1. CASE row.state # "committed"
    <3>1. effects = <<>> /\ Len(effects) = 0
      BY <2>1 DEF IInv, EffectInv
    <3> QED BY <2>1, <3>1 DEF IInv, ToldInv, CommittedAnswersAgree
  <2>2. CASE row.state = "committed"
    <3>1. effects = <<[attempt |-> row.attempt, digest |-> row.digest, receipt |-> row.receipt]>>
      BY <2>2 DEF IInv, EffectInv
    <3>2. Len(effects) = 1 /\ 1 \in DOMAIN effects
          /\ effects[1].digest = row.digest /\ effects[1].receipt = row.receipt
      BY <3>1
    <3> QED BY <3>2 DEF IInv, ToldInv, CommittedAnswersAgree
  <2> QED BY <2>1, <2>2
<1> QED BY <1>1, Inductive, PTL

\* An attempt reported aborted, by its own fence, a reconciler's fence or a
\* tombstone, never takes effect.
THEOREM AbortedFinal == Spec => []AbortedNeverCommits
<1>1. IInv => AbortedNeverCommits
  <2> SUFFICES ASSUME IInv, NEW t \in told, t.state = "aborted", NEW i \in DOMAIN effects
               PROVE  effects[i].attempt # t.attempt
    BY DEF AbortedNeverCommits
  <2>1. Dead(t.attempt)
    BY DEF IInv, ToldInv
  <2>2. row.state = "committed"
    BY DEF IInv, EffectInv
  <2>3. i = 1 /\ effects[i].attempt = row.attempt
    BY <2>2 DEF IInv, EffectInv
  <2> QED BY <2>1, <2>2, <2>3 DEF Dead
<1> QED BY <1>1, Inductive, PTL

\* A digest rejected as a mismatch never takes effect.
THEOREM RejectedFinal == Spec => []RejectedNeverCommits
<1>1. IInv => RejectedNeverCommits
  <2> SUFFICES ASSUME IInv, NEW t \in told, t.state = "rejected", NEW i \in DOMAIN effects
               PROVE  effects[i].digest # t.digest
    BY DEF RejectedNeverCommits
  <2>1. row.state = "committed"
    BY DEF IInv, EffectInv
  <2>2. i = 1 /\ effects[i].digest = row.digest
    BY <2>1 DEF IInv, EffectInv
  <2> QED BY <2>2 DEF IInv, ToldInv
<1> QED BY <1>1, Inductive, PTL

\* A transaction that can still commit belongs to the attempt the row is pending
\* under, so no fence and no claim gets past it.
THEOREM UnresolvedHolds == Spec => []UnresolvedHoldsRow
<1>1. IInv => UnresolvedHoldsRow
  BY DEF IInv, TxInv, UnresolvedHoldsRow
<1> QED BY <1>1, Inductive, PTL

\* The life of the row: committed is final, pending keeps its attempt and token,
\* and an aborted row is only taken over with the next token.
THEOREM RowLife == Spec => RowHistory
<1>1. IInv /\ [Next]_vars => [RowStepAllowed]_row
  <2> SUFFICES ASSUME IInv, Next
               PROVE  RowStepAllowed
    BY DEF vars
  <2>0. DatabaseStep /\ row \in Row
    BY StepFacts DEF IInv, TypeOK
  <2>1. row.state = "committed" => row' = row
    BY CommittedRowStep
  <2>2. row.state = "pending" => row'.attempt = row.attempt /\ row'.token = row.token
    BY <2>0 DEF DatabaseStep, WriteApplied, TransactionMoved, LeaseExpired, Committed,
       claimMatches, Present, Row
  <2>3. ASSUME row.state = "aborted"
        PROVE  row' = row \/ (row'.state = "pending" /\ row'.token = row.token + 1)
    <3>1. CASE WriteApplied
      <4>1. PICK o \in Operation : claimMatches(o) /\ row' = operationDocument("pending", o)
        BY <2>3, <3>1 DEF WriteApplied, Present
      <4>2. o.prev # Nil
        BY <2>3, <4>1 DEF claimMatches
      <4> QED BY <4>1, <4>2 DEF claimMatches, operationDocument
    <3>2. ~Committed /\ ~LeaseExpired
      BY <2>3 DEF Committed, LeaseExpired, IInv, TxInv, Live
    <3> QED BY <2>0, <3>1, <3>2 DEF DatabaseStep, TransactionMoved
  <2> QED BY <2>1, <2>2, <2>3 DEF RowStepAllowed
<1> QED BY <1>1, Inductive, PTL DEF Spec, RowHistory

\* Only an applied write can abort a pending row, and a reconciler's fence only
\* applies once the lease has run out.
THEOREM LeaseHolds == Spec => LeaseProtectsWorker
<1>1. IInv /\ [Next]_vars => [FenceAllowed]_vars
  <2> SUFFICES ASSUME IInv, Next, row.state = "pending", row.lease, row'.state = "aborted"
               PROVE  FencedByOwner
    BY DEF vars, FenceAllowed
  <2>0. row \in Row
    BY DEF IInv, TypeOK
  <2>1. ASSUME NEW k, NEW o, Apply(k, o)
        PROVE  k = "fenceAborted" /\ o.attempt = row.attempt
    BY <2>0, <2>1 DEF Apply, Matches, Written, claimMatches, operationDocument,
       operationPredicate, Row
  <2>2. ASSUME NEW c \in Callers, CallerStart(c) \/ pendingOperation(c)
        PROVE  FencedByOwner
    BY <2>2 DEF CallerStart, ExecuteUnclaimed, ExecuteClaim, ReconcileOperation,
       ReconcileLoaded, ReconcileAbsent, pendingOperation, dbVars
  <2>3. ASSUME NEW c \in Callers, CallerStep(c)
        PROVE  FencedByOwner
    <3>1. CASE ClaimOperation(c) \/ FenceAborted(c) \/ InsertTombstone(c) \/ FenceExpired(c)
      BY <2>1, <3>1 DEF ClaimOperation, FenceAborted, InsertTombstone, FenceExpired, FencedByOwner
    <3>2. CASE ClaimReread(c) \/ CommitAcknowledged(c) \/ CommitTransient(c) \/ CommitUnknown(c)
               \/ FenceReread(c) \/ ReconcileReload(c) \/ ReconcileReread(c)
      BY <3>2 DEF ClaimReread, CommitAcknowledged, CommitTransient, CommitUnknown,
         FenceReread, ReconcileReload, ReconcileLoaded, ReconcileReread, dbVars
    <3>3. CASE TxGuard(c) \/ TxConflict(c) \/ TxSave(c) \/ TxBodyFails(c)
      BY <3>3 DEF TxGuard, TxConflict, TxSave, TxBodyFails
    <3> QED BY <2>3, <3>1, <3>2, <3>3 DEF CallerStep
  <2>4. ASSUME NEW w \in wire, LateApply(w)
        PROVE  FencedByOwner
    BY <2>1, <2>4 DEF LateApply, FencedByOwner
  <2>5. ASSUME NEW a \in Attempts
        PROVE  ~ServerCommit(a) /\ ~ServerAbort(a)
    <3>1. ASSUME ServerCommit(a) PROVE FALSE
      <4>1. row'.state = "committed"
        BY <2>0, <3>1 DEF ServerCommit, Row
      <4> QED BY <4>1
    <3>2. ASSUME ServerAbort(a) PROVE FALSE
      BY <3>2 DEF ServerAbort
    <3> QED BY <3>1, <3>2
  <2>6. ~ExpireLease
    BY <2>0 DEF ExpireLease, Row
  <2> QED BY <2>2, <2>3, <2>4, <2>5, <2>6 DEF Next
<1> QED BY <1>1, Inductive, PTL DEF Spec, LeaseProtectsWorker

----------------------------------------------------------------------------
(* The operation store implements the atomic operation                     *)

\* Results are never taken back, and a step that commits a body returns none.
LEMMA PromiseSteps ==
  ASSUME Next
  PROVE  \/ effects' = effects /\ told \subseteq told'
         \/ \E a \in Attempts : ServerCommit(a)
<1>1. ASSUME NEW c \in Callers, CallerStart(c) \/ pendingOperation(c)
      PROVE  effects' = effects /\ told \subseteq told'
  BY <1>1 DEF CallerStart, ExecuteUnclaimed, ExecuteClaim, ReconcileOperation,
     ReconcileLoaded, ReconcileAbsent, pendingOperation, Return, dbVars
<1>2. ASSUME NEW c \in Callers, CallerStep(c)
      PROVE  effects' = effects /\ told \subseteq told'
  <2>1. CASE ClaimOperation(c) \/ FenceAborted(c) \/ InsertTombstone(c) \/ FenceExpired(c)
    BY <2>1 DEF ClaimOperation, FenceAborted, InsertTombstone, FenceExpired, Apply, Return
  <2>2. CASE ClaimReread(c) \/ CommitAcknowledged(c) \/ CommitTransient(c) \/ CommitUnknown(c)
             \/ FenceReread(c) \/ ReconcileReload(c) \/ ReconcileReread(c)
    BY <2>2 DEF ClaimReread, CommitAcknowledged, CommitTransient, CommitUnknown,
       FenceReread, ReconcileReload, ReconcileLoaded, ReconcileReread, Return, dbVars
  <2>3. CASE TxGuard(c) \/ TxConflict(c) \/ TxSave(c) \/ TxBodyFails(c)
    BY <2>3 DEF TxGuard, TxConflict, TxSave, TxBodyFails
  <2> QED BY <1>2, <2>1, <2>2, <2>3 DEF CallerStep
<1>3. ASSUME NEW w \in wire, LateApply(w)
      PROVE  effects' = effects /\ told \subseteq told'
  BY <1>3 DEF LateApply, Apply
<1>4. ASSUME NEW a \in Attempts, ServerAbort(a)
      PROVE  effects' = effects /\ told \subseteq told'
  BY <1>4 DEF ServerAbort
<1>5. ASSUME ExpireLease
      PROVE  effects' = effects /\ told \subseteq told'
  BY <1>5 DEF ExpireLease
<1> QED BY <1>1, <1>2, <1>3, <1>4, <1>5 DEF Next

\* Under the inductive invariant every answer given is a kept promise.
LEMMA PromisesKept == IInv => \A p \in told : Atomic!Kept(p)
<1> SUFFICES ASSUME IInv, NEW p \in told
             PROVE  Atomic!Kept(p)
  OBVIOUS
<1>1. p.state = "committed" =>
        \E i \in DOMAIN effects : effects[i].digest = p.digest /\ effects[i].receipt = p.receipt
  <2> SUFFICES ASSUME p.state = "committed"
               PROVE  1 \in DOMAIN effects /\ effects[1].digest = p.digest /\ effects[1].receipt = p.receipt
    OBVIOUS
  <2>1. effects = <<[attempt |-> row.attempt, digest |-> row.digest, receipt |-> row.receipt]>>
    BY DEF IInv, ToldInv, EffectInv
  <2> QED BY <2>1 DEF IInv, ToldInv
<1>2. ASSUME NEW i \in DOMAIN effects
      PROVE  /\ row.state = "committed"
             /\ effects[i].attempt = row.attempt /\ effects[i].digest = row.digest
  <2>1. row.state = "committed"
    BY <1>2 DEF IInv, EffectInv
  <2> QED BY <1>2, <2>1 DEF IInv, EffectInv
<1>3. p.state = "aborted" => \A i \in DOMAIN effects : effects[i].attempt # p.attempt
  BY <1>2 DEF IInv, ToldInv, Dead
<1>4. p.state = "rejected" => \A i \in DOMAIN effects : effects[i].digest # p.digest
  BY <1>2 DEF IInv, ToldInv
<1> QED BY <1>1, <1>3, <1>4 DEF Atomic!Kept

\* The operation store implements AtomicOperation: a server commit is the one
\* atomic Commit, every other step only adds promises the decision keeps.
THEOREM Refinement == Spec => ImplementsAtomic
<1>1. Init => Atomic!Init
  BY DEF Init, Atomic!Init
<1>2. IInv /\ IInv' /\ [Next]_vars => [Atomic!Next]_<<effects, told>>
  <2> SUFFICES ASSUME IInv, IInv', Next
               PROVE  Atomic!Next
    BY DEF vars
  <2>1. (\A p \in told : Atomic!Kept(p))'
    BY PromisesKept, PTL
  <2>2. CASE effects' = effects /\ told \subseteq told'
    BY <2>1, <2>2 DEF Atomic!Next, Atomic!Promise, Atomic!Kept
  <2>3. ASSUME NEW a \in Attempts, ServerCommit(a)
        PROVE  Atomic!Next
    <3>1. row.state = "pending" /\ effects = <<>> /\ told' = told
      BY <2>3 DEF ServerCommit, IInv, TxInv, EffectInv, Live
    <3>2. Len(effects') = 1
      BY <2>3, <3>1 DEF ServerCommit
    <3> QED BY <2>1, <3>1, <3>2 DEF Atomic!Next, Atomic!Commit
  <2> QED BY <2>2, <2>3, PromiseSteps
<1> QED BY <1>1, <1>2, Inductive, PTL DEF Spec, ImplementsAtomic, Atomic!Spec
=============================================================================
