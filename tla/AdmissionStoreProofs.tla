------------------------ MODULE AdmissionStoreProofs ------------------------
(***************************************************************************)
(* Proofs about AdmissionStore, for any number of callers, topics,         *)
(* transactions and requests.                                              *)
(*                                                                         *)
(* The inductive invariant IInv ties an open transaction to its snapshot   *)
(* (WriterInv), a plan to the fences it read (PlanInv, FenceInv), and what *)
(* was committed to the documents (ReceiptInv, CreatedInv, ReferenceInv).  *)
(* Only a commit touches what was committed: every other step is Quiet.    *)
(***************************************************************************)
EXTENDS AdmissionStore, TLAPS

\* A caller in a call makes a request, and expects generation zero of a topic
\* without a fence.
PlanInv ==
  \A c \in Callers : pc[c] # "idle" =>
    /\ request[c] \in Requests
    /\ \A t \in Topics \ fenced : expected[c][t] = 0

\* A caller that is not in a call expects nothing.
IdleInv == \A c \in Callers : pc[c] = "idle" => expected[c] = [t \in Topics |-> 0]

\* The snapshot of an open transaction passed the checks.
WriterInv ==
  \A c \in Callers : pc[c] = "write" =>
    /\ snap[c] \in Snapshot
    /\ request[c].topics \subseteq fenced
    /\ \A t \in request[c].topics :
         /\ <<t, request[c].tx>> \notin snap[c].applied
         /\ \A o \in found[c][t] : snap[c].outputs[t][o] = "unspent"
         /\ \A o \in Outputs[request[c].tx] : snap[c].outputs[t][o] = "absent"
         /\ snap[c].generation[t] = expected[c][t]
         /\ t \in request[c].revises /\ request[c].handoff
              => snap[c].lease[t].token = held[c][t].token

\* A topic without a fence has generation zero.
FenceInv == \A t \in Topics \ fenced : generation[t] = 0

\* A committed operation is applied in its topics, pinned its payload, left the
\* outputs it spent spent or evicted, and revised older generations only.
ReceiptInv ==
  \A s \in receipts :
    /\ \A t \in s.operation.topics : <<t, s.operation.tx>> \in applied
    /\ s.operation.tx \in pinned
    /\ \A q \in s.spends : outputs[q[1]][q[2]] # "unspent"
    /\ \A t \in s.revises : s.expected[t] < generation[t]

\* An output that is stored, or was when it was spent, was created by a
\* transaction applied in the topic: it cannot be created again.
CreatedInv ==
  \A x \in Txs, t \in Topics : \A o \in Outputs[x] :
    outputs[t][o] # "absent" \/ (\E s \in receipts : <<t, o>> \in s.spends)
      => <<t, x>> \in applied

\* Pinned payloads are ready, acknowledged operations are committed, and edges
\* come from spent outputs.
ReferenceInv ==
  /\ pinned \subseteq ready
  /\ \A o \in acked : \E s \in receipts : s.operation = o
  /\ \A e \in edges : \E s \in receipts : <<e[1], e[2]>> \in s.spends

IInv ==
  /\ TypeOK /\ PlanInv /\ IdleInv /\ WriterInv /\ FenceInv /\ ReceiptInv /\ CreatedInv /\ ReferenceInv
  /\ SpendOnce /\ AppliedOnce /\ RevisionsInLine

----------------------------------------------------------------------------
(* Steps                                                                   *)

\* What a request is.
LEMMA RequestFacts ==
  ASSUME NEW r \in Requests
  PROVE  /\ r.tx \in Txs /\ r.topics \subseteq Topics /\ r.revises \subseteq r.topics
         /\ r.context \in Contexts /\ r.evicts \subseteq Outpoints
         /\ r.handoff \in BOOLEAN /\ r.advance \in Nat \ {0}
         /\ Inputs[r.tx] \subseteq Outpoints /\ Outputs[r.tx] \subseteq Outpoints
         /\ OperationID(r) \in Operations
         /\ OperationID(r).tx = r.tx /\ OperationID(r).topics = r.topics
  <1>1. r \in Request /\ r.revises \subseteq r.topics
    BY AdmissionConstants
  <1>2. r.tx \in Txs
    BY <1>1 DEF Request
  <1>3. QED
    BY <1>1, <1>2, AdmissionConstants DEF Request, Operations, OperationID

\* What a commit finds: the documents it writes are as its snapshot had them.
LEMMA CommitFinds ==
  ASSUME IInv, NEW c \in Callers, CommitAdmission(c)
  PROVE  /\ request[c] \in Requests
         /\ request[c].tx \in ready
         /\ \A t \in request[c].topics :
              /\ <<t, request[c].tx>> \notin applied
              /\ \A o \in found[c][t] : outputs[t][o] = "unspent"
              /\ \A o \in Outputs[request[c].tx] : outputs[t][o] = "absent"
         /\ \A t \in request[c].revises : generation[t] = expected[c][t]
         /\ \A t \in request[c].revises : request[c].handoff => lease[t].token = held[c][t].token
  <1>1. pc[c] = "write" /\ WritesUnchanged(c)
    BY DEF CommitAdmission
  <1>2. request[c] \in Requests
    BY <1>1 DEF IInv, PlanInv
  <1>3. request[c].revises \subseteq request[c].topics
    BY <1>2, RequestFacts
  <1>4. \A t \in request[c].topics :
          /\ <<t, request[c].tx>> \notin snap[c].applied
          /\ \A o \in found[c][t] : snap[c].outputs[t][o] = "unspent"
          /\ \A o \in Outputs[request[c].tx] : snap[c].outputs[t][o] = "absent"
          /\ snap[c].generation[t] = expected[c][t]
          /\ t \in request[c].revises /\ request[c].handoff
               => snap[c].lease[t].token = held[c][t].token
    BY <1>1 DEF IInv, WriterInv
  <1>5. /\ request[c].tx \in ready
        /\ \A t \in request[c].topics :
             /\ \A o \in WrittenOutputs(c, t) : outputs[t][o] = snap[c].outputs[t][o]
             /\ <<t, request[c].tx>> \in applied <=> <<t, request[c].tx>> \in snap[c].applied
        /\ \A t \in request[c].revises :
             /\ generation[t] = snap[c].generation[t]
             /\ request[c].handoff => lease[t].token = snap[c].lease[t].token
    BY <1>1 DEF WritesUnchanged
  <1>6. \A t \in request[c].topics : \A o \in found[c][t] \cup Outputs[request[c].tx] :
          outputs[t][o] = snap[c].outputs[t][o]
    BY <1>5 DEF WrittenOutputs
  <1>7. \A t \in request[c].topics :
          /\ <<t, request[c].tx>> \notin applied
          /\ \A o \in found[c][t] : outputs[t][o] = "unspent"
          /\ \A o \in Outputs[request[c].tx] : outputs[t][o] = "absent"
    BY <1>4, <1>5, <1>6
  <1>8. \A t \in request[c].revises : generation[t] = expected[c][t]
    BY <1>3, <1>4, <1>5
  <1>9. ASSUME NEW t \in request[c].revises, request[c].handoff
        PROVE  lease[t].token = held[c][t].token
    <2>1. t \in request[c].topics
      BY <1>3
    <2>2. snap[c].lease[t].token = held[c][t].token
      BY <1>4, <1>9, <2>1
    <2>3. lease[t].token = snap[c].lease[t].token
      BY <1>5, <1>9
    <2>4. QED
      BY <2>2, <2>3
  <1>10. QED
    BY <1>2, <1>5, <1>7, <1>8, <1>9

\* Every step but a commit leaves what was committed alone, keeps the generations
\* and the pinned payloads, and acknowledges only what is committed.
Quiet ==
  /\ UNCHANGED <<outputs, applied, edges, receipts, pinned, generation>>
  /\ fenced \subseteq fenced'
  /\ pinned \subseteq ready'
  /\ \A o \in acked' : o \in acked \/ \E s \in receipts : s.operation = o

\* A step is quiet or it is a commit.
LEMMA QuietSteps ==
  ASSUME IInv, [Next]_vars
  PROVE  Quiet \/ \E c \in Callers : CommitAdmission(c)
  <1>1. pinned \subseteq ready
    BY DEF IInv, ReferenceInv
  <1>2. CASE UNCHANGED vars
    BY <1>1, <1>2 DEF vars, db, Quiet
  <1>3. ASSUME NEW c \in Callers, CallerStep(c)
        PROVE  Quiet \/ CommitAdmission(c)
    <2>1. ASSUME NEW r \in Requests, Submit(c, r) PROVE Quiet
      BY <1>1, <2>1 DEF Submit, db, Quiet
    <2>2. ASSUME NEW t \in Topics, IdentifyTopic(c, t) PROVE Quiet
      BY <1>1, <2>2 DEF IdentifyTopic, db, Quiet
    <2>3. ASSUME NEW t \in Topics, CurrentHistoryFence(c, t) PROVE Quiet
      BY <1>1, <2>3 DEF CurrentHistoryFence, db, Quiet
    <2>4. ASSUME NEW t \in Topics, EnsureHistoryFence(c, t) PROVE Quiet
      <3>1. generation' = generation
        <4>1. CASE t \in fenced
          BY <2>4, <4>1 DEF EnsureHistoryFence
        <4>2. CASE t \notin fenced
          <5>1. generation[t] = 0 /\ expected[c][t] = 0
            BY <2>4, <4>2 DEF IInv, FenceInv, PlanInv, EnsureHistoryFence
          <5>2. generation \in [Topics -> Nat]
            BY DEF IInv, TypeOK
          <5>3. generation' = [generation EXCEPT ![t] = 0]
            BY <2>4, <4>2, <5>1 DEF EnsureHistoryFence
          <5>4. QED
            BY <5>1, <5>2, <5>3
        <4>3. QED
          BY <4>1, <4>2
      <3>2. QED
        BY <1>1, <2>4, <3>1 DEF EnsureHistoryFence, Quiet
    <2>5. CASE publishAdmissionPayloads(c)
      BY <1>1, <2>5 DEF publishAdmissionPayloads, Quiet
    <2>6. CASE CommittedBefore(c)
      BY <1>1, <2>6 DEF CommittedBefore, db, Quiet
    <2>7. CASE applyAdmission(c)
      BY <1>1, <2>7 DEF applyAdmission, db, Quiet
    <2>8. CASE WriteConflict(c)
      BY <1>1, <2>8 DEF WriteConflict, db, Quiet
    <2>9. CASE Abandon(c)
      BY <1>1, <2>9 DEF Abandon, db, Quiet
    <2>10. QED
      BY <1>3, <2>1, <2>2, <2>3, <2>4, <2>5, <2>6, <2>7, <2>8, <2>9 DEF CallerStep
  <1>4. ASSUME NEW x \in Txs, CollectPayload(x) PROVE Quiet
    BY <1>1, <1>4 DEF CollectPayload, Quiet
  <1>5. ASSUME NEW t \in Topics, TakeLease(t) PROVE Quiet
    BY <1>1, <1>5 DEF TakeLease, Quiet
  <1>6. ASSUME NEW t \in Topics, LeaseExpires(t) PROVE Quiet
    BY <1>1, <1>6 DEF LeaseExpires, Quiet
  <1>7. QED
    BY <1>2, <1>3, <1>4, <1>5, <1>6 DEF Next

\* What a commit adds to the receipts.
LEMMA ReceiptFacts ==
  ASSUME IInv, NEW c \in Callers, CommitAdmission(c)
  PROVE  /\ makeAdmissionReceipt(c) \in Receipt
         /\ makeAdmissionReceipt(c).operation = OperationID(request[c])
         /\ makeAdmissionReceipt(c).operation.tx = request[c].tx
         /\ makeAdmissionReceipt(c).operation.topics = request[c].topics
         /\ makeAdmissionReceipt(c).spends = admissionSpends(c)
         /\ makeAdmissionReceipt(c).expected = expected[c]
         /\ makeAdmissionReceipt(c).revises = request[c].revises
  <1>1. request[c] \in Requests
    BY CommitFinds
  <1>2. /\ OperationID(request[c]) \in Operations
        /\ OperationID(request[c]).tx = request[c].tx
        /\ OperationID(request[c]).topics = request[c].topics
        /\ request[c].context \in Contexts
        /\ request[c].revises \subseteq Topics
    BY <1>1, RequestFacts
  <1>3. admissionSpends(c) \in SUBSET (Topics \X Outpoints)
    BY DEF admissionSpends
  <1>4. expected[c] \in [Topics -> Nat]
    BY DEF IInv, TypeOK
  <1>5. QED
    BY <1>2, <1>3, <1>4 DEF makeAdmissionReceipt, Receipt

----------------------------------------------------------------------------
(* Types                                                                   *)

\* The types of the database.
TypeDb ==
  /\ outputs \in [Topics -> [Outpoints -> OutputState]]
  /\ applied \subseteq Topics \X Txs
  /\ edges \subseteq Topics \X Outpoints \X Outpoints
  /\ outbox \subseteq Operations
  /\ receipts \subseteq Receipt
  /\ fenced \subseteq Topics
  /\ generation \in [Topics -> Nat]
  /\ lease \in [Topics -> Lease]
  /\ ready \subseteq Txs
  /\ pinned \subseteq Txs

\* The types of the callers.
TypeCallers ==
  /\ pc \in [Callers -> Labels]
  /\ request \in [Callers -> Requests \cup {None}]
  /\ todo \in [Callers -> SUBSET Topics]
  /\ at \in [Callers -> SUBSET Topics]
  /\ found \in [Callers -> [Topics -> SUBSET Outpoints]]
  /\ expected \in [Callers -> [Topics -> Nat]]
  /\ held \in [Callers -> [Topics -> Lease]]
  /\ snap \in [Callers -> Snapshot \cup {None}]

\* TypeOK in its two parts.
LEMMA TypeParts == TypeOK <=> TypeDb /\ TypeCallers /\ acked \subseteq Operations
  BY DEF TypeOK, TypeDb, TypeCallers

\* A commit keeps the types of the database.
LEMMA CommitTypes ==
  ASSUME IInv, NEW c \in Callers, CommitAdmission(c)
  PROVE  TypeDb'
  <1> DEFINE r == request[c]
  <1>1. /\ TypeDb /\ expected[c] \in [Topics -> Nat] /\ found[c] \in [Topics -> SUBSET Outpoints]
    BY DEF IInv, TypeOK, TypeDb
  <1>2. /\ r \in Requests /\ r.tx \in Txs /\ r.topics \subseteq Topics
        /\ r.revises \subseteq Topics /\ Outputs[r.tx] \subseteq Outpoints
        /\ OperationID(r) \in Operations /\ r.advance \in Nat
    BY CommitFinds, RequestFacts
  <1>3. writeAdmissionEffects(c)
    BY DEF CommitAdmission
  <1>4. outputs' \in [Topics -> [Outpoints -> OutputState]]
    <2>1. ASSUME NEW t \in Topics
          PROVE  writeDecisionEffects(c, t) \in [Outpoints -> OutputState]
      BY <1>1, <1>2 DEF writeDecisionEffects, TypeDb, OutputState
    <2>2. QED
      BY <1>1, <1>3, <2>1 DEF writeAdmissionEffects, TypeDb
  <1>5. applied' \subseteq Topics \X Txs
    BY <1>1, <1>2, <1>3 DEF writeAdmissionEffects, TypeDb
  <1>6. edges' \subseteq Topics \X Outpoints \X Outpoints
    <2>1. admissionEdges(c) \subseteq Topics \X Outpoints \X Outpoints
      BY <1>2 DEF admissionEdges
    <2>2. QED
      BY <1>1, <1>3, <2>1 DEF writeAdmissionEffects, TypeDb
  <1>7. outbox' \subseteq Operations
    BY <1>1, <1>2, <1>3 DEF writeAdmissionEffects, TypeDb
  <1>8. receipts' \subseteq Receipt
    BY <1>1, <1>3, ReceiptFacts DEF writeAdmissionEffects, TypeDb
  <1>9. generation' \in [Topics -> Nat]
    BY <1>1, <1>2, <1>3 DEF writeAdmissionEffects, applyHistoryUpdate, TypeDb
  <1>10. lease' \in [Topics -> Lease]
    BY <1>1, <1>2, <1>3 DEF writeAdmissionEffects, TypeDb, Lease
  <1>11. fenced' \subseteq Topics /\ ready' \subseteq Txs /\ pinned' \subseteq Txs
    BY <1>1, <1>2, <1>3 DEF writeAdmissionEffects, TypeDb
  <1>12. QED
    BY <1>4, <1>5, <1>6, <1>7, <1>8, <1>9, <1>10, <1>11 DEF TypeDb

\* The end of a call keeps the types of the callers.
LEMMA ReturnTypes ==
  ASSUME TypeCallers, NEW c \in Callers, Return(c)
  PROVE  TypeCallers'
  <1>1. NoLease \in Lease
    BY DEF NoLease, Lease
  <1>2. QED
    BY <1>1 DEF TypeCallers, Return, Goto, Labels

\* Every step keeps the types.
LEMMA TypeStep ==
  ASSUME IInv, [Next]_vars
  PROVE  TypeOK'
  <1>1. TypeDb /\ TypeCallers /\ acked \subseteq Operations
    BY TypeParts DEF IInv
  <1> SUFFICES TypeDb' /\ TypeCallers' /\ (acked \subseteq Operations)'
    BY DEF TypeOK, TypeDb, TypeCallers
  <1>2. CASE UNCHANGED vars
    BY <1>1, <1>2 DEF vars, db, plan, TypeDb, TypeCallers
  <1>3. ASSUME NEW c \in Callers, CallerStep(c)
        PROVE  TypeDb' /\ TypeCallers' /\ (acked \subseteq Operations)'
    <2>1. ASSUME NEW r \in Requests, Submit(c, r)
          PROVE  TypeDb' /\ TypeCallers' /\ (acked \subseteq Operations)'
      <3>1. r.topics \subseteq Topics
        BY RequestFacts
      <3>2. TypeDb'
        BY <1>1, <2>1 DEF Submit, db, TypeDb
      <3>3. QED
        BY <1>1, <2>1, <3>1, <3>2 DEF Submit, Goto, TypeCallers, Labels
    <2>2. ASSUME NEW t \in Topics, IdentifyTopic(c, t)
          PROVE  TypeDb' /\ TypeCallers' /\ (acked \subseteq Operations)'
      <3>1. Inputs[request[c].tx] \subseteq Outpoints
        BY <2>2, RequestFacts DEF IInv, PlanInv, IdentifyTopic
      <3>2. TypeDb'
        BY <1>1, <2>2 DEF IdentifyTopic, db, TypeDb
      <3>3. found' \in [Callers -> [Topics -> SUBSET Outpoints]]
        BY <1>1, <2>2, <3>1 DEF IdentifyTopic, TypeCallers
      <3>4. todo' \in [Callers -> SUBSET Topics]
        BY <1>1, <2>2 DEF IdentifyTopic, TypeCallers
      <3>5. QED
        BY <1>1, <2>2, <3>2, <3>3, <3>4 DEF IdentifyTopic, TypeCallers
    <2>3. ASSUME NEW t \in Topics, CurrentHistoryFence(c, t)
          PROVE  TypeDb' /\ TypeCallers' /\ (acked \subseteq Operations)'
      <3>1. TypeDb'
        BY <1>1, <2>3 DEF CurrentHistoryFence, db, TypeDb
      <3>2. generation[t] \in Nat /\ lease[t] \in Lease
        BY <1>1 DEF TypeDb
      <3>3. QED
        BY <1>1, <2>3, <3>1, <3>2 DEF CurrentHistoryFence, Goto, TypeCallers, Labels
    <2>4. ASSUME NEW t \in Topics, EnsureHistoryFence(c, t)
          PROVE  TypeDb' /\ TypeCallers' /\ (acked \subseteq Operations)'
      <3>1. expected[c][t] \in Nat
        BY <1>1 DEF TypeCallers
      <3>2. TypeDb'
        BY <1>1, <2>4, <3>1 DEF EnsureHistoryFence, TypeDb
      <3>3. QED
        BY <1>1, <2>4, <3>2 DEF EnsureHistoryFence, Goto, TypeCallers, Labels
    <2>5. CASE publishAdmissionPayloads(c)
      <3>1. request[c].tx \in Txs /\ request[c].topics \subseteq Topics
        BY <2>5, RequestFacts DEF IInv, PlanInv, publishAdmissionPayloads
      <3>2. TypeDb'
        BY <1>1, <2>5, <3>1 DEF publishAdmissionPayloads, TypeDb
      <3>3. QED
        BY <1>1, <2>5, <3>1, <3>2 DEF publishAdmissionPayloads, Goto, TypeCallers, Labels
    <2>6. CASE CommittedBefore(c)
      <3>1. TypeDb'
        BY <1>1, <2>6 DEF CommittedBefore, db, TypeDb
      <3>2. \A s \in receipts : s.operation \in Operations
        BY <1>1 DEF TypeDb, Receipt
      <3>3. QED
        BY <1>1, <2>6, <3>1, <3>2, ReturnTypes DEF CommittedBefore
    <2>7. CASE applyAdmission(c)
      <3>1. TypeDb'
        BY <1>1, <2>7 DEF applyAdmission, db, TypeDb
      <3>2. CASE Return(c)
        BY <1>1, <2>7, <3>1, <3>2, ReturnTypes DEF applyAdmission
      <3>3. CASE ~Return(c)
        <4>1. /\ Goto(c, "write") /\ UNCHANGED plan /\ acked' = acked
              /\ snap' = [snap EXCEPT ![c] = [outputs |-> outputs, applied |-> applied,
                                              generation |-> generation, lease |-> lease]]
          BY <2>7, <3>3 DEF applyAdmission
        <4>2. [outputs |-> outputs, applied |-> applied,
               generation |-> generation, lease |-> lease] \in Snapshot
          BY <1>1 DEF TypeDb, Snapshot
        <4>3. QED
          BY <1>1, <3>1, <4>1, <4>2 DEF Goto, plan, TypeCallers, Labels
      <3>4. QED
        BY <3>2, <3>3
    <2>8. CASE CommitAdmission(c)
      <3>1. OperationID(request[c]) \in Operations
        BY <2>8, CommitFinds, RequestFacts
      <3>2. QED
        BY <1>1, <2>8, <3>1, CommitTypes, ReturnTypes DEF CommitAdmission
    <2>9. CASE WriteConflict(c)
      <3>1. TypeDb'
        BY <1>1, <2>9 DEF WriteConflict, db, TypeDb
      <3>2. QED
        BY <1>1, <2>9, <3>1 DEF WriteConflict, Goto, plan, TypeCallers, Labels
    <2>10. CASE Abandon(c)
      <3>1. TypeDb'
        BY <1>1, <2>10 DEF Abandon, db, TypeDb
      <3>2. QED
        BY <1>1, <2>10, <3>1, ReturnTypes DEF Abandon
    <2>11. QED
      BY <1>3, <2>1, <2>2, <2>3, <2>4, <2>5, <2>6, <2>7, <2>8, <2>9, <2>10 DEF CallerStep
  <1>4. ASSUME NEW x \in Txs, CollectPayload(x)
        PROVE  TypeDb' /\ TypeCallers' /\ (acked \subseteq Operations)'
    BY <1>1, <1>4 DEF CollectPayload, plan, TypeDb, TypeCallers
  <1>5. ASSUME NEW t \in Topics, TakeLease(t)
        PROVE  TypeDb' /\ TypeCallers' /\ (acked \subseteq Operations)'
    <2>1. lease' \in [Topics -> Lease]
      BY <1>1, <1>5 DEF TakeLease, TypeDb, Lease
    <2>2. QED
      BY <1>1, <1>5, <2>1 DEF TakeLease, plan, TypeDb, TypeCallers
  <1>6. ASSUME NEW t \in Topics, LeaseExpires(t)
        PROVE  TypeDb' /\ TypeCallers' /\ (acked \subseteq Operations)'
    <2>1. lease' \in [Topics -> Lease]
      BY <1>1, <1>6 DEF LeaseExpires, TypeDb, Lease
    <2>2. QED
      BY <1>1, <1>6, <2>1 DEF LeaseExpires, plan, TypeDb, TypeCallers
  <1>7. QED
    BY <1>2, <1>3, <1>4, <1>5, <1>6 DEF Next

----------------------------------------------------------------------------
(* Plans and open transactions                                             *)

\* Every step leaves a caller d where it is with its plan and its snapshot, ends
\* its call, or is a step of d that builds the plan or opens the transaction.
Same(d) ==
  /\ pc'[d] = pc[d] /\ request'[d] = request[d] /\ found'[d] = found[d]
  /\ expected'[d] = expected[d] /\ held'[d] = held[d] /\ snap'[d] = snap[d]

Ended(d) == pc'[d] = "idle" /\ expected'[d] = [t \in Topics |-> 0]

Building(d) ==
  /\ pc'[d] \notin {"idle", "write"}
  /\ request'[d] \in Requests
  /\ \A t \in Topics \ fenced : expected'[d][t] = 0

Opening(d) ==
  /\ pc[d] = "commit" /\ pc'[d] = "write"
  /\ request'[d] = request[d] /\ found'[d] = found[d]
  /\ expected'[d] = expected[d] /\ held'[d] = held[d]
  /\ snap'[d] = [outputs |-> outputs, applied |-> applied,
                 generation |-> generation, lease |-> lease]
  /\ \E clock \in Clocks : validateAdmission(d, clock)

\* The end of a call is the end of that call only.
LEMMA ReturnSteps ==
  ASSUME TypeCallers, NEW c \in Callers, Return(c), NEW d \in Callers
  PROVE  Same(d) \/ Ended(d)
  <1>1. CASE d = c
    BY <1>1 DEF Return, Goto, TypeCallers, Ended
  <1>2. CASE d # c
    BY <1>2 DEF Return, Goto, TypeCallers, Same
  <1>3. QED
    BY <1>1, <1>2

\* The steps of one caller as another, or the same, sees them.
LEMMA CallerSteps ==
  ASSUME IInv, NEW c \in Callers, CallerStep(c), NEW d \in Callers
  PROVE  Same(d) \/ Ended(d) \/ Building(d) \/ Opening(d)
  <1>1. TypeCallers
    BY TypeParts DEF IInv
  <1>2. /\ pc[c] # "idle" => /\ request[c] \in Requests
                             /\ \A t \in Topics \ fenced : expected[c][t] = 0
        /\ \A t \in Topics \ fenced : generation[t] = 0
    BY DEF IInv, PlanInv, FenceInv
  <1>3. ASSUME NEW r \in Requests, Submit(c, r)
        PROVE  Same(d) \/ Building(d)
    <2>1. CASE d = c
      <3>1. pc'[c] = "identify" /\ request'[c] = r /\ expected'[c] = expected[c]
        BY <1>1, <1>3 DEF Submit, Goto, TypeCallers
      <3>2. expected[c] = [t \in Topics |-> 0]
        BY <1>3 DEF IInv, IdleInv, Submit
      <3>3. QED
        BY <2>1, <3>1, <3>2 DEF Building
    <2>2. CASE d # c
      BY <1>1, <1>3, <2>2 DEF Submit, Goto, TypeCallers, Same
    <2>3. QED
      BY <2>1, <2>2
  <1>4. ASSUME NEW t \in Topics, IdentifyTopic(c, t)
        PROVE  Same(d) \/ Building(d)
    <2>1. CASE d = c
      BY <1>1, <1>2, <1>4, <2>1 DEF IdentifyTopic, TypeCallers, Building
    <2>2. CASE d # c
      BY <1>1, <1>4, <2>2 DEF IdentifyTopic, TypeCallers, Same
    <2>3. QED
      BY <2>1, <2>2
  <1>5. ASSUME NEW t \in Topics, CurrentHistoryFence(c, t)
        PROVE  Same(d) \/ Building(d)
    <2>1. CASE d = c
      <3>1. pc'[c] = "ensure" /\ request'[c] = request[c] /\ pc[c] # "idle"
        BY <1>1, <1>5 DEF CurrentHistoryFence, Goto, TypeCallers
      <3>2. expected'[c] = [expected[c] EXCEPT ![t] = generation[t]]
        BY <1>1, <1>5 DEF CurrentHistoryFence, TypeCallers
      <3>3. expected[c] \in [Topics -> Nat]
        BY <1>1 DEF TypeCallers
      <3>4. QED
        BY <1>2, <2>1, <3>1, <3>2, <3>3 DEF Building
    <2>2. CASE d # c
      BY <1>1, <1>5, <2>2 DEF CurrentHistoryFence, Goto, TypeCallers, Same
    <2>3. QED
      BY <2>1, <2>2
  <1>6. ASSUME NEW t \in Topics, EnsureHistoryFence(c, t)
        PROVE  Same(d) \/ Building(d)
    <2>1. CASE d = c
      BY <1>1, <1>2, <1>6, <2>1 DEF EnsureHistoryFence, Goto, TypeCallers, Building
    <2>2. CASE d # c
      BY <1>1, <1>6, <2>2 DEF EnsureHistoryFence, Goto, TypeCallers, Same
    <2>3. QED
      BY <2>1, <2>2
  <1>7. CASE publishAdmissionPayloads(c)
    <2>1. CASE d = c
      BY <1>1, <1>2, <1>7, <2>1 DEF publishAdmissionPayloads, Goto, TypeCallers, Building
    <2>2. CASE d # c
      BY <1>1, <1>7, <2>2 DEF publishAdmissionPayloads, Goto, TypeCallers, Same
    <2>3. QED
      BY <2>1, <2>2
  <1>8. CASE CommittedBefore(c) \/ CommitAdmission(c) \/ Abandon(c)
    <2>1. Return(c)
      BY <1>8 DEF CommittedBefore, CommitAdmission, Abandon
    <2>2. QED
      BY <1>1, <2>1, ReturnSteps
  <1>9. CASE applyAdmission(c)
    <2>1. CASE Return(c)
      BY <1>1, <2>1, ReturnSteps
    <2>2. CASE ~Return(c)
      <3>1. PICK clock \in Clocks :
              /\ validateAdmission(c, clock)
              /\ Goto(c, "write")
              /\ snap' = [snap EXCEPT ![c] = [outputs |-> outputs, applied |-> applied,
                                              generation |-> generation, lease |-> lease]]
              /\ UNCHANGED plan
        BY <1>9, <2>2 DEF applyAdmission
      <3>2. pc[c] = "commit"
        BY <1>9 DEF applyAdmission
      <3>3. CASE d = c
        <4>1. /\ pc'[c] = "write"
              /\ snap'[c] = [outputs |-> outputs, applied |-> applied,
                             generation |-> generation, lease |-> lease]
          BY <1>1, <3>1 DEF Goto, TypeCallers
        <4>2. QED
          BY <3>1, <3>2, <3>3, <4>1 DEF plan, Opening
      <3>4. CASE d # c
        BY <1>1, <3>1, <3>4 DEF Goto, plan, TypeCallers, Same
      <3>5. QED
        BY <3>3, <3>4
    <2>3. QED
      BY <2>1, <2>2
  <1>10. CASE WriteConflict(c)
    <2>1. CASE d = c
      BY <1>1, <1>2, <1>10, <2>1 DEF WriteConflict, Goto, plan, TypeCallers, Building
    <2>2. CASE d # c
      BY <1>1, <1>10, <2>2 DEF WriteConflict, Goto, plan, TypeCallers, Same
    <2>3. QED
      BY <2>1, <2>2
  <1>11. QED
    BY <1>3, <1>4, <1>5, <1>6, <1>7, <1>8, <1>9, <1>10 DEF CallerStep

\* The same for every step.
LEMMA PlanSteps ==
  ASSUME IInv, [Next]_vars, NEW d \in Callers
  PROVE  Same(d) \/ Ended(d) \/ Building(d) \/ Opening(d)
  <1>1. CASE UNCHANGED vars
    BY <1>1 DEF vars, plan, Same
  <1>2. ASSUME NEW c \in Callers, CallerStep(c)
        PROVE  Same(d) \/ Ended(d) \/ Building(d) \/ Opening(d)
    BY <1>2, CallerSteps
  <1>3. ASSUME NEW x \in Txs, CollectPayload(x) PROVE Same(d)
    BY <1>3 DEF CollectPayload, plan, Same
  <1>4. ASSUME NEW t \in Topics, TakeLease(t) \/ LeaseExpires(t) PROVE Same(d)
    BY <1>4 DEF TakeLease, LeaseExpires, plan, Same
  <1>5. QED
    BY <1>1, <1>2, <1>3, <1>4 DEF Next

\* Fences are never removed.
LEMMA FencesStay ==
  ASSUME IInv, [Next]_vars
  PROVE  fenced \subseteq fenced'
  BY QuietSteps DEF Quiet, CommitAdmission, writeAdmissionEffects

\* Every step keeps what is known of plans.
LEMMA PlanStep ==
  ASSUME IInv, [Next]_vars
  PROVE  PlanInv' /\ IdleInv'
  <1>1. fenced \subseteq fenced'
    BY FencesStay
  <1>2. ASSUME NEW d \in Callers
        PROVE  /\ pc'[d] # "idle" => /\ request'[d] \in Requests
                                     /\ \A t \in Topics \ fenced' : expected'[d][t] = 0
               /\ pc'[d] = "idle" => expected'[d] = [t \in Topics |-> 0]
    <2>1. CASE Same(d)
      BY <1>1, <2>1 DEF IInv, PlanInv, IdleInv, Same
    <2>2. CASE Ended(d)
      BY <2>2 DEF Ended
    <2>3. CASE Building(d)
      BY <1>1, <2>3 DEF Building
    <2>4. CASE Opening(d)
      BY <1>1, <2>4 DEF IInv, PlanInv, Opening
    <2>5. QED
      BY <2>1, <2>2, <2>3, <2>4, PlanSteps
  <1>3. QED
    BY <1>2 DEF PlanInv, IdleInv

\* Every step keeps what is known of open transactions.
LEMMA WriterStep ==
  ASSUME IInv, [Next]_vars
  PROVE  WriterInv'
  <1> SUFFICES ASSUME NEW d \in Callers, pc'[d] = "write"
               PROVE  /\ snap'[d] \in Snapshot
                      /\ request'[d].topics \subseteq fenced'
                      /\ \A t \in request'[d].topics :
                           /\ <<t, request'[d].tx>> \notin snap'[d].applied
                           /\ \A o \in found'[d][t] : snap'[d].outputs[t][o] = "unspent"
                           /\ \A o \in Outputs[request'[d].tx] : snap'[d].outputs[t][o] = "absent"
                           /\ snap'[d].generation[t] = expected'[d][t]
                           /\ t \in request'[d].revises /\ request'[d].handoff
                                => snap'[d].lease[t].token = held'[d][t].token
    BY DEF WriterInv
  <1>1. CASE Same(d)
    BY <1>1, FencesStay DEF IInv, WriterInv, Same
  <1>2. CASE Opening(d)
    <2>1. TypeDb
      BY TypeParts DEF IInv
    <2>2. /\ snap'[d] \in Snapshot
          /\ snap'[d].outputs = outputs /\ snap'[d].applied = applied
          /\ snap'[d].generation = generation /\ snap'[d].lease = lease
      BY <1>2, <2>1 DEF Opening, TypeDb, Snapshot
    <2>3. /\ request'[d] = request[d] /\ found'[d] = found[d]
          /\ expected'[d] = expected[d] /\ held'[d] = held[d]
      BY <1>2 DEF Opening
    <2>4. PICK clock \in Clocks : validateAdmission(d, clock)
      BY <1>2 DEF Opening
    <2>5. ASSUME NEW t \in request[d].topics
          PROVE  /\ t \in fenced
                 /\ <<t, request[d].tx>> \notin applied
                 /\ \A o \in found[d][t] : outputs[t][o] = "unspent"
                 /\ \A o \in Outputs[request[d].tx] : outputs[t][o] = "absent"
                 /\ generation[t] = expected[d][t]
                 /\ t \in request[d].revises /\ request[d].handoff
                      => lease[t].token = held[d][t].token
      <3>1. validateDecisionState(d, t, clock)
        BY <2>4 DEF validateAdmission
      <3>2. t \in request[d].revises /\ request[d].handoff => validateHandoff(d, t, clock)
        BY <3>1 DEF validateDecisionState
      <3>3. t \in request[d].revises /\ request[d].handoff
              => lease[t].token = held[d][t].token
        BY <3>2 DEF validateHandoff
      <3>4. QED
        BY <3>1, <3>3 DEF validateDecisionState
    <2>6. request'[d].topics \subseteq fenced'
      BY <2>3, <2>5, FencesStay
    <2>7. ASSUME NEW t \in request'[d].topics
          PROVE  /\ <<t, request'[d].tx>> \notin snap'[d].applied
                 /\ \A o \in found'[d][t] : snap'[d].outputs[t][o] = "unspent"
                 /\ \A o \in Outputs[request'[d].tx] : snap'[d].outputs[t][o] = "absent"
                 /\ snap'[d].generation[t] = expected'[d][t]
      BY <2>2, <2>3, <2>5
    <2>8. ASSUME NEW t \in request'[d].topics, t \in request'[d].revises, request'[d].handoff
          PROVE  snap'[d].lease[t].token = held'[d][t].token
      <3>1. request[d].handoff /\ t \in request[d].revises /\ t \in request[d].topics
        BY <2>3, <2>8
      <3>2. lease[t].token = held[d][t].token
        BY <2>5, <3>1
      <3>3. QED
        BY <2>2, <2>3, <3>2
    <2>9. QED
      BY <2>2, <2>6, <2>7, <2>8
  <1>3. QED
    BY <1>1, <1>2, PlanSteps DEF Ended, Building

\* Every step keeps what is known of topics without a fence.
LEMMA FenceStep ==
  ASSUME IInv, [Next]_vars
  PROVE  FenceInv'
  <1>1. fenced \subseteq fenced'
    BY FencesStay
  <1>2. CASE Quiet
    BY <1>1, <1>2 DEF IInv, FenceInv, Quiet
  <1>3. ASSUME NEW c \in Callers, CommitAdmission(c) PROVE FenceInv'
    <2>1. request[c] \in Requests /\ pc[c] = "write"
      BY <1>3, CommitFinds DEF CommitAdmission
    <2>2. request[c].revises \subseteq fenced
      BY <2>1, RequestFacts DEF IInv, WriterInv
    <2>3. generation' = [t \in Topics |-> applyHistoryUpdate(c, t)]
      BY <1>3 DEF CommitAdmission, writeAdmissionEffects
    <2>4. QED
      BY <1>1, <2>2, <2>3 DEF IInv, FenceInv, applyHistoryUpdate
  <1>4. QED
    BY <1>2, <1>3, QuietSteps

----------------------------------------------------------------------------
(* What was committed                                                      *)

\* What a commit changes of the documents and of the receipts.
LEMMA CommitWrites ==
  ASSUME IInv, NEW c \in Callers, CommitAdmission(c)
  PROVE  /\ outputs' = [t \in Topics |-> IF t \in request[c].topics THEN writeDecisionEffects(c, t)
                                         ELSE outputs[t]]
         /\ applied' = applied \cup (request[c].topics \X {request[c].tx})
         /\ edges' = edges \cup admissionEdges(c)
         /\ receipts' = receipts \cup {makeAdmissionReceipt(c)}
         /\ generation' = [t \in Topics |-> applyHistoryUpdate(c, t)]
         /\ pinned' = pinned \cup {request[c].tx}
         /\ ready' = ready
         /\ acked' \subseteq acked \cup {OperationID(request[c])}
  BY DEF CommitAdmission, writeAdmissionEffects

\* The spends of a commit are of outputs that it found unspent.
LEMMA CommitSpends ==
  ASSUME IInv, NEW c \in Callers, CommitAdmission(c), NEW q \in admissionSpends(c)
  PROVE  /\ q \in Topics \X Outpoints
         /\ outputs[q[1]][q[2]] = "unspent"
         /\ q[1] \in request[c].topics
         /\ q[2] \notin Outputs[request[c].tx]
  <1>1. q \in Topics \X Outpoints /\ q[1] \in request[c].topics /\ q[2] \in found[c][q[1]]
    BY DEF admissionSpends
  <1>2. \A t \in request[c].topics :
          /\ \A o \in found[c][t] : outputs[t][o] = "unspent"
          /\ \A o \in Outputs[request[c].tx] : outputs[t][o] = "absent"
    BY CommitFinds
  <1>3. outputs[q[1]][q[2]] = "unspent"
    BY <1>1, <1>2
  <1>4. q[2] \in Outputs[request[c].tx] => outputs[q[1]][q[2]] = "absent"
    BY <1>1, <1>2
  <1>5. QED
    BY <1>1, <1>3, <1>4

\* The outputs after a commit: new ones are unspent, the ones it spent are not.
LEMMA CommitOutputs ==
  ASSUME IInv, NEW c \in Callers, CommitAdmission(c), NEW t \in Topics, NEW o \in Outpoints
  PROVE  /\ outputs'[t][o] = "unspent" =>
              \/ t \in request[c].topics /\ o \in Outputs[request[c].tx]
              \/ outputs[t][o] = "unspent" /\ <<t, o>> \notin admissionSpends(c)
         /\ outputs'[t][o] # "absent" =>
              \/ t \in request[c].topics /\ o \in Outputs[request[c].tx]
              \/ outputs[t][o] # "absent"
  <1>1. request[c] \in Requests /\ request[c].tx \in Txs
    BY CommitFinds, RequestFacts
  <1>2. request[c].tx # "unspent"
    BY <1>1, AdmissionConstants
  <1>3. \A q \in admissionSpends(c) :
          q[1] \in request[c].topics /\ outputs[q[1]][q[2]] = "unspent"
    BY CommitSpends
  <1>4. CASE t \in request[c].topics
    <2>1. outputs'[t] = writeDecisionEffects(c, t)
      BY <1>4, CommitWrites
    <2>2. outputs'[t][o] = IF o \in Outputs[request[c].tx] THEN "unspent"
                           ELSE IF o \in request[c].evicts THEN "absent"
                           ELSE IF <<t, o>> \in admissionSpends(c) THEN request[c].tx
                           ELSE outputs[t][o]
      BY <2>1 DEF writeDecisionEffects
    <2>3. <<t, o>> \in admissionSpends(c) => outputs[t][o] = "unspent"
      BY <1>3
    <2>4. QED
      BY <1>2, <1>4, <2>2, <2>3
  <1>5. CASE t \notin request[c].topics
    <2>1. outputs'[t] = outputs[t]
      BY <1>5, CommitWrites
    <2>2. <<t, o>> \notin admissionSpends(c)
      BY <1>3, <1>5
    <2>3. QED
      BY <2>1, <2>2
  <1>6. QED
    BY <1>4, <1>5

\* No transaction's outputs are spent before it is applied.
LEMMA NotSpentYet ==
  ASSUME IInv, NEW c \in Callers, CommitAdmission(c), NEW s \in receipts, NEW q \in s.spends,
         q[1] \in request[c].topics
  PROVE  q[2] \notin Outputs[request[c].tx]
  <1>1. s \in Receipt
    BY DEF IInv, TypeOK
  <1>2. q \in Topics \X Outpoints /\ q = <<q[1], q[2]>>
    BY <1>1 DEF Receipt
  <1>3. request[c].tx \in Txs /\ <<q[1], request[c].tx>> \notin applied
    BY CommitFinds, RequestFacts
  <1>4. \A o \in Outputs[request[c].tx] : ~ (\E z \in receipts : <<q[1], o>> \in z.spends)
    BY <1>2, <1>3 DEF IInv, CreatedInv
  <1>5. <<q[1], q[2]>> \in s.spends
    BY <1>2
  <1>6. QED
    BY <1>4, <1>5

\* A commit keeps what is known of receipts.
LEMMA ReceiptStep ==
  ASSUME IInv, [Next]_vars
  PROVE  ReceiptInv'
  <1>1. CASE Quiet
    BY <1>1 DEF IInv, ReceiptInv, Quiet
  <1>2. ASSUME NEW c \in Callers, CommitAdmission(c) PROVE ReceiptInv'
    <2>1. TypeOK /\ ReceiptInv
      BY DEF IInv
    <2>2. /\ request[c] \in Requests /\ request[c].tx \in Txs
          /\ request[c].revises \subseteq Topics /\ request[c].advance \in Nat \ {0}
          /\ \A t \in request[c].revises : generation[t] = expected[c][t]
      BY <1>2, CommitFinds, RequestFacts
    <2>3. \A t \in Topics : /\ generation'[t] \in Nat /\ generation[t] \in Nat
                            /\ generation[t] <= generation'[t]
                            /\ t \in request[c].revises => expected[c][t] < generation'[t]
      <3>1. generation \in [Topics -> Nat] /\ expected[c] \in [Topics -> Nat]
        BY <2>1 DEF TypeOK
      <3>2. QED
        BY <1>2, <2>2, <3>1, CommitWrites DEF applyHistoryUpdate
    <2>4. ASSUME NEW s \in receipts
          PROVE  /\ \A t \in s.operation.topics : <<t, s.operation.tx>> \in applied'
                 /\ s.operation.tx \in pinned'
                 /\ \A q \in s.spends : outputs'[q[1]][q[2]] # "unspent"
                 /\ \A t \in s.revises : s.expected[t] < generation'[t]
      <3>1. s \in Receipt
        BY <2>1 DEF TypeOK
      <3>2. s.spends \subseteq Topics \X Outpoints /\ s.revises \subseteq Topics
            /\ s.expected \in [Topics -> Nat]
        BY <3>1 DEF Receipt
      <3>3. /\ \A t \in s.operation.topics : <<t, s.operation.tx>> \in applied'
            /\ s.operation.tx \in pinned'
        BY <1>2, <2>1, CommitWrites DEF ReceiptInv
      <3>4. ASSUME NEW q \in s.spends PROVE outputs'[q[1]][q[2]] # "unspent"
        <4>1. q[1] \in Topics /\ q[2] \in Outpoints /\ outputs[q[1]][q[2]] # "unspent"
          BY <2>1, <3>2 DEF ReceiptInv
        <4>2. q[1] \in request[c].topics => q[2] \notin Outputs[request[c].tx]
          BY <1>2, NotSpentYet
        <4>3. QED
          BY <1>2, <4>1, <4>2, CommitOutputs
      <3>5. ASSUME NEW t \in s.revises PROVE s.expected[t] < generation'[t]
        <4>1. t \in Topics /\ s.expected[t] \in Nat /\ s.expected[t] < generation[t]
          BY <2>1, <3>2 DEF ReceiptInv
        <4>2. QED
          BY <2>3, <4>1
      <3>6. QED
        BY <3>3, <3>4, <3>5
    <2>5. /\ \A t \in request[c].topics : <<t, request[c].tx>> \in applied'
          /\ request[c].tx \in pinned'
          /\ \A q \in admissionSpends(c) : outputs'[q[1]][q[2]] # "unspent"
          /\ \A t \in request[c].revises : expected[c][t] < generation'[t]
      <3>1. /\ \A t \in request[c].topics : <<t, request[c].tx>> \in applied'
            /\ request[c].tx \in pinned'
        BY <1>2, CommitWrites
      <3>2. ASSUME NEW q \in admissionSpends(c) PROVE outputs'[q[1]][q[2]] # "unspent"
        <4>1. /\ q \in Topics \X Outpoints /\ q = <<q[1], q[2]>>
              /\ q[2] \notin Outputs[request[c].tx]
          BY <1>2, CommitSpends
        <4>2. QED
          BY <1>2, <4>1, CommitOutputs
      <3>3. QED
        BY <2>2, <2>3, <3>1, <3>2
    <2>6. ASSUME NEW s \in receipts'
          PROVE  /\ \A t \in s.operation.topics : <<t, s.operation.tx>> \in applied'
                 /\ s.operation.tx \in pinned'
                 /\ \A q \in s.spends : outputs'[q[1]][q[2]] # "unspent"
                 /\ \A t \in s.revises : s.expected[t] < generation'[t]
      <3>1. CASE s \in receipts
        BY <2>4, <3>1
      <3>2. CASE s = makeAdmissionReceipt(c)
        BY <1>2, <2>5, <3>2, ReceiptFacts
      <3>3. QED
        BY <1>2, <3>1, <3>2, CommitWrites
    <2>7. QED
      BY <2>6 DEF ReceiptInv
  <1>3. QED
    BY <1>1, <1>2, QuietSteps

\* Every step keeps what is known of stored outputs.
LEMMA CreatedStep ==
  ASSUME IInv, [Next]_vars
  PROVE  CreatedInv'
  <1>1. CASE Quiet
    BY <1>1 DEF IInv, CreatedInv, Quiet
  <1>2. ASSUME NEW c \in Callers, CommitAdmission(c) PROVE CreatedInv'
    <2> SUFFICES ASSUME NEW x \in Txs, NEW t \in Topics, NEW o \in Outputs[x],
                        outputs'[t][o] # "absent" \/ (\E s \in receipts' : <<t, o>> \in s.spends)
                 PROVE  <<t, x>> \in applied'
      BY DEF CreatedInv
    <2>1. applied \subseteq applied'
      BY <1>2, CommitWrites
    <2>2. o \in Outpoints
      BY AdmissionConstants
    <2>3. CASE outputs[t][o] # "absent" \/ (\E s \in receipts : <<t, o>> \in s.spends)
      BY <2>1, <2>3 DEF IInv, CreatedInv
    <2>4. CASE t \in request[c].topics /\ o \in Outputs[request[c].tx]
      <3>1. request[c].tx \in Txs
        BY <1>2, CommitFinds, RequestFacts
      <3>2. x = request[c].tx
        BY <2>4, <3>1, AdmissionConstants
      <3>3. QED
        BY <1>2, <2>4, <3>2, CommitWrites
    <2>5. CASE outputs'[t][o] # "absent"
      BY <1>2, <2>2, <2>3, <2>4, <2>5, CommitOutputs
    <2>6. CASE \E s \in receipts' : <<t, o>> \in s.spends
      <3>1. PICK s \in receipts' : <<t, o>> \in s.spends
        BY <2>6
      <3>2. CASE s \in receipts
        BY <2>3, <3>1, <3>2
      <3>3. CASE s = makeAdmissionReceipt(c)
        <4>1. <<t, o>> \in admissionSpends(c)
          BY <1>2, <3>1, <3>3, ReceiptFacts
        <4>2. outputs[t][o] = "unspent"
          BY <1>2, <4>1, CommitSpends
        <4>3. QED
          BY <2>3, <4>2
      <3>4. QED
        BY <1>2, <3>2, <3>3, CommitWrites
    <2>7. QED
      BY <2>5, <2>6
  <1>3. QED
    BY <1>1, <1>2, QuietSteps

\* Every step keeps what is known of pins, acknowledgements and edges.
LEMMA ReferenceStep ==
  ASSUME IInv, [Next]_vars
  PROVE  ReferenceInv'
  <1>1. CASE Quiet
    BY <1>1 DEF IInv, ReferenceInv, Quiet
  <1>2. ASSUME NEW c \in Callers, CommitAdmission(c) PROVE ReferenceInv'
    <2>1. ReferenceInv
      BY DEF IInv
    <2>2. receipts' = receipts \cup {makeAdmissionReceipt(c)}
      BY <1>2, CommitWrites
    <2>3. pinned' \subseteq ready'
      BY <1>2, <2>1, CommitWrites, CommitFinds DEF ReferenceInv
    <2>4. \A o \in acked' : \E s \in receipts' : s.operation = o
      BY <1>2, <2>1, <2>2, CommitWrites, ReceiptFacts DEF ReferenceInv
    <2>5. ASSUME NEW e \in edges' PROVE \E s \in receipts' : <<e[1], e[2]>> \in s.spends
      <3>1. CASE e \in edges
        BY <2>1, <2>2, <3>1 DEF ReferenceInv
      <3>2. CASE e \in admissionEdges(c)
        <4>1. request[c] \in Requests /\ request[c].topics \subseteq Topics
          BY <1>2, CommitFinds, RequestFacts
        <4>2. e[1] \in request[c].topics /\ e[2] \in Outpoints /\ e[2] \in found[c][e[1]]
          BY <3>2 DEF admissionEdges
        <4>3. <<e[1], e[2]>> \in admissionSpends(c)
          BY <4>1, <4>2 DEF admissionSpends
        <4>4. QED
          BY <1>2, <2>2, <4>3, ReceiptFacts
      <3>3. QED
        BY <1>2, <3>1, <3>2, CommitWrites
    <2>6. QED
      BY <2>3, <2>4, <2>5 DEF ReferenceInv
  <1>3. QED
    BY <1>1, <1>2, QuietSteps

\* A commit is no rival of an earlier one: it spends other outputs, admits to other
\* topics, and revises a later generation.
LEMMA NoRival ==
  ASSUME IInv, NEW c \in Callers, CommitAdmission(c), NEW s \in receipts
  PROVE  LET n == makeAdmissionReceipt(c)
         IN  /\ s.spends \cap n.spends = {}
             /\ s.operation.tx = n.operation.tx => s.operation.topics \cap n.operation.topics = {}
             /\ \A t \in s.revises \cap n.revises : s.expected[t] # n.expected[t]
  <1>1. TypeOK /\ ReceiptInv
    BY DEF IInv
  <1>2. s.spends \cap admissionSpends(c) = {}
    BY <1>1, CommitSpends DEF ReceiptInv
  <1>3. s.operation.tx = request[c].tx => s.operation.topics \cap request[c].topics = {}
    <2>1. \A t \in s.operation.topics : <<t, s.operation.tx>> \in applied
      BY <1>1 DEF ReceiptInv
    <2>2. \A t \in request[c].topics : <<t, request[c].tx>> \notin applied
      BY CommitFinds
    <2>3. QED
      BY <2>1, <2>2
  <1>4. ASSUME NEW t \in s.revises \cap request[c].revises
        PROVE  s.expected[t] # expected[c][t]
    <2>1. s \in Receipt
      BY <1>1 DEF TypeOK
    <2>2. t \in Topics /\ s.expected[t] \in Nat
      BY <2>1 DEF Receipt
    <2>3. generation[t] \in Nat /\ s.expected[t] < generation[t]
      BY <1>1, <2>2 DEF TypeOK, ReceiptInv
    <2>4. generation[t] = expected[c][t]
      BY CommitFinds
    <2>5. QED
      BY <2>2, <2>3, <2>4
  <1>5. QED
    BY <1>2, <1>3, <1>4, ReceiptFacts

\* Every step keeps the three properties of pairs of committed operations.
LEMMA PairStep ==
  ASSUME IInv, [Next]_vars
  PROVE  SpendOnce' /\ AppliedOnce' /\ RevisionsInLine'
  <1>1. CASE Quiet
    BY <1>1 DEF IInv, SpendOnce, AppliedOnce, RevisionsInLine, Quiet
  <1>2. ASSUME NEW c \in Callers, CommitAdmission(c)
        PROVE  SpendOnce' /\ AppliedOnce' /\ RevisionsInLine'
    <2>1. receipts' = receipts \cup {makeAdmissionReceipt(c)}
      BY <1>2, CommitWrites
    <2>2. \A s \in receipts : s.spends \cap makeAdmissionReceipt(c).spends = {}
      BY <1>2, NoRival
    <2>3. \A s \in receipts : s.operation.tx = makeAdmissionReceipt(c).operation.tx
            => s.operation.topics \cap makeAdmissionReceipt(c).operation.topics = {}
      BY <1>2, NoRival
    <2>4. \A s \in receipts : \A t \in s.revises \cap makeAdmissionReceipt(c).revises :
            s.expected[t] # makeAdmissionReceipt(c).expected[t]
      BY <1>2, NoRival
    <2>5. SpendOnce'
      BY <2>1, <2>2 DEF IInv, SpendOnce
    <2>6. AppliedOnce'
      BY <2>1, <2>3 DEF IInv, AppliedOnce
    <2>7. RevisionsInLine'
      BY <2>1, <2>4 DEF IInv, RevisionsInLine
    <2>8. QED
      BY <2>5, <2>6, <2>7
  <1>3. QED
    BY <1>1, <1>2, QuietSteps

----------------------------------------------------------------------------
(* Theorems                                                                *)

\* The invariant holds before the first submission.
LEMMA Start == Init => IInv
  <1> SUFFICES ASSUME Init PROVE IInv
    OBVIOUS
  <1>1. NoLease \in Lease
    BY DEF NoLease, Lease
  <1>2. TypeOK
    BY <1>1 DEF Init, TypeOK, OutputState, Labels
  <1>3. PlanInv /\ IdleInv /\ WriterInv /\ FenceInv
    BY DEF Init, PlanInv, IdleInv, WriterInv, FenceInv
  <1>4. ReceiptInv /\ ReferenceInv /\ SpendOnce /\ AppliedOnce /\ RevisionsInLine
    BY DEF Init, ReceiptInv, ReferenceInv, SpendOnce, AppliedOnce, RevisionsInLine
  <1>5. CreatedInv
    BY AdmissionConstants DEF Init, CreatedInv
  <1>6. QED
    BY <1>2, <1>3, <1>4, <1>5 DEF IInv

\* Every step keeps the invariant.
LEMMA Step == IInv /\ [Next]_vars => IInv'
  BY TypeStep, PlanStep, WriterStep, FenceStep, ReceiptStep, CreatedStep, ReferenceStep, PairStep
     DEF IInv

\* The inductive invariant of CommitAdmission holds in every reachable state.
THEOREM Inductive == Spec => []IInv
  BY Start, Step, PTL DEF Spec

\* Every variable of the admission model keeps its type, with any number of
\* leases and revisions.
THEOREM TypeCorrect == Spec => []TypeOK
  <1>1. IInv => TypeOK
    BY DEF IInv
  <1>2. QED
    BY <1>1, Inductive, PTL

\* However submissions interleave, no output of a topic is spent by two
\* admissions.
THEOREM SpentOnce == Spec => []SpendOnce
  <1>1. IInv => SpendOnce
    BY DEF IInv
  <1>2. QED
    BY <1>1, Inductive, PTL

\* A transaction is admitted to a topic at most once.
THEOREM AdmittedOnce == Spec => []AppliedOnce
  <1>1. IInv => AppliedOnce
    BY DEF IInv
  <1>2. QED
    BY <1>1, Inductive, PTL

\* No revision of a topic's history is lost.
THEOREM NoLostRevision == Spec => []RevisionsInLine
  <1>1. IInv => RevisionsInLine
    BY DEF IInv
  <1>2. QED
    BY <1>1, Inductive, PTL

\* What was acknowledged stays applied, and the collector leaves its payload.
THEOREM Durable == Spec => []AckedIsDurable
  <1>1. IInv => AckedIsDurable
    BY DEF IInv, ReferenceInv, ReceiptInv, AckedIsDurable
  <1>2. QED
    BY <1>1, Inductive, PTL

\* No unspent output has consumers in the history graph.
THEOREM GraphAgrees == Spec => []EdgesFollowSpends
  <1>1. IInv => EdgesFollowSpends
    <2> SUFFICES ASSUME IInv, NEW e \in edges PROVE outputs[e[1]][e[2]] # "unspent"
      BY DEF EdgesFollowSpends
    <2>1. PICK s \in receipts : <<e[1], e[2]>> \in s.spends
      BY DEF IInv, ReferenceInv
    <2>2. \A q \in s.spends : outputs[q[1]][q[2]] # "unspent"
      BY DEF IInv, ReceiptInv
    <2>3. QED
      BY <2>1, <2>2
  <1>2. QED
    BY <1>1, Inductive, PTL

\* Only the worker that holds a topic's lease hands its revision off.
THEOREM HandoffHeld == Spec => HandoffByHolder
  <1>1. IInv /\ [Next]_vars => [HandoffStep]_vars
    <2> SUFFICES ASSUME IInv, NEW c \in Callers, CommitAdmission(c), request[c].handoff,
                        NEW t \in request[c].revises
                 PROVE  held[c][t].token = lease[t].token
      BY DEF HandoffStep
    <2>1. QED
      BY CommitFinds
  <1>2. QED
    BY <1>1, Inductive, PTL DEF Spec, HandoffByHolder
=============================================================================
