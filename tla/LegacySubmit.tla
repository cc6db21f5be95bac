---------------------------- MODULE LegacySubmit ----------------------------
(***************************************************************************)
(* Engine.Submit for a storage that advertises no admission capability     *)
(* (pkg/core/engine/engine.go), over the storage operations of             *)
(* pkg/storage/mongodb/storage.go and a lookup service that indexes the    *)
(* current outputs, as pkg/topics/identity does.                           *)
(*                                                                         *)
(* A submission is a sequence of separate reads and writes.  What it read  *)
(* of its inputs while the topic managers ran is what it later writes      *)
(* from: the consumed-by list, and whether an input may be deleted.  Every *)
(* storage or lookup call may fail, which ends the submission where it is: *)
(* nothing is rolled back.                                                 *)
(*                                                                         *)
(* What is abstracted: BEEF, scripts and proofs (verification succeeds or  *)
(* the submission never starts), the mode, which only tells whether there  *)
(* is a broadcast that may fail; a topic manager admits the outputs        *)
(* Admits[x] of a transaction and retains any of its previous coins; one   *)
(* lookup service; consumption edges are the pairs <<source, consumer>>    *)
(* from which the storage answers both OutputsConsumed and ConsumedBy.     *)
(***************************************************************************)
EXTENDS Naturals, Sequences, FiniteSets, SequencesExt

CONSTANTS
  Callers,       \* concurrent calls of Submit
  Topics,        \* the topics of every submission, in their order
  Submitted,     \* transactions
  Coins,         \* outputs of all transactions
  Spends,        \* Spends[x]: the outputs x spends
  Admits,        \* Admits[x]: the outputs of x that a topic manager admits
  Nobody,        \* no transaction
  SubmitMayFail, \* whether storage, lookup and broadcast calls may fail
  MaxSubmits     \* bound on the submissions of one transaction

LegacyConstants ==
  /\ Topics \in Seq(STRING) /\ Topics # << >> /\ IsFiniteSet(Coins)
  /\ Spends \in [Submitted -> SUBSET Coins]
  /\ Admits \in [Submitted -> SUBSET Coins]
  /\ \A x, y \in Submitted : x # y => Admits[x] \cap Admits[y] = {}
  /\ Nobody \notin Submitted /\ SubmitMayFail \in BOOLEAN /\ MaxSubmits \in Nat

VARIABLES
  outputs,   \* outputs[i]: outpoints with a document in topic Topics[i]
  spentBy,   \* spentBy[i][o]: the spender its document names, or Nobody
  edges,     \* edges[i]: consumption edges <<source, consumer>>
  recorded,  \* pairs <<i, x>>: topic i has applied transaction x
  view,      \* view[i]: current outputs in the index of the lookup service
  call,      \* call[c]: the submission of caller c and its local variables
  requests,  \* requests[x]: submissions of x so far
  marks,     \* history: <<i, o>> for which MarkUTXOsAsSpent ever ran
  wanted     \* history: <<i, o, k>>, o was retained when k was admitted

submitVars ==
  <<outputs, spentBy, edges, recorded, view, call, requests, marks, wanted>>
store == <<outputs, spentBy, edges, recorded, view, requests, marks, wanted>>

Range1 == 1..Len(Topics)
Output == [op: Coins, consumedBy: SUBSET Coins, consumed: SUBSET Coins]
Task == [kind: {"delete"}, output: Output]
          \cup [kind: {"rewrite"}, output: Output]
          \cup [kind: {"stale"}, parent: Coins, op: Coins]
Steps == {"check", "identify", "mark", "notifySpent", "broadcast", "separate", "delete",
          "insert", "notifyAdmitted", "updateConsumedBy", "applied"}
Call == [pc: {"idle"} \cup Steps, tx: Submitted \cup {Nobody}, at: Nat,
         dupes: SUBSET Range1, inputs: [Range1 -> SUBSET Output],
         retain: [Range1 -> SUBSET Coins], left: SUBSET Coins, stack: Seq(Task)]

NoInputs == [i \in Range1 |-> {}]
NoCall == [pc |-> "idle", tx |-> Nobody, at |-> 1, dupes |-> {},
           inputs |-> NoInputs, retain |-> NoInputs, left |-> {}, stack |-> << >>]

SubmitInit ==
  /\ outputs = NoInputs /\ edges = NoInputs /\ view = NoInputs
  /\ spentBy = [i \in Range1 |-> [o \in Coins |-> Nobody]]
  /\ recorded = {} /\ marks = {} /\ wanted = {}
  /\ call = [c \in Callers |-> NoCall]
  /\ requests = [x \in Submitted |-> 0]
-----------------------------------------------------------------------------
(* What FindOutput returns for a stored output, its edges included.        *)
ReadOutput(i, o) ==
  [op |-> o, consumedBy |-> {k \in Coins : <<o, k>> \in edges[i]},
   consumed |-> {s \in Coins : <<s, o>> \in edges[i]}]

FindOutputs(i, ops) == {ReadOutput(i, o) : o \in ops \cap outputs[i]}

(* The storage's UpdateConsumedBy: all edges of a source are replaced.     *)
ReplaceConsumedBy(i, source, consumers) ==
  edges' = [edges EXCEPT ![i] = {e \in @ : e[1] # source} \cup ({source} \X consumers)]

(* The storage's MarkUTXOsAsSpent on one document, whatever it holds; a    *)
(* document that is gone stays gone.                                       *)
MarkSpent(i, o, spender) ==
  spentBy' = IF o \in outputs[i] THEN [spentBy EXCEPT ![i][o] = spender] ELSE spentBy

(* The storage's InsertOutputs: one transaction that inserts the documents *)
(* not yet there and the edges from every consumed outpoint.               *)
InsertPrepared(i, new, consumed) ==
  /\ outputs' = [outputs EXCEPT ![i] = @ \cup new]
  /\ edges' = [edges EXCEPT ![i] = @ \cup (consumed \X new)]

Step(c, record) == call' = [call EXCEPT ![c] = record]

(* The loops over p.Topics: the next topic that is no duplicate, and the   *)
(* step after the last one.                                                *)
NextTopic(r, first) ==
  LET rest == {i \in first..Len(Topics) : i \notin r.dupes}
  IN IF rest = {} THEN 0 ELSE CHOOSE i \in rest : \A j \in rest : i <= j

OpsOf(S) == {o.op : o \in S}

(* markSpentAndNotify enters its first or next topic.                      *)
EnterMark(r, first) ==
  LET i == NextTopic(r, first)
  IN IF i = 0 THEN [r EXCEPT !.pc = "broadcast"]
     ELSE [r EXCEPT !.pc = "mark", !.at = i, !.left = OpsOf(r.inputs[i])]

(* commitAdmittedOutputs enters its first or next topic, or Submit returns *)
(* its steak.                                                              *)
EnterCommit(r, first) ==
  LET i == NextTopic(r, first)
  IN IF i = 0 THEN NoCall ELSE [r EXCEPT !.pc = "separate", !.at = i]

EngineSubmit(c, x) ==
  /\ call[c].pc = "idle" /\ requests[x] < MaxSubmits
  /\ requests' = [requests EXCEPT ![x] = @ + 1]
  /\ Step(c, [NoCall EXCEPT !.pc = "check", !.tx = x])
  /\ UNCHANGED <<outputs, spentBy, edges, recorded, view, marks, wanted>>

(* identifyAdmissibleOutputsPerTopic, first call: the duplicate check.     *)
AfterIdentify(r) ==
  IF r.at < Len(Topics) THEN [r EXCEPT !.pc = "check", !.at = r.at + 1]
  ELSE EnterMark(r, 1)

DoesAppliedTransactionExist(c) ==
  LET r == call[c] IN
  /\ r.pc = "check"
  /\ Step(c, IF <<r.at, r.tx>> \in recorded
             THEN AfterIdentify([r EXCEPT !.dupes = @ \cup {r.at}])
             ELSE [r EXCEPT !.pc = "identify"])
  /\ UNCHANGED store

(* identifyAdmissibleOutputsPerTopic, the rest: previous coins are read,   *)
(* spent ones too, and the topic manager chooses what to retain.           *)
IdentifyAdmissibleOutputs(c) ==
  LET r == call[c]  found == FindOutputs(r.at, Spends[r.tx]) IN
  /\ r.pc = "identify"
  /\ \E retain \in SUBSET OpsOf(found) :
       Step(c, AfterIdentify([r EXCEPT !.inputs[r.at] = found, !.retain[r.at] = retain]))
  /\ UNCHANGED store

(* markTopicUTXOsSpent, one document at a time.                            *)
MarkUTXOsAsSpent(c) ==
  LET r == call[c] IN
  /\ r.pc = "mark" /\ r.left # {}
  /\ \E o \in r.left :
       /\ MarkSpent(r.at, o, r.tx)
       /\ marks' = marks \cup {<<r.at, o>>}
       /\ Step(c, [r EXCEPT !.left = @ \ {o}])
  /\ UNCHANGED <<outputs, edges, recorded, view, requests, wanted>>

MarkedSpent(c) ==
  LET r == call[c] IN
  /\ r.pc = "mark" /\ r.left = {}
  /\ Step(c, [r EXCEPT !.pc = "notifySpent", !.left = OpsOf(r.inputs[r.at])])
  /\ UNCHANGED store

(* notifySpentOutputs: OutputSpent removes the output from the index.      *)
NotifySpentOutputs(c) ==
  LET r == call[c] IN
  /\ r.pc = "notifySpent"
  /\ \/ /\ r.left = {} /\ Step(c, EnterMark(r, r.at + 1)) /\ UNCHANGED view
     \/ \E o \in r.left :
          /\ view' = [view EXCEPT ![r.at] = @ \ {o}]
          /\ Step(c, [r EXCEPT !.left = @ \ {o}])
  /\ UNCHANGED <<outputs, spentBy, edges, recorded, requests, marks, wanted>>

(* broadcastIfNeeded, then the callbacks that are told of the steak before *)
(* anything of it is stored.                                               *)
BroadcastIfNeeded(c) ==
  /\ call[c].pc = "broadcast"
  /\ Step(c, EnterCommit(call[c], 1))
  /\ UNCHANGED store

(* separateRetainedCoins, and the loop of commitTopicOutputs over the      *)
(* coins that are not retained, in any order.                              *)
SeparateRetainedCoins(c) ==
  LET r == call[c]
      gone == {o \in r.inputs[r.at] : o.op \notin r.retain[r.at]} IN
  /\ r.pc = "separate"
  /\ \E order \in SetToSeqs(gone) :
       Step(c, [r EXCEPT !.pc = "delete",
                         !.stack = [n \in DOMAIN order |-> [kind |-> "delete", output |-> order[n]]]])
  /\ UNCHANGED store

(* deleteUTXODeep of output o: the document goes if the list the caller    *)
(* holds is empty; the outputs it consumed are visited in either case.     *)
DeleteUTXO(c) ==
  LET r == call[c]  o == Head(r.stack).output IN
  /\ r.pc = "delete" /\ r.stack # << >> /\ Head(r.stack).kind = "delete"
  /\ IF o.consumedBy = {}
     THEN /\ outputs' = [outputs EXCEPT ![r.at] = @ \ {o.op}]
          /\ spentBy' = [spentBy EXCEPT ![r.at][o.op] = Nobody]
     ELSE UNCHANGED <<outputs, spentBy>>
  /\ \E order \in SetToSeqs(o.consumed) :
       Step(c, [r EXCEPT !.stack =
         [n \in DOMAIN order |-> [kind |-> "stale", parent |-> o.op, op |-> order[n]]] \o Tail(@)])
  /\ UNCHANGED <<edges, recorded, view, requests, marks, wanted>>

(* The body of the loop over OutputsConsumed: FindOutput, ...              *)
FindStaleOutput(c) ==
  LET r == call[c]  t == Head(r.stack)
      stale == ReadOutput(r.at, t.op)
      task == [kind |-> IF stale.consumedBy = {} THEN "delete" ELSE "rewrite",
               output |-> [stale EXCEPT !.consumedBy = @ \ {t.parent}]] IN
  /\ r.pc = "delete" /\ r.stack # << >> /\ t.kind = "stale"
  /\ Step(c, [r EXCEPT !.stack = IF t.op \in outputs[r.at] THEN <<task>> \o Tail(@) ELSE Tail(@)])
  /\ UNCHANGED store

(* ... and the write of the consumers that remain, before the recursion.   *)
DropConsumer(c) ==
  LET r == call[c]  o == Head(r.stack).output IN
  /\ r.pc = "delete" /\ r.stack # << >> /\ Head(r.stack).kind = "rewrite"
  /\ ReplaceConsumedBy(r.at, o.op, o.consumedBy)
  /\ Step(c, [r EXCEPT !.stack = <<[kind |-> "delete", output |-> o]>> \o Tail(@)])
  /\ UNCHANGED <<outputs, spentBy, recorded, view, requests, marks, wanted>>

(* Mutant: the applied record is written with the outputs.                 *)
InsertOutputsApplied(c) ==
  LET r == call[c]  new == Admits[r.tx] IN
  /\ r.pc = "delete" /\ r.stack = << >>
  /\ InsertPrepared(r.at, new, r.retain[r.at])
  /\ wanted' = wanted \cup ({r.at} \X r.retain[r.at] \X new)
  /\ recorded' = recorded \cup {<<r.at, r.tx>>}
  /\ Step(c, [r EXCEPT !.pc = "notifyAdmitted", !.left = new])
  /\ UNCHANGED <<spentBy, view, requests, marks>>

(* The admitted outputs, with an edge from every retained coin.            *)
InsertOutputs(c) ==
  LET r == call[c]  new == Admits[r.tx] IN
  /\ r.pc = "delete" /\ r.stack = << >>
  /\ InsertPrepared(r.at, new, r.retain[r.at])
  /\ wanted' = wanted \cup ({r.at} \X r.retain[r.at] \X new)
  /\ Step(c, [r EXCEPT !.pc = "notifyAdmitted", !.left = new])
  /\ UNCHANGED <<spentBy, recorded, view, requests, marks>>

(* notifyAdmittedOutputs: OutputAdmittedByTopic indexes the output.        *)
NotifyAdmittedOutputs(c) ==
  LET r == call[c] IN
  /\ r.pc = "notifyAdmitted"
  /\ \/ /\ r.left = {} /\ UNCHANGED view
        /\ Step(c, [r EXCEPT !.pc = "updateConsumedBy", !.left = r.retain[r.at]])
     \/ \E o \in r.left :
          /\ view' = [view EXCEPT ![r.at] = @ \cup {o}]
          /\ Step(c, [r EXCEPT !.left = @ \ {o}])
  /\ UNCHANGED <<outputs, spentBy, edges, recorded, requests, marks, wanted>>

(* updateConsumedByReferences: the edges of a retained coin are replaced   *)
(* by the list read before the topic manager ran and the new outputs.      *)
UpdateConsumedBy(c) ==
  LET r == call[c] IN
  /\ r.pc = "updateConsumedBy"
  /\ \/ /\ r.left = {} /\ UNCHANGED edges
        /\ Step(c, [r EXCEPT !.pc = "applied"])
     \/ \E o \in r.inputs[r.at] :
          /\ o.op \in r.left
          /\ ReplaceConsumedBy(r.at, o.op, o.consumedBy \cup Admits[r.tx])
          /\ Step(c, [r EXCEPT !.left = @ \ {o.op}])
  /\ UNCHANGED <<outputs, spentBy, recorded, view, requests, marks, wanted>>

InsertAppliedTransaction(c) ==
  LET r == call[c] IN
  /\ r.pc = "applied"
  /\ recorded' = recorded \cup {<<r.at, r.tx>>}
  /\ Step(c, EnterCommit(r, r.at + 1))
  /\ UNCHANGED <<outputs, spentBy, edges, view, requests, marks, wanted>>

(* A call of the current step returns an error, and Submit with it.        *)
SubmitFails(c) ==
  /\ SubmitMayFail /\ call[c].pc # "idle"
  /\ Step(c, NoCall)
  /\ UNCHANGED store

CallerStep(c) ==
  \/ DoesAppliedTransactionExist(c) \/ IdentifyAdmissibleOutputs(c) \/ MarkUTXOsAsSpent(c)
  \/ MarkedSpent(c) \/ NotifySpentOutputs(c) \/ BroadcastIfNeeded(c) \/ SeparateRetainedCoins(c)
  \/ DeleteUTXO(c) \/ FindStaleOutput(c) \/ DropConsumer(c) \/ InsertOutputs(c)
  \/ NotifyAdmittedOutputs(c) \/ UpdateConsumedBy(c) \/ InsertAppliedTransaction(c)

SubmitNext == \E c \in Callers :
  \/ \E x \in Submitted : EngineSubmit(c, x)
  \/ CallerStep(c)
  \/ SubmitFails(c)

SubmitSpec == SubmitInit /\ [][SubmitNext]_submitVars
-----------------------------------------------------------------------------
SubmitTypeOK ==
  /\ outputs \in [Range1 -> SUBSET Coins] /\ view \in [Range1 -> SUBSET Coins]
  /\ spentBy \in [Range1 -> [Coins -> Submitted \cup {Nobody}]]
  /\ edges \in [Range1 -> SUBSET (Coins \X Coins)]
  /\ recorded \subseteq Range1 \X Submitted /\ marks \subseteq Range1 \X Coins
  /\ wanted \subseteq Range1 \X Coins \X Coins
  /\ call \in [Callers -> Call] /\ requests \in [Submitted -> Nat]

(* The record that makes a later submission a duplicate is written last:   *)
(* whatever fails or runs beside it, a transaction recorded as applied has *)
(* each of its outputs stored and indexed, unless somebody went on to      *)
(* spend it.  (The duplicate check answers such a submission with nothing  *)
(* to do, so an output missed here is never indexed.)                      *)
AppliedIsServed ==
  \A a \in recorded : \A o \in Admits[a[2]] :
    <<a[1], o>> \in marks \/ (o \in outputs[a[1]] /\ o \in view[a[1]])

(* What Submit leaves behind, with any number of callers and wherever they *)
(* fail: a transaction recorded as applied has each of its outputs stored  *)
(* and indexed unless somebody went on to spend it, and all variables are  *)
(* of their types.                                                         *)
SubmitsAreWhole == SubmitTypeOK /\ AppliedIsServed

(* With one submission at a time and no failing call, whenever no          *)
(* submission is running the lookup service serves exactly the stored      *)
(* outputs that no transaction has spent.                                  *)
ViewMatchesStore ==
  (\A c \in Callers : call[c].pc = "idle") =>
    \A i \in Range1 : view[i] = {o \in outputs[i] : spentBy[i][o] = Nobody}

(* Likewise the consumption edges then join stored outputs only: a history *)
(* that GetUTXOHistory follows never ends at a missing output, and no      *)
(* output stays undeletable because of a consumer that is gone.            *)
NoDanglingEdges ==
  (\A c \in Callers : call[c].pc = "idle") =>
    \A i \in Range1 : \A e \in edges[i] : e[1] \in outputs[i] /\ e[2] \in outputs[i]

(* OutputNoLongerRetainedInHistory is for outputs whose retention is no    *)
(* longer required: while an output is stored, so are the outputs that the *)
(* topic manager asked to retain when it admitted it.                      *)
HistoryKept ==
  (\A c \in Callers : call[c].pc = "idle") =>
    \A w \in wanted : w[3] \in outputs[w[1]] => w[2] \in outputs[w[1]]

(* An old admission does not bring an output back into the index after an  *)
(* applied transaction has spent it.                                       *)
NoResurrection ==
  [][\A i \in Range1 : \A o \in view'[i] \ view[i] :
       ~ (<<i, o>> \in marks
          /\ \E x \in Submitted : o \in Spends[x] /\ <<i, x>> \in recorded)]_submitVars
=============================================================================
