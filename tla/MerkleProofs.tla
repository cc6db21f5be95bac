---------------------------- MODULE MerkleProofs ----------------------------
(***************************************************************************)
(* Merkle proofs of stored transactions: the ARC callback                  *)
(* (pkg/server/internal/app/arc_ingest_service.go), HandleNewMerkleProof   *)
(* and its propagation to consumers (pkg/core/engine/engine.go) and        *)
(* ReconcileMerkleRoot (pkg/storage/mongodb/storage.go), on a chain that   *)
(* reorganises.                                                            *)
(*                                                                         *)
(* The BEEF of a transaction holds its unproven ancestors and a proof for  *)
(* each branch end.  A handler loads whole BEEFs, changes proofs in them   *)
(* and writes them back one by one; each load and each write is a step.    *)
(*                                                                         *)
(* What is abstracted: a transaction has one output in one topic, so that  *)
(* it stands for both; a proof is the transaction it contains, a height    *)
(* and the root it computes.                                               *)
(***************************************************************************)
EXTENDS Naturals, Sequences, FiniteSets, SequencesExt

CONSTANTS
  Handlers,       \* concurrent calls of HandleNewMerkleProof
  Mined,          \* stored transactions
  InputsOf,       \* InputsOf[x]: the stored transactions whose outputs x spends
  ConsumedBy,     \* ConsumedBy[x]: the consumers of the output of x
  Heights,        \* block heights
  Branches,       \* what a reorganisation chooses between at a height
  NoProof,        \* no proof, no root
  HandlerMayFail, \* whether storage and lookup calls may fail
  MaxProofs,      \* bound on the calls of HandleNewMerkleProof
  MaxReorgs       \* bound on the reorganisations

(* The merkle root of the block at height n on branch v.                   *)
RootAt(n, v) == <<n, v>>
BlockRoots == Heights \X Branches

Proof == [tx: Mined, height: Heights, root: BlockRoots]
Beef == [Mined -> Proof \cup {NoProof}]

MerkleConstants ==
  /\ InputsOf \in [Mined -> SUBSET Mined] /\ ConsumedBy \in [Mined -> SUBSET Mined]
  /\ IsFiniteSet(Mined) /\ Heights \subseteq Nat \ {0} /\ HandlerMayFail \in BOOLEAN
  /\ NoProof \notin Proof /\ NoProof \notin BlockRoots
  /\ MaxProofs \in Nat /\ MaxReorgs \in Nat

VARIABLES
  canon,    \* canon[h]: the root the chain tracker accepts at height h
  beef,     \* beef[x][y]: the proof of y inside the stored BEEF of x
  height,   \* height[x]: the block height in the output document, 0 if none
  root,     \* root[x]: the merkle root in the output document
  state,    \* state[x]: the merkle state in the output document
  matched,  \* history: outputs whose proof had the root of their last reconciliation
  handling, \* handling[h]: the running HandleNewMerkleProof of handler h
  told,     \* told[x]: the block height the lookup services were told last
  proofs, reorgs  \* how many so far

merkleVars == <<canon, beef, height, root, state, matched, handling, told, proofs, reorgs>>
docs == <<height, root, state, matched>>

ProofTask == [kind: {"update"}, x: Mined, beef: Beef, height: Nat, top: BOOLEAN]
         \cup [kind: {"write"}, x: Mined, beef: Beef]
         \cup [kind: {"consumer"}, x: Mined]
         \cup [kind: {"height"}, x: Mined, height: Nat]
         \cup [kind: {"notify"}]
Handling == [pc: {"idle", "validate", "find", "tasks"}, proof: Proof \cup {NoProof},
             stack: Seq(ProofTask)]
NotHandling == [pc |-> "idle", proof |-> NoProof, stack |-> << >>]
MerkleStates == {"unmined", "validated", "invalidated"}

MerkleInit ==
  /\ \E v \in Branches : canon = [n \in Heights |-> RootAt(n, v)]
  /\ beef = [x \in Mined |-> [y \in Mined |-> NoProof]]
  /\ height = [x \in Mined |-> 0] /\ told = height
  /\ root = [x \in Mined |-> NoProof] /\ state = [x \in Mined |-> "unmined"] /\ matched = {}
  /\ handling = [h \in Handlers |-> NotHandling] /\ proofs = 0 /\ reorgs = 0

Proceed(h, record) == handling' = [handling EXCEPT ![h] = record]
PopTask(h) == [handling[h] EXCEPT !.stack = Tail(@)]
PushTasks(h, tasks) == [handling[h] EXCEPT !.stack = tasks \o Tail(@)]
TopTask(h, kind) ==
  /\ handling[h].pc = "tasks" /\ handling[h].stack # << >>
  /\ Head(handling[h].stack).kind = kind
-----------------------------------------------------------------------------
(* The chain replaces the block at one height.                             *)
Reorg ==
  /\ reorgs < MaxReorgs /\ reorgs' = reorgs + 1
  /\ \E n \in Heights, v \in Branches :
       RootAt(n, v) # canon[n] /\ canon' = [canon EXCEPT ![n] = RootAt(n, v)]
  /\ UNCHANGED <<beef, docs, handling, told, proofs>>

(* ProcessIngest: the path of the callback is given the callback's block   *)
(* height, which must not be zero, and goes to HandleNewMerkleProof.       *)
ProcessIngest(h, x, blockHeight, r) ==
  /\ handling[h].pc = "idle" /\ proofs < MaxProofs /\ blockHeight # 0
  /\ proofs' = proofs + 1
  /\ Proceed(h, [NotHandling EXCEPT !.pc = "validate",
                            !.proof = [tx |-> x, height |-> blockHeight, root |-> r]])
  /\ UNCHANGED <<canon, beef, docs, told, reorgs>>

(* validateMerkleProof: the root must be the chain tracker's.              *)
ValidateMerkleProof(h) ==
  LET p == handling[h].proof IN
  /\ handling[h].pc = "validate"
  /\ Proceed(h, IF canon[p.height] = p.root THEN [handling[h] EXCEPT !.pc = "find"] ELSE NotHandling)
  /\ UNCHANGED <<canon, beef, docs, told, proofs, reorgs>>

(* A loaded output with its BEEF, to be updated.                           *)
UpdateTask(x, top) ==
  [kind |-> "update", x |-> x, beef |-> beef[x], height |-> height[x], top |-> top]

(* HandleNewMerkleProof: FindOutputsForTransaction, then the loop over the *)
(* outputs found and the notification of the lookup services.              *)
FindOutputsForTransaction(h) ==
  /\ handling[h].pc = "find"
  /\ Proceed(h, [handling[h] EXCEPT !.pc = "tasks",
                !.stack = <<UpdateTask(handling[h].proof.tx, TRUE), [kind |-> "notify"]>>])
  /\ UNCHANGED <<canon, beef, docs, told, proofs, reorgs>>

(* isMerkleRootUnchanged, of the transaction's own proof.                  *)
IsMerkleRootUnchanged(old, new) == old # NoProof /\ old.root = new

(* updateInputProofs: down from x as far as the transactions that have a   *)
(* proof already or are the one the proof is for; these get the proof.     *)
UpdateInputProofs(b, x, p) ==
  LET ends(y) == b[y] # NoProof \/ y = p.tx
      visited[y \in Mined] == {y} \cup IF ends(y) THEN {} ELSE UNION {visited[z] : z \in InputsOf[y]}
  IN [y \in Mined |-> IF y \in visited[x] /\ ends(y) THEN p ELSE b[y]]

(* updateMerkleProof of a loaded output, up to the write.  The height that *)
(* is written back later is the loaded one if the root is unchanged.       *)
UpdateMerkleProof(h) ==
  LET t == Head(handling[h].stack)
      p == handling[h].proof
      unchanged == IsMerkleRootUnchanged(t.beef[t.x], p.root)
      last == IF t.top
              THEN <<[kind |-> "height", x |-> t.x, height |-> IF unchanged THEN t.height ELSE p.height]>>
              ELSE << >>
      write == [kind |-> "write", x |-> t.x, beef |-> UpdateInputProofs(t.beef, t.x, p)]
  IN /\ TopTask(h, "update")
     /\ Proceed(h, PushTasks(h, (IF unchanged THEN << >> ELSE <<write>>) \o last))
     /\ UNCHANGED <<canon, beef, docs, told, proofs, reorgs>>

(* Mutant: the recursion ends at the direct consumers.                     *)
UpdateTransactionBEEFOnce(h) ==
  LET t == Head(handling[h].stack) IN
  /\ TopTask(h, "write")
  /\ beef' = [beef EXCEPT ![t.x] = t.beef]
  /\ \E order \in SetToSeqs(IF t.x = handling[h].proof.tx THEN ConsumedBy[t.x] ELSE {}) :
       Proceed(h, PushTasks(h, [n \in DOMAIN order |-> [kind |-> "consumer", x |-> order[n]]]))
  /\ UNCHANGED <<canon, docs, told, proofs, reorgs>>

(* UpdateTransactionBEEF replaces the whole BEEF; then the proof goes to   *)
(* the consumers, in any order.                                            *)
UpdateTransactionBEEF(h) ==
  LET t == Head(handling[h].stack) IN
  /\ TopTask(h, "write")
  /\ beef' = [beef EXCEPT ![t.x] = t.beef]
  /\ \E order \in SetToSeqs(ConsumedBy[t.x]) :
       Proceed(h, PushTasks(h, [n \in DOMAIN order |-> [kind |-> "consumer", x |-> order[n]]]))
  /\ UNCHANGED <<canon, docs, told, proofs, reorgs>>

(* Mutant: a consumer that has a proof of its own is not skipped.          *)
PropagateToEvery(h) ==
  LET t == Head(handling[h].stack) IN
  /\ TopTask(h, "consumer")
  /\ Proceed(h, PushTasks(h, <<UpdateTask(t.x, FALSE)>>))
  /\ UNCHANGED <<canon, beef, docs, told, proofs, reorgs>>

(* propagateMerkleProofToConsumers: a consumer is loaded, and skipped if   *)
(* its transaction has a proof of its own.                                 *)
PropagateMerkleProofToConsumers(h) ==
  LET t == Head(handling[h].stack) IN
  /\ TopTask(h, "consumer")
  /\ Proceed(h, IF beef[t.x][t.x] # NoProof THEN PopTask(h) ELSE PushTasks(h, <<UpdateTask(t.x, FALSE)>>))
  /\ UNCHANGED <<canon, beef, docs, told, proofs, reorgs>>

UpdateOutputBlockHeight(h) ==
  LET t == Head(handling[h].stack) IN
  /\ TopTask(h, "height")
  /\ height' = [height EXCEPT ![t.x] = t.height]
  /\ Proceed(h, PopTask(h))
  /\ UNCHANGED <<canon, beef, root, state, matched, told, proofs, reorgs>>

(* OutputBlockHeightUpdated of the lookup services; the handler is done.   *)
NotifyBlockHeight(h) ==
  /\ TopTask(h, "notify")
  /\ told' = [told EXCEPT ![handling[h].proof.tx] = handling[h].proof.height]
  /\ Proceed(h, NotHandling)
  /\ UNCHANGED <<canon, beef, docs, proofs, reorgs>>

(* A storage or lookup call fails, and HandleNewMerkleProof with it.       *)
HandlerFails(h) ==
  /\ HandlerMayFail /\ handling[h].pc # "idle"
  /\ Proceed(h, NotHandling)
  /\ UNCHANGED <<canon, beef, docs, told, proofs, reorgs>>

(* ReconcileMerkleRoot compares the documents at one height with a root.   *)
NextMerkleState(stored, r) ==
  IF stored = NoProof THEN "unmined" ELSE IF stored = r THEN "validated" ELSE "invalidated"

ReconcileMerkleRoot(n) ==
  /\ state' = [x \in Mined |-> IF height[x] = n THEN NextMerkleState(root[x], canon[n]) ELSE state[x]]
  /\ matched' = {x \in Mined : IF height[x] = n THEN IsMerkleRootUnchanged(beef[x][x], canon[n])
                              ELSE x \in matched}
  /\ UNCHANGED <<canon, beef, height, root, handling, told, proofs, reorgs>>

HandlerStep(h) ==
  \/ ValidateMerkleProof(h) \/ FindOutputsForTransaction(h) \/ UpdateMerkleProof(h)
  \/ UpdateTransactionBEEF(h) \/ PropagateMerkleProofToConsumers(h)
  \/ UpdateOutputBlockHeight(h) \/ NotifyBlockHeight(h)

MerkleNext ==
  \/ Reorg
  \/ \E h \in Handlers :
       \/ \E x \in Mined, n \in Heights \cup {0}, r \in BlockRoots : ProcessIngest(h, x, n, r)
       \/ HandlerStep(h)
       \/ HandlerFails(h)
  \/ \E n \in Heights : ReconcileMerkleRoot(n)

MerkleSpec == MerkleInit /\ [][MerkleNext]_merkleVars
-----------------------------------------------------------------------------
MerkleTypeOK ==
  /\ canon \in [Heights -> BlockRoots] /\ beef \in [Mined -> Beef]
  /\ height \in [Mined -> Nat] /\ told \in [Mined -> Nat]
  /\ root \in [Mined -> BlockRoots \cup {NoProof}] /\ state \in [Mined -> MerkleStates]
  /\ matched \subseteq Mined
  /\ handling \in [Handlers -> Handling] /\ proofs \in Nat /\ reorgs \in Nat

HandlersIdle == \A h \in Handlers : handling[h].pc = "idle"

(* The proof that a stored transaction carries for itself contains that    *)
(* transaction, whatever proofs of its ancestors were propagated into its  *)
(* BEEF, beside it or out of order.                                        *)
OwnProofIsOwn == \A x \in Mined : beef[x][x] # NoProof => beef[x][x].tx = x

(* What HandleNewMerkleProof leaves behind, with any number of handlers    *)
(* and wherever they fail: the proof that a transaction carries for itself *)
(* contains that transaction, and all variables are of their types.        *)
ProofsAreOwn == MerkleTypeOK /\ OwnProofIsOwn

(* x reaches y through unproven transactions of its BEEF.                  *)
Reaches(x, y) ==
  LET below[z \in Mined] ==
        {z} \cup (IF beef[x][z] # NoProof THEN {} ELSE UNION {below[w] : w \in InputsOf[z]})
  IN y \in below[x]

(* Without failing calls, and with one handler at a time, a proof reaches  *)
(* every BEEF that holds the transaction: between calls, all of them carry *)
(* the proof that the transaction itself has, and after a reorganisation   *)
(* none keeps the proof that it replaced.                                  *)
ProofReachesConsumers ==
  HandlersIdle => \A x, y \in Mined : Reaches(x, y) /\ beef[y][y] # NoProof => beef[x][y] = beef[y][y]

(* Likewise the documents and the lookup services hold the height of the   *)
(* proof between calls.                                                    *)
HeightFollowsProof ==
  HandlersIdle => \A x \in Mined : beef[x][x] # NoProof =>
            height[x] = beef[x][x].height /\ told[x] = height[x]

(* Every proof in a BEEF is for the transaction it is attached to.         *)
ProofContainsTx ==
  \A x, y \in Mined : Reaches(x, y) /\ beef[x][y] # NoProof => beef[x][y].tx = y

(* What handlers that succeeded told the lookup services is in the         *)
(* documents.                                                              *)
HeightIsStored == HandlersIdle => \A x \in Mined : told[x] # 0 => height[x] = told[x]

(* An output whose proof had the canonical root when its height was last   *)
(* reconciled is validated.                                                *)
ReconciledIsValidated == \A x \in matched : state[x] = "validated"
=============================================================================
