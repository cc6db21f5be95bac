------------------------- MODULE EngineWritesProofs -------------------------
EXTENDS LegacySubmit, MerkleProofs, SequenceTheorems, FiniteSetTheorems, TLAPS

(***************************************************************************)
(* Sequences.                                                              *)
(***************************************************************************)

(* SetToSeqs of a finite set yields sequences of its elements.             *)
LEMMA OrderIsSeq ==
  ASSUME NEW S, IsFiniteSet(S), NEW order \in SetToSeqs(S)
  PROVE  /\ order \in Seq(S)
         /\ DOMAIN order = 1..Len(order)
<1>1. Cardinality(S) \in Nat
  BY FS_CardinalityType
<1>2. order \in [1..Cardinality(S) -> S]
  BY DEF SetToSeqs
<1> QED
  BY <1>1, <1>2

(* A sequence of tasks put in front of what is left of a stack.            *)
LEMMA PushedIsSeq ==
  ASSUME NEW T, NEW stack \in Seq(T), stack # << >>, NEW tasks \in Seq(T)
  PROVE  /\ tasks \o Tail(stack) \in Seq(T)
         /\ Tail(stack) \in Seq(T) /\ Head(stack) \in T
<1>1. Tail(stack) \in Seq(T) /\ Head(stack) \in T
  BY HeadTailProperties
<1> QED
  BY <1>1, ConcatProperties

-----------------------------------------------------------------------------
(***************************************************************************)
(* MerkleProofs: the proof a transaction carries for itself is its own.    *)
(***************************************************************************)

(* The entry that BEEF b of transaction x holds for x itself.              *)
Own(b, x) == b[x] # NoProof => b[x].tx = x

(* A task of a handler with proof p: a loaded BEEF that is to be updated   *)
(* is the one of the proof's transaction, or its transaction was loaded    *)
(* without a proof of its own.                                             *)
SoundTask(p, t) ==
  /\ t.kind = "update" =>
       Own(t.beef, t.x) /\ (t.top => t.x = p.tx) /\ (~ t.top => t.beef[t.x] = NoProof)
  /\ t.kind = "write" => Own(t.beef, t.x)

SoundTasks(p) == {t \in ProofTask : SoundTask(p, t)}

(* The inductive invariant: every loaded BEEF waits for its write.         *)
SoundHandling(r) ==
  /\ r.pc # "idle" => r.proof \in Proof
  /\ r.stack \in Seq(SoundTasks(r.proof))

MerkleInv == ProofsAreOwn /\ \A h \in Handlers : SoundHandling(handling[h])

LEMMA SoundNotHandling == NotHandling \in Handling /\ SoundHandling(NotHandling)
BY EmptySeq DEF NotHandling, Handling, SoundHandling

LEMMA MerkleInitInv == MerkleConstants /\ MerkleInit => MerkleInv
<1> SUFFICES ASSUME MerkleConstants, MerkleInit PROVE MerkleInv
  OBVIOUS
<1>1. MerkleTypeOK
  <2>1. canon \in [Heights -> BlockRoots]
    BY DEF MerkleInit, RootAt, BlockRoots
  <2>2. handling \in [Handlers -> Handling]
    BY SoundNotHandling DEF MerkleInit
  <2> QED
    BY <2>1, <2>2 DEF MerkleInit, MerkleTypeOK, Beef, MerkleStates
<1>2. OwnProofIsOwn
  BY DEF MerkleInit, OwnProofIsOwn
<1>3. \A h \in Handlers : SoundHandling(handling[h])
  BY SoundNotHandling DEF MerkleInit
<1> QED
  BY <1>1, <1>2, <1>3 DEF MerkleInv, ProofsAreOwn

(* A step of one handler leaves the invariant alone if what it leaves in   *)
(* the handler is sound and so is the BEEF it stores.                      *)
LEMMA HandlerKeepsInv ==
  ASSUME MerkleInv, NEW h \in Handlers, NEW r, Proceed(h, r), r \in Handling, SoundHandling(r),
         MerkleTypeOK', \A x \in Mined : Own(beef'[x], x)
  PROVE  MerkleInv'
<1>1. \A k \in Handlers : SoundHandling(handling'[k])
  BY DEF Proceed, MerkleInv, ProofsAreOwn, MerkleTypeOK
<1>2. OwnProofIsOwn'
  BY DEF OwnProofIsOwn, Own
<1> QED
  BY <1>1, <1>2 DEF MerkleInv, ProofsAreOwn

(* updateInputProofs puts the proof of another transaction into the entry  *)
(* of x only if x had an entry.                                            *)
LEMMA UpdatedIsOwn ==
  ASSUME NEW b \in Beef, NEW x \in Mined, NEW p \in Proof, Own(b, x), b[x] = NoProof \/ x = p.tx
  PROVE  UpdateInputProofs(b, x, p) \in Beef /\ Own(UpdateInputProofs(b, x, p), x)
<1> DEFINE ends(y) == b[y] # NoProof \/ y = p.tx
<1>1. PICK V : UpdateInputProofs(b, x, p) = [y \in Mined |-> IF y \in V /\ ends(y) THEN p ELSE b[y]]
  BY DEF UpdateInputProofs
<1>2. UpdateInputProofs(b, x, p) \in Beef
  BY <1>1 DEF Beef
<1>3. UpdateInputProofs(b, x, p)[x] = p => x = p.tx \/ p = b[x]
  BY <1>1
<1> QED
  BY <1>1, <1>2 DEF Own

LEMMA MerkleNextInv ==
  ASSUME MerkleConstants, MerkleInv, MerkleNext
  PROVE  MerkleInv'
<1>0. /\ MerkleTypeOK /\ OwnProofIsOwn
      /\ \A h \in Handlers : SoundHandling(handling[h]) /\ handling[h] \in Handling
      /\ \A x \in Mined : beef[x] \in Beef /\ Own(beef[x], x)
  BY DEF MerkleInv, ProofsAreOwn, MerkleTypeOK, OwnProofIsOwn, Own
<1> USE DEF docs
<1>1. CASE Reorg
  <2>1. canon' \in [Heights -> BlockRoots]
    BY <1>0, <1>1 DEF Reorg, MerkleTypeOK, RootAt, BlockRoots
  <2>2. MerkleTypeOK'
    BY <1>0, <1>1, <2>1 DEF Reorg, MerkleTypeOK
  <2> QED
    BY <1>0, <1>1, <2>2 DEF Reorg, MerkleInv, ProofsAreOwn, OwnProofIsOwn
<1>2. CASE \E n \in Heights : ReconcileMerkleRoot(n)
  <2>1. PICK n \in Heights : ReconcileMerkleRoot(n)
    BY <1>2
  <2>2. state' \in [Mined -> MerkleStates] /\ matched' \subseteq Mined
    BY <1>0, <2>1 DEF ReconcileMerkleRoot, NextMerkleState, MerkleStates, MerkleTypeOK
  <2>3. MerkleTypeOK'
    BY <1>0, <2>1, <2>2 DEF ReconcileMerkleRoot, MerkleTypeOK
  <2> QED
    BY <1>0, <2>1, <2>3 DEF ReconcileMerkleRoot, MerkleInv, ProofsAreOwn, OwnProofIsOwn
<1>3. ASSUME NEW h \in Handlers,
             NEW x \in Mined, NEW n \in Heights \cup {0}, NEW k \in BlockRoots, ProcessIngest(h, x, n, k)
      PROVE  MerkleInv'
  <2>0. PICK p : p = [tx |-> x, height |-> n, root |-> k]
    OBVIOUS
  <2> DEFINE r == [NotHandling EXCEPT !.pc = "validate", !.proof = p]
  <2>1. p \in Proof
    BY <1>3, <2>0 DEF ProcessIngest, Proof
  <2>2. r \in Handling /\ r.pc = "validate" /\ r.proof = p /\ r.stack = NotHandling.stack
    BY <2>1, SoundNotHandling DEF Handling
  <2>3. r \in Handling /\ SoundHandling(r)
    <3>1. NotHandling.stack = << >>
      BY DEF NotHandling
    <3> QED
      BY <2>1, <2>2, <3>1, EmptySeq DEF SoundHandling
  <2>4. Proceed(h, r) /\ beef' = beef
    BY <1>3, <2>0 DEF ProcessIngest
  <2>5. MerkleTypeOK'
    BY <1>0, <1>3, <2>3, <2>4 DEF ProcessIngest, MerkleTypeOK, Proceed
  <2> QED
    BY <1>0, <2>3, <2>4, <2>5, HandlerKeepsInv
<1>4. ASSUME NEW h \in Handlers, ValidateMerkleProof(h)
      PROVE  MerkleInv'
  <2>1. PICK r : /\ Proceed(h, r) /\ beef' = beef
                 /\ r = [handling[h] EXCEPT !.pc = "find"] \/ r = NotHandling
    BY <1>4 DEF ValidateMerkleProof
  <2>2. r \in Handling /\ SoundHandling(r)
    BY <1>0, <1>4, <2>1, SoundNotHandling DEF ValidateMerkleProof, Handling, SoundHandling
  <2>3. MerkleTypeOK'
    BY <1>0, <1>4, <2>1, <2>2 DEF ValidateMerkleProof, MerkleTypeOK, Proceed
  <2> QED
    BY <1>0, <2>1, <2>2, <2>3, HandlerKeepsInv
<1>5. ASSUME NEW h \in Handlers, FindOutputsForTransaction(h)
      PROVE  MerkleInv'
  <2>0. PICK p : p = handling[h].proof
    OBVIOUS
  <2>1. p \in Proof
    BY <1>0, <1>5, <2>0 DEF FindOutputsForTransaction, SoundHandling
  <2>2. UpdateTask(p.tx, TRUE) \in SoundTasks(p)
    BY <1>0, <2>1 DEF UpdateTask, SoundTasks, SoundTask, ProofTask, Proof, MerkleTypeOK
  <2>3. [kind |-> "notify"] \in SoundTasks(p)
    BY DEF SoundTasks, SoundTask, ProofTask
  <2>8. PICK u, v : u = UpdateTask(p.tx, TRUE) /\ v = [kind |-> "notify"]
    OBVIOUS
  <2> DEFINE s == <<u, v>>
             r == [handling[h] EXCEPT !.pc = "tasks", !.stack = s]
  <2>4. s \in Seq(SoundTasks(p)) /\ s \in Seq(ProofTask)
    <3>0. u \in SoundTasks(p) /\ v \in SoundTasks(p)
      BY <2>2, <2>3, <2>8
    <3>1. s \in Seq(SoundTasks(p))
      BY <3>0
    <3> QED
      BY <3>1, SeqMonotonic DEF SoundTasks
  <2> HIDE DEF s
  <2>5. r \in Handling /\ SoundHandling(r)
    BY <1>0, <2>0, <2>1, <2>4 DEF Handling, SoundHandling
  <2>6. Proceed(h, r) /\ beef' = beef
    BY <1>5, <2>0, <2>8 DEF FindOutputsForTransaction, s
  <2>7. MerkleTypeOK'
    BY <1>0, <1>5, <2>5, <2>6 DEF FindOutputsForTransaction, MerkleTypeOK, Proceed
  <2> QED
    BY <1>0, <2>5, <2>6, <2>7, HandlerKeepsInv
<1>6. ASSUME NEW h \in Handlers, UpdateMerkleProof(h)
      PROVE  MerkleInv'
  <2>0. PICK p, s, t : p = handling[h].proof /\ s = handling[h].stack /\ t = Head(s)
    OBVIOUS
  <2>1. /\ p \in Proof /\ s \in Seq(SoundTasks(p)) /\ s # << >> /\ handling[h].pc = "tasks"
        /\ t \in SoundTasks(p) /\ t.kind = "update"
    <3>1. p \in Proof /\ s \in Seq(SoundTasks(p)) /\ s # << >> /\ t.kind = "update"
          /\ handling[h].pc = "tasks"
      BY <1>0, <1>6, <2>0 DEF UpdateMerkleProof, TopTask, SoundHandling
    <3> QED
      BY <2>0, <3>1, PushedIsSeq
  <2>2. /\ t.x \in Mined /\ t.beef \in Beef /\ t.height \in Nat /\ t.top \in BOOLEAN
        /\ Own(t.beef, t.x) /\ (t.top => t.x = p.tx) /\ (~ t.top => t.beef[t.x] = NoProof)
    BY <2>1 DEF SoundTasks, SoundTask, ProofTask
  <2> DEFINE unchanged == IsMerkleRootUnchanged(t.beef[t.x], p.root)
             up == [kind |-> "height", x |-> t.x, height |-> IF unchanged THEN t.height ELSE p.height]
             last == IF t.top THEN <<up>> ELSE << >>
             write == [kind |-> "write", x |-> t.x, beef |-> UpdateInputProofs(t.beef, t.x, p)]
             first == IF unchanged THEN << >> ELSE <<write>>
             new == (first \o last) \o Tail(s)
             r == [handling[h] EXCEPT !.stack = new]
  <2>3. up \in SoundTasks(p)
    <3>1. (IF unchanged THEN t.height ELSE p.height) \in Nat
      BY <2>1, <2>2 DEF Proof, MerkleConstants
    <3> QED
      BY <2>2, <3>1 DEF SoundTasks, SoundTask, ProofTask
  <2>4. write \in SoundTasks(p)
    BY <2>1, <2>2, UpdatedIsOwn DEF SoundTasks, SoundTask, ProofTask
  <2> HIDE DEF up, write, unchanged
  <2>5. first \in Seq(SoundTasks(p)) /\ last \in Seq(SoundTasks(p))
    BY <2>3, <2>4
  <2> HIDE DEF first, last
  <2>6. new \in Seq(SoundTasks(p)) /\ new \in Seq(ProofTask)
    <3>1. first \o last \in Seq(SoundTasks(p))
      BY <2>5, ConcatProperties
    <3>2. new \in Seq(SoundTasks(p))
      BY <2>1, <3>1, PushedIsSeq
    <3> QED
      BY <3>2, SeqMonotonic DEF SoundTasks
  <2>7. Proceed(h, r) /\ beef' = beef
    BY <1>6, <2>0 DEF UpdateMerkleProof, PushTasks, first, last, up, write, unchanged
  <2> HIDE DEF new
  <2>8. r \in Handling /\ SoundHandling(r)
    BY <1>0, <2>0, <2>1, <2>6 DEF Handling, SoundHandling
  <2>9. MerkleTypeOK'
    BY <1>0, <1>6, <2>7, <2>8 DEF UpdateMerkleProof, MerkleTypeOK, Proceed
  <2> QED
    BY <1>0, <2>7, <2>8, <2>9, HandlerKeepsInv
<1>7. ASSUME NEW h \in Handlers, UpdateTransactionBEEF(h)
      PROVE  MerkleInv'
  <2>0. PICK p, s, t : p = handling[h].proof /\ s = handling[h].stack /\ t = Head(s)
    OBVIOUS
  <2>1. /\ p \in Proof /\ s \in Seq(SoundTasks(p)) /\ s # << >> /\ t \in SoundTasks(p)
        /\ handling[h].pc = "tasks" /\ t.kind = "write"
    <3>1. /\ p \in Proof /\ s \in Seq(SoundTasks(p)) /\ s # << >>
          /\ handling[h].pc = "tasks" /\ t.kind = "write"
      BY <1>0, <1>7, <2>0 DEF UpdateTransactionBEEF, TopTask, SoundHandling
    <3> QED
      BY <2>0, <3>1, PushedIsSeq
  <2>2. t.x \in Mined /\ t.beef \in Beef /\ Own(t.beef, t.x)
    BY <2>1 DEF SoundTasks, SoundTask, ProofTask
  <2>3. PICK order \in SetToSeqs(ConsumedBy[t.x]) :
          Proceed(h, PushTasks(h, [n \in DOMAIN order |-> [kind |-> "consumer", x |-> order[n]]]))
    BY <1>7, <2>0 DEF UpdateTransactionBEEF
  <2>4. order \in Seq(Mined) /\ DOMAIN order = 1..Len(order)
    <3>1. ConsumedBy[t.x] \subseteq Mined /\ IsFiniteSet(Mined)
      BY <2>2 DEF MerkleConstants
    <3>2. IsFiniteSet(ConsumedBy[t.x])
      BY <3>1, FS_Subset
    <3>3. order \in Seq(ConsumedBy[t.x]) /\ DOMAIN order = 1..Len(order)
      BY <3>2, OrderIsSeq
    <3> QED
      BY <3>1, <3>3, SeqMonotonic
  <2> DEFINE tasks == [n \in DOMAIN order |-> [kind |-> "consumer", x |-> order[n]]]
             new == tasks \o Tail(s)
             r == [handling[h] EXCEPT !.stack = new]
  <2>5. tasks \in Seq(SoundTasks(p))
    <3>1. \A n \in 1..Len(order) : [kind |-> "consumer", x |-> order[n]] \in SoundTasks(p)
      BY <2>4, ElementOfSeq DEF SoundTasks, SoundTask, ProofTask
    <3>2. Len(order) \in Nat
      BY <2>4
    <3> QED
      BY <2>4, <3>1, <3>2
  <2>6. Proceed(h, r)
    BY <2>0, <2>3 DEF PushTasks
  <2> HIDE DEF tasks
  <2>7. new \in Seq(SoundTasks(p)) /\ new \in Seq(ProofTask)
    <3>1. new \in Seq(SoundTasks(p))
      BY <2>1, <2>5, PushedIsSeq
    <3> QED
      BY <3>1, SeqMonotonic DEF SoundTasks
  <2> HIDE DEF new
  <2>8. r \in Handling /\ SoundHandling(r)
    BY <1>0, <2>0, <2>1, <2>7 DEF Handling, SoundHandling
  <2>9. beef' = [beef EXCEPT ![t.x] = t.beef]
    BY <1>7, <2>0 DEF UpdateTransactionBEEF
  <2>10. beef' \in [Mined -> Beef] /\ \A x \in Mined : Own(beef'[x], x)
    BY <1>0, <2>2, <2>9 DEF MerkleTypeOK
  <2>11. MerkleTypeOK'
    BY <1>0, <1>7, <2>6, <2>8, <2>10 DEF UpdateTransactionBEEF, MerkleTypeOK, Proceed
  <2> QED
    BY <2>6, <2>8, <2>10, <2>11, HandlerKeepsInv
<1>8. ASSUME NEW h \in Handlers, PropagateMerkleProofToConsumers(h)
      PROVE  MerkleInv'
  <2>0. PICK p, s, t : p = handling[h].proof /\ s = handling[h].stack /\ t = Head(s)
    OBVIOUS
  <2>1. /\ p \in Proof /\ s \in Seq(SoundTasks(p)) /\ s # << >> /\ t \in SoundTasks(p)
        /\ handling[h].pc = "tasks" /\ t.kind = "consumer"
    <3>1. /\ p \in Proof /\ s \in Seq(SoundTasks(p)) /\ s # << >>
          /\ handling[h].pc = "tasks" /\ t.kind = "consumer"
      BY <1>0, <1>8, <2>0 DEF PropagateMerkleProofToConsumers, TopTask, SoundHandling
    <3> QED
      BY <2>0, <3>1, PushedIsSeq
  <2>2. t.x \in Mined
    BY <2>1 DEF SoundTasks, ProofTask
  <2>10. PICK u : u = UpdateTask(t.x, FALSE)
    OBVIOUS
  <2> DEFINE tasks == IF beef[t.x][t.x] # NoProof THEN << >> ELSE <<u>>
             new == tasks \o Tail(s)
             r == [handling[h] EXCEPT !.stack = new]
  <2>3. beef[t.x][t.x] = NoProof => UpdateTask(t.x, FALSE) \in SoundTasks(p)
    BY <1>0, <2>1, <2>2 DEF UpdateTask, SoundTasks, SoundTask, ProofTask, MerkleTypeOK
  <2>4. tasks \in Seq(SoundTasks(p))
    <3>1. CASE beef[t.x][t.x] # NoProof
      BY <3>1, EmptySeq
    <3>2. CASE beef[t.x][t.x] = NoProof
      <4>1. u \in SoundTasks(p) /\ tasks = <<u>>
        BY <2>3, <2>10, <3>2
      <4>2. <<u>> \in Seq(SoundTasks(p))
        BY <4>1
      <4> QED
        BY <4>1, <4>2
    <3> QED
      BY <3>1, <3>2
  <2>5. Tail(s) \in Seq(SoundTasks(p)) /\ << >> \o Tail(s) = Tail(s)
    BY <2>1, PushedIsSeq, ConcatEmptySeq
  <2>6. Proceed(h, r) /\ beef' = beef
    BY <1>8, <2>0, <2>5, <2>10 DEF PropagateMerkleProofToConsumers, PushTasks, PopTask
  <2> HIDE DEF tasks
  <2>7. new \in Seq(SoundTasks(p)) /\ new \in Seq(ProofTask)
    <3>1. new \in Seq(SoundTasks(p))
      BY <2>1, <2>4, PushedIsSeq
    <3> QED
      BY <3>1, SeqMonotonic DEF SoundTasks
  <2> HIDE DEF new
  <2>8. r \in Handling /\ SoundHandling(r)
    BY <1>0, <2>0, <2>1, <2>7 DEF Handling, SoundHandling
  <2>9. MerkleTypeOK'
    BY <1>0, <1>8, <2>6, <2>8 DEF PropagateMerkleProofToConsumers, MerkleTypeOK, Proceed
  <2> QED
    BY <1>0, <2>6, <2>8, <2>9, HandlerKeepsInv
<1>9. ASSUME NEW h \in Handlers, UpdateOutputBlockHeight(h)
      PROVE  MerkleInv'
  <2>0. PICK p, s, t : p = handling[h].proof /\ s = handling[h].stack /\ t = Head(s)
    OBVIOUS
  <2>1. /\ p \in Proof /\ s \in Seq(SoundTasks(p)) /\ s # << >> /\ t \in SoundTasks(p)
        /\ handling[h].pc = "tasks" /\ t.kind = "height" /\ Tail(s) \in Seq(SoundTasks(p))
    <3>1. /\ p \in Proof /\ s \in Seq(SoundTasks(p)) /\ s # << >>
          /\ handling[h].pc = "tasks" /\ t.kind = "height"
      BY <1>0, <1>9, <2>0 DEF UpdateOutputBlockHeight, TopTask, SoundHandling
    <3> QED
      BY <2>0, <3>1, PushedIsSeq
  <2>2. t.x \in Mined /\ t.height \in Nat
    BY <2>1 DEF SoundTasks, ProofTask
  <2>3. PICK new : new = Tail(s)
    OBVIOUS
  <2>4. new \in Seq(SoundTasks(p)) /\ new \in Seq(ProofTask)
    BY <2>1, <2>3, SeqMonotonic DEF SoundTasks
  <2> DEFINE r == [handling[h] EXCEPT !.stack = new]
  <2>5. Proceed(h, r) /\ beef' = beef
    BY <1>9, <2>0, <2>3 DEF UpdateOutputBlockHeight, PopTask
  <2>6. r \in Handling /\ SoundHandling(r)
    BY <1>0, <2>0, <2>1, <2>4 DEF Handling, SoundHandling
  <2>7. height' = [height EXCEPT ![t.x] = t.height]
    BY <1>9, <2>0 DEF UpdateOutputBlockHeight
  <2>8. MerkleTypeOK'
    BY <1>0, <1>9, <2>2, <2>5, <2>6, <2>7 DEF UpdateOutputBlockHeight, MerkleTypeOK, Proceed
  <2> QED
    BY <1>0, <2>5, <2>6, <2>8, HandlerKeepsInv
<1>10. ASSUME NEW h \in Handlers, NotifyBlockHeight(h) \/ HandlerFails(h)
       PROVE  MerkleInv'
  <2>1. handling[h].pc # "idle" /\ Proceed(h, NotHandling) /\ beef' = beef
    BY <1>10 DEF NotifyBlockHeight, HandlerFails, TopTask
  <2>2. handling[h].proof \in Proof
    BY <1>0, <2>1 DEF SoundHandling
  <2>3. told' \in [Mined -> Nat]
    BY <1>0, <1>10, <2>2 DEF NotifyBlockHeight, HandlerFails, MerkleTypeOK, Proof, MerkleConstants
  <2>4. MerkleTypeOK'
    BY <1>0, <1>10, <2>1, <2>3, SoundNotHandling
       DEF NotifyBlockHeight, HandlerFails, MerkleTypeOK, Proceed
  <2> QED
    BY <1>0, <2>1, <2>4, SoundNotHandling, HandlerKeepsInv
<1> QED
  BY <1>1, <1>2, <1>3, <1>4, <1>5, <1>6, <1>7, <1>8, <1>9, <1>10 DEF MerkleNext, HandlerStep

(* ProofsAreOwn holds for any number of handlers, any transactions and any *)
(* chain: the proof that a stored transaction carries for itself contains  *)
(* that transaction, whatever handlers overwrite one another's BEEFs and   *)
(* wherever one of them fails.                                             *)
THEOREM OwnProofs == MerkleConstants /\ MerkleSpec => []ProofsAreOwn
<1> SUFFICES ASSUME MerkleConstants PROVE MerkleSpec => []ProofsAreOwn
  OBVIOUS
<1>1. MerkleInit => MerkleInv
  BY MerkleInitInv
<1>2. MerkleInv /\ [MerkleNext]_merkleVars => MerkleInv'
  <2> SUFFICES ASSUME MerkleInv, [MerkleNext]_merkleVars PROVE MerkleInv'
    OBVIOUS
  <2>1. CASE MerkleNext
    BY <2>1, MerkleNextInv
  <2>2. CASE UNCHANGED merkleVars
    BY <2>2 DEF merkleVars, MerkleInv, ProofsAreOwn, MerkleTypeOK, OwnProofIsOwn
  <2> QED
    BY <2>1, <2>2
<1>3. MerkleInv => ProofsAreOwn
  BY DEF MerkleInv
<1> QED
  BY <1>1, <1>2, <1>3, PTL DEF MerkleSpec
-----------------------------------------------------------------------------
(***************************************************************************)
(* LegacySubmit: a transaction recorded as applied is served.              *)
(*                                                                         *)
(* What a submission deletes from the store or from the index has been     *)
(* marked spent in that topic before.  This is so for its own inputs, once *)
(* markSpentAndNotify is through with the topic, and for whatever          *)
(* deleteUTXODeep reaches from them, because a consumption edge starts at  *)
(* an output that the submission which wrote it had marked.                *)
(***************************************************************************)

(* All of S is marked spent in topic i.                                    *)
AllMarked(i, S, m) == \A o \in S : <<i, o>> \in m

(* What a submission has read in topic i came after the marks of what the  *)
(* outputs it read had consumed.                                           *)
KnownOutputs(i, m) == {o \in Output : AllMarked(i, o.consumed, m)}

(* What deleteUTXODeep still has to visit.                                 *)
MarkedTask(i, m, t) ==
  IF t.kind = "stale" THEN <<i, t.op>> \in m
  ELSE <<i, t.output.op>> \in m /\ AllMarked(i, t.output.consumed, m)
MarkedTasks(i, m) == {t \in Task : MarkedTask(i, m, t)}

(* Output o of topic i is stored and indexed, or was marked spent; while   *)
(* the submission is indexing its outputs, those in `pending' are not      *)
(* indexed yet.                                                            *)
Served(i, o, m, out, vw, pending) ==
  <<i, o>> \in m \/ (o \in out[i] /\ o \in vw[i] \cup pending)

SoundReads(r, m) ==
  /\ r.at \in Range1
  /\ r.pc # "idle" => r.tx \in Submitted
  /\ \A i \in Range1 : /\ IsFiniteSet(r.inputs[i])
                       /\ r.inputs[i] \subseteq KnownOutputs(i, m)
                       /\ r.retain[i] \subseteq OpsOf(r.inputs[i])

Committing == {"separate", "delete", "notifyAdmitted", "updateConsumedBy", "applied"}

SoundMarks(r, m) ==
  /\ r.pc \in {"mark", "notifySpent"} =>
       \A i \in Range1 \ r.dupes : i < r.at => AllMarked(i, OpsOf(r.inputs[i]), m)
  /\ r.pc = "mark" => AllMarked(r.at, OpsOf(r.inputs[r.at]) \ r.left, m)
  /\ r.pc = "notifySpent" => /\ AllMarked(r.at, OpsOf(r.inputs[r.at]), m)
                             /\ r.left \subseteq OpsOf(r.inputs[r.at])
  /\ r.pc \in {"broadcast"} \cup Committing =>
       \A i \in Range1 \ r.dupes : AllMarked(i, OpsOf(r.inputs[i]), m)
  /\ r.pc \in Committing => r.at \notin r.dupes

SoundStack(r, m) ==
  /\ r.pc # "delete" => r.stack = << >>
  /\ r.stack \in Seq(MarkedTasks(r.at, m))

SoundAdmits(r, m, out, vw) ==
  /\ r.pc = "notifyAdmitted" => \A o \in Admits[r.tx] : Served(r.at, o, m, out, vw, r.left)
  /\ r.pc \in {"updateConsumedBy", "applied"} =>
       \A o \in Admits[r.tx] : Served(r.at, o, m, out, vw, {})

SoundCall(r, m, out, vw) ==
  SoundReads(r, m) /\ SoundMarks(r, m) /\ SoundStack(r, m) /\ SoundAdmits(r, m, out, vw)

SourcesMarked == \A i \in Range1 : \A e \in edges[i] : <<i, e[1]>> \in marks

(* The inductive invariant.                                                *)
SubmitInv ==
  /\ SubmitsAreWhole /\ SourcesMarked
  /\ \A c \in Callers : SoundCall(call[c], marks, outputs, view)

(* A nonempty set of numbers has a least one.                              *)
LEMMA LeastOf ==
  ASSUME NEW S, S \subseteq Nat, S # {}
  PROVE  \E i \in S : \A j \in S : i <= j
<1> DEFINE R == OpToRel(<, Nat)
<1>1. R = {ss \in Nat \X Nat : ss[1] < ss[2]}
  BY DEF OpToRel
<1>2. IsWellFoundedOn(R, Nat)
  BY NatLessThanWellFounded
<1> HIDE DEF R
<1>3. PICK i \in S : \A j \in S : ~ (<<j, i>> \in R)
  BY <1>2, WFMin
<1>4. \A j \in S : ~ (j < i)
  BY <1>1, <1>3
<1> QED
  BY <1>4

(* The loops over p.Topics pass over duplicates only.                      *)
LEMMA NextTopicPasses ==
  ASSUME LegacyConstants, NEW r, NEW first \in Nat, first >= 1
  PROVE  \/ /\ NextTopic(r, first) = 0
            /\ \A j \in Range1 : first <= j => j \in r.dupes
         \/ /\ NextTopic(r, first) \in Range1 \ r.dupes /\ first <= NextTopic(r, first)
            /\ NextTopic(r, first) # 0
            /\ \A j \in Range1 : first <= j /\ j < NextTopic(r, first) => j \in r.dupes
<1>0. Len(Topics) \in Nat
  BY DEF LegacyConstants
<1>1. PICK rest : rest = {i \in first..Len(Topics) : i \notin r.dupes}
  OBVIOUS
<1>2. CASE rest = {}
  <2>1. NextTopic(r, first) = 0
    BY <1>1, <1>2 DEF NextTopic
  <2> QED
    BY <1>0, <1>1, <1>2, <2>1 DEF Range1
<1>3. CASE rest # {}
  <2>1. NextTopic(r, first) = CHOOSE i \in rest : \A j \in rest : i <= j
    BY <1>1, <1>3 DEF NextTopic
  <2>2. \E i \in rest : \A j \in rest : i <= j
    <3>1. rest \subseteq Nat
      BY <1>0, <1>1
    <3> QED
      BY <1>3, <3>1, LeastOf
  <2>3. PICK i : i = NextTopic(r, first)
    OBVIOUS
  <2>4. i \in rest /\ \A j \in rest : i <= j
    BY <2>1, <2>2, <2>3
  <2>5. i \in Range1 \ r.dupes /\ first <= i /\ i # 0
    BY <1>0, <1>1, <2>4 DEF Range1
  <2>6. \A j \in Range1 : first <= j /\ j < i => j \in r.dupes
    BY <1>0, <1>1, <2>4, <2>5 DEF Range1
  <2> QED
    BY <2>3, <2>5, <2>6
<1> QED
  BY <1>2, <1>3

LEMMA SoundNoCall ==
  ASSUME LegacyConstants, NEW m, NEW out, NEW vw
  PROVE  NoCall \in Call /\ SoundCall(NoCall, m, out, vw)
<1>1. Range1 # {} /\ 1 \in Range1 /\ Range1 \subseteq Nat
  <2>1. Len(Topics) \in Nat \ {0}
    BY EmptySeq DEF LegacyConstants
  <2> QED
    BY <2>1 DEF Range1
<1>2. NoInputs \in [Range1 -> SUBSET Output] /\ NoInputs \in [Range1 -> SUBSET Coins]
  BY DEF NoInputs
<1>3. NoCall \in Call
  BY <1>1, <1>2, EmptySeq DEF NoCall, Call
<1>4. SoundReads(NoCall, m)
  BY <1>1, FS_EmptySet DEF SoundReads, NoCall, NoInputs, OpsOf
<1>5. SoundMarks(NoCall, m)
  BY DEF SoundMarks, NoCall, Committing
<1>6. SoundStack(NoCall, m)
  BY EmptySeq DEF SoundStack, NoCall
<1>7. SoundAdmits(NoCall, m, out, vw)
  BY DEF SoundAdmits, NoCall
<1> QED
  BY <1>3, <1>4, <1>5, <1>6, <1>7 DEF SoundCall

(* What another submission may do meanwhile: it marks more, and removes    *)
(* nothing from the store or the index that is not marked.                 *)
Preserves(m, out, vw, m2, out2, vw2) ==
  /\ m \subseteq m2
  /\ \A i \in Range1 : \A o \in Coins :
       <<i, o>> \notin m2 => (o \in out[i] => o \in out2[i]) /\ (o \in vw[i] => o \in vw2[i])

LEMMA SoundCallStays ==
  ASSUME LegacyConstants, NEW r \in Call, NEW m, NEW out, NEW vw, NEW m2, NEW out2, NEW vw2,
         SoundCall(r, m, out, vw), Preserves(m, out, vw, m2, out2, vw2)
  PROVE  SoundCall(r, m2, out2, vw2)
<1>0. m \subseteq m2 /\ r.at \in Range1
  BY DEF Preserves, SoundCall, SoundReads
<1>1. \A i \in Range1 : KnownOutputs(i, m) \subseteq KnownOutputs(i, m2)
  BY <1>0 DEF KnownOutputs, AllMarked
<1>2. SoundReads(r, m2)
  BY <1>1 DEF SoundReads, SoundCall
<1>3. SoundMarks(r, m2)
  BY <1>0 DEF SoundMarks, SoundCall, AllMarked
<1>4. MarkedTasks(r.at, m) \subseteq MarkedTasks(r.at, m2)
  BY <1>0 DEF MarkedTasks, MarkedTask, AllMarked
<1>5. SoundStack(r, m2)
  BY <1>4, SeqMonotonic DEF SoundStack, SoundCall
<1>6. SoundAdmits(r, m2, out2, vw2)
  <2>1. ASSUME NEW o \in Coins, NEW pending, Served(r.at, o, m, out, vw, pending)
        PROVE  Served(r.at, o, m2, out2, vw2, pending)
    BY <1>0, <2>1 DEF Served, Preserves
  <2>2. r.pc # "idle" => Admits[r.tx] \subseteq Coins
    BY DEF SoundCall, SoundReads, LegacyConstants
  <2> QED
    BY <2>1, <2>2 DEF SoundAdmits, SoundCall
<1> QED
  BY <1>2, <1>3, <1>5, <1>6 DEF SoundCall

(* A step of one submission keeps the invariant if what it leaves of the   *)
(* submission is sound and what it records is served.                      *)
LEMMA StepKeepsInv ==
  ASSUME LegacyConstants, SubmitInv, NEW c \in Callers, NEW r \in Call, Step(c, r),
         SoundCall(r, marks', outputs', view'), Preserves(marks, outputs, view, marks', outputs', view'),
         SubmitTypeOK', SourcesMarked',
         \A a \in recorded' \ recorded : \A o \in Admits[a[2]] :
           Served(a[1], o, marks', outputs', view', {})
  PROVE  SubmitInv'
<1>0. SubmitTypeOK /\ AppliedIsServed /\ \A d \in Callers : call[d] \in Call
  BY DEF SubmitInv, SubmitsAreWhole, SubmitTypeOK
<1>1. \A d \in Callers : SoundCall(call'[d], marks', outputs', view')
  <2> SUFFICES ASSUME NEW d \in Callers PROVE SoundCall(call'[d], marks', outputs', view')
    OBVIOUS
  <2>1. CASE d = c
    BY <1>0, <2>1 DEF Step, SubmitTypeOK
  <2>2. CASE d # c
    <3>1. call'[d] = call[d] /\ call[d] \in Call /\ SoundCall(call[d], marks, outputs, view)
      BY <1>0, <2>2 DEF Step, SubmitInv, SubmitTypeOK
    <3> QED
      BY <3>1, SoundCallStays
  <2> QED
    BY <2>1, <2>2
<1>2. AppliedIsServed'
  <2> SUFFICES ASSUME NEW a \in recorded', NEW o \in Admits[a[2]]
               PROVE  <<a[1], o>> \in marks' \/ (o \in outputs'[a[1]] /\ o \in view'[a[1]])
    BY DEF AppliedIsServed
  <2>1. CASE a \in recorded
    <3>1. a[1] \in Range1 /\ o \in Coins
      BY <1>0, <2>1 DEF SubmitTypeOK, LegacyConstants
    <3>2. <<a[1], o>> \in marks \/ (o \in outputs[a[1]] /\ o \in view[a[1]])
      BY <1>0, <2>1 DEF AppliedIsServed
    <3> QED
      BY <3>1, <3>2 DEF Preserves
  <2>2. CASE a \notin recorded
    BY <2>2 DEF Served
  <2> QED
    BY <2>1, <2>2
<1> QED
  BY <1>1, <1>2 DEF SubmitInv, SubmitsAreWhole

(* markSpentAndNotify goes on to the next topic, or to the broadcast, once *)
(* the topics before it are marked.                                        *)
LEMMA SoundEnterMark ==
  ASSUME LegacyConstants, NEW r \in Call, NEW first \in Nat, first >= 1, NEW m, NEW out, NEW vw,
         r.pc # "idle", SoundReads(r, m), r.stack = << >>,
         \A i \in Range1 \ r.dupes : i < first => AllMarked(i, OpsOf(r.inputs[i]), m)
  PROVE  EnterMark(r, first) \in Call /\ SoundCall(EnterMark(r, first), m, out, vw)
<1>0. PICK i, s : i = NextTopic(r, first) /\ s = EnterMark(r, first)
  OBVIOUS
<1>1. CASE i = 0
  <2>1. s = [r EXCEPT !.pc = "broadcast"]
    BY <1>0, <1>1 DEF EnterMark
  <2>2. s \in Call
    BY <2>1 DEF Call, Steps
  <2>3. /\ s.pc = "broadcast" /\ s.tx = r.tx /\ s.at = r.at /\ s.dupes = r.dupes
        /\ s.inputs = r.inputs /\ s.retain = r.retain /\ s.stack = r.stack
    BY <2>1 DEF Call
  <2>4. SoundReads(s, m)
    BY <2>3 DEF SoundReads
  <2>5. \A j \in Range1 \ r.dupes : j < first
    <3>1. \A j \in Range1 : first <= j => j \in r.dupes
      BY <1>0, <1>1, NextTopicPasses
    <3> QED
      BY <3>1 DEF Range1
  <2>6. SoundMarks(s, m)
    BY <2>3, <2>5 DEF SoundMarks, Committing
  <2>7. SoundStack(s, m) /\ SoundAdmits(s, m, out, vw)
    BY <2>3, EmptySeq DEF SoundStack, SoundAdmits
  <2> QED
    BY <1>0, <2>2, <2>4, <2>6, <2>7 DEF SoundCall
<1>2. CASE i # 0
  <2>1. s = [r EXCEPT !.pc = "mark", !.at = i, !.left = OpsOf(r.inputs[i])]
    BY <1>0, <1>2 DEF EnterMark
  <2>2. /\ i \in Range1 \ r.dupes /\ first <= i
        /\ \A j \in Range1 : first <= j /\ j < i => j \in r.dupes
    BY <1>0, <1>2, NextTopicPasses
  <2>3. OpsOf(r.inputs[i]) \subseteq Coins /\ i \in Nat
    BY <2>2 DEF OpsOf, Call, Output, Range1
  <2>4. s \in Call
    BY <2>1, <2>3 DEF Call, Steps
  <2>5. /\ s.pc = "mark" /\ s.tx = r.tx /\ s.at = i /\ s.dupes = r.dupes
        /\ s.inputs = r.inputs /\ s.retain = r.retain /\ s.stack = r.stack
        /\ s.left = OpsOf(r.inputs[i])
    BY <2>1 DEF Call
  <2>6. SoundReads(s, m)
    BY <2>2, <2>5 DEF SoundReads
  <2>7. \A j \in Range1 \ r.dupes : j < i => j < first
    BY <2>2 DEF Range1
  <2>8. SoundMarks(s, m)
    BY <2>5, <2>7 DEF SoundMarks, AllMarked, Committing
  <2>9. SoundStack(s, m) /\ SoundAdmits(s, m, out, vw)
    BY <2>5, EmptySeq DEF SoundStack, SoundAdmits
  <2> QED
    BY <1>0, <2>4, <2>6, <2>8, <2>9 DEF SoundCall
<1> QED
  BY <1>1, <1>2

(* commitAdmittedOutputs goes on to the next topic, or Submit returns.     *)
LEMMA SoundEnterCommit ==
  ASSUME LegacyConstants, NEW r \in Call, NEW first \in Nat, first >= 1, NEW m, NEW out, NEW vw,
         r.pc # "idle", SoundReads(r, m), r.stack = << >>,
         \A i \in Range1 \ r.dupes : AllMarked(i, OpsOf(r.inputs[i]), m)
  PROVE  EnterCommit(r, first) \in Call /\ SoundCall(EnterCommit(r, first), m, out, vw)
<1>0. PICK i, s : i = NextTopic(r, first) /\ s = EnterCommit(r, first)
  OBVIOUS
<1>1. CASE i = 0
  BY <1>0, <1>1, SoundNoCall DEF EnterCommit
<1>2. CASE i # 0
  <2>1. s = [r EXCEPT !.pc = "separate", !.at = i]
    BY <1>0, <1>2 DEF EnterCommit
  <2>2. i \in Range1 \ r.dupes /\ i \in Nat
    BY <1>0, <1>2, NextTopicPasses DEF Range1
  <2>3. s \in Call
    BY <2>1, <2>2 DEF Call, Steps
  <2>4. /\ s.pc = "separate" /\ s.tx = r.tx /\ s.at = i /\ s.dupes = r.dupes
        /\ s.inputs = r.inputs /\ s.retain = r.retain /\ s.stack = r.stack
    BY <2>1 DEF Call
  <2>5. SoundReads(s, m)
    BY <2>2, <2>4 DEF SoundReads
  <2>6. SoundMarks(s, m)
    BY <2>2, <2>4 DEF SoundMarks, Committing
  <2>7. SoundStack(s, m) /\ SoundAdmits(s, m, out, vw)
    BY <2>4, EmptySeq DEF SoundStack, SoundAdmits
  <2> QED
    BY <1>0, <2>3, <2>5, <2>6, <2>7 DEF SoundCall
<1> QED
  BY <1>1, <1>2

(* The next topic is identified, or the marking begins.                    *)
LEMMA SoundAfterIdentify ==
  ASSUME LegacyConstants, NEW r \in Call, NEW m, NEW out, NEW vw,
         r.pc # "idle", SoundReads(r, m), r.stack = << >>
  PROVE  AfterIdentify(r) \in Call /\ SoundCall(AfterIdentify(r), m, out, vw)
<1>0. PICK s : s = AfterIdentify(r)
  OBVIOUS
<1>1. CASE r.at < Len(Topics)
  <2>0. PICK n : n = r.at + 1
    OBVIOUS
  <2>1. s = [r EXCEPT !.pc = "check", !.at = n]
    BY <1>0, <1>1, <2>0 DEF AfterIdentify
  <2>2. n \in Nat /\ n \in Range1
    BY <1>1, <2>0 DEF SoundReads, Range1, LegacyConstants
  <2>3. s \in Call
    BY <2>1, <2>2 DEF Call, Steps
  <2>4. /\ s.pc = "check" /\ s.tx = r.tx /\ s.at = n
        /\ s.inputs = r.inputs /\ s.retain = r.retain /\ s.stack = r.stack
    BY <2>1 DEF Call
  <2>5. SoundReads(s, m)
    BY <2>2, <2>4 DEF SoundReads
  <2>6. SoundMarks(s, m) /\ SoundStack(s, m) /\ SoundAdmits(s, m, out, vw)
    BY <2>4, EmptySeq DEF SoundMarks, SoundStack, SoundAdmits, Committing
  <2> QED
    BY <1>0, <2>3, <2>5, <2>6 DEF SoundCall
<1>2. CASE ~ (r.at < Len(Topics))
  <2>1. AfterIdentify(r) = EnterMark(r, 1)
    BY <1>2 DEF AfterIdentify
  <2>2. \A i \in Range1 : ~ (i < 1)
    BY DEF Range1
  <2> QED
    BY <2>1, <2>2, SoundEnterMark
<1> QED
  BY <1>1, <1>2

(* A step that writes nothing.                                             *)
LEMMA QuietStepKeepsInv ==
  ASSUME LegacyConstants, SubmitInv, NEW c \in Callers, NEW r \in Call, Step(c, r),
         SoundCall(r, marks, outputs, view), UNCHANGED store
  PROVE  SubmitInv'
<1>1. SubmitTypeOK' /\ SourcesMarked'
  BY DEF SubmitInv, SubmitsAreWhole, SubmitTypeOK, SourcesMarked, Step, store
<1>2. /\ SoundCall(r, marks', outputs', view') /\ recorded' = recorded
      /\ Preserves(marks, outputs, view, marks', outputs', view')
  BY DEF store, Preserves
<1> QED
  BY <1>1, <1>2, StepKeepsInv

(* What is read of stored outputs in topic i.                              *)
LEMMA ReadIsKnown ==
  ASSUME LegacyConstants, SubmitInv, NEW i \in Range1, NEW o \in Coins
  PROVE  /\ ReadOutput(i, o) \in KnownOutputs(i, marks)
         /\ ReadOutput(i, o).op = o
<1>1. ReadOutput(i, o) \in Output
  BY DEF ReadOutput, Output
<1>2. AllMarked(i, ReadOutput(i, o).consumed, marks)
  BY DEF ReadOutput, AllMarked, SubmitInv, SourcesMarked
<1> QED
  BY <1>1, <1>2 DEF KnownOutputs, ReadOutput

LEMMA FoundIsKnown ==
  ASSUME LegacyConstants, SubmitInv, NEW i \in Range1, NEW ops \in SUBSET Coins
  PROVE  /\ FindOutputs(i, ops) \subseteq KnownOutputs(i, marks)
         /\ IsFiniteSet(FindOutputs(i, ops))
<1> DEFINE S == ops \cap outputs[i]
           f == [o \in S |-> ReadOutput(i, o)]
<1>1. FindOutputs(i, ops) \subseteq KnownOutputs(i, marks)
  BY ReadIsKnown DEF FindOutputs
<1>2. IsFiniteSet(S)
  BY FS_Subset DEF LegacyConstants
<1>3. f \in Surjection(S, FindOutputs(i, ops))
  BY DEF Surjection, FindOutputs
<1>4. IsFiniteSet(FindOutputs(i, ops))
  <2> HIDE DEF S, f
  <2> QED
    BY <1>2, <1>3, FS_Surjection
<1> QED
  BY <1>1, <1>4

(* The steps that only read.                                               *)
LEMMA ReadersKeepInv ==
  ASSUME LegacyConstants, SubmitInv, NEW c \in Callers,
         \/ DoesAppliedTransactionExist(c) \/ IdentifyAdmissibleOutputs(c) \/ MarkedSpent(c)
         \/ BroadcastIfNeeded(c) \/ SubmitFails(c)
  PROVE  SubmitInv'
<1>0. PICK r : r = call[c]
  OBVIOUS
<1>1. r \in Call /\ SoundCall(r, marks, outputs, view)
  BY <1>0 DEF SubmitInv, SubmitsAreWhole, SubmitTypeOK
<1>2. SoundReads(r, marks) /\ SoundMarks(r, marks) /\ SoundStack(r, marks)
  BY <1>1 DEF SoundCall
<1>3. CASE DoesAppliedTransactionExist(c)
  <2>1. r.pc = "check" /\ UNCHANGED store
    BY <1>0, <1>3 DEF DoesAppliedTransactionExist
  <2>2. CASE <<r.at, r.tx>> \in recorded
    <3>1. PICK d, q : d = r.dupes \cup {r.at} /\ q = [r EXCEPT !.dupes = d]
      OBVIOUS
    <3>2. q \in Call
      BY <1>1, <1>2, <3>1 DEF Call, SoundReads
    <3>3. /\ q.pc = r.pc /\ q.tx = r.tx /\ q.at = r.at /\ q.inputs = r.inputs
          /\ q.retain = r.retain /\ q.stack = r.stack
      BY <1>1, <3>1 DEF Call
    <3>4. SoundReads(q, marks) /\ q.stack = << >> /\ q.pc # "idle"
      BY <1>2, <2>1, <3>3 DEF SoundReads, SoundStack
    <3>5. Step(c, AfterIdentify(q))
      BY <1>0, <1>3, <2>2, <3>1 DEF DoesAppliedTransactionExist
    <3> QED
      BY <2>1, <3>2, <3>4, <3>5, SoundAfterIdentify, QuietStepKeepsInv
  <2>3. CASE <<r.at, r.tx>> \notin recorded
    <3>1. PICK q : q = [r EXCEPT !.pc = "identify"]
      OBVIOUS
    <3>2. /\ q \in Call /\ q.pc = "identify" /\ q.tx = r.tx /\ q.at = r.at
          /\ q.inputs = r.inputs /\ q.retain = r.retain /\ q.stack = r.stack
      BY <1>1, <3>1 DEF Call, Steps
    <3>3. SoundCall(q, marks, outputs, view)
      BY <1>2, <2>1, <3>2 DEF SoundCall, SoundReads, SoundMarks, SoundStack, SoundAdmits, Committing
    <3>4. Step(c, q)
      BY <1>0, <1>3, <2>3, <3>1 DEF DoesAppliedTransactionExist
    <3> QED
      BY <2>1, <3>2, <3>3, <3>4, QuietStepKeepsInv
  <2> QED
    BY <2>2, <2>3
<1>4. CASE IdentifyAdmissibleOutputs(c)
  <2>0. PICK found : found = FindOutputs(r.at, Spends[r.tx])
    OBVIOUS
  <2>1. r.pc = "identify" /\ UNCHANGED store
    BY <1>0, <1>4 DEF IdentifyAdmissibleOutputs
  <2>2. PICK retain \in SUBSET OpsOf(found) :
          Step(c, AfterIdentify([r EXCEPT !.inputs[r.at] = found, !.retain[r.at] = retain]))
    BY <1>0, <1>4, <2>0 DEF IdentifyAdmissibleOutputs
  <2>3. PICK q : q = [r EXCEPT !.inputs[r.at] = found, !.retain[r.at] = retain]
    OBVIOUS
  <2>4. r.at \in Range1 /\ r.tx \in Submitted
    BY <1>2, <2>1 DEF SoundReads
  <2>5. found \subseteq KnownOutputs(r.at, marks) /\ IsFiniteSet(found)
    <3>1. Spends[r.tx] \in SUBSET Coins
      BY <2>4 DEF LegacyConstants
    <3> QED
      BY <2>0, <2>4, <3>1, FoundIsKnown
  <2>6. found \in SUBSET Output /\ retain \in SUBSET Coins
    <3>1. found \in SUBSET Output
      BY <2>5 DEF KnownOutputs
    <3> QED
      BY <2>2, <3>1 DEF OpsOf, Output
  <2>7. q \in Call
    BY <1>1, <2>3, <2>4, <2>6 DEF Call
  <2>8. /\ q.pc = r.pc /\ q.tx = r.tx /\ q.at = r.at /\ q.stack = r.stack
        /\ q.inputs = [r.inputs EXCEPT ![r.at] = found]
        /\ q.retain = [r.retain EXCEPT ![r.at] = retain]
    BY <1>1, <2>3 DEF Call
  <2>9. SoundReads(q, marks) /\ q.stack = << >> /\ q.pc # "idle"
    <3>1. ASSUME NEW i \in Range1
          PROVE  /\ IsFiniteSet(q.inputs[i]) /\ q.inputs[i] \subseteq KnownOutputs(i, marks)
                 /\ q.retain[i] \subseteq OpsOf(q.inputs[i])
      <4>0. r.inputs \in [Range1 -> SUBSET Output] /\ r.retain \in [Range1 -> SUBSET Coins]
        BY <1>1 DEF Call
      <4>1. CASE i = r.at
        <5>1. q.inputs[i] = found /\ q.retain[i] = retain
          BY <2>8, <4>0, <4>1
        <5> QED
          BY <2>2, <2>5, <4>1, <5>1
      <4>2. CASE i # r.at
        <5>1. q.inputs[i] = r.inputs[i] /\ q.retain[i] = r.retain[i]
          BY <2>8, <4>0, <4>2
        <5> QED
          BY <1>2, <5>1 DEF SoundReads
      <4> QED
        BY <4>1, <4>2
    <3> QED
      BY <1>2, <2>1, <2>8, <3>1 DEF SoundReads, SoundStack
  <2> QED
    BY <2>1, <2>2, <2>3, <2>7, <2>9, SoundAfterIdentify, QuietStepKeepsInv
<1>5. CASE MarkedSpent(c)
  <2>0. PICK ops : ops = OpsOf(r.inputs[r.at])
    OBVIOUS
  <2>1. /\ r.pc = "mark" /\ r.left = {} /\ UNCHANGED store
        /\ Step(c, [r EXCEPT !.pc = "notifySpent", !.left = ops])
    BY <1>0, <1>5, <2>0 DEF MarkedSpent
  <2>2. PICK q : q = [r EXCEPT !.pc = "notifySpent", !.left = ops]
    OBVIOUS
  <2>3. ops \subseteq Coins
    BY <1>1, <1>2, <2>0 DEF Call, Output, OpsOf, SoundReads
  <2>4. /\ q \in Call /\ q.pc = "notifySpent" /\ q.tx = r.tx /\ q.at = r.at /\ q.dupes = r.dupes
        /\ q.inputs = r.inputs /\ q.retain = r.retain /\ q.stack = r.stack /\ q.left = ops
    BY <1>1, <2>2, <2>3 DEF Call, Steps
  <2>5. AllMarked(r.at, ops, marks)
    BY <1>2, <2>0, <2>1 DEF SoundMarks, AllMarked
  <2>6. SoundCall(q, marks, outputs, view)
    BY <1>2, <2>0, <2>1, <2>4, <2>5
       DEF SoundCall, SoundReads, SoundMarks, SoundStack, SoundAdmits, Committing
  <2> QED
    BY <2>1, <2>2, <2>4, <2>6, QuietStepKeepsInv
<1>6. CASE BroadcastIfNeeded(c)
  <2>1. r.pc = "broadcast" /\ Step(c, EnterCommit(r, 1)) /\ UNCHANGED store
    BY <1>0, <1>6 DEF BroadcastIfNeeded
  <2>2. r.stack = << >> /\ \A i \in Range1 \ r.dupes : AllMarked(i, OpsOf(r.inputs[i]), marks)
    BY <1>2, <2>1 DEF SoundStack, SoundMarks
  <2>3. /\ EnterCommit(r, 1) \in Call
        /\ SoundCall(EnterCommit(r, 1), marks, outputs, view)
    BY <1>1, <1>2, <2>1, <2>2, SoundEnterCommit
  <2> QED
    BY <2>1, <2>3, QuietStepKeepsInv
<1>7. CASE SubmitFails(c)
  BY <1>7, SoundNoCall, QuietStepKeepsInv DEF SubmitFails
<1> QED
  BY <1>3, <1>4, <1>5, <1>6, <1>7

(* A submission that is deleting, with another stack.                      *)
LEMMA SoundStackStep ==
  ASSUME LegacyConstants, NEW r \in Call, NEW m, NEW out, NEW vw, SoundCall(r, m, out, vw),
         r.pc = "separate" \/ r.pc = "delete", NEW s \in Seq(MarkedTasks(r.at, m))
  PROVE  /\ [r EXCEPT !.pc = "delete", !.stack = s] \in Call
         /\ SoundCall([r EXCEPT !.pc = "delete", !.stack = s], m, out, vw)
<1>0. PICK q : q = [r EXCEPT !.pc = "delete", !.stack = s]
  OBVIOUS
<1>1. s \in Seq(Task)
  BY SeqMonotonic DEF MarkedTasks
<1>2. /\ q \in Call /\ q.pc = "delete" /\ q.tx = r.tx /\ q.at = r.at /\ q.dupes = r.dupes
      /\ q.inputs = r.inputs /\ q.retain = r.retain /\ q.left = r.left /\ q.stack = s
  BY <1>0, <1>1 DEF Call, Steps
<1>3. SoundReads(q, m)
  BY <1>2 DEF SoundCall, SoundReads
<1>4. SoundMarks(q, m)
  BY <1>2 DEF SoundCall, SoundMarks, Committing
<1>5. SoundStack(q, m) /\ SoundAdmits(q, m, out, vw)
  BY <1>2 DEF SoundStack, SoundAdmits
<1> QED
  BY <1>0, <1>2, <1>3, <1>4, <1>5 DEF SoundCall

(* Once a submission commits, its inputs in the topic are marked.          *)
LEMMA InputsAreMarked ==
  ASSUME LegacyConstants, NEW r \in Call, NEW m, SoundReads(r, m), SoundMarks(r, m), r.pc \in Committing
  PROVE  /\ r.at \in Range1 /\ r.tx \in Submitted
         /\ r.inputs[r.at] \subseteq KnownOutputs(r.at, m) /\ IsFiniteSet(r.inputs[r.at])
         /\ AllMarked(r.at, OpsOf(r.inputs[r.at]), m) /\ r.retain[r.at] \subseteq OpsOf(r.inputs[r.at])
         /\ OpsOf(r.inputs[r.at]) \subseteq Coins
<1>1. r.at \in Range1 /\ r.at \notin r.dupes /\ r.pc # "idle"
  BY DEF SoundReads, SoundMarks, Committing
<1>2. AllMarked(r.at, OpsOf(r.inputs[r.at]), m)
  BY <1>1 DEF SoundMarks
<1>3. OpsOf(r.inputs[r.at]) \subseteq Coins
  BY <1>1 DEF Call, Output, OpsOf
<1> QED
  BY <1>1, <1>2, <1>3 DEF SoundReads

(* deleteUTXODeep: what it visits is marked.                               *)
LEMMA DeletersKeepInv ==
  ASSUME LegacyConstants, SubmitInv, NEW c \in Callers,
         \/ SeparateRetainedCoins(c) \/ DeleteUTXO(c) \/ FindStaleOutput(c) \/ DropConsumer(c)
  PROVE  SubmitInv'
<1>0. PICK r, i, T : r = call[c] /\ i = r.at /\ T = MarkedTasks(i, marks)
  OBVIOUS
<1>1. r \in Call /\ SoundCall(r, marks, outputs, view) /\ SubmitTypeOK /\ SourcesMarked
  BY <1>0 DEF SubmitInv, SubmitsAreWhole, SubmitTypeOK
<1>2. SoundReads(r, marks) /\ SoundMarks(r, marks) /\ SoundStack(r, marks) /\ r.stack \in Seq(T)
  BY <1>0, <1>1 DEF SoundCall, SoundStack
<1>3. r.pc = "separate" \/ r.pc = "delete"
  BY <1>0 DEF SeparateRetainedCoins, DeleteUTXO, FindStaleOutput, DropConsumer
<1>4. /\ i \in Range1 /\ r.inputs[i] \subseteq KnownOutputs(i, marks) /\ IsFiniteSet(r.inputs[i])
      /\ AllMarked(i, OpsOf(r.inputs[i]), marks)
  BY <1>0, <1>1, <1>2, <1>3, InputsAreMarked DEF Committing
<1>5. ASSUME NEW s \in Seq(T)
      PROVE  /\ [r EXCEPT !.pc = "delete", !.stack = s] \in Call
             /\ SoundCall([r EXCEPT !.pc = "delete", !.stack = s], marks, outputs, view)
  BY <1>0, <1>1, <1>3, <1>5, SoundStackStep
<1>6. r.pc = "delete" => \A s : [r EXCEPT !.stack = s] = [r EXCEPT !.pc = "delete", !.stack = s]
  BY <1>1 DEF Call
<1>7. CASE SeparateRetainedCoins(c)
  <2> DEFINE gone == {o \in r.inputs[i] : o.op \notin r.retain[i]}
  <2>1. PICK order \in SetToSeqs(gone) :
          Step(c, [r EXCEPT !.pc = "delete",
                            !.stack = [n \in DOMAIN order |-> [kind |-> "delete", output |-> order[n]]]])
    BY <1>0, <1>7 DEF SeparateRetainedCoins
  <2>2. IsFiniteSet(gone)
    BY <1>4, FS_Subset
  <2>3. order \in Seq(gone) /\ DOMAIN order = 1..Len(order) /\ Len(order) \in Nat
    <3> HIDE DEF gone
    <3> QED
      BY <2>2, OrderIsSeq
  <2>4. PICK s : s = [n \in DOMAIN order |-> [kind |-> "delete", output |-> order[n]]]
    OBVIOUS
  <2>5. \A o \in gone : [kind |-> "delete", output |-> o] \in T
    BY <1>0, <1>4 DEF MarkedTasks, MarkedTask, Task, KnownOutputs, AllMarked, OpsOf
  <2> HIDE DEF gone
  <2>6. s \in Seq(T)
    <3>1. \A n \in 1..Len(order) : [kind |-> "delete", output |-> order[n]] \in T
      BY <2>3, <2>5, ElementOfSeq
    <3> QED
      BY <2>3, <2>4, <3>1
  <2>7. UNCHANGED store
    BY <1>7 DEF SeparateRetainedCoins
  <2> QED
    BY <1>5, <2>1, <2>4, <2>6, <2>7, QuietStepKeepsInv
<1>8. CASE DeleteUTXO(c)
  <2>0. PICK t, o : t = Head(r.stack) /\ o = t.output
    OBVIOUS
  <2>1. r.pc = "delete" /\ r.stack # << >> /\ t.kind = "delete"
    BY <1>0, <1>8, <2>0 DEF DeleteUTXO
  <2>2. t \in T
    BY <1>2, <2>0, <2>1, HeadTailProperties
  <2>3. o \in Output /\ <<i, o.op>> \in marks /\ AllMarked(i, o.consumed, marks)
    BY <1>0, <2>0, <2>1, <2>2 DEF MarkedTasks, MarkedTask, Task
  <2>4. PICK order \in SetToSeqs(o.consumed) :
          Step(c, [r EXCEPT !.stack =
            [n \in DOMAIN order |-> [kind |-> "stale", parent |-> o.op, op |-> order[n]]] \o Tail(@)])
    BY <1>0, <1>8, <2>0 DEF DeleteUTXO
  <2>5. order \in Seq(o.consumed) /\ DOMAIN order = 1..Len(order) /\ Len(order) \in Nat
    <3>1. o.consumed \subseteq Coins
      BY <2>3 DEF Output
    <3>2. IsFiniteSet(o.consumed)
      BY <3>1, FS_Subset DEF LegacyConstants
    <3> QED
      BY <3>2, OrderIsSeq
  <2>6. PICK tasks : tasks = [n \in DOMAIN order |-> [kind |-> "stale", parent |-> o.op, op |-> order[n]]]
    OBVIOUS
  <2>7. \A k \in o.consumed : [kind |-> "stale", parent |-> o.op, op |-> k] \in T
    BY <1>0, <2>3 DEF MarkedTasks, MarkedTask, Task, AllMarked, Output
  <2>8. tasks \in Seq(T)
    <3>1. \A n \in 1..Len(order) : [kind |-> "stale", parent |-> o.op, op |-> order[n]] \in T
      BY <2>5, <2>7, ElementOfSeq
    <3> QED
      BY <2>5, <2>6, <3>1
  <2>9. PICK s : s = tasks \o Tail(r.stack)
    OBVIOUS
  <2>10. s \in Seq(T)
    BY <1>2, <2>1, <2>8, <2>9, PushedIsSeq
  <2>11. PICK q : q = [r EXCEPT !.pc = "delete", !.stack = s]
    OBVIOUS
  <2>12. Step(c, q) /\ q \in Call /\ SoundCall(q, marks, outputs, view)
    <3>1. Step(c, [r EXCEPT !.stack = s])
      BY <2>4, <2>6, <2>9
    <3> QED
      BY <1>5, <1>6, <2>1, <2>10, <2>11, <3>1
  <2>13. /\ marks' = marks /\ view' = view /\ edges' = edges /\ recorded' = recorded
         /\ UNCHANGED <<requests, wanted>>
    BY <1>8 DEF DeleteUTXO
  <2>14. /\ \/ outputs' = outputs /\ spentBy' = spentBy
            \/ /\ outputs' = [outputs EXCEPT ![i] = @ \ {o.op}]
               /\ spentBy' = [spentBy EXCEPT ![i][o.op] = Nobody]
    BY <1>0, <1>8, <2>0 DEF DeleteUTXO
  <2>15. /\ outputs' \in [Range1 -> SUBSET Coins] /\ spentBy' \in [Range1 -> [Coins -> Submitted \cup {Nobody}]]
         /\ Preserves(marks, outputs, view, marks', outputs', view')
    <3>1. outputs \in [Range1 -> SUBSET Coins] /\ spentBy \in [Range1 -> [Coins -> Submitted \cup {Nobody}]]
      BY <1>1 DEF SubmitTypeOK
    <3>2. outputs' \in [Range1 -> SUBSET Coins]
      BY <1>4, <2>14, <3>1
    <3>3. o.op \in Coins
      BY <2>3 DEF Output
    <3>4. spentBy' \in [Range1 -> [Coins -> Submitted \cup {Nobody}]]
      <4>1. [spentBy[i] EXCEPT ![o.op] = Nobody] \in [Coins -> Submitted \cup {Nobody}]
        BY <1>4, <3>1, <3>3
      <4>2. spentBy' = spentBy \/ spentBy' = [spentBy EXCEPT ![i] = [spentBy[i] EXCEPT ![o.op] = Nobody]]
        BY <1>4, <2>14, <3>1
      <4> QED
        BY <1>4, <3>1, <4>1, <4>2
    <3>5. Preserves(marks, outputs, view, marks', outputs', view')
      BY <1>4, <2>3, <2>13, <2>14, <3>1 DEF Preserves
    <3> QED
      BY <3>2, <3>4, <3>5
  <2>16. SubmitTypeOK' /\ SourcesMarked'
    BY <1>1, <2>12, <2>13, <2>15 DEF SubmitTypeOK, SourcesMarked, Step
  <2>17. SoundCall(q, marks', outputs', view')
    BY <2>12, <2>15, SoundCallStays
  <2> QED
    BY <2>12, <2>13, <2>15, <2>16, <2>17, StepKeepsInv
<1>9. CASE FindStaleOutput(c)
  <2>0. PICK t, stale : t = Head(r.stack) /\ stale = ReadOutput(i, t.op)
    OBVIOUS
  <2>1. r.pc = "delete" /\ r.stack # << >> /\ t.kind = "stale" /\ UNCHANGED store
    BY <1>0, <1>9, <2>0 DEF FindStaleOutput
  <2>2. t \in T /\ Tail(r.stack) \in Seq(T)
    BY <1>2, <2>0, <2>1, HeadTailProperties
  <2>3. t.op \in Coins /\ t.parent \in Coins /\ <<i, t.op>> \in marks
    BY <1>0, <2>1, <2>2 DEF MarkedTasks, MarkedTask, Task
  <2>4. stale \in KnownOutputs(i, marks) /\ stale.op = t.op
    BY <1>4, <2>0, <2>3, ReadIsKnown
  <2>5. PICK o, task : /\ o = [stale EXCEPT !.consumedBy = @ \ {t.parent}]
                       /\ task = [kind |-> IF stale.consumedBy = {} THEN "delete" ELSE "rewrite", output |-> o]
    OBVIOUS
  <2>6. o \in Output /\ o.op = t.op /\ AllMarked(i, o.consumed, marks)
    BY <2>4, <2>5 DEF KnownOutputs, Output, AllMarked
  <2>7. task \in T
    <3>1. task \in Task /\ task.kind # "stale" /\ task.output = o
      BY <2>5, <2>6 DEF Task
    <3> QED
      BY <1>0, <2>3, <2>6, <3>1 DEF MarkedTasks, MarkedTask
  <2>8. PICK s : s = IF t.op \in outputs[i] THEN <<task>> \o Tail(r.stack) ELSE Tail(r.stack)
    OBVIOUS
  <2>9. s \in Seq(T)
    <3>1. <<task>> \in Seq(T)
      BY <2>7
    <3>2. <<task>> \o Tail(r.stack) \in Seq(T)
      BY <1>2, <2>1, <3>1, PushedIsSeq
    <3> QED
      BY <2>2, <2>8, <3>2
  <2>10. Step(c, [r EXCEPT !.stack = s])
    BY <1>0, <1>9, <2>0, <2>5, <2>8 DEF FindStaleOutput
  <2> QED
    BY <1>5, <1>6, <2>1, <2>9, <2>10, QuietStepKeepsInv
<1>10. CASE DropConsumer(c)
  <2>0. PICK t, o : t = Head(r.stack) /\ o = t.output
    OBVIOUS
  <2>1. r.pc = "delete" /\ r.stack # << >> /\ t.kind = "rewrite"
    BY <1>0, <1>10, <2>0 DEF DropConsumer
  <2>2. t \in T
    BY <1>2, <2>0, <2>1, HeadTailProperties
  <2>3. o \in Output /\ <<i, o.op>> \in marks /\ AllMarked(i, o.consumed, marks)
    BY <1>0, <2>0, <2>1, <2>2 DEF MarkedTasks, MarkedTask, Task
  <2>4. PICK task : task = [kind |-> "delete", output |-> o]
    OBVIOUS
  <2>5. task \in T
    BY <1>0, <2>3, <2>4 DEF MarkedTasks, MarkedTask, Task
  <2>6. PICK s : s = <<task>> \o Tail(r.stack)
    OBVIOUS
  <2>7. s \in Seq(T)
    <3>1. <<task>> \in Seq(T)
      BY <2>5
    <3> QED
      BY <1>2, <2>1, <2>6, <3>1, PushedIsSeq
  <2>8. PICK q : q = [r EXCEPT !.pc = "delete", !.stack = s]
    OBVIOUS
  <2>9. Step(c, q) /\ q \in Call /\ SoundCall(q, marks, outputs, view)
    <3>1. Step(c, [r EXCEPT !.stack = s])
      BY <1>0, <1>10, <2>0, <2>4, <2>6 DEF DropConsumer
    <3> QED
      BY <1>5, <1>6, <2>1, <2>7, <2>8, <3>1
  <2>10. /\ outputs' = outputs /\ spentBy' = spentBy /\ marks' = marks /\ view' = view
         /\ recorded' = recorded /\ UNCHANGED <<requests, wanted>>
    BY <1>10 DEF DropConsumer
  <2>11. edges' = [edges EXCEPT ![i] = {e \in @ : e[1] # o.op} \cup ({o.op} \X o.consumedBy)]
    BY <1>0, <1>10, <2>0 DEF DropConsumer, ReplaceConsumedBy
  <2>12. edges' \in [Range1 -> SUBSET (Coins \X Coins)] /\ SourcesMarked'
    BY <1>1, <1>4, <2>3, <2>10, <2>11 DEF SubmitTypeOK, SourcesMarked, Output
  <2>13. SubmitTypeOK'
    BY <1>1, <2>9, <2>10, <2>12 DEF SubmitTypeOK, Step
  <2>14. SoundCall(q, marks', outputs', view') /\ Preserves(marks, outputs, view, marks', outputs', view')
    BY <2>9, <2>10 DEF Preserves
  <2> QED
    BY <2>9, <2>10, <2>12, <2>13, <2>14, StepKeepsInv
<1> QED
  BY <1>7, <1>8, <1>9, <1>10

(* A submission begins.                                                    *)
LEMMA SubmitKeepsInv ==
  ASSUME LegacyConstants, SubmitInv, NEW c \in Callers, NEW x \in Submitted, EngineSubmit(c, x)
  PROVE  SubmitInv'
<1>0. PICK q : q = [NoCall EXCEPT !.pc = "check", !.tx = x]
  OBVIOUS
<1>1. NoCall \in Call /\ SoundCall(NoCall, marks, outputs, view)
  BY SoundNoCall
<1>2. /\ q \in Call /\ q.pc = "check" /\ q.tx = x /\ q.at = NoCall.at /\ q.inputs = NoCall.inputs
      /\ q.retain = NoCall.retain /\ q.stack = NoCall.stack
  BY <1>0, <1>1 DEF Call, Steps
<1>3. NoCall.stack = << >>
  BY DEF NoCall
<1>4. SoundCall(q, marks, outputs, view)
  BY <1>1, <1>2, <1>3, EmptySeq DEF SoundCall, SoundReads, SoundMarks, SoundStack, SoundAdmits, Committing
<1>5. /\ outputs' = outputs /\ spentBy' = spentBy /\ edges' = edges /\ marks' = marks /\ view' = view
      /\ recorded' = recorded /\ wanted' = wanted /\ Step(c, q)
      /\ requests' = [requests EXCEPT ![x] = @ + 1]
  BY <1>0 DEF EngineSubmit
<1>6. SubmitTypeOK' /\ SourcesMarked'
  <2>1. requests' \in [Submitted -> Nat]
    BY <1>5 DEF SubmitInv, SubmitsAreWhole, SubmitTypeOK
  <2> QED
    BY <1>2, <1>5, <2>1 DEF SubmitInv, SubmitsAreWhole, SubmitTypeOK, SourcesMarked, Step
<1>7. SoundCall(q, marks', outputs', view') /\ Preserves(marks, outputs, view, marks', outputs', view')
  BY <1>4, <1>5 DEF Preserves
<1> QED
  BY <1>2, <1>5, <1>6, <1>7, StepKeepsInv

(* markTopicUTXOsSpent and notifySpentOutputs.                             *)
LEMMA SpendersKeepInv ==
  ASSUME LegacyConstants, SubmitInv, NEW c \in Callers, MarkUTXOsAsSpent(c) \/ NotifySpentOutputs(c)
  PROVE  SubmitInv'
<1>0. PICK r, i : r = call[c] /\ i = r.at
  OBVIOUS
<1>1. r \in Call /\ SoundCall(r, marks, outputs, view) /\ SubmitTypeOK /\ SourcesMarked
  BY <1>0 DEF SubmitInv, SubmitsAreWhole, SubmitTypeOK
<1>2. SoundReads(r, marks) /\ SoundMarks(r, marks) /\ SoundStack(r, marks) /\ i \in Range1
  BY <1>0, <1>1 DEF SoundCall, SoundReads
<1>3. CASE MarkUTXOsAsSpent(c)
  <2>1. r.pc = "mark" /\ UNCHANGED <<outputs, edges, recorded, view, requests, wanted>>
    BY <1>0, <1>3 DEF MarkUTXOsAsSpent
  <2>2. PICK o \in r.left : /\ MarkSpent(i, o, r.tx) /\ marks' = marks \cup {<<i, o>>}
                            /\ Step(c, [r EXCEPT !.left = @ \ {o}])
    BY <1>0, <1>3 DEF MarkUTXOsAsSpent
  <2>3. PICK q : q = [r EXCEPT !.left = @ \ {o}]
    OBVIOUS
  <2>4. /\ q \in Call /\ q.pc = "mark" /\ q.tx = r.tx /\ q.at = r.at /\ q.dupes = r.dupes
        /\ q.inputs = r.inputs /\ q.retain = r.retain /\ q.stack = r.stack /\ q.left = r.left \ {o}
    BY <1>1, <2>1, <2>3 DEF Call
  <2>5. Preserves(marks, outputs, view, marks', outputs', view')
    BY <2>1, <2>2 DEF Preserves
  <2>6. SoundCall(r, marks', outputs', view')
    BY <1>1, <2>5, SoundCallStays
  <2>7. SoundReads(q, marks') /\ SoundStack(q, marks') /\ SoundAdmits(q, marks', outputs', view')
    BY <2>1, <2>4, <2>6 DEF SoundCall, SoundReads, SoundStack, SoundAdmits
  <2>8. AllMarked(q.at, OpsOf(q.inputs[q.at]) \ q.left, marks')
    BY <1>0, <1>2, <2>1, <2>2, <2>4 DEF SoundMarks, AllMarked
  <2>9. SoundMarks(q, marks')
    BY <2>1, <2>4, <2>6, <2>8 DEF SoundCall, SoundMarks, Committing
  <2>10. o \in Coins /\ r.tx \in Submitted
    BY <1>1, <1>2, <2>1 DEF Call, SoundReads
  <2>11. spentBy' \in [Range1 -> [Coins -> Submitted \cup {Nobody}]]
    <3>1. spentBy \in [Range1 -> [Coins -> Submitted \cup {Nobody}]]
      BY <1>1 DEF SubmitTypeOK
    <3>2. [spentBy[i] EXCEPT ![o] = r.tx] \in [Coins -> Submitted \cup {Nobody}]
      BY <1>2, <2>10, <3>1
    <3>3. spentBy' = spentBy \/ spentBy' = [spentBy EXCEPT ![i] = [spentBy[i] EXCEPT ![o] = r.tx]]
      BY <1>2, <2>2, <3>1 DEF MarkSpent
    <3> QED
      BY <1>2, <3>1, <3>2, <3>3
  <2>12. marks' \subseteq Range1 \X Coins /\ marks \subseteq marks'
    BY <1>1, <1>2, <2>2, <2>10 DEF SubmitTypeOK
  <2>13. SubmitTypeOK' /\ SourcesMarked'
    BY <1>1, <2>1, <2>2, <2>3, <2>4, <2>11, <2>12 DEF SubmitTypeOK, SourcesMarked, Step
  <2> QED
    BY <2>1, <2>2, <2>3, <2>4, <2>5, <2>7, <2>9, <2>13, StepKeepsInv DEF SoundCall
<1>4. CASE NotifySpentOutputs(c)
  <2>1. r.pc = "notifySpent" /\ UNCHANGED <<outputs, spentBy, edges, recorded, requests, marks, wanted>>
    BY <1>0, <1>4 DEF NotifySpentOutputs
  <2>2. CASE r.left = {} /\ Step(c, EnterMark(r, i + 1)) /\ UNCHANGED view
    <3>1. PICK n : n = i + 1
      OBVIOUS
    <3>2. n \in Nat /\ n >= 1 /\ \A j \in Range1 : j < n => j < i \/ j = i
      BY <1>2, <3>1 DEF Range1
    <3>3. \A j \in Range1 \ r.dupes : j < n => AllMarked(j, OpsOf(r.inputs[j]), marks)
      BY <1>0, <1>2, <2>1, <3>2 DEF SoundMarks
    <3>4. r.stack = << >> /\ r.pc # "idle"
      BY <1>2, <2>1 DEF SoundStack
    <3>5. EnterMark(r, n) \in Call /\ SoundCall(EnterMark(r, n), marks, outputs, view)
      BY <1>1, <1>2, <3>2, <3>3, <3>4, SoundEnterMark
    <3> QED
      BY <2>1, <2>2, <3>1, <3>5, QuietStepKeepsInv DEF store
  <2>3. ASSUME NEW o \in r.left, view' = [view EXCEPT ![i] = @ \ {o}],
               Step(c, [r EXCEPT !.left = @ \ {o}])
        PROVE  SubmitInv'
    <3>1. PICK q : q = [r EXCEPT !.left = @ \ {o}]
      OBVIOUS
    <3>2. /\ q \in Call /\ q.pc = r.pc /\ q.tx = r.tx /\ q.at = r.at /\ q.dupes = r.dupes
          /\ q.inputs = r.inputs /\ q.retain = r.retain /\ q.stack = r.stack /\ q.left = r.left \ {o}
      BY <1>1, <3>1 DEF Call
    <3>3. <<i, o>> \in marks
      BY <1>0, <1>2, <2>1, <2>3 DEF SoundMarks, AllMarked
    <3>4. view' \in [Range1 -> SUBSET Coins] /\ Preserves(marks, outputs, view, marks', outputs', view')
      BY <1>1, <1>2, <2>1, <2>3, <3>3 DEF SubmitTypeOK, Preserves
    <3>5. SubmitTypeOK' /\ SourcesMarked'
      BY <1>1, <2>1, <2>3, <3>1, <3>2, <3>4 DEF SubmitTypeOK, SourcesMarked, Step
    <3>6. SoundCall(r, marks', outputs', view')
      BY <1>1, <3>4, SoundCallStays
    <3>7. SoundReads(q, marks') /\ SoundStack(q, marks') /\ SoundAdmits(q, marks', outputs', view')
      BY <2>1, <3>2, <3>6 DEF SoundCall, SoundReads, SoundStack, SoundAdmits
    <3>8. SoundMarks(q, marks')
      BY <2>1, <3>2, <3>6 DEF SoundCall, SoundMarks, Committing
    <3> QED
      BY <2>1, <2>3, <3>1, <3>2, <3>4, <3>5, <3>7, <3>8, StepKeepsInv DEF SoundCall
  <2> QED
    BY <1>0, <1>4, <2>2, <2>3 DEF NotifySpentOutputs
<1> QED
  BY <1>3, <1>4

(* commitTopicOutputs after the deletions: each output is stored, then     *)
(* indexed, and only then is the transaction recorded.                     *)
LEMMA CommittersKeepInv ==
  ASSUME LegacyConstants, SubmitInv, NEW c \in Callers,
         \/ InsertOutputs(c) \/ NotifyAdmittedOutputs(c) \/ UpdateConsumedBy(c)
         \/ InsertAppliedTransaction(c)
  PROVE  SubmitInv'
<1>0. PICK r, i : r = call[c] /\ i = r.at
  OBVIOUS
<1>1. r \in Call /\ SoundCall(r, marks, outputs, view) /\ SubmitTypeOK /\ SourcesMarked
  BY <1>0 DEF SubmitInv, SubmitsAreWhole, SubmitTypeOK
<1>2. SoundReads(r, marks) /\ SoundMarks(r, marks) /\ SoundStack(r, marks)
  BY <1>1 DEF SoundCall
<1>3. r.pc \in Committing
  BY <1>0 DEF InsertOutputs, NotifyAdmittedOutputs, UpdateConsumedBy, InsertAppliedTransaction, Committing
<1>4. /\ i \in Range1 /\ r.tx \in Submitted /\ Admits[r.tx] \subseteq Coins
      /\ AllMarked(i, OpsOf(r.inputs[i]), marks) /\ r.retain[i] \subseteq OpsOf(r.inputs[i])
      /\ OpsOf(r.inputs[i]) \subseteq Coins /\ r.inputs[i] \subseteq Output
  BY <1>0, <1>1, <1>2, <1>3, InputsAreMarked DEF LegacyConstants, KnownOutputs
<1>5. CASE InsertOutputs(c)
  <2>0. PICK new, kept : new = Admits[r.tx] /\ kept = r.retain[i]
    OBVIOUS
  <2>1. /\ r.pc = "delete" /\ r.stack = << >>
        /\ outputs' = [outputs EXCEPT ![i] = @ \cup new]
        /\ edges' = [edges EXCEPT ![i] = @ \cup (kept \X new)]
        /\ wanted' = wanted \cup ({i} \X kept \X new)
        /\ Step(c, [r EXCEPT !.pc = "notifyAdmitted", !.left = new])
        /\ UNCHANGED <<spentBy, recorded, view, requests, marks>>
    BY <1>0, <1>5, <2>0 DEF InsertOutputs, InsertPrepared
  <2>2. PICK q : q = [r EXCEPT !.pc = "notifyAdmitted", !.left = new]
    OBVIOUS
  <2>3. /\ q \in Call /\ q.pc = "notifyAdmitted" /\ q.tx = r.tx /\ q.at = r.at /\ q.dupes = r.dupes
        /\ q.inputs = r.inputs /\ q.retain = r.retain /\ q.stack = r.stack /\ q.left = new
    BY <1>1, <1>4, <2>0, <2>2 DEF Call, Steps
  <2>4. new \subseteq Coins /\ kept \subseteq Coins /\ AllMarked(i, kept, marks)
    BY <1>4, <2>0 DEF AllMarked
  <2>5. outputs' \in [Range1 -> SUBSET Coins] /\ Preserves(marks, outputs, view, marks', outputs', view')
    BY <1>1, <1>4, <2>1, <2>4 DEF SubmitTypeOK, Preserves
  <2>6. edges' \in [Range1 -> SUBSET (Coins \X Coins)] /\ SourcesMarked'
    BY <1>1, <1>4, <2>1, <2>4 DEF SubmitTypeOK, SourcesMarked, AllMarked
  <2>7. wanted' \subseteq Range1 \X Coins \X Coins
    BY <1>1, <1>4, <2>1, <2>4 DEF SubmitTypeOK
  <2>8. SubmitTypeOK'
    BY <1>1, <2>1, <2>2, <2>3, <2>5, <2>6, <2>7 DEF SubmitTypeOK, Step
  <2>9. \A o \in new : o \in outputs'[i]
    BY <1>1, <1>4, <2>1 DEF SubmitTypeOK
  <2>10. SoundAdmits(q, marks', outputs', view')
    BY <1>0, <2>0, <2>3, <2>9 DEF SoundAdmits, Served
  <2>11. SoundReads(q, marks') /\ SoundMarks(q, marks') /\ SoundStack(q, marks')
    BY <1>2, <1>3, <2>1, <2>3 DEF SoundReads, SoundMarks, SoundStack, Committing
  <2> QED
    BY <2>1, <2>2, <2>3, <2>5, <2>6, <2>8, <2>10, <2>11, StepKeepsInv DEF SoundCall
<1>6. CASE NotifyAdmittedOutputs(c)
  <2>1. /\ r.pc = "notifyAdmitted"
        /\ UNCHANGED <<outputs, spentBy, edges, recorded, requests, marks, wanted>>
    BY <1>0, <1>6 DEF NotifyAdmittedOutputs
  <2>2. \A o \in Admits[r.tx] : Served(i, o, marks, outputs, view, r.left)
    BY <1>0, <1>1, <2>1 DEF SoundCall, SoundAdmits
  <2>3. ASSUME r.left = {}, UNCHANGED view,
               Step(c, [r EXCEPT !.pc = "updateConsumedBy", !.left = r.retain[i]])
        PROVE  SubmitInv'
    <3>1. PICK q : q = [r EXCEPT !.pc = "updateConsumedBy", !.left = r.retain[i]]
      OBVIOUS
    <3>2. /\ q \in Call /\ q.pc = "updateConsumedBy" /\ q.tx = r.tx /\ q.at = r.at /\ q.dupes = r.dupes
          /\ q.inputs = r.inputs /\ q.retain = r.retain /\ q.stack = r.stack
      BY <1>1, <1>4, <3>1 DEF Call, Steps
    <3>3. SoundAdmits(q, marks, outputs, view)
      BY <1>0, <2>2, <2>3, <3>2 DEF SoundAdmits, Served
    <3>4. SoundReads(q, marks) /\ SoundMarks(q, marks) /\ SoundStack(q, marks)
      BY <1>2, <1>3, <2>1, <3>2 DEF SoundReads, SoundMarks, SoundStack, Committing
    <3> QED
      BY <2>1, <2>3, <3>1, <3>2, <3>3, <3>4, QuietStepKeepsInv DEF SoundCall, store
  <2>4. ASSUME NEW o \in r.left, view' = [view EXCEPT ![i] = @ \cup {o}],
               Step(c, [r EXCEPT !.left = @ \ {o}])
        PROVE  SubmitInv'
    <3>1. PICK q : q = [r EXCEPT !.left = @ \ {o}]
      OBVIOUS
    <3>2. /\ q \in Call /\ q.pc = r.pc /\ q.tx = r.tx /\ q.at = r.at /\ q.dupes = r.dupes
          /\ q.inputs = r.inputs /\ q.retain = r.retain /\ q.stack = r.stack /\ q.left = r.left \ {o}
      BY <1>1, <3>1 DEF Call
    <3>3. o \in Coins
      BY <1>1 DEF Call
    <3>4. view' \in [Range1 -> SUBSET Coins] /\ Preserves(marks, outputs, view, marks', outputs', view')
      BY <1>1, <1>4, <2>1, <2>4, <3>3 DEF SubmitTypeOK, Preserves
    <3>5. SubmitTypeOK' /\ SourcesMarked'
      BY <1>1, <2>1, <2>4, <3>1, <3>2, <3>4 DEF SubmitTypeOK, SourcesMarked, Step
    <3>6. \A p \in Coins : p \in view[i] \cup r.left => p \in view'[i] \cup q.left
      BY <1>1, <1>4, <2>4, <3>2 DEF SubmitTypeOK
    <3>7. SoundAdmits(q, marks', outputs', view')
      BY <1>0, <1>4, <2>1, <2>2, <3>2, <3>6 DEF SoundAdmits, Served
    <3>8. SoundReads(q, marks') /\ SoundMarks(q, marks') /\ SoundStack(q, marks')
      BY <1>2, <1>3, <2>1, <3>2 DEF SoundReads, SoundMarks, SoundStack, Committing
    <3> QED
      BY <2>1, <2>4, <3>1, <3>2, <3>4, <3>5, <3>7, <3>8, StepKeepsInv DEF SoundCall
  <2> QED
    BY <1>0, <1>6, <2>3, <2>4 DEF NotifyAdmittedOutputs
<1>7. CASE UpdateConsumedBy(c)
  <2>1. /\ r.pc = "updateConsumedBy"
        /\ UNCHANGED <<outputs, spentBy, recorded, view, requests, marks, wanted>>
    BY <1>0, <1>7 DEF UpdateConsumedBy
  <2>2. \A o \in Admits[r.tx] : Served(i, o, marks, outputs, view, {})
    BY <1>0, <1>1, <2>1 DEF SoundCall, SoundAdmits
  <2>3. ASSUME UNCHANGED edges, Step(c, [r EXCEPT !.pc = "applied"])
        PROVE  SubmitInv'
    <3>1. PICK q : q = [r EXCEPT !.pc = "applied"]
      OBVIOUS
    <3>2. /\ q \in Call /\ q.pc = "applied" /\ q.tx = r.tx /\ q.at = r.at /\ q.dupes = r.dupes
          /\ q.inputs = r.inputs /\ q.retain = r.retain /\ q.stack = r.stack
      BY <1>1, <3>1 DEF Call, Steps
    <3>3. SoundAdmits(q, marks, outputs, view)
      BY <1>0, <2>2, <3>2 DEF SoundAdmits
    <3>4. SoundReads(q, marks) /\ SoundMarks(q, marks) /\ SoundStack(q, marks)
      BY <1>2, <1>3, <2>1, <3>2 DEF SoundReads, SoundMarks, SoundStack, Committing
    <3> QED
      BY <2>1, <2>3, <3>1, <3>2, <3>3, <3>4, QuietStepKeepsInv DEF SoundCall, store
  <2>4. ASSUME NEW o \in r.inputs[i], ReplaceConsumedBy(i, o.op, o.consumedBy \cup Admits[r.tx]),
               Step(c, [r EXCEPT !.left = @ \ {o.op}])
        PROVE  SubmitInv'
    <3>1. PICK q : q = [r EXCEPT !.left = @ \ {o.op}]
      OBVIOUS
    <3>2. /\ q \in Call /\ q.pc = r.pc /\ q.tx = r.tx /\ q.at = r.at /\ q.dupes = r.dupes
          /\ q.inputs = r.inputs /\ q.retain = r.retain /\ q.stack = r.stack
      BY <1>1, <3>1 DEF Call
    <3>3. PICK heirs : heirs = o.consumedBy \cup Admits[r.tx]
      OBVIOUS
    <3>4. o.op \in Coins /\ heirs \subseteq Coins /\ <<i, o.op>> \in marks
      BY <1>4, <3>3 DEF Output, OpsOf, AllMarked
    <3>5. edges' = [edges EXCEPT ![i] = {e \in @ : e[1] # o.op} \cup ({o.op} \X heirs)]
      BY <2>4, <3>3 DEF ReplaceConsumedBy
    <3>6. edges' \in [Range1 -> SUBSET (Coins \X Coins)] /\ SourcesMarked'
      BY <1>1, <1>4, <2>1, <3>4, <3>5 DEF SubmitTypeOK, SourcesMarked
    <3>7. SubmitTypeOK'
      BY <1>1, <2>1, <2>4, <3>1, <3>2, <3>6 DEF SubmitTypeOK, Step
    <3>8. Preserves(marks, outputs, view, marks', outputs', view')
      BY <2>1 DEF Preserves
    <3>9. SoundAdmits(q, marks', outputs', view')
      BY <1>0, <2>1, <2>2, <3>2 DEF SoundAdmits
    <3>10. SoundReads(q, marks') /\ SoundMarks(q, marks') /\ SoundStack(q, marks')
      BY <1>2, <1>3, <2>1, <3>2 DEF SoundReads, SoundMarks, SoundStack, Committing
    <3> QED
      BY <2>1, <2>4, <3>1, <3>2, <3>6, <3>7, <3>8, <3>9, <3>10, StepKeepsInv DEF SoundCall
  <2> QED
    BY <1>0, <1>7, <2>3, <2>4 DEF UpdateConsumedBy
<1>8. CASE InsertAppliedTransaction(c)
  <2>0. PICK n, q : n = i + 1 /\ q = EnterCommit(r, n)
    OBVIOUS
  <2>1. /\ r.pc = "applied" /\ recorded' = recorded \cup {<<i, r.tx>>} /\ Step(c, q)
        /\ UNCHANGED <<outputs, spentBy, edges, view, requests, marks, wanted>>
    BY <1>0, <1>8, <2>0 DEF InsertAppliedTransaction
  <2>2. \A o \in Admits[r.tx] : Served(i, o, marks, outputs, view, {})
    BY <1>0, <1>1, <2>1 DEF SoundCall, SoundAdmits
  <2>3. q \in Call /\ SoundCall(q, marks, outputs, view)
    <3>1. n \in Nat /\ n >= 1
      BY <1>4, <2>0 DEF Range1
    <3>2. r.stack = << >> /\ \A j \in Range1 \ r.dupes : AllMarked(j, OpsOf(r.inputs[j]), marks)
      BY <1>2, <1>3, <2>1 DEF SoundStack, SoundMarks
    <3> QED
      BY <1>1, <1>2, <2>0, <2>1, <3>1, <3>2, SoundEnterCommit
  <2>4. SubmitTypeOK' /\ SourcesMarked'
    <3>1. recorded' \subseteq Range1 \X Submitted
      BY <1>1, <1>4, <2>1 DEF SubmitTypeOK
    <3> QED
      BY <1>1, <2>1, <2>3, <3>1 DEF SubmitTypeOK, SourcesMarked, Step
  <2>5. \A a \in recorded' \ recorded : a[1] = i /\ a[2] = r.tx
    BY <2>1
  <2>6. \A a \in recorded' \ recorded : \A o \in Admits[a[2]] :
          Served(a[1], o, marks', outputs', view', {})
    BY <2>1, <2>2, <2>5
  <2>7. SoundCall(q, marks', outputs', view') /\ Preserves(marks, outputs, view, marks', outputs', view')
    BY <2>1, <2>3 DEF Preserves
  <2> QED
    BY <2>1, <2>3, <2>4, <2>6, <2>7, StepKeepsInv
<1> QED
  BY <1>5, <1>6, <1>7, <1>8

LEMMA SubmitInitInv == LegacyConstants /\ SubmitInit => SubmitInv
<1> SUFFICES ASSUME LegacyConstants, SubmitInit PROVE SubmitInv
  OBVIOUS
<1>1. SubmitTypeOK
  BY SoundNoCall DEF SubmitInit, SubmitTypeOK, NoInputs
<1>2. AppliedIsServed /\ SourcesMarked
  BY DEF SubmitInit, AppliedIsServed, SourcesMarked, NoInputs
<1>3. \A c \in Callers : SoundCall(call[c], marks, outputs, view)
  BY SoundNoCall DEF SubmitInit
<1> QED
  BY <1>1, <1>2, <1>3 DEF SubmitInv, SubmitsAreWhole

(* SubmitsAreWhole holds for any number of callers, topics, transactions   *)
(* and outputs, and wherever a call fails: a transaction that a topic      *)
(* records as applied has each of its outputs stored and indexed there,    *)
(* unless a transaction that spends the output was submitted.              *)
THEOREM WholeSubmits == LegacyConstants /\ SubmitSpec => []SubmitsAreWhole
<1> SUFFICES ASSUME LegacyConstants PROVE SubmitSpec => []SubmitsAreWhole
  OBVIOUS
<1>1. SubmitInit => SubmitInv
  BY SubmitInitInv
<1>2. SubmitInv /\ [SubmitNext]_submitVars => SubmitInv'
  <2> SUFFICES ASSUME SubmitInv, [SubmitNext]_submitVars PROVE SubmitInv'
    OBVIOUS
  <2>1. CASE SubmitNext
    BY <2>1, SubmitKeepsInv, ReadersKeepInv, SpendersKeepInv, DeletersKeepInv, CommittersKeepInv
       DEF SubmitNext, CallerStep
  <2>2. CASE UNCHANGED submitVars
    BY <2>2 DEF submitVars, SubmitInv, SubmitsAreWhole, SubmitTypeOK, AppliedIsServed, SourcesMarked
  <2> QED
    BY <2>1, <2>2
<1>3. SubmitInv => SubmitsAreWhole
  BY DEF SubmitInv
<1> QED
  BY <1>1, <1>2, <1>3, PTL DEF SubmitSpec
=============================================================================
