------------------------ MODULE BasmServiceProofs ------------------------
(***************************************************************************)
(* Proofs about BasmRead, for any chains, transaction counts, page sizes   *)
(* and any number of reorganisations and rewrites during a read, and about *)
(* BasmBudget, for integers of any width.                                  *)
(*                                                                         *)
(* A read: what has been collected is of the pinned view, and a view is of *)
(* one chain.  Each header that is looked up again moves the moment the    *)
(* answer describes forward, because a canonical block has canonical       *)
(* ancestors; and when the revision is still the view's at the end, every  *)
(* moment since then held what the view held.                              *)
(*                                                                         *)
(* A budget: while it is not exceeded, it is the exact sum, and the        *)
(* division before a product says whether the product fits.                *)
(***************************************************************************)
EXTENDS BasmRead, BasmBudget, TLAPS

-----------------------------------------------------------------------------
(* Hashes, roots and pages *)

\* A sequence, of whatever elements.
IsSeq(s) == \E S : s \in Seq(S)

\* A transaction of a block, and an entry of an admitted list.
TxIDs == Seq(Forks) \X Nat
Entries == [txid : TxIDs, index : Nat]

\* The fields of an anchor.
AnchorFields == {"topic", "height", "hash", "count", "root", "list", "tac"}

\* An anchor as the storage makes it.
IsAnchor(a) ==
  /\ DOMAIN a = AnchorFields
  /\ a.topic = "t"
  /\ a.height \in Nat
  /\ a.list \in Seq(Entries)
  /\ a.root = Root(IDs(a.list))

\* A history: anchors of one chain, from genesis up.
IsHistory(A) ==
  /\ IsSeq(A)
  /\ Len(A) <= Top + 1
  /\ \A k \in 1..Len(A) : IsAnchor(A[k]) /\ A[k].height = k - 1
  /\ \E c \in Chains : \A k \in 1..Len(A) : A[k].hash = BlockHash(c, k - 1)

\* Anchors of one block with one root and list.
SameBlock(a, b) ==
  a.height = b.height /\ a.hash = b.hash /\ a.root = b.root /\ a.list = b.list

\* Chains that agree on a block agree on its ancestors: a hash commits to them.
LEMMA ChainPrefix ==
  ASSUME ReadAssumption, NEW c \in Chains, NEW d \in Chains, NEW k \in 0..Top, NEW h \in 0..k,
         BlockHash(c, k) = BlockHash(d, k)
  PROVE  BlockHash(c, h) = BlockHash(d, h)
<1>0. Top \in Nat
  BY DEF ReadAssumption
<1>1. c \in Seq(Forks) /\ d \in Seq(Forks) /\ Len(c) = Top + 1 /\ Len(d) = Top + 1
  BY <1>0 DEF Chains
<1>2. \A i \in 1..(k + 1) : c[i] = d[i]
  <2>1. ASSUME NEW i \in 1..(k + 1) PROVE c[i] = BlockHash(c, k)[i] /\ d[i] = BlockHash(d, k)[i]
    BY <1>0, <1>1 DEF BlockHash
  <2>2. QED
    BY <2>1
<1>3. BlockHash(c, h) \in Seq(Forks) /\ BlockHash(d, h) \in Seq(Forks)
  BY <1>0, <1>1 DEF BlockHash
<1>4. Len(BlockHash(c, h)) = h + 1 /\ Len(BlockHash(d, h)) = h + 1
  BY <1>0, <1>1 DEF BlockHash
<1>5. \A i \in 1..(h + 1) : BlockHash(c, h)[i] = BlockHash(d, h)[i]
  BY <1>0, <1>1, <1>2 DEF BlockHash
<1>6. QED
  BY <1>3, <1>4, <1>5

\* A block hash is a sequence of forks.
LEMMA HashIsSeq ==
  ASSUME ReadAssumption, NEW c \in Chains, NEW h \in 0..Top
  PROVE  BlockHash(c, h) \in Seq(Forks)
BY DEF Chains, BlockHash, ReadAssumption

\* Lists of transactions with one root are one list.
LEMMA RootInjective ==
  ASSUME NEW s \in Seq(TxIDs), NEW t \in Seq(TxIDs), Root(s) = Root(t)
  PROVE  s = t
<1>1. CASE s = << >>
  BY <1>1 DEF Root, Zero, TxIDs
<1>2. CASE t = << >>
  BY <1>2 DEF Root, Zero, TxIDs
<1>3. ASSUME NEW x \in TxIDs, NEW u PROVE x # <<u>>
  <2>1. PICK b \in Seq(Forks), i \in Nat : x = <<b, i>>
    BY <1>3 DEF TxIDs
  <2>2. DOMAIN x = 1..2
    BY <2>1
  <2>3. DOMAIN <<u>> = 1..1
    OBVIOUS
  <2>4. QED
    BY <2>2, <2>3
<1>4. CASE s # << >> /\ t # << >> /\ (Len(s) = 1 \/ Len(t) = 1)
  <2>1. s[1] \in TxIDs /\ t[1] \in TxIDs
    BY <1>4
  <2>2. Len(s) = 1 /\ Len(t) = 1
    BY <1>3, <1>4, <2>1 DEF Root
  <2>3. s[1] = t[1]
    BY <1>4, <2>2 DEF Root
  <2>4. QED
    BY <2>2, <2>3
<1>5. CASE s # << >> /\ t # << >> /\ Len(s) # 1 /\ Len(t) # 1
  BY <1>5 DEF Root, Zero, TxIDs
<1>6. QED
  BY <1>1, <1>2, <1>4, <1>5

\* What Reverse does to a sequence.
LEMMA ReverseSeq ==
  ASSUME NEW S, NEW a \in Seq(S)
  PROVE  /\ Reverse(a) \in Seq(S) /\ Len(Reverse(a)) = Len(a)
         /\ \A k \in 1..Len(a) : Reverse(a)[k] = a[Len(a) - k + 1]
BY DEF Reverse

\* What Front does to a sequence.
LEMMA FrontSeq ==
  ASSUME NEW S, NEW a \in Seq(S), a # << >>
  PROVE  /\ Front(a) \in Seq(S) /\ Len(Front(a)) = Len(a) - 1
         /\ \A k \in 1..(Len(a) - 1) : Front(a)[k] = a[k]
BY DEF Front

\* Whatever page the view returns for anchors, its blocks are among them.
LEMMA PageElements ==
  ASSUME NEW S, NEW a \in Seq(S), \A k \in 1..Len(a) : DOMAIN a[k] = AnchorFields,
         NEW p \in Pages(a)
  PROVE  /\ \E T : p \in Seq(T)
         /\ Len(p) <= Len(a)
         /\ \A k \in 1..Len(p) : \E j \in 1..Len(a) : SameBlock(p[k], a[j])
<1> DEFINE Kept(q) ==
     /\ \E T : q \in Seq(T)
     /\ Len(q) <= Len(a)
     /\ \A k \in 1..Len(q) : \E j \in 1..Len(a) : SameBlock(q[k], a[j])
<1>1. Kept(a)
  BY DEF SameBlock
<1>2. Kept(Reverse(a))
  <2>1. \A k \in 1..Len(a) : Len(a) - k + 1 \in 1..Len(a)
    OBVIOUS
  <2>2. QED
    BY <2>1, ReverseSeq DEF SameBlock
<1>3. ASSUME a # << >> PROVE Kept(Front(a)) /\ Kept(Tail(a))
  <2>1. Kept(Front(a))
    BY <1>3, FrontSeq DEF SameBlock
  <2>2. Kept(Tail(a))
    <3>1. Tail(a) \in Seq(S) /\ Len(Tail(a)) = Len(a) - 1
      BY <1>3
    <3>2. \A k \in 1..(Len(a) - 1) : k + 1 \in 1..Len(a) /\ Tail(a)[k] = a[k + 1]
      BY <1>3
    <3>3. QED
      BY <3>1, <3>2 DEF SameBlock
  <2>3. QED
    BY <2>1, <2>2
<1>4. ASSUME a # << >>, NEW f \in {"topic", "tac", "count"}, NEW v
      PROVE  Kept([a EXCEPT ![Len(a)] = [@ EXCEPT ![f] = v]])
  <2>1. PICK x : x = [a[Len(a)] EXCEPT ![f] = v]
    OBVIOUS
  <2>2. PICK q : q = [a EXCEPT ![Len(a)] = x]
    OBVIOUS
  <2>3. Len(a) \in 1..Len(a)
    BY <1>4
  <2>4. q \in Seq(S \cup {x}) /\ Len(q) = Len(a)
    BY <2>2, <2>3
  <2>5. SameBlock(x, a[Len(a)])
    BY <1>4, <2>1, <2>3 DEF SameBlock, AnchorFields
  <2>6. \A k \in 1..Len(q) : SameBlock(q[k], a[k])
    <3>1. \A k \in 1..Len(q) : q[k] = IF k = Len(a) THEN x ELSE a[k]
      BY <2>2, <2>4
    <3>2. \A k \in 1..Len(q) : SameBlock(a[k], a[k])
      BY DEF SameBlock
    <3>3. QED
      BY <2>5, <3>1, <3>2
  <2>7. Kept(q)
    BY <2>4, <2>6
  <2>8. q = [a EXCEPT ![Len(a)] = [@ EXCEPT ![f] = v]]
    BY <2>1, <2>2
  <2>9. QED
    BY <2>7, <2>8
<1>5. CASE a = << >>
  BY <1>1, <1>2, <1>5 DEF Pages
<1>6. CASE a # << >>
  <2>1. /\ Kept([a EXCEPT ![Len(a)] = [@ EXCEPT !.topic = "other"]])
        /\ Kept([a EXCEPT ![Len(a)] = [@ EXCEPT !.tac = Zero]])
        /\ Kept([a EXCEPT ![Len(a)] = [@ EXCEPT !.count = TxCount + 1]])
        /\ Kept([a EXCEPT ![Len(a)] = [@ EXCEPT !.count = 0]])
    BY <1>4, <1>6
  <2> HIDE DEF Kept
  <2>3. Kept(p)
    BY <1>1, <1>2, <1>3, <1>6, <2>1 DEF Pages
  <2>4. QED
    BY <2>3 DEF Kept
<1>7. QED
  BY <1>5, <1>6
-----------------------------------------------------------------------------
(* The inductive invariant *)

\* The routes, and the steps of a call by what has been done at them.
Routes == {"tip", "range", "list", "proof", "raw"}
Before == {"idle", "open", "anchors", "validate", "admitted", "raw"}
Inside == {"anchors", "validate", "admitted", "raw", "recheck", "current", "close"}
Checking == {"recheck", "current"}
Pcs == Before \cup Checking \cup {"close", "reply", "done"}

\* Everything of the answer has been read, and nothing has failed.
Answered == \/ pc \in {"close", "reply"} /\ err = "nil"
            \/ reply = "ok"

\* The answer is complete: the final checks follow or are done.
Complete1 == pc \in Checking \/ Answered

\* The storage holds a history; before the call it is of the canonical chain.
HistoryInv ==
  /\ chain \in Chains
  /\ DOMAIN history = {"anchors", "rev"}
  /\ history.rev \in Nat
  /\ IsHistory(history.anchors)
  /\ pc = "idle" => \A k \in 1..Len(history.anchors) : history.anchors[k].hash = BlockHash(chain, k - 1)

\* A is the beginning of B.
Prefix(A, B) == Len(A) <= Len(B) /\ \A k \in 1..Len(A) : A[k] = B[k]

\* How a history relates to the view.
Follows(h) ==
  /\ h.rev \in Nat /\ view.rev <= h.rev
  /\ h.rev = view.rev => Prefix(view.anchors, h.anchors)

\* A view is open inside readBASM, and its history is one the storage has had.
ViewInv ==
  /\ pc \in Pcs
  /\ pc \notin Inside => view = [open |-> FALSE]
  /\ pc \in Inside =>
       /\ view.open = TRUE
       /\ view.rev \in Nat
       /\ IsHistory(view.anchors)
       /\ Follows(history)

\* An error goes with the zero value, an answer with what was collected.
ErrorInv ==
  /\ expired \in BOOLEAN /\ err # "ok"
  /\ pc \in Before \cup Checking => err = "nil"
  /\ pc \in Before => output = Nothing
  /\ pc \in {"reply", "done"} /\ err # "nil" => output = Nothing
  /\ pc # "done" => reply = "none"
  /\ reply = "ok" => err = "nil"
  /\ output = Nothing \/ output = [kind |-> req.kind, anchors |-> page]
  /\ Complete1 => output = [kind |-> req.kind, anchors |-> page]

\* The request has been validated.
RequestInv ==
  pc \in Inside \/ pc = "open" \/ Complete1 =>
    /\ req.kind \in Routes
    /\ req.kind = "range" =>
         /\ req.from \in Nat /\ req.to \in Nat
         /\ req.from <= req.to /\ req.to - req.from + 1 <= MaxRange
    /\ req.kind \in {"list", "proof"} => req.height \in Nat
    /\ req.kind = "raw" => IsSeq(req.txids) /\ IsInjective(req.txids)
    /\ req.kind \in {"proof", "raw"} => Len(req.txids) <= MaxTxIDs

\* How far the page has been validated and looked up again.
PageInv ==
  /\ IsSeq(page) /\ IsSeq(headers) /\ checked \in Nat
  /\ checked <= Len(headers) /\ Len(headers) <= Len(page) /\ Len(page) <= MaxRange
  /\ pc \in {"idle", "open", "anchors", "raw"} => page = << >> /\ headers = << >>
  /\ pc \in Before => checked = 0
  /\ pc = "validate" => Len(headers) < Len(page)
  /\ pc = "admitted" \/ Complete1 => Len(headers) = Len(page)
  /\ pc = "current" => checked = Len(headers)

\* The k-th anchor has passed validateAnchorRange.
Passed(k) ==
  /\ page[k].topic = "t"
  /\ ValidAnchor(page[k])
  /\ headers[k] = [height |-> page[k].height, hash |-> page[k].hash]
  /\ req.kind = "range" =>
       /\ page[k].height = req.from + k - 1
       /\ k > 1 => page[k].tac = HashTACStep(page[k - 1].tac, page[k].hash, page[k].root)

\* The anchors validated so far, and the shape of the page for its route.
PassedInv ==
  pc \in {"validate", "admitted"} \/ Complete1 =>
    /\ \A k \in 1..Len(headers) : Passed(k)
    /\ req.kind = "range" => Len(page) = req.to - req.from + 1
    /\ req.kind # "range" => Len(page) <= 1
    /\ req.kind \in {"list", "proof"} => Len(page) = 1 /\ page[1].height = req.height
    /\ req.kind = "raw" => Len(page) = 0
    /\ pc = "validate" => req.kind # "raw"
    /\ pc = "admitted" => req.kind \in {"list", "proof"}

\* An anchor of the view.
FromView(a) ==
  \E j \in 1..Len(view.anchors) : SameBlock(a, view.anchors[j])

\* The page was taken from the view.
OriginInv ==
  pc \in {"validate", "admitted"} \cup Checking =>
    \A k \in 1..Len(page) : FromView(page[k])

\* The blocks of the first n anchors were canonical at moment m.
CanonicalAt(m, n) == \A k \in 1..n : page[k].hash = BlockHash(m[1], page[k].height)

\* At one of the moments since the data was read, the headers that were looked up
\* again were all canonical; and the storage has followed the view since.
MomentInv ==
  /\ pc \in Checking =>
       /\ <<chain, history>> \in moments
       /\ \A m \in moments : m[1] \in Chains /\ Follows(m[2]) /\ m[2].rev <= history.rev
       /\ \E m \in moments : CanonicalAt(m, checked)

\* The storage held the anchor at moment m.
StoredAt(m, a) ==
  /\ Len(m[2].anchors) > a.height
  /\ m[2].anchors[a.height + 1].hash = a.hash
  /\ m[2].anchors[a.height + 1].root = a.root

\* An answer that passed the final checks describes one moment.
CurrentInv ==
  Answered => \E m \in moments : /\ CanonicalAt(m, Len(page))
                                 /\ \A k \in 1..Len(page) : StoredAt(m, page[k])

\* An admitted list is the list of its anchor.
ListInv ==
  Complete1 /\ req.kind = "list" =>
    /\ IsSeq(admitted)
    /\ IDs(admitted) = IDs(page[1].list)
    /\ page[1].count = Len(admitted)
    /\ req.hash = Zero \/ req.hash = page[1].hash
    /\ \A i \in 2..Len(admitted) : admitted[i].index > admitted[i - 1].index
    /\ \A i, j \in 1..Len(admitted) : admitted[i].txid = admitted[j].txid => i = j

\* The first n transactions that were asked for are either found or missing.
Answers(n) ==
  /\ Len(raw.found) + Len(raw.missing) = n
  /\ Range(raw.found) \cup Range(raw.missing) = {req.txids[i] : i \in 1..n}
  /\ Range(raw.found) \cap Range(raw.missing) = {}
  /\ IsInjective(raw.found) /\ IsInjective(raw.missing)

\* A raw read has answered a prefix of what it was asked for, each ID once.
RawInv ==
  /\ IsSeq(raw.found) /\ IsSeq(raw.missing) /\ DOMAIN raw = {"found", "missing"}
  /\ pc \in {"idle", "open", "anchors"} => raw.found = << >> /\ raw.missing = << >>
  /\ pc = "anchors" => req.kind # "raw"
  /\ pc = "raw" => /\ req.kind = "raw"
                   /\ \E n \in 0..Len(req.txids) : Answers(n)
  /\ Complete1 /\ req.kind = "raw" => Answers(Len(req.txids))

\* The inductive invariant of a read.
IInv ==
  /\ HistoryInv /\ ViewInv /\ ErrorInv /\ RequestInv /\ PageInv /\ PassedInv
  /\ OriginInv /\ MomentInv /\ CurrentInv /\ ListInv /\ RawInv

-----------------------------------------------------------------------------
(* The stored history *)

\* What Chain.Append adds.
LEMMA AppendedAnchor ==
  ASSUME ReadAssumption, NEW A, IsSeq(A), NEW hash, NEW list \in Seq(Entries)
  PROVE  LET B == AppendAnchor(A, hash, list)
         IN /\ IsSeq(B) /\ Len(B) = Len(A) + 1
            /\ \A k \in 1..Len(A) : B[k] = A[k]
            /\ IsAnchor(B[Len(A) + 1])
            /\ B[Len(A) + 1].height = Len(A)
            /\ B[Len(A) + 1].hash = hash
<1>1. PICK S : A \in Seq(S)
  BY DEF IsSeq
<1>2. PICK tac : tac = HashTACStep(IF A = << >> THEN Zero ELSE Last(A).tac, hash, Root(IDs(list)))
  OBVIOUS
<1>3. PICK x : x = [topic |-> "t", height |-> Len(A), hash |-> hash,
                    count |-> Len(list), root |-> Root(IDs(list)), list |-> list, tac |-> tac]
  OBVIOUS
<1>4. AppendAnchor(A, hash, list) = Append(A, x)
  BY <1>2, <1>3 DEF AppendAnchor
<1>5. Append(A, x) \in Seq(S \cup {x}) /\ Len(Append(A, x)) = Len(A) + 1
  BY <1>1
<1>6. /\ \A k \in 1..Len(A) : Append(A, x)[k] = A[k]
      /\ Append(A, x)[Len(A) + 1] = x
  BY <1>1
<1>7. IsAnchor(x) /\ x.height = Len(A) /\ x.hash = hash
  BY <1>1, <1>3 DEF IsAnchor, AnchorFields
<1>8. QED
  BY <1>4, <1>5, <1>6, <1>7 DEF IsSeq

\* A history extended with the next block of its chain.
LEMMA AppendHistory ==
  ASSUME ReadAssumption, NEW A, IsHistory(A), Len(A) <= Top, NEW c \in Chains,
         \A k \in 1..Len(A) : A[k].hash = BlockHash(c, k - 1), NEW list \in Seq(Entries)
  PROVE  LET B == AppendAnchor(A, BlockHash(c, Len(A)), list)
         IN /\ IsHistory(B) /\ Prefix(A, B)
            /\ \A k \in 1..Len(B) : B[k].hash = BlockHash(c, k - 1)
<1>1. PICK B : B = AppendAnchor(A, BlockHash(c, Len(A)), list)
  OBVIOUS
<1>2. Len(A) \in Nat /\ Top \in Nat
  BY DEF IsHistory, IsSeq, ReadAssumption
<1>3. /\ IsSeq(B) /\ Len(B) = Len(A) + 1
      /\ \A k \in 1..Len(A) : B[k] = A[k]
      /\ IsAnchor(B[Len(A) + 1])
      /\ B[Len(A) + 1].height = Len(A)
      /\ B[Len(A) + 1].hash = BlockHash(c, Len(A))
  BY <1>1, AppendedAnchor DEF IsHistory
<1>4. \A k \in 1..Len(B) : k \in 1..Len(A) \/ k = Len(A) + 1
  BY <1>2, <1>3
<1>5. \A k \in 1..Len(B) : B[k].hash = BlockHash(c, k - 1)
  BY <1>2, <1>3, <1>4
<1>6. \A k \in 1..Len(B) : IsAnchor(B[k]) /\ B[k].height = k - 1
  BY <1>2, <1>3, <1>4 DEF IsHistory
<1>7. IsHistory(B)
  BY <1>2, <1>3, <1>5, <1>6 DEF IsHistory
<1>8. QED
  BY <1>1, <1>2, <1>3, <1>5, <1>7 DEF Prefix

\* A history without its last block.
LEMMA FrontHistory ==
  ASSUME ReadAssumption, NEW A, IsHistory(A), A # << >>
  PROVE  IsHistory(Front(A)) /\ Len(Front(A)) = Len(A) - 1
<1>1. PICK S : A \in Seq(S)
  BY DEF IsHistory, IsSeq
<1>2. PICK B : B = Front(A)
  OBVIOUS
<1>3. B \in Seq(S) /\ Len(B) = Len(A) - 1 /\ \A k \in 1..(Len(A) - 1) : B[k] = A[k]
  BY <1>1, <1>2, FrontSeq
<1>4. \A k \in 1..Len(B) : k \in 1..Len(A) /\ B[k] = A[k]
  BY <1>1, <1>3
<1>5. Len(B) <= Top + 1
  BY <1>1, <1>3 DEF IsHistory, ReadAssumption
<1>6. IsHistory(B)
  BY <1>3, <1>4, <1>5 DEF IsHistory, IsSeq
<1>7. QED
  BY <1>2, <1>3, <1>6

\* A history whose last block has another list.
LEMMA RewriteHistory ==
  ASSUME ReadAssumption, NEW A, IsHistory(A), A # << >>, NEW list \in Seq(Entries)
  PROVE  IsHistory(AppendAnchor(Front(A), Last(A).hash, list))
<1>1. PICK S : A \in Seq(S)
  BY DEF IsHistory, IsSeq
<1>2. PICK c \in Chains : \A k \in 1..Len(A) : A[k].hash = BlockHash(c, k - 1)
  BY DEF IsHistory
<1>3. Last(A).hash = BlockHash(c, Len(A) - 1)
  BY <1>1, <1>2 DEF Last
<1>4. IsHistory(Front(A)) /\ Len(Front(A)) = Len(A) - 1
  BY FrontHistory
<1>5. \A k \in 1..Len(Front(A)) : Front(A)[k].hash = BlockHash(c, k - 1)
  <2>1. \A k \in 1..Len(Front(A)) : k \in 1..Len(A) /\ Front(A)[k] = A[k]
    BY <1>1, <1>4, FrontSeq
  <2>2. QED
    BY <1>2, <2>1
<1>6. Len(Front(A)) <= Top
  BY <1>1, <1>4 DEF IsHistory, ReadAssumption
<1>7. QED
  BY <1>3, <1>4, <1>5, <1>6, AppendHistory

\* What a topic admits are entries.
LEMMA ListsAreEntries ==
  ASSUME ReadAssumption, NEW c \in Chains, NEW h \in 0..Top, NEW list \in Lists(c, h)
  PROVE  list \in Seq(Entries)
<1>1. BlockHash(c, h) \in Seq(Forks)
  BY HashIsSeq
<1>2. \A i \in 0..(TxCount - 1) : Ref(c, h, i) \in Entries
  BY <1>1 DEF Ref, Tx, Entries, TxIDs, ReadAssumption
<1>3. TxCount \in Nat /\ TxCount - 1 \in 0..(TxCount - 1) /\ \A i \in 1..TxCount : i - 1 \in 0..(TxCount - 1)
  BY DEF ReadAssumption
<1>4. [i \in 1..TxCount |-> Ref(c, h, i - 1)] \in Seq(Entries)
  BY <1>2, <1>3
<1>5. <<Ref(c, h, TxCount - 1)>> \in Seq(Entries)
  BY <1>2, <1>3
<1>6. << >> \in Seq(Entries)
  OBVIOUS
<1>7. QED
  BY <1>4, <1>5, <1>6 DEF Lists

\* What the storage and the chain do beside the call.
WorldStep == StoreBlock \/ Reorg \/ StoreAnchor \/ Rollback \/ Rewrite

\* The history stays one; under one revision it only grows; and the moment is remembered.
LEMMA WorldMoves ==
  ASSUME ReadAssumption, IInv, WorldStep
  PROVE  /\ HistoryInv'
         /\ UNCHANGED call
         /\ history'.rev \in Nat /\ history.rev <= history'.rev
         /\ history'.rev = history.rev => Prefix(history.anchors, history'.anchors)
         /\ pc \in {"recheck", "current", "close", "reply"} => moments' = moments \cup {<<chain', history'>>}
         /\ pc \notin {"recheck", "current", "close", "reply"} => moments' = moments
<1> USE DEF IInv, HistoryInv
<1>a. PICK S : history.anchors \in Seq(S)
  BY DEF IsHistory, IsSeq
<1>b. Prefix(history.anchors, history.anchors)
  BY <1>a DEF Prefix
<1>1. CASE StoreBlock
  <2> DEFINE h == Len(history.anchors)
  <2>1. PICK list \in Lists(chain, h) :
          history' = [history EXCEPT !.anchors = AppendAnchor(@, BlockHash(chain, h), list)]
    BY <1>1 DEF StoreBlock
  <2>2. pc = "idle" /\ h <= Top /\ UNCHANGED <<chain, moments, call>>
    BY <1>1 DEF StoreBlock
  <2>3. list \in Seq(Entries)
    BY <1>a, <2>1, <2>2, ListsAreEntries DEF ReadAssumption
  <2>4. history'.anchors = AppendAnchor(history.anchors, BlockHash(chain, h), list)
        /\ history'.rev = history.rev /\ DOMAIN history' = {"anchors", "rev"}
    BY <2>1
  <2>5. /\ IsHistory(history'.anchors) /\ Prefix(history.anchors, history'.anchors)
        /\ \A k \in 1..Len(history'.anchors) : history'.anchors[k].hash = BlockHash(chain, k - 1)
    BY <2>2, <2>3, <2>4, AppendHistory
  <2>6. QED
    BY <2>2, <2>4, <2>5
<1>2. CASE Reorg
  BY <1>2, <1>b DEF Reorg, Remember, Busy, call
<1>3. CASE StoreAnchor
  <2> DEFINE h == Len(history.anchors)
  <2>1. /\ history' = [history EXCEPT !.anchors = AppendAnchor(@, BlockHash(chain, h), << >>)]
        /\ pc # "idle" /\ h <= Top /\ UNCHANGED <<chain, call>> /\ Remember
        /\ \A k \in 1..h : history.anchors[k].hash = BlockHash(chain, k - 1)
    BY <1>3 DEF StoreAnchor, Busy
  <2>2. history'.anchors = AppendAnchor(history.anchors, BlockHash(chain, h), << >>)
        /\ history'.rev = history.rev /\ DOMAIN history' = {"anchors", "rev"}
    BY <2>1
  <2>3. IsHistory(history'.anchors) /\ Prefix(history.anchors, history'.anchors)
    BY <2>1, <2>2, AppendHistory, << >> \in Seq(Entries)
  <2>4. QED
    BY <2>1, <2>2, <2>3 DEF Remember, call
<1>4. CASE Rollback
  <2>1. /\ history' = [anchors |-> Front(history.anchors), rev |-> history.rev + 1]
        /\ pc # "idle" /\ UNCHANGED <<chain, call>> /\ Remember
        /\ history.anchors # << >>
    BY <1>4 DEF Rollback, Busy
  <2>2. IsHistory(history'.anchors) /\ history'.rev = history.rev + 1 /\ DOMAIN history' = {"anchors", "rev"}
    BY <2>1, FrontHistory
  <2>3. QED
    BY <2>1, <2>2 DEF Remember, call
<1>5. CASE Rewrite
  <2>1. /\ pc # "idle" /\ UNCHANGED <<chain, call>> /\ Remember
        /\ history.anchors # << >>
    BY <1>5 DEF Rewrite, Busy
  <2>2. PICK c \in Chains : \A k \in 1..Len(history.anchors) : history.anchors[k].hash = BlockHash(c, k - 1)
    BY DEF IsHistory
  <2>3. Last(history.anchors).hash \in Seq(Forks)
    <3>1. Len(history.anchors) \in 1..Len(history.anchors) /\ Len(history.anchors) - 1 \in 0..Top
      BY <1>a, <2>1 DEF IsHistory, ReadAssumption
    <3>2. Last(history.anchors).hash = BlockHash(c, Len(history.anchors) - 1)
      BY <3>1, <2>2 DEF Last
    <3>3. QED
      BY <3>1, <3>2, HashIsSeq
  <2>4. PICK list \in {<< >>, [i \in 1..TxCount |-> [txid |-> <<Last(history.anchors).hash, i - 1>>, index |-> i - 1]]} :
             history' = [anchors |-> AppendAnchor(Front(history.anchors), Last(history.anchors).hash, list),
                            rev |-> history.rev + 1]
    BY <1>5 DEF Rewrite
  <2>5. \A i \in 1..TxCount : [txid |-> <<Last(history.anchors).hash, i - 1>>, index |-> i - 1] \in Entries
    BY <2>3 DEF Entries, TxIDs, ReadAssumption
  <2>6. list \in Seq(Entries)
    <3>1. << >> \in Seq(Entries) /\ TxCount \in Nat
      BY DEF ReadAssumption
    <3>2. PICK f : f = [i \in 1..TxCount |->
                          [txid |-> <<Last(history.anchors).hash, i - 1>>, index |-> i - 1]]
      OBVIOUS
    <3>3. \A i \in 1..TxCount : f[i] \in Entries
      BY <2>5, <3>2
    <3>4. f \in [1..TxCount -> Entries]
      BY <3>2, <3>3
    <3>5. f \in Seq(Entries)
      BY <3>1, <3>4
    <3>6. QED
      BY <2>4, <3>1, <3>2, <3>5
  <2>7. IsHistory(history'.anchors) /\ history'.rev = history.rev + 1 /\ DOMAIN history' = {"anchors", "rev"}
    BY <2>1, <2>4, <2>6, RewriteHistory
  <2>8. QED
    BY <2>1, <2>7 DEF Remember, call
<1>6. QED
  BY <1>1, <1>2, <1>3, <1>4, <1>5 DEF WorldStep

\* Being the beginning is transitive.
LEMMA PrefixThrough ==
  ASSUME NEW A, NEW B, NEW C, Len(A) \in Nat, Len(B) \in Nat, Len(C) \in Nat, Prefix(A, B), Prefix(B, C)
  PROVE  Prefix(A, C)
BY DEF Prefix

\* The storage and the chain may move at any time.
LEMMA WorldKeeps == ASSUME ReadAssumption, IInv, WorldStep PROVE IInv'
<1> USE DEF IInv
<1>1. /\ UNCHANGED call /\ HistoryInv'
      /\ history'.rev \in Nat /\ history.rev <= history'.rev
      /\ history'.rev = history.rev => Prefix(history.anchors, history'.anchors)
  BY WorldMoves
<1>2. /\ UNCHANGED <<req, pc, view, page, headers, checked, admitted, raw, output, err, expired, reply>>
      /\ Answered' = Answered /\ Complete1' = Complete1
  BY <1>1 DEF call, Answered, Complete1
<1>3. ErrorInv' /\ RequestInv' /\ PageInv' /\ ListInv' /\ RawInv'
  BY <1>2 DEF ErrorInv, RequestInv, PageInv, ListInv, RawInv, Answers
<1>4. PassedInv' /\ OriginInv'
  BY <1>2 DEF PassedInv, Passed, OriginInv, FromView
<1>5. ASSUME pc \in Inside PROVE Follows(history)'
  <2>1. /\ view.rev \in Nat /\ view.rev <= history.rev /\ history.rev \in Nat
        /\ history.rev = view.rev => Prefix(view.anchors, history.anchors)
    BY <1>5 DEF Follows, ViewInv
  <2>2. Len(view.anchors) \in Nat /\ Len(history.anchors) \in Nat /\ Len(history'.anchors) \in Nat
    BY <1>1, <1>5 DEF ViewInv, HistoryInv, IsHistory, IsSeq
  <2>3. history'.rev = view.rev => Prefix(view.anchors, history'.anchors)
    BY <1>1, <2>1, <2>2, PrefixThrough
  <2>4. QED
    BY <1>1, <1>2, <2>1, <2>3 DEF Follows
<1>6. ViewInv'
  BY <1>2, <1>5 DEF ViewInv
<1>7. MomentInv'
  <2>1. SUFFICES ASSUME pc \in Checking PROVE MomentInv'
    BY <1>2 DEF MomentInv
  <2>2. moments' = moments \cup {<<chain', history'>>}
    BY <2>1, WorldMoves DEF Checking
  <2>3. \A m \in moments : Follows(m[2])' <=> Follows(m[2])
    BY <1>2 DEF Follows
  <2>4. Follows(history)'
    BY <1>6, <1>2, <2>1 DEF ViewInv, Checking, Inside
  <2>5. chain' \in Chains
    BY <1>1 DEF HistoryInv
  <2>6. \A m \in moments : m[2].rev <= history'.rev
    BY <1>1, <2>1 DEF MomentInv, Follows, HistoryInv
  <2>7. \A m \in moments' : m[1] \in Chains /\ Follows(m[2])' /\ m[2].rev <= history'.rev
    BY <2>1, <2>2, <2>3, <2>4, <2>5, <2>6, <1>1 DEF MomentInv
  <2>8. \E m \in moments' : CanonicalAt(m, checked)'
    BY <1>2, <2>1, <2>2 DEF MomentInv, CanonicalAt
  <2>9. QED
    BY <2>2, <2>7, <2>8 DEF MomentInv
<1>8. CurrentInv'
  <2>1. moments \subseteq moments'
    BY WorldMoves
  <2>2. QED
    BY <1>2, <2>1 DEF CurrentInv, CanonicalAt, StoredAt
<1>9. QED
  BY <1>1, <1>3, <1>4, <1>6, <1>7, <1>8

-----------------------------------------------------------------------------
(* The call *)

\* Initially nothing has been read.
LEMMA InitIInv == ASSUME ReadAssumption, Init PROVE IInv
<1> USE DEF Init
<1>0. IsSeq(<< >>) /\ Len(<< >>) = 0
  BY << >> \in Seq({}) DEF IsSeq
<1>1. HistoryInv
  <2>1. \E c \in Chains : TRUE
    OBVIOUS
  <2>2. IsHistory(<< >>)
    BY <1>0, <2>1 DEF IsHistory, ReadAssumption
  <2>3. QED
    BY <1>0, <2>2 DEF HistoryInv
<1>2. ViewInv /\ ErrorInv
  BY DEF ViewInv, ErrorInv, Pcs, Before, Inside, Checking, Complete1, Answered
<1>3. RequestInv /\ PassedInv /\ OriginInv /\ MomentInv /\ CurrentInv /\ ListInv
  BY DEF RequestInv, PassedInv, OriginInv, MomentInv, CurrentInv, ListInv, Inside, Checking,
         Complete1, Answered
<1>4. PageInv
  BY <1>0 DEF PageInv, Complete1, Answered, Checking, ReadAssumption
<1>5. RawInv
  BY <1>0 DEF RawInv, Complete1, Answered, Checking
<1>6. QED
  BY <1>1, <1>2, <1>3, <1>4, <1>5 DEF IInv

\* The deadline passes.
LEMMA ExpireKeeps == ASSUME IInv, Expire PROVE IInv'
<1>1. /\ UNCHANGED <<chain, history, moments, req, pc, view, page, headers, checked, admitted, raw,
                     output, err, reply>>
      /\ expired' = TRUE
  BY DEF Expire, world
<1>2. Answered' = Answered /\ Complete1' = Complete1
  BY <1>1 DEF Answered, Complete1
<1>3. ErrorInv' /\ RequestInv' /\ PageInv' /\ ListInv' /\ RawInv' /\ HistoryInv'
  BY <1>1, <1>2 DEF IInv, ErrorInv, RequestInv, PageInv, ListInv, RawInv, Answers, HistoryInv
<1>4. PassedInv' /\ OriginInv' /\ ViewInv' /\ MomentInv' /\ CurrentInv'
  BY <1>1, <1>2 DEF IInv, PassedInv, Passed, OriginInv, FromView, ViewInv, Follows, MomentInv, CanonicalAt,
                    CurrentInv, StoredAt
<1>5. QED
  BY <1>3, <1>4 DEF IInv

\* An error inside the view ends the reading.
LEMMA FailKeeps ==
  ASSUME IInv, pc \in Inside, NEW e, e \notin {"nil", "ok"}, Fail(e), Quiet, UNCHANGED <<view, moments>>
  PROVE  IInv'
<1>1. /\ UNCHANGED <<chain, history, moments, req, view, page, headers, checked, admitted, raw,
                     output, expired, reply>>
      /\ pc' = "close" /\ err' \notin {"nil", "ok"}
  BY DEF Quiet, Fail, world
<1>2. ~Answered' /\ ~Complete1' /\ reply = "none"
  BY <1>1 DEF Answered, Complete1, Checking, IInv, ErrorInv, Inside
<1>3. ErrorInv' /\ RequestInv' /\ PageInv' /\ ListInv' /\ RawInv' /\ HistoryInv'
  BY <1>1, <1>2 DEF IInv, ErrorInv, RequestInv, PageInv, ListInv, RawInv, HistoryInv, Before, Checking, Inside
<1>4. PassedInv' /\ OriginInv' /\ ViewInv' /\ MomentInv' /\ CurrentInv'
  BY <1>1, <1>2 DEF IInv, PassedInv, OriginInv, ViewInv, Follows, MomentInv,
                    CurrentInv, Inside, Pcs, Checking
<1>5. QED
  BY <1>3, <1>4 DEF IInv

\* What DecodeReadRequest accepts.
LEMMA RequestTypes ==
  ASSUME ReadAssumption, NEW r \in Requests, DecodeReadRequest(r) = "nil"
  PROVE  /\ r.kind \in Routes
         /\ r.kind = "range" =>
              /\ r.from \in Nat /\ r.to \in Nat
              /\ r.from <= r.to /\ r.to - r.from + 1 <= MaxRange
         /\ r.kind \in {"list", "proof"} => r.height \in Nat
         /\ r.kind = "raw" => IsSeq(r.txids) /\ IsInjective(r.txids)
         /\ r.kind \in {"proof", "raw"} => Len(r.txids) <= MaxTxIDs
<1>1. r.kind \in Routes
  BY DEF Requests, Routes
<1>2. ASSUME r.kind = "range"
      PROVE  /\ r.from \in Nat /\ r.to \in Nat
             /\ r.from <= r.to /\ r.to - r.from + 1 <= MaxRange
  <2>1. r \in [kind : {"range"}, from : 0..Top, to : 0..Top]
    BY <1>2 DEF Requests
  <2>2. ValidateRange(r.from, r.to) = "nil"
    BY <1>2 DEF DecodeReadRequest
  <2>3. QED
    BY <2>1, <2>2 DEF ValidateRange, ReadAssumption
<1>3. ASSUME r.kind \in {"list", "proof"} PROVE r.height \in Nat
  <2>1. r.height \in 0..Top
    BY <1>3 DEF Requests
  <2>2. QED
    BY <2>1
<1>4. ASSUME r.kind = "raw" PROVE IsSeq(r.txids) /\ IsInjective(r.txids)
  <2>1. r.txids \in BoundedSeq(Asked, 2)
    BY <1>4 DEF Requests
  <2>2. PICK n \in 0..2 : r.txids \in [1..n -> Asked]
    BY <2>1 DEF BoundedSeq, SeqOf
  <2>3. r.txids \in Seq(Asked)
    BY <2>2
  <2>4. IsInjective(r.txids)
    BY <1>4 DEF DecodeReadRequest
  <2>5. QED
    BY <2>3, <2>4 DEF IsSeq
<1>6. ASSUME r.kind \in {"proof", "raw"} PROVE Len(r.txids) <= MaxTxIDs
  <2>1. r.txids \in BoundedSeq(Asked, 2)
    BY <1>6 DEF Requests
  <2>2. PICK n \in 0..2 : r.txids \in [1..n -> Asked]
    BY <2>1 DEF BoundedSeq, SeqOf
  <2>3. Len(r.txids) \in Nat
    BY <2>2
  <2>4. ~(Len(r.txids) > MaxTxIDs)
    BY <1>6 DEF DecodeReadRequest
  <2>5. QED
    BY <2>3, <2>4 DEF ReadAssumption
<1>5. QED
  BY <1>1, <1>2, <1>3, <1>4, <1>6

\* The handler decodes a request.
LEMMA HandleKeeps ==
  ASSUME ReadAssumption, IInv, NEW r \in Requests, Handle(r)
  PROVE  IInv'
<1> USE DEF IInv
<1>1. /\ UNCHANGED <<chain, history, view, page, headers, checked, admitted, raw, output, expired, moments>>
      /\ pc = "idle" /\ req' = r
  BY DEF Handle, world
<1>2. \/ pc' = "open" /\ err' = "nil" /\ reply' = reply /\ DecodeReadRequest(r) = "nil"
      \/ pc' = "done" /\ err' \notin {"nil", "ok"} /\ reply' # "ok"
  <2>1. DecodeReadRequest(r) \in {"nil", "invalid_request", "limit"}
    BY DEF DecodeReadRequest, ValidateRange
  <2>2. QED
    BY <2>1 DEF Handle
<1>3. output = Nothing /\ reply = "none"
  BY <1>1 DEF ErrorInv, Before
<1>4. ~Answered' /\ ~Complete1'
  BY <1>2, <1>3 DEF Answered, Complete1, Checking
<1>5. HistoryInv' /\ ViewInv' /\ ErrorInv'
  BY <1>1, <1>2, <1>3, <1>4 DEF HistoryInv, ViewInv, ErrorInv, Pcs, Inside, Before, Checking
<1>6. RequestInv'
  BY <1>1, <1>2, <1>4, RequestTypes DEF RequestInv, Inside
<1>7. PageInv' /\ PassedInv' /\ OriginInv' /\ MomentInv' /\ CurrentInv' /\ ListInv'
  BY <1>1, <1>2, <1>4 DEF PageInv, PassedInv, OriginInv, MomentInv, CurrentInv, ListInv, Before, Checking
<1>8. RawInv'
  BY <1>1, <1>2, <1>4 DEF RawInv
<1>9. QED
  BY <1>5, <1>6, <1>7, <1>8

\* The view is opened, or it is not.
LEMMA OpenKeeps == ASSUME ReadAssumption, IInv, openBASMReadView PROVE IInv'
<1> USE DEF IInv
<1>1. /\ UNCHANGED <<chain, history, req, page, headers, checked, admitted, raw, output, expired, reply, moments>>
      /\ pc = "open"
  BY DEF openBASMReadView, Quiet, world
<1>2. output = Nothing /\ reply = "none" /\ err = "nil"
  BY <1>1 DEF ErrorInv, Before
<1>3. \/ /\ view' = [open |-> TRUE, anchors |-> history.anchors, rev |-> history.rev]
         /\ pc' = (IF req.kind = "raw" THEN "raw" ELSE "anchors") /\ err' = "nil"
      \/ pc' = "reply" /\ err' \notin {"nil", "ok"} /\ view' = view
  BY <1>2 DEF openBASMReadView
<1>4. ~Answered' /\ ~Complete1'
  BY <1>1, <1>2, <1>3 DEF Answered, Complete1, Checking
<1>5. HistoryInv' /\ ErrorInv'
  BY <1>1, <1>2, <1>3, <1>4 DEF HistoryInv, ErrorInv, Before, Checking
<1>6. ViewInv'
  <2>1. Prefix(history.anchors, history.anchors)
    BY DEF HistoryInv, IsHistory, IsSeq, Prefix
  <2>2. QED
    BY <1>1, <1>3, <2>1 DEF ViewInv, HistoryInv, Follows, Pcs, Inside, Before
<1>7. RequestInv'
  BY <1>1, <1>3, <1>4 DEF RequestInv, Inside
<1>8. PageInv' /\ PassedInv' /\ OriginInv' /\ MomentInv' /\ CurrentInv' /\ ListInv'
  BY <1>1, <1>3, <1>4 DEF PageInv, PassedInv, OriginInv, MomentInv, CurrentInv, ListInv, Before, Checking
<1>9. RawInv'
  <2>1. raw.found = << >> /\ raw.missing = << >>
    BY <1>1 DEF RawInv
  <2>2. pc' = "raw" => req.kind = "raw" /\ Len(req.txids) \in Nat
    BY <1>1, <1>3 DEF RequestInv, IsSeq
  <2>3. pc' = "raw" => Answers(0)'
    BY <1>1, <2>1 DEF Answers, Range, IsInjective
  <2>4. QED
    BY <1>1, <1>3, <1>4, <2>1, <2>2, <2>3 DEF RawInv
<1>10. QED
  BY <1>5, <1>6, <1>7, <1>8, <1>9

\* The data of the answer has been read: the final checks begin.
LEMMA CompleteKeeps ==
  ASSUME ReadAssumption, IInv, pc \in {"anchors", "validate", "admitted", "raw"}, Quiet, UNCHANGED <<view, checked, page, err>>,
         Complete([kind |-> req.kind, anchors |-> page]),
         PageInv', PassedInv', OriginInv', ListInv', RawInv'
  PROVE  IInv'
<1> USE DEF IInv
<1>1. /\ UNCHANGED <<chain, history, req, view, page, checked, err, expired, reply>>
      /\ pc' = "recheck" /\ moments' = {<<chain, history>>}
      /\ output' = [kind |-> req.kind, anchors |-> page]
  BY DEF Quiet, world, Complete
<1>2. reply = "none" /\ err = "nil" /\ checked = 0
  BY DEF ErrorInv, PageInv, Before
<1>3. ~Answered' /\ Complete1'
  BY <1>1, <1>2 DEF Answered, Complete1, Checking
<1>4. HistoryInv' /\ ErrorInv' /\ RequestInv' /\ CurrentInv'
  BY <1>1, <1>2, <1>3 DEF HistoryInv, ErrorInv, RequestInv, CurrentInv, Before, Checking, Inside
<1>5. ViewInv'
  BY <1>1 DEF ViewInv, Follows, Pcs, Checking, Inside
<1>6. MomentInv'
  <2>1. Follows(history)'
    BY <1>1, <1>5 DEF ViewInv, Inside
  <2>2. PICK m : m = <<chain, history>>
    OBVIOUS
  <2>3. m[1] = chain /\ m[2] = history /\ moments' = {m}
    BY <1>1, <2>2
  <2>4. CanonicalAt(m, checked)'
    BY <1>1, <1>2 DEF CanonicalAt
  <2>5. chain \in Chains /\ history.rev <= history.rev
    BY DEF HistoryInv
  <2>6. QED
    BY <1>1, <2>1, <2>2, <2>3, <2>4, <2>5 DEF MomentInv, Follows
<1>7. QED
  BY <1>4, <1>5, <1>6

\* The view has returned a page of anchors.
LEMMA PageKeeps ==
  ASSUME ReadAssumption, IInv, pc = "anchors", Quiet, UNCHANGED <<view, headers, checked, admitted, raw, output, err, moments>>,
         pc' = "validate", req.kind # "raw",
         IsSeq(page'), Len(page') >= 1, Len(page') <= MaxRange,
         \A k \in 1..Len(page') : FromView(page'[k]),
         req.kind = "range" => Len(page') = req.to - req.from + 1,
         req.kind # "range" => Len(page') = 1,
         req.kind \in {"list", "proof"} => page'[1].height = req.height
  PROVE  IInv'
<1> USE DEF IInv
<1>1. UNCHANGED <<chain, history, req, view, headers, checked, admitted, raw, output, err, expired, reply, moments>>
  BY DEF Quiet, world
<1>2. reply = "none" /\ err = "nil" /\ output = Nothing /\ headers = << >> /\ checked = 0
  BY DEF ErrorInv, PageInv, Before
<1>3. ~Answered' /\ ~Complete1'
  BY <1>1, <1>2 DEF Answered, Complete1, Checking
<1>4. HistoryInv' /\ ErrorInv' /\ RequestInv' /\ CurrentInv' /\ MomentInv' /\ ListInv' /\ RawInv'
  BY <1>1, <1>2, <1>3 DEF HistoryInv, ErrorInv, RequestInv, CurrentInv, MomentInv, ListInv, RawInv, Before, Checking, Inside
<1>5. ViewInv'
  BY <1>1 DEF ViewInv, Follows, Pcs, Inside, Before
<1>6. PageInv'
  <2>1. Len(headers) = 0
    BY <1>2
  <2>2. Len(page') \in Nat
    BY DEF IsSeq
  <2>3. QED
    BY <1>1, <1>2, <1>3, <2>1, <2>2 DEF PageInv, Before
<1>7. PassedInv'
  <2>1. \A k \in 1..Len(headers') : Passed(k)'
    BY <1>1, <1>2
  <2>2. QED
    BY <1>1, <1>3, <2>1 DEF PassedInv
<1>8. OriginInv'
  BY <1>1 DEF OriginInv, FromView
<1>9. QED
  BY <1>4, <1>5, <1>6, <1>7, <1>8

\* The view is asked for anchors.
LEMMA ReadAnchorsKeeps == ASSUME ReadAssumption, IInv, readAnchors PROVE IInv'
<1> USE DEF IInv
<1>a. /\ pc = "anchors" /\ Quiet /\ UNCHANGED view
      /\ page = << >> /\ headers = << >> /\ req.kind # "raw" /\ checked = 0
      /\ pc \in Inside /\ req.kind \in Routes
  BY DEF readAnchors, PageInv, RawInv, Inside, RequestInv, Before
<1>b. PICK S : view.anchors \in Seq(S)
  BY <1>a DEF ViewInv, IsHistory, IsSeq
<1>c. MaxRange >= 1 /\ MaxRange \in Nat
  BY DEF ReadAssumption
<1>d. \A k \in 1..Len(view.anchors) : DOMAIN view.anchors[k] = AnchorFields
  BY <1>a DEF ViewInv, IsHistory, IsAnchor
<1>1. ASSUME req.kind = "tip", view.anchors = << >>,
             Complete([kind |-> "tip", anchors |-> << >>]),
             UNCHANGED <<page, headers, checked, admitted, raw, err>>
      PROVE  IInv'
  <2>1. pc' = "recheck" /\ req' = req
    BY <1>1, <1>a DEF Complete, Quiet
  <2>2. Len(<< >>) = 0 /\ 1..0 = {}
    OBVIOUS
  <2>3. PageInv'
    BY <1>1, <1>a, <2>1, <2>2 DEF PageInv, Before
  <2>4. PassedInv'
    BY <1>1, <1>a, <2>1, <2>2 DEF PassedInv
  <2>5. OriginInv' /\ ListInv' /\ RawInv'
    BY <1>1, <1>a, <2>1, <2>2 DEF OriginInv, ListInv, RawInv
  <2>6. QED
    BY <1>1, <1>a, <2>3, <2>4, <2>5, CompleteKeeps
<1>2. ASSUME req.kind = "tip", view.anchors # << >>,
             NEW p \in Pages(<<Last(view.anchors)>>), p # << >>, page' = p, pc' = "validate",
             UNCHANGED <<headers, checked, admitted, raw, output, err, moments>>
      PROVE  IInv'
  <2>1. PICK x : x = Last(view.anchors)
    OBVIOUS
  <2>2. x = view.anchors[Len(view.anchors)] /\ Len(view.anchors) \in 1..Len(view.anchors)
    BY <1>2, <1>b, <2>1 DEF Last
  <2>3. /\ <<x>> \in Seq({x}) /\ Len(<<x>>) = 1 /\ <<x>>[1] = x
        /\ \A k \in 1..Len(<<x>>) : DOMAIN <<x>>[k] = AnchorFields
    BY <1>d, <2>2
  <2>4. /\ IsSeq(p) /\ Len(p) <= 1
        /\ \A k \in 1..Len(p) : \E j \in 1..1 : SameBlock(p[k], <<x>>[j])
    BY <1>2, <2>1, <2>3, PageElements DEF IsSeq
  <2>5. \A k \in 1..Len(p) : SameBlock(p[k], x)
    BY <2>3, <2>4
  <2>6. \A k \in 1..Len(p) : FromView(p[k])
    BY <2>2, <2>5 DEF FromView
  <2>7. Len(p) = 1
    BY <1>2, <2>4 DEF IsSeq
  <2>8. QED
    BY <1>2, <1>a, <1>c, <2>4, <2>6, <2>7, PageKeeps
<1>3. ASSUME NEW from, NEW to, from = From(req) + 1, to = To(req) + 1,
             req.kind # "tip", to <= Len(view.anchors),
             NEW p \in Pages(SubSeq(view.anchors, from, to)),
             Len(p) = to - from + 1,
             req.kind # "range" => p[1].height = req.height, page' = p, pc' = "validate",
             UNCHANGED <<headers, checked, admitted, raw, output, err, moments>>
      PROVE  IInv'
  <2>1. from = From(req) + 1 /\ to = To(req) + 1
    BY <1>3
  <2>a. /\ From(req) \in Nat /\ To(req) \in Nat /\ From(req) <= To(req)
        /\ To(req) - From(req) + 1 <= MaxRange
        /\ req.kind = "range" => From(req) = req.from /\ To(req) = req.to
        /\ req.kind # "range" => From(req) = To(req)
    <3>1. CASE req.kind = "range"
      BY <1>a, <3>1 DEF From, To, RequestInv
    <3>2. CASE req.kind # "range"
      <4>1. req.kind \in {"list", "proof"}
        BY <1>3, <1>a, <3>2 DEF Routes
      <4>2. req.height \in Nat /\ From(req) = req.height /\ To(req) = req.height
        BY <1>a, <3>2, <4>1 DEF From, To, RequestInv
      <4>3. QED
        BY <1>c, <3>2, <4>2
    <3>3. QED
      BY <3>1, <3>2
  <2>2. from \in Nat /\ to \in Nat /\ 1 <= from /\ from <= to /\ to - from + 1 <= MaxRange
    BY <2>1, <2>a
  <2>3. PICK a : a = SubSeq(view.anchors, from, to)
    OBVIOUS
  <2>4. a \in Seq(S) /\ Len(a) = to - from + 1
    BY <1>3, <1>b, <2>1, <2>2, <2>3
  <2>5. \A j \in 1..Len(a) : from + j - 1 \in 1..Len(view.anchors) /\ a[j] = view.anchors[from + j - 1]
    BY <1>3, <1>b, <2>1, <2>2, <2>3, <2>4
  <2>6. \A j \in 1..Len(a) : DOMAIN a[j] = AnchorFields
    BY <1>d, <2>5
  <2>7. /\ IsSeq(p)
        /\ \A k \in 1..Len(p) : \E j \in 1..Len(a) : SameBlock(p[k], a[j])
    <3>1. p \in Pages(a)
      BY <1>3, <2>1, <2>3
    <3>2. QED
      BY <2>4, <2>6, <3>1, PageElements DEF IsSeq
  <2>8. \A k \in 1..Len(p) : FromView(p[k])
    BY <2>5, <2>7 DEF FromView
  <2>9. Len(p) = to - from + 1
    BY <1>3
  <2>10. /\ req.kind = "range" => Len(p) = req.to - req.from + 1
         /\ req.kind # "range" => Len(p) = 1
    BY <2>1, <2>9, <2>a
  <2>11. Len(p) >= 1 /\ Len(p) <= MaxRange
    BY <2>2, <2>9
  <2>12. QED
    BY <1>3, <1>a, <2>7, <2>8, <2>10, <2>11, PageKeeps
<1>4. ASSUME NEW e, e \notin {"nil", "ok"}, Fail(e), UNCHANGED moments PROVE IInv'
  BY <1>4, <1>a, FailKeeps
<1>5. CASE ReadTip
  <2>1. CASE view.anchors = << >>
    BY <1>1, <1>5, <2>1 DEF ReadTip
  <2>2. CASE view.anchors # << >>
    BY <1>2, <1>5, <2>2 DEF ReadTip
  <2>3. QED
    BY <2>1, <2>2
<1>6. CASE ReadInterval(From(req) + 1, To(req) + 1)
  <2> HIDE DEF IInv
  <2>0. PICK from, to : from = From(req) + 1 /\ to = To(req) + 1
    OBVIOUS
  <2>a. ReadInterval(from, to)
    BY <1>6, <2>0
  <2>1. PICK p \in Pages(SubSeq(view.anchors, from, to)) :
          IF Len(p) # to - from + 1 \/ (req.kind # "range" /\ p[1].height # req.height)
          THEN Fail("not_ready")
          ELSE /\ page' = p
               /\ pc' = "validate"
               /\ UNCHANGED <<headers, checked, admitted, raw, output, err>>
    BY Zenon, <2>a DEF ReadInterval
  <2>2. req.kind # "tip" /\ to <= Len(view.anchors) /\ UNCHANGED moments
    BY <2>a DEF ReadInterval
  <2>3. CASE Fail("not_ready")
    BY <1>4, <2>2, <2>3
  <2>4. CASE ~Fail("not_ready")
    <3>1. /\ Len(p) = to - from + 1
          /\ req.kind # "range" => p[1].height = req.height
          /\ page' = p /\ pc' = "validate"
          /\ UNCHANGED <<headers, checked, admitted, raw, output, err>>
      BY <2>1, <2>4
    <3>2. QED
      BY <1>3, <2>0, <2>2, <3>1
  <2>5. QED
    BY <2>3, <2>4
<1>7. CASE AnchorsFail
  BY <1>4, <1>7 DEF AnchorsFail
<1>8. QED
  BY <1>5, <1>6, <1>7 DEF readAnchors

\* One more anchor has passed validateAnchorRange.
LEMMA OneMorePassed ==
  ASSUME ReadAssumption, IInv, pc = "validate", UNCHANGED <<chain, req, page>>,
         validateAnchor(page[Len(headers) + 1], Len(headers) + 1) = "nil",
         headers' = Append(headers, Header(chain, page[Len(headers) + 1].height))
  PROVE  /\ IsSeq(headers') /\ Len(headers') = Len(headers) + 1
         /\ \A k \in 1..Len(headers') : Passed(k)'
<1>1. PICK S : headers \in Seq(S)
  BY DEF IInv, PageInv, IsSeq
<1>2. PICK i : i = Len(headers) + 1
  OBVIOUS
<1>3. PICK a : a = page[i]
  OBVIOUS
<1>4. PICK x : x = Header(chain, a.height)
  OBVIOUS
<1>5. /\ headers' \in Seq(S \cup {x}) /\ Len(headers') = i
      /\ \A k \in 1..Len(headers) : headers'[k] = headers[k]
      /\ headers'[i] = x
  BY <1>1, <1>2, <1>3, <1>4
<1>6. ValidateUnlinked(a, i) = "nil"
  BY <1>2, <1>3 DEF validateAnchor
<1>7. ~(i > 1 /\ a.tac # HashTACStep(page[i - 1].tac, a.hash, a.root))
  BY <1>2, <1>3, <1>6 DEF validateAnchor
<1>8. /\ a.topic = "t" /\ ValidAnchor(a) /\ x.hash = a.hash
      /\ req.kind = "range" => a.height = req.from + i - 1
  BY <1>4, <1>6 DEF ValidateUnlinked
<1>9. x = [height |-> a.height, hash |-> a.hash]
  BY <1>4, <1>8 DEF Header
<1>10. Passed(i)'
  BY <1>3, <1>5, <1>7, <1>8, <1>9 DEF Passed
<1>11. \A k \in 1..Len(headers) : Passed(k)'
  BY <1>5 DEF IInv, PassedInv, Passed
<1>12. QED
  BY <1>1, <1>2, <1>5, <1>10, <1>11 DEF IsSeq

\* The anchor of a round is checked, and the round ends one way or another.
LEMMA ValidateKeeps == ASSUME ReadAssumption, IInv, validateAnchorRange PROVE IInv'
<1> DEFINE i == Len(headers) + 1
           e == validateAnchor(page[i], i)
<1>a. pc = "validate" /\ Quiet /\ UNCHANGED view /\ pc \in Inside
  BY DEF validateAnchorRange, Inside
<1>b. /\ err = "nil" /\ output = Nothing /\ reply = "none" /\ checked = 0
      /\ req.kind # "raw" /\ req.kind \in Routes
      /\ Len(headers) \in Nat /\ Len(page) \in Nat /\ i <= Len(page)
  BY <1>a DEF IInv, ErrorInv, PageInv, PassedInv, RequestInv, Before, Inside, IsSeq
<1>c. e \in {"nil", "timeout", "invalid_data", "not_ready"}
  BY DEF validateAnchor, ValidateUnlinked
<1>1. ASSUME e = "nil", headers' = Append(headers, Header(chain, page[i].height)),
             UNCHANGED <<page, checked, admitted, raw, err>>
      PROVE  IInv'
  <2>1. UNCHANGED <<chain, history, req, expired, reply, view, page, checked, admitted, raw, err>>
    BY <1>1, <1>a DEF Quiet, world
  <2>2. IsSeq(headers') /\ Len(headers') = i /\ \A k \in 1..Len(headers') : Passed(k)'
    BY <1>1, <1>a, <2>1, OneMorePassed
  <2>3. ASSUME i < Len(page), UNCHANGED <<pc, output, moments>> PROVE IInv'
    <3>1. ~Answered' /\ ~Complete1' /\ pc' = "validate"
      BY <1>a, <1>b, <2>1, <2>3 DEF Answered, Complete1, Checking
    <3>2. HistoryInv' /\ ErrorInv' /\ RequestInv' /\ ListInv' /\ RawInv' /\ MomentInv' /\ CurrentInv'
      BY <1>a, <1>b, <2>1, <2>3, <3>1 DEF IInv, HistoryInv, ErrorInv, RequestInv, ListInv, RawInv, MomentInv,
         CurrentInv, Checking, Before, Inside
    <3>3. ViewInv' /\ OriginInv'
      BY <1>a, <2>1, <3>1 DEF IInv, ViewInv, OriginInv, FromView, Follows, Inside
    <3>4. PageInv'
      BY <1>a, <1>b, <2>1, <2>2, <2>3, <3>1 DEF IInv, PageInv, Before
    <3>5. PassedInv'
      BY <1>a, <2>1, <2>2, <3>1 DEF IInv, PassedInv
    <3>6. QED
      BY <3>2, <3>3, <3>4, <3>5 DEF IInv
  <2>4. ASSUME i = Len(page), req.kind \in {"tip", "range"}, ReadDone PROVE IInv'
    <3>1. pc' = "recheck"
      BY <2>4 DEF ReadDone, Complete
    <3>2. PageInv'
      BY <1>a, <1>b, <2>1, <2>2, <2>4, <3>1 DEF IInv, PageInv, Before
    <3>3. PassedInv'
      BY <1>a, <2>1, <2>2, <2>4, <3>1 DEF IInv, PassedInv
    <3>4. OriginInv' /\ ListInv' /\ RawInv'
      BY <1>a, <2>1, <2>4, <3>1 DEF IInv, OriginInv, FromView, ListInv, RawInv
    <3>5. QED
      BY <1>1, <1>a, <2>4, <3>2, <3>3, <3>4, CompleteKeeps DEF ReadDone
  <2>5. ASSUME i = Len(page), req.kind \in {"list", "proof"}, pc' = "admitted", UNCHANGED <<output, moments>>
        PROVE  IInv'
    <3>1. ~Answered' /\ ~Complete1'
      BY <1>a, <1>b, <2>1, <2>5 DEF Answered, Complete1, Checking
    <3>2. HistoryInv' /\ ErrorInv' /\ RequestInv' /\ ListInv' /\ RawInv' /\ MomentInv' /\ CurrentInv'
      BY <1>a, <1>b, <2>1, <2>5, <3>1 DEF IInv, HistoryInv, ErrorInv, RequestInv, ListInv, RawInv, MomentInv,
         CurrentInv, Checking, Before, Inside
    <3>3. ViewInv' /\ OriginInv'
      BY <1>a, <2>1, <2>5 DEF IInv, ViewInv, OriginInv, FromView, Follows, Inside, Pcs, Before
    <3>4. PageInv'
      BY <1>a, <1>b, <2>1, <2>2, <2>5, <3>1 DEF IInv, PageInv, Before
    <3>5. PassedInv'
      BY <1>a, <2>1, <2>2, <2>5, <3>1 DEF IInv, PassedInv
    <3>6. QED
      BY <3>2, <3>3, <3>4, <3>5 DEF IInv
  <2>6. /\ i < Len(page) \/ i = Len(page)
        /\ req.kind \in {"tip", "range"} \/ req.kind \in {"list", "proof"}
    BY <1>b DEF Routes
  <2>7. IF i < Len(page) THEN UNCHANGED <<pc, output, moments>>
        ELSE IF req.kind \in {"tip", "range"} THEN ReadDone
        ELSE pc' = "admitted" /\ UNCHANGED <<output, moments>>
    <3>1. ~Fail(e)
      BY <1>1, <1>a, <1>b DEF Fail
    <3>2. ~Fail("resolver")
      BY <1>1, <1>a, <1>b DEF Fail
    <3>3. QED
      BY <3>1, <3>2 DEF validateAnchorRange
  <2>8. QED
    BY <1>b, <2>3, <2>4, <2>5, <2>6, <2>7
<1>2. ASSUME NEW f, f \notin {"nil", "ok"}, Fail(f), UNCHANGED moments PROVE IInv'
  BY <1>2, <1>a, FailKeeps
<1>3. QED
  BY <1>1, <1>2, <1>c DEF validateAnchorRange

-----------------------------------------------------------------------------
(* Admitted lists and raw transactions *)

\* Whatever the storage returns for an admitted list is a list of entries.
LEMMA ListPageEntries ==
  ASSUME ReadAssumption, NEW l \in Seq(Entries), NEW list \in ListPages(l)
  PROVE  list \in Seq(Entries)
<1>1. Reverse(l) \in Seq(Entries) /\ << >> \in Seq(Entries)
  BY ReverseSeq
<1>2. ASSUME l # << >>
      PROVE  [l EXCEPT ![1].index = TxCount] \in Seq(Entries)
  <2>1. l[1] \in Entries /\ TxCount \in Nat
    BY <1>2 DEF ReadAssumption
  <2>2. [l[1] EXCEPT !.index = TxCount] \in Entries
    BY <2>1 DEF Entries
  <2>3. PICK x : x = [l[1] EXCEPT !.index = TxCount]
    OBVIOUS
  <2>4. [l EXCEPT ![1] = x] \in Seq(Entries)
    BY <1>2, <2>2, <2>3
  <2>5. QED
    BY <2>3, <2>4
<1>3. ASSUME l # << >>
      PROVE  [l EXCEPT ![1].txid = <<@[1], TxCount>>] \in Seq(Entries)
  <2>1. l[1] \in Entries /\ TxCount \in Nat
    BY <1>3 DEF ReadAssumption
  <2>a. l[1].txid \in TxIDs
    BY <2>1 DEF Entries
  <2>2. PICK b \in Seq(Forks), n \in Nat : l[1].txid = <<b, n>>
    BY <2>a DEF TxIDs
  <2>3. PICK x : x = [l[1] EXCEPT !.txid = <<l[1].txid[1], TxCount>>]
    OBVIOUS
  <2>4. <<l[1].txid[1], TxCount>> \in TxIDs
    BY <2>1, <2>2 DEF TxIDs
  <2>5. x \in Entries
    BY <2>1, <2>3, <2>4 DEF Entries
  <2>6. [l EXCEPT ![1] = x] \in Seq(Entries)
    BY <1>3, <2>5
  <2>7. QED
    BY <2>3, <2>6
<1>4. QED
  BY <1>1, <1>2, <1>3 DEF ListPages

\* The transaction IDs of a list of entries.
LEMMA IDsOfEntries ==
  ASSUME NEW l \in Seq(Entries)
  PROVE  IDs(l) \in Seq(TxIDs)
<1>1. \A i \in 1..Len(l) : l[i].txid \in TxIDs
  <2>1. \A e \in Entries : e.txid \in TxIDs
    BY DEF Entries
  <2>2. \A i \in 1..Len(l) : l[i] \in Entries
    OBVIOUS
  <2>3. QED
    BY <2>1, <2>2
<1>2. QED
  BY <1>1 DEF IDs

\* A list that passes its anchor's root is the list the root was made of.
LEMMA AdmittedKeeps == ASSUME ReadAssumption, IInv, readAdmitted PROVE IInv'
<1> DEFINE a == page[1]
<1>a. /\ pc = "admitted" /\ Quiet /\ UNCHANGED view /\ pc \in Inside
      /\ req.kind \in {"list", "proof"} /\ Len(page) = 1 /\ Len(headers) = 1 /\ checked = 0
  BY DEF readAdmitted, Inside, IInv, PassedInv, PageInv, Before
<1>b. PICK j \in 1..Len(view.anchors) : SameBlock(a, view.anchors[j])
  BY <1>a DEF IInv, OriginInv, FromView
<1>c. /\ IsAnchor(view.anchors[j]) /\ view.anchors[j].height = j - 1
      /\ j \in Nat
  BY <1>a, <1>b DEF IInv, ViewInv, IsHistory, IsSeq
<1>d. view.anchors[a.height + 1] = view.anchors[j]
  BY <1>b, <1>c DEF SameBlock
<1>e. a.list \in Seq(Entries) /\ a.root = Root(IDs(a.list)) /\ a.list = view.anchors[j].list
  BY <1>b, <1>c DEF SameBlock, IsAnchor
<1>1. ASSUME NEW list \in ListPages(view.anchors[a.height + 1].list),
             ValidateAnchorList(a, list), req.kind = "list" => ListAnswer(a) = "nil",
             admitted' = list, Complete([kind |-> req.kind, anchors |-> page]),
             UNCHANGED <<page, headers, checked, raw, err>>
      PROVE  IInv'
  <2>1. list \in Seq(Entries)
    BY <1>1, <1>d, <1>e, ListPageEntries
  <2>2. IDs(list) = IDs(a.list)
    <3>1. Root(IDs(list)) = Root(IDs(a.list))
      BY <1>1, <1>e DEF ValidateAnchorList
    <3>2. QED
      BY <1>e, <2>1, <3>1, IDsOfEntries, RootInjective
  <2>3. /\ \A i \in 2..Len(list) : list[i].index > list[i - 1].index
        /\ \A i, k \in 1..Len(list) : list[i].txid = list[k].txid => i = k
    BY <1>1, <2>1 DEF ValidateAnchorList, ValidateListShape
  <2>4. UNCHANGED <<chain, history, req, expired, reply, view, page, headers, checked, raw, err>> /\ pc' = "recheck"
    BY <1>1, <1>a DEF Quiet, world, Complete
  <2>5. ListInv'
    <3>1. a.count = Len(list)
      BY <1>1 DEF ValidateAnchorList, ValidateListShape
    <3>2. QED
      BY <1>1, <2>1, <2>2, <2>3, <2>4, <3>1 DEF ListInv, ListAnswer, IsSeq
  <2>6. PageInv' /\ RawInv'
    BY <1>a, <2>4 DEF IInv, PageInv, RawInv, Before
  <2>7. PassedInv' /\ OriginInv'
    BY <1>a, <2>4 DEF IInv, PassedInv, Passed, OriginInv, FromView
  <2>8. QED
    BY <1>1, <1>a, <2>5, <2>6, <2>7, CompleteKeeps
<1>2. ASSUME NEW f, f \notin {"nil", "ok"}, Fail(f), UNCHANGED moments PROVE IInv'
  BY <1>2, <1>a, FailKeeps
<1>3. ASSUME NEW list \in ListPages(view.anchors[a.height + 1].list), NEW e,
             e = IF ~ValidateAnchorList(a, list) THEN "invalid_data"
                 ELSE IF req.kind = "list" THEN ListAnswer(a)
                 ELSE ProofAnswer(list),
             IF e # "nil" THEN Fail(e) /\ UNCHANGED moments
             ELSE /\ admitted' = list
                  /\ Complete([kind |-> req.kind, anchors |-> page])
                  /\ UNCHANGED <<page, headers, checked, raw, err>>
      PROVE  IInv'
  <2>1. CASE e = "nil"
    BY <1>1, <1>3, <2>1
  <2>2. CASE e # "nil"
    <3>1. e # "ok"
      BY <1>3 DEF ListAnswer, ProofAnswer
    <3>2. Fail(e) /\ UNCHANGED moments
      BY <1>3, <2>2
    <3>3. QED
      BY <1>2, <2>2, <3>1, <3>2
  <2>3. QED
    BY <2>1, <2>2
<1>4. \/ \E list \in ListPages(view.anchors[a.height + 1].list) : \E e :
            /\ e = IF ~ValidateAnchorList(a, list) THEN "invalid_data"
                   ELSE IF req.kind = "list" THEN ListAnswer(a)
                   ELSE ProofAnswer(list)
            /\ IF e # "nil" THEN Fail(e) /\ UNCHANGED moments
               ELSE /\ admitted' = list
                    /\ Complete([kind |-> req.kind, anchors |-> page])
                    /\ UNCHANGED <<page, headers, checked, raw, err>>
      \/ \E f : f \notin {"nil", "ok"} /\ Fail(f) /\ UNCHANGED moments
  BY DEF readAdmitted
<1>5. QED
  BY <1>2, <1>3, <1>4

\* One more element at the end of a sequence without repetitions.
LEMMA AppendDistinct ==
  ASSUME NEW s, IsSeq(s), NEW x
  PROVE  /\ IsSeq(Append(s, x)) /\ Len(Append(s, x)) = Len(s) + 1
         /\ Range(Append(s, x)) = Range(s) \cup {x}
         /\ IsInjective(s) /\ x \notin Range(s) => IsInjective(Append(s, x))
<1>1. PICK S : s \in Seq(S)
  BY DEF IsSeq
<1>2. PICK t : t = Append(s, x)
  OBVIOUS
<1>3. /\ t \in Seq(S \cup {x}) /\ Len(t) = Len(s) + 1 /\ DOMAIN t = 1..(Len(s) + 1)
      /\ DOMAIN s = 1..Len(s) /\ Len(s) \in Nat
      /\ \A i \in 1..Len(s) : t[i] = s[i]
      /\ t[Len(s) + 1] = x
  BY <1>1, <1>2
<1>4. Range(t) = Range(s) \cup {x}
  BY <1>3 DEF Range
<1>5. ASSUME IsInjective(s), x \notin Range(s) PROVE IsInjective(t)
  <2>1. \A i \in 1..Len(s) : s[i] # x
    BY <1>3, <1>5 DEF Range
  <2>2. \A i, k \in 1..Len(s) : s[i] = s[k] => i = k
    BY <1>3, <1>5 DEF IsInjective
  <2>3. SUFFICES ASSUME NEW i \in 1..(Len(s) + 1), NEW k \in 1..(Len(s) + 1), t[i] = t[k] PROVE i = k
    BY <1>3 DEF IsInjective
  <2>4. (i \in 1..Len(s) \/ i = Len(s) + 1) /\ (k \in 1..Len(s) \/ k = Len(s) + 1)
    BY <1>3
  <2>5. QED
    BY <1>3, <2>1, <2>2, <2>3, <2>4
<1>6. QED
  BY <1>2, <1>3, <1>4, <1>5 DEF IsSeq

\* The next transaction that was asked for is in neither list yet.
LEMMA NextIsNew ==
  ASSUME IInv, pc = "raw", NEW n \in Nat, Answers(n), n + 1 <= Len(req.txids)
  PROVE  /\ req.txids[n + 1] \notin Range(raw.found)
         /\ req.txids[n + 1] \notin Range(raw.missing)
         /\ {req.txids[i] : i \in 1..(n + 1)} = {req.txids[i] : i \in 1..n} \cup {req.txids[n + 1]}
<1>1. IsSeq(req.txids) /\ IsInjective(req.txids)
  BY DEF IInv, RequestInv, RawInv, Inside
<1>2. PICK S : req.txids \in Seq(S)
  BY <1>1 DEF IsSeq
<1>3. \A i, k \in 1..Len(req.txids) : req.txids[i] = req.txids[k] => i = k
  BY <1>1, <1>2 DEF IsInjective
<1>4. \A i \in 1..n : i \in 1..Len(req.txids) /\ n + 1 \in 1..Len(req.txids) /\ i # n + 1
  BY <1>2
<1>5. req.txids[n + 1] \notin {req.txids[i] : i \in 1..n}
  BY <1>3, <1>4
<1>6. QED
  BY <1>5 DEF Answers

\* Nothing but the two lists of a raw read changes.
LEMMA RawFrame ==
  ASSUME ReadAssumption, IInv, pc = "raw", Quiet,
         UNCHANGED <<view, pc, page, headers, checked, admitted, output, err, moments>>,
         IsSeq(raw'.found), IsSeq(raw'.missing), DOMAIN raw' = {"found", "missing"},
         \E n \in 0..Len(req.txids) : Answers(n)'
  PROVE  IInv'
<1>1. UNCHANGED <<chain, history, req, expired, reply>> /\ reply = "none"
  BY DEF Quiet, world, IInv, ErrorInv
<1>2. ~Answered' /\ ~Complete1'
  BY <1>1 DEF Answered, Complete1, Checking
<1>3. HistoryInv' /\ ErrorInv' /\ RequestInv' /\ PageInv' /\ PassedInv'
  BY <1>1, <1>2 DEF IInv, HistoryInv, ErrorInv, RequestInv, PageInv, PassedInv, Checking
<1>4. OriginInv' /\ MomentInv' /\ CurrentInv' /\ ListInv' /\ ViewInv'
  BY <1>1, <1>2 DEF IInv, OriginInv, MomentInv, CurrentInv, ListInv, ViewInv, Follows, Checking
<1>5. RawInv'
  BY <1>1, <1>2 DEF IInv, RawInv
<1>6. QED
  BY <1>3, <1>4, <1>5 DEF IInv

\* A raw read answers every requested transaction once.
LEMMA RawKeeps == ASSUME ReadAssumption, IInv, appendRawTransaction PROVE IInv'
<1> DEFINE i == Len(raw.found) + Len(raw.missing) + 1
<1>a. /\ pc = "raw" /\ Quiet /\ UNCHANGED view /\ pc \in Inside /\ req.kind = "raw"
      /\ page = << >> /\ headers = << >> /\ checked = 0
  BY DEF appendRawTransaction, Inside, IInv, RawInv, PageInv, Before
<1>b. PICK n \in 0..Len(req.txids) : Answers(n)
  BY <1>a DEF IInv, RawInv
<1>c. i = n + 1 /\ n \in Nat /\ Len(req.txids) \in Nat /\ n <= Len(req.txids)
  <2>1. Len(req.txids) \in Nat
    BY <1>a DEF IInv, RequestInv, IsSeq
  <2>2. Len(raw.found) + Len(raw.missing) = n
    BY <1>b DEF Answers
  <2>3. n \in Nat /\ n <= Len(req.txids)
    BY <2>1
  <2>4. i = n + 1
    BY <2>2
  <2>5. QED
    BY <2>1, <2>3, <2>4
<1>d. IsSeq(raw.found) /\ IsSeq(raw.missing) /\ DOMAIN raw = {"found", "missing"}
  BY DEF IInv, RawInv
<1>e. Len(raw.found) \in Nat /\ Len(raw.missing) \in Nat
  BY <1>d DEF IsSeq
<1>1. ASSUME i <= Len(req.txids),
             raw' \in {[raw EXCEPT !.found = Append(@, req.txids[i])],
                       [raw EXCEPT !.missing = Append(@, req.txids[i])]},
             UNCHANGED <<pc, page, headers, checked, admitted, output, err, moments>>
      PROVE  IInv'
  <2>1. PICK x : x = req.txids[n + 1]
    OBVIOUS
  <2>2. /\ x \notin Range(raw.found) /\ x \notin Range(raw.missing)
        /\ {req.txids[k] : k \in 1..(n + 1)} = {req.txids[k] : k \in 1..n} \cup {x}
    BY <1>1, <1>a, <1>b, <1>c, <2>1, NextIsNew
  <2>3. /\ Len(raw.found) + Len(raw.missing) = n
        /\ Range(raw.found) \cup Range(raw.missing) = {req.txids[k] : k \in 1..n}
        /\ Range(raw.found) \cap Range(raw.missing) = {}
        /\ IsInjective(raw.found) /\ IsInjective(raw.missing)
    BY <1>b DEF Answers
  <2>4. req' = req
    BY <1>a DEF Quiet
  <2>5. \/ raw'.found = Append(raw.found, x) /\ raw'.missing = raw.missing
        \/ raw'.missing = Append(raw.missing, x) /\ raw'.found = raw.found
    BY <1>1, <1>c, <1>d, <2>1
  <2>6. DOMAIN raw' = {"found", "missing"}
    BY <1>1, <1>d
  <2>a. PICK s, t : s = raw.found /\ t = raw.missing
    OBVIOUS
  <2>b. /\ IsSeq(Append(s, x)) /\ Len(Append(s, x)) = Len(s) + 1
        /\ Range(Append(s, x)) = Range(s) \cup {x} /\ IsInjective(Append(s, x))
    <3>1. IsSeq(s) /\ IsInjective(s) /\ x \notin Range(s)
      BY <1>d, <2>2, <2>3, <2>a
    <3>2. QED
      BY <3>1, AppendDistinct
  <2>c. /\ IsSeq(Append(t, x)) /\ Len(Append(t, x)) = Len(t) + 1
        /\ Range(Append(t, x)) = Range(t) \cup {x} /\ IsInjective(Append(t, x))
    <3>1. IsSeq(t) /\ IsInjective(t) /\ x \notin Range(t)
      BY <1>d, <2>2, <2>3, <2>a
    <3>2. QED
      BY <3>1, AppendDistinct
  <2>7. IsSeq(raw'.found) /\ IsSeq(raw'.missing)
    BY <1>d, <2>5, <2>a, <2>b, <2>c
  <2>8. Len(raw'.found) + Len(raw'.missing) = n + 1
    <3>1. Len(s) \in Nat /\ Len(t) \in Nat /\ Len(s) + Len(t) = n
      BY <1>e, <2>3, <2>a
    <3>2. PICK f, m : f = raw'.found /\ m = raw'.missing
      OBVIOUS
    <3>3. (f = Append(s, x) /\ m = t) \/ (f = s /\ m = Append(t, x))
      BY <2>5, <2>a, <3>2
    <3>4. (Len(f) = Len(s) + 1 /\ Len(m) = Len(t)) \/ (Len(f) = Len(s) /\ Len(m) = Len(t) + 1)
      BY Zenon, <2>b, <2>c, <3>3
    <3>5. Len(f) + Len(m) = n + 1
      BY <3>1, <3>4
    <3>6. QED
      BY <3>2, <3>5
  <2>9. /\ Range(raw'.found) \cup Range(raw'.missing) = {req.txids[k] : k \in 1..n} \cup {x}
        /\ Range(raw'.found) \cap Range(raw'.missing) = {}
    BY <2>2, <2>3, <2>5, <2>a, <2>b, <2>c
  <2>10. IsInjective(raw'.found) /\ IsInjective(raw'.missing)
    BY <2>3, <2>5, <2>a, <2>b, <2>c
  <2>11. Answers(n + 1)'
    BY <2>2, <2>4, <2>8, <2>9, <2>10 DEF Answers
  <2>12. n + 1 \in 0..Len(req.txids)
    <3>1. n + 1 <= Len(req.txids)
      BY <1>1, <1>c
    <3>2. QED
      BY <1>c, <3>1
  <2>13. QED
    BY <1>1, <1>a, <2>6, <2>7, <2>11, <2>12, RawFrame
<1>2. ASSUME NEW f, f \notin {"nil", "ok"}, Fail(f), UNCHANGED moments PROVE IInv'
  BY <1>2, <1>a, FailKeeps
<1>3. ASSUME i > Len(req.txids), Complete([kind |-> "raw", anchors |-> << >>]),
             UNCHANGED <<page, headers, checked, admitted, raw, err>>
      PROVE  IInv'
  <2>1. Answers(Len(req.txids))
    <3>1. i = n + 1 /\ n \in Nat /\ Len(req.txids) \in Nat /\ n <= Len(req.txids) /\ i > Len(req.txids)
      BY <1>3, <1>c
    <3>2. n = Len(req.txids)
      <4> HIDE DEF i
      <4>1. QED
        BY <3>1
    <3>3. QED
      BY <1>b, <3>2
  <2>2. pc' = "recheck" /\ req' = req
    BY <1>3, <1>a DEF Complete, Quiet
  <2>3. Len(<< >>) = 0 /\ 1..0 = {}
    OBVIOUS
  <2>4. RawInv'
    BY <1>3, <1>a, <1>d, <2>1, <2>2 DEF RawInv, Answers
  <2>5. PageInv'
    BY <1>3, <1>a, <2>2, <2>3 DEF IInv, PageInv, Before
  <2>6. PassedInv' /\ OriginInv' /\ ListInv'
    BY <1>3, <1>a, <2>2, <2>3 DEF PassedInv, OriginInv, ListInv
  <2>7. QED
    BY <1>3, <1>a, <2>4, <2>5, <2>6, CompleteKeeps
<1>4. QED
  BY <1>1, <1>2, <1>3 DEF appendRawTransaction

-----------------------------------------------------------------------------
(* The final checks and the answer *)

\* Heights of the anchors that passed ascend.
LEMMA HeightsAscend ==
  ASSUME ReadAssumption, IInv, pc = "recheck", NEW n \in 1..Len(page), NEW k \in 1..n
  PROVE  /\ page[k].height \in Nat /\ page[n].height \in Nat
         /\ page[k].height <= page[n].height
<1>1. Len(page) \in Nat /\ Len(headers) = Len(page) /\ Complete1
  BY DEF IInv, PageInv, IsSeq, Complete1, Checking
<1>2. k \in 1..Len(page) /\ n \in Nat /\ k \in Nat
  BY <1>1
<1>3. \A m \in 1..Len(page) : page[m].height \in Nat
  <2>1. SUFFICES ASSUME NEW m \in 1..Len(page) PROVE page[m].height \in Nat
    OBVIOUS
  <2>2. PICK j \in 1..Len(view.anchors) : SameBlock(page[m], view.anchors[j])
    BY DEF IInv, OriginInv, FromView, Checking
  <2>3. IsAnchor(view.anchors[j])
    BY DEF IInv, ViewInv, IsHistory, Inside
  <2>4. QED
    BY <2>2, <2>3 DEF SameBlock, IsAnchor
<1>4. CASE req.kind = "range"
  <2>1. page[k].height = req.from + k - 1 /\ page[n].height = req.from + n - 1
    BY <1>1, <1>2, <1>4 DEF IInv, PassedInv, Passed
  <2>2. req.from \in Nat
    BY <1>1, <1>4 DEF IInv, RequestInv
  <2>3. QED
    BY <1>2, <2>1, <2>2
<1>5. CASE req.kind # "range"
  <2>1. Len(page) <= 1
    BY <1>1, <1>5 DEF IInv, PassedInv
  <2>2. k = n
    BY <1>1, <1>2, <2>1
  <2>3. QED
    BY <1>2, <1>3, <2>2
<1>6. QED
  BY <1>4, <1>5

\* When the header of an anchor is canonical, those of the anchors before it
\* are: all of them are blocks of the one chain the view was built on.
LEMMA LowerBlocksToo ==
  ASSUME ReadAssumption, IInv, pc = "recheck", NEW n \in 1..Len(page),
         Header(chain, headers[n].height) = headers[n]
  PROVE  \A k \in 1..n : page[k].hash = BlockHash(chain, page[k].height)
<1>1. Len(page) \in Nat /\ Len(headers) = Len(page) /\ Complete1
  BY DEF IInv, PageInv, IsSeq, Complete1, Checking
<1>2. PICK c \in Chains : \A j \in 1..Len(view.anchors) : view.anchors[j].hash = BlockHash(c, j - 1)
  BY DEF IInv, ViewInv, IsHistory, Inside
<1>3. \A m \in 1..Len(page) : page[m].height \in 0..Top /\ page[m].hash = BlockHash(c, page[m].height)
  <2>1. SUFFICES ASSUME NEW m \in 1..Len(page)
                 PROVE page[m].height \in 0..Top /\ page[m].hash = BlockHash(c, page[m].height)
    OBVIOUS
  <2>2. PICK j \in 1..Len(view.anchors) : SameBlock(page[m], view.anchors[j])
    BY DEF IInv, OriginInv, FromView, Checking
  <2>3. view.anchors[j].height = j - 1 /\ Len(view.anchors) \in Nat /\ Len(view.anchors) <= Top + 1
    BY DEF IInv, ViewInv, IsHistory, IsSeq, Inside
  <2>4. j - 1 \in 0..Top
    BY <2>3 DEF ReadAssumption
  <2>5. QED
    BY <1>2, <2>2, <2>3, <2>4 DEF SameBlock
<1>4. headers[n] = [height |-> page[n].height, hash |-> page[n].hash]
  BY <1>1 DEF IInv, PassedInv, Passed
<1>5. BlockHash(chain, page[n].height) = BlockHash(c, page[n].height)
  <2>1. Header(chain, page[n].height) = headers[n]
    BY <1>4
  <2>2. BlockHash(chain, page[n].height) = page[n].hash
    BY <1>4, <2>1 DEF Header
  <2>3. QED
    BY <1>3, <2>2
<1>6. SUFFICES ASSUME NEW k \in 1..n PROVE page[k].hash = BlockHash(chain, page[k].height)
  OBVIOUS
<1>7. k \in 1..Len(page)
  BY <1>1
<1>8. page[k].height \in 0..page[n].height
  BY <1>7, HeightsAscend
<1>9. chain \in Chains
  BY DEF IInv, HistoryInv
<1>10. BlockHash(chain, page[k].height) = BlockHash(c, page[k].height)
  BY <1>3, <1>5, <1>8, <1>9, ChainPrefix
<1>11. QED
  BY <1>3, <1>7, <1>10

\* One header is looked up again.
LEMMA RecheckKeeps == ASSUME ReadAssumption, IInv, recheckCanonicalHeaders PROVE IInv'
<1>a. /\ pc = "recheck" /\ Quiet /\ UNCHANGED <<view, moments>> /\ pc \in Inside
      /\ UNCHANGED <<chain, history, req, expired, reply>>
  BY DEF recheckCanonicalHeaders, Inside, Quiet, world
<1>b. /\ err = "nil" /\ reply = "none" /\ checked \in Nat /\ Len(headers) \in Nat
      /\ Len(headers) = Len(page) /\ checked <= Len(headers) /\ Complete1
  BY <1>a DEF IInv, ErrorInv, PageInv, Checking, Complete1, IsSeq
<1>1. ASSUME checked = Len(headers), pc' = "current",
             UNCHANGED <<page, headers, checked, admitted, raw, output, err>>
      PROVE  IInv'
  <2>1. ~Answered' /\ Complete1'
    BY <1>1, <1>a, <1>b DEF Answered, Complete1, Checking
  <2>2. HistoryInv' /\ ErrorInv' /\ RequestInv' /\ ListInv' /\ RawInv' /\ CurrentInv'
    BY <1>1, <1>a, <1>b, <2>1 DEF IInv, HistoryInv, ErrorInv, RequestInv, ListInv, RawInv, Answers,
       CurrentInv, Checking, Before, Inside
  <2>3. ViewInv' /\ OriginInv'
    BY <1>1, <1>a DEF IInv, ViewInv, OriginInv, FromView, Follows, Inside, Pcs, Checking
  <2>4. PageInv'
    BY <1>1, <1>a, <1>b, <2>1 DEF IInv, PageInv, Before
  <2>5. PassedInv'
    BY <1>1, <1>a, <1>b, <2>1 DEF IInv, PassedInv, Passed
  <2>6. MomentInv'
    BY <1>1, <1>a DEF IInv, MomentInv, Follows, CanonicalAt, Checking
  <2>7. QED
    BY <2>2, <2>3, <2>4, <2>5, <2>6 DEF IInv
<1>2. ASSUME checked # Len(headers), Header(chain, headers[checked + 1].height) = headers[checked + 1],
             checked' = checked + 1, UNCHANGED <<pc, page, headers, admitted, raw, output, err>>
      PROVE  IInv'
  <2>1. ~Answered' /\ Complete1'
    BY <1>2, <1>a, <1>b DEF Answered, Complete1, Checking
  <2>a. HistoryInv' /\ ErrorInv' /\ RequestInv' /\ CurrentInv'
    BY <1>2, <1>a, <1>b, <2>1 DEF IInv, HistoryInv, ErrorInv, RequestInv, CurrentInv, Checking, Before, Inside
  <2>b. ListInv' /\ RawInv'
    BY <1>2, <1>a, <1>b, <2>1 DEF IInv, ListInv, RawInv, Answers, Checking
  <2>2. HistoryInv' /\ ErrorInv' /\ RequestInv' /\ ListInv' /\ RawInv' /\ CurrentInv'
    BY <2>a, <2>b
  <2>3. ViewInv' /\ OriginInv'
    BY <1>2, <1>a DEF IInv, ViewInv, OriginInv, FromView, Follows, Inside, Pcs, Checking
  <2>4. PageInv'
    BY <1>2, <1>a, <1>b, <2>1 DEF IInv, PageInv, Before
  <2>5. PassedInv'
    BY <1>2, <1>a, <1>b, <2>1 DEF IInv, PassedInv, Passed
  <2>6. MomentInv'
    <3>1. PICK n : n = checked + 1
      OBVIOUS
    <3>2. n \in 1..Len(page) /\ checked' = n
      BY <1>2, <1>b, <3>1
    <3>3. \A k \in 1..n : page[k].hash = BlockHash(chain, page[k].height)
      BY <1>2, <1>a, <3>1, <3>2, LowerBlocksToo
    <3>4. PICK m : m = <<chain, history>>
      OBVIOUS
    <3>5. m[1] = chain /\ m \in moments'
      BY <1>a, <3>4 DEF IInv, MomentInv, Checking
    <3>6. CanonicalAt(m, checked)'
      BY <1>2, <3>2, <3>3, <3>5 DEF CanonicalAt
    <3>7. \A q \in moments : Follows(q[2])' <=> Follows(q[2])
      BY <1>a DEF Follows
    <3>8. QED
      BY <1>2, <1>a, <3>5, <3>6, <3>7 DEF IInv, MomentInv, Checking
  <2>7. QED
    BY <2>2, <2>3, <2>4, <2>5, <2>6 DEF IInv
<1>3. ASSUME NEW f, f \notin {"nil", "ok"}, Fail(f) PROVE IInv'
  BY <1>3, <1>a, FailKeeps
<1>4. QED
  BY <1>1, <1>2, <1>3 DEF recheckCanonicalHeaders

\* Every moment of the view's revision holds what the view held.
LEMMA StoredThen ==
  ASSUME ReadAssumption, IInv, pc = "current", view.rev = history.rev, NEW m \in moments,
         NEW k \in 1..Len(page)
  PROVE  StoredAt(m, page[k])
<1>1. Follows(m[2]) /\ m[2].rev <= history.rev /\ view.rev \in Nat
  BY DEF IInv, MomentInv, Checking, ViewInv, Inside
<1>2. Prefix(view.anchors, m[2].anchors)
  BY <1>1 DEF Follows
<1>3. PICK j \in 1..Len(view.anchors) : SameBlock(page[k], view.anchors[j])
  BY DEF IInv, OriginInv, FromView, Checking
<1>4. /\ IsAnchor(view.anchors[j]) /\ view.anchors[j].height = j - 1
      /\ Len(view.anchors) \in Nat
  BY DEF IInv, ViewInv, IsHistory, IsSeq, Inside
<1>5. page[k].height + 1 = j /\ page[k].height = j - 1
  BY <1>3, <1>4 DEF SameBlock
<1>6. m[2].anchors[j] = view.anchors[j] /\ Len(view.anchors) <= Len(m[2].anchors)
  BY <1>2 DEF Prefix
<1>7. Len(m[2].anchors) > page[k].height
  BY <1>4, <1>5, <1>6
<1>8. QED
  BY <1>3, <1>5, <1>6, <1>7 DEF StoredAt, SameBlock

\* isCurrent: the history has not been rewritten since the view was opened.
LEMMA CurrentKeeps == ASSUME ReadAssumption, IInv, CheckCurrent PROVE IInv'
<1>a. /\ pc = "current" /\ Quiet /\ UNCHANGED <<view, moments>> /\ pc \in Inside
      /\ UNCHANGED <<chain, history, req, expired, reply>>
  BY DEF CheckCurrent, Inside, Quiet, world
<1>b. /\ err = "nil" /\ reply = "none" /\ Complete1
      /\ Len(headers) = Len(page) /\ checked = Len(headers)
  BY <1>a DEF IInv, ErrorInv, PageInv, Checking, Complete1
<1>1. ASSUME view.rev = history.rev, pc' = "close",
             UNCHANGED <<page, headers, checked, admitted, raw, output, err>>
      PROVE  IInv'
  <2>1. Answered' /\ Complete1'
    BY <1>1, <1>a, <1>b DEF Answered, Complete1
  <2>2. HistoryInv' /\ ErrorInv' /\ RequestInv'
    BY <1>1, <1>a, <1>b, <2>1 DEF IInv, HistoryInv, ErrorInv, RequestInv, Checking, Before, Inside
  <2>3. ListInv' /\ RawInv'
    BY <1>1, <1>a, <1>b, <2>1 DEF IInv, ListInv, RawInv, Answers
  <2>4. ViewInv' /\ OriginInv' /\ MomentInv'
    BY <1>1, <1>a DEF IInv, ViewInv, OriginInv, MomentInv, Follows, Inside, Pcs, Checking
  <2>5. PageInv'
    BY <1>1, <1>a, <1>b, <2>1 DEF IInv, PageInv, Before
  <2>6. PassedInv'
    BY <1>1, <1>a, <1>b, <2>1 DEF IInv, PassedInv, Passed
  <2>7. CurrentInv'
    <3>1. PICK m \in moments : CanonicalAt(m, checked)
      BY <1>a DEF IInv, MomentInv, Checking
    <3>2. \A k \in 1..Len(page) : StoredAt(m, page[k])
      BY <1>1, <1>a, StoredThen
    <3>3. CanonicalAt(m, Len(page))
      BY <1>b, <3>1
    <3>4. QED
      BY <1>1, <1>a, <3>2, <3>3 DEF CurrentInv, CanonicalAt, StoredAt
  <2>8. QED
    BY <2>2, <2>3, <2>4, <2>5, <2>6, <2>7 DEF IInv
<1>2. ASSUME Fail("not_ready") PROVE IInv'
  BY <1>2, <1>a, FailKeeps
<1>3. QED
  BY <1>1, <1>2 DEF CheckCurrent

\* The deferred close, and what the caller is left with.
LEMMA CloseKeeps == ASSUME ReadAssumption, IInv, closeBASMView PROVE IInv'
<1>a. /\ pc = "close" /\ view' = [open |-> FALSE] /\ pc' = "reply"
      /\ UNCHANGED <<chain, history, req, expired, reply, page, headers, checked, admitted, raw, moments>>
      /\ output' = IF err' # "nil" THEN Nothing ELSE output
      /\ err' = "nil" => err = "nil"
      /\ err' = "ok" => err = "ok"
  BY DEF closeBASMView, Quiet, world
<1>b. reply = "none"
  BY <1>a DEF IInv, ErrorInv
<1>c. (Answered' => Answered) /\ (Complete1' => Complete1)
  BY <1>a, <1>b DEF Answered, Complete1, Checking
<1>d. Answered' => err' = "nil"
  BY <1>a, <1>b DEF Answered
<1>1. HistoryInv' /\ RequestInv' /\ MomentInv' /\ OriginInv'
  BY <1>a, <1>c DEF IInv, HistoryInv, RequestInv, MomentInv, OriginInv, Checking, Inside
<1>2. ViewInv'
  BY <1>a DEF ViewInv, Pcs, Inside
<1>3. ErrorInv'
  BY <1>a, <1>b, <1>c DEF IInv, ErrorInv, Before, Checking, Complete1, Answered
<1>4. PageInv'
  BY <1>a, <1>c DEF IInv, PageInv, Before
<1>5. PassedInv'
  BY <1>a, <1>c DEF IInv, PassedInv, Passed
<1>6. CurrentInv'
  BY <1>a, <1>c DEF IInv, CurrentInv, CanonicalAt, StoredAt
<1>7. ListInv' /\ RawInv'
  BY <1>a, <1>c DEF IInv, ListInv, RawInv, Answers
<1>8. QED
  BY <1>1, <1>2, <1>3, <1>4, <1>5, <1>6, <1>7 DEF IInv

\* The handler answers.
LEMMA ReplyKeeps == ASSUME ReadAssumption, IInv, writeJSONResponse PROVE IInv'
<1>a. /\ pc = "reply" /\ pc' = "done"
      /\ UNCHANGED <<chain, history, req, view, expired, page, headers, checked, admitted, raw, output, err, moments>>
  BY DEF writeJSONResponse, world
<1>b. reply' = "ok" => err = "nil"
  BY DEF writeJSONResponse, Status, IInv, ErrorInv
<1>c. (Answered' => Answered) /\ (Complete1' => Complete1)
  BY <1>a, <1>b DEF Answered, Complete1, Checking
<1>1. HistoryInv' /\ RequestInv' /\ MomentInv' /\ OriginInv'
  BY <1>a, <1>c DEF IInv, HistoryInv, RequestInv, MomentInv, OriginInv, Checking, Inside
<1>2. ViewInv'
  BY <1>a DEF IInv, ViewInv, Pcs, Inside
<1>3. ErrorInv'
  BY <1>a, <1>b, <1>c DEF IInv, ErrorInv, Before, Checking
<1>4. PageInv'
  BY <1>a, <1>c DEF IInv, PageInv, Before
<1>5. PassedInv'
  BY <1>a, <1>c DEF IInv, PassedInv, Passed
<1>6. CurrentInv'
  BY <1>a, <1>c DEF IInv, CurrentInv, CanonicalAt, StoredAt
<1>7. ListInv' /\ RawInv'
  BY <1>a, <1>c DEF IInv, ListInv, RawInv, Answers
<1>8. QED
  BY <1>1, <1>2, <1>3, <1>4, <1>5, <1>6, <1>7 DEF IInv

-----------------------------------------------------------------------------
(* The theorem *)

\* Every step of the call, of the chain and of the storage keeps the
\* inductive invariant.
LEMMA StepIInv == ASSUME ReadAssumption, IInv, [Next]_vars PROVE IInv'
<1>1. CASE \E r \in Requests : Handle(r)
  BY <1>1, HandleKeeps
<1>2. CASE Step
  BY <1>2, OpenKeeps, ReadAnchorsKeeps, ValidateKeeps, AdmittedKeeps, RawKeeps, RecheckKeeps,
     CurrentKeeps, CloseKeeps, ReplyKeeps DEF Step
<1>3. CASE WorldStep
  BY <1>3, WorldKeeps
<1>4. CASE Expire
  BY <1>4, ExpireKeeps
<1>5. CASE UNCHANGED vars
  <2>1. UNCHANGED <<chain, history, req, pc, view, page, headers, checked, admitted, raw,
                    output, err, expired, reply, moments>>
    BY <1>5 DEF vars
  <2>2. Answered' = Answered /\ Complete1' = Complete1
    BY <2>1 DEF Answered, Complete1
  <2>3. HistoryInv' /\ ViewInv' /\ ErrorInv' /\ RequestInv' /\ PageInv'
    BY <2>1, <2>2 DEF IInv, HistoryInv, ViewInv, Follows, ErrorInv, RequestInv, PageInv
  <2>4. PassedInv' /\ OriginInv' /\ MomentInv' /\ CurrentInv'
    BY <2>1, <2>2 DEF IInv, PassedInv, Passed, OriginInv, FromView, MomentInv, Follows, CanonicalAt,
                      CurrentInv, StoredAt
  <2>5. ListInv' /\ RawInv'
    BY <2>1, <2>2 DEF IInv, ListInv, RawInv, Answers
  <2>6. QED
    BY <2>3, <2>4, <2>5 DEF IInv
<1>6. QED
  BY <1>1, <1>2, <1>3, <1>4, <1>5 DEF Next, WorldStep

\* Concatenating two lists without common elements.
LEMMA ConcatDistinct ==
  ASSUME NEW s, NEW t, IsSeq(s), IsSeq(t)
  PROVE  /\ Range(s \o t) = Range(s) \cup Range(t)
         /\ IsInjective(s) /\ IsInjective(t) /\ Range(s) \cap Range(t) = {} => IsInjective(s \o t)
<1>1. PICK S : s \in Seq(S)
  BY DEF IsSeq
<1>2. PICK T : t \in Seq(T)
  BY DEF IsSeq
<1>3. PICK m, n : m = Len(s) /\ n = Len(t)
  OBVIOUS
<1>4. PICK u : u = s \o t
  OBVIOUS
<1>a. s \in Seq(S \cup T) /\ t \in Seq(S \cup T)
  BY <1>1, <1>2
<1>5. /\ m \in Nat /\ n \in Nat /\ DOMAIN s = 1..m /\ DOMAIN t = 1..n /\ DOMAIN u = 1..(m + n)
      /\ \A i \in 1..m : u[i] = s[i]
      /\ \A i \in 1..(m + n) : i > m => u[i] = t[i - m]
  BY <1>a, <1>3, <1>4
<1>6. \A i \in 1..(m + n) : i \in 1..m \/ (i > m /\ i - m \in 1..n)
  BY <1>5
<1>7. \A i \in 1..n : i + m \in 1..(m + n) /\ u[i + m] = t[i]
  BY <1>5
<1>8. Range(u) = Range(s) \cup Range(t)
  <2>1. \A i \in 1..(m + n) : u[i] \in Range(s) \cup Range(t)
    BY <1>5, <1>6 DEF Range
  <2>2. \A i \in 1..m : i \in 1..(m + n)
    BY <1>5
  <2>3. \A i \in 1..m : s[i] \in Range(u)
    BY <1>5, <2>2 DEF Range
  <2>4. \A i \in 1..n : t[i] \in Range(u)
    BY <1>5, <1>7 DEF Range
  <2>5. QED
    BY <1>5, <2>1, <2>3, <2>4 DEF Range
<1>9. ASSUME IsInjective(s), IsInjective(t), Range(s) \cap Range(t) = {} PROVE IsInjective(u)
  <2>1. SUFFICES ASSUME NEW i \in 1..(m + n), NEW k \in 1..(m + n), u[i] = u[k] PROVE i = k
    BY <1>5 DEF IsInjective
  <2>2. \A x \in 1..m, y \in 1..n : s[x] # t[y]
    BY <1>5, <1>9 DEF Range
  <2>3. CASE i \in 1..m /\ k \in 1..m
    BY <1>5, <1>9, <2>1, <2>3 DEF IsInjective
  <2>4. CASE i \in 1..m /\ k > m /\ k - m \in 1..n
    BY <1>5, <2>1, <2>2, <2>4
  <2>5. CASE k \in 1..m /\ i > m /\ i - m \in 1..n
    BY <1>5, <2>1, <2>2, <2>5
  <2>6. CASE i > m /\ i - m \in 1..n /\ k > m /\ k - m \in 1..n
    <3>1. t[i - m] = t[k - m]
      BY <1>5, <2>1, <2>6
    <3>2. i - m = k - m
      BY <1>5, <1>9, <2>6, <3>1 DEF IsInjective
    <3>3. QED
      BY <1>5, <3>2
  <2>7. QED
    BY <1>6, <2>3, <2>4, <2>5, <2>6
<1>10. QED
  BY <1>4, <1>8, <1>9

\* What the service returned passes the handler's own checks.
LEMMA HandlerAgreesHolds == ASSUME ReadAssumption, IInv PROVE HandlerAgrees
<1>1. SUFFICES ASSUME pc = "reply", err = "nil" PROVE validateResponse # "invalid_data"
  BY DEF HandlerAgrees
<1>2. Complete1 /\ Answered
  BY <1>1 DEF Complete1, Answered
<1>3. output = [kind |-> req.kind, anchors |-> page]
  BY <1>2 DEF IInv, ErrorInv
<1>4. output.kind = req.kind /\ output.anchors = page
  BY <1>3
<1>5. Len(headers) = Len(page) /\ \A k \in 1..Len(headers) : Passed(k)
  BY <1>2 DEF IInv, PageInv, PassedInv
<1>6. ASSUME req.kind = "range" PROVE validateRangeResponse
  <2>1. Len(page) = req.to - req.from + 1
    BY <1>2, <1>6 DEF IInv, PassedInv
  <2>2. \A k \in 1..Len(page) : page[k].topic = "t" /\ page[k].height = req.from + k - 1 /\ ValidAnchor(page[k])
    BY <1>5, <1>6 DEF Passed
  <2>3. QED
    BY <1>4, <2>1, <2>2 DEF validateRangeResponse, IInv, PageInv
<1>7. ASSUME req.kind = "list" PROVE validListIdentity /\ validAdmitted
  <2>1. page[1].height = req.height
    BY <1>2, <1>7 DEF IInv, PassedInv
  <2>2. /\ IsSeq(admitted)
        /\ req.hash = Zero \/ req.hash = page[1].hash
        /\ \A i \in 2..Len(admitted) : admitted[i].index > admitted[i - 1].index
        /\ \A i, j \in 1..Len(admitted) : admitted[i].txid = admitted[j].txid => i = j
    BY <1>2, <1>7 DEF IInv, ListInv
  <2>3. IsInjective(IDs(admitted))
    BY <2>2 DEF IsInjective, IDs
  <2>5. Len(admitted) <= MaxAdmitted
    <3>1. Len(page) = 1 /\ 1 \in 1..Len(headers)
      BY <1>2, <1>5, <1>7 DEF IInv, PassedInv
    <3>2. page[1].count <= MaxAdmitted
      BY <1>5, <3>1 DEF Passed, ValidAnchor
    <3>3. page[1].count = Len(admitted)
      BY <1>2, <1>7 DEF IInv, ListInv
    <3>4. QED
      BY <3>2, <3>3
  <2>4. QED
    BY <1>4, <2>1, <2>2, <2>3, <2>5 DEF validListIdentity, validAdmitted
<1>10. ASSUME req.kind = "tip" PROVE validTip
  BY <1>4, <1>5 DEF validTip, Passed, ValidAnchor
<1>11. ASSUME req.kind = "proof" PROVE validProofIdentity
  <2>1. page[1].height = req.height
    BY <1>2, <1>11 DEF IInv, PassedInv
  <2>2. Len(req.txids) <= MaxTxIDs
    BY <1>2, <1>11 DEF IInv, RequestInv
  <2>3. QED
    BY <1>4, <2>1, <2>2 DEF validProofIdentity
<1>8. ASSUME req.kind = "raw" PROVE validRawMapping
  <2>4. Len(req.txids) <= MaxTxIDs
    BY <1>2, <1>8 DEF IInv, RequestInv
  <2>1. Answers(Len(req.txids)) /\ IsSeq(raw.found) /\ IsSeq(raw.missing) /\ IsSeq(req.txids)
    BY <1>2, <1>8 DEF IInv, RawInv, RequestInv
  <2>2. Range(req.txids) = {req.txids[i] : i \in 1..Len(req.txids)}
    BY <2>1 DEF Range, IsSeq
  <2>3. QED
    BY <2>1, <2>2, <2>4, ConcatDistinct DEF Answers, validRawMapping
<1>9. QED
  BY <1>4, <1>6, <1>7, <1>8, <1>10, <1>11 DEF validateResponse

\* The inductive invariant has what a read promises.
LEMMA Consequences == ASSUME ReadAssumption, IInv PROVE AnswersAreSound
<1>1. TypeOK
  <2>1. chain \in Chains /\ expired \in BOOLEAN
    BY DEF IInv, HistoryInv, ErrorInv
  <2>2. pc \in Pcs /\ (pc \in Inside => view.open = TRUE) /\ (pc \notin Inside => view.open = FALSE)
    BY DEF IInv, ViewInv
  <2>3. output = Nothing \/ output.kind = req.kind
    BY DEF IInv, ErrorInv
  <2>4. checked \in 0..Len(headers) /\ Len(headers) <= MaxRange
    BY DEF IInv, PageInv, IsSeq, ReadAssumption
  <2>5. QED
    BY <2>1, <2>2, <2>3, <2>4 DEF TypeOK, Pcs, Inside, Before, Checking
<1>2. HandlerAgrees
  BY HandlerAgreesHolds
<1>3. ErrorHasNoOutput
  <2>1. pc \in {"reply", "done"} /\ err # "nil" => output = Nothing
    BY DEF IInv, ErrorInv
  <2>2. ASSUME reply = "ok" PROVE output # Nothing /\ ~view.open
    <3>1. pc = "done" /\ view.open = FALSE
      BY <2>2 DEF IInv, ErrorInv, ViewInv, Inside
    <3>2. output.kind \in Routes
      BY <2>2 DEF IInv, ErrorInv, RequestInv, Complete1, Answered
    <3>3. QED
      BY <3>1, <3>2 DEF Nothing, Routes
  <2>3. QED
    BY <2>1, <2>2 DEF ErrorHasNoOutput, Ok
<1>4. ASSUME reply = "ok" PROVE output.anchors = page /\ Complete1 /\ Answered
  <2>1. Complete1 /\ Answered
    BY <1>4 DEF Complete1, Answered
  <2>2. QED
    BY <2>1 DEF IInv, ErrorInv
<1>5. ServedWasCurrent
  <2>1. SUFFICES ASSUME reply = "ok"
                 PROVE \E m \in moments :
                         \A k \in 1..Len(page) :
                             /\ page[k].hash = BlockHash(m[1], page[k].height)
                             /\ Len(m[2].anchors) > page[k].height
                             /\ m[2].anchors[page[k].height + 1].hash = page[k].hash
                             /\ m[2].anchors[page[k].height + 1].root = page[k].root
    BY <1>4 DEF ServedWasCurrent, Ok
  <2>2. PICK m \in moments : CanonicalAt(m, Len(page)) /\ \A k \in 1..Len(page) : StoredAt(m, page[k])
    BY <1>4, <2>1 DEF IInv, CurrentInv
  <2>3. QED
    BY <2>2 DEF CanonicalAt, StoredAt
<1>6. ServedIsWhole
  <2>1. SUFFICES ASSUME reply = "ok" PROVE ServedIsWhole
    BY DEF ServedIsWhole, Ok
  <2>2. Len(headers) = Len(page) /\ \A k \in 1..Len(headers) : Passed(k)
    BY <1>4, <2>1 DEF IInv, PageInv, PassedInv
  <2>3. ASSUME req.kind = "range"
        PROVE  /\ Len(page) = req.to - req.from + 1
               /\ \A k \in 1..Len(page) :
                    /\ page[k].height = req.from + k - 1
                    /\ page[k].topic = "t"
                    /\ k > 1 => page[k].tac = HashTACStep(page[k - 1].tac, page[k].hash, page[k].root)
    BY <1>4, <2>1, <2>2, <2>3 DEF IInv, PassedInv, Passed
  <2>4. ASSUME req.kind = "list"
        PROVE  /\ IDs(admitted) = IDs(page[1].list)
               /\ req.hash = Zero \/ req.hash = page[1].hash
    BY <1>4, <2>1, <2>4 DEF IInv, ListInv
  <2>5. ASSUME req.kind = "raw"
        PROVE  /\ Range(raw.found) \cup Range(raw.missing) = Range(req.txids)
               /\ Len(raw.found) + Len(raw.missing) = Len(req.txids)
    <3>1. Answers(Len(req.txids)) /\ IsSeq(req.txids)
      BY <1>4, <2>1, <2>5 DEF IInv, RawInv, RequestInv
    <3>2. Range(req.txids) = {req.txids[i] : i \in 1..Len(req.txids)}
      BY <3>1 DEF Range, IsSeq
    <3>3. QED
      BY <3>1, <3>2 DEF Answers
  <2>6. QED
    BY <1>4, <2>1, <2>3, <2>4, <2>5 DEF ServedIsWhole
<1>7. QED
  BY <1>1, <1>2, <1>3, <1>5, <1>6 DEF AnswersAreSound

\* However the chain reorganises, the storage rewrites its history and the
\* view returns pages, what readBASM answers is whole, linked, of one moment
\* after it was read and accepted by the handler, and an error leaves nothing
\* behind.
THEOREM ReadsAreSound == ReadAssumption /\ Spec => []AnswersAreSound
<1>1. SUFFICES ASSUME ReadAssumption PROVE Spec => []AnswersAreSound
  OBVIOUS
<1>2. Init => IInv
  BY <1>1, InitIInv
<1>3. IInv /\ [Next]_vars => IInv'
  BY <1>1, StepIInv
<1>4. IInv => AnswersAreSound
  BY <1>1, Consequences
<1>5. QED
  BY <1>2, <1>3, <1>4, PTL DEF Spec
-----------------------------------------------------------------------------
(* The size limits *)

\* The division before a product says whether the product fits.
LEMMA DivBound ==
  ASSUME NEW r \in Nat, NEW c \in Nat, c > 0, NEW e \in Nat
  PROVE  e > r \div c <=> c * e > r
<1>1. PICK q : q = r \div c
  OBVIOUS
<1>2. q \in Nat /\ c * q <= r /\ r < c * q + c
  BY <1>1
<1>3. ASSUME e > q PROVE c * e > r
  <2>1. PICK d \in Nat : e = q + 1 + d
    <3>1. e - q - 1 \in Nat
      BY <1>2, <1>3
    <3>2. e = q + 1 + (e - q - 1)
      BY <1>2
    <3>3. QED
      BY <3>1, <3>2
  <2>2. c * e = c * q + c + c * d
    BY <1>2, <2>1
  <2>3. c * d >= 0 /\ c * q \in Nat /\ c * d \in Nat
    BY <1>2
  <2>4. PICK x, y, z : x = c * e /\ y = c * q /\ z = c * d
    OBVIOUS
  <2>5. QED
    BY <1>2, <2>2, <2>3, <2>4
<1>4. ASSUME e <= q PROVE c * e <= r
  <2>1. PICK d \in Nat : q = e + d
    <3>1. q - e \in Nat
      BY <1>2, <1>4
    <3>2. q = e + (q - e)
      BY <1>2
    <3>3. QED
      BY <3>1, <3>2
  <2>2. c * q = c * e + c * d
    BY <2>1
  <2>3. c * d >= 0 /\ c * e \in Nat /\ c * d \in Nat
    OBVIOUS
  <2>4. QED
    BY <1>2, <2>2, <2>3
<1>5. e > q \/ e <= q
  BY <1>2
<1>6. c * e \in Nat
  OBVIOUS
<1>7. QED
  BY <1>1, <1>2, <1>3, <1>4, <1>5, <1>6
\* A budget is open while the sum of what was added is within the limit, and then
\* it is that sum; once exceeded it stays so.
BudgetInv ==
  /\ limit \in 0..(Half - 1)
  /\ size \in Nat /\ size <= limit
  /\ exact \in Nat
  /\ ok \in BOOLEAN
  /\ ok = TRUE => size = exact
  /\ ok = FALSE => exact > limit
  /\ steps \in 0..MaxSteps

\* What the other checks answered is exact.
AskedInv ==
  /\ answer = NoAnswer \/ answer.what \in {"size", "range", "response"}
  /\ EstimateIsExact /\ RangeIsExact /\ HandlerReservesNoMore

BudgetIInv == BudgetInv /\ AskedInv

\* A word holds more than a limit.
LEMMA WordIsWide == ASSUME BudgetAssumption PROVE Word \in Nat /\ Half < Word
<1>1. Half \in Nat /\ Half > 1
  BY DEF BudgetAssumption
<1>2. Half * Half >= 2 * Half
  <2>1. PICK d \in Nat : Half = 2 + d
    <3>1. Half - 2 \in Nat /\ Half = 2 + (Half - 2)
      BY <1>1
    <3>2. QED
      BY <3>1
  <2>2. Half * Half = 2 * Half + d * Half /\ d * Half \in Nat
    BY <1>1, <2>1
  <2>3. QED
    BY <1>1, <2>2
<1>3. Half * Half \in Nat
  BY <1>1
<1>4. QED
  BY <1>1, <1>2, <1>3 DEF Word

\* A number below the word is not changed by wrapping.
LEMMA WrapSmall == ASSUME BudgetAssumption, NEW x \in Nat, x < Word PROVE Wrap(x) = x
BY WordIsWide DEF Wrap

\* The outcome of an addition: what is added fits, and the budget grows by it, or
\* it does not, and the budget is exceeded for good.
Outcome(b, amount) ==
  \/ /\ ok = FALSE /\ b.size = size /\ b.ok = FALSE
  \/ /\ ok = TRUE /\ size + amount <= limit
     /\ b.size = size + amount /\ b.ok = TRUE
  \/ /\ ok = TRUE /\ size + amount > limit
     /\ b.size = size /\ b.ok = FALSE

\* What is left of the limit is not wrapped while the budget is open.
LEMMA RestIsReal ==
  ASSUME BudgetAssumption, BudgetInv
  PROVE  /\ limit \in Nat /\ size \in Nat /\ limit - size \in Nat /\ limit < Half
         /\ Wrap(limit - size) = limit - size
         /\ limit - size - 2 >= 0 => Wrap(limit - size - 2) = limit - size - 2
<1>1. limit \in Nat /\ size \in Nat /\ limit - size \in Nat /\ limit < Half
  BY DEF BudgetInv, BudgetAssumption
<1>2. limit - size < Word
  BY <1>1, WordIsWide DEF BudgetAssumption
<1>3. Wrap(limit - size) = limit - size
  BY <1>1, <1>2, WrapSmall
<1>4. ASSUME limit - size - 2 >= 0 PROVE Wrap(limit - size - 2) = limit - size - 2
  <2>1. limit - size - 2 \in Nat /\ limit - size - 2 < Word
    BY <1>1, <1>2, <1>4, WordIsWide
  <2>2. QED
    BY <2>1, WrapSmall
<1>5. QED
  BY <1>1, <1>3, <1>4

\* add: a value that fits is added, another one exceeds the budget.
LEMMA AddOutcome ==
  ASSUME BudgetAssumption, BudgetInv, NEW v \in Nat, v < Word
  PROVE  Outcome(add(Budget, v), v)
<1>1. /\ limit \in Nat /\ size \in Nat /\ limit - size \in Nat /\ limit < Half
      /\ Wrap(limit - size) = limit - size
  BY RestIsReal
<1>2. Budget.size = size /\ Budget.ok = ok
  BY DEF Budget
<1>3. CASE ok = FALSE
  BY <1>2, <1>3 DEF add, Outcome
<1>4. CASE ok = TRUE /\ v > limit - size
  <2>1. add(Budget, v) = [Budget EXCEPT !.ok = FALSE]
    BY <1>1, <1>2, <1>4 DEF add
  <2>2. add(Budget, v).size = size /\ add(Budget, v).ok = FALSE
    BY <2>1 DEF Budget
  <2>3. size + v > limit
    BY <1>1, <1>4
  <2>4. QED
    BY <1>4, <2>2, <2>3 DEF Outcome
<1>5. CASE ok = TRUE /\ v <= limit - size
  <2>1. size + v \in Nat /\ size + v <= limit /\ size + v < Word
    BY <1>1, <1>5, WordIsWide DEF BudgetAssumption
  <2>2. Wrap(size + v) = size + v
    BY <2>1, WrapSmall
  <2>3. add(Budget, v) = [Budget EXCEPT !.size = size + v]
    BY <1>1, <1>2, <1>5, <2>2 DEF add
  <2>4. add(Budget, v).size = size + v /\ add(Budget, v).ok = TRUE
    BY <1>5, <2>3 DEF Budget
  <2>5. QED
    BY <1>5, <2>1, <2>4 DEF Outcome
<1>6. v > limit - size \/ v <= limit - size
  BY <1>1
<1>7. ok = TRUE \/ ok = FALSE
  BY DEF BudgetInv
<1>8. QED
  BY <1>3, <1>4, <1>5, <1>6, <1>7

\* addRepeated: the division finds out whether the product fits before it is made.
LEMMA RepeatedOutcome ==
  ASSUME BudgetAssumption, BudgetInv, NEW c \in Nat, NEW e \in Nat
  PROVE  Outcome(addRepeated(Budget, c, e), c * e)
<1>1. /\ limit \in Nat /\ size \in Nat /\ limit - size \in Nat /\ limit < Half
      /\ Wrap(limit - size) = limit - size
  BY RestIsReal
<1>2. Budget.size = size /\ Budget.ok = ok /\ c * e \in Nat
  BY DEF Budget
<1>3. CASE ok = FALSE
  BY <1>2, <1>3 DEF addRepeated, Outcome
<1>4. CASE ok = TRUE /\ c > 0 /\ e > (limit - size) \div c
  <2>1. c * e > limit - size
    BY <1>1, <1>4, DivBound
  <2>2. addRepeated(Budget, c, e) = [Budget EXCEPT !.ok = FALSE]
    BY <1>1, <1>2, <1>4 DEF addRepeated
  <2>3. addRepeated(Budget, c, e).size = size /\ addRepeated(Budget, c, e).ok = FALSE
    BY <2>2 DEF Budget
  <2>4. size + c * e > limit
    BY <1>1, <1>2, <2>1
  <2>5. QED
    BY <1>4, <2>3, <2>4 DEF Outcome
<1>5. CASE ok = TRUE /\ ~(c > 0 /\ e > (limit - size) \div c)
  <2>1. c * e <= limit - size
    <3>1. CASE c = 0
      BY <1>1, <3>1
    <3>2. CASE c > 0
      BY <1>1, <1>2, <1>5, <3>2, DivBound
    <3>3. QED
      BY <3>1, <3>2
  <2>2. c * e < Word
    BY <1>1, <1>2, <2>1, WordIsWide DEF BudgetAssumption
  <2>3. Wrap(c * e) = c * e
    BY <1>2, <2>2, WrapSmall
  <2>4. addRepeated(Budget, c, e) = add(Budget, c * e)
    BY <1>1, <1>2, <1>5, <2>3 DEF addRepeated
  <2>5. QED
    BY <1>2, <2>2, <2>4, AddOutcome
<1>6. QED
  BY <1>3, <1>4, <1>5 DEF BudgetInv

\* addString: six bytes for each of the string and two quotes.
LEMMA StringOutcome ==
  ASSUME BudgetAssumption, BudgetInv, NEW l \in Nat
  PROVE  Outcome(addString(Budget, l), l * 6 + 2)
<1>1. /\ limit \in Nat /\ size \in Nat /\ limit - size \in Nat /\ limit < Half
      /\ Wrap(limit - size) = limit - size
      /\ limit - size - 2 >= 0 => Wrap(limit - size - 2) = limit - size - 2
  BY RestIsReal
<1>2. Budget.size = size /\ Budget.ok = ok
  BY DEF Budget
<1>3. CASE ok = FALSE
  <2>1. addString(Budget, l) = [Budget EXCEPT !.ok = FALSE]
    BY <1>2, <1>3 DEF addString
  <2>2. addString(Budget, l).size = size /\ addString(Budget, l).ok = FALSE
    BY <2>1 DEF Budget
  <2>3. QED
    BY <1>3, <2>2 DEF Outcome
<1>4. CASE ok = TRUE /\ (limit - size < 2 \/ l > (limit - size - 2) \div 6)
  <2>1. size + (l * 6 + 2) > limit
    BY <1>1, <1>4
  <2>2. addString(Budget, l) = [Budget EXCEPT !.ok = FALSE]
    <3>1. CASE limit - size < 2
      BY <1>1, <1>2, <3>1 DEF addString
    <3>2. CASE limit - size >= 2
      BY <1>1, <1>2, <1>4, <3>2 DEF addString
    <3>3. QED
      BY <1>1, <3>1, <3>2
  <2>3. addString(Budget, l).size = size /\ addString(Budget, l).ok = FALSE
    BY <2>2 DEF Budget
  <2>4. QED
    BY <1>4, <2>1, <2>3 DEF Outcome
<1>5. CASE ok = TRUE /\ limit - size >= 2 /\ l <= (limit - size - 2) \div 6
  <2>1. l * 6 + 2 \in Nat /\ l * 6 + 2 <= limit - size
    BY <1>1, <1>5
  <2>2. l * 6 + 2 < Word
    BY <1>1, <2>1, WordIsWide DEF BudgetAssumption
  <2>3. Wrap(l * 6 + 2) = l * 6 + 2
    BY <2>1, <2>2, WrapSmall
  <2>4. addString(Budget, l) = add(Budget, l * 6 + 2)
    BY <1>1, <1>2, <1>5, <2>3 DEF addString
  <2>5. QED
    BY <2>1, <2>2, <2>4, AddOutcome
<1>6. \/ limit - size < 2 \/ l > (limit - size - 2) \div 6
      \/ limit - size >= 2 /\ l <= (limit - size - 2) \div 6
  BY <1>1
<1>7. ok = TRUE \/ ok = FALSE
  BY DEF BudgetInv
<1>8. QED
  BY <1>3, <1>4, <1>5, <1>6, <1>7

\* A step that spends an amount with such an outcome keeps the budget exact.
LEMMA SpendKeeps ==
  ASSUME BudgetAssumption, BudgetIInv, NEW b, NEW amount \in Nat, Outcome(b, amount), Spend(b, amount)
  PROVE  BudgetIInv'
<1>1. /\ steps < MaxSteps /\ size' = b.size /\ ok' = b.ok /\ exact' = exact + amount
      /\ steps' = steps + 1 /\ UNCHANGED <<limit, answer>>
  BY DEF Spend
<1>a. limit \in Nat /\ size \in Nat /\ size <= limit /\ exact \in Nat /\ steps \in Nat /\ MaxSteps \in Nat
  BY DEF BudgetIInv, BudgetInv, BudgetAssumption
<1>b. steps' \in 0..MaxSteps /\ exact' \in Nat /\ limit' \in 0..(Half - 1)
  BY <1>1, <1>a DEF BudgetIInv, BudgetInv
<1>c. /\ size' \in Nat /\ size' <= limit' /\ ok' \in BOOLEAN
      /\ ok' = TRUE => size' = exact'
      /\ ok' = FALSE => exact' > limit'
  <2>1. CASE ok = FALSE
    <3>1. size' = size /\ ok' = FALSE
      BY <1>1, <2>1 DEF Outcome
    <3>2. exact > limit
      BY <2>1 DEF BudgetIInv, BudgetInv
    <3>3. exact' > limit'
      BY <1>1, <1>a, <3>2
    <3>4. QED
      BY <1>1, <1>a, <3>1, <3>3
  <2>2. CASE ok = TRUE
    <3>1. size = exact
      BY <2>2 DEF BudgetIInv, BudgetInv
    <3>2. \/ size + amount <= limit /\ size' = size + amount /\ ok' = TRUE
          \/ size + amount > limit /\ size' = size /\ ok' = FALSE
      BY <1>1, <2>2 DEF Outcome
    <3>3. CASE size + amount <= limit /\ size' = size + amount /\ ok' = TRUE
      <4>1. size' \in Nat /\ size' <= limit' /\ size' = exact'
        BY <1>1, <1>a, <3>1, <3>3
      <4>2. QED
        BY <3>3, <4>1
    <3>4. CASE size + amount > limit /\ size' = size /\ ok' = FALSE
      BY <1>1, <1>a, <3>1, <3>4
    <3>5. QED
      BY <3>2, <3>3, <3>4
  <2>3. QED
    BY <2>1, <2>2 DEF BudgetIInv, BudgetInv
<1>2. BudgetInv'
  BY <1>b, <1>c DEF BudgetInv
<1>3. AskedInv'
  BY <1>1 DEF BudgetIInv, AskedInv, EstimateIsExact, RangeIsExact, HandlerReservesNoMore
<1>4. QED
  BY <1>2, <1>3 DEF BudgetIInv

\* checkResponseSize accepts exactly the sizes that fit.
LEMMA SizeIsExact ==
  ASSUME BudgetAssumption, BudgetInv, NEW base \in Nat, NEW perItem \in Nat, NEW count \in Nat
  PROVE  checkResponseSize(base, perItem, count) <=> base + perItem * count <= limit
<1>1. limit \in Nat /\ limit < Word
  BY WordIsWide DEF BudgetInv, BudgetAssumption
<1>2. perItem * count \in Nat
  OBVIOUS
<1>3. CASE base > limit
  BY <1>1, <1>2, <1>3 DEF checkResponseSize
<1>4. CASE base <= limit
  <2>1. limit - base \in Nat /\ limit - base < Word
    BY <1>1, <1>4, WordIsWide
  <2>2. Wrap(limit - base) = limit - base
    BY <2>1, WrapSmall
  <2>3. CASE perItem = 0
    BY <1>1, <1>4, <2>3 DEF checkResponseSize
  <2>4. CASE perItem > 0
    <3>1. count > (limit - base) \div perItem <=> perItem * count > limit - base
      BY <2>1, <2>4, DivBound
    <3>2. checkResponseSize(base, perItem, count) <=> ~(perItem * count > limit - base)
      BY <1>1, <1>4, <2>2, <2>4, <3>1 DEF checkResponseSize
    <3>3. QED
      BY <1>1, <1>2, <1>4, <3>2
  <2>5. QED
    BY <2>3, <2>4
<1>5. QED
  BY <1>1, <1>3, <1>4

\* ValidateRange returns the number of heights of a range that is accepted.
LEMMA CountIsExact ==
  ASSUME BudgetAssumption, BudgetInv, NEW from \in 0..(Half - 1), NEW to \in 0..(Half - 1)
  PROVE  CountRange(from, to, limit) = IF from <= to /\ to - from + 1 <= limit THEN to - from + 1 ELSE -1
<1>1. limit \in Nat /\ from \in Nat /\ to \in Nat /\ to < Half /\ Half \in Nat /\ Half < Word /\ Word \in Nat
  BY WordIsWide DEF BudgetInv, BudgetAssumption
<1>2. CASE from > to
  BY <1>1, <1>2 DEF CountRange
<1>3. CASE from <= to
  <2>1. to - from + 1 \in Nat /\ to - from + 1 < Word /\ to - from + 1 > 0
    BY <1>1, <1>3
  <2>2. Wrap(to - from + 1) = to - from + 1
    BY <2>1, WrapSmall
  <2>3. QED
    BY <1>1, <1>3, <2>1, <2>2 DEF CountRange
<1>4. QED
  BY <1>1, <1>2, <1>3

\* The handler reserves no more than the service, for each kind of response.
LEMMA HandlerIsSmaller ==
  ASSUME NEW kind \in {"tip", "range", "list", "proof"}, NEW t \in Nat, NEW n \in Nat, NEW p \in Nat
  PROVE  HandlerEstimate(kind, t, n, p) <= ServiceEstimate(kind, t, n, p)
<1>1. CASE kind # "range"
  BY <1>1 DEF HandlerEstimate, ServiceEstimate
<1>2. CASE kind = "range"
  <2>1. PICK x \in Nat : x = 332 + t * 6
    OBVIOUS
  <2>2. n * (400 + t * 6) = n * x + n * 68
    BY <2>1
  <2>3. n * (132 + (t * 6 + 2) + 66 * 3) = n * x
    BY <2>1
  <2>4. n * x \in Nat
    OBVIOUS
  <2>5. PICK y \in Nat : y = n * x
    BY <2>4
  <2>6. 48 + (t * 6 + 2) + y <= 64 + t * 6 + (y + n * 68)
    OBVIOUS
  <2>7. QED
    BY <1>2, <2>2, <2>3, <2>5, <2>6 DEF HandlerEstimate, ServiceEstimate
<1>3. QED
  BY <1>1, <1>2

\* A step that asks another check keeps its answer exact.
LEMMA AskKeeps ==
  ASSUME BudgetAssumption, BudgetIInv, NEW a, Ask(a),
         \/ \E base, perItem, count \in Nat :
               a = [what |-> "size", yes |-> checkResponseSize(base, perItem, count),
                    exact |-> base + perItem * count]
         \/ \E from, to \in 0..(Half - 1) :
               a = [what |-> "range", count |-> CountRange(from, to, limit), from |-> from, to |-> to]
         \/ \E kind \in {"tip", "range", "list", "proof"}, t, n, p \in Nat :
               a = [what |-> "response", service |-> ServiceEstimate(kind, t, n, p),
                    handler |-> HandlerEstimate(kind, t, n, p)]
  PROVE  BudgetIInv'
<1>1. answer' = a /\ UNCHANGED <<limit, size, ok, exact, steps>>
  BY DEF Ask
<1>2. BudgetInv'
  BY <1>1 DEF BudgetIInv, BudgetInv
<1>3. ASSUME NEW base \in Nat, NEW perItem \in Nat, NEW count \in Nat,
             a = [what |-> "size", yes |-> checkResponseSize(base, perItem, count),
                  exact |-> base + perItem * count]
      PROVE  AskedInv'
  <2>1. checkResponseSize(base, perItem, count) <=> base + perItem * count <= limit
    BY SizeIsExact DEF BudgetIInv
  <2>2. a.what = "size" /\ a.yes = checkResponseSize(base, perItem, count) /\ a.exact = base + perItem * count
    BY <1>3
  <2>3. QED
    BY <1>1, <2>1, <2>2 DEF AskedInv, EstimateIsExact, RangeIsExact, HandlerReservesNoMore
<1>4. ASSUME NEW from \in 0..(Half - 1), NEW to \in 0..(Half - 1),
             a = [what |-> "range", count |-> CountRange(from, to, limit), from |-> from, to |-> to]
      PROVE  AskedInv'
  <2>1. CountRange(from, to, limit) = IF from <= to /\ to - from + 1 <= limit THEN to - from + 1 ELSE -1
    BY CountIsExact DEF BudgetIInv
  <2>2. a.what = "range" /\ a.count = CountRange(from, to, limit) /\ a.from = from /\ a.to = to
    BY <1>4
  <2>3. QED
    BY <1>1, <2>1, <2>2 DEF AskedInv, EstimateIsExact, RangeIsExact, HandlerReservesNoMore
<1>5. ASSUME NEW kind \in {"tip", "range", "list", "proof"}, NEW t \in Nat, NEW n \in Nat, NEW p \in Nat,
             a = [what |-> "response", service |-> ServiceEstimate(kind, t, n, p),
                  handler |-> HandlerEstimate(kind, t, n, p)]
      PROVE  AskedInv'
  <2>1. HandlerEstimate(kind, t, n, p) <= ServiceEstimate(kind, t, n, p)
    BY HandlerIsSmaller
  <2>2. a.what = "response" /\ a.handler <= a.service
    BY <1>5, <2>1
  <2>3. QED
    BY <1>1, <2>2 DEF AskedInv, EstimateIsExact, RangeIsExact, HandlerReservesNoMore
<1>6. AskedInv'
  BY <1>3, <1>4, <1>5
<1>7. QED
  BY <1>2, <1>6 DEF BudgetIInv

\* Every step of the budget and of the other checks.
LEMMA BudgetStep == ASSUME BudgetAssumption, BudgetIInv, [BudgetNext]_budgetVars PROVE BudgetIInv'
<1>a. /\ \A v \in Values : v \in Nat /\ v < Word
      /\ \A c \in Counts : c \in Nat /\ c < Word
      /\ \A t \in Topics : t \in Nat
  BY WordIsWide DEF BudgetAssumption
<1>1. ASSUME NEW v \in Values, Add(v) PROVE BudgetIInv'
  <2>1. Outcome(add(Budget, v), v)
    BY <1>a, AddOutcome DEF BudgetIInv
  <2>2. QED
    BY <1>1, <1>a, <2>1, SpendKeeps DEF Add
<1>2. ASSUME NEW v \in Values, AddString(v) PROVE BudgetIInv'
  <2>1. Outcome(addString(Budget, v), v * 6 + 2) /\ v * 6 + 2 \in Nat
    BY <1>a, StringOutcome DEF BudgetIInv
  <2>2. QED
    BY <1>2, <2>1, SpendKeeps DEF AddString
<1>3. ASSUME NEW v \in Values, AddLiteral(v) PROVE BudgetIInv'
  <2>1. v + 2 \in Nat /\ v + 2 < Word /\ Spend(addLiteralString(Budget, v), v + 2)
    BY <1>3, <1>a DEF AddLiteral
  <2>2. Wrap(v + 2) = v + 2
    BY <2>1, WrapSmall
  <2>3. Outcome(addLiteralString(Budget, v), v + 2)
    BY <2>1, <2>2, AddOutcome DEF BudgetIInv, addLiteralString
  <2>4. QED
    BY <2>1, <2>3, SpendKeeps
<1>4. ASSUME NEW v \in Values, NEW c \in Counts, AddRepeated(c, v) PROVE BudgetIInv'
  <2>1. Outcome(addRepeated(Budget, c, v), c * v) /\ c * v \in Nat
    BY <1>a, RepeatedOutcome DEF BudgetIInv
  <2>2. QED
    BY <1>4, <2>1, SpendKeeps DEF AddRepeated
<1>5. ASSUME NEW b \in Values, NEW v \in Values, NEW c \in Counts, AskSize(b, v, c) PROVE BudgetIInv'
  <2>1. b \in Nat /\ v \in Nat /\ c \in Nat
    BY <1>a
  <2>2. QED
    BY <1>5, <2>1, AskKeeps DEF AskSize
<1>6. ASSUME NEW from \in 0..(Half - 1), NEW to \in 0..(Half - 1), AskRange(from, to) PROVE BudgetIInv'
  BY <1>6, AskKeeps DEF AskRange
<1>7. ASSUME NEW kind \in {"tip", "range", "list", "proof"}, NEW t \in Topics, NEW n \in Counts, NEW p \in Values,
             AskResponse(kind, t, n, p)
      PROVE  BudgetIInv'
  <2>1. t \in Nat /\ n \in Nat /\ p \in Nat
    BY <1>a
  <2>2. QED
    BY <1>7, <2>1, AskKeeps DEF AskResponse
<1>8. CASE UNCHANGED budgetVars
  BY <1>8 DEF budgetVars, BudgetIInv, BudgetInv, AskedInv, EstimateIsExact, RangeIsExact, HandlerReservesNoMore
<1>9. QED
  BY <1>1, <1>2, <1>3, <1>4, <1>5, <1>6, <1>7, <1>8 DEF BudgetNext

\* For integers of any width: no sum or product of the size checks wraps.
THEOREM LimitsExact == BudgetAssumption /\ BudgetSpec => []LimitsAreExact
<1>1. SUFFICES ASSUME BudgetAssumption PROVE BudgetSpec => []LimitsAreExact
  OBVIOUS
<1>2. BudgetInit => BudgetIInv
  <2>1. SUFFICES ASSUME BudgetInit PROVE BudgetIInv
    OBVIOUS
  <2>2. BudgetInv
    BY <1>1, <2>1 DEF BudgetInit, BudgetInv, BudgetAssumption
  <2>3. AskedInv
    BY <2>1 DEF BudgetInit, AskedInv, NoAnswer, EstimateIsExact, RangeIsExact, HandlerReservesNoMore
  <2>4. QED
    BY <2>2, <2>3 DEF BudgetIInv
<1>3. BudgetIInv /\ [BudgetNext]_budgetVars => BudgetIInv'
  BY <1>1, BudgetStep
<1>4. BudgetIInv => LimitsAreExact
  <2>1. SUFFICES ASSUME BudgetIInv PROVE LimitsAreExact
    OBVIOUS
  <2>2. BudgetTypeOK
    BY <1>1, <2>1, WordIsWide DEF BudgetIInv, BudgetInv, BudgetTypeOK, BudgetAssumption
  <2>3. BudgetIsExact
    BY <1>1, <2>1 DEF BudgetIInv, BudgetInv, BudgetIsExact, BudgetAssumption
  <2>4. QED
    BY <2>1, <2>2, <2>3 DEF LimitsAreExact, BudgetIInv, AskedInv
<1>5. QED
  BY <1>2, <1>3, <1>4, PTL DEF BudgetSpec
=============================================================================
