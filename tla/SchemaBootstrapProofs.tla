------------------------ MODULE SchemaBootstrapProofs ------------------------
(***************************************************************************)
(* Proofs about SchemaBootstrap, for any number of stores, scopes and      *)
(* releases, any collections and indexes, and any number of crashes,       *)
(* failed calls and late writes.                                           *)
(*                                                                         *)
(* Nothing that exists in the database is ever changed, so what a store    *)
(* has compared stays as it was.  From there every store carries with it   *)
(* what it has found or made so far, up to the complete schema before the  *)
(* ledger is written; and a ledger write, also one that is still on its    *)
(* way, is about a complete schema.                                        *)
(***************************************************************************)
EXTENDS SchemaBootstrap, TLAPS

-----------------------------------------------------------------------------
(* The inductive invariant *)

CollFits(r, c) == db.coll[c] = Validator[r][c]

IndexFits(r, c, i) ==
  LET m == Wanted[r][c][i]
  IN  m.name \in DOMAIN db.index[c] /\ db.index[c][m.name] = m.def

Fits(r, c) == CollFits(r, c) /\ \A i \in 1 .. Len(Wanted[r][c]) : IndexFits(r, c, i)

\* The collections before this one are as the store's release wants them.
EarlierFit(s) ==
  /\ at[s] > 0 => CollFits(ReleaseOf[s], SchemaCollection)
  /\ \A k \in 1 .. Len(DataCollections) :
        k < at[s] => Fits(ReleaseOf[s], DataCollections[k])

Finished == {"probe", "ledger", "verify", "ready"}

\* What a store has found or made so far.
Progress(s) ==
  /\ pc[s] = "topology" => at[s] = 0
  /\ pc[s] \in {"list", "create", "relist", "check", "indexes", "build"} => EarlierFit(s)
  /\ pc[s] = "check" => at[s] = 0
  /\ pc[s] \in {"indexes", "build"} => at[s] > 0
  /\ pc[s] \in {"check", "indexes", "build"} => CollFits(ReleaseOf[s], CollectionOf(s))
  /\ pc[s] = "build" =>
      \A i \in 1 .. Len(Wants(s)) : i \in missing[s] \/ IndexFits(ReleaseOf[s], CollectionOf(s), i)
  /\ pc[s] = "build" => missing[s] # {} /\ missing[s] \subseteq 1 .. Len(Wants(s))
  /\ pc[s] \in Finished => Complete(ReleaseOf[s])
  /\ pc[s] = "verify" => db.ledger[ScopeOf[s]] # None
  /\ pc[s] = "ready" => db.ledger[ScopeOf[s]] = ReleaseOf[s]

ProgressInv == \A s \in Stores : Progress(s)

\* A write that a bootstrap sends.
Sane(w) ==
  /\ w.kind \in {"collection", "index", "ledger"}
  /\ w.kind = "ledger" => w.def \in Releases /\ Complete(w.def)

WireInv == \A w \in wire : Sane(w)

StoreTypes ==
  /\ pc \in [Stores -> Waiting \cup Answers \cup {"idle"}]
  /\ at \in [Stores -> 0 .. Len(DataCollections)]
  /\ DOMAIN missing = Stores
  /\ faults \in 0 .. MaxFaults

IInv ==
  /\ IsDatabase(db) /\ StoreTypes /\ WireInv /\ ProgressInv
  /\ VerdictIsReal /\ LedgerIsTrue

-----------------------------------------------------------------------------
(* The database only grows *)

\* What was defined in d is defined the same way in e.
Grows(d, e) ==
  /\ \A c \in Names : d.coll[c] # None => e.coll[c] = d.coll[c]
  /\ \A c \in Names : \A n \in DOMAIN d.index[c] :
        n \in DOMAIN e.index[c] /\ e.index[c][n] = d.index[c][n]
  /\ \A x \in Scopes : d.ledger[x] # None => e.ledger[x] = d.ledger[x]
  /\ e.dups = d.dups
  /\ e.replica = d.replica

\* No write changes a definition that exists.
LEMMA AppliedGrows ==
  ASSUME NEW d, IsDatabase(d), NEW w
  PROVE  IsDatabase(Applied(d, w)) /\ Grows(d, Applied(d, w))
<1> USE DEF IsDatabase, Grows
<1>1. CASE w.kind = "collection" /\ d.coll[w.on] = None
  <2> DEFINE e == [d EXCEPT !.coll[w.on] = w.def]
  <2>1. Applied(d, w) = e
    BY <1>1 DEF Applied
  <2>2. /\ DOMAIN e = DOMAIN d /\ e.index = d.index /\ e.ledger = d.ledger
        /\ e.dups = d.dups /\ e.replica = d.replica
        /\ e.coll = [d.coll EXCEPT ![w.on] = w.def]
    OBVIOUS
  <2>3. QED
    BY <1>1, <2>1, <2>2
<1>2. CASE w.kind = "index" /\ w.name \notin DOMAIN d.index[w.on] \cup d.dups
  <2> DEFINE f == [n \in {w.name} \cup DOMAIN d.index[w.on] |->
                      IF n = w.name THEN w.def ELSE d.index[w.on][n]]
             e == [d EXCEPT !.index[w.on] = f]
  <2>1. Applied(d, w) = e
    BY <1>2 DEF Applied
  <2>2. \A n \in DOMAIN d.index[w.on] : n \in DOMAIN f /\ f[n] = d.index[w.on][n]
    BY <1>2
  <2> HIDE DEF f
  <2>3. /\ DOMAIN e = DOMAIN d /\ e.coll = d.coll /\ e.ledger = d.ledger
        /\ e.dups = d.dups /\ e.replica = d.replica
        /\ e.index = [d.index EXCEPT ![w.on] = f]
    OBVIOUS
  <2>4. QED
    BY <2>1, <2>2, <2>3
<1>3. CASE w.kind = "ledger" /\ d.ledger[w.on] = None
  <2> DEFINE e == [d EXCEPT !.ledger[w.on] = w.def]
  <2>1. Applied(d, w) = e
    BY <1>3 DEF Applied
  <2>2. /\ DOMAIN e = DOMAIN d /\ e.index = d.index /\ e.coll = d.coll
        /\ e.dups = d.dups /\ e.replica = d.replica
        /\ e.ledger = [d.ledger EXCEPT ![w.on] = w.def]
    OBVIOUS
  <2>3. QED
    BY <1>3, <2>1, <2>2
<1>4. CASE Applied(d, w) = d
  BY <1>4
<1>5. QED
  BY <1>1, <1>2, <1>3, <1>4 DEF Applied

\* Only a ledger write changes a ledger.
LEMMA AppliedLedger ==
  ASSUME NEW d, IsDatabase(d), NEW w, NEW x \in Scopes
  PROVE  \/ Applied(d, w).ledger[x] = d.ledger[x]
         \/ /\ w.kind = "ledger" /\ w.on = x /\ d.ledger[x] = None
            /\ Applied(d, w).ledger[x] = w.def
<1> USE DEF IsDatabase
<1>1. CASE w.kind = "ledger" /\ d.ledger[w.on] = None
  <2>1. Applied(d, w) = [d EXCEPT !.ledger[w.on] = w.def]
    BY <1>1 DEF Applied
  <2>2. Applied(d, w).ledger = [d.ledger EXCEPT ![w.on] = w.def]
    BY <2>1
  <2>3. QED
    BY <1>1, <2>2
<1>2. CASE ~(w.kind = "ledger" /\ d.ledger[w.on] = None)
  <2>1. Applied(d, w).ledger = d.ledger
    BY <1>2 DEF Applied
  <2>2. QED
    BY <2>1
<1>3. QED
  BY <1>1, <1>2

\* A step leaves the database alone or applies a write of a store or from the wire.
LEMMA StepWrites ==
  ASSUME [Next]_vars
  PROVE  \/ db' = db
         \/ \E w \in wire : db' = Applied(db, w)
         \/ \E s \in Stores : \E w \in Sending(s) :
              /\ db' = Applied(db, w)
              /\ pc[s] \in {"create", "build", "ledger"}
BY DEF Next, vars, LateApply, Step, New, CallFails, Crash, SchemaTopology, ListCollections,
       CreateCollection, InspectCollection, CheckLedger, ListIndexes, CreateIndex,
       ProbeTransaction, WriteLedger, VerifyLedger

\* So every step lets the database grow.
LEMMA StepGrows ==
  ASSUME IsDatabase(db), [Next]_vars
  PROVE  IsDatabase(db') /\ Grows(db, db')
<1>1. CASE db' = db
  BY <1>1 DEF Grows
<1>2. CASE \E w : db' = Applied(db, w)
  BY <1>2, AppliedGrows
<1>3. QED
  BY <1>1, <1>2, StepWrites

\* What fits, fits for ever.
LEMMA FitsStay ==
  ASSUME SchemaConstants, Grows(db, db'), NEW r \in Releases, NEW c \in Names
  PROVE  /\ CollFits(r, c) => CollFits(r, c)'
         /\ \A i \in 1 .. Len(Wanted[r][c]) : IndexFits(r, c, i) => IndexFits(r, c, i)'
         /\ Fits(r, c) => Fits(r, c)'
<1>1. CollFits(r, c) => CollFits(r, c)'
  BY DEF SchemaConstants, Grows, CollFits
<1>2. ASSUME NEW i \in 1 .. Len(Wanted[r][c]), IndexFits(r, c, i) PROVE IndexFits(r, c, i)'
  BY <1>2 DEF Grows, IndexFits
<1>3. QED
  BY <1>1, <1>2 DEF Fits

\* A schema is complete when each of its collections fits.
LEMMA CompleteIsFits ==
  ASSUME NEW r
  PROVE  Complete(r) <=> \A c \in Names : Fits(r, c)
BY DEF Complete, CompleteIn, Fits, CollFits, IndexFits

\* A complete schema stays complete.
LEMMA CompleteStays ==
  ASSUME SchemaConstants, Grows(db, db'), NEW r \in Releases, Complete(r)
  PROVE  Complete(r)'
<1>1. Complete(r)' <=> \A c \in Names : Fits(r, c)'
  BY DEF Complete, CompleteIn, Fits, CollFits, IndexFits
<1>2. QED
  BY <1>1, CompleteIsFits, FitsStay

\* A difference that is there stays there.
LEMMA MismatchStays ==
  ASSUME Grows(db, db'), NEW s \in Stores, SchemaConstants, Mismatch(s)
  PROVE  Mismatch(s)'
<1>1. CASE \E c \in Names : db.coll[c] \notin {None, Validator[ReleaseOf[s]][c]}
  BY <1>1 DEF Grows, Mismatch
<1>2. CASE \E c \in Names : \E n \in DOMAIN db.index[c] :
            \A i \in 1..Len(Wanted[ReleaseOf[s]][c]) :
                ~SameIndex(Wanted[ReleaseOf[s]][c][i], n, db.index[c][n])
  <2>1. PICK c \in Names : \E n \in DOMAIN db.index[c] :
            \A i \in 1..Len(Wanted[ReleaseOf[s]][c]) :
                ~SameIndex(Wanted[ReleaseOf[s]][c][i], n, db.index[c][n])
    BY <1>2
  <2>a. PICK n \in DOMAIN db.index[c] :
            \A i \in 1..Len(Wanted[ReleaseOf[s]][c]) :
                ~SameIndex(Wanted[ReleaseOf[s]][c][i], n, db.index[c][n])
    BY <2>1
  <2>2. n \in DOMAIN db'.index[c] /\ db'.index[c][n] = db.index[c][n]
    BY DEF Grows
  <2>3. QED
    BY <2>a, <2>2 DEF Mismatch
<1>3. CASE db.ledger[ScopeOf[s]] \notin {None, ReleaseOf[s]}
  BY <1>3 DEF Grows, Mismatch, SchemaConstants
<1>4. CASE db.dups # {} \/ ~db.replica
  BY <1>4 DEF Grows, Mismatch
<1>5. QED
  BY <1>1, <1>2, <1>3, <1>4 DEF Mismatch

-----------------------------------------------------------------------------
(* The initial state *)

\* Whatever an operator or an earlier bootstrap left.
LEMMA InitIInv == ASSUME SchemaConstants, Init PROVE IInv
<1> USE DEF Init
<1>1. IsDatabase(db) /\ LedgerIsTrue
  BY DEF SchemaConstants, LedgerIsTrue, Complete
<1>2. Len(DataCollections) \in Nat
  BY DEF SchemaConstants
<1>3. StoreTypes
  BY <1>2 DEF StoreTypes, SchemaConstants
<1>4. WireInv /\ VerdictIsReal
  BY DEF WireInv, VerdictIsReal
<1>5. ProgressInv
  BY DEF ProgressInv, Progress, Finished
<1>6. QED
  BY <1>1, <1>3, <1>4, <1>5 DEF IInv

-----------------------------------------------------------------------------
(* The writes *)

\* A store works on a collection of the schema.
LEMMA CollectionIsNamed ==
  ASSUME SchemaConstants, StoreTypes, NEW s \in Stores
  PROVE  /\ CollectionOf(s) \in Names /\ ReleaseOf[s] \in Releases /\ ScopeOf[s] \in Scopes
         /\ Len(DataCollections) \in Nat
         /\ at[s] \in 0 .. Len(DataCollections)
BY DEF SchemaConstants, StoreTypes, CollectionOf, Names

\* A store writes a ledger only when its schema is complete.
LEMMA SendingIsSane ==
  ASSUME SchemaConstants, IInv, NEW s \in Stores, NEW w \in Sending(s)
  PROVE  Sane(w)
<1>1. CASE pc[s] = "create"
  <2>1. Sending(s) = {Write("collection", CollectionOf(s), "",
                            Validator[ReleaseOf[s]][CollectionOf(s)])}
    BY <1>1 DEF Sending
  <2>2. w = Write("collection", CollectionOf(s), "", Validator[ReleaseOf[s]][CollectionOf(s)])
    BY <2>1
  <2>3. QED
    BY <2>2 DEF Write, Sane
<1>2. CASE pc[s] = "build"
  BY <1>2 DEF Sending, Write, Sane
<1>3. CASE pc[s] = "ledger"
  <2>1. Complete(ReleaseOf[s])
    BY <1>3 DEF IInv, ProgressInv, Progress, Finished
  <2>2. Sending(s) = {Write("ledger", ScopeOf[s], "", ReleaseOf[s])}
    BY <1>3 DEF Sending
  <2>3. w = Write("ledger", ScopeOf[s], "", ReleaseOf[s])
    BY <2>2
  <2>4. QED
    BY <2>1, <2>3 DEF Write, Sane, SchemaConstants
<1>4. CASE pc[s] \notin {"create", "build", "ledger"}
  BY <1>4 DEF Sending
<1>5. QED
  BY <1>1, <1>2, <1>3, <1>4

\* Writes on their way stay about complete schemas.
LEMMA WireStays == ASSUME SchemaConstants, IInv, [Next]_vars PROVE WireInv'
<1>1. Grows(db, db')
  BY StepGrows DEF IInv
<1>2. ASSUME NEW w, Sane(w) PROVE Sane(w)'
  BY <1>1, <1>2, CompleteStays DEF Sane
<1>3. ASSUME NEW w \in wire' PROVE w \in wire \/ \E s \in Stores : w \in Sending(s)
  BY <1>3 DEF Next, vars, LateApply, Step, New, CallFails, Crash, SchemaTopology, ListCollections,
       CreateCollection, InspectCollection, CheckLedger, ListIndexes, CreateIndex,
       ProbeTransaction, WriteLedger, VerifyLedger
<1>4. ASSUME NEW w \in wire' PROVE Sane(w)
  BY <1>3, <1>4, SendingIsSane DEF IInv, WireInv
<1>5. QED
  BY <1>2, <1>4 DEF WireInv

\* A ledger that names a release names a complete one.
LEMMA LedgerStays == ASSUME SchemaConstants, IInv, [Next]_vars PROVE LedgerIsTrue'
<1>1. IsDatabase(db) /\ Grows(db, db')
  BY StepGrows DEF IInv
<1>a. \A q : Complete(q)' <=> CompleteIn(db', q)
  BY DEF Complete
<1>b. \A q \in Releases : Complete(q) => CompleteIn(db', q)
  BY <1>1, <1>a, CompleteStays
<1>2. SUFFICES ASSUME NEW x \in Scopes, db'.ledger[x] \in Releases
               PROVE  CompleteIn(db', db'.ledger[x])
  BY DEF LedgerIsTrue, Complete
<1>3. CASE db'.ledger[x] = db.ledger[x]
  BY <1>2, <1>3, <1>b DEF IInv, LedgerIsTrue
<1>4. CASE db'.ledger[x] # db.ledger[x]
  <2>1. PICK w : db' = Applied(db, w) /\ Sane(w)
    BY <1>4, StepWrites, SendingIsSane DEF IInv, WireInv
  <2>2. w.kind = "ledger" /\ db'.ledger[x] = w.def
    BY <1>1, <1>4, <2>1, AppliedLedger
  <2>3. w.def \in Releases /\ Complete(w.def)
    BY <2>1, <2>2 DEF Sane
  <2>4. QED
    BY <1>b, <2>2, <2>3
<1>5. QED
  BY <1>3, <1>4

-----------------------------------------------------------------------------
(* The stores *)

StoreStep(s) == New(s) \/ Step(s) \/ CallFails(s) \/ Crash(s)

\* A step moves one store, or none.
LEMMA OneStoreMoves ==
  ASSUME StoreTypes, [Next]_vars
  PROVE  \/ \E s \in Stores :
              /\ StoreStep(s)
              /\ \A t \in Stores \ {s} :
                    pc'[t] = pc[t] /\ at'[t] = at[t] /\ missing'[t] = missing[t]
         \/ UNCHANGED <<pc, at, missing, faults>>
<1> USE DEF StoreTypes, StoreStep, Goes
<1>1. ASSUME NEW s \in Stores, New(s) \/ CallFails(s) \/ Crash(s)
      PROVE  \A t \in Stores \ {s} :
                    pc'[t] = pc[t] /\ at'[t] = at[t] /\ missing'[t] = missing[t]
  BY <1>1 DEF New, CallFails, Crash
<1>2. ASSUME NEW s \in Stores, Step(s)
      PROVE  \A t \in Stores \ {s} :
                    pc'[t] = pc[t] /\ at'[t] = at[t] /\ missing'[t] = missing[t]
  BY <1>2 DEF Step, SchemaTopology, ListCollections, CreateCollection, InspectCollection,
       CheckLedger, ListIndexes, CreateIndex, ProbeTransaction, WriteLedger, VerifyLedger, NextSpec
<1>3. QED
  BY <1>1, <1>2 DEF Next, vars, LateApply

\* A store that does not move keeps what it has found and made.
LEMMA OthersProgress ==
  ASSUME SchemaConstants, IInv, Grows(db, db'), NEW t \in Stores,
         pc'[t] = pc[t], at'[t] = at[t], missing'[t] = missing[t]
  PROVE  Progress(t)'
<1> DEFINE r == ReleaseOf[t]
<1>a. Progress(t) /\ r \in Releases /\ CollectionOf(t) \in Names /\ ScopeOf[t] \in Scopes
  BY CollectionIsNamed DEF IInv, ProgressInv
<1>b. CollectionOf(t)' = CollectionOf(t) /\ Wants(t)' = Wants(t)
  BY DEF CollectionOf, Wants
<1>c. SchemaCollection \in Names /\ \A k \in 1 .. Len(DataCollections) : DataCollections[k] \in Names
  BY DEF Names
<1>1. EarlierFit(t) => EarlierFit(t)'
  BY <1>a, <1>c, FitsStay DEF EarlierFit
<1>2. CollFits(r, CollectionOf(t)) => CollFits(r, CollectionOf(t))'
  BY <1>a, <1>b, FitsStay DEF CollFits
<1>3. \A i \in 1 .. Len(Wants(t)) :
        IndexFits(r, CollectionOf(t), i) => IndexFits(r, CollectionOf(t), i)'
  <2>1. ASSUME NEW c \in Names, NEW i \in 1 .. Len(Wanted[r][c]), IndexFits(r, c, i)
        PROVE  IndexFits(r, c, i)'
    BY <1>a, <2>1, FitsStay
  <2>2. QED
    BY <1>a, <1>b, <2>1 DEF Wants, IndexFits
<1>4. Complete(r) => Complete(r)'
  BY <1>a, CompleteStays
<1>5. /\ db.ledger[ScopeOf[t]] # None => db'.ledger[ScopeOf[t]] # None
      /\ db.ledger[ScopeOf[t]] = r => db'.ledger[ScopeOf[t]] = r
  BY <1>a DEF Grows, SchemaConstants
<1>6. QED
  BY <1>a, <1>b, <1>1, <1>2, <1>3, <1>4, <1>5 DEF Progress

\* Once a collection fits, bootstrap goes on to the next or to the probe.
LEMMA NextSpecProgress ==
  ASSUME SchemaConstants, StoreTypes, NEW s \in Stores, NextSpec(s),
         CollFits(ReleaseOf[s], SchemaCollection)',
         \A k \in 1 .. Len(DataCollections) :
            k <= at[s] => Fits(ReleaseOf[s], DataCollections[k])'
  PROVE  Progress(s)'
<1> DEFINE r == ReleaseOf[s]
<1>a. /\ Len(DataCollections) \in Nat /\ at[s] \in 0 .. Len(DataCollections)
      /\ r \in Releases
  BY CollectionIsNamed
<1>1. CASE at[s] = Len(DataCollections)
  <2>1. pc'[s] = "probe"
    BY <1>1 DEF NextSpec, Goes, StoreTypes
  <2>2. Fits(r, SchemaCollection)'
    BY <1>a DEF Fits, SchemaConstants
  <2>3. \A c \in Names : Fits(r, c)'
    BY <1>1, <1>a, <2>2 DEF Names
  <2>4. Complete(r)'
    BY <2>3 DEF Complete, CompleteIn, Fits, CollFits, IndexFits
  <2>5. QED
    BY <2>1, <2>4 DEF Progress
<1>2. CASE at[s] # Len(DataCollections)
  <2>1. pc'[s] = "list" /\ at'[s] = at[s] + 1
    BY <1>2 DEF NextSpec, Goes, StoreTypes
  <2>2. \A k \in 1 .. Len(DataCollections) : k < at'[s] => k <= at[s]
    BY <1>a, <2>1
  <2>3. EarlierFit(s)'
    BY <2>2 DEF EarlierFit
  <2>4. QED
    BY <2>1, <2>3 DEF Progress, Finished
<1>3. QED
  BY <1>1, <1>2

\* Creating a collection that is missing or equal leaves it equal.
LEMMA CollectionApplied ==
  ASSUME NEW d, IsDatabase(d), NEW c \in Names, NEW n, NEW def
  PROVE  \/ Applied(d, Write("collection", c, n, def)).coll[c] = def
         \/ d.coll[c] \notin {None, def}
<1> DEFINE w == Write("collection", c, n, def)
<1>1. w.kind = "collection" /\ w.on = c /\ w.def = def
  BY DEF Write
<1> HIDE DEF w
<1>2. CASE d.coll[c] = None
  <2>1. Applied(d, w) = [d EXCEPT !.coll[c] = def]
    BY <1>1, <1>2 DEF Applied
  <2>2. Applied(d, w).coll = [d.coll EXCEPT ![c] = def]
    BY <2>1 DEF IsDatabase
  <2>3. QED
    BY <2>2 DEF IsDatabase, w
<1>3. CASE d.coll[c] # None
  <2>1. Applied(d, w) = d
    BY <1>1, <1>3 DEF Applied
  <2>2. d.coll[c] \in {None, def} => Applied(d, w).coll[c] = def
    BY <1>3, <2>1
  <2>3. QED
    BY <2>2 DEF w
<1>4. QED
  BY <1>2, <1>3

\* An index is created, unless the data forbid it or its name is taken.
LEMMA IndexApplied ==
  ASSUME NEW d, IsDatabase(d), NEW c \in Names, NEW n, NEW def
  PROVE  LET e == Applied(d, Write("index", c, n, def))
         IN  n \in DOMAIN e.index[c] \/ n \in d.dups
<1> DEFINE w == Write("index", c, n, def)
<1>1. w.kind = "index" /\ w.on = c /\ w.name = n /\ w.def = def
  BY DEF Write
<1> HIDE DEF w
<1>2. CASE n \notin DOMAIN d.index[c] \cup d.dups
  <2> DEFINE f == [m \in {n} \cup DOMAIN d.index[c] |-> IF m = n THEN def ELSE d.index[c][m]]
  <2>1. Applied(d, w) = [d EXCEPT !.index[c] = f]
    BY <1>1, <1>2 DEF Applied
  <2>2. n \in DOMAIN f
    OBVIOUS
  <2> HIDE DEF f
  <2>3. Applied(d, w).index = [d.index EXCEPT ![c] = f]
    BY <2>1 DEF IsDatabase
  <2>4. QED
    BY <2>2, <2>3 DEF IsDatabase, w
<1>3. CASE n \in DOMAIN d.index[c] \ d.dups
  <2>1. Applied(d, w) = d
    BY <1>1, <1>3 DEF Applied
  <2>2. QED
    BY <1>3, <2>1 DEF w
<1>4. QED
  BY <1>2, <1>3

\* The upsert leaves a ledger behind, this one or another's.
LEMMA LedgerApplied ==
  ASSUME NEW d, IsDatabase(d), NEW x \in Scopes, NEW n, NEW def, def # None
  PROVE  Applied(d, Write("ledger", x, n, def)).ledger[x] # None
<1> DEFINE w == Write("ledger", x, n, def)
<1>1. w.kind = "ledger" /\ w.on = x /\ w.def = def
  BY DEF Write
<1> HIDE DEF w
<1>2. CASE d.ledger[x] = None
  <2>1. Applied(d, w) = [d EXCEPT !.ledger[x] = def]
    BY <1>1, <1>2 DEF Applied
  <2>2. Applied(d, w).ledger = [d.ledger EXCEPT ![x] = def]
    BY <2>1 DEF IsDatabase
  <2>3. QED
    BY <2>2 DEF IsDatabase, w
<1>3. CASE d.ledger[x] # None
  <2>1. Applied(d, w) = d
    BY <1>1, <1>3 DEF Applied
  <2>2. QED
    BY <1>3, <2>1 DEF w
<1>4. QED
  BY <1>2, <1>3

\* What a step must leave behind for the store that takes it.
Sound(s) == Progress(s) /\ (pc[s] = "incompatible" => Mismatch(s))

\* The first steps, the probe and the faults leave the database alone.
LEMMA QuietSteps ==
  ASSUME SchemaConstants, IInv, NEW s \in Stores,
         New(s) \/ SchemaTopology(s) \/ ProbeTransaction(s) \/ CallFails(s) \/ Crash(s)
  PROVE  Sound(s)'
<1> USE DEF Goes
<1>a. pc \in [Stores -> Waiting \cup Answers \cup {"idle"}] /\ DOMAIN at = Stores /\ Progress(s)
  BY DEF IInv, StoreTypes, ProgressInv
<1>b. Len(DataCollections) \in Nat
  BY CollectionIsNamed DEF IInv
<1>1. CASE New(s)
  BY <1>1, <1>a DEF New, Sound, Progress, Finished
<1>2. CASE SchemaTopology(s)
  <2>1. at'[s] = at[s] /\ at[s] = 0 /\ db' = db
    BY <1>2, <1>a DEF SchemaTopology, Progress
  <2>2. EarlierFit(s)'
    BY <1>b, <2>1 DEF EarlierFit
  <2>3. pc'[s] = IF db.replica THEN "list" ELSE "incompatible"
    BY <1>2, <1>a DEF SchemaTopology
  <2>4. QED
    BY <2>1, <2>2, <2>3 DEF Sound, Progress, Finished, Mismatch
<1>3. CASE ProbeTransaction(s)
  <2>1. pc[s] = "probe" /\ pc'[s] = "ledger" /\ db' = db
    BY <1>3, <1>a DEF ProbeTransaction
  <2>2. Complete(ReleaseOf[s]) /\ Complete(ReleaseOf[s])' = Complete(ReleaseOf[s])
    BY <1>a, <2>1 DEF Progress, Finished, Complete
  <2>3. QED
    BY <2>1, <2>2 DEF Sound, Progress
<1>4. CASE CallFails(s)
  <2>1. /\ UNCHANGED <<db, at>>
        /\ pc'[s] \in {"reported", "failed"} \/ (pc[s] = "create" /\ pc'[s] = "relist")
    <3>a. UNCHANGED <<db, at>>
      BY <1>4 DEF CallFails
    <3>1. pc' = [pc EXCEPT ![s] = CASE pc[s] = "create" -> "relist"
                 [] pc[s] \in {"topology", "build", "probe"} -> "reported"
                 [] OTHER -> "failed"]
      BY <1>4 DEF CallFails
    <3>2. CASE pc[s] = "create"
      BY <1>a, <3>a, <3>1, <3>2
    <3>3. CASE pc[s] \in {"topology", "build", "probe"}
      <4>1. pc' = [pc EXCEPT ![s] = "reported"]
        BY <3>1, <3>3
      <4>2. QED
        BY <1>a, <3>a, <4>1
    <3>4. CASE pc[s] \notin {"create", "topology", "build", "probe"}
      <4>1. pc' = [pc EXCEPT ![s] = "failed"]
        BY <3>1, <3>4
      <4>2. QED
        BY <1>a, <3>a, <4>1
    <3>5. QED
      BY <3>2, <3>3, <3>4
  <2>2. pc[s] = "create" => EarlierFit(s)'
    BY <1>a, <2>1 DEF Progress, EarlierFit, Fits, CollFits, IndexFits
  <2>3. QED
    BY <2>1, <2>2 DEF Sound, Progress, Finished
<1>5. CASE Crash(s)
  BY <1>5, <1>a DEF Crash, Sound, Progress, Finished
<1>6. QED
  BY <1>1, <1>2, <1>3, <1>4, <1>5

\* Listing or creating a collection leads on only when it is as wanted.
LEMMA CollectionSteps ==
  ASSUME SchemaConstants, IInv, Grows(db, db'), NEW s \in Stores,
         ListCollections(s) \/ CreateCollection(s) \/ InspectCollection(s)
  PROVE  Sound(s)'
<1> USE DEF Goes
<1> DEFINE r == ReleaseOf[s]
           c == CollectionOf(s)
<1>a. /\ pc \in [Stores -> Waiting \cup Answers \cup {"idle"}] /\ DOMAIN at = Stores
      /\ Progress(s) /\ IsDatabase(db)
  BY DEF IInv, StoreTypes, ProgressInv
<1>b. /\ c \in Names /\ r \in Releases /\ Len(DataCollections) \in Nat
      /\ at[s] \in 0 .. Len(DataCollections)
  BY CollectionIsNamed DEF IInv
<1>c. at'[s] = at[s] /\ CollectionOf(s)' = CollectionOf(s)
  BY DEF ListCollections, CreateCollection, InspectCollection, CollectionOf
<1>d. EarlierFit(s)'
  <2>1. EarlierFit(s)
    BY <1>a DEF Progress, ListCollections, CreateCollection, InspectCollection
  <2>2. SchemaCollection \in Names /\ \A k \in 1 .. Len(DataCollections) : DataCollections[k] \in Names
    BY DEF Names
  <2>3. QED
    BY <1>b, <1>c, <2>1, <2>2, FitsStay DEF EarlierFit
<1>1. SUFFICES \/ pc'[s] \in {"create", "relist", "failed"}
               \/ pc'[s] = AfterCollection(s) /\ db'.coll[c] = Validator[r][c]
               \/ pc'[s] = "incompatible" /\ db'.coll[c] \notin {None, Validator[r][c]}
  <2>1. CASE pc'[s] \in {"create", "relist", "failed"}
    BY <1>d, <2>1 DEF Sound, Progress, Finished
  <2>2. CASE pc'[s] = AfterCollection(s) /\ db'.coll[c] = Validator[r][c]
    <3>1. CollFits(r, CollectionOf(s))'
      BY <1>c, <2>2 DEF CollFits
    <3>2. \/ pc'[s] = "check" /\ at'[s] = 0
          \/ pc'[s] = "indexes" /\ at'[s] > 0
      BY <1>b, <1>c, <2>2 DEF AfterCollection
    <3>3. QED
      BY <1>d, <3>1, <3>2 DEF Sound, Progress, Finished
  <2>3. CASE pc'[s] = "incompatible" /\ db'.coll[c] \notin {None, Validator[r][c]}
    BY <1>b, <2>3 DEF Sound, Progress, Finished, Mismatch
  <2>4. QED
    BY <1>1, <2>1, <2>2, <2>3
<1>2. CASE ListCollections(s) \/ InspectCollection(s)
  <2>1. db' = db
    BY <1>2 DEF ListCollections, InspectCollection
  <2>2. QED
    BY <1>2, <1>a, <2>1 DEF ListCollections, InspectCollection, CollectionVerdict
<1>3. CASE CreateCollection(s)
  <2>1. Sending(s) = {Write("collection", c, "", Validator[r][c])}
    BY <1>3 DEF CreateCollection, Sending
  <2> DEFINE w == Write("collection", c, "", Validator[r][c])
  <2>2. /\ \/ db.coll[w.on] \in {None, w.def} /\ pc'[s] = AfterCollection(s)
           \/ pc'[s] = "relist"
        /\ db' = Applied(db, w)
    BY <1>3, <1>a, <2>1 DEF CreateCollection
  <2>3. w.on = c /\ w.def = Validator[r][c]
    BY DEF Write
  <2>4. ASSUME db.coll[c] \in {None, Validator[r][c]} PROVE db'.coll[c] = Validator[r][c]
    <3> HIDE DEF c, r, w
    <3>. PICK v : v = Validator[r][c] OBVIOUS
    <3>1. PICK d \in Names : d = c BY <1>b
    <3>2. db.coll[d] \in {None, v}
      BY <2>4, <3>1
    <3>3. Applied(db, Write("collection", d, "", v)).coll[d] = v
      BY <1>a, <3>2, CollectionApplied
    <3>4. QED
      BY <2>2, <3>1, <3>3 DEF w
  <2> HIDE DEF w
  <2>5. QED
    BY <2>2, <2>3, <2>4
<1>4. QED
  BY <1>2, <1>3

\* The ledger is compared before the data collections, written last and compared again.
LEMMA LedgerSteps ==
  ASSUME SchemaConstants, IInv, Grows(db, db'), NEW s \in Stores,
         CheckLedger(s) \/ WriteLedger(s) \/ VerifyLedger(s)
  PROVE  Sound(s)'
<1> USE DEF Goes
<1> DEFINE r == ReleaseOf[s]
           x == ScopeOf[s]
<1>a. /\ pc \in [Stores -> Waiting \cup Answers \cup {"idle"}] /\ DOMAIN at = Stores
      /\ Progress(s) /\ IsDatabase(db) /\ StoreTypes
  BY DEF IInv, StoreTypes, ProgressInv
<1>b. r \in Releases /\ x \in Scopes /\ r # None
  BY <1>a, CollectionIsNamed DEF SchemaConstants
<1>1. CASE CheckLedger(s)
  <2>1. CASE db.ledger[x] \in {None, r}
    <3>1. NextSpec(s) /\ db' = db /\ at[s] = 0
      BY <1>1, <1>a, <2>1 DEF CheckLedger, Progress
    <3>2. CollFits(r, SchemaCollection)'
      BY <1>1, <1>a, <3>1 DEF CheckLedger, Progress, CollFits, CollectionOf
    <3>3. \A k \in 1 .. Len(DataCollections) : ~(k <= at[s])
      BY <3>1
    <3>4. Progress(s)'
      BY <1>a, <3>1, <3>2, <3>3, NextSpecProgress
    <3>5. pc'[s] # "incompatible"
      BY <1>a, <3>1 DEF NextSpec
    <3>6. QED
      BY <3>4, <3>5 DEF Sound
  <2>2. CASE db.ledger[x] \notin {None, r}
    <3>1. pc'[s] = "incompatible" /\ db' = db
      BY <1>1, <1>a, <2>2 DEF CheckLedger
    <3>2. QED
      BY <2>2, <3>1 DEF Sound, Progress, Finished, Mismatch
  <2>3. QED
    BY <2>1, <2>2
<1>2. CASE WriteLedger(s)
  <2>1. Sending(s) = {Write("ledger", x, "", r)} /\ pc[s] = "ledger"
    BY <1>2 DEF WriteLedger, Sending
  <2>2. db' = Applied(db, Write("ledger", x, "", r)) /\ pc'[s] = "verify"
    BY <1>2, <1>a, <2>1 DEF WriteLedger
  <2> HIDE DEF r, x
  <2>3. db'.ledger[x] # None
    BY <1>a, <1>b, <2>2, LedgerApplied
  <2>4. Complete(r)'
    BY <1>a, <1>b, <2>1, CompleteStays DEF Progress, Finished, r
  <2>5. QED
    BY <2>2, <2>3, <2>4 DEF Sound, Progress, r, x
<1>3. CASE VerifyLedger(s)
  <2>1. /\ pc[s] = "verify" /\ db' = db
        /\ pc'[s] = IF db.ledger[x] \in {None, r} THEN "ready" ELSE "incompatible"
    BY <1>3, <1>a DEF VerifyLedger
  <2>2. db.ledger[x] # None /\ Complete(r)
    BY <1>a, <2>1 DEF Progress, Finished
  <2>3. Complete(r)'
    BY <1>b, <2>2, CompleteStays
  <2>4. QED
    BY <2>1, <2>2, <2>3 DEF Sound, Progress, Finished, Mismatch
<1>4. QED
  BY <1>1, <1>2, <1>3

\* An index with the name of a wanted one is that one or an objection.
LEMMA NamedOnce ==
  ASSUME SchemaConstants, NEW r \in Releases, NEW c \in Names,
         NEW i \in 1 .. Len(Wanted[r][c]), NEW j \in 1 .. Len(Wanted[r][c]), NEW def,
         SameIndex(Wanted[r][c][j], Wanted[r][c][i].name, def)
  PROVE  Wanted[r][c][i].def = def
<1>1. Wanted[r][c][j].name = Wanted[r][c][i].name /\ Wanted[r][c][j].def = def
  BY DEF SameIndex
<1>2. j = i
  BY <1>1 DEF SchemaConstants
<1>3. QED
  BY <1>1, <1>2

\* The indexes that are listed are wanted, and the others are still to be built.
LEMMA ListIndexesStep ==
  ASSUME SchemaConstants, IInv, Grows(db, db'), NEW s \in Stores, ListIndexes(s)
  PROVE  Sound(s)'
<1> USE DEF Goes
<1> DEFINE r == ReleaseOf[s]
           c == CollectionOf(s)
           todo == {i \in 1 .. Len(Wants(s)) : Wants(s)[i].name \notin DOMAIN db.index[c]}
<1>a. /\ pc \in [Stores -> Waiting \cup Answers \cup {"idle"}] /\ DOMAIN at = Stores
      /\ DOMAIN missing = Stores
      /\ Progress(s) /\ IsDatabase(db) /\ StoreTypes
  BY DEF IInv, StoreTypes, ProgressInv
<1>b. /\ c \in Names /\ r \in Releases /\ Len(DataCollections) \in Nat
      /\ at[s] \in 0 .. Len(DataCollections)
  BY <1>a, CollectionIsNamed
<1>c. pc[s] = "indexes" /\ db' = db /\ Wants(s) = Wanted[r][c]
  BY DEF ListIndexes, Wants
<1>d. EarlierFit(s) /\ at[s] > 0 /\ CollFits(r, c)
  BY <1>a, <1>c DEF Progress
<1>1. CASE UnexpectedIndexes(s)
  <2>1. pc'[s] = "incompatible"
    BY <1>1, <1>a DEF ListIndexes
  <2>2. Mismatch(s)
    BY <1>1, <1>b, <1>c DEF UnexpectedIndexes, Mismatch
  <2>3. Mismatch(s)'
    BY <2>2, MismatchStays
  <2>4. QED
    BY <2>1, <2>3 DEF Sound, Progress, Finished
<1>2. CASE ~UnexpectedIndexes(s)
  <2>1. /\ missing' = [missing EXCEPT ![s] = todo]
        /\ IF todo = {} THEN NextSpec(s) ELSE pc' = [pc EXCEPT ![s] = "build"] /\ UNCHANGED at
    BY <1>2 DEF ListIndexes
  <2>2. ASSUME NEW i \in 1 .. Len(Wanted[r][c]), i \notin todo PROVE IndexFits(r, c, i)
    <3>1. Wanted[r][c][i].name \in DOMAIN db.index[c]
      BY <1>c, <2>2
    <3>2. PICK j \in 1 .. Len(Wanted[r][c]) :
            SameIndex(Wanted[r][c][j], Wanted[r][c][i].name, db.index[c][Wanted[r][c][i].name])
      BY <1>2, <1>c, <3>1 DEF UnexpectedIndexes
    <3> HIDE DEF r, c
    <3>3. Wanted[r][c][i].def = db.index[c][Wanted[r][c][i].name]
      BY <1>b, <3>2, NamedOnce
    <3>4. QED
      BY <3>1, <3>3 DEF IndexFits
  <2> HIDE DEF todo
  <2>3. CASE todo = {}
    <3>1. Fits(r, c)
      BY <1>d, <2>2, <2>3 DEF Fits
    <3>2. c = DataCollections[at[s]]
      BY <1>b, <1>d DEF CollectionOf
    <3>3. \A k \in 1 .. Len(DataCollections) : k <= at[s] => Fits(r, DataCollections[k])
      BY <1>b, <1>d, <3>1, <3>2 DEF EarlierFit
    <3>4. CollFits(r, SchemaCollection)
      BY <1>d DEF EarlierFit
    <3>5. /\ CollFits(r, SchemaCollection)'
          /\ \A k \in 1 .. Len(DataCollections) : k <= at[s] => Fits(r, DataCollections[k])'
      BY <1>c, <3>3, <3>4 DEF CollFits, Fits, IndexFits
    <3>6. NextSpec(s)
      BY <2>1, <2>3
    <3>7. Progress(s)' /\ pc'[s] # "incompatible"
      BY <1>a, <3>5, <3>6, NextSpecProgress DEF NextSpec
    <3>8. QED
      BY <3>7 DEF Sound
  <2>4. CASE todo # {}
    <3>1. pc'[s] = "build" /\ at'[s] = at[s] /\ missing'[s] = todo
      BY <1>a, <2>1, <2>4
    <3>2. CollectionOf(s)' = CollectionOf(s) /\ Wants(s)' = Wants(s)
      BY <3>1 DEF CollectionOf, Wants
    <3>3. EarlierFit(s)' /\ CollFits(r, CollectionOf(s))'
      BY <1>c, <1>d, <3>1, <3>2 DEF EarlierFit, Fits, CollFits, IndexFits
    <3>4. \A i \in 1 .. Len(Wants(s)) : i \in todo \/ IndexFits(r, CollectionOf(s), i)'
      BY <1>c, <2>2, <3>2 DEF IndexFits
    <3>5. todo \subseteq 1 .. Len(Wants(s))
      BY DEF todo
    <3>6. QED
      BY <1>d, <2>4, <3>1, <3>2, <3>3, <3>4, <3>5 DEF Sound, Progress, Finished
  <2>5. QED
    BY <2>3, <2>4
<1>3. QED
  BY <1>1, <1>2

\* An index that is built is the wanted one; otherwise the store objects to one that
\* is really there, or to the data.
LEMMA CreateIndexStep ==
  ASSUME SchemaConstants, IInv, Grows(db, db'), IsDatabase(db'), NEW s \in Stores, CreateIndex(s)
  PROVE  Sound(s)'
<1> USE DEF Goes
<1>0. ASSUME NEW d \in Names, NEW n, NEW v
      PROVE  n \in DOMAIN Applied(db, Write("index", d, n, v)).index[d] \/ n \in db.dups
  BY IndexApplied DEF IInv
<1> DEFINE r == ReleaseOf[s]
<1>p. PICK c \in Names : c = CollectionOf(s)
  BY CollectionIsNamed DEF IInv
<1>a. /\ pc \in [Stores -> Waiting \cup Answers \cup {"idle"}] /\ DOMAIN at = Stores
      /\ DOMAIN missing = Stores
      /\ Progress(s) /\ IsDatabase(db) /\ StoreTypes
  BY DEF IInv, StoreTypes, ProgressInv
<1>b. /\ c \in Names /\ r \in Releases /\ Len(DataCollections) \in Nat
      /\ at[s] \in 0 .. Len(DataCollections)
  BY <1>a, <1>p, CollectionIsNamed
<1>c. pc[s] = "build" /\ Wants(s) = Wanted[r][c]
  BY <1>p DEF CreateIndex, Wants
<1>d. /\ EarlierFit(s) /\ at[s] > 0 /\ CollFits(r, c)
      /\ \A i \in 1 .. Len(Wanted[r][c]) : i \in missing[s] \/ IndexFits(r, c, i)
      /\ missing[s] \subseteq 1 .. Len(Wanted[r][c])
  BY <1>a, <1>c, <1>p DEF Progress
<1>e. Sending(s) = {Write("index", c, Wants(s)[i].name, Wants(s)[i].def) : i \in First(s)}
  BY <1>c, <1>p DEF Sending
<1>f. PICK i \in First(s) :
        LET w == Write("index", c, Wants(s)[i].name, Wants(s)[i].def)
        IN  /\ db' = Applied(db, w)
            /\ IF w.name \in DOMAIN db'.index[w.on] /\ db'.index[w.on][w.name] = w.def
               THEN /\ missing' = [missing EXCEPT ![s] = @ \ First(s)]
                    /\ IF missing'[s] = {} THEN NextSpec(s) ELSE UNCHANGED <<pc, at>>
               ELSE pc' = [pc EXCEPT ![s] = "incompatible"] /\ UNCHANGED <<at, missing>>
  BY <1>e DEF CreateIndex
<1> DEFINE m == Wanted[r][c][i]
<1>g. /\ db' = Applied(db, Write("index", c, m.name, m.def))
      /\ IF m.name \in DOMAIN db'.index[c] /\ db'.index[c][m.name] = m.def
         THEN /\ missing' = [missing EXCEPT ![s] = @ \ First(s)]
              /\ IF missing'[s] = {} THEN NextSpec(s) ELSE UNCHANGED <<pc, at>>
         ELSE pc' = [pc EXCEPT ![s] = "incompatible"] /\ UNCHANGED <<at, missing>>
  BY <1>c, <1>f DEF Write
<1>h. First(s) = {i} /\ i \in missing[s] /\ i \in 1 .. Len(Wanted[r][c])
  <2>1. i \in missing[s] /\ \A j \in missing[s] : i <= j
    BY <1>f DEF First
  <2>2. \A j \in missing[s] : j \in Nat
    BY <1>d
  <2>3. \A j \in First(s) : j \in missing[s] /\ j <= i
    BY <2>1 DEF First
  <2>4. QED
    BY <1>d, <1>f, <2>1, <2>2, <2>3
<1>i. ASSUME NEW j \in 1 .. Len(Wanted[r][c]), IndexFits(r, c, j) PROVE IndexFits(r, c, j)'
  <2>1. ASSUME NEW d \in Names, NEW q \in Releases, NEW k \in 1 .. Len(Wanted[q][d]),
               IndexFits(q, d, k)
        PROVE  IndexFits(q, d, k)'
    BY <2>1, FitsStay
  <2> HIDE DEF r
  <2>2. \A q \in Releases, d \in Names : \A k \in 1 .. Len(Wanted[q][d]) :
          (Wanted[q][d][k].name \in DOMAIN db.index[d]
              /\ db.index[d][Wanted[q][d][k].name] = Wanted[q][d][k].def)
            => (Wanted[q][d][k].name \in DOMAIN db'.index[d]
              /\ db'.index[d][Wanted[q][d][k].name] = Wanted[q][d][k].def)
    BY <2>1 DEF IndexFits
  <2>3. /\ Wanted[r][c][j].name \in DOMAIN db.index[c]
        /\ db.index[c][Wanted[r][c][j].name] = Wanted[r][c][j].def
    BY <1>i DEF IndexFits
  <2>4. /\ Wanted[r][c][j].name \in DOMAIN db'.index[c]
        /\ db'.index[c][Wanted[r][c][j].name] = Wanted[r][c][j].def
    BY <1>b, <2>2, <2>3
  <2>5. QED
    BY <2>4 DEF IndexFits
<1>1. CASE m.name \in DOMAIN db'.index[c] /\ db'.index[c][m.name] = m.def
  <2>1. /\ missing'[s] = missing[s] \ {i}
        /\ IF missing'[s] = {} THEN NextSpec(s) ELSE UNCHANGED <<pc, at>>
    BY <1>1, <1>a, <1>g, <1>h
  <2>2. IndexFits(r, c, i)'
    BY <1>1 DEF IndexFits
  <2>3. ASSUME NEW j \in 1 .. Len(Wanted[r][c]), j \notin missing'[s] PROVE IndexFits(r, c, j)'
    <3>1. CASE j = i
      BY <2>2, <3>1
    <3>2. CASE j # i
      <4>1. IndexFits(r, c, j)
        BY <1>d, <2>1, <2>3, <3>2
      <4>2. QED
        BY <1>i, <4>1
    <3>3. QED
      BY <3>1, <3>2
  <2>4. CollFits(r, c)' /\ EarlierFit(s) /\ at[s] > 0
    <3>1. \A d \in Names, q \in Releases : db.coll[d] = Validator[q][d] => db'.coll[d] = Validator[q][d]
      BY FitsStay DEF CollFits
    <3> HIDE DEF r
    <3>2. db.coll[c] = Validator[r][c]
      BY <1>d DEF CollFits
    <3>3. db'.coll[c] = Validator[r][c]
      BY <1>b, <3>1, <3>2
    <3>4. QED
      BY <1>d, <3>3 DEF CollFits
  <2>5. SchemaCollection \in Names /\ \A k \in 1 .. Len(DataCollections) : DataCollections[k] \in Names
    BY DEF Names
  <2>6. /\ CollFits(r, SchemaCollection)'
        /\ \A k \in 1 .. Len(DataCollections) : k < at[s] => Fits(r, DataCollections[k])'
    BY <1>b, <2>4, <2>5, FitsStay DEF EarlierFit
  <2>7. CASE missing'[s] = {}
    <3>1. Fits(r, c)'
      BY <2>3, <2>4, <2>7 DEF Fits
    <3>2. c = DataCollections[at[s]]
      BY <1>b, <1>p, <2>4 DEF CollectionOf
    <3>3. \A k \in 1 .. Len(DataCollections) : k <= at[s] => Fits(r, DataCollections[k])'
      BY <1>b, <2>6, <3>1, <3>2
    <3>4. NextSpec(s)
      BY <2>1, <2>7
    <3>5. Progress(s)' /\ pc'[s] # "incompatible"
      BY <1>a, <2>6, <3>3, <3>4, NextSpecProgress DEF NextSpec
    <3>6. QED
      BY <3>5 DEF Sound
  <2>8. CASE missing'[s] # {}
    <3>1. pc'[s] = "build" /\ at'[s] = at[s]
      BY <1>c, <2>1, <2>8
    <3>2. CollectionOf(s)' = CollectionOf(s) /\ Wants(s)' = Wants(s)
      BY <3>1 DEF CollectionOf, Wants
    <3>3. EarlierFit(s)' /\ CollFits(r, CollectionOf(s))'
      BY <1>p, <2>4, <2>6, <3>1, <3>2 DEF EarlierFit, CollFits
    <3>4. \A j \in 1 .. Len(Wants(s)) : j \in missing'[s] \/ IndexFits(r, CollectionOf(s), j)'
      BY <1>c, <1>p, <2>3, <3>2 DEF IndexFits
    <3>5. missing'[s] \subseteq 1 .. Len(Wants(s))
      BY <1>c, <1>d, <2>1
    <3>6. QED
      BY <2>4, <2>8, <3>1, <3>2, <3>3, <3>4, <3>5 DEF Sound, Progress, Finished
  <2>9. QED
    BY <2>7, <2>8
<1>2. CASE ~(m.name \in DOMAIN db'.index[c] /\ db'.index[c][m.name] = m.def)
  <2>1. pc'[s] = "incompatible"
    BY <1>2, <1>a, <1>g
  <2>2. SUFFICES Mismatch(s)'
    BY <2>1 DEF Sound, Progress, Finished
  <2>3. m.name \in DOMAIN db'.index[c] \/ m.name \in db.dups
    BY <1>0, <1>b, <1>g
  <2>4. CASE m.name \in db.dups
    BY <2>4 DEF Grows, Mismatch
  <2>5. CASE m.name \in DOMAIN db'.index[c]
    <3>1. db'.index[c][m.name] # m.def
      BY <1>2, <2>5
    <3>2. ASSUME NEW j \in 1 .. Len(Wanted[r][c])
          PROVE  ~SameIndex(Wanted[r][c][j], m.name, db'.index[c][m.name])
      <4> HIDE DEF r
      <4>1. SameIndex(Wanted[r][c][j], m.name, db'.index[c][m.name]) => m.def = db'.index[c][m.name]
        BY <1>b, <1>h, NamedOnce
      <4>2. QED
        BY <3>1, <4>1
    <3>3. QED
      BY <1>b, <2>5, <3>2 DEF Mismatch
  <2>6. QED
    BY <2>3, <2>4, <2>5
<1>3. QED
  BY <1>1, <1>2

\* Whatever step a store takes, it keeps true what it knows.
LEMMA MoverIsSound ==
  ASSUME SchemaConstants, IInv, Grows(db, db'), IsDatabase(db'), NEW s \in Stores, StoreStep(s)
  PROVE  Sound(s)'
BY QuietSteps, CollectionSteps, LedgerSteps, ListIndexesStep, CreateIndexStep
   DEF StoreStep, Step

\* Every store, the one that moves and the others, keeps what it has found and made,
\* and objects only to what is there.
LEMMA StoresStay ==
  ASSUME SchemaConstants, IInv, [Next]_vars
  PROVE  ProgressInv' /\ VerdictIsReal'
<1>1. Grows(db, db') /\ IsDatabase(db') /\ StoreTypes
  BY StepGrows DEF IInv
<1>2. ASSUME NEW t \in Stores, pc'[t] = pc[t], at'[t] = at[t], missing'[t] = missing[t]
      PROVE  Sound(t)'
  <2>1. Progress(t)'
    BY <1>1, <1>2, OthersProgress
  <2>2. ASSUME pc'[t] = "incompatible" PROVE Mismatch(t)'
    <3>1. Mismatch(t)
      BY <1>2, <2>2 DEF IInv, VerdictIsReal
    <3>2. QED
      BY <1>1, <3>1, MismatchStays
  <2>3. QED
    BY <2>1, <2>2 DEF Sound
<1>3. \A t \in Stores : Sound(t)'
  <2>1. CASE UNCHANGED <<pc, at, missing, faults>>
    BY <1>2, <2>1
  <2>2. ASSUME NEW s \in Stores, StoreStep(s),
               \A t \in Stores \ {s} :
                  pc'[t] = pc[t] /\ at'[t] = at[t] /\ missing'[t] = missing[t]
        PROVE  \A t \in Stores : Sound(t)'
    BY <1>1, <1>2, <2>2, MoverIsSound
  <2>3. QED
    BY <1>1, <2>1, <2>2, OneStoreMoves
<1>4. QED
  BY <1>3 DEF Sound, ProgressInv, VerdictIsReal

\* A store stays at a known step, in a known collection, and faults are counted.
LEMMA StoreTypesStay ==
  ASSUME SchemaConstants, IInv, [Next]_vars
  PROVE  StoreTypes'
<1> USE DEF Goes
<1> DEFINE Known == Waiting \cup Answers \cup {"idle"}
<1>a. /\ pc \in [Stores -> Known] /\ at \in [Stores -> 0 .. Len(DataCollections)]
      /\ DOMAIN missing = Stores /\ faults \in 0 .. MaxFaults
      /\ Len(DataCollections) \in Nat /\ MaxFaults \in Nat
  BY DEF IInv, StoreTypes, SchemaConstants
<1>b. ASSUME NEW s \in Stores, NEW p \in Known, pc' = [pc EXCEPT ![s] = p]
      PROVE  pc' \in [Stores -> Known]
  BY <1>a, <1>b
<1>c. ASSUME NEW s \in Stores, NextSpec(s)
      PROVE  pc' \in [Stores -> Known] /\ at' \in [Stores -> 0 .. Len(DataCollections)]
  <2>1. CASE at[s] = Len(DataCollections)
    BY <1>a, <1>c, <2>1 DEF NextSpec, Waiting
  <2>2. CASE at[s] # Len(DataCollections)
    <3>1. at[s] + 1 \in 0 .. Len(DataCollections)
      BY <1>a, <2>2
    <3>2. QED
      BY <1>a, <1>c, <2>2, <3>1 DEF NextSpec, Waiting
  <2>3. QED
    BY <2>1, <2>2
<1>1. ASSUME NEW s \in Stores, StoreStep(s)
      PROVE  pc' \in [Stores -> Known] /\ at' \in [Stores -> 0 .. Len(DataCollections)]
  <2>1. CASE New(s)
    BY <1>a, <2>1 DEF New, Waiting
  <2>2. CASE SchemaTopology(s) \/ ProbeTransaction(s) \/ WriteLedger(s) \/ VerifyLedger(s)
    BY <1>a, <2>2 DEF SchemaTopology, ProbeTransaction, WriteLedger, VerifyLedger, Waiting, Answers
  <2>3. CASE ListCollections(s) \/ CreateCollection(s) \/ InspectCollection(s)
    BY <1>a, <2>3 DEF ListCollections, CreateCollection, InspectCollection, CollectionVerdict,
                      AfterCollection, Waiting, Answers
  <2>4. CASE CheckLedger(s)
    BY <1>a, <1>c, <2>4 DEF CheckLedger, Answers
  <2>5. CASE ListIndexes(s)
    BY <1>a, <1>c, <2>5 DEF ListIndexes, Waiting, Answers
  <2>6. CASE CreateIndex(s)
    BY <1>a, <1>c, <2>6 DEF CreateIndex, Answers
  <2>7. CASE CallFails(s)
    <3>1. PICK p : p \in {"relist", "reported", "failed"} /\ pc' = [pc EXCEPT ![s] = p]
      BY <2>7 DEF CallFails
    <3>2. QED
      BY <1>a, <2>7, <3>1 DEF CallFails, Waiting, Answers
  <2>8. CASE Crash(s)
    BY <1>a, <2>8 DEF Crash
  <2>9. QED
    BY <1>1, <2>1, <2>2, <2>3, <2>4, <2>5, <2>6, <2>7, <2>8 DEF StoreStep, Step
<1>2. DOMAIN missing' = Stores
  BY <1>a DEF Next, vars, LateApply, Step, New, CallFails, Crash, SchemaTopology, ListCollections,
       CreateCollection, InspectCollection, CheckLedger, ListIndexes, CreateIndex,
       ProbeTransaction, WriteLedger, VerifyLedger
<1>3. faults' \in 0 .. MaxFaults
  <2>1. faults' = faults \/ (faults < MaxFaults /\ faults' = faults + 1)
    BY DEF Next, vars, LateApply, Step, New, CallFails, Crash, SchemaTopology, ListCollections,
       CreateCollection, InspectCollection, CheckLedger, ListIndexes, CreateIndex,
       ProbeTransaction, WriteLedger, VerifyLedger
  <2>2. QED
    BY <1>a, <2>1
<1>4. pc' \in [Stores -> Known] /\ at' \in [Stores -> 0 .. Len(DataCollections)]
  BY <1>a, <1>1 DEF Next, vars, LateApply, StoreStep
<1>5. QED
  BY <1>2, <1>3, <1>4 DEF StoreTypes

-----------------------------------------------------------------------------
(* The theorems *)

\* Every step of every bootstrap, fault and late write keeps the invariant.
LEMMA StepKeepsIInv == ASSUME SchemaConstants, IInv, [Next]_vars PROVE IInv'
BY StepGrows, WireStays, LedgerStays, StoresStay, StoreTypesStay DEF IInv

\* And the invariant is what the runs check.
LEMMA IInvIsSound == ASSUME IInv PROVE BootstrapIsSound
<1>1. TypeOK
  BY DEF IInv, TypeOK, StoreTypes, WireInv, Sane, ProgressInv, Progress
<1>2. ReadyIsComplete
  BY DEF IInv, ReadyIsComplete, ProgressInv, Progress, Finished
<1>3. QED
  BY <1>1, <1>2 DEF IInv, BootstrapIsSound

\* Bootstraps that race, crash, lose answers and send writes that come late agree on the
\* database: a ledger is only written about a complete schema, a store that is ready has
\* all of it for as long as it lives, and a store is refused only for a difference that is
\* really there (schema.go, bootstrap).
THEOREM BootstrapSound == SchemaConstants /\ Spec => []BootstrapIsSound
<1> SUFFICES ASSUME SchemaConstants PROVE Spec => []BootstrapIsSound
  OBVIOUS
<1>1. Init => IInv
  BY InitIInv
<1>2. IInv /\ [Next]_vars => IInv'
  BY StepKeepsIInv
<1>3. IInv => BootstrapIsSound
  BY IInvIsSound
<1>4. QED
  BY <1>1, <1>2, <1>3, PTL DEF Spec

\* No step of any release changes or removes a collection, an index or a ledger that
\* exists: what is incompatible is refused "without alteration" (store.go, New).
THEOREM DefinitionsStay == SchemaConstants /\ Spec => NothingAltered
<1> SUFFICES ASSUME SchemaConstants PROVE Spec => NothingAltered
  OBVIOUS
<1>1. Init => IInv
  BY InitIInv
<1>2. IInv /\ [Next]_vars => IInv'
  BY StepKeepsIInv
<1>3. IInv /\ [Next]_vars => [NothingAlteredStep]_vars
  BY StepGrows DEF IInv, Grows, NothingAlteredStep
<1>4. QED
  BY <1>1, <1>2, <1>3, PTL DEF Spec, NothingAltered

=============================================================================
