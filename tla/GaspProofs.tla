----------------------------- MODULE GaspProofs -----------------------------
(***************************************************************************)
(* Proofs about GaspSync and GaspGraph.                                    *)
(*                                                                         *)
(* GaspSync, for any peers, outputs and sessions, any page size and any    *)
(* number of slots of the limiter.  A score never changes once an output   *)
(* is visible, and an output that becomes visible at a score some cursor   *)
(* or session has come to is late.  So a page stays what it was when it    *)
(* was read, the lowest outputs above the session's score, and a session   *)
(* can carry along that everything behind it is applied, late or tied;     *)
(* only such a score is ever stored.                                       *)
(*                                                                         *)
(* GaspGraph, for any transactions and outpoints, any number of slots,     *)
(* calls and queued outpoints and any limit on a graph.  A root has one    *)
(* owner, so that nobody else drops its graph, and what an owner has taken *)
(* off its plan is applied, by itself or by the call whose result it       *)
(* shared.                                                                 *)
(***************************************************************************)
EXTENDS GaspSync, GaspGraph, SequenceTheorems, FiniteSetTheorems, TLAPS

-----------------------------------------------------------------------------
(* GaspSync: the inductive invariant *)

Score == 0 .. MaxClock + 1
Active == {"request", "check", "process", "persist"}

Session ==
  [pc: {"idle", "pick"} \cup Active, todo: SUBSET Peers, peer: Peers \cup {Self},
   last: Score, prev: Score, page: SUBSET Outputs, ingest: SUBSET Outputs,
   running: SUBSET Outputs, failed: BOOLEAN]

StoreTypes ==
  /\ clock \in 1 .. MaxClock + 1
  /\ drawn \in [Peers -> [PeerTxs -> Score]]
  /\ score \in [Peers -> [Outputs -> Score]]
  /\ spent \in [Peers -> SUBSET Outputs]
  /\ fetched \subseteq landed /\ landed \subseteq Outputs
  /\ cursor \in [Peers -> Score]
  /\ shown \subseteq Peers \X Outputs /\ late \subseteq Peers \X Outputs

SessionTypes ==
  /\ sess \in [Sessions -> Session]
  /\ \A s \in Sessions : Cardinality(sess[s].running) <= Concurrency

\* The outputs of a transaction that is being prepared are not visible yet.
DrawnInv ==
  \A p \in Peers, t \in PeerTxs : drawn[p][t] # 0 => \A o \in t : score[p][o] = 0

\* How far the local variables of a session are set.
LoopInv(s) ==
  /\ sess[s].pc \in Active => sess[s].peer \in Peers
  /\ sess[s].pc \notin Active => sess[s].page = {}
  /\ sess[s].pc = "request" => sess[s].page = {}
  /\ sess[s].pc # "process" => sess[s].ingest = {} /\ sess[s].running = {} /\ ~sess[s].failed
  /\ sess[s].prev <= sess[s].last
  /\ sess[s].pc \in {"request", "check"} => sess[s].last = sess[s].prev

\* The page holds the lowest outputs above the score it was asked for.
PageInv(s) ==
  LET p == sess[s].peer
  IN  \A q \in sess[s].page :
        /\ sess[s].prev < score[p][q]
        /\ \A o \in Outputs \ (spent[p] \cup sess[s].page) :
              sess[s].prev < score[p][o] /\ <<p, o>> \notin late => score[p][q] <= score[p][o]

\* Once its page is taken a session stands at the highest score of the page.
TopInv(s) ==
  LET p == sess[s].peer
  IN  sess[s].pc \in {"process", "persist"} =>
        /\ sess[s].page = {} => sess[s].last = sess[s].prev
        /\ sess[s].page # {} => \E top \in sess[s].page : sess[s].last = score[p][top]
        /\ \A q \in sess[s].page : score[p][q] <= sess[s].last /\ <<p, q>> \in shown

\* What was taken is applied, under way or failed.
IngestInv(s) ==
  /\ sess[s].pc = "process" /\ ~sess[s].failed =>
        sess[s].page \subseteq landed \cup sess[s].ingest \cup sess[s].running
  /\ sess[s].pc = "persist" => sess[s].page \subseteq landed

\* Up to score n every unspent output of p is applied, late or tied.
Behind(p, n) ==
  \A o \in Outputs \ landed :
    0 < score[p][o] /\ score[p][o] <= n /\ o \notin spent[p] => <<p, o>> \in late \/ Tied(p, o)

BehindInv(s) == sess[s].pc \in Active => Behind(sess[s].peer, sess[s].prev)

Sound(s) == LoopInv(s) /\ PageInv(s) /\ TopInv(s) /\ IngestInv(s) /\ BehindInv(s)

SessionInv == \A s \in Sessions : Sound(s)

SyncIInv == StoreTypes /\ SessionTypes /\ DrawnInv /\ SessionInv /\ LossIsLateOrTied

-----------------------------------------------------------------------------
(* What a step can do to the outputs *)

ConsumerStep == \E s \in Sessions : StartGASPSync(s) \/ SessionStep(s)

\* Nothing is unapplied, unlisted or unspent, scores stay as they are, and an output that
\* becomes visible behind a cursor or a session is late.
Grows ==
  /\ landed \subseteq landed' /\ shown \subseteq shown' /\ late \subseteq late'
  /\ \A p \in Peers : spent[p] \subseteq spent'[p]
  /\ \A p \in Peers, o \in Outputs : score[p][o] # 0 => score'[p][o] = score[p][o]
  /\ \A p \in Peers, o \in Outputs :
        score[p][o] = 0 /\ score'[p][o] # 0 => <<p, o>> \in late' \/ ~Reached(p, score'[p][o])

\* Only the peers change what they hold.
LEMMA OthersLeavePeers ==
  ASSUME [SyncNext]_syncVars
  PROVE  \/ UNCHANGED peerVars /\ landed \subseteq landed' /\ shown \subseteq shown'
         \/ /\ UNCHANGED <<landed, fetched, cursor, sess, shown>>
            /\ \/ Tick
               \/ \E p \in Peers, t \in PeerTxs :
                    prepareAdmittedOutputs(p, t) \/ insertPreparedOutputs(p, t)
               \/ \E p \in Peers, o \in Outputs : PeerMarksSpent(p, o)
<1>1. CASE ConsumerStep
  BY <1>1 DEF ConsumerStep, SessionStep, StartGASPSync, GetLastInteraction, GetInitialResponse,
              HasOutputs, Launch, ProcessUTXOToCompletion, Wait, UpdateLastInteraction, Return
<1>2. CASE UNCHANGED syncVars
  BY <1>2 DEF syncVars, peerVars
<1>3. CASE Crash \/ \E o \in Outputs : SubmitOutput(o) \/ ForgetOutput(o)
  BY <1>3 DEF Crash, SubmitOutput, ForgetOutput
<1>4. CASE \/ Tick
           \/ \E p \in Peers, t \in PeerTxs :
                prepareAdmittedOutputs(p, t) \/ insertPreparedOutputs(p, t)
           \/ \E p \in Peers, o \in Outputs : PeerMarksSpent(p, o)
  BY <1>4 DEF Tick, prepareAdmittedOutputs, insertPreparedOutputs, PeerMarksSpent
<1>5. QED
  BY <1>1, <1>2, <1>3, <1>4 DEF SyncNext, ConsumerStep

\* The outputs of one transaction become visible together, at a score of their own.
LEMMA InsertGrows ==
  ASSUME GaspSyncAssumption, StoreTypes, DrawnInv, NEW p \in Peers, NEW t \in PeerTxs,
         insertPreparedOutputs(p, t)
  PROVE  Grows /\ StoreTypes' /\ DrawnInv'
<1> USE DEF insertPreparedOutputs
<1> DEFINE n == drawn[p][t]
<1>a. t \subseteq Outputs /\ n \in Score /\ n # 0
  BY DEF GaspSyncAssumption, StoreTypes
<1>b. \A o \in t : score[p][o] = 0
  BY <1>a DEF DrawnInv
<1>1. \A q \in Peers, o \in Outputs :
        score'[q][o] = IF q = p /\ o \in t THEN n ELSE score[q][o]
  BY DEF StoreTypes
<1>2. score' \in [Peers -> [Outputs -> Score]]
  <2>1. [o \in Outputs |-> IF o \in t THEN n ELSE score[p][o]] \in [Outputs -> Score]
    BY <1>a DEF StoreTypes
  <2>2. QED
    BY <2>1 DEF StoreTypes
<1>3. late \subseteq late' /\ late' \subseteq Peers \X Outputs
  BY <1>a DEF StoreTypes
<1>4. \A o \in t : <<p, o>> \in late' \/ ~Reached(p, n)
  OBVIOUS
<1>5. Grows
  BY <1>1, <1>3, <1>4, <1>b DEF Grows
<1>6. drawn' \in [Peers -> [PeerTxs -> Score]]
      /\ \A q \in Peers, u \in PeerTxs : drawn'[q][u] = IF q = p /\ u = t THEN 0 ELSE drawn[q][u]
  <2>1. 0 \in Score
    BY DEF GaspSyncAssumption, Score
  <2>2. QED
    BY <2>1 DEF StoreTypes
<1>7. StoreTypes'
  BY <1>2, <1>3, <1>6 DEF StoreTypes
<1>8. ASSUME NEW q \in Peers, NEW u \in PeerTxs, drawn'[q][u] # 0, NEW o \in u
      PROVE  score'[q][o] = 0
  <2>1. drawn[q][u] # 0 /\ ~(q = p /\ u = t)
    BY <1>6, <1>8
  <2>2. o \in Outputs /\ score[q][o] = 0
    BY <1>8, <2>1 DEF DrawnInv, GaspSyncAssumption
  <2>3. ~(q = p /\ o \in t)
    BY <1>8, <2>1 DEF GaspSyncAssumption
  <2>4. QED
    BY <1>1, <2>2, <2>3
<1>9. QED
  BY <1>5, <1>7, <1>8 DEF DrawnInv

\* Every step lets the outputs grow.
LEMMA StepGrows ==
  ASSUME GaspSyncAssumption, SyncIInv, [SyncNext]_syncVars
  PROVE  Grows /\ DrawnInv'
<1>a. StoreTypes /\ DrawnInv
  BY DEF SyncIInv
<1>1. CASE UNCHANGED peerVars /\ landed \subseteq landed' /\ shown \subseteq shown'
  BY <1>1, <1>a DEF peerVars, Grows, DrawnInv
<1>2. ASSUME NEW p \in Peers, NEW t \in PeerTxs, insertPreparedOutputs(p, t)
      PROVE  Grows /\ DrawnInv'
  BY <1>2, <1>a, InsertGrows
<1>3. ASSUME NEW p \in Peers, NEW t \in PeerTxs, prepareAdmittedOutputs(p, t)
      PROVE  Grows /\ DrawnInv'
  <2>1. UNCHANGED <<score, spent, landed, shown, late>>
    BY <1>3 DEF prepareAdmittedOutputs
  <2>2. \A q \in Peers, u \in PeerTxs : q # p \/ u # t => drawn'[q][u] = drawn[q][u]
    BY <1>3, <1>a DEF prepareAdmittedOutputs, StoreTypes
  <2>3. \A o \in t : score[p][o] = 0
    BY <1>3 DEF prepareAdmittedOutputs
  <2>4. QED
    BY <1>a, <2>1, <2>2, <2>3 DEF Grows, DrawnInv
<1>4. ASSUME NEW p \in Peers, NEW o \in Outputs, PeerMarksSpent(p, o)
      PROVE  Grows /\ DrawnInv'
  BY <1>4, <1>a DEF PeerMarksSpent, StoreTypes, Grows, DrawnInv
<1>5. CASE Tick
  BY <1>5, <1>a DEF Tick, Grows, DrawnInv
<1>6. QED
  BY <1>1, <1>2, <1>3, <1>4, <1>5, OthersLeavePeers

\* What is applied, late or tied up to a score that was reached stays so.
LEMMA BehindStays ==
  ASSUME StoreTypes, Grows, NEW p \in Peers, NEW n \in Score, Behind(p, n),
         \A m \in Score : m <= n => Reached(p, m), score' \in [Peers -> [Outputs -> Score]]
  PROVE  Behind(p, n)'
<1>1. SUFFICES ASSUME NEW o \in Outputs \ landed',
                      0 < score'[p][o], score'[p][o] <= n, o \notin spent'[p],
                      <<p, o>> \notin late'
               PROVE  Tied(p, o)'
  BY DEF Behind
<1>2. score[p][o] # 0
  BY <1>1 DEF Grows
<1>3. score'[p][o] = score[p][o] /\ o \in Outputs \ landed /\ o \notin spent[p]
      /\ <<p, o>> \notin late
  BY <1>1, <1>2 DEF Grows
<1>4. Tied(p, o)
  BY <1>1, <1>3 DEF Behind
<1>5. PICK q \in landed : <<p, q>> \in shown /\ q # o /\ score[p][q] = score[p][o]
  BY <1>4 DEF Tied
<1>6. q \in landed' /\ <<p, q>> \in shown' /\ score'[p][q] = score[p][q]
  BY <1>2, <1>5 DEF Grows, StoreTypes
<1>7. QED
  BY <1>3, <1>5, <1>6 DEF Tied

-----------------------------------------------------------------------------
(* What a session carries along *)

\* A session that keeps its place keeps what it knows of the scores behind it.
LEMMA BehindKept ==
  ASSUME GaspSyncAssumption, SyncIInv, [SyncNext]_syncVars, StoreTypes', NEW s \in Sessions,
         sess[s].pc \in Active, sess'[s].peer = sess[s].peer, sess'[s].prev = sess[s].prev
  PROVE  BehindInv(s)'
<1>1. PICK p \in Peers, n \in Score : p = sess[s].peer /\ n = sess[s].prev
  BY DEF SyncIInv, SessionTypes, Session, SessionInv, Sound, LoopInv
<1>2. Behind(p, n)
  BY <1>1 DEF SyncIInv, SessionInv, Sound, BehindInv
<1>3. \A m \in Score : m <= n => Reached(p, m)
  <2>1. n <= sess[s].last /\ sess[s].last \in Score
    BY <1>1 DEF SyncIInv, SessionInv, Sound, LoopInv, SessionTypes, Session
  <2>2. \A m \in Score : m <= n => m <= sess[s].last
    BY <2>1 DEF GaspSyncAssumption, Score
  <2>3. QED
    BY <1>1, <2>2 DEF Reached
<1>4. Behind(p, n)'
  BY <1>2, <1>3, StepGrows, BehindStays DEF SyncIInv, StoreTypes
<1>5. QED
  BY <1>1, <1>4 DEF BehindInv, Behind

\* A page that was read stays the lowest outputs above its score.
LEMMA PageKept ==
  ASSUME GaspSyncAssumption, SyncIInv, [SyncNext]_syncVars, StoreTypes', NEW s \in Sessions,
         sess'[s].page = sess[s].page, sess'[s].peer = sess[s].peer, sess'[s].prev = sess[s].prev
  PROVE  /\ PageInv(s)'
         /\ \A q \in sess[s].page : score'[sess[s].peer][q] = score[sess[s].peer][q]
<1>1. CASE sess[s].page = {}
  BY <1>1 DEF PageInv
<1>2. CASE sess[s].page # {}
  <2>1. /\ sess[s].peer \in Peers /\ PageInv(s) /\ sess[s].page \subseteq Outputs
        /\ sess[s].prev \in Score
    BY <1>2 DEF SyncIInv, SessionInv, Sound, LoopInv, SessionTypes, Session
  <2>2. PICK p \in Peers, n \in Score : p = sess[s].peer /\ n = sess[s].prev
    BY <2>1
  <2>3. \A q \in sess[s].page : n < score[p][q] /\ q \in Outputs
    BY <2>1, <2>2 DEF PageInv
  <2>t. n \in Nat /\ \A o \in Outputs : score[p][o] \in Nat /\ score'[p][o] \in Nat
    BY DEF GaspSyncAssumption, SyncIInv, StoreTypes, Score
  <2>4. \A q \in sess[s].page : score'[p][q] = score[p][q]
    BY <2>3, <2>t, StepGrows DEF Grows
  <2>5. ASSUME NEW q \in sess[s].page, NEW o \in Outputs, o \notin spent'[p],
               o \notin sess[s].page, n < score'[p][o], <<p, o>> \notin late'
        PROVE  score[p][q] <= score'[p][o]
    <3>1. CASE score[p][o] = 0
      <4>1. ~Reached(p, score'[p][o])
        BY <2>5, <2>t, <3>1, StepGrows DEF Grows
      <4>2. ~(score'[p][o] <= score[p][q])
        BY <2>2, <2>5, <4>1 DEF Reached
      <4>3. QED
        BY <2>3, <2>t, <4>2
    <3>2. CASE score[p][o] # 0
      <4>1. /\ score'[p][o] = score[p][o] /\ o \notin spent[p]
            /\ <<p, o>> \notin late
        BY <2>5, <3>2, StepGrows DEF Grows
      <4>2. QED
        BY <2>1, <2>2, <2>5, <4>1 DEF PageInv
    <3>3. QED
      BY <3>1, <3>2
  <2>6. QED
    BY <2>2, <2>3, <2>4, <2>5 DEF PageInv
<1>3. QED
  BY <1>1, <1>2

\* A session that does not move stays sound, whatever the others do.
LEMMA OthersSound ==
  ASSUME GaspSyncAssumption, SyncIInv, [SyncNext]_syncVars, StoreTypes', NEW s \in Sessions, sess'[s] = sess[s]
  PROVE  Sound(s)'
<1>a. Sound(s)
  BY DEF SyncIInv, SessionInv
<1>1. LoopInv(s)'
  BY <1>a DEF Sound, LoopInv
<1>2. PageInv(s)' /\ \A q \in sess[s].page : score'[sess[s].peer][q] = score[sess[s].peer][q]
  BY PageKept
<1>3. TopInv(s)'
  <2>1. shown \subseteq shown'
    BY StepGrows DEF Grows
  <2>2. QED
    BY <1>a, <1>2, <2>1 DEF Sound, TopInv
<1>4. IngestInv(s)'
  BY <1>a, StepGrows DEF Sound, IngestInv, Grows
<1>5. BehindInv(s)'
  <2>1. CASE sess[s].pc \in Active
    BY <2>1, BehindKept
  <2>2. CASE sess[s].pc \notin Active
    BY <2>2 DEF BehindInv
  <2>3. QED
    BY <2>1, <2>2
<1>6. QED
  BY <1>1, <1>2, <1>3, <1>4, <1>5 DEF Sound

\* A session that is not with a peer has nothing to carry.
LEMMA AwaySound ==
  ASSUME GaspSyncAssumption, NEW s \in Sessions,
         sess'[s].pc \notin Active, sess'[s].page = {}, sess'[s].ingest = {},
         sess'[s].running = {}, ~sess'[s].failed, sess'[s].prev <= sess'[s].last
  PROVE  Sound(s)'
BY DEF Sound, LoopInv, PageInv, TopInv, IngestInv, BehindInv, Active

-----------------------------------------------------------------------------
(* The page *)

\* FindUTXOsForTopic: what a page leaves out comes after all of it.
LEMMA PageIsLowest ==
  ASSUME GaspSyncAssumption, StoreTypes, NEW p \in Peers, NEW n \in Score,
         NEW q \in FindUTXOsForTopic(p, n, Limit),
         NEW o \in Outputs \ spent[p], n < score[p][o],
         o \notin FindUTXOsForTopic(p, n, Limit)
  PROVE  score[p][q] <= score[p][o]
<1> DEFINE found == {b \in Outputs \ spent[p] : score[p][b] > n}
           lower(a) == {b \in found : Before(p, b, a)}
<1>t. /\ n \in Nat /\ Limit \in Nat /\ Limit # 0
      /\ \A b \in Outputs : score[p][b] \in Nat /\ b \in Nat
  BY DEF GaspSyncAssumption, StoreTypes, Score
<1>1. /\ o \in found /\ q \in found
      /\ Cardinality(lower(q)) < Limit /\ ~(Cardinality(lower(o)) < Limit)
  BY <1>t DEF FindUTXOsForTopic
<1>2. \A a \in found : IsFiniteSet(lower(a)) /\ Cardinality(lower(a)) \in Nat
  <2>1. \A a \in found : lower(a) \subseteq Outputs
    OBVIOUS
  <2>2. QED
    BY <2>1, FS_Subset, FS_CardinalityType DEF GaspSyncAssumption
<1>3. SUFFICES ASSUME score[p][o] < score[p][q] PROVE FALSE
  BY <1>1, <1>t
<1>4. lower(o) \subseteq lower(q)
  <2>1. ASSUME NEW b \in found, Before(p, b, o) PROVE Before(p, b, q)
    BY <1>1, <1>3, <1>t, <2>1 DEF Before
  <2>2. QED
    BY <2>1
<1>5. Cardinality(lower(o)) <= Cardinality(lower(q))
  BY <1>1, <1>2, <1>4, FS_Subset
<1>6. QED
  BY <1>1, <1>2, <1>5, <1>t

-----------------------------------------------------------------------------
(* The steps of a session *)

\* What has to be shown of the session that takes a step.
Moved(s) == sess'[s] \in Session /\ Cardinality(sess'[s].running) <= Concurrency /\ Sound(s)'

\* Starting, leaving a peer, returning and stopping.
LEMMA AwayMoves ==
  ASSUME GaspSyncAssumption, NEW s \in Sessions, NEW x \in {"idle", "pick"},
         NEW todo \in SUBSET Peers, sess'[s] = Away(x, todo)
  PROVE  Moved(s)
<1>1. Cardinality({}) <= Concurrency
  BY FS_EmptySet DEF GaspSyncAssumption
<1>2. /\ sess'[s] \in Session /\ sess'[s].pc = x /\ sess'[s].page = {}
      /\ sess'[s].ingest = {} /\ sess'[s].running = {} /\ sess'[s].failed = FALSE
      /\ sess'[s].prev = 0 /\ sess'[s].last = 0
  <2>1. 0 \in Score
    BY DEF GaspSyncAssumption, Score
  <2>2. QED
    BY <2>1 DEF Away, Session
<1>3. sess'[s].pc \notin Active /\ sess'[s].prev <= sess'[s].last
  BY <1>2 DEF Active
<1>4. Sound(s)'
  BY <1>2, <1>3, AwaySound
<1>5. QED
  BY <1>1, <1>2, <1>4 DEF Moved

\* StartGASPSync and its return.
LEMMA StartReturn ==
  ASSUME GaspSyncAssumption, SyncIInv, NEW s \in Sessions, StartGASPSync(s) \/ Return(s)
  PROVE  Moved(s)
<1>1. CASE StartGASPSync(s)
  <2>1. \A a \in Answers : discoverSHIPPeers(Topic, a) \subseteq Peers
    BY DEF GaspSyncAssumption, discoverSHIPPeers, extractPeerEndpoints
  <2>2. PICK todo \in SUBSET Peers : sess'[s] = Away("pick", todo)
    BY <1>1, <2>1 DEF StartGASPSync, SyncIInv, SessionTypes
  <2>3. QED
    BY <2>2, AwayMoves
<1>2. CASE Return(s)
  BY <1>2, AwayMoves DEF Return, Idle, SyncIInv, SessionTypes
<1>3. QED
  BY <1>1, <1>2

\* The fields of a session, and what it knows.
LEMMA SessionFields ==
  ASSUME SyncIInv, NEW s \in Sessions
  PROVE  /\ sess[s] \in Session /\ Sound(s) /\ DOMAIN sess = Sessions
         /\ Cardinality(sess[s].running) <= Concurrency
BY DEF SyncIInv, SessionTypes, SessionInv

\* Leave.
LEMMA LeaveMoves ==
  ASSUME GaspSyncAssumption, SyncIInv, NEW s \in Sessions, Leave(s)
  PROVE  Moved(s)
<1>1. sess'[s] = Away("pick", sess[s].todo) /\ sess[s].todo \in SUBSET Peers
  BY SessionFields DEF Leave, Session
<1>2. PICK todo \in SUBSET Peers : todo = sess[s].todo
  BY <1>1
<1>3. QED
  BY <1>1, <1>2, AwayMoves

\* A session begins with a peer at the stored cursor.
LEMMA CursorLoaded ==
  ASSUME GaspSyncAssumption, SyncIInv, NEW s \in Sessions, GetLastInteraction(s)
  PROVE  Moved(s)
<1>1. CASE sess' = [sess EXCEPT ![s] = Idle]
  BY <1>1, AwayMoves, SessionFields DEF Idle
<1>2. CASE \E p \in sess[s].todo :
            sess' = [sess EXCEPT ![s] =
                [Idle EXCEPT !.pc = "request", !.todo = sess[s].todo \ {p},
                             !.peer = p, !.last = cursor[p], !.prev = cursor[p]]]
  <2>1. PICK p \in sess[s].todo :
            sess' = [sess EXCEPT ![s] =
                [Idle EXCEPT !.pc = "request", !.todo = sess[s].todo \ {p},
                             !.peer = p, !.last = cursor[p], !.prev = cursor[p]]]
    BY <1>2
  <2>2. p \in Peers /\ sess[s].todo \subseteq Peers /\ cursor[p] \in Score
    BY SessionFields DEF SyncIInv, StoreTypes, Session
  <2>3. sess'[s] = [pc |-> "request", todo |-> sess[s].todo \ {p}, peer |-> p,
                    last |-> cursor[p], prev |-> cursor[p], page |-> {}, ingest |-> {},
                    running |-> {}, failed |-> FALSE]
    BY <2>1, SessionFields DEF Idle, Away
  <2>4. sess'[s] \in Session /\ Cardinality(sess'[s].running) <= Concurrency
    BY <2>2, <2>3, FS_EmptySet DEF Session, Active, GaspSyncAssumption
  <2>5. UNCHANGED <<score, spent, late, landed, shown>>
    BY DEF GetLastInteraction, peerVars
  <2>6. LoopInv(s)' /\ PageInv(s)' /\ TopInv(s)' /\ IngestInv(s)'
    <3>1. cursor[p] <= cursor[p]
      BY <2>2 DEF GaspSyncAssumption, Score
    <3>2. QED
      BY <2>2, <2>3, <3>1 DEF LoopInv, PageInv, TopInv, IngestInv, Active
  <2>7. PICK n : n = cursor[p]
    OBVIOUS
  <2>8. Behind(p, n)
    BY <2>2, <2>7 DEF SyncIInv, LossIsLateOrTied, Behind
  <2>9. Behind(p, n)'
    BY <2>5, <2>8 DEF Behind, Tied
  <2>10. BehindInv(s)'
    BY <2>3, <2>7, <2>9 DEF BehindInv, Behind
  <2>11. QED
    BY <2>4, <2>6, <2>10 DEF Moved, Sound
<1>3. QED
  BY <1>1, <1>2 DEF GetLastInteraction

\* The page arrives, or the request fails.
LEMMA PageArrives ==
  ASSUME GaspSyncAssumption, SyncIInv, [SyncNext]_syncVars, StoreTypes', NEW s \in Sessions,
         GetInitialResponse(s)
  PROVE  Moved(s)
<1>1. CASE Leave(s)
  BY <1>1, LeaveMoves
<1>2. CASE ~Leave(s)
  <2>1. PICK response \in RequestSyncResponse(sess[s].peer,
              [topic |-> Topic, version |-> 1, since |-> sess[s].last, limit |-> Limit]) :
            sess' = [sess EXCEPT ![s].page = response.UTXOList, ![s].pc = "check"]
    BY <1>2 DEF GetInitialResponse
  <2>2. response.UTXOList = FindUTXOsForTopic(sess[s].peer, sess[s].last, Limit)
    <3> DEFINE request == [topic |-> Topic, version |-> 1, since |-> sess[s].last, limit |-> Limit]
    <3>1. request.since = sess[s].last /\ request.limit = Limit
      OBVIOUS
    <3> HIDE DEF request
    <3>2. response = ProvideForeignSyncResponse(sess[s].peer, request)
      BY <2>1 DEF RequestSyncResponse, request
    <3>3. QED
      BY <3>1, <3>2 DEF ProvideForeignSyncResponse
  <2>3. PICK p \in Peers, n \in Score :
            p = sess[s].peer /\ n = sess[s].last /\ n = sess[s].prev /\ sess[s].pc = "request"
    BY SessionFields DEF GetInitialResponse, Sound, LoopInv, Session, Active
  <2> DEFINE page == FindUTXOsForTopic(p, n, Limit)
  <2>4. page \subseteq Outputs /\ \A q \in page : n < score[p][q]
    <3>1. \A q \in page : q \in Outputs /\ score[p][q] > n
      BY DEF FindUTXOsForTopic
    <3>2. QED
      BY <3>1 DEF SyncIInv, StoreTypes, Score, GaspSyncAssumption
  <2>5. sess'[s] = [sess[s] EXCEPT !.page = page, !.pc = "check"]
    BY <2>1, <2>2, <2>3, SessionFields
  <2>a. /\ sess'[s].pc = "check" /\ sess'[s].peer = sess[s].peer /\ sess'[s].prev = sess[s].prev
        /\ sess'[s].last = sess[s].last /\ sess'[s].page = page /\ sess'[s].ingest = sess[s].ingest
        /\ sess'[s].running = sess[s].running /\ sess'[s].failed = sess[s].failed
        /\ sess'[s] \in Session
    BY <2>4, <2>5, SessionFields DEF Session, Active
  <2>6. UNCHANGED <<score, spent, late, landed, shown>>
    BY DEF GetInitialResponse, peerVars
  <2>7. LoopInv(s)' /\ TopInv(s)' /\ IngestInv(s)'
    BY <2>3, <2>a, SessionFields DEF Sound, LoopInv, TopInv, IngestInv, Active
  <2>8. PageInv(s)'
    <3>1. ASSUME NEW q \in page, NEW o \in Outputs \ (spent[p] \cup page), n < score[p][o]
          PROVE  score[p][q] <= score[p][o]
      BY <3>1, PageIsLowest DEF SyncIInv
    <3> HIDE DEF page
    <3>2. QED
      BY <2>3, <2>4, <2>6, <2>a, <3>1 DEF PageInv
  <2>9. BehindInv(s)'
    BY <2>3, <2>a, BehindKept DEF Active
  <2>10. QED
    BY <2>7, <2>8, <2>9, <2>a, SessionFields DEF Moved, Sound
<1>3. QED
  BY <1>1, <1>2

\* A page is listed, the score rises to its highest and what is not held is queued.
LEMMA PageTaken ==
  ASSUME GaspSyncAssumption, SyncIInv, [SyncNext]_syncVars, StoreTypes', NEW s \in Sessions, HasOutputs(s)
  PROVE  Moved(s)
<1> DEFINE p == sess[s].peer
           page == sess[s].page
<1>a. /\ sess[s] \in Session /\ Sound(s) /\ DOMAIN sess = Sessions /\ sess[s].pc = "check"
      /\ Cardinality(sess[s].running) <= Concurrency
  BY SessionFields DEF HasOutputs
<1>b. /\ p \in Peers /\ sess[s].last = sess[s].prev /\ sess[s].last \in Score
      /\ page \subseteq Outputs
      /\ sess[s].ingest = {} /\ sess[s].running = {} /\ ~sess[s].failed
  BY <1>a DEF Sound, LoopInv, Active, Session
<1>c. UNCHANGED <<score, spent, late, landed, fetched>>
  BY DEF HasOutputs, peerVars
<1>1. CASE Leave(s)
  BY <1>1, LeaveMoves
<1>2. CASE page = {} /\ sess' = [sess EXCEPT ![s].pc = "persist"]
  <2>1. sess'[s] = [sess[s] EXCEPT !.pc = "persist"]
    BY <1>2, <1>a
  <2>2. /\ sess'[s].pc = "persist" /\ sess'[s].peer = sess[s].peer
        /\ sess'[s].prev = sess[s].prev /\ sess'[s].last = sess[s].last
        /\ sess'[s].page = {} /\ sess'[s].ingest = {} /\ sess'[s].running = {}
        /\ sess'[s].failed = sess[s].failed /\ sess'[s] \in Session
    BY <2>1, <1>2, <1>a, <1>b DEF Session, Active
  <2>3. BehindInv(s)'
    BY <1>a, <2>2, BehindKept DEF Active
  <2>4. LoopInv(s)'
    BY <1>a, <1>b, <2>2 DEF Sound, LoopInv, Active
  <2>5. PageInv(s)' /\ TopInv(s)' /\ IngestInv(s)'
    BY <1>b, <2>2 DEF PageInv, TopInv, IngestInv
  <2>6. QED
    BY <1>a, <1>b, <2>2, <2>3, <2>4, <2>5 DEF Moved, Sound
<1>3. CASE page # {} /\ ~Leave(s)
  <2>1. PICK top \in page :
          /\ \A o \in page : score[p][o] <= score[p][top]
          /\ sess' = [sess EXCEPT
                ![s].pc = "process",
                ![s].last = IF score[p][top] > @ THEN score[p][top] ELSE @,
                ![s].ingest = page \ fetched]
          /\ shown' = shown \cup ({p} \X page)
    BY <1>3 DEF HasOutputs
  <2>2. score[p][top] \in Score /\ sess[s].prev < score[p][top]
    BY <1>a, <1>b DEF Sound, PageInv, SyncIInv, StoreTypes
  <2>3. score[p][top] > sess[s].last /\ sess[s].prev <= score[p][top]
    BY <1>b, <2>2 DEF Score, GaspSyncAssumption
  <2>4. sess'[s] = [sess[s] EXCEPT !.pc = "process", !.last = score[p][top],
                                   !.ingest = page \ fetched]
    BY <1>a, <2>1, <2>3
  <2>5. /\ sess'[s].pc = "process" /\ sess'[s].peer = sess[s].peer
        /\ sess'[s].prev = sess[s].prev /\ sess'[s].last = score[p][top]
        /\ sess'[s].page = page /\ sess'[s].ingest = page \ fetched
        /\ sess'[s].running = sess[s].running
        /\ sess'[s].failed = sess[s].failed /\ sess'[s] \in Session
    <3>1. page \ fetched \subseteq Outputs
      BY <1>b
    <3>2. QED
      BY <1>a, <2>2, <2>4, <3>1 DEF Session, Active
  <2>6. LoopInv(s)'
    BY <1>b, <2>3, <2>5 DEF LoopInv, Active
  <2>7. PageInv(s)'
    BY <2>5, PageKept
  <2>8. TopInv(s)'
    <3>1. \A q \in page : score[p][q] <= score[p][top] /\ <<p, q>> \in shown'
      BY <2>1
    <3>2. score'[sess'[s].peer] = score[p]
      BY <1>c, <2>5
    <3> HIDE DEF p, page
    <3>3. QED
      BY <1>3, <2>5, <3>1, <3>2 DEF TopInv, p
  <2>9. IngestInv(s)'
    <3>1. fetched \subseteq landed
      BY DEF SyncIInv, StoreTypes
    <3>2. QED
      BY <1>c, <2>5, <3>1 DEF IngestInv
  <2>10. BehindInv(s)'
    BY <1>a, <2>5, BehindKept DEF Active
  <2>11. QED
    BY <1>a, <2>5, <2>6, <2>7, <2>8, <2>9, <2>10 DEF Moved, Sound
<1>4. QED
  BY <1>1, <1>2, <1>3 DEF HasOutputs

\* A session at work on its page keeps the page and its scores.
LEMMA PageAtWork ==
  ASSUME GaspSyncAssumption, SyncIInv, [SyncNext]_syncVars, StoreTypes', NEW s \in Sessions,
         sess[s].pc = "process", sess'[s].pc \in {"process", "persist"},
         sess'[s].peer = sess[s].peer, sess'[s].page = sess[s].page,
         sess'[s].prev = sess[s].prev, sess'[s].last = sess[s].last
  PROVE  PageInv(s)' /\ TopInv(s)' /\ BehindInv(s)'
<1>1. PageInv(s)' /\ \A q \in sess[s].page : score'[sess[s].peer][q] = score[sess[s].peer][q]
  BY PageKept
<1>2. BehindInv(s)'
  BY BehindKept DEF Active
<1>3. TopInv(s)'
  <2>1. shown \subseteq shown' /\ TopInv(s)
    BY StepGrows, SessionFields DEF Grows, Sound
  <2>2. QED
    BY <1>1, <2>1 DEF TopInv
<1>4. QED
  BY <1>1, <1>2, <1>3

\* The limiter: one more output is under way.
LEMMA Launched ==
  ASSUME GaspSyncAssumption, SyncIInv, [SyncNext]_syncVars, StoreTypes', NEW s \in Sessions, Launch(s)
  PROVE  Moved(s)
<1>a. /\ sess[s] \in Session /\ Sound(s) /\ DOMAIN sess = Sessions /\ sess[s].pc = "process"
      /\ Cardinality(sess[s].running) < Concurrency
  BY SessionFields DEF Launch
<1>1. PICK o \in sess[s].ingest :
        sess' = [sess EXCEPT ![s].ingest = @ \ {o}, ![s].running = @ \cup {o}]
  BY DEF Launch
<1>2. sess'[s] = [sess[s] EXCEPT !.ingest = @ \ {o}, !.running = @ \cup {o}]
  BY <1>1, <1>a
<1>3. o \in Outputs /\ sess[s].ingest \subseteq Outputs /\ sess[s].running \subseteq Outputs
  BY <1>a DEF Session
<1>4. /\ sess'[s].pc = "process" /\ sess'[s].peer = sess[s].peer
      /\ sess'[s].prev = sess[s].prev /\ sess'[s].last = sess[s].last
      /\ sess'[s].page = sess[s].page /\ sess'[s].ingest = sess[s].ingest \ {o}
      /\ sess'[s].running = sess[s].running \cup {o}
      /\ sess'[s].failed = sess[s].failed /\ sess'[s] \in Session
  <2>1. sess[s].ingest \ {o} \subseteq Outputs /\ sess[s].running \cup {o} \subseteq Outputs
    BY <1>3
  <2>2. QED
    BY <1>2, <1>a, <2>1 DEF Session
<1>5. Cardinality(sess[s].running \cup {o}) <= Concurrency
  <2>1. IsFiniteSet(sess[s].running) /\ Cardinality(sess[s].running) \in Nat
    BY <1>3, FS_Subset, FS_CardinalityType DEF GaspSyncAssumption
  <2>2. \/ Cardinality(sess[s].running \cup {o}) = Cardinality(sess[s].running)
        \/ Cardinality(sess[s].running \cup {o}) = Cardinality(sess[s].running) + 1
    BY <2>1, FS_AddElement
  <2>3. QED
    BY <1>a, <2>1, <2>2 DEF GaspSyncAssumption
<1>6. LoopInv(s)'
  BY <1>a, <1>4 DEF Sound, LoopInv, Active
<1>7. IngestInv(s)'
  <2>1. landed' = landed
    BY DEF Launch
  <2>2. QED
    BY <1>a, <1>4, <2>1 DEF Sound, IngestInv
<1>8. QED
  BY <1>a, <1>4, <1>5, <1>6, <1>7, PageAtWork DEF Moved, Sound

\* One output is applied, or failed.
LEMMA OneProcessed ==
  ASSUME GaspSyncAssumption, SyncIInv, [SyncNext]_syncVars, StoreTypes', NEW s \in Sessions,
         NEW o \in Outputs, ProcessUTXOToCompletion(s, o)
  PROVE  Moved(s)
<1>a. /\ sess[s] \in Session /\ Sound(s) /\ DOMAIN sess = Sessions
      /\ Cardinality(sess[s].running) <= Concurrency /\ o \in sess[s].running
  BY SessionFields DEF ProcessUTXOToCompletion
<1>b. sess[s].pc = "process"
  BY <1>a DEF Sound, LoopInv
<1>1. PICK f \in BOOLEAN :
        /\ sess'[s] = [sess[s] EXCEPT !.running = @ \ {o}, !.failed = f]
        /\ f \/ (landed' = landed \cup {o} /\ f = sess[s].failed)
  <2>1. CASE landed' = landed \cup {o} /\ sess' = [sess EXCEPT ![s].running = @ \ {o}]
    <3>1. sess'[s] = [sess[s] EXCEPT !.running = @ \ {o}]
      BY <1>a, <2>1
    <3>2. sess'[s] = [sess[s] EXCEPT !.running = @ \ {o}, !.failed = sess[s].failed]
      BY <1>a, <3>1 DEF Session
    <3>3. sess[s].failed \in BOOLEAN
      BY <1>a DEF Session
    <3>4. QED
      BY <2>1, <3>2, <3>3
  <2>2. CASE sess' = [sess EXCEPT ![s].running = @ \ {o}, ![s].failed = TRUE]
    <3>1. sess'[s] = [sess[s] EXCEPT !.running = @ \ {o}, !.failed = TRUE]
      BY <1>a, <2>2
    <3>2. QED
      BY <3>1
  <2>3. QED
    BY <2>1, <2>2 DEF ProcessUTXOToCompletion
<1>2. sess[s].running \ {o} \subseteq Outputs
  BY <1>a DEF Session
<1>3. /\ sess'[s].pc = "process" /\ sess'[s].peer = sess[s].peer
      /\ sess'[s].prev = sess[s].prev /\ sess'[s].last = sess[s].last
      /\ sess'[s].page = sess[s].page /\ sess'[s].ingest = sess[s].ingest
      /\ sess'[s].running = sess[s].running \ {o}
      /\ sess'[s].failed = f /\ sess'[s] \in Session
  BY <1>1, <1>2, <1>a, <1>b DEF Session
<1>4. Cardinality(sess[s].running \ {o}) <= Concurrency
  <2>1. IsFiniteSet(sess[s].running)
    BY <1>a, FS_Subset DEF GaspSyncAssumption, Session
  <2>2. /\ Cardinality(sess[s].running) \in Nat /\ Cardinality(sess[s].running \ {o}) \in Nat
        /\ Cardinality(sess[s].running \ {o}) <= Cardinality(sess[s].running)
    BY <2>1, FS_Subset, FS_CardinalityType
  <2>3. QED
    BY <1>a, <2>2 DEF GaspSyncAssumption
<1>5. LoopInv(s)'
  BY <1>a, <1>b, <1>3 DEF Sound, LoopInv, Active
<1>6. IngestInv(s)'
  <2>1. CASE f
    BY <1>3, <2>1 DEF IngestInv
  <2>2. CASE ~f
    BY <1>1, <1>3, <1>a, <1>b, <2>2 DEF Sound, IngestInv
  <2>3. QED
    BY <2>1, <2>2
<1>7. QED
  BY <1>b, <1>3, <1>4, <1>5, <1>6, PageAtWork DEF Moved, Sound

\* The page is done, or one of its outputs failed.
LEMMA PageDone ==
  ASSUME GaspSyncAssumption, SyncIInv, [SyncNext]_syncVars, StoreTypes', NEW s \in Sessions, Wait(s)
  PROVE  Moved(s)
<1>a. /\ sess[s] \in Session /\ Sound(s) /\ DOMAIN sess = Sessions /\ sess[s].pc = "process"
      /\ Cardinality(sess[s].running) <= Concurrency
      /\ sess[s].ingest = {} /\ sess[s].running = {}
  BY SessionFields DEF Wait
<1>1. CASE sess[s].failed
  BY <1>1, LeaveMoves DEF Wait
<1>2. CASE ~sess[s].failed
  <2>1. sess'[s] = [sess[s] EXCEPT !.pc = "persist"] /\ landed' = landed
    BY <1>2, <1>a DEF Wait
  <2>2. /\ sess'[s].pc = "persist" /\ sess'[s].peer = sess[s].peer
        /\ sess'[s].prev = sess[s].prev /\ sess'[s].last = sess[s].last
        /\ sess'[s].page = sess[s].page /\ sess'[s].ingest = {} /\ sess'[s].running = {}
        /\ sess'[s].failed = sess[s].failed /\ sess'[s] \in Session
    BY <2>1, <1>a DEF Session, Active
  <2>3. LoopInv(s)' /\ IngestInv(s)'
    BY <1>2, <1>a, <2>1, <2>2 DEF Sound, LoopInv, IngestInv, Active
  <2>4. QED
    BY <1>a, <2>2, <2>3, PageAtWork DEF Moved, Sound
<1>3. QED
  BY <1>1, <1>2

\* Once a page is done, everything behind its highest score is applied, late or tied: what
\* the page left out at that score shares it with an output of the page.
LEMMA PersistBehind ==
  ASSUME GaspSyncAssumption, SyncIInv, NEW s \in Sessions, sess[s].pc = "persist"
  PROVE  sess[s].peer \in Peers /\ sess[s].last \in Score /\ Behind(sess[s].peer, sess[s].last)
<1> DEFINE p == sess[s].peer
           n == sess[s].last
<1>a. sess[s] \in Session /\ Sound(s)
  BY SessionFields
<1>b. p \in Peers /\ n \in Nat /\ sess[s].prev \in Nat /\ sess[s].last \in Score
  BY <1>a DEF Sound, LoopInv, Active, Session, Score, GaspSyncAssumption
<1>c. \A o \in Outputs : score[p][o] \in Nat
  BY <1>b DEF SyncIInv, StoreTypes, Score, GaspSyncAssumption
<1>1. SUFFICES ASSUME NEW o \in Outputs \ landed,
                      0 < score[p][o], score[p][o] <= n, o \notin spent[p], <<p, o>> \notin late
               PROVE  Tied(p, o)
  BY <1>b DEF Behind
<1>2. CASE score[p][o] <= sess[s].prev
  BY <1>1, <1>2, <1>a DEF Sound, BehindInv, Behind, Active
<1>3. CASE ~(score[p][o] <= sess[s].prev)
  <2>1. sess[s].prev < score[p][o]
    BY <1>3, <1>b, <1>c
  <2>2. sess[s].page # {}
    BY <1>1, <1>3, <1>a DEF Sound, TopInv
  <2>3. PICK top \in sess[s].page : n = score[p][top]
    BY <1>a, <2>2 DEF Sound, TopInv
  <2>4. top \in landed /\ <<p, top>> \in shown /\ top # o /\ o \notin sess[s].page
    BY <1>a, <1>1 DEF Sound, TopInv, IngestInv
  <2>5. score[p][top] <= score[p][o]
    BY <1>1, <1>a, <2>1, <2>4 DEF Sound, PageInv
  <2>6. score[p][top] = score[p][o]
    BY <1>1, <1>b, <1>c, <2>3, <2>5
  <2>7. QED
    BY <2>4, <2>6 DEF Tied
<1>4. QED
  BY <1>2, <1>3

\* The cursor is recorded, or not, and the next page is asked for; or the loop ends.
LEMMA CursorStored ==
  ASSUME GaspSyncAssumption, SyncIInv, NEW s \in Sessions, UpdateLastInteraction(s)
  PROVE  Moved(s)
<1>a. /\ sess[s] \in Session /\ Sound(s) /\ DOMAIN sess = Sessions /\ sess[s].pc = "persist"
      /\ Cardinality(sess[s].running) <= Concurrency
  BY SessionFields DEF UpdateLastInteraction
<1>1. CASE Leave(s)
  BY <1>1, LeaveMoves
<1>2. CASE ~Leave(s)
  <2>1. PICK p \in Peers, n \in Score :
          p = sess[s].peer /\ n = sess[s].last /\ Behind(p, n)
    BY <1>a, PersistBehind
  <2>2. sess'[s] = [sess[s] EXCEPT !.pc = "request", !.prev = n, !.page = {}]
    BY <1>2, <1>a, <2>1 DEF UpdateLastInteraction
  <2>3. /\ sess'[s].pc = "request" /\ sess'[s].peer = p /\ sess'[s].prev = n
        /\ sess'[s].last = n /\ sess'[s].page = {} /\ sess'[s].ingest = sess[s].ingest
        /\ sess'[s].running = sess[s].running /\ sess'[s].failed = sess[s].failed
        /\ sess'[s] \in Session
    BY <1>a, <2>1, <2>2 DEF Session, Active
  <2>4. UNCHANGED <<score, spent, late, landed, shown>>
    BY DEF UpdateLastInteraction, peerVars
  <2>5. Behind(p, n)'
    BY <2>1, <2>4 DEF Behind, Tied
  <2>6. BehindInv(s)'
    BY <2>3, <2>5 DEF BehindInv, Behind
  <2>7. LoopInv(s)' /\ PageInv(s)' /\ TopInv(s)' /\ IngestInv(s)'
    <3>1. n <= n
      BY DEF Score, GaspSyncAssumption
    <3>2. QED
      BY <1>a, <2>3, <3>1 DEF Sound, LoopInv, PageInv, TopInv, IngestInv, Active
  <2>8. QED
    BY <1>a, <2>3, <2>6, <2>7 DEF Moved, Sound
<1>3. QED
  BY <1>1, <1>2

-----------------------------------------------------------------------------
(* The whole system *)

\* The stored values keep their types.
LEMMA StoreTypesStay ==
  ASSUME GaspSyncAssumption, SyncIInv, [SyncNext]_syncVars
  PROVE  StoreTypes'
<1>a. StoreTypes /\ DrawnInv /\ 0 \in Score /\ MaxClock \in Nat
  BY DEF SyncIInv, GaspSyncAssumption, Score
<1>1. CASE \E s \in Sessions : StartGASPSync(s) \/ SessionStep(s)
  <2>1. PICK s \in Sessions : StartGASPSync(s) \/ SessionStep(s)
    BY <1>1
  <2>2. CASE HasOutputs(s)
    <3>1. /\ UNCHANGED <<clock, drawn, score, spent, late, landed, fetched, cursor>>
          /\ shown' = shown \/ shown' = shown \cup ({sess[s].peer} \X sess[s].page)
      BY <2>2 DEF HasOutputs, peerVars
    <3>2. sess[s].peer \in Peers /\ sess[s].page \subseteq Outputs
      BY <2>2, SessionFields DEF HasOutputs, Sound, LoopInv, Active, Session
    <3>3. QED
      BY <1>a, <3>1, <3>2 DEF StoreTypes
  <2>3. CASE UpdateLastInteraction(s)
    <3>1. /\ UNCHANGED <<clock, drawn, score, spent, late, landed, fetched, shown>>
          /\ cursor' = cursor \/ cursor' = [cursor EXCEPT ![sess[s].peer] = sess[s].last]
      BY <2>3 DEF UpdateLastInteraction, peerVars
    <3>2. sess[s].last \in Score
      BY SessionFields DEF Session
    <3>3. QED
      BY <1>a, <3>1, <3>2 DEF StoreTypes
  <2>4. ASSUME NEW o \in Outputs, ProcessUTXOToCompletion(s, o) PROVE StoreTypes'
    <3>1. UNCHANGED <<clock, drawn, score, spent, late, cursor, shown>>
      BY <2>4 DEF ProcessUTXOToCompletion, peerVars
    <3>2. fetched' \subseteq landed' /\ landed' \subseteq Outputs
      BY <1>a, <2>4 DEF ProcessUTXOToCompletion, StoreTypes
    <3>3. QED
      BY <1>a, <3>1, <3>2 DEF StoreTypes
  <2>5. CASE StartGASPSync(s) \/ GetLastInteraction(s) \/ GetInitialResponse(s) \/ Launch(s)
             \/ Wait(s) \/ Return(s)
    <3>1. UNCHANGED <<clock, drawn, score, spent, late, landed, fetched, cursor, shown>>
      BY <2>5 DEF StartGASPSync, GetLastInteraction, GetInitialResponse, Launch, Wait, Return,
                  peerVars
    <3>2. QED
      BY <1>a, <3>1 DEF StoreTypes
  <2>6. QED
    BY <2>1, <2>2, <2>3, <2>4, <2>5 DEF SessionStep
<1>2. CASE UNCHANGED syncVars
  BY <1>2, <1>a DEF syncVars, StoreTypes
<1>3. CASE Crash
  BY <1>3, <1>a DEF Crash, peerVars, StoreTypes
<1>4. ASSUME NEW o \in Outputs, SubmitOutput(o) \/ ForgetOutput(o) PROVE StoreTypes'
  <2>1. UNCHANGED <<clock, drawn, score, spent, late, cursor, shown>>
    BY <1>4 DEF SubmitOutput, ForgetOutput, peerVars
  <2>2. fetched' \subseteq landed' /\ landed' \subseteq Outputs
    BY <1>4, <1>a DEF SubmitOutput, ForgetOutput, StoreTypes
  <2>3. QED
    BY <1>a, <2>1, <2>2 DEF StoreTypes
<1>5. CASE Tick
  BY <1>5, <1>a DEF Tick, StoreTypes
<1>6. ASSUME NEW p \in Peers, NEW t \in PeerTxs, prepareAdmittedOutputs(p, t) PROVE StoreTypes'
  <2>1. clock \in Score
    BY <1>a DEF StoreTypes, Score
  <2>2. drawn' \in [Peers -> [PeerTxs -> Score]]
    BY <1>6, <1>a, <2>1 DEF prepareAdmittedOutputs, StoreTypes
  <2>3. QED
    BY <1>6, <1>a, <2>2 DEF prepareAdmittedOutputs, StoreTypes
<1>7. ASSUME NEW p \in Peers, NEW t \in PeerTxs, insertPreparedOutputs(p, t) PROVE StoreTypes'
  BY <1>7, <1>a, InsertGrows
<1>8. ASSUME NEW p \in Peers, NEW o \in Outputs, PeerMarksSpent(p, o) PROVE StoreTypes'
  BY <1>8, <1>a DEF PeerMarksSpent, StoreTypes
<1>9. QED
  BY <1>1, <1>2, <1>3, <1>4, <1>5, <1>6, <1>7, <1>8 DEF SyncNext

\* A step moves one session, ends all of them or leaves them alone.
LEMMA OneSessionMoves ==
  ASSUME SessionTypes, [SyncNext]_syncVars
  PROVE  \/ \E s \in Sessions :
              /\ StartGASPSync(s) \/ SessionStep(s)
              /\ DOMAIN sess' = Sessions
              /\ \A t \in Sessions \ {s} : sess'[t] = sess[t]
         \/ sess' = sess
         \/ sess' = [s \in Sessions |-> Idle]
<1>a. DOMAIN sess = Sessions
  BY DEF SessionTypes
<1>1. ASSUME NEW s \in Sessions, StartGASPSync(s) \/ SessionStep(s)
      PROVE  DOMAIN sess' = Sessions /\ \A t \in Sessions \ {s} : sess'[t] = sess[t]
  BY <1>1, <1>a DEF SessionStep, StartGASPSync, GetLastInteraction, GetInitialResponse, HasOutputs,
                    Launch, ProcessUTXOToCompletion, Wait, UpdateLastInteraction, Return, Leave
<1>2. CASE UNCHANGED syncVars
  BY <1>2 DEF syncVars
<1>3. QED
  BY <1>1, <1>2 DEF SyncNext, Tick, prepareAdmittedOutputs, insertPreparedOutputs, PeerMarksSpent,
                    SubmitOutput, ForgetOutput, Crash

\* Every session stays sound.
LEMMA SessionsStay ==
  ASSUME GaspSyncAssumption, SyncIInv, [SyncNext]_syncVars
  PROVE  SessionTypes' /\ SessionInv'
<1>a. StoreTypes' /\ SessionTypes
  BY StoreTypesStay DEF SyncIInv
<1>1. ASSUME NEW s \in Sessions, StartGASPSync(s) \/ SessionStep(s) PROVE Moved(s)
  <2>1. CASE \E o \in Outputs : ProcessUTXOToCompletion(s, o)
    BY <1>a, <2>1, OneProcessed
  <2>2. CASE StartGASPSync(s) \/ Return(s)
    BY <2>2, StartReturn
  <2>3. CASE GetLastInteraction(s)
    BY <2>3, CursorLoaded
  <2>4. CASE GetInitialResponse(s)
    BY <1>a, <2>4, PageArrives
  <2>5. CASE HasOutputs(s)
    BY <1>a, <2>5, PageTaken
  <2>6. CASE Launch(s)
    BY <1>a, <2>6, Launched
  <2>7. CASE Wait(s)
    BY <1>a, <2>7, PageDone
  <2>8. CASE UpdateLastInteraction(s)
    BY <2>8, CursorStored
  <2>9. QED
    BY <1>1, <2>1, <2>2, <2>3, <2>4, <2>5, <2>6, <2>7, <2>8 DEF SessionStep
<1>2. ASSUME NEW s \in Sessions, sess'[s] = sess[s] PROVE Moved(s)
  BY <1>2, <1>a, OthersSound, SessionFields DEF Moved
<1>3. ASSUME NEW s \in Sessions, sess'[s] = Idle PROVE Moved(s)
  BY <1>3, AwayMoves DEF Idle
<1>4. DOMAIN sess' = Sessions /\ \A s \in Sessions : Moved(s)
  <2>1. CASE \E s \in Sessions :
              /\ StartGASPSync(s) \/ SessionStep(s)
              /\ DOMAIN sess' = Sessions
              /\ \A t \in Sessions \ {s} : sess'[t] = sess[t]
    BY <1>1, <1>2, <2>1
  <2>2. CASE sess' = sess
    BY <1>2, <1>a, <2>2 DEF SessionTypes
  <2>3. CASE sess' = [s \in Sessions |-> Idle]
    BY <1>3, <2>3
  <2>4. QED
    BY <1>a, <2>1, <2>2, <2>3, OneSessionMoves
<1>5. sess' \in [Sessions -> Session]
  <2>1. sess' = [s \in Sessions |-> sess'[s]]
    <3>1. CASE \E s \in Sessions : StartGASPSync(s) \/ SessionStep(s)
      BY <1>a, <3>1 DEF SessionTypes, SessionStep, StartGASPSync, GetLastInteraction,
           GetInitialResponse, HasOutputs, Launch, ProcessUTXOToCompletion, Wait,
           UpdateLastInteraction, Return, Leave
    <3>2. CASE sess' = sess \/ sess' = [s \in Sessions |-> Idle]
      BY <1>a, <3>2 DEF SessionTypes
    <3>3. QED
      BY <1>a, <3>1, <3>2, OneSessionMoves
  <2>2. \A s \in Sessions : sess'[s] \in Session
    BY <1>4 DEF Moved
  <2>3. QED
    BY <2>1, <2>2
<1>6. QED
  BY <1>4, <1>5 DEF Moved, SessionTypes, SessionInv

\* A cursor is only ever stored at a score with nothing unexplained behind it.
LEMMA LossStays ==
  ASSUME GaspSyncAssumption, SyncIInv, [SyncNext]_syncVars
  PROVE  LossIsLateOrTied'
<1>a. StoreTypes /\ StoreTypes' /\ Grows
  BY StoreTypesStay, StepGrows DEF SyncIInv
<1>1. SUFFICES ASSUME NEW p \in Peers, NEW n \in Score, n = cursor'[p] PROVE Behind(p, n)'
  <2>1. \A p \in Peers : cursor'[p] \in Score
    BY <1>a DEF StoreTypes
  <2>2. QED
    BY <1>1, <2>1 DEF LossIsLateOrTied, Behind
<1>2. CASE cursor'[p] = cursor[p]
  <2>1. Behind(p, n)
    BY <1>1, <1>2 DEF SyncIInv, LossIsLateOrTied, Behind
  <2>2. \A m \in Score : m <= n => Reached(p, m)
    BY <1>1, <1>2 DEF Reached
  <2>3. QED
    BY <1>a, <2>1, <2>2, BehindStays DEF StoreTypes
<1>3. CASE cursor'[p] # cursor[p]
  <2>1. PICK s \in Sessions :
          UpdateLastInteraction(s) /\ cursor' = [cursor EXCEPT ![sess[s].peer] = sess[s].last]
    BY <1>3 DEF SyncNext, syncVars, SessionStep, StartGASPSync, GetLastInteraction, GetInitialResponse,
         HasOutputs, Launch, ProcessUTXOToCompletion, Wait, UpdateLastInteraction, Return, Tick,
         prepareAdmittedOutputs, insertPreparedOutputs, PeerMarksSpent, SubmitOutput,
         ForgetOutput, Crash
  <2>2. sess[s].peer = p /\ sess[s].last = n
    BY <1>1, <1>3, <1>a, <2>1 DEF StoreTypes
  <2>3. Behind(p, n)
    BY <2>1, <2>2, PersistBehind DEF UpdateLastInteraction
  <2>4. UNCHANGED <<score, spent, late, landed, shown>>
    BY <2>1 DEF UpdateLastInteraction, peerVars
  <2>5. QED
    BY <2>3, <2>4 DEF Behind, Tied
<1>4. QED
  BY <1>2, <1>3

-----------------------------------------------------------------------------
(* The theorems *)

\* Nothing is visible, applied or running at first.
LEMMA SyncInitIInv == ASSUME GaspSyncAssumption, SyncInit PROVE SyncIInv
<1> USE DEF SyncInit
<1>a. 0 \in Score /\ Concurrency \in Nat /\ MaxClock \in Nat
  BY DEF GaspSyncAssumption, Score
<1>1. StoreTypes
  BY <1>a DEF StoreTypes
<1>2. SessionTypes
  <2>1. Idle \in Session
    BY <1>a DEF Idle, Away, Session
  <2>2. Idle.running = {}
    BY DEF Idle, Away
  <2>3. Cardinality({}) <= Concurrency
    BY <1>a, FS_EmptySet
  <2>4. QED
    BY <2>1, <2>2, <2>3 DEF SessionTypes
<1>3. DrawnInv /\ LossIsLateOrTied
  BY DEF DrawnInv, LossIsLateOrTied
<1>4. SessionInv
  <2>1. /\ Idle.pc = "idle" /\ Idle.page = {} /\ Idle.ingest = {} /\ Idle.running = {}
        /\ Idle.failed = FALSE /\ Idle.prev = 0 /\ Idle.last = 0
    BY DEF Idle, Away
  <2>2. QED
    BY <2>1 DEF SessionInv, Sound, LoopInv, PageInv, TopInv, IngestInv, BehindInv, Active
<1>5. QED
  BY <1>1, <1>2, <1>3, <1>4 DEF SyncIInv

\* Every step of the peers, the sessions and the engine keeps the invariant.
LEMMA SyncStepKeepsIInv == ASSUME GaspSyncAssumption, SyncIInv, [SyncNext]_syncVars PROVE SyncIInv'
BY StoreTypesStay, StepGrows, SessionsStay, LossStays DEF SyncIInv

\* The invariant gives what the run checks.
LEMMA SyncIInvExplains == ASSUME GaspSyncAssumption, SyncIInv PROVE LossIsExplained
<1>1. ASSUME NEW s \in Sessions
      PROVE  /\ sess[s].pc \in {"idle", "pick", "request", "check", "process", "persist"}
             /\ sess[s].peer \in Peers \cup {Self}
             /\ sess[s].todo \subseteq Peers
             /\ Cardinality(sess[s].running) <= Concurrency
             /\ sess[s].prev <= sess[s].last
  BY SessionFields DEF Session, Active, Sound, LoopInv
<1>2. SyncTypeOK
  BY <1>1 DEF SyncIInv, StoreTypes, Score, SyncTypeOK
<1>3. QED
  BY <1>2 DEF SyncIInv, LossIsExplained

\* Whichever nodes fail, sessions overlap or process stops: what lies behind the stored
\* cursor of a peer, unspent and never applied, was committed late or shares its score with
\* an output that was listed and applied (gasp.go, Sync; engine.go, syncWithPeer).  There
\* is no third way to lose an output, for any page size and any number of sessions.
THEOREM NoOtherLoss == GaspSyncAssumption /\ SyncSpec => []LossIsExplained
<1> SUFFICES ASSUME GaspSyncAssumption PROVE SyncSpec => []LossIsExplained
  OBVIOUS
<1>1. SyncInit => SyncIInv
  BY SyncInitIInv
<1>2. SyncIInv /\ [SyncNext]_syncVars => SyncIInv'
  BY SyncStepKeepsIInv
<1>3. SyncIInv => LossIsExplained
  BY SyncIInvExplains
<1>4. QED
  BY <1>1, <1>2, <1>3, PTL DEF SyncSpec

-----------------------------------------------------------------------------
(* GaspGraph: the inductive invariant *)

Fields == {"st", "root", "stack", "seen", "node", "plan", "todo", "tx", "trouble",
           "cut"}
FrameSet == [op: Outpoints, spentBy: Outpoints \cup {None}, graph: Outpoints,
             need: SUBSET Outpoints]
Node == [graph: Outpoints, op: Outpoints]
Out == {"idle", "wait"}
Carrying == {"node", "append"}
Submitting == {"submit", "submitting", "subwait"}
NodeSets == {g \in SUBSET Outpoints : IsFiniteSet(g)}

\* The tables, the graphs and the engine.
TablesInv ==
  /\ queue \in Seq(Roots) /\ Len(queue) <= QueueCap /\ closed \in {"open", "closing", "closed"}
  /\ calls \in Nat /\ calls <= MaxCalls /\ limit \in Limits
  /\ processing \in [Outpoints -> Slots \cup {None}]
  /\ inflight \in [Outpoints -> Slots \cup {None}]
  /\ submission \in [Txs -> Slots \cup {None}]
  /\ graphs \in [Outpoints -> NodeSets \cup {None}]
  /\ held \subseteq Outpoints /\ applied \subseteq Txs

\* The variables of the traversal in slot w.
FieldsInv(w) ==
  /\ DOMAIN tr[w] = Fields
  /\ tr[w].st \in States /\ tr[w].root \in Outpoints \cup {None}
  /\ tr[w].stack \in Seq(FrameSet) /\ tr[w].seen \subseteq Outpoints
  /\ tr[w].plan \subseteq Txs /\ tr[w].todo \subseteq Txs
  /\ tr[w].st \in Carrying => tr[w].node \in Node
  /\ tr[w].st \in {"submitting", "subwait"} => tr[w].tx \in Txs

\* A traversal that is under way owns its root.
OwnerInv(w) ==
  tr[w].st \notin Out =>
    /\ tr[w].root \in Outpoints /\ processing[tr[w].root] = w
    /\ tr[w].stack # << >>

\* From CompleteGraph on the root is in its graph, in the plan, and what is no longer
\* to be submitted is applied.
PlanInv(w) ==
  /\ tr[w].st = "finalize" =>
        graphs[tr[w].root] # None /\ tr[w].root \in graphs[tr[w].root]
  /\ tr[w].st \in Submitting =>
        TxOf[tr[w].root] \in tr[w].plan /\ tr[w].plan \subseteq tr[w].todo \cup applied

TraversalInv(w) == FieldsInv(w) /\ OwnerInv(w) /\ PlanInv(w)

\* The slots that have passed the check of graph g and will add a node to it.
Pending(g) ==
  {w \in Slots : tr[w].st = "append" /\ tr[w].node.graph = g /\ ~tr[w].cut}

\* Every slot but the last to pass the check saw fewer nodes than the limit.
LimitInv(g) ==
  /\ Pending(g) # {} => graphs[g] # None
  /\ graphs[g] # None /\ limit # None =>
        Cardinality(graphs[g]) + Cardinality(Pending(g)) < limit + Cardinality(Slots)

LimitsInv == \A g \in Outpoints : LimitInv(g)

\* A traversal all of whose frames and nodes are about the graph of its root, which
\* nobody else fills.
OwnInv(w) ==
  tr[w].st \notin Out =>
    /\ tr[w].st # "sharing"
    /\ \A k \in 1 .. Len(tr[w].stack) : tr[w].stack[k].graph = tr[w].root
    /\ tr[w].st \in Carrying => tr[w].node.graph = tr[w].root
    /\ tr[w].st = "append" /\ graphs[tr[w].root] # None /\ limit # None =>
          Cardinality(graphs[tr[w].root]) < limit

\* As long as no request was shared, every traversal is such a one.
UnsharedInv ==
  shared = {} =>
    OwnGraphOnly /\ GraphsDiscarded /\ GraphsWithinLimit /\ \A w \in Slots : OwnInv(w)

IInv ==
  /\ TablesInv /\ DOMAIN tr = Slots /\ \A w \in Slots : TraversalInv(w)
  /\ LimitsInv /\ CompletedIsApplied /\ UnsharedInv

-----------------------------------------------------------------------------
(* Facts that several steps use *)

Traversals == DOMAIN tr = Slots /\ \A w \in Slots : TraversalInv(w)

\* The frame on top of the stack of a traversal that is under way.
LEMMA TopIsFrame ==
  ASSUME NEW w \in Slots, TraversalInv(w), tr[w].st \notin Out
  PROVE  Top(w) \in FrameSet /\ Len(tr[w].stack) \in Nat \ {0}
<1>1. tr[w].stack \in Seq(FrameSet) /\ tr[w].stack # << >>
  BY DEF TraversalInv, FieldsInv, OwnerInv
<1>2. Len(tr[w].stack) \in 1 .. Len(tr[w].stack)
  <2>. PICK s \in Seq(FrameSet) : s = tr[w].stack BY <1>1
  <2>1. s # << >> BY <1>1
  <2>. QED BY <2>1, SMT
<1>. QED BY <1>1, <1>2, ElementOfSeq DEF Top

\* A traversal that does not move.
LEMMA Calm ==
  ASSUME NEW v \in Slots, TraversalInv(v), tr'[v] = tr[v], applied \subseteq applied',
         tr[v].st \notin Out => processing'[tr[v].root] = processing[tr[v].root],
         tr[v].st = "finalize" =>
            graphs'[tr[v].root] # None /\ tr[v].root \in graphs'[tr[v].root]
  PROVE  TraversalInv(v)'
<1>1. FieldsInv(v)' BY DEF TraversalInv, FieldsInv
<1>2. OwnerInv(v)' BY DEF TraversalInv, OwnerInv
<1>3. PlanInv(v)' BY DEF TraversalInv, PlanInv
<1>. QED BY <1>1, <1>2, <1>3 DEF TraversalInv

\* One that changes its state and, at most, the node at hand.
LEMMA Stirred ==
  ASSUME NEW v \in Slots, TraversalInv(v), tr[v].st \notin Out, NEW s \in States,
         DOMAIN tr'[v] = Fields, tr'[v].st = s, tr'[v].root = tr[v].root,
         tr'[v].stack \in Seq(FrameSet), tr'[v].stack # << >>,
         tr'[v].seen \subseteq Outpoints, tr'[v].plan = tr[v].plan, tr'[v].todo = tr[v].todo,
         s \in Carrying => tr'[v].node \in Node, s \notin Submitting \cup {"finalize"},
         processing'[tr[v].root] = processing[tr[v].root]
  PROVE  TraversalInv(v)'
<1>1. FieldsInv(v)' BY DEF TraversalInv, FieldsInv, Submitting, Carrying
<1>2. OwnerInv(v)' BY DEF TraversalInv, OwnerInv
<1>3. PlanInv(v)' BY DEF TraversalInv, PlanInv
<1>. QED BY <1>1, <1>2, <1>3 DEF TraversalInv

\* A slot without a traversal.
LEMMA FreeSlot ==
  ASSUME NEW v \in Slots, tr'[v] = Free
  PROVE  TraversalInv(v)'
<1>1. FieldsInv(v)' BY DEF FieldsInv, Free, Fields, States, Carrying
<1>2. OwnerInv(v)' BY DEF OwnerInv, Free, Out
<1>3. PlanInv(v)' BY DEF PlanInv, Free, Submitting
<1>. QED BY <1>1, <1>2, <1>3 DEF TraversalInv

\* The call in slot w returns.
LEMMA FinishStep ==
  ASSUME GaspGraphAssumption, TablesInv, Traversals, NEW w \in Slots, NEW ok,
         tr[w].st \notin Out, Finish(w, ok), UNCHANGED applied
  PROVE  Traversals'
<1>. DEFINE r == tr[w].root
<1>1. r \in Outpoints /\ processing[r] = w
  BY DEF Traversals, TraversalInv, OwnerInv
<1>2. DOMAIN tr' = Slots BY DEF Finish
<1>3. ASSUME NEW v \in Slots PROVE TraversalInv(v)'
  <2>1. CASE v = w \/ (tr[v].st = "wait" /\ tr[v].root = r)
    BY <2>1, FreeSlot DEF Finish
  <2>2. CASE ~(v = w \/ (tr[v].st = "wait" /\ tr[v].root = r))
    <3>1. TraversalInv(v) BY DEF Traversals
    <3>2. tr[v].st \notin Out => tr[v].root \in Outpoints /\ tr[v].root # r
      BY <1>1, <2>2, <3>1 DEF TraversalInv, OwnerInv
    <3>3. tr[v].st \notin Out => processing'[tr[v].root] = processing[tr[v].root]
                                /\ graphs'[tr[v].root] = graphs[tr[v].root]
      BY <3>2 DEF Finish, TablesInv
    <3>4. tr[v].st \in {"finalize", "append"} => tr[v].st \notin Out BY DEF Out
    <3>5. CASE ~(tr[v].st = "append" /\ tr[v].node.graph = r)
      <4>1. tr'[v] = tr[v] BY <2>2, <3>5 DEF Finish
      <4>. QED BY <3>1, <3>3, <3>4, <4>1, Calm DEF TraversalInv, PlanInv
    <3>6. CASE tr[v].st = "append" /\ tr[v].node.graph = r
      <4>1. tr'[v] = [tr[v] EXCEPT !.cut = TRUE] BY <2>2, <3>6 DEF Finish
      <4>2. DOMAIN tr[v] = Fields BY <3>1 DEF TraversalInv, FieldsInv
      <4>3. /\ DOMAIN tr'[v] = Fields /\ tr'[v].st = "append" /\ tr'[v].root = tr[v].root
            /\ tr'[v].stack = tr[v].stack /\ tr'[v].seen = tr[v].seen
            /\ tr'[v].plan = tr[v].plan /\ tr'[v].todo = tr[v].todo
            /\ tr'[v].node = tr[v].node
        BY <3>6, <4>1, <4>2 DEF Fields
      <4>4. /\ "append" \in States /\ "append" \in Carrying
            /\ "append" \notin Submitting \cup {"finalize"}
        BY DEF States, Submitting, Carrying
      <4>5. /\ tr[v].stack \in Seq(FrameSet) /\ tr[v].stack # << >>
            /\ tr[v].seen \subseteq Outpoints /\ tr[v].node \in Node
        BY <3>1, <3>4, <3>6, <4>4 DEF TraversalInv, FieldsInv, OwnerInv
      <4>. QED BY <3>1, <3>3, <3>4, <3>6, <4>3, <4>4, <4>5, Stirred
    <3>. QED BY <3>5, <3>6
  <2>. QED BY <2>1, <2>2
<1>. QED BY <1>2, <1>3 DEF Traversals

-----------------------------------------------------------------------------
(* Traversals: starting one and fetching nodes *)

\* ProcessUTXOToCompletion takes the root only when nobody owns it.
LEMMA BeginStep ==
  ASSUME GaspGraphAssumption, TablesInv, Traversals, NEW w \in Slots, NEW o \in Roots,
         Begin(w, o), UNCHANGED <<graphs, applied>>
  PROVE  Traversals'
<1>1. o \in Outpoints /\ tr[w].st = "idle" BY DEF GaspGraphAssumption, Begin
<1>. PICK f : f = Free OBVIOUS
<1>2. /\ DOMAIN f = Fields /\ f.st = "idle" /\ f.root = None /\ f.stack = << >> /\ f.seen = {}
      /\ f.node = None /\ f.plan = {} /\ f.todo = {} /\ f.tx = None
  BY DEF Free, Fields
<1>3. DOMAIN tr' = Slots /\ \A v \in Slots \ {w} : tr'[v] = tr[v]
  BY DEF Begin, Traversals
<1>4. TraversalInv(w)'
  <2>1. CASE processing[o] = None
    <3>1. tr'[w] = [f EXCEPT !.st = "fetch", !.root = o, !.stack = <<Frame(o, None, o)>>]
      BY <2>1 DEF Begin, Traversals
    <3>2. Frame(o, None, o) \in FrameSet BY <1>1 DEF Frame, FrameSet
    <3>3. /\ DOMAIN tr'[w] = Fields /\ tr'[w].st = "fetch" /\ tr'[w].root = o
          /\ tr'[w].stack = <<Frame(o, None, o)>> /\ tr'[w].seen = {}
          /\ tr'[w].plan = {} /\ tr'[w].todo = {}
      BY <1>2, <3>1 DEF Fields
    <3>4. processing'[o] = w BY <1>1, <2>1 DEF Begin, TablesInv
    <3>5. <<Frame(o, None, o)>> \in Seq(FrameSet) /\ <<Frame(o, None, o)>> # << >>
      BY <3>2
    <3>6. FieldsInv(w)' BY <1>1, <3>3, <3>5 DEF FieldsInv, States, Carrying
    <3>7. OwnerInv(w)' BY <1>1, <3>3, <3>4, <3>5 DEF OwnerInv
    <3>8. PlanInv(w)' BY <3>3 DEF PlanInv, Submitting
    <3>. QED BY <3>6, <3>7, <3>8 DEF TraversalInv
  <2>2. CASE processing[o] # None
    <3>1. tr'[w] = [f EXCEPT !.st = "wait", !.root = o] BY <2>2 DEF Begin, Traversals
    <3>2. /\ DOMAIN tr'[w] = Fields /\ tr'[w].st = "wait" /\ tr'[w].root = o
          /\ tr'[w].stack = << >> /\ tr'[w].seen = {} /\ tr'[w].plan = {} /\ tr'[w].todo = {}
      BY <1>2, <3>1 DEF Fields
    <3>3. FieldsInv(w)' BY <1>1, <3>2 DEF FieldsInv, States, Carrying
    <3>4. OwnerInv(w)' BY <3>2 DEF OwnerInv, Out
    <3>5. PlanInv(w)' BY <3>2 DEF PlanInv, Submitting
    <3>. QED BY <3>3, <3>4, <3>5 DEF TraversalInv
  <2>. QED BY <2>1, <2>2
<1>5. ASSUME NEW v \in Slots \ {w} PROVE TraversalInv(v)'
  <2>1. tr'[v] = tr[v] /\ TraversalInv(v) BY <1>3 DEF Traversals
  <2>2. tr[v].st \notin Out => processing'[tr[v].root] = processing[tr[v].root]
    <3>. SUFFICES ASSUME tr[v].st \notin Out
                  PROVE  processing'[tr[v].root] = processing[tr[v].root]
      OBVIOUS
    <3>1. tr[v].root \in Outpoints /\ processing[tr[v].root] # None
      BY <2>1 DEF TraversalInv, OwnerInv, GaspGraphAssumption
    <3>. QED BY <1>1, <3>1 DEF Begin, TablesInv
  <2>. QED BY <2>1, <2>2, Calm DEF TraversalInv, PlanInv
<1>. QED BY <1>3, <1>4, <1>5 DEF Traversals

\* A step that leaves the roots, the graphs and the engine alone keeps the others.
LEMMA OthersCalm ==
  ASSUME Traversals, NEW v \in Slots, tr'[v] = tr[v], UNCHANGED <<processing, graphs, applied>>
  PROVE  TraversalInv(v)'
BY Calm DEF Traversals, TraversalInv, PlanInv

\* RequestNode: the state only.
LEMMA RequestNodeStep ==
  ASSUME Traversals, NEW w \in Slots, RequestNode(w)
  PROVE  Traversals'
<1>1. TraversalInv(w) /\ tr[w].st \notin Out /\ DOMAIN tr[w] = Fields
  BY DEF Traversals, RequestNode, TraversalInv, FieldsInv, Out
<1>2. PICK s \in {"fetching", "sharing"} : tr' = [tr EXCEPT ![w].st = s]
  BY DEF RequestNode
<1>3. DOMAIN tr' = Slots /\ \A v \in Slots \ {w} : tr'[v] = tr[v]
  BY <1>2 DEF Traversals
<1>4. tr'[w] = [tr[w] EXCEPT !.st = s] BY <1>2 DEF Traversals
<1>5. /\ DOMAIN tr'[w] = Fields /\ tr'[w].st = s /\ tr'[w].root = tr[w].root
      /\ tr'[w].stack = tr[w].stack /\ tr'[w].seen = tr[w].seen
      /\ tr'[w].plan = tr[w].plan /\ tr'[w].todo = tr[w].todo
  BY <1>1, <1>4 DEF Fields
<1>6. TraversalInv(w)'
  <2>1. s \in States /\ s \notin Carrying /\ s \notin Submitting \cup {"finalize"}
    BY DEF States, Submitting, Carrying
  <2>2. /\ tr[w].stack \in Seq(FrameSet) /\ tr[w].stack # << >>
        /\ tr[w].seen \subseteq Outpoints
    BY <1>1 DEF TraversalInv, FieldsInv, OwnerInv
  <2>. QED BY <1>1, <1>5, <2>1, <2>2, Stirred DEF RequestNode
<1>. QED BY <1>3, <1>6, OthersCalm DEF Traversals, RequestNode, history

\* doNodeRequest: every call that waits for the answer gets it.
LEMMA NodeRequestStep ==
  ASSUME GaspGraphAssumption, Traversals, NEW w \in Slots, doNodeRequest(w)
  PROVE  Traversals'
<1>1. TraversalInv(w) /\ tr[w].st \notin Out
  BY DEF Traversals, doNodeRequest, Out
<1>2. Top(w) \in FrameSet BY <1>1, TopIsFrame
<1>. PICK o : o = Top(w).op OBVIOUS
<1>. PICK W \in SUBSET Slots : W = Waiting(w, o) BY DEF Waiting
<1>3. ASSUME NEW v \in W
      PROVE  /\ TraversalInv(v) /\ tr[v].st \notin Out
             /\ DOMAIN tr[v] = Fields /\ tr[v].stack \in Seq(FrameSet)
             /\ tr[v].stack # << >> /\ tr[v].seen \subseteq Outpoints
  <2>1. TraversalInv(v) /\ tr[v].st \notin Out
    BY <1>1 DEF Waiting, Traversals, Out
  <2>. QED BY <2>1 DEF TraversalInv, FieldsInv, OwnerInv
<1>4. CASE \E n \in ProvideForeignGASPNode(Top(w).graph, o) :
             tr' = [v \in Slots |-> IF v \in W
                       THEN [tr[v] EXCEPT !.st = "node", !.node = n] ELSE tr[v]]
  <2>1. PICK n \in ProvideForeignGASPNode(Top(w).graph, o) :
             tr' = [v \in Slots |-> IF v \in W
                       THEN [tr[v] EXCEPT !.st = "node", !.node = n] ELSE tr[v]]
    BY <1>4
  <2>2. n \in Node BY <1>2 DEF ProvideForeignGASPNode, Node, FrameSet
  <2>3. ASSUME NEW v \in W PROVE TraversalInv(v)'
    <3>1. tr'[v] = [tr[v] EXCEPT !.st = "node", !.node = n] BY <2>1
    <3>2. /\ DOMAIN tr'[v] = Fields /\ tr'[v].st = "node" /\ tr'[v].root = tr[v].root
          /\ tr'[v].stack = tr[v].stack /\ tr'[v].seen = tr[v].seen
          /\ tr'[v].plan = tr[v].plan /\ tr'[v].todo = tr[v].todo /\ tr'[v].node = n
      BY <1>3, <3>1 DEF Fields
    <3>3. "node" \in States /\ "node" \notin Submitting \cup {"finalize"}
      BY DEF States, Submitting, Carrying
    <3>. QED BY <1>3, <2>2, <3>2, <3>3, Stirred DEF doNodeRequest
  <2>4. ASSUME NEW v \in Slots \ W PROVE TraversalInv(v)'
    <3>1. tr'[v] = tr[v] BY <2>1
    <3>. QED BY <3>1, OthersCalm DEF doNodeRequest, history
  <2>. QED BY <2>1, <2>3, <2>4 DEF Traversals
<1>5. CASE tr' = [v \in Slots |-> IF v \in W
                     THEN [tr[v] EXCEPT !.st = "error", !.trouble = TRUE] ELSE tr[v]]
  <2>1. ASSUME NEW v \in W PROVE TraversalInv(v)'
    <3>1. tr'[v] = [tr[v] EXCEPT !.st = "error", !.trouble = TRUE] BY <1>5
    <3>2. /\ DOMAIN tr'[v] = Fields /\ tr'[v].st = "error" /\ tr'[v].root = tr[v].root
          /\ tr'[v].stack = tr[v].stack /\ tr'[v].seen = tr[v].seen
          /\ tr'[v].plan = tr[v].plan /\ tr'[v].todo = tr[v].todo
      BY <1>3, <3>1 DEF Fields
    <3>3. /\ "error" \in States /\ "error" \notin Carrying
          /\ "error" \notin Submitting \cup {"finalize"}
      BY DEF States, Submitting, Carrying
    <3>. QED BY <1>3, <3>2, <3>3, Stirred DEF doNodeRequest
  <2>2. ASSUME NEW v \in Slots \ W PROVE TraversalInv(v)'
    <3>1. tr'[v] = tr[v] BY <1>5
    <3>. QED BY <3>1, OthersCalm DEF doNodeRequest, history
  <2>. QED BY <1>5, <2>1, <2>2 DEF Traversals
<1>. QED BY <1>4, <1>5 DEF doNodeRequest

\* What AppendToGraph makes of the traversal and of the graphs, up to its check.
LEMMA AppendFields ==
  ASSUME GaspGraphAssumption, TablesInv, Traversals, NEW w \in Slots, tr[w].st \notin Out,
         NEW n \in Node, n = tr[w].node, AppendToGraph(w, n)
  PROVE  /\ DOMAIN tr' = Slots /\ \A v \in Slots \ {w} : tr'[v] = tr[v]
         /\ DOMAIN tr'[w] = Fields /\ tr'[w].st \in {"error", "append"}
         /\ tr'[w].root = tr[w].root /\ tr'[w].seen = tr[w].seen \cup {n.op}
         /\ tr'[w].plan = tr[w].plan /\ tr'[w].todo = tr[w].todo
         /\ tr'[w].stack = tr[w].stack
         /\ tr'[w].st = "append" => tr'[w].node = n
         /\ \E nodes \in NodeSets :
               /\ nodes = IF graphs[n.graph] = None THEN {} ELSE graphs[n.graph]
               /\ graphs' = [graphs EXCEPT ![n.graph] = nodes]
               /\ tr'[w].st = "append" /\ limit # None => ~(Cardinality(nodes) >= limit)
<1>1. TraversalInv(w) /\ DOMAIN tr[w] = Fields BY DEF Traversals, TraversalInv, FieldsInv
<1>2. n.graph \in Outpoints /\ n.op \in Outpoints BY DEF Node
<1>. PICK nodes : nodes = IF graphs[n.graph] = None THEN {} ELSE graphs[n.graph] OBVIOUS
<1>3. nodes \in NodeSets
  <2>1. {} \in NodeSets BY FS_EmptySet DEF NodeSets
  <2>. QED BY <1>2, <2>1 DEF TablesInv
<1>. PICK full \in BOOLEAN : full = (limit # None /\ Cardinality(nodes) >= limit) OBVIOUS
<1>4. graphs' = [graphs EXCEPT ![n.graph] = nodes] BY DEF AppendToGraph
<1>5. PICK s, nd, trouble :
        /\ s = IF full THEN "error" ELSE "append"
        /\ nd = IF full THEN None ELSE n
        /\ tr' = [tr EXCEPT ![w].seen = @ \cup {n.op}, ![w].node = nd, ![w].st = s,
                            ![w].trouble = trouble]
  BY DEF AppendToGraph
<1>6. DOMAIN tr' = Slots /\ \A v \in Slots \ {w} : tr'[v] = tr[v]
  BY <1>5 DEF Traversals
<1>7. /\ DOMAIN tr'[w] = Fields /\ tr'[w].st = s /\ tr'[w].root = tr[w].root
      /\ tr'[w].stack = tr[w].stack /\ tr'[w].seen = tr[w].seen \cup {n.op}
      /\ tr'[w].plan = tr[w].plan /\ tr'[w].todo = tr[w].todo /\ tr'[w].node = nd
  BY <1>1, <1>5 DEF Traversals, Fields
<1>8. s \in {"error", "append"} /\ (s = "append" => ~full /\ nd = n) BY <1>5
<1>. QED BY <1>3, <1>4, <1>6, <1>7, <1>8

\* No node leaves a graph when one is made.
LEMMA AppendStep ==
  ASSUME GaspGraphAssumption, TablesInv, Traversals, NEW w \in Slots, tr[w].st = "node",
         NEW n \in Node, n = tr[w].node, AppendToGraph(w, n), UNCHANGED <<processing, applied>>
  PROVE  Traversals' /\ graphs' \in [Outpoints -> NodeSets \cup {None}]
<1>1. TraversalInv(w) /\ tr[w].st \notin Out BY DEF Traversals, Out
<1>2. n.graph \in Outpoints /\ n.op \in Outpoints BY DEF Node
<1>3. /\ DOMAIN tr' = Slots /\ \A v \in Slots \ {w} : tr'[v] = tr[v]
      /\ DOMAIN tr'[w] = Fields /\ tr'[w].st \in {"error", "append"}
      /\ tr'[w].root = tr[w].root /\ tr'[w].seen = tr[w].seen \cup {n.op}
      /\ tr'[w].plan = tr[w].plan /\ tr'[w].todo = tr[w].todo
      /\ tr'[w].stack = tr[w].stack /\ (tr'[w].st = "append" => tr'[w].node = n)
  BY <1>1, AppendFields
<1>4. PICK nodes \in NodeSets :
        /\ nodes = IF graphs[n.graph] = None THEN {} ELSE graphs[n.graph]
        /\ graphs' = [graphs EXCEPT ![n.graph] = nodes]
  BY <1>1, AppendFields
<1>5. graphs' \in [Outpoints -> NodeSets \cup {None}] BY <1>4 DEF TablesInv
<1>6. \A r \in Outpoints : graphs[r] # None => graphs'[r] = graphs[r]
  BY <1>2, <1>4 DEF TablesInv
<1>7. TraversalInv(w)'
  <2>. PICK s : s = tr'[w].st OBVIOUS
  <2>1. /\ s \in States /\ s \notin Submitting \cup {"finalize"}
        /\ (s \in Carrying => s = "append")
    BY <1>3 DEF States, Submitting, Carrying
  <2>2. /\ tr'[w].seen \subseteq Outpoints /\ tr[w].stack \in Seq(FrameSet)
        /\ tr[w].stack # << >>
    BY <1>1, <1>2, <1>3 DEF TraversalInv, FieldsInv, OwnerInv
  <2>. QED BY <1>1, <1>3, <2>1, <2>2, Stirred
<1>8. ASSUME NEW v \in Slots \ {w} PROVE TraversalInv(v)'
  <2>1. tr'[v] = tr[v] /\ TraversalInv(v) BY <1>3 DEF Traversals
  <2>2. tr[v].st = "finalize" => tr[v].root \in Outpoints
    BY <2>1 DEF TraversalInv, OwnerInv, Out
  <2>. QED BY <1>6, <2>1, <2>2, Calm DEF TraversalInv, PlanInv
<1>. QED BY <1>3, <1>5, <1>7, <1>8 DEF Traversals

\* processIncomingNode: a node that was seen, or one for its graph.
LEMMA IncomingStep ==
  ASSUME GaspGraphAssumption, TablesInv, Traversals, NEW w \in Slots, processIncomingNode(w)
  PROVE  Traversals' /\ graphs' \in [Outpoints -> NodeSets \cup {None}]
<1>1. /\ TraversalInv(w) /\ tr[w].st = "node" /\ tr[w].st \notin Out /\ DOMAIN tr[w] = Fields
      /\ tr[w].node \in Node
  BY DEF Traversals, processIncomingNode, TraversalInv, FieldsInv, Out, Carrying
<1>2. CASE tr[w].node.op \notin tr[w].seen
  <2>. PICK n : n = tr[w].node OBVIOUS
  <2>1. AppendToGraph(w, n) /\ UNCHANGED <<processing, applied>>
    BY <1>2 DEF processIncomingNode
  <2>. QED BY <1>1, <2>1, AppendStep
<1>3. CASE tr[w].node.op \in tr[w].seen
  <2>1. tr' = [tr EXCEPT ![w].st = "deps", ![w].node = None] /\ UNCHANGED graphs
    BY <1>3 DEF processIncomingNode
  <2>2. DOMAIN tr' = Slots /\ \A v \in Slots \ {w} : tr'[v] = tr[v]
    BY <2>1 DEF Traversals
  <2>3. /\ DOMAIN tr'[w] = Fields /\ tr'[w].st = "deps" /\ tr'[w].root = tr[w].root
        /\ tr'[w].stack = tr[w].stack /\ tr'[w].seen = tr[w].seen
        /\ tr'[w].plan = tr[w].plan /\ tr'[w].todo = tr[w].todo
    BY <1>1, <2>1 DEF Traversals, Fields
  <2>4. TraversalInv(w)'
    <3>1. /\ "deps" \in States /\ "deps" \notin Carrying
          /\ "deps" \notin Submitting \cup {"finalize"}
      BY DEF States, Submitting, Carrying
    <3>2. /\ tr[w].stack \in Seq(FrameSet) /\ tr[w].stack # << >>
          /\ tr[w].seen \subseteq Outpoints
      BY <1>1 DEF TraversalInv, FieldsInv, OwnerInv
    <3>. QED BY <1>1, <2>3, <3>1, <3>2, Stirred DEF processIncomingNode
  <2>5. \A v \in Slots \ {w} : TraversalInv(v)'
    BY <2>1, <2>2, OthersCalm DEF processIncomingNode
  <2>. QED BY <2>1, <2>2, <2>4, <2>5 DEF Traversals, TablesInv
<1>. QED BY <1>2, <1>3

\* A traversal that replaces the frame on top of its stack.
LEMMA NewTop ==
  ASSUME NEW w \in Slots, TraversalInv(w), tr[w].st \notin Out, NEW fr \in FrameSet,
         NEW s \in States, s \notin Carrying \cup Submitting \cup {"finalize"},
         DOMAIN tr'[w] = Fields, tr'[w].st = s, tr'[w].root = tr[w].root,
         tr'[w].stack = [tr[w].stack EXCEPT ![Len(tr[w].stack)] = fr],
         tr'[w].seen = tr[w].seen, tr'[w].plan = tr[w].plan, tr'[w].todo = tr[w].todo,
         UNCHANGED processing
  PROVE  TraversalInv(w)'
<1>1. tr[w].stack \in Seq(FrameSet) /\ tr[w].seen \subseteq Outpoints
  BY DEF TraversalInv, FieldsInv
<1>2. Len(tr[w].stack) \in 1 .. Len(tr[w].stack) BY TopIsFrame
<1>3. tr'[w].stack \in Seq(FrameSet) /\ tr'[w].stack # << >>
  BY <1>1, <1>2, ExceptSeq
<1>. QED BY <1>1, <1>3, Stirred

\* What the rest of AppendToGraph makes of the traversal and of the graphs.
LEMMA StoreFields ==
  ASSUME GaspGraphAssumption, TablesInv, Traversals, NEW w \in Slots, StoreNode(w)
  PROVE  /\ TraversalInv(w) /\ tr[w].st = "append" /\ tr[w].st \notin Out
         /\ DOMAIN tr[w] = Fields /\ tr[w].node \in Node
         /\ DOMAIN tr' = Slots /\ \A v \in Slots \ {w} : tr'[v] = tr[v]
         /\ DOMAIN tr'[w] = Fields /\ tr'[w].st \in {"error", "stored"}
         /\ tr'[w].root = tr[w].root /\ tr'[w].seen = tr[w].seen
         /\ tr'[w].plan = tr[w].plan /\ tr'[w].todo = tr[w].todo
         /\ \E fr \in FrameSet :
               /\ fr.graph = tr[w].node.graph
               /\ tr'[w].stack = [tr[w].stack EXCEPT ![Len(tr[w].stack)] = fr]
<1>1. /\ TraversalInv(w) /\ DOMAIN tr[w] = Fields /\ tr[w].st = "append"
      /\ tr[w].st \notin Out /\ tr[w].node \in Node
  BY DEF Traversals, TraversalInv, FieldsInv, StoreNode, Out, Carrying
<1>2. Top(w) \in FrameSet BY <1>1, TopIsFrame
<1>. PICK g : g = tr[w].node.graph OBVIOUS
<1>. PICK fr : fr = [Top(w) EXCEPT !.graph = g] OBVIOUS
<1>3. fr \in FrameSet /\ fr.graph = g BY <1>1, <1>2 DEF FrameSet, Node
<1>4. PICK s \in {"error", "stored"} :
        tr' = [tr EXCEPT ![w].st = s, ![w].node = None, ![w].cut = FALSE,
                         ![w].stack[Len(tr[w].stack)] = fr]
  BY DEF StoreNode
<1>5. DOMAIN tr' = Slots /\ \A v \in Slots \ {w} : tr'[v] = tr[v]
  BY <1>4 DEF Traversals
<1>6. /\ DOMAIN tr'[w] = Fields /\ tr'[w].st = s /\ tr'[w].root = tr[w].root
      /\ tr'[w].stack = [tr[w].stack EXCEPT ![Len(tr[w].stack)] = fr]
      /\ tr'[w].seen = tr[w].seen /\ tr'[w].plan = tr[w].plan /\ tr'[w].todo = tr[w].todo
  BY <1>1, <1>4 DEF Traversals, Fields
<1>. QED BY <1>1, <1>3, <1>4, <1>5, <1>6

\* Storing a node takes none from a graph.
LEMMA StoreStep ==
  ASSUME GaspGraphAssumption, TablesInv, Traversals, LimitsInv, NEW w \in Slots, StoreNode(w)
  PROVE  Traversals' /\ graphs' \in [Outpoints -> NodeSets \cup {None}]
<1>1. /\ TraversalInv(w) /\ tr[w].st = "append" /\ tr[w].st \notin Out
      /\ tr[w].node \in Node
      /\ DOMAIN tr' = Slots /\ \A v \in Slots \ {w} : tr'[v] = tr[v]
      /\ DOMAIN tr'[w] = Fields /\ tr'[w].st \in {"error", "stored"}
      /\ tr'[w].root = tr[w].root /\ tr'[w].seen = tr[w].seen
      /\ tr'[w].plan = tr[w].plan /\ tr'[w].todo = tr[w].todo
  BY StoreFields
<1>2. PICK fr \in FrameSet : tr'[w].stack = [tr[w].stack EXCEPT ![Len(tr[w].stack)] = fr]
  BY StoreFields
<1>. PICK n : n = tr[w].node OBVIOUS
<1>3. n.graph \in Outpoints /\ n.op \in Outpoints BY <1>1 DEF Node
<1>4. /\ graphs' \in [Outpoints -> NodeSets \cup {None}]
      /\ \A r \in Outpoints : graphs[r] # None /\ r \in graphs[r] =>
            graphs'[r] # None /\ r \in graphs'[r]
  <2>1. CASE tr[w].cut BY <2>1 DEF StoreNode, TablesInv
  <2>2. CASE ~tr[w].cut
    <3>1. w \in Pending(n.graph) BY <1>1, <2>2 DEF Pending
    <3>2. graphs[n.graph] # None BY <1>3, <3>1 DEF LimitsInv, LimitInv
    <3>. PICK nodes \in NodeSets : nodes = graphs[n.graph] BY <1>3, <3>2 DEF TablesInv
    <3>. PICK added : added = nodes \cup {n.op} OBVIOUS
    <3>3. added \in NodeSets BY <1>3, FS_AddElement DEF NodeSets
    <3>4. added # None BY <3>3 DEF NodeSets, GaspGraphAssumption
    <3>5. graphs' = [graphs EXCEPT ![n.graph] = added] BY <2>2 DEF StoreNode
    <3>. QED BY <1>3, <3>3, <3>4, <3>5 DEF TablesInv
  <2>. QED BY <2>1, <2>2
<1>5. TraversalInv(w)'
  <2>. PICK s : s = tr'[w].st OBVIOUS
  <2>1. s \in States /\ s \notin Carrying \cup Submitting \cup {"finalize"}
    BY <1>1 DEF States, Submitting, Carrying
  <2>2. UNCHANGED processing BY DEF StoreNode
  <2>. QED BY <1>1, <1>2, <2>1, <2>2, NewTop
<1>6. ASSUME NEW v \in Slots \ {w} PROVE TraversalInv(v)'
  <2>1. tr'[v] = tr[v] /\ TraversalInv(v) BY <1>1 DEF Traversals
  <2>2. tr[v].st = "finalize" => tr[v].root \in Outpoints
    BY <2>1 DEF TraversalInv, OwnerInv, Out
  <2>3. UNCHANGED <<processing, applied>> BY DEF StoreNode
  <2>. QED BY <1>4, <2>1, <2>2, <2>3, Calm DEF TraversalInv, PlanInv
<1>. QED BY <1>1, <1>4, <1>5, <1>6 DEF Traversals

\* What FindNeededInputs makes of the traversal.
LEMMA NeedFields ==
  ASSUME GaspGraphAssumption, TablesInv, Traversals, NEW w \in Slots, NeedInputs(w)
  PROVE  /\ TraversalInv(w) /\ tr[w].st \notin Out
         /\ DOMAIN tr' = Slots /\ \A v \in Slots \ {w} : tr'[v] = tr[v]
         /\ DOMAIN tr'[w] = Fields /\ tr'[w].st \in {"error", "deps"}
         /\ tr'[w].root = tr[w].root /\ tr'[w].seen = tr[w].seen
         /\ tr'[w].plan = tr[w].plan /\ tr'[w].todo = tr[w].todo
         /\ \E fr \in FrameSet :
               /\ fr.graph = Top(w).graph
               /\ tr'[w].stack = [tr[w].stack EXCEPT ![Len(tr[w].stack)] = fr]
<1>1. /\ TraversalInv(w) /\ DOMAIN tr[w] = Fields /\ tr[w].st \notin Out
      /\ tr[w].stack \in Seq(FrameSet)
  BY DEF Traversals, TraversalInv, FieldsInv, NeedInputs, Out
<1>2. Top(w) \in FrameSet BY <1>1, TopIsFrame
<1>3. CASE tr' = [tr EXCEPT ![w].st = "error", ![w].trouble = TRUE]
  <2>1. DOMAIN tr' = Slots /\ \A v \in Slots \ {w} : tr'[v] = tr[v]
    BY <1>3 DEF Traversals
  <2>2. /\ DOMAIN tr'[w] = Fields /\ tr'[w].st = "error" /\ tr'[w].root = tr[w].root
        /\ tr'[w].stack = tr[w].stack
        /\ tr'[w].seen = tr[w].seen /\ tr'[w].plan = tr[w].plan /\ tr'[w].todo = tr[w].todo
    BY <1>1, <1>3 DEF Traversals, Fields
  <2>. PICK stk \in Seq(FrameSet) : stk = tr[w].stack BY <1>1
  <2>3. stk = [stk EXCEPT ![Len(stk)] = stk[Len(stk)]]
    BY SMT
  <2>4. tr[w].stack = [tr[w].stack EXCEPT ![Len(tr[w].stack)] = Top(w)] BY <2>3 DEF Top
  <2>. QED BY <1>1, <1>2, <2>1, <2>2, <2>4
<1>4. CASE tr[w].st = "stored" /\ tr' = [tr EXCEPT
             ![w].st = "deps",
             ![w].stack[Len(tr[w].stack)] =
                 [Top(w) EXCEPT !.need = FindNeededInputs(TxOf[Top(w).op])]]
  <2>. PICK fr : fr = [Top(w) EXCEPT !.need = FindNeededInputs(TxOf[Top(w).op])] OBVIOUS
  <2>1. FindNeededInputs(TxOf[Top(w).op]) \in SUBSET Outpoints
    BY <1>2 DEF FindNeededInputs, GaspGraphAssumption, FrameSet
  <2>2. fr \in FrameSet /\ fr.graph = Top(w).graph BY <1>2, <2>1 DEF FrameSet
  <2>3. tr' = [tr EXCEPT ![w].st = "deps", ![w].stack[Len(tr[w].stack)] = fr] BY <1>4
  <2>4. DOMAIN tr' = Slots /\ \A v \in Slots \ {w} : tr'[v] = tr[v]
    BY <2>3 DEF Traversals
  <2>5. /\ DOMAIN tr'[w] = Fields /\ tr'[w].st = "deps" /\ tr'[w].root = tr[w].root
        /\ tr'[w].stack = [tr[w].stack EXCEPT ![Len(tr[w].stack)] = fr]
        /\ tr'[w].seen = tr[w].seen /\ tr'[w].plan = tr[w].plan /\ tr'[w].todo = tr[w].todo
    BY <1>1, <2>3 DEF Traversals, Fields
  <2>. QED BY <1>1, <2>2, <2>4, <2>5
<1>. QED BY <1>3, <1>4 DEF NeedInputs

\* FindNeededInputs keeps every traversal sound.
LEMMA NeedStep ==
  ASSUME GaspGraphAssumption, TablesInv, Traversals, NEW w \in Slots, NeedInputs(w)
  PROVE  Traversals'
<1>1. /\ TraversalInv(w) /\ tr[w].st \notin Out
      /\ DOMAIN tr' = Slots /\ \A v \in Slots \ {w} : tr'[v] = tr[v]
      /\ DOMAIN tr'[w] = Fields /\ tr'[w].st \in {"error", "deps"}
      /\ tr'[w].root = tr[w].root /\ tr'[w].seen = tr[w].seen
      /\ tr'[w].plan = tr[w].plan /\ tr'[w].todo = tr[w].todo
  BY NeedFields
<1>2. PICK fr \in FrameSet : tr'[w].stack = [tr[w].stack EXCEPT ![Len(tr[w].stack)] = fr]
  BY NeedFields
<1>3. UNCHANGED <<processing, graphs, applied>> BY DEF NeedInputs
<1>. PICK s : s = tr'[w].st OBVIOUS
<1>4. s \in States /\ s \notin Carrying \cup Submitting \cup {"finalize"}
  BY <1>1 DEF States, Submitting, Carrying
<1>5. TraversalInv(w)' BY <1>1, <1>2, <1>3, <1>4, NewTop
<1>. QED BY <1>1, <1>3, <1>5, OthersCalm DEF Traversals

\* processUTXO descends: the new frame is for an input of the one it was called from.
LEMMA DescendFields ==
  ASSUME GaspGraphAssumption, Traversals, NEW w \in Slots, processUTXO(w)
  PROVE  /\ TraversalInv(w) /\ tr[w].st \notin Out
         /\ DOMAIN tr' = Slots /\ \A v \in Slots \ {w} : tr'[v] = tr[v]
         /\ DOMAIN tr'[w] = Fields /\ tr'[w].st = "fetch" /\ tr'[w].root = tr[w].root
         /\ tr'[w].seen = tr[w].seen /\ tr'[w].plan = tr[w].plan /\ tr'[w].todo = tr[w].todo
         /\ tr'[w].stack \in Seq(FrameSet) /\ Len(tr'[w].stack) = Len(tr[w].stack) + 1
         /\ \A k \in 1 .. Len(tr[w].stack) : tr'[w].stack[k].graph = tr[w].stack[k].graph
         /\ tr'[w].stack[Len(tr[w].stack) + 1].graph = Top(w).graph
<1>1. TraversalInv(w) /\ tr[w].st \notin Out /\ DOMAIN tr[w] = Fields
  BY DEF Traversals, processUTXO, TraversalInv, FieldsInv, Out
<1>2. Top(w) \in FrameSet /\ Len(tr[w].stack) \in Nat \ {0} BY <1>1, TopIsFrame
<1>3. PICK d \in Top(w).need :
        tr' = [tr EXCEPT ![w].st = "fetch",
                  ![w].stack = Append([tr[w].stack EXCEPT ![Len(tr[w].stack)].need = @ \ {d}],
                                      Frame(d, Top(w).op, Top(w).graph))]
  BY DEF processUTXO
<1>. PICK stk : stk = tr[w].stack OBVIOUS
<1>. PICK top : top = stk[Len(stk)] OBVIOUS
<1>. PICK old : old = [top EXCEPT !.need = @ \ {d}] OBVIOUS
<1>. PICK new : new = Frame(d, Top(w).op, Top(w).graph) OBVIOUS
<1>4. Top(w) = top /\ old \in FrameSet /\ old.graph = top.graph
  <2>1. Top(w) = top BY DEF Top
  <2>. QED BY <1>2, <2>1 DEF FrameSet
<1>5. new \in FrameSet /\ new.graph = Top(w).graph BY <1>2 DEF FrameSet, Frame
<1>6. stk \in Seq(FrameSet) /\ Len(stk) \in 1 .. Len(stk) /\ top = stk[Len(stk)]
  BY <1>1, <1>2 DEF TraversalInv, FieldsInv
<1>. PICK low : low = [stk EXCEPT ![Len(stk)] = old] OBVIOUS
<1>7. /\ low \in Seq(FrameSet) /\ Len(low) = Len(stk)
      /\ \A k \in 1 .. Len(stk) : low[k] = IF k = Len(stk) THEN old ELSE stk[k]
  BY <1>4, <1>6, ExceptSeq
<1>8. [stk EXCEPT ![Len(stk)].need = @ \ {d}] = low
  OBVIOUS
<1>9. /\ Append(low, new) \in Seq(FrameSet) /\ Len(Append(low, new)) = Len(stk) + 1
      /\ \A k \in 1 .. Len(stk) : Append(low, new)[k] = low[k]
      /\ Append(low, new)[Len(stk) + 1] = new
  BY <1>5, <1>7, AppendProperties
<1>10. DOMAIN tr' = Slots /\ \A v \in Slots \ {w} : tr'[v] = tr[v]
  BY <1>3 DEF Traversals
<1>11. tr'[w] = [tr[w] EXCEPT !.st = "fetch", !.stack = Append(low, new)]
  <2>. PICK f : f = Append([stk EXCEPT ![Len(stk)].need = @ \ {d}], new) OBVIOUS
  <2>1. tr' = [tr EXCEPT ![w].st = "fetch", ![w].stack = f]
    BY <1>3, Zenon
  <2>2. tr'[w] = [tr[w] EXCEPT !.st = "fetch", !.stack = f] BY <2>1 DEF Traversals
  <2>. QED BY <1>8, <2>2
<1>12. /\ DOMAIN tr'[w] = Fields /\ tr'[w].st = "fetch" /\ tr'[w].root = tr[w].root
       /\ tr'[w].seen = tr[w].seen /\ tr'[w].plan = tr[w].plan /\ tr'[w].todo = tr[w].todo
       /\ tr'[w].stack = Append(low, new)
  BY <1>1, <1>11 DEF Fields
<1>13. \A k \in 1 .. Len(stk) : Append(low, new)[k].graph = stk[k].graph
  BY <1>4, <1>6, <1>7, <1>9
<1>. QED BY <1>1, <1>5, <1>9, <1>10, <1>12, <1>13

\* processUTXO keeps every traversal sound.
LEMMA DescendStep ==
  ASSUME GaspGraphAssumption, Traversals, NEW w \in Slots, processUTXO(w)
  PROVE  Traversals'
<1>1. /\ TraversalInv(w) /\ tr[w].st \notin Out
      /\ DOMAIN tr' = Slots /\ \A v \in Slots \ {w} : tr'[v] = tr[v]
      /\ DOMAIN tr'[w] = Fields /\ tr'[w].st = "fetch" /\ tr'[w].root = tr[w].root
      /\ tr'[w].seen = tr[w].seen /\ tr'[w].plan = tr[w].plan /\ tr'[w].todo = tr[w].todo
      /\ tr'[w].stack \in Seq(FrameSet) /\ Len(tr'[w].stack) = Len(tr[w].stack) + 1
  BY DescendFields
<1>2. tr'[w].stack # << >> /\ tr[w].seen \subseteq Outpoints
  <2>1. Len(tr[w].stack) \in Nat BY <1>1, TopIsFrame
  <2>. QED BY <1>1, <2>1 DEF TraversalInv, FieldsInv
<1>3. "fetch" \in States /\ "fetch" \notin Carrying /\ "fetch" \notin Submitting \cup {"finalize"}
  BY DEF States, Submitting, Carrying
<1>4. TraversalInv(w)' BY <1>1, <1>2, <1>3, Stirred DEF processUTXO
<1>. QED BY <1>1, <1>4, OthersCalm DEF Traversals, processUTXO, history

\* ReturnDependency drops the frame on top and leaves those below as they are.
LEMMA ReturnFields ==
  ASSUME GaspGraphAssumption, Traversals, NEW w \in Slots, ReturnDependency(w)
  PROVE  /\ TraversalInv(w) /\ tr[w].st \notin Out
         /\ DOMAIN tr' = Slots /\ \A v \in Slots \ {w} : tr'[v] = tr[v]
         /\ DOMAIN tr'[w] = Fields /\ tr'[w].st = "deps" /\ tr'[w].root = tr[w].root
         /\ tr'[w].seen = tr[w].seen /\ tr'[w].plan = tr[w].plan /\ tr'[w].todo = tr[w].todo
         /\ tr'[w].stack \in Seq(FrameSet) /\ tr'[w].stack # << >>
         /\ Len(tr'[w].stack) <= Len(tr[w].stack) /\ Len(tr'[w].stack) \in Nat
         /\ \A k \in 1 .. Len(tr'[w].stack) : tr'[w].stack[k] = tr[w].stack[k]
<1>1. TraversalInv(w) /\ tr[w].st \notin Out /\ DOMAIN tr[w] = Fields
  BY DEF Traversals, ReturnDependency, TraversalInv, FieldsInv, Out
<1>. PICK stk : stk = tr[w].stack OBVIOUS
<1>2. stk \in Seq(FrameSet) /\ Len(stk) \in Nat /\ Len(stk) > 1
  <2>1. Len(stk) \in Nat \ {0} BY <1>1, TopIsFrame
  <2>2. stk \in Seq(FrameSet) BY <1>1 DEF TraversalInv, FieldsInv
  <2>3. Len(stk) # 1 BY DEF ReturnDependency, AtRoot
  <2>4. \A k \in Nat \ {0} : k # 1 => k > 1 OBVIOUS
  <2>. QED BY <2>1, <2>2, <2>3, <2>4, Zenon
<1>. PICK low : low = SubSeq(stk, 1, Len(stk) - 1) OBVIOUS
<1>3. \A k \in 1 .. Len(stk) - 1 : stk[k] \in FrameSet BY <1>2, ElementOfSeq
<1>4. /\ low \in Seq(FrameSet) /\ Len(low) = Len(stk) - 1
      /\ \A k \in 1 .. Len(stk) - 1 : low[k] = stk[k]
  <2>1. 1 \in Int /\ Len(stk) - 1 \in Int BY <1>2
  <2>2. /\ low \in Seq(FrameSet)
        /\ Len(low) = IF 1 <= Len(stk) - 1 THEN Len(stk) - 1 - 1 + 1 ELSE 0
        /\ \A k \in 1 .. Len(stk) - 1 - 1 + 1 : low[k] = stk[1 + k - 1]
    BY <1>3, <2>1, SubSeqProperties
  <2>. QED BY <1>2, <2>2
<1>5. tr' = [tr EXCEPT ![w].st = "deps", ![w].stack = low] BY DEF ReturnDependency, Pop
<1>6. DOMAIN tr' = Slots /\ \A v \in Slots \ {w} : tr'[v] = tr[v]
  BY <1>5 DEF Traversals
<1>7. /\ DOMAIN tr'[w] = Fields /\ tr'[w].st = "deps" /\ tr'[w].root = tr[w].root
      /\ tr'[w].seen = tr[w].seen /\ tr'[w].plan = tr[w].plan /\ tr'[w].todo = tr[w].todo
      /\ tr'[w].stack = low
  BY <1>1, <1>5 DEF Traversals, Fields
<1>8. low # << >> /\ Len(low) <= Len(stk) /\ Len(low) \in Nat
  <2>1. Len(low) = Len(stk) - 1 BY <1>4
  <2>2. Len(low) <= Len(stk) /\ Len(low) \in Nat /\ Len(low) # 0 BY <1>2, <2>1
  <2>. QED BY <1>4, <2>2, EmptySeq
<1>9. \A k \in 1 .. Len(low) : low[k] = stk[k] BY <1>2, <1>4
<1>. QED BY <1>1, <1>4, <1>6, <1>7, <1>8, <1>9

\* ReturnDependency keeps every traversal sound.
LEMMA ReturnStep ==
  ASSUME GaspGraphAssumption, Traversals, NEW w \in Slots, ReturnDependency(w)
  PROVE  Traversals'
<1>1. /\ TraversalInv(w) /\ tr[w].st \notin Out
      /\ DOMAIN tr' = Slots /\ \A v \in Slots \ {w} : tr'[v] = tr[v]
      /\ DOMAIN tr'[w] = Fields /\ tr'[w].st = "deps" /\ tr'[w].root = tr[w].root
      /\ tr'[w].seen = tr[w].seen /\ tr'[w].plan = tr[w].plan /\ tr'[w].todo = tr[w].todo
      /\ tr'[w].stack \in Seq(FrameSet) /\ tr'[w].stack # << >>
  BY ReturnFields
<1>2. tr[w].seen \subseteq Outpoints BY <1>1 DEF TraversalInv, FieldsInv
<1>3. "deps" \in States /\ "deps" \notin Carrying /\ "deps" \notin Submitting \cup {"finalize"}
  BY DEF States, Submitting, Carrying
<1>4. TraversalInv(w)' BY <1>1, <1>2, <1>3, Stirred DEF ReturnDependency
<1>. QED BY <1>1, <1>4, OthersCalm DEF Traversals, ReturnDependency, history

-----------------------------------------------------------------------------
(* Traversals: completing the graph *)

\* CompleteGraph goes on only with a graph that holds its root.
LEMMA CompleteStep ==
  ASSUME GaspGraphAssumption, TablesInv, Traversals, NEW w \in Slots, CompleteGraph(w)
  PROVE  Traversals'
<1>1. /\ TraversalInv(w) /\ tr[w].st \notin Out /\ DOMAIN tr[w] = Fields
      /\ tr[w].st = "deps" /\ UNCHANGED applied
  BY DEF Traversals, CompleteGraph, TraversalInv, FieldsInv, Out
<1>2. CASE Finish(w, FALSE) BY <1>1, <1>2, FinishStep
<1>3. CASE /\ ValidateGraphAnchor(tr[w].root) /\ tr' = [tr EXCEPT ![w].st = "finalize"]
           /\ UNCHANGED <<processing, graphs, completed>>
  <2>1. DOMAIN tr' = Slots /\ \A v \in Slots \ {w} : tr'[v] = tr[v]
    BY <1>3 DEF Traversals
  <2>2. /\ DOMAIN tr'[w] = Fields /\ tr'[w].st = "finalize" /\ tr'[w].root = tr[w].root
        /\ tr'[w].stack = tr[w].stack /\ tr'[w].seen = tr[w].seen
        /\ tr'[w].plan = tr[w].plan /\ tr'[w].todo = tr[w].todo
    BY <1>1, <1>3 DEF Traversals, Fields
  <2>3. graphs[tr[w].root] # None /\ tr[w].root \in graphs[tr[w].root]
    BY <1>3 DEF ValidateGraphAnchor
  <2>4. FieldsInv(w)' BY <1>1, <2>2 DEF TraversalInv, FieldsInv, States, Carrying
  <2>5. OwnerInv(w)' BY <1>1, <1>3, <2>2 DEF TraversalInv, OwnerInv
  <2>6. PlanInv(w)' BY <1>3, <2>2, <2>3 DEF PlanInv, Submitting
  <2>7. TraversalInv(w)' BY <2>4, <2>5, <2>6 DEF TraversalInv
  <2>8. \A v \in Slots \ {w} : TraversalInv(v)' BY <1>1, <1>3, <2>1, OthersCalm
  <2>. QED BY <2>1, <2>7, <2>8 DEF Traversals
<1>. QED BY <1>2, <1>3 DEF CompleteGraph

\* FinalizeGraph plans the transaction of the root, and nothing has been submitted.
LEMMA FinalizeStep ==
  ASSUME GaspGraphAssumption, TablesInv, Traversals, NEW w \in Slots, FinalizeGraph(w)
  PROVE  Traversals'
<1>1. /\ TraversalInv(w) /\ tr[w].st \notin Out /\ DOMAIN tr[w] = Fields
      /\ tr[w].st = "finalize" /\ UNCHANGED applied
  BY DEF Traversals, FinalizeGraph, TraversalInv, FieldsInv, Out
<1>2. CASE Finish(w, FALSE) BY <1>1, <1>2, FinishStep
<1>. PICK p : p = {TxOf[o] : o \in graphs[tr[w].root]} OBVIOUS
<1>3. CASE /\ tr' = [tr EXCEPT ![w].st = "submit", ![w].plan = p, ![w].todo = p]
           /\ UNCHANGED <<processing, graphs, completed>>
  <2>1. DOMAIN tr' = Slots /\ \A v \in Slots \ {w} : tr'[v] = tr[v]
    BY <1>3 DEF Traversals
  <2>2. /\ DOMAIN tr'[w] = Fields /\ tr'[w].st = "submit" /\ tr'[w].root = tr[w].root
        /\ tr'[w].stack = tr[w].stack /\ tr'[w].seen = tr[w].seen
        /\ tr'[w].plan = p /\ tr'[w].todo = p
    BY <1>1, <1>3 DEF Traversals, Fields
  <2>3. graphs[tr[w].root] # None /\ tr[w].root \in graphs[tr[w].root]
        /\ tr[w].root \in Outpoints
    BY <1>1 DEF TraversalInv, PlanInv, OwnerInv
  <2>4. graphs[tr[w].root] \subseteq Outpoints BY <2>3 DEF TablesInv, NodeSets
  <2>5. TxOf[tr[w].root] \in p /\ p \subseteq Txs
    BY <2>3, <2>4 DEF GaspGraphAssumption
  <2>6. FieldsInv(w)' BY <1>1, <2>2, <2>5 DEF TraversalInv, FieldsInv, States, Carrying
  <2>7. OwnerInv(w)' BY <1>1, <1>3, <2>2 DEF TraversalInv, OwnerInv
  <2>8. PlanInv(w)' BY <2>2, <2>5 DEF PlanInv, Submitting
  <2>9. TraversalInv(w)' BY <2>6, <2>7, <2>8 DEF TraversalInv
  <2>10. \A v \in Slots \ {w} : TraversalInv(v)' BY <1>1, <1>3, <2>1, OthersCalm
  <2>. QED BY <2>1, <2>9, <2>10 DEF Traversals
<1>. QED BY <1>2, <1>3 DEF FinalizeGraph

\* submitBeef takes nothing off the plan.
LEMMA SubmitBeefStep ==
  ASSUME Traversals, NEW w \in Slots, submitBeef(w)
  PROVE  Traversals'
<1>1. /\ TraversalInv(w) /\ tr[w].st \notin Out /\ DOMAIN tr[w] = Fields
      /\ tr[w].st = "submit" /\ UNCHANGED <<processing, graphs, applied>>
  BY DEF Traversals, submitBeef, TraversalInv, FieldsInv, Out
<1>2. PICK t \in NextInOrder(w), s \in {"submitting", "subwait"} :
         tr' = [tr EXCEPT ![w].st = s, ![w].tx = t]
  BY DEF submitBeef
<1>3. t \in Txs BY <1>1 DEF NextInOrder, TraversalInv, FieldsInv
<1>4. DOMAIN tr' = Slots /\ \A v \in Slots \ {w} : tr'[v] = tr[v]
  BY <1>2 DEF Traversals
<1>5. /\ DOMAIN tr'[w] = Fields /\ tr'[w].st = s /\ tr'[w].root = tr[w].root
      /\ tr'[w].stack = tr[w].stack /\ tr'[w].seen = tr[w].seen
      /\ tr'[w].plan = tr[w].plan /\ tr'[w].todo = tr[w].todo /\ tr'[w].tx = t
  BY <1>1, <1>2 DEF Traversals, Fields
<1>6. FieldsInv(w)' BY <1>1, <1>3, <1>5 DEF TraversalInv, FieldsInv, States, Carrying
<1>7. OwnerInv(w)' BY <1>1, <1>5 DEF TraversalInv, OwnerInv
<1>8. PlanInv(w)' BY <1>1, <1>5 DEF TraversalInv, PlanInv, Submitting
<1>9. TraversalInv(w)' BY <1>6, <1>7, <1>8 DEF TraversalInv
<1>. QED BY <1>1, <1>4, <1>9, OthersCalm DEF Traversals

\* A submission that ends in state s, with `gone' taken off what is left.
LEMMA Ended ==
  ASSUME NEW v \in Slots, TraversalInv(v), tr[v].st \in {"submitting", "subwait"},
         NEW s \in {"submit", "failed"}, NEW gone,
         tr'[v] = [tr[v] EXCEPT !.st = s, !.todo = @ \ gone, !.tx = None],
         UNCHANGED processing, applied \subseteq applied',
         s = "submit" => gone \subseteq applied'
  PROVE  TraversalInv(v)'
<1>1. DOMAIN tr[v] = Fields BY DEF TraversalInv, FieldsInv
<1>2. /\ DOMAIN tr'[v] = Fields /\ tr'[v].st = s /\ tr'[v].root = tr[v].root
      /\ tr'[v].stack = tr[v].stack /\ tr'[v].seen = tr[v].seen
      /\ tr'[v].plan = tr[v].plan /\ tr'[v].todo = tr[v].todo \ gone
  BY <1>1 DEF Fields
<1>3. FieldsInv(v)' BY <1>2 DEF TraversalInv, FieldsInv, States, Carrying
<1>4. tr[v].st \notin Out BY DEF Out
<1>5. OwnerInv(v)' BY <1>2, <1>4 DEF TraversalInv, OwnerInv
<1>6. PlanInv(v)' BY <1>2 DEF TraversalInv, PlanInv, Submitting
<1>. QED BY <1>3, <1>5, <1>6 DEF TraversalInv

\* Submit: those who share its result take the transaction off when it is applied.
LEMMA SubmitStep ==
  ASSUME GaspGraphAssumption, Traversals, NEW w \in Slots, Submit(w)
  PROVE  Traversals'
<1>. PICK t : t = tr[w].tx OBVIOUS
<1>. PICK W \in SUBSET Slots : W = Submitters(w) BY DEF Submitters
<1>1. \A v \in W : TraversalInv(v) /\ tr[v].st \in {"submitting", "subwait"}
  BY DEF Submitters, Submit, Traversals
<1>2. UNCHANGED <<processing, graphs>> BY DEF Submit
<1>3. CASE SubmitOk(w)
  <2>1. /\ tr' = [v \in Slots |-> IF v \in W
                    THEN [tr[v] EXCEPT !.st = "submit", !.todo = @ \ {t}, !.tx = None]
                    ELSE tr[v]]
        /\ applied' = applied \cup {t}
    BY <1>3 DEF SubmitOk
  <2>2. ASSUME NEW v \in W PROVE TraversalInv(v)'
    <3>. PICK s, gone : s = "submit" /\ gone = {t} OBVIOUS
    <3>1. tr'[v] = [tr[v] EXCEPT !.st = s, !.todo = @ \ gone, !.tx = None] BY <2>1
    <3>2. gone \subseteq applied' /\ applied \subseteq applied' /\ s \in {"submit", "failed"}
      BY <2>1
    <3>3. TraversalInv(v) /\ tr[v].st \in {"submitting", "subwait"} BY <1>1
    <3>. QED BY <1>2, <3>1, <3>2, <3>3, Ended
  <2>3. ASSUME NEW v \in Slots \ W PROVE TraversalInv(v)'
    BY <1>2, <2>1, Calm DEF Traversals, TraversalInv, PlanInv
  <2>. QED BY <2>1, <2>2, <2>3 DEF Traversals
<1>4. CASE /\ tr' = [v \in Slots |-> IF v \in W
                        THEN [tr[v] EXCEPT !.st = "failed", !.tx = None] ELSE tr[v]]
           /\ UNCHANGED applied
  <2>1. ASSUME NEW v \in W PROVE TraversalInv(v)'
    <3>1. tr'[v] = [tr[v] EXCEPT !.st = "failed", !.tx = None] BY <1>4
    <3>2. DOMAIN tr[v] = Fields BY <1>1 DEF TraversalInv, FieldsInv
    <3>3. /\ DOMAIN tr'[v] = Fields /\ tr'[v].st = "failed" /\ tr'[v].root = tr[v].root
          /\ tr'[v].stack = tr[v].stack /\ tr'[v].seen = tr[v].seen
          /\ tr'[v].plan = tr[v].plan /\ tr'[v].todo = tr[v].todo
      BY <3>1, <3>2 DEF Fields
    <3>4. tr[v].st \notin Out /\ tr[v].stack \in Seq(FrameSet) /\ tr[v].stack # << >>
          /\ tr[v].seen \subseteq Outpoints
      BY <1>1 DEF TraversalInv, FieldsInv, OwnerInv, Out
    <3>5. "failed" \in States /\ "failed" \notin Carrying
          /\ "failed" \notin Submitting \cup {"finalize"}
      BY DEF States, Submitting, Carrying
    <3>. QED BY <1>1, <1>2, <3>3, <3>4, <3>5, Stirred
  <2>2. ASSUME NEW v \in Slots \ W PROVE TraversalInv(v)'
    BY <1>2, <1>4, OthersCalm
  <2>. QED BY <1>4, <2>1, <2>2 DEF Traversals
<1>. QED BY <1>3, <1>4 DEF Submit

\* The call returns.
LEMMA ReturnRootStep ==
  ASSUME GaspGraphAssumption, TablesInv, Traversals, NEW w \in Slots,
         ReturnRoot(w) \/ FailRoot(w)
  PROVE  Traversals'
<1>1. tr[w].st \notin Out /\ UNCHANGED applied BY DEF ReturnRoot, FailRoot, Out
<1>2. Finish(w, TRUE) \/ Finish(w, FALSE) BY DEF ReturnRoot, FailRoot
<1>. QED BY <1>1, <1>2, FinishStep

\* The steps of the rest of the node.
LEMMA QuietStep ==
  ASSUME Traversals, UNCHANGED <<tr, processing, graphs>>, applied \subseteq applied'
  PROVE  Traversals'
<1>1. ASSUME NEW v \in Slots PROVE TraversalInv(v)'
  BY Calm DEF Traversals, TraversalInv, PlanInv
<1>. QED BY <1>1 DEF Traversals

\* What every step does to the traversals.
LEMMA TraversalsKept ==
  ASSUME GaspGraphAssumption, TablesInv, Traversals, LimitsInv, [Next]_vars
  PROVE  Traversals'
<1>1. ASSUME NEW o \in Roots, ProcessUTXO(o) PROVE Traversals'
  BY <1>1, QuietStep DEF ProcessUTXO
<1>2. ASSUME NEW w \in Slots, runProcessingWorker(w) PROVE Traversals'
  <2>. PICK o : o = Head(queue) OBVIOUS
  <2>1. o \in Roots BY <1>2 DEF runProcessingWorker, TablesInv
  <2>2. Begin(w, o) /\ UNCHANGED <<graphs, applied>> BY <1>2 DEF runProcessingWorker
  <2>. QED BY <2>1, <2>2, BeginStep
<1>3. ASSUME NEW w \in Slots, NEW o \in Roots, SyncCall(w, o) PROVE Traversals'
  BY <1>3, BeginStep DEF SyncCall
<1>4. ASSUME Close PROVE Traversals'
  BY <1>4, QuietStep DEF Close
<1>5. ASSUME NEW w \in Slots, SlotStep(w) PROVE Traversals'
  BY <1>5, RequestNodeStep, NodeRequestStep, IncomingStep, StoreStep, NeedStep,
     DescendStep, ReturnStep, CompleteStep, FinalizeStep, SubmitBeefStep, SubmitStep, ReturnRootStep DEF SlotStep
<1>6. ASSUME NEW t \in Txs, SubmitLocally(t) PROVE Traversals'
  BY <1>6, QuietStep DEF SubmitLocally
<1>7. ASSUME NEW o \in Outpoints, DeleteOutput(o) PROVE Traversals'
  BY <1>7, QuietStep DEF DeleteOutput
<1>8. ASSUME UNCHANGED vars PROVE Traversals'
  BY <1>8, QuietStep DEF vars
<1>. QED BY <1>1, <1>2, <1>3, <1>4, <1>5, <1>6, <1>7, <1>8 DEF Next, Worker

-----------------------------------------------------------------------------
(* The tables, and what a completed call has applied *)

\* What every step does to the tables.
LEMMA TablesKept ==
  ASSUME GaspGraphAssumption, TablesInv, Traversals, LimitsInv, [Next]_vars
  PROVE  TablesInv'
<1>. USE DEF outside, history
<1>1. ASSUME NEW o \in Roots, ProcessUTXO(o) PROVE TablesInv'
  <2>1. /\ queue' \in Seq(Roots) /\ Len(queue') = Len(queue) + 1 /\ Len(queue) < QueueCap
        /\ Len(queue) \in Nat /\ QueueCap \in Nat
    BY <1>1, AppendProperties DEF ProcessUTXO, TablesInv, GaspGraphAssumption
  <2>2. Len(queue') <= QueueCap BY <2>1
  <2>. QED BY <1>1, <2>1, <2>2 DEF ProcessUTXO, TablesInv
<1>2. ASSUME NEW w \in Slots, NEW o \in Roots, Begin(w, o),
             queue' \in Seq(Roots), Len(queue') <= QueueCap,
             UNCHANGED <<closed, limit, inflight, submission, graphs, held, applied>>
      PROVE  TablesInv'
  <2>1. calls' \in Nat /\ calls' <= MaxCalls
    BY <1>2 DEF Begin, TablesInv, GaspGraphAssumption
  <2>2. processing' \in [Outpoints -> Slots \cup {None}]
    BY <1>2 DEF Begin, TablesInv
  <2>. QED BY <1>2, <2>1, <2>2 DEF TablesInv
<1>3. ASSUME NEW w \in Slots, runProcessingWorker(w) PROVE TablesInv'
  <2>. PICK o : o = Head(queue) OBVIOUS
  <2>1. queue \in Seq(Roots) /\ queue # << >> /\ Len(queue) <= QueueCap
    BY <1>3 DEF runProcessingWorker, TablesInv
  <2>2. o \in Roots /\ Tail(queue) \in Seq(Roots) /\ Len(Tail(queue)) = Len(queue) - 1
        /\ Len(queue) \in Nat /\ QueueCap \in Nat
    BY <2>1, HeadTailProperties DEF GaspGraphAssumption
  <2>3. queue' \in Seq(Roots) /\ Len(queue') <= QueueCap
    BY <1>3, <2>1, <2>2 DEF runProcessingWorker
  <2>4. Begin(w, o) BY <1>3 DEF runProcessingWorker
  <2>. QED BY <1>2, <1>3, <2>2, <2>3, <2>4 DEF runProcessingWorker
<1>4. ASSUME NEW w \in Slots, NEW o \in Roots, SyncCall(w, o) PROVE TablesInv'
  <2>1. queue' \in Seq(Roots) /\ Len(queue') <= QueueCap BY <1>4 DEF SyncCall, TablesInv
  <2>. QED BY <1>2, <1>4, <2>1 DEF SyncCall
<1>5. ASSUME Close PROVE TablesInv'
  BY <1>5 DEF Close, TablesInv
<1>6. ASSUME NEW w \in Slots, RequestNode(w) PROVE TablesInv'
  <2>1. TraversalInv(w) /\ tr[w].st \notin Out BY <1>6 DEF RequestNode, Traversals, Out
  <2>2. Top(w).op \in Outpoints BY <2>1, TopIsFrame DEF FrameSet
  <2>3. inflight' \in [Outpoints -> Slots \cup {None}]
    BY <1>6, <2>2 DEF RequestNode, TablesInv
  <2>. QED BY <1>6, <2>3 DEF RequestNode, TablesInv
<1>7. ASSUME NEW w \in Slots, doNodeRequest(w) PROVE TablesInv'
  <2>1. inflight' \in [Outpoints -> Slots \cup {None}]
    BY <1>7 DEF doNodeRequest, TablesInv
  <2>. QED BY <1>7, <2>1 DEF doNodeRequest, TablesInv
<1>8. ASSUME NEW w \in Slots, processIncomingNode(w) PROVE TablesInv'
  BY <1>8, IncomingStep DEF processIncomingNode, TablesInv
<1>18. ASSUME NEW w \in Slots, StoreNode(w) PROVE TablesInv'
  <2>1. graphs' \in [Outpoints -> NodeSets \cup {None}] BY <1>18, StoreStep
  <2>2. UNCHANGED <<outside, processing, inflight, submission, held, applied>>
    BY <1>18 DEF StoreNode
  <2>. QED BY <2>1, <2>2 DEF TablesInv
<1>9. ASSUME NEW w \in Slots, processUTXO(w) \/ ReturnDependency(w) \/ NeedInputs(w)
      PROVE  TablesInv'
  BY <1>9 DEF processUTXO, ReturnDependency, NeedInputs, TablesInv
<1>10. ASSUME NEW w \in Slots, NEW ok, Finish(w, ok),
              UNCHANGED <<outside, inflight, submission, held, applied>>
       PROVE  TablesInv'
  <2>1. processing' \in [Outpoints -> Slots \cup {None}]
    BY <1>10 DEF Finish, TablesInv
  <2>2. graphs' \in [Outpoints -> NodeSets \cup {None}] BY <1>10 DEF Finish, TablesInv
  <2>. QED BY <1>10, <2>1, <2>2 DEF TablesInv
<1>11. ASSUME NEW w \in Slots, FailRoot(w) \/ CompleteGraph(w) \/ FinalizeGraph(w)
                                \/ ReturnRoot(w)
       PROVE  TablesInv'
  <2>1. UNCHANGED <<outside, inflight, submission, held, applied>>
    BY <1>11 DEF FailRoot, CompleteGraph, FinalizeGraph, ReturnRoot
  <2>2. CASE Finish(w, TRUE) \/ Finish(w, FALSE) BY <1>10, <2>1, <2>2
  <2>3. CASE UNCHANGED <<processing, graphs>> BY <2>1, <2>3 DEF TablesInv
  <2>. QED BY <1>11, <2>2, <2>3 DEF FailRoot, CompleteGraph, FinalizeGraph, ReturnRoot
<1>12. ASSUME NEW w \in Slots, submitBeef(w) PROVE TablesInv'
  <2>1. submission' \in [Txs -> Slots \cup {None}] BY <1>12 DEF submitBeef, TablesInv
  <2>. QED BY <1>12, <2>1 DEF submitBeef, TablesInv
<1>13. ASSUME NEW w \in Slots, Submit(w) PROVE TablesInv'
  <2>1. tr[w].tx \in Txs BY <1>13 DEF Submit, Traversals, TraversalInv, FieldsInv
  <2>2. submission' \in [Txs -> Slots \cup {None}] BY <1>13 DEF Submit, TablesInv
  <2>3. held' \subseteq Outpoints /\ applied' \subseteq Txs
    BY <1>13, <2>1 DEF Submit, SubmitOk, TablesInv, OutputsOf
  <2>. QED BY <1>13, <2>2, <2>3 DEF Submit, TablesInv
<1>14. ASSUME NEW t \in Txs, SubmitLocally(t) PROVE TablesInv'
  BY <1>14 DEF SubmitLocally, TablesInv, OutputsOf
<1>15. ASSUME NEW o \in Outpoints, DeleteOutput(o) PROVE TablesInv'
  BY <1>15 DEF DeleteOutput, TablesInv
<1>16. ASSUME UNCHANGED vars PROVE TablesInv'
  BY <1>16 DEF vars, TablesInv
<1>17. ASSUME NEW w \in Slots, SlotStep(w) PROVE TablesInv'
  BY <1>6, <1>7, <1>8, <1>18, <1>9, <1>11, <1>12, <1>13, <1>17 DEF SlotStep
<1>. QED BY <1>1, <1>3, <1>4, <1>5, <1>14, <1>15, <1>16, <1>17 DEF Next, Worker

\* Only ReturnRoot completes a root, with nothing of its plan left to submit.
LEMMA CompletedKept ==
  ASSUME Traversals, CompletedIsApplied, [Next]_vars
  PROVE  CompletedIsApplied'
<1>. USE DEF outside, history
<1>1. applied \subseteq applied'
  <2>1. ASSUME NEW w \in Slots, SlotStep(w) PROVE applied \subseteq applied'
    BY <2>1 DEF SlotStep, RequestNode, doNodeRequest, processIncomingNode, StoreNode,
       NeedInputs, processUTXO, ReturnDependency, FailRoot, CompleteGraph, FinalizeGraph, submitBeef, Submit, SubmitOk,
       ReturnRoot
  <2>. QED BY <2>1 DEF Next, Worker, ProcessUTXO, runProcessingWorker, SyncCall, Close,
       SubmitLocally, DeleteOutput, vars
<1>2. \A r \in completed' : r \in completed \/ TxOf[r] \in applied
  <2>1. ASSUME NEW w \in Slots, SlotStep(w)
        PROVE  \A r \in completed' : r \in completed \/ TxOf[r] \in applied
    <3>1. CASE ReturnRoot(w)
      <4>1. CASE tr[w].st = "submit" /\ tr[w].todo = {} /\ Finish(w, TRUE)
        <5>1. TxOf[tr[w].root] \in applied
          BY <4>1 DEF Traversals, TraversalInv, PlanInv, Submitting
        <5>. QED BY <4>1, <5>1 DEF Finish
      <4>2. CASE tr[w].st = "failed" /\ Finish(w, FALSE) BY <4>2 DEF Finish
      <4>. QED BY <3>1, <4>1, <4>2 DEF ReturnRoot
    <3>2. CASE ~ReturnRoot(w)
      BY <2>1, <3>2 DEF SlotStep, RequestNode, doNodeRequest, processIncomingNode, StoreNode,
         NeedInputs, processUTXO, ReturnDependency, FailRoot, CompleteGraph, FinalizeGraph, submitBeef, Submit, Finish
    <3>. QED BY <3>1, <3>2
  <2>. QED BY <2>1 DEF Next, Worker, ProcessUTXO, runProcessingWorker, SyncCall, Close,
       SubmitLocally, DeleteOutput, vars
<1>. QED BY <1>1, <1>2 DEF CompletedIsApplied

-----------------------------------------------------------------------------
(* How many nodes a graph may get *)

\* A graph is dropped, or stays as it is, and nobody else is about to add to it.
LEMMA LimitCalm ==
  ASSUME GaspGraphAssumption, NEW g \in Outpoints, LimitInv(g), UNCHANGED limit, TablesInv,
         Pending(g)' \subseteq Pending(g),
         \/ graphs'[g] = graphs[g]
         \/ graphs'[g] = None /\ Pending(g)' = {}
  PROVE  LimitInv(g)'
<1>. PICK A, B : A = Pending(g) /\ B = Pending(g)' OBVIOUS
<1>1. A \subseteq Slots /\ IsFiniteSet(Slots) BY DEF Pending, GaspGraphAssumption
<1>2. IsFiniteSet(A) /\ IsFiniteSet(B) /\ Cardinality(B) <= Cardinality(A)
  BY <1>1, FS_Subset
<1>3. Cardinality(A) \in Nat /\ Cardinality(B) \in Nat /\ Cardinality(Slots) \in Nat
  BY <1>1, <1>2, FS_CardinalityType
<1>4. CASE graphs'[g] = None /\ B = {} BY <1>4 DEF LimitInv
<1>5. CASE graphs'[g] = graphs[g]
  <2>1. B # {} => graphs'[g] # None BY <1>5 DEF LimitInv
  <2>2. ASSUME graphs'[g] # None, limit' # None
        PROVE  Cardinality(graphs'[g]) + Cardinality(B) < limit' + Cardinality(Slots)
    <3>. PICK c, m : c = Cardinality(graphs[g]) /\ m = limit OBVIOUS
    <3>1. graphs[g] \in NodeSets BY <1>5, <2>2 DEF TablesInv
    <3>2. c \in Nat /\ m \in Nat
      BY <2>2, <3>1, FS_CardinalityType DEF NodeSets, TablesInv, GaspGraphAssumption
    <3>3. c + Cardinality(A) < m + Cardinality(Slots) BY <1>5, <2>2 DEF LimitInv
    <3>4. c + Cardinality(B) < m + Cardinality(Slots) BY <1>2, <1>3, <3>2, <3>3
    <3>. QED BY <1>5, <3>4
  <2>. QED BY <2>1, <2>2 DEF LimitInv
<1>. QED BY <1>4, <1>5

\* No slot comes to the point of adding a node, and no graph changes.
LEMMA LimitsSteady ==
  ASSUME GaspGraphAssumption, TablesInv, LimitsInv, UNCHANGED <<limit, graphs>>,
         \A v \in Slots : tr'[v] = tr[v] \/ tr'[v].st # "append"
  PROVE  LimitsInv'
<1>1. ASSUME NEW g \in Outpoints PROVE LimitInv(g)'
  <2>1. Pending(g)' \subseteq Pending(g) BY DEF Pending
  <2>2. LimitInv(g) /\ graphs'[g] = graphs[g] BY DEF LimitsInv
  <2>. QED BY <2>1, <2>2, LimitCalm
<1>. QED BY <1>1 DEF LimitsInv

\* A call that returns cuts off those who are about to add to its graph.
LEMMA LimitsFinish ==
  ASSUME GaspGraphAssumption, TablesInv, Traversals, LimitsInv, UNCHANGED limit,
         NEW w \in Slots, tr[w].st \notin Out, NEW ok, Finish(w, ok)
  PROVE  LimitsInv'
<1>. PICK r : r = tr[w].root OBVIOUS
<1>1. ASSUME NEW v \in Slots
      PROVE  \/ tr'[v] = Free
             \/ /\ tr[v].st = "append" /\ tr[v].node.graph = r
                /\ tr'[v].cut /\ tr'[v].node = tr[v].node
             \/ tr'[v] = tr[v] /\ ~(tr[v].st = "append" /\ tr[v].node.graph = r)
  <2>1. DOMAIN tr[v] = Fields BY DEF Traversals, TraversalInv, FieldsInv
  <2>2. \/ tr'[v] = Free
        \/ tr[v].st = "append" /\ tr[v].node.graph = r /\ tr'[v] = [tr[v] EXCEPT !.cut = TRUE]
        \/ tr'[v] = tr[v] /\ ~(tr[v].st = "append" /\ tr[v].node.graph = r)
    BY DEF Finish
  <2>. QED BY <2>1, <2>2 DEF Fields
<1>2. Free.st # "append" BY DEF Free
<1>3. ASSUME NEW g \in Outpoints PROVE LimitInv(g)'
  <2>1. Pending(g)' \subseteq Pending(g) BY <1>1, <1>2 DEF Pending
  <2>2. g # r => graphs'[g] = graphs[g] BY DEF Finish, TablesInv
  <2>3. g = r => graphs'[g] = None /\ Pending(g)' = {}
    <3>1. g = r => graphs'[g] = None BY DEF Finish, TablesInv
    <3>2. g = r => Pending(g)' = {} BY <1>1, <1>2 DEF Pending
    <3>. QED BY <3>1, <3>2
  <2>. QED BY <2>1, <2>2, <2>3, LimitCalm DEF LimitsInv
<1>. QED BY <1>3 DEF LimitsInv

\* The check: fewer nodes than the limit, and at most all slots about to add one.
LEMMA LimitsAppend ==
  ASSUME GaspGraphAssumption, TablesInv, Traversals, LimitsInv, UNCHANGED limit,
         NEW w \in Slots, tr[w].st = "node", NEW n \in Node, n = tr[w].node,
         AppendToGraph(w, n)
  PROVE  LimitsInv'
<1>1. tr[w].st \notin Out BY DEF Out
<1>2. /\ \A v \in Slots \ {w} : tr'[v] = tr[v]
      /\ tr'[w].st \in {"error", "append"} /\ (tr'[w].st = "append" => tr'[w].node = n)
  BY <1>1, AppendFields
<1>3. PICK nodes \in NodeSets :
        /\ nodes = IF graphs[n.graph] = None THEN {} ELSE graphs[n.graph]
        /\ graphs' = [graphs EXCEPT ![n.graph] = nodes]
        /\ tr'[w].st = "append" /\ limit # None => ~(Cardinality(nodes) >= limit)
  BY <1>1, AppendFields
<1>4. n.graph \in Outpoints /\ nodes # None BY DEF Node, NodeSets, GaspGraphAssumption
<1>5. ASSUME NEW g \in Outpoints, g # n.graph PROVE LimitInv(g)'
  <2>1. graphs'[g] = graphs[g] BY <1>3, <1>5 DEF TablesInv
  <2>2. Pending(g)' \subseteq Pending(g) BY <1>2, <1>5 DEF Pending
  <2>. QED BY <2>1, <2>2, LimitCalm DEF LimitsInv
<1>6. LimitInv(n.graph)'
  <2>. PICK g \in Outpoints : g = n.graph BY <1>4
  <2>0. graphs'[g] = nodes BY <1>3 DEF TablesInv
  <2>. PICK A, B : A = Pending(g) /\ B = Pending(g)' OBVIOUS
  <2>1. A \subseteq Slots /\ B \subseteq Slots /\ IsFiniteSet(Slots)
    BY DEF Pending, GaspGraphAssumption
  <2>2. /\ IsFiniteSet(A) /\ IsFiniteSet(B) /\ Cardinality(B) <= Cardinality(Slots)
        /\ (B \subseteq A => Cardinality(B) <= Cardinality(A))
    BY <2>1, FS_Subset
  <2>. PICK a, b, k, c, m :
         a = Cardinality(A) /\ b = Cardinality(B) /\ k = Cardinality(Slots)
         /\ c = Cardinality(nodes) /\ m = limit
    OBVIOUS
  <2>3. a \in Nat /\ b \in Nat /\ k \in Nat /\ c \in Nat
    BY <2>1, <2>2, FS_CardinalityType DEF NodeSets
  <2>4. k > 0
    <3>1. Slots # {} OBVIOUS
    <3>2. k # 0 BY <2>1, <3>1, FS_EmptySet
    <3>. QED BY <2>3, <3>2
  <2>5. ASSUME limit # None PROVE c + b < m + k
    <3>1. m \in Nat BY <2>5 DEF TablesInv, GaspGraphAssumption
    <3>2. CASE tr'[w].st = "append"
      <4>1. ~(c >= m) BY <1>3, <2>5, <3>2
      <4>2. b <= k BY <2>2
      <4>. QED BY <2>3, <3>1, <4>1, <4>2
    <3>3. CASE tr'[w].st # "append"
      <4>1. B \subseteq A BY <1>2, <3>3 DEF Pending
      <4>2. b <= a BY <2>2, <4>1
      <4>3. CASE graphs[g] = None
        <5>1. A = {} BY <4>3 DEF LimitsInv, LimitInv
        <5>2. a = 0 /\ c = 0 BY <1>3, <4>3, <5>1, FS_EmptySet
        <5>. QED BY <2>3, <2>4, <3>1, <4>2, <5>2
      <4>4. CASE graphs[g] # None
        <5>1. c + a < m + k BY <1>3, <2>5, <4>4 DEF LimitsInv, LimitInv
        <5>. QED BY <2>3, <3>1, <4>2, <5>1
      <4>. QED BY <4>3, <4>4
    <3>. QED BY <3>2, <3>3
  <2>6. LimitInv(g)' BY <1>4, <2>0, <2>5 DEF LimitInv
  <2>. QED BY <2>6
<1>. QED BY <1>5, <1>6 DEF LimitsInv

\* The store: a slot less that is about to add, at most a node more.
LEMMA LimitsStore ==
  ASSUME GaspGraphAssumption, TablesInv, Traversals, LimitsInv, NEW w \in Slots, StoreNode(w)
  PROVE  LimitsInv'
<1>1. /\ tr[w].st = "append" /\ tr[w].node \in Node
      /\ \A v \in Slots \ {w} : tr'[v] = tr[v]
      /\ tr'[w].st \in {"error", "stored"}
  BY StoreFields
<1>2. UNCHANGED limit BY DEF StoreNode, outside
<1>. PICK n : n = tr[w].node OBVIOUS
<1>3. n.graph \in Outpoints /\ n.op \in Outpoints BY <1>1 DEF Node
<1>4. ASSUME NEW g \in Outpoints PROVE Pending(g)' = Pending(g) \ {w}
  BY <1>1 DEF Pending
<1>5. ASSUME NEW g \in Outpoints, g # n.graph \/ tr[w].cut PROVE LimitInv(g)'
  <2>1. graphs'[g] = graphs[g] BY <1>5 DEF StoreNode, TablesInv
  <2>. QED BY <1>2, <1>4, <2>1, LimitCalm DEF LimitsInv
<1>6. ASSUME ~tr[w].cut PROVE LimitInv(n.graph)'
  <2>. PICK g \in Outpoints : g = n.graph BY <1>3
  <2>. PICK A : A = Pending(g) OBVIOUS
  <2>1. w \in A BY <1>1, <1>6 DEF Pending
  <2>2. graphs[g] # None BY <2>1 DEF LimitsInv, LimitInv
  <2>. PICK nodes \in NodeSets : nodes = graphs[g] BY <2>2 DEF TablesInv
  <2>. PICK added : added = nodes \cup {n.op} OBVIOUS
  <2>3. graphs'[g] = added BY <1>6 DEF StoreNode, TablesInv
  <2>4. added # None BY <1>3 DEF NodeSets, GaspGraphAssumption
  <2>5. A \subseteq Slots /\ IsFiniteSet(Slots) BY DEF Pending, GaspGraphAssumption
  <2>6. IsFiniteSet(A) BY <2>5, FS_Subset
  <2>7. Cardinality(A \ {w}) = Cardinality(A) - 1 BY <2>1, <2>6, FS_RemoveElement
  <2>8. \/ Cardinality(added) = Cardinality(nodes)
        \/ Cardinality(added) = Cardinality(nodes) + 1
    BY FS_AddElement DEF NodeSets
  <2>. PICK a, b, k, c, d, m :
         a = Cardinality(A) /\ b = Cardinality(A \ {w}) /\ k = Cardinality(Slots)
         /\ c = Cardinality(nodes) /\ d = Cardinality(added) /\ m = limit
    OBVIOUS
  <2>9. a \in Nat /\ k \in Nat /\ c \in Nat
    BY <2>5, <2>6, FS_CardinalityType DEF NodeSets
  <2>10. ASSUME limit # None PROVE d + b < m + k
    <3>1. m \in Nat BY <2>10 DEF TablesInv, GaspGraphAssumption
    <3>2. c + a < m + k BY <2>2, <2>10 DEF LimitsInv, LimitInv
    <3>3. b = a - 1 /\ (d = c \/ d = c + 1) BY <2>7, <2>8
    <3>. QED BY <2>9, <3>1, <3>2, <3>3
  <2>11. LimitInv(g)' BY <1>2, <1>4, <2>3, <2>4, <2>10 DEF LimitInv
  <2>. QED BY <2>11
<1>. QED BY <1>3, <1>5, <1>6 DEF LimitsInv

\* What every step does to the room that is left.
LEMMA LimitsKept ==
  ASSUME GaspGraphAssumption, TablesInv, Traversals, LimitsInv, [Next]_vars
  PROVE  LimitsInv'
<1>. USE DEF outside, history
<1>1. ASSUME UNCHANGED <<limit, graphs, tr>> PROVE LimitsInv' BY <1>1, LimitsSteady
<1>2. ASSUME NEW w \in Slots, NEW o, Begin(w, o), UNCHANGED <<limit, graphs>> PROVE LimitsInv'
  <2>1. \A v \in Slots \ {w} : tr'[v] = tr[v] BY <1>2 DEF Begin, Traversals
  <2>. PICK f : f = Free OBVIOUS
  <2>2. DOMAIN f = Fields BY DEF Free, Fields
  <2>3. \/ \E stk : tr'[w] = [f EXCEPT !.st = "fetch", !.root = o, !.stack = stk]
        \/ tr'[w] = [f EXCEPT !.st = "wait", !.root = o]
    BY <1>2 DEF Begin, Traversals
  <2>4. tr'[w].st # "append" BY <2>2, <2>3 DEF Fields
  <2>. QED BY <1>2, <2>1, <2>4, LimitsSteady
<1>3. ASSUME NEW w \in Slots, SlotStep(w) PROVE LimitsInv'
  <2>1. DOMAIN tr[w] = Fields BY DEF Traversals, TraversalInv, FieldsInv
  <2>2. CASE RequestNode(w)
    <3>1. PICK s \in {"fetching", "sharing"} : tr' = [tr EXCEPT ![w].st = s]
      BY <2>2 DEF RequestNode
    <3>2. tr'[w].st = s /\ \A v \in Slots \ {w} : tr'[v] = tr[v]
      BY <2>1, <3>1 DEF Traversals, Fields
    <3>. QED BY <2>2, <3>2, LimitsSteady DEF RequestNode
  <2>3. CASE doNodeRequest(w)
    <3>. PICK W \in SUBSET Slots : W = Waiting(w, Top(w).op) BY DEF Waiting
    <3>1. ASSUME NEW v \in Slots, v \notin W PROVE tr'[v] = tr[v]
      BY <2>3, <3>1 DEF doNodeRequest
    <3>2. ASSUME NEW v \in W PROVE tr'[v].st # "append"
      <4>1. DOMAIN tr[v] = Fields BY DEF Traversals, TraversalInv, FieldsInv
      <4>2. \/ \E n : tr'[v] = [tr[v] EXCEPT !.st = "node", !.node = n]
            \/ tr'[v] = [tr[v] EXCEPT !.st = "error", !.trouble = TRUE]
        BY <2>3 DEF doNodeRequest
      <4>. QED BY <4>1, <4>2 DEF Fields
    <3>. QED BY <2>3, <3>1, <3>2, LimitsSteady DEF doNodeRequest
  <2>4. CASE processIncomingNode(w)
    <3>1. CASE tr[w].node.op \in tr[w].seen
      <4>1. tr' = [tr EXCEPT ![w].st = "deps", ![w].node = None] /\ UNCHANGED <<limit, graphs>>
        BY <2>4, <3>1 DEF processIncomingNode
      <4>2. tr'[w].st = "deps" /\ \A v \in Slots \ {w} : tr'[v] = tr[v]
        BY <2>1, <4>1 DEF Traversals, Fields
      <4>. QED BY <4>1, <4>2, LimitsSteady
    <3>2. CASE tr[w].node.op \notin tr[w].seen
      <4>. PICK n : n = tr[w].node OBVIOUS
      <4>1. tr[w].st = "node" /\ n \in Node /\ AppendToGraph(w, n) /\ UNCHANGED limit
        BY <2>4, <3>2 DEF processIncomingNode, Traversals, TraversalInv, FieldsInv, Carrying
      <4>. QED BY <4>1, LimitsAppend
    <3>. QED BY <3>1, <3>2
  <2>5. CASE NeedInputs(w)
    <3>1. tr'[w].st \in {"error", "deps"} /\ \A v \in Slots \ {w} : tr'[v] = tr[v]
      BY <2>5, NeedFields
    <3>. QED BY <2>5, <3>1, LimitsSteady DEF NeedInputs
  <2>6. CASE processUTXO(w)
    <3>1. tr'[w].st = "fetch" /\ \A v \in Slots \ {w} : tr'[v] = tr[v]
      BY <2>6, DescendFields
    <3>. QED BY <2>6, <3>1, LimitsSteady DEF processUTXO
  <2>7. CASE ReturnDependency(w)
    <3>1. tr'[w].st = "deps" /\ \A v \in Slots \ {w} : tr'[v] = tr[v]
      BY <2>7, ReturnFields
    <3>. QED BY <2>7, <3>1, LimitsSteady DEF ReturnDependency
  <2>8. CASE /\ FailRoot(w) \/ CompleteGraph(w) \/ FinalizeGraph(w) \/ ReturnRoot(w)
             /\ Finish(w, TRUE) \/ Finish(w, FALSE)
    <3>1. UNCHANGED limit /\ tr[w].st \notin Out
      BY <2>8 DEF FailRoot, CompleteGraph, FinalizeGraph, ReturnRoot, Out
    <3>. QED BY <2>8, <3>1, LimitsFinish
  <2>9. CASE CompleteGraph(w) /\ ~Finish(w, FALSE)
    <3>1. tr' = [tr EXCEPT ![w].st = "finalize"] /\ UNCHANGED <<limit, graphs>>
      BY <2>9 DEF CompleteGraph
    <3>2. tr'[w].st = "finalize" /\ \A v \in Slots \ {w} : tr'[v] = tr[v]
      BY <2>1, <3>1 DEF Traversals, Fields
    <3>. QED BY <3>1, <3>2, LimitsSteady
  <2>10. CASE FinalizeGraph(w) /\ ~Finish(w, FALSE)
    <3>1. PICK p : /\ tr' = [tr EXCEPT ![w].st = "submit", ![w].plan = p, ![w].todo = p]
                   /\ UNCHANGED <<limit, graphs>>
      BY <2>10 DEF FinalizeGraph
    <3>2. tr'[w].st = "submit" /\ \A v \in Slots \ {w} : tr'[v] = tr[v]
      BY <2>1, <3>1 DEF Traversals, Fields
    <3>. QED BY <3>1, <3>2, LimitsSteady
  <2>11. CASE submitBeef(w)
    <3>1. PICK t \in NextInOrder(w), s \in {"submitting", "subwait"} :
             tr' = [tr EXCEPT ![w].st = s, ![w].tx = t]
      BY <2>11 DEF submitBeef
    <3>2. tr'[w].st = s /\ \A v \in Slots \ {w} : tr'[v] = tr[v]
      BY <2>1, <3>1 DEF Traversals, Fields
    <3>. QED BY <2>11, <3>2, LimitsSteady DEF submitBeef
  <2>12. CASE Submit(w)
    <3>1. ASSUME NEW v \in Slots, v \in Submitters(w) PROVE tr'[v].st # "append"
      <4>1. DOMAIN tr[v] = Fields BY DEF Traversals, TraversalInv, FieldsInv
      <4>2. \/ \E left : tr'[v] = [tr[v] EXCEPT !.st = "submit", !.todo = left, !.tx = None]
            \/ tr'[v] = [tr[v] EXCEPT !.st = "failed", !.tx = None]
        BY <2>12, <3>1 DEF Submit, SubmitOk
      <4>. QED BY <4>1, <4>2 DEF Fields
    <3>2. ASSUME NEW v \in Slots, v \notin Submitters(w) PROVE tr'[v] = tr[v]
      BY <2>12, <3>2 DEF Submit, SubmitOk
    <3>. QED BY <2>12, <3>1, <3>2, LimitsSteady DEF Submit
  <2>. QED BY <1>3, <2>2, <2>3, <2>4, <2>5, <2>6, <2>7, <2>8, <2>9, <2>10, <2>11, <2>12,
       LimitsStore
       DEF SlotStep, FailRoot, ReturnRoot
<1>4. ASSUME NEW w \in Slots, runProcessingWorker(w) PROVE LimitsInv'
  <2>. PICK o : o = Head(queue) OBVIOUS
  <2>1. Begin(w, o) /\ UNCHANGED <<limit, graphs>> BY <1>4 DEF runProcessingWorker
  <2>. QED BY <1>2, <2>1
<1>5. ASSUME NEW w \in Slots, NEW o \in Roots, SyncCall(w, o) PROVE LimitsInv'
  BY <1>2, <1>5 DEF SyncCall
<1>. QED BY <1>1, <1>3, <1>4, <1>5 DEF Next, Worker, ProcessUTXO, Close, SubmitLocally,
     DeleteOutput, vars

-----------------------------------------------------------------------------
(* Traversals that share no request *)

\* A slot whose traversal does not move, or has returned.
LEMMA OwnCalm ==
  ASSUME NEW v \in Slots, OwnInv(v), UNCHANGED limit,
         \/ /\ tr'[v] = tr[v]
            /\ tr[v].st = "append" => graphs'[tr[v].root] = graphs[tr[v].root]
         \/ tr'[v] = Free
  PROVE  OwnInv(v)'
<1>1. CASE tr'[v] = Free BY <1>1 DEF OwnInv, Free, Out
<1>2. CASE /\ tr'[v] = tr[v]
           /\ tr[v].st = "append" => graphs'[tr[v].root] = graphs[tr[v].root]
  BY <1>2 DEF OwnInv
<1>. QED BY <1>1, <1>2

\* Traversals that leave their frames and the graphs alone.
LEMMA SteadyStep ==
  ASSUME shared = {}, UnsharedInv, UNCHANGED <<processing, graphs, appended, limit>>,
         \A v \in Slots :
            \/ tr'[v] = tr[v]
            \/ /\ tr[v].st \notin Out /\ tr'[v].st \notin Carrying \cup {"sharing"}
               /\ tr'[v].root = tr[v].root /\ tr'[v].stack = tr[v].stack
  PROVE  UnsharedInv'
<1>1. ASSUME NEW v \in Slots PROVE OwnInv(v)' BY <1>1 DEF UnsharedInv, OwnInv, Carrying
<1>. QED BY <1>1 DEF UnsharedInv, OwnGraphOnly, GraphsDiscarded, GraphsWithinLimit

\* A call that returns leaves no graph.
LEMMA UnsharedFinish ==
  ASSUME GaspGraphAssumption, TablesInv, Traversals, shared = {}, NEW w \in Slots,
         tr[w].st \notin Out, UnsharedInv, NEW ok, Finish(w, ok), UNCHANGED <<appended, limit>>
  PROVE  UnsharedInv'
<1>. PICK r : r = tr[w].root OBVIOUS
<1>1. ASSUME NEW v \in Slots PROVE OwnInv(v)'
  <2>1. OwnInv(v) BY DEF UnsharedInv
  <2>2. CASE tr'[v] = Free BY <2>1, <2>2, OwnCalm
  <2>3. CASE tr'[v] # Free
    <3>1. v # w BY <2>3 DEF Finish
    <3>2. tr[v].st = "append" => tr[v].root # r /\ tr[v].node.graph = tr[v].root
      BY <2>1, <3>1 DEF OwnInv, Out, Carrying, Traversals, TraversalInv, OwnerInv
    <3>3. tr'[v] = tr[v] BY <2>3, <3>2 DEF Finish
    <3>4. tr[v].st = "append" => graphs'[tr[v].root] = graphs[tr[v].root]
      BY <3>2 DEF Finish, TablesInv, Traversals, TraversalInv, OwnerInv, Out
    <3>. QED BY <2>1, <3>3, <3>4, OwnCalm
  <2>. QED BY <2>2, <2>3
<1>2. \A o \in Outpoints : graphs'[o] = graphs[o] \/ graphs'[o] = None
  BY DEF Finish, TablesInv
<1>3. GraphsDiscarded' BY DEF Finish, TablesInv, UnsharedInv, GraphsDiscarded
<1>4. GraphsWithinLimit' BY <1>2 DEF UnsharedInv, GraphsWithinLimit
<1>. QED BY <1>1, <1>3, <1>4 DEF UnsharedInv, OwnGraphOnly

\* A call that starts asks for the graph of its root.
LEMMA UnsharedBegin ==
  ASSUME GaspGraphAssumption, TablesInv, Traversals, shared = {}, NEW w \in Slots,
         UnsharedInv, NEW o \in Roots, Begin(w, o), UNCHANGED <<graphs, appended, limit>>
  PROVE  UnsharedInv'
<1>1. o \in Outpoints /\ w # None BY DEF GaspGraphAssumption
<1>. PICK f : f = Free OBVIOUS
<1>2. DOMAIN f = Fields /\ f.stack = << >> BY DEF Free, Fields
<1>3. OwnInv(w)'
  <2>1. CASE processing[o] = None
    <3>. PICK fr : fr = Frame(o, None, o) OBVIOUS
    <3>1. tr'[w] = [f EXCEPT !.st = "fetch", !.root = o, !.stack = <<fr>>]
      BY <2>1 DEF Begin, Traversals
    <3>2. tr'[w].st = "fetch" /\ tr'[w].root = o /\ tr'[w].stack = <<fr>>
      BY <1>2, <3>1 DEF Fields
    <3>3. fr.graph = o BY DEF Frame
    <3>4. Len(<<fr>>) = 1 /\ <<fr>>[1] = fr OBVIOUS
    <3>5. \A k \in 1 .. Len(<<fr>>) : <<fr>>[k].graph = o BY <3>3, <3>4
    <3>. QED BY <3>2, <3>5 DEF OwnInv, Carrying
  <2>2. CASE processing[o] # None
    <3>1. tr'[w] = [f EXCEPT !.st = "wait", !.root = o] BY <2>2 DEF Begin, Traversals
    <3>2. tr'[w].st = "wait" BY <1>2, <3>1 DEF Fields
    <3>. QED BY <3>2 DEF OwnInv, Out
  <2>. QED BY <2>1, <2>2
<1>4. ASSUME NEW v \in Slots, v # w PROVE tr'[v] = tr[v] BY <1>4 DEF Begin, Traversals
<1>5. \A v \in Slots : OwnInv(v)' BY <1>3, <1>4, OwnCalm DEF UnsharedInv
<1>6. GraphsDiscarded' BY <1>1 DEF Begin, TablesInv, UnsharedInv, GraphsDiscarded
<1>. QED BY <1>5, <1>6 DEF UnsharedInv, OwnGraphOnly, GraphsWithinLimit

\* The frame on top is about the graph of the root.
LEMMA TopIsOwn ==
  ASSUME NEW w \in Slots, TraversalInv(w), tr[w].st \notin Out, OwnInv(w)
  PROVE  Top(w).graph = tr[w].root
<1>1. Len(tr[w].stack) \in 1 .. Len(tr[w].stack) BY TopIsFrame
<1>. QED BY <1>1 DEF OwnInv, Top

\* The peer answers for the graph that was asked for.
LEMMA UnsharedRequest ==
  ASSUME GaspGraphAssumption, Traversals, shared = {}, NEW w \in Slots, UnsharedInv,
         doNodeRequest(w)
  PROVE  UnsharedInv'
<1>1. /\ TraversalInv(w) /\ tr[w].st \notin Out /\ DOMAIN tr[w] = Fields
      /\ UNCHANGED <<processing, graphs, appended, limit>> /\ OwnInv(w)
  BY DEF Traversals, doNodeRequest, TraversalInv, FieldsInv, Out, outside, history, UnsharedInv
<1>2. Top(w).graph = tr[w].root BY <1>1, TopIsOwn
<1>3. ASSUME NEW v \in Slots PROVE v \in Waiting(w, Top(w).op) <=> v = w
  <2>1. tr[v].st # "sharing" BY DEF UnsharedInv, OwnInv, Out
  <2>. QED BY <2>1 DEF Waiting
<1>4. ASSUME NEW v \in Slots, v # w PROVE tr'[v] = tr[v] BY <1>3, <1>4 DEF doNodeRequest
<1>5. CASE \E n \in ProvideForeignGASPNode(Top(w).graph, Top(w).op) :
             tr'[w] = [tr[w] EXCEPT !.st = "node", !.node = n]
  <2>1. PICK n \in ProvideForeignGASPNode(Top(w).graph, Top(w).op) :
             tr'[w] = [tr[w] EXCEPT !.st = "node", !.node = n]
    BY <1>5
  <2>2. n.graph = tr[w].root BY <1>2 DEF ProvideForeignGASPNode
  <2>3. /\ tr'[w].st = "node" /\ tr'[w].root = tr[w].root /\ tr'[w].stack = tr[w].stack
        /\ tr'[w].node = n
    BY <1>1, <2>1 DEF Fields
  <2>4. OwnInv(w)' BY <1>1, <2>2, <2>3 DEF OwnInv
  <2>5. \A v \in Slots : OwnInv(v)' BY <1>1, <1>4, <2>4, OwnCalm DEF UnsharedInv
  <2>. QED BY <1>1, <2>5 DEF UnsharedInv, OwnGraphOnly, GraphsDiscarded, GraphsWithinLimit
<1>6. CASE tr'[w] = [tr[w] EXCEPT !.st = "error", !.trouble = TRUE]
  <2>1. /\ tr'[w].st = "error" /\ tr'[w].root = tr[w].root /\ tr'[w].stack = tr[w].stack
    BY <1>1, <1>6 DEF Fields
  <2>. QED BY <1>1, <1>4, <2>1, SteadyStep DEF Carrying
<1>. QED BY <1>3, <1>5, <1>6 DEF doNodeRequest

\* A node is for the graph of the root, which has room.
LEMMA UnsharedAppend ==
  ASSUME GaspGraphAssumption, TablesInv, Traversals, shared = {}, NEW w \in Slots, UnsharedInv,
         tr[w].st = "node", NEW n, n = tr[w].node, AppendToGraph(w, n),
         UNCHANGED <<processing, appended, limit>>
  PROVE  UnsharedInv'
<1>1. /\ tr[w].st \notin Out /\ OwnInv(w) /\ n \in Node
      /\ tr[w].root \in Outpoints /\ processing[tr[w].root] = w
  BY DEF Traversals, TraversalInv, FieldsInv, Out, UnsharedInv, OwnerInv, Carrying
<1>2. n.graph = tr[w].root BY <1>1 DEF OwnInv, Carrying
<1>. PICK r \in Outpoints : r = tr[w].root BY <1>1
<1>3. /\ \A v \in Slots \ {w} : tr'[v] = tr[v]
      /\ tr'[w].st \in {"error", "append"} /\ tr'[w].root = r
      /\ tr'[w].stack = tr[w].stack /\ (tr'[w].st = "append" => tr'[w].node = n)
  BY <1>1, AppendFields
<1>4. PICK nodes \in NodeSets :
        /\ nodes = IF graphs[n.graph] = None THEN {} ELSE graphs[n.graph]
        /\ graphs' = [graphs EXCEPT ![n.graph] = nodes]
        /\ tr'[w].st = "append" /\ limit # None => ~(Cardinality(nodes) >= limit)
  BY <1>1, AppendFields
<1>5. (\A o \in Outpoints : o # r => graphs'[o] = graphs[o]) /\ graphs'[r] = nodes
  BY <1>2, <1>4 DEF TablesInv
<1>6. Cardinality(nodes) \in Nat /\ (limit # None => limit \in Nat)
  BY FS_CardinalityType DEF NodeSets, TablesInv, GaspGraphAssumption
<1>7. GraphsDiscarded'
  <2>1. processing[r] # None BY <1>1 DEF GaspGraphAssumption
  <2>. QED BY <1>5, <2>1 DEF UnsharedInv, GraphsDiscarded
<1>8. GraphsWithinLimit'
  <2>1. ASSUME limit # None PROVE Cardinality(nodes) <= limit
    <3>1. CASE graphs[r] = None
      <4>1. Cardinality(nodes) = 0 BY <1>2, <1>4, <3>1, FS_EmptySet
      <4>. QED BY <1>6, <2>1, <4>1
    <3>2. CASE graphs[r] # None
      BY <1>2, <1>4, <2>1, <3>2 DEF UnsharedInv, GraphsWithinLimit
    <3>. QED BY <3>1, <3>2
  <2>. QED BY <1>5, <2>1 DEF UnsharedInv, GraphsWithinLimit
<1>9. OwnInv(w)'
  <2>1. limit # None /\ tr'[w].st = "append" => Cardinality(nodes) < limit
    BY <1>4, <1>6
  <2>2. \A k \in 1 .. Len(tr'[w].stack) : tr'[w].stack[k].graph = tr'[w].root
    BY <1>1, <1>3 DEF OwnInv
  <2>3. tr'[w].st \in Carrying => tr'[w].st = "append" BY <1>3 DEF Carrying
  <2>. QED BY <1>2, <1>3, <1>5, <2>1, <2>2, <2>3 DEF OwnInv
<1>10. ASSUME NEW v \in Slots, v # w PROVE OwnInv(v)'
  <2>1. tr[v].st = "append" => tr[v].root # r /\ tr[v].root \in Outpoints
    BY <1>1, <1>10 DEF Traversals, TraversalInv, OwnerInv, Out
  <2>. QED BY <1>3, <1>5, <1>10, <2>1, OwnCalm DEF UnsharedInv
<1>. QED BY <1>7, <1>8, <1>9, <1>10 DEF UnsharedInv, OwnGraphOnly

\* A stack whose top is replaced by a frame about the same graph.
LEMMA OwnStack ==
  ASSUME NEW stk \in Seq(FrameSet), NEW fr \in FrameSet, NEW r, fr.graph = r,
         \A k \in 1 .. Len(stk) : stk[k].graph = r
  PROVE  \A k \in 1 .. Len([stk EXCEPT ![Len(stk)] = fr]) :
            [stk EXCEPT ![Len(stk)] = fr][k].graph = r
<1>1. /\ Len([stk EXCEPT ![Len(stk)] = fr]) = Len(stk)
      /\ \A k \in 1 .. Len(stk) :
            [stk EXCEPT ![Len(stk)] = fr][k] = IF k = Len(stk) THEN fr ELSE stk[k]
  OBVIOUS
<1>. PICK new : new = [stk EXCEPT ![Len(stk)] = fr] OBVIOUS
<1>2. ASSUME NEW k \in 1 .. Len(new) PROVE new[k].graph = r
  <2>1. k \in 1 .. Len(stk) /\ (new[k] = fr \/ new[k] = stk[k]) BY <1>1
  <2>. QED BY ONLY <2>1, fr.graph = r, \A i \in 1 .. Len(stk) : stk[i].graph = r
<1>. QED BY <1>2

\* The node is stored in the graph of the root.
LEMMA UnsharedStore ==
  ASSUME GaspGraphAssumption, TablesInv, Traversals, LimitsInv, shared = {}, NEW w \in Slots,
         UnsharedInv, StoreNode(w)
  PROVE  UnsharedInv'
<1>1. /\ tr[w].st = "append" /\ tr[w].st \notin Out /\ tr[w].node \in Node
      /\ \A v \in Slots \ {w} : tr'[v] = tr[v]
      /\ tr'[w].st \in {"error", "stored"} /\ tr'[w].root = tr[w].root
  BY StoreFields
<1>2. PICK fr \in FrameSet :
        /\ fr.graph = tr[w].node.graph
        /\ tr'[w].stack = [tr[w].stack EXCEPT ![Len(tr[w].stack)] = fr]
  BY StoreFields
<1>3. /\ OwnInv(w) /\ tr[w].root \in Outpoints /\ processing[tr[w].root] = w
      /\ tr[w].stack \in Seq(FrameSet)
  BY <1>1 DEF Traversals, TraversalInv, FieldsInv, UnsharedInv, OwnerInv
<1>. PICK n : n = tr[w].node OBVIOUS
<1>4. n.graph = tr[w].root /\ n.op \in Outpoints BY <1>1, <1>3 DEF OwnInv, Carrying, Node
<1>. PICK r \in Outpoints : r = tr[w].root BY <1>3
<1>5. UNCHANGED <<processing, limit>> BY DEF StoreNode, outside
<1>6. OwnGraphOnly' BY <1>4 DEF StoreNode, UnsharedInv, OwnGraphOnly
<1>7. \A o \in Outpoints : o # r => graphs'[o] = graphs[o]
  BY <1>4 DEF StoreNode, TablesInv
<1>8. GraphsDiscarded'
  <2>1. processing[r] # None BY <1>3 DEF GaspGraphAssumption
  <2>. QED BY <1>5, <1>7, <2>1 DEF UnsharedInv, GraphsDiscarded
<1>9. GraphsWithinLimit'
  <2>1. CASE tr[w].cut BY <1>5, <2>1 DEF StoreNode, UnsharedInv, GraphsWithinLimit
  <2>2. CASE ~tr[w].cut
    <3>1. w \in Pending(r) BY <1>1, <1>4, <2>2 DEF Pending
    <3>2. graphs[r] # None BY <3>1 DEF LimitsInv, LimitInv
    <3>. PICK nodes \in NodeSets : nodes = graphs[r] BY <3>2 DEF TablesInv
    <3>3. graphs'[r] = nodes \cup {n.op} BY <1>4, <2>2 DEF StoreNode, TablesInv
    <3>4. \/ Cardinality(nodes \cup {n.op}) = Cardinality(nodes)
          \/ Cardinality(nodes \cup {n.op}) = Cardinality(nodes) + 1
      BY FS_AddElement DEF NodeSets
    <3>5. Cardinality(nodes) \in Nat /\ (limit # None => limit \in Nat)
      BY FS_CardinalityType DEF NodeSets, TablesInv, GaspGraphAssumption
    <3>6. limit # None => Cardinality(nodes) < limit
      BY <1>1, <1>3, <3>2 DEF OwnInv
    <3>7. limit # None => Cardinality(nodes \cup {n.op}) <= limit
      BY <3>4, <3>5, <3>6
    <3>. QED BY <1>5, <1>7, <3>3, <3>7 DEF UnsharedInv, GraphsWithinLimit
  <2>. QED BY <2>1, <2>2
<1>10. OwnInv(w)'
  <2>1. \A k \in 1 .. Len(tr[w].stack) : tr[w].stack[k].graph = r
    BY <1>1, <1>3 DEF OwnInv
  <2>2. \A k \in 1 .. Len(tr'[w].stack) : tr'[w].stack[k].graph = r
    BY <1>2, <1>3, <1>4, <2>1, OwnStack
  <2>. QED BY <1>1, <2>2 DEF OwnInv, Carrying
<1>11. ASSUME NEW v \in Slots, v # w PROVE OwnInv(v)'
  <2>1. tr[v].st = "append" => tr[v].root # r /\ tr[v].root \in Outpoints
    BY <1>3, <1>11 DEF Traversals, TraversalInv, OwnerInv, Out
  <2>. QED BY <1>1, <1>5, <1>7, <1>11, <2>1, OwnCalm DEF UnsharedInv
<1>. QED BY <1>6, <1>8, <1>9, <1>10, <1>11 DEF UnsharedInv

\* FindNeededInputs leaves the graph of the frame alone.
LEMMA UnsharedNeed ==
  ASSUME GaspGraphAssumption, TablesInv, Traversals, shared = {}, NEW w \in Slots,
         UnsharedInv, NeedInputs(w)
  PROVE  UnsharedInv'
<1>1. /\ TraversalInv(w) /\ tr[w].st \notin Out
      /\ \A v \in Slots \ {w} : tr'[v] = tr[v]
      /\ tr'[w].st \in {"error", "deps"} /\ tr'[w].root = tr[w].root
  BY NeedFields
<1>2. PICK fr \in FrameSet :
        /\ fr.graph = Top(w).graph
        /\ tr'[w].stack = [tr[w].stack EXCEPT ![Len(tr[w].stack)] = fr]
  BY NeedFields
<1>3. OwnInv(w) /\ tr[w].stack \in Seq(FrameSet)
  BY <1>1 DEF TraversalInv, FieldsInv, UnsharedInv
<1>. PICK r : r = tr[w].root OBVIOUS
<1>4. Top(w).graph = r BY <1>1, <1>3, TopIsOwn
<1>5. UNCHANGED <<processing, graphs, appended, limit>> BY DEF NeedInputs, outside, history
<1>6. OwnInv(w)'
  <2>1. \A k \in 1 .. Len(tr[w].stack) : tr[w].stack[k].graph = r
    BY <1>1, <1>3 DEF OwnInv
  <2>2. \A k \in 1 .. Len(tr'[w].stack) : tr'[w].stack[k].graph = r
    BY <1>2, <1>3, <1>4, <2>1, OwnStack
  <2>. QED BY <1>1, <2>2 DEF OwnInv, Carrying
<1>7. \A v \in Slots : OwnInv(v)' BY <1>1, <1>5, <1>6, OwnCalm DEF UnsharedInv
<1>. QED BY <1>5, <1>7 DEF UnsharedInv, OwnGraphOnly, GraphsDiscarded, GraphsWithinLimit

\* The frames of a traversal that descends or returns are about the graph of the root.
LEMMA UnsharedStack ==
  ASSUME GaspGraphAssumption, Traversals, shared = {}, NEW w \in Slots, UnsharedInv,
         processUTXO(w) \/ ReturnDependency(w)
  PROVE  UnsharedInv'
<1>1. UNCHANGED <<processing, graphs, appended, limit>> /\ OwnInv(w)
  BY DEF processUTXO, ReturnDependency, outside, history, UnsharedInv
<1>2. OwnInv(w)'
  <2>1. CASE processUTXO(w)
    <3>1. /\ TraversalInv(w) /\ tr[w].st \notin Out /\ tr'[w].st = "fetch"
          /\ tr'[w].root = tr[w].root /\ Len(tr'[w].stack) = Len(tr[w].stack) + 1
          /\ \A k \in 1 .. Len(tr[w].stack) : tr'[w].stack[k].graph = tr[w].stack[k].graph
          /\ tr'[w].stack[Len(tr[w].stack) + 1].graph = Top(w).graph
      BY <2>1, DescendFields
    <3>2. Top(w).graph = tr[w].root BY <1>1, <3>1, TopIsOwn
    <3>3. Len(tr[w].stack) \in Nat BY <3>1, TopIsFrame
    <3>4. \A k \in 1 .. Len(tr[w].stack) + 1 : tr'[w].stack[k].graph = tr[w].root
      <4>1. \A k \in 1 .. Len(tr[w].stack) : tr'[w].stack[k].graph = tr[w].root
        BY <1>1, <3>1 DEF OwnInv
      <4>. QED BY <3>1, <3>2, <3>3, <4>1
    <3>. QED BY <3>1, <3>4 DEF OwnInv, Carrying
  <2>2. CASE ReturnDependency(w)
    <3>1. /\ TraversalInv(w) /\ tr[w].st \notin Out /\ tr'[w].st = "deps"
          /\ tr'[w].root = tr[w].root /\ Len(tr'[w].stack) <= Len(tr[w].stack)
          /\ Len(tr'[w].stack) \in Nat
          /\ \A k \in 1 .. Len(tr'[w].stack) : tr'[w].stack[k] = tr[w].stack[k]
      BY <2>2, ReturnFields
    <3>2. Len(tr[w].stack) \in Nat BY <3>1, TopIsFrame
    <3>3. \A k \in 1 .. Len(tr'[w].stack) : tr'[w].stack[k].graph = tr[w].root
      BY <1>1, <3>1, <3>2 DEF OwnInv
    <3>. QED BY <3>1, <3>3 DEF OwnInv, Carrying
  <2>. QED BY <2>1, <2>2
<1>3. ASSUME NEW v \in Slots, v # w PROVE tr'[v] = tr[v]
  BY <1>3 DEF processUTXO, ReturnDependency, Traversals
<1>4. \A v \in Slots : OwnInv(v)' BY <1>1, <1>2, <1>3, OwnCalm DEF UnsharedInv
<1>. QED BY <1>1, <1>4 DEF UnsharedInv, OwnGraphOnly, GraphsDiscarded, GraphsWithinLimit

\* Only a request that is shared now makes a difference later.
LEMMA SharedGrows ==
  ASSUME [Next]_vars PROVE shared \subseteq shared'
<1>1. ASSUME NEW w \in Slots, SlotStep(w) PROVE shared \subseteq shared'
  BY <1>1 DEF SlotStep, RequestNode, doNodeRequest, processIncomingNode, StoreNode,
     NeedInputs, processUTXO, ReturnDependency, FailRoot, CompleteGraph, FinalizeGraph, submitBeef, Submit, ReturnRoot,
     history
<1>. QED BY <1>1 DEF Next, Worker, ProcessUTXO, runProcessingWorker, SyncCall, Close,
     SubmitLocally, DeleteOutput, vars, history

\* What every step does as long as no request was shared.
LEMMA UnsharedKept ==
  ASSUME GaspGraphAssumption, TablesInv, Traversals, LimitsInv, UnsharedInv,
         [Next]_vars
  PROVE  UnsharedInv'
<1>. SUFFICES ASSUME shared' = {} PROVE UnsharedInv' BY DEF UnsharedInv
<1>. USE DEF outside, history
<1>0. shared = {} BY SharedGrows
<1>1. ASSUME UNCHANGED <<tr, processing, graphs, appended, limit>> PROVE UnsharedInv'
  BY <1>0, <1>1 DEF UnsharedInv, OwnGraphOnly, GraphsDiscarded, GraphsWithinLimit, OwnInv
<1>2. ASSUME NEW w \in Slots, runProcessingWorker(w) PROVE UnsharedInv'
  <2>. PICK o : o = Head(queue) OBVIOUS
  <2>1. o \in Roots BY <1>2 DEF runProcessingWorker, TablesInv
  <2>2. Begin(w, o) /\ UNCHANGED <<graphs, appended, limit>> BY <1>2 DEF runProcessingWorker
  <2>. QED BY <1>0, <2>1, <2>2, UnsharedBegin
<1>3. ASSUME NEW w \in Slots, NEW o \in Roots, SyncCall(w, o) PROVE UnsharedInv'
  BY <1>0, <1>3, UnsharedBegin DEF SyncCall
<1>4. ASSUME NEW w \in Slots, SlotStep(w) PROVE UnsharedInv'
  <2>1. DOMAIN tr[w] = Fields /\ tr[w].st \in States
    BY DEF Traversals, TraversalInv, FieldsInv
  <2>2. CASE RequestNode(w)
    <3>1. tr' = [tr EXCEPT ![w].st = "fetching"] BY <2>2 DEF RequestNode
    <3>2. tr'[w].st = "fetching" /\ tr'[w].root = tr[w].root /\ tr'[w].stack = tr[w].stack
      BY <2>1, <3>1 DEF Traversals, Fields
    <3>3. ASSUME NEW v \in Slots, v # w PROVE tr'[v] = tr[v] BY <3>1, <3>3 DEF Traversals
    <3>. QED BY <1>0, <2>2, <3>2, <3>3, SteadyStep DEF RequestNode, Out, Carrying
  <2>3. CASE processIncomingNode(w)
    <3>1. CASE tr[w].node.op \in tr[w].seen
      <4>1. tr' = [tr EXCEPT ![w].st = "deps", ![w].node = None]
            /\ UNCHANGED <<processing, graphs, appended, limit>>
        BY <2>3, <3>1 DEF processIncomingNode
      <4>2. tr'[w].st = "deps" /\ tr'[w].root = tr[w].root /\ tr'[w].stack = tr[w].stack
        BY <2>1, <4>1 DEF Traversals, Fields
      <4>3. ASSUME NEW v \in Slots, v # w PROVE tr'[v] = tr[v] BY <4>1, <4>3 DEF Traversals
      <4>. QED BY <1>0, <2>3, <4>1, <4>2, <4>3, SteadyStep DEF processIncomingNode, Out, Carrying
    <3>2. CASE tr[w].node.op \notin tr[w].seen
      <4>. PICK n : n = tr[w].node OBVIOUS
      <4>. QED BY <1>0, <2>3, <3>2, UnsharedAppend DEF processIncomingNode
    <3>. QED BY <3>1, <3>2
  <2>4. CASE /\ FailRoot(w) \/ CompleteGraph(w) \/ FinalizeGraph(w) \/ ReturnRoot(w)
             /\ Finish(w, TRUE) \/ Finish(w, FALSE)
    <3>1. UNCHANGED <<appended, limit>> /\ tr[w].st \notin Out
      BY <2>4 DEF FailRoot, CompleteGraph, FinalizeGraph, ReturnRoot, Out
    <3>. QED BY <1>0, <2>4, <3>1, UnsharedFinish
  <2>5. CASE CompleteGraph(w) /\ ~Finish(w, FALSE)
    <3>1. tr' = [tr EXCEPT ![w].st = "finalize"] /\ UNCHANGED <<processing, graphs, appended, limit>>
      BY <2>5 DEF CompleteGraph
    <3>2. tr'[w].st = "finalize" /\ tr'[w].root = tr[w].root /\ tr'[w].stack = tr[w].stack
      BY <2>1, <3>1 DEF Traversals, Fields
    <3>3. ASSUME NEW v \in Slots, v # w PROVE tr'[v] = tr[v] BY <3>1, <3>3 DEF Traversals
    <3>. QED BY <1>0, <2>5, <3>1, <3>2, <3>3, SteadyStep DEF CompleteGraph, Out, Carrying
  <2>6. CASE FinalizeGraph(w) /\ ~Finish(w, FALSE)
    <3>1. PICK p : /\ tr' = [tr EXCEPT ![w].st = "submit", ![w].plan = p, ![w].todo = p]
                   /\ UNCHANGED <<processing, graphs, appended, limit>>
      BY <2>6 DEF FinalizeGraph
    <3>2. tr'[w].st = "submit" /\ tr'[w].root = tr[w].root /\ tr'[w].stack = tr[w].stack
      BY <2>1, <3>1 DEF Traversals, Fields
    <3>3. ASSUME NEW v \in Slots, v # w PROVE tr'[v] = tr[v] BY <3>1, <3>3 DEF Traversals
    <3>. QED BY <1>0, <2>6, <3>1, <3>2, <3>3, SteadyStep DEF FinalizeGraph, Out, Carrying
  <2>7. CASE submitBeef(w)
    <3>1. PICK t \in NextInOrder(w), s \in {"submitting", "subwait"} :
             tr' = [tr EXCEPT ![w].st = s, ![w].tx = t]
      BY <2>7 DEF submitBeef
    <3>2. tr'[w].st = s /\ tr'[w].root = tr[w].root /\ tr'[w].stack = tr[w].stack
      BY <2>1, <3>1 DEF Traversals, Fields
    <3>3. ASSUME NEW v \in Slots, v # w PROVE tr'[v] = tr[v] BY <3>1, <3>3 DEF Traversals
    <3>. QED BY <1>0, <2>7, <3>2, <3>3, SteadyStep DEF submitBeef, Out, Carrying
  <2>8. CASE Submit(w)
    <3>. PICK t : t = tr[w].tx OBVIOUS
    <3>1. ASSUME NEW v \in Slots, v \in Submitters(w)
          PROVE  /\ tr[v].st \notin Out /\ tr'[v].st \in {"submit", "failed"}
                 /\ tr'[v].root = tr[v].root /\ tr'[v].stack = tr[v].stack
      <4>1. \/ tr'[v] = [tr[v] EXCEPT !.st = "submit", !.todo = @ \ {t}, !.tx = None]
            \/ tr'[v] = [tr[v] EXCEPT !.st = "failed", !.tx = None]
        BY <2>8, <3>1 DEF Submit, SubmitOk
      <4>2. DOMAIN tr[v] = Fields BY DEF Traversals, TraversalInv, FieldsInv
      <4>3. tr[v].st \notin Out BY <2>8, <3>1 DEF Submit, Submitters, Out
      <4>. QED BY <4>1, <4>2, <4>3 DEF Fields
    <3>2. ASSUME NEW v \in Slots, v \notin Submitters(w) PROVE tr'[v] = tr[v]
      BY <2>8, <3>2 DEF Submit, SubmitOk
    <3>. QED BY <1>0, <2>8, <3>1, <3>2, SteadyStep DEF Submit, Carrying
  <2>. QED BY <1>0, <1>4, <2>2, <2>3, <2>4, <2>5, <2>6, <2>7, <2>8, UnsharedRequest,
       UnsharedStore, UnsharedNeed, UnsharedStack
       DEF SlotStep, FailRoot, ReturnRoot
<1>. QED BY <1>1, <1>2, <1>3, <1>4 DEF Next, Worker, ProcessUTXO, Close, SubmitLocally,
     DeleteOutput, vars

-----------------------------------------------------------------------------
(* The theorems *)

\* The invariant holds initially and every step of Next keeps it.
THEOREM Inductive ==
  ASSUME GaspGraphAssumption PROVE Spec => []IInv
<1>1. ASSUME Init PROVE IInv
  <2>1. TablesInv
    <3>1. << >> \in Seq(Roots) /\ Len(<< >>) = 0 OBVIOUS
    <3>. QED BY <1>1, <3>1 DEF Init, TablesInv, GaspGraphAssumption
  <2>2. ASSUME NEW w \in Slots PROVE TraversalInv(w)
    <3>1. tr[w] = Free BY <1>1 DEF Init
    <3>2. FieldsInv(w) BY <3>1 DEF FieldsInv, Free, Fields, States, Carrying
    <3>3. OwnerInv(w) BY <3>1 DEF OwnerInv, Free, Out
    <3>4. PlanInv(w) BY <3>1 DEF PlanInv, Free, Submitting
    <3>. QED BY <3>2, <3>3, <3>4 DEF TraversalInv
  <2>3. UnsharedInv
    <3>1. ASSUME NEW w \in Slots PROVE OwnInv(w)
      <4>1. tr[w] = Free BY <1>1 DEF Init
      <4>. QED BY <4>1 DEF OwnInv, Free, Out
    <3>. QED BY <1>1, <3>1 DEF Init, UnsharedInv, OwnGraphOnly, GraphsDiscarded, GraphsWithinLimit
  <2>4. LimitsInv
    <3>1. ASSUME NEW g \in Outpoints PROVE Pending(g) = {} /\ graphs[g] = None
      BY <1>1 DEF Init, Pending, Free
    <3>. QED BY <3>1 DEF LimitsInv, LimitInv
  <2>. QED BY <1>1, <2>1, <2>2, <2>3, <2>4 DEF Init, IInv, CompletedIsApplied
<1>2. ASSUME IInv, [Next]_vars PROVE IInv'
  <2>1. TablesInv /\ Traversals /\ LimitsInv /\ CompletedIsApplied /\ UnsharedInv
    BY <1>2 DEF IInv, Traversals
  <2>2. TablesInv' /\ Traversals' /\ LimitsInv' /\ CompletedIsApplied' /\ UnsharedInv'
    BY <1>2, <2>1, TablesKept, TraversalsKept, LimitsKept, CompletedKept, UnsharedKept
  <2>. QED BY <2>2 DEF IInv, Traversals
<1>3. Init => IInv BY <1>1
<1>4. IInv /\ [Next]_vars => IInv' BY <1>2
<1>. QED BY <1>3, <1>4, PTL DEF Spec

\* ProcessUTXOToCompletion, with any number of calls sharing requests, submissions
\* and roots: the tables keep their types, a call that returns without an error has
\* left the transaction of its root applied, and a graph gets fewer nodes over its
\* limit than there are slots.  As long as no request was shared it gets none, every
\* node goes to the graph of its traversal and a graph outlives no call.
THEOREM TraversalsSound ==
  GaspGraphAssumption /\ Spec => []TraversalsAreSound
<1>. SUFFICES ASSUME GaspGraphAssumption PROVE Spec => []TraversalsAreSound OBVIOUS
<1>1. ASSUME IInv PROVE TraversalsAreSound
  <2>1. TypeOK
    <3>1. ASSUME NEW o \in Outpoints
          PROVE  graphs[o] = None \/ graphs[o] \subseteq Outpoints
      BY <1>1 DEF IInv, TablesInv, NodeSets
    <3>2. ASSUME NEW w \in Slots
          PROVE  /\ tr[w].st \in States /\ tr[w].root \in Outpoints \cup {None}
                 /\ tr[w].todo \subseteq Txs /\ tr[w].seen \subseteq Outpoints
      BY <1>1 DEF IInv, TraversalInv, FieldsInv
    <3>. QED BY <1>1, <3>1, <3>2 DEF IInv, TablesInv, TypeOK
  <2>2. shared = {} => OwnGraphOnly /\ GraphsDiscarded /\ GraphsWithinLimit
    BY <1>1 DEF IInv, UnsharedInv
  <2>3. ASSUME NEW g \in Outpoints, graphs[g] # None, limit # None
        PROVE  Cardinality(graphs[g]) < limit + Cardinality(Slots)
    <3>. PICK a, c, k, m : /\ a = Cardinality(Pending(g)) /\ c = Cardinality(graphs[g])
                           /\ k = Cardinality(Slots) /\ m = limit
      OBVIOUS
    <3>1. Pending(g) \subseteq Slots /\ IsFiniteSet(Slots) BY DEF Pending, GaspGraphAssumption
    <3>2. IsFiniteSet(Pending(g)) BY <3>1, FS_Subset
    <3>3. graphs[g] \in NodeSets BY <1>1, <2>3 DEF IInv, TablesInv
    <3>4. a \in Nat /\ c \in Nat /\ k \in Nat BY <3>1, <3>2, <3>3, FS_CardinalityType DEF NodeSets
    <3>5. m \in Nat BY <1>1, <2>3 DEF IInv, TablesInv, GaspGraphAssumption
    <3>6. c + a < m + k BY <1>1, <2>3 DEF IInv, LimitsInv, LimitInv
    <3>. QED BY <3>4, <3>5, <3>6
  <2>4. GraphsNearLimit BY <2>3 DEF GraphsNearLimit
  <2>. QED BY <1>1, <2>1, <2>2, <2>4 DEF IInv, TraversalsAreSound
<1>2. IInv => TraversalsAreSound BY <1>1
<1>3. Spec => []IInv BY Inductive
<1>. QED BY <1>2, <1>3, PTL

\* Only submitBeef of its own slot starts or joins a submission.
LEMMA SubmitsByBeef ==
  ASSUME GaspGraphAssumption, TablesInv, Traversals, [Next]_vars, NEW w \in Slots,
         tr[w].st = "submit", tr'[w].st \in {"submitting", "subwait"}
  PROVE  submitBeef(w)
<1>. SUFFICES ASSUME ~submitBeef(w) PROVE FALSE OBVIOUS
<1>. USE DEF outside, history
<1>1. ASSUME tr'[w] = tr[w] PROVE FALSE BY <1>1
<1>2. ASSUME tr'[w] = Free PROVE FALSE BY <1>2 DEF Free
<1>3. ASSUME NEW v \in Slots, NEW o, Begin(v, o) PROVE FALSE
  <2>1. v # w BY <1>3 DEF Begin
  <2>2. tr'[w] = tr[w] BY <1>3, <2>1 DEF Begin, Traversals
  <2>. QED BY <1>1, <2>2
<1>4. ASSUME NEW v \in Slots, NEW ok, Finish(v, ok) PROVE FALSE
  <2>1. tr'[w] = Free \/ tr'[w] = tr[w] BY <1>4 DEF Finish
  <2>. QED BY <1>1, <1>2, <2>1
<1>5. ASSUME NEW v \in Slots, SlotStep(v) PROVE FALSE
  <2>1. CASE v = w
    <3>1. CASE FinalizeGraph(w) \/ CompleteGraph(w) \/ FailRoot(w) \/ RequestNode(w)
               \/ doNodeRequest(w) \/ processIncomingNode(w) \/ StoreNode(w) \/ NeedInputs(w)
               \/ processUTXO(w) \/ ReturnDependency(w) \/ Submit(w)
      BY <3>1 DEF FinalizeGraph, CompleteGraph, FailRoot, RequestNode, doNodeRequest,
         processIncomingNode, StoreNode, NeedInputs, processUTXO, ReturnDependency, Submit
    <3>2. CASE ReturnRoot(w) BY <1>4, <3>2 DEF ReturnRoot
    <3>. QED BY <1>5, <2>1, <3>1, <3>2 DEF SlotStep
  <2>2. CASE v # w
    <3>1. CASE RequestNode(v) \/ processUTXO(v) \/ ReturnDependency(v) \/ submitBeef(v)
      <4>1. tr'[w] = tr[w]
        BY <2>2, <3>1 DEF RequestNode, processUTXO, ReturnDependency, submitBeef, Traversals
      <4>. QED BY <1>1, <4>1
    <3>2. CASE doNodeRequest(v)
      <4>1. w \notin Waiting(v, Top(v).op) BY <2>2 DEF Waiting
      <4>2. tr'[w] = tr[w] BY <3>2, <4>1 DEF doNodeRequest
      <4>. QED BY <1>1, <4>2
    <3>3. CASE Submit(v)
      <4>1. w \notin Submitters(v) BY <2>2 DEF Submitters
      <4>2. tr'[w] = tr[w] BY <3>3, <4>1 DEF Submit, SubmitOk
      <4>. QED BY <1>1, <4>2
    <3>4. CASE processIncomingNode(v)
      <4>1. CASE tr[v].node.op \in tr[v].seen
        <5>1. tr'[w] = tr[w] BY <2>2, <3>4, <4>1 DEF processIncomingNode, Traversals
        <5>. QED BY <1>1, <5>1
      <4>2. CASE tr[v].node.op \notin tr[v].seen
        <5>. PICK n : n = tr[v].node OBVIOUS
        <5>1. tr[v].st \notin Out /\ n \in Node /\ AppendToGraph(v, n)
          BY <3>4, <4>2
          DEF processIncomingNode, Out, Traversals, TraversalInv, FieldsInv, Carrying
        <5>2. tr'[w] = tr[w] BY <2>2, <5>1, AppendFields
        <5>. QED BY <1>1, <5>2
      <4>. QED BY <4>1, <4>2
    <3>5. CASE CompleteGraph(v) \/ FinalizeGraph(v) \/ FailRoot(v) \/ ReturnRoot(v)
      <4>1. CASE Finish(v, TRUE) \/ Finish(v, FALSE) BY <1>4, <4>1
      <4>2. CASE ~(Finish(v, TRUE) \/ Finish(v, FALSE))
        <5>1. tr'[w] = tr[w]
          BY <2>2, <3>5, <4>2
          DEF CompleteGraph, FinalizeGraph, FailRoot, ReturnRoot, Traversals
        <5>. QED BY <1>1, <5>1
      <4>. QED BY <4>1, <4>2
    <3>6. CASE StoreNode(v) \/ NeedInputs(v)
      <4>1. tr'[w] = tr[w] BY <2>2, <3>6, StoreFields, NeedFields
      <4>. QED BY <1>1, <4>1
    <3>. QED BY <1>5, <3>1, <3>2, <3>3, <3>4, <3>5, <3>6 DEF SlotStep
  <2>. QED BY <2>1, <2>2
<1>. QED BY <1>1, <1>3, <1>5 DEF Next, Worker, ProcessUTXO, runProcessingWorker, SyncCall,
     Close, SubmitLocally, DeleteOutput, vars

\* submitBeef: a transaction reaches the engine, or joins a submission that is under
\* way, only when those of its inputs that are planned with it are applied.
THEOREM InputsGoFirst ==
  GaspGraphAssumption /\ Spec => InputsFirst
<1>. SUFFICES ASSUME GaspGraphAssumption PROVE Spec => InputsFirst OBVIOUS
<1>1. ASSUME IInv, [Next]_vars PROVE [InputsFirstStep]_vars
  <2>. SUFFICES ASSUME NEW w \in Slots, tr[w].st = "submit",
                       tr'[w].st \in {"submitting", "subwait"},
                       NEW i \in Inputs[tr'[w].tx], TxOf[i] \in tr[w].plan
                PROVE  TxOf[i] \in applied
    BY DEF InputsFirstStep
  <2>1. Traversals /\ TablesInv /\ DOMAIN tr[w] = Fields
    BY <1>1 DEF IInv, Traversals, TraversalInv, FieldsInv
  <2>2. submitBeef(w) BY <1>1, <2>1, SubmitsByBeef
  <2>3. PICK t \in NextInOrder(w), s \in {"submitting", "subwait"} :
           tr' = [tr EXCEPT ![w].st = s, ![w].tx = t]
    BY <2>2 DEF submitBeef
  <2>4. tr'[w].tx = t BY <2>1, <2>3 DEF Traversals, Fields
  <2>5. t \in Txs BY <2>1 DEF NextInOrder, Traversals, TraversalInv, FieldsInv
  <2>6. TxOf[i] # t BY <2>4, <2>5 DEF GaspGraphAssumption
  <2>7. TxOf[i] \notin tr[w].todo BY <2>4, <2>6 DEF NextInOrder
  <2>. QED BY <1>1, <2>7 DEF IInv, TraversalInv, PlanInv, Submitting
<1>2. IInv /\ [Next]_vars => [InputsFirstStep]_vars BY <1>1
<1>3. Spec => []IInv BY Inductive
<1>. QED BY <1>2, <1>3, PTL DEF Spec, InputsFirst
=============================================================================
