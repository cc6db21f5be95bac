------------------------------ MODULE GaspSync ------------------------------
(***************************************************************************)
(* The paged synchronisation of one topic: Engine.StartGASPSync and        *)
(* syncWithPeer on the consumer, GASP.Sync, the limiter, and the peers'    *)
(* FindUTXOsForTopic behind ProvideForeignSyncResponse.                    *)
(*                                                                         *)
(* A peer draws the millisecond score of a transaction's outputs in        *)
(* prepareAdmittedOutputs and makes the outputs visible later, in one      *)
(* database transaction, so scores become visible out of order and the     *)
(* outputs of one transaction share a score.  A page holds the Limit       *)
(* lowest outputs above the cursor.  Fetching and submitting the graph of  *)
(* one output (ProcessUTXOToCompletion, see GaspGraph) is one step here:   *)
(* it leaves the output applied, or fails.                                 *)
(*                                                                         *)
(* Sessions are calls of StartGASPSync; nothing stops two from running at  *)
(* once on the same peer.  `shown' and `late' are history variables.       *)
(***************************************************************************)
EXTENDS Integers, FiniteSets

CONSTANTS
    Peers,        \* hosts that answer /requestSyncResponse
    Self,         \* the engine's own HostingURL
    Sessions,     \* calls of StartGASPSync
    Outputs,      \* outpoints, numbered in the order of their document id
    PeerTxs,      \* the transactions: disjoint sets of outputs
    Answers,      \* answers of the SHIP lookup: sets of advertisements
    Topic,        \* the topic that is synchronised
    Limit,        \* DefaultGASPSyncLimit
    Concurrency,  \* capacity of the GASP limiter
    MaxClock      \* bound on the peers' millisecond clock

GaspSyncAssumption ==
    /\ Outputs \subseteq Nat /\ IsFiniteSet(Outputs)
    /\ PeerTxs \subseteq SUBSET Outputs
    /\ \A t, u \in PeerTxs : t # u => t \cap u = {}
    /\ Limit \in Nat \ {0} /\ Concurrency \in Nat \ {0} /\ MaxClock \in Nat
    /\ \A answer \in Answers : \A ad \in answer : ad.domain \in Peers \cup {Self}

VARIABLES
    clock,    \* time.Now().UnixMilli()
    drawn,    \* drawn[p][t]: score drawn for t and not committed yet, or 0
    score,    \* score[p][o]: engineScore of the stored output, or 0
    spent,    \* spent[p]: outputs marked spent at p
    landed,   \* outputs whose transaction the local engine has processed
    fetched,  \* outputs the local storage still has
    cursor,   \* cursor[p]: stored last interaction with p
    sess,     \* the sessions
    shown,    \* history: <<p, o>> listed in a page a session received
    late      \* history: <<p, o>> committed below what a session had seen

syncVars == <<clock, drawn, score, spent, landed, fetched, cursor, sess, shown, late>>
peerVars == <<clock, drawn, score, spent, late>>

\* A session that is not with a peer; `todo' are the peers it has yet to visit.
Away(where, todo) ==
    [pc |-> where, todo |-> todo, peer |-> Self, last |-> 0, prev |-> 0,
     page |-> {}, ingest |-> {}, running |-> {}, failed |-> FALSE]

Idle == Away("idle", {})

SyncInit ==
    /\ clock = 1
    /\ drawn = [p \in Peers |-> [t \in PeerTxs |-> 0]]
    /\ score = [p \in Peers |-> [o \in Outputs |-> 0]]
    /\ spent = [p \in Peers |-> {}]
    /\ landed = {} /\ fetched = {}
    /\ cursor = [p \in Peers |-> 0]
    /\ sess = [s \in Sessions |-> Idle]
    /\ shown = {} /\ late = {}

-----------------------------------------------------------------------------
(* The peer.                                                               *)

Tick ==
    /\ clock < MaxClock
    /\ clock' = clock + 1
    /\ UNCHANGED <<drawn, score, spent, landed, fetched, cursor, sess, shown, late>>

\* The time, and with it the score, is taken before the payload is published
\* and before the storage transaction begins.
prepareAdmittedOutputs(p, t) ==
    /\ drawn[p][t] = 0
    /\ \A o \in t : score[p][o] = 0
    /\ drawn' = [drawn EXCEPT ![p][t] = clock]
    /\ UNCHANGED <<clock, score, spent, landed, fetched, cursor, sess, shown, late>>

\* The stored cursor for p, or a session with p, has come to score n.
Reached(p, n) ==
    \/ n <= cursor[p]
    \/ \E s \in Sessions :
        /\ sess[s].peer = p
        /\ n <= sess[s].last \/ \E o \in sess[s].page : n <= score[p][o]

insertPreparedOutputs(p, t) ==
    /\ drawn[p][t] # 0
    /\ score' = [score EXCEPT ![p] =
                    [o \in Outputs |-> IF o \in t THEN drawn[p][t] ELSE @[o]]]
    /\ drawn' = [drawn EXCEPT ![p][t] = 0]
    /\ late' = IF Reached(p, drawn[p][t]) THEN late \cup ({p} \X t) ELSE late
    /\ UNCHANGED <<clock, spent, landed, fetched, cursor, sess, shown>>

PeerMarksSpent(p, o) ==
    /\ score[p][o] # 0
    /\ o \notin spent[p]
    /\ spent' = [spent EXCEPT ![p] = @ \cup {o}]
    /\ UNCHANGED <<clock, drawn, score, landed, fetched, cursor, sess, shown, late>>

\* Storage order of a page: by score, then by document id.
Before(p, a, b) ==
    \/ score[p][a] < score[p][b]
    \/ score[p][a] = score[p][b] /\ a < b

\* The first `limit' unspent outputs with a score above `since', all of them
\* without a limit.
FindUTXOsForTopic(p, since, limit) ==
    LET found == {o \in Outputs \ spent[p] : score[p][o] > since}
    IN {o \in found : limit = 0 \/ Cardinality({b \in found : Before(p, b, o)}) < limit}

ProvideForeignSyncResponse(p, request) ==
    [UTXOList |-> FindUTXOsForTopic(p, request.since, request.limit),
     since |-> request.since]

\* The HTTP service in front of it: the responses p may give to a request.
RequestSyncResponse(p, request) ==
    IF request.topic # "" /\ request.version > 0
    THEN {ProvideForeignSyncResponse(p, request)} ELSE {}

-----------------------------------------------------------------------------
(* The consumer.                                                           *)

\* The protocol an advertisement must have to count for a topic.  Every
\* other topic is unknown, and no endpoint is taken for it.
expectedProtocolForTopic ==
    [tm_ship |-> "SHIP", tm_slap |-> "SLAP"]

extractPeerEndpoints(topic, answer) ==
    {ad.domain : ad \in {a \in answer :
        /\ topic \in DOMAIN expectedProtocolForTopic
        /\ a.parsed
        /\ a.protocol = expectedProtocolForTopic[topic]}}

discoverSHIPPeers(topic, answer) == extractPeerEndpoints(topic, answer) \ {Self}

\* A configured list of peers is used as it is; for a SHIP topic the list is
\* what the lookup answers.  A failed lookup ends the call with nothing done.
StartGASPSync(s) ==
    /\ sess[s].pc = "idle"
    /\ \E peers \in {Peers} \cup {discoverSHIPPeers(Topic, a) : a \in Answers} :
           /\ peers # {}
           /\ sess' = [sess EXCEPT ![s] = Away("pick", peers)]
    /\ UNCHANGED <<peerVars, landed, fetched, cursor, shown>>

\* syncWithPeer up to its loop: the cursor is loaded and a fresh GASP is made.
\* An error of GetLastInteraction ends the whole call.
GetLastInteraction(s) ==
    /\ sess[s].pc = "pick"
    /\ \/ \E p \in sess[s].todo :
            sess' = [sess EXCEPT ![s] =
                [Idle EXCEPT !.pc = "request", !.todo = sess[s].todo \ {p},
                             !.peer = p, !.last = cursor[p], !.prev = cursor[p]]]
       \/ sess' = [sess EXCEPT ![s] = Idle]
    /\ UNCHANGED <<peerVars, landed, fetched, cursor, shown>>

\* Leaving syncWithPeer: its error, if any, has only been logged.
Leave(s) == sess' = [sess EXCEPT ![s] = Away("pick", sess[s].todo)]

\* The peer reads its page and the answer travels back, or the request fails.
GetInitialResponse(s) ==
    /\ sess[s].pc = "request"
    /\ \/ \E response \in RequestSyncResponse(sess[s].peer,
              [topic |-> Topic, version |-> 1, since |-> sess[s].last, limit |-> Limit]) :
            sess' = [sess EXCEPT ![s].page = response.UTXOList, ![s].pc = "check"]
       \/ Leave(s)
    /\ UNCHANGED <<peerVars, landed, fetched, cursor, shown>>

\* An empty page ends Sync at once.  Otherwise HasOutputs is asked for the
\* page, LastInteraction rises to the highest score of the page and what is
\* not held is queued, before any of it has been fetched.
HasOutputs(s) ==
    LET p == sess[s].peer
        page == sess[s].page
    IN /\ sess[s].pc = "check"
       /\ \/ /\ page = {}
             /\ sess' = [sess EXCEPT ![s].pc = "persist"]
             /\ UNCHANGED shown
          \/ /\ page # {}
             /\ \E top \in page :
                   /\ \A o \in page : score[p][o] <= score[p][top]
                   /\ sess' = [sess EXCEPT
                         ![s].pc = "process",
                         ![s].last = IF score[p][top] > @ THEN score[p][top] ELSE @,
                         ![s].ingest = page \ fetched]
             /\ shown' = shown \cup ({p} \X page)
          \/ /\ page # {}
             /\ Leave(s)
             /\ shown' = shown \cup ({p} \X page)
       /\ UNCHANGED <<peerVars, landed, fetched, cursor>>

\* The loop over the queue takes a slot of the limiter for each output.
Launch(s) ==
    /\ sess[s].pc = "process"
    /\ Cardinality(sess[s].running) < Concurrency
    /\ \E o \in sess[s].ingest :
          /\ \A b \in sess[s].ingest \ {o} : Before(sess[s].peer, o, b)
          /\ sess' = [sess EXCEPT ![s].ingest = @ \ {o}, ![s].running = @ \cup {o}]
    /\ UNCHANGED <<peerVars, landed, fetched, cursor, shown>>

\* ProcessUTXOToCompletion returns.  Success leaves the transaction applied:
\* submitted now, or found to be applied already (its output may be gone).
ProcessUTXOToCompletion(s, o) ==
    /\ o \in sess[s].running
    /\ \/ /\ landed' = landed \cup {o}
          /\ fetched' = IF o \in landed THEN fetched ELSE fetched \cup {o}
          /\ sess' = [sess EXCEPT ![s].running = @ \ {o}]
       \/ /\ sess' = [sess EXCEPT ![s].running = @ \ {o}, ![s].failed = TRUE]
          /\ UNCHANGED <<landed, fetched>>
    /\ UNCHANGED <<peerVars, cursor, shown>>

WaitIgnoresError(s) ==
    /\ sess[s].pc = "process"
    /\ sess[s].ingest = {} /\ sess[s].running = {}
    /\ sess' = [sess EXCEPT ![s].pc = "persist"]
    /\ UNCHANGED <<peerVars, landed, fetched, cursor, shown>>

\* processingGroup.Wait: the first error is Sync's error and breaks the loop.
Wait(s) ==
    /\ sess[s].pc = "process"
    /\ sess[s].ingest = {} /\ sess[s].running = {}
    /\ IF sess[s].failed THEN Leave(s)
       ELSE sess' = [sess EXCEPT ![s].pc = "persist"]
    /\ UNCHANGED <<peerVars, landed, fetched, cursor, shown>>

\* The end of one turn of the loop.  A page that moved LastInteraction is
\* recorded and the next one is asked for, also when the write fails; one that
\* did not is the last.
UpdateLastInteraction(s) ==
    LET last == sess[s].last
    IN /\ sess[s].pc = "persist"
       /\ \/ /\ last > sess[s].prev
             /\ cursor' \in {cursor, [cursor EXCEPT ![sess[s].peer] = last]}
             /\ sess' = [sess EXCEPT ![s].pc = "request", ![s].prev = last,
                                     ![s].page = {}]
          \/ /\ last <= sess[s].prev
             /\ Leave(s)
             /\ UNCHANGED cursor
       /\ UNCHANGED <<peerVars, landed, fetched, shown>>

\* StartGASPSync returns after its last peer.
Return(s) ==
    /\ sess[s].pc = "pick" /\ sess[s].todo = {}
    /\ sess' = [sess EXCEPT ![s] = Idle]
    /\ UNCHANGED <<peerVars, landed, fetched, cursor, shown>>

\* A client submits the transaction of o to the local engine directly.
SubmitOutput(o) ==
    /\ o \notin landed
    /\ landed' = landed \cup {o} /\ fetched' = fetched \cup {o}
    /\ UNCHANGED <<peerVars, cursor, sess, shown>>

\* The local engine deletes an output that was spent and is not retained.
ForgetOutput(o) ==
    /\ o \in fetched
    /\ fetched' = fetched \ {o}
    /\ UNCHANGED <<peerVars, landed, cursor, sess, shown>>

\* The process of the consumer stops: its sessions are gone.
Crash ==
    /\ \E s \in Sessions : sess[s].pc # "idle"
    /\ sess' = [s \in Sessions |-> Idle]
    /\ UNCHANGED <<peerVars, landed, fetched, cursor, shown>>

SessionStep(s) ==
    \/ GetLastInteraction(s) \/ GetInitialResponse(s) \/ HasOutputs(s)
    \/ Launch(s) \/ (\E o \in Outputs : ProcessUTXOToCompletion(s, o))
    \/ Wait(s) \/ UpdateLastInteraction(s) \/ Return(s)

SyncNext ==
    \/ Tick
    \/ \E p \in Peers, t \in PeerTxs :
           prepareAdmittedOutputs(p, t) \/ insertPreparedOutputs(p, t)
    \/ \E p \in Peers, o \in Outputs : PeerMarksSpent(p, o)
    \/ \E s \in Sessions : StartGASPSync(s) \/ SessionStep(s)
    \/ \E o \in Outputs : SubmitOutput(o) \/ ForgetOutput(o)
    \/ Crash

SyncSpec == SyncInit /\ [][SyncNext]_syncVars

-----------------------------------------------------------------------------
(* Properties.                                                             *)

SyncTypeOK ==
    /\ clock \in 1..(MaxClock + 1)
    /\ drawn \in [Peers -> [PeerTxs -> 0..MaxClock + 1]]
    /\ score \in [Peers -> [Outputs -> 0..MaxClock + 1]]
    /\ spent \in [Peers -> SUBSET Outputs]
    /\ fetched \subseteq landed /\ landed \subseteq Outputs
    /\ cursor \in [Peers -> 0..MaxClock + 1]
    /\ \A s \in Sessions :
        /\ sess[s].pc \in {"idle", "pick", "request", "check", "process", "persist"}
        /\ sess[s].peer \in Peers \cup {Self}
        /\ sess[s].todo \subseteq Peers
        /\ Cardinality(sess[s].running) <= Concurrency
        /\ sess[s].prev <= sess[s].last
    /\ shown \subseteq Peers \X Outputs /\ late \subseteq Peers \X Outputs

\* Another output with the score of o was listed by p and applied.
Tied(p, o) ==
    \E q \in landed : <<p, q>> \in shown /\ q # o /\ score[p][q] = score[p][o]

\* LastInteraction is raised before the nodes of the page are fetched, nodes
\* fail one by one, sessions overlap and the process may stop anywhere.  Still,
\* an unspent output of a peer that lies at or below the stored cursor and was
\* never applied got there in one of two ways only: it became visible after a
\* session had seen a score as high, or it shares its score with another output
\* that was listed and applied.
LossIsLateOrTied ==
    \A p \in Peers, o \in Outputs \ landed :
        0 < score[p][o] /\ score[p][o] <= cursor[p] /\ o \notin spent[p]
            => <<p, o>> \in late \/ Tied(p, o)

\* What syncWithPeer leaves behind its cursor without having applied it was
\* committed late or shares its score with an output that was listed, whichever
\* nodes fail, sessions overlap or process stops; and no more graphs are fetched
\* at once than the limiter has slots.
LossIsExplained == SyncTypeOK /\ LossIsLateOrTied

\* docs/persistence-v1.md, line 25: the cursor may advance under a since score
\* only with "drained equal scores", and "unsupported modes never advance".
\* Step property: when the cursor moves to a score, every visible unspent
\* output with this score that was not committed late has been listed.
EqualScoresDrained ==
    [][\A p \in Peers : cursor'[p] # cursor[p] =>
          \A o \in Outputs \ spent[p] :
              score[p][o] = cursor'[p] /\ <<p, o>> \notin late => <<p, o>> \in shown]_syncVars
=============================================================================
