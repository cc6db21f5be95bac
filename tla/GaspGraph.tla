----------------------------- MODULE GaspGraph -----------------------------
(***************************************************************************)
(* One GASP instance fetching transaction graphs from a peer: the queue    *)
(* and its worker, ProcessUTXOToCompletion and the recursive processUTXO   *)
(* of gasp.go, the node requests of OverlayGASPRemote, the temporary       *)
(* graphs and submissions of OverlayGASPStorage, and the peer's            *)
(* ProvideForeignGASPNode.                                                 *)
(*                                                                         *)
(* A slot of the limiter runs one traversal.  Three tables let concurrent  *)
(* traversals share work in flight: by root outpoint, by requested         *)
(* outpoint and by submitted transaction.  The owner of an entry publishes *)
(* its result and removes the entry in one step here: a caller that comes  *)
(* between the two gets what it would have got by waiting.                 *)
(*                                                                         *)
(* A topic manager admits the outputs of a transaction when all of its     *)
(* Topical inputs are coins of the topic, and names those as needed        *)
(* otherwise.  The engine behind Submit is LegacySubmit / AdmissionStore.  *)
(***************************************************************************)
EXTENDS Integers, Sequences, FiniteSets

CONSTANTS
    Txs,         \* transactions
    Outpoints,   \* outpoints of the topic
    TxOf,        \* TxOf[o]: the transaction of an outpoint
    Inputs,      \* Inputs[t]: outpoints t spends
    Topical,     \* Topical[t]: the inputs the topic manager needs as coins
    Proven,      \* transactions the peer has a merkle proof of
    Roots,       \* outpoints that are queued or listed by the peer
    PeerHolds,   \* outputs the peer has stored
    Slots,       \* slots of the limiter
    QueueCap,    \* capacity of utxoQueue
    MaxCalls,    \* bound: calls of ProcessUTXOToCompletion
    Limits,      \* values of MaxNodesInGraph: None is nil, what the engine passes
    None

GaspGraphAssumption ==
    /\ TxOf \in [Outpoints -> Txs]
    /\ Inputs \in [Txs -> SUBSET Outpoints] /\ Topical \in [Txs -> SUBSET Outpoints]
    /\ \A t \in Txs : Topical[t] \subseteq Inputs[t] /\ \A i \in Inputs[t] : TxOf[i] # t
    /\ Proven \subseteq Txs /\ Roots \subseteq Outpoints /\ PeerHolds \subseteq Outpoints
    /\ QueueCap \in Nat /\ MaxCalls \in Nat /\ Limits \subseteq Nat \cup {None}
    /\ IsFiniteSet(Slots) /\ None \notin Nat
    /\ None \notin Outpoints \cup Slots \cup Txs /\ \A g \in SUBSET Outpoints : g # None

VARIABLES
    queue, closed,   \* utxoQueue, and whether Close was called and returned
    calls,           \* calls started so far
    limit,           \* MaxNodesInGraph of this storage
    tr,              \* tr[w]: the traversal in slot w
    processing,      \* utxoProcessingMap: the slot that owns a root, or None
    inflight,        \* inflightMap: the slot that fetches an outpoint, or None
    submission,      \* submissionTracker: the slot that submits a tx, or None
    graphs,          \* graphs[r]: nodes of the temporary graph of root r, None without one
    held, applied,   \* outputs in storage, transactions the engine has applied
    completed,       \* history: roots whose call returned without an error
    submits,         \* history: successful Engine.Submit calls for a tx, capped at 2
    appended,        \* history: <<root of the traversal, graph>> of every append
    shared           \* history: outpoints whose request was shared

vars == <<queue, closed, calls, limit, tr, processing, inflight, submission, graphs,
          held, applied, completed, submits, appended, shared>>
outside == <<queue, closed, calls, limit>>
history == <<completed, submits, appended, shared>>

\* `plan' is the list of BEEFs that FinalizeGraph made, `todo' what is left of it;
\* `cut' says that the graph the slot is about to add a node to was dropped.
Free == [st |-> "idle", root |-> None, stack |-> <<>>, seen |-> {}, node |-> None,
         plan |-> {}, todo |-> {}, tx |-> None, trouble |-> FALSE, cut |-> FALSE]

Init ==
    /\ queue = <<>> /\ closed = "open" /\ calls = 0 /\ limit \in Limits
    /\ tr = [w \in Slots |-> Free]
    /\ processing = [o \in Outpoints |-> None]
    /\ inflight = [o \in Outpoints |-> None]
    /\ submission = [t \in Txs |-> None]
    /\ graphs = [o \in Outpoints |-> None]
    /\ held = {} /\ applied = {}
    /\ completed = {} /\ submits = [t \in Txs |-> 0] /\ appended = {}
    /\ shared = {}

OutputsOf(t) == {o \in Outpoints : TxOf[o] = t}

-----------------------------------------------------------------------------
(* The peer.                                                               *)

\* Transactions in a stored BEEF: unproven ones carry their ancestors.
BeefOf[t \in Txs] ==
    {t} \cup IF t \in Proven THEN {} ELSE UNION {BeefOf[TxOf[i]] : i \in Inputs[t]}

\* hydrateGASPNode looks in the BEEF of the graph's output and then in those of
\* the outputs it consumed, and no deeper.
hydrateGASPNode(output, t) ==
    \/ t \in BeefOf[TxOf[output]]
    \/ \E c \in Topical[TxOf[output]] \cap PeerHolds : t \in BeefOf[TxOf[c]]

\* The answers to a node request: the node carries the graph of the request.
ProvideForeignGASPNode(graph, o) ==
    IF graph \in PeerHolds /\ hydrateGASPNode(graph, TxOf[o])
    THEN {[graph |-> graph, op |-> o]} ELSE {}

-----------------------------------------------------------------------------
(* The temporary graph.                                                    *)

\* Inputs to ask for: all of an unproven transaction, those the topic manager
\* needs of a proven one that is not admissible yet; never one that is held.
FindNeededInputs(t) ==
    IF t \notin Proven THEN Inputs[t] \ held
    ELSE IF Topical[t] \subseteq held THEN {} ELSE Topical[t] \ held

\* Whether a BEEF can be built for t from the nodes of a graph.
getBEEFForNode(nodes, t) ==
    LET built[u \in Txs] ==
            u \in Proven \/ \A i \in Inputs[u] : i \in nodes /\ built[TxOf[i]]
    IN built[t]

\* Whether the pass over the ordered graph admits the outputs of t.
Admitted(nodes, t) ==
    LET txs == {TxOf[o] : o \in nodes}
        ok[u \in Txs] ==
            /\ u \in txs
            /\ \A i \in Topical[u] : i \in held \/ ok[TxOf[i]]
    IN ok[t]

computeOrderedBEEFsForGraph(nodes) ==
    nodes # {} /\ \A o \in nodes : getBEEFForNode(nodes, TxOf[o])

\* What ValidateGraphAnchor accepts, given that spv.Verify does.
ValidateGraphAnchor(r) ==
    /\ graphs[r] # None
    /\ r \in graphs[r]
    /\ computeOrderedBEEFsForGraph(graphs[r])
    /\ Admitted(graphs[r], TxOf[r])

-----------------------------------------------------------------------------
(* Starting and ending a traversal.                                        *)

Frame(o, spentBy, graph) == [op |-> o, spentBy |-> spentBy, graph |-> graph, need |-> {}]

\* ProcessUTXOToCompletion: own the outpoint, or wait for the one who does.
Begin(w, o) ==
    /\ tr[w].st = "idle" /\ calls < MaxCalls
    /\ calls' = calls + 1
    /\ IF processing[o] = None
       THEN /\ processing' = [processing EXCEPT ![o] = w]
            /\ tr' = [tr EXCEPT ![w] = [Free EXCEPT !.st = "fetch", !.root = o,
                                            !.stack = <<Frame(o, None, o)>>]]
       ELSE /\ tr' = [tr EXCEPT ![w] = [Free EXCEPT !.st = "wait", !.root = o]]
            /\ UNCHANGED processing

\* ProcessUTXO: a full queue drops the outpoint.
ProcessUTXO(o) ==
    /\ closed = "open"
    /\ Len(queue) < QueueCap
    /\ Len(queue) + calls < MaxCalls
    /\ queue' = Append(queue, o)
    /\ UNCHANGED <<closed, calls, limit, tr, processing, inflight, submission, graphs,
                   held, applied, history>>

\* The worker takes a slot and starts a goroutine for the next outpoint.
runProcessingWorker(w) ==
    /\ queue # <<>>
    /\ Begin(w, Head(queue))
    /\ queue' = Tail(queue)
    /\ UNCHANGED <<closed, limit, inflight, submission, graphs, held, applied, history>>

\* Sync starts one for an outpoint of its page that is not held.
SyncCall(w, o) ==
    /\ o \notin held
    /\ Len(queue) + calls < MaxCalls
    /\ Begin(w, o)
    /\ UNCHANGED <<queue, closed, limit, inflight, submission, graphs, held, applied, history>>

Close ==
    \/ /\ closed = "open" /\ closed' = "closing"
       /\ UNCHANGED <<queue, calls, limit, tr, processing, inflight, submission, graphs,
                      held, applied, history>>
    \/ /\ closed = "closing" /\ queue = <<>> /\ closed' = "closed"
       /\ UNCHANGED <<queue, calls, limit, tr, processing, inflight, submission, graphs,
                      held, applied, history>>

\* The call of slot w returns, and with it those that wait for its root.  Every
\* way out of a root drops its graph, also under a slot that is adding to it.
Finish(w, ok) ==
    LET r == tr[w].root
    IN /\ tr' = [v \in Slots |->
                    IF v = w \/ (tr[v].st = "wait" /\ tr[v].root = r) THEN Free
                    ELSE IF tr[v].st = "append" /\ tr[v].node.graph = r
                    THEN [tr[v] EXCEPT !.cut = TRUE] ELSE tr[v]]
       /\ processing' = [processing EXCEPT ![r] = None]
       /\ graphs' = [graphs EXCEPT ![r] = None]
       /\ completed' = IF ok THEN completed \cup {r} ELSE completed

-----------------------------------------------------------------------------
(* Fetching nodes.                                                         *)

Top(w) == tr[w].stack[Len(tr[w].stack)]
AtRoot(w) == Len(tr[w].stack) = 1
Pop(w) == SubSeq(tr[w].stack, 1, Len(tr[w].stack) - 1)

\* RequestNode: a request for the outpoint that is in flight is shared.
RequestNode(w) ==
    LET o == Top(w).op
    IN /\ tr[w].st = "fetch"
       /\ IF inflight[o] = None
          THEN /\ inflight' = [inflight EXCEPT ![o] = w]
               /\ tr' = [tr EXCEPT ![w].st = "fetching"]
               /\ UNCHANGED shared
          ELSE /\ tr' = [tr EXCEPT ![w].st = "sharing"]
               /\ shared' = shared \cup {o}
               /\ UNCHANGED inflight
       /\ UNCHANGED <<outside, processing, submission, graphs, held, applied,
                      completed, submits, appended>>

\* Those whose request the answer for o ends.
Waiting(w, o) == {v \in Slots : v = w \/ (tr[v].st = "sharing" /\ Top(v).op = o)}

doNodeRequestKeepsEntry(w) ==
    LET o == Top(w).op
    IN /\ tr[w].st = "fetching"
       /\ \/ /\ \E n \in ProvideForeignGASPNode(Top(w).graph, o) :
                    tr' = [v \in Slots |-> IF v \in Waiting(w, o)
                              THEN [tr[v] EXCEPT !.st = "node", !.node = n] ELSE tr[v]]
             /\ inflight' = [inflight EXCEPT ![o] = None]
          \/ /\ tr' = [tr EXCEPT ![w].st = "error", ![w].trouble = TRUE]
             /\ UNCHANGED inflight
       /\ UNCHANGED <<outside, processing, submission, graphs, held, applied, history>>

\* The answer of the peer, or an error: of the peer or of the network.
doNodeRequest(w) ==
    LET o == Top(w).op
    IN /\ tr[w].st = "fetching"
       /\ \/ \E n \in ProvideForeignGASPNode(Top(w).graph, o) :
                tr' = [v \in Slots |-> IF v \in Waiting(w, o)
                          THEN [tr[v] EXCEPT !.st = "node", !.node = n] ELSE tr[v]]
          \/ tr' = [v \in Slots |-> IF v \in Waiting(w, o)
                       THEN [tr[v] EXCEPT !.st = "error", !.trouble = TRUE] ELSE tr[v]]
       /\ inflight' = [inflight EXCEPT ![o] = None]
       /\ UNCHANGED <<outside, processing, submission, graphs, held, applied, history>>

\* AppendToGraph up to its check of the count: the graph is the one the node
\* names, made when missing.
AppendToGraph(w, n) ==
    LET g == n.graph
        nodes == IF graphs[g] = None THEN {} ELSE graphs[g]
        full == limit # None /\ Cardinality(nodes) >= limit
    IN /\ graphs' = [graphs EXCEPT ![g] = nodes]
       /\ tr' = [tr EXCEPT ![w].seen = @ \cup {n.op},
                           ![w].node = IF full THEN None ELSE @,
                           ![w].st = IF full THEN "error" ELSE "append",
                           ![w].trouble = @ \/ full]

\* processIncomingNode up to there: a node of this traversal is taken once.
processIncomingNode(w) ==
    /\ tr[w].st = "node"
    /\ IF tr[w].node.op \in tr[w].seen
       THEN /\ tr' = [tr EXCEPT ![w].st = "deps", ![w].node = None]
            /\ UNCHANGED graphs
       ELSE AppendToGraph(w, tr[w].node)
    /\ UNCHANGED <<outside, processing, inflight, submission, held, applied, history>>

\* The rest of AppendToGraph.  The node is stored and counted, whatever others
\* stored since the check, and stays when its parent is not found.  A slot that
\* holds a dropped graph adds to that one: nobody sees it, and the parent may or
\* may not be there.
StoreNode(w) ==
    LET n == tr[w].node
        parent == Top(w).spentBy
    IN /\ tr[w].st = "append"
       /\ graphs' = IF tr[w].cut THEN graphs ELSE [graphs EXCEPT ![n.graph] = @ \cup {n.op}]
       /\ appended' = appended \cup {<<tr[w].root, n.graph>>}
       /\ \E linked \in BOOLEAN :
             /\ parent = None => linked
             /\ parent # None /\ ~tr[w].cut => linked = (parent \in graphs'[n.graph])
             /\ tr' = [tr EXCEPT
                   ![w].st = IF linked THEN "stored" ELSE "error",
                   ![w].node = None,
                   ![w].cut = FALSE,
                   ![w].stack[Len(tr[w].stack)] = [Top(w) EXCEPT !.graph = n.graph]]
       /\ UNCHANGED <<outside, processing, inflight, submission, held, applied,
                      completed, submits, shared>>

\* FindNeededInputs of the node, which a failing read ends.
NeedInputs(w) ==
    /\ tr[w].st = "stored"
    /\ \/ tr' = [tr EXCEPT
             ![w].st = "deps",
             ![w].stack[Len(tr[w].stack)] =
                 [Top(w) EXCEPT !.need = FindNeededInputs(TxOf[Top(w).op])]]
       \/ tr' = [tr EXCEPT ![w].st = "error", ![w].trouble = TRUE]
    /\ UNCHANGED <<outside, processing, inflight, submission, graphs, held, applied, history>>

processUTXOByOutpoint(w) ==
    LET stack == tr[w].stack
    IN /\ tr[w].st = "deps"
       /\ \E d \in Top(w).need :
             tr' = [tr EXCEPT
                 ![w].st = "fetch",
                 ![w].stack = Append([stack EXCEPT ![Len(stack)].need = @ \ {d}],
                                     Frame(d, Top(w).op, d))]
       /\ UNCHANGED <<outside, processing, inflight, submission, graphs, held, applied, history>>

\* The loop over the needed inputs, in any order: the next one is fetched.
processUTXO(w) ==
    LET stack == tr[w].stack
    IN /\ tr[w].st = "deps"
       /\ \E d \in Top(w).need :
             tr' = [tr EXCEPT
                 ![w].st = "fetch",
                 ![w].stack = Append([stack EXCEPT ![Len(stack)].need = @ \ {d}],
                                     Frame(d, Top(w).op, Top(w).graph))]
       /\ UNCHANGED <<outside, processing, inflight, submission, graphs, held, applied, history>>

\* A dependency returns.  Its error is logged and the loop goes on.
ReturnDependency(w) ==
    /\ tr[w].st = "error" \/ (tr[w].st = "deps" /\ Top(w).need = {})
    /\ ~AtRoot(w)
    /\ tr' = [tr EXCEPT ![w].st = "deps", ![w].stack = Pop(w)]
    /\ UNCHANGED <<outside, processing, inflight, submission, graphs, held, applied, history>>

\* The root fails before its graph is complete.
FailRoot(w) ==
    /\ tr[w].st = "error" /\ AtRoot(w)
    /\ Finish(w, FALSE)
    /\ UNCHANGED <<outside, inflight, submission, held, applied, submits, appended, shared>>

-----------------------------------------------------------------------------
(* Completing the graph.                                                   *)

\* CompleteGraph up to the first submission; spv.Verify or a read may fail.
CompleteGraph(w) ==
    LET r == tr[w].root
    IN /\ tr[w].st = "deps" /\ AtRoot(w) /\ Top(w).need = {}
       /\ \/ /\ ValidateGraphAnchor(r)
             /\ tr' = [tr EXCEPT ![w].st = "finalize"]
             /\ UNCHANGED <<processing, graphs, completed>>
          \/ Finish(w, FALSE)
       /\ UNCHANGED <<outside, inflight, submission, held, applied, submits, appended, shared>>

\* FinalizeGraph builds the BEEFs again.
FinalizeGraph(w) ==
    LET r == tr[w].root
    IN /\ tr[w].st = "finalize"
       /\ IF graphs[r] # None /\ computeOrderedBEEFsForGraph(graphs[r])
          THEN /\ tr' = [tr EXCEPT ![w].st = "submit",
                                   ![w].plan = {TxOf[o] : o \in graphs[r]},
                                   ![w].todo = {TxOf[o] : o \in graphs[r]}]
               /\ UNCHANGED <<processing, graphs, completed>>
          ELSE Finish(w, FALSE)
       /\ UNCHANGED <<outside, inflight, submission, held, applied, submits, appended, shared>>

\* The next transaction in order: none of its inputs is still to be submitted.
NextInOrder(w) ==
    {t \in tr[w].todo : \A i \in Inputs[t] : TxOf[i] \notin tr[w].todo \ {t}}

\* submitBeef: a submission of the transaction that is in flight is shared.
submitBeef(w) ==
    /\ tr[w].st = "submit"
    /\ \E t \in NextInOrder(w) :
          IF submission[t] = None
          THEN /\ submission' = [submission EXCEPT ![t] = w]
               /\ tr' = [tr EXCEPT ![w].st = "submitting", ![w].tx = t]
          ELSE /\ tr' = [tr EXCEPT ![w].st = "subwait", ![w].tx = t]
               /\ UNCHANGED submission
    /\ UNCHANGED <<outside, processing, inflight, graphs, held, applied, history>>

Submitters(w) == {v \in Slots : v = w \/ (tr[v].st = "subwait" /\ tr[v].tx = tr[w].tx)}

SubmitOk(w) ==
    LET t == tr[w].tx
    IN /\ applied' = applied \cup {t}
       /\ held' = IF t \notin applied /\ Topical[t] \subseteq held
                  THEN held \cup OutputsOf(t) ELSE held
       /\ submits' = [submits EXCEPT ![t] = IF @ < 2 THEN @ + 1 ELSE @]
       /\ tr' = [v \in Slots |-> IF v \in Submitters(w)
                    THEN [tr[v] EXCEPT !.st = "submit", !.todo = @ \ {t}, !.tx = None]
                    ELSE tr[v]]

SubmitSharesNoError(w) ==
    LET t == tr[w].tx
    IN /\ tr[w].st = "submitting"
       /\ submission' = [submission EXCEPT ![t] = None]
       /\ \/ SubmitOk(w)
          \/ /\ tr' = [v \in Slots |->
                    IF v = w THEN [tr[v] EXCEPT !.st = "failed", !.tx = None]
                    ELSE IF v \in Submitters(w)
                    THEN [tr[v] EXCEPT !.st = "submit", !.todo = @ \ {t}, !.tx = None]
                    ELSE tr[v]]
             /\ UNCHANGED <<held, applied, submits>>
       /\ UNCHANGED <<outside, processing, inflight, graphs, completed, appended, shared>>

\* Engine.Submit returns.  Without an error the transaction is applied, and its
\* outputs are held when the topic admits them now.
Submit(w) ==
    LET t == tr[w].tx
    IN /\ tr[w].st = "submitting"
       /\ submission' = [submission EXCEPT ![t] = None]
       /\ \/ SubmitOk(w)
          \/ /\ tr' = [v \in Slots |-> IF v \in Submitters(w)
                          THEN [tr[v] EXCEPT !.st = "failed", !.tx = None] ELSE tr[v]]
             /\ UNCHANGED <<held, applied, submits>>
       /\ UNCHANGED <<outside, processing, inflight, graphs, completed, appended, shared>>

\* The graph is submitted, or one of its submissions failed.
ReturnRoot(w) ==
    /\ \/ tr[w].st = "submit" /\ tr[w].todo = {} /\ Finish(w, TRUE)
       \/ tr[w].st = "failed" /\ Finish(w, FALSE)
    /\ UNCHANGED <<outside, inflight, submission, held, applied, submits, appended, shared>>

-----------------------------------------------------------------------------
(* The rest of the node.                                                   *)

\* A client submits t; an output that was spent is deleted.
SubmitLocally(t) ==
    /\ t \notin applied /\ Topical[t] \subseteq held
    /\ applied' = applied \cup {t} /\ held' = held \cup OutputsOf(t)
    /\ UNCHANGED <<outside, tr, processing, inflight, submission, graphs, history>>

DeleteOutput(o) ==
    /\ o \in held
    /\ held' = held \ {o}
    /\ UNCHANGED <<outside, tr, processing, inflight, submission, graphs, applied, history>>

SlotStep(w) ==
    \/ RequestNode(w) \/ doNodeRequest(w) \/ processIncomingNode(w) \/ StoreNode(w)
    \/ NeedInputs(w) \/ processUTXO(w) \/ ReturnDependency(w) \/ FailRoot(w) \/ CompleteGraph(w)
    \/ FinalizeGraph(w) \/ submitBeef(w) \/ Submit(w) \/ ReturnRoot(w)

Worker == \E w \in Slots : runProcessingWorker(w)

Next ==
    \/ \E o \in Roots : ProcessUTXO(o)
    \/ Worker
    \/ \E w \in Slots, o \in Roots : SyncCall(w, o)
    \/ Close
    \/ \E w \in Slots : SlotStep(w)
    \/ \E t \in Txs : SubmitLocally(t)
    \/ \E o \in Outpoints : DeleteOutput(o)

Spec == Init /\ [][Next]_vars

-----------------------------------------------------------------------------
(* Properties.                                                             *)

States == {"idle", "wait", "fetch", "fetching", "sharing", "node", "append", "stored",
           "error", "deps", "finalize", "submit", "submitting", "subwait", "failed"}

TypeOK ==
    /\ Len(queue) <= QueueCap /\ closed \in {"open", "closing", "closed"}
    /\ calls <= MaxCalls /\ limit \in Limits
    /\ \A w \in Slots :
        /\ tr[w].st \in States
        /\ tr[w].root \in Outpoints \cup {None}
        /\ tr[w].todo \subseteq Txs /\ tr[w].seen \subseteq Outpoints
    /\ processing \in [Outpoints -> Slots \cup {None}]
    /\ inflight \in [Outpoints -> Slots \cup {None}]
    /\ submission \in [Txs -> Slots \cup {None}]
    /\ \A o \in Outpoints : graphs[o] = None \/ graphs[o] \subseteq Outpoints
    /\ held \subseteq Outpoints /\ applied \subseteq Txs

\* A call that returned without an error, its own work or that of another call
\* it waited for, has left the transaction of its root applied.  GaspSync rests
\* on this.
CompletedIsApplied == \A r \in completed : TxOf[r] \in applied

\* A transaction reaches the engine after those of its inputs that are submitted
\* with it, also when another traversal submits some of them.
InputsFirstStep ==
    \A w \in Slots : tr[w].st = "submit" /\ tr'[w].st \in {"submitting", "subwait"} =>
        \A i \in Inputs[tr'[w].tx] :
            TxOf[i] \in tr[w].plan => TxOf[i] \in applied

InputsFirst == [][InputsFirstStep]_vars

\* gasp-storage.go, graphContext: "Each traversal owns its context exclusively,
\* so concurrent traversals cannot disturb each other's nodes".
OwnGraphOnly == \A e \in appended : e[1] = e[2]

\* gasp.go, ProcessUTXOToCompletion: it "always discards the graph's temporary
\* state on the way out".  A graph exists only while its root is processed.
GraphsDiscarded == \A r \in Outpoints : processing[r] = None => graphs[r] = None

\* gasp-storage.go, ErrGraphFull: "the graph has reached its maximum size".
GraphsWithinLimit ==
    \A r \in Outpoints : graphs[r] # None /\ limit # None => Cardinality(graphs[r]) <= limit

\* The count is read before the node is stored, so that every slot but one may
\* add a node to a graph that another has filled meanwhile.
GraphsNearLimit ==
    \A r \in Outpoints : graphs[r] # None /\ limit # None =>
        Cardinality(graphs[r]) < limit + Cardinality(Slots)

\* What a traversal leaves behind: a call that returned without an error has left
\* the transaction of its root applied, also when another call did the work; no
\* temporary graph outgrows MaxNodesInGraph by as many nodes as there are slots.
\* As long as no request was shared, no graph outgrows it at all, every node is
\* appended to the graph of the traversal that fetched it, as graphContext
\* promises, and a graph is discarded however its traversal ends.
TraversalsAreSound ==
    /\ TypeOK /\ CompletedIsApplied /\ GraphsNearLimit
    /\ shared = {} => OwnGraphOnly /\ GraphsDiscarded /\ GraphsWithinLimit

\* gasp.go, ProcessUTXO: shared deduplication state is there "to ensure each
\* transaction is only submitted once, even if multiple outputs are queued".
SubmittedOnce == \A t \in Txs : submits[t] <= 1

\* gasp-storage.go: "FindNeededInputs determines which inputs are needed for a
\* GASP transaction".  When all of them were fetched, no BEEF lacks an input.
NeededInputsSuffice ==
    \A w \in Slots :
        /\ tr[w].st = "deps" /\ AtRoot(w) /\ Top(w).need = {}
        /\ ~tr[w].trouble /\ graphs[tr[w].root] # None
        => computeOrderedBEEFsForGraph(graphs[tr[w].root])
=============================================================================
