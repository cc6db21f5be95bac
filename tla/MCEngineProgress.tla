------------------------- MODULE MCEngineProgress --------------------------
(***************************************************************************)
(* TLC instances for what must eventually happen in the engine and in      *)
(* GASP.  A behaviour belongs to one part, which `part' names from the     *)
(* first state on; the variables of the other modules stay Off.            *)
(*                                                                         *)
(*   sync      GaspSync: one session, two transactions of a peer           *)
(*   graph     GaspGraph: two slots, two calls, a chain of two transactions*)
(*   registry  EngineRegistry: two goroutines at the mutex and a syncer    *)
(***************************************************************************)
EXTENDS Integers, Sequences, FiniteSets, TLC

CONSTANTS Off, None

VARIABLES
    part,
    clock, drawn, score, spent, landed, fetched, cursor, sess, shown, late,
    queue, closed, calls, limit, tr, processing, inflight, submission, graphs, completed,
    submits, appended, shared, applied, held,
    registered, readers, waiting, call, ads, sync, tally

syncVars == <<clock, drawn, score, spent, landed, fetched, cursor, sess, shown, late>>
graphVars == <<queue, closed, calls, limit, tr, processing, inflight, submission, graphs,
               completed, submits, appended, shared, applied, held>>
registryVars == <<registered, readers, waiting, call, ads, sync, tally>>
vars == <<part, syncVars, graphVars, registryVars>>

-----------------------------------------------------------------------------
Ad(domain, protocol, parsed) == [domain |-> domain, protocol |-> protocol, parsed |-> parsed]

Session == INSTANCE GaspSync WITH
    Peers <- {"p1"}, Self <- "self", Sessions <- {"s1"}, Outputs <- {1, 2},
    PeerTxs <- {{1}, {2}}, Topic <- "tm_ship", Limit <- 2, Concurrency <- 2, MaxClock <- 2,
    Answers <- {{Ad("p1", "SHIP", TRUE), Ad("self", "SHIP", TRUE)}, {Ad("p1", "SLAP", TRUE)}}

Graph == INSTANCE GaspGraph WITH
    Txs <- {"parent", "child"}, Outpoints <- {"p0", "p1", "c0"},
    TxOf <- [p0 |-> "parent", p1 |-> "parent", c0 |-> "child"],
    Inputs <- [parent |-> {}, child |-> {"p0"}], Topical <- [parent |-> {}, child |-> {"p0"}],
    Proven <- {"parent"}, Roots <- {"p0", "c0"}, PeerHolds <- {"p0", "p1", "c0"},
    Slots <- {"w1", "w2"}, QueueCap <- 1, MaxCalls <- 2, Limits <- {None}

Registry == INSTANCE EngineRegistry WITH
    Names <- {"tm_ship"}, Carrier <- [p \in {"SHIP", "SLAP"} |-> "tm_ship"], Published <- {},
    Callers <- {"c1", "c2"}, Syncers <- {"s1"}, Reentrant <- FALSE,
    MaxChanges <- 2, MaxSyncs <- 1, MaxOutages <- 0

ASSUME Session!GaspSyncAssumption /\ Graph!GaspGraphAssumption /\ Registry!RegistryAssumption

-----------------------------------------------------------------------------
SyncOff ==
    /\ clock = Off /\ drawn = Off /\ score = Off /\ spent = Off
    /\ landed = Off /\ fetched = Off /\ cursor = Off /\ sess = Off /\ shown = Off /\ late = Off

GraphOff ==
    /\ queue = Off /\ closed = Off /\ calls = Off /\ limit = Off /\ tr = Off
    /\ processing = Off /\ inflight = Off /\ submission = Off /\ graphs = Off
    /\ completed = Off /\ submits = Off /\ appended = Off /\ shared = Off
    /\ applied = Off /\ held = Off

RegistryOff ==
    /\ registered = Off /\ readers = Off /\ waiting = Off /\ call = Off
    /\ ads = Off /\ sync = Off /\ tally = Off

outsideSync == <<part, graphVars, registryVars>>
outsideGraph == <<part, syncVars, registryVars>>
outsideRegistry == <<part, syncVars, graphVars>>

Init ==
    \/ part = "sync" /\ Session!SyncInit /\ GraphOff /\ RegistryOff
    \/ part = "graph" /\ Graph!Init /\ SyncOff /\ RegistryOff
    \/ part = "registry" /\ Registry!RegistryInit /\ SyncOff /\ GraphOff

SyncNext == part = "sync" /\ Session!SyncNext /\ UNCHANGED outsideSync
GraphNext == part = "graph" /\ Graph!Next /\ UNCHANGED outsideGraph
RegistryNext == part = "registry" /\ Registry!RegistryNext /\ UNCHANGED outsideRegistry

Next == SyncNext \/ GraphNext \/ RegistryNext

-----------------------------------------------------------------------------
\* Goroutines run and every call they make returns; nothing makes anyone start a
\* session, call the engine or close the GASP instance.
Fairness ==
    /\ WF_vars(part = "sync" /\ Session!SessionStep("s1") /\ UNCHANGED outsideSync)
    /\ \A w \in {"w1", "w2"} :
          WF_vars(part = "graph" /\ Graph!SlotStep(w) /\ UNCHANGED outsideGraph)
    /\ SF_vars(part = "graph" /\ Graph!Worker /\ UNCHANGED outsideGraph)
    /\ WF_vars(part = "graph" /\ closed = "closing" /\ Graph!Close /\ UNCHANGED outsideGraph)
    /\ \A c \in {"c1", "c2"} :
          WF_vars(part = "registry" /\ Registry!CallStep(c) /\ UNCHANGED outsideRegistry)
    /\ WF_vars(part = "registry" /\ Registry!SyncStep("s1") /\ UNCHANGED outsideRegistry)

Spec == Init /\ [][Next]_vars /\ Fairness

-----------------------------------------------------------------------------
(* Properties.                                                             *)

\* Synchronisation ends.  The loop of syncWithPeer (engine.go) stops once the peer
\* has nothing newer to list, so that every call of StartGASPSync returns, however
\* pages, equal scores, failures and outputs created meanwhile fall together.  The
\* peer's outputs are finite here: a peer that lists ever higher scores keeps the
\* loop going, and the code has no bound against it.  Every traversal returns: the tables shared by
\* outpoint, request and transaction never leave traversals waiting for one
\* another or for a result that nobody will deliver.  "Close stops the processing
\* worker goroutine and drains the queue": Close returns, although the worker may
\* have to wait for a slot.
SyncEnds ==
    /\ part = "sync" /\ sess["s1"].pc # "idle" ~> part = "sync" /\ sess["s1"].pc = "idle"
    /\ \A w \in {"w1", "w2"} :
          part = "graph" /\ tr[w].st # "idle" ~> part = "graph" /\ tr[w].st = "idle"
    /\ part = "graph" /\ closed = "closing" ~> part = "graph" /\ closed = "closed" /\ queue = <<>>

\* Every call into the engine returns: no goroutine waits for ever on the
\* registry's mutex, when GetMetaData does not call back into the engine.
CallsReturn ==
    /\ \A c \in {"c1", "c2"} :
          part = "registry" /\ call[c].op # "idle" ~> part = "registry" /\ call[c].op = "idle"
    /\ part = "registry" /\ Registry!InFlight("s1") ~> part = "registry" /\ ~Registry!InFlight("s1")
=============================================================================
