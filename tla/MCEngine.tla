------------------------------ MODULE MCEngine ------------------------------
(***************************************************************************)
(* TLC instances of the engine's writes without an admission store and of  *)
(* the synchronisation that feeds them: LegacySubmit, MerkleProofs,        *)
(* GaspSync and GaspGraph.  A behaviour belongs to one part, which `part'  *)
(* names from the first state on; the variables of the other modules stay  *)
(* as they are before the first call.                                      *)
(*                                                                         *)
(*   replay      two callers submit a coin and its spend to two topics,    *)
(*               each twice, and any call of one of them may fail          *)
(*   chain       one caller submits a chain of four transactions, one with *)
(*               two outputs, each twice and in any order                  *)
(*   join        two handlers attach proofs to transactions that spend one *)
(*               another; any call may fail                                *)
(*   descent     one handler attaches proofs at two heights along a chain, *)
(*               across two reorganisations                                *)
(*   paging      one session at a time, two outputs of three in one        *)
(*               transaction, pages of two                                 *)
(*   overlap     two sessions on one peer, pages of two; outside them only *)
(*               output 3 is submitted, deleted or spent                   *)
(*   graph       two slots, three calls: an unproven transaction and the   *)
(*               two outputs it spends, graphs without a limit             *)
(*   crowd       two slots, two calls: three transactions and their five   *)
(*               outputs, graphs of at most two or three nodes             *)
(***************************************************************************)
EXTENDS LegacySubmit, MerkleProofs, GaspSync, GaspGraph, TLC

CONSTANTS w1, w2

VARIABLE part

allVars == <<part, submitVars, merkleVars, syncVars, vars>>

-----------------------------------------------------------------------------
(* A chain of four transactions, t3 with two outputs.                      *)
TopicList == <<"tm_one", "tm_two">>
ChainTxs == {"t1", "t2", "t3", "t4"}
ChainCoins == {"a", "b", "c1", "c2", "d"}
ChainSpends == "t1" :> {} @@ "t2" :> {"a"} @@ "t3" :> {"b"} @@ "t4" :> {"c1"}
ChainAdmits == "t1" :> {"a"} @@ "t2" :> {"b"} @@ "t3" :> {"c1", "c2"} @@ "t4" :> {"d"}

\* b spends a, and c spends b and m.
MinedTxs == {"a", "b", "c", "m"}
MinedInputs == "a" :> {} @@ "b" :> {"a"} @@ "c" :> {"b", "m"} @@ "m" :> {}
MinedConsumers == "a" :> {"b"} @@ "b" :> {"c"} @@ "c" :> {} @@ "m" :> {"c"}

\* Two outputs in one transaction and one in another.  The SHIP lookup finds the
\* peer and the engine itself, or only an advertisement of the wrong protocol and
\* one that does not parse.
TwoPeerTxs == {{1, 2}, {3}}
Ad(domain, protocol, parsed) == [domain |-> domain, protocol |-> protocol, parsed |-> parsed]
LookupAnswers == {{Ad("p1", "SHIP", TRUE), Ad("self", "SHIP", TRUE)},
                  {Ad("p1", "SLAP", TRUE), Ad("p1", "SHIP", FALSE)}}

\* child spends the output of parent and one of origin, parent the other two.
LineTxs == {"origin", "parent", "child"}
LineOutpoints == {"o0", "o1", "o2", "p0", "c0"}
LineTxOf == [o \in {"o0", "o1", "o2"} |-> "origin"] @@ "p0" :> "parent" @@ "c0" :> "child"
LineInputs == "origin" :> {} @@ "parent" :> {"o0", "o1"} @@ "child" :> {"p0", "o2"}
GraphLimits == {None, 2, 3}

ASSUME LegacyConstants /\ MerkleConstants /\ GaspSyncAssumption /\ GaspGraphAssumption

-----------------------------------------------------------------------------
\* The chain tracker starts on the first branch, in most parts.
FirstBranch == \A n \in Heights : canon[n] = RootAt(n, 1)

MCInit ==
    /\ SubmitInit /\ MerkleInit /\ SyncInit /\ Init
    /\ part \in {"replay", "chain", "join", "descent", "paging", "overlap", "graph", "crowd"}
    /\ part = "crowd" <=> limit # None
    /\ part # "descent" => FirstBranch

outsideSubmit == <<part, merkleVars, syncVars, vars>>
outsideMerkle == <<part, submitVars, syncVars, vars>>
outsideSync == <<part, submitVars, merkleVars, vars>>
outsideGraph == <<part, submitVars, merkleVars, syncVars>>

ReplayNext ==
    /\ part = "replay"
    /\ \/ \E c \in Callers : CallerStep(c) \/ \E x \in {"t1", "t2"} : EngineSubmit(c, x)
       \/ SubmitFails("c1")
    /\ UNCHANGED outsideSubmit

\* One caller, and no call fails.
ChainNext ==
    /\ part = "chain"
    /\ CallerStep("c1") \/ \E x \in Submitted : EngineSubmit("c1", x)
    /\ UNCHANGED outsideSubmit

\* c and its inputs, one height, three proofs and one reorganisation.
JoinNext ==
    /\ part = "join"
    /\ \/ Reorg
       \/ \E h \in Handlers :
            \/ HandlerStep(h) \/ HandlerFails(h)
            \/ \E x \in {"b", "m", "c"}, n \in {0, 1}, v \in Branches : ProcessIngest(h, x, n, RootAt(1, v))
       \/ ReconcileMerkleRoot(1)
    /\ reorgs' <= 1 /\ canon'[2] = RootAt(2, 1)
    /\ UNCHANGED outsideMerkle

\* A chain, one handler, and no call fails.
DescentNext ==
    /\ part = "descent"
    /\ \/ Reorg \/ HandlerStep("h1")
       \/ \E x \in {"a", "b", "c"}, n \in Heights \cup {0}, r \in BlockRoots : ProcessIngest("h1", x, n, r)
       \/ \E n \in Heights : ReconcileMerkleRoot(n)
    /\ UNCHANGED outsideMerkle

PagingNext == part = "paging" /\ SyncNext /\ sess'["s2"] = Idle /\ UNCHANGED outsideSync
OverlapNext ==
    /\ part = "overlap"
    /\ \/ Tick \/ Crash
       \/ \E p \in Peers, t \in PeerTxs : prepareAdmittedOutputs(p, t) \/ insertPreparedOutputs(p, t)
       \/ \E s \in Sessions : StartGASPSync(s) \/ SessionStep(s)
       \/ SubmitOutput(3) \/ ForgetOutput(3) \/ \E p \in Peers : PeerMarksSpent(p, 3)
    /\ UNCHANGED outsideSync
GraphNext ==
    /\ part = "graph"
    /\ \/ Worker \/ Close
       \/ \E o \in {"o0", "p0"} : ProcessUTXO(o) \/ \E w \in Slots : SyncCall(w, o)
       \/ \E w \in Slots : SlotStep(w)
       \/ \E t \in {"origin", "parent"} : SubmitLocally(t)
       \/ \E o \in {"o0", "p0"} : DeleteOutput(o)
    /\ UNCHANGED outsideGraph

\* Nothing is queued and nobody else writes.
CrowdNext ==
    /\ part = "crowd"
    /\ \E w \in Slots : SlotStep(w) \/ \E o \in {"p0", "c0"} : SyncCall(w, o)
    /\ calls' <= 2
    /\ UNCHANGED outsideGraph

MCNext ==
    \/ ReplayNext \/ ChainNext \/ JoinNext \/ DescentNext
    \/ PagingNext \/ OverlapNext \/ GraphNext \/ CrowdNext

MCSpec == MCInit /\ [][MCNext]_allVars

Symmetry == Permutations({w1, w2})

-----------------------------------------------------------------------------
(* Properties.                                                             *)

\* With one Submit at a time and no failing call the lookup service serves,
\* between submissions, exactly the stored outputs that are not spent, and
\* consumption edges join stored outputs only.  With one HandleNewMerkleProof at a
\* time and no failing call, a proof reaches every BEEF that holds the transaction
\* and replaces the one of an orphaned block, and the documents and the lookup
\* services hold the height of the proof.
QuietWritesAgree ==
    /\ part = "chain" => ViewMatchesStore /\ NoDanglingEdges
    /\ part = "descent" => ProofReachesConsumers /\ HeightFollowsProof
=============================================================================
