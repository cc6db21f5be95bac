------------------------------- MODULE MCBasm -------------------------------
(***************************************************************************)
(* TLC instances of the BASM read side.  A behaviour belongs to one part,  *)
(* which `part' names from the first state on; the variables of the other  *)
(* modules stay as they are initially, those of BasmProof Off.             *)
(*                                                                         *)
(*   merge     BasmProof: two proofs of up to five nodes in blocks of up   *)
(*             to three transactions                                       *)
(*   position  BasmProof: one proof of up to three nodes in blocks of up   *)
(*             to six transactions                                         *)
(*   range     BasmRead: tips and ranges of up to two heights, across two  *)
(*             reorganisations and a rewritten history                     *)
(*   block     BasmRead: lists, proofs and raw transactions of a block;    *)
(*             the chain takes the same fork at every height               *)
(*   budget    BasmBudget: words of eight bits, limits of four: small      *)
(*             enough for every limit and large enough for products and    *)
(*             sums to wrap                                                *)
(***************************************************************************)
EXTENDS BasmRead, BasmBudget, TLC

CONSTANTS Off

VARIABLES part, count, nodes, merged, served, totalBytes, result

proofVars == <<count, nodes, merged, served, totalBytes, result>>
allVars == <<part, proofVars, vars, budgetVars>>

Merge == INSTANCE BasmProof WITH
    MaxCount <- 3, MaxNodes <- 5, MaxTxIDs <- 2, MaxProofBytes <- 8

Position == INSTANCE BasmProof WITH
    MaxCount <- 6, MaxNodes <- 3, MaxTxIDs <- 1, MaxProofBytes <- 3

ASSUME Merge!BoundsAssumption /\ Position!BoundsAssumption
ASSUME ReadAssumption /\ BudgetAssumption

ProofOff ==
    /\ count = Off /\ nodes = Off /\ merged = Off /\ served = Off
    /\ totalBytes = Off /\ result = Off

OneFork(c) == \A i \in DOMAIN c : c[i] = c[1]

ReadIdle == Init /\ OneFork(chain)
BudgetIdle == BudgetInit /\ limit = 0

MCInit ==
    \/ part = "merge" /\ Merge!Init /\ ReadIdle /\ BudgetIdle
    \/ part = "position" /\ Position!Init /\ ReadIdle /\ BudgetIdle
    \/ part = "range" /\ Init /\ ProofOff /\ BudgetIdle
    \/ part = "block" /\ Init /\ OneFork(chain) /\ ProofOff /\ BudgetIdle
    \/ part = "budget" /\ BudgetInit /\ ProofOff /\ ReadIdle

MergePart == part = "merge" /\ Merge!Next /\ UNCHANGED <<part, vars, budgetVars>>
PositionPart == part = "position" /\ Position!Next /\ UNCHANGED <<part, vars, budgetVars>>
RangePart ==
    /\ part = "range" /\ Next /\ req'.kind \in {"none", "tip", "range"}
    /\ UNCHANGED <<part, proofVars, budgetVars>>
BlockPart ==
    /\ part = "block" /\ Next /\ req'.kind \in {"none", "list", "proof", "raw"} /\ OneFork(chain')
    /\ UNCHANGED <<part, proofVars, budgetVars>>
BudgetPart == part = "budget" /\ BudgetNext /\ UNCHANGED <<part, proofVars, vars>>

MCNext == MergePart \/ PositionPart \/ RangePart \/ BlockPart \/ BudgetPart

MCSpec == MCInit /\ [][MCNext]_allVars

\* A miner's choices at a height are interchangeable.
Symmetry == Permutations(Forks)

-----------------------------------------------------------------------------

\* Proofs that validateBASMProof accepted never contradict each other, so the
\* error of mergeProofNode is dead; the path that encodeMergedProof sends passes
\* the same validation for every requested transaction; a transaction is served
\* only at its real position in the block, whatever the storage put into its
\* proof; and no genuine proof is refused, in blocks of any width.
ProofsAreSound ==
    /\ part = "merge" =>
        /\ Merge!TypeOK /\ Merge!AcceptedNodesAreTrue
        /\ Merge!MergedProvesAll /\ Merge!ServedAtRealPosition
    /\ part = "position" =>
        /\ Position!TypeOK /\ Position!ServedAtRealPosition
        /\ Position!DirectProofsAccepted
=============================================================================
