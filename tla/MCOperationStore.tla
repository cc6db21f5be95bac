--------------------------- MODULE MCOperationStore ---------------------------
(* TLC instances of OperationStore.                                           *)
EXTENDS OperationStore, TLC

\* Callers are interchangeable, and so are the receipts of one digest.
Symmetry == Permutations(Callers) \cup Permutations(Receipts)
=============================================================================
