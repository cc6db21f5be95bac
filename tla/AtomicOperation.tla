--------------------------- MODULE AtomicOperation ---------------------------
(***************************************************************************)
(* What an operation ID promises its callers, without rows, leases or      *)
(* transactions (the AdmissionStorage contract of                          *)
(* pkg/core/engine/admission_storage.go: one atomic commit per operation,  *)
(* an exact saved receipt, aborted only when it is proved).                *)
(*                                                                         *)
(* At most one body takes effect.  A definitive result is a promise about  *)
(* the whole future: committed names the body that took effect, aborted    *)
(* means that attempt never takes effect, rejected means that digest never *)
(* does.                                                                   *)
(***************************************************************************)
EXTENDS Sequences

VARIABLES
  decided,   \* the bodies that took effect
  promises   \* the definitive results given to callers

\* A promise that the decision so far keeps.
Kept(p) ==
  /\ p.state = "committed" =>
       \E i \in DOMAIN decided : decided[i].digest = p.digest /\ decided[i].receipt = p.receipt
  /\ p.state = "aborted" => \A i \in DOMAIN decided : decided[i].attempt # p.attempt
  /\ p.state = "rejected" => \A i \in DOMAIN decided : decided[i].digest # p.digest

Init == decided = <<>> /\ promises = {}

\* One body takes effect, unless its attempt or its digest is ruled out.
Commit ==
  /\ decided = <<>>
  /\ Len(decided') = 1
  /\ \A p \in promises : Kept(p)'
  /\ UNCHANGED promises

\* A caller is given a result.
Promise ==
  /\ promises \subseteq promises'
  /\ \A p \in promises' : Kept(p)
  /\ UNCHANGED decided

Next == Commit \/ Promise

Spec == Init /\ [][Next]_<<decided, promises>>
=============================================================================
