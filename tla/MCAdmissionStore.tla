-------------------------- MODULE MCAdmissionStore --------------------------
(* TLC instances of AdmissionStore.                                         *)
EXTENDS AdmissionStore, TLC

CONSTANTS t1, t2, x1, x2, x3, g, o1, o2, k1, k2

\* x1 and x2 spend the same output; x3 spends the output of x1 and creates none
\* that a topic admits.
MCInputs == x1 :> {g} @@ x2 :> {g} @@ x3 :> {o1}
MCOutputs == x1 :> {o1} @@ x2 :> {o2} @@ x3 :> {}
MCRetained == x1 :> {g} @@ x2 :> {} @@ x3 :> {o1}

\* A submission the engine builds.
Ordinary(x, ts, m, k) ==
  [tx |-> x, topics |-> ts, mode |-> m, context |-> k, revises |-> {}, advance |-> 1, evicts |-> {},
   handoff |-> FALSE]

\* Conflicting spends, overlapping topic sets, both modes, two contexts.
Conflicting ==
  {Ordinary(x1, {t1}, "live", k1), Ordinary(x1, {t1}, "live", k2),
   Ordinary(x1, {t1, t2}, "historical", k1), Ordinary(x2, {t1}, "live", k1),
   Ordinary(x3, {t1}, "live", k1), Ordinary(x3, {t1}, "historical", k1)}

\* A recovery worker's submission for topic t1.
Revision(x, n, es, h) ==
  [tx |-> x, topics |-> {t1}, mode |-> "historical", context |-> k1, revises |-> {t1},
   advance |-> n, evicts |-> es, handoff |-> h]

\* A revision with a handoff and one that evicts, beside an ordinary submission.
Revising ==
  {Ordinary(x1, {t1}, "live", k1), Revision(x2, 1, {}, TRUE), Revision(x3, 2, {g}, FALSE)}

Submissions == Conflicting \cup Revising

\* A behaviour of this run makes the submissions of one of the two kinds, and
\* takes recovery leases only beside revisions and for their topic.
VARIABLE scenario

MadeIn(k) == {None} \cup IF k = "conflicts" THEN Conflicting ELSE Revising

MCInit == Init /\ scenario \in {"conflicts", "revisions"}

MCNext ==
  /\ Next
  /\ \A c \in Callers : request'[c] \in MadeIn(scenario)
  /\ lease'[t2] = lease[t2] /\ (scenario = "conflicts" => lease' = lease)
  /\ UNCHANGED scenario

MCSpec == MCInit /\ [][MCNext]_<<vars, scenario>>

Symmetry == Permutations(Callers)
=============================================================================
