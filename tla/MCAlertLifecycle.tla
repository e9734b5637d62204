-------------------------- MODULE MCAlertLifecycle --------------------------
(***************************************************************************)
(* Instances of AlertLifecycle for TLC: two rows for the fingerprint fpA,  *)
(* so that it can re-fire after its first row is closed, and one for fpB,  *)
(* so that two batches can lock the rows of a and b in opposite orders.    *)
(***************************************************************************)
EXTENDS AlertLifecycle, TLC

CONSTANTS a1, a2, b1, fpA, fpB

MCFingerprintOf == [i \in {a1, a2, b1} |-> IF i = b1 THEN fpB ELSE fpA]

\* Single ids, two batches in opposite orders, and a batch that repeats an id.
MCIdLists == {<<a1>>, <<a1, b1>>, <<b1, a1>>, <<a1, a1>>}

MCSingles == {<<a1>>, <<a2>>, <<b1>>}

MCSymmetry == Permutations(AlertRequests)

=============================================================================
