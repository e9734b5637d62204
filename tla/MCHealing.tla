----------------------------- MODULE MCHealing -----------------------------
(***************************************************************************)
(* Instances of Healing for TLC.  The alert rows other than b1 have one    *)
(* fingerprint.  h1 and h2 are row ids for the same alert and action type, *)
(* so that the unique index matters; h3 is another action of the alert.    *)
(***************************************************************************)
EXTENDS Healing, TLC

CONSTANTS a1, b1, fpA, fpB, h3, restart, scale

MCFingerprintOf == [i \in AlertIds |-> IF i = b1 THEN fpB ELSE fpA]

MCAlertOf == [h \in HealIds |-> a1]

MCTypeOf == [h \in HealIds |-> IF h = h3 THEN scale ELSE restart]

MCIdLists == {<<a1>>}

\* Batches that lock the two rows in opposite orders.
MCBatches == {<<a1, b1>>, <<b1, a1>>}

MCSymmetry == Permutations(AlertRequests) \cup Permutations(HealRequests)

=============================================================================
