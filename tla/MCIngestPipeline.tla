-------------------------- MODULE MCIngestPipeline --------------------------
(***************************************************************************)
(* Instances of IngestPipeline for TLC.  fpA and fpB have two rows each,   *)
(* so that both can fire again after a user closed their first row.  The   *)
(* payload p1 names them in the opposite order of the batch, p2 names fpA  *)
(* twice, p3 has an alert the database refuses, p4 is for the project      *)
(* whose list BRPOP looks at second.                                       *)
(***************************************************************************)
EXTENDS IngestPipeline, TLC

CONSTANTS a1, a2, b1, b2, fpA, fpB, j1, j2, p1, p2, p3, p4

MCFingerprintOf == [i \in AlertIds |-> IF i \in {a1, a2} THEN fpA ELSE fpB]

MCIdLists == {<<a1>>, <<b1, a1>>}

MCSingles == {<<a1>>, <<b1>>}

MCContentOf ==
  [p \in Payloads |->
     (p1 :> <<fpA, Ignored, fpB>> @@ p2 :> <<fpA, fpA>> @@
      p3 :> <<fpB, Rejected>> @@ p4 :> <<Ignored>>)[p]]

MCProjectOf == [p \in Payloads |-> IF p = p4 THEN j2 ELSE j1]

MCKeyOrder == <<j1, j2>>

=============================================================================
