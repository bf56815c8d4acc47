-------------------------- MODULE MCAssessmentRuns --------------------------
(***************************************************************************)
(* Small instances of AssessmentRuns.                                      *)
(***************************************************************************)
EXTENDS AssessmentRuns, TLC

MCSymmetry == Permutations(Handler)
=============================================================================
