-------------------------- MODULE MCAnalysisWorker --------------------------
(* Small instances of AnalysisWorker for TLC.                              *)
EXTENDS AnalysisWorker, TLC

\* The first stage, the step back the real pipeline takes (FreezingCohort is
\* emitted after ParsingUpdates) and the last stage.
FourStages ==
  << "DiscoveringArchives", "ParsingUpdates", "FreezingCohort", "RenderingArtifacts" >>

NoStages == << >>

OneTime == {1}

Symmetry ==
  Permutations(Jobs) \cup Permutations(Workers) \cup Permutations(RunIds)
    \cup Permutations(Seconds)

=============================================================================
