------------------------------ MODULE JobState ------------------------------
(***************************************************************************)
(* The states of a durable analysis job and the relation between them      *)
(* (src/src/catalog/jobs/mod.rs).  Pure definitions: which states are      *)
(* active, cancellable, retryable, and which state changes are legal.      *)
(***************************************************************************)
EXTENDS Naturals, Sequences

\* The ten states a worker moves a claimed job through before publication.
Executing ==
  {"Claimed", "DiscoveringArchives", "AcquiringArchives", "ParsingBaseline",
   "FreezingCohort", "ParsingUpdates", "ReconstructingRoutes",
   "DerivingEvidence", "RenderingArtifacts", "ValidatingArtifacts"}

Terminal == {"Completed", "Cancelled", "Failed"}

States == Executing \cup Terminal
            \cup {"Queued", "PublishingRun", "CancelRequested"}

\* The states whose lease is renewed by the worker and expired by the stale
\* scan: the literal list repeated in the UPDATE statements of the service.
Leased == Executing \cup {"PublishingRun"}

is_active(s) == s \notin Terminal

is_retryable(s) == s \in {"Failed", "Cancelled"}

\* Mutant: a cancellation is accepted once publication has begun.
is_cancellable_publishing(s) == s \in Leased \cup {"Queued"}

is_cancellable(s) == s \in Executing \cup {"Queued"}

\* The fixed order of the stages; an advance may skip, never go back.
StageOrder ==
  << "Claimed", "DiscoveringArchives", "AcquiringArchives", "ParsingBaseline",
     "FreezingCohort", "ParsingUpdates", "ReconstructingRoutes",
     "DerivingEvidence", "RenderingArtifacts", "ValidatingArtifacts",
     "PublishingRun" >>

stage_advance(from, to) ==
  \E a, b \in 1..11 : /\ StageOrder[a] = from
                      /\ StageOrder[b] = to
                      /\ a < b

legal_transition(from, to) ==
  /\ from # to
  /\ \/ <<from, to>> \in { <<"Queued", "Claimed">>, <<"Queued", "Cancelled">>,
                           <<"Queued", "Failed">>, <<"Claimed", "Cancelled">>,
                           <<"CancelRequested", "Cancelled">>,
                           <<"CancelRequested", "Failed">>,
                           <<"PublishingRun", "Completed">>,
                           <<"PublishingRun", "Failed">> }
     \/ from \in Executing /\ to \in {"CancelRequested", "Failed"}
     \/ from \in Executing /\ stage_advance(from, to)

\* What the stage column shows for a state: the stage itself, or nothing.
NoStage == "none"

stage_label(s) ==
  IF s \in (Executing \ {"Claimed"}) \cup {"PublishingRun"} THEN s ELSE NoStage

=============================================================================
