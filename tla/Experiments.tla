---------------------------- MODULE Experiments ----------------------------
(***************************************************************************)
(* The experiment tools together: one of them is given a subject and runs. *)
(***************************************************************************)
EXTENDS PrefixReduction, MutationCampaign, LeaseReduction, Reproduction,
        ScheduleExploration

Subjects(t) ==
    CASE t = "stability" -> StabilitySubjects
      [] t = "prefix" -> PrefixSubjects
      [] t = "campaign" -> CampaignSubjects
      [] t = "lease" -> LeaseSubjects
      [] t = "oracle" -> OracleSubjects
      [] t = "reproduce" -> ReproductionSubjects
      [] t = "explore" -> ExplorationSubjects

Tools == {"stability", "prefix", "campaign", "lease", "oracle", "reproduce", "explore"}

(* What the application's promise can say to the tool that awaits it *)
Statuses ==
    CASE tool \in {"stability", "prefix"} -> ReplayStatuses
      [] tool = "campaign" -> EvaluationStatuses
      [] tool = "lease" -> LeaseStatuses
      [] tool = "oracle" -> OracleStatuses
      [] tool = "reproduce" -> SuiteResults
      [] tool = "explore" -> SampleStatuses

Init ==
    /\ tool \in Tools /\ subject \in Subjects(tool)
    /\ TrialInit

Next ==
    \/ StabilityNext \/ PrefixNext \/ CampaignNext \/ LeaseNext
    \/ OracleNext \/ ReproductionNext \/ ExplorationNext
    \/ TrialSettles(Statuses)
    \/ tool # "oracle" /\ SignalAborts

Spec == Init /\ [][Next]_vars

(* What a reduction, an oracle's receipt, a reproduction or an exploration  *)
(* claims is what really happened.                                         *)
ClaimsAreEarned == ReducedIsEarned /\ ReproducedIsEarned /\ CompleteIsExhaustive
=============================================================================
