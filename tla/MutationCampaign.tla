-------------------------- MODULE MutationCampaign --------------------------
(***************************************************************************)
(* runMutationCampaign of src/mutation-campaign.ts: evaluate the correct   *)
(* implementation, then every mutant the tested path supports, and say     *)
(* whether the required ones are all killed by the mismatch expected.      *)
(***************************************************************************)
EXTENDS BoundedTrial

CONSTANT Denominator    \* the number of mutants
ASSUME DenominatorAssumption == Denominator \in Nat \ {0}

Supports == {"required", "optional", "unsupported"}

(* What an evaluation says: the expected mismatch, or a pass, each with its *)
(* probe passed; or what else it failed with.  clean is cleanupConfirmed.   *)
EvaluationStatuses ==
    {"mismatch", "passed", "configuration", "transport", "other"}

(* A validated campaign: support by mutant; whether the policy admits it *)
CampaignSubjects == [support : [1 .. Denominator -> Supports], admitted : BOOLEAN]

(* The mutants of the path, in the campaign's order *)
Selected == SelectSeq([i \in 1 .. Denominator |-> i],
                      LAMBDA i : subject.support[i] # "unsupported")
Required == {i \in 1 .. Denominator : subject.support[i] = "required"}

Correct == 0    \* the baseline's identity among the trials

classify(evaluation) ==
    CASE evaluation.status = "mismatch" /\ evaluation.clean -> "killed_by_behavioral_mismatch"
      [] evaluation.status = "passed" /\ evaluation.clean -> "survived"
      [] evaluation.status = "configuration" -> "invalid_mutant"
      [] evaluation.status = "transport" -> "infrastructure_failure"
      [] OTHER -> "inconclusive"

(* Variant with a bug: required mutants that were not run do not count. *)
Acceptance_Attempted(status, cases) ==
    LET of(class) == {cases[i].of : i \in {j \in 1 .. Len(cases) : cases[j].outcome = class}}
    IN  IF Required \cap of("survived") # {} THEN "unmet"
        ELSE IF Required \cap (of("inconclusive") \cup of("invalid_mutant")) # {} THEN "incomplete"
        ELSE "met"

(* acceptance: of the required mutants, from the cases of the campaign *)
Acceptance(status, cases) ==
    LET attempted == {cases[i].of : i \in 1 .. Len(cases)}
        of(class) == {cases[i].of : i \in {j \in 1 .. Len(cases) : cases[j].outcome = class}}
    IN  IF status # "complete" \/ ~(Required \subseteq attempted) THEN "incomplete"
        ELSE IF Required \cap of("survived") # {} THEN "unmet"
        ELSE IF ~(Required \subseteq of("killed_by_behavioral_mismatch")) THEN "incomplete"
        ELSE "met"

CampaignEnds(status) ==
    Finish([status |-> status, acceptance |-> Acceptance(status, log')])

(* The baseline was not accepted: nothing else is run. *)
BaselineFails ==
    /\ Finish([status |-> IF aborted THEN "cancelled" ELSE "baseline_failed",
               acceptance |-> "incomplete"])
    /\ UNCHANGED log

(* checkProtected: the identities are observed within the budget.  Before   *)
(* the baseline a failure is thrown, and so is a campaign over the limit.   *)
CampaignProtected ==
    /\ tool = "campaign" /\ pc = "next" /\ UNCHANGED log
    /\ \E answer \in Answers({"same", "drifted"}) :
          IF answer # "same" \/ ~subject.admitted
          THEN /\ Finish([status |-> "thrown", acceptance |-> "none"])
               /\ UNCHANGED <<trial, started>>
          ELSE IF aborted THEN BaselineFails /\ UNCHANGED <<trial, started>>
          ELSE StartTrial(Correct) /\ Goto("race")
    /\ UNCHANGED <<loopVars, truth>>

BaselineRace ==
    /\ tool = "campaign" /\ pc = "race" /\ trial.of = Correct
    /\ \/ /\ RaceEnds("result")
          /\ IF trial.status = "passed" /\ trial.clean
             THEN Goto("loop") /\ UNCHANGED log ELSE BaselineFails
       \/ RaceEnds("rejected") /\ BaselineFails
       \/ \E kind \in {"timed_out", "cancelled"} :
             RaceEnds(kind) /\ Goto(kind) /\ UNCHANGED log
    /\ UNCHANGED <<loopVars, trial, started, truth>>

(* The head of the loop over the mutants *)
CampaignLoop ==
    /\ tool = "campaign" /\ pc = "loop" /\ UNCHANGED log
    /\ \/ Len(log) = Len(Selected) /\ CampaignEnds("complete")
       \/ Len(log) < Len(Selected) /\ aborted /\ CampaignEnds("cancelled")
       \/ Len(log) < Len(Selected) /\ ~aborted /\ CampaignEnds("incomplete")
       \/ Len(log) < Len(Selected) /\ ~aborted /\ Goto("protected")
    /\ UNCHANGED <<loopVars, trial, started, truth>>

(* The identities are observed again before every mutant. *)
MutantProtected ==
    /\ tool = "campaign" /\ pc = "protected"
    /\ LET mutant == Selected[Len(log) + 1]
       IN  \E answer \in Answers({"same", "drifted"}) :
              CASE answer # "same" ->
                     CampaignEnds("incomplete") /\ UNCHANGED <<trial, started, log>>
                [] answer = "same" /\ aborted ->
                     /\ Logged(mutant, "inconclusive") /\ CampaignEnds("cancelled")
                     /\ UNCHANGED <<trial, started>>
                [] OTHER -> StartTrial(mutant) /\ Goto("race") /\ UNCHANGED log
    /\ UNCHANGED <<loopVars, truth>>

MutantRace ==
    /\ tool = "campaign" /\ pc = "race" /\ trial.of # Correct
    /\ \/ /\ RaceEnds("result")
          /\ Logged(trial.of, classify(trial))
          /\ IF trial.clean THEN Goto("loop") ELSE CampaignEnds("incomplete")
       \/ /\ RaceEnds("rejected")
          /\ Logged(trial.of, "infrastructure_failure") /\ CampaignEnds("incomplete")
       \/ \E kind \in {"timed_out", "cancelled"} :
             RaceEnds(kind) /\ Goto(kind) /\ UNCHANGED log
    /\ UNCHANGED <<loopVars, trial, started, truth>>

(* An evaluation that was abandoned: the campaign ends with it, whatever it *)
(* still says.                                                             *)
CampaignSettlement ==
    /\ tool = "campaign" /\ pc \in {"timed_out", "cancelled"}
    /\ \E clean \in BOOLEAN : SettlementEnds(clean)
    /\ IF trial.of = Correct THEN BaselineFails
       ELSE /\ Logged(trial.of, "inconclusive")
            /\ CampaignEnds(IF pc = "cancelled" THEN pc ELSE "incomplete")
    /\ UNCHANGED <<loopVars, trial, started, truth>>

CampaignNext ==
    \/ CampaignProtected \/ BaselineRace \/ CampaignLoop \/ MutantProtected
    \/ MutantRace \/ CampaignSettlement

-----------------------------------------------------------------------------
(* Acceptance is about what really ran: "met" means that the correct        *)
(* implementation passed and every required mutant was killed as expected,  *)
(* "unmet" that one required mutant survived; every run cleaned up.         *)
AcceptanceIsEarned ==
    (tool = "campaign" /\ report # Nothing)
    => LET Ran(m, status) ==
               \E i \in 1 .. Len(truth) : truth[i] = Trial(m, "result", status, TRUE)
       IN  /\ report.acceptance \in {"met", "unmet"} => Ran(Correct, "passed")
           /\ report.acceptance = "met" => \A m \in Required : Ran(m, "mismatch")
           /\ report.acceptance = "unmet" => \E m \in Required : Ran(m, "passed")
=============================================================================
