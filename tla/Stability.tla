----------------------------- MODULE Stability -----------------------------
(***************************************************************************)
(* classifyReproductionStability of src/reproduction-stability.ts: replay  *)
(* one reproduction bundle a fixed number of times and say whether its     *)
(* failure is stable.                                                      *)
(***************************************************************************)
EXTENDS BoundedTrial

CONSTANT AttemptLimit
ASSUME AttemptLimitAssumption == AttemptLimit \in Nat \ {0}

(* What an attempt's result says: a stale one was expected to show another  *)
(* signature, or claims a match the bundle's signature does not confirm.    *)
ReplayStatuses == {"reproduced", "not_reproduced", "stale"}

StabilitySubjects == [resettable : BOOLEAN]

Outcomes(entries) == {entries[i].outcome : i \in 1 .. Len(entries)}

(* Variant with a bug: the attempts made are taken for all of them. *)
Classification_Attempted(attempts, lost) ==
    IF aborted THEN "cancelled"
    ELSE IF lost \/ ~(Outcomes(attempts) \subseteq {"reproduced", "not_reproduced"})
    THEN "inconclusive"
    ELSE IF Outcomes(attempts) = {"reproduced"} THEN "stable"
    ELSE IF "reproduced" \notin Outcomes(attempts) THEN "not_reproduced" ELSE "unstable"

(* classification, from the attempts and the independence kept or lost *)
Classification(attempts, lost) ==
    IF aborted THEN "cancelled"
    ELSE IF \/ lost \/ ~(Outcomes(attempts) \subseteq {"reproduced", "not_reproduced"})
            \/ Len(attempts) < AttemptLimit
    THEN "inconclusive"
    ELSE IF Outcomes(attempts) = {"reproduced"} THEN "stable"
    ELSE IF "reproduced" \notin Outcomes(attempts) THEN "not_reproduced" ELSE "unstable"

StabilityReport(class, lost) ==
    [class |-> class, independence |-> IF lost THEN "lost" ELSE "confirmed"]

Classify(lost) == Finish(StabilityReport(Classification(log', lost), lost))

(* The head of the loop *)
StabilityAttempt ==
    /\ tool = "stability" /\ pc = "next"
    /\ \/ /\ ~subject.resettable
          /\ Finish([class |-> "inconclusive", independence |-> "not_established"])
          /\ UNCHANGED <<trial, started, log>>
       \/ /\ subject.resettable /\ Len(log) < AttemptLimit /\ aborted
          /\ Finish(StabilityReport("cancelled", FALSE))
          /\ UNCHANGED <<trial, started, log>>
       \/ /\ subject.resettable /\ (Len(log) < AttemptLimit => ~aborted)
          /\ UNCHANGED log /\ Classify(FALSE)
          /\ UNCHANGED <<trial, started>>
       \/ /\ subject.resettable /\ Len(log) < AttemptLimit /\ ~aborted
          /\ StartTrial(Len(log) + 1) /\ Goto("race") /\ UNCHANGED log
    /\ UNCHANGED <<loopVars, truth>>

(* One attempt, awaited: only an expected result with confirmed cleanup lets *)
(* the loop go on.                                                          *)
StabilityRace ==
    /\ tool = "stability" /\ pc = "race"
    /\ \/ /\ RaceEnds("result")
          /\ CASE trial.status = "stale" ->
                    Logged(trial.of, "failed") /\ Classify(~trial.clean)
               [] trial.status # "stale" /\ ~trial.clean ->
                    Logged(trial.of, "cleanup_unconfirmed") /\ Classify(TRUE)
               [] OTHER -> Logged(trial.of, trial.status) /\ Goto("next")
       \/ RaceEnds("rejected") /\ Logged(trial.of, "failed") /\ Classify(TRUE)
       \/ /\ \E kind \in {"timed_out", "cancelled"} :
                RaceEnds(kind) /\ Goto(kind) /\ UNCHANGED log
    /\ UNCHANGED <<loopVars, trial, started, truth>>

StabilitySettlement ==
    /\ tool = "stability" /\ pc \in {"timed_out", "cancelled"}
    /\ \E clean \in BOOLEAN :
          SettlementEnds(clean) /\ Logged(trial.of, pc) /\ Classify(~clean)
    /\ UNCHANGED <<loopVars, trial, started, truth>>

StabilityNext == StabilityAttempt \/ StabilityRace \/ StabilitySettlement

-----------------------------------------------------------------------------
(* A verdict on the bundle is earned: "stable" and "not_reproduced" mean    *)
(* that the full number of attempts really ran, cleaned up and all did, or  *)
(* did not, reproduce it; "unstable" that they really disagreed.            *)
StabilityIsEarned ==
    (tool = "stability" /\ report # Nothing)
    => LET did == {truth[i].status : i \in 1 .. Len(truth)}
           all == Len(truth) = AttemptLimit
                  /\ \A i \in 1 .. Len(truth) : truth[i].is = "result" /\ truth[i].clean
       IN  CASE report.class = "stable" -> all /\ did = {"reproduced"}
             [] report.class = "not_reproduced" -> all /\ did = {"not_reproduced"}
             [] report.class = "unstable" -> all /\ did = {"reproduced", "not_reproduced"}
             [] OTHER -> TRUE
=============================================================================
