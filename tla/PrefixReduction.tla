-------------------------- MODULE PrefixReduction --------------------------
(***************************************************************************)
(* reduceReproductionPrefix of src/reproduction-prefix-reducer.ts, as the  *)
(* driver scripts/reduce-reproduction-prefix.mjs runs it: replay ever      *)
(* shorter prefixes of a failing trace and claim the shortest that still   *)
(* fails.                                                                  *)
(***************************************************************************)
EXTENDS Stability

CONSTANT PrefixLength
ASSUME PrefixAssumption == PrefixLength \in Nat

(* eligible: resettable, a mismatch in this trace with clean cleanup, and a  *)
(* stability record of this very bundle and run that says "stable"; limit:  *)
(* the policy's candidateLimit, which need not reach the whole trace.       *)
PrefixSubjects == [eligible : BOOLEAN, limit : 1 .. PrefixLength]

Reproduced(entries) ==
    {entries[i].of : i \in {j \in 1 .. Len(entries) : entries[j].outcome = "reproduced"}}

(* best: the candidates get shorter, so the last reproduced is the shortest *)
Best(entries) ==
    IF Reproduced(entries) = {} THEN 0
    ELSE CHOOSE l \in Reproduced(entries) : \A k \in Reproduced(entries) : l <= k

PrefixReport(claim, minimal, reason) ==
    [claim |-> claim, best |-> Best(log'), minimal |-> minimal, reason |-> reason]

(* finish() on an early exit *)
PrefixStops(reason) ==
    Finish(PrefixReport(IF Best(log') = 0 THEN "not_reduced"
                        ELSE "smallest_observed_reproducing_prefix", FALSE, reason))

(* Variant with a bug: invalid candidates leave no gap. *)
InvalidShorter_Ignored == FALSE

(* An invalid candidate below the best: the search has a gap *)
InvalidShorter ==
    Best(log) # 0 /\ \E i \in 1 .. Len(log) : log[i].outcome = "not_run" /\ log[i].of < Best(log)

PrefixCompletes ==
    Finish(PrefixReport(CASE Best(log) = 0 -> "not_reduced"
                          [] InvalidShorter -> "smallest_observed_reproducing_prefix"
                          [] OTHER -> "shortest_reproducing_prefix",
                        ~InvalidShorter, "complete"))

(* The head of the loop: the candidate is as long as the trace without what *)
(* was tried.                                                              *)
Candidate == PrefixLength - Len(log)

PrefixCandidate ==
    /\ tool = "prefix" /\ pc = "next"
    /\ UNCHANGED log
    /\ \/ (~subject.eligible \/ PrefixLength = 0)
          /\ Finish(PrefixReport("not_reduced", FALSE, "not_eligible"))
       \/ /\ subject.eligible /\ PrefixLength > 0
          /\ \/ Candidate = 0 /\ PrefixCompletes
             \/ Candidate > 0 /\ aborted /\ PrefixStops("cancelled")
             \/ /\ Candidate > 0 /\ ~aborted
                /\ \/ Len(log) >= subject.limit /\ PrefixStops("candidate_limit")
                   \/ Len(log) < subject.limit /\ PrefixStops("total_budget")
                   \/ Len(log) < subject.limit /\ Goto("validate")
    /\ UNCHANGED <<loopVars, trial, started, truth>>

(* validateCandidate, bounded; its answer is not awaited once the budget is *)
(* used up.                                                                *)
PrefixValidate ==
    /\ tool = "prefix" /\ pc = "validate"
    /\ \E answer \in Answers({"valid", "invalid"}) :
          CASE answer = "valid" ->
                 /\ UNCHANGED log
                 /\ IF aborted THEN PrefixStops("cancelled") /\ UNCHANGED <<trial, started>>
                    ELSE StartTrial(Candidate) /\ Goto("race")
            [] answer = "invalid" ->
                 Logged(Candidate, "not_run") /\ Goto("next") /\ UNCHANGED <<trial, started>>
            [] OTHER ->
                 /\ Logged(Candidate, IF answer = "rejected" THEN "failed" ELSE answer)
                 /\ PrefixStops(IF answer = "cancelled" THEN answer ELSE "candidate_failure")
                 /\ UNCHANGED <<trial, started>>
    /\ UNCHANGED <<loopVars, truth>>

PrefixRace ==
    /\ tool = "prefix" /\ pc = "race"
    /\ \/ /\ RaceEnds("result")
          /\ CASE trial.status = "stale" ->
                    Logged(trial.of, "failed") /\ PrefixStops("candidate_failure")
               [] trial.status # "stale" /\ ~trial.clean ->
                    Logged(trial.of, "cleanup_unconfirmed")
                    /\ PrefixStops("cleanup_independence_lost")
               [] OTHER -> Logged(trial.of, trial.status) /\ Goto("next")
       \/ RaceEnds("rejected") /\ Logged(trial.of, "failed") /\ PrefixStops("candidate_failure")
       \/ \E kind \in {"timed_out", "cancelled"} :
             RaceEnds(kind) /\ Goto(kind) /\ UNCHANGED log
    /\ UNCHANGED <<loopVars, trial, started, truth>>

(* Variant with a bug: the next candidate starts after a timeout. *)
PrefixSettlement_GoesOn ==
    /\ tool = "prefix" /\ pc \in {"timed_out", "cancelled"}
    /\ Logged(trial.of, pc) /\ Goto("next")
    /\ UNCHANGED <<loopVars, trial, started, truth>>

(* awaitCleanupSettlement: the abandoned candidate ends the search. *)
PrefixSettlement ==
    /\ tool = "prefix" /\ pc \in {"timed_out", "cancelled"}
    /\ \E clean \in BOOLEAN :
          /\ SettlementEnds(clean)
          /\ Logged(trial.of, IF clean THEN pc ELSE "cleanup_unconfirmed")
          /\ PrefixStops(CASE ~clean -> "cleanup_independence_lost"
                           [] clean /\ pc = "cancelled" -> "cancelled"
                           [] OTHER -> "candidate_failure")
    /\ UNCHANGED <<loopVars, trial, started, truth>>

PrefixNext == PrefixCandidate \/ PrefixValidate \/ PrefixRace \/ PrefixSettlement

-----------------------------------------------------------------------------
(* What a reduction claims is true of the trials: the best prefix really    *)
(* reproduced the failure, and "shortest reproducing prefix" means that     *)
(* every shorter one really ran, cleanly, and did not.                      *)
ShortestIsShortest ==
    (tool = "prefix" /\ report # Nothing)
    => LET Ran(l, status) ==
               \E i \in 1 .. Len(truth) : truth[i] = Trial(l, "result", status, TRUE)
       IN  /\ report.claim # "not_reduced" => Ran(report.best, "reproduced")
           /\ report.claim = "shortest_reproducing_prefix" =>
                 \A l \in 1 .. report.best - 1 : Ran(l, "not_reproduced")
=============================================================================
