------------------------ MODULE ScheduleExploration ------------------------
(***************************************************************************)
(* exploreFiniteSchedules of src/schedule-exploration.ts: enumerate the    *)
(* schedules of the actors' checkpoint chains, with a bounded number of    *)
(* preemptions, run every one on every input, and say whether the space    *)
(* was covered.                                                            *)
(***************************************************************************)
EXTENDS BoundedTrial, SequencesExt

CONSTANTS
    Chain,              \* the actors' checkpoints: Chain[a] of them for actor a
    MaxPreemptions,
    InputCount
ASSUME ExplorationAssumption ==
    /\ Chain \in Seq(Nat \ {0}) /\ MaxPreemptions \in Nat
    /\ InputCount \in Nat \ {0}

-----------------------------------------------------------------------------
(* visit(): the interleavings of the chains.  Leaving an actor that has     *)
(* checkpoints left is a preemption.                                       *)
StepCount == Cardinality(UNION {{a} \X (1 .. Chain[a]) : a \in 1 .. Len(Chain)})

Interleavings ==
    {s \in [1 .. StepCount -> 1 .. Len(Chain)] :
        \A a \in 1 .. Len(Chain) : Cardinality({k \in 1 .. StepCount : s[k] = a}) = Chain[a]}

Preemptions(s) ==
    Cardinality({k \in 2 .. StepCount :
                    s[k] # s[k - 1] /\ \E later \in k .. StepCount : s[later] = s[k - 1]})

Shapes == SetToSeq({s \in Interleavings : Preemptions(s) <= MaxPreemptions})

(* enumerated |-> how many shapes were found before the time, the signal or *)
(* maxEnumeratedSchedules stopped the enumeration                           *)
ExplorationSubjects ==
    [declared : BOOLEAN, enumerated : 0 .. Len(Shapes), maxRuns : 0 .. Len(Shapes) * InputCount]

Exhausted == subject.enumerated = Len(Shapes)
Eligible == subject.enumerated * InputCount

(* The runs in order: every input on a shape, then the next shape *)
Run(ordinal) ==
    [shape |-> Shapes[(ordinal \div InputCount) + 1], input |-> ordinal % InputCount]

-----------------------------------------------------------------------------
(* What a sample says.  "unbound": not of this candidate, of other actors,  *)
(* or with an execution id seen before; "misjudged": its comparison is not  *)
(* of this execution, or contradicts itself; "inconsistent": passed, but    *)
(* its events or observations are not those of the schedule.                *)
SampleStatuses ==
    {"passed", "model_mismatch", "failed", "inconsistent", "comparison_missing", "misjudged",
     "unbound"}

Failed == "runner_or_evidence_failed"

category(status, clean) ==
    IF status \in {"unbound", "misjudged"} THEN Failed
    ELSE IF status # "comparison_missing" /\ ~clean THEN "cleanup_failed"
    ELSE IF status = "inconsistent" THEN Failed ELSE status

Of(entries, outcomes) == {i \in 1 .. Len(entries) : entries[i].outcome \in outcomes}

Complete(halt) ==
    /\ Exhausted /\ Len(log') = Eligible
    /\ Cardinality(Of(log', {"passed"})) = Eligible /\ ~halt

ExplorationEnds(reason) ==
    Finish([complete |-> Complete(reason # "none"),
            enumerationExhausted |-> Exhausted /\ Len(log') = Eligible,
            stopReason |-> reason])

(* The head of the loop.  The bounds are looked at before every run. *)
ExplorationHead ==
    /\ tool = "explore" /\ pc = "next" /\ UNCHANGED log
    /\ \/ /\ ~subject.declared /\ UNCHANGED <<trial, started>>
          /\ Finish([complete |-> FALSE, enumerationExhausted |-> FALSE,
                     stopReason |-> "invalid_declaration"])
       \/ /\ subject.declared /\ Len(log) = Eligible /\ ExplorationEnds("none")
          /\ UNCHANGED <<trial, started>>
       \/ /\ subject.declared /\ Len(log) < Eligible /\ UNCHANGED <<trial, started>>
          /\ \/ aborted /\ ExplorationEnds("cancelled")
             \/ ~aborted /\ ExplorationEnds("time_budget")
             \/ ~aborted /\ Len(log) >= subject.maxRuns /\ ExplorationEnds("run_limit")
       \/ /\ subject.declared /\ Len(log) < Eligible /\ ~aborted /\ Len(log) < subject.maxRuns
          /\ StartTrial(Len(log)) /\ Goto("race")
    /\ UNCHANGED <<loopVars, truth>>

(* The end of a run's body: evidence and coverage have byte limits, and     *)
(* nothing runs after a run whose cleanup is not known.                     *)
AfterRun(known) ==
    \/ ExplorationEnds("evidence_limit")
    \/ ~known /\ ExplorationEnds("unconfirmed_cleanup")
    \/ known /\ (ExplorationEnds("time_budget") \/ Goto("next"))

(* The runner is awaited without a budget. *)
ExplorationRun ==
    /\ tool = "explore" /\ pc = "race"
    /\ \/ trial.is = "rejected" /\ Logged(trial.of, Failed) /\ AfterRun(FALSE)
       \/ /\ trial.is = "result"
          /\ Logged(trial.of, category(trial.status, trial.clean))
          /\ AfterRun(trial.status # "unbound" /\ trial.clean)
       \/ /\ trial.is = "result" /\ trial.status = "passed" /\ trial.clean
          /\ Logged(trial.of, Failed) /\ ExplorationEnds("coverage_limit")
    /\ UNCHANGED <<loopVars, trial, started, truth>>

ExplorationNext == ExplorationHead \/ ExplorationRun

-----------------------------------------------------------------------------
(* "complete" means the whole bounded space: every interleaving of the      *)
(* chains with no more preemptions than declared really ran, passed and     *)
(* cleaned up, on every input.                                             *)
CompleteIsExhaustive ==
    (tool = "explore" /\ report # Nothing /\ report.complete)
    => \A s \in Interleavings, input \in 0 .. InputCount - 1 :
          Preemptions(s) <= MaxPreemptions =>
             \E i \in 1 .. Len(truth) :
                /\ truth[i] = Trial(truth[i].of, "result", "passed", TRUE)
                /\ Run(truth[i].of) = [shape |-> s, input |-> input]
=============================================================================
