------------------------- MODULE ExperimentsProofs -------------------------
(***************************************************************************)
(* Proofs about Experiments: trials of application code never overlap, and *)
(* what the stability classifier, the prefix reducer, the mutation         *)
(* campaign and the lease reduction report is true of the trials that      *)
(* really ran, whenever these settle and whatever the caller cancels.      *)
(***************************************************************************)
EXTENDS Experiments, FiniteSetTheorems, WellFoundedInduction, TLAPS

-----------------------------------------------------------------------------
(* The inductive invariant *)

IsSeq(s) == Len(s) \in Nat /\ s = [i \in 1 .. Len(s) |-> s[i]]

(* Where a tool waits for a trial, or looks at how one ended *)
Awaiting == {"race", "timed_out", "cancelled", "deadline", "settle", "verify"}

(* No trial is running: what every tool may rely on when it starts one *)
Quiet == trial.is = "none" \/ (trial.is = "result" /\ trial.clean)

(* The history ends with the latest trial as soon as that has settled. *)
TrialInv ==
    /\ IsSeq(truth) /\ IsSeq(log)
    /\ trial = Trial(trial.of, trial.is, trial.status, trial.clean)
    /\ trial.is \in {"none", "pending", "result", "rejected"} /\ trial.clean \in BOOLEAN
    /\ trial.is = "result" => trial.status \in Statuses
    /\ trial.is \in {"result", "rejected"} => Len(truth) > 0 /\ truth[Len(truth)] = trial
    /\ pc \in Awaiting => trial.is # "none"
    /\ pc \notin Awaiting \cup {"done"} => Quiet
    /\ pc # "done" => report = Nothing

(* A trial of this input ended so, with its cleanup confirmed. *)
RanIn(history, of, status) ==
    \E i \in 1 .. Len(history) : history[i] = Trial(of, "result", status, TRUE)

Decided == {"reproduced", "not_reproduced"}

(* While the classifier goes on, its attempts are the trials, one for one. *)
StabilityInv == tool = "stability" =>
    /\ pc \in {"next", "race"} =>
          /\ Len(log) <= AttemptLimit /\ (pc = "race" => Len(log) < AttemptLimit)
          /\ Len(truth) = Len(log) + IF pc = "race" /\ trial.is # "pending" THEN 1 ELSE 0
          /\ \A i \in 1 .. Len(log) :
                /\ log[i].outcome \in Decided
                /\ truth[i].is = "result" /\ truth[i].clean
                /\ truth[i].status = log[i].outcome
    /\ report # Nothing /\ report.class \in {"stable", "not_reproduced", "unstable"} =>
          trial.is # "pending"
    /\ StabilityIsEarned

(* The candidates are every length, from the longest down, and what a       *)
(* candidate is said to have done a trial has done.                         *)
PrefixLog(entries, history) ==
    /\ Len(entries) <= PrefixLength
    /\ \A i \in 1 .. Len(entries) :
          /\ entries[i].of = PrefixLength + 1 - i
          /\ entries[i].outcome \in Decided =>
                RanIn(history, entries[i].of, entries[i].outcome)

PrefixInv == tool = "prefix" =>
    /\ PrefixLog(log, truth)
    /\ pc # "done" => \A i \in 1 .. Len(log) : log[i].outcome \in Decided \cup {"not_run"}
    /\ pc = "validate" => Len(log) < PrefixLength
    /\ pc \in {"race", "timed_out", "cancelled"} =>
          Len(log) < PrefixLength /\ trial.of = Candidate
    /\ ShortestIsShortest

(* No mutant is run before the correct implementation has passed, and a     *)
(* mutant's class is what its evaluation showed.                            *)
CampaignLog(entries, history) ==
    \A i \in 1 .. Len(entries) :
       /\ entries[i].outcome = "killed_by_behavioral_mismatch" =>
             RanIn(history, entries[i].of, "mismatch")
       /\ entries[i].outcome = "survived" => RanIn(history, entries[i].of, "passed")

CampaignInv == tool = "campaign" =>
    /\ CampaignLog(log, truth)
    /\ pc \in {"loop", "protected"} => RanIn(truth, Correct, "passed")
    /\ pc \in {"race", "timed_out", "cancelled"} /\ trial.of # Correct =>
          RanIn(truth, Correct, "passed")
    /\ AcceptanceIsEarned

(* The trace that is evaluated is the one the receipt is of, and has the    *)
(* candidate's edits.                                                       *)
Replayable(trace) == IsReduction(trace) /\ HasTheEdits(trace)

LeaseInv == tool = "lease" =>
    /\ pc = "next" => log = <<>>
    /\ pc \in {"inspect", "evaluate"} => Len(log) > 0
    /\ pc = "inspect" => log[1].of \in MaterializedCandidates
    /\ pc = "evaluate" => Replayable(log[1].of.trace)
    /\ pc \in {"race", "timed_out", "cancelled"} => Replayable(trial.of)
    /\ ReducedIsEarned

(* The oracle walks the trace with exactly the candidate's edits. *)
HasNothingElse(trace) == IsReduction(trace) /\ differences(trace) = Declared(subject.edits)

OracleInv == tool = "oracle" =>
    /\ pc \in {"next", "race", "deadline"} => log = <<>>
    /\ subject.edits \in Candidates
    /\ pc \in {"race", "deadline", "verify"} => HasNothingElse(trial.of)
    /\ pc = "verify" => trial.is = "result" /\ Len(log) > 0 /\ log[1].outcome = "confirmed"
    /\ ReducedIsEarned

(* The runs are logged in the order of their ordinals, none left out. *)
ExplorationLog(entries, history) ==
    \A i \in 1 .. Len(entries) :
       /\ entries[i].of = i - 1
       /\ entries[i].outcome = "passed" => RanIn(history, entries[i].of, "passed")

ExplorationInv == tool = "explore" =>
    /\ ExplorationLog(log, truth)
    /\ pc = "race" => trial.of = Len(log)
    /\ CompleteIsExhaustive

(* The bundle has a signature, and the captures are resolved one by one. *)
ReproductionInv == tool = "reproduce" =>
    /\ subject.first \in SuiteResults
    /\ \A i \in 1 .. Len(log) : log[i].of \in Nat
    /\ pc \in {"next", "preflight", "evidence", "compatibility"} => log = <<>>
    /\ pc \notin {"next", "done"} => Bundle \notin {Throws, Passed}
    /\ pc \in {"captures", "race"} => Resolved(log) <= AggregateBytes
    /\ pc = "captures" => Len(log) <= ExternalCaptures
    /\ pc = "race" => Len(log) = ExternalCaptures
    /\ (report # Nothing /\ report.status \in {"reproduced", "not_reproduced"}) =>
          trial.is = "result"
    /\ ReproducedIsEarned

IInv ==
    /\ TrialInv /\ StabilityInv /\ PrefixInv /\ CampaignInv /\ LeaseInv /\ OracleInv
    /\ ExplorationInv /\ ReproductionInv

-----------------------------------------------------------------------------
(* Sequences and the steps that only log, start or await *)

(* Append adds one element at the end and keeps the others. *)
LEMMA AppendIsSeq ==
    ASSUME NEW s, IsSeq(s), NEW x
    PROVE  /\ IsSeq(Append(s, x)) /\ Len(Append(s, x)) = Len(s) + 1
           /\ \A i \in 1 .. Len(s) : Append(s, x)[i] = s[i]
           /\ Append(s, x)[Len(s) + 1] = x
<1> DEFINE S == {s[i] : i \in 1 .. Len(s)} \cup {x}
<1>1. s \in Seq(S)
  <2>1. [i \in 1 .. Len(s) |-> s[i]] \in [1 .. Len(s) -> S]
    OBVIOUS
  <2>2. QED
    BY <2>1 DEF IsSeq
<1>2. x \in S
  OBVIOUS
<1> HIDE DEF S
<1>3. /\ Append(s, x) \in Seq(S) /\ Len(Append(s, x)) = Len(s) + 1
      /\ \A i \in 1 .. Len(s) : Append(s, x)[i] = s[i]
      /\ Append(s, x)[Len(s) + 1] = x
  BY <1>1, <1>2
<1>4. ASSUME NEW t \in Seq(S) PROVE IsSeq(t)
  BY DEF IsSeq
<1>5. QED
  BY <1>3, <1>4

(* A trial that ran has run for good. *)
LEMMA RanIsKept ==
    ASSUME TrialInv, UNCHANGED truth \/ \E t : truth' = Append(truth, t),
           NEW of, NEW status, RanIn(truth, of, status)
    PROVE  RanIn(truth', of, status)
<1>1. PICK i \in 1 .. Len(truth) : truth[i] = Trial(of, "result", status, TRUE)
  BY DEF RanIn
<1>2. IsSeq(truth)
  BY DEF TrialInv
<1>3. i \in 1 .. Len(truth') /\ truth'[i] = truth[i]
  BY <1>2, AppendIsSeq DEF IsSeq
<1>4. QED
  BY <1>1, <1>3 DEF RanIn

(* The latest trial, when it ended well, is one that ran. *)
LEMMA LatestRan ==
    ASSUME TrialInv, trial.is = "result", trial.clean
    PROVE  RanIn(truth, trial.of, trial.status)
<1>1. trial = Trial(trial.of, "result", trial.status, TRUE)
  BY DEF TrialInv, Trial
<1>2. Len(truth) \in 1 .. Len(truth) /\ truth[Len(truth)] = trial
  BY DEF TrialInv, IsSeq
<1>3. QED
  BY <1>1, <1>2 DEF RanIn

(* A step that leaves the trials alone: it ends the experiment, goes on     *)
(* awaiting, or goes where no trial may be running.                         *)
LEMMA TrialsUntouched ==
    ASSUME TrialInv, pc # "done", UNCHANGED <<tool, trial, truth>>, IsSeq(log'),
           pc' = "done" \/ report' = report,
           pc' \in Awaiting => pc \in Awaiting,
           pc' \notin Awaiting \cup {"done"} => Quiet
    PROVE  TrialInv'
BY DEF TrialInv, Quiet, Trial, Awaiting, Statuses

(* A step that starts a trial *)
LEMMA TrialStarts ==
    ASSUME TrialInv, pc # "done", UNCHANGED <<tool, truth, log>>, NEW of, StartTrial(of),
           pc' = "race", report' = report
    PROVE  TrialInv'
BY DEF TrialInv, StartTrial, Quiet, Trial, Awaiting

(* A step that adds to the log *)
LEMMA LogGrows ==
    ASSUME TrialInv, NEW of, NEW outcome, Logged(of, outcome)
    PROVE  /\ IsSeq(log') /\ Len(log') = Len(log) + 1
           /\ \A i \in 1 .. Len(log) : log'[i] = log[i]
           /\ log'[Len(log) + 1].of = of /\ log'[Len(log) + 1].outcome = outcome
BY AppendIsSeq DEF TrialInv, Logged

-----------------------------------------------------------------------------
(* Nothing ran, nothing is claimed. *)
LEMMA InitInv == Init => IInv
<1> SUFFICES ASSUME Init PROVE IInv
  OBVIOUS
<1> USE DEF Init, TrialInit
<1>1. TrialInv
  BY DEF TrialInv, IsSeq, NoTrial, Trial, Awaiting, Quiet
<1>2. Len(log) = 0 /\ Len(truth) = 0 /\ report = Nothing /\ pc = "next" /\ log = <<>>
  OBVIOUS
<1>3. StabilityInv /\ PrefixInv /\ CampaignInv
  BY <1>1, <1>2, AttemptLimitAssumption, PrefixAssumption
     DEF StabilityInv, PrefixInv, PrefixLog, CampaignInv, CampaignLog,
         StabilityIsEarned, ShortestIsShortest, AcceptanceIsEarned
<1>4. LeaseInv /\ OracleInv
  BY <1>2 DEF LeaseInv, OracleInv, ReducedIsEarned, Subjects, OracleSubjects
<1>5. ExplorationInv
  BY <1>2 DEF ExplorationInv, ExplorationLog, CompleteIsExhaustive
<1>6. ReproductionInv
  <2>1. tool = "reproduce" => subject \in ReproductionSubjects
    BY DEF Subjects, Tools
  <2>2. QED
    BY <1>2, <2>1 DEF ReproductionInv, ReproductionSubjects, ReproducedIsEarned
<1>7. QED
  BY <1>1, <1>3, <1>4, <1>5, <1>6 DEF IInv

-----------------------------------------------------------------------------
(* classifyReproductionStability *)

(* Only the full number of attempts, all decided, gives a verdict. *)
LEMMA Verdicts ==
    ASSUME NEW entries, NEW lost \in BOOLEAN,
           Classification(entries, lost) \in {"stable", "not_reproduced", "unstable"}
    PROVE  /\ ~lost /\ Outcomes(entries) \subseteq Decided /\ ~(Len(entries) < AttemptLimit)
           /\ Classification(entries, lost) = "stable" => Outcomes(entries) = {"reproduced"}
           /\ Classification(entries, lost) = "not_reproduced" =>
                 "reproduced" \notin Outcomes(entries)
           /\ Classification(entries, lost) = "unstable" =>
                 "reproduced" \in Outcomes(entries) /\ Outcomes(entries) # {"reproduced"}
<1>1. /\ ~aborted /\ ~lost /\ Outcomes(entries) \subseteq Decided
      /\ ~(Len(entries) < AttemptLimit)
  <2>1. ~aborted
    BY DEF Classification
  <2>2. ~(\/ lost \/ ~(Outcomes(entries) \subseteq {"reproduced", "not_reproduced"})
          \/ Len(entries) < AttemptLimit)
    BY <2>1 DEF Classification
  <2>3. QED
    BY <2>1, <2>2 DEF Decided
<1>2. QED
  BY <1>1 DEF Classification, Decided

(* A verdict given at the head of the loop is earned. *)
LEMMA VerdictAtHead ==
    ASSUME TrialInv, StabilityInv, tool = "stability", pc = "next",
           Classification(log, FALSE) \in {"stable", "not_reproduced", "unstable"}
    PROVE  /\ Len(truth) = AttemptLimit
           /\ \A i \in 1 .. Len(truth) : truth[i].is = "result" /\ truth[i].clean
           /\ {truth[i].status : i \in 1 .. Len(truth)} =
                 CASE Classification(log, FALSE) = "stable" -> {"reproduced"}
                   [] Classification(log, FALSE) = "not_reproduced" -> {"not_reproduced"}
                   [] OTHER -> Decided
<1>1. /\ Len(log) \in Nat /\ Len(log) = AttemptLimit /\ Len(truth) = Len(log)
      /\ \A i \in 1 .. Len(log) : /\ truth[i].is = "result" /\ truth[i].clean
                                  /\ truth[i].status = log[i].outcome
  <2>1. ~(Len(log) < AttemptLimit)
    BY Verdicts
  <2>2. Len(log) \in Nat /\ Len(log) <= AttemptLimit
    BY DEF TrialInv, IsSeq, StabilityInv
  <2>3. QED
    BY <2>1, <2>2, AttemptLimitAssumption DEF StabilityInv
<1>2. {truth[i].status : i \in 1 .. Len(truth)} = Outcomes(log)
  BY <1>1 DEF Outcomes
<1>3. Outcomes(log) # {}
  <2>1. 1 \in 1 .. Len(log)
    BY <1>1, AttemptLimitAssumption
  <2>2. QED
    BY <2>1 DEF Outcomes
<1>4. Outcomes(log) = CASE Classification(log, FALSE) = "stable" -> {"reproduced"}
                        [] Classification(log, FALSE) = "not_reproduced" -> {"not_reproduced"}
                        [] OTHER -> Decided
  BY <1>3, Verdicts DEF Decided
<1>5. QED
  BY <1>1, <1>2, <1>4

(* The classifier keeps the invariant. *)
LEMMA StabilityStep ==
    ASSUME IInv, StabilityNext
    PROVE  TrialInv' /\ StabilityInv' /\ UNCHANGED tool /\ tool = "stability"
<1> USE DEF IInv
<1>1. tool = "stability" /\ UNCHANGED tool
  BY DEF StabilityNext, StabilityAttempt, StabilityRace, StabilitySettlement, loopVars
<1>2. CASE StabilityAttempt
  <2> USE <1>1, <1>2 DEF StabilityAttempt, loopVars
  <2>1. CASE StartTrial(Len(log) + 1) /\ Goto("race") /\ UNCHANGED log /\ Len(log) < AttemptLimit
    <3>1. TrialInv'
      BY <2>1, TrialStarts DEF Goto
    <3>2. trial'.is = "pending" /\ report' = Nothing
      BY <2>1 DEF StartTrial, Trial, Goto, TrialInv
    <3>3. StabilityInv'
      BY <2>1, <3>2 DEF StabilityInv, StabilityIsEarned, Goto
    <3>4. QED
      BY <1>1, <3>1, <3>3
  <2>2. CASE UNCHANGED <<trial, started, log>> /\ pc' = "done"
    <3>1. TrialInv'
      BY <2>2, TrialsUntouched DEF TrialInv, Awaiting
    <3>2. trial.is # "pending"
      BY DEF TrialInv, Quiet, Awaiting
    <3>3. StabilityIsEarned'
      <4>1. CASE report'.class \in {"stable", "not_reproduced", "unstable"}
        <5>1. report'.class = Classification(log, FALSE)
          <6>1. \/ report' = [class |-> "inconclusive", independence |-> "not_established"]
                \/ report' = StabilityReport("cancelled", FALSE)
                \/ report' = StabilityReport(Classification(log', FALSE), FALSE)
            BY <2>2 DEF Finish, Classify, Goto
          <6>2. CASE report' = [class |-> "inconclusive", independence |-> "not_established"]
            BY ONLY <4>1, <6>2
          <6>3. CASE report' = StabilityReport("cancelled", FALSE)
            BY ONLY <4>1, <6>3 DEF StabilityReport
          <6>4. CASE report' = StabilityReport(Classification(log', FALSE), FALSE)
            <7>1. report'.class = Classification(log', FALSE)
              BY ONLY <6>4 DEF StabilityReport
            <7>2. log' = log
              BY <2>2
            <7>3. QED
              BY ONLY <7>1, <7>2
          <6>5. QED
            BY ONLY <6>1, <6>2, <6>3, <6>4
        <5>2. QED
          BY <2>2, <4>1, <5>1, VerdictAtHead DEF StabilityIsEarned, Decided
      <4>2. CASE report'.class \notin {"stable", "not_reproduced", "unstable"}
        BY <4>2 DEF StabilityIsEarned
      <4>3. QED
        BY <4>1, <4>2
    <3>4. StabilityInv'
      BY <2>2, <3>2, <3>3 DEF StabilityInv
    <3>5. QED
      BY <1>1, <3>1, <3>4
  <2>3. QED
    BY <2>1, <2>2 DEF Finish, Classify
<1>3. ASSUME pc \in {"race", "timed_out", "cancelled"}, NEW outcome, NEW lost \in BOOLEAN,
             outcome \notin Decided, Logged(trial.of, outcome), Classify(lost),
             UNCHANGED <<loopVars, trial, started, truth>>
      PROVE  TrialInv' /\ StabilityInv'
  <2> USE <1>1, <1>3
  <2>1. /\ IsSeq(log') /\ Len(log') = Len(log) + 1
        /\ log'[Len(log) + 1].outcome = outcome
    BY LogGrows
  <2>2. TrialInv'
    BY <2>1, TrialsUntouched DEF loopVars, Classify, Finish, Awaiting
  <2>3. outcome \in Outcomes(log')
    BY <2>1 DEF Outcomes, TrialInv, IsSeq
  <2>4. Classification(log', lost) \notin {"stable", "not_reproduced", "unstable"}
    BY <2>3, Verdicts
  <2>5. report'.class \notin {"stable", "not_reproduced", "unstable"} /\ pc' = "done"
    BY <2>4 DEF Classify, Finish, StabilityReport
  <2>6. StabilityInv'
    BY <2>5 DEF StabilityInv, StabilityIsEarned
  <2>7. QED
    BY <2>2, <2>6
<1>4. CASE StabilityRace
  <2> USE <1>1, <1>4 DEF StabilityRace, loopVars
  <2>1. CASE RaceEnds("result") /\ trial.status # "stale" /\ trial.clean
    <3>1. Logged(trial.of, trial.status) /\ Goto("next") /\ trial.is = "result"
      BY <2>1 DEF RaceEnds
    <3>2. trial.status \in Decided
      BY <2>1, <3>1 DEF TrialInv, Statuses, ReplayStatuses, Decided
    <3>3. /\ IsSeq(log') /\ Len(log') = Len(log) + 1
          /\ \A i \in 1 .. Len(log) : log'[i] = log[i]
          /\ log'[Len(log) + 1].outcome = trial.status
      BY <3>1, LogGrows
    <3>4. TrialInv'
      BY <2>1, <3>1, <3>3, TrialsUntouched DEF Goto, Awaiting, Quiet
    <3>5. StabilityInv'
      <4>1. /\ Len(truth) = Len(log) + 1 /\ truth[Len(log) + 1] = trial /\ Len(log) \in Nat
            /\ Len(log) < AttemptLimit /\ report = Nothing
        BY <3>1 DEF StabilityInv, TrialInv, IsSeq
      <4>2. ASSUME NEW i \in 1 .. Len(log')
            PROVE  /\ log'[i].outcome \in Decided /\ truth[i].is = "result" /\ truth[i].clean
                   /\ truth[i].status = log'[i].outcome
        BY <2>1, <3>1, <3>2, <3>3, <4>1 DEF StabilityInv
      <4>3. QED
        BY <3>1, <3>3, <4>1, <4>2, AttemptLimitAssumption
           DEF Goto, StabilityInv, StabilityIsEarned
    <3>6. QED
      BY <3>4, <3>5
  <2>2. CASE \E outcome \in {"failed", "cleanup_unconfirmed"}, lost \in BOOLEAN :
                Logged(trial.of, outcome) /\ Classify(lost)
    BY <2>2, <1>3 DEF Decided
  <2>3. CASE \E kind \in {"timed_out", "cancelled"} :
                RaceEnds(kind) /\ Goto(kind) /\ UNCHANGED log
    <3>1. TrialInv'
      BY <2>3, TrialsUntouched DEF Goto, Awaiting, TrialInv
    <3>2. StabilityInv'
      BY <2>3 DEF Goto, StabilityInv, StabilityIsEarned, TrialInv
    <3>3. QED
      BY <3>1, <3>2
  <2>4. QED
    <3>1. trial.clean \in BOOLEAN
      BY DEF TrialInv
    <3>2. QED
      BY <2>1, <2>2, <2>3, <3>1
<1>5. CASE StabilitySettlement
  BY <1>1, <1>3, <1>5 DEF StabilitySettlement, Decided
<1>6. QED
  BY <1>1, <1>2, <1>4, <1>5 DEF StabilityNext

-----------------------------------------------------------------------------
(* reduceReproductionPrefix *)

Less == {pair \in Nat \X Nat : pair[1] < pair[2]}

(* A set of naturals with a member has a least one. *)
LEMMA LeastNatural ==
    ASSUME NEW T, T \subseteq Nat, T # {}
    PROVE  \E least \in T : \A k \in T : least <= k
<1>1. OpToRel(<, Nat) = Less
  BY DEF OpToRel, Less
<1>2. IsWellFoundedOn(Less, Nat)
  BY <1>1, NatLessThanWellFounded
<1>3. PICK least \in T : \A k \in T : ~(<<k, least>> \in Less)
  BY <1>2, WFMin
<1>4. ASSUME NEW k \in T PROVE least <= k
  <2>1. <<k, least>> \notin Less
    BY <1>3
  <2>2. QED
    BY <2>1 DEF Less
<1>5. QED
  BY <1>4

(* best is the shortest candidate that reproduced the failure, or 0. *)
LEMMA BestIsLeast ==
    ASSUME NEW entries, Reproduced(entries) \subseteq Nat, Best(entries) # 0
    PROVE  /\ Best(entries) \in Reproduced(entries)
           /\ \A k \in Reproduced(entries) : Best(entries) <= k
<1>1. Reproduced(entries) # {}
  BY DEF Best
<1>2. \E least \in Reproduced(entries) : \A k \in Reproduced(entries) : least <= k
  BY <1>1, LeastNatural
<1>3. Best(entries) = CHOOSE l \in Reproduced(entries) : \A k \in Reproduced(entries) : l <= k
  BY <1>1 DEF Best
<1>4. QED
  BY <1>2, <1>3

(* The lengths in the log are those of the candidates. *)
LEMMA ReproducedLengths ==
    ASSUME NEW entries, NEW history, IsSeq(entries), PrefixLog(entries, history)
    PROVE  Reproduced(entries) \subseteq Nat /\ 0 \notin Reproduced(entries)
BY PrefixAssumption DEF PrefixLog, Reproduced, IsSeq

(* The best prefix ran, and reproduced the failure. *)
LEMMA BestRan ==
    ASSUME NEW entries, NEW history, IsSeq(entries), PrefixLog(entries, history),
           Best(entries) # 0
    PROVE  RanIn(history, Best(entries), "reproduced")
<1>1. Best(entries) \in Reproduced(entries)
  BY ReproducedLengths, BestIsLeast
<1>2. PICK i \in 1 .. Len(entries) :
         entries[i].outcome = "reproduced" /\ entries[i].of = Best(entries)
  BY <1>1 DEF Reproduced
<1>3. QED
  BY <1>2 DEF PrefixLog, Decided

(* When every candidate was looked at and the ones below the best all ran,  *)
(* the best is the shortest.                                                *)
LEMMA CompleteSearch ==
    ASSUME TrialInv, PrefixInv, tool = "prefix", pc = "next", Candidate = 0,
           Best(log) # 0, ~InvalidShorter, NEW l \in 1 .. Best(log) - 1
    PROVE  RanIn(truth, l, "not_reproduced")
<1> DEFINE i == PrefixLength + 1 - l
<1>1. IsSeq(log) /\ PrefixLog(log, truth) /\ Len(log) = PrefixLength
  BY PrefixAssumption DEF TrialInv, PrefixInv, Candidate, IsSeq
<1>2. /\ Best(log) \in Reproduced(log) /\ \A k \in Reproduced(log) : Best(log) <= k
      /\ Reproduced(log) \subseteq Nat
  BY <1>1, ReproducedLengths, BestIsLeast
<1>3. Best(log) \in Nat /\ Best(log) <= PrefixLength
  <2>1. PICK j \in 1 .. Len(log) : log[j].of = Best(log)
    BY <1>2 DEF Reproduced
  <2>2. QED
    BY <1>1, <1>2, <2>1, PrefixAssumption DEF PrefixLog
<1>4. i \in 1 .. Len(log) /\ log[i].of = l
  BY <1>1, <1>3, PrefixAssumption DEF PrefixLog
<1> HIDE DEF i
<1>5. log[i].outcome # "reproduced"
  <2>1. SUFFICES ASSUME log[i].outcome = "reproduced" PROVE FALSE
    OBVIOUS
  <2>2. l \in Reproduced(log)
    BY <1>4, <2>1 DEF Reproduced
  <2>3. QED
    BY <1>2, <1>3, <2>2
<1>6. log[i].outcome # "not_run"
  BY <1>3, <1>4 DEF InvalidShorter
<1>7. log[i].outcome = "not_reproduced"
  BY <1>4, <1>5, <1>6 DEF PrefixInv, Decided
<1>8. QED
  BY <1>1, <1>4, <1>7 DEF PrefixLog, Decided

(* One more candidate is logged. *)
LEMMA PrefixLogGrows ==
    ASSUME TrialInv, PrefixLog(log, truth), Len(log) < PrefixLength, NEW outcome,
           Logged(Candidate, outcome), outcome \in Decided => RanIn(truth, Candidate, outcome)
    PROVE  /\ IsSeq(log') /\ Len(log') = Len(log) + 1 /\ PrefixLog(log', truth)
           /\ \A i \in 1 .. Len(log) : log'[i] = log[i]
           /\ log'[Len(log) + 1].outcome = outcome
<1>1. /\ IsSeq(log') /\ Len(log') = Len(log) + 1 /\ Len(log) \in Nat
      /\ \A i \in 1 .. Len(log) : log'[i] = log[i]
      /\ log'[Len(log) + 1].of = Candidate /\ log'[Len(log) + 1].outcome = outcome
  BY LogGrows DEF TrialInv, IsSeq
<1>2. ASSUME NEW i \in 1 .. Len(log')
      PROVE  /\ log'[i].of = PrefixLength + 1 - i
             /\ log'[i].outcome \in Decided => RanIn(truth, log'[i].of, log'[i].outcome)
  BY <1>1, PrefixAssumption DEF PrefixLog, Candidate
<1>3. Len(log') <= PrefixLength
  BY <1>1, PrefixAssumption
<1>4. QED
  BY <1>1, <1>2, <1>3 DEF PrefixLog

(* An early end claims no more than that the best prefix ran. *)
LEMMA PrefixStopsInv ==
    ASSUME TrialInv, tool = "prefix", pc # "done", UNCHANGED <<tool, trial, truth>>,
           IsSeq(log'), PrefixLog(log', truth), NEW reason, PrefixStops(reason)
    PROVE  TrialInv' /\ PrefixInv'
<1>1. /\ pc' = "done"
      /\ report'.best = Best(log')
      /\ report'.claim = IF Best(log') = 0 THEN "not_reduced"
                         ELSE "smallest_observed_reproducing_prefix"
  BY DEF PrefixStops, PrefixReport, Finish
<1>2. TrialInv'
  BY <1>1, TrialsUntouched DEF Awaiting
<1>3. ShortestIsShortest'
  BY <1>1, BestRan DEF ShortestIsShortest, RanIn
<1>4. QED
  BY <1>1, <1>2, <1>3 DEF PrefixInv

(* The reducer keeps the invariant. *)
LEMMA PrefixStep ==
    ASSUME IInv, PrefixNext
    PROVE  TrialInv' /\ PrefixInv' /\ UNCHANGED tool /\ tool = "prefix"
<1> USE DEF IInv
<1>1. tool = "prefix" /\ UNCHANGED tool /\ pc # "done" /\ report = Nothing
  BY DEF PrefixNext, PrefixCandidate, PrefixValidate, PrefixRace, PrefixSettlement, loopVars,
         TrialInv
<1>2. /\ IsSeq(log) /\ PrefixLog(log, truth) /\ Len(log) \in Nat
      /\ \A i \in 1 .. Len(log) : log[i].outcome \in Decided \cup {"not_run"}
  BY <1>1 DEF TrialInv, PrefixInv, IsSeq
<1>3. ASSUME UNCHANGED <<loopVars, trial, started, truth>>, Len(log) < PrefixLength, NEW outcome,
             Logged(Candidate, outcome), outcome \notin Decided, NEW reason, PrefixStops(reason)
      PROVE  TrialInv' /\ PrefixInv'
  BY <1>1, <1>2, <1>3, PrefixLogGrows, PrefixStopsInv DEF loopVars
<1>4. CASE PrefixCandidate
  <2> USE <1>1, <1>4 DEF PrefixCandidate, loopVars
  <2>1. CASE \E reason : PrefixStops(reason)
    BY <1>2, <2>1, PrefixStopsInv
  <2>2. CASE Finish(PrefixReport("not_reduced", FALSE, "not_eligible"))
    <3>1. pc' = "done" /\ report'.claim = "not_reduced"
      BY <2>2 DEF Finish, PrefixReport
    <3>2. TrialInv'
      BY <1>2, <3>1, TrialsUntouched DEF Awaiting
    <3>3. PrefixInv'
      BY <1>2, <3>1 DEF PrefixInv, ShortestIsShortest
    <3>4. QED
      BY <3>2, <3>3
  <2>3. CASE Candidate = 0 /\ PrefixCompletes
    <3>1. /\ pc' = "done" /\ report'.best = Best(log)
          /\ report'.claim # "not_reduced" => Best(log) # 0
          /\ report'.claim = "shortest_reproducing_prefix" => Best(log) # 0 /\ ~InvalidShorter
      <4>1. /\ pc' = "done" /\ report'.best = Best(log')
            /\ report'.claim = CASE Best(log) = 0 -> "not_reduced"
                                 [] InvalidShorter -> "smallest_observed_reproducing_prefix"
                                 [] OTHER -> "shortest_reproducing_prefix"
        BY <2>3 DEF PrefixCompletes, Finish, PrefixReport
      <4>2. log' = log
        OBVIOUS
      <4>3. InvalidShorter => Best(log) # 0
        BY DEF InvalidShorter
      <4>4. QED
        BY ONLY <4>1, <4>2, <4>3
    <3>2. TrialInv'
      BY <1>2, <3>1, TrialsUntouched DEF Awaiting
    <3>3. Best(log) # 0 => RanIn(truth, Best(log), "reproduced")
      BY <1>2, BestRan
    <3>4. Best(log) # 0 /\ ~InvalidShorter =>
             \A l \in 1 .. Best(log) - 1 : RanIn(truth, l, "not_reproduced")
      BY <2>3, CompleteSearch
    <3>5. ShortestIsShortest'
      BY <3>1, <3>3, <3>4 DEF ShortestIsShortest, RanIn
    <3>6. PrefixInv'
      BY <1>2, <3>1, <3>5 DEF PrefixInv
    <3>7. QED
      BY <3>2, <3>6
  <2>4. CASE Candidate > 0 /\ Goto("validate")
    <3>1. TrialInv'
      BY <1>2, <2>4, TrialsUntouched DEF Goto, Awaiting, TrialInv
    <3>2. Len(log) < PrefixLength
      BY <1>2, <2>4, PrefixAssumption DEF Candidate
    <3>3. PrefixInv'
      BY <1>2, <2>4, <3>2 DEF Goto, PrefixInv, ShortestIsShortest
    <3>4. QED
      BY <3>1, <3>3
  <2>5. QED
    BY <2>1, <2>2, <2>3, <2>4
<1>5. CASE PrefixValidate
  <2> USE <1>1, <1>5 DEF PrefixValidate, loopVars
  <2>1. Len(log) < PrefixLength
    BY DEF PrefixInv
  <2>2. CASE \E reason : PrefixStops(reason) /\ UNCHANGED <<log, trial>>
    BY <1>2, <2>2, PrefixStopsInv
  <2>3. CASE StartTrial(Candidate) /\ Goto("race") /\ UNCHANGED log
    <3>1. TrialInv'
      BY <2>3, TrialStarts DEF Goto
    <3>2. trial'.of = Candidate /\ Candidate' = Candidate
      BY <2>3 DEF StartTrial, Trial, Candidate
    <3>3. PrefixInv'
      BY <1>2, <2>1, <2>3, <3>2 DEF Goto, PrefixInv, ShortestIsShortest
    <3>4. QED
      BY <3>1, <3>3
  <2>4. CASE Logged(Candidate, "not_run") /\ Goto("next") /\ UNCHANGED <<trial, started>>
    <3>1. /\ IsSeq(log') /\ Len(log') = Len(log) + 1 /\ PrefixLog(log', truth)
          /\ \A i \in 1 .. Len(log) : log'[i] = log[i]
          /\ log'[Len(log) + 1].outcome = "not_run"
      BY <1>2, <2>1, <2>4, PrefixLogGrows DEF Decided
    <3>2. TrialInv'
      BY <2>4, <3>1, TrialsUntouched DEF Goto, Awaiting, TrialInv
    <3>3. \A i \in 1 .. Len(log') : log'[i].outcome \in Decided \cup {"not_run"}
      BY <1>2, <3>1
    <3>4. PrefixInv'
      BY <2>4, <3>1, <3>3 DEF Goto, PrefixInv, ShortestIsShortest
    <3>5. QED
      BY <3>2, <3>4
  <2>5. ASSUME NEW outcome \in {"failed", "timed_out", "cancelled"}, NEW reason,
               Logged(Candidate, outcome), PrefixStops(reason), UNCHANGED <<trial, started>>
        PROVE  TrialInv' /\ PrefixInv'
    BY <1>3, <2>1, <2>5 DEF Decided
  <2>6. PICK answer \in Answers({"valid", "invalid"}) :
           CASE answer = "valid" ->
                 /\ UNCHANGED log
                 /\ IF aborted THEN PrefixStops("cancelled") /\ UNCHANGED <<trial, started>>
                    ELSE StartTrial(Candidate) /\ Goto("race")
            [] answer = "invalid" ->
                 Logged(Candidate, "not_run") /\ Goto("next") /\ UNCHANGED <<trial, started>>
            [] OTHER ->
                 /\ Logged(Candidate, IF answer = "rejected" THEN "failed" ELSE answer)
                 /\ PrefixStops(IF answer = "cancelled" THEN answer ELSE "candidate_failure")
                 /\ UNCHANGED <<trial, started>>
    OBVIOUS
  <2>7. CASE answer = "valid"
    BY <2>2, <2>3, <2>6, <2>7
  <2>8. CASE answer = "invalid"
    BY <2>4, <2>6, <2>8
  <2>9. CASE answer \in {"rejected", "timed_out", "cancelled"}
    <3> DEFINE outcome == IF answer = "rejected" THEN "failed" ELSE answer
               reason == IF answer = "cancelled" THEN answer ELSE "candidate_failure"
    <3>1. Logged(Candidate, outcome) /\ PrefixStops(reason) /\ UNCHANGED <<trial, started>>
      BY <2>6, <2>9
    <3>2. outcome \in {"failed", "timed_out", "cancelled"}
      BY <2>9
    <3> HIDE DEF outcome, reason
    <3>3. QED
      BY <2>5, <3>1, <3>2
  <2>10. QED
    BY <2>7, <2>8, <2>9 DEF Answers
<1>6. CASE PrefixRace
  <2> USE <1>1, <1>6 DEF PrefixRace, loopVars
  <2>1. Len(log) < PrefixLength /\ trial.of = Candidate /\ trial.clean \in BOOLEAN
    BY DEF PrefixInv, TrialInv
  <2>2. ASSUME NEW outcome \in {"failed", "cleanup_unconfirmed"}, NEW reason,
               Logged(trial.of, outcome), PrefixStops(reason)
        PROVE  TrialInv' /\ PrefixInv'
    BY <1>3, <2>1, <2>2 DEF Decided
  <2>3. CASE /\ trial.is = "result" /\ trial.status # "stale" /\ trial.clean
             /\ Logged(trial.of, trial.status) /\ Goto("next")
    <3>1. trial.status \in Decided
      BY <2>3 DEF TrialInv, Statuses, ReplayStatuses, Decided
    <3>2. RanIn(truth, Candidate, trial.status)
      BY <2>1, <2>3, LatestRan
    <3>3. /\ IsSeq(log') /\ Len(log') = Len(log) + 1 /\ PrefixLog(log', truth)
          /\ \A i \in 1 .. Len(log) : log'[i] = log[i]
          /\ log'[Len(log) + 1].outcome = trial.status
      BY <1>2, <2>1, <2>3, <3>2, PrefixLogGrows
    <3>4. TrialInv'
      BY <2>3, <3>3, TrialsUntouched DEF Goto, Awaiting, Quiet
    <3>5. \A i \in 1 .. Len(log') : log'[i].outcome \in Decided \cup {"not_run"}
      BY <1>2, <3>1, <3>3
    <3>6. PrefixInv'
      BY <2>3, <3>3, <3>5 DEF Goto, PrefixInv, ShortestIsShortest
    <3>7. QED
      BY <3>4, <3>6
  <2>4. CASE \E kind \in {"timed_out", "cancelled"} :
                RaceEnds(kind) /\ Goto(kind) /\ UNCHANGED log
    <3>1. TrialInv'
      BY <1>2, <2>4, TrialsUntouched DEF Goto, Awaiting
    <3>2. PrefixInv'
      BY <1>2, <2>1, <2>4 DEF Goto, PrefixInv, ShortestIsShortest, Candidate
    <3>3. QED
      BY <3>1, <3>2
  <2>5. CASE RaceEnds("result") /\ trial.status = "stale"
    <3>1. Logged(trial.of, "failed") /\ PrefixStops("candidate_failure")
      BY <2>5 DEF RaceEnds
    <3>2. QED
      BY <2>2, <3>1
  <2>6. CASE RaceEnds("result") /\ trial.status # "stale" /\ ~trial.clean
    <3>1. /\ Logged(trial.of, "cleanup_unconfirmed")
          /\ PrefixStops("cleanup_independence_lost")
      BY <2>6 DEF RaceEnds
    <3>2. QED
      BY <2>2, <3>1
  <2>7. CASE RaceEnds("result") /\ trial.status # "stale" /\ trial.clean
    BY <2>3, <2>7 DEF RaceEnds
  <2>8. CASE RaceEnds("rejected") /\ Logged(trial.of, "failed") /\ PrefixStops("candidate_failure")
    BY <2>2, <2>8
  <2>9. QED
    BY <2>1, <2>4, <2>5, <2>6, <2>7, <2>8
<1>7. CASE PrefixSettlement
  <2>1. Len(log) < PrefixLength /\ trial.of = Candidate
    BY <1>1, <1>7 DEF PrefixSettlement, PrefixInv
  <2>2. QED
    BY <1>1, <1>3, <1>7, <2>1 DEF PrefixSettlement, Decided
<1>8. QED
  BY <1>1, <1>4, <1>5, <1>6, <1>7 DEF PrefixNext

-----------------------------------------------------------------------------
(* runMutationCampaign *)

(* Acceptance is met only by a killed case of every required mutant. *)
LEMMA MetByCases ==
    ASSUME NEW status, NEW cases, Acceptance(status, cases) = "met", NEW m \in Required
    PROVE  \E i \in 1 .. Len(cases) :
              cases[i].of = m /\ cases[i].outcome = "killed_by_behavioral_mismatch"
<1> DEFINE of(class) == {cases[i].of : i \in {j \in 1 .. Len(cases) : cases[j].outcome = class}}
<1>1. Required \subseteq of("killed_by_behavioral_mismatch")
  BY DEF Acceptance
<1>2. QED
  BY <1>1

(* Acceptance is unmet only by a required mutant that survived. *)
LEMMA UnmetByCases ==
    ASSUME NEW status, NEW cases, Acceptance(status, cases) = "unmet"
    PROVE  \E m \in Required, i \in 1 .. Len(cases) :
              cases[i].of = m /\ cases[i].outcome = "survived"
<1> DEFINE of(class) == {cases[i].of : i \in {j \in 1 .. Len(cases) : cases[j].outcome = class}}
<1>1. Required \cap of("survived") # {}
  BY DEF Acceptance
<1>2. QED
  BY <1>1

(* A campaign that ends after its baseline passed has earned its acceptance. *)
LEMMA CampaignEndsInv ==
    ASSUME TrialInv, tool = "campaign", pc # "done", UNCHANGED <<loopVars, trial, truth>>,
           IsSeq(log'), CampaignLog(log', truth), RanIn(truth, Correct, "passed"),
           NEW status, CampaignEnds(status)
    PROVE  TrialInv' /\ CampaignInv'
<1>1. pc' = "done" /\ report'.acceptance = Acceptance(status, log')
  BY DEF CampaignEnds, Finish
<1>2. TrialInv'
  BY <1>1, TrialsUntouched DEF loopVars, Awaiting
<1>3. Required' = Required
  BY DEF Required, loopVars
<1>4. ASSUME report'.acceptance = "met", NEW m \in Required
      PROVE  RanIn(truth, m, "mismatch")
  <2>1. Acceptance(status, log') = "met"
    BY <1>1, <1>4
  <2>2. PICK i \in 1 .. Len(log') :
           log'[i].of = m /\ log'[i].outcome = "killed_by_behavioral_mismatch"
    BY ONLY <2>1, m \in Required, MetByCases
  <2>3. QED
    BY <2>2 DEF CampaignLog
<1>5. ASSUME report'.acceptance = "unmet"
      PROVE  \E m \in Required : RanIn(truth, m, "passed")
  <2>1. PICK m \in Required, i \in 1 .. Len(log') :
           log'[i].of = m /\ log'[i].outcome = "survived"
    BY <1>1, <1>5, UnmetByCases
  <2>2. QED
    BY <2>1 DEF CampaignLog
<1>6. AcceptanceIsEarned'
  BY <1>3, <1>4, <1>5 DEF AcceptanceIsEarned, RanIn, Correct
<1>7. QED
  BY <1>1, <1>2, <1>6 DEF CampaignInv

(* A campaign without a baseline claims nothing. *)
LEMMA NoCampaign ==
    ASSUME IInv, tool = "campaign", pc # "done", UNCHANGED <<loopVars, trial, truth, log>>,
           pc' = "done", report'.acceptance \in {"incomplete", "none"}
    PROVE  TrialInv' /\ CampaignInv'
<1>1. TrialInv'
  BY TrialsUntouched DEF IInv, TrialInv, loopVars, Awaiting
<1>2. CampaignInv'
  BY DEF IInv, CampaignInv, AcceptanceIsEarned
<1>3. QED
  BY <1>1, <1>2

(* One more case is logged. *)
LEMMA CampaignLogGrows ==
    ASSUME TrialInv, CampaignLog(log, truth), NEW of, NEW outcome, Logged(of, outcome),
           outcome = "killed_by_behavioral_mismatch" => RanIn(truth, of, "mismatch"),
           outcome = "survived" => RanIn(truth, of, "passed")
    PROVE  IsSeq(log') /\ CampaignLog(log', truth)
<1>1. /\ IsSeq(log') /\ Len(log') = Len(log) + 1 /\ Len(log) \in Nat
      /\ \A i \in 1 .. Len(log) : log'[i] = log[i]
      /\ log'[Len(log) + 1].of = of /\ log'[Len(log) + 1].outcome = outcome
  BY LogGrows DEF TrialInv, IsSeq
<1>2. QED
  BY <1>1 DEF CampaignLog

(* The campaign keeps the invariant. *)
LEMMA CampaignStep ==
    ASSUME IInv, CampaignNext
    PROVE  TrialInv' /\ CampaignInv' /\ UNCHANGED tool /\ tool = "campaign"
<1> USE DEF IInv
<1>1. tool = "campaign" /\ UNCHANGED tool /\ pc # "done" /\ report = Nothing
  BY DEF CampaignNext, CampaignProtected, BaselineRace, CampaignLoop, MutantProtected,
         MutantRace, CampaignSettlement, loopVars, TrialInv
<1>2. IsSeq(log) /\ CampaignLog(log, truth) /\ trial.clean \in BOOLEAN
  BY <1>1 DEF TrialInv, CampaignInv
<1>3. ASSUME BaselineFails, UNCHANGED <<loopVars, trial, truth>>
      PROVE  TrialInv' /\ CampaignInv'
  <2>1. pc' = "done" /\ report'.acceptance = "incomplete" /\ UNCHANGED log
    BY <1>3 DEF BaselineFails, Finish
  <2>2. QED
    BY <1>1, <1>3, <2>1, NoCampaign
<1>4. ASSUME NEW of, StartTrial(of), Goto("race"), UNCHANGED <<loopVars, truth, log>>,
             of = Correct \/ RanIn(truth, Correct, "passed")
      PROVE  TrialInv' /\ CampaignInv'
  <2>1. TrialInv'
    BY <1>1, <1>4, TrialStarts DEF Goto, loopVars
  <2>2. trial'.of = of
    BY <1>4 DEF StartTrial, Trial
  <2>3. CampaignInv'
    BY <1>1, <1>2, <1>4, <2>2 DEF CampaignInv, AcceptanceIsEarned, Goto
  <2>4. QED
    BY <2>1, <2>3
<1>5. ASSUME NEW kind \in {"timed_out", "cancelled"}, pc = "race", Goto(kind),
             UNCHANGED <<loopVars, trial, truth, log>>
      PROVE  TrialInv' /\ CampaignInv'
  <2>1. TrialInv'
    BY <1>1, <1>2, <1>5, TrialsUntouched DEF Goto, Awaiting, loopVars
  <2>2. CampaignInv'
    BY <1>1, <1>2, <1>5 DEF Goto, CampaignInv, AcceptanceIsEarned
  <2>3. QED
    BY <2>1, <2>2
<1>6. CASE CampaignProtected
  <2> USE <1>1, <1>6 DEF CampaignProtected
  <2>1. CASE Finish([status |-> "thrown", acceptance |-> "none"]) /\ UNCHANGED trial
    <3>1. pc' = "done" /\ report'.acceptance = "none"
      BY <2>1 DEF Finish
    <3>2. QED
      BY <2>1, <3>1, NoCampaign
  <2>2. CASE BaselineFails /\ UNCHANGED trial
    BY <1>3, <2>2
  <2>3. CASE StartTrial(Correct) /\ Goto("race")
    BY <1>4, <2>3
  <2>4. QED
    BY <2>1, <2>2, <2>3
<1>7. CASE BaselineRace
  <2> USE <1>1, <1>7 DEF BaselineRace
  <2>1. CASE BaselineFails
    BY <1>3, <2>1
  <2>2. CASE /\ trial.is = "result" /\ trial.status = "passed" /\ trial.clean
             /\ Goto("loop") /\ UNCHANGED log
    <3>1. RanIn(truth, Correct, "passed")
      BY <2>2, LatestRan
    <3>2. TrialInv'
      BY <1>2, <2>2, TrialsUntouched DEF Goto, Awaiting, loopVars, Quiet
    <3>3. CampaignInv'
      BY <1>2, <2>2, <3>1 DEF Goto, CampaignInv, AcceptanceIsEarned
    <3>4. QED
      BY <3>2, <3>3
  <2>3. CASE \E kind \in {"timed_out", "cancelled"} : Goto(kind) /\ UNCHANGED log
    BY <1>5, <2>3
  <2>4. QED
    BY <2>1, <2>2, <2>3 DEF RaceEnds
<1>8. CASE CampaignLoop
  <2> USE <1>1, <1>8 DEF CampaignLoop
  <2>1. RanIn(truth, Correct, "passed")
    BY DEF CampaignInv
  <2>2. ASSUME NEW status, CampaignEnds(status) PROVE TrialInv' /\ CampaignInv'
    BY <1>2, <2>1, <2>2, CampaignEndsInv
  <2>3. CASE Goto("protected")
    <3>1. TrialInv'
      BY <1>2, <2>3, TrialsUntouched DEF Goto, Awaiting, loopVars, TrialInv
    <3>2. CampaignInv'
      BY <1>2, <2>1, <2>3 DEF Goto, CampaignInv, AcceptanceIsEarned
    <3>3. QED
      BY <3>1, <3>2
  <2>4. QED
    BY <2>2, <2>3
<1>9. CASE MutantProtected
  <2>1. RanIn(truth, Correct, "passed")
    <3>1. pc = "protected"
      BY <1>9 DEF MutantProtected
    <3>2. QED
      BY <1>1, <3>1 DEF CampaignInv
  <2> USE <1>1, <1>9 DEF MutantProtected
  <2> DEFINE mutant == Selected[Len(log) + 1]
  <2>2. CASE CampaignEnds("incomplete") /\ UNCHANGED <<trial, started, log>>
    BY <1>2, <2>1, <2>2, CampaignEndsInv
  <2>3. CASE /\ Logged(mutant, "inconclusive") /\ CampaignEnds("cancelled")
             /\ UNCHANGED <<trial, started>>
    BY <1>2, <2>1, <2>3, CampaignLogGrows, CampaignEndsInv
  <2>4. CASE StartTrial(mutant) /\ Goto("race") /\ UNCHANGED log
    BY <1>4, <2>1, <2>4
  <2>5. QED
    BY <2>2, <2>3, <2>4
<1>10. CASE MutantRace
  <2>1. RanIn(truth, Correct, "passed")
    <3>1. pc = "race" /\ trial.of # Correct
      BY <1>10 DEF MutantRace
    <3>2. QED
      BY <1>1, <3>1 DEF CampaignInv
  <2> USE <1>1, <1>10 DEF MutantRace
  <2>2. CASE RaceEnds("result") /\ Logged(trial.of, classify(trial))
    <3>1. trial.is = "result"
      BY <2>2 DEF RaceEnds
    <3>2. /\ classify(trial) = "killed_by_behavioral_mismatch" =>
                trial.status = "mismatch" /\ trial.clean
          /\ classify(trial) = "survived" => trial.status = "passed" /\ trial.clean
      BY DEF classify
    <3>3. IsSeq(log') /\ CampaignLog(log', truth)
      BY <1>2, <2>2, <3>1, <3>2, LatestRan, CampaignLogGrows
    <3>4. CASE CampaignEnds("incomplete")
      BY <2>1, <3>3, <3>4, CampaignEndsInv
    <3>5. CASE trial.clean /\ Goto("loop")
      <4>1. TrialInv'
        BY <3>1, <3>3, <3>5, TrialsUntouched DEF Goto, Awaiting, loopVars, Quiet
      <4>2. CampaignInv'
        BY <2>1, <3>3, <3>5 DEF Goto, CampaignInv, AcceptanceIsEarned
      <4>3. QED
        BY <4>1, <4>2
    <3>6. QED
      BY <2>2, <3>4, <3>5 DEF RaceEnds
  <2>3. CASE Logged(trial.of, "infrastructure_failure") /\ CampaignEnds("incomplete")
    BY <1>2, <2>1, <2>3, CampaignLogGrows, CampaignEndsInv
  <2>4. CASE \E kind \in {"timed_out", "cancelled"} : Goto(kind) /\ UNCHANGED log
    BY <1>5, <2>4
  <2>5. QED
    BY <2>2, <2>3, <2>4
<1>11. CASE CampaignSettlement
  <2> USE <1>1, <1>11 DEF CampaignSettlement
  <2>1. CASE trial.of = Correct
    BY <1>3, <2>1
  <2>2. CASE trial.of # Correct
    <3>1. RanIn(truth, Correct, "passed")
      BY <2>2 DEF CampaignInv
    <3>2. IsSeq(log') /\ CampaignLog(log', truth)
      BY <1>2, <2>2, CampaignLogGrows
    <3>3. QED
      BY <2>2, <3>1, <3>2, CampaignEndsInv
  <2>3. QED
    BY <2>1, <2>2
<1>12. QED
  BY <1>1, <1>6, <1>7, <1>8, <1>9, <1>10, <1>11 DEF CampaignNext

-----------------------------------------------------------------------------
(* reduceLeaseServiceInput and its oracle *)

(* A trace that was materialized differs from the original in exactly what  *)
(* the edits declare, and has 1 there.                                      *)
LEMMA MaterializedIsEdited ==
    ASSUME NEW edits \in Candidates, materializeLeaseReductionTrace(edits)
    PROVE  /\ IsReduction(Edited(edits))
           /\ differences(Edited(edits)) = Declared(edits)
<1> DEFINE trace == Edited(edits)
<1>1. edits # <<>> /\ differences(trace) = Declared(edits)
  BY DEF materializeLeaseReductionTrace, validateLeaseReductionCandidate
<1>0. Declared(edits) # {}
  <2>1. PICK n \in 0 .. 2 : edits \in [1 .. n -> LeaseReductionEdits]
    BY DEF Candidates
  <2>2. n # 0
    <3>1. SUFFICES ASSUME n = 0 PROVE edits = <<>>
      BY <1>1
    <3>2. edits \in Seq(LeaseReductionEdits) /\ Len(edits) = 0
      BY <2>1, <3>1
    <3>3. QED
      BY <3>2
  <2>3. 1 \in DOMAIN edits
    BY <2>1, <2>2
  <2>4. QED
    BY <2>3 DEF Declared
<1>2. ASSUME NEW at \in differences(trace) PROVE trace[at[1]][at[2]] = 1
  <2>1. /\ at[1] \in DOMAIN LeaseTrace /\ at[2] \in {"client", "token"}
        /\ at = <<at[1], at[2]>>
    BY DEF differences
  <2>2. at[2] \in DOMAIN LeaseTrace[at[1]]
    <3> DEFINE Steps == [action : {"Acquire", "Renew"}, client : {1, 2}, token : {1, 2}]
    <3>1. LeaseTrace \in Seq(Steps)
      BY LeaseTraceAssumption
    <3> HIDE DEF Steps
    <3>2. LeaseTrace[at[1]] \in Steps
      BY <2>1, <3>1
    <3>3. QED
      BY <2>1, <3>2 DEF Steps
  <2>3. <<at[1], at[2]>> \in Declared(edits)
    BY <1>1, <2>1
  <2>4. trace[at[1]][at[2]] = IF <<at[1], at[2]>> \in Declared(edits) THEN 1
                              ELSE LeaseTrace[at[1]][at[2]]
    BY <2>1, <2>2 DEF Edited
  <2>5. QED
    BY <2>3, <2>4
<1> HIDE DEF trace
<1>3. QED
  BY <1>0, <1>1, <1>2 DEF IsReduction, trace

(* The reduction ends without a reduced input. *)
LEMMA LeaseFails ==
    ASSUME IInv, tool = "lease", pc # "done", UNCHANGED <<loopVars, truth, trial, log>>,
           pc' = "done", report'.status # "reduced"
    PROVE  TrialInv' /\ LeaseInv'
<1>1. TrialInv'
  BY TrialsUntouched DEF IInv, TrialInv, loopVars, Awaiting
<1>2. LeaseInv'
  BY DEF LeaseInv, ReducedIsEarned, loopVars
<1>3. QED
  BY <1>1, <1>2

(* An unanswered wait of the reduction ends it, never with "reduced". *)
LEMMA LeaseUnansweredFails ==
    ASSUME NEW answer, LeaseUnanswered(answer)
    PROVE  pc' = "done" /\ report'.status # "reduced" /\ UNCHANGED <<trial, log>>
<1> DEFINE why == CASE answer = "cancelled" -> "reduction_cancelled"
                    [] answer = "timed_out" -> "model_oracle_timeout"
                    [] OTHER -> "model_oracle_error"
<1>1. LeaseEnds(IF answer = "cancelled" THEN "cancelled" ELSE "inconclusive", why)
  BY Zenon DEF LeaseUnanswered
<1> HIDE DEF why
<1>2. QED
  BY <1>1 DEF LeaseEnds, Finish

(* What LeaseEnds changes *)
LEMMA LeaseEndsSays ==
    ASSUME NEW status, NEW reason, LeaseEnds(status, reason)
    PROVE  pc' = "done" /\ report'.status = status /\ UNCHANGED <<trial, log>>
BY DEF LeaseEnds, Finish

(* The reduction keeps the invariant. *)
LEMMA LeaseStep ==
    ASSUME IInv, LeaseNext
    PROVE  TrialInv' /\ LeaseInv' /\ UNCHANGED tool /\ tool = "lease"
<1> USE DEF IInv
<1>1. /\ tool = "lease" /\ UNCHANGED <<tool, subject>> /\ pc # "done" /\ report = Nothing
      /\ UNCHANGED <<loopVars, truth>>
  BY DEF LeaseNext, Materialize, Inspect, Evaluate, LeaseRace, LeaseSettlement, loopVars,
         TrialInv
<1> SUFFICES TrialInv' /\ LeaseInv'
  BY <1>1
<1>2. ASSUME NEW status, NEW reason, LeaseEnds(status, reason), status # "reduced"
      PROVE  TrialInv' /\ LeaseInv'
  BY <1>1, <1>2, LeaseFails, LeaseEndsSays
<1>3. ASSUME NEW answer, LeaseUnanswered(answer)
      PROVE  TrialInv' /\ LeaseInv'
  BY <1>1, <1>3, LeaseFails, LeaseUnansweredFails
<1>4. CASE Materialize
  <2>1. ASSUME NEW given \in MaterializedCandidates, Logged(given, "materialized"),
               Goto("inspect"), UNCHANGED trial
        PROVE  TrialInv' /\ LeaseInv'
    <3>1. /\ IsSeq(log') /\ Len(log') = Len(log) + 1 /\ Len(log) \in Nat
          /\ log'[Len(log) + 1].of = given /\ Len(log) = 0
      BY <1>1, <1>4, <2>1, LogGrows DEF TrialInv, IsSeq, LeaseInv, Materialize
    <3>2. TrialInv'
      BY <1>1, <1>4, <2>1, <3>1, TrialsUntouched DEF Goto, Awaiting, TrialInv, Materialize
    <3>3. LeaseInv'
      BY <1>1, <2>1, <3>1 DEF Goto, LeaseInv, ReducedIsEarned
    <3>4. QED
      BY <3>2, <3>3
  <2>2. QED
    BY <1>2, <1>3, <1>4, <2>1 DEF Materialize
<1>5. CASE Inspect
  <2> DEFINE given == log[1].of
  <2>1. CASE /\ receiptMatches(given) /\ verifyMaterializedEdits(subject.edits, given.trace)
             /\ Logged(given, "inspected") /\ Goto("evaluate")
             /\ UNCHANGED <<trial, started>>
    <3>1. Len(log) > 0 /\ pc = "inspect"
      BY <1>1, <1>5 DEF Inspect, LeaseInv
    <3>2. /\ IsSeq(log') /\ Len(log') = Len(log) + 1 /\ Len(log) \in Nat
          /\ log'[1] = log[1]
      BY <2>1, <3>1, LogGrows DEF TrialInv, IsSeq
    <3>3. TrialInv'
      BY <1>1, <2>1, <3>1, <3>2, TrialsUntouched DEF Goto, Awaiting, TrialInv
    <3>4. Replayable(log[1].of.trace)
      <4>1. /\ given.trace = Edited(given.receipt.of) /\ given.receipt.of \in Candidates
            /\ materializeLeaseReductionTrace(given.receipt.of)
        BY <1>1, <2>1, <3>1 DEF receiptMatches, LeaseInv, MaterializedCandidates, Receipts
      <4>2. IsReduction(given.trace)
        BY <4>1, MaterializedIsEdited
      <4>3. HasTheEdits(given.trace)
        BY <2>1 DEF verifyMaterializedEdits, HasTheEdits
      <4>4. QED
        BY <4>2, <4>3 DEF Replayable
    <3>5. Replayable(log[1].of.trace)'
      BY <1>1, <3>2, <3>4 DEF Replayable, HasTheEdits
    <3>6. pc' = "evaluate" /\ report' = Nothing
      BY <1>1, <2>1 DEF Goto
    <3>7. LeaseInv'
      BY <1>1, <3>2, <3>5, <3>6 DEF LeaseInv, ReducedIsEarned
    <3>8. QED
      BY <3>3, <3>7
  <2>2. QED
    BY <1>2, <1>3, <1>5, <2>1 DEF Inspect
<1>6. CASE Evaluate
  <2>1. CASE StartTrial(log[1].of.trace) /\ Goto("race") /\ UNCHANGED log
    <3>1. TrialInv'
      BY <1>1, <2>1, TrialStarts DEF Goto
    <3>2. trial'.of = log[1].of.trace
      BY <2>1 DEF StartTrial, Trial
    <3>3. Replayable(log[1].of.trace)
      BY <1>1, <1>6 DEF LeaseInv, Evaluate
    <3>4. LeaseInv'
      BY <1>1, <2>1, <3>2, <3>3 DEF Goto, LeaseInv, ReducedIsEarned, Replayable, HasTheEdits
    <3>5. QED
      BY <3>1, <3>4
  <2>2. QED
    BY <1>2, <1>6, <2>1 DEF Evaluate
<1>7. CASE LeaseRace
  <2>1. CASE trial.is = "result" /\ LeaseVerdict
    <3>1. CASE trial.clean /\ trial.status = "matches"
      <4>1. LeaseEnds("reduced", "none")
        BY <2>1, <3>1 DEF LeaseVerdict
      <4>2. TrialInv'
        BY <1>1, <4>1, LeaseEndsSays, TrialsUntouched DEF TrialInv, Awaiting
      <4>3. Len(truth) \in DOMAIN truth /\ truth[Len(truth)] = trial
        BY <2>1 DEF TrialInv, IsSeq
      <4>4. Replayable(trial.of)
        BY <1>1, <1>7 DEF LeaseInv, LeaseRace
      <4>5. ReducedIsEarned'
        BY <1>1, <2>1, <3>1, <4>3, <4>4 DEF ReducedIsEarned, Replayable, HasTheEdits
      <4>6. LeaseInv'
        BY <4>1, <4>5, LeaseEndsSays DEF LeaseInv
      <4>7. QED
        BY <4>2, <4>6
    <3>2. CASE trial.clean /\ trial.status # "matches"
      BY <1>2, <2>1, <3>2 DEF LeaseVerdict
    <3>3. CASE ~trial.clean
      BY <1>2, <2>1, <3>3 DEF LeaseVerdict
    <3>4. QED
      BY <3>1, <3>2, <3>3
  <2>2. CASE \E kind \in {"timed_out", "cancelled"} : Goto(kind) /\ UNCHANGED <<trial, log>>
    <3>1. TrialInv'
      BY <1>1, <1>7, <2>2, TrialsUntouched DEF Goto, Awaiting, TrialInv, LeaseRace
    <3>2. LeaseInv'
      BY <1>1, <1>7, <2>2 DEF Goto, LeaseInv, LeaseRace, ReducedIsEarned, Replayable, HasTheEdits
    <3>3. QED
      BY <3>1, <3>2
  <2>3. QED
    BY <1>2, <1>7, <2>1, <2>2 DEF LeaseRace, RaceEnds
<1>8. CASE LeaseSettlement
  BY <1>2, <1>8 DEF LeaseSettlement
<1>9. QED
  BY <1>1, <1>4, <1>5, <1>6, <1>7, <1>8 DEF LeaseNext

(* The oracle ends without an admitted trace. *)
LEMMA OracleFails ==
    ASSUME IInv, tool = "oracle", pc # "done", UNCHANGED <<loopVars, truth, trial, log>>,
           pc' = "done", report'.status = "inconclusive"
    PROVE  TrialInv' /\ OracleInv'
<1>1. TrialInv'
  BY TrialsUntouched DEF IInv, TrialInv, loopVars, Awaiting
<1>2. OracleInv'
  BY DEF IInv, OracleInv, ReducedIsEarned, loopVars
<1>3. QED
  BY <1>1, <1>2

(* The oracle keeps the invariant. *)
LEMMA OracleStep ==
    ASSUME IInv, OracleNext
    PROVE  TrialInv' /\ OracleInv' /\ UNCHANGED tool /\ tool = "oracle"
<1> USE DEF IInv
<1>1. /\ tool = "oracle" /\ UNCHANGED <<tool, subject>> /\ pc # "done" /\ report = Nothing
      /\ UNCHANGED <<loopVars, truth>>
  BY DEF OracleNext, OpenOracle, OracleRace, OracleDeadline, OracleSettles, OracleWrites,
         loopVars, TrialInv
<1> SUFFICES TrialInv' /\ OracleInv'
  BY <1>1
<1>2. ASSUME NEW reason, NEW cleanup, Fails(reason, cleanup), UNCHANGED <<trial, log>>
      PROVE  TrialInv' /\ OracleInv'
  <2>1. pc' = "done" /\ report'.status = "inconclusive"
    BY <1>2 DEF Fails, Finish, Receipt
  <2>2. QED
    BY <1>1, <1>2, <2>1, OracleFails
<1>3. ASSUME pc \in {"race", "deadline"}, trial.is = "result", Logged(1, "confirmed"),
             Goto("verify"), UNCHANGED trial
      PROVE  TrialInv' /\ OracleInv'
  <2>1. log = <<>> /\ HasNothingElse(trial.of)
    BY <1>1, <1>3 DEF OracleInv
  <2>2. IsSeq(log') /\ Len(log') = 1 /\ log'[1].outcome = "confirmed"
    BY <1>3, <2>1, LogGrows
  <2>3. TrialInv'
    BY <1>1, <1>3, <2>2, TrialsUntouched DEF Goto, Awaiting
  <2>4. OracleInv'
    BY <1>1, <1>3, <2>1, <2>2 DEF Goto, OracleInv, ReducedIsEarned, HasNothingElse
  <2>5. QED
    BY <2>3, <2>4
<1>4. ASSUME pc = "race", NEW place \in {"settle", "deadline"}, Goto(place),
             UNCHANGED <<trial, log>>
      PROVE  TrialInv' /\ OracleInv'
  <2>1. TrialInv'
    BY <1>1, <1>4, TrialsUntouched DEF Goto, Awaiting, TrialInv
  <2>2. OracleInv'
    BY <1>1, <1>4 DEF Goto, OracleInv, ReducedIsEarned, HasNothingElse
  <2>3. QED
    BY <2>1, <2>2
<1>5. CASE OpenOracle
  <2>1. CASE /\ materializeLeaseReductionTrace(subject.edits)
             /\ StartTrial(Edited(subject.edits)) /\ Goto("race")
    <3>1. log' = log /\ pc = "next"
      BY <1>5 DEF OpenOracle
    <3>2. TrialInv'
      BY <1>1, <2>1, <3>1, TrialStarts DEF Goto
    <3>3. trial'.of = Edited(subject.edits)
      BY <2>1 DEF StartTrial, Trial
    <3>4. HasNothingElse(Edited(subject.edits))
      BY <1>1, <2>1, MaterializedIsEdited DEF OracleInv, HasNothingElse
    <3>5. OracleInv'
      BY <1>1, <2>1, <3>1, <3>3, <3>4 DEF Goto, OracleInv, ReducedIsEarned, HasNothingElse
    <3>6. QED
      BY <3>2, <3>5
  <2>2. QED
    BY <1>2, <1>5, <2>1 DEF OpenOracle
<1>6. CASE OracleRace
  BY <1>3, <1>4, <1>6 DEF OracleRace
<1>7. CASE OracleDeadline
  BY <1>2, <1>3, <1>7 DEF OracleDeadline
<1>8. CASE OracleSettles
  BY <1>2, <1>8 DEF OracleSettles
<1>9. CASE OracleWrites
  <2>1. CASE Finish(Receipt("model_valid", "none", log[1].outcome))
    <3>1. /\ pc = "verify" /\ UNCHANGED <<trial, log>>
          /\ trial.is = "result" /\ log[1].outcome = "confirmed" /\ HasNothingElse(trial.of)
      BY <1>1, <1>9 DEF OracleWrites, OracleInv
    <3>2. pc' = "done" /\ report'.cleanup = "confirmed"
      BY <2>1, <3>1 DEF Finish, Receipt
    <3>3. TrialInv'
      BY <1>1, <3>1, <3>2, TrialsUntouched DEF TrialInv, Awaiting
    <3>4. Len(truth) \in DOMAIN truth /\ truth[Len(truth)] = trial
      BY <3>1 DEF TrialInv, IsSeq
    <3>5. ReducedIsEarned'
      BY <1>1, <3>1, <3>2, <3>4 DEF ReducedIsEarned, HasNothingElse
    <3>6. OracleInv'
      BY <1>1, <3>2, <3>5 DEF OracleInv
    <3>7. QED
      BY <3>3, <3>6
  <2>2. QED
    BY <1>2, <1>9, <2>1 DEF OracleWrites
<1>10. QED
  BY <1>5, <1>6, <1>7, <1>8, <1>9 DEF OracleNext

-----------------------------------------------------------------------------
(* exploreFiniteSchedules *)

(* The functions between two finite sets are finitely many: a function is   *)
(* known by its graph.                                                      *)
LEMMA FunctionsAreFinite ==
    ASSUME NEW S, NEW T, IsFiniteSet(S), IsFiniteSet(T)
    PROVE  IsFiniteSet([S -> T])
<1> DEFINE Graph == [f \in [S -> T] |-> {<<x, f[x]>> : x \in S}]
<1>1. IsFiniteSet(SUBSET (S \X T))
  BY FS_Product, FS_SUBSET
<1>2. Graph \in [[S -> T] -> SUBSET (S \X T)]
  OBVIOUS
<1>3. ASSUME NEW f \in [S -> T], NEW g \in [S -> T], Graph[f] = Graph[g]
      PROVE  f = g
  <2>1. ASSUME NEW x \in S PROVE f[x] = g[x]
    <3>1. <<x, f[x]>> \in {<<y, g[y]>> : y \in S}
      BY <1>3
    <3>2. QED
      BY <3>1
  <2>2. QED
    BY <2>1
<1> HIDE DEF Graph
<1>4. Graph \in Injection([S -> T], SUBSET (S \X T))
  BY <1>2, <1>3 DEF Injection, IsInjective
<1>5. QED
  BY <1>1, <1>4, FS_Injection

(* Finitely many stacks of finite heights have finitely many places. *)
LEMMA StacksAreFinite ==
    ASSUME NEW n \in Nat, NEW height, \A a \in 1 .. n : height[a] \in Nat
    PROVE  IsFiniteSet(UNION {{a} \X (1 .. height[a]) : a \in 1 .. n})
<1> DEFINE F == [a \in 1 .. n |-> {a} \X (1 .. height[a])]
           Family == {{a} \X (1 .. height[a]) : a \in 1 .. n}
<1>1. F \in Surjection(1 .. n, Family)
  BY DEF Surjection
<1>2. IsFiniteSet(1 .. n)
  BY FS_Interval
<1>3. IsFiniteSet(Family)
  <2> HIDE DEF F, Family
  <2>1. QED
    BY <1>1, <1>2, FS_Surjection
<1>4. ASSUME NEW C \in Family PROVE IsFiniteSet(C)
  <2>1. PICK a \in 1 .. n : C = {a} \X (1 .. height[a])
    OBVIOUS
  <2>2. IsFiniteSet({a})
    BY FS_Singleton
  <2>3. IsFiniteSet(1 .. height[a])
    <3>1. 1 \in Int /\ height[a] \in Int
      OBVIOUS
    <3>2. QED
      BY <3>1, FS_Interval
  <2>4. QED
    BY <2>1, <2>2, <2>3, FS_Product
<1>5. QED
  <2> HIDE DEF Family
  <2>1. IsFiniteSet(UNION Family)
    BY <1>3, <1>4, FS_UNION
  <2>2. QED
    BY <2>1 DEF Family

(* The number of checkpoints is a number. *)
LEMMA StepCountType == StepCount \in Nat
<1>1. Len(Chain) \in Nat /\ \A a \in 1 .. Len(Chain) : Chain[a] \in Nat
  BY ExplorationAssumption
<1>2. IsFiniteSet(UNION {{a} \X (1 .. Chain[a]) : a \in 1 .. Len(Chain)})
  BY <1>1, StacksAreFinite
<1>3. QED
  BY <1>2, FS_CardinalityType DEF StepCount

(* The enumeration has every shape with few preemptions, once. *)
LEMMA ShapesAreAll ==
    /\ Len(Shapes) \in Nat
    /\ \A s \in Interleavings : Preemptions(s) <= MaxPreemptions =>
          \E k \in 1 .. Len(Shapes) : Shapes[k] = s
<1> DEFINE S == {s \in Interleavings : Preemptions(s) <= MaxPreemptions}
           D == 1 .. Cardinality(S)
<1>1. IsFiniteSet(S)
  <2>1. IsFiniteSet(1 .. StepCount) /\ IsFiniteSet(1 .. Len(Chain))
    BY StepCountType, ExplorationAssumption, FS_Interval
  <2>2. IsFiniteSet([1 .. StepCount -> 1 .. Len(Chain)])
    BY <2>1, FunctionsAreFinite
  <2>3. S \in SUBSET [1 .. StepCount -> 1 .. Len(Chain)]
    BY DEF Interleavings
  <2> HIDE DEF S
  <2>4. QED
    BY <2>2, <2>3, FS_Subset
<1> HIDE DEF S
<1>2. Cardinality(S) \in Nat /\ ExistsBijection(D, S)
  BY <1>1, FS_CardinalityType
<1>3. \E f \in [D -> S] : IsInjective(f)
  BY <1>2 DEF ExistsBijection, Bijection, Injection
<1>4. Shapes = CHOOSE f \in [D -> S] : IsInjective(f)
  BY DEF Shapes, SetToSeq, S
<1>5. Shapes \in [D -> S] /\ IsInjective(Shapes)
  BY <1>3, <1>4
<1>6. Shapes \in Injection(D, S)
  BY <1>5 DEF Injection
<1>7. IsFiniteSet(D) /\ Cardinality(D) = Cardinality(S)
  BY <1>2, FS_Interval
<1>8. Shapes \in Surjection(D, S)
  BY <1>1, <1>6, <1>7, FS_Injection
<1>9. Len(Shapes) = Cardinality(S)
  BY <1>2, <1>5
<1>10. QED
  BY <1>2, <1>8, <1>9 DEF Surjection, S

(* The run of an ordinal *)
LEMMA DivisionOfOrdinals ==
    ASSUME NEW n \in Nat \ {0}, NEW q \in Nat, NEW r \in 0 .. n - 1
    PROVE  /\ (q * n + r) \div n = q /\ (q * n + r) % n = r
           /\ q * n + r \in Nat
           /\ \A m \in Nat : q < m => q * n + r < m * n
<1>1. q * n + r \in Nat
  OBVIOUS
<1>2. (q * n + r) \div n = q /\ (q * n + r) % n = r
  OBVIOUS
<1>3. ASSUME NEW m \in Nat, q < m PROVE q * n + r < m * n
  <2>1. PICK d \in Nat : m = q + 1 + d
    BY <1>3
  <2>2. m * n = q * n + n + d * n /\ d * n \in Nat /\ q * n \in Nat
    BY <2>1
  <2>3. QED
    BY <2>2
<1>4. QED
  BY <1>1, <1>2, <1>3

(* A complete exploration has every run of the bounded space behind it. *)
LEMMA CompleteCovers ==
    ASSUME IsSeq(log'), ExplorationLog(log', truth), NEW halt, Complete(halt),
           NEW s \in Interleavings, NEW input \in 0 .. InputCount - 1,
           Preemptions(s) <= MaxPreemptions
    PROVE  \E i \in 1 .. Len(truth) :
              /\ truth[i] = Trial(truth[i].of, "result", "passed", TRUE)
              /\ Run(truth[i].of) = [shape |-> s, input |-> input]
<1>1. InputCount \in Nat \ {0} /\ Len(Shapes) \in Nat
  BY ExplorationAssumption, ShapesAreAll
<1>2. /\ Len(log') = Len(Shapes) * InputCount /\ Len(log') \in Nat
      /\ Cardinality(Of(log', {"passed"})) = Len(log')
  BY DEF Complete, Exhausted, Eligible, IsSeq
<1>3. Of(log', {"passed"}) = 1 .. Len(log')
  <2>1. IsFiniteSet(1 .. Len(log')) /\ Cardinality(1 .. Len(log')) = Len(log')
    BY <1>2, FS_Interval
  <2>2. Of(log', {"passed"}) \in SUBSET (1 .. Len(log'))
    BY DEF Of
  <2>3. QED
    BY <1>2, <2>1, <2>2, FS_Subset
<1>4. PICK k \in 1 .. Len(Shapes) : Shapes[k] = s
  BY ShapesAreAll
<1> DEFINE ordinal == (k - 1) * InputCount + input
<1>5. /\ ordinal \div InputCount = k - 1 /\ ordinal % InputCount = input
      /\ ordinal \in Nat /\ ordinal < Len(Shapes) * InputCount
  <2>1. k - 1 \in Nat /\ k - 1 < Len(Shapes)
    BY <1>1
  <2> DEFINE q == k - 1
  <2> HIDE DEF q
  <2>2. /\ (q * InputCount + input) \div InputCount = q
        /\ (q * InputCount + input) % InputCount = input
        /\ q * InputCount + input \in Nat
        /\ q * InputCount + input < Len(Shapes) * InputCount
    BY <1>1, <2>1, DivisionOfOrdinals DEF q
  <2>3. QED
    BY <2>2 DEF q
<1> HIDE DEF ordinal
<1>6. ordinal + 1 \in 1 .. Len(log')
  BY <1>2, <1>5
<1>7. log'[ordinal + 1].outcome = "passed"
  BY <1>3, <1>6 DEF Of
<1>8. RanIn(truth, ordinal, "passed")
  <2>1. log'[ordinal + 1].of = ordinal
    BY <1>5, <1>6 DEF ExplorationLog
  <2>2. QED
    BY <1>6, <1>7, <2>1 DEF ExplorationLog
<1>9. PICK i \in 1 .. Len(truth) : truth[i] = Trial(ordinal, "result", "passed", TRUE)
  BY <1>8 DEF RanIn
<1>10. truth[i].of = ordinal
  BY <1>9 DEF Trial
<1>11. Run(ordinal) = [shape |-> s, input |-> input]
  BY <1>4, <1>5 DEF Run
<1>12. QED
  BY <1>9, <1>10, <1>11

(* However the exploration ends, it says "complete" only then. *)
LEMMA ExplorationEndsInv ==
    ASSUME TrialInv, tool = "explore", pc # "done", UNCHANGED <<loopVars, trial, truth>>,
           IsSeq(log'), ExplorationLog(log', truth), NEW reason, ExplorationEnds(reason)
    PROVE  TrialInv' /\ ExplorationInv'
<1>1. pc' = "done" /\ report'.complete = Complete(reason # "none")
  BY DEF ExplorationEnds, Finish
<1>2. TrialInv'
  BY <1>1, TrialsUntouched DEF loopVars, Awaiting
<1>3. CompleteIsExhaustive'
  BY <1>1, CompleteCovers DEF CompleteIsExhaustive
<1>4. QED
  BY <1>1, <1>2, <1>3 DEF ExplorationInv

(* One more run is logged. *)
LEMMA ExplorationLogGrows ==
    ASSUME TrialInv, ExplorationLog(log, truth), trial.of = Len(log), NEW outcome,
           Logged(trial.of, outcome),
           outcome = "passed" => RanIn(truth, trial.of, "passed")
    PROVE  IsSeq(log') /\ Len(log') = Len(log) + 1 /\ ExplorationLog(log', truth)
<1>1. /\ IsSeq(log') /\ Len(log') = Len(log) + 1 /\ Len(log) \in Nat
      /\ \A i \in 1 .. Len(log) : log'[i] = log[i]
      /\ log'[Len(log) + 1].of = Len(log) /\ log'[Len(log) + 1].outcome = outcome
  BY LogGrows DEF TrialInv, IsSeq
<1>2. ASSUME NEW i \in 1 .. Len(log')
      PROVE  /\ log'[i].of = i - 1
             /\ log'[i].outcome = "passed" => RanIn(truth, log'[i].of, "passed")
  BY <1>1 DEF ExplorationLog
<1>3. QED
  BY <1>1, <1>2 DEF ExplorationLog

(* The exploration keeps the invariant. *)
LEMMA ExplorationStep ==
    ASSUME IInv, ExplorationNext
    PROVE  TrialInv' /\ ExplorationInv' /\ UNCHANGED tool /\ tool = "explore"
<1> USE DEF IInv
<1>1. /\ tool = "explore" /\ UNCHANGED <<tool, subject>> /\ pc # "done" /\ report = Nothing
      /\ UNCHANGED <<loopVars, truth>>
  BY DEF ExplorationNext, ExplorationHead, ExplorationRun, loopVars, TrialInv
<1> SUFFICES TrialInv' /\ ExplorationInv'
  BY <1>1
<1>2. IsSeq(log) /\ ExplorationLog(log, truth)
  BY <1>1 DEF TrialInv, ExplorationInv
<1>3. ASSUME IsSeq(log'), ExplorationLog(log', truth), UNCHANGED trial, NEW reason,
             ExplorationEnds(reason)
      PROVE  TrialInv' /\ ExplorationInv'
  BY <1>1, <1>3, ExplorationEndsInv
<1>4. CASE ExplorationHead
  <2> USE <1>4 DEF ExplorationHead
  <2>1. CASE Finish([complete |-> FALSE, enumerationExhausted |-> FALSE,
                     stopReason |-> "invalid_declaration"]) /\ UNCHANGED trial
    <3>1. pc' = "done" /\ ~report'.complete
      BY <2>1 DEF Finish
    <3>2. TrialInv'
      BY <1>1, <1>2, <2>1, <3>1, TrialsUntouched DEF Awaiting
    <3>3. ExplorationInv'
      BY <1>1, <1>2, <3>1 DEF ExplorationInv, CompleteIsExhaustive
    <3>4. QED
      BY <3>2, <3>3
  <2>2. CASE StartTrial(Len(log)) /\ Goto("race")
    <3>1. TrialInv'
      BY <1>1, <2>2, TrialStarts DEF Goto
    <3>2. trial'.of = Len(log)
      BY <2>2 DEF StartTrial, Trial
    <3>3. ExplorationInv'
      BY <1>1, <1>2, <2>2, <3>2 DEF Goto, ExplorationInv, CompleteIsExhaustive
    <3>4. QED
      BY <3>1, <3>3
  <2>3. QED
    BY <1>2, <1>3, <2>1, <2>2
<1>5. CASE ExplorationRun
  <2>1. pc = "race" /\ trial.of = Len(log) /\ UNCHANGED trial
    BY <1>1, <1>5 DEF ExplorationRun, ExplorationInv
  <2>2. ASSUME NEW outcome, Logged(trial.of, outcome),
               outcome = "passed" => RanIn(truth, trial.of, "passed"),
               NEW reason, ExplorationEnds(reason)
        PROVE  TrialInv' /\ ExplorationInv'
    BY <1>2, <1>3, <2>1, <2>2, ExplorationLogGrows
  <2>3. ASSUME NEW outcome, Logged(trial.of, outcome),
               outcome = "passed" => RanIn(truth, trial.of, "passed"),
               NEW known \in BOOLEAN, AfterRun(known), known => Quiet
        PROVE  TrialInv' /\ ExplorationInv'
    <3>1. CASE known /\ Goto("next")
      <4>1. IsSeq(log') /\ ExplorationLog(log', truth)
        BY <1>2, <2>1, <2>3, ExplorationLogGrows
      <4>2. TrialInv'
        BY <1>1, <2>1, <2>3, <3>1, <4>1, TrialsUntouched DEF Goto, Awaiting
      <4>3. ExplorationInv'
        BY <1>1, <3>1, <4>1 DEF Goto, ExplorationInv, CompleteIsExhaustive
      <4>4. QED
        BY <4>2, <4>3
    <3>2. CASE \/ ExplorationEnds("evidence_limit") \/ ExplorationEnds("unconfirmed_cleanup")
               \/ ExplorationEnds("time_budget")
      BY <2>2, <2>3, <3>2
    <3>3. QED
      BY <2>3, <3>1, <3>2 DEF AfterRun
  <2>4. CASE trial.is = "rejected" /\ Logged(trial.of, Failed) /\ AfterRun(FALSE)
    BY <2>3, <2>4 DEF Failed
  <2>5. CASE /\ trial.is = "result" /\ Logged(trial.of, category(trial.status, trial.clean))
             /\ AfterRun(trial.status # "unbound" /\ trial.clean)
    <3> DEFINE outcome == category(trial.status, trial.clean)
    <3>1. trial.clean \in BOOLEAN
      BY DEF TrialInv
    <3>2. outcome = "passed" => trial.status = "passed" /\ trial.clean
      BY <3>1 DEF category, Failed
    <3>3. outcome = "passed" => RanIn(truth, trial.of, "passed")
      BY <2>5, <3>2, LatestRan
    <3>4. (trial.status # "unbound" /\ trial.clean) \in BOOLEAN
      BY <3>1
    <3>5. trial.status # "unbound" /\ trial.clean => Quiet
      BY <2>5 DEF Quiet
    <3> HIDE DEF outcome
    <3>6. QED
      BY <2>3, <2>5, <3>3, <3>4, <3>5 DEF outcome
  <2>6. CASE Logged(trial.of, Failed) /\ ExplorationEnds("coverage_limit")
    BY <2>2, <2>6 DEF Failed
  <2>7. QED
    BY <1>5, <2>4, <2>5, <2>6 DEF ExplorationRun
<1>6. QED
  BY <1>4, <1>5 DEF ExplorationNext

-----------------------------------------------------------------------------
(* captureReproduction, preflightReproduction and replayReproduction *)

(* A failure's signature keeps its cleanup, of a mismatch the step, and the *)
(* context where it reads it; its kind can be read back from what the       *)
(* signature calls it.                                                     *)
LEMMA SignatureKeeps ==
    ASSUME NEW r \in SuiteResults, NEW context, NEW s,
           s = signatureFromSuiteResult(r, context), s \notin {Throws, Passed}
    PROVE  /\ s.cleanup = r.cleanup
           /\ r.kind = "mismatch" => s.detail = r.detail
           /\ r.kind \in {"timeout", "codec", "coverage_unmet", "other"} => s.context = context
           /\ \/ r.kind = "mismatch" /\ s.primary = "behavioral_mismatch"
              \/ r.kind = "timeout" /\ s.primary = "timeout"
              \/ r.kind = "codec" /\ s.primary = "codec_error"
              \/ r.kind = "coverage_unmet" /\ s.primary = "coverage_unmet"
              \/ r.kind = "other" /\ s.primary = "execution_error"
              \/ r.kind = "cancellation" /\ s.primary = "cancellation"
              \/ r.kind = "cleanup" /\ s.primary = "none"
<1>1. r.kind \in {"none", "mismatch", "timeout", "codec", "coverage_unmet", "other",
                  "cancellation", "cleanup"}
  BY DEF SuiteResults
<1>2. CASE r.kind = "none"
  BY <1>2 DEF signatureFromSuiteResult
<1>3. CASE r.kind = "mismatch"
  BY <1>3 DEF signatureFromSuiteResult, Signature
<1>4. CASE r.kind = "timeout"
  <2>1. context # "none"
    BY <1>4 DEF signatureFromSuiteResult
  <2>2. s = Signature("timeout", normalizedStage(r.detail), context, r.cleanup)
    BY <1>4, <2>1 DEF signatureFromSuiteResult
  <2>3. QED
    BY <1>4, <2>2 DEF Signature
<1>5. CASE r.kind = "codec"
  BY <1>5 DEF signatureFromSuiteResult, Signature
<1>6. CASE r.kind = "coverage_unmet"
  <2>1. context # "none"
    BY <1>6 DEF signatureFromSuiteResult
  <2>2. s = Signature("coverage_unmet", r.detail, context, r.cleanup)
    BY <1>6, <2>1 DEF signatureFromSuiteResult
  <2>3. QED
    BY <1>6, <2>2 DEF Signature
<1>7. CASE r.kind = "other"
  BY <1>7 DEF signatureFromSuiteResult, Signature
<1>8. CASE r.kind = "cancellation"
  BY <1>8 DEF signatureFromSuiteResult, Signature
<1>9. CASE r.kind = "cleanup"
  BY <1>9 DEF signatureFromSuiteResult, Signature
<1>10. QED
  BY <1>1, <1>2, <1>3, <1>4, <1>5, <1>6, <1>7, <1>8, <1>9

(* Two failures with one signature are of one kind, at one place, with one  *)
(* cleanup, and were normalized in one context if it is read.               *)
LEMMA SignatureTells ==
    ASSUME NEW r \in SuiteResults, NEW f \in SuiteResults, NEW c, NEW d,
           signatureFromSuiteResult(r, c) = signatureFromSuiteResult(f, d),
           signatureFromSuiteResult(f, d) \notin {Throws, Passed}
    PROVE  /\ r.kind = f.kind /\ f.kind # "none" /\ r.cleanup = f.cleanup
           /\ f.kind = "mismatch" => r.detail = f.detail
           /\ f.kind \in {"timeout", "codec", "coverage_unmet", "other"} => c = d
<1> DEFINE s == signatureFromSuiteResult(f, d)
<1>1. /\ s.cleanup = r.cleanup /\ (r.kind = "mismatch" => s.detail = r.detail)
      /\ r.kind \in {"timeout", "codec", "coverage_unmet", "other"} => s.context = c
      /\ \/ r.kind = "mismatch" /\ s.primary = "behavioral_mismatch"
         \/ r.kind = "timeout" /\ s.primary = "timeout"
         \/ r.kind = "codec" /\ s.primary = "codec_error"
         \/ r.kind = "coverage_unmet" /\ s.primary = "coverage_unmet"
         \/ r.kind = "other" /\ s.primary = "execution_error"
         \/ r.kind = "cancellation" /\ s.primary = "cancellation"
         \/ r.kind = "cleanup" /\ s.primary = "none"
  BY SignatureKeeps
<1>2. /\ s.cleanup = f.cleanup /\ (f.kind = "mismatch" => s.detail = f.detail)
      /\ f.kind \in {"timeout", "codec", "coverage_unmet", "other"} => s.context = d
      /\ \/ f.kind = "mismatch" /\ s.primary = "behavioral_mismatch"
         \/ f.kind = "timeout" /\ s.primary = "timeout"
         \/ f.kind = "codec" /\ s.primary = "codec_error"
         \/ f.kind = "coverage_unmet" /\ s.primary = "coverage_unmet"
         \/ f.kind = "other" /\ s.primary = "execution_error"
         \/ f.kind = "cancellation" /\ s.primary = "cancellation"
         \/ f.kind = "cleanup" /\ s.primary = "none"
  BY SignatureKeeps
<1> HIDE DEF s
<1>3. QED
  BY <1>1, <1>2

(* The bytes resolved so far are a number. *)
LEMMA ResolvedType ==
    ASSUME IsSeq(log), \A i \in 1 .. Len(log) : log[i].of \in Nat
    PROVE  Resolved(log) \in Nat
<1> DEFINE n == Len(log)
           height == [i \in 1 .. n |-> log[i].of]
<1>1. n \in Nat /\ \A i \in 1 .. n : height[i] \in Nat
  BY DEF IsSeq
<1>2. IsFiniteSet(UNION {{i} \X (1 .. height[i]) : i \in 1 .. n})
  <2> HIDE DEF height, n
  <2>1. QED
    BY ONLY <1>1, StacksAreFinite
<1>3. {{i} \X (1 .. height[i]) : i \in 1 .. n} = {{i} \X (1 .. log[i].of) : i \in 1 .. n}
  OBVIOUS
<1>4. QED
  BY <1>2, <1>3, FS_CardinalityType DEF Resolved

(* One more capture adds its bytes to the sum. *)
LEMMA ResolvedGrows ==
    ASSUME TrialInv, \A i \in 1 .. Len(log) : log[i].of \in Nat,
           NEW bytes \in Nat, Logged(bytes, "resolved")
    PROVE  Resolved(log') = Resolved(log) + bytes /\ Resolved(log) \in Nat
<1> DEFINE n == Len(log)
           stack(entries, i) == {i} \X (1 .. entries[i].of)
           old == UNION {stack(log, i) : i \in 1 .. n}
           new == {n + 1} \X (1 .. bytes)
<1>1. /\ n \in Nat /\ Len(log') = n + 1 /\ log'[n + 1].of = bytes
      /\ \A i \in 1 .. n : log'[i] = log[i]
  BY LogGrows DEF TrialInv, IsSeq
<1>2. IsFiniteSet(old)
  <2> DEFINE height == [i \in 1 .. n |-> log[i].of]
  <2>1. \A i \in 1 .. n : height[i] \in Nat
    OBVIOUS
  <2>2. IsFiniteSet(UNION {{i} \X (1 .. height[i]) : i \in 1 .. n})
    <3>1. n \in Nat
      BY <1>1
    <3> HIDE DEF height, n
    <3>2. QED
      BY ONLY <2>1, <3>1, StacksAreFinite
  <2>3. {{i} \X (1 .. height[i]) : i \in 1 .. n} = {stack(log, i) : i \in 1 .. n}
    OBVIOUS
  <2>4. QED
    BY <2>2, <2>3
<1>3. IsFiniteSet(new) /\ Cardinality(new) = bytes
  <2>1. IsFiniteSet(1 .. bytes) /\ Cardinality(1 .. bytes) = bytes
    <3>1. 1 \in Int /\ bytes \in Int
      OBVIOUS
    <3>2. QED
      BY <3>1, FS_Interval
  <2>2. IsFiniteSet({n + 1}) /\ Cardinality({n + 1}) = 1
    BY FS_Singleton
  <2>3. IsFiniteSet(new) /\ Cardinality(new) = Cardinality({n + 1}) * Cardinality(1 .. bytes)
    BY <2>1, <2>2, FS_Product
  <2>4. QED
    BY <2>1, <2>2, <2>3
<1>4. UNION {stack(log', i) : i \in 1 .. n + 1} = old \cup new
  <2>1. \A i \in 1 .. n : stack(log', i) = stack(log, i)
    BY <1>1
  <2>2. stack(log', n + 1) = new
    BY <1>1
  <2>3. 1 .. n + 1 = (1 .. n) \cup {n + 1}
    BY <1>1
  <2> HIDE DEF stack, new, n
  <2>4. QED
    BY <2>1, <2>2, <2>3
<1>5. old \cap new = {}
  BY <1>1
<1>6. Resolved(log') = Cardinality(old \cup new) /\ Resolved(log) = Cardinality(old)
  BY <1>1, <1>4 DEF Resolved
<1> HIDE DEF old, new
<1>7. /\ Cardinality(old \cup new) = Cardinality(old) + Cardinality(new) - Cardinality(old \cap new)
      /\ Cardinality(old) \in Nat
  BY <1>2, <1>3, FS_Union, FS_CardinalityType
<1>8. Cardinality(old \cap new) = 0
  BY <1>5, FS_EmptySet
<1>9. QED
  BY <1>3, <1>6, <1>7, <1>8

(* An end that claims no replay *)
LEMMA ReproductionStops ==
    ASSUME TrialInv, ReproductionInv, tool = "reproduce", pc # "done",
           UNCHANGED <<loopVars, truth>>,
           NEW status, status \notin {"reproduced", "not_reproduced"}, NEW code,
           ReproductionEnds(status, code)
    PROVE  TrialInv' /\ ReproductionInv'
<1>1. /\ pc' = "done" /\ report'.status = status /\ UNCHANGED <<tool, subject, trial, log>>
  BY DEF ReproductionEnds, Finish, loopVars
<1>2. TrialInv'
  BY <1>1, TrialsUntouched DEF TrialInv, Awaiting
<1>3. ReproductionInv'
  BY <1>1 DEF ReproductionInv, ReproducedIsEarned
<1>4. QED
  BY <1>2, <1>3

(* A preflight step that goes on *)
LEMMA ReproductionGoesOn ==
    ASSUME TrialInv, ReproductionInv, tool = "reproduce",
           pc \in {"next", "preflight", "evidence", "compatibility"},
           UNCHANGED <<loopVars, truth, trial, started, log>>,
           NEW place \in {"preflight", "evidence", "compatibility", "captures"}, Goto(place),
           Bundle \notin {Throws, Passed}
    PROVE  TrialInv' /\ ReproductionInv'
<1>1. pc' = place /\ UNCHANGED <<tool, subject, report>> /\ report = Nothing /\ log = <<>>
  BY DEF Goto, loopVars, TrialInv, ReproductionInv
<1>2. TrialInv'
  BY <1>1, TrialsUntouched DEF TrialInv, Awaiting
<1>3. Bundle' = Bundle
  BY <1>1 DEF Bundle, signatureFromSuiteResult
<1>4. Resolved(log) = 0 /\ Len(log) = 0
  <2>1. UNION {{i} \X (1 .. log[i].of) : i \in 1 .. Len(log)} = {}
    BY <1>1
  <2>2. QED
    BY <1>1, <2>1, FS_EmptySet DEF Resolved
<1>5. ReproductionInv'
  BY <1>1, <1>3, <1>4, ExternalCapturesAssumption
     DEF ReproductionInv, ReproducedIsEarned, Resolved
<1>6. QED
  BY <1>2, <1>5

(* Capturing, preflighting and replaying keep the invariant. *)
LEMMA ReproductionStep ==
    ASSUME IInv, ReproductionNext
    PROVE  TrialInv' /\ ReproductionInv' /\ UNCHANGED tool /\ tool = "reproduce"
<1> USE DEF IInv
<1>1. /\ tool = "reproduce" /\ UNCHANGED <<tool, subject>> /\ pc # "done" /\ report = Nothing
      /\ UNCHANGED <<loopVars, truth>>
  BY DEF ReproductionNext, captureReproduction, PreflightIdentity, PreflightValidation,
         ResolveCapture, replayReproduction, Compare, loopVars, TrialInv
<1> SUFFICES TrialInv' /\ ReproductionInv'
  BY <1>1
<1>2. ASSUME NEW code, Refuses(code) PROVE TrialInv' /\ ReproductionInv'
  BY <1>1, <1>2, ReproductionStops DEF Refuses
<1>3. ASSUME NEW code, ReproductionEnds("thrown", code) PROVE TrialInv' /\ ReproductionInv'
  BY <1>1, <1>3, ReproductionStops
<1>4. Bundle' = Bundle
  BY <1>1 DEF Bundle, signatureFromSuiteResult
<1>5. CASE captureReproduction
  <2> USE <1>5 DEF captureReproduction
  <2>1. CASE Bundle \in {Throws, Passed}
    <3>1. \E code : ReproductionEnds("thrown", code)
      BY <2>1
    <3>2. QED
      BY <1>3, <3>1
  <2>2. CASE Bundle \notin {Throws, Passed}
    <3>1. IF ~validateReproductionBundle(Bundle) THEN ReproductionEnds("thrown", "invalid")
          ELSE Goto("preflight") /\ UNCHANGED <<trial, started, log>>
      BY <2>2
    <3>2. CASE ~validateReproductionBundle(Bundle)
      BY <1>3, <3>1, <3>2
    <3>3. CASE validateReproductionBundle(Bundle)
      BY <1>1, <2>2, <3>1, <3>3, ReproductionGoesOn
    <3>4. QED
      BY <3>2, <3>3
  <2>3. QED
    BY <2>1, <2>2
<1>6. CASE PreflightIdentity
  <2>1. CASE Goto("evidence") /\ UNCHANGED <<trial, started, log>>
    BY <1>1, <1>6, <2>1, ReproductionGoesOn DEF PreflightIdentity, ReproductionInv
  <2>2. QED
    BY <1>2, <1>6, <2>1 DEF PreflightIdentity
<1>7. CASE PreflightValidation
  <2>1. PICK answer \in boundedValidation :
          CASE answer = "accepted" /\ (pc = "compatibility" \/ ~aborted) ->
                 Goto(IF pc = "evidence" THEN "compatibility" ELSE "captures")
                 /\ UNCHANGED <<trial, started, log>>
            [] answer = "accepted" /\ pc = "evidence" /\ aborted -> Refuses("preflight_cancelled")
            [] answer = "cancelled" -> Refuses("preflight_cancelled")
            [] answer = "timed_out" -> Refuses("preflight_validation_timeout")
            [] OTHER -> Refuses("compatibility_refused")
    BY <1>7 DEF PreflightValidation
  <2>2. CASE answer = "accepted" /\ (pc = "compatibility" \/ ~aborted)
    <3> DEFINE place == IF pc = "evidence" THEN "compatibility" ELSE "captures"
    <3>1. Goto(place) /\ UNCHANGED <<trial, started, log>>
      BY <1>7, <2>1, <2>2 DEF PreflightValidation
    <3>2. place \in {"preflight", "evidence", "compatibility", "captures"}
      OBVIOUS
    <3> HIDE DEF place
    <3>3. QED
      BY <1>1, <1>7, <3>1, <3>2, ReproductionGoesOn DEF PreflightValidation, ReproductionInv
  <2>3. CASE ~(answer = "accepted" /\ (pc = "compatibility" \/ ~aborted))
    <3>1. \E code : Refuses(code)
      <4>1. CASE answer = "accepted" /\ pc = "evidence" /\ aborted
        BY <2>1, <2>3, <4>1
      <4>2. CASE answer = "cancelled"
        BY <2>1, <2>3, <4>2
      <4>3. CASE answer = "timed_out"
        BY <2>1, <2>3, <4>3
      <4>4. CASE answer \notin {"accepted", "cancelled", "timed_out"}
        BY <2>1, <2>3, <4>4
      <4>5. QED
        BY <1>7, <2>3, <4>1, <4>2, <4>3, <4>4 DEF PreflightValidation
    <3>2. QED
      BY <1>2, <3>1
  <2>4. QED
    BY <2>2, <2>3
<1>8. CASE ResolveCapture
  <2>1. pc = "captures" /\ Len(log) < ExternalCaptures
    BY <1>8 DEF ResolveCapture
  <2>2. ASSUME NEW bytes \in Nat, Resolved(log) + bytes <= AggregateBytes,
               Logged(bytes, "resolved"), Goto("captures"), UNCHANGED <<trial, started>>
        PROVE  TrialInv' /\ ReproductionInv'
    <3>1. \A i \in 1 .. Len(log) : log[i].of \in Nat
      BY <1>1 DEF ReproductionInv
    <3>2. Resolved(log') <= AggregateBytes
      BY <2>2, <3>1, ResolvedGrows
    <3>3. /\ IsSeq(log') /\ Len(log') = Len(log) + 1 /\ Len(log) \in Nat
          /\ \A i \in 1 .. Len(log) : log'[i] = log[i]
          /\ log'[Len(log) + 1].of = bytes
      BY <2>2, LogGrows DEF TrialInv, IsSeq
    <3>4. \A i \in 1 .. Len(log') : log'[i].of \in Nat
      BY <3>1, <3>3
    <3>5. Len(log') <= ExternalCaptures
      BY <2>1, <3>3, ExternalCapturesAssumption
    <3>6. pc' = "captures" /\ report' = Nothing
      BY <1>1, <2>2 DEF Goto
    <3>7. TrialInv'
      BY <1>1, <2>1, <2>2, <3>3, <3>6, TrialsUntouched DEF TrialInv, Awaiting
    <3>8. (Resolved(log))' = Resolved(log')
      BY DEF Resolved
    <3>9. ReproductionInv'
      BY <1>1, <1>4, <2>1, <3>2, <3>4, <3>5, <3>6, <3>8
         DEF ReproductionInv, ReproducedIsEarned
    <3>10. QED
      BY <3>7, <3>9
  <2>3. CASE /\ ~aborted
             /\ \E answer \in resolveBounded :
                 CASE answer.is = "timed_out" -> Refuses("external_reference_timeout")
                   [] answer.is = "rejected" -> Refuses("external_reference_unavailable")
                   [] answer.is = "resolved" ->
                        CASE \/ answer.bytes > PerReferenceBytes
                             \/ Resolved(log) + answer.bytes > AggregateBytes ->
                               Refuses("external_reference_too_large")
                          [] /\ answer.bytes <= PerReferenceBytes
                             /\ Resolved(log) + answer.bytes <= AggregateBytes
                             /\ ~answer.exact -> Refuses("external_digest_mismatch")
                          [] OTHER -> /\ Logged(answer.bytes, "resolved") /\ Goto("captures")
                                      /\ UNCHANGED <<trial, started>>
    <3>1. PICK answer \in resolveBounded :
               CASE answer.is = "timed_out" -> Refuses("external_reference_timeout")
                 [] answer.is = "rejected" -> Refuses("external_reference_unavailable")
                 [] answer.is = "resolved" ->
                      CASE \/ answer.bytes > PerReferenceBytes
                           \/ Resolved(log) + answer.bytes > AggregateBytes ->
                             Refuses("external_reference_too_large")
                        [] /\ answer.bytes <= PerReferenceBytes
                           /\ Resolved(log) + answer.bytes <= AggregateBytes
                           /\ ~answer.exact -> Refuses("external_digest_mismatch")
                        [] OTHER -> /\ Logged(answer.bytes, "resolved") /\ Goto("captures")
                                    /\ UNCHANGED <<trial, started>>
      BY <2>3
    <3>2. answer.is \in {"timed_out", "rejected", "resolved"}
      BY <2>3 DEF resolveBounded, Answers
    <3>3. answer.is = "resolved" => answer.bytes \in Nat
      BY ExternalCapturesAssumption DEF resolveBounded, Answers
    <3>4. CASE answer.is = "timed_out"
      BY <1>2, <3>1, <3>4
    <3>5. CASE answer.is = "rejected"
      BY <1>2, <3>1, <3>5
    <3>6. CASE answer.is = "resolved"
      <4>1. CASE CASE \/ answer.bytes > PerReferenceBytes
                      \/ Resolved(log) + answer.bytes > AggregateBytes ->
                             Refuses("external_reference_too_large")
                   [] /\ answer.bytes <= PerReferenceBytes
                      /\ Resolved(log) + answer.bytes <= AggregateBytes
                      /\ ~answer.exact -> Refuses("external_digest_mismatch")
                   [] OTHER -> /\ Logged(answer.bytes, "resolved") /\ Goto("captures")
                               /\ UNCHANGED <<trial, started>>
        <5> DEFINE bytes == answer.bytes
                   large == \/ bytes > PerReferenceBytes
                            \/ Resolved(log) + bytes > AggregateBytes
        <5>1. Resolved(log) \in Nat /\ bytes \in Nat
          BY <1>1, <3>3, <3>6, ResolvedType DEF TrialInv, ReproductionInv
        <5>2. CASE large
          BY <1>2, <4>1, <5>2, <5>1, ExternalCapturesAssumption
        <5>3. CASE ~large /\ ~answer.exact
          BY <1>2, <4>1, <5>3, <5>1, ExternalCapturesAssumption
        <5>4. CASE ~large /\ answer.exact
          <6>1. /\ Logged(bytes, "resolved") /\ Goto("captures")
                /\ UNCHANGED <<trial, started>>
            BY <4>1, <5>4, <5>1, ExternalCapturesAssumption
          <6>2. Resolved(log) + bytes <= AggregateBytes
            BY <5>1, <5>4, ExternalCapturesAssumption
          <6>3. QED
            BY <2>2, <5>1, <6>1, <6>2
        <5>5. QED
          BY <5>2, <5>3, <5>4
      <4>2. QED
        BY <3>1, <3>6, <4>1
    <3>7. QED
      BY <3>2, <3>4, <3>5, <3>6
  <2>4. QED
    BY <1>2, <1>8, <2>3 DEF ResolveCapture
<1>9. CASE replayReproduction
  <2>1. CASE aborted
    BY <1>2, <1>9, <2>1 DEF replayReproduction
  <2>2. CASE ~aborted
    <3>1. /\ StartTrial(1) /\ pc' = "race" /\ UNCHANGED <<report, log>>
          /\ Len(log) = ExternalCaptures /\ pc = "captures"
      BY <1>9, <2>2 DEF replayReproduction, Goto
    <3>2. TrialInv'
      BY <1>1, <3>1, TrialStarts
    <3>3. ReproductionInv'
      BY <1>1, <1>4, <3>1 DEF ReproductionInv, ReproducedIsEarned, Resolved
    <3>4. QED
      BY <3>2, <3>3
  <2>3. QED
    BY <2>1, <2>2
<1>10. CASE Compare
  <2>1. CASE trial.is = "rejected" /\ ReproductionEnds("thrown", "evaluation")
    BY <1>3, <2>1
  <2>2. CASE trial.is = "result"
    <3> DEFINE observed == signatureFromSuiteResult(trial.status, subject.replaying)
    <3>1. (CASE observed = Throws -> ReproductionEnds("thrown", "normalization")
             [] observed = Bundle -> ReproductionEnds("reproduced", "none")
             [] OTHER -> ReproductionEnds("not_reproduced", "none"))
      BY <1>10, <2>2 DEF Compare
    <3>2. /\ Bundle \notin {Throws, Passed} /\ Len(log) = ExternalCaptures
          /\ Resolved(log) <= AggregateBytes /\ subject.first \in SuiteResults
      BY <1>1, <1>10 DEF Compare, ReproductionInv
    <3>3. trial.status \in SuiteResults
      BY <1>1, <2>2 DEF TrialInv, Statuses
    <3>4. ASSUME NEW status, ReproductionEnds(status, "none"),
                 status \in {"reproduced", "not_reproduced"},
                 status = "reproduced" => observed = Bundle,
                 status = "not_reproduced" => observed # Bundle
          PROVE  TrialInv' /\ ReproductionInv'
      <4>1. /\ pc' = "done" /\ report'.status = status /\ UNCHANGED <<trial, log>>
        BY <3>4 DEF ReproductionEnds, Finish
      <4>2. TrialInv'
        BY <1>1, <1>10, <4>1, TrialsUntouched DEF TrialInv, Awaiting
      <4>3. (status = "not_reproduced" /\ subject.replaying = subject.capturing) =>
              trial.status # subject.first
        BY <3>4 DEF Bundle
      <4>4. status = "reproduced" =>
              /\ trial.status.kind = subject.first.kind /\ subject.first.kind # "none"
              /\ trial.status.cleanup = subject.first.cleanup
              /\ subject.first.kind = "mismatch" => trial.status.detail = subject.first.detail
              /\ subject.first.kind \in {"timeout", "codec", "coverage_unmet", "other"} =>
                    subject.replaying = subject.capturing
        BY <3>2, <3>3, <3>4, SignatureTells DEF Bundle
      <4>5. ReproducedIsEarned'
        BY <1>1, <3>2, <4>1, <4>3, <4>4 DEF ReproducedIsEarned, Resolved
      <4>6. \A i \in 1 .. Len(log) : log[i].of \in Nat
        BY <1>1 DEF ReproductionInv
      <4>7. ReproductionInv'
        BY <1>1, <2>2, <3>2, <4>1, <4>5, <4>6 DEF ReproductionInv
      <4>8. QED
        BY <4>2, <4>7
    <3> HIDE DEF observed
    <3>5. CASE observed = Throws
      BY <1>3, <3>1, <3>2, <3>5
    <3>6. CASE observed = Bundle
      BY <3>1, <3>2, <3>4, <3>6
    <3>7. CASE observed # Throws /\ observed # Bundle
      BY <3>1, <3>4, <3>7
    <3>8. QED
      BY <3>5, <3>6, <3>7
  <2>3. QED
    BY <1>10, <2>1, <2>2 DEF Compare
<1>11. QED
  BY <1>5, <1>6, <1>7, <1>8, <1>9, <1>10 DEF ReproductionNext

-----------------------------------------------------------------------------
(* The application's promise and the caller's signal *)

(* A trial that settles is added to the history; nothing else changes. *)
LEMMA Settled ==
    ASSUME TrialInv, TrialSettles(Statuses)
    PROVE  /\ TrialInv' /\ UNCHANGED <<tool, subject, pc, log, report>>
           /\ trial.is = "pending" /\ trial'.is # "pending" /\ trial'.of = trial.of
           /\ pc \in Awaiting \cup {"done"}
           /\ truth' = Append(truth, trial') /\ Len(truth') = Len(truth) + 1
           /\ \A i \in 1 .. Len(truth) : truth'[i] = truth[i]
           /\ DOMAIN truth \subseteq DOMAIN truth' /\ DOMAIN truth = 1 .. Len(truth)
<1> USE DEF TrialSettles
<1>1. /\ UNCHANGED <<tool, subject, pc, log, report>> /\ trial.is = "pending"
      /\ truth' = Append(truth, trial')
  BY DEF loopVars
<1>2. /\ IsSeq(truth') /\ Len(truth') = Len(truth) + 1 /\ Len(truth) \in Nat
      /\ \A i \in 1 .. Len(truth) : truth'[i] = truth[i]
      /\ truth'[Len(truth) + 1] = trial'
  BY <1>1, AppendIsSeq DEF TrialInv, IsSeq
<1>3. /\ trial' = Trial(trial.of, trial'.is, trial'.status, trial'.clean)
      /\ trial'.is \in {"result", "rejected"} /\ trial'.clean \in BOOLEAN
      /\ trial'.is = "result" => trial'.status \in Statuses
  <2>1. CASE trial' = Trial(trial.of, "rejected", Nothing, FALSE)
    BY <2>1 DEF Trial
  <2>2. ASSUME NEW status \in Statuses, NEW clean \in BOOLEAN,
               trial' = Trial(trial.of, "result", status, clean)
        PROVE  /\ trial' = Trial(trial.of, trial'.is, trial'.status, trial'.clean)
               /\ trial'.is = "result" /\ trial'.clean \in BOOLEAN
               /\ trial'.status \in Statuses
    BY <2>2 DEF Trial
  <2>3. QED
    BY <2>1, <2>2
<1>4. trial'.of = trial.of
  BY <1>3 DEF Trial
<1>5. Statuses' = Statuses
  BY <1>1 DEF Statuses
<1>6. pc \in Awaiting \cup {"done"}
  BY <1>1 DEF TrialInv, Quiet
<1>7. TrialInv'
  BY <1>1, <1>2, <1>3, <1>4, <1>5, <1>6 DEF TrialInv
<1>8. DOMAIN truth \subseteq DOMAIN truth' /\ DOMAIN truth = 1 .. Len(truth)
  BY <1>2 DEF TrialInv, IsSeq
<1>9. QED
  BY <1>1, <1>2, <1>3, <1>4, <1>6, <1>7, <1>8

(* Whenever a trial settles, also after the report, what is claimed stays   *)
(* true: claims are about trials that ran, and none is awaited by a verdict *)
(* that counts them.                                                        *)
LEMMA SettlesStep ==
    ASSUME IInv, TrialSettles(Statuses)
    PROVE  IInv'
<1> USE DEF IInv
<1>1. /\ TrialInv' /\ UNCHANGED <<tool, subject, pc, log, report>>
      /\ trial.is = "pending" /\ trial'.is # "pending" /\ trial'.of = trial.of
      /\ pc \in Awaiting \cup {"done"}
      /\ truth' = Append(truth, trial') /\ Len(truth') = Len(truth) + 1
      /\ \A i \in 1 .. Len(truth) : truth'[i] = truth[i]
      /\ DOMAIN truth \subseteq DOMAIN truth' /\ DOMAIN truth = 1 .. Len(truth)
      /\ Len(truth) \in Nat /\ Len(log) \in Nat
  BY Settled DEF TrialInv, IsSeq
<1>2. ASSUME NEW of, NEW status, RanIn(truth, of, status) PROVE RanIn(truth', of, status)
  <2>1. UNCHANGED truth \/ \E t : truth' = Append(truth, t)
    BY <1>1
  <2>2. QED
    BY <1>2, <2>1, RanIsKept
<1>3. StabilityInv'
  <2> SUFFICES ASSUME tool = "stability" PROVE StabilityInv'
    BY <1>1 DEF StabilityInv
  <2>1. report = Nothing \/ report.class \notin {"stable", "not_reproduced", "unstable"}
    BY <1>1 DEF StabilityInv
  <2>2. StabilityIsEarned'
    BY <1>1, <2>1 DEF StabilityIsEarned
  <2>3. ASSUME pc = "race"
        PROVE  /\ Len(truth) = Len(log) /\ Len(log) < AttemptLimit
               /\ \A i \in 1 .. Len(log) :
                     /\ log[i].outcome \in Decided
                     /\ truth[i].is = "result" /\ truth[i].clean
                     /\ truth[i].status = log[i].outcome
    BY <1>1, <2>3 DEF StabilityInv
  <2>4. pc # "next"
    BY <1>1 DEF Awaiting
  <2>5. QED
    BY <1>1, <2>1, <2>2, <2>3, <2>4, AttemptLimitAssumption DEF StabilityInv
<1>4. PrefixInv'
  <2> SUFFICES ASSUME tool = "prefix" PROVE PrefixInv'
    BY <1>1 DEF PrefixInv
  <2>1. PrefixLog(log', truth')
    BY <1>1, <1>2 DEF PrefixInv, PrefixLog
  <2>2. ShortestIsShortest'
    BY <1>1, <1>2 DEF PrefixInv, ShortestIsShortest, RanIn
  <2>3. Candidate' = Candidate
    BY <1>1 DEF Candidate
  <2>4. QED
    BY <1>1, <2>1, <2>2, <2>3 DEF PrefixInv
<1>5. CampaignInv'
  <2> SUFFICES ASSUME tool = "campaign" PROVE CampaignInv'
    BY <1>1 DEF CampaignInv
  <2>1. CampaignLog(log', truth')
    BY <1>1, <1>2 DEF CampaignInv, CampaignLog
  <2>2. AcceptanceIsEarned'
    <3> SUFFICES ASSUME report # Nothing PROVE AcceptanceIsEarned'
      BY <1>1 DEF AcceptanceIsEarned
    <3>1. /\ report.acceptance \in {"met", "unmet"} => RanIn(truth, Correct, "passed")
          /\ report.acceptance = "met" => \A m \in Required : RanIn(truth, m, "mismatch")
          /\ report.acceptance = "unmet" => \E m \in Required : RanIn(truth, m, "passed")
      BY DEF CampaignInv, AcceptanceIsEarned, RanIn
    <3>2. Required' = Required
      BY <1>1 DEF Required
    <3>3. /\ report.acceptance \in {"met", "unmet"} => RanIn(truth', Correct, "passed")
          /\ report.acceptance = "met" => \A m \in Required : RanIn(truth', m, "mismatch")
          /\ report.acceptance = "unmet" => \E m \in Required : RanIn(truth', m, "passed")
      BY <1>2, <3>1
    <3>4. QED
      BY <1>1, <3>2, <3>3 DEF AcceptanceIsEarned, RanIn
  <2>3. QED
    BY <1>1, <1>2, <2>1, <2>2 DEF CampaignInv
<1>6. ASSUME NEW trace
      PROVE  /\ HasTheEdits(trace) => HasTheEdits(trace)'
             /\ Replayable(trace) => Replayable(trace)'
             /\ HasNothingElse(trace) => HasNothingElse(trace)'
  BY <1>1 DEF HasTheEdits, Replayable, HasNothingElse
<1>7. ReducedIsEarned => ReducedIsEarned'
  BY <1>1, <1>6 DEF ReducedIsEarned
<1>8. LeaseInv'
  BY <1>1, <1>6, <1>7 DEF LeaseInv, Replayable, HasTheEdits
<1>9. OracleInv'
  BY <1>1, <1>6, <1>7 DEF OracleInv, HasNothingElse
<1>10. ExplorationInv'
  <2> SUFFICES ASSUME tool = "explore" PROVE ExplorationInv'
    BY <1>1 DEF ExplorationInv
  <2>1. ExplorationLog(log', truth')
    BY <1>1, <1>2 DEF ExplorationInv, ExplorationLog
  <2>2. CompleteIsExhaustive'
    <3> SUFFICES ASSUME report # Nothing, report.complete,
                        NEW s \in Interleavings, NEW input \in 0 .. InputCount - 1,
                        Preemptions(s) <= MaxPreemptions
                 PROVE  \E i \in 1 .. Len(truth') :
                           /\ truth'[i] = Trial(truth'[i].of, "result", "passed", TRUE)
                           /\ Run(truth'[i].of) = [shape |-> s, input |-> input]
      BY <1>1 DEF CompleteIsExhaustive
    <3>1. PICK i \in 1 .. Len(truth) :
             /\ truth[i] = Trial(truth[i].of, "result", "passed", TRUE)
             /\ Run(truth[i].of) = [shape |-> s, input |-> input]
      BY DEF ExplorationInv, CompleteIsExhaustive
    <3>2. i \in 1 .. Len(truth') /\ truth'[i] = truth[i]
      BY <1>1
    <3>3. QED
      BY <3>1, <3>2
  <2>3. QED
    BY <1>1, <2>1, <2>2 DEF ExplorationInv
<1>11. ReproductionInv'
  <2> SUFFICES ASSUME tool = "reproduce" PROVE ReproductionInv'
    BY <1>1 DEF ReproductionInv
  <2>1. ~(report # Nothing /\ report.status \in {"reproduced", "not_reproduced"})
    BY <1>1 DEF ReproductionInv
  <2>2. Bundle' = Bundle /\ (Resolved(log))' = Resolved(log)
    BY <1>1 DEF Bundle, signatureFromSuiteResult, Resolved
  <2>3. QED
    BY <1>1, <2>1, <2>2 DEF ReproductionInv, ReproducedIsEarned
<1>12. QED
  BY <1>1, <1>3, <1>4, <1>5, <1>8, <1>9, <1>10, <1>11

(* The signal only raises a flag. *)
LEMMA AbortsStep ==
    ASSUME IInv, UNCHANGED <<tool, subject, pc, trial, started, truth, log, report>>
    PROVE  IInv'
<1> USE DEF IInv
<1>1. TrialInv'
  BY DEF TrialInv, Quiet, Statuses
<1>2. StabilityInv' /\ PrefixInv' /\ CampaignInv'
  <2>1. StabilityInv'
    BY DEF StabilityInv, StabilityIsEarned
  <2>2. PrefixInv'
    BY DEF PrefixInv, Candidate, ShortestIsShortest
  <2>3. Required' = Required
    BY DEF Required
  <2>4. CampaignInv'
    BY <2>3 DEF CampaignInv, AcceptanceIsEarned
  <2>5. QED
    BY <2>1, <2>2, <2>4
<1>3. LeaseInv' /\ OracleInv'
  BY DEF LeaseInv, OracleInv, Replayable, HasTheEdits, HasNothingElse, ReducedIsEarned
<1>4. ExplorationInv'
  BY DEF ExplorationInv, CompleteIsExhaustive
<1>5. Bundle' = Bundle /\ (Resolved(log))' = Resolved(log)
  BY DEF Bundle, signatureFromSuiteResult, Resolved
<1>6. ReproductionInv'
  BY <1>5 DEF ReproductionInv, ReproducedIsEarned
<1>7. QED
  BY <1>1, <1>2, <1>3, <1>4, <1>6

-----------------------------------------------------------------------------
(* The theorems *)

(* Of the seven parts about one tool, six are about another tool. *)
LEMMA OtherToolsNext ==
    ASSUME UNCHANGED tool
    PROVE  /\ tool # "stability" => StabilityInv'
           /\ tool # "prefix" => PrefixInv'
           /\ tool # "campaign" => CampaignInv'
           /\ tool # "lease" => LeaseInv'
           /\ tool # "oracle" => OracleInv'
           /\ tool # "explore" => ExplorationInv'
           /\ tool # "reproduce" => ReproductionInv'
BY DEF StabilityInv, PrefixInv, CampaignInv, LeaseInv, OracleInv, ExplorationInv,
       ReproductionInv

(* Every step keeps the invariant. *)
LEMMA StepInv == IInv /\ [Next]_vars => IInv'
<1> SUFFICES ASSUME IInv, [Next]_vars PROVE IInv'
  OBVIOUS
<1>1. CASE StabilityNext
  BY <1>1, StabilityStep, OtherToolsNext DEF IInv
<1>2. CASE PrefixNext
  BY <1>2, PrefixStep, OtherToolsNext DEF IInv
<1>3. CASE CampaignNext
  BY <1>3, CampaignStep, OtherToolsNext DEF IInv
<1>4. CASE LeaseNext
  BY <1>4, LeaseStep, OtherToolsNext DEF IInv
<1>5. CASE OracleNext
  BY <1>5, OracleStep, OtherToolsNext DEF IInv
<1>6. CASE ReproductionNext
  BY <1>6, ReproductionStep, OtherToolsNext DEF IInv
<1>7. CASE ExplorationNext
  BY <1>7, ExplorationStep, OtherToolsNext DEF IInv
<1>8. CASE TrialSettles(Statuses)
  BY <1>8, SettlesStep
<1>9. CASE SignalAborts
  BY <1>9, AbortsStep DEF SignalAborts
<1>10. CASE UNCHANGED vars
  BY <1>10, AbortsStep DEF vars
<1>11. QED
  BY <1>1, <1>2, <1>3, <1>4, <1>5, <1>6, <1>7, <1>8, <1>9, <1>10 DEF Next

(* The inductive invariant holds. *)
LEMMA InvHolds == Spec => []IInv
BY InitInv, StepInv, PTL DEF Spec

(* classifyReproductionStability: a verdict counts exactly the trials that  *)
(* ran, all of them settled and cleaned up.                                 *)
THEOREM StabilityVerdictsAreEarned == Spec => []StabilityIsEarned
<1>1. IInv => StabilityIsEarned
  BY DEF IInv, StabilityInv, StabilityIsEarned
<1>2. QED
  BY <1>1, InvHolds, PTL

(* reduceReproductionPrefix: the best prefix really reproduced the failure  *)
(* and, when it is called shortest, every shorter one really did not.       *)
THEOREM ReductionsAreShortest == Spec => []ShortestIsShortest
<1>1. IInv => ShortestIsShortest
  BY DEF IInv, PrefixInv, ShortestIsShortest
<1>2. QED
  BY <1>1, InvHolds, PTL

(* runMutationCampaign: "met" and "unmet" are about evaluations that ran.   *)
THEOREM AcceptancesAreEarned == Spec => []AcceptanceIsEarned
<1>1. IInv => AcceptanceIsEarned
  BY DEF IInv, CampaignInv, AcceptanceIsEarned
<1>2. QED
  BY <1>1, InvHolds, PTL

(* reduceLeaseTrace and its oracle, replayReproduction and                  *)
(* exploreFiniteSchedules: what they claim happened.                        *)
THEOREM EveryClaimIsEarned == Spec => []ClaimsAreEarned
<1>1. IInv => ReducedIsEarned
  BY DEF IInv, LeaseInv, OracleInv, ReducedIsEarned
<1>2. IInv => ReproducedIsEarned
  BY DEF IInv, ReproductionInv, ReproducedIsEarned
<1>3. IInv => CompleteIsExhaustive
  BY DEF IInv, ExplorationInv, CompleteIsExhaustive
<1>4. QED
  BY <1>1, <1>2, <1>3, InvHolds, PTL DEF ClaimsAreEarned

(* A trial is started where none is awaited, and one at a time. *)
LEMMA WhereTrialsStart ==
    ASSUME Next
    PROVE  \/ UNCHANGED started
           \/ started' = started + 1 /\ pc \notin Awaiting \cup {"done"}
<1> USE DEF Awaiting
<1>1. CASE StabilityNext
  BY <1>1 DEF StabilityNext, StabilityAttempt, StabilityRace, StabilitySettlement, StartTrial
<1>2. CASE PrefixNext
  <2>1. CASE PrefixCandidate \/ PrefixRace \/ PrefixSettlement
    BY <2>1 DEF PrefixCandidate, PrefixRace, PrefixSettlement
  <2>2. CASE PrefixValidate
    <3>1. pc = "validate"
      BY <2>2 DEF PrefixValidate
    <3>2. UNCHANGED started \/ started' = started + 1
      BY <2>2 DEF PrefixValidate, StartTrial
    <3>3. QED
      BY <3>1, <3>2
  <2>3. QED
    BY <1>2, <2>1, <2>2 DEF PrefixNext
<1>3. CASE CampaignNext
  <2>1. CASE BaselineRace \/ CampaignLoop \/ MutantRace \/ CampaignSettlement
    BY <2>1 DEF BaselineRace, CampaignLoop, MutantRace, CampaignSettlement
  <2>2. CASE CampaignProtected
    BY <2>2 DEF CampaignProtected, StartTrial
  <2>3. CASE MutantProtected
    <3>1. pc = "protected"
      BY <2>3 DEF MutantProtected
    <3>2. UNCHANGED started \/ started' = started + 1
      BY <2>3 DEF MutantProtected, StartTrial
    <3>3. QED
      BY <3>1, <3>2
  <2>4. QED
    BY <1>3, <2>1, <2>2, <2>3 DEF CampaignNext
<1>4. CASE LeaseNext
  <2>1. CASE Materialize
    BY <2>1 DEF Materialize, LeaseEnds, LeaseUnanswered
  <2>2. CASE Inspect
    BY <2>2 DEF Inspect, LeaseEnds, LeaseUnanswered
  <2>3. CASE Evaluate
    BY <2>3 DEF Evaluate, LeaseEnds, StartTrial
  <2>4. CASE LeaseRace
    BY <2>4 DEF LeaseRace, LeaseEnds, LeaseVerdict
  <2>5. CASE LeaseSettlement
    BY <2>5 DEF LeaseSettlement, LeaseEnds
  <2>6. QED
    BY <1>4, <2>1, <2>2, <2>3, <2>4, <2>5 DEF LeaseNext
<1>5. CASE OracleNext
  BY <1>5 DEF OracleNext, OpenOracle, OracleRace, OracleDeadline, OracleSettles, OracleWrites,
              StartTrial
<1>6. CASE ReproductionNext
  <2> USE DEF Refuses, ReproductionEnds
  <2>1. CASE captureReproduction
    BY <2>1 DEF captureReproduction
  <2>2. CASE PreflightIdentity
    BY <2>2 DEF PreflightIdentity
  <2>3. CASE PreflightValidation
    BY <2>3 DEF PreflightValidation
  <2>4. CASE ResolveCapture
    <3>1. pc = "captures"
      BY <2>4 DEF ResolveCapture
    <3>2. \A answer \in resolveBounded :
             ~aborted => answer.is \in {"timed_out", "rejected", "resolved"}
      BY DEF resolveBounded, Answers
    <3>3. UNCHANGED started
      BY <2>4, <3>2 DEF ResolveCapture
    <3>4. QED
      BY <3>1, <3>3
  <2>5. CASE replayReproduction
    BY <2>5 DEF replayReproduction, StartTrial
  <2>6. CASE Compare
    BY <2>6 DEF Compare
  <2>7. QED
    BY <1>6, <2>1, <2>2, <2>3, <2>4, <2>5, <2>6 DEF ReproductionNext
<1>7. CASE ExplorationNext
  BY <1>7 DEF ExplorationNext, ExplorationHead, ExplorationRun, StartTrial
<1>8. CASE TrialSettles(Statuses) \/ SignalAborts
  BY <1>8 DEF TrialSettles, SignalAborts
<1>9. QED
  BY <1>1, <1>2, <1>3, <1>4, <1>5, <1>6, <1>7, <1>8 DEF Next

(* boundedAttempt, bounded and boundedEvaluation: no tool starts a trial    *)
(* while one that it gave up on may still be running.                       *)
THEOREM NoTrialsOverlap == Spec => TrialsNeverOverlap
<1>1. started \in Nat /\ IInv /\ [Next]_vars =>
        /\ (started \in Nat)'
        /\ [started' > started =>
               trial.is = "none" \/ (trial.is = "result" /\ trial.clean)]_vars
  <2> SUFFICES ASSUME started \in Nat, IInv, [Next]_vars
               PROVE  /\ started' \in Nat
                      /\ started' > started =>
                            trial.is = "none" \/ (trial.is = "result" /\ trial.clean)
    OBVIOUS
  <2>1. CASE Next
    <3>1. \/ UNCHANGED started
          \/ started' = started + 1 /\ pc \notin Awaiting \cup {"done"}
      BY <2>1, WhereTrialsStart
    <3>2. pc \notin Awaiting \cup {"done"} => Quiet
      BY DEF IInv, TrialInv
    <3>3. QED
      BY <3>1, <3>2 DEF Quiet
  <2>2. CASE UNCHANGED vars
    BY <2>2 DEF vars
  <2>3. QED
    BY <2>1, <2>2
<1>2. Init => started \in Nat
  BY DEF Init, TrialInit
<1>3. QED
  BY <1>1, <1>2, InvHolds, PTL DEF Spec, TrialsNeverOverlap
=============================================================================
