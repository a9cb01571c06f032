---------------------------- MODULE BoundedTrial ----------------------------
(***************************************************************************)
(* What the experiment tools of the package share: a loop that runs one    *)
(* trial of application code at a time, waits for it until a budget or the *)
(* caller's signal ends the wait (boundedAttempt, bounded and              *)
(* boundedEvaluation), and then, when the trial was abandoned, waits a     *)
(* second, shorter time for it to settle and say how its cleanup went      *)
(* (awaitCleanupSettlement and its likes).                                 *)
(*                                                                         *)
(* A trial settles at any time or never.  Budgets are not counted: every   *)
(* look at a clock may find the time used up.                              *)
(***************************************************************************)
EXTENDS Naturals, Sequences, FiniteSets

CONSTANT Nothing    \* no report, input or status yet

VARIABLES
    tool,       \* the experiment: chosen at first, never changed
    subject,    \* what the experiment was given
    pc,         \* where it waits
    aborted,    \* the caller's signal has been raised
    trial,      \* the promise of the latest trial
    started,    \* history: how many trials were started
    truth,      \* history: what every trial that settled really did
    log,        \* the attempts, candidates, cases or runs reported
    report      \* the result returned

vars == <<tool, subject, pc, aborted, trial, started, truth, log, report>>
loopVars == <<tool, subject, aborted>>

(* A trial of some input: its status is what the tool reads off its result, *)
(* clean says whether its cleanup was confirmed.                            *)
Trial(of, is, status, clean) == [of |-> of, is |-> is, status |-> status, clean |-> clean]
NoTrial == Trial(Nothing, "none", Nothing, TRUE)

TrialInit ==
    /\ pc = "next" /\ aborted = FALSE /\ trial = NoTrial
    /\ started = 0 /\ truth = <<>> /\ log = <<>> /\ report = Nothing

StartTrial(of) ==
    /\ trial' = Trial(of, "pending", Nothing, FALSE)
    /\ started' = started + 1

(* The application's promise: Statuses are the tool's *)
TrialSettles(Statuses) ==
    /\ trial.is = "pending"
    /\ \/ trial' = Trial(trial.of, "rejected", Nothing, FALSE)
       \/ \E s \in Statuses, clean \in BOOLEAN :
             trial' = Trial(trial.of, "result", s, clean)
    /\ truth' = Append(truth, trial')
    /\ UNCHANGED <<loopVars, pc, started, log, report>>

SignalAborts ==
    /\ ~aborted /\ report = Nothing /\ aborted' = TRUE
    /\ UNCHANGED <<tool, subject, pc, trial, started, truth, log, report>>

(* Promise.race of the trial, the budget's timer and the signal *)
RaceEnds(kind) ==
    \/ kind \in {"result", "rejected"} /\ trial.is = kind
    \/ kind = "timed_out" /\ trial.is = "pending"
    \/ kind = "cancelled" /\ trial.is = "pending" /\ aborted

(* The wait for an abandoned trial: what it says of its cleanup, or, when   *)
(* it rejects or the cleanup timer fires, nothing confirmed.                *)
SettlementEnds(clean) ==
    \/ trial.is = "result" /\ clean = trial.clean
    \/ trial.is \in {"pending", "rejected"} /\ ~clean

(* The other callbacks a tool awaits within a budget (validation, identity  *)
(* observation, resolvers, the model oracle): what they answered, or that   *)
(* they did not in time.                                                   *)
Answers(kinds) ==
    kinds \cup {"rejected", "timed_out"} \cup (IF aborted THEN {"cancelled"} ELSE {})

Goto(place) == pc' = place /\ report' = report
Finish(result) == pc' = "done" /\ report' = result
Logged(of, outcome) == log' = Append(log, [of |-> of, outcome |-> outcome])

-----------------------------------------------------------------------------
(* A trial starts only after the one before it has settled with confirmed   *)
(* cleanup: a trial that was abandoned may still run, and would spoil the   *)
(* next one (the independence every one of the reports relies on).          *)
TrialsNeverOverlap ==
    [][started' > started =>
          trial.is = "none" \/ (trial.is = "result" /\ trial.clean)]_vars
=============================================================================
