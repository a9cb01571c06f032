--------------------------- MODULE LeaseReduction ---------------------------
(***************************************************************************)
(* The lease service's input reduction, src/lease-reduction.ts: a smaller  *)
(* input of a failing trace is materialized, admitted by the model's own   *)
(* oracle, inspected, and replayed once (tool "lease").  The oracle is     *)
(* scripts/materialize-lease-reduction.mjs: it walks the edited trace      *)
(* through an explore session of the original model, against a total       *)
(* budget, and writes a receipt (tool "oracle").                           *)
(***************************************************************************)
EXTENDS BoundedTrial

CONSTANT LeaseTrace     \* the selected trace: its steps, each with its action and inputs
ASSUME LeaseTraceAssumption ==
    LeaseTrace \in Seq([action : {"Acquire", "Renew"}, client : {1, 2}, token : {1, 2}])

(* Every edit sets one input of one step from 2 to 1. *)
LeaseReductionEdits ==
    [stateIndex : 1 .. Len(LeaseTrace) + 1, actionId : {"Acquire", "Renew"},
     inputId : {"client", "token"}]
Candidates == UNION {[1 .. n -> LeaseReductionEdits] : n \in 0 .. 2}

(* What the caller gave the reduction: the application, its policy and      *)
(* authority, whether the bundle is a clean mismatch, stable, and the one   *)
(* the candidate edits, and the candidate.  What the driver read: whether   *)
(* manifest, bundle, tools, model, lock and trace agree with the candidate. *)
LeaseSubjects ==
    [supported : BOOLEAN, authorized : BOOLEAN, eligible : BOOLEAN, edits : Candidates]
OracleSubjects == [agree : BOOLEAN, remote : BOOLEAN, pinned : BOOLEAN, edits : Candidates]

(* A replay matches the bundle, or not (replayResultMatchesBundle). *)
LeaseStatuses == {"matches", "differs"}
OracleStatuses == {"admitted"}

-----------------------------------------------------------------------------
(* The edits *)

supportedEdit(edit) == edit.actionId = "Acquire" => edit.inputId = "client"

validateLeaseReductionCandidate(edits) ==
    /\ edits # <<>>
    /\ \A k \in DOMAIN edits : supportedEdit(edits[k])
    /\ \A j, k \in DOMAIN edits : j # k => edits[j] # edits[k]

Declared(edits) == {<<edits[k].stateIndex, edits[k].inputId>> : k \in DOMAIN edits}

differences(trace) ==
    {at \in (DOMAIN LeaseTrace) \X {"client", "token"} :
        trace[at[1]][at[2]] # LeaseTrace[at[1]][at[2]]}

Edited(edits) ==
    [i \in DOMAIN LeaseTrace |->
        [f \in DOMAIN LeaseTrace[i] |-> IF <<i, f>> \in Declared(edits) THEN 1 ELSE LeaseTrace[i][f]]]

(* It throws unless every edit is of the action and value the trace has,    *)
(* and nothing but what the edits declare has changed.                      *)
materializeLeaseReductionTrace(edits) ==
    /\ validateLeaseReductionCandidate(edits)
    /\ \A k \in DOMAIN edits :
          /\ edits[k].stateIndex \in DOMAIN LeaseTrace
          /\ LeaseTrace[edits[k].stateIndex].action = edits[k].actionId
          /\ LeaseTrace[edits[k].stateIndex][edits[k].inputId] = 2
    /\ differences(Edited(edits)) = Declared(edits)

verifyMaterializedEdits(edits, trace) ==
    \A k \in DOMAIN edits :
       /\ edits[k].stateIndex \in DOMAIN trace
       /\ trace[edits[k].stateIndex].action = edits[k].actionId
       /\ trace[edits[k].stateIndex][edits[k].inputId] = 1

(* What the caller's materialize() may come back with: a trace with any of  *)
(* the inputs, and a receipt the oracle wrote, of this candidate or of      *)
(* another one.  ours |-> its model, interface, original corpus, selected   *)
(* trace, occurrences, profile and tools are those of the candidate and the *)
(* authority.                                                              *)
Receipts ==
    [ours : BOOLEAN, of : {edits \in Candidates : materializeLeaseReductionTrace(edits)}]
LeaseTraces ==
    {[i \in DOMAIN LeaseTrace |->
         [action |-> LeaseTrace[i].action, client |-> inputs[i][1], token |-> inputs[i][2]]] :
       inputs \in [DOMAIN LeaseTrace -> {1, 2} \X {1, 2}]}
MaterializedCandidates == [trace : LeaseTraces, receipt : Receipts]

(* Variant with a bug: the receipt's corpus is not compared with the suite's. *)
receiptMatches_AnyCorpus(given) == given.receipt.ours

(* The receipt's candidate corpus is the one the suite was preflighted      *)
(* with.  Nothing compares the edits the receipt was written for with those *)
(* of this candidate.                                                      *)
receiptMatches(given) ==
    given.receipt.ours /\ given.trace = Edited(given.receipt.of)

-----------------------------------------------------------------------------
(* reduceLeaseServiceInput *)

LeaseEnds(status, reason) ==
    /\ Finish([status |-> status, reason |-> reason])
    /\ UNCHANGED <<trial, started, log>>

(* A wait of the reduction that did not complete *)
LeaseUnanswered(answer) ==
    LeaseEnds(IF answer = "cancelled" THEN "cancelled" ELSE "inconclusive",
              CASE answer = "cancelled" -> "reduction_cancelled"
                [] answer = "timed_out" -> "model_oracle_timeout"
                [] OTHER -> "model_oracle_error")

Materialize ==
    /\ tool = "lease" /\ pc = "next"
    /\ LET valid == subject.authorized /\ validateLeaseReductionCandidate(subject.edits)
       IN  CASE ~subject.supported -> LeaseEnds("reduction_profile_unsupported", "unsupported")
             [] subject.supported /\ ~valid -> LeaseEnds("thrown", "invalid")
             [] subject.supported /\ valid /\ ~subject.eligible ->
                  LeaseEnds("inconclusive", "reduction_not_eligible")
             [] OTHER ->
                  \E answer \in Answers({"materialized"}) :
                     CASE answer # "materialized" -> LeaseUnanswered(answer)
                       [] answer = "materialized" /\ aborted -> LeaseUnanswered("cancelled")
                       [] OTHER -> /\ \E given \in MaterializedCandidates :
                                         Logged(given, "materialized")
                                   /\ Goto("inspect") /\ UNCHANGED <<trial, started>>
    /\ UNCHANGED <<loopVars, truth>>

(* The materialized suite is preflighted, its edits are compared with the   *)
(* candidate's, and its digests with the candidate and the receipt, all of  *)
(* it within what the oracle left of its budget.                            *)
Inspect ==
    /\ tool = "lease" /\ pc = "inspect"
    /\ LET given == log[1].of
           verified == verifyMaterializedEdits(subject.edits, given.trace)
       IN  \/ LeaseEnds("inconclusive", "model_oracle_timeout")
           \/ \E answer \in Answers({"inspected"}) :
                 CASE answer # "inspected" -> LeaseUnanswered(answer)
                   [] answer = "inspected" /\ ~verified -> LeaseUnanswered("rejected")
                   [] OTHER ->
                        \/ LeaseEnds("inconclusive", "model_or_interface_identity_mismatch")
                        \/ /\ ~receiptMatches(given)
                           /\ LeaseEnds("inconclusive", "model_oracle_receipt_mismatch")
                        \/ /\ receiptMatches(given)
                           /\ \/ LeaseEnds("inconclusive", "reduction_total_budget")
                              \/ /\ Logged(given, "inspected") /\ Goto("evaluate")
                                 /\ UNCHANGED <<trial, started>>
    /\ UNCHANGED <<loopVars, truth>>

(* bounded() refuses to start under a signal already raised: nothing will   *)
(* settle, so nothing is confirmed.                                        *)
Evaluate ==
    /\ tool = "lease" /\ pc = "evaluate"
    /\ IF aborted THEN LeaseEnds("cancelled", "cleanup_independence_lost")
       ELSE StartTrial(log[1].of.trace) /\ Goto("race") /\ UNCHANGED log
    /\ UNCHANGED <<loopVars, truth>>

LeaseVerdict ==
    CASE ~trial.clean -> LeaseEnds("inconclusive", "cleanup_independence_lost")
      [] trial.clean /\ trial.status = "matches" -> LeaseEnds("reduced", "none")
      [] OTHER -> LeaseEnds("not_reproduced", "none")

(* A rejected evaluation is not caught: the reduction rejects with it. *)
LeaseRace ==
    /\ tool = "lease" /\ pc = "race"
    /\ \/ RaceEnds("result") /\ LeaseVerdict
       \/ RaceEnds("rejected") /\ LeaseEnds("thrown", "evaluation")
       \/ \E kind \in {"timed_out", "cancelled"} :
             RaceEnds(kind) /\ Goto(kind) /\ UNCHANGED <<trial, started, log>>
    /\ UNCHANGED <<loopVars, truth>>

(* awaitReplayCleanup *)
LeaseSettlement ==
    /\ tool = "lease" /\ pc \in {"timed_out", "cancelled"}
    /\ \E clean \in BOOLEAN :
          /\ SettlementEnds(clean)
          /\ LeaseEnds(IF pc = "cancelled" THEN pc ELSE "inconclusive",
                       CASE ~clean -> "cleanup_independence_lost"
                         [] clean /\ pc = "cancelled" -> "reduction_cancelled"
                         [] OTHER -> "candidate_evaluation_timeout")
    /\ UNCHANGED <<loopVars, truth>>

LeaseNext == Materialize \/ Inspect \/ Evaluate \/ LeaseRace \/ LeaseSettlement

-----------------------------------------------------------------------------
(* The driver's receipt: what it says of the candidate and of the cleanup   *)
Receipt(status, reason, cleanup) ==
    [status |-> status, reason |-> reason, cleanup |-> cleanup]
Fails(reason, cleanup) == Finish(Receipt("inconclusive", reason, cleanup))

(* The inputs are verified, the trace edited, the environment prepared, and *)
(* the transport opened: a remote peer is pinned twice, and closed if it is *)
(* another.                                                                *)
OpenOracle ==
    /\ tool = "oracle" /\ pc = "next" /\ UNCHANGED log
    /\ \/ Fails("model_oracle_error", "not_started") /\ UNCHANGED <<trial, started>>
       \/ /\ subject.agree /\ (subject.remote => subject.pinned)
          /\ materializeLeaseReductionTrace(subject.edits)
          /\ StartTrial(Edited(subject.edits)) /\ Goto("race")
    /\ UNCHANGED <<loopVars, truth>>

(* Promise.race of the exploration and the deadline, and its finally.  An   *)
(* exploration that ended has closed the transport (done); one that failed  *)
(* leaves it to be settled.                                                *)
OracleRace ==
    /\ tool = "oracle" /\ pc = "race"
    /\ \/ trial.is = "result" /\ Logged(1, "confirmed") /\ Goto("verify")
       \/ trial.is = "rejected" /\ Goto("settle") /\ UNCHANGED log
       \/ trial.is = "pending" /\ Goto("deadline") /\ UNCHANGED log
    /\ UNCHANGED <<loopVars, trial, started, truth>>

(* The deadline's callback closes the transport and awaits it; meanwhile    *)
(* the exploration may still end, or fail of that very close: then nothing  *)
(* settles the cleanup and the receipt says "not_started".                  *)
OracleDeadline ==
    /\ tool = "oracle" /\ pc = "deadline"
    /\ \/ trial.is = "result" /\ Logged(1, "confirmed") /\ Goto("verify")
       \/ trial.is = "rejected" /\ Fails("model_oracle_error", "not_started") /\ UNCHANGED log
       \/ \E cleanup \in {"confirmed", "unconfirmed"} :
             Fails("model_oracle_timeout", cleanup) /\ UNCHANGED log
    /\ UNCHANGED <<loopVars, trial, started, truth>>

(* settleOracleCleanup, after a failed exploration: its failure is reported *)
OracleSettles ==
    /\ tool = "oracle" /\ pc = "settle" /\ UNCHANGED log
    /\ \E cleanup \in {"confirmed", "unconfirmed"} : Fails("model_oracle_error", cleanup)
    /\ UNCHANGED <<loopVars, trial, started, truth>>

(* Tools, model and trace are read again; then trace and receipt are        *)
(* written, neither over a file that exists.                               *)
OracleWrites ==
    /\ tool = "oracle" /\ pc = "verify" /\ UNCHANGED log
    /\ \/ Finish(Receipt("model_valid", "none", log[1].outcome))
       \/ Fails("model_oracle_error", log[1].outcome)
    /\ UNCHANGED <<loopVars, trial, started, truth>>

OracleNext == OpenOracle \/ OracleRace \/ OracleDeadline \/ OracleSettles \/ OracleWrites

-----------------------------------------------------------------------------
(* A smaller input: it differs from the original, and wherever it does an   *)
(* input went from 2 to 1.                                                 *)
IsReduction(trace) ==
    differences(trace) # {} /\ \A at \in differences(trace) : trace[at[1]][at[2]] = 1

HasTheEdits(trace) ==
    \A k \in DOMAIN subject.edits : trace[subject.edits[k].stateIndex][subject.edits[k].inputId] = 1

(* "reduced" means that a smaller input, one the oracle admitted, with a 1  *)
(* at every place the candidate names, was replayed, matched the bundle and *)
(* cleaned up.  It may be smaller than the candidate: the receipt of a      *)
(* larger set of edits is taken.  "model_valid" means that the whole of the *)
(* trace with exactly the candidate's edits was admitted and the oracle's   *)
(* transport closed.                                                       *)
ReducedIsEarned ==
    report # Nothing =>
       /\ (tool = "lease" /\ report.status = "reduced") =>
             \E i \in DOMAIN truth :
                /\ IsReduction(truth[i].of) /\ HasTheEdits(truth[i].of)
                /\ truth[i].is = "result" /\ truth[i].status = "matches" /\ truth[i].clean
       /\ (tool = "oracle" /\ report.status = "model_valid") =>
             /\ \E i \in DOMAIN truth :
                   /\ IsReduction(truth[i].of)
                   /\ differences(truth[i].of) = Declared(subject.edits)
                   /\ truth[i].is = "result"
             /\ report.cleanup = "confirmed"
=============================================================================
