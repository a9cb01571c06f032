-------------------------- MODULE ScheduleBinding --------------------------
(***************************************************************************)
(* A scheduled replay: ScheduleBindingSession and replayScheduledTraces of *)
(* src/schedule-binding.ts over the executions of ScheduleExecution.  One  *)
(* operation of the session is under way at a time; dispose() may be       *)
(* called at any moment and waits for it.                                  *)
(***************************************************************************)
EXTENDS ScheduleExecution

CONSTANTS
    MaxInitializations  \* bound: the code's limit is 64

ASSUME BindingAssumption == MaxInitializations \in Nat \ {0}

VARIABLES
    session,    \* the fields of ScheduleBindingSession
    verdict     \* what replayScheduledTraces returned: "none", "passed", "failed"

vars == <<executionVars, session, verdict>>

(* op is the operation under way; initialize() is "finish" while it awaits  *)
(* the prior execution and "start" while it awaits the new one.             *)
Ops == {"none", "finish", "start", "advance", "dispose", "retry"}
Disposals == {"none", "waiting", "running", "ok", "failed"}

SessionInit ==
    session = [op |-> "none", execution |-> FALSE, retained |-> FALSE,
               records |-> <<>>, receiptComplete |-> TRUE, initializations |-> 0,
               closing |-> FALSE, disposal |-> "none"]

Init == ExecutionInit /\ SessionInit /\ verdict = "none"

TypeOK ==
    /\ pc \in {"absent", "factory", "start", "idle", "advance", "cleanup", "teardown"}
    /\ run.outcome \in {"completed", "failed"} /\ run.cleanup \in Cleanups
    /\ run.next \in 0 .. Len(Steps)
    /\ \A a \in Actors : actor[a].phase \in Phases
    /\ session.op \in Ops /\ session.disposal \in Disposals
    /\ session.records \in Seq(BOOLEAN)
    /\ session.initializations \in 0 .. MaxInitializations
    /\ verdict \in {"none", "passed", "failed"}

Disposed == session.disposal \in {"running", "ok", "failed"}
(* A caller that saw a failure only disposes and retries the cleanup. *)
Live == session.op = "none" /\ ~session.closing /\ run.outcome = "completed"

(* `passed` of an execution's receipt *)
ReceiptPassed ==
    run.outcome = "completed" /\ run.scheduleCompleted /\ run.cleanup = "confirmed"

(* retain(): once per execution; past the byte bound an error row is kept *)
Retained(s, fits) ==
    IF ~s.execution \/ s.retained THEN s
    ELSE [s EXCEPT !.retained = TRUE, !.receiptComplete = @ /\ fits,
                   !.records = Append(@, fits /\ ReceiptPassed)]

FullyCompleted(s) ==
    /\ s.disposal = "ok" /\ s.initializations > 0 /\ s.receiptComplete
    /\ s.records # <<>> /\ \A i \in 1 .. Len(s.records) : s.records[i]

Idle == UNCHANGED <<pc, run, worker>>

-----------------------------------------------------------------------------
(* initialize() *)

StartExecution(s) ==
    /\ session' = [s EXCEPT !.op = "start", !.initializations = @ + 1,
                            !.retained = FALSE, !.execution = FALSE]
    /\ StartCall

InitializeCall ==
    /\ Live /\ session.initializations < MaxInitializations
    /\ IF session.execution
       THEN /\ session' = [session EXCEPT !.op = "finish"]
            /\ FinishCall /\ UNCHANGED <<actor, cancelled, teardowns>>
       ELSE StartExecution(session)
    /\ UNCHANGED verdict

FinishReturns ==
    /\ session.op = "finish" /\ pc = "idle"
    /\ \E fits \in BOOLEAN :
          LET s == Retained(session, fits)
          IN  IF ReceiptPassed /\ s.receiptComplete
              THEN StartExecution(s)
              ELSE session' = [s EXCEPT !.op = "none"] /\ UNCHANGED executionVars
    /\ UNCHANGED verdict

-----------------------------------------------------------------------------
(* advance(), the return of start() and advance(), and the caller's abort *)

AdvanceBinding ==
    /\ Live /\ session.execution
    /\ \E expected \in BOOLEAN : AdvanceCall(expected)
    /\ session' = [session EXCEPT !.op = "advance"] /\ UNCHANGED verdict

OperationReturns ==
    /\ session.op \in {"start", "advance"} /\ pc = "idle"
    /\ session' = [session EXCEPT !.op = "none", !.execution = TRUE]
    /\ UNCHANGED <<executionVars, verdict>>

(* After a failure no execution starts again, and an abort changes nothing. *)
CallerAborts ==
    /\ ~cancelled /\ ~Disposed /\ run.outcome = "completed" /\ Abort
    /\ UNCHANGED <<pc, actor, teardowns, session, verdict>>

-----------------------------------------------------------------------------
(* dispose() and retryCleanup() *)

DisposeCall ==
    /\ session.disposal = "none"
    /\ session' = [session EXCEPT !.closing = TRUE, !.disposal = "waiting"]
    /\ Abort /\ UNCHANGED <<pc, actor, teardowns, verdict>>

DisposeRuns ==
    /\ session.disposal = "waiting" /\ session.op = "none"
    /\ IF session.execution
       THEN /\ session' = [session EXCEPT !.op = "dispose", !.disposal = "running"]
            /\ (IF run.scheduleCompleted THEN FinishCall ELSE CleanupCall)
       ELSE session' = [session EXCEPT !.disposal = "ok"] /\ Idle
    /\ UNCHANGED <<actor, cancelled, teardowns, verdict>>

DisposeReturns ==
    /\ session.op = "dispose" /\ pc = "idle"
    /\ \E fits \in BOOLEAN :
          LET s == Retained(session, fits)
          IN  session' = [s EXCEPT !.op = "none",
                            !.disposal = IF run.cleanup = "confirmed" /\ s.receiptComplete
                                         THEN "ok" ELSE "failed"]
    /\ UNCHANGED <<executionVars, verdict>>

RetryCall ==
    /\ session.op = "none" /\ session.disposal \in {"ok", "failed"} /\ session.execution
    /\ verdict = "none" /\ ~run.closed
    /\ session' = [session EXCEPT !.op = "retry"]
    /\ CleanupCall /\ UNCHANGED <<actor, cancelled, teardowns, verdict>>

(* A confirmed retry replaces the receipt retained last. *)
RetryReturns ==
    /\ session.op = "retry" /\ pc = "idle"
    /\ \E fits \in BOOLEAN :
          session' = [session EXCEPT !.op = "none",
             !.receiptComplete = @ /\ (fits \/ run.cleanup # "confirmed"),
             !.records = IF run.cleanup = "confirmed" /\ session.retained /\ fits
                         THEN [@ EXCEPT ![Len(@)] = ReceiptPassed] ELSE @]
    /\ UNCHANGED <<executionVars, verdict>>

(* replayScheduledTraces returns after the runner disposed the binding: a   *)
(* failed client, or a peer that did not end with all_steps_done, never     *)
(* passes.                                                                 *)
ReplayReturns ==
    /\ session.disposal \in {"ok", "failed"} /\ session.op = "none" /\ verdict = "none"
    /\ \E failed \in BOOLEAN, terminal \in {"", "step_mismatch", "all_steps_done"} :
          verdict' = IF ~failed /\ terminal = "all_steps_done" /\ FullyCompleted(session)
                     THEN "passed" ELSE "failed"
    /\ UNCHANGED <<executionVars, session>>

SessionStep ==
    \/ FinishReturns \/ OperationReturns \/ DisposeRuns \/ DisposeReturns \/ RetryReturns

Next ==
    \/ ExecutionNext /\ UNCHANGED <<session, verdict>>
    \/ InitializeCall \/ AdvanceBinding \/ CallerAborts \/ DisposeCall \/ RetryCall
    \/ SessionStep \/ ReplayReturns

Spec == Init /\ [][Next]_vars

(* Timers fire, callbacks of the program settle and the event loop turns.   *)
(* The workers' application code owes nothing: it may hang.                 *)
Fairness ==
    /\ WF_vars(ControllerStep /\ UNCHANGED <<session, verdict>>)
    /\ WF_vars(SessionStep)

FairSpec == Spec /\ Fairness

-----------------------------------------------------------------------------
(* A replay that passed really ran: every worker of its last execution      *)
(* reached the end of its application code uncancelled and has exited, and  *)
(* over all its executions each left one record and was torn down once      *)
(* (replayScheduledTraces, fullyCompleted).                                 *)
PassedReplayRan ==
    verdict = "passed" =>
        /\ \A a \in Actors : worker[a].at = "exited" /\ worker[a].ran
        /\ Len(session.records) = session.initializations
        /\ teardowns = session.initializations

(* A program is torn down, and a new execution begins, only when no thread  *)
(* of the execution runs and none of its requests is open.                  *)
NothingOutlivesItsExecution ==
    [][(teardowns' > teardowns \/ (pc' # pc /\ pc' = "factory"))
          => Pending = {} /\ \A a \in Actors : Gone(worker[a])]_vars

(* dispose() settles whatever the workers do: it waits for the operation    *)
(* under way, whose waits all end by a deadline.                            *)
DisposeSettles ==
    session.disposal = "waiting" ~> session.disposal \in {"ok", "failed"}
=============================================================================
