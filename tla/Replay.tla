------------------------------- MODULE Replay -------------------------------
(***************************************************************************)
(* The replay of a model's traces against an implementation: the runner of *)
(* src/replay.ts with the transition machine of src/replay-core.ts and the *)
(* cancellation of src/replay-control.ts.                                  *)
(*                                                                         *)
(* The mirror sends a state or a step, the client's computer produces the  *)
(* implementation's state, the runner reports it, and the mirror accepts   *)
(* or rejects it.  Every wait (for a line, for the computer) races against *)
(* one terminal signal, which the owner or a timer may raise at any time.  *)
(*                                                                         *)
(* The mirror is external and may send any message at any time.            *)
(***************************************************************************)
EXTENDS ReplayRecorder, Sequences

CONSTANT MaxMessages    \* bound: messages the runner reads

ASSUME MessageBound == MaxMessages \in Nat

VARIABLES
    timeouts,   \* which of actionTimeoutMs and receiveTimeoutMs are set
    pc,         \* where the runner is
    stage,      \* "registration" until spec_validated, then "replay"
    signal,     \* "active", or the reason the terminal signal was raised
    due,        \* the budget of the current wait has run out
    race,       \* how the current wait's race was decided
    message,    \* the message being handled
    received,   \* how many messages the runner has read
    stream,     \* "up", "ended" or "failed"
    recorder,
    outcome,    \* what the exchange, and at the end the runner, ended with
    report,     \* status of the report returned or attached
    transport,  \* "open", "closing" or "closed"
    late,       \* history: the computer answered after its budget
    log         \* history: what was begun, reported and accepted, in order

control == <<timeouts, signal, due, race>>
runner == <<pc, stage, message, recorder, outcome, report, transport>>
mirror == <<received, stream>>
vars == <<control, runner, mirror, late, log>>

Opening == [step : {"initial_state", "next_step"}, action : Actions]
Other == [step : {"step_ok", "all_steps_done", "step_mismatch", "spec_validated",
                  "error", "undecodable"}, action : {NoAction}]
Messages == Opening \cup Other
NoMessage == [step |-> "none", action |-> NoAction]
EndOfStream == [step |-> "end", action |-> NoAction]

Causes == {"replay_aborted", "action_timeout", "receive_timeout", "RangeError",
           "send_error", "computer_error", "stream_error", "mirror_error",
           "mismatch", "close_error"}

Init ==
    /\ timeouts \in [{"action", "receive"} -> BOOLEAN]
    /\ pc = "start" /\ stage = "registration"
    /\ signal \in {"active", "replay_aborted"}
    /\ due = FALSE /\ race = "open"
    /\ message = NoMessage
    /\ received = 0 /\ stream = "up"
    /\ recorder = NewRecorder
    /\ outcome = "none" /\ report = "none"
    /\ transport = "open"
    /\ late = FALSE /\ log = <<>>

-----------------------------------------------------------------------------
(* Ends of the exchange: the report is built, the control disposed of and  *)
(* the transport closed, all before the next await.                        *)

Ends(result, status) ==
    /\ outcome' = result
    /\ report' = status
    /\ pc' = "closing"
    /\ transport' = "closing"
    /\ race' = "open" /\ due' = FALSE
    /\ UNCHANGED timeouts

Fails(cause) == Ends(cause, "failed")

(* control.run: a raised signal throws, else the wait begins. *)
run(kind) ==
    \/ /\ signal # "active"
       /\ Fails(signal)
    \/ /\ signal = "active"
       /\ pc' = kind
       /\ race' = "open" /\ due' = FALSE
       /\ UNCHANGED <<timeouts, outcome, report, transport>>

-----------------------------------------------------------------------------
(* Starting: the options are checked before there is a report to attach,   *)
(* then the registration line goes out and its answer is awaited.          *)

runReplayExchange ==
    /\ pc = "start"
    /\ \/ Ends("RangeError", "none")
       \/ signal = "active" /\ Fails("send_error")
       \/ run("receive")
    /\ UNCHANGED <<signal, stage, message, mirror, recorder, late, log>>

-----------------------------------------------------------------------------
(* What may decide a race *)

(* Variant with a bug: nobody listens to the signal while waiting. *)
Raise_Unheard(reason) ==
    /\ signal' = IF signal = "active" THEN reason ELSE signal
    /\ UNCHANGED race

(* AbortController.abort: the first reason stays, and rejects the wait. *)
Raise(reason) ==
    /\ signal' = IF signal = "active" THEN reason ELSE signal
    /\ race' = IF signal = "active" /\ race = "open" THEN "terminal" ELSE race

externalAbort ==
    /\ pc \notin {"closing", "settled"}
    /\ signal = "active"
    /\ Raise("replay_aborted")
    /\ UNCHANGED <<timeouts, due, runner, mirror, late, log>>

(* The clock passes the budget of the current wait. *)
Elapse ==
    /\ pc \in {"receive", "action"} /\ timeouts[pc] /\ ~due
    /\ due' = TRUE
    /\ UNCHANGED <<timeouts, signal, race, runner, mirror, late, log>>

(* The timer runs; it is behind any callback of a decided race. *)
expire ==
    /\ pc \in {"receive", "action"} /\ due /\ race = "open"
    /\ Raise(IF pc = "action" THEN "action_timeout" ELSE "receive_timeout")
    /\ UNCHANGED <<timeouts, due, runner, mirror, late, log>>

(* it.next() settles: with the line read next, whether it came before or   *)
(* after next() was called, with the end, or with the framing failure.     *)
LineReceived(m) ==
    /\ pc = "receive" /\ race = "open"
    /\ \/ /\ m \in Messages /\ stream # "failed" /\ received < MaxMessages
          /\ message' = m /\ race' = "value" /\ received' = received + 1
       \/ /\ m = EndOfStream /\ stream = "ended"
          /\ message' = m /\ race' = "value" /\ UNCHANGED received
       \/ /\ m = NoMessage /\ stream = "failed"
          /\ race' = "rejected" /\ UNCHANGED <<message, received>>
    /\ UNCHANGED <<timeouts, signal, due, pc, stage, recorder, outcome, report,
                   transport, stream, late, log>>

(* The computer's promise settles. *)
ComputerSettles ==
    /\ pc = "action" /\ race = "open"
    /\ race' \in {"value", "rejected"}
    /\ late' = (late \/ (due /\ race' = "value"))
    /\ UNCHANGED <<timeouts, signal, due, runner, mirror, log>>

-----------------------------------------------------------------------------
(* control.run continues once the race is decided. *)

(* Variant with a bug: only the timer enforces the budget. *)
OverBudget_TimerOnly == FALSE

OverBudget == due /\ signal = "active"

RunThrows ==
    /\ \/ race = "terminal" /\ Fails(signal) /\ UNCHANGED signal
       \/ /\ race = "rejected"
          /\ Fails(IF pc = "action" THEN "computer_error" ELSE "stream_error")
          /\ UNCHANGED signal
       \/ /\ race = "value" /\ OverBudget
          /\ signal' = IF pc = "action" THEN "action_timeout" ELSE "receive_timeout"
          /\ Fails(signal')
       \/ race = "value" /\ signal # "active" /\ Fails(signal) /\ UNCHANGED signal
    /\ UNCHANGED <<stage, message, recorder, mirror, late, log>>

(* The awaits between run and its caller let a signal through. *)
RunReturns ==
    /\ race = "value" /\ ~OverBudget /\ signal = "active"
    /\ pc' = IF pc = "action" THEN "reporting" ELSE "dispatch"
    /\ UNCHANGED <<control, stage, message, recorder, outcome, report, transport,
                   mirror, late, log>>

Continue ==
    /\ pc \in {"receive", "action"} /\ race # "open"
    /\ RunThrows \/ RunReturns

-----------------------------------------------------------------------------
(* Reporting a state, then waiting for the next message *)

Record(r, l) == recorder' = r /\ log' = l

(* send() throws on a line it refuses, before anything is recorded. *)
SendState(r, l) ==
    \/ /\ run("receive")
       /\ Record(reported(r, message.action), Append(l, "report"))
    \/ /\ Fails("send_error")
       /\ Record(r, l)

reportState ==
    /\ pc = "reporting"
    /\ \/ /\ signal # "active"
          /\ Fails(signal)
          /\ Record(recorder, log)
       \/ /\ signal = "active"
          /\ SendState(recorder, log)
    /\ UNCHANGED <<signal, stage, message, mirror, late>>

-----------------------------------------------------------------------------
(* The transition machine *)

(* requireValidRegistration: nothing but a valid spec starts the replay. *)
Registration ==
    /\ stage = "registration"
    /\ \/ /\ message.step = "spec_validated"
          /\ stage' = "replay"
          /\ run("receive")
       \/ /\ message # EndOfStream
          /\ Fails("mirror_error")
          /\ UNCHANGED stage
    /\ UNCHANGED <<signal, recorder, log>>

(* The computer is called.  It throws, raises the signal, overruns its     *)
(* budget, returns a promise, or returns a state.                          *)
startAction(r, l) ==
    \/ /\ signal # "active"
       /\ Fails(signal)
       /\ Record(r, l) /\ UNCHANGED signal
    \/ /\ signal = "active"
       /\ Fails("computer_error")
       /\ Record(r, l) /\ UNCHANGED signal
    \/ /\ signal = "active"
       /\ \/ signal' = "replay_aborted"
          \/ timeouts["action"] /\ signal' = "action_timeout"
       /\ Fails(signal')
       /\ Record(r, l)
    \/ /\ signal = "active"
       /\ run("action")
       /\ Record(r, l) /\ UNCHANGED signal
    \/ /\ signal = "active"
       /\ SendState(r, l) /\ UNCHANGED signal

InitialState ==
    /\ message.step = "initial_state"
    /\ startAction(begin(recorder, TRUE), Append(log, "initial"))

NextStep ==
    /\ message.step = "next_step"
    /\ startAction(begin(recorder, FALSE), Append(log, "step"))

StepOk ==
    /\ message.step = "step_ok"
    /\ Record(acknowledge(recorder), Append(log, "ok"))
    /\ run("receive")
    /\ UNCHANGED signal

AllStepsDone ==
    /\ message.step = "all_steps_done"
    /\ Record(complete(recorder), Append(log, "done"))
    /\ Ends("passed", "passed")
    /\ UNCHANGED signal

Refusal ==
    /\ message.step \in {"step_mismatch", "spec_validated", "error", "undecodable"}
    /\ Fails(IF message.step = "step_mismatch" THEN "mismatch" ELSE "mirror_error")
    /\ UNCHANGED <<signal, recorder, log>>

StreamIsOver ==
    /\ message = EndOfStream
    /\ Fails("stream_error")
    /\ UNCHANGED <<signal, stage, recorder, log>>

replayCore ==
    /\ stage = "replay"
    /\ InitialState \/ NextStep \/ StepOk \/ AllStepsDone \/ Refusal
    /\ UNCHANGED stage

Dispatch ==
    /\ pc = "dispatch"
    /\ Registration \/ replayCore \/ StreamIsOver
    /\ UNCHANGED <<message, mirror, late>>

-----------------------------------------------------------------------------
(* close() settles.  Its failure is reported only if nothing failed before. *)
runLegacyReplay ==
    /\ pc = "closing"
    /\ transport' = "closed"
    /\ pc' = "settled"
    /\ \/ UNCHANGED <<outcome, report>>
       \/ /\ outcome = "passed"
          /\ outcome' = "close_error" /\ report' = "failed"
    /\ UNCHANGED <<control, stage, message, recorder, mirror, late, log>>

(* The stream ends, keeping the lines it brought, or breaks the framing. *)
StreamStops ==
    /\ stream = "up"
    /\ pc \notin {"closing", "settled"}
    /\ stream' \in {"ended", "failed"}
    /\ UNCHANGED <<control, runner, received, late, log>>

Next ==
    \/ runReplayExchange
    \/ externalAbort
    \/ Elapse
    \/ expire
    \/ \E m \in Messages \cup {NoMessage, EndOfStream} : LineReceived(m)
    \/ ComputerSettles
    \/ Continue
    \/ reportState
    \/ Dispatch
    \/ runLegacyReplay
    \/ StreamStops

Spec == Init /\ [][Next]_vars

(* Due callbacks run, clocks advance and timers fire, and close() settles. *)
(* Neither the mirror nor the computer has to answer, nor a stream to end. *)
Fairness ==
    /\ WF_vars(runReplayExchange) /\ WF_vars(Continue)
    /\ WF_vars(reportState) /\ WF_vars(Dispatch) /\ WF_vars(runLegacyReplay)
    /\ WF_vars(Elapse) /\ WF_vars(expire)

FairSpec == Spec /\ Fairness

-----------------------------------------------------------------------------
(* Properties *)

(* Every variable keeps to its type. *)
TypeOK ==
    /\ timeouts \in [{"action", "receive"} -> BOOLEAN]
    /\ pc \in {"start", "receive", "dispatch", "action", "reporting", "closing",
               "settled"}
    /\ stage \in {"registration", "replay"}
    /\ signal \in {"active", "replay_aborted", "action_timeout", "receive_timeout"}
    /\ due \in BOOLEAN /\ race \in {"open", "terminal", "value", "rejected"}
    /\ message \in Messages \cup {NoMessage, EndOfStream}
    /\ received \in 0..MaxMessages
    /\ stream \in {"up", "ended", "failed"}
    /\ recorder \in Recorders
    /\ outcome \in Causes \cup {"none", "passed"}
    /\ report \in {"none", "passed", "failed"}
    /\ transport \in {"open", "closing", "closed"}
    /\ late \in BOOLEAN
    /\ log \in Seq({"initial", "step", "report", "ok", "done"})

Positions(e) == {i \in 1..Len(log) : log[i] = e}

(* What the mirror accepted: a report that anything was accepted after. *)
AcceptedReports == Positions("report") \ {Len(log)}
AcceptedSteps == {i \in AcceptedReports : log[i - 1] = "step"}

(* The counters of the report, kept up to date message by message, are the *)
(* counts of what happened, whenever and however the replay ends: a state  *)
(* is matched when the mirror went on after it, a step completed when it   *)
(* was not the trace's initial state, a trace when another one began.      *)
ReportTellsWhatHappened ==
    /\ recorder.tracesStarted = Cardinality(Positions("initial"))
    /\ recorder.statesReported = Cardinality(Positions("report"))
    /\ recorder.statesMatched = Cardinality(AcceptedReports)
    /\ recorder.stepsCompleted = Cardinality(AcceptedSteps)
    /\ recorder.tracesCompleted =
         IF Positions("done") # {} \/ recorder.tracesStarted = 0
         THEN recorder.tracesStarted ELSE recorder.tracesStarted - 1

(* The sum of a map's counts: the events it counted, each told apart. *)
Total(m) == Cardinality(UNION {{k} \X (1 .. m[k]) : k \in DOMAIN m})

(* The bounded coverage maps lose nothing silently: what they hold and     *)
(* what they dropped add up to the reports, and to the reports that follow *)
(* another one in the same trace.                                          *)
CoverageAddsUp ==
    /\ Cardinality(Entries(recorder.actions)) <= ACTION_LIMIT
    /\ Cardinality(Entries(recorder.sequences)) <= SEQUENCE_LIMIT
    /\ Total(recorder.actions) + recorder.droppedActionEvents
         = recorder.statesReported
    /\ Total(recorder.sequences) + recorder.droppedSequenceEvents
         = Cardinality({i \in Positions("report") : log[i - 1] = "step"
                          /\ \E j \in Positions("report") :
                               j < i /\ "initial" \notin {log[k] : k \in j..i}})

(* Once the signal is raised, or the computer answered past its budget, no *)
(* state is reported: "a completed over-budget action still must not send  *)
(* a state afterwards".                                                    *)
NoReportAfterTheEnd ==
    [][signal # "active" \/ late
         => recorder'.statesReported = recorder.statesReported]_vars

(* The first failure is what the caller gets: neither a late signal nor a  *)
(* failing close() replaces it, and a passed replay can only turn into a   *)
(* failed close.                                                           *)
FirstFailureWins ==
    [][outcome # "none" => outcome' \in {outcome}
         \cup (IF outcome = "passed" THEN {"close_error"} ELSE {})]_vars

(* A replay passes only if the mirror accepted every state reported, and   *)
(* no exit leaves the transport open.                                      *)
PassedMeansAccepted ==
    pc = "settled" =>
        /\ transport = "closed"
        /\ report = "passed" <=> outcome = "passed"
        /\ outcome = "passed" =>
             /\ recorder.statesMatched = recorder.statesReported
             /\ Positions("done") # {}

(* The report is true, in its counters and in its verdict. *)
ReportIsTrue == ReportTellsWhatHappened /\ PassedMeansAccepted

(* Raising the signal ends the replay, whatever it waits for. *)
AbortSettles == signal # "active" ~> pc = "settled"

(* With both timeouts set a replay ends although the mirror and the        *)
(* computer may fall silent at any point.                                  *)
TimeoutsSettle ==
    timeouts["action"] /\ timeouts["receive"] ~> pc = "settled"

(* A replay ends: once the signal is raised, and with both timeouts set     *)
(* also by itself.                                                          *)
ReplaySettles == AbortSettles /\ TimeoutsSettle
=============================================================================
