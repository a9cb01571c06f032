------------------------- MODULE ScheduleExecution -------------------------
(***************************************************************************)
(* The checkpoint scheduler: ScheduleExecution of src/schedule.ts, the     *)
(* controller in the main thread, with the bootstrap of                    *)
(* src/schedule-worker.ts in every worker thread.                          *)
(*                                                                         *)
(* Controller and worker talk over a MessagePort, first in first out each  *)
(* way; the exit of a worker is an event of its own and may overtake what  *)
(* the port still holds.  The application code of a worker arrives at any  *)
(* checkpoint, asks, finishes, fails or hangs.  A wait of the controller   *)
(* (waitUntil) is re-evaluated after every event: a wake-up is left out,   *)
(* and events may come between the one that ends a wait and its resumption.*)
(* The execution deadline may have passed whenever the code looks at it;   *)
(* the first look that finds it passed stops the run.                      *)
(***************************************************************************)
EXTENDS Naturals, Sequences, FiniteSets

CONSTANTS
    Actors,         \* the declared actors, one worker each
    Checkpoints,    \* the declared checkpoint vocabulary
    Undeclared,     \* a checkpoint outside of it
    Askers,         \* bound: the actors whose application code makes requests
    Steps           \* the admitted schedule: a sequence of [actor, checkpoint]

Start == "$start"
Completion == "$done"

ASSUME ScheduleAssumption ==
    /\ Actors # {} /\ Askers \subseteq Actors
    /\ {Start, Completion, Undeclared} \cap Checkpoints = {}
    /\ Steps \in Seq([actor : Actors, checkpoint : Checkpoints \cup {Completion}])
    \* admit: every actor completes, and has no step after that
    /\ \A a \in Actors : \E i \in 1 .. Len(Steps) :
          /\ Steps[i] = [actor |-> a, checkpoint |-> Completion]
          /\ \A j \in i + 1 .. Len(Steps) : Steps[j].actor # a

VARIABLES
    pc,         \* where the pending method of the execution waits
    run,        \* the controller's own state and its report
    actor,      \* the controller's Actor record of every actor
    worker,     \* the worker threads and their ports
    cancelled,  \* the signal given to start() has aborted
    teardowns   \* history: how often a program was torn down

executionVars == <<pc, run, actor, worker, cancelled, teardowns>>

Failures == {"invalid_schedule", "incompatible_identity", "cancelled", "timed_out",
             "unexpected_checkpoint", "uncontrolled_actor", "application_failed",
             "observation_failed", "resource_failed"}
Cleanups == {"not_started", "confirmed", "incomplete", "teardown_failed"}
Phases == {"starting", "parked", "running", "finishing", "finished"}

FreshRun == [outcome |-> "completed", stopped |-> FALSE, closed |-> FALSE,
             program |-> FALSE, scheduleCompleted |-> FALSE,
             cleanup |-> "not_started", next |-> 0]
FreshActor == [phase |-> "starting", checkpoint |-> Start, exited |-> FALSE,
               reportedFinish |-> FALSE, requestPending |-> FALSE]
NoWorker == [at |-> "none", aborted |-> FALSE, ran |-> FALSE, code |-> 0,
             inbox |-> <<>>, outbox |-> <<>>]
FreshWorker == [NoWorker EXCEPT !.at = "boot"]

ExecutionInit ==
    /\ pc = "absent" /\ run = FreshRun /\ cancelled = FALSE
    /\ actor = [a \in Actors |-> FreshActor]
    /\ worker = [a \in Actors |-> NoWorker]
    /\ teardowns = 0

-----------------------------------------------------------------------------
(* Ports, failure and quiescence *)

Gone(w) == w.at \in {"none", "exited"}

Message(kind, c) == [kind |-> kind, checkpoint |-> c]

(* postMessage to a worker; cancel is idempotent, so one in a row stands    *)
(* for several.                                                            *)
Posted(w, kind) ==
    IF Gone(w) \/ (kind = "cancel" /\ w.inbox # <<>> /\ w.inbox[Len(w.inbox)] = kind)
    THEN w
    ELSE [w EXCEPT !.inbox = Append(@, kind)]

CancelAll(ws) == [a \in Actors |-> Posted(ws[a], "cancel")]

(* fail(): the controller stops.  The report names the first failure; the   *)
(* model keeps only that there was one.                                    *)
Failed(r, outcome) ==
    [r EXCEPT !.outcome = IF outcome \in Failures THEN "failed" ELSE @, !.stopped = TRUE]

fail(outcome) == run' = Failed(run, outcome) /\ worker' = CancelAll(worker)

Step == Steps[run.next + 1]
Pending == {a \in Actors : actor[a].requestPending}
Quiescent ==
    Pending = {} /\ \A a \in Actors : actor[a].phase \in {"parked", "finished"}

(* observe(): the application's observe() may throw, overrun the deadline   *)
(* or exceed the evidence bound.                                           *)
Observed(r) ==
    IF r.stopped THEN {r}
    ELSE IF ~Quiescent THEN {Failed(r, "observation_failed")}
    ELSE {r} \cup {Failed(r, o) : o \in {"observation_failed", "timed_out"}}

-----------------------------------------------------------------------------
(* cleanupInternal *)

(* Its synchronous part, from the controller state r *)
BeginCleanup(r) ==
    IF r.closed
    THEN pc' = "idle" /\ run' = r /\ UNCHANGED worker
    ELSE /\ pc' = "cleanup"
         /\ run' = [(IF r.scheduleCompleted THEN r ELSE Failed(r, "cancelled"))
                      EXCEPT !.stopped = TRUE]
         /\ worker' = CancelAll(worker)

(* Variant with a bug: pending requests are not waited for. *)
Remaining_WorkersOnly ==
    {a \in Actors : worker[a].at # "none" /\ ~actor[a].exited}

Remaining ==
    {a \in Actors : (worker[a].at # "none" /\ ~actor[a].exited) \/ actor[a].requestPending}

(* Variant with a bug: the wait has no timer. *)
CleanupWaitEnds_NoTimer ==
    /\ pc = "cleanup" /\ Remaining = {}
    /\ pc' = IF run.program THEN "teardown" ELSE "idle"
    /\ run' = [run EXCEPT !.closed = TRUE]
    /\ UNCHANGED <<actor, worker, cancelled, teardowns>>

(* The wait ends when nothing remains, or with the cleanup timer. *)
CleanupWaitEnds ==
    /\ pc = "cleanup"
    /\ IF Remaining # {}
       THEN pc' = "idle" /\ run' = [run EXCEPT !.cleanup = "incomplete"]
       ELSE /\ pc' = IF run.program THEN "teardown" ELSE "idle"
            /\ run' = [run EXCEPT !.closed = TRUE,
                                  !.cleanup = IF run.program THEN @ ELSE "not_started"]
    /\ UNCHANGED <<actor, worker, cancelled, teardowns>>

TeardownSettles ==
    /\ pc = "teardown" /\ pc' = "idle"
    /\ \E c \in {"confirmed", "teardown_failed"} : run' = [run EXCEPT !.cleanup = c]
    /\ teardowns' = teardowns + 1
    /\ UNCHANGED <<actor, worker, cancelled>>

-----------------------------------------------------------------------------
(* start() *)

StartCall ==
    /\ actor' = [a \in Actors |-> FreshActor]
    /\ worker' = [a \in Actors |-> NoWorker]
    /\ \/ /\ \E o \in {"invalid_schedule", "incompatible_identity"} \cup
                      (IF cancelled THEN {"cancelled"} ELSE {}) :
                run' = [Failed(FreshRun, o) EXCEPT !.closed = TRUE]
          /\ pc' = "idle"
       \/ ~cancelled /\ run' = FreshRun /\ pc' = "factory"
    /\ UNCHANGED <<cancelled, teardowns>>

(* The factory throws, or returns a program; a program that is not one, and *)
(* a worker that cannot be made, stop the run but leave what was made.      *)
FactorySettles ==
    /\ pc = "factory"
    /\ \/ /\ run' = [Failed(run, "application_failed") EXCEPT !.closed = TRUE]
          /\ pc' = "idle" /\ UNCHANGED worker
       \/ /\ \E p \in BOOLEAN :
                run' = [Failed(run, "application_failed") EXCEPT !.program = p]
          /\ pc' = "start" /\ UNCHANGED worker
       \/ /\ \E made \in SUBSET Actors :
                LET ws == [a \in Actors |-> IF a \in made THEN FreshWorker ELSE NoWorker]
                    r  == [run EXCEPT !.program = TRUE]
                IN  IF made = Actors
                    THEN run' = r /\ worker' = ws
                    ELSE run' = Failed(r, "resource_failed") /\ worker' = CancelAll(ws)
          /\ pc' = "start"
    /\ UNCHANGED <<actor, cancelled, teardowns>>

StartWaitEnds ==
    /\ pc = "start"
    /\ \/ run.stopped /\ BeginCleanup(run)
       \/ ~run.stopped /\ BeginCleanup(Failed(run, "timed_out"))
       \/ /\ ~run.stopped
          /\ \A a \in Actors : actor[a].phase = "parked"
          /\ \E r \in Observed(run) :
                IF r.stopped THEN BeginCleanup(r)
                ELSE pc' = "idle" /\ run' = r /\ UNCHANGED worker
    /\ UNCHANGED <<actor, cancelled, teardowns>>

-----------------------------------------------------------------------------
(* advance(): one worker is permitted, and its interval awaited *)

AdvanceCall(expected) ==
    /\ pc = "idle" /\ ~run.closed /\ ~run.stopped
    /\ \/ /\ \/ BeginCleanup(Failed(run, "timed_out"))
             \/ ~expected /\ BeginCleanup(Failed(run, "invalid_schedule"))
          /\ UNCHANGED actor
       \/ /\ expected
          /\ IF actor[Step.actor].phase # "parked"
             THEN BeginCleanup(Failed(run, "unexpected_checkpoint")) /\ UNCHANGED actor
             ELSE \/ BeginCleanup(Failed(run, "resource_failed")) /\ UNCHANGED actor
                  \/ /\ actor' = [actor EXCEPT ![Step.actor].phase = "running"]
                     /\ worker' = [worker EXCEPT ![Step.actor] = Posted(@, "permit")]
                     /\ pc' = "advance" /\ UNCHANGED run
    /\ UNCHANGED <<cancelled, teardowns>>

(* The permitted worker is parked again, or has really exited. *)
AdvanceArrived == actor[Step.actor].phase \in {"parked", "finished"}

(* The interval is over: the next step is due, and the state is observed. *)
StepDone ==
    LET ended == [run EXCEPT !.next = @ + 1]
    IN  \E r \in Observed(ended) :
           LET s == [r EXCEPT !.scheduleCompleted = ~r.stopped /\ r.next = Len(Steps)]
           IN  IF s.stopped \/ s.scheduleCompleted THEN BeginCleanup(s)
               ELSE pc' = "idle" /\ run' = s /\ UNCHANGED worker

AdvanceWaitEnds ==
    /\ pc = "advance"
    /\ \/ run.stopped /\ BeginCleanup(run)
       \/ ~run.stopped /\ BeginCleanup(Failed(run, "timed_out"))
       \/ /\ ~run.stopped /\ AdvanceArrived
          /\ \/ BeginCleanup(Failed(run, "resource_failed"))
             \/ /\ actor[Step.actor].checkpoint # Step.checkpoint
                /\ BeginCleanup(Failed(run, "unexpected_checkpoint"))
             \/ actor[Step.actor].checkpoint = Step.checkpoint /\ StepDone
    /\ UNCHANGED <<actor, cancelled, teardowns>>

(* finish() and cleanup() *)
FinishCall ==
    BeginCleanup(IF run.closed \/ run.next = Len(Steps) THEN run
                 ELSE Failed(run, "invalid_schedule"))

CleanupCall == BeginCleanup(run)

-----------------------------------------------------------------------------
(* Events of the main thread *)

(* The signal aborts: onAbort, unless the execution has closed *)
Abort ==
    /\ cancelled' = TRUE
    /\ IF pc # "absent" /\ ~run.closed THEN fail("cancelled") ELSE UNCHANGED <<run, worker>>

(* Variant with a bug: the completion message finishes the actor. *)
Completed_BeforeExit(r) ==
    [r EXCEPT !.phase = "finished", !.checkpoint = Completion, !.reportedFinish = TRUE]

(* A completion message: the actor is finished only once its worker exits *)
Completed(r) ==
    [r EXCEPT !.phase = "finishing", !.checkpoint = Completion, !.reportedFinish = TRUE]

(* message(): the handler of what a worker posted *)
Handle(a, m, ws) ==
    LET Fails(o) == run' = Failed(run, o) /\ worker' = CancelAll(ws) /\ UNCHANGED actor
        Owned == actor[a].phase = "running" /\ ~actor[a].requestPending
        Ignored == UNCHANGED <<run, actor>> /\ worker' = ws
    IN  \/ /\ m.kind = "ready"
           /\ IF actor[a].phase # "starting" THEN Fails("application_failed")
              ELSE /\ actor' = [actor EXCEPT ![a].phase = "parked"]
                   /\ worker' = ws /\ UNCHANGED run
        \/ /\ m.kind = "arrival"
           /\ IF run.stopped THEN Ignored
              ELSE IF ~Owned THEN Fails("uncontrolled_actor")
              ELSE IF m.checkpoint \notin Checkpoints THEN Fails("unexpected_checkpoint")
              ELSE /\ actor' = [actor EXCEPT ![a].phase = "parked",
                                             ![a].checkpoint = m.checkpoint]
                   /\ worker' = ws /\ UNCHANGED run
        \/ /\ m.kind = "finished"
           /\ IF ~run.stopped /\ ~Owned THEN Fails("application_failed")
              ELSE /\ actor' = [actor EXCEPT ![a] = Completed(@)]
                   /\ worker' = [ws EXCEPT ![a] = Posted(@, "completion-ack")]
                   /\ UNCHANGED run
        \/ /\ m.kind = "failure"
           /\ IF run.stopped THEN Ignored ELSE Fails("application_failed")
        \/ /\ m.kind = "request"
           /\ IF run.stopped THEN Ignored
              ELSE \/ Fails("application_failed")
                   \/ /\ Owned
                      /\ actor' = [actor EXCEPT ![a].requestPending = TRUE]
                      /\ worker' = ws /\ UNCHANGED run

MessageArrives(a) ==
    /\ worker[a].outbox # <<>> /\ ~actor[a].exited
    /\ Handle(a, Head(worker[a].outbox), [worker EXCEPT ![a].outbox = Tail(@)])
    /\ UNCHANGED <<pc, cancelled, teardowns>>

(* The program's request() settles: answered unless the run has stopped. *)
RequestSettles(a) ==
    /\ actor[a].requestPending
    /\ actor' = [actor EXCEPT ![a].requestPending = FALSE]
    /\ LET answered == [worker EXCEPT ![a] = Posted(@, "reply")]
       IN  IF run.stopped THEN UNCHANGED <<run, worker>>
           ELSE \/ worker' = answered /\ UNCHANGED run
                \/ run' = Failed(run, "application_failed") /\ worker' = CancelAll(answered)
    /\ UNCHANGED <<pc, cancelled, teardowns>>

(* The exit event closes the port: what it still held is never delivered. *)
ExitEvent(a) ==
    LET ws == [worker EXCEPT ![a].outbox = <<>>]
        failed == ~run.stopped /\ (worker[a].code # 0 \/ ~actor[a].reportedFinish)
    IN  /\ worker[a].at = "exited" /\ ~actor[a].exited
        /\ actor' = [actor EXCEPT ![a].exited = TRUE, ![a].phase = "finished",
                                  ![a].checkpoint = Completion]
        /\ IF failed THEN run' = Failed(run, "application_failed") /\ worker' = CancelAll(ws)
           ELSE worker' = ws /\ UNCHANGED run
        /\ UNCHANGED <<pc, cancelled, teardowns>>

-----------------------------------------------------------------------------
(* The worker thread.  It boots, waits for a permit, runs application code  *)
(* ("running" with a permit, "ending" once a cancel has taken it away),     *)
(* parks or asks, and ends: "acking" until its completion is acknowledged,  *)
(* then "leaving"; "failing" needs no acknowledgement.                      *)

Becomes(a, w) ==
    /\ worker' = [worker EXCEPT ![a] = w]
    /\ UNCHANGED <<pc, run, actor, cancelled, teardowns>>

Sent(w, m, at) == [w EXCEPT !.outbox = Append(@, m), !.at = at]

WorkerBoots(a) ==
    /\ worker[a].at = "boot"
    /\ Becomes(a, Sent(worker[a], Message("ready", Start), "waiting"))

(* The port's message listener *)
Received(w, kind) ==
    CASE kind = "cancel" ->
            [w EXCEPT !.aborted = TRUE,
                      !.at = CASE @ = "waiting" -> "ending" [] @ = "rpc" -> "running" [] OTHER -> @]
      [] kind = "permit" ->
            [w EXCEPT !.at = IF w.aborted \/ @ = "failing" THEN @
                             ELSE IF @ = "waiting" THEN "running" ELSE "confused"]
      [] kind = "completion-ack" ->
            [w EXCEPT !.at = CASE @ = "acking" -> "leaving" [] @ = "failing" -> @
                               [] OTHER -> "confused"]
      [] kind = "reply" ->
            [w EXCEPT !.at = IF @ = "rpc" THEN "running"
                             ELSE IF w.aborted \/ @ = "failing" THEN @ ELSE "confused"]

WorkerReceives(a) ==
    /\ worker[a].at \notin {"none", "boot", "exited"} /\ worker[a].inbox # <<>>
    /\ Becomes(a, Received([worker[a] EXCEPT !.inbox = Tail(@)], Head(worker[a].inbox)))

(* Variant with a bug: the worker goes on without a permit. *)
WorkerArrives_Unparked(a) ==
    /\ worker[a].at = "running" /\ Len(worker[a].outbox) < 2
    /\ \E c \in Checkpoints :
          Becomes(a, Sent(worker[a], Message("arrival", c), "running"))

(* arrive(): with the permit gone once the worker was cancelled *)
WorkerArrives(a) ==
    /\ worker[a].at = "running"
    /\ \E c \in Checkpoints \cup {Undeclared} :
          Becomes(a, Sent(worker[a], Message("arrival", c),
                          IF worker[a].aborted THEN "ending" ELSE "waiting"))

WorkerRequests(a) ==
    /\ a \in Askers /\ worker[a].at = "running" /\ ~worker[a].aborted
    /\ Becomes(a, Sent(worker[a], Message("request", Start), "rpc"))

(* Variant with a bug: the worker leaves unacknowledged. *)
WorkerFinishes_NoAck(a) ==
    /\ worker[a].at \in {"running", "ending"}
    /\ Becomes(a, [Sent(worker[a], Message("finished", Start), "leaving")
                     EXCEPT !.ran = ~worker[a].aborted])

(* run() settles: fulfilled, or rejected after a cancel *)
WorkerFinishes(a) ==
    /\ worker[a].at \in {"running", "ending"}
    /\ Becomes(a, [Sent(worker[a], Message("finished", Start), "acking")
                     EXCEPT !.ran = ~worker[a].aborted])

(* run() rejects: the application threw, or left a checkpoint or request    *)
(* unawaited.                                                              *)
WorkerFails(a) ==
    /\ worker[a].at \in {"running", "waiting", "rpc"} /\ ~worker[a].aborted
    /\ Becomes(a, [Sent(worker[a], Message("failure", Start), "failing") EXCEPT !.code = 1])

(* A checkpoint or request after the callback completed is reported, and    *)
(* its rejection, which nobody awaits, ends the thread.                    *)
WorkerCallsLate(a) ==
    /\ worker[a].at \in {"acking", "leaving"}
    /\ Becomes(a, [Sent(worker[a], Message("failure", Start), "failing") EXCEPT !.code = 1])

(* The thread ends when nothing refers to its port; a listener that threw   *)
(* ends it too.                                                            *)
WorkerExits(a) ==
    /\ worker[a].at \in {"leaving", "failing", "confused"}
    /\ Becomes(a, [worker[a] EXCEPT !.at = "exited", !.inbox = <<>>,
                                    !.code = IF worker[a].at = "leaving" THEN 0 ELSE 1])

WorkerStep(a) ==
    \/ WorkerBoots(a) \/ WorkerReceives(a) \/ WorkerArrives(a) \/ WorkerRequests(a)
    \/ WorkerFinishes(a) \/ WorkerFails(a) \/ WorkerCallsLate(a) \/ WorkerExits(a)

MainEvent(a) == MessageArrives(a) \/ RequestSettles(a) \/ ExitEvent(a)

ControllerStep ==
    \/ FactorySettles \/ StartWaitEnds \/ AdvanceWaitEnds \/ CleanupWaitEnds
    \/ TeardownSettles

ExecutionNext ==
    ControllerStep \/ \E a \in Actors : WorkerStep(a) \/ MainEvent(a)

-----------------------------------------------------------------------------
(* The scheduler's promise: of the workers not cancelled, at most one runs  *)
(* application code, and only inside the interval the controller permitted. *)
OnlyThePermittedRuns ==
    \A a \in Actors :
        worker[a].at \in {"running", "rpc"} /\ ~worker[a].aborted
        => \/ run.stopped
           \/ pc = "advance" /\ Step.actor = a
              /\ actor[a].phase = "running"

(* Controller and worker agree on where they are.  No worker is told what   *)
(* it does not expect (a permit while not parked, an acknowledgement or a   *)
(* reply out of turn: the throws of the worker's listener), and the exit of *)
(* a worker that finished never overtakes its completion message, so that   *)
(* an honest completion is never taken for a failure.                       *)
WorkersKeepProtocol ==
    \A a \in Actors :
        /\ worker[a].at # "confused"
        /\ worker[a].at = "exited" /\ worker[a].code = 0 => actor[a].reportedFinish

(* The state is observed only while every worker thread is parked at its    *)
(* port, has exited or has failed and only its exit is outstanding, and the *)
(* program has no request open: what the controller believes of the actors  *)
(* is true of the threads, none of which runs application code.             *)
ObservedAtRest ==
    [][(pc \in {"start", "advance"} /\ (pc' = "idle" \/ run'.scheduleCompleted))
          => Pending = {} /\ \A a \in Actors :
                                worker[a].at \in {"waiting", "failing", "exited"}
      ]_executionVars
=============================================================================
