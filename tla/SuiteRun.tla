------------------------------ MODULE SuiteRun ------------------------------
(***************************************************************************)
(* The life of one suite run: executeSuite of src/suite-runner.ts around   *)
(* runCompiledReportReplay of src/negotiated.ts, with the shared cleanup   *)
(* budget of src/suite-lifetime.ts.                                        *)
(*                                                                         *)
(* A run acquires a transport (given, or made by a connector), negotiates, *)
(* has an implementation constructed by a factory, replays, and releases   *)
(* everything.  Connector, factory, operations, disposer and close() are   *)
(* promises of application code that settle at any time or never.  Every   *)
(* wait has a deadline and may be cancelled, so the run goes on without    *)
(* them and must deal with what settles late.                              *)
(***************************************************************************)
EXTENDS Naturals, FiniteSets

CONSTANT Nothing    \* no error, no result

VARIABLES
    local,          \* runSuite (native handlers are tracked), or a generic provider
    pc,             \* where the run is waiting
    stage,          \* executeSuite's `stage`
    cancelled,      \* context.signal has aborted
    connector,      \* the connector's promise
    transport,      \* the transport: "none", "open", then its close()
    transportClosed,\* executeSuite's flag: the replay runner called close()
    factory,        \* the implementation factory's promise
    factoryLate,    \* lateFactoryCleanup: the run stopped waiting for it
    operation,      \* the implementation operation last started
    dispose,        \* the disposer of the constructed implementation
    disposals,      \* history: how often the disposer was called
    evidence,       \* "none", "entered", "complete" or "covered"
    error,          \* the error caught, [kind, at]: its kind and where it arose
    lifetime,       \* SuiteLifetime: cleanupFailed and unconfirmed
    budget,         \* the cleanup deadline: "unset", "running" or "over"
    result          \* what executeSuite returned

acquired == <<connector, transport, transportClosed>>
implementation == <<factory, factoryLate, operation, dispose, disposals>>
verdict == <<evidence, error, lifetime, result>>
vars == <<local, pc, stage, cancelled, acquired, implementation, verdict, budget>>

(* The states of a promise of application code *)
Promise == {"none", "pending", "ok", "failed"}
SettledPromise == {"ok", "failed"}

Kinds == {"configuration", "transport", "negotiation", "implementation",
          "mismatch", "evidence", "cancellation", "timeout", "cleanup",
          "unknown"}
Places == {"preflight", "connect", "ready", "register", "factory", "replay",
           "cleanup"}

Errors == [kind : Kinds, at : Places]
Results ==
    [outcome : {"passed", "mismatch", "failed", "cancelled", "timedOut"},
     status : {"succeeded", "failed", "unconfirmed"},
     quiescence : {"confirmed", "unconfirmed"},
     stage : {"none", "configuration", "negotiation", "factory", "replay", "cleanup"}]

ASSUME NothingAssumption == Nothing \notin Errors \cup Results

Init ==
    /\ local \in BOOLEAN
    /\ pc = "preflight" /\ stage = "configuration"
    /\ cancelled \in BOOLEAN
    /\ \/ connector = "none" /\ transport = "open"
       \/ connector = "unused" /\ transport = "none"
    /\ transportClosed = FALSE
    /\ factory = "none" /\ factoryLate = FALSE
    /\ operation = "none" /\ dispose = "none" /\ disposals = 0
    /\ evidence = "none" /\ error = Nothing
    /\ lifetime = [cleanupFailed |-> FALSE, unconfirmed |-> FALSE]
    /\ budget = "unset" /\ result = Nothing

-----------------------------------------------------------------------------
(* Deadlines and cancellation (awaitReplayOperation).  A wait for a promise *)
(* p ends with p, with the deadline or with the signal; once the signal is  *)
(* raised, a promise that has settled no longer counts.                     *)

Succeeds(p) == p = "ok" /\ ~cancelled

Failures(p, kind) ==
    (IF p = "failed" /\ ~cancelled THEN {kind} ELSE {})
    \cup (IF cancelled THEN {"cancellation"} ELSE {"timeout"})

Caught(kind, at) == error' = [kind |-> kind, at |-> at]

(* startCleanup: the deadline is set once. *)
startCleanup == budget' = IF budget = "unset" THEN "running" ELSE budget

(* close() of the wrapped transport: memoized, and noted by executeSuite. *)
CloseTransport == IF transport = "open" THEN "pending" ELSE transport

-----------------------------------------------------------------------------
(* executeSuite up to the replay runner *)

Preflight ==
    /\ pc = "preflight"
    /\ \/ /\ Caught("configuration", "preflight")
          /\ pc' = "tail" /\ UNCHANGED <<stage, connector>>
       \/ /\ cancelled /\ Caught("cancellation", "preflight")
          /\ pc' = "tail" /\ stage' \in {"configuration", "negotiation"}
          /\ UNCHANGED connector
       \/ /\ ~cancelled
          /\ stage' = "negotiation"
          /\ \/ connector = "none" /\ pc' = "ready" /\ UNCHANGED connector
             \/ connector = "unused" /\ pc' = "connect" /\ connector' = "pending"
          /\ UNCHANGED error
    /\ UNCHANGED <<local, cancelled, transport, transportClosed, implementation,
                   evidence, lifetime, result, budget>>

Connect ==
    /\ pc = "connect"
    /\ \/ /\ Succeeds(connector)
          /\ transport' = "open"
          /\ pc' = "ready" /\ UNCHANGED error
       \/ \E k \in Failures(connector, "transport") :
             /\ Caught(k, "connect")
             /\ pc' = "tail" /\ UNCHANGED transport
    /\ UNCHANGED <<local, stage, cancelled, connector, transportClosed,
                   implementation, evidence, lifetime, result, budget>>

(* lateClose: a connector that answers after the run gave up is closed. *)
LateClose ==
    /\ error # Nothing /\ error.at = "connect"
    /\ connector = "ok" /\ transport = "none"
    /\ transport' = "pending"
    /\ UNCHANGED <<local, pc, stage, cancelled, connector, transportClosed,
                   implementation, verdict, budget>>

-----------------------------------------------------------------------------
(* runCompiledReportReplay *)

(* Cancelled on entry, or the adapter is refused: the transport is not      *)
(* touched.  A transport that does not become ready is closed at once.      *)
ResolveTransport ==
    /\ pc = "ready"
    /\ \/ /\ Caught(IF cancelled THEN "cancellation" ELSE "negotiation", "ready")
          /\ pc' = "tail"
          /\ UNCHANGED <<transport, transportClosed, budget>>
       \/ \E k \in {"transport"} \cup Failures("pending", "transport") :
             /\ Caught(k, "ready")
             /\ pc' = "closeUnready"
             /\ transport' = CloseTransport /\ transportClosed' = TRUE
             /\ startCleanup
       \/ /\ ~cancelled
          /\ pc' = "register"
          /\ UNCHANGED <<error, transport, transportClosed, budget>>
    /\ UNCHANGED <<local, stage, cancelled, connector, implementation, evidence,
                   lifetime, result>>

(* The end of the try block: the budget starts and close() is called.      *)
Cleanup ==
    /\ pc' = "dispose"
    /\ transport' = CloseTransport /\ transportClosed' = TRUE
    /\ startCleanup

(* The first reply: only a matched interface reaches the factory. *)
Register ==
    /\ pc = "register"
    /\ \/ /\ \E k \in {"transport", "negotiation"} \cup Failures("pending", "transport") :
                Caught(k, "register")
          /\ Cleanup
          /\ UNCHANGED <<stage, factory>>
       \/ /\ ~cancelled
          /\ pc' = "factory" /\ stage' = "factory" /\ factory' = "pending"
          /\ UNCHANGED <<error, transport, transportClosed, budget>>
    /\ UNCHANGED <<local, cancelled, connector, factoryLate, operation, dispose,
                   disposals, evidence, lifetime, result>>

(* Variant with a bug: a factory the run gave up on is forgotten. *)
Construct_ForgetsLate ==
    /\ pc = "factory"
    /\ \/ /\ Succeeds(factory)
          /\ pc' = "replay"
          /\ UNCHANGED <<error, transport, transportClosed, budget>>
       \/ /\ \E k \in Failures(factory, "implementation") : Caught(k, "factory")
          /\ Cleanup
    /\ UNCHANGED <<local, stage, cancelled, connector, implementation, evidence,
                   lifetime, result>>

Construct ==
    /\ pc = "factory"
    /\ \/ /\ Succeeds(factory)
          /\ pc' = "replay"
          /\ UNCHANGED <<error, factoryLate, transport, transportClosed, budget>>
       \/ /\ \E k \in Failures(factory, "implementation") : Caught(k, "factory")
          /\ factoryLate' = TRUE
          /\ Cleanup
    /\ UNCHANGED <<local, stage, cancelled, connector, factory, operation, dispose,
                   disposals, evidence, lifetime, result>>

(* Replay: one call into the implementation at a time, its configuration    *)
(* check and coverage included (for native suites those are synchronous).   *)
StartOperation ==
    /\ pc = "replay" /\ operation \in {"none", "ok"} /\ ~cancelled
    /\ evidence \in {"none", "entered"} \/ ~local
    /\ operation' = "pending"
    /\ evidence' \in {evidence} \cup (IF evidence = "none" THEN {"entered"} ELSE {})
    /\ UNCHANGED <<local, pc, stage, cancelled, acquired, factory, factoryLate,
                   dispose, disposals, error, lifetime, result, budget>>

(* all_steps_done: the corpus is complete, its coverage met or not. *)
Complete ==
    /\ pc = "replay" /\ operation = "ok" /\ evidence = "entered" /\ ~cancelled
    /\ evidence' \in {"complete", "covered"}
    /\ UNCHANGED <<local, pc, stage, cancelled, acquired, implementation, error,
                   lifetime, result, budget>>

(* What a wait of the replay may throw: for the implementation, for the     *)
(* mirror's next message, for nothing once the corpus is complete.          *)
ReplayErrors ==
    CASE operation \in {"pending", "failed"} -> Failures(operation, "implementation")
      [] operation \in {"none", "ok"} /\ evidence = "none" ->
           {"transport", "evidence", "negotiation"} \cup Failures("pending", "transport")
      [] operation \in {"none", "ok"} /\ evidence = "entered" ->
           {"transport", "evidence", "mismatch"} \cup Failures("pending", "transport")
      [] OTHER -> Failures("pending", "implementation")

(* The binding is disposed of and the transport closed, in parallel. *)
ReplayEnds ==
    /\ pc = "replay"
    /\ \/ \E k \in ReplayErrors : Caught(k, "replay")
       \/ /\ evidence \in {"complete", "covered"} /\ operation = "ok"
          /\ UNCHANGED error
    /\ Cleanup
    /\ dispose' = "pending" /\ disposals' = disposals + 1
    /\ UNCHANGED <<local, stage, cancelled, connector, factory, factoryLate,
                   operation, evidence, lifetime, result>>

-----------------------------------------------------------------------------
(* Releasing, within the shared budget (SuiteLifetime.wait) *)

(* Variant with a bug: the cleanup waits as long as it takes. *)
WaitEnds_NoDeadline(p) == IF p \in SettledPromise THEN {p} ELSE {}

(* How waiting for promise p may end: "ok", "failed", "timeout". *)
WaitEnds(p) ==
    (IF p \in SettledPromise THEN {p} ELSE {})
    \cup (IF budget = "over" THEN {"timeout"} ELSE {})

Noted(w) ==
    [cleanupFailed |-> lifetime.cleanupFailed \/ w # "ok",
     unconfirmed |-> lifetime.unconfirmed \/ w = "timeout"]

(* Errors of the cleanup are thrown only when nothing failed before: one    *)
(* as it is (a deadline of close() keeps its kind), two as an aggregate.    *)
CleanupError(w, deadlineKind) ==
    LET kind == IF w = "timeout" THEN deadlineKind ELSE "cleanup"
    IN  \/ w = "ok" /\ UNCHANGED error
        \/ w # "ok" /\ error = Nothing /\ Caught(kind, "cleanup")
        \/ w # "ok" /\ error # Nothing
             /\ IF error.at = "cleanup" THEN Caught("unknown", "cleanup")
                ELSE UNCHANGED error

(* lateFactoryCleanup: the late binding is disposed of when it comes. *)
LateDispose ==
    /\ factoryLate /\ factory = "ok" /\ dispose = "none"
    /\ dispose' = "pending" /\ disposals' = disposals + 1
    /\ UNCHANGED <<local, pc, stage, cancelled, acquired, factory, factoryLate,
                   operation, verdict, budget>>

(* What the run waits for before the transport: its binding, or the late    *)
(* factory and the disposer of what it made.                                *)
BindingGone ==
    CASE factoryLate /\ factory # "ok" -> IF factory = "failed" THEN "ok" ELSE "pending"
      [] OTHER -> dispose

AwaitBinding ==
    /\ pc = "dispose"
    /\ \E w \in IF factory = "none" THEN {"ok"} ELSE WaitEnds(BindingGone) :
          lifetime' = Noted(w) /\ CleanupError(w, "cleanup")
    /\ pc' = "close"
    /\ UNCHANGED <<local, stage, cancelled, acquired, implementation, evidence,
                   result, budget>>

AwaitClose ==
    /\ pc \in {"close", "closeUnready", "closeOwned"}
    /\ \E w \in WaitEnds(transport) :
          /\ lifetime' = Noted(w)
          /\ IF pc = "close" THEN CleanupError(w, "timeout") ELSE UNCHANGED error
    /\ pc' = IF pc = "closeOwned" THEN "join" ELSE "tail"
    /\ UNCHANGED <<local, stage, cancelled, acquired, implementation, evidence,
                   result, budget>>

(* The run gave up on the connector and owns no transport. *)
GaveUpConnecting == error # Nothing /\ error.at = "connect"

(* executeSuite: a transport the replay runner never closed is closed. *)
CloseOwned ==
    /\ pc = "tail"
    /\ startCleanup
    /\ \/ /\ transport # "none" /\ ~transportClosed /\ ~GaveUpConnecting
          /\ transport' = CloseTransport
          /\ pc' = "closeOwned"
       \/ /\ transport = "none" \/ transportClosed \/ GaveUpConnecting
          /\ pc' = "join"
          /\ UNCHANGED transport
    /\ UNCHANGED <<local, stage, cancelled, connector, transportClosed,
                   implementation, verdict>>

(* The tracked promises that have not settled: the connector with its late  *)
(* close(), the factory, and the native operations of runSuite.             *)
LateConnector ==
    /\ GaveUpConnecting
    /\ \/ connector = "pending"
       \/ connector = "ok" /\ transport \in {"none", "pending"}

Pending ==
    \/ LateConnector
    \/ factory = "pending"
    \/ local /\ operation = "pending"

-----------------------------------------------------------------------------
(* The result *)

(* failureFor: the stage is the variable's value when the run returns. *)
FailureStage ==
    CASE error.kind = "configuration" -> "configuration"
      [] error.kind \in {"mismatch", "evidence"} -> "replay"
      [] error.kind = "cleanup" -> "cleanup"
      [] error.kind = "negotiation" -> "negotiation"
      [] OTHER -> stage

(* Variant with a bug: the failure of a late close() is lost. *)
CleanupStatus_NoLateClose(lt) ==
    IF lt.unconfirmed THEN "unconfirmed"
    ELSE IF lt.cleanupFailed THEN "failed" ELSE "succeeded"

(* A failed late close() is noted when it settles. *)
CleanupStatus(lt) ==
    IF lt.unconfirmed THEN "unconfirmed"
    ELSE IF lt.cleanupFailed \/ (GaveUpConnecting /\ transport = "failed")
    THEN "failed" ELSE "succeeded"

(* A generic provider may hide operations it did not finish. *)
Hidden ==
    /\ ~local /\ error # Nothing
    /\ error.kind \in {"timeout", "cancellation"} /\ stage = "replay"

(* No failure: the evidence is accepted and the cleanup succeeded. *)
Passes(status) == evidence = "covered" /\ status = "succeeded"

Result(lt) ==
    LET status == IF Hidden /\ CleanupStatus(lt) = "succeeded" THEN "unconfirmed"
                  ELSE CleanupStatus(lt)
        quiet == IF lt.unconfirmed \/ Hidden THEN "unconfirmed" ELSE "confirmed"
        outcome == CASE error = Nothing -> IF Passes(status) THEN "passed" ELSE "failed"
                     [] error # Nothing -> IF error.kind = "mismatch" THEN "mismatch"
                                           ELSE IF error.kind = "cancellation" THEN "cancelled"
                                           ELSE IF error.kind = "timeout" THEN "timedOut"
                                           ELSE "failed"
    IN  [outcome |-> outcome, status |-> status, quiescence |-> quiet,
         stage |-> IF error = Nothing THEN "none" ELSE FailureStage]

(* join: until nothing tracked is pending or the budget is over. *)
Join ==
    /\ pc = "join"
    /\ \/ /\ ~Pending
          /\ UNCHANGED lifetime
       \/ /\ Pending /\ budget = "over"
          /\ lifetime' = [lifetime EXCEPT !.unconfirmed = TRUE]
    /\ result' = Result(lifetime')
    /\ pc' = "returned"
    /\ UNCHANGED <<local, stage, cancelled, acquired, implementation, evidence,
                   error, budget>>

-----------------------------------------------------------------------------
(* Application code, the signal and the clock *)

Cancel ==
    /\ ~cancelled /\ pc # "returned"
    /\ cancelled' = TRUE
    /\ UNCHANGED <<local, pc, stage, acquired, implementation, verdict, budget>>

ConnectorSettles ==
    /\ connector = "pending"
    /\ connector' \in SettledPromise
    /\ UNCHANGED <<local, pc, stage, cancelled, transport, transportClosed,
                   implementation, verdict, budget>>

(* The tracked factory assigns `stage` when the implementation arrives; a   *)
(* native factory that fails cleans up what it had begun, which may fail.   *)
FactorySettles ==
    /\ factory = "pending"
    /\ factory' \in SettledPromise
    /\ stage' = IF factory' = "ok" THEN "replay" ELSE stage
    /\ \/ UNCHANGED lifetime
       \/ /\ local /\ factory' = "failed"
          /\ lifetime' = [lifetime EXCEPT !.cleanupFailed = TRUE]
    /\ UNCHANGED <<local, pc, cancelled, acquired, factoryLate, operation, dispose,
                   disposals, evidence, error, result, budget>>

OperationSettles ==
    /\ operation = "pending"
    /\ operation' \in SettledPromise
    /\ UNCHANGED <<local, pc, stage, cancelled, acquired, factory, factoryLate,
                   dispose, disposals, verdict, budget>>

DisposeSettles ==
    /\ dispose = "pending"
    /\ dispose' \in SettledPromise
    /\ UNCHANGED <<local, pc, stage, cancelled, acquired, factory, factoryLate,
                   operation, disposals, verdict, budget>>

CloseSettles ==
    /\ transport = "pending"
    /\ transport' \in SettledPromise
    /\ UNCHANGED <<local, pc, stage, cancelled, connector, transportClosed,
                   implementation, verdict, budget>>

BudgetEnds ==
    /\ budget = "running"
    /\ budget' = "over"
    /\ UNCHANGED <<local, pc, stage, cancelled, acquired, implementation, verdict>>

Run == \/ Preflight \/ Connect \/ ResolveTransport \/ Register \/ Construct
       \/ ReplayEnds \/ AwaitBinding \/ AwaitClose \/ CloseOwned \/ Join

Next ==
    \/ Run \/ StartOperation \/ Complete
    \/ LateClose \/ LateDispose
    \/ Cancel \/ BudgetEnds
    \/ ConnectorSettles \/ FactorySettles \/ OperationSettles
    \/ DisposeSettles \/ CloseSettles

Spec == Init /\ [][Next]_vars

(* Every wait of the run ends, at the latest with its deadline, and what is *)
(* chained to a promise runs when it settles.  No application promise has   *)
(* to settle.                                                               *)
Fairness == WF_vars(Run) /\ WF_vars(BudgetEnds) /\ WF_vars(LateClose)
            /\ WF_vars(LateDispose)

FairSpec == Spec /\ Fairness

-----------------------------------------------------------------------------
(* Properties *)

(* Every variable keeps to its type. *)
TypeOK ==
    /\ local \in BOOLEAN /\ cancelled \in BOOLEAN
    /\ pc \in {"preflight", "connect", "ready", "closeUnready", "register",
               "factory", "replay", "dispose", "close", "tail", "closeOwned",
               "join", "returned"}
    /\ stage \in {"configuration", "negotiation", "factory", "replay"}
    /\ connector \in Promise \cup {"unused"}
    /\ transport \in Promise \cup {"open"} /\ transportClosed \in BOOLEAN
    /\ factory \in Promise /\ factoryLate \in BOOLEAN
    /\ operation \in Promise /\ dispose \in Promise /\ disposals \in 0..1
    /\ evidence \in {"none", "entered", "complete", "covered"}
    /\ error \in Errors \cup {Nothing}
    /\ lifetime \in [cleanupFailed : BOOLEAN, unconfirmed : BOOLEAN]
    /\ budget \in {"unset", "running", "over"}
    /\ result \in Results \cup {Nothing}

Returned == result # Nothing

(* "Confirmed" quiescence is a fact: when the run has returned, no         *)
(* operation, factory, disposer, connector or close() it started is still  *)
(* running, whichever of its waits it gave up on.                          *)
ConfirmedIsQuiet ==
    Returned /\ result.quiescence = "confirmed" =>
        /\ "pending" \notin {factory, operation, dispose, transport}
        /\ ~LateConnector

(* "Succeeded" cleanup is a fact: whatever was acquired, even after the    *)
(* run had given up on it, was released without an error.                  *)
SucceededMeansReleased ==
    Returned /\ result.status = "succeeded" =>
        /\ transport \in {"none", "ok"}
        /\ connector = "ok" => transport = "ok"
        /\ factory = "ok" => dispose = "ok"

(* A suite passes only on complete, covering evidence, with nothing left    *)
(* running and everything released.                                         *)
PassedIsClean ==
    Returned /\ result.outcome = "passed" =>
        /\ evidence = "covered"
        /\ transport = "ok" /\ factory = "ok" /\ dispose = "ok"
        /\ operation # "pending"

(* Once caught, the primary error is not replaced by an error of the        *)
(* cleanup, a late promise or a cancellation.                               *)
PrimaryErrorKept ==
    [][error # Nothing /\ error.at # "cleanup" => error' = error]_vars

(* A run returns although the mirror and the application never answer. *)
SuiteReturns == <>Returned

(* An implementation that was constructed, in time or late, is disposed of, *)
(* if need be after the run has returned.                                   *)
ConstructedIsDisposed == factory = "ok" ~> disposals = 1

(* What a suite's result says is a fact: its quiescence, its cleanup and    *)
(* its passing.                                                             *)
ResultIsAFact == ConfirmedIsQuiet /\ SucceededMeansReleased /\ PassedIsClean
=============================================================================
