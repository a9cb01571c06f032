--------------------------- MODULE ProjectProofs ---------------------------
(***************************************************************************)
(* Proofs about SuiteRun and Project, a suite and the command that may run *)
(* one.  What the result of a suite says is a fact, whichever promises     *)
(* settle, in whatever order, or never; a command executes only what it    *)
(* has just looked at, and its exit code says what has happened.           *)
(***************************************************************************)
EXTENDS SuiteRun, Project, SequenceTheorems, NaturalsInduction, WellFoundedInduction, TLAPS

(* SuiteRun *)

(* The steps of the run while nothing has failed *)
Working == {"preflight", "connect", "ready", "register", "factory", "replay"}

(* Who has the transport: the connector, the run, or a close() *)
TransportInv ==
    /\ connector = "none" => transport # "none"
    /\ connector = "unused" =>
          transport = "none" /\ (pc = "preflight" \/ (error # Nothing /\ error.at = "preflight"))
    /\ connector \in {"pending", "failed"} => pc = "connect" \/ GaveUpConnecting
    /\ pc = "preflight" => connector \in {"none", "unused"} /\ transport \in {"open", "none"}
    /\ pc = "connect" => transport = "none" /\ connector # "unused"
    /\ pc \in {"ready", "register", "factory", "replay"} => transport = "open"
    /\ connector = "ok" /\ pc # "connect" /\ ~GaveUpConnecting => transport # "none"
    /\ GaveUpConnecting => /\ pc \in {"tail", "join", "returned"} /\ transport # "open"
                           /\ connector \in {"pending", "ok", "failed"} /\ ~transportClosed
                           /\ connector # "ok" => transport = "none"
    /\ pc \in Working => ~transportClosed
    /\ pc \in {"dispose", "close", "closeUnready"} => transportClosed
    /\ transportClosed \/ pc = "closeOwned" => transport \in {"pending", "ok", "failed"}
    /\ pc = "tail" /\ ~transportClosed /\ ~GaveUpConnecting => transport \in {"none", "open"}
    /\ pc \in {"join", "returned"} => transport # "open"

(* Who has the implementation: the factory, the replay, or a disposer *)
ImplementationInv ==
    /\ factory = "none" => /\ ~factoryLate /\ operation = "none" /\ dispose = "none"
                           /\ evidence = "none"
                           /\ pc \notin {"factory", "replay"}
    /\ factory # "none" => pc \in {"factory", "replay"} \/ transportClosed
    /\ pc \in {"preflight", "connect", "ready", "register", "closeUnready", "closeOwned"}
          => factory = "none"
    /\ factory \in {"pending", "failed"} => /\ operation = "none" /\ dispose = "none"
                                            /\ evidence = "none"
                                            /\ pc = "factory" \/ factoryLate
    /\ pc = "factory" => operation = "none" /\ dispose = "none" /\ evidence = "none"
    /\ pc \in {"factory", "replay"} => ~factoryLate /\ dispose = "none"
    /\ pc = "replay" => factory = "ok"
    /\ factory = "ok" => stage = "replay"
    /\ factory = "ok" /\ ~factoryLate /\ pc \notin {"factory", "replay"} => dispose # "none"
    /\ factoryLate => operation = "none" /\ evidence = "none" /\ error # Nothing
    /\ disposals = IF dispose = "none" THEN 0 ELSE 1

(* What failed, and what was going on then *)
ErrorInv ==
    /\ pc \in Working => error = Nothing
    /\ error = Nothing /\ pc \notin Working => factory = "ok" /\ operation = "ok"
    /\ operation = "pending" /\ pc # "replay" =>
          error # Nothing /\ error.at = "replay" /\ error.kind \in {"timeout", "cancellation"}
    /\ pc \in {"closeUnready", "closeOwned"} => error # Nothing

(* What the waits of the cleanup have established *)
LifetimeInv ==
    /\ pc \in {"close", "tail", "join"} /\ ~lifetime.unconfirmed =>
          /\ factory # "pending" /\ dispose # "pending"
          /\ factory = "ok" => dispose \in SettledPromise
          /\ ~lifetime.cleanupFailed => dispose # "failed"
    /\ pc \in {"tail", "join"} /\ ~lifetime.unconfirmed /\ ~GaveUpConnecting =>
          /\ transport # "pending"
          /\ ~lifetime.cleanupFailed => transport # "failed"

(* What the result says, and what it leaves to happen *)
ResultInv ==
    /\ result = Nothing <=> pc # "returned"
    /\ result # Nothing =>
          /\ result.outcome = "passed" => result.status = "succeeded"
          /\ result.status = "succeeded" => result.quiescence = "confirmed"
          /\ result.quiescence = "confirmed" =>
                /\ connector # "pending" /\ ~(factory = "ok" /\ dispose = "none")

IInv ==
    /\ TypeOK /\ TransportInv /\ ImplementationInv /\ ErrorInv /\ LifetimeInv
    /\ ResultInv /\ ResultIsAFact

-----------------------------------------------------------------------------
(* Init establishes the invariant: nothing was started. *)
LEMMA InitInv == Init => IInv
<1> SUFFICES ASSUME Init PROVE IInv
  OBVIOUS
<1> USE NothingAssumption DEF Init, GaveUpConnecting, Promise, Working
<1>1. TypeOK
  <2>1. lifetime \in [cleanupFailed : BOOLEAN, unconfirmed : BOOLEAN]
    OBVIOUS
  <2>2. /\ local \in BOOLEAN /\ cancelled \in BOOLEAN /\ transportClosed \in BOOLEAN
        /\ factoryLate \in BOOLEAN
    BY Zenon
  <2>3. /\ connector \in Promise \cup {"unused"} /\ transport \in Promise \cup {"open"}
        /\ factory \in Promise /\ operation \in Promise /\ dispose \in Promise
        /\ disposals \in 0..1
    BY SMT
  <2>4. QED
    BY <2>1, <2>2, <2>3 DEF TypeOK
<1>2. TransportInv /\ ImplementationInv /\ ErrorInv
  BY DEF TransportInv, ImplementationInv, ErrorInv
<1>3. LifetimeInv /\ ResultInv /\ ResultIsAFact
  BY DEF LifetimeInv, ResultInv, ResultIsAFact, ConfirmedIsQuiet,
         SucceededMeansReleased, PassedIsClean, Returned
<1>4. QED
  BY <1>1, <1>2, <1>3 DEF IInv

(* Until the run returns there is no result to be right or wrong. *)
LEMMA NoResultYet ==
    ASSUME IInv, pc # "returned", pc' # "returned", UNCHANGED result
    PROVE  ResultInv' /\ ResultIsAFact'
BY DEF IInv, ResultInv, ResultIsAFact, ConfirmedIsQuiet, SucceededMeansReleased,
       PassedIsClean, Returned

(* What a wait throws is the cancellation, the deadline or the promise's own *)
(* failure.                                                                  *)
LEMMA FailureKinds ==
    ASSUME NEW p, NEW kind \in Kinds
    PROVE  Failures(p, kind) \subseteq Kinds
BY DEF Failures, Kinds

(* What is noted of a wait stays noted. *)
LEMMA NotedIsKept ==
    ASSUME NEW w
    PROVE  /\ Noted(w).unconfirmed <=> lifetime.unconfirmed \/ w = "timeout"
           /\ Noted(w).cleanupFailed <=> lifetime.cleanupFailed \/ w # "ok"
BY DEF Noted

-----------------------------------------------------------------------------
(* One lemma per action *)

(* Preflight: the run ends, or goes on to its transport. *)
LEMMA PreflightInv == IInv /\ Preflight => IInv'
<1> SUFFICES ASSUME IInv, Preflight PROVE IInv'
  OBVIOUS
<1> USE NothingAssumption
    DEF IInv, Preflight, TypeOK, Promise, Working, GaveUpConnecting,
        acquired, implementation, verdict, Caught, Errors, Kinds, Places
<1>1. TypeOK'
  BY DEF ImplementationInv
<1>2. TransportInv'
  BY DEF TransportInv
<1>3. ImplementationInv'
  BY DEF ImplementationInv
<1>4. ErrorInv'
  BY DEF ErrorInv
<1>5. LifetimeInv'
  BY DEF TransportInv, ImplementationInv, LifetimeInv
<1>6. ResultInv' /\ ResultIsAFact'
  BY NoResultYet
<1>7. QED
  BY <1>1, <1>2, <1>3, <1>4, <1>5, <1>6

(* The connector's transport is taken over, or given up on. *)
LEMMA ConnectInv == IInv /\ Connect => IInv'
<1> SUFFICES ASSUME IInv, Connect PROVE IInv'
  OBVIOUS
<1> USE NothingAssumption
    DEF IInv, Connect, TypeOK, Promise, Working, GaveUpConnecting,
        acquired, implementation, verdict, Succeeds
<1>A. \/ pc' \in Working /\ error' = Nothing
      \/ /\ pc' \notin Working /\ error' \in Errors /\ error' # Nothing
         /\ error'.at = "connect"
  <2>1. error = Nothing
    BY DEF ErrorInv
  <2>2. {"transport", "negotiation", "implementation", "cancellation"} \subseteq Kinds
    BY DEF Kinds
  <2>3. ASSUME NEW k \in Kinds, error' = [kind |-> k, at |-> "connect"]
        PROVE  error' \in Errors /\ error' # Nothing /\ error'.at = "connect"
    BY <2>3 DEF Errors, Places
  <2>4. QED
    BY <2>1, <2>2, <2>3, FailureKinds DEF Caught
<1>1. TypeOK'
  BY <1>A DEF ImplementationInv
<1>2. TransportInv'
  BY <1>A DEF TransportInv
<1>3. ImplementationInv'
  BY <1>A DEF ImplementationInv
<1>4. ErrorInv'
  BY <1>A DEF TransportInv, ErrorInv
<1>5. LifetimeInv'
  BY <1>A DEF TransportInv, ImplementationInv, LifetimeInv
<1>6. ResultInv' /\ ResultIsAFact'
  BY NoResultYet
<1>7. QED
  BY <1>1, <1>2, <1>3, <1>4, <1>5, <1>6

(* The transport becomes ready, or is closed at once. *)
LEMMA ResolveTransportInv == IInv /\ ResolveTransport => IInv'
<1> SUFFICES ASSUME IInv, ResolveTransport PROVE IInv'
  OBVIOUS
<1> USE NothingAssumption
    DEF IInv, ResolveTransport, TypeOK, Promise, Working, GaveUpConnecting,
        acquired, implementation, verdict, CloseTransport, startCleanup
<1>A. \/ pc' \in Working /\ error' = Nothing
      \/ /\ pc' \notin Working /\ error' \in Errors /\ error' # Nothing
         /\ error'.at = "ready"
  <2>1. error = Nothing
    BY DEF ErrorInv
  <2>2. {"transport", "negotiation", "implementation", "cancellation"} \subseteq Kinds
    BY DEF Kinds
  <2>3. ASSUME NEW k \in Kinds, error' = [kind |-> k, at |-> "ready"]
        PROVE  error' \in Errors /\ error' # Nothing /\ error'.at = "ready"
    BY <2>3 DEF Errors, Places
  <2>4. QED
    BY <2>1, <2>2, <2>3, FailureKinds DEF Caught
<1>B. budget' \in {"unset", "running", "over"} /\ transport' \in Promise \cup {"open"}
  BY DEF startCleanup
<1>1. TypeOK'
  <2>1. transportClosed' \in BOOLEAN /\ factoryLate' \in BOOLEAN
    BY Zenon
  <2>2. /\ pc' \in {"closeUnready", "register", "factory", "replay", "dispose", "tail"}
        /\ stage' \in {stage, "factory"} /\ factory' \in {factory, "pending"}
    OBVIOUS
  <2>3. error' \in Errors \cup {Nothing}
    BY <1>A
  <2>4. QED
    BY <1>B, <2>1, <2>2, <2>3
<1>2. TransportInv'
  BY <1>A DEF TransportInv
<1>3. ImplementationInv'
  BY <1>A DEF ImplementationInv
<1>4. ErrorInv'
  BY <1>A DEF ErrorInv
<1>5. LifetimeInv'
  BY <1>A DEF TransportInv, ImplementationInv, LifetimeInv
<1>6. ResultInv' /\ ResultIsAFact'
  BY NoResultYet
<1>7. QED
  BY <1>1, <1>2, <1>3, <1>4, <1>5, <1>6

(* Only a matched interface has the factory called. *)
LEMMA RegisterInv == IInv /\ Register => IInv'
<1> SUFFICES ASSUME IInv, Register PROVE IInv'
  OBVIOUS
<1> USE NothingAssumption
    DEF IInv, Register, TypeOK, Promise, Working, GaveUpConnecting,
        acquired, implementation, verdict, CloseTransport, startCleanup, Cleanup
<1>A. \/ pc' \in Working /\ error' = Nothing
      \/ /\ pc' \notin Working /\ error' \in Errors /\ error' # Nothing
         /\ error'.at = "register"
  <2>1. error = Nothing
    BY DEF ErrorInv
  <2>2. {"transport", "negotiation", "implementation", "cancellation"} \subseteq Kinds
    BY DEF Kinds
  <2>3. ASSUME NEW k \in Kinds, error' = [kind |-> k, at |-> "register"]
        PROVE  error' \in Errors /\ error' # Nothing /\ error'.at = "register"
    BY <2>3 DEF Errors, Places
  <2>4. QED
    BY <2>1, <2>2, <2>3, FailureKinds DEF Caught
<1>B. budget' \in {"unset", "running", "over"} /\ transport' \in Promise \cup {"open"}
  BY DEF startCleanup
<1>1. TypeOK'
  <2>1. transportClosed' \in BOOLEAN /\ factoryLate' \in BOOLEAN
    BY Zenon
  <2>2. /\ pc' \in {"closeUnready", "register", "factory", "replay", "dispose", "tail"}
        /\ stage' \in {stage, "factory"} /\ factory' \in {factory, "pending"}
    OBVIOUS
  <2>3. error' \in Errors \cup {Nothing}
    BY <1>A
  <2>4. QED
    BY <1>B, <2>1, <2>2, <2>3
<1>2. TransportInv'
  BY <1>A DEF TransportInv
<1>3. ImplementationInv'
  BY <1>A DEF ImplementationInv
<1>4. ErrorInv'
  BY <1>A DEF ErrorInv
<1>5. LifetimeInv'
  BY <1>A DEF TransportInv, ImplementationInv, LifetimeInv
<1>6. ResultInv' /\ ResultIsAFact'
  BY NoResultYet
<1>7. QED
  BY <1>1, <1>2, <1>3, <1>4, <1>5, <1>6

(* The implementation comes in time, or is left to lateFactoryCleanup. *)
LEMMA ConstructInv == IInv /\ Construct => IInv'
<1> SUFFICES ASSUME IInv, Construct PROVE IInv'
  OBVIOUS
<1> USE NothingAssumption
    DEF IInv, Construct, TypeOK, Promise, Working, GaveUpConnecting,
        acquired, implementation, verdict, CloseTransport, startCleanup, Cleanup, Succeeds
<1>A. \/ pc' \in Working /\ error' = Nothing
      \/ /\ pc' \notin Working /\ error' \in Errors /\ error' # Nothing
         /\ error'.at = "factory"
  <2>1. error = Nothing
    BY DEF ErrorInv
  <2>2. {"transport", "negotiation", "implementation", "cancellation"} \subseteq Kinds
    BY DEF Kinds
  <2>3. ASSUME NEW k \in Kinds, error' = [kind |-> k, at |-> "factory"]
        PROVE  error' \in Errors /\ error' # Nothing /\ error'.at = "factory"
    BY <2>3 DEF Errors, Places
  <2>4. QED
    BY <2>1, <2>2, <2>3, FailureKinds DEF Caught
<1>B. budget' \in {"unset", "running", "over"} /\ transport' \in Promise \cup {"open"}
  BY DEF startCleanup
<1>1. TypeOK'
  <2>1. transportClosed' \in BOOLEAN /\ factoryLate' \in BOOLEAN
    BY Zenon
  <2>2. /\ pc' \in {"closeUnready", "register", "factory", "replay", "dispose", "tail"}
        /\ stage' \in {stage, "factory"} /\ factory' \in {factory, "pending"}
    OBVIOUS
  <2>3. error' \in Errors \cup {Nothing}
    BY <1>A
  <2>4. QED
    BY <1>B, <2>1, <2>2, <2>3
<1>2. TransportInv'
  BY <1>A DEF TransportInv
<1>3. ImplementationInv'
  BY <1>A DEF ImplementationInv
<1>4. ErrorInv'
  BY <1>A DEF ErrorInv
<1>5. LifetimeInv'
  BY <1>A DEF LifetimeInv
<1>6. ResultInv' /\ ResultIsAFact'
  BY NoResultYet
<1>7. QED
  BY <1>1, <1>2, <1>3, <1>4, <1>5, <1>6

(* The end of the replay: the only failure it leaves an operation running  *)
(* after is a deadline or the signal.                                      *)
LEMMA ReplayEndsInv == IInv /\ ReplayEnds => IInv'
<1> SUFFICES ASSUME IInv, ReplayEnds PROVE IInv'
  OBVIOUS
<1> USE NothingAssumption
    DEF IInv, ReplayEnds, TypeOK, Promise, Working, GaveUpConnecting,
        acquired, implementation, verdict, Caught, Errors, Kinds, Places,
        CloseTransport, startCleanup, Cleanup, ReplayErrors, Failures
<1>1. TypeOK'
  BY DEF ImplementationInv
<1>2. TransportInv'
  BY DEF TransportInv
<1>3. ImplementationInv'
  BY DEF ImplementationInv
<1>4. ErrorInv'
  BY DEF ImplementationInv, ErrorInv
<1>5. LifetimeInv'
  BY DEF LifetimeInv
<1>6. ResultInv' /\ ResultIsAFact'
  BY NoResultYet
<1>7. QED
  BY <1>1, <1>2, <1>3, <1>4, <1>5, <1>6

(* The wait for the binding: without a deadline it establishes that the    *)
(* implementation is gone.                                                 *)
LEMMA AwaitBindingInv == IInv /\ AwaitBinding => IInv'
<1> SUFFICES ASSUME IInv, AwaitBinding PROVE IInv'
  OBVIOUS
<1> USE NothingAssumption
    DEF IInv, AwaitBinding, TypeOK, Promise, Working, GaveUpConnecting,
        acquired, implementation, verdict, Noted, CleanupError, Caught, Errors, Kinds, Places,
        WaitEnds, BindingGone, SettledPromise
<1>A. \E w \in {"ok", "failed", "timeout"} :
         /\ lifetime' = Noted(w)
         /\ w # "timeout" => factory = "none" \/ w = BindingGone
         /\ w = "ok" => factory = "none" \/ BindingGone = "ok"
  BY DEF WaitEnds, SettledPromise
<1>1. TypeOK'
  BY <1>A DEF ImplementationInv
<1>2. TransportInv'
  BY <1>A DEF ErrorInv, TransportInv
<1>3. ImplementationInv'
  BY <1>A DEF ErrorInv, ImplementationInv
<1>4. ErrorInv'
  BY <1>A DEF ErrorInv
<1>5. LifetimeInv'
  <2>1. PICK w \in {"ok", "failed", "timeout"} :
           /\ lifetime' = Noted(w)
           /\ w # "timeout" => factory = "none" \/ w = BindingGone
    BY <1>A
  <2>2. /\ lifetime'.unconfirmed <=> lifetime.unconfirmed \/ w = "timeout"
        /\ lifetime'.cleanupFailed <=> lifetime.cleanupFailed \/ w # "ok"
    BY <2>1, NotedIsKept
  <2>3. w # "timeout" => /\ factory # "pending" /\ dispose # "pending"
                         /\ factory = "ok" => dispose \in SettledPromise
                         /\ w = "ok" => dispose # "failed"
    BY <2>1 DEF ImplementationInv
  <2>4. pc' = "close" /\ UNCHANGED <<factory, dispose>>
    OBVIOUS
  <2>5. QED
    BY ONLY <2>2, <2>3, <2>4 DEF LifetimeInv, SettledPromise
<1>6. ResultInv' /\ ResultIsAFact'
  BY NoResultYet
<1>7. QED
  BY <1>1, <1>2, <1>3, <1>4, <1>5, <1>6

(* The wait for close(): the same for the transport. *)
LEMMA AwaitCloseInv == IInv /\ AwaitClose => IInv'
<1> SUFFICES ASSUME IInv, AwaitClose PROVE IInv'
  OBVIOUS
<1> USE NothingAssumption
    DEF IInv, AwaitClose, TypeOK, Promise, Working, GaveUpConnecting,
        acquired, implementation, verdict, Noted, CleanupError, Caught, Errors, Kinds, Places,
        WaitEnds, SettledPromise
<1>A. \E w \in {"ok", "failed", "timeout"} :
         /\ lifetime' = Noted(w)
         /\ w # "timeout" => w = transport
         /\ w = "ok" => transport = "ok"
  BY DEF WaitEnds, SettledPromise
<1>1. TypeOK'
  BY <1>A DEF ImplementationInv
<1>2. TransportInv'
  BY <1>A DEF ErrorInv, ImplementationInv, TransportInv
<1>3. ImplementationInv'
  BY <1>A DEF ErrorInv, TransportInv, ImplementationInv
<1>4. ErrorInv'
  BY <1>A DEF ImplementationInv, TransportInv, ErrorInv
<1>5. LifetimeInv'
  <2>1. PICK w \in {"ok", "failed", "timeout"} :
           lifetime' = Noted(w) /\ (w # "timeout" => w = transport)
    BY <1>A
  <2>2. /\ lifetime'.unconfirmed <=> lifetime.unconfirmed \/ w = "timeout"
        /\ lifetime'.cleanupFailed <=> lifetime.cleanupFailed \/ w # "ok"
    BY <2>1, NotedIsKept
  <2>3. ~lifetime.unconfirmed =>
           /\ factory # "pending" /\ dispose # "pending"
           /\ factory = "ok" => dispose \in SettledPromise
           /\ ~lifetime.cleanupFailed => dispose # "failed"
    BY DEF LifetimeInv, ImplementationInv
  <2>4. pc' \in {"tail", "join"} /\ UNCHANGED <<factory, dispose, transport>>
    OBVIOUS
  <2>5. QED
    BY ONLY <2>1, <2>2, <2>3, <2>4 DEF LifetimeInv, SettledPromise
<1>6. ResultInv' /\ ResultIsAFact'
  BY NoResultYet
<1>7. QED
  BY <1>1, <1>2, <1>3, <1>4, <1>5, <1>6

(* A transport nobody closed yet is closed. *)
LEMMA CloseOwnedInv == IInv /\ CloseOwned => IInv'
<1> SUFFICES ASSUME IInv, CloseOwned PROVE IInv'
  OBVIOUS
<1> USE NothingAssumption
    DEF IInv, CloseOwned, TypeOK, Promise, Working, GaveUpConnecting,
        acquired, implementation, verdict, CloseTransport, startCleanup
<1>1. TypeOK'
  BY DEF ImplementationInv
<1>2. TransportInv'
  BY DEF TransportInv
<1>3. ImplementationInv'
  BY DEF ImplementationInv
<1>4. ErrorInv'
  BY DEF ImplementationInv, TransportInv, ErrorInv
<1>5. LifetimeInv'
  BY DEF TransportInv, ImplementationInv, ErrorInv, LifetimeInv
<1>6. ResultInv' /\ ResultIsAFact'
  BY NoResultYet
<1>7. QED
  BY <1>1, <1>2, <1>3, <1>4, <1>5, <1>6

(* A call into the implementation *)
LEMMA StartOperationInv == IInv /\ StartOperation => IInv'
<1> SUFFICES ASSUME IInv, StartOperation PROVE IInv'
  OBVIOUS
<1> USE NothingAssumption
    DEF IInv, StartOperation, TypeOK, Promise, Working, GaveUpConnecting,
        acquired, implementation, verdict
<1>1. TypeOK'
  BY DEF ImplementationInv
<1>2. TransportInv'
  BY DEF TransportInv
<1>3. ImplementationInv'
  BY DEF ImplementationInv
<1>4. ErrorInv'
  BY DEF ErrorInv
<1>5. LifetimeInv'
  BY DEF LifetimeInv
<1>6. ResultInv' /\ ResultIsAFact'
  BY NoResultYet
<1>7. QED
  BY <1>1, <1>2, <1>3, <1>4, <1>5, <1>6

(* The corpus is complete. *)
LEMMA CompleteInv == IInv /\ Complete => IInv'
<1> SUFFICES ASSUME IInv, Complete PROVE IInv'
  OBVIOUS
<1> USE NothingAssumption
    DEF IInv, Complete, TypeOK, Promise, Working, GaveUpConnecting,
        acquired, implementation, verdict
<1>1. TypeOK'
  BY DEF ImplementationInv
<1>2. TransportInv'
  BY DEF TransportInv
<1>3. ImplementationInv'
  BY DEF ImplementationInv
<1>4. ErrorInv'
  BY DEF ErrorInv
<1>5. LifetimeInv'
  BY DEF LifetimeInv
<1>6. ResultInv' /\ ResultIsAFact'
  BY NoResultYet
<1>7. QED
  BY <1>1, <1>2, <1>3, <1>4, <1>5, <1>6

(* The signal is raised. *)
LEMMA CancelInv == IInv /\ Cancel => IInv'
<1> SUFFICES ASSUME IInv, Cancel PROVE IInv'
  OBVIOUS
<1> USE NothingAssumption
    DEF IInv, Cancel, TypeOK, Promise, Working, GaveUpConnecting,
        acquired, implementation, verdict
<1>1. TypeOK'
  BY DEF ImplementationInv
<1>2. TransportInv'
  BY DEF TransportInv
<1>3. ImplementationInv'
  BY DEF ImplementationInv
<1>4. ErrorInv'
  BY DEF ErrorInv
<1>5. LifetimeInv'
  BY DEF LifetimeInv
<1>6. ResultInv' /\ ResultIsAFact'
  BY NoResultYet
<1>7. QED
  BY <1>1, <1>2, <1>3, <1>4, <1>5, <1>6

(* A transport that came too late is closed: a result that calls itself    *)
(* quiet has none outstanding.                                             *)
LEMMA LateCloseInv == IInv /\ LateClose => IInv'
<1> SUFFICES ASSUME IInv, LateClose PROVE IInv'
  OBVIOUS
<1> USE NothingAssumption
    DEF IInv, LateClose, TypeOK, Promise, Working, GaveUpConnecting,
        acquired, implementation, verdict
<1>1. TypeOK'
  BY DEF ImplementationInv
<1>2. TransportInv'
  BY DEF TransportInv
<1>3. ImplementationInv'
  BY DEF ImplementationInv
<1>4. ErrorInv'
  BY DEF ErrorInv
<1>5. LifetimeInv'
  BY DEF LifetimeInv
<1>6. ResultInv' /\ ResultIsAFact'
  BY DEF ResultInv, ResultIsAFact, ConfirmedIsQuiet, SucceededMeansReleased,
         PassedIsClean, Returned, LateConnector, TransportInv, ImplementationInv
<1>7. QED
  BY <1>1, <1>2, <1>3, <1>4, <1>5, <1>6

(* An implementation that came too late is disposed of: likewise. *)
LEMMA LateDisposeInv == IInv /\ LateDispose => IInv'
<1> SUFFICES ASSUME IInv, LateDispose PROVE IInv'
  OBVIOUS
<1> USE NothingAssumption
    DEF IInv, LateDispose, TypeOK, Promise, Working, GaveUpConnecting,
        acquired, implementation, verdict, SettledPromise
<1>1. TypeOK'
  BY DEF ImplementationInv
<1>2. TransportInv'
  BY DEF TransportInv
<1>3. ImplementationInv'
  BY DEF ImplementationInv
<1>4. ErrorInv'
  BY DEF ErrorInv
<1>5. LifetimeInv'
  BY DEF TransportInv, ImplementationInv, LifetimeInv
<1>6. ResultInv' /\ ResultIsAFact'
  BY DEF ResultInv, ResultIsAFact, ConfirmedIsQuiet, SucceededMeansReleased,
         PassedIsClean, Returned, LateConnector, TransportInv, ImplementationInv
<1>7. QED
  BY <1>1, <1>2, <1>3, <1>4, <1>5, <1>6

(* The cleanup's deadline passes. *)
LEMMA BudgetEndsInv == IInv /\ BudgetEnds => IInv'
<1> SUFFICES ASSUME IInv, BudgetEnds PROVE IInv'
  OBVIOUS
<1> USE NothingAssumption
    DEF IInv, BudgetEnds, TypeOK, Promise, Working, GaveUpConnecting,
        acquired, implementation, verdict
<1>1. TypeOK'
  BY DEF ImplementationInv
<1>2. TransportInv'
  BY DEF TransportInv
<1>3. ImplementationInv'
  BY DEF ImplementationInv
<1>4. ErrorInv'
  BY DEF ErrorInv
<1>5. LifetimeInv'
  BY DEF LifetimeInv
<1>6. ResultInv' /\ ResultIsAFact'
  BY DEF ResultInv, ResultIsAFact, ConfirmedIsQuiet, SucceededMeansReleased,
         PassedIsClean, Returned, LateConnector, TransportInv, ImplementationInv
<1>7. QED
  BY <1>1, <1>2, <1>3, <1>4, <1>5, <1>6

(* The connector settles. *)
LEMMA ConnectorSettlesInv == IInv /\ ConnectorSettles => IInv'
<1> SUFFICES ASSUME IInv, ConnectorSettles PROVE IInv'
  OBVIOUS
<1> USE NothingAssumption
    DEF IInv, ConnectorSettles, TypeOK, Promise, Working, GaveUpConnecting,
        acquired, implementation, verdict, SettledPromise
<1>1. TypeOK'
  BY DEF ImplementationInv
<1>2. TransportInv'
  BY DEF TransportInv
<1>3. ImplementationInv'
  BY DEF ImplementationInv
<1>4. ErrorInv'
  BY DEF ErrorInv
<1>5. LifetimeInv'
  BY DEF LifetimeInv
<1>6. ResultInv' /\ ResultIsAFact'
  BY DEF ResultInv, ResultIsAFact, ConfirmedIsQuiet, SucceededMeansReleased,
         PassedIsClean, Returned, LateConnector, TransportInv, ImplementationInv
<1>7. QED
  BY <1>1, <1>2, <1>3, <1>4, <1>5, <1>6

(* The factory settles. *)
LEMMA FactorySettlesInv == IInv /\ FactorySettles => IInv'
<1> SUFFICES ASSUME IInv, FactorySettles PROVE IInv'
  OBVIOUS
<1> USE NothingAssumption
    DEF IInv, FactorySettles, TypeOK, Promise, Working, GaveUpConnecting,
        acquired, implementation, verdict, SettledPromise
<1>1. TypeOK'
  <2>1. lifetime' \in [cleanupFailed : BOOLEAN, unconfirmed : BOOLEAN]
    OBVIOUS
  <2>2. factory' \in Promise /\ stage' \in {"configuration", "negotiation", "factory", "replay"}
    OBVIOUS
  <2>3. QED
    BY <2>1, <2>2
<1>2. TransportInv'
  BY DEF TransportInv
<1>3. ImplementationInv'
  BY DEF ImplementationInv
<1>4. ErrorInv'
  BY DEF ErrorInv
<1>5. LifetimeInv'
  BY DEF LifetimeInv
<1>6. ResultInv' /\ ResultIsAFact'
  BY DEF ResultInv, ResultIsAFact, ConfirmedIsQuiet, SucceededMeansReleased,
         PassedIsClean, Returned, LateConnector, TransportInv, ImplementationInv
<1>7. QED
  BY <1>1, <1>2, <1>3, <1>4, <1>5, <1>6

(* An operation settles. *)
LEMMA OperationSettlesInv == IInv /\ OperationSettles => IInv'
<1> SUFFICES ASSUME IInv, OperationSettles PROVE IInv'
  OBVIOUS
<1> USE NothingAssumption
    DEF IInv, OperationSettles, TypeOK, Promise, Working, GaveUpConnecting,
        acquired, implementation, verdict, SettledPromise
<1>1. TypeOK'
  BY DEF ImplementationInv
<1>2. TransportInv'
  BY DEF TransportInv
<1>3. ImplementationInv'
  BY DEF ImplementationInv
<1>4. ErrorInv'
  BY DEF ErrorInv
<1>5. LifetimeInv'
  BY DEF LifetimeInv
<1>6. ResultInv' /\ ResultIsAFact'
  BY DEF ResultInv, ResultIsAFact, ConfirmedIsQuiet, SucceededMeansReleased,
         PassedIsClean, Returned, LateConnector, TransportInv, ImplementationInv
<1>7. QED
  BY <1>1, <1>2, <1>3, <1>4, <1>5, <1>6

(* The disposer settles. *)
LEMMA DisposeSettlesInv == IInv /\ DisposeSettles => IInv'
<1> SUFFICES ASSUME IInv, DisposeSettles PROVE IInv'
  OBVIOUS
<1> USE NothingAssumption
    DEF IInv, DisposeSettles, TypeOK, Promise, Working, GaveUpConnecting,
        acquired, implementation, verdict, SettledPromise
<1>1. TypeOK'
  BY DEF ImplementationInv
<1>2. TransportInv'
  BY DEF TransportInv
<1>3. ImplementationInv'
  BY DEF ImplementationInv
<1>4. ErrorInv'
  BY DEF ErrorInv
<1>5. LifetimeInv'
  BY DEF LifetimeInv
<1>6. ResultInv' /\ ResultIsAFact'
  BY DEF ResultInv, ResultIsAFact, ConfirmedIsQuiet, SucceededMeansReleased,
         PassedIsClean, Returned, LateConnector, TransportInv, ImplementationInv
<1>7. QED
  BY <1>1, <1>2, <1>3, <1>4, <1>5, <1>6

(* close() settles. *)
LEMMA CloseSettlesInv == IInv /\ CloseSettles => IInv'
<1> SUFFICES ASSUME IInv, CloseSettles PROVE IInv'
  OBVIOUS
<1> USE NothingAssumption
    DEF IInv, CloseSettles, TypeOK, Promise, Working, GaveUpConnecting,
        acquired, implementation, verdict, SettledPromise
<1>1. TypeOK'
  BY DEF ImplementationInv
<1>2. TransportInv'
  BY DEF TransportInv
<1>3. ImplementationInv'
  BY DEF ImplementationInv
<1>4. ErrorInv'
  BY DEF ErrorInv
<1>5. LifetimeInv'
  BY DEF LifetimeInv
<1>6. ResultInv' /\ ResultIsAFact'
  BY DEF ResultInv, ResultIsAFact, ConfirmedIsQuiet, SucceededMeansReleased,
         PassedIsClean, Returned, LateConnector, TransportInv, ImplementationInv
<1>7. QED
  BY <1>1, <1>2, <1>3, <1>4, <1>5, <1>6

(* join(): the result is computed from what the waits have established. *)
LEMMA JoinInv == IInv /\ Join => IInv'
<1> SUFFICES ASSUME IInv, Join PROVE IInv'
  OBVIOUS
<1> USE NothingAssumption
    DEF IInv, Join, TypeOK, Promise, Working, GaveUpConnecting, acquired,
        implementation
<1>1. /\ result' = Result(lifetime') /\ result' \in Results /\ result' # Nothing
      /\ lifetime' \in [cleanupFailed : BOOLEAN, unconfirmed : BOOLEAN]
  <2>1. lifetime' \in [cleanupFailed : BOOLEAN, unconfirmed : BOOLEAN]
    OBVIOUS
  <2>2. Result(lifetime') \in Results
    BY <2>1 DEF Result, Results, CleanupStatus, FailureStage
  <2>3. QED
    BY <2>1, <2>2
<1>2. TypeOK'
  BY <1>1
<1>3. TransportInv'
  BY DEF TransportInv
<1>4. ImplementationInv'
  BY DEF ImplementationInv
<1>5. ErrorInv'
  BY DEF ErrorInv
<1>6. LifetimeInv'
  BY DEF LifetimeInv
<1>7. /\ result'.status = "succeeded" => result'.quiescence = "confirmed"
      /\ result'.outcome = "passed" => result'.status = "succeeded" /\ error = Nothing
                                        /\ evidence = "covered"
      /\ result'.quiescence = "confirmed" => ~lifetime.unconfirmed /\ ~Pending /\ ~Hidden
      /\ result'.status = "succeeded" =>
            ~lifetime.cleanupFailed /\ ~(GaveUpConnecting /\ transport = "failed")
  BY <1>1 DEF Result, CleanupStatus, Passes, Hidden
<1>8. ResultInv' /\ ResultIsAFact'
  BY <1>1, <1>7
     DEF ResultInv, ResultIsAFact, ConfirmedIsQuiet, SucceededMeansReleased, PassedIsClean,
         Returned, LateConnector, Pending, Hidden, SettledPromise, TransportInv,
         ImplementationInv, ErrorInv, LifetimeInv
<1>9. QED
  BY <1>2, <1>3, <1>4, <1>5, <1>6, <1>8

-----------------------------------------------------------------------------
(* Every step keeps the invariant. *)
LEMMA StepInv == IInv /\ [Next]_vars => IInv'
<1> SUFFICES ASSUME IInv, [Next]_vars PROVE IInv'
  OBVIOUS
<1>1. CASE Run
  BY <1>1, PreflightInv, ConnectInv, ResolveTransportInv, RegisterInv, ConstructInv,
     ReplayEndsInv, AwaitBindingInv, AwaitCloseInv, CloseOwnedInv, JoinInv DEF Run
<1>2. CASE StartOperation \/ Complete \/ LateClose \/ LateDispose \/ Cancel \/ BudgetEnds
  BY <1>2, StartOperationInv, CompleteInv, LateCloseInv, LateDisposeInv, CancelInv,
     BudgetEndsInv
<1>3. CASE \/ ConnectorSettles \/ FactorySettles \/ OperationSettles \/ DisposeSettles
           \/ CloseSettles
  BY <1>3, ConnectorSettlesInv, FactorySettlesInv, OperationSettlesInv, DisposeSettlesInv,
     CloseSettlesInv
<1>4. CASE UNCHANGED vars
  <2> USE <1>4 DEF vars, acquired, implementation, verdict, GaveUpConnecting
  <2>1. TypeOK' /\ TransportInv' /\ ImplementationInv' /\ ErrorInv' /\ LifetimeInv'
    BY DEF IInv, TypeOK, TransportInv, ImplementationInv, ErrorInv, LifetimeInv
  <2>2. ResultInv' /\ ResultIsAFact'
    BY DEF IInv, ResultInv, ResultIsAFact, ConfirmedIsQuiet, SucceededMeansReleased,
           PassedIsClean, Returned, LateConnector
  <2>3. QED
    BY <2>1, <2>2 DEF IInv
<1>5. QED
  BY <1>1, <1>2, <1>3, <1>4 DEF Next

(* The inductive invariant holds throughout every run. *)
LEMMA InvHolds == Spec => []IInv
<1>1. QED
  BY InitInv, StepInv, PTL DEF Spec

(* The variables of a suite run keep to their types; in particular the      *)
(* disposer of an implementation is called at most once, by the replay      *)
(* runner or, for one that came late, by lateFactoryCleanup.                *)
THEOREM SuiteRunTypes == Spec => []TypeOK
<1>1. IInv => TypeOK
  BY DEF IInv
<1>2. QED
  BY <1>1, InvHolds, PTL

(* What executeSuite returns is true of the promises it started: quiescence *)
(* "confirmed" means that none of them is running, cleanup "succeeded" that *)
(* all that was acquired was released, and "passed" both, on full evidence. *)
THEOREM ResultsAreFacts == Spec => []ResultIsAFact
<1>1. IInv => ResultIsAFact
  BY DEF IInv
<1>2. QED
  BY <1>1, InvHolds, PTL

(* No error of the cleanup, no late promise and no cancellation replaces    *)
(* the error the run failed with first.                                     *)
THEOREM PrimaryErrorIsKept == Spec => PrimaryErrorKept
<1>1. IInv /\ [Next]_vars => [error # Nothing /\ error.at # "cleanup" => error' = error]_vars
  <2> SUFFICES ASSUME IInv, Next, error # Nothing, error.at # "cleanup"
               PROVE  error' = error
    OBVIOUS
  <2>1. pc \notin Working
    BY DEF IInv, ErrorInv
  <2>2. CASE Run
    BY <2>1, <2>2 DEF Run, Working, Preflight, Connect, ResolveTransport, Register, Construct,
       ReplayEnds, AwaitBinding, AwaitClose, CloseOwned, Join, CleanupError, verdict
  <2>3. CASE ~Run
    BY <2>1, <2>3 DEF Next, StartOperation, Complete, LateClose, LateDispose, Cancel, BudgetEnds,
       ConnectorSettles, FactorySettles, OperationSettles, DisposeSettles, CloseSettles, verdict
  <2>4. QED
    BY <2>2, <2>3
<1>2. QED
  BY <1>1, InvHolds, PTL DEF Spec, PrimaryErrorKept

-----------------------------------------------------------------------------
(* What a matched selection has passed *)

(* What a caller may rely on when a selection was matched *)
Admitted(s) ==
    /\ s.fault \in {"none", "observation"}
    /\ \/ s.declaredState = "supported"
       \/ /\ s.declaredState = "candidate"
          /\ s.approval = "binding" \/ s.admission = "qualification-candidate"
    /\ (s.fault = "observation" /\ s.admission = "support-required") => s.approval = "binding"

(* A check that refuses for nothing is passed. *)
LEMMA CheckPasses ==
    ASSUME NEW w, NEW c, Refusal(w, c) = {}
    PROVE  ~w
BY DEF Refusal

(* preflightFrameworkSelection: a selection that is matched is admitted, and *)
(* one that is not is refused with a code of the catalog.                    *)
LEMMA MatchedIsAdmitted ==
    ASSUME NEW s \in FrameworkPreflightInput
    PROVE  /\ preflightFrameworkSelection(s) \subseteq FrameworkRefusalCode
           /\ preflightFrameworkSelection(s) = {} => Admitted(s)
<1>1. preflightFrameworkSelection(s) \subseteq FrameworkRefusalCode
  <2>1. \A w, c : Refusal(w, c) \subseteq {c}
      BY DEF Refusal
  <2>2. CombinationRefusals(s) \subseteq FrameworkRefusalCode
      BY DEF CombinationRefusals, Refusal, FrameworkRefusalCode
  <2>3. validatedDistribution(s) \subseteq FrameworkRefusalCode
      BY DEF validatedDistribution, Refusal, FrameworkRefusalCode
  <2>4. ApprovalRefusals(s) \subseteq FrameworkRefusalCode
    <3>1. "combination_unsupported" \in FrameworkRefusalCode
        BY DEF FrameworkRefusalCode
    <3>. QED
        BY <2>1, <3>1 DEF ApprovalRefusals
  <2>5. CapabilityRefusals(s) \subseteq FrameworkRefusalCode
      BY DEF CapabilityRefusals, Refusal, FrameworkRefusalCode
  <2>6. InstalledRefusals(s) \subseteq FrameworkRefusalCode
      BY DEF InstalledRefusals, Refusal, FrameworkRefusalCode
  <2>. QED
      BY <2>2, <2>3, <2>4, <2>5, <2>6 DEF preflightFrameworkSelection
<1>2. ASSUME preflightFrameworkSelection(s) = {}
      PROVE  Admitted(s)
  <2>1. /\ CombinationRefusals(s) = {} /\ validatedDistribution(s) = {}
        /\ ApprovalRefusals(s) = {} /\ CapabilityRefusals(s) = {}
        /\ InstalledRefusals(s) = {}
      BY <1>2 DEF preflightFrameworkSelection
  <2>2. /\ s.fault \notin {"catalog", "digest"} /\ s.admission # "other"
        /\ s.declaredState \notin {"absent", "unsupported"}
      BY <2>1 DEF CombinationRefusals, Refusal
  <2>3. s.fault \notin {"manifest", "cache", "distribution", "artifact"}
      BY <2>1 DEF validatedDistribution, Refusal
  <2>4. /\ s.approval # "unbound"
        /\ ~(s.admission = "support-required" /\ s.declaredState # "supported"
               /\ ~approvedCandidate(s))
      BY <2>1, CheckPasses DEF ApprovalRefusals
  <2>5. /\ s.fault \notin {"selection", "component", "platform", "capability"}
        /\ ~(s.fault = "observation" /\ s.admission = "support-required"
               /\ ~approvedCandidate(s))
      BY <2>1 DEF CapabilityRefusals, Refusal
  <2>6. s.fault \notin {"package", "executable", "runtime"}
      BY <2>1 DEF InstalledRefusals, Refusal
  <2>7. /\ s.fault \in Faults /\ s.declaredState \in DeclaredStates
        /\ s.admission \in Admissions /\ s.approval \in Approvals
      BY DEF FrameworkPreflightInput
  <2>8. s.fault \in {"none", "observation"}
      BY <2>2, <2>3, <2>5, <2>6, <2>7 DEF Faults
  <2>. QED
      BY <2>2, <2>4, <2>5, <2>7, <2>8
      DEF Admitted, approvedCandidate, DeclaredStates, Admissions, Approvals
<1>. QED
    BY <1>1, <1>2

-----------------------------------------------------------------------------
(* The plans, step by step *)

(* The steps of two plans, one after the other *)
LEMMA Joined ==
    ASSUME NEW a \in Seq(PlanSteps), NEW b \in Seq(PlanSteps)
    PROVE  /\ a \o b \in Seq(PlanSteps) /\ Len(a \o b) = Len(a) + Len(b)
           /\ \A i \in 1 .. Len(a) : (a \o b)[i] = a[i]
           /\ \A i \in Len(a) + 1 .. Len(a) + Len(b) : (a \o b)[i] = b[i - Len(a)]
<1>. DEFINE c == a \o b
<1>1. /\ c \in Seq(PlanSteps) /\ Len(c) = Len(a) + Len(b)
      /\ \A i \in 1 .. Len(a) + Len(b) : c[i] = IF i <= Len(a) THEN a[i] ELSE b[i - Len(a)]
    BY ConcatProperties
<1>. HIDE DEF c
<1>2. Len(a) \in Nat /\ Len(b) \in Nat
    BY LenProperties
<1>3. \A i \in 1 .. Len(a) : c[i] = a[i]
    BY <1>1, <1>2
<1>4. \A i \in Len(a) + 1 .. Len(a) + Len(b) : c[i] = b[i - Len(a)]
    BY <1>1, <1>2
<1>. QED
    BY <1>1, <1>3, <1>4 DEF c

(* A plan begins with << "flags" >>: the rest comes one later. *)
LEMMA FlagsFirst ==
    ASSUME NEW b \in Seq(PlanSteps)
    PROVE  LET p == << "flags" >> \o b
           IN  /\ p \in Seq(PlanSteps) /\ Len(p) = Len(b) + 1 /\ p[1] = "flags"
               /\ \A i \in 2 .. Len(b) + 1 : p[i] = b[i - 1]
<1>. DEFINE a == << "flags" >>
            p == a \o b
<1>1. a \in Seq(PlanSteps) /\ Len(a) = 1 /\ a[1] = "flags"
    BY DEF PlanSteps
<1>. HIDE DEF a
<1>2. /\ p \in Seq(PlanSteps) /\ Len(p) = Len(a) + Len(b)
      /\ \A i \in 1 .. Len(a) : p[i] = a[i]
      /\ \A i \in Len(a) + 1 .. Len(a) + Len(b) : p[i] = b[i - Len(a)]
    BY <1>1, Joined
<1>3. Len(b) \in Nat
    BY LenProperties
<1>. HIDE DEF p
<1>4. /\ p \in Seq(PlanSteps) /\ Len(p) = Len(b) + 1 /\ p[1] = "flags"
      /\ \A i \in 2 .. Len(b) + 1 : p[i] = b[i - 1]
    BY <1>1, <1>2, <1>3
<1>. QED
    BY <1>4 DEF p, a

(* What the compiler is asked of a bundle: itself, and each trace *)
LEMMA CompilerChecksAre ==
    LET s == CompilerChecks
    IN  /\ s \in Seq(PlanSteps) /\ Len(s) = Traces + 1 /\ s[1] = "check-bundle"
        /\ \A i \in 2 .. Traces + 1 : s[i] = "preflight-trace"
<1>. DEFINE a == << "check-bundle" >>
            b == [t \in 1 .. Traces |-> "preflight-trace"]
            s == a \o b
<1>0. Traces \in Nat
    BY ProjectAssumption
<1>1. a \in Seq(PlanSteps) /\ Len(a) = 1 /\ a[1] = "check-bundle"
    BY DEF PlanSteps, ToolSteps
<1>2. b \in Seq(PlanSteps) /\ Len(b) = Traces /\ \A i \in 1 .. Traces : b[i] = "preflight-trace"
    BY <1>0 DEF PlanSteps, ToolSteps
<1>. HIDE DEF a, b
<1>3. /\ s \in Seq(PlanSteps) /\ Len(s) = Len(a) + Len(b)
      /\ \A i \in 1 .. Len(a) : s[i] = a[i]
      /\ \A i \in Len(a) + 1 .. Len(a) + Len(b) : s[i] = b[i - Len(a)]
    BY <1>1, <1>2, Joined
<1>. HIDE DEF s
<1>4. /\ s \in Seq(PlanSteps) /\ Len(s) = Traces + 1 /\ s[1] = "check-bundle"
      /\ \A i \in 2 .. Traces + 1 : s[i] = "preflight-trace"
    BY <1>0, <1>1, <1>2, <1>3
<1>. QED
    BY <1>4 DEF s, a, b, CompilerChecks

(* checkProject *)
LEMMA checkProjectIs ==
    ASSUME NEW again \in BOOLEAN
    PROVE  LET s == checkProject(again)
           IN  /\ s \in Seq(PlanSteps) /\ Len(s) = Traces + 7
               /\ s[1] = (IF again THEN "require-loaded" ELSE "require") /\ s[2] = "preflight" /\ s[3] \in {"load", "reload"}
               /\ s[4] = "bind" /\ s[5] = "check-bundle"
               /\ \A i \in 6 .. Traces + 5 : s[i] = "preflight-trace"
               /\ s[Traces + 6] = "verify" /\ s[Traces + 7] = "bind"
<1>. DEFINE first == IF again THEN "require-loaded" ELSE "require"
            a == IF again THEN << "require-loaded", "preflight", "reload", "bind" >> ELSE Prepare
            b == CompilerChecks
            c == << "verify", "bind" >>
            ab == a \o b
            s == ab \o c
<1>0. Traces \in Nat
    BY ProjectAssumption
<1>1. /\ a \in Seq(PlanSteps) /\ Len(a) = 4 /\ a[1] = first /\ a[2] = "preflight"
      /\ a[3] \in {"load", "reload"} /\ a[4] = "bind"
  <2>1. CASE again
      BY <2>1 DEF PlanSteps
  <2>2. CASE ~again
      BY <2>2 DEF Prepare, PlanSteps
  <2>. QED
      BY <2>1, <2>2
<1>2. /\ b \in Seq(PlanSteps) /\ Len(b) = Traces + 1 /\ b[1] = "check-bundle"
      /\ \A i \in 2 .. Traces + 1 : b[i] = "preflight-trace"
    BY CompilerChecksAre
<1>3. c \in Seq(PlanSteps) /\ Len(c) = 2 /\ c[1] = "verify" /\ c[2] = "bind"
    BY DEF PlanSteps
<1>4. s = checkProject(again)
    BY DEF checkProject
<1>. HIDE DEF a, b, c, first
<1>5. /\ ab \in Seq(PlanSteps) /\ Len(ab) = Len(a) + Len(b)
      /\ \A i \in 1 .. Len(a) : ab[i] = a[i]
      /\ \A i \in Len(a) + 1 .. Len(a) + Len(b) : ab[i] = b[i - Len(a)]
    BY <1>1, <1>2, Joined
<1>. HIDE DEF ab
<1>6. /\ Len(ab) = Traces + 5 /\ ab[1] = first /\ ab[2] = "preflight"
      /\ ab[3] \in {"load", "reload"} /\ ab[4] = "bind" /\ ab[5] = "check-bundle"
      /\ \A i \in 6 .. Traces + 5 : ab[i] = "preflight-trace"
    BY <1>0, <1>1, <1>2, <1>5
<1>7. /\ s \in Seq(PlanSteps) /\ Len(s) = Len(ab) + Len(c)
      /\ \A i \in 1 .. Len(ab) : s[i] = ab[i]
      /\ \A i \in Len(ab) + 1 .. Len(ab) + Len(c) : s[i] = c[i - Len(ab)]
    BY <1>3, <1>5, Joined
<1>. HIDE DEF s
<1>8. /\ s \in Seq(PlanSteps) /\ Len(s) = Traces + 7
      /\ s[1] = first /\ s[2] = "preflight" /\ s[3] \in {"load", "reload"}
      /\ s[4] = "bind" /\ s[5] = "check-bundle"
      /\ \A i \in 6 .. Traces + 5 : s[i] = "preflight-trace"
      /\ s[Traces + 6] = "verify" /\ s[Traces + 7] = "bind"
    BY <1>0, <1>3, <1>6, <1>7
<1>. QED
    BY <1>4, <1>8 DEF first
(* generateProject *)
LEMMA generateProjectIs ==
    LET s == generateProject
    IN  /\ s \in Seq(PlanSteps) /\ Len(s) = Traces + 14
        /\ s[1] = "require" /\ s[2] = "preflight" /\ s[3] = "load"
        /\ s[4] = "bind" /\ s[5] = "contract" /\ s[6] = "resolve"
        /\ s[7] = "bundle"
        /\ s[8] = "require-loaded" /\ s[9] = "preflight" /\ s[10] \in {"load", "reload"}
        /\ s[11] = "bind" /\ s[12] = "check-bundle"
        /\ \A i \in 13 .. Traces + 12 : s[i] = "preflight-trace"
        /\ s[Traces + 13] = "verify" /\ s[Traces + 14] = "bind"
<1>. DEFINE a == Prepare
            b == << "contract", "resolve", "bundle" >>
            c == checkProject(TRUE)
            ab == a \o b
            s == ab \o c
<1>0. Traces \in Nat
    BY ProjectAssumption
<1>1. /\ a \in Seq(PlanSteps) /\ Len(a) = 4
      /\ a[1] = "require" /\ a[2] = "preflight" /\ a[3] = "load"
      /\ a[4] = "bind"
    BY DEF Prepare, PlanSteps
<1>2. /\ b \in Seq(PlanSteps) /\ Len(b) = 3
      /\ b[1] = "contract" /\ b[2] = "resolve" /\ b[3] = "bundle"
    BY DEF PlanSteps, ToolSteps
<1>3. /\ c \in Seq(PlanSteps) /\ Len(c) = Traces + 7
      /\ c[1] = "require-loaded" /\ c[2] = "preflight" /\ c[3] \in {"load", "reload"}
      /\ c[4] = "bind" /\ c[5] = "check-bundle"
      /\ \A i \in 6 .. Traces + 5 : c[i] = "preflight-trace"
      /\ c[Traces + 6] = "verify" /\ c[Traces + 7] = "bind"
    BY checkProjectIs
<1>4. s = generateProject
    BY DEF generateProject
<1>. HIDE DEF a, b, c
<1>5. /\ ab \in Seq(PlanSteps) /\ Len(ab) = Len(a) + Len(b)
      /\ \A i \in 1 .. Len(a) : ab[i] = a[i]
      /\ \A i \in Len(a) + 1 .. Len(a) + Len(b) : ab[i] = b[i - Len(a)]
    BY <1>1, <1>2, Joined
<1>. HIDE DEF ab
<1>6. /\ ab \in Seq(PlanSteps) /\ Len(ab) = 7
      /\ ab[1] = "require" /\ ab[2] = "preflight" /\ ab[3] = "load"
      /\ ab[4] = "bind" /\ ab[5] = "contract" /\ ab[6] = "resolve"
      /\ ab[7] = "bundle"
    BY <1>0, <1>1, <1>2, <1>5
<1>7. /\ s \in Seq(PlanSteps) /\ Len(s) = Len(ab) + Len(c)
      /\ \A i \in 1 .. Len(ab) : s[i] = ab[i]
      /\ \A i \in Len(ab) + 1 .. Len(ab) + Len(c) : s[i] = c[i - Len(ab)]
    BY <1>6, <1>3, Joined
<1>. HIDE DEF s
<1>8. /\ s \in Seq(PlanSteps) /\ Len(s) = Traces + 14
      /\ s[1] = "require" /\ s[2] = "preflight" /\ s[3] = "load"
      /\ s[4] = "bind" /\ s[5] = "contract" /\ s[6] = "resolve"
      /\ s[7] = "bundle"
      /\ s[8] = "require-loaded" /\ s[9] = "preflight" /\ s[10] \in {"load", "reload"}
      /\ s[11] = "bind" /\ s[12] = "check-bundle"
      /\ \A i \in 13 .. Traces + 12 : s[i] = "preflight-trace"
      /\ s[Traces + 13] = "verify" /\ s[Traces + 14] = "bind"
    BY <1>0, <1>6, <1>3, <1>7
<1>. QED
    BY <1>4, <1>8

(* replayProject without an admission: the bundle is checked first *)
LEMMA replayCheckedIs ==
    LET s == replayProject(Absent)
    IN  /\ s \in Seq(PlanSteps) /\ Len(s) = Traces + 19
        /\ s[1] = "require" /\ s[2] = "preflight" /\ s[3] = "load"
        /\ s[4] = "bind"
        /\ s[5] = "require-loaded" /\ s[6] = "preflight" /\ s[7] \in {"load", "reload"}
        /\ s[8] = "bind" /\ s[9] = "check-bundle"
        /\ \A i \in 10 .. Traces + 9 : s[i] = "preflight-trace"
        /\ s[Traces + 10] = "verify" /\ s[Traces + 11] = "bind"
        /\ s[Traces + 12] = "bind"
        /\ s[Traces + 13] = "server-look" /\ s[Traces + 14] = "module-look"
        /\ s[Traces + 15] = "import-model" /\ s[Traces + 16] = "spawn-server"
        /\ s[Traces + 17] = "import-adapter" /\ s[Traces + 18] = "suite-ends"
        /\ s[Traces + 19] = "write-result"
<1>. DEFINE a == Prepare
            b == checkProject(TRUE)
            c == << "bind" >>
            d == executePreparedProject
            e == << "write-result" >>
            ab == a \o b
            abc == ab \o c
            ad == abc \o d
            s == ad \o e
<1>0. Traces \in Nat
    BY ProjectAssumption
<1>1. /\ a \in Seq(PlanSteps) /\ Len(a) = 4
      /\ a[1] = "require" /\ a[2] = "preflight" /\ a[3] = "load"
      /\ a[4] = "bind"
    BY DEF Prepare, PlanSteps
<1>2. /\ b \in Seq(PlanSteps) /\ Len(b) = Traces + 7
      /\ b[1] = "require-loaded" /\ b[2] = "preflight" /\ b[3] \in {"load", "reload"}
      /\ b[4] = "bind" /\ b[5] = "check-bundle"
      /\ \A i \in 6 .. Traces + 5 : b[i] = "preflight-trace"
      /\ b[Traces + 6] = "verify" /\ b[Traces + 7] = "bind"
    BY checkProjectIs
<1>3. /\ c \in Seq(PlanSteps) /\ Len(c) = 1 /\ c[1] = "bind"
    BY DEF PlanSteps
<1>4. /\ d \in Seq(PlanSteps) /\ Len(d) = 6
      /\ d[1] = "server-look" /\ d[2] = "module-look" /\ d[3] = "import-model"
      /\ d[4] = "spawn-server" /\ d[5] = "import-adapter" /\ d[6] = "suite-ends"
    BY DEF executePreparedProject, PlanSteps
<1>5. /\ e \in Seq(PlanSteps) /\ Len(e) = 1 /\ e[1] = "write-result"
    BY DEF PlanSteps
<1>6. s = replayProject(Absent)
    BY DEF replayProject
<1>. HIDE DEF a, b, c, d, e
<1>7. /\ ab \in Seq(PlanSteps) /\ Len(ab) = Len(a) + Len(b)
      /\ \A i \in 1 .. Len(a) : ab[i] = a[i]
      /\ \A i \in Len(a) + 1 .. Len(a) + Len(b) : ab[i] = b[i - Len(a)]
    BY <1>1, <1>2, Joined
<1>. HIDE DEF ab
<1>8. /\ ab \in Seq(PlanSteps) /\ Len(ab) = Traces + 11
      /\ ab[1] = "require" /\ ab[2] = "preflight" /\ ab[3] = "load"
      /\ ab[4] = "bind"
      /\ ab[5] = "require-loaded" /\ ab[6] = "preflight" /\ ab[7] \in {"load", "reload"}
      /\ ab[8] = "bind" /\ ab[9] = "check-bundle"
      /\ \A i \in 10 .. Traces + 9 : ab[i] = "preflight-trace"
      /\ ab[Traces + 10] = "verify" /\ ab[Traces + 11] = "bind"
    BY <1>0, <1>1, <1>2, <1>7
<1>9. /\ abc \in Seq(PlanSteps) /\ Len(abc) = Len(ab) + Len(c)
      /\ \A i \in 1 .. Len(ab) : abc[i] = ab[i]
      /\ \A i \in Len(ab) + 1 .. Len(ab) + Len(c) : abc[i] = c[i - Len(ab)]
    BY <1>8, <1>3, Joined
<1>. HIDE DEF abc
<1>10. /\ abc \in Seq(PlanSteps) /\ Len(abc) = Traces + 12
       /\ abc[1] = "require" /\ abc[2] = "preflight" /\ abc[3] = "load"
       /\ abc[4] = "bind"
       /\ abc[5] = "require-loaded" /\ abc[6] = "preflight" /\ abc[7] \in {"load", "reload"}
       /\ abc[8] = "bind" /\ abc[9] = "check-bundle"
       /\ \A i \in 10 .. Traces + 9 : abc[i] = "preflight-trace"
       /\ abc[Traces + 10] = "verify" /\ abc[Traces + 11] = "bind"
       /\ abc[Traces + 12] = "bind"
    BY <1>0, <1>8, <1>3, <1>9
<1>11. /\ ad \in Seq(PlanSteps) /\ Len(ad) = Len(abc) + Len(d)
       /\ \A i \in 1 .. Len(abc) : ad[i] = abc[i]
       /\ \A i \in Len(abc) + 1 .. Len(abc) + Len(d) : ad[i] = d[i - Len(abc)]
    BY <1>10, <1>4, Joined
<1>. HIDE DEF ad
<1>12. /\ ad \in Seq(PlanSteps) /\ Len(ad) = Traces + 18
       /\ ad[1] = "require" /\ ad[2] = "preflight" /\ ad[3] = "load"
       /\ ad[4] = "bind"
       /\ ad[5] = "require-loaded" /\ ad[6] = "preflight" /\ ad[7] \in {"load", "reload"}
       /\ ad[8] = "bind" /\ ad[9] = "check-bundle"
       /\ \A i \in 10 .. Traces + 9 : ad[i] = "preflight-trace"
       /\ ad[Traces + 10] = "verify" /\ ad[Traces + 11] = "bind"
       /\ ad[Traces + 12] = "bind"
       /\ ad[Traces + 13] = "server-look" /\ ad[Traces + 14] = "module-look"
       /\ ad[Traces + 15] = "import-model" /\ ad[Traces + 16] = "spawn-server"
       /\ ad[Traces + 17] = "import-adapter" /\ ad[Traces + 18] = "suite-ends"
    BY <1>0, <1>10, <1>4, <1>11
<1>13. /\ s \in Seq(PlanSteps) /\ Len(s) = Len(ad) + Len(e)
       /\ \A i \in 1 .. Len(ad) : s[i] = ad[i]
       /\ \A i \in Len(ad) + 1 .. Len(ad) + Len(e) : s[i] = e[i - Len(ad)]
    BY <1>12, <1>5, Joined
<1>. HIDE DEF s
<1>14. /\ s \in Seq(PlanSteps) /\ Len(s) = Traces + 19
       /\ s[1] = "require" /\ s[2] = "preflight" /\ s[3] = "load"
       /\ s[4] = "bind"
       /\ s[5] = "require-loaded" /\ s[6] = "preflight" /\ s[7] \in {"load", "reload"}
       /\ s[8] = "bind" /\ s[9] = "check-bundle"
       /\ \A i \in 10 .. Traces + 9 : s[i] = "preflight-trace"
       /\ s[Traces + 10] = "verify" /\ s[Traces + 11] = "bind"
       /\ s[Traces + 12] = "bind"
       /\ s[Traces + 13] = "server-look" /\ s[Traces + 14] = "module-look"
       /\ s[Traces + 15] = "import-model" /\ s[Traces + 16] = "spawn-server"
       /\ s[Traces + 17] = "import-adapter" /\ s[Traces + 18] = "suite-ends"
       /\ s[Traces + 19] = "write-result"
    BY <1>0, <1>12, <1>5, <1>13
<1>. QED
    BY <1>6, <1>14

(* replayProject with one: the bundle is only verified *)
LEMMA replayAdmittedIs ==
    ASSUME NEW f, f # Absent
    PROVE  LET s == replayProject(f)
           IN  /\ s \in Seq(PlanSteps) /\ Len(s) = 13
               /\ s[1] = "require" /\ s[2] = "preflight" /\ s[3] = "load"
               /\ s[4] = "bind" /\ s[5] = "verify" /\ s[6] = "bind"
               /\ s[7] = "server-look" /\ s[8] = "module-look" /\ s[9] = "import-model"
               /\ s[10] = "spawn-server" /\ s[11] = "import-adapter" /\ s[12] = "suite-ends"
               /\ s[13] = "write-result"
<1>. DEFINE a == Prepare
            b == << "verify" >>
            c == << "bind" >>
            d == executePreparedProject
            e == << "write-result" >>
            ab == a \o b
            abc == ab \o c
            ad == abc \o d
            s == ad \o e
<1>0. Traces \in Nat
    BY ProjectAssumption
<1>1. /\ a \in Seq(PlanSteps) /\ Len(a) = 4
      /\ a[1] = "require" /\ a[2] = "preflight" /\ a[3] = "load"
      /\ a[4] = "bind"
    BY DEF Prepare, PlanSteps
<1>2. /\ b \in Seq(PlanSteps) /\ Len(b) = 1 /\ b[1] = "verify"
    BY DEF PlanSteps
<1>3. /\ c \in Seq(PlanSteps) /\ Len(c) = 1 /\ c[1] = "bind"
    BY DEF PlanSteps
<1>4. /\ d \in Seq(PlanSteps) /\ Len(d) = 6
      /\ d[1] = "server-look" /\ d[2] = "module-look" /\ d[3] = "import-model"
      /\ d[4] = "spawn-server" /\ d[5] = "import-adapter" /\ d[6] = "suite-ends"
    BY DEF executePreparedProject, PlanSteps
<1>5. /\ e \in Seq(PlanSteps) /\ Len(e) = 1 /\ e[1] = "write-result"
    BY DEF PlanSteps
<1>6. s = replayProject(f)
    BY DEF replayProject
<1>. HIDE DEF a, b, c, d, e
<1>7. /\ ab \in Seq(PlanSteps) /\ Len(ab) = Len(a) + Len(b)
      /\ \A i \in 1 .. Len(a) : ab[i] = a[i]
      /\ \A i \in Len(a) + 1 .. Len(a) + Len(b) : ab[i] = b[i - Len(a)]
    BY <1>1, <1>2, Joined
<1>. HIDE DEF ab
<1>8. /\ ab \in Seq(PlanSteps) /\ Len(ab) = 5
      /\ ab[1] = "require" /\ ab[2] = "preflight" /\ ab[3] = "load"
      /\ ab[4] = "bind" /\ ab[5] = "verify"
    BY <1>0, <1>1, <1>2, <1>7
<1>9. /\ abc \in Seq(PlanSteps) /\ Len(abc) = Len(ab) + Len(c)
      /\ \A i \in 1 .. Len(ab) : abc[i] = ab[i]
      /\ \A i \in Len(ab) + 1 .. Len(ab) + Len(c) : abc[i] = c[i - Len(ab)]
    BY <1>8, <1>3, Joined
<1>. HIDE DEF abc
<1>10. /\ abc \in Seq(PlanSteps) /\ Len(abc) = 6
       /\ abc[1] = "require" /\ abc[2] = "preflight" /\ abc[3] = "load"
       /\ abc[4] = "bind" /\ abc[5] = "verify" /\ abc[6] = "bind"
    BY <1>0, <1>8, <1>3, <1>9
<1>11. /\ ad \in Seq(PlanSteps) /\ Len(ad) = Len(abc) + Len(d)
       /\ \A i \in 1 .. Len(abc) : ad[i] = abc[i]
       /\ \A i \in Len(abc) + 1 .. Len(abc) + Len(d) : ad[i] = d[i - Len(abc)]
    BY <1>10, <1>4, Joined
<1>. HIDE DEF ad
<1>12. /\ ad \in Seq(PlanSteps) /\ Len(ad) = 12
       /\ ad[1] = "require" /\ ad[2] = "preflight" /\ ad[3] = "load"
       /\ ad[4] = "bind" /\ ad[5] = "verify" /\ ad[6] = "bind"
       /\ ad[7] = "server-look" /\ ad[8] = "module-look" /\ ad[9] = "import-model"
       /\ ad[10] = "spawn-server" /\ ad[11] = "import-adapter" /\ ad[12] = "suite-ends"
    BY <1>0, <1>10, <1>4, <1>11
<1>13. /\ s \in Seq(PlanSteps) /\ Len(s) = Len(ad) + Len(e)
       /\ \A i \in 1 .. Len(ad) : s[i] = ad[i]
       /\ \A i \in Len(ad) + 1 .. Len(ad) + Len(e) : s[i] = e[i - Len(ad)]
    BY <1>12, <1>5, Joined
<1>. HIDE DEF s
<1>14. /\ s \in Seq(PlanSteps) /\ Len(s) = 13
       /\ s[1] = "require" /\ s[2] = "preflight" /\ s[3] = "load"
       /\ s[4] = "bind" /\ s[5] = "verify" /\ s[6] = "bind"
       /\ s[7] = "server-look" /\ s[8] = "module-look" /\ s[9] = "import-model"
       /\ s[10] = "spawn-server" /\ s[11] = "import-adapter" /\ s[12] = "suite-ends"
       /\ s[13] = "write-result"
    BY <1>0, <1>12, <1>5, <1>13
<1>. QED
    BY <1>6, <1>14

(* reproduceProjectWithCatalog *)
LEMMA reproduceProjectIs ==
    LET s == reproduceProjectWithCatalog
    IN  /\ s \in Seq(PlanSteps) /\ Len(s) = 20
        /\ s[1] = "arguments" /\ s[2] = "preflight" /\ s[3] = "require"
        /\ s[4] = "preflight" /\ s[5] = "load" /\ s[6] = "bind"
        /\ s[7] = "verify" /\ s[8] = "identify" /\ s[9] = "reproduction-preflight"
        /\ s[10] = "preflight" /\ s[11] = "bind" /\ s[12] = "server-look"
        /\ s[13] = "module-look" /\ s[14] = "import-model" /\ s[15] = "spawn-server"
        /\ s[16] = "import-adapter" /\ s[17] = "suite-ends" /\ s[18] = "compare"
        /\ s[19] = "write-result" /\ s[20] = "write-cleanup"
<1>. DEFINE a == << "arguments", "preflight" >>
            b == Prepare
            c == << "verify", "identify", "reproduction-preflight", "preflight", "bind" >>
            d == executePreparedProject
            e == << "compare", "write-result", "write-cleanup" >>
            ab == a \o b
            abc == ab \o c
            ad == abc \o d
            s == ad \o e
<1>0. Traces \in Nat
    BY ProjectAssumption
<1>1. /\ a \in Seq(PlanSteps) /\ Len(a) = 2
      /\ a[1] = "arguments" /\ a[2] = "preflight"
    BY DEF PlanSteps
<1>2. /\ b \in Seq(PlanSteps) /\ Len(b) = 4
      /\ b[1] = "require" /\ b[2] = "preflight" /\ b[3] = "load"
      /\ b[4] = "bind"
    BY DEF Prepare, PlanSteps
<1>3. /\ c \in Seq(PlanSteps) /\ Len(c) = 5
      /\ c[1] = "verify" /\ c[2] = "identify" /\ c[3] = "reproduction-preflight"
      /\ c[4] = "preflight" /\ c[5] = "bind"
    BY DEF PlanSteps
<1>4. /\ d \in Seq(PlanSteps) /\ Len(d) = 6
      /\ d[1] = "server-look" /\ d[2] = "module-look" /\ d[3] = "import-model"
      /\ d[4] = "spawn-server" /\ d[5] = "import-adapter" /\ d[6] = "suite-ends"
    BY DEF executePreparedProject, PlanSteps
<1>5. /\ e \in Seq(PlanSteps) /\ Len(e) = 3
      /\ e[1] = "compare" /\ e[2] = "write-result" /\ e[3] = "write-cleanup"
    BY DEF PlanSteps
<1>6. s = reproduceProjectWithCatalog
    BY DEF reproduceProjectWithCatalog
<1>. HIDE DEF a, b, c, d, e
<1>7. /\ ab \in Seq(PlanSteps) /\ Len(ab) = Len(a) + Len(b)
      /\ \A i \in 1 .. Len(a) : ab[i] = a[i]
      /\ \A i \in Len(a) + 1 .. Len(a) + Len(b) : ab[i] = b[i - Len(a)]
    BY <1>1, <1>2, Joined
<1>. HIDE DEF ab
<1>8. /\ ab \in Seq(PlanSteps) /\ Len(ab) = 6
      /\ ab[1] = "arguments" /\ ab[2] = "preflight" /\ ab[3] = "require"
      /\ ab[4] = "preflight" /\ ab[5] = "load" /\ ab[6] = "bind"
    BY <1>0, <1>1, <1>2, <1>7
<1>9. /\ abc \in Seq(PlanSteps) /\ Len(abc) = Len(ab) + Len(c)
      /\ \A i \in 1 .. Len(ab) : abc[i] = ab[i]
      /\ \A i \in Len(ab) + 1 .. Len(ab) + Len(c) : abc[i] = c[i - Len(ab)]
    BY <1>8, <1>3, Joined
<1>. HIDE DEF abc
<1>10. /\ abc \in Seq(PlanSteps) /\ Len(abc) = 11
       /\ abc[1] = "arguments" /\ abc[2] = "preflight" /\ abc[3] = "require"
       /\ abc[4] = "preflight" /\ abc[5] = "load" /\ abc[6] = "bind"
       /\ abc[7] = "verify" /\ abc[8] = "identify" /\ abc[9] = "reproduction-preflight"
       /\ abc[10] = "preflight" /\ abc[11] = "bind"
    BY <1>0, <1>8, <1>3, <1>9
<1>11. /\ ad \in Seq(PlanSteps) /\ Len(ad) = Len(abc) + Len(d)
       /\ \A i \in 1 .. Len(abc) : ad[i] = abc[i]
       /\ \A i \in Len(abc) + 1 .. Len(abc) + Len(d) : ad[i] = d[i - Len(abc)]
    BY <1>10, <1>4, Joined
<1>. HIDE DEF ad
<1>12. /\ ad \in Seq(PlanSteps) /\ Len(ad) = 17
       /\ ad[1] = "arguments" /\ ad[2] = "preflight" /\ ad[3] = "require"
       /\ ad[4] = "preflight" /\ ad[5] = "load" /\ ad[6] = "bind"
       /\ ad[7] = "verify" /\ ad[8] = "identify" /\ ad[9] = "reproduction-preflight"
       /\ ad[10] = "preflight" /\ ad[11] = "bind" /\ ad[12] = "server-look"
       /\ ad[13] = "module-look" /\ ad[14] = "import-model" /\ ad[15] = "spawn-server"
       /\ ad[16] = "import-adapter" /\ ad[17] = "suite-ends"
    BY <1>0, <1>10, <1>4, <1>11
<1>13. /\ s \in Seq(PlanSteps) /\ Len(s) = Len(ad) + Len(e)
       /\ \A i \in 1 .. Len(ad) : s[i] = ad[i]
       /\ \A i \in Len(ad) + 1 .. Len(ad) + Len(e) : s[i] = e[i - Len(ad)]
    BY <1>12, <1>5, Joined
<1>. HIDE DEF s
<1>14. /\ s \in Seq(PlanSteps) /\ Len(s) = 20
       /\ s[1] = "arguments" /\ s[2] = "preflight" /\ s[3] = "require"
       /\ s[4] = "preflight" /\ s[5] = "load" /\ s[6] = "bind"
       /\ s[7] = "verify" /\ s[8] = "identify" /\ s[9] = "reproduction-preflight"
       /\ s[10] = "preflight" /\ s[11] = "bind" /\ s[12] = "server-look"
       /\ s[13] = "module-look" /\ s[14] = "import-model" /\ s[15] = "spawn-server"
       /\ s[16] = "import-adapter" /\ s[17] = "suite-ends" /\ s[18] = "compare"
       /\ s[19] = "write-result" /\ s[20] = "write-cleanup"
    BY <1>0, <1>12, <1>5, <1>13
<1>. QED
    BY <1>6, <1>14
-----------------------------------------------------------------------------
(* What the proofs use of a plan F *)

(* The steps that execute something, and those that come last *)
Executing == ToolSteps \cup {"import-model", "spawn-server", "import-adapter"}
Ending == {"compare", "write-result", "write-cleanup"}
Late ==
    {"server-look", "module-look", "import-model", "spawn-server", "import-adapter",
     "suite-ends"} \cup Ending

Among(F, k, step) == \E i \in 1 .. k : F[i] = step

(* Nothing is executed before all of the admission's steps were taken. *)
Guarded(F, g) ==
    /\ g \in 0 .. Len(F) /\ \A i \in 1 .. g : F[i] \notin Executing
    /\ Among(F, g, "require") /\ Among(F, g, "preflight") /\ Among(F, g, "bind")

(* A replay that checks the bundle first asks the loaded declaration first. *)
LoadedBefore(c, f, F) ==
    c = "replay" /\ f = Absent =>
        \A k \in 1 .. Len(F) : F[k] \in Executing => Among(F, k - 1, "require-loaded")

(* executePreparedProject runs once, and only the ends come after it. *)
RunsOnce(F, e) ==
    /\ e \in Nat /\ e + 7 <= Len(F) /\ \A i \in 1 .. e : F[i] \notin Late
    /\ F[e + 1] = "server-look" /\ F[e + 2] = "module-look" /\ F[e + 3] = "import-model"
    /\ F[e + 4] = "spawn-server" /\ F[e + 5] = "import-adapter" /\ F[e + 6] = "suite-ends"
    /\ \A i \in e + 7 .. Len(F) : F[i] \in Ending

NeverRuns(F) == \A i \in 1 .. Len(F) : F[i] \notin Late

(* The tools a command runs, in order, and how many of them are among the   *)
(* first k steps of its plan: they are in blocks.                           *)
Checking(c, f) == c \in {"generate", "check"} \/ (c = "replay" /\ f = Absent)

ToolsOf(c, f) ==
    (IF c = "generate" THEN << "resolve", "bundle" >> ELSE <<>>)
    \o (IF Checking(c, f) THEN CompilerChecks ELSE <<>>)

Block(k, a, n) == IF k < a THEN 0 ELSE IF k < a + n THEN k - a + 1 ELSE n

ToolsAmong(c, f, k) ==
    IF c = "generate" THEN Block(k, 7, 2) + Block(k, 13, Traces + 1)
    ELSE IF c = "check" THEN Block(k, 6, Traces + 1)
    ELSE IF c = "replay" /\ f = Absent THEN Block(k, 10, Traces + 1)
    ELSE 0

Counted(c, f, F) ==
    /\ ToolsAmong(c, f, 0) = 0 /\ ToolsAmong(c, f, Len(F)) = Len(ToolsOf(c, f))
    /\ \A k \in 1 .. Len(F) :
          IF F[k] \in ToolSteps
          THEN /\ ToolsAmong(c, f, k) = ToolsAmong(c, f, k - 1) + 1
               /\ ToolsOf(c, f)[ToolsAmong(c, f, k)] = F[k]
          ELSE ToolsAmong(c, f, k) = ToolsAmong(c, f, k - 1)

(* A plan that runs no tool counts none. *)
LEMMA NoToolsCounted ==
    ASSUME NEW c, NEW f, NEW F \in Seq(PlanSteps), c # "generate", ~Checking(c, f),
           \A k \in 1 .. Len(F) : F[k] \notin ToolSteps
    PROVE  Counted(c, f, F) /\ \A k \in Nat : ToolsAmong(c, f, k) = 0
<1>1. \A k : ToolsAmong(c, f, k) = 0
    BY DEF ToolsAmong, Checking
<1>2. Len(ToolsOf(c, f)) = 0
    BY DEF ToolsOf
<1>. QED
    BY <1>1, <1>2 DEF Counted

(* init and doctor execute nothing. *)
LEMMA IdlePlans ==
    ASSUME NEW c \in {"init", "doctor"}, NEW f
    PROVE  LET F == Plan(c, f)
           IN  /\ F \in Seq(PlanSteps) /\ Counted(c, f, F)
               /\ \A i \in 1 .. Len(F) : F[i] \notin Executing \cup Late
<1>. DEFINE b == IF c = "init" THEN initProject ELSE doctorProject
            F == << "flags" >> \o b
<1>1. F = Plan(c, f)
    BY DEF Plan
<1>2. CASE c = "init"
  <2>1. b \in Seq(PlanSteps) /\ Len(b) = 3 /\ \A i \in 1 .. 3 : b[i] = "init"
      BY <1>2 DEF initProject, PlanSteps
  <2>. HIDE DEF b
  <2>2. /\ F \in Seq(PlanSteps) /\ Len(F) = Len(b) + 1 /\ F[1] = "flags"
        /\ \A i \in 2 .. Len(b) + 1 : F[i] = b[i - 1]
      BY <2>1, FlagsFirst
  <2>. HIDE DEF F
  <2>3. \A i \in 1 .. Len(F) : F[i] \in {"flags", "init"}
      BY <2>1, <2>2
  <2>4. \A i \in 1 .. Len(F) : F[i] \notin Executing \cup Late /\ F[i] \notin ToolSteps
      BY <2>3 DEF Executing, Late, Ending, ToolSteps
  <2>5. c # "generate" /\ ~Checking(c, f)
      BY <1>2 DEF Checking
  <2>. QED
      BY <1>1, <2>2, <2>4, <2>5, NoToolsCounted
<1>3. CASE c = "doctor"
  <2>1. /\ b \in Seq(PlanSteps) /\ Len(b) = 5 /\ b[1] = "require" /\ b[2] = "preflight"
        /\ b[3] = "load" /\ b[4] = "bind" /\ b[5] = "verify"
      BY <1>3 DEF doctorProject, PlanSteps
  <2>. HIDE DEF b
  <2>2. /\ F \in Seq(PlanSteps) /\ Len(F) = Len(b) + 1 /\ F[1] = "flags"
        /\ \A i \in 2 .. Len(b) + 1 : F[i] = b[i - 1]
      BY <2>1, FlagsFirst
  <2>. HIDE DEF F
  <2>3. \A i \in 1 .. Len(F) : F[i] \in {"flags", "require", "preflight", "load", "bind", "verify"}
      BY <2>1, <2>2
  <2>4. \A i \in 1 .. Len(F) : F[i] \notin Executing \cup Late /\ F[i] \notin ToolSteps
      BY <2>3 DEF Executing, Late, Ending, ToolSteps
  <2>5. c # "generate" /\ ~Checking(c, f)
      BY <1>3 DEF Checking
  <2>. QED
      BY <1>1, <2>2, <2>4, <2>5, NoToolsCounted
<1>. QED
    BY <1>2, <1>3

(* generate: prepared, and the compiler's four kinds of run *)
LEMMA GeneratePlan ==
    ASSUME NEW f
    PROVE  LET F == Plan("generate", f)
           IN  F \in Seq(PlanSteps) /\ Counted("generate", f, F) /\ Guarded(F, 6) /\ NeverRuns(F)
<1>. DEFINE b == generateProject
            F == << "flags" >> \o b
            c == "generate"
            E == ToolsOf(c, f)
<1>0. Traces \in Nat
    BY ProjectAssumption
<1>1. F = Plan(c, f)
    BY DEF Plan
<1>2. /\ b \in Seq(PlanSteps) /\ Len(b) = Traces + 14
      /\ b[1] = "require" /\ b[2] = "preflight" /\ b[3] = "load"
      /\ b[4] = "bind" /\ b[5] = "contract" /\ b[6] = "resolve"
      /\ b[7] = "bundle"
      /\ b[8] = "require-loaded" /\ b[9] = "preflight" /\ b[10] \in {"load", "reload"}
      /\ b[11] = "bind" /\ b[12] = "check-bundle"
      /\ \A i \in 13 .. Traces + 12 : b[i] = "preflight-trace"
      /\ b[Traces + 13] = "verify" /\ b[Traces + 14] = "bind"
    BY generateProjectIs
<1>3. E \in Seq(PlanSteps) /\ Len(E) = Traces + 3 /\ E[1] = "resolve" /\ E[2] = "bundle"
      /\ E[3] = "check-bundle" /\ \A i \in 4 .. Traces + 3 : E[i] = "preflight-trace"
  <2>. DEFINE p == << "resolve", "bundle" >>
              q == CompilerChecks
              r == p \o q
  <2>1. E = r
      BY DEF ToolsOf, Checking
  <2>2. p \in Seq(PlanSteps) /\ Len(p) = 2 /\ p[1] = "resolve" /\ p[2] = "bundle"
      BY DEF PlanSteps, ToolSteps
  <2>3. /\ q \in Seq(PlanSteps) /\ Len(q) = Traces + 1 /\ q[1] = "check-bundle"
        /\ \A i \in 2 .. Traces + 1 : q[i] = "preflight-trace"
      BY CompilerChecksAre
  <2>. HIDE DEF p, q
  <2>4. /\ r \in Seq(PlanSteps) /\ Len(r) = Len(p) + Len(q)
        /\ \A i \in 1 .. Len(p) : r[i] = p[i]
        /\ \A i \in Len(p) + 1 .. Len(p) + Len(q) : r[i] = q[i - Len(p)]
      BY <2>2, <2>3, Joined
  <2>. HIDE DEF r, E
  <2>5. /\ r \in Seq(PlanSteps) /\ Len(r) = Traces + 3 /\ r[1] = "resolve" /\ r[2] = "bundle"
        /\ r[3] = "check-bundle" /\ \A i \in 4 .. Traces + 3 : r[i] = "preflight-trace"
      BY <1>0, <2>2, <2>3, <2>4
  <2>. QED
      BY <2>1, <2>5
<1>. HIDE DEF b, E
<1>4. /\ F \in Seq(PlanSteps) /\ Len(F) = Len(b) + 1 /\ F[1] = "flags"
      /\ \A i \in 2 .. Len(b) + 1 : F[i] = b[i - 1]
    BY <1>2, FlagsFirst
<1>. HIDE DEF F
<1>5. /\ Len(F) = Traces + 15 /\ F[1] = "flags"
      /\ F[2] = "require" /\ F[3] = "preflight" /\ F[4] = "load"
      /\ F[5] = "bind" /\ F[6] = "contract" /\ F[7] = "resolve"
      /\ F[8] = "bundle"
      /\ F[9] = "require-loaded" /\ F[10] = "preflight" /\ F[11] \in {"load", "reload"}
      /\ F[12] = "bind" /\ F[13] = "check-bundle"
      /\ \A i \in 14 .. Traces + 13 : F[i] = "preflight-trace"
      /\ F[Traces + 14] = "verify" /\ F[Traces + 15] = "bind"
  <2>1. Len(F) = Traces + 15 /\ F[1] = "flags"
      BY <1>0, <1>2, <1>4
  <2>2. /\ F[2] = b[1] /\ F[3] = b[2] /\ F[4] = b[3] /\ F[5] = b[4] /\ F[6] = b[5]
        /\ F[7] = b[6] /\ F[8] = b[7]
      BY <1>0, <1>2, <1>4
  <2>3. /\ F[9] = b[8] /\ F[10] = b[9] /\ F[11] = b[10] /\ F[12] = b[11] /\ F[13] = b[12]
      BY <1>0, <1>2, <1>4
  <2>4. ASSUME NEW i \in 14 .. Traces + 13
        PROVE  F[i] = "preflight-trace"
    <3>1. i - 1 \in 13 .. Traces + 12 /\ i \in 2 .. Len(b) + 1
        BY <1>0, <1>2
    <3>. QED
        BY <1>2, <1>4, <3>1
  <2>5. F[Traces + 14] = b[Traces + 13] /\ F[Traces + 15] = b[Traces + 14]
    <3>1. /\ Traces + 14 \in 2 .. Len(b) + 1 /\ Traces + 15 \in 2 .. Len(b) + 1
          /\ Traces + 14 - 1 = Traces + 13 /\ Traces + 15 - 1 = Traces + 14
        BY <1>0, <1>2
    <3>. QED
        BY <1>0, <1>4, <3>1
  <2>. QED
      BY <1>2, <2>1, <2>2, <2>3, <2>4, <2>5
<1>6. NeverRuns(F)
  <2>1. ASSUME NEW i \in 1 .. Len(F)
        PROVE  F[i] \notin Late
    <3>1. \/ i \in 1 .. 6 \/ i \in 7 .. 13 \/ i \in 14 .. Traces + 13 \/ i = Traces + 14
          \/ i = Traces + 15
        BY <1>0, <1>5
    <3>2. CASE i \in 1 .. 6
        BY <1>5, <3>2 DEF Late, Ending
    <3>3. CASE i \in 7 .. 13
        BY <1>5, <3>3 DEF Late, Ending
    <3>4. CASE i \in 14 .. Traces + 13 \/ i = Traces + 14 \/ i = Traces + 15
        BY <1>5, <3>4 DEF Late, Ending
    <3>. QED
        BY <3>1, <3>2, <3>3, <3>4
  <2>. QED
      BY <2>1 DEF NeverRuns
<1>7. Guarded(F, 6)
    BY <1>0, <1>5 DEF Guarded, Among, Executing, ToolSteps
<1>8. Counted(c, f, F)
  <2>1. \A k : ToolsAmong(c, f, k) = Block(k, 7, 2) + Block(k, 13, Traces + 1)
      BY DEF ToolsAmong
  <2>2. ToolsAmong(c, f, 0) = 0 /\ ToolsAmong(c, f, Traces + 15) = Traces + 3
      BY <1>0, <2>1 DEF Block
  <2>3. ASSUME NEW k \in 1 .. Traces + 15
        PROVE  IF F[k] \in ToolSteps
               THEN /\ ToolsAmong(c, f, k) = ToolsAmong(c, f, k - 1) + 1
                    /\ E[ToolsAmong(c, f, k)] = F[k]
               ELSE ToolsAmong(c, f, k) = ToolsAmong(c, f, k - 1)
    <3>. DEFINE n == ToolsAmong(c, f, k)
                m == ToolsAmong(c, f, k - 1)
    <3>1. n = Block(k, 7, 2) + Block(k, 13, Traces + 1)
          /\ m = Block(k - 1, 7, 2) + Block(k - 1, 13, Traces + 1)
        BY <2>1
    <3>. HIDE DEF n, m
    <3>2. CASE k \in 1 .. 6
      <4>1. n = 0 /\ m = 0
          BY <1>0, <3>1, <3>2 DEF Block
      <4>2. F[k] \notin ToolSteps
          BY <1>5, <3>2 DEF ToolSteps
      <4>. QED
          BY <4>1, <4>2 DEF n, m
    <3>3. CASE k \in 7 .. 8
      <4>1. n = k - 6 /\ m = k - 7
          BY <1>0, <3>1, <3>3 DEF Block
      <4>2. F[k] \in ToolSteps /\ E[k - 6] = F[k]
          BY <1>3, <1>5, <3>3 DEF ToolSteps
      <4>. QED
          BY <4>1, <4>2 DEF n, m
    <3>4. CASE k \in 9 .. 12
      <4>1. n = 2 /\ m = 2
          BY <1>0, <3>1, <3>4 DEF Block
      <4>2. F[k] \notin ToolSteps
          BY <1>5, <3>4 DEF ToolSteps
      <4>. QED
          BY <4>1, <4>2 DEF n, m
    <3>5. CASE k \in 13 .. Traces + 13
      <4>1. n = k - 10 /\ m = k - 11
          BY <1>0, <3>1, <3>5 DEF Block
      <4>2. k = 13 \/ (k \in 14 .. Traces + 13 /\ k - 10 \in 4 .. Traces + 3)
          BY <1>0, <3>5
      <4>3. F[k] \in ToolSteps /\ E[k - 10] = F[k]
          BY <1>3, <1>5, <4>2 DEF ToolSteps
      <4>. QED
          BY <4>1, <4>3 DEF n, m
    <3>6. CASE k \in Traces + 14 .. Traces + 15
      <4>1. n = Traces + 3 /\ m = Traces + 3
          BY <1>0, <3>1, <3>6 DEF Block
      <4>2. k = Traces + 14 \/ k = Traces + 15
          BY <1>0, <3>6
      <4>3. F[k] \notin ToolSteps
          BY <1>5, <4>2 DEF ToolSteps
      <4>. QED
          BY <4>1, <4>3 DEF n, m
    <3>7. \/ k \in 1 .. 6 \/ k \in 7 .. 8 \/ k \in 9 .. 12 \/ k \in 13 .. Traces + 13
          \/ k \in Traces + 14 .. Traces + 15
        BY <1>0
    <3>. QED
        BY <3>2, <3>3, <3>4, <3>5, <3>6, <3>7
  <2>. QED
      BY <1>3, <1>5, <2>2, <2>3 DEF Counted, E
<1>. QED
    BY <1>1, <1>4, <1>6, <1>7, <1>8

(* check: prepared, and the compiler's checks *)
LEMMA CheckPlan ==
    ASSUME NEW f
    PROVE  LET F == Plan("check", f)
           IN  F \in Seq(PlanSteps) /\ Counted("check", f, F) /\ Guarded(F, 5) /\ NeverRuns(F)
<1>. DEFINE b == checkProject(FALSE)
            F == << "flags" >> \o b
            c == "check"
            E == ToolsOf(c, f)
<1>0. Traces \in Nat
    BY ProjectAssumption
<1>1. F = Plan(c, f)
    BY DEF Plan
<1>2. /\ b \in Seq(PlanSteps) /\ Len(b) = Traces + 7
      /\ b[1] = "require" /\ b[2] = "preflight" /\ b[3] \in {"load", "reload"}
      /\ b[4] = "bind" /\ b[5] = "check-bundle"
      /\ \A i \in 6 .. Traces + 5 : b[i] = "preflight-trace"
      /\ b[Traces + 6] = "verify" /\ b[Traces + 7] = "bind"
    BY checkProjectIs
<1>3. E \in Seq(PlanSteps) /\ Len(E) = Traces + 1 /\ E[1] = "check-bundle"
      /\ \A i \in 2 .. Traces + 1 : E[i] = "preflight-trace"
  <2>. DEFINE q == CompilerChecks
  <2>1. /\ q \in Seq(PlanSteps) /\ Len(q) = Traces + 1 /\ q[1] = "check-bundle"
        /\ \A i \in 2 .. Traces + 1 : q[i] = "preflight-trace"
      BY CompilerChecksAre
  <2>2. E = <<>> \o q
      BY DEF ToolsOf, Checking
  <2>. HIDE DEF q, E
  <2>3. <<>> \o q = q
      BY <2>1, ConcatEmptySeq
  <2>. QED
      BY <2>1, <2>2, <2>3
<1>. HIDE DEF b, E
<1>4. /\ F \in Seq(PlanSteps) /\ Len(F) = Len(b) + 1 /\ F[1] = "flags"
      /\ \A i \in 2 .. Len(b) + 1 : F[i] = b[i - 1]
    BY <1>2, FlagsFirst
<1>. HIDE DEF F
<1>5. /\ Len(F) = Traces + 8 /\ F[1] = "flags"
      /\ F[2] = "require" /\ F[3] = "preflight" /\ F[4] \in {"load", "reload"}
      /\ F[5] = "bind" /\ F[6] = "check-bundle"
      /\ \A i \in 7 .. Traces + 6 : F[i] = "preflight-trace"
      /\ F[Traces + 7] = "verify" /\ F[Traces + 8] = "bind"
    BY <1>0, <1>2, <1>4
<1>6. NeverRuns(F)
  <2>1. ASSUME NEW i \in 1 .. Len(F)
        PROVE  F[i] \notin Late
    <3>1. \/ i \in 1 .. 6 \/ i \in 7 .. Traces + 6 \/ i = Traces + 7 \/ i = Traces + 8
        BY <1>0, <1>5
    <3>. QED
        BY <1>5, <3>1 DEF Late, Ending
  <2>. QED
      BY <2>1 DEF NeverRuns
<1>7. Guarded(F, 5)
    BY <1>0, <1>5 DEF Guarded, Among, Executing, ToolSteps
<1>8. Counted(c, f, F)
  <2>1. \A k : ToolsAmong(c, f, k) = Block(k, 6, Traces + 1)
      BY DEF ToolsAmong
  <2>2. ToolsAmong(c, f, 0) = 0 /\ ToolsAmong(c, f, Traces + 8) = Traces + 1
      BY <1>0, <2>1 DEF Block
  <2>3. ASSUME NEW k \in 1 .. Traces + 8
        PROVE  IF F[k] \in ToolSteps
               THEN /\ ToolsAmong(c, f, k) = ToolsAmong(c, f, k - 1) + 1
                    /\ E[ToolsAmong(c, f, k)] = F[k]
               ELSE ToolsAmong(c, f, k) = ToolsAmong(c, f, k - 1)
    <3>. DEFINE n == ToolsAmong(c, f, k)
                m == ToolsAmong(c, f, k - 1)
    <3>1. n = Block(k, 6, Traces + 1) /\ m = Block(k - 1, 6, Traces + 1)
        BY <2>1
    <3>. HIDE DEF n, m
    <3>2. CASE k \in 1 .. 5
      <4>1. n = 0 /\ m = 0
          BY <1>0, <3>1, <3>2 DEF Block
      <4>2. F[k] \notin ToolSteps
          BY <1>5, <3>2 DEF ToolSteps
      <4>. QED
          BY <4>1, <4>2 DEF n, m
    <3>3. CASE k \in 6 .. Traces + 6
      <4>1. n = k - 5 /\ m = k - 6
          BY <1>0, <3>1, <3>3 DEF Block
      <4>2. k = 6 \/ (k \in 7 .. Traces + 6 /\ k - 5 \in 2 .. Traces + 1)
          BY <1>0, <3>3
      <4>3. F[k] \in ToolSteps /\ E[k - 5] = F[k]
          BY <1>3, <1>5, <4>2 DEF ToolSteps
      <4>. QED
          BY <4>1, <4>3 DEF n, m
    <3>4. CASE k \in Traces + 7 .. Traces + 8
      <4>1. n = Traces + 1 /\ m = Traces + 1
          BY <1>0, <3>1, <3>4 DEF Block
      <4>2. k = Traces + 7 \/ k = Traces + 8
          BY <1>0, <3>4
      <4>3. F[k] \notin ToolSteps
          BY <1>5, <4>2 DEF ToolSteps
      <4>. QED
          BY <4>1, <4>3 DEF n, m
    <3>5. \/ k \in 1 .. 5 \/ k \in 6 .. Traces + 6
          \/ k \in Traces + 7 .. Traces + 8
        BY <1>0
    <3>. QED
        BY <3>2, <3>3, <3>4, <3>5
  <2>. QED
      BY <1>3, <1>5, <2>2, <2>3 DEF Counted, E
<1>. QED
    BY <1>1, <1>4, <1>6, <1>7, <1>8

(* replay without an admission: prepared, checked, and run *)
LEMMA CheckedReplayPlan ==
    ASSUME NEW f, f = Absent
    PROVE  LET F == Plan("replay", f)
           IN  /\ F \in Seq(PlanSteps) /\ Counted("replay", f, F) /\ Guarded(F, 5)
               /\ LoadedBefore("replay", f, F)
               /\ \E e \in Nat : RunsOnce(F, e)
<1>. DEFINE b == replayProject(Absent)
            F == << "flags" >> \o b
            c == "replay"
            E == ToolsOf(c, f)
<1>0. Traces \in Nat
    BY ProjectAssumption
<1>1. F = Plan(c, f)
    BY DEF Plan
<1>2. /\ b \in Seq(PlanSteps) /\ Len(b) = Traces + 19
      /\ b[1] = "require" /\ b[2] = "preflight" /\ b[3] = "load" /\ b[4] = "bind"
      /\ b[5] = "require-loaded" /\ b[6] = "preflight" /\ b[7] \in {"load", "reload"}
      /\ b[8] = "bind" /\ b[9] = "check-bundle"
    BY replayCheckedIs
<1>10. /\ b \in Seq(PlanSteps) /\ Len(b) = Traces + 19
       /\ \A i \in 10 .. Traces + 9 : b[i] = "preflight-trace"
       /\ b[Traces + 10] = "verify" /\ b[Traces + 11] = "bind" /\ b[Traces + 12] = "bind"
       /\ b[Traces + 13] = "server-look" /\ b[Traces + 14] = "module-look"
       /\ b[Traces + 15] = "import-model" /\ b[Traces + 16] = "spawn-server"
       /\ b[Traces + 17] = "import-adapter" /\ b[Traces + 18] = "suite-ends"
       /\ b[Traces + 19] = "write-result"
    BY replayCheckedIs
<1>3. E \in Seq(PlanSteps) /\ Len(E) = Traces + 1 /\ E[1] = "check-bundle"
      /\ \A i \in 2 .. Traces + 1 : E[i] = "preflight-trace"
  <2>. DEFINE q == CompilerChecks
  <2>1. /\ q \in Seq(PlanSteps) /\ Len(q) = Traces + 1 /\ q[1] = "check-bundle"
        /\ \A i \in 2 .. Traces + 1 : q[i] = "preflight-trace"
      BY CompilerChecksAre
  <2>2. E = <<>> \o q
      BY DEF ToolsOf, Checking
  <2>. HIDE DEF q, E
  <2>3. <<>> \o q = q
      BY <2>1, ConcatEmptySeq
  <2>. QED
      BY <2>1, <2>2, <2>3
<1>. HIDE DEF b, E
<1>4. /\ F \in Seq(PlanSteps) /\ Len(F) = Len(b) + 1 /\ F[1] = "flags"
      /\ \A i \in 2 .. Len(b) + 1 : F[i] = b[i - 1]
    BY <1>2, FlagsFirst
<1>. HIDE DEF F
<1>5. /\ Len(F) = Traces + 20 /\ F[1] = "flags"
      /\ F[2] = "require" /\ F[3] = "preflight" /\ F[4] = "load" /\ F[5] = "bind"
      /\ F[6] = "require-loaded" /\ F[7] = "preflight" /\ F[8] \in {"load", "reload"}
      /\ F[9] = "bind" /\ F[10] = "check-bundle"
    BY <1>0, <1>2, <1>4
<1>11. /\ \A i \in 11 .. Traces + 10 : F[i] = "preflight-trace"
       /\ F[Traces + 11] = "verify" /\ F[Traces + 12] = "bind" /\ F[Traces + 13] = "bind"
    BY <1>0, <1>10, <1>4
<1>12. /\ F[Traces + 14] = "server-look" /\ F[Traces + 15] = "module-look"
       /\ F[Traces + 16] = "import-model" /\ F[Traces + 17] = "spawn-server"
       /\ F[Traces + 18] = "import-adapter" /\ F[Traces + 19] = "suite-ends"
       /\ F[Traces + 20] = "write-result"
    BY <1>0, <1>10, <1>4
<1>6. RunsOnce(F, Traces + 13)
  <2>1. ASSUME NEW i \in 1 .. Traces + 13
        PROVE  F[i] \notin Late
    <3>1. \/ i \in 1 .. 5 \/ i \in 6 .. 10 \/ i \in 11 .. Traces + 10
          \/ i = Traces + 11 \/ i = Traces + 12 \/ i = Traces + 13
        BY <1>0
    <3>2. CASE i \in 1 .. 5
        BY <1>5, <3>2 DEF Late, Ending
    <3>4. CASE i \in 6 .. 10
        BY <1>5, <3>4 DEF Late, Ending
    <3>3. CASE i \in 11 .. Traces + 10 \/ i = Traces + 11 \/ i = Traces + 12 \/ i = Traces + 13
        BY <1>11, <3>3 DEF Late, Ending
    <3>. QED
        BY <3>1, <3>2, <3>3, <3>4
  <2>2. /\ Traces + 13 \in Nat /\ (Traces + 13) + 7 = Traces + 20
        /\ (Traces + 13) + 1 = Traces + 14 /\ (Traces + 13) + 2 = Traces + 15
        /\ (Traces + 13) + 3 = Traces + 16 /\ (Traces + 13) + 4 = Traces + 17
        /\ (Traces + 13) + 5 = Traces + 18 /\ (Traces + 13) + 6 = Traces + 19
      BY <1>0
  <2>3. ASSUME NEW i \in Traces + 20 .. Traces + 20
        PROVE  F[i] \in Ending
    <3>1. i = Traces + 20
        BY <1>0
    <3>. QED
        BY <1>12, <3>1 DEF Ending
  <2>4. Traces + 20 <= Traces + 20
      BY <1>0
  <2>. QED
      BY <1>5, <1>12, <2>1, <2>2, <2>3, <2>4 DEF RunsOnce
<1>7. Guarded(F, 5)
    BY <1>0, <1>5 DEF Guarded, Among, Executing, ToolSteps
<1>8. Counted(c, f, F)
  <2>1. \A k : ToolsAmong(c, f, k) = Block(k, 10, Traces + 1)
      BY DEF ToolsAmong
  <2>2. ToolsAmong(c, f, 0) = 0 /\ ToolsAmong(c, f, Traces + 20) = Traces + 1
      BY <1>0, <2>1 DEF Block
  <2>3. ASSUME NEW k \in 1 .. Traces + 20
        PROVE  IF F[k] \in ToolSteps
               THEN /\ ToolsAmong(c, f, k) = ToolsAmong(c, f, k - 1) + 1
                    /\ E[ToolsAmong(c, f, k)] = F[k]
               ELSE ToolsAmong(c, f, k) = ToolsAmong(c, f, k - 1)
    <3>. DEFINE n == ToolsAmong(c, f, k)
                m == ToolsAmong(c, f, k - 1)
    <3>1. n = Block(k, 10, Traces + 1) /\ m = Block(k - 1, 10, Traces + 1)
        BY <2>1
    <3>. HIDE DEF n, m
    <3>2. CASE k \in 1 .. 9
      <4>1. n = 0 /\ m = 0
          BY <1>0, <3>1, <3>2 DEF Block
      <4>2. F[k] \notin ToolSteps
          BY <1>5, <3>2 DEF ToolSteps
      <4>. QED
          BY <4>1, <4>2 DEF n, m
    <3>3. CASE k \in 10 .. Traces + 10
      <4>1. n = k - 9 /\ m = k - 10
          BY <1>0, <3>1, <3>3 DEF Block
      <4>2. k = 10 \/ (k \in 11 .. Traces + 10 /\ k - 9 \in 2 .. Traces + 1)
          BY <1>0, <3>3
      <4>3. F[k] \in ToolSteps /\ E[k - 9] = F[k]
          BY <1>3, <1>5, <1>11, <4>2 DEF ToolSteps
      <4>. QED
          BY <4>1, <4>3 DEF n, m
    <3>4. CASE k \in Traces + 11 .. Traces + 20
      <4>1. n = Traces + 1 /\ m = Traces + 1
          BY <1>0, <3>1, <3>4 DEF Block
      <4>2. \/ k = Traces + 11 \/ k = Traces + 12 \/ k = Traces + 13 \/ k = Traces + 14
            \/ k = Traces + 15 \/ k = Traces + 16 \/ k = Traces + 17 \/ k = Traces + 18
            \/ k = Traces + 19 \/ k = Traces + 20
          BY <1>0, <3>4
      <4>3. F[k] \notin ToolSteps
          BY <1>11, <1>12, <4>2 DEF ToolSteps
      <4>. QED
          BY <4>1, <4>3 DEF n, m
    <3>5. \/ k \in 1 .. 9 \/ k \in 10 .. Traces + 10
          \/ k \in Traces + 11 .. Traces + 20
        BY <1>0
    <3>. QED
        BY <3>2, <3>3, <3>4, <3>5
  <2>. QED
      BY <1>3, <1>5, <2>2, <2>3 DEF Counted, E
<1>9. Traces + 13 \in Nat
    BY <1>0
<1>13. LoadedBefore(c, f, F)
  <2>1. ASSUME NEW k \in 1 .. Len(F), F[k] \in Executing
        PROVE  Among(F, k - 1, "require-loaded")
    <3>1. ~(k \in 1 .. 9)
        BY <1>5, <2>1 DEF Executing, ToolSteps
    <3>2. 6 \in 1 .. k - 1
        BY <1>0, <1>5, <3>1
    <3>. QED
        BY <1>5, <3>2 DEF Among
  <2>. QED
      BY <2>1 DEF LoadedBefore
<1>. QED
    BY <1>1, <1>4, <1>6, <1>7, <1>8, <1>9, <1>13

(* replay with an admission: prepared and run *)
LEMMA AdmittedReplayPlan ==
    ASSUME NEW f, f # Absent
    PROVE  LET F == Plan("replay", f)
           IN  /\ F \in Seq(PlanSteps) /\ Counted("replay", f, F) /\ Guarded(F, 5)
               /\ \E e \in Nat : RunsOnce(F, e)
<1>. DEFINE b == replayProject(f)
            F == << "flags" >> \o b
            c == "replay"
<1>1. F = Plan(c, f)
    BY DEF Plan
<1>2. /\ b \in Seq(PlanSteps) /\ Len(b) = 13
      /\ b[1] = "require" /\ b[2] = "preflight" /\ b[3] = "load" /\ b[4] = "bind"
      /\ b[5] = "verify" /\ b[6] = "bind" /\ b[7] = "server-look" /\ b[8] = "module-look"
      /\ b[9] = "import-model" /\ b[10] = "spawn-server" /\ b[11] = "import-adapter"
      /\ b[12] = "suite-ends" /\ b[13] = "write-result"
    BY replayAdmittedIs
<1>. HIDE DEF b
<1>3. /\ F \in Seq(PlanSteps) /\ Len(F) = Len(b) + 1 /\ F[1] = "flags"
      /\ \A i \in 2 .. Len(b) + 1 : F[i] = b[i - 1]
    BY <1>2, FlagsFirst
<1>. HIDE DEF F
<1>4. /\ Len(F) = 14 /\ F[1] = "flags"
      /\ F[2] = "require" /\ F[3] = "preflight" /\ F[4] = "load" /\ F[5] = "bind"
      /\ F[6] = "verify" /\ F[7] = "bind" /\ F[8] = "server-look" /\ F[9] = "module-look"
      /\ F[10] = "import-model" /\ F[11] = "spawn-server" /\ F[12] = "import-adapter"
      /\ F[13] = "suite-ends" /\ F[14] = "write-result"
    BY <1>2, <1>3
<1>5. RunsOnce(F, 7)
    BY <1>4 DEF RunsOnce, Late, Ending
<1>6. Guarded(F, 5)
    BY <1>4 DEF Guarded, Among, Executing, ToolSteps
<1>7. \A k \in 1 .. Len(F) : F[k] \notin ToolSteps
    BY <1>4 DEF ToolSteps
<1>8. c # "generate" /\ ~Checking(c, f)
    BY DEF Checking
<1>. QED
    BY <1>1, <1>3, <1>5, <1>6, <1>7, <1>8, NoToolsCounted

(* reproduce: prepared, compared with the bundle, run and compared again *)
LEMMA ReproducePlan ==
    ASSUME NEW f
    PROVE  LET F == Plan("reproduce", f)
           IN  /\ F \in Seq(PlanSteps) /\ Counted("reproduce", f, F) /\ Guarded(F, 7)
               /\ \E e \in Nat : RunsOnce(F, e)
               /\ Among(F, Len(F), "write-result") /\ Among(F, Len(F), "write-cleanup")
<1>. DEFINE b == reproduceProjectWithCatalog
            F == << "flags" >> \o b
            c == "reproduce"
<1>1. F = Plan(c, f)
    BY DEF Plan
<1>2. /\ b \in Seq(PlanSteps) /\ Len(b) = 20
      /\ b[1] = "arguments" /\ b[2] = "preflight" /\ b[3] = "require" /\ b[4] = "preflight"
      /\ b[5] = "load" /\ b[6] = "bind" /\ b[7] = "verify" /\ b[8] = "identify"
      /\ b[9] = "reproduction-preflight" /\ b[10] = "preflight" /\ b[11] = "bind"
      /\ b[12] = "server-look" /\ b[13] = "module-look" /\ b[14] = "import-model"
      /\ b[15] = "spawn-server" /\ b[16] = "import-adapter" /\ b[17] = "suite-ends"
      /\ b[18] = "compare" /\ b[19] = "write-result" /\ b[20] = "write-cleanup"
    BY reproduceProjectIs
<1>. HIDE DEF b
<1>3. /\ F \in Seq(PlanSteps) /\ Len(F) = Len(b) + 1 /\ F[1] = "flags"
      /\ \A i \in 2 .. Len(b) + 1 : F[i] = b[i - 1]
    BY <1>2, FlagsFirst
<1>. HIDE DEF F
<1>4. /\ Len(F) = 21 /\ F[1] = "flags"
      /\ F[2] = "arguments" /\ F[3] = "preflight" /\ F[4] = "require" /\ F[5] = "preflight"
      /\ F[6] = "load" /\ F[7] = "bind" /\ F[8] = "verify" /\ F[9] = "identify"
      /\ F[10] = "reproduction-preflight" /\ F[11] = "preflight" /\ F[12] = "bind"
      /\ F[13] = "server-look" /\ F[14] = "module-look" /\ F[15] = "import-model"
      /\ F[16] = "spawn-server" /\ F[17] = "import-adapter" /\ F[18] = "suite-ends"
      /\ F[19] = "compare" /\ F[20] = "write-result" /\ F[21] = "write-cleanup"
    BY <1>2, <1>3
<1>5. RunsOnce(F, 12)
    BY <1>4 DEF RunsOnce, Late, Ending
<1>6. Guarded(F, 7)
    BY <1>4 DEF Guarded, Among, Executing, ToolSteps
<1>7. \A k \in 1 .. Len(F) : F[k] \notin ToolSteps
    BY <1>4 DEF ToolSteps
<1>8. c # "generate" /\ ~Checking(c, f)
    BY DEF Checking
<1>9. Among(F, Len(F), "write-result") /\ Among(F, Len(F), "write-cleanup")
    BY <1>4 DEF Among
<1>. QED
    BY <1>1, <1>3, <1>5, <1>6, <1>7, <1>8, <1>9, NoToolsCounted

(* What the k-th step of a plan may rely on *)
AdmittedBefore(F) ==
    \A k \in 1 .. Len(F) : F[k] \in Executing =>
        Among(F, k - 1, "require") /\ Among(F, k - 1, "preflight") /\ Among(F, k - 1, "bind")

LookedBefore(F) ==
    \A k \in 1 .. Len(F) :
        /\ F[k] \in ToolSteps =>
              ~Among(F, k - 1, "server-look") /\ ~Among(F, k - 1, "module-look")
        /\ F[k] = "import-model" => Among(F, k - 1, "module-look")
        /\ F[k] = "spawn-server" => Among(F, k - 1, "server-look")

SuiteInOrder(F) ==
    \A k \in 1 .. Len(F) :
        /\ F[k] = "spawn-server" =>
              k + 2 <= Len(F) /\ F[k + 1] = "import-adapter" /\ F[k + 2] = "suite-ends"
        /\ F[k] = "import-adapter" => k + 1 <= Len(F) /\ F[k + 1] = "suite-ends"
        /\ F[k] \in {"spawn-server", "import-adapter", "suite-ends"} =>
              ~Among(F, k - 1, "suite-ends") /\ ~Among(F, k - 1, "compare")

Ordered(c, f, F) ==
    /\ F \in Seq(PlanSteps) /\ Counted(c, f, F)
    /\ AdmittedBefore(F) /\ LoadedBefore(c, f, F) /\ LookedBefore(F) /\ SuiteInOrder(F)
    /\ c \in {"init", "doctor"} => \A k \in 1 .. Len(F) : F[k] \notin Executing
    /\ c \notin {"replay", "reproduce"} => \A k \in 1 .. Len(F) : F[k] # "spawn-server"
    /\ c \in {"replay", "reproduce"} => Among(F, Len(F), "suite-ends")
    /\ c = "reproduce" =>
          Among(F, Len(F), "write-result") /\ Among(F, Len(F), "write-cleanup")

(* Nothing is executed before the admission's steps. *)
LEMMA GuardedOrder ==
    ASSUME NEW F \in Seq(PlanSteps), NEW g, Guarded(F, g)
    PROVE  AdmittedBefore(F)
<1>1. Len(F) \in Nat
    BY LenProperties
<1>2. ASSUME NEW k \in 1 .. Len(F), F[k] \in Executing
      PROVE  Among(F, k - 1, "require") /\ Among(F, k - 1, "preflight") /\ Among(F, k - 1, "bind")
  <2>1. g \in 0 .. Len(F) /\ \A i \in 1 .. g : F[i] \notin Executing
      BY DEF Guarded
  <2>2. ~(k \in 1 .. g)
      BY <1>2, <2>1
  <2>3. \A i \in 1 .. g : i \in 1 .. k - 1
      BY <1>1, <2>1, <2>2
  <2>. QED
      BY <2>3 DEF Guarded, Among
<1>. QED
    BY <1>2 DEF AdmittedBefore

(* A plan that runs no suite has nothing to look at for one. *)
LEMMA NeverRunsOrder ==
    ASSUME NEW F \in Seq(PlanSteps), NeverRuns(F)
    PROVE  /\ LookedBefore(F) /\ SuiteInOrder(F)
           /\ \A k \in 1 .. Len(F) : F[k] # "spawn-server"
<1>1. Len(F) \in Nat
    BY LenProperties
<1>2. ASSUME NEW k \in 1 .. Len(F)
      PROVE  /\ F[k] \notin Late /\ \A i \in 1 .. k - 1 : F[i] \notin Late
    BY <1>1 DEF NeverRuns
<1>3. ASSUME NEW k \in 1 .. Len(F)
      PROVE  /\ F[k] \notin {"import-model", "spawn-server", "import-adapter", "suite-ends"}
             /\ ~Among(F, k - 1, "server-look") /\ ~Among(F, k - 1, "module-look")
    BY <1>2 DEF Late, Among
<1>. QED
    BY <1>3 DEF LookedBefore, SuiteInOrder

(* A plan that runs the suite looks at the server and the module first. *)
LEMMA RunsOnceOrder ==
    ASSUME NEW F \in Seq(PlanSteps), NEW e, RunsOnce(F, e)
    PROVE  LookedBefore(F) /\ SuiteInOrder(F) /\ Among(F, Len(F), "suite-ends")
<1>1. /\ Len(F) \in Nat /\ e \in Nat /\ e + 7 <= Len(F)
      /\ \A i \in 1 .. e : F[i] \notin Late
      /\ F[e + 1] = "server-look" /\ F[e + 2] = "module-look" /\ F[e + 3] = "import-model"
      /\ F[e + 4] = "spawn-server" /\ F[e + 5] = "import-adapter" /\ F[e + 6] = "suite-ends"
      /\ \A i \in e + 7 .. Len(F) : F[i] \in Ending
    BY LenProperties DEF RunsOnce
<1>2. ASSUME NEW i \in 1 .. Len(F)
      PROVE  \/ i \in 1 .. e \/ i = e + 1 \/ i = e + 2 \/ i = e + 3 \/ i = e + 4
             \/ i = e + 5 \/ i = e + 6 \/ i \in e + 7 .. Len(F)
    BY <1>1
(* each step is where it should be, and nowhere else *)
<1>3. ASSUME NEW i \in 1 .. Len(F)
      PROVE  /\ F[i] = "server-look" => i = e + 1
             /\ F[i] = "module-look" => i = e + 2
             /\ F[i] = "import-model" => i = e + 3
             /\ F[i] = "spawn-server" => i = e + 4
             /\ F[i] = "import-adapter" => i = e + 5
             /\ F[i] = "suite-ends" => i = e + 6
             /\ F[i] = "compare" => i > e + 6
             /\ F[i] \in ToolSteps => i <= e
  <2>1. CASE i \in 1 .. e
    <3>1. F[i] \notin Late /\ i <= e
        BY <1>1, <2>1
    <3>. QED
        BY <3>1 DEF Late, Ending
  <2>2. CASE i \in e + 7 .. Len(F)
    <3>1. F[i] \in Ending /\ i > e + 6
        BY <1>1, <2>2
    <3>. QED
        BY <3>1 DEF Ending, ToolSteps
  <2>3. CASE \/ i = e + 1 \/ i = e + 2 \/ i = e + 3 \/ i = e + 4 \/ i = e + 5 \/ i = e + 6
      BY <1>1, <2>3 DEF ToolSteps
  <2>. QED
      BY <1>2, <2>1, <2>2, <2>3
<1>4. ASSUME NEW k \in 1 .. Len(F)
      PROVE  /\ k - 1 \in Int /\ \A i \in 1 .. k - 1 : i \in 1 .. Len(F) /\ i < k
    BY <1>1
<1>5. LookedBefore(F)
  <2>1. ASSUME NEW k \in 1 .. Len(F), F[k] \in ToolSteps
        PROVE  ~Among(F, k - 1, "server-look") /\ ~Among(F, k - 1, "module-look")
    <3>1. k <= e
        BY <1>3, <2>1
    <3>2. ASSUME NEW i \in 1 .. k - 1
          PROVE  F[i] # "server-look" /\ F[i] # "module-look"
      <4>1. i \in 1 .. Len(F) /\ ~(i = e + 1) /\ ~(i = e + 2)
          BY <1>1, <3>1
      <4>. QED
          BY <1>3, <4>1
    <3>. QED
        BY <3>2 DEF Among
  <2>2. ASSUME NEW k \in 1 .. Len(F), F[k] = "import-model"
        PROVE  Among(F, k - 1, "module-look")
    <3>1. k = e + 3
        BY <1>3, <2>2
    <3>2. e + 2 \in 1 .. k - 1
        BY <1>1, <3>1
    <3>. QED
        BY <1>1, <3>2 DEF Among
  <2>3. ASSUME NEW k \in 1 .. Len(F), F[k] = "spawn-server"
        PROVE  Among(F, k - 1, "server-look")
    <3>1. k = e + 4
        BY <1>3, <2>3
    <3>2. e + 1 \in 1 .. k - 1
        BY <1>1, <3>1
    <3>. QED
        BY <1>1, <3>2 DEF Among
  <2>. QED
      BY <2>1, <2>2, <2>3 DEF LookedBefore
<1>6. SuiteInOrder(F)
  <2>1. ASSUME NEW k \in 1 .. Len(F), F[k] = "spawn-server"
        PROVE  k + 2 <= Len(F) /\ F[k + 1] = "import-adapter" /\ F[k + 2] = "suite-ends"
    <3>1. k = e + 4
        BY <1>3, <2>1
    <3>2. k + 2 <= Len(F) /\ k + 1 = e + 5 /\ k + 2 = e + 6
        BY <1>1, <3>1
    <3>. QED
        BY <1>1, <3>2
  <2>2. ASSUME NEW k \in 1 .. Len(F), F[k] = "import-adapter"
        PROVE  k + 1 <= Len(F) /\ F[k + 1] = "suite-ends"
    <3>1. k = e + 5
        BY <1>3, <2>2
    <3>2. k + 1 <= Len(F) /\ k + 1 = e + 6
        BY <1>1, <3>1
    <3>. QED
        BY <1>1, <3>2
  <2>3. ASSUME NEW k \in 1 .. Len(F), F[k] \in {"spawn-server", "import-adapter", "suite-ends"}
        PROVE  ~Among(F, k - 1, "suite-ends") /\ ~Among(F, k - 1, "compare")
    <3>1. k = e + 4 \/ k = e + 5 \/ k = e + 6
        BY <1>3, <2>3
    <3>2. ASSUME NEW i \in 1 .. k - 1
          PROVE  F[i] # "suite-ends" /\ F[i] # "compare"
      <4>1. i \in 1 .. Len(F) /\ ~(i = e + 6) /\ ~(i > e + 6)
          BY <1>1, <3>1
      <4>. QED
          BY <1>3, <4>1
    <3>. QED
        BY <3>2 DEF Among
  <2>. QED
      BY <2>1, <2>2, <2>3 DEF SuiteInOrder
<1>7. e + 6 \in 1 .. Len(F)
    BY <1>1
<1>. QED
    BY <1>1, <1>5, <1>6, <1>7 DEF Among

(* Every command's plan is in order. *)
LEMMA PlansAreOrdered ==
    ASSUME NEW o \in Options
    PROVE  Ordered(o.command, o.framework, Plan(o.command, o.framework))
<1>. DEFINE c == o.command
            f == o.framework
            F == Plan(c, f)
<1>1. c \in Commands
    BY DEF Options
<1>. HIDE DEF c, f
<1>2. CASE c \in {"init", "doctor"}
  <2>1. /\ F \in Seq(PlanSteps) /\ Counted(c, f, F)
        /\ \A i \in 1 .. Len(F) : F[i] \notin Executing \cup Late
      BY <1>2, IdlePlans
  <2>. HIDE DEF F
  <2>2. NeverRuns(F) /\ \A i \in 1 .. Len(F) : F[i] \notin Executing
      BY <2>1 DEF NeverRuns
  <2>3. AdmittedBefore(F)
      BY <2>2 DEF AdmittedBefore
  <2>4. /\ LookedBefore(F) /\ SuiteInOrder(F)
        /\ \A k \in 1 .. Len(F) : F[k] # "spawn-server"
      BY <2>1, <2>2, NeverRunsOrder
  <2>5. c \notin {"replay", "reproduce"} /\ LoadedBefore(c, f, F)
      BY <1>2 DEF LoadedBefore
  <2>6. Ordered(c, f, F)
      BY <2>1, <2>2, <2>3, <2>4, <2>5 DEF Ordered
  <2>. QED
      BY <2>6 DEF c, f, F
<1>3. CASE c \in {"generate", "check"}
  <2>1. /\ F \in Seq(PlanSteps) /\ Counted(c, f, F) /\ NeverRuns(F)
        /\ \E g : Guarded(F, g)
      BY <1>3, GeneratePlan, CheckPlan
  <2>. HIDE DEF F
  <2>2. AdmittedBefore(F)
      BY <2>1, GuardedOrder
  <2>3. /\ LookedBefore(F) /\ SuiteInOrder(F)
        /\ \A k \in 1 .. Len(F) : F[k] # "spawn-server"
      BY <2>1, NeverRunsOrder
  <2>4. c \notin {"replay", "reproduce", "init", "doctor"} /\ LoadedBefore(c, f, F)
      BY <1>3 DEF LoadedBefore
  <2>5. Ordered(c, f, F)
      BY <2>1, <2>2, <2>3, <2>4 DEF Ordered
  <2>. QED
      BY <2>5 DEF c, f, F
<1>4. CASE c \in {"replay", "reproduce"}
  <2>1. /\ F \in Seq(PlanSteps) /\ Counted(c, f, F)
        /\ (\E g : Guarded(F, g)) /\ (\E e : RunsOnce(F, e)) /\ LoadedBefore(c, f, F)
        /\ c = "reproduce" =>
              Among(F, Len(F), "write-result") /\ Among(F, Len(F), "write-cleanup")
    <3>1. CASE c = "replay" /\ f = Absent
        BY <3>1, CheckedReplayPlan
    <3>2. CASE c = "replay" /\ f # Absent
        BY <3>2, AdmittedReplayPlan DEF LoadedBefore
    <3>3. CASE c = "reproduce"
        BY <3>3, ReproducePlan DEF LoadedBefore
    <3>. QED
        BY <1>4, <3>1, <3>2, <3>3
  <2>. HIDE DEF F
  <2>2. AdmittedBefore(F)
      BY <2>1, GuardedOrder
  <2>3. LookedBefore(F) /\ SuiteInOrder(F) /\ Among(F, Len(F), "suite-ends")
      BY <2>1, RunsOnceOrder
  <2>4. c \notin {"init", "doctor"}
      BY <1>4
  <2>5. Ordered(c, f, F)
      BY <1>4, <2>1, <2>2, <2>3, <2>4 DEF Ordered
  <2>. QED
      BY <2>5 DEF c, f, F
<1>. QED
    BY <1>1, <1>2, <1>3, <1>4 DEF Commands

-----------------------------------------------------------------------------
(* The inductive invariant *)

Full == Plan(Command, options.framework)
Taken == Len(Full) - Len(plan)

(* The plan is what is left of the command's plan. *)
OnThePath ==
    exit = Absent =>
        /\ Len(plan) \in 0 .. Len(Full)
        /\ \A i \in 1 .. Len(plan) : plan[i] = Full[Taken + i]

(* The result of a suite that has passed, or confirmed its cleanup, is that *)
(* of a suite whose server is gone.                                         *)
SuiteSettled ==
    /\ suite.outcome = "passed" => suite.cleanup = "succeeded"
    /\ suite.cleanup = "succeeded" => server # "alive"

(* What is known once a step has been taken, unless doctor took it *)
Earned(step) ==
    /\ step = "require" => (options.required => Admission)
    /\ step = "require-loaded" => (options.loaded => Admission)
    /\ step = "preflight" =>
          (Admission => preflightFrameworkSelection(options.framework) = {})
    /\ step = "bind" => (Admission => bound)
    /\ step = "server-look" => ("server" \in LoadedTools => "server" \in sight)
    /\ step = "module-look" => (Reproducing \/ options.pinned => "module" \in sight)
    /\ step = "suite-ends" => SuiteSettled
    /\ step = "write-result" => (Reproducing => "write-result" \in outputs)
    /\ step = "write-cleanup" => (Reproducing => "write-cleanup" \in outputs)

AllEarned ==
    exit = Absent /\ Command # "doctor" =>
        \A step \in PlanSteps : Among(Full, Taken, step) => Earned(step)

(* Each tool whose step was taken has ended well, in the plan's order. *)
Logged ==
    exit = Absent =>
        /\ Len(toolLog) = ToolsAmong(Command, options.framework, Taken)
        /\ \A i \in 1 .. Len(toolLog) :
              EndedWell(toolLog[i]) /\ toolLog[i].step = ToolsOf(Command, options.framework)[i]

(* A tool runs for the next step, and was looked at before it was spawned. *)
ChildInv ==
    child # Absent =>
        /\ exit = Absent /\ plan # <<>> /\ Head(plan) = child.step
        /\ child.is = "checked" => "compiler" \in sight

(* Only a suite that did not pass reproduces a failure. *)
Reproduced ==
    exit = Absent /\ "reproduced" \in outputs =>
        Among(Full, Taken, "compare") /\ suite.outcome # "passed"

ProjectInv ==
    /\ ProjectTypeOK /\ OnThePath /\ AllEarned /\ Logged /\ ChildInv /\ Reproduced
    /\ RunsWhatWasChecked /\ ExitIsEarned

-----------------------------------------------------------------------------
(* Steps along the plan *)

Moves(n) ==
    /\ n \in 0 .. Len(plan) /\ plan' \in Seq(PlanSteps) /\ Len(plan') = Len(plan) - n
    /\ \A i \in 1 .. Len(plan) - n : plan'[i] = plan[n + i]

(* Taking the next step moves one step along the plan. *)
LEMMA TailMoves ==
    ASSUME plan \in Seq(PlanSteps), plan # <<>>, plan' = Tail(plan)
    PROVE  Moves(1) /\ Head(plan) = plan[1] /\ 1 \in 1 .. Len(plan) /\ plan[1] \in PlanSteps
<1>1. Len(plan) \in Nat /\ Len(plan) # 0
    BY EmptySeq, LenProperties
<1>2. /\ Tail(plan) \in Seq(PlanSteps) /\ Len(Tail(plan)) = Len(plan) - 1
      /\ \A i \in 1 .. Len(Tail(plan)) : Tail(plan)[i] = plan[i + 1]
    BY HeadTailProperties
<1>3. \A i \in 1 .. Len(plan) - 1 : i + 1 = 1 + i
    BY <1>1
<1>4. plan[1] \in PlanSteps
    BY <1>1, ElementOfSeq
<1>. QED
    BY <1>1, <1>2, <1>3, <1>4 DEF Moves

(* The suite's failure skips the steps up to its end. *)
LEMMA SkipMoves ==
    ASSUME plan \in Seq(PlanSteps), NEW n \in 0 .. Len(plan),
           plan' = SubSeq(plan, n + 1, Len(plan))
    PROVE  Moves(n)
<1>1. Len(plan) \in Nat /\ n + 1 \in Int /\ Len(plan) \in Int
    BY LenProperties
<1>2. \A i \in n + 1 .. Len(plan) : plan[i] \in PlanSteps
    BY <1>1, ElementOfSeq
<1>3. /\ plan' \in Seq(PlanSteps)
      /\ Len(plan') = IF n + 1 <= Len(plan) THEN Len(plan) - (n + 1) + 1 ELSE 0
      /\ \A i \in 1 .. Len(plan) - (n + 1) + 1 : plan'[i] = plan[n + 1 + i - 1]
    BY <1>1, <1>2, SubSeqProperties
<1>4. Len(plan') = Len(plan) - n
    BY <1>1, <1>3
<1>5. ASSUME NEW i \in 1 .. Len(plan) - n
      PROVE  plan'[i] = plan[n + i]
  <2>1. i \in 1 .. Len(plan) - (n + 1) + 1 /\ n + 1 + i - 1 = n + i
      BY <1>1
  <2>. QED
      BY <1>3, <2>1
<1>. QED
    BY <1>3, <1>4, <1>5 DEF Moves

(* doctor may drop all that is left of its plan. *)
LEMMA StopMoves ==
    ASSUME plan \in Seq(PlanSteps), plan' = <<>>
    PROVE  Moves(Len(plan))
<1>1. Len(plan) \in Nat
    BY LenProperties
<1>2. Len(plan') = 0 /\ plan' \in Seq(PlanSteps)
    OBVIOUS
<1>. QED
    BY <1>1, <1>2 DEF Moves

(* A plan that is left alone does not move. *)
LEMMA StayMoves ==
    ASSUME plan \in Seq(PlanSteps), plan' = plan
    PROVE  Moves(0)
<1>1. Len(plan) \in Nat
    BY LenProperties
<1>. QED
    BY <1>1 DEF Moves

(* The plan of a command does not change, and a move takes its next steps. *)
LEMMA Moved ==
    ASSUME options \in Options, plan \in Seq(PlanSteps), exit = Absent, OnThePath,
           options' = options, NEW n, Moves(n)
    PROVE  /\ Ordered(Command, options.framework, Full) /\ Len(Full) \in Nat
           /\ Taken \in Nat /\ n \in Nat /\ Taken + n <= Len(Full)
           /\ Full' = Full /\ Command' = Command /\ Taken' = Taken + n /\ OnThePath'
           /\ \A i \in 1 .. n : plan[i] = Full[Taken + i] /\ Taken + i \in 1 .. Len(Full)
<1>1. Ordered(Command, options.framework, Full)
    BY PlansAreOrdered DEF Full, Command
<1>2. Full \in Seq(PlanSteps) /\ Len(Full) \in Nat /\ Len(plan) \in Nat
    BY <1>1, LenProperties DEF Ordered
<1>3. /\ Len(plan) \in 0 .. Len(Full) /\ Taken \in Nat /\ Taken + Len(plan) = Len(Full)
      /\ \A i \in 1 .. Len(plan) : plan[i] = Full[Taken + i]
    BY <1>2 DEF OnThePath, Taken
<1>4. Full' = Full /\ Command' = Command
    BY DEF Full, Command
<1>5. /\ n \in 0 .. Len(plan) /\ Len(plan') = Len(plan) - n
      /\ \A i \in 1 .. Len(plan) - n : plan'[i] = plan[n + i]
    BY DEF Moves
<1>6. Taken' = Taken + n /\ n \in Nat /\ Taken + n <= Len(Full)
    BY <1>2, <1>3, <1>4, <1>5 DEF Taken
<1>7. OnThePath'
  <2>1. Len(plan') \in 0 .. Len(Full)
      BY <1>2, <1>3, <1>5
  <2>2. ASSUME NEW i \in 1 .. Len(plan')
        PROVE  plan'[i] = Full[Taken + n + i]
    <3>1. i \in 1 .. Len(plan) - n /\ n + i \in 1 .. Len(plan) /\ Taken + (n + i) = Taken + n + i
        BY <1>2, <1>3, <1>5
    <3>. QED
        BY <1>3, <1>5, <3>1
  <2>. QED
      BY <1>4, <1>6, <2>1, <2>2 DEF OnThePath
<1>8. ASSUME NEW i \in 1 .. n
      PROVE  plan[i] = Full[Taken + i] /\ Taken + i \in 1 .. Len(Full)
    BY <1>2, <1>3, <1>5
<1>. QED
    BY <1>1, <1>2, <1>3, <1>4, <1>6, <1>7, <1>8

(* What was earned stays earned: nothing forgets a file that was seen but   *)
(* a tool that is spawned, and no tool is spawned any more then.            *)
LEMMA StaysEarned ==
    ASSUME NEW step, Earned(step), options' = options, bound => bound', outputs \subseteq outputs',
           step \in {"server-look", "module-look"} => sight \subseteq sight',
           step = "suite-ends" => suite' = suite /\ server' = server
    PROVE  Earned(step)'
<1>1. /\ Command' = Command /\ Admission' = Admission /\ Reproducing' = Reproducing
      /\ LoadedTools' = LoadedTools
    BY DEF Command, Admission, Reproducing, LoadedTools, Required
<1>2. step \in {"server-look", "module-look"} => Earned(step)'
    BY <1>1 DEF Earned
<1>3. step = "suite-ends" => Earned(step)'
    BY <1>1 DEF Earned, SuiteSettled
<1>4. step \notin {"server-look", "module-look", "suite-ends"} => Earned(step)'
    BY <1>1 DEF Earned
<1>. QED
    BY <1>2, <1>3, <1>4

(* Whatever was taken before is still taken. *)
LEMMA StillTaken ==
    ASSUME NEW F, NEW k \in Nat, NEW n \in Nat, NEW step, Among(F, k, step)
    PROVE  Among(F, k + n, step)
<1>1. PICK j \in 1 .. k : F[j] = step
    BY DEF Among
<1>2. j \in 1 .. k + n
    OBVIOUS
<1>. QED
    BY <1>1, <1>2 DEF Among

(* Steps that run no tool leave the log as the plan has it. *)
LEMMA LogKept ==
    ASSUME options \in Options, plan \in Seq(PlanSteps), exit = Absent, OnThePath, Logged,
           options' = options, NEW n \in 0 .. 3, Moves(n),
           toolLog' = toolLog, \A i \in 1 .. n : plan[i] \notin ToolSteps
    PROVE  Logged'
<1>. DEFINE c == Command
            f == options.framework
<1>1. /\ Ordered(c, f, Full) /\ Len(Full) \in Nat /\ Taken \in Nat /\ Taken' = Taken + n
      /\ Command' = c /\ Taken + n <= Len(Full)
      /\ \A i \in 1 .. n : plan[i] = Full[Taken + i] /\ Taken + i \in 1 .. Len(Full)
    BY Moved
<1>2. ASSUME NEW i \in 1 .. n
      PROVE  ToolsAmong(c, f, Taken + i) = ToolsAmong(c, f, Taken + i - 1)
  <2>1. Taken + i \in 1 .. Len(Full) /\ Full[Taken + i] \notin ToolSteps
      BY <1>1
  <2>. QED
      BY <1>1, <2>1 DEF Ordered, Counted
<1>. HIDE DEF c, f
<1>3. ToolsAmong(c, f, Taken + n) = ToolsAmong(c, f, Taken)
  <2>1. CASE n = 0
    <3>1. Taken + n = Taken
        BY <1>1, <2>1
    <3>. QED
        BY <3>1
  <2>2. CASE n = 1
    <3>1. 1 \in 1 .. n /\ Taken + 1 - 1 = Taken
        BY <1>1, <2>2
    <3>. QED
        BY <1>2, <2>2, <3>1
  <2>3. CASE n = 2
    <3>1. 1 \in 1 .. n /\ 2 \in 1 .. n /\ Taken + 1 - 1 = Taken /\ Taken + 2 - 1 = Taken + 1
        BY <1>1, <2>3
    <3>. QED
        BY <1>2, <2>3, <3>1
  <2>4. CASE n = 3
    <3>1. /\ 1 \in 1 .. n /\ 2 \in 1 .. n /\ 3 \in 1 .. n
          /\ Taken + 1 - 1 = Taken /\ Taken + 2 - 1 = Taken + 1 /\ Taken + 3 - 1 = Taken + 2
        BY <1>1, <2>4
    <3>. QED
        BY <1>2, <2>4, <3>1
  <2>5. n = 0 \/ n = 1 \/ n = 2 \/ n = 3
      OBVIOUS
  <2>. QED
      BY <2>1, <2>2, <2>3, <2>4, <2>5
<1>. QED
    BY <1>1, <1>3 DEF Logged, EndedWell, c, f

(* Each step that is taken has earned what it should. *)
LEMMA EarnedOnward ==
    ASSUME options \in Options, plan \in Seq(PlanSteps), exit = Absent, OnThePath, AllEarned,
           options' = options, NEW n \in 0 .. 3, Moves(n),
           Command # "doctor" =>
               \A step \in PlanSteps : (\E i \in 1 .. n : plan[i] = step) => Earned(step)',
           \A step \in PlanSteps : Among(Full, Taken, step) /\ Earned(step) => Earned(step)'
    PROVE  AllEarned'
<1>0. /\ Len(Full) \in Nat /\ Taken \in Nat /\ n \in Nat
      /\ Full' = Full /\ Command' = Command /\ Taken' = Taken + n
      /\ \A i \in 1 .. n : plan[i] = Full[Taken + i]
    BY Moved
<1>1. ASSUME NEW step \in PlanSteps, Among(Full, Taken + n, step), Command # "doctor"
      PROVE  Earned(step)'
  <2>1. CASE Among(Full, Taken, step)
    <3>1. Earned(step)
        BY <1>1, <2>1 DEF AllEarned
    <3>. QED
        BY <2>1, <3>1
  <2>2. CASE \E i \in 1 .. n : Full[Taken + i] = step
    <3>1. \E i \in 1 .. n : plan[i] = step
        BY <1>0, <2>2
    <3>. QED
        BY <1>1, <3>1
  <2>3. Among(Full, Taken, step) \/ \E i \in 1 .. n : Full[Taken + i] = step
    <3>1. PICK j \in 1 .. Taken + n : Full[j] = step
        BY <1>1 DEF Among
    <3>2. CASE j \in 1 .. Taken
        BY <3>1, <3>2 DEF Among
    <3>3. CASE j - Taken \in 1 .. n
      <4>1. Taken + (j - Taken) = j
          BY <1>0
      <4>. QED
          BY <3>1, <3>3, <4>1
    <3>4. j \in 1 .. Taken \/ j - Taken \in 1 .. n
        BY <1>0
    <3>. QED
        BY <3>2, <3>3, <3>4
  <2>. QED
      BY <2>1, <2>2, <2>3
<1>. QED
    BY <1>0, <1>1 DEF AllEarned

(* A command goes on: it takes n steps that run no tool, and each earns     *)
(* what it should.                                                          *)
LEMMA GoesOn ==
    ASSUME ProjectInv, exit = Absent, exit' = Absent, child = Absent, child' = Absent,
           options' = options, toolLog' = toolLog, ProjectTypeOK', RunsWhatWasChecked',
           NEW n \in 0 .. 3, Moves(n), \A i \in 1 .. n : plan[i] \notin ToolSteps,
           Command # "doctor" =>
               \A step \in PlanSteps : (\E i \in 1 .. n : plan[i] = step) => Earned(step)',
           \A step \in PlanSteps : Among(Full, Taken, step) /\ Earned(step) => Earned(step)',
           "reproduced" \in outputs' =>
               \/ "reproduced" \in outputs /\ suite' = suite
               \/ n = 1 /\ plan[1] = "compare" /\ suite'.outcome # "passed"
    PROVE  ProjectInv'
<1>1. /\ options \in Options /\ plan \in Seq(PlanSteps) /\ OnThePath /\ Logged
    BY DEF ProjectInv, ProjectTypeOK
<1>2. /\ Len(Full) \in Nat /\ Taken \in Nat /\ n \in Nat /\ Taken + n <= Len(Full)
      /\ Full' = Full /\ Command' = Command /\ Taken' = Taken + n /\ OnThePath'
      /\ \A i \in 1 .. n : plan[i] = Full[Taken + i] /\ Taken + i \in 1 .. Len(Full)
    BY <1>1, Moved
<1>3. Logged'
    BY <1>1, LogKept
<1>4. AllEarned'
    BY <1>1, EarnedOnward DEF ProjectInv
<1>5. ChildInv' /\ ExitIsEarned'
    BY DEF ChildInv, ExitIsEarned
<1>6. Reproduced'
  <2>1. ASSUME "reproduced" \in outputs, suite' = suite
        PROVE  Among(Full, Taken + n, "compare") /\ suite'.outcome # "passed"
    <3>1. Among(Full, Taken, "compare") /\ suite'.outcome # "passed"
        BY <2>1 DEF ProjectInv, Reproduced
    <3>. QED
        BY <1>2, <3>1, StillTaken
  <2>2. ASSUME n = 1, plan[1] = "compare", suite'.outcome # "passed"
        PROVE  Among(Full, Taken + n, "compare") /\ suite'.outcome # "passed"
    <3>1. 1 \in 1 .. n /\ Taken + 1 \in 1 .. Taken + n
        BY <1>2, <2>2
    <3>. QED
        BY <1>2, <2>2, <3>1 DEF Among
  <2>. QED
      BY <1>2, <2>1, <2>2 DEF Reproduced
<1>. QED
    BY <1>2, <1>3, <1>4, <1>5, <1>6 DEF ProjectInv

(* What was executed, and what was known of it, is not rewritten. *)
LEMMA RanKept ==
    ASSUME RunsWhatWasChecked, ran' = ran, options' = options
    PROVE  RunsWhatWasChecked'
BY DEF RunsWhatWasChecked, Promised, Admission, Reproducing, Command

(* What a step at which nothing runs leaves alone *)
LEMMA QuietTypes ==
    ASSUME ProjectTypeOK, Quiet, sight' \subseteq Executables, bound' \in BOOLEAN,
           plan' \in Seq(PlanSteps), exit' \in Exits \cup {Absent}, failedCheck' \in BOOLEAN
    PROVE  ProjectTypeOK'
BY DEF ProjectTypeOK, Quiet, running

(* A step is taken at which nothing runs. *)
LEMMA QuietAdvance ==
    ASSUME ProjectInv, NEW x \in PlanSteps, x \notin ToolSteps, x # "compare", At(x), Advance,
           Quiet, sight \subseteq sight', sight' \subseteq Executables, bound => bound',
           bound' \in BOOLEAN, Command # "doctor" => Earned(x)'
    PROVE  ProjectInv'
<1>1. /\ plan \in Seq(PlanSteps) /\ plan # <<>> /\ plan' = Tail(plan) /\ Head(plan) = x
      /\ exit = Absent /\ exit' = Absent /\ child = Absent /\ failedCheck' = failedCheck
    BY DEF ProjectInv, ProjectTypeOK, At, Advance
<1>2. Moves(1) /\ plan[1] = x
    BY <1>1, TailMoves
<1>3. /\ options' = options /\ toolLog' = toolLog /\ child' = Absent /\ ran' = ran
      /\ outputs' = outputs /\ suite' = suite /\ server' = server
    BY <1>1 DEF Quiet, running
<1>4. ProjectTypeOK'
    BY <1>1, <1>2, QuietTypes DEF ProjectInv, ProjectTypeOK, Moves
<1>5. RunsWhatWasChecked'
    BY <1>3, RanKept DEF ProjectInv
<1>6. \A i \in 1 .. 1 : i = 1
    OBVIOUS
<1>7. \A step \in PlanSteps : Among(Full, Taken, step) /\ Earned(step) => Earned(step)'
    BY <1>3, StaysEarned
<1>. QED
    BY <1>1, <1>2, <1>3, <1>4, <1>5, <1>6, <1>7, GoesOn

(* What an error makes of the exit *)
LEMMA ThrowEnds ==
    ASSUME NEW code \in ErrorCodes, Throw(code)
    PROVE  /\ exit' \in Exits /\ exit' # Absent /\ exit'.code = 2
           /\ exit'.outcome = Outcome(code) /\ plan' = <<>> /\ plan' \in Seq(PlanSteps)
           /\ failedCheck' = failedCheck
           /\ exit'.outcome = "cancelled" => code = "cancelled"
           /\ exit'.outcome = "timedOut" => code = "tool_timed_out"
<1>1. Outcome(code) \in {"failed", "cancelled", "timedOut"}
    BY DEF Outcome
<1>2. exit' \in Exits /\ exit'.code = 2 /\ exit'.outcome = Outcome(code)
    BY <1>1 DEF Throw, Exits
<1>3. exit' # Absent
    BY <1>2, ProjectAssumption
<1>4. /\ Outcome(code) = "cancelled" => code = "cancelled"
      /\ Outcome(code) = "timedOut" => code = "tool_timed_out"
    BY DEF Outcome
<1>5. plan' = <<>> /\ plan' \in Seq(PlanSteps) /\ failedCheck' = failedCheck
    BY DEF Throw
<1>. QED
    BY <1>2, <1>3, <1>4, <1>5

(* An error ends the command. *)
LEMMA ThrowKeeps ==
    ASSUME NEW code \in ErrorCodes, Throw(code), child' = Absent, ProjectTypeOK',
           RunsWhatWasChecked', code = "cancelled" => aborted',
           code = "tool_timed_out" => \E i \in DOMAIN toolLog' : toolLog'[i].expired
    PROVE  ProjectInv'
<1>1. /\ exit' # Absent /\ exit'.code = 2
      /\ exit'.outcome = "cancelled" => code = "cancelled"
      /\ exit'.outcome = "timedOut" => code = "tool_timed_out"
    BY ThrowEnds
<1>2. ExitIsEarned'
    BY <1>1 DEF ExitIsEarned
<1>3. OnThePath' /\ AllEarned' /\ Logged' /\ ChildInv' /\ Reproduced'
    BY <1>1 DEF OnThePath, AllEarned, Logged, ChildInv, Reproduced
<1>. QED
    BY <1>2, <1>3 DEF ProjectInv

(* An error where nothing runs *)
LEMMA QuietThrow ==
    ASSUME ProjectInv, child = Absent, NEW code \in ErrorCodes, Throw(code),
           code \notin {"cancelled", "tool_timed_out"}, Quiet,
           sight' \subseteq Executables, bound' \in BOOLEAN
    PROVE  ProjectInv'
<1>1. exit' \in Exits /\ plan' \in Seq(PlanSteps) /\ failedCheck' = failedCheck
    BY ThrowEnds
<1>2. ProjectTypeOK'
    BY <1>1, QuietTypes DEF ProjectInv, ProjectTypeOK
<1>3. child' = Absent /\ ran' = ran /\ options' = options
    BY DEF Quiet, running
<1>4. RunsWhatWasChecked'
    BY <1>3, RanKept DEF ProjectInv
<1>. QED
    BY <1>2, <1>3, <1>4, ThrowKeeps

(* doctor runs no tool at any step. *)
LEMMA DoctorLog ==
    ASSUME Command = "doctor", NEW k
    PROVE  ToolsAmong(Command, options.framework, k) = 0
BY DEF ToolsAmong

(* A refusal: an error, or a check of doctor that failed *)
LEMMA QuietRefuse ==
    ASSUME ProjectInv, NEW x, At(x), NEW code \in ErrorCodes, NEW goesOn \in BOOLEAN,
           Refuse(code, goesOn), code \notin {"cancelled", "tool_timed_out"}, Quiet,
           sight' \subseteq Executables, bound' \in BOOLEAN
    PROVE  ProjectInv'
<1>1. /\ options \in Options /\ plan \in Seq(PlanSteps) /\ plan # <<>>
      /\ exit = Absent /\ child = Absent /\ OnThePath
    BY DEF ProjectInv, ProjectTypeOK, At
<1>2. CASE Command # "doctor"
  <2>1. Throw(code)
      BY <1>2 DEF Refuse
  <2>. QED
      BY <1>1, <2>1, QuietThrow
<1>3. CASE Command = "doctor"
  <2>1. /\ failedCheck' = TRUE /\ exit' = Absent
        /\ plan' = Tail(plan) \/ plan' = <<>>
      BY <1>1, <1>3 DEF Refuse
  <2>2. /\ options' = options /\ toolLog' = toolLog /\ child' = Absent /\ ran' = ran
        /\ outputs' = outputs /\ suite' = suite
      BY <1>1 DEF Quiet, running
  <2>3. PICK n : Moves(n)
      BY <1>1, <2>1, TailMoves, StopMoves
  <2>4. /\ Taken \in Nat /\ n \in Nat
        /\ Full' = Full /\ Command' = Command /\ Taken' = Taken + n /\ OnThePath'
      BY <1>1, <2>2, <2>3, Moved
  <2>5. ProjectTypeOK'
      BY <2>1, <2>3, QuietTypes DEF ProjectInv, Moves
  <2>6. RunsWhatWasChecked'
      BY <2>2, RanKept DEF ProjectInv
  <2>7. Logged'
    <3>1. /\ ToolsAmong(Command, options.framework, Taken) = 0
          /\ ToolsAmong(Command, options.framework, Taken') = 0
        BY <1>3, DoctorLog
    <3>. QED
        BY <1>1, <2>1, <2>2, <2>4, <3>1 DEF ProjectInv, Logged, EndedWell
  <2>8. AllEarned' /\ ChildInv' /\ ExitIsEarned'
      BY <1>3, <2>1, <2>2, <2>4 DEF AllEarned, ChildInv, ExitIsEarned
  <2>9. Reproduced'
    <3>1. ASSUME "reproduced" \in outputs
          PROVE  Among(Full, Taken + n, "compare") /\ suite.outcome # "passed"
      <4>1. Among(Full, Taken, "compare") /\ suite.outcome # "passed"
          BY <1>1, <3>1 DEF ProjectInv, Reproduced
      <4>. QED
          BY <2>4, <4>1, StillTaken
    <3>. QED
        BY <2>2, <2>4, <3>1 DEF Reproduced
  <2>. QED
      BY <2>4, <2>5, <2>6, <2>7, <2>8, <2>9 DEF ProjectInv
<1>. QED
    BY <1>2, <1>3

-----------------------------------------------------------------------------
(* The steps at which nothing runs *)

(* Only these steps earn something. *)
LEMMA PlainStep ==
    ASSUME NEW x, x \notin {"require", "require-loaded", "preflight", "bind", "server-look", "module-look",
                            "suite-ends", "write-result", "write-cleanup"}
    PROVE  Earned(x)'
BY DEF Earned

(* A step that looks at no file that is executed, and may be refused *)
LEMMA AdvanceOrThrow ==
    ASSUME ProjectInv, NEW x \in PlanSteps, x \notin ToolSteps, x # "compare", At(x),
           Advance \/ \E code \in ErrorCodes \ {"cancelled", "tool_timed_out"} : Throw(code),
           Quiet, sight' = sight, bound' = bound, Earned(x)'
    PROVE  ProjectInv'
<1>1. sight' \subseteq Executables /\ bound' \in BOOLEAN /\ child = Absent
    BY DEF ProjectInv, ProjectTypeOK, At
<1>2. CASE Advance
    BY <1>1, <1>2, QuietAdvance
<1>3. CASE \E code \in ErrorCodes \ {"cancelled", "tool_timed_out"} : Throw(code)
    BY <1>1, <1>3, QuietThrow
<1>. QED
    BY <1>2, <1>3

(* ParseFlags, InitFile, CheckArguments, decodeContract and                 *)
(* ReproductionPreflight                                                    *)
LEMMA PlainStepsKeep ==
    ASSUME ProjectInv,
           ParseFlags \/ InitFile \/ CheckArguments \/ decodeContract \/ ReproductionPreflight
    PROVE  ProjectInv'
<1>. DEFINE codes == ErrorCodes \ {"cancelled", "tool_timed_out"}
<1>1. /\ "usage" \in codes /\ "project_operation_failed" \in codes
      /\ "configuration_invalid" \in codes /\ "configuration_unavailable" \in codes
      /\ "compatibility_refused" \in codes /\ "catalog_selection_mismatch" \in codes
    BY DEF ErrorCodes, FrameworkRefusalCode
<1>2. /\ "flags" \in PlanSteps \ ToolSteps /\ "init" \in PlanSteps \ ToolSteps
      /\ "arguments" \in PlanSteps \ ToolSteps /\ "contract" \in PlanSteps \ ToolSteps
      /\ "reproduction-preflight" \in PlanSteps \ ToolSteps
    BY DEF PlanSteps, ToolSteps
<1>3. /\ readStrictJson \cup frameworkInput \subseteq codes
      /\ qualificationOutputRoot \cup readBoundedRegular \subseteq codes
    BY <1>1 DEF readStrictJson, frameworkInput, qualificationOutputRoot, readBoundedRegular
<1>. HIDE DEF codes
<1>4. PICK x \in {"flags", "init", "arguments", "contract", "reproduction-preflight"} :
          At(x) /\ (Advance \/ \E code \in codes : Throw(code)) /\ Quiet
          /\ sight' = sight /\ bound' = bound
  <2>1. CASE ParseFlags
      BY <1>1, <1>3, <2>1 DEF ParseFlags
  <2>2. CASE InitFile
      BY <1>1, <2>2 DEF InitFile
  <2>3. CASE CheckArguments
      BY <1>1, <1>3, <2>3 DEF CheckArguments
  <2>4. CASE decodeContract
      BY <1>1, <2>4 DEF decodeContract
  <2>5. CASE ReproductionPreflight
      BY <1>1, <2>5 DEF ReproductionPreflight
  <2>. QED
      BY <2>1, <2>2, <2>3, <2>4, <2>5
<1>5. Earned(x)'
    BY <1>4, PlainStep
<1>. QED
    BY <1>2, <1>4, <1>5, AdvanceOrThrow DEF codes

(* The names that depend on the options only *)
LEMMA OptionsKept ==
    ASSUME options' = options
    PROVE  /\ Command' = Command /\ Admission' = Admission /\ Reproducing' = Reproducing
           /\ LoadedTools' = LoadedTools
BY DEF Command, Admission, Reproducing, LoadedTools, Required

(* requireDeclaredFramework: a project's demand for admission is met *)
LEMMA requireKeeps ==
    ASSUME ProjectInv, requireDeclaredFramework
    PROVE  ProjectInv'
<1>1. PICK step \in {"require", "require-loaded"} :
        /\ At(step) /\ Quiet /\ sight' = sight /\ bound' = bound
        /\ IF (IF step = "require" THEN options.required ELSE options.loaded) /\ ~Admission
           THEN Refuse("catalog_selection_required", FALSE) ELSE Advance
    BY DEF requireDeclaredFramework
<1>. DEFINE demanded == IF step = "require" THEN options.required ELSE options.loaded
<1>2. /\ sight' \subseteq Executables /\ bound' \in BOOLEAN /\ options' = options
      /\ demanded \in BOOLEAN
    BY <1>1 DEF Quiet, ProjectInv, ProjectTypeOK, Options
<1>3. step \in PlanSteps /\ step \notin ToolSteps /\ step # "compare"
    BY <1>1 DEF PlanSteps, ToolSteps
<1>4. CASE demanded /\ ~Admission
  <2>1. Refuse("catalog_selection_required", FALSE)
      BY <1>1, <1>4
  <2>2. "catalog_selection_required" \in ErrorCodes
      BY DEF ErrorCodes
  <2>. QED
      BY <1>1, <1>2, <2>1, <2>2, QuietRefuse
<1>5. CASE ~(demanded /\ ~Admission)
  <2>1. Advance
      BY <1>1, <1>5
  <2>2. Earned(step)'
      BY <1>1, <1>2, <1>5, OptionsKept DEF Earned
  <2>. QED
      BY <1>1, <1>2, <1>3, <2>1, <2>2, QuietAdvance
<1>. QED
    BY <1>4, <1>5

(* preflightCommandFramework: the selection was matched, or is refused *)
LEMMA preflightKeeps ==
    ASSUME ProjectInv, preflightCommandFramework
    PROVE  ProjectInv'
<1>. DEFINE refusals == IF Admission THEN preflightFrameworkSelection(options.framework) ELSE {}
<1>1. /\ At("preflight") /\ Quiet /\ sight' = sight /\ bound' = bound /\ options' = options
      /\ sight' \subseteq Executables /\ bound' \in BOOLEAN
    BY DEF preflightCommandFramework, Quiet, ProjectInv, ProjectTypeOK
<1>2. "preflight" \in PlanSteps /\ "preflight" \notin ToolSteps
    BY DEF PlanSteps, ToolSteps
<1>3. IF refusals = {} THEN Advance ELSE \E code \in refusals : Refuse(code, FALSE)
    BY DEF preflightCommandFramework
<1>4. CASE refusals # {}
  <2>1. Admission /\ refusals = preflightFrameworkSelection(options.framework)
      BY <1>4
  <2>2. options.framework \in FrameworkPreflightInput
      BY <2>1, ProjectAssumption DEF ProjectInv, ProjectTypeOK, Options, Admission
  <2>3. refusals \subseteq FrameworkRefusalCode
      BY <2>1, <2>2, MatchedIsAdmitted
  <2>4. PICK code \in refusals : Refuse(code, FALSE)
      BY <1>3, <1>4
  <2>5. code \in ErrorCodes /\ code \notin {"cancelled", "tool_timed_out"}
      BY <2>3, <2>4 DEF ErrorCodes, FrameworkRefusalCode
  <2>. HIDE DEF refusals
  <2>. QED
      BY <1>1, <2>4, <2>5, QuietRefuse
<1>5. CASE refusals = {}
  <2>1. Advance
      BY <1>3, <1>5
  <2>2. Admission => preflightFrameworkSelection(options.framework) = {}
      BY <1>5
  <2>3. preflightFrameworkSelection(options.framework)'
            = preflightFrameworkSelection(options.framework)
      BY <1>1
  <2>4. Earned("preflight")'
      BY <1>1, <2>2, <2>3, OptionsKept DEF Earned
  <2>. QED
      BY <1>1, <1>2, <2>1, <2>4, QuietAdvance
<1>. QED
    BY <1>4, <1>5

(* Looking at files forgets none, and finds those that are as pinned. *)
LEMMA Seeing ==
    ASSUME ProjectTypeOK, NEW files, Sees(files)
    PROVE  /\ sight \subseteq sight' /\ sight' \subseteq Executables
           /\ Looks(files) => \A f \in files \cap Executables : f \in sight'
BY DEF Sees, Looks, ProjectTypeOK

(* loadProject: what it sees of the tools is kept, what it refuses ends it *)
LEMMA loadKeeps ==
    ASSUME ProjectInv, loadProject
    PROVE  ProjectInv'
<1>. DEFINE codes == Unreadable \cup Unusable \cup {"tool_identity_mismatch"}
<1>1. /\ At("load") /\ Quiet /\ bound' = bound /\ bound' \in BOOLEAN /\ ProjectTypeOK
    BY DEF loadProject, ProjectInv, ProjectTypeOK
<1>2. "load" \in PlanSteps /\ "load" \notin ToolSteps
    BY DEF PlanSteps, ToolSteps
<1>3. /\ codes \subseteq ErrorCodes /\ "cancelled" \notin codes /\ "tool_timed_out" \notin codes
    BY DEF Unreadable, Unusable, ErrorCodes, FrameworkRefusalCode
<1>4. /\ sight' = sight \/ Sees(LoadedTools)
      /\ Advance \/ \E code \in codes, goesOn \in BOOLEAN : Refuse(code, goesOn)
    BY DEF loadProject
<1>. HIDE DEF codes
<1>5. sight \subseteq sight' /\ sight' \subseteq Executables
    BY <1>1, <1>4, Seeing DEF ProjectTypeOK
<1>6. CASE Advance
  <2>1. Earned("load")'
      BY PlainStep
  <2>. QED
      BY <1>1, <1>2, <1>5, <1>6, <2>1, QuietAdvance
<1>7. CASE \E code \in codes, goesOn \in BOOLEAN : Refuse(code, goesOn)
    BY <1>1, <1>3, <1>5, <1>7, QuietRefuse
<1>. QED
    BY <1>4, <1>6, <1>7

(* asProject: a project that is already loaded *)
LEMMA asProjectKeeps ==
    ASSUME ProjectInv, asProject
    PROVE  ProjectInv'
<1>. DEFINE codes == Unreadable \cup Unusable \cup {"tool_identity_mismatch"}
<1>1. /\ At("reload") /\ Quiet /\ bound' = bound /\ bound' \in BOOLEAN /\ ProjectTypeOK
      /\ child = Absent
    BY DEF asProject, ProjectInv, ProjectTypeOK, At
<1>2. "reload" \in PlanSteps /\ "reload" \notin ToolSteps
    BY DEF PlanSteps, ToolSteps
<1>3. /\ sight \subseteq sight' /\ sight' \subseteq Executables
      /\ Advance \/ \E code \in codes : Throw(code)
    BY <1>1, Seeing DEF asProject, ProjectTypeOK
<1>4. CASE Advance
  <2>1. Earned("reload")'
      BY PlainStep
  <2>. QED
      BY <1>1, <1>2, <1>3, <1>4, <2>1, QuietAdvance
<1>5. CASE \E code \in codes : Throw(code)
  <2>1. /\ codes \subseteq ErrorCodes /\ "cancelled" \notin codes
        /\ "tool_timed_out" \notin codes
      BY DEF Unreadable, Unusable, ErrorCodes, FrameworkRefusalCode
  <2>. HIDE DEF codes
  <2>. QED
      BY <1>1, <1>3, <1>5, <2>1, QuietThrow
<1>. QED
    BY <1>3, <1>4, <1>5

(* bindProjectFramework: the installed framework is matched from here on *)
LEMMA bindKeeps ==
    ASSUME ProjectInv, bindProjectFramework
    PROVE  ProjectInv'
<1>. DEFINE files == LoadedTools \cup {"installed"}
<1>1. /\ At("bind") /\ Quiet /\ ProjectTypeOK /\ options' = options /\ bound \in BOOLEAN
    BY DEF bindProjectFramework, ProjectInv, ProjectTypeOK, Quiet
<1>2. "bind" \in PlanSteps /\ "bind" \notin ToolSteps
    BY DEF PlanSteps, ToolSteps
<1>3. \/ ~Admission /\ Advance /\ sight' = sight /\ bound' = bound
      \/ Sees(files) /\ Advance /\ bound' = TRUE
      \/ Sees(files) /\ (\E code \in Unbound : Refuse(code, FALSE)) /\ bound' = bound
    BY DEF bindProjectFramework
<1>. HIDE DEF files
<1>4. sight \subseteq sight' /\ sight' \subseteq Executables
    BY <1>1, <1>3, Seeing DEF ProjectTypeOK
<1>5. CASE ~Admission /\ Advance /\ bound' = bound
  <2>1. Earned("bind")'
      BY <1>1, <1>5, OptionsKept DEF Earned
  <2>. QED
      BY <1>1, <1>2, <1>4, <1>5, <2>1, QuietAdvance
<1>6. CASE Advance /\ bound' = TRUE
  <2>1. Earned("bind")'
      BY <1>6 DEF Earned
  <2>. QED
      BY <1>1, <1>2, <1>4, <1>6, <2>1, QuietAdvance
<1>7. CASE (\E code \in Unbound : Refuse(code, FALSE)) /\ bound' = bound
  <2>1. /\ Unbound \subseteq ErrorCodes /\ "cancelled" \notin Unbound
        /\ "tool_timed_out" \notin Unbound
      BY DEF Unbound, ErrorCodes, FrameworkRefusalCode
  <2>. QED
      BY <1>1, <1>4, <1>7, <2>1, QuietRefuse
<1>. QED
    BY <1>3, <1>5, <1>6, <1>7

(* verifyProjectBundle: it executes nothing *)
LEMMA verifyKeeps ==
    ASSUME ProjectInv, verifyProjectBundle
    PROVE  ProjectInv'
<1>1. /\ At("verify") /\ Quiet /\ sight' = sight /\ bound' = bound
      /\ sight' \subseteq Executables /\ bound' \in BOOLEAN
    BY DEF verifyProjectBundle, ProjectInv, ProjectTypeOK
<1>2. "verify" \in PlanSteps /\ "verify" \notin ToolSteps /\ "bundle_stale" \in ErrorCodes
    BY DEF PlanSteps, ToolSteps, ErrorCodes
<1>3. Advance \/ Refuse("bundle_stale", TRUE)
    BY DEF verifyProjectBundle
<1>4. Earned("verify")'
    BY PlainStep
<1>5. CASE Advance
    BY <1>1, <1>2, <1>4, <1>5, QuietAdvance
<1>6. CASE Refuse("bundle_stale", TRUE)
    BY <1>1, <1>2, <1>6, QuietRefuse
<1>. QED
    BY <1>3, <1>5, <1>6

(* The server that was looked at has its pinned bytes. *)
LEMMA LookAtServerKeeps ==
    ASSUME ProjectInv, LookAtServer
    PROVE  ProjectInv'
<1>1. /\ At("server-look") /\ Quiet /\ bound' = bound /\ bound' \in BOOLEAN /\ ProjectTypeOK
      /\ child = Absent /\ options' = options
    BY DEF LookAtServer, ProjectInv, ProjectTypeOK, At, Quiet
<1>2. "server-look" \in PlanSteps /\ "server-look" \notin ToolSteps
    BY DEF PlanSteps, ToolSteps
<1>3. sight \subseteq sight' /\ sight' \subseteq Executables
    BY <1>1, Seeing DEF LookAtServer, ProjectTypeOK
<1>4. \/ Advance /\ ("server" \in LoadedTools => "server" \in sight')
      \/ Throw("tool_identity_mismatch")
    BY <1>1, Seeing DEF LookAtServer, Executables, Tools
<1>5. CASE Advance /\ ("server" \in LoadedTools => "server" \in sight')
  <2>1. Earned("server-look")'
      BY <1>1, <1>5, OptionsKept DEF Earned
  <2>. QED
      BY <1>1, <1>2, <1>3, <1>5, <2>1, QuietAdvance
<1>6. CASE Throw("tool_identity_mismatch")
  <2>1. "tool_identity_mismatch" \in ErrorCodes
      BY DEF ErrorCodes
  <2>. QED
      BY <1>1, <1>3, <1>6, <2>1, QuietThrow
<1>. QED
    BY <1>4, <1>5, <1>6

(* The model module that was looked at has its pinned bytes. *)
LEMMA LookAtModuleKeeps ==
    ASSUME ProjectInv, LookAtModule
    PROVE  ProjectInv'
<1>1. /\ At("module-look") /\ Quiet /\ bound' = bound /\ bound' \in BOOLEAN /\ ProjectTypeOK
      /\ child = Absent /\ options' = options
    BY DEF LookAtModule, ProjectInv, ProjectTypeOK, At, Quiet
<1>2. "module-look" \in PlanSteps /\ "module-look" \notin ToolSteps
    BY DEF PlanSteps, ToolSteps
<1>3. sight \subseteq sight' /\ sight' \subseteq Executables
    BY <1>1, Seeing DEF LookAtModule
<1>4. \/ Advance /\ (Reproducing \/ options.pinned => "module" \in sight')
      \/ Throw("model_module_stale")
    BY <1>1, Seeing DEF LookAtModule, Executables
<1>5. CASE Advance /\ (Reproducing \/ options.pinned => "module" \in sight')
  <2>1. Earned("module-look")'
      BY <1>1, <1>5, OptionsKept DEF Earned
  <2>. QED
      BY <1>1, <1>2, <1>3, <1>5, <2>1, QuietAdvance
<1>6. CASE Throw("model_module_stale")
  <2>1. "model_module_stale" \in ErrorCodes
      BY DEF ErrorCodes
  <2>. QED
      BY <1>1, <1>3, <1>6, <2>1, QuietThrow
<1>. QED
    BY <1>4, <1>5, <1>6

(* The module and the adapter a reproduction names are looked at. *)
LEMMA identifyKeeps ==
    ASSUME ProjectInv, identify
    PROVE  ProjectInv'
<1>1. /\ At("identify") /\ Quiet /\ bound' = bound /\ bound' \in BOOLEAN /\ ProjectTypeOK
      /\ child = Absent
    BY DEF identify, ProjectInv, ProjectTypeOK, At
<1>2. "identify" \in PlanSteps /\ "identify" \notin ToolSteps /\ "identity_mismatch" \in ErrorCodes
    BY DEF PlanSteps, ToolSteps, ErrorCodes
<1>3. sight \subseteq sight' /\ sight' \subseteq Executables
    BY <1>1, Seeing DEF identify
<1>4. Advance \/ Throw("identity_mismatch")
    BY DEF identify
<1>5. Earned("identify")'
    BY PlainStep
<1>6. CASE Advance
    BY <1>1, <1>2, <1>3, <1>5, <1>6, QuietAdvance
<1>7. CASE Throw("identity_mismatch")
    BY <1>1, <1>2, <1>3, <1>7, QuietThrow
<1>. QED
    BY <1>4, <1>6, <1>7

-----------------------------------------------------------------------------
(* The steps that execute something *)

(* The next step of the plan is the one after those that were taken. *)
LEMMA NextStep ==
    ASSUME ProjectInv, exit = Absent, plan # <<>>
    PROVE  /\ Ordered(Command, options.framework, Full) /\ Len(Full) \in Nat /\ Taken \in Nat
           /\ Taken + 1 \in 1 .. Len(Full) /\ Full[Taken + 1] = Head(plan)
           /\ Head(plan) = plan[1] /\ Taken + 1 - 1 = Taken
<1>1. /\ options \in Options /\ plan \in Seq(PlanSteps) /\ OnThePath
    BY DEF ProjectInv, ProjectTypeOK
<1>2. Ordered(Command, options.framework, Full)
    BY <1>1, PlansAreOrdered DEF Full, Command
<1>3. Full \in Seq(PlanSteps) /\ Len(Full) \in Nat /\ Len(plan) \in Nat /\ Len(plan) # 0
    BY <1>1, <1>2, EmptySeq, LenProperties DEF Ordered
<1>4. /\ Len(plan) \in 0 .. Len(Full) /\ Taken \in Nat /\ Taken + Len(plan) = Len(Full)
      /\ \A i \in 1 .. Len(plan) : plan[i] = Full[Taken + i]
    BY <1>1, <1>3 DEF OnThePath, Taken
<1>5. Head(plan) = plan[1]
    BY <1>1
<1>6. 1 \in 1 .. Len(plan) /\ Taken + 1 \in 1 .. Len(Full) /\ Taken + 1 - 1 = Taken
    BY <1>3, <1>4
<1>. QED
    BY <1>2, <1>3, <1>4, <1>5, <1>6

(* A step that executes something comes after the admission's steps, and    *)
(* neither init nor doctor has one.                                         *)
LEMMA AdmissionEarned ==
    ASSUME ProjectInv, exit = Absent, plan # <<>>, Head(plan) \in Executing
    PROVE  /\ Command \notin {"init", "doctor"}
           /\ options.required \/ (options.loaded /\ Command = "replay") => Admission
           /\ Admission => bound /\ Admitted(options.framework)
<1>1. /\ Ordered(Command, options.framework, Full) /\ Taken \in Nat /\ Len(Full) \in Nat
      /\ Taken + 1 \in 1 .. Len(Full) /\ Full[Taken + 1] \in Executing /\ Taken + 1 - 1 = Taken
    BY NextStep
<1>2. Command \notin {"init", "doctor"}
    BY <1>1 DEF Ordered
<1>3. /\ Among(Full, Taken, "require") /\ Among(Full, Taken, "preflight")
      /\ Among(Full, Taken, "bind")
  <2>1. AdmittedBefore(Full)
      BY <1>1 DEF Ordered
  <2>. DEFINE k == Taken + 1
  <2>2. k \in 1 .. Len(Full) /\ k - 1 = Taken /\ Full[k] \in Executing
      BY <1>1
  <2>. HIDE DEF k
  <2>3. /\ Among(Full, k - 1, "require") /\ Among(Full, k - 1, "preflight")
        /\ Among(Full, k - 1, "bind")
      BY <2>1, <2>2 DEF AdmittedBefore
  <2>. QED
      BY <2>2, <2>3
<1>4. "require" \in PlanSteps /\ "preflight" \in PlanSteps /\ "bind" \in PlanSteps
    BY DEF PlanSteps
<1>5. Earned("require") /\ Earned("preflight") /\ Earned("bind")
    BY <1>2, <1>3, <1>4 DEF ProjectInv, AllEarned
<1>6. /\ options.required => Admission
      /\ Admission => bound
      /\ Admission => preflightFrameworkSelection(options.framework) = {}
    BY <1>5 DEF Earned
<1>7. Admission => options.framework \in FrameworkPreflightInput
    BY ProjectAssumption DEF ProjectInv, ProjectTypeOK, Options, Admission
<1>9. options.loaded /\ Command = "replay" => Admission
  <2>. SUFFICES ASSUME Command = "replay", ~Admission
                PROVE  options.loaded => Admission
      OBVIOUS
  <2>. DEFINE k == Taken + 1
  <2>1. k \in 1 .. Len(Full) /\ k - 1 = Taken /\ Full[k] \in Executing
      BY <1>1
  <2>2. LoadedBefore(Command, options.framework, Full) /\ options.framework = Absent
      BY <1>1 DEF Ordered, Admission
  <2>. HIDE DEF k
  <2>3. Among(Full, k - 1, "require-loaded")
      BY <2>1, <2>2 DEF LoadedBefore
  <2>4. Among(Full, Taken, "require-loaded") /\ "require-loaded" \in PlanSteps
      BY <2>1, <2>3 DEF PlanSteps
  <2>5. Earned("require-loaded")
      BY <1>2, <2>4 DEF ProjectInv, AllEarned
  <2>. QED
      BY <2>5 DEF Earned
<1>8. Admission => Admitted(options.framework)
    BY <1>6, <1>7, MatchedIsAdmitted
<1>. QED
    BY <1>2, <1>6, <1>8, <1>9

(* One more thing is executed. *)
LEMMA OneMoreRan ==
    ASSUME ProjectInv, options' = options, NEW r, ran' = ran \cup {r},
           Promised(r.what) => r.seen,
           options.required \/ (options.loaded /\ Command = "replay") => Admission,
           Admission => r.bound /\ Admitted(options.framework)
    PROVE  RunsWhatWasChecked'
<1>1. RunsWhatWasChecked
    BY DEF ProjectInv
<1>2. \A q \in ran' : q \in ran \/ q = r
    OBVIOUS
<1>3. \A q \in ran' :
          /\ Promised(q.what) => q.seen
          /\ options.required \/ (options.loaded /\ Command = "replay") => Admission
          /\ Admission => q.bound /\ Admitted(options.framework)
    BY <1>1, <1>2 DEF RunsWhatWasChecked, Admitted
<1>4. /\ Admission' = Admission /\ \A w : Promised(w)' = Promised(w)
    BY DEF Promised, Admission, Reproducing, Command
<1>5. Command' = Command
    BY DEF Command
<1>6. \A q \in ran' :
          /\ Promised(q.what)' => q.seen
          /\ options'.required \/ (options'.loaded /\ Command' = "replay") => Admission'
          /\ Admission' => q.bound /\ Admitted(options'.framework)
    BY <1>3, <1>4, <1>5
<1>. QED
    BY <1>6 DEF RunsWhatWasChecked, Admitted

(* Something happens while the command waits where it is in its plan. *)
LEMMA InPlace ==
    ASSUME ProjectInv, exit = Absent, exit' = Absent, plan' = plan, options' = options,
           toolLog' = toolLog, suite' = suite, outputs' = outputs,
           ProjectTypeOK', RunsWhatWasChecked', ChildInv',
           \A step \in PlanSteps : Among(Full, Taken, step) /\ Earned(step) => Earned(step)'
    PROVE  ProjectInv'
<1>1. Full' = Full /\ Taken' = Taken /\ Command' = Command
    BY DEF Full, Taken, Command
<1>2. OnThePath'
    BY <1>1 DEF ProjectInv, OnThePath
<1>3. AllEarned'
    BY <1>1 DEF ProjectInv, AllEarned
<1>4. Logged'
    BY <1>1 DEF ProjectInv, Logged, EndedWell
<1>5. Reproduced'
    BY <1>1 DEF ProjectInv, Reproduced
<1>6. ExitIsEarned'
    BY DEF ExitIsEarned
<1>. QED
    BY <1>2, <1>3, <1>4, <1>5, <1>6 DEF ProjectInv

(* A signal only sets the flag. *)
LEMMA InterruptKeeps ==
    ASSUME ProjectInv, Interrupt
    PROVE  ProjectInv'
<1>1. ProjectTypeOK'
    BY DEF ProjectInv, ProjectTypeOK, Interrupt, running
<1>2. RunsWhatWasChecked'
    BY RanKept DEF ProjectInv, Interrupt, running
<1>3. ChildInv'
    BY DEF ProjectInv, ChildInv, Interrupt, running
<1>4. /\ exit = Absent /\ exit' = Absent /\ plan' = plan /\ options' = options
      /\ toolLog' = toolLog /\ suite' = suite /\ outputs' = outputs /\ bound' = bound
      /\ sight' = sight /\ server' = server
    BY DEF Interrupt, running
<1>5. \A step \in PlanSteps : Among(Full, Taken, step) /\ Earned(step) => Earned(step)'
    BY <1>4, StaysEarned
<1>. QED
    BY <1>1, <1>2, <1>3, <1>4, <1>5, InPlace

(* An edit of a file changes nothing that the command has seen. *)
LEMMA EditFileKeeps ==
    ASSUME ProjectInv, EditFile
    PROVE  ProjectInv'
<1>1. ProjectTypeOK'
  <2>1. disk' \in [Files -> {"pinned", "other"}]
      BY DEF ProjectInv, ProjectTypeOK, EditFile
  <2>2. edits' \in 0 .. MaxEdits
      BY ProjectAssumption DEF ProjectInv, ProjectTypeOK, EditFile
  <2>. QED
      BY <2>1, <2>2 DEF ProjectInv, ProjectTypeOK, EditFile, running
<1>2. RunsWhatWasChecked'
    BY RanKept DEF ProjectInv, EditFile, running
<1>3. ChildInv'
    BY DEF ProjectInv, ChildInv, EditFile, running
<1>4. /\ exit = Absent /\ exit' = Absent /\ plan' = plan /\ options' = options
      /\ toolLog' = toolLog /\ suite' = suite /\ outputs' = outputs /\ bound' = bound
      /\ sight' = sight /\ server' = server
    BY DEF EditFile, running
<1>5. \A step \in PlanSteps : Among(Full, Taken, step) /\ Earned(step) => Earned(step)'
    BY <1>4, StaysEarned
<1>. QED
    BY <1>1, <1>2, <1>3, <1>4, <1>5, InPlace

(* tool(), before it spawns: the compiler is seen, or the command ends. *)
LEMMA LookAtToolKeeps ==
    ASSUME ProjectInv, LookAtTool
    PROVE  ProjectInv'
<1>1. /\ exit = Absent /\ child = Absent /\ plan # <<>> /\ Head(plan) \in ToolSteps
      /\ Sees({"compiler"}) /\ options' = options /\ disk' = disk /\ toolLog' = toolLog
      /\ ran' = ran /\ server' = server /\ suite' = suite /\ bound' = bound
      /\ outputs' = outputs /\ aborted' = aborted /\ edits' = edits
    BY DEF LookAtTool
<1>2. /\ sight \subseteq sight' /\ sight' \subseteq Executables
      /\ Looks({"compiler"}) => "compiler" \in sight'
    BY <1>1, Seeing DEF ProjectInv, Executables, Tools
<1>3. RunsWhatWasChecked'
    BY <1>1, RanKept DEF ProjectInv
<1>. DEFINE fresh == [step |-> Head(plan), is |-> "checked", code |-> 0,
                      expired |-> FALSE, overflow |-> FALSE, error |-> FALSE]
<1>4. \/ Throw("tool_identity_mismatch") /\ child' = Absent
      \/ Throw("cancelled") /\ aborted /\ child' = Absent
      \/ Looks({"compiler"}) /\ child' = fresh /\ plan' = plan /\ exit' = exit
         /\ failedCheck' = failedCheck
    BY <1>1 DEF LookAtTool
<1>5. ASSUME NEW code \in {"tool_identity_mismatch", "cancelled"}, Throw(code),
             code = "cancelled" => aborted, child' = Absent
      PROVE  ProjectInv'
  <2>1. code \in ErrorCodes /\ code # "tool_timed_out"
      BY DEF ErrorCodes
  <2>2. exit' \in Exits /\ plan' \in Seq(PlanSteps) /\ failedCheck' = failedCheck
      BY <1>5, <2>1, ThrowEnds
  <2>3. ProjectTypeOK'
      BY <1>1, <1>2, <1>5, <2>2 DEF ProjectInv, ProjectTypeOK
  <2>. QED
      BY <1>1, <1>3, <1>5, <2>1, <2>3, ThrowKeeps
<1>6. CASE Looks({"compiler"}) /\ child' = fresh /\ plan' = plan /\ exit' = exit
           /\ failedCheck' = failedCheck
  <2>1. fresh \in Children /\ fresh.step = Head(plan)
      BY <1>1 DEF Children
  <2>. HIDE DEF fresh
  <2>2. ProjectTypeOK'
      BY <1>1, <1>2, <1>6, <2>1 DEF ProjectInv, ProjectTypeOK
  <2>3. ChildInv'
      BY <1>1, <1>2, <1>6, <2>1 DEF ChildInv
  <2>4. \A step \in PlanSteps : Among(Full, Taken, step) /\ Earned(step) => Earned(step)'
      BY <1>1, <1>2, StaysEarned
  <2>. QED
      BY <1>1, <1>3, <1>6, <2>2, <2>3, <2>4, InPlace
<1>. QED
    BY <1>4, <1>5, <1>6

(* A tool that is running runs for the next step of the plan. *)
LEMMA Running ==
    ASSUME ProjectInv, child # Absent
    PROVE  /\ child \in Children /\ exit = Absent /\ plan # <<>> /\ Head(plan) = child.step
           /\ Head(plan) \in ToolSteps
           /\ child.is = "checked" => "compiler" \in sight
BY DEF ProjectInv, ProjectTypeOK, ChildInv, Children

(* The compiler was looked at just before; what was seen of the other files *)
(* no longer counts, and no step has relied on it yet.                      *)
LEMMA SpawnKeeps ==
    ASSUME ProjectInv, Spawn
    PROVE  ProjectInv'
<1>1. /\ child \in Children /\ exit = Absent /\ plan # <<>> /\ Head(plan) = child.step
      /\ Head(plan) \in ToolSteps /\ "compiler" \in sight
    BY Running DEF Spawn, ChildIs
<1>2. /\ options' = options /\ plan' = plan /\ toolLog' = toolLog /\ server' = server
      /\ suite' = suite /\ bound' = bound /\ outputs' = outputs
      /\ failedCheck' = failedCheck /\ aborted' = aborted /\ edits' = edits /\ exit' = exit
      /\ disk' = disk /\ sight' = {}
    BY DEF Spawn, ChildOnly
<1>3. /\ child' \in Children /\ child'.step = child.step /\ child'.is # "checked"
    BY <1>1 DEF Spawn, Children
<1>4. PICK r : r = [what |-> "compiler", seen |-> TRUE, bound |-> bound]
    OBVIOUS
<1>5. ran' = ran \cup {r} /\ r.what = "compiler" /\ r.seen = TRUE /\ r.bound = bound
    BY <1>1, <1>4 DEF Spawn, Executed
<1>6. r \in [what : Executables, seen : BOOLEAN, bound : BOOLEAN]
    BY <1>4 DEF Executables, Tools, ProjectInv, ProjectTypeOK
<1>7. RunsWhatWasChecked'
  <2>1. Head(plan) \in Executing
      BY <1>1 DEF Executing
  <2>. QED
      BY <1>1, <1>2, <1>5, <2>1, AdmissionEarned, OneMoreRan
<1>8. ProjectTypeOK'
  <2>1. ran' \subseteq [what : Executables, seen : BOOLEAN, bound : BOOLEAN]
      BY <1>5, <1>6 DEF ProjectInv, ProjectTypeOK
  <2>. QED
      BY <1>2, <1>3, <2>1 DEF ProjectInv, ProjectTypeOK
<1>9. ChildInv'
    BY <1>1, <1>2, <1>3 DEF ChildInv
<1>10. ASSUME NEW step \in PlanSteps, Among(Full, Taken, step), Earned(step)
       PROVE  Earned(step)'
  <2>1. ~Among(Full, Taken, "server-look") /\ ~Among(Full, Taken, "module-look")
      BY <1>1, NextStep DEF Ordered, LookedBefore
  <2>2. step \notin {"server-look", "module-look"}
      BY <1>10, <2>1
  <2>. QED
      BY <1>2, <1>10, <2>2, StaysEarned
<1>. QED
    BY <1>1, <1>2, <1>7, <1>8, <1>9, <1>10, InPlace

(* The child's own moves: it exits, is killed, or runs into its limits. *)
LEMMA ChildMoves ==
    ASSUME ProjectInv, child # Absent, ChildOnly, sight' = sight, ran' = ran,
           disk' \in [Files -> {"pinned", "other"}], child' \in Children,
           child'.step = child.step, child'.is = "dead"
    PROVE  ProjectInv'
<1>1. /\ exit = Absent /\ plan # <<>> /\ Head(plan) = child.step
    BY Running
<1>2. /\ options' = options /\ plan' = plan /\ toolLog' = toolLog /\ server' = server
      /\ suite' = suite /\ bound' = bound /\ outputs' = outputs
      /\ failedCheck' = failedCheck /\ aborted' = aborted /\ edits' = edits /\ exit' = exit
    BY DEF ChildOnly
<1>3. ProjectTypeOK'
    BY <1>2 DEF ProjectInv, ProjectTypeOK
<1>4. RunsWhatWasChecked'
    BY <1>2, RanKept DEF ProjectInv
<1>5. ChildInv'
    BY <1>1, <1>2 DEF ChildInv
<1>6. \A step \in PlanSteps : Among(Full, Taken, step) /\ Earned(step) => Earned(step)'
    BY <1>2, StaysEarned
<1>. QED
    BY <1>1, <1>2, <1>3, <1>4, <1>5, <1>6, InPlace

(* The compiler exits, and may have rewritten the bundle. *)
LEMMA ChildExitsKeeps ==
    ASSUME ProjectInv, ChildExits
    PROVE  ProjectInv'
<1>1. child # Absent /\ child \in Children
    BY Running DEF ChildExits, ChildIs
<1>2. ChildOnly /\ sight' = sight /\ ran' = ran
    BY DEF ChildExits
<1>3. PICK code \in {0, 1} : child' = [child EXCEPT !.is = "dead", !.code = code]
    BY DEF ChildExits
<1>4. child' \in Children /\ child'.step = child.step /\ child'.is = "dead"
    BY <1>1, <1>3 DEF Children
<1>5. disk \in [Files -> {"pinned", "other"}] /\ "bundle" \in Files
    BY DEF ProjectInv, ProjectTypeOK, Files
<1>6. PICK bundle \in {"pinned", "other"} : disk' = [disk EXCEPT !["bundle"] = bundle]
    BY <1>5 DEF ChildExits
<1>7. disk' \in [Files -> {"pinned", "other"}]
    BY <1>5, <1>6
<1>. QED
    BY <1>1, <1>2, <1>4, <1>7, ChildMoves

(* The compiler is killed at its deadline, its output limit or the signal. *)
LEMMA KillKeeps ==
    ASSUME ProjectInv, Kill
    PROVE  ProjectInv'
<1>1. child # Absent /\ child \in Children
    BY Running DEF Kill, ChildIs
<1>2. ChildOnly /\ sight' = sight /\ ran' = ran
    BY DEF Kill
<1>3. \/ child' = [child EXCEPT !.is = "dead", !.code = 1, !.expired = TRUE]
      \/ child' = [child EXCEPT !.is = "dead", !.code = 1, !.overflow = TRUE]
      \/ child' = [child EXCEPT !.is = "dead", !.code = 1]
    BY DEF Kill
<1>4. child' \in Children /\ child'.step = child.step /\ child'.is = "dead"
    BY <1>1, <1>3 DEF Children
<1>5. disk \in [Files -> {"pinned", "other"}] /\ "bundle" \in Files
    BY DEF ProjectInv, ProjectTypeOK, Files
<1>6. disk' \in [Files -> {"pinned", "other"}]
    BY <1>5 DEF Kill
<1>. QED
    BY <1>1, <1>2, <1>4, <1>6, ChildMoves

(* A limit that is passed as the compiler exits *)
LEMMA LateTroubleKeeps ==
    ASSUME ProjectInv, LateTrouble
    PROVE  ProjectInv'
<1>1. child # Absent /\ child \in Children /\ child.is = "dead"
    BY Running DEF LateTrouble, ChildIs
<1>2. ChildOnly /\ sight' = sight /\ ran' = ran /\ disk' = disk
    BY DEF LateTrouble
<1>3. child' \in Children /\ child'.step = child.step /\ child'.is = "dead"
    BY <1>1 DEF LateTrouble, Children
<1>4. disk' \in [Files -> {"pinned", "other"}]
    BY <1>2 DEF ProjectInv, ProjectTypeOK
<1>. QED
    BY <1>1, <1>2, <1>3, <1>4, ChildMoves

(* The tool that has closed ended well, and is the next that the plan has. *)
LEMMA CloseAdvances ==
    ASSUME ProjectInv, Close, Settlement = "ok"
    PROVE  ProjectInv'
<1>1. /\ child \in ClosedChildren /\ child # Absent /\ exit = Absent /\ plan # <<>>
      /\ Head(plan) = child.step /\ Head(plan) \in ToolSteps
    BY Running DEF Close, ChildIs, ClosedChildren
<1>2. /\ child' = Absent /\ toolLog' = Append(toolLog, child) /\ plan' = Tail(plan)
      /\ exit' = Absent /\ failedCheck' = failedCheck
      /\ options' = options /\ disk' = disk /\ sight' = sight /\ ran' = ran
      /\ server' = server /\ suite' = suite /\ bound' = bound /\ outputs' = outputs
      /\ aborted' = aborted /\ edits' = edits
    BY <1>1 DEF Close, Advance
<1>3. /\ options \in Options /\ plan \in Seq(PlanSteps) /\ OnThePath /\ AllEarned
      /\ toolLog \in Seq(ClosedChildren) /\ Logged
    BY DEF ProjectInv, ProjectTypeOK
<1>4. Moves(1) /\ plan[1] = Head(plan)
    BY <1>1, <1>2, <1>3, TailMoves
<1>5. EndedWell(child)
    BY DEF Settlement, EndedWell
<1>6. /\ toolLog' \in Seq(ClosedChildren) /\ Len(toolLog') = Len(toolLog) + 1 /\ Len(toolLog) \in Nat
      /\ \A i \in 1 .. Len(toolLog) : toolLog'[i] = toolLog[i]
      /\ toolLog'[Len(toolLog) + 1] = child
    BY <1>1, <1>2, <1>3, AppendProperties, LenProperties
<1>7. ProjectTypeOK'
    BY <1>2, <1>4, <1>6 DEF ProjectInv, ProjectTypeOK, Moves
<1>8. RunsWhatWasChecked'
    BY <1>2, RanKept DEF ProjectInv
<1>9. /\ Ordered(Command, options.framework, Full) /\ Len(Full) \in Nat /\ Taken \in Nat
      /\ Full' = Full /\ Command' = Command /\ Taken' = Taken + 1 /\ OnThePath'
    BY <1>1, <1>2, <1>3, <1>4, Moved
<1>10. AllEarned'
  <2>1. \A step \in PlanSteps : Among(Full, Taken, step) /\ Earned(step) => Earned(step)'
      BY <1>2, StaysEarned
  <2>2. ASSUME NEW step \in PlanSteps, NEW i \in 1 .. 1, plan[i] = step
        PROVE  Earned(step)'
    <3>1. step \in ToolSteps
        BY <1>1, <1>4, <2>2
    <3>. QED
        BY <3>1, PlainStep DEF ToolSteps
  <2>3. 1 \in 0 .. 3
      OBVIOUS
  <2>. QED
      BY <1>1, <1>2, <1>3, <1>4, <2>1, <2>2, <2>3, EarnedOnward
<1>11. Logged'
  <2>. DEFINE c == Command
              f == options.framework
              k == Taken + 1
              m == Len(toolLog)
  <2>1. /\ k \in 1 .. Len(Full) /\ k - 1 = Taken /\ Full[k] = child.step /\ Full[k] \in ToolSteps
      BY <1>1, <1>9, NextStep
  <2>2. Counted(c, f, Full)
      BY <1>9 DEF Ordered
  <2>3. /\ m = ToolsAmong(c, f, Taken) /\ m \in Nat
        /\ \A i \in 1 .. m : EndedWell(toolLog[i]) /\ toolLog[i].step = ToolsOf(c, f)[i]
      BY <1>1, <1>3, <1>6 DEF Logged
  <2>4. /\ Command' = c /\ options'.framework = f /\ Taken' = k /\ Len(toolLog') = m + 1
        /\ \A i \in 1 .. m : toolLog'[i] = toolLog[i]
        /\ toolLog'[m + 1] = child
      BY <1>2, <1>6, <1>9
  <2>. HIDE DEF c, f, k, m
  <2>5. /\ ToolsAmong(c, f, k) = ToolsAmong(c, f, k - 1) + 1
        /\ ToolsOf(c, f)[ToolsAmong(c, f, k)] = Full[k]
      BY <2>1, <2>2 DEF Counted
  <2>6. ToolsAmong(c, f, k) = m + 1 /\ ToolsOf(c, f)[m + 1] = child.step
      BY <2>1, <2>3, <2>5
  <2>7. ASSUME NEW i \in 1 .. m + 1
        PROVE  EndedWell(toolLog'[i]) /\ toolLog'[i].step = ToolsOf(c, f)[i]
    <3>1. CASE i \in 1 .. m
        BY <2>3, <2>4, <3>1
    <3>2. CASE i = m + 1
        BY <1>5, <2>4, <2>6, <3>2
    <3>3. i \in 1 .. m \/ i = m + 1
        BY <2>3
    <3>. QED
        BY <3>1, <3>2, <3>3
  <2>. QED
      BY <2>4, <2>6, <2>7 DEF Logged, EndedWell
<1>12. Reproduced'
  <2>1. ASSUME "reproduced" \in outputs
        PROVE  Among(Full, Taken + 1, "compare") /\ suite.outcome # "passed"
    <3>1. Among(Full, Taken, "compare") /\ suite.outcome # "passed" /\ 1 \in Nat
        BY <1>1, <2>1 DEF ProjectInv, Reproduced
    <3>. QED
        BY <1>9, <3>1, StillTaken
  <2>. QED
      BY <1>2, <1>9, <2>1 DEF Reproduced
<1>13. ChildInv' /\ ExitIsEarned'
    BY <1>2 DEF ChildInv, ExitIsEarned
<1>. QED
    BY <1>7, <1>8, <1>9, <1>10, <1>11, <1>12, <1>13 DEF ProjectInv

(* tool() settles: the next step, or an error that says what happened *)
LEMMA CloseKeeps ==
    ASSUME ProjectInv, Close
    PROVE  ProjectInv'
<1>1. CASE Settlement = "ok"
    BY <1>1, CloseAdvances
<1>2. CASE Settlement # "ok"
  <2>1. /\ child \in ClosedChildren /\ child # Absent /\ exit = Absent
      BY Running DEF Close, ChildIs, ClosedChildren
  <2>2. /\ child' = Absent /\ toolLog' = Append(toolLog, child) /\ Throw(Settlement)
        /\ options' = options /\ disk' = disk /\ sight' = sight /\ ran' = ran
        /\ server' = server /\ suite' = suite /\ bound' = bound /\ outputs' = outputs
        /\ aborted' = aborted /\ edits' = edits
      BY <1>2 DEF Close
  <2>3. /\ Settlement \in {"cancelled", "tool_execution_failed", "tool_timed_out",
                           "tool_output_limit"}
        /\ Settlement = "cancelled" => aborted
        /\ Settlement = "tool_timed_out" => child.expired
      BY <1>2 DEF Settlement
  <2>4. Settlement \in ErrorCodes
      BY <2>3 DEF ErrorCodes
  <2>5. exit' \in Exits /\ plan' \in Seq(PlanSteps) /\ failedCheck' = failedCheck
      BY <2>2, <2>4, ThrowEnds
  <2>6. toolLog \in Seq(ClosedChildren)
      BY DEF ProjectInv, ProjectTypeOK
  <2>7. /\ toolLog' \in Seq(ClosedChildren) /\ Len(toolLog) + 1 \in DOMAIN toolLog'
        /\ toolLog'[Len(toolLog) + 1] = child
    <3>1. /\ toolLog' \in Seq(ClosedChildren) /\ Len(toolLog') = Len(toolLog) + 1
          /\ toolLog'[Len(toolLog) + 1] = child /\ Len(toolLog) \in Nat
        BY <2>1, <2>2, <2>6, AppendProperties, LenProperties
    <3>2. DOMAIN toolLog' = 1 .. Len(toolLog')
        BY <3>1, LenProperties
    <3>. QED
        BY <3>1, <3>2
  <2>8. ProjectTypeOK'
      BY <2>2, <2>5, <2>7 DEF ProjectInv, ProjectTypeOK
  <2>9. RunsWhatWasChecked'
      BY <2>2, RanKept DEF ProjectInv
  <2>10. Settlement = "tool_timed_out" => \E i \in DOMAIN toolLog' : toolLog'[i].expired
      BY <2>3, <2>7
  <2>. QED
      BY <2>2, <2>3, <2>4, <2>8, <2>9, <2>10, ThrowKeeps
<1>. QED
    BY <1>1, <1>2

(* One step is taken, of which something may remain. *)
LEMMA StepTaken ==
    ASSUME ProjectInv, exit = Absent, child = Absent, plan # <<>>,
           NEW x, Head(plan) = x, x \notin ToolSteps, Advance,
           options' = options, child' = child, toolLog' = toolLog, suite' = suite,
           ProjectTypeOK', RunsWhatWasChecked', Command # "doctor" => Earned(x)',
           \A step \in PlanSteps : Among(Full, Taken, step) /\ Earned(step) => Earned(step)',
           "reproduced" \in outputs' =>
               "reproduced" \in outputs \/ (x = "compare" /\ suite.outcome # "passed")
    PROVE  ProjectInv'
<1>1. /\ plan \in Seq(PlanSteps) /\ plan' = Tail(plan) /\ exit' = Absent /\ child' = Absent
    BY DEF ProjectInv, ProjectTypeOK, Advance
<1>2. Moves(1) /\ plan[1] = x
    BY <1>1, TailMoves
<1>3. \A i \in 1 .. 1 : i = 1
    OBVIOUS
<1>4. "reproduced" \in outputs' =>
          \/ "reproduced" \in outputs /\ suite' = suite
          \/ 1 = 1 /\ plan[1] = "compare" /\ suite'.outcome # "passed"
    BY <1>2
<1>5. /\ \A i \in 1 .. 1 : plan[i] \notin ToolSteps
      /\ Command # "doctor" =>
             \A step \in PlanSteps : (\E i \in 1 .. 1 : plan[i] = step) => Earned(step)'
    BY <1>2, <1>3
<1>. QED
    BY <1>1, <1>2, <1>4, <1>5, GoesOn

(* What was looked at before the model module or the server is executed *)
LEMMA LookedEarned ==
    ASSUME ProjectInv, exit = Absent, plan # <<>>
    PROVE  /\ Head(plan) = "import-model" => Earned("module-look")
           /\ Head(plan) = "spawn-server" =>
                  Earned("server-look") /\ Command \in {"replay", "reproduce"}
<1>. DEFINE k == Taken + 1
<1>1. /\ Ordered(Command, options.framework, Full) /\ Taken \in Nat /\ Len(Full) \in Nat
      /\ k \in 1 .. Len(Full) /\ Full[k] = Head(plan) /\ k - 1 = Taken
    BY NextStep
<1>. HIDE DEF k
<1>2. /\ Head(plan) = "import-model" => Among(Full, Taken, "module-look")
      /\ Head(plan) = "spawn-server" => Among(Full, Taken, "server-look")
  <2>1. LookedBefore(Full)
      BY <1>1 DEF Ordered
  <2>2. /\ Full[k] = "import-model" => Among(Full, k - 1, "module-look")
        /\ Full[k] = "spawn-server" => Among(Full, k - 1, "server-look")
      BY <1>1, <2>1 DEF LookedBefore
  <2>. QED
      BY <1>1, <2>2
<1>3. Head(plan) \in {"import-model", "spawn-server"} => Command # "doctor"
    BY AdmissionEarned DEF Executing
<1>4. "module-look" \in PlanSteps /\ "server-look" \in PlanSteps
    BY DEF PlanSteps
<1>5. Head(plan) = "spawn-server" => Command \in {"replay", "reproduce"}
    BY <1>1 DEF Ordered
<1>. QED
    BY <1>2, <1>3, <1>4, <1>5 DEF ProjectInv, AllEarned

(* The model module is imported after it was looked at. *)
LEMMA ImportModelKeeps ==
    ASSUME ProjectInv, ImportModel
    PROVE  ProjectInv'
<1>1. /\ exit = Absent /\ child = Absent /\ plan # <<>> /\ Head(plan) = "import-model"
      /\ options' = options /\ disk' = disk /\ sight' = sight /\ child' = child
      /\ toolLog' = toolLog /\ server' = server /\ suite' = suite /\ bound' = bound
      /\ outputs' = outputs /\ aborted' = aborted /\ edits' = edits
    BY DEF ImportModel, At
<1>2. /\ "import-model" \notin ToolSteps /\ "import-model" \in Executing
      /\ "model_export_missing" \in ErrorCodes
    BY DEF ToolSteps, Executing, ErrorCodes
<1>3. PICK r : r = [what |-> "module", seen |-> "module" \in sight, bound |-> bound]
    OBVIOUS
<1>4. ran' = ran \cup {r} /\ r.what = "module" /\ r.seen = ("module" \in sight) /\ r.bound = bound
    BY <1>3 DEF ImportModel, Executed
<1>5. ran' \subseteq [what : Executables, seen : BOOLEAN, bound : BOOLEAN]
  <2>1. r \in [what : Executables, seen : BOOLEAN, bound : BOOLEAN]
      BY <1>3 DEF Executables, ProjectInv, ProjectTypeOK
  <2>. QED
      BY <1>4, <2>1 DEF ProjectInv, ProjectTypeOK
<1>6. RunsWhatWasChecked'
  <2>1. Promised(r.what) => r.seen
      BY <1>1, <1>4, LookedEarned DEF Promised, Earned, Tools
  <2>. QED
      BY <1>1, <1>2, <1>4, <2>1, AdmissionEarned, OneMoreRan
<1>7. CASE Advance
  <2>1. plan' \in Seq(PlanSteps) /\ exit' = exit /\ failedCheck' = failedCheck
      BY <1>1, <1>7, TailMoves DEF Advance, Moves, ProjectInv, ProjectTypeOK
  <2>2. ProjectTypeOK'
      BY <1>1, <1>5, <2>1 DEF ProjectInv, ProjectTypeOK
  <2>3. Earned("import-model")'
      BY PlainStep
  <2>4. \A step \in PlanSteps : Among(Full, Taken, step) /\ Earned(step) => Earned(step)'
      BY <1>1, StaysEarned
  <2>. QED
      BY <1>1, <1>2, <1>6, <1>7, <2>2, <2>3, <2>4, StepTaken
<1>8. CASE Throw("model_export_missing")
  <2>1. exit' \in Exits /\ plan' \in Seq(PlanSteps) /\ failedCheck' = failedCheck
      BY <1>2, <1>8, ThrowEnds
  <2>2. ProjectTypeOK'
      BY <1>1, <1>5, <2>1 DEF ProjectInv, ProjectTypeOK
  <2>. QED
      BY <1>1, <1>2, <1>6, <1>8, <2>2, ThrowKeeps
<1>. QED
    BY <1>7, <1>8 DEF ImportModel

-----------------------------------------------------------------------------
(* The suite *)

(* The suite's three steps follow each other, and it runs once. *)
LEMMA SuiteAhead ==
    ASSUME ProjectInv, exit = Absent, plan # <<>>,
           Head(plan) \in {"spawn-server", "import-adapter", "suite-ends"}
    PROVE  /\ ~Among(Full, Taken, "suite-ends") /\ "reproduced" \notin outputs
           /\ Head(plan) = "spawn-server" =>
                  /\ 3 \in 0 .. Len(plan) /\ plan[1] = "spawn-server"
                  /\ plan[2] = "import-adapter" /\ plan[3] = "suite-ends"
           /\ Head(plan) = "import-adapter" =>
                  2 \in 0 .. Len(plan) /\ plan[1] = "import-adapter" /\ plan[2] = "suite-ends"
<1>. DEFINE k == Taken + 1
            m == Len(plan)
<1>1. /\ Ordered(Command, options.framework, Full) /\ Taken \in Nat /\ Len(Full) \in Nat
      /\ k \in 1 .. Len(Full) /\ Full[k] = Head(plan) /\ k - 1 = Taken /\ Head(plan) = plan[1]
      /\ k + 1 = Taken + 2 /\ k + 2 = Taken + 3
    BY NextStep
<1>2. /\ m \in Nat /\ Taken + m = Len(Full)
      /\ \A i \in 1 .. m : plan[i] = Full[Taken + i]
    BY <1>1, LenProperties DEF ProjectInv, ProjectTypeOK, OnThePath, Taken
<1>. HIDE DEF k, m
<1>3. SuiteInOrder(Full)
    BY <1>1 DEF Ordered
<1>4. /\ Full[k] = "spawn-server" =>
             k + 2 <= Len(Full) /\ Full[k + 1] = "import-adapter" /\ Full[k + 2] = "suite-ends"
      /\ Full[k] = "import-adapter" => k + 1 <= Len(Full) /\ Full[k + 1] = "suite-ends"
      /\ ~Among(Full, k - 1, "suite-ends") /\ ~Among(Full, k - 1, "compare")
    BY <1>1, <1>3 DEF SuiteInOrder
<1>5. ~Among(Full, Taken, "suite-ends") /\ ~Among(Full, Taken, "compare")
    BY <1>1, <1>4
<1>6. "reproduced" \notin outputs
    BY <1>5 DEF ProjectInv, Reproduced
<1>7. ASSUME Head(plan) = "spawn-server"
      PROVE  /\ 3 \in 0 .. m /\ plan[1] = "spawn-server"
             /\ plan[2] = "import-adapter" /\ plan[3] = "suite-ends"
  <2>1. 3 \in 0 .. m /\ 2 \in 1 .. m /\ 3 \in 1 .. m
      BY <1>1, <1>2, <1>4, <1>7
  <2>2. plan[2] = Full[Taken + 2] /\ plan[3] = Full[Taken + 3]
      BY <1>2, <2>1
  <2>. QED
      BY <1>1, <1>4, <1>7, <2>1, <2>2
<1>8. ASSUME Head(plan) = "import-adapter"
      PROVE  2 \in 0 .. m /\ plan[1] = "import-adapter" /\ plan[2] = "suite-ends"
  <2>1. 2 \in 0 .. m /\ 2 \in 1 .. m
      BY <1>1, <1>2, <1>4, <1>8
  <2>2. plan[2] = Full[Taken + 2]
      BY <1>2, <2>1
  <2>. QED
      BY <1>1, <1>4, <1>8, <2>1, <2>2
<1>. QED
    BY <1>5, <1>6, <1>7, <1>8 DEF m

(* The suite stops with a result: the steps up to its end are taken. *)
LEMMA SuiteStopsKeeps ==
    ASSUME ProjectInv, exit = Absent, child = Absent, plan # <<>>,
           Head(plan) \in {"spawn-server", "import-adapter", "suite-ends"},
           NEW outcomes, SuiteStops(outcomes), NEW n \in 1 .. 3, Moves(n),
           \A i \in 1 .. n : plan[i] \in {"spawn-server", "import-adapter", "suite-ends"},
           sight \subseteq sight', sight' \subseteq Executables,
           options' = options, disk' = disk, child' = child, toolLog' = toolLog,
           ran' = ran, bound' = bound, outputs' = outputs, aborted' = aborted, edits' = edits
    PROVE  ProjectInv'
<1>1. exit' = Absent /\ failedCheck' = failedCheck /\ plan' \in Seq(PlanSteps)
    BY DEF SuiteStops, Moves
<1>2. /\ server' \in {"none", "alive", "closed"}
      /\ suite'.outcome = "passed" => suite'.cleanup = "succeeded"
      /\ suite'.cleanup = "succeeded" => server' # "alive"
  <2>1. server \in {"none", "alive", "closed"}
      BY DEF ProjectInv, ProjectTypeOK
  <2>2. PICK outcome \in outcomes, cleanup \in {"succeeded", "unconfirmed"} :
            /\ outcome = "passed" => cleanup = "succeeded"
            /\ suite' = SuiteResult(outcome, cleanup)
            /\ server' \in (IF server = "alive"
                            THEN (IF cleanup = "succeeded" THEN {"closed"}
                                  ELSE {"alive", "closed"})
                            ELSE {server})
      BY DEF SuiteStops
  <2>3. suite'.outcome = outcome /\ suite'.cleanup = cleanup
      BY <2>2 DEF SuiteResult
  <2>. QED
      BY <2>1, <2>2, <2>3
<1>3. Earned("suite-ends")'
    BY <1>2 DEF Earned, SuiteSettled
<1>4. ProjectTypeOK'
    BY <1>1, <1>2 DEF ProjectInv, ProjectTypeOK
<1>5. RunsWhatWasChecked'
    BY RanKept DEF ProjectInv
<1>6. "reproduced" \notin outputs /\ ~Among(Full, Taken, "suite-ends")
    BY SuiteAhead
<1>7. ASSUME NEW step \in PlanSteps, Among(Full, Taken, step), Earned(step)
      PROVE  Earned(step)'
  <2>1. step # "suite-ends"
      BY <1>6, <1>7
  <2>. QED
      BY <1>7, <2>1, StaysEarned
<1>8. \A step \in PlanSteps : (\E i \in 1 .. n : plan[i] = step) => Earned(step)'
  <2>1. Earned("spawn-server")' /\ Earned("import-adapter")'
      BY PlainStep
  <2>. QED
      BY <1>3, <2>1
<1>9. \A i \in 1 .. n : plan[i] \notin ToolSteps
    BY DEF ToolSteps
<1>10. n \in 0 .. 3 /\ child' = Absent
    OBVIOUS
<1>. QED
    BY <1>1, <1>4, <1>5, <1>6, <1>7, <1>8, <1>9, <1>10, GoesOn

(* The suite ends with its result. *)
LEMMA SuiteEndsKeeps ==
    ASSUME ProjectInv, SuiteEnds
    PROVE  ProjectInv'
<1>1. /\ exit = Absent /\ child = Absent /\ plan # <<>> /\ Head(plan) = "suite-ends"
      /\ options' = options /\ disk' = disk /\ sight' = sight /\ child' = child
      /\ toolLog' = toolLog /\ ran' = ran /\ bound' = bound
      /\ outputs' = outputs /\ aborted' = aborted /\ edits' = edits
      /\ SuiteStops(Stopping \cup {"passed", "mismatch"})
      /\ plan' = Tail(plan) /\ plan \in Seq(PlanSteps) /\ sight \subseteq Executables
    BY DEF SuiteEnds, At, ProjectInv, ProjectTypeOK
<1>2. Moves(1) /\ plan[1] = "suite-ends"
    BY <1>1, TailMoves
<1>3. 1 \in 1 .. 3 /\ \A i \in 1 .. 1 : plan[i] = "suite-ends"
    BY <1>2
<1>. QED
    BY <1>1, <1>2, <1>3, SuiteStopsKeeps

(* The server is spawned after it was looked at, or the suite stops. *)
LEMMA SpawnServerKeeps ==
    ASSUME ProjectInv, SpawnServer
    PROVE  ProjectInv'
<1>1. /\ exit = Absent /\ child = Absent /\ plan # <<>> /\ Head(plan) = "spawn-server"
      /\ options' = options /\ disk' = disk /\ sight' = sight /\ child' = child
      /\ toolLog' = toolLog /\ bound' = bound
      /\ outputs' = outputs /\ aborted' = aborted /\ edits' = edits
      /\ plan \in Seq(PlanSteps) /\ sight \subseteq Executables
    BY DEF SpawnServer, At, ProjectInv, ProjectTypeOK
<1>2. /\ "spawn-server" \notin ToolSteps /\ "spawn-server" \in Executing
    BY DEF ToolSteps, Executing
<1>3. \/ /\ Advance /\ suite' = suite
         /\ \/ options.local /\ Executed("server") /\ server' = "alive"
            \/ ran' = ran /\ server' = server
      \/ SuiteStops(Stopping) /\ ran' = ran /\ plan' = SubSeq(plan, 4, Len(plan))
    BY DEF SpawnServer
<1>4. CASE SuiteStops(Stopping) /\ ran' = ran /\ plan' = SubSeq(plan, 4, Len(plan))
  <2>1. /\ 3 \in 0 .. Len(plan) /\ plan[1] = "spawn-server"
        /\ plan[2] = "import-adapter" /\ plan[3] = "suite-ends"
      BY <1>1, SuiteAhead
  <2>2. 3 + 1 = 4 /\ 3 \in 1 .. 3
      OBVIOUS
  <2>3. Moves(3)
      BY <1>1, <1>4, <2>1, <2>2, SkipMoves
  <2>4. \A i \in 1 .. 3 : plan[i] \in {"spawn-server", "import-adapter", "suite-ends"}
      BY <2>1
  <2>. QED
      BY <1>1, <1>4, <2>2, <2>3, <2>4, SuiteStopsKeeps
<1>5. ASSUME Advance, suite' = suite, server' \in {"none", "alive", "closed"},
             ran' \subseteq [what : Executables, seen : BOOLEAN, bound : BOOLEAN],
             RunsWhatWasChecked'
      PROVE  ProjectInv'
  <2>1. plan' \in Seq(PlanSteps) /\ exit' = exit /\ failedCheck' = failedCheck
      BY <1>1, <1>5, TailMoves DEF Advance, Moves
  <2>2. ProjectTypeOK'
      BY <1>1, <1>5, <2>1 DEF ProjectInv, ProjectTypeOK
  <2>3. Earned("spawn-server")'
      BY PlainStep
  <2>4. ASSUME NEW step \in PlanSteps, Among(Full, Taken, step), Earned(step)
        PROVE  Earned(step)'
    <3>1. step # "suite-ends"
        BY <1>1, <2>4, SuiteAhead
    <3>. QED
        BY <1>1, <2>4, <3>1, StaysEarned
  <2>. QED
      BY <1>1, <1>2, <1>5, <2>2, <2>3, <2>4, StepTaken
<1>6. CASE /\ Advance /\ suite' = suite
           /\ options.local /\ Executed("server") /\ server' = "alive"
  <2>1. "server" \in sight
    <3>1. Earned("server-look") /\ Command \in {"replay", "reproduce"}
        BY <1>1, LookedEarned
    <3>2. "server" \in LoadedTools
        BY <1>6, <3>1 DEF LoadedTools, Required, Tools
    <3>. QED
        BY <3>1, <3>2 DEF Earned
  <2>2. PICK r : r = [what |-> "server", seen |-> TRUE, bound |-> bound]
      OBVIOUS
  <2>3. ran' = ran \cup {r} /\ r.seen = TRUE /\ r.bound = bound
      BY <1>6, <2>1, <2>2 DEF Executed
  <2>4. r \in [what : Executables, seen : BOOLEAN, bound : BOOLEAN]
      BY <2>2 DEF Executables, Tools, ProjectInv, ProjectTypeOK
  <2>5. ran' \subseteq [what : Executables, seen : BOOLEAN, bound : BOOLEAN]
      BY <2>3, <2>4 DEF ProjectInv, ProjectTypeOK
  <2>6. RunsWhatWasChecked'
      BY <1>1, <1>2, <2>3, AdmissionEarned, OneMoreRan
  <2>. QED
      BY <1>5, <1>6, <2>5, <2>6
<1>7. CASE Advance /\ suite' = suite /\ ran' = ran /\ server' = server
  <2>1. RunsWhatWasChecked'
      BY <1>1, <1>7, RanKept DEF ProjectInv
  <2>2. /\ server' \in {"none", "alive", "closed"}
        /\ ran' \subseteq [what : Executables, seen : BOOLEAN, bound : BOOLEAN]
      BY <1>7 DEF ProjectInv, ProjectTypeOK
  <2>. QED
      BY <1>5, <1>7, <2>1, <2>2
<1>. QED
    BY <1>3, <1>4, <1>6, <1>7

(* The adapter is imported, for a reproduction after a look at it. *)
LEMMA ImportAdapterKeeps ==
    ASSUME ProjectInv, ImportAdapter
    PROVE  ProjectInv'
<1>. DEFINE files == IF Reproducing THEN {"adapter"} ELSE {}
<1>1. /\ exit = Absent /\ child = Absent /\ plan # <<>> /\ Head(plan) = "import-adapter"
      /\ options' = options /\ disk' = disk /\ child' = child
      /\ toolLog' = toolLog /\ bound' = bound
      /\ outputs' = outputs /\ aborted' = aborted /\ edits' = edits
      /\ plan \in Seq(PlanSteps) /\ ProjectTypeOK
    BY DEF ImportAdapter, At, ProjectInv, ProjectTypeOK
<1>2. Sees(files)
    BY DEF ImportAdapter
<1>3. /\ sight \subseteq sight' /\ sight' \subseteq Executables
      /\ Looks(files) => \A f \in files \cap Executables : f \in sight'
    BY <1>1, <1>2, Seeing
<1>4. /\ "import-adapter" \notin ToolSteps /\ "import-adapter" \in Executing
    BY DEF ToolSteps, Executing
<1>5. CASE SuiteStops(Stopping) /\ ran' = ran /\ plan' = SubSeq(plan, 3, Len(plan))
  <2>1. 2 \in 0 .. Len(plan) /\ plan[1] = "import-adapter" /\ plan[2] = "suite-ends"
      BY <1>1, SuiteAhead
  <2>2. 2 + 1 = 3 /\ 2 \in 1 .. 3
      OBVIOUS
  <2>3. Moves(2)
      BY <1>1, <1>5, <2>1, <2>2, SkipMoves
  <2>4. \A i \in 1 .. 2 : plan[i] \in {"spawn-server", "import-adapter", "suite-ends"}
      BY <2>1
  <2>. QED
      BY <1>1, <1>3, <1>5, <2>2, <2>3, <2>4, SuiteStopsKeeps
<1>6. CASE /\ Reproducing => Looks({"adapter"})
           /\ ran' = ran \cup {[what |-> "adapter", seen |-> "adapter" \in sight',
                                bound |-> bound]}
           /\ Advance /\ suite' = suite /\ server' = server
  <2>1. Reproducing => "adapter" \in sight'
      BY <1>3, <1>6 DEF Executables
  <2>2. PICK r : r = [what |-> "adapter", seen |-> "adapter" \in sight', bound |-> bound]
      OBVIOUS
  <2>3. /\ ran' = ran \cup {r} /\ r.what = "adapter" /\ r.seen = ("adapter" \in sight')
        /\ r.bound = bound
      BY <1>6, <2>2
  <2>4. r \in [what : Executables, seen : BOOLEAN, bound : BOOLEAN]
      BY <2>2 DEF Executables, ProjectInv, ProjectTypeOK
  <2>5. ran' \subseteq [what : Executables, seen : BOOLEAN, bound : BOOLEAN]
      BY <2>3, <2>4 DEF ProjectInv, ProjectTypeOK
  <2>6. RunsWhatWasChecked'
    <3>1. Promised(r.what) => r.seen
        BY <2>1, <2>3 DEF Promised, Tools
    <3>. QED
        BY <1>1, <1>4, <2>3, <3>1, AdmissionEarned, OneMoreRan
  <2>7. plan' \in Seq(PlanSteps) /\ exit' = exit /\ failedCheck' = failedCheck
      BY <1>1, <1>6, TailMoves DEF Advance, Moves
  <2>8. ProjectTypeOK'
      BY <1>1, <1>3, <1>6, <2>5, <2>7 DEF ProjectTypeOK
  <2>9. Earned("import-adapter")'
      BY PlainStep
  <2>10. \A step \in PlanSteps : Among(Full, Taken, step) /\ Earned(step) => Earned(step)'
      BY <1>1, <1>3, <1>6, StaysEarned
  <2>. QED
      BY <1>1, <1>4, <1>6, <2>6, <2>8, <2>9, <2>10, StepTaken
<1>. QED
    BY <1>5, <1>6 DEF ImportAdapter

-----------------------------------------------------------------------------
(* The ends of a command *)

(* Only a suite that did not pass is recorded as reproduced. *)
LEMMA CompareKeeps ==
    ASSUME ProjectInv, Compare
    PROVE  ProjectInv'
<1>1. /\ exit = Absent /\ child = Absent /\ plan # <<>> /\ Head(plan) = "compare"
      /\ options' = options /\ disk' = disk /\ sight' = sight /\ child' = child
      /\ toolLog' = toolLog /\ ran' = ran /\ server' = server /\ suite' = suite
      /\ bound' = bound /\ aborted' = aborted /\ edits' = edits
      /\ plan \in Seq(PlanSteps)
    BY DEF Compare, At, running, ProjectInv, ProjectTypeOK
<1>2. "compare" \notin ToolSteps /\ "project_operation_failed" \in ErrorCodes
    BY DEF ToolSteps, ErrorCodes
<1>3. RunsWhatWasChecked'
    BY <1>1, RanKept DEF ProjectInv
<1>4. CASE /\ Advance /\ outputs \subseteq outputs' /\ outputs' \subseteq outputs \cup {"reproduced"}
           /\ "reproduced" \in outputs' => "reproduced" \in outputs \/ suite.outcome # "passed"
  <2>1. plan' \in Seq(PlanSteps) /\ exit' = exit /\ failedCheck' = failedCheck
      BY <1>1, <1>4, TailMoves DEF Advance, Moves
  <2>2. ProjectTypeOK'
    <3>1. outputs' \subseteq {"reproduced", "write-result", "write-cleanup"}
        BY <1>4 DEF ProjectInv, ProjectTypeOK
    <3>. QED
        BY <1>1, <2>1, <3>1 DEF ProjectInv, ProjectTypeOK
  <2>3. Earned("compare")'
      BY PlainStep
  <2>4. \A step \in PlanSteps : Among(Full, Taken, step) /\ Earned(step) => Earned(step)'
      BY <1>1, <1>4, StaysEarned
  <2>. QED
      BY <1>1, <1>2, <1>3, <1>4, <2>2, <2>3, <2>4, StepTaken
<1>5. CASE Throw("project_operation_failed") /\ outputs' = outputs
  <2>1. exit' \in Exits /\ plan' \in Seq(PlanSteps) /\ failedCheck' = failedCheck
      BY <1>2, <1>5, ThrowEnds
  <2>2. ProjectTypeOK'
      BY <1>1, <1>5, <2>1 DEF ProjectInv, ProjectTypeOK
  <2>. QED
      BY <1>1, <1>2, <1>3, <1>5, <2>2, ThrowKeeps
<1>. QED
    BY <1>4, <1>5 DEF Compare

(* A reproduction goes on only with the file it has written. *)
LEMMA WriteOutputKeeps ==
    ASSUME ProjectInv, WriteOutput
    PROVE  ProjectInv'
<1>1. /\ exit = Absent /\ child = Absent /\ plan # <<>>
      /\ options' = options /\ disk' = disk /\ sight' = sight /\ child' = child
      /\ toolLog' = toolLog /\ ran' = ran /\ server' = server /\ suite' = suite
      /\ bound' = bound /\ aborted' = aborted /\ edits' = edits
      /\ plan \in Seq(PlanSteps)
    BY DEF WriteOutput, running, ProjectInv, ProjectTypeOK
<1>2. PICK x \in {"write-result", "write-cleanup"} : x = Head(plan)
    BY DEF WriteOutput
<1>3. x \notin ToolSteps /\ "project_operation_failed" \in ErrorCodes
    BY <1>2 DEF ToolSteps, ErrorCodes
<1>4. RunsWhatWasChecked'
    BY <1>1, RanKept DEF ProjectInv
<1>5. \/ /\ Advance /\ outputs' \subseteq outputs \cup {x} /\ outputs \subseteq outputs'
         /\ Command = "replay" \/ x \in outputs'
      \/ Throw("project_operation_failed") /\ outputs' = outputs
    BY <1>2 DEF WriteOutput
<1>6. CASE /\ Advance /\ outputs' \subseteq outputs \cup {x} /\ outputs \subseteq outputs'
           /\ Command = "replay" \/ x \in outputs'
  <2>1. plan' \in Seq(PlanSteps) /\ exit' = exit /\ failedCheck' = failedCheck
      BY <1>1, <1>6, TailMoves DEF Advance, Moves
  <2>2. ProjectTypeOK'
    <3>1. outputs' \subseteq {"reproduced", "write-result", "write-cleanup"}
        BY <1>2, <1>6 DEF ProjectInv, ProjectTypeOK
    <3>. QED
        BY <1>1, <2>1, <3>1 DEF ProjectInv, ProjectTypeOK
  <2>3. Earned(x)'
    <3>1. Reproducing' => x \in outputs'
        BY <1>1, <1>6, OptionsKept DEF Reproducing
    <3>. QED
        BY <1>2, <3>1 DEF Earned
  <2>4. \A step \in PlanSteps : Among(Full, Taken, step) /\ Earned(step) => Earned(step)'
      BY <1>1, <1>6, StaysEarned
  <2>5. "reproduced" \in outputs' => "reproduced" \in outputs
      BY <1>2, <1>6
  <2>. QED
      BY <1>1, <1>2, <1>3, <1>4, <1>6, <2>2, <2>3, <2>4, <2>5, StepTaken
<1>7. CASE Throw("project_operation_failed") /\ outputs' = outputs
  <2>1. exit' \in Exits /\ plan' \in Seq(PlanSteps) /\ failedCheck' = failedCheck
      BY <1>3, <1>7, ThrowEnds
  <2>2. ProjectTypeOK'
      BY <1>1, <1>7, <2>1 DEF ProjectInv, ProjectTypeOK
  <2>. QED
      BY <1>1, <1>3, <1>4, <1>7, <2>2, ThrowKeeps
<1>. QED
    BY <1>5, <1>6, <1>7

(* The log of a command that has taken all of its steps is the list of its  *)
(* tools.                                                                   *)
LEMMA WholeLog ==
    ASSUME ProjectInv, exit = Absent, plan = <<>>
    PROVE  /\ Ordered(Command, options.framework, Full) /\ Taken = Len(Full)
           /\ \A i \in DOMAIN toolLog : EndedWell(toolLog[i])
           /\ Steps(toolLog) = ToolsOf(Command, options.framework)
<1>. DEFINE c == Command
            f == options.framework
            q == ToolsOf(c, f)
<1>1. options \in Options /\ toolLog \in Seq(ClosedChildren) /\ Logged
    BY DEF ProjectInv, ProjectTypeOK
<1>2. Ordered(c, f, Full)
    BY <1>1, PlansAreOrdered DEF Full, Command
<1>3. Full \in Seq(PlanSteps) /\ Len(Full) \in Nat /\ Len(plan) = 0
    BY <1>2, LenProperties DEF Ordered
<1>4. Taken = Len(Full)
    BY <1>3 DEF Taken
<1>5. /\ Len(toolLog) = ToolsAmong(c, f, Len(Full))
      /\ \A i \in 1 .. Len(toolLog) : EndedWell(toolLog[i]) /\ toolLog[i].step = q[i]
    BY <1>1, <1>4 DEF Logged
<1>6. q \in Seq(PlanSteps)
  <2>1. CompilerChecks \in Seq(PlanSteps)
      BY CompilerChecksAre
  <2>2. << "resolve", "bundle" >> \in Seq(PlanSteps) /\ <<>> \in Seq(PlanSteps)
      BY DEF PlanSteps, ToolSteps
  <2>3. /\ (IF c = "generate" THEN << "resolve", "bundle" >> ELSE <<>>) \in Seq(PlanSteps)
        /\ (IF Checking(c, f) THEN CompilerChecks ELSE <<>>) \in Seq(PlanSteps)
      BY <2>1, <2>2
  <2>. QED
      BY <2>3, ConcatProperties DEF ToolsOf
<1>. HIDE DEF c, f, q
<1>7. Len(toolLog) = Len(q)
    BY <1>2, <1>5 DEF Ordered, Counted, q
<1>8. /\ DOMAIN toolLog = 1 .. Len(toolLog) /\ DOMAIN q = 1 .. Len(q)
      /\ q = [i \in 1 .. Len(q) |-> q[i]]
    BY <1>1, <1>6, LenProperties
<1>9. Steps(toolLog) = q
  <2>1. Steps(toolLog) = [i \in 1 .. Len(q) |-> toolLog[i].step]
      BY <1>7, <1>8 DEF Steps
  <2>2. \A i \in 1 .. Len(q) : toolLog[i].step = q[i]
      BY <1>5, <1>7
  <2>. QED
      BY <1>8, <2>1, <2>2
<1>. QED
    BY <1>2, <1>4, <1>5, <1>8, <1>9 DEF c, f, q

(* A command that returns has earned its exit code. *)
LEMMA ReturnKeeps ==
    ASSUME ProjectInv, Return
    PROVE  ProjectInv'
<1>1. /\ exit = Absent /\ child = Absent /\ plan = <<>>
      /\ exit' = [code |-> ExitCode, outcome |-> "returned", why |-> Command]
      /\ options' = options /\ plan' = plan /\ disk' = disk /\ sight' = sight /\ child' = child
      /\ toolLog' = toolLog /\ ran' = ran /\ server' = server /\ suite' = suite
      /\ bound' = bound /\ outputs' = outputs /\ failedCheck' = failedCheck
      /\ aborted' = aborted /\ edits' = edits
    BY DEF Return, running
<1>2. Command \in Commands
    BY DEF ProjectInv, ProjectTypeOK, Options, Command
<1>3. /\ ExitCode \in 0 .. 2
      /\ Command = "replay" => ExitCode = suiteExitCode(suite)
      /\ Command = "reproduce" /\ ExitCode = 0 => "reproduced" \in outputs
  <2>1. suiteExitCode(suite) \in 0 .. 2
      BY DEF suiteExitCode
  <2>. QED
      BY <2>1 DEF ExitCode
<1>4. /\ exit' \in Exits /\ exit'.code = ExitCode /\ exit'.outcome = "returned"
    BY <1>1, <1>2, <1>3 DEF Exits
<1>5. exit' # Absent
    BY <1>4, ProjectAssumption
<1>6. ProjectTypeOK'
    BY <1>1, <1>4 DEF ProjectInv, ProjectTypeOK
<1>7. RunsWhatWasChecked'
    BY <1>1, RanKept DEF ProjectInv
<1>8. /\ Ordered(Command, options.framework, Full) /\ Taken = Len(Full)
      /\ \A i \in DOMAIN toolLog : EndedWell(toolLog[i])
      /\ Steps(toolLog) = ToolsOf(Command, options.framework)
    BY <1>1, WholeLog
<1>9. Steps(toolLog) =
          (IF Command = "generate" THEN << "resolve", "bundle" >> ELSE <<>>)
          \o (IF Command \in {"generate", "check"} \/ (Command = "replay" /\ ~Admission)
              THEN CompilerChecks ELSE <<>>)
    BY <1>8 DEF ToolsOf, Checking, Admission
<1>10. Command \in {"replay", "reproduce"} => SuiteSettled
  <2>1. Command \in {"replay", "reproduce"} => Among(Full, Taken, "suite-ends")
      BY <1>8 DEF Ordered
  <2>2. "suite-ends" \in PlanSteps
      BY DEF PlanSteps
  <2>. QED
      BY <1>1, <2>1, <2>2 DEF ProjectInv, AllEarned, Earned
<1>11. Reproducing => {"write-result", "write-cleanup"} \subseteq outputs
  <2>1. Reproducing => Among(Full, Taken, "write-result") /\ Among(Full, Taken, "write-cleanup")
      BY <1>8 DEF Ordered, Reproducing
  <2>2. "write-result" \in PlanSteps /\ "write-cleanup" \in PlanSteps
      BY DEF PlanSteps
  <2>3. Reproducing => Earned("write-result") /\ Earned("write-cleanup")
      BY <1>1, <2>1, <2>2 DEF ProjectInv, AllEarned, Reproducing
  <2>. QED
      BY <2>3 DEF Earned
<1>12. Reproducing /\ ExitCode = 0 => suite.outcome # "passed"
    BY <1>1, <1>3 DEF ProjectInv, Reproduced, Reproducing
<1>13. Command = "replay" /\ ExitCode = 0 => suite.outcome = "passed"
    BY <1>3 DEF suiteExitCode
<1>14. Command = "replay" /\ ExitCode \in {0, 1} => server # "alive"
  <2>1. Command = "replay" /\ ExitCode \in {0, 1} =>
            suite.outcome = "passed" \/ suite.cleanup = "succeeded"
      BY <1>3 DEF suiteExitCode
  <2>. QED
      BY <1>10, <2>1 DEF SuiteSettled
<1>15. /\ Command' = Command /\ Admission' = Admission /\ Reproducing' = Reproducing
       /\ CompilerChecks' = CompilerChecks /\ Steps(toolLog)' = Steps(toolLog)
    BY <1>1, OptionsKept DEF Steps
<1>16. ExitIsEarned'
    BY <1>1, <1>4, <1>8, <1>9, <1>11, <1>12, <1>13, <1>14, <1>15 DEF ExitIsEarned, EndedWell
<1>17. OnThePath' /\ AllEarned' /\ Logged' /\ ChildInv' /\ Reproduced'
    BY <1>1, <1>5 DEF OnThePath, AllEarned, Logged, ChildInv, Reproduced
<1>. QED
    BY <1>6, <1>7, <1>16, <1>17 DEF ProjectInv

-----------------------------------------------------------------------------
(* A command begins with its whole plan ahead. *)
LEMMA ProjectStarts ==
    ASSUME ProjectInit
    PROVE  ProjectInv
<1>1. /\ options \in Options /\ plan = Full
      /\ disk = [f \in Files |-> "pinned"] /\ sight = {} /\ edits = 0
      /\ child = Absent /\ toolLog = <<>> /\ ran = {} /\ server = "none" /\ suite = Absent
      /\ bound = FALSE /\ outputs = {} /\ failedCheck = FALSE /\ aborted = FALSE
      /\ exit = Absent
    BY DEF ProjectInit, Full
<1>2. Ordered(Command, options.framework, Full)
    BY <1>1, PlansAreOrdered DEF Full, Command
<1>3. Full \in Seq(PlanSteps) /\ Len(Full) \in Nat /\ Len(toolLog) = 0
    BY <1>1, <1>2, LenProperties DEF Ordered
<1>4. Taken = 0
    BY <1>1, <1>3 DEF Taken
<1>5. ProjectTypeOK
  <2>1. toolLog \in Seq(ClosedChildren) /\ disk \in [Files -> {"pinned", "other"}]
      BY <1>1
  <2>2. edits \in 0 .. MaxEdits
      BY <1>1, ProjectAssumption
  <2>. QED
      BY <1>1, <1>3, <2>1, <2>2 DEF ProjectTypeOK
<1>6. OnThePath
  <2>1. Len(plan) \in 0 .. Len(Full) /\ \A i \in 1 .. Len(plan) : 0 + i = i
      BY <1>1, <1>3
  <2>. QED
      BY <1>1, <1>4, <2>1 DEF OnThePath
<1>7. \A step : ~Among(Full, Taken, step)
    BY <1>4 DEF Among
<1>8. AllEarned
    BY <1>7 DEF AllEarned
<1>9. Logged
    BY <1>2, <1>3, <1>4 DEF Logged, Ordered, Counted
<1>10. ChildInv /\ Reproduced /\ RunsWhatWasChecked /\ ExitIsEarned
    BY <1>1 DEF ChildInv, Reproduced, RunsWhatWasChecked, ExitIsEarned
<1>. QED
    BY <1>5, <1>6, <1>8, <1>9, <1>10 DEF ProjectInv

(* Nothing changes what is known of a command. *)
LEMMA ProjectStutters ==
    ASSUME ProjectInv, UNCHANGED projectVars
    PROVE  ProjectInv'
<1>1. /\ options' = options /\ plan' = plan /\ disk' = disk /\ sight' = sight /\ child' = child
      /\ toolLog' = toolLog /\ ran' = ran /\ server' = server /\ suite' = suite
      /\ bound' = bound /\ outputs' = outputs /\ failedCheck' = failedCheck
      /\ aborted' = aborted /\ edits' = edits /\ exit' = exit
    BY DEF projectVars, running
<1>2. /\ Command' = Command /\ Admission' = Admission /\ Reproducing' = Reproducing
      /\ LoadedTools' = LoadedTools
    BY <1>1, OptionsKept
<1>3. Full' = Full /\ Taken' = Taken
    BY <1>1, <1>2 DEF Full, Taken
<1>4. ProjectTypeOK'
    BY <1>1 DEF ProjectInv, ProjectTypeOK
<1>5. RunsWhatWasChecked'
    BY <1>1, RanKept DEF ProjectInv
<1>6. OnThePath'
    BY <1>1, <1>3 DEF ProjectInv, OnThePath
<1>7. \A step \in PlanSteps : Earned(step) => Earned(step)'
    BY <1>1, StaysEarned
<1>8. AllEarned'
    BY <1>1, <1>2, <1>3, <1>7 DEF ProjectInv, AllEarned
<1>9. Logged'
    BY <1>1, <1>2, <1>3 DEF ProjectInv, Logged, EndedWell
<1>10. ChildInv' /\ Reproduced'
    BY <1>1, <1>2, <1>3 DEF ProjectInv, ChildInv, Reproduced
<1>11. ExitIsEarned'
    BY <1>1, <1>2 DEF ProjectInv, ExitIsEarned, EndedWell, Steps
<1>. QED
    BY <1>4, <1>5, <1>6, <1>8, <1>9, <1>10, <1>11 DEF ProjectInv

(* Every step of a command keeps what is known of it. *)
LEMMA ProjectStep ==
    ASSUME ProjectInv, [ProjectNext]_projectVars
    PROVE  ProjectInv'
<1>1. CASE \/ ParseFlags \/ InitFile \/ CheckArguments \/ decodeContract
           \/ ReproductionPreflight
    BY <1>1, PlainStepsKeep
<1>2. CASE requireDeclaredFramework \/ preflightCommandFramework \/ bindProjectFramework
    BY <1>2, requireKeeps, preflightKeeps, bindKeeps
<1>3. CASE loadProject \/ asProject \/ verifyProjectBundle
    BY <1>3, loadKeeps, asProjectKeeps, verifyKeeps
<1>4. CASE LookAtTool \/ Spawn \/ ChildExits
    BY <1>4, LookAtToolKeeps, SpawnKeeps, ChildExitsKeeps
<1>5. CASE Kill \/ LateTrouble \/ Close
    BY <1>5, KillKeeps, LateTroubleKeeps, CloseKeeps
<1>6. CASE LookAtServer \/ LookAtModule \/ identify
    BY <1>6, LookAtServerKeeps, LookAtModuleKeeps, identifyKeeps
<1>7. CASE ImportModel \/ SpawnServer \/ ImportAdapter \/ SuiteEnds
    BY <1>7, ImportModelKeeps, SpawnServerKeeps, ImportAdapterKeeps, SuiteEndsKeeps
<1>8. CASE Compare \/ WriteOutput \/ Return
    BY <1>8, CompareKeeps, WriteOutputKeeps, ReturnKeeps
<1>9. CASE Interrupt \/ EditFile
    BY <1>9, InterruptKeeps, EditFileKeeps
<1>10. CASE UNCHANGED projectVars
    BY <1>10, ProjectStutters
<1>. QED
    BY <1>1, <1>2, <1>3, <1>4, <1>5, <1>6, <1>7, <1>8, <1>9, <1>10 DEF ProjectNext

(* The invariant holds in every state of a command. *)
LEMMA ProjectHolds == ProjectSpec => []ProjectInv
<1>1. ProjectInit => ProjectInv
    BY ProjectStarts
<1>2. ProjectInv /\ [ProjectNext]_projectVars => ProjectInv'
    BY ProjectStep
<1>. QED
    BY <1>1, <1>2, PTL DEF ProjectSpec

(* What a command (src/cli.ts, src/project.ts) keeps of its plan, its tools *)
(* and its results has the shape it should at every moment.                 *)
THEOREM ProjectTypes == ProjectSpec => []ProjectTypeOK
<1>1. ProjectInv => ProjectTypeOK
    BY DEF ProjectInv
<1>. QED
    BY <1>1, ProjectHolds, PTL

(* Whatever tool(), executePreparedProject or the suite's factory executes  *)
(* was looked at after the last subprocess, and not before the admission    *)
(* the project demands was checked and bound: for corpora of every length   *)
(* and files edited at any moment, any number of times.                     *)
THEOREM OnlyCheckedCodeRuns == ProjectSpec => []RunsWhatWasChecked
<1>1. ProjectInv => RunsWhatWasChecked
    BY DEF ProjectInv
<1>. QED
    BY <1>1, ProjectHolds, PTL

(* The exit code of a command (main in src/cli.ts, suiteExitCode,           *)
(* projectFailure) says what has happened: 0 that every tool of the command *)
(* ended well and in order and that its suite did what it should, 0 or 1 of *)
(* a replay that no server is left, a cancellation that there was a signal, *)
(* a timeout that a tool ran over its time.                                 *)
THEOREM ExitsAreEarned == ProjectSpec => []ExitIsEarned
<1>1. ProjectInv => ExitIsEarned
    BY DEF ProjectInv
<1>. QED
    BY <1>1, ProjectHolds, PTL
=============================================================================
