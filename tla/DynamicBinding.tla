--------------------------- MODULE DynamicBinding ---------------------------
(***************************************************************************)
(* bindAsyncDynamicDescriptor and bindDynamicDescriptor of                 *)
(* src/dynamic-binding.ts: the binding of a descriptor to the caller's     *)
(* handlers and observers.  A replay calls its computer; the computer runs *)
(* the action's handler and then every observer, and is left when the      *)
(* replay's signal is raised or the binding is disposed, while the         *)
(* callback it waited for may go on.                                       *)
(***************************************************************************)
EXTENDS Naturals, Sequences

CONSTANTS
    Runs,
    Observers,       \* how many observations the descriptor has
    MaxSteps         \* bound: computations of one replay
ASSUME BindingAssumption == Observers \in Nat /\ MaxSteps \in Nat

VARIABLE binding     \* by run

(* stage: "idle", or what the computer is doing: "adapter", "observation";  *)
(* seen: observers called; aborted: the invocation's controller; busy:      *)
(* callbacks of the application that have not returned; counts: the         *)
(* computations that returned (of every action), thrown: those that threw   *)
NoBinding ==
    [lifecycle |-> "none", async |-> FALSE, stage |-> "idle", seen |-> 0, aborted |-> FALSE,
     disposed |-> FALSE, busy |-> 0, counts |-> 0, thrown |-> 0]

(* prepareBinding succeeded *)
FreshBinding(async) == [NoBinding EXCEPT !.lifecycle = "fresh", !.async = async]

BindingInit == binding = [r \in Runs |-> NoBinding]

Bound(r) == binding[r].lifecycle # "none"
Running(r) == binding[r].stage # "idle"

Throw(b) == [b EXCEPT !.lifecycle = "poisoned", !.stage = "idle", !.thrown = @ + 1]
Return(b) ==
    [b EXCEPT !.lifecycle = "initialized", !.stage = "idle", !.counts = @ + 1]

(* Whether a value of the trace has the type its input declares, and a      *)
(* value of the application the type its observation declares               *)
decodeNative == BOOLEAN
encodeNative == BOOLEAN

(* What the announced action and its payload come to: the action's phase,   *)
(* "unknown" for a label the descriptor does not have, "malformed" when its *)
(* inputs are not all in the payload with their types.                      *)
Phases == {"initialize", "transition", "unknown"}
projectInputs(phase) == {IF decoded THEN phase ELSE "malformed" : decoded \in decodeNative}
Refused(b, phase) ==
    phase \in {"unknown", "malformed"} \/ (phase = "transition" /\ b.lifecycle = "fresh")

(* computer(): the guards, the dispatch and the inputs *)
Compute(r, phase) ==
    /\ ~Running(r) /\ binding[r].counts + binding[r].thrown < MaxSteps
    /\ LET b == binding[r]
       IN  binding' = [binding EXCEPT ![r] =
              CASE b.disposed \/ b.lifecycle = "poisoned" -> [b EXCEPT !.thrown = @ + 1]
                [] ~b.disposed /\ b.lifecycle # "poisoned" /\ Refused(b, phase) -> Throw(b)
                [] OTHER -> [b EXCEPT !.stage = "adapter", !.seen = 0,
                                      !.aborted = FALSE, !.busy = @ + 1]]

(* Variant with a bug: assertActive is not called between the callbacks. *)
CallbackReturns_Unchecked(r) ==
    /\ Running(r) /\ binding[r].busy > 0
    /\ LET b == [binding[r] EXCEPT !.busy = @ - 1]
       IN  binding' = [binding EXCEPT ![r] =
              IF b.seen = Observers THEN Return(b)
              ELSE [b EXCEPT !.stage = "observation", !.seen = @ + 1, !.busy = @ + 1]]

(* A callback of an invocation that still waits for it returns, with a     *)
(* result of the right shape or not.  The next callback starts at once,     *)
(* unless the invocation was left.                                         *)
CallbackReturns(r) ==
    /\ Running(r) /\ binding[r].busy > 0
    /\ LET b == [binding[r] EXCEPT !.busy = @ - 1]
       IN  \/ binding' = [binding EXCEPT ![r] = Throw(b)]
           \/ /\ ~b.aborted /\ ~b.disposed /\ b.lifecycle # "poisoned"
              /\ \E encoded \in encodeNative : binding' = [binding EXCEPT ![r] =
                    IF b.seen = Observers THEN (IF encoded THEN Return(b) ELSE Throw(b))
                    ELSE [b EXCEPT !.lifecycle = "initialized", !.stage = "observation",
                                   !.seen = @ + 1, !.busy = @ + 1]]

(* invokeUntilAborted: the invocation is left, its callback is not stopped. *)
InvocationLeft(r) ==
    /\ Running(r) /\ binding[r].aborted
    /\ binding' = [binding EXCEPT ![r] = Throw(@)]

(* A callback nobody waits for any more returns. *)
LateCallback(r) ==
    /\ ~Running(r) /\ binding[r].busy > 0
    /\ binding' = [binding EXCEPT ![r].busy = @ - 1]

(* The synchronous computer: handler and observers within one call *)
ComputeAtOnce(r, phase) ==
    /\ binding[r].counts + binding[r].thrown < MaxSteps
    /\ LET b == binding[r]
       IN  \E returned \in BOOLEAN, encoded \in encodeNative : binding' = [binding EXCEPT ![r] =
              CASE b.disposed \/ b.lifecycle = "poisoned" -> [b EXCEPT !.thrown = @ + 1]
                [] /\ ~b.disposed /\ b.lifecycle # "poisoned"
                   /\ Refused(b, phase) \/ ~returned \/ ~encoded -> Throw(b)
                [] OTHER -> Return(b)]

(* The replay's signal is raised; dispose(), the first call of it *)
Aborted(b) == [b EXCEPT !.aborted = TRUE]
Disposed(b) == [b EXCEPT !.disposed = TRUE, !.aborted = TRUE]

-----------------------------------------------------------------------------
(* The application is never entered twice, nor behind the replay's back: a  *)
(* handler or observer starts only when no other callback of the binding is *)
(* running, also not one that an aborted computation left behind, and never *)
(* once the binding was disposed or the replay's signal raised.             *)
CallbacksNeverOverlap ==
    [][\A r \in Runs :
          (binding'[r].busy > binding[r].busy \/ binding'[r].seen > binding[r].seen)
          => binding'[r].busy = 1 /\ ~binding[r].disposed /\ ~binding[r].aborted]_binding
=============================================================================
