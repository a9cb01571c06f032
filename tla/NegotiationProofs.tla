------------------------- MODULE NegotiationProofs -------------------------
(***************************************************************************)
(* Proofs about Negotiation, DynamicBinding and DescriptorCache:           *)
(* application code runs only under the interface the peer confirmed,      *)
(* everything a run owns is released exactly once, no callback of a        *)
(* binding starts while another one runs, and the cache the runs share     *)
(* stays within its quotas, for any set of runs, selections,               *)
(* registrations, quotas and sizes.                                        *)
(***************************************************************************)
EXTENDS Negotiation, FiniteSetTheorems, SequenceTheorems, NaturalsInduction, TLAPS

-----------------------------------------------------------------------------
(* The inductive invariant *)

Bindings ==
    [lifecycle : {"none", "fresh", "initialized", "poisoned"}, async : BOOLEAN,
     stage : {"idle", "adapter", "observation"}, seen : Nat, aborted : BOOLEAN,
     disposed : BOOLEAN, busy : Nat, counts : Nat, thrown : Nat]

(* At most one callback runs; one that nobody waits for is behind a poisoned *)
(* binding, which starts no other.                                           *)
BindingInv(b) ==
    /\ b \in Bindings /\ b.busy \in {0, 1}
    /\ b.stage # "idle" => b.busy = 1 /\ b.async /\ b.lifecycle # "none"
    /\ b.stage = "idle" /\ b.lifecycle # "poisoned" => b.busy = 0

Allowed == {"compiled", "dynamic", "fallback"}
Over == {"dispose", "close", "done"}

(* What the reply allowed: a fallback only where it was preferred *)
Authorized(r) ==
    authorized[r] \in Allowed /\ (authorized[r] = "fallback" => selection[r].policy = "prefer")

(* What a run owns at each place, and how often it was released *)
RunInv(r) ==
    /\ pc[r] \in {"create", "bind", "validate", "replay"} => Authorized(r)
    /\ pc[r] = "replay" => digest[r] = Expected(r)
    /\ pc[r] \in {"prepare", "open", "register", "create"} => owned[r] = "nothing"
    /\ pc[r] \in {"validate", "replay"} => owned[r] = "binding"
    /\ Bound(r) => owned[r] = "binding"
    /\ pc[r] \notin {"close", "done"} => disposals[r] = 0
    /\ pc[r] \in {"close", "done"} =>
         /\ owned[r] = "nothing" => disposals[r] = 0
         /\ owned[r] # "nothing" => disposals[r] = 1
         /\ Bound(r) => binding[r].disposed
    /\ pc[r] \in {"prepare", "done"} => transport[r] # "open"
    /\ pc[r] \notin Over => outcome[r] = "none"
    /\ outcome[r] = "passed" => pc[r] = "done" /\ transport[r] = "closed"
    /\ pc[r] \in Over /\ outcome[r] \in {"none", "passed"}
         => authorized[r] \in Allowed /\ owned[r] = "binding"
    /\ binding[r].aborted => cancelled[r] \/ binding[r].disposed

Types ==
    /\ selection \in [Runs -> Selections]
    /\ pc \in [Runs -> {"prepare", "open", "register", "create", "bind", "validate", "replay",
                        "dispose", "close", "done"}]
    /\ authorized \in [Runs -> Allowed \cup {"none", "error"}]
    /\ digest \in [Runs -> Digests \cup {"none"}]
    /\ owned \in [Runs -> {"nothing", "scope", "binding"}]
    /\ disposals \in [Runs -> Nat]
    /\ transport \in [Runs -> {"unopened", "open", "closed", "unconfirmed"}]
    /\ cancelled \in [Runs -> BOOLEAN]
    /\ outcome \in [Runs -> {"none", "passed", "failed", "cleanup_failed"}]
    /\ binding = [r \in Runs |-> binding[r]]

IInv == Types /\ \A r \in Runs : RunInv(r) /\ BindingInv(binding[r])

-----------------------------------------------------------------------------
(* What the steps of a computer make of its binding *)

(* A binding before and after a step of its computer: none is made or      *)
(* released, and a callback starts only when it is the only one and neither *)
(* the signal nor a disposal has been raised.                               *)
Moves(b, c) ==
    /\ BindingInv(c)
    /\ c.lifecycle = "none" <=> b.lifecycle = "none"
    /\ c.disposed <=> b.disposed
    /\ c.aborted => b.aborted
    /\ c.busy > b.busy \/ c.seen > b.seen => c.busy = 1 /\ ~b.disposed /\ ~b.aborted

(* A computation throws: the binding is poisoned. *)
LEMMA ThrowMakes ==
    ASSUME NEW b \in Bindings
    PROVE  LET c == Throw(b)
           IN  /\ c \in Bindings /\ c.lifecycle = "poisoned" /\ c.stage = "idle"
               /\ c.seen = b.seen /\ c.busy = b.busy
               /\ (c.aborted <=> b.aborted) /\ (c.disposed <=> b.disposed)
<1>. DEFINE c == [[[b EXCEPT !.lifecycle = "poisoned"] EXCEPT !.stage = "idle"]
                    EXCEPT !.thrown = b.thrown + 1]
<1>1. \A d \in Bindings : /\ [d EXCEPT !.lifecycle = "poisoned"] \in Bindings
                          /\ [d EXCEPT !.stage = "idle"] \in Bindings
                          /\ \A n \in Nat : [d EXCEPT !.thrown = n] \in Bindings
    BY DEF Bindings
<1>2. b.thrown + 1 \in Nat
    BY DEF Bindings
<1>3. Throw(b) = c
    BY DEF Throw, Bindings
<1>4. c \in Bindings
    BY <1>1, <1>2
<1>. QED
    BY <1>3, <1>4 DEF Bindings

(* A computation returns. *)
LEMMA ReturnMakes ==
    ASSUME NEW b \in Bindings
    PROVE  LET c == Return(b)
           IN  /\ c \in Bindings /\ c.lifecycle = "initialized" /\ c.stage = "idle"
               /\ c.seen = b.seen /\ c.busy = b.busy
               /\ (c.aborted <=> b.aborted) /\ (c.disposed <=> b.disposed)
<1>. DEFINE c == [[[b EXCEPT !.lifecycle = "initialized"] EXCEPT !.stage = "idle"]
                    EXCEPT !.counts = b.counts + 1]
<1>1. \A d \in Bindings : /\ [d EXCEPT !.lifecycle = "initialized"] \in Bindings
                          /\ [d EXCEPT !.stage = "idle"] \in Bindings
                          /\ \A n \in Nat : [d EXCEPT !.counts = n] \in Bindings
    BY DEF Bindings
<1>2. b.counts + 1 \in Nat
    BY DEF Bindings
<1>3. Return(b) = c
    BY DEF Return, Bindings
<1>4. c \in Bindings
    BY <1>1, <1>2
<1>. QED
    BY <1>3, <1>4 DEF Bindings

(* A call on a disposed or poisoned binding only counts as thrown. *)
LEMMA RefusedCallMakes ==
    ASSUME NEW b, BindingInv(b)
    PROVE  Moves(b, [b EXCEPT !.thrown = @ + 1])
<1>. DEFINE c == [b EXCEPT !.thrown = @ + 1]
<1>1. b \in Bindings /\ b.thrown + 1 \in Nat
    BY DEF BindingInv, Bindings
<1>2. \A n \in Nat : [b EXCEPT !.thrown = n] \in Bindings
    BY <1>1 DEF Bindings
<1>3. c \in Bindings
    BY <1>1, <1>2
<1>4. /\ c.lifecycle = b.lifecycle /\ c.async = b.async /\ c.stage = b.stage
      /\ c.seen = b.seen /\ c.busy = b.busy /\ c.seen \in Nat /\ c.busy \in Nat
      /\ (c.aborted <=> b.aborted) /\ (c.disposed <=> b.disposed)
    BY <1>1 DEF Bindings
<1>. HIDE DEF c
<1>5. BindingInv(c)
    BY <1>3, <1>4 DEF BindingInv
<1>6. Moves(b, c)
    BY <1>4, <1>5 DEF Moves
<1>. QED
    BY <1>6 DEF c

(* A computation that throws, wherever it is *)
LEMMA ThrowMoves ==
    ASSUME NEW b, BindingInv(b), b.lifecycle # "none"
    PROVE  Moves(b, Throw(b))
<1>. DEFINE c == Throw(b)
<1>1. b \in Bindings /\ b.seen \in Nat /\ b.busy \in Nat /\ b.busy \in {0, 1}
    BY DEF BindingInv, Bindings
<1>2. /\ c \in Bindings /\ c.lifecycle = "poisoned" /\ c.stage = "idle"
      /\ c.seen = b.seen /\ c.busy = b.busy
      /\ (c.aborted <=> b.aborted) /\ (c.disposed <=> b.disposed)
    BY <1>1, ThrowMakes
<1>. HIDE DEF c
<1>3. BindingInv(c)
    BY <1>1, <1>2 DEF BindingInv
<1>4. Moves(b, c)
    BY <1>1, <1>2, <1>3 DEF Moves
<1>. QED
    BY <1>4 DEF c

(* computer(): with nothing running and the signal not raised, a callback   *)
(* starts alone.                                                            *)
LEMMA ComputeMoves ==
    ASSUME NEW r \in Runs, NEW phase, BindingInv(binding[r]), Bound(r), binding[r].async,
           binding[r].aborted => binding[r].disposed, Compute(r, phase)
    PROVE  \E c : binding' = [binding EXCEPT ![r] = c] /\ Moves(binding[r], c)
<1>. DEFINE b == binding[r]
            c == [b EXCEPT !.stage = "adapter", !.seen = 0, !.aborted = FALSE, !.busy = @ + 1]
<1>1. b \in Bindings /\ b.stage = "idle" /\ b.lifecycle # "none"
    BY DEF BindingInv, Bound, Compute, Running
<1>2. CASE b.disposed \/ b.lifecycle = "poisoned"
  <2>1. binding' = [binding EXCEPT ![r] = [b EXCEPT !.thrown = @ + 1]]
      BY <1>2 DEF Compute
  <2>. QED
      BY <2>1, RefusedCallMakes
<1>3. CASE ~b.disposed /\ b.lifecycle # "poisoned" /\ Refused(b, phase)
  <2>1. binding' = [binding EXCEPT ![r] = Throw(b)]
      BY <1>3 DEF Compute
  <2>. QED
      BY <1>1, <2>1, ThrowMoves
<1>4. CASE ~b.disposed /\ b.lifecycle # "poisoned" /\ ~Refused(b, phase)
  <2>1. binding' = [binding EXCEPT ![r] = c]
      BY <1>4 DEF Compute
  <2>2. b.busy = 0
      BY <1>1, <1>4 DEF BindingInv
  <2>3. c = [[[[b EXCEPT !.stage = "adapter"] EXCEPT !.seen = 0] EXCEPT !.aborted = FALSE]
               EXCEPT !.busy = 1]
      BY <1>1, <2>2 DEF Bindings
  <2>. HIDE DEF b
  <2>4. \A d \in Bindings : /\ [d EXCEPT !.stage = "adapter"] \in Bindings
                            /\ [d EXCEPT !.seen = 0] \in Bindings
                            /\ [d EXCEPT !.aborted = FALSE] \in Bindings
                            /\ [d EXCEPT !.busy = 1] \in Bindings
      BY DEF Bindings
  <2>5. c \in Bindings
      BY <1>1, <2>3, <2>4
  <2>6. /\ c.stage = "adapter" /\ c.seen = 0 /\ ~c.aborted /\ c.busy = 1
        /\ c.lifecycle = b.lifecycle /\ (c.disposed <=> b.disposed) /\ (c.async <=> b.async)
      BY <1>1, <2>3 DEF Bindings
  <2>. HIDE DEF c
  <2>7. BindingInv(c)
      BY <1>1, <2>5, <2>6 DEF BindingInv, b
  <2>8. Moves(b, c)
      BY <1>1, <1>4, <2>6, <2>7 DEF Moves, b, Bindings
  <2>. QED
      BY <2>1, <2>8 DEF b
<1>. QED
    BY <1>2, <1>3, <1>4

(* The synchronous computer starts nothing that outlives its call. *)
LEMMA ComputeAtOnceMoves ==
    ASSUME NEW r \in Runs, NEW phase, BindingInv(binding[r]), Bound(r), ~binding[r].async,
           ComputeAtOnce(r, phase)
    PROVE  \E c : binding' = [binding EXCEPT ![r] = c] /\ Moves(binding[r], c)
<1>. DEFINE b == binding[r]
<1>1. b \in Bindings /\ b.stage = "idle" /\ b.lifecycle # "none"
    BY DEF BindingInv, Bound
<1>2. PICK returned \in BOOLEAN, encoded \in encodeNative :
        binding' = [binding EXCEPT ![r] =
            CASE b.disposed \/ b.lifecycle = "poisoned" -> [b EXCEPT !.thrown = @ + 1]
              [] /\ ~b.disposed /\ b.lifecycle # "poisoned"
                 /\ Refused(b, phase) \/ ~returned \/ ~encoded -> Throw(b)
              [] OTHER -> Return(b)]
    BY DEF ComputeAtOnce
<1>3. CASE b.disposed \/ b.lifecycle = "poisoned"
  <2>1. binding' = [binding EXCEPT ![r] = [b EXCEPT !.thrown = @ + 1]]
      BY <1>2, <1>3
  <2>. QED
      BY <2>1, RefusedCallMakes
<1>4. CASE /\ ~b.disposed /\ b.lifecycle # "poisoned"
           /\ Refused(b, phase) \/ ~returned \/ ~encoded
  <2>1. binding' = [binding EXCEPT ![r] = Throw(b)]
      BY <1>2, <1>4
  <2>. QED
      BY <1>1, <2>1, ThrowMoves
<1>5. CASE /\ ~b.disposed /\ b.lifecycle # "poisoned"
           /\ ~(Refused(b, phase) \/ ~returned \/ ~encoded)
  <2>. DEFINE c == Return(b)
  <2>1. binding' = [binding EXCEPT ![r] = c]
      BY <1>2, <1>5
  <2>2. b.busy = 0 /\ b.seen \in Nat
      BY <1>1, <1>5 DEF BindingInv, Bindings
  <2>. HIDE DEF b
  <2>3. /\ c \in Bindings /\ c.lifecycle = "initialized" /\ c.stage = "idle"
        /\ c.seen = b.seen /\ c.busy = b.busy
        /\ (c.aborted <=> b.aborted) /\ (c.disposed <=> b.disposed)
      BY <1>1, ReturnMakes
  <2>. HIDE DEF c
  <2>4. BindingInv(c)
      BY <2>2, <2>3 DEF BindingInv
  <2>5. Moves(b, c)
      BY <1>1, <2>2, <2>3, <2>4 DEF Moves
  <2>. QED
      BY <2>1, <2>5 DEF b
<1>. QED
    BY <1>3, <1>4, <1>5

(* The callback that an invocation waits for returns: the next one starts  *)
(* in its place, unless the invocation was left.                           *)
LEMMA CallbackReturnsMoves ==
    ASSUME NEW r \in Runs, BindingInv(binding[r]), CallbackReturns(r), Observers \in Nat
    PROVE  \E c : binding' = [binding EXCEPT ![r] = c] /\ Moves(binding[r], c)
<1>. DEFINE a == binding[r]
            b == [a EXCEPT !.busy = @ - 1]
            c == [b EXCEPT !.lifecycle = "initialized", !.stage = "observation",
                           !.seen = @ + 1, !.busy = @ + 1]
<1>1. /\ a \in Bindings /\ a.stage # "idle" /\ a.busy = 1 /\ a.async /\ a.lifecycle # "none"
      /\ a.seen \in Nat
    BY DEF CallbackReturns, Running, BindingInv, Bindings
<1>2. \/ binding' = [binding EXCEPT ![r] = Throw(b)]
      \/ /\ ~b.aborted /\ ~b.disposed
         /\ \/ binding' = [binding EXCEPT ![r] = Return(b)]
            \/ binding' = [binding EXCEPT ![r] = c]
    BY DEF CallbackReturns
<1>. HIDE DEF a
<1>3. b \in Bindings
  <2>1. b = [a EXCEPT !.busy = 0]
      BY <1>1 DEF Bindings
  <2>. QED
      BY <1>1, <2>1 DEF Bindings
<1>4. /\ b.busy = 0 /\ b.seen = a.seen /\ b.stage = a.stage /\ b.lifecycle = a.lifecycle
      /\ (b.aborted <=> a.aborted) /\ (b.disposed <=> a.disposed) /\ (b.async <=> a.async)
    BY <1>1 DEF Bindings
<1>. HIDE DEF b
<1>5. Moves(a, Throw(b))
  <2>. DEFINE d == Throw(b)
  <2>1. /\ d \in Bindings /\ d.lifecycle = "poisoned" /\ d.stage = "idle"
        /\ d.seen = b.seen /\ d.busy = b.busy
        /\ (d.aborted <=> b.aborted) /\ (d.disposed <=> b.disposed)
      BY <1>3, ThrowMakes
  <2>. HIDE DEF d
  <2>2. BindingInv(d)
      BY <1>4, <2>1 DEF BindingInv
  <2>3. Moves(a, d)
      BY <1>1, <1>4, <2>1, <2>2 DEF Moves
  <2>. QED
      BY <2>3 DEF d
<1>6. Moves(a, Return(b))
  <2>. DEFINE d == Return(b)
  <2>1. /\ d \in Bindings /\ d.lifecycle = "initialized" /\ d.stage = "idle"
        /\ d.seen = b.seen /\ d.busy = b.busy
        /\ (d.aborted <=> b.aborted) /\ (d.disposed <=> b.disposed)
      BY <1>3, ReturnMakes
  <2>. HIDE DEF d
  <2>2. BindingInv(d)
      BY <1>4, <2>1 DEF BindingInv
  <2>3. Moves(a, d)
      BY <1>1, <1>4, <2>1, <2>2 DEF Moves
  <2>. QED
      BY <2>3 DEF d
<1>7. ~b.aborted /\ ~b.disposed => Moves(a, c)
  <2>1. c = [[[[b EXCEPT !.lifecycle = "initialized"] EXCEPT !.stage = "observation"]
                EXCEPT !.seen = a.seen + 1] EXCEPT !.busy = 1]
      BY <1>3, <1>4 DEF Bindings
  <2>2. \A d \in Bindings : /\ [d EXCEPT !.lifecycle = "initialized"] \in Bindings
                            /\ [d EXCEPT !.stage = "observation"] \in Bindings
                            /\ \A n \in Nat : [d EXCEPT !.seen = n] \in Bindings
                            /\ [d EXCEPT !.busy = 1] \in Bindings
      BY DEF Bindings
  <2>3. a.seen + 1 \in Nat
      BY <1>1
  <2>4. c \in Bindings
      BY <1>3, <2>1, <2>2, <2>3
  <2>5. /\ c.lifecycle = "initialized" /\ c.stage = "observation" /\ c.busy = 1
        /\ (c.aborted <=> b.aborted) /\ (c.disposed <=> b.disposed) /\ (c.async <=> b.async)
      BY <1>3, <2>1 DEF Bindings
  <2>. HIDE DEF c
  <2>6. BindingInv(c)
      BY <1>1, <1>4, <2>4, <2>5 DEF BindingInv
  <2>. QED
      BY <1>1, <1>4, <2>5, <2>6 DEF Moves
<1>. QED
    BY <1>2, <1>5, <1>6, <1>7 DEF a

(* The invocation is left; its callback goes on behind a poisoned binding. *)
LEMMA InvocationLeftMoves ==
    ASSUME NEW r \in Runs, BindingInv(binding[r]), InvocationLeft(r)
    PROVE  \E c : binding' = [binding EXCEPT ![r] = c] /\ Moves(binding[r], c)
<1>1. binding[r].lifecycle # "none"
    BY DEF InvocationLeft, Running, BindingInv
<1>2. binding' = [binding EXCEPT ![r] = Throw(binding[r])]
    BY DEF InvocationLeft
<1>. QED
    BY <1>1, <1>2, ThrowMoves

(* A callback nobody waits for returns. *)
LEMMA LateCallbackMoves ==
    ASSUME NEW r \in Runs, BindingInv(binding[r]), LateCallback(r)
    PROVE  \E c : binding' = [binding EXCEPT ![r] = c] /\ Moves(binding[r], c)
<1>. DEFINE a == binding[r]
            c == [a EXCEPT !.busy = @ - 1]
<1>1. /\ a \in Bindings /\ a.stage = "idle" /\ a.busy = 1 /\ a.seen \in Nat
    BY DEF LateCallback, Running, BindingInv, Bindings
<1>2. binding' = [binding EXCEPT ![r] = c]
    BY DEF LateCallback
<1>. HIDE DEF a
<1>3. c \in Bindings
  <2>1. c = [a EXCEPT !.busy = 0]
      BY <1>1 DEF Bindings
  <2>. QED
      BY <1>1, <2>1 DEF Bindings
<1>4. /\ c.busy = 0 /\ c.seen = a.seen /\ c.stage = a.stage /\ c.lifecycle = a.lifecycle
      /\ (c.aborted <=> a.aborted) /\ (c.disposed <=> a.disposed) /\ (c.async <=> a.async)
    BY <1>1 DEF Bindings
<1>. HIDE DEF c
<1>5. BindingInv(c)
    BY <1>1, <1>3, <1>4 DEF BindingInv
<1>6. Moves(a, c)
    BY <1>1, <1>4, <1>5 DEF Moves
<1>. QED
    BY <1>2, <1>6 DEF a

(* The signal and the disposal leave the callbacks where they are. *)
LEMMA StopsKeep ==
    ASSUME NEW b, BindingInv(b)
    PROVE  /\ BindingInv(Aborted(b)) /\ BindingInv(Disposed(b))
           /\ Aborted(b).lifecycle = b.lifecycle /\ Disposed(b).lifecycle = b.lifecycle
           /\ Aborted(b).busy = b.busy /\ Disposed(b).busy = b.busy
           /\ Aborted(b).seen = b.seen /\ Disposed(b).seen = b.seen
           /\ (Aborted(b).disposed <=> b.disposed) /\ Disposed(b).disposed
<1>1. b \in Bindings
    BY DEF BindingInv
<1>2. \A d \in Bindings : /\ [d EXCEPT !.aborted = TRUE] \in Bindings
                          /\ [d EXCEPT !.disposed = TRUE] \in Bindings
    BY DEF Bindings
<1>3. Disposed(b) = [[b EXCEPT !.disposed = TRUE] EXCEPT !.aborted = TRUE]
    BY <1>1 DEF Disposed, Bindings
<1>4. Aborted(b) \in Bindings /\ Disposed(b) \in Bindings
    BY <1>1, <1>2, <1>3 DEF Aborted
<1>5. /\ Aborted(b).lifecycle = b.lifecycle /\ Aborted(b).busy = b.busy
      /\ Aborted(b).seen = b.seen /\ (Aborted(b).disposed <=> b.disposed)
      /\ Aborted(b).stage = b.stage /\ (Aborted(b).async <=> b.async)
    BY <1>1 DEF Aborted, Bindings
<1>6. /\ Disposed(b).lifecycle = b.lifecycle /\ Disposed(b).busy = b.busy
      /\ Disposed(b).seen = b.seen /\ Disposed(b).disposed
      /\ Disposed(b).stage = b.stage /\ (Disposed(b).async <=> b.async)
    BY <1>1 DEF Disposed, Bindings
<1>7. BindingInv(Aborted(b)) /\ BindingInv(Disposed(b))
    BY <1>4, <1>5, <1>6 DEF BindingInv
<1>. QED
    BY <1>5, <1>6, <1>7

(* A new binding has no callback running and nobody has stopped it. *)
LEMMA NewBindings ==
    /\ BindingInv(NoBinding) /\ ~NoBinding.aborted /\ NoBinding.lifecycle = "none"
    /\ \A async \in BOOLEAN :
         /\ BindingInv(FreshBinding(async)) /\ FreshBinding(async).lifecycle # "none"
         /\ FreshBinding(async).busy = 0 /\ FreshBinding(async).seen = 0
         /\ ~FreshBinding(async).aborted /\ ~FreshBinding(async).disposed
<1>1. NoBinding \in Bindings /\ BindingInv(NoBinding)
    BY DEF NoBinding, Bindings, BindingInv
<1>2. ASSUME NEW async \in BOOLEAN
      PROVE  /\ BindingInv(FreshBinding(async)) /\ FreshBinding(async).lifecycle # "none"
             /\ FreshBinding(async).busy = 0 /\ FreshBinding(async).seen = 0
             /\ ~FreshBinding(async).aborted /\ ~FreshBinding(async).disposed
  <2>. DEFINE b == NoBinding
              c == [[b EXCEPT !.lifecycle = "fresh"] EXCEPT !.async = async]
  <2>1. /\ b.stage = "idle" /\ b.seen = 0 /\ b.busy = 0 /\ ~b.aborted /\ ~b.disposed
      BY DEF NoBinding
  <2>2. b \in Bindings
      BY <1>1
  <2>3. FreshBinding(async) = [b EXCEPT !.lifecycle = "fresh", !.async = async]
      BY DEF FreshBinding
  <2>. HIDE DEF b
  <2>4. FreshBinding(async) = c
      BY <2>2, <2>3 DEF Bindings
  <2>5. \A d \in Bindings : /\ [d EXCEPT !.lifecycle = "fresh"] \in Bindings
                            /\ [d EXCEPT !.async = async] \in Bindings
      BY <1>2 DEF Bindings
  <2>6. c \in Bindings
      BY <2>2, <2>5
  <2>7. /\ c.lifecycle = "fresh" /\ c.stage = "idle" /\ c.seen = 0 /\ c.busy = 0
        /\ ~c.aborted /\ ~c.disposed
      BY <2>1, <2>2 DEF Bindings
  <2>. HIDE DEF c
  <2>8. BindingInv(c)
      BY <2>6, <2>7 DEF BindingInv
  <2>. QED
      BY <2>4, <2>7, <2>8
<1>. QED
    BY <1>1, <1>2 DEF NoBinding

-----------------------------------------------------------------------------
(* Steps of one run leave the others alone *)

Untouched(s) ==
    /\ selection'[s] = selection[s] /\ pc'[s] = pc[s] /\ authorized'[s] = authorized[s]
    /\ digest'[s] = digest[s] /\ owned'[s] = owned[s] /\ disposals'[s] = disposals[s]
    /\ transport'[s] = transport[s] /\ cancelled'[s] = cancelled[s]
    /\ outcome'[s] = outcome[s] /\ binding'[s] = binding[s]

(* A step that keeps the invariant of its own run keeps it of every run. *)
LEMMA RunsApart ==
    ASSUME IInv, NEW r \in Runs, Types', RunInv(r)', BindingInv(binding'[r]),
           \A s \in Runs \ {r} : Untouched(s)
    PROVE  IInv'
<1>1. ASSUME NEW s \in Runs \ {r}
      PROVE  RunInv(s)' /\ BindingInv(binding'[s])
  <2>1. Untouched(s) /\ RunInv(s) /\ BindingInv(binding[s])
      BY DEF IInv
  <2>. QED
      BY <2>1 DEF Untouched, RunInv, Authorized, Expected, Bound
<1>2. ASSUME NEW s \in Runs
      PROVE  RunInv(s)' /\ BindingInv(binding'[s])
    BY <1>1
<1>3. ASSUME NEW s \in Runs
      PROVE  BindingInv(binding[s])'
    BY <1>2 DEF BindingInv
<1>. QED
    BY <1>2, <1>3 DEF IInv

(* The invariant of one run, with the types. *)
LEMMA OfOneRun ==
    ASSUME IInv, NEW r \in Runs
    PROVE  Types /\ RunInv(r) /\ BindingInv(binding[r])
    BY DEF IInv

(* prepareNegotiation: nothing is owned yet, whether it is refused or not. *)
LEMMA PrepareKeeps ==
    ASSUME IInv, NEW r \in Runs, Prepare(r)
    PROVE  IInv'
<1>1. Types /\ RunInv(r) /\ BindingInv(binding[r])
    BY OfOneRun
<1>2. /\ UNCHANGED <<selection, authorized, digest, owned, disposals, transport, cancelled,
                     binding>>
      /\ pc[r] = "prepare" /\ (Goes(r, "open") \/ Ends(r, "failed"))
    BY DEF Prepare, At
<1>3. Types'
    BY <1>1, <1>2 DEF Types, Goes, Ends
<1>4. RunInv(r)' /\ BindingInv(binding'[r])
    BY <1>1, <1>2 DEF Types, Goes, Ends, RunInv, Authorized, Expected, Bound, Over
<1>5. \A s \in Runs \ {r} : Untouched(s)
    BY <1>1, <1>2 DEF Types, Goes, Ends, Untouched
<1>. QED
    BY <1>3, <1>4, <1>5, RunsApart

(* resolveTransport: a transport that is not ready is closed. *)
LEMMA OpenKeeps ==
    ASSUME IInv, NEW r \in Runs, Open(r)
    PROVE  IInv'
<1>1. Types /\ RunInv(r) /\ BindingInv(binding[r])
    BY OfOneRun
<1>2. /\ UNCHANGED <<selection, authorized, digest, owned, disposals, cancelled, binding>>
      /\ pc[r] = "open"
      /\ \/ transport' = [transport EXCEPT ![r] = "open"] /\ Goes(r, "register")
         \/ /\ \E closed \in Closed : transport' = [transport EXCEPT ![r] = closed]
            /\ Ends(r, "failed")
    BY DEF Open, At
<1>3. Types'
    BY <1>1, <1>2 DEF Types, Goes, Ends, Closed
<1>4. RunInv(r)' /\ BindingInv(binding'[r])
    BY <1>1, <1>2 DEF Types, Goes, Ends, RunInv, Authorized, Expected, Bound, Over, Closed
<1>5. \A s \in Runs \ {r} : Untouched(s)
    BY <1>1, <1>2 DEF Types, Goes, Ends, Untouched
<1>. QED
    BY <1>3, <1>4, <1>5, RunsApart

(* authorizeReply allows a compiled adapter, a dynamic descriptor or, where *)
(* the application preferred negotiation and gave one, a fallback.          *)
LEMMA ReplyAllows ==
    ASSUME NEW r \in Runs, NEW reply \in Replies
    PROVE  /\ authorizeReply(r, reply) \in Allowed \cup {"error"}
           /\ authorizeReply(r, reply) = "fallback" => selection[r].policy = "prefer"
<1>1. reply.status \in ReplyStatuses
    BY DEF Replies
<1>. QED
    BY <1>1 DEF authorizeReply, Allowed, ReplyStatuses

(* The first reply is authorized before anything is created. *)
LEMMA FirstReplyKeeps ==
    ASSUME IInv, NEW r \in Runs, FirstReply(r)
    PROVE  IInv'
<1>1. Types /\ RunInv(r) /\ BindingInv(binding[r])
    BY OfOneRun
<1>2. /\ UNCHANGED <<selection, digest, owned, disposals, transport, cancelled, binding>>
      /\ pc[r] = "register"
    BY DEF FirstReply, At
<1>3. CASE Fails(r) /\ UNCHANGED authorized
  <2>1. Types'
      BY <1>1, <1>2, <1>3 DEF Types, Fails
  <2>2. RunInv(r)' /\ BindingInv(binding'[r])
      BY <1>1, <1>2, <1>3 DEF Types, Fails, RunInv, Authorized, Expected, Bound, Over
  <2>3. \A s \in Runs \ {r} : Untouched(s)
      BY <1>1, <1>2, <1>3 DEF Types, Fails, Untouched
  <2>. QED
      BY <2>1, <2>2, <2>3, RunsApart
<1>4. ASSUME NEW reply \in Replies,
             authorized' = [authorized EXCEPT ![r] = authorizeReply(r, reply)],
             IF authorized'[r] = "error" THEN Fails(r) ELSE Goes(r, "create")
      PROVE  IInv'
  <2>1. /\ authorized'[r] \in Allowed \cup {"error"}
        /\ authorized'[r] = "fallback" => selection[r].policy = "prefer"
        /\ authorized' \in [Runs -> Allowed \cup {"none", "error"}]
        /\ \A s \in Runs \ {r} : authorized'[s] = authorized[s]
      BY <1>1, <1>4, ReplyAllows DEF Types
  <2>2. \/ authorized'[r] = "error" /\ Fails(r)
        \/ authorized'[r] \in Allowed /\ Goes(r, "create")
      BY <1>4, <2>1
  <2>3. Types'
      BY <1>1, <1>2, <2>1, <2>2 DEF Types, Fails, Goes
  <2>4. RunInv(r)' /\ BindingInv(binding'[r])
      BY <1>1, <1>2, <2>1, <2>2 DEF Types, Fails, Goes, RunInv, Authorized, Expected, Bound, Over
  <2>5. \A s \in Runs \ {r} : Untouched(s)
      BY <1>1, <1>2, <2>1, <2>2 DEF Types, Fails, Goes, Untouched
  <2>. QED
      BY <2>3, <2>4, <2>5, RunsApart
<1>. QED
    BY <1>3, <1>4 DEF FirstReply

(* The factory or createRegistry: what it made is the run's to release. *)
LEMMA CreateKeeps ==
    ASSUME IInv, NEW r \in Runs, Create(r)
    PROVE  IInv'
<1>1. Types /\ RunInv(r) /\ BindingInv(binding[r])
    BY OfOneRun
<1>2. /\ UNCHANGED <<selection, authorized, disposals, transport, cancelled>>
      /\ pc[r] = "create"
    BY DEF Create, At
<1>3. CASE Fails(r) /\ UNCHANGED <<owned, digest, binding>>
  <2>1. Types'
      BY <1>1, <1>2, <1>3 DEF Types, Fails
  <2>2. RunInv(r)' /\ BindingInv(binding'[r])
      BY <1>1, <1>2, <1>3 DEF Types, Fails, RunInv, Authorized, Expected, Bound, Over
  <2>3. \A s \in Runs \ {r} : Untouched(s)
      BY <1>1, <1>2, <1>3 DEF Types, Fails, Untouched
  <2>. QED
      BY <2>1, <2>2, <2>3, RunsApart
<1>4. ASSUME NEW d \in Digests, digest' = [digest EXCEPT ![r] = d],
             owned' = [owned EXCEPT ![r] = "binding"], Goes(r, "validate"), UNCHANGED binding
      PROVE  IInv'
  <2>1. Types'
      BY <1>1, <1>2, <1>4 DEF Types, Goes
  <2>2. RunInv(r)' /\ BindingInv(binding'[r])
      BY <1>1, <1>2, <1>4 DEF Types, Goes, RunInv, Authorized, Expected, Bound, Over
  <2>3. \A s \in Runs \ {r} : Untouched(s)
      BY <1>1, <1>2, <1>4 DEF Types, Goes, Untouched
  <2>. QED
      BY <2>1, <2>2, <2>3, RunsApart
<1>5. CASE /\ owned' = [owned EXCEPT ![r] = "scope"] /\ Goes(r, "bind")
           /\ UNCHANGED <<digest, binding>>
  <2>1. Types'
      BY <1>1, <1>2, <1>5 DEF Types, Goes
  <2>2. RunInv(r)' /\ BindingInv(binding'[r])
      BY <1>1, <1>2, <1>5 DEF Types, Goes, RunInv, Authorized, Expected, Bound, Over
  <2>3. \A s \in Runs \ {r} : Untouched(s)
      BY <1>1, <1>2, <1>5 DEF Types, Goes, Untouched
  <2>. QED
      BY <2>1, <2>2, <2>3, RunsApart
<1>6. CASE /\ owned' = [owned EXCEPT ![r] = "binding"]
           /\ digest' = [digest EXCEPT ![r] = Expected(r)]
           /\ binding' = [binding EXCEPT ![r] = FreshBinding(FALSE)]
           /\ Goes(r, "validate")
  <2>1. Expected(r) \in Digests
      BY <1>1, SelectionAssumption DEF Types, Expected
  <2>2. binding'[r] = FreshBinding(FALSE)
      BY <1>1, <1>6 DEF Types
  <2>3. /\ BindingInv(binding'[r]) /\ binding'[r].lifecycle # "none"
        /\ ~binding'[r].aborted /\ ~binding'[r].disposed
      BY <2>2, NewBindings
  <2>4. Types'
      BY <1>1, <1>2, <1>6, <2>1 DEF Types, Goes
  <2>5. RunInv(r)'
      BY <1>1, <1>2, <1>6, <2>3 DEF Types, Goes, RunInv, Authorized, Expected, Bound, Over
  <2>6. \A s \in Runs \ {r} : Untouched(s)
      BY <1>1, <1>2, <1>6 DEF Types, Goes, Untouched
  <2>. QED
      BY <2>3, <2>4, <2>5, <2>6, RunsApart
<1>. QED
    BY <1>3, <1>4, <1>5, <1>6 DEF Create

(* The scope's registry is bound, or the scope stays the run's to release. *)
LEMMA BindScopeKeeps ==
    ASSUME IInv, NEW r \in Runs, BindScope(r)
    PROVE  IInv'
<1>1. Types /\ RunInv(r) /\ BindingInv(binding[r])
    BY OfOneRun
<1>2. /\ UNCHANGED <<selection, authorized, disposals, transport, cancelled>>
      /\ pc[r] = "bind"
    BY DEF BindScope, At
<1>3. CASE Fails(r) /\ UNCHANGED <<owned, digest, binding>>
  <2>1. Types'
      BY <1>1, <1>2, <1>3 DEF Types, Fails
  <2>2. RunInv(r)' /\ BindingInv(binding'[r])
      BY <1>1, <1>2, <1>3 DEF Types, Fails, RunInv, Authorized, Expected, Bound, Over
  <2>3. \A s \in Runs \ {r} : Untouched(s)
      BY <1>1, <1>2, <1>3 DEF Types, Fails, Untouched
  <2>. QED
      BY <2>1, <2>2, <2>3, RunsApart
<1>4. CASE /\ owned' = [owned EXCEPT ![r] = "binding"]
           /\ digest' = [digest EXCEPT ![r] = Expected(r)]
           /\ binding' = [binding EXCEPT ![r] = FreshBinding(selection[r].async)]
           /\ Goes(r, "validate")
  <2>1. Expected(r) \in Digests /\ selection[r].async \in BOOLEAN
      BY <1>1, SelectionAssumption DEF Types, Expected
  <2>2. binding'[r] = FreshBinding(selection[r].async)
      BY <1>1, <1>4 DEF Types
  <2>3. /\ BindingInv(binding'[r]) /\ binding'[r].lifecycle # "none"
        /\ ~binding'[r].aborted /\ ~binding'[r].disposed
      BY <2>1, <2>2, NewBindings
  <2>4. Types'
      BY <1>1, <1>2, <1>4, <2>1 DEF Types, Goes
  <2>5. RunInv(r)'
      BY <1>1, <1>2, <1>4, <2>3 DEF Types, Goes, RunInv, Authorized, Expected, Bound, Over
  <2>6. \A s \in Runs \ {r} : Untouched(s)
      BY <1>1, <1>2, <1>4 DEF Types, Goes, Untouched
  <2>. QED
      BY <2>3, <2>4, <2>5, <2>6, RunsApart
<1>. QED
    BY <1>3, <1>4 DEF BindScope

(* validateBinding and the end of the replay: only a binding of the digest  *)
(* that was asked for replays, and a replay that ends well owned it.        *)
LEMMA ValidateAndEndKeep ==
    ASSUME IInv, NEW r \in Runs, Validate(r) \/ ReplayEnds(r)
    PROVE  IInv'
<1>1. Types /\ RunInv(r) /\ BindingInv(binding[r])
    BY OfOneRun
<1>2. /\ UNCHANGED <<selection, authorized, digest, owned, disposals, transport, cancelled,
                     binding>>
      /\ \/ pc[r] \in {"validate", "replay"} /\ Fails(r)
         \/ pc[r] = "validate" /\ digest[r] = Expected(r) /\ Goes(r, "replay")
         \/ pc[r] = "replay" /\ Goes(r, "dispose")
    BY DEF Validate, ReplayEnds, At
<1>3. Types'
    BY <1>1, <1>2 DEF Types, Goes, Fails
<1>4. RunInv(r)' /\ BindingInv(binding'[r])
    BY <1>1, <1>2 DEF Types, Goes, Fails, RunInv, Authorized, Expected, Bound, Over
<1>5. \A s \in Runs \ {r} : Untouched(s)
    BY <1>1, <1>2 DEF Types, Goes, Fails, Untouched
<1>. QED
    BY <1>3, <1>4, <1>5, RunsApart

(* A step of a run's computer moves its binding and nothing else. *)
LEMMA ComputerMoves ==
    ASSUME IInv, NEW r \in Runs, ReplayComputes(r) \/ ComputerContinues(r)
    PROVE  /\ UNCHANGED runVars
           /\ \E c : binding' = [binding EXCEPT ![r] = c] /\ Moves(binding[r], c)
<1>1. Types /\ RunInv(r) /\ BindingInv(binding[r])
    BY OfOneRun
<1>2. CASE ReplayComputes(r)
  <2>1. Bound(r) /\ ~cancelled[r] /\ UNCHANGED runVars
      BY <1>2 DEF ReplayComputes
  <2>2. PICK phase : IF binding[r].async THEN Compute(r, phase) ELSE ComputeAtOnce(r, phase)
      BY <1>2 DEF ReplayComputes
  <2>3. binding[r].aborted => binding[r].disposed
      BY <1>1, <2>1 DEF RunInv
  <2>4. CASE binding[r].async
      BY <1>1, <2>1, <2>2, <2>3, <2>4, ComputeMoves
  <2>5. CASE ~binding[r].async
      BY <1>1, <2>1, <2>2, <2>5, ComputeAtOnceMoves
  <2>. QED
      BY <2>1, <2>4, <2>5
<1>3. CASE ComputerContinues(r)
  <2>1. Observers \in Nat
      BY BindingAssumption
  <2>. QED
      BY <1>1, <1>3, <2>1, CallbackReturnsMoves, InvocationLeftMoves, LateCallbackMoves
         DEF ComputerContinues
<1>. QED
    BY <1>2, <1>3

(* The computer's steps keep the invariant. *)
LEMMA ComputerKeeps ==
    ASSUME IInv, NEW r \in Runs, ReplayComputes(r) \/ ComputerContinues(r)
    PROVE  IInv'
<1>1. Types /\ RunInv(r) /\ BindingInv(binding[r])
    BY OfOneRun
<1>2. PICK c : binding' = [binding EXCEPT ![r] = c] /\ Moves(binding[r], c)
    BY ComputerMoves
<1>3. UNCHANGED <<selection, pc, authorized, digest, owned, disposals, transport, cancelled,
                  outcome>>
    BY ComputerMoves DEF runVars
<1>4. binding'[r] = c /\ \A s \in Runs \ {r} : binding'[s] = binding[s]
    BY <1>1, <1>2 DEF Types
<1>5. /\ BindingInv(binding'[r])
      /\ binding'[r].lifecycle = "none" <=> binding[r].lifecycle = "none"
      /\ binding'[r].disposed <=> binding[r].disposed
      /\ binding'[r].aborted => binding[r].aborted
    BY <1>2, <1>4 DEF Moves
<1>6. Types'
    BY <1>1, <1>2, <1>3 DEF Types
<1>7. RunInv(r)'
    BY <1>1, <1>3, <1>5 DEF RunInv, Authorized, Expected, Bound
<1>8. \A s \in Runs \ {r} : Untouched(s)
    BY <1>3, <1>4 DEF Untouched
<1>. QED
    BY <1>5, <1>6, <1>7, <1>8, RunsApart

(* The signal is raised, and reaches the binding. *)
LEMMA CancelKeeps ==
    ASSUME IInv, NEW r \in Runs, Cancel(r)
    PROVE  IInv'
<1>1. Types /\ RunInv(r) /\ BindingInv(binding[r])
    BY OfOneRun
<1>2. /\ UNCHANGED <<selection, pc, authorized, digest, owned, disposals, transport, outcome>>
      /\ cancelled' = [cancelled EXCEPT ![r] = TRUE]
      /\ binding' = [binding EXCEPT ![r] = Aborted(binding[r])]
    BY DEF Cancel
<1>3. /\ binding'[r] = Aborted(binding[r]) /\ cancelled'[r]
      /\ \A s \in Runs \ {r} : binding'[s] = binding[s] /\ cancelled'[s] = cancelled[s]
    BY <1>1, <1>2 DEF Types
<1>4. /\ BindingInv(binding'[r]) /\ binding'[r].lifecycle = binding[r].lifecycle
      /\ (binding'[r].disposed <=> binding[r].disposed)
    BY <1>1, <1>3, StopsKeep
<1>5. Types'
    BY <1>1, <1>2 DEF Types
<1>6. RunInv(r)'
    BY <1>1, <1>2, <1>3, <1>4 DEF RunInv, Authorized, Expected, Bound
<1>7. \A s \in Runs \ {r} : Untouched(s)
    BY <1>2, <1>3 DEF Untouched
<1>. QED
    BY <1>4, <1>5, <1>6, <1>7, RunsApart

(* What the run owns is released: its binding or its scope, once. *)
LEMMA DisposeKeeps ==
    ASSUME IInv, NEW r \in Runs, Dispose(r)
    PROVE  IInv'
<1>. DEFINE b == IF owned[r] = "binding" THEN Disposed(binding[r]) ELSE binding[r]
            n == IF owned[r] = "nothing" THEN disposals[r] ELSE disposals[r] + 1
<1>1. Types /\ RunInv(r) /\ BindingInv(binding[r])
    BY OfOneRun
<1>2. /\ UNCHANGED <<selection, authorized, digest, owned, transport, cancelled>>
      /\ pc[r] = "dispose" /\ pc' = [pc EXCEPT ![r] = "close"]
      /\ disposals' = [disposals EXCEPT ![r] = n]
      /\ binding' = [binding EXCEPT ![r] = b]
      /\ \/ outcome' = outcome
         \/ outcome' = [outcome EXCEPT ![r] = IF @ = "none" THEN "cleanup_failed" ELSE @]
    BY DEF Dispose, At, Goes
<1>3. /\ n \in Nat /\ (owned[r] = "nothing" => n = 0) /\ (owned[r] # "nothing" => n = 1)
    BY <1>1, <1>2 DEF Types, RunInv
<1>4. /\ BindingInv(b) /\ b.lifecycle = binding[r].lifecycle
      /\ owned[r] = "binding" => b.disposed
      /\ b.aborted => binding[r].aborted \/ b.disposed
      /\ binding[r].disposed => b.disposed
    BY <1>1, StopsKeep
<1>. HIDE DEF b, n
<1>5. /\ binding'[r] = b /\ disposals'[r] = n /\ pc'[r] = "close"
      /\ \A s \in Runs \ {r} : /\ binding'[s] = binding[s] /\ disposals'[s] = disposals[s]
                               /\ pc'[s] = pc[s] /\ outcome'[s] = outcome[s]
    BY <1>1, <1>2 DEF Types
<1>6. /\ outcome'[r] = outcome[r] \/ outcome'[r] = "cleanup_failed"
      /\ outcome' \in [Runs -> {"none", "passed", "failed", "cleanup_failed"}]
    BY <1>1, <1>2 DEF Types
<1>7. Types'
    BY <1>1, <1>2, <1>3, <1>6 DEF Types
<1>8. RunInv(r)'
    BY <1>1, <1>2, <1>3, <1>4, <1>5, <1>6 DEF RunInv, Authorized, Expected, Bound, Over
<1>9. \A s \in Runs \ {r} : Untouched(s)
    BY <1>2, <1>5 DEF Untouched
<1>10. BindingInv(binding'[r])
    BY <1>4, <1>5
<1>. QED
    BY <1>7, <1>8, <1>9, <1>10, RunsApart

(* The transport is closed; a run that had no failure passes or fails here. *)
LEMMA CloseKeeps ==
    ASSUME IInv, NEW r \in Runs, Close(r)
    PROVE  IInv'
<1>1. Types /\ RunInv(r) /\ BindingInv(binding[r])
    BY OfOneRun
<1>2. /\ UNCHANGED <<selection, authorized, digest, owned, disposals, cancelled, binding>>
      /\ pc[r] = "close"
    BY DEF Close, At
<1>3. PICK closed \in Closed :
        /\ transport' = [transport EXCEPT ![r] = closed]
        /\ Ends(r, IF outcome[r] # "none" THEN outcome[r]
                   ELSE IF closed = "closed" THEN "passed" ELSE "cleanup_failed")
    BY DEF Close
<1>4. /\ pc'[r] = "done" /\ transport'[r] = closed /\ closed # "open"
      /\ outcome[r] # "none" => outcome'[r] = outcome[r]
      /\ outcome[r] = "none" /\ outcome'[r] = "passed" => closed = "closed"
      /\ \A s \in Runs \ {r} : /\ pc'[s] = pc[s] /\ transport'[s] = transport[s]
                               /\ outcome'[s] = outcome[s]
    BY <1>1, <1>2, <1>3 DEF Types, Ends, Closed
<1>5. Types'
    BY <1>1, <1>2, <1>3 DEF Types, Ends, Closed
<1>6. RunInv(r)' /\ BindingInv(binding'[r])
    BY <1>1, <1>2, <1>4 DEF RunInv, Authorized, Expected, Bound, Over
<1>7. \A s \in Runs \ {r} : Untouched(s)
    BY <1>2, <1>4 DEF Untouched
<1>. QED
    BY <1>5, <1>6, <1>7, RunsApart

-----------------------------------------------------------------------------
(* The theorems *)

(* No run owns anything when it starts. *)
LEMMA InitEstablishes == Init => IInv
<1>. SUFFICES ASSUME Init PROVE IInv
    OBVIOUS
<1>1. Types
    BY DEF Init, BindingInit, Types
<1>2. ASSUME NEW r \in Runs
      PROVE  RunInv(r) /\ BindingInv(binding[r])
  <2>1. binding[r] = NoBinding
      BY DEF Init, BindingInit
  <2>2. /\ BindingInv(binding[r]) /\ ~binding[r].aborted /\ binding[r].lifecycle = "none"
      BY <2>1, NewBindings
  <2>3. /\ pc[r] = "prepare" /\ owned[r] = "nothing" /\ disposals[r] = 0
        /\ transport[r] = "unopened" /\ outcome[r] = "none"
      BY DEF Init
  <2>. QED
      BY <2>2, <2>3 DEF RunInv, Bound, Over
<1>. QED
    BY <1>1, <1>2 DEF IInv

(* Every step keeps the invariant. *)
LEMMA NextKeeps ==
    ASSUME IInv, [Next]_vars
    PROVE  IInv'
<1>1. ASSUME UNCHANGED <<runVars, binding>>
      PROVE  IInv'
    BY <1>1 DEF runVars, IInv, Types, RunInv, Authorized, Expected, Bound, BindingInv
<1>2. CASE OtherUse \/ UNCHANGED vars
    BY <1>1, <1>2 DEF OtherUse, vars
<1>. QED
    BY <1>2, PrepareKeeps, OpenKeeps, FirstReplyKeeps, CreateKeeps, BindScopeKeeps,
       ValidateAndEndKeep, ComputerKeeps, CancelKeeps, DisposeKeeps, CloseKeeps DEF Next

(* The inductive invariant of the negotiated runs. *)
LEMMA Invariance == Spec => []IInv
<1>1. IInv /\ [Next]_vars => IInv'
    BY NextKeeps
<1>. QED
    BY InitEstablishes, <1>1, PTL DEF Spec

(* A run that replays was authorized by its peer's reply for the digest it *)
(* asked for, and whatever a run made is released exactly once and close() *)
(* called on its transport, at whatever step it failed or was cancelled;   *)
(* it passes only if that close() returned (runNegotiatedReplay in         *)
(* src/negotiated.ts).                                                     *)
THEOREM RunsAreBoundAndReleased == Spec => []BoundAndReleased
<1>1. IInv => BoundAndReleased
    BY DEF IInv, RunInv, BoundAndReleased, At, Authorized, Allowed, Over
<1>. QED
    BY Invariance, <1>1, PTL

(* A handler or observer starts only when no other callback of its binding *)
(* runs, and never once the binding was disposed or the signal raised      *)
(* (bindAsyncDynamicDescriptor in src/dynamic-binding.ts).                 *)
THEOREM CallbacksTakeTurns == Spec => CallbacksNeverOverlap
<1>. DEFINE Turn(r) == (binding'[r].busy > binding[r].busy \/ binding'[r].seen > binding[r].seen)
                         => binding'[r].busy = 1 /\ ~binding[r].disposed /\ ~binding[r].aborted
<1>1. ASSUME IInv, Next, NEW r \in Runs
      PROVE  Turn(r)
  <2>1. Types /\ BindingInv(binding[r]) /\ binding[r].busy \in Nat /\ binding[r].seen \in Nat
      BY <1>1, OfOneRun DEF BindingInv, Bindings
  <2>2. (binding'[r].busy = binding[r].busy /\ binding'[r].seen = binding[r].seen) => Turn(r)
      BY <2>1
  <2>3. (binding'[r].busy = 0 /\ binding'[r].seen = 0) => Turn(r)
      BY <2>1
  <2>4. CASE OtherUse
      BY <2>2, <2>4 DEF OtherUse
  <2>5. ASSUME NEW s \in Runs,
               \/ Prepare(s) \/ Open(s) \/ FirstReply(s) \/ Validate(s) \/ ReplayEnds(s)
               \/ Close(s)
        PROVE  Turn(r)
      BY <2>2, <2>5 DEF Prepare, Open, FirstReply, Validate, ReplayEnds, Close
  <2>6. ASSUME NEW s \in Runs, Create(s) \/ BindScope(s)
        PROVE  Turn(r)
    <3>1. \/ UNCHANGED binding
          \/ binding' = [binding EXCEPT ![s] = FreshBinding(FALSE)]
          \/ binding' = [binding EXCEPT ![s] = FreshBinding(selection[s].async)]
        BY <2>6 DEF Create, BindScope
    <3>2. selection[s].async \in BOOLEAN
        BY <2>1, SelectionAssumption DEF Types
    <3>3. binding'[r] = binding[r] \/ (binding'[r].busy = 0 /\ binding'[r].seen = 0)
      <4>1. \/ binding'[r] = binding[r] \/ binding'[r] = FreshBinding(FALSE)
            \/ binding'[r] = FreshBinding(selection[s].async)
          BY <2>1, <3>1 DEF Types
      <4>. QED
          BY <3>2, <4>1, NewBindings
    <3>. QED
        BY <2>2, <2>3, <3>3
  <2>7. ASSUME NEW s \in Runs, Cancel(s) \/ Dispose(s)
        PROVE  Turn(r)
    <3>1. \/ binding' = [binding EXCEPT ![s] = Aborted(binding[s])]
          \/ binding' = [binding EXCEPT ![s] = Disposed(binding[s])]
          \/ binding' = [binding EXCEPT ![s] = binding[s]]
        BY <2>7 DEF Cancel, Dispose
    <3>2. \/ binding'[r] = binding[r] \/ binding'[r] = Aborted(binding[r])
          \/ binding'[r] = Disposed(binding[r])
        BY <2>1, <3>1 DEF Types
    <3>. QED
        BY <2>1, <2>2, <3>2, StopsKeep
  <2>8. ASSUME NEW s \in Runs, ReplayComputes(s) \/ ComputerContinues(s)
        PROVE  Turn(r)
    <3>1. PICK c : binding' = [binding EXCEPT ![s] = c] /\ Moves(binding[s], c)
        BY <1>1, <2>8, ComputerMoves
    <3>2. CASE r = s
      <4>1. binding'[r] = c
          BY <2>1, <3>1, <3>2 DEF Types
      <4>. QED
          BY <3>1, <3>2, <4>1 DEF Moves
    <3>3. CASE r # s
      <4>1. binding'[r] = binding[r]
          BY <2>1, <3>1, <3>3 DEF Types
      <4>. QED
          BY <2>2, <4>1
    <3>. QED
        BY <3>2, <3>3
  <2>. QED
      BY <1>1, <2>4, <2>5, <2>6, <2>7, <2>8 DEF Next
<1>. HIDE DEF Turn
<1>2. IInv /\ [Next]_vars => [\A r \in Runs : Turn(r)]_binding
    BY <1>1 DEF vars
<1>3. CallbacksNeverOverlap <=> [][\A r \in Runs : Turn(r)]_binding
    BY DEF CallbacksNeverOverlap, Turn
<1>. QED
    BY Invariance, <1>2, <1>3, PTL DEF Spec

-----------------------------------------------------------------------------
(* The descriptor cache, which the runs share *)

(* Any set of naturals with a member has a least one. *)
LEMMA LeastOf ==
    ASSUME NEW T, T \subseteq Nat, T # {}
    PROVE  \E m \in T : \A k \in T : m <= k
<1>1. PICK m \in T : \A k \in T : ~(<<k, m>> \in OpToRel(<, Nat))
    BY WFMin, NatLessThanWellFounded
<1>2. \A k \in T : ~(k < m)
    BY <1>1 DEF OpToRel
<1>. QED
    BY <1>2

(* A byte belongs to the entries when it is one of some entry's. *)
LEMMA ByteOf ==
    ASSUME NEW s \in Seq(Digests), NEW p
    PROVE  p \in BytesOf(s) <=> \E i \in 1 .. Len(s) : p \in {s[i]} \X (1 .. Size[s[i]])
    BY LenProperties DEF BytesOf

(* The entries weigh a finite number of bytes. *)
LEMMA BytesFinite ==
    ASSUME NEW s \in Seq(Digests)
    PROVE  IsFiniteSet(BytesOf(s)) /\ SizeOf(s) \in Nat
<1>. DEFINE f == [i \in 1 .. Len(s) |-> {s[i]} \X (1 .. Size[s[i]])]
            T == {{s[i]} \X (1 .. Size[s[i]]) : i \in 1 .. Len(s)}
<1>1. Len(s) \in Nat /\ DOMAIN s = 1 .. Len(s) /\ \A i \in 1 .. Len(s) : s[i] \in Digests
    BY LenProperties, ElementOfSeq
<1>2. IsFiniteSet(1 .. Len(s))
    BY <1>1, FS_Interval
<1>3. f \in Surjection(1 .. Len(s), T)
    BY DEF Surjection
<1>. HIDE DEF f
<1>4. IsFiniteSet(T)
    BY <1>2, <1>3, FS_Surjection
<1>5. ASSUME NEW i \in 1 .. Len(s)
      PROVE  IsFiniteSet({s[i]} \X (1 .. Size[s[i]]))
  <2>1. Size[s[i]] \in Nat
      BY <1>1, CacheAssumption
  <2>2. IsFiniteSet(1 .. Size[s[i]])
      BY <2>1, FS_Interval
  <2>3. IsFiniteSet({s[i]})
      BY FS_Singleton
  <2>. QED
      BY <2>2, <2>3, FS_Product
<1>6. \A U \in T : IsFiniteSet(U)
    BY <1>5
<1>. HIDE DEF T
<1>7. IsFiniteSet(UNION T)
    BY <1>4, <1>6, FS_UNION
<1>8. BytesOf(s) = UNION T
    BY <1>1 DEF BytesOf, T
<1>. QED
    BY <1>7, <1>8, FS_CardinalityType DEF SizeOf

(* An empty cache weighs nothing. *)
LEMMA EmptyWeighsNothing ==
    ASSUME NEW s \in Seq(Digests), Len(s) = 0
    PROVE  SizeOf(s) = 0
<1>1. ASSUME NEW p, p \in BytesOf(s)
      PROVE  FALSE
  <2>1. PICK i \in 1 .. Len(s) : p \in {s[i]} \X (1 .. Size[s[i]])
      BY <1>1, ByteOf
  <2>. QED
      BY <2>1
<1>2. BytesOf(s) = {}
    BY <1>1
<1>. QED
    BY <1>2, FS_EmptySet DEF SizeOf

(* Entries of the same digests weigh the same, in whatever order. *)
LEMMA SameDigests ==
    ASSUME NEW s \in Seq(Digests), NEW t \in Seq(Digests),
           \A d \in Digests : (\E i \in 1 .. Len(s) : s[i] = d) <=> (\E i \in 1 .. Len(t) : t[i] = d)
    PROVE  SizeOf(s) = SizeOf(t)
<1>1. /\ \A i \in 1 .. Len(s) : s[i] \in Digests
      /\ \A i \in 1 .. Len(t) : t[i] \in Digests
    BY ElementOfSeq
<1>2. ASSUME NEW p
      PROVE  p \in BytesOf(s) <=> p \in BytesOf(t)
  <2>1. p \in BytesOf(s) => p \in BytesOf(t)
    <3>. SUFFICES ASSUME p \in BytesOf(s) PROVE p \in BytesOf(t)
        OBVIOUS
    <3>1. PICK i \in 1 .. Len(s) : p \in {s[i]} \X (1 .. Size[s[i]])
        BY ByteOf
    <3>2. PICK j \in 1 .. Len(t) : t[j] = s[i]
        BY <1>1
    <3>3. p \in {t[j]} \X (1 .. Size[t[j]])
        BY <3>1, <3>2
    <3>. QED
        BY <3>3, ByteOf
  <2>2. p \in BytesOf(t) => p \in BytesOf(s)
    <3>. SUFFICES ASSUME p \in BytesOf(t) PROVE p \in BytesOf(s)
        OBVIOUS
    <3>1. PICK i \in 1 .. Len(t) : p \in {t[i]} \X (1 .. Size[t[i]])
        BY ByteOf
    <3>2. PICK j \in 1 .. Len(s) : s[j] = t[i]
        BY <1>1
    <3>3. p \in {s[j]} \X (1 .. Size[s[j]])
        BY <3>1, <3>2
    <3>. QED
        BY <3>3, ByteOf
  <2>. QED
      BY <2>1, <2>2
<1>3. BytesOf(s) = BytesOf(t)
    BY <1>2
<1>. QED
    BY <1>3 DEF SizeOf

(* Entries that share no digest weigh the sum of what each group weighs. *)
LEMMA WeightsAdd ==
    ASSUME NEW s \in Seq(Digests), NEW t \in Seq(Digests), NEW u \in Seq(Digests),
           \A i \in 1 .. Len(s), j \in 1 .. Len(t) : s[i] # t[j],
           \A d \in Digests : (\E i \in 1 .. Len(u) : u[i] = d)
               <=> (\E i \in 1 .. Len(s) : s[i] = d) \/ (\E i \in 1 .. Len(t) : t[i] = d)
    PROVE  SizeOf(u) = SizeOf(s) + SizeOf(t)
<1>1. \A q \in {s, t, u} : \A i \in 1 .. Len(q) : q[i] \in Digests
    BY ElementOfSeq
<1>2. ASSUME NEW p, NEW q \in {s, t}, p \in BytesOf(q)
      PROVE  p \in BytesOf(u)
  <2>1. PICK i \in 1 .. Len(q) : p \in {q[i]} \X (1 .. Size[q[i]])
      BY <1>2, ByteOf
  <2>2. PICK j \in 1 .. Len(u) : u[j] = q[i]
      BY <1>1
  <2>3. p \in {u[j]} \X (1 .. Size[u[j]])
      BY <2>1, <2>2
  <2>. QED
      BY <2>3, ByteOf
<1>3. ASSUME NEW p \in BytesOf(u)
      PROVE  p \in BytesOf(s) \cup BytesOf(t)
  <2>1. PICK i \in 1 .. Len(u) : p \in {u[i]} \X (1 .. Size[u[i]])
      BY ByteOf
  <2>2. PICK q \in {s, t} : \E j \in 1 .. Len(q) : q[j] = u[i]
      BY <1>1
  <2>3. PICK j \in 1 .. Len(q) : q[j] = u[i]
      BY <2>2
  <2>4. p \in {q[j]} \X (1 .. Size[q[j]])
      BY <2>1, <2>3
  <2>5. p \in BytesOf(q)
      BY <2>4, ByteOf
  <2>. QED
      BY <2>5
<1>4. BytesOf(u) = BytesOf(s) \cup BytesOf(t)
    BY <1>2, <1>3
<1>5. ASSUME NEW p, p \in BytesOf(s), p \in BytesOf(t)
      PROVE  FALSE
  <2>1. PICK i \in 1 .. Len(s) : p \in {s[i]} \X (1 .. Size[s[i]])
      BY <1>5, ByteOf
  <2>2. PICK j \in 1 .. Len(t) : p \in {t[j]} \X (1 .. Size[t[j]])
      BY <1>5, ByteOf
  <2>. QED
      BY <2>1, <2>2
<1>6. BytesOf(s) \cap BytesOf(t) = {}
    BY <1>5
<1>7. Cardinality(BytesOf(s) \cap BytesOf(t)) = 0
    BY <1>6, FS_EmptySet
<1>8. /\ IsFiniteSet(BytesOf(s)) /\ IsFiniteSet(BytesOf(t))
      /\ Cardinality(BytesOf(s)) \in Nat /\ Cardinality(BytesOf(t)) \in Nat
    BY BytesFinite DEF SizeOf
<1>9. Cardinality(BytesOf(s) \cup BytesOf(t))
         = Cardinality(BytesOf(s)) + Cardinality(BytesOf(t)) - Cardinality(BytesOf(s) \cap BytesOf(t))
    BY <1>8, FS_Union
<1>. QED
    BY <1>4, <1>7, <1>8, <1>9 DEF SizeOf

(* No digest is stored twice. *)
Distinct(s) == \A i, j \in 1 .. Len(s) : s[i] = s[j] => i = j

(* An entry becomes the newest: the same digests, in another order. *)
LEMMA TouchedKeeps ==
    ASSUME NEW s \in Seq(Digests), Distinct(s), NEW d \in Digests, NEW at \in 1 .. Len(s), s[at] = d
    PROVE  LET t == Append(RemoveAt(s, at), d)
           IN  t \in Seq(Digests) /\ Distinct(t) /\ Len(t) = Len(s) /\ SizeOf(t) = SizeOf(s)
<1>. DEFINE a == SubSeq(s, 1, at - 1)
            b == SubSeq(s, at + 1, Len(s))
            t == Append(a \o b, d)
<1>1. Len(s) \in Nat /\ at \in Nat /\ \A i \in 1 .. Len(s) : s[i] \in Digests
    BY LenProperties, ElementOfSeq
<1>2. /\ a \in Seq(Digests) /\ Len(a) = at - 1 /\ \A i \in 1 .. at - 1 : a[i] = s[i]
  <2>1. \A i \in 1 .. at - 1 : s[i] \in Digests
      BY <1>1
  <2>2. /\ a \in Seq(Digests) /\ Len(a) = IF 1 <= at - 1 THEN (at - 1) - 1 + 1 ELSE 0
        /\ \A i \in 1 .. (at - 1) - 1 + 1 : a[i] = s[1 + i - 1]
      BY <1>1, <2>1, SubSeqProperties
  <2>. QED
      BY <1>1, <2>2
<1>3. /\ b \in Seq(Digests) /\ Len(b) = Len(s) - at
      /\ \A i \in 1 .. Len(s) - at : b[i] = s[at + i]
  <2>1. \A i \in at + 1 .. Len(s) : s[i] \in Digests
      BY <1>1
  <2>2. /\ b \in Seq(Digests) /\ Len(b) = IF at + 1 <= Len(s) THEN Len(s) - (at + 1) + 1 ELSE 0
        /\ \A i \in 1 .. Len(s) - (at + 1) + 1 : b[i] = s[(at + 1) + i - 1]
      BY <1>1, <2>1, SubSeqProperties
  <2>. QED
      BY <1>1, <2>2
<1>. HIDE DEF a, b
<1>4. /\ a \o b \in Seq(Digests) /\ Len(a \o b) = Len(s) - 1
      /\ \A i \in 1 .. at - 1 : (a \o b)[i] = s[i]
      /\ \A i \in at .. Len(s) - 1 : (a \o b)[i] = s[i + 1]
  <2>1. /\ a \o b \in Seq(Digests) /\ Len(a \o b) = Len(a) + Len(b)
        /\ \A i \in 1 .. Len(a) + Len(b) : (a \o b)[i] = IF i <= Len(a) THEN a[i] ELSE b[i - Len(a)]
      BY <1>2, <1>3, ConcatProperties
  <2>. QED
      BY <1>1, <1>2, <1>3, <2>1
<1>5. /\ t \in Seq(Digests) /\ Len(t) = Len(s) /\ t[Len(s)] = d
      /\ \A i \in 1 .. at - 1 : t[i] = s[i]
      /\ \A i \in at .. Len(s) - 1 : t[i] = s[i + 1]
  <2>1. /\ t \in Seq(Digests) /\ Len(t) = Len(a \o b) + 1 /\ t[Len(a \o b) + 1] = d
        /\ \A i \in 1 .. Len(a \o b) : t[i] = (a \o b)[i]
      BY <1>4, AppendProperties
  <2>. QED
      BY <1>1, <1>4, <2>1
<1>6. t = Append(RemoveAt(s, at), d)
    BY DEF RemoveAt, a, b
<1>. HIDE DEF t
<1>7. Distinct(t)
  <2>. SUFFICES ASSUME NEW i \in 1 .. Len(t), NEW j \in 1 .. Len(t), t[i] = t[j]
                PROVE  i = j
      BY DEF Distinct
  <2>. DEFINE from(k) == IF k = Len(s) THEN at ELSE IF k < at THEN k ELSE k + 1
  <2>1. from(i) \in 1 .. Len(s) /\ t[i] = s[from(i)] /\ from(j) \in 1 .. Len(s) /\ t[j] = s[from(j)]
      BY <1>1, <1>5
  <2>2. from(i) = from(j)
      BY <2>1 DEF Distinct
  <2>. QED
      BY <1>1, <1>5, <2>2
<1>8. ASSUME NEW e \in Digests
      PROVE  (\E i \in 1 .. Len(s) : s[i] = e) <=> (\E i \in 1 .. Len(t) : t[i] = e)
  <2>1. ASSUME NEW i \in 1 .. Len(s), s[i] = e
        PROVE  \E j \in 1 .. Len(t) : t[j] = e
    <3>1. CASE i < at
        BY <1>1, <1>5, <2>1, <3>1
    <3>2. CASE i = at
        BY <1>1, <1>5, <2>1, <3>2
    <3>3. CASE i > at
      <4>1. i - 1 \in at .. Len(s) - 1 /\ (i - 1) + 1 = i /\ i - 1 \in 1 .. Len(t)
          BY <1>1, <1>5, <3>3
      <4>. QED
          BY <1>5, <2>1, <4>1
    <3>. QED
        BY <1>1, <3>1, <3>2, <3>3
  <2>2. ASSUME NEW i \in 1 .. Len(t), t[i] = e
        PROVE  \E j \in 1 .. Len(s) : s[j] = e
    <3>1. CASE i < at
        BY <1>1, <1>5, <2>2, <3>1
    <3>2. CASE i >= at /\ i < Len(s)
      <4>1. i + 1 \in 1 .. Len(s) /\ t[i] = s[i + 1]
          BY <1>1, <1>5, <3>2
      <4>. QED
          BY <2>2, <4>1
    <3>3. CASE i = Len(s)
        BY <1>1, <1>5, <2>2, <3>3
    <3>. QED
        BY <1>1, <1>5, <3>1, <3>2, <3>3
  <2>. QED
      BY <2>1, <2>2
<1>9. SizeOf(t) = SizeOf(s)
    BY <1>5, <1>8, SameDigests
<1>. QED
    BY <1>5, <1>6, <1>7, <1>9

(* A new digest is stored: the entries weigh its bytes more. *)
LEMMA StoredWeighs ==
    ASSUME NEW s \in Seq(Digests), Distinct(s), NEW d \in Digests, \A i \in 1 .. Len(s) : s[i] # d
    PROVE  /\ Append(s, d) \in Seq(Digests) /\ Distinct(Append(s, d))
           /\ SizeOf(Append(s, d)) = SizeOf(s) + Size[d]
<1>. DEFINE t == Append(s, d)
            one == <<d>>
<1>1. Len(s) \in Nat
    BY LenProperties
<1>2. /\ t \in Seq(Digests) /\ Len(t) = Len(s) + 1 /\ t[Len(s) + 1] = d
      /\ \A i \in 1 .. Len(s) : t[i] = s[i]
    BY AppendProperties
<1>3. one \in Seq(Digests) /\ Len(one) = 1 /\ one[1] = d
    OBVIOUS
<1>. HIDE DEF t, one
<1>4. Distinct(t)
    BY <1>1, <1>2 DEF Distinct
<1>5. SizeOf(one) = Size[d]
  <2>1. Size[d] \in Nat
      BY CacheAssumption
  <2>2. \A p : p \in BytesOf(one) <=> p \in {d} \X (1 .. Size[d])
      BY <1>3, ByteOf
  <2>3. BytesOf(one) = {d} \X (1 .. Size[d])
      BY <2>2
  <2>4. IsFiniteSet(1 .. Size[d])
      BY <2>1, FS_Interval
  <2>5. Cardinality(1 .. Size[d]) = Size[d]
      BY <2>1, FS_Interval
  <2>6. IsFiniteSet({d}) /\ Cardinality({d}) = 1
      BY FS_Singleton
  <2>7. Cardinality({d} \X (1 .. Size[d])) = Cardinality({d}) * Cardinality(1 .. Size[d])
      BY <2>4, <2>6, FS_Product
  <2>. QED
      BY <2>1, <2>3, <2>5, <2>6, <2>7 DEF SizeOf
<1>6. \A i \in 1 .. Len(s), j \in 1 .. Len(one) : s[i] # one[j]
    BY <1>3
<1>7. \A e \in Digests : (\E i \in 1 .. Len(t) : t[i] = e)
          <=> (\E i \in 1 .. Len(s) : s[i] = e) \/ (\E i \in 1 .. Len(one) : one[i] = e)
    BY <1>1, <1>2, <1>3
<1>8. SizeOf(t) = SizeOf(s) + SizeOf(one)
    BY <1>2, <1>3, <1>6, <1>7, WeightsAdd
<1>9. SizeOf(t) = SizeOf(s) + Size[d]
    BY <1>5, <1>8
<1>. QED
    BY <1>2, <1>4, <1>9 DEF t

(* Dropping the oldest entries and their weight leaves the weight of the  *)
(* others.                                                                *)
LEMMA DroppedWeigh ==
    ASSUME NEW s \in Seq(Digests), Distinct(s), NEW n \in 0 .. Len(s)
    PROVE  LET a == SubSeq(s, 1, n)
               b == SubSeq(s, n + 1, Len(s))
           IN  /\ b \in Seq(Digests) /\ Distinct(b) /\ Len(b) = Len(s) - n
               /\ SizeOf(s) - SizeOf(a) = SizeOf(b)
<1>. DEFINE a == SubSeq(s, 1, n)
            b == SubSeq(s, n + 1, Len(s))
<1>1. Len(s) \in Nat /\ n \in Nat /\ n <= Len(s) /\ \A i \in 1 .. Len(s) : s[i] \in Digests
    BY LenProperties, ElementOfSeq
<1>2. /\ a \in Seq(Digests) /\ Len(a) = n /\ \A i \in 1 .. n : a[i] = s[i]
  <2>1. \A i \in 1 .. n : s[i] \in Digests
      BY <1>1
  <2>2. /\ a \in Seq(Digests) /\ Len(a) = IF 1 <= n THEN n - 1 + 1 ELSE 0
        /\ \A i \in 1 .. n - 1 + 1 : a[i] = s[1 + i - 1]
      BY <1>1, <2>1, SubSeqProperties
  <2>. QED
      BY <1>1, <2>2
<1>3. /\ b \in Seq(Digests) /\ Len(b) = Len(s) - n /\ \A i \in 1 .. Len(s) - n : b[i] = s[n + i]
  <2>1. \A i \in n + 1 .. Len(s) : s[i] \in Digests
      BY <1>1
  <2>2. /\ b \in Seq(Digests) /\ Len(b) = IF n + 1 <= Len(s) THEN Len(s) - (n + 1) + 1 ELSE 0
        /\ \A i \in 1 .. Len(s) - (n + 1) + 1 : b[i] = s[(n + 1) + i - 1]
      BY <1>1, <2>1, SubSeqProperties
  <2>. QED
      BY <1>1, <2>2
<1>. HIDE DEF a, b
<1>4. Distinct(b)
  <2>. SUFFICES ASSUME NEW i \in 1 .. Len(b), NEW j \in 1 .. Len(b), b[i] = b[j]
                PROVE  i = j
      BY DEF Distinct
  <2>1. n + i \in 1 .. Len(s) /\ n + j \in 1 .. Len(s) /\ s[n + i] = s[n + j]
      BY <1>1, <1>3
  <2>2. n + i = n + j
      BY <2>1 DEF Distinct
  <2>. QED
      BY <1>1, <1>3, <2>2
<1>5. \A i \in 1 .. Len(a), j \in 1 .. Len(b) : a[i] # b[j]
  <2>. SUFFICES ASSUME NEW i \in 1 .. Len(a), NEW j \in 1 .. Len(b), a[i] = b[j]
                PROVE  FALSE
      OBVIOUS
  <2>1. i \in 1 .. Len(s) /\ n + j \in 1 .. Len(s) /\ s[i] = s[n + j] /\ i # n + j
      BY <1>1, <1>2, <1>3
  <2>. QED
      BY <2>1 DEF Distinct
<1>6. ASSUME NEW e \in Digests
      PROVE  (\E i \in 1 .. Len(s) : s[i] = e)
                <=> (\E i \in 1 .. Len(a) : a[i] = e) \/ (\E i \in 1 .. Len(b) : b[i] = e)
  <2>1. ASSUME NEW i \in 1 .. Len(s), s[i] = e
        PROVE  (\E j \in 1 .. Len(a) : a[j] = e) \/ (\E j \in 1 .. Len(b) : b[j] = e)
    <3>1. CASE i <= n
        BY <1>1, <1>2, <2>1, <3>1
    <3>2. CASE i > n
      <4>1. i - n \in 1 .. Len(b) /\ n + (i - n) = i
          BY <1>1, <1>3, <3>2
      <4>. QED
          BY <1>3, <2>1, <4>1
    <3>. QED
        BY <1>1, <3>1, <3>2
  <2>2. ASSUME NEW i \in 1 .. Len(a), a[i] = e
        PROVE  \E j \in 1 .. Len(s) : s[j] = e
      BY <1>1, <1>2, <2>2
  <2>3. ASSUME NEW i \in 1 .. Len(b), b[i] = e
        PROVE  \E j \in 1 .. Len(s) : s[j] = e
    <3>1. n + i \in 1 .. Len(s) /\ s[n + i] = e
        BY <1>1, <1>3, <2>3
    <3>. QED
        BY <3>1
  <2>. QED
      BY <2>1, <2>2, <2>3
<1>7. SizeOf(s) = SizeOf(a) + SizeOf(b)
    BY <1>2, <1>3, <1>5, <1>6, WeightsAdd
<1>8. SizeOf(a) \in Nat /\ SizeOf(b) \in Nat
    BY <1>2, <1>3, BytesFinite
<1>. QED
    BY <1>3, <1>4, <1>7, <1>8 DEF a, b

(* What the cache holds between the steps *)
CacheInv(c) ==
    /\ c = [entries |-> c.entries, storedBytes |-> c.storedBytes]
    /\ c.entries \in Seq(Digests) /\ Distinct(c.entries)
    /\ c.storedBytes = SizeOf(c.entries)
    /\ Len(c.entries) <= MaxEntries /\ c.storedBytes <= MaxBytes

(* Eviction ends: there is a fewest number of entries to drop, and what is *)
(* left is within both quotas, counted right.                              *)
LEMMA EvictionEnds ==
    ASSUME NEW c, c.entries \in Seq(Digests), Distinct(c.entries), c.storedBytes = SizeOf(c.entries)
    PROVE  CacheInv(evictToQuota(c))
<1>. DEFINE s == c.entries
            Left(n) == [entries |-> SubSeq(s, n + 1, Len(s)),
                        storedBytes |-> c.storedBytes - SizeOf(SubSeq(s, 1, n))]
            Within(n) == Len(Left(n).entries) <= MaxEntries /\ Left(n).storedBytes <= MaxBytes
            Fits == {n \in 0 .. Len(s) : Within(n)}
            Fewest(n) == Within(n) /\ \A m \in 0 .. n - 1 : ~Within(m)
            least == CHOOSE n \in 0 .. Len(s) : Fewest(n)
<1>1. Len(s) \in Nat /\ MaxEntries \in Nat /\ MaxBytes \in Nat
    BY LenProperties, CacheAssumption
<1>2. ASSUME NEW n \in 0 .. Len(s)
      PROVE  /\ Left(n).entries \in Seq(Digests) /\ Distinct(Left(n).entries)
             /\ Len(Left(n).entries) = Len(s) - n
             /\ Left(n).storedBytes = SizeOf(Left(n).entries)
    BY DroppedWeigh
<1>3. Len(s) \in Fits
  <2>1. Len(s) \in 0 .. Len(s)
      BY <1>1
  <2>2. Left(Len(s)).entries \in Seq(Digests) /\ Len(Left(Len(s)).entries) = 0
      BY <1>1, <1>2, <2>1
  <2>3. SizeOf(Left(Len(s)).entries) = 0
      BY <2>2, EmptyWeighsNothing
  <2>4. Left(Len(s)).storedBytes = 0
      BY <1>2, <2>1, <2>3
  <2>. QED
      BY <1>1, <2>1, <2>2, <2>4
<1>4. PICK n \in Fits : \A k \in Fits : n <= k
  <2>. HIDE DEF Within
  <2>1. Fits \subseteq Nat /\ Fits # {}
      BY <1>1, <1>3
  <2>. QED
      BY <2>1, LeastOf
<1>5. n \in 0 .. Len(s) /\ Fewest(n)
  <2>. HIDE DEF Within
  <2>1. n \in 0 .. Len(s) /\ Within(n)
      OBVIOUS
  <2>2. \A m \in 0 .. n - 1 : m \in 0 .. Len(s) /\ ~(n <= m)
      BY <1>1, <2>1
  <2>. QED
      BY <1>4, <2>1, <2>2
<1>6. least \in 0 .. Len(s) /\ Fewest(least)
  <2>. HIDE DEF Fewest
  <2>. QED
      BY <1>5
<1>7. evictToQuota(c) = Left(least)
    BY DEF evictToQuota
<1>8. Within(least)
    BY <1>6
<1>. HIDE DEF least
<1>. QED
    BY <1>2, <1>6, <1>7, <1>8 DEF CacheInv

(* Neither a lookup nor a store leaves the cache over a quota. *)
LEMMA UseKeepsCache ==
    ASSUME CacheInv(cache), NEW d \in Digests, put(d) \/ get(d)
    PROVE  CacheInv(cache')
<1>. DEFINE s == cache.entries
<1>1. /\ s \in Seq(Digests) /\ Distinct(s) /\ DOMAIN s = 1 .. Len(s)
      /\ cache.storedBytes = SizeOf(s)
    BY LenProperties DEF CacheInv
<1>2. CASE Cached(d)
  <2>. DEFINE at == CHOOSE i \in DOMAIN cache.entries : cache.entries[i] = d
              t == Append(RemoveAt(s, at), d)
  <2>1. at \in 1 .. Len(s) /\ s[at] = d
      BY <1>1, <1>2 DEF Cached
  <2>2. cache' = [cache EXCEPT !.entries = t]
      BY <1>2 DEF put, get, Touched
  <2>. HIDE DEF at
  <2>3. t \in Seq(Digests) /\ Distinct(t) /\ Len(t) = Len(s) /\ SizeOf(t) = SizeOf(s)
      BY <1>1, <2>1, TouchedKeeps
  <2>. HIDE DEF t
  <2>4. cache' = [entries |-> t, storedBytes |-> cache.storedBytes]
      BY <2>2 DEF CacheInv
  <2>. QED
      BY <2>3, <2>4 DEF CacheInv
<1>3. CASE ~Cached(d) /\ put(d)
  <2>. DEFINE c == [entries |-> Append(s, d), storedBytes |-> cache.storedBytes + Size[d]]
  <2>1. \A i \in 1 .. Len(s) : s[i] # d
      BY <1>3 DEF Cached
  <2>2. /\ c.entries \in Seq(Digests) /\ Distinct(c.entries) /\ c.storedBytes = SizeOf(c.entries)
      BY <1>1, <2>1, StoredWeighs
  <2>3. cache' = evictToQuota(c)
      BY <1>3 DEF put
  <2>. HIDE DEF c
  <2>. QED
      BY <2>2, <2>3, EvictionEnds
<1>4. CASE ~Cached(d) /\ get(d)
    BY <1>4 DEF get
<1>. QED
    BY <1>2, <1>3, <1>4

(* The cache is empty at first. *)
LEMMA CacheStartsEmpty == Init => CacheInv(cache)
<1>. SUFFICES ASSUME Init PROVE CacheInv(cache)
    OBVIOUS
<1>1. cache = [entries |-> <<>>, storedBytes |-> 0]
    BY DEF Init, CacheInit
<1>. DEFINE e == cache.entries
<1>2. e \in Seq(Digests) /\ Len(e) = 0
    BY <1>1, EmptySeq
<1>. HIDE DEF e
<1>3. SizeOf(e) = 0
    BY <1>2, EmptyWeighsNothing
<1>4. MaxEntries \in Nat /\ MaxBytes \in Nat
    BY CacheAssumption
<1>5. cache.storedBytes = 0 /\ cache = [entries |-> cache.entries, storedBytes |-> cache.storedBytes]
    BY <1>1
<1>. QED
    BY <1>2, <1>3, <1>4, <1>5 DEF CacheInv, Distinct, e

(* Every step of every run, and of the others that use it, keeps the cache. *)
LEMMA NextKeepsCache ==
    ASSUME IInv, CacheInv(cache), [Next]_vars
    PROVE  CacheInv(cache')
<1>1. CASE UNCHANGED cache
    BY <1>1
<1>2. CASE OtherUse
    BY <1>2, UseKeepsCache DEF OtherUse
<1>3. ASSUME NEW r \in Runs
      PROVE  Expected(r) \in Digests
    BY SelectionAssumption DEF IInv, Types, Expected
<1>4. ASSUME NEW r \in Runs, Prepare(r)
      PROVE  CacheInv(cache')
    BY <1>1, <1>3, <1>4, UseKeepsCache DEF Prepare
<1>5. ASSUME NEW r \in Runs, FirstReply(r)
      PROVE  CacheInv(cache')
  <2>1. ASSUME NEW reply \in Replies, CacheAfter(r, reply)
        PROVE  CacheInv(cache')
    <3>1. reply.digest \in Digests
        BY DEF Replies
    <3>2. put(reply.digest) \/ get(reply.digest) \/ UNCHANGED cache
        BY <2>1 DEF CacheAfter
    <3>. QED
        BY <1>1, <3>1, <3>2, UseKeepsCache
  <2>. QED
      BY <1>1, <1>5, <2>1 DEF FirstReply
<1>6. ASSUME NEW r \in Runs,
             \/ Open(r) \/ Create(r) \/ BindScope(r) \/ Validate(r) \/ ReplayComputes(r)
             \/ ComputerContinues(r) \/ ReplayEnds(r) \/ Cancel(r) \/ Dispose(r) \/ Close(r)
      PROVE  UNCHANGED cache
    BY <1>6 DEF Open, Create, BindScope, Validate, ReplayComputes, ComputerContinues,
                ReplayEnds, Cancel, Dispose, Close
<1>7. CASE UNCHANGED vars
    BY <1>1, <1>7 DEF vars
<1>. QED
    BY <1>1, <1>2, <1>4, <1>5, <1>6, <1>7 DEF Next

(* The byte counter of the shared descriptor cache is what its entries     *)
(* weigh, both quotas hold and no digest is stored twice, for any number   *)
(* of runs, any quotas and any sizes (DescriptorCache.put, get and         *)
(* evictToQuota in src/descriptor-cache.ts).                               *)
THEOREM CacheStaysWithinQuota == Spec => []CacheWithinQuota
<1>1. Init => CacheInv(cache)
    BY CacheStartsEmpty
<1>2. IInv /\ CacheInv(cache) /\ [Next]_vars => CacheInv(cache)'
    BY NextKeepsCache
<1>3. CacheInv(cache) => CacheWithinQuota
  <2>. SUFFICES ASSUME CacheInv(cache) PROVE CacheWithinQuota
      OBVIOUS
  <2>1. DOMAIN cache.entries = 1 .. Len(cache.entries)
      BY LenProperties DEF CacheInv
  <2>. QED
      BY <2>1 DEF CacheInv, CacheWithinQuota, IsInjective, Distinct
<1>. QED
    BY Invariance, <1>1, <1>2, <1>3, PTL DEF Spec
=============================================================================
