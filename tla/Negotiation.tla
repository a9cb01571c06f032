---------------------------- MODULE Negotiation ----------------------------
(***************************************************************************)
(* runNegotiatedReplay of src/negotiated.ts, for several runs that share a *)
(* descriptor cache: prepare the request, open the transport, register,    *)
(* authorize the first reply, create the binding it authorizes, replay,    *)
(* and release binding, scope and transport.                               *)
(***************************************************************************)
EXTENDS DescriptorCache, DynamicBinding

CONSTANTS
    Selections,       \* what a run may be given
    Registrations     \* the keys of the compiled adapter registry
ASSUME SelectionAssumption ==
    \A s \in Selections : s.key.digest \in Digests /\ s.async \in BOOLEAN

VARIABLES
    selection, pc,
    validator,        \* ifNoneMatch was sent
    authorized,       \* what authorizeReply returned
    digest,           \* of the binding's or the descriptor's interface
    owned,            \* what the run must release: "nothing", "scope", "binding"
    disposals,        \* history: how often it was released
    transport,        \* "unopened", "open", then "closed" or, when close()
                      \* threw, "unconfirmed"
    cancelled,        \* the replay control's signal
    outcome           \* "none", then "passed", "failed" or "cleanup_failed"

runVars == <<selection, pc, validator, authorized, digest, owned, disposals, transport,
             cancelled, outcome>>
vars == <<runVars, cache, binding>>

-----------------------------------------------------------------------------
(* Selecting an adapter, before anything is opened *)

Profiles == {"mirrorecma-v1", "mirrorecma-async-v1", "mirrorecma-async-v2"}
ContractOf(profile) ==
    IF profile = "mirrorecma-v1" THEN "mirrors.state-computer/v1"
    ELSE "mirrors.async-state-computer/v1"

(* selectedKey admits only the contract of a known target profile. *)
selectedKey(key) == key.target \in Profiles /\ key.contract = ContractOf(key.target)

(* ExactAdapterRegistry.resolve: a factory or the reason there is none *)
resolve(key) ==
    LET Entries(Test(_)) == {i \in 1 .. Len(Registrations) : Test(Registrations[i])}
        exact == Entries(LAMBDA k : k = key)
        sameIdentity == Entries(LAMBDA k : k.digest = key.digest /\ k.adapter = key.adapter)
        sameTarget == {i \in sameIdentity : Registrations[i].target = key.target}
    IN  CASE Cardinality(exact) > 1 -> "adapter_ambiguous"
          [] Cardinality(exact) = 1 -> "factory"
          [] exact = {} /\ sameIdentity # {} /\ sameTarget = {} -> "target_profile_mismatch"
          [] exact = {} /\ \E i \in sameTarget : Registrations[i].contract # key.contract
               -> "state_computer_contract_mismatch"
          [] OTHER -> "adapter_not_registered"

Expected(r) == selection[r].key.digest

-----------------------------------------------------------------------------
(* What the peer may reply: the status, and the digest it names.  Replies   *)
(* without a digest carry the run's own.                                   *)
ReplyStatuses == {"missing", "unsupported", "unavailable", "too_large", "mismatch",
                  "matched", "resolved", "not_modified"}
Replies == [status : ReplyStatuses, digest : Digests]

(* authorizeReply: what the reply allows, "error" for what it throws.  The  *)
(* cache is asked, and given a resolved descriptor, on the way.             *)
authorizeReply(r, reply) ==
    LET s == selection[r]
        dynamic == s.kind # "compiled"
        fallback == IF s.policy = "prefer" /\ s.fallback THEN "fallback" ELSE "error"
    IN  CASE reply.status \in {"missing", "unsupported", "unavailable"} -> fallback
          [] reply.status = "too_large" -> IF dynamic THEN fallback ELSE "error"
          [] reply.status = "matched" ->
               IF ~dynamic /\ reply.digest = s.key.digest THEN "compiled" ELSE "error"
          [] reply.status = "resolved" ->
               IF dynamic /\ reply.digest = s.key.digest /\ ~TooLarge(reply.digest)
               THEN "dynamic" ELSE "error"
          [] reply.status = "not_modified" ->
               IF dynamic /\ reply.digest = s.key.digest /\ validator[r] /\ Cached(reply.digest)
               THEN "dynamic" ELSE "error"
          [] OTHER -> "error"

CacheAfter(r, reply) ==
    IF selection[r].kind # "compiled" /\ reply.digest = Expected(r)
    THEN CASE reply.status = "resolved" /\ ~TooLarge(reply.digest) -> put(reply.digest)
           [] reply.status = "not_modified" /\ validator[r] -> get(reply.digest)
           [] OTHER -> UNCHANGED cache
    ELSE UNCHANGED cache

-----------------------------------------------------------------------------
Init ==
    /\ selection \in [Runs -> Selections]
    /\ pc = [r \in Runs |-> "prepare"] /\ validator = [r \in Runs |-> FALSE]
    /\ authorized = [r \in Runs |-> "none"] /\ digest = [r \in Runs |-> "none"]
    /\ owned = [r \in Runs |-> "nothing"] /\ disposals = [r \in Runs |-> 0]
    /\ transport = [r \in Runs |-> "unopened"]
    /\ cancelled = [r \in Runs |-> FALSE] /\ outcome = [r \in Runs |-> "none"]
    /\ CacheInit /\ BindingInit

At(r, place) == pc[r] = place
Goes(r, place) == pc' = [pc EXCEPT ![r] = place] /\ UNCHANGED outcome
Ends(r, result) ==
    /\ pc' = [pc EXCEPT ![r] = "done"] /\ outcome' = [outcome EXCEPT ![r] = result]
(* The catch of the run: the first failure is kept, and cleanup follows. *)
Fails(r) ==
    /\ pc' = [pc EXCEPT ![r] = "dispose"] /\ outcome' = [outcome EXCEPT ![r] = "failed"]

(* prepareNegotiation *)
Prepare(r) ==
    /\ At(r, "prepare")
    /\ IF selection[r].kind = "compiled"
       THEN /\ IF selectedKey(selection[r].key) /\ resolve(selection[r].key) = "factory"
               THEN Goes(r, "open") ELSE Ends(r, "failed")
            /\ UNCHANGED <<validator, cache>>
       ELSE /\ get(Expected(r)) /\ validator' = [validator EXCEPT ![r] = Cached(Expected(r))]
            /\ Goes(r, "open")
    /\ UNCHANGED <<selection, authorized, digest, owned, disposals, transport, cancelled, binding>>

Closed == {"closed", "unconfirmed"}

(* resolveTransport: a transport that is not ready is closed; an error of   *)
(* its close() is dropped.                                                  *)
Open(r) ==
    /\ At(r, "open")
    /\ \/ transport' = [transport EXCEPT ![r] = "open"] /\ Goes(r, "register")
       \/ /\ \E closed \in Closed : transport' = [transport EXCEPT ![r] = closed]
          /\ Ends(r, "failed")
    /\ UNCHANGED <<selection, validator, authorized, digest, owned, disposals, cancelled,
                   cache, binding>>

(* The registration is sent, the first reply received: a registration that  *)
(* is refused, garbled or cut short fails the run.                          *)
FirstReply(r) ==
    /\ At(r, "register")
    /\ \/ Fails(r) /\ UNCHANGED <<authorized, cache>>
       \/ /\ ~cancelled[r]
          /\ \E reply \in Replies :
                /\ authorized' = [authorized EXCEPT ![r] = authorizeReply(r, reply)]
                /\ CacheAfter(r, reply)
                /\ IF authorized'[r] = "error" THEN Fails(r) ELSE Goes(r, "create")
    /\ UNCHANGED <<selection, validator, digest, owned, disposals, transport, cancelled, binding>>

(* The factory, or createRegistry, that the authorization names.  It is     *)
(* awaited to its end; what it made is owned even if the run is cancelled.  *)
Create(r) ==
    /\ At(r, "create")
    /\ \/ Fails(r) /\ UNCHANGED <<owned, digest, binding>>
       \/ /\ authorized[r] \in {"compiled", "fallback"}
          /\ \E d \in Digests : digest' = [digest EXCEPT ![r] = d]
          /\ owned' = [owned EXCEPT ![r] = "binding"]
          /\ Goes(r, "validate") /\ UNCHANGED binding
       \/ /\ authorized[r] = "dynamic" /\ selection[r].kind = "scope"
          /\ owned' = [owned EXCEPT ![r] = "scope"]
          /\ Goes(r, "bind") /\ UNCHANGED <<digest, binding>>
       \/ /\ authorized[r] = "dynamic" /\ selection[r].kind = "registry"
          /\ owned' = [owned EXCEPT ![r] = "binding"]
          /\ digest' = [digest EXCEPT ![r] = Expected(r)]
          /\ binding' = [binding EXCEPT ![r] = FreshBinding(FALSE)]
          /\ Goes(r, "validate")
    /\ UNCHANGED <<selection, validator, authorized, disposals, transport, cancelled, cache>>

(* The scope's registry is bound: a digest or handlers that do not fit the  *)
(* descriptor are refused, and the scope is the run's to release.           *)
BindScope(r) ==
    /\ At(r, "bind")
    /\ \/ Fails(r) /\ UNCHANGED <<owned, digest, binding>>
       \/ /\ ~cancelled[r]
          /\ owned' = [owned EXCEPT ![r] = "binding"]
          /\ digest' = [digest EXCEPT ![r] = Expected(r)]
          /\ binding' = [binding EXCEPT ![r] = FreshBinding(selection[r].async)]
          /\ Goes(r, "validate")
    /\ UNCHANGED <<selection, validator, authorized, disposals, transport, cancelled, cache>>

(* validateBinding: the digest, then the configuration *)
Validate(r) ==
    /\ At(r, "validate")
    /\ \/ Fails(r)
       \/ ~cancelled[r] /\ digest[r] = Expected(r) /\ Goes(r, "replay")
    /\ UNCHANGED <<selection, validator, authorized, digest, owned, disposals, transport,
                   cancelled, cache, binding>>

(* replayLoop: a dynamic binding computes; any other's replay is one step.  *)
ReplayComputes(r) ==
    /\ At(r, "replay") /\ Bound(r) /\ ~cancelled[r]
    /\ \E phase \in UNION {projectInputs(announced) : announced \in Phases} :
          IF binding[r].async THEN Compute(r, phase) ELSE ComputeAtOnce(r, phase)
    /\ UNCHANGED <<runVars, cache>>

ComputerContinues(r) ==
    /\ CallbackReturns(r) \/ InvocationLeft(r) \/ LateCallback(r)
    /\ UNCHANGED <<runVars, cache>>

(* The replay passes when no computation threw, and ends early on a         *)
(* mismatch, a lost peer, a throw, or the signal, while a computation may   *)
(* still wait for its callback.                                            *)
ReplayEnds(r) ==
    /\ At(r, "replay")
    /\ \/ Fails(r)
       \/ /\ ~cancelled[r] /\ ~Running(r) /\ binding[r].thrown = 0
          /\ Goes(r, "dispose")
    /\ UNCHANGED <<selection, validator, authorized, digest, owned, disposals, transport,
                   cancelled, cache, binding>>

Cancel(r) ==
    /\ ~cancelled[r] /\ pc[r] \in {"register", "create", "bind", "validate", "replay"}
    /\ cancelled' = [cancelled EXCEPT ![r] = TRUE]
    /\ binding' = [binding EXCEPT ![r] = Aborted(@)]
    /\ UNCHANGED <<selection, pc, validator, authorized, digest, owned, disposals, transport,
                   outcome, cache>>

(* Variant with a bug: a scope that was never bound is not released. *)
Dispose_BindingOnly(r) ==
    /\ At(r, "dispose")
    /\ disposals' = [disposals EXCEPT ![r] = IF owned[r] = "binding" THEN @ + 1 ELSE @]
    /\ binding' = [binding EXCEPT ![r] = Disposed(@)]
    /\ Goes(r, "close")
    /\ UNCHANGED <<selection, validator, authorized, digest, owned, transport, cancelled, cache>>

(* What the run owns is released: the binding, which releases its scope, or *)
(* the scope alone.  A failing release is reported unless the run failed.   *)
Dispose(r) ==
    /\ At(r, "dispose")
    /\ disposals' = [disposals EXCEPT ![r] = IF owned[r] = "nothing" THEN @ ELSE @ + 1]
    /\ binding' = [binding EXCEPT ![r] = IF owned[r] = "binding" THEN Disposed(@) ELSE @]
    /\ \/ Goes(r, "close")
       \/ /\ owned[r] # "nothing" /\ pc' = [pc EXCEPT ![r] = "close"]
          /\ outcome' = [outcome EXCEPT ![r] = IF @ = "none" THEN "cleanup_failed" ELSE @]
    /\ UNCHANGED <<selection, validator, authorized, digest, owned, transport, cancelled, cache>>

(* close() that throws fails a run that had not failed. *)
Close(r) ==
    /\ At(r, "close")
    /\ \E closed \in Closed :
          /\ transport' = [transport EXCEPT ![r] = closed]
          /\ Ends(r, IF outcome[r] # "none" THEN outcome[r]
                     ELSE IF closed = "closed" THEN "passed" ELSE "cleanup_failed")
    /\ UNCHANGED <<selection, validator, authorized, digest, owned, disposals, cancelled,
                   cache, binding>>

(* The cache is the application's: others use it between the runs' steps. *)
OtherUse ==
    /\ \E d \in Digests : ~TooLarge(d) /\ put(d)
    /\ UNCHANGED <<runVars, binding>>

Next ==
    \/ OtherUse
    \/ \E r \in Runs :
       \/ Prepare(r) \/ Open(r) \/ FirstReply(r) \/ Create(r) \/ BindScope(r) \/ Validate(r)
       \/ ReplayComputes(r) \/ ComputerContinues(r) \/ ReplayEnds(r)
       \/ Cancel(r) \/ Dispose(r) \/ Close(r)

Spec == Init /\ [][Next]_vars

-----------------------------------------------------------------------------
(* Application code runs only under an interface the peer confirmed: a run   *)
(* that replays was authorized by its reply, for the digest it asked for,    *)
(* or was asked to prefer and given a fallback; when it is over, whatever    *)
(* its factory or scope made was released exactly once and close() called    *)
(* on the transport, at whatever step it failed or was cancelled, and it     *)
(* passed only if that close() returned.                                    *)
BoundAndReleased ==
    \A r \in Runs :
       /\ At(r, "replay") =>
             /\ digest[r] = Expected(r) /\ authorized[r] \in {"compiled", "dynamic", "fallback"}
             /\ authorized[r] = "fallback" => selection[r].policy = "prefer"
       /\ At(r, "done") =>
             /\ disposals[r] = IF owned[r] = "nothing" THEN 0 ELSE 1
             /\ transport[r] # "open"
             /\ Bound(r) => binding[r].disposed
             /\ outcome[r] = "passed" =>
                   /\ authorized[r] \in {"compiled", "dynamic", "fallback"}
                   /\ owned[r] = "binding" /\ transport[r] = "closed"
=============================================================================
