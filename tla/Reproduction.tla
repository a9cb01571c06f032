---------------------------- MODULE Reproduction ----------------------------
(***************************************************************************)
(* src/reproduction-bundle.ts: a failing suite result is captured as a     *)
(* bundle with a normalized signature; later the bundle is preflighted     *)
(* (its identities, its evidence, its external captures) and replayed, and *)
(* the replay is compared with the signature.                              *)
(***************************************************************************)
EXTENDS BoundedTrial

CONSTANTS
    ExternalCaptures,    \* how many captures of the bundle are external
    PerReferenceBytes,   \* limit: bytes of one external capture
    AggregateBytes       \* limit: bytes of all of them
ASSUME ExternalCapturesAssumption ==
    {ExternalCaptures, PerReferenceBytes, AggregateBytes} \subseteq Nat

Cleanups == {"succeeded", "failed", "unconfirmed"}

(* A suite's results: the failure (its kind, and the coordinates, stage or  *)
(* code it names) and the cleanup.  The kinds not told apart are "other".   *)
SuiteResults ==
    [kind : {"none"}, detail : {"none"}, cleanup : {"succeeded"}]
    \cup [kind : {"mismatch"}, detail : {"step1", "step2", "no action"}, cleanup : Cleanups]
    \cup [kind : {"timeout"}, detail : {"configuration", "negotiation", "execution"},
          cleanup : {"succeeded"}]
    \cup [kind : {"codec", "coverage_unmet", "other"}, detail : {"code"},
          cleanup : {"succeeded"}]
    \cup [kind : {"cancellation"}, detail : {"execution"},
          cleanup : {"succeeded", "unconfirmed"}]
    \cup [kind : {"cleanup"}, detail : {"code"}, cleanup : {"failed", "unconfirmed"}]

(* The normalization contexts a caller may give: none, or one that says     *)
(* what the timeout budget, the unmet requirements, the codec's stage and   *)
(* the error's origin were, other than the defaults.  The capture is given  *)
(* one and the replay another.                                             *)
Contexts == {"none", "this", "that"}

(* valid |-> the rest of the bundle is in order: its links, identities,     *)
(* captures and handling, as a bounded tree of plain data.                  *)
ReproductionSubjects ==
    [first : SuiteResults, capturing : Contexts, replaying : Contexts, valid : BOOLEAN]

-----------------------------------------------------------------------------
(* signatureFromSuiteResult *)

(* Signature, or why there is none: a thrown error, or a result that passed. *)
(* context |-> the context it was normalized in, where the context is read.  *)
Signature(primary, detail, context, cleanup) ==
    [primary |-> primary, detail |-> detail, context |-> context, cleanup |-> cleanup]
Throws == Signature("throws", "none", "none", "succeeded")
Passed == Signature("passed", "none", "none", "succeeded")

normalizedStage(stage) ==
    CASE stage \in {"factory", "cleanup"} -> stage
      [] stage \in {"configuration", "negotiation"} -> "registration"
      [] OTHER -> "action"

signatureFromSuiteResult(r, context) ==
    CASE r.kind = "none" -> Passed
      [] r.kind = "mismatch" ->
           IF r.detail = "no action" THEN Throws
           ELSE Signature("behavioral_mismatch", r.detail, "none", r.cleanup)
      [] r.kind \in {"timeout", "coverage_unmet"} /\ context = "none" -> Throws
      [] r.kind = "timeout" /\ context # "none" ->
           Signature("timeout", normalizedStage(r.detail), context, r.cleanup)
      [] r.kind = "cancellation" ->
           Signature("cancellation", normalizedStage(r.detail), "none", r.cleanup)
      [] r.kind = "cleanup" -> Signature("none", r.detail, "none", r.cleanup)
      [] r.kind = "codec" -> Signature("codec_error", r.detail, context, r.cleanup)
      [] r.kind = "coverage_unmet" /\ context # "none" ->
           Signature("coverage_unmet", r.detail, context, r.cleanup)
      [] OTHER -> Signature("execution_error", r.detail, context, r.cleanup)

validateSignature(s) == s.primary = "none" => s.cleanup # "succeeded"

validateReproductionBundle(s) == subject.valid /\ validateSignature(s)

Bundle == signatureFromSuiteResult(subject.first, subject.capturing)

-----------------------------------------------------------------------------
ReproductionEnds(status, code) ==
    Finish([status |-> status, code |-> code]) /\ UNCHANGED <<trial, started, log>>
Refuses(code) == ReproductionEnds("refused", code)

(* captureReproduction: whether the bundle is written changes nothing *)
captureReproduction ==
    /\ tool = "reproduce" /\ pc = "next"
    /\ CASE Bundle = Throws -> ReproductionEnds("thrown", "normalization")
         [] Bundle = Passed -> ReproductionEnds("thrown", "capture_requires_failure")
         [] OTHER ->
              IF ~validateReproductionBundle(Bundle) THEN ReproductionEnds("thrown", "invalid")
              ELSE Goto("preflight") /\ UNCHANGED <<trial, started, log>>
    /\ UNCHANGED <<loopVars, truth>>

(* preflightReproduction: the bundle is decoded from bytes that may have    *)
(* become anything, and compared with what the evaluator expects.           *)
PreflightIdentity ==
    /\ tool = "reproduce" /\ pc = "preflight"
    /\ \/ Refuses("undecodable")
       \/ aborted /\ Refuses("preflight_cancelled")
       \/ /\ ~aborted
          /\ \E code \in {"identity_mismatch", "catalog_mismatch", "preflight_limits_invalid"} :
                Refuses(code)
       \/ ~aborted /\ Goto("evidence") /\ UNCHANGED <<trial, started, log>>
    /\ UNCHANGED <<loopVars, truth>>

(* A validation callback within its budget *)
boundedValidation == Answers({"accepted"})

(* The evidence links, then the compatibility *)
PreflightValidation ==
    /\ tool = "reproduce" /\ pc \in {"evidence", "compatibility"}
    /\ \E answer \in boundedValidation :
          CASE answer = "accepted" /\ (pc = "compatibility" \/ ~aborted) ->
                 Goto(IF pc = "evidence" THEN "compatibility" ELSE "captures")
                 /\ UNCHANGED <<trial, started, log>>
            [] answer = "accepted" /\ pc = "evidence" /\ aborted -> Refuses("preflight_cancelled")
            [] answer = "cancelled" -> Refuses("preflight_cancelled")
            [] answer = "timed_out" -> Refuses("preflight_validation_timeout")
            [] OTHER -> Refuses("compatibility_refused")
    /\ UNCHANGED <<loopVars, truth>>

(* A resolver within its budget: it answers some bytes, the ones the bundle *)
(* names or others.                                                        *)
resolveBounded ==
    {[is |-> kind, bytes |-> 0, exact |-> FALSE] : kind \in Answers({})}
    \cup [is : {"resolved"}, bytes : 1 .. PerReferenceBytes + 1, exact : BOOLEAN]

(* How many bytes of captures were resolved so far, all of them together *)
Resolved(entries) ==
    Cardinality(UNION {{i} \X (1 .. entries[i].of) : i \in 1 .. Len(entries)})

(* Every external capture in turn: its resolver is admitted, answers in     *)
(* time, within both byte limits, with the bytes the bundle names.          *)
ResolveCapture ==
    /\ tool = "reproduce" /\ pc = "captures" /\ Len(log) < ExternalCaptures
    /\ \/ log = <<>> /\ Refuses("external_limits_invalid")
       \/ aborted /\ Refuses("preflight_cancelled")
       \/ ~aborted /\ Refuses("resolver_not_admitted")
       \/ /\ ~aborted
          /\ \E answer \in resolveBounded :
             CASE answer.is = "timed_out" -> Refuses("external_reference_timeout")
               [] answer.is = "rejected" -> Refuses("external_reference_unavailable")
               [] answer.is = "resolved" ->
                    CASE \/ answer.bytes > PerReferenceBytes
                         \/ Resolved(log) + answer.bytes > AggregateBytes ->
                           Refuses("external_reference_too_large")
                      [] /\ answer.bytes <= PerReferenceBytes
                         /\ Resolved(log) + answer.bytes <= AggregateBytes
                         /\ ~answer.exact -> Refuses("external_digest_mismatch")
                      [] OTHER -> /\ Logged(answer.bytes, "resolved") /\ Goto("captures")
                                  /\ UNCHANGED <<trial, started>>
    /\ UNCHANGED <<loopVars, truth>>

replayReproduction ==
    /\ tool = "reproduce" /\ pc = "captures" /\ Len(log) = ExternalCaptures
    /\ IF aborted THEN Refuses("replay_cancelled")
       ELSE StartTrial(1) /\ Goto("race") /\ UNCHANGED log
    /\ UNCHANGED <<loopVars, truth>>

(* The replay has no budget of its own: it is awaited until it settles. *)
Compare ==
    /\ tool = "reproduce" /\ pc = "race"
    /\ \/ trial.is = "rejected" /\ ReproductionEnds("thrown", "evaluation")
       \/ /\ trial.is = "result"
          /\ LET observed == signatureFromSuiteResult(trial.status, subject.replaying)
             IN  CASE observed = Throws -> ReproductionEnds("thrown", "normalization")
                   [] observed = Bundle -> ReproductionEnds("reproduced", "none")
                   [] OTHER -> ReproductionEnds("not_reproduced", "none")
    /\ UNCHANGED <<loopVars, truth>>

ReproductionNext ==
    \/ captureReproduction \/ PreflightIdentity \/ PreflightValidation
    \/ ResolveCapture \/ replayReproduction \/ Compare

-----------------------------------------------------------------------------
(* "reproduced" means that the replay really failed as the captured run    *)
(* did: the same kind of failure, at the same place, and with the same     *)
(* cleanup, after every external capture was resolved and all of them      *)
(* together stayed within the limit; and no failure that is the captured   *)
(* one, letter for letter and normalized alike, is "not_reproduced".       *)
ReproducedIsEarned ==
    (tool = "reproduce" /\ report # Nothing /\ report.status \in {"reproduced", "not_reproduced"})
    => LET replayed == trial.status
           first == subject.first
       IN  /\ Len(log) = ExternalCaptures /\ Resolved(log) <= AggregateBytes
           /\ (report.status = "not_reproduced" /\ subject.replaying = subject.capturing) =>
                 replayed # first
           /\ report.status = "reproduced" =>
                 /\ replayed.kind = first.kind /\ first.kind # "none"
                 /\ replayed.cleanup = first.cleanup
                 /\ first.kind = "mismatch" => replayed.detail = first.detail
                 /\ first.kind \in {"timeout", "codec", "coverage_unmet", "other"} =>
                       subject.replaying = subject.capturing
=============================================================================
