-------------------------- MODULE FrameworkCatalog --------------------------
(***************************************************************************)
(* src/framework-catalog.ts, preflightFrameworkSelection: whether a catalog*)
(* admits the framework that is installed.  A pure function of its inputs. *)
(* What a document says is not modelled, only which of the checks it fails;*)
(* of several that fail the code reports the first, here it may be any.    *)
(***************************************************************************)
EXTENDS Naturals, Sequences

DeclaredStates == {"absent", "unsupported", "candidate", "supported"}
Admissions == {"support-required", "qualification-candidate", "other"}

(* An approval is absent, binds this catalog, combination and distribution, *)
(* or is about something else.                                             *)
Approvals == {"none", "unbound", "binding"}

(* What may be wrong with the installation, at most one thing at a time: a  *)
(* document that is not what its schema says, or an identity that differs.  *)
Faults == {"none", "catalog", "digest", "manifest", "cache", "distribution", "artifact",
           "selection", "component", "platform", "capability", "observation",
           "package", "executable", "runtime"}

FrameworkPreflightInput ==
    [declaredState : DeclaredStates, admission : Admissions,
     approval : Approvals, fault : Faults]

FrameworkRefusalCode ==
    {"catalog_invalid", "catalog_selection_mismatch", "combination_unsupported",
     "component_identity_mismatch", "distribution_identity_mismatch",
     "artifact_identity_mismatch", "package_identity_mismatch",
     "executable_identity_mismatch", "runtime_identity_mismatch",
     "platform_identity_mismatch", "capability_unsupported"}

approvedCandidate(s) == s.approval = "binding" /\ s.declaredState = "candidate"

Refusal(when, code) == IF when THEN {code} ELSE {}

(* The catalog, its digest, the combination and the admission policy *)
CombinationRefusals(s) ==
    Refusal(s.fault = "catalog", "catalog_invalid")
    \cup Refusal(s.fault = "digest", "catalog_selection_mismatch")
    \cup Refusal(\/ s.declaredState \in {"absent", "unsupported"} \/ s.admission = "other"
                 \/ /\ s.admission = "support-required" /\ s.declaredState # "supported"
                    /\ s.approval = "none", "combination_unsupported")

(* Manifest and cache index are what their schemas say, and agree. *)
validatedDistribution(s) ==
    Refusal(s.fault \in {"manifest", "cache", "distribution"}, "distribution_identity_mismatch")
    \cup Refusal(s.fault = "artifact", "artifact_identity_mismatch")

ApprovalRefusals(s) ==
    Refusal(\/ s.approval = "unbound"
            \/ /\ s.admission = "support-required" /\ s.declaredState # "supported"
               /\ ~approvedCandidate(s), "combination_unsupported")

(* An approved candidate needs no accepted observations of its own. *)
CapabilityRefusals(s) ==
    Refusal(s.fault = "selection", "distribution_identity_mismatch")
    \cup Refusal(s.fault = "component", "component_identity_mismatch")
    \cup Refusal(s.fault = "platform", "platform_identity_mismatch")
    \cup Refusal(\/ s.fault = "capability"
                 \/ /\ s.fault = "observation" /\ s.admission = "support-required"
                    /\ ~approvedCandidate(s), "capability_unsupported")

InstalledRefusals(s) ==
    Refusal(s.fault = "package", "package_identity_mismatch")
    \cup Refusal(s.fault = "executable", "executable_identity_mismatch")
    \cup Refusal(s.fault = "runtime", "runtime_identity_mismatch")

(* What the selection is refused for: it is matched if there is nothing. *)
preflightFrameworkSelection(s) ==
    CombinationRefusals(s) \cup validatedDistribution(s) \cup ApprovalRefusals(s)
    \cup CapabilityRefusals(s) \cup InstalledRefusals(s)
=============================================================================
