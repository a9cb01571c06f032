------------------------------ MODULE MCProject ------------------------------
EXTENDS Project

(* Every state of a combination under every policy and approval, nothing    *)
(* else being wrong; and every single thing that may be wrong with an       *)
(* installation of a supported combination, an approved candidate and a     *)
(* candidate that is being qualified.                                       *)
Plausible ==
    {[declaredState |-> "supported", admission |-> "support-required", approval |-> "none"],
     [declaredState |-> "candidate", admission |-> "support-required", approval |-> "binding"],
     [declaredState |-> "candidate", admission |-> "qualification-candidate", approval |-> "none"]}

MCSelections ==
    {s \in FrameworkPreflightInput :
        \/ s.fault = "none"
        \/ [declaredState |-> s.declaredState, admission |-> s.admission,
            approval |-> s.approval] \in Plausible}
=============================================================================
