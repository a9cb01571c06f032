------------------------------ MODULE MCExplore ------------------------------
(* Model of client.ts for TLC: an explore session with three calls besides    *)
(* open(), or a one-shot registration on a mirror that may have to be found   *)
(* first.  The one that is not used stays as it began, where no fairness      *)
(* asks anything of it.                                                       *)
EXTENDS ExploreSession, Registration

VARIABLE client  \* which of the two is used

clientVars == <<client, exploreVars, registrationVars>>

Unused == options = [flow |-> "validate", target |-> "given", pin |-> "absent", fits |-> TRUE]
          /\ cert = [h \in Hosts |-> CHOOSE c \in Certs : TRUE]

ClientInit ==
    /\ client \in {"session", "registration"}
    /\ SessionInit
    /\ RegistrationInit /\ (client = "session" => Unused)

ClientNext ==
    \/ client = "session" /\ SessionNext /\ UNCHANGED <<client, registrationVars>>
    \/ client = "registration" /\ RegistrationNext /\ UNCHANGED <<client, exploreVars>>

ClientSpec ==
    ClientInit /\ [][ClientNext]_clientVars /\ Fairness
==============================================================================
