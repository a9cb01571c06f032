--------------------------- MODULE MCExperiments ---------------------------
(* Model for TLC of the experiment tools, and of the authoring experiment     *)
(* (AuthorBroker) with a few calls of the author, a shim that may be started  *)
(* again and two files: either a tool is given a subject, or the evaluation   *)
(* is started.                                                                *)
EXTENDS Experiments, AuthorBroker

VARIABLE authoring  \* whether it is the authoring experiment

(* Two actors with two checkpoints each: six interleavings, four of them    *)
(* with at most one preemption.                                            *)
MCChain == <<2, 2>>

(* One step with its client at 2, one with client and token at 2. *)
MCLeaseTrace ==
    <<[action |-> "Acquire", client |-> 2, token |-> 1],
      [action |-> "Renew", client |-> 2, token |-> 2]>>

NoTool == tool = "stability" /\ subject = (CHOOSE s \in Subjects("stability") : TRUE)

MCInit ==
    /\ authoring \in BOOLEAN
    /\ Init /\ (authoring => NoTool)
    /\ BrokerInit /\ (~authoring => tree = EmptyTree)

MCNext ==
    \/ ~authoring /\ Next /\ UNCHANGED <<authoring, authorVars>>
    \/ authoring /\ BrokerNext /\ UNCHANGED <<authoring, vars>>

MCSpec == MCInit /\ [][MCNext]_<<authoring, vars, authorVars>> /\ BrokerFairness
=============================================================================
