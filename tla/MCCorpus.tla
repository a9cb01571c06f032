------------------------------ MODULE MCCorpus ------------------------------
(* Model for TLC of what a corpus goes through: a JSON reader on one of its   *)
(* documents (StrictJson), the admission of its files (CorpusAdmission), and  *)
(* the evidence of its replay (MatchedEvidence), one of the three at a time.  *)
(*                                                                            *)
(* The evidence has one initializer, two transitions, one of them with an     *)
(* alias, and corpora of one and of two traces.  The disk holds one of two    *)
(* publications, its sources with or without carriage returns, and is edited  *)
(* twice while it is read.                                                    *)
EXTENDS MatchedEvidence, CorpusAdmission, StrictJson

CONSTANTS init, push, pop

VARIABLE part  \* which of the three

MCInitializers == {init}
MCTransitions == {push, pop}
MCLabelIds == [l \in {"init", "push", "push_alias", "pop"} |->
                 CASE l = "init" -> init
                   [] l \in {"push", "push_alias"} -> push
                   [] l = "pop" -> pop]
MCRequiredActions == {push, pop}
MCRequiredPairs == {<<push, pop>>}
MCCorpora == { << <<init, push, pop>> >>,
               << <<init, push>>, <<init, pop, push>> >>,
               << <<init>>, <<init, push, push, pop>> >> }

partVars == <<part, vars, corpusVars, jsonVars>>

(* The parts that are not used stay in one of their initial states. *)
NoEvidence == corpus = (CHOOSE c \in Corpora : TRUE) /\ ~strict /\ ~checked
NoAdmission == /\ \A i \in 1..7 : inode[i].bytes = Published(Trusted, Place[i])
               /\ ~extra /\ ~ambiguous
NoReading == parser = "interface"

PartInit ==
    /\ part \in {"evidence", "admission", "reading"}
    /\ Init /\ (part # "evidence" => NoEvidence)
    /\ CorpusInit /\ (part # "admission" => NoAdmission)
    /\ JsonInit /\ (part # "reading" => NoReading)

PartNext ==
    \/ part = "evidence" /\ Next /\ UNCHANGED <<part, corpusVars, jsonVars>>
    \/ part = "admission" /\ CorpusNext /\ UNCHANGED <<part, vars, jsonVars>>
    \/ part = "reading" /\ JsonNext /\ UNCHANGED <<part, vars, corpusVars>>

PartSpec == PartInit /\ [][PartNext]_partVars
=============================================================================
