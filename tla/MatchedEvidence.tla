--------------------------- MODULE MatchedEvidence ---------------------------
(***************************************************************************)
(* The evidence a suite is accepted on: MatchedEvidenceTracker of          *)
(* src/matched-evidence.ts, fed by the transition machine replayCore of    *)
(* src/replay-core.ts, and the verdict of src/acceptance.ts.               *)
(*                                                                         *)
(* The tracker knows the selected corpus: how many states each trace has   *)
(* and, in a suite, which action each of them is.  The mirror may send any *)
(* message at any time.  What really happened is kept in `observed`.       *)
(* Counters never reach Number.MAX_SAFE_INTEGER here.                      *)
(***************************************************************************)
EXTENDS Naturals, Sequences, FiniteSets

CONSTANTS
    Initializers,       \* ids of the initializing actions
    Transitions,        \* ids of the other actions
    LabelIds,           \* the id each known wire label or alias stands for
    UnknownLabel,       \* a label the descriptor does not have
    RequiredActions,    \* ids a suite must match
    RequiredPairs,      \* pairs of ids a suite must match in a row
    Corpora,            \* the corpora a suite may select
    None

Ids == Initializers \cup Transitions

ASSUME DescriptorIsSound ==
    /\ Initializers \cap Transitions = {} /\ None \notin Ids
    /\ UnknownLabel \notin DOMAIN LabelIds
    /\ \A l \in DOMAIN LabelIds : LabelIds[l] \in Ids
    /\ RequiredActions \subseteq Transitions
    /\ RequiredPairs \subseteq Transitions \X Transitions

(* A corpus is a nonempty sequence of traces; a trace is the sequence of   *)
(* its action ids, one per state.                                          *)
ASSUME CorporaAreSelections ==
    \A c \in Corpora : /\ c \in Seq(Seq(Ids)) /\ Len(c) > 0
                       /\ \A k \in 1..Len(c) : Len(c[k]) > 0

VARIABLES
    corpus,     \* the selected corpus
    strict,     \* strictAcknowledgements
    checked,    \* expectedActions were given
    tracker,    \* the fields of the tracker
    pc,         \* replayCore: "receive", "computing" or "over"
    observed    \* history: the observations reported, and what became of them

vars == <<corpus, strict, checked, tracker, pc, observed>>

Uncertainties == {"mapping", "protocol", "missing_ack"}
Counters(S) == [S -> Nat]

Trackers ==
    [entered : BOOLEAN, complete : BOOLEAN, sealed : BOOLEAN,
     started : Nat, completed : Nat, initialMatched : Nat,
     transitionMatched : Nat, reportedCount : Nat, currentMatched : Nat,
     previous : Ids \cup {None}, active : Ids \cup {None}, pending : Ids \cup {None},
     actions : Counters(RequiredActions), pairs : Counters(RequiredPairs),
     uncertain : SUBSET Uncertainties]

(* fate: what the mirror's next message said of it, "sent" until it came *)
Observations ==
    [trace : Nat, id : Ids, fate : {"sent", "passed_over", "confirmed", "rejected"}]

NewTracker ==
    [entered |-> FALSE, complete |-> FALSE, sealed |-> FALSE,
     started |-> 0, completed |-> 0, initialMatched |-> 0,
     transitionMatched |-> 0, reportedCount |-> 0, currentMatched |-> 0,
     previous |-> None, active |-> None, pending |-> None,
     actions |-> [a \in RequiredActions |-> 0],
     pairs |-> [p \in RequiredPairs |-> 0],
     uncertain |-> {}]

-----------------------------------------------------------------------------
(* The tracker's methods, as operators from a tracker to the next one.     *)
(* A method that throws leaves the tracker sealed.                         *)

fail(t, reason) == [t EXCEPT !.uncertain = @ \cup {reason}, !.sealed = TRUE]

(* Variant with a bug: `previous` stays at the first transition of a trace. *)
commit_KeepsPrevious(t) ==
    IF t.pending = None THEN t
    ELSE IF t.pending \in Initializers
    THEN [t EXCEPT !.pending = None,
                   !.currentMatched = @ + 1,
                   !.initialMatched = @ + 1,
                   !.previous = None]
    ELSE [t EXCEPT !.pending = None,
                   !.currentMatched = @ + 1,
                   !.transitionMatched = @ + 1,
                   !.actions = [a \in RequiredActions |->
                                  IF a = t.pending THEN @[a] + 1 ELSE @[a]],
                   !.pairs = [p \in RequiredPairs |->
                                IF p = <<t.previous, t.pending>>
                                THEN @[p] + 1 ELSE @[p]],
                   !.previous = IF @ = None THEN t.pending ELSE @]

(* The pending observation was accepted. *)
commit(t) ==
    IF t.pending = None THEN t
    ELSE IF t.pending \in Initializers
    THEN [t EXCEPT !.pending = None,
                   !.currentMatched = @ + 1,
                   !.initialMatched = @ + 1,
                   !.previous = None]
    ELSE [t EXCEPT !.pending = None,
                   !.currentMatched = @ + 1,
                   !.transitionMatched = @ + 1,
                   !.actions = [a \in RequiredActions |->
                                  IF a = t.pending THEN @[a] + 1 ELSE @[a]],
                   !.pairs = [p \in RequiredPairs |->
                                IF p = <<t.previous, t.pending>>
                                THEN @[p] + 1 ELSE @[p]],
                   !.previous = t.pending]

(* Variant with a bug: a trace may end early. *)
finishTrace_NotTooLong(t) ==
    IF t.started > 0 /\ t.currentMatched <= Len(corpus[t.started])
    THEN [t EXCEPT !.completed = @ + 1]
    ELSE fail(t, "protocol")

(* The current trace must have matched as many states as it has. *)
finishTrace(t) ==
    IF t.started > 0 /\ t.currentMatched = Len(corpus[t.started])
    THEN [t EXCEPT !.completed = @ + 1]
    ELSE fail(t, "protocol")

openTrace(t) ==
    LET f == IF t.started > 0 THEN finishTrace(t) ELSE t
    IN  IF f.sealed THEN f
        ELSE IF f.started = Len(corpus) THEN fail(f, "protocol")
        ELSE [f EXCEPT !.started = @ + 1, !.currentMatched = 0, !.previous = None]

continueTrace(t) ==
    IF t.started > 0 /\ t.currentMatched < Len(corpus[t.started])
    THEN t ELSE fail(t, "protocol")

Mapped(initial, label) ==
    /\ label \in DOMAIN LabelIds
    /\ initial <=> LabelIds[label] \in Initializers

(* The corpus has this action at this position, if there is such a position. *)
Expected(t, id) ==
    checked /\ t.currentMatched + 1 <= Len(corpus[t.started])
      => corpus[t.started][t.currentMatched + 1] = id

begin(t, initial, label) ==
    CASE t.sealed \/ t.active # None -> fail(t, "protocol")
      [] ~t.sealed /\ t.active = None /\ ~Mapped(initial, label) -> fail(t, "mapping")
      [] ~t.sealed /\ t.active = None /\ Mapped(initial, label)
           /\ strict /\ t.pending # None -> fail(t, "missing_ack")
      [] OTHER ->
           LET o == IF initial THEN openTrace(commit(t)) ELSE continueTrace(commit(t))
           IN  IF o.sealed THEN o
               ELSE IF ~Expected(o, LabelIds[label]) THEN fail(o, "protocol")
               ELSE [o EXCEPT !.entered = TRUE, !.active = LabelIds[label]]

reported(t) ==
    IF t.sealed \/ t.active = None \/ t.pending # None THEN fail(t, "protocol")
    ELSE [t EXCEPT !.reportedCount = @ + 1,
                   !.pending = t.active,
                   !.active = None]

acknowledge(t) ==
    IF t.sealed \/ t.pending = None THEN fail(t, "protocol") ELSE commit(t)

done(t) ==
    IF t.sealed \/ t.active # None THEN fail(t, "protocol")
    ELSE IF strict /\ t.pending # None THEN fail(t, "missing_ack")
    ELSE LET f == finishTrace(commit(t))
         IN  IF f.sealed THEN f
             ELSE IF f.started # Len(corpus) THEN fail(f, "protocol")
             ELSE [f EXCEPT !.complete = TRUE, !.sealed = TRUE]

(* Variant with a bug: the pending observation is counted first. *)
interrupt_Commits(t, rejected) ==
    IF t.sealed THEN t
    ELSE [commit(t) EXCEPT !.active = None, !.sealed = TRUE]

(* The replay stopped: on a rejected observation, or on anything else. *)
interrupt(t, rejected) ==
    IF t.sealed THEN t
    ELSE IF rejected /\ t.pending = None THEN fail(t, "protocol")
    ELSE [t EXCEPT !.uncertain = IF t.pending # None /\ ~rejected
                                 THEN @ \cup {"missing_ack"} ELSE @,
                   !.pending = None, !.active = None, !.sealed = TRUE]

-----------------------------------------------------------------------------
(* The verdict *)

exact(t) == t.uncertain = {}

(* evaluateAcceptance on the evidence of a snapshot *)
evaluateAcceptance(t) ==
    CASE ~t.entered -> "not_evaluated"
      [] t.entered /\ ~(/\ t.complete /\ exact(t)
                        /\ t.completed = Len(corpus)
                        /\ t.initialMatched = Len(corpus)) -> "incomplete"
      [] OTHER -> IF /\ \A a \in RequiredActions : t.actions[a] > 0
                     /\ \A p \in RequiredPairs : t.pairs[p] > 0
                  THEN "met" ELSE "unmet"

-----------------------------------------------------------------------------
(* replayCore *)

Init ==
    /\ corpus \in Corpora
    /\ strict \in BOOLEAN /\ checked \in BOOLEAN
    /\ tracker = NewTracker
    /\ pc = "receive"
    /\ observed = <<>>

(* The mirror's next message tells what became of the last observation. *)
Resolve(fate) ==
    observed' = IF observed # <<>> /\ observed[Len(observed)].fate = "sent"
                THEN [observed EXCEPT ![Len(observed)].fate = fate]
                ELSE observed

(* initial_state or next_step: the computer is called if the tracker agrees. *)
BeginStep(initial, label) ==
    /\ pc = "receive"
    /\ tracker' = begin(tracker, initial, label)
    /\ pc' = IF tracker'.sealed THEN "over" ELSE "computing"
    /\ Resolve("passed_over")
    /\ UNCHANGED <<corpus, strict, checked>>

(* The computer's state is sent. *)
ReportState ==
    /\ pc = "computing"
    /\ tracker' = reported(tracker)
    /\ pc' = IF tracker'.sealed THEN "over" ELSE "receive"
    /\ observed' = Append(observed, [trace |-> tracker.started,
                                     id |-> tracker.active, fate |-> "sent"])
    /\ UNCHANGED <<corpus, strict, checked>>

StepOk ==
    /\ pc = "receive"
    /\ tracker' = acknowledge(tracker)
    /\ pc' = IF tracker'.sealed THEN "over" ELSE "receive"
    /\ Resolve("confirmed")
    /\ UNCHANGED <<corpus, strict, checked>>

AllStepsDone ==
    /\ pc = "receive"
    /\ tracker' = done(tracker)
    /\ pc' = "over"
    /\ Resolve("passed_over")
    /\ UNCHANGED <<corpus, strict, checked>>

StepMismatch ==
    /\ pc = "receive"
    /\ tracker' = interrupt(tracker, TRUE)
    /\ pc' = "over"
    /\ Resolve("rejected")
    /\ UNCHANGED <<corpus, strict, checked>>

(* An error, a cancellation or a deadline, waiting for the mirror or for    *)
(* the computer.                                                            *)
Stops ==
    /\ pc # "over"
    /\ tracker' = interrupt(tracker, FALSE)
    /\ pc' = "over"
    /\ UNCHANGED <<corpus, strict, checked, observed>>

Next ==
    \/ \E initial \in BOOLEAN, l \in DOMAIN LabelIds \cup {UnknownLabel} :
          BeginStep(initial, l)
    \/ ReportState
    \/ StepOk
    \/ AllStepsDone
    \/ StepMismatch
    \/ Stops

Spec == Init /\ [][Next]_vars

-----------------------------------------------------------------------------
(* Properties *)

(* Every variable keeps to its type. *)
TypeOK ==
    /\ corpus \in Corpora /\ strict \in BOOLEAN /\ checked \in BOOLEAN
    /\ tracker \in Trackers
    /\ pc \in {"receive", "computing", "over"}
    /\ observed \in Seq(Observations)

(* What the mirror accepted, explicitly or by going on. *)
Accepted == {i \in 1..Len(observed) : observed[i].fate \in {"confirmed", "passed_over"}}
AcceptedAs(S) == {i \in Accepted : observed[i].id \in S}
AcceptedPairs(p) ==
    {i \in AcceptedAs({p[2]}) : /\ i - 1 \in AcceptedAs({p[1]})
                                /\ observed[i - 1].trace = observed[i].trace}

(* The evidence counts nothing the mirror did not accept: in no trace does *)
(* a rejected, lost or repeated observation, or a pair across two traces,  *)
(* reach a counter.                                                        *)
EvidenceNeverOvercounts ==
    /\ tracker.initialMatched <= Cardinality(AcceptedAs(Initializers))
    /\ tracker.transitionMatched <= Cardinality(AcceptedAs(Transitions))
    /\ \A a \in RequiredActions :
          tracker.actions[a] <= Cardinality(AcceptedAs({a}))
    /\ \A p \in RequiredPairs :
          tracker.pairs[p] <= Cardinality(AcceptedPairs(p))

(* Evidence that calls itself exact counts all the mirror accepted, except *)
(* while the last observation is pending.                                  *)
ExactEvidenceIsExact ==
    exact(tracker) =>
        /\ tracker.initialMatched = Cardinality(AcceptedAs(Initializers))
        /\ tracker.transitionMatched = Cardinality(AcceptedAs(Transitions))
        /\ \A a \in RequiredActions :
              tracker.actions[a] = Cardinality(AcceptedAs({a}))
        /\ \A p \in RequiredPairs :
              tracker.pairs[p] = Cardinality(AcceptedPairs(p))

(* The counters of the evidence are bounds on what the mirror accepted, and *)
(* its number where they call themselves exact.                            *)
EvidenceIsTrue == EvidenceNeverOvercounts /\ ExactEvidenceIsExact

(* corpusCompleted: every state of every selected trace, and nothing else, *)
(* was observed, trace by trace in one stretch each, and accepted (with    *)
(* strict acknowledgements explicitly, and with expected actions in the    *)
(* order of the corpus).                                                   *)
TraceObserved(k) ==
    \E s \in 0..Len(observed) :
       /\ s + Len(corpus[k]) <= Len(observed)
       /\ \A i \in 1..Len(observed) :
            observed[i].trace = k <=> i \in s + 1 .. s + Len(corpus[k])
       /\ \A i \in 1..Len(corpus[k]) :
            /\ observed[s + i].fate \in {"confirmed"} \cup (IF strict THEN {} ELSE {"passed_over"})
            /\ checked => observed[s + i].id = corpus[k][i]

CompleteMeansTheCorpus ==
    tracker.complete =>
        /\ exact(tracker)
        /\ \A i \in 1..Len(observed) : observed[i].trace \in 1..Len(corpus)
        /\ \A k \in 1..Len(corpus) : TraceObserved(k)

(* A suite accepted as "met" matched every required action and pair.  *)
MetMeansCovered ==
    evaluateAcceptance(tracker) = "met" =>
        /\ \A a \in RequiredActions : AcceptedAs({a}) # {}
        /\ \A p \in RequiredPairs : AcceptedPairs(p) # {}
        /\ \A k \in 1..Len(corpus) : TraceObserved(k)

(* Neither claim is made too early: a complete corpus was wholly observed,  *)
(* and an acceptance that is met has its coverage.                          *)
ClaimsAreObserved == CompleteMeansTheCorpus /\ MetMeansCovered
==============================================================================
