--------------------------- MODULE ReplayRecorder ---------------------------
(***************************************************************************)
(* The aggregate progress collector of src/replay-report.ts.  Its methods  *)
(* are operators from a recorder to the next one.  A map that has no entry *)
(* for a key is a function that is 0 there; the maps are bounded, and what *)
(* does not fit is counted as dropped.                                     *)
(***************************************************************************)
EXTENDS Naturals, FiniteSets, FiniteSetsExt

CONSTANTS
    Actions,            \* wire action names
    NoAction,           \* previousAction when it is undefined
    ACTION_LIMIT,       \* most distinct actions counted
    SEQUENCE_LIMIT      \* most distinct action pairs counted

ASSUME RecorderLimits == /\ NoAction \notin Actions
                         /\ ACTION_LIMIT \in Nat /\ SEQUENCE_LIMIT \in Nat

Recorders ==
    [tracesStarted : Nat, tracesCompleted : Nat, statesReported : Nat,
     statesMatched : Nat, stepsCompleted : Nat, stateIndex : Nat,
     pending : BOOLEAN, previousAction : Actions \cup {NoAction},
     actions : [Actions -> Nat], sequences : [Actions \X Actions -> Nat],
     droppedActionEvents : Nat, droppedSequenceEvents : Nat]

NewRecorder ==
    [tracesStarted |-> 0, tracesCompleted |-> 0, statesReported |-> 0,
     statesMatched |-> 0, stepsCompleted |-> 0, stateIndex |-> 0,
     pending |-> FALSE, previousAction |-> NoAction,
     actions |-> [a \in Actions |-> 0],
     sequences |-> [p \in Actions \X Actions |-> 0],
     droppedActionEvents |-> 0, droppedSequenceEvents |-> 0]

(* The reported state was accepted. *)
acknowledge(r) ==
    IF ~r.pending THEN r
    ELSE [r EXCEPT !.pending = FALSE,
                   !.statesMatched = @ + 1,
                   !.stepsCompleted = IF r.stateIndex > 0 THEN @ + 1 ELSE @]

(* Variant with a bug: the position moves before the last state is counted. *)
begin_MovesFirst(r, initial) ==
    acknowledge(
      IF initial
      THEN [r EXCEPT !.tracesCompleted = IF r.tracesStarted > 0 THEN @ + 1 ELSE @,
                     !.tracesStarted = @ + 1,
                     !.stateIndex = 0,
                     !.previousAction = NoAction]
      ELSE [r EXCEPT !.stateIndex = @ + 1])

(* A trace or a step starts: the mirror has accepted what came before. *)
begin(r, initial) ==
    LET q == acknowledge(r)
    IN  IF initial
        THEN [q EXCEPT !.tracesCompleted = IF q.tracesStarted > 0 THEN @ + 1 ELSE @,
                       !.tracesStarted = @ + 1,
                       !.stateIndex = 0,
                       !.previousAction = NoAction]
        ELSE [q EXCEPT !.stateIndex = @ + 1]

Entries(m) == {k \in DOMAIN m : m[k] > 0}
Fits(m, k, limit) == m[k] > 0 \/ Cardinality(Entries(m)) < limit

(* Variant with a bug: a pair that does not fit is dropped uncounted. *)
reported_DropsSilently(r, a) ==
    LET pair == <<r.previousAction, a>>
        q == IF Fits(r.actions, a, ACTION_LIMIT)
             THEN [r EXCEPT !.actions[a] = @ + 1]
             ELSE [r EXCEPT !.droppedActionEvents = @ + 1]
        s == IF r.previousAction # NoAction /\ Fits(r.sequences, pair, SEQUENCE_LIMIT)
             THEN [q EXCEPT !.sequences[pair] = @ + 1]
             ELSE q
    IN  [s EXCEPT !.statesReported = @ + 1, !.pending = TRUE, !.previousAction = a]

(* A state was sent to the mirror: coverage counts its action, and the pair *)
(* it makes with the action before it.                                      *)
reported(r, a) ==
    LET pair == <<r.previousAction, a>>
        paired == r.previousAction # NoAction
        q == IF Fits(r.actions, a, ACTION_LIMIT)
             THEN [r EXCEPT !.actions[a] = @ + 1]
             ELSE [r EXCEPT !.droppedActionEvents = @ + 1]
        s == IF ~paired THEN q
             ELSE IF Fits(r.sequences, pair, SEQUENCE_LIMIT)
             THEN [q EXCEPT !.sequences[pair] = @ + 1]
             ELSE [q EXCEPT !.droppedSequenceEvents = @ + 1]
    IN  [s EXCEPT !.statesReported = @ + 1,
                  !.pending = TRUE,
                  !.previousAction = a]

(* Variant with a bug: the final state is not acknowledged. *)
complete_NoAcknowledge(r) == [r EXCEPT !.tracesCompleted = r.tracesStarted]

complete(r) ==
    LET q == acknowledge(r)
    IN  [q EXCEPT !.tracesCompleted = q.tracesStarted]
=============================================================================
