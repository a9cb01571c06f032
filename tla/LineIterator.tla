---------------------------- MODULE LineIterator ----------------------------
(***************************************************************************)
(* The async line iterator every inbound transport publishes its protocol  *)
(* lines through (lineIterator in src/transport.ts).  It is a queue with    *)
(* two ends that never hold something at the same time: lines nobody has   *)
(* asked for yet, and next() calls nobody has answered yet.                *)
(*                                                                         *)
(* The operators are the four closures the function returns; the modules   *)
(* that own a transport conjoin them with their own state.                 *)
(***************************************************************************)
EXTENDS Naturals, Sequences

CONSTANTS
    Readers,    \* identities of the next() calls
    NoLine      \* the value of a result that carries no line

VARIABLES
    buffer,     \* lines received and not yet read
    waiters,    \* pending next() calls, oldest first
    ended,      \* `closed`: no further line will be published
    failure,    \* `failure` is set: the iterator rejects
    got         \* got[r]: what the promise of next() call r settled with

iteratorVars == <<buffer, waiters, ended, failure, got>>

NoResult   == [tag |-> "pending", line |-> NoLine]
Value(l)   == [tag |-> "line", line |-> l]
EndOfLines == [tag |-> "done", line |-> NoLine]
Rejected   == [tag |-> "rejected", line |-> NoLine]

(* What a next() call can settle with when the lines are those of L. *)
NextResults(L) == [tag : {"line"}, line : L]
                  \cup [tag : {"pending", "done", "rejected"}, line : {NoLine}]

IteratorInit ==
    /\ buffer = <<>>
    /\ waiters = <<>>
    /\ ended = FALSE
    /\ failure = FALSE
    /\ got = [r \in Readers |-> NoResult]

Waiting(r) == \E i \in 1..Len(waiters) : waiters[i] = r

(* All pending next() calls settle with the same result. *)
SettleWaiters(result) ==
    /\ got' = [r \in Readers |-> IF Waiting(r) THEN result ELSE got[r]]
    /\ waiters' = <<>>

(* Variant with a bug: a line handed to a waiter is buffered as well. *)
emit_AlsoBuffers(line) ==
    /\ buffer' = Append(buffer, line)
    /\ \/ /\ waiters # <<>>
          /\ got' = [got EXCEPT ![Head(waiters)] = Value(line)]
          /\ waiters' = Tail(waiters)
       \/ /\ waiters = <<>>
          /\ UNCHANGED <<waiters, got>>
    /\ UNCHANGED <<ended, failure>>

(* Variant with a bug: the newest waiter is served first (pop for shift). *)
emit_NewestFirst(line) ==
    LET n == Len(waiters)
    IN  \/ /\ n > 0
           /\ got' = [got EXCEPT ![waiters[n]] = Value(line)]
           /\ waiters' = SubSeq(waiters, 1, n - 1)
           /\ UNCHANGED <<buffer, ended, failure>>
        \/ /\ n = 0
           /\ buffer' = Append(buffer, line)
           /\ UNCHANGED <<waiters, ended, failure, got>>

(* The oldest waiter gets the line, else it is kept for a later next(). *)
emit(line) ==
    \/ /\ waiters # <<>>
       /\ got' = [got EXCEPT ![Head(waiters)] = Value(line)]
       /\ waiters' = Tail(waiters)
       /\ UNCHANGED <<buffer, ended, failure>>
    \/ /\ waiters = <<>>
       /\ buffer' = Append(buffer, line)
       /\ UNCHANGED <<waiters, ended, failure, got>>

(* Variant with a bug: the lines of one event are published last to first. *)
emitAll_Reversed(lines) ==
    LET n == IF Len(lines) < Len(waiters) THEN Len(lines) ELSE Len(waiters)
        back(i) == lines[Len(lines) + 1 - i]
    IN  /\ got' = [r \in Readers |->
                     IF \E i \in 1..n : waiters[i] = r
                     THEN Value(back(CHOOSE i \in 1..n : waiters[i] = r))
                     ELSE got[r]]
        /\ waiters' = SubSeq(waiters, n + 1, Len(waiters))
        /\ buffer' = buffer \o [i \in 1..(Len(lines) - n) |-> back(n + i)]
        /\ UNCHANGED <<ended, failure>>

(* emit for every line of one data event, in one step of the event loop. *)
emitAll(lines) ==
    LET n == IF Len(lines) < Len(waiters) THEN Len(lines) ELSE Len(waiters)
    IN  /\ got' = [r \in Readers |->
                     IF \E i \in 1..n : waiters[i] = r
                     THEN Value(lines[CHOOSE i \in 1..n : waiters[i] = r])
                     ELSE got[r]]
        /\ waiters' = SubSeq(waiters, n + 1, Len(waiters))
        /\ buffer' = buffer \o SubSeq(lines, n + 1, Len(lines))
        /\ UNCHANGED <<ended, failure>>

(* Variant with a bug: the pending next() calls are forgotten. *)
finish_LeavesWaiters ==
    /\ ended' = TRUE
    /\ UNCHANGED <<buffer, waiters, failure, got>>

(* Orderly end: what is buffered can still be read. *)
finish ==
    /\ ended' = TRUE
    /\ IF ended THEN UNCHANGED <<waiters, got>> ELSE SettleWaiters(EndOfLines)
    /\ UNCHANGED <<buffer, failure>>

(* Framing failure: what is buffered is discarded. *)
fail ==
    /\ ended' = TRUE
    /\ IF ended
       THEN UNCHANGED <<buffer, waiters, failure, got>>
       ELSE /\ failure' = TRUE
            /\ buffer' = <<>>
            /\ SettleWaiters(Rejected)

(* next() call r: failure, then buffered lines, then the end, then wait. *)
pull(r) ==
    /\ got[r] = NoResult
    /\ \/ /\ failure
          /\ got' = [got EXCEPT ![r] = Rejected]
          /\ UNCHANGED <<buffer, waiters>>
       \/ /\ ~failure /\ buffer # <<>>
          /\ got' = [got EXCEPT ![r] = Value(Head(buffer))]
          /\ buffer' = Tail(buffer)
          /\ UNCHANGED waiters
       \/ /\ ~failure /\ buffer = <<>> /\ ended
          /\ got' = [got EXCEPT ![r] = EndOfLines]
          /\ UNCHANGED <<buffer, waiters>>
       \/ /\ ~failure /\ buffer = <<>> /\ ~ended
          /\ waiters' = Append(waiters, r)
          /\ UNCHANGED <<buffer, got>>
    /\ UNCHANGED <<ended, failure>>
=============================================================================
