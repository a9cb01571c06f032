----------------------------- MODULE MCSchedule -----------------------------
(* Model of ScheduleBinding for TLC: two workers; the first is preempted at *)
(* its checkpoint by the whole of the second.                              *)
EXTENDS ScheduleBinding

CONSTANTS a1, a2, c

TwoActors == {a1, a2}
OneAsker == {a1}
OneCheckpoint == {c}
Preempted == << [actor |-> a1, checkpoint |-> c],
                [actor |-> a2, checkpoint |-> Completion],
                [actor |-> a1, checkpoint |-> Completion] >>
=============================================================================
