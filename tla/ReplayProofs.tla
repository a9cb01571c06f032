---------------------------- MODULE ReplayProofs ----------------------------
(***************************************************************************)
(* Proofs about Replay and ReplayRecorder: the report counts what happened,*)
(* its coverage maps stay within their limits and lose nothing uncounted,  *)
(* nothing is reported after the end, and the first failure is the one the *)
(* caller gets, for any set of actions, any limits and any number of       *)
(* messages.                                                               *)
(***************************************************************************)
EXTENDS Replay, FiniteSetTheorems, SequenceTheorems, TLAPS

-----------------------------------------------------------------------------
(* The inductive invariant: the recorder and what happened *)

Events == {"initial", "step", "report", "ok", "done"}

(* Positions, AcceptedReports and AcceptedSteps, of any log *)
Places(l, e) == {i \in 1 .. Len(l) : l[i] = e}
Accepted(l) == Places(l, "report") \ {Len(l)}
Stepped(l) == {i \in Accepted(l) : l[i - 1] = "step"}

Counted(r, l) ==
    /\ r.tracesStarted = Cardinality(Places(l, "initial"))
    /\ r.statesReported = Cardinality(Places(l, "report"))
    /\ r.statesMatched = Cardinality(Accepted(l))
    /\ r.stepsCompleted = Cardinality(Stepped(l))
    /\ Places(l, "done") # {} \/ r.tracesStarted = 0 => r.tracesCompleted = r.tracesStarted
    /\ Places(l, "done") = {} /\ r.tracesStarted > 0 => r.tracesCompleted + 1 = r.tracesStarted

(* A report waits for its acceptance exactly while nothing followed it, and *)
(* the position in the trace tells whether it was a step's.                 *)
Waiting(r, l) ==
    /\ r.pending <=> Len(l) > 0 /\ l[Len(l)] = "report"
    /\ r.pending => (l[Len(l) - 1] = "step" <=> r.stateIndex > 0)

(* No log begins with a report. *)
Led(l) == \A i \in Places(l, "report") : i > 1

(* The runner has begun a state and not reported it yet. *)
Begun(r, l) ==
    Len(l) > 0 /\ l[Len(l)] \in {"initial", "step"} /\ (l[Len(l)] = "step" <=> r.stateIndex > 0)

Bounded(m, limit) == IsFiniteSet(Entries(m)) /\ Cardinality(Entries(m)) <= limit
Covered(r) == Bounded(r.actions, ACTION_LIMIT) /\ Bounded(r.sequences, SEQUENCE_LIMIT)

RecorderInv(r, l) ==
    /\ r \in Recorders /\ l \in Seq(Events)
    /\ Counted(r, l) /\ Waiting(r, l) /\ Led(l) /\ Covered(r)

-----------------------------------------------------------------------------
(* The inductive invariant: the runner *)

Ended == pc \in {"closing", "settled"}

RunnerInv ==
    /\ pc \in {"action", "reporting"} => message \in Opening /\ Begun(recorder, log)
    /\ outcome # "none" <=> Ended
    /\ transport = "closed" <=> pc = "settled"
    /\ report = "passed" <=> outcome = "passed"
    /\ outcome = "passed" => ~recorder.pending /\ Places(log, "done") # {}
    /\ Places(log, "done") # {} => Ended
    /\ late => Ended \/ (pc = "action" /\ race = "value" /\ due)
    /\ race = "terminal" => signal # "active"

IInv == TypeOK /\ RecorderInv(recorder, log) /\ RunnerInv

-----------------------------------------------------------------------------
(* What an event adds to a log *)

(* An appended event is the last one, and the only one that is new. *)
LEMMA AppendedIsLast ==
    ASSUME NEW l \in Seq(Events), NEW e \in Events
    PROVE  LET m == Append(l, e)
           IN  /\ m \in Seq(Events)
               /\ Len(l) \in Nat /\ Len(m) = Len(l) + 1
               /\ m[Len(m)] = e /\ \A i \in 1 .. Len(l) : m[i] = l[i]
    BY DEF Events

(* The places of an event are finitely many positions of the log. *)
LEMMA PlacesAreFinite ==
    ASSUME NEW l \in Seq(Events), NEW e
    PROVE  /\ IsFiniteSet(Places(l, e)) /\ Cardinality(Places(l, e)) \in Nat
           /\ \A S \in SUBSET Places(l, e) : IsFiniteSet(S) /\ Cardinality(S) \in Nat
<1>1. Len(l) \in Nat
    OBVIOUS
<1>2. IsFiniteSet(1 .. Len(l))
    BY <1>1, FS_Interval
<1>3. Places(l, e) \in SUBSET (1 .. Len(l))
    BY DEF Places
<1>4. \A S \in SUBSET (1 .. Len(l)) : IsFiniteSet(S) /\ Cardinality(S) \in Nat
    BY <1>2, FS_Subset, FS_CardinalityType
<1>. QED
    BY <1>3, <1>4

(* An event adds its own place and moves no other. *)
LEMMA PlacesOfAppend ==
    ASSUME NEW l \in Seq(Events), NEW e \in Events
    PROVE  LET m == Append(l, e)
           IN  /\ Places(m, e) = Places(l, e) \cup {Len(l) + 1}
               /\ \A f \in Events : f # e => Places(m, f) = Places(l, f)
               /\ Len(l) + 1 \notin Places(l, e)
               /\ Cardinality(Places(m, e)) = Cardinality(Places(l, e)) + 1
<1>. DEFINE m == Append(l, e)
<1>1. /\ m \in Seq(Events)
      /\ Len(l) \in Nat /\ Len(m) = Len(l) + 1
      /\ m[Len(m)] = e /\ \A i \in 1 .. Len(l) : m[i] = l[i]
    BY AppendedIsLast
<1>. HIDE DEF m
<1>2. 1 .. Len(m) = 1 .. Len(l) \cup {Len(l) + 1}
    BY <1>1
<1>3. Places(m, e) = Places(l, e) \cup {Len(l) + 1}
    BY <1>1, <1>2 DEF Places
<1>4. \A f \in Events : f # e => Places(m, f) = Places(l, f)
    BY <1>1, <1>2 DEF Places
<1>5. Len(l) + 1 \notin Places(l, e)
    BY <1>1 DEF Places
<1>6. IsFiniteSet(Places(l, e))
    BY PlacesAreFinite
<1>7. Cardinality(Places(m, e)) = Cardinality(Places(l, e)) + 1
    BY <1>3, <1>5, <1>6, FS_AddElement
<1>. QED
    BY <1>3, <1>4, <1>5, <1>7 DEF m

(* What is accepted once an event follows: every report before it. *)
LEMMA AcceptedOfAppend ==
    ASSUME NEW l \in Seq(Events), NEW e \in Events
    PROVE  Accepted(Append(l, e)) = Places(l, "report")
<1>1. Len(Append(l, e)) = Len(l) + 1 /\ Len(l) \in Nat
    BY AppendedIsLast
<1>2. Len(l) + 1 \notin Places(l, "report")
    BY <1>1 DEF Places
<1>3. CASE e = "report"
  <2>1. Places(Append(l, e), "report") = Places(l, "report") \cup {Len(l) + 1}
      BY <1>3, PlacesOfAppend
  <2>. QED
      BY <2>1, <1>1, <1>2 DEF Accepted
<1>4. CASE e # "report"
  <2>1. Places(Append(l, e), "report") = Places(l, "report")
      BY <1>4, PlacesOfAppend DEF Events
  <2>. QED
      BY <2>1, <1>1, <1>2 DEF Accepted
<1>. QED
    BY <1>3, <1>4

(* The event that follows a report accepts it, and no other event accepts  *)
(* anything.                                                               *)
LEMMA AcceptanceIsCounted ==
    ASSUME NEW l \in Seq(Events), NEW e \in Events, Led(l)
    PROVE  LET waits == Len(l) > 0 /\ l[Len(l)] = "report"
               m == Append(l, e)
           IN  /\ waits => Cardinality(Accepted(m)) = Cardinality(Accepted(l)) + 1
               /\ ~waits => Cardinality(Accepted(m)) = Cardinality(Accepted(l))
               /\ waits /\ l[Len(l) - 1] = "step"
                    => Cardinality(Stepped(m)) = Cardinality(Stepped(l)) + 1
               /\ ~(waits /\ l[Len(l) - 1] = "step")
                    => Cardinality(Stepped(m)) = Cardinality(Stepped(l))
<1>. DEFINE m == Append(l, e)
            waits == Len(l) > 0 /\ l[Len(l)] = "report"
            Steps(S) == {i \in S : l[i - 1] = "step"}
<1>1. Len(l) \in Nat /\ \A i \in 1 .. Len(l) : m[i] = l[i]
    BY AppendedIsLast
<1>2. Accepted(m) = Places(l, "report")
    BY AcceptedOfAppend
<1>. HIDE DEF m
<1>3. Stepped(m) = Steps(Places(l, "report"))
  <2>1. \A i \in Places(l, "report") : i - 1 \in 1 .. Len(l)
      BY <1>1 DEF Led, Places
  <2>. QED
      BY <1>1, <1>2, <2>1 DEF Stepped
<1>4. Stepped(l) = Steps(Accepted(l))
    BY DEF Stepped
<1>5. /\ IsFiniteSet(Accepted(l)) /\ Len(l) \notin Accepted(l)
      /\ IsFiniteSet(Stepped(l)) /\ Len(l) \notin Stepped(l)
  <2>1. Accepted(l) \in SUBSET Places(l, "report") /\ Stepped(l) \in SUBSET Places(l, "report")
      BY DEF Accepted, Stepped
  <2>. QED
      BY <2>1, PlacesAreFinite DEF Accepted, Stepped
<1>6. waits => Accepted(m) = Accepted(l) \cup {Len(l)}
    BY <1>1, <1>2 DEF Accepted, Places
<1>7. ~waits => Accepted(m) = Accepted(l)
    BY <1>1, <1>2 DEF Accepted, Places
<1>8. waits /\ l[Len(l) - 1] = "step" => Stepped(m) = Stepped(l) \cup {Len(l)}
    BY <1>2, <1>3, <1>4, <1>6
<1>9. ~(waits /\ l[Len(l) - 1] = "step") => Stepped(m) = Stepped(l)
    BY <1>2, <1>3, <1>4, <1>6, <1>7
<1>10. \A T, x : IsFiniteSet(T) /\ x \notin T => Cardinality(T \cup {x}) = Cardinality(T) + 1
    BY FS_AddElement
<1>11. /\ waits => Cardinality(Accepted(m)) = Cardinality(Accepted(l)) + 1
       /\ ~waits => Cardinality(Accepted(m)) = Cardinality(Accepted(l))
    BY <1>5, <1>6, <1>7, <1>10
<1>12. /\ waits /\ l[Len(l) - 1] = "step"
            => Cardinality(Stepped(m)) = Cardinality(Stepped(l)) + 1
       /\ ~(waits /\ l[Len(l) - 1] = "step")
            => Cardinality(Stepped(m)) = Cardinality(Stepped(l))
    BY <1>5, <1>8, <1>9, <1>10
<1>. QED
    BY <1>11, <1>12 DEF m

-----------------------------------------------------------------------------
(* What the recorder's methods do to the report *)

(* Counters, positions and actions that are set keep a recorder's type. *)
LEMMA RecorderFields ==
    ASSUME NEW r \in Recorders, NEW m \in Nat, NEW n \in Nat
    PROVE  /\ [r EXCEPT !.pending = FALSE, !.statesMatched = m, !.stepsCompleted = n]
                \in Recorders
           /\ [r EXCEPT !.tracesCompleted = m, !.tracesStarted = n,
                        !.stateIndex = 0, !.previousAction = NoAction] \in Recorders
<1>1. \A q \in Recorders :
        /\ [q EXCEPT !.pending = FALSE] \in Recorders
        /\ \A k \in Nat : [q EXCEPT !.statesMatched = k] \in Recorders
        /\ \A k \in Nat : [q EXCEPT !.stepsCompleted = k] \in Recorders
        /\ \A k \in Nat : [q EXCEPT !.tracesCompleted = k] \in Recorders
        /\ \A k \in Nat : [q EXCEPT !.tracesStarted = k] \in Recorders
        /\ \A k \in Nat : [q EXCEPT !.stateIndex = k] \in Recorders
        /\ [q EXCEPT !.previousAction = NoAction] \in Recorders
    BY DEF Recorders
<1>2. [r EXCEPT !.pending = FALSE, !.statesMatched = m, !.stepsCompleted = n]
        = [[[r EXCEPT !.pending = FALSE] EXCEPT !.statesMatched = m] EXCEPT !.stepsCompleted = n]
    BY DEF Recorders
<1>3. [r EXCEPT !.tracesCompleted = m, !.tracesStarted = n, !.stateIndex = 0,
                !.previousAction = NoAction]
        = [[[[r EXCEPT !.tracesCompleted = m] EXCEPT !.tracesStarted = n]
             EXCEPT !.stateIndex = 0] EXCEPT !.previousAction = NoAction]
    BY DEF Recorders
<1>. QED
    BY <1>1, <1>2, <1>3

(* acknowledge counts what the next event of the log accepts. *)
LEMMA AcknowledgeCounts ==
    ASSUME NEW r, NEW l, RecorderInv(r, l), NEW e \in Events
    PROVE  LET q == acknowledge(r)
               m == Append(l, e)
           IN  /\ q \in Recorders /\ ~q.pending
               /\ q.statesMatched = Cardinality(Accepted(m))
               /\ q.stepsCompleted = Cardinality(Stepped(m))
               /\ q.tracesStarted = r.tracesStarted
               /\ q.tracesCompleted = r.tracesCompleted
               /\ q.statesReported = r.statesReported
               /\ q.stateIndex = r.stateIndex
               /\ q.actions = r.actions /\ q.sequences = r.sequences
<1>. DEFINE m == Append(l, e)
            waits == Len(l) > 0 /\ l[Len(l)] = "report"
<1>1. r \in Recorders /\ l \in Seq(Events) /\ Led(l)
    BY DEF RecorderInv
<1>2. /\ waits => Cardinality(Accepted(m)) = Cardinality(Accepted(l)) + 1
      /\ ~waits => Cardinality(Accepted(m)) = Cardinality(Accepted(l))
      /\ waits /\ l[Len(l) - 1] = "step"
           => Cardinality(Stepped(m)) = Cardinality(Stepped(l)) + 1
      /\ ~(waits /\ l[Len(l) - 1] = "step")
           => Cardinality(Stepped(m)) = Cardinality(Stepped(l))
    BY <1>1, AcceptanceIsCounted
<1>3. /\ r.statesMatched = Cardinality(Accepted(l))
      /\ r.stepsCompleted = Cardinality(Stepped(l))
    BY DEF RecorderInv, Counted
<1>4. (r.pending <=> waits) /\ (r.pending => (l[Len(l) - 1] = "step" <=> r.stateIndex > 0))
    BY DEF RecorderInv, Waiting
<1>. HIDE DEF m, waits
<1>5. CASE r.pending /\ r.stateIndex > 0
  <2>1. acknowledge(r) = [r EXCEPT !.pending = FALSE, !.statesMatched = r.statesMatched + 1,
                                   !.stepsCompleted = r.stepsCompleted + 1]
      BY <1>5 DEF acknowledge
  <2>2. r.statesMatched + 1 \in Nat /\ r.stepsCompleted \in Nat /\ r.stepsCompleted + 1 \in Nat
      BY <1>1 DEF Recorders
  <2>3. acknowledge(r) \in Recorders
    <3>1. \A k, n \in Nat : [r EXCEPT !.pending = FALSE, !.statesMatched = k,
                                     !.stepsCompleted = n] \in Recorders
        BY <1>1, RecorderFields
    <3>. QED
        BY <2>1, <2>2, <3>1
  <2>. QED
      BY <1>1, <1>2, <1>3, <1>4, <1>5, <2>1, <2>3 DEF Recorders, m
<1>7. CASE r.pending /\ ~(r.stateIndex > 0)
  <2>1. acknowledge(r) = [r EXCEPT !.pending = FALSE, !.statesMatched = r.statesMatched + 1,
                                   !.stepsCompleted = r.stepsCompleted]
      BY <1>7 DEF acknowledge
  <2>2. r.statesMatched + 1 \in Nat /\ r.stepsCompleted \in Nat /\ r.stepsCompleted + 1 \in Nat
      BY <1>1 DEF Recorders
  <2>3. acknowledge(r) \in Recorders
    <3>1. \A k, n \in Nat : [r EXCEPT !.pending = FALSE, !.statesMatched = k,
                                     !.stepsCompleted = n] \in Recorders
        BY <1>1, RecorderFields
    <3>. QED
        BY <2>1, <2>2, <3>1
  <2>. QED
      BY <1>1, <1>2, <1>3, <1>4, <1>7, <2>1, <2>3 DEF Recorders, m
<1>6. CASE ~r.pending
    BY <1>1, <1>2, <1>3, <1>4, <1>6 DEF acknowledge, Recorders, m
<1>. QED
    BY <1>5, <1>6, <1>7

(* An event that is not a report leaves the reports, and what leads them,  *)
(* where they were.                                                        *)
LEMMA OtherEventsLead ==
    ASSUME NEW r, NEW l, RecorderInv(r, l), NEW e \in Events \ {"report"}
    PROVE  LET m == Append(l, e)
           IN  /\ m \in Seq(Events) /\ Led(m)
               /\ Len(m) > 0 /\ m[Len(m)] = e
               /\ r.statesReported = Cardinality(Places(m, "report"))
<1>1. l \in Seq(Events) /\ Led(l) /\ r.statesReported = Cardinality(Places(l, "report"))
    BY DEF RecorderInv, Counted
<1>2. Places(Append(l, e), "report") = Places(l, "report")
    BY <1>1, PlacesOfAppend DEF Events
<1>3. /\ Append(l, e) \in Seq(Events) /\ Len(l) \in Nat
      /\ Len(Append(l, e)) = Len(l) + 1 /\ Append(l, e)[Len(Append(l, e))] = e
    BY <1>1, AppendedIsLast
<1>. QED
    BY <1>1, <1>2, <1>3 DEF Led

(* A mirror's "ok": the state is matched, and nothing has begun. *)
LEMMA AcknowledgeKeeps ==
    ASSUME NEW r, NEW l, RecorderInv(r, l)
    PROVE  /\ RecorderInv(acknowledge(r), Append(l, "ok"))
           /\ Places(Append(l, "ok"), "done") = Places(l, "done")
           /\ acknowledge(r).statesReported = r.statesReported
<1>. DEFINE q == acknowledge(r)
            m == Append(l, "ok")
<1>1. /\ q \in Recorders /\ ~q.pending
      /\ q.statesMatched = Cardinality(Accepted(m))
      /\ q.stepsCompleted = Cardinality(Stepped(m))
      /\ q.tracesStarted = r.tracesStarted
      /\ q.tracesCompleted = r.tracesCompleted
      /\ q.statesReported = r.statesReported
      /\ q.actions = r.actions /\ q.sequences = r.sequences
    BY AcknowledgeCounts DEF Events
<1>2. /\ m \in Seq(Events) /\ Led(m)
      /\ Len(m) > 0 /\ m[Len(m)] = "ok"
      /\ r.statesReported = Cardinality(Places(m, "report"))
    BY OtherEventsLead DEF Events
<1>3. l \in Seq(Events) /\ Counted(r, l) /\ Covered(r)
    BY DEF RecorderInv
<1>4. Places(m, "initial") = Places(l, "initial") /\ Places(m, "done") = Places(l, "done")
    BY <1>3, PlacesOfAppend DEF Events
<1>. HIDE DEF q, m
<1>5. Counted(q, m)
    BY <1>1, <1>2, <1>3, <1>4 DEF Counted
<1>6. Waiting(q, m) /\ Covered(q)
    BY <1>1, <1>2, <1>3 DEF Waiting, Covered
<1>. QED
    BY <1>1, <1>2, <1>4, <1>5, <1>6 DEF RecorderInv, q, m

(* A trace begins: the one before it is complete. *)
LEMMA BeginTraceKeeps ==
    ASSUME NEW r, NEW l, RecorderInv(r, l), Places(l, "done") = {}
    PROVE  LET q == begin(r, TRUE)
               m == Append(l, "initial")
           IN  /\ RecorderInv(q, m) /\ Begun(q, m)
               /\ Places(m, "done") = {} /\ q.statesReported = r.statesReported
<1>. DEFINE a == acknowledge(r)
            q == begin(r, TRUE)
            m == Append(l, "initial")
<1>1. /\ a \in Recorders /\ ~a.pending
      /\ a.statesMatched = Cardinality(Accepted(m))
      /\ a.stepsCompleted = Cardinality(Stepped(m))
      /\ a.tracesStarted = r.tracesStarted
      /\ a.tracesCompleted = r.tracesCompleted
      /\ a.statesReported = r.statesReported
      /\ a.actions = r.actions /\ a.sequences = r.sequences
    BY AcknowledgeCounts DEF Events
<1>2. q = [a EXCEPT !.tracesCompleted = IF a.tracesStarted > 0 THEN @ + 1 ELSE @,
                    !.tracesStarted = @ + 1,
                    !.stateIndex = 0,
                    !.previousAction = NoAction]
    BY DEF begin
<1>3. /\ m \in Seq(Events) /\ Led(m)
      /\ Len(m) > 0 /\ m[Len(m)] = "initial"
      /\ r.statesReported = Cardinality(Places(m, "report"))
    BY OtherEventsLead DEF Events
<1>4. l \in Seq(Events) /\ Counted(r, l) /\ Covered(r) /\ r \in Recorders
    BY DEF RecorderInv
<1>5. Cardinality(Places(m, "initial")) = Cardinality(Places(l, "initial")) + 1
    BY <1>4, PlacesOfAppend DEF Events
<1>6. Places(m, "done") = {}
    BY <1>4, PlacesOfAppend DEF Events
<1>. HIDE DEF q, m, a
<1>7. /\ q \in Recorders /\ ~q.pending /\ q.stateIndex = 0
      /\ q.statesMatched = a.statesMatched
      /\ q.stepsCompleted = a.stepsCompleted
      /\ q.tracesStarted = a.tracesStarted + 1
      /\ a.tracesStarted > 0 => q.tracesCompleted = a.tracesCompleted + 1
      /\ a.tracesStarted = 0 => q.tracesCompleted = a.tracesCompleted
      /\ q.statesReported = a.statesReported
      /\ q.actions = a.actions /\ q.sequences = a.sequences
  <2>1. CASE a.tracesStarted > 0
    <3>1. q = [a EXCEPT !.tracesCompleted = @ + 1, !.tracesStarted = @ + 1,
                        !.stateIndex = 0, !.previousAction = NoAction]
        BY <1>2, <2>1
    <3>2. /\ a.tracesStarted + 1 \in Nat
          /\ a.tracesCompleted \in Nat /\ a.tracesCompleted + 1 \in Nat
        BY <1>1 DEF Recorders
    <3>3. q \in Recorders
        BY <1>1, <3>1, <3>2, RecorderFields
    <3>. QED
        BY <1>1, <2>1, <3>1, <3>3 DEF Recorders
  <2>2. CASE ~(a.tracesStarted > 0)
    <3>1. q = [a EXCEPT !.tracesCompleted = @, !.tracesStarted = @ + 1,
                        !.stateIndex = 0, !.previousAction = NoAction]
        BY <1>2, <2>2
    <3>2. /\ a.tracesStarted + 1 \in Nat
          /\ a.tracesCompleted \in Nat /\ a.tracesCompleted + 1 \in Nat
        BY <1>1 DEF Recorders
    <3>3. q \in Recorders
        BY <1>1, <3>1, <3>2, RecorderFields
    <3>. QED
        BY <1>1, <2>2, <3>1, <3>3 DEF Recorders
  <2>. QED
      BY <2>1, <2>2
<1>8. /\ r.tracesStarted = 0 => r.tracesCompleted = 0
      /\ r.tracesStarted > 0 => r.tracesCompleted + 1 = r.tracesStarted
      /\ r.tracesStarted = Cardinality(Places(l, "initial"))
      /\ r.tracesStarted \in Nat /\ r.tracesCompleted \in Nat
    BY <1>4 DEF Counted, Recorders
<1>9. Counted(q, m)
    BY <1>1, <1>3, <1>5, <1>6, <1>7, <1>8 DEF Counted
<1>10. Waiting(q, m) /\ Covered(q) /\ Begun(q, m)
    BY <1>1, <1>3, <1>4, <1>7 DEF Waiting, Covered, Begun
<1>. QED
    BY <1>1, <1>3, <1>6, <1>7, <1>9, <1>10 DEF RecorderInv, q, m

(* A step begins: the position in the trace is past its initial state. *)
LEMMA BeginStepKeeps ==
    ASSUME NEW r, NEW l, RecorderInv(r, l), Places(l, "done") = {}
    PROVE  LET q == begin(r, FALSE)
               m == Append(l, "step")
           IN  /\ RecorderInv(q, m) /\ Begun(q, m)
               /\ Places(m, "done") = {} /\ q.statesReported = r.statesReported
<1>. DEFINE a == acknowledge(r)
            q == begin(r, FALSE)
            m == Append(l, "step")
<1>1. /\ a \in Recorders /\ ~a.pending
      /\ a.statesMatched = Cardinality(Accepted(m))
      /\ a.stepsCompleted = Cardinality(Stepped(m))
      /\ a.tracesStarted = r.tracesStarted
      /\ a.tracesCompleted = r.tracesCompleted
      /\ a.statesReported = r.statesReported
      /\ a.actions = r.actions /\ a.sequences = r.sequences
    BY AcknowledgeCounts DEF Events
<1>2. q = [a EXCEPT !.stateIndex = @ + 1]
    BY DEF begin
<1>3. /\ m \in Seq(Events) /\ Led(m)
      /\ Len(m) > 0 /\ m[Len(m)] = "step"
      /\ r.statesReported = Cardinality(Places(m, "report"))
    BY OtherEventsLead DEF Events
<1>4. l \in Seq(Events) /\ Counted(r, l) /\ Covered(r)
    BY DEF RecorderInv
<1>5. Places(m, "initial") = Places(l, "initial") /\ Places(m, "done") = {}
    BY <1>4, PlacesOfAppend DEF Events
<1>. HIDE DEF q, m, a
<1>6. /\ q \in Recorders /\ ~q.pending /\ q.stateIndex > 0
      /\ q.statesMatched = a.statesMatched
      /\ q.stepsCompleted = a.stepsCompleted
      /\ q.tracesStarted = a.tracesStarted
      /\ q.tracesCompleted = a.tracesCompleted
      /\ q.statesReported = a.statesReported
      /\ q.actions = a.actions /\ q.sequences = a.sequences
    BY <1>1, <1>2 DEF Recorders
<1>7. Counted(q, m)
    BY <1>1, <1>3, <1>4, <1>5, <1>6 DEF Counted
<1>8. Waiting(q, m) /\ Covered(q) /\ Begun(q, m)
    BY <1>1, <1>3, <1>4, <1>6 DEF Waiting, Covered, Begun
<1>. QED
    BY <1>1, <1>3, <1>5, <1>6, <1>7, <1>8 DEF RecorderInv, q, m

(* The mirror is done: every trace that started is complete, and no report *)
(* is left to accept.                                                      *)
LEMMA CompleteKeeps ==
    ASSUME NEW r, NEW l, RecorderInv(r, l)
    PROVE  LET q == complete(r)
               m == Append(l, "done")
           IN  /\ RecorderInv(q, m) /\ ~q.pending
               /\ Places(m, "done") # {} /\ q.statesReported = r.statesReported
<1>. DEFINE a == acknowledge(r)
            q == complete(r)
            m == Append(l, "done")
<1>1. /\ a \in Recorders /\ ~a.pending
      /\ a.statesMatched = Cardinality(Accepted(m))
      /\ a.stepsCompleted = Cardinality(Stepped(m))
      /\ a.tracesStarted = r.tracesStarted
      /\ a.statesReported = r.statesReported
      /\ a.actions = r.actions /\ a.sequences = r.sequences
    BY AcknowledgeCounts DEF Events
<1>2. q = [a EXCEPT !.tracesCompleted = a.tracesStarted]
    BY DEF complete
<1>3. /\ m \in Seq(Events) /\ Led(m)
      /\ Len(m) > 0 /\ m[Len(m)] = "done"
      /\ r.statesReported = Cardinality(Places(m, "report"))
    BY OtherEventsLead DEF Events
<1>4. l \in Seq(Events) /\ Counted(r, l) /\ Covered(r)
    BY DEF RecorderInv
<1>5. Places(m, "initial") = Places(l, "initial") /\ Places(m, "done") # {}
    BY <1>4, PlacesOfAppend DEF Events
<1>. HIDE DEF q, m, a
<1>6. /\ q \in Recorders /\ ~q.pending
      /\ q.statesMatched = a.statesMatched
      /\ q.stepsCompleted = a.stepsCompleted
      /\ q.tracesStarted = a.tracesStarted
      /\ q.tracesCompleted = a.tracesStarted
      /\ q.statesReported = a.statesReported
      /\ q.actions = a.actions /\ q.sequences = a.sequences
    BY <1>1, <1>2 DEF Recorders
<1>7. Counted(q, m)
    BY <1>1, <1>3, <1>4, <1>5, <1>6 DEF Counted
<1>8. Waiting(q, m) /\ Covered(q)
    BY <1>1, <1>3, <1>4, <1>6 DEF Waiting, Covered
<1>. QED
    BY <1>1, <1>3, <1>5, <1>6, <1>7, <1>8 DEF RecorderInv, q, m

(* A map that takes a key only when it fits stays within its limit. *)
LEMMA BumpIsBounded ==
    ASSUME NEW S, NEW m \in [S -> Nat], NEW k \in S, NEW limit \in Nat,
           Bounded(m, limit), Fits(m, k, limit)
    PROVE  LET n == [m EXCEPT ![k] = @ + 1]
           IN  n \in [S -> Nat] /\ Bounded(n, limit)
<1>. DEFINE n == [m EXCEPT ![k] = @ + 1]
<1>1. n \in [S -> Nat] /\ Entries(n) = Entries(m) \cup {k}
    BY DEF Entries
<1>. HIDE DEF n
<1>2. IsFiniteSet(Entries(m)) /\ Cardinality(Entries(m)) \in Nat
      /\ Cardinality(Entries(m)) <= limit
    BY FS_CardinalityType DEF Bounded
<1>3. CASE m[k] > 0
  <2>1. Entries(n) = Entries(m)
      BY <1>1, <1>3 DEF Entries
  <2>. QED
      BY <1>1, <1>2, <2>1 DEF Bounded, n
<1>4. CASE ~(m[k] > 0)
  <2>1. k \notin Entries(m) /\ Cardinality(Entries(m)) < limit
      BY <1>4 DEF Entries, Fits
  <2>2. IsFiniteSet(Entries(n)) /\ Cardinality(Entries(n)) = Cardinality(Entries(m)) + 1
      BY <1>1, <1>2, <2>1, FS_AddElement
  <2>. QED
      BY <1>1, <1>2, <2>1, <2>2 DEF Bounded, n
<1>. QED
    BY <1>3, <1>4 DEF n

(* A state is reported that had begun: it waits for its acceptance, and    *)
(* the coverage maps stay within their limits.                             *)
LEMMA ReportedKeeps ==
    ASSUME NEW r, NEW l, RecorderInv(r, l), Begun(r, l), NEW x \in Actions
    PROVE  LET t == reported(r, x)
               m == Append(l, "report")
           IN  RecorderInv(t, m) /\ Places(m, "done") = Places(l, "done")
<1>. DEFINE m == Append(l, "report")
            pair == <<r.previousAction, x>>
            q == IF Fits(r.actions, x, ACTION_LIMIT)
                 THEN [r EXCEPT !.actions[x] = @ + 1]
                 ELSE [r EXCEPT !.droppedActionEvents = @ + 1]
            s == IF ~(r.previousAction # NoAction) THEN q
                 ELSE IF Fits(r.sequences, pair, SEQUENCE_LIMIT)
                 THEN [q EXCEPT !.sequences[pair] = @ + 1]
                 ELSE [q EXCEPT !.droppedSequenceEvents = @ + 1]
            t == [s EXCEPT !.statesReported = @ + 1, !.pending = TRUE, !.previousAction = x]
            Like(u) == /\ u \in Recorders /\ Covered(u)
                       /\ u.tracesStarted = r.tracesStarted
                       /\ u.tracesCompleted = r.tracesCompleted
                       /\ u.statesReported = r.statesReported
                       /\ u.statesMatched = r.statesMatched
                       /\ u.stepsCompleted = r.stepsCompleted
                       /\ u.stateIndex = r.stateIndex
<1>1. /\ r \in Recorders /\ l \in Seq(Events) /\ Counted(r, l) /\ Waiting(r, l)
      /\ Led(l) /\ Covered(r)
    BY DEF RecorderInv
<1>2. reported(r, x) = t
    BY DEF reported
<1>3. /\ r.actions \in [Actions -> Nat] /\ r.sequences \in [Actions \X Actions -> Nat]
      /\ r.previousAction \in Actions \cup {NoAction}
    BY <1>1 DEF Recorders
<1>4. Like(q) /\ q.sequences = r.sequences
  <2>1. CASE Fits(r.actions, x, ACTION_LIMIT)
    <3>. DEFINE n == [r.actions EXCEPT ![x] = @ + 1]
    <3>1. Bounded(r.actions, ACTION_LIMIT)
        BY <1>1 DEF Covered
    <3>2. n \in [Actions -> Nat] /\ Bounded(n, ACTION_LIMIT)
        BY <1>3, <2>1, <3>1, RecorderLimits, BumpIsBounded
    <3>. HIDE DEF n
    <3>3. q = [r EXCEPT !.actions = n]
        BY <2>1 DEF n
    <3>. HIDE DEF q
    <3>4. q \in Recorders
        BY <1>1, <3>2, <3>3 DEF Recorders
    <3>5. /\ q.actions = n /\ q.sequences = r.sequences
          /\ q.tracesStarted = r.tracesStarted
          /\ q.tracesCompleted = r.tracesCompleted
          /\ q.statesReported = r.statesReported
          /\ q.statesMatched = r.statesMatched
          /\ q.stepsCompleted = r.stepsCompleted
          /\ q.stateIndex = r.stateIndex
        BY <1>1, <3>3 DEF Recorders
    <3>. QED
        BY <1>1, <3>2, <3>4, <3>5 DEF Covered
  <2>2. CASE ~Fits(r.actions, x, ACTION_LIMIT)
    <3>1. q = [r EXCEPT !.droppedActionEvents = @ + 1]
        BY <2>2
    <3>. HIDE DEF q
    <3>2. q \in Recorders
      <4>1. r.droppedActionEvents + 1 \in Nat
          BY <1>1 DEF Recorders
      <4>2. \A k \in Nat : [r EXCEPT !.droppedActionEvents = k] \in Recorders
          BY <1>1 DEF Recorders
      <4>. QED
          BY <3>1, <4>1, <4>2
    <3>3. /\ q.actions = r.actions /\ q.sequences = r.sequences
          /\ q.tracesStarted = r.tracesStarted
          /\ q.tracesCompleted = r.tracesCompleted
          /\ q.statesReported = r.statesReported
          /\ q.statesMatched = r.statesMatched
          /\ q.stepsCompleted = r.stepsCompleted
          /\ q.stateIndex = r.stateIndex
        BY <1>1, <3>1 DEF Recorders
    <3>. QED
        BY <1>1, <3>2, <3>3 DEF Covered
  <2>. QED
      BY <2>1, <2>2
<1>. HIDE DEF q
<1>5. Like(s)
  <2>1. CASE ~(r.previousAction # NoAction)
      BY <1>4, <2>1
  <2>2. CASE r.previousAction # NoAction /\ Fits(r.sequences, pair, SEQUENCE_LIMIT)
    <3>. DEFINE n == [r.sequences EXCEPT ![pair] = @ + 1]
    <3>1. Bounded(r.sequences, SEQUENCE_LIMIT)
        BY <1>1 DEF Covered
    <3>2. pair \in Actions \X Actions
        BY <1>3, <2>2
    <3>. HIDE DEF pair
    <3>3. n \in [Actions \X Actions -> Nat] /\ Bounded(n, SEQUENCE_LIMIT)
        BY <1>3, <2>2, <3>1, <3>2, RecorderLimits, BumpIsBounded
    <3>. HIDE DEF n
    <3>4. s = [q EXCEPT !.sequences = n]
        BY <1>4, <2>2 DEF n
    <3>. HIDE DEF s
    <3>5. s \in Recorders
        BY <1>4, <3>3, <3>4 DEF Recorders
    <3>6. /\ s.actions = q.actions /\ s.sequences = n
          /\ s.tracesStarted = q.tracesStarted
          /\ s.tracesCompleted = q.tracesCompleted
          /\ s.statesReported = q.statesReported
          /\ s.statesMatched = q.statesMatched
          /\ s.stepsCompleted = q.stepsCompleted
          /\ s.stateIndex = q.stateIndex
        BY <1>4, <3>4 DEF Recorders
    <3>. QED
        BY <1>4, <3>3, <3>5, <3>6 DEF Covered
  <2>3. CASE r.previousAction # NoAction /\ ~Fits(r.sequences, pair, SEQUENCE_LIMIT)
    <3>1. s = [q EXCEPT !.droppedSequenceEvents = @ + 1]
        BY <2>3
    <3>. HIDE DEF s
    <3>2. s \in Recorders
        BY <1>4, <3>1 DEF Recorders
    <3>3. /\ s.actions = q.actions /\ s.sequences = q.sequences
          /\ s.tracesStarted = q.tracesStarted
          /\ s.tracesCompleted = q.tracesCompleted
          /\ s.statesReported = q.statesReported
          /\ s.statesMatched = q.statesMatched
          /\ s.stepsCompleted = q.stepsCompleted
          /\ s.stateIndex = q.stateIndex
        BY <1>4, <3>1 DEF Recorders
    <3>. QED
        BY <1>4, <3>2, <3>3 DEF Covered
  <2>. QED
      BY <2>1, <2>2, <2>3
<1>. HIDE DEF s
<1>6. /\ t \in Recorders /\ t.pending
      /\ t.actions = s.actions /\ t.sequences = s.sequences
      /\ t.tracesStarted = r.tracesStarted
      /\ t.tracesCompleted = r.tracesCompleted
      /\ t.statesReported = r.statesReported + 1
      /\ t.statesMatched = r.statesMatched
      /\ t.stepsCompleted = r.stepsCompleted
      /\ t.stateIndex = r.stateIndex
  <2>1. \A u \in Recorders :
          /\ \A k \in Nat : [u EXCEPT !.statesReported = k] \in Recorders
          /\ [u EXCEPT !.pending = TRUE] \in Recorders
          /\ \A y \in Actions : [u EXCEPT !.previousAction = y] \in Recorders
      BY DEF Recorders
  <2>2. s \in Recorders /\ s.statesReported + 1 \in Nat
      BY <1>5 DEF Recorders
  <2>3. t = [[[s EXCEPT !.statesReported = s.statesReported + 1] EXCEPT !.pending = TRUE]
                EXCEPT !.previousAction = x]
      BY <2>2 DEF Recorders
  <2>4. t \in Recorders
      BY <2>1, <2>2, <2>3
  <2>. QED
      BY <1>5, <2>2, <2>4 DEF Recorders
<1>. HIDE DEF t
<1>7. Covered(t)
    BY <1>5, <1>6 DEF Covered
<1>8. /\ m \in Seq(Events) /\ Len(l) \in Nat /\ Len(m) = Len(l) + 1
      /\ m[Len(m)] = "report" /\ \A i \in 1 .. Len(l) : m[i] = l[i]
    BY <1>1, AppendedIsLast DEF Events
<1>9. /\ Places(m, "report") = Places(l, "report") \cup {Len(l) + 1}
      /\ Cardinality(Places(m, "report")) = Cardinality(Places(l, "report")) + 1
      /\ Places(m, "initial") = Places(l, "initial") /\ Places(m, "done") = Places(l, "done")
    BY <1>1, PlacesOfAppend DEF Events
<1>10. /\ Cardinality(Accepted(m)) = Cardinality(Accepted(l))
       /\ Cardinality(Stepped(m)) = Cardinality(Stepped(l))
  <2>1. ~(Len(l) > 0 /\ l[Len(l)] = "report")
      BY DEF Begun
  <2>2. "report" \in Events
      BY DEF Events
  <2>. QED
      BY <1>1, <2>1, <2>2, AcceptanceIsCounted
<1>11. Len(l) > 0 /\ Led(m)
    BY <1>1, <1>8, <1>9 DEF Begun, Led
<1>. HIDE DEF m
<1>12. Counted(t, m)
    BY <1>1, <1>6, <1>9, <1>10 DEF Counted
<1>13. Waiting(t, m)
  <2>1. Len(m) - 1 = Len(l) /\ m[Len(l)] = l[Len(l)]
      BY <1>8, <1>11
  <2>. QED
      BY <1>6, <1>8, <1>11, <2>1 DEF Waiting, Begun
<1>. QED
    BY <1>2, <1>6, <1>7, <1>8, <1>9, <1>11, <1>12, <1>13 DEF RecorderInv, m

-----------------------------------------------------------------------------
(* What the ends and the waits of the exchange do *)

(* The runner's variables and its types, the recorder and the log aside. *)
RunnerTypes ==
    /\ timeouts \in [{"action", "receive"} -> BOOLEAN]
    /\ pc \in {"start", "receive", "dispatch", "action", "reporting", "closing",
               "settled"}
    /\ stage \in {"registration", "replay"}
    /\ signal \in {"active", "replay_aborted", "action_timeout", "receive_timeout"}
    /\ due \in BOOLEAN /\ race \in {"open", "terminal", "value", "rejected"}
    /\ message \in Messages \cup {NoMessage, EndOfStream}
    /\ received \in 0 .. MaxMessages
    /\ stream \in {"up", "ended", "failed"}
    /\ outcome \in Causes \cup {"none", "passed"}
    /\ report \in {"none", "passed", "failed"}
    /\ transport \in {"open", "closing", "closed"}
    /\ late \in BOOLEAN

(* The invariant is the types, the recorder's part and the runner's. *)
LEMMA InvariantParts ==
    IInv <=> RunnerTypes /\ RecorderInv(recorder, log) /\ RunnerInv
    BY DEF IInv, TypeOK, RunnerTypes, RecorderInv, Events

(* The same of the next state. *)
LEMMA InvariantPartsNext ==
    ASSUME RunnerTypes', RecorderInv(recorder', log'), RunnerInv'
    PROVE  IInv'
<1>1. RecorderInv(recorder, log)'
    BY DEF RecorderInv, Counted, Waiting, Led, Covered, Bounded
<1>. QED
    BY <1>1 DEF IInv, TypeOK, RunnerTypes, RecorderInv, Events

(* An exchange that ends with a failure leaves the runner closing, whatever *)
(* the recorder holds.                                                      *)
LEMMA FailureKeeps ==
    ASSUME RunnerTypes, ~Ended, NEW cause \in Causes, NEW status \in {"none", "failed"},
           Ends(cause, status),
           UNCHANGED <<received, stream>>, stage' \in {"registration", "replay"},
           message' \in Messages \cup {NoMessage, EndOfStream}, late' \in BOOLEAN,
           signal' \in {"active", "replay_aborted", "action_timeout", "receive_timeout"}
    PROVE  RunnerTypes' /\ RunnerInv'
<1>1. RunnerTypes'
    BY DEF RunnerTypes, Ends
<1>2. RunnerInv'
    BY DEF RunnerInv, Ends, Ended, Causes
<1>. QED
    BY <1>1, <1>2

(* A raised signal is a cause. *)
LEMMA SignalIsACause ==
    ASSUME NEW s \in {"active", "replay_aborted", "action_timeout", "receive_timeout"},
           s # "active"
    PROVE  s \in Causes
    BY DEF Causes

(* A wait for the next message begins, or the signal ends the exchange. *)
LEMMA ReceiveKeeps ==
    ASSUME RunnerTypes, ~Ended, ~late, outcome = "none", report # "passed",
           transport # "closed",
           run("receive"), Places(log', "done") = {},
           UNCHANGED <<received, stream, late, signal>>, stage' \in {"registration", "replay"},
           message' \in Messages \cup {NoMessage, EndOfStream}
    PROVE  RunnerTypes' /\ RunnerInv'
<1>1. CASE signal # "active" /\ Fails(signal)
  <2>1. signal \in Causes /\ signal' = signal
      BY <1>1, SignalIsACause DEF RunnerTypes
  <2>2. Ends(signal, "failed") /\ late' \in BOOLEAN
      BY <1>1 DEF Fails, RunnerTypes
  <2>3. signal' \in {"active", "replay_aborted", "action_timeout", "receive_timeout"}
      BY <2>1 DEF RunnerTypes
  <2>. QED
      BY <2>1, <2>2, <2>3, FailureKeeps
<1>2. CASE /\ pc' = "receive" /\ race' = "open" /\ due' = FALSE
           /\ UNCHANGED <<timeouts, outcome, report, transport>>
  <2>1. RunnerTypes'
      BY <1>2 DEF RunnerTypes
  <2>2. RunnerInv'
      BY <1>2 DEF RunnerInv, Ended
  <2>. QED
      BY <2>1, <2>2
<1>. QED
    BY <1>1, <1>2 DEF run

(* Before the end nothing has an outcome yet, nothing is done, and only a  *)
(* computer that has just answered can be late.                            *)
LEMMA BeforeTheEnd ==
    ASSUME IInv, ~Ended
    PROVE  /\ RunnerTypes /\ RecorderInv(recorder, log)
           /\ outcome = "none" /\ report # "passed" /\ transport # "closed"
           /\ Places(log, "done") = {}
           /\ late => pc = "action" /\ race = "value" /\ due
    BY InvariantParts DEF RunnerInv, Ended

(* A state that has begun is sent and its answer awaited, or the line is   *)
(* refused and nothing is recorded.                                        *)
LEMMA SendStateKeeps ==
    ASSUME IInv, ~Ended, ~late, message \in Opening,
           NEW r, NEW l, RecorderInv(r, l), Begun(r, l), Places(l, "done") = {},
           SendState(r, l),
           UNCHANGED <<signal, stage, message, received, stream, late>>
    PROVE  IInv'
<1>1. /\ RunnerTypes /\ outcome = "none" /\ report # "passed" /\ transport # "closed"
    BY BeforeTheEnd
<1>2. /\ message.action \in Actions /\ message' \in Messages \cup {NoMessage, EndOfStream}
      /\ stage' \in {"registration", "replay"} /\ late' \in BOOLEAN
      /\ signal' \in {"active", "replay_aborted", "action_timeout", "receive_timeout"}
    BY <1>1 DEF Opening, RunnerTypes
<1>3. CASE /\ run("receive") /\ recorder' = reported(r, message.action)
           /\ log' = Append(l, "report")
  <2>1. RecorderInv(recorder', log') /\ Places(log', "done") = {}
      BY <1>2, <1>3, ReportedKeeps
  <2>2. RunnerTypes' /\ RunnerInv'
      BY <1>1, <1>2, <1>3, <2>1, ReceiveKeeps
  <2>. QED
      BY <2>1, <2>2, InvariantPartsNext
<1>4. CASE Fails("send_error") /\ recorder' = r /\ log' = l
  <2>1. RunnerTypes' /\ RunnerInv'
    <3>1. "send_error" \in Causes /\ Ends("send_error", "failed")
        BY <1>4 DEF Causes, Fails
    <3>. QED
        BY <1>1, <1>2, <3>1, FailureKeeps
  <2>. QED
      BY <1>4, <2>1, InvariantPartsNext
<1>. QED
    BY <1>3, <1>4 DEF SendState, Record

(* A state begins and the computer is called, whatever it does then. *)
LEMMA StartActionKeeps ==
    ASSUME IInv, ~Ended, ~late, message \in Opening,
           NEW r, NEW l, RecorderInv(r, l), Begun(r, l), Places(l, "done") = {},
           startAction(r, l),
           UNCHANGED <<stage, message, received, stream, late>>
    PROVE  IInv'
<1>1. /\ RunnerTypes /\ outcome = "none" /\ report # "passed" /\ transport # "closed"
    BY BeforeTheEnd
<1>2. /\ message' \in Messages \cup {NoMessage, EndOfStream}
      /\ stage' \in {"registration", "replay"} /\ late' \in BOOLEAN
    BY <1>1 DEF RunnerTypes
<1>3. ASSUME NEW cause \in Causes, Fails(cause), Record(r, l),
             signal' \in {"active", "replay_aborted", "action_timeout", "receive_timeout"}
      PROVE  IInv'
  <2>1. RunnerTypes' /\ RunnerInv'
      BY <1>1, <1>2, <1>3, FailureKeeps DEF Fails
  <2>. QED
      BY <1>3, <2>1, InvariantPartsNext DEF Record
<1>4. CASE signal # "active" /\ Fails(signal) /\ Record(r, l) /\ UNCHANGED signal
  <2>1. signal \in Causes
      BY <1>1, <1>4, SignalIsACause DEF RunnerTypes
  <2>2. signal' \in {"active", "replay_aborted", "action_timeout", "receive_timeout"}
      BY <1>1, <1>4 DEF RunnerTypes
  <2>. QED
      BY <1>3, <1>4, <2>1, <2>2
<1>5. CASE Fails("computer_error") /\ Record(r, l) /\ UNCHANGED signal
  <2>1. "computer_error" \in Causes
      BY DEF Causes
  <2>2. signal' \in {"active", "replay_aborted", "action_timeout", "receive_timeout"}
      BY <1>1, <1>5 DEF RunnerTypes
  <2>. QED
      BY <1>3, <1>5, <2>1, <2>2
<1>6. CASE /\ signal' = "replay_aborted" \/ (timeouts["action"] /\ signal' = "action_timeout")
           /\ Fails(signal') /\ Record(r, l)
  <2>1. signal' \in Causes
      BY <1>6 DEF Causes
  <2>2. signal' \in {"active", "replay_aborted", "action_timeout", "receive_timeout"}
      BY <1>6
  <2>. QED
      BY <1>3, <1>6, <2>1, <2>2
<1>7. CASE signal = "active" /\ run("action") /\ Record(r, l) /\ UNCHANGED signal
  <2>1. /\ pc' = "action" /\ race' = "open" /\ due' = FALSE
        /\ UNCHANGED <<timeouts, outcome, report, transport>>
      BY <1>7 DEF run
  <2>2. RunnerTypes'
      BY <1>1, <1>7, <2>1 DEF RunnerTypes
  <2>3. recorder' = r /\ log' = l
      BY <1>7 DEF Record
  <2>4. Begun(recorder, log)' /\ Places(log, "done")' = {}
      BY <2>3 DEF Begun
  <2>5. RunnerInv'
      BY <1>1, <2>1, <2>4 DEF RunnerInv, Ended
  <2>. QED
      BY <2>2, <2>3, <2>5, InvariantPartsNext
<1>8. CASE SendState(r, l) /\ UNCHANGED signal
    BY <1>8, SendStateKeeps
<1>. QED
    BY <1>4, <1>5, <1>6, <1>7, <1>8 DEF startAction

-----------------------------------------------------------------------------
(* One lemma for each action *)

(* A step of the runner that leaves the recorder and the log alone keeps   *)
(* the invariant if it keeps the rest.                                     *)
LEMMA OthersKeep ==
    ASSUME IInv, UNCHANGED <<recorder, log>>, RunnerTypes', RunnerInv'
    PROVE  IInv'
<1>1. RecorderInv(recorder', log')
    BY InvariantParts
<1>. QED
    BY <1>1, InvariantPartsNext

(* The exchange starts, or its options or its first line are refused. *)
LEMMA StartKeeps ==
    ASSUME IInv, runReplayExchange
    PROVE  IInv'
<1>1. ~Ended /\ ~late
    BY BeforeTheEnd DEF runReplayExchange, Ended
<1>2. /\ RunnerTypes /\ outcome = "none" /\ report # "passed" /\ transport # "closed"
      /\ Places(log, "done") = {}
    BY <1>1, BeforeTheEnd
<1>3. UNCHANGED <<signal, stage, message, received, stream, recorder, late, log>>
    BY DEF runReplayExchange, mirror
<1>4. /\ message' \in Messages \cup {NoMessage, EndOfStream} /\ late' \in BOOLEAN
      /\ stage' \in {"registration", "replay"} /\ Places(log', "done") = {}
      /\ signal' \in {"active", "replay_aborted", "action_timeout", "receive_timeout"}
    BY <1>2, <1>3 DEF RunnerTypes
<1>5. ASSUME NEW cause \in Causes, NEW status \in {"none", "failed"}, Ends(cause, status)
      PROVE  RunnerTypes' /\ RunnerInv'
    BY <1>1, <1>2, <1>3, <1>4, <1>5, FailureKeeps
<1>6. run("receive") => RunnerTypes' /\ RunnerInv'
    BY <1>1, <1>2, <1>3, <1>4, ReceiveKeeps
<1>7. "RangeError" \in Causes /\ "send_error" \in Causes
    BY DEF Causes
<1>8. RunnerTypes' /\ RunnerInv'
    BY <1>5, <1>6, <1>7 DEF runReplayExchange, Fails
<1>. QED
    BY <1>3, <1>8, OthersKeep

(* The signal, the clock and the stream touch neither the recorder nor the *)
(* place of the runner.                                                    *)
LEMMA SignalsKeep ==
    ASSUME IInv, externalAbort \/ Elapse \/ expire \/ StreamStops
    PROVE  IInv'
<1>1. RunnerTypes /\ RunnerInv
    BY InvariantParts
<1>2. UNCHANGED <<timeouts, pc, stage, message, received, recorder, outcome, report,
                  transport, late, log>>
    BY DEF externalAbort, Elapse, expire, StreamStops, runner, mirror, control
<1>3. RunnerTypes'
  <2>1. CASE externalAbort
      BY <1>1, <1>2, <2>1 DEF RunnerTypes, externalAbort, Raise, mirror
  <2>2. CASE Elapse
      BY <1>1, <1>2, <2>2 DEF RunnerTypes, Elapse, mirror
  <2>3. CASE expire
      BY <1>1, <1>2, <2>3 DEF RunnerTypes, expire, Raise, mirror
  <2>4. CASE StreamStops
      BY <1>1, <1>2, <2>4 DEF RunnerTypes, StreamStops, control
  <2>. QED
      BY <2>1, <2>2, <2>3, <2>4
<1>4. race = "value" => race' = "value"
    BY DEF externalAbort, Elapse, expire, StreamStops, Raise, control
<1>5. due => due'
    BY DEF externalAbort, Elapse, expire, StreamStops, control
<1>9. (race' = "terminal" => signal' # "active")
    BY <1>1 DEF RunnerInv, externalAbort, Elapse, expire, StreamStops, Raise, control
<1>6. Begun(recorder, log)' <=> Begun(recorder, log)
    BY <1>2 DEF Begun
<1>7. Places(log, "done")' = Places(log, "done")
    BY <1>2
<1>8. RunnerInv'
    BY <1>1, <1>2, <1>4, <1>5, <1>6, <1>7, <1>9 DEF RunnerInv, Ended
<1>. QED
    BY <1>2, <1>3, <1>8, OthersKeep

(* it.next() settles: what it brought is not handled yet. *)
LEMMA LineReceivedKeeps ==
    ASSUME IInv, NEW m \in Messages \cup {NoMessage, EndOfStream}, LineReceived(m)
    PROVE  IInv'
<1>1. RunnerTypes /\ RunnerInv
    BY InvariantParts
<1>2. UNCHANGED <<timeouts, signal, due, pc, stage, recorder, outcome, report,
                  transport, stream, late, log>> /\ pc = "receive"
    BY DEF LineReceived
<1>3. /\ race' \in {"value", "rejected"}
      /\ message' \in Messages \cup {NoMessage, EndOfStream}
      /\ received' \in 0 .. MaxMessages
    BY <1>1, MessageBound DEF RunnerTypes, LineReceived
<1>4. RunnerTypes'
    BY <1>1, <1>2, <1>3 DEF RunnerTypes
<1>5. Places(log, "done")' = Places(log, "done")
    BY <1>2
<1>6. RunnerInv'
    BY <1>1, <1>2, <1>3, <1>5 DEF RunnerInv, Ended
<1>. QED
    BY <1>2, <1>4, <1>6, OthersKeep

(* The computer settles, perhaps after its budget. *)
LEMMA ComputerSettlesKeeps ==
    ASSUME IInv, ComputerSettles
    PROVE  IInv'
<1>1. RunnerTypes /\ RunnerInv
    BY InvariantParts
<1>2. /\ UNCHANGED <<timeouts, signal, due, pc, stage, message, recorder, outcome, report,
                     transport, received, stream, log>>
      /\ pc = "action" /\ race = "open" /\ race' \in {"value", "rejected"}
      /\ late' = (late \/ (due /\ race' = "value"))
    BY DEF ComputerSettles, runner, mirror
<1>3. ~late
    BY <1>1, <1>2 DEF RunnerInv, Ended
<1>4. RunnerTypes'
    BY <1>1, <1>2 DEF RunnerTypes
<1>5. late' => due' /\ race' = "value"
    BY <1>2, <1>3
<1>6. Begun(recorder, log)' <=> Begun(recorder, log)
    BY <1>2 DEF Begun
<1>7. Places(log, "done")' = Places(log, "done")
    BY <1>2
<1>8. RunnerInv'
    BY <1>1, <1>2, <1>5, <1>6, <1>7 DEF RunnerInv, Ended
<1>. QED
    BY <1>2, <1>4, <1>8, OthersKeep

(* The race is decided: the runner goes on only within its budget, so an   *)
(* answer that came too late never reaches the report.                     *)
LEMMA ContinueKeeps ==
    ASSUME IInv, Continue
    PROVE  IInv'
<1>1. ~Ended
    BY DEF Continue, Ended
<1>2. /\ RunnerTypes /\ outcome = "none" /\ report # "passed" /\ transport # "closed"
      /\ Places(log, "done") = {} /\ (late => pc = "action" /\ race = "value" /\ due)
    BY <1>1, BeforeTheEnd
<1>3. CASE RunThrows
  <2>1. UNCHANGED <<stage, message, recorder, received, stream, late, log>>
      BY <1>3 DEF RunThrows, mirror
  <2>2. /\ stage' \in {"registration", "replay"} /\ late' \in BOOLEAN
        /\ message' \in Messages \cup {NoMessage, EndOfStream}
      BY <1>2, <2>1 DEF RunnerTypes
  <2>3. ASSUME NEW cause \in Causes, Fails(cause),
               signal' \in {"active", "replay_aborted", "action_timeout", "receive_timeout"}
        PROVE  RunnerTypes' /\ RunnerInv'
      BY <1>1, <1>2, <2>1, <2>2, <2>3, FailureKeeps DEF Fails
  <2>4. CASE /\ race \in {"terminal", "value"} /\ Fails(signal) /\ UNCHANGED signal
             /\ signal # "active"
    <3>1. signal \in Causes
        BY <1>2, <2>4, SignalIsACause DEF RunnerTypes
    <3>2. signal' \in {"active", "replay_aborted", "action_timeout", "receive_timeout"}
        BY <1>2, <2>4 DEF RunnerTypes
    <3>. QED
        BY <2>1, <2>3, <2>4, <3>1, <3>2, OthersKeep
  <2>5. CASE /\ Fails(IF pc = "action" THEN "computer_error" ELSE "stream_error")
             /\ UNCHANGED signal
    <3>1. (IF pc = "action" THEN "computer_error" ELSE "stream_error") \in Causes
        BY DEF Causes
    <3>2. signal' \in {"active", "replay_aborted", "action_timeout", "receive_timeout"}
        BY <1>2, <2>5 DEF RunnerTypes
    <3>. QED
        BY <2>1, <2>3, <2>5, <3>1, <3>2, OthersKeep
  <2>6. CASE /\ signal' = IF pc = "action" THEN "action_timeout" ELSE "receive_timeout"
             /\ Fails(signal')
    <3>1. signal' \in Causes
        BY <2>6 DEF Causes
    <3>2. signal' \in {"active", "replay_aborted", "action_timeout", "receive_timeout"}
        BY <2>6
    <3>. QED
        BY <2>1, <2>3, <2>6, <3>1, <3>2, OthersKeep
  <2>7. race = "terminal" => signal # "active"
      BY InvariantParts DEF RunnerInv
  <2>. QED
      BY <1>3, <2>4, <2>5, <2>6, <2>7 DEF RunThrows
<1>4. CASE RunReturns
  <2>1. /\ UNCHANGED <<timeouts, signal, due, race, stage, message, recorder, outcome, report,
                       transport, received, stream, late, log>>
        /\ pc' = IF pc = "action" THEN "reporting" ELSE "dispatch"
        /\ race = "value" /\ ~OverBudget /\ signal = "active"
      BY <1>4 DEF RunReturns, control, mirror
  <2>2. ~late
      BY <1>2, <2>1 DEF OverBudget
  <2>3. RunnerTypes'
      BY <1>2, <2>1 DEF RunnerTypes
  <2>4. pc = "action" => message \in Opening /\ Begun(recorder, log)
      BY InvariantParts DEF RunnerInv
  <2>5. /\ Begun(recorder, log)' <=> Begun(recorder, log)
        /\ Places(log, "done")' = Places(log, "done")
      BY <2>1 DEF Begun
  <2>6. RunnerInv'
      BY <1>2, <2>1, <2>2, <2>4, <2>5 DEF RunnerInv, Ended
  <2>. QED
      BY <2>1, <2>3, <2>6, OthersKeep
<1>. QED
    BY <1>3, <1>4 DEF Continue

(* The state is sent unless the signal was raised meanwhile. *)
LEMMA ReportStateKeeps ==
    ASSUME IInv, reportState
    PROVE  IInv'
<1>1. ~Ended /\ pc = "reporting"
    BY DEF reportState, Ended
<1>2. /\ RunnerTypes /\ RecorderInv(recorder, log) /\ Places(log, "done") = {} /\ ~late
    BY <1>1, BeforeTheEnd
<1>3. message \in Opening /\ Begun(recorder, log)
    BY <1>1, InvariantParts DEF RunnerInv
<1>4. UNCHANGED <<signal, stage, message, received, stream, late>>
    BY DEF reportState, mirror
<1>5. CASE signal # "active" /\ Fails(signal) /\ Record(recorder, log)
  <2>1. signal \in Causes
      BY <1>2, <1>5, SignalIsACause DEF RunnerTypes
  <2>2. /\ stage' \in {"registration", "replay"} /\ late' \in BOOLEAN
        /\ message' \in Messages \cup {NoMessage, EndOfStream}
        /\ signal' \in {"active", "replay_aborted", "action_timeout", "receive_timeout"}
      BY <1>2, <1>4 DEF RunnerTypes
  <2>3. RunnerTypes' /\ RunnerInv'
      BY <1>1, <1>2, <1>4, <1>5, <2>1, <2>2, FailureKeeps DEF Fails
  <2>. QED
      BY <1>5, <2>3, OthersKeep DEF Record
<1>6. CASE SendState(recorder, log)
    BY <1>1, <1>2, <1>3, <1>4, <1>6, SendStateKeeps
<1>. QED
    BY <1>5, <1>6 DEF reportState

(* A message is handled: the recorder moves as the log says. *)
LEMMA DispatchKeeps ==
    ASSUME IInv, Dispatch
    PROVE  IInv'
<1>1. ~Ended /\ pc = "dispatch"
    BY DEF Dispatch, Ended
<1>2. /\ RunnerTypes /\ RecorderInv(recorder, log) /\ Places(log, "done") = {} /\ ~late
      /\ outcome = "none" /\ report # "passed" /\ transport # "closed"
    BY <1>1, BeforeTheEnd
<1>3. UNCHANGED <<message, received, stream, late>>
    BY DEF Dispatch, mirror
<1>4. /\ message' \in Messages \cup {NoMessage, EndOfStream} /\ late' \in BOOLEAN
    BY <1>2, <1>3 DEF RunnerTypes
<1>5. ASSUME NEW cause \in Causes, Fails(cause), UNCHANGED <<signal, stage, recorder, log>>
      PROVE  IInv'
  <2>1. /\ stage' \in {"registration", "replay"}
        /\ signal' \in {"active", "replay_aborted", "action_timeout", "receive_timeout"}
      BY <1>2, <1>5 DEF RunnerTypes
  <2>2. RunnerTypes' /\ RunnerInv'
      BY <1>1, <1>2, <1>3, <1>4, <1>5, <2>1, FailureKeeps DEF Fails
  <2>. QED
      BY <1>5, <2>2, OthersKeep
<1>6. "mirror_error" \in Causes /\ "stream_error" \in Causes /\ "mismatch" \in Causes
    BY DEF Causes
<1>7. CASE Registration
  <2>1. CASE stage' = "replay" /\ run("receive") /\ UNCHANGED <<signal, recorder, log>>
    <3>1. Places(log', "done") = {} /\ stage' \in {"registration", "replay"}
        BY <1>2, <2>1
    <3>2. RunnerTypes' /\ RunnerInv'
        BY <1>1, <1>2, <1>3, <1>4, <2>1, <3>1, ReceiveKeeps
    <3>. QED
        BY <2>1, <3>2, OthersKeep
  <2>2. CASE Fails("mirror_error") /\ UNCHANGED <<signal, stage, recorder, log>>
      BY <1>5, <1>6, <2>2
  <2>. QED
      BY <1>7, <2>1, <2>2 DEF Registration
<1>8. CASE StreamIsOver
    BY <1>5, <1>6, <1>8 DEF StreamIsOver
<1>9. CASE replayCore
  <2>1. UNCHANGED stage /\ stage' \in {"registration", "replay"}
      BY <1>2, <1>9 DEF replayCore, RunnerTypes
  <2>2. message.step \in {"initial_state", "next_step"} => message \in Opening
      BY <1>2 DEF RunnerTypes, Messages, Other, NoMessage, EndOfStream, Opening
  <2>3. CASE InitialState
    <3>1. /\ RecorderInv(begin(recorder, TRUE), Append(log, "initial"))
          /\ Begun(begin(recorder, TRUE), Append(log, "initial"))
          /\ Places(Append(log, "initial"), "done") = {}
        BY <1>2, BeginTraceKeeps
    <3>2. /\ message \in Opening
          /\ startAction(begin(recorder, TRUE), Append(log, "initial"))
        BY <2>2, <2>3 DEF InitialState
    <3>. QED
        BY <1>1, <1>2, <1>3, <2>1, <3>1, <3>2, StartActionKeeps
  <2>4. CASE NextStep
    <3>1. /\ RecorderInv(begin(recorder, FALSE), Append(log, "step"))
          /\ Begun(begin(recorder, FALSE), Append(log, "step"))
          /\ Places(Append(log, "step"), "done") = {}
        BY <1>2, BeginStepKeeps
    <3>2. /\ message \in Opening
          /\ startAction(begin(recorder, FALSE), Append(log, "step"))
        BY <2>2, <2>4 DEF NextStep
    <3>. QED
        BY <1>1, <1>2, <1>3, <2>1, <3>1, <3>2, StartActionKeeps
  <2>5. CASE StepOk
    <3>1. /\ recorder' = acknowledge(recorder) /\ log' = Append(log, "ok")
          /\ run("receive") /\ UNCHANGED signal
        BY <2>5 DEF StepOk, Record
    <3>2. RecorderInv(recorder', log') /\ Places(log', "done") = {}
        BY <1>2, <3>1, AcknowledgeKeeps
    <3>3. RunnerTypes' /\ RunnerInv'
        BY <1>1, <1>2, <1>3, <1>4, <2>1, <3>1, <3>2, ReceiveKeeps
    <3>. QED
        BY <3>2, <3>3, InvariantPartsNext
  <2>6. CASE AllStepsDone
    <3>1. /\ recorder' = complete(recorder) /\ log' = Append(log, "done")
          /\ Ends("passed", "passed") /\ UNCHANGED signal
        BY <2>6 DEF AllStepsDone, Record
    <3>2. RecorderInv(recorder', log') /\ ~recorder'.pending /\ Places(log', "done") # {}
        BY <1>2, <3>1, CompleteKeeps
    <3>3. RunnerTypes'
        BY <1>2, <1>3, <1>4, <2>1, <3>1 DEF RunnerTypes, Ends
    <3>4. RunnerInv'
        BY <1>2, <3>1, <3>2 DEF RunnerInv, Ended, Ends
    <3>. QED
        BY <3>2, <3>3, <3>4, InvariantPartsNext
  <2>7. CASE Refusal
    <3>1. (IF message.step = "step_mismatch" THEN "mismatch" ELSE "mirror_error") \in Causes
        BY <1>6
    <3>. QED
        BY <1>5, <2>1, <2>7, <3>1 DEF Refusal
  <2>. QED
      BY <1>9, <2>3, <2>4, <2>5, <2>6, <2>7 DEF replayCore
<1>. QED
    BY <1>7, <1>8, <1>9 DEF Dispatch

(* close() settles: only a passed exchange still changes its outcome. *)
LEMMA LegacyReplayKeeps ==
    ASSUME IInv, runLegacyReplay
    PROVE  IInv'
<1>1. RunnerTypes /\ RunnerInv
    BY InvariantParts
<1>2. /\ UNCHANGED <<timeouts, signal, due, race, stage, message, recorder, received, stream,
                     late, log>>
      /\ pc = "closing" /\ pc' = "settled" /\ transport' = "closed"
      /\ \/ UNCHANGED <<outcome, report>>
         \/ outcome = "passed" /\ outcome' = "close_error" /\ report' = "failed"
    BY DEF runLegacyReplay, control, mirror
<1>3. RunnerTypes'
    BY <1>1, <1>2 DEF RunnerTypes, Causes
<1>4. Places(log, "done")' = Places(log, "done")
    BY <1>2
<1>5. RunnerInv'
    BY <1>1, <1>2, <1>4 DEF RunnerInv, Ended
<1>. QED
    BY <1>2, <1>3, <1>5, OthersKeep

-----------------------------------------------------------------------------
(* The theorems *)

(* A replay starts with an empty recorder and an empty log. *)
LEMMA InitEstablishes == Init => IInv
<1>. SUFFICES ASSUME Init PROVE IInv
    OBVIOUS
<1>1. RunnerTypes
  <2>1. received \in 0 .. MaxMessages
      BY MessageBound DEF Init
  <2>2. message \in Messages \cup {NoMessage, EndOfStream}
      BY DEF Init
  <2>. QED
      BY <2>1, <2>2 DEF Init, RunnerTypes
<1>2. recorder \in Recorders
    BY DEF Init, NewRecorder, Recorders
<1>3. log = <<>> /\ log \in Seq(Events) /\ Len(log) = 0
    BY DEF Init
<1>4. \A e : Places(log, e) = {}
    BY <1>3 DEF Places
<1>5. Accepted(log) = {} /\ Stepped(log) = {}
    BY <1>4 DEF Accepted, Stepped
<1>6. Cardinality({}) = 0 /\ IsFiniteSet({})
    BY FS_EmptySet
<1>7. Counted(recorder, log)
  <2>1. /\ recorder.tracesStarted = 0 /\ recorder.statesReported = 0
        /\ recorder.statesMatched = 0 /\ recorder.stepsCompleted = 0
        /\ recorder.tracesCompleted = 0
      BY DEF Init, NewRecorder
  <2>. QED
      BY <1>4, <1>5, <1>6, <2>1 DEF Counted
<1>8. Waiting(recorder, log) /\ Led(log)
    BY <1>3, <1>4 DEF Waiting, Led, Init, NewRecorder
<1>9. Covered(recorder)
  <2>1. Entries(recorder.actions) = {} /\ Entries(recorder.sequences) = {}
      BY DEF Entries, Init, NewRecorder
  <2>. QED
      BY <1>6, <2>1, RecorderLimits DEF Covered, Bounded
<1>10. RunnerInv
    BY <1>4 DEF RunnerInv, Init, Ended
<1>. QED
    BY <1>1, <1>2, <1>3, <1>7, <1>8, <1>9, <1>10, InvariantParts DEF RecorderInv

(* Every step keeps the invariant. *)
LEMMA NextKeeps ==
    ASSUME IInv, [Next]_vars
    PROVE  IInv'
<1>1. CASE UNCHANGED vars
    BY <1>1 DEF vars, control, runner, mirror, IInv, TypeOK, RecorderInv, Counted, Waiting,
                Led, Covered, Bounded, RunnerInv, Ended, Begun
<1>. QED
    BY <1>1, StartKeeps, SignalsKeep, LineReceivedKeeps, ComputerSettlesKeeps, ContinueKeeps,
       ReportStateKeeps, DispatchKeeps, LegacyReplayKeeps DEF Next

(* The inductive invariant of the replay. *)
LEMMA Invariance == Spec => []IInv
<1>1. IInv /\ [Next]_vars => IInv'
    BY NextKeeps
<1>. QED
    BY InitEstablishes, <1>1, PTL DEF Spec

(* Every variable of the runner and every counter of its recorder keeps to *)
(* its type.                                                               *)
THEOREM ReplayTypes == Spec => []TypeOK
<1>1. IInv => TypeOK
    BY DEF IInv
<1>. QED
    BY Invariance, <1>1, PTL

(* Whenever and however a replay ends, the report's counters are the counts *)
(* of what happened (ReplayRecorder in src/replay-report.ts): states        *)
(* matched, steps and traces completed included.                            *)
THEOREM CountersAreTrue == Spec => []ReportTellsWhatHappened
<1>1. IInv => ReportTellsWhatHappened
  <2>. SUFFICES ASSUME IInv PROVE ReportTellsWhatHappened
      OBVIOUS
  <2>1. Counted(recorder, log)
      BY InvariantParts DEF RecorderInv
  <2>2. recorder.tracesStarted \in Nat /\ recorder.tracesCompleted \in Nat
      BY InvariantParts DEF RecorderInv, Recorders
  <2>3. \A e : Positions(e) = Places(log, e)
      BY DEF Positions, Places
  <2>4. AcceptedReports = Accepted(log) /\ AcceptedSteps = Stepped(log)
      BY <2>3 DEF AcceptedReports, Accepted, AcceptedSteps, Stepped
  <2>. QED
      BY <2>1, <2>2, <2>3, <2>4 DEF Counted, ReportTellsWhatHappened
<1>. QED
    BY Invariance, <1>1, PTL

(* A replay passes only if the mirror accepted every state reported, and   *)
(* no exit leaves the transport open (runLegacyReplay in src/replay.ts).   *)
THEOREM PassingIsEarned == Spec => []PassedMeansAccepted
<1>1. IInv => PassedMeansAccepted
  <2>. SUFFICES ASSUME IInv PROVE PassedMeansAccepted
      OBVIOUS
  <2>1. RunnerInv /\ Counted(recorder, log) /\ Waiting(recorder, log) /\ log \in Seq(Events)
      BY InvariantParts DEF RecorderInv
  <2>2. Positions("done") = Places(log, "done")
      BY DEF Positions, Places
  <2>3. ~recorder.pending => Accepted(log) = Places(log, "report")
      BY <2>1 DEF Waiting, Accepted, Places
  <2>. QED
      BY <2>1, <2>2, <2>3 DEF PassedMeansAccepted, RunnerInv, Counted
<1>. QED
    BY Invariance, <1>1, PTL

(* The report of a replay is true, in its counters (ReplayRecorder) and in  *)
(* its verdict (runLegacyReplay).                                           *)
THEOREM ReportsAreTrue == Spec => []ReportIsTrue
<1>1. ReportTellsWhatHappened /\ PassedMeansAccepted => ReportIsTrue
    BY DEF ReportIsTrue
<1>. QED
    BY CountersAreTrue, PassingIsEarned, <1>1, PTL

(* Once the signal is raised, or the computer answered past its budget, no *)
(* state is reported (run in src/replay-control.ts, and the check of the   *)
(* signal before a state is sent).                                         *)
THEOREM SilentAfterTheEnd == Spec => NoReportAfterTheEnd
<1>1. IInv /\ [Next]_vars
        => [signal # "active" \/ late
              => recorder'.statesReported = recorder.statesReported]_vars
  <2>. SUFFICES ASSUME IInv, Next, signal # "active" \/ late
                PROVE  recorder'.statesReported = recorder.statesReported
      OBVIOUS
  <2>1. CASE UNCHANGED recorder
      BY <2>1
  <2>2. CASE reportState
    <3>1. ~late
        BY <2>2, BeforeTheEnd DEF reportState, Ended
    <3>. QED
        BY <2>2, <3>1 DEF reportState, Record
  <2>3. CASE Dispatch
    <3>1. ~Ended /\ ~late /\ RecorderInv(recorder, log) /\ Places(log, "done") = {}
        BY <2>3, BeforeTheEnd DEF Dispatch, Ended
    <3>2. signal # "active"
        BY <3>1
    <3>3. \/ recorder' = begin(recorder, TRUE) \/ recorder' = begin(recorder, FALSE)
          \/ recorder' = acknowledge(recorder) \/ recorder' = complete(recorder)
          \/ recorder' = recorder
        BY <2>3, <3>2 DEF Dispatch, Registration, replayCore, StreamIsOver, InitialState,
           NextStep, StepOk, AllStepsDone, Refusal, startAction, Record
    <3>. QED
        BY <3>1, <3>3, BeginTraceKeeps, BeginStepKeeps, AcknowledgeKeeps, CompleteKeeps
  <2>. QED
      BY <2>1, <2>2, <2>3 DEF Next, runReplayExchange, externalAbort, Elapse, expire,
         LineReceived, ComputerSettles, Continue, RunThrows, RunReturns, runLegacyReplay,
         StreamStops, runner
<1>. QED
    BY Invariance, <1>1, PTL DEF Spec, NoReportAfterTheEnd

(* The first failure is what the caller gets: neither a late signal nor a  *)
(* failing close() replaces it (runLegacyReplay in src/replay.ts).         *)
THEOREM FirstFailureStays == Spec => FirstFailureWins
<1>1. IInv /\ [Next]_vars
        => [outcome # "none" => outcome' \in {outcome}
              \cup (IF outcome = "passed" THEN {"close_error"} ELSE {})]_vars
  <2>. SUFFICES ASSUME IInv, Next, outcome # "none"
                PROVE  \/ outcome' = outcome
                       \/ outcome = "passed" /\ outcome' = "close_error"
      OBVIOUS
  <2>1. pc \in {"closing", "settled"}
      BY InvariantParts DEF RunnerInv, Ended
  <2>. QED
      BY <2>1 DEF Next, runReplayExchange, externalAbort, Elapse, expire, LineReceived,
         ComputerSettles, Continue, reportState, Dispatch, runLegacyReplay, StreamStops, runner
<1>. QED
    BY Invariance, <1>1, PTL DEF Spec, FirstFailureWins

-----------------------------------------------------------------------------
(* Coverage *)

Tallied(m) == UNION {{k} \X (1 .. m[k]) : k \in DOMAIN m}

(* A map with finitely many entries has counted finitely many events, and  *)
(* one more when one of its counts is raised.                              *)
LEMMA TotalOfBump ==
    ASSUME NEW S, NEW m \in [S -> Nat], IsFiniteSet(Entries(m))
    PROVE  /\ Total(m) \in Nat
           /\ \A k \in S : Total([m EXCEPT ![k] = @ + 1]) = Total(m) + 1
<1>. DEFINE f == [k \in Entries(m) |-> {k} \X (1 .. m[k])]
            T == {{k} \X (1 .. m[k]) : k \in Entries(m)}
<1>1. f \in Surjection(Entries(m), T)
    BY DEF Surjection
<1>. HIDE DEF f
<1>2. IsFiniteSet(T)
    BY <1>1, FS_Surjection
<1>3. ASSUME NEW k \in S
      PROVE  IsFiniteSet({k} \X (1 .. m[k]))
  <2>1. IsFiniteSet(1 .. m[k])
      BY FS_Interval
  <2>2. IsFiniteSet({k})
      BY FS_Singleton
  <2>. QED
      BY <2>1, <2>2, FS_Product
<1>4. \A U \in T : IsFiniteSet(U)
    BY <1>3 DEF Entries
<1>5. \A k \in S : k \notin Entries(m) => {k} \X (1 .. m[k]) = {}
    BY DEF Entries
<1>6. ASSUME NEW p
      PROVE  p \in Tallied(m) <=> p \in UNION T
  <2>1. p \in Tallied(m) <=> \E k \in S : p \in {k} \X (1 .. m[k])
      BY DEF Tallied
  <2>2. p \in UNION T <=> \E k \in Entries(m) : p \in {k} \X (1 .. m[k])
      OBVIOUS
  <2>3. \A k \in S : p \in {k} \X (1 .. m[k]) => k \in Entries(m)
      BY <1>5
  <2>4. Entries(m) \subseteq S
      BY DEF Entries
  <2>. QED
      BY <2>1, <2>2, <2>3, <2>4
<1>7. Tallied(m) = UNION T
    BY <1>6
<1>. HIDE DEF T
<1>8. IsFiniteSet(Tallied(m))
    BY <1>2, <1>4, <1>7, FS_UNION
<1>9. Total(m) \in Nat
    BY <1>8, FS_CardinalityType DEF Total, Tallied
<1>10. ASSUME NEW k \in S
       PROVE  Total([m EXCEPT ![k] = @ + 1]) = Total(m) + 1
  <2>. DEFINE n == [m EXCEPT ![k] = @ + 1]
              x == <<k, m[k] + 1>>
  <2>1. /\ n \in [S -> Nat] /\ n[k] = m[k] + 1 /\ m[k] \in Nat
        /\ \A j \in S \ {k} : n[j] = m[j]
      OBVIOUS
  <2>. HIDE DEF n
  <2>2. 1 .. n[k] = 1 .. m[k] \cup {m[k] + 1}
      BY <2>1
  <2>3. {k} \X (1 .. n[k]) = {k} \X (1 .. m[k]) \cup {x}
      BY <2>2
  <2>4. ASSUME NEW p
        PROVE  p \in Tallied(n) <=> p \in Tallied(m) \cup {x}
    <3>1. p \in Tallied(n) <=> \E j \in S : p \in {j} \X (1 .. n[j])
        BY <2>1 DEF Tallied
    <3>2. p \in Tallied(m) <=> \E j \in S : p \in {j} \X (1 .. m[j])
        BY DEF Tallied
    <3>3. \A j \in S \ {k} : p \in {j} \X (1 .. n[j]) <=> p \in {j} \X (1 .. m[j])
        BY <2>1
    <3>4. p \in {k} \X (1 .. n[k]) <=> p \in {k} \X (1 .. m[k]) \/ p = x
        BY <2>3
    <3>. HIDE DEF x
    <3>. QED
        BY <3>1, <3>2, <3>3, <3>4
  <2>5. Tallied(n) = Tallied(m) \cup {x}
      BY <2>4
  <2>6. x \notin Tallied(m)
    <3>1. \A j \in S : x \notin {j} \X (1 .. m[j])
        BY <2>1
    <3>. QED
        BY <3>1 DEF Tallied
  <2>7. Cardinality(Tallied(n)) = Cardinality(Tallied(m)) + 1
      BY <1>8, <2>5, <2>6, FS_AddElement
  <2>. QED
      BY <2>7 DEF Total, Tallied, n
<1>. QED
    BY <1>9, <1>10

(* The reports that follow another one in the same trace, of any log *)
InTrace(l) == \E j \in Places(l, "report") : \A k \in j .. Len(l) : l[k] # "initial"
Following(l) ==
    {i \in Places(l, "report") : l[i - 1] = "step"
       /\ \E j \in Places(l, "report") : j < i /\ "initial" \notin {l[k] : k \in j .. i}}

(* The maps and the dropped counters add up to the reports, and an action  *)
(* is remembered exactly while its trace goes on.                          *)
Tally(r, l) ==
    /\ Total(r.actions) + r.droppedActionEvents = r.statesReported
    /\ Total(r.sequences) + r.droppedSequenceEvents = Cardinality(Following(l))
    /\ r.previousAction # NoAction <=> InTrace(l)

(* An event that is no report adds none that follows another, and only the *)
(* start of a trace ends the one before.                                   *)
LEMMA OtherEventsFollow ==
    ASSUME NEW l \in Seq(Events), Led(l), NEW e \in Events \ {"report"}
    PROVE  LET m == Append(l, e)
           IN  /\ Following(m) = Following(l)
               /\ InTrace(m) <=> InTrace(l) /\ e # "initial"
<1>. DEFINE m == Append(l, e)
<1>1. /\ m \in Seq(Events) /\ Len(l) \in Nat /\ Len(m) = Len(l) + 1
      /\ m[Len(m)] = e /\ \A i \in 1 .. Len(l) : m[i] = l[i]
    BY AppendedIsLast
<1>2. Places(m, "report") = Places(l, "report")
    BY PlacesOfAppend DEF Events
<1>. HIDE DEF m
<1>3. \A i \in Places(l, "report") : i \in 1 .. Len(l) /\ i - 1 \in 1 .. Len(l)
    BY <1>1 DEF Places, Led
<1>4. \A i \in Places(l, "report"), j \in Places(l, "report") :
         /\ m[i - 1] = l[i - 1]
         /\ \A k \in j .. i : m[k] = l[k]
    BY <1>1, <1>3
<1>5. \A i \in Places(l, "report"), j \in Places(l, "report") :
         {m[k] : k \in j .. i} = {l[k] : k \in j .. i}
    BY <1>4
<1>6. Following(m) = Following(l)
    BY <1>2, <1>4, <1>5 DEF Following
<1>7. ASSUME NEW j \in Places(l, "report")
      PROVE  (\A k \in j .. Len(m) : m[k] # "initial")
                <=> (\A k \in j .. Len(l) : l[k] # "initial") /\ e # "initial"
  <2>1. j .. Len(m) = j .. Len(l) \cup {Len(m)}
      BY <1>1, <1>3
  <2>2. \A k \in j .. Len(l) : m[k] = l[k]
      BY <1>1, <1>3
  <2>. QED
      BY <1>1, <2>1, <2>2
<1>8. InTrace(m) <=> InTrace(l) /\ e # "initial"
    BY <1>2, <1>7 DEF InTrace
<1>. QED
    BY <1>6, <1>8 DEF m

(* A report follows another one exactly when it is a step's, and its trace *)
(* has a report already.                                                   *)
LEMMA ReportsFollow ==
    ASSUME NEW l \in Seq(Events), Led(l), Len(l) > 0, l[Len(l)] \in {"initial", "step"}
    PROVE  LET m == Append(l, "report")
           IN  /\ InTrace(m)
               /\ InTrace(l) => Cardinality(Following(m)) = Cardinality(Following(l)) + 1
               /\ ~InTrace(l) => Following(m) = Following(l)
<1>. DEFINE m == Append(l, "report")
            last == Len(l) + 1
<1>1. /\ m \in Seq(Events) /\ Len(l) \in Nat /\ Len(m) = last
      /\ m[last] = "report" /\ \A i \in 1 .. Len(l) : m[i] = l[i]
    BY AppendedIsLast DEF Events
<1>2. Places(m, "report") = Places(l, "report") \cup {last} /\ last \notin Places(l, "report")
    BY PlacesOfAppend DEF Events
<1>. HIDE DEF m
<1>3. \A i \in Places(l, "report") : i \in 1 .. Len(l) /\ i - 1 \in 1 .. Len(l)
    BY <1>1 DEF Places, Led
<1>4. InTrace(m)
  <2>1. \A k \in last .. Len(m) : m[k] # "initial"
      BY <1>1
  <2>. QED
      BY <1>2, <2>1 DEF InTrace
<1>5. \A i \in Places(l, "report"), j \in Places(l, "report") :
         m[i - 1] = l[i - 1] /\ {m[k] : k \in j .. i} = {l[k] : k \in j .. i}
  <2>1. \A i \in Places(l, "report"), j \in Places(l, "report") :
           m[i - 1] = l[i - 1] /\ \A k \in j .. i : m[k] = l[k]
      BY <1>1, <1>3
  <2>. QED
      BY <2>1
<1>6. ASSUME NEW i \in Places(l, "report")
      PROVE  i \in Following(m) <=> i \in Following(l)
  <2>1. \A j \in Places(m, "report") : j < i => j \in Places(l, "report")
      BY <1>1, <1>2, <1>3
  <2>. QED
      BY <1>2, <1>5, <2>1 DEF Following
<1>7. last \in Following(m) <=> InTrace(l)
  <2>1. last - 1 = Len(l) /\ m[last - 1] = l[Len(l)]
      BY <1>1
  <2>2. ASSUME NEW j \in Places(l, "report")
        PROVE  /\ j < last
               /\ "initial" \notin {m[k] : k \in j .. last}
                     <=> \A k \in j .. Len(l) : l[k] # "initial"
    <3>1. j .. last = j .. Len(l) \cup {last} /\ j < last
        BY <1>1, <1>3
    <3>2. \A k \in j .. Len(l) : m[k] = l[k]
        BY <1>1, <1>3
    <3>. QED
        BY <1>1, <3>1, <3>2
  <2>3. \A j \in Places(m, "report") : j < last => j \in Places(l, "report")
      BY <1>1, <1>2
  <2>4. last \in Following(m) <=> m[last - 1] = "step" /\ InTrace(l)
      BY <1>2, <2>2, <2>3 DEF Following, InTrace
  <2>5. InTrace(l) => l[Len(l)] # "initial"
    <3>. SUFFICES ASSUME InTrace(l) PROVE l[Len(l)] # "initial"
        OBVIOUS
    <3>1. PICK j \in Places(l, "report") : \A k \in j .. Len(l) : l[k] # "initial"
        BY DEF InTrace
    <3>2. Len(l) \in j .. Len(l)
        BY <1>1, <1>3
    <3>. QED
        BY <3>1, <3>2
  <2>. QED
      BY <2>1, <2>4, <2>5
<1>8. Following(l) \in SUBSET Places(l, "report") /\ Following(m) \in SUBSET Places(m, "report")
    BY DEF Following
<1>9. InTrace(l) => Following(m) = Following(l) \cup {last}
    BY <1>2, <1>6, <1>7, <1>8
<1>10. ~InTrace(l) => Following(m) = Following(l)
    BY <1>2, <1>6, <1>7, <1>8
<1>11. IsFiniteSet(Following(l)) /\ last \notin Following(l)
    BY <1>2, <1>8, PlacesAreFinite
<1>12. Cardinality(Following(l) \cup {last}) = Cardinality(Following(l)) + 1
    BY <1>11, FS_AddElement
<1>. QED
    BY <1>4, <1>9, <1>10, <1>12 DEF m

(* The coverage of two recorders is the same. *)
SameCoverage(q, r) ==
    /\ q.actions = r.actions /\ q.sequences = r.sequences
    /\ q.droppedActionEvents = r.droppedActionEvents
    /\ q.droppedSequenceEvents = r.droppedSequenceEvents
    /\ q.statesReported = r.statesReported

(* Accepting a state, ending the traces and beginning a state leave the    *)
(* coverage alone; only a new trace forgets the action before.             *)
LEMMA CoverageIsKept ==
    ASSUME NEW r \in Recorders
    PROVE  /\ SameCoverage(acknowledge(r), r)
           /\ acknowledge(r).previousAction = r.previousAction
           /\ SameCoverage(complete(r), r) /\ complete(r).previousAction = r.previousAction
           /\ SameCoverage(begin(r, FALSE), r)
           /\ begin(r, FALSE).previousAction = r.previousAction
           /\ SameCoverage(begin(r, TRUE), r) /\ begin(r, TRUE).previousAction = NoAction
<1>. DEFINE a == acknowledge(r)
<1>1. /\ SameCoverage(a, r) /\ a.previousAction = r.previousAction /\ a \in Recorders
  <2>1. CASE ~r.pending
      BY <2>1 DEF acknowledge, SameCoverage
  <2>2. CASE r.pending
    <3>. DEFINE steps == IF r.stateIndex > 0 THEN r.stepsCompleted + 1 ELSE r.stepsCompleted
    <3>1. a = [r EXCEPT !.pending = FALSE, !.statesMatched = r.statesMatched + 1,
                        !.stepsCompleted = steps]
        BY <2>2 DEF acknowledge
    <3>2. r.statesMatched + 1 \in Nat /\ steps \in Nat
        BY DEF Recorders
    <3>. HIDE DEF a, steps
    <3>3. a \in Recorders
        BY <3>1, <3>2, RecorderFields
    <3>. QED
        BY <3>1, <3>3 DEF SameCoverage, Recorders
  <2>. QED
      BY <2>1, <2>2
<1>2. /\ complete(r) = [a EXCEPT !.tracesCompleted = a.tracesStarted]
      /\ begin(r, FALSE) = [a EXCEPT !.stateIndex = @ + 1]
      /\ begin(r, TRUE) = [a EXCEPT !.tracesCompleted = IF a.tracesStarted > 0 THEN @ + 1 ELSE @,
                                    !.tracesStarted = @ + 1,
                                    !.stateIndex = 0,
                                    !.previousAction = NoAction]
    BY DEF complete, begin
<1>. HIDE DEF a
<1>3. SameCoverage(complete(r), a) /\ complete(r).previousAction = a.previousAction
    BY <1>1, <1>2 DEF SameCoverage, Recorders
<1>4. SameCoverage(begin(r, FALSE), a) /\ begin(r, FALSE).previousAction = a.previousAction
    BY <1>1, <1>2 DEF SameCoverage, Recorders
<1>5. SameCoverage(begin(r, TRUE), a) /\ begin(r, TRUE).previousAction = NoAction
    BY <1>1, <1>2 DEF SameCoverage, Recorders
<1>. QED
    BY <1>1, <1>3, <1>4, <1>5 DEF SameCoverage, a

(* Events that report nothing keep the tally. *)
LEMMA OtherEventsTally ==
    ASSUME NEW r, NEW l, RecorderInv(r, l), Tally(r, l)
    PROVE  /\ Tally(acknowledge(r), Append(l, "ok"))
           /\ Tally(complete(r), Append(l, "done"))
           /\ Tally(begin(r, TRUE), Append(l, "initial"))
           /\ Tally(begin(r, FALSE), Append(l, "step"))
<1>1. r \in Recorders /\ l \in Seq(Events) /\ Led(l)
    BY DEF RecorderInv
<1>2. ASSUME NEW q, NEW e \in Events \ {"report"}, SameCoverage(q, r),
             e # "initial" => q.previousAction = r.previousAction,
             e = "initial" => q.previousAction = NoAction
      PROVE  Tally(q, Append(l, e))
  <2>1. /\ Following(Append(l, e)) = Following(l)
        /\ InTrace(Append(l, e)) <=> InTrace(l) /\ e # "initial"
      BY <1>1, <1>2, OtherEventsFollow
  <2>. QED
      BY <1>2, <2>1 DEF Tally, SameCoverage
<1>3. {"ok", "done", "initial", "step"} \subseteq Events \ {"report"}
    BY DEF Events
<1>4. /\ SameCoverage(acknowledge(r), r) /\ acknowledge(r).previousAction = r.previousAction
      /\ SameCoverage(complete(r), r) /\ complete(r).previousAction = r.previousAction
      /\ SameCoverage(begin(r, FALSE), r) /\ begin(r, FALSE).previousAction = r.previousAction
      /\ SameCoverage(begin(r, TRUE), r) /\ begin(r, TRUE).previousAction = NoAction
    BY <1>1, CoverageIsKept
<1>. QED
    BY <1>2, <1>3, <1>4

(* A report is counted once by the actions, and once by the pairs if it    *)
(* follows another in its trace: in the map, or as dropped.                *)
LEMMA ReportIsTallied ==
    ASSUME NEW r, NEW l, RecorderInv(r, l), Begun(r, l), Tally(r, l), NEW x \in Actions
    PROVE  Tally(reported(r, x), Append(l, "report"))
<1>. DEFINE pair == <<r.previousAction, x>>
            q == IF Fits(r.actions, x, ACTION_LIMIT)
                 THEN [r EXCEPT !.actions[x] = @ + 1]
                 ELSE [r EXCEPT !.droppedActionEvents = @ + 1]
            s == IF ~(r.previousAction # NoAction) THEN q
                 ELSE IF Fits(r.sequences, pair, SEQUENCE_LIMIT)
                 THEN [q EXCEPT !.sequences[pair] = @ + 1]
                 ELSE [q EXCEPT !.droppedSequenceEvents = @ + 1]
            t == [s EXCEPT !.statesReported = @ + 1, !.pending = TRUE, !.previousAction = x]
            m == Append(l, "report")
<1>1. /\ r \in Recorders /\ l \in Seq(Events) /\ Led(l) /\ Covered(r)
    BY DEF RecorderInv
<1>2. reported(r, x) = t
    BY DEF reported
<1>3. /\ r.actions \in [Actions -> Nat] /\ r.sequences \in [Actions \X Actions -> Nat]
      /\ r.previousAction \in Actions \cup {NoAction}
      /\ r.droppedActionEvents \in Nat /\ r.droppedSequenceEvents \in Nat
      /\ r.statesReported \in Nat
    BY <1>1 DEF Recorders
<1>4. IsFiniteSet(Entries(r.actions)) /\ IsFiniteSet(Entries(r.sequences))
    BY <1>1 DEF Covered, Bounded
<1>5. /\ Total(r.actions) \in Nat /\ Total(r.sequences) \in Nat
      /\ Total([r.actions EXCEPT ![x] = @ + 1]) = Total(r.actions) + 1
      /\ \A p \in Actions \X Actions :
            Total([r.sequences EXCEPT ![p] = @ + 1]) = Total(r.sequences) + 1
    BY <1>3, <1>4, TotalOfBump
<1>6. /\ Total(q.actions) + q.droppedActionEvents = r.statesReported + 1
      /\ q.sequences = r.sequences /\ q.droppedSequenceEvents = r.droppedSequenceEvents
      /\ q.statesReported = r.statesReported /\ DOMAIN q = DOMAIN r
  <2>1. CASE Fits(r.actions, x, ACTION_LIMIT)
    <3>1. q = [r EXCEPT !.actions = [r.actions EXCEPT ![x] = @ + 1]]
        BY <2>1
    <3>. HIDE DEF q
    <3>2. /\ q.actions = [r.actions EXCEPT ![x] = @ + 1]
          /\ q.droppedActionEvents = r.droppedActionEvents
          /\ q.sequences = r.sequences /\ q.droppedSequenceEvents = r.droppedSequenceEvents
          /\ q.statesReported = r.statesReported /\ DOMAIN q = DOMAIN r
        BY <1>1, <3>1 DEF Recorders
    <3>3. Total(q.actions) = Total(r.actions) + 1
        BY <1>5, <3>2
    <3>4. Total(r.actions) + r.droppedActionEvents = r.statesReported
        BY DEF Tally
    <3>. QED
        BY <1>3, <1>5, <3>2, <3>3, <3>4
  <2>2. CASE ~Fits(r.actions, x, ACTION_LIMIT)
    <3>1. q = [r EXCEPT !.droppedActionEvents = @ + 1]
        BY <2>2
    <3>. HIDE DEF q
    <3>2. /\ q.actions = r.actions
          /\ q.droppedActionEvents = r.droppedActionEvents + 1
          /\ q.sequences = r.sequences /\ q.droppedSequenceEvents = r.droppedSequenceEvents
          /\ q.statesReported = r.statesReported /\ DOMAIN q = DOMAIN r
        BY <1>1, <3>1 DEF Recorders
    <3>. QED
        BY <1>3, <1>5, <3>2 DEF Tally
  <2>. QED
      BY <2>1, <2>2
<1>. HIDE DEF q
<1>7. /\ s.actions = q.actions /\ s.droppedActionEvents = q.droppedActionEvents
      /\ s.statesReported = q.statesReported /\ DOMAIN s = DOMAIN r
      /\ r.previousAction = NoAction => Total(s.sequences) + s.droppedSequenceEvents
                                          = Total(r.sequences) + r.droppedSequenceEvents
      /\ r.previousAction # NoAction => Total(s.sequences) + s.droppedSequenceEvents
                                          = Total(r.sequences) + r.droppedSequenceEvents + 1
  <2>0. {"actions", "droppedActionEvents", "statesReported", "sequences",
         "droppedSequenceEvents"} \subseteq DOMAIN q
      BY <1>1, <1>6 DEF Recorders
  <2>1. CASE ~(r.previousAction # NoAction)
      BY <1>6, <2>1
  <2>2. CASE r.previousAction # NoAction /\ Fits(r.sequences, pair, SEQUENCE_LIMIT)
    <3>1. pair \in Actions \X Actions
        BY <1>3, <2>2
    <3>. HIDE DEF pair
    <3>2. s = [q EXCEPT !.sequences = [r.sequences EXCEPT ![pair] = @ + 1]]
        BY <1>6, <2>2
    <3>. HIDE DEF s
    <3>3. /\ s.actions = q.actions /\ s.droppedActionEvents = q.droppedActionEvents
          /\ s.statesReported = q.statesReported /\ DOMAIN s = DOMAIN r
          /\ s.sequences = [r.sequences EXCEPT ![pair] = @ + 1]
          /\ s.droppedSequenceEvents = r.droppedSequenceEvents
        BY <1>6, <2>0, <3>2
    <3>4. Total(s.sequences) = Total(r.sequences) + 1
        BY <1>5, <3>1, <3>3
    <3>. QED
        BY <1>3, <1>5, <2>2, <3>3, <3>4
  <2>3. CASE r.previousAction # NoAction /\ ~Fits(r.sequences, pair, SEQUENCE_LIMIT)
    <3>1. s = [q EXCEPT !.droppedSequenceEvents = @ + 1]
        BY <2>3
    <3>. HIDE DEF s
    <3>2. /\ s.actions = q.actions /\ s.droppedActionEvents = q.droppedActionEvents
          /\ s.statesReported = q.statesReported /\ DOMAIN s = DOMAIN r
          /\ s.sequences = r.sequences
          /\ s.droppedSequenceEvents = r.droppedSequenceEvents + 1
        BY <1>6, <2>0, <3>1
    <3>. QED
        BY <1>3, <1>5, <2>3, <3>2
  <2>. QED
      BY <2>1, <2>2, <2>3
<1>. HIDE DEF s
<1>8. /\ t.actions = s.actions /\ t.droppedActionEvents = s.droppedActionEvents
      /\ t.sequences = s.sequences /\ t.droppedSequenceEvents = s.droppedSequenceEvents
      /\ t.statesReported = r.statesReported + 1 /\ t.previousAction = x
  <2>1. {"actions", "droppedActionEvents", "statesReported", "sequences", "pending",
         "droppedSequenceEvents", "previousAction"} \subseteq DOMAIN s
      BY <1>1, <1>7 DEF Recorders
  <2>. QED
      BY <1>6, <1>7, <2>1
<1>. HIDE DEF t
<1>9. /\ InTrace(m)
      /\ InTrace(l) => Cardinality(Following(m)) = Cardinality(Following(l)) + 1
      /\ ~InTrace(l) => Following(m) = Following(l)
    BY <1>1, ReportsFollow DEF Begun
<1>10. t.previousAction # NoAction
    BY <1>8, RecorderLimits
<1>11. Total(t.actions) + t.droppedActionEvents = t.statesReported
    BY <1>6, <1>7, <1>8
<1>12. Total(t.sequences) + t.droppedSequenceEvents = Cardinality(Following(m))
    BY <1>7, <1>8, <1>9 DEF Tally
<1>. QED
    BY <1>2, <1>9, <1>10, <1>11, <1>12 DEF Tally

(* A new recorder has counted nothing. *)
LEMMA TallyStarts == Init => Tally(recorder, log)
<1>. SUFFICES ASSUME Init PROVE Tally(recorder, log)
    OBVIOUS
<1>1. /\ recorder.actions = [a \in Actions |-> 0]
      /\ recorder.sequences = [p \in Actions \X Actions |-> 0]
      /\ recorder.droppedActionEvents = 0 /\ recorder.droppedSequenceEvents = 0
      /\ recorder.statesReported = 0 /\ recorder.previousAction = NoAction /\ log = <<>>
    BY DEF Init, NewRecorder
<1>2. ASSUME NEW S
      PROVE  Total([k \in S |-> 0]) = 0
  <2>. DEFINE z == [k \in S |-> 0]
  <2>1. \A k \in DOMAIN z : {k} \X (1 .. z[k]) = {}
      OBVIOUS
  <2>2. UNION {{k} \X (1 .. z[k]) : k \in DOMAIN z} = {}
      BY <2>1
  <2>. QED
      BY <2>2, FS_EmptySet DEF Total
<1>3. Places(log, "report") = {}
    BY <1>1 DEF Places
<1>4. Following(log) = {} /\ ~InTrace(log)
    BY <1>3 DEF Following, InTrace
<1>5. Total(recorder.actions) = 0 /\ Total(recorder.sequences) = 0
    BY <1>1, <1>2
<1>6. Cardinality(Following(log)) = 0
    BY <1>4, FS_EmptySet
<1>. QED
    BY <1>1, <1>4, <1>5, <1>6 DEF Tally

(* Every step keeps the tally. *)
LEMMA NextKeepsTally ==
    ASSUME IInv, Tally(recorder, log), [Next]_vars
    PROVE  Tally(recorder', log')
<1>1. CASE UNCHANGED <<recorder, log>>
    BY <1>1
<1>2. ASSUME NEW r, NEW l, RecorderInv(r, l), Begun(r, l), Tally(r, l), message \in Opening,
             SendState(r, l)
      PROVE  Tally(recorder', log')
  <2>1. message.action \in Actions
      BY <1>2 DEF Opening
  <2>2. \/ recorder' = reported(r, message.action) /\ log' = Append(l, "report")
        \/ recorder' = r /\ log' = l
      BY <1>2 DEF SendState, Record
  <2>. QED
      BY <1>2, <2>1, <2>2, ReportIsTallied
<1>3. CASE reportState
  <2>1. RecorderInv(recorder, log) /\ message \in Opening /\ Begun(recorder, log)
      BY <1>3, InvariantParts DEF RunnerInv, reportState
  <2>2. UNCHANGED <<recorder, log>> \/ SendState(recorder, log)
      BY <1>3 DEF reportState, Record
  <2>. QED
      BY <1>1, <1>2, <2>1, <2>2
<1>4. CASE Dispatch
  <2>1. ~Ended
      BY <1>4 DEF Dispatch, Ended
  <2>2. RunnerTypes /\ RecorderInv(recorder, log) /\ Places(log, "done") = {}
      BY <2>1, BeforeTheEnd
  <2>3. message.step \in {"initial_state", "next_step"} => message \in Opening
      BY <2>2 DEF RunnerTypes, Messages, Other, NoMessage, EndOfStream, Opening
  <2>4. ASSUME NEW r, NEW l, RecorderInv(r, l), Begun(r, l), Tally(r, l), message \in Opening,
               startAction(r, l)
        PROVE  Tally(recorder', log')
    <3>1. (recorder' = r /\ log' = l) \/ SendState(r, l)
        BY <2>4 DEF startAction, Record
    <3>. QED
        BY <1>2, <2>4, <3>1
  <2>5. CASE InitialState
    <3>. DEFINE r == begin(recorder, TRUE)
                l == Append(log, "initial")
    <3>1. RecorderInv(r, l) /\ Begun(r, l)
        BY <2>2, BeginTraceKeeps
    <3>2. Tally(r, l)
        BY <2>2, OtherEventsTally
    <3>3. message \in Opening /\ startAction(r, l)
        BY <2>3, <2>5 DEF InitialState
    <3>. HIDE DEF r, l
    <3>. QED
        BY <2>4, <3>1, <3>2, <3>3
  <2>6. CASE NextStep
    <3>. DEFINE r == begin(recorder, FALSE)
                l == Append(log, "step")
    <3>1. RecorderInv(r, l) /\ Begun(r, l)
        BY <2>2, BeginStepKeeps
    <3>2. Tally(r, l)
        BY <2>2, OtherEventsTally
    <3>3. message \in Opening /\ startAction(r, l)
        BY <2>3, <2>6 DEF NextStep
    <3>. HIDE DEF r, l
    <3>. QED
        BY <2>4, <3>1, <3>2, <3>3
  <2>7. CASE StepOk \/ AllStepsDone
      BY <2>2, <2>7, OtherEventsTally DEF StepOk, AllStepsDone, Record
  <2>8. CASE Registration \/ Refusal \/ StreamIsOver
      BY <1>1, <2>8 DEF Registration, Refusal, StreamIsOver
  <2>. QED
      BY <1>4, <2>5, <2>6, <2>7, <2>8 DEF Dispatch, replayCore
<1>. QED
    BY <1>1, <1>3, <1>4 DEF Next, runReplayExchange, externalAbort, Elapse, expire,
       LineReceived, ComputerSettles, Continue, RunThrows, RunReturns, runLegacyReplay,
       StreamStops, runner, vars

(* The bounded coverage maps of the report lose nothing silently: they stay *)
(* within their limits, and what they hold and what they dropped add up to  *)
(* the reports, and to the reports that follow another one in the same      *)
(* trace, for any set of actions and any limits (reported in                *)
(* src/replay-report.ts).                                                   *)
THEOREM CoverageIsComplete == Spec => []CoverageAddsUp
<1>1. IInv /\ Tally(recorder, log) /\ [Next]_vars => Tally(recorder, log)'
  <2>. SUFFICES ASSUME IInv, Tally(recorder, log), [Next]_vars PROVE Tally(recorder, log)'
      OBVIOUS
  <2>1. Tally(recorder', log')
      BY NextKeepsTally
  <2>. QED
      BY <2>1 DEF Tally, Total, Following, InTrace, Places
<1>2. IInv /\ Tally(recorder, log) => CoverageAddsUp
  <2>. SUFFICES ASSUME IInv, Tally(recorder, log) PROVE CoverageAddsUp
      OBVIOUS
  <2>1. Positions("report") = Places(log, "report")
      BY DEF Positions, Places
  <2>2. Following(log) = {i \in Positions("report") : log[i - 1] = "step"
                            /\ \E j \in Positions("report") :
                                 j < i /\ "initial" \notin {log[k] : k \in j .. i}}
      BY <2>1 DEF Following
  <2>3. /\ Cardinality(Entries(recorder.actions)) <= ACTION_LIMIT
        /\ Cardinality(Entries(recorder.sequences)) <= SEQUENCE_LIMIT
      BY InvariantParts DEF RecorderInv, Covered, Bounded
  <2>. QED
      BY <2>2, <2>3 DEF Tally, CoverageAddsUp
<1>. QED
    BY Invariance, TallyStarts, <1>1, <1>2, PTL DEF Spec
=============================================================================
