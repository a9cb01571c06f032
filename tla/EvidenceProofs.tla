--------------------------- MODULE EvidenceProofs ---------------------------
(***************************************************************************)
(* Proofs about MatchedEvidence: the evidence of a suite counts what the   *)
(* mirror accepted and nothing else, and neither "complete" nor "met" is   *)
(* claimed of a corpus that was not wholly observed, for any descriptor    *)
(* and any corpus.                                                         *)
(***************************************************************************)
EXTENDS MatchedEvidence, FiniteSetTheorems, SequenceTheorems, TLAPS

-----------------------------------------------------------------------------
(* The inductive invariant *)

(* Accepted, AcceptedAs and AcceptedPairs, of any observations *)
Acc(o) == {i \in 1 .. Len(o) : o[i].fate \in {"confirmed", "passed_over"}}
AccAs(o, S) == {i \in Acc(o) : o[i].id \in S}
AccPairs(o, p) ==
    {i \in AccAs(o, {p[2]}) : i - 1 \in AccAs(o, {p[1]}) /\ o[i - 1].trace = o[i].trace}

(* The counters are the counts, or do not exceed them. *)
Matches(t, o) ==
    /\ t.initialMatched = Cardinality(AccAs(o, Initializers))
    /\ t.transitionMatched = Cardinality(AccAs(o, Transitions))
    /\ \A a \in RequiredActions : t.actions[a] = Cardinality(AccAs(o, {a}))
    /\ \A p \in RequiredPairs : t.pairs[p] = Cardinality(AccPairs(o, p))
Within(t, o) ==
    /\ t.initialMatched <= Cardinality(AccAs(o, Initializers))
    /\ t.transitionMatched <= Cardinality(AccAs(o, Transitions))
    /\ \A a \in RequiredActions : t.actions[a] <= Cardinality(AccAs(o, {a}))
    /\ \A p \in RequiredPairs : t.pairs[p] <= Cardinality(AccPairs(o, p))

(* While the replay goes on, only the last observation can be unanswered,  *)
(* and it is the pending one; none was rejected.                           *)
Answered(t, o) ==
    /\ t.pending # None <=> Len(o) > 0 /\ o[Len(o)].fate = "sent"
    /\ t.pending # None => o[Len(o)].id = t.pending /\ o[Len(o)].trace = t.started
    /\ \A i \in 1 .. Len(o) :
         /\ o[i].fate # "rejected" /\ (o[i].fate = "sent" => i = Len(o))
         /\ strict => o[i].fate # "passed_over"
         /\ o[i].trace \in 1 .. t.started

(* `previous` is the transition before position m + 1 in the same trace. *)
LastIs(t, o, m) ==
    /\ t.previous # None => m >= 1 /\ o[m].id = t.previous /\ o[m].trace = t.started
    /\ t.previous = None => m = 0 \/ o[m].id \in Initializers \/ o[m].trace # t.started
Previous(t, o) ==
    /\ t.pending = None => LastIs(t, o, Len(o))
    /\ t.pending # None => LastIs(t, o, Len(o) - 1)

(* The current trace is the last stretch of the observations. *)
Current(t, o) ==
    \E s \in 0 .. Len(o) :
       /\ t.pending = None => s + t.currentMatched = Len(o)
       /\ t.pending # None => s + t.currentMatched + 1 = Len(o)
       /\ \A i \in 1 .. Len(o) : o[i].trace = t.started <=> i > s
       /\ checked => \A i \in 1 .. Len(o) : i > s => o[i].id = corpus[t.started][i - s]

(* TraceObserved, of any observations *)
Seen(o, k) ==
    \E s \in 0 .. Len(o) :
       /\ s + Len(corpus[k]) <= Len(o)
       /\ \A i \in 1 .. Len(o) : o[i].trace = k <=> i \in s + 1 .. s + Len(corpus[k])
       /\ \A i \in 1 .. Len(corpus[k]) :
            /\ o[s + i].fate \in {"confirmed"} \cup (IF strict THEN {} ELSE {"passed_over"})
            /\ checked => o[s + i].id = corpus[k][i]

Live(t, o) ==
    /\ ~t.sealed /\ ~t.complete /\ t.uncertain = {}
    /\ t.started <= Len(corpus)
    /\ Matches(t, o) /\ Answered(t, o) /\ Previous(t, o) /\ Current(t, o)
    /\ \A k \in 1 .. Len(corpus) : k < t.started => Seen(o, k)

Settled(t, o) ==
    /\ t.sealed /\ Within(t, o)
    /\ t.uncertain = {} => Matches(t, o)
    /\ t.complete => /\ t.uncertain = {}
                     /\ \A i \in 1 .. Len(o) : o[i].trace \in 1 .. Len(corpus)
                     /\ \A k \in 1 .. Len(corpus) : Seen(o, k)

(* The state that replayCore computes is the corpus's next one. *)
Computing(t) ==
    /\ t.active # None /\ t.pending = None
    /\ t.started > 0 /\ t.currentMatched < Len(corpus[t.started])
    /\ checked => corpus[t.started][t.currentMatched + 1] = t.active

IInv ==
    /\ TypeOK
    /\ pc = "over" => Settled(tracker, observed)
    /\ pc # "over" => Live(tracker, observed)
    /\ pc = "receive" => tracker.active = None
    /\ pc = "computing" => Computing(tracker)

-----------------------------------------------------------------------------
(* What an answer makes of the observations *)

(* u is o with the fate of the last observation decided. *)
Decides(o, u, fate) ==
    /\ u \in Seq(Observations) /\ Len(u) = Len(o) /\ Len(o) \in Nat /\ Len(o) > 0
    /\ u[Len(o)].fate = fate
    /\ \A i \in 1 .. Len(o) : /\ u[i].id = o[i].id /\ u[i].trace = o[i].trace
                              /\ i # Len(o) => u[i].fate = o[i].fate

(* Resolve decides the fate of the last observation. *)
LEMMA AnswerDecides ==
    ASSUME NEW o \in Seq(Observations), Len(o) > 0,
           NEW fate \in {"passed_over", "confirmed", "rejected"}
    PROVE  Decides(o, [o EXCEPT ![Len(o)].fate = fate], fate)
<1>. DEFINE n == Len(o)
            x == [o[n] EXCEPT !.fate = fate]
            u == [o EXCEPT ![n] = x]
<1>1. n \in 1 .. n /\ o[n] \in Observations /\ n \in Nat
    BY ElementOfSeq
<1>2. x \in Observations /\ x.fate = fate /\ x.id = o[n].id /\ x.trace = o[n].trace
    BY <1>1 DEF Observations
<1>. HIDE DEF x
<1>3. u \in Seq(Observations) /\ Len(u) = n
    BY <1>1, <1>2
<1>4. u[n] = x /\ \A i \in 1 .. n : i # n => u[i] = o[i]
    BY <1>1
<1>5. Decides(o, u, fate)
    BY <1>1, <1>2, <1>3, <1>4 DEF Decides
<1>. QED
    BY <1>5 DEF x

(* Sets of positions are finite. *)
LEMMA PositionsAreFinite ==
    ASSUME NEW o \in Seq(Observations)
    PROVE  \A S \in SUBSET (1 .. Len(o)) : IsFiniteSet(S) /\ Cardinality(S) \in Nat
<1>1. Len(o) \in Nat
    OBVIOUS
<1>2. IsFiniteSet(1 .. Len(o))
    BY <1>1, FS_Interval
<1>. QED
    BY <1>2, FS_Subset, FS_CardinalityType

(* The sets that are counted are sets of positions. *)
LEMMA CountedArePositions ==
    ASSUME NEW o, NEW S, NEW p
    PROVE  AccAs(o, S) \in SUBSET (1 .. Len(o)) /\ AccPairs(o, p) \in SUBSET (1 .. Len(o))
    BY DEF AccPairs, AccAs, Acc

(* An acceptance counts the last observation wherever it belongs. *)
LEMMA AcceptanceCounts ==
    ASSUME NEW o \in Seq(Observations), o[Len(o)].fate = "sent", NEW u,
           NEW fate \in {"passed_over", "confirmed"}, Decides(o, u, fate)
    PROVE  LET n == Len(o)
               joins(p) == /\ o[n].id = p[2] /\ n - 1 \in AccAs(o, {p[1]})
                           /\ o[n - 1].trace = o[n].trace
           IN  /\ \A S : o[n].id \in S => Cardinality(AccAs(u, S)) = Cardinality(AccAs(o, S)) + 1
               /\ \A S : o[n].id \notin S => AccAs(u, S) = AccAs(o, S)
               /\ \A p : joins(p) => Cardinality(AccPairs(u, p)) = Cardinality(AccPairs(o, p)) + 1
               /\ \A p : ~joins(p) => AccPairs(u, p) = AccPairs(o, p)
<1>. DEFINE n == Len(o)
            joins(p) == /\ o[n].id = p[2] /\ n - 1 \in AccAs(o, {p[1]})
                        /\ o[n - 1].trace = o[n].trace
<1>1. /\ n \in Nat /\ n > 0 /\ Len(u) = n /\ u[n].fate = fate
      /\ \A i \in 1 .. n : u[i].id = o[i].id /\ u[i].trace = o[i].trace
      /\ \A i \in 1 .. n : i # n => u[i].fate = o[i].fate
    BY DEF Decides
<1>2. Acc(u) = Acc(o) \cup {n} /\ n \notin Acc(o)
    BY <1>1 DEF Acc
<1>3. \A S : o[n].id \in S => AccAs(u, S) = AccAs(o, S) \cup {n}
    BY <1>1, <1>2 DEF AccAs, Acc
<1>4. \A S : o[n].id \notin S => AccAs(u, S) = AccAs(o, S)
    BY <1>1, <1>2 DEF AccAs, Acc
<1>5. \A S : /\ n \notin AccAs(o, S)
             /\ \A i \in 1 .. n : i # n => (i \in AccAs(u, S) <=> i \in AccAs(o, S))
    BY <1>1, <1>2 DEF AccAs, Acc
<1>6. \A p, i : i \in AccPairs(o, p) => i \in 1 .. n /\ i # n
    BY <1>5, CountedArePositions DEF AccPairs
<1>7. ASSUME NEW p, NEW i \in 1 .. n, i # n
      PROVE  i \in AccPairs(u, p) <=> i \in AccPairs(o, p)
  <2>1. i \in AccAs(u, {p[2]}) <=> i \in AccAs(o, {p[2]})
      BY <1>5, <1>7
  <2>2. CASE i = 1
    <3>1. \A S : i - 1 \notin AccAs(u, S) /\ i - 1 \notin AccAs(o, S)
        BY <2>2 DEF AccAs, Acc
    <3>. QED
        BY <3>1 DEF AccPairs
  <2>3. CASE i # 1
    <3>1. i - 1 \in 1 .. n /\ i - 1 # n
        BY <1>1, <1>7, <2>3
    <3>2. i - 1 \in AccAs(u, {p[1]}) <=> i - 1 \in AccAs(o, {p[1]})
        BY <1>5, <3>1
    <3>3. u[i].trace = o[i].trace /\ u[i - 1].trace = o[i - 1].trace
        BY <1>1, <1>7, <3>1
    <3>. QED
        BY <2>1, <3>2, <3>3 DEF AccPairs
  <2>. QED
      BY <2>2, <2>3
<1>8. ASSUME NEW p
      PROVE  n \in AccPairs(u, p) <=> joins(p)
  <2>1. n \in AccAs(u, {p[2]}) <=> o[n].id = p[2]
      BY <1>3, <1>4, <1>5
  <2>2. n - 1 \in AccAs(u, {p[1]}) <=> n - 1 \in AccAs(o, {p[1]})
    <3>1. CASE n - 1 \in 1 .. n
        BY <1>1, <1>5, <3>1
    <3>2. CASE n - 1 \notin 1 .. n
        BY <1>1, <3>2 DEF AccAs, Acc
    <3>. QED
        BY <3>1, <3>2
  <2>3. n - 1 \in AccAs(o, {p[1]}) => u[n].trace = o[n].trace /\ u[n - 1].trace = o[n - 1].trace
      BY <1>1 DEF AccAs, Acc
  <2>. QED
      BY <2>1, <2>2, <2>3 DEF AccPairs
<1>9. \A p, i : i \in AccPairs(u, p) => i \in 1 .. n
    BY <1>1, CountedArePositions
<1>10. \A p : joins(p) => AccPairs(u, p) = AccPairs(o, p) \cup {n}
    BY <1>6, <1>7, <1>8, <1>9
<1>. HIDE DEF joins
<1>11. ASSUME NEW p, ~joins(p)
       PROVE  AccPairs(u, p) = AccPairs(o, p)
  <2>1. n \notin AccPairs(u, p) /\ n \notin AccPairs(o, p)
      BY <1>6, <1>8, <1>11
  <2>2. \A i : i \in AccPairs(u, p) <=> i \in AccPairs(o, p)
      BY <1>6, <1>7, <1>9, <2>1
  <2>. QED
      BY <2>2
<1>12. \A T \in SUBSET (1 .. n) : n \notin T => Cardinality(T \cup {n}) = Cardinality(T) + 1
    BY PositionsAreFinite, FS_AddElement
<1>13. \A S : o[n].id \in S => Cardinality(AccAs(u, S)) = Cardinality(AccAs(o, S)) + 1
  <2>1. \A S : AccAs(o, S) \in SUBSET (1 .. n)
      BY CountedArePositions
  <2>. QED
      BY <1>3, <1>5, <1>12, <2>1
<1>14. \A p : joins(p) => Cardinality(AccPairs(u, p)) = Cardinality(AccPairs(o, p)) + 1
  <2>1. \A p : AccPairs(o, p) \in SUBSET (1 .. n) /\ n \notin AccPairs(o, p)
      BY <1>6, CountedArePositions
  <2>. QED
      BY <1>10, <1>12, <2>1
<1>. QED
    BY <1>4, <1>11, <1>13, <1>14 DEF joins

(* A rejection, and an observation that is only sent, count nothing. *)
LEMMA OthersCountNothing ==
    ASSUME NEW o \in Seq(Observations), NEW u, Len(u) \in Nat,
           \A i \in 1 .. Len(u) : u[i].fate \in {"confirmed", "passed_over"} => i \in 1 .. Len(o),
           \A i \in 1 .. Len(o) :
              /\ i \in 1 .. Len(u) /\ u[i].id = o[i].id /\ u[i].trace = o[i].trace
              /\ u[i].fate \in {"confirmed", "passed_over"}
                   <=> o[i].fate \in {"confirmed", "passed_over"}
    PROVE  (\A S : AccAs(u, S) = AccAs(o, S)) /\ (\A p : AccPairs(u, p) = AccPairs(o, p))
<1>1. Acc(u) = Acc(o)
    BY DEF Acc
<1>2. \A S : AccAs(u, S) = AccAs(o, S)
    BY <1>1 DEF AccAs, Acc
<1>3. \A S, i : i \in AccAs(o, S) => u[i].trace = o[i].trace
    BY DEF AccAs, Acc
<1>4. \A p : AccPairs(u, p) = AccPairs(o, p)
    BY <1>2, <1>3 DEF AccPairs
<1>. QED
    BY <1>2, <1>4

-----------------------------------------------------------------------------
(* What the tracker's methods do to its fields *)

(* Setting one field to a value of its type keeps a tracker a tracker. *)
LEMMA FieldKeepsTracker ==
    ASSUME NEW t \in Trackers
    PROVE  /\ [t EXCEPT !.entered = TRUE] \in Trackers
           /\ [t EXCEPT !.complete = TRUE] \in Trackers
           /\ [t EXCEPT !.sealed = TRUE] \in Trackers
           /\ \A n \in Nat : [t EXCEPT !.started = n] \in Trackers
           /\ \A n \in Nat : [t EXCEPT !.completed = n] \in Trackers
           /\ \A n \in Nat : [t EXCEPT !.initialMatched = n] \in Trackers
           /\ \A n \in Nat : [t EXCEPT !.transitionMatched = n] \in Trackers
           /\ \A n \in Nat : [t EXCEPT !.reportedCount = n] \in Trackers
           /\ \A n \in Nat : [t EXCEPT !.currentMatched = n] \in Trackers
           /\ \A i \in Ids \cup {None} : [t EXCEPT !.previous = i] \in Trackers
           /\ \A i \in Ids \cup {None} : [t EXCEPT !.active = i] \in Trackers
           /\ \A i \in Ids \cup {None} : [t EXCEPT !.pending = i] \in Trackers
           /\ \A m \in [RequiredActions -> Nat] : [t EXCEPT !.actions = m] \in Trackers
           /\ \A m \in [RequiredPairs -> Nat] : [t EXCEPT !.pairs = m] \in Trackers
           /\ \A s \in SUBSET Uncertainties : [t EXCEPT !.uncertain = s] \in Trackers
<1>1. /\ [t EXCEPT !.entered = TRUE] \in Trackers
      /\ [t EXCEPT !.complete = TRUE] \in Trackers
      /\ [t EXCEPT !.sealed = TRUE] \in Trackers
    BY DEF Trackers
<1>2. \A n \in Nat : /\ [t EXCEPT !.started = n] \in Trackers
                     /\ [t EXCEPT !.completed = n] \in Trackers
                     /\ [t EXCEPT !.initialMatched = n] \in Trackers
    BY DEF Trackers
<1>3. \A n \in Nat : /\ [t EXCEPT !.transitionMatched = n] \in Trackers
                     /\ [t EXCEPT !.reportedCount = n] \in Trackers
                     /\ [t EXCEPT !.currentMatched = n] \in Trackers
    BY DEF Trackers
<1>4. \A i \in Ids \cup {None} : /\ [t EXCEPT !.previous = i] \in Trackers
                                 /\ [t EXCEPT !.active = i] \in Trackers
                                 /\ [t EXCEPT !.pending = i] \in Trackers
    BY DEF Trackers
<1>5. /\ \A m \in [RequiredActions -> Nat] : [t EXCEPT !.actions = m] \in Trackers
      /\ \A m \in [RequiredPairs -> Nat] : [t EXCEPT !.pairs = m] \in Trackers
      /\ \A s \in SUBSET Uncertainties : [t EXCEPT !.uncertain = s] \in Trackers
    BY DEF Trackers, Counters
<1>. QED
    BY <1>1, <1>2, <1>3, <1>4, <1>5

(* The fields that every method but its own leaves alone *)
SameCounts(t, c) ==
    /\ c.initialMatched = t.initialMatched /\ c.transitionMatched = t.transitionMatched
    /\ c.actions = t.actions /\ c.pairs = t.pairs

(* A failing method seals the tracker and gives up exactness. *)
LEMMA FailSeals ==
    ASSUME NEW t \in Trackers, NEW reason \in Uncertainties
    PROVE  LET c == fail(t, reason)
           IN  /\ c \in Trackers /\ c.sealed /\ c.uncertain # {} /\ SameCounts(t, c)
               /\ (c.complete <=> t.complete)
<1>. DEFINE c == fail(t, reason)
            s == t.uncertain \cup {reason}
<1>1. s \in SUBSET Uncertainties /\ s # {}
    BY DEF Trackers
<1>. HIDE DEF s
<1>2. fail(t, reason) = [[t EXCEPT !.uncertain = s] EXCEPT !.sealed = TRUE]
    BY DEF fail, Trackers, s
<1>3. [t EXCEPT !.uncertain = s] \in Trackers
    BY <1>1, FieldKeepsTracker
<1>4. c \in Trackers
    BY <1>2, <1>3, FieldKeepsTracker
<1>. HIDE DEF c
<1>5. c = [[t EXCEPT !.uncertain = s] EXCEPT !.sealed = TRUE]
    BY <1>2 DEF c
<1>6. /\ c.sealed /\ c.uncertain = s /\ SameCounts(t, c) /\ (c.complete <=> t.complete)
    BY <1>1, <1>5 DEF Trackers, SameCounts
<1>. QED
    BY <1>1, <1>4, <1>6 DEF c

(* commit counts the pending observation, by its kind, and clears it. *)
LEMMA CommitCounts ==
    ASSUME NEW t \in Trackers, t.pending # None
    PROVE  LET c == commit(t)
           IN  /\ c \in Trackers /\ c.pending = None
               /\ (c.entered <=> t.entered) /\ (c.complete <=> t.complete)
               /\ (c.sealed <=> t.sealed) /\ c.uncertain = t.uncertain
               /\ c.started = t.started /\ c.active = t.active
               /\ c.currentMatched = t.currentMatched + 1
               /\ t.pending \in Initializers =>
                    /\ c.initialMatched = t.initialMatched + 1
                    /\ c.transitionMatched = t.transitionMatched
                    /\ c.actions = t.actions /\ c.pairs = t.pairs /\ c.previous = None
               /\ t.pending \in Transitions =>
                    /\ c.initialMatched = t.initialMatched
                    /\ c.transitionMatched = t.transitionMatched + 1
                    /\ c.actions = [a \in RequiredActions |->
                                      IF a = t.pending THEN t.actions[a] + 1 ELSE t.actions[a]]
                    /\ c.pairs = [p \in RequiredPairs |->
                                    IF p = <<t.previous, t.pending>>
                                    THEN t.pairs[p] + 1 ELSE t.pairs[p]]
                    /\ c.previous = t.pending
<1>. DEFINE c == commit(t)
            acts == [a \in RequiredActions |->
                       IF a = t.pending THEN t.actions[a] + 1 ELSE t.actions[a]]
            prs == [p \in RequiredPairs |->
                      IF p = <<t.previous, t.pending>> THEN t.pairs[p] + 1 ELSE t.pairs[p]]
<1>1. /\ t.pending \in Ids /\ t.currentMatched + 1 \in Nat
      /\ t.initialMatched + 1 \in Nat /\ t.transitionMatched + 1 \in Nat
      /\ t.actions \in [RequiredActions -> Nat] /\ t.pairs \in [RequiredPairs -> Nat]
    BY DEF Trackers, Counters
<1>2. acts \in [RequiredActions -> Nat] /\ prs \in [RequiredPairs -> Nat]
    BY <1>1
<1>3. \/ t.pending \in Initializers /\ t.pending \notin Transitions
      \/ t.pending \in Transitions /\ t.pending \notin Initializers
    BY <1>1, DescriptorIsSound DEF Ids
<1>4. CASE t.pending \in Initializers
  <2>. DEFINE d1 == [t EXCEPT !.pending = None]
              d2 == [d1 EXCEPT !.currentMatched = t.currentMatched + 1]
              d3 == [d2 EXCEPT !.initialMatched = t.initialMatched + 1]
              d4 == [d3 EXCEPT !.previous = None]
  <2>1. c = d4
      BY <1>4 DEF commit, Trackers
  <2>2. d1 \in Trackers
      BY FieldKeepsTracker
  <2>3. d2 \in Trackers
      BY <1>1, <2>2, FieldKeepsTracker
  <2>4. d3 \in Trackers
      BY <1>1, <2>3, FieldKeepsTracker
  <2>5. d4 \in Trackers
      BY <2>4, FieldKeepsTracker
  <2>6. /\ c.pending = None /\ (c.entered <=> t.entered) /\ (c.complete <=> t.complete)
        /\ (c.sealed <=> t.sealed) /\ c.uncertain = t.uncertain
        /\ c.started = t.started /\ c.active = t.active
        /\ c.currentMatched = t.currentMatched + 1
        /\ c.initialMatched = t.initialMatched + 1
        /\ c.transitionMatched = t.transitionMatched
        /\ c.actions = t.actions /\ c.pairs = t.pairs /\ c.previous = None
      BY <2>1 DEF Trackers
  <2>. QED
      BY <1>3, <1>4, <2>1, <2>5, <2>6
<1>5. CASE t.pending \notin Initializers
  <2>. DEFINE d1 == [t EXCEPT !.pending = None]
              d2 == [d1 EXCEPT !.currentMatched = t.currentMatched + 1]
              d3 == [d2 EXCEPT !.transitionMatched = t.transitionMatched + 1]
              d4 == [d3 EXCEPT !.actions = acts]
              d5 == [d4 EXCEPT !.pairs = prs]
              d6 == [d5 EXCEPT !.previous = t.pending]
  <2>1. c = [t EXCEPT !.pending = None, !.currentMatched = t.currentMatched + 1,
                      !.transitionMatched = t.transitionMatched + 1,
                      !.actions = acts, !.pairs = prs, !.previous = t.pending]
      BY <1>5 DEF commit, Trackers
  <2>. HIDE DEF acts, prs, c
  <2>2. c = d6
      BY <2>1 DEF Trackers
  <2>3. d1 \in Trackers
      BY FieldKeepsTracker
  <2>4. d2 \in Trackers
      BY <1>1, <2>3, FieldKeepsTracker
  <2>5. d3 \in Trackers
      BY <1>1, <2>4, FieldKeepsTracker
  <2>6. d4 \in Trackers
      BY <1>2, <2>5, FieldKeepsTracker
  <2>7. d5 \in Trackers
      BY <1>2, <2>6, FieldKeepsTracker
  <2>8. d6 \in Trackers
      BY <1>1, <2>7, FieldKeepsTracker
  <2>9. /\ c.pending = None /\ (c.entered <=> t.entered) /\ (c.complete <=> t.complete)
        /\ (c.sealed <=> t.sealed) /\ c.uncertain = t.uncertain
        /\ c.started = t.started /\ c.active = t.active
        /\ c.currentMatched = t.currentMatched + 1
        /\ c.initialMatched = t.initialMatched
        /\ c.transitionMatched = t.transitionMatched + 1
        /\ c.actions = acts /\ c.pairs = prs /\ c.previous = t.pending
      BY <2>1 DEF Trackers
  <2>. QED
      BY <1>3, <1>5, <2>2, <2>8, <2>9 DEF acts, prs, c
<1>. QED
    BY <1>4, <1>5

-----------------------------------------------------------------------------
(* What an acceptance and a report keep *)

(* A trace that was seen stays seen while other traces' observations change. *)
LEMMA SeenIsKept ==
    ASSUME NEW o, NEW u, NEW k, Len(o) \in Nat, Len(u) \in Nat, Len(o) <= Len(u),
           Len(corpus[k]) \in Nat,
           \A i \in 1 .. Len(o) : /\ u[i].trace = o[i].trace /\ u[i].id = o[i].id
                                  /\ o[i].trace = k => u[i].fate = o[i].fate,
           \A i \in 1 .. Len(u) : i > Len(o) => u[i].trace # k,
           Seen(o, k)
    PROVE  Seen(u, k)
<1>1. PICK s \in 0 .. Len(o) :
        /\ s + Len(corpus[k]) <= Len(o)
        /\ \A i \in 1 .. Len(o) : o[i].trace = k <=> i \in s + 1 .. s + Len(corpus[k])
        /\ \A i \in 1 .. Len(corpus[k]) :
             /\ o[s + i].fate \in {"confirmed"} \cup (IF strict THEN {} ELSE {"passed_over"})
             /\ checked => o[s + i].id = corpus[k][i]
    BY DEF Seen
<1>2. s \in 0 .. Len(u) /\ s + Len(corpus[k]) <= Len(u) /\ s \in Nat
    BY <1>1
<1>3. ASSUME NEW i \in 1 .. Len(u)
      PROVE  u[i].trace = k <=> i \in s + 1 .. s + Len(corpus[k])
  <2>1. CASE i \in 1 .. Len(o)
      BY <1>1, <2>1
  <2>2. CASE i > Len(o)
      BY <1>1, <1>2, <1>3, <2>2
  <2>. QED
      BY <1>3, <2>1, <2>2
<1>4. ASSUME NEW i \in 1 .. Len(corpus[k])
      PROVE  /\ u[s + i].fate \in {"confirmed"} \cup (IF strict THEN {} ELSE {"passed_over"})
             /\ checked => u[s + i].id = corpus[k][i]
  <2>1. s + i \in 1 .. Len(o) /\ s + i \in s + 1 .. s + Len(corpus[k])
      BY <1>1, <1>2, <1>4
  <2>2. o[s + i].trace = k
      BY <1>1, <2>1
  <2>3. u[s + i].fate = o[s + i].fate /\ u[s + i].id = o[s + i].id
      BY <2>1, <2>2
  <2>. QED
      BY <1>1, <1>4, <2>3
<1>. QED
    BY <1>2, <1>3, <1>4 DEF Seen

(* The counters follow an acceptance. *)
LEMMA CommitMatches ==
    ASSUME NEW t \in Trackers, NEW o \in Seq(Observations), t.pending # None,
           Matches(t, o), Answered(t, o), Previous(t, o),
           NEW fate \in {"passed_over", "confirmed"}, NEW u, Decides(o, u, fate)
    PROVE  Matches(commit(t), u)
<1>. DEFINE c == commit(t)
            n == Len(o)
            x == t.pending
            joins(p) == /\ o[n].id = p[2] /\ n - 1 \in AccAs(o, {p[1]})
                        /\ o[n - 1].trace = o[n].trace
<1>1. /\ t.pending \in Initializers =>
           /\ c.initialMatched = t.initialMatched + 1
           /\ c.transitionMatched = t.transitionMatched
           /\ c.actions = t.actions /\ c.pairs = t.pairs
      /\ t.pending \in Transitions =>
           /\ c.initialMatched = t.initialMatched
           /\ c.transitionMatched = t.transitionMatched + 1
           /\ c.actions = [a \in RequiredActions |->
                             IF a = t.pending THEN t.actions[a] + 1 ELSE t.actions[a]]
           /\ c.pairs = [p \in RequiredPairs |->
                           IF p = <<t.previous, t.pending>>
                           THEN t.pairs[p] + 1 ELSE t.pairs[p]]
    BY CommitCounts
<1>2. n > 0 /\ n \in Nat /\ o[n].fate = "sent" /\ o[n].id = x /\ o[n].trace = t.started
    BY DEF Answered, Decides
<1>3. /\ \A S : o[n].id \in S => Cardinality(AccAs(u, S)) = Cardinality(AccAs(o, S)) + 1
      /\ \A S : o[n].id \notin S => AccAs(u, S) = AccAs(o, S)
      /\ \A p : joins(p) => Cardinality(AccPairs(u, p)) = Cardinality(AccPairs(o, p)) + 1
      /\ \A p : ~joins(p) => AccPairs(u, p) = AccPairs(o, p)
    BY <1>2, AcceptanceCounts
<1>4. \/ x \in Initializers /\ x \notin Transitions
      \/ x \in Transitions /\ x \notin Initializers
    BY DescriptorIsSound DEF Trackers, Ids
<1>5. ASSUME NEW a \in Transitions, NEW b \in Transitions
      PROVE  joins(<<a, b>>) <=> a = t.previous /\ b = x
  <2>1. LastIs(t, o, n - 1)
      BY DEF Previous
  <2>2. a # None /\ a \notin Initializers
      BY <1>5, DescriptorIsSound DEF Ids
  <2>3. n - 1 >= 1 => n - 1 \in Acc(o)
    <3>. SUFFICES ASSUME n - 1 >= 1 PROVE n - 1 \in Acc(o)
        OBVIOUS
    <3>1. n - 1 \in 1 .. Len(o) /\ n - 1 # Len(o)
        BY <1>2
    <3>2. o[n - 1] \in Observations
        BY <3>1, ElementOfSeq
    <3>3. o[n - 1].fate # "rejected" /\ o[n - 1].fate # "sent"
        BY <3>1 DEF Answered
    <3>. QED
        BY <3>1, <3>2, <3>3 DEF Acc, Observations
  <2>4. ASSUME joins(<<a, b>>)
        PROVE  a = t.previous /\ b = x
    <3>1. b = x /\ n - 1 \in AccAs(o, {a}) /\ o[n - 1].trace = t.started
        BY <1>2, <2>4
    <3>2. o[n - 1].id = a /\ n - 1 # 0
      <4>1. o[n - 1].id \in {a} /\ n - 1 \in Acc(o)
          BY <3>1 DEF AccAs
      <4>2. n - 1 \in 1 .. Len(o)
          BY <4>1 DEF Acc
      <4>. QED
          BY <1>2, <4>1, <4>2
    <3>. QED
        BY <2>1, <2>2, <3>1, <3>2 DEF LastIs
  <2>5. ASSUME a = t.previous, b = x
        PROVE  joins(<<a, b>>)
    <3>1. n - 1 >= 1 /\ o[n - 1].id = a /\ o[n - 1].trace = t.started
        BY <2>1, <2>2, <2>5 DEF LastIs
    <3>2. n - 1 \in AccAs(o, {a})
        BY <2>3, <3>1 DEF AccAs
    <3>. QED
        BY <1>2, <2>5, <3>1, <3>2
  <2>. QED
      BY <2>4, <2>5
<1>6. ASSUME NEW p \in RequiredPairs
      PROVE  joins(p) <=> p = <<t.previous, x>>
  <2>1. PICK a \in Transitions, b \in Transitions : p = <<a, b>>
      BY DescriptorIsSound
  <2>. QED
      BY <1>5, <2>1
<1>7. /\ RequiredActions \subseteq Transitions
      /\ t.initialMatched \in Nat /\ t.transitionMatched \in Nat
      /\ t.actions \in [RequiredActions -> Nat] /\ t.pairs \in [RequiredPairs -> Nat]
    BY DescriptorIsSound DEF Trackers, Counters
<1>. HIDE DEF c, joins
<1>8. CASE x \in Initializers /\ x \notin Transitions
  <2>1. \A p \in RequiredPairs : ~joins(p)
    <3>1. \A p \in RequiredPairs : p # <<t.previous, x>>
        BY <1>8, DescriptorIsSound
    <3>. QED
        BY <1>6, <3>1
  <2>2. \A a \in RequiredActions : o[n].id \notin {a}
      BY <1>2, <1>7, <1>8
  <2>. QED
      BY <1>1, <1>2, <1>3, <1>8, <2>1, <2>2 DEF Matches, c
<1>9. CASE x \in Transitions /\ x \notin Initializers
  <2>1. \A a \in RequiredActions : c.actions[a] = Cardinality(AccAs(u, {a}))
    <3>. SUFFICES ASSUME NEW a \in RequiredActions
                  PROVE  c.actions[a] = Cardinality(AccAs(u, {a}))
        OBVIOUS
    <3>1. t.actions[a] = Cardinality(AccAs(o, {a}))
        BY DEF Matches
    <3>2. CASE a = x
        BY <1>1, <1>2, <1>3, <1>9, <3>1, <3>2
    <3>3. CASE a # x
        BY <1>1, <1>2, <1>3, <1>9, <3>1, <3>3
    <3>. QED
        BY <3>2, <3>3
  <2>2. \A p \in RequiredPairs : c.pairs[p] = Cardinality(AccPairs(u, p))
    <3>. SUFFICES ASSUME NEW p \in RequiredPairs
                  PROVE  c.pairs[p] = Cardinality(AccPairs(u, p))
        OBVIOUS
    <3>1. t.pairs[p] = Cardinality(AccPairs(o, p))
        BY DEF Matches
    <3>2. CASE p = <<t.previous, x>>
      <4>1. joins(p)
          BY <1>6, <3>2
      <4>. QED
          BY <1>1, <1>3, <1>9, <3>1, <3>2, <4>1
    <3>3. CASE p # <<t.previous, x>>
      <4>1. ~joins(p)
          BY <1>6, <3>3
      <4>. QED
          BY <1>1, <1>3, <1>9, <3>1, <3>3, <4>1
    <3>. QED
        BY <3>2, <3>3
  <2>3. /\ c.initialMatched = Cardinality(AccAs(u, Initializers))
        /\ c.transitionMatched = Cardinality(AccAs(u, Transitions))
      BY <1>1, <1>2, <1>3, <1>9 DEF Matches
  <2>. QED
      BY <2>1, <2>2, <2>3 DEF Matches, c
<1>. QED
    BY <1>4, <1>8, <1>9

(* An acceptance that the tracker counts keeps it in step with what was     *)
(* observed.                                                                *)
LEMMA CommitLives ==
    ASSUME corpus \in Corpora, NEW t \in Trackers, NEW o \in Seq(Observations), Live(t, o),
           t.pending # None, NEW fate \in {"passed_over", "confirmed"},
           strict => fate = "confirmed", NEW u, Decides(o, u, fate)
    PROVE  Live(commit(t), u)
<1>. DEFINE c == commit(t)
            n == Len(o)
<1>1. /\ c \in Trackers /\ c.pending = None
      /\ (c.complete <=> t.complete) /\ (c.sealed <=> t.sealed) /\ c.uncertain = t.uncertain
      /\ c.started = t.started /\ c.currentMatched = t.currentMatched + 1
      /\ t.pending \in Initializers => c.previous = None
      /\ t.pending \in Transitions => c.previous = t.pending
    BY CommitCounts
<1>2. /\ Matches(t, o) /\ Answered(t, o) /\ Previous(t, o) /\ Current(t, o)
      /\ ~t.sealed /\ ~t.complete /\ t.uncertain = {} /\ t.started <= Len(corpus)
      /\ \A k \in 1 .. Len(corpus) : k < t.started => Seen(o, k)
    BY DEF Live
<1>3. /\ n > 0 /\ n \in Nat /\ o[n].fate = "sent" /\ o[n].id = t.pending
      /\ o[n].trace = t.started
    BY <1>2 DEF Answered, Decides
<1>4. /\ Len(u) = n /\ u[n].fate = fate
      /\ \A i \in 1 .. n : u[i].id = o[i].id /\ u[i].trace = o[i].trace
      /\ \A i \in 1 .. n : i # n => u[i].fate = o[i].fate
    BY DEF Decides
<1>5. Matches(c, u)
    BY <1>2, CommitMatches
<1>6. t.pending \in Initializers \/ t.pending \in Transitions
    BY DEF Trackers, Ids
<1>7. t.pending \in Ids /\ None \notin Ids
    BY DescriptorIsSound DEF Trackers
<1>. HIDE DEF c
<1>8. Answered(c, u)
  <2>1. \A i \in 1 .. n : u[i].fate # "rejected" /\ u[i].fate # "sent"
      BY <1>2, <1>3, <1>4 DEF Answered
  <2>2. \A i \in 1 .. n : strict => u[i].fate # "passed_over"
      BY <1>2, <1>4 DEF Answered
  <2>3. \A i \in 1 .. n : u[i].trace \in 1 .. c.started
      BY <1>1, <1>2, <1>4 DEF Answered
  <2>. QED
      BY <1>1, <1>3, <1>4, <2>1, <2>2, <2>3 DEF Answered
<1>9. Previous(c, u)
  <2>1. u[n].id = t.pending /\ u[n].trace = c.started
      BY <1>1, <1>3, <1>4
  <2>. QED
      BY <1>1, <1>3, <1>4, <1>6, <1>7, <2>1 DEF Previous, LastIs
<1>10. Current(c, u)
  <2>1. PICK s \in 0 .. n :
          /\ s + t.currentMatched + 1 = n
          /\ \A i \in 1 .. n : o[i].trace = t.started <=> i > s
          /\ checked => \A i \in 1 .. n : i > s => o[i].id = corpus[t.started][i - s]
      BY <1>2 DEF Current
  <2>2. s + c.currentMatched = n
      BY <1>1, <2>1 DEF Trackers
  <2>. QED
      BY <1>1, <1>4, <2>1, <2>2 DEF Current
<1>11. ASSUME NEW k \in 1 .. Len(corpus), k < c.started
       PROVE  Seen(u, k)
  <2>1. Seen(o, k) /\ k # t.started
      BY <1>1, <1>2, <1>11 DEF Trackers
  <2>2. Len(corpus[k]) \in Nat
      BY CorporaAreSelections
  <2>3. \A i \in 1 .. n : /\ u[i].trace = o[i].trace /\ u[i].id = o[i].id
                          /\ o[i].trace = k => u[i].fate = o[i].fate
      BY <1>3, <1>4, <2>1
  <2>. QED
      BY <1>3, <1>4, <2>1, <2>2, <2>3, SeenIsKept
<1>. QED
    BY <1>1, <1>2, <1>5, <1>8, <1>9, <1>10, <1>11 DEF Live, c

(* A live tracker that fails still counts nothing too much. *)
LEMMA FailSettles ==
    ASSUME NEW t \in Trackers, NEW o \in Seq(Observations), NEW u,
           Matches(t, o), ~t.complete, NEW reason \in Uncertainties,
           \A S : Cardinality(AccAs(o, S)) <= Cardinality(AccAs(u, S)),
           \A p : Cardinality(AccPairs(o, p)) <= Cardinality(AccPairs(u, p))
    PROVE  fail(t, reason) \in Trackers /\ Settled(fail(t, reason), u)
<1>. DEFINE c == fail(t, reason)
<1>1. /\ c \in Trackers /\ c.sealed /\ c.uncertain # {} /\ SameCounts(t, c)
      /\ (c.complete <=> t.complete)
    BY FailSeals
<1>. HIDE DEF c
<1>2. Within(c, u)
    BY <1>1 DEF Matches, Within, SameCounts
<1>3. Settled(c, u)
    BY <1>1, <1>2 DEF Settled
<1>. QED
    BY <1>1, <1>3 DEF c

(* What was accepted stays accepted, whatever is decided of the last       *)
(* observation.                                                            *)
LEMMA CountsGrow ==
    ASSUME NEW o \in Seq(Observations), NEW u,
           \/ u = o
           \/ /\ o[Len(o)].fate = "sent"
              /\ \E fate \in {"passed_over", "confirmed"} : Decides(o, u, fate)
    PROVE  /\ \A S : Cardinality(AccAs(o, S)) <= Cardinality(AccAs(u, S))
           /\ \A p : Cardinality(AccPairs(o, p)) <= Cardinality(AccPairs(u, p))
<1>1. /\ \A S : Cardinality(AccAs(o, S)) \in Nat
      /\ \A p : Cardinality(AccPairs(o, p)) \in Nat
    BY PositionsAreFinite, CountedArePositions
<1>2. CASE u = o
    BY <1>1, <1>2
<1>3. ASSUME NEW fate \in {"passed_over", "confirmed"}, o[Len(o)].fate = "sent",
             Decides(o, u, fate)
      PROVE  /\ \A S : Cardinality(AccAs(o, S)) <= Cardinality(AccAs(u, S))
             /\ \A p : Cardinality(AccPairs(o, p)) <= Cardinality(AccPairs(u, p))
  <2>. DEFINE joins(p) == /\ o[Len(o)].id = p[2] /\ Len(o) - 1 \in AccAs(o, {p[1]})
                          /\ o[Len(o) - 1].trace = o[Len(o)].trace
  <2>1. /\ \A S : o[Len(o)].id \in S => Cardinality(AccAs(u, S)) = Cardinality(AccAs(o, S)) + 1
        /\ \A S : o[Len(o)].id \notin S => AccAs(u, S) = AccAs(o, S)
        /\ \A p : joins(p) => Cardinality(AccPairs(u, p)) = Cardinality(AccPairs(o, p)) + 1
        /\ \A p : ~joins(p) => AccPairs(u, p) = AccPairs(o, p)
      BY <1>3, AcceptanceCounts
  <2>. HIDE DEF joins
  <2>2. \A S : Cardinality(AccAs(o, S)) <= Cardinality(AccAs(u, S))
      BY <1>1, <2>1
  <2>3. \A p : Cardinality(AccPairs(o, p)) <= Cardinality(AccPairs(u, p))
      BY <1>1, <2>1
  <2>. QED
      BY <2>2, <2>3
<1>. QED
    BY <1>2, <1>3

-----------------------------------------------------------------------------
(* Traces open, go on and finish *)

(* What Live depends on *)
Like(t, c) ==
    /\ SameCounts(t, c)
    /\ (c.sealed <=> t.sealed) /\ (c.complete <=> t.complete) /\ c.uncertain = t.uncertain
    /\ c.started = t.started /\ c.pending = t.pending /\ c.previous = t.previous
    /\ c.currentMatched = t.currentMatched

(* Other fields do not matter to a live tracker. *)
LEMMA LikeLives ==
    ASSUME NEW t, NEW c, NEW o, Live(t, o), Like(t, c)
    PROVE  Live(c, o)
<1>1. Matches(c, o) /\ Answered(c, o) /\ Previous(c, o) /\ Current(c, o)
    BY DEF Live, Like, SameCounts, Matches, Answered, Previous, LastIs, Current
<1>. QED
    BY <1>1 DEF Live, Like

(* The lengths of a corpus and of its traces. *)
LEMMA CorpusLengths ==
    ASSUME corpus \in Corpora
    PROVE  /\ Len(corpus) \in Nat /\ Len(corpus) > 0
           /\ \A k \in 1 .. Len(corpus) : Len(corpus[k]) \in Nat /\ Len(corpus[k]) > 0
    BY CorporaAreSelections

(* Nothing is decided: a failing tracker settles on what it has seen. *)
LEMMA FailSettlesHere ==
    ASSUME NEW t \in Trackers, NEW o \in Seq(Observations), Live(t, o),
           NEW reason \in Uncertainties
    PROVE  fail(t, reason) \in Trackers /\ Settled(fail(t, reason), o)
<1>1. Matches(t, o) /\ ~t.complete
    BY DEF Live
<1>2. /\ \A S : Cardinality(AccAs(o, S)) <= Cardinality(AccAs(o, S))
      /\ \A p : Cardinality(AccPairs(o, p)) <= Cardinality(AccPairs(o, p))
    BY CountsGrow
<1>. QED
    BY <1>1, <1>2, FailSettles

(* A trace is finished only when as many states as it has were accepted. *)
LEMMA FinishTraceMakes ==
    ASSUME corpus \in Corpora, NEW t \in Trackers, NEW o \in Seq(Observations), Live(t, o),
           t.pending = None
    PROVE  LET f == finishTrace(t)
           IN  /\ f \in Trackers
               /\ \/ f.sealed /\ Settled(f, o)
                  \/ /\ ~f.sealed /\ f.started > 0 /\ Live(f, o) /\ Seen(o, f.started)
                     /\ f.pending = None /\ f.active = t.active
<1>. DEFINE f == finishTrace(t)
            n == Len(o)
            k == t.started
<1>1. CASE ~(t.started > 0 /\ t.currentMatched = Len(corpus[t.started]))
  <2>1. f = fail(t, "protocol") /\ "protocol" \in Uncertainties
      BY <1>1 DEF finishTrace, Uncertainties
  <2>2. f \in Trackers /\ Settled(f, o)
      BY <2>1, FailSettlesHere
  <2>. QED
      BY <2>2 DEF Settled
<1>2. CASE t.started > 0 /\ t.currentMatched = Len(corpus[t.started])
  <2>1. f = [t EXCEPT !.completed = t.completed + 1] /\ t.completed + 1 \in Nat
      BY <1>2 DEF finishTrace, Trackers
  <2>2. f \in Trackers
      BY <2>1, FieldKeepsTracker
  <2>3. Like(t, f) /\ f.active = t.active /\ f.started = k
      BY <2>1 DEF Trackers, Like, SameCounts
  <2>4. Live(f, o) /\ ~f.sealed /\ f.pending = None
      BY <2>3, LikeLives DEF Live, Like
  <2>. HIDE DEF f
  <2>5. k \in 1 .. Len(corpus) /\ n \in Nat
      BY <1>2, CorpusLengths DEF Trackers, Live
  <2>6. Len(corpus[k]) \in Nat
      BY <2>5, CorpusLengths
  <2>7. PICK s \in 0 .. n :
          /\ s + t.currentMatched = n
          /\ \A i \in 1 .. n : o[i].trace = k <=> i > s
          /\ checked => \A i \in 1 .. n : i > s => o[i].id = corpus[k][i - s]
      BY DEF Live, Current
  <2>8. s + Len(corpus[k]) = n /\ s \in Nat
      BY <1>2, <2>7
  <2>9. \A i \in 1 .. n : o[i].trace = k <=> i \in s + 1 .. s + Len(corpus[k])
      BY <2>5, <2>6, <2>7, <2>8
  <2>10. ASSUME NEW i \in 1 .. Len(corpus[k])
         PROVE  /\ o[s + i].fate \in {"confirmed"} \cup (IF strict THEN {} ELSE {"passed_over"})
                /\ checked => o[s + i].id = corpus[k][i]
    <3>1. s + i \in 1 .. n /\ s + i > s /\ (s + i) - s = i
        BY <2>5, <2>6, <2>8, <2>10
    <3>2. o[s + i] \in Observations
        BY <3>1, ElementOfSeq
    <3>3. /\ o[s + i].fate # "rejected" /\ (o[s + i].fate = "sent" => s + i = n)
          /\ strict => o[s + i].fate # "passed_over"
        BY <3>1 DEF Live, Answered
    <3>4. ~(n > 0 /\ o[n].fate = "sent")
        BY DEF Live, Answered
    <3>5. o[s + i].fate # "sent"
        BY <2>5, <3>1, <3>3, <3>4
    <3>6. o[s + i].fate \in {"confirmed"} \cup (IF strict THEN {} ELSE {"passed_over"})
        BY <3>2, <3>3, <3>5 DEF Observations
    <3>. QED
        BY <2>7, <3>1, <3>6
  <2>11. Seen(o, k)
    <3>1. s + Len(corpus[k]) <= Len(o)
        BY <2>5, <2>8
    <3>2. \A i \in 1 .. Len(corpus[k]) :
            /\ o[s + i].fate \in {"confirmed"} \cup (IF strict THEN {} ELSE {"passed_over"})
            /\ checked => o[s + i].id = corpus[k][i]
        BY <2>10
    <3>. HIDE DEF k
    <3>. QED
        BY <2>9, <3>1, <3>2 DEF Seen
  <2>. QED
      BY <1>2, <2>2, <2>3, <2>4, <2>11 DEF f
<1>. QED
    BY <1>1, <1>2

(* A tracker after openTrace or continueTrace: sealed, or at a position    *)
(* the corpus has.                                                         *)
Placed(c, o) ==
    /\ c \in Trackers
    /\ \/ c.sealed /\ Settled(c, o)
       \/ /\ ~c.sealed /\ Live(c, o) /\ c.pending = None
          /\ c.started > 0 /\ c.currentMatched < Len(corpus[c.started])

(* The next trace opens: the one before it was wholly seen. *)
LEMMA OpenTraceMakes ==
    ASSUME corpus \in Corpora, NEW t \in Trackers, NEW o \in Seq(Observations), Live(t, o),
           t.pending = None
    PROVE  Placed(openTrace(t), o)
<1>. DEFINE f == IF t.started > 0 THEN finishTrace(t) ELSE t
            n == Len(o)
<1>1. /\ f \in Trackers
      /\ \/ f.sealed /\ Settled(f, o)
         \/ /\ ~f.sealed /\ Live(f, o) /\ f.pending = None
            /\ f.started > 0 => Seen(o, f.started)
  <2>1. CASE t.started > 0
      BY <2>1, FinishTraceMakes
  <2>2. CASE ~(t.started > 0)
      BY <2>2 DEF Live
  <2>. QED
      BY <2>1, <2>2
<1>2. openTrace(t) = IF f.sealed THEN f
                     ELSE IF f.started = Len(corpus) THEN fail(f, "protocol")
                     ELSE [f EXCEPT !.started = @ + 1, !.currentMatched = 0, !.previous = None]
    BY DEF openTrace
<1>. HIDE DEF f
<1>3. CASE f.sealed
    BY <1>1, <1>2, <1>3 DEF Placed
<1>4. CASE ~f.sealed /\ f.started = Len(corpus)
  <2>1. "protocol" \in Uncertainties
      BY DEF Uncertainties
  <2>2. fail(f, "protocol") \in Trackers /\ Settled(fail(f, "protocol"), o)
      BY <1>1, <1>4, <2>1, FailSettlesHere
  <2>. QED
      BY <1>2, <1>4, <2>2 DEF Placed, Settled
<1>5. CASE ~f.sealed /\ f.started # Len(corpus)
  <2>. DEFINE g == [f EXCEPT !.started = @ + 1, !.currentMatched = 0, !.previous = None]
              g1 == [f EXCEPT !.started = f.started + 1]
              g2 == [g1 EXCEPT !.currentMatched = 0]
  <2>1. /\ Live(f, o) /\ f.pending = None /\ f \in Trackers
        /\ (f.started > 0 => Seen(o, f.started)) /\ f.started + 1 \in Nat
        /\ f.started \in Nat
      BY <1>1, <1>5 DEF Trackers
  <2>2. g = [g2 EXCEPT !.previous = None]
      BY <2>1 DEF Trackers
  <2>3. g1 \in Trackers
      BY <2>1, FieldKeepsTracker
  <2>4. g2 \in Trackers
      BY <2>3, FieldKeepsTracker
  <2>5. g \in Trackers
      BY <2>2, <2>4, FieldKeepsTracker
  <2>6. /\ g.started = f.started + 1 /\ g.currentMatched = 0 /\ g.previous = None
        /\ SameCounts(f, g) /\ (g.sealed <=> f.sealed) /\ (g.complete <=> f.complete)
        /\ g.uncertain = f.uncertain /\ g.pending = f.pending
      BY <2>1 DEF Trackers, SameCounts
  <2>. HIDE DEF g
  <2>7. /\ ~f.sealed /\ ~f.complete /\ f.uncertain = {} /\ f.started <= Len(corpus)
        /\ Matches(f, o) /\ Answered(f, o)
        /\ \A k \in 1 .. Len(corpus) : k < f.started => Seen(o, k)
      BY <2>1 DEF Live
  <2>8. Len(corpus) \in Nat /\ n \in Nat
      BY CorpusLengths
  <2>9. g.started <= Len(corpus) /\ g.started > 0 /\ g.started \in 1 .. Len(corpus)
      BY <1>5, <2>1, <2>6, <2>7, <2>8
  <2>10. \A i \in 1 .. n : o[i].trace \in 1 .. f.started /\ o[i].trace # g.started
      BY <2>1, <2>6, <2>7 DEF Answered
  <2>11. Matches(g, o)
      BY <2>6, <2>7 DEF Matches, SameCounts
  <2>12. Answered(g, o)
    <3>1. \A i \in 1 .. n : o[i].trace \in 1 .. g.started
        BY <2>1, <2>6, <2>10
    <3>. QED
        BY <2>1, <2>6, <2>7, <3>1 DEF Answered
  <2>13. Previous(g, o)
      BY <2>1, <2>6, <2>8, <2>10 DEF Previous, LastIs
  <2>14. Current(g, o)
    <3>1. n \in 0 .. n /\ n + g.currentMatched = n
        BY <2>6, <2>8
    <3>2. \A i \in 1 .. n : (o[i].trace = g.started <=> i > n) /\ ~(i > n)
        BY <2>8, <2>10
    <3>. QED
        BY <2>1, <2>6, <3>1, <3>2 DEF Current
  <2>15. ASSUME NEW k \in 1 .. Len(corpus), k < g.started
         PROVE  Seen(o, k)
    <3>1. k < f.started \/ k = f.started
        BY <2>1, <2>6, <2>15
    <3>. QED
        BY <2>1, <2>7, <2>15, <3>1
  <2>16. Live(g, o)
      BY <2>6, <2>7, <2>9, <2>11, <2>12, <2>13, <2>14, <2>15 DEF Live
  <2>17. g.currentMatched < Len(corpus[g.started])
      BY <2>6, <2>9, CorpusLengths
  <2>. QED
      BY <1>2, <1>5, <2>1, <2>5, <2>6, <2>9, <2>16, <2>17 DEF Placed, g
<1>. QED
    BY <1>3, <1>4, <1>5

(* The current trace goes on only if it has another state. *)
LEMMA ContinueTraceMakes ==
    ASSUME NEW t \in Trackers, NEW o \in Seq(Observations), Live(t, o), t.pending = None
    PROVE  Placed(continueTrace(t), o)
<1>1. CASE t.started > 0 /\ t.currentMatched < Len(corpus[t.started])
    BY <1>1 DEF continueTrace, Placed, Live
<1>2. CASE ~(t.started > 0 /\ t.currentMatched < Len(corpus[t.started]))
  <2>1. "protocol" \in Uncertainties /\ continueTrace(t) = fail(t, "protocol")
      BY <1>2 DEF Uncertainties, continueTrace
  <2>2. continueTrace(t) \in Trackers /\ Settled(continueTrace(t), o)
      BY <2>1, FailSettlesHere
  <2>. QED
      BY <2>2 DEF Placed, Settled
<1>. QED
    BY <1>1, <1>2

-----------------------------------------------------------------------------
(* The methods replayCore calls *)

(* How a message that answers with fate turns observations o into u *)
Resolves(t, o, u, fate) ==
    \/ t.pending # None /\ Decides(o, u, fate)
    \/ t.pending = None /\ u = o

(* Resolve does that. *)
LEMMA ResolveResolves ==
    ASSUME TypeOK, Answered(tracker, observed),
           NEW fate \in {"passed_over", "confirmed", "rejected"}, Resolve(fate)
    PROVE  Resolves(tracker, observed, observed', fate) /\ observed' \in Seq(Observations)
<1>1. observed \in Seq(Observations) /\ Len(observed) \in Nat
      /\ (observed # <<>> <=> Len(observed) > 0)
  <2>1. observed \in Seq(Observations)
      BY DEF TypeOK
  <2>. QED
      BY <2>1, EmptySeq
<1>2. CASE tracker.pending # None
  <2>1. Len(observed) > 0 /\ observed[Len(observed)].fate = "sent"
      BY <1>2 DEF Answered
  <2>2. observed' = [observed EXCEPT ![Len(observed)].fate = fate]
      BY <1>1, <2>1 DEF Resolve
  <2>3. Decides(observed, observed', fate)
      BY <1>1, <2>1, <2>2, AnswerDecides
  <2>. QED
      BY <1>2, <2>3 DEF Resolves, Decides
<1>3. CASE tracker.pending = None
    BY <1>1, <1>3 DEF Answered, Resolve, Resolves
<1>. QED
    BY <1>2, <1>3

(* A failing tracker settles, also when the message accepted the pending    *)
(* observation that it does not count.                                      *)
LEMMA FailSettlesAfter ==
    ASSUME NEW t \in Trackers, NEW o \in Seq(Observations), Live(t, o),
           NEW reason \in Uncertainties, NEW fate \in {"passed_over", "confirmed"},
           NEW u, Resolves(t, o, u, fate)
    PROVE  fail(t, reason) \in Trackers /\ Settled(fail(t, reason), u)
<1>1. Matches(t, o) /\ ~t.complete
    BY DEF Live
<1>2. t.pending # None => o[Len(o)].fate = "sent"
    BY DEF Live, Answered
<1>3. /\ \A S : Cardinality(AccAs(o, S)) <= Cardinality(AccAs(u, S))
      /\ \A p : Cardinality(AccPairs(o, p)) <= Cardinality(AccPairs(u, p))
    BY <1>2, CountsGrow DEF Resolves
<1>. QED
    BY <1>1, <1>3, FailSettles

(* commit keeps a tracker in step with the message it answers to. *)
LEMMA CommitSteps ==
    ASSUME corpus \in Corpora, NEW t \in Trackers, NEW o \in Seq(Observations), Live(t, o),
           NEW fate \in {"passed_over", "confirmed"},
           strict /\ t.pending # None => fate = "confirmed",
           NEW u, Resolves(t, o, u, fate)
    PROVE  /\ commit(t) \in Trackers /\ Live(commit(t), u) /\ commit(t).pending = None
           /\ commit(t).active = t.active /\ u \in Seq(Observations)
<1>1. CASE t.pending # None
  <2>1. Decides(o, u, fate) /\ u \in Seq(Observations)
      BY <1>1 DEF Resolves, Decides
  <2>2. commit(t) \in Trackers /\ commit(t).pending = None /\ commit(t).active = t.active
      BY <1>1, CommitCounts
  <2>. QED
      BY <1>1, <2>1, <2>2, CommitLives
<1>2. CASE t.pending = None
    BY <1>2 DEF Resolves, commit
<1>. QED
    BY <1>1, <1>2

(* begin: the message is refused, or the state that is computed next is the *)
(* corpus's next one.                                                       *)
LEMMA BeginMakes ==
    ASSUME corpus \in Corpora, NEW t \in Trackers, NEW o \in Seq(Observations), Live(t, o),
           t.active = None, NEW u, Resolves(t, o, u, "passed_over"),
           NEW initial \in BOOLEAN, NEW label
    PROVE  LET b == begin(t, initial, label)
           IN  /\ b \in Trackers
               /\ b.sealed => Settled(b, u)
               /\ ~b.sealed => Live(b, u) /\ Computing(b)
<1>. DEFINE b == begin(t, initial, label)
            c == commit(t)
            d == IF initial THEN openTrace(c) ELSE continueTrace(c)
<1>1. ~t.sealed
    BY DEF Live
<1>2. ASSUME NEW reason \in Uncertainties, b = fail(t, reason)
      PROVE  b \in Trackers /\ b.sealed /\ Settled(b, u)
  <2>1. fail(t, reason) \in Trackers /\ Settled(fail(t, reason), u)
      BY FailSettlesAfter
  <2>. QED
      BY <1>2, <2>1 DEF Settled
<1>3. "mapping" \in Uncertainties /\ "missing_ack" \in Uncertainties /\ "protocol" \in Uncertainties
    BY DEF Uncertainties
<1>4. CASE ~Mapped(initial, label)
  <2>1. b = fail(t, "mapping")
      BY <1>1, <1>4 DEF begin
  <2>. QED
      BY <1>2, <1>3, <2>1
<1>5. CASE Mapped(initial, label) /\ strict /\ t.pending # None
  <2>1. b = fail(t, "missing_ack")
      BY <1>1, <1>5 DEF begin
  <2>. QED
      BY <1>2, <1>3, <2>1
<1>6. CASE Mapped(initial, label) /\ ~(strict /\ t.pending # None)
  <2>1. b = IF d.sealed THEN d
            ELSE IF ~Expected(d, LabelIds[label]) THEN fail(d, "protocol")
            ELSE [d EXCEPT !.entered = TRUE, !.active = LabelIds[label]]
      BY <1>1, <1>6 DEF begin
  <2>2. c \in Trackers /\ Live(c, u) /\ c.pending = None /\ u \in Seq(Observations)
      BY <1>6, CommitSteps
  <2>. HIDE DEF c
  <2>3. Placed(d, u)
    <3>1. CASE initial
        BY <2>2, <3>1, OpenTraceMakes
    <3>2. CASE ~initial
        BY <2>2, <3>2, ContinueTraceMakes
    <3>. QED
        BY <3>1, <3>2
  <2>4. LabelIds[label] \in Ids /\ LabelIds[label] # None
      BY <1>6, DescriptorIsSound DEF Mapped
  <2>. HIDE DEF d, b
  <2>5. CASE d.sealed
      BY <2>1, <2>3, <2>5 DEF Placed, b
  <2>6. CASE ~d.sealed /\ ~Expected(d, LabelIds[label])
    <3>1. fail(d, "protocol") \in Trackers /\ Settled(fail(d, "protocol"), u)
        BY <1>3, <2>2, <2>3, <2>6, FailSettlesHere DEF Placed
    <3>. QED
        BY <2>1, <2>6, <3>1 DEF Settled, b
  <2>7. CASE ~d.sealed /\ Expected(d, LabelIds[label])
    <3>. DEFINE x == LabelIds[label]
                e == [d EXCEPT !.entered = TRUE, !.active = x]
    <3>1. /\ d \in Trackers /\ Live(d, u) /\ d.pending = None
          /\ d.started > 0 /\ d.currentMatched < Len(corpus[d.started])
        BY <2>3, <2>7 DEF Placed
    <3>. HIDE DEF x
    <3>2. e = [[d EXCEPT !.entered = TRUE] EXCEPT !.active = x]
        BY <3>1 DEF Trackers
    <3>3. [d EXCEPT !.entered = TRUE] \in Trackers
        BY <3>1, FieldKeepsTracker
    <3>4. e \in Trackers
        BY <2>4, <3>2, <3>3, FieldKeepsTracker DEF x
    <3>5. Like(d, e) /\ e.active = x
        BY <3>1 DEF Trackers, Like, SameCounts
    <3>. HIDE DEF e
    <3>6. Live(e, u)
        BY <3>1, <3>5, LikeLives
    <3>7. d.started \in 1 .. Len(corpus) /\ d.currentMatched \in Nat
        BY <3>1, CorpusLengths DEF Live, Trackers
    <3>8. d.currentMatched + 1 <= Len(corpus[d.started])
        BY <3>1, <3>7, CorpusLengths
    <3>9. checked => corpus[d.started][d.currentMatched + 1] = x
        BY <2>7, <3>8 DEF Expected, x
    <3>10. Computing(e)
        BY <2>4, <3>1, <3>5, <3>9 DEF Computing, Like, x
    <3>11. b = e
        BY <2>1, <2>7 DEF e, x
    <3>12. ~e.sealed
        BY <2>7, <3>5 DEF Like
    <3>. QED
        BY <3>4, <3>6, <3>10, <3>11, <3>12 DEF b
  <2>. QED
      BY <2>5, <2>6, <2>7
<1>. QED
    BY <1>4, <1>5, <1>6

(* reported: the computed state becomes the pending observation. *)
LEMMA ReportedLives ==
    ASSUME corpus \in Corpora, NEW t \in Trackers, NEW o \in Seq(Observations), Live(t, o),
           Computing(t)
    PROVE  LET c == reported(t)
               u == Append(o, [trace |-> t.started, id |-> t.active, fate |-> "sent"])
           IN  c \in Trackers /\ u \in Seq(Observations) /\ Live(c, u) /\ c.active = None
<1>. DEFINE n == Len(o)
            c == reported(t)
            x == [trace |-> t.started, id |-> t.active, fate |-> "sent"]
            u == Append(o, x)
<1>1. /\ ~t.sealed /\ ~t.complete /\ t.uncertain = {} /\ t.started <= Len(corpus)
      /\ Matches(t, o) /\ Answered(t, o) /\ Previous(t, o) /\ Current(t, o)
      /\ \A k \in 1 .. Len(corpus) : k < t.started => Seen(o, k)
    BY DEF Live
<1>2. /\ t.active # None /\ t.pending = None /\ t.started > 0
      /\ t.active \in Ids /\ t.started \in Nat /\ t.reportedCount + 1 \in Nat
      /\ t.currentMatched \in Nat
      /\ checked => corpus[t.started][t.currentMatched + 1] = t.active
    BY DEF Computing, Trackers
<1>3. c = [t EXCEPT !.reportedCount = t.reportedCount + 1, !.pending = t.active, !.active = None]
    BY <1>1, <1>2 DEF reported
<1>4. c \in Trackers
  <2>. DEFINE c1 == [t EXCEPT !.reportedCount = t.reportedCount + 1]
              c2 == [c1 EXCEPT !.pending = t.active]
  <2>1. c = [c2 EXCEPT !.active = None]
      BY <1>3 DEF Trackers
  <2>2. c1 \in Trackers
      BY <1>2, FieldKeepsTracker
  <2>3. c2 \in Trackers
      BY <1>2, <2>2, FieldKeepsTracker
  <2>. QED
      BY <2>1, <2>3, FieldKeepsTracker
<1>. HIDE DEF c
<1>5. /\ SameCounts(t, c) /\ (c.sealed <=> t.sealed) /\ (c.complete <=> t.complete)
      /\ c.uncertain = t.uncertain /\ c.started = t.started /\ c.pending = t.active
      /\ c.previous = t.previous /\ c.currentMatched = t.currentMatched /\ c.active = None
    BY <1>3 DEF Trackers, SameCounts
<1>6. x \in Observations /\ x.trace = t.started /\ x.id = t.active /\ x.fate = "sent"
    BY <1>2 DEF Observations
<1>. HIDE DEF x
<1>7. /\ u \in Seq(Observations) /\ n \in Nat /\ Len(u) = n + 1 /\ u[n + 1] = x
      /\ \A i \in 1 .. n : u[i] = o[i]
    BY <1>6
<1>. HIDE DEF u
<1>8. Matches(c, u)
  <2>1. \A i \in 1 .. Len(u) : u[i].fate \in {"confirmed", "passed_over"} => i \in 1 .. n
      BY <1>6, <1>7
  <2>2. \A i \in 1 .. n :
          /\ i \in 1 .. Len(u) /\ u[i].id = o[i].id /\ u[i].trace = o[i].trace
          /\ u[i].fate \in {"confirmed", "passed_over"}
               <=> o[i].fate \in {"confirmed", "passed_over"}
      BY <1>7
  <2>3. (\A S : AccAs(u, S) = AccAs(o, S)) /\ (\A p : AccPairs(u, p) = AccPairs(o, p))
      BY <1>7, <2>1, <2>2, OthersCountNothing
  <2>. QED
      BY <1>1, <1>5, <2>3 DEF Matches, SameCounts
<1>9. Answered(c, u)
  <2>1. ASSUME NEW i \in 1 .. Len(u)
        PROVE  /\ u[i].fate # "rejected" /\ (u[i].fate = "sent" => i = Len(u))
               /\ strict => u[i].fate # "passed_over"
               /\ u[i].trace \in 1 .. c.started
    <3>1. CASE i = n + 1
        BY <1>2, <1>5, <1>6, <1>7, <3>1
    <3>2. CASE i # n + 1
      <4>1. i \in 1 .. n /\ u[i] = o[i]
          BY <1>7, <2>1, <3>2
      <4>2. /\ o[i].fate # "rejected" /\ (o[i].fate = "sent" => i = n)
            /\ strict => o[i].fate # "passed_over"
            /\ o[i].trace \in 1 .. t.started
          BY <1>1, <4>1 DEF Answered
      <4>3. ~(n > 0 /\ o[n].fate = "sent")
          BY <1>1, <1>2 DEF Answered
      <4>4. o[i].fate # "sent"
          BY <1>7, <4>1, <4>2, <4>3
      <4>. QED
          BY <1>5, <4>1, <4>2, <4>4
    <3>. QED
        BY <3>1, <3>2
  <2>2. c.pending # None /\ Len(u) > 0 /\ u[Len(u)] = x
      BY <1>2, <1>5, <1>7
  <2>. QED
      BY <1>5, <1>6, <2>1, <2>2 DEF Answered
<1>10. Previous(c, u)
  <2>1. LastIs(t, o, n) /\ c.pending # None /\ Len(u) - 1 = n
      BY <1>1, <1>2, <1>5, <1>7 DEF Previous
  <2>2. n >= 1 => u[n] = o[n]
      BY <1>7
  <2>3. LastIs(c, u, n)
      BY <1>5, <1>7, <2>1, <2>2 DEF LastIs
  <2>. QED
      BY <2>1, <2>3 DEF Previous
<1>11. Current(c, u)
  <2>1. PICK s \in 0 .. n :
          /\ s + t.currentMatched = n
          /\ \A i \in 1 .. n : o[i].trace = t.started <=> i > s
          /\ checked => \A i \in 1 .. n : i > s => o[i].id = corpus[t.started][i - s]
      BY <1>1, <1>2 DEF Current
  <2>2. s \in 0 .. Len(u) /\ s + c.currentMatched + 1 = Len(u) /\ c.pending # None
      BY <1>2, <1>5, <1>7, <2>1
  <2>3. ASSUME NEW i \in 1 .. Len(u)
        PROVE  /\ u[i].trace = c.started <=> i > s
               /\ checked => (i > s => u[i].id = corpus[c.started][i - s])
    <3>1. CASE i = n + 1
      <4>1. i > s /\ i - s = t.currentMatched + 1
          BY <1>2, <1>7, <2>1, <3>1
      <4>. QED
          BY <1>2, <1>5, <1>6, <1>7, <3>1, <4>1
    <3>2. CASE i # n + 1
      <4>1. i \in 1 .. n /\ u[i] = o[i]
          BY <1>7, <2>3, <3>2
      <4>. QED
          BY <1>5, <2>1, <4>1
    <3>. QED
        BY <3>1, <3>2
  <2>. QED
      BY <2>2, <2>3 DEF Current
<1>12. ASSUME NEW k \in 1 .. Len(corpus), k < c.started
       PROVE  Seen(u, k)
  <2>1. Seen(o, k) /\ x.trace # k /\ Len(corpus[k]) \in Nat
      BY <1>1, <1>2, <1>5, <1>6, <1>12, CorpusLengths
  <2>2. \A i \in 1 .. Len(u) : i > n => u[i].trace # k
      BY <1>7, <2>1
  <2>. QED
      BY <1>7, <2>1, <2>2, SeenIsKept
<1>13. Live(c, u)
    BY <1>1, <1>5, <1>8, <1>9, <1>10, <1>11, <1>12 DEF Live
<1>. QED
    BY <1>4, <1>5, <1>7, <1>13 DEF c, u, x

(* Counters that are right do not count too much. *)
LEMMA MatchesIsWithin ==
    ASSUME NEW t, NEW o \in Seq(Observations), Matches(t, o)
    PROVE  Within(t, o)
<1>1. /\ \A S : Cardinality(AccAs(o, S)) \in Nat
      /\ \A p : Cardinality(AccPairs(o, p)) \in Nat
    BY PositionsAreFinite, CountedArePositions
<1>. QED
    BY <1>1 DEF Matches, Within

(* acknowledge: a confirmation is counted, or there was nothing to confirm. *)
LEMMA AcknowledgeMakes ==
    ASSUME corpus \in Corpora, NEW t \in Trackers, NEW o \in Seq(Observations), Live(t, o),
           t.active = None, NEW u, Resolves(t, o, u, "confirmed")
    PROVE  LET c == acknowledge(t)
           IN  /\ c \in Trackers
               /\ c.sealed => Settled(c, u)
               /\ ~c.sealed => Live(c, u) /\ c.active = None
<1>1. ~t.sealed
    BY DEF Live
<1>2. CASE t.pending = None
  <2>1. acknowledge(t) = fail(t, "protocol") /\ "protocol" \in Uncertainties
      BY <1>2 DEF acknowledge, Uncertainties
  <2>2. fail(t, "protocol") \in Trackers /\ Settled(fail(t, "protocol"), u)
      BY <2>1, FailSettlesAfter
  <2>. QED
      BY <2>1, <2>2 DEF Settled
<1>3. CASE t.pending # None
  <2>1. acknowledge(t) = commit(t)
      BY <1>1, <1>3 DEF acknowledge
  <2>2. commit(t) \in Trackers /\ Live(commit(t), u) /\ commit(t).active = None
      BY CommitSteps
  <2>. QED
      BY <2>1, <2>2 DEF Live
<1>. QED
    BY <1>2, <1>3

(* done: the corpus is complete only when its last trace was wholly seen. *)
LEMMA DoneSettles ==
    ASSUME corpus \in Corpora, NEW t \in Trackers, NEW o \in Seq(Observations), Live(t, o),
           t.active = None, NEW u, Resolves(t, o, u, "passed_over")
    PROVE  done(t) \in Trackers /\ Settled(done(t), u)
<1>1. ~t.sealed
    BY DEF Live
<1>2. "protocol" \in Uncertainties /\ "missing_ack" \in Uncertainties
    BY DEF Uncertainties
<1>3. CASE strict /\ t.pending # None
  <2>1. done(t) = fail(t, "missing_ack")
      BY <1>1, <1>3 DEF done
  <2>. QED
      BY <1>2, <2>1, FailSettlesAfter
<1>4. CASE ~(strict /\ t.pending # None)
  <2>. DEFINE c == commit(t)
              f == finishTrace(c)
  <2>1. done(t) = IF f.sealed THEN f
                  ELSE IF f.started # Len(corpus) THEN fail(f, "protocol")
                  ELSE [f EXCEPT !.complete = TRUE, !.sealed = TRUE]
      BY <1>1, <1>4 DEF done
  <2>2. c \in Trackers /\ Live(c, u) /\ c.pending = None /\ u \in Seq(Observations)
      BY <1>4, CommitSteps
  <2>. HIDE DEF c
  <2>3. /\ f \in Trackers
        /\ \/ f.sealed /\ Settled(f, u)
           \/ ~f.sealed /\ f.started > 0 /\ Live(f, u) /\ Seen(u, f.started)
      BY <2>2, FinishTraceMakes
  <2>. HIDE DEF f
  <2>4. CASE f.sealed
      BY <2>1, <2>3, <2>4
  <2>5. CASE ~f.sealed /\ f.started # Len(corpus)
      BY <1>2, <2>1, <2>2, <2>3, <2>5, FailSettlesHere
  <2>6. CASE ~f.sealed /\ f.started = Len(corpus)
    <3>. DEFINE d == [f EXCEPT !.complete = TRUE, !.sealed = TRUE]
    <3>1. d = [[f EXCEPT !.complete = TRUE] EXCEPT !.sealed = TRUE]
        BY <2>3 DEF Trackers
    <3>2. [f EXCEPT !.complete = TRUE] \in Trackers
        BY <2>3, FieldKeepsTracker
    <3>3. d \in Trackers
        BY <3>1, <3>2, FieldKeepsTracker
    <3>4. d.sealed /\ d.uncertain = f.uncertain /\ SameCounts(f, d)
        BY <2>3 DEF Trackers, SameCounts
    <3>5. done(t) = d
        BY <2>1, <2>6
    <3>. HIDE DEF d
    <3>6. /\ Live(f, u) /\ Seen(u, Len(corpus)) /\ f.uncertain = {} /\ Matches(f, u)
          /\ \A k \in 1 .. Len(corpus) : k < Len(corpus) => Seen(u, k)
        BY <2>3, <2>6 DEF Live
    <3>7. Matches(d, u)
        BY <3>4, <3>6 DEF Matches, SameCounts
    <3>8. Within(d, u)
        BY <2>2, <3>7, MatchesIsWithin
    <3>9. \A k \in 1 .. Len(corpus) : Seen(u, k)
      <4>1. \A k \in 1 .. Len(corpus) : k < Len(corpus) \/ k = Len(corpus)
          BY CorpusLengths
      <4>. QED
          BY <3>6, <4>1
    <3>10. \A i \in 1 .. Len(u) : u[i].trace \in 1 .. Len(corpus)
        BY <2>6, <3>6 DEF Live, Answered
    <3>. QED
        BY <3>3, <3>4, <3>5, <3>6, <3>7, <3>8, <3>9, <3>10 DEF Settled
  <2>. QED
      BY <2>4, <2>5, <2>6
<1>. QED
    BY <1>3, <1>4

(* interrupt: a rejected observation is not counted, and one whose answer  *)
(* never came makes the evidence uncertain.                                *)
LEMMA InterruptSettles ==
    ASSUME NEW t \in Trackers, NEW o \in Seq(Observations), Live(t, o),
           NEW rejected \in BOOLEAN, NEW u,
           IF rejected THEN Resolves(t, o, u, "rejected") ELSE u = o
    PROVE  interrupt(t, rejected) \in Trackers /\ Settled(interrupt(t, rejected), u)
<1>1. ~t.sealed /\ ~t.complete /\ Matches(t, o) /\ Answered(t, o) /\ t.uncertain = {}
    BY DEF Live
<1>2. CASE rejected /\ t.pending = None
  <2>1. interrupt(t, rejected) = fail(t, "protocol") /\ "protocol" \in Uncertainties
      BY <1>1, <1>2 DEF interrupt, Uncertainties
  <2>2. u = o
      BY <1>2 DEF Resolves
  <2>. QED
      BY <2>1, <2>2, FailSettlesHere
<1>3. CASE ~(rejected /\ t.pending = None)
  <2>. DEFINE w == IF t.pending # None /\ ~rejected
                   THEN t.uncertain \cup {"missing_ack"} ELSE t.uncertain
              d == [t EXCEPT !.uncertain = w, !.pending = None, !.active = None, !.sealed = TRUE]
              d1 == [t EXCEPT !.uncertain = w]
              d2 == [d1 EXCEPT !.pending = None]
              d3 == [d2 EXCEPT !.active = None]
  <2>1. interrupt(t, rejected) = d
      BY <1>1, <1>3 DEF interrupt
  <2>2. w \in SUBSET Uncertainties
      BY DEF Uncertainties, Trackers
  <2>. HIDE DEF w
  <2>3. d = [d3 EXCEPT !.sealed = TRUE]
      BY DEF Trackers
  <2>4. d1 \in Trackers
      BY <2>2, FieldKeepsTracker
  <2>5. d2 \in Trackers
      BY <2>4, FieldKeepsTracker
  <2>6. d3 \in Trackers
      BY <2>5, FieldKeepsTracker
  <2>7. d \in Trackers
      BY <2>3, <2>6, FieldKeepsTracker
  <2>8. d.sealed /\ (d.complete <=> t.complete) /\ SameCounts(t, d)
      BY DEF Trackers, SameCounts
  <2>. HIDE DEF d
  <2>9. (\A S : AccAs(u, S) = AccAs(o, S)) /\ (\A p : AccPairs(u, p) = AccPairs(o, p))
    <3>1. CASE rejected
      <4>1. Decides(o, u, "rejected") /\ o[Len(o)].fate = "sent"
          BY <1>1, <1>3, <3>1 DEF Resolves, Answered
      <4>2. /\ Len(u) = Len(o) /\ Len(o) \in Nat /\ u[Len(o)].fate = "rejected"
            /\ \A i \in 1 .. Len(o) : /\ u[i].id = o[i].id /\ u[i].trace = o[i].trace
                                      /\ i # Len(o) => u[i].fate = o[i].fate
          BY <4>1 DEF Decides
      <4>3. \A i \in 1 .. Len(o) : u[i].fate \in {"confirmed", "passed_over"}
                                     <=> o[i].fate \in {"confirmed", "passed_over"}
          BY <4>1, <4>2
      <4>. QED
          BY <4>2, <4>3, OthersCountNothing
    <3>2. CASE ~rejected
        BY <3>2
    <3>. QED
        BY <3>1, <3>2
  <2>10. Matches(d, u)
      BY <1>1, <2>8, <2>9 DEF Matches, SameCounts
  <2>11. Within(d, u)
    <3>1. Matches(d, o)
        BY <1>1, <2>8 DEF Matches, SameCounts
    <3>2. Within(d, o)
        BY <3>1, MatchesIsWithin
    <3>. QED
        BY <2>9, <3>2 DEF Within
  <2>. QED
      BY <1>1, <2>1, <2>7, <2>8, <2>10, <2>11 DEF Settled
<1>. QED
    BY <1>2, <1>3

-----------------------------------------------------------------------------
(* The steps of replayCore *)

(* The selection does not change, so what holds of the next tracker and    *)
(* observations holds in the next state.                                   *)
LEMMA SelectionStays ==
    ASSUME UNCHANGED <<corpus, strict, checked>>
    PROVE  /\ Live(tracker', observed') => Live(tracker, observed)'
           /\ Settled(tracker', observed') => Settled(tracker, observed)'
           /\ Computing(tracker') => Computing(tracker)'
<1>1. \A k : Seen(observed', k) <=> Seen(observed, k)'
    BY DEF Seen
<1>2. /\ Matches(tracker', observed') <=> Matches(tracker, observed)'
      /\ Within(tracker', observed') <=> Within(tracker, observed)'
    BY DEF Matches, Within, AccAs, AccPairs, Acc
<1>3. Answered(tracker', observed') <=> Answered(tracker, observed)'
    BY DEF Answered
<1>4. Previous(tracker', observed') <=> Previous(tracker, observed)'
    BY DEF Previous, LastIs
<1>5. Current(tracker', observed') <=> Current(tracker, observed)'
    BY DEF Current
<1>6. Live(tracker', observed') => Live(tracker, observed)'
    BY <1>1, <1>2, <1>3, <1>4, <1>5 DEF Live
<1>7. Settled(tracker', observed') => Settled(tracker, observed)'
    BY <1>1, <1>2 DEF Settled
<1>8. Computing(tracker') => Computing(tracker)'
    BY DEF Computing
<1>. QED
    BY <1>6, <1>7, <1>8

(* The invariant of the next state, from the tracker and the observations  *)
(* there.                                                                  *)
LEMMA StepKeeps ==
    ASSUME TypeOK, UNCHANGED <<corpus, strict, checked>>,
           tracker' \in Trackers, observed' \in Seq(Observations),
           \/ pc' = "over" /\ Settled(tracker', observed')
           \/ pc' = "receive" /\ Live(tracker', observed') /\ tracker'.active = None
           \/ pc' = "computing" /\ Live(tracker', observed') /\ Computing(tracker')
    PROVE  IInv'
<1>1. TypeOK'
    BY DEF TypeOK
<1>2. \/ pc' = "over" /\ Settled(tracker, observed)'
      \/ pc' = "receive" /\ Live(tracker, observed)' /\ tracker'.active = None
      \/ pc' = "computing" /\ Live(tracker, observed)' /\ Computing(tracker)'
    BY SelectionStays
<1>. QED
    BY <1>1, <1>2 DEF IInv

(* A message for another state. *)
LEMMA BeginStepKeeps ==
    ASSUME IInv, NEW initial \in BOOLEAN, NEW label, BeginStep(initial, label)
    PROVE  IInv'
<1>1. /\ TypeOK /\ corpus \in Corpora /\ tracker \in Trackers /\ observed \in Seq(Observations)
      /\ Live(tracker, observed) /\ tracker.active = None
    BY DEF IInv, TypeOK, BeginStep
<1>2. Resolves(tracker, observed, observed', "passed_over") /\ observed' \in Seq(Observations)
    BY <1>1, ResolveResolves DEF BeginStep, Live
<1>3. tracker' = begin(tracker, initial, label)
    BY DEF BeginStep
<1>4. /\ tracker' \in Trackers
      /\ tracker'.sealed => Settled(tracker', observed')
      /\ ~tracker'.sealed => Live(tracker', observed') /\ Computing(tracker')
    BY <1>1, <1>2, <1>3, BeginMakes
<1>5. pc' = IF tracker'.sealed THEN "over" ELSE "computing"
    BY DEF BeginStep
<1>6. UNCHANGED <<corpus, strict, checked>>
    BY DEF BeginStep
<1>. QED
    BY <1>1, <1>2, <1>4, <1>5, <1>6, StepKeeps

(* The computed state is sent. *)
LEMMA ReportStateKeeps ==
    ASSUME IInv, ReportState
    PROVE  IInv'
<1>1. /\ TypeOK /\ corpus \in Corpora /\ tracker \in Trackers /\ observed \in Seq(Observations)
      /\ Live(tracker, observed) /\ Computing(tracker)
    BY DEF IInv, TypeOK, ReportState
<1>2. /\ tracker' \in Trackers /\ observed' \in Seq(Observations)
      /\ Live(tracker', observed') /\ tracker'.active = None
    BY <1>1, ReportedLives DEF ReportState
<1>3. pc' = "receive" /\ UNCHANGED <<corpus, strict, checked>>
    BY <1>2 DEF ReportState, Live
<1>. QED
    BY <1>1, <1>2, <1>3, StepKeeps

(* An explicit acknowledgement. *)
LEMMA StepOkKeeps ==
    ASSUME IInv, StepOk
    PROVE  IInv'
<1>1. /\ TypeOK /\ corpus \in Corpora /\ tracker \in Trackers /\ observed \in Seq(Observations)
      /\ Live(tracker, observed) /\ tracker.active = None
    BY DEF IInv, TypeOK, StepOk
<1>2. Resolves(tracker, observed, observed', "confirmed") /\ observed' \in Seq(Observations)
    BY <1>1, ResolveResolves DEF StepOk, Live
<1>3. /\ tracker' \in Trackers
      /\ tracker'.sealed => Settled(tracker', observed')
      /\ ~tracker'.sealed => Live(tracker', observed') /\ tracker'.active = None
    BY <1>1, <1>2, AcknowledgeMakes DEF StepOk
<1>4. /\ pc' = IF tracker'.sealed THEN "over" ELSE "receive"
      /\ UNCHANGED <<corpus, strict, checked>>
    BY DEF StepOk
<1>. QED
    BY <1>1, <1>2, <1>3, <1>4, StepKeeps

(* The mirror has no more states. *)
LEMMA AllStepsDoneKeeps ==
    ASSUME IInv, AllStepsDone
    PROVE  IInv'
<1>1. /\ TypeOK /\ corpus \in Corpora /\ tracker \in Trackers /\ observed \in Seq(Observations)
      /\ Live(tracker, observed) /\ tracker.active = None
    BY DEF IInv, TypeOK, AllStepsDone
<1>2. Resolves(tracker, observed, observed', "passed_over") /\ observed' \in Seq(Observations)
    BY <1>1, ResolveResolves DEF AllStepsDone, Live
<1>3. tracker' \in Trackers /\ Settled(tracker', observed')
    BY <1>1, <1>2, DoneSettles DEF AllStepsDone
<1>4. pc' = "over" /\ UNCHANGED <<corpus, strict, checked>>
    BY DEF AllStepsDone
<1>. QED
    BY <1>1, <1>2, <1>3, <1>4, StepKeeps

(* The observation is rejected. *)
LEMMA StepMismatchKeeps ==
    ASSUME IInv, StepMismatch
    PROVE  IInv'
<1>1. /\ TypeOK /\ tracker \in Trackers /\ observed \in Seq(Observations)
      /\ Live(tracker, observed)
    BY DEF IInv, TypeOK, StepMismatch
<1>2. Resolves(tracker, observed, observed', "rejected") /\ observed' \in Seq(Observations)
    BY <1>1, ResolveResolves DEF StepMismatch, Live
<1>3. tracker' \in Trackers /\ Settled(tracker', observed')
    BY <1>1, <1>2, InterruptSettles DEF StepMismatch
<1>4. pc' = "over" /\ UNCHANGED <<corpus, strict, checked>>
    BY DEF StepMismatch
<1>. QED
    BY <1>1, <1>2, <1>3, <1>4, StepKeeps

(* The replay stops for another reason. *)
LEMMA StopsKeeps ==
    ASSUME IInv, Stops
    PROVE  IInv'
<1>1. /\ TypeOK /\ tracker \in Trackers /\ observed \in Seq(Observations)
      /\ Live(tracker, observed)
    BY DEF IInv, TypeOK, Stops
<1>2. observed' = observed /\ tracker' = interrupt(tracker, FALSE)
    BY DEF Stops
<1>3. tracker' \in Trackers /\ Settled(tracker', observed')
    BY <1>1, <1>2, InterruptSettles
<1>4. pc' = "over" /\ UNCHANGED <<corpus, strict, checked>>
    BY DEF Stops
<1>. QED
    BY <1>1, <1>2, <1>3, <1>4, StepKeeps

(* A new tracker has counted nothing, and nothing was observed. *)
LEMMA InitEstablishes ==
    ASSUME Init
    PROVE  IInv
<1>1. /\ corpus \in Corpora /\ strict \in BOOLEAN /\ checked \in BOOLEAN
      /\ tracker = NewTracker /\ pc = "receive" /\ observed = <<>>
    BY DEF Init
<1>2. tracker \in Trackers
    BY <1>1 DEF NewTracker, Trackers, Counters
<1>3. observed \in Seq(Observations) /\ Len(observed) = 0
    BY <1>1
<1>4. TypeOK
    BY <1>1, <1>2, <1>3 DEF TypeOK
<1>5. /\ ~tracker.sealed /\ ~tracker.complete /\ tracker.uncertain = {}
      /\ tracker.started = 0 /\ tracker.currentMatched = 0 /\ tracker.initialMatched = 0
      /\ tracker.transitionMatched = 0 /\ tracker.pending = None /\ tracker.active = None
      /\ tracker.previous = None /\ (\A a \in RequiredActions : tracker.actions[a] = 0)
      /\ (\A p \in RequiredPairs : tracker.pairs[p] = 0)
    BY <1>1 DEF NewTracker
<1>6. Matches(tracker, observed)
  <2>1. (\A S : AccAs(observed, S) = {}) /\ (\A p : AccPairs(observed, p) = {})
      BY <1>3 DEF AccPairs, AccAs, Acc
  <2>2. Cardinality({}) = 0
      BY FS_EmptySet
  <2>. QED
      BY <1>5, <2>1, <2>2 DEF Matches
<1>7. Answered(tracker, observed) /\ Previous(tracker, observed)
    BY <1>3, <1>5 DEF Answered, Previous, LastIs
<1>8. Current(tracker, observed)
  <2>1. 0 \in 0 .. Len(observed) /\ 0 + tracker.currentMatched = Len(observed)
      BY <1>3, <1>5
  <2>. QED
      BY <1>3, <1>5, <2>1 DEF Current
<1>9. Len(corpus) \in Nat
    BY <1>1, CorpusLengths
<1>10. Live(tracker, observed)
    BY <1>5, <1>6, <1>7, <1>8, <1>9 DEF Live
<1>. QED
    BY <1>1, <1>4, <1>5, <1>10 DEF IInv

(* Every step keeps the invariant. *)
LEMMA NextKeeps ==
    ASSUME IInv, [Next]_vars
    PROVE  IInv'
<1>1. ASSUME NEW initial \in BOOLEAN, NEW l \in DOMAIN LabelIds \cup {UnknownLabel},
             BeginStep(initial, l)
      PROVE  IInv'
    BY <1>1, BeginStepKeeps
<1>2. CASE ReportState \/ StepOk \/ AllStepsDone \/ StepMismatch \/ Stops
    BY <1>2, ReportStateKeeps, StepOkKeeps, AllStepsDoneKeeps, StepMismatchKeeps, StopsKeeps
<1>3. CASE UNCHANGED vars
  <2>1. TypeOK'
      BY <1>3 DEF IInv, TypeOK, vars
  <2>2. /\ UNCHANGED <<corpus, strict, checked>> /\ tracker' = tracker
        /\ observed' = observed /\ pc' = pc
      BY <1>3 DEF vars
  <2>3. pc \in {"receive", "computing", "over"}
      BY DEF IInv, TypeOK
  <2>4. tracker' \in Trackers /\ observed' \in Seq(Observations)
      BY <2>2 DEF IInv, TypeOK
  <2>5. \/ pc' = "over" /\ Settled(tracker', observed')
        \/ pc' = "receive" /\ Live(tracker', observed') /\ tracker'.active = None
        \/ pc' = "computing" /\ Live(tracker', observed') /\ Computing(tracker')
      BY <2>2, <2>3 DEF IInv
  <2>. QED
      BY <2>2, <2>4, <2>5, StepKeeps DEF IInv
<1>. QED
    BY <1>1, <1>2, <1>3 DEF Next

(* The invariant always holds. *)
LEMMA Invariance == Spec => []IInv
    BY InitEstablishes, NextKeeps, PTL DEF Spec

-----------------------------------------------------------------------------
(* The theorems *)

(* The tracker keeps to its types whatever the mirror sends. *)
THEOREM EvidenceTypes == Spec => []TypeOK
<1>1. IInv => TypeOK
    BY DEF IInv
<1>. QED
    BY <1>1, Invariance, PTL

(* The counts of the invariant are those of the properties. *)
LEMMA CountsAreTheCounts ==
    /\ \A S : AccAs(observed, S) = AcceptedAs(S)
    /\ \A p : AccPairs(observed, p) = AcceptedPairs(p)
    /\ \A k : Seen(observed, k) <=> TraceObserved(k)
<1>1. \A S : AccAs(observed, S) = AcceptedAs(S)
    BY DEF AccAs, Acc, AcceptedAs, Accepted
<1>2. \A p : AccPairs(observed, p) = AcceptedPairs(p)
    BY <1>1 DEF AccPairs, AcceptedPairs
<1>3. \A k : Seen(observed, k) <=> TraceObserved(k)
    BY DEF Seen, TraceObserved
<1>. QED
    BY <1>1, <1>2, <1>3

(* No counter of the tracker ever exceeds what the mirror accepted: not    *)
(* for a rejected, unanswered or repeated observation, nor for a pair that *)
(* spans two traces.                                                       *)
THEOREM NothingIsOvercounted == Spec => []EvidenceNeverOvercounts
<1>1. ASSUME IInv
      PROVE  EvidenceNeverOvercounts
  <2>1. observed \in Seq(Observations)
      BY <1>1 DEF IInv, TypeOK
  <2>2. Within(tracker, observed)
      BY <1>1, <2>1, MatchesIsWithin DEF IInv, Live, Settled
  <2>. QED
      BY <2>2, CountsAreTheCounts DEF Within, EvidenceNeverOvercounts
<1>. QED
    BY <1>1, Invariance, PTL

(* Evidence without an uncertainty counts all that the mirror accepted. *)
THEOREM ExactMeansExact == Spec => []ExactEvidenceIsExact
<1>1. ASSUME IInv
      PROVE  ExactEvidenceIsExact
  <2>1. exact(tracker) => Matches(tracker, observed)
      BY <1>1 DEF IInv, Live, Settled, exact
  <2>. QED
      BY <2>1, CountsAreTheCounts DEF Matches, ExactEvidenceIsExact
<1>. QED
    BY <1>1, Invariance, PTL

(* The counters of the tracker never exceed what the mirror accepted, and    *)
(* are its number when the evidence calls itself exact.                     *)
THEOREM EvidenceTellsTheTruth == Spec => []EvidenceIsTrue
<1>1. EvidenceNeverOvercounts /\ ExactEvidenceIsExact => EvidenceIsTrue
    BY DEF EvidenceIsTrue
<1>. QED
    BY NothingIsOvercounted, ExactMeansExact, <1>1, PTL

(* A corpus is called completed only when each of its traces was observed  *)
(* in one stretch and accepted, and a suite is accepted as met only when,   *)
(* besides, every required action and pair was.                            *)
THEOREM CompleteAndMetAreEarned == Spec => []ClaimsAreObserved
<1>1. ASSUME IInv
      PROVE  CompleteMeansTheCorpus
  <2>1. tracker.complete => Settled(tracker, observed)
      BY <1>1 DEF IInv, Live
  <2>. QED
      BY <2>1, CountsAreTheCounts DEF Settled, CompleteMeansTheCorpus, exact
<1>2. ASSUME IInv
      PROVE  MetMeansCovered
  <2>. SUFFICES ASSUME evaluateAcceptance(tracker) = "met"
                PROVE  /\ \A a \in RequiredActions : AcceptedAs({a}) # {}
                       /\ \A p \in RequiredPairs : AcceptedPairs(p) # {}
                       /\ \A k \in 1 .. Len(corpus) : TraceObserved(k)
      BY DEF MetMeansCovered
  <2>1. /\ tracker.complete /\ exact(tracker)
        /\ \A a \in RequiredActions : tracker.actions[a] > 0
        /\ \A p \in RequiredPairs : tracker.pairs[p] > 0
      BY DEF evaluateAcceptance
  <2>2. Matches(tracker, observed)
      BY <1>2, <2>1 DEF IInv, Live, Settled, exact
  <2>3. Cardinality({}) = 0
      BY FS_EmptySet
  <2>4. \A a \in RequiredActions : AccAs(observed, {a}) # {}
      BY <2>1, <2>2, <2>3 DEF Matches
  <2>5. \A p \in RequiredPairs : AccPairs(observed, p) # {}
      BY <2>1, <2>2, <2>3 DEF Matches
  <2>6. \A k \in 1 .. Len(corpus) : TraceObserved(k)
      BY <1>1, <1>2, <2>1 DEF CompleteMeansTheCorpus
  <2>. QED
      BY <2>4, <2>5, <2>6, CountsAreTheCounts
<1>. QED
    BY <1>1, <1>2, Invariance, PTL DEF ClaimsAreObserved
=============================================================================
