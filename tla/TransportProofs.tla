-------------------------- MODULE TransportProofs --------------------------
(***************************************************************************)
(* Proofs about the transports: the framer's lines do not depend on how    *)
(* the bytes were cut, the line iterator serves its readers in order, and  *)
(* close() releases the peer; and, on top of them, that a pipelined        *)
(* exploration session pairs its commands and closes what it has opened.   *)
(***************************************************************************)
EXTENDS Transport, ExploreSession, FiniteSetTheorems, SequenceTheorems, TLAPS

-----------------------------------------------------------------------------
(* The line ends of a byte sequence, by rank *)

(* How many elements of N come no later than e *)
Upto(N, e) == {i \in N : i <= e}
Rank(N, e) == Cardinality(Upto(N, e))

(* The elements of a bounded set of positions are ranked from one up. *)
LEMMA RanksAreInRange ==
    ASSUME NEW N, NEW m \in Nat, N \in SUBSET (1 .. m)
    PROVE  /\ IsFiniteSet(N) /\ Cardinality(N) \in Nat
           /\ \A e \in N : Rank(N, e) \in 1 .. Cardinality(N)
<1>1. IsFiniteSet(1 .. m)
    BY FS_Interval
<1>2. IsFiniteSet(N) /\ Cardinality(N) \in Nat
    BY <1>1, FS_Subset, FS_CardinalityType
<1>3. ASSUME NEW e \in N
      PROVE  Rank(N, e) \in 1 .. Cardinality(N)
  <2>1. Upto(N, e) \in SUBSET N /\ e \in Upto(N, e)
      BY DEF Upto
  <2>2. IsFiniteSet(Upto(N, e)) /\ Cardinality(Upto(N, e)) <= Cardinality(N)
      BY <1>2, <2>1, FS_Subset
  <2>3. Cardinality(Upto(N, e)) \in Nat
      BY <2>2, FS_CardinalityType
  <2>4. Cardinality(Upto(N, e)) # 0
      BY <2>1, <2>2, FS_EmptySet
  <2>. QED
      BY <1>2, <2>2, <2>3, <2>4 DEF Rank
<1>. QED
    BY <1>2, <1>3

(* An earlier element has a smaller rank. *)
LEMMA RanksGrow ==
    ASSUME NEW N, NEW m \in Nat, N \in SUBSET (1 .. m), NEW e \in N, NEW f \in N, e < f
    PROVE  Rank(N, e) < Rank(N, f)
<1>1. IsFiniteSet(N)
    BY RanksAreInRange
<1>2. Upto(N, e) \in SUBSET Upto(N, f) /\ f \in Upto(N, f) /\ f \notin Upto(N, e)
  <2>1. e \in Nat /\ f \in Nat /\ N \subseteq Nat
      OBVIOUS
  <2>2. \A i \in N : i <= e => i <= f
      BY <2>1
  <2>3. f <= f /\ ~(f <= e)
      BY <2>1
  <2>. QED
      BY <2>2, <2>3 DEF Upto
<1>3. Upto(N, f) \in SUBSET N
    BY DEF Upto
<1>4. IsFiniteSet(Upto(N, f))
    BY <1>1, <1>3, FS_Subset
<1>5. /\ Cardinality(Upto(N, e)) <= Cardinality(Upto(N, f))
      /\ Cardinality(Upto(N, f)) = Cardinality(Upto(N, e)) => Upto(N, f) = Upto(N, e)
    BY <1>2, <1>4, FS_Subset
<1>6. Rank(N, e) \in Nat /\ Rank(N, f) \in Nat
  <2>1. /\ Cardinality(N) \in Nat
        /\ Rank(N, e) \in 1 .. Cardinality(N) /\ Rank(N, f) \in 1 .. Cardinality(N)
      BY RanksAreInRange
  <2>. QED
      BY <2>1
<1>. QED
    BY <1>2, <1>5, <1>6 DEF Rank

(* Every rank is some element's, and only that one's. *)
LEMMA RanksAreTaken ==
    ASSUME NEW N, NEW m \in Nat, N \in SUBSET (1 .. m)
    PROVE  /\ \A k \in 1 .. Cardinality(N) : \E e \in N : Rank(N, e) = k
           /\ \A e, f \in N : Rank(N, e) = Rank(N, f) => e = f
<1>. DEFINE rk == [e \in N |-> Rank(N, e)]
            n == Cardinality(N)
<1>1. IsFiniteSet(N) /\ n \in Nat /\ \A e \in N : Rank(N, e) \in 1 .. n
    BY RanksAreInRange
<1>2. \A e, f \in N : Rank(N, e) = Rank(N, f) => e = f
  <2>. SUFFICES ASSUME NEW e \in N, NEW f \in N, Rank(N, e) = Rank(N, f)
                PROVE  e = f
      OBVIOUS
  <2>1. e < f => Rank(N, e) < Rank(N, f)
      BY RanksGrow
  <2>2. f < e => Rank(N, f) < Rank(N, e)
      BY RanksGrow
  <2>3. e \in Nat /\ f \in Nat /\ Rank(N, e) \in Nat /\ Rank(N, f) \in Nat
      BY <1>1
  <2>. QED
      BY <2>1, <2>2, <2>3
<1>3. rk \in Injection(N, 1 .. n)
    BY <1>1, <1>2 DEF Injection, IsInjective
<1>4. IsFiniteSet(1 .. n) /\ Cardinality(1 .. n) = n
    BY <1>1, FS_Interval
<1>. HIDE DEF rk
<1>5. rk \in Surjection(N, 1 .. n)
    BY <1>3, <1>4, FS_Injection
<1>6. \A k \in 1 .. n : \E e \in N : rk[e] = k
    BY <1>5 DEF Surjection
<1>. QED
    BY <1>2, <1>6 DEF rk

(* The positions of the LFs *)
LEMMA NewlinesAreFew ==
    ASSUME NEW s \in Seq(Bytes)
    PROVE  /\ Len(s) \in Nat /\ Newlines(s) \in SUBSET (1 .. Len(s))
           /\ IsFiniteSet(Newlines(s)) /\ Cardinality(Newlines(s)) \in Nat
<1>1. Len(s) \in Nat /\ Newlines(s) \in SUBSET (1 .. Len(s))
    BY LenProperties DEF Newlines
<1>. QED
    BY <1>1, RanksAreInRange

(* The k-th line ends at the LF of rank k. *)
LEMMA LineEnds ==
    ASSUME NEW s \in Seq(Bytes), NEW k \in 1 .. Cardinality(Newlines(s))
    PROVE  /\ LineEnd(s, k) \in Newlines(s) /\ Rank(Newlines(s), LineEnd(s, k)) = k
           /\ LineEnd(s, k) \in 1 .. Len(s)
           /\ \A e \in Newlines(s) : Rank(Newlines(s), e) = k => e = LineEnd(s, k)
<1>1. Newlines(s) \in SUBSET (1 .. Len(s)) /\ Len(s) \in Nat
    BY NewlinesAreFew
<1>2. LineEnd(s, k) = CHOOSE e \in Newlines(s) : Rank(Newlines(s), e) = k
    BY DEF LineEnd, Rank, Upto
<1>3. \E e \in Newlines(s) : Rank(Newlines(s), e) = k
    BY <1>1, RanksAreTaken
<1>4. LineEnd(s, k) \in Newlines(s) /\ Rank(Newlines(s), LineEnd(s, k)) = k
    BY <1>2, <1>3
<1>5. \A e \in Newlines(s) : Rank(Newlines(s), e) = k => e = LineEnd(s, k)
    BY <1>1, <1>4, RanksAreTaken
<1>. QED
    BY <1>1, <1>4, <1>5

(* Where the last line ends, 0 if there is none *)
LastEnd(s) ==
    IF Newlines(s) = {} THEN 0
    ELSE CHOOSE i \in Newlines(s) : \A j \in Newlines(s) : j <= i

(* The last LF is the one of the highest rank, and nothing after it is one. *)
LEMMA LastEndIsLast ==
    ASSUME NEW s \in Seq(Bytes)
    PROVE  /\ LastEnd(s) \in 0 .. Len(s)
           /\ \A j \in Newlines(s) : j <= LastEnd(s)
           /\ Newlines(s) = {} => LastEnd(s) = 0 /\ Cardinality(Newlines(s)) = 0
           /\ Newlines(s) # {} =>
                /\ LastEnd(s) \in Newlines(s) /\ Cardinality(Newlines(s)) > 0
                /\ LastEnd(s) = LineEnd(s, Cardinality(Newlines(s)))
<1>. DEFINE N == Newlines(s)
            n == Cardinality(N)
<1>1. Len(s) \in Nat /\ N \in SUBSET (1 .. Len(s)) /\ IsFiniteSet(N) /\ n \in Nat
    BY NewlinesAreFew
<1>2. CASE N = {}
    BY <1>1, <1>2, FS_EmptySet DEF LastEnd
<1>3. CASE N # {}
  <2>1. n > 0
      BY <1>1, <1>3, FS_EmptySet
  <2>2. n \in 1 .. n
      BY <1>1, <2>1
  <2>. DEFINE e == LineEnd(s, n)
  <2>3. e \in N /\ Rank(N, e) = n
      BY <2>2, LineEnds
  <2>4. Upto(N, e) = N
    <3>1. Upto(N, e) \in SUBSET N
        BY DEF Upto
    <3>. QED
        BY <1>1, <2>3, <3>1, FS_Subset DEF Rank
  <2>5. \A j \in N : j <= e
      BY <2>4 DEF Upto
  <2>. HIDE DEF e
  <2>6. LastEnd(s) \in N /\ \A j \in N : j <= LastEnd(s)
      BY <1>3, <2>3, <2>5 DEF LastEnd
  <2>7. LastEnd(s) = e
      BY <1>1, <2>3, <2>5, <2>6
  <2>. QED
      BY <1>1, <1>3, <2>1, <2>6, <2>7 DEF e
<1>. QED
    BY <1>2, <1>3

(* The positions D, L further on *)
Shifted(L, D) == {L + i : i \in D}

(* Moving positions keeps their number. *)
LEMMA ShiftKeepsNumber ==
    ASSUME NEW D \in SUBSET Nat, IsFiniteSet(D), NEW L \in Nat
    PROVE  IsFiniteSet(Shifted(L, D)) /\ Cardinality(Shifted(L, D)) = Cardinality(D)
<1>. DEFINE f == [i \in D |-> L + i]
<1>1. f \in Surjection(D, Shifted(L, D))
    BY DEF Surjection, Shifted
<1>2. f \in Injection(D, Shifted(L, D))
    BY DEF Injection, IsInjective, Shifted
<1>. HIDE DEF f
<1>. QED
    BY <1>1, <1>2, FS_Surjection

(* Positions up to L followed by positions moved behind L: their number    *)
LEMMA SplicedNumber ==
    ASSUME NEW L \in Nat, NEW N \in SUBSET (1 .. L),
           NEW D \in SUBSET (Nat \ {0}), IsFiniteSet(D),
           NEW T, T = N \cup Shifted(L, D)
    PROVE  Cardinality(T) = Cardinality(N) + Cardinality(D)
<1>1. IsFiniteSet(N) /\ Cardinality(N) \in Nat
    BY RanksAreInRange
<1>2. IsFiniteSet(D) /\ Cardinality(D) \in Nat
    BY FS_CardinalityType
<1>3. D \in SUBSET Nat
    OBVIOUS
<1>4. IsFiniteSet(Shifted(L, D)) /\ Cardinality(Shifted(L, D)) = Cardinality(D)
    BY <1>2, <1>3, ShiftKeepsNumber
<1>5. N \cap Shifted(L, D) = {}
    BY DEF Shifted
<1>6. Cardinality(N \cap Shifted(L, D)) = 0
    BY <1>5, FS_EmptySet
<1>7. Cardinality(N \cup Shifted(L, D))
        = Cardinality(N) + Cardinality(Shifted(L, D)) - Cardinality(N \cap Shifted(L, D))
    BY <1>1, <1>4, FS_Union
<1>. QED
    BY <1>1, <1>2, <1>4, <1>6, <1>7

(* ... and their ranks *)
LEMMA SplicedRanks ==
    ASSUME NEW L \in Nat, NEW N \in SUBSET (1 .. L), NEW m \in Nat, NEW D \in SUBSET (1 .. m)
    PROVE  /\ \A e \in N : Rank(N \cup Shifted(L, D), e) = Rank(N, e)
           /\ \A i \in D : Rank(N \cup Shifted(L, D), L + i) = Cardinality(N) + Rank(D, i)
<1>. DEFINE T == N \cup Shifted(L, D)
<1>1. ASSUME NEW e \in N
      PROVE  Upto(T, e) = Upto(N, e)
    BY DEF Upto, Shifted
<1>2. ASSUME NEW i \in D
      PROVE  Rank(T, L + i) = Cardinality(N) + Rank(D, i)
  <2>1. Upto(T, L + i) = N \cup Shifted(L, Upto(D, i))
    <3>1. \A j \in N : j <= L + i
        OBVIOUS
    <3>2. \A j \in D : L + j <= L + i <=> j <= i
        OBVIOUS
    <3>. QED
        BY <3>1, <3>2 DEF Upto, Shifted
  <2>. DEFINE U == Upto(D, i)
              V == Upto(T, L + i)
  <2>2. U \in SUBSET (Nat \ {0}) /\ IsFiniteSet(U)
    <3>1. U \in SUBSET D /\ D \in SUBSET (Nat \ {0})
        BY DEF Upto
    <3>2. IsFiniteSet(D)
        BY RanksAreInRange
    <3>. QED
        BY <3>1, <3>2, FS_Subset
  <2>4. V = N \cup Shifted(L, U)
      BY <2>1
  <2>. HIDE DEF U, V
  <2>3. Cardinality(V) = Cardinality(N) + Cardinality(U)
      BY <2>2, <2>4, SplicedNumber
  <2>. QED
      BY <2>3 DEF Rank, U, V
<1>. QED
    BY <1>1, <1>2 DEF Rank

-----------------------------------------------------------------------------
(* What an event adds to the lines of a stream *)

(* A part of a sequence, found again L further on *)
LEMMA SamePart ==
    ASSUME NEW S, NEW s, NEW t, NEW a \in Int, NEW b \in Int, NEW L \in Int,
           \A i \in a .. b : s[i] \in S /\ t[L + i] = s[i]
    PROVE  SubSeq(t, L + a, L + b) = SubSeq(s, a, b) /\ SubSeq(s, a, b) \in Seq(S)
<1>1. /\ SubSeq(s, a, b) \in Seq(S)
      /\ Len(SubSeq(s, a, b)) = IF a <= b THEN b - a + 1 ELSE 0
      /\ \A i \in 1 .. b - a + 1 : SubSeq(s, a, b)[i] = s[a + i - 1]
    BY SubSeqProperties
<1>2. \A i \in L + a .. L + b : t[i] \in S
  <2>. SUFFICES ASSUME NEW i \in L + a .. L + b
                PROVE  t[i] \in S
      OBVIOUS
  <2>1. i - L \in a .. b /\ L + (i - L) = i
      OBVIOUS
  <2>. QED
      BY <2>1
<1>3. /\ SubSeq(t, L + a, L + b) \in Seq(S)
      /\ Len(SubSeq(t, L + a, L + b))
           = IF L + a <= L + b THEN (L + b) - (L + a) + 1 ELSE 0
      /\ \A i \in 1 .. (L + b) - (L + a) + 1 : SubSeq(t, L + a, L + b)[i] = t[(L + a) + i - 1]
  <2>1. L + a \in Int /\ L + b \in Int
      OBVIOUS
  <2>. DEFINE x == L + a
              y == L + b
  <2>2. x \in Int /\ y \in Int /\ \A i \in x .. y : t[i] \in S
      BY <1>2, <2>1
  <2>. HIDE DEF x, y
  <2>3. /\ SubSeq(t, x, y) \in Seq(S)
        /\ Len(SubSeq(t, x, y)) = IF x <= y THEN y - x + 1 ELSE 0
        /\ \A i \in 1 .. y - x + 1 : SubSeq(t, x, y)[i] = t[x + i - 1]
      BY <2>2, SubSeqProperties
  <2>. QED
      BY <2>3 DEF x, y
<1>4. Len(SubSeq(t, L + a, L + b)) = Len(SubSeq(s, a, b))
    BY <1>1, <1>3
<1>5. ASSUME NEW i \in 1 .. Len(SubSeq(s, a, b))
      PROVE  SubSeq(t, L + a, L + b)[i] = SubSeq(s, a, b)[i]
  <2>1. i \in 1 .. b - a + 1 /\ i \in 1 .. (L + b) - (L + a) + 1
      BY <1>1
  <2>2. a + i - 1 \in a .. b /\ (L + a) + i - 1 = L + (a + i - 1)
      BY <2>1
  <2>. QED
      BY <1>1, <1>3, <2>1, <2>2
<1>. QED
    BY <1>1, <1>3, <1>4, <1>5, SeqEqual

(* The same, in place *)
LEMMA SamePlace ==
    ASSUME NEW S, NEW s, NEW t, NEW a \in Int, NEW b \in Int,
           \A i \in a .. b : s[i] \in S /\ t[i] = s[i]
    PROVE  SubSeq(t, a, b) = SubSeq(s, a, b)
<1>1. 0 \in Int /\ 0 + a = a /\ 0 + b = b /\ \A i \in a .. b : 0 + i = i
    OBVIOUS
<1>2. \A i \in a .. b : s[i] \in S /\ t[0 + i] = s[i]
    BY <1>1
<1>3. SubSeq(t, 0 + a, 0 + b) = SubSeq(s, a, b)
    BY <1>1, <1>2, SamePart
<1>. QED
    BY <1>1, <1>3

(* Where the k-th line starts *)
Start(s, k) == IF k = 1 THEN 1 ELSE LineEnd(s, k - 1) + 1

(* The k-th line lies inside the stream. *)
LEMMA LinesLieInside ==
    ASSUME NEW s \in Seq(Bytes), NEW k \in 1 .. Cardinality(Newlines(s))
    PROVE  Start(s, k) \in 1 .. Len(s) + 1 /\ LineEnd(s, k) \in 1 .. Len(s)
<1>1. Len(s) \in Nat /\ Cardinality(Newlines(s)) \in Nat
    BY NewlinesAreFew
<1>2. LineEnd(s, k) \in 1 .. Len(s)
    BY LineEnds
<1>3. CASE k = 1
    BY <1>1, <1>2, <1>3 DEF Start
<1>4. CASE k # 1
  <2>1. k - 1 \in 1 .. Cardinality(Newlines(s))
      BY <1>1, <1>4
  <2>2. LineEnd(s, k - 1) \in 1 .. Len(s)
      BY <2>1, LineEnds
  <2>. QED
      BY <1>1, <1>2, <1>4, <2>2 DEF Start
<1>. QED
    BY <1>3, <1>4

(* RawLines: one line for each LF, between its start and its end *)
LEMMA RawLinesAre ==
    ASSUME NEW s \in Seq(Bytes)
    PROVE  /\ RawLines(s) \in Seq(Seq(Bytes))
           /\ Len(RawLines(s)) = Cardinality(Newlines(s))
           /\ \A k \in 1 .. Cardinality(Newlines(s)) :
                 RawLines(s)[k] = SubSeq(s, Start(s, k), LineEnd(s, k) - 1)
<1>. DEFINE n == Cardinality(Newlines(s))
            line(k) == SubSeq(s, Start(s, k), LineEnd(s, k) - 1)
<1>1. n \in Nat /\ Len(s) \in Nat
    BY NewlinesAreFew
<1>2. ASSUME NEW k \in 1 .. n
      PROVE  line(k) \in Seq(Bytes)
  <2>. DEFINE a == Start(s, k)
              b == LineEnd(s, k) - 1
  <2>1. a \in 1 .. Len(s) + 1 /\ LineEnd(s, k) \in 1 .. Len(s)
      BY LinesLieInside
  <2>2. a \in Int /\ b \in Int /\ a >= 1 /\ b <= Len(s)
      BY <1>1, <2>1
  <2>3. \A i \in 1 .. Len(s) : s[i] \in Bytes
      BY ElementOfSeq
  <2>. HIDE DEF a, b
  <2>4. \A i \in a .. b : s[i] \in Bytes
      BY <1>1, <2>2, <2>3
  <2>5. SubSeq(s, a, b) \in Seq(Bytes)
      BY <2>2, <2>4, SubSeqProperties
  <2>. QED
      BY <2>5 DEF a, b
<1>3. RawLines(s) = [k \in 1 .. n |-> line(k)]
    BY DEF RawLines, Start
<1>. HIDE DEF n, line
<1>4. RawLines(s) \in [1 .. n -> Seq(Bytes)]
    BY <1>2, <1>3
<1>5. RawLines(s) \in Seq(Seq(Bytes)) /\ Len(RawLines(s)) = n
    BY <1>1, <1>4
<1>. QED
    BY <1>3, <1>5 DEF n, line

(* Unterminated: what follows the last LF *)
LEMMA UnterminatedIs ==
    ASSUME NEW s \in Seq(Bytes)
    PROVE  /\ Unterminated(s) = SubSeq(s, LastEnd(s) + 1, Len(s))
           /\ Unterminated(s) \in Seq(Bytes)
           /\ Len(Unterminated(s)) = Len(s) - LastEnd(s)
           /\ \A i \in 1 .. Len(s) - LastEnd(s) : Unterminated(s)[i] = s[LastEnd(s) + i]
<1>. DEFINE a == LastEnd(s) + 1
            b == Len(s)
<1>1. Unterminated(s) = SubSeq(s, a, b)
    BY DEF Unterminated, LastEnd
<1>2. Len(s) \in Nat /\ LastEnd(s) \in 0 .. Len(s)
    BY LenProperties, LastEndIsLast
<1>3. a \in Int /\ b \in Int /\ a >= 1 /\ b <= Len(s)
    BY <1>2
<1>4. \A i \in 1 .. Len(s) : s[i] \in Bytes
    BY ElementOfSeq
<1>. HIDE DEF a, b
<1>5. \A i \in a .. b : s[i] \in Bytes
    BY <1>2, <1>3, <1>4
<1>6. /\ SubSeq(s, a, b) \in Seq(Bytes)
      /\ Len(SubSeq(s, a, b)) = IF a <= b THEN b - a + 1 ELSE 0
      /\ \A i \in 1 .. b - a + 1 : SubSeq(s, a, b)[i] = s[a + i - 1]
    BY <1>3, <1>5, SubSeqProperties
<1>7. Len(SubSeq(s, a, b)) = Len(s) - LastEnd(s)
    BY <1>2, <1>6 DEF a, b
<1>8. ASSUME NEW i \in 1 .. Len(s) - LastEnd(s)
      PROVE  SubSeq(s, a, b)[i] = s[LastEnd(s) + i]
  <2>1. i \in 1 .. b - a + 1 /\ a + i - 1 = LastEnd(s) + i
      BY <1>2 DEF a, b
  <2>. QED
      BY <1>6, <2>1
<1>. QED
    BY <1>1, <1>6, <1>7, <1>8 DEF a, b

(* The stream t after an event c, and the data d the event is framed in:    *)
(* from the last line end of s on they are the same bytes.                  *)
LEMMA EventMeetsTail ==
    ASSUME NEW s \in Seq(Bytes), NEW c \in Seq(Bytes)
    PROVE  LET t == s \o c
               d == Unterminated(s) \o c
               L == LastEnd(s)
           IN  /\ t \in Seq(Bytes) /\ d \in Seq(Bytes) /\ L \in Nat /\ L <= Len(s)
               /\ Len(t) = L + Len(d)
               /\ \A i \in 1 .. L : t[i] = s[i]
               /\ \A i \in 1 .. Len(d) : t[L + i] = d[i]
<1>. DEFINE t == s \o c
            u == Unterminated(s)
            d == u \o c
            L == LastEnd(s)
<1>1. /\ u \in Seq(Bytes) /\ Len(u) = Len(s) - L
      /\ \A i \in 1 .. Len(s) - L : u[i] = s[L + i]
    BY UnterminatedIs
<1>2. L \in 0 .. Len(s)
    BY LastEndIsLast
<1>. HIDE DEF u, L
<1>3. Len(s) \in Nat /\ Len(c) \in Nat /\ Len(u) \in Nat
    BY <1>1, LenProperties
<1>4. /\ t \in Seq(Bytes) /\ Len(t) = Len(s) + Len(c)
      /\ \A i \in 1 .. Len(s) + Len(c) : t[i] = IF i <= Len(s) THEN s[i] ELSE c[i - Len(s)]
    BY ConcatProperties
<1>5. /\ d \in Seq(Bytes) /\ Len(d) = Len(u) + Len(c)
      /\ \A i \in 1 .. Len(u) + Len(c) : d[i] = IF i <= Len(u) THEN u[i] ELSE c[i - Len(u)]
    BY <1>1, ConcatProperties
<1>. HIDE DEF t, d
<1>6. L \in Nat /\ L <= Len(s) /\ Len(t) = L + Len(d)
    BY <1>1, <1>2, <1>3, <1>4, <1>5
<1>7. \A i \in 1 .. L : t[i] = s[i]
    BY <1>2, <1>3, <1>4
<1>8. ASSUME NEW i \in 1 .. Len(d)
      PROVE  t[L + i] = d[i]
  <2>1. L + i \in 1 .. Len(s) + Len(c) /\ i \in 1 .. Len(u) + Len(c)
      BY <1>1, <1>3, <1>5, <1>6
  <2>2. CASE i <= Len(u)
    <3>1. L + i <= Len(s) /\ i \in 1 .. Len(s) - L
        BY <1>1, <1>3, <1>6, <2>2
    <3>. QED
        BY <1>1, <1>4, <1>5, <2>1, <2>2, <3>1
  <2>3. CASE ~(i <= Len(u))
    <3>1. ~(L + i <= Len(s)) /\ (L + i) - Len(s) = i - Len(u)
        BY <1>1, <1>3, <1>6, <2>1, <2>3
    <3>. QED
        BY <1>4, <1>5, <2>1, <2>3, <3>1
  <2>. QED
      BY <2>2, <2>3
<1>. QED
    BY <1>4, <1>5, <1>6, <1>7, <1>8 DEF t, d, u, L

(* Facts that the next lemmas share about t, d and L *)
Extended(s, c, t, d, L) ==
    /\ t = s \o c /\ d = Unterminated(s) \o c /\ L = LastEnd(s)
    /\ t \in Seq(Bytes) /\ d \in Seq(Bytes) /\ L \in Nat /\ L <= Len(s)
    /\ Len(t) = L + Len(d)
    /\ \A i \in 1 .. L : t[i] = s[i]
    /\ \A i \in 1 .. Len(d) : t[L + i] = d[i]

(* Every LF of t is one of s or one of d. *)
LEMMA NewlinesOfBoth ==
    ASSUME NEW s \in Seq(Bytes), NEW c, NEW t, NEW d, NEW L, Extended(s, c, t, d, L)
    PROVE  /\ Newlines(s) \in SUBSET (1 .. L) /\ Newlines(d) \in SUBSET (1 .. Len(d))
           /\ Newlines(t) = Newlines(s) \cup Shifted(L, Newlines(d))
<1>1. /\ t \in Seq(Bytes) /\ d \in Seq(Bytes) /\ L \in Nat /\ L <= Len(s) /\ L = LastEnd(s)
      /\ Len(t) = L + Len(d)
      /\ \A i \in 1 .. L : t[i] = s[i]
      /\ \A i \in 1 .. Len(d) : t[L + i] = d[i]
    BY DEF Extended
<1>2. Len(s) \in Nat /\ Len(d) \in Nat /\ Newlines(d) \in SUBSET (1 .. Len(d))
    BY <1>1, NewlinesAreFew
<1>3. Newlines(s) \in SUBSET (1 .. Len(s)) /\ \A j \in Newlines(s) : j <= L
    BY <1>1, NewlinesAreFew, LastEndIsLast
<1>4. Newlines(s) \in SUBSET (1 .. L)
    BY <1>1, <1>2, <1>3
<1>5. ASSUME NEW j \in Newlines(t)
      PROVE  j \in Newlines(s) \cup Shifted(L, Newlines(d))
  <2>1. j \in 1 .. L + Len(d) /\ t[j] = "LF"
      BY <1>1 DEF Newlines
  <2>2. CASE j <= L
    <3>1. j \in 1 .. L /\ j \in 1 .. Len(s)
        BY <1>1, <1>2, <2>1, <2>2
    <3>. QED
        BY <1>1, <2>1, <3>1 DEF Newlines
  <2>3. CASE ~(j <= L)
    <3>1. j - L \in 1 .. Len(d) /\ L + (j - L) = j
        BY <1>1, <1>2, <2>1, <2>3
    <3>2. j - L \in Newlines(d)
        BY <1>1, <2>1, <3>1 DEF Newlines
    <3>. QED
        BY <3>1, <3>2 DEF Shifted
  <2>. QED
      BY <2>2, <2>3
<1>6. ASSUME NEW j \in Newlines(s)
      PROVE  j \in Newlines(t)
  <2>1. s[j] = "LF"
      BY DEF Newlines
  <2>2. j \in 1 .. L /\ j \in 1 .. Len(t)
      BY <1>1, <1>2, <1>4
  <2>. QED
      BY <1>1, <2>1, <2>2 DEF Newlines
<1>7. ASSUME NEW i \in Newlines(d)
      PROVE  L + i \in Newlines(t)
  <2>1. d[i] = "LF"
      BY DEF Newlines
  <2>2. i \in 1 .. Len(d) /\ L + i \in 1 .. Len(t)
      BY <1>1, <1>2
  <2>. QED
      BY <1>1, <2>1, <2>2 DEF Newlines
<1>. QED
    BY <1>2, <1>4, <1>5, <1>6, <1>7 DEF Shifted

(* The lines of s keep their ends, and those of d follow. *)
LEMMA LineEndsOfBoth ==
    ASSUME NEW s \in Seq(Bytes), NEW c, NEW t, NEW d, NEW L, Extended(s, c, t, d, L)
    PROVE  LET n == Cardinality(Newlines(s))
               m == Cardinality(Newlines(d))
           IN  /\ n \in Nat /\ m \in Nat /\ Cardinality(Newlines(t)) = n + m
               /\ \A k \in 1 .. n : LineEnd(t, k) = LineEnd(s, k)
               /\ \A k \in 1 .. m : LineEnd(t, n + k) = L + LineEnd(d, k)
<1>. DEFINE n == Cardinality(Newlines(s))
            m == Cardinality(Newlines(d))
<1>1. t \in Seq(Bytes) /\ d \in Seq(Bytes) /\ L \in Nat /\ Len(d) \in Nat
    BY LenProperties DEF Extended
<1>2. /\ Newlines(s) \in SUBSET (1 .. L) /\ Newlines(d) \in SUBSET (1 .. Len(d))
      /\ Newlines(t) = Newlines(s) \cup Shifted(L, Newlines(d))
    BY NewlinesOfBoth
<1>3. n \in Nat /\ m \in Nat
    BY <1>1, NewlinesAreFew
<1>4. Cardinality(Newlines(t)) = n + m
  <2>. DEFINE N == Newlines(s)
              D == Newlines(d)
              T == Newlines(t)
  <2>1. /\ L \in Nat /\ Len(d) \in Nat /\ N \in SUBSET (1 .. L) /\ D \in SUBSET (1 .. Len(d))
        /\ T = N \cup Shifted(L, D)
      BY <1>1, <1>2
  <2>. HIDE DEF N, D, T
  <2>3. D \in SUBSET (Nat \ {0}) /\ IsFiniteSet(D)
    <3>1. IsFiniteSet(1 .. Len(d))
        BY <2>1, FS_Interval
    <3>2. IsFiniteSet(D)
        BY <2>1, <3>1, FS_Subset
    <3>. QED
        BY <2>1, <3>2
  <2>2. Cardinality(T) = Cardinality(N) + Cardinality(D)
      BY <2>1, <2>3, SplicedNumber
  <2>. QED
      BY <2>2 DEF N, D, T
<1>5. /\ \A e \in Newlines(s) : Rank(Newlines(t), e) = Rank(Newlines(s), e)
      /\ \A i \in Newlines(d) : Rank(Newlines(t), L + i) = n + Rank(Newlines(d), i)
  <2>. DEFINE T == Newlines(s) \cup Shifted(L, Newlines(d))
  <2>1. /\ \A e \in Newlines(s) : Rank(T, e) = Rank(Newlines(s), e)
        /\ \A i \in Newlines(d) : Rank(T, L + i) = n + Rank(Newlines(d), i)
      BY <1>1, <1>2, SplicedRanks
  <2>. QED
      BY <1>2, <2>1
<1>6. ASSUME NEW k \in 1 .. n
      PROVE  LineEnd(t, k) = LineEnd(s, k)
  <2>1. LineEnd(s, k) \in Newlines(s) /\ Rank(Newlines(s), LineEnd(s, k)) = k
      BY LineEnds
  <2>2. LineEnd(s, k) \in Newlines(t) /\ Rank(Newlines(t), LineEnd(s, k)) = k
      BY <1>2, <1>5, <2>1
  <2>3. k \in 1 .. Cardinality(Newlines(t))
      BY <1>3, <1>4
  <2>. QED
      BY <1>1, <2>2, <2>3, LineEnds
<1>7. ASSUME NEW k \in 1 .. m
      PROVE  LineEnd(t, n + k) = L + LineEnd(d, k)
  <2>. DEFINE i == LineEnd(d, k)
  <2>1. i \in Newlines(d) /\ Rank(Newlines(d), i) = k
      BY <1>1, LineEnds
  <2>. HIDE DEF i
  <2>2. L + i \in Newlines(t) /\ Rank(Newlines(t), L + i) = n + k
      BY <1>2, <1>5, <2>1 DEF Shifted
  <2>3. n + k \in 1 .. Cardinality(Newlines(t))
      BY <1>3, <1>4
  <2>. DEFINE q == n + k
  <2>4. q \in 1 .. Cardinality(Newlines(t)) /\ Rank(Newlines(t), L + i) = q
      BY <2>2, <2>3
  <2>. HIDE DEF q
  <2>5. L + i = LineEnd(t, q)
      BY <1>1, <2>2, <2>4, LineEnds
  <2>. QED
      BY <2>5 DEF i, q
<1>. QED
    BY <1>3, <1>4, <1>6, <1>7

(* The lines of the longer stream are those of s and then those of d. *)
LEMMA LinesOfBoth ==
    ASSUME NEW s \in Seq(Bytes), NEW c, NEW t, NEW d, NEW L, Extended(s, c, t, d, L)
    PROVE  RawLines(t) = RawLines(s) \o RawLines(d)
<1>. DEFINE n == Cardinality(Newlines(s))
            m == Cardinality(Newlines(d))
<1>1. /\ t \in Seq(Bytes) /\ d \in Seq(Bytes) /\ L \in Nat /\ L <= Len(s) /\ L = LastEnd(s)
      /\ Len(t) = L + Len(d)
      /\ \A i \in 1 .. L : t[i] = s[i]
      /\ \A i \in 1 .. Len(d) : t[L + i] = d[i]
    BY DEF Extended
<1>2. /\ n \in Nat /\ m \in Nat /\ Cardinality(Newlines(t)) = n + m
      /\ \A k \in 1 .. n : LineEnd(t, k) = LineEnd(s, k)
      /\ \A k \in 1 .. m : LineEnd(t, n + k) = L + LineEnd(d, k)
    BY LineEndsOfBoth
<1>3. Len(s) \in Nat /\ Len(d) \in Nat /\ Len(t) \in Nat
    BY <1>1, LenProperties
<1>4. /\ RawLines(s) \in Seq(Seq(Bytes)) /\ Len(RawLines(s)) = n
      /\ \A k \in 1 .. n : RawLines(s)[k] = SubSeq(s, Start(s, k), LineEnd(s, k) - 1)
    BY RawLinesAre
<1>5. /\ RawLines(d) \in Seq(Seq(Bytes)) /\ Len(RawLines(d)) = m
      /\ \A k \in 1 .. m : RawLines(d)[k] = SubSeq(d, Start(d, k), LineEnd(d, k) - 1)
    BY <1>1, RawLinesAre
<1>6. /\ RawLines(t) \in Seq(Seq(Bytes)) /\ Len(RawLines(t)) = n + m
      /\ \A k \in 1 .. n + m : RawLines(t)[k] = SubSeq(t, Start(t, k), LineEnd(t, k) - 1)
    BY <1>1, <1>2, RawLinesAre
<1>7. ASSUME NEW k \in 1 .. n
      PROVE  RawLines(t)[k] = RawLines(s)[k]
  <2>. DEFINE a == Start(s, k)
              b == LineEnd(s, k) - 1
  <2>1. Start(t, k) = a
    <3>1. CASE k = 1
        BY <3>1 DEF Start
    <3>2. CASE k # 1
      <4>1. k - 1 \in 1 .. n
          BY <1>2, <3>2
      <4>. QED
          BY <1>2, <3>2, <4>1 DEF Start
    <3>. QED
        BY <3>1, <3>2
  <2>2. LineEnd(t, k) - 1 = b
      BY <1>2
  <2>3. a \in 1 .. Len(s) + 1 /\ LineEnd(s, k) \in 1 .. Len(s)
      BY LinesLieInside
  <2>4. LineEnd(s, k) <= L
      BY <1>1, LineEnds, LastEndIsLast
  <2>5. a \in Int /\ b \in Int /\ a >= 1 /\ b <= L
      BY <1>1, <1>3, <2>3, <2>4
  <2>. HIDE DEF a, b
  <2>6. ASSUME NEW i \in a .. b
        PROVE  s[i] \in Bytes /\ t[i] = s[i]
    <3>1. i \in 1 .. L /\ i \in 1 .. Len(s)
        BY <1>1, <1>3, <2>5
    <3>. QED
        BY <1>1, <3>1, ElementOfSeq
  <2>7. SubSeq(t, a, b) = SubSeq(s, a, b)
      BY <2>5, <2>6, SamePlace
  <2>8. k \in 1 .. n + m
      BY <1>2, <2>5
  <2>. QED
      BY <1>4, <1>6, <2>1, <2>2, <2>7, <2>8 DEF a, b
<1>8. ASSUME NEW k \in 1 .. m
      PROVE  RawLines(t)[n + k] = RawLines(d)[k]
  <2>. DEFINE a == Start(d, k)
              b == LineEnd(d, k) - 1
              q == n + k
  <2>0. q \in 1 .. n + m /\ q \in Nat /\ (q = 1 => n = 0 /\ k = 1)
      BY <1>2
  <2>3. a \in 1 .. Len(d) + 1 /\ LineEnd(d, k) \in 1 .. Len(d)
      BY <1>1, LinesLieInside
  <2>1. Start(t, q) = L + a
    <3>1. CASE k = 1 /\ n = 0
      <4>1. Newlines(s) = {}
          BY <3>1, NewlinesAreFew, FS_EmptySet
      <4>2. L = 0
          BY <1>1, <4>1, LastEndIsLast
      <4>. QED
          BY <3>1, <4>2 DEF Start
    <3>2. CASE k = 1 /\ n # 0
      <4>1. Newlines(s) # {}
          BY <3>2, FS_EmptySet
      <4>2. L = LineEnd(s, n)
          BY <1>1, <4>1, LastEndIsLast
      <4>3. n \in 1 .. n /\ q - 1 = n /\ q # 1
          BY <1>2, <3>2
      <4>4. Start(t, q) = LineEnd(t, n) + 1
          BY <4>3 DEF Start
      <4>5. LineEnd(t, n) = L
          BY <1>2, <4>2, <4>3
      <4>. QED
          BY <3>2, <4>4, <4>5 DEF Start
    <3>3. CASE k # 1
      <4>1. k - 1 \in 1 .. m /\ q - 1 = n + (k - 1) /\ q # 1
          BY <1>2, <3>3
      <4>2. LineEnd(t, q - 1) = L + LineEnd(d, k - 1)
          BY <1>2, <4>1
      <4>3. LineEnd(d, k - 1) \in 1 .. Len(d)
          BY <1>1, <4>1, LineEnds
      <4>4. Start(t, q) = LineEnd(t, q - 1) + 1 /\ a = LineEnd(d, k - 1) + 1
          BY <3>3, <4>1 DEF Start
      <4>. HIDE DEF a, q
      <4>. QED
          BY <1>1, <1>3, <4>2, <4>3, <4>4
    <3>. QED
        BY <3>1, <3>2, <3>3
  <2>2. LineEnd(t, q) - 1 = L + b
      BY <1>1, <1>2, <1>3, <2>3
  <2>5. a \in Int /\ b \in Int /\ a >= 1 /\ b <= Len(d)
      BY <1>3, <2>3
  <2>. HIDE DEF a, b
  <2>6. ASSUME NEW i \in a .. b
        PROVE  d[i] \in Bytes /\ t[L + i] = d[i]
    <3>1. i \in 1 .. Len(d)
        BY <1>3, <2>5
    <3>. QED
        BY <1>1, <3>1, ElementOfSeq
  <2>4. L \in Int
      BY <1>1
  <2>7. SubSeq(t, L + a, L + b) = SubSeq(d, a, b)
      BY <2>4, <2>5, <2>6, SamePart
  <2>. QED
      BY <1>5, <1>6, <2>0, <2>1, <2>2, <2>7 DEF a, b
<1>. DEFINE rs == RawLines(s)
            rd == RawLines(d)
            both == rs \o rd
            rt == RawLines(t)
<1>9. /\ both \in Seq(Seq(Bytes)) /\ Len(both) = n + m
      /\ \A i \in 1 .. n + m : both[i] = IF i <= n THEN rs[i] ELSE rd[i - n]
  <2>1. rs \in Seq(Seq(Bytes)) /\ rd \in Seq(Seq(Bytes)) /\ Len(rs) = n /\ Len(rd) = m
      BY <1>4, <1>5
  <2>. HIDE DEF rs, rd, n, m
  <2>2. /\ both \in Seq(Seq(Bytes)) /\ Len(both) = Len(rs) + Len(rd)
        /\ \A i \in 1 .. Len(rs) + Len(rd) : both[i] =
              IF i <= Len(rs) THEN rs[i] ELSE rd[i - Len(rs)]
      BY <2>1, ConcatProperties
  <2>. QED
      BY <2>1, <2>2
<1>10. ASSUME NEW i \in 1 .. n + m
       PROVE  rt[i] = both[i]
  <2>1. CASE i <= n
    <3>1. i \in 1 .. n
        BY <1>2, <2>1
    <3>. QED
        BY <1>7, <1>9, <2>1, <3>1
  <2>2. CASE ~(i <= n)
    <3>1. i - n \in 1 .. m /\ n + (i - n) = i
        BY <1>2, <2>2
    <3>2. rt[n + (i - n)] = rd[i - n]
        BY <1>8, <3>1
    <3>. QED
        BY <1>9, <2>2, <3>1, <3>2
  <2>. QED
      BY <2>1, <2>2
<1>11. rt \in Seq(Seq(Bytes)) /\ Len(rt) = n + m
    BY <1>6
<1>. HIDE DEF rt, both, n, m
<1>12. rt = both
    BY <1>9, <1>10, <1>11, SeqEqual
<1>. QED
    BY <1>12 DEF rt, both

(* What is left unterminated is what d leaves unterminated. *)
LEMMA RestOfBoth ==
    ASSUME NEW s \in Seq(Bytes), NEW c, NEW t, NEW d, NEW L, Extended(s, c, t, d, L)
    PROVE  Unterminated(t) = Unterminated(d)
<1>1. /\ t \in Seq(Bytes) /\ d \in Seq(Bytes) /\ L \in Nat /\ L <= Len(s) /\ L = LastEnd(s)
      /\ Len(t) = L + Len(d)
      /\ \A i \in 1 .. Len(d) : t[L + i] = d[i]
    BY DEF Extended
<1>2. /\ Newlines(s) \in SUBSET (1 .. L) /\ Newlines(d) \in SUBSET (1 .. Len(d))
      /\ Newlines(t) = Newlines(s) \cup Shifted(L, Newlines(d))
    BY NewlinesOfBoth
<1>3. Len(d) \in Nat /\ Len(t) \in Nat
    BY <1>1, LenProperties
<1>. DEFINE e == LastEnd(t)
            f == LastEnd(d)
<1>4. /\ e \in 0 .. Len(t) /\ \A j \in Newlines(t) : j <= e
      /\ (Newlines(t) = {} => e = 0) /\ (Newlines(t) # {} => e \in Newlines(t))
    BY <1>1, LastEndIsLast
<1>5. /\ f \in 0 .. Len(d) /\ \A j \in Newlines(d) : j <= f
      /\ (Newlines(d) = {} => f = 0) /\ (Newlines(d) # {} => f \in Newlines(d))
    BY <1>1, LastEndIsLast
<1>6. (Newlines(s) = {} => L = 0) /\ (Newlines(s) # {} => L \in Newlines(s))
    BY <1>1, LastEndIsLast
<1>. HIDE DEF e, f
<1>7. e = L + f
  <2>1. CASE Newlines(d) = {}
    <3>1. Newlines(t) = Newlines(s) /\ f = 0
        BY <1>2, <1>5, <2>1 DEF Shifted
    <3>2. e = L
      <4>1. CASE Newlines(s) = {}
          BY <1>4, <1>6, <3>1, <4>1
      <4>2. CASE Newlines(s) # {}
        <5>1. L <= e /\ e \in 1 .. L
            BY <1>2, <1>4, <1>6, <3>1, <4>2
        <5>. QED
            BY <1>1, <5>1
      <4>. QED
          BY <4>1, <4>2
    <3>. QED
        BY <1>1, <3>1, <3>2
  <2>2. CASE Newlines(d) # {}
    <3>1. L + f \in Newlines(t) /\ f \in 1 .. Len(d)
        BY <1>2, <1>5, <2>2 DEF Shifted
    <3>2. L + f <= e /\ e \in Newlines(t)
        BY <1>4, <3>1
    <3>3. ASSUME NEW j \in Newlines(t)
          PROVE  j <= L + f
      <4>1. CASE j \in Newlines(s)
        <5>1. j \in 1 .. L
            BY <1>2, <4>1
        <5>. QED
            BY <1>1, <1>3, <3>1, <5>1
      <4>2. CASE j \in Shifted(L, Newlines(d))
        <5>1. PICK i \in Newlines(d) : j = L + i
            BY <4>2 DEF Shifted
        <5>2. i <= f /\ i \in 1 .. Len(d)
            BY <1>2, <1>5
        <5>. QED
            BY <1>1, <1>3, <3>1, <5>1, <5>2
      <4>. QED
          BY <1>2, <4>1, <4>2
    <3>4. e <= L + f
        BY <3>2, <3>3
    <3>. QED
        BY <1>1, <1>3, <1>4, <3>1, <3>2, <3>4
  <2>. QED
      BY <2>1, <2>2
<1>8. /\ Unterminated(t) = SubSeq(t, e + 1, Len(t))
      /\ Unterminated(d) = SubSeq(d, f + 1, Len(d))
    BY <1>1, UnterminatedIs DEF e, f
<1>. DEFINE a == f + 1
            b == Len(d)
<1>9. a \in Int /\ b \in Int /\ a >= 1 /\ e + 1 = L + a /\ Len(t) = L + b
    BY <1>1, <1>3, <1>5, <1>7
<1>10. \A i \in 1 .. b : d[i] \in Bytes /\ t[L + i] = d[i]
    BY <1>1, ElementOfSeq
<1>11. Unterminated(t) = SubSeq(t, L + a, L + b) /\ Unterminated(d) = SubSeq(d, a, b)
    BY <1>8, <1>9
<1>. HIDE DEF a, b
<1>12. \A i \in a .. b : d[i] \in Bytes /\ t[L + i] = d[i]
    BY <1>9, <1>10
<1>13. L \in Int /\ a \in Int /\ b \in Int
    BY <1>1, <1>9
<1>14. SubSeq(t, L + a, L + b) = SubSeq(d, a, b)
    BY <1>12, <1>13, SamePart
<1>. QED
    BY <1>11, <1>14

(* onData: framing the event behind what was pending gives the lines that   *)
(* framing the whole stream would add, and leaves the same bytes pending.   *)
LEMMA FramingIsIncremental ==
    ASSUME NEW s \in Seq(Bytes), NEW c \in Seq(Bytes)
    PROVE  /\ RawLines(s \o c) = RawLines(s) \o RawLines(Unterminated(s) \o c)
           /\ Unterminated(s \o c) = Unterminated(Unterminated(s) \o c)
<1>. DEFINE t == s \o c
            d == Unterminated(s) \o c
            L == LastEnd(s)
<1>1. Extended(s, c, t, d, L)
    BY EventMeetsTail DEF Extended
<1>. HIDE DEF t, d, L
<1>2. RawLines(t) = RawLines(s) \o RawLines(d) /\ Unterminated(t) = Unterminated(d)
    BY <1>1, LinesOfBoth, RestOfBoth
<1>. QED
    BY <1>2 DEF t, d

-----------------------------------------------------------------------------
(* Payloads and verdicts *)

(* decodePayload takes at most one byte off a line. *)
LEMMA PayloadIs ==
    ASSUME NEW raw \in Seq(Bytes)
    PROVE  /\ Payload(raw) \in Seq(Bytes)
           /\ EndsInCr(raw) => raw # <<>> /\ Len(Payload(raw)) = Len(raw) - 1
           /\ ~EndsInCr(raw) => Payload(raw) = raw
<1>1. CASE EndsInCr(raw)
  <2>1. raw # <<>> /\ Len(raw) \in Nat /\ Len(raw) # 0
      BY <1>1, EmptySeq, LenProperties DEF EndsInCr
  <2>. DEFINE b == Len(raw) - 1
  <2>2. b \in Nat /\ b < Len(raw)
      BY <2>1
  <2>. HIDE DEF b
  <2>3. b \in Int /\ 1 \in Int /\ \A i \in 1 .. b : raw[i] \in Bytes
    <3>1. \A i \in 1 .. b : i \in 1 .. Len(raw)
        BY <2>1, <2>2
    <3>. QED
        BY <2>2, <3>1, ElementOfSeq
  <2>4. /\ SubSeq(raw, 1, b) \in Seq(Bytes)
        /\ Len(SubSeq(raw, 1, b)) = IF 1 <= b THEN b - 1 + 1 ELSE 0
      BY <2>3, SubSeqProperties
  <2>5. Len(SubSeq(raw, 1, b)) = b
      BY <2>2, <2>4
  <2>. QED
      BY <1>1, <2>1, <2>4, <2>5 DEF Payload, Front, b
<1>2. CASE ~EndsInCr(raw)
    BY <1>2 DEF Payload
<1>. QED
    BY <1>1, <1>2

(* appendPrefix admits exactly the prefixes whose payload would fit. *)
LEMMA PrefixFits ==
    ASSUME NEW p \in Seq(Bytes)
    PROVE  /\ appendPrefix(p) <=> Len(Payload(p)) <= MAX_PROTOCOL_LINE_BYTES
           /\ appendPrefix(p) => Len(p) <= MAX_PROTOCOL_LINE_BYTES + 1
<1>1. MAX_PROTOCOL_LINE_BYTES \in Nat
    BY Bounds
<1>2. Len(p) \in Nat
    BY LenProperties
<1>3. CASE EndsInCr(p)
  <2>1. Len(Payload(p)) = Len(p) - 1
      BY <1>3, PayloadIs
  <2>. QED
      BY <1>1, <1>2, <1>3, <2>1 DEF appendPrefix
<1>4. CASE ~EndsInCr(p)
  <2>1. Payload(p) = p
      BY <1>4, PayloadIs
  <2>. QED
      BY <1>1, <1>2, <1>4, <2>1 DEF appendPrefix
<1>. QED
    BY <1>3, <1>4

(* The lines of s as the readers get them *)
Decoded(s) == [k \in 1 .. Len(RawLines(s)) |-> Payload(RawLines(s)[k])]

(* The event whose data is d is published, and not refused. *)
Fits(d) ==
    /\ \A k \in 1 .. Len(RawLines(d)) : decodePayload(RawLines(d)[k])
    /\ appendPrefix(Unterminated(d))

(* As many lines as LFs *)
LEMMA DecodedAre ==
    ASSUME NEW s \in Seq(Bytes)
    PROVE  /\ Decoded(s) \in Seq(Seq(Bytes)) /\ Len(Decoded(s)) = Len(RawLines(s))
           /\ Len(RawLines(s)) \in Nat
           /\ \A k \in 1 .. Len(RawLines(s)) : Decoded(s)[k] = Payload(RawLines(s)[k])
<1>. DEFINE raw == RawLines(s)
<1>1. raw \in Seq(Seq(Bytes))
    BY RawLinesAre
<1>2. Len(raw) \in Nat
    BY <1>1, LenProperties
<1>. DEFINE n == Len(raw)
<1>. HIDE DEF raw
<1>3. \A k \in 1 .. n : Payload(raw[k]) \in Seq(Bytes)
  <2>1. \A k \in 1 .. n : raw[k] \in Seq(Bytes)
      BY <1>1, ElementOfSeq
  <2>. QED
      BY <2>1, PayloadIs
<1>4. Decoded(s) = [k \in 1 .. n |-> Payload(raw[k])]
    BY DEF Decoded, raw
<1>. HIDE DEF n
<1>5. Decoded(s) \in [1 .. n -> Seq(Bytes)]
    BY <1>3, <1>4
<1>6. n \in Nat
    BY <1>2 DEF n
<1>7. Decoded(s) \in Seq(Seq(Bytes)) /\ Len(Decoded(s)) = n
    BY <1>5, <1>6
<1>. QED
    BY <1>2, <1>4, <1>7 DEF n, raw

(* The lines of a longer stream are the lines so far and those of the data. *)
LEMMA DecodedOfBoth ==
    ASSUME NEW s \in Seq(Bytes), NEW c \in Seq(Bytes)
    PROVE  /\ Unterminated(s) \o c \in Seq(Bytes)
           /\ Decoded(s \o c) = Decoded(s) \o Decoded(Unterminated(s) \o c)
<1>. DEFINE d == Unterminated(s) \o c
            t == s \o c
            rs == RawLines(s)
            rd == RawLines(d)
            rt == RawLines(t)
<1>1. d \in Seq(Bytes) /\ t \in Seq(Bytes)
    BY UnterminatedIs, ConcatProperties
<1>2. rt = rs \o rd
    BY FramingIsIncremental
<1>. HIDE DEF t, d
<1>3. rs \in Seq(Seq(Bytes)) /\ rd \in Seq(Seq(Bytes))
    BY <1>1, RawLinesAre
<1>4. /\ Decoded(s) \in Seq(Seq(Bytes)) /\ Len(Decoded(s)) = Len(rs) /\ Len(rs) \in Nat
      /\ \A k \in 1 .. Len(rs) : Decoded(s)[k] = Payload(rs[k])
    BY DecodedAre
<1>5. /\ Decoded(d) \in Seq(Seq(Bytes)) /\ Len(Decoded(d)) = Len(rd) /\ Len(rd) \in Nat
      /\ \A k \in 1 .. Len(rd) : Decoded(d)[k] = Payload(rd[k])
    BY <1>1, DecodedAre
<1>6. /\ Decoded(t) \in Seq(Seq(Bytes)) /\ Len(Decoded(t)) = Len(rt)
      /\ \A k \in 1 .. Len(rt) : Decoded(t)[k] = Payload(rt[k])
    BY <1>1, DecodedAre
<1>. HIDE DEF rs, rd, rt
<1>7. /\ Len(rt) = Len(rs) + Len(rd)
      /\ \A i \in 1 .. Len(rs) + Len(rd) : rt[i] = IF i <= Len(rs) THEN rs[i] ELSE rd[i - Len(rs)]
    BY <1>2, <1>3, ConcatProperties
<1>. DEFINE ds == Decoded(s)
            dd == Decoded(d)
            dt == Decoded(t)
            both == ds \o dd
<1>. HIDE DEF ds, dd, dt
<1>8. ds \in Seq(Seq(Bytes)) /\ dd \in Seq(Seq(Bytes)) /\ dt \in Seq(Seq(Bytes))
    BY <1>4, <1>5, <1>6 DEF ds, dd, dt
<1>9. /\ both \in Seq(Seq(Bytes)) /\ Len(both) = Len(ds) + Len(dd)
      /\ \A i \in 1 .. Len(ds) + Len(dd) : both[i] =
            IF i <= Len(ds) THEN ds[i] ELSE dd[i - Len(ds)]
    BY <1>8, ConcatProperties
<1>10. Len(ds) = Len(rs) /\ Len(dd) = Len(rd) /\ Len(dt) = Len(rs) + Len(rd)
    BY <1>4, <1>5, <1>6, <1>7 DEF ds, dd, dt
<1>11. ASSUME NEW i \in 1 .. Len(rs) + Len(rd)
       PROVE  dt[i] = both[i]
  <2>1. dt[i] = Payload(rt[i])
      BY <1>6, <1>7 DEF dt
  <2>2. CASE i <= Len(rs)
    <3>1. i \in 1 .. Len(rs)
        BY <1>4, <1>5, <2>2
    <3>2. rt[i] = rs[i] /\ both[i] = ds[i]
        BY <1>7, <1>9, <1>10, <2>2
    <3>3. ds[i] = Payload(rs[i])
        BY <1>4, <3>1 DEF ds
    <3>. QED
        BY <2>1, <3>2, <3>3
  <2>3. CASE ~(i <= Len(rs))
    <3>1. i - Len(rs) \in 1 .. Len(rd)
        BY <1>4, <1>5, <2>3
    <3>2. rt[i] = rd[i - Len(rs)] /\ both[i] = dd[i - Len(rs)]
        BY <1>7, <1>9, <1>10, <2>3
    <3>3. dd[i - Len(rs)] = Payload(rd[i - Len(rs)])
        BY <1>5, <3>1 DEF dd
    <3>. QED
        BY <2>1, <3>2, <3>3
  <2>. QED
      BY <2>2, <2>3
<1>. HIDE DEF both
<1>12. dt = both
  <2>1. Len(dt) = Len(both) /\ \A i \in 1 .. Len(dt) : dt[i] = both[i]
      BY <1>9, <1>10, <1>11
  <2>. QED
      BY <1>8, <1>9, <2>1, SeqEqual
<1>. QED
    BY <1>1, <1>12 DEF dt, both, ds, dd, t, d

(* The verdict on the data of an event is the verdict on the whole stream. *)
LEMMA VerdictOfBoth ==
    ASSUME NEW s \in Seq(Bytes), NEW c \in Seq(Bytes), Admissible(s)
    PROVE  Admissible(s \o c) <=> Fits(Unterminated(s) \o c)
<1>. DEFINE d == Unterminated(s) \o c
            t == s \o c
            rs == RawLines(s)
            rd == RawLines(d)
            rt == RawLines(t)
<1>1. d \in Seq(Bytes) /\ t \in Seq(Bytes)
    BY UnterminatedIs, ConcatProperties
<1>2. rt = rs \o rd /\ Unterminated(t) = Unterminated(d)
    BY FramingIsIncremental
<1>. HIDE DEF t, d
<1>3. rs \in Seq(Seq(Bytes)) /\ rd \in Seq(Seq(Bytes))
    BY <1>1, RawLinesAre
<1>4. Unterminated(d) \in Seq(Bytes)
    BY <1>1, UnterminatedIs
<1>5. \A k \in 1 .. Len(rs) : decodePayload(rs[k])
    BY DEF Admissible
<1>6. appendPrefix(Unterminated(d))
        <=> Len(Payload(Unterminated(t))) <= MAX_PROTOCOL_LINE_BYTES
    BY <1>2, <1>4, PrefixFits
<1>. HIDE DEF rs, rd, rt
<1>7. Len(rs) \in Nat /\ Len(rd) \in Nat
    BY <1>3, LenProperties
<1>8. /\ Len(rt) = Len(rs) + Len(rd)
      /\ \A i \in 1 .. Len(rs) + Len(rd) : rt[i] = IF i <= Len(rs) THEN rs[i] ELSE rd[i - Len(rs)]
    BY <1>2, <1>3, ConcatProperties
<1>9. ASSUME NEW k \in 1 .. Len(rd)
      PROVE  Len(rs) + k \in 1 .. Len(rt) /\ rt[Len(rs) + k] = rd[k]
  <2>1. /\ Len(rs) + k \in 1 .. Len(rs) + Len(rd) /\ ~(Len(rs) + k <= Len(rs))
        /\ (Len(rs) + k) - Len(rs) = k
      BY <1>7
  <2>. QED
      BY <1>8, <2>1
<1>10. ASSUME NEW i \in 1 .. Len(rt)
       PROVE  \/ i \in 1 .. Len(rs) /\ rt[i] = rs[i]
              \/ i - Len(rs) \in 1 .. Len(rd) /\ rt[i] = rd[i - Len(rs)]
    BY <1>7, <1>8
<1>11. (\A i \in 1 .. Len(rt) : decodePayload(rt[i]))
         <=> \A k \in 1 .. Len(rd) : decodePayload(rd[k])
    BY <1>5, <1>9, <1>10
<1>. QED
    BY <1>6, <1>11 DEF Admissible, Fits, rt, rd, t, d

-----------------------------------------------------------------------------
(* The inductive invariant of the framing.  While it listens, every byte    *)
(* has been accepted, and what is pending is what the whole stream leaves   *)
(* unterminated: the cuts have left no trace.                               *)
NoTraceOfCuts ==
    /\ accepted <= Len(stream)
    /\ ~terminal => accepted = Len(stream) /\ pending = Unterminated(stream)

FramingTypes ==
    /\ pending \in Seq(Bytes) /\ terminal \in BOOLEAN /\ onFatal \in BOOLEAN
    /\ stream \in Seq(Bytes) /\ accepted \in Nat /\ published \in Seq(Seq(Bytes))

FramingInv == FramingTypes /\ NoTraceOfCuts /\ CutsDoNotMatter

(* Nothing has come, and nothing is pending. *)
LEMMA FramingInit == Init => FramingInv
<1>. SUFFICES ASSUME Init
              PROVE  FramingInv
    OBVIOUS
<1>. DEFINE e == <<>>
<1>1. e \in Seq(Bytes) /\ Len(e) = 0
    BY EmptySeq
<1>2. /\ pending = e /\ stream = e /\ accepted = 0 /\ published = e
      /\ terminal = FALSE /\ onFatal = FALSE
    BY DEF Init
<1>3. Newlines(e) = {}
    BY <1>1 DEF Newlines
<1>4. Cardinality(Newlines(e)) = 0
    BY <1>3, FS_EmptySet
<1>5. RawLines(e) = <<>> /\ Len(RawLines(e)) = 0
  <2>1. RawLines(e) \in Seq(Seq(Bytes)) /\ Len(RawLines(e)) = 0
      BY <1>1, <1>4, RawLinesAre
  <2>. QED
      BY <2>1, EmptySeq
<1>6. Unterminated(e) = e
  <2>1. LastEnd(e) \in 0 .. Len(e)
      BY <1>1, LastEndIsLast
  <2>2. LastEnd(e) = 0
      BY <1>1, <2>1
  <2>3. Unterminated(e) \in Seq(Bytes) /\ Len(Unterminated(e)) = Len(e) - LastEnd(e)
      BY <1>1, UnterminatedIs
  <2>4. Len(Unterminated(e)) = 0
      BY <1>1, <2>2, <2>3
  <2>. QED
      BY <2>3, <2>4, EmptySeq
<1>7. Payload(e) = e
  <2>1. ~EndsInCr(e)
      BY DEF EndsInCr
  <2>. QED
      BY <2>1 DEF Payload
<1>8. MAX_PROTOCOL_LINE_BYTES \in Nat
    BY Bounds
<1>9. Admissible(stream)
    BY <1>1, <1>2, <1>5, <1>6, <1>7, <1>8 DEF Admissible
<1>10. SubSeq(stream, 1, accepted) = e
    BY <1>2, SubSeqEmpty
<1>11. PublishedAreTheLines
  <2>1. published = [k \in 1 .. Len(RawLines(e)) |-> Payload(RawLines(e)[k])]
      BY <1>2, <1>5
  <2>. QED
      BY <1>10, <2>1 DEF PublishedAreTheLines
<1>12. VerdictIgnoresCuts
    BY <1>1, <1>2, <1>8, <1>9 DEF VerdictIgnoresCuts
<1>13. FramingTypes
  <2>1. <<>> \in Seq(Seq(Bytes))
      BY EmptySeq
  <2>. QED
      BY <1>1, <1>2, <2>1 DEF FramingTypes
<1>14. NoTraceOfCuts
    BY <1>1, <1>2, <1>6 DEF NoTraceOfCuts
<1>. QED
    BY <1>11, <1>12, <1>13, <1>14 DEF FramingInv, CutsDoNotMatter

(* What the invariant says while the framing listens *)
LEMMA Listening ==
    ASSUME FramingInv, ~terminal
    PROVE  /\ stream \in Seq(Bytes) /\ Len(stream) \in Nat /\ accepted = Len(stream)
           /\ pending = Unterminated(stream) /\ Admissible(stream)
           /\ published = Decoded(stream)
<1>1. stream \in Seq(Bytes) /\ accepted = Len(stream) /\ pending = Unterminated(stream)
    BY DEF FramingInv, FramingTypes, NoTraceOfCuts
<1>2. Len(stream) \in Nat
    BY <1>1, LenProperties
<1>3. Admissible(stream)
    BY <1>1 DEF FramingInv, CutsDoNotMatter, VerdictIgnoresCuts
<1>4. SubSeq(stream, 1, accepted) = stream
    BY <1>1, SubSeqFull
<1>5. published = Decoded(stream)
    BY <1>4 DEF FramingInv, CutsDoNotMatter, PublishedAreTheLines, Decoded
<1>. QED
    BY <1>1, <1>2, <1>3, <1>5

(* An event that is published is framed as the stream it extends. *)
LEMMA PublishKeepsFraming ==
    ASSUME FramingInv, NEW chunk \in Seq(Bytes),
           ~terminal, stream' = stream \o chunk, Publish(chunk)
    PROVE  FramingInv'
<1>. DEFINE d == pending \o chunk
            t == stream \o chunk
<1>1. /\ stream \in Seq(Bytes) /\ Len(stream) \in Nat /\ accepted = Len(stream)
      /\ pending = Unterminated(stream) /\ Admissible(stream)
      /\ published = Decoded(stream)
    BY Listening
<1>2. t \in Seq(Bytes) /\ Len(t) = Len(stream) + Len(chunk)
    BY <1>1, ConcatProperties
<1>3. d \in Seq(Bytes) /\ Decoded(t) = Decoded(stream) \o Decoded(d)
    BY <1>1, DecodedOfBoth
<1>4. Fits(d) /\ pending' = Unterminated(d) /\ published' = published \o Decoded(d)
    BY DEF Publish, Fits, Decoded
<1>5. accepted' = accepted + Len(chunk) /\ terminal' = terminal /\ onFatal' = onFatal
    BY DEF Publish
<1>6. Admissible(t)
    BY <1>1, <1>4, VerdictOfBoth
<1>7. Unterminated(t) = Unterminated(d)
    BY <1>1, FramingIsIncremental
<1>8. stream' = t
    OBVIOUS
<1>. HIDE DEF t, d
<1>9. Unterminated(d) \in Seq(Bytes) /\ Decoded(t) \in Seq(Seq(Bytes)) /\ Len(t) \in Nat
    BY <1>2, <1>3, UnterminatedIs, DecodedAre, LenProperties
<1>10. published' = Decoded(t) /\ accepted' = Len(t)
    BY <1>1, <1>2, <1>3, <1>4, <1>5
<1>11. Len(pending') <= MAX_PROTOCOL_LINE_BYTES + 1
  <2>1. appendPrefix(Unterminated(d))
      BY <1>4 DEF Fits
  <2>. QED
      BY <1>4, <1>9, <2>1, PrefixFits
<1>12. FramingTypes'
    BY <1>2, <1>4, <1>5, <1>8, <1>9, <1>10 DEF FramingInv, FramingTypes
<1>13. NoTraceOfCuts'
    BY <1>4, <1>7, <1>8, <1>9, <1>10 DEF NoTraceOfCuts
<1>14. PublishedAreTheLines'
  <2>1. SubSeq(t, 1, Len(t)) = t
      BY <1>2, SubSeqFull
  <2>. QED
      BY <1>8, <1>10, <2>1 DEF PublishedAreTheLines, Decoded
<1>15. VerdictIgnoresCuts'
  <2>1. Admissible(stream') /\ accepted' = Len(stream')
      BY <1>6, <1>8, <1>10
  <2>. QED
      BY <1>11, <2>1 DEF VerdictIgnoresCuts, Admissible
<1>. QED
    BY <1>12, <1>13, <1>14, <1>15 DEF FramingInv, CutsDoNotMatter

(* An event that is refused takes the stream out of the protocol, and is    *)
(* not empty: none of its bytes is accepted and none of its lines published. *)
LEMMA ViolationKeepsFraming ==
    ASSUME FramingInv, NEW chunk \in Seq(Bytes),
           ~terminal, stream' = stream \o chunk, Violation(chunk)
    PROVE  FramingInv'
<1>. DEFINE d == pending \o chunk
            t == stream \o chunk
<1>1. /\ stream \in Seq(Bytes) /\ Len(stream) \in Nat /\ accepted = Len(stream)
      /\ pending = Unterminated(stream) /\ Admissible(stream)
      /\ published = Decoded(stream)
    BY Listening
<1>2. t \in Seq(Bytes) /\ Len(t) = Len(stream) + Len(chunk) /\ Len(chunk) \in Nat
    BY <1>1, ConcatProperties, LenProperties
<1>3. ~Fits(d)
    BY DEF Violation, Fits
<1>4. terminal' = TRUE /\ onFatal' = TRUE /\ UNCHANGED <<pending, published, accepted>>
    BY DEF Violation, stop
<1>5. ~Admissible(t)
    BY <1>1, <1>3, VerdictOfBoth
<1>6. chunk # <<>>
  <2>1. stream \o <<>> = stream
      BY <1>1, ConcatEmptySeq
  <2>. QED
      BY <1>1, <1>5, <2>1
<1>7. Len(chunk) # 0
    BY <1>6, EmptySeq
<1>8. stream' = t
    OBVIOUS
<1>9. SubSeq(t, 1, accepted) = stream
  <2>. DEFINE n == Len(stream)
              o == 1
              z == 0
  <2>1. \A i \in o .. n : stream[i] \in Bytes /\ t[z + i] = stream[i]
    <3>1. \A i \in o .. n : z + i = i /\ i \in 1 .. Len(stream)
                               /\ i \in 1 .. Len(stream) + Len(chunk) /\ i <= Len(stream)
        BY <1>1, <1>2
    <3>2. \A i \in 1 .. Len(stream) + Len(chunk) : t[i] =
             IF i <= Len(stream) THEN stream[i] ELSE chunk[i - Len(stream)]
        BY <1>1, ConcatProperties
    <3>. QED
        BY <1>1, <3>1, <3>2, ElementOfSeq
  <2>. HIDE DEF t
  <2>2. n \in Int /\ z \in Int /\ o \in Int
      BY <1>1
  <2>3. z + o = 1 /\ z + n = n /\ o = 1
      BY <1>1
  <2>. HIDE DEF n, o, z
  <2>4. SubSeq(t, z + o, z + n) = SubSeq(stream, o, n)
      BY <2>1, <2>2, SamePart
  <2>5. SubSeq(stream, 1, Len(stream)) = stream
      BY <1>1, SubSeqFull
  <2>. QED
      BY <1>1, <2>3, <2>4, <2>5 DEF n
<1>. HIDE DEF t, d
<1>10. accepted < Len(t)
    BY <1>1, <1>2, <1>7
<1>11. FramingTypes'
    BY <1>2, <1>4, <1>8 DEF FramingInv, FramingTypes
<1>12. NoTraceOfCuts'
  <2>1. accepted' <= Len(stream')
      BY <1>1, <1>2, <1>4, <1>8, <1>10
  <2>. QED
      BY <1>4, <2>1 DEF NoTraceOfCuts
<1>13. PublishedAreTheLines'
  <2>1. SubSeq(stream', 1, accepted') = stream /\ published' = Decoded(stream)
      BY <1>1, <1>4, <1>8, <1>9
  <2>. QED
      BY <2>1 DEF PublishedAreTheLines, Decoded
<1>14. VerdictIgnoresCuts'
  <2>1. ~Admissible(stream') /\ accepted' # Len(stream')
      BY <1>1, <1>2, <1>4, <1>5, <1>8, <1>10
  <2>2. Len(pending') <= MAX_PROTOCOL_LINE_BYTES + 1
      BY <1>4 DEF FramingInv, CutsDoNotMatter, VerdictIgnoresCuts
  <2>. QED
      BY <2>1, <2>2 DEF VerdictIgnoresCuts, Admissible
<1>. QED
    BY <1>11, <1>12, <1>13, <1>14 DEF FramingInv, CutsDoNotMatter

(* Once the framing has stopped, or while only readers move, the stream and *)
(* what was published stand.                                                *)
LEMMA HistoryStands ==
    ASSUME FramingInv, UNCHANGED <<stream, accepted, published>>,
           terminal' = TRUE \/ UNCHANGED <<terminal, pending>>,
           terminal' \in BOOLEAN, onFatal' \in BOOLEAN,
           pending' = pending \/ pending' = <<>>
    PROVE  FramingInv'
<1>1. pending' \in Seq(Bytes) /\ Len(pending') <= MAX_PROTOCOL_LINE_BYTES + 1
  <2>1. CASE pending' = pending
      BY <2>1 DEF FramingInv, FramingTypes, CutsDoNotMatter, VerdictIgnoresCuts
  <2>2. CASE pending' = <<>>
    <3>1. <<>> \in Seq(Bytes) /\ Len(<<>>) = 0
        BY EmptySeq
    <3>2. MAX_PROTOCOL_LINE_BYTES \in Nat
        BY Bounds
    <3>3. 0 <= MAX_PROTOCOL_LINE_BYTES + 1
        BY <3>2
    <3>. QED
        BY <2>2, <3>1, <3>3
  <2>. QED
      BY <2>1, <2>2
<1>2. FramingTypes'
    BY <1>1 DEF FramingInv, FramingTypes
<1>3. NoTraceOfCuts'
    BY DEF FramingInv, NoTraceOfCuts
<1>4. PublishedAreTheLines'
    BY DEF FramingInv, CutsDoNotMatter, PublishedAreTheLines
<1>5. VerdictIgnoresCuts'
  <2>1. Admissible(stream') <=> Admissible(stream)
      OBVIOUS
  <2>. QED
      BY <1>1, <2>1 DEF FramingInv, CutsDoNotMatter, VerdictIgnoresCuts, Admissible
<1>. QED
    BY <1>2, <1>3, <1>4, <1>5 DEF FramingInv, CutsDoNotMatter

-----------------------------------------------------------------------------
(* The inductive invariant of the readers.  Until the stream has stopped    *)
(* and its buffer is drained, calls and lines are matched by number: calls  *)
(* ahead of the lines wait, lines ahead of the calls are buffered, and      *)
(* never both.                                                              *)
Matched ==
    /\ Len(asked) + Len(buffer) = Len(published) + Len(waiters)
    /\ \A i \in 1 .. Len(buffer) : buffer[i] = published[Len(asked) + i]
    /\ \A i \in 1 .. Len(waiters) : waiters[i] = asked[Len(published) + i]

AskedOnce == \A i, j \in 1 .. Len(asked) : asked[i] = asked[j] => i = j

ReadersServed ==
    /\ ended = terminal
    /\ failure => ended /\ buffer = <<>>
    /\ ended \/ buffer # <<>> => waiters = <<>>
    /\ ~ended \/ buffer # <<>> => Matched
    /\ AskedOnce
    /\ CallsMeetLinesInOrder

ReaderTypes ==
    /\ buffer \in Seq(Seq(Bytes)) /\ waiters \in Seq(Readers)
    /\ ended \in BOOLEAN /\ failure \in BOOLEAN
    /\ got \in [Readers -> NextResults(Seq(Bytes))] /\ asked \in Seq(Readers)

StreamInv == FramingInv /\ ReaderTypes /\ ReadersServed

(* Nobody has asked, and nothing has come. *)
LEMMA ReadersInit == Init => ReaderTypes /\ ReadersServed
<1>. SUFFICES ASSUME Init
              PROVE  ReaderTypes /\ ReadersServed
    OBVIOUS
<1>1. /\ buffer = <<>> /\ waiters = <<>> /\ ended = FALSE /\ failure = FALSE
      /\ got = [r \in Readers |-> NoResult]
      /\ terminal = FALSE /\ published = <<>> /\ asked = <<>>
    BY DEF Init, IteratorInit
<1>2. NoResult \in NextResults(Seq(Bytes))
    BY DEF NoResult, NextResults
<1>3. <<>> \in Seq(Seq(Bytes)) /\ <<>> \in Seq(Readers) /\ Len(<<>>) = 0
    BY EmptySeq
<1>4. ReaderTypes
    BY <1>1, <1>2, <1>3 DEF ReaderTypes
<1>5. Matched /\ AskedOnce /\ CallsMeetLinesInOrder
    BY <1>1, <1>3 DEF Matched, AskedOnce, CallsMeetLinesInOrder
<1>. QED
    BY <1>1, <1>4, <1>5 DEF ReadersServed

(* The lengths, and the call each waiter is *)
LEMMA WaitersAsked ==
    ASSUME ReaderTypes, ReadersServed, published \in Seq(Seq(Bytes)), ~ended
    PROVE  /\ Len(asked) \in Nat /\ Len(buffer) \in Nat /\ Len(published) \in Nat
           /\ Len(waiters) \in Nat
           /\ Len(asked) + Len(buffer) = Len(published) + Len(waiters)
           /\ Len(buffer) = 0 \/ Len(waiters) = 0
           /\ \A j \in 1 .. Len(waiters) :
                 /\ Len(published) + j \in 1 .. Len(asked)
                 /\ waiters[j] = asked[Len(published) + j]
<1>1. /\ Len(asked) \in Nat /\ Len(buffer) \in Nat /\ Len(published) \in Nat
      /\ Len(waiters) \in Nat
    BY LenProperties DEF ReaderTypes
<1>2. Matched
    BY DEF ReadersServed
<1>3. Len(buffer) = 0 \/ Len(waiters) = 0
  <2>1. CASE buffer = <<>>
      BY <2>1, EmptySeq
  <2>2. CASE buffer # <<>>
    <3>1. waiters = <<>>
        BY <2>2 DEF ReadersServed
    <3>. QED
        BY <3>1, EmptySeq
  <2>. QED
      BY <2>1, <2>2
<1>4. \A j \in 1 .. Len(waiters) : Len(published) + j \in 1 .. Len(asked)
    BY <1>1, <1>2, <1>3 DEF Matched
<1>. QED
    BY <1>1, <1>2, <1>3, <1>4 DEF Matched

(* emitAll: the calls that wait get the first lines, in order, and the      *)
(* other lines are buffered, whichever are more.                            *)
LEMMA EmitAllServes ==
    ASSUME ReaderTypes, ReadersServed, published \in Seq(Seq(Bytes)), ~ended,
           NEW lines \in Seq(Seq(Bytes)), emitAll(lines),
           published' = published \o lines, UNCHANGED <<asked, terminal>>
    PROVE  ReaderTypes' /\ ReadersServed'
<1>. DEFINE A == Len(asked)
            B == Len(buffer)
            P == Len(published)
            W == Len(waiters)
            K == Len(lines)
            n == IF K < W THEN K ELSE W
            extra == SubSeq(lines, n + 1, K)
            rest == SubSeq(waiters, n + 1, W)
            Served(r) == \E i \in 1 .. n : waiters[i] = r
            line(r) == lines[CHOOSE i \in 1 .. n : waiters[i] = r]
<1>1. /\ A \in Nat /\ B \in Nat /\ P \in Nat /\ W \in Nat
      /\ A + B = P + W /\ (B = 0 \/ W = 0)
      /\ \A j \in 1 .. W : P + j \in 1 .. A /\ waiters[j] = asked[P + j]
    BY WaitersAsked
<1>2. K \in Nat
    BY LenProperties
<1>3. n \in Nat /\ n <= K /\ n <= W /\ (n = K \/ n = W)
    BY <1>1, <1>2
<1>4. /\ got' = [r \in Readers |-> IF Served(r) THEN Value(line(r)) ELSE got[r]]
      /\ waiters' = rest /\ buffer' = buffer \o extra /\ UNCHANGED <<ended, failure>>
    BY DEF emitAll
<1>5. /\ published' \in Seq(Seq(Bytes)) /\ Len(published') = P + K
      /\ \A i \in 1 .. P + K : published'[i] = IF i <= P THEN published[i] ELSE lines[i - P]
    BY ConcatProperties
<1>. HIDE DEF n
<1>6. /\ extra \in Seq(Seq(Bytes)) /\ Len(extra) = K - n
      /\ \A i \in 1 .. K - n : extra[i] = lines[n + i]
  <2>. DEFINE a == n + 1
  <2>1. a \in Int /\ K \in Int /\ \A i \in a .. K : lines[i] \in Seq(Bytes)
    <3>1. \A i \in a .. K : i \in 1 .. Len(lines)
        BY <1>2, <1>3
    <3>. QED
        BY <1>2, <1>3, <3>1, ElementOfSeq
  <2>. HIDE DEF a, K
  <2>2. /\ SubSeq(lines, a, K) \in Seq(Seq(Bytes))
        /\ Len(SubSeq(lines, a, K)) = IF a <= K THEN K - a + 1 ELSE 0
        /\ \A i \in 1 .. K - a + 1 : SubSeq(lines, a, K)[i] = lines[a + i - 1]
      BY <2>1, SubSeqProperties
  <2>3. /\ (IF a <= K THEN K - a + 1 ELSE 0) = K - n
        /\ \A i \in 1 .. K - n : i \in 1 .. K - a + 1 /\ a + i - 1 = n + i
      BY <1>2, <1>3 DEF a
  <2>. QED
      BY <2>2, <2>3 DEF a
<1>7. /\ rest \in Seq(Readers) /\ Len(rest) = W - n
      /\ \A i \in 1 .. W - n : rest[i] = waiters[n + i]
  <2>. DEFINE a == n + 1
  <2>1. a \in Int /\ W \in Int /\ \A i \in a .. W : waiters[i] \in Readers
    <3>1. \A i \in a .. W : i \in 1 .. Len(waiters)
        BY <1>1, <1>3
    <3>. QED
        BY <1>1, <1>3, <3>1, ElementOfSeq DEF ReaderTypes
  <2>. HIDE DEF a, W
  <2>2. /\ SubSeq(waiters, a, W) \in Seq(Readers)
        /\ Len(SubSeq(waiters, a, W)) = IF a <= W THEN W - a + 1 ELSE 0
        /\ \A i \in 1 .. W - a + 1 : SubSeq(waiters, a, W)[i] = waiters[a + i - 1]
      BY <2>1, SubSeqProperties
  <2>3. /\ (IF a <= W THEN W - a + 1 ELSE 0) = W - n
        /\ \A i \in 1 .. W - n : i \in 1 .. W - a + 1 /\ a + i - 1 = n + i
      BY <1>1, <1>3 DEF a
  <2>. QED
      BY <2>2, <2>3 DEF a
<1>. HIDE DEF extra, rest
<1>8. /\ buffer' \in Seq(Seq(Bytes)) /\ Len(buffer') = B + (K - n)
      /\ \A i \in 1 .. B + (K - n) : buffer'[i] = IF i <= B THEN buffer[i] ELSE extra[i - B]
  <2>1. buffer \in Seq(Seq(Bytes)) /\ extra \in Seq(Seq(Bytes))
      BY <1>6 DEF ReaderTypes
  <2>2. /\ buffer \o extra \in Seq(Seq(Bytes))
        /\ Len(buffer \o extra) = Len(buffer) + Len(extra)
        /\ \A i \in 1 .. Len(buffer) + Len(extra) : (buffer \o extra)[i] =
              IF i <= Len(buffer) THEN buffer[i] ELSE extra[i - Len(buffer)]
      BY <2>1, ConcatProperties
  <2>. QED
      BY <1>4, <1>6, <2>2
<1>9. ASSUME NEW r \in Readers, Served(r)
      PROVE  \E j \in 1 .. n : waiters[j] = r /\ line(r) = lines[j] /\ j \in 1 .. W /\ j \in 1 .. K
  <2>. DEFINE j == CHOOSE i \in 1 .. n : waiters[i] = r
  <2>1. j \in 1 .. n /\ waiters[j] = r
      BY <1>9
  <2>2. line(r) = lines[j]
      OBVIOUS
  <2>. HIDE DEF j, line
  <2>3. j \in 1 .. W /\ j \in 1 .. K
      BY <1>1, <1>2, <1>3, <2>1
  <2>. QED
      BY <2>1, <2>2, <2>3
<1>. HIDE DEF A, B, P, W, K, Served, line
<1>10. ReaderTypes'
  <2>1. ASSUME NEW r \in Readers
        PROVE  (IF Served(r) THEN Value(line(r)) ELSE got[r]) \in NextResults(Seq(Bytes))
    <3>1. CASE Served(r)
      <4>1. PICK j \in 1 .. K : line(r) = lines[j]
          BY <1>9, <3>1
      <4>2. line(r) \in Seq(Bytes)
          BY <4>1, ElementOfSeq DEF K
      <4>. QED
          BY <3>1, <4>2 DEF Value, NextResults
    <3>2. CASE ~Served(r)
        BY <3>2 DEF ReaderTypes
    <3>. QED
        BY <3>1, <3>2
  <2>2. got' \in [Readers -> NextResults(Seq(Bytes))]
      BY <1>4, <2>1
  <2>. QED
      BY <1>4, <1>7, <1>8, <2>2 DEF ReaderTypes
<1>11. Matched'
  <2>1. Len(asked) = A /\ asked' = asked /\ Len(waiters') = W - n
      BY <1>4, <1>7 DEF A
  <2>2. A + (B + (K - n)) = (P + K) + (W - n)
      BY <1>1, <1>2, <1>3
  <2>3. ASSUME NEW i \in 1 .. B + (K - n)
        PROVE  buffer'[i] = published'[A + i]
    <3>1. CASE i <= B
      <4>1. i \in 1 .. B /\ W = 0 /\ A + i <= P /\ A + i \in 1 .. P + K
          BY <1>1, <1>2, <1>3, <3>1
      <4>2. Matched /\ buffer[i] = published[A + i]
          BY <4>1 DEF ReadersServed, Matched, A, B
      <4>. QED
          BY <1>5, <1>8, <3>1, <4>1, <4>2
    <3>2. CASE ~(i <= B)
      <4>1. /\ i - B \in 1 .. K - n /\ n = W /\ A + i \in 1 .. P + K /\ ~(A + i <= P)
            /\ (A + i) - P = n + (i - B)
          BY <1>1, <1>2, <1>3, <3>2
      <4>2. buffer'[i] = lines[n + (i - B)]
          BY <1>6, <1>8, <3>2, <4>1
      <4>. QED
          BY <1>5, <4>1, <4>2
    <3>. QED
        BY <3>1, <3>2
  <2>4. ASSUME NEW i \in 1 .. W - n
        PROVE  waiters'[i] = asked[(P + K) + i]
    <3>1. n + i \in 1 .. W /\ P + (n + i) = (P + K) + i
        BY <1>1, <1>2, <1>3
    <3>. QED
        BY <1>1, <1>4, <1>7, <3>1
  <2>. QED
      BY <1>5, <1>8, <2>1, <2>2, <2>3, <2>4 DEF Matched
<1>12. buffer' # <<>> => waiters' = <<>>
  <2>1. Len(buffer') = 0 \/ Len(waiters') = 0
      BY <1>1, <1>2, <1>3, <1>4, <1>7, <1>8
  <2>. QED
      BY <1>4, <1>7, <1>8, <2>1, EmptySeq
<1>13. CallsMeetLinesInOrder'
  <2>. SUFFICES ASSUME NEW i \in 1 .. A, got'[asked[i]].tag = "line"
                PROVE  i <= P + K /\ got'[asked[i]].line = published'[i]
      BY <1>5 DEF CallsMeetLinesInOrder, A
  <2>. DEFINE r == asked[i]
  <2>1. r \in Readers
      BY ElementOfSeq DEF ReaderTypes, A
  <2>2. CASE Served(r)
    <3>1. PICK j \in 1 .. n : waiters[j] = r /\ line(r) = lines[j] /\ j \in 1 .. W /\ j \in 1 .. K
        BY <1>9, <2>1, <2>2
    <3>2. P + j \in 1 .. A /\ asked[P + j] = asked[i]
        BY <1>1, <3>1
    <3>3. i = P + j
        BY <3>2 DEF ReadersServed, AskedOnce, A
    <3>4. i \in 1 .. P + K /\ ~(i <= P) /\ i - P = j /\ i <= P + K
        BY <1>1, <1>2, <3>1, <3>3
    <3>5. got'[r] = Value(lines[j])
        BY <1>4, <2>1, <2>2, <3>1
    <3>6. got'[r].line = lines[j]
        BY <3>5 DEF Value
    <3>. QED
        BY <1>5, <3>4, <3>6
  <2>3. CASE ~Served(r)
    <3>1. got'[r] = got[r]
        BY <1>4, <2>1, <2>3
    <3>2. i <= P /\ got[r].line = published[i]
        BY <3>1 DEF ReadersServed, CallsMeetLinesInOrder, A, P
    <3>3. i \in 1 .. P + K /\ i <= P + K
        BY <1>1, <1>2, <3>2
    <3>. QED
        BY <1>5, <3>1, <3>2, <3>3
  <2>. QED
      BY <2>2, <2>3
<1>14. AskedOnce'
    BY DEF ReadersServed, AskedOnce
<1>. QED
    BY <1>4, <1>10, <1>11, <1>12, <1>13, <1>14 DEF ReadersServed

(* finish and fail: every call that waits settles without a line, and what  *)
(* an orderly end leaves in the buffer is still matched with later calls.   *)
LEMMA StoppingServes ==
    ASSUME ReaderTypes, ReadersServed, ~ended, finish \/ fail,
           terminal' = TRUE, UNCHANGED <<published, asked>>
    PROVE  ReaderTypes' /\ ReadersServed'
<1>1. PICK result \in {EndOfLines, Rejected} :
         /\ got' = [r \in Readers |-> IF Waiting(r) THEN result ELSE got[r]]
         /\ waiters' = <<>>
    BY DEF finish, fail, SettleWaiters
<1>2. /\ ended' = TRUE
      /\ UNCHANGED <<buffer, failure>> \/ (buffer' = <<>> /\ failure' = TRUE)
    BY DEF finish, fail
<1>3. result \in NextResults(Seq(Bytes)) /\ result.tag # "line"
    BY DEF EndOfLines, Rejected, NextResults
<1>4. <<>> \in Seq(Readers) /\ <<>> \in Seq(Seq(Bytes)) /\ Len(<<>>) = 0
    BY EmptySeq
<1>5. ReaderTypes'
  <2>1. got' \in [Readers -> NextResults(Seq(Bytes))]
      BY <1>1, <1>3 DEF ReaderTypes
  <2>. QED
      BY <1>1, <1>2, <1>4, <2>1 DEF ReaderTypes
<1>6. CallsMeetLinesInOrder'
  <2>. SUFFICES ASSUME NEW i \in 1 .. Len(asked), got'[asked[i]].tag = "line"
                PROVE  i <= Len(published) /\ got'[asked[i]].line = published[i]
      BY DEF CallsMeetLinesInOrder
  <2>1. asked[i] \in Readers
      BY ElementOfSeq DEF ReaderTypes
  <2>2. got'[asked[i]] = got[asked[i]]
      BY <1>1, <1>3, <2>1
  <2>. QED
      BY <2>2 DEF ReadersServed, CallsMeetLinesInOrder
<1>7. buffer' # <<>> => buffer' = buffer /\ failure' = failure
    BY <1>2
<1>8. buffer' # <<>> => Matched'
  <2>. SUFFICES ASSUME buffer' # <<>>
                PROVE  Matched'
      OBVIOUS
  <2>1. waiters = <<>> /\ Matched
      BY <1>7 DEF ReadersServed
  <2>. QED
      BY <1>1, <1>7, <2>1 DEF Matched
<1>9. AskedOnce'
    BY DEF ReadersServed, AskedOnce
<1>10. failure' => buffer' = <<>>
    BY <1>2 DEF ReadersServed
<1>. QED
    BY <1>1, <1>2, <1>5, <1>6, <1>8, <1>9, <1>10 DEF ReadersServed

(* next: a call joins the line it comes to, in the buffer or still to come. *)
LEMMA NextServes ==
    ASSUME ReaderTypes, ReadersServed, published \in Seq(Seq(Bytes)),
           NEW r \in Readers, next(r)
    PROVE  ReaderTypes' /\ ReadersServed'
<1>. DEFINE A == Len(asked)
            B == Len(buffer)
            P == Len(published)
            W == Len(waiters)
<1>1. /\ asked \in Seq(Readers) /\ buffer \in Seq(Seq(Bytes)) /\ waiters \in Seq(Readers)
      /\ got \in [Readers -> NextResults(Seq(Bytes))]
    BY DEF ReaderTypes
<1>2. A \in Nat /\ B \in Nat /\ P \in Nat /\ W \in Nat
    BY <1>1, LenProperties
<1>3. /\ asked' = Append(asked, r) /\ \A i \in 1 .. A : asked[i] # r
      /\ UNCHANGED <<ended, failure, terminal, published>> /\ got[r] = NoResult
    BY DEF next, pull, framingVars
<1>4. /\ asked' \in Seq(Readers) /\ Len(asked') = A + 1 /\ asked'[A + 1] = r
      /\ \A i \in 1 .. A : asked'[i] = asked[i] /\ i \in 1 .. A + 1
    BY <1>1, <1>2, <1>3, AppendProperties
<1>5. AskedOnce'
  <2>. SUFFICES ASSUME NEW i \in 1 .. A + 1, NEW j \in 1 .. A + 1, asked'[i] = asked'[j]
                PROVE  i = j
      BY <1>4 DEF AskedOnce
  <2>1. \A k \in 1 .. A + 1 : k \in 1 .. A \/ k = A + 1
      BY <1>2
  <2>. QED
      BY <1>3, <1>4, <2>1 DEF ReadersServed, AskedOnce
(* the earlier calls keep what they have *)
<1>6. ASSUME NEW result \in NextResults(Seq(Bytes)), got' = [got EXCEPT ![r] = result],
             result.tag = "line" => A + 1 <= P /\ result.line = published[A + 1]
      PROVE  CallsMeetLinesInOrder'
  <2>. SUFFICES ASSUME NEW i \in 1 .. A + 1, got'[asked'[i]].tag = "line"
                PROVE  i <= P /\ got'[asked'[i]].line = published[i]
      BY <1>3, <1>4 DEF CallsMeetLinesInOrder
  <2>1. CASE i = A + 1
    <3>1. got'[asked'[i]] = result
        BY <1>1, <1>3, <1>4, <1>6, <2>1
    <3>. QED
        BY <1>6, <2>1, <3>1
  <2>2. CASE i # A + 1
    <3>1. i \in 1 .. A
        BY <1>2, <2>2
    <3>2. asked'[i] = asked[i] /\ asked[i] # r /\ asked[i] \in Readers
        BY <1>1, <1>3, <1>4, <3>1, ElementOfSeq
    <3>3. got'[asked'[i]] = got[asked[i]]
        BY <1>1, <1>6, <3>2
    <3>. QED
        BY <3>1, <3>3 DEF ReadersServed, CallsMeetLinesInOrder
  <2>. QED
      BY <2>1, <2>2
<1>. HIDE DEF A, B, P, W
(* a rejection, or the end: nothing was left in the buffer *)
<1>7. CASE /\ ended /\ buffer = <<>> /\ UNCHANGED <<buffer, waiters>>
           /\ \E result \in {EndOfLines, Rejected} : got' = [got EXCEPT ![r] = result]
  <2>1. PICK result \in {EndOfLines, Rejected} : got' = [got EXCEPT ![r] = result]
      BY <1>7
  <2>2. result \in NextResults(Seq(Bytes)) /\ result.tag # "line"
      BY DEF EndOfLines, Rejected, NextResults
  <2>3. got' \in [Readers -> NextResults(Seq(Bytes))]
      BY <1>1, <2>1, <2>2
  <2>4. CallsMeetLinesInOrder'
      BY <1>6, <2>1, <2>2
  <2>5. ReaderTypes'
      BY <1>1, <1>3, <1>4, <1>7, <2>3 DEF ReaderTypes
  <2>. QED
      BY <1>3, <1>5, <1>7, <2>4, <2>5 DEF ReadersServed
(* a line from the buffer *)
<1>8. CASE /\ ~failure /\ buffer # <<>> /\ UNCHANGED waiters
           /\ got' = [got EXCEPT ![r] = Value(Head(buffer))] /\ buffer' = Tail(buffer)
  <2>1. waiters = <<>> /\ Matched
      BY <1>8 DEF ReadersServed
  <2>2. W = 0
      BY <2>1, EmptySeq DEF W
  <2>3. /\ Head(buffer) = buffer[1] /\ B > 0
        /\ Tail(buffer) \in Seq(Seq(Bytes)) /\ Len(Tail(buffer)) = B - 1
        /\ \A i \in 1 .. B - 1 : Tail(buffer)[i] = buffer[i + 1]
    <3>1. /\ Tail(buffer) \in Seq(Seq(Bytes)) /\ Len(Tail(buffer)) = B - 1
          /\ \A i \in 1 .. Len(Tail(buffer)) : Tail(buffer)[i] = buffer[i + 1]
        BY <1>1, <1>8, HeadTailProperties DEF B
    <3>2. B > 0
        BY <1>1, <1>2, <1>8, EmptySeq DEF B
    <3>3. Head(buffer) = buffer[1]
        BY <1>1, <1>8
    <3>. QED
        BY <3>1, <3>2, <3>3
  <2>4. A + B = P /\ \A i \in 1 .. B : buffer[i] = published[A + i]
    <3>1. A + B = P + W /\ \A i \in 1 .. B : buffer[i] = published[A + i]
        BY <2>1 DEF Matched, A, B, P, W
    <3>. QED
        BY <1>2, <2>2, <3>1
  <2>5. A + 1 <= P /\ Head(buffer) = published[A + 1] /\ 1 \in 1 .. B
      BY <1>2, <2>3, <2>4
  <2>6. Value(Head(buffer)).line = Head(buffer) /\ Value(Head(buffer)).tag = "line"
      BY DEF Value
  <2>7. Head(buffer) \in Seq(Bytes)
      BY <1>1, <1>8, HeadTailProperties
  <2>8. Value(Head(buffer)) \in NextResults(Seq(Bytes))
      BY <2>7 DEF Value, NextResults
  <2>9. got' \in [Readers -> NextResults(Seq(Bytes))]
      BY <1>1, <1>8, <2>8
  <2>10. CallsMeetLinesInOrder'
    <3>. DEFINE v == Value(Head(buffer))
    <3>1. v \in NextResults(Seq(Bytes)) /\ got' = [got EXCEPT ![r] = v]
        BY <1>8, <2>8
    <3>2. A + 1 <= P /\ v.line = published[A + 1]
        BY <2>5, <2>6
    <3>. HIDE DEF v
    <3>. QED
        BY <1>6, <3>1, <3>2
  <2>11. ReaderTypes'
      BY <1>1, <1>3, <1>4, <1>8, <2>3, <2>9 DEF ReaderTypes
  <2>12. Matched'
    <3>1. Len(waiters') = 0 /\ Len(buffer') = B - 1 /\ Len(published') = P
        BY <1>3, <1>8, <2>2, <2>3 DEF W, P
    <3>2. (A + 1) + (B - 1) = P + 0
        BY <1>2, <2>4
    <3>3. ASSUME NEW i \in 1 .. B - 1
          PROVE  buffer'[i] = published'[(A + 1) + i]
      <4>1. i + 1 \in 1 .. B /\ A + (i + 1) = (A + 1) + i
          BY <1>2
      <4>. QED
          BY <1>3, <1>8, <2>3, <2>4, <4>1
    <3>. QED
        BY <1>4, <3>1, <3>2, <3>3 DEF Matched, A
  <2>. QED
      BY <1>3, <1>5, <1>8, <2>1, <2>10, <2>11, <2>12 DEF ReadersServed
(* nothing to read yet: the call waits *)
<1>9. CASE /\ ~failure /\ buffer = <<>> /\ ~ended
           /\ waiters' = Append(waiters, r) /\ UNCHANGED <<buffer, got>>
  <2>1. Matched /\ B = 0
      BY <1>9, EmptySeq DEF ReadersServed, B
  <2>2. A = P + W /\ \A i \in 1 .. W : waiters[i] = asked[P + i] /\ P + i \in 1 .. A
    <3>1. A + B = P + W /\ \A i \in 1 .. W : waiters[i] = asked[P + i]
        BY <2>1 DEF Matched, A, B, P, W
    <3>. QED
        BY <1>2, <2>1, <3>1
  <2>3. /\ waiters' \in Seq(Readers) /\ Len(waiters') = W + 1 /\ waiters'[W + 1] = r
        /\ \A i \in 1 .. W : waiters'[i] = waiters[i]
      BY <1>1, <1>2, <1>9, AppendProperties DEF W
  <2>4. Matched'
    <3>1. Len(asked') = A + 1 /\ Len(buffer') = 0 /\ Len(published') = P
        BY <1>3, <1>4, <1>9, <2>1 DEF A, B, P
    <3>2. (A + 1) + 0 = P + (W + 1)
        BY <1>2, <2>2
    <3>3. ASSUME NEW i \in 1 .. W + 1
          PROVE  waiters'[i] = asked'[P + i]
      <4>1. CASE i = W + 1
        <5>1. P + i = A + 1
            BY <1>2, <2>2, <4>1
        <5>. QED
            BY <1>4, <2>3, <4>1, <5>1 DEF A
      <4>2. CASE i # W + 1
        <5>1. i \in 1 .. W
            BY <1>2, <4>2
        <5>. QED
            BY <1>4, <2>2, <2>3, <5>1 DEF A
      <4>. QED
          BY <4>1, <4>2
    <3>. QED
        BY <2>3, <3>1, <3>2, <3>3 DEF Matched
  <2>5. CallsMeetLinesInOrder'
    <3>1. NoResult.tag # "line" /\ NoResult \in NextResults(Seq(Bytes))
        BY DEF NoResult, NextResults
    <3>2. got' = [got EXCEPT ![r] = NoResult]
        BY <1>1, <1>3, <1>9
    <3>. QED
        BY <1>6, <3>1, <3>2
  <2>6. ReaderTypes'
      BY <1>1, <1>3, <1>4, <1>9, <2>3 DEF ReaderTypes
  <2>. QED
      BY <1>3, <1>5, <1>9, <2>4, <2>5, <2>6 DEF ReadersServed
<1>10. failure => ended /\ buffer = <<>>
    BY DEF ReadersServed
<1>11. pull(r)
    BY DEF next
<1>. QED
    BY <1>7, <1>8, <1>9, <1>10, <1>11 DEF pull

-----------------------------------------------------------------------------
(* The transport *)

(* What a step of any transport does to its stream *)
StreamStep ==
    \/ \E chunk \in Seq(Bytes) : onData(chunk)
    \/ onEnd
    \/ onClose
    \/ \E r \in Readers : next(r)

(* The bounded events of the model are sequences of bytes. *)
LEMMA EventsAreBytes ==
    ASSUME NEW n \in Nat, NEW chunk \in SeqOf(Bytes, n)
    PROVE  chunk \in Seq(Bytes)
<1>1. PICK m \in 0 .. n : chunk \in [1 .. m -> Bytes]
    BY DEF SeqOf
<1>. QED
    BY <1>1

(* Every step of a transport is a step of its stream or leaves it alone. *)
LEMMA StreamSteps == [TransportNext]_allVars => StreamStep \/ UNCHANGED streamVars
<1>. SUFFICES ASSUME [TransportNext]_allVars
              PROVE  StreamStep \/ UNCHANGED streamVars
    OBVIOUS
<1>1. CASE kind = "stream" /\ Next
  <2>1. MaxChunk \in Nat
      BY Bounds
  <2>. QED
      BY <1>1, <2>1, EventsAreBytes DEF Next, StreamStep
<1>2. CASE StreamEvent
  <2>1. MaxTransportBytes \in Nat
      BY TransportBounds
  <2>. QED
      BY <1>2, <2>1, EventsAreBytes DEF StreamEvent, StreamStep
<1>3. CASE Read
    BY <1>3 DEF Read, StreamStep
<1>4. CASE Connected \/ ConnectFails
    BY <1>4 DEF Connected, ConnectFails, FramingHearsClose, StreamStep
<1>5. CASE SecureConnect \/ HandshakeError \/ HandshakeTimer
    BY <1>5 DEF SecureConnect, HandshakeError, HandshakeTimer
<1>6. CASE ChildExits \/ ChildClosed
    BY <1>6 DEF ChildExits, ChildClosed
<1>7. CASE SocketLost \/ SocketClosed
    BY <1>7 DEF SocketLost, SocketClosed, FramingHearsClose, StreamStep
<1>8. CASE OwnerCloses \/ FramingCloses
    BY <1>8 DEF OwnerCloses, FramingCloses, Close
<1>9. CASE waitForExit \/ TlsCloseEnds
    BY <1>9 DEF waitForExit, TlsCloseEnds
<1>10. CASE UNCHANGED allVars
    BY <1>10 DEF allVars
<1>. QED
    BY <1>1, <1>2, <1>3, <1>4, <1>5, <1>6, <1>7, <1>8, <1>9, <1>10 DEF TransportNext

(* The framing and the readers together, at every step of the stream *)
LEMMA StreamStepKeepsInv ==
    ASSUME StreamInv, StreamStep \/ UNCHANGED streamVars
    PROVE  StreamInv'
<1>1. FramingInv /\ ReaderTypes /\ ReadersServed /\ FramingTypes
    BY DEF StreamInv, FramingInv
<1>2. published \in Seq(Seq(Bytes)) /\ pending \in Seq(Bytes) /\ terminal \in BOOLEAN
    BY <1>1 DEF FramingTypes
<1>3. ended = terminal
    BY <1>1 DEF ReadersServed
<1>4. ASSUME NEW chunk \in Seq(Bytes), onData(chunk)
      PROVE  StreamInv'
  <2>1. ~terminal /\ ~ended /\ stream' = stream \o chunk /\ asked' = asked
      BY <1>3, <1>4 DEF onData
  <2>2. CASE Publish(chunk)
    <3>1. FramingInv'
        BY <1>1, <2>1, <2>2, PublishKeepsFraming
    <3>. DEFINE d == pending \o chunk
                lines == Decoded(d)
    <3>2. d \in Seq(Bytes)
        BY <1>2, ConcatProperties
    <3>3. emitAll(lines) /\ published' = published \o lines /\ terminal' = terminal
        BY <2>2 DEF Publish, Decoded
    <3>. HIDE DEF d
    <3>4. lines \in Seq(Seq(Bytes))
        BY <3>2, DecodedAre
    <3>. HIDE DEF lines
    <3>5. ReaderTypes' /\ ReadersServed'
        BY <1>1, <1>2, <2>1, <3>3, <3>4, EmitAllServes
    <3>. QED
        BY <3>1, <3>5 DEF StreamInv
  <2>3. CASE Violation(chunk)
    <3>1. FramingInv'
        BY <1>1, <2>1, <2>3, ViolationKeepsFraming
    <3>2. fail /\ terminal' = TRUE /\ UNCHANGED <<published, asked>>
        BY <2>1, <2>3 DEF Violation, stop
    <3>3. ReaderTypes' /\ ReadersServed'
        BY <1>1, <2>1, <3>2, StoppingServes
    <3>. QED
        BY <3>1, <3>3 DEF StreamInv
  <2>. QED
      BY <1>4, <2>2, <2>3 DEF onData
<1>5. CASE onEnd \/ onClose
  <2>1. /\ ~terminal /\ ~ended /\ terminal' = TRUE
        /\ finish \/ fail
        /\ UNCHANGED <<stream, accepted, published, asked>>
        /\ pending' = pending \/ pending' = <<>>
        /\ onFatal' = onFatal \/ onFatal' = TRUE
      BY <1>3, <1>5 DEF onEnd, onClose, stop, history
  <2>2. onFatal' \in BOOLEAN
      BY <1>1, <2>1 DEF FramingTypes
  <2>3. FramingInv'
      BY <1>1, <2>1, <2>2, HistoryStands
  <2>4. ReaderTypes' /\ ReadersServed'
      BY <1>1, <2>1, StoppingServes
  <2>. QED
      BY <2>3, <2>4 DEF StreamInv
<1>6. ASSUME NEW r \in Readers, next(r)
      PROVE  StreamInv'
  <2>1. UNCHANGED <<stream, accepted, published, terminal, pending, onFatal>>
      BY <1>6 DEF next, framingVars
  <2>2. FramingInv'
      BY <1>1, <2>1, HistoryStands DEF FramingTypes
  <2>3. ReaderTypes' /\ ReadersServed'
      BY <1>1, <1>2, <1>6, NextServes
  <2>. QED
      BY <2>2, <2>3 DEF StreamInv
<1>7. CASE UNCHANGED streamVars
  <2>1. /\ UNCHANGED <<stream, accepted, published, asked, terminal, pending, onFatal>>
        /\ UNCHANGED <<buffer, waiters, ended, failure, got>>
      BY <1>7 DEF streamVars, framingVars, history, iteratorVars
  <2>2. FramingInv'
      BY <1>1, <2>1, HistoryStands DEF FramingTypes
  <2>3. ReaderTypes'
      BY <1>1, <2>1 DEF ReaderTypes
  <2>4. ReadersServed'
      BY <1>1, <2>1 DEF ReadersServed, Matched, AskedOnce, CallsMeetLinesInOrder
  <2>. QED
      BY <2>2, <2>3, <2>4 DEF StreamInv
<1>. QED
    BY <1>4, <1>5, <1>6, <1>7 DEF StreamStep

(* The framing and the readers of every transport keep the invariant. *)
LEMMA StreamInvHolds == TransportSpec => []StreamInv
<1>1. TransportInit => StreamInv
    BY FramingInit, ReadersInit DEF TransportInit, StreamInv
<1>2. StreamInv /\ [TransportNext]_allVars => StreamInv'
    BY StreamSteps, StreamStepKeepsInv
<1>. QED
    BY <1>1, <1>2, PTL DEF TransportSpec

(* attachProtocolFraming: for every byte stream, every limit and every way  *)
(* of cutting the stream into data events, the lines published are the      *)
(* lines of the stream, an event is refused exactly when the bytes so far   *)
(* leave the protocol, and no more than a line and its CR is retained.      *)
THEOREM FramingIgnoresCuts == TransportSpec => []CutsDoNotMatter
<1>1. StreamInv => CutsDoNotMatter
    BY DEF StreamInv, FramingInv
<1>. QED
    BY <1>1, StreamInvHolds, PTL

(* lineIterator: for any number of next() calls, made before or after the   *)
(* lines come, the i-th settles with the i-th line, with the end or with    *)
(* the failure, and none is left waiting for a stream that has stopped.     *)
THEOREM ReadersAreServed == TransportSpec => []CallsServed
<1>1. StreamInv => CallsServed
  <2>. SUFFICES ASSUME StreamInv
                PROVE  CallsServed
      OBVIOUS
  <2>1. CallsMeetLinesInOrder /\ (waiters # <<>> => ~terminal /\ buffer = <<>>)
      BY DEF StreamInv, ReadersServed
  <2>. QED
      BY <2>1 DEF CallsServed, CallsNeverStranded
<1>. QED
    BY <1>1, StreamInvHolds, PTL

(* Every variable of the framing and its readers keeps to its type. *)
THEOREM StreamTypes == TransportSpec => []TypeOK
<1>1. StreamInv => TypeOK
    BY DEF StreamInv, FramingInv, FramingTypes, ReaderTypes, TypeOK
<1>. QED
    BY <1>1, StreamInvHolds, PTL

-----------------------------------------------------------------------------
(* The peer.  A process or socket that is gone stays gone, and a child that *)
(* has closed stays closed, so what close() or the handshake has seen       *)
(* remains true.                                                            *)
PeerReleased ==
    /\ closer = "returned" => Gone /\ (kind = "child" => peer = "closed")
    /\ ready = "rejected" => Gone

PeerInv == kind \in Kinds /\ PeerReleased

(* Every step of a transport keeps that. *)
LEMMA PeerStep == PeerInv /\ [TransportNext]_allVars => PeerInv'
<1>. SUFFICES ASSUME PeerInv, [TransportNext]_allVars
              PROVE  PeerInv'
    OBVIOUS
<1>. USE DEF PeerInv, PeerReleased, Gone
<1>1. CASE UNCHANGED transportVars
    BY <1>1 DEF transportVars
<1>2. CASE Connected \/ ConnectFails \/ HandshakeError \/ HandshakeTimer
    BY <1>2 DEF Connected, ConnectFails, HandshakeError, HandshakeTimer, Settles
<1>3. CASE SecureConnect
  <2>1. Settles("resolved", "up") \/ Settles("rejected", "over")
      BY <1>3 DEF SecureConnect
  <2>. QED
      BY <2>1 DEF Settles
<1>4. CASE ChildExits \/ ChildClosed
    BY <1>4 DEF ChildExits, ChildClosed
<1>5. CASE SocketLost \/ SocketClosed
    BY <1>5 DEF SocketLost, SocketClosed
<1>6. CASE OwnerCloses \/ FramingCloses
  <2>1. PICK c : Close(c)
      BY <1>6 DEF OwnerCloses, FramingCloses
  <2>2. kind # "stream" /\ onceCloser /\ UNCHANGED <<kind, ready>>
      BY <2>1 DEF Close
  <2>3. CASE closer = "idle"
    <3>1. kind \in {"child", "socket", "tls"} /\ BeginClose
        BY <2>2, <2>3 DEF onceCloser, Kinds
    <3>. QED
        BY <2>2, <2>3, <3>1 DEF BeginClose
  <2>4. CASE closer # "idle"
      BY <2>2, <2>4 DEF onceCloser
  <2>. QED
      BY <2>3, <2>4
<1>7. CASE waitForExit
    BY <1>7 DEF waitForExit, Escalation
<1>8. CASE TlsCloseEnds
    BY <1>8 DEF TlsCloseEnds
<1>. QED
    BY <1>1, <1>2, <1>3, <1>4, <1>5, <1>6, <1>7, <1>8
    DEF TransportNext, StreamEvent, Read, allVars

(* spawnMirror, connectMirror, connectTlsMirror: close() has returned only  *)
(* when the process has closed or the socket is destroyed, whatever signal, *)
(* timer or other close came between, and a connection that was refused     *)
(* leaves no open socket: the safety half of CloseReleasesPeer.             *)
THEOREM ReturnedMeansReleased == TransportSpec => []PeerReleased
<1>1. TransportInit => PeerInv
    BY DEF TransportInit, PeerInv, PeerReleased, Kinds
<1>2. PeerInv => PeerReleased
    BY DEF PeerInv
<1>. QED
    BY <1>1, <1>2, PeerStep, PTL DEF TransportSpec

-----------------------------------------------------------------------------
(* The exploration session reads the same iterator, without a queue of its  *)
(* own: a command writes its request and asks for the reply in one step, so *)
(* the requests the mirror owes an answer and the next() calls that wait    *)
(* are the same calls in the same order, and no line is ever buffered.      *)
InStep ==
    /\ buffer = <<>>
    /\ failure => ended
    /\ ended => waiters = <<>>
    /\ ~ended => requests = waiters

(* A session that is closed, or has a call on the way to an error, has      *)
(* called close() on its transport.                                         *)
ClosesTransport ==
    /\ closed => transport # "open"
    /\ \A c \in Calls : pc[c] \in {"aborting", "ending"} => closed
    /\ FailureClosesTransport

SessionInv == SessionTypeOK /\ InStep /\ CommandsPaired /\ ClosesTransport

-----------------------------------------------------------------------------
(* Nothing is sent or asked for before open() has its transport. *)
LEMMA SessionStarts == SessionInit => SessionInv
<1> SUFFICES ASSUME SessionInit PROVE SessionInv
  OBVIOUS
<1> USE DEF SessionInit, IteratorInit
<1>2. SessionTypeOK
  <2>1. NoResult \in NextResults(Lines)
    BY DEF NoResult, NextResults
  <2>2. got \in [Readers -> NextResults(Lines)]
    BY <2>1
  <2>3. buffer \in Seq(Lines) /\ waiters \in Seq(Readers) /\ requests \in Seq(Readers)
    OBVIOUS
  <2>4. method \in [Calls -> {"none", "cmd", "done"}]
        /\ pc \in [Calls -> {"idle", "waiting", "aborting", "ending", "settled"}]
        /\ outcome \in [Calls -> {"none", "ok", "error", "closed", "unsent"}]
    OBVIOUS
  <2>5. QED
    BY <2>2, <2>3, <2>4 DEF SessionTypeOK
<1>3. InStep /\ CommandsPaired /\ ClosesTransport
  BY DEF InStep, CommandsPaired, NoResult, ClosesTransport, FailureClosesTransport
<1>4. QED
  BY <1>2, <1>3 DEF SessionInv

(* Settling some calls without a line pairs nothing wrongly. *)
LEMMA SettlingIsPaired ==
    ASSUME SessionInv, NEW result \in {EndOfLines, Rejected},
           NEW S, got' = [r \in Readers |-> IF r \in S THEN result ELSE got[r]]
    PROVE  got' \in [Readers -> NextResults(Lines)] /\ CommandsPaired'
<1>1. result \in NextResults(Lines) /\ result.tag # "line"
  BY DEF EndOfLines, Rejected, NextResults
<1>2. ASSUME NEW r \in Readers
      PROVE  got'[r] \in NextResults(Lines) /\ (got'[r].tag = "line" => got'[r].line.to = r)
  BY <1>1 DEF SessionInv, SessionTypeOK, CommandsPaired
<1>3. QED
  BY <1>2 DEF CommandsPaired

(* A step of a call, of open() or of the closing transport, which leaves    *)
(* the iterator and the wire alone                                          *)
LEMMA IteratorAlone ==
    ASSUME SessionInv, UNCHANGED <<iteratorVars, requests>>
    PROVE  InStep' /\ CommandsPaired'
BY DEF SessionInv, InStep, CommandsPaired, iteratorVars

(* A step of the wire, which leaves the session alone *)
LEMMA SessionAlone ==
    ASSUME SessionInv, UNCHANGED sessionVars,
           UNCHANGED transport \/ transport' \in {"closed", "unconfirmed"}
             \/ (transport = "open" /\ transport' = "closing")
    PROVE  ClosesTransport'
BY DEF SessionInv, ClosesTransport, FailureClosesTransport, CloseSettled, sessionVars

(* A request and the next() call for its reply, made in one step *)
LEMMA AskingIsPaired ==
    ASSUME SessionInv, NEW c \in Readers, pull(c),
           requests' = IF ended THEN requests ELSE Append(requests, c)
    PROVE  /\ InStep' /\ CommandsPaired'
           /\ buffer' \in Seq(Lines) /\ waiters' \in Seq(Readers)
           /\ ended' \in BOOLEAN /\ failure' \in BOOLEAN
           /\ got' \in [Readers -> NextResults(Lines)] /\ requests' \in Seq(Readers)
<1> USE DEF SessionInv
<1>1. UNCHANGED <<ended, failure>>
  BY DEF pull
<1>2. CASE ended
  <2>1. PICK result \in {EndOfLines, Rejected} :
           got' = [got EXCEPT ![c] = result] /\ UNCHANGED <<buffer, waiters>>
    BY <1>2 DEF pull, InStep
  <2>2. got' = [r \in Readers |-> IF r \in {c} THEN result ELSE got[r]]
    BY <2>1 DEF SessionTypeOK
  <2>3. got' \in [Readers -> NextResults(Lines)] /\ CommandsPaired'
    BY <2>2, SettlingIsPaired
  <2>4. QED
    BY <1>1, <1>2, <2>1, <2>3 DEF SessionTypeOK, InStep
<1>3. CASE ~ended
  <2>1. /\ waiters' = Append(waiters, c) /\ requests' = Append(requests, c)
        /\ UNCHANGED <<buffer, got>>
    BY <1>3 DEF pull, InStep
  <2>2. QED
    BY <1>1, <1>3, <2>1 DEF SessionTypeOK, InStep, CommandsPaired
<1>4. QED
  BY <1>2, <1>3 DEF SessionTypeOK

(* Every step keeps the invariant. *)
LEMMA SessionStep == SessionInv /\ [SessionNext]_exploreVars => SessionInv'
<1> SUFFICES ASSUME SessionInv, [SessionNext]_exploreVars PROVE SessionInv'
  OBVIOUS
<1> USE DEF SessionInv
<1>1. CASE open
  <2> USE <1>1 DEF open
  <2>1. CASE Register
    <3>1. Opener \in Readers
      BY OpenerReads
    <3>2. InStep' /\ CommandsPaired' /\ SessionTypeOK'
      BY <2>1, <3>1, AskingIsPaired DEF Register, SessionTypeOK
    <3>3. ClosesTransport'
      BY <2>1 DEF Register, SessionTypeOK, ClosesTransport, FailureClosesTransport
    <3>4. QED
      BY <3>2, <3>3
  <2>2. CASE UNCHANGED <<iteratorVars, requests>> /\ (NotOpened \/ NotReady)
    <3>1. InStep' /\ CommandsPaired'
      BY <2>2, IteratorAlone
    <3>2. opened' = "failing" /\ StartClosing
      BY <2>2 DEF NotOpened, NotReady
    <3>3. SessionTypeOK'
      BY <2>2, <3>2 DEF SessionTypeOK, iteratorVars, StartClosing
    <3>4. ClosesTransport'
      BY <3>2 DEF SessionTypeOK, ClosesTransport, FailureClosesTransport, StartClosing
    <3>5. QED
      BY <3>1, <3>3, <3>4
  <2>3. CASE UNCHANGED <<iteratorVars, requests>> /\ (Ready \/ OpenThrows)
    <3>1. InStep' /\ CommandsPaired'
      BY <2>3, IteratorAlone
    <3>2. UNCHANGED transport /\ (opened' = "open" \/ (opened' = "failed" /\ CloseSettled))
      BY <2>3 DEF Ready, OpenThrows
    <3>3. SessionTypeOK'
      BY <2>3, <3>2 DEF SessionTypeOK, iteratorVars
    <3>4. ClosesTransport'
      BY <3>2 DEF SessionTypeOK, ClosesTransport, FailureClosesTransport, CloseSettled
    <3>5. QED
      BY <3>1, <3>3, <3>4
  <2>4. QED
    BY <2>1, <2>2, <2>3 DEF NotOpened
<1>2. ASSUME NEW reply \in Replies, MirrorAnswers(reply) PROVE SessionInv'
  <2> USE <1>2 DEF MirrorAnswers
  <2> DEFINE r == Head(requests)
             line == [to |-> r, reply |-> reply]
  <2>1. /\ ~ended /\ requests # <<>> /\ waiters = requests /\ requests \in Seq(Readers)
    BY DEF InStep, SessionTypeOK
  <2>2. r \in Readers /\ Tail(requests) \in Seq(Readers)
    BY <2>1
  <2>3. /\ got' = [got EXCEPT ![r] = Value(line)] /\ waiters' = Tail(requests)
        /\ requests' = Tail(requests) /\ UNCHANGED <<buffer, ended, failure>>
    BY <2>1 DEF emit
  <2>4. Value(line) \in NextResults(Lines)
    BY <2>2 DEF Value, NextResults, Lines
  <2>5. ASSUME NEW q \in Readers PROVE got'[q].tag = "line" => got'[q].line.to = q
    BY <2>2, <2>3 DEF CommandsPaired, Value, SessionTypeOK
  <2>6. SessionTypeOK'
    <3> HIDE DEF line, r
    <3>1. got' \in [Readers -> NextResults(Lines)]
      BY <2>2, <2>3, <2>4 DEF SessionTypeOK
    <3>2. QED
      BY <2>2, <2>3, <3>1 DEF SessionTypeOK, sessionVars
  <2>7. InStep'
    BY <2>1, <2>3 DEF InStep
  <2>8. ClosesTransport'
    BY SessionAlone
  <2>9. QED
    BY <2>5, <2>6, <2>7, <2>8 DEF CommandsPaired
<1>3. CASE StreamEnds
  <2> USE <1>3 DEF StreamEnds, finish, SettleWaiters
  <2> DEFINE S == {r \in Readers : Waiting(r)}
  <2>1. got' = [r \in Readers |-> IF r \in S THEN EndOfLines ELSE got[r]]
    OBVIOUS
  <2> HIDE DEF S
  <2>2. got' \in [Readers -> NextResults(Lines)] /\ CommandsPaired'
    BY <2>1, SettlingIsPaired
  <2>3. ended' /\ waiters' = <<>> /\ UNCHANGED <<buffer, failure, requests, transport,
         sessionVars>>
    BY DEF wireVars
  <2>4. ClosesTransport'
    BY <2>3, SessionAlone
  <2>5. QED
    BY <2>2, <2>3, <2>4 DEF SessionTypeOK, InStep, sessionVars
<1>4. CASE FramingFails
  <2> USE <1>4 DEF FramingFails, fail, SettleWaiters
  <2> DEFINE S == {r \in Readers : Waiting(r)}
  <2>1. got' = [r \in Readers |-> IF r \in S THEN Rejected ELSE got[r]]
    OBVIOUS
  <2> HIDE DEF S
  <2>2. got' \in [Readers -> NextResults(Lines)] /\ CommandsPaired'
    BY <2>1, SettlingIsPaired
  <2>3. ended' /\ waiters' = <<>> /\ buffer' = <<>> /\ failure'
        /\ UNCHANGED <<requests, sessionVars>>
    OBVIOUS
  <2>4. UNCHANGED transport \/ (transport = "open" /\ transport' = "closing")
    BY DEF StartClosing
  <2>5. ClosesTransport'
    BY <2>3, <2>4, SessionAlone
  <2>6. transport' \in {"open", "closing", "closed", "unconfirmed"}
    BY <2>4 DEF SessionTypeOK
  <2>7. QED
    BY <2>2, <2>3, <2>5, <2>6 DEF SessionTypeOK, InStep, sessionVars
<1>5. CASE TransportCloses
  <2> USE <1>5 DEF TransportCloses
  <2>1. InStep' /\ CommandsPaired'
    BY IteratorAlone
  <2>2. SessionTypeOK'
    BY DEF SessionTypeOK, iteratorVars, sessionVars
  <2>3. ClosesTransport'
    BY SessionAlone
  <2>4. QED
    BY <2>1, <2>2, <2>3
<1>6. ASSUME NEW c \in Calls, NEW m \in {"cmd", "done"}, CallOnClosed(c, m) PROVE SessionInv'
  <2> USE <1>6 DEF CallOnClosed, wireVars
  <2>1. InStep' /\ CommandsPaired'
    BY IteratorAlone
  <2>2. SessionTypeOK'
    BY DEF SessionTypeOK, iteratorVars, SettleCall
  <2>3. ClosesTransport'
    BY DEF SessionTypeOK, ClosesTransport, FailureClosesTransport, CloseSettled, SettleCall
  <2>4. QED
    BY <2>1, <2>2, <2>3
<1>7. ASSUME NEW c \in Calls, CallUnsent(c) PROVE SessionInv'
  <2> USE <1>7 DEF CallUnsent, wireVars
  <2>1. InStep' /\ CommandsPaired'
    BY IteratorAlone
  <2>2. SessionTypeOK'
    BY DEF SessionTypeOK, iteratorVars, SettleCall
  <2>3. ClosesTransport'
    BY DEF SessionTypeOK, ClosesTransport, FailureClosesTransport, CloseSettled, SettleCall
  <2>4. QED
    BY <2>1, <2>2, <2>3
<1>8. ASSUME NEW c \in Calls, NEW m \in {"cmd", "done"}, cmd(c, m) PROVE SessionInv'
  <2> USE <1>8 DEF cmd
  <2>1. c \in Readers /\ UNCHANGED <<opened, closed, outcome, transport>>
    BY DEF Calls
  <2>2. ClosesTransport'
    BY <2>1 DEF SessionTypeOK, ClosesTransport, FailureClosesTransport, CloseSettled
  <2>3. InStep' /\ CommandsPaired' /\ SessionTypeOK'
    BY <2>1, AskingIsPaired DEF SessionTypeOK
  <2>4. QED
    BY <2>2, <2>3
<1>9. ASSUME NEW c \in Calls, Resume(c) PROVE SessionInv'
  <2> USE <1>9 DEF Resume
  <2>1. InStep' /\ CommandsPaired'
    BY IteratorAlone
  <2>2. SessionTypeOK'
    BY DEF SessionTypeOK, iteratorVars, ReplyRight, ReplyWrong, abort, SettleCall,
           StartClosing
  <2>3. ClosesTransport'
    <3>1. CASE ReplyRight(c) /\ method[c] = "cmd"
      BY <3>1 DEF ReplyRight, SessionTypeOK, ClosesTransport, FailureClosesTransport,
             CloseSettled, SettleCall
    <3>2. CASE ReplyRight(c) /\ method[c] = "done"
      BY <3>2 DEF ReplyRight, SessionTypeOK, ClosesTransport, FailureClosesTransport,
             CloseSettled, StartClosing
    <3>3. CASE ReplyWrong(c) /\ closed
      BY <3>3 DEF ReplyWrong, abort, SessionTypeOK, ClosesTransport,
             FailureClosesTransport, CloseSettled, SettleCall
    <3>4. CASE ReplyWrong(c) /\ ~closed
      BY <3>4 DEF ReplyWrong, abort, SessionTypeOK, ClosesTransport,
             FailureClosesTransport, CloseSettled, StartClosing
    <3>5. QED
      BY <3>1, <3>2, <3>3, <3>4 DEF ReplyRight
  <2>4. QED
    BY <2>1, <2>2, <2>3
<1>10. ASSUME NEW c \in Calls, Leave(c) PROVE SessionInv'
  <2> USE <1>10 DEF Leave, wireVars
  <2>1. InStep' /\ CommandsPaired'
    BY IteratorAlone
  <2>2. SessionTypeOK'
    BY DEF SessionTypeOK, iteratorVars, SettleCall
  <2>3. ClosesTransport'
    BY DEF SessionTypeOK, ClosesTransport, FailureClosesTransport, CloseSettled, SettleCall
  <2>4. QED
    BY <2>1, <2>2, <2>3
<1>11. CASE UNCHANGED exploreVars
  <2>1. InStep' /\ CommandsPaired'
    BY <1>11, IteratorAlone DEF exploreVars, wireVars
  <2>2. ClosesTransport'
    BY <1>11, SessionAlone DEF exploreVars, wireVars
  <2>3. SessionTypeOK'
    BY <1>11 DEF SessionTypeOK, exploreVars, iteratorVars, sessionVars, wireVars
  <2>4. QED
    BY <2>1, <2>2, <2>3
<1>12. QED
  BY <1>1, <1>2, <1>3, <1>4, <1>5, <1>6, <1>7, <1>8, <1>9, <1>10, <1>11 DEF SessionNext

(* The inductive invariant holds. *)
LEMMA SessionInvHolds == SessionSpec => []SessionInv
BY SessionStarts, SessionStep, PTL DEF SessionSpec

(* Every variable of the session keeps to its type. *)
THEOREM SessionTypes == SessionSpec => []SessionTypeOK
<1>1. SessionInv => SessionTypeOK
  BY DEF SessionInv
<1>2. QED
  BY <1>1, SessionInvHolds, PTL

(* cmd: for any number of pipelined commands, and wherever the stream ends  *)
(* or fails between them, each reads the reply to its own request.          *)
THEOREM PipelinedCommandsPaired == SessionSpec => []CommandsPaired
<1>1. SessionInv => CommandsPaired
  BY DEF SessionInv
<1>2. QED
  BY <1>1, SessionInvHolds, PTL

(* abort and open: by the time a call throws, the session is closed and     *)
(* close() has been called on its transport; by the time open() throws,     *)
(* close() has settled.                                                     *)
THEOREM FailuresCloseTransport == SessionSpec => []FailureClosesTransport
<1>1. SessionInv => FailureClosesTransport
  BY DEF SessionInv, ClosesTransport
<1>2. QED
  BY <1>1, SessionInvHolds, PTL
=============================================================================
