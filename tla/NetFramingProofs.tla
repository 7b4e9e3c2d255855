------------------------- MODULE NetFramingProofs --------------------------
(***************************************************************************)
(* read_from_conn cuts a stream as a reader that sees the whole of it      *)
(* would, for every base, header, largest frame and length of stream, and  *)
(* however the bytes arrive; and it never sleeps on bytes it could read.   *)
(***************************************************************************)
EXTENDS NetFraming, SequenceTheorems, WellFoundedInduction, TLAPS

-----------------------------------------------------------------------------
(* Induction and recursive definition on 0 .. n, with a set and a function  *)
(* in the place of a predicate and of an operator.                          *)

\* A set with 0, and with k + 1 for each of its k below n, holds 0 .. n: what a
\* loop that counts to n keeps, it has at the end.
LEMMA Counting ==
  ASSUME NEW n \in Nat, NEW P, 0 \in P, \A k \in 0 .. n - 1 : k \in P => k + 1 \in P
  PROVE  0 .. n \subseteq P
<1> SUFFICES ASSUME NEW k \in 0 .. n, k \notin P PROVE FALSE
  OBVIOUS
<1> DEFINE Bad == {m \in 0 .. n : m \notin P}
<1>1. Bad \subseteq Nat /\ Bad # {}
  OBVIOUS
<1>2. IsWellFoundedOn(OpToRel(<, Nat), Nat)
  BY NatLessThanWellFounded, Zenon
<1>3. PICK m \in Bad : \A j \in Bad : <<j, m>> \notin OpToRel(<, Nat)
  BY <1>1, <1>2, WFMin, Zenon
<1>4. m \in Nat /\ m # 0 /\ m \in 0 .. n
  OBVIOUS
<1>5. m - 1 \in 0 .. n - 1 /\ m - 1 \notin P
  BY <1>4
<1>6. m - 1 \in Bad /\ <<m - 1, m>> \in OpToRel(<, Nat)
  BY <1>4, <1>5 DEF OpToRel
<1> QED
  BY <1>3, <1>6, Zenon

\* A set of turns that has every turn before one of its turns is the first m.
LEMMA Beginning ==
  ASSUME NEW n \in Nat, NEW W \in SUBSET (1 .. n), \A k \in 1 .. n - 1 : k + 1 \in W => k \in W
  PROVE  \E m \in 0 .. n : W = 1 .. m
<1> DEFINE Q(k) == \E m \in 0 .. k : W \cap (1 .. k) = 1 .. m /\ (k \in W => m = k)
           P == {k \in 0 .. n : Q(k)}
<1>1. 0 \in P
  OBVIOUS
<1>2. ASSUME NEW k \in 0 .. n - 1, k \in P PROVE k + 1 \in P
  <2>1. PICK m \in 0 .. k : W \cap (1 .. k) = 1 .. m /\ (k \in W => m = k)
    BY <1>2
  <2>2. k \in Nat /\ k + 1 \in 0 .. n /\ m \in Nat
    OBVIOUS
  <2>3. CASE k + 1 \in W
    <3>1. m = k
      BY <2>1, <2>2, <2>3
    <3>2. W \cap (1 .. k + 1) = 1 .. k + 1
      BY <2>1, <2>2, <2>3, <3>1
    <3> QED
      BY <2>2, <3>2
  <2>4. CASE k + 1 \notin W
    <3>1. W \cap (1 .. k + 1) = 1 .. m
      BY <2>1, <2>2, <2>4
    <3>2. m \in 0 .. k + 1
      BY <2>2
    <3> QED
      BY <2>2, <2>4, <3>1, <3>2
  <2> QED
    BY <2>3, <2>4
<1> HIDE DEF P
<1>3. 0 .. n \subseteq P
  BY <1>1, <1>2, Counting
<1>4. PICK m \in 0 .. n : W \cap (1 .. n) = 1 .. m
  BY <1>3 DEF P
<1> QED
  BY <1>4, Zenon

\* F[k] is the value a loop has built after k of its n turns: base, and g of the
\* turn and the value before.
Builds(F, n, S, base, g) ==
  /\ F \in [0 .. n -> S]
  /\ F[0] = base
  /\ \A k \in 1 .. n : F[k] = g[<<k, F[k - 1]>>]

\* A loop of n turns that starts from base and turns a value of S into another
\* has a result: the recursive function that models it exists.
LEMMA Defining ==
  ASSUME NEW n \in Nat, NEW S, NEW base \in S, NEW g \in [(1 .. n) \X S -> S]
  PROVE  \E F : Builds(F, n, S, base, g)
<1> DEFINE Good(m, F) == F[0] = base /\ \A k \in 1 .. m : F[k] = g[<<k, F[k - 1]>>]
           P == {m \in 0 .. n : \E F \in [0 .. m -> S] : Good(m, F)}
<1>1. 0 \in P
  <2> DEFINE F == [k \in 0 .. 0 |-> base]
  <2>1. F \in [0 .. 0 -> S] /\ F[0] = base
    OBVIOUS
  <2> HIDE DEF F
  <2>2. Good(0, F) /\ 0 \in 0 .. n
    BY <2>1
  <2> QED
    BY <2>1, <2>2
<1>2. ASSUME NEW m \in 0 .. n - 1, m \in P PROVE m + 1 \in P
  <2>1. PICK F \in [0 .. m -> S] : Good(m, F)
    BY <1>2
  <2> DEFINE G == [k \in 0 .. m + 1 |-> IF k <= m THEN F[k] ELSE g[<<m + 1, F[m]>>]]
  <2>2. m \in Nat /\ m + 1 \in 1 .. n /\ F[m] \in S
    OBVIOUS
  <2>3. g[<<m + 1, F[m]>>] \in S
    BY <2>2
  <2>4. G \in [0 .. m + 1 -> S]
    BY <2>2, <2>3
  <2>5. (\A k \in 0 .. m : G[k] = F[k]) /\ G[m + 1] = g[<<m + 1, F[m]>>]
    BY <2>2
  <2> HIDE DEF G
  <2>6. G[0] = base
    BY <2>1, <2>2, <2>5
  <2>7. \A k \in 1 .. m + 1 : G[k] = g[<<k, G[k - 1]>>]
    <3> SUFFICES ASSUME NEW k \in 1 .. m + 1 PROVE G[k] = g[<<k, G[k - 1]>>]
      OBVIOUS
    <3>1. CASE k = m + 1
      BY <2>2, <2>5, <3>1
    <3>2. CASE k \in 1 .. m
      <4>1. k \in 0 .. m /\ k - 1 \in 0 .. m
        BY <2>2, <3>2
      <4> QED
        BY <2>1, <2>5, <3>2, <4>1, Zenon
    <3> QED
      BY <2>2, <3>1, <3>2
  <2> QED
    BY <2>2, <2>4, <2>6, <2>7
<1> HIDE DEF P
<1>3. 0 .. n \subseteq P
  BY <1>1, <1>2, Counting
<1>4. n \in P
  BY <1>3
<1> QED
  BY <1>4 DEF P, Builds

-----------------------------------------------------------------------------
(* Sequences.                                                               *)

\* A part of a sequence, byte by byte.
LEMMA Part ==
  ASSUME NEW S, NEW s \in Seq(S), NEW a \in 1 .. Len(s) + 1, NEW b \in 0 .. Len(s), a <= b + 1
  PROVE  /\ SubSeq(s, a, b) \in Seq(S)
         /\ Len(SubSeq(s, a, b)) = b - a + 1
         /\ DOMAIN SubSeq(s, a, b) = 1 .. b - a + 1
         /\ \A j \in 1 .. b - a + 1 : SubSeq(s, a, b)[j] = s[a + j - 1]
<1>1. Len(s) \in Nat /\ a \in Int /\ b \in Int /\ \A j \in a .. b : s[j] \in S
  OBVIOUS
<1>2. /\ SubSeq(s, a, b) \in Seq(S)
      /\ Len(SubSeq(s, a, b)) = IF a <= b THEN b - a + 1 ELSE 0
      /\ \A j \in 1 .. b - a + 1 : SubSeq(s, a, b)[j] = s[a + j - 1]
  BY <1>1, SubSeqProperties
<1>3. Len(SubSeq(s, a, b)) = b - a + 1
  BY <1>1, <1>2
<1>4. DOMAIN SubSeq(s, a, b) = 1 .. Len(SubSeq(s, a, b))
  BY <1>2, LenProperties
<1> QED
  BY <1>2, <1>3, <1>4

\* The w bytes behind byte o.
LEMMA Slice ==
  ASSUME NEW S, NEW s \in Seq(S), NEW o \in 0 .. Len(s), NEW w \in 0 .. Len(s) - o
  PROVE  /\ SubSeq(s, o + 1, o + w) \in Seq(S) /\ Len(SubSeq(s, o + 1, o + w)) = w
         /\ \A j \in 1 .. w : SubSeq(s, o + 1, o + w)[j] = s[o + j]
<1> DEFINE t == SubSeq(s, o + 1, o + w)
<1>1. Len(s) \in Nat /\ o \in Nat /\ w \in Nat /\ o + w <= Len(s)
  OBVIOUS
<1>2. o + 1 \in 1 .. Len(s) + 1 /\ o + w \in 0 .. Len(s) /\ o + 1 <= (o + w) + 1
  BY <1>1
<1>3. /\ t \in Seq(S) /\ Len(t) = (o + w) - (o + 1) + 1
      /\ \A j \in 1 .. (o + w) - (o + 1) + 1 : t[j] = s[(o + 1) + j - 1]
  BY <1>2, Part
<1> HIDE DEF t
<1>4. (o + w) - (o + 1) + 1 = w /\ \A j \in 1 .. w : (o + 1) + j - 1 = o + j
  BY <1>1
<1>5. Len(t) = w /\ \A j \in 1 .. w : t[j] = s[o + j]
  BY <1>3, <1>4, Zenon
<1> QED
  BY <1>3, <1>5 DEF t

\* All bytes behind byte o.
LEMMA Behind ==
  ASSUME NEW S, NEW s \in Seq(S), NEW o \in 0 .. Len(s)
  PROVE  /\ SubSeq(s, o + 1, Len(s)) \in Seq(S) /\ Len(SubSeq(s, o + 1, Len(s))) = Len(s) - o
         /\ \A j \in 1 .. Len(s) - o : SubSeq(s, o + 1, Len(s))[j] = s[o + j]
<1> DEFINE w == Len(s) - o
<1>1. w \in 0 .. Len(s) - o /\ o + w = Len(s)
  OBVIOUS
<1> HIDE DEF w
<1>2. /\ SubSeq(s, o + 1, o + w) \in Seq(S) /\ Len(SubSeq(s, o + 1, o + w)) = w
      /\ \A j \in 1 .. w : SubSeq(s, o + 1, o + w)[j] = s[o + j]
  BY <1>1, Slice, Zenon
<1> QED
  BY <1>1, <1>2, Zenon DEF w

\* Equal byte by byte is equal.
LEMMA Bytewise ==
  ASSUME NEW S, NEW s \in Seq(S), NEW t \in Seq(S), Len(s) = Len(t),
         \A j \in 1 .. Len(s) : s[j] = t[j]
  PROVE  s = t
BY SeqEqual

\* Two parts of one sequence that meet.
LEMMA Joined ==
  ASSUME NEW S, NEW s \in Seq(S), NEW k \in 0 .. Len(s)
  PROVE  SubSeq(s, 1, k) \o SubSeq(s, k + 1, Len(s)) = s
<1> DEFINE a == SubSeq(s, 1, k)
           b == SubSeq(s, k + 1, Len(s))
<1>1. Len(s) \in Nat /\ k \in Nat
  OBVIOUS
<1>2. a \in Seq(S) /\ Len(a) = k /\ \A j \in 1 .. k : a[j] = s[j]
  BY <1>1, Part
<1>3. b \in Seq(S) /\ Len(b) = Len(s) - k /\ \A j \in 1 .. Len(s) - k : b[j] = s[k + j]
  BY Behind
<1> HIDE DEF a, b
<1>4. a \o b \in Seq(S) /\ Len(a \o b) = Len(s)
  BY <1>1, <1>2, <1>3
<1>5. \A j \in 1 .. Len(s) : (a \o b)[j] = s[j]
  <2>1. \A j \in 1 .. Len(a) + Len(b) : (a \o b)[j] = IF j <= Len(a) THEN a[j] ELSE b[j - Len(a)]
    BY <1>2, <1>3, ConcatProperties
  <2>2. \A j \in 1 .. Len(s) : j \in 1 .. k \/ (j > k /\ j - k \in 1 .. Len(s) - k /\ k + (j - k) = j)
    BY <1>1
  <2> QED
    BY <1>1, <1>2, <1>3, <2>1, <2>2
<1> QED
  BY <1>4, <1>5, Bytewise, Zenon DEF a, b

-----------------------------------------------------------------------------
(* The cuts of a stream.                                                    *)

\* A header is a number.
LEMMA LengthType == ASSUME NEW h \in Seq(Bytes) PROVE Length(h) \in Nat
<1> DEFINE n == Len(h)
           Step(F) == [k \in 0 .. n |-> IF k = 0 THEN 0 ELSE F[k - 1] * Base + h[k]]
           value == CHOOSE F : F = Step(F)
           g == [x \in (1 .. n) \X Nat |-> x[2] * Base + h[x[1]]]
<1>0. n \in Nat /\ Base \in Nat /\ \A k \in 1 .. n : h[k] \in Nat
  BY FramingAssumption DEF Bytes
<1>1. Length(h) = value[n]
  BY DEF Length
<1>2. \A k \in 1 .. n : \A v \in Nat : v * Base + h[k] \in Nat
  BY <1>0
<1>3. g \in [(1 .. n) \X Nat -> Nat] /\ 0 \in Nat
  BY <1>2, Zenon
<1>4. \A k \in 1 .. n : \A v \in Nat : g[<<k, v>>] = v * Base + h[k]
  OBVIOUS
<1> HIDE DEF n, g, Step, value
<1>5. PICK F : Builds(F, n, Nat, 0, g)
  BY <1>0, <1>3, Defining, Zenon
<1>6. F = Step(F)
  <2>1. F \in [0 .. n -> Nat] /\ F[0] = 0 /\ \A k \in 1 .. n : F[k] = g[<<k, F[k - 1]>>]
    BY <1>5 DEF Builds
  <2>2. \A k \in 1 .. n : k - 1 \in 0 .. n
    BY <1>0
  <2>3. \A k \in 1 .. n : F[k] = F[k - 1] * Base + h[k]
    BY <1>4, <2>1, <2>2, Zenon
  <2>4. \A k \in 0 .. n : F[k] = IF k = 0 THEN 0 ELSE F[k - 1] * Base + h[k]
    BY <1>0, <2>1, <2>3
  <2>5. F = [k \in 0 .. n |-> IF k = 0 THEN 0 ELSE F[k - 1] * Base + h[k]]
    BY <2>1, <2>4
  <2> QED
    BY <2>5, Zenon DEF Step
<1>7. value = Step(value)
  BY <1>6 DEF value
<1>8. \A k \in 0 .. n : value[k] = IF k = 0 THEN 0 ELSE value[k - 1] * Base + h[k]
  BY <1>7, Zenon DEF Step
<1> DEFINE P == {k \in 0 .. n : value[k] \in Nat}
<1>9. 0 \in P
  BY <1>0, <1>8
<1>10. ASSUME NEW k \in 0 .. n - 1, k \in P PROVE k + 1 \in P
  <2>1. k + 1 \in 1 .. n /\ k + 1 \in 0 .. n /\ k + 1 # 0 /\ (k + 1) - 1 = k
    BY <1>0
  <2>2. value[k + 1] = value[k] * Base + h[k + 1]
    BY <1>8, <2>1
  <2> QED
    BY <1>2, <1>10, <2>1, <2>2, Zenon
<1> HIDE DEF P
<1>11. 0 .. n \subseteq P
  BY <1>0, <1>9, <1>10, Counting, Zenon
<1> QED
  BY <1>0, <1>1, <1>11 DEF P

\* A cut moves on by a header and a payload, or not at all.
LEMMA CutFacts ==
  ASSUME NEW s \in Seq(Bytes), NEW p \in 0 .. Len(s)
  PROVE  Cut(s, p) \in 0 .. Len(s) /\ (Cut(s, p) = p \/ Cut(s, p) > p + HEADER)
<1>1. Len(s) \in Nat /\ HEADER \in Nat \ {0}
  BY FramingAssumption
<1>2. CASE p + HEADER > Len(s)
  BY <1>1, <1>2 DEF Cut
<1>3. CASE ~(p + HEADER > Len(s))
  <2> DEFINE n == Length(SubSeq(s, p + 1, p + HEADER))
  <2>1. p + 1 \in 1 .. Len(s) + 1 /\ p + HEADER \in 0 .. Len(s) /\ p + 1 <= (p + HEADER) + 1
    BY <1>1, <1>3
  <2>2. n \in Nat
    BY <2>1, Part, LengthType, Zenon
  <2>3. Cut(s, p) = IF n = 0 \/ n > MAX_FRAME \/ p + HEADER + n > Len(s) THEN p ELSE p + HEADER + n
    BY <1>3 DEF Cut
  <2> HIDE DEF n
  <2> QED
    BY <1>1, <2>2, <2>3
<1> QED
  BY <1>2, <1>3

\* The ends of the frames, one cut after the other.
LEMMA EndsFacts ==
  ASSUME NEW s \in Seq(Bytes)
  PROVE  /\ Ends(s) \in [0 .. Len(s) -> 0 .. Len(s)]
         /\ Ends(s)[0] = 0
         /\ \A k \in 1 .. Len(s) : Ends(s)[k] = Cut(s, Ends(s)[k - 1])
<1> DEFINE n == Len(s)
           Step(F) == [k \in 0 .. n |-> IF k = 0 THEN 0 ELSE Cut(s, F[k - 1])]
           S == 0 .. n
           g == [x \in (1 .. n) \X S |-> Cut(s, x[2])]
<1>0. n \in Nat
  OBVIOUS
<1>1. Ends(s) = CHOOSE F : F = Step(F)
  BY DEF Ends
<1>2. g \in [(1 .. n) \X S -> S] /\ 0 \in S
  BY <1>0, CutFacts
<1>3. \A k \in 1 .. n : \A v \in S : g[<<k, v>>] = Cut(s, v)
  OBVIOUS
<1>c. \A p \in S : Cut(s, p) \in S
  BY CutFacts
<1> HIDE DEF n, S, g, Step
<1>4. PICK F : Builds(F, n, S, 0, g)
  BY <1>0, <1>2, Defining, Zenon
<1>5. F = Step(F)
  <2>1. F \in [0 .. n -> S] /\ F[0] = 0 /\ \A k \in 1 .. n : F[k] = g[<<k, F[k - 1]>>]
    BY <1>4 DEF Builds
  <2>2. \A k \in 1 .. n : k - 1 \in 0 .. n
    BY <1>0
  <2>3. \A k \in 1 .. n : F[k] = Cut(s, F[k - 1])
    BY <1>3, <2>1, <2>2, Zenon
  <2>4. \A k \in 0 .. n : F[k] = IF k = 0 THEN 0 ELSE Cut(s, F[k - 1])
    BY <1>0, <2>1, <2>3
  <2>5. F = [k \in 0 .. n |-> IF k = 0 THEN 0 ELSE Cut(s, F[k - 1])]
    BY <2>1, <2>4
  <2> QED
    BY <2>5, Zenon DEF Step
<1> DEFINE E == Ends(s)
<1>6. E = Step(E)
  BY <1>1, <1>5
<1> HIDE DEF E
<1>7. \A k \in 0 .. n : E[k] = IF k = 0 THEN 0 ELSE Cut(s, E[k - 1])
  BY <1>6, Zenon DEF Step
<1>8. E = [k \in 0 .. n |-> E[k]]
  BY <1>6 DEF Step
<1> DEFINE P == {k \in 0 .. n : E[k] \in S}
<1>9. 0 \in P
  BY <1>0, <1>2, <1>7
<1>10. ASSUME NEW k \in 0 .. n - 1, k \in P PROVE k + 1 \in P
  <2>1. k + 1 \in 0 .. n /\ k + 1 # 0 /\ (k + 1) - 1 = k
    BY <1>0
  <2>2. E[k + 1] = Cut(s, E[k])
    BY <1>7, <2>1
  <2> QED
    BY <1>c, <1>10, <2>1, <2>2
<1> HIDE DEF P
<1>11. 0 .. n \subseteq P
  BY <1>0, <1>9, <1>10, Counting, Zenon
<1>12. E \in [0 .. n -> S]
  BY <1>8, <1>11 DEF P
<1>13. E[0] = 0 /\ \A k \in 1 .. n : E[k] = Cut(s, E[k - 1])
  BY <1>0, <1>7
<1> QED
  BY <1>12, <1>13 DEF E, n, S

\* s has m frames: the turns at which one is cut are the first m, and each takes
\* a byte at least.
Whole(s, m) ==
  /\ m \in 0 .. Len(s)
  /\ {k \in 1 .. Len(s) : Ends(s)[k] # Ends(s)[k - 1]} = 1 .. m
  /\ \A q, k \in 0 .. m : q <= k => Ends(s)[k] >= Ends(s)[q] + (k - q)

\* Every stream has a number of frames: where one cut fails, so do the next.
LEMMA WholeFrames == ASSUME NEW s \in Seq(Bytes) PROVE \E m : Whole(s, m)
<1> DEFINE n == Len(s)
           E == Ends(s)
           W == {k \in 1 .. n : E[k] # E[k - 1]}
<1>1. n \in Nat /\ HEADER \in Nat
  BY FramingAssumption
<1>2. E \in [0 .. n -> 0 .. n] /\ \A k \in 1 .. n : E[k] = Cut(s, E[k - 1])
  BY EndsFacts
<1> HIDE DEF E, n
<1>3. \A k \in 1 .. n : k - 1 \in 0 .. n /\ E[k - 1] \in 0 .. n /\ E[k] \in 0 .. n
  BY <1>1, <1>2
<1>4. \A k \in W : E[k] >= E[k - 1] + 1
  <2> SUFFICES ASSUME NEW k \in W PROVE E[k] >= E[k - 1] + 1
    OBVIOUS
  <2>1. E[k] = Cut(s, E[k - 1]) /\ E[k - 1] \in 0 .. n
    BY <1>2, <1>3
  <2>2. Cut(s, E[k - 1]) > E[k - 1] + HEADER
    BY <2>1, CutFacts DEF n
  <2> QED
    BY <1>1, <1>3, <2>1, <2>2
<1>5. \A k \in 1 .. n - 1 : k + 1 \in W => k \in W
  <2> SUFFICES ASSUME NEW k \in 1 .. n - 1, E[k] = E[k - 1] PROVE E[k + 1] = E[k]
    BY <1>1
  <2>1. k + 1 \in 1 .. n /\ k \in 1 .. n /\ (k + 1) - 1 = k
    BY <1>1
  <2> QED
    BY <1>2, <2>1
<1>6. PICK m \in 0 .. n : W = 1 .. m
  <2>1. W \in SUBSET (1 .. n)
    OBVIOUS
  <2> HIDE DEF W
  <2> QED
    BY <1>1, <1>5, <2>1, Beginning, Zenon
<1>7. ASSUME NEW q \in 0 .. m PROVE \A k \in 0 .. m : q <= k => E[k] >= E[q] + (k - q)
  <2> DEFINE P == {k \in 0 .. m : q <= k => E[k] >= E[q] + (k - q)}
  <2>0. m \in Nat /\ E[q] \in Nat /\ \A k \in 0 .. m : E[k] \in Nat
    BY <1>1, <1>2
  <2>1. 0 \in P
    BY <2>0
  <2>2. ASSUME NEW k \in 0 .. m - 1, k \in P PROVE k + 1 \in P
    <3>1. k + 1 \in 1 .. m /\ k + 1 \in 0 .. m /\ (k + 1) - 1 = k /\ k \in Nat
      BY <2>0
    <3>2. E[k + 1] >= E[k] + 1
      BY <1>4, <1>6, <3>1, Zenon
    <3> QED
      BY <2>0, <2>2, <3>1, <3>2
  <2> HIDE DEF P
  <2>3. 0 .. m \subseteq P
    BY <2>0, <2>1, <2>2, Counting, Zenon
  <2> QED
    BY <2>3 DEF P
<1> QED
  BY <1>6, <1>7, Zenon DEF E, n, Whole

\* The frames are sequences of bytes, one for each cut.
LEMMA FramesFacts ==
  ASSUME NEW s \in Seq(Bytes), NEW m, Whole(s, m)
  PROVE  /\ m \in Nat /\ Frames(s) \in Seq(Seq(Bytes)) /\ Len(Frames(s)) = m
         /\ \A k \in 1 .. m : /\ Ends(s)[k - 1] + HEADER < Ends(s)[k]
                              /\ Frames(s)[k] = SubSeq(s, Ends(s)[k - 1] + HEADER + 1, Ends(s)[k])
<1> DEFINE E == Ends(s)
           f(k) == SubSeq(s, E[k - 1] + HEADER + 1, E[k])
<1>1. Len(s) \in Nat /\ m \in Nat /\ m <= Len(s) /\ HEADER \in Nat
  BY FramingAssumption DEF Whole
<1>2. Frames(s) = [k \in 1 .. m |-> f(k)]
  BY DEF Frames, Whole
<1>3. E \in [0 .. Len(s) -> 0 .. Len(s)] /\ \A k \in 1 .. Len(s) : E[k] = Cut(s, E[k - 1])
  BY EndsFacts
<1>w. {k \in 1 .. Len(s) : E[k] # E[k - 1]} = 1 .. m
  BY DEF Whole
<1> HIDE DEF E
<1>4. ASSUME NEW k \in 1 .. m PROVE k \in 1 .. Len(s) /\ k - 1 \in 0 .. Len(s) /\ E[k] # E[k - 1]
  <2>1. k \in {l \in 1 .. Len(s) : E[l] # E[l - 1]}
    BY <1>w
  <2> QED
    BY <1>1, <2>1
<1>5. \A k \in 1 .. m : E[k] \in 0 .. Len(s) /\ E[k - 1] \in 0 .. Len(s) /\ E[k] > E[k - 1] + HEADER
  BY <1>3, <1>4, CutFacts, Zenon
<1>6. ASSUME NEW k \in 1 .. m PROVE f(k) \in Seq(Bytes)
  <2>1. /\ E[k - 1] + HEADER + 1 \in 1 .. Len(s) + 1 /\ E[k] \in 0 .. Len(s)
        /\ E[k - 1] + HEADER + 1 <= E[k] + 1
    BY <1>1, <1>5
  <2> QED
    BY <2>1, Part
<1> HIDE DEF f
<1>7. Frames(s) \in Seq(Seq(Bytes)) /\ Len(Frames(s)) = m
  <2> DEFINE T == Seq(Bytes)
  <2>1. \A k \in 1 .. m : f(k) \in T
    BY <1>6
  <2> HIDE DEF T
  <2>2. Frames(s) \in Seq(T) /\ Len(Frames(s)) = m
    BY <1>1, <1>2, <2>1
  <2> QED
    BY <2>2 DEF T
<1>8. \A k \in 1 .. m : Frames(s)[k] = f(k)
  BY <1>2
<1> QED
  BY <1>1, <1>5, <1>7, <1>8, Zenon DEF E, f

\* r is what is left of s behind byte o.
LeftOf(r, s, o) ==
  /\ o \in 0 .. Len(s)
  /\ r \in Seq(Bytes)
  /\ Len(r) = Len(s) - o
  /\ \A j \in 1 .. Len(r) : r[j] = s[o + j]

\* A cut does not depend on what came before.
LEMMA CutShift ==
  ASSUME NEW s \in Seq(Bytes), NEW o, NEW r, LeftOf(r, s, o), NEW p \in 0 .. Len(r)
  PROVE  Cut(s, o + p) = Cut(r, p) + o
<1>1. /\ Len(s) \in Nat /\ HEADER \in Nat \ {0} /\ o \in Nat /\ p \in Nat /\ o + p \in 0 .. Len(s)
      /\ Len(r) \in Nat
  BY FramingAssumption DEF LeftOf
<1>2. r \in Seq(Bytes) /\ Len(r) = Len(s) - o /\ \A j \in 1 .. Len(s) - o : r[j] = s[o + j]
  BY DEF LeftOf
<1>3. CASE p + HEADER > Len(r)
  BY <1>1, <1>2, <1>3 DEF Cut
<1>4. CASE ~(p + HEADER > Len(r))
  <2> DEFINE h == SubSeq(r, p + 1, p + HEADER)
             hs == SubSeq(s, (o + p) + 1, (o + p) + HEADER)
  <2>1. h \in Seq(Bytes) /\ Len(h) = HEADER /\ \A j \in 1 .. HEADER : h[j] = r[p + j]
    <3>1. p \in 0 .. Len(r) /\ HEADER \in 0 .. Len(r) - p
      BY <1>1, <1>2, <1>4
    <3> QED
      BY <1>2, <3>1, Slice, Zenon
  <2>2. hs \in Seq(Bytes) /\ Len(hs) = HEADER /\ \A j \in 1 .. HEADER : hs[j] = s[(o + p) + j]
    <3>1. o + p \in 0 .. Len(s) /\ HEADER \in 0 .. Len(s) - (o + p)
      BY <1>1, <1>2, <1>4
    <3> QED
      BY <3>1, Slice, Zenon
  <2>3. \A j \in 1 .. HEADER : p + j \in 1 .. Len(s) - o /\ o + (p + j) = (o + p) + j
    BY <1>1, <1>2, <1>4
  <2> HIDE DEF h, hs
  <2>4. h = hs
    <3>1. \A j \in 1 .. HEADER : h[j] = hs[j]
      BY <1>2, <2>1, <2>2, <2>3, Zenon
    <3> QED
      BY <2>1, <2>2, <3>1, Bytewise, Zenon
  <2> DEFINE n == Length(h)
  <2>5. n \in Nat
    BY <2>1, LengthType
  <2>6. Cut(r, p) = IF n = 0 \/ n > MAX_FRAME \/ p + HEADER + n > Len(r) THEN p ELSE p + HEADER + n
    BY <1>4 DEF Cut, h
  <2>7. Cut(s, o + p) = IF n = 0 \/ n > MAX_FRAME \/ (o + p) + HEADER + n > Len(s)
                        THEN o + p ELSE (o + p) + HEADER + n
    <3>1. ~((o + p) + HEADER > Len(s))
      BY <1>1, <1>2, <1>4
    <3> QED
      BY <2>4, <3>1 DEF Cut, hs
  <2> HIDE DEF n
  <2> QED
    BY <1>1, <1>2, <2>5, <2>6, <2>7
<1> QED
  BY <1>3, <1>4

\* What is left of a stream behind its q-th frame has the other frames.
LEMMA FramesBehind ==
  ASSUME NEW s \in Seq(Bytes), NEW m, Whole(s, m), NEW q \in 0 .. m,
         NEW r, LeftOf(r, s, Ends(s)[q])
  PROVE  Frames(r) = SubSeq(Frames(s), q + 1, m)
<1> DEFINE E == Ends(s)
           D == Ends(r)
           o == E[q]
           N == Len(s)
           n == Len(r)
           W == {k \in 1 .. N : E[k] # E[k - 1]}
<1>1. /\ N \in Nat /\ HEADER \in Nat \ {0} /\ m \in Nat /\ m <= N /\ q \in Nat /\ q <= m
      /\ E \in [0 .. N -> 0 .. N] /\ E[0] = 0
      /\ \A k \in 1 .. N : E[k] = Cut(s, E[k - 1])
  BY EndsFacts, FramingAssumption DEF Whole
<1>2. W = 1 .. m /\ \A x, k \in 0 .. m : x <= k => E[k] >= E[x] + (k - x)
  BY DEF Whole
<1>4. r \in Seq(Bytes) /\ n \in Nat /\ n = N - o /\ \A j \in 1 .. n : r[j] = s[o + j]
  BY DEF LeftOf
<1>5. D \in [0 .. n -> 0 .. n] /\ D[0] = 0 /\ \A k \in 1 .. n : D[k] = Cut(r, D[k - 1])
  BY <1>4, EndsFacts
<1>c. \A p \in 0 .. n : Cut(s, o + p) = Cut(r, p) + o
  BY CutShift
<1> HIDE DEF E, D, N, n, W
<1>3. o \in 0 .. N /\ o >= q
  <2>1. 0 \in 0 .. m /\ q \in 0 .. m /\ 0 <= q /\ q \in 0 .. N
    BY <1>1
  <2>2. E[q] >= E[0] + (q - 0)
    BY <1>2, <2>1
  <2> QED
    BY <1>1, <2>1, <2>2
<1>d. o = E[q]
  OBVIOUS
<1> HIDE DEF o
<1>e. N \in Nat /\ n \in Nat /\ q \in Nat /\ m \in Nat /\ o \in Nat /\ N = n + o /\ q <= o /\ q <= m
  BY <1>1, <1>3, <1>4
<1>6. \A k \in 0 .. n : q + k \in 0 .. N /\ E[q + k] = D[k] + o
  <2> DEFINE P == {k \in 0 .. n : q + k \in 0 .. N /\ E[q + k] = D[k] + o}
  <2>0. \A k \in 0 .. n : q + k \in 0 .. N
    BY <1>1, <1>3, <1>4
  <2>1. 0 \in P
    <3>1. q + 0 = q /\ 0 \in 0 .. n
      BY <1>1, <1>4
    <3>2. E[q + 0] = D[0] + o
      BY <1>3, <1>5, <1>d, <3>1
    <3> QED
      BY <2>0, <3>1, <3>2, Zenon
  <2>2. ASSUME NEW k \in 0 .. n - 1, k \in P PROVE k + 1 \in P
    <3>1. /\ k \in 0 .. n /\ k + 1 \in 1 .. n /\ k + 1 \in 0 .. n /\ (k + 1) - 1 = k
          /\ q + (k + 1) \in 1 .. N /\ (q + (k + 1)) - 1 = q + k
      BY <1>e
    <3>2. D[k + 1] = Cut(r, D[k]) /\ D[k] \in 0 .. n
      BY <1>5, <3>1
    <3>3. E[q + (k + 1)] = Cut(s, E[q + k])
      BY <1>1, <3>1
    <3>4. E[q + k] = o + D[k]
      BY <1>3, <2>2, <3>2
    <3>5. E[q + (k + 1)] = D[k + 1] + o
      BY <1>c, <3>2, <3>3, <3>4
    <3> QED
      BY <2>0, <3>1, <3>5, Zenon
  <2> HIDE DEF P
  <2>3. 0 .. n \subseteq P
    BY <1>4, <2>1, <2>2, Counting, Zenon
  <2> QED
    BY <2>3 DEF P
<1>7. ASSUME NEW k \in 1 .. n PROVE D[k] # D[k - 1] <=> k <= m - q
  <2>1. /\ k \in 0 .. n /\ k - 1 \in 0 .. n /\ q + (k - 1) = (q + k) - 1 /\ q + k \in 1 .. N
    BY <1>1, <1>3, <1>4
  <2>2. E[q + k] = D[k] + o /\ E[(q + k) - 1] = D[k - 1] + o
    BY <1>6, <2>1
  <2>3. D[k] \in 0 .. n /\ D[k - 1] \in 0 .. n
    BY <1>5, <2>1
  <2>4. E[q + k] # E[(q + k) - 1] <=> q + k \in W
    BY <2>1 DEF W
  <2>5. q + k \in W <=> k <= m - q
    <3>1. k \in Nat /\ k >= 1
      BY <1>4
    <3>2. q + k \in 1 .. m <=> k <= m - q
      BY <1>1, <3>1
    <3> QED
      BY <1>2, <3>2
  <2> QED
    BY <1>3, <2>2, <2>3, <2>4, <2>5
<1>8. m - q \in 0 .. n
  <2>1. m \in 0 .. m /\ q \in 0 .. m /\ q <= m /\ m \in 0 .. N
    BY <1>1
  <2>2. E[m] >= o + (m - q) /\ E[m] \in 0 .. N
    BY <1>1, <1>2, <1>d, <2>1
  <2> QED
    BY <1>e, <2>2
<1>i. /\ N \in Nat /\ n \in Nat /\ o \in Nat /\ m \in Nat /\ q \in Nat /\ HEADER \in Nat
      /\ N = n + o /\ q <= m /\ m - q <= n
  BY <1>1, <1>3, <1>4, <1>8
<1>9. {k \in 1 .. n : D[k] # D[k - 1]} = 1 .. m - q
  <2>1. \A k \in 1 .. n : k <= m - q <=> k \in 1 .. m - q
    BY <1>1, <1>4
  <2>2. 1 .. m - q \subseteq 1 .. n
    BY <1>1, <1>4, <1>8
  <2> QED
    BY <1>7, <2>1, <2>2, Zenon
<1> DEFINE f(k) == SubSeq(r, D[k - 1] + HEADER + 1, D[k])
<1>10. Frames(r) = [k \in 1 .. m - q |-> f(k)]
  BY <1>9 DEF Frames, D, n
<1>11. ASSUME NEW k \in 1 .. m - q PROVE f(k) = Frames(s)[q + k]
  <2>1. /\ k \in 1 .. n /\ k \in 0 .. n /\ k - 1 \in 0 .. n
        /\ q + (k - 1) = (q + k) - 1 /\ q + k \in 1 .. m
    BY <1>i
  <2> DEFINE d == D[k]
             c == D[k - 1]
             a == c + HEADER
             w == d - a
             t == SubSeq(s, E[(q + k) - 1] + HEADER + 1, E[q + k])
             e == E[q + k]
             b == E[(q + k) - 1]
  <2>2. e = d + o /\ b = c + o /\ d \in 0 .. n /\ c \in 0 .. n
    BY <1>5, <1>6, <2>1, Zenon
  <2>3. b + HEADER < e
    BY <2>1, FramesFacts DEF E
  <2>t. Frames(s)[q + k] = t
    BY <2>1, FramesFacts DEF E
  <2>u. t = SubSeq(s, b + HEADER + 1, e)
    OBVIOUS
  <2>v. f(k) = SubSeq(r, c + HEADER + 1, d)
    OBVIOUS
  <2> HIDE DEF t, f, e, b, c, d
  <2>a. a \in 0 .. n /\ w \in 0 .. n - a /\ a + w = d /\ a + 1 = c + HEADER + 1
    BY <1>i, <2>2, <2>3
  <2>b. /\ o + a \in 0 .. N /\ w \in 0 .. N - (o + a) /\ (o + a) + w = e
        /\ (o + a) + 1 = b + HEADER + 1
    BY <1>i, <2>2, <2>3
  <2> HIDE DEF a, w
  <2>4. \A j \in 1 .. w : a + j \in 1 .. n /\ o + (a + j) = (o + a) + j
    BY <1>i, <2>a
  <2>5. f(k) \in Seq(Bytes) /\ Len(f(k)) = w /\ \A j \in 1 .. w : f(k)[j] = r[a + j]
    <3>1. f(k) = SubSeq(r, a + 1, a + w)
      BY <2>a, <2>v, Zenon
    <3> QED
      BY <1>4, <2>a, <3>1, Slice DEF n
  <2>6. t \in Seq(Bytes) /\ Len(t) = w /\ \A j \in 1 .. w : t[j] = s[(o + a) + j]
    <3>1. t = SubSeq(s, (o + a) + 1, (o + a) + w)
      BY <2>b, <2>u, Zenon
    <3> DEFINE x == o + a
    <3>2. x \in 0 .. Len(s) /\ w \in 0 .. Len(s) - x
      BY <2>b DEF N
    <3>3. t = SubSeq(s, x + 1, x + w)
      BY <3>1
    <3> HIDE DEF x
    <3>4. t \in Seq(Bytes) /\ Len(t) = w /\ \A j \in 1 .. w : t[j] = s[x + j]
      BY <3>2, <3>3, Slice, Zenon
    <3> QED
      BY <3>4 DEF x
  <2>7. \A j \in 1 .. w : f(k)[j] = t[j]
    BY <1>4, <2>4, <2>5, <2>6, Zenon
  <2>8. f(k) = t
    BY <2>5, <2>6, <2>7, Bytewise, Zenon
  <2> QED
    BY <2>8, <2>t, Zenon
<1> HIDE DEF f
<1>12. Frames(r) = [k \in 1 .. m - q |-> Frames(s)[q + k]]
  BY <1>10, <1>11, Zenon
<1> DEFINE u == SubSeq(Frames(s), q + 1, m)
<1>13. u \in Seq(Seq(Bytes)) /\ Len(u) = m - q /\ \A j \in 1 .. m - q : u[j] = Frames(s)[q + j]
  BY FramesFacts, Behind
<1>14. u = [k \in 1 .. m - q |-> Frames(s)[q + k]]
  <2>1. DOMAIN u = 1 .. m - q
    BY <1>13, LenProperties, Zenon
  <2>2. u = [k \in DOMAIN u |-> u[k]]
    BY <1>13, LenProperties
  <2> HIDE DEF u
  <2> QED
    BY <1>13, <2>1, <2>2, Zenon
<1> QED
  BY <1>12, <1>14

-----------------------------------------------------------------------------
(* read_from_conn.                                                          *)

\* The bytes of the stream that have not become frames.
Rest == header \o payload \o sock \o wire

NetType ==
  /\ sent \in Seq(Bytes) /\ wire \in Seq(Bytes) /\ sock \in Seq(Bytes)
  /\ header \in Seq(Bytes) /\ payload \in Seq(Bytes) /\ frames \in Seq(Seq(Bytes))

\* struct conn: part of a header, or a header and part of its payload.
ConnInv ==
  /\ loop => open
  /\ Len(header) <= HEADER
  /\ open /\ Len(header) < HEADER => payload = <<>>
  /\ open /\ Len(header) = HEADER =>
       plen = Length(header) /\ plen \in 1 .. MAX_FRAME /\ Len(payload) < plen

\* The frames are those cut first, and the rest of the stream is what is left
\* behind the last of them.
CutInv ==
  /\ Len(frames) <= Len(sent)
  /\ \A k \in 1 .. Len(frames) :
       /\ Ends(sent)[k] # Ends(sent)[k - 1]
       /\ frames[k] = SubSeq(sent, Ends(sent)[k - 1] + HEADER + 1, Ends(sent)[k])
  /\ open => LeftOf(Rest, sent, Ends(sent)[Len(frames)])

\* The order of concatenation does not matter.
LEMMA Grouped == \A a, b, c \in Seq(Bytes) : (a \o b) \o c = a \o (b \o c)
BY ConcatAssociative

\* read takes the first bytes of the socket and leaves the others.
LEMMA TakeFacts ==
  ASSUME sock \in Seq(Bytes), NEW want \in Nat
  PROVE  /\ Take(want) \in Seq(Bytes) /\ Left(want) \in Seq(Bytes)
         /\ Take(want) \o Left(want) = sock /\ Len(Take(want)) <= want
<1> DEFINE k == IF Len(sock) < want THEN Len(sock) ELSE want
<1>1. Len(sock) \in Nat /\ k \in 0 .. Len(sock) /\ k <= want
  OBVIOUS
<1>2. Take(want) = SubSeq(sock, 1, k)
  BY DEF Take
<1> HIDE DEF k
<1>3. 1 \in 1 .. Len(sock) + 1 /\ 1 <= k + 1 /\ k - 1 + 1 = k
  BY <1>1
<1>4. SubSeq(sock, 1, k) \in Seq(Bytes) /\ Len(SubSeq(sock, 1, k)) = k
  BY <1>1, <1>3, Part
<1>5. Left(want) = SubSeq(sock, k + 1, Len(sock))
  BY <1>2, <1>4, Zenon DEF Left
<1>6. SubSeq(sock, k + 1, Len(sock)) \in Seq(Bytes)
  BY <1>1, Behind
<1>7. SubSeq(sock, 1, k) \o SubSeq(sock, k + 1, Len(sock)) = sock
  BY <1>1, Joined, Zenon
<1> QED
  BY <1>1, <1>2, <1>4, <1>5, <1>6, <1>7, Zenon

\* Byte by byte, one sequence and then the other.
LEMMA Chained ==
  \A a, b \in Seq(Bytes) :
     /\ Len(a \o b) = Len(a) + Len(b)
     /\ \A j \in 1 .. Len(a) + Len(b) : (a \o b)[j] = IF j <= Len(a) THEN a[j] ELSE b[j - Len(a)]
BY ConcatProperties

\* A header, its payload and more, behind byte o: the cut there is behind them.
LEMMA NextFrame ==
  ASSUME NEW s \in Seq(Bytes), NEW o, NEW h \in Seq(Bytes), NEW p \in Seq(Bytes), NEW z \in Seq(Bytes),
         LeftOf(h \o (p \o z), s, o), Len(h) = HEADER, Length(h) \in 1 .. MAX_FRAME,
         Len(p) = Length(h)
  PROVE  /\ Cut(s, o) = o + HEADER + Len(p)
         /\ SubSeq(s, o + HEADER + 1, o + HEADER + Len(p)) = p
         /\ LeftOf(z, s, o + HEADER + Len(p))
<1> DEFINE r == h \o (p \o z)
           n == Len(p)
           l == Len(z)
           x == o + HEADER
<1>1. /\ o \in 0 .. Len(s) /\ r \in Seq(Bytes) /\ Len(r) = Len(s) - o
      /\ \A j \in 1 .. Len(r) : r[j] = s[o + j]
  BY Zenon DEF LeftOf
<1>2. p \o z \in Seq(Bytes) /\ Len(p \o z) = n + l
      /\ \A j \in 1 .. n + l : (p \o z)[j] = IF j <= n THEN p[j] ELSE z[j - n]
  BY ConcatProperties
<1>3. /\ Len(r) = HEADER + (n + l)
      /\ \A j \in 1 .. HEADER + (n + l) : r[j] = IF j <= HEADER THEN h[j] ELSE (p \o z)[j - HEADER]
  <2> DEFINE q == p \o z
             c == Len(h)
             d == Len(q)
  <2>1. q \in Seq(Bytes) /\ d = n + l /\ c = HEADER
    BY <1>2
  <2> HIDE DEF q
  <2>2. Len(h \o q) = c + d /\ \A j \in 1 .. c + d : (h \o q)[j] = IF j <= c THEN h[j] ELSE q[j - c]
    BY <2>1, Chained, Zenon
  <2>3. r = h \o q
    BY DEF q
  <2> HIDE DEF c, d, r, n, l
  <2>4. Len(r) = HEADER + (n + l) /\ \A j \in 1 .. HEADER + (n + l) : r[j] = IF j <= HEADER THEN h[j] ELSE q[j - HEADER]
    BY <2>1, <2>2, <2>3
  <2> QED
    BY <2>4, Zenon DEF q
<1>4. n \in Nat /\ n >= 1 /\ n <= MAX_FRAME /\ l \in Nat /\ HEADER \in Nat /\ Len(s) \in Nat /\ o \in Nat
  BY <1>1, FramingAssumption
<1>r. Length(h) = n /\ Len(h) = HEADER
  OBVIOUS
<1> HIDE DEF r, n, l
<1>5. Len(s) = o + HEADER + n + l
  <2> DEFINE a == Len(r)
             b == Len(s)
  <2>1. a = b - o /\ a = HEADER + (n + l) /\ b \in Nat
    BY <1>1, <1>3, <1>4, Zenon
  <2> HIDE DEF a, b
  <2>2. b = o + HEADER + n + l
    BY <1>4, <2>1
  <2> QED
    BY <2>2 DEF b
<1>6. \A j \in 1 .. HEADER : s[o + j] = h[j]
  <2> SUFFICES ASSUME NEW j \in 1 .. HEADER PROVE s[o + j] = h[j]
    OBVIOUS
  <2>1. j \in 1 .. HEADER + (n + l) /\ j <= HEADER
    BY <1>4
  <2> QED
    BY <1>1, <1>3, <2>1
<1>7. \A j \in 1 .. n : s[x + j] = p[j]
  <2> SUFFICES ASSUME NEW j \in 1 .. n PROVE s[x + j] = p[j]
    OBVIOUS
  <2> DEFINE y == HEADER + j
  <2>1. /\ y \in 1 .. HEADER + (n + l) /\ ~(y <= HEADER) /\ y - HEADER = j
        /\ o + y = x + j /\ j \in 1 .. n + l /\ j <= n
    BY <1>4
  <2> HIDE DEF y, x
  <2>2. r[y] = s[x + j] /\ r[y] = (p \o z)[j]
    BY <1>1, <1>3, <2>1, Zenon
  <2> QED
    BY <1>2, <2>1, <2>2, Zenon
<1>8. \A j \in 1 .. l : s[(x + n) + j] = z[j]
  <2> SUFFICES ASSUME NEW j \in 1 .. l PROVE s[(x + n) + j] = z[j]
    OBVIOUS
  <2> DEFINE y == HEADER + n + j
             w == n + j
  <2>1. /\ y \in 1 .. HEADER + (n + l) /\ ~(y <= HEADER) /\ y - HEADER = w
        /\ o + y = (x + n) + j /\ w \in 1 .. n + l /\ ~(w <= n) /\ w - n = j
    BY <1>4
  <2> HIDE DEF y, x, w
  <2>2. r[y] = s[(x + n) + j] /\ r[y] = (p \o z)[w]
    BY <1>1, <1>3, <2>1, Zenon
  <2> QED
    BY <1>2, <2>1, <2>2
<1>9. SubSeq(s, o + 1, o + HEADER) = h
  <2> DEFINE t == SubSeq(s, o + 1, o + HEADER)
  <2>1. HEADER \in 0 .. Len(s) - o
    BY <1>4, <1>5
  <2>2. t \in Seq(Bytes) /\ Len(t) = HEADER /\ \A j \in 1 .. HEADER : t[j] = s[o + j]
    BY <1>1, <2>1, Slice, Zenon
  <2> HIDE DEF t
  <2>3. t = h
    BY <1>6, <1>r, <2>2, Bytewise
  <2> QED
    BY <2>3 DEF t
<1>10. SubSeq(s, x + 1, x + n) = p
  <2> DEFINE t == SubSeq(s, x + 1, x + n)
  <2>1. x \in 0 .. Len(s) /\ n \in 0 .. Len(s) - x
    BY <1>4, <1>5
  <2> HIDE DEF x
  <2>2. t \in Seq(Bytes) /\ Len(t) = n /\ \A j \in 1 .. n : t[j] = s[x + j]
    BY <2>1, Slice
  <2> HIDE DEF t
  <2>3. t = p
    BY <1>7, <2>2, Bytewise, Zenon DEF n
  <2> QED
    BY <2>3 DEF t
<1>11. Cut(s, o) = x + n
  <2>1. ~(o + HEADER > Len(s)) /\ ~(n = 0 \/ n > MAX_FRAME \/ o + HEADER + n > Len(s))
    BY <1>4, <1>5, FramingAssumption
  <2> QED
    BY <1>9, <1>r, <2>1, Zenon DEF Cut
<1>12. LeftOf(z, s, x + n)
  <2>1. x + n \in 0 .. Len(s) /\ l = Len(s) - (x + n)
    BY <1>4, <1>5
  <2> HIDE DEF x
  <2> QED
    BY <1>8, <2>1 DEF LeftOf, l
<1> QED
  BY <1>10, <1>11, <1>12 DEF n

\* At first no byte is read.
LEMMA NetStart == Init => NetType /\ ConnInv /\ CutInv
<1> SUFFICES ASSUME Init PROVE NetType /\ ConnInv /\ CutInv
  OBVIOUS
<1>1. sent \in Seq(Bytes)
  <2>1. sent \in UNION {[1 .. k -> Bytes] : k \in 0 .. MaxBytes}
    BY DEF Init, BoundedSeq, SeqOf
  <2>2. PICK k \in 0 .. MaxBytes : sent \in [1 .. k -> Bytes]
    BY <2>1
  <2> QED
    BY <2>2, FramingAssumption
<1>2. /\ wire = sent /\ sock = <<>> /\ header = <<>> /\ payload = <<>> /\ frames = <<>>
      /\ open /\ ~loop /\ Len(<<>>) = 0
  BY DEF Init
<1>3. NetType
  BY <1>1, <1>2 DEF NetType
<1>4. ConnInv
  BY <1>2, FramingAssumption DEF ConnInv
<1>5. Rest = sent
  <2>1. Rest = <<>> \o <<>> \o <<>> \o sent
    BY <1>2 DEF Rest
  <2>2. <<>> \in Seq(Bytes) /\ <<>> \o <<>> = <<>> /\ <<>> \o sent = sent
    BY <1>1, ConcatEmptySeq
  <2> QED
    BY <2>1, <2>2
<1>6. LeftOf(sent, sent, 0)
  BY <1>1 DEF LeftOf
<1>7. Ends(sent)[0] = 0
  BY <1>1, EndsFacts
<1>8. Len(frames) = 0 /\ Len(sent) \in Nat /\ 1 .. 0 = {}
  BY <1>1, <1>2
<1>9. CutInv
  BY <1>5, <1>6, <1>7, <1>8 DEF CutInv
<1> QED
  BY <1>3, <1>4, <1>9, Zenon

\* A step that moves no byte over the end of a frame.
LEMMA Kept ==
  ASSUME CutInv, UNCHANGED <<sent, frames>>, open' => open /\ Rest' = Rest
  PROVE  CutInv'
BY DEF CutInv

\* The kernel moves bytes from the wire to the socket.
LEMMA ArriveKeeps ==
  ASSUME NetType, NEW k, Arrive(k)
  PROVE  NetType' /\ Rest' = Rest
<1> DEFINE a == SubSeq(wire, 1, k)
           b == SubSeq(wire, k + 1, Len(wire))
           g == header \o payload
<1>1. /\ wire \in Seq(Bytes) /\ sock \in Seq(Bytes) /\ g \in Seq(Bytes)
      /\ k \in 1 .. Len(wire) /\ k \in 0 .. Len(wire)
  BY DEF NetType, Arrive
<1>2. a \o b = wire
  BY <1>1, Joined
<1>3. b \in Seq(Bytes)
  BY <1>1, Behind
<1>4. a \in Seq(Bytes)
  <2>1. 1 \in 1 .. Len(wire) + 1 /\ 1 <= k + 1
    BY <1>1
  <2> QED
    BY <1>1, <2>1, Part, Zenon
<1>5. sock' = sock \o a /\ wire' = b /\ UNCHANGED <<sent, header, payload, frames>>
  BY DEF Arrive, cvars
<1>6. Rest' = (g \o (sock \o a)) \o b /\ Rest = (g \o sock) \o wire
  BY <1>5 DEF Rest
<1> HIDE DEF a, b, g
<1>7. sock \o a \in Seq(Bytes)
  BY <1>1, <1>4
<1>8. (g \o (sock \o a)) \o b = g \o ((sock \o a) \o b)
  BY <1>1, <1>3, <1>7, Grouped, Zenon
<1>9. (sock \o a) \o b = sock \o (a \o b)
  BY <1>1, <1>3, <1>4, Grouped, Zenon
<1>10. (g \o sock) \o wire = g \o (sock \o wire)
  BY <1>1, Grouped, Zenon
<1>11. Rest' = Rest
  BY <1>2, <1>6, <1>8, <1>9, <1>10, Zenon
<1> QED
  BY <1>3, <1>5, <1>7, <1>11, Zenon DEF NetType

\* A read of the header keeps the order of the bytes, and a whole header says
\* how long its payload is.
LEMMA HeaderKeeps ==
  ASSUME NetType, ConnInv, ReadHeader
  PROVE  NetType' /\ ConnInv' /\ (open' => Rest' = Rest)
<1> DEFINE want == HEADER - Len(header)
           t == Take(want)
           z == Left(want)
           h == header \o t
           n == Length(h)
<1>1. /\ loop /\ open /\ want > 0 /\ header' = h /\ sock' = z
      /\ IF Len(h) < HEADER THEN UNCHANGED <<plen, payload, loop, open>>
         ELSE IF n = 0 \/ n > MAX_FRAME THEN Drop /\ plen' = plen
         ELSE plen' = n /\ (Drop \/ (payload' = <<>> /\ UNCHANGED <<loop, open>>))
      /\ UNCHANGED <<sent, wire, frames>>
  BY Zenon DEF ReadHeader, ConnInv
<1>2. HEADER \in Nat /\ Len(header) \in Nat /\ want \in Nat /\ Len(header) < HEADER
  BY <1>1, FramingAssumption DEF NetType
<1>3. payload = <<>>
  BY <1>1, <1>2 DEF ConnInv
<1>4. header \in Seq(Bytes) /\ sock \in Seq(Bytes) /\ wire \in Seq(Bytes) /\ <<>> \in Seq(Bytes)
  BY DEF NetType
<1>5. t \in Seq(Bytes) /\ z \in Seq(Bytes) /\ t \o z = sock /\ Len(t) <= want
  BY <1>2, <1>4, TakeFacts, Zenon
<1> HIDE DEF t, z
<1>6. h \in Seq(Bytes) /\ Len(h) = Len(header) + Len(t) /\ Len(t) \in Nat
  BY <1>4, <1>5
<1>7. Len(h) <= HEADER /\ Len(h) \in Nat
  BY <1>2, <1>5, <1>6
<1>8. n \in Nat
  BY <1>6, LengthType, Zenon
<1> HIDE DEF h, n, want
<1>9. payload' = <<>> /\ Len(<<>>) = 0
  BY <1>1, <1>3, Zenon DEF Drop
<1>10. NetType'
  BY <1>1, <1>4, <1>5, <1>6, <1>9 DEF NetType
<1>11. ConnInv'
  <2>1. CASE Len(h) < HEADER
    BY <1>1, <1>2, <1>7, <1>9, <2>1 DEF ConnInv
  <2>2. CASE ~(Len(h) < HEADER) /\ (n = 0 \/ n > MAX_FRAME)
    BY <1>1, <1>7, <2>2, Zenon DEF ConnInv, Drop
  <2>3. CASE ~(Len(h) < HEADER) /\ ~(n = 0 \/ n > MAX_FRAME)
    <3>1. n \in 1 .. MAX_FRAME /\ 0 < n
      BY <1>8, <2>3, FramingAssumption
    <3>2. CASE Drop
      BY <1>1, <1>7, <2>3, <3>2, Zenon DEF ConnInv, Drop
    <3>3. CASE ~Drop
      BY <1>1, <1>7, <1>9, <2>3, <3>1, <3>3, Zenon DEF ConnInv, n
    <3> QED
      BY <3>2, <3>3
  <2> QED
    BY <2>1, <2>2, <2>3, Zenon
<1>12. Rest' = Rest
  <2>1. Rest = ((header \o <<>>) \o sock) \o wire /\ Rest' = (((header \o t) \o <<>>) \o z) \o wire
    BY <1>1, <1>3, <1>9 DEF Rest, h
  <2>2. header \o <<>> = header /\ (header \o t) \o <<>> = header \o t
    BY <1>4, <1>6, ConcatEmptySeq DEF h
  <2>3. (header \o t) \o z = header \o (t \o z)
    <3>1. header \in Seq(Bytes) /\ t \in Seq(Bytes) /\ z \in Seq(Bytes)
      BY <1>4, <1>5, Zenon
    <3> QED
      BY <3>1, Grouped, Zenon
  <2> QED
    BY <1>5, <2>1, <2>2, <2>3, Zenon
<1> QED
  BY <1>10, <1>11, <1>12, Zenon

\* A whole payload is the next frame of the stream.
LEMMA FrameKeeps ==
  ASSUME CutInv, open, open', sent' = sent, sent \in Seq(Bytes), frames \in Seq(Seq(Bytes)),
         header \in Seq(Bytes), Len(header) = HEADER, Length(header) \in 1 .. MAX_FRAME,
         NEW p \in Seq(Bytes), Len(p) = Length(header), frames' = Append(frames, p),
         NEW y \in Seq(Bytes), Rest = header \o (p \o y), Rest' = y
  PROVE  CutInv'
<1> DEFINE q == Len(frames)
           E == Ends(sent)
           N == Len(sent)
           o == E[q]
           e == o + HEADER + Len(p)
<1>1. /\ q \in Nat /\ q <= N /\ LeftOf(Rest, sent, o)
      /\ \A k \in 1 .. q : E[k] # E[k - 1] /\ frames[k] = SubSeq(sent, E[k - 1] + HEADER + 1, E[k])
  BY DEF CutInv
<1>2. E \in [0 .. N -> 0 .. N] /\ E[0] = 0 /\ \A k \in 1 .. N : E[k] = Cut(sent, E[k - 1])
  BY EndsFacts
<1>3. PICK m : Whole(sent, m)
  BY WholeFrames
<1>4. /\ m \in 0 .. N /\ {k \in 1 .. N : E[k] # E[k - 1]} = 1 .. m
      /\ \A x, k \in 0 .. m : x <= k => E[k] >= E[x] + (k - x)
  BY <1>3 DEF Whole
<1>5. /\ Cut(sent, o) = e /\ SubSeq(sent, o + HEADER + 1, e) = p /\ LeftOf(y, sent, e)
  <2>1. LeftOf(header \o (p \o y), sent, o)
    BY <1>1
  <2>2. \A x : LeftOf(header \o (p \o y), sent, x) =>
                 /\ Cut(sent, x) = x + HEADER + Len(p)
                 /\ SubSeq(sent, x + HEADER + 1, x + HEADER + Len(p)) = p
                 /\ LeftOf(y, sent, x + HEADER + Len(p))
    BY NextFrame, Zenon
  <2> HIDE DEF o
  <2> QED
    BY <2>1, <2>2, Zenon
<1>6. e \in 0 .. N
  BY <1>5 DEF LeftOf
<1>7. N \in Nat /\ Len(p) \in Nat /\ Len(p) >= 1 /\ HEADER \in Nat \ {0}
  BY FramingAssumption
<1>g. /\ Len(frames') = q + 1 /\ frames'[q + 1] = p /\ \A k \in 1 .. q : frames'[k] = frames[k]
  <2> DEFINE T == Seq(Bytes)
  <2>1. frames \in Seq(T) /\ p \in T
    OBVIOUS
  <2> HIDE DEF T
  <2> QED
    BY <2>1, AppendProperties
<1> HIDE DEF q, E, N
<1>8. q \in 0 .. N /\ o \in 0 .. N
  BY <1>1, <1>2, <1>7
<1>9. q <= m
  <2>1. CASE q = 0
    BY <1>4, <2>1
  <2>2. CASE q # 0
    <3>1. q \in 1 .. q /\ q \in 1 .. N
      BY <1>1, <1>7, <2>2
    <3>2. q \in 1 .. m
      BY <1>1, <1>4, <3>1, Zenon
    <3> QED
      BY <1>4, <3>2
  <2> QED
    BY <2>1, <2>2
<1>10. o >= q
  <2>1. 0 \in 0 .. m /\ q \in 0 .. m /\ 0 <= q
    BY <1>1, <1>4, <1>9
  <2>2. E[q] >= E[0] + (q - 0)
    BY <1>4, <2>1
  <2> QED
    BY <1>1, <1>2, <1>8, <2>2
<1>i. o \in Nat /\ N \in Nat /\ q \in Nat /\ e \in Nat /\ e <= N /\ e > o
  BY <1>1, <1>6, <1>7, <1>8
<1>11. q + 1 \in 1 .. N /\ (q + 1) - 1 = q
  BY <1>i, <1>10
<1> HIDE DEF o, e
<1>12. E[q + 1] = e
  BY <1>2, <1>5, <1>11, Zenon DEF o
<1>13. \A k \in 1 .. q + 1 : k \in 1 .. q \/ (k = q + 1 /\ k - 1 = q)
  BY <1>1
<1>14. \A k \in 1 .. q + 1 : E[k] # E[k - 1] /\ frames'[k] = SubSeq(sent, E[k - 1] + HEADER + 1, E[k])
  <2>1. E[q + 1] # E[q] /\ frames'[q + 1] = SubSeq(sent, E[q] + HEADER + 1, E[q + 1])
    <3>1. e # o
      BY <1>i
    <3> QED
      BY <1>5, <1>12, <1>g, <3>1, Zenon DEF o
  <2> QED
    BY <1>1, <1>13, <1>g, <2>1, Zenon
<1>15. q + 1 <= N
  BY <1>11
<1>16. LeftOf(Rest', sent, E[q + 1])
  BY <1>5, <1>12, Zenon
<1> QED
  BY <1>14, <1>15, <1>16, <1>g DEF CutInv, E, N

\* A read of the payload: a whole one is the next frame of the stream.
LEMMA PayloadKeeps ==
  ASSUME NetType, ConnInv, CutInv, ReadPayload
  PROVE  NetType' /\ ConnInv' /\ CutInv'
<1> DEFINE want == plen - Len(payload)
           t == Take(want)
           z == Left(want)
           p == payload \o t
           q == Len(frames)
           E == Ends(sent)
<1>1. /\ loop /\ open /\ Len(header) = HEADER /\ sock' = z
      /\ IF Len(p) < plen THEN payload' = p /\ UNCHANGED <<header, plen, frames>>
         ELSE frames' = Append(frames, p) /\ header' = <<>> /\ plen' = 0 /\ payload' = <<>>
      /\ UNCHANGED <<sent, wire, loop, open>>
  BY Zenon DEF ReadPayload, ConnInv
<1>2. plen = Length(header) /\ plen \in 1 .. MAX_FRAME /\ Len(payload) < plen
  BY <1>1 DEF ConnInv
<1>3. /\ header \in Seq(Bytes) /\ payload \in Seq(Bytes) /\ sock \in Seq(Bytes) /\ wire \in Seq(Bytes)
      /\ sent \in Seq(Bytes) /\ frames \in Seq(Seq(Bytes))
  BY DEF NetType
<1>4. HEADER \in Nat \ {0} /\ MAX_FRAME \in Nat /\ plen \in Nat /\ Len(payload) \in Nat /\ want \in Nat
  BY <1>2, <1>3, FramingAssumption
<1>5. t \in Seq(Bytes) /\ z \in Seq(Bytes) /\ t \o z = sock /\ Len(t) <= want
  BY <1>3, <1>4, TakeFacts, Zenon
<1> HIDE DEF t, z
<1>6. p \in Seq(Bytes) /\ Len(p) = Len(payload) + Len(t) /\ Len(t) \in Nat
  BY <1>3, <1>5
<1>7. Len(p) \in Nat /\ Len(p) <= plen
  BY <1>4, <1>5, <1>6
<1> DEFINE y == z \o wire
<1>8. y \in Seq(Bytes)
  BY <1>3, <1>5
<1> HIDE DEF p, want
<1>w. wire \in Seq(Bytes)
  BY <1>3
<1>h. header \in Seq(Bytes) /\ payload \in Seq(Bytes)
  BY <1>3
<1>t. t \in Seq(Bytes)
  BY <1>5
<1>z. z \in Seq(Bytes)
  BY <1>5
<1>p. p \in Seq(Bytes)
  BY <1>6
<1>9. Rest = header \o (p \o y)
  <2> DEFINE g == header \o payload
             x == t \o z
  <2>1. Rest = (g \o x) \o wire
    BY <1>5 DEF Rest
  <2>2. g \in Seq(Bytes) /\ x \in Seq(Bytes)
    BY <1>3, <1>5
  <2>3. (t \o z) \o wire = t \o (z \o wire)
    BY <1>w, <1>t, <1>z, Grouped, Zenon
  <2> HIDE DEF g
  <2>4. (g \o x) \o wire = g \o (x \o wire)
    <3> HIDE DEF x
    <3> QED
      BY <1>w, <2>2, Grouped, Zenon
  <2>5. Rest = g \o (t \o y)
    BY <2>1, <2>3, <2>4, Zenon
  <2> HIDE DEF y
  <2>6. t \o y \in Seq(Bytes)
    BY <1>t, <1>8
  <2>7. (header \o payload) \o (t \o y) = header \o (payload \o (t \o y))
    BY <1>h, <2>6, Grouped, Zenon
  <2>8. (payload \o t) \o y = payload \o (t \o y)
    BY <1>h, <1>t, <1>8, Grouped, Zenon
  <2> QED
    BY <2>5, <2>7, <2>8, Zenon DEF g, p
<1> HIDE DEF y
<1>10. CASE Len(p) < plen
  <2>1. payload' = p /\ UNCHANGED <<header, plen, frames>>
    BY <1>1, <1>10, Zenon
  <2>2. NetType'
    BY <1>1, <1>3, <1>5, <1>6, <2>1, Zenon DEF NetType
  <2>3. ConnInv'
    BY <1>1, <1>2, <1>4, <1>10, <2>1 DEF ConnInv
  <2>4. Rest' = ((header \o p) \o z) \o wire
    BY <1>1, <2>1, Zenon DEF Rest
  <2>5. header \o p \in Seq(Bytes)
    BY <1>3, <1>6
  <2>6. ((header \o p) \o z) \o wire = (header \o p) \o (z \o wire)
    BY <1>w, <1>z, <2>5, Grouped, Zenon
  <2>7. (header \o p) \o y = header \o (p \o y)
    BY <1>h, <1>p, <1>8, Grouped, Zenon
  <2>8. CutInv'
    BY <1>1, <1>9, <2>1, <2>4, <2>6, <2>7, Kept, Zenon DEF y
  <2> QED
    BY <2>2, <2>3, <2>8, Zenon
<1>11. CASE ~(Len(p) < plen)
  <2>1. /\ frames' = Append(frames, p) /\ header' = <<>> /\ payload' = <<>>
        /\ Len(p) = plen /\ Len(<<>>) = 0
    BY <1>1, <1>4, <1>7, <1>11
  <2>2. NetType'
    <3> DEFINE T == Seq(Bytes)
    <3>1. p \in T /\ frames \in Seq(T)
      BY <1>3, <1>6
    <3> HIDE DEF T
    <3>2. Append(frames, p) \in Seq(T)
      BY <3>1
    <3>3. frames' \in Seq(Seq(Bytes))
      BY <2>1, <3>2, Zenon DEF T
    <3> QED
      BY <1>1, <1>3, <1>5, <2>1, <3>3 DEF NetType
  <2>3. ConnInv'
    BY <1>1, <1>4, <2>1 DEF ConnInv
  <2>4. CutInv'
    <3>1. Rest' = y
      <4>1. Rest' = ((<<>> \o <<>>) \o z) \o wire
        BY <1>1, <2>1, Zenon DEF Rest
      <4>2. <<>> \in Seq(Bytes) /\ <<>> \o <<>> = <<>> /\ <<>> \o z = z
        BY <1>5, ConcatEmptySeq
      <4> QED
        BY <4>1, <4>2, Zenon DEF y
    <3>2. open' /\ sent' = sent /\ Length(header) \in 1 .. MAX_FRAME /\ Len(p) = Length(header)
      BY <1>1, <1>2, <2>1, Zenon
    <3> QED
      BY <1>1, <1>3, <1>6, <1>8, <1>9, <2>1, <3>1, <3>2, FrameKeeps, Zenon
  <2> QED
    BY <2>2, <2>3, <2>4
<1> QED
  BY <1>10, <1>11, Zenon

\* The steps that read nothing.
LEMMA CalmSteps ==
  ASSUME NetType, ConnInv, CutInv, ArriveFin \/ Event \/ NothingToRead \/ ReadError \/ UNCHANGED vars
  PROVE  NetType' /\ ConnInv' /\ CutInv'
<1>1. /\ UNCHANGED <<sent, wire, sock, header, plen, frames>>
      /\ (open' => open) /\ (payload' = payload \/ (payload' = <<>> /\ ~open')) /\ (loop' => open')
  BY DEF ArriveFin, Event, NothingToRead, ReadError, Drop, ConnInv, vars, cvars
<1>p. payload \in Seq(Bytes) /\ <<>> \in Seq(Bytes)
  BY DEF NetType
<1>2. payload' \in Seq(Bytes)
  BY <1>1, <1>p, Zenon
<1>3. NetType'
  BY <1>1, <1>2, Zenon DEF NetType
<1>5. ConnInv'
  BY <1>1 DEF ConnInv
<1>4. open' => Rest' = Rest
  BY <1>1 DEF Rest
<1> QED
  BY <1>1, <1>3, <1>4, <1>5, Kept, Zenon

\* Every step keeps the invariant.
LEMMA NetStep ==
  NetType /\ ConnInv /\ CutInv /\ [Next]_vars => NetType' /\ ConnInv' /\ CutInv'
<1> SUFFICES ASSUME NetType, ConnInv, CutInv, [Next]_vars PROVE NetType' /\ ConnInv' /\ CutInv'
  OBVIOUS
<1>1. CASE \E k \in 1 .. MaxBytes : Arrive(k)
  <2>1. PICK k \in 1 .. MaxBytes : Arrive(k)
    BY <1>1
  <2>2. NetType' /\ Rest' = Rest
    BY <2>1, ArriveKeeps, Zenon
  <2>3. UNCHANGED <<sent, loop, header, plen, payload, frames, open>>
    BY <2>1 DEF Arrive, cvars
  <2>4. ConnInv'
    BY <2>3 DEF ConnInv
  <2> QED
    BY <2>2, <2>3, <2>4, Kept, Zenon
<1>2. CASE ReadHeader
  <2>1. NetType' /\ ConnInv' /\ (open' => Rest' = Rest)
    BY <1>2, HeaderKeeps, Zenon
  <2>2. UNCHANGED <<sent, frames>> /\ open
    BY <1>2 DEF ReadHeader, ConnInv
  <2> QED
    BY <2>1, <2>2, Kept, Zenon
<1>3. CASE ReadPayload
  BY <1>3, PayloadKeeps, Zenon
<1>4. CASE ArriveFin \/ Event \/ NothingToRead \/ ReadError \/ UNCHANGED vars
  BY <1>4, CalmSteps, Zenon
<1> QED
  BY <1>1, <1>2, <1>3, <1>4, Zenon DEF Next, Kernel, read_from_conn

\* The frames handed over are those the whole stream begins with, and the bytes
\* kept are those behind them.
LEMMA CutExact == NetType /\ CutInv => FramesExact
<1> SUFFICES ASSUME NetType, CutInv PROVE FramesExact
  OBVIOUS
<1> DEFINE q == Len(frames)
           F == Frames(sent)
           E == Ends(sent)
           T == Seq(Bytes)
<1>1. sent \in Seq(Bytes) /\ frames \in Seq(T) /\ q \in Nat /\ Len(sent) \in Nat
  BY DEF NetType
<1>2. PICK m : Whole(sent, m)
  BY <1>1, WholeFrames, Zenon
<1>3. m \in Nat /\ F \in Seq(T) /\ Len(F) = m
  BY <1>1, <1>2, FramesFacts, Zenon
<1>4. \A k \in 1 .. m : F[k] = SubSeq(sent, E[k - 1] + HEADER + 1, E[k])
  BY <1>1, <1>2, FramesFacts, Zenon
<1>5. {k \in 1 .. Len(sent) : E[k] # E[k - 1]} = 1 .. m
  BY <1>2 DEF Whole
<1>6. /\ q <= Len(sent) /\ (open => LeftOf(Rest, sent, E[q]))
      /\ \A k \in 1 .. q : E[k] # E[k - 1] /\ frames[k] = SubSeq(sent, E[k - 1] + HEADER + 1, E[k])
  BY DEF CutInv
<1>7. open => (q \in 0 .. m => Frames(Rest) = SubSeq(F, q + 1, m))
  BY <1>1, <1>2, <1>6, FramesBehind, Zenon
<1> HIDE DEF F, E, T, q
<1>8. \A k \in 1 .. q : k \in 1 .. m /\ frames[k] = F[k]
  <2> SUFFICES ASSUME NEW k \in 1 .. q PROVE k \in 1 .. m /\ frames[k] = F[k]
    OBVIOUS
  <2>1. k \in 1 .. Len(sent)
    BY <1>1, <1>6
  <2>2. k \in 1 .. m
    BY <1>5, <1>6, <2>1
  <2> QED
    BY <1>4, <1>6, <2>2, Zenon
<1>9. q <= m /\ q \in 0 .. m
  <2>1. q # 0 => q \in 1 .. q
    BY <1>1
  <2> QED
    BY <1>1, <1>3, <1>8, <2>1
<1>10. IsPrefix(frames, F)
  <2> DEFINE a == SubSeq(frames, 1, q)
             b == SubSeq(F, 1, q)
  <2>1. Len(frames) = q /\ 1 \in 1 .. q + 1 /\ 1 \in 1 .. m + 1 /\ 1 <= q + 1 /\ q - 1 + 1 = q
        /\ q \in 0 .. q /\ \A j \in 1 .. q : 1 + j - 1 = j
    BY <1>1, <1>3 DEF q
  <2>2. a \in Seq(T) /\ Len(a) = q /\ \A j \in 1 .. q : a[j] = frames[j]
    BY <1>1, <2>1, Part
  <2>3. b \in Seq(T) /\ Len(b) = q /\ \A j \in 1 .. q : b[j] = F[j]
    BY <1>3, <1>9, <2>1, Part
  <2> HIDE DEF a, b
  <2>4. a = b
    BY <1>8, <2>2, <2>3, Bytewise, Zenon
  <2> QED
    BY <1>3, <1>9, <2>4, Zenon DEF IsPrefix, a, b, q
<1> QED
  BY <1>3, <1>7, <1>9, <1>10, Zenon DEF FramesExact, Rest, F, q

(* However TCP chops a stream into reads, read_from_conn hands over the     *)
(* frames of the whole stream, in order and byte by byte, and keeps just    *)
(* what lies behind them (net_server.c, read_from_conn): for every size of  *)
(* header and frame and every stream.                                       *)
THEOREM FramesCut == Spec => []FramesExact
<1>1. Spec => [](NetType /\ ConnInv /\ CutInv)
  BY NetStart, NetStep, PTL DEF Spec
<1> QED
  BY <1>1, CutExact, PTL

(* The network thread never sleeps on bytes, or on a close, that it has not *)
(* been told of again (net_server.c, read_from_conn: it reads until EAGAIN, *)
(* since an edge-triggered event is reported once).                         *)
THEOREM EdgesKept == Spec => []NoLostEdge
<1>1. Init => NoLostEdge
  BY DEF Init, NoLostEdge
<1>2. NoLostEdge /\ [Next]_vars => NoLostEdge'
  <2> SUFFICES ASSUME NoLostEdge, [Next]_vars PROVE NoLostEdge'
    OBVIOUS
  <2>1. CASE Kernel \/ Event
    BY <2>1, Zenon DEF Kernel, Arrive, ArriveFin, Event, NoLostEdge
  <2>2. CASE ReadHeader \/ ReadPayload
    <3>1. ~open' \/ loop'
      BY <2>2 DEF ReadHeader, ReadPayload, Drop
    <3> QED
      BY <3>1 DEF NoLostEdge
  <2>3. CASE NothingToRead \/ ReadError
    BY <2>3 DEF NothingToRead, ReadError, Drop, NoLostEdge
  <2>4. CASE UNCHANGED vars
    BY <2>4 DEF vars, NoLostEdge
  <2> QED
    BY <2>1, <2>2, <2>3, <2>4, Zenon DEF Next, read_from_conn
<1> QED
  BY <1>1, <1>2, PTL DEF Spec

=============================================================================
