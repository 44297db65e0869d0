--------------------------- MODULE SequenceLemmas ----------------------------
(***************************************************************************)
(* Lemmas the proofs about several modules rest on.  Induction is by the   *)
(* least number of a set, which needs no operator as a parameter; with it, *)
(* what FlattenSeq makes of a sequence of sequences.                       *)
(***************************************************************************)
EXTENDS SequencesExt, SequenceTheorems, WellFoundedInduction, TLAPS

-----------------------------------------------------------------------------
(* Induction *)

LEMMA Smallest ==
    ASSUME NEW T, T \subseteq Nat, T # {}
    PROVE  \E x \in T : \A y \in T : x <= y
<1>1. PICK x \in T : \A y \in T : <<y, x>> \notin OpToRel(<, Nat)
  BY NatLessThanWellFounded, WFMin
<1>2. \A y \in T : ~(y < x)
  BY <1>1 DEF OpToRel
<1>3. \A y \in T : y \in Nat
  OBVIOUS
<1> QED
  BY <1>2, <1>3

\* A set that holds 0, and with a number below n the next, holds all up to n.
LEMMA Induction ==
    ASSUME NEW n \in Nat, NEW T, 0 \in T, \A k \in 0..(n - 1) : k \in T => k + 1 \in T
    PROVE  \A k \in 0..n : k \in T
<1> SUFFICES ASSUME (0..n) \ T # {} PROVE FALSE
  OBVIOUS
<1>1. PICK x \in (0..n) \ T : \A y \in (0..n) \ T : x <= y
  <2>1. (0..n) \ T \subseteq Nat
    OBVIOUS
  <2> QED
    BY <2>1, Smallest
<1>2. x # 0 /\ x - 1 \in 0..(n - 1)
  BY <1>1
<1>3. x - 1 \in T
  BY <1>1, <1>2
<1>4. (x - 1) + 1 \in T
  BY <1>2, <1>3
<1> QED
  BY <1>1, <1>2, <1>4

-----------------------------------------------------------------------------
(* Concatenation *)

LEMMA SameSeq ==
    ASSUME NEW S, NEW s \in Seq(S), NEW t \in Seq(S), Len(s) = Len(t),
           \A i \in 1..Len(s) : s[i] = t[i]
    PROVE  s = t
BY SeqEqual

LEMMA ConcatLen ==
    ASSUME NEW S, NEW s \in Seq(S), NEW t \in Seq(S)
    PROVE  s \o t \in Seq(S) /\ Len(s \o t) = Len(s) + Len(t)
BY ConcatProperties

LEMMA ConcatLeft ==
    ASSUME NEW S, NEW s \in Seq(S), NEW t \in Seq(S), NEW i \in 1..Len(s)
    PROVE  (s \o t)[i] = s[i]
BY ConcatProperties, LenProperties

Behind(s, t) == \A i \in 1..Len(t) : (s \o t)[Len(s) + i] = t[i]

LEMMA ConcatRight ==
    ASSUME NEW S, NEW s \in Seq(S), NEW t \in Seq(S)
    PROVE  Behind(s, t)
<1> DEFINE m == Len(s)
           n == Len(t)
           u == s \o t
<1>1. m \in Nat /\ n \in Nat
  BY LenProperties
<1>2. \A j \in 1..(m + n) : u[j] = IF j <= m THEN s[j] ELSE t[j - m]
  BY ConcatProperties
<1> HIDE DEF m, n, u
<1>3. ASSUME NEW i \in 1..n PROVE u[m + i] = t[i]
  <2>1. m + i \in 1..(m + n) /\ ~(m + i <= m) /\ (m + i) - m = i
    BY <1>1
  <2>2. u[m + i] = t[(m + i) - m]
    BY <1>2, <2>1
  <2> QED
    BY <2>1, <2>2
<1> QED
  BY <1>3 DEF Behind, u, m, n

Associates(s, t, u) == (s \o t) \o u = s \o (t \o u)

LEMMA ConcatAssociates ==
    ASSUME NEW S, NEW s \in Seq(S), NEW t \in Seq(S), NEW u \in Seq(S)
    PROVE  Associates(s, t, u)
BY ConcatAssociative DEF Associates

LEMMA MoveOne ==
    ASSUME NEW S, NEW g \in Seq(S), NEW b \in Seq(S), b # <<>>
    PROVE  /\ Append(g, Head(b)) \in Seq(S)
           /\ Append(g, Head(b)) \o Tail(b) = g \o b
<1> DEFINE h == Head(b)
           t == Tail(b)
<1>1. h \in S /\ t \in Seq(S)
  BY HeadTailProperties
<1>2. Append(g, h) = g \o <<h>> /\ Append(g, h) \in Seq(S)
  BY <1>1, AppendIsConcat, AppendProperties
<1>3. b = <<h>> \o t
  <2>1. Len(b) \in Nat /\ 1 \in 1..Len(b) /\ Len(b) \in 1..Len(b)
    BY EmptySeq, LenProperties
  <2>2. SubSeq(b, 1, Len(b)) = <<b[1]>> \o SubSeq(b, 1 + 1, Len(b))
    BY <2>1, SubSeqRecursiveFirst
  <2>3. SubSeq(b, 1, Len(b)) = b /\ Tail(b) = SubSeq(b, 2, Len(b))
    BY SubSeqFull, TailIsSubSeq
  <2>4. h = b[1]
    OBVIOUS
  <2> QED
    BY <2>2, <2>3, <2>4
<1>4. <<h>> \in Seq(S)
  BY <1>1
<1> HIDE DEF h, t
<1> DEFINE one == <<h>>
<1>5. one \in Seq(S)
  BY <1>4
<1>6. Append(g, h) = g \o one /\ b = one \o t
  BY <1>2, <1>3
<1> HIDE DEF one
<1>7. (g \o one) \o t = g \o (one \o t)
  BY <1>1, <1>5, ConcatAssociative
<1> QED
  BY <1>2, <1>6, <1>7 DEF h, t

\* Two ways to cut the same sequence.
CutTwice(g, b, r, w, u) == (g \o b) \o r = w \o u

\* Its first bytes, and its length, are the same.
CutAlike(g, b, r, w, u) ==
    /\ \A i \in 1..Len(g) : i <= Len(w) => g[i] = w[i]
    /\ b # <<>> /\ Len(g) < Len(w) => Head(b) = w[Len(g) + 1]
    /\ Len(g) + Len(b) + Len(r) = Len(w) + Len(u)

LEMMA SameBytes ==
    ASSUME NEW S, NEW g \in Seq(S), NEW b \in Seq(S), NEW r \in Seq(S),
           NEW w \in Seq(S), NEW u \in Seq(S), CutTwice(g, b, r, w, u)
    PROVE  CutAlike(g, b, r, w, u)
<1> DEFINE gb == g \o b
           m == Len(g)
           n == Len(w)
<1>1. gb \in Seq(S) /\ Len(gb) = m + Len(b)
  BY ConcatLen
<1>2. m \in Nat /\ n \in Nat /\ Len(b) \in Nat /\ Len(r) \in Nat /\ Len(u) \in Nat
  BY LenProperties
<1>3. ASSUME NEW i \in 1..m PROVE gb[i] = g[i]
  BY <1>3, ConcatLeft
<1>4. ASSUME NEW i \in 1..Len(b) PROVE gb[m + i] = b[i]
  BY <1>4, ConcatRight DEF Behind
<1>5. gb \o r = w \o u
  BY DEF CutTwice
<1> HIDE DEF gb
<1> DEFINE all == gb \o r
<1>6. ASSUME NEW i \in 1..Len(gb) PROVE all[i] = gb[i]
  BY <1>1, <1>6, ConcatLeft
<1>7. ASSUME NEW i \in 1..n PROVE all[i] = w[i]
  <2>1. (w \o u)[i] = w[i]
    BY <1>7, ConcatLeft
  <2> QED
    BY <1>5, <2>1
<1>8. Len(all) = Len(gb) + Len(r) /\ Len(all) = n + Len(u)
  <2>1. Len(gb \o r) = Len(gb) + Len(r)
    BY <1>1, ConcatLen
  <2>2. Len(w \o u) = n + Len(u)
    BY ConcatLen
  <2> QED
    BY <1>5, <2>1, <2>2
<1> HIDE DEF all
<1>9. ASSUME NEW i \in 1..m, i <= n PROVE g[i] = w[i]
  <2>1. i \in 1..Len(gb) /\ i \in 1..n
    BY <1>1, <1>2, <1>9
  <2> QED
    BY <1>3, <1>6, <1>7, <2>1
<1>10. ASSUME b # <<>>, m < n PROVE Head(b) = w[m + 1]
  <2>1. Len(b) >= 1
    BY <1>2, <1>10, EmptySeq
  <2>2. 1 \in 1..Len(b) /\ m + 1 \in 1..Len(gb) /\ m + 1 \in 1..n
    BY <1>1, <1>2, <1>10, <2>1
  <2>3. all[m + 1] = b[1] /\ all[m + 1] = w[m + 1]
    BY <1>4, <1>6, <1>7, <2>2
  <2>4. Head(b) = b[1]
    OBVIOUS
  <2> QED
    BY <2>3, <2>4
<1>11. m + Len(b) + Len(r) = n + Len(u)
  BY <1>1, <1>2, <1>8
<1> QED
  BY <1>9, <1>10, <1>11 DEF CutAlike

LEMMA Dropped ==
    ASSUME NEW S, NEW g \in Seq(S), NEW b \in Seq(S), NEW r \in Seq(S), NEW u \in Seq(S)
    PROVE  CutTwice(g, b, r, g, u) => b \o r = u
<1>1. (g \o b) \o r = g \o (b \o r)
  BY ConcatAssociative
<1>2. b \o r \in Seq(S)
  BY ConcatLen
<1> DEFINE v == b \o r
<1>3. v \in Seq(S) /\ (g \o b) \o r = g \o v
  BY <1>1, <1>2
<1> HIDE DEF v
<1>4. g \o v = g \o u => v = u
  BY <1>3, ConcatSimplifications
<1> QED
  BY <1>3, <1>4 DEF v, CutTwice

-----------------------------------------------------------------------------
(* Sequences joined end to end *)

\* The equation by which the library defines FlattenSeq.
Flattened(f, n, s) == f = [i \in 1..n |-> IF i = 1 THEN s[i] ELSE f[i - 1] \o s[i]]

LEMMA FlattenedExists ==
    ASSUME NEW n \in Nat, NEW s
    PROVE  \E f : Flattened(f, n, s)
<1> DEFINE T == {k \in 0..n : \E f : Flattened(f, k, s)}
<1>1. 0 \in T
  <2> DEFINE f == [i \in 1..0 |-> {}]
  <2>1. 1..0 = {}
    OBVIOUS
  <2>2. Flattened(f, 0, s)
    BY <2>1 DEF Flattened
  <2> QED
    BY <2>2
<1>2. ASSUME NEW k \in 0..(n - 1), k \in T PROVE k + 1 \in T
  <2>1. PICK f : Flattened(f, k, s)
    BY <1>2
  <2> DEFINE g == [i \in 1..(k + 1) |-> IF i = k + 1
                                          THEN IF k = 0 THEN s[1] ELSE f[k] \o s[k + 1]
                                          ELSE f[i]]
  <2>2. ASSUME NEW i \in 1..(k + 1)
        PROVE  g[i] = IF i = 1 THEN s[i] ELSE g[i - 1] \o s[i]
    <3>1. CASE i = k + 1 /\ k = 0
      BY <3>1
    <3>2. CASE i = k + 1 /\ k # 0
      <4>1. k \in 1..(k + 1) /\ k # k + 1 /\ i - 1 = k /\ i # 1
        BY <3>2
      <4>2. g[k] = f[k]
        BY <4>1
      <4> HIDE DEF g
      <4>3. g[i] = f[k] \o s[k + 1]
        BY <3>2 DEF g
      <4> QED
        BY <3>2, <4>1, <4>2, <4>3
    <3>3. CASE i # k + 1
      <4>1. i \in 1..k
        BY <3>3
      <4>2. f[i] = IF i = 1 THEN s[i] ELSE f[i - 1] \o s[i]
        BY <2>1, <4>1 DEF Flattened
      <4>3. g[i] = f[i]
        BY <3>3
      <4>4. i # 1 => i - 1 \in 1..(k + 1) /\ i - 1 # k + 1
        BY <4>1
      <4>5. i # 1 => g[i - 1] = f[i - 1]
        BY <4>4
      <4> QED
        BY <4>2, <4>3, <4>5
    <3> QED
      BY <3>1, <3>2, <3>3
  <2>3. g = [i \in 1..(k + 1) |-> g[i]]
    OBVIOUS
  <2> HIDE DEF g
  <2>4. Flattened(g, k + 1, s)
    BY <2>2, <2>3 DEF Flattened
  <2> QED
    BY <2>4
<1> HIDE DEF T
<1>3. n \in T
  BY <1>1, <1>2, Induction
<1> QED
  BY <1>3 DEF T

\* What has been joined after each of the sequences.
Joins(acc, s, S) ==
    /\ acc[0] = <<>>
    /\ \A k \in 1..Len(s) : acc[k] = acc[k - 1] \o s[k]
    /\ \A k \in 0..Len(s) : acc[k] \in Seq(S)
    /\ FlattenSeq(s) = acc[Len(s)]

LEMMA FlattenJoins ==
    ASSUME NEW S, NEW s \in Seq(Seq(S))
    PROVE  \E acc : Joins(acc, s, S)
<1> DEFINE n == Len(s)
           f == CHOOSE h : Flattened(h, n, s)
           acc == [k \in 0..n |-> IF k = 0 THEN <<>> ELSE f[k]]
<1>1. n \in Nat
  BY LenProperties
<1>2. Flattened(f, n, s)
  BY <1>1, FlattenedExists
<1>3. n = 0 => s = <<>>
  BY EmptySeq
<1>4. FlattenSeq(s) = IF n = 0 THEN s ELSE f[n]
  BY DEF FlattenSeq, Flattened
<1> HIDE DEF f
<1>5. \A k \in 1..n : f[k] = IF k = 1 THEN s[k] ELSE f[k - 1] \o s[k]
  BY <1>2 DEF Flattened
<1>6. \A k \in 1..n : s[k] \in Seq(S)
  BY ElementOfSeq
<1> HIDE DEF n
<1>7. acc[0] = <<>> /\ \A k \in 1..n : acc[k] = f[k]
  BY <1>1
<1> HIDE DEF acc
<1>8. ASSUME NEW k \in 1..n PROVE acc[k] = acc[k - 1] \o s[k]
  <2>1. CASE k = 1
    <3>1. <<>> \o s[k] = s[k]
      BY <1>6, ConcatEmptySeq
    <3>2. acc[k - 1] = <<>> /\ acc[k] = s[k]
      BY <1>5, <1>7, <2>1
    <3> QED
      BY <3>1, <3>2
  <2>2. CASE k # 1
    <3>1. k - 1 \in 1..n
      BY <1>1, <2>2
    <3>2. acc[k - 1] = f[k - 1]
      BY <1>7, <3>1
    <3> QED
      BY <1>5, <1>7, <2>2, <3>2
  <2> QED
    BY <2>1, <2>2
<1>9. \A k \in 0..n : acc[k] \in Seq(S)
  <2> DEFINE T == {k \in 0..n : acc[k] \in Seq(S)}
  <2>1. 0 \in T
    <3>1. <<>> \in Seq(S)
      BY EmptySeq
    <3>2. acc[0] \in Seq(S)
      BY <1>7, <3>1
    <3> QED
      BY <1>1, <3>2
  <2>2. ASSUME NEW k \in 0..(n - 1), k \in T PROVE k + 1 \in T
    <3>1. k + 1 \in 1..n /\ (k + 1) - 1 = k
      BY <1>1
    <3>2. acc[k + 1] = acc[k] \o s[k + 1]
      BY <1>8, <3>1
    <3>3. acc[k] \o s[k + 1] \in Seq(S)
      BY <1>6, <2>2, <3>1, ConcatLen
    <3>4. acc[k + 1] \in Seq(S)
      BY <3>2, <3>3
    <3> QED
      BY <1>1, <3>1, <3>4
  <2> HIDE DEF T
  <2>3. \A k \in 0..n : k \in T
    BY <1>1, <2>1, <2>2, Induction
  <2> QED
    BY <2>3 DEF T
<1>10. FlattenSeq(s) = acc[n]
  BY <1>1, <1>3, <1>4, <1>7
<1> QED
  BY <1>7, <1>8, <1>9, <1>10 DEF Joins, n

LEMMA FlattenTyped ==
    ASSUME NEW S, NEW s \in Seq(Seq(S))
    PROVE  FlattenSeq(s) \in Seq(S)
<1>1. PICK acc : Joins(acc, s, S)
  BY FlattenJoins
<1>2. Len(s) \in 0..Len(s)
  BY LenProperties
<1> QED
  BY <1>1, <1>2 DEF Joins

LEMMA FlattenEmpty == FlattenSeq(<<>>) = <<>>
BY DEF FlattenSeq

LEMMA FlattenAppend ==
    ASSUME NEW S, NEW s \in Seq(Seq(S)), NEW w \in Seq(S)
    PROVE  FlattenSeq(Append(s, w)) = FlattenSeq(s) \o w
<1> DEFINE t == Append(s, w)
           n == Len(s)
<1>1. /\ t \in Seq(Seq(S)) /\ Len(t) = n + 1 /\ t[n + 1] = w
      /\ \A k \in 1..n : t[k] = s[k]
  BY AppendProperties
<1>2. n \in Nat
  BY LenProperties
<1> HIDE DEF t
<1>3. PICK a : Joins(a, s, S)
  BY FlattenJoins
<1>4. PICK b : Joins(b, t, S)
  BY <1>1, FlattenJoins
<1>5. /\ a[0] = <<>> /\ b[0] = <<>>
      /\ \A k \in 1..n : a[k] = a[k - 1] \o s[k]
      /\ \A k \in 1..(n + 1) : b[k] = b[k - 1] \o t[k]
      /\ FlattenSeq(s) = a[n] /\ FlattenSeq(t) = b[n + 1]
  BY <1>1, <1>3, <1>4 DEF Joins
<1> HIDE DEF n
<1> DEFINE T == {k \in 0..n : a[k] = b[k]}
<1>6. 0 \in T
  BY <1>2, <1>5
<1>7. ASSUME NEW k \in 0..(n - 1), k \in T PROVE k + 1 \in T
  <2>1. k + 1 \in 1..n /\ k + 1 \in 1..(n + 1) /\ (k + 1) - 1 = k
    BY <1>2
  <2>2. a[k + 1] = a[k] \o s[k + 1] /\ b[k + 1] = b[k] \o t[k + 1]
    BY <1>5, <2>1
  <2>3. t[k + 1] = s[k + 1] /\ a[k] = b[k]
    BY <1>1, <1>7, <2>1
  <2>4. a[k + 1] = b[k + 1]
    BY <2>2, <2>3
  <2>5. k + 1 \in 0..n
    BY <2>1
  <2> QED
    BY <2>4, <2>5
<1> HIDE DEF T
<1>8. n \in T
  <2>1. \A k \in 0..n : k \in T
    BY <1>2, <1>6, <1>7, Induction
  <2> QED
    BY <1>2, <2>1
<1>9. b[n + 1] = b[n] \o w
  <2>1. n + 1 \in 1..(n + 1) /\ (n + 1) - 1 = n
    BY <1>2
  <2> QED
    BY <1>1, <1>5, <2>1
<1> QED
  BY <1>5, <1>8, <1>9 DEF T, t

LEMMA FlattenHead ==
    ASSUME NEW S, NEW s \in Seq(Seq(S)), s # <<>>
    PROVE  FlattenSeq(s) = Head(s) \o FlattenSeq(Tail(s))
<1> DEFINE t == Tail(s)
           h == Head(s)
           n == Len(t)
<1>1. h \in Seq(S) /\ t \in Seq(Seq(S)) /\ Len(t) = Len(s) - 1
  BY HeadTailProperties
<1>2. \A k \in 1..n : t[k] = s[k + 1]
  BY HeadTailProperties
<1>3. h = s[1]
  OBVIOUS
<1>4. n \in Nat /\ Len(s) = n + 1
  BY <1>1, LenProperties
<1> HIDE DEF t, h
<1>5. PICK a : Joins(a, s, S)
  BY FlattenJoins
<1>6. PICK b : Joins(b, t, S)
  BY <1>1, FlattenJoins
<1>7. /\ a[0] = <<>> /\ b[0] = <<>>
      /\ \A k \in 1..(n + 1) : a[k] = a[k - 1] \o s[k]
      /\ \A k \in 1..n : b[k] = b[k - 1] \o t[k]
      /\ \A k \in 0..n : b[k] \in Seq(S)
      /\ FlattenSeq(s) = a[n + 1] /\ FlattenSeq(t) = b[n]
  BY <1>4, <1>5, <1>6 DEF Joins
<1>8. \A k \in 1..n : t[k] \in Seq(S)
  BY <1>1, ElementOfSeq
<1> HIDE DEF n
<1> DEFINE T == {k \in 0..n : a[k + 1] = h \o b[k]}
<1>9. 0 \in T
  <2>1. <<>> \o h = h /\ h \o <<>> = h
    BY <1>1, ConcatEmptySeq
  <2>2. a[1] = a[0] \o s[1]
    <3>1. 1 \in 1..(n + 1) /\ 1 - 1 = 0
      BY <1>4
    <3>2. a[1] = a[1 - 1] \o s[1]
      BY <1>7, <3>1
    <3> QED
      BY <3>1, <3>2
  <2>3. a[0 + 1] = h \o b[0]
    BY <1>3, <1>7, <2>1, <2>2
  <2> QED
    BY <1>4, <2>3
<1>10. ASSUME NEW k \in 0..(n - 1), k \in T PROVE k + 1 \in T
  <2>1. /\ k + 1 \in 1..n /\ (k + 1) + 1 \in 1..(n + 1)
        /\ (k + 1) - 1 = k /\ ((k + 1) + 1) - 1 = k + 1 /\ k \in 0..n
    BY <1>4
  <2>2. a[(k + 1) + 1] = a[k + 1] \o s[(k + 1) + 1]
    BY <1>7, <2>1
  <2>3. b[k + 1] = b[k] \o t[k + 1] /\ t[k + 1] = s[(k + 1) + 1]
    BY <1>2, <1>7, <2>1
  <2>4. a[k + 1] = h \o b[k]
    BY <1>10
  <2>5. (h \o b[k]) \o t[k + 1] = h \o (b[k] \o t[k + 1])
    <3> DEFINE x == b[k]
               y == t[k + 1]
    <3>1. h \in Seq(S) /\ x \in Seq(S) /\ y \in Seq(S)
      BY <1>1, <1>7, <1>8, <2>1
    <3> HIDE DEF x, y
    <3>2. Associates(h, x, y)
      BY <3>1, ConcatAssociates
    <3> QED
      BY <3>2 DEF x, y, Associates
  <2>6. a[(k + 1) + 1] = h \o b[k + 1]
    BY <2>2, <2>3, <2>4, <2>5
  <2> QED
    BY <1>4, <2>1, <2>6
<1> HIDE DEF T
<1>11. n \in T
  <2>1. \A k \in 0..n : k \in T
    BY <1>4, <1>9, <1>10, Induction
  <2> QED
    BY <1>4, <2>1
<1> QED
  BY <1>7, <1>11 DEF T, t, h
=============================================================================
