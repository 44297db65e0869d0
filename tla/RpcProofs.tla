------------------------------ MODULE RpcProofs ------------------------------
(***************************************************************************)
(* Machine-checked theorems about Rpc, for every set of frames, every      *)
(* bound and every set of faults: its types, and that the reader passes    *)
(* frames on as FrameChannel promises.                                     *)
(***************************************************************************)
EXTENDS Rpc, SequenceLemmas

-----------------------------------------------------------------------------
(* The check byte *)

Upto(n) == 1..n

\* The equation by which the library defines the fold has a solution.
Folded(f, n, bytes) ==
    f = [s \in SUBSET Upto(n) |->
            IF s = {} THEN {} ELSE Xor(f[s \ {Max(s)}], bytes[Max(s)])]

LEMMA MaxIsLast ==
    ASSUME NEW n \in Nat \ {0}, NEW s \in SUBSET Upto(n), n \in s
    PROVE  Max(s) = n
<1>1. \A x \in s : x \in Nat /\ n >= x
  BY DEF Upto
<1>2. \A x \in s : (\A y \in s : x >= y) => x = n
  BY <1>1
<1> QED
  BY <1>1, <1>2 DEF Max

LEMMA FoldExists ==
    ASSUME NEW n \in Nat, NEW bytes
    PROVE  \E f : Folded(f, n, bytes)
<1> DEFINE T == {k \in 0..n : \E f : Folded(f, k, bytes)}
<1>1. 0 \in T
  <2> DEFINE f == [s \in SUBSET Upto(0) |-> {}]
  <2>1. \A s \in SUBSET Upto(0) : s = {}
    BY DEF Upto
  <2>2. Folded(f, 0, bytes)
    BY <2>1 DEF Folded
  <2> QED
    BY <2>2
<1>2. ASSUME NEW k \in 0..(n - 1), k \in T PROVE k + 1 \in T
  <2>1. PICK f : Folded(f, k, bytes)
    BY <1>2
  <2> DEFINE g == [s \in SUBSET Upto(k + 1) |->
                      IF k + 1 \in s THEN Xor(f[s \ {k + 1}], bytes[k + 1]) ELSE f[s]]
  <2>2. Upto(k) = Upto(k + 1) \ {k + 1}
    BY DEF Upto
  <2>3. ASSUME NEW s \in SUBSET Upto(k + 1)
        PROVE  g[s] = IF s = {} THEN {} ELSE Xor(g[s \ {Max(s)}], bytes[Max(s)])
    <3>1. CASE k + 1 \in s
      <4>1. Max(s) = k + 1
        BY <3>1, MaxIsLast
      <4>2. g[s \ {k + 1}] = f[s \ {k + 1}]
        OBVIOUS
      <4> QED
        BY <3>1, <4>1, <4>2
    <3>2. CASE k + 1 \notin s
      <4>1. s \in SUBSET Upto(k) /\ s \ {Max(s)} \in SUBSET Upto(k + 1)
        BY <2>2, <3>2
      <4>2. g[s] = f[s] /\ g[s \ {Max(s)}] = f[s \ {Max(s)}]
        BY <3>2, <4>1
      <4>3. f[s] = IF s = {} THEN {} ELSE Xor(f[s \ {Max(s)}], bytes[Max(s)])
        BY <2>1, <4>1 DEF Folded
      <4> QED
        BY <4>2, <4>3
    <3> QED
      BY <3>1, <3>2
  <2>4. g = [s \in SUBSET Upto(k + 1) |-> g[s]]
    OBVIOUS
  <2> HIDE DEF g
  <2>5. Folded(g, k + 1, bytes)
    BY <2>3, <2>4 DEF Folded
  <2> QED
    BY <2>5
<1> HIDE DEF T
<1>3. n \in T
  BY <1>1, <1>2, Induction
<1> QED
  BY <1>3 DEF T

\* The check byte as the successive values of the variable of the loop
\* (rpc.c:96-99).
Checks(acc, bytes) ==
    /\ acc[0] = {}
    /\ \A k \in 1..Len(bytes) : acc[k] = Xor(acc[k - 1], bytes[k])

LEMMA FcsChecks ==
    ASSUME NEW bytes \in Seq(Bytes)
    PROVE  \E acc : Checks(acc, bytes) /\ Fcs(bytes) = acc[Len(bytes)]
<1> DEFINE n == Len(bytes)
           f == CHOOSE f : f = [s \in SUBSET (DOMAIN bytes) |->
                                   IF s = {} THEN {} ELSE Xor(f[s \ {Max(s)}], bytes[Max(s)])]
<1>1. n \in Nat /\ DOMAIN bytes = Upto(n)
  BY DEF Upto
<1>2. Fcs(bytes) = f[DOMAIN bytes]
  BY DEF Fcs, FoldLeft, MapThenFoldSet
<1>3. f = CHOOSE h : Folded(h, n, bytes)
  BY <1>1 DEF Folded
<1> HIDE DEF f, n
<1>4. Folded(f, n, bytes)
  BY <1>1, <1>3, FoldExists
<1> DEFINE acc == [k \in 0..n |-> f[Upto(k)]]
<1>5. acc[0] = {}
  BY <1>1, <1>4 DEF Folded, Upto
<1>6. ASSUME NEW k \in 1..n PROVE acc[k] = Xor(acc[k - 1], bytes[k])
  <2>1. Upto(k) \in SUBSET Upto(n) /\ Upto(k) # {} /\ Upto(k - 1) = Upto(k) \ {k} /\ k \in Upto(k)
    BY <1>1 DEF Upto
  <2>2. Max(Upto(k)) = k
    BY <1>1, <2>1, MaxIsLast
  <2>3. f[Upto(k)] = Xor(f[Upto(k) \ {k}], bytes[k])
    BY <1>4, <2>1, <2>2 DEF Folded
  <2>4. acc[k] = f[Upto(k)] /\ acc[k - 1] = f[Upto(k - 1)]
    BY <1>1
  <2> QED
    BY <2>1, <2>3, <2>4
<1>7. f[DOMAIN bytes] = acc[n]
  BY <1>1
<1> HIDE DEF acc
<1> QED
  BY <1>2, <1>5, <1>6, <1>7 DEF Checks, n

LEMMA FcsTyped ==
    ASSUME NEW bytes \in Seq(Bytes)
    PROVE  Fcs(bytes) \in Bytes
<1> DEFINE n == Len(bytes)
<1>1. n \in Nat /\ \A k \in 1..n : bytes[k] \in Bytes
  BY LenProperties, ElementOfSeq
<1>2. PICK acc : Checks(acc, bytes) /\ Fcs(bytes) = acc[n]
  BY FcsChecks
<1> HIDE DEF n
<1> DEFINE T == {k \in 0..n : acc[k] \in Bytes}
<1>3. 0 \in T
  BY <1>1, <1>2 DEF Checks, Bytes
<1>4. ASSUME NEW k \in 0..(n - 1), k \in T PROVE k + 1 \in T
  <2>1. acc[k + 1] = Xor(acc[k], bytes[k + 1]) /\ bytes[k + 1] \in Bytes
    BY <1>1, <1>2 DEF Checks, n
  <2>2. acc[k + 1] \in Bytes
    BY <1>4, <2>1 DEF Bytes, Xor
  <2> QED
    BY <1>1, <2>2
<1> HIDE DEF T
<1>5. \A k \in 0..n : k \in T
  BY <1>1, <1>3, <1>4, Induction
<1>6. n \in T
  BY <1>1, <1>5
<1> QED
  BY <1>2, <1>6 DEF T

\* A bit that comes over wrong in what is checked shows in the check byte.
LEMMA FlipShows ==
    ASSUME NEW s \in Seq(Bytes), NEW t \in Seq(Bytes), Len(t) = Len(s),
           NEW k \in 1..Len(s), NEW bit \in Bits, t[k] = Xor(s[k], {bit}),
           \A j \in 1..Len(s) : j # k => t[j] = s[j]
    PROVE  Fcs(t) # Fcs(s)
<1> DEFINE n == Len(s)
<1>1. n \in Nat /\ Len(t) = n /\ k \in 1..n
  BY LenProperties
<1>2. PICK a : Checks(a, s) /\ Fcs(s) = a[n]
  BY FcsChecks
<1>3. PICK b : Checks(b, t) /\ Fcs(t) = b[n]
  BY <1>1, FcsChecks
<1>4. /\ a[0] = {} /\ b[0] = {}
      /\ \A j \in 1..n : a[j] = Xor(a[j - 1], s[j]) /\ b[j] = Xor(b[j - 1], t[j])
  BY <1>1, <1>2, <1>3 DEF Checks
<1> HIDE DEF n
<1> DEFINE T == {j \in 0..n : b[j] = IF j < k THEN a[j] ELSE Xor(a[j], {bit})}
<1>5. 0 \in T
  <2>1. 0 < k /\ 0 \in 0..n
    BY <1>1
  <2> QED
    BY <1>4, <2>1
<1>6. ASSUME NEW j \in 0..(n - 1), j \in T PROVE j + 1 \in T
  <2>1. /\ j + 1 \in 1..n /\ (j + 1) - 1 = j
        /\ a[j + 1] = Xor(a[j], s[j + 1]) /\ b[j + 1] = Xor(b[j], t[j + 1])
    BY <1>1, <1>4
  <2>2. CASE j + 1 < k
    BY <1>1, <1>6, <2>1, <2>2 DEF n
  <2>3. CASE j + 1 = k
    <3>1. b[j] = a[j] /\ t[j + 1] = Xor(s[j + 1], {bit})
      BY <1>1, <1>6, <2>3
    <3>2. b[j + 1] = Xor(a[j + 1], {bit})
      BY <2>1, <3>1 DEF Xor
    <3> QED
      BY <1>1, <2>1, <2>3, <3>2
  <2>4. CASE j + 1 > k
    <3>1. b[j] = Xor(a[j], {bit}) /\ t[j + 1] = s[j + 1]
      BY <1>1, <1>6, <2>1, <2>4 DEF n
    <3>2. b[j + 1] = Xor(a[j + 1], {bit})
      BY <2>1, <3>1 DEF Xor
    <3> QED
      BY <1>1, <2>1, <2>4, <3>2
  <2> QED
    BY <1>1, <2>2, <2>3, <2>4
<1> HIDE DEF T
<1>7. \A j \in 0..n : j \in T
  BY <1>1, <1>5, <1>6, Induction
<1>8. b[n] = Xor(a[n], {bit})
  <2>1. n \in 0..n /\ ~(n < k)
    BY <1>1
  <2>2. n \in T
    BY <1>7, <2>1
  <2> QED
    BY <2>1, <2>2 DEF T
<1> QED
  BY <1>2, <1>3, <1>8 DEF Xor

-----------------------------------------------------------------------------
(* Frames *)

LEMMA SoundTyped == RPC_SOF \in Bytes /\ {} \in Bytes
BY DEF RPC_SOF, Bytes

LEMMA LengthByte ==
    ASSUME NEW f \in Traffic
    PROVE  Byte(Len(f.data)) \in Bytes /\ Number(Byte(Len(f.data))) = Len(f.data)
BY RpcAssumption DEF Byte

BodyOf(f) == <<Byte(Len(f.data)), f.cmd0, f.cmd1>> \o f.data

LEMMA FrameTyped ==
    ASSUME NEW f \in Traffic
    PROVE  f.cmd0 \in Bytes /\ f.cmd1 \in Bytes /\ f.data \in Seq(Bytes) /\ f \in Frames
BY RpcAssumption DEF Frames

LEMMA BodyTyped ==
    ASSUME NEW f \in Traffic
    PROVE  /\ BodyOf(f) \in Seq(Bytes)
           /\ Len(BodyOf(f)) = 3 + Len(f.data) /\ Len(f.data) \in Nat
           /\ BodyOf(f)[1] = Byte(Len(f.data))
           /\ BodyOf(f)[2] = f.cmd0 /\ BodyOf(f)[3] = f.cmd1
           /\ \A i \in 1..Len(f.data) : BodyOf(f)[3 + i] = f.data[i]
<1> DEFINE three == <<Byte(Len(f.data)), f.cmd0, f.cmd1>>
           d == f.data
           m == Len(three)
<1>1. three \in Seq(Bytes) /\ m = 3
  BY LengthByte, FrameTyped
<1>2. three[1] = Byte(Len(d)) /\ three[2] = f.cmd0 /\ three[3] = f.cmd1
  OBVIOUS
<1>3. d \in Seq(Bytes) /\ Len(d) \in Nat
  BY FrameTyped, LenProperties
<1>4. BodyOf(f) = three \o d
  BY DEF BodyOf
<1> HIDE DEF three, d
<1>5. three \o d \in Seq(Bytes) /\ Len(three \o d) = m + Len(d)
  BY <1>1, <1>3, ConcatLen
<1>6. ASSUME NEW i \in 1..m PROVE (three \o d)[i] = three[i]
  BY <1>1, <1>3, ConcatLeft
<1>7. ASSUME NEW i \in 1..Len(d) PROVE (three \o d)[m + i] = d[i]
  <2>1. Behind(three, d)
    BY <1>1, <1>3, ConcatRight
  <2> QED
    BY <2>1 DEF Behind
<1> HIDE DEF m
<1>8. 1 \in 1..m /\ 2 \in 1..m /\ 3 \in 1..m
  BY <1>1
<1>9. /\ (three \o d)[1] = Byte(Len(d))
      /\ (three \o d)[2] = f.cmd0 /\ (three \o d)[3] = f.cmd1
  BY <1>2, <1>6, <1>8
<1> DEFINE body == three \o d
<1>10. /\ body \in Seq(Bytes) /\ Len(body) = m + Len(d)
       /\ \A i \in 1..Len(d) : body[m + i] = d[i]
  BY <1>5, <1>7
<1>11. body[1] = Byte(Len(d)) /\ body[2] = f.cmd0 /\ body[3] = f.cmd1
  BY <1>9
<1>12. BodyOf(f) = body
  BY <1>4
<1> HIDE DEF body
<1> QED
  BY <1>1, <1>3, <1>10, <1>11, <1>12 DEF d

\* A frame on the line, place by place.
LEMMA EncodeTyped ==
    ASSUME NEW f \in Traffic
    PROVE  /\ Encode(f) \in Seq(Bytes)
           /\ Len(Encode(f)) = 5 + Len(f.data) /\ Len(f.data) \in Nat
           /\ Encode(f)[1] = RPC_SOF
           /\ \A i \in 1..(3 + Len(f.data)) : Encode(f)[1 + i] = BodyOf(f)[i]
           /\ Encode(f)[5 + Len(f.data)] = Fcs(BodyOf(f))
<1> DEFINE body == BodyOf(f)
           n == Len(f.data)
           start == <<RPC_SOF>>
           check == <<Fcs(body)>>
           one == Len(start)
<1>1. body \in Seq(Bytes) /\ Len(body) = 3 + n /\ n \in Nat
  BY BodyTyped
<1>2. start \in Seq(Bytes) /\ one = 1 /\ start[1] = RPC_SOF
  BY SoundTyped
<1>3. check \in Seq(Bytes) /\ Len(check) = 1 /\ check[1] = Fcs(body)
  BY <1>1, FcsTyped
<1>4. Encode(f) = (start \o body) \o check
  BY DEF Encode, BodyOf
<1> HIDE DEF body, n, start, check
<1> DEFINE head == start \o body
           m == Len(head)
<1>5. head \in Seq(Bytes) /\ m = one + Len(body)
  BY <1>1, <1>2, ConcatLen
<1>6. ASSUME NEW i \in 1..one PROVE head[i] = start[i]
  BY <1>1, <1>2, ConcatLeft
<1>7. ASSUME NEW i \in 1..Len(body) PROVE head[one + i] = body[i]
  <2>1. Behind(start, body)
    BY <1>1, <1>2, ConcatRight
  <2> QED
    BY <2>1 DEF Behind
<1> HIDE DEF head, one
<1> DEFINE all == head \o check
<1>8. all \in Seq(Bytes) /\ Len(all) = m + Len(check)
  BY <1>3, <1>5, ConcatLen
<1>9. ASSUME NEW i \in 1..m PROVE all[i] = head[i]
  BY <1>3, <1>5, ConcatLeft
<1>10. ASSUME NEW i \in 1..Len(check) PROVE all[m + i] = check[i]
  <2>1. Behind(head, check)
    BY <1>3, <1>5, ConcatRight
  <2> QED
    BY <2>1 DEF Behind
<1>11. Encode(f) = all
  BY <1>4 DEF head
<1> HIDE DEF all, m
<1>12. m = 4 + n /\ m \in Nat
  BY <1>1, <1>2, <1>5
<1>13. all[1] = RPC_SOF
  BY <1>1, <1>2, <1>6, <1>9, <1>12
<1>14. ASSUME NEW i \in 1..(3 + n) PROVE all[1 + i] = body[i]
  <2>1. i \in 1..Len(body) /\ 1 + i \in 1..m
    BY <1>1, <1>12
  <2> QED
    BY <1>2, <1>7, <1>9, <2>1
<1>15. all[5 + n] = Fcs(body)
  <2>1. 5 + n = m + 1 /\ 1 \in 1..Len(check)
    BY <1>1, <1>3, <1>12
  <2> QED
    BY <1>3, <1>10, <2>1
<1>16. Len(all) = 5 + n
  BY <1>1, <1>3, <1>8, <1>12
<1> QED
  BY <1>1, <1>8, <1>11, <1>13, <1>14, <1>15, <1>16 DEF body, n

\* What the check byte is of.
Inner(w) == SubSeq(w, 2, Len(w) - 1)

LEMMA InnerTyped ==
    ASSUME NEW w \in Seq(Bytes), Len(w) >= 2
    PROVE  /\ Inner(w) \in Seq(Bytes)
           /\ Len(Inner(w)) = Len(w) - 2
           /\ \A i \in 1..(Len(w) - 2) : Inner(w)[i] = w[i + 1]
<1> DEFINE n == Len(w)
           b == n - 1
<1>1. n \in Nat /\ 2 \in 1..n /\ b \in 1..n /\ 2 <= b + 1 /\ (b - 2) + 1 = n - 2
  BY LenProperties
<1>2. /\ SubSeq(w, 2, b) \in Seq(Bytes)
      /\ Len(SubSeq(w, 2, b)) = IF 2 <= b THEN b - 2 + 1 ELSE 0
      /\ \A i \in 1..(b - 2 + 1) : SubSeq(w, 2, b)[i] = w[2 + i - 1]
  BY <1>1, SubSeqProperties
<1>3. \A i \in 1..(n - 2) : 2 + i - 1 = i + 1
  OBVIOUS
<1> QED
  BY <1>1, <1>2, <1>3 DEF Inner

LEMMA EncodeInner ==
    ASSUME NEW f \in Traffic
    PROVE  Inner(Encode(f)) = BodyOf(f)
<1> DEFINE e == Encode(f)
           n == Len(f.data)
<1>1. /\ e \in Seq(Bytes) /\ Len(e) = 5 + n /\ n \in Nat
      /\ \A i \in 1..(3 + n) : e[1 + i] = BodyOf(f)[i]
  BY EncodeTyped
<1>2. BodyOf(f) \in Seq(Bytes) /\ Len(BodyOf(f)) = 3 + n
  BY BodyTyped
<1> HIDE DEF e, n
<1>3. Len(e) >= 2 /\ Len(e) - 2 = 3 + n
  BY <1>1
<1>4. /\ Inner(e) \in Seq(Bytes) /\ Len(Inner(e)) = 3 + n
      /\ \A i \in 1..(3 + n) : Inner(e)[i] = e[i + 1]
  BY <1>1, <1>3, InnerTyped
<1>5. ASSUME NEW i \in 1..(3 + n) PROVE Inner(e)[i] = BodyOf(f)[i]
  <2>1. i + 1 = 1 + i
    OBVIOUS
  <2> QED
    BY <1>1, <1>4, <2>1
<1>6. Inner(e) = BodyOf(f)
  BY <1>2, <1>4, <1>5, SameSeq
<1> QED
  BY <1>6 DEF e

LEMMA DecodeEncode ==
    ASSUME NEW f \in Traffic
    PROVE  Decode(Encode(f)) = f /\ Sound(Encode(f))
<1> DEFINE e == Encode(f)
           n == Len(f.data)
           d == SubSeq(e, 5, Len(e) - 1)
<1>1. /\ e \in Seq(Bytes) /\ Len(e) = 5 + n /\ n \in Nat
      /\ \A i \in 1..(3 + n) : e[1 + i] = BodyOf(f)[i]
      /\ e[5 + n] = Fcs(BodyOf(f))
  BY EncodeTyped
<1>2. /\ BodyOf(f)[2] = f.cmd0 /\ BodyOf(f)[3] = f.cmd1
      /\ \A i \in 1..n : BodyOf(f)[3 + i] = f.data[i]
  BY BodyTyped
<1>3. Sound(e)
  <2>1. Inner(e) = BodyOf(f)
    BY EncodeInner
  <2>2. Last(e) = e[5 + n]
    BY <1>1 DEF Last
  <2> QED
    BY <1>1, <2>1, <2>2 DEF Sound, Inner
<1> HIDE DEF e
<1>4. e[3] = f.cmd0 /\ e[4] = f.cmd1
  <2>1. 2 \in 1..(3 + n) /\ 3 \in 1..(3 + n) /\ 1 + 2 = 3 /\ 1 + 3 = 4
    BY <1>1
  <2> QED
    BY <1>1, <1>2, <2>1
<1>5. d \in Seq(Bytes) /\ Len(d) = n /\ \A i \in 1..n : d[i] = e[4 + i]
  <2> DEFINE b == Len(e) - 1
  <2>1. Len(e) \in Nat /\ 5 \in 1..Len(e) /\ b \in 0..Len(e) /\ b - 5 + 1 = n /\ 5 <= b + 1
    BY <1>1
  <2>2. /\ SubSeq(e, 5, b) \in Seq(Bytes)
        /\ Len(SubSeq(e, 5, b)) = IF 5 <= b THEN b - 5 + 1 ELSE 0
        /\ \A i \in 1..(b - 5 + 1) : SubSeq(e, 5, b)[i] = e[5 + i - 1]
    BY <1>1, <2>1, SubSeqProperties
  <2>3. \A i \in 1..n : 5 + i - 1 = 4 + i
    BY <1>1
  <2> QED
    BY <2>1, <2>2, <2>3
<1>6. f.data \in Seq(Bytes) /\ Len(f.data) = n
  BY FrameTyped
<1> HIDE DEF d, n
<1>7. ASSUME NEW i \in 1..n PROVE d[i] = f.data[i]
  <2>1. 3 + i \in 1..(3 + n) /\ 1 + (3 + i) = 4 + i
    BY <1>1
  <2> QED
    BY <1>1, <1>2, <1>5, <2>1
<1>8. d = f.data
  BY <1>5, <1>6, <1>7, SameSeq
<1>9. Decode(e) = [cmd0 |-> f.cmd0, cmd1 |-> f.cmd1, data |-> f.data]
  BY <1>4, <1>8 DEF Decode, d
<1>10. f = [cmd0 |-> f.cmd0, cmd1 |-> f.cmd1, data |-> f.data]
  BY FrameTyped DEF Frames
<1> QED
  BY <1>3, <1>9, <1>10 DEF e

-----------------------------------------------------------------------------
(* Words: what comes over for a frame *)

\* Frame f with one bit of byte k wrong.
Flipped(f, k, bit) == [Encode(f) EXCEPT ![k] = Xor(@, {bit})]

\* What is on the line for a frame of the queue.
Word(w, x) ==
    \/ x \in Traffic /\ w = Encode(x)
    \/ /\ x = Damaged
       /\ \E f \in Traffic, bit \in Bits : \E k \in 3..Len(Encode(f)) : w = Flipped(f, k, bit)

LEMMA FlippedTyped ==
    ASSUME NEW f \in Traffic, NEW bit \in Bits, NEW k \in 1..Len(Encode(f))
    PROVE  /\ Flipped(f, k, bit) \in Seq(Bytes)
           /\ Len(Flipped(f, k, bit)) = Len(Encode(f))
           /\ Flipped(f, k, bit)[k] = Xor(Encode(f)[k], {bit})
           /\ \A j \in 1..Len(Encode(f)) : j # k => Flipped(f, k, bit)[j] = Encode(f)[j]
<1> DEFINE e == Encode(f)
<1>1. e \in Seq(Bytes) /\ Len(e) \in Nat
  BY EncodeTyped, LenProperties
<1> HIDE DEF e
<1>2. k \in 1..Len(e)
  BY <1>1 DEF e
<1>3. e[k] \in Bytes
  BY <1>1, <1>2, ElementOfSeq
<1>4. Xor(e[k], {bit}) \in Bytes
  BY <1>3 DEF Bytes, Xor
<1> DEFINE b == Xor(e[k], {bit})
<1> HIDE DEF b
<1>5. b \in Bytes
  BY <1>4 DEF b
<1>6. /\ [e EXCEPT ![k] = b] \in Seq(Bytes)
      /\ Len([e EXCEPT ![k] = b]) = Len(e)
      /\ \A j \in 1..Len(e) : [e EXCEPT ![k] = b][j] = IF j = k THEN b ELSE e[j]
  BY <1>1, <1>2, <1>5, ExceptSeq
<1>7. Flipped(f, k, bit) = [e EXCEPT ![k] = b]
  BY DEF Flipped, e, b
<1> QED
  BY <1>2, <1>6, <1>7 DEF e, b

LEMMA WordShape ==
    ASSUME NEW w, NEW x, Word(w, x)
    PROVE  /\ w \in Seq(Bytes) /\ Len(w) >= 5 /\ Len(w) \in Nat
           /\ w[1] = RPC_SOF
           /\ Len(w) = FrameSize(w)
           /\ x \in Traffic \cup {Damaged}
<1>1. PICK f \in Traffic :
        /\ w \in Seq(Bytes) /\ Len(w) = Len(Encode(f))
        /\ w[1] = Encode(f)[1] /\ w[2] = Encode(f)[2]
  <2>1. CASE x \in Traffic /\ w = Encode(x)
    BY <2>1, EncodeTyped
  <2>2. CASE \E f \in Traffic, bit \in Bits : \E k \in 3..Len(Encode(f)) : w = Flipped(f, k, bit)
    <3>1. PICK f \in Traffic, bit \in Bits : \E k \in 3..Len(Encode(f)) : w = Flipped(f, k, bit)
      BY <2>2
    <3>2. PICK k \in 3..Len(Encode(f)) : w = Flipped(f, k, bit)
      BY <3>1
    <3>3. /\ Flipped(f, k, bit) \in Seq(Bytes)
          /\ Len(Flipped(f, k, bit)) = Len(Encode(f))
          /\ \A j \in 1..Len(Encode(f)) : j # k => Flipped(f, k, bit)[j] = Encode(f)[j]
      <4>1. k \in 1..Len(Encode(f))
        OBVIOUS
      <4> QED
        BY <4>1, FlippedTyped
    <3>4. Len(Encode(f)) \in Nat /\ Len(Encode(f)) >= 5
      BY EncodeTyped
    <3>5. w[1] = Encode(f)[1] /\ w[2] = Encode(f)[2]
      BY <3>2, <3>3, <3>4
    <3> QED
      BY <3>2, <3>3, <3>5
  <2> QED
    BY <2>1, <2>2 DEF Word
<1> DEFINE n == Len(f.data)
<1>2. /\ Len(Encode(f)) = 5 + n /\ n \in Nat
      /\ Encode(f)[1] = RPC_SOF
      /\ \A i \in 1..(3 + n) : Encode(f)[1 + i] = BodyOf(f)[i]
  BY EncodeTyped
<1>3. BodyOf(f)[1] = Byte(n)
  BY BodyTyped
<1>4. Number(Byte(n)) = n
  BY LengthByte
<1> HIDE DEF n
<1>5. Encode(f)[2] = Byte(n)
  <2>1. 1 \in 1..(3 + n) /\ 1 + 1 = 2
    BY <1>2
  <2> QED
    BY <1>2, <1>3, <2>1
<1>6. x \in Traffic \cup {Damaged}
  BY DEF Word
<1>7. Len(w) = 5 + n /\ Number(w[2]) = n
  BY <1>1, <1>2, <1>4, <1>5
<1> QED
  BY <1>1, <1>2, <1>6, <1>7 DEF FrameSize

\* The check byte tells a frame from one in which a bit is wrong.
LEMMA WordDispatched ==
    ASSUME NEW w, NEW x, Word(w, x)
    PROVE  /\ Sound(w) => x \in Traffic /\ Decode(w) = x
           /\ x \in Traffic => Sound(w)
<1>1. CASE x \in Traffic /\ w = Encode(x)
  BY <1>1, DecodeEncode
<1>2. CASE x = Damaged
  <2>1. x \notin Traffic
    BY <1>2, RpcAssumption
  <2>2. PICK f \in Traffic, bit \in Bits : \E k \in 3..Len(Encode(f)) : w = Flipped(f, k, bit)
    BY <2>1 DEF Word
  <2>3. PICK k \in 3..Len(Encode(f)) : w = Flipped(f, k, bit)
    BY <2>2
  <2> DEFINE e == Encode(f)
             n == Len(e)
  <2>4. /\ w \in Seq(Bytes) /\ Len(w) = n /\ w[k] = Xor(e[k], {bit})
        /\ \A j \in 1..n : j # k => w[j] = e[j]
    <3>1. k \in 1..Len(Encode(f))
      OBVIOUS
    <3> QED
      BY <2>3, <3>1, FlippedTyped
  <2>5. e \in Seq(Bytes) /\ n \in Nat /\ n >= 5 /\ k \in 3..n
    BY EncodeTyped
  <2>6. Sound(e)
    BY DecodeEncode
  <2> HIDE DEF e
  <2>7. Fcs(Inner(e)) = e[n]
    BY <2>6 DEF Sound, Inner, Last
  <2>8. /\ Inner(e) \in Seq(Bytes) /\ Len(Inner(e)) = n - 2
        /\ \A i \in 1..(n - 2) : Inner(e)[i] = e[i + 1]
    BY <2>5, InnerTyped
  <2>9. /\ Inner(w) \in Seq(Bytes) /\ Len(Inner(w)) = n - 2
        /\ \A i \in 1..(n - 2) : Inner(w)[i] = w[i + 1]
    BY <2>4, <2>5, InnerTyped
  <2> HIDE DEF n
  <2>10. Fcs(Inner(w)) # w[n]
    <3>1. CASE k < n
      <4>1. w[n] = e[n]
        BY <2>4, <2>5, <3>1
      <4>2. k - 1 \in 1..(n - 2) /\ (k - 1) + 1 = k
        BY <2>5, <3>1
      <4>3. Inner(w)[k - 1] = Xor(Inner(e)[k - 1], {bit})
        BY <2>4, <2>8, <2>9, <4>2
      <4>4. ASSUME NEW j \in 1..(n - 2), j # k - 1 PROVE Inner(w)[j] = Inner(e)[j]
        <5>1. j + 1 \in 1..n /\ j + 1 # k
          BY <2>5, <4>2, <4>4
        <5> QED
          BY <2>4, <2>8, <2>9, <5>1
      <4>5. Fcs(Inner(w)) # Fcs(Inner(e))
        <5> DEFINE s == Inner(e)
                   t == Inner(w)
                   i == k - 1
        <5> HIDE DEF s, t, i
        <5>1. s \in Seq(Bytes) /\ t \in Seq(Bytes) /\ Len(t) = Len(s)
          BY <2>8, <2>9 DEF s, t
        <5>2. i \in 1..Len(s) /\ t[i] = Xor(s[i], {bit})
          BY <2>8, <4>2, <4>3 DEF s, t, i
        <5>3. \A j \in 1..Len(s) : j # i => t[j] = s[j]
          BY <2>8, <4>4 DEF s, t, i
        <5>4. Fcs(t) # Fcs(s)
          BY <5>1, <5>2, <5>3, FlipShows
        <5> QED
          BY <5>4 DEF s, t
      <4> QED
        BY <2>7, <4>1, <4>5
    <3>2. CASE k = n
      <4>1. ASSUME NEW j \in 1..(n - 2) PROVE Inner(w)[j] = Inner(e)[j]
        <5>1. j + 1 \in 1..n /\ j + 1 # k
          BY <2>5, <3>2
        <5> QED
          BY <2>4, <2>8, <2>9, <5>1
      <4>2. Inner(w) = Inner(e)
        BY <2>8, <2>9, <4>1, SameSeq
      <4>3. w[n] = Xor(e[n], {bit})
        BY <2>4, <3>2
      <4> QED
        BY <2>7, <4>2, <4>3 DEF Xor
    <3> QED
      BY <2>5, <3>1, <3>2
  <2>11. ~Sound(w)
    BY <2>4, <2>10 DEF Sound, Inner, Last
  <2> QED
    BY <2>1, <2>11
<1> QED
  BY <1>1, <1>2 DEF Word

-----------------------------------------------------------------------------
(* Types *)

LEMMA SizeTyped ==
    ASSUME NEW g \in Seq(Bytes), Len(g) >= 2
    PROVE  FrameSize(g) \in Nat /\ FrameSize(g) >= 5
<1>1. g[2] \in Bytes
  <2>1. 2 \in 1..Len(g)
    BY LenProperties
  <2> QED
    BY <2>1, ElementOfSeq
<1>2. Number(g[2]) \in Nat
  BY <1>1, RpcAssumption
<1> QED
  BY <1>2 DEF FrameSize

LEMMA DecodeTyped ==
    ASSUME NEW g \in Seq(Bytes), Len(g) >= 5
    PROVE  Decode(g) \in Frames
<1> DEFINE n == Len(g)
           b == n - 1
<1>1. n \in Nat /\ 3 \in 1..n /\ 4 \in 1..n /\ b \in 1..n /\ 5 \in Int
  BY LenProperties
<1>2. g[3] \in Bytes /\ g[4] \in Bytes
  BY <1>1, ElementOfSeq
<1>3. \A i \in 5..b : g[i] \in Bytes
  BY <1>1, ElementOfSeq
<1> HIDE DEF n
<1>4. SubSeq(g, 5, b) \in Seq(Bytes)
  BY <1>1, <1>3, SubSeqProperties
<1>5. Decode(g) = [cmd0 |-> g[3], cmd1 |-> g[4], data |-> SubSeq(g, 5, b)]
  BY DEF Decode, n
<1> QED
  BY <1>2, <1>4, <1>5 DEF Frames

\* The part of TypeOK that is about the frame being read.
Reading(g) ==
    /\ g \in Seq(Bytes)
    /\ g # <<>> => g[1] = RPC_SOF
    /\ Len(g) > 3 => Len(g) < FrameSize(g)

LEMMA ReadingEmpty == Reading(<<>>) /\ ~DataRead(<<>>)
BY EmptySeq DEF Reading, DataRead

LEMMA ReadingMore ==
    ASSUME NEW g, Reading(g), ~DataRead(g), NEW h \in Bytes, g = <<>> => h = RPC_SOF
    PROVE  Reading(Append(g, h))
<1> DEFINE m == Len(g)
           a == Append(g, h)
<1>1. g \in Seq(Bytes) /\ m \in Nat
  BY LenProperties DEF Reading
<1>2. /\ a \in Seq(Bytes) /\ Len(a) = m + 1 /\ a[m + 1] = h
      /\ \A i \in 1..m : a[i] = g[i]
  BY <1>1, AppendProperties
<1>3. m = 0 <=> g = <<>>
  BY <1>1, EmptySeq
<1> HIDE DEF a
<1>4. a[1] = RPC_SOF
  <2>1. CASE m = 0
    <3>1. m + 1 = 1 /\ h = RPC_SOF
      BY <1>3, <2>1
    <3> QED
      BY <1>2, <3>1
  <2>2. CASE m > 0
    <3>1. 1 \in 1..m /\ g[1] = RPC_SOF
      BY <1>1, <1>3, <2>2 DEF Reading
    <3> QED
      BY <1>2, <3>1
  <2> QED
    BY <1>1, <2>1, <2>2
<1> HIDE DEF m
<1>5. ASSUME m + 1 > 3 PROVE m + 1 < FrameSize(a)
  <2>1. CASE m = 3
    <3>1. FrameSize(a) \in Nat /\ FrameSize(a) >= 5
      <4>1. a \in Seq(Bytes) /\ Len(a) >= 2
        BY <1>2, <2>1
      <4> QED
        BY <4>1, SizeTyped
    <3> QED
      BY <2>1, <3>1
  <2>2. CASE m > 3
    <3>1. FrameSize(g) \in Nat /\ m < FrameSize(g) /\ m # FrameSize(g) - 1
      BY <1>1, <2>2, SizeTyped DEF Reading, DataRead, m
    <3>2. a[2] = g[2]
      <4>1. 2 \in 1..m
        BY <1>1, <2>2
      <4> QED
        BY <1>2, <4>1
    <3>3. FrameSize(a) = FrameSize(g)
      BY <3>2 DEF FrameSize
    <3> QED
      BY <1>1, <3>1, <3>3
  <2>3. m = 3 \/ m > 3
    BY <1>1, <1>5
  <2> QED
    BY Zenon, <2>1, <2>2, <2>3
<1> QED
  BY <1>2, <1>4, <1>5 DEF Reading, a, m

LEMMA ReadingLess ==
    ASSUME NEW g, Reading(g), Len(g) > 4
    PROVE  Reading(Front(g))
<1> DEFINE m == Len(g)
           c == m - 1
           a == SubSeq(g, 1, c)
<1>1. g \in Seq(Bytes) /\ m \in Nat /\ g[1] = RPC_SOF
  <2>1. g \in Seq(Bytes) /\ m \in Nat
    BY LenProperties DEF Reading
  <2>2. g # <<>>
    BY EmptySeq
  <2> QED
    BY <2>1, <2>2 DEF Reading
<1>2. FrameSize(g) \in Nat /\ m < FrameSize(g)
  BY <1>1, SizeTyped DEF Reading
<1>3. \A i \in 1..c : g[i] \in Bytes
  BY <1>1, ElementOfSeq
<1>4. a = Front(g)
  BY DEF Front
<1>5. c \in Nat /\ c > 3 /\ c < m
  BY <1>1
<1> HIDE DEF m, c
<1>6. a \in Seq(Bytes) /\ Len(a) = c /\ \A i \in 1..c : a[i] = g[i]
  <2>1. /\ SubSeq(g, 1, c) \in Seq(Bytes)
        /\ Len(SubSeq(g, 1, c)) = IF 1 <= c THEN c - 1 + 1 ELSE 0
        /\ \A i \in 1..(c - 1 + 1) : SubSeq(g, 1, c)[i] = g[1 + i - 1]
    BY <1>3, <1>5, SubSeqProperties
  <2>2. c - 1 + 1 = c /\ \A i \in 1..c : 1 + i - 1 = i
    BY <1>5
  <2> QED
    BY <1>5, <2>1, <2>2
<1> HIDE DEF a
<1>7. a[1] = g[1] /\ a[2] = g[2]
  BY <1>5, <1>6
<1>8. FrameSize(a) = FrameSize(g)
  BY <1>7 DEF FrameSize
<1>9. Reading(a)
  BY <1>1, <1>2, <1>5, <1>6, <1>7, <1>8 DEF Reading
<1> QED
  BY <1>4, <1>9

LEMMA SendTyped ==
    ASSUME TypeOK, NEW f \in Traffic, Send(f)
    PROVE  TypeOK'
<1>1. Encode(f) \in Seq(Bytes)
  BY EncodeTyped
<1>2. line' \in Seq(Seq(Bytes))
  BY <1>1 DEF TypeOK, Send
<1>3. owed' \in Seq(Traffic \cup {Damaged})
  BY DEF TypeOK, Send, Owe
<1>4. sent' \in 0..MaxFrames
  BY RpcAssumption DEF TypeOK, Send
<1>5. UNCHANGED <<buffer, got, hung, received, damages, inStep>>
  BY DEF Send
<1> QED
  BY <1>2, <1>3, <1>4, <1>5 DEF TypeOK, DataRead, FrameSize

\* What a damaged frame becomes, and whether the reader stays in step.
LEMMA SendDamagedCases ==
    ASSUME NEW f \in Traffic, SendDamaged(f)
    PROVE  \/ \E k \in 3..Len(Encode(f)), bit \in Bits :
                 /\ line' = Append(line, Flipped(f, k, bit))
                 /\ Owe(Damaged) /\ UNCHANGED inStep
           \/ /\ \E w \in Seq(Bytes) : line' = Append(line, w)
              /\ owed' = <<>> /\ inStep' = FALSE
<1> DEFINE e == Encode(f)
<1>1. e \in Seq(Bytes) /\ Len(e) \in Nat /\ DOMAIN e = 1..Len(e)
  BY EncodeTyped, LenProperties
<1>2. PICK k \in DOMAIN e :
            \/ /\ k > 2
               /\ \E bit \in Bits : line' = Append(line, Flipped(f, k, bit))
               /\ Owe(Damaged)
               /\ UNCHANGED inStep
            \/ /\ \/ \E bit \in Bits : line' = Append(line, Flipped(f, k, bit))
                  \/ line' = Append(line, RemoveAt(e, k))
                  \/ \E byte \in Bytes : line' = Append(line, <<byte>> \o e)
               /\ owed' = <<>> /\ inStep' = FALSE
  BY DEF SendDamaged, Flipped
<1>3. k \in 1..Len(e)
  BY <1>1
<1>4. CASE k > 2 /\ (\E bit \in Bits : line' = Append(line, Flipped(f, k, bit)))
              /\ Owe(Damaged) /\ UNCHANGED inStep
  <2>1. k \in 3..Len(e)
    BY <1>1, <1>3, <1>4
  <2> QED
    BY <1>4, <2>1
<1>5. ASSUME NEW bit \in Bits PROVE Flipped(f, k, bit) \in Seq(Bytes)
  BY <1>3, FlippedTyped
<1>6. RemoveAt(e, k) \in Seq(Bytes)
  <2> HIDE DEF e
  <2> DEFINE before == SubSeq(e, 1, k - 1)
             after  == SubSeq(e, k + 1, Len(e))
  <2>1. before \in Seq(Bytes)
    <3>1. \A i \in 1..(k - 1) : e[i] \in Bytes
      BY <1>1, <1>3, ElementOfSeq
    <3> QED
      BY <1>3, <3>1, SubSeqProperties
  <2>2. after \in Seq(Bytes)
    <3>1. \A i \in (k + 1)..Len(e) : e[i] \in Bytes
      BY <1>1, <1>3, ElementOfSeq
    <3> QED
      BY <1>1, <1>3, <3>1, SubSeqProperties
  <2>3. RemoveAt(e, k) = before \o after
    BY DEF RemoveAt
  <2> HIDE DEF before, after
  <2> QED
    BY <2>1, <2>2, <2>3, ConcatLen
<1>7. ASSUME NEW byte \in Bytes PROVE <<byte>> \o e \in Seq(Bytes)
  <2> DEFINE first == <<byte>>
  <2>1. first \in Seq(Bytes)
    OBVIOUS
  <2> HIDE DEF first
  <2>2. first \o e \in Seq(Bytes)
    BY <1>1, <2>1, ConcatLen
  <2> QED
    BY <2>2 DEF first
<1> QED
  BY <1>2, <1>4, <1>5, <1>6, <1>7

LEMMA SendDamagedTyped ==
    ASSUME TypeOK, NEW f \in Traffic, SendDamaged(f)
    PROVE  TypeOK'
<1>1. line' \in Seq(Seq(Bytes)) /\ owed' \in Seq(Traffic \cup {Damaged}) /\ inStep' \in BOOLEAN
  <2>1. CASE \E k \in 3..Len(Encode(f)), bit \in Bits :
                 /\ line' = Append(line, Flipped(f, k, bit))
                 /\ Owe(Damaged) /\ UNCHANGED inStep
    <3>1. PICK k \in 3..Len(Encode(f)), bit \in Bits :
                 /\ line' = Append(line, Flipped(f, k, bit))
                 /\ Owe(Damaged) /\ UNCHANGED inStep
      BY <2>1
    <3>2. Flipped(f, k, bit) \in Seq(Bytes)
      <4>1. k \in 1..Len(Encode(f))
        OBVIOUS
      <4> QED
        BY <4>1, FlippedTyped
    <3>3. line' \in Seq(Seq(Bytes))
      BY <3>1, <3>2, AppendProperties DEF TypeOK
    <3>4. owed' \in Seq(Traffic \cup {Damaged})
      BY <3>1 DEF TypeOK, Owe
    <3> QED
      BY <3>1, <3>3, <3>4 DEF TypeOK
  <2>2. CASE /\ \E w \in Seq(Bytes) : line' = Append(line, w)
             /\ owed' = <<>> /\ inStep' = FALSE
    <3>1. PICK w \in Seq(Bytes) : line' = Append(line, w)
      BY <2>2
    <3>2. line' \in Seq(Seq(Bytes))
      BY <3>1, AppendProperties DEF TypeOK
    <3>3. <<>> \in Seq(Traffic \cup {Damaged})
      BY EmptySeq
    <3> QED
      BY <2>2, <3>2, <3>3
  <2> QED
    BY <2>1, <2>2, SendDamagedCases
<1>2. sent' \in 0..MaxFrames /\ damages' \in 0..MaxDamage
  BY RpcAssumption DEF TypeOK, SendDamaged
<1>3. UNCHANGED <<buffer, got, hung, received>>
  BY DEF SendDamaged
<1> QED
  BY <1>1, <1>2, <1>3 DEF TypeOK, DataRead, FrameSize

\* What comes over in one piece, and what is left of the line.
LEMMA ArriveCases ==
    ASSUME TypeOK, Arrive
    PROVE  \E piece \in Seq(Bytes) :
             /\ buffer' = buffer \o piece
             /\ line' \in Seq(Seq(Bytes))
             /\ FlattenSeq(line) = piece \o FlattenSeq(line')
<1> DEFINE h == Head(line)
           t == Tail(line)
<1>1. line \in Seq(Seq(Bytes)) /\ line # <<>> /\ buffer \in Seq(Bytes)
  BY DEF TypeOK, Arrive
<1>2. h \in Seq(Bytes) /\ t \in Seq(Seq(Bytes)) /\ Len(t) = Len(line) - 1
  BY <1>1, HeadTailProperties
<1>3. FlattenSeq(line) = h \o FlattenSeq(t)
  BY <1>1, FlattenHead
<1>4. CASE buffer' = buffer \o h /\ line' = t
  BY <1>2, <1>3, <1>4
<1>5. CASE Len(h) > 1 /\ buffer' = Append(buffer, Head(h)) /\ line' = [line EXCEPT ![1] = Tail(@)]
  <2> DEFINE piece == <<Head(h)>>
             left  == Tail(h)
             rest  == [line EXCEPT ![1] = left]
  <2>1. h = line[1]
    OBVIOUS
  <2>2. line' = rest
    BY <1>5, <2>1
  <2>3. Head(h) \in Bytes /\ left \in Seq(Bytes) /\ h # <<>>
    <3>1. h # <<>>
      BY <1>5, EmptySeq
    <3> QED
      BY <1>2, <3>1, HeadTailProperties
  <2>4. piece \in Seq(Bytes) /\ buffer' = buffer \o piece
    <3>1. Append(buffer, Head(h)) = buffer \o <<Head(h)>>
      BY <1>1, <2>3, AppendIsConcat
    <3>2. <<Head(h)>> \in Seq(Bytes)
      BY <2>3
    <3> QED
      BY <1>5, <3>1, <3>2
  <2>5. h = piece \o left
    <3>1. <<>> \in Seq(Bytes)
      BY EmptySeq
    <3>2. Append(<<>>, Head(h)) \o left = <<>> \o h
      BY <1>2, <2>3, <3>1, MoveOne
    <3>3. Append(<<>>, Head(h)) = piece
      OBVIOUS
    <3>4. <<>> \o h = h
      BY <1>2, ConcatEmptySeq
    <3> QED
      BY <3>2, <3>3, <3>4
  <2> HIDE DEF piece, left, h
  <2>6. Len(line) \in Nat /\ 1 \in 1..Len(line)
    BY <1>1, EmptySeq
  <2>7. /\ rest \in Seq(Seq(Bytes)) /\ Len(rest) = Len(line)
        /\ \A j \in 1..Len(line) : rest[j] = IF j = 1 THEN left ELSE line[j]
    BY <1>1, <2>3, <2>6, ExceptSeq
  <2> HIDE DEF rest
  <2>8. rest # <<>> /\ Head(rest) = left
    <3>1. rest # <<>>
      BY <2>6, <2>7, EmptySeq
    <3>2. rest[1] = left
      BY <2>6, <2>7
    <3>3. Head(rest) = rest[1]
      OBVIOUS
    <3> QED
      BY <3>1, <3>2, <3>3
  <2>9. Tail(rest) = t
    <3>1. /\ Tail(rest) \in Seq(Seq(Bytes)) /\ Len(Tail(rest)) = Len(rest) - 1
          /\ \A i \in 1..Len(Tail(rest)) : Tail(rest)[i] = rest[i + 1]
      BY <2>7, <2>8, HeadTailProperties
    <3>2. \A i \in 1..Len(t) : t[i] = line[i + 1]
      BY <1>1, HeadTailProperties
    <3> DEFINE a == Tail(rest)
    <3> HIDE DEF a, t
    <3>3. Len(a) = Len(t) /\ Len(t) = Len(line) - 1 /\ a \in Seq(Seq(Bytes))
      BY <1>2, <2>7, <3>1 DEF a
    <3>4. ASSUME NEW i \in 1..Len(a) PROVE a[i] = t[i]
      <4>1. i + 1 \in 1..Len(line) /\ i + 1 # 1
        BY <2>6, <3>3
      <4>2. a[i] = rest[i + 1] /\ t[i] = line[i + 1]
        BY <3>1, <3>2, <3>3 DEF a
      <4> QED
        BY <2>7, <4>1, <4>2
    <3>5. a = t
      BY <1>2, <3>3, <3>4, SameSeq
    <3> QED
      BY <3>5 DEF a
  <2>10. FlattenSeq(rest) = left \o FlattenSeq(t)
    BY <2>7, <2>8, <2>9, FlattenHead
  <2>11. FlattenSeq(t) \in Seq(Bytes)
    BY <1>2, FlattenTyped
  <2> DEFINE u == FlattenSeq(t)
  <2> HIDE DEF u
  <2>12. (piece \o left) \o u = piece \o (left \o u)
    BY <2>3, <2>4, <2>11, ConcatAssociative DEF u
  <2>13. FlattenSeq(line) = piece \o FlattenSeq(rest)
    BY <1>3, <2>5, <2>10, <2>12 DEF u
  <2> QED
    BY <2>2, <2>4, <2>7, <2>13
<1> QED
  BY <1>4, <1>5 DEF Arrive

LEMMA ArriveTyped ==
    ASSUME TypeOK, Arrive
    PROVE  TypeOK'
<1>1. PICK piece \in Seq(Bytes) :
             buffer' = buffer \o piece /\ line' \in Seq(Seq(Bytes))
  BY ArriveCases
<1>2. buffer' \in Seq(Bytes)
  BY <1>1, ConcatLen DEF TypeOK
<1>3. UNCHANGED <<got, hung, received, sent, damages, owed, inStep>>
  BY DEF Arrive
<1> QED
  BY <1>1, <1>2, <1>3 DEF TypeOK, DataRead, FrameSize

\* The steps of the reader keep the types of what the dongle has not to do with.
LEMMA ReaderTyped ==
    ASSUME TypeOK, UNCHANGED <<line, sent, damages>>, Reading(got'), buffer' \in Seq(Bytes),
           hung' \in BOOLEAN, hung' => Len(got') > 3, received' \in Frames \cup {Damaged},
           owed' \in Seq(Traffic \cup {Damaged}), inStep' \in BOOLEAN
    PROVE  TypeOK'
BY DEF TypeOK, Reading, DataRead, FrameSize

LEMMA TypedReading == TypeOK => Reading(got)
BY DEF TypeOK, Reading

LEMMA TakeTyped ==
    ASSUME TypeOK, Take, ~hung, buffer # <<>>, ~DataRead(got), got = <<>> => Head(buffer) = RPC_SOF
    PROVE  TypeOK'
<1>1. Head(buffer) \in Bytes /\ buffer' \in Seq(Bytes)
  BY HeadTailProperties DEF TypeOK, Take
<1>2. Reading(got')
  <2>1. got' = Append(got, Head(buffer))
    BY DEF Take
  <2>2. Reading(Append(got, Head(buffer)))
    BY <1>1, ReadingMore, TypedReading
  <2> QED
    BY <2>1, <2>2
<1> QED
  BY <1>1, <1>2, ReaderTyped DEF TypeOK, Take

LEMMA PurgeTyped ==
    ASSUME TypeOK, Purge, ~hung
    PROVE  TypeOK'
<1>1. got' = <<>> /\ buffer' = <<>> /\ UNCHANGED <<line, hung, received, sent, damages>>
  BY DEF Purge
<1>2. Reading(got') /\ buffer' \in Seq(Bytes)
  BY <1>1, ReadingEmpty, EmptySeq
<1>3. owed' \in Seq(Traffic \cup {Damaged}) /\ inStep' \in BOOLEAN
  <2>1. <<>> \in Seq(Traffic \cup {Damaged})
    BY EmptySeq
  <2>2. UNCHANGED <<owed, inStep>> \/ (owed' = <<>> /\ inStep' = Quiet)
    BY DEF Purge
  <2> QED
    BY <2>1, <2>2 DEF TypeOK, Quiet
<1> QED
  BY <1>1, <1>2, <1>3, ReaderTyped DEF TypeOK

LEMMA StumbleTyped ==
    ASSUME TypeOK, Stumble, ~hung, Len(got) > 4, ~DataRead(got)
    PROVE  TypeOK'
<1>1. got' = Front(got) /\ UNCHANGED <<line, buffer, hung, received, sent, damages>>
  BY DEF Stumble
<1>2. Reading(got')
  BY <1>1, ReadingLess, TypedReading
<1>3. owed' \in Seq(Traffic \cup {Damaged}) /\ inStep' \in BOOLEAN
  <2>1. <<>> \in Seq(Traffic \cup {Damaged})
    BY EmptySeq
  <2> QED
    BY <2>1 DEF Stumble
<1> QED
  BY <1>1, <1>2, <1>3, ReaderTyped DEF TypeOK

\* The frame that is complete with the next byte.
Complete == Append(got, IF buffer = <<>> THEN {} ELSE Head(buffer))

LEMMA CompleteTyped ==
    ASSUME TypeOK, DataRead(got)
    PROVE  Complete \in Seq(Bytes) /\ Len(Complete) = Len(got) + 1 /\ Len(got) >= 4
<1> DEFINE b == IF buffer = <<>> THEN {} ELSE Head(buffer)
<1>1. b \in Bytes
  <2>1. {} \in Bytes
    BY SoundTyped
  <2>2. buffer # <<>> => Head(buffer) \in Bytes
    BY HeadTailProperties DEF TypeOK
  <2> QED
    BY <2>1, <2>2
<1>2. Complete = Append(got, b)
  BY DEF Complete
<1> HIDE DEF b
<1>3. got \in Seq(Bytes) /\ Len(got) \in Nat
  BY LenProperties DEF TypeOK
<1>4. Append(got, b) \in Seq(Bytes) /\ Len(Append(got, b)) = Len(got) + 1
  BY <1>1, <1>3, AppendProperties
<1>5. Len(got) >= 4
  BY <1>3 DEF DataRead
<1> QED
  BY <1>2, <1>4, <1>5

LEMMA CompleteDecoded ==
    ASSUME TypeOK, DataRead(got)
    PROVE  Decode(Complete) \in Frames
<1>1. Complete \in Seq(Bytes) /\ Len(Complete) = Len(got) + 1 /\ Len(got) >= 4
  BY CompleteTyped
<1>2. Len(got) \in Nat
  BY LenProperties DEF TypeOK
<1>3. Len(Complete) >= 5
  BY <1>1, <1>2
<1> QED
  BY <1>1, <1>3, DecodeTyped

LEMMA DispatchTyped ==
    ASSUME TypeOK, DataRead(got), ~hung, Dispatch(Complete)
    PROVE  TypeOK'
<1>1. got' = <<>> /\ UNCHANGED <<line, hung, sent, damages>> /\ received' = Decode(Complete)
  BY DEF Dispatch
<1>2. Reading(got')
  BY <1>1, ReadingEmpty
<1>3. buffer' \in Seq(Bytes)
  <2>1. buffer' = IF buffer = <<>> THEN <<>> ELSE Tail(buffer)
    BY DEF Dispatch
  <2>2. buffer # <<>> => Tail(buffer) \in Seq(Bytes)
    BY HeadTailProperties DEF TypeOK
  <2> QED
    BY <2>1, <2>2, EmptySeq
<1>4. received' \in Frames
  BY <1>1, CompleteDecoded
<1>5. owed' \in Seq(Traffic \cup {Damaged}) /\ inStep' \in BOOLEAN
  <2>1. <<>> \in Seq(Traffic \cup {Damaged})
    BY EmptySeq
  <2>2. \/ owed # <<>> /\ owed' = Tail(owed) /\ UNCHANGED inStep
        \/ owed' = <<>> /\ inStep' = Quiet
    BY DEF Dispatch
  <2>3. owed # <<>> => Tail(owed) \in Seq(Traffic \cup {Damaged})
    BY HeadTailProperties DEF TypeOK
  <2> QED
    BY <2>1, <2>2, <2>3 DEF TypeOK, Quiet
<1> QED
  BY <1>1, <1>2, <1>3, <1>4, <1>5, ReaderTyped DEF TypeOK

\* What a step of the reader is, by what it finds.
LEMMA ReadCases ==
    ASSUME TypeOK, Read
    PROVE  \/ /\ buffer # <<>> /\ ~DataRead(got) /\ ~hung /\ Take
              /\ got = <<>> => Head(buffer) = RPC_SOF
           \/ /\ ~hung /\ Purge
              /\ \/ got = <<>> /\ buffer # <<>> /\ Head(buffer) # RPC_SOF
                 \/ got # <<>> /\ buffer = <<>>
                 \/ DataRead(got) /\ ~Sound(Complete)
           \/ buffer = <<>> /\ Len(got) > 4 /\ ~DataRead(got) /\ ~hung /\ Stumble
           \/ DataRead(got) /\ ~hung /\ Sound(Complete) /\ Dispatch(Complete)
           \/ Len(got) > 3 /\ Hang
<1>1. Len(got) \in Nat
  BY LenProperties DEF TypeOK
<1>2. CASE ReadStart
  <2>1. ~DataRead(got) /\ ~hung
    <3>1. got = <<>> /\ Len(<<>>) = 0
      BY <1>2 DEF ReadStart
    <3> QED
      BY <3>1, ReadingEmpty DEF TypeOK
  <2> QED
    BY <1>2, <2>1 DEF ReadStart
<1>3. CASE ReadHeader
  <2>1. Len(got) \in 1..3
    BY <1>3 DEF ReadHeader
  <2>2. ~(Len(got) > 3) /\ got # <<>>
    <3>1. Len(<<>>) = 0
      OBVIOUS
    <3>2. got # <<>>
      BY <2>1, <3>1
    <3>3. ~(Len(got) > 3)
      BY <2>1
    <3> QED
      BY <3>2, <3>3
  <2>3. ~DataRead(got) /\ ~hung
    BY <2>2 DEF DataRead, TypeOK
  <2> QED
    BY <1>3, <2>2, <2>3 DEF ReadHeader
<1>4. CASE ReadData
  <2>1. ~DataRead(got) /\ ~hung /\ got # <<>>
    BY <1>1, <1>4, EmptySeq DEF ReadData, TypeOK
  <2> QED
    BY <1>4, <2>1 DEF ReadData
<1>5. CASE ReadCheck
  <2>1. Len(got) > 3
    BY <1>5 DEF ReadCheck, DataRead
  <2> QED
    BY <1>5, <2>1 DEF ReadCheck, Complete
<1>6. CASE ReadNothing
  BY <1>6 DEF ReadNothing
<1> QED
  BY <1>2, <1>3, <1>4, <1>5, <1>6 DEF Read, ReadOn

LEMMA RestartTyped ==
    ASSUME TypeOK, Restart
    PROVE  TypeOK'
<1>1. /\ buffer' = <<>> /\ got' = <<>> /\ hung' = FALSE /\ owed' = <<>>
      /\ UNCHANGED <<line, received, sent, damages>> /\ inStep' = Quiet
  BY DEF Restart
<1>2. Reading(got') /\ buffer' \in Seq(Bytes) /\ owed' \in Seq(Traffic \cup {Damaged})
  BY <1>1, ReadingEmpty, EmptySeq
<1> QED
  BY <1>1, <1>2, ReaderTyped DEF TypeOK, Quiet

LEMMA TypeInvariance ==
    ASSUME TypeOK, [Next]_vars
    PROVE  TypeOK'
<1>1. CASE UNCHANGED vars
  BY <1>1 DEF vars, TypeOK, DataRead, FrameSize
<1>2. CASE Dongle
  BY <1>2, SendTyped, SendDamagedTyped DEF Dongle
<1>3. CASE Arrive
  BY <1>3, ArriveTyped
<1>4. CASE Read
  <2>1. CASE buffer # <<>> /\ ~DataRead(got) /\ ~hung /\ Take /\ (got = <<>> => Head(buffer) = RPC_SOF)
    BY <2>1, TakeTyped
  <2>2. CASE ~hung /\ Purge
    BY <2>2, PurgeTyped
  <2>3. CASE Len(got) > 4 /\ ~DataRead(got) /\ ~hung /\ Stumble
    BY <2>3, StumbleTyped
  <2>4. CASE DataRead(got) /\ ~hung /\ Dispatch(Complete)
    BY <2>4, DispatchTyped
  <2>5. CASE Len(got) > 3 /\ Hang
    BY <2>5 DEF TypeOK, Hang, DataRead, FrameSize
  <2> QED
    BY <1>4, <2>1, <2>2, <2>3, <2>4, <2>5, ReadCases
<1>5. CASE Restart
  BY <1>5, RestartTyped
<1> QED
  BY <1>1, <1>2, <1>3, <1>4, <1>5 DEF Next

LEMMA InitTyped == Init => TypeOK
<1> SUFFICES ASSUME Init PROVE TypeOK
  OBVIOUS
<1>1. /\ <<>> \in Seq(Seq(Bytes)) /\ <<>> \in Seq(Bytes)
      /\ <<>> \in Seq(Traffic \cup {Damaged}) /\ Reading(<<>>)
  BY EmptySeq, ReadingEmpty
<1>2. MaxFrames \in Nat /\ MaxDamage \in Nat
  BY RpcAssumption
<1>3. Reading(got) /\ line \in Seq(Seq(Bytes)) /\ buffer \in Seq(Bytes)
  BY <1>1 DEF Init
<1>4. owed \in Seq(Traffic \cup {Damaged})
  BY <1>1 DEF Init
<1>5. sent \in 0..MaxFrames /\ damages \in 0..MaxDamage
  BY <1>2 DEF Init
<1> QED
  BY <1>3, <1>4, <1>5 DEF Init, TypeOK, Reading

\* Every state is of its type: what is being read begins with the start byte and
\* is shorter than its byte of length says, and the reader is caught in the loop
\* of the log only before the check byte (rpc.c:152-240).
THEOREM TypeCorrectness == Spec => []TypeOK
<1>1. Init => TypeOK
  BY InitTyped
<1>2. TypeOK /\ [Next]_vars => TypeOK'
  BY TypeInvariance
<1> QED
  BY <1>1, <1>2, PTL DEF Spec

-----------------------------------------------------------------------------
(* The reader in step *)

\* The words of a queue.
Spell(ws, queue) ==
    /\ Len(ws) = Len(queue)
    /\ \A i \in 1..Len(queue) : Word(ws[i], queue[i])

\* What has been read of a frame, what has arrived and what is on the line are,
\* one behind the other, the words of the frames that are owed.
Ahead(rest, ws) == (got \o buffer) \o rest = FlattenSeq(ws)
Joined(ws) == Ahead(FlattenSeq(line), ws)
InStepInv  == inStep => \E ws \in Seq(Seq(Bytes)) : Spell(ws, owed) /\ Joined(ws)

IInv == TypeOK /\ InStepInv

LEMMA SpellEmpty ==
    ASSUME NEW ws \in Seq(Seq(Bytes)), Spell(ws, <<>>)
    PROVE  ws = <<>> /\ FlattenSeq(ws) = <<>>
<1>1. Len(ws) = 0
  BY DEF Spell
<1>2. ws = <<>>
  BY <1>1, EmptySeq
<1> QED
  BY <1>2, FlattenEmpty

LEMMA SpellAppend ==
    ASSUME NEW ws \in Seq(Seq(Bytes)), NEW S, NEW queue \in Seq(S), Spell(ws, queue),
           NEW w \in Seq(Bytes), NEW x \in S, Word(w, x)
    PROVE  Append(ws, w) \in Seq(Seq(Bytes)) /\ Spell(Append(ws, w), Append(queue, x))
<1> DEFINE n == Len(queue)
           us == Append(ws, w)
           q  == Append(queue, x)
<1>1. n \in Nat /\ Len(ws) = n /\ \A i \in 1..n : Word(ws[i], queue[i])
  BY LenProperties DEF Spell
<1>2. /\ q \in Seq(S) /\ Len(q) = n + 1 /\ q[n + 1] = x
      /\ \A i \in 1..n : q[i] = queue[i]
  BY AppendProperties
<1>3. /\ us \in Seq(Seq(Bytes)) /\ Len(us) = Len(ws) + 1 /\ us[Len(ws) + 1] = w
      /\ \A i \in 1..Len(ws) : us[i] = ws[i]
  BY AppendProperties
<1> HIDE DEF n, us, q
<1>4. ASSUME NEW i \in 1..(n + 1) PROVE Word(us[i], q[i])
  <2>1. CASE i = n + 1
    BY <1>1, <1>2, <1>3, <2>1
  <2>2. CASE i # n + 1
    <3>1. i \in 1..n
      BY <1>1, <2>2
    <3>2. us[i] = ws[i] /\ q[i] = queue[i]
      BY <1>1, <1>2, <1>3, <3>1
    <3> QED
      BY <1>1, <3>1, <3>2
  <2> QED
    BY <2>1, <2>2
<1>5. Spell(us, q)
  BY <1>1, <1>2, <1>3, <1>4 DEF Spell
<1> QED
  BY <1>3, <1>5 DEF us, q

LEMMA SpellHead ==
    ASSUME NEW ws \in Seq(Seq(Bytes)), NEW S, NEW queue \in Seq(S), Spell(ws, queue), queue # <<>>
    PROVE  /\ Head(ws) \in Seq(Bytes) /\ Tail(ws) \in Seq(Seq(Bytes))
           /\ Word(Head(ws), Head(queue))
           /\ Spell(Tail(ws), Tail(queue))
           /\ FlattenSeq(ws) = Head(ws) \o FlattenSeq(Tail(ws))
<1> DEFINE n == Len(queue)
           us == Tail(ws)
           q  == Tail(queue)
<1>1. n \in Nat \ {0} /\ Len(ws) = n /\ \A i \in 1..n : Word(ws[i], queue[i])
  BY EmptySeq DEF Spell
<1>2. ws # <<>>
  <2>1. Len(<<>>) = 0
    OBVIOUS
  <2> QED
    BY <1>1, <2>1
<1>3. /\ Head(ws) \in Seq(Bytes) /\ us \in Seq(Seq(Bytes)) /\ Len(us) = Len(ws) - 1
      /\ \A i \in 1..Len(us) : us[i] = ws[i + 1]
  BY <1>2, HeadTailProperties
<1>4. q \in Seq(S) /\ Len(q) = n - 1 /\ \A i \in 1..Len(q) : q[i] = queue[i + 1]
  BY HeadTailProperties
<1>5. Word(Head(ws), Head(queue))
  <2>1. Head(ws) = ws[1] /\ Head(queue) = queue[1]
    OBVIOUS
  <2>2. 1 \in 1..n
    BY <1>1
  <2> QED
    BY <1>1, <2>1, <2>2
<1>6. FlattenSeq(ws) = Head(ws) \o FlattenSeq(us)
  BY <1>2, FlattenHead
<1> HIDE DEF n, us, q
<1>7. ASSUME NEW i \in 1..Len(q) PROVE Word(us[i], q[i])
  <2>1. i + 1 \in 1..n /\ i \in 1..Len(us)
    BY <1>1, <1>3, <1>4
  <2>2. us[i] = ws[i + 1] /\ q[i] = queue[i + 1]
    BY <1>3, <1>4, <2>1
  <2> QED
    BY <1>1, <2>1, <2>2
<1>8. Spell(us, q)
  BY <1>1, <1>3, <1>4, <1>7 DEF Spell
<1> QED
  BY <1>3, <1>5, <1>6, <1>8 DEF us, q

\* No word is to come: nothing has arrived.
LEMMA NothingOwed ==
    ASSUME TypeOK, NEW r \in Seq(Bytes), NEW ws \in Seq(Seq(Bytes)), Spell(ws, <<>>), Ahead(r, ws)
    PROVE  got = <<>> /\ buffer = <<>>
<1> DEFINE gb == got \o buffer
<1>1. got \in Seq(Bytes) /\ buffer \in Seq(Bytes) /\ gb \in Seq(Bytes)
  BY ConcatLen DEF TypeOK
<1>2. FlattenSeq(ws) = <<>>
  BY SpellEmpty
<1>3. gb \o r = <<>>
  BY <1>2 DEF Ahead
<1> HIDE DEF gb
<1>4. gb = <<>>
  BY <1>1, <1>3, ConcatSimplifications
<1>5. got \o buffer = <<>>
  BY <1>4 DEF gb
<1> QED
  BY <1>1, <1>5, ConcatSimplifications

\* What has been read is the beginning of the word that is next, the byte that
\* has arrived the one that follows, and some of the word is still to come.
LEMMA FirstWord ==
    ASSUME TypeOK, NEW r \in Seq(Bytes), NEW ws \in Seq(Seq(Bytes)),
           NEW S, NEW queue \in Seq(S), Spell(ws, queue), Ahead(r, ws), queue # <<>>
    PROVE  /\ Word(Head(ws), Head(queue))
           /\ Len(got) < Len(Head(ws))
           /\ \A i \in 1..Len(got) : got[i] = Head(ws)[i]
           /\ buffer # <<>> => Head(buffer) = Head(ws)[Len(got) + 1]
           /\ buffer # <<>> \/ r # <<>>
<1> DEFINE w == Head(ws)
           u == FlattenSeq(Tail(ws))
           m == Len(got)
<1>1. /\ w \in Seq(Bytes) /\ Tail(ws) \in Seq(Seq(Bytes)) /\ Word(w, Head(queue))
      /\ FlattenSeq(ws) = w \o u
  BY SpellHead
<1>2. got \in Seq(Bytes) /\ buffer \in Seq(Bytes) /\ r \in Seq(Bytes) /\ u \in Seq(Bytes)
  BY <1>1, FlattenTyped DEF TypeOK
<1>3. (got \o buffer) \o r = w \o u
  BY <1>1 DEF Ahead
<1>4. Len(w) \in Nat /\ Len(w) >= 5 /\ Len(w) = FrameSize(w)
  BY <1>1, WordShape
<1>5. m \in Nat /\ Len(buffer) \in Nat /\ Len(r) \in Nat /\ Len(u) \in Nat
  BY <1>2, LenProperties
<1>6. r = <<>> => Len(r) = 0
  OBVIOUS
<1>7. buffer = <<>> => Len(buffer) = 0
  OBVIOUS
<1> HIDE DEF w, u
<1>8. /\ \A i \in 1..Len(got) : i <= Len(w) => got[i] = w[i]
      /\ buffer # <<>> /\ Len(got) < Len(w) => Head(buffer) = w[Len(got) + 1]
      /\ Len(got) + Len(buffer) + Len(r) = Len(w) + Len(u)
  <2>1. CutTwice(got, buffer, r, w, u)
    BY <1>3 DEF CutTwice
  <2>2. CutAlike(got, buffer, r, w, u)
    BY <1>1, <1>2, <2>1, SameBytes
  <2> QED
    BY <2>2 DEF CutAlike
<1>9. m < Len(w)
  <2> SUFFICES ASSUME m >= Len(w) PROVE FALSE
    BY <1>4, <1>5
  <2>1. 2 \in 1..m /\ 2 <= Len(w) /\ m > 3
    BY <1>4, <1>5
  <2>2. got[2] = w[2]
    BY <1>8, <2>1
  <2>3. FrameSize(got) = Len(w)
    BY <1>4, <2>2 DEF FrameSize
  <2>4. m < FrameSize(got)
    BY <2>1 DEF TypeOK
  <2> QED
    BY <1>4, <1>5, <2>3, <2>4
<1>10. ASSUME NEW i \in 1..m PROVE got[i] = w[i]
  BY <1>4, <1>5, <1>8, <1>9
<1>11. buffer # <<>> => Head(buffer) = w[m + 1]
  BY <1>8, <1>9
<1>12. buffer # <<>> \/ r # <<>>
  BY <1>4, <1>5, <1>6, <1>7, <1>8, <1>9
<1> QED
  BY <1>1, <1>9, <1>10, <1>11, <1>12 DEF w

LEMMA OwedComes ==
    ASSUME TypeOK, NEW ws \in Seq(Seq(Bytes)), Spell(ws, owed), Joined(ws)
    PROVE  /\ owed = <<>> => got = <<>> /\ buffer = <<>>
           /\ owed # <<>> => /\ Word(Head(ws), Head(owed))
                             /\ buffer # <<>> => Head(buffer) = Head(ws)[Len(got) + 1]
                             /\ buffer # <<>> \/ line # <<>>
<1> DEFINE r == FlattenSeq(line)
<1>1. r \in Seq(Bytes) /\ Ahead(r, ws)
  BY FlattenTyped DEF TypeOK, Joined
<1>2. line = <<>> => r = <<>>
  BY FlattenEmpty
<1>3. owed \in Seq(Traffic \cup {Damaged})
  BY DEF TypeOK
<1> HIDE DEF r
<1>4. owed = <<>> => got = <<>> /\ buffer = <<>>
  BY <1>1, NothingOwed
<1>5. owed # <<>> => /\ Word(Head(ws), Head(owed))
                     /\ buffer # <<>> => Head(buffer) = Head(ws)[Len(got) + 1]
                     /\ buffer # <<>> \/ r # <<>>
  BY <1>1, <1>3, FirstWord
<1> QED
  BY <1>2, <1>4, <1>5

\* The step of the channel that a step of the link is, the restart of the gateway
\* apart.
ChannelStep ==
    \/ \E f \in Traffic \cup {Damaged} : Channel!Send(f)
    \/ Channel!Receive \/ Channel!Drop \/ Channel!LoseStep \/ Channel!Astray
    \/ UNCHANGED Channel!vars

LEMMA QuietInv ==
    ASSUME owed' = <<>>, inStep' => Quiet
    PROVE  InStepInv'
<1> SUFFICES ASSUME inStep' PROVE \E ws \in Seq(Seq(Bytes)) : (Spell(ws, owed) /\ Joined(ws))'
  BY DEF InStepInv
<1>1. line' = <<>> /\ buffer' = <<>> /\ got' = <<>>
  BY DEF Quiet
<1>2. <<>> \in Seq(Seq(Bytes)) /\ <<>> \in Seq(Bytes)
  BY EmptySeq
<1>3. Spell(<<>>, owed)'
  BY DEF Spell
<1>4. Joined(<<>>)'
  <2>1. <<>> \o <<>> = <<>>
    BY <1>2, ConcatEmptySeq
  <2> QED
    BY <1>1, <2>1, FlattenEmpty DEF Joined, Ahead
<1> QED
  BY <1>2, <1>3, <1>4

LEMMA SendJoined ==
    ASSUME TypeOK, NEW ws \in Seq(Seq(Bytes)), Joined(ws), NEW w \in Seq(Bytes),
           line' = Append(line, w), UNCHANGED <<got, buffer>>
    PROVE  Joined(Append(ws, w))'
<1> DEFINE gb == got \o buffer
           r == FlattenSeq(line)
<1>1. line \in Seq(Seq(Bytes)) /\ gb \in Seq(Bytes) /\ r \in Seq(Bytes)
  BY FlattenTyped, ConcatLen DEF TypeOK
<1>2. FlattenSeq(Append(line, w)) = r \o w /\ FlattenSeq(Append(ws, w)) = FlattenSeq(ws) \o w
  BY <1>1, FlattenAppend
<1>3. gb \o r = FlattenSeq(ws)
  BY DEF Joined, Ahead
<1>4. (got \o buffer)' = gb /\ FlattenSeq(line)' = r \o w
  BY <1>2
<1> HIDE DEF gb, r
<1>5. (gb \o r) \o w = gb \o (r \o w)
  <2>1. Associates(gb, r, w)
    BY <1>1, ConcatAssociates
  <2> QED
    BY <2>1 DEF Associates
<1> QED
  BY <1>2, <1>3, <1>4, <1>5 DEF Joined, Ahead

LEMMA SendInStep ==
    ASSUME TypeOK, InStepInv, NEW f \in Traffic, Send(f)
    PROVE  InStepInv' /\ ChannelStep
<1>1. Channel!Send(f)
  BY DEF Send, Owe, Channel!Send
<1>2. ASSUME inStep PROVE InStepInv'
  <2>1. PICK ws \in Seq(Seq(Bytes)) : Spell(ws, owed) /\ Joined(ws)
    BY <1>2 DEF InStepInv
  <2> DEFINE e == Encode(f)
  <2>2. e \in Seq(Bytes) /\ Word(e, f)
    BY EncodeTyped DEF Word
  <2>3. line' = Append(line, e) /\ owed' = Append(owed, f) /\ UNCHANGED <<got, buffer>>
    BY <1>2 DEF Send, Owe
  <2> HIDE DEF e
  <2> DEFINE us == Append(ws, e)
  <2>4. us \in Seq(Seq(Bytes)) /\ Spell(us, Append(owed, f))
    BY <2>1, <2>2, SpellAppend DEF TypeOK
  <2>5. Joined(us)'
    BY <2>1, <2>2, <2>3, SendJoined
  <2> HIDE DEF us
  <2>6. Spell(us, owed)'
    BY <2>3, <2>4 DEF Spell
  <2> QED
    BY <2>4, <2>5, <2>6 DEF InStepInv
<1>3. ~inStep => InStepInv'
  BY DEF Send, InStepInv
<1> QED
  BY <1>1, <1>2, <1>3 DEF ChannelStep

LEMMA SendDamagedInStep ==
    ASSUME TypeOK, InStepInv, NEW f \in Traffic, SendDamaged(f)
    PROVE  InStepInv' /\ ChannelStep
<1>1. UNCHANGED <<got, buffer, received>>
  BY DEF SendDamaged
<1>2. CASE \E k \in 3..Len(Encode(f)), bit \in Bits :
                 /\ line' = Append(line, Flipped(f, k, bit))
                 /\ Owe(Damaged) /\ UNCHANGED inStep
  <2>1. PICK k \in 3..Len(Encode(f)), bit \in Bits :
                 /\ line' = Append(line, Flipped(f, k, bit))
                 /\ Owe(Damaged) /\ UNCHANGED inStep
    BY <1>2
  <2>2. Channel!Send(Damaged)
    BY <1>1, <2>1 DEF Owe, Channel!Send
  <2>3. ASSUME inStep PROVE InStepInv'
    <3>1. PICK ws \in Seq(Seq(Bytes)) : Spell(ws, owed) /\ Joined(ws)
      BY <2>3 DEF InStepInv
    <3> DEFINE e == Flipped(f, k, bit)
    <3>2. e \in Seq(Bytes) /\ Word(e, Damaged)
      <4>1. k \in 1..Len(Encode(f))
        OBVIOUS
      <4> QED
        BY <4>1, FlippedTyped DEF Word
    <3>3. line' = Append(line, e) /\ owed' = Append(owed, Damaged) /\ UNCHANGED <<got, buffer>>
      BY <1>1, <2>1, <2>3 DEF Owe
    <3> HIDE DEF e
    <3> DEFINE us == Append(ws, e)
    <3>4. us \in Seq(Seq(Bytes)) /\ Spell(us, Append(owed, Damaged))
      <4>1. Damaged \in Traffic \cup {Damaged}
        OBVIOUS
      <4> QED
        BY <3>1, <3>2, <4>1, SpellAppend DEF TypeOK
    <3>5. Joined(us)'
      BY <3>1, <3>2, <3>3, SendJoined
    <3> HIDE DEF us
    <3>6. Spell(us, owed)'
      BY <3>3, <3>4 DEF Spell
    <3> QED
      BY <3>4, <3>5, <3>6 DEF InStepInv
  <2>4. ~inStep => InStepInv'
    BY <2>1 DEF InStepInv
  <2> QED
    BY <2>2, <2>3, <2>4 DEF ChannelStep
<1>3. CASE owed' = <<>> /\ inStep' = FALSE
  BY <1>1, <1>3, QuietInv DEF ChannelStep, Channel!LoseStep
<1> QED
  BY <1>2, <1>3, SendDamagedCases

LEMMA ArriveInStep ==
    ASSUME TypeOK, InStepInv, Arrive
    PROVE  InStepInv' /\ ChannelStep
<1>1. UNCHANGED <<got, received, owed, inStep>>
  BY DEF Arrive
<1>2. PICK piece \in Seq(Bytes) :
             /\ buffer' = buffer \o piece
             /\ line' \in Seq(Seq(Bytes))
             /\ FlattenSeq(line) = piece \o FlattenSeq(line')
  BY ArriveCases
<1> DEFINE r == FlattenSeq(line')
           gb == got \o buffer
<1>3. r \in Seq(Bytes) /\ got \in Seq(Bytes) /\ buffer \in Seq(Bytes) /\ gb \in Seq(Bytes)
  BY <1>2, FlattenTyped, ConcatLen DEF TypeOK
<1>4. (got \o buffer)' = got \o (buffer \o piece) /\ FlattenSeq(line)' = r
  BY <1>1, <1>2
<1>5. gb \o piece = got \o (buffer \o piece)
  BY <1>3, ConcatAssociative
<1>6. FlattenSeq(line) = piece \o r
  BY <1>2
<1> HIDE DEF gb, r
<1>7. (gb \o piece) \o r = gb \o (piece \o r)
  <2>1. Associates(gb, piece, r)
    BY <1>3, ConcatAssociates
  <2> QED
    BY <2>1 DEF Associates
<1>8. ASSUME inStep PROVE InStepInv'
  <2>1. PICK ws \in Seq(Seq(Bytes)) : Spell(ws, owed) /\ Joined(ws)
    BY <1>8 DEF InStepInv
  <2>2. Joined(ws)'
    BY <1>4, <1>5, <1>6, <1>7, <2>1 DEF Joined, Ahead, gb
  <2>3. Spell(ws, owed)'
    BY <1>1, <2>1 DEF Spell
  <2> QED
    BY <2>2, <2>3 DEF InStepInv
<1>9. ~inStep => InStepInv'
  BY <1>1 DEF InStepInv
<1> QED
  BY <1>1, <1>8, <1>9 DEF ChannelStep, Channel!vars

LEMMA TakeInStep ==
    ASSUME TypeOK, InStepInv, Take, buffer # <<>>
    PROVE  InStepInv' /\ ChannelStep
<1>1. /\ got' = Append(got, Head(buffer)) /\ buffer' = Tail(buffer)
      /\ UNCHANGED <<line, received, owed, inStep>>
  BY DEF Take
<1>2. Append(got, Head(buffer)) \o Tail(buffer) = got \o buffer
  BY MoveOne DEF TypeOK
<1>3. (got \o buffer)' = got \o buffer /\ FlattenSeq(line)' = FlattenSeq(line)
  BY <1>1, <1>2
<1>4. InStepInv'
  BY <1>1, <1>3 DEF InStepInv, Joined, Ahead, Spell
<1> QED
  BY <1>1, <1>4 DEF ChannelStep, Channel!vars

LEMMA DataReadSome == DataRead(got) => got # <<>>
BY ReadingEmpty

\* In step, what passes for a complete frame is the word that is next.
LEMMA CompleteIsWord ==
    ASSUME TypeOK, NEW r \in Seq(Bytes), NEW ws \in Seq(Seq(Bytes)),
           NEW S, NEW queue \in Seq(S), Spell(ws, queue), Ahead(r, ws), queue # <<>>,
           buffer # <<>>, DataRead(got)
    PROVE  Complete = Head(ws)
<1> DEFINE w == Head(ws)
           m == Len(got)
           h == Head(buffer)
<1>1. /\ Word(w, Head(queue)) /\ \A i \in 1..m : got[i] = w[i]
      /\ h = w[m + 1]
  BY FirstWord
<1>2. w \in Seq(Bytes) /\ Len(w) = FrameSize(w)
  BY <1>1, WordShape
<1>3. m \in Nat /\ m > 3 /\ m = FrameSize(got) - 1 /\ got \in Seq(Bytes)
  BY LenProperties DEF DataRead, TypeOK
<1>4. Len(w) = m + 1
  <2>1. got[2] = w[2]
    <3>1. 2 \in 1..m
      BY <1>3
    <3> QED
      BY <1>1, <3>1
  <2>2. FrameSize(got) = FrameSize(w)
    BY <2>1 DEF FrameSize
  <2>3. FrameSize(got) \in Nat
    BY <1>3, SizeTyped
  <2> QED
    BY <1>2, <1>3, <2>2, <2>3
<1>5. Complete = Append(got, h)
  BY DEF Complete
<1>6. h \in Bytes
  BY HeadTailProperties DEF TypeOK
<1> HIDE DEF w, h
<1>7. /\ Append(got, h) \in Seq(Bytes) /\ Len(Append(got, h)) = m + 1
      /\ Append(got, h)[m + 1] = h
      /\ \A i \in 1..m : Append(got, h)[i] = got[i]
  BY <1>3, <1>6, AppendProperties
<1> DEFINE a == Append(got, h)
<1> HIDE DEF a, m
<1>8. ASSUME NEW i \in 1..(m + 1) PROVE a[i] = w[i]
  <2>1. CASE i = m + 1
    BY <1>1, <1>7, <2>1 DEF a
  <2>2. CASE i # m + 1
    <3>1. i \in 1..m
      BY <1>3, <2>2
    <3> QED
      BY <1>1, <1>7, <3>1 DEF a
  <2> QED
    BY <2>1, <2>2
<1>9. a \in Seq(Bytes) /\ Len(a) = m + 1
  BY <1>7 DEF a
<1>10. a = w
  BY <1>2, <1>4, <1>8, <1>9, SameSeq
<1> QED
  BY <1>5, <1>10 DEF a, w

LEMMA PurgeInStep ==
    ASSUME TypeOK, InStepInv, Purge,
           \/ got = <<>> /\ buffer # <<>> /\ Head(buffer) # RPC_SOF
           \/ got # <<>> /\ buffer = <<>>
           \/ DataRead(got) /\ ~Sound(Complete)
    PROVE  InStepInv' /\ ChannelStep
<1>1. UNCHANGED <<line, received>>
  BY DEF Purge
<1>2. CASE ~inStep
  <2>1. owed' = <<>> /\ inStep' = Quiet
    BY <1>2 DEF Purge
  <2>2. Channel!Astray
    BY <1>1, <1>2, <2>1 DEF Channel!Astray, Quiet
  <2> QED
    BY <2>1, <2>2, QuietInv DEF ChannelStep
<1>3. CASE inStep
  <2>1. PICK ws \in Seq(Seq(Bytes)) : Spell(ws, owed) /\ Joined(ws)
    BY <1>3 DEF InStepInv
  <2> DEFINE w == Head(ws)
  <2>2. owed # <<>>
    BY <2>1, OwedComes, DataReadSome
  <2>3. /\ Word(w, Head(owed))
        /\ buffer # <<>> => Head(buffer) = w[Len(got) + 1]
        /\ buffer # <<>> \/ line # <<>>
    BY <2>1, <2>2, OwedComes
  <2>4. CASE got = <<>> /\ buffer # <<>> /\ Head(buffer) # RPC_SOF
    <3>1. w[1] = RPC_SOF
      BY <2>3, WordShape
    <3>2. Len(got) + 1 = 1
      BY <2>4
    <3> QED
      BY <2>3, <2>4, <3>1, <3>2
  <2>5. CASE buffer = <<>>
    <3>1. ~Quiet
      BY <1>1, <2>3, <2>5 DEF Quiet
    <3>2. owed' = <<>> /\ inStep' = FALSE
      BY <2>5, <3>1 DEF Purge, Quiet
    <3>3. Channel!LoseStep
      BY <1>1, <3>2 DEF Channel!LoseStep
    <3> QED
      BY <3>2, <3>3, QuietInv DEF ChannelStep
  <2>6. CASE DataRead(got) /\ ~Sound(Complete) /\ buffer # <<>>
    <3>1. Complete = w
      BY <2>1, <2>2, <2>6, FlattenTyped, CompleteIsWord DEF TypeOK, Joined
    <3>2. Head(owed) = Damaged
      BY <2>3, <2>6, <3>1, WordShape, WordDispatched
    <3>3. owed' = <<>> /\ inStep' = Quiet
      BY <3>2 DEF Purge
    <3>4. Channel!Drop
      BY <1>1, <1>3, <2>2, <3>2, <3>3 DEF Channel!Drop, Quiet
    <3> QED
      BY <3>3, <3>4, QuietInv DEF ChannelStep
  <2> QED
    BY <2>4, <2>5, <2>6
<1> QED
  BY <1>2, <1>3

LEMMA DispatchInStep ==
    ASSUME TypeOK, InStepInv, DataRead(got), Sound(Complete), Dispatch(Complete)
    PROVE  InStepInv' /\ ChannelStep
<1>1. UNCHANGED line /\ got' = <<>> /\ received' = Decode(Complete) /\ received' \in Frames
  BY CompleteDecoded DEF Dispatch
<1>2. CASE ~inStep
  <2>1. owed' = <<>> /\ inStep' = Quiet
    BY <1>2 DEF Dispatch
  <2>2. Channel!Astray
    BY <1>1, <1>2, <2>1 DEF Channel!Astray, Quiet
  <2> QED
    BY <2>1, <2>2, QuietInv DEF ChannelStep
<1>3. CASE inStep
  <2>1. PICK ws \in Seq(Seq(Bytes)) : Spell(ws, owed) /\ Joined(ws)
    BY <1>3 DEF InStepInv
  <2> DEFINE w == Head(ws)
             u == FlattenSeq(Tail(ws))
             r == FlattenSeq(line)
             t == Tail(buffer)
  <2>2. owed # <<>>
    BY <2>1, OwedComes, DataReadSome
  <2>3. Word(w, Head(owed)) /\ (buffer # <<>> \/ line # <<>>)
    BY <2>1, <2>2, OwedComes
  <2>4. CASE buffer = <<>>
    <3>1. ~Quiet
      BY <1>1, <2>3, <2>4 DEF Quiet
    <3>2. owed' = <<>> /\ inStep' = FALSE
      BY <2>4, <3>1 DEF Dispatch, Quiet
    <3>3. Channel!LoseStep
      BY <1>1, <3>2 DEF Channel!LoseStep
    <3> QED
      BY <3>2, <3>3, QuietInv DEF ChannelStep
  <2>5. CASE buffer # <<>>
    <3>1. Complete = w
      BY <2>1, <2>2, <2>5, FlattenTyped, CompleteIsWord DEF TypeOK, Joined
    <3>2. Head(owed) \in Traffic /\ Decode(w) = Head(owed)
      BY <2>3, <3>1, WordDispatched
    <3>3. owed' = Tail(owed) /\ UNCHANGED inStep /\ buffer' = t
      BY <1>3, <2>2, <2>5 DEF Dispatch
    <3>4. Channel!Receive
      BY <1>1, <1>3, <2>2, <3>1, <3>2, <3>3 DEF Channel!Receive
    <3>5. /\ w \in Seq(Bytes) /\ Tail(ws) \in Seq(Seq(Bytes))
          /\ Spell(Tail(ws), Tail(owed)) /\ FlattenSeq(ws) = w \o u
      BY <2>1, <2>2, SpellHead DEF TypeOK
    <3>6. t \in Seq(Bytes) /\ r \in Seq(Bytes) /\ u \in Seq(Bytes)
      BY <2>5, <3>5, HeadTailProperties, FlattenTyped DEF TypeOK
    <3>7. w \o t = got \o buffer
      <4>1. Complete = Append(got, Head(buffer))
        BY <2>5 DEF Complete
      <4>2. Append(got, Head(buffer)) \o t = got \o buffer
        BY <2>5, MoveOne DEF TypeOK
      <4> QED
        BY <3>1, <4>1, <4>2
    <3>8. (got \o buffer) \o r = w \o u
      BY <2>1, <3>5 DEF Joined, Ahead
    <3> DEFINE us == Tail(ws)
    <3>9. us \in Seq(Seq(Bytes)) /\ Spell(us, owed)'
      BY <3>3, <3>5 DEF Spell
    <3>10. u = FlattenSeq(us) /\ r = FlattenSeq(line)'
      BY <1>1
    <3> HIDE DEF w, u, r, t, us
    <3>11. t \o r = u
      <4>1. CutTwice(w, t, r, w, u)
        BY <3>7, <3>8 DEF CutTwice
      <4> QED
        BY <3>5, <3>6, <4>1, Dropped
    <3>12. <<>> \o t = t
      BY <3>6, ConcatEmptySeq
    <3>13. Joined(us)'
      BY <1>1, <3>3, <3>10, <3>11, <3>12 DEF Joined, Ahead
    <3>14. InStepInv'
      BY <3>9, <3>13 DEF InStepInv
    <3> QED
      BY <3>4, <3>14 DEF ChannelStep
  <2> QED
    BY <2>4, <2>5
<1> QED
  BY <1>2, <1>3

LEMMA StepInStep ==
    ASSUME TypeOK, InStepInv, Dongle \/ Arrive \/ Read
    PROVE  InStepInv' /\ ChannelStep
<1>1. CASE Dongle
  BY <1>1, SendInStep, SendDamagedInStep DEF Dongle
<1>2. CASE Arrive
  BY <1>2, ArriveInStep
<1>3. CASE Read
  <2>1. CASE buffer # <<>> /\ Take
    BY <2>1, TakeInStep
  <2>2. CASE /\ Purge
             /\ \/ got = <<>> /\ buffer # <<>> /\ Head(buffer) # RPC_SOF
                \/ got # <<>> /\ buffer = <<>>
                \/ DataRead(got) /\ ~Sound(Complete)
    BY <2>2, PurgeInStep
  <2>3. CASE Stumble
    <3>1. owed' = <<>> /\ inStep' = FALSE /\ UNCHANGED received
      BY <2>3 DEF Stumble
    <3>2. Channel!LoseStep
      BY <3>1 DEF Channel!LoseStep
    <3> QED
      BY <3>1, <3>2, QuietInv DEF ChannelStep
  <2>4. CASE DataRead(got) /\ Sound(Complete) /\ Dispatch(Complete)
    BY <2>4, DispatchInStep
  <2>5. CASE Hang
    BY <2>5 DEF Hang, InStepInv, Spell, Joined, Ahead, ChannelStep, Channel!vars
  <2> QED
    BY <1>3, <2>1, <2>2, <2>3, <2>4, <2>5, ReadCases
<1> QED
  BY <1>1, <1>2, <1>3

LEMMA RestartInStep ==
    ASSUME Restart
    PROVE  InStepInv' /\ Channel!Restart
<1>1. owed' = <<>> /\ inStep' = Quiet /\ UNCHANGED received
  BY DEF Restart
<1> QED
  BY <1>1, QuietInv DEF Channel!Restart, Quiet

LEMMA IInvInvariance ==
    ASSUME IInv, [Next]_vars
    PROVE  IInv' /\ (ChannelStep \/ Channel!Restart)
<1>1. TypeOK /\ InStepInv /\ TypeOK'
  BY TypeInvariance DEF IInv
<1>2. CASE Dongle \/ Arrive \/ Read
  BY <1>1, <1>2, StepInStep DEF IInv
<1>3. CASE Restart
  BY <1>1, <1>3, RestartInStep DEF IInv, Restart
<1>4. CASE UNCHANGED vars
  BY <1>1, <1>4 DEF vars, IInv, InStepInv, Spell, Joined, Ahead, ChannelStep, Channel!vars
<1> QED
  BY <1>2, <1>3, <1>4 DEF Next

LEMMA InitIInv == Init => IInv /\ Channel!Init
<1> SUFFICES ASSUME Init PROVE IInv /\ Channel!Init
  OBVIOUS
<1>1. TypeOK
  BY InitTyped
<1>2. InStepInv
  <2>1. <<>> \in Seq(Seq(Bytes)) /\ <<>> \in Seq(Bytes)
    BY EmptySeq
  <2>2. <<>> \o <<>> = <<>>
    BY <2>1, ConcatEmptySeq
  <2>3. Spell(<<>>, owed) /\ Joined(<<>>)
    BY <2>2, FlattenEmpty DEF Init, Spell, Joined, Ahead
  <2> QED
    BY <2>1, <2>3 DEF InStepInv
<1>3. Channel!Init
  BY RpcAssumption DEF Init, Channel!Init
<1> QED
  BY <1>1, <1>2, <1>3 DEF IInv

\* The link is the channel it promises to be: to a reader in step every frame
\* comes once, in the order they were sent, and one in which a bit is wrong is
\* never taken for a frame (rpc.c:152-302).
THEOREM ChannelRefinement == Spec => IsChannel
<1>1. Init => IInv /\ Channel!Init
  BY InitIInv
<1>2. IInv /\ [Next]_vars => IInv' /\ [Channel!Next]_Channel!vars
  BY IInvInvariance DEF ChannelStep, Channel!Next
<1> QED
  BY <1>1, <1>2, PTL DEF Spec, IsChannel, Channel!Spec

\* While the gateway is not killed, a reader that stays in step loses no frame: the
\* queue only grows at its end and shrinks by the frame that is dispatched, or
\* is emptied behind a frame in which a bit was wrong.
InOrder ==
    inStep /\ inStep' /\ ~Restart =>
       \/ owed' = owed /\ received' = received
       \/ \E f \in Traffic \cup {Damaged} : owed' = Append(owed, f) /\ received' = received
       \/ owed # <<>> /\ owed' = Tail(owed) /\ received' = Head(owed) /\ received' \in Traffic
       \/ owed # <<>> /\ Head(owed) = Damaged /\ owed' = <<>> /\ received' = received

THEOREM OrderCorrectness == Spec => [][InOrder]_vars
<1>1. Init => IInv
  BY InitIInv
<1>2. IInv /\ [Next]_vars => IInv' /\ InOrder
  <2> SUFFICES ASSUME IInv, [Next]_vars PROVE IInv' /\ InOrder
    OBVIOUS
  <2>1. IInv'
    BY IInvInvariance
  <2>2. ASSUME inStep, inStep', ~Restart PROVE InOrder
    <3>1. CASE ChannelStep
      BY <2>2, <3>1 DEF InOrder, ChannelStep, Channel!vars, Channel!Send, Channel!Receive,
                        Channel!Drop, Channel!LoseStep, Channel!Astray
    <3>2. CASE UNCHANGED vars
      BY <3>2 DEF vars, InOrder
    <3>3. CASE Dongle \/ Arrive \/ Read
      BY <3>1, <3>3, StepInStep DEF IInv
    <3> QED
      BY <2>2, <3>2, <3>3 DEF Next
  <2> QED
    BY <2>1, <2>2 DEF InOrder
<1> QED
  BY <1>1, <1>2, PTL DEF Spec

-----------------------------------------------------------------------------
(* A line on which nothing goes wrong *)

\* Whole frames are on the line, and the reader has whole frames before it.
Wholes ==
    /\ \A i \in 1..Len(line) : \E f \in Traffic : line[i] = Encode(f)
    /\ \E ws \in Seq(Seq(Bytes)), queue \in Seq(Traffic) : Spell(ws, queue) /\ Ahead(<<>>, ws)

LEMMA WholesRead ==
    ASSUME TypeOK, NEW ws \in Seq(Seq(Bytes)), NEW queue \in Seq(Traffic),
           Spell(ws, queue), Ahead(<<>>, ws), got # <<>> \/ buffer # <<>>
    PROVE  /\ queue # <<>> /\ buffer # <<>>
           /\ Word(Head(ws), Head(queue)) /\ Head(queue) \in Traffic
           /\ got = <<>> => Head(buffer) = RPC_SOF
           /\ DataRead(got) => Complete = Head(ws) /\ Sound(Complete) /\ Decode(Complete) = Head(queue)
<1> DEFINE w == Head(ws)
<1>1. <<>> \in Seq(Bytes)
  BY EmptySeq
<1>2. queue # <<>>
  BY <1>1, NothingOwed
<1>3. /\ Word(w, Head(queue)) /\ buffer # <<>>
      /\ Head(buffer) = w[Len(got) + 1]
  BY <1>1, <1>2, FirstWord
<1>4. Head(queue) \in Traffic
  BY <1>2, HeadTailProperties
<1>5. ASSUME got = <<>> PROVE Head(buffer) = RPC_SOF
  <2>1. Len(got) + 1 = 1
    BY <1>5
  <2>2. w[1] = RPC_SOF
    BY <1>3, WordShape
  <2> QED
    BY <1>3, <2>1, <2>2
<1>6. ASSUME DataRead(got)
      PROVE  Complete = w /\ Sound(Complete) /\ Decode(Complete) = Head(queue)
  <2>1. Complete = w
    BY <1>1, <1>2, <1>3, <1>6, CompleteIsWord
  <2> QED
    BY <1>3, <1>4, <2>1, WordDispatched
<1> QED
  BY <1>2, <1>3, <1>4, <1>5, <1>6

LEMMA WholesArrive ==
    ASSUME Faults \subseteq {"restart"}, TypeOK, Wholes, Arrive
    PROVE  Wholes'
<1> DEFINE h == Head(line)
           t == Tail(line)
<1>1. line \in Seq(Seq(Bytes)) /\ line # <<>> /\ got \in Seq(Bytes) /\ buffer \in Seq(Bytes)
  BY DEF TypeOK, Arrive
<1>2. line' = t /\ buffer' = buffer \o h /\ got' = got
  BY DEF Arrive
<1>3. h \in Seq(Bytes) /\ Len(t) = Len(line) - 1 /\ \A i \in 1..Len(t) : t[i] = line[i + 1]
  BY <1>1, HeadTailProperties
<1>4. Len(line) \in Nat /\ 1 \in 1..Len(line) /\ h = line[1]
  BY <1>1, EmptySeq
<1>5. PICK f \in Traffic : h = Encode(f)
  BY <1>4 DEF Wholes
<1> DEFINE e == Encode(f)
<1> HIDE DEF h, t, e
<1>6. ASSUME NEW i \in 1..Len(t) PROVE \E g \in Traffic : t[i] = Encode(g)
  <2>1. i + 1 \in 1..Len(line)
    BY <1>3, <1>4
  <2> QED
    BY <1>3, <2>1 DEF Wholes
<1>7. PICK ws \in Seq(Seq(Bytes)), queue \in Seq(Traffic) : Spell(ws, queue) /\ Ahead(<<>>, ws)
  BY DEF Wholes
<1> DEFINE us == Append(ws, e)
           q  == Append(queue, f)
<1>e. h = e
  BY <1>5 DEF e
<1>8. us \in Seq(Seq(Bytes)) /\ Spell(us, q) /\ q \in Seq(Traffic)
  <2>1. Word(h, f)
    BY <1>5 DEF Word
  <2> QED
    BY <1>3, <1>7, <1>e, <2>1, SpellAppend, AppendProperties
<1>9. FlattenSeq(us) = FlattenSeq(ws) \o h
  BY <1>3, <1>7, <1>e, FlattenAppend
<1> DEFINE gb == got \o buffer
           bh == buffer \o h
<1>10. gb \in Seq(Bytes) /\ bh \in Seq(Bytes)
  BY <1>1, <1>3, ConcatLen
<1>11. gb \o h = got \o bh
  <2>1. Associates(got, buffer, h)
    BY <1>1, <1>3, ConcatAssociates
  <2> QED
    BY <2>1 DEF Associates
<1>12. gb = FlattenSeq(ws)
  <2>1. gb \o <<>> = gb
    BY <1>10, ConcatEmptySeq
  <2> QED
    BY <1>7, <2>1 DEF Ahead
<1>13. (got \o buffer)' = got \o bh
  BY <1>2
<1>14. got \o bh \in Seq(Bytes)
  BY <1>1, <1>10, ConcatLen
<1> DEFINE all == got \o bh
<1>15. all \o <<>> = all
  BY <1>14, ConcatEmptySeq
<1>16. all = FlattenSeq(us)
  BY <1>9, <1>11, <1>12
<1> HIDE DEF us, q, gb, bh
<1>17. Ahead(<<>>, us)'
  <2>1. (got \o buffer)' \o <<>> = FlattenSeq(us)
    BY <1>13, <1>15, <1>16
  <2> QED
    BY <2>1 DEF Ahead
<1>18. \A i \in 1..Len(line') : \E g \in Traffic : line'[i] = Encode(g)
  BY <1>2, <1>6
<1> QED
  BY <1>8, <1>17, <1>18 DEF Wholes

LEMMA WholesDispatch ==
    ASSUME TypeOK, InStepInv, Wholes, DataRead(got), Dispatch(Complete)
    PROVE  Wholes' /\ received' \in Traffic /\ (inStep => inStep')
<1>1. PICK ws \in Seq(Seq(Bytes)), queue \in Seq(Traffic) : Spell(ws, queue) /\ Ahead(<<>>, ws)
  BY DEF Wholes
<1> DEFINE w == Head(ws)
           u == FlattenSeq(Tail(ws))
           t == Tail(buffer)
           us == Tail(ws)
           q == Tail(queue)
<1>2. /\ queue # <<>> /\ buffer # <<>> /\ Word(w, Head(queue)) /\ Head(queue) \in Traffic
      /\ Complete = w /\ Decode(Complete) = Head(queue)
  BY <1>1, WholesRead, DataReadSome
<1>3. /\ UNCHANGED line /\ got' = <<>> /\ buffer' = t /\ received' = Head(queue)
  BY <1>2 DEF Dispatch
<1>4. /\ w \in Seq(Bytes) /\ us \in Seq(Seq(Bytes)) /\ Spell(us, q)
      /\ FlattenSeq(ws) = w \o u
  BY <1>1, <1>2, SpellHead
<1>5. q \in Seq(Traffic) /\ t \in Seq(Bytes) /\ u \in Seq(Bytes) /\ <<>> \in Seq(Bytes)
  BY <1>2, <1>4, HeadTailProperties, FlattenTyped, EmptySeq DEF TypeOK
<1>6. w \o t = got \o buffer
  <2>1. Complete = Append(got, Head(buffer))
    BY <1>2 DEF Complete
  <2>2. Append(got, Head(buffer)) \o t = got \o buffer
    BY <1>2, MoveOne DEF TypeOK
  <2> QED
    BY <1>2, <2>1, <2>2
<1>7. (got \o buffer) \o <<>> = w \o u
  BY <1>1, <1>4 DEF Ahead
<1>8. u = FlattenSeq(us)
  OBVIOUS
<1>9. inStep => inStep'
  <2>1. ASSUME inStep PROVE owed # <<>>
    <3>1. PICK vs \in Seq(Seq(Bytes)) : Spell(vs, owed) /\ Joined(vs)
      BY <2>1 DEF InStepInv
    <3> QED
      BY <3>1, OwedComes, DataReadSome
  <2> QED
    BY <1>2, <2>1 DEF Dispatch
<1> HIDE DEF w, u, t, us, q
<1>10. t \o <<>> = u
  <2> DEFINE e == <<>>
  <2>1. e \in Seq(Bytes)
    BY <1>5
  <2>2. (w \o t) \o e = w \o u
    BY <1>6, <1>7
  <2> HIDE DEF e
  <2>3. CutTwice(w, t, e, w, u)
    BY <2>2 DEF CutTwice
  <2>4. t \o e = u
    BY <1>4, <1>5, <2>1, <2>3, Dropped
  <2> QED
    BY <2>4 DEF e
<1>11. <<>> \o t = t
  BY <1>5, ConcatEmptySeq
<1>12. Ahead(<<>>, us)'
  BY <1>3, <1>8, <1>10, <1>11 DEF Ahead
<1>13. Wholes'
  BY <1>3, <1>4, <1>5, <1>12 DEF Wholes
<1> QED
  BY <1>2, <1>3, <1>9, <1>13

\* The step of a reader of whole frames.
WholeStep ==
    /\ received' = received \/ received' \in Traffic
    /\ inStep => inStep' \/ Restart

LEMMA WholesInvariance ==
    ASSUME Faults \subseteq {"restart"}, IInv, Wholes, [Next]_vars
    PROVE  Wholes' /\ WholeStep
<1>1. TypeOK /\ InStepInv
  BY DEF IInv
<1>2. PICK ws \in Seq(Seq(Bytes)), queue \in Seq(Traffic) : Spell(ws, queue) /\ Ahead(<<>>, ws)
  BY DEF Wholes
<1>3. CASE UNCHANGED vars
  BY <1>3 DEF vars, Wholes, Ahead, WholeStep
<1>4. ASSUME NEW f \in Traffic, Send(f) PROVE Wholes' /\ WholeStep
  <2>1. line' = Append(line, Encode(f)) /\ UNCHANGED <<buffer, got, received, inStep>>
    BY <1>4 DEF Send
  <2> DEFINE e == Encode(f)
             n == Len(line)
  <2>2. e \in Seq(Bytes)
    BY EncodeTyped
  <2>3. /\ Len(Append(line, e)) = n + 1 /\ Append(line, e)[n + 1] = e
        /\ \A i \in 1..n : Append(line, e)[i] = line[i]
    BY <1>1, <2>2, AppendProperties DEF TypeOK
  <2>4. n \in Nat
    BY <1>1, LenProperties DEF TypeOK
  <2> DEFINE l == Append(line, e)
  <2> HIDE DEF l, n
  <2>5. ASSUME NEW i \in 1..(n + 1) PROVE \E g \in Traffic : l[i] = Encode(g)
    <3>1. CASE i = n + 1
      BY <2>3, <3>1 DEF l
    <3>2. CASE i \in 1..n
      <4>1. l[i] = line[i]
        BY <2>3, <3>2 DEF l
      <4> QED
        BY <3>2, <4>1 DEF Wholes, n
    <3> QED
      BY <2>4, <3>1, <3>2
  <2>6. Ahead(<<>>, ws)'
    BY <1>2, <2>1 DEF Ahead
  <2>7. line' = l /\ Len(l) = n + 1
    BY <2>1, <2>3 DEF l
  <2> QED
    BY <1>2, <2>1, <2>5, <2>6, <2>7 DEF Wholes, WholeStep
<1>5. ASSUME NEW f \in Traffic, SendDamaged(f) PROVE FALSE
  BY <1>5 DEF SendDamaged
<1>6. CASE Arrive
  BY <1>1, <1>6, WholesArrive DEF Arrive, WholeStep
<1>7. CASE buffer # <<>> /\ Take
  <2>1. /\ got' = Append(got, Head(buffer)) /\ buffer' = Tail(buffer)
        /\ UNCHANGED <<line, received, inStep>>
    BY <1>7 DEF Take
  <2>2. Append(got, Head(buffer)) \o Tail(buffer) = got \o buffer
    BY <1>1, <1>7, MoveOne DEF TypeOK
  <2>3. Ahead(<<>>, ws)'
    BY <1>2, <2>1, <2>2 DEF Ahead
  <2> QED
    BY <1>2, <2>1, <2>3 DEF Wholes, WholeStep
<1>8. ASSUME \/ got = <<>> /\ buffer # <<>> /\ Head(buffer) # RPC_SOF
             \/ got # <<>> /\ buffer = <<>>
             \/ DataRead(got) /\ ~Sound(Complete)
      PROVE  FALSE
  BY <1>1, <1>2, <1>8, WholesRead, DataReadSome
<1>9. ASSUME buffer = <<>> /\ Len(got) > 4 PROVE FALSE
  <2>1. Len(<<>>) = 0
    OBVIOUS
  <2>2. got # <<>>
    BY <1>9, <2>1
  <2> QED
    BY <1>8, <1>9, <2>2
<1>10. CASE DataRead(got) /\ Dispatch(Complete)
  BY <1>1, <1>10, WholesDispatch DEF WholeStep
<1>11. CASE Hang
  BY <1>2, <1>11 DEF Hang, Wholes, Ahead, WholeStep
<1>12. CASE Restart
  <2>1. line' = line /\ buffer' = <<>> /\ got' = <<>> /\ received' = received
    BY <1>12 DEF Restart
  <2>2. <<>> \in Seq(Seq(Bytes)) /\ <<>> \in Seq(Traffic) /\ <<>> \in Seq(Bytes)
    BY EmptySeq
  <2>3. <<>> \o <<>> = <<>>
    BY <2>2, ConcatEmptySeq
  <2>4. Spell(<<>>, <<>>) /\ Ahead(<<>>, <<>>)'
    BY <2>1, <2>3, FlattenEmpty DEF Spell, Ahead
  <2> QED
    BY <1>12, <2>1, <2>2, <2>4 DEF Wholes, WholeStep
<1>13. CASE Read
  BY <1>1, <1>7, <1>8, <1>9, <1>10, <1>11, <1>13, ReadCases
<1> QED
  BY <1>3, <1>4, <1>5, <1>6, <1>12, <1>13 DEF Next, Dongle

LEMMA InitWholes == Init => Wholes
<1> SUFFICES ASSUME Init PROVE Wholes
  OBVIOUS
<1>1. <<>> \in Seq(Seq(Bytes)) /\ <<>> \in Seq(Traffic) /\ <<>> \in Seq(Bytes)
  BY EmptySeq
<1>2. <<>> \o <<>> = <<>>
  BY <1>1, ConcatEmptySeq
<1>3. Spell(<<>>, <<>>) /\ Ahead(<<>>, <<>>)
  BY <1>2, FlattenEmpty DEF Init, Spell, Ahead
<1>4. line = <<>> /\ 1..Len(line) = {}
  <2>1. Len(<<>>) = 0
    OBVIOUS
  <2> QED
    BY <2>1 DEF Init
<1> QED
  BY <1>1, <1>3, <1>4 DEF Wholes

\* On a line that brings every frame whole the reader dispatches only what was
\* sent, and nothing but a start of the gateway puts it out of step (rpc.c:152-252).
\* OnlySentFrames fails as soon as a frame may come in pieces.
THEOREM OnlySentCorrectness ==
    Faults \subseteq {"restart"} => (Spec => OnlySentFrames /\ [][inStep => inStep' \/ Restart]_vars)
<1> SUFFICES ASSUME Faults \subseteq {"restart"}
             PROVE  Spec => OnlySentFrames /\ [][inStep => inStep' \/ Restart]_vars
  OBVIOUS
<1>1. Init => IInv /\ Wholes
  BY InitIInv, InitWholes
<1>2. IInv /\ Wholes /\ [Next]_vars =>
        /\ IInv' /\ Wholes'
        /\ received' # received => received' \in Traffic
        /\ inStep => inStep' \/ Restart
  BY IInvInvariance, WholesInvariance DEF WholeStep
<1> QED
  BY <1>1, <1>2, PTL DEF Spec, OnlySentFrames
=============================================================================
