-------------------------- MODULE DeviceStoreProofs --------------------------
(***************************************************************************)
(* Lemmas about the device database as a value, for every size of it: what *)
(* its searches return and what its updates keep.                          *)
(***************************************************************************)
EXTENDS DeviceStore, SequenceLemmas

-----------------------------------------------------------------------------
(* Searches: the first match, 0 without one *)

\* What SelectInSeq takes of the places that match.
LEMMA FirstOf ==
    ASSUME NEW n \in Nat, NEW I \in SUBSET (1..n)
    PROVE  IF I = {} THEN TRUE ELSE (CHOOSE x \in I : \A y \in I : x =< y) \in I
<1>1. I \subseteq Nat
  OBVIOUS
<1>2. I # {} => \E x \in I : \A y \in I : x <= y
  BY <1>1, Smallest
<1> QED
  BY <1>2

LEMMA ByShortAddrFinds ==
    ASSUME NEW base, Len(base) \in Nat, NEW short
    PROVE  LET i == ByShortAddr(base, short)
           IN  /\ i \in 0..Len(base)
               /\ i # 0 => base[i].short = short
               /\ i = 0 => \A k \in 1..Len(base) : base[k].short # short
<1> DEFINE I == {k \in 1..Len(base) : base[k].short = short}
           i == IF I # {} THEN CHOOSE x \in I : \A y \in I : x =< y ELSE 0
<1>1. ByShortAddr(base, short) = i
  BY DEF ByShortAddr, SelectInSeq, Min
<1>2. IF I = {} THEN i = 0 ELSE i \in I
  <2>1. I \in SUBSET (1..Len(base))
    OBVIOUS
  <2> HIDE DEF I
  <2> QED
    BY <2>1, FirstOf
<1> HIDE DEF i
<1> QED
  BY <1>1, <1>2

LEMMA EndpointIndexFinds ==
    ASSUME NEW base, NEW short, ByShortAddr(base, short) # 0, NEW num,
           NEW eps, eps = base[ByShortAddr(base, short)].endpoints, Len(eps) \in Nat
    PROVE  LET e == EndpointIndex(base, short, num)
           IN  /\ e \in 0..Len(eps)
               /\ e # 0 => eps[e].num = num
               /\ e = 0 => \A k \in 1..Len(eps) : eps[k].num # num
<1> DEFINE I == {k \in 1..Len(eps) : eps[k].num = num}
           e == IF I # {} THEN CHOOSE x \in I : \A y \in I : x =< y ELSE 0
<1>1. EndpointIndex(base, short, num) = e
  BY DEF EndpointIndex, SelectInSeq, Min
<1>2. IF I = {} THEN e = 0 ELSE e \in I
  <2>1. I \in SUBSET (1..Len(eps))
    OBVIOUS
  <2> HIDE DEF I
  <2> QED
    BY <2>1, FirstOf
<1> HIDE DEF e
<1> QED
  BY <1>1, <1>2

\* Endpoint 0 when no profile is missing.
LEMMA NextEmptyEndpointFinds ==
    ASSUME NEW base, NEW short, ByShortAddr(base, short) # 0,
           NEW eps, eps = base[ByShortAddr(base, short)].endpoints, Len(eps) \in Nat
    PROVE  \/ /\ NextEmptyEndpoint(base, short) = 0
              /\ \A k \in 1..Len(eps) : eps[k].profile # 0
           \/ \E e \in 1..Len(eps) : /\ eps[e].profile = 0
                                     /\ NextEmptyEndpoint(base, short) = eps[e].num
<1> DEFINE I == {k \in 1..Len(eps) : eps[k].profile = 0}
           e == IF I # {} THEN CHOOSE x \in I : \A y \in I : x =< y ELSE 0
<1>1. NextEmptyEndpoint(base, short) = IF e = 0 THEN 0 ELSE eps[e].num
  BY DEF NextEmptyEndpoint, SelectInSeq, Min
<1>2. IF I = {} THEN e = 0 ELSE e \in I
  <2>1. I \in SUBSET (1..Len(eps))
    OBVIOUS
  <2> HIDE DEF I
  <2> QED
    BY <2>1, FirstOf
<1> HIDE DEF e
<1> QED
  BY <1>1, <1>2

LEMMA ZhaEndpointFinds ==
    ASSUME NEW base, NEW short, ByShortAddr(base, short) # 0,
           NEW eps, eps = base[ByShortAddr(base, short)].endpoints, Len(eps) \in Nat
    PROVE  \/ /\ ZhaEndpoint(base, short) = NoEndpoint
              /\ \A k \in 1..Len(eps) : eps[k].profile # Zha
           \/ \E e \in 1..Len(eps) : /\ eps[e].profile = Zha
                                     /\ ZhaEndpoint(base, short) = eps[e].num
<1> DEFINE I == {k \in 1..Len(eps) : eps[k].profile = Zha}
           e == IF I # {} THEN CHOOSE x \in I : \A y \in I : x =< y ELSE 0
<1>1. ZhaEndpoint(base, short) = IF e = 0 THEN NoEndpoint ELSE eps[e].num
  BY DEF ZhaEndpoint, SelectInSeq, Min
<1>2. IF I = {} THEN e = 0 ELSE e \in I
  <2>1. I \in SUBSET (1..Len(eps))
    OBVIOUS
  <2> HIDE DEF I
  <2> QED
    BY <2>1, FirstOf
<1> HIDE DEF e
<1> QED
  BY <1>1, <1>2

\* An identifier finds its device.
LEMMA ByIdFinds ==
    ASSUME NEW base, Len(base) \in Nat, \A k \in 1..Len(base) : base[k].id = k - 1,
           NEW i \in 1..Len(base)
    PROVE  ById(base, base[i].id) = i
<1> DEFINE I == {k \in 1..Len(base) : base[k].id = base[i].id}
<1>1. ById(base, base[i].id) = IF I # {} THEN CHOOSE x \in I : \A y \in I : x =< y ELSE 0
  BY DEF ById, SelectInSeq, Min
<1>2. I = {i}
  BY SMT
<1> HIDE DEF I
<1>3. ById(base, base[i].id) = CHOOSE x \in {i} : \A y \in {i} : x =< y
  BY <1>1, <1>2
<1> QED
  BY <1>3

-----------------------------------------------------------------------------
(* The fold over the endpoints a device lists *)

Nums(n) == 1..n

\* The equation by which the library defines the fold has a solution.
Folded(f, n, e, nums) ==
    f = [s \in SUBSET Nums(n) |->
            IF s = {} THEN e ELSE AddEndpoint(f[s \ {Max(s)}], nums[Max(s)])]

LEMMA MaxIsLast ==
    ASSUME NEW n \in Nat \ {0}, NEW s \in SUBSET Nums(n), n \in s
    PROVE  Max(s) = n
<1>1. \A x \in s : x \in Nat /\ n >= x
  BY DEF Nums
<1>2. \A x \in s : (\A y \in s : x >= y) => x = n
  BY <1>1
<1> QED
  BY <1>1, <1>2 DEF Max

LEMMA FoldExists ==
    ASSUME NEW n \in Nat, NEW e, NEW nums
    PROVE  \E f : Folded(f, n, e, nums)
<1> DEFINE T == {k \in 0..n : \E f : Folded(f, k, e, nums)}
<1>1. 0 \in T
  <2> DEFINE f == [s \in SUBSET Nums(0) |-> e]
  <2>1. \A s \in SUBSET Nums(0) : s = {}
    BY DEF Nums
  <2>2. Folded(f, 0, e, nums)
    BY <2>1 DEF Folded
  <2> QED
    BY <2>2
<1>2. ASSUME NEW k \in 0..(n - 1), k \in T PROVE k + 1 \in T
  <2>1. PICK f : Folded(f, k, e, nums)
    BY <1>2
  <2> DEFINE g == [s \in SUBSET Nums(k + 1) |->
                      IF k + 1 \in s THEN AddEndpoint(f[s \ {k + 1}], nums[k + 1]) ELSE f[s]]
  <2>2. Nums(k) = Nums(k + 1) \ {k + 1}
    BY DEF Nums
  <2>3. ASSUME NEW s \in SUBSET Nums(k + 1)
        PROVE  g[s] = IF s = {} THEN e ELSE AddEndpoint(g[s \ {Max(s)}], nums[Max(s)])
    <3>1. CASE k + 1 \in s
      <4>1. Max(s) = k + 1
        BY <3>1, MaxIsLast
      <4>2. g[s \ {k + 1}] = f[s \ {k + 1}]
        OBVIOUS
      <4> QED
        BY <3>1, <4>1, <4>2
    <3>2. CASE k + 1 \notin s
      <4>1. s \in SUBSET Nums(k) /\ s \ {Max(s)} \in SUBSET Nums(k + 1)
        BY <2>2, <3>2
      <4>2. g[s] = f[s] /\ g[s \ {Max(s)}] = f[s \ {Max(s)}]
        BY <3>2, <4>1
      <4>3. f[s] = IF s = {} THEN e ELSE AddEndpoint(f[s \ {Max(s)}], nums[Max(s)])
        BY <2>1, <4>1 DEF Folded
      <4> QED
        BY <4>2, <4>3
    <3> QED
      BY <3>1, <3>2
  <2>4. g = [s \in SUBSET Nums(k + 1) |-> g[s]]
    OBVIOUS
  <2> HIDE DEF g
  <2>5. Folded(g, k + 1, e, nums)
    BY <2>3, <2>4 DEF Folded
  <2> QED
    BY <2>5
<1> HIDE DEF T
<1>3. n \in T
  BY <1>1, <1>2, Induction
<1> QED
  BY <1>3 DEF T

\* The fold as its successive results.
Results(acc, e, nums) ==
    /\ acc[0] = e
    /\ \A k \in 1..Len(nums) : acc[k] = AddEndpoint(acc[k - 1], nums[k])

LEMMA FoldResults ==
    ASSUME NEW e, NEW S, NEW nums \in Seq(S)
    PROVE  \E acc : /\ Results(acc, e, nums)
                    /\ FoldLeft(AddEndpoint, e, nums) = acc[Len(nums)]
<1> DEFINE n == Len(nums)
           f == CHOOSE f : f = [s \in SUBSET (DOMAIN nums) |->
                                   IF s = {} THEN e ELSE AddEndpoint(f[s \ {Max(s)}], nums[Max(s)])]
<1>1. n \in Nat /\ DOMAIN nums = Nums(n)
  BY DEF Nums
<1>2. FoldLeft(AddEndpoint, e, nums) = f[DOMAIN nums]
  BY DEF FoldLeft, MapThenFoldSet
<1>3. f = CHOOSE h : Folded(h, n, e, nums)
  BY <1>1 DEF Folded
<1> HIDE DEF f, n
<1>4. Folded(f, n, e, nums)
  BY <1>1, <1>3, FoldExists
<1> DEFINE acc == [k \in 0..n |-> f[Nums(k)]]
<1>5. acc[0] = e
  BY <1>1, <1>4 DEF Folded, Nums
<1>6. ASSUME NEW k \in 1..n PROVE acc[k] = AddEndpoint(acc[k - 1], nums[k])
  <2>1. Nums(k) \in SUBSET Nums(n) /\ Nums(k) # {} /\ Nums(k - 1) = Nums(k) \ {k} /\ k \in Nums(k)
    BY <1>1 DEF Nums
  <2>2. Max(Nums(k)) = k
    BY <1>1, <2>1, MaxIsLast
  <2>3. f[Nums(k)] = AddEndpoint(f[Nums(k) \ {k}], nums[k])
    BY <1>4, <2>1, <2>2 DEF Folded
  <2>4. acc[k] = f[Nums(k)] /\ acc[k - 1] = f[Nums(k - 1)]
    BY <1>1
  <2> QED
    BY <2>1, <2>3, <2>4
<1>7. f[DOMAIN nums] = acc[n]
  BY <1>1
<1> HIDE DEF acc
<1> QED
  BY <1>2, <1>5, <1>6, <1>7 DEF Results, n

-----------------------------------------------------------------------------
(* Lists of endpoints *)

EndpointFields == {"num", "profile", "device_id"}

\* A device lists an endpoint once.
Listed(eps) ==
    /\ eps \in Seq({eps[k] : k \in DOMAIN eps})
    /\ \A k \in DOMAIN eps : DOMAIN eps[k] = EndpointFields
    /\ \A k, l \in DOMAIN eps : eps[k].num = eps[l].num => k = l

\* What list more has beyond eps are endpoints not yet described.
Longer(eps, more, nums) ==
    \A k \in DOMAIN more :
      \/ k \in DOMAIN eps /\ more[k] = eps[k]
      \/ \E j \in DOMAIN nums : more[k] = NewEndpoint(nums[j])

LEMMA SeqOfItself ==
    ASSUME NEW S, NEW base \in Seq(S)
    PROVE  base \in Seq({base[i] : i \in DOMAIN base})
OBVIOUS

LEMMA ListedLength ==
    ASSUME NEW eps, Listed(eps)
    PROVE  Len(eps) \in Nat /\ DOMAIN eps = 1..Len(eps)
BY DEF Listed

\* What the append does.
LEMMA Appended ==
    ASSUME NEW S, NEW base \in Seq(S), NEW x
    PROVE  /\ Append(base, x) \in Seq(S \cup {x})
           /\ Len(Append(base, x)) = Len(base) + 1
           /\ DOMAIN Append(base, x) = 1..Len(base) + 1
           /\ \A i \in 1..Len(base) : Append(base, x)[i] = base[i]
           /\ Append(base, x)[Len(base) + 1] = x
<1> DEFINE T == S \cup {x}
<1>1. base \in Seq(T) /\ x \in T
  OBVIOUS
<1> HIDE DEF T
<1>2. /\ Append(base, x) \in Seq(T) /\ Len(Append(base, x)) = Len(base) + 1
      /\ Append(base, x)[Len(base) + 1] = x
      /\ \A i \in 1..Len(base) : Append(base, x)[i] = base[i]
  BY <1>1
<1>3. DOMAIN Append(base, x) = 1..Len(base) + 1
  BY <1>2
<1> QED
  BY <1>2, <1>3 DEF T

LEMMA AddEndpointListed ==
    ASSUME NEW eps, Listed(eps), NEW num
    PROVE  /\ Listed(AddEndpoint(eps, num))
           /\ \A k \in DOMAIN AddEndpoint(eps, num) :
                \/ k \in DOMAIN eps /\ AddEndpoint(eps, num)[k] = eps[k]
                \/ AddEndpoint(eps, num)[k] = NewEndpoint(num)
<1>1. CASE \E i \in DOMAIN eps : eps[i].num = num
  BY <1>1 DEF AddEndpoint
<1>2. CASE \A i \in DOMAIN eps : eps[i].num # num
  <2> DEFINE n == Len(eps)
             more == Append(eps, NewEndpoint(num))
  <2>1. n \in Nat /\ DOMAIN eps = 1..n
    BY ListedLength
  <2>2. /\ more \in Seq({eps[k] : k \in DOMAIN eps} \cup {NewEndpoint(num)})
        /\ DOMAIN more = 1..n + 1
        /\ \A i \in 1..n : more[i] = eps[i]
        /\ more[n + 1] = NewEndpoint(num)
    BY Appended DEF Listed
  <2>3. AddEndpoint(eps, num) = more
    BY <1>2 DEF AddEndpoint
  <2> HIDE DEF more, n
  <2>4. NewEndpoint(num).num = num /\ DOMAIN NewEndpoint(num) = EndpointFields
    BY DEF NewEndpoint, EndpointFields
  <2>5. \A k \in DOMAIN more : k \in 1..n \/ k = n + 1
    BY <2>1, <2>2
  <2>6. more \in Seq({more[k] : k \in DOMAIN more})
    <3> DEFINE Q == {eps[k] : k \in DOMAIN eps} \cup {NewEndpoint(num)}
    <3>1. more \in Seq(Q)
      BY <2>2
    <3> HIDE DEF Q
    <3> QED
      BY <3>1, SeqOfItself
  <2>7. \A k \in DOMAIN more : DOMAIN more[k] = EndpointFields
    BY <2>1, <2>2, <2>4, <2>5 DEF Listed
  <2>8. \A k, l \in DOMAIN more : more[k].num = more[l].num => k = l
    <3> SUFFICES ASSUME NEW k \in DOMAIN more, NEW l \in DOMAIN more, more[k].num = more[l].num
                 PROVE  k = l
      OBVIOUS
    <3>1. CASE k \in 1..n /\ l \in 1..n
      BY <2>1, <2>2, <3>1 DEF Listed
    <3>2. CASE k = n + 1 /\ l \in 1..n
      BY <1>2, <2>1, <2>2, <2>4, <3>2
    <3>3. CASE k \in 1..n /\ l = n + 1
      BY <1>2, <2>1, <2>2, <2>4, <3>3
    <3> QED
      BY <2>5, <3>1, <3>2, <3>3
  <2> QED
    BY <2>1, <2>2, <2>3, <2>5, <2>6, <2>7, <2>8 DEF Listed
<1> QED
  BY <1>1, <1>2

\* The endpoints a device lists once more are stored once.
LEMMA FoldListed ==
    ASSUME NEW eps, Listed(eps), NEW S, NEW nums \in Seq(S)
    PROVE  /\ Listed(FoldLeft(AddEndpoint, eps, nums))
           /\ Longer(eps, FoldLeft(AddEndpoint, eps, nums), nums)
<1> DEFINE n == Len(nums)
<1>1. PICK acc : /\ Results(acc, eps, nums)
                 /\ FoldLeft(AddEndpoint, eps, nums) = acc[n]
  BY FoldResults
<1> DEFINE T == {k \in 0..n : Listed(acc[k]) /\ Longer(eps, acc[k], nums)}
<1>2. n \in Nat /\ DOMAIN nums = 1..n
  OBVIOUS
<1> HIDE DEF n
<1>3. 0 \in T
  BY <1>1, <1>2 DEF Results, Longer
<1>4. ASSUME NEW k \in 0..(n - 1), k \in T PROVE k + 1 \in T
  <2>1. /\ k + 1 \in 1..n /\ (k + 1) - 1 = k
        /\ acc[k + 1] = AddEndpoint(acc[k], nums[k + 1])
    BY <1>1, <1>2 DEF Results, n
  <2>2. Listed(acc[k]) /\ Longer(eps, acc[k], nums)
    BY <1>4
  <2>3. Listed(acc[k + 1])
    BY <2>1, <2>2, AddEndpointListed
  <2>4. Longer(eps, acc[k + 1], nums)
    <3> SUFFICES ASSUME NEW i \in DOMAIN acc[k + 1]
                 PROVE  \/ i \in DOMAIN eps /\ acc[k + 1][i] = eps[i]
                        \/ \E j \in DOMAIN nums : acc[k + 1][i] = NewEndpoint(nums[j])
      BY DEF Longer
    <3>1. CASE i \in DOMAIN acc[k] /\ acc[k + 1][i] = acc[k][i]
      BY <2>2, <3>1 DEF Longer
    <3>2. CASE acc[k + 1][i] = NewEndpoint(nums[k + 1])
      BY <1>2, <2>1, <3>2
    <3> QED
      BY <2>1, <2>2, <3>1, <3>2, AddEndpointListed
  <2> QED
    BY <1>2, <2>1, <2>3, <2>4
<1> HIDE DEF T
<1>5. n \in T
  <2>1. \A k \in 0..n : k \in T
    BY <1>2, <1>3, <1>4, Induction
  <2> QED
    BY <1>2, <2>1
<1> QED
  BY <1>1, <1>5 DEF T

\* Endpoints that are listed already change nothing.
LEMMA FoldKnown ==
    ASSUME NEW eps, NEW S, NEW nums \in Seq(S),
           \A j \in DOMAIN nums : \E i \in DOMAIN eps : eps[i].num = nums[j]
    PROVE  FoldLeft(AddEndpoint, eps, nums) = eps
<1> DEFINE n == Len(nums)
<1>1. PICK acc : /\ Results(acc, eps, nums)
                 /\ FoldLeft(AddEndpoint, eps, nums) = acc[n]
  BY FoldResults
<1> DEFINE T == {k \in 0..n : acc[k] = eps}
<1>2. n \in Nat /\ DOMAIN nums = 1..n
  OBVIOUS
<1> HIDE DEF n
<1>3. 0 \in T
  BY <1>1, <1>2 DEF Results
<1>4. ASSUME NEW k \in 0..(n - 1), k \in T PROVE k + 1 \in T
  <2>1. /\ k + 1 \in 1..n /\ (k + 1) - 1 = k
        /\ acc[k + 1] = AddEndpoint(eps, nums[k + 1])
    BY <1>1, <1>2, <1>4 DEF Results, n
  <2>2. acc[k + 1] = eps
    BY <1>2, <2>1 DEF AddEndpoint
  <2> QED
    BY <1>2, <2>1, <2>2
<1> HIDE DEF T
<1>5. n \in T
  <2>1. \A k \in 0..n : k \in T
    BY <1>2, <1>3, <1>4, Induction
  <2> QED
    BY <1>2, <2>1
<1> QED
  BY <1>1, <1>5 DEF T

\* A device without endpoints gets those it lists, in its order (device.c:571-594).
THEOREM FoldFresh ==
    ASSUME NEW S, NEW nums \in Seq(S), \A i, j \in DOMAIN nums : nums[i] = nums[j] => i = j
    PROVE  FoldLeft(AddEndpoint, <<>>, nums) = [k \in DOMAIN nums |-> NewEndpoint(nums[k])]
<1> DEFINE n == Len(nums)
           first(k) == [j \in 1..k |-> NewEndpoint(nums[j])]
<1>1. PICK acc : /\ Results(acc, <<>>, nums)
                 /\ FoldLeft(AddEndpoint, <<>>, nums) = acc[n]
  BY FoldResults
<1> DEFINE T == {k \in 0..n : acc[k] = first(k)}
<1>2. n \in Nat /\ DOMAIN nums = 1..n
  OBVIOUS
<1> HIDE DEF n
<1>3. 0 \in T
  <2>1. first(0) = <<>>
    OBVIOUS
  <2> QED
    BY <1>1, <1>2, <2>1 DEF Results
<1>4. ASSUME NEW k \in 0..(n - 1), k \in T PROVE k + 1 \in T
  <2> DEFINE x == NewEndpoint(nums[k + 1])
  <2>1. /\ k \in Nat /\ k + 1 \in 1..n /\ (k + 1) - 1 = k
        /\ acc[k + 1] = AddEndpoint(first(k), nums[k + 1])
    BY <1>1, <1>2, <1>4 DEF Results, n
  <2>2. \A j \in 1..k : first(k)[j].num # nums[k + 1]
    <3> TAKE j \in 1..k
    <3>1. j \in DOMAIN nums /\ j # k + 1
      BY <1>2, <2>1
    <3>2. nums[j] # nums[k + 1]
      BY <1>2, <2>1, <3>1
    <3> QED
      BY <3>2 DEF NewEndpoint
  <2>3. acc[k + 1] = Append(first(k), x)
    BY <2>1, <2>2 DEF AddEndpoint
  <2>4. first(k) \in Seq({first(k)[j] : j \in 1..k}) /\ Len(first(k)) = k
    BY <2>1
  <2>5. /\ Append(first(k), x) = [j \in 1..k + 1 |-> Append(first(k), x)[j]]
        /\ \A j \in 1..k : Append(first(k), x)[j] = first(k)[j]
        /\ Append(first(k), x)[k + 1] = x
    <3> DEFINE a == Append(first(k), x)
               F == {first(k)[j] : j \in 1..k}
    <3> HIDE DEF x
    <3>1. /\ a \in Seq(F \cup {x}) /\ Len(a) = k + 1
          /\ \A j \in 1..k : a[j] = first(k)[j]
          /\ a[k + 1] = x
      BY <2>4, Appended
    <3> HIDE DEF a, F
    <3>2. a = [j \in 1..k + 1 |-> a[j]]
      BY <2>1, <3>1
    <3> QED
      BY <3>1, <3>2 DEF a
  <2>6. Append(first(k), x) = first(k + 1)
    <3>1. \A j \in 1..k + 1 : Append(first(k), x)[j] = NewEndpoint(nums[j])
      <4> TAKE j \in 1..k + 1
      <4>1. j \in 1..k \/ j = k + 1
        BY <2>1
      <4> QED
        BY <2>5, <4>1
    <3> QED
      BY <2>5, <3>1
  <2> HIDE DEF first, x
  <2>7. k + 1 \in 0..n
    BY <1>2, <2>1
  <2>8. acc[k + 1] = first(k + 1)
    BY <2>3, <2>6
  <2> QED
    BY <2>7, <2>8
<1> HIDE DEF T
<1>5. n \in T
  <2>1. \A k \in 0..n : k \in T
    BY <1>2, <1>3, <1>4, Induction
  <2> QED
    BY <1>2, <2>1
<1> QED
  BY <1>1, <1>2, <1>5 DEF T

-----------------------------------------------------------------------------
(* Databases *)

Fields == {"id", "short", "ext", "endpoints"}

\* Devices in a list, their identifiers in order and within bounds, no
\* extended address twice, no endpoint of a device twice.
Keyed(base) ==
    /\ base \in Seq({base[i] : i \in DOMAIN base})
    /\ Len(base) <= MaxId
    /\ \A i \in DOMAIN base : /\ DOMAIN base[i] = Fields
                              /\ base[i].id = i - 1
                              /\ Listed(base[i].endpoints)
    /\ \A i, j \in DOMAIN base : base[i].ext = base[j].ext => i = j

OwnerIn(base) == {<<base[i].id, base[i].ext>> : i \in DOMAIN base}

\* Two lists with the same devices, but for their endpoints.
SameDevices(base, other) ==
    /\ other = [i \in DOMAIN base |-> other[i]]
    /\ \A i \in DOMAIN base : /\ DOMAIN other[i] = Fields
                              /\ other[i].id = base[i].id
                              /\ other[i].ext = base[i].ext
                              /\ other[i].short = base[i].short
                              /\ Listed(other[i].endpoints)

LEMMA KeyedWellFormed == ASSUME NEW base, Keyed(base) PROVE WellFormed(base)
<1>1. /\ Len(base) <= MaxId
      /\ \A i \in DOMAIN base : base[i].id = i - 1
      /\ \A i, j \in DOMAIN base : base[i].ext = base[j].ext => i = j
  BY DEF Keyed
<1>2. ASSUME NEW i \in DOMAIN base
      PROVE  IsInjective([e \in DOMAIN base[i].endpoints |-> base[i].endpoints[e].num])
  <2>1. Listed(base[i].endpoints)
    BY DEF Keyed
  <2> QED
    BY <2>1 DEF Listed, IsInjective
<1> QED
  BY <1>1, <1>2 DEF WellFormed

LEMMA KeyedLength ==
    ASSUME NEW base, Keyed(base)
    PROVE  Len(base) \in Nat /\ DOMAIN base = 1..Len(base) /\ base = [i \in DOMAIN base |-> base[i]]
BY DEF Keyed

LEMMA EmptyKeyed == Keyed(<<>>) /\ OwnerIn(<<>>) = {}
<1>1. DOMAIN <<>> = {} /\ Len(<<>>) = 0 /\ \A S : <<>> \in Seq(S)
  OBVIOUS
<1> QED
  BY <1>1, DeviceStoreAssumption DEF Keyed, OwnerIn

LEMMA SameDevicesKeyed ==
    ASSUME NEW base, Keyed(base), NEW other, SameDevices(base, other)
    PROVE  Keyed(other) /\ OwnerIn(other) = OwnerIn(base) /\ Len(other) = Len(base)
<1> DEFINE T == {other[i] : i \in DOMAIN base}
<1>1. Len(base) \in Nat /\ DOMAIN base = 1..Len(base)
  BY KeyedLength
<1>2. other \in [1..Len(base) -> T]
  BY <1>1 DEF SameDevices
<1> HIDE DEF T
<1>3. other \in Seq(T) /\ Len(other) = Len(base) /\ DOMAIN other = DOMAIN base
  BY <1>1, <1>2
<1>4. other \in Seq({other[i] : i \in DOMAIN other})
  BY <1>3, SeqOfItself
<1>5. \A i \in DOMAIN base : /\ DOMAIN other[i] = Fields
                             /\ other[i].id = base[i].id
                             /\ other[i].ext = base[i].ext
                             /\ Listed(other[i].endpoints)
  BY DEF SameDevices
<1>6. /\ Len(other) <= MaxId
      /\ \A i \in DOMAIN other : /\ DOMAIN other[i] = Fields
                                 /\ other[i].id = i - 1
                                 /\ Listed(other[i].endpoints)
      /\ \A i, j \in DOMAIN other : other[i].ext = other[j].ext => i = j
  BY <1>3, <1>5 DEF Keyed
<1>7. OwnerIn(other) = OwnerIn(base)
  BY <1>3, <1>5 DEF OwnerIn
<1> QED
  BY <1>3, <1>4, <1>6, <1>7 DEF Keyed

LEMMA SameDevicesRefl == ASSUME NEW base, Keyed(base) PROVE SameDevices(base, base)
BY DEF Keyed, SameDevices

\* One device gets another list of endpoints.
WithEndpoints(base, k, eps) ==
    [i \in DOMAIN base |-> IF i = k THEN [base[i] EXCEPT !.endpoints = eps] ELSE base[i]]

LEMMA NewEndpointsDevices ==
    ASSUME NEW base, Keyed(base), NEW k, NEW eps, Listed(eps)
    PROVE  /\ SameDevices(base, WithEndpoints(base, k, eps))
           /\ \A i \in DOMAIN base :
                WithEndpoints(base, k, eps)[i].endpoints = IF i = k THEN eps
                                                           ELSE base[i].endpoints
<1> DEFINE other == WithEndpoints(base, k, eps)
<1>1. \A i \in DOMAIN base : DOMAIN base[i] = Fields /\ Listed(base[i].endpoints)
  BY DEF Keyed
<1>2. \A i \in DOMAIN base : /\ DOMAIN other[i] = Fields
                             /\ other[i].id = base[i].id
                             /\ other[i].ext = base[i].ext
                             /\ other[i].short = base[i].short
                             /\ other[i].endpoints = IF i = k THEN eps ELSE base[i].endpoints
  BY <1>1 DEF WithEndpoints, Fields
<1>3. other = [i \in DOMAIN base |-> other[i]]
  BY DEF WithEndpoints
<1>4. \A i \in DOMAIN base : Listed(other[i].endpoints)
  BY <1>1, <1>2
<1> HIDE DEF other
<1>5. SameDevices(base, other)
  BY <1>2, <1>3, <1>4 DEF SameDevices
<1> QED
  BY <1>2, <1>5 DEF other

\* The device found at short gets the endpoints of the message, the others none.
LEMMA UpdateEndpointsDevices ==
    ASSUME NEW base, Keyed(base), NEW short, NEW S, NEW nums \in Seq(S)
    PROVE  LET k     == ByShortAddr(base, short)
               other == UpdateEndpoints(base, short, nums)
           IN  /\ SameDevices(base, other)
               /\ k = 0 \/ nums = <<>> => other = base
               /\ k # 0 /\ nums # <<>> => \A i \in DOMAIN base :
                    other[i].endpoints =
                      IF i = k THEN FoldLeft(AddEndpoint, base[i].endpoints, nums)
                      ELSE base[i].endpoints
<1> DEFINE k     == ByShortAddr(base, short)
           eps   == FoldLeft(AddEndpoint, base[k].endpoints, nums)
           other == WithEndpoints(base, k, eps)
<1>1. CASE k = 0 \/ nums = <<>>
  BY <1>1, SameDevicesRefl DEF UpdateEndpoints
<1>2. CASE k # 0 /\ nums # <<>>
  <2>1. k \in DOMAIN base
    BY <1>2, KeyedLength, ByShortAddrFinds
  <2>2. UpdateEndpoints(base, short, nums)
          = [base EXCEPT ![k].endpoints = FoldLeft(AddEndpoint, @, nums)]
    BY <1>2 DEF UpdateEndpoints
  <2> HIDE DEF k
  <2>3. UpdateEndpoints(base, short, nums) = other
    BY <2>1, <2>2, KeyedLength DEF WithEndpoints
  <2>4. Listed(eps)
    BY <2>1, FoldListed DEF Keyed
  <2> HIDE DEF eps
  <2>5. /\ SameDevices(base, other)
        /\ \A i \in DOMAIN base : other[i].endpoints = IF i = k THEN eps
                                                        ELSE base[i].endpoints
    BY <2>4, NewEndpointsDevices
  <2> QED
    BY <1>2, <2>3, <2>5 DEF k, eps
<1> QED
  BY <1>1, <1>2

\* An endpoint of the device found at short gets its description.
LEMMA UpdateEndpointDataDevices ==
    ASSUME NEW base, Keyed(base), NEW short, NEW num, NEW profile, NEW device_id
    PROVE  LET k     == ByShortAddr(base, short)
               e     == EndpointIndex(base, short, num)
               data  == [num |-> num, profile |-> profile, device_id |-> device_id]
               other == UpdateEndpointData(base, short, num, profile, device_id)
           IN  /\ SameDevices(base, other)
               /\ e = 0 => other = base
               /\ e # 0 => /\ k \in DOMAIN base /\ e \in DOMAIN base[k].endpoints
                           /\ base[k].endpoints[e].num = num
                           /\ \A i \in DOMAIN base :
                                other[i].endpoints =
                                  IF i = k THEN [base[i].endpoints EXCEPT ![e] = data]
                                  ELSE base[i].endpoints
<1> DEFINE k     == ByShortAddr(base, short)
           e     == EndpointIndex(base, short, num)
           data  == [num |-> num, profile |-> profile, device_id |-> device_id]
           eps   == [base[k].endpoints EXCEPT ![e] = data]
           other == WithEndpoints(base, k, eps)
<1>1. CASE e = 0
  BY <1>1, SameDevicesRefl DEF UpdateEndpointData
<1>2. CASE e # 0
  <2>1. k # 0
    BY <1>2 DEF EndpointIndex
  <2>2. k \in DOMAIN base
    BY <2>1, KeyedLength, ByShortAddrFinds
  <2>3. /\ Listed(base[k].endpoints) /\ Len(base[k].endpoints) \in Nat
        /\ DOMAIN base[k].endpoints = 1..Len(base[k].endpoints)
    BY <2>2, ListedLength DEF Keyed
  <2>4. e \in DOMAIN base[k].endpoints /\ base[k].endpoints[e].num = num
    BY <1>2, <2>1, <2>3, EndpointIndexFinds
  <2>5. UpdateEndpointData(base, short, num, profile, device_id)
          = [base EXCEPT ![k].endpoints[e] = data]
    BY <1>2 DEF UpdateEndpointData
  <2> HIDE DEF k, e
  <2>6. data.num = num /\ DOMAIN data = EndpointFields
    BY DEF EndpointFields
  <2> HIDE DEF data
  <2>7. UpdateEndpointData(base, short, num, profile, device_id) = other
    BY <2>2, <2>5, KeyedLength DEF WithEndpoints
  <2>8. Listed(eps)
    <3> DEFINE old == base[k].endpoints
               n   == Len(old)
    <3>1. n \in Nat /\ DOMAIN old = 1..n /\ Listed(old) /\ e \in 1..n /\ old[e].num = num
      BY <2>3, <2>4
    <3> HIDE DEF old, n
    <3>2. /\ old = [x \in 1..n |-> old[x]]
          /\ \A x \in 1..n : DOMAIN old[x] = EndpointFields
          /\ \A x, y \in 1..n : old[x].num = old[y].num => x = y
      BY <3>1 DEF Listed
    <3> DEFINE new == [old EXCEPT ![e] = data]
               Q   == {new[x] : x \in 1..n}
    <3>3. new \in [1..n -> Q]
      BY <3>1, <3>2
    <3>4. \A x \in 1..n : /\ DOMAIN new[x] = EndpointFields
                          /\ new[x].num = old[x].num
      BY <2>6, <3>1, <3>2
    <3> HIDE DEF Q, new
    <3>5. new \in Seq(Q) /\ DOMAIN new = 1..n
      BY <3>1, <3>3
    <3>6. new \in Seq({new[x] : x \in DOMAIN new})
      BY <3>5, SeqOfItself
    <3>7. Listed(new)
      BY <3>1, <3>2, <3>4, <3>5, <3>6 DEF Listed
    <3> QED
      BY <3>7 DEF new, old
  <2> HIDE DEF eps
  <2>9. /\ SameDevices(base, other)
        /\ \A i \in DOMAIN base : other[i].endpoints = IF i = k THEN eps
                                                        ELSE base[i].endpoints
    BY <2>8, NewEndpointsDevices
  <2> QED
    BY <1>2, <2>2, <2>4, <2>7, <2>9 DEF k, e, data, eps
<1> QED
  BY <1>1, <1>2

LEMMA EmptyListed == Listed(<<>>)
<1>1. DOMAIN <<>> = {} /\ \A S : <<>> \in Seq(S)
  OBVIOUS
<1> QED
  BY <1>1 DEF Listed

\* A device nobody knows gets the next identifier, unless the store is full.
LEMMA AddDeviceKeys ==
    ASSUME NEW base, Keyed(base), NEW short, NEW ext,
           ~IsDeviceKnown(base, ext), FreeIds(base) # {}
    PROVE  /\ Keyed(AddDevice(base, short, ext))
           /\ OwnerIn(AddDevice(base, short, ext)) = OwnerIn(base) \cup {<<Len(base), ext>>}
           /\ Len(base) \in 0..MaxId - 1
           /\ DOMAIN AddDevice(base, short, ext) = 1..Len(base) + 1
           /\ \A i \in 1..Len(base) : AddDevice(base, short, ext)[i] = base[i]
           /\ AddDevice(base, short, ext)[Len(base) + 1] = NewDevice(Len(base), short, ext)
<1> DEFINE n == Len(base)
<1>1. base \in Seq({base[i] : i \in DOMAIN base}) /\ n \in Nat /\ MaxId \in Nat
  BY DeviceStoreAssumption DEF Keyed
<1>2. DOMAIN base = 1..n
  BY <1>1
<1>3. UsedIds(base) = {i - 1 : i \in 1..n}
  BY <1>2 DEF UsedIds, Keyed
<1>4. \A k \in 0..n - 1 : k \in {i - 1 : i \in 1..n}
  <2> TAKE k \in 0..n - 1
  <2>1. k + 1 \in 1..n /\ k = (k + 1) - 1
    BY <1>1
  <2> QED
    BY <2>1
<1>5. \A k \in FreeIds(base) : k \in 0..MaxId - 1 /\ n <= k
  BY <1>1, <1>3, <1>4 DEF FreeIds
<1>6. n \in FreeIds(base)
  <2>1. n \in 0..MaxId - 1
    BY <1>1, <1>5
  <2>2. n \notin UsedIds(base)
    BY <1>1, <1>3
  <2> QED
    BY <2>1, <2>2 DEF FreeIds
<1>7. NextFreeId(base) = n
  <2>1. \A id \in FreeIds(base) : (\A other \in FreeIds(base) : id <= other) => id = n
    BY <1>1, <1>5, <1>6
  <2> QED
    BY <2>1, <1>5, <1>6 DEF NextFreeId
<1> DEFINE new == NewDevice(n, short, ext)
           longer == Append(base, new)
<1>8. AddDevice(base, short, ext) = longer
  BY <1>7 DEF AddDevice
<1>9. new = [id |-> n, short |-> short, ext |-> ext, endpoints |-> <<>>]
  BY DEF NewDevice
<1> HIDE DEF new
<1>10. /\ longer \in Seq({base[i] : i \in DOMAIN base} \cup {new})
       /\ Len(longer) = n + 1
       /\ DOMAIN longer = 1..n + 1
       /\ \A i \in 1..n : longer[i] = base[i]
       /\ longer[n + 1] = new
  BY <1>1, Appended
<1> HIDE DEF longer
<1>11. longer \in Seq({longer[i] : i \in DOMAIN longer})
  BY <1>10, SeqOfItself
<1>12. \A i \in DOMAIN longer : /\ DOMAIN longer[i] = Fields
                                /\ longer[i].id = i - 1
                                /\ Listed(longer[i].endpoints)
  <2> TAKE i \in DOMAIN longer
  <2>1. CASE i \in 1..n
    BY <2>1, <1>2, <1>10 DEF Keyed
  <2>2. CASE i = n + 1
    <3>1. Listed(<<>>)
      BY EmptyListed
    <3> QED
      BY <2>2, <3>1, <1>1, <1>9, <1>10 DEF Fields
  <2> QED
    BY <2>1, <2>2, <1>1, <1>10
<1>13. \A i, j \in DOMAIN longer : longer[i].ext = longer[j].ext => i = j
  <2> SUFFICES ASSUME NEW i \in 1..n + 1, NEW j \in 1..n + 1, longer[i].ext = longer[j].ext
               PROVE  i = j
    BY <1>10
  <2>1. \A k \in 1..n : longer[k].ext = base[k].ext /\ base[k].ext # ext
    BY <1>2, <1>10 DEF IsDeviceKnown
  <2>2. longer[n + 1].ext = ext
    BY <1>9, <1>10
  <2>3. i \in 1..n /\ j \in 1..n => i = j
    BY <1>2, <2>1 DEF Keyed
  <2> QED
    BY <1>1, <2>1, <2>2, <2>3
<1>14. OwnerIn(longer) = OwnerIn(base) \cup {<<n, ext>>}
  <2>1. \A i \in 1..n : longer[i] = base[i]
    BY <1>10
  <2>2. OwnerIn(longer) = {<<longer[i].id, longer[i].ext>> : i \in 1..n}
                             \cup {<<longer[n + 1].id, longer[n + 1].ext>>}
    <3>1. 1..n + 1 = 1..n \cup {n + 1}
      BY <1>1
    <3> QED
      BY <3>1, <1>10 DEF OwnerIn
  <2>3. longer[n + 1].id = n /\ longer[n + 1].ext = ext
    BY <1>9, <1>10
  <2> QED
    BY <1>2, <2>1, <2>2, <2>3 DEF OwnerIn
<1>15. n \in 0..MaxId - 1
  BY <1>5, <1>6
<1> QED
  BY <1>1, <1>8, <1>10, <1>11, <1>12, <1>13, <1>14, <1>15 DEF Keyed, new

\* A full database holds as many devices as there are identifiers.
LEMMA FullLength ==
    ASSUME NEW base, Keyed(base), FreeIds(base) = {}
    PROVE  Len(base) = MaxId
<1>1. Len(base) \in Nat /\ DOMAIN base = 1..Len(base) /\ Len(base) <= MaxId /\ MaxId \in Nat
  BY KeyedLength, DeviceStoreAssumption DEF Keyed
<1>2. ASSUME Len(base) < MaxId PROVE FALSE
  <2>1. Len(base) \in 0..MaxId - 1
    BY <1>1, <1>2
  <2>2. Len(base) \notin UsedIds(base)
    BY <1>1 DEF UsedIds, Keyed
  <2> QED
    BY <2>1, <2>2 DEF FreeIds
<1> DEFINE n == Len(base)
<1>3. n \in Nat /\ n <= MaxId /\ ~(n < MaxId)
  BY <1>1, <1>2
<1> HIDE DEF n
<1>4. n = MaxId
  BY <1>1, <1>3
<1> QED
  BY <1>4 DEF n

-----------------------------------------------------------------------------
(* The file *)

Unnamed(eps) == [e \in DOMAIN eps |-> [eps[e] EXCEPT !.device_id = 0]]

LEMMA UnnamedListed ==
    ASSUME NEW eps, Listed(eps)
    PROVE  /\ Listed(Unnamed(eps)) /\ Unnamed(Unnamed(eps)) = Unnamed(eps)
           /\ DOMAIN Unnamed(eps) = DOMAIN eps
           /\ \A e \in DOMAIN eps : /\ Unnamed(eps)[e].num = eps[e].num
                                    /\ Unnamed(eps)[e].profile = eps[e].profile
                                    /\ Unnamed(eps)[e].device_id = 0
<1> DEFINE n   == Len(eps)
           new == Unnamed(eps)
           Q   == {new[x] : x \in 1..n}
<1>1. n \in Nat /\ DOMAIN eps = 1..n
  BY ListedLength
<1> HIDE DEF n
<1>2. \A x \in 1..n : DOMAIN eps[x] = EndpointFields
  BY <1>1 DEF Listed
<1>3. /\ new \in [1..n -> Q]
      /\ \A x \in 1..n : new[x] = [eps[x] EXCEPT !.device_id = 0]
  BY <1>1 DEF Unnamed
<1>4. \A x \in 1..n : /\ DOMAIN new[x] = EndpointFields
                      /\ new[x].num = eps[x].num
                      /\ new[x].profile = eps[x].profile
                      /\ new[x].device_id = 0
  BY <1>2, <1>3 DEF EndpointFields
<1>5. Unnamed(new) = new
  <2>1. \A x \in 1..n : [new[x] EXCEPT !.device_id = 0] = new[x]
    BY <1>2, <1>3
  <2>2. DOMAIN new = 1..n /\ new = [x \in 1..n |-> new[x]]
    BY <1>3
  <2> HIDE DEF new
  <2>3. Unnamed(new) = [x \in 1..n |-> new[x]]
    BY <2>1, <2>2 DEF Unnamed
  <2> QED
    BY <2>2, <2>3
<1> HIDE DEF new, Q
<1>6. new \in Seq(Q) /\ DOMAIN new = 1..n
  BY <1>1, <1>3
<1>7. new \in Seq({new[x] : x \in DOMAIN new})
  BY <1>6, SeqOfItself
<1>8. Listed(new)
  BY <1>1, <1>4, <1>6, <1>7 DEF Listed
<1> QED
  BY <1>1, <1>4, <1>5, <1>6, <1>8 DEF new

\* What a file holding the devices gives back (device.c:237-316): the same
\* devices and endpoints, without the identifiers of the latter.
THEOREM ReloadedDevices ==
    ASSUME NEW base, Keyed(base)
    PROVE  /\ SameDevices(base, Reloaded(base))
           /\ Reloaded(Reloaded(base)) = Reloaded(base)
           /\ \A i \in DOMAIN base : Reloaded(base)[i].endpoints = Unnamed(base[i].endpoints)
<1> DEFINE other == Reloaded(base)
<1>1. \A i \in DOMAIN base : DOMAIN base[i] = Fields /\ Listed(base[i].endpoints)
  BY DEF Keyed
<1>2. other = [i \in DOMAIN base |-> [base[i] EXCEPT !.endpoints = Unnamed(base[i].endpoints)]]
  BY DEF Reloaded, Unnamed
<1>3. \A i \in DOMAIN base : /\ DOMAIN other[i] = Fields
                             /\ other[i].id = base[i].id
                             /\ other[i].ext = base[i].ext
                             /\ other[i].short = base[i].short
                             /\ other[i].endpoints = Unnamed(base[i].endpoints)
  BY <1>1, <1>2 DEF Fields
<1>4. \A i \in DOMAIN base : Listed(other[i].endpoints)
  BY <1>1, <1>3, UnnamedListed
<1>5. other = [i \in DOMAIN base |-> other[i]]
  BY <1>2
<1>6. Reloaded(other) = other
  <2>1. Reloaded(other)
          = [i \in DOMAIN base |-> [other[i] EXCEPT !.endpoints = Unnamed(other[i].endpoints)]]
    BY <1>2 DEF Reloaded, Unnamed
  <2>2. ASSUME NEW i \in DOMAIN base
        PROVE  [other[i] EXCEPT !.endpoints = Unnamed(other[i].endpoints)] = other[i]
    <3> DEFINE x == Unnamed(base[i].endpoints)
    <3>1. other[i] = [base[i] EXCEPT !.endpoints = x] /\ other[i].endpoints = x
      BY <1>2, <1>3
    <3>2. Unnamed(x) = x
      BY <1>1, UnnamedListed
    <3> HIDE DEF x, other
    <3>3. [[base[i] EXCEPT !.endpoints = x] EXCEPT !.endpoints = x] = [base[i] EXCEPT !.endpoints = x]
      OBVIOUS
    <3> QED
      BY <3>1, <3>2, <3>3
  <2> HIDE DEF other
  <2> QED
    BY <1>5, <2>1, <2>2
<1> HIDE DEF other
<1>7. SameDevices(base, other)
  BY <1>3, <1>4, <1>5 DEF SameDevices
<1> QED
  BY <1>3, <1>6, <1>7 DEF other
=============================================================================
