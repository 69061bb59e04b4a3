-------------------------- MODULE GGConnectedProofs --------------------------
(***************************************************************************)
(* Proofs about GGConnected, for any contacts, images, lists and programs, *)
(* any sizes of packets and any number of packets on their way.  One       *)
(* invariant for each kind of transfer says what is on the wires:          *)
(* ListsInv, PutsInv, KnownInv, NumbersInv, ImagesInv.                     *)
(***************************************************************************)
EXTENDS GGConnected, SequenceTheorems, FiniteSetTheorems, WellFoundedInduction, TLAPS

--------------------------------------------------------------------------------
(***************************************************************************)
(* How many elements of a list are of a kind.                              *)
(***************************************************************************)
Where(s, P) == {k \in DOMAIN s : s[k] \in P}
Count(s, P) == Cardinality(Where(s, P))

\* Where the elements of a list of a kind are is a finite set of positions.
LEMMA WhereFinite ==
    ASSUME NEW S, NEW s \in Seq(S), NEW P
    PROVE  /\ IsFiniteSet(Where(s, P)) /\ Where(s, P) \subseteq 1..Len(s)
           /\ Count(s, P) \in Nat
           /\ Count(s, P) = 0 <=> \A k \in DOMAIN s : s[k] \notin P
<1>1. Len(s) \in Nat /\ DOMAIN s = 1..Len(s)
  BY LenProperties
<1>2. IsFiniteSet(1..Len(s))
  BY <1>1, FS_Interval
<1>3. Where(s, P) \in SUBSET (1..Len(s))
  BY <1>1 DEF Where
<1>4. IsFiniteSet(Where(s, P))
  BY <1>2, <1>3, FS_Subset
<1>5. Cardinality(Where(s, P)) \in Nat /\ (Cardinality(Where(s, P)) = 0 <=> Where(s, P) = {})
  BY <1>4, FS_CardinalityType, FS_EmptySet
<1> QED BY <1>3, <1>4, <1>5 DEF Where, Count

\* A list put after another adds what it has.
LEMMA CountConcat ==
    ASSUME NEW S, NEW s \in Seq(S), NEW t \in Seq(S), NEW P
    PROVE  Count(s \o t, P) = Count(s, P) + Count(t, P)
<1> DEFINE A == Where(s, P)
           B == Where(t, P)
           n == Len(s)
           C == {k + n : k \in B}
           f == [k \in B |-> k + n]
<1>1. n \in Nat /\ DOMAIN s = 1..n /\ Len(t) \in Nat /\ DOMAIN t = 1..Len(t)
  BY LenProperties
<1>2. /\ s \o t \in Seq(S) /\ DOMAIN (s \o t) = 1..(n + Len(t))
      /\ \A i \in 1..(n + Len(t)) : (s \o t)[i] = IF i <= n THEN s[i] ELSE t[i - n]
  BY <1>1, ConcatProperties, LenProperties
<1>3. /\ IsFiniteSet(A) /\ A \subseteq 1..n /\ IsFiniteSet(B) /\ B \subseteq 1..Len(t)
  BY WhereFinite
<1>4. Where(s \o t, P) = A \cup C
  <2>1. ASSUME NEW k \in Where(s \o t, P) PROVE k \in A \cup C
    <3>1. k \in 1..(n + Len(t)) /\ (s \o t)[k] \in P
      BY <1>2 DEF Where
    <3>2. CASE k <= n
      BY <1>1, <1>2, <3>1, <3>2 DEF Where
    <3>3. CASE k > n
      <4>1. k - n \in 1..Len(t) /\ t[k - n] \in P /\ k = (k - n) + n
        BY <1>1, <1>2, <3>1, <3>3
      <4> QED BY <1>1, <4>1 DEF Where
    <3> QED BY <1>1, <3>1, <3>2, <3>3
  <2>2. ASSUME NEW k \in A PROVE k \in Where(s \o t, P)
    <3>1. k \in 1..n /\ s[k] \in P
      BY <1>1 DEF Where
    <3>2. k \in 1..(n + Len(t)) /\ (s \o t)[k] = s[k]
      BY <1>1, <1>2, <3>1
    <3> QED BY <1>2, <3>1, <3>2 DEF Where
  <2>3. ASSUME NEW k \in C PROVE k \in Where(s \o t, P)
    <3>1. PICK j \in B : k = j + n
      OBVIOUS
    <3>2. j \in 1..Len(t) /\ t[j] \in P
      BY <1>1 DEF Where
    <3>3. k \in 1..(n + Len(t)) /\ (s \o t)[k] = t[j]
      BY <1>1, <1>2, <3>1, <3>2
    <3> QED BY <1>2, <3>2, <3>3 DEF Where
  <2> QED BY <2>1, <2>2, <2>3
<1>5. f \in Bijection(B, C)
  <2>1. \A j \in B : j \in Nat
    BY <1>1, <1>3
  <2>2. f \in [B -> C] /\ \A c \in C : \E j \in B : f[j] = c
    OBVIOUS
  <2>3. \A i, j \in B : f[i] = f[j] => i = j
    BY <1>1, <2>1
  <2> HIDE DEF f, C
  <2> QED BY <2>2, <2>3 DEF Bijection, Injection, Surjection, IsInjective
<1>6. IsFiniteSet(C) /\ Cardinality(C) = Cardinality(B)
  BY <1>3, <1>5, FS_Bijection DEF ExistsBijection
<1>7. A \cap C = {}
  <2>1. \A k \in C : k > n
    BY <1>1, <1>3
  <2>2. \A k \in A : k <= n
    BY <1>1, <1>3
  <2> QED BY <2>1, <2>2, <1>1, <1>3
<1>8. Cardinality(A) \in Nat /\ Cardinality(B) \in Nat
  BY <1>3, FS_CardinalityType
<1> HIDE DEF A, B, C
<1>9. Cardinality(A \cup C) = Cardinality(A) + Cardinality(C) - Cardinality(A \cap C)
  BY <1>3, <1>6, FS_Union
<1>10. Cardinality(A \cup C) = Cardinality(A) + Cardinality(B)
  <2>1. Cardinality(A \cap C) = 0
    BY <1>7, FS_EmptySet
  <2> QED BY <1>6, <1>8, <1>9, <2>1
<1> QED BY <1>4, <1>10 DEF Count, A, B

\* A list of one element.
LEMMA CountOne ==
    ASSUME NEW e, NEW P
    PROVE  Count(<<e>>, P) = IF e \in P THEN 1 ELSE 0
<1>1. Where(<<e>>, P) = IF e \in P THEN {1} ELSE {}
  BY DEF Where
<1> QED BY <1>1, FS_Singleton, FS_EmptySet DEF Count

\* What stands where after Tail.
LEMMA TailEntries ==
    ASSUME NEW S, NEW s \in Seq(S), s # <<>>
    PROVE  /\ Len(s) \in Nat \ {0} /\ DOMAIN s = 1..Len(s)
           /\ Head(s) = s[1] /\ Head(s) \in S
           /\ Tail(s) \in Seq(S) /\ Len(Tail(s)) = Len(s) - 1 /\ DOMAIN Tail(s) = 1..(Len(s) - 1)
           /\ \A i \in 1..(Len(s) - 1) : Tail(s)[i] = s[i + 1]
           /\ Tail(s) = <<>> <=> Len(s) = 1
<1>1. Len(s) \in Nat \ {0} /\ DOMAIN s = 1..Len(s)
  BY LenProperties, EmptySeq
<1>2. Head(s) = s[1]
  OBVIOUS
<1>3. /\ Head(s) \in S /\ Tail(s) \in Seq(S) /\ Len(Tail(s)) = Len(s) - 1
      /\ \A i \in 1..Len(Tail(s)) : Tail(s)[i] = s[i + 1]
  BY HeadTailProperties
<1>4. DOMAIN Tail(s) = 1..Len(Tail(s)) /\ (Tail(s) = <<>> <=> Len(Tail(s)) = 0)
  BY <1>3, LenProperties, EmptySeq
<1> HIDE DEF Where
<1> QED BY <1>1, <1>2, <1>3, <1>4

\* Without its first element a list has one less of that kind.
LEMMA CountTail ==
    ASSUME NEW S, NEW s \in Seq(S), s # <<>>, NEW P
    PROVE  Count(s, P) = Count(Tail(s), P) + IF s[1] \in P THEN 1 ELSE 0
<1>1. /\ Len(s) \in Nat \ {0} /\ Head(s) = s[1] /\ Head(s) \in S
      /\ Tail(s) \in Seq(S) /\ Len(Tail(s)) = Len(s) - 1
      /\ \A i \in 1..(Len(s) - 1) : Tail(s)[i] = s[i + 1]
  BY TailEntries
<1> DEFINE h == <<s[1]>>
           t == Tail(s)
<1>2. h \in Seq(S) /\ Len(h) = 1 /\ h[1] = s[1]
  BY <1>1
<1>3. t \in Seq(S) /\ Len(t) = Len(s) - 1
  BY <1>1
<1> HIDE DEF t, h
<1>4. h \o t = s
  <2>1. /\ h \o t \in Seq(S) /\ Len(h \o t) = 1 + Len(t)
        /\ \A i \in 1..(1 + Len(t)) : (h \o t)[i] = IF i <= 1 THEN h[i] ELSE t[i - 1]
    <3>1. /\ h \o t \in Seq(S) /\ Len(h \o t) = Len(h) + Len(t)
          /\ \A i \in 1..(Len(h) + Len(t)) : (h \o t)[i] = IF i <= Len(h) THEN h[i] ELSE t[i - Len(h)]
      BY <1>3, <1>2, ConcatProperties
    <3> QED BY <1>2, <3>1
  <2>2. \A i \in 1..Len(s) : (h \o t)[i] = s[i]
    <3> TAKE i \in 1..Len(s)
    <3>1. CASE i = 1
      BY <1>1, <1>2, <2>1, <3>1 DEF t
    <3>2. CASE i # 1
      <4>1. i - 1 \in 1..(Len(s) - 1) /\ (i - 1) + 1 = i
        BY <1>1, <3>2
      <4>2. t[i - 1] = s[i]
        BY <1>1, <4>1 DEF t
      <4> QED BY <1>1, <2>1, <3>2, <4>2 DEF t
    <3> QED BY <3>1, <3>2
  <2>3. Len(h \o t) = Len(s)
    BY <1>1, <2>1 DEF t
  <2> QED BY <2>1, <2>2, <2>3, SeqEqual
<1>5. Count(s, P) = Count(h, P) + Count(t, P)
  BY <1>3, <1>2, <1>4, CountConcat
<1>6. Count(h, P) = IF s[1] \in P THEN 1 ELSE 0
  BY CountOne DEF h
<1>7. Count(t, P) \in Nat
  BY <1>1, WhereFinite DEF t
<1> QED BY <1>5, <1>6, <1>7 DEF t

\* Where an element is taken out, the rest closes up.
LEMMA RemoveAtEntries ==
    ASSUME NEW S, NEW s \in Seq(S), NEW i \in 1..Len(s)
    PROVE  /\ RemoveAt(s, i) \in Seq(S)
           /\ Len(RemoveAt(s, i)) = Len(s) - 1
           /\ \A j \in 1..(Len(s) - 1) : RemoveAt(s, i)[j] = IF j < i THEN s[j] ELSE s[j + 1]
           /\ \A P : Count(s, P) = Count(RemoveAt(s, i), P) + IF s[i] \in P THEN 1 ELSE 0
<1> DEFINE a == SubSeq(s, 1, i - 1)
           b == SubSeq(s, i + 1, Len(s))
           e == <<s[i]>>
<1>1. Len(s) \in Nat /\ i \in Nat /\ \A j \in 1..Len(s) : s[j] \in S
  BY LenProperties, ElementOfSeq
<1>2. a \in Seq(S) /\ Len(a) = i - 1 /\ \A j \in 1..(i - 1) : a[j] = s[j]
  <2>1. \A j \in 1..(i - 1) : s[j] \in S
    BY <1>1
  <2>2. 1 \in Int /\ i - 1 \in Int
    BY <1>1
  <2> QED BY <1>1, <2>1, <2>2, SubSeqProperties
<1>3. b \in Seq(S) /\ Len(b) = Len(s) - i /\ \A j \in 1..(Len(s) - i) : b[j] = s[i + j]
  <2>1. \A j \in (i + 1)..Len(s) : s[j] \in S
    BY <1>1
  <2>2. i + 1 \in Int /\ Len(s) \in Int
    BY <1>1
  <2> QED BY <1>1, <2>1, <2>2, SubSeqProperties
<1>4. e \in Seq(S) /\ Len(e) = 1 /\ e[1] = s[i]
  BY <1>1
<1> HIDE DEF a, b, e
<1>5. /\ a \o b \in Seq(S) /\ Len(a \o b) = Len(s) - 1
      /\ \A j \in 1..(Len(s) - 1) : (a \o b)[j] = IF j < i THEN s[j] ELSE s[j + 1]
  <2>1. /\ a \o b \in Seq(S) /\ Len(a \o b) = Len(a) + Len(b)
        /\ \A j \in 1..(Len(a) + Len(b)) : (a \o b)[j] = IF j <= Len(a) THEN a[j] ELSE b[j - Len(a)]
    BY <1>2, <1>3, ConcatProperties
  <2>2. Len(a) + Len(b) = Len(s) - 1
    BY <1>1, <1>2, <1>3
  <2>3. ASSUME NEW j \in 1..(Len(s) - 1) PROVE (a \o b)[j] = IF j < i THEN s[j] ELSE s[j + 1]
    <3>1. CASE j < i
      BY <1>1, <1>2, <2>1, <2>2, <3>1
    <3>2. CASE ~(j < i)
      <4>1. j - (i - 1) \in 1..(Len(s) - i) /\ i + (j - (i - 1)) = j + 1 /\ ~(j <= i - 1)
        BY <1>1, <3>2
      <4>2. (a \o b)[j] = b[j - (i - 1)]
        BY <1>2, <2>1, <2>2, <4>1
      <4> QED BY <1>3, <3>2, <4>1, <4>2
    <3> QED BY <3>1, <3>2
  <2> QED BY <2>1, <2>2, <2>3
<1>6. (a \o e) \o b = s
  <2>1. /\ a \o e \in Seq(S) /\ Len(a \o e) = i
        /\ \A j \in 1..i : (a \o e)[j] = IF j <= i - 1 THEN a[j] ELSE e[j - (i - 1)]
    <3>1. /\ a \o e \in Seq(S) /\ Len(a \o e) = Len(a) + Len(e)
          /\ \A j \in 1..(Len(a) + Len(e)) : (a \o e)[j] = IF j <= Len(a) THEN a[j] ELSE e[j - Len(a)]
      BY <1>2, <1>4, ConcatProperties
    <3>2. Len(a) + Len(e) = i
      BY <1>1, <1>2, <1>4
    <3> QED BY <1>2, <3>1, <3>2
  <2>2. \A j \in 1..i : (a \o e)[j] = s[j]
    <3> TAKE j \in 1..i
    <3>1. CASE j <= i - 1
      BY <1>1, <1>2, <2>1, <3>1
    <3>2. CASE ~(j <= i - 1)
      <4>1. j = i /\ j - (i - 1) = 1
        BY <1>1, <3>2
      <4> QED BY <1>4, <2>1, <3>2, <4>1
    <3> QED BY <3>1, <3>2
  <2> DEFINE c == a \o e
  <2> HIDE DEF c
  <2>3. c \in Seq(S) /\ Len(c) = i /\ \A j \in 1..i : c[j] = s[j]
    BY <2>1, <2>2 DEF c
  <2>4. /\ c \o b \in Seq(S) /\ Len(c \o b) = Len(c) + Len(b)
        /\ \A j \in 1..(Len(c) + Len(b)) : (c \o b)[j] = IF j <= Len(c) THEN c[j] ELSE b[j - Len(c)]
    BY <1>3, <2>3, ConcatProperties
  <2>5. Len(c \o b) = Len(s) /\ \A j \in 1..Len(s) : (c \o b)[j] = IF j <= i THEN c[j] ELSE b[j - i]
    <3>1. Len(c) + Len(b) = Len(s)
      BY <1>1, <1>3, <2>3
    <3> QED BY <2>3, <2>4, <3>1
  <2>6. \A j \in 1..Len(s) : (c \o b)[j] = s[j]
    <3> TAKE j \in 1..Len(s)
    <3>1. CASE j <= i
      BY <1>1, <2>3, <2>5, <3>1
    <3>2. CASE ~(j <= i)
      <4>1. j - i \in 1..(Len(s) - i) /\ i + (j - i) = j
        BY <1>1, <3>2
      <4> QED BY <1>3, <2>5, <3>2, <4>1
    <3> QED BY <3>1, <3>2
  <2>7. c \o b = s
    BY <2>4, <2>5, <2>6, SeqEqual
  <2> QED BY <2>7 DEF c
<1>7. ASSUME NEW P PROVE Count(s, P) = Count(a \o b, P) + IF s[i] \in P THEN 1 ELSE 0
  <2>1. Count(s, P) = Count(a \o e, P) + Count(b, P)
    <3>1. a \o e \in Seq(S)
      BY <1>2, <1>4, ConcatProperties
    <3> QED BY <1>3, <1>6, <3>1, CountConcat
  <2>2. Count(a \o e, P) = Count(a, P) + Count(e, P)
    BY <1>2, <1>4, CountConcat
  <2>3. Count(a \o b, P) = Count(a, P) + Count(b, P)
    BY <1>2, <1>3, CountConcat
  <2>4. Count(e, P) = IF s[i] \in P THEN 1 ELSE 0
    BY CountOne DEF e
  <2>5. Count(a, P) \in Nat /\ Count(b, P) \in Nat
    BY <1>2, <1>3, WhereFinite
  <2> QED BY <2>1, <2>2, <2>3, <2>4, <2>5
<1>8. RemoveAt(s, i) = a \o b
  BY DEF RemoveAt, a, b
<1> QED BY <1>5, <1>7, <1>8

\* What stands where after a list is put behind another.
LEMMA ConcatEntries ==
    ASSUME NEW S, NEW s \in Seq(S), NEW t \in Seq(S)
    PROVE  /\ s \o t \in Seq(S) /\ Len(s) \in Nat /\ Len(t) \in Nat
           /\ Len(s \o t) = Len(s) + Len(t) /\ DOMAIN (s \o t) = 1..(Len(s) + Len(t))
           /\ DOMAIN s = 1..Len(s) /\ DOMAIN t = 1..Len(t)
           /\ \A i \in 1..Len(s) : (s \o t)[i] = s[i]
           /\ \A i \in 1..Len(t) : (s \o t)[Len(s) + i] = t[i]
<1>1. Len(s) \in Nat /\ DOMAIN s = 1..Len(s) /\ Len(t) \in Nat /\ DOMAIN t = 1..Len(t)
  BY LenProperties
<1>2. /\ s \o t \in Seq(S) /\ Len(s \o t) = Len(s) + Len(t) /\ DOMAIN (s \o t) = 1..(Len(s) + Len(t))
      /\ \A i \in 1..(Len(s) + Len(t)) : (s \o t)[i] = IF i <= Len(s) THEN s[i] ELSE t[i - Len(s)]
  BY <1>1, ConcatProperties, LenProperties
<1>3. \A i \in 1..Len(s) : (s \o t)[i] = s[i]
  BY <1>1, <1>2
<1>4. \A i \in 1..Len(t) : (s \o t)[Len(s) + i] = t[i]
  <2> TAKE i \in 1..Len(t)
  <2>1. Len(s) + i \in 1..(Len(s) + Len(t)) /\ ~(Len(s) + i <= Len(s)) /\ (Len(s) + i) - Len(s) = i
    BY <1>1
  <2> QED BY <1>2, <2>1
<1> QED BY <1>1, <1>2, <1>3, <1>4

\* A non-empty set of naturals has a least element.
LEMMA LeastOf ==
    ASSUME NEW S \in SUBSET Nat, S # {}
    PROVE  \E x \in S : \A y \in S : x <= y
<1>1. PICK x \in S : \A y \in S : ~(<<y, x>> \in OpToRel(<, Nat))
  BY NatLessThanWellFounded, WFMin
<1>2. ASSUME NEW y \in S, ~(x <= y)
      PROVE  FALSE
  <2>1. <<y, x>> \in Nat \X Nat /\ y < x
    BY <1>2
  <2> QED BY <1>1, <2>1 DEF OpToRel
<1> QED BY <1>2

\* How many packets a list needs: the last one is not empty, all others are full.
LEMMA PartsEnough ==
    ASSUME NEW n \in Nat, NEW size \in Nat \ {0}
    PROVE  /\ Parts(n, size) \in Nat
           /\ n <= Parts(n, size) * size /\ Parts(n, size) * size < n + size
           /\ n > 0 => Parts(n, size) > 0
<1> DEFINE p == (n + size - 1) \div size
           a == n + size - 1
<1>1. a \in Nat
  OBVIOUS
<1>2. p \in Int /\ size * p <= a /\ a < size * p + size
  <2> HIDE DEF a
  <2>1. (a \div size) \in Int /\ a = size * (a \div size) + (a % size) /\ a % size \in 0..(size - 1)
    BY <1>1, Z3
  <2> QED BY <1>1, <2>1 DEF a
<1> HIDE DEF p
<1>3. p * size = size * p
  BY <1>2
<1>4. p >= 0
  BY <1>1, <1>2 DEF a
<1>5. n > 0 => p > 0
  BY <1>1, <1>2, <1>4 DEF a
<1> QED BY <1>2, <1>3, <1>4, <1>5 DEF Parts, p, a

\* The part that a contact is in.
LEMMA PartsGrow ==
    ASSUME NEW n \in Nat, NEW u \in 1..n, NEW size \in Nat \ {0}
    PROVE  Parts(u, size) \in 1..Parts(n, size)
<1> DEFINE p == Parts(n, size)
           q == Parts(u, size)
<1>1. /\ p \in Nat /\ n <= p * size /\ p * size < n + size
      /\ q \in Nat /\ u <= q * size /\ q * size < u + size /\ q > 0
  <2>1. u \in Nat /\ u > 0
    OBVIOUS
  <2> QED BY <2>1, PartsEnough
<1> HIDE DEF p, q
<1>2. ASSUME q > p PROVE FALSE
  <2>1. q >= p + 1
    BY <1>1, <1>2
  <2>2. (q - p) * size >= size
    BY <1>1, <2>1
  <2>3. q * size >= p * size + size
    BY <1>1, <2>2
  <2> QED BY <1>1, <2>3
<1> QED BY <1>1, <1>2 DEF p, q

\* Only the last part is not followed by another.
LEMMA PartsFull ==
    ASSUME NEW n \in Nat, NEW size \in Nat \ {0}, NEW k \in 1..Parts(n, size)
    PROVE  n - (k - 1) * size > size <=> k # Parts(n, size)
<1> DEFINE p == Parts(n, size)
<1>1. p \in Nat /\ n <= p * size /\ p * size < n + size /\ k \in 1..p
  BY PartsEnough
<1> HIDE DEF p
<1>2. (k - 1) * size = k * size - size
  BY <1>1
<1>3. CASE k = p
  BY <1>1, <1>2, <1>3 DEF p
<1>4. CASE k < p
  <2>1. (p - 1 - k) * size >= 0
    BY <1>1, <1>4
  <2>2. (p - 1 - k) * size = p * size - size - k * size
    BY <1>1
  <2>3. k * size <= p * size - size
    BY <1>1, <2>1, <2>2
  <2> QED BY <1>1, <1>2, <1>4, <2>3 DEF p
<1> QED BY <1>1, <1>3, <1>4

--------------------------------------------------------------------------------
(***************************************************************************)
(* What is on the wires.                                                   *)
(***************************************************************************)
Numbers == 0..SeqSpace - 1

EmptyList == [type |-> "list", last |-> TRUE, text |-> <<>>]
Part(k, n) == [type |-> "list", last |-> k = n, text |-> <<[part |-> k, of |-> n]>>]
Lists == {EmptyList} \cup UNION {{Part(k, n) : k \in 1..n} : n \in 1..MaxParts}

Pieces == {p \in [type : {"piece"}, image : Images, first : BOOLEAN, from : Nat, len : Nat \ {0}] :
              (p.first <=> p.from = 0) /\ p.from + p.len <= p.image.size}

Requests ==
    [type : {"list_empty", "ping", "get", "put"}]
    \cup [type : {"notify_first", "notify_last"}, uins : SUBSET Uins]
    \cup [type : {"add_notify", "remove_notify"}, uin : Uins]
    \cup [type : {"new_status"}, status : Statuses]
    \cup [type : {"msg"}, seq : Numbers, recipient : Uins]
    \cup [type : {"image"}, image : Images]
    \cup [type : {"search"}, seq : Nat]

Replies ==
    [type : {"msg"}, options : Options, bait : BOOLEAN]
    \cup [type : {"notify"}, who : Told, old : BOOLEAN]
    \cup [type : {"ACK"}, seq : Numbers, recipient : Uins]
    \cup [type : {"PONG", "put_reply"}]
    \cup [type : {"found"}, seq : Nat, fields : Found]
    \cup [type : {"image_empty"}, image : Images]
    \cup Pieces \cup Lists

Transfers(u) == {s \in [image : Images, sent : Nat] :
                    s.image.sender = u /\ s.sent \in 1..s.image.size - 1}

\* What the invariants assume of the shapes of the state.
Shapes ==
    /\ TypeOK
    /\ toServer \in Seq(Requests) /\ toClient \in Seq(Replies)
    /\ \A k \in DOMAIN images : Len(images[k].data) = images[k].image.size
    /\ sending \in [Uins -> {Idle} \cup UNION {Transfers(u) : u \in Uins}]
    /\ \A u \in Uins : sending[u] = Idle \/ sending[u] \in Transfers(u)
    /\ link = "up" => live

\* What a request says, by its type.
LEMMA RequestForms ==
    ASSUME NEW p \in Requests
    PROVE  /\ p.type = "put" => p = [type |-> "put"]
           /\ p.type = "image" => p = [type |-> "image", image |-> p.image] /\ p.image \in Images
           /\ p.type \in {"notify_first", "notify_last"} => p.uins \subseteq Uins
           /\ p.type \in {"add_notify", "remove_notify"} => p.uin \in Uins
           /\ p.type = "new_status" => p.status \in Statuses
           /\ p.type = "msg" => p.seq \in Numbers /\ p.recipient \in Uins
           /\ p.type = "search" => p.seq \in Nat
BY DEF Requests

\* What a reply says, by its type.
LEMMA ReplyForms ==
    ASSUME NEW p \in Replies
    PROVE  /\ p.type = "put_reply" => p = [type |-> "put_reply"]
           /\ p.type = "piece" <=> p \in Pieces
           /\ p.type = "list" <=> p \in Lists
           /\ p.type = "image_empty" => p.image \in Images
BY DEF Replies, Pieces, Lists, EmptyList, Part

\* An image is not NULL: no transfer of an image is Idle.
LEMMA ImageFacts ==
    ASSUME NEW i \in Images
    PROVE  /\ i.sender \in Uins /\ i.size \in Nat \ {0} /\ i # NULL
<1>1. i \in [sender : 1..MaxUin, size : Nat \ {0}, crc32 : Nat]
  BY ConnectedAssumption
<1>2. DOMAIN i = {"sender", "size", "crc32"}
  BY <1>1
<1>3. DOMAIN NULL = {}
  BY DEF NULL
<1>4. i # NULL
  BY <1>2, <1>3
<1> QED BY <1>1, <1>4 DEF Uins

\* A loop of gg_image_reply that is under way sends an image of its peer and has
\* not sent it to the end.
LEMMA TransferFacts ==
    ASSUME Shapes, NEW u \in Uins
    PROVE  /\ sending[u] # Idle =>
                /\ sending[u].image \in Images /\ sending[u].image.sender = u
                /\ sending[u].sent \in 1..sending[u].image.size - 1
           /\ \A i \in Images : sending[u].image = i => sending[u] # Idle
<1>1. sending[u] = Idle \/ sending[u] \in Transfers(u)
  BY DEF Shapes
<1>2. sending[u] # Idle => /\ sending[u].image \in Images /\ sending[u].image.sender = u
                           /\ sending[u].sent \in 1..sending[u].image.size - 1
  BY <1>1 DEF Transfers
<1>3. Idle.image = NULL
  BY DEF Idle
<1> QED BY <1>2, <1>3, ImageFacts

\* What gg_image_queue_parse makes of an entry and a piece of its image.
LEMMA WrittenFacts ==
    ASSUME NEW q \in Entries, Len(q.data) = q.image.size, q.done < q.image.size,
           NEW p \in Pieces, p.image = q.image
    PROVE  LET w == Written(q, p) IN
           /\ w \in Entries /\ w.image = q.image /\ Len(w.data) = w.image.size
           /\ w.done <= w.image.size
           /\ p.first \/ q.done = p.from =>
                /\ w.done = p.from + p.len
                /\ (q.done > 0 => q.filename) => w.filename
                /\ (\A k \in 1..q.done : q.data[k] = k) => \A k \in 1..w.done : w.data[k] = k
<1> DEFINE size == q.image.size
           done == IF p.first THEN 0 ELSE q.done
           len == IF done + p.len > size THEN size - done ELSE p.len
           d == [k \in DOMAIN q.data |-> IF k \in done + 1 .. done + len
                                         THEN p.from + k - done ELSE q.data[k]]
           fn == q.filename \/ p.first
           w == [q EXCEPT !.done = done + len, !.filename = fn, !.data = d]
<1>1. w = Written(q, p)
  BY DEF Written
<1>2. /\ q.image \in Images /\ size \in Nat \ {0} /\ q.done \in Nat /\ q.filename \in BOOLEAN
      /\ q.data \in Seq(Nat) /\ Len(q.data) = size /\ q.done < size
  BY ImageFacts DEF Entries
<1>3. /\ p.from \in Nat /\ p.len \in Nat \ {0} /\ p.first \in BOOLEAN /\ (p.first <=> p.from = 0)
      /\ p.from + p.len <= size
  BY DEF Pieces
<1>4. DOMAIN q.data = 1..size /\ \A k \in 1..size : q.data[k] \in Nat
  BY <1>2, LenProperties, ElementOfSeq
<1> HIDE DEF size
<1>5. done \in Nat /\ len \in Nat /\ done + len <= size
  BY <1>2, <1>3
<1>6. p.first \/ q.done = p.from => done = p.from /\ len = p.len
  BY <1>2, <1>3
<1> HIDE DEF done, len
<1>7. /\ d = [k \in 1..size |-> IF k \in done + 1 .. done + len THEN p.from + k - done ELSE q.data[k]]
      /\ d \in Seq(Nat) /\ Len(d) = size
  <2>1. d = [k \in 1..size |-> IF k \in done + 1 .. done + len THEN p.from + k - done ELSE q.data[k]]
    BY <1>4
  <2>2. \A k \in 1..size : (IF k \in done + 1 .. done + len THEN p.from + k - done ELSE q.data[k]) \in Nat
    BY <1>2, <1>3, <1>4, <1>5
  <2> HIDE DEF d
  <2>3. d \in [1..size -> Nat]
    BY <2>1, <2>2
  <2>4. d \in Seq(Nat) /\ DOMAIN d = 1..size
    BY <1>2, <2>3
  <2>5. Len(d) = size
    BY <1>2, <2>4
  <2> QED BY <2>1, <2>4, <2>5
<1> HIDE DEF d
<1>8. /\ w \in Entries /\ w.image = q.image /\ w.done = done + len /\ w.data = d
      /\ w.filename = fn
  <2>1. done + len \in Nat /\ fn \in BOOLEAN /\ d \in Seq(Nat)
    BY <1>2, <1>3, <1>5, <1>7
  <2> DEFINE n == done + len
  <2> HIDE DEF fn, n
  <2>2. LET r == [q EXCEPT !.done = n, !.filename = fn, !.data = d]
        IN  r \in Entries /\ r.image = q.image /\ r.done = n /\ r.data = d /\ r.filename = fn
    <3>1. n \in Nat
      BY <2>1 DEF n
    <3> QED BY <2>1, <3>1 DEF Entries
  <2> QED BY <2>2 DEF n
<1> HIDE DEF w
<1>9. ASSUME p.first \/ q.done = p.from
      PROVE  /\ w.done = p.from + p.len
             /\ (q.done > 0 => q.filename) => w.filename
             /\ (\A k \in 1..q.done : q.data[k] = k) => \A k \in 1..w.done : w.data[k] = k
  <2>1. done = p.from /\ len = p.len
    BY <1>6, <1>9
  <2>2. w.done = p.from + p.len
    BY <1>8, <2>1
  <2>3. (q.done > 0 => q.filename) => w.filename
    <3>1. CASE p.first
      BY <1>8, <3>1
    <3>2. CASE ~p.first
      BY <1>2, <1>3, <1>8, <1>9, <3>2
    <3> QED BY <3>1, <3>2
  <2>4. ASSUME \A k \in 1..q.done : q.data[k] = k, NEW k \in 1..w.done
        PROVE  w.data[k] = k
    <3>1. k \in 1..size /\ k \in Nat
      BY <1>2, <1>5, <1>8, <2>1, <2>2
    <3>2. CASE k \in done + 1 .. done + len
      <4>1. d[k] = p.from + k - done
        BY <1>7, <3>1, <3>2
      <4> QED BY <1>3, <1>5, <1>8, <2>1, <3>1, <4>1
    <3>3. CASE k \notin done + 1 .. done + len
      <4>1. d[k] = q.data[k]
        BY <1>7, <3>1, <3>3
      <4>2. k \in 1..done
        BY <1>3, <1>5, <2>1, <2>2, <2>4, <3>1, <3>3
      <4>3. ~p.first /\ q.done = done
        BY <1>3, <1>9, <2>1, <4>2
      <4> QED BY <1>8, <2>4, <4>1, <4>2, <4>3
    <3> QED BY <3>2, <3>3
  <2> QED BY <2>2, <2>3, <2>4
<1> QED BY <1>1, <1>5, <1>7, <1>8, <1>9 DEF size

\* Every list of packets that a program sends is one of requests.
LEMMA NotifyPackets ==
    ASSUME NEW n \in Uins
    PROVE  /\ NotifyParts(n) \in Seq(Requests)
           /\ Parts(n, NotifyPart) \in Nat \ {0}
           /\ Len(NotifyParts(n)) = Parts(n, NotifyPart)
           /\ \A k \in 1..Parts(n, NotifyPart) :
                 /\ NotifyParts(n)[k].type =
                        IF k = Parts(n, NotifyPart) THEN "notify_last" ELSE "notify_first"
                 /\ NotifyParts(n)[k].uins = {u \in 1..n : Parts(u, NotifyPart) = k}
<1>1. NotifyPart \in Nat \ {0} /\ MaxUin \in Nat /\ n \in 1..MaxUin /\ n \in Nat /\ n > 0
  BY ConnectedAssumption DEF Uins
<1> DEFINE p == Parts(n, NotifyPart)
           packet(k) == [type |-> IF n - (k - 1) * NotifyPart > NotifyPart THEN "notify_first" ELSE "notify_last",
                         uins |-> {u \in 1..n : Parts(u, NotifyPart) = k}]
<1>2. p \in Nat \ {0}
  <2>1. Parts(n, NotifyPart) \in Nat /\ Parts(n, NotifyPart) > 0
    BY <1>1, PartsEnough
  <2> QED BY <2>1
<1>3. ASSUME NEW k \in 1..p
      PROVE  /\ packet(k) \in Requests
             /\ packet(k).type = IF k = p THEN "notify_last" ELSE "notify_first"
             /\ packet(k).uins = {u \in 1..n : Parts(u, NotifyPart) = k}
  <2>1. n - (k - 1) * NotifyPart > NotifyPart <=> k # p
    BY <1>1, PartsFull
  <2>2. packet(k).type = IF k = p THEN "notify_last" ELSE "notify_first"
    BY <2>1
  <2>3. packet(k).uins = {u \in 1..n : Parts(u, NotifyPart) = k}
    OBVIOUS
  <2>4. {u \in 1..n : Parts(u, NotifyPart) = k} \subseteq Uins
    BY <1>1 DEF Uins
  <2>5. packet(k) \in [type : {"notify_first", "notify_last"}, uins : SUBSET Uins]
    BY <2>4
  <2> HIDE DEF packet
  <2> QED BY <2>2, <2>3, <2>5 DEF Requests
<1>4. NotifyParts(n) = [k \in 1..p |-> packet(k)]
  BY DEF NotifyParts
<1> HIDE DEF packet, p
<1>5. [k \in 1..p |-> packet(k)] \in [1..p -> Requests]
  BY <1>3
<1>6. [k \in 1..p |-> packet(k)] \in Seq(Requests) /\ Len([k \in 1..p |-> packet(k)]) = p
  BY <1>2, <1>5
<1> QED BY <1>2, <1>3, <1>4, <1>6 DEF p

\* A request leaves the wires typed, whatever it sends.
LEMMA SentIsTyped ==
    ASSUME Shapes, NEW packets \in Seq(Requests), Send(packets), program \in Programs
    PROVE  /\ toServer' \in Seq(Requests) /\ toClient' \in Seq(Replies)
           /\ calls' \in 0..program.calls
           /\ live' = live /\ link' = link
           /\ UNCHANGED peerVars
           /\ (link = "up" => live)'
<1>1. program \in [kinds : SUBSET Kinds, calls : Nat]
  BY ConnectedAssumption
<1>2. toServer \o packets \in Seq(Requests)
  BY ConcatProperties DEF Shapes
<1> QED BY <1>1, <1>2 DEF Send, Shapes, TypeOK

\* A request that changes the session within its types keeps the shapes.
LEMMA ShapesSend ==
    ASSUME Shapes, NEW packets \in Seq(Requests), Send(packets), UNCHANGED program,
           images' \in Seq(Entries), userlist_blocks' \in Int, seq' \in 0..SeqSpace - 1,
           \A k \in DOMAIN images' : /\ images'[k].done < images'[k].image.size
                                     /\ Len(images'[k].data) = images'[k].image.size,
           status' \in Statuses, reqSeq' \in Nat, uins' \subseteq Uins,
           numbers' \in Seq(0..SeqSpace - 1), clean' \in BOOLEAN, reported' \in Nat
    PROVE  Shapes'
<1>1. program \in Programs
  BY DEF Shapes, TypeOK
<1>2. /\ toServer' \in Seq(Requests) /\ toClient' \in Seq(Replies)
      /\ calls' \in 0..program.calls
      /\ live' = live /\ link' = link
      /\ UNCHANGED peerVars
      /\ (link = "up" => live)'
  BY <1>1, SentIsTyped
<1> QED BY <1>1, <1>2 DEF Shapes, TypeOK, peerVars

\* The program's requests keep the shapes.
LEMMA ShapesRequest ==
    ASSUME Shapes, Request
    PROVE  Shapes'
<1> USE DEF sessVars
<1>1. program' = program
  BY DEF Request, Makes
<1>2. ASSUME NEW n \in Uins \cup {0}, Notify(n) PROVE Shapes'
  <2> DEFINE packets == IF n = 0 THEN <<[type |-> "list_empty"]>> ELSE NotifyParts(n)
  <2>1. packets \in Seq(Requests)
    <3>1. [type |-> "list_empty"] \in Requests
      BY DEF Requests
    <3> QED BY <3>1, NotifyPackets
  <2>2. Send(packets) /\ uins' = 1..n
    BY <1>2 DEF Notify
  <2>3. 1..n \subseteq Uins
    BY ConnectedAssumption DEF Uins
  <2> HIDE DEF packets
  <2> QED BY <1>1, <1>2, <2>1, <2>2, <2>3, ShapesSend DEF Notify, Shapes, TypeOK
<1>3. ASSUME NEW u \in Uins, AddNotify(u) PROVE Shapes'
  <2>1. <<[type |-> "add_notify", uin |-> u]>> \in Seq(Requests)
    BY DEF Requests
  <2> QED BY <1>1, <1>3, <2>1, ShapesSend DEF AddNotify, Shapes, TypeOK
<1>4. ASSUME NEW u \in Uins, RemoveNotify(u) PROVE Shapes'
  <2>1. <<[type |-> "remove_notify", uin |-> u]>> \in Seq(Requests)
    BY DEF Requests
  <2> QED BY <1>1, <1>4, <2>1, ShapesSend DEF RemoveNotify, Shapes, TypeOK
<1>5. ASSUME NEW s \in Statuses, ChangeStatus(s) PROVE Shapes'
  <2>1. <<[type |-> "new_status", status |-> s]>> \in Seq(Requests)
    BY DEF Requests
  <2> QED BY <1>1, <1>5, <2>1, ShapesSend DEF ChangeStatus, Shapes, TypeOK
<1>6. ASSUME NEW to \in Conferences, SendMessage(to) PROVE Shapes'
  <2> DEFINE s == IF seq = 0 THEN Seed ELSE seq
             packets == [k \in 1..Len(to) |-> [type |-> "msg", seq |-> s, recipient |-> to[k]]]
  <2>1. s \in Numbers
    <3>1. Seed \in 0..SeqSpace - 1
      BY ConnectedAssumption
    <3>2. seq \in 0..SeqSpace - 1
      BY DEF Shapes, TypeOK
    <3> QED BY <3>1, <3>2 DEF Numbers
  <2>2. to \in Seq(Uins)
    <3>1. CASE \E u \in Uins : to = <<u>>
      BY <3>1
    <3>2. CASE to \in Uins \X Uins
      BY <3>2
    <3> QED BY <3>1, <3>2 DEF Conferences
  <2> HIDE DEF s
  <2>3. packets \in Seq(Requests)
    <3>1. Len(to) \in Nat /\ \A k \in 1..Len(to) : to[k] \in Uins
      BY <2>2, LenProperties, ElementOfSeq
    <3>2. \A k \in 1..Len(to) : [type |-> "msg", seq |-> s, recipient |-> to[k]] \in Requests
      BY <2>1, <3>1 DEF Requests
    <3>3. packets \in [1..Len(to) -> Requests]
      BY <3>2
    <3> HIDE DEF packets
    <3> QED BY <3>1, <3>3
  <2>4. PICK d \in Steps : seq' = (s + d) % SeqSpace
    BY <1>6 DEF SendMessage, s
  <2>5. seq' \in 0..SeqSpace - 1
    <3>1. d \in Nat /\ s \in Nat /\ SeqSpace \in Nat \ {0}
      BY <2>1, ConnectedAssumption DEF Numbers
    <3>2. s + d \in Nat
      BY <3>1
    <3> QED BY <2>4, <3>1, <3>2, Z3
  <2>6. numbers' \in Seq(0..SeqSpace - 1)
    BY <1>6, <2>1 DEF SendMessage, s, Numbers, Shapes, TypeOK
  <2>7. Send(packets)
    BY <1>6 DEF SendMessage, s
  <2> HIDE DEF packets
  <2> QED BY <1>1, <1>6, <2>3, <2>5, <2>6, <2>7, ShapesSend DEF SendMessage, Shapes, TypeOK
<1>7. ASSUME NEW time \in 1..2, Search(time) PROVE Shapes'
  <2> DEFINE number == IF reqSeq # 0 THEN reqSeq ELSE time
  <2>1. number \in Nat
    BY DEF Shapes, TypeOK
  <2>2. Send(<<[type |-> "search", seq |-> number]>>) /\ reqSeq' = number
    BY <1>7 DEF Search
  <2> HIDE DEF number
  <2>3. <<[type |-> "search", seq |-> number]>> \in Seq(Requests)
    BY <2>1 DEF Requests
  <2> QED BY <1>1, <1>7, <2>1, <2>2, <2>3, ShapesSend DEF Search, Shapes, TypeOK
<1>8. ASSUME Ping PROVE Shapes'
  <2>1. <<[type |-> "ping"]>> \in Seq(Requests)
    BY DEF Requests
  <2> QED BY <1>1, <1>8, <2>1, ShapesSend DEF Ping, Shapes, TypeOK
<1>9. ASSUME ImportList PROVE Shapes'
  <2>1. <<[type |-> "get"]>> \in Seq(Requests)
    BY DEF Requests
  <2>2. Send(<<[type |-> "get"]>>) /\ userlist_blocks' \in Int /\ clean' \in BOOLEAN /\ reported' \in Nat
    <3>1. Send(<<[type |-> "get"]>>) /\ userlist_blocks' = 1 /\ clean' = FALSE /\ reported' = 0
      BY <1>9, Zenon DEF ImportList
    <3>2. clean' \in BOOLEAN
      BY <3>1, Zenon
    <3> QED BY <3>1, <3>2
  <2> QED BY <1>1, <1>9, <2>1, <2>2, ShapesSend DEF ImportList, Shapes, TypeOK
<1>10. ASSUME NEW n \in ListLengths, ExportList(n) PROVE Shapes'
  <2> DEFINE p == IF n = 0 THEN 1 ELSE Parts(n, ListChunk)
             packets == [k \in 1..p |-> [type |-> "put"]]
  <2>1. p \in Nat
    <3>1. n \in Nat /\ ListChunk \in Nat \ {0}
      BY ConnectedAssumption
    <3> QED BY <3>1, PartsEnough
  <2>2. Send(packets) /\ userlist_blocks' = p
    BY <1>10 DEF ExportList
  <2> HIDE DEF p
  <2>3. packets \in Seq(Requests)
    <3>1. [type |-> "put"] \in Requests
      BY DEF Requests
    <3>2. packets \in [1..p -> Requests]
      BY <3>1
    <3> QED BY <2>1, <3>2
  <2> HIDE DEF packets
  <2>4. clean' \in BOOLEAN /\ reported' \in Nat
    BY <1>10 DEF ExportList
  <2>5. Send(packets) /\ userlist_blocks' \in Int
    BY <2>1, <2>2 DEF packets
  <2>6. UNCHANGED <<images, userlist_reply, seq, status, reqSeq, uins, numbers>>
    BY <1>10 DEF ExportList
  <2> QED BY <1>1, <2>3, <2>4, <2>5, <2>6, ShapesSend DEF Shapes, TypeOK
<1>11. ASSUME NEW i \in Images, ImageRequest(i) PROVE Shapes'
  <2> DEFINE e == Requested(i)
  <2>1. <<[type |-> "image", image |-> i]>> \in Seq(Requests)
    BY DEF Requests
  <2>2. e \in Entries /\ e.done < e.image.size /\ Len(e.data) = e.image.size
    <3>1. i.size \in Nat \ {0}
      BY ImageFacts
    <3>2. [k \in 1..i.size |-> 0] \in Seq(Nat) /\ Len([k \in 1..i.size |-> 0]) = i.size
      <4>1. [k \in 1..i.size |-> 0] \in [1..i.size -> Nat]
        OBVIOUS
      <4> QED BY <3>1, <4>1
    <3> QED BY <3>1, <3>2 DEF Requested, Entries
  <2> HIDE DEF e
  <2>3. images' = Append(images, e) /\ images \in Seq(Entries)
    BY <1>11 DEF ImageRequest, e, Shapes, TypeOK
  <2>4. /\ images' \in Seq(Entries) /\ DOMAIN images' = 1..Len(images) + 1 /\ Len(images) \in Nat
        /\ images'[Len(images) + 1] = e /\ \A k \in 1..Len(images) : images'[k] = images[k]
        /\ DOMAIN images = 1..Len(images)
    BY <2>2, <2>3, AppendProperties, LenProperties
  <2>5. \A k \in DOMAIN images' : images'[k].done < images'[k].image.size
                                  /\ Len(images'[k].data) = images'[k].image.size
    <3> TAKE k \in DOMAIN images'
    <3>1. CASE k = Len(images) + 1
      BY <2>2, <2>4, <3>1
    <3>2. CASE k # Len(images) + 1
      <4>1. k \in 1..Len(images) /\ images'[k] = images[k]
        BY <2>4, <3>2
      <4> QED BY <2>4, <4>1 DEF Shapes, TypeOK
    <3> QED BY <3>1, <3>2
  <2> QED BY <1>1, <1>11, <2>1, <2>4, <2>5, ShapesSend DEF ImageRequest, Shapes, TypeOK
<1> QED BY <1>2, <1>3, <1>4, <1>5, <1>6, <1>7, <1>8, <1>9, <1>10, <1>11 DEF Request

\* The search in the image queue finds the first entry of an image.
LEMMA EntryFacts ==
    ASSUME Shapes, NEW i, \E k \in DOMAIN images : images[k].image = i
    PROVE  /\ Entry(i) \in 1..Len(images) /\ images[Entry(i)].image = i
           /\ \A j \in 1..(Entry(i) - 1) : images[j].image # i
           /\ images[Entry(i)] \in Entries
           /\ \A k \in 1..Len(images) :
                 images[k].image = i /\ (\A j \in 1..(k - 1) : images[j].image # i) => k = Entry(i)
<1>1. images \in Seq(Entries) /\ Len(images) \in Nat /\ DOMAIN images = 1..Len(images)
  BY LenProperties DEF Shapes, TypeOK
<1> DEFINE S == {k \in 1..Len(images) : images[k].image = i}
<1>2. S \in SUBSET Nat /\ S # {}
  BY <1>1
<1>3. PICK x \in S : \A y \in S : x <= y
  BY <1>2, LeastOf
<1>4. \A j \in 1..(x - 1) : images[j].image # i
  <2> SUFFICES ASSUME NEW j \in 1..(x - 1), images[j].image = i PROVE FALSE
    OBVIOUS
  <2>1. j \in S /\ x \in Nat
    BY <1>1, <1>2
  <2> QED BY <1>3, <2>1
<1>5. \E k \in DOMAIN images : images[k].image = i /\ \A j \in 1..(k - 1) : images[j].image # i
  BY <1>1, <1>3, <1>4
<1>6. /\ Entry(i) \in DOMAIN images /\ images[Entry(i)].image = i
      /\ \A j \in 1..(Entry(i) - 1) : images[j].image # i
  BY <1>5 DEF Entry
<1>7. ASSUME NEW k \in 1..Len(images), images[k].image = i, \A j \in 1..(k - 1) : images[j].image # i
      PROVE  k = Entry(i)
  <2>1. Entry(i) \in 1..Len(images)
    BY <1>1, <1>6
  <2>2. ~(k < Entry(i)) /\ ~(Entry(i) < k)
    BY <1>1, <1>6, <1>7, <2>1
  <2> QED BY <1>1, <2>1, <2>2
<1>8. images[Entry(i)] \in Entries
  BY <1>1, <1>6, ElementOfSeq
<1> QED BY <1>1, <1>6, <1>7, <1>8

\* What the first packet is when one is read.
LEMMA ReceiveFacts ==
    ASSUME Shapes, NEW type, Receive(type)
    PROVE  /\ live /\ toClient # <<>> /\ Packet = toClient[1] /\ Packet \in Replies /\ Packet.type = type
           /\ Len(toClient) \in Nat \ {0} /\ DOMAIN toClient = 1..Len(toClient)
           /\ toClient' \in Seq(Replies) /\ toClient' = Tail(toClient)
           /\ Len(toClient') = Len(toClient) - 1 /\ DOMAIN toClient' = 1..(Len(toClient) - 1)
           /\ \A k \in 1..(Len(toClient) - 1) : toClient'[k] = toClient[k + 1]
           /\ toClient' = <<>> <=> Len(toClient) = 1
<1>1. toClient \in Seq(Replies) /\ toClient # <<>> /\ toClient' = Tail(toClient)
  BY DEF Shapes, Receive
<1> QED BY <1>1, TailEntries DEF Receive, Packet

\* What gg_image_queue_parse does with a piece, by what it finds.
LEMMA PieceFacts ==
    ASSUME Shapes, WatchPiece
    PROVE  /\ Receive("piece") /\ Quiet /\ UNCHANGED <<userlist_blocks, userlist_reply, clean, reported>>
           /\ Packet \in Pieces
           /\ \/ /\ \A k \in DOMAIN images : images[k].image # Packet.image
                 /\ UNCHANGED images /\ event' = NoEvent
              \/ \E k \in 1..Len(images) :
                    /\ images[k].image = Packet.image /\ \A j \in 1..(k - 1) : images[j].image # Packet.image
                    /\ images[k] \in Entries
                    /\ LET w == Written(images[k], Packet)
                       IN  \/ /\ w.done >= w.image.size /\ images' = RemoveAt(images, k)
                              /\ event' = [type |-> "IMAGE_REPLY", image |-> w.image, data |-> w.data,
                                           filename |-> w.filename]
                           \/ /\ ~(w.done >= w.image.size) /\ images' = [images EXCEPT ![k] = w]
                              /\ event' = NoEvent
<1>1. Receive("piece") /\ Quiet /\ UNCHANGED <<userlist_blocks, userlist_reply, clean, reported>>
  BY DEF WatchPiece
<1>2. Packet \in Pieces
  BY <1>1, ReceiveFacts, ReplyForms
<1>3. CASE \E k \in DOMAIN images : images[k].image = Packet.image
  <2> DEFINE k == Entry(Packet.image)
             w == Written(images[k], Packet)
  <2>1. /\ k \in 1..Len(images) /\ images[k].image = Packet.image /\ images[k] \in Entries
        /\ \A j \in 1..(k - 1) : images[j].image # Packet.image
    BY <1>3, EntryFacts
  <2>2. \/ /\ w.done >= w.image.size /\ images' = RemoveAt(images, k)
           /\ event' = [type |-> "IMAGE_REPLY", image |-> w.image, data |-> w.data,
                        filename |-> w.filename]
        \/ /\ ~(w.done >= w.image.size) /\ images' = [images EXCEPT ![k] = w]
           /\ event' = NoEvent
    BY <1>3 DEF WatchPiece, Complete, Dequeue
  <2> HIDE DEF k
  <2> QED BY <1>1, <1>2, <2>1, <2>2
<1>4. CASE \A k \in DOMAIN images : images[k].image # Packet.image
  BY <1>1, <1>2, <1>4 DEF WatchPiece
<1> QED BY <1>3, <1>4

\* What is in the place of an entry of the image queue after a piece.
LEMMA PieceShapes ==
    ASSUME Shapes, WatchPiece
    PROVE  /\ images' \in Seq(Entries)
           /\ \A k \in DOMAIN images' : /\ images'[k].done < images'[k].image.size
                                        /\ Len(images'[k].data) = images'[k].image.size
<1>1. images \in Seq(Entries) /\ Len(images) \in Nat /\ DOMAIN images = 1..Len(images)
  BY LenProperties DEF Shapes, TypeOK
<1>2. \A k \in 1..Len(images) : images[k].done < images[k].image.size /\ Len(images[k].data) = images[k].image.size
  BY <1>1 DEF Shapes, TypeOK
<1>3. CASE UNCHANGED images
  BY <1>1, <1>2, <1>3
<1>4. ASSUME NEW k \in 1..Len(images), images[k].image = Packet.image, images[k] \in Entries, Packet \in Pieces,
             images' = RemoveAt(images, k)
                \/ LET w == Written(images[k], Packet)
                   IN  ~(w.done >= w.image.size) /\ images' = [images EXCEPT ![k] = w]
      PROVE  /\ images' \in Seq(Entries)
             /\ \A j \in DOMAIN images' : /\ images'[j].done < images'[j].image.size
                                          /\ Len(images'[j].data) = images'[j].image.size
  <2> DEFINE w == Written(images[k], Packet)
  <2>1. /\ w \in Entries /\ w.image = images[k].image /\ Len(w.data) = w.image.size
        /\ w.done <= w.image.size
    BY <1>2, <1>4, WrittenFacts
  <2>2. CASE images' = RemoveAt(images, k)
    <3>1. /\ images' \in Seq(Entries) /\ Len(images') = Len(images) - 1
          /\ \A j \in 1..(Len(images) - 1) : images'[j] = IF j < k THEN images[j] ELSE images[j + 1]
      <4>1. /\ RemoveAt(images, k) \in Seq(Entries) /\ Len(RemoveAt(images, k)) = Len(images) - 1
            /\ \A j \in 1..(Len(images) - 1) : RemoveAt(images, k)[j] = IF j < k THEN images[j] ELSE images[j + 1]
        BY <1>1, <1>4, RemoveAtEntries
      <4> QED BY <2>2, <4>1
    <3>2. DOMAIN images' = 1..(Len(images) - 1)
      BY <3>1, LenProperties
    <3>3. \A j \in 1..(Len(images) - 1) : \E m \in 1..Len(images) : images'[j] = images[m]
      <4> TAKE j \in 1..(Len(images) - 1)
      <4>1. j \in 1..Len(images) /\ j + 1 \in 1..Len(images)
        BY <1>1
      <4> QED BY <3>1, <4>1
    <3> QED BY <1>2, <3>1, <3>2, <3>3
  <2>3. CASE ~(w.done >= w.image.size) /\ images' = [images EXCEPT ![k] = w]
    <3> HIDE DEF w
    <3>1. w.done < w.image.size
      BY <2>1, <2>3, ImageFacts DEF Entries
    <3>2. /\ images' \in Seq(Entries) /\ Len(images') = Len(images)
          /\ \A j \in 1..Len(images) : images'[j] = IF j = k THEN w ELSE images[j]
      BY <1>1, <2>1, <2>3, ExceptSeq
    <3>3. DOMAIN images' = 1..Len(images)
      BY <3>2, LenProperties
    <3> QED BY <1>2, <2>1, <3>1, <3>2, <3>3
  <2> QED BY <1>4, <2>2, <2>3
<1>5. \/ UNCHANGED images
      \/ \E k \in 1..Len(images) :
            /\ images[k].image = Packet.image /\ images[k] \in Entries /\ Packet \in Pieces
            /\ images' = RemoveAt(images, k)
                \/ LET w == Written(images[k], Packet)
                   IN  ~(w.done >= w.image.size) /\ images' = [images EXCEPT ![k] = w]
  BY PieceFacts
<1> QED BY <1>3, <1>4, <1>5

\* gg_watch_fd_connected keeps the shapes.
LEMMA ShapesWatch ==
    ASSUME Shapes, Watch
    PROVE  Shapes'
<1>1. Quiet
  BY DEF Watch, WatchMsg, WatchNotify, WatchAck, WatchPubdir, WatchNoImage, WatchPiece, WatchPutReply,
         WatchList, WatchBroken
<1>2. /\ images' \in Seq(Entries)
      /\ \A k \in DOMAIN images' : /\ images'[k].done < images'[k].image.size
                                   /\ Len(images'[k].data) = images'[k].image.size
  <2>1. CASE UNCHANGED images
    BY <2>1 DEF Shapes, TypeOK
  <2>2. CASE WatchPiece
    BY <2>2, PieceShapes
  <2> QED BY <2>1, <2>2 DEF Watch, WatchMsg, WatchNotify, WatchAck, WatchPubdir, WatchNoImage,
                            WatchPutReply, WatchList, WatchBroken
<1>3. toClient' \in Seq(Replies)
  <2>1. CASE UNCHANGED toClient
    BY <2>1 DEF Shapes
  <2>2. ASSUME NEW type, Receive(type) PROVE toClient' \in Seq(Replies)
    BY <2>2, ReceiveFacts
  <2> QED BY <2>1, <2>2 DEF Watch, WatchMsg, WatchNotify, WatchAck, WatchPubdir, WatchNoImage, WatchPiece,
                            WatchPutReply, WatchList, WatchBroken
<1>4. userlist_blocks' \in Int /\ reported' \in Nat
  <2>1. CASE UNCHANGED <<userlist_blocks, reported>>
    BY <2>1 DEF Shapes, TypeOK
  <2>2. CASE WatchPutReply
    BY <2>2 DEF WatchPutReply, Shapes, TypeOK
  <2> QED BY <2>1, <2>2 DEF Watch, WatchMsg, WatchNotify, WatchAck, WatchPubdir, WatchNoImage, WatchPiece,
                            WatchList, WatchBroken
<1>5. UNCHANGED clean
  BY DEF Watch, WatchMsg, WatchNotify, WatchAck, WatchPubdir, WatchNoImage, WatchPiece, WatchPutReply,
         WatchList, WatchBroken
<1> QED BY <1>1, <1>2, <1>3, <1>4, <1>5 DEF Quiet, peerVars, Shapes, TypeOK

\* The server keeps the shapes.
LEMMA ShapesServe ==
    ASSUME Shapes, Serve
    PROVE  Shapes'
<1> DEFINE p == Head(toServer)
<1>1. toServer # <<>> => /\ p \in Requests /\ Tail(toServer) \in Seq(Requests)
                         /\ toServer \in Seq(Requests)
  BY TailEntries DEF Shapes
<1>2. ASSUME NEW type, Served(type)
      PROVE  toServer' \in Seq(Requests) /\ p \in Requests /\ p.type = type
  BY <1>1, <1>2 DEF Served
<1>3. ASSUME NEW packets \in Seq(Replies), Answer(packets), toServer' \in Seq(Requests),
             watched' \subseteq Uins, firstParts' \subseteq Uins, seenStatus' \in Statuses,
             wanted' \in [Images -> Nat], UNCHANGED sending
      PROVE  Shapes'
  <2>1. toClient' \in Seq(Replies)
    BY <1>3, ConcatProperties DEF Answer, Shapes
  <2> QED BY <1>3, <2>1 DEF Answer, sessVars, histVars, Shapes, TypeOK
<1>4. /\ watched \subseteq Uins /\ firstParts \subseteq Uins /\ seenStatus \in Statuses
      /\ wanted \in [Images -> Nat]
  BY DEF Shapes, TypeOK
<1> HIDE DEF p
<1>5. CASE ServeList
  <2>1. PICK n \in 0..MaxParts :
           Answer(IF n = 0 THEN <<[type |-> "list", last |-> TRUE, text |-> <<>>]>> ELSE ListParts(n))
    BY <1>5 DEF ServeList
  <2>2. <<[type |-> "list", last |-> TRUE, text |-> <<>>]>> \in Seq(Replies)
    BY DEF Replies, Lists, EmptyList
  <2>3. ASSUME n # 0 PROVE ListParts(n) \in Seq(Replies)
    <3>1. n \in 1..MaxParts /\ n \in Nat
      BY <2>3, ConnectedAssumption
    <3>2. \A k \in 1..n : [type |-> "list", last |-> k = n, text |-> <<[part |-> k, of |-> n]>>] \in Replies
      <4> TAKE k \in 1..n
      <4>1. Part(k, n) \in Lists
        BY <3>1 DEF Lists
      <4> QED BY <4>1 DEF Replies, Part
    <3>3. ListParts(n) \in [1..n -> Replies]
      BY <3>2 DEF ListParts
    <3> QED BY <3>1, <3>3
  <2>4. (IF n = 0 THEN <<[type |-> "list", last |-> TRUE, text |-> <<>>]>> ELSE ListParts(n)) \in Seq(Replies)
    BY <2>2, <2>3
  <2>5. toServer' \in Seq(Requests) /\ UNCHANGED peerVars
    BY <1>2, <1>5 DEF ServeList
  <2> QED BY <1>3, <1>4, <2>1, <2>4, <2>5 DEF peerVars
<1>6. CASE ServeSearch
  <2>1. PICK fields \in Found : Answer(<<[type |-> "found", seq |-> p.seq, fields |-> fields]>>)
    BY <1>6 DEF ServeSearch, p
  <2>2. toServer' \in Seq(Requests) /\ UNCHANGED peerVars /\ p.seq \in Nat
    BY <1>2, <1>6, RequestForms DEF ServeSearch
  <2>3. <<[type |-> "found", seq |-> p.seq, fields |-> fields]>> \in Seq(Replies)
    BY <2>2 DEF Replies
  <2> QED BY <1>3, <1>4, <2>1, <2>2, <2>3 DEF peerVars
<1>7. CASE ServeOther
  <2>1. UNCHANGED peerVars
    BY <1>7 DEF ServeOther
  <2>2. CASE Served("put") /\ Answer(<<[type |-> "put_reply"]>>)
    <3>1. <<[type |-> "put_reply"]>> \in Seq(Replies)
      BY DEF Replies
    <3> QED BY <1>2, <1>3, <1>4, <2>1, <2>2, <3>1 DEF peerVars
  <2>3. CASE Served("ping") /\ Answer(<<[type |-> "PONG"]>>)
    <3>1. <<[type |-> "PONG"]>> \in Seq(Replies)
      BY DEF Replies
    <3> QED BY <1>2, <1>3, <1>4, <2>1, <2>3, <3>1 DEF peerVars
  <2>4. CASE Served("msg") /\ Answer(<<[type |-> "ACK", seq |-> p.seq, recipient |-> p.recipient]>>)
    <3>1. p.seq \in Numbers /\ p.recipient \in Uins
      BY <1>2, <2>4, RequestForms
    <3>2. <<[type |-> "ACK", seq |-> p.seq, recipient |-> p.recipient]>> \in Seq(Replies)
      BY <3>1 DEF Replies
    <3> QED BY <1>2, <1>3, <1>4, <2>1, <2>4, <3>2 DEF peerVars
  <2> QED BY <1>7, <2>2, <2>3, <2>4 DEF ServeOther, p
<1>8. <<>> \in Seq(Replies)
  OBVIOUS
<1>9. CASE ServeStatus
  <2>1. p.status \in Statuses /\ toServer' \in Seq(Requests)
    BY <1>2, <1>9, RequestForms DEF ServeStatus
  <2> QED BY <1>3, <1>4, <1>8, <1>9, <2>1 DEF ServeStatus, p
<1>10. CASE ServeNotify
  <2>1. toServer' \in Seq(Requests)
    BY <1>2, <1>10 DEF ServeNotify
  <2>2. p.type \in {"notify_first", "notify_last"} /\ p \in Requests => p.uins \subseteq Uins
    BY RequestForms
  <2>3. p.type \in {"add_notify", "remove_notify"} /\ p \in Requests => p.uin \in Uins
    BY RequestForms
  <2>4. watched' \subseteq Uins /\ firstParts' \subseteq Uins
    BY <1>2, <1>4, <1>10, <2>2, <2>3 DEF ServeNotify, p
  <2>5. Answer(<<>>) /\ UNCHANGED <<seenStatus, wanted, sending>>
    BY <1>10 DEF ServeNotify
  <2> QED BY <1>3, <1>4, <1>8, <2>1, <2>4, <2>5
<1>11. CASE ServeImage
  <2>1. toServer' \in Seq(Requests) /\ p.image \in Images
    BY <1>2, <1>11, RequestForms DEF ServeImage
  <2>2. wanted' = [wanted EXCEPT ![p.image] = @ + 1]
    BY <1>11 DEF ServeImage, p
  <2>3. wanted' \in [Images -> Nat]
    BY <1>4, <2>1, <2>2
  <2> QED BY <1>3, <1>4, <1>8, <1>11, <2>1, <2>3 DEF ServeImage
<1> QED BY <1>5, <1>6, <1>7, <1>9, <1>10, <1>11 DEF Serve

\* A reply that is sent leaves the wire typed.
LEMMA ToClientIsTyped ==
    ASSUME Shapes, NEW p \in Replies, ToClient(p)
    PROVE  toClient' \in Seq(Replies)
BY AppendProperties DEF ToClient, Shapes

\* What a turn of gg_image_reply's loop sends.
LEMMA SendsFacts ==
    ASSUME Shapes, NEW i \in Images, PeerSends(i)
    PROVE  \E sent \in Nat, len \in Nat \ {0} :
              /\ sent + len <= i.size
              /\ link = "up" /\ live
              /\ \/ sending[i.sender].image = i /\ sent = sending[i.sender].sent /\ sent > 0 /\ UNCHANGED wanted
                 \/ /\ sending[i.sender] = Idle /\ sent = 0
                    /\ wanted[i] > 0 /\ wanted' = [wanted EXCEPT ![i] = @ - 1]
              /\ sending' = [sending EXCEPT ![i.sender] = IF sent + len = i.size THEN Idle
                                                          ELSE [image |-> i, sent |-> sent + len]]
              /\ ToClient([type |-> "piece", image |-> i, first |-> sent = 0, from |-> sent, len |-> len])
              /\ [type |-> "piece", image |-> i, first |-> sent = 0, from |-> sent, len |-> len] \in Pieces
              /\ UNCHANGED <<watched, firstParts, seenStatus>>
<1> DEFINE u == i.sender
           sent == IF sending[u].image = i THEN sending[u].sent ELSE 0
           room == IF sent = 0 THEN FirstPiece ELSE NextPiece
           len == IF i.size - sent >= room THEN room ELSE i.size - sent
           p == [type |-> "piece", image |-> i, first |-> sent = 0, from |-> sent, len |-> len]
<1>1. u \in Uins /\ i.size \in Nat \ {0} /\ FirstPiece \in Nat \ {0} /\ NextPiece \in Nat \ {0}
  BY ImageFacts, ConnectedAssumption
<1>2. /\ \/ sending[u].image = i /\ UNCHANGED wanted
         \/ sending[u] = Idle /\ wanted[i] > 0 /\ wanted' = [wanted EXCEPT ![i] = @ - 1]
      /\ sending' = [sending EXCEPT ![u] = IF sent + len = i.size THEN Idle
                                           ELSE [image |-> i, sent |-> sent + len]]
      /\ ToClient(p) /\ link = "up"
      /\ UNCHANGED <<watched, firstParts, seenStatus>>
  BY DEF PeerSends, Room
<1>3. sending[u].image = i => sending[u] # Idle /\ sent \in 1..i.size - 1
  BY <1>1, TransferFacts
<1>4. sending[u].image # i => sent = 0
  OBVIOUS
<1>5. sent \in Nat /\ sent < i.size
  BY <1>1, <1>3, <1>4
<1> HIDE DEF sent
<1>6. len \in Nat \ {0} /\ sent + len <= i.size
  BY <1>1, <1>5
<1> HIDE DEF len
<1>7. p \in Pieces
  BY <1>5, <1>6 DEF Pieces
<1>8. live
  BY <1>2 DEF Shapes
<1>9. \/ sending[u].image = i /\ sent = sending[u].sent /\ sent > 0 /\ UNCHANGED wanted
      \/ sending[u] = Idle /\ sent = 0 /\ wanted[i] > 0 /\ wanted' = [wanted EXCEPT ![i] = @ - 1]
  BY <1>1, <1>2, <1>3, <1>4 DEF sent
<1> QED BY <1>2, <1>5, <1>6, <1>7, <1>8, <1>9

\* Peers, talk, the end of the connection and gg_free_session keep the shapes.
LEMMA ShapesPeers ==
    ASSUME Shapes,
           \/ PeerNext \/ (\E i \in Images : PeerRefuses(i)) \/ (\E u \in Uins : PeerBreaks(u))
           \/ Chatter \/ Hangup \/ FreeSession
    PROVE  Shapes'
<1>1. ASSUME NEW i \in Images, PeerSends(i) PROVE Shapes'
  <2> DEFINE u == i.sender
  <2>1. PICK sent \in Nat, len \in Nat \ {0} :
           /\ sent + len <= i.size
           /\ \/ UNCHANGED wanted
              \/ wanted[i] > 0 /\ wanted' = [wanted EXCEPT ![i] = @ - 1]
           /\ sending' = [sending EXCEPT ![u] = IF sent + len = i.size THEN Idle
                                                ELSE [image |-> i, sent |-> sent + len]]
           /\ ToClient([type |-> "piece", image |-> i, first |-> sent = 0, from |-> sent, len |-> len])
           /\ [type |-> "piece", image |-> i, first |-> sent = 0, from |-> sent, len |-> len] \in Pieces
           /\ UNCHANGED <<watched, firstParts, seenStatus>>
    BY <1>1, SendsFacts
  <2>2. toClient' \in Seq(Replies)
    BY <2>1, ToClientIsTyped DEF Replies
  <2>3. u \in Uins /\ i.size \in Nat \ {0}
    BY ImageFacts
  <2>4. wanted' \in [Images -> Nat]
    BY <2>1 DEF Shapes, TypeOK
  <2> DEFINE s == IF sent + len = i.size THEN Idle ELSE [image |-> i, sent |-> sent + len]
  <2>5. s = Idle \/ s \in Transfers(u)
    BY <2>1, <2>3 DEF Transfers
  <2>6. sending' = [sending EXCEPT ![u] = s]
    BY <2>1
  <2> HIDE DEF s
  <2>7. /\ sending' \in [Uins -> {Idle} \cup UNION {Transfers(v) : v \in Uins}]
        /\ \A v \in Uins : sending'[v] = Idle \/ sending'[v] \in Transfers(v)
    <3>1. s \in {Idle} \cup UNION {Transfers(v) : v \in Uins}
      BY <2>3, <2>5
    <3>2. sending \in [Uins -> {Idle} \cup UNION {Transfers(v) : v \in Uins}]
      BY DEF Shapes
    <3>3. \A v \in Uins : sending'[v] = IF v = u THEN s ELSE sending[v]
      BY <2>3, <2>6, <3>2
    <3>4. \A v \in Uins : sending'[v] = Idle \/ sending'[v] \in Transfers(v)
      BY <2>5, <3>3 DEF Shapes
    <3> QED BY <2>3, <2>6, <3>1, <3>2, <3>4
  <2>8. DOMAIN sending' = Uins
    BY <2>7
  <2> QED BY <2>1, <2>2, <2>4, <2>7, <2>8 DEF ToClient, sessVars, histVars, Shapes, TypeOK
<1>2. ASSUME NEW i \in Images, PeerRefuses(i) PROVE Shapes'
  <2>1. toClient' \in Seq(Replies)
    BY <1>2, ToClientIsTyped DEF Replies, PeerRefuses
  <2>2. wanted' \in [Images -> Nat]
    BY <1>2 DEF PeerRefuses, Shapes, TypeOK
  <2> QED BY <1>2, <2>1, <2>2 DEF PeerRefuses, ToClient, sessVars, histVars, Shapes, TypeOK
<1>3. ASSUME NEW u \in Uins, PeerBreaks(u) PROVE Shapes'
  <2>1. /\ sending' \in [Uins -> {Idle} \cup UNION {Transfers(v) : v \in Uins}]
        /\ \A v \in Uins : sending'[v] = Idle \/ sending'[v] \in Transfers(v)
    <3>1. sending \in [Uins -> {Idle} \cup UNION {Transfers(v) : v \in Uins}]
      BY DEF Shapes
    <3>2. sending' = [sending EXCEPT ![u] = Idle]
      BY <1>3 DEF PeerBreaks
    <3>3. \A v \in Uins : sending'[v] = IF v = u THEN Idle ELSE sending[v]
      BY <3>1, <3>2
    <3>4. \A v \in Uins : sending'[v] = Idle \/ sending'[v] \in Transfers(v)
      BY <3>3 DEF Shapes
    <3> QED BY <3>1, <3>2, <3>4
  <2>2. DOMAIN sending' = Uins
    BY <2>1
  <2> QED BY <1>3, <2>1, <2>2 DEF PeerBreaks, sessVars, wireVars, histVars, Shapes, TypeOK
<1>4. CASE Chatter
  <2>1. toClient' \in Seq(Replies)
    <3>1. ASSUME NEW options \in Options, NEW bait \in BOOLEAN
          PROVE  [type |-> "msg", options |-> options, bait |-> bait] \in Replies
      BY DEF Replies
    <3>2. ASSUME NEW who \in Told, NEW old \in BOOLEAN
          PROVE  [type |-> "notify", who |-> who, old |-> old] \in Replies
      BY DEF Replies
    <3> QED BY <1>4, <3>1, <3>2, ToClientIsTyped DEF Chatter
  <2>2. UNCHANGED <<program, live, sessVars, link, toServer, event, histVars, peerVars>>
    BY <1>4 DEF Chatter, ToClient
  <2> QED BY <2>1, <2>2 DEF sessVars, histVars, peerVars, Shapes, TypeOK
<1>5. CASE Hangup
  <2>1. clean' \in BOOLEAN /\ link' = "down"
    <3>1. clean' = FALSE
      BY <1>5, Zenon DEF Hangup
    <3> QED BY <1>5, <3>1, Zenon DEF Hangup
  <2>2. toServer' \in Seq(Requests)
    BY <1>5 DEF Hangup
  <2>3. UNCHANGED <<program, live, sessVars, toClient, peerVars, event, calls, uins, numbers, reported>>
    BY <1>5 DEF Hangup
  <2> QED BY <2>1, <2>2, <2>3 DEF sessVars, peerVars, Shapes, TypeOK
<1>6. CASE FreeSession
  <2>1. live' \in BOOLEAN /\ clean' \in BOOLEAN /\ link' = "down"
    <3>1. live' = FALSE /\ clean' = FALSE /\ link' = "down"
      BY <1>6, Zenon DEF FreeSession
    <3> QED BY <3>1, Zenon
  <2>2. toServer' \in Seq(Requests) /\ toClient' \in Seq(Replies) /\ images' = <<>>
    BY <1>6 DEF FreeSession
  <2>3. UNCHANGED <<program, userlist_blocks, userlist_reply, seq, status, reqSeq, peerVars,
                    calls, uins, numbers, reported>>
    BY <1>6 DEF FreeSession
  <2> QED BY <2>1, <2>2, <2>3 DEF peerVars, Shapes, TypeOK
<1> QED BY <1>1, <1>2, <1>3, <1>4, <1>5, <1>6 DEF PeerNext

\* Every step keeps the shapes.
LEMMA ShapesStep ==
    ASSUME Shapes, [Next]_vars
    PROVE  Shapes'
<1>1. CASE UNCHANGED vars
  BY <1>1 DEF vars, sessVars, wireVars, peerVars, histVars, Shapes, TypeOK
<1> QED BY <1>1, ShapesRequest, ShapesWatch, ShapesServe, ShapesPeers DEF Next

\* A new session has them.
LEMMA ShapesInit == Init => Shapes
<1> SUFFICES ASSUME Init PROVE Shapes
  OBVIOUS
<1>1. program \in [kinds : SUBSET Kinds, calls : Nat] /\ SeqSpace \in Nat \ {0}
  BY ConnectedAssumption DEF Init
<1>2. TypeOK
  <2>1. live \in BOOLEAN /\ clean \in BOOLEAN
    <3>1. live = TRUE /\ clean = FALSE
      BY Zenon DEF Init
    <3> QED BY <3>1, Zenon
  <2>2. DOMAIN sending = Uins /\ wanted \in [Images -> Nat]
    BY DEF Init
  <2>3. images \in Seq(Entries) /\ numbers \in Seq(0..SeqSpace - 1) /\ DOMAIN images = {}
    BY DEF Init
  <2>4. status \in Statuses /\ seenStatus \in Statuses /\ link \in {"up", "down"}
    BY DEF Init, Statuses
  <2>5. calls \in 0..program.calls /\ program \in Programs /\ seq \in 0..SeqSpace - 1
    BY <1>1 DEF Init
  <2>6. /\ userlist_blocks \in Int /\ reqSeq \in Nat /\ reported \in Nat
        /\ watched \subseteq Uins /\ firstParts \subseteq Uins /\ uins \subseteq Uins
    BY DEF Init
  <2> QED BY <2>1, <2>2, <2>3, <2>4, <2>5, <2>6 DEF TypeOK
<1>3. sending = [u \in Uins |-> Idle]
  BY DEF Init
<1> QED BY <1>2, <1>3 DEF Init, Shapes

\* The fields of struct gg_session and what is on the wires are in range: every
\* entry of the image queue waits for bytes.
THEOREM TypeCorrect == Spec => []TypeOK
<1>1. Shapes => TypeOK
  BY DEF Shapes
<1> QED BY <1>1, ShapesInit, ShapesStep, PTL DEF Spec

--------------------------------------------------------------------------------
(***************************************************************************)
(* What the steps do to the wires.                                         *)
(***************************************************************************)
\* The server takes one request and puts its answers behind what is on its way.
LEMMA ServeFacts ==
    ASSUME Shapes, Serve
    PROVE  /\ live /\ link = "up" /\ UNCHANGED <<program, live, sessVars, link, event, histVars>>
           /\ toServer # <<>> /\ toServer' = Tail(toServer) /\ toServer[1] \in Requests
           /\ \E t \in Seq(Replies) :
                /\ toClient' = toClient \o t
                /\ \/ /\ toServer[1].type = "get" /\ UNCHANGED peerVars
                      /\ t = <<EmptyList>> \/ \E n \in 1..MaxParts : t = ListParts(n)
                   \/ /\ toServer[1].type = "put" /\ UNCHANGED peerVars
                      /\ t = <<[type |-> "put_reply"]>>
                   \/ /\ toServer[1].type \in {"ping", "msg", "search"} /\ UNCHANGED peerVars
                      /\ \E r : t = <<r>> /\ r.type \in {"PONG", "ACK", "found"}
                   \/ /\ t = <<>>
                      /\ \/ /\ toServer[1].type = "new_status" /\ seenStatus' = toServer[1].status
                            /\ UNCHANGED <<watched, firstParts, wanted, sending>>
                         \/ /\ toServer[1].type \in {"list_empty", "notify_first", "notify_last",
                                                     "add_notify", "remove_notify"}
                            /\ ServeNotify /\ UNCHANGED <<seenStatus, wanted, sending>>
                         \/ /\ toServer[1].type = "image"
                            /\ wanted' = [wanted EXCEPT ![toServer[1].image] = @ + 1]
                            /\ UNCHANGED <<watched, firstParts, seenStatus, sending>>
<1> DEFINE p == toServer[1]
<1>1. live /\ link = "up"
  BY DEF Serve, Shapes
<1>2. UNCHANGED <<program, live, sessVars, link, event, histVars>>
  BY DEF Serve, ServeList, ServeSearch, ServeOther, ServeStatus, ServeNotify, ServeImage, Answer
<1>3. toServer # <<>> /\ toServer' = Tail(toServer)
  BY DEF Serve, ServeList, ServeSearch, ServeOther, ServeStatus, ServeNotify, ServeImage, Served
<1>4. Head(toServer) = p /\ p \in Requests
  BY <1>3, TailEntries DEF Shapes
<1>5. toClient \o <<>> = toClient /\ <<>> \in Seq(Replies)
  BY ConcatEmptySeq DEF Shapes
<1>6. /\ toClient' \in Seq(Replies) /\ toClient \in Seq(Replies)
  BY ShapesServe DEF Shapes
<1> HIDE DEF p
<1>7. CASE ServeList
  <2>1. PICK n \in 0..MaxParts :
           Answer(IF n = 0 THEN <<[type |-> "list", last |-> TRUE, text |-> <<>>]>> ELSE ListParts(n))
    BY <1>7 DEF ServeList
  <2>2. CASE n = 0
    <3>1. <<EmptyList>> \in Seq(Replies)
      BY DEF Replies, Lists
    <3>2. toClient' = toClient \o <<EmptyList>>
      BY <2>1, <2>2 DEF Answer, EmptyList
    <3> QED BY <1>1, <1>2, <1>3, <1>4, <1>7, <3>1, <3>2 DEF ServeList, Served, p
  <2>3. CASE n # 0
    <3>1. n \in 1..MaxParts /\ n \in Nat
      BY <2>3, ConnectedAssumption
    <3>2. ListParts(n) \in Seq(Replies)
      <4>1. \A k \in 1..n : [type |-> "list", last |-> k = n, text |-> <<[part |-> k, of |-> n]>>] \in Replies
        <5> TAKE k \in 1..n
        <5>1. Part(k, n) \in Lists
          BY <3>1 DEF Lists
        <5> QED BY <5>1 DEF Replies, Part
      <4>2. ListParts(n) \in [1..n -> Replies]
        BY <4>1 DEF ListParts
      <4> QED BY <3>1, <4>2
    <3>3. toClient' = toClient \o ListParts(n)
      BY <2>1, <2>3 DEF Answer
    <3> QED BY <1>1, <1>2, <1>3, <1>4, <1>7, <3>1, <3>2, <3>3 DEF ServeList, Served, p
  <2> QED BY <2>2, <2>3
<1>8. CASE ServeOther
  <2>1. UNCHANGED peerVars
    BY <1>8 DEF ServeOther
  <2>2. CASE Served("put") /\ Answer(<<[type |-> "put_reply"]>>)
    <3>1. <<[type |-> "put_reply"]>> \in Seq(Replies)
      BY DEF Replies
    <3> QED BY <1>1, <1>2, <1>3, <1>4, <2>1, <2>2, <3>1 DEF Served, Answer, p
  <2>3. CASE Served("ping") /\ Answer(<<[type |-> "PONG"]>>)
    <3>1. <<[type |-> "PONG"]>> \in Seq(Replies) /\ [type |-> "PONG"].type = "PONG"
      BY DEF Replies
    <3> QED BY <1>1, <1>2, <1>3, <1>4, <2>1, <2>3, <3>1 DEF Served, Answer, p
  <2>4. CASE Served("msg") /\ Answer(<<[type |-> "ACK", seq |-> p.seq, recipient |-> p.recipient]>>)
    <3> DEFINE r == [type |-> "ACK", seq |-> p.seq, recipient |-> p.recipient]
    <3>1. p.seq \in Numbers /\ p.recipient \in Uins /\ p.type = "msg"
      BY <1>4, <2>4, RequestForms DEF Served
    <3>2. <<r>> \in Seq(Replies) /\ r.type = "ACK"
      BY <3>1 DEF Replies
    <3>3. toClient' = toClient \o <<r>>
      BY <2>4 DEF Answer
    <3> HIDE DEF r
    <3> QED BY <1>1, <1>2, <1>3, <1>4, <2>1, <3>1, <3>2, <3>3 DEF p
  <2> QED BY <1>4, <1>8, <2>2, <2>3, <2>4 DEF ServeOther
<1>9. CASE ServeSearch
  <2>1. PICK fields \in Found : Answer(<<[type |-> "found", seq |-> p.seq, fields |-> fields]>>)
    BY <1>4, <1>9 DEF ServeSearch
  <2> DEFINE r == [type |-> "found", seq |-> p.seq, fields |-> fields]
  <2>2. UNCHANGED peerVars /\ p.seq \in Nat /\ p.type = "search"
    BY <1>4, <1>9, RequestForms DEF ServeSearch, Served
  <2>3. <<r>> \in Seq(Replies) /\ r.type = "found"
    BY <2>2 DEF Replies
  <2>4. toClient' = toClient \o <<r>>
    BY <2>1 DEF Answer
  <2> HIDE DEF r
  <2> QED BY <1>1, <1>2, <1>3, <1>4, <2>2, <2>3, <2>4 DEF p
<1>10. CASE ServeStatus
  BY <1>1, <1>2, <1>3, <1>4, <1>5, <1>10 DEF ServeStatus, Served, Answer, p
<1>11. CASE ServeNotify
  <2>1. p.type \in {"list_empty", "notify_first", "notify_last", "add_notify", "remove_notify"}
    BY <1>4, <1>11 DEF ServeNotify, Served
  <2>2. toClient' = toClient \o <<>> /\ UNCHANGED <<seenStatus, wanted, sending>>
    BY <1>11 DEF ServeNotify, Answer
  <2> QED BY <1>1, <1>2, <1>3, <1>4, <1>5, <1>11, <2>1, <2>2 DEF p
<1>12. CASE ServeImage
  BY <1>1, <1>2, <1>3, <1>4, <1>5, <1>12 DEF ServeImage, Served, Answer, p
<1> QED BY <1>7, <1>8, <1>9, <1>10, <1>11, <1>12 DEF Serve

\* Peers put packets behind what is on its way.
LEMMA PeerFacts ==
    ASSUME Shapes, NEW p \in Replies, ToClient(p)
    PROVE  /\ <<p>> \in Seq(Replies) /\ toClient' = toClient \o <<p>>
           /\ UNCHANGED <<program, live, sessVars, link, toServer, event, histVars>>
BY AppendIsConcat DEF ToClient, Shapes

\* What comes by itself is a message or a notification.
LEMMA ChatterFacts ==
    ASSUME Shapes, Chatter
    PROVE  \E p \in Replies : p.type \in {"msg", "notify"} /\ ToClient(p) /\ UNCHANGED peerVars
<1>1. ASSUME NEW options \in Options, NEW bait \in BOOLEAN
      PROVE  [type |-> "msg", options |-> options, bait |-> bait] \in Replies
  BY DEF Replies
<1>2. ASSUME NEW who \in Told, NEW old \in BOOLEAN
      PROVE  [type |-> "notify", who |-> who, old |-> old] \in Replies
  BY DEF Replies
<1> QED BY <1>1, <1>2 DEF Chatter

\* The packets of a message to several recipients, and those of an export.
LEMMA MessagePackets ==
    ASSUME Shapes, NEW to \in Conferences, SendMessage(to)
    PROVE  \E packets \in Seq(Requests) :
              Send(packets) /\ \A k \in DOMAIN packets : packets[k].type = "msg"
<1> DEFINE s == IF seq = 0 THEN Seed ELSE seq
           packets == [k \in 1..Len(to) |-> [type |-> "msg", seq |-> s, recipient |-> to[k]]]
<1>1. s \in Numbers
  <2>1. seq \in 0..SeqSpace - 1 /\ Seed \in 0..SeqSpace - 1
    BY ConnectedAssumption DEF Shapes, TypeOK
  <2> QED BY <2>1 DEF Numbers
<1>2. to \in Seq(Uins)
  <2>1. CASE \E u \in Uins : to = <<u>>
    BY <2>1
  <2>2. CASE to \in Uins \X Uins
    BY <2>2
  <2> QED BY <2>1, <2>2 DEF Conferences
<1>3. Send(packets)
  BY DEF SendMessage
<1> HIDE DEF s
<1>4. Len(to) \in Nat /\ \A k \in 1..Len(to) : to[k] \in Uins
  BY <1>2, LenProperties, ElementOfSeq
<1>5. packets \in [1..Len(to) -> Requests]
  <2>1. \A k \in 1..Len(to) : [type |-> "msg", seq |-> s, recipient |-> to[k]] \in Requests
    BY <1>1, <1>4 DEF Requests
  <2> QED BY <2>1
<1>6. \A k \in DOMAIN packets : packets[k].type = "msg"
  OBVIOUS
<1> HIDE DEF packets
<1>7. packets \in Seq(Requests)
  BY <1>4, <1>5
<1> QED BY <1>3, <1>6, <1>7

\* What gg_userlist_request sends of a list: at least one packet, all counted.
LEMMA ExportPackets ==
    ASSUME Shapes, NEW n \in ListLengths, ExportList(n)
    PROVE  \E p \in Nat \ {0} : /\ [k \in 1..p |-> [type |-> "put"]] \in Seq(Requests)
                                /\ Send([k \in 1..p |-> [type |-> "put"]])
                                /\ userlist_blocks' = p /\ UNCHANGED <<images, userlist_reply>>
<1> DEFINE p == IF n = 0 THEN 1 ELSE Parts(n, ListChunk)
           packets == [k \in 1..p |-> [type |-> "put"]]
<1>1. p \in Nat \ {0}
  <2>1. n \in Nat /\ ListChunk \in Nat \ {0}
    BY ConnectedAssumption
  <2>2. Parts(n, ListChunk) \in Nat /\ (n > 0 => Parts(n, ListChunk) > 0)
    BY <2>1, PartsEnough
  <2> QED BY <2>1, <2>2
<1>2. Send(packets) /\ userlist_blocks' = p /\ UNCHANGED <<images, userlist_reply>>
  BY DEF ExportList
<1> HIDE DEF p
<1>3. packets \in [1..p -> Requests]
  <2>1. [type |-> "put"] \in Requests
    BY DEF Requests
  <2> QED BY <2>1
<1>4. packets \in Seq(Requests)
  <2> HIDE DEF packets
  <2> QED BY <1>1, <1>3
<1> QED BY <1>1, <1>2, <1>4

\* Requests other than for an image or of a list are not answered.
LEMMA RequestFacts ==
    ASSUME Shapes, Request
    PROVE  /\ live /\ UNCHANGED <<program, live, link, toClient, peerVars, event, userlist_reply>>
           /\ \E packets \in Seq(Requests) :
                /\ toServer' = IF link = "up" THEN toServer \o packets ELSE toServer
                /\ \/ /\ \A k \in DOMAIN packets : packets[k].type \notin {"put", "image"}
                      /\ UNCHANGED <<images, userlist_blocks, clean, reported>>
                   \/ ImportList /\ packets = <<[type |-> "get"]>> /\ UNCHANGED images
                   \/ \E n \in ListLengths : \E p \in Nat \ {0} :
                         ExportList(n) /\ packets = [k \in 1..p |-> [type |-> "put"]] /\ UNCHANGED images
                           /\ userlist_blocks' = p
                   \/ \E i \in Images : /\ ImageRequest(i) /\ packets = <<[type |-> "image", image |-> i]>>
                                        /\ UNCHANGED <<userlist_blocks, clean, reported>>
<1> USE DEF sessVars
<1>1. program' = program
  BY DEF Request, Makes
<1>2. ASSUME NEW n \in Uins \cup {0}, Notify(n)
      PROVE  \E packets \in Seq(Requests) :
                Send(packets) /\ \A k \in DOMAIN packets : packets[k].type \notin {"put", "image"}
  <2> DEFINE packets == IF n = 0 THEN <<[type |-> "list_empty"]>> ELSE NotifyParts(n)
  <2>1. packets \in Seq(Requests)
    <3>1. [type |-> "list_empty"] \in Requests
      BY DEF Requests
    <3> QED BY <3>1, NotifyPackets
  <2>2. \A k \in DOMAIN packets : packets[k].type \notin {"put", "image"}
    <3>1. CASE n = 0
      BY <3>1
    <3>2. CASE n # 0
      <4>1. n \in Uins
        BY <3>2
      <4>2. DOMAIN NotifyParts(n) = 1..Parts(n, NotifyPart)
        BY <4>1, NotifyPackets, LenProperties
      <4> QED BY <3>2, <4>1, <4>2, NotifyPackets
    <3> QED BY <3>1, <3>2
  <2>3. Send(packets)
    BY <1>2 DEF Notify
  <2> HIDE DEF packets
  <2> QED BY <2>1, <2>2, <2>3
<1>3. ASSUME NEW p \in Requests, p.type \notin {"put", "image"}
      PROVE  <<p>> \in Seq(Requests) /\ \A k \in DOMAIN <<p>> : <<p>>[k].type \notin {"put", "image"}
  BY <1>3
<1>4. ASSUME NEW packets \in Seq(Requests), Send(packets)
      PROVE  /\ live /\ UNCHANGED <<live, link, toClient, peerVars, event>>
             /\ toServer' = IF link = "up" THEN toServer \o packets ELSE toServer
  BY <1>4 DEF Send
<1>5. ASSUME NEW to \in Conferences, SendMessage(to)
      PROVE  \E packets \in Seq(Requests) :
                Send(packets) /\ \A k \in DOMAIN packets : packets[k].type \notin {"put", "image"}
  <2>1. PICK packets \in Seq(Requests) : Send(packets) /\ \A k \in DOMAIN packets : packets[k].type = "msg"
    BY <1>5, MessagePackets
  <2> QED BY <2>1
<1>6. ASSUME \/ \E n \in Uins \cup {0} : Notify(n)
             \/ \E to \in Conferences : SendMessage(to)
      PROVE  /\ \E packets \in Seq(Requests) :
                  Send(packets) /\ \A k \in DOMAIN packets : packets[k].type \notin {"put", "image"}
             /\ UNCHANGED <<images, userlist_blocks, userlist_reply, clean, reported>>
  BY <1>2, <1>5, <1>6 DEF Notify, SendMessage
<1>7. ASSUME \/ \E u \in Uins : AddNotify(u) \/ RemoveNotify(u)
             \/ \E s \in Statuses : ChangeStatus(s)
             \/ \E time \in 1..2 : Search(time)
             \/ Ping
      PROVE  /\ \E p \in Requests : p.type \notin {"put", "image"} /\ Send(<<p>>)
             /\ UNCHANGED <<images, userlist_blocks, userlist_reply, clean, reported>>
  <2>1. ASSUME NEW u \in Uins
        PROVE  /\ [type |-> "add_notify", uin |-> u] \in Requests
               /\ [type |-> "remove_notify", uin |-> u] \in Requests
    BY DEF Requests
  <2>2. ASSUME NEW s \in Statuses PROVE [type |-> "new_status", status |-> s] \in Requests
    BY DEF Requests
  <2>3. ASSUME NEW n \in Nat PROVE [type |-> "search", seq |-> n] \in Requests
    BY DEF Requests
  <2>4. [type |-> "ping"] \in Requests
    BY DEF Requests
  <2>5. CASE \E u \in Uins : AddNotify(u) \/ RemoveNotify(u)
    BY <2>1, <2>5 DEF AddNotify, RemoveNotify
  <2>6. CASE \E s \in Statuses : ChangeStatus(s)
    BY <2>2, <2>6 DEF ChangeStatus
  <2>7. CASE Ping
    BY <2>4, <2>7 DEF Ping
  <2>8. CASE \E time \in 1..2 : Search(time)
    <3>1. PICK time \in 1..2 : Search(time)
      BY <2>8
    <3> DEFINE number == IF reqSeq # 0 THEN reqSeq ELSE time
               p == [type |-> "search", seq |-> number]
    <3>2. number \in Nat
      BY DEF Shapes, TypeOK
    <3>3. Send(<<p>>) /\ UNCHANGED <<images, userlist_blocks, userlist_reply, clean, reported>>
      BY <3>1 DEF Search
    <3> HIDE DEF number
    <3>4. p \in Requests /\ p.type = "search"
      BY <2>3, <3>2
    <3> HIDE DEF p
    <3> QED BY <3>3, <3>4
  <2> QED BY <1>7, <2>5, <2>6, <2>7, <2>8
<1>8. ASSUME ImportList
      PROVE  /\ <<[type |-> "get"]>> \in Seq(Requests) /\ Send(<<[type |-> "get"]>>)
             /\ UNCHANGED <<images, userlist_reply>>
  BY <1>8 DEF ImportList, Requests
<1>9. ASSUME NEW n \in ListLengths, ExportList(n)
      PROVE  \E p \in Nat \ {0} : /\ [k \in 1..p |-> [type |-> "put"]] \in Seq(Requests)
                                  /\ Send([k \in 1..p |-> [type |-> "put"]])
                                  /\ userlist_blocks' = p /\ UNCHANGED <<images, userlist_reply>>
  BY <1>9, ExportPackets
<1>10. ASSUME NEW i \in Images, ImageRequest(i)
      PROVE  /\ <<[type |-> "image", image |-> i]>> \in Seq(Requests)
             /\ Send(<<[type |-> "image", image |-> i]>>)
             /\ UNCHANGED <<userlist_blocks, userlist_reply, clean, reported>>
  BY <1>10 DEF ImageRequest, Requests
<1>11. CASE \/ \E n \in Uins \cup {0} : Notify(n)
            \/ \E to \in Conferences : SendMessage(to)
  BY <1>1, <1>4, <1>6, <1>11
<1>12. CASE \/ \E u \in Uins : AddNotify(u) \/ RemoveNotify(u)
            \/ \E s \in Statuses : ChangeStatus(s)
            \/ \E time \in 1..2 : Search(time)
            \/ Ping
  <2>1. PICK p \in Requests : p.type \notin {"put", "image"} /\ Send(<<p>>)
    BY <1>7, <1>12
  <2> QED BY <1>1, <1>3, <1>4, <1>7, <1>12, <2>1
<1>13. CASE ImportList
  BY <1>1, <1>4, <1>8, <1>13
<1>14. CASE \E n \in ListLengths : ExportList(n)
  BY <1>1, <1>4, <1>9, <1>14
<1>15. CASE \E i \in Images : ImageRequest(i)
  BY <1>1, <1>4, <1>10, <1>15
<1> QED BY <1>11, <1>12, <1>13, <1>14, <1>15 DEF Request

--------------------------------------------------------------------------------
(***************************************************************************)
(* Imported lists.  The parts of a list are next to each other on the wire *)
(* and the parts before the first one there are in userlist_reply.         *)
(***************************************************************************)
PartsTo(k, n) == [j \in 1..k |-> [part |-> j, of |-> n]]

InOrder(s) ==
    \A k \in DOMAIN s : \A n \in 1..MaxParts : \A m \in 1..n : s[k] = Part(m, n) =>
        /\ m < n => k < Len(s) /\ s[k + 1] = Part(m + 1, n)
        /\ m > 1 /\ k > 1 => s[k - 1] = Part(m - 1, n)

\* A list that has begun to come.
Begun(s) == s # <<>> /\ \E n \in 1..MaxParts : \E m \in 2..n : s[1] = Part(m, n)

ListsInv == live =>
    /\ InOrder(toClient)
    /\ userlist_reply = NULL \/ Begun(toClient)
    /\ \A n \in 1..MaxParts : \A m \in 2..n :
          toClient # <<>> /\ toClient[1] = Part(m, n) => userlist_reply = PartsTo(m - 1, n)

\* A part says which one it is, and nothing else is one.
LEMMA PartsDiffer ==
    ASSUME NEW k, NEW n, NEW j, NEW m
    PROVE  /\ Part(k, n) = Part(j, m) => k = j /\ n = m
           /\ Part(k, n) # EmptyList /\ Part(k, n).type = "list" /\ EmptyList.type = "list"
<1>1. Part(k, n).text = <<[part |-> k, of |-> n]>> /\ Part(j, m).text = <<[part |-> j, of |-> m]>>
  BY DEF Part
<1>2. Part(k, n).text[1].part = k /\ Part(k, n).text[1].of = n
  BY <1>1
<1>3. Part(j, m).text[1].part = j /\ Part(j, m).text[1].of = m
  BY <1>1
<1>4. EmptyList.text = <<>> /\ Part(k, n).text # <<>>
  BY <1>1 DEF EmptyList
<1>5. Part(k, n) = Part(j, m) => k = j /\ n = m
  BY <1>2, <1>3
<1>6. Part(k, n).type = "list" /\ EmptyList.type = "list"
  BY DEF Part, EmptyList
<1> QED BY <1>4, <1>5, <1>6

\* A list is put together part by part.
LEMMA PartsAppend ==
    ASSUME NEW k \in Nat, NEW n
    PROVE  /\ PartsTo(k, n) \o <<[part |-> k + 1, of |-> n]>> = PartsTo(k + 1, n)
           /\ Len(PartsTo(k, n)) = k /\ PartsTo(0, n) = NULL
<1> DEFINE S == {[part |-> j, of |-> n] : j \in Nat}
           e == [part |-> k + 1, of |-> n]
<1>1. \A i \in Nat : PartsTo(i, n) \in Seq(S) /\ Len(PartsTo(i, n)) = i
                     /\ \A j \in 1..i : PartsTo(i, n)[j] = [part |-> j, of |-> n]
  <2> TAKE i \in Nat
  <2>1. PartsTo(i, n) \in [1..i -> S]
    BY DEF PartsTo
  <2>2. \A j \in 1..i : PartsTo(i, n)[j] = [part |-> j, of |-> n]
    BY DEF PartsTo
  <2> QED BY <2>1, <2>2
<1>2. e \in S /\ k + 1 \in Nat
  OBVIOUS
<1> HIDE DEF S, e
<1>3. <<e>> \in Seq(S) /\ Len(<<e>>) = 1 /\ <<e>>[1] = e
  BY <1>2
<1> DEFINE t == PartsTo(k, n) \o <<e>>
           r == PartsTo(k + 1, n)
<1>4. /\ t \in Seq(S) /\ Len(t) = k + 1
      /\ \A j \in 1..k : t[j] = PartsTo(k, n)[j]
      /\ \A j \in 1..1 : t[k + j] = <<e>>[j]
  <2>1. PartsTo(k, n) \in Seq(S) /\ Len(PartsTo(k, n)) = k
    BY <1>1
  <2> QED BY <1>3, <2>1, ConcatEntries
<1>5. r \in Seq(S) /\ Len(r) = k + 1 /\ \A j \in 1..k + 1 : r[j] = [part |-> j, of |-> n]
  BY <1>1, <1>2
<1> HIDE DEF t, r
<1>6. \A j \in 1..k + 1 : t[j] = r[j]
  <2> TAKE j \in 1..k + 1
  <2>1. CASE j \in 1..k
    BY <1>1, <1>4, <1>5, <2>1
  <2>2. CASE j = k + 1
    BY <1>3, <1>4, <1>5, <2>2 DEF e
  <2> QED BY <2>1, <2>2
<1>7. t = r
  BY <1>4, <1>5, <1>6, SeqEqual
<1>8. PartsTo(0, n) = NULL
  BY DEF PartsTo, NULL
<1> QED BY <1>1, <1>7, <1>8 DEF t, r, e

\* Lists are not disturbed by what is put behind them, if it is in order.
LEMMA ListsBehind ==
    ASSUME Shapes, ListsInv, NEW t \in Seq(Replies), toClient' = toClient \o t, UNCHANGED <<live, userlist_reply>>,
           InOrder(t),
           t # <<>> => \A n \in 1..MaxParts : \A m \in 2..n : t[1] # Part(m, n)
    PROVE  ListsInv'
<1> SUFFICES ASSUME live PROVE ListsInv'
  BY DEF ListsInv
<1> DEFINE s == toClient
           N == Len(s)
           r == s \o t
<1>1. /\ r \in Seq(Replies) /\ N \in Nat /\ Len(t) \in Nat
      /\ Len(r) = N + Len(t) /\ DOMAIN r = 1..(N + Len(t)) /\ DOMAIN s = 1..N /\ DOMAIN t = 1..Len(t)
      /\ \A i \in 1..N : r[i] = s[i]
      /\ \A i \in 1..Len(t) : r[N + i] = t[i]
  BY ConcatEntries DEF Shapes
<1>2. s # <<>> <=> N > 0
  BY EmptySeq, LenProperties DEF Shapes
<1>3. t # <<>> <=> Len(t) > 0
  BY EmptySeq, LenProperties
<1>4. r # <<>> <=> N + Len(t) > 0
  BY <1>1, EmptySeq, LenProperties
<1>5. MaxParts \in Nat /\ InOrder(s)
  BY ConnectedAssumption DEF ListsInv
<1>6. toClient' = r
  OBVIOUS
<1> HIDE DEF r, s, N
<1>7. ASSUME NEW k \in DOMAIN r, NEW n \in 1..MaxParts, NEW m \in 1..n, r[k] = Part(m, n)
      PROVE  /\ m < n => k < Len(r) /\ r[k + 1] = Part(m + 1, n)
             /\ m > 1 /\ k > 1 => r[k - 1] = Part(m - 1, n)
  <2>1. CASE k <= N
    <3>1. k \in 1..N /\ s[k] = Part(m, n)
      BY <1>1, <1>7, <2>1
    <3>2. /\ m < n => k < N /\ s[k + 1] = Part(m + 1, n)
          /\ m > 1 /\ k > 1 => s[k - 1] = Part(m - 1, n)
      BY <1>1, <1>5, <1>7, <3>1 DEF InOrder, N
    <3>3. k < N => k < Len(r) /\ r[k + 1] = s[k + 1]
      BY <1>1, <3>1
    <3>4. k > 1 => r[k - 1] = s[k - 1]
      BY <1>1, <3>1
    <3> QED BY <3>2, <3>3, <3>4
  <2>2. CASE k > N
    <3> DEFINE j == k - N
    <3>1. j \in 1..Len(t) /\ k = N + j /\ t[j] = Part(m, n)
      <4>1. j \in 1..Len(t) /\ k = N + j
        BY <1>1, <2>2
      <4> QED BY <1>1, <1>7, <4>1
    <3> HIDE DEF j
    <3>2. /\ m < n => j < Len(t) /\ t[j + 1] = Part(m + 1, n)
          /\ m > 1 /\ j > 1 => t[j - 1] = Part(m - 1, n)
      BY <1>1, <1>7, <3>1 DEF InOrder
    <3>3. j < Len(t) => k < Len(r) /\ r[k + 1] = t[j + 1]
      <4> SUFFICES ASSUME j < Len(t) PROVE k < Len(r) /\ r[k + 1] = t[j + 1]
        OBVIOUS
      <4>1. j + 1 \in 1..Len(t) /\ k + 1 = N + (j + 1) /\ k < Len(r)
        BY <1>1, <3>1
      <4> QED BY <1>1, <4>1
    <3>4. j > 1 => r[k - 1] = t[j - 1]
      <4> SUFFICES ASSUME j > 1 PROVE r[k - 1] = t[j - 1]
        OBVIOUS
      <4>1. j - 1 \in 1..Len(t) /\ k - 1 = N + (j - 1)
        BY <1>1, <3>1
      <4> QED BY <1>1, <4>1
    <3>5. m > 1 => j > 1
      <4> SUFFICES ASSUME m > 1, j = 1 PROVE FALSE
        BY <1>1, <3>1
      <4>1. t # <<>> /\ m \in 2..n
        BY <1>1, <1>3, <1>5, <3>1
      <4> QED BY <3>1, <4>1
    <3> QED BY <3>2, <3>3, <3>4, <3>5
  <2> QED BY <1>1, <2>1, <2>2
<1>8. InOrder(r)
  BY <1>7 DEF InOrder
<1>9. userlist_reply = NULL \/ Begun(r)
  <2>1. s # <<>> => r # <<>> /\ r[1] = s[1]
    BY <1>1, <1>2, <1>4
  <2> QED BY <2>1 DEF ListsInv, Begun, s
<1>10. ASSUME NEW n \in 1..MaxParts, NEW m \in 2..n, r # <<>>, r[1] = Part(m, n)
       PROVE  userlist_reply = PartsTo(m - 1, n)
  <2>1. CASE s # <<>>
    <3>1. s[1] = r[1]
      BY <1>1, <1>2, <2>1
    <3> QED BY <1>10, <2>1, <3>1 DEF ListsInv, s
  <2>2. CASE s = <<>>
    <3>1. N = 0 /\ t # <<>>
      BY <1>1, <1>2, <1>3, <1>4, <1>10, <2>2
    <3>2. 1 \in 1..Len(t) /\ N + 1 = 1
      BY <1>1, <1>3, <3>1
    <3>3. r[1] = t[1]
      BY <1>1, <3>2
    <3> QED BY <1>10, <3>1, <3>3
  <2> QED BY <2>1, <2>2
<1> QED BY <1>6, <1>8, <1>9, <1>10 DEF ListsInv

\* ... nor by packets that are no lists.
LEMMA ListsAmong ==
    ASSUME Shapes, ListsInv, NEW t \in Seq(Replies), toClient' = toClient \o t, UNCHANGED <<live, userlist_reply>>,
           \A k \in DOMAIN t : t[k].type # "list"
    PROVE  ListsInv'
<1>1. \A k \in DOMAIN t : \A n, m : t[k] # Part(m, n)
  BY PartsDiffer
<1>2. InOrder(t)
  BY <1>1 DEF InOrder
<1>3. t # <<>> => 1 \in DOMAIN t
  BY LenProperties, EmptySeq
<1> QED BY <1>1, <1>2, <1>3, ListsBehind

\* The first packet of an ordered wire is read.
LEMMA OrderTail ==
    ASSUME NEW s \in Seq(Replies), s # <<>>, InOrder(s)
    PROVE  InOrder(Tail(s))
<1> DEFINE t == Tail(s)
<1>1. /\ Len(s) \in Nat \ {0} /\ DOMAIN s = 1..Len(s) /\ Len(t) = Len(s) - 1 /\ DOMAIN t = 1..(Len(s) - 1)
      /\ \A i \in 1..(Len(s) - 1) : t[i] = s[i + 1]
  BY TailEntries
<1> HIDE DEF t
<1>2. ASSUME NEW k \in DOMAIN t, NEW n \in 1..MaxParts, NEW m \in 1..n, t[k] = Part(m, n)
      PROVE  /\ m < n => k < Len(t) /\ t[k + 1] = Part(m + 1, n)
             /\ m > 1 /\ k > 1 => t[k - 1] = Part(m - 1, n)
  <2>1. k \in 1..(Len(s) - 1) /\ k + 1 \in DOMAIN s /\ s[k + 1] = Part(m, n)
    BY <1>1, <1>2
  <2>2. /\ m < n => k + 1 < Len(s) /\ s[(k + 1) + 1] = Part(m + 1, n)
        /\ m > 1 /\ k + 1 > 1 => s[(k + 1) - 1] = Part(m - 1, n)
    BY <1>2, <2>1 DEF InOrder
  <2>3. m < n => k < Len(t) /\ t[k + 1] = Part(m + 1, n)
    <3> SUFFICES ASSUME m < n PROVE k < Len(t) /\ t[k + 1] = Part(m + 1, n)
      OBVIOUS
    <3>1. k + 1 \in 1..(Len(s) - 1) /\ k < Len(t)
      BY <1>1, <2>1, <2>2
    <3> QED BY <1>1, <2>2, <3>1
  <2>4. m > 1 /\ k > 1 => t[k - 1] = Part(m - 1, n)
    <3> SUFFICES ASSUME m > 1, k > 1 PROVE t[k - 1] = Part(m - 1, n)
      OBVIOUS
    <3>1. k - 1 \in 1..(Len(s) - 1) /\ (k - 1) + 1 = (k + 1) - 1 /\ k + 1 > 1
      BY <1>1, <2>1
    <3> QED BY <1>1, <2>2, <3>1
  <2> QED BY <2>3, <2>4
<1> QED BY <1>2 DEF InOrder, t

\* A packet that is no list finds none begun and leaves none begun.
LEMMA ListsSkip ==
    ASSUME Shapes, ListsInv, NEW type, type # "list", Receive(type), UNCHANGED live
    PROVE  userlist_reply = NULL /\ (userlist_reply' = NULL => ListsInv')
<1>1. /\ live /\ toClient # <<>> /\ Packet = toClient[1] /\ Packet.type = type
      /\ toClient \in Seq(Replies) /\ Len(toClient) \in Nat \ {0} /\ DOMAIN toClient = 1..Len(toClient)
      /\ toClient' = Tail(toClient) /\ toClient' \in Seq(Replies)
      /\ DOMAIN toClient' = 1..(Len(toClient) - 1) /\ (toClient' = <<>> <=> Len(toClient) = 1)
      /\ \A k \in 1..(Len(toClient) - 1) : toClient'[k] = toClient[k + 1]
  BY ReceiveFacts DEF Shapes
<1>2. \A n, m : toClient[1] # Part(m, n)
  BY <1>1, PartsDiffer
<1>3. userlist_reply = NULL /\ InOrder(toClient)
  BY <1>1, <1>2 DEF ListsInv, Begun
<1>4. InOrder(toClient')
  BY <1>1, <1>3, OrderTail
<1>5. ASSUME NEW n \in 1..MaxParts, NEW m \in 2..n, toClient' # <<>>, toClient'[1] = Part(m, n)
      PROVE  FALSE
  <2>1. 1 \in 1..(Len(toClient) - 1) /\ 2 \in 1..Len(toClient)
    BY <1>1, <1>5
  <2>2. toClient[2] = Part(m, n)
    BY <1>1, <1>5, <2>1
  <2>3. m \in 1..n /\ m > 1 /\ 2 \in DOMAIN toClient
    BY <1>1, <2>1, ConnectedAssumption
  <2>4. toClient[2 - 1] = Part(m - 1, n)
    BY <1>3, <2>2, <2>3 DEF InOrder
  <2> QED BY <1>2, <2>4
<1> QED BY <1>1, <1>3, <1>4, <1>5 DEF ListsInv

\* A part of a list goes to userlist_reply, or the whole list to the program.
LEMMA ListsRead ==
    ASSUME Shapes, ListsInv, WatchList
    PROVE  ListsInv' /\ ListIsWhole'
<1>1. /\ live /\ toClient # <<>> /\ Packet = toClient[1] /\ Packet.type = "list" /\ Packet \in Replies
      /\ toClient \in Seq(Replies) /\ Len(toClient) \in Nat \ {0} /\ DOMAIN toClient = 1..Len(toClient)
      /\ toClient' = Tail(toClient) /\ toClient' \in Seq(Replies)
      /\ DOMAIN toClient' = 1..(Len(toClient) - 1) /\ (toClient' = <<>> <=> Len(toClient) = 1)
      /\ \A k \in 1..(Len(toClient) - 1) : toClient'[k] = toClient[k + 1]
  BY ReceiveFacts DEF Shapes, WatchList
<1>2. live' /\ MaxParts \in Nat
  BY <1>1, ConnectedAssumption DEF WatchList, Quiet
<1>3. InOrder(toClient) /\ InOrder(toClient')
  BY <1>1, OrderTail DEF ListsInv
<1>4. Packet = EmptyList \/ \E n \in 1..MaxParts : \E m \in 1..n : Packet = Part(m, n)
  BY <1>1, ReplyForms DEF Lists
<1>5. Packet.last => /\ event' = [type |-> "USERLIST", kind |-> "GET_REPLY", reply |-> userlist_reply \o Packet.text]
                     /\ userlist_reply' = NULL
  BY DEF WatchList
<1>6. ~Packet.last => event' = NoEvent /\ userlist_reply' = userlist_reply \o Packet.text
  BY DEF WatchList
<1>7. CASE Packet = EmptyList
  <2>1. \A n, m : toClient[1] # Part(m, n)
    BY <1>1, <1>7, PartsDiffer
  <2>2. userlist_reply = NULL
    BY <1>1, <2>1 DEF ListsInv, Begun
  <2>3. Packet.last /\ Packet.text = <<>>
    BY <1>7 DEF EmptyList
  <2>4. userlist_reply \o Packet.text = <<>>
    BY <2>2, <2>3 DEF NULL
  <2>5. ListIsWhole'
    <3>1. event' = [type |-> "USERLIST", kind |-> "GET_REPLY", reply |-> <<>>]
      BY <1>5, <2>3, <2>4
    <3>2. event'.reply = <<>> /\ event'.kind = "GET_REPLY"
      BY <3>1
    <3>3. <<>> = [k \in 1..Len(<<>>) |-> [part |-> k, of |-> Len(<<>>)]]
      OBVIOUS
    <3> QED BY <3>2, <3>3 DEF ListIsWhole
  <2>6. ASSUME NEW n \in 1..MaxParts, NEW m \in 2..n, toClient' # <<>>, toClient'[1] = Part(m, n)
        PROVE  FALSE
    <3>1. 1 \in 1..(Len(toClient) - 1) /\ 2 \in DOMAIN toClient /\ m \in 1..n /\ m > 1
      BY <1>1, <1>2, <2>6
    <3>2. toClient[2] = Part(m, n)
      BY <1>1, <2>6, <3>1
    <3>3. toClient[2 - 1] = Part(m - 1, n)
      BY <1>3, <3>1, <3>2 DEF InOrder
    <3> QED BY <2>1, <3>3
  <2> QED BY <1>2, <1>3, <1>5, <2>3, <2>5, <2>6 DEF ListsInv
<1>8. ASSUME NEW n \in 1..MaxParts, NEW m \in 1..n, Packet = Part(m, n)
      PROVE  ListsInv' /\ ListIsWhole'
  <2>1. m \in Nat /\ n \in Nat /\ 1 <= m /\ m <= n /\ m - 1 \in Nat /\ (m - 1) + 1 = m
    BY <1>2
  <2>2. (Packet.last <=> m = n) /\ Packet.text = <<[part |-> m, of |-> n]>>
    BY <1>8 DEF Part
  <2>3. userlist_reply = PartsTo(m - 1, n)
    <3>1. CASE m = 1
      <4>1. ~Begun(toClient)
        <5> SUFFICES ASSUME NEW j \in 1..MaxParts, NEW l \in 2..j, toClient[1] = Part(l, j) PROVE FALSE
          BY DEF Begun
        <5>1. l = 1
          <6>1. Part(l, j) = Part(m, n)
            BY <1>1, <1>8
          <6> QED BY <3>1, <6>1, PartsDiffer
        <5> QED BY <5>1
      <4>2. userlist_reply = NULL
        BY <1>1, <4>1 DEF ListsInv
      <4>3. m - 1 = 0 /\ PartsTo(0, n) = NULL
        <5>1. 0 \in Nat
          OBVIOUS
        <5>2. PartsTo(0, n) = NULL
          BY <5>1, PartsAppend
        <5> QED BY <3>1, <5>2
      <4> QED BY <4>2, <4>3
    <3>2. CASE m > 1
      <4>1. m \in 2..n
        BY <2>1, <3>2
      <4> QED BY <1>1, <1>8, <4>1 DEF ListsInv
    <3> QED BY <2>1, <3>1, <3>2
  <2>4. userlist_reply \o Packet.text = PartsTo(m, n)
    <3>1. PartsTo(m - 1, n) \o <<[part |-> (m - 1) + 1, of |-> n]>> = PartsTo((m - 1) + 1, n)
      BY <2>1, PartsAppend
    <3> QED BY <2>1, <2>2, <2>3, <3>1
  <2>5. CASE m = n
    <3>1. event' = [type |-> "USERLIST", kind |-> "GET_REPLY", reply |-> PartsTo(n, n)] /\ userlist_reply' = NULL
      BY <1>5, <2>2, <2>4, <2>5
    <3>2. ListIsWhole'
      <4>1. event'.kind = "GET_REPLY" /\ event'.reply = PartsTo(n, n)
        BY <3>1
      <4>2. Len(PartsTo(n, n)) = n
        BY <2>1, PartsAppend
      <4> QED BY <4>1, <4>2 DEF ListIsWhole, PartsTo
    <3>3. ASSUME NEW j \in 1..MaxParts, NEW l \in 2..j, toClient' # <<>>, toClient'[1] = Part(l, j)
          PROVE  FALSE
      <4>1. 1 \in 1..(Len(toClient) - 1) /\ 2 \in DOMAIN toClient /\ l \in 1..j /\ l > 1
        BY <1>1, <1>2, <3>3
      <4>2. toClient[2] = Part(l, j)
        BY <1>1, <3>3, <4>1
      <4>3. toClient[2 - 1] = Part(l - 1, j)
        BY <1>3, <4>1, <4>2 DEF InOrder
      <4>4. l - 1 = m /\ j = n
        <5>1. Part(l - 1, j) = Part(m, n)
          <6>1. 2 - 1 = 1
            OBVIOUS
          <6> QED BY <1>1, <1>8, <4>3, <6>1
        <5> QED BY <5>1, PartsDiffer
      <4> QED BY <1>2, <2>5, <4>1, <4>4
    <3> QED BY <1>2, <1>3, <3>1, <3>2, <3>3 DEF ListsInv
  <2>6. CASE m < n
    <3>1. event' = NoEvent /\ userlist_reply' = PartsTo(m, n)
      BY <1>6, <2>1, <2>2, <2>4, <2>6
    <3>2. ListIsWhole'
      BY <3>1 DEF ListIsWhole, NoEvent
    <3>3. 1 < Len(toClient) /\ toClient[1 + 1] = Part(m + 1, n)
      <4>1. 1 \in DOMAIN toClient /\ toClient[1] = Part(m, n)
        BY <1>1, <1>8
      <4> QED BY <1>3, <2>6, <4>1 DEF InOrder
    <3>4. toClient' # <<>> /\ toClient'[1] = Part(m + 1, n) /\ m + 1 \in 2..n
      BY <1>1, <2>1, <2>6, <3>3
    <3>5. ASSUME NEW j \in 1..MaxParts, NEW l \in 2..j, toClient'[1] = Part(l, j)
          PROVE  userlist_reply' = PartsTo(l - 1, j)
      <4>1. l = m + 1 /\ j = n
        BY <3>4, <3>5, PartsDiffer
      <4> QED BY <2>1, <3>1, <4>1
    <3> QED BY <1>2, <1>3, <3>1, <3>2, <3>4, <3>5 DEF ListsInv, Begun
  <2> QED BY <2>1, <2>5, <2>6
<1> QED BY <1>4, <1>7, <1>8

\* In a new session no list is on its way.
LEMMA ListsInit == Init => ListsInv
<1> SUFFICES ASSUME Init PROVE ListsInv
  OBVIOUS
<1>1. toClient = <<>> /\ userlist_reply = NULL
  BY DEF Init
<1> QED BY <1>1 DEF ListsInv, InOrder

\* Only WatchPutReply and WatchList report a transfer.
LEMMA ListsStep ==
    ASSUME Shapes, ListsInv, ListIsWhole, [Next]_vars
    PROVE  ListsInv' /\ ListIsWhole'
<1>1. CASE UNCHANGED vars
  BY <1>1 DEF vars, sessVars, wireVars, ListsInv, ListIsWhole, InOrder, Begun
<1>2. CASE Request
  <2>1. UNCHANGED <<live, toClient, event, userlist_reply>>
    BY <1>2, RequestFacts
  <2> QED BY <2>1 DEF ListsInv, ListIsWhole, InOrder, Begun
<1>3. CASE FreeSession
  <2>1. ~live' /\ event' = NoEvent
    BY <1>3, Zenon DEF FreeSession
  <2> QED BY <2>1 DEF ListsInv, ListIsWhole, NoEvent
<1>4. CASE Watch
  <2>1. CASE WatchList
    BY <2>1, ListsRead
  <2>2. ASSUME NEW type, type # "list", Receive(type), Quiet, userlist_reply' = userlist_reply \/ userlist_reply' = NULL
        PROVE  ListsInv' /\ userlist_reply = NULL
    <3>1. UNCHANGED live
      BY <2>2 DEF Quiet
    <3>2. userlist_reply = NULL /\ (userlist_reply' = NULL => ListsInv')
      BY <2>2, <3>1, ListsSkip
    <3> QED BY <2>2, <3>2
  <2>3. CASE WatchMsg
    BY <2>2, <2>3 DEF WatchMsg, ListIsWhole, NoEvent
  <2>4. CASE WatchNotify
    BY <2>2, <2>4 DEF WatchNotify, ListIsWhole
  <2>5. CASE WatchAck
    <3>1. PICK type \in {"ACK", "PONG"} : Receive(type) /\ event' = Packet /\ Quiet /\ UNCHANGED userlist_reply
      BY <2>5 DEF WatchAck
    <3>2. Packet.type = type
      BY <3>1, ReceiveFacts
    <3>3. event'.type # "USERLIST"
      BY <3>1, <3>2
    <3> QED BY <2>2, <3>1, <3>3 DEF ListIsWhole
  <2>6. CASE WatchPubdir
    BY <2>2, <2>6 DEF WatchPubdir, ListIsWhole
  <2>7. CASE WatchNoImage
    BY <2>2, <2>7 DEF WatchNoImage, ListIsWhole
  <2>8. CASE WatchPiece
    <3>1. Receive("piece") /\ Quiet /\ UNCHANGED userlist_reply
      BY <2>8, PieceFacts
    <3>2. event'.type # "USERLIST"
      BY <2>8, PieceFacts DEF NoEvent
    <3> QED BY <2>2, <3>1, <3>2 DEF ListIsWhole
  <2>9. CASE WatchPutReply
    <3>1. Receive("put_reply") /\ Quiet /\ (userlist_reply' = userlist_reply \/ userlist_reply' = NULL)
      BY <2>9 DEF WatchPutReply
    <3>2. ListsInv' /\ userlist_reply = NULL
      BY <2>2, <3>1
    <3>3. \/ event' = NoEvent
          \/ event' = [type |-> "USERLIST", kind |-> "PUT_REPLY", reply |-> NULL]
      BY <2>9, <3>2 DEF WatchPutReply
    <3> QED BY <3>2, <3>3 DEF ListIsWhole, NoEvent
  <2>10. CASE WatchBroken
    <3>1. UNCHANGED <<live, toClient, userlist_reply>> /\ event' = [type |-> "NULL"]
      BY <2>10 DEF WatchBroken, Quiet
    <3> QED BY <3>1 DEF ListsInv, ListIsWhole, InOrder, Begun
  <2> QED BY <1>4, <2>1, <2>3, <2>4, <2>5, <2>6, <2>7, <2>8, <2>9, <2>10 DEF Watch
<1>5. CASE Serve
  <2>1. UNCHANGED <<live, userlist_reply, event>>
    BY <1>5, ServeFacts DEF sessVars
  <2>2. PICK t \in Seq(Replies) :
           /\ toClient' = toClient \o t
           /\ \/ t = <<EmptyList>>
              \/ \E n \in 1..MaxParts : t = ListParts(n)
              \/ \E r : t = <<r>> /\ r.type # "list"
              \/ t = <<>>
    <3>1. [type |-> "put_reply"].type # "list"
      OBVIOUS
    <3>2. ASSUME NEW r, r.type \in {"PONG", "ACK", "found"} PROVE r.type # "list"
      BY <3>2
    <3> QED BY <1>5, <3>1, <3>2, ServeFacts
  <2>3. CASE t = <<EmptyList>>
    <3>1. \A n, m : t[1] # Part(m, n)
      BY <2>3, PartsDiffer
    <3>2. DOMAIN t = {1}
      BY <2>3
    <3>3. InOrder(t)
      BY <3>1, <3>2 DEF InOrder
    <3> QED BY <2>1, <2>2, <3>1, <3>3, ListsBehind DEF ListIsWhole
  <2>4. ASSUME NEW n \in 1..MaxParts, t = ListParts(n) PROVE ListsInv' /\ ListIsWhole'
    <3>1. n \in Nat \ {0} /\ MaxParts \in Nat
      BY ConnectedAssumption
    <3>2. DOMAIN t = 1..n /\ Len(t) = n /\ \A k \in 1..n : t[k] = Part(k, n)
      BY <2>4, <3>1 DEF ListParts, Part
    <3>3. ASSUME NEW k \in DOMAIN t, NEW j \in 1..MaxParts, NEW m \in 1..j, t[k] = Part(m, j)
          PROVE  /\ m < j => k < Len(t) /\ t[k + 1] = Part(m + 1, j)
                 /\ m > 1 /\ k > 1 => t[k - 1] = Part(m - 1, j)
      <4>1. Part(k, n) = Part(m, j) /\ k \in 1..n
        BY <3>2, <3>3
      <4>2. k = m /\ n = j
        BY <4>1, PartsDiffer
      <4>3. k < n => k + 1 \in 1..n
        BY <3>1, <4>1
      <4>4. k > 1 => k - 1 \in 1..n
        BY <3>1, <4>1
      <4> QED BY <3>2, <4>1, <4>2, <4>3, <4>4
    <3>4. InOrder(t)
      BY <3>3 DEF InOrder
    <3>5. ASSUME NEW j \in 1..MaxParts, NEW m \in 2..j, t[1] = Part(m, j) PROVE FALSE
      <4>1. Part(1, n) = Part(m, j)
        BY <3>1, <3>2, <3>5
      <4>2. m = 1
        BY <4>1, PartsDiffer
      <4> QED BY <3>1, <4>2
    <3> QED BY <2>1, <2>2, <3>4, <3>5, ListsBehind DEF ListIsWhole
  <2>5. CASE (\E r : t = <<r>> /\ r.type # "list") \/ t = <<>>
    <3>1. \A k \in DOMAIN t : t[k].type # "list"
      BY <2>5
    <3> QED BY <2>1, <2>2, <3>1, ListsAmong DEF ListIsWhole
  <2> QED BY <2>2, <2>3, <2>4, <2>5
<1>6. ASSUME NEW p \in Replies, p.type # "list", ToClient(p) PROVE ListsInv' /\ ListIsWhole'
  <2>1. <<p>> \in Seq(Replies) /\ toClient' = toClient \o <<p>> /\ UNCHANGED <<live, userlist_reply, event>>
    BY <1>6, PeerFacts DEF sessVars
  <2>2. \A k \in DOMAIN <<p>> : <<p>>[k].type # "list"
    BY <1>6
  <2> QED BY <2>1, <2>2, ListsAmong DEF ListIsWhole
<1>7. ASSUME NEW i \in Images, PeerSends(i) PROVE ListsInv' /\ ListIsWhole'
  <2>1. \E p \in Pieces : ToClient(p)
    BY <1>7, SendsFacts
  <2>2. \A p \in Pieces : p \in Replies /\ p.type = "piece"
    BY DEF Replies, Pieces
  <2> QED BY <1>6, <2>1, <2>2
<1>8. ASSUME NEW i \in Images, PeerRefuses(i) PROVE ListsInv' /\ ListIsWhole'
  <2>1. [type |-> "image_empty", image |-> i] \in Replies
    BY DEF Replies
  <2> QED BY <1>6, <1>8, <2>1 DEF PeerRefuses
<1>9. ASSUME NEW u \in Uins, PeerBreaks(u) PROVE ListsInv' /\ ListIsWhole'
  BY <1>9 DEF PeerBreaks, sessVars, wireVars, ListsInv, ListIsWhole, InOrder, Begun
<1>10. CASE Chatter
  BY <1>6, <1>10, ChatterFacts
<1>11. CASE Hangup
  BY <1>11 DEF Hangup, sessVars, ListsInv, ListIsWhole, InOrder, Begun
<1> QED BY <1>1, <1>2, <1>3, <1>4, <1>5, <1>7, <1>8, <1>9, <1>10, <1>11 DEF Next, PeerNext

--------------------------------------------------------------------------------
(***************************************************************************)
(* Exports.  While no other transfer is asked for, userlist_blocks is the  *)
(* number of packets of the export that have not been answered, on their   *)
(* way to the server or as answers on their way back.                      *)
(***************************************************************************)
Put == {[type |-> "put"]}
PutReply == {[type |-> "put_reply"]}
Puts == Count(toServer, Put) + Count(toClient, PutReply)

PutsInv == clean => live /\ userlist_blocks = Puts /\ reported = IF Puts = 0 THEN 1 ELSE 0

\* What is on its way is finite, and counted whenever it is there.
LEMMA PutsFacts ==
    ASSUME Shapes
    PROVE  /\ Count(toServer, Put) \in Nat /\ Count(toClient, PutReply) \in Nat /\ Puts \in Nat
           /\ PutsOwed <=> Puts # 0
<1>1. /\ toServer \in Seq(Requests) /\ toClient \in Seq(Replies)
      /\ \A k \in DOMAIN toServer : toServer[k] \in Requests
      /\ \A k \in DOMAIN toClient : toClient[k] \in Replies
  BY ElementOfSeq, LenProperties DEF Shapes
<1>2. /\ Count(toServer, Put) \in Nat
      /\ Count(toServer, Put) = 0 <=> \A k \in DOMAIN toServer : toServer[k] \notin Put
  BY <1>1, WhereFinite
<1>3. /\ Count(toClient, PutReply) \in Nat
      /\ Count(toClient, PutReply) = 0 <=> \A k \in DOMAIN toClient : toClient[k] \notin PutReply
  BY <1>1, WhereFinite
<1>4. \A k \in DOMAIN toServer : toServer[k] \in Put <=> toServer[k].type \in {"put", "put_reply"}
  <2> TAKE k \in DOMAIN toServer
  <2>1. toServer[k] \in Requests
    BY <1>1
  <2>2. toServer[k].type = "put" => toServer[k] \in Put
    BY <2>1, RequestForms DEF Put
  <2>3. toServer[k].type # "put_reply"
    BY <2>1 DEF Requests
  <2> QED BY <2>2, <2>3 DEF Put
<1>5. \A k \in DOMAIN toClient : toClient[k] \in PutReply <=> toClient[k].type \in {"put", "put_reply"}
  <2> TAKE k \in DOMAIN toClient
  <2>1. toClient[k] \in Replies
    BY <1>1
  <2>2. toClient[k].type = "put_reply" => toClient[k] \in PutReply
    BY <2>1, ReplyForms DEF PutReply
  <2>3. toClient[k].type # "put"
    BY <2>1, PartsDiffer DEF Replies, Pieces, Lists
  <2> QED BY <2>2, <2>3 DEF PutReply
<1>6. PutsOwed <=> \/ \E k \in DOMAIN toServer : toServer[k] \in Put
                   \/ \E k \in DOMAIN toClient : toClient[k] \in PutReply
  BY <1>4, <1>5 DEF PutsOwed
<1>7. Puts = 0 <=> Count(toServer, Put) = 0 /\ Count(toClient, PutReply) = 0
  BY <1>2, <1>3 DEF Puts
<1> QED BY <1>2, <1>3, <1>6, <1>7 DEF Puts

\* Packets of other kinds are not counted.
LEMMA PutsSent ==
    ASSUME Shapes, NEW t \in Seq(Requests), \A k \in DOMAIN t : t[k].type # "put"
    PROVE  Count(toServer \o t, Put) = Count(toServer, Put)
<1>1. Count(t, Put) = 0
  BY WhereFinite DEF Put
<1>2. Count(toServer \o t, Put) = Count(toServer, Put) + Count(t, Put)
  BY CountConcat DEF Shapes
<1> QED BY <1>1, <1>2, PutsFacts

\* Replies of other kinds are not counted.
LEMMA PutsReplied ==
    ASSUME Shapes, NEW t \in Seq(Replies), \A k \in DOMAIN t : t[k].type # "put_reply"
    PROVE  Count(toClient \o t, PutReply) = Count(toClient, PutReply)
<1>1. Count(t, PutReply) = 0
  BY WhereFinite DEF PutReply
<1>2. Count(toClient \o t, PutReply) = Count(toClient, PutReply) + Count(t, PutReply)
  BY CountConcat DEF Shapes
<1> QED BY <1>1, <1>2, PutsFacts

\* A new session has no export.
LEMMA PutsInit == Init => PutsInv
<1> SUFFICES ASSUME Init, clean PROVE FALSE
  BY DEF PutsInv
<1>1. ~clean
  BY Zenon DEF Init
<1> QED BY <1>1

\* A request either is an export, which counts its packets anew, or ends the
\* claim about the last one, or sends none.
LEMMA PutsRequest ==
    ASSUME Shapes, PutsInv, Request
    PROVE  PutsInv'
<1>1. PICK packets \in Seq(Requests) :
         /\ live /\ UNCHANGED <<program, live, link, toClient, peerVars, event, userlist_reply>>
         /\ toServer' = IF link = "up" THEN toServer \o packets ELSE toServer
         /\ \/ /\ \A k \in DOMAIN packets : packets[k].type \notin {"put", "image"}
               /\ UNCHANGED <<images, userlist_blocks, clean, reported>>
            \/ ImportList /\ packets = <<[type |-> "get"]>> /\ UNCHANGED images
            \/ \E n \in ListLengths : \E p \in Nat \ {0} :
                  ExportList(n) /\ packets = [k \in 1..p |-> [type |-> "put"]] /\ UNCHANGED images
                    /\ userlist_blocks' = p
            \/ \E i \in Images : /\ ImageRequest(i) /\ packets = <<[type |-> "image", image |-> i]>>
                                 /\ UNCHANGED <<userlist_blocks, clean, reported>>
  BY RequestFacts
<1>2. ASSUME \A k \in DOMAIN packets : packets[k].type # "put", UNCHANGED <<userlist_blocks, clean, reported>>
      PROVE  PutsInv'
  <2>1. Puts' = Puts
    BY <1>1, <1>2, PutsSent DEF Puts
  <2> QED BY <1>1, <1>2, <2>1 DEF PutsInv
<1>3. CASE ImportList
  <2>1. ~clean'
    BY <1>3, Zenon DEF ImportList
  <2> QED BY <2>1 DEF PutsInv
<1>4. ASSUME NEW n \in ListLengths, NEW p \in Nat \ {0},
             ExportList(n), packets = [k \in 1..p |-> [type |-> "put"]], userlist_blocks' = p
      PROVE  PutsInv'
  <2> SUFFICES ASSUME clean' PROVE live' /\ userlist_blocks' = Puts' /\ reported' = IF Puts' = 0 THEN 1 ELSE 0
    BY DEF PutsInv
  <2>1. link = "up" /\ ~ListsOwed /\ reported' = 0
    BY <1>4 DEF ExportList
  <2>2. ~PutsOwed
    BY <2>1 DEF ListsOwed, PutsOwed
  <2>3. Count(toServer, Put) = 0 /\ Count(toClient, PutReply) = 0
    BY <2>2, PutsFacts DEF Puts
  <2>4. Count(packets, Put) = p
    <3>1. Where(packets, Put) = 1..p
      BY <1>4 DEF Where, Put
    <3>2. Cardinality(1..p) = p
      <4>1. p \in Nat /\ p > 0
        OBVIOUS
      <4> QED BY <4>1, FS_Interval
    <3> QED BY <3>1, <3>2 DEF Count
  <2>5. Count(toServer', Put) = p
    <3>1. Count(toServer \o packets, Put) = Count(toServer, Put) + Count(packets, Put)
      BY CountConcat DEF Shapes
    <3>2. toServer' = toServer \o packets
      BY <1>1, <2>1
    <3> QED BY <2>3, <2>4, <3>1, <3>2
  <2>6. Puts' = p
    BY <1>1, <2>3, <2>5 DEF Puts
  <2> QED BY <1>1, <1>4, <2>1, <2>6
<1>5. ASSUME NEW i \in Images, packets = <<[type |-> "image", image |-> i]>>
      PROVE  \A k \in DOMAIN packets : packets[k].type # "put"
  BY <1>5
<1> QED BY <1>1, <1>2, <1>3, <1>4, <1>5

\* Every answer that is read counts down once; the last one is reported.
LEMMA PutsWatch ==
    ASSUME Shapes, PutsInv, Watch
    PROVE  PutsInv'
<1>1. UNCHANGED <<live, toServer, clean>>
  BY DEF Watch, WatchMsg, WatchNotify, WatchAck, WatchPubdir, WatchNoImage, WatchPiece, WatchPutReply,
         WatchList, WatchBroken, Quiet
<1>2. ASSUME NEW type, Receive(type)
      PROVE  Count(toClient, PutReply) = Count(toClient', PutReply) + IF type = "put_reply" THEN 1 ELSE 0
  <2>1. /\ toClient \in Seq(Replies) /\ toClient # <<>> /\ toClient' = Tail(toClient)
        /\ toClient[1] = Packet /\ Packet.type = type /\ Packet \in Replies
    BY <1>2, ReceiveFacts DEF Shapes
  <2>2. toClient[1] \in PutReply <=> type = "put_reply"
    BY <2>1, ReplyForms DEF PutReply
  <2> QED BY <2>1, <2>2, CountTail
<1>3. Count(toClient', PutReply) \in Nat /\ Count(toServer', Put) \in Nat
  <2>1. toServer' \in Seq(Requests) /\ toClient' \in Seq(Replies)
    BY ShapesWatch DEF Shapes
  <2> QED BY <2>1, WhereFinite
<1>4. CASE WatchPutReply
  <2> SUFFICES ASSUME clean PROVE live' /\ userlist_blocks' = Puts' /\ reported' = IF Puts' = 0 THEN 1 ELSE 0
    BY <1>1 DEF PutsInv
  <2>1. Puts = Puts' + 1
    BY <1>1, <1>2, <1>3, <1>4 DEF WatchPutReply, Puts
  <2>2. Puts' \in Nat
    BY <1>3 DEF Puts
  <2>3. live /\ userlist_blocks = Puts /\ reported = 0
    <3>1. live /\ userlist_blocks = Puts /\ reported = IF Puts = 0 THEN 1 ELSE 0
      BY DEF PutsInv
    <3>2. ASSUME NEW a, NEW b \in Nat, a = b + 1 PROVE a # 0
      BY <3>2
    <3>3. Puts # 0
      BY <2>1, <2>2, <3>2
    <3> QED BY <3>1, <3>3
  <2>4. userlist_blocks' = Puts'
    <3>1. userlist_blocks' = userlist_blocks - 1
      BY <1>4 DEF WatchPutReply
    <3>2. ASSUME NEW a, NEW b \in Nat, a = b + 1 PROVE a - 1 = b
      BY <3>2
    <3> QED BY <2>1, <2>2, <2>3, <3>1, <3>2
  <2>5. reported' = IF userlist_blocks' = 0 THEN reported + 1 ELSE reported
    BY <1>4 DEF WatchPutReply
  <2> QED BY <1>1, <2>3, <2>4, <2>5
<1>5. ASSUME NEW type, Receive(type), type # "put_reply", UNCHANGED <<userlist_blocks, reported>> PROVE PutsInv'
  <2>1. Puts' = Puts
    BY <1>1, <1>2, <1>3, <1>5 DEF Puts
  <2> QED BY <1>1, <1>5, <2>1 DEF PutsInv
<1>6. CASE WatchBroken
  <2>1. UNCHANGED <<toClient, userlist_blocks, reported>>
    BY <1>6 DEF WatchBroken
  <2> QED BY <1>1, <2>1 DEF PutsInv, Puts
<1>7. CASE WatchMsg
  BY <1>5, <1>7 DEF WatchMsg
<1>8. CASE WatchNotify
  BY <1>5, <1>8 DEF WatchNotify
<1>9. CASE WatchAck
  BY <1>5, <1>9 DEF WatchAck
<1>10. CASE WatchPubdir
  BY <1>5, <1>10 DEF WatchPubdir
<1>11. CASE WatchNoImage
  BY <1>5, <1>11 DEF WatchNoImage
<1>12. CASE WatchPiece
  BY <1>5, <1>12, PieceFacts
<1>13. CASE WatchList
  BY <1>5, <1>13 DEF WatchList
<1> QED BY <1>4, <1>6, <1>7, <1>8, <1>9, <1>10, <1>11, <1>12, <1>13 DEF Watch

\* The server answers every packet of an export once.
LEMMA PutsServe ==
    ASSUME Shapes, PutsInv, Serve
    PROVE  PutsInv'
<1>1. /\ toServer # <<>> /\ toServer' = Tail(toServer) /\ toServer[1] \in Requests
      /\ UNCHANGED <<live, userlist_blocks, clean, reported>>
  BY ServeFacts DEF sessVars, histVars
<1>2. Count(toServer, Put) = Count(toServer', Put) + IF toServer[1].type = "put" THEN 1 ELSE 0
  <2>1. toServer[1] \in Put <=> toServer[1].type = "put"
    BY <1>1, RequestForms DEF Put
  <2> QED BY <1>1, <2>1, CountTail DEF Shapes
<1>3. Shapes'
  BY ShapesServe
<1>4. Count(toClient', PutReply) \in Nat /\ Count(toServer', Put) \in Nat
  <2>1. toServer' \in Seq(Requests) /\ toClient' \in Seq(Replies)
    BY <1>3 DEF Shapes
  <2> QED BY <2>1, WhereFinite
<1>5. PICK t \in Seq(Replies) :
         /\ toClient' = toClient \o t
         /\ \/ toServer[1].type = "put" /\ t = <<[type |-> "put_reply"]>>
            \/ toServer[1].type # "put" /\ \A k \in DOMAIN t : t[k].type # "put_reply"
  <2>1. \A k \in DOMAIN <<EmptyList>> : <<EmptyList>>[k].type # "put_reply"
    BY DEF EmptyList
  <2>2. ASSUME NEW n \in 1..MaxParts PROVE \A k \in DOMAIN ListParts(n) : ListParts(n)[k].type # "put_reply"
    BY DEF ListParts
  <2>3. ASSUME NEW r, r.type \in {"PONG", "ACK", "found"} PROVE \A k \in DOMAIN <<r>> : <<r>>[k].type # "put_reply"
    BY <2>3
  <2>4. DOMAIN <<>> = {}
    OBVIOUS
  <2> QED BY <2>1, <2>2, <2>3, <2>4, ServeFacts
<1>6. CASE toServer[1].type = "put" /\ t = <<[type |-> "put_reply"]>>
  <2>1. Count(t, PutReply) = 1
    BY <1>6, CountOne DEF PutReply
  <2>2. Count(toClient', PutReply) = Count(toClient, PutReply) + 1
    BY <1>5, <2>1, CountConcat DEF Shapes
  <2>3. Puts' = Puts
    BY <1>2, <1>4, <1>6, <2>2, PutsFacts DEF Puts
  <2> QED BY <1>1, <2>3 DEF PutsInv
<1>7. CASE toServer[1].type # "put" /\ \A k \in DOMAIN t : t[k].type # "put_reply"
  <2>1. Count(toClient', PutReply) = Count(toClient, PutReply)
    BY <1>5, <1>7, PutsReplied
  <2>2. Puts' = Puts
    BY <1>2, <1>4, <1>7, <2>1 DEF Puts
  <2> QED BY <1>1, <2>2 DEF PutsInv
<1> QED BY <1>5, <1>6, <1>7

\* Every step keeps the count of an export.
LEMMA PutsStep ==
    ASSUME Shapes, PutsInv, [Next]_vars
    PROVE  PutsInv'
<1>1. CASE UNCHANGED vars
  BY <1>1 DEF vars, sessVars, wireVars, histVars, PutsInv, Puts
<1>2. ASSUME ~clean' PROVE PutsInv'
  BY <1>2 DEF PutsInv
<1>3. CASE FreeSession
  <2>1. ~clean'
    BY <1>3, Zenon DEF FreeSession
  <2> QED BY <1>2, <2>1
<1>4. CASE Hangup
  <2>1. ~clean'
    BY <1>4, Zenon DEF Hangup
  <2> QED BY <1>2, <2>1
<1>5. ASSUME NEW p \in Replies, p.type # "put_reply", ToClient(p) PROVE PutsInv'
  <2>1. /\ <<p>> \in Seq(Replies) /\ toClient' = toClient \o <<p>>
        /\ UNCHANGED <<live, toServer, userlist_blocks, clean, reported>>
    BY <1>5, PeerFacts DEF sessVars, histVars
  <2>2. \A k \in DOMAIN <<p>> : <<p>>[k].type # "put_reply"
    BY <1>5
  <2>3. Puts' = Puts
    BY <2>1, <2>2, PutsReplied DEF Puts
  <2> QED BY <2>1, <2>3 DEF PutsInv
<1>6. ASSUME NEW i \in Images, PeerSends(i) PROVE PutsInv'
  <2>1. \E p \in Pieces : ToClient(p)
    BY <1>6, SendsFacts
  <2>2. \A p \in Pieces : p \in Replies /\ p.type = "piece"
    BY DEF Replies, Pieces
  <2> QED BY <1>5, <2>1, <2>2
<1>7. ASSUME NEW i \in Images, PeerRefuses(i) PROVE PutsInv'
  <2>1. [type |-> "image_empty", image |-> i] \in Replies
    BY DEF Replies
  <2> QED BY <1>5, <1>7, <2>1 DEF PeerRefuses
<1>8. ASSUME NEW u \in Uins, PeerBreaks(u) PROVE PutsInv'
  BY <1>8 DEF PeerBreaks, sessVars, wireVars, histVars, PutsInv, Puts
<1>9. CASE Chatter
  BY <1>5, <1>9, ChatterFacts
<1> QED BY <1>1, <1>3, <1>4, <1>6, <1>7, <1>8, <1>9, PutsRequest, PutsWatch, PutsServe DEF Next, PeerNext

\* An export that no other transfer overlaps is reported when the last of its
\* packets has been answered, and not before.
LEMMA PutsReported == ASSUME Shapes, PutsInv PROVE ExportReported
<1>1. PutsOwed <=> Puts # 0
  BY PutsFacts
<1> QED BY <1>1 DEF PutsInv, ExportReported

--------------------------------------------------------------------------------
(***************************************************************************)
(* R says what a packet does to the state of the one that reads it, as     *)
(* triples of the state before, the packet and the state after.  The       *)
(* packets of s, one after the other, take a reader from a to b.           *)
(***************************************************************************)
Leads(R, a, s, b) ==
    \E w : w[0] = a /\ w[Len(s)] = b /\ \A k \in 1..Len(s) : <<w[k - 1], s[k], w[k]>> \in R

\* One way after the other.
LEMMA LeadsOn ==
    ASSUME NEW R, NEW S, NEW s \in Seq(S), NEW t \in Seq(S), NEW a, NEW b, NEW c,
           Leads(R, a, s, b), Leads(R, b, t, c)
    PROVE  Leads(R, a, s \o t, c)
<1>1. PICK v : v[0] = a /\ v[Len(s)] = b /\ \A k \in 1..Len(s) : <<v[k - 1], s[k], v[k]>> \in R
  BY DEF Leads
<1>2. PICK w : w[0] = b /\ w[Len(t)] = c /\ \A k \in 1..Len(t) : <<w[k - 1], t[k], w[k]>> \in R
  BY DEF Leads
<1> DEFINE n == Len(s)
           x == [k \in 0..(n + Len(t)) |-> IF k <= n THEN v[k] ELSE w[k - n]]
<1>3. /\ n \in Nat /\ Len(t) \in Nat /\ Len(s \o t) = n + Len(t)
      /\ \A i \in 1..n : (s \o t)[i] = s[i]
      /\ \A i \in 1..Len(t) : (s \o t)[n + i] = t[i]
  BY ConcatEntries
<1> HIDE DEF n
<1>4. /\ \A k \in 0..n : x[k] = v[k]
      /\ \A k \in 0..Len(t) : x[n + k] = w[k]
  <2>1. ASSUME NEW k \in 0..n PROVE x[k] = v[k]
    BY <1>3
  <2>2. ASSUME NEW k \in 0..Len(t) PROVE x[n + k] = w[k]
    <3>1. CASE k = 0
      <4>1. n + k = n /\ n \in 0..(n + Len(t)) /\ n <= n
        BY <1>3, <3>1
      <4> QED BY <1>1, <1>2, <3>1, <4>1 DEF n
    <3>2. CASE k # 0
      <4>1. n + k \in 0..(n + Len(t)) /\ ~((n + k) <= n) /\ (n + k) - n = k
        BY <1>3, <3>2
      <4> DEFINE j == n + k
      <4>2. j \in 0..(n + Len(t)) /\ ~(j <= n) /\ j - n = k
        BY <4>1
      <4> HIDE DEF j
      <4>3. x[j] = w[j - n]
        BY <4>2
      <4> QED BY <4>2, <4>3 DEF j
    <3> QED BY <3>1, <3>2
  <2> QED BY <2>1, <2>2
<1> HIDE DEF x
<1>5. x[0] = a /\ x[Len(s \o t)] = c
  <2>1. 0 \in 0..n /\ Len(t) \in 0..Len(t)
    BY <1>3
  <2> QED BY <1>1, <1>2, <1>3, <1>4, <2>1
<1>6. ASSUME NEW k \in 1..Len(s \o t) PROVE <<x[k - 1], (s \o t)[k], x[k]>> \in R
  <2>1. CASE k <= n
    <3>1. k \in 1..n /\ k \in 0..n /\ k - 1 \in 0..n
      BY <1>3, <2>1
    <3>2. <<v[k - 1], s[k], v[k]>> \in R
      BY <1>1, <3>1 DEF n
    <3> QED BY <1>3, <1>4, <3>1, <3>2
  <2>2. CASE ~(k <= n)
    <3>1. PICK j \in 1..Len(t) : k = n + j
      <4>1. k - n \in 1..Len(t) /\ k = n + (k - n)
        BY <1>3, <2>2
      <4> QED BY <4>1
    <3>2. j \in 0..Len(t) /\ j - 1 \in 0..Len(t) /\ k - 1 = n + (j - 1)
      BY <1>3, <3>1
    <3>3. <<w[j - 1], t[j], w[j]>> \in R
      BY <1>2, <3>1
    <3> QED BY <1>3, <1>4, <3>1, <3>2, <3>3
  <2> QED BY <2>1, <2>2
<1> QED BY <1>5, <1>6 DEF Leads

\* The server has taken one packet.
LEMMA LeadsTail ==
    ASSUME NEW R, NEW S, NEW s \in Seq(S), s # <<>>, NEW a, NEW b, Leads(R, a, s, b)
    PROVE  \E c : <<a, s[1], c>> \in R /\ Leads(R, c, Tail(s), b)
<1>1. PICK v : v[0] = a /\ v[Len(s)] = b /\ \A k \in 1..Len(s) : <<v[k - 1], s[k], v[k]>> \in R
  BY DEF Leads
<1> DEFINE n == Len(s)
           x == [k \in 0..(n - 1) |-> v[k + 1]]
<1>2. /\ n \in Nat \ {0} /\ Len(Tail(s)) = n - 1 /\ \A i \in 1..(n - 1) : Tail(s)[i] = s[i + 1]
  BY TailEntries
<1> HIDE DEF n
<1>3. <<a, s[1], x[0]>> \in R
  <2>1. 1 \in 1..n /\ 0 \in 0..(n - 1) /\ 1 - 1 = 0 /\ 0 + 1 = 1
    BY <1>2
  <2>2. <<v[0], s[1], v[1]>> \in R
    BY <1>1, <2>1 DEF n
  <2>3. x[0] = v[1]
    BY <2>1
  <2> QED BY <1>1, <2>2, <2>3
<1>4. x[Len(Tail(s))] = b
  <2>1. n - 1 \in 0..(n - 1) /\ n - 1 + 1 = n
    BY <1>2
  <2> QED BY <1>1, <1>2, <2>1 DEF n
<1>5. ASSUME NEW k \in 1..Len(Tail(s)) PROVE <<x[k - 1], Tail(s)[k], x[k]>> \in R
  <2>1. /\ k \in 1..(n - 1) /\ k \in 0..(n - 1) /\ k - 1 \in 0..(n - 1) /\ k + 1 \in 1..n
        /\ k + 1 - 1 = k /\ k - 1 + 1 = k
    BY <1>2
  <2>2. <<v[k], s[k + 1], v[k + 1]>> \in R
    <3>1. <<v[k + 1 - 1], s[k + 1], v[k + 1]>> \in R
      BY <1>1, <2>1 DEF n
    <3> QED BY <2>1, <3>1
  <2>3. x[k] = v[k + 1] /\ x[k - 1] = v[k]
    BY <2>1
  <2> HIDE DEF x
  <2> QED BY <1>2, <2>1, <2>2, <2>3
<1> HIDE DEF x
<1> QED BY <1>3, <1>4, <1>5 DEF Leads

\* No packet, one packet, and packets that say nothing of contacts or status.
LEMMA LeadsNowhere ==
    ASSUME NEW R, NEW S, NEW s \in Seq(S), NEW a, \A k \in DOMAIN s : <<a, s[k], a>> \in R
    PROVE  Leads(R, a, s, a)
<1> DEFINE x == [k \in 0..Len(s) |-> a]
<1>1. Len(s) \in Nat /\ DOMAIN s = 1..Len(s)
  BY LenProperties
<1>2. \A k \in 0..Len(s) : x[k] = a
  OBVIOUS
<1>3. 0 \in 0..Len(s) /\ Len(s) \in 0..Len(s) /\ \A k \in 1..Len(s) : k \in 0..Len(s) /\ k - 1 \in 0..Len(s)
  BY <1>1
<1> HIDE DEF x
<1>4. \A k \in 1..Len(s) : <<x[k - 1], s[k], x[k]>> \in R
  BY <1>1, <1>2, <1>3
<1> QED BY <1>2, <1>3, <1>4 DEF Leads

\* One packet.
LEMMA LeadsOne ==
    ASSUME NEW R, NEW a, NEW p, NEW b, <<a, p, b>> \in R
    PROVE  Leads(R, a, <<p>>, b)
<1> DEFINE x == [k \in 0..1 |-> IF k = 0 THEN a ELSE b]
<1>1. x[0] = a /\ x[1] = b
  OBVIOUS
<1>2. Len(<<p>>) = 1 /\ <<p>>[1] = p
  OBVIOUS
<1> HIDE DEF x
<1>3. \A k \in 1..1 : <<x[k - 1], <<p>>[k], x[k]>> \in R
  <2> SUFFICES <<x[1 - 1], <<p>>[1], x[1]>> \in R
    OBVIOUS
  <2>1. 1 - 1 = 0
    OBVIOUS
  <2> QED BY <1>1, <1>2, <2>1
<1> QED BY <1>1, <1>2, <1>3 DEF Leads

--------------------------------------------------------------------------------
(***************************************************************************)
(* What the server knows of the session, and what it will know when it has *)
(* taken the packets that are on their way: what the program asked for.    *)
(***************************************************************************)
Known == [watched |-> watched, firsts |-> firstParts, status |-> seenStatus]
Asked == [watched |-> uins, firsts |-> {}, status |-> status]

\* v when the server has taken packet p
After(v, p) ==
    CASE p.type = "list_empty" -> [v EXCEPT !.watched = {}, !.firsts = {}]
      [] p.type = "notify_first" -> [v EXCEPT !.firsts = @ \cup p.uins]
      [] p.type = "notify_last" -> [v EXCEPT !.watched = v.firsts \cup p.uins, !.firsts = {}]
      [] p.type = "add_notify" -> [v EXCEPT !.watched = @ \cup {p.uin}]
      [] p.type = "remove_notify" -> [v EXCEPT !.watched = @ \ {p.uin}]
      [] p.type = "new_status" -> [v EXCEPT !.status = p.status]
      [] OTHER -> v

\* what a server is told
Views == [watched : SUBSET Uins, firsts : SUBSET Uins, status : Statuses]
Tells == {<<v, p, After(v, p)>> : v \in Views, p \in Requests}

KnownInv == link = "up" => Leads(Tells, Known, toServer, Asked)

\* What each packet tells the server.
LEMMA AfterForms ==
    ASSUME NEW v, NEW p, v = [watched |-> v.watched, firsts |-> v.firsts, status |-> v.status]
    PROVE  /\ p.type = "list_empty" => After(v, p) = [watched |-> {}, firsts |-> {}, status |-> v.status]
           /\ p.type = "notify_first" =>
                After(v, p) = [watched |-> v.watched, firsts |-> v.firsts \cup p.uins, status |-> v.status]
           /\ p.type = "notify_last" =>
                After(v, p) = [watched |-> v.firsts \cup p.uins, firsts |-> {}, status |-> v.status]
           /\ p.type = "add_notify" =>
                After(v, p) = [watched |-> v.watched \cup {p.uin}, firsts |-> v.firsts, status |-> v.status]
           /\ p.type = "remove_notify" =>
                After(v, p) = [watched |-> v.watched \ {p.uin}, firsts |-> v.firsts, status |-> v.status]
           /\ p.type = "new_status" =>
                After(v, p) = [watched |-> v.watched, firsts |-> v.firsts, status |-> p.status]
BY DEF After

\* A server that is told something knows something again.
LEMMA TellsFacts ==
    ASSUME NEW v \in Views, NEW p \in Requests
    PROVE  /\ After(v, p) \in Views
           /\ \A w : <<v, p, w>> \in Tells <=> w = After(v, p)
<1>1. v = [watched |-> v.watched, firsts |-> v.firsts, status |-> v.status]
      /\ v.watched \subseteq Uins /\ v.firsts \subseteq Uins /\ v.status \in Statuses
  BY DEF Views
<1>2. After(v, p) \in Views
  <2>1. CASE p.type \in {"list_empty", "notify_first", "notify_last", "add_notify", "remove_notify", "new_status"}
    BY <1>1, <2>1, AfterForms, RequestForms DEF Views
  <2>2. CASE p.type \notin {"list_empty", "notify_first", "notify_last", "add_notify", "remove_notify", "new_status"}
    BY <2>2 DEF After
  <2> QED BY <2>1, <2>2
<1>3. ASSUME NEW w PROVE <<v, p, w>> \in Tells <=> w = After(v, p)
  BY DEF Tells
<1> QED BY <1>2, <1>3

\* The packets of gg_notify tell the server whom to watch, however many they are.
LEMMA NotifyLeads ==
    ASSUME NEW n \in Uins, NEW S \in SUBSET Uins, NEW shown \in Statuses
    PROVE  Leads(Tells, [watched |-> S, firsts |-> {}, status |-> shown], NotifyParts(n),
                 [watched |-> 1..n, firsts |-> {}, status |-> shown])
<1> DEFINE p == Parts(n, NotifyPart)
           upto(k) == {u \in 1..n : Parts(u, NotifyPart) <= k}
           s == NotifyParts(n)
           a == [watched |-> S, firsts |-> {}, status |-> shown]
           b == [watched |-> 1..n, firsts |-> {}, status |-> shown]
           w == [k \in 0..p |-> IF k = p THEN b ELSE [watched |-> S, firsts |-> upto(k), status |-> shown]]
<1>1. NotifyPart \in Nat \ {0} /\ n \in Nat
  BY ConnectedAssumption DEF Uins
<1>2. /\ p \in Nat \ {0} /\ Len(s) = p
      /\ \A k \in 1..p : /\ s[k].type = IF k = p THEN "notify_last" ELSE "notify_first"
                         /\ s[k].uins = {u \in 1..n : Parts(u, NotifyPart) = k}
  BY NotifyPackets
<1>3. \A u \in 1..n : Parts(u, NotifyPart) \in 1..p
  BY <1>1, PartsGrow
<1>4. upto(0) = {} /\ \A k \in 1..p : upto(k) = upto(k - 1) \cup s[k].uins
  <2> HIDE DEF p, s
  <2>1. upto(0) = {}
    BY <1>2, <1>3
  <2>2. ASSUME NEW k \in 1..p PROVE upto(k) = upto(k - 1) \cup s[k].uins
    BY <1>2, <1>3
  <2> QED BY <2>1, <2>2
<1>5. upto(p) = 1..n
  <2> HIDE DEF p
  <2> QED BY <1>2, <1>3
<1> HIDE DEF p, s, upto
<1>6. w[0] = a /\ w[p] = b
  <2>1. 0 \in 0..p /\ 0 # p /\ p \in 0..p
    BY <1>2
  <2> QED BY <1>4, <2>1
<1>7. ASSUME NEW k \in 1..p PROVE w[k] = After(w[k - 1], s[k])
  <2>1. k \in 0..p /\ k - 1 \in 0..p /\ k - 1 # p
    BY <1>2
  <2> DEFINE v == w[k - 1]
  <2>2. v = [watched |-> S, firsts |-> upto(k - 1), status |-> shown]
    BY <2>1
  <2> HIDE DEF v
  <2>3. /\ v.watched = S /\ v.firsts = upto(k - 1) /\ v.status = shown
        /\ v = [watched |-> v.watched, firsts |-> v.firsts, status |-> v.status]
    BY <2>2
  <2>4. CASE k = p
    <3>1. s[k].type = "notify_last" /\ upto(k - 1) \cup s[k].uins = 1..n
      BY <1>2, <1>4, <1>5, <2>4
    <3>2. w[k] = b
      BY <2>1, <2>4
    <3> HIDE DEF w, v
    <3>3. After(v, s[k]) = [watched |-> upto(k - 1) \cup s[k].uins, firsts |-> {}, status |-> shown]
      <4>1. After(v, s[k]) = [watched |-> v.firsts \cup s[k].uins, firsts |-> {}, status |-> v.status]
        BY <2>3, <3>1, AfterForms, Zenon
      <4> QED BY <2>3, <4>1
    <3> QED BY <3>1, <3>2, <3>3 DEF b, v
  <2>5. CASE k # p
    <3>1. s[k].type = "notify_first" /\ upto(k) = upto(k - 1) \cup s[k].uins
      BY <1>2, <1>4, <2>5
    <3>2. w[k] = [watched |-> S, firsts |-> upto(k), status |-> shown]
      BY <2>1, <2>5
    <3> HIDE DEF w, v
    <3>3. After(v, s[k]) = [watched |-> S, firsts |-> upto(k - 1) \cup s[k].uins, status |-> shown]
      <4>1. After(v, s[k]) = [watched |-> v.watched, firsts |-> v.firsts \cup s[k].uins, status |-> v.status]
        BY <2>3, <3>1, AfterForms, Zenon
      <4> QED BY <2>3, <4>1
    <3> QED BY <3>1, <3>2, <3>3 DEF v
  <2> QED BY <2>4, <2>5
<1>8. ASSUME NEW k \in 1..p PROVE w[k - 1] \in Views /\ s[k] \in Requests
  <2>1. k - 1 \in 0..p /\ k - 1 # p
    BY <1>2
  <2>2. upto(k - 1) \subseteq Uins
    <3>1. 1..n \subseteq 1..MaxUin
      BY <1>1, ConnectedAssumption DEF Uins
    <3> QED BY <3>1 DEF upto, Uins
  <2>3. s \in Seq(Requests)
    BY NotifyPackets DEF s
  <2>4. s[k] \in Requests
    BY <1>2, <2>3, ElementOfSeq
  <2> QED BY <2>1, <2>2, <2>4 DEF Views
<1> HIDE DEF w, a, b
<1>9. \A k \in 1..p : <<w[k - 1], s[k], w[k]>> \in Tells
  BY <1>7, <1>8, TellsFacts
<1>10. Leads(Tells, a, s, b)
  BY <1>2, <1>6, <1>9 DEF Leads
<1> QED BY <1>10 DEF a, b, s

\* Every request sends packets that lead from what was asked before to what is
\* asked now.
LEMMA RequestLeads ==
    ASSUME Shapes, Request
    PROVE  \E packets \in Seq(Requests) : Send(packets) /\ Leads(Tells, Asked, packets, Asked')
<1> DEFINE Neutral(s) == \A k \in DOMAIN s : s[k].type \in {"msg", "search", "ping", "get", "put", "image"}
           goal == \E packets \in Seq(Requests) : Send(packets) /\ Leads(Tells, Asked, packets, Asked')
<1>1. /\ Asked = [watched |-> Asked.watched, firsts |-> Asked.firsts, status |-> Asked.status]
      /\ Asked.watched = uins /\ Asked.firsts = {} /\ Asked.status = status
  BY DEF Asked
<1>2. Asked \in Views
  BY DEF Asked, Views, Shapes, TypeOK
<1>3. ASSUME NEW s \in Seq(Requests), Send(s), Neutral(s), UNCHANGED <<uins, status>>
      PROVE  goal
  <2>1. Asked' = Asked
    BY <1>3 DEF Asked
  <2>2. ASSUME NEW k \in DOMAIN s PROVE <<Asked, s[k], Asked>> \in Tells
    <3>1. After(Asked, s[k]) = Asked
      BY <1>3 DEF After
    <3>2. s[k] \in Requests
      BY ElementOfSeq, LenProperties
    <3> QED BY <1>2, <3>1, <3>2, TellsFacts
  <2>3. Leads(Tells, Asked, s, Asked)
    BY <2>2, LeadsNowhere
  <2> QED BY <1>3, <2>1, <2>3
<1>4. ASSUME NEW p \in Requests, Send(<<p>>), After(Asked, p) = Asked' PROVE goal
  <2>1. <<p>> \in Seq(Requests)
    OBVIOUS
  <2>2. <<Asked, p, Asked'>> \in Tells
    BY <1>4, <1>2, TellsFacts
  <2>3. Leads(Tells, Asked, <<p>>, Asked')
    BY <2>2, LeadsOne
  <2> QED BY <1>4, <2>1, <2>3
<1>5. ASSUME NEW p \in Requests, Send(<<p>>), p.type \in {"msg", "search", "ping", "get", "put", "image"},
             UNCHANGED <<uins, status>>
      PROVE  goal
  <2>1. <<p>> \in Seq(Requests) /\ Neutral(<<p>>)
    BY <1>5
  <2> HIDE DEF Neutral
  <2> QED BY <1>3, <1>5, <2>1
<1>6. CASE \E n \in Uins \cup {0} : Notify(n)
  <2>1. PICK n \in Uins \cup {0} : Notify(n)
    BY <1>6
  <2>2. uins' = 1..n /\ status' = status
    BY <2>1 DEF Notify, sessVars
  <2>3. CASE n = 0
    <3> DEFINE p == [type |-> "list_empty"]
    <3>1. p \in Requests /\ Send(<<p>>)
      BY <2>1, <2>3 DEF Notify, Requests
    <3>2. After(Asked, p) = Asked'
      BY <1>1, <2>2, <2>3, AfterForms DEF Asked
    <3> HIDE DEF p
    <3> QED BY <1>4, <3>1, <3>2, Zenon
  <2>4. CASE n # 0
    <3>1. n \in Uins /\ Send(NotifyParts(n))
      BY <2>1, <2>4 DEF Notify
    <3>2. NotifyParts(n) \in Seq(Requests)
      BY <3>1, NotifyPackets
    <3>3. Leads(Tells, Asked, NotifyParts(n), Asked')
      <4>1. uins \in SUBSET Uins /\ status \in Statuses
        BY DEF Shapes, TypeOK
      <4> QED BY <2>2, <3>1, <4>1, NotifyLeads DEF Asked
    <3> QED BY <3>1, <3>2, <3>3
  <2> QED BY <2>3, <2>4
<1>7. CASE \E u \in Uins : AddNotify(u) \/ RemoveNotify(u)
  <2>1. PICK u \in Uins : AddNotify(u) \/ RemoveNotify(u)
    BY <1>7
  <2>2. CASE AddNotify(u)
    <3> DEFINE p == [type |-> "add_notify", uin |-> u]
    <3>1. p \in Requests /\ Send(<<p>>) /\ uins' = uins \cup {u} /\ status' = status
      BY <2>2 DEF AddNotify, Requests, sessVars
    <3>2. After(Asked, p) = Asked'
      <4>1. p.type = "add_notify" /\ p.uin = u
        OBVIOUS
      <4> HIDE DEF p
      <4>2. After(Asked, p) = [watched |-> Asked.watched \cup {p.uin}, firsts |-> Asked.firsts, status |-> Asked.status]
        BY <1>1, <4>1, AfterForms, Zenon
      <4> QED BY <1>1, <3>1, <4>1, <4>2 DEF Asked
    <3> HIDE DEF p
    <3> QED BY <1>4, <3>1, <3>2, Zenon
  <2>3. CASE RemoveNotify(u)
    <3> DEFINE p == [type |-> "remove_notify", uin |-> u]
    <3>1. p \in Requests /\ Send(<<p>>) /\ uins' = uins \ {u} /\ status' = status
      BY <2>3 DEF RemoveNotify, Requests, sessVars
    <3>2. After(Asked, p) = Asked'
      <4>1. p.type = "remove_notify" /\ p.uin = u
        OBVIOUS
      <4> HIDE DEF p
      <4>2. After(Asked, p) = [watched |-> Asked.watched \ {p.uin}, firsts |-> Asked.firsts, status |-> Asked.status]
        BY <1>1, <4>1, AfterForms, Zenon
      <4> QED BY <1>1, <3>1, <4>1, <4>2 DEF Asked
    <3> HIDE DEF p
    <3> QED BY <1>4, <3>1, <3>2, Zenon
  <2> QED BY <2>1, <2>2, <2>3
<1>8. CASE \E s \in Statuses : ChangeStatus(s)
  <2>1. PICK s \in Statuses : ChangeStatus(s)
    BY <1>8
  <2> DEFINE p == [type |-> "new_status", status |-> s]
  <2>2. p \in Requests /\ Send(<<p>>) /\ uins' = uins /\ status' = s
    BY <2>1 DEF ChangeStatus, Requests
  <2>3. After(Asked, p) = Asked'
    BY <1>1, <2>2, AfterForms DEF Asked
  <2> HIDE DEF p
  <2> QED BY <1>4, <2>2, <2>3, Zenon
<1>9. CASE \E to \in Conferences : SendMessage(to)
  <2>1. PICK to \in Conferences : SendMessage(to)
    BY <1>9
  <2>2. PICK packets \in Seq(Requests) : Send(packets) /\ \A k \in DOMAIN packets : packets[k].type = "msg"
    BY <2>1, MessagePackets
  <2>3. UNCHANGED <<uins, status>>
    BY <2>1 DEF SendMessage
  <2>4. Neutral(packets)
    BY <2>2
  <2> HIDE DEF Neutral
  <2> QED BY <1>3, <2>2, <2>3, <2>4, Zenon
<1>10. CASE \E time \in 1..2 : Search(time)
  <2>1. PICK time \in 1..2 : Search(time)
    BY <1>10
  <2> DEFINE number == IF reqSeq # 0 THEN reqSeq ELSE time
             p == [type |-> "search", seq |-> number]
  <2>2. number \in Nat
    BY DEF Shapes, TypeOK
  <2>3. Send(<<p>>) /\ UNCHANGED <<uins, status>>
    BY <2>1 DEF Search
  <2> HIDE DEF number
  <2>4. p \in Requests /\ p.type = "search"
    BY <2>2 DEF Requests
  <2> HIDE DEF p
  <2> QED BY <1>5, <2>3, <2>4, Zenon
<1>11. CASE Ping
  <2> DEFINE p == [type |-> "ping"]
  <2>1. p \in Requests /\ p.type = "ping" /\ Send(<<p>>) /\ UNCHANGED <<uins, status>>
    BY <1>11 DEF Ping, Requests, sessVars
  <2> HIDE DEF p
  <2> QED BY <1>5, <2>1, Zenon
<1>12. CASE ImportList
  <2> DEFINE p == [type |-> "get"]
  <2>1. p \in Requests /\ p.type = "get" /\ Send(<<p>>) /\ UNCHANGED <<uins, status>>
    BY <1>12 DEF ImportList, Requests
  <2> HIDE DEF p
  <2> QED BY <1>5, <2>1, Zenon
<1>13. CASE \E n \in ListLengths : ExportList(n)
  <2>1. PICK n \in ListLengths : ExportList(n)
    BY <1>13
  <2>2. PICK p \in Nat \ {0} : /\ [k \in 1..p |-> [type |-> "put"]] \in Seq(Requests)
                               /\ Send([k \in 1..p |-> [type |-> "put"]])
    BY <2>1, ExportPackets
  <2> DEFINE s == [k \in 1..p |-> [type |-> "put"]]
  <2>3. UNCHANGED <<uins, status>>
    BY <2>1 DEF ExportList
  <2>4. Neutral(s)
    OBVIOUS
  <2>5. s \in Seq(Requests) /\ Send(s)
    BY <2>2
  <2> HIDE DEF Neutral, s
  <2> QED BY <1>3, <2>3, <2>4, <2>5, Zenon
<1>14. CASE \E i \in Images : ImageRequest(i)
  <2>1. PICK i \in Images : ImageRequest(i)
    BY <1>14
  <2> DEFINE p == [type |-> "image", image |-> i]
  <2>2. p \in Requests /\ p.type = "image" /\ Send(<<p>>) /\ UNCHANGED <<uins, status>>
    BY <2>1 DEF ImageRequest, Requests
  <2> HIDE DEF p
  <2> QED BY <1>5, <2>2, Zenon
<1> QED BY <1>6, <1>7, <1>8, <1>9, <1>10, <1>11, <1>12, <1>13, <1>14 DEF Request

\* A new session has asked for nothing and the server knows nothing.
LEMMA KnownInit == Init => KnownInv
<1> SUFFICES ASSUME Init PROVE Leads(Tells, Known, toServer, Asked)
  BY DEF KnownInv
<1>1. Known = Asked /\ toServer = <<>>
  BY DEF Init, Known, Asked
<1>2. <<>> \in Seq(Requests) /\ DOMAIN <<>> = {}
  OBVIOUS
<1> QED BY <1>1, <1>2, LeadsNowhere

\* A packet that the server takes tells it what it says.
LEMMA KnownServe ==
    ASSUME Shapes, KnownInv, Serve
    PROVE  KnownInv'
<1>1. /\ link = "up" /\ toServer # <<>> /\ toServer' = Tail(toServer) /\ toServer[1] \in Requests
      /\ Head(toServer) = toServer[1]
      /\ UNCHANGED <<sessVars, histVars>>
  BY ServeFacts, TailEntries DEF Shapes
<1>2. Asked' = Asked
  BY <1>1 DEF Asked, sessVars, histVars
<1>3. Known' = After(Known, toServer[1])
  <2> DEFINE p == toServer[1]
  <2>1. \/ p.type \in {"get", "put", "ping", "msg", "search"} /\ UNCHANGED peerVars
        \/ /\ p.type = "new_status" /\ seenStatus' = p.status /\ UNCHANGED <<watched, firstParts>>
        \/ /\ p.type \in {"list_empty", "notify_first", "notify_last", "add_notify", "remove_notify"}
           /\ ServeNotify /\ UNCHANGED seenStatus
        \/ p.type = "image" /\ UNCHANGED <<watched, firstParts, seenStatus>>
    BY ServeFacts
  <2>2. CASE p.type \in {"get", "put", "ping", "msg", "search"} /\ UNCHANGED peerVars
    BY <2>2 DEF Known, After, peerVars
  <2>3. CASE p.type = "new_status" /\ seenStatus' = p.status /\ UNCHANGED <<watched, firstParts>>
    BY <2>3 DEF Known, After
  <2>4. CASE /\ p.type \in {"list_empty", "notify_first", "notify_last", "add_notify", "remove_notify"}
             /\ ServeNotify /\ UNCHANGED seenStatus
    BY <1>1, <2>4 DEF Known, After, ServeNotify, Served
  <2>5. CASE p.type = "image" /\ UNCHANGED <<watched, firstParts, seenStatus>>
    BY <2>5 DEF Known, After
  <2> QED BY <2>1, <2>2, <2>3, <2>4, <2>5
<1>4. Leads(Tells, After(Known, toServer[1]), Tail(toServer), Asked)
  <2>1. Known \in Views
    BY DEF Known, Views, Shapes, TypeOK
  <2>2. PICK c : <<Known, toServer[1], c>> \in Tells /\ Leads(Tells, c, Tail(toServer), Asked)
    <3>1. Leads(Tells, Known, toServer, Asked) /\ toServer \in Seq(Requests)
      BY <1>1 DEF KnownInv, Shapes
    <3> QED BY <1>1, <3>1, LeadsTail
  <2>3. c = After(Known, toServer[1])
    BY <1>1, <2>1, <2>2, TellsFacts
  <2> QED BY <2>2, <2>3
<1> QED BY <1>1, <1>2, <1>3, <1>4 DEF KnownInv

\* Every step keeps the server on the way to what was asked for.
LEMMA KnownStep ==
    ASSUME Shapes, KnownInv, [Next]_vars
    PROVE  KnownInv'
<1>1. ASSUME UNCHANGED <<link, toServer, watched, firstParts, seenStatus, uins, status>> PROVE KnownInv'
  <2>1. UNCHANGED <<Known, Asked, toServer, link>>
    BY <1>1 DEF Known, Asked
  <2> QED BY <2>1 DEF KnownInv
<1>2. CASE UNCHANGED vars
  BY <1>1, <1>2 DEF vars, wireVars, sessVars, peerVars, histVars
<1>3. CASE Request
  <2>1. PICK packets \in Seq(Requests) : Send(packets) /\ Leads(Tells, Asked, packets, Asked')
    BY <1>3, RequestLeads
  <2>2. CASE link = "up"
    <3>1. toServer' = toServer \o packets /\ link' = link /\ Known' = Known
      BY <2>1, <2>2 DEF Send, Known, peerVars
    <3>2. Leads(Tells, Known, toServer, Asked) /\ toServer \in Seq(Requests)
      BY <2>2 DEF KnownInv, Shapes
    <3>3. Leads(Tells, Known, toServer \o packets, Asked')
      BY <2>1, <3>2, LeadsOn
    <3> QED BY <3>1, <3>3 DEF KnownInv
  <2>3. CASE link # "up"
    BY <2>1, <2>3 DEF Send, KnownInv
  <2> QED BY <2>2, <2>3
<1>4. CASE FreeSession
  BY <1>4 DEF FreeSession, KnownInv
<1>5. CASE Watch
  <2>1. UNCHANGED <<link, toServer, peerVars, uins, status>>
    BY <1>5 DEF Watch, WatchMsg, WatchNotify, WatchAck, WatchPubdir, WatchNoImage, WatchPiece, WatchPutReply,
                WatchList, WatchBroken, Quiet
  <2> QED BY <1>1, <2>1 DEF peerVars
<1>6. CASE Serve
  BY <1>6, KnownServe
<1>7. CASE PeerNext \/ (\E i \in Images : PeerRefuses(i))
  BY <1>1, <1>7 DEF PeerNext, PeerSends, PeerRefuses, ToClient, sessVars, histVars
<1>8. CASE \E u \in Uins : PeerBreaks(u)
  BY <1>1, <1>8 DEF PeerBreaks, sessVars, wireVars, histVars
<1>9. CASE Chatter
  BY <1>1, <1>9 DEF Chatter, ToClient, sessVars, histVars, peerVars
<1>10. CASE Hangup
  BY <1>10 DEF Hangup, KnownInv
<1> QED BY <1>2, <1>3, <1>4, <1>5, <1>6, <1>7, <1>8, <1>9, <1>10 DEF Next

\* When nothing is on its way to the server, it knows what it was asked.
LEMMA KnownIsAsked == ASSUME KnownInv PROVE AskedIsKnown
<1> SUFFICES ASSUME link = "up", toServer = <<>>
             PROVE  watched = uins /\ firstParts = {} /\ seenStatus = status
  BY DEF AskedIsKnown
<1>1. Leads(Tells, Known, <<>>, Asked)
  BY DEF KnownInv
<1>2. Known = Asked
  BY <1>1 DEF Leads
<1> QED BY <1>2 DEF Known, Asked

--------------------------------------------------------------------------------
(***************************************************************************)
(* Message numbers.  They grow by at most D with every message, and start  *)
(* far below SeqSpace.                                                     *)
(***************************************************************************)
NoWrap(D) == (\A d \in Steps : d <= D) /\ \A p \in Programs : Seed + p.calls * D < SeqSpace

NumbersInv(D) ==
    /\ Len(numbers) <= calls /\ seq <= Seed + Len(numbers) * D
    /\ numbers = <<>> => seq = 0
    /\ \A k \in DOMAIN numbers : numbers[k] < seq
    /\ \A j, k \in DOMAIN numbers : j < k => numbers[j] < numbers[k]

\* Multiplication by a natural number keeps the order.
LEMMA Grows ==
    ASSUME NEW a \in Nat, NEW b \in Nat, a <= b, NEW D \in Nat
    PROVE  a * D <= b * D /\ a * D \in Nat /\ b * D \in Nat
<1>1. PICK c \in Nat : b = a + c
  <2>1. b - a \in Nat /\ b = a + (b - a)
    OBVIOUS
  <2> QED BY <2>1
<1>2. b * D = a * D + c * D
  BY <1>1
<1>3. a * D \in Nat /\ c * D \in Nat /\ b * D \in Nat
  OBVIOUS
<1> QED BY <1>2, <1>3

\* A message's number is above those of all before it.
LEMMA NumbersSend ==
    ASSUME NEW D \in Nat, NoWrap(D), Shapes, Shapes', NumbersInv(D), UNCHANGED program,
           NEW to \in Conferences, SendMessage(to)
    PROVE  NumbersInv(D)'
<1> DEFINE s == IF seq = 0 THEN Seed ELSE seq
           n == Len(numbers)
<1>1. PICK d \in Steps : seq' = (s + d) % SeqSpace
  BY DEF SendMessage
<1>2. numbers' = Append(numbers, s) /\ calls' = calls + 1
  BY DEF SendMessage, Send
<1>3. /\ seq \in 0..SeqSpace - 1 /\ numbers \in Seq(0..SeqSpace - 1) /\ program \in Programs
      /\ calls' \in 0..program.calls
  BY DEF Shapes, TypeOK
<1>4. /\ SeqSpace \in Nat /\ Seed \in Nat \ {0} /\ d \in Nat \ {0} /\ d <= D /\ program.calls \in Nat
      /\ Seed + program.calls * D < SeqSpace
  BY <1>3, ConnectedAssumption DEF NoWrap
<1>5. n \in Nat /\ DOMAIN numbers = 1..n /\ \A k \in 1..n : numbers[k] \in Nat
  <2>1. n \in Nat /\ DOMAIN numbers = 1..n
    BY <1>3, LenProperties
  <2>2. \A k \in 1..n : numbers[k] \in 0..SeqSpace - 1
    BY <1>3, ElementOfSeq
  <2> QED BY <1>4, <2>1, <2>2
<1>6. /\ n <= calls /\ seq <= Seed + n * D
      /\ \A k \in DOMAIN numbers : numbers[k] < seq
      /\ \A j, k \in DOMAIN numbers : j < k => numbers[j] < numbers[k]
  BY DEF NumbersInv
<1>7. /\ s \in Nat \ {0} /\ s <= Seed + n * D /\ \A k \in 1..n : numbers[k] < s
  <2>1. n * D \in Nat
    BY <1>5
  <2>2. s \in Nat \ {0} /\ seq <= s /\ (s = Seed \/ s = seq)
    BY <1>3, <1>4, ConnectedAssumption
  <2> HIDE DEF n, s
  <2>3. s <= Seed + n * D
    BY <1>3, <1>4, <1>6, <2>1, <2>2
  <2>4. \A k \in 1..n : numbers[k] < s
    <3> TAKE k \in 1..n
    <3>1. numbers[k] < seq /\ numbers[k] \in Nat /\ seq \in Nat
      BY <1>3, <1>5, <1>6
    <3> QED BY <2>2, <3>1
  <2> QED BY <2>2, <2>3, <2>4
<1>8. DOMAIN numbers' = 1..(n + 1) /\ Len(numbers') = n + 1 /\ numbers' # <<>>
      /\ (\A k \in 1..n : numbers'[k] = numbers[k]) /\ numbers'[n + 1] = s
  <2>1. s \in 0..SeqSpace - 1
    BY <1>3, <1>4, ConnectedAssumption
  <2> HIDE DEF s
  <2> QED BY <1>2, <1>3, <2>1, AppendProperties, LenProperties
<1> HIDE DEF s, n
<1>9. s + d <= Seed + (n + 1) * D /\ s + d < SeqSpace
  <2>1. n + 1 \in Nat /\ n + 1 <= program.calls /\ (n + 1) * D = n * D + D
    <3>1. calls \in Nat
      BY DEF Shapes, TypeOK
    <3>2. n + 1 <= calls + 1 /\ calls + 1 <= program.calls
      BY <1>2, <1>3, <1>4, <1>5, <1>6, <3>1
    <3>3. (n + 1) * D = n * D + D
      BY <1>5
    <3> QED BY <1>4, <1>5, <3>1, <3>2, <3>3
  <2>2. (n + 1) * D <= program.calls * D /\ (n + 1) * D \in Nat /\ program.calls * D \in Nat /\ n * D \in Nat
    <3>1. n * D \in Nat
      BY <1>5
    <3>2. (n + 1) * D <= program.calls * D /\ (n + 1) * D \in Nat /\ program.calls * D \in Nat
      <4> DEFINE a == n + 1
                 b == program.calls
      <4>1. a \in Nat /\ b \in Nat /\ a <= b
        BY <1>4, <2>1
      <4> HIDE DEF a, b
      <4>2. a * D <= b * D /\ a * D \in Nat /\ b * D \in Nat
        BY <4>1, Grows
      <4> QED BY <4>2 DEF a, b
    <3> QED BY <3>1, <3>2
  <2>3. s + d <= Seed + (n + 1) * D
    BY <1>4, <1>7, <2>1, <2>2
  <2> QED BY <1>4, <1>7, <2>2, <2>3
<1>10. seq' = s + d
  BY <1>1, <1>4, <1>7, <1>9
<1>11. \A k \in 1..(n + 1) : numbers'[k] < seq'
  <2> TAKE k \in 1..(n + 1)
  <2>1. CASE k \in 1..n
    BY <1>4, <1>5, <1>7, <1>8, <1>10, <2>1
  <2>2. CASE k = n + 1
    BY <1>4, <1>7, <1>8, <1>10, <2>2
  <2> QED BY <1>5, <2>1, <2>2
<1>12. ASSUME NEW j \in 1..(n + 1), NEW k \in 1..(n + 1), j < k
       PROVE  numbers'[j] < numbers'[k]
  <2>1. j \in 1..n
    BY <1>5, <1>12
  <2>2. CASE k \in 1..n
    BY <1>5, <1>6, <1>8, <1>12, <2>1, <2>2
  <2>3. CASE k = n + 1
    BY <1>7, <1>8, <2>1, <2>3
  <2> QED BY <1>5, <2>2, <2>3
<1>13. Len(numbers') <= calls'
  <2>1. calls \in Nat
    BY DEF Shapes, TypeOK
  <2> QED BY <1>2, <1>5, <1>6, <1>8, <2>1
<1> QED BY <1>8, <1>9, <1>10, <1>11, <1>12, <1>13 DEF NumbersInv

\* Every step keeps the numbers growing.
LEMMA NumbersStep ==
    ASSUME NEW D \in Nat, NoWrap(D), Shapes, NumbersInv(D), [Next]_vars
    PROVE  NumbersInv(D)'
<1>1. ASSUME UNCHANGED <<seq, numbers>>, calls' = calls \/ calls' = calls + 1 PROVE NumbersInv(D)'
  <2>1. Len(numbers) \in Nat /\ calls \in Nat
    BY LenProperties DEF Shapes, TypeOK
  <2>2. Len(numbers') <= calls'
    BY <1>1, <2>1 DEF NumbersInv
  <2> QED BY <1>1, <2>2 DEF NumbersInv
<1>2. CASE UNCHANGED vars
  BY <1>1, <1>2 DEF vars, sessVars, histVars
<1>3. CASE Request
  <2>1. CASE \E to \in Conferences : SendMessage(to)
    <3>1. UNCHANGED program
      BY <1>3 DEF Request, Makes
    <3>2. Shapes'
      BY <1>3, ShapesRequest
    <3> QED BY <2>1, <3>1, <3>2, NumbersSend
  <2>2. CASE ~\E to \in Conferences : SendMessage(to)
    BY <1>1, <1>3, <2>2 DEF Request, Notify, AddNotify, RemoveNotify, ChangeStatus, Search, Ping, ImportList,
         ExportList, ImageRequest, Send, sessVars
  <2> QED BY <2>1, <2>2
<1>4. CASE FreeSession
  BY <1>1, <1>4 DEF FreeSession
<1>5. CASE Watch
  BY <1>1, <1>5 DEF Watch, WatchMsg, WatchNotify, WatchAck, WatchPubdir, WatchNoImage, WatchPiece, WatchPutReply,
        WatchList, WatchBroken, Quiet
<1>6. CASE Serve
  BY <1>1, <1>6, ServeFacts DEF sessVars, histVars
<1>7. CASE PeerNext \/ (\E i \in Images : PeerRefuses(i))
  BY <1>1, <1>7 DEF PeerNext, PeerSends, PeerRefuses, ToClient, sessVars, histVars
<1>8. CASE \E u \in Uins : PeerBreaks(u)
  BY <1>1, <1>8 DEF PeerBreaks, sessVars, histVars
<1>9. CASE Chatter
  BY <1>1, <1>9 DEF Chatter, ToClient, sessVars, histVars
<1>10. CASE Hangup
  BY <1>1, <1>10 DEF Hangup, sessVars, histVars
<1> QED BY <1>2, <1>3, <1>4, <1>5, <1>6, <1>7, <1>8, <1>9, <1>10 DEF Next

\* A new session has sent no message.
LEMMA NumbersInit == ASSUME NEW D \in Nat, Init PROVE NumbersInv(D)
<1>1. numbers = <<>> /\ seq = 0 /\ calls = 0
  BY DEF Init
<1>2. Len(numbers) = 0 /\ DOMAIN numbers = {} /\ 0 * D = 0
  BY <1>1
<1>3. Seed \in Nat
  BY ConnectedAssumption
<1> QED BY <1>1, <1>2, <1>3 DEF NumbersInv

\* Growing numbers differ.
LEMMA NumbersApart == ASSUME NEW D \in Nat, Shapes, NumbersInv(D) PROVE NumbersDiffer
<1>1. DOMAIN numbers = 1..Len(numbers) /\ Len(numbers) \in Nat /\ \A k \in DOMAIN numbers : numbers[k] \in Nat
  <2>1. numbers \in Seq(0..SeqSpace - 1) /\ SeqSpace \in Nat
    BY ConnectedAssumption DEF Shapes, TypeOK
  <2>2. DOMAIN numbers = 1..Len(numbers) /\ Len(numbers) \in Nat
    BY <2>1, LenProperties
  <2>3. \A k \in 1..Len(numbers) : numbers[k] \in 0..SeqSpace - 1
    BY <2>1, ElementOfSeq
  <2> QED BY <2>1, <2>2, <2>3
<1>2. ASSUME NEW i \in DOMAIN numbers, NEW j \in DOMAIN numbers, i # j PROVE numbers[i] # numbers[j]
  <2>1. i < j \/ j < i
    BY <1>1, <1>2
  <2> QED BY <1>1, <2>1 DEF NumbersInv
<1> QED BY <1>2 DEF NumbersDiffer

--------------------------------------------------------------------------------
(***************************************************************************)
(* Images.  For one image the client has n bytes of its first entry and c  *)
(* entries in all: a reader of pieces, which must find an entry, and what  *)
(* they continue.                                                          *)
(***************************************************************************)
IsPiece(p, i) == p.type = "piece" /\ p.image = i
Holds == [got : Nat, left : Nat]

\* what is held when p has been read
Held(i, v, p) ==
    IF ~IsPiece(p, i) THEN v
    ELSE IF p.from + p.len = i.size THEN [got |-> 0, left |-> v.left - 1]
    ELSE [got |-> p.from + p.len, left |-> v.left]

Reads(i) == {t \in Holds \X Replies \X Holds :
                /\ IsPiece(t[2], i) => t[1].left > 0 /\ (t[2].first \/ t[1].got = t[2].from)
                /\ t[3] = Held(i, t[1], t[2])}

First(q, i, k) == k \in 1..Len(q) /\ q[k].image = i /\ \A j \in 1..(k - 1) : q[j].image # i
EntriesOf(i) == {q \in Entries : q.image = i}

\* the first entry of q for the image, if there is one, has n bytes
Have(q, i, n) == \/ \E k \in 1..Len(q) : First(q, i, k) /\ q[k].done = n
                 \/ (\A k \in 1..Len(q) : q[k].image # i) /\ n = 0

\* entries have what they say they have, and only the first of an image has any
QueueOk(q) ==
    /\ \A k \in 1..Len(q) : /\ q[k].done > 0 => q[k].filename
                            /\ \A m \in 1..q[k].done : q[k].data[m] = m
    /\ \A j, k \in 1..Len(q) : j < k /\ q[j].image = q[k].image => q[k].done = 0

\* with the packets of s, queue q has an entry for the image that is being sent
\* and for all that are due, and holds what its sender has sent
Delivery(i, q, s, due, turn) ==
    \E a, b \in Holds :
        /\ Have(q, i, a.got) /\ a.left = Count(q, EntriesOf(i))
        /\ Leads(Reads(i), a, s, b)
        /\ due + (IF turn.image = i THEN 1 ELSE 0) <= b.left
        /\ turn.image = i => b.got = turn.sent

ImageDue(i) == wanted[i] + Count(toServer, {[type |-> "image", image |-> i]})

ImagesInv ==
    live => QueueOk(images)
            /\ \A i \in Images : Delivery(i, images, toClient, ImageDue(i), sending[i.sender])

\* What a reader of one image does with a packet.
LEMMA ReadsFacts ==
    ASSUME NEW i \in Images, NEW v \in Holds, NEW p \in Replies
    PROVE  /\ v.got \in Nat /\ v.left \in Nat
           /\ ~IsPiece(p, i) => \A w : <<v, p, w>> \in Reads(i) <=> w = v
           /\ IsPiece(p, i) => p \in Pieces
           /\ IsPiece(p, i) /\ (\E w : <<v, p, w>> \in Reads(i)) => v.left > 0 /\ (p.first \/ v.got = p.from)
           /\ IsPiece(p, i) => \A w : <<v, p, w>> \in Reads(i) => w = Held(i, v, p)
           /\ IsPiece(p, i) /\ v.left > 0 /\ (p.first \/ v.got = p.from) =>
                 Held(i, v, p) \in Holds /\ <<v, p, Held(i, v, p)>> \in Reads(i)
<1>1. v.got \in Nat /\ v.left \in Nat
  BY DEF Holds
<1>2. ASSUME ~IsPiece(p, i), NEW w PROVE <<v, p, w>> \in Reads(i) <=> w = v
  <2>1. Held(i, v, p) = v
    BY <1>2 DEF Held
  <2> QED BY <1>2, <2>1 DEF Reads
<1>3. ASSUME IsPiece(p, i) PROVE p \in Pieces
  BY <1>3, ReplyForms DEF IsPiece
<1>4. ASSUME IsPiece(p, i), NEW w, <<v, p, w>> \in Reads(i)
      PROVE  v.left > 0 /\ (p.first \/ v.got = p.from) /\ w = Held(i, v, p)
  BY <1>4 DEF Reads
<1>5. ASSUME IsPiece(p, i), v.left > 0, p.first \/ v.got = p.from
      PROVE  Held(i, v, p) \in Holds /\ <<v, p, Held(i, v, p)>> \in Reads(i)
  <2>1. p.from \in Nat /\ p.len \in Nat
    BY <1>3, <1>5 DEF Pieces
  <2>2. v.left - 1 \in Nat /\ p.from + p.len \in Nat
    BY <1>1, <1>5, <2>1
  <2>3. Held(i, v, p) \in Holds
    BY <1>1, <2>2 DEF Held, Holds
  <2> HIDE DEF Held
  <2> QED BY <1>5, <2>3 DEF Reads
<1> QED BY <1>1, <1>2, <1>3, <1>4, <1>5

\* With one entry more, there is one entry more all the way.
LEMMA LeadsMore ==
    ASSUME NEW i \in Images, NEW s \in Seq(Replies), NEW a \in Holds, NEW b \in Holds, Leads(Reads(i), a, s, b)
    PROVE  Leads(Reads(i), [got |-> a.got, left |-> a.left + 1], s, [got |-> b.got, left |-> b.left + 1])
<1>1. PICK w : w[0] = a /\ w[Len(s)] = b /\ \A k \in 1..Len(s) : <<w[k - 1], s[k], w[k]>> \in Reads(i)
  BY DEF Leads
<1> DEFINE more(v) == [got |-> v.got, left |-> v.left + 1]
           x == [k \in 0..Len(s) |-> more(w[k])]
<1>2. Len(s) \in Nat /\ \A k \in 1..Len(s) : s[k] \in Replies
  BY LenProperties, ElementOfSeq
<1>3. x[0] = more(a) /\ x[Len(s)] = more(b)
  <2>1. 0 \in 0..Len(s) /\ Len(s) \in 0..Len(s)
    BY <1>2
  <2> QED BY <1>1, <2>1
<1>4. ASSUME NEW k \in 1..Len(s) PROVE <<x[k - 1], s[k], x[k]>> \in Reads(i)
  <2> DEFINE p == s[k]
             v == w[k - 1]
             u == w[k]
  <2>1. x[k - 1] = more(v) /\ x[k] = more(u)
    <3>1. k \in 0..Len(s) /\ k - 1 \in 0..Len(s)
      BY <1>2
    <3> QED BY <3>1
  <2>2. <<v, p, u>> \in Reads(i)
    BY <1>1
  <2>3. v \in Holds /\ p \in Replies /\ u \in Holds
    BY <2>2 DEF Reads
  <2> HIDE DEF v, u, p, x
  <2>4. more(v) \in Holds /\ more(u) \in Holds /\ v.left \in Nat /\ more(v).left = v.left + 1 /\ more(v).got = v.got
    BY <2>3 DEF Holds
  <2>5. CASE ~IsPiece(p, i)
    <3>1. u = v
      BY <2>2, <2>3, <2>5, ReadsFacts
    <3>2. more(u) = more(v)
      BY <3>1
    <3> HIDE DEF more
    <3>3. <<more(v), p, more(u)>> \in Reads(i)
      BY <2>3, <2>4, <2>5, <3>2, ReadsFacts
    <3> QED BY <2>1, <3>3 DEF p
  <2>6. CASE IsPiece(p, i)
    <3>1. v.left > 0 /\ (p.first \/ v.got = p.from) /\ u = Held(i, v, p)
      BY <2>2, <2>3, <2>6, ReadsFacts
    <3>2. Held(i, more(v), p) = more(u)
      <4>1. CASE p.from + p.len = i.size
        <5>1. u = [got |-> 0, left |-> v.left - 1]
          BY <2>6, <3>1, <4>1 DEF Held
        <5>2. Held(i, more(v), p) = [got |-> 0, left |-> v.left]
          <6>1. Held(i, more(v), p) = [got |-> 0, left |-> more(v).left - 1]
            BY <2>6, <4>1 DEF Held
          <6>2. more(v).left - 1 = v.left
            BY <2>4
          <6> QED BY <6>1, <6>2
        <5>3. u.left + 1 = v.left /\ u.got = 0
          BY <2>4, <5>1
        <5> QED BY <5>2, <5>3
      <4>2. CASE p.from + p.len # i.size
        BY <2>6, <3>1, <4>2 DEF Held
      <4> QED BY <4>1, <4>2
    <3>3. more(v).left > 0 /\ (p.first \/ more(v).got = p.from)
      BY <2>4, <3>1
    <3> HIDE DEF more
    <3>4. <<more(v), p, more(u)>> \in Reads(i)
      BY <2>3, <2>4, <2>6, <3>2, <3>3, ReadsFacts
    <3> QED BY <2>1, <3>4 DEF p
  <2> QED BY <2>5, <2>6
<1> HIDE DEF x
<1> QED BY <1>3, <1>4 DEF Leads

\* A piece that is read finds an entry.
LEMMA ReadsPiece ==
    ASSUME NEW i \in Images, NEW v, NEW p, IsPiece(p, i), NEW w, <<v, p, w>> \in Reads(i)
    PROVE  v \in Holds /\ w \in Holds /\ v.left > 0 /\ (p.first \/ v.got = p.from) /\ w = Held(i, v, p)
BY DEF Reads

\* Other packets come after those of s, and no more is due than was.
LEMMA DeliveryOn ==
    ASSUME NEW i \in Images, NEW q, NEW r, NEW s \in Seq(Replies), NEW t \in Seq(Replies),
           NEW due \in Nat, NEW later \in Nat, NEW turn, NEW next,
           Delivery(i, q, s, due, turn),
           \A n : Have(q, i, n) => Have(r, i, n), Count(r, EntriesOf(i)) = Count(q, EntriesOf(i)),
           \A k \in DOMAIN t : ~IsPiece(t[k], i),
           later <= due, next.image = i => turn.image = i /\ next.sent = turn.sent
    PROVE  Delivery(i, r, s \o t, later, next)
<1>1. PICK a \in Holds, b \in Holds :
        /\ Have(q, i, a.got) /\ a.left = Count(q, EntriesOf(i))
        /\ Leads(Reads(i), a, s, b)
        /\ due + (IF turn.image = i THEN 1 ELSE 0) <= b.left
        /\ turn.image = i => b.got = turn.sent
  BY DEF Delivery
<1>2. ASSUME NEW k \in DOMAIN t PROVE <<b, t[k], b>> \in Reads(i)
  <2>1. t[k] \in Replies /\ ~IsPiece(t[k], i)
    BY LenProperties, ElementOfSeq
  <2> QED BY <2>1, ReadsFacts
<1>3. Leads(Reads(i), a, s \o t, b)
  <2>1. Leads(Reads(i), b, t, b)
    BY <1>2, LeadsNowhere
  <2> QED BY <1>1, <2>1, LeadsOn
<1>4. later + (IF next.image = i THEN 1 ELSE 0) <= b.left
  <2>1. b.left \in Nat
    BY DEF Holds
  <2> QED BY <1>1, <2>1
<1> QED BY <1>1, <1>3, <1>4 DEF Delivery

\* A packet that is not a piece of the image is read.
LEMMA DeliveryTail ==
    ASSUME NEW i \in Images, NEW q, NEW r, NEW s \in Seq(Replies), s # <<>>,
           NEW due \in Nat, NEW turn,
           Delivery(i, q, s, due, turn),
           \A n : Have(q, i, n) => Have(r, i, n), Count(r, EntriesOf(i)) = Count(q, EntriesOf(i)),
           ~IsPiece(s[1], i)
    PROVE  Delivery(i, r, Tail(s), due, turn)
<1>1. PICK a \in Holds, b \in Holds :
        /\ Have(q, i, a.got) /\ a.left = Count(q, EntriesOf(i))
        /\ Leads(Reads(i), a, s, b)
        /\ due + (IF turn.image = i THEN 1 ELSE 0) <= b.left
        /\ turn.image = i => b.got = turn.sent
  BY DEF Delivery
<1>2. PICK c : <<a, s[1], c>> \in Reads(i) /\ Leads(Reads(i), c, Tail(s), b)
  BY <1>1, LeadsTail
<1>3. s[1] \in Replies
  BY TailEntries
<1>4. c = a
  BY <1>2, <1>3, ReadsFacts
<1> QED BY <1>1, <1>2, <1>4 DEF Delivery

\* A piece of the image finds an entry, and what it continues.
LEMMA DeliveryPiece ==
    ASSUME NEW i \in Images, NEW q \in Seq(Entries), NEW s \in Seq(Replies), s # <<>>,
           NEW due \in Nat, NEW turn,
           Delivery(i, q, s, due, turn), IsPiece(s[1], i)
    PROVE  /\ s[1] \in Pieces
           /\ \E k \in 1..Len(q) : First(q, i, k) /\ (s[1].first \/ q[k].done = s[1].from)
           /\ \A r : Have(r, i, IF s[1].from + s[1].len = i.size THEN 0 ELSE s[1].from + s[1].len)
                     /\ Count(q, EntriesOf(i)) =
                          Count(r, EntriesOf(i)) + (IF s[1].from + s[1].len = i.size THEN 1 ELSE 0)
                     /\ Count(r, EntriesOf(i)) \in Nat
                     => Delivery(i, r, Tail(s), due, turn)
<1> DEFINE p == s[1]
           last == p.from + p.len = i.size
<1>1. PICK a \in Holds, b \in Holds :
        /\ Have(q, i, a.got) /\ a.left = Count(q, EntriesOf(i))
        /\ Leads(Reads(i), a, s, b)
        /\ due + (IF turn.image = i THEN 1 ELSE 0) <= b.left
        /\ turn.image = i => b.got = turn.sent
  BY DEF Delivery
<1>2. PICK c : <<a, p, c>> \in Reads(i) /\ Leads(Reads(i), c, Tail(s), b)
  BY <1>1, LeadsTail
<1>3. p \in Replies
  BY TailEntries
<1>4. /\ p \in Pieces /\ a.left \in Nat /\ a.left > 0 /\ (p.first \/ a.got = p.from)
      /\ c = Held(i, a, p) /\ c \in Holds
  <2>1. a.left \in Nat /\ p \in Pieces
    BY <1>3, ReadsFacts
  <2>2. a.left > 0 /\ (p.first \/ a.got = p.from) /\ c = Held(i, a, p)
    <3>1. IsPiece(p, i) /\ <<a, p, c>> \in Reads(i)
      BY <1>2
    <3> HIDE DEF p
    <3> QED BY <3>1, ReadsPiece
  <2>3. c \in Holds
    BY <1>2 DEF Reads
  <2> QED BY <2>1, <2>2, <2>3
<1>5. c.got = (IF last THEN 0 ELSE p.from + p.len) /\ c.left = IF last THEN a.left - 1 ELSE a.left
  BY <1>4 DEF Held
<1>6. \E k \in 1..Len(q) : First(q, i, k) /\ (p.first \/ q[k].done = p.from)
  <2>1. PICK l \in 1..Len(q) : q[l].image = i
    <3>1. PICK l \in DOMAIN q : q[l] \in EntriesOf(i)
      BY <1>1, <1>4, WhereFinite
    <3> QED BY <3>1, LenProperties DEF EntriesOf
  <2>2. PICK k \in 1..Len(q) : First(q, i, k) /\ q[k].done = a.got
    BY <1>1, <2>1 DEF Have
  <2> QED BY <1>4, <2>2
<1>7. ASSUME NEW r, Have(r, i, IF last THEN 0 ELSE p.from + p.len),
             Count(q, EntriesOf(i)) = Count(r, EntriesOf(i)) + (IF last THEN 1 ELSE 0),
             Count(r, EntriesOf(i)) \in Nat
      PROVE  Delivery(i, r, Tail(s), due, turn)
  <2>1. c.left = Count(r, EntriesOf(i))
    <3>1. CASE last
      BY <1>1, <1>5, <1>7, <3>1
    <3>2. CASE ~last
      BY <1>1, <1>5, <1>7, <3>2
    <3> QED BY <3>1, <3>2
  <2>2. Have(r, i, c.got)
    BY <1>5, <1>7
  <2> QED BY <1>1, <1>2, <1>4, <2>1, <2>2 DEF Delivery
<1> QED BY <1>4, <1>6, <1>7

\* The image is asked for once more.
LEMMA DeliveryMore ==
    ASSUME NEW i \in Images, NEW q, NEW r, NEW s \in Seq(Replies),
           NEW due \in Nat, NEW later \in Nat, NEW turn,
           Delivery(i, q, s, due, turn),
           \A n : Have(q, i, n) => Have(r, i, n), Count(r, EntriesOf(i)) = Count(q, EntriesOf(i)) + 1,
           later <= due + 1
    PROVE  Delivery(i, r, s, later, turn)
<1>1. PICK a \in Holds, b \in Holds :
        /\ Have(q, i, a.got) /\ a.left = Count(q, EntriesOf(i))
        /\ Leads(Reads(i), a, s, b)
        /\ due + (IF turn.image = i THEN 1 ELSE 0) <= b.left
        /\ turn.image = i => b.got = turn.sent
  BY DEF Delivery
<1> DEFINE c == [got |-> a.got, left |-> a.left + 1]
           d == [got |-> b.got, left |-> b.left + 1]
<1>2. Leads(Reads(i), c, s, d)
  BY <1>1, LeadsMore
<1>3. c \in Holds /\ d \in Holds /\ c.got = a.got /\ d.got = b.got /\ c.left = a.left + 1 /\ d.left = b.left + 1
      /\ b.left \in Nat
  BY DEF Holds
<1> HIDE DEF c, d
<1>4. later + (IF turn.image = i THEN 1 ELSE 0) <= d.left
  BY <1>1, <1>3
<1>5. Have(r, i, c.got) /\ c.left = Count(r, EntriesOf(i))
  BY <1>1, <1>3
<1> QED BY <1>1, <1>2, <1>3, <1>4, <1>5 DEF Delivery

\* A piece of the image is sent, to begin with or going on from the last.
LEMMA DeliverySend ==
    ASSUME NEW i \in Images, NEW q, NEW s \in Seq(Replies), NEW p \in Pieces, p.image = i,
           NEW due \in Nat, NEW later \in Nat, NEW turn, NEW next,
           Delivery(i, q, s, due, turn),
           \/ turn.image = i /\ p.from = turn.sent /\ later = due
           \/ turn.image # i /\ p.first /\ due = later + 1,
           next.image = i <=> p.from + p.len # i.size,
           next.image = i => next.sent = p.from + p.len
    PROVE  Delivery(i, q, s \o <<p>>, later, next)
<1>1. PICK a \in Holds, b \in Holds :
        /\ Have(q, i, a.got) /\ a.left = Count(q, EntriesOf(i))
        /\ Leads(Reads(i), a, s, b)
        /\ due + (IF turn.image = i THEN 1 ELSE 0) <= b.left
        /\ turn.image = i => b.got = turn.sent
  BY DEF Delivery
<1>2. p \in Replies /\ IsPiece(p, i) /\ <<p>> \in Seq(Replies)
  BY DEF Replies, Pieces, IsPiece
<1>3. b.left \in Nat /\ b.left > 0 /\ (p.first \/ b.got = p.from) /\ later + 1 <= b.left
  <2>1. b.left \in Nat
    BY DEF Holds
  <2> QED BY <1>1, <2>1
<1> DEFINE c == Held(i, b, p)
<1>4. c \in Holds /\ <<b, p, c>> \in Reads(i)
  BY <1>2, <1>3, ReadsFacts
<1>5. /\ p.from + p.len = i.size => c.left = b.left - 1
      /\ p.from + p.len # i.size => c.left = b.left /\ c.got = p.from + p.len
  BY <1>2 DEF Held
<1> HIDE DEF c
<1>6. Leads(Reads(i), a, s \o <<p>>, c)
  <2>1. Leads(Reads(i), b, <<p>>, c)
    BY <1>4, LeadsOne
  <2> QED BY <1>1, <1>2, <2>1, LeadsOn
<1>7. later + (IF next.image = i THEN 1 ELSE 0) <= c.left
  BY <1>3, <1>5
<1> QED BY <1>1, <1>4, <1>5, <1>6, <1>7 DEF Delivery

--------------------------------------------------------------------------------
(***************************************************************************)
(* What the queue of images holds after each of its changes.               *)
(***************************************************************************)
\* An image that is asked for waits behind all others.
LEMMA QueueAppend ==
    ASSUME NEW q \in Seq(Entries), QueueOk(q), NEW i \in Images
    PROVE  LET r == Append(q, Requested(i)) IN
           /\ QueueOk(r)
           /\ \A j \in Images : \A n : Have(q, j, n) => Have(r, j, n)
           /\ \A j \in Images : Count(r, EntriesOf(j)) = Count(q, EntriesOf(j)) + IF j = i THEN 1 ELSE 0
<1> DEFINE e == Requested(i)
           r == Append(q, e)
           n == Len(q)
<1>1. e \in Entries /\ e.image = i /\ e.done = 0
  <2>1. i.size \in Nat
    BY ImageFacts
  <2> DEFINE d == [k \in 1..i.size |-> 0]
  <2>2. d \in Seq(Nat)
    BY <2>1
  <2> HIDE DEF d
  <2>3. [image |-> i, done |-> 0, filename |-> FALSE, data |-> d] \in Entries
    BY <2>2 DEF Entries
  <2>4. e = [image |-> i, done |-> 0, filename |-> FALSE, data |-> d]
    BY DEF Requested, d
  <2> QED BY <2>3, <2>4
<1> HIDE DEF e
<1>2. /\ n \in Nat /\ Len(r) = n + 1 /\ r[n + 1] = e
      /\ \A k \in 1..n : r[k] = q[k]
      /\ r = q \o <<e>>
  BY <1>1, AppendProperties, LenProperties, AppendIsConcat
<1> HIDE DEF r, n
<1>3. QueueOk(r)
  <2>1. ASSUME NEW k \in 1..(n + 1)
        PROVE  /\ r[k].done > 0 => r[k].filename
               /\ \A m \in 1..r[k].done : r[k].data[m] = m
    <3>1. CASE k \in 1..n
      BY <1>2, <3>1 DEF QueueOk, n
    <3>2. CASE k = n + 1
      BY <1>1, <1>2, <3>2
    <3> QED BY <1>2, <3>1, <3>2
  <2>2. ASSUME NEW j \in 1..(n + 1), NEW k \in 1..(n + 1), j < k, r[j].image = r[k].image
        PROVE  r[k].done = 0
    <3>1. CASE k \in 1..n
      <4>1. j \in 1..n
        BY <1>2, <2>2, <3>1
      <4> QED BY <1>2, <2>2, <3>1, <4>1 DEF QueueOk, n
    <3>2. CASE k = n + 1
      BY <1>1, <1>2, <3>2
    <3> QED BY <1>2, <3>1, <3>2
  <2> QED BY <1>2, <2>1, <2>2 DEF QueueOk
<1>4. ASSUME NEW j \in Images, NEW m, Have(q, j, m) PROVE Have(r, j, m)
  <2>1. CASE \E k \in 1..Len(q) : First(q, j, k) /\ q[k].done = m
    <3>1. PICK k \in 1..n : q[k].image = j /\ (\A l \in 1..(k - 1) : q[l].image # j) /\ q[k].done = m
      BY <2>1 DEF First, n
    <3>2. k \in 1..(n + 1) /\ \A l \in 1..(k - 1) : l \in 1..n
      BY <1>2
    <3>3. r[k].image = j /\ (\A l \in 1..(k - 1) : r[l].image # j) /\ r[k].done = m
      BY <1>2, <3>1, <3>2
    <3> QED BY <1>2, <3>2, <3>3 DEF Have, First
  <2>2. CASE (\A k \in 1..Len(q) : q[k].image # j) /\ m = 0
    <3>1. \A k \in 1..n : r[k].image # j
      BY <1>2, <2>2 DEF n
    <3>2. CASE j = i
      <4>1. n + 1 \in 1..(n + 1) /\ n + 1 - 1 = n
        BY <1>2
      <4>2. First(r, j, n + 1) /\ r[n + 1].done = m
        BY <1>1, <1>2, <2>2, <3>1, <3>2, <4>1 DEF First
      <4> QED BY <1>2, <4>1, <4>2 DEF Have
    <3>3. CASE j # i
      <4>1. \A k \in 1..(n + 1) : k \in 1..n \/ k = n + 1
        BY <1>2
      <4> QED BY <1>1, <1>2, <2>2, <3>1, <3>3, <4>1 DEF Have
    <3> QED BY <3>2, <3>3
  <2> QED BY <1>4, <2>1, <2>2 DEF Have
<1>5. ASSUME NEW j \in Images PROVE Count(r, EntriesOf(j)) = Count(q, EntriesOf(j)) + IF j = i THEN 1 ELSE 0
  <2>1. <<e>> \in Seq(Entries)
    BY <1>1
  <2>2. e \in EntriesOf(j) <=> j = i
    BY <1>1 DEF EntriesOf
  <2>3. Count(<<e>>, EntriesOf(j)) = IF j = i THEN 1 ELSE 0
    BY <2>2, CountOne
  <2>4. Count(q \o <<e>>, EntriesOf(j)) = Count(q, EntriesOf(j)) + Count(<<e>>, EntriesOf(j))
    BY <2>1, CountConcat
  <2> QED BY <1>2, <2>3, <2>4
<1> QED BY <1>3, <1>4, <1>5 DEF r, e

\* A piece is written to the first entry of its image.
LEMMA QueueWrite ==
    ASSUME NEW q \in Seq(Entries), QueueOk(q), NEW i \in Images, NEW k \in 1..Len(q), First(q, i, k),
           NEW e \in Entries, e.image = i, e.done > 0 => e.filename, \A m \in 1..e.done : e.data[m] = m
    PROVE  LET r == [q EXCEPT ![k] = e] IN
           /\ QueueOk(r) /\ Have(r, i, e.done)
           /\ \A j \in Images : j # i => \A n : Have(q, j, n) => Have(r, j, n)
           /\ \A j \in Images : Count(r, EntriesOf(j)) = Count(q, EntriesOf(j))
<1> DEFINE r == [q EXCEPT ![k] = e]
           n == Len(q)
<1>1. /\ n \in Nat /\ DOMAIN q = 1..n /\ \A l \in 1..n : q[l] \in Entries
  BY LenProperties, ElementOfSeq
<1>2. /\ Len(r) = n /\ DOMAIN r = 1..n /\ r[k] = e /\ \A l \in 1..n : l # k => r[l] = q[l]
      /\ \A l \in 1..n : r[l].image = q[l].image /\ r[l] \in Entries
  <2>1. r = [l \in 1..n |-> IF l = k THEN e ELSE q[l]]
    BY <1>1
  <2>2. r \in [1..n -> Entries]
    BY <1>1, <2>1
  <2>3. Len(r) = n /\ DOMAIN r = 1..n
    <3>1. r \in Seq(Entries)
      BY <1>1, <2>2
    <3>2. DOMAIN r = 1..Len(r) /\ Len(r) \in Nat /\ DOMAIN r = 1..n
      BY <2>2, <3>1, LenProperties
    <3>3. ASSUME NEW a \in Nat, NEW b \in Nat, 1..a = 1..b PROVE a = b
      <4>1. (a # 0 => a \in 1..b) /\ (b # 0 => b \in 1..a)
        BY <3>3
      <4> QED BY <4>1
    <3> HIDE DEF r, n
    <3> QED BY <1>1, <3>2, <3>3
  <2>4. \A l \in 1..n : r[l] = IF l = k THEN e ELSE q[l]
    BY <2>1
  <2>5. k \in 1..n /\ q[k].image = i
    BY DEF First
  <2> HIDE DEF r, n
  <2> QED BY <1>1, <2>3, <2>4, <2>5
<1> HIDE DEF r
<1>3. QueueOk(r)
  <2>1. ASSUME NEW l \in 1..n
        PROVE  /\ r[l].done > 0 => r[l].filename
               /\ \A m \in 1..r[l].done : r[l].data[m] = m
    BY <1>2 DEF QueueOk
  <2>2. ASSUME NEW j \in 1..n, NEW l \in 1..n, j < l, r[j].image = r[l].image
        PROVE  r[l].done = 0
    <3>1. q[j].image = q[l].image
      BY <1>2, <2>2
    <3>2. l # k
      <4>1. CASE l = k
        <5>1. j \in 1..(k - 1)
          BY <1>1, <2>2, <4>1
        <5> QED BY <3>1, <4>1, <5>1 DEF First
      <4> QED BY <4>1
    <3> QED BY <1>2, <2>2, <3>1, <3>2 DEF QueueOk
  <2> QED BY <1>2, <2>1, <2>2 DEF QueueOk
<1>4. Have(r, i, e.done)
  <2>1. \A l \in 1..(k - 1) : l \in 1..n
    BY <1>1
  <2>2. First(r, i, k)
    BY <1>2, <2>1 DEF First
  <2> QED BY <1>2, <2>2 DEF Have
<1>5. ASSUME NEW j \in Images, j # i, NEW m, Have(q, j, m) PROVE Have(r, j, m)
  <2>1. ASSUME NEW l \in 1..n, First(q, j, l), q[l].done = m PROVE First(r, j, l) /\ r[l].done = m
    <3>1. l # k
      BY <1>5, <2>1 DEF First
    <3>2. \A o \in 1..(l - 1) : o \in 1..n
      BY <1>1
    <3> QED BY <1>2, <2>1, <3>1, <3>2 DEF First
  <2> QED BY <1>2, <1>5, <2>1 DEF Have
<1>6. ASSUME NEW j \in Images PROVE Count(r, EntriesOf(j)) = Count(q, EntriesOf(j))
  <2>1. \A l \in 1..n : r[l] \in EntriesOf(j) <=> q[l] \in EntriesOf(j)
    BY <1>1, <1>2 DEF EntriesOf
  <2>2. Where(r, EntriesOf(j)) = Where(q, EntriesOf(j))
    BY <1>1, <1>2, <2>1 DEF Where
  <2> QED BY <2>2 DEF Count
<1> QED BY <1>3, <1>4, <1>5, <1>6 DEF r

\* The first entry of an image is taken out.
LEMMA QueueRemove ==
    ASSUME NEW q \in Seq(Entries), QueueOk(q), NEW i \in Images, NEW k \in 1..Len(q), First(q, i, k)
    PROVE  LET r == RemoveAt(q, k) IN
           /\ QueueOk(r) /\ Have(r, i, 0)
           /\ \A j \in Images : j # i => \A n : Have(q, j, n) => Have(r, j, n)
           /\ \A j \in Images : Count(q, EntriesOf(j)) = Count(r, EntriesOf(j)) + IF j = i THEN 1 ELSE 0
<1> DEFINE r == RemoveAt(q, k)
           n == Len(q)
           at(l) == IF l < k THEN l ELSE l + 1
<1>1. n \in Nat /\ n # 0 /\ DOMAIN q = 1..n /\ q[k] \in Entries /\ k \in 1..n
  BY LenProperties, ElementOfSeq
<1>2. /\ Len(r) = n - 1
      /\ \A l \in 1..(n - 1) : r[l] = IF l < k THEN q[l] ELSE q[l + 1]
      /\ \A P : Count(q, P) = Count(r, P) + IF q[k] \in P THEN 1 ELSE 0
  BY RemoveAtEntries
<1> HIDE DEF r, n
<1>3. /\ \A l \in 1..(n - 1) : r[l] = q[at(l)] /\ at(l) \in 1..n
      /\ \A l, m \in 1..(n - 1) : l < m => at(l) < at(m)
  BY <1>1, <1>2
<1>4. ASSUME NEW l \in 1..(n - 1) PROVE q[at(l)].image = i => r[l].done = 0
  <2>1. ASSUME q[at(l)].image = i PROVE k < at(l)
    <3>1. l \notin 1..(k - 1)
      <4>1. ASSUME l \in 1..(k - 1) PROVE FALSE
        <5>1. l < k /\ at(l) = l
          BY <1>1, <4>1
        <5> QED BY <2>1, <4>1, <5>1 DEF First
      <4> QED BY <4>1
    <3> QED BY <1>1, <3>1
  <2>2. q[k].image = i
    BY DEF First
  <2>3. at(l) \in 1..n /\ k \in 1..n /\ r[l] = q[at(l)]
    BY <1>1, <1>3
  <2> HIDE DEF at
  <2> QED BY <2>1, <2>2, <2>3 DEF QueueOk, n
<1>5. QueueOk(r)
  <2> HIDE DEF at
  <2>1. ASSUME NEW l \in 1..(n - 1)
        PROVE  /\ r[l].done > 0 => r[l].filename
               /\ \A m \in 1..r[l].done : r[l].data[m] = m
    BY <1>3 DEF QueueOk, n
  <2>2. ASSUME NEW j \in 1..(n - 1), NEW l \in 1..(n - 1), j < l, r[j].image = r[l].image
        PROVE  r[l].done = 0
    BY <1>3, <2>2 DEF QueueOk, n
  <2> QED BY <1>2, <2>1, <2>2 DEF QueueOk
<1>6. Have(r, i, 0)
  <2> DEFINE S == {l \in 1..(n - 1) : r[l].image = i}
  <2>1. CASE S = {}
    BY <1>2, <2>1 DEF Have
  <2>2. CASE S # {}
    <3>1. S \in SUBSET Nat
      OBVIOUS
    <3>2. PICK l \in S : \A m \in S : l <= m
      BY <2>2, <3>1, LeastOf
    <3>3. l \in 1..(n - 1) /\ r[l].image = i
      OBVIOUS
    <3>4. ASSUME NEW m \in 1..(l - 1) PROVE r[m].image # i
      <4>1. m \in 1..(n - 1) /\ ~(l <= m)
        BY <1>1, <3>3
      <4> QED BY <3>2, <4>1
    <3>5. r[l].done = 0
      BY <1>3, <1>4, <3>3
    <3>6. First(r, i, l)
      BY <1>2, <3>3, <3>4 DEF First
    <3> QED BY <1>2, <3>3, <3>5, <3>6 DEF Have
  <2> QED BY <2>1, <2>2
<1>7. ASSUME NEW j \in Images, j # i, NEW m, Have(q, j, m) PROVE Have(r, j, m)
  <2>1. ASSUME NEW l \in 1..n, First(q, j, l), q[l].done = m
        PROVE  \E o \in 1..(n - 1) : First(r, j, o) /\ r[o].done = m
    <3>1. l # k
      BY <1>7, <2>1 DEF First
    <3> DEFINE o == IF l < k THEN l ELSE l - 1
    <3>2. o \in 1..(n - 1) /\ at(o) = l
      BY <1>1, <3>1
    <3>3. \A x \in 1..(o - 1) : x \in 1..(n - 1) /\ at(x) \in 1..(l - 1)
      BY <1>1, <3>1
    <3> HIDE DEF o, at
    <3>4. r[o] = q[l] /\ \A x \in 1..(o - 1) : r[x].image # j
      BY <1>3, <2>1, <3>2, <3>3 DEF First
    <3> QED BY <1>2, <2>1, <3>2, <3>4 DEF First
  <2>2. ASSUME \A l \in 1..n : q[l].image # j PROVE \A l \in 1..(n - 1) : r[l].image # j
    <3> HIDE DEF at
    <3> QED BY <1>3, <2>2
  <2> QED BY <1>2, <1>7, <2>1, <2>2 DEF Have, n
<1>8. ASSUME NEW j \in Images
      PROVE  Count(q, EntriesOf(j)) = Count(r, EntriesOf(j)) + IF j = i THEN 1 ELSE 0
  <2>1. q[k] \in EntriesOf(j) <=> j = i
    BY <1>1 DEF EntriesOf, First
  <2> QED BY <1>2, <2>1
<1> QED BY <1>5, <1>6, <1>7, <1>8 DEF r

--------------------------------------------------------------------------------
(***************************************************************************)
(* Every step keeps an entry for every image that is due.                  *)
(***************************************************************************)
ImageAsked(i) == {[type |-> "image", image |-> i]}

\* How many times an image is due is a number.
LEMMA DueFacts ==
    ASSUME NEW s \in Seq(Requests), NEW w \in [Images -> Nat], NEW i \in Images
    PROVE  w[i] \in Nat /\ Count(s, ImageAsked(i)) \in Nat /\ w[i] + Count(s, ImageAsked(i)) \in Nat
<1>1. Count(s, ImageAsked(i)) \in Nat
  BY WhereFinite
<1> QED BY <1>1

\* The parts of the state that images are in.
LEMMA StateFacts ==
    ASSUME Shapes
    PROVE  /\ toServer \in Seq(Requests) /\ toClient \in Seq(Replies) /\ images \in Seq(Entries)
           /\ wanted \in [Images -> Nat]
           /\ \A i \in Images : ImageDue(i) \in Nat /\ ImageDue(i) = wanted[i] + Count(toServer, ImageAsked(i))
<1>1. /\ toServer \in Seq(Requests) /\ toClient \in Seq(Replies) /\ images \in Seq(Entries)
      /\ wanted \in [Images -> Nat]
  BY DEF Shapes, TypeOK
<1>2. ASSUME NEW i \in Images PROVE ImageDue(i) = wanted[i] + Count(toServer, ImageAsked(i))
  BY DEF ImageDue, ImageAsked
<1> QED BY <1>1, <1>2, DueFacts

\* Neither the queue nor a sender does anything; what comes is no piece.
LEMMA ImagesSame ==
    ASSUME Shapes, Shapes', ImagesInv, live' => live, UNCHANGED images,
           NEW t \in Seq(Replies), toClient' = toClient \o t, \A k \in DOMAIN t : t[k].type # "piece",
           \A i \in Images : ImageDue(i)' <= ImageDue(i),
           \A i \in Images : sending'[i.sender].image = i => sending'[i.sender] = sending[i.sender]
    PROVE  ImagesInv'
<1> SUFFICES ASSUME live, NEW i \in Images
             PROVE  Delivery(i, images, toClient', ImageDue(i)', sending'[i.sender])
  BY DEF ImagesInv
<1>1. toClient \in Seq(Replies) /\ ImageDue(i) \in Nat
  BY StateFacts
<1>2. ImageDue(i)' \in Nat
  <2>1. toServer' \in Seq(Requests) /\ wanted' \in [Images -> Nat]
    BY DEF Shapes, TypeOK
  <2>2. ImageDue(i)' = wanted'[i] + Count(toServer', ImageAsked(i))
    BY DEF ImageDue, ImageAsked
  <2> QED BY <2>1, <2>2, DueFacts
<1>3. Delivery(i, images, toClient, ImageDue(i), sending[i.sender])
  BY DEF ImagesInv
<1>4. /\ \A k \in DOMAIN t : ~IsPiece(t[k], i)
      /\ ImageDue(i)' <= ImageDue(i)
      /\ sending'[i.sender].image = i =>
            sending[i.sender].image = i /\ sending'[i.sender].sent = sending[i.sender].sent
  BY DEF IsPiece
<1> DEFINE later == ImageDue(i)'
           next == sending'[i.sender]
<1> HIDE DEF later, next
<1>5. Delivery(i, images, toClient \o t, later, next)
  <2>1. later \in Nat /\ later <= ImageDue(i)
    BY <1>2, <1>4 DEF later
  <2>2. next.image = i => sending[i.sender].image = i /\ next.sent = sending[i.sender].sent
    BY <1>4 DEF next
  <2> QED BY <1>1, <1>3, <1>4, <2>1, <2>2, DeliveryOn
<1> QED BY <1>5 DEF later, next

\* A packet is read that is no piece.
LEMMA ImagesRead ==
    ASSUME Shapes, ImagesInv, NEW type, Receive(type), type # "piece",
           UNCHANGED <<live, images, toServer, wanted, sending>>
    PROVE  ImagesInv'
<1>1. /\ live /\ toClient # <<>> /\ toClient' = Tail(toClient) /\ toClient[1].type # "piece"
  BY ReceiveFacts
<1> SUFFICES ASSUME NEW i \in Images
             PROVE  Delivery(i, images, Tail(toClient), ImageDue(i), sending[i.sender])
  BY <1>1 DEF ImagesInv, ImageDue
<1>2. toClient \in Seq(Replies) /\ ImageDue(i) \in Nat
  BY StateFacts
<1>3. Delivery(i, images, toClient, ImageDue(i), sending[i.sender])
  BY <1>1 DEF ImagesInv
<1>4. ~IsPiece(toClient[1], i)
  BY <1>1 DEF IsPiece
<1> DEFINE due == ImageDue(i)
           turn == sending[i.sender]
<1> HIDE DEF due, turn
<1>5. Delivery(i, images, Tail(toClient), due, turn)
  BY <1>1, <1>2, <1>3, <1>4, DeliveryTail DEF due, turn
<1> QED BY <1>5 DEF due, turn

\* An image is asked for.
LEMMA ImagesAsk ==
    ASSUME Shapes, ImagesInv, NEW i \in Images, ImageRequest(i)
    PROVE  ImagesInv'
<1> DEFINE p == [type |-> "image", image |-> i]
<1>1. /\ live /\ images' = Append(images, Requested(i))
      /\ toServer' = IF link = "up" THEN toServer \o <<p>> ELSE toServer
      /\ UNCHANGED <<live, toClient, wanted, sending>>
  BY DEF ImageRequest, Send, peerVars
<1>2. QueueOk(images) /\ images \in Seq(Entries) /\ toServer \in Seq(Requests) /\ toClient \in Seq(Replies)
      /\ wanted \in [Images -> Nat]
  BY <1>1, StateFacts DEF ImagesInv
<1>3. <<p>> \in Seq(Requests)
  BY DEF Requests
<1>4. /\ QueueOk(images')
      /\ \A j \in Images : \A n : Have(images, j, n) => Have(images', j, n)
      /\ \A j \in Images : Count(images', EntriesOf(j)) = Count(images, EntriesOf(j)) + IF j = i THEN 1 ELSE 0
  BY <1>1, <1>2, QueueAppend
<1>5. ASSUME NEW j \in Images
      PROVE  Delivery(j, images', toClient, ImageDue(j)', sending[j.sender])
  <2> DEFINE later == ImageDue(j)'
             due == ImageDue(j)
             turn == sending[j.sender]
  <2>1. due \in Nat /\ due = wanted[j] + Count(toServer, ImageAsked(j))
    BY StateFacts
  <2>2. later = wanted[j] + Count(toServer', ImageAsked(j))
    BY <1>1 DEF ImageDue, ImageAsked
  <2>3. Delivery(j, images, toClient, due, turn)
    BY <1>1 DEF ImagesInv
  <2>4. wanted[j] \in Nat /\ Count(toServer, ImageAsked(j)) \in Nat
    BY <1>2, DueFacts
  <2>5. later = due \/ (later = due + 1 /\ j = i)
    <3>1. p \in ImageAsked(j) <=> j = i
      BY DEF ImageAsked
    <3>2. Count(<<p>>, ImageAsked(j)) = IF j = i THEN 1 ELSE 0
      BY <3>1, CountOne
    <3>3. Count(toServer \o <<p>>, ImageAsked(j)) = Count(toServer, ImageAsked(j)) + Count(<<p>>, ImageAsked(j))
      BY <1>2, <1>3, CountConcat
    <3> HIDE DEF p, later, due
    <3>4. \/ Count(toServer', ImageAsked(j)) = Count(toServer, ImageAsked(j))
          \/ Count(toServer', ImageAsked(j)) = Count(toServer, ImageAsked(j)) + 1 /\ j = i
      <4>1. CASE link = "up"
        <5>1. Count(toServer', ImageAsked(j)) = Count(toServer, ImageAsked(j)) + IF j = i THEN 1 ELSE 0
          BY <1>1, <3>2, <3>3, <4>1 DEF p
        <5> QED BY <2>4, <5>1
      <4>2. CASE link # "up"
        BY <1>1, <4>2
      <4> QED BY <4>1, <4>2
    <3> QED BY <2>1, <2>2, <2>4, <3>4
  <2> HIDE DEF later, due, turn
  <2>6. CASE j = i
    <3>1. Count(images', EntriesOf(j)) = Count(images, EntriesOf(j)) + 1
      BY <1>4, <2>6
    <3>2. later \in Nat /\ later <= due + 1
      BY <2>1, <2>5
    <3>3. Delivery(j, images', toClient, later, turn)
      BY <1>2, <1>4, <2>1, <2>3, <3>1, <3>2, DeliveryMore
    <3> QED BY <3>3 DEF later, turn
  <2>7. CASE j # i
    <3>1. Count(images', EntriesOf(j)) = Count(images, EntriesOf(j))
      <4>1. Count(images, EntriesOf(j)) \in Nat
        BY <1>2, WhereFinite
      <4> QED BY <1>4, <2>7, <4>1
    <3>2. later = due
      BY <2>5, <2>7
    <3>3. PICK t \in Seq(Replies) : DOMAIN t = {} /\ toClient \o t = toClient
      <4>1. <<>> \in Seq(Replies) /\ toClient \o <<>> = toClient /\ DOMAIN <<>> = {}
        BY <1>2
      <4> QED BY <4>1
    <3>4. Delivery(j, images', toClient \o t, due, turn)
      <4>1. due <= due /\ \A k \in DOMAIN t : ~IsPiece(t[k], j)
        BY <2>1, <3>3
      <4>2. turn.image = j => turn.image = j /\ turn.sent = turn.sent
        OBVIOUS
      <4>3. \A n : Have(images, j, n) => Have(images', j, n)
        BY <1>4
      <4> QED BY <1>2, <2>1, <2>3, <3>1, <4>1, <4>2, <4>3, DeliveryOn
    <3> QED BY <3>2, <3>3, <3>4 DEF later, turn
  <2> QED BY <2>6, <2>7
<1> QED BY <1>1, <1>4, <1>5 DEF ImagesInv

\* A piece of an image is sent.
LEMMA ImagesSend ==
    ASSUME Shapes, ImagesInv, NEW i \in Images, PeerSends(i)
    PROVE  ImagesInv'
<1>1. PICK sent \in Nat, len \in Nat \ {0} :
              /\ sent + len <= i.size
              /\ link = "up" /\ live
              /\ \/ sending[i.sender].image = i /\ sent = sending[i.sender].sent /\ sent > 0 /\ UNCHANGED wanted
                 \/ /\ sending[i.sender] = Idle /\ sent = 0
                    /\ wanted[i] > 0 /\ wanted' = [wanted EXCEPT ![i] = @ - 1]
              /\ sending' = [sending EXCEPT ![i.sender] = IF sent + len = i.size THEN Idle
                                                          ELSE [image |-> i, sent |-> sent + len]]
              /\ ToClient([type |-> "piece", image |-> i, first |-> sent = 0, from |-> sent, len |-> len])
              /\ [type |-> "piece", image |-> i, first |-> sent = 0, from |-> sent, len |-> len] \in Pieces
  BY SendsFacts
<1> DEFINE p == [type |-> "piece", image |-> i, first |-> sent = 0, from |-> sent, len |-> len]
           next == IF sent + len = i.size THEN Idle ELSE [image |-> i, sent |-> sent + len]
<1>2. /\ p \in Pieces /\ p \in Replies /\ p.image = i /\ p.first = (sent = 0) /\ p.from = sent /\ p.len = len
  BY <1>1 DEF Replies
<1>3. /\ <<p>> \in Seq(Replies) /\ toClient' = toClient \o <<p>>
      /\ UNCHANGED <<live, images, toServer>>
  BY <1>1, <1>2, PeerFacts DEF sessVars
<1>4. /\ \A j \in Images : j.sender \in Uins /\ j # NULL
      /\ DOMAIN sending = Uins /\ Idle.image = NULL
      /\ sending[i.sender] = Idle => sending[i.sender].image # i
  BY ImageFacts DEF Shapes, TypeOK, Idle
<1>5. /\ next.image = i <=> sent + len # i.size
      /\ next.image = i => next.sent = sent + len
      /\ next.image = i \/ next = Idle
  BY <1>4 DEF Idle
<1>6. \A u \in Uins : sending'[u] = IF u = i.sender THEN next ELSE sending[u]
  BY <1>1, <1>4
<1> HIDE DEF p, next
<1>7. ASSUME NEW j \in Images
      PROVE  Delivery(j, images, toClient \o <<p>>, ImageDue(j)', sending'[j.sender])
  <2> DEFINE later == ImageDue(j)'
             due == ImageDue(j)
             turn == sending[j.sender]
  <2>1. due \in Nat /\ due = wanted[j] + Count(toServer, ImageAsked(j)) /\ toClient \in Seq(Replies)
        /\ wanted \in [Images -> Nat] /\ toServer \in Seq(Requests)
    BY StateFacts
  <2>2. later = wanted'[j] + Count(toServer, ImageAsked(j))
    BY <1>3 DEF ImageDue, ImageAsked
  <2>3. Delivery(j, images, toClient, due, turn)
    BY <1>1 DEF ImagesInv
  <2>4. wanted[j] \in Nat /\ Count(toServer, ImageAsked(j)) \in Nat
    BY <2>1, DueFacts
  <2> HIDE DEF later, due
  <2>5. CASE j = i
    <3>1. \/ turn.image = i /\ p.from = turn.sent /\ later = due
          \/ turn.image # i /\ p.first /\ due = later + 1 /\ later \in Nat
      <4>1. CASE sending[i.sender].image = i /\ sent = sending[i.sender].sent /\ UNCHANGED wanted
        <5>1. later = due
          BY <2>1, <2>2, <4>1
        <5>2. turn.image = i /\ p.from = turn.sent
          BY <1>2, <2>5, <4>1
        <5> HIDE DEF turn
        <5> QED BY <5>1, <5>2
      <4>2. CASE /\ sending[i.sender] = Idle /\ sent = 0
                 /\ wanted[i] > 0 /\ wanted' = [wanted EXCEPT ![i] = @ - 1]
        <5>1. wanted'[i] = wanted[i] - 1
          BY <2>1, <4>2
        <5>2. due = later + 1 /\ later \in Nat
          BY <2>1, <2>2, <2>4, <2>5, <4>2, <5>1
        <5> QED BY <1>2, <1>4, <2>5, <4>2, <5>2
      <4> QED BY <1>1, <4>1, <4>2
    <3>2. sending'[j.sender] = next /\ later \in Nat
      BY <1>4, <1>6, <2>1, <2>5, <3>1
    <3>3. next.image = i <=> p.from + p.len # i.size
      BY <1>2, <1>5
    <3>4. next.image = i => next.sent = p.from + p.len
      BY <1>2, <1>5
    <3> HIDE DEF turn
    <3>5. Delivery(i, images, toClient \o <<p>>, later, next)
      BY <1>2, <2>1, <2>3, <2>5, <3>1, <3>2, <3>3, <3>4, DeliverySend
    <3> QED BY <2>5, <3>2, <3>5 DEF later
  <2>6. CASE j # i
    <3>1. later = due
      <4>1. wanted'[j] = wanted[j]
        BY <1>1, <2>1, <2>6
      <4> QED BY <2>1, <2>2, <4>1
    <3> DEFINE after == sending'[j.sender]
    <3>2. after.image = j => turn.image = j /\ after.sent = turn.sent
      <4>1. CASE j.sender = i.sender
        <5>1. after = next
          BY <1>4, <1>6, <4>1
        <5>2. next.image # j
          BY <1>4, <1>5, <2>6
        <5> HIDE DEF after
        <5> QED BY <5>1, <5>2
      <4>2. CASE j.sender # i.sender
        <5>1. after = turn
          BY <1>4, <1>6, <4>2
        <5> HIDE DEF after
        <5> QED BY <5>1
      <4> QED BY <4>1, <4>2
    <3>3. \A k \in DOMAIN <<p>> : ~IsPiece(<<p>>[k], j)
      BY <1>2, <2>6 DEF IsPiece
    <3> HIDE DEF after, turn
    <3>4. Delivery(j, images, toClient \o <<p>>, later, after)
      <4>1. later \in Nat /\ later <= due
        BY <2>1, <3>1
      <4>2. \A n : Have(images, j, n) => Have(images, j, n)
        OBVIOUS
      <4> QED BY <1>3, <2>1, <2>3, <3>2, <3>3, <4>1, <4>2, DeliveryOn
    <3> QED BY <3>4 DEF later, after
  <2> QED BY <2>5, <2>6
<1> QED BY <1>1, <1>3, <1>7 DEF ImagesInv

\* The last packet of an image
IsLast(p) == p.from + p.len = p.image.size

\* What gg_image_queue_parse does with a piece: it goes to the first entry of its
\* image and continues what is there; with the last one the entry is taken out.
LEMMA PieceFits ==
    ASSUME Shapes, ImagesInv, WatchPiece
    PROVE  /\ live /\ toClient # <<>> /\ toClient' = Tail(toClient) /\ toClient[1] = Packet /\ Packet \in Pieces
           /\ Packet.image \in Images /\ UNCHANGED <<live, toServer, wanted, sending>>
           /\ \E k \in 1..Len(images) : \E e \in Entries :
                 /\ First(images, Packet.image, k)
                 /\ e.image = Packet.image /\ e.done = Packet.from + Packet.len /\ e.filename
                 /\ Len(e.data) = e.image.size /\ \A m \in 1..e.done : e.data[m] = m
                 /\ IF IsLast(Packet)
                    THEN /\ images' = RemoveAt(images, k)
                         /\ event' = [type |-> "IMAGE_REPLY", image |-> e.image, data |-> e.data,
                                      filename |-> e.filename]
                    ELSE images' = [images EXCEPT ![k] = e] /\ event' = NoEvent
<1> DEFINE p == Packet
           i == Packet.image
<1>1. /\ live /\ toClient # <<>> /\ toClient' = Tail(toClient) /\ toClient[1] = p /\ p \in Pieces
      /\ UNCHANGED <<live, toServer, wanted, sending>>
  <2>1. Receive("piece") /\ Quiet /\ p \in Pieces
    BY PieceFacts
  <2> QED BY <2>1, ReceiveFacts DEF Quiet, peerVars, Receive
<1>2. i \in Images /\ IsPiece(toClient[1], i) /\ i.size \in Nat \ {0}
      /\ p.from \in Nat /\ p.len \in Nat \ {0} /\ p.from + p.len <= i.size
  <2>1. p.type = "piece" /\ i \in Images /\ p.from \in Nat /\ p.len \in Nat \ {0} /\ p.from + p.len <= i.size
    BY <1>1 DEF Pieces
  <2> QED BY <1>1, <2>1, ImageFacts DEF IsPiece
<1>3. /\ toClient \in Seq(Replies) /\ images \in Seq(Entries) /\ ImageDue(i) \in Nat
      /\ Delivery(i, images, toClient, ImageDue(i), sending[i.sender]) /\ QueueOk(images)
  BY <1>1, <1>2, StateFacts DEF ImagesInv
<1> HIDE DEF p, i
<1>4. PICK k \in 1..Len(images) : First(images, i, k) /\ (p.first \/ images[k].done = p.from)
  <2> DEFINE due == ImageDue(i)
             turn == sending[i.sender]
  <2>1. due \in Nat /\ Delivery(i, images, toClient, due, turn)
    BY <1>3
  <2> HIDE DEF due, turn
  <2>2. \E k \in 1..Len(images) : First(images, i, k) /\ (toClient[1].first \/ images[k].done = toClient[1].from)
    BY <1>1, <1>2, <1>3, <2>1, DeliveryPiece
  <2> QED BY <1>1, <2>2
<1>5. PICK l \in 1..Len(images) :
        /\ images[l].image = i /\ \A j \in 1..(l - 1) : images[j].image # i
        /\ images[l] \in Entries
        /\ LET w == Written(images[l], p)
           IN  \/ /\ w.done >= w.image.size /\ images' = RemoveAt(images, l)
                  /\ event' = [type |-> "IMAGE_REPLY", image |-> w.image, data |-> w.data,
                               filename |-> w.filename]
               \/ /\ ~(w.done >= w.image.size) /\ images' = [images EXCEPT ![l] = w]
                  /\ event' = NoEvent
  <2>1. k \in DOMAIN images /\ images[k].image = i
    BY <1>3, <1>4, LenProperties DEF First
  <2> QED BY <2>1, PieceFacts DEF p, i
<1>6. l = k
  <2>1. Len(images) \in Nat /\ k \in Nat /\ l \in Nat
    BY <1>3, LenProperties
  <2>2. ~(l < k) /\ ~(k < l)
    <3>1. ASSUME l < k PROVE FALSE
      <4>1. l \in 1..(k - 1)
        BY <2>1, <3>1
      <4> QED BY <1>4, <1>5, <4>1 DEF First
    <3>2. ASSUME k < l PROVE FALSE
      <4>1. k \in 1..(l - 1)
        BY <2>1, <3>2
      <4> QED BY <1>4, <1>5, <4>1 DEF First
    <3> QED BY <3>1, <3>2
  <2> QED BY <2>1, <2>2
<1> DEFINE q == images[k]
           e == Written(q, p)
<1>7. /\ q \in Entries /\ q.image = i /\ Len(q.data) = q.image.size /\ q.done < q.image.size
      /\ (q.done > 0 => q.filename) /\ \A m \in 1..q.done : q.data[m] = m
  <2>1. k \in DOMAIN images
    BY <1>3, LenProperties
  <2> QED BY <1>3, <1>5, <1>6, <2>1 DEF Shapes, TypeOK, QueueOk
<1>8. p.first \/ q.done = p.from
  BY <1>4
<1> HIDE DEF q
<1>9. /\ e \in Entries /\ e.image = i /\ Len(e.data) = e.image.size
      /\ e.done = p.from + p.len /\ e.filename /\ \A m \in 1..e.done : e.data[m] = m
  BY <1>1, <1>7, <1>8, WrittenFacts DEF i, p
<1>10. \/ /\ e.done >= e.image.size /\ images' = RemoveAt(images, k)
          /\ event' = [type |-> "IMAGE_REPLY", image |-> e.image, data |-> e.data, filename |-> e.filename]
       \/ /\ ~(e.done >= e.image.size) /\ images' = [images EXCEPT ![k] = e]
          /\ event' = NoEvent
  BY <1>5, <1>6 DEF q
<1> HIDE DEF e
<1>11. e.done >= e.image.size <=> IsLast(p)
  <2>1. IsLast(p) <=> p.from + p.len = i.size
    BY DEF IsLast, i, p
  <2> QED BY <1>2, <1>9, <2>1
<1>12. IF IsLast(p)
       THEN /\ images' = RemoveAt(images, k)
            /\ event' = [type |-> "IMAGE_REPLY", image |-> e.image, data |-> e.data, filename |-> e.filename]
       ELSE images' = [images EXCEPT ![k] = e] /\ event' = NoEvent
  BY <1>10, <1>11
<1> QED BY <1>1, <1>2, <1>4, <1>9, <1>12 DEF p, i

\* An image that is handed to the program is whole; the last packet hands one over.
LEMMA PieceWhole ==
    ASSUME Shapes, ImagesInv, WatchPiece
    PROVE  /\ ImageIsWhole'
           /\ IsLast(Packet) => event'.type = "IMAGE_REPLY" /\ event'.image = Packet.image
<1>1. PICK k \in 1..Len(images), e \in Entries :
        /\ e.image = Packet.image /\ e.done = Packet.from + Packet.len /\ e.filename
        /\ Len(e.data) = e.image.size /\ \A m \in 1..e.done : e.data[m] = m
        /\ IF IsLast(Packet)
           THEN event' = [type |-> "IMAGE_REPLY", image |-> e.image, data |-> e.data, filename |-> e.filename]
           ELSE event' = NoEvent
  BY PieceFits
<1>2. CASE IsLast(Packet)
  <2>1. e.done = e.image.size
    BY <1>1, <1>2 DEF IsLast
  <2>2. e.data = [m \in 1..e.image.size |-> m]
    <3>1. e.data \in Seq(Nat)
      BY DEF Entries
    <3>2. DOMAIN e.data = 1..e.image.size /\ e.data = [m \in DOMAIN e.data |-> e.data[m]]
      BY <1>1, <3>1, LenProperties
    <3> QED BY <1>1, <2>1, <3>2
  <2> QED BY <1>1, <1>2, <2>2 DEF ImageIsWhole
<1>3. CASE ~IsLast(Packet)
  <2>1. event'.type = "NONE"
    BY <1>1, <1>3 DEF NoEvent
  <2> QED BY <1>3, <2>1 DEF ImageIsWhole
<1> QED BY <1>2, <1>3

\* gg_image_queue_parse: a piece leaves an entry for every image that is due.
LEMMA ImagesPiece ==
    ASSUME Shapes, ImagesInv, WatchPiece
    PROVE  ImagesInv'
<1> DEFINE p == Packet
           i == Packet.image
<1>1. PICK k \in 1..Len(images), e \in Entries :
        /\ First(images, i, k)
        /\ e.image = i /\ e.done = p.from + p.len /\ e.filename
        /\ \A m \in 1..e.done : e.data[m] = m
        /\ IF IsLast(p) THEN images' = RemoveAt(images, k) ELSE images' = [images EXCEPT ![k] = e]
  BY PieceFits
<1>2. /\ live /\ toClient # <<>> /\ toClient' = Tail(toClient) /\ toClient[1] = p /\ p \in Pieces
      /\ i \in Images /\ UNCHANGED <<live, toServer, wanted, sending>> /\ p.type = "piece"
  BY PieceFits DEF Pieces
<1>3. /\ toClient \in Seq(Replies) /\ images \in Seq(Entries) /\ QueueOk(images)
      /\ IsLast(p) <=> p.from + p.len = i.size
  BY <1>2, StateFacts DEF ImagesInv, IsLast
<1> HIDE DEF p
<1> DEFINE r == images'
<1>4. /\ QueueOk(r)
      /\ Have(r, i, IF p.from + p.len = i.size THEN 0 ELSE p.from + p.len)
      /\ \A j \in Images : j # i => \A n : Have(images, j, n) => Have(r, j, n)
      /\ \A j \in Images : Count(images, EntriesOf(j)) =
                              Count(r, EntriesOf(j)) + IF j = i /\ p.from + p.len = i.size THEN 1 ELSE 0
      /\ \A j \in Images : Count(r, EntriesOf(j)) \in Nat
  <2> HIDE DEF i
  <2>1. CASE p.from + p.len = i.size
    <3>1. r = RemoveAt(images, k)
      BY <1>1, <1>3, <2>1
    <3>2. r \in Seq(Entries)
      BY <1>3, <3>1, RemoveAtEntries
    <3>3. /\ QueueOk(r) /\ Have(r, i, 0)
          /\ \A j \in Images : j # i => \A n : Have(images, j, n) => Have(r, j, n)
          /\ \A j \in Images : Count(images, EntriesOf(j)) = Count(r, EntriesOf(j)) + IF j = i THEN 1 ELSE 0
      BY <1>1, <1>2, <1>3, <3>1, QueueRemove
    <3> HIDE DEF r
    <3>4. \A j \in Images : Count(r, EntriesOf(j)) \in Nat
      BY <3>2, WhereFinite
    <3> QED BY <2>1, <3>3, <3>4
  <2>2. CASE p.from + p.len # i.size
    <3>1. r = [images EXCEPT ![k] = e]
      BY <1>1, <1>3, <2>2
    <3>2. /\ QueueOk(r) /\ Have(r, i, e.done)
          /\ \A j \in Images : j # i => \A n : Have(images, j, n) => Have(r, j, n)
          /\ \A j \in Images : Count(r, EntriesOf(j)) = Count(images, EntriesOf(j))
      <4>1. /\ First(images, i, k) /\ e.image = i /\ e.filename
            /\ \A m \in 1..e.done : e.data[m] = m
        BY <1>1
      <4>2. images \in Seq(Entries) /\ QueueOk(images) /\ i \in Images
        BY <1>2, <1>3
      <4> HIDE DEF r
      <4> QED BY <3>1, <4>1, <4>2, QueueWrite
    <3>3. \A j \in Images : Count(images, EntriesOf(j)) \in Nat
      BY <1>3, WhereFinite
    <3> HIDE DEF r
    <3> QED BY <1>1, <2>2, <3>2, <3>3
  <2> QED BY <2>1, <2>2
<1> HIDE DEF i, r
<1>5. ASSUME NEW j \in Images PROVE Delivery(j, r, Tail(toClient), ImageDue(j), sending[j.sender])
  <2> DEFINE due == ImageDue(j)
             turn == sending[j.sender]
  <2>1. due \in Nat /\ Delivery(j, images, toClient, due, turn)
    BY <1>2, StateFacts DEF ImagesInv
  <2> HIDE DEF due, turn
  <2>2. CASE j = i
    <3>1. IsPiece(toClient[1], j)
      BY <1>2, <2>2 DEF IsPiece, i, p
    <3>2. \A x : Have(x, j, IF toClient[1].from + toClient[1].len = j.size THEN 0
                            ELSE toClient[1].from + toClient[1].len)
                 /\ Count(images, EntriesOf(j)) =
                      Count(x, EntriesOf(j)) + (IF toClient[1].from + toClient[1].len = j.size THEN 1 ELSE 0)
                 /\ Count(x, EntriesOf(j)) \in Nat
                 => Delivery(j, x, Tail(toClient), due, turn)
      BY <1>2, <1>3, <2>1, <3>1, DeliveryPiece
    <3>3. /\ Have(r, j, IF p.from + p.len = j.size THEN 0 ELSE p.from + p.len)
          /\ Count(images, EntriesOf(j)) = Count(r, EntriesOf(j)) + (IF p.from + p.len = j.size THEN 1 ELSE 0)
          /\ Count(r, EntriesOf(j)) \in Nat
      BY <1>4, <2>2
    <3> QED BY <1>2, <3>2, <3>3 DEF due, turn
  <2>3. CASE j # i
    <3>1. ~IsPiece(toClient[1], j)
      BY <1>2, <2>3 DEF IsPiece, i, p
    <3>2. Count(r, EntriesOf(j)) = Count(images, EntriesOf(j))
      BY <1>4, <2>3
    <3>3. \A n : Have(images, j, n) => Have(r, j, n)
      BY <1>4, <2>3
    <3>4. Delivery(j, r, Tail(toClient), due, turn)
      BY <1>2, <1>3, <2>1, <3>1, <3>2, <3>3, DeliveryTail
    <3> QED BY <3>4 DEF due, turn
  <2> QED BY <2>2, <2>3
<1> QED BY <1>2, <1>4, <1>5 DEF ImagesInv, ImageDue, r

\* A new session has asked for no image.
LEMMA ImagesInit == Init => ImagesInv
<1> SUFFICES ASSUME Init
             PROVE  QueueOk(images)
                    /\ \A i \in Images : Delivery(i, images, toClient, ImageDue(i), sending[i.sender])
  BY DEF ImagesInv
<1>1. /\ images = <<>> /\ toServer = <<>> /\ toClient = <<>>
      /\ \A i \in Images : wanted[i] = 0 /\ sending[i.sender] = Idle
  BY ImageFacts DEF Init
<1>2. QueueOk(images)
  BY <1>1 DEF QueueOk
<1>3. ASSUME NEW i \in Images PROVE Delivery(i, images, toClient, ImageDue(i), sending[i.sender])
  <2> DEFINE a == [got |-> 0, left |-> 0]
  <2>1. Have(images, i, 0)
    BY <1>1 DEF Have
  <2>2. Count(images, EntriesOf(i)) = 0 /\ Count(toServer, ImageAsked(i)) = 0
    <3>1. <<>> \in Seq(Entries) /\ <<>> \in Seq(Requests) /\ DOMAIN <<>> = {}
      OBVIOUS
    <3>2. \A P : Count(<<>>, P) = 0
      BY <3>1, WhereFinite
    <3> QED BY <1>1, <3>2
  <2>3. Leads(Reads(i), a, toClient, a)
    <3>1. PICK t \in Seq(Replies) : t = toClient /\ DOMAIN t = {}
      <4>1. <<>> \in Seq(Replies) /\ DOMAIN <<>> = {}
        OBVIOUS
      <4> QED BY <1>1, <4>1
    <3> HIDE DEF a
    <3>2. Leads(Reads(i), a, t, a)
      BY <3>1, LeadsNowhere
    <3> QED BY <3>1, <3>2
  <2>4. a \in Holds /\ a.got = 0 /\ a.left = 0
    BY DEF Holds
  <2>5. ImageDue(i) = 0 /\ sending[i.sender].image # i
    BY <1>1, <2>2, ImageFacts DEF ImageDue, ImageAsked, Idle
  <2> HIDE DEF a
  <2> QED BY <2>1, <2>2, <2>3, <2>4, <2>5 DEF Delivery
<1> QED BY <1>2, <1>3

\* Nothing that the images depend on changes, or less is due.
LEMMA ImagesQuiet ==
    ASSUME Shapes, Shapes', ImagesInv, live' => live, UNCHANGED <<images, toClient>>,
           \A i \in Images : ImageDue(i)' <= ImageDue(i),
           \A i \in Images : sending'[i.sender].image = i => sending'[i.sender] = sending[i.sender]
    PROVE  ImagesInv'
<1>1. PICK t \in Seq(Replies) : DOMAIN t = {} /\ toClient' = toClient \o t
  <2>1. <<>> \in Seq(Replies) /\ DOMAIN <<>> = {} /\ toClient \o <<>> = toClient
    BY StateFacts
  <2> QED BY <2>1
<1>2. \A k \in DOMAIN t : t[k].type # "piece"
  BY <1>1
<1> QED BY <1>1, <1>2, ImagesSame

\* The program's requests: an image is asked for when there is an entry for it.
LEMMA ImagesRequest ==
    ASSUME Shapes, ImagesInv, Request
    PROVE  ImagesInv'
<1>1. PICK packets \in Seq(Requests) :
         /\ live /\ UNCHANGED <<program, live, link, toClient, peerVars, event, userlist_reply>>
         /\ toServer' = IF link = "up" THEN toServer \o packets ELSE toServer
         /\ \/ /\ \A k \in DOMAIN packets : packets[k].type \notin {"put", "image"}
               /\ UNCHANGED <<images, userlist_blocks, clean, reported>>
            \/ ImportList /\ packets = <<[type |-> "get"]>> /\ UNCHANGED images
            \/ \E n \in ListLengths : \E p \in Nat \ {0} :
                  ExportList(n) /\ packets = [k \in 1..p |-> [type |-> "put"]] /\ UNCHANGED images
                    /\ userlist_blocks' = p
            \/ \E i \in Images : /\ ImageRequest(i) /\ packets = <<[type |-> "image", image |-> i]>>
                                 /\ UNCHANGED <<userlist_blocks, clean, reported>>
  BY RequestFacts
<1>2. CASE \E i \in Images : ImageRequest(i)
  BY <1>2, ImagesAsk
<1>3. ASSUME \A k \in DOMAIN packets : packets[k].type # "image", UNCHANGED images
      PROVE  ImagesInv'
  <2>1. Shapes'
    BY ShapesRequest
  <2>2. ASSUME NEW i \in Images PROVE ImageDue(i)' <= ImageDue(i)
    <3>1. /\ toServer \in Seq(Requests) /\ wanted[i] \in Nat /\ Count(toServer, ImageAsked(i)) \in Nat
          /\ ImageDue(i) = wanted[i] + Count(toServer, ImageAsked(i))
      BY StateFacts, DueFacts
    <3>2. Count(packets, ImageAsked(i)) = 0
      <4>1. \A k \in DOMAIN packets : packets[k] \notin ImageAsked(i)
        BY <1>3 DEF ImageAsked
      <4> QED BY <4>1, WhereFinite
    <3>3. Count(toServer \o packets, ImageAsked(i)) = Count(toServer, ImageAsked(i)) + 0
      BY <3>1, <3>2, CountConcat
    <3>4. Count(toServer', ImageAsked(i)) = Count(toServer, ImageAsked(i))
      BY <1>1, <3>1, <3>3
    <3>5. ImageDue(i)' = wanted[i] + Count(toServer', ImageAsked(i))
      BY <1>1 DEF ImageDue, ImageAsked, peerVars
    <3> QED BY <3>1, <3>4, <3>5
  <2>3. UNCHANGED <<live, images, toClient, sending>>
    BY <1>1, <1>3 DEF peerVars
  <2> QED BY <2>1, <2>2, <2>3, ImagesQuiet
<1>4. CASE packets = <<[type |-> "get"]>> /\ UNCHANGED images
  <2>1. \A k \in DOMAIN packets : packets[k].type # "image"
    BY <1>4
  <2> QED BY <1>3, <1>4, <2>1
<1>5. ASSUME NEW p \in Nat \ {0}, packets = [k \in 1..p |-> [type |-> "put"]], UNCHANGED images
      PROVE  ImagesInv'
  <2>1. \A k \in DOMAIN packets : packets[k].type # "image"
    BY <1>5
  <2> QED BY <1>3, <1>5, <2>1
<1>6. CASE /\ \A k \in DOMAIN packets : packets[k].type \notin {"put", "image"}
           /\ UNCHANGED <<images, userlist_blocks, clean, reported>>
  BY <1>3, <1>6
<1> QED BY <1>1, <1>2, <1>4, <1>5, <1>6

\* The server asks the peers for as many images as it was asked for.
LEMMA ImagesServe ==
    ASSUME Shapes, ImagesInv, Serve
    PROVE  ImagesInv'
<1>1. /\ toServer # <<>> /\ toServer' = Tail(toServer) /\ toServer[1] \in Requests
      /\ UNCHANGED <<live, images, sending>>
  <2>1. UNCHANGED sending
    BY ServeFacts DEF peerVars
  <2> QED BY <2>1, ServeFacts DEF sessVars
<1>2. PICK t \in Seq(Replies) :
         /\ toClient' = toClient \o t /\ \A k \in DOMAIN t : t[k].type # "piece"
  <2>1. \A k \in DOMAIN <<EmptyList>> : <<EmptyList>>[k].type # "piece"
    BY DEF EmptyList
  <2>2. ASSUME NEW n \in 1..MaxParts PROVE \A k \in DOMAIN ListParts(n) : ListParts(n)[k].type # "piece"
    BY DEF ListParts
  <2>3. ASSUME NEW r, r.type \in {"PONG", "ACK", "found", "put_reply"} PROVE \A k \in DOMAIN <<r>> : <<r>>[k].type # "piece"
    BY <2>3
  <2>4. DOMAIN <<>> = {}
    OBVIOUS
  <2> QED BY <2>1, <2>2, <2>3, <2>4, ServeFacts
<1>3. \/ toServer[1].type # "image" /\ UNCHANGED wanted
      \/ toServer[1].type = "image" /\ wanted' = [wanted EXCEPT ![toServer[1].image] = @ + 1]
  BY ServeFacts DEF peerVars
<1>4. ASSUME NEW i \in Images PROVE ImageDue(i)' <= ImageDue(i)
  <2>1. /\ toServer \in Seq(Requests) /\ wanted \in [Images -> Nat] /\ Count(toServer, ImageAsked(i)) \in Nat
        /\ ImageDue(i) = wanted[i] + Count(toServer, ImageAsked(i)) /\ wanted[i] \in Nat
    BY StateFacts, DueFacts
  <2>2. Count(toServer, ImageAsked(i)) =
          Count(toServer', ImageAsked(i)) + IF toServer[1] \in ImageAsked(i) THEN 1 ELSE 0
    BY <1>1, <2>1, CountTail
  <2>3. toServer[1] \in ImageAsked(i) <=> toServer[1].type = "image" /\ toServer[1].image = i
    BY <1>1, RequestForms DEF ImageAsked
  <2>4. Tail(toServer) \in Seq(Requests)
    BY <1>1, <2>1, TailEntries
  <2>5. Count(toServer', ImageAsked(i)) \in Nat
    BY <1>1, <2>1, <2>4, DueFacts
  <2>6. wanted'[i] = wanted[i] + IF toServer[1] \in ImageAsked(i) THEN 1 ELSE 0
    BY <1>3, <2>1, <2>3
  <2>7. ImageDue(i)' = wanted'[i] + Count(toServer', ImageAsked(i))
    BY DEF ImageDue, ImageAsked
  <2> QED BY <2>1, <2>2, <2>5, <2>6, <2>7
<1>5. Shapes'
  BY ShapesServe
<1> QED BY <1>1, <1>2, <1>4, <1>5, ImagesSame

\* A packet of another kind is read, or none.
LEMMA ImagesWatch ==
    ASSUME Shapes, ImagesInv, Watch
    PROVE  ImagesInv'
<1>1. ASSUME NEW type, Receive(type), type # "piece", Quiet, UNCHANGED images PROVE ImagesInv'
  <2>1. UNCHANGED <<live, images, toServer, wanted, sending>>
    BY <1>1 DEF Quiet, Receive, peerVars
  <2> QED BY <1>1, <2>1, ImagesRead
<1>2. CASE WatchBroken
  <2>1. UNCHANGED <<live, images, toServer, toClient, wanted, sending>>
    BY <1>2 DEF WatchBroken, Quiet, peerVars
  <2>2. \A i \in Images : ImageDue(i) \in Nat /\ ImageDue(i)' = ImageDue(i)
    BY <2>1, StateFacts DEF ImageDue
  <2>3. \A i \in Images : ImageDue(i)' <= ImageDue(i)
    BY <2>2
  <2>4. Shapes'
    BY ShapesWatch
  <2> QED BY <2>1, <2>3, <2>4, ImagesQuiet
<1>3. CASE WatchMsg
  BY <1>1, <1>3 DEF WatchMsg
<1>4. CASE WatchNotify
  BY <1>1, <1>4 DEF WatchNotify
<1>5. CASE WatchAck
  BY <1>1, <1>5 DEF WatchAck
<1>6. CASE WatchPubdir
  BY <1>1, <1>6 DEF WatchPubdir
<1>7. CASE WatchNoImage
  BY <1>1, <1>7 DEF WatchNoImage
<1>8. CASE WatchPiece
  BY <1>8, ImagesPiece
<1>9. CASE WatchPutReply
  BY <1>1, <1>9 DEF WatchPutReply
<1>10. CASE WatchList
  BY <1>1, <1>10 DEF WatchList
<1> QED BY <1>2, <1>3, <1>4, <1>5, <1>6, <1>7, <1>8, <1>9, <1>10 DEF Watch

\* Every step keeps an entry for every image that is due.
LEMMA ImagesStep ==
    ASSUME Shapes, ImagesInv, [Next]_vars
    PROVE  ImagesInv'
<1>1. Shapes'
  BY ShapesStep
<1>2. ASSUME live' => live, UNCHANGED <<images, toClient, toServer, wanted>>,
             \A u \in Uins : sending'[u] = sending[u] \/ sending'[u] = Idle
      PROVE  ImagesInv'
  <2>1. \A i \in Images : ImageDue(i) \in Nat /\ ImageDue(i)' = ImageDue(i)
    BY <1>2, StateFacts DEF ImageDue
  <2>2. \A i \in Images : ImageDue(i)' <= ImageDue(i)
    BY <2>1
  <2>3. ASSUME NEW i \in Images, sending'[i.sender].image = i PROVE sending'[i.sender] = sending[i.sender]
    BY <1>2, <2>3, ImageFacts DEF Idle
  <2> QED BY <1>1, <1>2, <2>2, <2>3, ImagesQuiet
<1>3. CASE UNCHANGED vars
  BY <1>2, <1>3 DEF vars, sessVars, wireVars, peerVars
<1>4. CASE FreeSession
  <2>1. ~live'
    BY <1>4, Zenon DEF FreeSession
  <2> QED BY <2>1 DEF ImagesInv
<1>5. ASSUME NEW p \in Replies, p.type # "piece", ToClient(p), UNCHANGED sending,
             \A i \in Images : wanted'[i] <= wanted[i]
      PROVE  ImagesInv'
  <2>1. /\ <<p>> \in Seq(Replies) /\ toClient' = toClient \o <<p>> /\ UNCHANGED <<live, toServer, images>>
    BY <1>5, PeerFacts DEF sessVars
  <2>2. \A k \in DOMAIN <<p>> : <<p>>[k].type # "piece"
    BY <1>5
  <2>3. ASSUME NEW i \in Images PROVE ImageDue(i)' <= ImageDue(i)
    <3>1. /\ wanted[i] \in Nat /\ Count(toServer, ImageAsked(i)) \in Nat
          /\ ImageDue(i) = wanted[i] + Count(toServer, ImageAsked(i))
      BY StateFacts, DueFacts
    <3>2. wanted'[i] \in Nat /\ ImageDue(i)' = wanted'[i] + Count(toServer, ImageAsked(i))
      <4>1. wanted' \in [Images -> Nat]
        BY <1>1 DEF Shapes, TypeOK
      <4> QED BY <2>1, <4>1 DEF ImageDue, ImageAsked
    <3>3. wanted'[i] <= wanted[i]
      BY <1>5
    <3> QED BY <3>1, <3>2, <3>3
  <2> QED BY <1>1, <1>5, <2>1, <2>2, <2>3, ImagesSame
<1>6. CASE PeerNext
  BY <1>6, ImagesSend DEF PeerNext
<1>7. ASSUME NEW i \in Images, PeerRefuses(i) PROVE ImagesInv'
  <2>1. [type |-> "image_empty", image |-> i] \in Replies
    BY DEF Replies
  <2>2. \A j \in Images : wanted'[j] <= wanted[j]
    <3>1. wanted \in [Images -> Nat] /\ wanted' = [wanted EXCEPT ![i] = @ - 1]
      BY <1>7, StateFacts DEF PeerRefuses
    <3> QED BY <3>1
  <2> QED BY <1>5, <1>7, <2>1, <2>2 DEF PeerRefuses
<1>8. ASSUME NEW u \in Uins, PeerBreaks(u) PROVE ImagesInv'
  <2>1. \A x \in Uins : sending'[x] = sending[x] \/ sending'[x] = Idle
    BY <1>8 DEF PeerBreaks, Shapes, TypeOK
  <2> QED BY <1>2, <1>8, <2>1 DEF PeerBreaks, sessVars, wireVars
<1>9. CASE Chatter
  <2>1. PICK p \in Replies : p.type \in {"msg", "notify"} /\ ToClient(p) /\ UNCHANGED peerVars
    BY <1>9, ChatterFacts
  <2>2. UNCHANGED <<sending, wanted>>
    BY <2>1 DEF peerVars
  <2>3. \A i \in Images : wanted'[i] <= wanted[i]
    BY <2>2, StateFacts
  <2> QED BY <1>5, <2>1, <2>2, <2>3
<1>10. CASE Hangup
  <2>1. toServer' = <<>> /\ UNCHANGED <<live, images, toClient, wanted, sending>>
    BY <1>10 DEF Hangup, sessVars, peerVars
  <2>2. ASSUME NEW i \in Images PROVE ImageDue(i)' <= ImageDue(i)
    <3>1. /\ wanted[i] \in Nat /\ Count(toServer, ImageAsked(i)) \in Nat
          /\ ImageDue(i) = wanted[i] + Count(toServer, ImageAsked(i))
      BY StateFacts, DueFacts
    <3>2. Count(toServer', ImageAsked(i)) = 0
      <4>1. <<>> \in Seq(Requests) /\ DOMAIN <<>> = {}
        OBVIOUS
      <4>2. Count(<<>>, ImageAsked(i)) = 0
        BY <4>1, WhereFinite
      <4> QED BY <2>1, <4>2
    <3>3. ImageDue(i)' = wanted[i] + Count(toServer', ImageAsked(i))
      BY <2>1 DEF ImageDue, ImageAsked
    <3> QED BY <3>1, <3>2, <3>3
  <2> QED BY <1>1, <2>1, <2>2, ImagesQuiet
<1> QED BY <1>3, <1>4, <1>6, <1>7, <1>8, <1>9, <1>10, ImagesRequest, ImagesServe, ImagesWatch DEF Next

\* Only the last packet of an image hands one to the program.
LEMMA WholeStep ==
    ASSUME Shapes, ImagesInv, ImageIsWhole, [Next]_vars
    PROVE  ImageIsWhole'
<1>1. ASSUME UNCHANGED event PROVE ImageIsWhole'
  BY <1>1 DEF ImageIsWhole
<1>2. ASSUME event'.type # "IMAGE_REPLY" PROVE ImageIsWhole'
  BY <1>2 DEF ImageIsWhole
<1>3. CASE UNCHANGED vars
  BY <1>1, <1>3 DEF vars
<1>4. CASE Request
  BY <1>1, <1>4, RequestFacts
<1>5. CASE FreeSession
  BY <1>2, <1>5 DEF FreeSession, NoEvent
<1>6. CASE Serve
  BY <1>1, <1>6, ServeFacts
<1>7. CASE PeerNext \/ (\E i \in Images : PeerRefuses(i))
  BY <1>1, <1>7 DEF PeerNext, PeerSends, PeerRefuses, ToClient
<1>8. CASE (\E u \in Uins : PeerBreaks(u)) \/ Chatter \/ Hangup
  BY <1>1, <1>8 DEF PeerBreaks, Chatter, ToClient, Hangup
<1>9. CASE Watch
  <2>1. CASE WatchMsg
    BY <1>2, <2>1 DEF WatchMsg, NoEvent
  <2>2. CASE WatchNotify
    BY <1>2, <2>2 DEF WatchNotify
  <2>3. CASE WatchAck
    BY <1>2, <2>3 DEF WatchAck, Receive
  <2>4. CASE WatchPubdir
    BY <1>2, <2>4 DEF WatchPubdir
  <2>5. CASE WatchNoImage
    BY <2>5 DEF WatchNoImage, ImageIsWhole
  <2>6. CASE WatchPiece
    BY <2>6, PieceWhole
  <2>7. CASE WatchPutReply
    BY <1>2, <2>7 DEF WatchPutReply, NoEvent
  <2>8. CASE WatchList
    BY <1>2, <2>8 DEF WatchList, NoEvent
  <2>9. CASE WatchBroken
    BY <1>2, <2>9 DEF WatchBroken
  <2> QED BY <1>9, <2>1, <2>2, <2>3, <2>4, <2>5, <2>6, <2>7, <2>8, <2>9 DEF Watch
<1> QED BY <1>3, <1>4, <1>5, <1>6, <1>7, <1>8, <1>9 DEF Next

\* What a step must do when it takes the last packet of an image.
Reports ==
    toClient # <<>> /\ toClient' = Tail(toClient) /\ live'
    /\ Packet.type = "piece" /\ Packet.from + Packet.len = Packet.image.size
       => event'.type = "IMAGE_REPLY" /\ event'.image = Packet.image

\* The last piece of an image is taken by gg_watch_fd only, and reported.
LEMMA ReportStep ==
    ASSUME Shapes, ImagesInv, [Next]_vars
    PROVE  Reports
<1> SUFFICES ASSUME toClient # <<>>, toClient' = Tail(toClient), live',
                    Packet.type = "piece", Packet.from + Packet.len = Packet.image.size
             PROVE  event'.type = "IMAGE_REPLY" /\ event'.image = Packet.image
  BY DEF Reports
<1>1. /\ toClient \in Seq(Replies) /\ Len(toClient) \in Nat \ {0} /\ Len(toClient') = Len(toClient) - 1
  BY StateFacts, TailEntries
<1>2. ASSUME NEW t, Len(t) \in Nat, Len(t) >= Len(toClient) PROVE toClient' # t
  <2>1. ASSUME toClient' = t PROVE Len(toClient') = Len(t)
    BY <2>1
  <2>2. ASSUME NEW a \in Nat \ {0}, NEW b \in Nat, b >= a PROVE a - 1 # b
    BY <2>2
  <2>3. Len(toClient) - 1 # Len(t)
    BY <1>1, <1>2, <2>2
  <2> QED BY <1>1, <2>1, <2>3
<1>3. toClient' # toClient
  <2>1. Len(toClient) \in Nat /\ Len(toClient) >= Len(toClient)
    BY <1>1
  <2> QED BY <1>2, <2>1
<1>4. ASSUME NEW t \in Seq(Replies) PROVE toClient' # toClient \o t
  <2>1. Len(t) \in Nat /\ Len(toClient \o t) = Len(toClient) + Len(t)
    BY <1>1, ConcatEntries
  <2>2. Len(toClient \o t) \in Nat /\ Len(toClient \o t) >= Len(toClient)
    BY <1>1, <2>1
  <2> QED BY <1>2, <2>2
<1>5. ~UNCHANGED vars /\ ~Request /\ ~FreeSession /\ ~(\E u \in Uins : PeerBreaks(u)) /\ ~Hangup
  <2>1. ~UNCHANGED vars
    BY <1>3 DEF vars, wireVars
  <2>2. ~Request
    BY <1>3, RequestFacts
  <2>3. ~FreeSession
    <3>1. ASSUME FreeSession PROVE ~live'
      BY <3>1, Zenon DEF FreeSession
    <3> QED BY <3>1
  <2>4. ~(\E u \in Uins : PeerBreaks(u)) /\ ~Hangup
    BY <1>3 DEF PeerBreaks, Hangup, wireVars
  <2> QED BY <2>1, <2>2, <2>3, <2>4
<1>6. ~Serve
  BY <1>4, ServeFacts
<1>7. ASSUME NEW p \in Replies, ToClient(p) PROVE FALSE
  <2>1. <<p>> \in Seq(Replies) /\ toClient' = toClient \o <<p>>
    BY <1>7, PeerFacts
  <2> QED BY <1>4, <2>1
<1>8. ~PeerNext
  <2>1. ASSUME NEW i \in Images, PeerSends(i) PROVE FALSE
    <3>1. \E p \in Pieces : ToClient(p)
      BY <2>1, SendsFacts
    <3>2. Pieces \subseteq Replies
      BY DEF Replies
    <3> QED BY <1>7, <3>1, <3>2
  <2> QED BY <2>1 DEF PeerNext
<1>9. ~\E i \in Images : PeerRefuses(i)
  <2>1. ASSUME NEW i \in Images, PeerRefuses(i) PROVE FALSE
    <3>1. [type |-> "image_empty", image |-> i] \in Replies
      BY DEF Replies
    <3> QED BY <1>7, <2>1, <3>1 DEF PeerRefuses
  <2> QED BY <2>1
<1>10. ~Chatter
  BY <1>7, ChatterFacts
<1>11. Watch
  BY <1>5, <1>6, <1>8, <1>9, <1>10 DEF Next
<1>12. ASSUME NEW type, Receive(type) PROVE type = "piece"
  BY <1>12 DEF Receive
<1>13. WatchPiece
  <2>1. ~WatchBroken
    BY <1>3 DEF WatchBroken
  <2>2. ~WatchMsg /\ ~WatchNotify /\ ~WatchAck /\ ~WatchPubdir /\ ~WatchNoImage /\ ~WatchPutReply /\ ~WatchList
    BY <1>12 DEF WatchMsg, WatchNotify, WatchAck, WatchPubdir, WatchNoImage, WatchPutReply, WatchList
  <2> QED BY <1>11, <2>1, <2>2 DEF Watch
<1> QED BY <1>13, PieceWhole DEF IsLast

--------------------------------------------------------------------------------
(***************************************************************************)
(* The theorems.                                                           *)
(***************************************************************************)
\* the inductive invariant
IInv == Shapes /\ ListsInv /\ ListIsWhole /\ PutsInv /\ KnownInv /\ ImagesInv /\ ImageIsWhole

\* All parts of the invariant hold together.
LEMMA Inductive == Spec => []IInv
<1>1. Init => IInv
  <2> SUFFICES ASSUME Init PROVE IInv
    OBVIOUS
  <2>1. event.type = "NONE"
    BY DEF Init, NoEvent
  <2>2. ListIsWhole /\ ImageIsWhole
    BY <2>1 DEF ListIsWhole, ImageIsWhole
  <2> QED BY <2>2, ShapesInit, ListsInit, PutsInit, KnownInit, ImagesInit DEF IInv
<1>2. IInv /\ [Next]_vars => IInv'
  BY ShapesStep, ListsStep, PutsStep, KnownStep, ImagesStep, WholeStep DEF IInv
<1> QED BY <1>1, <1>2, PTL DEF Spec

\* Images and lists are handed to the program whole, whatever was asked for in
\* between and whoever was cut off; an export that no other transfer overlaps is
\* reported once, when all of it has been answered (gg_image_queue_parse,
\* userlist_reply, userlist_blocks).
THEOREM RepliesWhole == Spec => []RepliesAreWhole
<1>1. IInv => RepliesAreWhole
  BY PutsReported DEF IInv, RepliesAreWhole
<1> QED BY <1>1, Inductive, PTL

\* Whenever gg_watch_fd takes the last packet of an image, there is an entry for
\* it in the queue and it is reported (gg_image_queue_parse, gg_image_queue_remove).
THEOREM SentReported == Spec => SentIsReported
<1>1. IInv /\ [Next]_vars => Reports
  BY ReportStep DEF IInv
<1>2. IInv /\ [Next]_vars => [Reports]_vars
  BY <1>1
<1>3. [][Reports]_vars => SentIsReported
  BY PTL DEF Reports, SentIsReported
<1> QED BY <1>2, <1>3, Inductive, PTL DEF Spec

\* When the server has taken every request it knows whom to watch and what status
\* to show, and, unless numbers wrap around, no two messages of a session have
\* the same number (gg_notify_ex, gg_add_notify_ex, gg_remove_notify_ex,
\* gg_change_status, gg_send_message_confer_richtext).
THEOREM RequestsAreKnown ==
    ASSUME NEW D \in Nat, NoWrap(D)
    PROVE  Spec => []RequestsKnown
<1>1. Init => NumbersInv(D)
  BY NumbersInit
<1>2. IInv /\ NumbersInv(D) /\ [Next]_vars => NumbersInv(D)'
  BY NumbersStep DEF IInv
<1>3. IInv /\ NumbersInv(D) => RequestsKnown
  BY KnownIsAsked, NumbersApart DEF IInv, RequestsKnown
<1> QED BY <1>1, <1>2, <1>3, Inductive, PTL DEF Spec
================================================================================
