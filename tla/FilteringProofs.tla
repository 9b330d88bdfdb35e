-------------------------- MODULE FilteringProofs ---------------------------
(***************************************************************************)
(* What filtering a sequence yields, for every sequence and every set, and *)
(* what joining sequences does.                                            *)
(* Induction is over sets of naturals, as no prover here instantiates a    *)
(* theorem that takes a predicate.                                         *)
(***************************************************************************)
EXTENDS Filtering, SequencesExt, WellFoundedInduction, FiniteSetTheorems, TLAPS

(* A set of naturals has a least element, and one that has 0 and with a    *)
(* number the next is all of them.                                         *)
LEMMA Least ==
  ASSUME NEW T \in SUBSET Nat, T # {}
  PROVE  \E m \in T : \A k \in T : m <= k
<1> DEFINE R == OpToRel(<, Nat)
<1>1. IsWellFoundedOn(R, Nat)
  BY NatLessThanWellFounded
<1> HIDE DEF R
<1>2. PICK m \in T : \A k \in T : <<k, m>> \notin R
  BY <1>1, WFMin
<1>3. \A k \in T : ~(k < m)
  BY <1>2 DEF R, OpToRel
<1>4. \A k \in T : k \in Nat /\ m \in Nat
  OBVIOUS
<1> QED
  BY <1>3, <1>4

LEMMA SetInduction ==
  ASSUME NEW T \in SUBSET Nat, 0 \in T, \A n \in T : n + 1 \in T
  PROVE  T = Nat
<1> SUFFICES ASSUME Nat \ T # {} PROVE FALSE
  OBVIOUS
<1>1. PICK x \in Nat \ T : \A k \in Nat \ T : x <= k
  BY Least
<1>2. x # 0 /\ x - 1 \in Nat /\ ~(x <= x - 1) /\ (x - 1) + 1 = x
  OBVIOUS
<1>3. x - 1 \in T
  BY <1>1, <1>2
<1> QED
  BY <1>2, <1>3

(* A function over 0..n whose value at i is computed from the one at i - 1 *)
(* exists: the recursive definitions of the models define something.       *)
Computed(S, base, step, n) ==
  {g \in [0..n -> S] : g = [i \in 0..n |-> IF i = 0 THEN base ELSE step[i][g[i - 1]]]}

LEMMA RecursiveFunction ==
  ASSUME NEW S, NEW base \in S, NEW step \in [Nat -> [S -> S]], NEW n \in Nat
  PROVE  Computed(S, base, step, n) # {}
<1> DEFINE Rec(g, k) == g = [i \in 0..k |-> IF i = 0 THEN base ELSE step[i][g[i - 1]]]
           T == {k \in Nat : \E g \in [0..k -> S] : Rec(g, k)}
<1>1. 0 \in T
  <2> DEFINE g == [i \in 0..0 |-> base]
  <2>1. g \in [0..0 -> S] /\ Rec(g, 0)
    OBVIOUS
  <2> QED
    BY <2>1
<1>2. ASSUME NEW k \in T PROVE k + 1 \in T
  <2>1. PICK g \in [0..k -> S] : Rec(g, k)
    OBVIOUS
  <2> DEFINE h == [i \in 0..k + 1 |-> IF i = k + 1 THEN step[k + 1][g[k]] ELSE g[i]]
  <2>2. h \in [0..k + 1 -> S]
    OBVIOUS
  <2>3. ASSUME NEW i \in 0..k + 1
        PROVE  h[i] = IF i = 0 THEN base ELSE step[i][h[i - 1]]
    <3>1. CASE i = k + 1
      BY <3>1
    <3>2. CASE i \in 0..k
      <4>1. h[i] = g[i] /\ (i # 0 => h[i - 1] = g[i - 1])
        BY <3>2
      <4>2. g[i] = IF i = 0 THEN base ELSE step[i][g[i - 1]]
        BY <2>1, <3>2
      <4> QED
        BY <4>1, <4>2
    <3> QED
      BY <3>1, <3>2
  <2> HIDE DEF h
  <2>4. Rec(h, k + 1)
    BY <2>2, <2>3
  <2> HIDE DEF Rec
  <2> QED
    BY <2>2, <2>4
<1>3. T = Nat
  <2> HIDE DEF T
  <2>1. T \subseteq Nat
    BY DEF T
  <2> QED
    BY <1>1, <1>2, <2>1, SetInduction
<1> QED
  BY <1>3 DEF Computed

(* What holds of nothing and stays with every element holds of the result: *)
(* I[i] is what may be kept of the first i elements.                       *)
LEMMA OnlyInduction ==
  ASSUME NEW S, NEW s \in Seq(S), NEW T, NEW I \in [Nat -> SUBSET Seq(S)],
         << >> \in I[0],
         \A i \in 1..Len(s) : \A q \in I[i - 1] :
           (IF s[i] \in T THEN Append(q, s[i]) ELSE q) \in I[i]
  PROVE  Only(s, T) \in I[Len(s)]
<1> DEFINE step == [i \in Nat |-> [q \in Seq(S) |->
                      IF i \in DOMAIN s /\ s[i] \in T THEN Append(q, s[i]) ELSE q]]
           Def(g) == g = [i \in 0..Len(s) |->
                            IF i = 0 THEN << >>
                            ELSE IF s[i] \in T THEN Append(g[i - 1], s[i]) ELSE g[i - 1]]
           f == CHOOSE g : Def(g)
<1>1. Len(s) \in Nat /\ DOMAIN s = 1..Len(s) /\ \A i \in 1..Len(s) : s[i] \in S
  OBVIOUS
<1>2. step \in [Nat -> [Seq(S) -> Seq(S)]]
  BY <1>1
<1>3. \E g : Def(g)
  <2>1. PICK g \in [0..Len(s) -> Seq(S)] :
          g = [i \in 0..Len(s) |-> IF i = 0 THEN << >> ELSE step[i][g[i - 1]]]
    <3> HIDE DEF step
    <3>1. << >> \in Seq(S)
      OBVIOUS
    <3>2. Computed(Seq(S), << >>, step, Len(s)) # {}
      BY <1>1, <1>2, <3>1, RecursiveFunction
    <3> QED
      BY <3>2 DEF Computed
  <2>2. ASSUME NEW i \in 0..Len(s)
        PROVE  g[i] = IF i = 0 THEN << >>
                      ELSE IF s[i] \in T THEN Append(g[i - 1], s[i]) ELSE g[i - 1]
    <3>1. CASE i = 0
      BY <2>1, <3>1
    <3>2. CASE i # 0
      <4>1. i \in Nat /\ i \in DOMAIN s /\ g[i - 1] \in Seq(S)
        BY <1>1, <3>2
      <4>2. g[i] = step[i][g[i - 1]]
        BY <2>1, <3>2
      <4> QED
        BY <3>2, <4>1, <4>2
    <3> QED
      BY <3>1, <3>2
  <2>3. Def(g)
    BY <2>2
  <2> HIDE DEF Def
  <2> QED
    BY <2>3
<1>4. Def(f)
  <2> HIDE DEF Def
  <2> QED
    BY <1>3
<1>5. /\ f[0] = << >>
      /\ \A i \in 1..Len(s) :
           f[i] = IF s[i] \in T THEN Append(f[i - 1], s[i]) ELSE f[i - 1]
  <2> HIDE DEF f
  <2>1. \A i \in 0..Len(s) :
          f[i] = IF i = 0 THEN << >>
                 ELSE IF s[i] \in T THEN Append(f[i - 1], s[i]) ELSE f[i - 1]
    BY <1>4, Zenon
  <2> QED
    BY <1>1, <2>1
<1>6. Only(s, T) = f[Len(s)]
  BY DEF Only
<1> DEFINE N == {i \in Nat : i <= Len(s) => f[i] \in I[i]}
<1>7. N = Nat
  <2> HIDE DEF f
  <2>1. 0 \in N
    BY <1>5
  <2>2. ASSUME NEW i \in N PROVE i + 1 \in N
    <3> SUFFICES ASSUME i + 1 <= Len(s) PROVE f[i + 1] \in I[i + 1]
      OBVIOUS
    <3>1. f[i] \in I[i] /\ i + 1 \in 1..Len(s) /\ (i + 1) - 1 = i
      BY <1>1
    <3>2. f[i + 1] = IF s[i + 1] \in T THEN Append(f[i], s[i + 1]) ELSE f[i]
      BY <1>5, <3>1
    <3> QED
      BY <3>1, <3>2
  <2>3. N \subseteq Nat
    OBVIOUS
  <2> HIDE DEF N
  <2> QED
    BY <2>1, <2>2, <2>3, SetInduction
<1> QED
  BY <1>1, <1>6, <1>7

LEMMA AppendElements ==
  ASSUME NEW S, NEW q \in Seq(S), NEW x \in S
  PROVE  Append(q, x) \in Seq(S) /\ Elements(Append(q, x)) = Elements(q) \cup {x}
<1>1. /\ Append(q, x) \in Seq(S) /\ DOMAIN q = 1..Len(q) /\ Len(q) \in Nat
      /\ DOMAIN Append(q, x) = 1..(Len(q) + 1)
      /\ \A i \in 1..Len(q) : Append(q, x)[i] = q[i]
      /\ Append(q, x)[Len(q) + 1] = x
  OBVIOUS
<1> QED
  BY <1>1 DEF Elements

(* The result is a sequence of the elements that are in T, no other, and   *)
(* none of them is missing.                                                *)
LEMMA OnlyElements ==
  ASSUME NEW S, NEW s \in Seq(S), NEW T
  PROVE  Only(s, T) \in Seq(S) /\ Elements(Only(s, T)) = Elements(s) \cap T
<1> DEFINE Seen(i) == {s[k] : k \in 1..i}
           I == [i \in Nat |-> {q \in Seq(S) : Elements(q) = Seen(i) \cap T}]
<1>1. Len(s) \in Nat /\ DOMAIN s = 1..Len(s) /\ \A i \in 1..Len(s) : s[i] \in S
  OBVIOUS
<1>2. I \in [Nat -> SUBSET Seq(S)]
  OBVIOUS
<1>3. << >> \in I[0]
  BY DEF Elements
<1>4. ASSUME NEW i \in 1..Len(s), NEW q \in I[i - 1]
      PROVE  (IF s[i] \in T THEN Append(q, s[i]) ELSE q) \in I[i]
  <2>1. i \in Nat /\ i - 1 \in Nat /\ s[i] \in S
    BY <1>1
  <2>2. q \in Seq(S) /\ Elements(q) = Seen(i - 1) \cap T
    BY <2>1
  <2>3. Seen(i) = Seen(i - 1) \cup {s[i]}
    <3>1. 1..i = 1..(i - 1) \cup {i}
      BY <2>1
    <3> QED
      BY <3>1
  <2>4. /\ Append(q, s[i]) \in Seq(S)
        /\ Elements(Append(q, s[i])) = Elements(q) \cup {s[i]}
    BY <2>1, <2>2, AppendElements
  <2> HIDE DEF Seen
  <2>5. CASE s[i] \in T
    BY <2>1, <2>2, <2>3, <2>4, <2>5
  <2>6. CASE s[i] \notin T
    BY <2>1, <2>2, <2>3, <2>6
  <2> QED
    BY <2>5, <2>6
<1>5. Only(s, T) \in I[Len(s)]
  <2> HIDE DEF I
  <2> QED
    BY <1>2, <1>3, <1>4, OnlyInduction
<1> QED
  BY <1>1, <1>5 DEF Elements

Places(q, U) == {i \in DOMAIN q : q[i] \in U}

(* Filtering makes nothing more frequent.                                  *)
LEMMA OnlyCounts ==
  ASSUME NEW S, NEW s \in Seq(S), NEW T, NEW U
  PROVE  Cardinality(Places(Only(s, T), U)) <= Cardinality(Places(s, T \cap U))
<1> DEFINE Seen(i) == {k \in 1..i : s[k] \in T \cap U}
           I == [i \in Nat |-> {q \in Seq(S) : Cardinality(Places(q, U)) <= Cardinality(Seen(i))}]
<1>1. Len(s) \in Nat /\ DOMAIN s = 1..Len(s) /\ \A i \in 1..Len(s) : s[i] \in S
  OBVIOUS
<1>2. I \in [Nat -> SUBSET Seq(S)]
  OBVIOUS
<1>3. << >> \in I[0]
  <2>1. Places(<< >>, U) = {} /\ Seen(0) = {}
    BY DEF Places
  <2> HIDE DEF Seen
  <2> QED
    BY <2>1, FS_EmptySet
<1>4. \A i \in Nat : IsFiniteSet(Seen(i)) /\ Cardinality(Seen(i)) \in Nat
  <2> TAKE i \in Nat
  <2>1. IsFiniteSet(1..i) /\ Seen(i) \in SUBSET (1..i)
    BY FS_Interval
  <2> HIDE DEF Seen
  <2> QED
    BY <2>1, FS_Subset, FS_CardinalityType
<1>5. \A q \in Seq(S) : IsFiniteSet(Places(q, U)) /\ Cardinality(Places(q, U)) \in Nat
  <2> TAKE q \in Seq(S)
  <2>1. IsFiniteSet(1..Len(q)) /\ Places(q, U) \in SUBSET (1..Len(q))
    BY FS_Interval DEF Places
  <2> QED
    BY <2>1, FS_Subset, FS_CardinalityType
<1>6. ASSUME NEW i \in 1..Len(s), NEW q \in I[i - 1]
      PROVE  (IF s[i] \in T THEN Append(q, s[i]) ELSE q) \in I[i]
  <2>1. i \in Nat /\ i - 1 \in Nat /\ s[i] \in S
    BY <1>1
  <2>2. q \in Seq(S) /\ Cardinality(Places(q, U)) <= Cardinality(Seen(i - 1))
    BY <2>1
  <2>3. /\ Append(q, s[i]) \in Seq(S) /\ DOMAIN q = 1..Len(q) /\ Len(q) \in Nat
        /\ DOMAIN Append(q, s[i]) = 1..Len(q) + 1
        /\ \A k \in 1..Len(q) : Append(q, s[i])[k] = q[k]
        /\ Append(q, s[i])[Len(q) + 1] = s[i]
    BY <2>1, <2>2
  <2>4. 1..i = 1..(i - 1) \cup {i} /\ i \notin 1..(i - 1)
    BY <2>1
  <2>5. CASE s[i] \in T \cap U
    <3>1. Seen(i) = Seen(i - 1) \cup {i} /\ i \notin Seen(i - 1)
      BY <2>4, <2>5
    <3>2. Places(Append(q, s[i]), U) = Places(q, U) \cup {Len(q) + 1}
      BY <2>3, <2>5 DEF Places
    <3>3. Len(q) + 1 \notin Places(q, U)
      BY <2>3 DEF Places
    <3> HIDE DEF Seen
    <3>4. Cardinality(Seen(i)) = Cardinality(Seen(i - 1)) + 1
      BY <1>4, <2>1, <3>1, FS_AddElement
    <3>5. Cardinality(Places(Append(q, s[i]), U)) = Cardinality(Places(q, U)) + 1
      BY <1>5, <2>2, <3>2, <3>3, FS_AddElement
    <3>6. Cardinality(Places(Append(q, s[i]), U)) <= Cardinality(Seen(i))
      <4>1. Cardinality(Places(q, U)) \in Nat /\ Cardinality(Seen(i - 1)) \in Nat
        BY <1>4, <1>5, <2>1, <2>2
      <4> QED
        BY <2>2, <3>4, <3>5, <4>1
    <3> QED
      BY <2>1, <2>3, <2>5, <3>6
  <2>6. CASE s[i] \notin T \cap U
    <3>1. Seen(i) = Seen(i - 1)
      BY <2>4, <2>6
    <3>2. s[i] \in T => Places(Append(q, s[i]), U) = Places(q, U)
      BY <2>3, <2>6 DEF Places
    <3> HIDE DEF Seen
    <3> QED
      BY <2>1, <2>2, <2>3, <3>1, <3>2
  <2> QED
    BY <2>5, <2>6
<1>7. Only(s, T) \in I[Len(s)]
  <2> HIDE DEF I
  <2> QED
    BY <1>2, <1>3, <1>6, OnlyInduction
<1>8. Seen(Len(s)) = Places(s, T \cap U)
  BY <1>1 DEF Places
<1> HIDE DEF Seen
<1> QED
  BY <1>1, <1>7, <1>8

(* The elements before the first that is dropped keep their places.        *)
LEMMA OnlyPrefix ==
  ASSUME NEW S, NEW s \in Seq(S), NEW T, NEW L \in 0..Len(s),
         \A n \in 1..L : s[n] \in T
  PROVE  /\ L <= Len(Only(s, T)) /\ Len(Only(s, T)) <= Len(s)
         /\ \A n \in 1..L : Only(s, T)[n] = s[n]
<1> DEFINE Good(i) == {q \in Seq(S) :
             /\ Len(q) <= i
             /\ \A n \in 1..L : n <= i => n <= Len(q) /\ q[n] = s[n]}
           I == [i \in Nat |-> Good(i)]
<1>1. Len(s) \in Nat /\ DOMAIN s = 1..Len(s) /\ L \in Nat /\ \A i \in 1..Len(s) : s[i] \in S
  OBVIOUS
<1>2. I \in [Nat -> SUBSET Seq(S)] /\ << >> \in I[0]
  OBVIOUS
<1>3. ASSUME NEW i \in 1..Len(s), NEW q \in I[i - 1]
      PROVE  (IF s[i] \in T THEN Append(q, s[i]) ELSE q) \in I[i]
  <2>1. i \in Nat /\ i - 1 \in Nat /\ s[i] \in S
    BY <1>1
  <2>2. /\ q \in Seq(S) /\ Len(q) <= i - 1 /\ Len(q) \in Nat
        /\ \A n \in 1..L : n <= i - 1 => n <= Len(q) /\ q[n] = s[n]
    BY <2>1
  <2>0. I[i] = Good(i)
    BY <2>1
  <2> HIDE DEF I
  <2>3. /\ Append(q, s[i]) \in Seq(S) /\ Len(Append(q, s[i])) = Len(q) + 1
        /\ \A k \in 1..Len(q) : Append(q, s[i])[k] = q[k]
        /\ Append(q, s[i])[Len(q) + 1] = s[i]
    BY <2>1, <2>2
  <2>4. CASE i <= L
    <3>1. s[i] \in T /\ Len(q) = i - 1
      <4>1. i \in 1..L /\ (i > 1 => i - 1 \in 1..L)
        BY <1>1, <2>1, <2>4
      <4> QED
        BY <2>1, <2>2, <4>1
    <3>2. \A n \in 1..L : n <= i => n <= Len(q) + 1 /\ Append(q, s[i])[n] = s[n]
      BY <1>1, <2>1, <2>2, <2>3, <3>1
    <3>3. Len(q) + 1 <= i
      BY <2>1, <3>1
    <3>4. Append(q, s[i]) \in Good(i)
      BY <2>3, <3>2, <3>3
    <3> QED
      BY <2>0, <3>1, <3>4
  <2>5. CASE i > L
    <3>1. \A n \in 1..L : n <= Len(q) /\ q[n] = s[n] /\ n \in 1..Len(q)
      BY <1>1, <2>1, <2>2, <2>5
    <3>2. q \in Good(i)
      BY <2>1, <2>2, <3>1
    <3>3. \A n \in 1..L : n <= Len(q) + 1 /\ Append(q, s[i])[n] = s[n]
      BY <2>2, <2>3, <3>1
    <3>4. Len(q) + 1 <= i
      BY <2>1, <2>2
    <3>5. Append(q, s[i]) \in Good(i)
      BY <2>3, <3>3, <3>4
    <3> QED
      BY <2>0, <3>2, <3>5
  <2> QED
    BY <1>1, <2>1, <2>4, <2>5
<1>4. Only(s, T) \in I[Len(s)]
  <2> HIDE DEF I
  <2> QED
    BY <1>2, <1>3, OnlyInduction
<1> QED
  BY <1>1, <1>4

(* Of the numbers up to n an ascending list is left.                       *)
LEMMA OnlyAscending ==
  ASSUME NEW n \in Nat, NEW T
  PROVE  LET q == Only([i \in 1..n |-> i], T) IN
         \A a, b \in DOMAIN q : a < b => q[a] < q[b]
<1> DEFINE s == [i \in 1..n |-> i]
           I == [i \in Nat |-> {q \in Seq(Nat) :
                   /\ \A a \in DOMAIN q : q[a] <= i
                   /\ \A a, b \in DOMAIN q : a < b => q[a] < q[b]}]
<1>1. s \in Seq(Nat) /\ Len(s) = n
  OBVIOUS
<1>2. I \in [Nat -> SUBSET Seq(Nat)] /\ << >> \in I[0]
  OBVIOUS
<1>3. ASSUME NEW i \in 1..Len(s), NEW q \in I[i - 1]
      PROVE  (IF s[i] \in T THEN Append(q, s[i]) ELSE q) \in I[i]
  <2>1. i \in Nat /\ i - 1 \in Nat /\ s[i] = i
    BY <1>1
  <2> HIDE DEF s
  <2>2. /\ q \in Seq(Nat) /\ DOMAIN q = 1..Len(q) /\ Len(q) \in Nat
        /\ \A a \in DOMAIN q : q[a] \in Nat /\ q[a] <= i - 1
        /\ \A a, b \in DOMAIN q : a < b => q[a] < q[b]
    BY <2>1
  <2>3. /\ Append(q, i) \in Seq(Nat) /\ DOMAIN Append(q, i) = 1..Len(q) + 1
        /\ \A k \in 1..Len(q) : Append(q, i)[k] = q[k]
        /\ Append(q, i)[Len(q) + 1] = i
    BY <2>1, <2>2
  <2>4. q \in I[i]
    BY <2>1, <2>2
  <2>5. Append(q, i) \in I[i]
    <3>1. \A a \in DOMAIN Append(q, i) : a \in DOMAIN q \/ a = Len(q) + 1
      BY <2>2, <2>3
    <3>2. \A a \in DOMAIN Append(q, i) : Append(q, i)[a] <= i
      BY <2>1, <2>2, <2>3, <3>1
    <3>3. ASSUME NEW a \in DOMAIN Append(q, i), NEW b \in DOMAIN Append(q, i), a < b
          PROVE  Append(q, i)[a] < Append(q, i)[b]
      <4>1. a \in DOMAIN q
        BY <2>2, <2>3, <3>3
      <4> QED
        BY <2>1, <2>2, <2>3, <3>1, <3>3, <4>1
    <3> QED
      BY <2>1, <2>3, <3>2, <3>3
  <2> QED
    BY <2>1, <2>4, <2>5
<1>4. Only(s, T) \in I[Len(s)]
  <2> HIDE DEF I, s
  <2> QED
    BY <1>1, <1>2, <1>3, OnlyInduction
<1> HIDE DEF s
<1>5. \A a, b \in DOMAIN Only(s, T) : a < b => Only(s, T)[a] < Only(s, T)[b]
  BY <1>1, <1>4
<1> QED
  BY <1>5 DEF s

(* What is left is a sequence over what both have.                         *)
LEMMA OnlyTyped ==
  ASSUME NEW S, NEW s \in Seq(S), NEW T
  PROVE  Only(s, T) \in Seq(S \cap T)
<1>1. Only(s, T) \in Seq(S) /\ Elements(Only(s, T)) \subseteq T
  BY OnlyElements
<1> DEFINE q == Only(s, T)
<1>2. Len(q) \in Nat /\ q = [i \in 1..Len(q) |-> q[i]] /\ DOMAIN q = 1..Len(q)
  BY <1>1
<1>3. q \in Seq(S) /\ Elements(q) \subseteq T
  BY <1>1
<1> HIDE DEF q
<1>4. ASSUME NEW i \in 1..Len(q) PROVE q[i] \in S \cap T
  BY <1>2, <1>3 DEF Elements
<1>5. q \in Seq(S \cap T)
  BY <1>2, <1>4
<1> QED
  BY <1>5 DEF q

-----------------------------------------------------------------------------
(* Sequences joined.                                                       *)

(* What holds of nothing and stays with every part holds of the parts      *)
(* joined: I[i] is what the first i of them may give.                      *)
LEMMA FlattenInduction ==
  ASSUME NEW S, NEW parts \in Seq(Seq(S)), parts # << >>, NEW I \in [Nat -> SUBSET Seq(S)],
         << >> \in I[0],
         \A i \in 1..Len(parts) : \A q \in I[i - 1] : q \o parts[i] \in I[i]
  PROVE  FlattenSeq(parts) \in I[Len(parts)]
<1> DEFINE L == Len(parts)
           step == [i \in Nat |-> [q \in Seq(S) |->
                      IF i \in DOMAIN parts THEN q \o parts[i] ELSE q]]
           Def(g) == g = [i \in 1..L |-> IF i = 1 THEN parts[i] ELSE g[i - 1] \o parts[i]]
           f == CHOOSE g : Def(g)
<1>1. /\ L \in Nat /\ L # 0 /\ DOMAIN parts = 1..L
      /\ \A i \in 1..L : parts[i] \in Seq(S)
  OBVIOUS
<1>2. step \in [Nat -> [Seq(S) -> Seq(S)]]
  BY <1>1
<1>3. \E g : Def(g)
  <2>1. PICK g \in [0..L -> Seq(S)] :
          g = [i \in 0..L |-> IF i = 0 THEN << >> ELSE step[i][g[i - 1]]]
    <3> HIDE DEF step
    <3>1. << >> \in Seq(S)
      OBVIOUS
    <3>2. Computed(Seq(S), << >>, step, L) # {}
      BY <1>1, <1>2, <3>1, RecursiveFunction
    <3> QED
      BY <3>2 DEF Computed
  <2> DEFINE h == [i \in 1..L |-> g[i]]
  <2>2. ASSUME NEW i \in 1..L
        PROVE  g[i] = g[i - 1] \o parts[i]
    <3>0. i \in Nat /\ i # 0 /\ i \in 0..L /\ i \in DOMAIN parts /\ i - 1 \in 0..L
      BY <1>1
    <3>1. g[i - 1] \in Seq(S)
      BY <3>0
    <3>2. g[i] = step[i][g[i - 1]]
      BY <2>1, <3>0
    <3> QED
      BY <3>0, <3>1, <3>2
  <2>3. ASSUME NEW i \in 1..L
        PROVE  h[i] = IF i = 1 THEN parts[i] ELSE h[i - 1] \o parts[i]
    <3>1. CASE i = 1
      <4>1. g[0] = << >> /\ parts[1] \in Seq(S) /\ 1 - 1 = 0
        BY <1>1, <2>1
      <4>2. g[1] = g[0] \o parts[1]
        BY <2>2, <3>1, <4>1
      <4> QED
        BY <3>1, <4>1, <4>2
    <3>2. CASE i # 1
      <4>1. h[i - 1] = g[i - 1]
        BY <1>1, <3>2
      <4> QED
        BY <2>2, <3>2, <4>1
    <3> QED
      BY <3>1, <3>2
  <2> HIDE DEF h
  <2>4. h = [i \in 1..L |-> h[i]]
    BY DEF h
  <2>5. Def(h)
    BY <2>3, <2>4
  <2> HIDE DEF Def
  <2> QED
    BY <2>5
<1>4. Def(f)
  <2> HIDE DEF Def
  <2> QED
    BY <1>3
<1>5. /\ f[1] = parts[1]
      /\ \A i \in 2..L : f[i] = f[i - 1] \o parts[i]
  <2> HIDE DEF f
  <2>1. \A i \in 1..L : f[i] = IF i = 1 THEN parts[i] ELSE f[i - 1] \o parts[i]
    BY <1>4, Zenon
  <2>2. 1 \in 1..L /\ \A i \in 2..L : i \in 1..L /\ i # 1
    BY <1>1
  <2> QED
    BY <2>1, <2>2
<1>6. FlattenSeq(parts) = f[L]
  BY <1>1 DEF FlattenSeq
<1> DEFINE N == {i \in Nat : i # 0 /\ i <= L => f[i] \in I[i]}
<1>7. N = Nat
  <2> HIDE DEF f
  <2>1. 0 \in N
    OBVIOUS
  <2>2. ASSUME NEW i \in N PROVE i + 1 \in N
    <3> SUFFICES ASSUME i + 1 <= L PROVE f[i + 1] \in I[i + 1]
      OBVIOUS
    <3>0. i \in Nat
      OBVIOUS
    <3>1. i \in Nat /\ i + 1 \in 1..L /\ (i + 1) - 1 = i
      <4> HIDE DEF N, L
      <4> QED
        BY <1>1, <3>0
    <3>2. CASE i = 0
      <4>1. parts[1] \in Seq(S) /\ << >> \o parts[1] = parts[1]
        BY <1>1
      <4>2. << >> \o parts[1] \in I[1]
        <5>1. 1 \in 1..L /\ 1 - 1 = 0
          BY <3>1, <3>2
        <5> QED
          BY <5>1
      <4> QED
        BY <1>5, <3>2, <4>1, <4>2
    <3>3. CASE i # 0
      <4>1. f[i] \in I[i] /\ i + 1 \in 2..L
        BY <1>1, <3>1, <3>3
      <4>2. f[i + 1] = f[i] \o parts[i + 1]
        BY <1>5, <3>1, <4>1
      <4> QED
        BY <3>1, <4>1, <4>2
    <3> QED
      BY <3>2, <3>3
  <2>3. N \subseteq Nat
    OBVIOUS
  <2> HIDE DEF N
  <2> QED
    BY <2>1, <2>2, <2>3, SetInduction
<1>8. f[L] \in I[L]
  <2> HIDE DEF f, L
  <2>1. L \in N
    <3> HIDE DEF N
    <3> QED
      BY <1>1, <1>7
  <2> QED
    BY <1>1, <2>1
<1> QED
  BY <1>6, <1>8
(* Lists, of anything.                                                     *)
LEMMA ListBasics ==
  ASSUME NEW q, IsList(q)
  PROVE  /\ Len(q) \in Nat /\ DOMAIN q = 1..Len(q)
         /\ \A i \in 1..Len(q) : q[i] \in Elements(q)
BY DEF IsList

LEMMA ListOf ==
  ASSUME NEW S, NEW q \in Seq(S)
  PROVE  IsList(q) /\ Elements(q) \subseteq S
<1>1. Len(q) \in Nat /\ DOMAIN q = 1..Len(q) /\ q = [i \in 1..Len(q) |-> q[i]]
  OBVIOUS
<1>2. \A i \in 1..Len(q) : q[i] \in Elements(q) /\ q[i] \in S
  BY <1>1 DEF Elements
<1>3. q \in [1..Len(q) -> Elements(q)]
  BY <1>1, <1>2
<1>4. q \in Seq(Elements(q))
  BY <1>1, <1>3
<1> QED
  BY <1>1, <1>2, <1>4 DEF IsList, Elements

LEMMA ListIn ==
  ASSUME NEW S, NEW q, IsList(q), Elements(q) \subseteq S
  PROVE  q \in Seq(S)
<1>1. Len(q) \in Nat /\ DOMAIN q = 1..Len(q) /\ q = [i \in 1..Len(q) |-> q[i]]
  BY DEF IsList
<1>2. \A i \in 1..Len(q) : q[i] \in S
  BY <1>1 DEF Elements
<1> QED
  BY <1>1, <1>2

LEMMA ListMade ==
  ASSUME NEW n \in Nat, NEW q, DOMAIN q = 1..n, q = [i \in 1..n |-> q[i]]
  PROVE  IsList(q) /\ Len(q) = n
<1>1. \A i \in 1..n : q[i] \in Elements(q)
  BY DEF Elements
<1>2. q \in [1..n -> Elements(q)]
  BY <1>1
<1>3. q \in Seq(Elements(q)) /\ Len(q) = n
  BY <1>2
<1> QED
  BY <1>3 DEF IsList

(* Lists with the same elements at the same places are one.                *)
LEMMA SameLists ==
  ASSUME NEW a, NEW b, IsList(a), IsList(b), Len(a) = Len(b), \A n \in 1..Len(a) : a[n] = b[n]
  PROVE  a = b
<1>1. a \in Seq(Elements(a)) /\ b \in Seq(Elements(b))
  BY DEF IsList
<1> QED
  BY <1>1

(* None, and one.                                                         *)
LEMMA ShortLists ==
  /\ IsList(<< >>) /\ Len(<< >>) = 0 /\ \A q : IsList(q) /\ Len(q) = 0 => q = << >>
  /\ \A x : IsList(<<x>>) /\ Len(<<x>>) = 1 /\ <<x>>[1] = x
  /\ \A q : IsList(q) /\ Len(q) = 1 => q = <<q[1]>>
<1> DEFINE none == << >>
<1>1. none \in Seq({}) /\ Len(none) = 0
  OBVIOUS
<1> HIDE DEF none
<1>2. IsList(none) /\ Len(none) = 0
  BY <1>1, ListOf
<1>3. ASSUME NEW x PROVE IsList(<<x>>) /\ Len(<<x>>) = 1 /\ <<x>>[1] = x
  <2> DEFINE one == <<x>>
  <2>1. one \in Seq({x}) /\ Len(one) = 1 /\ one[1] = x
    OBVIOUS
  <2> HIDE DEF one
  <2>2. IsList(one) /\ Len(one) = 1 /\ one[1] = x
    BY <2>1, ListOf
  <2> QED
    BY <2>2 DEF one
<1>4. ASSUME NEW q, IsList(q), Len(q) = 0 PROVE q = none
  <2>1. q \in Seq(Elements(q))
    BY <1>4 DEF IsList
  <2> QED
    BY <1>4, <2>1 DEF none
<1>5. ASSUME NEW q, IsList(q), Len(q) = 1 PROVE q = <<q[1]>>
  <2>1. q \in Seq(Elements(q))
    BY <1>5 DEF IsList
  <2> QED
    BY <1>5, <2>1
<1> QED
  BY <1>2, <1>3, <1>4, <1>5 DEF none

LEMMA ListAppend ==
  ASSUME NEW q, IsList(q), NEW x
  PROVE  /\ IsList(Append(q, x)) /\ Elements(Append(q, x)) = Elements(q) \cup {x}
         /\ Len(Append(q, x)) = Len(q) + 1
         /\ \A i \in 1..Len(q) : Append(q, x)[i] = q[i]
         /\ Append(q, x)[Len(q) + 1] = x
<1> DEFINE S == Elements(q) \cup {x}
<1>1. q \in Seq(S) /\ x \in S
  BY ListIn
<1> HIDE DEF S
<1>2. Append(q, x) \in Seq(S) /\ Elements(Append(q, x)) = Elements(q) \cup {x}
  BY <1>1, AppendElements
<1>3. IsList(Append(q, x))
  BY <1>2, ListOf
<1> QED
  BY <1>1, <1>2, <1>3

LEMMA ListConcat ==
  ASSUME NEW q, IsList(q), NEW r, IsList(r)
  PROVE  /\ IsList(q \o r) /\ Elements(q \o r) = Elements(q) \cup Elements(r)
         /\ Len(q \o r) = Len(q) + Len(r)
         /\ \A i \in 1..Len(q) : (q \o r)[i] = q[i]
         /\ \A i \in 1..Len(r) : (q \o r)[Len(q) + i] = r[i]
<1> DEFINE S == Elements(q) \cup Elements(r)
<1>1. q \in Seq(S) /\ r \in Seq(S)
  BY ListIn
<1> HIDE DEF S
<1>2. /\ q \o r \in Seq(S) /\ Len(q \o r) = Len(q) + Len(r)
      /\ Len(q) \in Nat /\ Len(r) \in Nat
      /\ DOMAIN q = 1..Len(q) /\ DOMAIN r = 1..Len(r)
      /\ DOMAIN (q \o r) = 1..Len(q) + Len(r)
      /\ \A i \in 1..Len(q) + Len(r) :
           (q \o r)[i] = IF i <= Len(q) THEN q[i] ELSE r[i - Len(q)]
  BY <1>1
<1>3. IsList(q \o r)
  BY <1>2, ListOf
<1>4. \A i \in 1..Len(q) : (q \o r)[i] = q[i] /\ i \in DOMAIN (q \o r)
  BY <1>2
<1>5. \A i \in 1..Len(r) : (q \o r)[Len(q) + i] = r[i] /\ Len(q) + i \in DOMAIN (q \o r)
  <2> TAKE i \in 1..Len(r)
  <2>1. Len(q) + i \in 1..Len(q) + Len(r) /\ ~(Len(q) + i <= Len(q)) /\ (Len(q) + i) - Len(q) = i
    BY <1>2
  <2> QED
    BY <1>2, <2>1
<1>6. \A i \in DOMAIN (q \o r) : (q \o r)[i] \in S
  BY <1>2, <1>1
<1>7. Elements(q \o r) \subseteq S
  BY <1>6 DEF Elements
<1>8. Elements(q) \subseteq Elements(q \o r) /\ Elements(r) \subseteq Elements(q \o r)
  <2> DEFINE t == q \o r
  <2>1. /\ \A i \in DOMAIN q : q[i] = t[i] /\ i \in DOMAIN t
        /\ \A i \in DOMAIN r : r[i] = t[Len(q) + i] /\ Len(q) + i \in DOMAIN t
    BY <1>2, <1>4, <1>5
  <2> HIDE DEF t
  <2>2. Elements(q) \subseteq Elements(t) /\ Elements(r) \subseteq Elements(t)
    BY <2>1 DEF Elements
  <2> QED
    BY <2>2 DEF t
<1> QED
  BY <1>2, <1>3, <1>4, <1>5, <1>7, <1>8 DEF S

LEMMA ListOnly ==
  ASSUME NEW q, IsList(q), NEW T
  PROVE  IsList(Only(q, T)) /\ Elements(Only(q, T)) = Elements(q) \cap T
<1>1. Only(q, T) \in Seq(Elements(q)) /\ Elements(Only(q, T)) = Elements(q) \cap T
  BY OnlyElements DEF IsList
<1> QED
  BY <1>1, ListOf

(* What holds of any two elements of a list holds of any two that are      *)
(* kept: R is a set of pairs.                                              *)
Pairwise(q, R) == \A i, k \in DOMAIN q : i # k => <<q[i], q[k]>> \in R

LEMMA OnlyPairs ==
  ASSUME NEW q, IsList(q), NEW T, NEW R, Pairwise(q, R)
  PROVE  Pairwise(Only(q, T), R)
<1> DEFINE S == Elements(q)
           Good(i) == {r \in Seq(S) :
             /\ \A a \in DOMAIN r : \E k \in 1..i : r[a] = q[k]
             /\ Pairwise(r, R)}
           I == [i \in Nat |-> Good(i)]
<1>1. q \in Seq(S) /\ Len(q) \in Nat /\ DOMAIN q = 1..Len(q) /\ \A i \in 1..Len(q) : q[i] \in S
  BY DEF IsList
<1> HIDE DEF S
<1>2. I \in [Nat -> SUBSET Seq(S)]
  OBVIOUS
<1>3. << >> \in I[0]
  BY DEF Pairwise
<1>4. ASSUME NEW i \in 1..Len(q), NEW r \in I[i - 1]
      PROVE  (IF q[i] \in T THEN Append(r, q[i]) ELSE r) \in I[i]
  <2>1. i \in Nat /\ i - 1 \in Nat /\ q[i] \in S
    BY <1>1
  <2>2. /\ r \in Seq(S) /\ Len(r) \in Nat /\ DOMAIN r = 1..Len(r)
        /\ \A a \in DOMAIN r : \E k \in 1..(i - 1) : r[a] = q[k]
        /\ Pairwise(r, R)
    BY <2>1
  <2>3. /\ Append(r, q[i]) \in Seq(S)
        /\ DOMAIN Append(r, q[i]) = 1..Len(r) + 1
        /\ \A k \in 1..Len(r) : Append(r, q[i])[k] = r[k]
        /\ Append(r, q[i])[Len(r) + 1] = q[i]
    BY <2>1, <2>2
  <2>0. I[i] = Good(i)
    BY <2>1
  <2> HIDE DEF I
  <2>4. r \in Good(i)
    BY <2>1, <2>2
  <2>5. \A a \in DOMAIN Append(r, q[i]) : \E k \in 1..i : Append(r, q[i])[a] = q[k]
    <3> TAKE a \in DOMAIN Append(r, q[i])
    <3>1. CASE a = Len(r) + 1
      BY <2>1, <2>3, <3>1
    <3>2. CASE a \in 1..Len(r)
      BY <2>1, <2>2, <2>3, <3>2
    <3> QED
      BY <2>2, <2>3, <3>1, <3>2
  <2>6. \A a \in 1..Len(r) : <<r[a], q[i]>> \in R /\ <<q[i], r[a]>> \in R
    <3> TAKE a \in 1..Len(r)
    <3>1. PICK k \in 1..(i - 1) : r[a] = q[k]
      BY <2>2
    <3>2. k \in DOMAIN q /\ i \in DOMAIN q /\ k # i
      BY <1>1, <2>1
    <3> QED
      BY <3>1, <3>2 DEF Pairwise
  <2>7. Pairwise(Append(r, q[i]), R)
    <3> SUFFICES ASSUME NEW a \in 1..Len(r) + 1, NEW b \in 1..Len(r) + 1, a # b
                 PROVE  <<Append(r, q[i])[a], Append(r, q[i])[b]>> \in R
      BY <2>3 DEF Pairwise
    <3>1. CASE a \in 1..Len(r) /\ b \in 1..Len(r)
      BY <2>2, <2>3, <3>1 DEF Pairwise
    <3>2. CASE a = Len(r) + 1
      <4>1. b \in 1..Len(r)
        BY <2>2, <3>2
      <4> QED
        BY <2>3, <2>6, <3>2, <4>1
    <3>3. CASE b = Len(r) + 1
      <4>1. a \in 1..Len(r)
        BY <2>2, <3>3
      <4> QED
        BY <2>3, <2>6, <3>3, <4>1
    <3>4. (a \in 1..Len(r) \/ a = Len(r) + 1) /\ (b \in 1..Len(r) \/ b = Len(r) + 1)
      BY <2>2
    <3> QED
      BY <3>1, <3>2, <3>3, <3>4
  <2> QED
    BY <2>0, <2>3, <2>4, <2>5, <2>7
<1>5. Only(q, T) \in I[Len(q)]
  <2> HIDE DEF I
  <2> QED
    BY <1>1, <1>2, <1>3, <1>4, OnlyInduction
<1> QED
  BY <1>1, <1>5

(* The list of lists parts joined: its elements are theirs.                *)
IsListOfLists(parts) == IsList(parts) /\ \A i \in DOMAIN parts : IsList(parts[i])
AllOf(parts, n) == UNION {Elements(parts[i]) : i \in 1..n}

LEMMA ListOfLists ==
  ASSUME NEW parts, IsListOfLists(parts)
  PROVE  parts \in Seq(Seq(AllOf(parts, Len(parts))))
<1> DEFINE S == AllOf(parts, Len(parts))
<1>1. Len(parts) \in Nat /\ DOMAIN parts = 1..Len(parts)
  BY ListBasics DEF IsListOfLists
<1>2. ASSUME NEW i \in 1..Len(parts) PROVE parts[i] \in Seq(S)
  <2>1. Elements(parts[i]) \subseteq S
    BY DEF AllOf
  <2> HIDE DEF S
  <2> QED
    BY <1>1, <2>1, ListIn DEF IsListOfLists
<1> HIDE DEF S
<1>3. Elements(parts) \subseteq Seq(S)
  BY <1>1, <1>2 DEF Elements
<1>4. parts \in Seq(Seq(S))
  BY <1>3, ListIn DEF IsListOfLists
<1> QED
  BY <1>4 DEF S

LEMMA FlattenList ==
  ASSUME NEW parts, IsListOfLists(parts)
  PROVE  /\ IsList(FlattenSeq(parts))
         /\ Elements(FlattenSeq(parts)) = AllOf(parts, Len(parts))
<1> DEFINE S == AllOf(parts, Len(parts))
           I == [i \in Nat |-> {q \in Seq(S) : Elements(q) = AllOf(parts, i)}]
<1>1. Len(parts) \in Nat /\ DOMAIN parts = 1..Len(parts) /\ parts \in Seq(Seq(S))
  BY ListBasics, ListOfLists DEF IsListOfLists
<1> HIDE DEF S
<1>2. I \in [Nat -> SUBSET Seq(S)] /\ << >> \in I[0]
  <2>1. AllOf(parts, 0) = {} /\ Elements(<< >>) = {}
    BY DEF AllOf, Elements
  <2> QED
    BY <2>1
<1>3. ASSUME NEW i \in 1..Len(parts), NEW q \in I[i - 1]
      PROVE  q \o parts[i] \in I[i]
  <2>1. i \in Nat /\ i - 1 \in Nat /\ parts[i] \in Seq(S)
    BY <1>1
  <2>2. q \in Seq(S) /\ Elements(q) = AllOf(parts, i - 1)
    BY <2>1
  <2>3. Elements(q \o parts[i]) = Elements(q) \cup Elements(parts[i])
    BY <2>1, <2>2, ListOf, ListConcat
  <2>4. 1..i = 1..(i - 1) \cup {i}
    BY <2>1
  <2>5. AllOf(parts, i) = AllOf(parts, i - 1) \cup Elements(parts[i])
    BY <2>4 DEF AllOf
  <2>6. q \o parts[i] \in Seq(S)
    BY <2>1, <2>2
  <2> QED
    BY <2>1, <2>2, <2>3, <2>5, <2>6
<1>4. CASE parts = << >>
  <2>1. FlattenSeq(parts) = << >> /\ AllOf(parts, Len(parts)) = {}
    BY <1>4 DEF FlattenSeq, AllOf
  <2>2. Elements(<< >>) = {} /\ << >> \in Seq({})
    BY DEF Elements
  <2> QED
    BY <2>1, <2>2 DEF IsList
<1>5. CASE parts # << >>
  <2>1. FlattenSeq(parts) \in I[Len(parts)]
    <3> HIDE DEF I
    <3> QED
      BY <1>1, <1>2, <1>3, <1>5, FlattenInduction
  <2>2. FlattenSeq(parts) \in Seq(S) /\ Elements(FlattenSeq(parts)) = AllOf(parts, Len(parts))
    BY <1>1, <2>1
  <2> QED
    BY <2>2, ListOf
<1> QED
  BY <1>4, <1>5

LEMMA ConcatPairs ==
  ASSUME NEW q, IsList(q), NEW r, IsList(r), NEW R, Pairwise(q, R), Pairwise(r, R),
         \A x \in Elements(q), y \in Elements(r) : <<x, y>> \in R /\ <<y, x>> \in R
  PROVE  Pairwise(q \o r, R)
<1>1. /\ Len(q) \in Nat /\ DOMAIN q = 1..Len(q) /\ Len(r) \in Nat /\ DOMAIN r = 1..Len(r)
      /\ \A i \in 1..Len(q) : q[i] \in Elements(q)
      /\ \A i \in 1..Len(r) : r[i] \in Elements(r)
  BY ListBasics
<1>2. /\ IsList(q \o r) /\ Len(q \o r) = Len(q) + Len(r)
      /\ \A i \in 1..Len(q) : (q \o r)[i] = q[i]
      /\ \A i \in 1..Len(r) : (q \o r)[Len(q) + i] = r[i]
  BY ListConcat
<1>3. DOMAIN (q \o r) = 1..Len(q) + Len(r)
  BY <1>2, ListBasics
<1> DEFINE t == q \o r
<1>4. \A a \in DOMAIN t : a \in 1..Len(q) \/ (a - Len(q) \in 1..Len(r) /\ t[a] = r[a - Len(q)])
  <2> TAKE a \in DOMAIN t
  <2>1. a \in 1..Len(q) \/ (a - Len(q) \in 1..Len(r) /\ Len(q) + (a - Len(q)) = a)
    BY <1>1, <1>3
  <2> QED
    BY <1>2, <2>1
<1>5. \A a \in 1..Len(q) : t[a] = q[a]
  BY <1>2
<1> SUFFICES ASSUME NEW a \in DOMAIN t, NEW b \in DOMAIN t, a # b
             PROVE  <<t[a], t[b]>> \in R
  BY DEF Pairwise
<1>6. a \in Int /\ b \in Int
  BY <1>1, <1>3
<1> HIDE DEF t
<1>7. CASE a \in 1..Len(q) /\ b \in 1..Len(q)
  BY <1>1, <1>5, <1>7 DEF Pairwise
<1>8. CASE a \in 1..Len(q) /\ b \notin 1..Len(q)
  BY <1>1, <1>4, <1>5, <1>8
<1>9. CASE a \notin 1..Len(q) /\ b \in 1..Len(q)
  BY <1>1, <1>4, <1>5, <1>9
<1>10. CASE a \notin 1..Len(q) /\ b \notin 1..Len(q)
  <2>1. a - Len(q) # b - Len(q)
    BY <1>1, <1>6
  <2> QED
    BY <1>1, <1>4, <1>10, <2>1 DEF Pairwise
<1> QED
  BY <1>7, <1>8, <1>9, <1>10

LEMMA FlattenPairs ==
  ASSUME NEW parts, IsListOfLists(parts), NEW R,
         \A i \in DOMAIN parts : Pairwise(parts[i], R),
         \A i, k \in DOMAIN parts : i # k =>
           \A x \in Elements(parts[i]), y \in Elements(parts[k]) : <<x, y>> \in R
  PROVE  Pairwise(FlattenSeq(parts), R)
<1> DEFINE S == AllOf(parts, Len(parts))
           Good(i) == {q \in Seq(S) : Elements(q) = AllOf(parts, i) /\ Pairwise(q, R)}
           I == [i \in Nat |-> Good(i)]
<1>1. Len(parts) \in Nat /\ DOMAIN parts = 1..Len(parts) /\ parts \in Seq(Seq(S))
  BY ListBasics, ListOfLists DEF IsListOfLists
<1> HIDE DEF S
<1>2. I \in [Nat -> SUBSET Seq(S)]
  OBVIOUS
<1>0. << >> \in I[0]
  <2> DEFINE e == << >>
  <2>1. AllOf(parts, 0) = {} /\ Elements(e) = {} /\ Pairwise(e, R)
    BY DEF AllOf, Elements, Pairwise
  <2>2. e \in Seq(S) /\ 0 \in Nat
    OBVIOUS
  <2> HIDE DEF e
  <2>3. e \in Good(0)
    BY <2>1, <2>2
  <2>4. I[0] = Good(0)
    BY <2>2
  <2> HIDE DEF Good, I
  <2>5. e \in I[0]
    BY <2>3, <2>4
  <2> QED
    BY <2>5 DEF e
<1>3. ASSUME NEW i \in 1..Len(parts), NEW q \in I[i - 1]
      PROVE  q \o parts[i] \in I[i]
  <2>1. i \in Nat /\ i - 1 \in Nat /\ parts[i] \in Seq(S)
    BY <1>1
  <2>2. q \in Seq(S) /\ Elements(q) = AllOf(parts, i - 1) /\ Pairwise(q, R)
    BY <2>1
  <2>0. I[i] = Good(i)
    BY <2>1
  <2> HIDE DEF I
  <2>3. IsList(q) /\ IsList(parts[i])
    BY <2>1, <2>2, ListOf
  <2>4. 1..i = 1..(i - 1) \cup {i}
    BY <2>1
  <2>5. AllOf(parts, i) = AllOf(parts, i - 1) \cup Elements(parts[i])
    BY <2>4 DEF AllOf
  <2>6. ASSUME NEW x \in Elements(q), NEW y \in Elements(parts[i])
        PROVE  <<x, y>> \in R /\ <<y, x>> \in R
    <3>1. PICK k \in 1..(i - 1) : x \in Elements(parts[k])
      BY <2>2 DEF AllOf
    <3>2. k \in DOMAIN parts /\ i \in DOMAIN parts /\ k # i
      BY <1>1, <2>1
    <3> QED
      BY <3>1, <3>2
  <2>7. Pairwise(q \o parts[i], R)
    <3>1. Pairwise(parts[i], R)
      BY <1>1
    <3> QED
      BY <2>2, <2>3, <2>6, <3>1, ConcatPairs
  <2>8. q \o parts[i] \in Seq(S) /\ Elements(q \o parts[i]) = AllOf(parts, i)
    BY <2>1, <2>2, <2>3, <2>5, ListConcat
  <2> QED
    BY <2>0, <2>7, <2>8
<1>4. CASE parts = << >>
  BY <1>4 DEF FlattenSeq, Pairwise
<1>5. CASE parts # << >>
  <2>1. FlattenSeq(parts) \in I[Len(parts)]
    <3> HIDE DEF I
    <3> QED
      BY <1>0, <1>1, <1>2, <1>3, <1>5, FlattenInduction
  <2> QED
    BY <1>1, <2>1
<1> QED
  BY <1>4, <1>5

-----------------------------------------------------------------------------
(* Where the elements of the parts stand when they are joined.             *)

FirstParts(parts, n) == FlattenSeq(SubSeq(parts, 1, n))

LEMMA FlattenUpTo ==
  ASSUME NEW parts, IsListOfLists(parts)
  PROVE  /\ FirstParts(parts, 0) = << >> /\ FirstParts(parts, Len(parts)) = FlattenSeq(parts)
         /\ \A n \in 0..Len(parts) : IsList(FirstParts(parts, n))
         /\ \A n \in 1..Len(parts) : FirstParts(parts, n) = FirstParts(parts, n - 1) \o parts[n]
<1> DEFINE S == AllOf(parts, Len(parts))
           L == Len(parts)
           step == [i \in Nat |-> [q \in Seq(S) |->
                      IF i \in DOMAIN parts THEN q \o parts[i] ELSE q]]
<1>1. /\ L \in Nat /\ DOMAIN parts = 1..L /\ parts \in Seq(Seq(S))
      /\ \A i \in 1..L : parts[i] \in Seq(S)
  <2>1. L \in Nat /\ DOMAIN parts = 1..L /\ parts \in Seq(Seq(S))
    BY ListBasics, ListOfLists DEF IsListOfLists
  <2> HIDE DEF S
  <2> QED
    BY <2>1
<1> HIDE DEF S
<1>2. step \in [Nat -> [Seq(S) -> Seq(S)]]
  BY <1>1
<1>3. PICK g \in [0..L -> Seq(S)] :
        g = [i \in 0..L |-> IF i = 0 THEN << >> ELSE step[i][g[i - 1]]]
  <2> HIDE DEF step
  <2>1. << >> \in Seq(S)
    OBVIOUS
  <2>2. Computed(Seq(S), << >>, step, L) # {}
    BY <1>1, <1>2, <2>1, RecursiveFunction
  <2> QED
    BY <2>2 DEF Computed
<1>4. g[0] = << >> /\ \A i \in 1..L : g[i] = g[i - 1] \o parts[i]
  <2>1. g[0] = << >>
    BY <1>1, <1>3
  <2>2. ASSUME NEW i \in 1..L PROVE g[i] = g[i - 1] \o parts[i]
    <3>1. i \in Nat /\ i # 0 /\ i \in 0..L /\ i \in DOMAIN parts /\ i - 1 \in 0..L
      BY <1>1
    <3>2. g[i - 1] \in Seq(S) /\ g[i] = step[i][g[i - 1]]
      BY <1>3, <3>1
    <3> QED
      BY <3>1, <3>2
  <2> QED
    BY <2>1, <2>2
<1>5. ASSUME NEW n \in 0..L PROVE FirstParts(parts, n) = g[n]
  <2> DEFINE sub == SubSeq(parts, 1, n)
             I == [i \in Nat |-> IF i \in 0..n THEN {g[i]} ELSE {}]
  <2>1. /\ sub \in Seq(Seq(S)) /\ Len(sub) = n /\ n \in Nat
        /\ \A i \in 1..n : sub[i] = parts[i] /\ i \in 1..L
    BY <1>1
  <2> HIDE DEF sub
  <2>2. CASE n = 0
    <3>1. sub = << >>
      BY <2>1, <2>2
    <3> QED
      BY <1>4, <2>2, <3>1 DEF FirstParts, sub, FlattenSeq
  <2>3. CASE n # 0
    <3>1. I \in [Nat -> SUBSET Seq(S)]
      BY <1>1
    <3>2. << >> \in I[0] /\ sub # << >>
      BY <1>4, <2>1, <2>3
    <3>3. ASSUME NEW i \in 1..Len(sub), NEW q \in I[i - 1]
          PROVE  q \o sub[i] \in I[i]
      <4>1. /\ i \in 0..n /\ i - 1 \in 0..n /\ i \in 1..L /\ sub[i] = parts[i]
            /\ i \in Nat /\ i - 1 \in Nat
        BY <2>1
      <4>2. I[i - 1] = {g[i - 1]} /\ I[i] = {g[i]}
        BY <4>1
      <4>3. g[i] = g[i - 1] \o parts[i]
        BY <1>4, <4>1
      <4> QED
        BY <4>1, <4>2, <4>3
    <3> HIDE DEF I
    <3>4. FlattenSeq(sub) \in I[n]
      BY <2>1, <3>1, <3>2, <3>3, FlattenInduction
    <3> QED
      BY <2>1, <3>4 DEF I, FirstParts, sub
  <2> QED
    BY <2>2, <2>3
<1>6. SubSeq(parts, 1, L) = parts
  BY <1>1
<1>7. \A n \in 0..L : IsList(g[n])
  BY ListOf
<1>8. 0 \in 0..L /\ \A n \in 1..L : n \in 0..L /\ n - 1 \in 0..L
  BY <1>1
<1> HIDE DEF L
<1>9. FirstParts(parts, L) = FlattenSeq(parts)
  BY <1>6 DEF FirstParts
<1> QED
  BY <1>4, <1>5, <1>7, <1>8, <1>9 DEF L

(* The k-th of the i-th part stands behind all those of the parts before.  *)
PlacedUpTo(parts, m) ==
  /\ \A i \in 1..m : \A k \in 1..Len(parts[i]) :
       /\ Len(FirstParts(parts, i - 1)) + k \in 1..Len(FirstParts(parts, m))
       /\ FirstParts(parts, m)[Len(FirstParts(parts, i - 1)) + k] = parts[i][k]
  /\ \A n \in 1..Len(FirstParts(parts, m)) :
       \E i \in 1..m : \E k \in 1..Len(parts[i]) : n = Len(FirstParts(parts, i - 1)) + k

LEMMA FlattenPlaces ==
  ASSUME NEW parts, IsListOfLists(parts)
  PROVE  PlacedUpTo(parts, Len(parts))
<1> DEFINE L == Len(parts)
           N == {m \in Nat : m <= L => PlacedUpTo(parts, m)}
<1>1. L \in Nat /\ DOMAIN parts = 1..L /\ \A i \in 1..L : IsList(parts[i]) /\ Len(parts[i]) \in Nat
  BY ListBasics DEF IsListOfLists
<1>2. 0 \in N
  <2>1. FirstParts(parts, 0) = << >>
    BY FlattenUpTo
  <2> QED
    BY <2>1 DEF PlacedUpTo
<1>3. ASSUME NEW m \in N PROVE m + 1 \in N
  <2> SUFFICES ASSUME m + 1 <= L PROVE PlacedUpTo(parts, m + 1)
    OBVIOUS
  <2> DEFINE old == FirstParts(parts, m)  new == FirstParts(parts, m + 1)  part == parts[m + 1]
  <2>1. /\ m \in Nat /\ m + 1 \in 1..L /\ m \in 0..L /\ (m + 1) - 1 = m
        /\ PlacedUpTo(parts, m)
    BY <1>1
  <2> HIDE DEF L, N
  <2>2. IsList(old) /\ IsList(part) /\ new = old \o part
    BY <1>1, <2>1, FlattenUpTo DEF L
  <2> HIDE DEF old, new, part
  <2>3. /\ Len(old) \in Nat /\ Len(part) \in Nat /\ Len(new) = Len(old) + Len(part)
        /\ \A i \in 1..Len(old) : new[i] = old[i]
        /\ \A k \in 1..Len(part) : new[Len(old) + k] = part[k]
    BY <2>2, ListConcat, ListBasics
  <2>4. 1..m + 1 = 1..m \cup {m + 1}
    BY <2>1
  <2>5. ASSUME NEW i \in 1..m + 1, NEW k \in 1..Len(parts[i])
        PROVE  /\ Len(FirstParts(parts, i - 1)) + k \in 1..Len(new)
               /\ new[Len(FirstParts(parts, i - 1)) + k] = parts[i][k]
    <3>1. CASE i \in 1..m
      <4>1. /\ Len(FirstParts(parts, i - 1)) + k \in 1..Len(old)
            /\ old[Len(FirstParts(parts, i - 1)) + k] = parts[i][k]
        BY <2>1, <3>1 DEF PlacedUpTo, old
      <4> QED
        BY <2>3, <4>1
    <3>2. CASE i = m + 1
      <4>1. i - 1 = m
        BY <2>1, <3>2
      <4>2. FirstParts(parts, i - 1) = old /\ parts[i] = part
        BY <3>2, <4>1 DEF old, part
      <4>3. k \in 1..Len(part)
        BY <4>2
      <4>4. Len(old) + k \in 1..Len(new) /\ new[Len(old) + k] = part[k]
        BY <2>3, <4>3
      <4> QED
        BY <4>2, <4>4
    <3> QED
      BY <2>4, <3>1, <3>2
  <2>6. ASSUME NEW n \in 1..Len(new)
        PROVE  \E i \in 1..m + 1 : \E k \in 1..Len(parts[i]) : n = Len(FirstParts(parts, i - 1)) + k
    <3>1. CASE n \in 1..Len(old)
      <4>1. \E i \in 1..m : \E k \in 1..Len(parts[i]) : n = Len(FirstParts(parts, i - 1)) + k
        BY <2>1, <3>1 DEF PlacedUpTo, old
      <4> QED
        BY <2>4, <4>1
    <3>2. CASE n \notin 1..Len(old)
      <4>1. n - Len(old) \in 1..Len(part) /\ n = Len(old) + (n - Len(old))
        BY <2>3, <3>2
      <4>2. FirstParts(parts, (m + 1) - 1) = old /\ parts[m + 1] = part /\ m + 1 \in 1..m + 1
        BY <2>1, <2>4 DEF old, part
      <4> QED
        BY <4>1, <4>2
    <3> QED
      BY <3>1, <3>2
  <2> QED
    BY <2>5, <2>6 DEF PlacedUpTo, new
<1>4. N = Nat
  <2>1. N \subseteq Nat
    OBVIOUS
  <2> HIDE DEF N
  <2> QED
    BY <1>2, <1>3, <2>1, SetInduction
<1> QED
  BY <1>1, <1>4

(* Parts of the same lengths fill the same places.                         *)
LEMMA SamePlaces ==
  ASSUME NEW a, NEW b, IsListOfLists(a), IsListOfLists(b), Len(a) = Len(b),
         \A i \in 1..Len(a) : Len(a[i]) = Len(b[i])
  PROVE  \A n \in 0..Len(a) : Len(FirstParts(a, n)) = Len(FirstParts(b, n))
<1> DEFINE L == Len(a)
           N == {n \in Nat : n <= L => Len(FirstParts(a, n)) = Len(FirstParts(b, n))}
<1>1. L \in Nat /\ \A i \in 1..L : i \in DOMAIN a /\ i \in DOMAIN b
  BY ListBasics DEF IsListOfLists
<1>2. 0 \in N
  BY FlattenUpTo
<1>3. ASSUME NEW n \in N PROVE n + 1 \in N
  <2> SUFFICES ASSUME n + 1 <= L PROVE Len(FirstParts(a, n + 1)) = Len(FirstParts(b, n + 1))
    OBVIOUS
  <2>1. /\ n \in Nat /\ n + 1 \in 1..L /\ n \in 0..L /\ (n + 1) - 1 = n
        /\ Len(FirstParts(a, n)) = Len(FirstParts(b, n))
    BY <1>1
  <2> HIDE DEF N, L
  <2>2. /\ IsList(FirstParts(a, n)) /\ IsList(FirstParts(b, n))
        /\ IsList(a[n + 1]) /\ IsList(b[n + 1])
        /\ FirstParts(a, n + 1) = FirstParts(a, n) \o a[n + 1]
        /\ FirstParts(b, n + 1) = FirstParts(b, n) \o b[n + 1]
        /\ Len(a[n + 1]) = Len(b[n + 1])
    <3>1. L = Len(a) /\ L = Len(b)
      BY DEF L
    <3> QED
      BY <1>1, <2>1, <3>1, FlattenUpTo DEF IsListOfLists
  <2>3. /\ Len(FirstParts(a, n + 1)) = Len(FirstParts(a, n)) + Len(a[n + 1])
        /\ Len(FirstParts(b, n + 1)) = Len(FirstParts(b, n)) + Len(b[n + 1])
    <3>1. ASSUME NEW q, NEW r, NEW t, IsList(q), IsList(r), t = q \o r
          PROVE  Len(t) = Len(q) + Len(r)
      BY <3>1, ListConcat
    <3> QED
      BY <2>2, <3>1
  <2> QED
    BY <2>1, <2>2, <2>3
<1>4. N = Nat
  <2>1. N \subseteq Nat
    OBVIOUS
  <2> HIDE DEF N
  <2> QED
    BY <1>2, <1>3, <2>1, SetInduction
<1> QED
  BY <1>1, <1>4
=============================================================================
