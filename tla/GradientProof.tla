---------------------------- MODULE GradientProof ----------------------------
(* Theorems about Gradient, for any number of VMs and any amounts.           *)
EXTENDS Gradient, FiniteSetTheorems, SequenceTheorems,
        WellFoundedInduction, TLAPS

-----------------------------------------------------------------------------
(***************************************************************************)
(* Facts about sums, for any number of indices.  The library's induction   *)
(* theorems take an operator; here a set takes its place: the least number *)
(* that is not in the set would follow one that is.                        *)
(***************************************************************************)

Less == {p \in Nat \X Nat : p[1] < p[2]}

LEMMA LessWellFounded == IsWellFoundedOn(Less, Nat)
  BY ONLY NatLessThanWellFounded, Zenon DEF OpToRel, Less

\* Induction over the numbers, for membership in a set.
LEMMA SetInduction ==
    ASSUME NEW S, 0 \in S, \A k \in Nat : k \in S => k + 1 \in S
    PROVE  Nat \subseteq S
  <1> DEFINE T == Nat \ S
  <1> SUFFICES ASSUME T # {} PROVE FALSE
    OBVIOUS
  <1>1. \E x \in T : \A y \in T : ~(<<y, x>> \in Less)
    <2>1. T \subseteq Nat
      OBVIOUS
    <2> HIDE DEF T
    <2>2. QED BY <2>1, LessWellFounded, WFMin
  <1>2. PICK x \in T : \A y \in T : ~(<<y, x>> \in Less)
    BY <1>1
  <1>3. x \in Nat /\ x \notin S /\ x # 0
    OBVIOUS
  <1>4. x - 1 \in Nat /\ x - 1 < x /\ (x - 1) + 1 = x
    BY <1>3
  <1>5. <<x - 1, x>> \in Less
    BY <1>3, <1>4 DEF Less
  <1>6. x - 1 \in S
    BY <1>2, <1>4, <1>5
  <1>7. QED BY <1>3, <1>4, <1>6

Index(n) == 1..n

\* The same, up to n.
LEMMA IndexInduction ==
    ASSUME NEW n \in Nat, NEW S, 0 \in S, \A i \in Index(n) : i - 1 \in S => i \in S
    PROVE  \A i \in 0..n : i \in S
  <1> DEFINE T == {k \in Nat : k > n \/ k \in S}
  <1>1. 0 \in T
    OBVIOUS
  <1>2. ASSUME NEW k \in Nat, k \in T PROVE k + 1 \in T
    <2>1. CASE k + 1 > n
      BY <2>1
    <2>2. CASE k + 1 <= n
      <3>1. k + 1 \in 1..n /\ (k + 1) - 1 = k /\ k \in S
        BY <1>2, <2>2
      <3>2. k + 1 \in S
        BY <3>1 DEF Index
      <3>3. QED BY <3>2
    <2>3. QED BY <2>1, <2>2
  <1> HIDE DEF T
  <1>3. Nat \subseteq T
    BY <1>1, <1>2, SetInduction
  <1>4. QED BY <1>3 DEF T

-----------------------------------------------------------------------------
(* Prefix is the function its recursion describes. *)

IsPrefix(s, f, m) ==
    /\ s \in [0..m -> Int] /\ s[0] = 0
    /\ \A i \in 1..m : s[i] = s[i - 1] + f[i]

LEMMA PrefixExists ==
    ASSUME NEW n \in Nat, NEW f \in [Index(n) -> Int] PROVE \E s : IsPrefix(s, f, n)
  <1> DEFINE S == {m \in Nat : \E s : IsPrefix(s, f, m)}
  <1>1. 0 \in S
    <2>1. IsPrefix([i \in 0..0 |-> 0], f, 0)
      BY DEF IsPrefix
    <2>2. QED BY <2>1
  <1>2. ASSUME NEW i \in Index(n), i - 1 \in S PROVE i \in S
    <2>1. PICK s : IsPrefix(s, f, i - 1)
      BY <1>2
    <2>2. i \in Nat /\ i > 0 /\ i - 1 \in Nat /\ f[i] \in Int /\ s[i - 1] \in Int
      BY <2>1 DEF IsPrefix, Index
    <2> DEFINE t == [j \in 0..i |-> IF j = i THEN s[i - 1] + f[i] ELSE s[j]]
    <2>3. t \in [0..i -> Int]
      BY <2>1, <2>2 DEF IsPrefix
    <2>4. t[0] = 0
      BY <2>1, <2>2 DEF IsPrefix
    <2>5. ASSUME NEW j \in 1..i PROVE t[j] = t[j - 1] + f[j]
      BY <2>1, <2>2 DEF IsPrefix
    <2>6. IsPrefix(t, f, i)
      BY <2>3, <2>4, <2>5 DEF IsPrefix
    <2>7. QED BY <2>2, <2>6
  <1> HIDE DEF S
  <1>3. n \in S
    BY <1>1, <1>2, IndexInduction
  <1>4. QED BY <1>3 DEF S

LEMMA LengthIs == ASSUME NEW n \in Nat, NEW f \in [Index(n) -> Int] PROVE Len(f) = n
  <1>1. f \in Seq(Int)
    BY SeqDef
  <1>2. DOMAIN f = 1..Len(f) /\ Len(f) \in Nat
    BY <1>1
  <1>3. QED BY <1>2 DEF Index

LEMMA PrefixIsPrefix ==
    ASSUME NEW n \in Nat, NEW f \in [Index(n) -> Int] PROVE IsPrefix(Prefix(f), f, n)
  <1> DEFINE Rec(s) == [i \in 0..n |-> IF i = 0 THEN 0 ELSE s[i - 1] + f[i]]
  <1>1. PICK t : IsPrefix(t, f, n)
    BY PrefixExists
  <1>2. t = Rec(t)
    BY <1>1 DEF IsPrefix
  <1>3. Prefix(f) = CHOOSE s : s = Rec(s)
    BY LengthIs DEF Prefix
  <1>4. Prefix(f) = Rec(Prefix(f))
    BY <1>2, <1>3
  <1>5. Prefix(f)[0] = 0 /\ \A i \in 1..n : Prefix(f)[i] = Prefix(f)[i - 1] + f[i]
    <2>1. ASSUME NEW p, p = Rec(p)
          PROVE  p[0] = 0 /\ \A i \in 1..n : p[i] = p[i - 1] + f[i]
      <3>1. \A i \in 0..n : Rec(p)[i] = IF i = 0 THEN 0 ELSE p[i - 1] + f[i]
        OBVIOUS
      <3> HIDE DEF Rec
      <3>2. \A i \in 0..n : p[i] = IF i = 0 THEN 0 ELSE p[i - 1] + f[i]
        BY <2>1, <3>1
      <3>3. QED BY <3>2
    <2> HIDE DEF Rec
    <2>2. QED BY <1>4, <2>1
  <1>6. Prefix(f) \in [0..n -> Int]
    <2> DEFINE S == {m \in 0..n : Prefix(f)[m] \in Int}
    <2>1. 0 \in S /\ \A i \in Index(n) : i - 1 \in S => i \in S
      BY <1>5 DEF Index
    <2> HIDE DEF S
    <2>2. \A m \in 0..n : m \in S
      BY <2>1, IndexInduction
    <2>3. DOMAIN Prefix(f) = 0..n /\ Prefix(f) = [i \in 0..n |-> Prefix(f)[i]]
      BY <1>4
    <2>4. QED BY <2>2, <2>3 DEF S
  <1>7. QED BY <1>5, <1>6 DEF IsPrefix

-----------------------------------------------------------------------------
(* Sums. *)

LEMMA SumType == ASSUME NEW n \in Nat, NEW f \in [Index(n) -> Int] PROVE Sum(f) \in Int
  BY PrefixIsPrefix, LengthIs DEF IsPrefix, Sum

LEMMA SumAdd ==
    ASSUME NEW n \in Nat, NEW f \in [Index(n) -> Int], NEW g \in [Index(n) -> Int], NEW h \in [Index(n) -> Int],
           \A v \in Index(n) : h[v] = f[v] + g[v]
    PROVE  Sum(h) = Sum(f) + Sum(g)
  <1> DEFINE F == Prefix(f)
             G == Prefix(g)
             H == Prefix(h)
             S == {i \in 0..n : H[i] = F[i] + G[i]}
  <1>1. IsPrefix(F, f, n) /\ IsPrefix(G, g, n) /\ IsPrefix(H, h, n)
    BY PrefixIsPrefix
  <1> HIDE DEF F, G, H
  <1>2. 0 \in S
    BY <1>1 DEF IsPrefix
  <1>3. ASSUME NEW i \in Index(n), i - 1 \in S PROVE i \in S
    <2>1. i \in 0..n /\ i - 1 \in 0..n /\ H[i - 1] = F[i - 1] + G[i - 1]
      BY <1>3 DEF Index
    <2>2. F[i - 1] \in Int /\ G[i - 1] \in Int /\ f[i] \in Int /\ g[i] \in Int
      BY <1>1, <2>1 DEF IsPrefix
    <2>3. F[i] = F[i - 1] + f[i] /\ G[i] = G[i - 1] + g[i] /\ H[i] = H[i - 1] + h[i]
      BY <1>1 DEF IsPrefix, Index
    <2>4. h[i] = f[i] + g[i]
      OBVIOUS
    <2>5. H[i] = F[i] + G[i]
      BY ONLY <2>1, <2>2, <2>3, <2>4
    <2>6. QED BY <2>1, <2>5
  <1> HIDE DEF S
  <1>4. n \in S
    BY <1>2, <1>3, IndexInduction
  <1>5. QED BY <1>4, LengthIs DEF S, F, G, H, Sum

LEMMA SumMonotone ==
    ASSUME NEW n \in Nat, NEW f \in [Index(n) -> Int], NEW g \in [Index(n) -> Int],
           \A v \in Index(n) : f[v] <= g[v]
    PROVE  Sum(f) <= Sum(g)
  <1> DEFINE F == Prefix(f)
             G == Prefix(g)
             S == {i \in 0..n : F[i] <= G[i]}
  <1>1. IsPrefix(F, f, n) /\ IsPrefix(G, g, n)
    BY PrefixIsPrefix
  <1> HIDE DEF F, G
  <1>2. 0 \in S
    BY <1>1 DEF IsPrefix
  <1>3. ASSUME NEW i \in Index(n), i - 1 \in S PROVE i \in S
    <2>1. i \in 0..n /\ i - 1 \in 0..n /\ F[i - 1] <= G[i - 1]
      BY <1>3 DEF Index
    <2>2. F[i - 1] \in Int /\ G[i - 1] \in Int /\ f[i] \in Int /\ g[i] \in Int
      BY <1>1, <2>1 DEF IsPrefix
    <2>3. F[i] = F[i - 1] + f[i] /\ G[i] = G[i - 1] + g[i] /\ f[i] <= g[i]
      BY <1>1 DEF IsPrefix, Index
    <2>4. F[i] <= G[i]
      BY ONLY <2>1, <2>2, <2>3
    <2>5. QED BY <2>1, <2>4
  <1> HIDE DEF S
  <1>4. n \in S
    BY <1>2, <1>3, IndexInduction
  <1>5. QED BY <1>4, LengthIs DEF S, F, G, Sum

\* The same amount for each member of K.
LEMMA SumOfEqual ==
    ASSUME NEW n \in Nat, NEW K \in SUBSET Index(n), NEW c \in Int
    PROVE  Sum([v \in Index(n) |-> IF v \in K THEN c ELSE 0]) = c * Cardinality(K)
  <1> DEFINE f == [v \in Index(n) |-> IF v \in K THEN c ELSE 0]
             F == Prefix(f)
             Up(i) == K \cap (1..i)
             S == {i \in 0..n : IsFiniteSet(Up(i)) /\ F[i] = c * Cardinality(Up(i))}
  <1>0. f \in [Index(n) -> Int]
    OBVIOUS
  <1>1. IsPrefix(F, f, n)
    BY <1>0, PrefixIsPrefix
  <1>1a. \A v \in Index(n) : f[v] = IF v \in K THEN c ELSE 0
    OBVIOUS
  <1> HIDE DEF F, f
  <1>2. 0 \in S
    <2>1. Up(0) = {}
      OBVIOUS
    <2>2. QED BY <1>1, <2>1, FS_EmptySet DEF IsPrefix
  <1>3. ASSUME NEW i \in Index(n), i - 1 \in S PROVE i \in S
    <2>1. /\ i \in 0..n /\ i - 1 \in 0..n
          /\ IsFiniteSet(Up(i - 1)) /\ F[i - 1] = c * Cardinality(Up(i - 1))
      BY <1>3 DEF Index
    <2>2. F[i] = F[i - 1] + f[i] /\ Cardinality(Up(i - 1)) \in Nat
      BY <1>1, <2>1, FS_CardinalityType DEF IsPrefix
    <2>3. CASE i \in K
      <3>1. Up(i) = Up(i - 1) \cup {i} /\ i \notin Up(i - 1)
        BY <2>1, <2>3
      <3>2. IsFiniteSet(Up(i)) /\ Cardinality(Up(i)) = Cardinality(Up(i - 1)) + 1
        <4> DEFINE U == Up(i - 1)
        <4>1. IsFiniteSet(U) /\ i \notin U /\ Up(i) = U \cup {i}
          BY <2>1, <3>1
        <4> HIDE DEF U, Up
        <4>2. IsFiniteSet(U \cup {i}) /\ Cardinality(U \cup {i}) = Cardinality(U) + 1
          BY <4>1, FS_AddElement
        <4>3. QED BY <4>1, <4>2 DEF U
      <3>3. f[i] = c
        BY <1>1a, <2>3
      <3>4. F[i] = c * Cardinality(Up(i))
        BY ONLY <2>1, <2>2, <3>2, <3>3, c \in Int
      <3>5. QED BY <2>1, <3>2, <3>4
    <2>4. CASE i \notin K
      <3>1. Up(i) = Up(i - 1)
        BY <2>1, <2>4
      <3>2. f[i] = 0 /\ F[i - 1] \in Int
        BY <1>1, <1>1a, <2>1, <2>4 DEF IsPrefix
      <3>3. F[i] = F[i - 1]
        BY ONLY <2>2, <3>2
      <3>4. QED BY <2>1, <3>1, <3>3
    <2>5. QED BY <2>3, <2>4
  <1> HIDE DEF S
  <1>4. n \in S
    BY <1>2, <1>3, IndexInduction
  <1>5. Up(n) = K
    BY DEF Index
  <1>6. QED BY <1>0, <1>4, <1>5, LengthIs DEF S, F, f, Sum

LEMMA SumOfZeros == ASSUME NEW n \in Nat PROVE Sum([v \in Index(n) |-> 0]) = 0
  <1>1. Sum([v \in Index(n) |-> IF v \in {} THEN 0 ELSE 0]) = 0 * Cardinality({})
    BY SumOfEqual
  <1>2. [v \in Index(n) |-> IF v \in {} THEN 0 ELSE 0] = [v \in Index(n) |-> 0]
    OBVIOUS
  <1>3. QED BY <1>1, <1>2, FS_EmptySet

\* One number is changed by c.
LEMMA SumOfChange ==
    ASSUME NEW n \in Nat, NEW f \in [Index(n) -> Int], NEW g \in [Index(n) -> Int],
           NEW i \in Index(n), NEW c \in Int, g[i] = f[i] + c,
           \A v \in Index(n) : v # i => g[v] = f[v]
    PROVE  Sum(g) = Sum(f) + c
  <1> DEFINE h == [v \in Index(n) |-> IF v \in {i} THEN c ELSE 0]
  <1>1. Sum(h) = c
    <2>1. Sum(h) = c * Cardinality({i})
      BY SumOfEqual
    <2>2. Cardinality({i}) = 1
      BY FS_Singleton
    <2> HIDE DEF h
    <2>3. QED BY <2>1, <2>2
  <1>2. h \in [Index(n) -> Int] /\ h[i] = c /\ \A v \in Index(n) : v # i => h[v] = 0
    OBVIOUS
  <1> HIDE DEF h
  <1>3. \A v \in Index(n) : g[v] = f[v] + h[v]
    BY <1>2
  <1>4. Sum(g) = Sum(f) + Sum(h)
    BY <1>2, <1>3, SumAdd
  <1>5. QED BY <1>1, <1>4

LEMMA SumOfNaturals == ASSUME NEW n \in Nat, NEW f \in [Index(n) -> Nat] PROVE Sum(f) \in Nat
  <1>1. Sum([v \in Index(n) |-> 0]) <= Sum(f)
    BY SumMonotone
  <1>2. QED BY <1>1, SumOfZeros, SumType

\* What one index gives another one takes.
LEMMA SumOfTransfer ==
    ASSUME NEW n \in Nat, NEW g \in Index(n), NEW t \in Index(n), g # t, NEW b \in Int
    PROVE  Sum([v \in Index(n) |-> IF v = g THEN -b ELSE IF v = t THEN b ELSE 0]) = 0
  <1> DEFINE G == [v \in Index(n) |-> IF v \in {g} THEN -b ELSE 0]
             T == [v \in Index(n) |-> IF v \in {t} THEN b ELSE 0]
             B == [v \in Index(n) |-> IF v = g THEN -b ELSE IF v = t THEN b ELSE 0]
  <1>1. Sum(G) = (-b) * Cardinality({g}) /\ Sum(T) = b * Cardinality({t})
    BY SumOfEqual
  <1>2. Cardinality({g}) = 1 /\ Cardinality({t}) = 1
    BY FS_Singleton
  <1>3. Sum(B) = Sum(G) + Sum(T)
    <2>1. B \in [Index(n) -> Int] /\ G \in [Index(n) -> Int] /\ T \in [Index(n) -> Int]
      OBVIOUS
    <2>2. \A v \in Index(n) : B[v] = G[v] + T[v]
      OBVIOUS
    <2> HIDE DEF B, G, T
    <2>3. QED BY <2>1, <2>2, SumAdd
  <1> HIDE DEF B, G, T
  <1>4. Sum(B) = 0
    BY <1>1, <1>2, <1>3
  <1>5. QED BY <1>4 DEF B

\* Every term counts.
LEMMA SumStrict ==
    ASSUME NEW n \in Nat, NEW f \in [Index(n) -> Int], NEW g \in [Index(n) -> Int],
           \A v \in Index(n) : f[v] <= g[v], NEW i \in Index(n), f[i] < g[i]
    PROVE  Sum(f) < Sum(g)
  <1> DEFINE e == [v \in Index(n) |-> IF v \in {i} THEN 1 ELSE 0]
             h == [v \in Index(n) |-> f[v] + e[v]]
  <1>1. e \in [Index(n) -> Int] /\ h \in [Index(n) -> Int] /\ \A v \in Index(n) : h[v] = f[v] + e[v]
    OBVIOUS
  <1>2. \A v \in Index(n) : h[v] <= g[v]
    <2>1. ASSUME NEW v \in Index(n) PROVE h[v] <= g[v]
      <3>1. f[v] \in Int /\ g[v] \in Int /\ f[v] <= g[v]
        OBVIOUS
      <3>2. CASE v = i
        BY <3>1, <3>2
      <3>3. CASE v # i
        BY <3>1, <3>3
      <3>4. QED BY <3>2, <3>3
    <2>2. QED BY <2>1
  <1>3. Sum(e) = 1
    <2>1. Sum(e) = 1 * Cardinality({i})
      BY SumOfEqual
    <2> HIDE DEF e
    <2>2. Cardinality({i}) = 1
      BY FS_Singleton
    <2>3. QED BY <2>1, <2>2
  <1> HIDE DEF e, h
  <1>4. Sum(h) = Sum(f) + 1 /\ Sum(h) <= Sum(g)
    BY <1>1, <1>2, <1>3, SumAdd, SumMonotone
  <1>5. QED BY <1>4, SumType

LEMMA SumScaled ==
    ASSUME NEW n \in Nat, NEW f \in [Index(n) -> Int], NEW h \in [Index(n) -> Int], NEW c \in Int,
           \A v \in Index(n) : h[v] = c * f[v]
    PROVE  Sum(h) = c * Sum(f)
  <1> DEFINE F == Prefix(f)
             H == Prefix(h)
             S == {i \in 0..n : H[i] = c * F[i]}
  <1>1. IsPrefix(F, f, n) /\ IsPrefix(H, h, n)
    BY PrefixIsPrefix
  <1> HIDE DEF F, H
  <1>2. 0 \in S
    BY <1>1 DEF IsPrefix
  <1>3. ASSUME NEW i \in Index(n), i - 1 \in S PROVE i \in S
    <2>1. i \in 0..n /\ i - 1 \in 0..n /\ H[i - 1] = c * F[i - 1]
      BY <1>3 DEF Index
    <2>2. F[i - 1] \in Int /\ f[i] \in Int
      BY <1>1, <2>1 DEF IsPrefix
    <2>3. F[i] = F[i - 1] + f[i] /\ H[i] = H[i - 1] + h[i] /\ h[i] = c * f[i]
      BY <1>1 DEF IsPrefix, Index
    <2>4. \A a, b \in Int : c * (a + b) = c * a + c * b
      OBVIOUS
    <2>5. H[i] = c * F[i]
      BY ONLY <2>1, <2>2, <2>3, <2>4
    <2>6. QED BY <2>1, <2>5
  <1> HIDE DEF S
  <1>4. n \in S
    BY <1>2, <1>3, IndexInduction
  <1>5. QED BY <1>4, LengthIs DEF S, F, H, Sum

-----------------------------------------------------------------------------
(* Some index of a set has the largest value, some the smallest. *)

LEMMA LargestExists ==
    ASSUME NEW n \in Nat, NEW f \in [Index(n) -> Int], NEW K \in SUBSET Index(n), K # {}
    PROVE  \E m \in K : \A v \in K : f[v] <= f[m]
  <1> DEFINE Has(A) == \E m \in A : \A v \in A : f[v] <= f[m]
             S == {k \in 0..n : \A A \in SUBSET (1..k) : A # {} => Has(A)}
  <1>1. 0 \in S
    <2>1. \A A \in SUBSET (1..0) : A = {}
      OBVIOUS
    <2>2. 0 \in 0..n
      OBVIOUS
    <2> HIDE DEF Has
    <2>3. QED BY <2>1, <2>2
  <1>2. ASSUME NEW i \in Index(n), i - 1 \in S PROVE i \in S
    <2>1. i \in 0..n /\ i - 1 \in 0..n /\ \A A \in SUBSET (1..(i - 1)) : A # {} => Has(A)
      BY <1>2 DEF Index
    <2>2. ASSUME NEW A \in SUBSET (1..i), A # {} PROVE Has(A)
      <3> DEFINE B == A \ {i}
      <3>1. B \in SUBSET (1..(i - 1)) /\ A \subseteq Index(n)
        <4>1. \A v \in 1..i : v \in 1..n /\ (v # i => v \in 1..(i - 1))
          BY DEF Index
        <4>2. QED BY <4>1 DEF Index
      <3>2. CASE B = {}
        <4>1. A = {i}
          BY <2>2, <3>2
        <4>2. f[i] <= f[i]
          OBVIOUS
        <4>3. QED BY <4>1, <4>2
      <3>3. CASE B # {}
        <4>1. PICK m \in B : \A v \in B : f[v] <= f[m]
          BY <2>1, <3>1, <3>3
        <4>2. m \in A /\ m \in Index(n) /\ f[m] \in Int /\ f[i] \in Int
              /\ \A v \in A : f[v] \in Int /\ (v = i \/ v \in B)
          BY <3>1
        <4>3. CASE i \in A /\ f[m] < f[i]
          <5>1. ASSUME NEW v \in A PROVE f[v] <= f[i]
            <6>1. v = i \/ f[v] <= f[m]
              BY <4>1, <4>2
            <6>2. QED BY <4>2, <4>3, <6>1
          <5>2. QED BY <4>3, <5>1
        <4>4. CASE i \notin A \/ ~(f[m] < f[i])
          <5>1. ASSUME NEW v \in A PROVE f[v] <= f[m]
            <6>1. v = i \/ f[v] <= f[m]
              BY <4>1, <4>2
            <6>2. QED BY <4>2, <4>4, <6>1
          <5>2. QED BY <4>2, <5>1
        <4>5. QED BY <4>3, <4>4
      <3>4. QED BY <3>2, <3>3
    <2>3. QED BY <2>1, <2>2
  <1> HIDE DEF S
  <1>3. n \in S
    BY <1>1, <1>2, IndexInduction
  <1>4. QED BY <1>3 DEF S, Index

LEMMA SmallestExists ==
    ASSUME NEW n \in Nat, NEW f \in [Index(n) -> Int], NEW K \in SUBSET Index(n), K # {}
    PROVE  \E m \in K : \A v \in K : f[m] <= f[v]
  <1> DEFINE h == [v \in Index(n) |-> -f[v]]
  <1>1. h \in [Index(n) -> Int] /\ \A v \in Index(n) : h[v] = -f[v]
    OBVIOUS
  <1> HIDE DEF h
  <1>2. PICK m \in K : \A v \in K : h[v] <= h[m]
    BY <1>1, LargestExists
  <1>3. ASSUME NEW v \in K PROVE f[m] <= f[v]
    <2>1. h[v] <= h[m] /\ h[v] = -f[v] /\ h[m] = -f[m] /\ f[v] \in Int /\ f[m] \in Int
      BY <1>1, <1>2
    <2>2. QED BY <2>1
  <1>4. QED BY <1>3

-----------------------------------------------------------------------------
(* The policy. *)

LEMMA NIsNat == N \in Nat
  BY GradientAssumption

LEMMA FirstOfNumbers == ASSUME NEW S \in SUBSET Nat, S # {} PROVE First(S) \in S
  <1>1. \E v \in S : \A w \in S : ~(<<w, v>> \in Less)
    BY LessWellFounded, WFMin
  <1>2. \E v \in S : \A w \in S : v <= w
    <2>1. PICK v \in S : \A w \in S : ~(<<w, v>> \in Less)
      BY <1>1
    <2>2. ASSUME NEW w \in S PROVE v <= w
      <3>1. v \in Nat /\ w \in Nat /\ ~(<<w, v>> \in Less)
        BY <2>1
      <3>2. ~(w < v)
        BY <3>1 DEF Less
      <3>3. QED BY <3>1, <3>2
    <2>3. QED BY <2>2
  <1>3. QED BY <1>2 DEF First

LEMMA FirstIsMember == ASSUME NEW S \in SUBSET VM, S # {} PROVE First(S) \in S
  <1>1. S \subseteq Nat
    BY GradientAssumption DEF VM, Index
  <1>2. QED BY <1>1, FirstOfNumbers

LEMMA KnownIsFinite ==
    ASSUME TypeOK PROVE /\ IsFiniteSet(known) /\ Cardinality(known) \in Nat
                        /\ known # {} => Cardinality(known) > 0
  <1>1. IsFiniteSet(VM)
    BY FS_Interval, GradientAssumption DEF VM, Index
  <1>2. IsFiniteSet(known)
    BY <1>1, FS_Subset DEF TypeOK
  <1>3. QED BY <1>2, FS_CardinalityType, FS_EmptySet

LEMMA Quotient ==
    ASSUME NEW a \in Int, NEW n \in Nat, n > 0
    PROVE  a \div n \in Int /\ (a \div n) * n <= a
  OBVIOUS

LEMMA TargetsType ==
    ASSUME NEW S \in SUBSET known, NEW f \in [VM -> Int], known \in SUBSET VM
    PROVE  /\ DOMAIN Targets(S, f) \in SUBSET known
           /\ Targets(S, f) \in [DOMAIN Targets(S, f) -> Int]
  BY DEF Targets

\* What is free, and the mean, are numbers.
LEMMA FreeTypes ==
    ASSUME TypeOK
    PROVE  /\ \A v \in VM : FreeOf(v) \in Int /\ FinalBlk(v) \in Int
           /\ [v \in VM |-> IF v \in known THEN FreeOf(v) ELSE 0] \in [Index(N) -> Int]
           /\ TotalFree \in Int
           /\ known # {} => MeanFree \in Int
  <1>1. \A v \in VM : FreeOf(v) \in Int /\ FinalBlk(v) \in Int
    BY GradientAssumption DEF TypeOK, FreeOf, FinalBlk
  <1>2. [v \in VM |-> IF v \in known THEN FreeOf(v) ELSE 0] \in [Index(N) -> Int]
    BY <1>1 DEF VM, Index
  <1>3. TotalFree \in Int
    BY NIsNat, <1>2, SumType DEF TotalFree
  <1>4. QED BY <1>1, <1>2, <1>3, KnownIsFinite, Quotient DEF MeanFree

-----------------------------------------------------------------------------
(* Types. *)

LEMMA TypeInit == Init => TypeOK
  <1> SUFFICES ASSUME Init PROVE TypeOK
    OBVIOUS
  <1> USE DEF Init
  <1>1. /\ rounds \in 0..MaxRounds /\ count \in 0..WARMUP_COUNT
        /\ listed \in SUBSET VM /\ todo \in SUBSET listed /\ known \in SUBSET VM
    BY GradientAssumption
  <1>2. allocated \in [VM -> Int] /\ balloon \in [VM -> Int] /\ asked \in [VM -> Int]
    BY GradientAssumption
  <1>3. free \in [VM -> Nat] /\ speed \in [VM -> Speeds \cup {0}]
    OBVIOUS
  <1>4. grad_direct \in [VM -> {"N", "up", "down"}]
    OBVIOUS
  <1>5. \A f \in {givers, takers, target} : DOMAIN f \in SUBSET known /\ f \in [DOMAIN f -> Int]
    BY DEF NoTransfer
  <1>6. pc \in {"wait", "update", "evaluate", "trigger", "control", "no_vm", "step_error"}
    OBVIOUS
  <1>7. count = 0
    OBVIOUS
  <1>8. QED BY <1>1, <1>2, <1>3, <1>4, <1>5, <1>6, <1>7 DEF TypeOK

\* The loop over the guests.
LEMMA UpdateStep == ASSUME TypeOK, BeginRound \/ UpdateInfo \/ EndUpdate PROVE TypeOK'
  <1> USE DEF infoVars
  <1>1. CASE BeginRound
    <2>1. \A f \in {givers', takers', target'} : DOMAIN f \in SUBSET known' /\ f \in [DOMAIN f -> Int]
      BY <1>1 DEF BeginRound, TypeOK, NoTransfer
    <2>2. rounds' \in 0..MaxRounds
      BY <1>1, GradientAssumption DEF BeginRound, TypeOK
    <2>3. QED BY <1>1, <2>1, <2>2 DEF BeginRound, TypeOK
  <1>2. CASE UpdateInfo
    <2> DEFINE v == First(todo)
    <2>1. v \in todo /\ v \in VM
      BY <1>2, FirstIsMember DEF UpdateInfo, TypeOK
    <2>2. known' = known \cup {v} /\ todo' = todo \ {v} /\ pc' = "update"
      BY <1>2 DEF UpdateInfo
    <2>3. balloon' \in [VM -> Int]
      <3>1. balloon[v] \in Int /\ asked[v] \in Int /\ Configured[v] \in Int
        BY <2>1, GradientAssumption DEF TypeOK
      <3>2. \E b \in {balloon[v], asked[v], Configured[v]} : balloon' = [balloon EXCEPT ![v] = b]
        BY <1>2 DEF UpdateInfo
      <3> HIDE DEF v
      <3>3. QED BY <2>1, <3>1, <3>2 DEF TypeOK
    <2>4. free' \in [VM -> Nat]
      BY <1>2, <2>1, GradientAssumption DEF UpdateInfo, TypeOK
    <2>5. speed' \in [VM -> Speeds \cup {0}]
      BY <1>2, <2>1 DEF UpdateInfo, TypeOK
    <2> HIDE DEF v
    <2>6. UNCHANGED <<rounds, listed, count, allocated, grad_direct, givers, takers, target, asked>>
      BY <1>2 DEF UpdateInfo
    <2>7. \A f \in {givers', takers', target'} : DOMAIN f \in SUBSET known' /\ f \in [DOMAIN f -> Int]
      BY <2>2, <2>6 DEF TypeOK
    <2>8. QED BY ONLY TypeOK, <2>1, <2>2, <2>3, <2>4, <2>5, <2>6, <2>7 DEF TypeOK
  <1>3. CASE EndUpdate
    BY <1>3 DEF EndUpdate, TypeOK
  <1>4. QED BY <1>1, <1>2, <1>3

LEMMA WarmUpType == ASSUME TypeOK, WarmUp PROVE TypeOK'
  <1> USE DEF infoVars
  <1>1. count' \in 0..WARMUP_COUNT
    BY GradientAssumption DEF WarmUp, TypeOK
  <1>2. UNCHANGED <<rounds, listed, todo, known, balloon, free, speed, grad_direct, givers, takers, asked>>
    BY DEF WarmUp
  <1>3. CASE known = {}
    <2>1. pc' = "no_vm" /\ UNCHANGED <<allocated, target>>
      BY <1>3 DEF WarmUp
    <2>2. QED BY <1>1, <1>2, <2>1 DEF TypeOK
  <1>4. CASE known # {}
    <2>1. TotalMem \div Cardinality(known) \in Int
      BY <1>4, KnownIsFinite, Quotient, GradientAssumption
    <2>2. /\ pc' = "control" /\ target' = Targets(known, allocated')
          /\ allocated' = [v \in VM |-> IF v \in known THEN TotalMem \div Cardinality(known) ELSE 0]
      BY <1>4 DEF WarmUp
    <2>3. allocated' \in [VM -> Int]
      BY <2>1, <2>2
    <2>4. DOMAIN target' \in SUBSET known /\ target' \in [DOMAIN target' -> Int]
      BY <2>2, <2>3, TargetsType DEF TypeOK
    <2>5. \A f \in {givers', takers', target'} : DOMAIN f \in SUBSET known' /\ f \in [DOMAIN f -> Int]
      BY <1>2, <2>4 DEF TypeOK
    <2>6. pc' = "control" /\ known' # {}
      BY <1>2, <1>4, <2>2
    <2>7. QED BY ONLY TypeOK, <1>1, <1>2, <2>3, <2>5, <2>6 DEF TypeOK
  <1>5. QED BY <1>3, <1>4

\* The choice of the transfers.
Choice == NoGradient \/ PerfFair \/ HalveStep \/ Utilization \/ AllIdle

LEMMA ChoiceType == ASSUME TypeOK, Choice PROVE TypeOK'
  <1> USE DEF Choice, infoVars
  <1>1. /\ UNCHANGED <<rounds, listed, todo, known, balloon, free, speed, count, allocated, target, asked>>
        /\ pc' \in {"trigger", "step_error"}
    BY DEF NoGradient, PerfFair, HalveStep, Utilization, AllIdle
  <1>2. count = WARMUP_COUNT /\ pc = "evaluate"
    BY DEF NoGradient, PerfFair, HalveStep, Utilization, AllIdle, Evaluates
  <1>3. known # {}
    BY <1>2, GradientAssumption DEF TypeOK
  <1>4. grad_direct' \in [VM -> {"N", "up", "down"}]
    BY DEF TypeOK, NoGradient, PerfFair, HalveStep, Utilization, AllIdle, Direction
  <1>5. \A f \in {givers', takers'} : DOMAIN f \in SUBSET known /\ f \in [DOMAIN f -> Int]
    <2>1. CASE Gives(NoTransfer, NoTransfer)
      BY <2>1 DEF Gives, NoTransfer
    <2>2. ASSUME NEW t \in TakerChoice, NEW g \in GiverChoice,
                 Gives([v \in {g} |-> -FinalBlk(g)], [v \in {t} |-> FinalBlk(g)])
          PROVE  \A f \in {givers', takers'} : DOMAIN f \in SUBSET known /\ f \in [DOMAIN f -> Int]
      <3>1. g \in known /\ t \in known
        BY <2>2 DEF TakerChoice, GiverChoice, Best, Worst
      <3>2. FinalBlk(g) \in Int /\ -FinalBlk(g) \in Int
        BY <3>1, FreeTypes DEF TypeOK
      <3>3. QED BY <2>2, <3>1, <3>2 DEF Gives
    <2>3. CASE Utilization
      <3>1. \A v \in known : MeanFree - FreeOf(v) \in Int
        BY <1>3, FreeTypes DEF TypeOK
      <3>2. QED BY <2>3, <3>1 DEF Utilization, Gives
    <2>4. QED BY <2>1, <2>2, <2>3 DEF NoGradient, PerfFair, HalveStep, AllIdle
  <1>6. \A f \in {givers', takers', target'} : DOMAIN f \in SUBSET known' /\ f \in [DOMAIN f -> Int]
    BY <1>1, <1>5 DEF TypeOK
  <1>7. QED BY ONLY TypeOK, <1>1, <1>3, <1>4, <1>6 DEF TypeOK

LEMMA GivenTypes == ASSUME TypeOK PROVE \A v \in VM : Given(v) \in Int /\ Taken(v) \in Int
  BY DEF TypeOK, Given, Taken

LEMMA TriggerType == ASSUME TypeOK, TriggerBalloon \/ ProcessBalloon PROVE TypeOK'
  <1> USE DEF infoVars
  <1>1. CASE TriggerBalloon
    <2>1. allocated' \in [VM -> Int]
      BY <1>1, GivenTypes DEF TriggerBalloon, TypeOK
    <2>2. UNCHANGED <<rounds, listed, todo, known, balloon, free, speed, count, grad_direct,
                      givers, takers, asked>> /\ pc = "trigger" /\ pc' = "control"
      BY <1>1 DEF TriggerBalloon
    <2>3. DOMAIN givers \cup DOMAIN takers \in SUBSET known /\ known \in SUBSET VM
      BY DEF TypeOK
    <2>4. target' = Targets(DOMAIN givers \cup DOMAIN takers, allocated')
      BY <1>1 DEF TriggerBalloon
    <2>5. DOMAIN target' \in SUBSET known /\ target' \in [DOMAIN target' -> Int]
      BY <2>1, <2>3, <2>4, TargetsType
    <2>6. \A f \in {givers', takers', target'} : DOMAIN f \in SUBSET known' /\ f \in [DOMAIN f -> Int]
      BY <2>2, <2>5 DEF TypeOK
    <2>7. QED BY ONLY TypeOK, <2>1, <2>2, <2>6 DEF TypeOK
  <1>2. CASE ProcessBalloon
    <2>1. asked' \in [VM -> Int]
      BY <1>2 DEF ProcessBalloon, TypeOK
    <2>2. QED BY <1>2, <2>1 DEF ProcessBalloon, TypeOK
  <1>3. QED BY <1>1, <1>2

LEMMA TypeStep == TypeOK /\ [Next]_vars => TypeOK'
  <1>1. ASSUME TypeOK, UNCHANGED vars PROVE TypeOK'
    BY <1>1 DEF TypeOK, vars, infoVars
  <1>2. QED
    BY <1>1, UpdateStep, WarmUpType, ChoiceType, TriggerType DEF Next, Choice

\* Types, and that the policy never divides by an empty set of VMs after the
\* warm-up.
THEOREM TypeCorrect == Spec => []TypeOK
  BY TypeInit, TypeStep, PTL DEF Spec

-----------------------------------------------------------------------------
(* The budget. *)

LEMMA GradientTypes ==
    ASSUME TypeOK
    PROVE  /\ \A v \in VM : Rate(v) \in Int
           /\ Sum(Rates) \in Int /\ Sum(Squares) \in Int
           /\ \A v \in VM : GradientOf(v) \in Int
  <1>1. \A v \in VM : Rate(v) \in Int
    <2>1. \A v \in VM : speed[v] \in Int /\ InvWeight[v] \in Int
      BY GradientAssumption DEF TypeOK
    <2>2. QED BY <2>1 DEF Rate
  <1>2. Rates \in [Index(N) -> Int]
    BY <1>1 DEF Rates, VM, Index
  <1>3. Squares \in [Index(N) -> Int]
    BY <1>2 DEF Squares, VM, Index
  <1>4. Sum(Rates) \in Int /\ Sum(Squares) \in Int
    BY NIsNat, <1>2, <1>3, SumType
  <1>5. \A v \in VM : InvWeight[v] \in Int
    BY GradientAssumption
  <1>6. QED BY <1>1, <1>4, <1>5 DEF GradientOf

Change == [v \in VM |-> Given(v) + Taken(v)]

\* What is about to be transferred adds nothing to the allocations.
TransferInv == pc = "trigger" => Sum(Change) <= 0

BudgetInv == BudgetKept /\ TransferInv

LEMMA BudgetInit == Init => BudgetInv
  <1> SUFFICES ASSUME Init PROVE BudgetInv
    OBVIOUS
  <1>1. Sum(allocated) = 0
    BY NIsNat, SumOfZeros DEF Init, VM, Index
  <1>2. QED BY <1>1, GradientAssumption DEF Init, BudgetInv, BudgetKept, TransferInv

LEMMA WarmUpBudget == ASSUME TypeOK, BudgetInv, WarmUp PROVE BudgetInv'
  <1>1. CASE known = {}
    BY <1>1 DEF WarmUp, BudgetInv, BudgetKept, TransferInv
  <1>2. CASE known # {}
    <2> DEFINE n == Cardinality(known)
               share == TotalMem \div n
    <2>1. n \in Nat /\ n > 0 /\ TotalMem \in Int
      BY <1>2, KnownIsFinite, GradientAssumption
    <2>2. share \in Int /\ share * n <= TotalMem
      <3> HIDE DEF n
      <3>1. QED BY <2>1, Quotient
    <2>3. allocated' = [v \in Index(N) |-> IF v \in known THEN share ELSE 0] /\ pc' = "control"
      BY <1>2 DEF WarmUp, VM, Index
    <2>4. known \in SUBSET Index(N)
      BY DEF TypeOK, VM, Index
    <2> HIDE DEF share
    <2>5. Sum(allocated') = share * n
      BY NIsNat, <2>2, <2>3, <2>4, SumOfEqual
    <2>6. QED BY <2>2, <2>3, <2>5 DEF BudgetInv, BudgetKept, TransferInv
  <1>3. QED BY <1>1, <1>2

\* Giver and taker differ, as their gradients have different signs.
LEMMA ChosenDiffer ==
    ASSUME NEW t \in TakerChoice, NEW g \in GiverChoice
    PROVE  /\ g \in known /\ t \in known
           /\ GradientOf(t) > 0 /\ GradientOf(g) < 0
  BY DEF TakerChoice, GiverChoice, Best, Worst

LEMMA FairBudget ==
    ASSUME TypeOK, NEW t \in TakerChoice, NEW g \in GiverChoice, g # t,
           Gives([v \in {g} |-> -FinalBlk(g)], [v \in {t} |-> FinalBlk(g)])
    PROVE  Sum(Change') = 0
  <1> DEFINE b == FinalBlk(g)
  <1>1. g \in Index(N) /\ t \in Index(N)
    BY ChosenDiffer DEF TypeOK, VM, Index
  <1>2. b \in Int
    BY <1>1, FreeTypes DEF VM, Index
  <1>3. givers' = [v \in {g} |-> -b] /\ takers' = [v \in {t} |-> b]
    BY DEF Gives
  <1> HIDE DEF b
  <1>4. Change' = [v \in Index(N) |-> IF v = g THEN -b ELSE IF v = t THEN b ELSE 0]
    <2>1. \A v \in Index(N) : Given(v)' + Taken(v)' = IF v = g THEN -b ELSE IF v = t THEN b ELSE 0
      BY <1>1, <1>2, <1>3 DEF Given, Taken
    <2>2. QED BY <2>1 DEF Change, VM, Index
  <1>5. QED BY NIsNat, <1>1, <1>2, <1>4, SumOfTransfer

LEMMA UtilizationBudget == ASSUME TypeOK, Utilization PROVE Sum(Change') <= 0
  <1> DEFINE m == MeanFree
             n == Cardinality(known)
             M == [v \in Index(N) |-> IF v \in known THEN m ELSE 0]
             F == [v \in VM |-> IF v \in known THEN FreeOf(v) ELSE 0]
             D == [v \in Index(N) |-> IF v \in known THEN m - FreeOf(v) ELSE 0]
  <1>1. known \in SUBSET Index(N) /\ known # {}
    BY DEF TypeOK, VM, Index, Utilization, Idle
  <1>2. m \in Int /\ F \in [Index(N) -> Int] /\ \A v \in Index(N) : FreeOf(v) \in Int
    BY <1>1, FreeTypes DEF VM, Index
  <1>3. M \in [Index(N) -> Int] /\ D \in [Index(N) -> Int] /\ \A v \in Index(N) : M[v] = D[v] + F[v]
    <2> HIDE DEF m
    <2>1. M \in [Index(N) -> Int] /\ D \in [Index(N) -> Int]
      BY <1>2
    <2>2. \A v \in Index(N) : M[v] = D[v] + F[v]
      BY <1>2 DEF VM, Index
    <2>3. QED BY <2>1, <2>2
  <1>4. Sum(M) = Sum(D) + Sum(F) /\ Sum(D) \in Int /\ Sum(F) \in Int
    <2> HIDE DEF M, D, F
    <2>1. QED BY NIsNat, <1>2, <1>3, SumAdd, SumType
  <1>5. Sum(M) = m * n
    <2> HIDE DEF m
    <2>1. QED BY NIsNat, <1>1, <1>2, SumOfEqual
  <1>6. m * n <= Sum(F)
    <2>1. n \in Nat /\ n > 0 /\ TotalFree \in Int
      BY <1>1, KnownIsFinite, FreeTypes
    <2>2. (TotalFree \div n) * n <= TotalFree
      <3> HIDE DEF n
      <3>1. QED BY <2>1, Quotient
    <2>3. QED BY <2>2 DEF MeanFree, TotalFree
  <1>7. Change' = D
    <2>1. /\ givers' = [v \in {w \in known : m < FreeOf(w)} |-> m - FreeOf(v)]
          /\ takers' = [v \in {w \in known : m >= FreeOf(w)} |-> m - FreeOf(v)]
      BY DEF Utilization, Gives
    <2> HIDE DEF m
    <2>2. ASSUME NEW v \in Index(N) PROVE Given(v)' + Taken(v)' = D[v]
      <3>0. FreeOf(v) \in Int
        BY <1>2
      <3>1. CASE v \in known /\ m < FreeOf(v)
        <4>1. Given(v)' = m - FreeOf(v)
          BY <2>1, <3>1 DEF Given
        <4>2. Taken(v)' = 0
          BY <1>2, <2>1, <3>0, <3>1 DEF Taken
        <4>3. QED BY <1>2, <3>0, <3>1, <4>1, <4>2
      <3>2. CASE v \in known /\ m >= FreeOf(v)
        <4>1. Given(v)' = 0
          BY <1>2, <2>1, <3>0, <3>2 DEF Given
        <4>2. Taken(v)' = m - FreeOf(v)
          BY <2>1, <3>2 DEF Taken
        <4>3. QED BY <1>2, <3>0, <3>2, <4>1, <4>2
      <3>3. CASE v \notin known
        BY <2>1, <3>3 DEF Given, Taken
      <3>4. QED BY <1>2, <3>0, <3>1, <3>2, <3>3
    <2>3. QED BY <2>2 DEF Change, VM, Index
  <1>8. QED
    <2> HIDE DEF m, n, M, F, D
    <2>1. QED BY <1>4, <1>5, <1>6, <1>7

LEMMA ChoiceBudget == ASSUME TypeOK, BudgetInv, Choice PROVE BudgetInv'
  <1>1. UNCHANGED allocated
    BY DEF Choice, NoGradient, PerfFair, HalveStep, Utilization, AllIdle
  <1>2. Sum(Change') <= 0
    <2>1. CASE Gives(NoTransfer, NoTransfer)
      <3>1. Change' = [v \in Index(N) |-> 0]
        BY <2>1 DEF Gives, NoTransfer, Change, Given, Taken, VM, Index
      <3>2. QED BY NIsNat, <3>1, SumOfZeros
    <2>2. ASSUME NEW t \in TakerChoice, NEW g \in GiverChoice,
                 Gives([v \in {g} |-> -FinalBlk(g)], [v \in {t} |-> FinalBlk(g)])
          PROVE  Sum(Change') <= 0
      <3>1. g # t
        <4>1. GradientOf(t) > 0 /\ GradientOf(g) < 0 /\ GradientOf(g) \in Int
          <5>1. g \in known /\ GradientOf(t) > 0 /\ GradientOf(g) < 0
            BY <2>2, ChosenDiffer
          <5>2. QED BY <5>1, GradientTypes DEF TypeOK
        <4>2. QED BY <4>1
      <3>2. Sum(Change') = 0
        BY <2>2, <3>1, FairBudget
      <3>3. QED BY <3>2
    <2>3. QED
      BY <2>1, <2>2, UtilizationBudget DEF Choice, NoGradient, PerfFair, HalveStep, AllIdle
  <1>3. QED BY <1>1, <1>2 DEF BudgetInv, BudgetKept, TransferInv

LEMMA TriggerBudget == ASSUME TypeOK, BudgetInv, TriggerBalloon PROVE BudgetInv'
  <1>1. pc = "trigger" /\ pc' = "control"
    BY DEF TriggerBalloon
  <1>2. /\ allocated \in [Index(N) -> Int] /\ Change \in [Index(N) -> Int]
        /\ allocated' \in [Index(N) -> Int]
        /\ \A v \in Index(N) : allocated'[v] = allocated[v] + Change[v]
    BY GivenTypes DEF TriggerBalloon, TypeOK, Change, VM, Index
  <1>3. Sum(allocated') = Sum(allocated) + Sum(Change)
    BY ONLY NIsNat, <1>2, SumAdd
  <1>4. Sum(allocated) \in Int /\ Sum(Change) \in Int
    BY NIsNat, <1>2, SumType
  <1>5. QED BY <1>1, <1>3, <1>4, GradientAssumption DEF BudgetInv, BudgetKept, TransferInv

LEMMA BudgetStep == TypeOK /\ BudgetInv /\ [Next]_vars => BudgetInv'
  <1> SUFFICES ASSUME TypeOK, BudgetInv, [Next]_vars PROVE BudgetInv'
    OBVIOUS
  <1>1. CASE BeginRound \/ UpdateInfo \/ EndUpdate \/ ProcessBalloon
    <2>1. UNCHANGED allocated /\ pc' # "trigger"
      BY <1>1 DEF BeginRound, UpdateInfo, EndUpdate, ProcessBalloon
    <2>2. QED BY <2>1 DEF BudgetInv, BudgetKept, TransferInv
  <1>2. CASE UNCHANGED vars
    <2>1. UNCHANGED <<allocated, pc, givers, takers>>
      BY <1>2 DEF vars
    <2>2. UNCHANGED Change
      BY <2>1 DEF Change, Given, Taken
    <2>3. QED BY <2>1, <2>2 DEF BudgetInv, BudgetKept, TransferInv
  <1>3. QED
    BY <1>1, <1>2, WarmUpBudget, ChoiceBudget, TriggerBudget DEF Next, Choice

\* However the transfers are chosen and refused, what is allocated to all VMs
\* stays within the budget.
THEOREM BudgetIsKept == Spec => []BudgetKept
  <1>1. BudgetInv => BudgetKept
    BY DEF BudgetInv
  <1>2. QED
    BY <1>1, TypeInit, TypeStep, BudgetInit, BudgetStep, PTL DEF Spec

-----------------------------------------------------------------------------
(* The direction of a transfer. *)

\* What the sums over the other VMs leave out cancels.
LEMMA OwnRateCancels ==
    ASSUME NEW q \in Int, NEW s \in Int, NEW r \in Int
    PROVE  (q - r * r) - r * (s - r) = q - r * s
  <1>1. r * (s - r) = r * s - r * r
    OBVIOUS
  <1>2. r * s \in Int /\ r * r \in Int
    OBVIOUS
  <1>3. \A x, y \in Int : (q - x) - (y - x) = q - y
    OBVIOUS
  <1>4. QED BY <1>1, <1>2, <1>3

\* The gradient's sign says on which side of SumSquares / SumRates a rate is.
LEMMA SignOfGradient ==
    ASSUME NEW q \in Int, NEW s \in Int, NEW r \in Int, NEW w \in Nat \ {0}
    PROVE  /\ ((q - r * r) - r * (s - r)) * w > 0 => q > r * s
           /\ ((q - r * r) - r * (s - r)) * w < 0 => q < r * s
  <1>1. (q - r * r) - r * (s - r) = q - r * s
    BY OwnRateCancels
  <1>2. \A d \in Int : (d * w > 0 => d > 0) /\ (d * w < 0 => d < 0)
    OBVIOUS
  <1>3. q - r * s \in Int
    OBVIOUS
  <1>4. QED BY <1>1, <1>2, <1>3

LEMMA RatesOrdered ==
    ASSUME NEW q \in Int, NEW s \in Nat, NEW r \in Int, NEW p \in Int,
           q > r * s, q < p * s
    PROVE  r < p
  <1> SUFFICES ASSUME p <= r PROVE FALSE
    OBVIOUS
  <1>1. p * s <= r * s
    OBVIOUS
  <1>2. p * s \in Int /\ r * s \in Int
    OBVIOUS
  <1>3. QED BY <1>1, <1>2

LEMMA WorseOff ==
    ASSUME TypeOK, GradientsKnown, NEW g \in known, NEW t \in known,
           GradientOf(t) > 0, GradientOf(g) < 0
    PROVE  Rate(t) < Rate(g)
  <1> DEFINE q == Sum(Squares)
             s == Sum(Rates)
  <1>1. g \in VM /\ t \in VM
    BY DEF TypeOK
  <1>2. q \in Int /\ Rate(g) \in Int /\ Rate(t) \in Int
    BY <1>1, GradientTypes
  <1>3. s \in Nat
    <2>1. \A v \in known : Rate(v) \in Nat
      BY GradientTypes DEF GradientsKnown, TypeOK
    <2>2. Rates \in [Index(N) -> Nat]
      BY <2>1 DEF Rates, VM, Index
    <2>3. QED BY NIsNat, <2>2, SumOfNaturals
  <1>4. InvWeight[g] \in Nat \ {0} /\ InvWeight[t] \in Nat \ {0}
    BY <1>1, GradientAssumption
  <1>5. /\ ((q - Rate(t) * Rate(t)) - Rate(t) * (s - Rate(t))) * InvWeight[t] > 0
        /\ ((q - Rate(g) * Rate(g)) - Rate(g) * (s - Rate(g))) * InvWeight[g] < 0
    BY DEF GradientOf
  <1> HIDE DEF q, s
  <1>6. q > Rate(t) * s /\ q < Rate(g) * s
    BY <1>2, <1>3, <1>4, <1>5, SignOfGradient
  <1>7. QED BY <1>2, <1>3, <1>6, RatesOrdered

LEMMA WorseOffStep == TypeOK /\ TakerIsWorseOff /\ [Next]_vars => TakerIsWorseOff'
  <1> SUFFICES ASSUME TypeOK, TakerIsWorseOff, [Next]_vars,
                      NEW g \in known', NEW t \in known', FairTransfer(g, t)'
               PROVE  Rate(t)' < Rate(g)'
    BY DEF TakerIsWorseOff
  <1>1. /\ pc' = "trigger" /\ Idle' = {} /\ g \in DOMAIN givers' /\ t \in DOMAIN takers'
    BY DEF FairTransfer
  <1>2. CASE UNCHANGED vars
    <2>1. UNCHANGED <<pc, known, free, speed, givers, takers>>
      BY <1>2 DEF vars, infoVars
    <2>2. FairTransfer(g, t) /\ Rate(t)' = Rate(t) /\ Rate(g)' = Rate(g) /\ known' = known
      BY <1>1, <2>1 DEF FairTransfer, Idle, Rate
    <2>3. QED BY <2>2 DEF TakerIsWorseOff
  <1>3. CASE PerfFair
    <2>1. UNCHANGED <<known, speed>>
      BY <1>3 DEF PerfFair, infoVars
    <2>2. PICK u \in TakerChoice, h \in GiverChoice :
             Gives([v \in {h} |-> -FinalBlk(h)], [v \in {u} |-> FinalBlk(h)])
      BY <1>1, <1>3 DEF PerfFair, Gives, NoTransfer
    <2>3. g = h /\ t = u
      BY <1>1, <2>2 DEF Gives
    <2>4. Rate(t) < Rate(g)
      BY <1>3, <2>2, <2>3, ChosenDiffer, WorseOff DEF PerfFair
    <2>5. QED BY <2>1, <2>4 DEF Rate
  <1>4. CASE NoGradient \/ HalveStep \/ AllIdle
    BY <1>1, <1>4 DEF NoGradient, HalveStep, AllIdle, Gives, NoTransfer
  <1>5. CASE Utilization
    <2>1. Idle # {} /\ UNCHANGED <<known, free>>
      BY <1>5 DEF Utilization, infoVars
    <2>2. Idle' = Idle
      BY <2>1 DEF Idle
    <2>3. QED BY <1>1, <2>1, <2>2
  <1>6. CASE BeginRound \/ UpdateInfo \/ EndUpdate \/ WarmUp \/ TriggerBalloon \/ ProcessBalloon
    BY <1>1, <1>6 DEF BeginRound, UpdateInfo, EndUpdate, WarmUp, TriggerBalloon, ProcessBalloon
  <1>7. QED BY <1>2, <1>3, <1>4, <1>5, <1>6 DEF Next

\* A fairness transfer goes to a VM that does worse for its weight than the one
\* that gives, for any rates and weights.
THEOREM TakerDoesWorse == Spec => []TakerIsWorseOff
  <1>1. Init => TakerIsWorseOff
    BY DEF Init, TakerIsWorseOff, FairTransfer
  <1>2. QED
    BY <1>1, TypeInit, TypeStep, WorseOffStep, PTL DEF Spec

-----------------------------------------------------------------------------
(* Unequal rates lead to a transfer. *)

\* The other direction of SignOfGradient.
LEMMA GradientOfSign ==
    ASSUME NEW q \in Int, NEW s \in Int, NEW r \in Int, NEW w \in Nat \ {0}
    PROVE  /\ q > r * s => ((q - r * r) - r * (s - r)) * w > 0
           /\ q < r * s => ((q - r * r) - r * (s - r)) * w < 0
  <1>1. (q - r * r) - r * (s - r) = q - r * s
    BY OwnRateCancels
  <1>2. \A d \in Int : (d > 0 => d * w > 0) /\ (d < 0 => d * w < 0)
    OBVIOUS
  <1>3. q - r * s \in Int /\ r * s \in Int
    OBVIOUS
  <1>4. (q > r * s => q - r * s > 0) /\ (q < r * s => q - r * s < 0)
    BY <1>3
  <1>5. QED BY <1>1, <1>2, <1>3, <1>4

\* A choice of the loop exists where there is a candidate.
LEMMA ChoiceExists ==
    ASSUME TypeOK, NEW S \in SUBSET known, S # {}
    PROVE  Best(S) # {} /\ Worst(S) # {}
  <1> DEFINE f == [v \in Index(N) |-> GradientOf(v)]
  <1>1. S \in SUBSET Index(N)
    BY DEF TypeOK, VM, Index
  <1>2. f \in [Index(N) -> Int] /\ \A v \in S : f[v] = GradientOf(v)
    BY <1>1, GradientTypes DEF VM, Index
  <1> HIDE DEF f
  <1>3. \E m \in S : \A v \in S : f[v] <= f[m]
    BY NIsNat, <1>1, <1>2, LargestExists
  <1>4. \E m \in S : \A v \in S : f[m] <= f[v]
    BY NIsNat, <1>1, <1>2, SmallestExists
  <1>5. QED BY <1>2, <1>3, <1>4 DEF Best, Worst

\* All VMs run, none at its full speed, and some do better than others.
Unequal == /\ \A v \in known : speed[v] \in 1..One - 1
           /\ \E v, w \in known : Rate(v) # Rate(w)

LEMMA RatesPositive ==
    ASSUME TypeOK, Unequal
    PROVE  /\ \A v \in known : Rate(v) \in Nat /\ Rate(v) > 0
           /\ Rates \in [Index(N) -> Int] /\ Squares \in [Index(N) -> Int]
           /\ \A v \in Index(N) : Rates[v] = IF v \in known THEN Rate(v) ELSE 0
           /\ \A v \in Index(N) : Squares[v] = Rates[v] * Rates[v]
  <1>1. ASSUME NEW v \in known PROVE Rate(v) \in Nat /\ Rate(v) > 0
    <2>1. InvWeight[v] \in Nat \ {0} /\ speed[v] \in Nat \ {0}
      BY GradientAssumption DEF TypeOK, Unequal
    <2>2. \A a, b \in Nat \ {0} : a * b \in Nat /\ a * b > 0
      OBVIOUS
    <2>3. QED BY <2>1, <2>2 DEF Rate
  <1>2. Rates \in [Index(N) -> Int] /\ \A v \in Index(N) : Rates[v] = IF v \in known THEN Rate(v) ELSE 0
    BY <1>1 DEF Rates, VM, Index
  <1>3. Squares \in [Index(N) -> Int] /\ \A v \in Index(N) : Squares[v] = Rates[v] * Rates[v]
    BY <1>2 DEF Squares, VM, Index
  <1>4. QED BY <1>1, <1>2, <1>3

\* Multiplying by a rate that no VM exceeds, or that none falls below.
LEMMA SquaresBelow ==
    ASSUME TypeOK, Unequal, NEW m \in known, \A v \in known : Rate(v) <= Rate(m)
    PROVE  Sum(Squares) < Rate(m) * Sum(Rates)
  <1> DEFINE c == Rate(m)
             h == [v \in Index(N) |-> c * Rates[v]]
  <1>1. /\ c \in Nat /\ \A v \in known : Rate(v) \in Nat /\ Rate(v) > 0 /\ Rate(v) <= c
        /\ Rates \in [Index(N) -> Int] /\ Squares \in [Index(N) -> Int] /\ known \subseteq Index(N)
    BY RatesPositive DEF TypeOK, VM, Index
  <1>2. PICK u \in known : Rate(u) < c
    <2>1. PICK v, w \in known : Rate(v) # Rate(w)
      BY DEF Unequal
    <2> HIDE DEF c
    <2>2. Rate(v) < c \/ Rate(w) < c
      BY <1>1, <2>1
    <2>3. QED BY <2>2
  <1> HIDE DEF c
  <1>3. h \in [Index(N) -> Int] /\ \A v \in Index(N) : h[v] = c * Rates[v]
    BY <1>1
  <1> HIDE DEF h
  <1>4. \A x \in Nat : x <= c => x * x <= c * x
    BY <1>1
  <1>5. \A x \in Nat : x > 0 /\ x < c => x * x < c * x
    BY <1>1
  <1>6. ASSUME NEW v \in Index(N) PROVE Squares[v] <= h[v]
    <2>1. CASE v \in known
      <3>1. Rates[v] \in Nat /\ Rates[v] <= c /\ Squares[v] = Rates[v] * Rates[v]
        BY <1>1, <2>1, RatesPositive
      <3>2. QED BY <1>3, <1>4, <3>1
    <2>2. CASE v \notin known
      <3>1. Rates[v] = 0 /\ Squares[v] = 0 * 0
        BY <2>2, RatesPositive
      <3>2. h[v] = c * 0
        BY <1>3, <3>1
      <3>3. QED BY <1>1, <3>1, <3>2
    <2>3. QED BY <2>1, <2>2
  <1>7. Squares[u] < h[u]
    <2>1. Rates[u] \in Nat /\ Rates[u] > 0 /\ Rates[u] < c /\ Squares[u] = Rates[u] * Rates[u]
      BY <1>1, <1>2, RatesPositive
    <2>2. QED BY <1>1, <1>3, <1>5, <2>1
  <1>8. Sum(Squares) < Sum(h)
    BY NIsNat, <1>1, <1>3, <1>6, <1>7, SumStrict
  <1>9. Sum(h) = c * Sum(Rates)
    BY NIsNat, <1>1, <1>3, SumScaled
  <1>10. QED BY <1>8, <1>9 DEF c

LEMMA SquaresAbove ==
    ASSUME TypeOK, Unequal, NEW m \in known, \A v \in known : Rate(m) <= Rate(v)
    PROVE  Rate(m) * Sum(Rates) < Sum(Squares)
  <1> DEFINE c == Rate(m)
             h == [v \in Index(N) |-> c * Rates[v]]
  <1>1. /\ c \in Nat /\ \A v \in known : Rate(v) \in Nat /\ Rate(v) > 0 /\ c <= Rate(v)
        /\ Rates \in [Index(N) -> Int] /\ Squares \in [Index(N) -> Int] /\ known \subseteq Index(N)
    BY RatesPositive DEF TypeOK, VM, Index
  <1>2. PICK u \in known : c < Rate(u)
    <2>1. PICK v, w \in known : Rate(v) # Rate(w)
      BY DEF Unequal
    <2> HIDE DEF c
    <2>2. c < Rate(v) \/ c < Rate(w)
      BY <1>1, <2>1
    <2>3. QED BY <2>2
  <1> HIDE DEF c
  <1>3. h \in [Index(N) -> Int] /\ \A v \in Index(N) : h[v] = c * Rates[v]
    BY <1>1
  <1> HIDE DEF h
  <1>4. \A x \in Nat : c <= x => c * x <= x * x
    BY <1>1
  <1>5. \A x \in Nat : x > 0 /\ c < x => c * x < x * x
    BY <1>1
  <1>6. ASSUME NEW v \in Index(N) PROVE h[v] <= Squares[v]
    <2>1. CASE v \in known
      <3>1. Rates[v] \in Nat /\ c <= Rates[v] /\ Squares[v] = Rates[v] * Rates[v]
        BY <1>1, <2>1, RatesPositive
      <3>2. QED BY <1>3, <1>4, <3>1
    <2>2. CASE v \notin known
      <3>1. Rates[v] = 0 /\ Squares[v] = 0 * 0
        BY <2>2, RatesPositive
      <3>2. h[v] = c * 0
        BY <1>3, <3>1
      <3>3. QED BY <1>1, <3>1, <3>2
    <2>3. QED BY <2>1, <2>2
  <1>7. h[u] < Squares[u]
    <2>1. Rates[u] \in Nat /\ Rates[u] > 0 /\ c < Rates[u] /\ Squares[u] = Rates[u] * Rates[u]
      BY <1>1, <1>2, RatesPositive
    <2>2. QED BY <1>1, <1>3, <1>5, <2>1
  <1>8. Sum(h) < Sum(Squares)
    BY NIsNat, <1>1, <1>3, <1>6, <1>7, SumStrict
  <1>9. Sum(h) = c * Sum(Rates)
    BY NIsNat, <1>1, <1>3, SumScaled
  <1>10. QED BY <1>8, <1>9 DEF c

LEMMA ChoicesExist ==
    ASSUME TypeOK, Unequal PROVE TakerChoice # {} /\ GiverChoice # {}
  <1> DEFINE q == Sum(Squares)
             s == Sum(Rates)
  <1>1. /\ known \in SUBSET Index(N) /\ known # {}
        /\ Rates \in [Index(N) -> Int] /\ \A v \in known : Rates[v] = Rate(v)
    BY RatesPositive DEF TypeOK, VM, Index, Unequal
  <1>2. q \in Int /\ s \in Int /\ \A v \in known : Rate(v) \in Int /\ InvWeight[v] \in Nat \ {0}
    BY <1>1, GradientTypes, GradientAssumption DEF VM, Index
  <1>3. \A v \in known : /\ q > Rate(v) * s => GradientOf(v) > 0
                         /\ q < Rate(v) * s => GradientOf(v) < 0
    <2> SUFFICES ASSUME NEW v \in known
                 PROVE  /\ q > Rate(v) * s => GradientOf(v) > 0
                        /\ q < Rate(v) * s => GradientOf(v) < 0
      OBVIOUS
    <2>1. GradientOf(v) = ((q - Rate(v) * Rate(v)) - Rate(v) * (s - Rate(v))) * InvWeight[v]
      BY DEF GradientOf
    <2> HIDE DEF q, s
    <2>2. QED BY <1>2, <2>1, GradientOfSign
  <1>4. \E v \in known : GradientOf(v) < 0
    <2>1. PICK m \in known : \A v \in known : Rates[v] <= Rates[m]
      BY NIsNat, <1>1, LargestExists
    <2>2. q < Rate(m) * s
      BY <1>1, <2>1, SquaresBelow
    <2>3. QED BY <1>3, <2>2
  <1>5. \E v \in known : GradientOf(v) > 0 /\ speed[v] < One
    <2>1. PICK m \in known : \A v \in known : Rates[m] <= Rates[v]
      BY NIsNat, <1>1, SmallestExists
    <2>2. Rate(m) * s < q
      BY <1>1, <2>1, SquaresAbove
    <2>3. q > Rate(m) * s
      <3>1. Rate(m) * s \in Int
        BY <1>2
      <3> HIDE DEF q, s
      <3>2. QED BY <1>2, <2>2, <3>1
    <2>4. speed[m] < One
      BY GradientAssumption DEF Unequal
    <2>5. QED BY <1>3, <2>3, <2>4
  <1>6. QED BY <1>4, <1>5, ChoiceExists DEF TakerChoice, GiverChoice

\* update_gradient does not fail for such rates.
LEMMA UnequalKnown == ASSUME TypeOK, Unequal PROVE GradientsKnown
  <1>1. \A v \in known : Rate(v) >= 0
    BY RatesPositive
  <1>2. Sum(Squares) # 0
    <2>1. PICK u \in known : TRUE
      BY DEF Unequal
    <2> DEFINE z == [v \in Index(N) |-> 0]
    <2>2. /\ z \in [Index(N) -> Int] /\ Squares \in [Index(N) -> Int] /\ u \in Index(N)
      BY RatesPositive DEF TypeOK, VM, Index
    <2>3. \A x \in Nat : 0 <= x * x /\ (x > 0 => 0 < x * x)
      OBVIOUS
    <2>4. \A v \in Index(N) : Rates[v] \in Nat /\ Squares[v] = Rates[v] * Rates[v]
      BY RatesPositive
    <2>5. Rates[u] > 0
      BY <2>2, RatesPositive
    <2>6. \A v \in Index(N) : z[v] <= Squares[v]
      BY <2>3, <2>4
    <2>7. z[u] < Squares[u]
      BY <2>2, <2>3, <2>4, <2>5
    <2> HIDE DEF z
    <2>8. Sum(z) < Sum(Squares)
      BY NIsNat, <2>2, <2>6, <2>7, SumStrict
    <2>9. Sum(z) = 0
      BY NIsNat, SumOfZeros DEF z
    <2>10. Sum(Squares) \in Int
      BY GradientTypes
    <2>11. QED BY <2>8, <2>9, <2>10
  <1>3. QED BY <1>1, <1>2 DEF GradientsKnown

LEMMA ActedOnStep == TypeOK /\ UnfairnessIsActedOn /\ [Next]_vars => UnfairnessIsActedOn'
  <1> SUFFICES ASSUME TypeOK, UnfairnessIsActedOn, [Next]_vars,
                      pc' = "trigger", Idle' = {}, Unequal'
               PROVE  \E g, t \in known' : FairTransfer(g, t)'
    BY DEF UnfairnessIsActedOn, Unequal
  <1>1. CASE UNCHANGED vars
    <2>1. UNCHANGED <<pc, known, free, speed, givers, takers>>
      BY <1>1 DEF vars, infoVars
    <2>2. pc = "trigger" /\ Idle = {} /\ Unequal
      BY <2>1 DEF Idle, Unequal, Rate
    <2>3. PICK g, t \in known : FairTransfer(g, t)
      BY <2>2 DEF UnfairnessIsActedOn, Unequal
    <2>4. FairTransfer(g, t)' /\ known' = known
      BY <2>1, <2>2, <2>3 DEF FairTransfer, Idle
    <2>5. QED BY <2>4
  <1>2. CASE PerfFair
    <2>1. UNCHANGED <<known, speed>>
      BY <1>2 DEF PerfFair, infoVars
    <2>2. Unequal
      BY <2>1 DEF Unequal, Rate
    <2>3. PICK t \in TakerChoice, g \in GiverChoice :
             Gives([v \in {g} |-> -FinalBlk(g)], [v \in {t} |-> FinalBlk(g)])
      BY <1>2, <2>2, ChoicesExist DEF PerfFair
    <2>4. g \in known' /\ t \in known' /\ g \in DOMAIN givers' /\ t \in DOMAIN takers'
      BY <2>1, <2>3, ChosenDiffer DEF Gives
    <2>5. QED BY <2>4 DEF FairTransfer
  <1>3. CASE NoGradient
    <2>1. UNCHANGED <<known, speed>> /\ ~GradientsKnown
      BY <1>3 DEF NoGradient, infoVars
    <2>2. Unequal
      BY <2>1 DEF Unequal, Rate
    <2>3. QED BY <2>1, <2>2, UnequalKnown
  <1>4. CASE Utilization \/ AllIdle
    <2>1. Idle # {} /\ UNCHANGED <<known, free>>
      BY <1>4 DEF Utilization, AllIdle, infoVars
    <2>2. QED BY <2>1 DEF Idle
  <1>5. CASE \/ BeginRound \/ UpdateInfo \/ EndUpdate \/ WarmUp \/ HalveStep
             \/ TriggerBalloon \/ ProcessBalloon
    BY <1>5 DEF BeginRound, UpdateInfo, EndUpdate, WarmUp, HalveStep, TriggerBalloon, ProcessBalloon
  <1>6. QED BY <1>1, <1>2, <1>3, <1>4, <1>5 DEF Next

\* For any rates and weights: when all VMs run, none at its full speed, and they
\* do not all do equally well, there is one to give and one to take: the highest
\* rate has a negative gradient, the lowest a positive one.
THEOREM UnequalRatesMove == Spec => []UnfairnessIsActedOn
  <1>1. Init => UnfairnessIsActedOn
    BY DEF Init, UnfairnessIsActedOn
  <1>2. QED
    BY <1>1, TypeInit, TypeStep, ActedOnStep, PTL DEF Spec
=============================================================================
