---------------------------- MODULE HashProofs -----------------------------
(***************************************************************************)
(* Machine-checked proofs about Hash, for every set of keys, every initial *)
(* size and every bound on growth and drift.                               *)
(***************************************************************************)
EXTENDS Hash, FunctionTheorems, SequenceTheorems, FiniteSetTheorems, WellFoundedInduction, TLAPS

-----------------------------------------------------------------------------
(***************************************************************************)
(* Induction, stated for a set of numbers instead of a predicate.          *)
(***************************************************************************)

LEMMA Least ==
    ASSUME NEW T \in SUBSET Nat, T # {}
    PROVE  \E x \in T : \A y \in T : x <= y
  <1> DEFINE F == {0..x : x \in T}
  <1>1. F \subseteq FiniteSubsetsOf(Nat)
    <2>1. ASSUME NEW x \in T PROVE 0..x \in SUBSET Nat /\ IsFiniteSet(0..x)
      BY FS_Interval
    <2> QED
      BY <2>1 DEF FiniteSubsetsOf
  <1>2. F # {}
    OBVIOUS
  <1>3. PICK a \in F : \A b \in F : <<b, a>> \notin StrictSubsetOrdering(Nat)
    BY <1>1, <1>2, WFMin, FS_StrictSubsetOrderingWellFounded
  <1>4. PICK x \in T : a = 0..x
    OBVIOUS
  <1>5. ASSUME NEW y \in T, y < x PROVE FALSE
    <2> DEFINE b == 0..y
    <2>1. b \in F /\ b \in SUBSET Nat /\ a \in SUBSET Nat /\ b \subseteq a /\ b # a
      BY <1>4, <1>5
    <2>2. <<b, a>> \in StrictSubsetOrdering(Nat)
      BY <2>1 DEF StrictSubsetOrdering
    <2> QED
      BY <1>3, <2>1, <2>2
  <1> QED
    BY <1>5

LEMMA Induct ==
    ASSUME NEW T, 0 \in T, \A n \in Nat : n \in T => n + 1 \in T
    PROVE  Nat \subseteq T
  <1> DEFINE C == Nat \ T
  <1> SUFFICES ASSUME C # {} PROVE FALSE
    OBVIOUS
  <1>1. PICK x \in C : \A y \in C : x <= y
    BY Least
  <1>2. x # 0 /\ x \in Nat /\ x - 1 \in Nat
    OBVIOUS
  <1>3. x - 1 \in T
    BY <1>1, <1>2
  <1>4. (x - 1) + 1 \in T
    BY <1>2, <1>3
  <1> QED
    BY <1>2, <1>4

-----------------------------------------------------------------------------
(***************************************************************************)
(* Tables: where nodes are, and the order in which hash_iterate meets them.*)
(***************************************************************************)
Table(sz) == [0..sz - 1 -> Seq(Node)]

\* The positions of the first n chains, and of all.
Upto(t, n) == {p \in (0..n - 1) \X Nat : p[2] \in 1..Len(t[p[1]])}
Pos(t) == {p \in (DOMAIN t) \X Nat : p[2] \in 1..Len(t[p[1]])}
At(t, p) == t[p[1]][p[2]]

\* Every element of s is at one of the positions P, each in its turn.
Lists(s, t, P) ==
    \E h \in Bijection(1..Len(s), P) : \A x \in 1..Len(s) : s[x] = At(t, h[x])

\* What FlattenSeq computes, up to the n-th sequence.
Flattens(f, ss, n) ==
    f = [i \in 1..n |-> IF i = 1 THEN ss[i] ELSE f[i - 1] \o ss[i]]

LEMMA FlattenExists ==
    ASSUME NEW ss, NEW n \in Nat, n > 0
    PROVE  \E f : Flattens(f, ss, n)
  <1> DEFINE T == {k \in Nat : k > 0 => \E f : Flattens(f, ss, k)}
  <1>1. 0 \in T
    OBVIOUS
  <1>2. ASSUME NEW k \in Nat, k \in T PROVE k + 1 \in T
    <2>1. CASE k = 0
      <3> DEFINE g == [i \in 1..1 |-> ss[i]]
      <3>1. g = [i \in 1..1 |-> IF i = 1 THEN ss[i] ELSE g[i - 1] \o ss[i]]
        OBVIOUS
      <3>2. Flattens(g, ss, 1)
        BY <3>1 DEF Flattens
      <3> HIDE DEF g
      <3>3. k + 1 = 1
        BY <2>1
      <3> QED
        BY <3>2, <3>3
    <2>2. CASE k > 0
      <3>1. PICK f : Flattens(f, ss, k)
        BY <1>2, <2>2
      <3>2. f = [i \in 1..k |-> IF i = 1 THEN ss[i] ELSE f[i - 1] \o ss[i]]
        BY <3>1 DEF Flattens
      <3> DEFINE last == f[k] \o ss[k + 1]
                 g == [i \in 1..k + 1 |-> IF i = k + 1 THEN last ELSE f[i]]
      <3> HIDE DEF last
      <3>3. ASSUME NEW i \in 1..k + 1
            PROVE  g[i] = IF i = 1 THEN ss[i] ELSE g[i - 1] \o ss[i]
        <4>1. CASE i = k + 1
          <5>1. g[i] = last /\ i # 1 /\ g[i - 1] = f[k] /\ ss[i] = ss[k + 1]
            BY <4>1, <2>2
          <5> QED
            BY <5>1 DEF last
        <4>2. CASE i # k + 1
          <5>1. i \in 1..k /\ g[i] = f[i]
            BY <4>2
          <5>2. f[i] = IF i = 1 THEN ss[i] ELSE f[i - 1] \o ss[i]
            BY <3>2, <5>1
          <5>3. i # 1 => g[i - 1] = f[i - 1]
            BY <5>1
          <5> HIDE DEF g
          <5> QED
            BY <5>1, <5>2, <5>3
        <4> QED
          BY <4>1, <4>2
      <3>4. g = [i \in 1..k + 1 |-> g[i]]
        OBVIOUS
      <3> HIDE DEF g
      <3>5. Flattens(g, ss, k + 1)
        BY <3>3, <3>4 DEF Flattens
      <3> QED
        BY <3>5
    <2> QED
      BY <2>1, <2>2
  <1>3. Nat \subseteq T
    <2> HIDE DEF T
    <2> QED
      BY <1>1, <1>2, Induct
  <1> QED
    BY <1>3

LEMMA FlattenIs ==
    ASSUME NEW ss, NEW n \in Nat, n > 0, Len(ss) = n
    PROVE  \E f : Flattens(f, ss, n) /\ FlattenSeq(ss) = f[n]
  <1> DEFINE f == CHOOSE g : g = [i \in 1..Len(ss) |-> IF i = 1 THEN ss[i] ELSE g[i - 1] \o ss[i]]
  <1>1. FlattenSeq(ss) = f[n]
    BY DEF FlattenSeq
  <1>2. \E g : g = [i \in 1..Len(ss) |-> IF i = 1 THEN ss[i] ELSE g[i - 1] \o ss[i]]
    BY FlattenExists DEF Flattens
  <1>3. f = [i \in 1..Len(ss) |-> IF i = 1 THEN ss[i] ELSE f[i - 1] \o ss[i]]
    BY <1>2
  <1> HIDE DEF f
  <1> QED
    BY <1>1, <1>3 DEF Flattens

LEMMA ListsGrow ==
    ASSUME NEW sz \in Nat, NEW t \in Table(sz), NEW k \in 0..sz - 1,
           NEW s \in Seq(Node), Lists(s, t, Upto(t, k))
    PROVE  s \o t[k] \in Seq(Node) /\ Lists(s \o t[k], t, Upto(t, k + 1))
  <1> DEFINE c == t[k]
             u == s \o c
  <1>1. c \in Seq(Node) /\ Len(c) \in Nat /\ Len(s) \in Nat /\ k \in Nat
    BY DEF Table
  <1>2. /\ u \in Seq(Node) /\ Len(u) = Len(s) + Len(c)
        /\ \A x \in 1..Len(s) + Len(c) : u[x] = IF x <= Len(s) THEN s[x] ELSE c[x - Len(s)]
    <2> HIDE DEF c
    <2> QED
      BY <1>1, ConcatProperties
  <1> HIDE DEF u
  <1>3. PICK h \in Bijection(1..Len(s), Upto(t, k)) : \A x \in 1..Len(s) : s[x] = At(t, h[x])
    BY DEF Lists
  <1>4. /\ h \in [1..Len(s) -> Upto(t, k)]
        /\ \A a, b \in 1..Len(s) : h[a] = h[b] => a = b
        /\ \A y \in Upto(t, k) : \E x \in 1..Len(s) : h[x] = y
    BY Fun_BijectionProperties
  <1>5. ASSUME NEW p PROVE p \in Upto(t, k + 1) <=> p \in Upto(t, k) \/ \E i \in 1..Len(c) : p = <<k, i>>
    <2>1. ASSUME p \in Upto(t, k + 1) PROVE p \in Upto(t, k) \/ \E i \in 1..Len(c) : p = <<k, i>>
      <3>1. p \in (0..k) \X Nat /\ p[2] \in 1..Len(t[p[1]])
        BY <2>1, <1>1 DEF Upto
      <3>2. CASE p[1] = k
        <4>1. p = <<k, p[2]>> /\ p[2] \in 1..Len(c)
          BY <3>1, <3>2
        <4> QED
          BY <4>1
      <3>3. CASE p[1] # k
        BY <3>1, <3>3, <1>1 DEF Upto
      <3> QED
        BY <3>2, <3>3
    <2>2. p \in Upto(t, k) => p \in Upto(t, k + 1)
      BY <1>1 DEF Upto
    <2>3. ASSUME NEW i \in 1..Len(c), p = <<k, i>> PROVE p \in Upto(t, k + 1)
      BY <2>3, <1>1 DEF Upto
    <2> QED
      BY <2>1, <2>2, <2>3
  <1>6. \A p \in Upto(t, k) : p[1] # k
    BY <1>1 DEF Upto
  <1> DEFINE g == [x \in 1..Len(u) |-> IF x <= Len(s) THEN h[x] ELSE <<k, x - Len(s)>>]
  <1>7. ASSUME NEW x \in 1..Len(u) PROVE
          /\ x <= Len(s) => x \in 1..Len(s) /\ g[x] = h[x] /\ h[x] \in Upto(t, k)
          /\ ~ x <= Len(s) => x - Len(s) \in 1..Len(c) /\ g[x] = <<k, x - Len(s)>>
    <2>1. (x <= Len(s) => x \in 1..Len(s)) /\ (~ x <= Len(s) => x - Len(s) \in 1..Len(c))
      BY <1>1, <1>2
    <2>2. x \in 1..Len(s) => h[x] \in Upto(t, k)
      BY <1>4
    <2> QED
      BY <2>1, <2>2
  <1>8. g \in [1..Len(u) -> Upto(t, k + 1)]
    <2>1. \A x \in 1..Len(u) : g[x] \in Upto(t, k + 1)
      BY <1>5, <1>7
    <2> QED
      BY <2>1
  <1>9. ASSUME NEW a \in 1..Len(u), NEW b \in 1..Len(u), g[a] = g[b] PROVE a = b
    <2>1. a <= Len(s) <=> b <= Len(s)
      <3>1. ASSUME NEW x \in 1..Len(u) PROVE g[x][1] = k <=> ~ x <= Len(s)
        <4> HIDE DEF g, c
        <4> QED
          BY <1>6, <1>7
      <3> QED
        BY <3>1, <1>9
    <2>2. CASE a <= Len(s)
      BY <2>1, <2>2, <1>7, <1>9, <1>4
    <2>3. CASE ~ a <= Len(s)
      <3>1. a - Len(s) = b - Len(s)
        BY <2>1, <2>3, <1>7, <1>9
      <3> QED
        BY <3>1, <1>1, <1>2
    <2> QED
      BY <2>2, <2>3
  <1>10. ASSUME NEW y \in Upto(t, k + 1) PROVE \E x \in 1..Len(u) : g[x] = y
    <2>1. CASE y \in Upto(t, k)
      <3>1. PICK x \in 1..Len(s) : h[x] = y
        BY <2>1, <1>4
      <3>2. x \in 1..Len(u) /\ x <= Len(s)
        BY <1>1, <1>2
      <3> QED
        BY <3>1, <3>2
    <2>2. ASSUME NEW i \in 1..Len(c), y = <<k, i>> PROVE \E x \in 1..Len(u) : g[x] = y
      <3>1. Len(s) + i \in 1..Len(u) /\ ~ (Len(s) + i <= Len(s)) /\ (Len(s) + i) - Len(s) = i
        BY <1>1, <1>2
      <3>2. g[Len(s) + i] = <<k, i>>
        BY <3>1
      <3> QED
        BY <3>1, <3>2, <2>2
    <2> QED
      BY <2>1, <2>2, <1>5
  <1>11. g \in Bijection(1..Len(u), Upto(t, k + 1))
    <2> HIDE DEF g
    <2> QED
      BY <1>8, <1>9, <1>10, Fun_IsBij
  <1>12. ASSUME NEW x \in 1..Len(u) PROVE u[x] = At(t, g[x])
    <2>1. CASE x <= Len(s)
      BY <2>1, <1>1, <1>2, <1>3, <1>7
    <2>2. CASE ~ x <= Len(s)
      <3>1. u[x] = c[x - Len(s)]
        BY <2>2, <1>1, <1>2
      <3>2. g[x] = <<k, x - Len(s)>>
        BY <2>2, <1>7
      <3> QED
        BY <3>1, <3>2 DEF At
    <2> QED
      BY <2>1, <2>2
  <1>13. Lists(u, t, Upto(t, k + 1))
    <2> HIDE DEF g
    <2> QED
      BY <1>11, <1>12 DEF Lists
  <1> QED
    BY <1>2, <1>13 DEF u

\* hash_iterate visits every node once.
LEMMA IterateLists ==
    ASSUME NEW sz \in Nat, sz > 0, NEW m, m.table \in Table(sz)
    PROVE  /\ Size(m) = sz /\ hash_iterate(m) \in Seq(Node)
           /\ Lists(hash_iterate(m), m.table, Pos(m.table))
  <1> DEFINE t == m.table
             ss == [i \in 1..sz |-> t[i - 1]]
  <1>1. t \in [0..sz - 1 -> Seq(Node)] /\ DOMAIN t = 0..sz - 1
    BY DEF Table
  <1>2. Size(m) = sz
    BY <1>1, FS_Interval DEF Size
  <1>3. ss \in Seq(Seq(Node)) /\ Len(ss) = sz
    BY <1>1
  <1>4. PICK f : Flattens(f, ss, sz) /\ FlattenSeq(ss) = f[sz]
    <2> HIDE DEF ss
    <2> QED
      BY <1>3, FlattenIs
  <1>5. \A i \in 1..sz : f[i] = IF i = 1 THEN ss[i] ELSE f[i - 1] \o ss[i]
    BY <1>4 DEF Flattens
  <1>6. ASSUME NEW i \in 1..sz PROVE ss[i] = t[i - 1] /\ i - 1 \in 0..sz - 1
    OBVIOUS
  <1> HIDE DEF ss
  <1> DEFINE Good(n) == f[n] \in Seq(Node) /\ Lists(f[n], t, Upto(t, n))
             T == {n \in Nat : n + 1 <= sz => Good(n + 1)}
  <1>7. <<>> \in Seq(Node) /\ Lists(<<>>, t, Upto(t, 0))
    <2>1. Upto(t, 0) = {} /\ 1..Len(<<>>) = {}
      BY DEF Upto
    <2>2. <<>> \in [{} -> {}]
      OBVIOUS
    <2>3. <<>> \in Bijection({}, {})
      BY <2>2, Fun_IsBij
    <2> QED
      BY <2>1, <2>3 DEF Lists
  <1>8. 0 \in T
    <2>1. f[1] = t[0] /\ 0 \in 0..sz - 1
      BY <1>5, <1>6
    <2>2. <<>> \o t[0] = t[0]
      BY <2>1, <1>1, ConcatEmptySeq
    <2>3. t[0] \in Seq(Node) /\ Lists(<<>> \o t[0], t, Upto(t, 0 + 1))
      BY <2>1, <1>7, <1>1, ListsGrow
    <2>4. Good(0 + 1)
      BY <2>1, <2>2, <2>3
    <2> HIDE DEF Good
    <2> QED
      BY <2>4
  <1>9. ASSUME NEW n \in Nat, n \in T PROVE n + 1 \in T
    <2> SUFFICES ASSUME (n + 1) + 1 <= sz PROVE Good((n + 1) + 1)
      OBVIOUS
    <2>1. Good(n + 1)
      BY <1>9
    <2>2. n + 1 \in 0..sz - 1 /\ (n + 1) + 1 \in 1..sz /\ (n + 1) + 1 # 1
          /\ ((n + 1) + 1) - 1 = n + 1
      OBVIOUS
    <2>3. f[(n + 1) + 1] = f[n + 1] \o t[n + 1]
      <3> HIDE DEF Good, T
      <3> DEFINE k == (n + 1) + 1
      <3>1. k \in 1..sz /\ k # 1 /\ k - 1 = n + 1
        BY <2>2
      <3> HIDE DEF k
      <3>2. f[k] = f[k - 1] \o t[k - 1]
        BY <3>1, <1>5, <1>6
      <3>3. f[k] = f[n + 1] \o t[n + 1]
        BY <3>1, <3>2
      <3> QED
        BY <3>3 DEF k
    <2> QED
      BY <2>1, <2>2, <2>3, ListsGrow
  <1>10. Nat \subseteq T
    <2> HIDE DEF T
    <2> QED
      BY <1>8, <1>9, Induct
  <1>11. Good(sz)
    <2>1. sz - 1 \in Nat /\ (sz - 1) + 1 = sz
      OBVIOUS
    <2>2. sz - 1 \in T
      BY <2>1, <1>10
    <2>3. (sz - 1) + 1 <= sz => Good((sz - 1) + 1)
      BY <2>2
    <2> HIDE DEF Good
    <2> QED
      BY <2>1, <2>3
  <1>12. Upto(t, sz) = Pos(t)
    BY <1>1 DEF Upto, Pos
  <1>13. hash_iterate(m) = f[sz]
    BY <1>2, <1>4 DEF hash_iterate, ss
  <1> QED
    BY <1>2, <1>11, <1>12, <1>13

LEMMA UpToCard ==
    ASSUME NEW n \in Nat
    PROVE  IsFiniteSet(1..n) /\ Cardinality(1..n) = n
  BY FS_Interval

\* A list has as many elements as there are positions.
LEMMA ListLen ==
    ASSUME NEW t, NEW P, NEW s \in Seq(Node), Lists(s, t, P)
    PROVE  IsFiniteSet(P) /\ Cardinality(P) = Len(s)
  <1>1. PICK h \in Bijection(1..Len(s), P) : \A x \in 1..Len(s) : s[x] = At(t, h[x])
    BY DEF Lists
  <1>2. Len(s) \in Nat
    OBVIOUS
  <1>3. IsFiniteSet(1..Len(s)) /\ Cardinality(1..Len(s)) = Len(s)
    BY <1>2, UpToCard
  <1>4. ExistsBijection(1..Len(s), P)
    BY <1>1 DEF ExistsBijection
  <1> QED
    BY <1>3, <1>4, FS_Bijection

\* Backwards it lists them too.
LEMMA ReverseLists ==
    ASSUME NEW t, NEW P, NEW s \in Seq(Node), Lists(s, t, P)
    PROVE  /\ Reverse(s) \in Seq(Node) /\ Len(Reverse(s)) = Len(s)
           /\ Lists(Reverse(s), t, P)
  <1> DEFINE n == Len(s)
             r == Reverse(s)
  <1>1. n \in Nat /\ s \in [1..n -> Node]
    BY LenProperties
  <1>2. r = [i \in 1..n |-> s[(n - i) + 1]]
    BY DEF Reverse
  <1>3. \A i \in 1..n : (n - i) + 1 \in 1..n /\ (n - ((n - i) + 1)) + 1 = i
    BY <1>1
  <1> HIDE DEF n, r
  <1>4. r \in [1..n -> Node]
    BY <1>1, <1>2, <1>3
  <1>5. r \in Seq(Node) /\ Len(r) = n
    BY <1>1, <1>4
  <1>6. PICK h \in Bijection(1..n, P) : \A x \in 1..n : s[x] = At(t, h[x])
    BY DEF Lists, n
  <1> DEFINE g == [i \in 1..n |-> (n - i) + 1]
  <1>7. g \in Bijection(1..n, 1..n)
    <2>1. g \in [1..n -> 1..n]
      BY <1>3
    <2>2. \A a, b \in 1..n : g[a] = g[b] => a = b
      BY <1>1
    <2>3. \A y \in 1..n : \E x \in 1..n : g[x] = y
      <3> SUFFICES ASSUME NEW y \in 1..n PROVE \E x \in 1..n : g[x] = y
        OBVIOUS
      <3>1. (n - y) + 1 \in 1..n /\ g[(n - y) + 1] = y
        BY <1>3
      <3> QED
        BY <3>1
    <2> HIDE DEF g
    <2> QED
      BY <2>1, <2>2, <2>3, Fun_IsBij
  <1>8. [i \in 1..n |-> h[g[i]]] \in Bijection(1..n, P)
    <2> HIDE DEF g
    <2> QED
      BY <1>6, <1>7, Fun_BijTransitive
  <1>9. \A x \in 1..n : r[x] = At(t, [i \in 1..n |-> h[g[i]]][x])
    BY <1>2, <1>3, <1>6
  <1> QED
    BY <1>5, <1>8, <1>9 DEF Lists, r, n

-----------------------------------------------------------------------------
(***************************************************************************)
(* Growth.                                                                 *)
(***************************************************************************)

\* The n-th smallest number of a set.
LEMMA NthIs ==
    ASSUME NEW N \in Nat, NEW I \in SUBSET (1..N)
    PROVE  LET C == Cardinality(I)
               r == [n \in 1..C |-> CHOOSE i \in I : Cardinality({j \in I : j <= i}) = n]
           IN  IsFiniteSet(I) /\ C \in Nat /\ r \in Bijection(1..C, I)
  <1> DEFINE C == Cardinality(I)
             rank(i) == Cardinality({j \in I : j <= i})
             r == [n \in 1..C |-> CHOOSE i \in I : rank(i) = n]
  <1>1. IsFiniteSet(I) /\ C \in Nat
    <2>1. IsFiniteSet(1..N)
      BY UpToCard
    <2> QED
      BY <2>1, FS_Subset, FS_CardinalityType
  <1>2. ASSUME NEW i \in I PROVE rank(i) \in 1..C
    <2> DEFINE S == {j \in I : j <= i}
    <2>1. S \subseteq I /\ i \in S
      OBVIOUS
    <2>2. IsFiniteSet(S) /\ Cardinality(S) <= C /\ Cardinality(S) \in Nat
      BY <2>1, <1>1, FS_Subset, FS_CardinalityType
    <2>3. Cardinality(S) # 0
      BY <2>1, <2>2, FS_EmptySet
    <2> QED
      BY <2>2, <2>3
  <1>3. ASSUME NEW i \in I, NEW k \in I, i < k PROVE rank(i) # rank(k)
    <2> DEFINE S == {j \in I : j <= i}
               U == {j \in I : j <= k}
    <2>1. S \subseteq U /\ S # U /\ U \subseteq I
      <3>1. i \in Int /\ k \in Int /\ \A j \in I : j \in Int
        OBVIOUS
      <3>2. k \in U /\ k \notin S
        BY <3>1, <1>3
      <3>3. \A j \in S : j \in U
        BY <3>1, <1>3
      <3> QED
        BY <3>2, <3>3
    <2>2. IsFiniteSet(U)
      BY <2>1, <1>1, FS_Subset
    <2>3. Cardinality(S) # Cardinality(U)
      <3> HIDE DEF S, U
      <3> QED
        BY <2>1, <2>2, FS_Subset
    <2> QED
      BY <2>3
  <1>4. ASSUME NEW i \in I, NEW k \in I, rank(i) = rank(k) PROVE i = k
    <2>1. i \in Int /\ k \in Int
      OBVIOUS
    <2>2. ~ (i < k) /\ ~ (k < i)
      BY <1>3, <1>4
    <2> QED
      BY <2>1, <2>2
  <1> DEFINE f == [i \in I |-> rank(i)]
  <1>5. f \in Injection(I, 1..C)
    <2> HIDE DEF rank
    <2>1. f \in [I -> 1..C]
      BY <1>2
    <2>2. \A a, b \in I : f[a] = f[b] => a = b
      BY <1>4
    <2> QED
      BY <2>1, <2>2, Fun_IsInj
  <1>6. f \in Surjection(I, 1..C)
    <2>1. IsFiniteSet(1..C) /\ Cardinality(1..C) = Cardinality(I)
      BY <1>1, UpToCard
    <2> HIDE DEF f, C
    <2> QED
      BY <2>1, <1>5, FS_Injection
  <1>7. \A n \in 1..C : \E i \in I : rank(i) = n
    BY <1>6 DEF Surjection
  <1>8. \A n \in 1..C : r[n] \in I /\ rank(r[n]) = n
    <2> HIDE DEF rank, C
    <2> QED
      BY <1>7
  <1>9. r \in Bijection(1..C, I)
    <2>1. r \in [1..C -> I]
      <3>1. r = [n \in 1..C |-> r[n]]
        OBVIOUS
      <3> HIDE DEF r
      <3> QED
        BY <1>8, <3>1
    <2> HIDE DEF r
    <2>2. \A a, b \in 1..C : r[a] = r[b] => a = b
      <3> HIDE DEF rank
      <3> QED
        BY <1>8
    <2>3. \A i \in I : \E n \in 1..C : r[n] = i
      <3> SUFFICES ASSUME NEW i \in I PROVE \E n \in 1..C : r[n] = i
        OBVIOUS
      <3>1. rank(i) \in 1..C
        BY <1>2
      <3>2. r[rank(i)] \in I /\ rank(r[rank(i)]) = rank(i)
        BY <3>1, <1>8
      <3>3. r[rank(i)] = i
        BY <3>2, <1>4
      <3> QED
        BY <3>1, <3>3
    <2> QED
      BY <2>1, <2>2, <2>3, Fun_IsBij
  <1> QED
    BY <1>1, <1>9

\* The numbers in s of the nodes that fall into bucket b of sz.
In(s, sz, b) == {i \in 1..Len(s) : HashOf[s[i].key] % sz = b}

LEMMA FallingIs ==
    ASSUME NEW s \in Seq(Node), NEW sz, NEW b
    PROVE  LET c == Falling(s, sz, b)
           IN  /\ c \in Seq(Node)
               /\ \E r \in Bijection(1..Len(c), In(s, sz, b)) : \A n \in 1..Len(c) : c[n] = s[r[n]]
  <1> DEFINE I == In(s, sz, b)
             C == Cardinality(I)
             r == [n \in 1..C |-> CHOOSE i \in I : Cardinality({j \in I : j <= i}) = n]
             c == Falling(s, sz, b)
  <1>1. Len(s) \in Nat /\ I \in SUBSET (1..Len(s)) /\ s \in [1..Len(s) -> Node]
    BY LenProperties DEF In
  <1>2. C \in Nat /\ r \in Bijection(1..C, I)
    BY <1>1, NthIs
  <1>3. r \in [1..C -> I]
    <2> HIDE DEF C, r, I
    <2> QED
      BY <1>2, Fun_BijectionProperties
  <1>4. c = [n \in 1..C |-> s[r[n]]]
    BY DEF Falling, In
  <1> HIDE DEF C, r, I, c
  <1>5. \A n \in 1..C : s[r[n]] \in Node
    BY <1>1, <1>3
  <1>6. c \in Seq(Node) /\ Len(c) = C
    BY <1>2, <1>4, <1>5
  <1> QED
    BY <1>2, <1>4, <1>6 DEF c, I

\* The nodes of t are those of u, at other places.
Moved(t, u) ==
    \E g \in Bijection(Pos(t), Pos(u)) : \A p \in Pos(t) : At(t, p) = At(u, g[p])

\* Every node is in the chain its key hashes to.
Homed(t, sz) == \A p \in Pos(t) : HashOf[At(t, p).key] % sz = p[1]

LEMMA PosType ==
    ASSUME NEW sz \in Nat, NEW t \in Table(sz), NEW p
    PROVE  /\ p \in Pos(t) <=> \E b \in 0..sz - 1 : \E i \in 1..Len(t[b]) : p = <<b, i>>
           /\ p \in Pos(t) => /\ p[1] \in 0..sz - 1 /\ p[2] \in 1..Len(t[p[1]])
                              /\ p = <<p[1], p[2]>> /\ At(t, p) \in Node
  <1>1. t \in [0..sz - 1 -> Seq(Node)] /\ DOMAIN t = 0..sz - 1
    BY DEF Table
  <1>2. \A b \in 0..sz - 1 : Len(t[b]) \in Nat /\ \A i \in 1..Len(t[b]) : t[b][i] \in Node
    BY <1>1
  <1>3. ASSUME p \in Pos(t)
        PROVE  /\ p[1] \in 0..sz - 1 /\ p[2] \in 1..Len(t[p[1]])
               /\ p = <<p[1], p[2]>>
    BY <1>1, <1>3 DEF Pos
  <1>4. p \in Pos(t) => At(t, p) \in Node
    BY <1>2, <1>3 DEF At
  <1>5. ASSUME NEW b \in 0..sz - 1, NEW i \in 1..Len(t[b]), p = <<b, i>> PROVE p \in Pos(t)
    BY <1>1, <1>2, <1>5 DEF Pos
  <1> QED
    BY <1>3, <1>4, <1>5

LEMMA HashNat == ASSUME NEW n \in Node, NEW sz \in Nat, sz > 0
                 PROVE  n.key \in Key /\ HashOf[n.key] \in Nat /\ HashOf[n.key] % sz \in 0..sz - 1
  <1>1. n.key \in Key /\ HashOf[n.key] \in Nat
    BY HashAssumption DEF Node
  <1>2. \A h \in Nat : h % sz \in 0..sz - 1
    OBVIOUS
  <1> QED
    BY <1>1, <1>2

\* hash_resize loses nothing and puts everything where it belongs.
LEMMA ResizeMoves ==
    ASSUME NEW old \in Nat, old > 0, NEW m, m.table \in Table(old), NEW sz \in Nat, sz > 0
    PROVE  LET u == hash_resize(m, sz).table
           IN  /\ u \in Table(sz) /\ Homed(u, sz) /\ Moved(u, m.table)
               /\ hash_resize(m, sz).n_entries = Len(hash_iterate(m))
               /\ hash_resize(m, sz).used_buckets = Used(u)
  <1> DEFINE s == Reverse(hash_iterate(m))
             u == [b \in 0..sz - 1 |-> Falling(s, sz, b)]
             t == m.table
  <1>1. /\ hash_resize(m, sz).table = u
        /\ hash_resize(m, sz).n_entries = Len(hash_iterate(m))
        /\ hash_resize(m, sz).used_buckets = Used(u)
    BY DEF hash_resize
  <1>2. s \in Seq(Node) /\ Lists(s, t, Pos(t))
    BY IterateLists, ReverseLists
  <1>3. PICK h \in Bijection(1..Len(s), Pos(t)) : \A x \in 1..Len(s) : s[x] = At(t, h[x])
    BY <1>2 DEF Lists
  <1> HIDE DEF s, t
  <1> DEFINE r(b) == CHOOSE f : /\ f \in Bijection(1..Len(u[b]), In(s, sz, b))
                                /\ \A n \in 1..Len(u[b]) : u[b][n] = s[f[n]]
  <1>4. ASSUME NEW b \in 0..sz - 1
        PROVE  /\ u[b] \in Seq(Node)
               /\ r(b) \in Bijection(1..Len(u[b]), In(s, sz, b))
               /\ \A n \in 1..Len(u[b]) : u[b][n] = s[r(b)[n]]
    <2>1. u[b] = Falling(s, sz, b)
      OBVIOUS
    <2> HIDE DEF u
    <2>2. u[b] \in Seq(Node) /\ \E f : /\ f \in Bijection(1..Len(u[b]), In(s, sz, b))
                /\ \A n \in 1..Len(u[b]) : u[b][n] = s[f[n]]
      BY <1>2, <2>1, FallingIs
    <2> QED
      BY <2>2
  <1>5. u \in Table(sz)
    <2>1. u = [b \in 0..sz - 1 |-> u[b]]
      OBVIOUS
    <2> HIDE DEF u, r
    <2> QED
      BY <1>4, <2>1 DEF Table
  <1>6. ASSUME NEW b \in 0..sz - 1
        PROVE  /\ \A n \in 1..Len(u[b]) : r(b)[n] \in In(s, sz, b)
               /\ \A a, n \in 1..Len(u[b]) : r(b)[a] = r(b)[n] => a = n
               /\ \A x \in In(s, sz, b) : \E n \in 1..Len(u[b]) : r(b)[n] = x
    <2> HIDE DEF u, r
    <2>1. r(b) \in Bijection(1..Len(u[b]), In(s, sz, b))
      BY <1>4
    <2> QED
      BY <2>1, Fun_BijectionProperties
  <1> DEFINE k == [p \in Pos(u) |-> r(p[1])[p[2]]]
  <1> HIDE DEF u, r
  <1>7. ASSUME NEW p \in Pos(u)
        PROVE  /\ p[1] \in 0..sz - 1 /\ p[2] \in 1..Len(u[p[1]]) /\ p = <<p[1], p[2]>>
               /\ k[p] = r(p[1])[p[2]] /\ k[p] \in In(s, sz, p[1])
               /\ At(u, p) = s[k[p]]
    <2>1. p[1] \in 0..sz - 1 /\ p[2] \in 1..Len(u[p[1]]) /\ p = <<p[1], p[2]>>
      BY <1>5, PosType
    <2>2. k[p] = r(p[1])[p[2]]
      OBVIOUS
    <2>3. u[p[1]][p[2]] = s[r(p[1])[p[2]]] /\ r(p[1])[p[2]] \in In(s, sz, p[1])
      BY <2>1, <1>4, <1>6
    <2> QED
      BY <2>1, <2>2, <2>3 DEF At
  <1> HIDE DEF k
  <1>8. k \in Bijection(Pos(u), 1..Len(s))
    <2>1. k \in [Pos(u) -> 1..Len(s)]
      <3>1. k = [p \in Pos(u) |-> k[p]]
        BY DEF k
      <3>2. \A p \in Pos(u) : k[p] \in 1..Len(s)
        BY <1>7 DEF In
      <3> QED
        BY <3>1, <3>2
    <2>2. ASSUME NEW p \in Pos(u), NEW q \in Pos(u), k[p] = k[q] PROVE p = q
      <3>1. p[1] = q[1]
        BY <1>7, <2>2 DEF In
      <3>2. r(p[1])[p[2]] = r(p[1])[q[2]] /\ q[2] \in 1..Len(u[p[1]])
        BY <1>7, <2>2, <3>1
      <3>3. p[2] = q[2]
        BY <3>2, <1>6, <1>7
      <3> QED
        BY <1>7, <3>1, <3>3
    <2>3. ASSUME NEW x \in 1..Len(s) PROVE \E p \in Pos(u) : k[p] = x
      <3> DEFINE b == HashOf[s[x].key] % sz
      <3>1. s[x] \in Node
        BY <1>2
      <3>2. b \in 0..sz - 1
        BY <3>1, HashNat
      <3>3. x \in In(s, sz, b)
        BY DEF In
      <3> HIDE DEF b
      <3>4. PICK n \in 1..Len(u[b]) : r(b)[n] = x
        BY <3>2, <3>3, <1>6
      <3>5. <<b, n>> \in Pos(u)
        BY <1>5, <3>2, PosType
      <3>6. k[<<b, n>>] = r(b)[n]
        BY <1>7, <3>5
      <3> QED
        BY <3>4, <3>5, <3>6
    <2> QED
      BY <2>1, <2>2, <2>3, Fun_IsBij
  <1>9. Homed(u, sz)
    BY <1>7 DEF Homed, In
  <1>10. Moved(u, t)
    <2> DEFINE g == [p \in Pos(u) |-> h[k[p]]]
    <2>1. g \in Bijection(Pos(u), Pos(t))
      BY <1>3, <1>8, Fun_BijTransitive
    <2>2. \A p \in Pos(u) : k[p] \in 1..Len(s)
      BY <1>7 DEF In
    <2>3. \A p \in Pos(u) : At(u, p) = At(t, g[p])
      BY <1>3, <1>7, <2>2
    <2> HIDE DEF g
    <2> QED
      BY <2>1, <2>3 DEF Moved
  <1> QED
    BY <1>1, <1>5, <1>9, <1>10 DEF t

-----------------------------------------------------------------------------
(***************************************************************************)
(* Remainders: what is equal modulo a multiple of n is equal modulo n.     *)
(***************************************************************************)

LEMMA DivMod == ASSUME NEW a \in Nat, NEW n \in Nat, n > 0
                PROVE  a = n * (a \div n) + (a % n) /\ a \div n \in Nat /\ a % n \in 0..n - 1
  OBVIOUS

LEMMA ModOnly == ASSUME NEW n \in Nat, n > 0, NEW x \in Nat, NEW y \in Nat,
                        NEW s \in 0..n - 1, NEW u \in 0..n - 1, n * x + s = n * y + u
                 PROVE  s = u
  <1>1. ASSUME NEW i \in Nat, NEW j \in Nat, i < j PROVE n * j >= n * i + n
    <2>1. j - i - 1 \in Nat
      BY <1>1
    <2>2. n * (j - i - 1) >= 0
      BY <2>1
    <2>3. n * (j - i - 1) = n * j - n * i - n
      BY <2>1
    <2>4. n * j \in Int /\ n * i \in Int
      OBVIOUS
    <2> QED
      BY <2>2, <2>3, <2>4
  <1>2. n * x \in Nat /\ n * y \in Nat
    OBVIOUS
  <1>3. CASE x < y
    BY <1>1, <1>2, <1>3
  <1>4. CASE y < x
    BY <1>1, <1>2, <1>4
  <1>5. CASE x = y
    BY <1>2, <1>5
  <1> QED
    BY <1>3, <1>4, <1>5

LEMMA ModMod == ASSUME NEW a \in Nat, NEW n \in Nat, n > 0, NEW c \in Nat, c > 0
                PROVE  a % n = (a % (c * n)) % n
  <1> DEFINE N == c * n
             r == a % N
             q == a \div N
             x == c * q + r \div n
  <1>1. N \in Nat /\ N > 0
    OBVIOUS
  <1> HIDE DEF N
  <1>2. a = N * q + r /\ q \in Nat /\ r \in 0..N - 1
    BY <1>1, DivMod
  <1> HIDE DEF q, r
  <1>3. r = n * (r \div n) + (r % n) /\ r \div n \in Nat /\ r % n \in 0..n - 1
    BY <1>2, <1>1, DivMod
  <1>4. a = n * (a \div n) + (a % n) /\ a \div n \in Nat /\ a % n \in 0..n - 1
    BY DivMod
  <1>5. N * q = n * (c * q)
    BY <1>2 DEF N
  <1>6. x \in Nat /\ n * x = n * (c * q) + n * (r \div n)
    BY <1>2, <1>3
  <1>7. a = n * x + (r % n)
    <2>1. N * q \in Nat /\ n * (r \div n) \in Nat
      BY <1>1, <1>2, <1>3
    <2> QED
      BY <2>1, <1>2, <1>3, <1>5, <1>6
  <1> HIDE DEF x
  <1>8. n * (a \div n) + (a % n) = n * x + (r % n)
    BY <1>4, <1>7
  <1>9. a % n = r % n
    BY <1>3, <1>4, <1>6, <1>8, ModOnly
  <1> QED
    BY <1>9 DEF N, r

Divides(n, N) == \E c \in Nat : c > 0 /\ N = c * n

LEMMA ModSame == ASSUME NEW n \in Nat, n > 0, NEW N, Divides(n, N),
                        NEW a \in Nat, NEW b \in Nat, a % N = b % N
                 PROVE  a % n = b % n
  <1>1. PICK c \in Nat : c > 0 /\ N = c * n
    BY DEF Divides
  <1>2. a % (c * n) = b % (c * n)
    BY <1>1
  <1>3. a % n = (a % (c * n)) % n
    BY <1>1, ModMod
  <1>4. b % n = (b % (c * n)) % n
    BY <1>1, ModMod
  <1> QED
    BY <1>2, <1>3, <1>4

LEMMA DividesDouble ==
    ASSUME NEW n \in Nat
    PROVE  Divides(n, n) /\ \A N \in Nat : Divides(n, N) => Divides(n, 2 * N)
  <1>1. Divides(n, n)
    <2>1. n = 1 * n
      OBVIOUS
    <2> QED
      BY <2>1 DEF Divides
  <1>2. ASSUME NEW N \in Nat, Divides(n, N) PROVE Divides(n, 2 * N)
    <2>1. PICK c \in Nat : c > 0 /\ N = c * n
      BY <1>2 DEF Divides
    <2> DEFINE d == 2 * c
    <2>2. 2 * N = d * n /\ d \in Nat /\ d > 0
      BY <2>1
    <2> HIDE DEF d
    <2> QED
      BY <2>2 DEF Divides
  <1> QED
    BY <1>1, <1>2

-----------------------------------------------------------------------------
(***************************************************************************)
(* Sound tables.                                                           *)
(***************************************************************************)

\* No two keys in one chain compare equal.
Unique(t) ==
    \A p, q \in Pos(t) :
        p[1] = q[1] /\ Fold[At(t, p).key] = Fold[At(t, q).key] => p = q

Nodes(t) == {At(t, p) : p \in Pos(t)}

Sound(m) ==
    /\ m = [table |-> m.table, n_entries |-> m.n_entries, used_buckets |-> m.used_buckets]
    /\ Size(m) \in Nat /\ Size(m) > 0 /\ m.table \in Table(Size(m))
    /\ m.n_entries \in 0..Word - 1 /\ m.used_buckets \in 0..Word - 1
    /\ Homed(m.table, Size(m)) /\ Unique(m.table)

\* The hash function and the compare function fit.
Fits == \A a, b \in Key : Fold[a] = Fold[b] => HashOf[a] = HashOf[b]

\* A key is in the table once, spelled the way it is.
LEMMA KeyOnce ==
    ASSUME NEW sz, NEW t, Homed(t, sz), Unique(t), NEW p \in Pos(t), NEW q \in Pos(t),
           At(t, p).key = At(t, q).key
    PROVE  p = q
  <1>1. p[1] = q[1]
    BY DEF Homed
  <1> QED
    BY <1>1 DEF Unique

\* With functions that fit, keys that compare equal are in one chain.
LEMMA FitsOnce ==
    ASSUME Fits, NEW sz \in Nat, NEW t \in Table(sz), Homed(t, sz), Unique(t),
           NEW p \in Pos(t), NEW q \in Pos(t), Fold[At(t, p).key] = Fold[At(t, q).key]
    PROVE  p = q
  <1>1. At(t, p).key \in Key /\ At(t, q).key \in Key
    BY PosType DEF Node
  <1>2. HashOf[At(t, p).key] = HashOf[At(t, q).key]
    BY <1>1 DEF Fits
  <1>3. p[1] = q[1]
    BY <1>2 DEF Homed
  <1> QED
    BY <1>3 DEF Unique

LEMMA TableSize ==
    ASSUME NEW sz \in Nat, sz > 0, NEW m, m.table \in Table(sz)
    PROVE  Size(m) = sz /\ DOMAIN m.table = 0..sz - 1
  <1>1. DOMAIN m.table = 0..sz - 1
    BY DEF Table
  <1> QED
    BY <1>1, FS_Interval DEF Size

\* hash_iterate meets as many nodes as there are.
LEMMA IterateCounts ==
    ASSUME NEW sz \in Nat, sz > 0, NEW m, m.table \in Table(sz)
    PROVE  /\ IsFiniteSet(Pos(m.table)) /\ Cardinality(Pos(m.table)) = Len(hash_iterate(m))
           /\ Cardinality(Pos(m.table)) \in Nat
  <1>1. IsFiniteSet(Pos(m.table)) /\ Cardinality(Pos(m.table)) = Len(hash_iterate(m))
    BY IterateLists, ListLen
  <1> QED
    BY <1>1, FS_CardinalityType

LEMMA PairsAre ==
    ASSUME NEW sz \in Nat, NEW m, m.table \in Table(sz)
    PROVE  PairsOf(m) = Nodes(m.table) /\ Nodes(m.table) \subseteq Node
  <1> DEFINE t == m.table
  <1>1. t \in [0..sz - 1 -> Seq(Node)] /\ DOMAIN t = 0..sz - 1
    BY DEF Table
  <1>2. \A b \in 0..sz - 1 : DOMAIN t[b] = 1..Len(t[b])
    BY <1>1
  <1>3. ASSUME NEW n PROVE n \in PairsOf(m) <=> n \in Nodes(t)
    <2>1. n \in PairsOf(m) <=> \E b \in 0..sz - 1 : \E i \in 1..Len(t[b]) : n = t[b][i]
      BY <1>1, <1>2 DEF PairsOf, ToSet
    <2>2. ASSUME NEW b \in 0..sz - 1, NEW i \in 1..Len(t[b]), n = t[b][i] PROVE n \in Nodes(t)
      <3>1. <<b, i>> \in Pos(t) /\ At(t, <<b, i>>) = n
        BY <2>2, PosType DEF At
      <3> QED
        BY <3>1 DEF Nodes
    <2>3. ASSUME NEW p \in Pos(t), n = At(t, p)
          PROVE  \E b \in 0..sz - 1 : \E i \in 1..Len(t[b]) : n = t[b][i]
      BY <2>3, PosType DEF At
    <2> QED
      BY <2>1, <2>2, <2>3 DEF Nodes
  <1>4. Nodes(t) \subseteq Node
    BY PosType DEF Nodes
  <1> QED
    BY <1>3, <1>4

\* There are no more nodes than keys, and a size_t can count them.
LEMMA NodesFew ==
    ASSUME NEW sz \in Nat, NEW t \in Table(sz), Homed(t, sz), Unique(t)
    PROVE  IsFiniteSet(Pos(t)) /\ Cardinality(Pos(t)) \in Nat /\ Cardinality(Pos(t)) < Word
  <1> DEFINE f == [p \in Pos(t) |-> At(t, p).key]
  <1>1. \A p \in Pos(t) : At(t, p).key \in Key
    BY PosType DEF Node
  <1>2. f \in Injection(Pos(t), Key)
    <2>1. f \in [Pos(t) -> Key]
      BY <1>1
    <2>2. \A p, q \in Pos(t) : f[p] = f[q] => p = q
      BY KeyOnce
    <2> HIDE DEF f
    <2> QED
      BY <2>1, <2>2, Fun_IsInj
  <1>3. IsFiniteSet(Pos(t)) /\ Cardinality(Pos(t)) <= Cardinality(Key)
    <2> HIDE DEF f
    <2> QED
      BY <1>2, FS_Injection, HashAssumption
  <1>4. Cardinality(Pos(t)) \in Nat /\ Cardinality(Key) \in Nat
    BY <1>3, FS_CardinalityType, HashAssumption
  <1> QED
    BY <1>3, <1>4, HashAssumption

LEMMA MovedKeeps ==
    ASSUME NEW t, NEW u, Moved(t, u), IsFiniteSet(Pos(u))
    PROVE  /\ Nodes(t) = Nodes(u)
           /\ IsFiniteSet(Pos(t)) /\ Cardinality(Pos(t)) = Cardinality(Pos(u))
  <1>1. PICK g \in Bijection(Pos(t), Pos(u)) : \A p \in Pos(t) : At(t, p) = At(u, g[p])
    BY DEF Moved
  <1>2. /\ \A p \in Pos(t) : g[p] \in Pos(u)
        /\ \A p, q \in Pos(t) : g[p] = g[q] => p = q
        /\ \A q \in Pos(u) : \E p \in Pos(t) : g[p] = q
    BY Fun_BijectionProperties
  <1>4. Nodes(t) = Nodes(u)
    BY <1>1, <1>2 DEF Nodes
  <1>5. Inverse(g, Pos(t), Pos(u)) \in Bijection(Pos(u), Pos(t))
    BY Fun_BijInverse
  <1>6. ExistsBijection(Pos(u), Pos(t))
    BY <1>5 DEF ExistsBijection
  <1>7. IsFiniteSet(Pos(t)) /\ Cardinality(Pos(t)) = Cardinality(Pos(u))
    BY <1>6, FS_Bijection
  <1> QED
    BY <1>4, <1>7

\* Nodes that share a chain of the larger table have shared one before.
LEMMA MovedUnique ==
    ASSUME NEW sz \in Nat, sz > 0, NEW u \in Table(sz), NEW t \in Table(2 * sz),
           Moved(t, u), Homed(u, sz), Homed(t, 2 * sz), Unique(u)
    PROVE  Unique(t)
  <1>1. PICK g \in Bijection(Pos(t), Pos(u)) : \A p \in Pos(t) : At(t, p) = At(u, g[p])
    BY DEF Moved
  <1>2. /\ \A p \in Pos(t) : g[p] \in Pos(u)
        /\ \A p, q \in Pos(t) : g[p] = g[q] => p = q
    BY Fun_BijectionProperties
  <1> DEFINE a(p) == HashOf[At(t, p).key]
             N == 2 * sz
  <1>3. ASSUME NEW p \in Pos(t) PROVE a(p) \in Nat /\ a(p) % N = p[1] /\ a(p) % sz = g[p][1]
    <2>1. At(u, g[p]) \in Node /\ At(t, p) = At(u, g[p])
      BY <1>1, <1>2, PosType
    <2>2. a(p) \in Nat
      BY <2>1, HashNat
    <2>3. a(p) % N = p[1]
      BY DEF Homed
    <2>4. a(p) % sz = g[p][1]
      BY <2>1, <1>2 DEF Homed
    <2> QED
      BY <2>2, <2>3, <2>4
  <1>5. Divides(sz, N)
    BY DividesDouble
  <1> HIDE DEF a, N
  <1>4. ASSUME NEW p \in Pos(t), NEW q \in Pos(t), p[1] = q[1],
               Fold[At(t, p).key] = Fold[At(t, q).key]
        PROVE  p = q
    <2>1. g[p][1] = g[q][1]
      <3>1. a(p) % N = a(q) % N /\ a(p) \in Nat /\ a(q) \in Nat
        BY <1>3, <1>4
      <3>2. a(p) % sz = a(q) % sz
        BY <3>1, <1>5, ModSame
      <3> QED
        BY <3>2, <1>3
    <2>2. Fold[At(u, g[p]).key] = Fold[At(u, g[q]).key]
      BY <1>1, <1>4
    <2>3. g[p] = g[q]
      BY <2>1, <2>2, <1>2 DEF Unique
    <2> QED
      BY <2>3, <1>2
  <1> QED
    BY <1>4 DEF Unique

\* The buckets in use.
LEMMA UsedIs ==
    ASSUME NEW sz \in Nat, NEW t \in Table(sz)
    PROVE  IsFiniteSet({b \in DOMAIN t : t[b] # <<>>}) /\ Used(t) \in 0..sz
  <1>1. DOMAIN t = 0..sz - 1
    BY DEF Table
  <1>2. IsFiniteSet(0..sz - 1) /\ Cardinality(0..sz - 1) = sz
    BY FS_Interval
  <1> DEFINE S == {b \in DOMAIN t : t[b] # <<>>}
  <1>3. S \subseteq 0..sz - 1
    BY <1>1
  <1>4. IsFiniteSet(S) /\ Cardinality(S) <= sz
    <2> HIDE DEF S
    <2> QED
      BY <1>2, <1>3, FS_Subset
  <1>5. Cardinality(S) \in Nat
    BY <1>4, FS_CardinalityType
  <1> QED
    BY <1>4, <1>5 DEF Used

\* No more buckets are in use than there are nodes.
LEMMA UsedFew ==
    ASSUME NEW sz \in Nat, NEW t \in Table(sz), IsFiniteSet(Pos(t))
    PROVE  Used(t) <= Cardinality(Pos(t))
  <1> DEFINE S == {b \in DOMAIN t : t[b] # <<>>}
             f == [b \in S |-> <<b, 1>>]
  <1>1. DOMAIN t = 0..sz - 1 /\ \A b \in DOMAIN t : t[b] \in Seq(Node)
    BY DEF Table
  <1>2. \A b \in S : 1 \in 1..Len(t[b])
    BY <1>1, EmptySeq
  <1>3. \A b \in S : <<b, 1>> \in Pos(t)
    BY <1>1, <1>2, PosType
  <1>4. f \in Injection(S, Pos(t))
    <2>1. f \in [S -> Pos(t)]
      BY <1>3
    <2>2. \A a, b \in S : f[a] = f[b] => a = b
      OBVIOUS
    <2> HIDE DEF f, S
    <2> QED
      BY <2>1, <2>2, Fun_IsInj
  <1>5. Cardinality(S) <= Cardinality(Pos(t))
    <2> HIDE DEF f, S
    <2> QED
      BY <1>4, FS_Injection
  <1> QED
    BY <1>5 DEF Used

\* The walk along a chain.
LEMMA FindIs ==
    ASSUME NEW m, Sound(m), NEW k \in Key
    PROVE  LET c == Chain(m, k)
           IN  /\ Bucket(m, k) \in 0..Size(m) - 1 /\ c = m.table[Bucket(m, k)]
               /\ c \in Seq(Node) /\ Len(c) \in Nat
               /\ Find(m, k) \in 0..Len(c)
               /\ Found(m, k) <=> \E i \in 1..Len(c) : Fold[c[i].key] = Fold[k]
               /\ Found(m, k) => /\ Find(m, k) \in 1..Len(c)
                                 /\ Fold[c[Find(m, k)].key] = Fold[k]
  <1> DEFINE c == Chain(m, k)
             I == {i \in 1..Len(c) : Fold[c[i].key] = Fold[k]}
  <1>1. Bucket(m, k) \in 0..Size(m) - 1
    <2>1. HashOf[k] \in Nat /\ Size(m) \in Nat /\ Size(m) > 0
      BY HashAssumption DEF Sound
    <2> QED
      BY <2>1 DEF Bucket
  <1>2. c = m.table[Bucket(m, k)] /\ c \in Seq(Node) /\ Len(c) \in Nat
    BY <1>1 DEF Chain, Sound, Table
  <1>3. Find(m, k) = IF I # {} THEN Min(I) ELSE 0
    BY DEF Find, SelectInSeq
  <1> HIDE DEF c
  <1>4. I # {} => Min(I) \in I
    <2> SUFFICES ASSUME I # {} PROVE Min(I) \in I
      OBVIOUS
    <2>1. I \in SUBSET Nat
      BY <1>2
    <2>2. \E x \in I : \A y \in I : x <= y
      <3> HIDE DEF I
      <3> QED
        BY <2>1, Least
    <2> QED
      BY <2>2 DEF Min
  <1>5. Found(m, k) <=> I # {}
    <2>1. 0 \notin I
      OBVIOUS
    <2> HIDE DEF I
    <2> QED
      BY <1>3, <1>4, <2>1 DEF Found
  <1>6. I # {} => Find(m, k) \in I
    BY <1>3, <1>4
  <1>7. Find(m, k) \in 0..Len(c)
    <2>1. CASE I = {}
      <3>1. Find(m, k) = 0
        BY <1>3, <2>1
      <3> QED
        BY <1>2, <3>1
    <2>2. CASE I # {}
      BY <1>2, <1>6, <2>2
    <2> QED
      BY <2>1, <2>2
  <1> QED
    BY <1>1, <1>2, <1>5, <1>6, <1>7 DEF c

\* Where the node that Find finds is.
Spot(m, k) == <<Bucket(m, k), Find(m, k)>>

\* A key is found if and only if one that compares equal is in the chain it
\* hashes to, and found where it is.
LEMMA FoundIs ==
    ASSUME NEW m, Sound(m), NEW k \in Key
    PROVE  /\ Found(m, k) =>
                 /\ Spot(m, k) \in Pos(m.table) /\ Spot(m, k)[1] = Bucket(m, k)
                 /\ Fold[At(m.table, Spot(m, k)).key] = Fold[k]
                 /\ hash_lookup(m, k) = At(m.table, Spot(m, k)).data
           /\ \A p \in Pos(m.table) :
                 p[1] = Bucket(m, k) /\ Fold[At(m.table, p).key] = Fold[k]
                     => Found(m, k) /\ p = Spot(m, k)
  <1> DEFINE c == Chain(m, k)
             t == m.table
  <1>1. /\ Bucket(m, k) \in 0..Size(m) - 1 /\ c = t[Bucket(m, k)]
        /\ c \in Seq(Node) /\ Len(c) \in Nat
        /\ Found(m, k) <=> \E i \in 1..Len(c) : Fold[c[i].key] = Fold[k]
        /\ Found(m, k) => /\ Find(m, k) \in 1..Len(c)
                          /\ Fold[c[Find(m, k)].key] = Fold[k]
    BY FindIs
  <1>2. Size(m) \in Nat /\ t \in Table(Size(m)) /\ Unique(t)
    BY DEF Sound
  <1>3. Found(m, k) => /\ Spot(m, k) \in Pos(t) /\ Spot(m, k)[1] = Bucket(m, k)
                       /\ Fold[At(t, Spot(m, k)).key] = Fold[k]
                       /\ hash_lookup(m, k) = At(t, Spot(m, k)).data
    <2> SUFFICES ASSUME Found(m, k)
                 PROVE  /\ Spot(m, k) \in Pos(t) /\ Spot(m, k)[1] = Bucket(m, k)
                        /\ Fold[At(t, Spot(m, k)).key] = Fold[k]
                        /\ hash_lookup(m, k) = At(t, Spot(m, k)).data
      OBVIOUS
    <2>1. Spot(m, k) \in Pos(t) /\ Spot(m, k)[1] = Bucket(m, k)
      BY <1>1, <1>2, PosType DEF Spot
    <2>2. At(t, Spot(m, k)) = c[Find(m, k)]
      BY <1>1 DEF At, Spot
    <2>3. hash_lookup(m, k) = c[Find(m, k)].data
      BY DEF hash_lookup
    <2> QED
      BY <1>1, <2>1, <2>2, <2>3
  <1>4. ASSUME NEW p \in Pos(t), p[1] = Bucket(m, k), Fold[At(t, p).key] = Fold[k]
        PROVE  Found(m, k) /\ p = Spot(m, k)
    <2>1. p[2] \in 1..Len(t[p[1]])
      BY <1>2, PosType
    <2>2. At(t, p) = c[p[2]]
      BY <1>1, <1>4 DEF At
    <2>3. Found(m, k)
      BY <1>1, <1>4, <2>1, <2>2
    <2> QED
      BY <1>2, <1>3, <1>4, <2>3 DEF Unique
  <1> QED
    BY <1>3, <1>4

\* With functions that fit, a key is found if and only if it is there.
LEMMA FoundFits ==
    ASSUME NEW m, Sound(m), Fits, NEW k \in Key
    PROVE  Found(m, k) <=> \E n \in Nodes(m.table) : Fold[n.key] = Fold[k]
  <1>1. Size(m) \in Nat /\ m.table \in Table(Size(m)) /\ Homed(m.table, Size(m))
    BY DEF Sound
  <1>2. ASSUME NEW p \in Pos(m.table), Fold[At(m.table, p).key] = Fold[k] PROVE Found(m, k)
    <2>1. At(m.table, p).key \in Key
      BY <1>1, PosType DEF Node
    <2>2. HashOf[At(m.table, p).key] = HashOf[k]
      BY <2>1, <1>2 DEF Fits
    <2>3. p[1] = Bucket(m, k)
      BY <2>2, <1>1 DEF Homed, Bucket
    <2> QED
      BY <2>3, <1>2, FoundIs
  <1> QED
    BY <1>2, FoundIs DEF Nodes

-----------------------------------------------------------------------------
(***************************************************************************)
(* What the operations do to a sound table.                                *)
(***************************************************************************)

LEMMA IncType == ASSUME NEW n \in 0..Word - 1
                 PROVE  /\ Inc(n) \in 0..Word - 1 /\ Dec(n) \in 0..Word - 1
                        /\ n + 1 < Word => Inc(n) = n + 1
                        /\ n > 0 => Dec(n) = n - 1
  <1>1. Word \in Nat /\ Word > 0
    BY HashAssumption
  <1>2. ASSUME NEW a \in Nat PROVE a % Word \in 0..Word - 1 /\ (a < Word => a % Word = a)
    BY <1>1
  <1>3. n + 1 \in Nat /\ (n - 1) + Word \in Nat
    BY <1>1
  <1>4. Inc(n) \in 0..Word - 1 /\ (n + 1 < Word => Inc(n) = n + 1)
    BY <1>2, <1>3 DEF Inc
  <1>5. Dec(n) \in 0..Word - 1
    BY <1>2, <1>3 DEF Dec
  <1>6. n > 0 => Dec(n) = n - 1
    <2> SUFFICES ASSUME n > 0 PROVE Dec(n) = n - 1
      OBVIOUS
    <2>1. n - 1 \in 0..Word - 1
      BY <1>1
    <2>2. ((n - 1) + Word) % Word = n - 1
      BY <2>1, <1>1
    <2> QED
      BY <2>2 DEF Dec
  <1> QED
    BY <1>4, <1>5, <1>6

\* A new node at the end of its chain.
LEMMA LinkedIs ==
    ASSUME NEW m, Sound(m), NEW k \in Key, NEW v \in Val, ~ Found(m, k)
    PROVE  LET l == Linked(m, k, v)
           IN  /\ Sound(l) /\ Size(l) = Size(m)
               /\ Nodes(l.table) = Nodes(m.table) \cup {[key |-> k, data |-> v]}
               /\ Cardinality(Pos(l.table)) = Cardinality(Pos(m.table)) + 1
               /\ l.n_entries = Inc(m.n_entries)
               /\ m.used_buckets = Used(m.table) => l.used_buckets = Used(l.table)
  <1> DEFINE t == m.table
             sz == Size(m)
             b == Bucket(m, k)
             c == Chain(m, k)
             new == [key |-> k, data |-> v]
             l == Linked(m, k, v)
             u == l.table
             last == <<b, Len(c) + 1>>
  <1>1. sz \in Nat /\ sz > 0 /\ t \in Table(sz) /\ Homed(t, sz) /\ Unique(t)
        /\ m.n_entries \in 0..Word - 1 /\ m.used_buckets \in 0..Word - 1
    BY DEF Sound
  <1>2. b \in 0..sz - 1 /\ c = t[b] /\ c \in Seq(Node) /\ Len(c) \in Nat
    BY FindIs
  <1>3. t \in [0..sz - 1 -> Seq(Node)] /\ DOMAIN t = 0..sz - 1
    BY <1>1 DEF Table
  <1>4. new \in Node
    BY DEF Node
  <1>5. /\ u = [t EXCEPT ![b] = Append(c, new)]
        /\ l.n_entries = Inc(m.n_entries)
        /\ l.used_buckets = IF c = <<>> THEN Inc(m.used_buckets) ELSE m.used_buckets
        /\ l = [table |-> u, n_entries |-> l.n_entries, used_buckets |-> l.used_buckets]
    BY <1>2 DEF Linked
  <1> HIDE DEF l, u, c, b, new, t, sz
  <1>6. /\ Append(c, new) \in Seq(Node) /\ Len(Append(c, new)) = Len(c) + 1
        /\ \A i \in 1..Len(c) : Append(c, new)[i] = c[i]
        /\ Append(c, new)[Len(c) + 1] = new
    BY <1>2, <1>4
  <1>7. u \in Table(sz) /\ Size(l) = sz
    <2>1. u \in [0..sz - 1 -> Seq(Node)]
      BY <1>3, <1>5, <1>6
    <2> QED
      BY <2>1, <1>1, TableSize DEF Table, u
  <1>8. /\ u[b] = Append(c, new)
        /\ \A a \in 0..sz - 1 : a # b => u[a] = t[a]
    BY <1>2, <1>3, <1>5
  <1>9. Pos(u) = Pos(t) \cup {last} /\ last \notin Pos(t)
    <2>1. ASSUME NEW p PROVE p \in Pos(u) <=> p \in Pos(t) \/ p = last
      <3>1. ASSUME p \in Pos(u) PROVE p \in Pos(t) \/ p = last
        <4>1. p[1] \in 0..sz - 1 /\ p[2] \in 1..Len(u[p[1]]) /\ p = <<p[1], p[2]>>
          BY <1>1, <1>7, <3>1, PosType
        <4>2. p[1] = b => p[2] = Len(c) + 1 \/ p[2] \in 1..Len(t[p[1]])
          BY <1>2, <1>6, <1>8, <4>1
        <4>3. p[1] # b => p[2] \in 1..Len(t[p[1]])
          BY <1>8, <4>1
        <4>4. p[2] \in 1..Len(t[p[1]]) => p \in Pos(t)
          BY <4>1, <1>1, PosType
        <4> QED
          BY <4>1, <4>2, <4>3, <4>4
      <3>2. ASSUME p \in Pos(t) PROVE p \in Pos(u)
        <4>1. p[1] \in 0..sz - 1 /\ p[2] \in 1..Len(t[p[1]]) /\ p = <<p[1], p[2]>>
          BY <1>1, <3>2, PosType
        <4>2. p[2] \in 1..Len(u[p[1]])
          BY <1>2, <1>6, <1>8, <4>1
        <4> QED
          BY <4>1, <4>2, <1>1, <1>7, PosType
      <3>3. last \in Pos(u)
        <4>1. Len(c) + 1 \in 1..Len(u[b])
          BY <1>2, <1>6, <1>8
        <4> QED
          BY <4>1, <1>1, <1>2, <1>7, PosType
      <3> QED
        BY <3>1, <3>2, <3>3
    <2>2. last \notin Pos(t)
      <3>1. last[1] = b /\ last[2] = Len(c) + 1
        OBVIOUS
      <3>2. ~ (Len(c) + 1 \in 1..Len(t[b]))
        BY <1>2
      <3> HIDE DEF last
      <3> QED
        BY <3>1, <3>2, <1>1, PosType
    <2> QED
      BY <2>1, <2>2
  <1>10. At(u, last) = new
    BY <1>6, <1>8 DEF At
  <1>11. ASSUME NEW p \in Pos(t) PROVE At(u, p) = At(t, p)
    <2>1. p[1] \in 0..sz - 1 /\ p[2] \in 1..Len(t[p[1]])
      BY <1>1, PosType
    <2> QED
      BY <2>1, <1>2, <1>6, <1>8 DEF At
  <1>12. Homed(u, sz)
    <2>1. HashOf[k] % sz = b
      BY DEF b, sz, Bucket
    <2> QED
      BY <2>1, <1>1, <1>9, <1>10, <1>11 DEF Homed, new
  <1>13. Unique(u)
    <2>1. \A p \in Pos(t) : p[1] = b => Fold[At(t, p).key] # Fold[k]
      BY FoundIs DEF t, b
    <2>2. new.key = k
      BY DEF new
    <2> QED
      BY <2>1, <2>2, <1>1, <1>9, <1>10, <1>11 DEF Unique
  <1>14. Nodes(u) = Nodes(t) \cup {new}
    BY <1>9, <1>10, <1>11 DEF Nodes
  <1>15. IsFiniteSet(Pos(t)) /\ Cardinality(Pos(t)) \in Nat
    BY <1>1, NodesFew
  <1>16. Cardinality(Pos(u)) = Cardinality(Pos(t)) + 1
    <2> HIDE DEF last
    <2> QED
      BY <1>9, <1>15, FS_AddElement
  <1>17. Sound(l)
    <2>1. l.n_entries \in 0..Word - 1 /\ l.used_buckets \in 0..Word - 1
      BY <1>1, <1>5, IncType
    <2> QED
      BY <2>1, <1>1, <1>5, <1>7, <1>12, <1>13 DEF Sound, u
  <1>18. ASSUME m.used_buckets = Used(t) PROVE l.used_buckets = Used(u)
    <2> DEFINE S == {a \in DOMAIN t : t[a] # <<>>}
               U == {a \in DOMAIN u : u[a] # <<>>}
    <2>1. DOMAIN u = 0..sz - 1
      BY <1>7 DEF Table
    <2>2. u[b] # <<>>
      <3>1. Len(u[b]) # 0
        BY <1>2, <1>6, <1>8
      <3> QED
        BY <3>1
    <2>3. U = S \cup {b}
      BY <1>2, <1>3, <1>8, <2>1, <2>2
    <2>4. b \in S <=> c # <<>>
      BY <1>2, <1>3
    <2>5. IsFiniteSet(S) /\ Used(t) = Cardinality(S) /\ Used(u) = Cardinality(U)
      BY <1>1, UsedIs DEF Used
    <2>6. Cardinality(U) = IF b \in S THEN Cardinality(S) ELSE Cardinality(S) + 1
      <3> HIDE DEF S, U
      <3> QED
        BY <2>3, <2>5, FS_AddElement
    <2>7. Used(u) < Word
      <3>1. Used(u) <= Cardinality(Pos(u)) /\ Cardinality(Pos(u)) < Word
            /\ Cardinality(Pos(u)) \in Nat /\ Used(u) \in Nat
        <4>1. IsFiniteSet(Pos(u)) /\ Cardinality(Pos(u)) \in Nat /\ Cardinality(Pos(u)) < Word
          BY <1>1, <1>7, <1>12, <1>13, NodesFew
        <4>2. Used(u) \in 0..sz
          BY <1>1, <1>7, UsedIs
        <4>3. Used(u) <= Cardinality(Pos(u))
          BY <1>1, <1>7, <4>1, UsedFew
        <4> QED
          BY <4>1, <4>2, <4>3, <1>1
      <3> QED
        BY <3>1, HashAssumption
    <2> HIDE DEF S, U
    <2>8. CASE c = <<>>
      BY <2>4, <2>5, <2>6, <2>7, <2>8, <1>5, <1>18, <1>1, IncType
    <2>9. CASE c # <<>>
      BY <2>4, <2>5, <2>6, <2>9, <1>5, <1>18
    <2> QED
      BY <2>8, <2>9
  <1> QED
    BY <1>5, <1>7, <1>14, <1>16, <1>17, <1>18 DEF l, u, t, sz, new

\* The counter of entries has no part in where nodes are.
LEMMA Recount ==
    ASSUME NEW m, Sound(m), NEW n \in 0..Word - 1
    PROVE  LET l == [m EXCEPT !.n_entries = n]
           IN  /\ Sound(l) /\ Size(l) = Size(m) /\ l.table = m.table /\ l.n_entries = n
               /\ l.used_buckets = m.used_buckets
  <1> DEFINE l == [m EXCEPT !.n_entries = n]
  <1>1. m = [table |-> m.table, n_entries |-> m.n_entries, used_buckets |-> m.used_buckets]
    BY DEF Sound
  <1>2. l = [table |-> m.table, n_entries |-> n, used_buckets |-> m.used_buckets]
    BY <1>1
  <1>3. l.table = m.table /\ l.n_entries = n /\ l.used_buckets = m.used_buckets
    BY <1>2
  <1> HIDE DEF l
  <1>4. Size(l) = Size(m)
    BY <1>3 DEF Size
  <1> QED
    BY <1>2, <1>3, <1>4 DEF Sound, l

LEMMA RemoveAtIs ==
    ASSUME NEW c \in Seq(Node), NEW i \in 1..Len(c)
    PROVE  LET d == RemoveAt(c, i)
           IN  /\ d \in Seq(Node) /\ Len(d) = Len(c) - 1
               /\ \A j \in 1..Len(c) - 1 : d[j] = IF j < i THEN c[j] ELSE c[j + 1]
  <1> DEFINE x == SubSeq(c, 1, i - 1)
             y == SubSeq(c, i + 1, Len(c))
  <1>1. Len(c) \in Nat /\ i \in Nat /\ \A j \in 1..Len(c) : c[j] \in Node
    BY LenProperties
  <1>2. /\ x \in Seq(Node) /\ Len(x) = i - 1
        /\ \A j \in 1..i - 1 : x[j] = c[j]
    <2>1. 1 \in Int /\ i - 1 \in Int /\ \A j \in 1..i - 1 : c[j] \in Node
      BY <1>1
    <2>2. /\ x \in Seq(Node) /\ Len(x) = IF 1 <= i - 1 THEN ((i - 1) - 1) + 1 ELSE 0
          /\ \A j \in 1..((i - 1) - 1) + 1 : x[j] = c[(1 + j) - 1]
      BY <2>1, SubSeqProperties
    <2>3. ((i - 1) - 1) + 1 = i - 1 /\ \A j \in 1..i - 1 : (1 + j) - 1 = j
      BY <1>1
    <2> HIDE DEF x
    <2>4. Len(x) = i - 1
      BY <1>1, <2>2
    <2>5. \A j \in 1..i - 1 : x[j] = c[j]
      BY <2>2, <2>3
    <2> QED
      BY <2>2, <2>4, <2>5
  <1>3. /\ y \in Seq(Node) /\ Len(y) = Len(c) - i
        /\ \A j \in 1..Len(c) - i : y[j] = c[i + j]
    <2>1. i + 1 \in Int /\ Len(c) \in Int /\ \A j \in i + 1..Len(c) : c[j] \in Node
      BY <1>1
    <2>2. /\ y \in Seq(Node) /\ Len(y) = IF i + 1 <= Len(c) THEN (Len(c) - (i + 1)) + 1 ELSE 0
          /\ \A j \in 1..(Len(c) - (i + 1)) + 1 : y[j] = c[((i + 1) + j) - 1]
      BY <2>1, SubSeqProperties
    <2>3. (Len(c) - (i + 1)) + 1 = Len(c) - i
          /\ \A j \in 1..Len(c) - i : ((i + 1) + j) - 1 = i + j
      BY <1>1
    <2> HIDE DEF y
    <2>4. Len(y) = Len(c) - i
      BY <1>1, <2>2
    <2>5. \A j \in 1..Len(c) - i : y[j] = c[i + j]
      BY <2>2, <2>3
    <2> QED
      BY <2>2, <2>4, <2>5
  <1>4. RemoveAt(c, i) = x \o y
    BY DEF RemoveAt
  <1> HIDE DEF x, y
  <1>5. /\ x \o y \in Seq(Node) /\ Len(x \o y) = Len(x) + Len(y)
        /\ \A j \in 1..Len(x) + Len(y) : (x \o y)[j] = IF j <= Len(x) THEN x[j] ELSE y[j - Len(x)]
    BY <1>2, <1>3, ConcatProperties
  <1>6. Len(x) + Len(y) = Len(c) - 1
    BY <1>1, <1>2, <1>3
  <1>7. ASSUME NEW j \in 1..Len(c) - 1 PROVE (x \o y)[j] = IF j < i THEN c[j] ELSE c[j + 1]
    <2>1. CASE j < i
      <3>1. j <= Len(x) /\ j \in 1..i - 1
        BY <1>1, <1>2, <2>1
      <3> QED
        BY <3>1, <1>2, <1>5, <1>6, <2>1
    <2>2. CASE ~ j < i
      <3>1. ~ (j <= Len(x)) /\ j - Len(x) \in 1..Len(c) - i /\ i + (j - Len(x)) = j + 1
        BY <1>1, <1>2, <2>2
      <3>2. (x \o y)[j] = y[j - Len(x)]
        BY <3>1, <1>5, <1>6
      <3> QED
        BY <3>1, <3>2, <1>3, <2>2
    <2> QED
      BY <2>1, <2>2
  <1> QED
    BY <1>4, <1>5, <1>6, <1>7

\* A node that is taken out of its chain.
LEMMA UnlinkedIs ==
    ASSUME NEW m, Sound(m), NEW k \in Key, Found(m, k)
    PROVE  LET l == Unlinked(m, k)
           IN  /\ Sound(l) /\ Size(l) = Size(m) /\ l.n_entries = m.n_entries
               /\ Nodes(l.table) = Nodes(m.table) \ {At(m.table, Spot(m, k))}
               /\ Cardinality(Pos(m.table)) > 0
               /\ Cardinality(Pos(l.table)) = Cardinality(Pos(m.table)) - 1
  <1> DEFINE t == m.table
             sz == Size(m)
             b == Bucket(m, k)
             c == Chain(m, k)
             i == Find(m, k)
             d == RemoveAt(c, i)
             l == Unlinked(m, k)
             u == l.table
             last == <<b, Len(c)>>
             shift(p) == IF p[1] = b /\ p[2] >= i THEN <<b, p[2] + 1>> ELSE p
  <1>1. sz \in Nat /\ sz > 0 /\ t \in Table(sz) /\ Homed(t, sz) /\ Unique(t)
        /\ m.n_entries \in 0..Word - 1 /\ m.used_buckets \in 0..Word - 1
        /\ m = [table |-> t, n_entries |-> m.n_entries, used_buckets |-> m.used_buckets]
    BY DEF Sound
  <1>2. b \in 0..sz - 1 /\ c = t[b] /\ c \in Seq(Node) /\ Len(c) \in Nat /\ i \in 1..Len(c)
    BY FindIs
  <1>3. t \in [0..sz - 1 -> Seq(Node)] /\ DOMAIN t = 0..sz - 1
    BY <1>1 DEF Table
  <1>4. /\ u = [t EXCEPT ![b] = d]
        /\ l.n_entries = m.n_entries
        /\ l.used_buckets = IF i = 1 THEN Dec(m.used_buckets) ELSE m.used_buckets
        /\ l = [table |-> u, n_entries |-> l.n_entries, used_buckets |-> l.used_buckets]
    <2>1. Unlinked(m, k) = [m EXCEPT !.table = [t EXCEPT ![b] = RemoveAt(t[b], i)],
                                     !.used_buckets = IF i = 1 THEN Dec(m.used_buckets)
                                                      ELSE m.used_buckets]
      BY DEF Unlinked
    <2>2. Unlinked(m, k) = [table |-> [t EXCEPT ![b] = RemoveAt(t[b], i)],
                            n_entries |-> m.n_entries,
                            used_buckets |-> IF i = 1 THEN Dec(m.used_buckets)
                                             ELSE m.used_buckets]
      BY <2>1, <1>1
    <2> QED
      BY <2>2, <1>2
  <1>5. /\ d \in Seq(Node) /\ Len(d) = Len(c) - 1
        /\ \A j \in 1..Len(c) - 1 : d[j] = IF j < i THEN c[j] ELSE c[j + 1]
    <2> HIDE DEF c, i
    <2> QED
      BY <1>2, RemoveAtIs
  <1>6. Spot(m, k) = <<b, i>>
    BY DEF Spot
  <1> HIDE DEF l, u, c, b, t, sz, d, i
  <1>7. u \in Table(sz) /\ Size(l) = sz
    <2>1. u \in [0..sz - 1 -> Seq(Node)]
      BY <1>3, <1>4, <1>5
    <2> QED
      BY <2>1, <1>1, TableSize DEF Table, u
  <1>8. u[b] = d /\ \A a \in 0..sz - 1 : a # b => u[a] = t[a]
    BY <1>2, <1>3, <1>4
  <1>9. ASSUME NEW p \in Pos(u)
        PROVE  /\ p[1] \in 0..sz - 1 /\ p[2] \in Nat /\ p[2] >= 1 /\ p = <<p[1], p[2]>>
               /\ p[1] = b => p[2] <= Len(c) - 1
               /\ p[1] # b => p[2] <= Len(t[p[1]]) /\ Len(t[p[1]]) \in Nat
    <2>1. p[1] \in 0..sz - 1 /\ p[2] \in 1..Len(u[p[1]]) /\ p = <<p[1], p[2]>>
      BY <1>1, <1>7, PosType
    <2>2. p[1] = b => p[2] <= Len(c) - 1
      BY <2>1, <1>5, <1>8, <1>2
    <2>3. p[1] # b => p[2] <= Len(t[p[1]]) /\ Len(t[p[1]]) \in Nat
      BY <2>1, <1>3, <1>8
    <2> QED
      BY <2>1, <2>2, <2>3
  <1>10. Pos(u) = Pos(t) \ {last} /\ last \in Pos(t)
    <2>1. ASSUME NEW p \in Pos(u) PROVE p \in Pos(t) /\ p # last
      <3>1. p[2] \in 1..Len(t[p[1]])
        BY <1>2, <1>9
      <3>2. p[1] = b => p[2] # Len(c)
        BY <1>2, <1>9
      <3> QED
        BY <3>1, <3>2, <1>1, <1>9, PosType
    <2>2. ASSUME NEW p \in Pos(t), p # last PROVE p \in Pos(u)
      <3>1. p[1] \in 0..sz - 1 /\ p[2] \in 1..Len(t[p[1]]) /\ p = <<p[1], p[2]>>
        BY <1>1, PosType
      <3>2. p[1] = b => p[2] # Len(c)
        BY <2>2, <3>1
      <3>3. p[2] \in 1..Len(u[p[1]])
        BY <3>1, <3>2, <1>2, <1>5, <1>8
      <3> QED
        BY <3>1, <3>3, <1>1, <1>7, PosType
    <2>3. last \in Pos(t)
      <3>1. Len(c) \in 1..Len(t[b])
        BY <1>2
      <3> QED
        BY <3>1, <1>1, <1>2, PosType
    <2> QED
      BY <2>1, <2>2, <2>3
  <1>11. ASSUME NEW p \in Pos(u)
         PROVE  /\ shift(p) \in Pos(t) /\ shift(p) # <<b, i>> /\ shift(p)[1] = p[1]
                /\ At(u, p) = At(t, shift(p))
    <2>1. CASE p[1] = b /\ p[2] >= i
      <3>1. shift(p) = <<b, p[2] + 1>> /\ p[2] + 1 \in 1..Len(t[b]) /\ p[2] + 1 # i
        BY <2>1, <1>2, <1>9
      <3>2. p[2] \in 1..Len(c) - 1 /\ ~ p[2] < i
        BY <2>1, <1>2, <1>9
      <3>3. At(u, p) = c[p[2] + 1]
        BY <3>2, <2>1, <1>5, <1>8 DEF At
      <3>4. <<b, p[2] + 1>> \in Pos(t)
        BY <3>1, <1>1, <1>2, PosType
      <3>5. At(t, <<b, p[2] + 1>>) = c[p[2] + 1]
        BY <1>2 DEF At
      <3> HIDE DEF shift
      <3> QED
        BY <3>1, <3>3, <3>4, <3>5, <2>1
    <2>2. CASE p[1] = b /\ ~ p[2] >= i
      <3>1. shift(p) = p /\ p \in Pos(t) /\ p # <<b, i>>
        BY <2>2, <1>2, <1>9, <1>10
      <3>2. p[2] \in 1..Len(c) - 1 /\ p[2] < i
        BY <2>2, <1>2, <1>9
      <3>3. At(u, p) = c[p[2]] /\ At(t, p) = c[p[2]]
        BY <3>2, <2>2, <1>2, <1>5, <1>8 DEF At
      <3> HIDE DEF shift
      <3> QED
        BY <3>1, <3>3
    <2>3. CASE p[1] # b
      <3>1. shift(p) = p /\ p \in Pos(t) /\ p # <<b, i>>
        BY <2>3, <1>10
      <3>2. At(u, p) = At(t, p)
        BY <2>3, <1>8, <1>9 DEF At
      <3> HIDE DEF shift
      <3> QED
        BY <3>1, <3>2
    <2> QED
      BY <2>1, <2>2, <2>3
  <1>12. ASSUME NEW p \in Pos(u), NEW q \in Pos(u), shift(p) = shift(q) PROVE p = q
    <2>1. p[1] = q[1]
      BY <1>11, <1>12
    <2>2. CASE p[1] # b
      BY <2>1, <2>2, <1>12
    <2>3. CASE p[1] = b
      <3>1. ASSUME NEW x \in Pos(u), x[1] = b
            PROVE  shift(x)[2] = IF x[2] >= i THEN x[2] + 1 ELSE x[2]
        BY <3>1
      <3>2. p[2] = q[2]
        <4>1. p[2] \in Nat /\ q[2] \in Nat /\ i \in Nat
          BY <1>2, <1>9
        <4>2. (IF p[2] >= i THEN p[2] + 1 ELSE p[2]) = (IF q[2] >= i THEN q[2] + 1 ELSE q[2])
          BY <3>1, <2>1, <2>3, <1>12
        <4> QED
          BY <4>1, <4>2
      <3> QED
        BY <3>2, <2>1, <1>9
    <2> QED
      BY <2>2, <2>3
  <1>13. ASSUME NEW q \in Pos(t), q # <<b, i>> PROVE \E p \in Pos(u) : shift(p) = q
    <2>1. q[1] \in 0..sz - 1 /\ q[2] \in 1..Len(t[q[1]]) /\ q = <<q[1], q[2]>>
      BY <1>1, PosType
    <2>2. CASE q[1] = b /\ q[2] > i
      <3> DEFINE p == <<b, q[2] - 1>>
      <3>1. p \in Pos(u)
        <4>1. q[2] - 1 \in 1..Len(u[b])
          BY <2>1, <2>2, <1>2, <1>5, <1>8
        <4> QED
          BY <4>1, <1>1, <1>2, <1>7, PosType
      <3>2. q[2] - 1 >= i /\ (q[2] - 1) + 1 = q[2]
        BY <2>1, <2>2, <1>2
      <3>3. shift(p) = q
        BY <2>1, <2>2, <3>2
      <3> QED
        BY <3>1, <3>3
    <2>3. CASE ~ (q[1] = b /\ q[2] > i)
      <3>1. ~ (q[1] = b /\ q[2] >= i)
        BY <2>1, <2>3, <1>2, <1>13
      <3>2. q # last
        BY <3>1, <1>2
      <3>3. q \in Pos(u) /\ shift(q) = q
        BY <3>1, <3>2, <1>10
      <3> QED
        BY <3>3
    <2> QED
      BY <2>2, <2>3
  <1> HIDE DEF shift
  <1>14. Homed(u, sz)
    BY <1>1, <1>11 DEF Homed
  <1>15. Unique(u)
    BY <1>1, <1>11, <1>12 DEF Unique
  <1>16. <<b, i>> \in Pos(t)
    BY <1>1, <1>2, PosType
  <1>17. Nodes(u) = Nodes(t) \ {At(t, <<b, i>>)}
    <2>1. ASSUME NEW p \in Pos(u) PROVE At(u, p) \in Nodes(t) /\ At(u, p) # At(t, <<b, i>>)
      <3>1. At(t, shift(p)) # At(t, <<b, i>>)
        BY <1>1, <1>11, <1>16, KeyOnce
      <3> QED
        BY <3>1, <1>11 DEF Nodes
    <2>2. ASSUME NEW q \in Pos(t), At(t, q) # At(t, <<b, i>>) PROVE At(t, q) \in Nodes(u)
      <3>1. PICK p \in Pos(u) : shift(p) = q
        BY <1>13, <2>2
      <3> QED
        BY <3>1, <1>11 DEF Nodes
    <2> QED
      BY <2>1, <2>2 DEF Nodes
  <1>18. IsFiniteSet(Pos(t)) /\ Cardinality(Pos(t)) \in Nat
    BY <1>1, NodesFew
  <1>19. Cardinality(Pos(u)) = Cardinality(Pos(t)) - 1 /\ Cardinality(Pos(t)) > 0
    <2> HIDE DEF last
    <2>1. Cardinality(Pos(u)) = Cardinality(Pos(t)) - 1
      BY <1>10, <1>18, FS_RemoveElement
    <2>2. Cardinality(Pos(t)) # 0
      BY <1>10, <1>18, FS_EmptySet
    <2> QED
      BY <2>1, <2>2, <1>18
  <1>20. Sound(l)
    <2>1. l.n_entries \in 0..Word - 1 /\ l.used_buckets \in 0..Word - 1
      BY <1>1, <1>4, IncType
    <2> QED
      BY <2>1, <1>1, <1>4, <1>7, <1>14, <1>15 DEF Sound, u
  <1> QED
    BY <1>4, <1>6, <1>7, <1>17, <1>19, <1>20 DEF l, u, t, sz

\* A node that gets a new key, equal to the old one, and new data.
LEMMA OverwrittenIs ==
    ASSUME NEW m, Sound(m), NEW k \in Key, NEW v \in Val, Found(m, k)
    PROVE  LET l == [m EXCEPT !.table[Bucket(m, k)][Find(m, k)] = [key |-> k, data |-> v]]
           IN  /\ Sound(l) /\ Size(l) = Size(m) /\ l.n_entries = m.n_entries
               /\ Nodes(l.table) = (Nodes(m.table) \ {At(m.table, Spot(m, k))})
                                     \cup {[key |-> k, data |-> v]}
               /\ Cardinality(Pos(l.table)) = Cardinality(Pos(m.table))
  <1> DEFINE t == m.table
             sz == Size(m)
             b == Bucket(m, k)
             c == Chain(m, k)
             i == Find(m, k)
             new == [key |-> k, data |-> v]
             d == [c EXCEPT ![i] = new]
             l == [m EXCEPT !.table[Bucket(m, k)][Find(m, k)] = [key |-> k, data |-> v]]
             u == l.table
  <1>1. sz \in Nat /\ sz > 0 /\ t \in Table(sz) /\ Homed(t, sz) /\ Unique(t)
        /\ m.n_entries \in 0..Word - 1 /\ m.used_buckets \in 0..Word - 1
        /\ m = [table |-> t, n_entries |-> m.n_entries, used_buckets |-> m.used_buckets]
    BY DEF Sound
  <1>2. /\ b \in 0..sz - 1 /\ c = t[b] /\ c \in Seq(Node) /\ Len(c) \in Nat /\ i \in 1..Len(c)
        /\ Fold[c[i].key] = Fold[k]
    BY FindIs
  <1>3. t \in [0..sz - 1 -> Seq(Node)] /\ DOMAIN t = 0..sz - 1
    BY <1>1 DEF Table
  <1>4. /\ u = [t EXCEPT ![b] = d]
        /\ l.n_entries = m.n_entries /\ l.used_buckets = m.used_buckets
        /\ l = [table |-> u, n_entries |-> l.n_entries, used_buckets |-> l.used_buckets]
    <2>1. l = [m EXCEPT !.table = [t EXCEPT ![b] = [t[b] EXCEPT ![i] = new]]]
      OBVIOUS
    <2>2. l = [table |-> [t EXCEPT ![b] = [t[b] EXCEPT ![i] = new]],
               n_entries |-> m.n_entries, used_buckets |-> m.used_buckets]
      BY <2>1, <1>1
    <2> QED
      BY <2>2, <1>2
  <1>5. Spot(m, k) = <<b, i>>
    BY DEF Spot
  <1>6. new \in Node /\ new.key = k
    BY DEF Node
  <1>7. HashOf[k] % sz = b
    BY DEF Bucket
  <1> HIDE DEF l, u, c, b, t, sz, d, i, new
  <1>8. /\ d \in Seq(Node) /\ Len(d) = Len(c)
        /\ \A j \in 1..Len(c) : d[j] = IF j = i THEN new ELSE c[j]
    BY <1>2, <1>6, ExceptSeq DEF d
  <1>9. u \in Table(sz) /\ Size(l) = sz
    <2>1. u \in [0..sz - 1 -> Seq(Node)]
      BY <1>3, <1>4, <1>8
    <2> QED
      BY <2>1, <1>1, TableSize DEF Table, u
  <1>10. u[b] = d /\ \A a \in 0..sz - 1 : a # b => u[a] = t[a]
    BY <1>2, <1>3, <1>4
  <1>11. Pos(u) = Pos(t)
    <2>1. \A a \in 0..sz - 1 : Len(u[a]) = Len(t[a])
      BY <1>2, <1>8, <1>10
    <2>2. \A p : p \in Pos(u) <=> p \in Pos(t)
      BY <2>1, <1>1, <1>9, PosType
    <2> QED
      BY <2>2
  <1>12. <<b, i>> \in Pos(t)
    BY <1>1, <1>2, PosType
  <1>13. At(u, <<b, i>>) = new
    BY <1>2, <1>8, <1>10 DEF At
  <1>14. ASSUME NEW p \in Pos(t), p # <<b, i>> PROVE At(u, p) = At(t, p)
    <2>1. p[1] \in 0..sz - 1 /\ p[2] \in 1..Len(t[p[1]]) /\ p = <<p[1], p[2]>>
      BY <1>1, PosType
    <2>2. p[1] = b => p[2] # i
      BY <2>1, <1>14
    <2> QED
      BY <2>1, <2>2, <1>2, <1>8, <1>10 DEF At
  <1>15. At(t, <<b, i>>) = c[i]
    BY <1>2 DEF At
  <1>16. \A p \in Pos(u) : Fold[At(u, p).key] = Fold[At(t, p).key]
    BY <1>2, <1>6, <1>11, <1>13, <1>14, <1>15
  <1>17. Unique(u)
    BY <1>1, <1>11, <1>16 DEF Unique
  <1>18. Homed(u, sz)
    BY <1>1, <1>6, <1>7, <1>11, <1>13, <1>14 DEF Homed
  <1>19. Nodes(u) = (Nodes(t) \ {At(t, <<b, i>>)}) \cup {new}
    <2>1. ASSUME NEW p \in Pos(t), p # <<b, i>> PROVE At(t, p) # At(t, <<b, i>>)
      BY <2>1, <1>1, <1>12, KeyOnce
    <2> QED
      BY <2>1, <1>11, <1>12, <1>13, <1>14 DEF Nodes
  <1>20. Sound(l)
    <2>1. l.n_entries \in 0..Word - 1 /\ l.used_buckets \in 0..Word - 1
      BY <1>1, <1>4
    <2> QED
      BY <2>1, <1>1, <1>4, <1>9, <1>17, <1>18 DEF Sound, u
  <1> QED
    BY <1>4, <1>5, <1>9, <1>11, <1>19, <1>20 DEF l, u, t, sz, new

\* Insertion of a key that is not there, with the growth it may lead to.
LEMMA InsertNewIs ==
    ASSUME NEW m, Sound(m), NEW k \in Key, NEW v \in Val, ~ Found(m, k)
    PROVE  LET l == InsertNew(m, k, v)
               n == Cardinality(Pos(m.table)) + 1
           IN  /\ Sound(l) /\ Size(l) \in {Size(m), 2 * Size(m)}
               /\ Nodes(l.table) = Nodes(m.table) \cup {[key |-> k, data |-> v]}
               /\ n \in Nat /\ n < Word
               /\ Cardinality(Pos(l.table)) = n
               /\ l.n_entries \in {Inc(m.n_entries), n}
               /\ m.used_buckets = Used(m.table) => l.used_buckets = Used(l.table)
  <1> DEFINE l == Linked(m, k, v)
             g == hash_resize(l, 2 * Size(m))
             n == Cardinality(Pos(m.table)) + 1
             w == InsertNew(m, k, v)
  <1>1. /\ Sound(l) /\ Size(l) = Size(m)
        /\ Nodes(l.table) = Nodes(m.table) \cup {[key |-> k, data |-> v]}
        /\ Cardinality(Pos(l.table)) = n
        /\ l.n_entries = Inc(m.n_entries)
        /\ m.used_buckets = Used(m.table) => l.used_buckets = Used(l.table)
    BY LinkedIs
  <1>2. w = IF Grows(m, k, v) THEN g ELSE l
    BY DEF InsertNew
  <1>3. Size(m) \in Nat /\ Size(m) > 0 /\ 2 * Size(m) \in Nat /\ 2 * Size(m) > 0
    BY DEF Sound
  <1> HIDE DEF l
  <1>4. l.table \in Table(Size(m)) /\ Homed(l.table, Size(m)) /\ Unique(l.table)
    BY <1>1 DEF Sound
  <1>5. IsFiniteSet(Pos(l.table)) /\ n \in Nat /\ n < Word
    BY <1>1, <1>3, <1>4, NodesFew
  <1>6. /\ g.table \in Table(2 * Size(m)) /\ Homed(g.table, 2 * Size(m))
        /\ Moved(g.table, l.table)
        /\ g.n_entries = Len(hash_iterate(l)) /\ g.used_buckets = Used(g.table)
    <2> DEFINE sz == 2 * Size(m)
               old == Size(m)
    <2>1. sz \in Nat /\ sz > 0 /\ g = hash_resize(l, sz)
      BY <1>3
    <2>2. old \in Nat /\ old > 0 /\ l.table \in Table(old)
      BY <1>3, <1>4
    <2> HIDE DEF sz, g, old
    <2>3. hash_resize(l, sz).table \in Table(sz)
          /\ Homed(hash_resize(l, sz).table, sz)
          /\ Moved(hash_resize(l, sz).table, l.table)
          /\ hash_resize(l, sz).n_entries = Len(hash_iterate(l))
          /\ hash_resize(l, sz).used_buckets = Used(hash_resize(l, sz).table)
      BY <2>1, <2>2, ResizeMoves
    <2> QED
      BY <2>1, <2>3 DEF sz
  <1>7. g = [table |-> g.table, n_entries |-> g.n_entries, used_buckets |-> g.used_buckets]
    BY DEF hash_resize
  <1>8. Len(hash_iterate(l)) = n
    BY <1>1, <1>3, <1>4, IterateCounts
  <1> HIDE DEF g
  <1>9. /\ Unique(g.table) /\ Nodes(g.table) = Nodes(l.table)
        /\ IsFiniteSet(Pos(g.table)) /\ Cardinality(Pos(g.table)) = n
    BY <1>1, <1>3, <1>4, <1>5, <1>6, MovedKeeps, MovedUnique
  <1>10. Size(g) = 2 * Size(m)
    BY <1>3, <1>6, TableSize
  <1>11. CASE Grows(m, k, v)
    <2>1. w = g
      BY <1>2, <1>11
    <2>2. g.used_buckets \in 0..Word - 1
      <3>1. Used(g.table) \in 0..2 * Size(m)
        BY <1>3, <1>6, UsedIs
      <3>2. Used(g.table) <= n
        BY <1>3, <1>6, <1>9, UsedFew
      <3> QED
        BY <3>1, <3>2, <1>3, <1>5, <1>6, HashAssumption
    <2>3. g.n_entries \in 0..Word - 1
      BY <1>5, <1>6, <1>8, HashAssumption
    <2>4. Sound(g)
      BY <2>2, <2>3, <1>3, <1>6, <1>7, <1>9, <1>10 DEF Sound
    <2> HIDE DEF n, w
    <2> QED
      BY <2>1, <2>4, <1>1, <1>5, <1>6, <1>8, <1>9, <1>10 DEF w, n
  <1>12. CASE ~ Grows(m, k, v)
    <2>1. w = l
      BY <1>2, <1>12
    <2> QED
      BY <2>1, <1>1, <1>5
  <1> QED
    BY <1>11, <1>12

-----------------------------------------------------------------------------
(***************************************************************************)
(* The invariant.                                                          *)
(***************************************************************************)

\* A plain map counts its nodes.
Counting == map.n_entries = Cardinality(Pos(map.table)) /\ aborted = FALSE

HashInv ==
    /\ owner \in Owners
    /\ Sound(map) /\ Size(map) <= MaxSz
    /\ owner = "map" => Counting

Results == ret \in Val \cup {NoVal} \cup BOOLEAN /\ aborted \in BOOLEAN

LEMMA EmptyIs ==
    ASSUME NEW sz \in Nat, sz > 0
    PROVE  LET m == Empty(sz)
           IN  /\ Sound(m) /\ Size(m) = sz /\ m.n_entries = 0 /\ m.used_buckets = 0
               /\ Pos(m.table) = {} /\ Nodes(m.table) = {} /\ Used(m.table) = 0
  <1> DEFINE m == Empty(sz)
             t == [b \in 0..sz - 1 |-> <<>>]
  <1>1. /\ m = [table |-> t, n_entries |-> 0, used_buckets |-> 0]
        /\ m.table = t /\ m.n_entries = 0 /\ m.used_buckets = 0
    BY DEF Empty
  <1>2. t \in Table(sz) /\ DOMAIN t = 0..sz - 1 /\ \A b \in 0..sz - 1 : t[b] = <<>>
    BY DEF Table
  <1> HIDE DEF m, t
  <1>3. Size(m) = sz
    BY <1>1, <1>2, TableSize
  <1>4. Pos(t) = {}
    <2>1. \A b \in 0..sz - 1 : Len(t[b]) = 0
      BY <1>2
    <2> QED
      BY <2>1, <1>2, PosType
  <1>5. Nodes(t) = {} /\ Homed(t, sz) /\ Unique(t)
    BY <1>4 DEF Nodes, Homed, Unique
  <1>6. Used(t) = 0
    <2>1. {b \in DOMAIN t : t[b] # <<>>} = {}
      BY <1>2
    <2> QED
      BY <2>1, FS_EmptySet DEF Used
  <1>7. 0 \in 0..Word - 1
    BY HashAssumption
  <1>8. Sound(m)
    BY <1>1, <1>2, <1>3, <1>5, <1>7 DEF Sound
  <1> QED
    BY <1>1, <1>3, <1>4, <1>5, <1>6, <1>8 DEF m

LEMMA InvInit == Init => HashInv
  <1> SUFFICES ASSUME Init PROVE HashInv
    OBVIOUS
  <1> DEFINE sz == IF InitSz = 0 THEN 1 ELSE InitSz
  <1>1. sz \in Nat /\ sz > 0 /\ sz <= MaxSz
    BY HashAssumption
  <1>2. map = Empty(sz) /\ owner \in Owners /\ aborted = FALSE
    BY DEF Init
  <1> HIDE DEF sz
  <1>3. /\ Sound(map) /\ Size(map) = sz /\ map.n_entries = 0 /\ Pos(map.table) = {}
    BY <1>1, <1>2, EmptyIs
  <1>4. Cardinality(Pos(map.table)) = 0
    BY <1>3, FS_EmptySet
  <1> QED
    BY <1>1, <1>2, <1>3, <1>4 DEF HashInv, Counting

\* hash_insert and hash_overwrite of a key that is not there.
LEMMA LinkInv ==
    ASSUME HashInv, NEW k \in Key, NEW v \in Val, ~ Found(map, k), Link(k, v), owner' = owner
    PROVE  /\ HashInv'
           /\ Nodes(map'.table) = Nodes(map.table) \cup {[key |-> k, data |-> v]}
  <1> DEFINE n == Cardinality(Pos(map.table)) + 1
  <1>1. Sound(map) /\ Size(map) \in Nat /\ map.n_entries \in 0..Word - 1
    BY DEF HashInv, Sound
  <1>2. map' = InsertNew(map, k, v) /\ Size(map') <= MaxSz
        /\ aborted' = (map'.n_entries # Inc(map.n_entries))
    BY DEF Link
  <1>4. /\ Sound(map')
        /\ Nodes(map'.table) = Nodes(map.table) \cup {[key |-> k, data |-> v]}
        /\ n \in Nat /\ n < Word
        /\ Cardinality(Pos(map'.table)) = n
        /\ map'.n_entries \in {Inc(map.n_entries), n}
    BY <1>1, <1>2, InsertNewIs
  <1>5. ASSUME owner = "map" PROVE Counting'
    <2>1. map.n_entries = Cardinality(Pos(map.table))
      BY <1>5 DEF HashInv, Counting
    <2>2. Inc(map.n_entries) = n
      BY <2>1, <1>1, <1>4, IncType
    <2>3. map'.n_entries = n
      BY <2>2, <1>4
    <2>4. aborted' = FALSE
      BY <2>2, <2>3, <1>2
    <2> QED
      BY <2>3, <2>4, <1>4 DEF Counting
  <1> QED
    BY <1>2, <1>4, <1>5 DEF HashInv

\* Each call, for the invariant and for the nodes of the table.
LEMMA InsertInv ==
    ASSUME HashInv, NEW k \in Key, NEW v \in Val, HashInsert(k, v), owner' = owner
    PROVE  /\ HashInv'
           /\ Nodes(map'.table) = IF Found(map, k) THEN Nodes(map.table)
                                  ELSE Nodes(map.table) \cup {[key |-> k, data |-> v]}
  <1>1. CASE Found(map, k)
    <2>1. map' = map /\ aborted' = aborted
      BY <1>1 DEF HashInsert
    <2> QED
      BY <2>1, <1>1 DEF HashInv, Counting
  <1>2. CASE ~ Found(map, k)
    BY <1>2, LinkInv DEF HashInsert
  <1> QED
    BY <1>1, <1>2

LEMMA OverwriteInv ==
    ASSUME HashInv, NEW k \in Key, NEW v \in Val, HashOverwrite(k, v), owner' = owner
    PROVE  /\ HashInv'
           /\ Nodes(map'.table) = (IF Found(map, k)
                                   THEN Nodes(map.table) \ {At(map.table, Spot(map, k))}
                                   ELSE Nodes(map.table)) \cup {[key |-> k, data |-> v]}
  <1>1. CASE Found(map, k)
    <2> DEFINE l == [map EXCEPT !.table[Bucket(map, k)][Find(map, k)] = [key |-> k, data |-> v]]
    <2>1. map' = l /\ aborted' = aborted
      BY <1>1 DEF HashOverwrite
    <2>2. /\ Sound(l) /\ Size(l) = Size(map) /\ l.n_entries = map.n_entries
          /\ Nodes(l.table) = (Nodes(map.table) \ {At(map.table, Spot(map, k))})
                                     \cup {[key |-> k, data |-> v]}
          /\ Cardinality(Pos(l.table)) = Cardinality(Pos(map.table))
      BY <1>1, OverwrittenIs DEF HashInv
    <2> HIDE DEF l
    <2> QED
      BY <2>1, <2>2, <1>1 DEF HashInv, Counting
  <1>2. CASE ~ Found(map, k)
    BY <1>2, LinkInv DEF HashOverwrite
  <1> QED
    BY <1>1, <1>2

LEMMA RemoveInv ==
    ASSUME HashInv, NEW k \in Key, HashRemove(k), owner' = owner
    PROVE  /\ HashInv'
           /\ Nodes(map'.table) = IF Found(map, k)
                                  THEN Nodes(map.table) \ {At(map.table, Spot(map, k))}
                                  ELSE Nodes(map.table)
  <1>1. CASE Found(map, k)
    <2> DEFINE u == Unlinked(map, k)
               l == [u EXCEPT !.n_entries = Dec(map.n_entries)]
    <2>1. /\ Sound(u) /\ Size(u) = Size(map) /\ u.n_entries = map.n_entries
          /\ Nodes(u.table) = Nodes(map.table) \ {At(map.table, Spot(map, k))}
          /\ Cardinality(Pos(map.table)) > 0
          /\ Cardinality(Pos(u.table)) = Cardinality(Pos(map.table)) - 1
      BY <1>1, UnlinkedIs DEF HashInv
    <2>2. map' = [u EXCEPT !.n_entries = Dec(u.n_entries)] /\ aborted' = aborted
      BY <1>1 DEF HashRemove
    <2>3. map' = l
      BY <2>1, <2>2
    <2> HIDE DEF u
    <2>4. map.n_entries \in 0..Word - 1
      BY DEF HashInv, Sound
    <2>5. Dec(map.n_entries) \in 0..Word - 1
          /\ (map.n_entries > 0 => Dec(map.n_entries) = map.n_entries - 1)
      BY <2>4, IncType
    <2>6. Sound(l) /\ Size(l) = Size(u) /\ l.table = u.table /\ l.n_entries = Dec(map.n_entries)
      BY <2>1, <2>5, Recount
    <2> HIDE DEF l
    <2> QED
      BY <1>1, <2>1, <2>2, <2>3, <2>5, <2>6 DEF HashInv, Counting
  <1>2. CASE ~ Found(map, k)
    <2>1. map' = map /\ aborted' = aborted
      BY <1>2 DEF HashRemove
    <2> QED
      BY <2>1, <1>2 DEF HashInv, Counting
  <1> QED
    BY <1>1, <1>2

LEMMA DelInternalInv ==
    ASSUME HashInv, NEW k \in Key, HashDelInternalNode(k), owner' = owner
    PROVE  /\ HashInv' /\ Found(map, k)
           /\ Nodes(map'.table) = Nodes(map.table) \ {At(map.table, Spot(map, k))}
  <1> DEFINE u == Unlinked(map, k)
  <1>1. Found(map, k) /\ map' = u /\ owner # "map"
    BY DEF HashDelInternalNode
  <1>2. /\ Sound(u) /\ Size(u) = Size(map)
        /\ Nodes(u.table) = Nodes(map.table) \ {At(map.table, Spot(map, k))}
    BY <1>1, UnlinkedIs DEF HashInv
  <1> HIDE DEF u
  <1> QED
    BY <1>1, <1>2 DEF HashInv

LEMMA InvNext == HashInv /\ [Next]_vars => HashInv'
  <1> SUFFICES ASSUME HashInv, [Next]_vars PROVE HashInv'
    OBVIOUS
  <1>1. ASSUME Next PROVE HashInv'
    <2>1. owner' = owner
      BY <1>1 DEF Next
    <2> QED
      BY <1>1, <2>1, InsertInv, OverwriteInv, RemoveInv, DelInternalInv DEF Next
  <1>2. CASE UNCHANGED vars
    BY <1>2 DEF vars, HashInv, Counting
  <1> QED
    BY <1>1, <1>2

LEMMA InvHolds == Spec => []HashInv
  BY InvInit, InvNext, PTL DEF Spec

-----------------------------------------------------------------------------
(***************************************************************************)
(* The invariants that the run checks.                                     *)
(***************************************************************************)

LEMMA ResultsInit == Init => Results
  <1> SUFFICES ASSUME Init PROVE Results
    OBVIOUS
  <1>1. ret = NoVal /\ aborted = FALSE
    BY DEF Init
  <1> QED
    BY <1>1, Zenon DEF Results

\* What a lookup returns.
LEMMA LookupType == ASSUME NEW m, Sound(m), NEW k \in Key
                    PROVE  hash_lookup(m, k) \in Val \cup {NoVal}
  <1>1. CASE Found(m, k)
    <2>1. Chain(m, k)[Find(m, k)] \in Node
      BY <1>1, FindIs
    <2> QED
      BY <2>1, <1>1 DEF hash_lookup, Node
  <1>2. CASE ~ Found(m, k)
    BY <1>2 DEF hash_lookup
  <1> QED
    BY <1>1, <1>2

LEMMA ResultsNext == HashInv /\ Results /\ [Next]_vars => Results'
  <1> SUFFICES ASSUME HashInv, Results, [Next]_vars PROVE Results'
    OBVIOUS
  <1>1. Sound(map)
    BY DEF HashInv
  <1>2. ASSUME NEW k \in Key, HashRemove(k) PROVE Results'
    <2>1. ret' = Found(map, k) /\ Found(map, k) \in BOOLEAN
      BY <1>2, Zenon DEF HashRemove, Found
    <2>2. aborted' = aborted
      BY <1>2 DEF HashRemove
    <2> QED
      BY <2>1, <2>2, Zenon DEF Results
  <1>3. ASSUME NEW k \in Key, HashDelInternalNode(k) PROVE Results'
    <2>1. ret' = ret /\ aborted' = aborted
      BY <1>3 DEF HashDelInternalNode
    <2> QED
      BY <2>1, Zenon DEF Results
  <1>4. ASSUME NEW k \in Key, NEW v \in Val, Link(k, v) PROVE aborted' \in BOOLEAN
    <2>1. aborted' = (map'.n_entries # Inc(map.n_entries))
      BY <1>4, Zenon DEF Link
    <2> QED
      BY <2>1, Zenon
  <1>5. ASSUME NEW k \in Key, NEW v \in Val, HashInsert(k, v) PROVE Results'
    <2>1. ret' \in Val \cup {NoVal}
      BY <1>1, <1>5, LookupType DEF HashInsert
    <2>2. aborted' = aborted \/ Link(k, v)
      BY <1>5 DEF HashInsert
    <2>3. aborted' \in BOOLEAN
      BY <2>2, <1>4, Zenon DEF Results
    <2> QED
      BY <2>1, <2>3, Zenon DEF Results
  <1>6. ASSUME NEW k \in Key, NEW v \in Val, HashOverwrite(k, v) PROVE Results'
    <2>1. ret' \in Val \cup {NoVal}
      BY <1>6 DEF HashOverwrite
    <2>2. aborted' = aborted \/ Link(k, v)
      BY <1>6 DEF HashOverwrite
    <2>3. aborted' \in BOOLEAN
      BY <2>2, <1>4, Zenon DEF Results
    <2> QED
      BY <2>1, <2>3, Zenon DEF Results
  <1>7. CASE UNCHANGED vars
    <2>1. ret' = ret /\ aborted' = aborted
      BY <1>7 DEF vars
    <2> QED
      BY <2>1, Zenon DEF Results
  <1> QED
    BY <1>2, <1>3, <1>5, <1>6, <1>7 DEF Next

LEMMA TypedState == HashInv /\ Results => TypeOK
  <1> SUFFICES ASSUME HashInv, Results PROVE TypeOK
    OBVIOUS
  <1>1. Sound(map) /\ Size(map) <= MaxSz /\ owner \in Owners
    BY DEF HashInv
  <1>2. Size(map) \in 1..MaxSz /\ DOMAIN map.table = 0..Size(map) - 1
    BY <1>1, HashAssumption DEF Sound, Table
  <1>3. \A b \in DOMAIN map.table : map.table[b] \in Seq(Node)
    BY <1>1 DEF Sound, Table
  <1>4. DOMAIN map = {"table", "n_entries", "used_buckets"}
    BY <1>1 DEF Sound
  <1>5. map.n_entries \in 0..Word - 1 /\ map.used_buckets \in 0..Word - 1
    BY <1>1 DEF Sound
  <1> QED
    BY <1>1, <1>2, <1>3, <1>4, <1>5, Zenon DEF TypeOK, Results

LEMMA ReachableState == HashInv => Reachable
  <1> SUFFICES ASSUME HashInv, NEW p \in PairsOf(map)
               PROVE  Found(map, p.key) /\ hash_lookup(map, p.key) = p.data
    BY DEF Reachable
  <1>1. Sound(map) /\ Size(map) \in Nat /\ map.table \in Table(Size(map))
    BY DEF HashInv, Sound
  <1>2. p \in Nodes(map.table) /\ p \in Node
    BY <1>1, PairsAre
  <1>3. PICK x \in Pos(map.table) : p = At(map.table, x)
    BY <1>2 DEF Nodes
  <1>4. p.key \in Key
    BY <1>2 DEF Node
  <1>5. x[1] = Bucket(map, p.key)
    BY <1>1, <1>3 DEF Sound, Homed, Bucket
  <1>6. /\ Found(map, p.key) /\ x = Spot(map, p.key)
        /\ hash_lookup(map, p.key) = At(map.table, Spot(map, p.key)).data
    BY <1>1, <1>3, <1>4, <1>5, FoundIs
  <1> QED
    BY <1>3, <1>6

LEMMA NoDuplicatesState == Fits => (HashInv => NoDuplicateKeys)
  <1> SUFFICES ASSUME Fits, HashInv PROVE NoDuplicateKeys
    OBVIOUS
  <1> DEFINE t == map.table
             P == Pos(t)
             C == {Fold[p.key] : p \in PairsOf(map)}
             g == [x \in P |-> Fold[At(t, x).key]]
  <1>1. /\ Size(map) \in Nat /\ Size(map) > 0 /\ t \in Table(Size(map))
        /\ Homed(t, Size(map)) /\ Unique(t)
    BY DEF HashInv, Sound
  <1>2. PairsOf(map) = Nodes(t)
    BY <1>1, PairsAre
  <1>3. IsFiniteSet(P) /\ Cardinality(P) = Len(hash_iterate(map))
    BY <1>1, IterateCounts
  <1>4. C = {Fold[At(t, x).key] : x \in P}
    BY <1>2 DEF Nodes
  <1>5. g \in Bijection(P, C)
    <2>1. g \in [P -> C]
      BY <1>4
    <2>2. \A x, y \in P : g[x] = g[y] => x = y
      BY <1>1, FitsOnce
    <2>3. \A c \in C : \E x \in P : g[x] = c
      BY <1>4
    <2> HIDE DEF g, C, P
    <2> QED
      BY <2>1, <2>2, <2>3, Fun_IsBij
  <1> HIDE DEF g, C, P
  <1>6. ExistsBijection(P, C)
    BY <1>5 DEF ExistsBijection
  <1>7. Cardinality(C) = Cardinality(P)
    BY <1>3, <1>6, FS_Bijection
  <1> QED
    BY <1>3, <1>7 DEF NoDuplicateKeys, C

LEMMA CountState == HashInv => SizeIsCount /\ AssertHolds
  <1> SUFFICES ASSUME HashInv PROVE SizeIsCount /\ AssertHolds
    OBVIOUS
  <1>1. Size(map) \in Nat /\ Size(map) > 0 /\ map.table \in Table(Size(map))
    BY DEF HashInv, Sound
  <1>2. Cardinality(Pos(map.table)) = Len(hash_iterate(map))
    BY <1>1, IterateCounts
  <1> QED
    BY <1>2 DEF HashInv, Counting, SizeIsCount, AssertHolds

\* hash.c's data has its types in every reachable state: a counter is a word,
\* every chain a list of nodes, and the table never empty.
THEOREM HashTyped == Spec => []TypeOK
  BY InvInit, InvNext, ResultsInit, ResultsNext, TypedState, PTL DEF Spec

\* hash_insert, hash_overwrite and hash_resize never lead to two nodes whose
\* keys compare equal.
THEOREM NoDoubles == ASSUME Fits PROVE Spec => []NoDuplicateKeys
  <1>1. HashInv => NoDuplicateKeys
    BY NoDuplicatesState
  <1> QED
    BY <1>1, InvHolds, PTL

\* hash_lookup finds every pair that hash_iterate visits, in a table that
\* has been resized, overwritten and removed from in any order.
THEOREM AllReachable == Spec => []Reachable
  BY InvHolds, ReachableState, PTL

\* hash_size of a plain map is the number of pairs that hash_iterate visits.
THEOREM SizeCounts == Spec => []SizeIsCount
  BY InvHolds, CountState, PTL

\* The assert of hash_resize never fails in a plain map.
THEOREM NeverAborts == Spec => []AssertHolds
  BY InvHolds, CountState, PTL

-----------------------------------------------------------------------------
(***************************************************************************)
(* The table implements the dictionary of hash.h.                          *)
(***************************************************************************)

\* No two nodes of N compare equal; the dictionary that such nodes make up.
OneEach(N) == \A p, q \in N : Fold[p.key] = Fold[q.key] => p = q
Classes(N) == {Fold[p.key] : p \in N}
Abs(N) == [c \in Classes(N) |-> CHOOSE p \in N : Fold[p.key] = c]

\* The nodes that compare equal to k.
Same(N, k) == {p \in N : Fold[p.key] = Fold[k]}

LEMMA AbsAt == ASSUME NEW N, OneEach(N), NEW p \in N
               PROVE  Fold[p.key] \in Classes(N) /\ Abs(N)[Fold[p.key]] = p
  <1>1. Fold[p.key] \in Classes(N)
    BY DEF Classes
  <1>2. Abs(N)[Fold[p.key]] = CHOOSE q \in N : Fold[q.key] = Fold[p.key]
    BY <1>1 DEF Abs
  <1>3. \A q \in N : Fold[q.key] = Fold[p.key] => q = p
    BY DEF OneEach
  <1> QED
    BY <1>1, <1>2, <1>3

LEMMA AbsDom == ASSUME NEW N
                PROVE  DOMAIN Abs(N) = Classes(N) /\ Abs(N) = [c \in Classes(N) |-> Abs(N)[c]]
  BY DEF Abs

\* A node takes the place of those that compare equal to it.
LEMMA AbsPut ==
    ASSUME NEW N, OneEach(N), NEW k, NEW n, n.key = k
    PROVE  LET M == (N \ Same(N, k)) \cup {n}
           IN  /\ OneEach(M)
               /\ Abs(M) = [c \in DOMAIN Abs(N) \cup {Fold[k]} |->
                              IF c = Fold[k] THEN n ELSE Abs(N)[c]]
  <1> DEFINE M == (N \ Same(N, k)) \cup {n}
             f(c) == IF c = Fold[k] THEN n ELSE Abs(N)[c]
  <1>1. OneEach(M)
    BY DEF OneEach, Same
  <1>2. Classes(M) = Classes(N) \cup {Fold[k]}
    BY DEF Classes, Same
  <1>3. \A p \in M : f(Fold[p.key]) = p
    BY AbsAt DEF Same
  <1> HIDE DEF M
  <1>4. Abs(M) = [c \in Classes(N) \cup {Fold[k]} |-> f(c)]
    <2> HIDE DEF f
    <2>1. ASSUME NEW c \in Classes(M) PROVE Abs(M)[c] = f(c)
      <3>1. PICK p \in M : c = Fold[p.key]
        BY DEF Classes
      <3> QED
        BY <3>1, <1>1, <1>3, AbsAt
    <2>2. Abs(M) = [c \in Classes(M) |-> Abs(M)[c]]
      BY AbsDom
    <2> QED
      BY <2>1, <2>2, <1>2
  <1> QED
    BY <1>1, <1>4, AbsDom DEF M

\* The nodes that compare equal to k go.
LEMMA AbsDrop ==
    ASSUME NEW N, OneEach(N), NEW k
    PROVE  LET M == N \ Same(N, k)
           IN  Abs(M) = [c \in DOMAIN Abs(N) \ {Fold[k]} |-> Abs(N)[c]]
  <1> DEFINE M == N \ Same(N, k)
  <1>1. OneEach(M)
    BY DEF OneEach
  <1>2. Classes(M) = Classes(N) \ {Fold[k]}
    BY DEF Classes, Same
  <1>3. \A p \in M : Abs(N)[Fold[p.key]] = p
    BY AbsAt
  <1> HIDE DEF M
  <1>4. ASSUME NEW c \in Classes(M) PROVE Abs(M)[c] = Abs(N)[c]
    <2>1. PICK p \in M : c = Fold[p.key]
      BY DEF Classes
    <2> QED
      BY <2>1, <1>1, <1>3, AbsAt
  <1>5. Abs(M) = [c \in Classes(M) |-> Abs(M)[c]]
    BY AbsDom
  <1> QED
    BY <1>2, <1>4, <1>5, AbsDom DEF M

\* The node that a lookup finds is the one that compares equal.
LEMMA SameIs ==
    ASSUME NEW m, Sound(m), Fits, NEW k \in Key
    PROVE  LET N == Nodes(m.table)
           IN  /\ OneEach(N)
               /\ Found(m, k) <=> Fold[k] \in DOMAIN Abs(N)
               /\ Found(m, k) => /\ Same(N, k) = {At(m.table, Spot(m, k))}
                                 /\ Abs(N)[Fold[k]].data = hash_lookup(m, k)
               /\ ~ Found(m, k) => Same(N, k) = {}
  <1> DEFINE N == Nodes(m.table)
             n == At(m.table, Spot(m, k))
  <1>1. OneEach(N)
    <2>1. Size(m) \in Nat /\ m.table \in Table(Size(m)) /\ Homed(m.table, Size(m))
          /\ Unique(m.table)
      BY DEF Sound
    <2> QED
      BY <2>1, FitsOnce DEF Nodes, OneEach
  <1>2. Found(m, k) <=> \E p \in N : Fold[p.key] = Fold[k]
    BY FoundFits
  <1>3. Found(m, k) => n \in N /\ Fold[n.key] = Fold[k] /\ hash_lookup(m, k) = n.data
    BY FoundIs DEF Nodes
  <1> HIDE DEF N, n
  <1>4. Found(m, k) <=> Fold[k] \in DOMAIN Abs(N)
    <2>1. DOMAIN Abs(N) = Classes(N)
      BY AbsDom
    <2>2. Fold[k] \in Classes(N) <=> \E p \in N : Fold[p.key] = Fold[k]
      BY DEF Classes
    <2> QED
      BY <1>2, <2>1, <2>2
  <1>5. Found(m, k) => Same(N, k) = {n}
    BY <1>1, <1>3 DEF Same, OneEach
  <1>6. ~ Found(m, k) => Same(N, k) = {}
    BY <1>2 DEF Same
  <1>7. Found(m, k) => Abs(N)[Fold[k]].data = hash_lookup(m, k)
    BY <1>1, <1>3, AbsAt
  <1> QED
    BY <1>1, <1>4, <1>5, <1>6, <1>7 DEF N, n

\* The dictionary that the table stands for.
dictOf == [c \in {Fold[p.key] : p \in PairsOf(map)} |->
             CHOOSE p \in PairsOf(map) : Fold[p.key] = c]

LEMMA DictIs == HashInv => dictOf = Abs(Nodes(map.table))
  <1> SUFFICES ASSUME HashInv PROVE dictOf = Abs(Nodes(map.table))
    OBVIOUS
  <1>1. Size(map) \in Nat /\ map.table \in Table(Size(map))
    BY DEF HashInv, Sound
  <1>2. PairsOf(map) = Nodes(map.table)
    BY <1>1, PairsAre
  <1> QED
    BY <1>2 DEF dictOf, Abs, Classes

\* What a key stands for before a call, and the dictionary after it.
LEMMA DictPut ==
    ASSUME HashInv, Fits, NEW k \in Key, NEW v \in Val,
           Nodes(map'.table) = (IF Found(map, k)
                                THEN Nodes(map.table) \ {At(map.table, Spot(map, k))}
                                ELSE Nodes(map.table)) \cup {[key |-> k, data |-> v]},
           HashInv'
    PROVE  dictOf' = [c \in DOMAIN dictOf \cup {Fold[k]} |->
                        IF c = Fold[k] THEN [key |-> k, data |-> v] ELSE dictOf[c]]
  <1> DEFINE N == Nodes(map.table)
             n == [key |-> k, data |-> v]
             M == (N \ Same(N, k)) \cup {n}
  <1>1. dictOf = Abs(N) /\ dictOf' = Abs(Nodes(map'.table))
    <2>1. dictOf = Abs(N)
      BY DictIs
    <2>2. (dictOf = Abs(Nodes(map.table)))'
      BY DictIs, PTL
    <2> QED
      BY <2>1, <2>2
  <1>2. Sound(map)
    BY DEF HashInv
  <1>3. /\ OneEach(N)
        /\ Found(map, k) => Same(N, k) = {At(map.table, Spot(map, k))}
        /\ ~ Found(map, k) => Same(N, k) = {}
    BY <1>2, SameIs
  <1>4. Nodes(map'.table) = M
    <2> HIDE DEF N
    <2>1. CASE Found(map, k)
      BY <2>1, <1>3 DEF N
    <2>2. CASE ~ Found(map, k)
      <3>1. N \ Same(N, k) = N
        BY <2>2, <1>3
      <3> QED
        BY <2>2, <3>1 DEF N
    <2> QED
      BY <2>1, <2>2
  <1> HIDE DEF N
  <1>5. n.key = k
    OBVIOUS
  <1>6. Abs(M) = [c \in DOMAIN Abs(N) \cup {Fold[k]} |->
                    IF c = Fold[k] THEN n ELSE Abs(N)[c]]
    <2> HIDE DEF n
    <2> QED
      BY <1>3, <1>5, AbsPut
  <1> HIDE DEF M
  <1> QED
    BY <1>1, <1>4, <1>6

LEMMA DictDrop ==
    ASSUME HashInv, Fits, NEW k \in Key,
           Nodes(map'.table) = IF Found(map, k)
                               THEN Nodes(map.table) \ {At(map.table, Spot(map, k))}
                               ELSE Nodes(map.table),
           HashInv'
    PROVE  dictOf' = [c \in DOMAIN dictOf \ {Fold[k]} |-> dictOf[c]]
  <1> DEFINE N == Nodes(map.table)
             M == N \ Same(N, k)
  <1>1. dictOf = Abs(N) /\ dictOf' = Abs(Nodes(map'.table))
    <2>1. dictOf = Abs(N)
      BY DictIs
    <2>2. (dictOf = Abs(Nodes(map.table)))'
      BY DictIs, PTL
    <2> QED
      BY <2>1, <2>2
  <1>2. Sound(map)
    BY DEF HashInv
  <1>3. /\ OneEach(N)
        /\ Found(map, k) => Same(N, k) = {At(map.table, Spot(map, k))}
        /\ ~ Found(map, k) => Same(N, k) = {}
    BY <1>2, SameIs
  <1>4. Nodes(map'.table) = M
    <2> HIDE DEF N
    <2>1. CASE Found(map, k)
      BY <2>1, <1>3 DEF N
    <2>2. CASE ~ Found(map, k)
      <3>1. N \ Same(N, k) = N
        BY <2>2, <1>3
      <3> QED
        BY <2>2, <3>1 DEF N
    <2> QED
      BY <2>1, <2>2
  <1> HIDE DEF N
  <1>5. Abs(M) = [c \in DOMAIN Abs(N) \ {Fold[k]} |-> Abs(N)[c]]
    BY <1>3, AbsDrop
  <1> HIDE DEF M
  <1> QED
    BY <1>1, <1>4, <1>5

\* What a lookup says of the dictionary.
LEMMA DictFound ==
    ASSUME HashInv, Fits, NEW k \in Key
    PROVE  /\ Found(map, k) <=> Fold[k] \in DOMAIN dictOf
           /\ Found(map, k) => dictOf[Fold[k]].data = hash_lookup(map, k)
           /\ ~ Found(map, k) => hash_lookup(map, k) = NoVal
  <1>1. dictOf = Abs(Nodes(map.table)) /\ Sound(map)
    BY DictIs DEF HashInv
  <1>2. /\ Found(map, k) <=> Fold[k] \in DOMAIN Abs(Nodes(map.table))
        /\ Found(map, k) => Abs(Nodes(map.table))[Fold[k]].data = hash_lookup(map, k)
    BY <1>1, SameIs
  <1>3. ~ Found(map, k) => hash_lookup(map, k) = NoVal
    BY DEF hash_lookup
  <1> QED
    BY <1>1, <1>2, <1>3

LEMMA InsertIs ==
    ASSUME HashInv, Fits, NEW k \in Key, NEW v \in Val, HashInsert(k, v), owner' = owner
    PROVE  D!Insert(k, v)
  <1>1. /\ HashInv'
        /\ Nodes(map'.table) = IF Found(map, k) THEN Nodes(map.table)
                               ELSE Nodes(map.table) \cup {[key |-> k, data |-> v]}
    BY InsertInv
  <1>2. /\ Found(map, k) <=> Fold[k] \in DOMAIN dictOf
        /\ Found(map, k) => dictOf[Fold[k]].data = hash_lookup(map, k)
        /\ ~ Found(map, k) => hash_lookup(map, k) = NoVal
    BY DictFound
  <1>3. ret' = hash_lookup(map, k)
    BY DEF HashInsert
  <1>4. CASE Found(map, k)
    <2>1. map' = map
      BY <1>4 DEF HashInsert
    <2>2. dictOf' = dictOf
      BY <2>1 DEF dictOf, PairsOf
    <2> QED
      BY <1>2, <1>3, <1>4, <2>2 DEF D!Insert, dictOf
  <1>5. CASE ~ Found(map, k)
    <2>1. dictOf' = [c \in DOMAIN dictOf \cup {Fold[k]} |->
                       IF c = Fold[k] THEN [key |-> k, data |-> v] ELSE dictOf[c]]
      BY <1>1, <1>5, DictPut
    <2>2. D!Put(k, v)
      BY <2>1 DEF D!Put, D!Pair, dictOf
    <2> QED
      BY <1>2, <1>3, <1>5, <2>2 DEF D!Insert, dictOf
  <1> QED
    BY <1>4, <1>5

LEMMA OverwriteIs ==
    ASSUME HashInv, Fits, NEW k \in Key, NEW v \in Val, HashOverwrite(k, v), owner' = owner
    PROVE  D!Overwrite(k, v)
  <1>1. dictOf' = [c \in DOMAIN dictOf \cup {Fold[k]} |->
                     IF c = Fold[k] THEN [key |-> k, data |-> v] ELSE dictOf[c]]
    BY OverwriteInv, DictPut
  <1>2. ret' = NoVal
    BY DEF HashOverwrite
  <1> QED
    BY <1>1, <1>2 DEF D!Overwrite, D!Put, D!Pair, dictOf

LEMMA RemoveIs ==
    ASSUME HashInv, Fits, NEW k \in Key, HashRemove(k), owner' = owner
    PROVE  D!Remove(k)
  <1>1. dictOf' = [c \in DOMAIN dictOf \ {Fold[k]} |-> dictOf[c]]
    BY RemoveInv, DictDrop
  <1>2. Found(map, k) <=> Fold[k] \in DOMAIN dictOf
    BY DictFound
  <1>3. ret' = (Find(map, k) # 0)
    BY Zenon DEF HashRemove, Found
  <1>5. (Find(map, k) # 0) = (Fold[k] \in DOMAIN dictOf)
    <2>1. (Find(map, k) # 0) <=> (Fold[k] \in DOMAIN dictOf)
      BY <1>2 DEF Found
    <2> QED
      BY <2>1
  <1>6. ret' = (Fold[k] \in DOMAIN dictOf)
    BY <1>3, <1>5, Zenon
  <1> QED
    BY <1>1, <1>6, Zenon DEF D!Remove, dictOf

LEMMA DiscardIs ==
    ASSUME HashInv, Fits, NEW k \in Key, HashDelInternalNode(k), owner' = owner
    PROVE  D!Discard(k)
  <1>1. dictOf' = [c \in DOMAIN dictOf \ {Fold[k]} |-> dictOf[c]]
    <2>1. /\ HashInv' /\ Found(map, k)
          /\ Nodes(map'.table) = Nodes(map.table) \ {At(map.table, Spot(map, k))}
      BY DelInternalInv
    <2> QED
      BY <2>1, DictDrop
  <1>2. ret' = ret
    BY DEF HashDelInternalNode
  <1> QED
    BY <1>1, <1>2 DEF D!Discard, dictOf

\* Each call does to the dictionary what the call of that name does.
CallsAgree ==
    \A k \in Key :
        /\ HashRemove(k) => D!Remove(k)
        /\ HashDelInternalNode(k) => D!Discard(k)
        /\ \A v \in Val : /\ HashInsert(k, v) => D!Insert(k, v)
                          /\ HashOverwrite(k, v) => D!Overwrite(k, v)

LEMMA CallStep == ASSUME Fits, HashInv, Next PROVE CallsAgree /\ D!Next
  <1>1. owner' = owner
    BY DEF Next
  <1>2. CallsAgree
    BY <1>1, InsertIs, OverwriteIs, RemoveIs, DiscardIs DEF CallsAgree
  <1>3. PICK k \in Key : \/ HashRemove(k)
                         \/ HashDelInternalNode(k)
                         \/ \E v \in Val : HashInsert(k, v) \/ HashOverwrite(k, v)
    BY DEF Next
  <1>4. \/ D!Remove(k) \/ D!Discard(k)
        \/ \E v \in Val : D!Insert(k, v) \/ D!Overwrite(k, v)
    BY <1>2, <1>3 DEF CallsAgree
  <1>5. D!Next
    BY <1>4 DEF D!Next
  <1> QED
    BY <1>2, <1>5

LEMMA DictInit == Init => D!Init
  <1> SUFFICES ASSUME Init PROVE D!Init
    OBVIOUS
  <1> DEFINE sz == IF InitSz = 0 THEN 1 ELSE InitSz
  <1>1. sz \in Nat /\ sz > 0
    BY HashAssumption
  <1>2. map = Empty(sz) /\ ret = NoVal
    BY DEF Init
  <1> HIDE DEF sz
  <1>3. Sound(map) /\ Nodes(map.table) = {}
    BY <1>1, <1>2, EmptyIs
  <1>4. PairsOf(map) = {}
    BY <1>3, PairsAre DEF Sound
  <1>5. dictOf = [c \in {} |-> CHOOSE p \in {} : Fold[p.key] = c]
    BY <1>4 DEF dictOf
  <1>6. dictOf = <<>>
    BY <1>5
  <1> QED
    BY <1>2, <1>6 DEF D!Init, dictOf

\* A hash table whose hash and compare functions fit implements the dictionary
\* that hash.h describes: step by step, and each call the call of that name.
THEOREM TableIsDict == ASSUME Fits PROVE Spec => ImplementsDict
  <1>1. Spec => []HashInv
    BY InvHolds
  <1>2. Init => D!Init
    BY DictInit
  <1>3. HashInv /\ [Next]_vars => [D!Next]_<<dictOf, ret>>
    <2> SUFFICES ASSUME HashInv, [Next]_vars PROVE [D!Next]_<<dictOf, ret>>
      OBVIOUS
    <2>1. CASE UNCHANGED vars
      BY <2>1 DEF vars, dictOf, PairsOf
    <2> QED
      BY <2>1, CallStep
  <1>4. HashInv /\ [Next]_vars => [CallsAgree]_vars
    BY CallStep
  <1>5. Spec => D!Spec
    BY <1>1, <1>2, <1>3, PTL DEF Spec, D!Spec, dictOf
  <1>6. Spec => [][CallsAgree]_vars
    BY <1>1, <1>4, PTL DEF Spec
  <1> QED
    BY <1>5, <1>6, PTL DEF ImplementsDict, CallsAgree

-----------------------------------------------------------------------------
(***************************************************************************)
(* hash_dup: the copy after the first so many nodes.                       *)
(***************************************************************************)

Copied(copy, n) == IF Found(copy, n.key) THEN copy ELSE InsertNew(copy, n.key, n.data)

LEMMA Greatest ==
    ASSUME NEW n \in Nat, NEW X \in SUBSET (1..n), X # {}
    PROVE  Max(X) \in X /\ \A y \in X : Max(X) >= y
  <1> DEFINE G == {b \in Nat : \A y \in X : b >= y}
  <1>1. n \in G
    OBVIOUS
  <1>2. PICK b \in G : \A c \in G : b <= c
    <2>1. G \in SUBSET Nat /\ G # {}
      BY <1>1
    <2> HIDE DEF G
    <2> QED
      BY <2>1, Least
  <1>3. b \in X
    <2> SUFFICES ASSUME b \notin X PROVE FALSE
      OBVIOUS
    <2>1. \A y \in X : y \in Nat /\ b >= y /\ b # y /\ y >= 1
      BY <1>2
    <2>2. b - 1 \in Nat /\ \A y \in X : b - 1 >= y
      <3>1. PICK y \in X : TRUE
        OBVIOUS
      <3> QED
        BY <2>1, <3>1, <1>2
    <2>3. b - 1 \in G
      BY <2>2
    <2> QED
      BY <2>3, <1>2
  <1>4. \A y \in X : b >= y
    BY <1>2
  <1> HIDE DEF G
  <1> QED
    BY <1>3, <1>4 DEF Max

\* What FoldLeft computes, for the sets of up to n indices.
FoldsUpTo(f, s, base, n) ==
    /\ f = [X \in SUBSET (1..Len(s)) |-> f[X]]
    /\ \A X \in SUBSET (1..Len(s)) : Cardinality(X) <= n =>
          f[X] = IF X = {} THEN base ELSE Copied(f[X \ {Max(X)}], s[Max(X)])

Folds(f, s, base) ==
    f = [X \in SUBSET (1..Len(s)) |->
           IF X = {} THEN base ELSE Copied(f[X \ {Max(X)}], s[Max(X)])]

LEMMA FoldExists == ASSUME NEW s \in Seq(Node), NEW base PROVE \E f : Folds(f, s, base)
  <1> DEFINE U == 1..Len(s)
             T == {n \in Nat : \E f : FoldsUpTo(f, s, base, n)}
  <1>1. Len(s) \in Nat
    BY LenProperties
  <1>2. ASSUME NEW X \in SUBSET U
        PROVE  /\ IsFiniteSet(X) /\ Cardinality(X) \in Nat /\ Cardinality(X) <= Len(s)
               /\ Cardinality(X) = 0 <=> X = {}
    <2>1. IsFiniteSet(U) /\ Cardinality(U) = Len(s)
      BY <1>1, UpToCard
    <2> HIDE DEF U
    <2>2. IsFiniteSet(X) /\ Cardinality(X) <= Cardinality(U)
      BY <2>1, FS_Subset
    <2>3. Cardinality(X) \in Nat
      BY <2>2, FS_CardinalityType
    <2>4. Cardinality(X) = 0 <=> X = {}
      BY <2>2, FS_EmptySet
    <2> QED
      BY <2>1, <2>2, <2>3, <2>4
  <1>3. ASSUME NEW X \in SUBSET U, X # {}
        PROVE  /\ X \ {Max(X)} \in SUBSET U
               /\ Cardinality(X) > 0 /\ Cardinality(X \ {Max(X)}) = Cardinality(X) - 1
    <2>1. Max(X) \in X
      BY <1>1, <1>3, Greatest
    <2>2. IsFiniteSet(X) /\ Cardinality(X) \in Nat
      BY <1>2
    <2>3. Cardinality(X) # 0
      BY <1>2, <1>3
    <2>4. Cardinality(X \ {Max(X)}) = Cardinality(X) - 1
      BY <2>1, <2>2, FS_RemoveElement
    <2>5. X \ {Max(X)} \in SUBSET U
      OBVIOUS
    <2> QED
      BY <2>2, <2>3, <2>4, <2>5
  <1>4. 0 \in T
    <2> DEFINE f == [X \in SUBSET U |-> base]
    <2>1. \A X \in SUBSET U : Cardinality(X) <= 0 => X = {}
      <3> HIDE DEF U
      <3> QED
        BY <1>2
    <2>2. FoldsUpTo(f, s, base, 0)
      BY <2>1 DEF FoldsUpTo
    <2> QED
      BY <2>2
  <1>5. ASSUME NEW n \in Nat, n \in T PROVE n + 1 \in T
    <2>1. PICK f : FoldsUpTo(f, s, base, n)
      BY <1>5
    <2> DEFINE nxt(X) == Copied(f[X \ {Max(X)}], s[Max(X)])
               g == [X \in SUBSET U |-> IF Cardinality(X) <= n THEN f[X] ELSE nxt(X)]
    <2>2. ASSUME NEW X \in SUBSET U, Cardinality(X) <= n + 1
          PROVE  g[X] = IF X = {} THEN base ELSE Copied(g[X \ {Max(X)}], s[Max(X)])
      <3>1. X # {} => g[X \ {Max(X)}] = f[X \ {Max(X)}]
        <4> SUFFICES ASSUME X # {} PROVE g[X \ {Max(X)}] = f[X \ {Max(X)}]
          OBVIOUS
        <4> DEFINE Y == X \ {Max(X)}
        <4>1. Y \in SUBSET U /\ Cardinality(Y) = Cardinality(X) - 1
          BY <1>3
        <4>2. Cardinality(X) \in Nat
          BY <1>2
        <4> HIDE DEF Y
        <4>3. Cardinality(Y) <= n
          BY <4>1, <4>2, <2>2
        <4>4. g[Y] = f[Y]
          BY <4>1, <4>3
        <4> QED
          BY <4>4 DEF Y
      <3>2. CASE Cardinality(X) <= n
        <4>1. g[X] = f[X]
          BY <3>2
        <4>2. f[X] = IF X = {} THEN base ELSE Copied(f[X \ {Max(X)}], s[Max(X)])
          BY <2>1, <3>2 DEF FoldsUpTo
        <4> HIDE DEF g
        <4> QED
          BY <4>1, <4>2, <3>1
      <3>3. CASE ~ (Cardinality(X) <= n)
        <4>1. g[X] = Copied(f[X \ {Max(X)}], s[Max(X)])
          BY <3>3
        <4>2. X # {}
          <5>1. Cardinality(X) # 0
            BY <3>3
          <5> QED
            BY <5>1, <1>2
        <4> HIDE DEF g
        <4> QED
          BY <4>1, <4>2, <3>1
      <3> QED
        BY <3>2, <3>3
    <2>3. g = [X \in SUBSET U |-> g[X]]
      OBVIOUS
    <2> HIDE DEF g
    <2>4. FoldsUpTo(g, s, base, n + 1)
      BY <2>2, <2>3 DEF FoldsUpTo
    <2> QED
      BY <2>4
  <1>6. Len(s) \in T
    <2> HIDE DEF T
    <2> QED
      BY <1>1, <1>4, <1>5, Induct
  <1>7. PICK f : FoldsUpTo(f, s, base, Len(s))
    BY <1>6
  <1>8. \A X \in SUBSET U :
           f[X] = IF X = {} THEN base ELSE Copied(f[X \ {Max(X)}], s[Max(X)])
    BY <1>2, <1>7 DEF FoldsUpTo
  <1>9. f = [X \in SUBSET U |-> f[X]]
    BY <1>7 DEF FoldsUpTo
  <1>10. f = [X \in SUBSET U |->
               IF X = {} THEN base ELSE Copied(f[X \ {Max(X)}], s[Max(X)])]
    BY <1>8, <1>9
  <1> QED
    BY <1>10 DEF Folds

\* The fold of s takes its elements one by one, from the first to the last.
LEMMA FoldSteps ==
    ASSUME NEW s \in Seq(Node), NEW base
    PROVE  \E f : /\ f[{}] = base
                  /\ \A j \in 0..Len(s) - 1 : f[1..j + 1] = Copied(f[1..j], s[j + 1])
                  /\ f[1..Len(s)] =
                       FoldLeft(LAMBDA copy, n : IF Found(copy, n.key) THEN copy
                                                 ELSE InsertNew(copy, n.key, n.data),
                                base, s)
  <1> DEFINE F == CHOOSE f : Folds(f, s, base)
  <1>1. Len(s) \in Nat /\ DOMAIN s = 1..Len(s)
    BY LenProperties
  <1>2. Folds(F, s, base)
    BY FoldExists
  <1>3. F[1..Len(s)] = FoldLeft(LAMBDA copy, n : IF Found(copy, n.key) THEN copy
                                                 ELSE InsertNew(copy, n.key, n.data),
                                base, s)
    BY <1>1 DEF FoldLeft, MapThenFoldSet, Copied, Folds
  <1> HIDE DEF F
  <1>4. \A X \in SUBSET (1..Len(s)) :
           F[X] = IF X = {} THEN base ELSE Copied(F[X \ {Max(X)}], s[Max(X)])
    BY <1>2 DEF Folds
  <1>5. F[{}] = base
    BY <1>4
  <1>6. ASSUME NEW j \in 0..Len(s) - 1 PROVE F[1..j + 1] = Copied(F[1..j], s[j + 1])
    <2> DEFINE X == 1..j + 1
    <2>1. X \in SUBSET (1..Len(s)) /\ j + 1 \in X /\ \A y \in X : y <= j + 1
      BY <1>1
    <2>2. X \ {j + 1} = 1..j
      BY <1>1
    <2> HIDE DEF X
    <2>3. Max(X) \in X /\ \A y \in X : Max(X) >= y
      BY <2>1, <1>1, Greatest
    <2>4. Max(X) = j + 1
      <3>1. Max(X) >= j + 1 /\ Max(X) <= j + 1 /\ Max(X) \in 1..Len(s)
        BY <2>1, <2>3
      <3>2. Max(X) \in Int /\ j + 1 \in Int
        BY <3>1, <1>1
      <3> QED
        BY <3>1, <3>2
    <2>5. F[X] = Copied(F[X \ {j + 1}], s[j + 1])
      BY <2>1, <2>4, <1>4
    <2> QED
      BY <2>2, <2>5 DEF X
  <1> QED
    BY <1>3, <1>5, <1>6

\* Nodes that sz buckets can hold: what compares equal goes into different ones.
Apart(s, sz) ==
    \A x, y \in 1..Len(s) :
        /\ HashOf[s[x].key] % sz = HashOf[s[y].key] % sz
        /\ Fold[s[x].key] = Fold[s[y].key]
        => x = y

\* What the copy is after j nodes.
CopyOf(copy, s, j, sz) ==
    /\ Sound(copy)
    /\ Divides(sz, Size(copy))
    /\ Nodes(copy.table) = {s[i] : i \in 1..j}
    /\ Cardinality(Pos(copy.table)) = j
    /\ copy.n_entries = j
    /\ copy.used_buckets = Used(copy.table)

LEMMA CopyStep ==
    ASSUME NEW s \in Seq(Node), NEW sz \in Nat, sz > 0, Apart(s, sz),
           NEW j \in 0..Len(s) - 1, NEW copy, CopyOf(copy, s, j, sz)
    PROVE  CopyOf(Copied(copy, s[j + 1]), s, j + 1, sz)
  <1> DEFINE p == s[j + 1]
             k == p.key
             v == p.data
             l == InsertNew(copy, k, v)
             n == Cardinality(Pos(copy.table)) + 1
  <1>1. Len(s) \in Nat /\ j \in Nat /\ j + 1 \in 1..Len(s)
    BY LenProperties
  <1>2. p \in Node
    BY <1>1
  <1>3. p.key \in Key /\ p.data \in Val /\ p = [key |-> p.key, data |-> p.data]
    BY <1>2 DEF Node
  <1>4. /\ Sound(copy) /\ Nodes(copy.table) = {s[i] : i \in 1..j}
        /\ Cardinality(Pos(copy.table)) = j
        /\ copy.n_entries = j /\ copy.used_buckets = Used(copy.table)
    BY DEF CopyOf
  <1>5. Divides(sz, Size(copy))
    BY DEF CopyOf
  <1>6. ~ Found(copy, p.key)
    <2> SUFFICES ASSUME Found(copy, p.key) PROVE FALSE
      OBVIOUS
    <2> DEFINE x == Spot(copy, p.key)
    <2>1. /\ x \in Pos(copy.table) /\ x[1] = Bucket(copy, p.key)
          /\ Fold[At(copy.table, x).key] = Fold[p.key]
      BY <1>3, <1>4, FoundIs
    <2>2. PICK i \in 1..j : At(copy.table, x) = s[i]
      <3>1. At(copy.table, x) \in Nodes(copy.table)
        BY <2>1 DEF Nodes
      <3> QED
        BY <3>1, <1>4
    <2>3. HashOf[s[i].key] % Size(copy) = HashOf[p.key] % Size(copy)
      BY <2>1, <2>2, <1>4 DEF Sound, Homed, Bucket
    <2>4. s[i] \in Node /\ i \in 1..Len(s) /\ i # j + 1
      BY <1>1
    <2>5. HashOf[s[i].key] \in Nat /\ HashOf[p.key] \in Nat
      BY <2>4, <1>2, HashNat
    <2>6. HashOf[s[i].key] % sz = HashOf[p.key] % sz
      <3> DEFINE a == HashOf[s[i].key]
                 b == HashOf[p.key]
                 N == Size(copy)
      <3>1. a \in Nat /\ b \in Nat /\ a % N = b % N /\ Divides(sz, N)
        BY <2>3, <2>5, <1>5
      <3> HIDE DEF a, b, N
      <3>2. a % sz = b % sz
        BY <3>1, ModSame
      <3> QED
        BY <3>2 DEF a, b
    <2> QED
      BY <2>1, <2>2, <2>4, <2>6, <1>1 DEF Apart
  <1> HIDE DEF p
  <1>7. k \in Key /\ v \in Val /\ [key |-> k, data |-> v] = p /\ ~ Found(copy, k)
    BY <1>3, <1>6
  <1>8. Copied(copy, p) = l
    BY <1>6 DEF Copied
  <1> HIDE DEF k, v
  <1>9. /\ Sound(l) /\ Size(l) \in {Size(copy), 2 * Size(copy)}
        /\ Nodes(l.table) = Nodes(copy.table) \cup {[key |-> k, data |-> v]}
        /\ n < Word /\ Cardinality(Pos(l.table)) = n
        /\ l.n_entries \in {Inc(copy.n_entries), n}
        /\ copy.used_buckets = Used(copy.table) => l.used_buckets = Used(l.table)
    BY <1>4, <1>7, InsertNewIs
  <1> HIDE DEF l
  <1>10. n = j + 1
    BY <1>4
  <1>11. Inc(j) = j + 1
    <2>1. j \in 0..Word - 1
      BY <1>4 DEF Sound
    <2> QED
      BY <2>1, <1>9, <1>10, IncType
  <1>12. Nodes(l.table) = {s[i] : i \in 1..j + 1}
    <2>1. Nodes(l.table) = {s[i] : i \in 1..j} \cup {s[j + 1]}
      BY <1>4, <1>7, <1>9 DEF p
    <2>2. 1..j + 1 = (1..j) \cup {j + 1}
      BY <1>1
    <2> QED
      BY <2>1, <2>2
  <1>13. Divides(sz, Size(l))
    <2>1. Size(copy) \in Nat
      BY <1>4 DEF Sound
    <2> QED
      BY <2>1, <1>5, <1>9, DividesDouble
  <1>14. CopyOf(l, s, j + 1, sz)
    BY <1>4, <1>9, <1>10, <1>11, <1>12, <1>13 DEF CopyOf
  <1> QED
    BY <1>8, <1>14 DEF p

LEMMA CopiesAll ==
    ASSUME NEW s \in Seq(Node), NEW sz \in Nat, sz > 0, Apart(s, sz)
    PROVE  CopyOf(FoldLeft(LAMBDA copy, n : IF Found(copy, n.key) THEN copy
                                            ELSE InsertNew(copy, n.key, n.data),
                           Empty(sz), s), s, Len(s), sz)
  <1> DEFINE r == FoldLeft(LAMBDA copy, n : IF Found(copy, n.key) THEN copy
                                            ELSE InsertNew(copy, n.key, n.data),
                           Empty(sz), s)
  <1>0. \E f : /\ f[{}] = Empty(sz)
               /\ \A j \in 0..Len(s) - 1 : f[1..j + 1] = Copied(f[1..j], s[j + 1])
               /\ f[1..Len(s)] = r
    BY FoldSteps
  <1> HIDE DEF r
  <1>1. PICK f : /\ f[{}] = Empty(sz)
                 /\ \A j \in 0..Len(s) - 1 : f[1..j + 1] = Copied(f[1..j], s[j + 1])
                 /\ f[1..Len(s)] = r
    BY <1>0
  <1> DEFINE T == {j \in Nat : j <= Len(s) => CopyOf(f[1..j], s, j, sz)}
  <1>2. Len(s) \in Nat
    BY LenProperties
  <1>3. 0 \in T
    <2>1. 1..0 = {}
      OBVIOUS
    <2>2. f[1..0] = Empty(sz)
      BY <1>1, <2>1
    <2>3. /\ Sound(Empty(sz)) /\ Empty(sz).n_entries = 0 /\ Empty(sz).used_buckets = 0
          /\ Pos(Empty(sz).table) = {} /\ Nodes(Empty(sz).table) = {}
          /\ Used(Empty(sz).table) = 0 /\ Size(Empty(sz)) = sz
      BY EmptyIs
    <2>4. Cardinality(Pos(Empty(sz).table)) = 0
      BY <2>3, FS_EmptySet
    <2>5. Divides(sz, Size(Empty(sz)))
      BY <2>3, DividesDouble
    <2>6. CopyOf(f[1..0], s, 0, sz)
      BY <2>1, <2>2, <2>3, <2>4, <2>5 DEF CopyOf
    <2> QED
      BY <2>6
  <1>4. ASSUME NEW j \in Nat, j \in T PROVE j + 1 \in T
    <2> SUFFICES ASSUME j + 1 <= Len(s) PROVE CopyOf(f[1..j + 1], s, j + 1, sz)
      OBVIOUS
    <2>1. j \in 0..Len(s) - 1 /\ j <= Len(s)
      BY <1>2
    <2>2. CopyOf(f[1..j], s, j, sz)
      BY <2>1, <1>4
    <2>3. CopyOf(Copied(f[1..j], s[j + 1]), s, j + 1, sz)
      BY <2>1, <2>2, CopyStep
    <2> QED
      BY <2>1, <2>3, <1>1
  <1>5. Len(s) \in T
    <2> HIDE DEF T
    <2> QED
      BY <1>2, <1>3, <1>4, Induct
  <1>6. CopyOf(r, s, Len(s), sz)
    BY <1>1, <1>2, <1>5
  <1> QED
    BY <1>6 DEF r

LEMMA CopyState == HashInv => DupIsCopy
  <1> SUFFICES ASSUME HashInv PROVE DupIsCopy
    OBVIOUS
  <1> DEFINE s == hash_iterate(map)
             t == map.table
             sz == Size(map)
             copy == hash_dup(map)
  <1>1. Size(map) \in Nat /\ Size(map) > 0 /\ t \in Table(Size(map))
        /\ Homed(t, Size(map)) /\ Unique(t)
    BY DEF HashInv, Sound
  <1>2. s \in Seq(Node) /\ Lists(s, t, Pos(t))
    BY <1>1, IterateLists
  <1>3. PICK h \in Bijection(1..Len(s), Pos(t)) : \A x \in 1..Len(s) : s[x] = At(t, h[x])
    BY <1>2 DEF Lists
  <1> HIDE DEF s
  <1>4. /\ h \in [1..Len(s) -> Pos(t)]
        /\ \A x, y \in 1..Len(s) : h[x] = h[y] => x = y
        /\ \A p \in Pos(t) : \E x \in 1..Len(s) : h[x] = p
    <2> HIDE DEF t
    <2> QED
      BY <1>3, Fun_BijectionProperties
  <1>5. Apart(s, sz) /\ \A x, y \in 1..Len(s) : s[x] = s[y] => x = y
    <2>1. ASSUME NEW x \in 1..Len(s) PROVE HashOf[s[x].key] % sz = h[x][1]
      BY <1>1, <1>3, <1>4 DEF Homed
    <2>2. Apart(s, sz)
      BY <2>1, <1>1, <1>3, <1>4 DEF Unique, Apart
    <2> QED
      BY <2>2 DEF Apart
  <1>6. copy = FoldLeft(LAMBDA c, n : IF Found(c, n.key) THEN c
                                      ELSE InsertNew(c, n.key, n.data),
                        Empty(Size(map)), s)
    BY DEF hash_dup, s
  <1> HIDE DEF copy
  <1>7. CopyOf(copy, s, Len(s), sz)
    BY <1>1, <1>2, <1>5, <1>6, CopiesAll
  <1>8. Nodes(t) = {s[i] : i \in 1..Len(s)}
    BY <1>3, <1>4 DEF Nodes
  <1>9. /\ Sound(copy) /\ Nodes(copy.table) = Nodes(t)
        /\ copy.n_entries = Len(s) /\ copy.used_buckets = Used(copy.table)
    BY <1>7, <1>8 DEF CopyOf
  <1>10. PairsOf(map) = Nodes(t) /\ PairsOf(copy) = Nodes(t)
    BY <1>1, <1>9, PairsAre DEF Sound
  <1>11. Cardinality(Nodes(t)) = Len(s)
    <2> DEFINE g == [x \in 1..Len(s) |-> s[x]]
    <2>1. Len(s) \in Nat
      BY <1>2, LenProperties
    <2>2. IsFiniteSet(1..Len(s)) /\ Cardinality(1..Len(s)) = Len(s)
      BY <2>1, UpToCard
    <2>3. /\ g \in [1..Len(s) -> Nodes(t)]
          /\ \A x, y \in 1..Len(s) : g[x] = g[y] => x = y
          /\ \A n \in Nodes(t) : \E x \in 1..Len(s) : g[x] = n
      BY <1>5, <1>8
    <2> HIDE DEF g, t
    <2>4. g \in Bijection(1..Len(s), Nodes(t))
      BY <2>3, Fun_IsBij
    <2>5. ExistsBijection(1..Len(s), Nodes(t))
      BY <2>4 DEF ExistsBijection
    <2> QED
      BY <2>2, <2>5, FS_Bijection
  <1> QED
    BY <1>9, <1>10, <1>11 DEF DupIsCopy, copy

\* hash_dup makes a sane table with the pairs of the original out of any table
\* the calls lead to, even one whose own counters are wrong.
THEOREM DupCopies == Spec => []DupIsCopy
  BY InvHolds, CopyState, PTL
=============================================================================
