---------------------------- MODULE SequenceLemmas ----------------------------
(***************************************************************************)
(* Facts about numbers and sequences that the proofs about several         *)
(* components need: induction over the numbers, stated for a set and not   *)
(* for a predicate, that a function may be defined by recursion, and what  *)
(* FlattenSeq does, which is how the components select from sequences and  *)
(* expand their elements, and the beginnings and ends of sequences.        *)
(***************************************************************************)
EXTENDS Integers, SequencesExt, SequenceTheorems, FiniteSetTheorems, WellFoundedInduction, TLAPS

------------------------------------------------------------------------------
(* Numbers *)

\* A nonempty set of numbers has a least one.
LEMMA LeastNumber ==
  ASSUME NEW T \in SUBSET Nat, T # {}
  PROVE  \E n \in T : \A m \in T : n <= m
<1>1. PICK x \in T : \A y \in T : <<y, x>> \notin OpToRel(<, Nat)
  BY NatLessThanWellFounded, WFMin
<1>2. ASSUME NEW y \in T PROVE x <= y
  <2>1. ~ (y < x)
    BY <1>1 DEF OpToRel
  <2> QED
    BY <2>1
<1> QED
  BY <1>2

\* A nonempty set of numbers with a bound has a greatest one.
LEMMA GreatestNumber ==
  ASSUME NEW T \in SUBSET Nat, T # {}, NEW m \in Nat, \A k \in T : k <= m
  PROVE  \E n \in T : \A k \in T : k <= n
<1> DEFINE U == {u \in Nat : \A k \in T : k <= u}
<1>1. PICK u \in U : \A w \in U : u <= w
  BY LeastNumber
<1>2. CASE u \in T
  BY <1>2
<1>3. CASE u \notin T
  <2>1. PICK k \in T : TRUE
    OBVIOUS
  <2>2. \A l \in T : l <= u - 1
    BY <1>3
  <2>3. u - 1 \in U
    BY <2>1, <2>2
  <2> QED
    BY <1>1, <2>3
<1> QED
  BY <1>2, <1>3

\* A set of numbers that has zero and with each number the next is that of all numbers.
LEMMA Induction ==
  ASSUME NEW T, 0 \in T, \A n \in Nat : n \in T => n + 1 \in T
  PROVE  \A n \in Nat : n \in T
<1> SUFFICES ASSUME Nat \ T # {} PROVE FALSE
  OBVIOUS
<1>1. PICK n \in Nat \ T : \A m \in Nat \ T : n <= m
  BY LeastNumber
<1>2. n # 0 /\ n - 1 \in Nat /\ (n - 1) + 1 = n
  BY <1>1
<1>3. n - 1 \in T
  BY <1>1, <1>2
<1> QED
  BY <1>1, <1>2, <1>3

\* A function may be defined by what it is for zero and how each value follows from the one
\* before; next is applied to the number and to that value.
Iterates(f, V, base, next) ==
  /\ f \in [Nat -> V]
  /\ f[0] = base
  /\ \A n \in Nat : f[n + 1] = next[<<n + 1, f[n]>>]

LEMMA Recursion ==
  ASSUME NEW V, NEW base \in V, NEW next \in [Nat \X V -> V]
  PROVE  \E f : Iterates(f, V, base, next)
<1> DEFINE Is(g, n) == /\ g \in [0 .. n -> V] /\ g[0] = base
                       /\ \A i \in 0 .. n - 1 : g[i + 1] = next[<<i + 1, g[i]>>]
           T == {n \in Nat : \E g : Is(g, n)}
           some(n) == CHOOSE g : Is(g, n)
           f == [n \in Nat |-> some(n)[n]]
<1>1. 0 \in T
  <2>1. Is([i \in 0 .. 0 |-> base], 0)
    OBVIOUS
  <2> QED
    BY <2>1
<1>2. ASSUME NEW n \in Nat, n \in T PROVE n + 1 \in T
  <2>1. PICK g : Is(g, n)
    BY <1>2
  <2> DEFINE last == next[<<n + 1, g[n]>>]
             h == [i \in 0 .. n + 1 |-> IF i = n + 1 THEN last ELSE g[i]]
  <2>2. last \in V /\ g[n] \in V
    BY <2>1
  <2>3. \A i \in 0 .. n : h[i] = g[i]
    OBVIOUS
  <2>4. h[n + 1] = last
    OBVIOUS
  <2>5. h \in [0 .. n + 1 -> V]
    BY <2>1, <2>2
  <2> HIDE DEF h
  <2>6. ASSUME NEW i \in 0 .. n PROVE h[i + 1] = next[<<i + 1, h[i]>>]
    <3>1. CASE i = n
      BY <3>1, <2>3, <2>4
    <3>2. CASE i # n
      BY <3>2, <2>1, <2>3
    <3> QED
      BY <3>1, <3>2
  <2>7. h[0] = base
    BY <2>1, <2>3
  <2>8. Is(h, n + 1)
    BY <2>5, <2>6, <2>7
  <2> QED
    BY <2>8
<1>3. \A n \in Nat : Is(some(n), n)
  <2>1. \A n \in Nat : n \in T
    <3> HIDE DEF T
    <3> QED
      BY <1>1, <1>2, Induction
  <2> QED
    BY <2>1
<1>4. ASSUME NEW n \in Nat, NEW g, NEW h, Is(g, n), Is(h, n + 1)
      PROVE  g[n] = h[n]
  <2> DEFINE U == {i \in Nat : i <= n => g[i] = h[i]}
  <2>1. 0 \in U
    BY <1>4
  <2>2. ASSUME NEW i \in Nat, i \in U PROVE i + 1 \in U
    <3> SUFFICES ASSUME i + 1 <= n PROVE g[i + 1] = h[i + 1]
      OBVIOUS
    <3>1. i \in 0 .. n - 1 /\ i \in 0 .. (n + 1) - 1 /\ g[i] = h[i]
      BY <2>2
    <3>2. g[i + 1] = next[<<i + 1, g[i]>>] /\ h[i + 1] = next[<<i + 1, h[i]>>]
      BY <1>4, <3>1
    <3> QED
      BY <3>1, <3>2
  <2>3. \A i \in Nat : i \in U
    <3> HIDE DEF U
    <3> QED
      BY <2>1, <2>2, Induction
  <2> QED
    BY <2>3
<1>5. f \in [Nat -> V] /\ f[0] = base
  <2> HIDE DEF some
  <2>1. \A n \in Nat : some(n) \in [0 .. n -> V] /\ some(n)[0] = base
    BY <1>3
  <2>2. \A n \in Nat : some(n)[n] \in V
    BY <2>1
  <2> QED
    BY <2>1, <2>2
<1>6. ASSUME NEW n \in Nat PROVE f[n + 1] = next[<<n + 1, f[n]>>]
  <2>1. Is(some(n), n) /\ Is(some(n + 1), n + 1)
    <3> HIDE DEF Is, some
    <3> QED
      BY <1>3
  <2>2. f[n] = some(n)[n] /\ f[n + 1] = some(n + 1)[n + 1]
    OBVIOUS
  <2> HIDE DEF some, f
  <2>3. some(n)[n] = some(n + 1)[n]
    BY <1>4, <2>1
  <2>4. some(n + 1)[n + 1] = next[<<n + 1, some(n + 1)[n]>>]
    BY <2>1
  <2> QED
    BY <2>2, <2>3, <2>4
<1> HIDE DEF f
<1> QED
  BY <1>5, <1>6 DEF Iterates

\* The same up to a number, in the form of a recursive function.
IteratesTo(g, n, V, base, next) ==
  /\ g \in [0 .. n -> V]
  /\ g = [i \in 0 .. n |-> IF i = 0 THEN base ELSE next[<<i, g[i - 1]>>]]

LEMMA FiniteRecursion ==
  ASSUME NEW V, NEW n \in Nat, NEW base \in V, NEW next \in [(1 .. n) \X V -> V]
  PROVE  \E g : IteratesTo(g, n, V, base, next)
<1> DEFINE more == [x \in Nat \X V |-> IF x[1] \in 1 .. n THEN next[x] ELSE x[2]]
<1>1. more \in [Nat \X V -> V]
  <2> SUFFICES ASSUME NEW x \in Nat \X V PROVE (IF x[1] \in 1 .. n THEN next[x] ELSE x[2]) \in V
    OBVIOUS
  <2>1. x = <<x[1], x[2]>> /\ x[2] \in V
    OBVIOUS
  <2>2. x[1] \in 1 .. n => x \in (1 .. n) \X V
    BY <2>1
  <2> QED
    BY <2>1, <2>2
<1>2. ASSUME NEW i \in 1 .. n, NEW v \in V PROVE more[<<i, v>>] = next[<<i, v>>]
  OBVIOUS
<1> HIDE DEF more
<1>3. PICK f : Iterates(f, V, base, more)
  BY <1>1, Recursion
<1> DEFINE g == [i \in 0 .. n |-> f[i]]
           h == [i \in 0 .. n |-> IF i = 0 THEN base ELSE next[<<i, g[i - 1]>>]]
<1>4. f \in [Nat -> V] /\ f[0] = base
  BY <1>3 DEF Iterates
<1>5. ASSUME NEW i \in 0 .. n PROVE g[i] = h[i]
  <2>1. CASE i = 0
    BY <1>4, <2>1
  <2>2. CASE i # 0
    <3>1. i \in 1 .. n /\ i - 1 \in 0 .. n /\ i - 1 \in Nat /\ (i - 1) + 1 = i
      BY <2>2
    <3>2. g[i - 1] = f[i - 1] /\ g[i] = f[i] /\ f[i - 1] \in V
      BY <1>4, <3>1
    <3> HIDE DEF g
    <3>3. h[i] = next[<<i, g[i - 1]>>]
      BY <2>2
    <3>4. f[i] = more[<<i, f[i - 1]>>]
      BY <1>3, <3>1 DEF Iterates
    <3> QED
      BY <1>2, <3>1, <3>2, <3>3, <3>4
  <2> QED
    BY <2>1, <2>2
<1>6. g \in [0 .. n -> V]
  BY <1>4
<1>7. g = h
  <2>1. g = [i \in 0 .. n |-> g[i]] /\ h = [i \in 0 .. n |-> h[i]]
    OBVIOUS
  <2> HIDE DEF g, h
  <2> QED
    BY <1>5, <2>1
<1>8. IteratesTo(g, n, V, base, next)
  BY <1>6, <1>7 DEF IteratesTo
<1> QED
  BY <1>8

\* Numbers that differ fill their range, or do not reach all of it.
LEMMA Apart ==
  ASSUME NEW m \in Nat, NEW n \in Nat, NEW f \in [1 .. m -> 1 .. n],
         \A i, j \in 1 .. m : f[i] = f[j] => i = j
  PROVE  m <= n /\ (m = n => \A k \in 1 .. n : \E i \in 1 .. m : f[i] = k)
<1>1. f \in Injection(1 .. m, 1 .. n)
  BY DEF Injection, IsInjective
<1>2. /\ IsFiniteSet(1 .. m) /\ Cardinality(1 .. m) = m
      /\ IsFiniteSet(1 .. n) /\ Cardinality(1 .. n) = n
  BY FS_Interval
<1>3. /\ Cardinality(1 .. m) <= Cardinality(1 .. n)
      /\ Cardinality(1 .. m) = Cardinality(1 .. n) <=> f \in Surjection(1 .. m, 1 .. n)
  BY <1>1, <1>2, FS_Injection
<1>4. m = n => f \in Surjection(1 .. m, 1 .. n)
  BY <1>2, <1>3
<1> QED
  BY <1>2, <1>3, <1>4 DEF Surjection

\* Numbers that reach all of a range are at least as many.
LEMMA Covered ==
  ASSUME NEW m \in Nat, NEW n \in Nat, NEW f \in [1 .. m -> 1 .. n],
         \A k \in 1 .. n : \E i \in 1 .. m : f[i] = k
  PROVE  n <= m
<1>1. f \in Surjection(1 .. m, 1 .. n)
  BY DEF Surjection
<1>2. /\ IsFiniteSet(1 .. m) /\ Cardinality(1 .. m) = m
      /\ IsFiniteSet(1 .. n) /\ Cardinality(1 .. n) = n
  BY FS_Interval
<1>3. Cardinality(1 .. n) <= Cardinality(1 .. m)
  BY <1>1, <1>2, FS_Surjection
<1> QED
  BY <1>2, <1>3

------------------------------------------------------------------------------
(* Trees *)

\* A function over a tree whose nodes are numbers, each after its parent, and whose root is 0.
Grows(f, n, parent, V, base, next) ==
  /\ f \in [0 .. n -> V]
  /\ f = [e \in 0 .. n |-> IF e = 0 THEN base ELSE next[<<e, f[parent[e]]>>]]

IsTree(parent, n) == parent \in [1 .. n -> Nat] /\ \A e \in 1 .. n : parent[e] < e

LEMMA TreeRecursion ==
  ASSUME NEW V, NEW n \in Nat, NEW parent, IsTree(parent, n),
         NEW base \in V, NEW next \in [(1 .. n) \X V -> V]
  PROVE  \E f : Grows(f, n, parent, V, base, next)
<1> DEFINE W == [0 .. n -> V]
           start == [e \in 0 .. n |-> base]
           more == [x \in (1 .. n) \X W |-> [x[2] EXCEPT ![x[1]] = next[<<x[1], x[2][parent[x[1]]]>>]]]
<1>1. start \in W
  OBVIOUS
<1>2. ASSUME NEW e \in 1 .. n PROVE e \in 0 .. n /\ e - 1 \in 0 .. n /\ parent[e] \in 0 .. e - 1 /\ parent[e] \in 0 .. n
  BY DEF IsTree
<1>3. more \in [(1 .. n) \X W -> W]
  <2>1. ASSUME NEW e \in 1 .. n, NEW g \in W PROVE [g EXCEPT ![e] = next[<<e, g[parent[e]]>>]] \in W
    <3>1. g[parent[e]] \in V
      BY <1>2
    <3>2. next[<<e, g[parent[e]]>>] \in V
      BY <3>1
    <3> QED
      BY <3>2
  <2>2. ASSUME NEW x \in (1 .. n) \X W
        PROVE  [x[2] EXCEPT ![x[1]] = next[<<x[1], x[2][parent[x[1]]]>>]] \in W
    <3>1. x[1] \in 1 .. n /\ x[2] \in W
      OBVIOUS
    <3> HIDE DEF W
    <3> QED
      BY <2>1, <3>1
  <2> HIDE DEF W
  <2> QED
    BY <2>2
<1>4. ASSUME NEW e \in 1 .. n, NEW g \in W
      PROVE  more[<<e, g>>] = [g EXCEPT ![e] = next[<<e, g[parent[e]]>>]]
  <2> HIDE DEF W
  <2> QED
    OBVIOUS
<1> HIDE DEF start, more
<1>5. PICK G : IteratesTo(G, n, W, start, more)
  <2> HIDE DEF W
  <2> QED
    BY <1>1, <1>3, FiniteRecursion
<1>6. G \in [0 .. n -> W] /\ \A e \in 0 .. n : G[e] = IF e = 0 THEN start ELSE more[<<e, G[e - 1]>>]
  <2> HIDE DEF W
  <2> QED
    BY <1>5 DEF IteratesTo
<1>7. ASSUME NEW e \in 1 .. n
      PROVE  /\ G[e] = [G[e - 1] EXCEPT ![e] = next[<<e, G[e - 1][parent[e]]>>]]
             /\ G[e] \in W /\ G[e - 1] \in W
  <2>1. e # 0 /\ G[e] = more[<<e, G[e - 1]>>] /\ G[e] \in W /\ G[e - 1] \in W
    <3> HIDE DEF W
    <3> QED
      BY <1>2, <1>6
  <2> HIDE DEF W
  <2> QED
    BY <1>4, <2>1
<1>8. ASSUME NEW k \in Nat, k < n, NEW i \in 0 .. k PROVE G[k + 1][i] = G[k][i]
  <2>1. k + 1 \in 1 .. n /\ (k + 1) - 1 = k /\ i \in 0 .. n /\ i # k + 1
    <3> HIDE DEF W
    <3>1. ASSUME NEW a \in Nat, NEW b \in Nat, b < a, NEW c \in 0 .. b
          PROVE  b + 1 \in 1 .. a /\ (b + 1) - 1 = b /\ c \in 0 .. a /\ c # b + 1
      BY <3>1
    <3> QED
      BY ONLY <1>8, <3>1, n \in Nat
  <2>2. G[k + 1] = [G[k] EXCEPT ![k + 1] = next[<<k + 1, G[k][parent[k + 1]]>>]] /\ G[k] \in W
    BY <1>7, <2>1
  <2> QED
    BY <2>1, <2>2
<1> DEFINE U(i) == {k \in Nat : i <= k /\ k <= n => G[k][i] = G[i][i]}
<1>9. ASSUME NEW i \in 0 .. n PROVE \A k \in Nat : k \in U(i)
  <2>1. 0 \in U(i)
    OBVIOUS
  <2>2. ASSUME NEW k \in Nat, k \in U(i) PROVE k + 1 \in U(i)
    <3> SUFFICES ASSUME i <= k + 1, k + 1 <= n PROVE G[k + 1][i] = G[i][i]
      OBVIOUS
    <3>1. CASE i = k + 1
      BY <3>1
    <3>2. CASE i # k + 1
      <4>1. i \in 0 .. k /\ k < n
        BY <3>2
      <4>2. G[k + 1][i] = G[k][i]
        BY <1>8, <4>1
      <4> QED
        BY <2>2, <4>1, <4>2
    <3> QED
      BY <3>1, <3>2
  <2> HIDE DEF U
  <2> QED
    BY <2>1, <2>2, Induction
<1> DEFINE f == [e \in 0 .. n |-> G[e][e]]
<1>10. f \in [0 .. n -> V]
  BY <1>6
<1>11. ASSUME NEW e \in 0 .. n PROVE f[e] = IF e = 0 THEN base ELSE next[<<e, f[parent[e]]>>]
  <2>1. CASE e = 0
    BY <1>6, <2>1 DEF start
  <2>2. CASE e # 0
    <3>1. e \in 1 .. n
      BY <2>2
    <3>2. G[e][e] = next[<<e, G[e - 1][parent[e]]>>]
      BY <1>2, <1>7, <3>1
    <3>3. G[e - 1][parent[e]] = G[parent[e]][parent[e]]
      <4>1. parent[e] \in 0 .. n /\ e - 1 \in Nat /\ parent[e] <= e - 1 /\ e - 1 <= n
        BY <1>2, <3>1
      <4> QED
        BY <1>9, <4>1
    <3>4. f[e] = G[e][e] /\ f[parent[e]] = G[parent[e]][parent[e]]
      BY <1>2, <3>1
    <3> QED
      BY <2>2, <3>2, <3>3, <3>4
  <2> QED
    BY <2>1, <2>2
<1>12. f = [e \in 0 .. n |-> IF e = 0 THEN base ELSE next[<<e, f[parent[e]]>>]]
  <2>1. f = [e \in 0 .. n |-> f[e]]
    OBVIOUS
  <2> HIDE DEF f
  <2> QED
    BY <1>11, <2>1
<1> HIDE DEF f
<1> QED
  BY <1>10, <1>12 DEF Grows

------------------------------------------------------------------------------
(* Sequences as functions *)

\* Appending gives the sequence that is one longer, ends with what is appended and is the same before.
LEMMA AppendIs ==
  ASSUME NEW S, NEW s \in Seq(S), NEW e \in S, NEW n \in Nat, Len(s) = n,
         NEW f \in [1 .. n + 1 -> S],
         f[n + 1] = e, \A i \in 1 .. n : f[i] = s[i]
  PROVE  f = Append(s, e)
<1> DEFINE v == Append(s, e)
<1>1. v \in Seq(S) /\ Len(v) = n + 1 /\ v[n + 1] = e /\ \A i \in 1 .. n : v[i] = s[i]
  OBVIOUS
<1> HIDE DEF v
<1>2. \A i \in 1 .. n + 1 : f[i] = v[i]
  <2>1. \A i \in 1 .. n + 1 : i \in 1 .. n \/ i = n + 1
    OBVIOUS
  <2> QED
    BY <1>1, <2>1
<1>3. f \in Seq(S) /\ Len(f) = n + 1
  BY SeqDef
<1>4. f = v
  BY <1>1, <1>2, <1>3, SeqEqual
<1> QED
  BY <1>4 DEF v

\* What is in two sequences put together.
LEMMA Members ==
  ASSUME NEW T, NEW a \in Seq(T), NEW b \in Seq(T)
  PROVE  /\ a \o b \in Seq(T) /\ ToSet(a \o b) = ToSet(a) \cup ToSet(b)
         /\ Len(a \o b) = Len(a) + Len(b)
         /\ \A i \in 1 .. Len(a) : (a \o b)[i] = a[i]
         /\ \A i \in 1 .. Len(b) : (a \o b)[Len(a) + i] = b[i]
<1> DEFINE c == a \o b
<1>1. /\ c \in Seq(T) /\ Len(c) = Len(a) + Len(b) /\ Len(a) \in Nat /\ Len(b) \in Nat
      /\ DOMAIN c = 1 .. Len(c) /\ DOMAIN a = 1 .. Len(a) /\ DOMAIN b = 1 .. Len(b)
      /\ \A i \in 1 .. Len(a) : c[i] = a[i]
      /\ \A i \in 1 .. Len(b) : c[Len(a) + i] = b[i]
      /\ \A i \in 1 .. Len(c) : c[i] = IF i <= Len(a) THEN a[i] ELSE b[i - Len(a)]
  OBVIOUS
<1> HIDE DEF c
<1>2. ASSUME NEW x \in ToSet(c) PROVE x \in ToSet(a) \cup ToSet(b)
  <2>1. PICK i \in 1 .. Len(c) : x = c[i]
    BY <1>1 DEF ToSet
  <2>2. i <= Len(a) => i \in 1 .. Len(a)
    BY <1>1
  <2>3. ~ (i <= Len(a)) => i - Len(a) \in 1 .. Len(b)
    BY <1>1
  <2> QED
    BY <1>1, <2>1, <2>2, <2>3 DEF ToSet
<1>3. ASSUME NEW x \in ToSet(a) PROVE x \in ToSet(c)
  <2>1. PICK i \in 1 .. Len(a) : x = a[i]
    BY <1>1 DEF ToSet
  <2>2. i \in 1 .. Len(c) /\ c[i] = x
    BY <1>1, <2>1
  <2> QED
    BY <1>1, <2>2 DEF ToSet
<1>4. ASSUME NEW x \in ToSet(b) PROVE x \in ToSet(c)
  <2>1. PICK i \in 1 .. Len(b) : x = b[i]
    BY <1>1 DEF ToSet
  <2>2. Len(a) + i \in 1 .. Len(c) /\ c[Len(a) + i] = x
    BY <1>1, <2>1
  <2> QED
    BY <1>1, <2>2 DEF ToSet
<1> QED
  BY <1>1, <1>2, <1>3, <1>4 DEF c

------------------------------------------------------------------------------
(* FlattenSeq *)

\* What FlattenSeq returns is built up from the left, one sequence at a time.
Builds(f, S, ss) ==
  /\ f \in [Nat -> Seq(S)]
  /\ f[0] = <<>>
  /\ \A k \in 0 .. Len(ss) - 1 : f[k + 1] = f[k] \o ss[k + 1]
  /\ FlattenSeq(ss) = f[Len(ss)]

LEMMA FlattenBuilds ==
  ASSUME NEW S, NEW ss \in Seq(Seq(S))
  PROVE  \E f : Builds(f, S, ss)
<1> DEFINE n == Len(ss)
           next == [x \in Nat \X Seq(S) |-> IF x[1] \in 1 .. n THEN x[2] \o ss[x[1]] ELSE x[2]]
           Is(g) == g = [i \in 1 .. n |-> IF i = 1 THEN ss[i] ELSE g[i - 1] \o ss[i]]
           flatten == CHOOSE g : Is(g)
<1>1. n \in Nat /\ ss \in [1 .. n -> Seq(S)]
  OBVIOUS
<1>2. next \in [Nat \X Seq(S) -> Seq(S)]
  <2>1. ASSUME NEW x \in Nat \X Seq(S)
        PROVE  (IF x[1] \in 1 .. n THEN x[2] \o ss[x[1]] ELSE x[2]) \in Seq(S)
    BY <1>1, <2>1, ConcatProperties
  <2> QED
    BY <2>1
<1>3. PICK f \in [Nat -> Seq(S)] : f[0] = <<>> /\ \A k \in Nat : f[k + 1] = next[<<k + 1, f[k]>>]
  <2> HIDE DEF next
  <2>1. <<>> \in Seq(S)
    OBVIOUS
  <2>2. PICK f : Iterates(f, Seq(S), <<>>, next)
    BY <1>2, <2>1, Recursion
  <2> QED
    BY <2>2 DEF Iterates
<1>4. ASSUME NEW k \in 0 .. n - 1 PROVE f[k + 1] = f[k] \o ss[k + 1]
  <2>1. k \in Nat /\ k + 1 \in 1 .. n /\ <<k + 1, f[k]>> \in Nat \X Seq(S)
    <3> HIDE DEF next
    <3>1. k \in Nat /\ k + 1 \in Nat /\ k + 1 \in 1 .. n
      BY <1>1
    <3>2. f[k] \in Seq(S)
      BY <3>1
    <3> QED
      BY <3>1, <3>2
  <2>2. f[k + 1] = next[<<k + 1, f[k]>>]
    BY <1>3, <2>1
  <2> QED
    BY <2>1, <2>2
<1>5. Is(flatten)
  <2> DEFINE g == [i \in 1 .. n |-> f[i]]
  <2>1. ASSUME NEW i \in 1 .. n PROVE g[i] = IF i = 1 THEN ss[i] ELSE g[i - 1] \o ss[i]
    <3>1. CASE i = 1
      <4>1. 0 \in 0 .. n - 1 /\ 0 + 1 = 1
        BY <3>1, <1>1
      <4>2. f[1] = <<>> \o ss[1]
        BY <1>3, <1>4, <4>1
      <4>3. ss[1] \in Seq(S)
        BY <3>1, <1>1
      <4> QED
        BY <3>1, <4>2, <4>3, ConcatEmptySeq
    <3>2. CASE i # 1
      <4>1. i - 1 \in 0 .. n - 1 /\ (i - 1) + 1 = i /\ i - 1 \in 1 .. n
        BY <3>2, <1>1
      <4>2. f[i] = f[i - 1] \o ss[i]
        BY <1>4, <4>1
      <4> QED
        BY <3>2, <4>1, <4>2
    <3> QED
      BY <3>1, <3>2
  <2>2. Is(g)
    BY <2>1
  <2> QED
    BY <2>2
<1>6. n = 0 => FlattenSeq(ss) = <<>>
  <2>1. n = 0 => ss = <<>>
    BY <1>1, EmptySeq
  <2> QED
    BY <2>1 DEF FlattenSeq
<1>7. n # 0 => FlattenSeq(ss) = flatten[n]
  BY DEF FlattenSeq
<1> HIDE DEF flatten
<1>8. \A i \in 1 .. n : flatten[i] = f[i]
  <2> DEFINE U == {i \in Nat : i + 1 \in 1 .. n => flatten[i + 1] = f[i + 1]}
  <2>1. 0 \in U
    <3>1. 1 \in 1 .. n => flatten[1] = ss[1]
      BY <1>5
    <3>2. 1 \in 1 .. n => f[1] = <<>> \o ss[1] /\ ss[1] \in Seq(S)
      <4> SUFFICES ASSUME 1 \in 1 .. n PROVE f[1] = <<>> \o ss[1] /\ ss[1] \in Seq(S)
        OBVIOUS
      <4>1. 0 \in 0 .. n - 1 /\ 0 + 1 = 1
        BY <1>1
      <4> QED
        BY <4>1, <1>1, <1>3, <1>4
    <3> QED
      BY <3>1, <3>2, ConcatEmptySeq, SMTT(30)
  <2>2. ASSUME NEW i \in Nat, i \in U PROVE i + 1 \in U
    <3> SUFFICES ASSUME (i + 1) + 1 \in 1 .. n PROVE flatten[(i + 1) + 1] = f[(i + 1) + 1]
      OBVIOUS
    <3>1. i + 1 \in 1 .. n /\ i + 1 \in 0 .. n - 1
      BY <1>1
    <3>2. f[(i + 1) + 1] = f[i + 1] \o ss[(i + 1) + 1]
      BY <1>4, <3>1
    <3>3. (i + 1) + 1 # 1 /\ ((i + 1) + 1) - 1 = i + 1
      OBVIOUS
    <3>4. flatten[(i + 1) + 1] = flatten[i + 1] \o ss[(i + 1) + 1]
      BY <1>5, <3>3
    <3> QED
      BY <2>2, <3>1, <3>2, <3>4
  <2>3. \A i \in Nat : i \in U
    <3> HIDE DEF U
    <3> QED
      BY <2>1, <2>2, Induction
  <2>4. ASSUME NEW i \in 1 .. n PROVE flatten[i] = f[i]
    <3>1. i - 1 \in Nat /\ (i - 1) + 1 = i
      BY <1>1
    <3> QED
      BY <2>3, <3>1
  <2> QED
    BY <2>4
<1>9. FlattenSeq(ss) = f[n]
  <2>1. CASE n = 0
    BY <2>1, <1>3, <1>6
  <2>2. CASE n # 0
    <3>1. n \in 1 .. n
      BY <2>2, <1>1
    <3> QED
      BY <3>1, <2>2, <1>7, <1>8
  <2> QED
    BY <2>1, <2>2
<1> QED
  BY <1>3, <1>4, <1>9 DEF Builds

\* Where each of the sequences is in the flattened one: at[k] is the place of the last element of
\* the k-th.
Offsets(at, ss) ==
  /\ at \in [0 .. Len(ss) -> Nat]
  /\ at[0] = 0
  /\ Len(FlattenSeq(ss)) = at[Len(ss)]
  /\ \A k \in 1 .. Len(ss) :
       /\ at[k] = at[k - 1] + Len(ss[k])
       /\ \A j \in 1 .. Len(ss[k]) : FlattenSeq(ss)[at[k - 1] + j] = ss[k][j]
  /\ \A i, k \in 0 .. Len(ss) : i <= k => at[i] <= at[k]
  /\ \A q \in 1 .. at[Len(ss)] : \E k \in 1 .. Len(ss) : q - at[k - 1] \in 1 .. Len(ss[k])

LEMMA FlattenPlaces ==
  ASSUME NEW S, NEW ss \in Seq(Seq(S))
  PROVE  FlattenSeq(ss) \in Seq(S) /\ \E at : Offsets(at, ss)
<1> DEFINE n == Len(ss)
<1>1. PICK f : Builds(f, S, ss)
  BY FlattenBuilds
<1>2. /\ n \in Nat /\ ss \in [1 .. n -> Seq(S)]
      /\ f \in [Nat -> Seq(S)] /\ f[0] = <<>> /\ FlattenSeq(ss) = f[n]
      /\ \A k \in 0 .. n - 1 : f[k + 1] = f[k] \o ss[k + 1]
  <2>1. n \in Nat /\ ss \in [1 .. n -> Seq(S)]
    OBVIOUS
  <2> QED
    BY <1>1, <2>1 DEF Builds
<1> DEFINE at == [k \in 0 .. n |-> Len(f[k])]
<1> HIDE DEF n
<1>3. \A k \in Nat : f[k] \in Seq(S) /\ Len(f[k]) \in Nat
  <2>1. \A k \in Nat : f[k] \in Seq(S)
    BY <1>2
  <2> QED
    BY <2>1, LenProperties
<1>4. ASSUME NEW k \in 0 .. n - 1
      PROVE  /\ k \in Nat /\ k + 1 \in 1 .. n /\ k \in 0 .. n /\ k + 1 \in 0 .. n
             /\ f[k] \in Seq(S) /\ ss[k + 1] \in Seq(S) /\ f[k + 1] \in Seq(S)
             /\ Len(f[k]) \in Nat /\ Len(ss[k + 1]) \in Nat
             /\ Len(f[k + 1]) = Len(f[k]) + Len(ss[k + 1])
             /\ \A q \in 1 .. Len(f[k]) : f[k + 1][q] = f[k][q]
             /\ \A j \in 1 .. Len(ss[k + 1]) : f[k + 1][Len(f[k]) + j] = ss[k + 1][j]
  <2>1. k \in Nat /\ k + 1 \in 1 .. n /\ k \in 0 .. n /\ k + 1 \in 0 .. n
    BY <1>2
  <2>2. f[k] \in Seq(S) /\ ss[k + 1] \in Seq(S) /\ f[k + 1] = f[k] \o ss[k + 1]
    BY <1>3, <1>2, <2>1
  <2> DEFINE a == f[k]
             b == ss[k + 1]
             c == f[k + 1]
  <2>3. a \in Seq(S) /\ b \in Seq(S) /\ c = a \o b
    BY <2>2
  <2> HIDE DEF a, b, c, at
  <2>4. /\ c \in Seq(S) /\ Len(a) \in Nat /\ Len(b) \in Nat
        /\ Len(c) = Len(a) + Len(b)
        /\ \A q \in 1 .. Len(a) : c[q] = a[q]
        /\ \A j \in 1 .. Len(b) : c[Len(a) + j] = b[j]
    BY <2>3
  <2> QED
    BY <2>1, <2>2, <2>4 DEF a, b, c
\* What is built for the first sequences stays.
<1>5. \A k \in Nat : k <= n =>
        /\ \A i \in 1 .. k : Len(f[i]) <= Len(f[k])
        /\ \A i \in 1 .. k : \A q \in 1 .. Len(f[i]) : f[k][q] = f[i][q]
        /\ \A q \in 1 .. Len(f[k]) : \E i \in 1 .. k : q - Len(f[i - 1]) \in 1 .. Len(ss[i])
  <2> DEFINE P(k) == /\ \A i \in 1 .. k : Len(f[i]) <= Len(f[k])
                     /\ \A i \in 1 .. k : \A q \in 1 .. Len(f[i]) : f[k][q] = f[i][q]
                     /\ \A q \in 1 .. Len(f[k]) :
                          \E i \in 1 .. k : q - Len(f[i - 1]) \in 1 .. Len(ss[i])
             T == {k \in Nat : k <= n => P(k)}
  <2>1. 0 \in T
    BY <1>2, SMTT(30)
  <2>2. ASSUME NEW k \in Nat, k \in T PROVE k + 1 \in T
    <3> SUFFICES ASSUME k + 1 <= n PROVE P(k + 1)
      BY SMTT(30)
    <3>1. k \in 0 .. n - 1 /\ P(k)
      BY <1>2, <2>2
    <3>2. \A i \in 1 .. k : i \in Nat /\ f[i] \in Seq(S) /\ Len(f[i]) \in Nat
      BY <1>3
    <3>3. /\ Len(f[k]) \in Nat /\ Len(ss[k + 1]) \in Nat
          /\ Len(f[k + 1]) = Len(f[k]) + Len(ss[k + 1])
      BY <3>1, <1>4
    <3>4. ASSUME NEW i \in 1 .. k + 1 PROVE Len(f[i]) <= Len(f[k + 1])
      <4>1. CASE i = k + 1
        BY <4>1, <3>3
      <4>2. CASE i # k + 1
        <5>1. i \in 1 .. k
          BY <4>2
        <5> QED
          <6> HIDE DEF at
          <6>1. Len(f[i]) \in Nat /\ Len(f[i]) <= Len(f[k])
            BY <5>1, <3>1, <3>2
          <6>2. ASSUME NEW a \in Nat, NEW b \in Nat, NEW c \in Nat, NEW d, a <= b, d = b + c
                PROVE  a <= d
            BY <6>2
          <6> QED
            BY ONLY <6>1, <6>2, <3>3
      <4> QED
        BY <4>1, <4>2
    <3>5. ASSUME NEW i \in 1 .. k + 1, NEW q \in 1 .. Len(f[i]) PROVE f[k + 1][q] = f[i][q]
      <4>1. CASE i = k + 1
        BY <4>1
      <4>2. CASE i # k + 1
        <5>1. i \in 1 .. k
          BY <4>2
        <5>2. q \in 1 .. Len(f[k]) /\ f[k][q] = f[i][q]
          BY <5>1, <3>1, <3>2, <1>4
        <5> QED
          BY <5>2, <3>1, <1>4
      <4> QED
        BY <4>1, <4>2
    <3>6. ASSUME NEW q \in 1 .. Len(f[k + 1])
          PROVE  \E i \in 1 .. k + 1 : q - Len(f[i - 1]) \in 1 .. Len(ss[i])
      <4>1. CASE q <= Len(f[k])
        <5>1. q \in 1 .. Len(f[k])
          BY <4>1, <3>1, <1>4
        <5>2. PICK i \in 1 .. k : q - Len(f[i - 1]) \in 1 .. Len(ss[i])
          BY <5>1, <3>1
        <5> QED
          BY <5>2
      <4>2. CASE ~ (q <= Len(f[k]))
        <5>1. (k + 1) - 1 = k /\ k + 1 \in 1 .. k + 1
          OBVIOUS
        <5>2. q - Len(f[k]) \in 1 .. Len(ss[k + 1])
          <6>1. ASSUME NEW a \in Nat, NEW b \in Nat, NEW d, d = a + b, NEW r \in 1 .. d, ~ (r <= a)
                PROVE  r - a \in 1 .. b
            BY <6>1
          <6> QED
            BY ONLY <6>1, <3>3, <4>2, q \in 1 .. Len(f[k + 1])
        <5> QED
          BY <5>1, <5>2
      <4> QED
        BY <4>1, <4>2
    <3> QED
      BY <3>4, <3>5, <3>6
  <2>3. \A k \in Nat : k \in T
    <3> HIDE DEF T
    <3> QED
      BY <2>1, <2>2, Induction
  <2> QED
    BY <2>3
<1>6. FlattenSeq(ss) \in Seq(S)
  BY <1>2
<1>7. \A k \in 0 .. n : f[k] \in Seq(S) /\ Len(f[k]) \in Nat /\ at[k] = Len(f[k])
  BY <1>2, LenProperties
<1>8. at \in [0 .. n -> Nat] /\ at[0] = 0 /\ Len(FlattenSeq(ss)) = at[n]
  <2>1. 0 \in 0 .. n /\ n \in 0 .. n
    BY <1>2
  <2> QED
    BY <2>1, <1>2, <1>7
<1>9. ASSUME NEW k \in 1 .. n
      PROVE  /\ at[k] = at[k - 1] + Len(ss[k])
             /\ \A j \in 1 .. Len(ss[k]) : FlattenSeq(ss)[at[k - 1] + j] = ss[k][j]
  <2>1. k - 1 \in 0 .. n - 1 /\ (k - 1) + 1 = k /\ k \in 1 .. n /\ n <= n
        /\ at[k] = Len(f[k]) /\ at[k - 1] = Len(f[k - 1]) /\ at[n] = Len(f[n])
    <3>1. k - 1 \in 0 .. n - 1 /\ (k - 1) + 1 = k /\ n <= n
          /\ k \in 0 .. n /\ k - 1 \in 0 .. n /\ n \in 0 .. n
      BY <1>2
    <3> HIDE DEF at
    <3> QED
      BY <3>1, <1>7
  <2>2. at[k] = at[k - 1] + Len(ss[k]) /\ Len(ss[k]) \in Nat /\ at[k - 1] \in Nat
    BY <2>1, <1>4
  <2>3. Len(f[k]) <= Len(f[n]) /\ \A q \in 1 .. Len(f[k]) : f[n][q] = f[k][q]
    BY <2>1, <1>2, <1>5
  <2>4. ASSUME NEW j \in 1 .. Len(ss[k]) PROVE FlattenSeq(ss)[at[k - 1] + j] = ss[k][j]
    <3>1. f[k][at[k - 1] + j] = ss[k][j]
      BY <2>1, <1>4, ZenonT(30)
    <3>2. at[k - 1] + j \in 1 .. Len(f[k])
      BY <2>1, <2>2, SMTT(30)
    <3> QED
      BY <3>1, <3>2, <2>3, <1>2
  <2> QED
    BY <2>1, <2>2, <2>3, <2>4
<1>10. ASSUME NEW q \in 1 .. at[n] PROVE \E k \in 1 .. n : q - at[k - 1] \in 1 .. Len(ss[k])
  <2>1. n \in Nat /\ n <= n /\ at[n] = Len(f[n])
    BY <1>2, <1>7
  <2>2. PICK k \in 1 .. n : q - Len(f[k - 1]) \in 1 .. Len(ss[k])
    BY <2>1, <1>5
  <2>3. k - 1 \in 0 .. n
    BY <2>1
  <2> QED
    BY <2>2, <2>3, <1>7
<1>11. ASSUME NEW i \in 0 .. n, NEW k \in 0 .. n, i <= k PROVE at[i] <= at[k]
  <2>1. i \in Nat /\ k \in Nat /\ k <= n /\ Len(f[0]) = 0 /\ (i # 0 => i \in 1 .. k)
    BY <1>2, <1>11
  <2>2. at[i] = Len(f[i]) /\ at[k] = Len(f[k]) /\ Len(f[k]) \in Nat
    BY <1>7
  <2> HIDE DEF at
  <2> QED
    BY <2>1, <2>2, <1>5
<1>12. Offsets(at, ss)
  <2> HIDE DEF at
  <2> QED
    BY <1>8, <1>9, <1>10, <1>11 DEF Offsets, n
<1> QED
  BY <1>6, <1>12

\* A sequence appended to those that are flattened is appended to what FlattenSeq returns.
LEMMA FlattenAppend ==
  ASSUME NEW S, NEW ss \in Seq(Seq(S)), NEW e \in Seq(S)
  PROVE  /\ FlattenSeq(ss) \in Seq(S)
         /\ FlattenSeq(Append(ss, e)) = FlattenSeq(ss) \o e
<1> DEFINE n == Len(ss)
           tt == Append(ss, e)
<1>1. n \in Nat /\ ss \in [1 .. n -> Seq(S)]
  OBVIOUS
<1>2. tt \in Seq(Seq(S)) /\ Len(tt) = n + 1 /\ tt[n + 1] = e /\ \A k \in 1 .. n : tt[k] = ss[k]
  OBVIOUS
<1> HIDE DEF n, tt
<1>3. PICK f : Builds(f, S, ss)
  BY FlattenBuilds
<1>4. PICK g : Builds(g, S, tt)
  BY <1>2, FlattenBuilds
<1>5. /\ f[0] = <<>> /\ FlattenSeq(ss) = f[n] /\ f[n] \in Seq(S)
      /\ \A k \in 0 .. n - 1 : f[k + 1] = f[k] \o ss[k + 1]
  BY <1>1, <1>3 DEF Builds, n
<1>6. /\ g[0] = <<>> /\ FlattenSeq(tt) = g[n + 1]
      /\ \A k \in 0 .. n : g[k + 1] = g[k] \o tt[k + 1]
  <2>1. Len(tt) = n + 1 /\ 0 .. Len(tt) - 1 = 0 .. n
    BY <1>1, <1>2
  <2> QED
    BY <1>4, <2>1 DEF Builds
<1> DEFINE T == {k \in Nat : k <= n => f[k] = g[k]}
<1>7. 0 \in T
  BY <1>5, <1>6
<1>8. ASSUME NEW k \in Nat, k \in T PROVE k + 1 \in T
  <2> SUFFICES ASSUME k + 1 <= n PROVE f[k + 1] = g[k + 1]
    OBVIOUS
  <2>1. k \in 0 .. n - 1 /\ k \in 0 .. n /\ k + 1 \in 1 .. n /\ f[k] = g[k]
    BY <1>1, <1>8
  <2>2. f[k + 1] = f[k] \o ss[k + 1] /\ g[k + 1] = g[k] \o tt[k + 1]
    BY <1>5, <1>6, <2>1
  <2> QED
    BY <1>2, <2>1, <2>2
<1>9. \A k \in Nat : k \in T
  <2> HIDE DEF T
  <2> QED
    BY <1>7, <1>8, Induction
<1>10. f[n] = g[n] /\ n \in 0 .. n
  BY <1>1, <1>9
<1>11. g[n + 1] = f[n] \o e
  BY <1>2, <1>6, <1>10
<1> QED
  BY <1>5, <1>6, <1>11 DEF tt

\* Rows that are empty take no place.
LEMMA EmptyRows ==
  ASSUME NEW S, NEW ss \in Seq(Seq(S)), NEW at, Offsets(at, ss),
         NEW i \in 0 .. Len(ss), NEW j \in 0 .. Len(ss), i <= j,
         \A k \in 1 .. Len(ss) : i < k /\ k <= j => Len(ss[k]) = 0
  PROVE  at[j] = at[i]
<1> DEFINE T == {k \in Nat : i <= k /\ k <= j => at[k] = at[i]}
<1>1. 0 \in T
  OBVIOUS
<1>2. ASSUME NEW k \in Nat, k \in T PROVE k + 1 \in T
  <2> SUFFICES ASSUME i <= k + 1, k + 1 <= j, i # k + 1 PROVE at[k + 1] = at[i]
    OBVIOUS
  <2>1. k + 1 \in 1 .. Len(ss) /\ i < k + 1 /\ at[k] = at[i] /\ (k + 1) - 1 = k /\ k \in 0 .. Len(ss)
    BY <1>2
  <2>2. at[k + 1] = at[(k + 1) - 1] + Len(ss[k + 1]) /\ at[k] \in Nat
    BY <2>1 DEF Offsets
  <2> QED
    BY <2>1, <2>2, SMTT(30)
<1>3. \A k \in Nat : k \in T
  <2> HIDE DEF T
  <2> QED
    BY <1>1, <1>2, Induction
<1> QED
  BY <1>3

\* Selecting from a sequence: at[i] is where the i-th element that is selected was.
Selecting(s, K) == [p \in DOMAIN s |-> IF p \in K THEN <<s[p]>> ELSE <<>>]
Picks(at, s, K) ==
  LET F == FlattenSeq(Selecting(s, K)) IN
  /\ at \in [1 .. Len(F) -> K]
  /\ \A i, j \in 1 .. Len(F) : i < j => at[i] < at[j]
  /\ \A k \in K : \E i \in 1 .. Len(F) : at[i] = k
  /\ \A i \in 1 .. Len(F) : F[i] = s[at[i]]

LEMMA SelectedAre ==
  ASSUME NEW S, NEW s \in Seq(S), NEW K \in SUBSET DOMAIN s
  PROVE  FlattenSeq(Selecting(s, K)) \in Seq(S) /\ \E at : Picks(at, s, K)
<1> DEFINE n == Len(s)
           ss == Selecting(s, K)
           F == FlattenSeq(ss)
<1>1. n \in Nat /\ DOMAIN s = 1 .. n /\ \A k \in 1 .. n : s[k] \in S
  OBVIOUS
<1>2. ss \in [1 .. n -> Seq(S)]
  BY <1>1 DEF Selecting
<1>3. ss \in Seq(Seq(S)) /\ Len(ss) = n
  BY <1>1, <1>2
<1>4. \A k \in 1 .. n : ss[k] = IF k \in K THEN <<s[k]>> ELSE <<>>
  BY <1>1 DEF Selecting
<1>5. \A k \in 1 .. n : Len(ss[k]) = IF k \in K THEN 1 ELSE 0
  <2> HIDE DEF ss
  <2> HIDE DEF n
  <2>1. ASSUME NEW x PROVE Len(<<x>>) = 1
    OBVIOUS
  <2>2. Len(<<>>) = 0
    OBVIOUS
  <2>3. ASSUME NEW k \in 1 .. n PROVE Len(ss[k]) = IF k \in K THEN 1 ELSE 0
    <3>1. CASE k \in K
      BY <3>1, <1>4, <2>1
    <3>2. CASE k \notin K
      BY <3>2, <1>4, <2>2
    <3> QED
      BY <3>1, <3>2
  <2> QED
    BY <2>3
<1> HIDE DEF ss, n
<1>6. F \in Seq(S) /\ \E o : Offsets(o, ss)
  BY <1>3, FlattenPlaces
<1>7. PICK o : Offsets(o, ss)
  BY <1>6
<1>8. /\ o \in [0 .. n -> Nat] /\ o[0] = 0 /\ Len(F) = o[n]
      /\ \A k \in 1 .. n : o[k] = o[k - 1] + Len(ss[k])
      /\ \A k \in 1 .. n : \A j \in 1 .. Len(ss[k]) : F[o[k - 1] + j] = ss[k][j]
      /\ \A i, k \in 0 .. n : i <= k => o[i] <= o[k]
      /\ \A q \in 1 .. o[n] : \E k \in 1 .. n : q - o[k - 1] \in 1 .. Len(ss[k])
  BY <1>3, <1>7 DEF Offsets
<1> HIDE DEF F
<1>9. ASSUME NEW k \in K
      PROVE  k \in 1 .. n /\ k \in 0 .. n /\ o[k] \in 1 .. Len(F) /\ F[o[k]] = s[k]
  <2>1. k \in 1 .. n /\ k \in 0 .. n /\ k - 1 \in 0 .. n /\ n \in 0 .. n /\ k <= n
    BY <1>1
  <2>2. o[k] \in Nat /\ o[k - 1] \in Nat /\ o[k] <= Len(F)
    BY <2>1, <1>8
  <2>3. Len(ss[k]) = 1 /\ ss[k] = <<s[k]>>
    BY <2>1, <1>4, <1>5
  <2>4. o[k] = o[k - 1] + 1
    BY <2>1, <2>3, <1>8
  <2>5. F[o[k - 1] + 1] = ss[k][1]
    <3>1. 1 \in 1 .. Len(ss[k])
      BY <2>3
    <3> QED
      BY <2>1, <3>1, <1>8
  <2>6. F[o[k]] = s[k]
    BY <2>3, <2>4, <2>5
  <2> QED
    BY <2>1, <2>2, <2>4, <2>6, <1>6, LenProperties
<1>10. ASSUME NEW i \in 1 .. Len(F) PROVE \E k \in K : o[k] = i
  <2>1. PICK k \in 1 .. n : i - o[k - 1] \in 1 .. Len(ss[k])
    BY <1>8
  <2>2. k \in K /\ Len(ss[k]) = 1
    <3>1. k \notin K => Len(ss[k]) = 0
      BY <1>5
    <3>2. 1 .. 0 = {}
      OBVIOUS
    <3> QED
      BY <2>1, <3>1, <3>2, <1>5
  <2>3. k - 1 \in 0 .. n /\ o[k - 1] \in Nat
    BY <1>1, <1>8, SMTT(30)
  <2>4. i = o[k - 1] + 1 /\ o[k] = o[k - 1] + 1
    <3>1. o[k] = o[k - 1] + Len(ss[k])
      BY <1>8
    <3>2. i - o[k - 1] = 1
      BY <2>1, <2>2
    <3> QED
      BY <3>1, <3>2, <2>2, <2>3
  <2> QED
    BY <2>2, <2>4
<1> DEFINE at == [i \in 1 .. Len(F) |-> CHOOSE k \in K : o[k] = i]
<1>11. \A i \in 1 .. Len(F) : at[i] \in K /\ o[at[i]] = i
  BY <1>10
<1>12. at \in [1 .. Len(F) -> K]
  BY <1>11
<1> HIDE DEF at
<1>13. ASSUME NEW i \in 1 .. Len(F), NEW j \in 1 .. Len(F), i < j PROVE at[i] < at[j]
  <2>1. at[i] \in 0 .. n /\ at[j] \in 0 .. n
    BY <1>9, <1>11
  <2>2. at[j] <= at[i] => j <= i
    BY <2>1, <1>8, <1>11
  <2> QED
    BY <2>1, <2>2, <1>1, <1>13
<1>14. ASSUME NEW k \in K PROVE \E i \in 1 .. Len(F) : at[i] = k
  <2>1. o[k] \in 1 .. Len(F) /\ at[o[k]] \in K /\ o[at[o[k]]] = o[k]
    BY <1>9, <1>11
  <2> DEFINE m == at[o[k]]
  <2>2. m \in K /\ o[m] = o[k] /\ m \in 1 .. n /\ k \in 1 .. n
    BY <2>1, <1>9
  <2> HIDE DEF m
  <2>3. ASSUME NEW a \in K, NEW b \in K, a < b PROVE o[a] < o[b]
    <3>1. a \in 0 .. n /\ b - 1 \in 0 .. n /\ b \in 1 .. n /\ a <= b - 1
      BY <1>1, <1>9, <2>3
    <3>2. o[a] <= o[b - 1] /\ o[b] = o[b - 1] + 1 /\ o[a] \in Nat /\ o[b - 1] \in Nat
      BY <3>1, <1>5, <1>8
    <3> QED
      BY <3>2
  <2>4. m = k
    <3>1. ~ (m < k)
      <4>1. m < k => o[m] < o[k]
        BY <2>2, <2>3
      <4>2. o[k] \in Nat
        BY <2>1, <1>6, LenProperties
      <4> QED
        BY <4>1, <4>2, <2>2
    <3>2. ~ (k < m)
      <4>1. k < m => o[k] < o[m]
        BY <2>2, <2>3
      <4>2. o[k] \in Nat
        BY <2>1, <1>6, LenProperties
      <4> QED
        BY <4>1, <4>2, <2>2
    <3> QED
      BY <3>1, <3>2, <2>2, <1>1
  <2> QED
    BY <2>1, <2>4 DEF m
<1>15. \A i \in 1 .. Len(F) : F[i] = s[at[i]]
  BY <1>9, <1>11
<1> QED
  BY <1>6, <1>12, <1>13, <1>14, <1>15 DEF Picks, F, ss

\* Selected elements that were neighbours are neighbours.
RowBefore(at, i, n, K) == \A j \in 1 .. n : at[i] + j \in K
RowAfter(at, i, n, N) == \A j \in 0 .. n : i + j \in 1 .. N /\ at[i + j] = at[i] + j

LEMMA PicksRow ==
  ASSUME NEW S, NEW s \in Seq(S), NEW K \in SUBSET DOMAIN s, NEW at, Picks(at, s, K),
         NEW N, N = Len(FlattenSeq(Selecting(s, K))),
         NEW i \in 1 .. N, NEW n \in Nat, RowBefore(at, i, n, K)
  PROVE  RowAfter(at, i, n, N)
<1>1. N \in Nat
  BY SelectedAre
<1>2. /\ at \in [1 .. N -> K]
      /\ \A h, k \in 1 .. N : h < k => at[h] < at[k]
      /\ \A k \in K : \E h \in 1 .. N : at[h] = k
  BY DEF Picks
<1>3. \A k \in K : k \in Nat
  OBVIOUS
<1> DEFINE T == {j \in Nat : j <= n => i + j \in 1 .. N /\ at[i + j] = at[i] + j}
<1>4. 0 \in T
  BY <1>1, <1>2, <1>3
<1>5. ASSUME NEW j \in Nat, j \in T PROVE j + 1 \in T
  <2> SUFFICES ASSUME j + 1 <= n
               PROVE  i + (j + 1) \in 1 .. N /\ at[i + (j + 1)] = at[i] + (j + 1)
    OBVIOUS
  <2> DEFINE p == i + j
             a == at[i]
  <2>1. p \in 1 .. N /\ at[p] = a + j /\ a \in Nat
    BY <1>2, <1>3, <1>5
  <2>2. a + (j + 1) \in K
    BY DEF RowBefore
  <2>3. PICK q \in 1 .. N : at[q] = a + (j + 1)
    BY <1>2, <2>2
  <2>4. /\ p \in Nat /\ q \in Nat /\ at[p] \in Nat /\ at[q] \in Nat
        /\ at[q] = at[p] + 1
    <3>1. p \in Nat /\ q \in Nat
      BY <1>1, <2>1
    <3> HIDE DEF p, a
    <3>2. at[q] = at[p] + 1 /\ at[p] \in Nat
      BY <2>1, <2>3
    <3> QED
      BY <3>1, <3>2
  <2> HIDE DEF p, a
  <2>5. ~(q < p) /\ q # p
    BY <1>2, <2>1, <2>4
  <2>6. ~(p + 1 < q)
    <3> SUFFICES ASSUME p + 1 < q PROVE FALSE
      OBVIOUS
    <3>1. p + 1 \in 1 .. N /\ p < p + 1
      BY <1>1, <2>1, <2>4
    <3>2. at[p] < at[p + 1] /\ at[p + 1] < at[q] /\ at[p + 1] \in Nat
      BY <1>2, <1>3, <2>1, <3>1
    <3> QED
      BY <2>4, <3>2
  <2>7. q = p + 1
    BY <2>4, <2>5, <2>6
  <2>8. i + (j + 1) = p + 1
    BY <1>1 DEF p
  <2> QED
    BY <2>3, <2>7, <2>8 DEF a
<1>6. \A j \in Nat : j \in T
  <2> HIDE DEF T
  <2> QED
    BY <1>4, <1>5, Induction
<1> QED
  BY <1>6 DEF RowAfter

\* No element is selected twice.
LEMMA PicksOnce ==
  ASSUME NEW S, NEW s \in Seq(S), NEW K \in SUBSET DOMAIN s, NEW at, Picks(at, s, K),
         NEW i \in 1 .. Len(FlattenSeq(Selecting(s, K))),
         NEW j \in 1 .. Len(FlattenSeq(Selecting(s, K))), at[i] = at[j]
  PROVE  i = j
<1> DEFINE N == Len(FlattenSeq(Selecting(s, K)))
<1>1. N \in Nat
  BY SelectedAre
<1>2. /\ at \in [1 .. N -> K] /\ i \in 1 .. N /\ j \in 1 .. N
      /\ \A h, k \in 1 .. N : h < k => at[h] < at[k]
  BY DEF Picks
<1> HIDE DEF N
<1>3. at[i] \in Nat
  BY <1>2
<1> QED
  BY <1>1, <1>2, <1>3

\* FlattenSeq, when what it returns of the first k sequences is known.
LEMMA FlattenIs ==
  ASSUME NEW S, NEW ss \in Seq(Seq(S)), NEW g, g[0] = <<>>,
         \A k \in 0 .. Len(ss) - 1 : g[k + 1] = g[k] \o ss[k + 1]
  PROVE  FlattenSeq(ss) = g[Len(ss)]
<1>1. PICK f : Builds(f, S, ss)
  BY FlattenBuilds
<1> DEFINE n == Len(ss)
           T == {k \in Nat : k <= n => f[k] = g[k]}
<1>2. n \in Nat
  OBVIOUS
<1>3. f[0] = <<>> /\ FlattenSeq(ss) = f[n] /\ \A k \in 0 .. n - 1 : f[k + 1] = f[k] \o ss[k + 1]
  BY <1>1 DEF Builds
<1> HIDE DEF n
<1>4. 0 \in T
  BY <1>3
<1>5. ASSUME NEW k \in Nat, k \in T PROVE k + 1 \in T
  <2> SUFFICES ASSUME k + 1 <= n PROVE f[k + 1] = g[k + 1]
    OBVIOUS
  <2>1. k \in 0 .. n - 1 /\ k <= n
    BY <1>2
  <2> QED
    BY <1>3, <1>5, <2>1 DEF n
<1>6. \A k \in Nat : k \in T
  <2> HIDE DEF T
  <2> QED
    BY <1>4, <1>5, Induction
<1> QED
  BY <1>2, <1>3, <1>6 DEF n

\* FlattenSeq takes sequences put together to sequences put together.
LEMMA FlattenConcat ==
  ASSUME NEW S, NEW a \in Seq(Seq(S)), NEW b \in Seq(Seq(S))
  PROVE  FlattenSeq(a \o b) = FlattenSeq(a) \o FlattenSeq(b)
<1> DEFINE n == Len(a)
           m == Len(b)
           c == a \o b
<1>1. PICK f : Builds(f, S, a)
  BY FlattenBuilds
<1>2. PICK h : Builds(h, S, b)
  BY FlattenBuilds
<1>3. /\ f \in [Nat -> Seq(S)] /\ f[0] = <<>> /\ FlattenSeq(a) = f[n]
      /\ \A k \in 0 .. n - 1 : f[k + 1] = f[k] \o a[k + 1]
  BY <1>1 DEF Builds
<1>4. /\ h \in [Nat -> Seq(S)] /\ h[0] = <<>> /\ FlattenSeq(b) = h[m]
      /\ \A k \in 0 .. m - 1 : h[k + 1] = h[k] \o b[k + 1]
  BY <1>2 DEF Builds
<1>5. /\ c \in Seq(Seq(S)) /\ Len(c) = n + m /\ n \in Nat /\ m \in Nat
      /\ \A i \in 1 .. n : c[i] = a[i]
      /\ \A i \in 1 .. m : c[n + i] = b[i] /\ b[i] \in Seq(S)
  <2>1. n \in Nat /\ m \in Nat /\ \A i \in 1 .. m : b[i] \in Seq(S)
    OBVIOUS
  <2> QED
    BY <2>1, Members
<1> HIDE DEF n, m, c
<1> DEFINE g == [k \in 0 .. n + m |-> IF k <= n THEN f[k] ELSE f[n] \o h[k - n]]
<1>6. f[n] \in Seq(S) /\ \A k \in Nat : h[k] \in Seq(S)
  BY <1>3, <1>4, <1>5
<1>7. \A k \in 0 .. n : g[k] = f[k]
  BY <1>5
<1>8. \A k \in 0 .. m : g[n + k] = f[n] \o h[k]
  <2> SUFFICES ASSUME NEW k \in 0 .. m PROVE g[n + k] = f[n] \o h[k]
    OBVIOUS
  <2>1. CASE k = 0
    <3>1. g[n + k] = f[n] /\ h[k] = <<>>
      BY <1>4, <1>5, <2>1
    <3>2. f[n] \o <<>> = f[n]
      BY <1>6, ConcatEmptySeq
    <3> QED
      BY <3>1, <3>2
  <2>2. CASE k # 0
    <3>1. n + k \in 0 .. n + m /\ ~(n + k <= n) /\ (n + k) - n = k
      BY <1>5, <2>2
    <3> QED
      BY <3>1
  <2> QED
    BY <2>1, <2>2
<1> HIDE DEF g
<1>9. g[0] = <<>>
  <2>1. 0 \in 0 .. n
    BY <1>5
  <2> QED
    BY <1>3, <1>7, <2>1
<1>10. ASSUME NEW k \in 0 .. (n + m) - 1 PROVE g[k + 1] = g[k] \o c[k + 1]
  <2>1. CASE k + 1 <= n
    <3>1. k \in 0 .. n - 1 /\ k \in 0 .. n /\ k + 1 \in 0 .. n /\ k + 1 \in 1 .. n
      BY <1>5, <2>1
    <3> QED
      BY <1>3, <1>5, <1>7, <3>1
  <2>2. CASE ~(k + 1 <= n)
    <3> DEFINE j == k - n
    <3>1. /\ j \in 0 .. m - 1 /\ j \in 0 .. m /\ j + 1 \in 0 .. m /\ j + 1 \in 1 .. m /\ j \in Nat
          /\ k = n + j /\ k + 1 = n + (j + 1)
      BY <1>5, <2>2
    <3> HIDE DEF j
    <3>2. g[k + 1] = f[n] \o h[j + 1] /\ g[k] = f[n] \o h[j] /\ c[k + 1] = b[j + 1] /\ b[j + 1] \in Seq(S)
      BY <1>5, <1>8, <3>1
    <3>3. h[j + 1] = h[j] \o b[j + 1]
      BY <1>4, <3>1
    <3>4. f[n] \o (h[j] \o b[j + 1]) = (f[n] \o h[j]) \o b[j + 1]
      <4> DEFINE x == f[n]
                 y == h[j]
                 z == b[j + 1]
      <4>1. x \in Seq(S) /\ y \in Seq(S) /\ z \in Seq(S)
        BY <1>6, <3>1, <3>2
      <4> HIDE DEF x, y, z
      <4>2. (x \o y) \o z = x \o (y \o z)
        BY <4>1, ConcatAssociative, SMTT(30)
      <4> QED
        BY <4>2 DEF x, y, z
    <3> QED
      BY <3>2, <3>3, <3>4
  <2> QED
    BY <2>1, <2>2
<1>11. FlattenSeq(c) = g[n + m]
  BY <1>5, <1>9, <1>10, FlattenIs
<1>12. g[n + m] = f[n] \o h[m]
  <2>1. m \in 0 .. m
    BY <1>5
  <2> QED
    BY <1>8, <2>1
<1> QED
  BY <1>3, <1>4, <1>11, <1>12 DEF c

\* One sequence among empty ones.
LEMMA FlattenOne ==
  ASSUME NEW S, NEW ss \in Seq(Seq(S)), NEW p \in 1 .. Len(ss),
         \A q \in 1 .. Len(ss) : q # p => ss[q] = <<>>
  PROVE  FlattenSeq(ss) = ss[p]
<1> DEFINE n == Len(ss)
           o == ss[p]
           g == [i \in 0 .. n |-> IF i < p THEN <<>> ELSE o]
<1>1. n \in Nat /\ o \in Seq(S) /\ p \in 1 .. n /\ n \in 0 .. n
  OBVIOUS
<1>2. g[0] = <<>> /\ g[n] = o
  BY <1>1
<1>3. \A i \in 0 .. n : (i < p => g[i] = <<>>) /\ (~ (i < p) => g[i] = o)
  OBVIOUS
<1> HIDE DEF g
<1>4. ASSUME NEW k \in 0 .. n - 1 PROVE g[k + 1] = g[k] \o ss[k + 1]
  <2>1. k \in 0 .. n /\ k + 1 \in 0 .. n /\ k + 1 \in 1 .. n
    BY <1>1
  <2> HIDE DEF o
  <2>2. <<>> \o <<>> = <<>> /\ <<>> \o o = o /\ o \o <<>> = o
    BY <1>1
  <2>3. CASE k + 1 < p
    <3>1. k < p /\ ss[k + 1] = <<>> /\ g[k] = <<>> /\ g[k + 1] = <<>>
      BY <1>3, <1>1, <2>1, <2>3
    <3> QED
      BY <2>2, <3>1
  <2>4. CASE k + 1 = p
    <3>1. k < p /\ ss[k + 1] = o /\ g[k] = <<>> /\ g[k + 1] = o
      BY <1>3, <1>1, <2>1, <2>4 DEF o
    <3> QED
      BY <2>2, <3>1
  <2>5. CASE p < k + 1
    <3>1. ss[k + 1] = <<>> /\ g[k] = o /\ g[k + 1] = o
      BY <1>3, <1>1, <2>1, <2>5
    <3> QED
      BY <2>1, <2>2, <3>1
  <2>6. k + 1 < p \/ k + 1 = p \/ p < k + 1
    BY <1>1, <2>1
  <2> QED
    BY <2>3, <2>4, <2>5, <2>6
<1>5. FlattenSeq(ss) = g[Len(ss)]
  BY <1>2, <1>4, FlattenIs DEF n
<1> QED
  BY <1>2, <1>5 DEF n
\* A sequence made of nonempty parts, and the parts' first elements: org says of which part an
\* element is, and place where a part begins.
Padded(ss, org, place) ==
  LET fixed == FlattenSeq(ss)
      len == Len(ss)
  IN  /\ org \in [1 .. Len(fixed) -> 1 .. len] /\ place \in [1 .. len -> 1 .. Len(fixed)]
      /\ \A q \in 1 .. len : q <= place[q] /\ fixed[place[q]] = ss[q][1]
      /\ \A i \in 1 .. Len(fixed) :
           \/ fixed[i] = ss[org[i]][1] /\ \A k \in 1 .. i - 1 : org[k] < org[i]
           \/ \E j \in 2 .. Len(ss[org[i]]) : fixed[i] = ss[org[i]][j]
      /\ \A n \in 0 .. len : (\A p \in 1 .. n : Len(ss[p]) <= 1) =>
           \A i \in 1 .. n + 1 : i <= len => i <= Len(fixed) /\ fixed[i] = ss[i][1]
      /\ len <= Len(fixed)
      /\ len = Len(fixed) => \A p \in 1 .. len : Len(ss[p]) <= 1

LEMMA PaddedIs ==
  ASSUME NEW S, NEW ss \in Seq(Seq(S)), \A q \in 1 .. Len(ss) : Len(ss[q]) >= 1
  PROVE  \E org, place : Padded(ss, org, place)
<1> DEFINE len == Len(ss)
           fixed == FlattenSeq(ss)
<1>1. len \in Nat OBVIOUS
<1>2. \A q \in 1 .. len : Len(ss[q]) \in Nat /\ Len(ss[q]) >= 1 OBVIOUS
<1>3. fixed \in Seq(S) BY FlattenPlaces
<1>4. PICK at : Offsets(at, ss) BY FlattenPlaces
<1> HIDE DEF fixed
<1>5. /\ at \in [0 .. len -> Nat] /\ at[0] = 0 /\ Len(fixed) = at[len]
      /\ \A k \in 1 .. len : /\ at[k] = at[k - 1] + Len(ss[k])
                             /\ \A j \in 1 .. Len(ss[k]) : fixed[at[k - 1] + j] = ss[k][j]
      /\ \A i, k \in 0 .. len : i <= k => at[i] <= at[k]
      /\ \A q \in 1 .. at[len] : \E k \in 1 .. len : q - at[k - 1] \in 1 .. Len(ss[k])
  BY <1>1, <1>4 DEF Offsets, fixed
<1> HIDE DEF len
<1>6. /\ \A i \in 0 .. len : at[i] \in Nat
       /\ \A q \in 1 .. len : q \in Nat /\ q - 1 \in 0 .. len /\ q \in 0 .. len /\ len \in 0 .. len
  BY <1>1, <1>5
<1>7. \A i \in 0 .. len : i <= at[i]
  <2> DEFINE T == {i \in Nat : i <= len => i <= at[i]}
  <2>1. 0 \in T BY <1>5
  <2>2. ASSUME NEW i \in Nat, i \in T PROVE i + 1 \in T
    <3> SUFFICES ASSUME i + 1 <= len PROVE i + 1 <= at[i + 1] OBVIOUS
    <3>1. i + 1 \in 1 .. len /\ (i + 1) - 1 = i /\ i \in 0 .. len /\ i + 1 \in 0 .. len BY <1>1
    <3>2. at[i + 1] = at[(i + 1) - 1] + Len(ss[i + 1]) BY <1>5, <3>1
    <3>3. i <= at[i] /\ at[i] \in Nat /\ Len(ss[i + 1]) >= 1 /\ Len(ss[i + 1]) \in Nat
      BY <1>2, <1>6, <2>2, <3>1
    <3> QED BY <3>1, <3>2, <3>3
  <2>3. \A i \in Nat : i \in T
    <3> HIDE DEF T
    <3> QED BY <2>1, <2>2, Induction
  <2> QED BY <1>1, <2>3
<1>8. ASSUME NEW n \in 0 .. len, \A p \in 1 .. n : Len(ss[p]) <= 1 PROVE at[n] = n
  <2> DEFINE T == {i \in Nat : i <= n => at[i] = i}
  <2>1. 0 \in T BY <1>5
  <2>2. ASSUME NEW i \in Nat, i \in T PROVE i + 1 \in T
    <3> SUFFICES ASSUME i + 1 <= n PROVE at[i + 1] = i + 1 OBVIOUS
    <3>1. i + 1 \in 1 .. len /\ (i + 1) - 1 = i /\ i + 1 \in 1 .. n BY <1>1, <1>8
    <3>2. at[i + 1] = at[(i + 1) - 1] + Len(ss[i + 1]) BY <1>5, <3>1
    <3>3. Len(ss[i + 1]) <= 1 BY <1>8, <3>1
    <3>4. Len(ss[i + 1]) \in Nat /\ Len(ss[i + 1]) >= 1 BY <1>2, <3>1
    <3>5. at[i] = i BY <2>2, <3>1
    <3> QED BY <3>1, <3>2, <3>3, <3>5, <3>4
  <2>3. \A i \in Nat : i \in T
    <3> HIDE DEF T
    <3> QED BY <2>1, <2>2, Induction
  <2> QED BY <1>1, <2>3
<1>9. ASSUME NEW q \in 1 .. len
      PROVE  /\ at[q - 1] + 1 \in 1 .. Len(fixed) /\ q <= at[q - 1] + 1
             /\ fixed[at[q - 1] + 1] = ss[q][1]
  <2>1. q \in 0 .. len /\ q - 1 \in 0 .. len /\ len \in 0 .. len /\ q <= len BY <1>1
  <2>2. at[q] = at[q - 1] + Len(ss[q]) /\ at[q] <= at[len] /\ q - 1 <= at[q - 1]
        /\ at[q] \in Nat /\ at[q - 1] \in Nat /\ 1 \in 1 .. Len(ss[q])
        /\ Len(ss[q]) \in Nat
    <3>1. at[q] = at[q - 1] + Len(ss[q]) /\ at[q] <= at[len] BY <1>5, <2>1
    <3>2. q - 1 <= at[q - 1] /\ at[q] \in Nat /\ at[q - 1] \in Nat BY <1>7, <1>6, <2>1
    <3>3. Len(ss[q]) \in Nat /\ Len(ss[q]) >= 1 BY <1>2
    <3> QED BY <3>1, <3>2, <3>3
  <2>3. fixed[at[q - 1] + 1] = ss[q][1] BY <1>5, <2>2
  <2>4. /\ at[q - 1] \in Nat /\ q \in Nat /\ q - 1 <= at[q - 1] /\ at[len] \in Nat /\ Len(fixed) = at[len]
        /\ at[q - 1] + Len(ss[q]) <= at[len] /\ Len(ss[q]) \in Nat /\ 1 <= Len(ss[q])
    BY <1>5, <1>6, <2>1, <2>2
  <2> HIDE DEF fixed
  <2>5. q <= at[q - 1] + 1 BY ONLY <2>4
  <2>6. at[q - 1] + 1 \in 1 .. Len(fixed) BY ONLY <2>4, SMTT(30)
  <2> QED BY <2>3, <2>5, <2>6
<1> DEFINE place == [q \in 1 .. len |-> at[q - 1] + 1]
           within(i, k) == i - at[k - 1] \in 1 .. Len(ss[k])
           org == [i \in 1 .. Len(fixed) |-> CHOOSE k \in 1 .. len : within(i, k)]
<1>10. /\ place \in [1 .. len -> 1 .. Len(fixed)]
       /\ \A q \in 1 .. len : q <= place[q] /\ fixed[place[q]] = ss[q][1]
  <2>1. \A q \in 1 .. len : place[q] = at[q - 1] + 1 OBVIOUS
  <2>2. place \in [1 .. len -> 1 .. Len(fixed)] BY <1>9
  <2> HIDE DEF place
  <2> QED BY <1>9, <2>1, <2>2
<1>11. /\ org \in [1 .. Len(fixed) -> 1 .. len]
       /\ \A i \in 1 .. Len(fixed) : within(i, org[i])
  <2>1. \A i \in 1 .. Len(fixed) : \E k \in 1 .. len : within(i, k) BY <1>5
  <2> HIDE DEF within
  <2> QED BY <2>1
<1> HIDE DEF org, place
<1>12. ASSUME NEW i \in 1 .. Len(fixed)
       PROVE  \/ fixed[i] = ss[org[i]][1] /\ \A k \in 1 .. i - 1 : org[k] < org[i]
              \/ \E j \in 2 .. Len(ss[org[i]]) : fixed[i] = ss[org[i]][j]
  <2> DEFINE k == org[i]
             j == i - at[k - 1]
  <2>1. k \in 1 .. len /\ j \in 1 .. Len(ss[k]) /\ at[k - 1] \in Nat /\ i \in Nat /\ k - 1 \in 0 .. len
    <3>1. k \in 1 .. len /\ j \in 1 .. Len(ss[k]) BY <1>11
    <3> HIDE DEF k, j
    <3>2. k - 1 \in 0 .. len BY <1>6, <3>1
    <3>3. at[k - 1] \in Nat BY <1>6, <3>2
    <3>4. i \in Nat BY <1>3
    <3> QED BY <3>1, <3>2, <3>3, <3>4
  <2>2. i = at[k - 1] + j BY <2>1
  <2>3. fixed[i] = ss[k][j]
    <3> HIDE DEF j, k
    <3> QED BY <1>5, <2>1, <2>2
  <2>4. CASE j = 1
    <3>1. fixed[i] = ss[k][1] BY <2>3, <2>4
    <3>2. ASSUME NEW h \in 1 .. i - 1 PROVE org[h] < k
      <4>1. h \in 1 .. Len(fixed) /\ h \in Nat /\ h < i BY <1>3, <3>2
      <4>2. org[h] \in 1 .. len /\ h - at[org[h] - 1] >= 1 /\ org[h] - 1 \in 0 .. len
            /\ at[org[h] - 1] \in Nat
        <5> DEFINE g == org[h]
        <5>1. g \in 1 .. len /\ within(h, g) BY <1>11, <4>1
        <5>2. h - at[g - 1] \in 1 .. Len(ss[g]) BY <5>1
        <5> HIDE DEF g
        <5>3. g - 1 \in 0 .. len BY <1>6, <5>1
        <5>4. at[g - 1] \in Nat /\ h - at[g - 1] >= 1 BY <1>2, <1>6, <4>1, <5>1, <5>2, <5>3
        <5> QED BY <5>1, <5>3, <5>4 DEF g
      <4>3. SUFFICES ASSUME k <= org[h] PROVE FALSE BY <1>6, <2>1, <4>2, SMTT(30)
      <4> DEFINE c == k - 1
                 d == org[h] - 1
      <4>4. c \in 0 .. len /\ d \in 0 .. len /\ c <= d /\ at[c] \in Nat /\ at[d] \in Nat
            /\ i = at[c] + j /\ h - at[d] >= 1
        BY <1>6, <2>1, <2>2, <4>2, <4>3, SMTT(30)
      <4> HIDE DEF c, d, j
      <4>5. at[c] <= at[d] BY <1>5, <4>4
      <4> QED BY <2>1, <2>4, <4>1, <4>4, <4>5, SMTT(30)
    <3> QED BY <3>1, <3>2
  <2>5. CASE j # 1
    <3>1. j \in 2 .. Len(ss[k]) BY <2>1, <2>5
    <3> QED BY <2>3, <3>1
  <2> QED BY <2>4, <2>5
<1>13. ASSUME NEW n \in 0 .. len, \A p \in 1 .. n : Len(ss[p]) <= 1,
              NEW i \in 1 .. n + 1, i <= len
       PROVE  i <= Len(fixed) /\ fixed[i] = ss[i][1]
  <2>1. i \in 1 .. len /\ i - 1 \in 0 .. len /\ i - 1 \in 0 .. n BY <1>1, <1>13
  <2>2. \A p \in 1 .. i - 1 : Len(ss[p]) <= 1 BY <1>13, <2>1
  <2>3. at[i - 1] = i - 1 BY <1>8, <2>1, <2>2
  <2> QED BY <1>9, <2>1, <2>3
<1>14. len <= Len(fixed) BY <1>1, <1>5, <1>7
<1>15. ASSUME len = Len(fixed), NEW p \in 1 .. len PROVE Len(ss[p]) <= 1
  <2> DEFINE T == {i \in Nat : p <= i /\ i <= len => at[i] >= at[p] + (i - p)}
  <2>1. 0 \in T OBVIOUS
  <2>2. ASSUME NEW i \in Nat, i \in T PROVE i + 1 \in T
    <3> SUFFICES ASSUME p <= i + 1, i + 1 <= len PROVE at[i + 1] >= at[p] + ((i + 1) - p) OBVIOUS
    <3>1. i + 1 \in 1 .. len /\ (i + 1) - 1 = i /\ i \in 0 .. len /\ i + 1 \in 0 .. len /\ p \in 0 .. len
      BY <1>1, <1>6
    <3>2. at[i + 1] = at[(i + 1) - 1] + Len(ss[i + 1]) BY <1>5, <3>1
    <3>3. Len(ss[i + 1]) >= 1 /\ Len(ss[i + 1]) \in Nat /\ at[p] \in Nat /\ at[i] \in Nat
          /\ at[i + 1] \in Nat
      BY <1>2, <1>6, <3>1
    <3>4. CASE p = i + 1 BY <3>3, <3>4
    <3>5. CASE p <= i
      <4>1. at[i] >= at[p] + (i - p) BY <2>2, <3>1, <3>5
      <4> QED BY <3>1, <3>2, <3>3, <4>1, SMTT(30)
    <3> QED BY <3>4, <3>5
  <2>3. \A i \in Nat : i \in T
    <3> HIDE DEF T
    <3> QED BY <2>1, <2>2, Induction
  <2>4. at[len] >= at[p] + (len - p) BY <1>1, <2>3
  <2>5. p \in 0 .. len /\ p - 1 \in 0 .. len BY <1>1
  <2>6. at[p] = at[p - 1] + Len(ss[p]) /\ at[p - 1] \in Nat /\ at[p - 1] >= p - 1 /\ at[p] \in Nat
    BY <1>5, <1>7, <1>6, <2>5
  <2>7. Len(ss[p]) \in Nat /\ Len(ss[p]) >= 1 /\ at[len] = len /\ len \in Nat /\ p \in Nat
    BY <1>1, <1>5, <1>15, <1>2, SMTT(60)
  <2>8. \A a, b, c, n, q \in Nat : n >= a + (n - q) /\ b >= q - 1 /\ a = b + c => c <= 1 OBVIOUS
  <2> QED BY <2>4, <2>6, <2>7, <2>8, SMTT(30)
<1>16. len = Len(fixed) => \A p \in 1 .. len : Len(ss[p]) <= 1 BY <1>15
<1>17. Padded(ss, org, place) BY <1>10, <1>11, <1>12, <1>13, <1>14, <1>16 DEF Padded, len, fixed
<1> QED BY <1>17
------------------------------------------------------------------------------
(* Beginnings and ends *)

\* The beginning of a sequence, cut in two.
LEMMA FrontType ==
  ASSUME NEW S, NEW ms \in Seq(S), NEW i \in 0 .. Len(ms), NEW j \in i .. Len(ms)
  PROVE  /\ SubSeq(ms, 1, j) = SubSeq(ms, 1, i) \o SubSeq(ms, i + 1, j)
         /\ SubSeq(ms, 1, i) \in Seq(S) /\ Len(SubSeq(ms, 1, i)) = i
         /\ SubSeq(ms, i + 1, j) \in Seq(S) /\ Len(SubSeq(ms, i + 1, j)) = j - i
         /\ \A k \in 1 .. j - i : SubSeq(ms, i + 1, j)[k] = ms[i + k]
<1>1. SubSeq(ms, 1, i) \o SubSeq(ms, i + 1, j) = SubSeq(ms, 1, j) BY ConcatAdjacentSubSeq
<1> QED BY <1>1

\* The beginning of two sequences in a row is that of the first.
LEMMA FrontOfBoth ==
  ASSUME NEW S, NEW ms \in Seq(S), NEW ns \in Seq(S), NEW i \in 1 .. Len(ms)
  PROVE  SubSeq(ms \o ns, 1, i) = SubSeq(ms, 1, i)
<1>1. 1 \in 1 .. Len(ms) OBVIOUS
<1> QED BY <1>1, SubSeqOfConcat1

\* The beginning of two lists in a row.
LEMMA FrontOfJoin ==
  ASSUME NEW S, NEW t \in Seq(S), NEW ms \in Seq(S), NEW k \in 0 .. Len(ms)
  PROVE  /\ SubSeq(t \o ms, 1, Len(t) + k) = t \o SubSeq(ms, 1, k)
         /\ Len(t) + k \in 0 .. Len(t \o ms) /\ t \o ms \in Seq(S)
<1> DEFINE s == SubSeq(t \o ms, 1, Len(t) + k)
           r == t \o SubSeq(ms, 1, k)
           n == Len(t)
           f == SubSeq(ms, 1, k)
<1>1. n \in Nat /\ Len(ms) \in Nat /\ k \in Nat /\ k <= Len(ms) OBVIOUS
<1>2. /\ t \o ms \in Seq(S) /\ Len(t \o ms) = n + Len(ms)
      /\ \A i \in 1 .. n : (t \o ms)[i] = t[i]
      /\ \A i \in 1 .. Len(ms) : (t \o ms)[n + i] = ms[i]
  OBVIOUS
<1>3. f \in Seq(S) /\ Len(f) = k /\ \A i \in 1 .. k : f[i] = ms[i] OBVIOUS
<1> DEFINE tm == t \o ms
<1> HIDE DEF tm, f, n
<1>4. n + k \in 0 .. Len(tm) /\ tm \in Seq(S) BY <1>1, <1>2 DEF tm
<1>5. /\ SubSeq(tm, 1, n + k) \in Seq(S) /\ Len(SubSeq(tm, 1, n + k)) = n + k
      /\ \A i \in 1 .. n + k : SubSeq(tm, 1, n + k)[i] = tm[i]
  BY <1>4
<1>6. /\ t \o f \in Seq(S) /\ Len(t \o f) = n + k
      /\ \A i \in 1 .. n : (t \o f)[i] = t[i]
      /\ \A i \in 1 .. k : (t \o f)[n + i] = f[i]
  BY <1>3, SMTT(30) DEF n
<1>7. ASSUME NEW i \in 1 .. n + k PROVE SubSeq(tm, 1, n + k)[i] = (t \o f)[i]
  <2>1. CASE i \in 1 .. n BY <1>2, <1>5, <1>6, <2>1 DEF tm
  <2>2. CASE i \notin 1 .. n
    <3>1. i - n \in 1 .. k /\ n + (i - n) = i /\ i - n \in 1 .. Len(ms) BY <1>1, <2>2
    <3>2. (t \o f)[n + (i - n)] = f[i - n] /\ f[i - n] = ms[i - n] /\ tm[n + (i - n)] = ms[i - n]
      BY <1>2, <1>3, <1>6, <3>1 DEF tm
    <3> QED BY <1>5, <3>1, <3>2
  <2> QED BY <2>1, <2>2
<1>8. SubSeq(tm, 1, n + k) = t \o f BY <1>5, <1>6, <1>7, SeqEqual
<1> QED BY <1>4, <1>8 DEF tm, f, n

\* Another message leaves the beginning of the list alone.
LEMMA FrontOfMore ==
  ASSUME NEW S, NEW t \in Seq(S), NEW m \in S, NEW k \in 0 .. Len(t)
  PROVE  /\ Append(t, m) \in Seq(S) /\ Len(Append(t, m)) = Len(t) + 1
         /\ SubSeq(Append(t, m), 1, k) = SubSeq(t, 1, k)
<1> DEFINE v == Append(t, m)
           a == SubSeq(v, 1, k)
           b == SubSeq(t, 1, k)
<1>1. v \in Seq(S) /\ Len(v) = Len(t) + 1 /\ \A i \in 1 .. Len(t) : v[i] = t[i] OBVIOUS
<1>2. Len(t) \in Nat /\ k \in Nat /\ k <= Len(t) /\ k <= Len(v)
      /\ \A i \in 1 .. k : i \in 1 .. Len(t)
  BY <1>1
<1> HIDE DEF v
<1>3. a \in Seq(S) /\ Len(a) = k /\ \A i \in 1 .. k : a[i] = v[i] BY <1>1, <1>2
<1>4. b \in Seq(S) /\ Len(b) = k /\ \A i \in 1 .. k : b[i] = t[i] BY <1>2
<1> HIDE DEF a, b
<1>5. a = b BY <1>1, <1>2, <1>3, <1>4, SeqEqual
<1> QED BY <1>1, <1>5 DEF a, b, v

\* A part of a list, and the next message.
LEMMA OneLonger ==
  ASSUME NEW S, NEW t \in Seq(S), NEW i \in 0 .. Len(t) - 1, NEW a \in 1 .. i + 1
  PROVE  SubSeq(t, a, i + 1) = SubSeq(t, a, i) \o <<t[i + 1]>>
<1>1. Len(t) \in Nat /\ i \in Nat /\ i + 1 \in 1 .. Len(t) /\ a \in 1 .. Len(t) + 1 /\ a - 1 <= i
  OBVIOUS
<1>2. a \in 1 .. Len(t) /\ i + 1 \in a .. Len(t) /\ (i + 1) - 1 = i BY <1>1
<1>3. SubSeq(t, a, i + 1) = SubSeq(t, a, (i + 1) - 1) \o <<t[i + 1]>> BY <1>2, SubSeqRecursiveSecond
<1> QED BY <1>2, <1>3

\* An element, and a list without its first n.
Behead(r, s, n, a) == /\ Len(r) = 1 + Len(s) - n /\ r[1] = a
                      /\ \A i \in 2 .. Len(r) : r[i] = s[n + i - 1]

LEMMA RestIs ==
  ASSUME NEW S, NEW s \in Seq(S), NEW n \in 1 .. Len(s), NEW a \in S
  PROVE  Behead(<<a>> \o SubSeq(s, n + 1, Len(s)), s, n, a)
<1> DEFINE t == SubSeq(s, n + 1, Len(s))
           m == Len(s) - n
<1>1. n \in Nat /\ Len(s) \in Nat /\ m \in Nat /\ n + 1 \in 1 .. Len(s) + 1 OBVIOUS
<1>2. t \in Seq(S) /\ Len(t) = m /\ \A i \in 1 .. m : t[i] = s[n + i] OBVIOUS
<1> HIDE DEF t
<1> DEFINE f == <<a>>
           r == f \o t
<1>3. f \in Seq(S) /\ Len(f) = 1 /\ f[1] = a OBVIOUS
<1> HIDE DEF f, m
<1>4. Len(r) = 1 + m /\ r[1] = a /\ \A i \in 1 .. m : r[1 + i] = t[i]
  <2>1. /\ Len(f \o t) = Len(f) + Len(t)
        /\ \A i \in 1 .. Len(f) + Len(t) : (f \o t)[i] = IF i <= Len(f) THEN f[i] ELSE t[i - Len(f)]
    BY ONLY <1>2, <1>3, ConcatProperties
  <2>2. Len(r) = 1 + m /\ \A i \in 1 .. 1 + m : r[i] = IF i <= 1 THEN f[i] ELSE t[i - 1]
    BY <1>2, <1>3, <2>1
  <2> HIDE DEF r
  <2>3. ASSUME NEW i \in 1 .. m PROVE 1 + i \in 1 .. 1 + m /\ ~ (1 + i <= 1) /\ (1 + i) - 1 = i
    BY <1>1
  <2>4. 1 \in 1 .. 1 + m BY <1>1
  <2> QED BY <1>3, <2>2, <2>3, <2>4
<1> HIDE DEF r
<1>5. ASSUME NEW i \in 2 .. 1 + m PROVE r[i] = s[n + i - 1]
  <2>1. i - 1 \in 1 .. m /\ 1 + (i - 1) = i /\ n + (i - 1) = n + i - 1 BY <1>1
  <2>2. r[1 + (i - 1)] = t[i - 1] /\ t[i - 1] = s[n + (i - 1)] BY <1>2, <1>4, <2>1 DEF r
  <2> QED BY <2>1, <2>2
<1>6. Behead(r, s, n, a) BY <1>1, <1>4, <1>5 DEF Behead, m
<1> QED BY <1>6 DEF r, f, t

\* t begins with s.
StartsWith(t, s) == Len(s) <= Len(t) /\ \A i \in 1 .. Len(s) : t[i] = s[i]

\* A list begins with itself.
LEMMA StartsItself ==
  ASSUME NEW t, Len(t) \in Nat
  PROVE  StartsWith(t, t)
BY DEF StartsWith

\* One list that begins with another begins with what that one begins with.
LEMMA StartsThrough ==
  ASSUME NEW S, NEW r \in Seq(S), NEW s \in Seq(S), NEW t \in Seq(S), StartsWith(t, s), StartsWith(s, r)
  PROVE  StartsWith(t, r)
<1>1. \A i \in 1 .. Len(r) : i \in 1 .. Len(s) BY DEF StartsWith
<1> QED BY <1>1 DEF StartsWith

\* t ends with s.
EndsWith(t, s) ==
  /\ Len(s) <= Len(t)
  /\ \A i \in 1 .. Len(s) : s[i] = t[Len(t) - Len(s) + i]

LEMMA EndsWithNone ==
  ASSUME NEW t, Len(t) \in Nat
  PROVE  EndsWith(t, <<>>)
BY DEF EndsWith

\* A suffix stays one when the same is appended to both.
LEMMA EndsWithBoth ==
  ASSUME NEW S, NEW s \in Seq(S), NEW t \in Seq(S), NEW u \in Seq(S), EndsWith(t, s)
  PROVE  EndsWith(t \o u, s \o u)
<1> DEFINE su == s \o u
           tu == t \o u
<1>1. Len(s) \in Nat /\ Len(t) \in Nat /\ Len(u) \in Nat /\ Len(s) <= Len(t) BY DEF EndsWith
<1>2. /\ Len(su) = Len(s) + Len(u)
      /\ \A i \in 1 .. Len(s) : su[i] = s[i]
      /\ \A i \in 1 .. Len(u) : su[Len(s) + i] = u[i]
  OBVIOUS
<1>3. /\ Len(tu) = Len(t) + Len(u)
      /\ \A i \in 1 .. Len(t) : tu[i] = t[i]
      /\ \A i \in 1 .. Len(u) : tu[Len(t) + i] = u[i]
  OBVIOUS
<1> HIDE DEF su, tu
<1>4. ASSUME NEW i \in 1 .. Len(su) PROVE su[i] = tu[Len(tu) - Len(su) + i]
  <2>1. Len(tu) - Len(su) + i = Len(t) - Len(s) + i BY <1>1, <1>2, <1>3
  <2>2. CASE i <= Len(s)
    <3>1. i \in 1 .. Len(s) /\ Len(t) - Len(s) + i \in 1 .. Len(t) BY <1>1, <1>2, <2>2
    <3>2. s[i] = t[Len(t) - Len(s) + i] BY <3>1 DEF EndsWith
    <3> QED BY <1>2, <1>3, <2>1, <3>1, <3>2
  <2>3. CASE ~ (i <= Len(s))
    <3>1. /\ i - Len(s) \in 1 .. Len(u) /\ Len(s) + (i - Len(s)) = i
          /\ Len(t) - Len(s) + i = Len(t) + (i - Len(s))
      BY <1>1, <1>2, <2>3
    <3> QED BY <1>2, <1>3, <2>1, <3>1, ZenonT(30)
  <2> QED BY <2>2, <2>3
<1>5. Len(su) <= Len(tu) BY <1>1, <1>2, <1>3
<1> QED BY <1>4, <1>5 DEF EndsWith, su, tu

\* EndsWith is what IsSuffix says with Reverse.
LEMMA SuffixIsEnd ==
  ASSUME NEW S, NEW s \in Seq(S), NEW t \in Seq(S), EndsWith(t, s)
  PROVE  IsSuffix(s, t)
<1> DEFINE n == Len(s)
           m == Len(t)
           rs == Reverse(s)
           rt == Reverse(t)
<1>1. n \in Nat /\ m \in Nat /\ n <= m /\ \A i \in 1 .. n : s[i] = t[m - n + i] BY DEF EndsWith
<1>2. ASSUME NEW i \in 1 .. n PROVE s[(n - i) + 1] = t[(m - i) + 1]
  <2>1. (n - i) + 1 \in 1 .. n /\ m - n + ((n - i) + 1) = (m - i) + 1 BY <1>1
  <2> QED BY <1>1, <2>1
<1>3. /\ rs \in [1 .. n -> S] /\ rt \in [1 .. m -> S]
      /\ \A i \in 1 .. n : rs[i] = rt[i]
  <2>1. \A i \in 1 .. n : (n - i) + 1 \in 1 .. n BY <1>1
  <2>2. \A i \in 1 .. m : (m - i) + 1 \in 1 .. m BY <1>1
  <2>3. \A i \in 1 .. n : i \in 1 .. m BY <1>1
  <2>4. rs \in [1 .. n -> S] /\ \A i \in 1 .. n : rs[i] = s[(n - i) + 1] BY <2>1 DEF Reverse
  <2>5. rt \in [1 .. m -> S] /\ \A i \in 1 .. m : rt[i] = t[(m - i) + 1] BY <2>2 DEF Reverse
  <2> HIDE DEF rs, rt, n, m
  <2> QED BY <1>2, <2>3, <2>4, <2>5
<1> HIDE DEF rs, rt, n, m
<1>4. rs \in Seq(S) /\ rt \in Seq(S) /\ Len(rs) = n /\ Len(rt) = m BY <1>1, <1>3, SeqDef, SMTT(30)
<1>5. SubSeq(rs, 1, n) = SubSeq(rt, 1, n) BY <1>1, <1>3, <1>4
<1> QED BY <1>1, <1>4, <1>5 DEF IsSuffix, IsPrefix, rs, rt
================================================================================
