--------------------------- MODULE SegmentsProofs ---------------------------
(***************************************************************************)
(* What becomes of a manuscript, for any number of lines: the segments are *)
(* a sequence, without bare labels they are the labelled lines or, if there*)
(* are none, the paragraphs, and every labelled line is heard.  The lemmas *)
(* before that are about the helpers of Segments and its recursive search. *)
(***************************************************************************)
EXTENDS Segments, FiniteSetTheorems, WellFoundedInduction, TLAPS

-----------------------------------------------------------------------------
(***************************************************************************)
(* Induction over the numbers: a set that is not empty has a least element.*)
(***************************************************************************)

LEMMA Least == ASSUME NEW S \in SUBSET Nat, S # {} PROVE \E n \in S : \A m \in S : n <= m
  <1>1. PICK n \in S : \A m \in S : <<m, n>> \notin OpToRel(<, Nat)
    BY NatLessThanWellFounded, WFMin
  <1>2. \A m \in S : ~(m < n)
    BY <1>1 DEF OpToRel
  <1> QED BY <1>2

LEMMA Induct ==
  ASSUME NEW S, 0 \in S, \A n \in Nat : n \in S => n + 1 \in S PROVE Nat \subseteq S
  <1> SUFFICES ASSUME Nat \ S # {} PROVE FALSE
    OBVIOUS
  <1>1. PICK n \in Nat \ S : \A m \in Nat \ S : n <= m
    BY Least
  <1>2. n # 0 /\ n - 1 \in Nat /\ ~(n <= n - 1)
    BY <1>1
  <1>3. n - 1 \in S
    BY <1>1, <1>2
  <1>4. (n - 1) + 1 \in S
    BY <1>2, <1>3
  <1> QED BY <1>1, <1>4

LEMMA MinIs ==
  ASSUME NEW S \in SUBSET Nat, S # {} PROVE Min(S) \in S /\ \A x \in S : Min(S) <= x
  <1>1. \E n \in S : \A m \in S : n <= m
    BY Least
  <1> QED BY <1>1 DEF Min

LEMMA Backwards ==
  ASSUME NEW n \in Nat, NEW D, \A i \in Nat : i > n => i \in D,
         \A i \in 1 .. n : (\A j \in Nat : j > i => j \in D) => i \in D
  PROVE  \A i \in Nat \ {0} : i \in D
  <1> DEFINE S == {m \in Nat : \E i \in 1 .. n : i \notin D /\ m = n - i}
  <1> SUFFICES ASSUME NEW x \in Nat \ {0}, x \notin D PROVE FALSE
    OBVIOUS
  <1>1. x \in 1 .. n
    OBVIOUS
  <1>2. n - x \in S
    BY <1>1
  <1>3. PICK m \in S : \A k \in S : m <= k
    BY <1>2, Least
  <1>4. PICK i \in 1 .. n : i \notin D /\ m = n - i
    BY <1>3
  <1>5. PICK j \in Nat : j > i /\ j \notin D
    BY <1>4
  <1>6. j \in 1 .. n
    BY <1>5
  <1>7. n - j \in S
    BY <1>5, <1>6
  <1>8. m <= n - j
    BY <1>3, <1>7
  <1> QED BY <1>4, <1>5, <1>6, <1>8

-----------------------------------------------------------------------------
(***************************************************************************)
(* Finite sets of numbers in ascending order.                              *)
(***************************************************************************)

\* f goes through S in ascending order, in n steps.
Lists(f, n, S) ==
  /\ f \in [1 .. n -> S]
  /\ \A i, j \in 1 .. n : i < j => f[i] < f[j]
  /\ \A x \in S : \E i \in 1 .. n : f[i] = x

LEMMA ListsOnce ==
  ASSUME NEW S \in SUBSET Nat, NEW n \in Nat, NEW f, Lists(f, n, S)
  PROVE  f \in Bijection(1 .. n, S) /\ IsFiniteSet(S) /\ Cardinality(S) = n
  <1>1. f \in Injection(1 .. n, S)
    <2>1. \A i \in 1 .. n : f[i] \in Nat
      BY DEF Lists
    <2>2. \A i, j \in 1 .. n : f[i] = f[j] => i = j
      BY <2>1 DEF Lists
    <2> QED BY <2>2 DEF Injection, IsInjective, Lists
  <1>2. f \in Surjection(1 .. n, S)
    BY DEF Surjection, Lists
  <1>3. f \in Bijection(1 .. n, S)
    BY <1>1, <1>2 DEF Bijection
  <1> QED BY <1>3, FS_NatBijection, FS_CountingElements DEF ExistsBijection

LEMMA ListsUnique ==
  ASSUME NEW S \in SUBSET Nat, NEW n \in Nat, NEW f, Lists(f, n, S), NEW g, Lists(g, n, S)
  PROVE  f = g
  <1> DEFINE D == {k \in 1 .. n : f[k] # g[k]}
  <1> SUFFICES ASSUME D # {} PROVE FALSE
    BY DEF Lists
  <1>1. \A i \in 1 .. n : f[i] \in Nat /\ g[i] \in Nat
    BY DEF Lists
  <1>2. PICK k \in 1 .. n : f[k] # g[k] /\ \A m \in D : k <= m
    <2>1. D \in SUBSET Nat
      OBVIOUS
    <2> QED BY <2>1, Least
  <1>3. \A j \in 1 .. n : j < k => f[j] = g[j]
    BY <1>2
  <1>4. f[k] \in S /\ g[k] \in S /\ f[k] # g[k]
    BY <1>2 DEF Lists
  <1>5. PICK i \in 1 .. n : g[i] = f[k]
    BY <1>4 DEF Lists
  <1>6. PICK j \in 1 .. n : f[j] = g[k]
    BY <1>4 DEF Lists
  <1>7. CASE f[k] < g[k]
    <2>1. k < i => g[k] < g[i]
      BY DEF Lists
    <2>2. i < k
      BY <1>1, <1>4, <1>5, <1>7, <2>1
    <2>3. f[i] < f[k] /\ f[i] = f[k]
      BY <1>3, <1>5, <2>2 DEF Lists
    <2> QED BY <1>1, <2>3
  <1>8. CASE g[k] < f[k]
    <2>1. k < j => f[k] < f[j]
      BY DEF Lists
    <2>2. j < k
      BY <1>1, <1>4, <1>6, <1>8, <2>1
    <2>3. g[j] < g[k] /\ g[j] = g[k]
      BY <1>3, <1>6, <2>2 DEF Lists
    <2> QED BY <1>1, <2>3
  <1> QED BY <1>1, <1>2, <1>4, <1>7, <1>8

LEMMA ListExists ==
  ASSUME NEW S \in SUBSET Nat, IsFiniteSet(S)
  PROVE  Cardinality(S) \in Nat /\ \E f : Lists(f, Cardinality(S), S)
  <1> DEFINE Good == {n \in Nat : \A T \in SUBSET Nat :
                         IsFiniteSet(T) /\ Cardinality(T) = n => \E f : Lists(f, n, T)}
  <1>1. 0 \in Good
    <2> SUFFICES ASSUME NEW T \in SUBSET Nat, IsFiniteSet(T), Cardinality(T) = 0
                 PROVE  \E f : Lists(f, 0, T)
      OBVIOUS
    <2>1. T = {}
      BY FS_EmptySet
    <2>2. Lists([i \in 1 .. 0 |-> i], 0, T)
      BY <2>1 DEF Lists
    <2> QED BY <2>2
  <1>2. ASSUME NEW n \in Nat, n \in Good PROVE n + 1 \in Good
    <2> SUFFICES ASSUME NEW T \in SUBSET Nat, IsFiniteSet(T), Cardinality(T) = n + 1
                 PROVE  \E f : Lists(f, n + 1, T)
      OBVIOUS
    <2>1. T # {}
      BY FS_EmptySet
    <2>2. PICK m \in T : \A x \in T : m <= x
      BY <2>1, Least
    <2>3. IsFiniteSet(T \ {m}) /\ Cardinality(T \ {m}) = n
      <3>1. IsFiniteSet(T \ {m}) /\ Cardinality(T \ {m}) = (n + 1) - 1
        BY <2>2, FS_RemoveElement
      <3> QED BY <3>1
    <2>4. PICK g : Lists(g, n, T \ {m})
      BY <1>2, <2>3
    <2> DEFINE f == [i \in 1 .. n + 1 |-> IF i = 1 THEN m ELSE g[i - 1]]
    <2>5. f \in [1 .. n + 1 -> T]
      BY <2>2, <2>4 DEF Lists
    <2>6. ASSUME NEW i \in 1 .. n + 1, NEW j \in 1 .. n + 1, i < j PROVE f[i] < f[j]
      <3>1. j - 1 \in 1 .. n /\ j # 1 /\ g[j - 1] \in T \ {m}
        BY <2>4, <2>6 DEF Lists
      <3>2. CASE i = 1
        <4>1. g[j - 1] \in T /\ g[j - 1] # m /\ m \in Nat /\ g[j - 1] \in Nat
          BY <3>1
        <4>2. m < g[j - 1]
          BY <2>2, <4>1
        <4> QED BY <3>1, <3>2, <4>2
      <3>3. CASE i # 1
        <4>1. i - 1 \in 1 .. n /\ i - 1 < j - 1
          BY <2>6, <3>3
        <4> QED BY <2>4, <3>1, <3>3, <4>1 DEF Lists
      <3> QED BY <3>2, <3>3
    <2>7. ASSUME NEW x \in T PROVE \E i \in 1 .. n + 1 : f[i] = x
      <3>1. CASE x = m
        BY <3>1
      <3>2. CASE x # m
        <4>1. PICK i \in 1 .. n : g[i] = x
          BY <2>4, <3>2 DEF Lists
        <4>2. i + 1 \in 1 .. n + 1 /\ i + 1 # 1 /\ (i + 1) - 1 = i
          OBVIOUS
        <4> QED BY <4>1, <4>2
      <3> QED BY <3>1, <3>2
    <2> QED BY <2>5, <2>6, <2>7 DEF Lists
  <1>3. Nat \subseteq Good
    <2> HIDE DEF Good
    <2> QED BY <1>1, <1>2, Induct
  <1> QED BY <1>3, FS_CardinalityType

\* InOrder lists the set, and nothing else does.
LEMMA InOrderLists ==
  ASSUME NEW S \in SUBSET Nat, IsFiniteSet(S)
  PROVE  Cardinality(S) \in Nat /\ Lists(InOrder(S), Cardinality(S), S)
  <1> DEFINE n == Cardinality(S)
             f == InOrder(S)
  <1>1. n \in Nat /\ \E g : Lists(g, n, S)
    BY ListExists
  <1>2. f \in [1 .. n -> S] /\ \A i, j \in 1 .. n : i < j => f[i] < f[j]
    <2>1. \E g \in [1 .. n -> S] : \A i, j \in DOMAIN g : i < j => g[i] < g[j]
      BY <1>1 DEF Lists
    <2>2. f \in [1 .. n -> S] /\ \A i, j \in DOMAIN f : i < j => f[i] < f[j]
      BY <2>1 DEF InOrder
    <2> QED BY <2>2
  <1> HIDE DEF f
  <1>3. f \in Injection(1 .. n, S)
    <2>1. \A i \in 1 .. n : f[i] \in Nat
      BY <1>2
    <2>2. \A i, j \in 1 .. n : f[i] = f[j] => i = j
      BY <1>1, <1>2, <2>1
    <2> QED BY <1>2, <2>2 DEF Injection, IsInjective
  <1>4. IsFiniteSet(1 .. n) /\ Cardinality(1 .. n) = n
    BY <1>1, FS_Interval
  <1>5. f \in Surjection(1 .. n, S)
    BY <1>3, <1>4, FS_Injection
  <1> QED BY <1>1, <1>2, <1>5 DEF Lists, Surjection, f

LEMMA InOrderIs ==
  ASSUME NEW S \in SUBSET Nat, NEW n \in Nat, NEW f, Lists(f, n, S)
  PROVE  IsFiniteSet(S) /\ Cardinality(S) = n /\ InOrder(S) = f
  BY ListsOnce, InOrderLists, ListsUnique

LEMMA PickedIs ==
  ASSUME NEW S \in SUBSET Nat, NEW n \in Nat, NEW f, Lists(f, n, S), NEW s
  PROVE  Picked(s, S) = [k \in 1 .. n |-> s[f[k]]]
  <1>1. Cardinality(S) = n /\ InOrder(S) = f
    BY InOrderIs
  <1> QED BY <1>1 DEF Picked

LEMMA PickedAppend ==
  ASSUME NEW A \in SUBSET Nat, IsFiniteSet(A), NEW B \in SUBSET Nat, IsFiniteSet(B),
         \A a \in A, b \in B : a < b, NEW s
  PROVE  Picked(s, A \cup B) = Picked(s, A) \o Picked(s, B)
  <1> DEFINE m == Cardinality(A)
             n == Cardinality(B)
             f == InOrder(A)
             g == InOrder(B)
             h == [k \in 1 .. m + n |-> IF k <= m THEN f[k] ELSE g[k - m]]
  <1>1. m \in Nat /\ n \in Nat /\ Lists(f, m, A) /\ Lists(g, n, B)
    BY InOrderLists
  <1> HIDE DEF f, g, m, n
  <1>2. \A k \in 1 .. m + n : k > m => k - m \in 1 .. n
    BY <1>1
  <1>3. h \in [1 .. m + n -> A \cup B]
    BY <1>1, <1>2 DEF Lists
  <1>4. ASSUME NEW i \in 1 .. m + n, NEW j \in 1 .. m + n, i < j PROVE h[i] < h[j]
    <2>1. CASE j <= m
      <3>1. i \in 1 .. m /\ j \in 1 .. m
        BY <1>1, <1>4, <2>1
      <3> QED BY <1>1, <1>4, <3>1 DEF Lists
    <2>2. CASE i <= m /\ j > m
      <3>1. i \in 1 .. m /\ j - m \in 1 .. n /\ h[i] = f[i] /\ h[j] = g[j - m]
        BY <1>1, <1>2, <2>2
      <3> QED BY <1>1, <3>1 DEF Lists
    <2>3. CASE i > m
      <3>1. i - m \in 1 .. n /\ j - m \in 1 .. n /\ h[i] = g[i - m] /\ h[j] = g[j - m]
        BY <1>1, <1>2, <1>4, <2>3
      <3>2. i - m < j - m
        BY <1>1, <1>4
      <3> QED BY <1>1, <3>1, <3>2 DEF Lists
    <2> QED BY <1>1, <2>1, <2>2, <2>3
  <1>5. ASSUME NEW x \in A \cup B PROVE \E i \in 1 .. m + n : h[i] = x
    <2>1. CASE x \in A
      <3>1. PICK i \in 1 .. m : f[i] = x
        BY <1>1, <2>1 DEF Lists
      <3>2. i \in 1 .. m + n /\ h[i] = x
        BY <1>1, <3>1
      <3> QED BY <3>2
    <2>2. CASE x \in B
      <3>1. PICK i \in 1 .. n : g[i] = x
        BY <1>1, <2>2 DEF Lists
      <3>2. i + m \in 1 .. m + n /\ ~(i + m <= m) /\ (i + m) - m = i
        BY <1>1
      <3> QED BY <3>1, <3>2
    <2> QED BY <2>1, <2>2
  <1>6. Lists(h, m + n, A \cup B)
    BY <1>3, <1>4, <1>5 DEF Lists
  <1>7. Picked(s, A \cup B) = [k \in 1 .. m + n |-> s[h[k]]]
    <2> HIDE DEF h
    <2>1. m + n \in Nat /\ A \cup B \in SUBSET Nat
      BY <1>1
    <2>2. Cardinality(A \cup B) = m + n /\ InOrder(A \cup B) = h
      BY <1>6, <2>1, InOrderIs
    <2> QED BY <2>2 DEF Picked
  <1>8. Picked(s, A) = [k \in 1 .. m |-> s[f[k]]] /\ Picked(s, B) = [k \in 1 .. n |-> s[g[k]]]
    BY DEF Picked, f, g, m, n
  <1>9. Picked(s, A) \o Picked(s, B) =
          [k \in 1 .. m + n |-> IF k <= m THEN s[f[k]] ELSE s[g[k - m]]]
    BY <1>1, <1>8
  <1> QED BY <1>7, <1>9

LEMMA PickedNone == ASSUME NEW s PROVE Picked(s, {}) = <<>>
  <1>1. [k \in 1 .. 0 |-> s[InOrder({})[k]]] = <<>>
    OBVIOUS
  <1> QED BY <1>1, FS_EmptySet DEF Picked

LEMMA PickedOne == ASSUME NEW i \in Nat, NEW s PROVE Picked(s, {i}) = <<s[i]>>
  <1> DEFINE f == [k \in 1 .. 1 |-> i]
  <1>1. Lists(f, 1, {i}) /\ {i} \in SUBSET Nat
    BY DEF Lists
  <1>2. f[1] = i
    OBVIOUS
  <1> HIDE DEF f
  <1>3. Cardinality({i}) = 1 /\ InOrder({i}) = f
    BY <1>1, InOrderIs
  <1>4. Picked(s, {i}) = [k \in 1 .. 1 |-> s[f[k]]]
    BY <1>3 DEF Picked
  <1>5. [k \in 1 .. 1 |-> s[f[k]]] = <<s[i]>>
    BY <1>2
  <1> QED BY <1>4, <1>5

LEMMA PickedRange ==
  ASSUME NEW a \in Nat \ {0}, NEW b \in Nat, a <= b + 1, NEW s
  PROVE  Picked(s, a .. b) = SubSeq(s, a, b)
  <1> DEFINE n == (b + 1) - a
             f == [k \in 1 .. n |-> (k + a) - 1]
  <1>1. n \in Nat /\ a .. b \in SUBSET Nat
    OBVIOUS
  <1>2. Lists(f, n, a .. b)
    <2>1. f \in [1 .. n -> a .. b] /\ \A i, j \in 1 .. n : i < j => f[i] < f[j]
      OBVIOUS
    <2>2. ASSUME NEW x \in a .. b PROVE \E i \in 1 .. n : f[i] = x
      <3>1. (x + 1) - a \in 1 .. n /\ f[(x + 1) - a] = x
        OBVIOUS
      <3> QED BY <3>1
    <2> QED BY <2>1, <2>2 DEF Lists
  <1>3. Picked(s, a .. b) = [k \in 1 .. n |-> s[f[k]]]
    <2> HIDE DEF f, n
    <2>1. Cardinality(a .. b) = n /\ InOrder(a .. b) = f
      BY <1>1, <1>2, InOrderIs
    <2> QED BY <2>1 DEF Picked
  <1> QED BY <1>3

-----------------------------------------------------------------------------
(***************************************************************************)
(* Sequences put together.                                                 *)
(***************************************************************************)

LEMMA ConcatAt ==
  ASSUME NEW T, NEW a \in Seq(T), NEW b \in Seq(T)
  PROVE  /\ a \o b \in Seq(T) /\ Len(a \o b) = Len(a) + Len(b)
         /\ \A x \in 1 .. Len(a) : (a \o b)[x] = a[x]
         /\ \A x \in 1 .. Len(b) : (a \o b)[Len(a) + x] = b[x]
  OBVIOUS

LEMMA Tuples ==
  ASSUME NEW T, NEW x \in T, NEW y \in T
  PROVE  /\ <<x>> \in Seq(T) /\ Len(<<x>>) = 1 /\ <<x>>[1] = x
         /\ <<x, y>> \in Seq(T) /\ Len(<<x, y>>) = 2 /\ <<x, y>>[1] = x /\ <<x, y>>[2] = y
         /\ <<x>> \o <<>> = <<x>> /\ <<x>> \o <<y>> = <<x, y>>
  <1>1. <<x>> \in Seq(T) /\ <<y>> \in Seq(T) /\ <<x, y>> \in Seq(T)
    OBVIOUS
  <1>2. <<x>> \o <<y>> = <<x, y>>
    <2> DEFINE s == <<x>> \o <<y>>
    <2>1. s \in Seq(T) /\ Len(s) = 2 /\ s[1] = x /\ s[2] = y
      <3>1. /\ s \in Seq(T) /\ Len(s) = Len(<<x>>) + Len(<<y>>)
            /\ \A k \in 1 .. Len(<<x>>) : s[k] = <<x>>[k]
            /\ \A k \in 1 .. Len(<<y>>) : s[Len(<<x>>) + k] = <<y>>[k]
        BY <1>1, ConcatAt
      <3>2. Len(<<x>>) = 1 /\ Len(<<y>>) = 1 /\ <<x>>[1] = x /\ <<y>>[1] = y
        OBVIOUS
      <3>3. Len(s) = 2
        BY <3>1, <3>2
      <3>4. s[1] = x
        BY <3>1, <3>2
      <3>5. s[1 + 1] = y
        BY <3>1, <3>2
      <3> QED BY <3>1, <3>3, <3>4, <3>5
    <2> HIDE DEF s
    <2>2. s = <<x, y>>
      BY <2>1
    <2> QED BY <2>2 DEF s
  <1> QED BY <1>1, <1>2

\* FlattenSeq goes through the sequence from the left.
LEMMA Flatten ==
  ASSUME NEW T, NEW seqs \in Seq(Seq(T)), seqs # <<>>
  PROVE  \E f \in [1 .. Len(seqs) -> Seq(T)] :
           /\ f[1] = seqs[1]
           /\ \A i \in 1 .. Len(seqs) : i > 1 => f[i] = f[i - 1] \o seqs[i]
           /\ FlattenSeq(seqs) = f[Len(seqs)]
  <1> DEFINE Flat(f, n) ==
               /\ f \in [1 .. n -> Seq(T)]
               /\ \A i \in 1 .. n : f[i] = IF i = 1 THEN seqs[i] ELSE f[i - 1] \o seqs[i]
             Good == {n \in Nat : n <= Len(seqs) => \E f : Flat(f, n)}
  <1>1. Len(seqs) \in Nat \ {0} /\ \A i \in 1 .. Len(seqs) : seqs[i] \in Seq(T)
    OBVIOUS
  <1>2. 0 \in Good
    <2>1. Flat([i \in 1 .. 0 |-> <<>>], 0)
      OBVIOUS
    <2> QED BY <2>1
  <1>3. ASSUME NEW n \in Nat, n \in Good PROVE n + 1 \in Good
    <2> SUFFICES ASSUME n + 1 <= Len(seqs) PROVE \E f : Flat(f, n + 1)
      OBVIOUS
    <2>1. n <= Len(seqs)
      BY <1>1
    <2>2. PICK g : Flat(g, n)
      <3> HIDE DEF Flat
      <3> QED BY <1>3, <2>1
    <2>3. seqs[n + 1] \in Seq(T) /\ n + 1 \in 1 .. n + 1
      BY <1>1
    <2> DEFINE x == IF n = 0 THEN seqs[n + 1] ELSE g[n] \o seqs[n + 1]
               f == [i \in 1 .. n + 1 |-> IF i = n + 1 THEN x ELSE g[i]]
    <2>4. x \in Seq(T)
      BY <2>2, <2>3
    <2>5. f \in [1 .. n + 1 -> Seq(T)]
      <3> HIDE DEF x
      <3> QED BY <2>2, <2>4
    <2>6. ASSUME NEW i \in 1 .. n + 1
          PROVE  f[i] = IF i = 1 THEN seqs[i] ELSE f[i - 1] \o seqs[i]
      <3>1. CASE i = n + 1
        <4>1. i = 1 \/ (i - 1 \in 1 .. n + 1 /\ i - 1 # n + 1 /\ i - 1 = n /\ n # 0)
          BY <3>1
        <4> QED BY <3>1, <4>1
      <3>2. CASE i # n + 1
        <4>1. i \in 1 .. n /\ (i = 1 \/ (i - 1 \in 1 .. n + 1 /\ i - 1 # n + 1))
          BY <3>2
        <4> QED BY <2>2, <3>2, <4>1
      <3> QED BY <3>1, <3>2
    <2> QED BY <2>5, <2>6
  <1>4. PICK g : Flat(g, Len(seqs))
    <2> HIDE DEF Good, Flat
    <2>1. Nat \subseteq Good
      BY <1>2, <1>3, Induct
    <2>2. Len(seqs) \in Good
      BY <1>1, <2>1
    <2> QED BY <1>1, <2>2 DEF Good
  <1> DEFINE Eq(f) == f = [i \in 1 .. Len(seqs) |-> IF i = 1 THEN seqs[i] ELSE f[i - 1] \o seqs[i]]
             flatten == CHOOSE f : Eq(f)
  <1>5. Eq(g)
    BY <1>4
  <1>6. Eq(flatten)
    <2> HIDE DEF Eq
    <2> QED BY <1>5
  <1>7. FlattenSeq(seqs) = flatten[Len(seqs)]
    BY <1>1 DEF FlattenSeq
  <1> HIDE DEF flatten
  <1>8. \A i \in 1 .. Len(seqs) : flatten[i] = IF i = 1 THEN seqs[i] ELSE flatten[i - 1] \o seqs[i]
    BY <1>6
  <1> DEFINE Typed == {n \in Nat : n \in 1 .. Len(seqs) => flatten[n] \in Seq(T)}
  <1>9. \A n \in 1 .. Len(seqs) : flatten[n] \in Seq(T)
    <2>1. 0 \in Typed
      OBVIOUS
    <2>2. ASSUME NEW n \in Nat, n \in Typed PROVE n + 1 \in Typed
      <3> SUFFICES ASSUME n + 1 \in 1 .. Len(seqs) PROVE flatten[n + 1] \in Seq(T)
        OBVIOUS
      <3>1. CASE n = 0
        BY <1>1, <1>8, <3>1
      <3>2. CASE n # 0
        <4>1. n \in 1 .. Len(seqs) /\ n + 1 # 1 /\ (n + 1) - 1 = n
          BY <1>1, <3>2
        <4>2. flatten[n + 1] = flatten[n] \o seqs[n + 1]
          BY <1>8, <4>1
        <4> QED BY <1>1, <2>2, <4>1, <4>2
      <3> QED BY <3>1, <3>2
    <2>3. Nat \subseteq Typed
      <3> HIDE DEF Typed
      <3> QED BY <2>1, <2>2, Induct
    <2> QED BY <1>1, <2>3
  <1>10. flatten \in [1 .. Len(seqs) -> Seq(T)]
    BY <1>6, <1>9
  <1>11. /\ flatten[1] = seqs[1]
         /\ \A i \in 1 .. Len(seqs) : i > 1 => flatten[i] = flatten[i - 1] \o seqs[i]
    <2>1. 1 \in 1 .. Len(seqs) /\ \A i \in 1 .. Len(seqs) : i > 1 => i # 1
      BY <1>1
    <2> QED BY <1>8, <2>1
  <1> QED BY <1>7, <1>10, <1>11

\* A flattened list of one-element sequences.
LEMMA FlattenOnes ==
  ASSUME NEW T, NEW n \in Nat \ {0}, NEW x \in [1 .. n -> T]
  PROVE  FlattenSeq([k \in 1 .. n |-> <<x[k]>>]) = x
  <1> DEFINE seqs == [k \in 1 .. n |-> <<x[k]>>]
             U == Seq(T)
  <1>1. \A k \in 1 .. n : <<x[k]>> \in U
    <2> TAKE k \in 1 .. n
    <2>1. x[k] \in T
      OBVIOUS
    <2> QED BY <2>1, Tuples
  <1>2. seqs \in Seq(U) /\ seqs # <<>> /\ Len(seqs) = n
    <2>1. seqs \in [1 .. n -> U]
      <3> HIDE DEF U
      <3> QED BY <1>1
    <2> HIDE DEF U, seqs
    <2>2. seqs \in Seq(U) /\ Len(seqs) = n
      BY <2>1
    <2> QED BY <2>2
  <1>3. \A k \in 1 .. n : seqs[k] = <<x[k]>>
    OBVIOUS
  <1> HIDE DEF seqs
  <1>4. PICK f \in [1 .. n -> Seq(T)] :
          /\ f[1] = seqs[1]
          /\ \A i \in 1 .. n : i > 1 => f[i] = f[i - 1] \o seqs[i]
          /\ FlattenSeq(seqs) = f[n]
    BY <1>2, Flatten
  <1> DEFINE Good == {i \in Nat : i \in 1 .. n =>
                        Len(f[i]) = i /\ \A k \in 1 .. i : f[i][k] = x[k]}
  <1>5. 0 \in Good
    OBVIOUS
  <1>6. ASSUME NEW i \in Nat, i \in Good PROVE i + 1 \in Good
    <2> SUFFICES ASSUME i + 1 \in 1 .. n
                 PROVE  Len(f[i + 1]) = i + 1 /\ \A k \in 1 .. i + 1 : f[i + 1][k] = x[k]
      OBVIOUS
    <2>1. x[i + 1] \in T /\ seqs[i + 1] = <<x[i + 1]>>
      BY <1>3
    <2>2. seqs[i + 1] \in Seq(T) /\ Len(seqs[i + 1]) = 1 /\ seqs[i + 1][1] = x[i + 1]
      BY <2>1, Tuples
    <2>3. CASE i = 0
      <3>1. i + 1 = 1 /\ f[1] = seqs[1]
        BY <1>4, <2>3
      <3>2. Len(f[1]) = 1 /\ f[1][1] = x[1]
        BY <2>2, <3>1
      <3>3. \A k \in 1 .. i + 1 : k = 1
        BY <2>3
      <3> QED BY <3>1, <3>2, <3>3
    <2>4. CASE i # 0
      <3>1. i \in 1 .. n /\ i + 1 > 1 /\ (i + 1) - 1 = i
        BY <2>4
      <3>2. f[i + 1] = f[i] \o seqs[i + 1] /\ f[i] \in Seq(T)
        BY <1>4, <3>1
      <3>3. Len(f[i]) = i /\ \A k \in 1 .. i : f[i][k] = x[k]
        BY <1>6, <3>1
      <3>4. /\ Len(f[i + 1]) = Len(f[i]) + Len(seqs[i + 1])
            /\ \A k \in 1 .. Len(f[i]) : f[i + 1][k] = f[i][k]
            /\ \A k \in 1 .. Len(seqs[i + 1]) : f[i + 1][Len(f[i]) + k] = seqs[i + 1][k]
        <4> DEFINE a == f[i]
                   b == seqs[i + 1]
        <4>1. a \in Seq(T) /\ b \in Seq(T) /\ f[i + 1] = a \o b
          BY <2>2, <3>2
        <4> HIDE DEF a, b
        <4>2. /\ Len(a \o b) = Len(a) + Len(b)
              /\ \A k \in 1 .. Len(a) : (a \o b)[k] = a[k]
              /\ \A k \in 1 .. Len(b) : (a \o b)[Len(a) + k] = b[k]
          BY <4>1, ConcatAt
        <4> QED BY <4>1, <4>2 DEF a, b
      <3>5. \A k \in 1 .. i : f[i + 1][k] = x[k]
        BY <3>3, <3>4
      <3>6. f[i + 1][i + 1] = x[i + 1]
        BY <2>2, <3>3, <3>4
      <3> QED BY <2>2, <3>3, <3>4, <3>5, <3>6
    <2> QED BY <2>3, <2>4
  <1>7. Nat \subseteq Good
    <2> HIDE DEF Good
    <2> QED BY <1>5, <1>6, Induct
  <1>8. n \in Nat /\ n \in 1 .. n
    OBVIOUS
  <1>9. Len(f[n]) = n /\ \A k \in 1 .. n : f[n][k] = x[k]
    BY <1>7, <1>8
  <1>10. f[n] \in Seq(T)
    BY <1>4, <1>8
  <1>11. f[n] = x
    BY <1>9, <1>10
  <1> QED BY <1>4, <1>11 DEF seqs

-----------------------------------------------------------------------------
(***************************************************************************)
(* What SPEAKER_RE finds.                                                  *)
(***************************************************************************)

\* What SPEAKER_RE may find in a text, and the search from line i on, where f[j] is
\* what is found from line j on.
Hits(text) ==
  [speaker : {text[i].label : i \in DOMAIN text},
   text : {<<x>> : x \in Range(text) \cup {Line(Nothing, text[i].words) : i \in DOMAIN text}}]
After(text, i) == {j \in i + 1 .. Len(text) : ~Blank(text[j])}
FindFrom(text, f, i) ==
  IF i > Len(text) THEN <<>>
  ELSE IF Labelled(text[i])
       THEN <<Segment(text[i].label, <<Line(Nothing, text[i].words)>>)>> \o f[i + 1]
  ELSE IF IsBare(text[i]) /\ After(text, i) # {}
       THEN <<Segment(text[i].label, <<text[Min(After(text, i))]>>)>> \o f[Min(After(text, i)) + 1]
       ELSE f[i + 1]

LEMMA AfterLater ==
  ASSUME NEW text, Len(text) \in Nat, NEW i \in Nat, After(text, i) # {}
  PROVE  /\ Min(After(text, i)) \in i + 1 .. Len(text)
         /\ ~Blank(text[Min(After(text, i))])
         /\ \A j \in i + 1 .. Min(After(text, i)) - 1 : Blank(text[j])
  <1> DEFINE S == After(text, i)
  <1>1. S \in SUBSET Nat /\ S # {}
    BY DEF After
  <1> HIDE DEF S
  <1>2. Min(S) \in S /\ \A x \in S : Min(S) <= x
    BY <1>1, MinIs
  <1>3. Min(S) \in i + 1 .. Len(text) /\ ~Blank(text[Min(S)])
    BY <1>2 DEF S, After
  <1>4. ASSUME NEW j \in i + 1 .. Min(S) - 1 PROVE Blank(text[j])
    <2>1. j \notin S /\ j \in i + 1 .. Len(text)
      BY <1>2, <1>3
    <2> QED BY <2>1 DEF S, After
  <1> QED BY <1>3, <1>4 DEF S

LEMMA FindFromType ==
  ASSUME NEW text, text \in Seq(Range(text)), NEW f, NEW i \in Nat \ {0},
         \A j \in Nat : j > i => f[j] \in Seq(Hits(text))
  PROVE  FindFrom(text, f, i) \in Seq(Hits(text))
  <1> DEFINE H == Hits(text)
  <1>1. Len(text) \in Nat /\ DOMAIN text = 1 .. Len(text) /\ f[i + 1] \in Seq(H)
    OBVIOUS
  <1>2. CASE i > Len(text)
    <2>1. FindFrom(text, f, i) = <<>>
      BY <1>2 DEF FindFrom
    <2> QED BY <2>1
  <1>3. CASE i <= Len(text) /\ Labelled(text[i])
    <2> DEFINE s == Segment(text[i].label, <<Line(Nothing, text[i].words)>>)
    <2>1. s \in H
      <3>1. i \in DOMAIN text
        BY <1>1, <1>3
      <3> QED BY <3>1 DEF Hits, Segment
    <2>2. FindFrom(text, f, i) = <<s>> \o f[i + 1]
      <3>1. ~(i > Len(text))
        BY <1>1, <1>3
      <3> QED BY <3>1, <1>3, Zenon DEF FindFrom
    <2> HIDE DEF s, H
    <2> QED BY <1>1, <2>1, <2>2, Tuples, ConcatAt DEF H
  <1>4. CASE i <= Len(text) /\ ~Labelled(text[i]) /\ IsBare(text[i]) /\ After(text, i) # {}
    <2> DEFINE m == Min(After(text, i))
               s == Segment(text[i].label, <<text[m]>>)
    <2>1. m \in i + 1 .. Len(text)
      BY <1>1, <1>4, AfterLater
    <2>2. s \in H
      <3>1. i \in DOMAIN text /\ m \in DOMAIN text
        BY <1>1, <1>4, <2>1
      <3> HIDE DEF m
      <3>2. text[m] \in Range(text)
        BY <3>1 DEF Range
      <3> QED BY <3>1, <3>2 DEF Hits, Segment
    <2>3. FindFrom(text, f, i) = <<s>> \o f[m + 1]
      <3>1. ~(i > Len(text))
        BY <1>1, <1>4
      <3> QED BY <3>1, <1>4, Zenon DEF FindFrom
    <2> HIDE DEF s, H, m
    <2>4. f[m + 1] \in Seq(H)
      BY <2>1 DEF H
    <2> QED BY <2>2, <2>3, <2>4, Tuples, ConcatAt DEF H
  <1>5. CASE i <= Len(text) /\ ~Labelled(text[i]) /\ ~(IsBare(text[i]) /\ After(text, i) # {})
    <2>1. FindFrom(text, f, i) = f[i + 1]
      BY <1>1, <1>5 DEF FindFrom
    <2> QED BY <1>1, <2>1
  <1>6. i > Len(text) \/ i <= Len(text)
    BY <1>1
  <1> QED BY <1>2, <1>3, <1>4, <1>5, <1>6, Zenon

\* The search only looks ahead.
LEMMA FindFromAhead ==
  ASSUME NEW text, Len(text) \in Nat, NEW f, NEW g, NEW i \in Nat,
         \A j \in Nat : j > i => f[j] = g[j]
  PROVE  FindFrom(text, f, i) = FindFrom(text, g, i)
  <1>1. f[i + 1] = g[i + 1]
    OBVIOUS
  <1>2. After(text, i) # {} => f[Min(After(text, i)) + 1] = g[Min(After(text, i)) + 1]
    <2> SUFFICES ASSUME After(text, i) # {}
                 PROVE  f[Min(After(text, i)) + 1] = g[Min(After(text, i)) + 1]
      OBVIOUS
    <2>1. Min(After(text, i)) \in i + 1 .. Len(text)
      BY AfterLater
    <2> QED BY <2>1
  <1> QED BY <1>1, <1>2 DEF FindFrom

\* The search as a function.
Search(text, f) ==
  \A i \in Nat \ {0} : f[i] \in Seq(Hits(text)) /\ f[i] = FindFrom(text, f, i)

LEMMA SearchExists ==
  ASSUME NEW text, Len(text) \in Nat
  PROVE  \E f : f = [i \in Nat |-> FindFrom(text, f, i)]
  <1> DEFINE Eq(f, m) == /\ f = [i \in Nat |-> f[i]]
                         /\ \A i \in Nat : i + m > Len(text) => f[i] = FindFrom(text, f, i)
             Good == {m \in Nat : \E f : Eq(f, m)}
  <1>1. 0 \in Good
    <2> DEFINE f == [i \in Nat |-> <<>>]
    <2>1. \A i \in Nat : i + 0 > Len(text) => f[i] = FindFrom(text, f, i)
      BY DEF FindFrom
    <2> QED BY <2>1
  <1>2. ASSUME NEW m \in Nat, m \in Good PROVE m + 1 \in Good
    <2>1. PICK g : Eq(g, m)
      <3> HIDE DEF Eq
      <3> QED BY <1>2
    <2>2. CASE Len(text) < m
      <3>1. Eq(g, m + 1)
        BY <2>1, <2>2
      <3> HIDE DEF Eq
      <3> QED BY <3>1
    <2>3. CASE ~(Len(text) < m)
      <3> DEFINE k == Len(text) - m
                 f == [i \in Nat |-> IF i = k THEN FindFrom(text, g, k) ELSE g[i]]
      <3>1. k \in Nat
        BY <2>3
      <3>2. \A j \in Nat : j > k => f[j] = g[j]
        BY <3>1
      <3>3. ASSUME NEW i \in Nat, i + (m + 1) > Len(text) PROVE f[i] = FindFrom(text, f, i)
        <4>1. i >= k
          BY <3>3
        <4>2. \A j \in Nat : j > i => f[j] = g[j]
          BY <3>1, <3>2, <4>1
        <4>3. FindFrom(text, f, i) = FindFrom(text, g, i)
          <5> HIDE DEF f
          <5> QED BY <4>2, FindFromAhead
        <4>4. CASE i = k
          <5>1. f[i] = FindFrom(text, g, i)
            <6> HIDE DEF k
            <6> QED BY <3>1, <4>4
          <5> QED BY <4>3, <5>1
        <4>5. CASE i # k
          <5>1. i + m > Len(text)
            BY <4>1, <4>5
          <5>2. f[i] = g[i]
            <6> HIDE DEF k
            <6> QED BY <4>5
          <5> QED BY <2>1, <4>3, <5>1, <5>2
        <4> QED BY <4>4, <4>5
      <3>4. f = [i \in Nat |-> f[i]]
        OBVIOUS
      <3> HIDE DEF f
      <3>5. Eq(f, m + 1)
        BY <3>3, <3>4
      <3> HIDE DEF Eq
      <3> QED BY <3>5
    <2> QED BY <2>2, <2>3
  <1>3. Len(text) + 1 \in Good
    <2>1. Nat \subseteq Good
      <3> HIDE DEF Good
      <3> QED BY <1>1, <1>2, Induct
    <2>2. Len(text) + 1 \in Nat
      OBVIOUS
    <2> HIDE DEF Good
    <2> QED BY <2>1, <2>2
  <1>4. PICK f : Eq(f, Len(text) + 1)
    <2> HIDE DEF Eq
    <2> QED BY <1>3
  <1>5. \A i \in Nat : f[i] = FindFrom(text, f, i)
    BY <1>4
  <1>6. f = [i \in Nat |-> f[i]]
    BY <1>4
  <1>7. f = [i \in Nat |-> FindFrom(text, f, i)]
    BY <1>5, <1>6
  <1> QED BY <1>7

LEMMA MatchesSearch ==
  ASSUME NEW text, text \in Seq(Range(text))
  PROVE  \E f : Search(text, f) /\ Matches(text) = f[1]
  <1> DEFINE Eq(f) == f = [i \in Nat |-> FindFrom(text, f, i)]
             found == CHOOSE f : Eq(f)
  <1>1. Len(text) \in Nat
    OBVIOUS
  <1>2. Matches(text) = found[1]
    BY DEF Matches, FindFrom, After
  <1>3. Eq(found)
    <2>1. \E f : Eq(f)
      BY <1>1, SearchExists
    <2> HIDE DEF Eq
    <2> QED BY <2>1
  <1> HIDE DEF found
  <1>4. \A i \in Nat : found[i] = FindFrom(text, found, i)
    BY <1>3
  <1> DEFINE D == {i \in Nat : found[i] \in Seq(Hits(text))}
  <1>5. \A i \in Nat : i > Len(text) => i \in D
    <2> TAKE i \in Nat
    <2> HAVE i > Len(text)
    <2>1. FindFrom(text, found, i) = <<>>
      BY Zenon DEF FindFrom
    <2>2. <<>> \in Seq(Hits(text))
      OBVIOUS
    <2>3. found[i] = <<>>
      BY <1>4, <2>1
    <2> QED BY <2>2, <2>3
  <1>6. ASSUME NEW i \in 1 .. Len(text), \A j \in Nat : j > i => j \in D PROVE i \in D
    <2>1. i \in Nat \ {0} /\ \A j \in Nat : j > i => found[j] \in Seq(Hits(text))
      BY <1>1, <1>6
    <2>2. FindFrom(text, found, i) \in Seq(Hits(text))
      BY <2>1, FindFromType
    <2> QED BY <1>4, <2>1, <2>2
  <1>7. \A i \in Nat \ {0} : i \in D
    <2> HIDE DEF D
    <2> QED BY <1>1, <1>5, <1>6, Backwards
  <1> QED BY <1>2, <1>4, <1>7 DEF Search

LabelledFrom(text, i) == {j \in DOMAIN text : j >= i /\ Labelled(text[j])}
OfLine(line) == Segment(line.label, <<Line(Nothing, line.words)>>)

\* Without bare labels the search finds the labelled lines.
LEMMA NoBareMatches ==
  ASSUME NEW text, text \in Seq(Range(text)), \A i \in DOMAIN text : ~IsBare(text[i])
  PROVE  Matches(text) = Picked([i \in DOMAIN text |-> OfLine(text[i])],
                                {i \in DOMAIN text : Labelled(text[i])})
  <1> DEFINE segs == [i \in DOMAIN text |-> OfLine(text[i])]
             n == Len(text)
  <1>1. n \in Nat /\ DOMAIN text = 1 .. n
    OBVIOUS
  <1>2. PICK f : Search(text, f) /\ Matches(text) = f[1]
    BY MatchesSearch
  <1> DEFINE D == {i \in Nat : i # 0 => f[i] = Picked(segs, LabelledFrom(text, i))}
  <1> HIDE DEF n
  <1>3. ASSUME NEW i \in Nat, i > n PROVE i \in D
    <2>1. f[i] = <<>>
      <3>1. f[i] = FindFrom(text, f, i) /\ i > Len(text)
        BY <1>1, <1>2, <1>3 DEF Search, n
      <3> QED BY <3>1, Zenon DEF FindFrom
    <2>2. LabelledFrom(text, i) = {}
      BY <1>1, <1>3 DEF LabelledFrom
    <2> HIDE DEF segs
    <2> QED BY <2>1, <2>2, PickedNone
  <1>4. ASSUME NEW i \in 1 .. n, \A j \in Nat : j > i => j \in D PROVE i \in D
    <2> SUFFICES f[i] = Picked(segs, LabelledFrom(text, i))
      BY <1>1
    <2>1. i \in DOMAIN text /\ i \in Nat /\ ~(i > Len(text)) /\ f[i] = FindFrom(text, f, i)
      BY <1>1, <1>2 DEF Search, n
    <2>2. f[i + 1] = Picked(segs, LabelledFrom(text, i + 1))
      BY <1>1, <1>4
    <2>3. CASE Labelled(text[i])
      <3>1. f[i] = <<OfLine(text[i])>> \o f[i + 1]
        BY <2>1, <2>3, Zenon DEF FindFrom, OfLine
      <3>2. LabelledFrom(text, i) = {i} \cup LabelledFrom(text, i + 1)
        BY <1>1, <2>1, <2>3 DEF LabelledFrom
      <3>3. segs[i] = OfLine(text[i])
        BY <2>1
      <3>4. LabelledFrom(text, i + 1) \in SUBSET Nat /\ IsFiniteSet(LabelledFrom(text, i + 1))
        <4>1. LabelledFrom(text, i + 1) \subseteq 1 .. n /\ IsFiniteSet(1 .. n)
          BY <1>1, FS_Interval DEF LabelledFrom
        <4>2. IsFiniteSet(LabelledFrom(text, i + 1))
          BY <4>1, FS_Subset
        <4> QED BY <4>1, <4>2
      <3>5. {i} \in SUBSET Nat /\ IsFiniteSet({i})
        BY <2>1, FS_Singleton
      <3>6. \A a \in {i}, b \in LabelledFrom(text, i + 1) : a < b
        BY <1>1, <2>1 DEF LabelledFrom
      <3> HIDE DEF segs
      <3>7. Picked(segs, {i} \cup LabelledFrom(text, i + 1))
              = Picked(segs, {i}) \o Picked(segs, LabelledFrom(text, i + 1))
        BY <3>4, <3>5, <3>6, PickedAppend
      <3>8. Picked(segs, {i}) = <<segs[i]>>
        BY <2>1, PickedOne
      <3> QED BY <2>2, <3>1, <3>2, <3>3, <3>7, <3>8
    <2>4. CASE ~Labelled(text[i])
      <3>1. f[i] = f[i + 1]
        BY <2>1, <2>4, Zenon DEF FindFrom
      <3>2. LabelledFrom(text, i) = LabelledFrom(text, i + 1)
        BY <1>1, <2>1, <2>4 DEF LabelledFrom
      <3> QED BY <2>2, <3>1, <3>2
    <2> QED BY <2>3, <2>4
  <1>5. \A i \in Nat \ {0} : i \in D
    <2> HIDE DEF D
    <2> QED BY <1>1, <1>3, <1>4, Backwards
  <1>6. f[1] = Picked(segs, LabelledFrom(text, 1))
    BY <1>5
  <1>7. LabelledFrom(text, 1) = {i \in DOMAIN text : Labelled(text[i])}
    BY <1>1 DEF LabelledFrom
  <1> QED BY <1>2, <1>6, <1>7

\* A labelled line that is not behind a bare label is found as what it is.
LEMMA OwnSegment ==
  ASSUME NEW text, text \in Seq(Range(text)), NEW p \in DOMAIN text,
         Labelled(text[p]), ~AfterBare(text, p)
  PROVE  OfLine(text[p]) \in Range(Matches(text)) /\ Matches(text) # <<>>
  <1> DEFINE own == OfLine(text[p])
             n == Len(text)
             H == Hits(text)
  <1>1. n \in Nat /\ DOMAIN text = 1 .. n /\ p \in 1 .. n
    OBVIOUS
  <1>2. PICK f : Search(text, f) /\ Matches(text) = f[1]
    BY MatchesSearch
  <1>3. ASSUME NEW s, NEW g \in Seq(H), NEW h \in Seq(H), h = <<s>> \o g, s \in H,
               s = own \/ \E k \in 1 .. Len(g) : g[k] = own
        PROVE  \E k \in 1 .. Len(h) : h[k] = own
    <2>1. Len(h) = Len(g) + 1 /\ h[1] = s /\ \A k \in 1 .. Len(g) : h[k + 1] = g[k]
      <3> HIDE DEF H
      <3> QED BY <1>3
    <2>2. Len(g) \in Nat
      OBVIOUS
    <2> HIDE DEF own, H
    <2>3. CASE s = own
      BY <2>1, <2>2, <2>3
    <2>4. ASSUME NEW k \in 1 .. Len(g), g[k] = own PROVE \E j \in 1 .. Len(h) : h[j] = own
      <3>1. k + 1 \in 1 .. Len(h) /\ h[k + 1] = own
        BY <2>1, <2>2, <2>4
      <3> QED BY <3>1
    <2> QED BY <1>3, <2>3, <2>4
  <1> DEFINE D == {i \in Nat : i \in 1 .. p => \E k \in 1 .. Len(f[i]) : f[i][k] = own}
  <1> HIDE DEF n
  <1>4. \A i \in Nat : i > n => i \in D
    BY <1>1
  <1>5. ASSUME NEW i \in 1 .. n, \A j \in Nat : j > i => j \in D PROVE i \in D
    <2> SUFFICES ASSUME i \in 1 .. p PROVE \E k \in 1 .. Len(f[i]) : f[i][k] = own
      BY <1>1
    <2>1. i \in DOMAIN text /\ i \in Nat \ {0} /\ ~(i > Len(text)) /\ f[i] = FindFrom(text, f, i)
      BY <1>1, <1>2 DEF Search, n
    <2>2. \A j \in Nat \ {0} : f[j] \in Seq(H)
      BY <1>2 DEF Search
    <2>3. ASSUME NEW j \in Nat, j > i, j <= p PROVE \E k \in 1 .. Len(f[j]) : f[j][k] = own
      BY <1>1, <1>5, <2>1, <2>3
    <2>4. i + 1 \in Nat \ {0} /\ i + 1 > i /\ (i # p => i + 1 <= p)
      BY <1>1, <2>1
    <2>5. ASSUME NEW s, NEW j \in Nat, j > i, f[i] = <<s>> \o f[j], s = own \/ j <= p, s \in H
          PROVE  \E k \in 1 .. Len(f[i]) : f[i][k] = own
      <3>1. f[i] \in Seq(H) /\ f[j] \in Seq(H)
        BY <2>1, <2>2, <2>5
      <3>2. s = own \/ \E k \in 1 .. Len(f[j]) : f[j][k] = own
        BY <2>3, <2>5
      <3> HIDE DEF own, H, D
      <3> QED BY <1>3, <2>5, <3>1, <3>2
    <2>6. CASE Labelled(text[i])
      <3>1. f[i] = <<OfLine(text[i])>> \o f[i + 1]
        BY <2>1, <2>6, Zenon DEF FindFrom, OfLine
      <3>2. OfLine(text[i]) \in H
        BY <2>1 DEF Hits, OfLine, Segment
      <3>3. OfLine(text[i]) = own \/ i + 1 <= p
        BY <2>4
      <3> QED BY <2>4, <2>5, <3>1, <3>2, <3>3
    <2>7. CASE ~Labelled(text[i]) /\ IsBare(text[i]) /\ After(text, i) # {}
      <3> DEFINE m == Min(After(text, i))
                 s == Segment(text[i].label, <<text[m]>>)
      <3>1. m \in i + 1 .. n /\ \A j \in i + 1 .. m - 1 : Blank(text[j])
        BY <1>1, <2>1, <2>7, AfterLater DEF n
      <3>2. f[i] = <<s>> \o f[m + 1]
        BY <2>1, <2>7, Zenon DEF FindFrom
      <3>3. s \in H
        <4>1. text[m] \in Range(text)
          <5> HIDE DEF m
          <5> QED BY <1>1, <3>1 DEF Range
        <4> HIDE DEF m
        <4> QED BY <2>1, <4>1 DEF Hits, Segment
      <3> HIDE DEF m
      <3>4. i < p /\ ~Blank(text[p])
        <4>1. i # p
          BY <2>7
        <4>2. ~Blank(text[p])
          BY DEF Blank, Labelled, Line
        <4> QED BY <1>1, <2>1, <4>1, <4>2
      <3>5. m <= p
        BY <1>1, <2>1, <3>1, <3>4
      <3>6. m # p
        <4> SUFFICES ASSUME m = p PROVE AfterBare(text, p)
          OBVIOUS
        <4>1. i \in 1 .. p - 1
          BY <1>1, <2>1, <3>4
        <4> QED BY <2>7, <3>1, <4>1 DEF AfterBare
      <3>7. m + 1 \in Nat /\ m + 1 > i /\ m + 1 <= p
        BY <1>1, <2>1, <3>1, <3>5, <3>6
      <3> HIDE DEF s
      <3> QED BY <2>5, <3>2, <3>3, <3>7
    <2>8. CASE ~Labelled(text[i]) /\ ~(IsBare(text[i]) /\ After(text, i) # {})
      <3>1. f[i] = f[i + 1]
        BY <2>1, <2>8, Zenon DEF FindFrom
      <3>2. i + 1 <= p
        BY <2>4, <2>8
      <3> QED BY <2>3, <2>4, <3>1, <3>2
    <2> QED BY <2>6, <2>7, <2>8
  <1>6. \A i \in Nat \ {0} : i \in D
    <2> HIDE DEF D
    <2> QED BY <1>1, <1>4, <1>5, Backwards
  <1>7. PICK k \in 1 .. Len(f[1]) : f[1][k] = own
    BY <1>1, <1>6
  <1>8. f[1] \in Seq(H)
    BY <1>2 DEF Search
  <1> HIDE DEF own, H
  <1>9. k \in DOMAIN f[1] /\ f[1] # <<>>
    BY <1>7, <1>8
  <1> QED BY <1>2, <1>7, <1>9 DEF Range, own

\* The labelled lines from i on are heard, in order, in what is found from there.
EmbedsBy(text, L, found, n, l, e) ==
  /\ n \in Nat /\ Lists(l, n, L)
  /\ e \in [1 .. n -> DOMAIN found]
  /\ \A j, k \in 1 .. n : j < k => e[j] < e[k]
  /\ \A k \in 1 .. n : found[e[k]].text[1].words = text[l[k]].words
Embeds(text, L, found) == \E n, l, e : EmbedsBy(text, L, found, n, l, e)

\* One more segment is found: for no labelled line, or for a labelled line.
LEMMA EmbedsBehind ==
  ASSUME NEW text, NEW L \in SUBSET Nat, NEW T, NEW found \in Seq(T), NEW s \in T,
         Embeds(text, L, found)
  PROVE  /\ Embeds(text, L, <<s>> \o found)
         /\ \A i \in Nat : (\A j \in L : i < j) /\ s.text[1].words = text[i].words
              => Embeds(text, {i} \cup L, <<s>> \o found)
  <1> DEFINE found1 == <<s>> \o found
             m == Len(found)
  <1>1. PICK n, l, e : EmbedsBy(text, L, found, n, l, e)
    BY DEF Embeds
  <1>2. /\ n \in Nat /\ Lists(l, n, L) /\ e \in [1 .. n -> DOMAIN found]
        /\ \A j, k \in 1 .. n : j < k => e[j] < e[k]
        /\ \A k \in 1 .. n : found[e[k]].text[1].words = text[l[k]].words
    BY <1>1 DEF EmbedsBy
  <1>3. m \in Nat /\ DOMAIN found = 1 .. m
    OBVIOUS
  <1>4. /\ DOMAIN found1 = 1 .. m + 1 /\ found1[1] = s
        /\ \A x \in 1 .. m : found1[x + 1] = found[x]
    <2>1. /\ found1 \in Seq(T) /\ Len(found1) = 1 + m /\ found1[1] = s
          /\ \A x \in 1 .. m : found1[1 + x] = found[x]
      OBVIOUS
    <2> HIDE DEF found1, m
    <2>2. Len(found1) = m + 1 /\ \A x \in 1 .. m : 1 + x = x + 1
      BY <1>3, <2>1
    <2> QED BY <2>1, <2>2
  <1> HIDE DEF found1, m
  <1>5. \A k \in 1 .. n : e[k] \in 1 .. m /\ e[k] + 1 \in DOMAIN found1
    BY <1>2, <1>3, <1>4
  <1>6. Embeds(text, L, found1)
    <2> DEFINE e1 == [k \in 1 .. n |-> e[k] + 1]
    <2>1. e1 \in [1 .. n -> DOMAIN found1]
      BY <1>5
    <2>2. \A j, k \in 1 .. n : j < k => e1[j] < e1[k]
      BY <1>2, <1>5
    <2>3. \A k \in 1 .. n : found1[e1[k]].text[1].words = text[l[k]].words
      BY <1>2, <1>4, <1>5
    <2> HIDE DEF e1
    <2>4. EmbedsBy(text, L, found1, n, l, e1)
      BY <1>2, <2>1, <2>2, <2>3 DEF EmbedsBy
    <2> QED BY <2>4 DEF Embeds
  <1>7. ASSUME NEW i \in Nat, \A j \in L : i < j, s.text[1].words = text[i].words
        PROVE  Embeds(text, {i} \cup L, found1)
    <2> DEFINE l1 == [k \in 1 .. n + 1 |-> IF k = 1 THEN i ELSE l[k - 1]]
               e1 == [k \in 1 .. n + 1 |-> IF k = 1 THEN 1 ELSE e[k - 1] + 1]
    <2>1. \A k \in 1 .. n + 1 : k # 1 => k - 1 \in 1 .. n
      BY <1>2
    <2>2. Lists(l1, n + 1, {i} \cup L)
      <3>1. l1 \in [1 .. n + 1 -> {i} \cup L]
        BY <1>2, <2>1 DEF Lists
      <3>2. ASSUME NEW j \in 1 .. n + 1, NEW k \in 1 .. n + 1, j < k PROVE l1[j] < l1[k]
        <4>1. k # 1 /\ k - 1 \in 1 .. n /\ l[k - 1] \in L
          BY <1>2, <2>1, <3>2 DEF Lists
        <4>2. CASE j = 1
          BY <1>7, <4>1, <4>2
        <4>3. CASE j # 1
          <5>1. j - 1 \in 1 .. n /\ j - 1 < k - 1
            BY <1>2, <3>2, <4>3
          <5>2. l[j - 1] < l[k - 1]
            BY <1>2, <4>1, <5>1 DEF Lists
          <5> QED BY <4>1, <4>3, <5>2
        <4> QED BY <4>2, <4>3
      <3>3. ASSUME NEW x \in {i} \cup L PROVE \E k \in 1 .. n + 1 : l1[k] = x
        <4>1. CASE x = i
          <5>1. 1 \in 1 .. n + 1
            BY <1>2
          <5> QED BY <4>1, <5>1
        <4>2. CASE x \in L
          <5>1. PICK k \in 1 .. n : l[k] = x
            BY <1>2, <4>2 DEF Lists
          <5>2. k + 1 \in 1 .. n + 1 /\ k + 1 # 1 /\ (k + 1) - 1 = k
            BY <1>2
          <5> QED BY <5>1, <5>2
        <4> QED BY <4>1, <4>2
      <3> HIDE DEF l1
      <3> QED BY <3>1, <3>2, <3>3 DEF Lists
    <2>3. e1 \in [1 .. n + 1 -> DOMAIN found1]
      <3>1. ASSUME NEW k \in 1 .. n + 1 PROVE e1[k] \in DOMAIN found1
        BY <1>3, <1>4, <1>5, <2>1
      <3> QED BY <3>1
    <2>4. ASSUME NEW j \in 1 .. n + 1, NEW k \in 1 .. n + 1, j < k PROVE e1[j] < e1[k]
      <3>1. k # 1 /\ k - 1 \in 1 .. n /\ e[k - 1] \in 1 .. m /\ e1[k] = e[k - 1] + 1
        BY <1>5, <2>1, <2>4
      <3>2. CASE j = 1
        BY <1>3, <3>1, <3>2
      <3>3. CASE j # 1
        <4>1. j - 1 \in 1 .. n /\ j - 1 < k - 1 /\ e1[j] = e[j - 1] + 1
          BY <1>2, <2>4, <3>3
        <4>2. e[j - 1] < e[k - 1] /\ e[j - 1] \in 1 .. m
          BY <1>2, <1>5, <3>1, <4>1
        <4> QED BY <1>3, <3>1, <4>1, <4>2
      <3> QED BY <3>2, <3>3
    <2>5. ASSUME NEW k \in 1 .. n + 1 PROVE found1[e1[k]].text[1].words = text[l1[k]].words
      <3>1. CASE k = 1
        BY <1>4, <1>7, <3>1
      <3>2. CASE k # 1
        <4>1. k - 1 \in 1 .. n /\ e1[k] = e[k - 1] + 1 /\ l1[k] = l[k - 1]
          BY <2>1, <3>2
        <4> QED BY <1>2, <1>4, <1>5, <4>1
      <3> QED BY <3>1, <3>2
    <2>6. n + 1 \in Nat
      BY <1>2
    <2> HIDE DEF e1, l1
    <2>7. EmbedsBy(text, {i} \cup L, found1, n + 1, l1, e1)
      BY <2>2, <2>3, <2>4, <2>5, <2>6 DEF EmbedsBy
    <2> QED BY <2>7 DEF Embeds
  <1> QED BY <1>6, <1>7 DEF found1

LEMMA SearchEmbeds ==
  ASSUME NEW text, text \in Seq(Range(text)), NEW f, Search(text, f)
  PROVE  \A i \in Nat \ {0} : Embeds(text, LabelledFrom(text, i), f[i])
  <1> DEFINE n == Len(text)
             D == {i \in Nat : Embeds(text, LabelledFrom(text, i), f[i])}
  <1>1. n \in Nat /\ DOMAIN text = 1 .. n
    OBVIOUS
  <1> HIDE DEF n
  <1>2. \A i \in Nat : LabelledFrom(text, i) \in SUBSET Nat
    BY <1>1 DEF LabelledFrom
  <1>3. ASSUME NEW i \in Nat, i > n PROVE i \in D
    <2>1. LabelledFrom(text, i) = {}
      BY <1>1, <1>3 DEF LabelledFrom
    <2>2. Lists([k \in 1 .. 0 |-> k], 0, {})
      BY DEF Lists
    <2>3. EmbedsBy(text, {}, f[i], 0, [k \in 1 .. 0 |-> k], [k \in 1 .. 0 |-> k])
      BY <2>2 DEF EmbedsBy
    <2>4. Embeds(text, {}, f[i])
      BY <2>3 DEF Embeds
    <2> QED BY <2>1, <2>4
  <1>4. ASSUME NEW i \in 1 .. n, \A j \in Nat : j > i => j \in D PROVE i \in D
    <2> SUFFICES Embeds(text, LabelledFrom(text, i), f[i])
      BY <1>1
    <2>1. i \in DOMAIN text /\ i \in Nat /\ ~(i > Len(text)) /\ f[i] = FindFrom(text, f, i)
      BY <1>1 DEF Search, n
    <2>2. \A j \in Nat : j > i =>
            Embeds(text, LabelledFrom(text, j), f[j]) /\ f[j] \in Seq(Hits(text))
      BY <1>1, <1>4 DEF Search
    <2> DEFINE T == Hits(text) \cup {OfLine(text[i]), Segment(text[i].label, <<text[Min(After(text, i))]>>)}
    <2>3. \A j \in Nat : j > i => f[j] \in Seq(T)
      <3> TAKE j \in Nat
      <3> HAVE j > i
      <3>1. f[j] \in Seq(Hits(text)) /\ Hits(text) \subseteq T
        BY <2>2
      <3> HIDE DEF T
      <3> QED BY <3>1
    <2>4. CASE Labelled(text[i])
      <3> DEFINE s == OfLine(text[i])
      <3>1. f[i] = <<s>> \o f[i + 1]
        BY <2>1, <2>4, Zenon DEF FindFrom, OfLine
      <3>2. LabelledFrom(text, i) = {i} \cup LabelledFrom(text, i + 1)
        BY <1>1, <2>1, <2>4 DEF LabelledFrom
      <3>3. s.text[1].words = text[i].words
        BY DEF OfLine, Segment, Line
      <3>4. \A j \in LabelledFrom(text, i + 1) : i < j
        BY <1>1, <2>1 DEF LabelledFrom
      <3>5. s \in T /\ f[i + 1] \in Seq(T) /\ Embeds(text, LabelledFrom(text, i + 1), f[i + 1])
            /\ LabelledFrom(text, i + 1) \in SUBSET Nat
        BY <1>2, <2>1, <2>2, <2>3
      <3> HIDE DEF s, T
      <3>6. Embeds(text, {i} \cup LabelledFrom(text, i + 1), <<s>> \o f[i + 1])
        BY <2>1, <3>3, <3>4, <3>5, EmbedsBehind
      <3> QED BY <3>1, <3>2, <3>6
    <2>5. CASE ~Labelled(text[i]) /\ IsBare(text[i]) /\ After(text, i) # {}
      <3> DEFINE m == Min(After(text, i))
                 s == Segment(text[i].label, <<text[m]>>)
      <3>1. m \in i + 1 .. n /\ \A j \in i + 1 .. m - 1 : Blank(text[j])
        BY <1>1, <2>1, <2>5, AfterLater DEF n
      <3>2. f[i] = <<s>> \o f[m + 1]
        BY <2>1, <2>5, Zenon DEF FindFrom
      <3>3. s.text[1].words = text[m].words /\ s \in T
        BY DEF Segment
      <3> HIDE DEF s, m, T
      <3>4. LabelledFrom(text, i) = LabelledFrom(text, m)
        <4>1. \A j \in i + 1 .. m - 1 : ~Labelled(text[j])
          BY <3>1 DEF Labelled, Blank, Line
        <4> QED BY <1>1, <2>1, <2>5, <3>1, <4>1 DEF LabelledFrom
      <3>5. m \in Nat /\ m + 1 \in Nat /\ m + 1 > i /\ m \in DOMAIN text
        BY <1>1, <3>1
      <3>6. f[m + 1] \in Seq(T) /\ Embeds(text, LabelledFrom(text, m + 1), f[m + 1])
            /\ LabelledFrom(text, m + 1) \in SUBSET Nat
        BY <1>2, <2>2, <2>3, <3>5
      <3>7. CASE Labelled(text[m])
        <4>1. LabelledFrom(text, m) = {m} \cup LabelledFrom(text, m + 1)
          BY <1>1, <3>5, <3>7 DEF LabelledFrom
        <4>2. \A j \in LabelledFrom(text, m + 1) : m < j
          BY <1>1, <3>5 DEF LabelledFrom
        <4>3. Embeds(text, {m} \cup LabelledFrom(text, m + 1), <<s>> \o f[m + 1])
          BY <3>3, <3>5, <3>6, <4>2, EmbedsBehind
        <4> QED BY <3>2, <3>4, <4>1, <4>3
      <3>8. CASE ~Labelled(text[m])
        <4>1. LabelledFrom(text, m) = LabelledFrom(text, m + 1)
          BY <1>1, <3>5, <3>8 DEF LabelledFrom
        <4>2. Embeds(text, LabelledFrom(text, m + 1), <<s>> \o f[m + 1])
          BY <3>3, <3>6, EmbedsBehind
        <4> QED BY <3>2, <3>4, <4>1, <4>2
      <3> QED BY <3>7, <3>8
    <2>6. CASE ~Labelled(text[i]) /\ ~(IsBare(text[i]) /\ After(text, i) # {})
      <3>1. f[i] = f[i + 1]
        BY <2>1, <2>6, Zenon DEF FindFrom
      <3>2. LabelledFrom(text, i) = LabelledFrom(text, i + 1)
        BY <1>1, <2>1, <2>6 DEF LabelledFrom
      <3>3. Embeds(text, LabelledFrom(text, i + 1), f[i + 1])
        BY <2>1, <2>2
      <3> QED BY <3>1, <3>2, <3>3
    <2> QED BY <2>4, <2>5, <2>6, Zenon
  <1>5. \A i \in Nat \ {0} : i \in D
    <2> HIDE DEF D
    <2> QED BY <1>1, <1>3, <1>4, Backwards
  <1> QED BY <1>5

\* The words of the lines L can be found among what is spoken, in their order.
WordsHeard(text, L, spoken) ==
  \E I \in SUBSET DOMAIN spoken :
    [k \in DOMAIN Picked(text, L) |-> Picked(text, L)[k].words]
      = [k \in DOMAIN Picked(spoken, I) |-> Picked(spoken, I)[k].words]

\* No labelled line goes unheard.
LEMMA LabelledHeard ==
  ASSUME NEW text, text \in Seq(Range(text)),
         NEW L, L = {i \in DOMAIN text : Labelled(text[i])}, L # {},
         NEW heard, heard = Matches(text),
         NEW spoken, spoken = FlattenSeq([i \in DOMAIN heard |-> heard[i].text])
  PROVE  heard # <<>> /\ WordsHeard(text, L, spoken)
  <1>1. Len(text) \in Nat /\ DOMAIN text = 1 .. Len(text) /\ L \in SUBSET Nat
    OBVIOUS
  <1>2. PICK f : Search(text, f) /\ heard = f[1]
    BY MatchesSearch
  <1>3. heard \in Seq(Hits(text)) /\ Embeds(text, L, heard)
    <2>1. LabelledFrom(text, 1) = L
      BY <1>1 DEF LabelledFrom
    <2>2. Embeds(text, LabelledFrom(text, 1), f[1])
      BY <1>2, SearchEmbeds
    <2>3. f[1] \in Seq(Hits(text))
      BY <1>2 DEF Search
    <2> QED BY <1>2, <2>1, <2>2, <2>3
  <1>4. PICK n, l, e : EmbedsBy(text, L, heard, n, l, e)
    BY <1>3 DEF Embeds
  <1>5. /\ n \in Nat /\ Lists(l, n, L) /\ e \in [1 .. n -> DOMAIN heard]
        /\ \A j, k \in 1 .. n : j < k => e[j] < e[k]
        /\ \A k \in 1 .. n : heard[e[k]].text[1].words = text[l[k]].words
    BY <1>4 DEF EmbedsBy
  <1> DEFINE m == Len(heard)
             x == [k \in 1 .. m |-> heard[k].text[1]]
  <1>6. m \in Nat /\ DOMAIN heard = 1 .. m /\ \A k \in 1 .. m : heard[k] \in Hits(text)
    BY <1>3
  <1> HIDE DEF m
  <1>7. 1 \in 1 .. n /\ heard # <<>> /\ m # 0
    <2>1. PICK k \in 1 .. n : l[k] \in L
      BY <1>5 DEF Lists
    <2>2. e[k] \in 1 .. m /\ 1 \in 1 .. n
      BY <1>5, <1>6
    <2>3. m # 0
      BY <1>6, <2>2
    <2> QED BY <2>2, <2>3 DEF m
  <1>8. spoken = x
    <2>1. \A k \in 1 .. m : heard[k].text = <<x[k]>>
      BY <1>6 DEF Hits
    <2>2. x \in [1 .. m -> {x[k] : k \in 1 .. m}] /\ m \in Nat \ {0}
      BY <1>6, <1>7
    <2>3. [i \in DOMAIN heard |-> heard[i].text] = [k \in 1 .. m |-> <<x[k]>>]
      BY <1>6, <2>1
    <2> HIDE DEF x
    <2> QED BY <2>2, <2>3, FlattenOnes
  <1> DEFINE I == {e[k] : k \in 1 .. n}
  <1>9. I \in SUBSET DOMAIN spoken /\ I \in SUBSET Nat
    <2>1. \A k \in 1 .. n : e[k] \in 1 .. m
      BY <1>5, <1>6
    <2>2. DOMAIN spoken = 1 .. m
      BY <1>8
    <2> QED BY <1>6, <2>1, <2>2, SMTT(30)
  <1>10. Lists(e, n, I)
    BY <1>5 DEF Lists
  <1> HIDE DEF I
  <1>11. Cardinality(I) = n /\ InOrder(I) = e /\ Cardinality(L) = n /\ InOrder(L) = l
    BY <1>1, <1>5, <1>9, <1>10, InOrderIs
  <1>12. /\ Picked(text, L) = [k \in 1 .. n |-> text[l[k]]]
         /\ Picked(spoken, I) = [k \in 1 .. n |-> spoken[e[k]]]
    BY <1>11 DEF Picked
  <1>13. \A k \in 1 .. n : text[l[k]].words = spoken[e[k]].words
    BY <1>5, <1>6, <1>8
  <1>14. [k \in DOMAIN Picked(text, L) |-> Picked(text, L)[k].words]
           = [k \in DOMAIN Picked(spoken, I) |-> Picked(spoken, I)[k].words]
    <2> DEFINE p == Picked(text, L)
               q == Picked(spoken, I)
    <2>1. DOMAIN p = 1 .. n /\ DOMAIN q = 1 .. n
      BY <1>12
    <2>2. \A k \in 1 .. n : p[k].words = q[k].words
      BY <1>12, <1>13
    <2> HIDE DEF p, q
    <2>3. [k \in DOMAIN p |-> p[k].words] = [k \in DOMAIN q |-> q[k].words]
      BY <2>1, <2>2
    <2> QED BY <2>3 DEF p, q
  <1> QED BY <1>7, <1>9, <1>14 DEF WordsHeard

-----------------------------------------------------------------------------
(***************************************************************************)
(* Paragraphs.                                                             *)
(***************************************************************************)

Starts(text) == {i \in DOMAIN text : ~Blank(text[i]) /\ (i > 1 => Blank(text[i - 1]))}
End(text, i) == Min({j \in i .. Len(text) : j < Len(text) => Blank(text[j + 1])})

LEMMA EndIs ==
  ASSUME NEW text, Len(text) \in Nat, DOMAIN text = 1 .. Len(text), NEW i \in Starts(text)
  PROVE  /\ End(text, i) \in i .. Len(text)
         /\ End(text, i) < Len(text) => Blank(text[End(text, i) + 1])
         /\ \A x \in i .. End(text, i) : ~Blank(text[x])
  <1> DEFINE S == {j \in i .. Len(text) : j < Len(text) => Blank(text[j + 1])}
             m == Min(S)
  <1>1. i \in 1 .. Len(text) /\ ~Blank(text[i])
    BY DEF Starts
  <1>2. S \in SUBSET Nat /\ Len(text) \in S
    BY <1>1
  <1>3. m \in S /\ \A x \in S : m <= x
    <2> HIDE DEF S
    <2> QED BY <1>2, MinIs
  <1> HIDE DEF m
  <1>4. m \in i .. Len(text) /\ (m < Len(text) => Blank(text[m + 1]))
    BY <1>3
  <1>5. ASSUME NEW x \in i .. m PROVE ~Blank(text[x])
    <2>1. CASE x = i
      BY <1>1, <2>1
    <2>2. CASE x # i
      <3>1. x - 1 \in i .. Len(text) /\ x - 1 < m /\ (x - 1) + 1 = x
        BY <1>1, <1>4, <2>2
      <3>2. x - 1 \notin S
        <4> HIDE DEF S
        <4>1. ~(m <= x - 1)
          BY <1>1, <1>4, <3>1
        <4> QED BY <1>3, <4>1
      <3> QED BY <3>1, <3>2
    <2> QED BY <2>1, <2>2
  <1> QED BY <1>4, <1>5 DEF m, End

\* Before every line that is not blank, one starts a run that reaches to it.
LEMMA RunStart ==
  ASSUME NEW text, Len(text) \in Nat, DOMAIN text = 1 .. Len(text),
         NEW x \in DOMAIN text, ~Blank(text[x])
  PROVE  \E s \in Starts(text) : s <= x /\ \A y \in s .. x : ~Blank(text[y])
  <1> DEFINE S == {s \in 1 .. x : \A y \in s .. x : ~Blank(text[y])}
  <1>1. S \in SUBSET Nat /\ x \in S
    OBVIOUS
  <1>2. PICK s \in S : \A t \in S : s <= t
    <2> HIDE DEF S
    <2> QED BY <1>1, Least
  <1>3. s \in 1 .. x /\ s \in DOMAIN text /\ \A y \in s .. x : ~Blank(text[y])
    OBVIOUS
  <1>4. s > 1 => Blank(text[s - 1])
    <2> SUFFICES ASSUME s > 1, ~Blank(text[s - 1]) PROVE FALSE
      OBVIOUS
    <2>1. s - 1 \in 1 .. x /\ \A y \in s - 1 .. x : y = s - 1 \/ y \in s .. x
      BY <1>3
    <2>2. s - 1 \in S
      BY <1>3, <2>1
    <2>3. s <= s - 1
      BY <1>2, <2>2
    <2> QED BY <1>3, <2>3
  <1> QED BY <1>3, <1>4 DEF Starts

\* B, what is not blank, is told off by the runs that start at st[1] .. st[n].
Runs(text, n, st, B) ==
  /\ {x \in B : x <= End(text, st[1])} = st[1] .. End(text, st[1])
  /\ \A k \in 1 .. n : k > 1 =>
       /\ End(text, st[k - 1]) < st[k]
       /\ {x \in B : x <= End(text, st[k])}
            = {x \in B : x <= End(text, st[k - 1])} \cup st[k] .. End(text, st[k])
  /\ B = {x \in B : x <= End(text, st[n])}

\* What stands up to the end of a run stands up to the end of the run before, or in it.
LEMMA RunsCover ==
  ASSUME NEW text, Len(text) \in Nat, DOMAIN text = 1 .. Len(text),
         NEW n \in Nat \ {0}, NEW st, Lists(st, n, Starts(text)),
         NEW B, B = {x \in DOMAIN text : ~Blank(text[x])}
  PROVE  Runs(text, n, st, B)
  <1>1. ASSUME NEW k \in 1 .. n
        PROVE  /\ st[k] \in Starts(text) /\ st[k] \in 1 .. Len(text)
               /\ End(text, st[k]) \in st[k] .. Len(text)
               /\ End(text, st[k]) < Len(text) => Blank(text[End(text, st[k]) + 1])
               /\ \A x \in st[k] .. End(text, st[k]) : x \in B
    <2>1. st[k] \in Starts(text) /\ st[k] \in 1 .. Len(text)
      BY DEF Lists, Starts
    <2> QED BY <2>1, EndIs
  <1>2. ASSUME NEW k \in 1 .. n, NEW x \in B, x > End(text, st[k])
        PROVE  \E j \in 1 .. n : j > k /\ st[j] <= x
    <2>1. PICK s \in Starts(text) : s <= x /\ \A y \in s .. x : ~Blank(text[y])
      BY RunStart
    <2>2. PICK j \in 1 .. n : st[j] = s
      BY <2>1 DEF Lists
    <2>3. CASE j <= k
      <3>1. j = k \/ j < k
        BY <2>3
      <3>2. st[j] <= st[k]
        <4>1. j < k => st[j] < st[k]
          BY DEF Lists
        <4>2. st[j] \in Nat /\ st[k] \in Nat
          BY <1>1
        <4> QED BY <3>1, <4>1, <4>2
      <3>3. End(text, st[k]) + 1 \in s .. x /\ End(text, st[k]) < Len(text)
        BY <1>1, <1>2, <2>2, <3>2
      <3> QED BY <1>1, <2>1, <3>3
    <2>4. CASE ~(j <= k)
      <3>1. j > k /\ st[j] <= x
        BY <2>1, <2>2, <2>4
      <3> QED BY <3>1
    <2> QED BY <2>3, <2>4
  <1>3. ASSUME NEW k \in 1 .. n, NEW j \in 1 .. n, j < k PROVE End(text, st[j]) < st[k]
    <2> SUFFICES ASSUME st[k] <= End(text, st[j]) PROVE FALSE
      BY <1>1
    <2>1. st[j] < st[k]
      BY <1>3 DEF Lists
    <2>2. st[k] > 1 /\ st[k] - 1 \in st[j] .. End(text, st[j])
      BY <1>1, <2>1
    <2>3. Blank(text[st[k] - 1])
      BY <1>1, <2>2 DEF Starts
    <2>4. st[k] - 1 \in B
      BY <1>1, <2>2
    <2> QED BY <2>3, <2>4
  <1>4. \A x \in B : x \in 1 .. Len(text)
    OBVIOUS
  <1>5. ASSUME NEW x \in B, x < st[1] PROVE FALSE
    <2>1. PICK s \in Starts(text) : s <= x
      BY RunStart
    <2>2. PICK j \in 1 .. n : st[j] = s
      BY <2>1 DEF Lists
    <2>3. 1 \in 1 .. n /\ (j = 1 \/ 1 < j)
      OBVIOUS
    <2>4. st[1] <= st[j]
      BY <1>1, <2>3 DEF Lists
    <2> QED BY <1>1, <1>4, <1>5, <2>1, <2>2, <2>3, <2>4
  <1>6. 1 \in 1 .. n /\ n \in 1 .. n
    OBVIOUS
  <1>7. {x \in B : x <= End(text, st[1])} = st[1] .. End(text, st[1])
    BY <1>1, <1>4, <1>5, <1>6
  <1>8. ASSUME NEW k \in 1 .. n, k > 1
        PROVE  /\ End(text, st[k - 1]) < st[k]
               /\ {x \in B : x <= End(text, st[k])}
                    = {x \in B : x <= End(text, st[k - 1])} \cup st[k] .. End(text, st[k])
    <2>1. k - 1 \in 1 .. n /\ k - 1 < k
      BY <1>8
    <2>2. End(text, st[k - 1]) < st[k]
      BY <1>3, <2>1
    <2>3. ASSUME NEW x \in B, x > End(text, st[k - 1]), x < st[k] PROVE FALSE
      <3>1. PICK j \in 1 .. n : j > k - 1 /\ st[j] <= x
        BY <1>2, <2>1, <2>3
      <3>2. j = k \/ k < j
        BY <3>1
      <3>3. st[k] <= st[j]
        BY <1>1, <3>2, SMTT(30) DEF Lists
      <3> QED BY <1>1, <1>4, <2>3, <3>1, <3>3
    <2> DEFINE e == End(text, st[k])
               d == End(text, st[k - 1])
               a == st[k]
    <2>4. a \in 1 .. Len(text) /\ e \in a .. Len(text) /\ d \in 1 .. Len(text) /\ d < a
          /\ \A x \in a .. e : x \in B
      BY <1>1, <2>1, <2>2
    <2>5. \A x \in B : x <= d \/ x >= a
      BY <1>4, <2>3, <2>4
    <2> HIDE DEF a, d, e
    <2>6. {x \in B : x <= e} = {x \in B : x <= d} \cup a .. e
      BY <1>4, <2>4, <2>5
    <2> QED BY <2>2, <2>6 DEF a, d, e
  <1>9. \A x \in B : x <= End(text, st[n])
    <2> SUFFICES ASSUME NEW x \in B, x > End(text, st[n]) PROVE FALSE
      BY <1>1, <1>4, <1>6
    <2>1. PICK j \in 1 .. n : j > n
      BY <1>2, <1>6
    <2> QED BY <2>1
  <1> QED BY <1>7, <1>8, <1>9 DEF Runs

LEMMA ParagraphsFlat ==
  ASSUME NEW text, text \in Seq(Range(text))
  PROVE  /\ \E n \in Nat : DOMAIN Paragraphs(text) = 1 .. n
         /\ Paragraphs(text) = [k \in DOMAIN Paragraphs(text) |-> Paragraphs(text)[k]]
         /\ FlattenSeq(Paragraphs(text)) = Picked(text, {i \in DOMAIN text : ~Blank(text[i])})
  <1> DEFINE T == Range(text)
             n == Cardinality(Starts(text))
             st == InOrder(Starts(text))
             B == {x \in DOMAIN text : ~Blank(text[x])}
             par == [k \in 1 .. n |-> SubSeq(text, st[k], End(text, st[k]))]
  <1>1. Len(text) \in Nat /\ DOMAIN text = 1 .. Len(text) /\ text \in Seq(T)
    OBVIOUS
  <1>2. n \in Nat /\ Lists(st, n, Starts(text))
    <2>1. Starts(text) \subseteq 1 .. Len(text) /\ IsFiniteSet(1 .. Len(text))
      BY <1>1, FS_Interval DEF Starts
    <2>2. Starts(text) \in SUBSET Nat /\ IsFiniteSet(Starts(text))
      BY <2>1, FS_Subset
    <2> QED BY <2>2, InOrderLists
  <1>3. Paragraphs(text) = par
    BY DEF Paragraphs, Starts, End
  <1> HIDE DEF n, st, T
  <1>4. /\ \E m \in Nat : DOMAIN par = 1 .. m
        /\ par = [k \in DOMAIN par |-> par[k]]
    BY <1>2
  <1>5. CASE n = 0
    <2>1. B = {}
      <3> SUFFICES ASSUME NEW x \in B PROVE FALSE
        OBVIOUS
      <3>1. PICK s \in Starts(text) : s <= x
        BY <1>1, RunStart
      <3>2. \E k \in 1 .. n : st[k] = s
        BY <1>2, <3>1 DEF Lists
      <3> QED BY <1>5, <3>2
    <2>2. par = <<>>
      BY <1>5
    <2>3. Len(<<>>) = 0
      OBVIOUS
    <2>4. FlattenSeq(<<>>) = <<>>
      BY <2>3 DEF FlattenSeq
    <2>5. Picked(text, {}) = <<>>
      BY PickedNone
    <2> QED BY <1>3, <1>4, <2>1, <2>2, <2>4, <2>5
  <1>6. CASE n # 0
    <2>1. n \in Nat \ {0}
      BY <1>2, <1>6
    <2>2. Runs(text, n, st, B)
      <3>1. B = {x \in DOMAIN text : ~Blank(text[x])}
        OBVIOUS
      <3> HIDE DEF B, par
      <3> QED BY <1>1, <1>2, <2>1, <3>1, RunsCover
    <2>3. ASSUME NEW k \in 1 .. n
          PROVE  /\ st[k] \in 1 .. Len(text) /\ End(text, st[k]) \in st[k] .. Len(text)
                 /\ par[k] \in Seq(T)
                 /\ par[k] = Picked(text, st[k] .. End(text, st[k]))
      <3> DEFINE a == st[k]
                 e == End(text, st[k])
      <3>1. a \in Starts(text)
        BY <1>2 DEF Lists
      <3>2. a \in 1 .. Len(text) /\ e \in a .. Len(text)
        BY <1>1, <3>1, EndIs DEF Starts
      <3>3. par[k] = SubSeq(text, a, e)
        OBVIOUS
      <3> HIDE DEF a, e, par
      <3>4. SubSeq(text, a, e) \in Seq(T)
        BY <1>1, <3>2
      <3>5. Picked(text, a .. e) = SubSeq(text, a, e)
        <4>1. a \in Nat \ {0} /\ e \in Nat /\ a <= e + 1
          BY <1>1, <3>2
        <4> QED BY <4>1, PickedRange
      <3> QED BY <3>2, <3>3, <3>4, <3>5 DEF a, e
    <2> DEFINE U == Seq(T)
    <2>4. par \in Seq(U) /\ par # <<>> /\ Len(par) = n
      <3>1. par \in [1 .. n -> U]
        <4>1. \A k \in 1 .. n : par[k] \in U
          BY <2>3
        <4>2. par = [k \in 1 .. n |-> par[k]]
          OBVIOUS
        <4> HIDE DEF par, U
        <4> QED BY <4>1, <4>2
      <3> HIDE DEF par, U
      <3>2. par \in Seq(U) /\ Len(par) = n
        BY <2>1, <3>1
      <3> QED BY <2>1, <3>2
    <2> HIDE DEF par, B
    <2>5. PICK f \in [1 .. n -> Seq(T)] :
            /\ f[1] = par[1]
            /\ \A i \in 1 .. n : i > 1 => f[i] = f[i - 1] \o par[i]
            /\ FlattenSeq(par) = f[n]
      BY <2>4, Flatten
    <2> DEFINE UpTo(k) == {x \in B : x <= End(text, st[k])}
               Good == {k \in Nat : k \in 1 .. n => f[k] = Picked(text, UpTo(k))}
    <2>6. 0 \in Good
      OBVIOUS
    <2>7. ASSUME NEW k \in Nat, k \in Good PROVE k + 1 \in Good
      <3> SUFFICES ASSUME k + 1 \in 1 .. n PROVE f[k + 1] = Picked(text, UpTo(k + 1))
        OBVIOUS
      <3>1. CASE k = 0
        <4>1. k + 1 = 1 /\ 1 \in 1 .. n /\ f[1] = par[1]
          BY <2>1, <2>5, <3>1
        <4>2. par[1] = Picked(text, st[1] .. End(text, st[1]))
          BY <2>3, <4>1
        <4>3. UpTo(1) = st[1] .. End(text, st[1])
          BY <2>2 DEF Runs
        <4> HIDE DEF UpTo
        <4> QED BY <4>1, <4>2, <4>3
      <3>2. CASE k # 0
        <4>1. k \in 1 .. n /\ k + 1 > 1 /\ (k + 1) - 1 = k
          BY <2>1, <3>2
        <4>2. f[k + 1] = f[k] \o par[k + 1] /\ f[k] = Picked(text, UpTo(k))
          BY <2>5, <2>7, <4>1
        <4> DEFINE R == st[k + 1] .. End(text, st[k + 1])
        <4>3. par[k + 1] = Picked(text, R)
          BY <2>3
        <4>4. UpTo(k + 1) = UpTo(k) \cup R
          BY <2>2, <4>1 DEF Runs
        <4>5. UpTo(k) \subseteq 1 .. Len(text) /\ R \subseteq 1 .. Len(text)
          BY <1>1, <2>3 DEF B
        <4>6. UpTo(k) \in SUBSET Nat /\ IsFiniteSet(UpTo(k)) /\ R \in SUBSET Nat /\ IsFiniteSet(R)
          <5>1. IsFiniteSet(1 .. Len(text))
            BY <1>1, FS_Interval
          <5>2. 1 .. Len(text) \subseteq Nat
            OBVIOUS
          <5> HIDE DEF UpTo, R
          <5>3. IsFiniteSet(UpTo(k)) /\ IsFiniteSet(R)
            BY <4>5, <5>1, FS_Subset
          <5> QED BY <4>5, <5>2, <5>3
        <4>7. \A x \in UpTo(k), y \in R : x < y
          <5> TAKE x \in UpTo(k), y \in R
          <5>1. x <= End(text, st[k]) /\ x \in Nat /\ y >= st[k + 1] /\ y \in Nat
            BY <4>5
          <5>2. End(text, st[k]) < st[k + 1]
            BY <2>2, <4>1 DEF Runs
          <5>3. End(text, st[k]) \in Nat /\ st[k + 1] \in Nat
            BY <1>1, <2>3, <4>1
          <5> HIDE DEF UpTo, R
          <5> QED BY <5>1, <5>2, <5>3
        <4> HIDE DEF UpTo, R
        <4>8. Picked(text, UpTo(k) \cup R) = Picked(text, UpTo(k)) \o Picked(text, R)
          BY <4>6, <4>7, PickedAppend
        <4> QED BY <4>2, <4>3, <4>4, <4>8
      <3> QED BY <3>1, <3>2
    <2>8. Nat \subseteq Good
      <3> HIDE DEF Good
      <3> QED BY <2>6, <2>7, Induct
    <2>9. n \in Nat /\ n \in 1 .. n
      BY <2>1
    <2>10. f[n] = Picked(text, UpTo(n))
      BY <2>8, <2>9
    <2>11. UpTo(n) = B
      BY <2>2 DEF Runs
    <2> QED BY <1>3, <1>4, <2>5, <2>10, <2>11 DEF B
  <1> QED BY <1>5, <1>6

-----------------------------------------------------------------------------
(***************************************************************************)
(* Segments.                                                               *)
(***************************************************************************)

\* What SegmentsFaithful says, of any text.
ParsesTo(t, heard, labelled, spoken) ==
  /\ (\A i \in DOMAIN t : ~IsBare(t[i])) =>
       IF labelled # <<>>
       THEN heard = [i \in DOMAIN labelled |->
              Segment(labelled[i].label, <<Line(Nothing, labelled[i].words)>>)]
       ELSE /\ spoken = Picked(t, {i \in DOMAIN t : ~Blank(t[i])})
            /\ \A i \in DOMAIN heard : heard[i].speaker = "NARRATOR"
  /\ labelled # <<>> =>
       \E I \in SUBSET DOMAIN spoken :
         [i \in DOMAIN labelled |-> labelled[i].words]
           = [i \in DOMAIN Picked(spoken, I) |-> Picked(spoken, I)[i].words]
  /\ \A i \in DOMAIN t : Labelled(t[i]) /\ ~AfterBare(t, i) =>
       Segment(t[i].label, <<Line(Nothing, t[i].words)>>) \in Range(heard)

LEMMA ParseFaithful ==
  ASSUME NEW t, t \in Seq(Range(t)),
         NEW heard, heard = ParseSegments(t),
         NEW labelled, labelled = Picked(t, {i \in DOMAIN t : Labelled(t[i])}),
         NEW spoken, spoken = FlattenSeq([i \in DOMAIN heard |-> heard[i].text])
  PROVE  ParsesTo(t, heard, labelled, spoken)
  <1> DEFINE L == {i \in DOMAIN t : Labelled(t[i])}
             segs == [i \in DOMAIN t |-> OfLine(t[i])]
  <1>1. Len(t) \in Nat /\ DOMAIN t = 1 .. Len(t) /\ L \in SUBSET Nat /\ IsFiniteSet(L)
    <2>1. Len(t) \in Nat /\ DOMAIN t = 1 .. Len(t) /\ L \subseteq 1 .. Len(t)
      OBVIOUS
    <2>2. IsFiniteSet(1 .. Len(t))
      BY <2>1, FS_Interval
    <2>3. IsFiniteSet(L)
      BY <2>1, <2>2, FS_Subset
    <2> QED BY <2>1, <2>3
  <1>2. Cardinality(L) \in Nat /\ Lists(InOrder(L), Cardinality(L), L)
    BY <1>1, InOrderLists
  <1>3. labelled = [k \in 1 .. Cardinality(L) |-> t[InOrder(L)[k]]]
    BY DEF Picked
  <1>4. Picked(segs, L) = [k \in 1 .. Cardinality(L) |-> segs[InOrder(L)[k]]]
    BY DEF Picked
  <1>5. labelled # <<>> <=> L # {}
    <2>1. labelled # <<>> => L # {}
      BY PickedNone
    <2>2. ASSUME L # {} PROVE labelled # <<>>
      <3>1. 1 \in 1 .. Cardinality(L)
        BY <1>2, <2>2 DEF Lists
      <3> DEFINE n == Cardinality(L)
      <3>2. labelled = [k \in 1 .. n |-> t[InOrder(L)[k]]]
        BY <1>3
      <3> HIDE DEF L, n
      <3>3. DOMAIN labelled = 1 .. n
        BY <3>2
      <3>4. 1 \in DOMAIN labelled
        BY <3>1, <3>3 DEF n
      <3>5. 1 \notin DOMAIN <<>>
        OBVIOUS
      <3> QED BY <3>4, <3>5
    <2> QED BY <2>1, <2>2
  <1>6. ASSUME \A i \in DOMAIN t : ~IsBare(t[i]), labelled # <<>>
        PROVE  heard = [i \in DOMAIN labelled |->
                 Segment(labelled[i].label, <<Line(Nothing, labelled[i].words)>>)]
    <2>1. Matches(t) = Picked(segs, L)
      BY <1>6, NoBareMatches
    <2>2. heard = Matches(t)
      <3>1. Matches(t) # <<>>
        BY <1>5, <1>6, LabelledHeard
      <3> QED BY <3>1 DEF ParseSegments
    <2>3. \A k \in 1 .. Cardinality(L) : InOrder(L)[k] \in DOMAIN t
      BY <1>2 DEF Lists
    <2>4. \A k \in 1 .. Cardinality(L) : segs[InOrder(L)[k]]
            = Segment(labelled[k].label, <<Line(Nothing, labelled[k].words)>>)
      BY <1>3, <2>3 DEF OfLine
    <2>5. DOMAIN labelled = 1 .. Cardinality(L)
      BY <1>3
    <2> HIDE DEF segs, L
    <2> QED BY <1>4, <2>1, <2>2, <2>4, <2>5
  <1>7. ASSUME \A i \in DOMAIN t : ~IsBare(t[i]), ~(labelled # <<>>)
        PROVE  /\ spoken = Picked(t, {i \in DOMAIN t : ~Blank(t[i])})
               /\ \A i \in DOMAIN heard : heard[i].speaker = "NARRATOR"
    <2>1. Matches(t) = <<>>
      <3>1. Matches(t) = Picked(segs, L)
        BY <1>7, NoBareMatches
      <3>2. L = {}
        BY <1>5, <1>7
      <3> HIDE DEF segs, L
      <3> QED BY <3>1, <3>2, PickedNone
    <2> DEFINE par == Paragraphs(t)
    <2>2. heard = [k \in DOMAIN par |-> Segment("NARRATOR", par[k])]
      BY <2>1 DEF ParseSegments
    <2>3. par = [k \in DOMAIN par |-> par[k]]
          /\ FlattenSeq(par) = Picked(t, {i \in DOMAIN t : ~Blank(t[i])})
      BY ParagraphsFlat
    <2> HIDE DEF par
    <2>4. DOMAIN heard = DOMAIN par /\ \A k \in DOMAIN heard :
            heard[k].speaker = "NARRATOR" /\ heard[k].text = par[k]
      BY <2>2 DEF Segment
    <2>5. [i \in DOMAIN heard |-> heard[i].text] = par
      BY <2>3, <2>4
    <2> QED BY <2>3, <2>4, <2>5
  <1>8. ASSUME labelled # <<>>
        PROVE  \E I \in SUBSET DOMAIN spoken :
                 [i \in DOMAIN labelled |-> labelled[i].words]
                   = [i \in DOMAIN Picked(spoken, I) |-> Picked(spoken, I)[i].words]
    <2>1. L # {} /\ L = {i \in DOMAIN t : Labelled(t[i])}
      BY <1>5, <1>8
    <2>2. labelled = Picked(t, L)
      OBVIOUS
    <2>3. Matches(t) # <<>>
      BY <2>1, LabelledHeard
    <2>4. heard = Matches(t)
      BY <2>3 DEF ParseSegments
    <2> HIDE DEF L
    <2>5. WordsHeard(t, L, spoken)
      BY <2>1, <2>4, LabelledHeard
    <2> QED BY <2>2, <2>5, ZenonT(30) DEF WordsHeard
  <1>9. ASSUME NEW i \in DOMAIN t, Labelled(t[i]), ~AfterBare(t, i)
        PROVE  Segment(t[i].label, <<Line(Nothing, t[i].words)>>) \in Range(heard)
    <2>1. OfLine(t[i]) \in Range(Matches(t)) /\ Matches(t) # <<>>
      BY <1>9, OwnSegment
    <2> QED BY <2>1 DEF ParseSegments, OfLine
  <1> QED BY <1>6, <1>7, <1>8, <1>9 DEF ParsesTo

\* The segments are a sequence.
LEMMA ParsedSeq ==
  ASSUME NEW t, t \in Seq(Range(t)) PROVE \E S : ParseSegments(t) \in Seq(S)
  <1>1. CASE Matches(t) # <<>>
    <2>1. PICK f : Search(t, f) /\ Matches(t) = f[1]
      BY MatchesSearch
    <2>2. Matches(t) \in Seq(Hits(t))
      BY <2>1 DEF Search
    <2> QED BY <1>1, <2>2 DEF ParseSegments
  <1>2. CASE ~(Matches(t) # <<>>)
    <2>1. PICK n \in Nat : DOMAIN Paragraphs(t) = 1 .. n
      BY ParagraphsFlat
    <2> DEFINE s == [k \in 1 .. n |-> Segment("NARRATOR", Paragraphs(t)[k])]
    <2>2. ParseSegments(t) = s
      BY <1>2, <2>1 DEF ParseSegments
    <2>3. s \in Seq({s[k] : k \in 1 .. n})
      <3>1. s = [k \in 1 .. n |-> s[k]]
        OBVIOUS
      <3> HIDE DEF s
      <3> QED BY <3>1
    <2> HIDE DEF s
    <2> QED BY <2>2, <2>3
  <1> QED BY <1>1, <1>2

=============================================================================
