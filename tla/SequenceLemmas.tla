------------------------------ MODULE SequenceLemmas ------------------------------
(***************************************************************************)
(* Lemmas about sequences: induction along them, what flattening computes, *)
(* and the queues that stand for tokio's fair mutexes.  Induction is       *)
(* stated for sets of numbers, since a property cannot be a parameter.     *)
(***************************************************************************)
EXTENDS Naturals, Sequences, SequencesExt, SequenceTheorems, WellFoundedInduction, TLAPS

LEMMA SmallestOf ==
  ASSUME NEW S, S \subseteq Nat, S # {}
  PROVE  \E x \in S : \A y \in S : x <= y
<1>1. PICK x \in S : \A y \in S : ~ (<<y, x>> \in OpToRel(<, Nat))
  BY NatLessThanWellFounded, WFMin
<1>2. \A y \in S : ~(y < x)
  BY <1>1 DEF OpToRel
<1>3. QED
  BY <1>2

LEMMA MinIs ==
  ASSUME NEW S, S \subseteq Nat, S # {}
  PROVE  Min(S) \in S /\ \A y \in S : Min(S) <= y
BY SmallestOf DEF Min

\* Every number has what 0 has and what every number leaves to the next.
LEMMA Induction ==
  ASSUME NEW X, 0 \in X, \A n \in Nat : n \in X => n + 1 \in X
  PROVE  Nat \subseteq X
<1>1. SUFFICES ASSUME Nat \ X # {} PROVE FALSE
  OBVIOUS
<1>2. PICK m \in Nat \ X : \A y \in Nat \ X : m <= y
  BY <1>1, SmallestOf
<1>3. m # 0 /\ m - 1 \in Nat /\ m - 1 \in X
  BY <1>2
<1>4. QED
  BY <1>2, <1>3

\* The same as far as N.
LEMMA UpTo ==
  ASSUME NEW N \in Nat, NEW X, 0 \in X, \A n \in 0..(N - 1) : n \in X => n + 1 \in X
  PROVE  0..N \subseteq X
<1>1. PICK Y : Y = {n \in Nat : n <= N => n \in X}
  OBVIOUS
<1>2. 0 \in Y
  BY <1>1
<1>3. ASSUME NEW n \in Nat, n \in Y PROVE n + 1 \in Y
  BY <1>1, <1>3
<1>4. Nat \subseteq Y
  BY <1>2, <1>3, Induction
<1>5. QED
  BY <1>1, <1>4

\* A relation of what is, at n, with what comes next.
Linked(R, n, x, y) == <<n, x, y>> \in R

\* Steps that can always be taken can be taken one after another.
LEMMA FoldExists ==
  ASSUME NEW N \in Nat, NEW S, NEW b \in S, NEW R,
         \A n \in 1..N, x \in S : \E y \in S : Linked(R, n, x, y)
  PROVE  \E f \in [0..N -> S] : f[0] = b /\ \A n \in 1..N : Linked(R, n, f[n - 1], f[n])
<1> DEFINE Run(f, n) == f[0] = b /\ \A i \in 1..n : Linked(R, i, f[i - 1], f[i])
<1>1. PICK X : X = {n \in 0..N : \E f \in [0..n -> S] : Run(f, n)}
  OBVIOUS
<1>2. 0 \in X
  <2>1. PICK f : f = [i \in 0..0 |-> b]
    OBVIOUS
  <2>2. f \in [0..0 -> S] /\ f[0] = b
    BY <2>1
  <2>3. QED
    BY <1>1, <2>2
<1>3. ASSUME NEW n \in 0..(N - 1), n \in X PROVE n + 1 \in X
  <2>1. PICK f \in [0..n -> S] : Run(f, n)
    BY <1>1, <1>3
  <2>2. PICK y \in S : Linked(R, n + 1, f[n], y)
    <3>1. n + 1 \in 1..N /\ f[n] \in S
      OBVIOUS
    <3>2. QED
      BY <3>1
  <2>3. PICK g : g = [i \in 0..(n + 1) |-> IF i = n + 1 THEN y ELSE f[i]]
    OBVIOUS
  <2>4. g \in [0..(n + 1) -> S] /\ g[0] = b
    BY <2>1, <2>3
  <2>5. ASSUME NEW i \in 1..(n + 1) PROVE Linked(R, i, g[i - 1], g[i])
    <3>1. CASE i = n + 1
      BY <2>2, <2>3, <3>1
    <3>2. CASE i # n + 1
      <4>1. g[i] = f[i] /\ g[i - 1] = f[i - 1] /\ i \in 1..n
        BY <2>3, <3>2
      <4>2. QED
        BY <2>1, <4>1
    <3>3. QED
      BY <3>1, <3>2
  <2>6. Run(g, n + 1)
    BY <2>4, <2>5
  <2>7. n + 1 \in 0..N
    OBVIOUS
  <2>8. QED
    BY <1>1, <2>4, <2>6, <2>7
<1>4. N \in X
  <2>1. \A n \in 0..(N - 1) : n \in X => n + 1 \in X
    BY <1>3
  <2>2. 0..N \subseteq X
    BY <1>2, <2>1, UpTo
  <2>3. QED
    BY <2>2
<1>5. QED
  BY <1>1, <1>4

\* Concatenation, which the provers would otherwise expand at every mention.
Cat(x, y) == x \o y
Joinable(V) == (\A x \in V : Cat(<<>>, x) = x) /\ (\A x, y \in V : Cat(x, y) \in V)

\* The equation of a flattening of N sequences has a solution, and one only.
LEMMA FlattenRun ==
  ASSUME NEW N \in Nat, N # 0, NEW V, NEW s \in [1..N -> V],
         Joinable(V)
  PROVE  \E f \in [1..N -> V] :
           f = [i \in 1..N |-> IF i = 1 THEN s[i] ELSE Cat(f[i - 1], s[i])]
<1>1. PICK R : R = {t \in (1..N) \X V \X V : t[3] = IF t[1] = 1 THEN s[t[1]] ELSE Cat(t[2], s[t[1]])}
  OBVIOUS
<1>2. ASSUME NEW n \in 1..N, NEW x \in V PROVE \E y \in V : Linked(R, n, x, y)
  <2>1. PICK y : y = IF n = 1 THEN s[n] ELSE Cat(x, s[n])
    OBVIOUS
  <2>2. y \in V
    BY <2>1 DEF Joinable
  <2>3. QED
    BY <1>1, <2>1, <2>2 DEF Linked
<1>4. s[1] \in V
  OBVIOUS
<1>5. \E f \in [0..N -> V] : f[0] = s[1] /\ \A n \in 1..N : Linked(R, n, f[n - 1], f[n])
  BY <1>2, <1>4, FoldExists
<1>6. PICK f \in [0..N -> V] : f[0] = s[1] /\ \A n \in 1..N : Linked(R, n, f[n - 1], f[n])
  BY <1>5
<1>7. PICK g : g = [i \in 1..N |-> f[i]]
  OBVIOUS
<1>8. ASSUME NEW n \in 1..N PROVE g[n] = IF n = 1 THEN s[n] ELSE Cat(g[n - 1], s[n])
  <2>1. f[n - 1] \in V /\ Linked(R, n, f[n - 1], f[n]) /\ g[n] = f[n]
    BY <1>6, <1>7
  <2>2. f[n] = IF n = 1 THEN s[n] ELSE Cat(f[n - 1], s[n])
    BY <1>1, <2>1 DEF Linked
  <2>3. n # 1 => g[n - 1] = f[n - 1]
    BY <1>7
  <2>4. QED
    BY <2>1, <2>2, <2>3
<1>9. g = [i \in 1..N |-> IF i = 1 THEN s[i] ELSE Cat(g[i - 1], s[i])]
  BY <1>7, <1>8
<1>10. g \in [1..N -> V]
  BY <1>6, <1>7
<1>11. QED
  BY <1>9, <1>10

LEMMA FlattenIs ==
  ASSUME NEW N \in Nat, N # 0, NEW V, NEW s \in [1..N -> V], Joinable(V),
         NEW g \in [1..N -> V], g[1] = s[1], \A i \in 2..N : g[i] = Cat(g[i - 1], s[i])
  PROVE  FlattenSeq(s) = g[N]
<1>1. Len(s) = N
  OBVIOUS
<1>2. PICK f : /\ f = [i \in 1..N |-> IF i = 1 THEN s[i] ELSE Cat(f[i - 1], s[i])]
               /\ FlattenSeq(s) = f[N]
  <2>1. \E f : f = [i \in 1..N |-> IF i = 1 THEN s[i] ELSE Cat(f[i - 1], s[i])]
    BY FlattenRun
  <2>2. QED
    BY <1>1, <2>1 DEF FlattenSeq, Cat
<1>3. PICK X : X = {0} \cup {i \in 1..N : f[i] = g[i]}
  OBVIOUS
<1>4. ASSUME NEW i \in 0..(N - 1), i \in X PROVE i + 1 \in X
  <2>1. f[i + 1] = IF i + 1 = 1 THEN s[i + 1] ELSE Cat(f[i + 1 - 1], s[i + 1])
    <3>1. PICK e : e = [j \in 1..N |-> IF j = 1 THEN s[j] ELSE Cat(f[j - 1], s[j])]
      OBVIOUS
    <3>2. e[i + 1] = IF i + 1 = 1 THEN s[i + 1] ELSE Cat(f[i + 1 - 1], s[i + 1])
      BY <3>1
    <3>3. QED
      BY <1>2, <3>1, <3>2
  <2>2. CASE i = 0
    BY <1>3, <2>1, <2>2
  <2>3. CASE i # 0
    <3>1. i + 1 - 1 = i /\ i + 1 # 1 /\ f[i] = g[i] /\ i + 1 \in 2..N
      BY <1>3, <1>4, <2>3
    <3>2. g[i + 1] = Cat(g[i + 1 - 1], s[i + 1])
      BY <3>1
    <3>3. f[i + 1] = g[i + 1]
      BY <2>1, <3>1, <3>2
    <3>4. QED
      BY <1>3, <3>3
  <2>4. QED
    BY <2>2, <2>3
<1>5. N \in X
  <2>1. 0 \in X /\ \A i \in 0..(N - 1) : i \in X => i + 1 \in X
    BY <1>3, <1>4
  <2>2. 0..N \subseteq X
    BY <2>1, UpTo
  <2>3. QED
    BY <2>2
<1>6. QED
  BY <1>2, <1>3, <1>5

\* The sequence of the first n.
Firsts(s, n) == [i \in 1..n |-> s[i]]

LEMMA FlattenNone == ASSUME NEW s PROVE FlattenSeq(Firsts(s, 0)) = <<>>
BY DEF FlattenSeq, Firsts

LEMMA SeqJoinable == ASSUME NEW U PROVE <<>> \in Seq(U) /\ Joinable(Seq(U))
BY ConcatEmptySeq DEF Joinable, Cat

\* A flattening goes on with what comes next.
LEMMA FlattenMore ==
  ASSUME NEW N \in Nat, NEW V, NEW s, \A i \in 1..(N + 1) : s[i] \in V, Joinable(V)
  PROVE  FlattenSeq(Firsts(s, N + 1)) = Cat(FlattenSeq(Firsts(s, N)), s[N + 1])
<1>3. CASE N = 0
  <2>1. PICK r : r = Firsts(s, 1)
    OBVIOUS
  <2>2. r \in [1..1 -> V] /\ r[1] = s[1]
    BY <1>3, <2>1 DEF Firsts
  <2>3. FlattenSeq(r) = r[1]
    <3>1. 1 \in Nat /\ 1 # 0 /\ \A i \in 2..1 : r[i] = Cat(r[i - 1], r[i])
      OBVIOUS
    <3>2. QED
      BY <2>2, <3>1, FlattenIs
  <2>4. s[1] \in V /\ Cat(<<>>, s[1]) = s[1]
    BY <1>3 DEF Joinable
  <2>5. QED
    BY <1>3, <2>1, <2>2, <2>3, <2>4, FlattenNone
<1>4. CASE N # 0
  <2>1. PICK r : r = Firsts(s, N + 1)
    OBVIOUS
  <2>2. r \in [1..(N + 1) -> V] /\ \A i \in 1..(N + 1) : r[i] = s[i]
    BY <2>1 DEF Firsts
  <2>3. PICK f \in [1..(N + 1) -> V] :
          f = [i \in 1..(N + 1) |-> IF i = 1 THEN r[i] ELSE Cat(f[i - 1], r[i])]
    <3>1. N + 1 \in Nat /\ N + 1 # 0 /\ Joinable(V)
      OBVIOUS
    <3>2. QED
      BY ONLY <2>2, <3>1, FlattenRun
  <2>4. f[1] = r[1] /\ \A i \in 2..(N + 1) : f[i] = Cat(f[i - 1], r[i])
    <3>1. PICK e : e = [i \in 1..(N + 1) |-> IF i = 1 THEN r[i] ELSE Cat(f[i - 1], r[i])]
      OBVIOUS
    <3>2. e[1] = r[1] /\ \A i \in 2..(N + 1) : e[i] = Cat(f[i - 1], r[i])
      BY <3>1
    <3>3. f = e
      BY <2>3, <3>1
    <3>4. QED
      BY <3>2, <3>3
  <2>5. FlattenSeq(r) = f[N + 1]
    BY <2>2, <2>4, FlattenIs
  <2>6. PICK q : q = Firsts(s, N)
    OBVIOUS
  <2>7. PICK h : h = [i \in 1..N |-> f[i]]
    OBVIOUS
  <2>8. q \in [1..N -> V] /\ h \in [1..N -> V] /\ h[N] = f[N]
    BY <1>4, <2>3, <2>6, <2>7 DEF Firsts
  <2>9. h[1] = q[1] /\ \A i \in 2..N : h[i] = Cat(h[i - 1], q[i])
    <3>1. \A i \in 1..N : h[i] = f[i] /\ q[i] = r[i]
      BY <2>2, <2>6, <2>7 DEF Firsts
    <3>2. ASSUME NEW i \in 2..N PROVE h[i] = Cat(h[i - 1], q[i])
      <4>1. i \in 1..N /\ i - 1 \in 1..N /\ i \in 2..(N + 1)
        OBVIOUS
      <4>2. QED
        BY <2>4, <3>1, <4>1
    <3>3. 1 \in 1..N
      BY <1>4
    <3>4. QED
      BY <2>4, <3>1, <3>2, <3>3
  <2>10. FlattenSeq(q) = h[N]
    BY <1>4, <2>8, <2>9, FlattenIs
  <2>11. f[N + 1] = Cat(f[N], r[N + 1]) /\ r[N + 1] = s[N + 1]
    <3>1. N + 1 \in 2..(N + 1) /\ N + 1 - 1 = N
      BY <1>4
    <3>2. QED
      BY <2>2, <2>4, <3>1
  <2>12. QED
    BY <2>1, <2>5, <2>6, <2>8, <2>10, <2>11
<1>5. QED
  BY <1>3, <1>4

LEMMA CatIs ==
  ASSUME NEW U, NEW a \in Seq(U), NEW b \in Seq(U)
  PROVE  /\ Cat(a, b) \in Seq(U) /\ Len(Cat(a, b)) = Len(a) + Len(b)
         /\ \A i \in 1..(Len(a) + Len(b)) :
              Cat(a, b)[i] = IF i <= Len(a) THEN a[i] ELSE b[i - Len(a)]
BY ConcatProperties DEF Cat

\* What ends up behind the first of two.
LEMMA CatAfter ==
  ASSUME NEW U, NEW a \in Seq(U), NEW b \in Seq(U), NEW j \in 1..Len(b)
  PROVE  Cat(a, b)[Len(a) + j] = b[j]
<1>1. Len(a) \in Nat /\ Len(b) \in Nat
  OBVIOUS
<1>2. Len(a) + j \in 1..(Len(a) + Len(b)) /\ ~(Len(a) + j <= Len(a)) /\ Len(a) + j - Len(a) = j
  BY <1>1
<1>3. PICK c : c = Cat(a, b)
  OBVIOUS
<1>4. \A i \in 1..(Len(a) + Len(b)) : c[i] = IF i <= Len(a) THEN a[i] ELSE b[i - Len(a)]
  BY <1>3, CatIs
<1>5. c[Len(a) + j] = b[j]
  BY <1>2, <1>4
<1>6. QED
  BY <1>3, <1>5

\* Two elements, and four, in a row.
Pair(b, j, x, y) == SubSeq(b, j, j + 1) = <<x, y>>
Four(b, j, x, y, z, w) == SubSeq(b, j, j + 3) = <<x, y, z, w>>

LEMMA PairIs ==
  ASSUME NEW U, NEW b \in Seq(U), NEW j \in 1..(Len(b) - 1), NEW x, NEW y
  PROVE  Pair(b, j, x, y) <=> b[j] = x /\ b[j + 1] = y
<1>a. SubSeq(b, j, j + 1) \in Seq(U)
  OBVIOUS
<1>1. PICK c \in Seq(U) : c = SubSeq(b, j, j + 1)
  BY <1>a, Zenon
<1>2. Len(c) = 2 /\ c[1] = b[j] /\ c[2] = b[j + 1]
  BY <1>1
<1>3. c = <<x, y>> <=> c[1] = x /\ c[2] = y
  BY <1>2
<1>4. QED
  BY <1>1, <1>2, <1>3 DEF Pair

LEMMA FourIs ==
  ASSUME NEW U, NEW b \in Seq(U), NEW j \in 1..(Len(b) - 3), NEW x, NEW y, NEW z, NEW w
  PROVE  Four(b, j, x, y, z, w) <=> b[j] = x /\ b[j + 1] = y /\ b[j + 2] = z /\ b[j + 3] = w
<1>a. SubSeq(b, j, j + 3) \in Seq(U)
  OBVIOUS
<1>1. PICK c \in Seq(U) : c = SubSeq(b, j, j + 3)
  BY <1>a, Zenon
<1>2. Len(c) = 4 /\ c[1] = b[j] /\ c[2] = b[j + 1] /\ c[3] = b[j + 2] /\ c[4] = b[j + 3]
  BY <1>1
<1>3. c = <<x, y, z, w>> <=> c[1] = x /\ c[2] = y /\ c[3] = z /\ c[4] = w
  BY <1>2
<1>4. QED
  BY <1>1, <1>2, <1>3 DEF Four

\* What is between two places of a sequence.
LEMMA SliceIs ==
  ASSUME NEW U, NEW w \in Seq(U), NEW m \in Nat, NEW n \in Nat, m <= n, n <= Len(w)
  PROVE  /\ SubSeq(w, m + 1, n) \in Seq(U) /\ Len(SubSeq(w, m + 1, n)) = n - m
         /\ \A i \in 1..(n - m) : SubSeq(w, m + 1, n)[i] = w[m + i]
<1>1. m + 1 \in 1..(Len(w) + 1) /\ n \in m..Len(w) /\ m + 1 \in Int /\ n \in Int
  OBVIOUS
<1>2. SubSeq(w, m + 1, n) \in Seq(U)
  BY <1>1
<1>3. Len(SubSeq(w, m + 1, n)) = n - m
  BY <1>1
<1>4. ASSUME NEW i \in 1..(n - m) PROVE SubSeq(w, m + 1, n)[i] = w[m + i]
  <2>1. SubSeq(w, m + 1, n)[i] = w[(m + 1) + i - 1]
    BY <1>1
  <2>2. (m + 1) + i - 1 = m + i
    OBVIOUS
  <2>3. QED
    BY <2>1, <2>2
<1>5. QED
  BY <1>2, <1>3, <1>4

LEMMA FlattenIsSeq ==
  ASSUME NEW N \in Nat, NEW U, NEW s, \A i \in 1..N : s[i] \in Seq(U)
  PROVE  \A n \in 0..N : FlattenSeq(Firsts(s, n)) \in Seq(U)
<1>1. PICK V : V = Seq(U)
  OBVIOUS
<1>2. Joinable(V) /\ <<>> \in V /\ \A i \in 1..N : s[i] \in V
  BY <1>1, SeqJoinable
<1>3. PICK X : X = {n \in 0..N : FlattenSeq(Firsts(s, n)) \in V}
  OBVIOUS
<1>4. 0 \in X
  BY <1>2, <1>3, FlattenNone
<1>5. ASSUME NEW n \in 0..(N - 1), n \in X PROVE n + 1 \in X
  <2>1. n \in Nat /\ n + 1 \in 0..N
    OBVIOUS
  <2>a. \A i \in 1..(n + 1) : s[i] \in V
    BY ONLY <1>2, N \in Nat, n \in 0..(N - 1)
  <2>2. FlattenSeq(Firsts(s, n + 1)) = Cat(FlattenSeq(Firsts(s, n)), s[n + 1])
    BY <1>2, <2>1, <2>a, FlattenMore
  <2>3. FlattenSeq(Firsts(s, n)) \in V /\ s[n + 1] \in V
    BY <1>3, <1>5, <2>1, <2>a
  <2>4. QED
    BY <1>2, <1>3, <2>1, <2>2, <2>3 DEF Joinable
<1>6. 0..N \subseteq X
  BY <1>4, <1>5, UpTo
<1>7. QED
  BY <1>1, <1>3, <1>6

-----------------------------------------------------------------------------
(* Flattenings, one behind another *)

LEMMA CatLaws ==
  ASSUME NEW U, NEW a \in Seq(U), NEW b \in Seq(U), NEW c \in Seq(U)
  PROVE  /\ Cat(a, <<>>) = a /\ Cat(<<>>, a) = a
         /\ Cat(Cat(a, b), c) = Cat(a, Cat(b, c))
BY ConcatEmptySeq, ConcatAssociative DEF Cat

\* The flattening of two sequences, one behind the other.
AllSeqs(U, a, M) == \A i \in 1..M : a[i] \in Seq(U)
Behind(a, M, b, N, c) == (\A i \in 1..M : c[i] = a[i]) /\ (\A j \in 1..N : c[M + j] = b[j])

LEMMA FlattenCat ==
  ASSUME NEW U, NEW M \in Nat, NEW N \in Nat, NEW a, AllSeqs(U, a, M), NEW b, AllSeqs(U, b, N),
         NEW c, Behind(a, M, b, N, c)
  PROVE  FlattenSeq(Firsts(c, M + N)) = Cat(FlattenSeq(Firsts(a, M)), FlattenSeq(Firsts(b, N)))
<1>a. (\A i \in 1..M : a[i] \in Seq(U)) /\ (\A i \in 1..N : b[i] \in Seq(U))
  BY DEF AllSeqs
<1>b. (\A i \in 1..M : c[i] = a[i]) /\ (\A j \in 1..N : c[M + j] = b[j])
  BY DEF Behind
<1>1. PICK x : x = FlattenSeq(Firsts(a, M))
  OBVIOUS
<1>2. PICK X : X = {n \in 0..N : FlattenSeq(Firsts(c, M + n)) = Cat(x, FlattenSeq(Firsts(b, n)))}
  OBVIOUS
<1>3. x \in Seq(U)
  <2>1. M \in 0..M
    OBVIOUS
  <2>2. QED
    BY <1>a, <1>1, <2>1, FlattenIsSeq, Zenon
<1>4. Firsts(c, M) = Firsts(a, M)
  BY <1>b DEF Firsts
<1>5. 0 \in X
  <2>1. M + 0 = M /\ 0 \in 0..N
    OBVIOUS
  <2>2. FlattenSeq(Firsts(c, M)) = Cat(x, FlattenSeq(Firsts(b, 0)))
    <3>1. Cat(x, <<>>) = x
      BY <1>3, CatLaws, Zenon
    <3>2. QED
      BY <1>1, <1>4, <3>1, FlattenNone, Zenon
  <2>3. QED
    BY <1>2, <2>1, <2>2
<1>6. \A i \in 1..(M + N) : c[i] \in Seq(U)
  <2>1. SUFFICES ASSUME NEW i \in 1..(M + N) PROVE c[i] \in Seq(U)
    OBVIOUS
  <2>2. CASE i <= M
    <3>1. i \in 1..M
      BY <2>2
    <3>2. QED
      BY <1>a, <1>b, <3>1
  <2>3. CASE ~ (i <= M)
    <3>1. PICK j \in 1..N : j = i - M
      BY <2>3
    <3>2. i = M + j
      BY <3>1
    <3>3. QED
      BY <1>a, <1>b, <3>2
  <2>4. QED
    BY <2>2, <2>3
<1>7. ASSUME NEW n \in 0..(N - 1), n \in X PROVE n + 1 \in X
  <2>1. PICK m \in 1..N : m = n + 1
    OBVIOUS
  <2>2. n \in Nat /\ n \in 0..N /\ M + n \in Nat /\ M + m = (M + n) + 1 /\ m \in 0..N
    BY <2>1
  <2>3. PICK V : V = Seq(U)
    OBVIOUS
  <2>4. Joinable(V)
    BY <2>3, SeqJoinable
  <2>5. \A i \in 1..((M + n) + 1) : c[i] \in V
    BY <1>6, <2>3
  <2>6. \A i \in 1..(n + 1) : b[i] \in V
    BY <1>a, <2>3
  <2>7. FlattenSeq(Firsts(c, (M + n) + 1)) = Cat(FlattenSeq(Firsts(c, M + n)), c[(M + n) + 1])
    BY <2>2, <2>4, <2>5, FlattenMore, Zenon
  <2>8. FlattenSeq(Firsts(b, n + 1)) = Cat(FlattenSeq(Firsts(b, n)), b[n + 1])
    BY <2>2, <2>4, <2>6, FlattenMore, Zenon
  <2>9. PICK y \in Seq(U) : y = FlattenSeq(Firsts(b, n))
    BY <1>a, <2>2, FlattenIsSeq, Zenon
  <2>10. PICK z \in Seq(U) : z = b[m]
    BY <1>a
  <2>11. c[M + m] = z
    BY <1>b, <2>10
  <2>12. FlattenSeq(Firsts(c, M + n)) = Cat(x, y)
    BY <1>2, <1>7, <2>9
  <2>13. FlattenSeq(Firsts(c, M + m)) = Cat(Cat(x, y), z)
    BY <2>2, <2>7, <2>11, <2>12, Zenon
  <2>14. FlattenSeq(Firsts(b, m)) = Cat(y, z)
    BY <2>1, <2>8, <2>9, <2>10, Zenon
  <2>15. Cat(Cat(x, y), z) = Cat(x, Cat(y, z))
    BY <1>3, CatLaws, Zenon
  <2>16. FlattenSeq(Firsts(c, M + m)) = Cat(x, FlattenSeq(Firsts(b, m)))
    BY <2>13, <2>14, <2>15, Zenon
  <2>17. QED
    BY <1>2, <2>1, <2>2, <2>16, Zenon
<1>8. 0..N \subseteq X
  BY <1>5, <1>7, UpTo
<1>9. N \in X
  BY <1>8
<1>10. QED
  BY <1>1, <1>2, <1>9

\* One element alone, several of one element each, and several of none.
LEMMA FlattenOne ==
  ASSUME NEW U, NEW s, s[1] \in Seq(U)
  PROVE  FlattenSeq(Firsts(s, 1)) = s[1]
<1>1. PICK V : V = Seq(U)
  OBVIOUS
<1>2. Joinable(V) /\ 0 \in Nat /\ 0 + 1 = 1 /\ \A i \in 1..(0 + 1) : s[i] \in V
  BY <1>1, SeqJoinable
<1>3. FlattenSeq(Firsts(s, 0 + 1)) = Cat(FlattenSeq(Firsts(s, 0)), s[0 + 1])
  BY <1>2, FlattenMore, Zenon
<1>4. FlattenSeq(Firsts(s, 1)) = Cat(<<>>, s[1])
  BY <1>2, <1>3, FlattenNone, Zenon
<1>5. QED
  BY <1>4, CatLaws, Zenon

LEMMA FlattenSingles ==
  ASSUME NEW U, NEW N \in Nat, NEW x \in [1..N -> U], NEW s, \A i \in 1..N : s[i] = <<x[i]>>
  PROVE  FlattenSeq(Firsts(s, N)) = x
<1>1. PICK X : X = {n \in 0..N : FlattenSeq(Firsts(s, n)) = Firsts(x, n)}
  OBVIOUS
<1>2. 0 \in X
  <2>1. Firsts(x, 0) = <<>>
    BY DEF Firsts
  <2>2. QED
    BY <1>1, <2>1, FlattenNone
<1>3. ASSUME NEW i \in 1..N PROVE s[i] \in Seq(U)
  <2>1. PICK u \in U : u = x[i]
    OBVIOUS
  <2>2. <<u>> \in Seq(U)
    OBVIOUS
  <2>3. s[i] = <<u>>
    BY <2>1, Zenon
  <2>4. QED
    BY <2>2, <2>3, Zenon
<1>4. ASSUME NEW n \in 0..(N - 1), n \in X PROVE n + 1 \in X
  <2>1. PICK m \in 1..N : m = n + 1
    OBVIOUS
  <2>2. n \in Nat /\ m \in 0..N
    BY <2>1
  <2>3. PICK V : V = Seq(U)
    OBVIOUS
  <2>4. Joinable(V) /\ \A i \in 1..(n + 1) : s[i] \in V
    <3>1. \A i \in 1..(n + 1) : i \in 1..N
      OBVIOUS
    <3>2. QED
      BY <1>3, <2>3, <3>1, SeqJoinable, Zenon
  <2>5. FlattenSeq(Firsts(s, n + 1)) = Cat(FlattenSeq(Firsts(s, n)), s[n + 1])
    BY <2>2, <2>4, FlattenMore, Zenon
  <2>6. PICK a \in Seq(U) : a = Firsts(x, n) /\ Len(a) = n /\ \A i \in 1..n : a[i] = x[i]
    <3>1. Firsts(x, n) \in Seq(U) /\ Len(Firsts(x, n)) = n /\ \A i \in 1..n : Firsts(x, n)[i] = x[i]
      BY DEF Firsts
    <3>2. QED
      BY <3>1, Zenon
  <2>7. PICK b \in Seq(U) : b = <<x[m]>> /\ Len(b) = 1 /\ b[1] = x[m]
    <3>1. <<x[m]>> \in Seq(U) /\ Len(<<x[m]>>) = 1 /\ <<x[m]>>[1] = x[m]
      OBVIOUS
    <3>2. QED
      BY <3>1, Zenon
  <2>8. PICK c : c = Cat(a, b)
    OBVIOUS
  <2>9. /\ c \in Seq(U) /\ Len(c) = Len(a) + Len(b)
        /\ \A i \in 1..(Len(a) + Len(b)) : c[i] = IF i <= Len(a) THEN a[i] ELSE b[i - Len(a)]
    BY <2>8, CatIs
  <2>10. Len(c) = m /\ \A i \in 1..m : c[i] = x[i]
    <3>1. Len(c) = m
      BY <2>1, <2>6, <2>7, <2>9
    <3>2. ASSUME NEW i \in 1..m PROVE c[i] = x[i]
      <4>1. CASE i <= n
        BY <2>1, <2>6, <2>7, <2>9, <4>1
      <4>2. CASE ~ (i <= n)
        <5>1. i = m /\ i - Len(a) = 1 /\ ~ (i <= Len(a)) /\ i \in 1..(Len(a) + Len(b))
          BY <2>1, <2>6, <2>7, <4>2
        <5>2. QED
          BY <2>7, <2>9, <5>1, Zenon
      <4>3. QED
        BY <4>1, <4>2
    <3>3. QED
      BY <3>1, <3>2
  <2>11. c = Firsts(x, m)
    BY <2>9, <2>10 DEF Firsts
  <2>12. FlattenSeq(Firsts(s, m)) = Firsts(x, m)
    <3>1. s[m] = b
      BY <2>7
    <3>2. FlattenSeq(Firsts(s, n)) = a
      BY <1>1, <1>4, <2>6
    <3>3. QED
      BY <2>1, <2>5, <2>8, <2>11, <3>1, <3>2, Zenon
  <2>13. QED
    BY <1>1, <2>1, <2>2, <2>12, Zenon
<1>5. 0..N \subseteq X
  BY <1>2, <1>4, UpTo
<1>6. N \in X /\ Firsts(x, N) = x
  BY <1>5 DEF Firsts
<1>7. QED
  BY <1>1, <1>6

LEMMA FlattenNothing ==
  ASSUME NEW N \in Nat, NEW s, \A i \in 1..N : s[i] = <<>>
  PROVE  FlattenSeq(Firsts(s, N)) = <<>>
<1>1. PICK X : X = {n \in 0..N : FlattenSeq(Firsts(s, n)) = <<>>}
  OBVIOUS
<1>2. 0 \in X
  BY <1>1, FlattenNone
<1>3. PICK V : V = {<<>>}
  OBVIOUS
<1>4. Joinable(V)
  <2>1. Cat(<<>>, <<>>) = <<>>
    <3>1. <<>> \in Seq({})
      OBVIOUS
    <3>2. QED
      BY <3>1, CatLaws, Zenon
  <2>2. QED
    BY <1>3, <2>1 DEF Joinable
<1>5. ASSUME NEW n \in 0..(N - 1), n \in X PROVE n + 1 \in X
  <2>1. n \in Nat /\ n + 1 \in 0..N /\ n + 1 \in 1..N /\ \A i \in 1..(n + 1) : s[i] \in V
    BY <1>3
  <2>2. FlattenSeq(Firsts(s, n + 1)) = Cat(FlattenSeq(Firsts(s, n)), s[n + 1])
    BY <1>4, <2>1, FlattenMore, Zenon
  <2>3. FlattenSeq(Firsts(s, n)) = <<>> /\ s[n + 1] = <<>>
    BY <1>1, <1>5, <2>1
  <2>4. Cat(<<>>, <<>>) = <<>>
    BY <1>3, <1>4 DEF Joinable
  <2>5. QED
    BY <1>1, <2>1, <2>2, <2>3, <2>4, Zenon
<1>6. 0..N \subseteq X
  BY <1>2, <1>5, UpTo
<1>7. N \in X
  BY <1>6
<1>8. QED
  BY <1>1, <1>7

-----------------------------------------------------------------------------
(* Queues: whoever leaves a queue takes nobody else out of it, and does not *)
(* take the mutex from the head.                                           *)

InQueue(q, u) == \E i \in 1..Len(q) : q[i] = u

LEMMA HeadIs ==
  ASSUME NEW U, NEW q \in Seq(U), NEW u, InQueue(q, u)
  PROVE  q # <<>> /\ Len(q) \in Nat \ {0} /\ Head(q) = q[1] /\ InQueue(q, Head(q))
BY DEF InQueue

\* Removing the first occurrence cuts the queue in two.
LEMMA RemovedAt ==
  ASSUME NEW U, NEW q \in Seq(U), NEW u, InQueue(q, u)
  PROVE  \E k \in 1..Len(q) :
           q[k] = u /\ RemoveFirst(q, u) = SubSeq(q, 1, k - 1) \o SubSeq(q, k + 1, Len(q))
<1>1. PICK k : k = SelectInSeq(q, LAMBDA v : v = u)
  OBVIOUS
<1>2. PICK I : I = {i \in 1..Len(q) : q[i] = u}
  OBVIOUS
<1>3. k = Min(I) /\ I # {} /\ I \subseteq Nat
  BY <1>1, <1>2 DEF SelectInSeq, InQueue
<1>4. k \in 1..Len(q) /\ q[k] = u
  BY <1>2, <1>3, MinIs
<1>5. QED
  BY <1>1, <1>4 DEF RemoveFirst, RemoveAt, InQueue

LEMMA CutQueue ==
  ASSUME NEW U, NEW q \in Seq(U), NEW k \in 1..Len(q)
  PROVE  LET r == SubSeq(q, 1, k - 1) \o SubSeq(q, k + 1, Len(q))
         IN  /\ r \in Seq(U) /\ Len(r) = Len(q) - 1
             /\ \A i \in 1..(k - 1) : r[i] = q[i]
             /\ \A i \in k..(Len(q) - 1) : r[i] = q[i + 1]
<1>1. PICK f : f = SubSeq(q, 1, k - 1)
  OBVIOUS
<1>2. PICK g : g = SubSeq(q, k + 1, Len(q))
  OBVIOUS
<1>3. f \in Seq(U) /\ Len(f) = k - 1 /\ \A i \in 1..(k - 1) : f[i] = q[i]
  BY <1>1
<1>4. g \in Seq(U) /\ Len(g) = Len(q) - k /\ \A i \in 1..(Len(q) - k) : g[i] = q[i + k]
  BY <1>2
<1>5. /\ f \o g \in Seq(U) /\ Len(f \o g) = Len(f) + Len(g)
      /\ \A i \in 1..(Len(f) + Len(g)) : (f \o g)[i] = IF i <= Len(f) THEN f[i] ELSE g[i - Len(f)]
  <2>1. f \in Seq(U) /\ g \in Seq(U)
    BY <1>3, <1>4
  <2>2. QED
    BY <2>1, ConcatProperties
<1>6. \A i \in 1..(k - 1) : (f \o g)[i] = q[i]
  BY <1>3, <1>4, <1>5
<1>7. \A i \in k..(Len(q) - 1) : (f \o g)[i] = q[i + 1]
  BY <1>3, <1>4, <1>5
<1>8. Len(f \o g) = Len(q) - 1
  BY <1>3, <1>4, <1>5
<1>9. QED
  BY <1>1, <1>2, <1>5, <1>6, <1>7, <1>8, Zenon

\* Who leaves a queue, wherever he stood in it or if he did not.
LEMMA Leaves ==
  ASSUME NEW U, NEW q \in Seq(U), NEW u
  PROVE  /\ RemoveFirst(q, u) \in Seq(U)
         /\ \A v : v # u /\ InQueue(q, v) => InQueue(RemoveFirst(q, u), v)
         /\ q # <<>> /\ Head(q) # u => Head(RemoveFirst(q, u)) = Head(q)
<1>1. CASE ~InQueue(q, u)
  BY <1>1 DEF RemoveFirst, InQueue
<1>2. CASE InQueue(q, u)
  <2>1. PICK k \in 1..Len(q) :
          q[k] = u /\ RemoveFirst(q, u) = SubSeq(q, 1, k - 1) \o SubSeq(q, k + 1, Len(q))
    BY <1>2, RemovedAt
  <2>2. PICK r : r = RemoveFirst(q, u)
    OBVIOUS
  <2>3. /\ r \in Seq(U) /\ Len(r) = Len(q) - 1
        /\ \A i \in 1..(k - 1) : r[i] = q[i]
        /\ \A i \in k..(Len(q) - 1) : r[i] = q[i + 1]
    BY <2>1, <2>2, CutQueue
  <2>4. ASSUME NEW v, v # u, InQueue(q, v) PROVE InQueue(r, v)
    <3>1. PICK i \in 1..Len(q) : q[i] = v
      BY <2>4 DEF InQueue
    <3>2. CASE i < k
      <4>1. i \in 1..Len(r) /\ r[i] = v
        BY <2>3, <3>1, <3>2
      <4>2. QED
        BY <4>1 DEF InQueue
    <3>3. CASE i > k
      <4>1. i - 1 \in 1..Len(r) /\ r[i - 1] = v
        BY <2>3, <3>1, <3>3
      <4>2. QED
        BY <4>1 DEF InQueue
    <3>4. QED
      BY <2>1, <2>4, <3>1, <3>2, <3>3
  <2>5. ASSUME q # <<>>, Head(q) # u PROVE Head(r) = Head(q)
    <3>1. \A s \in Seq(U) : s # <<>> => Head(s) = s[1]
      OBVIOUS
    <3>2. k > 1
      BY <2>1, <2>5, <3>1
    <3>3. r[1] = q[1] /\ Len(r) > 0
      BY <2>3, <3>2
    <3>4. r # <<>>
      BY <3>3
    <3>5. QED
      BY <2>3, <2>5, <3>1, <3>3, <3>4
  <2>6. QED
    BY <2>2, <2>3, <2>4, <2>5
<1>3. QED
  BY <1>1, <1>2

LEMMA Joins ==
  ASSUME NEW U, NEW q \in Seq(U), NEW u \in U
  PROVE  /\ Append(q, u) \in Seq(U) /\ Append(q, u) # <<>> /\ InQueue(Append(q, u), u)
         /\ \A v : InQueue(q, v) => InQueue(Append(q, u), v)
         /\ q # <<>> => Head(Append(q, u)) = Head(q)
<1>1. Append(q, u) \in Seq(U) /\ Len(Append(q, u)) = Len(q) + 1 /\ Append(q, u)[Len(q) + 1] = u
      /\ \A i \in 1..Len(q) : Append(q, u)[i] = q[i]
  OBVIOUS
<1>2. InQueue(Append(q, u), u)
  BY <1>1 DEF InQueue
<1>3. \A v : InQueue(q, v) => InQueue(Append(q, u), v)
  BY <1>1 DEF InQueue
<1>4. q # <<>> => Head(Append(q, u)) = Head(q)
  OBVIOUS
<1>5. Append(q, u) # <<>>
  <2>1. Len(Append(q, u)) # Len(<<>>)
    BY <1>1
  <2>2. QED
    BY <2>1
<1>6. QED
  BY <1>1, <1>2, <1>3, <1>4, <1>5, Zenon

\* The holder unlocks.
LEMMA Unlocks ==
  ASSUME NEW U, NEW q \in Seq(U), q # <<>>
  PROVE  /\ Tail(q) \in Seq(U)
         /\ \A v : v # Head(q) /\ InQueue(q, v) => InQueue(Tail(q), v)
<1>1. Tail(q) \in Seq(U) /\ Len(Tail(q)) = Len(q) - 1 /\ \A i \in 1..(Len(q) - 1) : Tail(q)[i] = q[i + 1]
  OBVIOUS
<1>2. ASSUME NEW v, v # Head(q), InQueue(q, v) PROVE InQueue(Tail(q), v)
  <2>1. PICK i \in 1..Len(q) : q[i] = v
    BY <1>2 DEF InQueue
  <2>2. i # 1
    BY <1>2, <2>1
  <2>3. i - 1 \in 1..Len(Tail(q)) /\ Tail(q)[i - 1] = v
    BY <1>1, <2>1, <2>2
  <2>4. QED
    BY <2>3 DEF InQueue
<1>3. QED
  BY <1>1, <1>2
=============================================================================
