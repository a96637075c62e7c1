--------------------------- MODULE JsonTreeProofs ---------------------------
(***************************************************************************)
(* Proofs about JsonTree for every forest, window, depth and budget: what  *)
(* flattening returns, and what follows for the rows on show.              *)
(***************************************************************************)
EXTENDS JsonTree, WellFoundedInduction, FiniteSetTheorems, TLAPS

-----------------------------------------------------------------------------
(* Induction and recursion over an initial segment of the numbers          *)

(* Every non-empty set of natural numbers has a least element.             *)
LEMMA LeastNumber ==
  ASSUME NEW T \in SUBSET Nat, T # {}
  PROVE  \E k \in T : \A j \in T : k <= j
<1> DEFINE R == OpToRel(<, Nat)
<1>1. IsWellFoundedOn(R, Nat)
  BY NatLessThanWellFounded
<1>2. \A j, k \in Nat : j < k => <<j, k>> \in R
  <2>1. R = {ss \in Nat \X Nat : ss[1] < ss[2]}
    BY Zenon DEF OpToRel
  <2> HIDE DEF R
  <2> SUFFICES ASSUME NEW j \in Nat, NEW k \in Nat, j < k
               PROVE  <<j, k>> \in R
    OBVIOUS
  <2>2. <<j, k>> \in Nat \X Nat /\ <<j, k>>[1] = j /\ <<j, k>>[2] = k
    OBVIOUS
  <2> QED
    BY <2>1, <2>2
<1> HIDE DEF R
<1>3. PICK k \in T : \A j \in T : ~(<<j, k>> \in R)
  BY <1>1, WFMin
<1>4. ASSUME NEW j \in T PROVE k <= j
  <2>1. ~(j < k)
    BY <1>2, <1>3
  <2> QED
    BY <2>1
<1> QED
  BY <1>4

(* Induction up to N, for a set of numbers.                                *)
LEMMA UpTo ==
  ASSUME NEW N \in Nat, NEW T, 0 \in T,
         \A n \in 0..N : n < N /\ n \in T => n + 1 \in T
  PROVE  \A n \in 0..N : n \in T
<1> SUFFICES ASSUME NEW n \in 0..N, n \notin T
             PROVE  FALSE
  OBVIOUS
<1> DEFINE Bad == {k \in 0..N : k \notin T}
<1>1. Bad \in SUBSET Nat /\ Bad # {}
  OBVIOUS
<1>2. PICK k \in Bad : \A j \in Bad : k <= j
  BY <1>1, LeastNumber
<1>3. k # 0
  BY <1>2
<1>4. k - 1 \in 0..N /\ k - 1 < N /\ ~(k - 1 \in Bad)
  BY <1>2, <1>3
<1> QED
  BY <1>2, <1>4

(* f follows a recursion that begins at base.                              *)
Follows(f, N, base, step) ==
  f[0] = base /\ \A n \in 1..N : f[n] = step[n][f[n-1]]

(* A function defined by recursion over 0..N exists.                       *)
LEMMA Recursion ==
  ASSUME NEW N \in Nat, NEW X, NEW base \in X, NEW step \in [1..N -> [X -> X]]
  PROVE  \E f \in [0..N -> X] : Follows(f, N, base, step)
<1> DEFINE Good(m) == \E f \in [0..m -> X] : Follows(f, m, base, step)
           T == {m \in Nat : Good(m)}
<1> USE DEF Follows
<1>1. 0 \in T
  <2> DEFINE f == [n \in 0..0 |-> base]
  <2>1. f \in [0..0 -> X] /\ f[0] = base /\ \A n \in 1..0 : f[n] = step[n][f[n-1]]
    OBVIOUS
  <2> QED
    BY <2>1
<1>2. ASSUME NEW m \in 0..N, m < N, m \in T PROVE m + 1 \in T
  <2>1. PICK f \in [0..m -> X] :
           f[0] = base /\ \A n \in 1..m : f[n] = step[n][f[n-1]]
    BY <1>2
  <2> DEFINE g == [n \in 0..(m + 1) |-> IF n = m + 1 THEN step[m + 1][f[m]] ELSE f[n]]
  <2>2. step[m + 1] \in [X -> X] /\ f[m] \in X
    BY <1>2, <2>1
  <2>3. g \in [0..(m + 1) -> X] /\ g[0] = base
    BY <1>2, <2>1, <2>2
  <2>4. ASSUME NEW n \in 1..(m + 1) PROVE g[n] = step[n][g[n-1]]
    BY <1>2, <2>1
  <2>5. Good(m + 1)
    BY <2>3, <2>4
  <2> HIDE DEF Good
  <2> QED
    BY <2>5
<1> HIDE DEF T
<1>3. \A m \in 0..N : m < N /\ m \in T => m + 1 \in T
  BY <1>2
<1>4. \A m \in 0..N : m \in T
  BY <1>1, <1>3, UpTo
<1>5. N \in T
  BY <1>4
<1> QED
  BY <1>5 DEF T

(* The least number of a set.                                              *)
LEMMA LeastOf ==
  ASSUME NEW S \in SUBSET Int, NEW m \in S, \A y \in S : m <= y
  PROVE  Min(S) = m
<1>1. ASSUME NEW x \in S, \A y \in S : x =< y PROVE x = m
  BY <1>1
<1> QED
  BY <1>1 DEF Min

(* The greatest number of a set.                                           *)
LEMMA GreatestOf ==
  ASSUME NEW S \in SUBSET Int, NEW m \in S, \A y \in S : y <= m
  PROVE  Max(S) = m
<1>1. ASSUME NEW x \in S, \A y \in S : x >= y PROVE x = m
  BY <1>1
<1> QED
  BY <1>1 DEF Max

-----------------------------------------------------------------------------
(* Flattening a sequence of sequences                                      *)

(* One sequence after another.                                             *)
LEMMA ConcatIs ==
  ASSUME NEW S, NEW a \in Seq(S), NEW b \in Seq(S)
  PROVE  /\ a \o b \in Seq(S) /\ Len(a \o b) = Len(a) + Len(b)
         /\ \A k \in 1..Len(a) : (a \o b)[k] = a[k]
         /\ \A k \in 1..Len(b) : (a \o b)[Len(a) + k] = b[k]
  OBVIOUS

(* The recursion behind FlattenSeq, and its first n sequences flattened.   *)
FlattenBy(ss) ==
  CHOOSE f : f = [i \in 1..Len(ss) |->
                    IF i = 1 THEN ss[i] ELSE f[i-1] \o ss[i]]
Flat(ss, n) == IF n = 0 THEN <<>> ELSE FlattenBy(ss)[n]

(* It is what the recursion says it is.                                    *)
LEMMA FlattenEquation ==
  ASSUME NEW S, NEW ss \in Seq(Seq(S))
  PROVE  /\ FlattenSeq(ss) = Flat(ss, Len(ss))
         /\ Flat(ss, 0) = <<>>
         /\ \A n \in 1..Len(ss) : Flat(ss, n) = Flat(ss, n - 1) \o ss[n]
<1> DEFINE N == Len(ss)
           X == Seq(S)
           none == <<>>
           cat(a, b) == a \o b
           G(f, n) == IF n = 1 THEN ss[n] ELSE cat(f[n-1], ss[n])
           F(f) == [n \in 1..N |-> G(f, n)]
           row(n) == [t \in X |-> cat(t, ss[n])]
           step == [n \in 1..N |-> row(n)]
<1>1. N \in Nat /\ none \in X /\ \A n \in 1..N : ss[n] \in X
  OBVIOUS
<1>2. \A n \in 1..N : row(n) \in [X -> X]
  <2>1. \A n \in 1..N : \A t \in X : t \o ss[n] \in X
    BY <1>1, ConcatIs
  <2> QED
    BY <2>1
<1>3. FlattenBy(ss) = CHOOSE f : f = F(f)
  BY DEF FlattenBy
<1>4. \A t \in X : cat(none, t) = t
  OBVIOUS
<1>4a. FlattenSeq(ss) = IF Len(ss) = 0 THEN ss ELSE FlattenBy(ss)[N]
  BY Zenon DEF FlattenSeq, FlattenBy
<1>4b. Len(ss) = 0 => ss = none
  OBVIOUS
<1> HIDE DEF N, row, none, G, cat
<1>5. step \in [1..N -> [X -> X]] /\ \A n \in 1..N : step[n] = row(n)
  BY <1>2
<1> HIDE DEF step, X
<1>6. PICK f \in [0..N -> X] : Follows(f, N, none, step)
  BY <1>1, <1>5, Recursion
<1>7. f[0] = none /\ \A n \in 1..N : f[n] = cat(f[n-1], ss[n])
  <2>1. ASSUME NEW n \in 1..N PROVE f[n] = cat(f[n-1], ss[n])
    <3>1. f[n-1] \in X
      BY <1>1, <1>6
    <3>2. f[n] = row(n)[f[n-1]]
      BY <1>5, <1>6 DEF Follows
    <3> QED
      BY <3>1, <3>2 DEF row
  <2> QED
    BY <1>6, <2>1 DEF Follows
<1> DEFINE g == [n \in 1..N |-> f[n]]
<1>8. ASSUME NEW n \in 1..N PROVE g[n] = G(g, n)
  <2>1. CASE n = 1
    <3>1. f[1] = cat(none, ss[1]) /\ ss[1] \in X
      BY <1>1, <1>7, <2>1
    <3>2. f[1] = ss[1]
      BY <1>4, <3>1
    <3> QED
      BY <2>1, <3>2 DEF G
  <2>2. CASE n # 1
    BY <1>1, <1>7, <2>2 DEF G
  <2> QED
    BY <2>1, <2>2
<1>9. g = F(g)
  BY <1>8
<1> HIDE DEF g
<1>10. FlattenBy(ss) = F(FlattenBy(ss))
  BY <1>3, <1>9
<1>11. \A n \in 1..N : FlattenBy(ss)[n] = G(FlattenBy(ss), n)
  BY <1>10
<1>12. Flat(ss, 0) = none /\ \A n \in 1..N : Flat(ss, n) = FlattenBy(ss)[n]
  BY <1>1 DEF Flat, none
<1>13. ASSUME NEW n \in 1..N PROVE Flat(ss, n) = cat(Flat(ss, n - 1), ss[n])
  <2>1. CASE n = 1
    BY <1>1, <1>4, <1>11, <1>12, <2>1 DEF G
  <2>2. CASE n # 1
    <3>1. n - 1 \in 1..N
      BY <1>1, <2>2
    <3>2. FlattenBy(ss)[n] = cat(FlattenBy(ss)[n-1], ss[n])
      BY <1>11, <2>2 DEF G
    <3> QED
      BY <1>12, <3>1, <3>2
  <2> QED
    BY <2>1, <2>2
<1>14. FlattenSeq(ss) = Flat(ss, N)
  BY <1>1, <1>4a, <1>4b, <1>12 DEF N
<1> QED
  BY <1>12, <1>13, <1>14 DEF N, none, cat

(* t consists of the first n sequences of ss one after another: position p *)
(* of t is position off[p] of sequence blk[p].                             *)
LaidOut(blk, off, t, ss, n) ==
  /\ blk \in [1..Len(t) -> 1..n] /\ off \in [1..Len(t) -> Nat]
  /\ \A p \in 1..Len(t) : off[p] \in 1..Len(ss[blk[p]]) /\ t[p] = ss[blk[p]][off[p]]
  /\ \A p, q \in 1..Len(t) :
       p < q => blk[p] < blk[q] \/ (blk[p] = blk[q] /\ off[p] < off[q])
  /\ \A i \in 1..n : \A a \in 1..Len(ss[i]) :
       \E p \in 1..Len(t) : blk[p] = i /\ off[p] = a

(* One more sequence.                                                      *)
LEMMA LaidMore ==
  ASSUME NEW S, NEW ss \in Seq(Seq(S)), NEW n \in 1..Len(ss), NEW t \in Seq(S),
         NEW blk, NEW off, LaidOut(blk, off, t, ss, n - 1)
  PROVE  \E b, o : LaidOut(b, o, t \o ss[n], ss, n)
<1> DEFINE x == ss[n]
           u == t \o x
           L == Len(t)
           M == Len(x)
           b == [p \in 1..(L + M) |-> IF p <= L THEN blk[p] ELSE n]
           o == [p \in 1..(L + M) |-> IF p <= L THEN off[p] ELSE p - L]
<1>1. x \in Seq(S)
  OBVIOUS
<1>2. L \in Nat /\ M \in Nat
  BY <1>1
<1>3. /\ Len(u) = L + M
      /\ \A k \in 1..L : u[k] = t[k]
      /\ \A k \in 1..M : u[L + k] = x[k]
  BY <1>1, ConcatIs
<1>4. /\ \A p \in 1..L : blk[p] \in 1..(n - 1) /\ off[p] \in Nat
      /\ \A p \in 1..L : off[p] \in 1..Len(ss[blk[p]]) /\ t[p] = ss[blk[p]][off[p]]
      /\ \A p, q \in 1..L :
           p < q => blk[p] < blk[q] \/ (blk[p] = blk[q] /\ off[p] < off[q])
      /\ \A i \in 1..(n - 1) : \A a \in 1..Len(ss[i]) :
           \E p \in 1..L : blk[p] = i /\ off[p] = a
  BY DEF LaidOut
<1>5. n \in Nat
  OBVIOUS
<1> HIDE DEF u, x, L, M
<1>6. \A p \in 1..(L + M) : p \in 1..L \/ (p > L /\ p - L \in 1..M)
  BY <1>2
<1>7. b \in [1..(L + M) -> 1..n] /\ o \in [1..(L + M) -> Nat]
  BY <1>2, <1>4, <1>5, <1>6
<1>8. /\ \A p \in 1..L : b[p] = blk[p] /\ o[p] = off[p]
      /\ \A p \in 1..(L + M) : p > L => b[p] = n /\ o[p] = p - L
  BY <1>2
<1> HIDE DEF b, o
<1>9. ASSUME NEW p \in 1..(L + M)
      PROVE  o[p] \in 1..Len(ss[b[p]]) /\ u[p] = ss[b[p]][o[p]]
  <2>1. CASE p \in 1..L
    BY <1>3, <1>4, <1>8, <2>1
  <2>2. CASE p > L
    <3>1. b[p] = n /\ o[p] = p - L /\ p - L \in 1..M
      BY <1>2, <1>8, <2>2
    <3>2. u[p] = x[p - L]
      <4>1. p = L + (p - L)
        BY <1>2
      <4> QED
        BY <1>3, <3>1, <4>1
    <3> QED
      BY <3>1, <3>2 DEF x, M
  <2> QED
    BY <1>6, <2>1, <2>2
<1>10. ASSUME NEW p \in 1..(L + M), NEW q \in 1..(L + M), p < q
       PROVE  b[p] < b[q] \/ (b[p] = b[q] /\ o[p] < o[q])
  <2>1. CASE q \in 1..L
    BY <1>2, <1>4, <1>8, <1>10, <2>1
  <2>2. CASE q > L /\ p \in 1..L
    <3>1. b[q] = n /\ b[p] = blk[p] /\ blk[p] \in 1..(n - 1)
      BY <1>4, <1>8, <2>2
    <3> QED
      BY <1>5, <3>1
  <2>3. CASE p > L
    BY <1>2, <1>8, <1>10, <2>3
  <2> QED
    BY <1>6, <2>1, <2>2, <2>3
<1>11. ASSUME NEW i \in 1..n, NEW a \in 1..Len(ss[i])
       PROVE  \E p \in 1..(L + M) : b[p] = i /\ o[p] = a
  <2>1. CASE i = n
    <3>1. a \in 1..M
      BY <2>1 DEF M, x
    <3>2. L + a \in 1..(L + M) /\ L + a > L /\ (L + a) - L = a
      BY <1>2, <3>1
    <3> QED
      BY <1>8, <2>1, <3>2
  <2>2. CASE i # n
    <3>1. i \in 1..(n - 1)
      BY <1>5, <2>2
    <3>2. PICK p \in 1..L : blk[p] = i /\ off[p] = a
      BY <1>4, <3>1
    <3>3. p \in 1..(L + M)
      BY <1>2
    <3> QED
      BY <1>8, <3>2, <3>3
  <2> QED
    BY <2>1, <2>2
<1>12. LaidOut(b, o, u, ss, n)
  BY <1>3, <1>7, <1>9, <1>10, <1>11 DEF LaidOut
<1> QED
  BY <1>12 DEF u, x

(* What FlattenSeq returns.                                                *)
LEMMA FlattenIs ==
  ASSUME NEW S, NEW ss \in Seq(Seq(S))
  PROVE  /\ FlattenSeq(ss) \in Seq(S)
         /\ \E blk, off : LaidOut(blk, off, FlattenSeq(ss), ss, Len(ss))
<1> DEFINE N == Len(ss)
           K(n) == Flat(ss, n)
           P(n) == K(n) \in Seq(S) /\ \E blk, off : LaidOut(blk, off, K(n), ss, n)
           T == {n \in 0..N : P(n)}
<1>1. /\ FlattenSeq(ss) = K(N) /\ K(0) = <<>>
      /\ \A n \in 1..N : K(n) = K(n - 1) \o ss[n]
  BY FlattenEquation
<1> HIDE DEF K
<1>2. N \in Nat
  OBVIOUS
<1>3. P(0)
  <2> DEFINE t == <<>>
             f == [k \in 1..0 |-> 0]
  <2>1. t \in Seq(S) /\ Len(t) = 0 /\ f \in [1..0 -> 1..0] /\ f \in [1..0 -> Nat]
    OBVIOUS
  <2> HIDE DEF t, f
  <2>2. LaidOut(f, f, t, ss, 0)
    BY <2>1 DEF LaidOut
  <2>3. K(0) = t
    BY <1>1 DEF t
  <2> QED
    BY <2>1, <2>2, <2>3
<1>4. ASSUME NEW n \in 1..N, P(n - 1) PROVE P(n)
  <2> DEFINE t == K(n - 1)
  <2>1. t \in Seq(S) /\ ss[n] \in Seq(S)
    BY <1>4
  <2>2. PICK blk, off : LaidOut(blk, off, t, ss, n - 1)
    BY <1>4
  <2>3. K(n) = t \o ss[n]
    BY <1>1
  <2> HIDE DEF t
  <2>4. \E b, o : LaidOut(b, o, t \o ss[n], ss, n)
    BY <2>1, <2>2, LaidMore
  <2>5. t \o ss[n] \in Seq(S)
    BY <2>1, ConcatIs
  <2> QED
    BY <2>3, <2>4, <2>5
<1> HIDE DEF P
<1>5. 0 \in T
  BY <1>2, <1>3
<1>6. ASSUME NEW n \in 0..N, n < N, n \in T PROVE n + 1 \in T
  <2>1. n + 1 \in 1..N /\ (n + 1) - 1 = n
    BY <1>2, <1>6
  <2>2. P(n + 1)
    BY <1>4, <1>6, <2>1
  <2> QED
    BY <2>1, <2>2
<1> HIDE DEF T
<1>7. \A n \in 0..N : n \in T
  BY <1>2, <1>5, <1>6, UpTo
<1>8. P(N)
  BY <1>2, <1>7 DEF T
<1> QED
  BY <1>1, <1>8 DEF P

-----------------------------------------------------------------------------
(* Finite sets of numbers in order                                         *)

(* Rank numbers a finite set from 1 on, in the order of its elements.      *)
LEMMA RankIs ==
  ASSUME NEW S \in SUBSET Nat, IsFiniteSet(S)
  PROVE  /\ Cardinality(S) \in Nat
         /\ \A x \in S : Rank(S, x) \in 1..Cardinality(S)
         /\ \A x, y \in S : x < y => Rank(S, x) < Rank(S, y)
         /\ \A i \in 1..Cardinality(S) : \E x \in S : Rank(S, x) = i
<1> DEFINE D(x) == {m \in S : m <= x}
           C == Cardinality(S)
           f == [x \in S |-> Cardinality(D(x))]
<1>1. C \in Nat
  BY FS_CardinalityType
<1>2. ASSUME NEW x \in S
      PROVE  /\ IsFiniteSet(D(x)) /\ Cardinality(D(x)) \in 1..C
             /\ Rank(S, x) = Cardinality(D(x))
  <2>1. D(x) \in SUBSET S /\ D(x) # {}
    OBVIOUS
  <2> HIDE DEF D
  <2>2. IsFiniteSet(D(x)) /\ Cardinality(D(x)) <= C
    BY <2>1, FS_Subset
  <2>3. Cardinality(D(x)) \in Nat /\ Cardinality(D(x)) # 0
    BY <2>1, <2>2, FS_CardinalityType, FS_EmptySet
  <2> QED
    BY <1>1, <2>2, <2>3 DEF D, Rank
<1>3. ASSUME NEW x \in S, NEW y \in S, x < y
      PROVE  Cardinality(D(x)) < Cardinality(D(y))
  <2>1. D(x) \in SUBSET D(y) /\ y \in D(y) /\ ~(y \in D(x))
    <3>1. y <= y /\ ~(y <= x) /\ \A m \in S : m <= x => m <= y
      BY <1>3
    <3>2. \A m \in D(x) : m \in D(y)
      BY <3>1
    <3>3. y \in D(y) /\ ~(y \in D(x))
      BY <3>1
    <3> HIDE DEF D
    <3> QED
      BY <3>2, <3>3
  <2>2. Cardinality(D(x)) \in 1..C /\ Cardinality(D(y)) \in 1..C /\ IsFiniteSet(D(y))
    BY <1>2
  <2> HIDE DEF D
  <2>3. Cardinality(D(x)) <= Cardinality(D(y)) /\ Cardinality(D(y)) # Cardinality(D(x))
    BY <2>1, <2>2, FS_Subset
  <2> QED
    BY <1>1, <2>2, <2>3
<1> HIDE DEF D, C
<1>4. f \in [S -> 1..C] /\ \A x \in S : f[x] = Cardinality(D(x))
  BY <1>2
<1> HIDE DEF f
<1>5. ASSUME NEW x \in S, NEW y \in S, x # y PROVE f[x] # f[y]
  <2>1. x < y \/ y < x
    BY <1>5
  <2>2. f[x] < f[y] \/ f[y] < f[x]
    BY <1>3, <1>4, <2>1
  <2> QED
    BY <1>1, <1>4, <2>2
<1>6. f \in Injection(S, 1..C)
  BY <1>4, <1>5 DEF Injection, IsInjective
<1>7. IsFiniteSet(1..C) /\ Cardinality(1..C) = C
  BY <1>1, FS_Interval
<1>8. f \in Surjection(S, 1..C)
  BY <1>6, <1>7, FS_Injection DEF C
<1>9. \A i \in 1..C : \E x \in S : f[x] = i
  BY <1>8 DEF Surjection
<1> QED
  BY <1>1, <1>2, <1>3, <1>4, <1>9 DEF C

(* InOrder lists a finite set in order, each element at its rank.          *)
LEMMA InOrderIs ==
  ASSUME NEW S \in SUBSET Nat, IsFiniteSet(S)
  PROVE  /\ Cardinality(S) \in Nat
         /\ InOrder(S) \in Seq(S) /\ Len(InOrder(S)) = Cardinality(S)
         /\ DOMAIN InOrder(S) = 1..Cardinality(S)
         /\ \A i \in 1..Cardinality(S) : InOrder(S)[i] \in S /\ Rank(S, InOrder(S)[i]) = i
         /\ \A i, j \in 1..Cardinality(S) : i < j => InOrder(S)[i] < InOrder(S)[j]
         /\ \A x \in S : Rank(S, x) \in 1..Cardinality(S) /\ InOrder(S)[Rank(S, x)] = x
<1> DEFINE C == Cardinality(S)
           at(i) == CHOOSE n \in S : Rank(S, n) = i
           q == [i \in 1..C |-> at(i)]
<1>1. /\ C \in Nat
      /\ \A x \in S : Rank(S, x) \in 1..C
      /\ \A x, y \in S : x < y => Rank(S, x) < Rank(S, y)
      /\ \A i \in 1..C : \E x \in S : Rank(S, x) = i
  BY RankIs
<1>2. InOrder(S) = q
  BY DEF InOrder
<1>3. \A i \in 1..C : at(i) \in S /\ Rank(S, at(i)) = i
  BY <1>1
<1> HIDE DEF C, at
<1>4. q \in [1..C -> S] /\ \A i \in 1..C : q[i] = at(i)
  BY <1>3
<1> HIDE DEF q
<1>5. q \in Seq(S) /\ Len(q) = C /\ DOMAIN q = 1..C
  BY <1>1, <1>4
<1>6. ASSUME NEW i \in 1..C, NEW j \in 1..C, i < j PROVE q[i] < q[j]
  <2>1. q[i] \in Nat /\ q[j] \in Nat /\ Rank(S, q[i]) = i /\ Rank(S, q[j]) = j
        /\ q[i] \in S /\ q[j] \in S
    BY <1>3, <1>4
  <2>2. ~(q[j] < q[i]) /\ q[i] # q[j]
    BY <1>1, <1>6, <2>1
  <2> QED
    BY <2>1, <2>2
<1>7. ASSUME NEW x \in S PROVE q[Rank(S, x)] = x
  <2>1. Rank(S, x) \in 1..C
    BY <1>1
  <2> DEFINE y == q[Rank(S, x)]
  <2>2. y \in S /\ Rank(S, y) = Rank(S, x)
    BY <1>3, <1>4, <2>1
  <2> HIDE DEF y
  <2>3. ~(x < y) /\ ~(y < x) /\ x \in Nat /\ y \in Nat /\ Rank(S, x) \in Nat
    BY <1>1, <2>1, <2>2
  <2> QED
    BY <2>3 DEF y
<1> QED
  BY <1>1, <1>2, <1>3, <1>4, <1>5, <1>6, <1>7 DEF C

(* Sets that correspond in order are listed alike.                         *)
LEMMA SameOrder ==
  ASSUME NEW H \in SUBSET Nat, IsFiniteSet(H), NEW V \in SUBSET Nat, IsFiniteSet(V),
         NEW g \in [H -> V], \A x, y \in H : x < y => g[x] < g[y],
         \A v \in V : \E x \in H : g[x] = v
  PROVE  /\ Cardinality(V) = Cardinality(H)
         /\ \A k \in 1..Cardinality(H) : g[InOrder(H)[k]] = InOrder(V)[k]
<1> DEFINE below(S, x) == {m \in S : m <= x}
<1>1. \A x, y \in H : x # y => g[x] # g[y]
  <2> SUFFICES ASSUME NEW x \in H, NEW y \in H, x # y PROVE g[x] # g[y]
    OBVIOUS
  <2>1. x < y \/ y < x
    OBVIOUS
  <2>2. g[x] \in Nat /\ g[y] \in Nat
    OBVIOUS
  <2> QED
    BY <2>1, <2>2
<1>2. ExistsBijection(H, V)
  BY <1>1 DEF ExistsBijection, Bijection, Injection, IsInjective, Surjection
<1>3. Cardinality(V) = Cardinality(H)
  BY <1>2, FS_Bijection
<1>4. ASSUME NEW h \in H PROVE Rank(V, g[h]) = Rank(H, h)
  <2> DEFINE A == below(H, h)
             B == below(V, g[h])
             e == [x \in A |-> g[x]]
  <2>1. A \in SUBSET H /\ \A x \in H : x \in A <=> x <= h
    OBVIOUS
  <2>2. B \in SUBSET V /\ \A v \in V : v \in B <=> v <= g[h]
    OBVIOUS
  <2>2a. A = {m \in H : m <= h} /\ B = {m \in V : m <= g[h]}
    OBVIOUS
  <2> HIDE DEF A, B
  <2>3. ASSUME NEW x \in H PROVE g[x] \in B <=> x \in A
    <3>1. x \in Nat /\ h \in Nat /\ g[x] \in Nat /\ g[h] \in Nat
      OBVIOUS
    <3>2. x <= h <=> g[x] <= g[h]
      BY <3>1
    <3> QED
      BY <2>1, <2>2, <3>2
  <2>4. e \in [A -> B] /\ \A x \in A : e[x] = g[x]
    BY <2>1, <2>3
  <2>5. \A v \in B : \E x \in A : e[x] = v
    BY <2>1, <2>2, <2>3, <2>4
  <2> HIDE DEF e
  <2>6. e \in Bijection(A, B)
    BY <1>1, <2>1, <2>4, <2>5 DEF Bijection, Injection, IsInjective, Surjection
  <2>7. ExistsBijection(A, B) /\ IsFiniteSet(A)
    BY <2>1, <2>6, FS_Subset DEF ExistsBijection
  <2>8. Cardinality(B) = Cardinality(A)
    BY <2>7, FS_Bijection
  <2> QED
    BY <2>2a, <2>8 DEF Rank
<1>5. ASSUME NEW k \in 1..Cardinality(H) PROVE g[InOrder(H)[k]] = InOrder(V)[k]
  <2> DEFINE h == InOrder(H)[k]
  <2>1. h \in H /\ Rank(H, h) = k
    BY InOrderIs
  <2> HIDE DEF h
  <2>2. g[h] \in V /\ Rank(V, g[h]) = k
    BY <1>4, <2>1
  <2>3. InOrder(V)[Rank(V, g[h])] = g[h]
    BY <2>2, InOrderIs
  <2> QED
    BY <2>2, <2>3 DEF h
<1> QED
  BY <1>3, <1>5

-----------------------------------------------------------------------------
(* Forests                                                                 *)

(* What TreeAssumption says of a forest.                                   *)
IsForest(f) ==
  /\ f \in Seq(Nat) /\ Len(f) > 0 /\ f[1] = 0
  /\ \A i \in 1..(Len(f) - 1) : f[i + 1] <= f[i] + 1

(* The nodes are numbers.                                                  *)
LEMMA NodesAre ==
  ASSUME NEW f, IsForest(f)
  PROVE  /\ Len(f) \in Nat /\ Nodes(f) = 1..Len(f) /\ Nodes(f) \in SUBSET Nat
         /\ \A n \in Nodes(f) : f[n] \in Nat
         /\ IsFiniteSet(Nodes(f))
<1>1. Len(f) \in Nat /\ Nodes(f) = 1..Len(f) /\ \A n \in Nodes(f) : f[n] \in Nat
  BY DEF IsForest, Nodes
<1>2. IsFiniteSet(1..Len(f))
  BY <1>1, FS_Interval
<1> QED
  BY <1>1, <1>2

(* A subtree is an interval that begins with its root, and what else is in *)
(* it is deeper.                                                           *)
LEMMA SubtreeIs ==
  ASSUME NEW f, IsForest(f), NEW n \in Nodes(f)
  PROVE  /\ n \in Subtree(f, n)
         /\ \A m \in Subtree(f, n) : m \in Nodes(f) /\ n <= m /\ (m # n => f[n] < f[m])
         /\ \A m \in Subtree(f, n) : \A k \in Nodes(f) : n <= k /\ k <= m => k \in Subtree(f, n)
<1>1. /\ Nodes(f) \in SUBSET Nat
      /\ \A k \in Nodes(f) : f[k] \in Nat
  BY NodesAre
<1>2. n \in Nat
  BY <1>1
<1>3. n \in Subtree(f, n)
  <2>1. n >= n /\ \A k \in (n + 1)..n : f[k] > f[n]
    BY <1>2
  <2> QED
    BY <2>1 DEF Subtree
<1>4. ASSUME NEW m \in Subtree(f, n)
      PROVE  /\ m \in Nodes(f) /\ m \in Nat /\ n <= m /\ (m # n => f[n] < f[m])
             /\ \A k \in (n + 1)..m : f[k] > f[n]
  <2>1. m \in Nodes(f) /\ m >= n /\ \A k \in (n + 1)..m : f[k] > f[n]
    BY DEF Subtree
  <2>2. m \in Nat
    BY <1>1, <2>1
  <2>3. m # n => m \in (n + 1)..m
    BY <1>2, <2>1, <2>2
  <2>4. m # n => f[n] < f[m]
    BY <1>1, <2>1, <2>3
  <2> QED
    BY <1>2, <2>1, <2>2, <2>4
<1>5. ASSUME NEW m \in Subtree(f, n), NEW k \in Nodes(f), n <= k, k <= m
      PROVE  k \in Subtree(f, n)
  <2>1. k \in Nat /\ m \in Nat
    BY <1>1, <1>4
  <2>2. \A j \in (n + 1)..k : j \in (n + 1)..m
    BY <1>2, <1>5, <2>1
  <2>3. k >= n /\ \A j \in (n + 1)..k : f[j] > f[n]
    BY <1>2, <1>4, <1>5, <2>1, <2>2
  <2> QED
    BY <2>3 DEF Subtree
<1> QED
  BY <1>3, <1>4, <1>5

(* Subtrees of subtrees are parts of them.                                 *)
LEMMA SubtreeNested ==
  ASSUME NEW f, IsForest(f), NEW n \in Nodes(f), NEW m \in Subtree(f, n), NEW k \in Subtree(f, m)
  PROVE  k \in Subtree(f, n)
<1>1. /\ Nodes(f) \in SUBSET Nat
      /\ \A j \in Nodes(f) : f[j] \in Nat
  BY NodesAre
<1>2. m \in Nodes(f) /\ n <= m /\ (m # n => f[n] < f[m])
  BY SubtreeIs
<1>3. k \in Nodes(f) /\ m <= k
  BY <1>2, SubtreeIs
<1>4. n \in Nat /\ m \in Nat /\ k \in Nat
  BY <1>1, <1>2, <1>3
<1>5. ASSUME NEW j \in (n + 1)..k PROVE f[j] > f[n]
  <2>1. CASE j <= m
    <3>1. j \in (n + 1)..m
      BY <1>4, <2>1
    <3> QED
      BY <3>1 DEF Subtree
  <2>2. CASE j > m
    <3>1. j \in (m + 1)..k /\ j \in Nat
      BY <1>4, <2>2
    <3>2. f[j] > f[m]
      BY <3>1 DEF Subtree
    <3>3. j \in Nodes(f)
      <4>1. Len(f) \in Nat /\ Nodes(f) = 1..Len(f)
        BY NodesAre
      <4> QED
        BY <1>3, <1>4, <3>1, <4>1
    <3>4. f[j] \in Nat /\ f[m] \in Nat /\ f[n] \in Nat /\ f[n] <= f[m]
      BY <1>1, <1>2, <3>3
    <3> QED
      BY <3>2, <3>4
  <2> QED
    BY <1>4, <2>1, <2>2
<1> QED
  BY <1>3, <1>4, <1>5, <1>2 DEF Subtree

(* Subtrees of nodes of one depth follow each other.                       *)
LEMMA SubtreesFollow ==
  ASSUME NEW f, IsForest(f), NEW c \in Nodes(f), NEW d \in Nodes(f), f[c] = f[d], c < d,
         NEW x \in Subtree(f, c), NEW y \in Subtree(f, d)
  PROVE  x < y
<1>1. /\ Nodes(f) \in SUBSET Nat
      /\ \A j \in Nodes(f) : f[j] \in Nat
  BY NodesAre
<1>2. x \in Nodes(f) /\ y \in Nodes(f) /\ d <= y
  BY SubtreeIs
<1>3. x \in Nat /\ y \in Nat /\ c \in Nat /\ d \in Nat /\ f[c] \in Nat
  BY <1>1, <1>2
<1>4. ASSUME d <= x PROVE FALSE
  <2>1. d \in Subtree(f, c)
    BY <1>3, <1>4, SubtreeIs
  <2>2. d # c
    BY <1>3
  <2>3. f[c] < f[d]
    BY <2>1, <2>2, SubtreeIs
  <2> QED
    BY <1>3, <2>3
<1> QED
  BY <1>2, <1>3, <1>4

(* The greatest element of a bounded set of numbers.                       *)
LEMMA GreatestNumber ==
  ASSUME NEW N \in Nat, NEW T \in SUBSET (0..N), T # {}
  PROVE  \E k \in T : \A j \in T : j <= k
<1> DEFINE U == {N - j : j \in T}
<1>1. U \in SUBSET Nat /\ U # {}
  <2>1. \A j \in T : j \in 0..N
    OBVIOUS
  <2>2. \A j \in T : N - j \in Nat
    BY <2>1
  <2> QED
    BY <2>2
<1>2. PICK u \in U : \A w \in U : u <= w
  BY <1>1, LeastNumber
<1>3. PICK k \in T : u = N - k
  BY <1>2
<1>4. ASSUME NEW j \in T PROVE j <= k
  <2>1. N - j \in U
    OBVIOUS
  <2>2. N - k <= N - j
    BY <1>2, <1>3, <2>1
  <2>3. j \in Int /\ k \in Int
    OBVIOUS
  <2> QED
    BY <2>2, <2>3
<1> QED
  BY <1>4

(* Below a node, every node is below one of its children.                  *)
LEMMA SubtreeSplit ==
  ASSUME NEW f, IsForest(f), NEW n \in Nodes(f), NEW m \in Subtree(f, n), m # n
  PROVE  \E c \in Children(f, n) : m \in Subtree(f, c)
<1> DEFINE N == Len(f)
           T == {k \in (n + 1)..m : f[k] = f[n] + 1}
<1>1. /\ N \in Nat /\ Nodes(f) = 1..N /\ Nodes(f) \in SUBSET Nat
      /\ \A j \in Nodes(f) : f[j] \in Nat
  BY NodesAre
<1>2. m \in Nodes(f) /\ n <= m /\ \A k \in (n + 1)..m : f[k] > f[n]
  BY SubtreeIs DEF Subtree
<1>3. n \in 1..N /\ m \in 1..N /\ n < m
  BY <1>1, <1>2
<1>4. \A k \in (n + 1)..m : k \in 1..N /\ k \in Nodes(f) /\ f[k] \in Nat /\ f[k] > f[n]
  BY <1>1, <1>2, <1>3
<1>5. T # {}
  <2>1. n + 1 \in (n + 1)..m /\ n \in 1..(N - 1)
    BY <1>1, <1>3
  <2>2. f[n + 1] <= f[n] + 1 /\ f[n + 1] > f[n]
    BY <1>4, <2>1 DEF IsForest
  <2>3. f[n + 1] \in Nat /\ f[n] \in Nat
    BY <1>1, <1>4, <2>1
  <2>4. f[n + 1] = f[n] + 1
    BY <2>2, <2>3
  <2> QED
    BY <2>1, <2>4
<1>6. T \in SUBSET (0..N)
  BY <1>1, <1>4
<1>7. PICK c \in T : \A j \in T : j <= c
  BY <1>1, <1>5, <1>6, GreatestNumber
<1>8. c \in (n + 1)..m /\ f[c] = f[n] + 1 /\ c \in Nodes(f)
  BY <1>4, <1>7
<1>9. c \in Children(f, n)
  <2>1. c \in Subtree(f, n)
    BY <1>1, <1>2, <1>8, SubtreeIs
  <2> QED
    BY <1>8, <2>1 DEF Children
<1>10. ASSUME NEW k \in (c + 1)..m PROVE f[k] > f[c]
  <2>1. k \in (n + 1)..m /\ ~(k <= c)
    BY <1>1, <1>3, <1>8
  <2>2. f[k] # f[n] + 1
    BY <1>7, <2>1
  <2>3. f[k] \in Nat /\ f[k] > f[n] /\ f[n] \in Nat
    BY <1>1, <1>4, <2>1
  <2> QED
    BY <1>8, <2>2, <2>3
<1>11. m \in Subtree(f, c)
  <2>1. m >= c
    BY <1>1, <1>3, <1>8
  <2> QED
    BY <1>2, <1>10, <2>1 DEF Subtree
<1> QED
  BY <1>9, <1>11

(* Every node is in the subtree of a root.                                 *)
LEMMA RootOf ==
  ASSUME NEW f, IsForest(f), NEW m \in Nodes(f)
  PROVE  \E r \in Roots(f) : m \in Subtree(f, r)
<1> DEFINE N == Len(f)
           T == {k \in 1..m : f[k] = 0}
<1>1. /\ N \in Nat /\ Nodes(f) = 1..N /\ Nodes(f) \in SUBSET Nat
      /\ \A j \in Nodes(f) : f[j] \in Nat
  BY NodesAre
<1>2. m \in 1..N
  BY <1>1
<1>3. \A k \in 1..m : k \in Nodes(f) /\ f[k] \in Nat
  BY <1>1, <1>2
<1>4. 1 \in T /\ T \in SUBSET (0..N)
  BY <1>1, <1>2 DEF IsForest
<1>5. PICK r \in T : \A j \in T : j <= r
  BY <1>1, <1>4, GreatestNumber
<1>6. r \in 1..m /\ f[r] = 0 /\ r \in Roots(f)
  BY <1>3, <1>5 DEF Roots
<1>7. ASSUME NEW k \in (r + 1)..m PROVE f[k] > f[r]
  <2>1. k \in 1..m /\ ~(k <= r)
    BY <1>2, <1>6
  <2>2. f[k] # 0 /\ f[k] \in Nat
    BY <1>3, <1>5, <2>1
  <2> QED
    BY <1>6, <2>2
<1>8. m \in Subtree(f, r)
  BY <1>2, <1>6, <1>7 DEF Subtree
<1> QED
  BY <1>6, <1>8

(* The children of a node: a finite set of nodes below it, one deeper.     *)
LEMMA ChildrenAre ==
  ASSUME NEW f, IsForest(f), NEW n \in Nodes(f)
  PROVE  /\ Children(f, n) \in SUBSET Nat /\ IsFiniteSet(Children(f, n))
         /\ \A c \in Children(f, n) :
              c \in Nodes(f) /\ c \in Subtree(f, n) /\ n < c /\ f[c] = f[n] + 1 /\ f[n] < f[c]
         /\ \A c, d \in Children(f, n) : c < d =>
              \A x \in Subtree(f, c) : \A y \in Subtree(f, d) : x < y
<1>1. /\ Nodes(f) \in SUBSET Nat /\ IsFiniteSet(Nodes(f))
      /\ \A k \in Nodes(f) : f[k] \in Nat
  BY NodesAre
<1>2. ASSUME NEW c \in Children(f, n)
      PROVE  c \in Nodes(f) /\ c \in Subtree(f, n) /\ n < c /\ f[c] = f[n] + 1 /\ f[n] < f[c]
  <2>1. c \in Subtree(f, n) /\ f[c] = f[n] + 1
    BY DEF Children
  <2>2. c \in Nodes(f) /\ n <= c
    BY <2>1, SubtreeIs
  <2>3. c # n /\ f[n] < f[c]
    BY <1>1, <2>1
  <2> QED
    BY <1>1, <2>1, <2>2, <2>3
<1>3. Children(f, n) \in SUBSET Nodes(f)
  BY <1>2
<1>4. IsFiniteSet(Children(f, n))
  BY <1>1, <1>3, FS_Subset
<1>5. ASSUME NEW c \in Children(f, n), NEW d \in Children(f, n), c < d,
             NEW x \in Subtree(f, c), NEW y \in Subtree(f, d)
      PROVE  x < y
  <2>1. c \in Nodes(f) /\ d \in Nodes(f) /\ f[c] = f[d]
    BY <1>2
  <2> QED
    BY <1>5, <2>1, SubtreesFollow
<1> QED
  BY <1>1, <1>2, <1>3, <1>4, <1>5

(* A node below n is below one child of n.                                 *)
LEMMA ChildOf ==
  ASSUME NEW f, IsForest(f), NEW n \in Nodes(f), NEW c \in Children(f, n), NEW m \in Subtree(f, c)
  PROVE  (CHOOSE x \in Children(f, n) : m \in Subtree(f, x)) = c
<1>1. ASSUME NEW x \in Children(f, n), m \in Subtree(f, x), x # c PROVE FALSE
  <2>1. x \in Nat /\ c \in Nat /\ c \in Nodes(f) /\ x \in Nodes(f)
    BY ChildrenAre
  <2>2. m \in Nodes(f)
    BY <2>1, SubtreeIs
  <2>3. m \in Nat
    BY <2>2, NodesAre
  <2>4. CASE x < c
    <3>1. m < m
      BY <1>1, <2>4, ChildrenAre
    <3> QED
      BY <2>3, <3>1
  <2>5. CASE c < x
    <3>1. m < m
      BY <1>1, <2>5, ChildrenAre
    <3> QED
      BY <2>3, <3>1
  <2> QED
    BY <1>1, <2>1, <2>4, <2>5
<1> QED
  BY <1>1

(* A node that is no root is a child of one node.                          *)
LEMMA ParentIs ==
  ASSUME NEW f, IsForest(f), NEW n \in Nodes(f), f[n] # 0
  PROVE  Parent(f, n) \in Nodes(f) /\ n \in Children(f, Parent(f, n))
<1> DEFINE N == Len(f)
           T == {k \in 1..n : f[k] < f[n]}
<1>1. /\ N \in Nat /\ Nodes(f) = 1..N /\ Nodes(f) \in SUBSET Nat
      /\ \A j \in Nodes(f) : f[j] \in Nat
  BY NodesAre
<1>2. n \in 1..N /\ f[n] \in Nat /\ f[n] > 0
  BY <1>1
<1>3. \A k \in 1..n : k \in Nodes(f) /\ f[k] \in Nat
  BY <1>1, <1>2
<1>4. 1 \in T /\ T \in SUBSET (0..N)
  BY <1>1, <1>2 DEF IsForest
<1>5. PICK p \in T : \A j \in T : j <= p
  BY <1>1, <1>4, GreatestNumber
<1>6. p \in 1..n /\ f[p] < f[n] /\ p \in Nodes(f) /\ f[p] \in Nat
  BY <1>3, <1>5
<1>7. p < n
  BY <1>2, <1>6
<1>8. \A k \in (p + 1)..n : f[k] \in Nat /\ f[k] >= f[n]
  <2> SUFFICES ASSUME NEW k \in (p + 1)..n PROVE f[k] \in Nat /\ f[k] >= f[n]
    OBVIOUS
  <2>1. k \in 1..n /\ ~(k <= p)
    BY <1>2, <1>6
  <2>2. ~(f[k] < f[n]) /\ f[k] \in Nat
    BY <1>3, <1>5, <2>1
  <2> QED
    BY <1>2, <2>2
<1>9. f[n] = f[p] + 1
  <2>1. p \in 1..(N - 1) /\ p + 1 \in (p + 1)..n
    BY <1>1, <1>2, <1>6, <1>7
  <2>2. f[p + 1] <= f[p] + 1 /\ f[p + 1] >= f[n] /\ f[p + 1] \in Nat
    BY <1>8, <2>1 DEF IsForest
  <2> QED
    BY <1>2, <1>6, <2>2
<1>10. n \in Children(f, p)
  <2>1. n >= p /\ \A k \in (p + 1)..n : f[k] > f[p]
    BY <1>2, <1>6, <1>7, <1>8
  <2>2. n \in Subtree(f, p)
    BY <2>1 DEF Subtree
  <2> QED
    BY <1>9, <2>2 DEF Children
<1> QED
  BY <1>6, <1>10 DEF Parent

(* A comma follows a node exactly when a sibling follows it.               *)
LEMMA IsLastIs ==
  ASSUME NEW f, IsForest(f), NEW n \in Nodes(f), NEW lim
  PROVE  ~IsLast(f, n, lim) <=> \E s \in Siblings(f, n) : s > n
<1> DEFINE S == Siblings(f, n)
<1>1. n \in S /\ S \in SUBSET Nat /\ IsFiniteSet(S)
  <2>1. CASE f[n] = 0
    <3>1. S = {n} /\ n \in Nat
      BY <2>1, NodesAre DEF Siblings
    <3> QED
      BY <3>1, FS_Singleton
  <2>2. CASE f[n] # 0
    <3>1. S = Children(f, Parent(f, n)) /\ n \in S /\ Parent(f, n) \in Nodes(f)
      BY <2>2, ParentIs DEF Siblings
    <3> QED
      BY <3>1, ChildrenAre
  <2> QED
    BY <2>1, <2>2
<1>2. IsLast(f, n, lim) <=> n = Max(S)
  BY DEF IsLast
<1> HIDE DEF S
<1>3. S \in SUBSET Int /\ \A s \in S : s \in Nat
  BY <1>1
<1>4. CASE \E s \in S : s > n
  <2>1. \E m \in S : \A y \in S : y <= m
    <3> DEFINE C == Cardinality(S)
               m == InOrder(S)[C]
    <3>1. C \in Nat /\ Rank(S, n) \in 1..C
      BY <1>1, InOrderIs
    <3>2. C \in 1..C
      BY <3>1
    <3>3. m \in S
      BY <1>1, <3>2, InOrderIs
    <3>4. ASSUME NEW y \in S PROVE y <= m
      <4> DEFINE k == Rank(S, y)
      <4>1. k \in 1..C /\ InOrder(S)[k] = y
        BY <1>1, InOrderIs
      <4> HIDE DEF k
      <4>2. k = C \/ k < C
        BY <3>1, <4>1
      <4>3. k < C => InOrder(S)[k] < InOrder(S)[C]
        BY <1>1, <3>2, <4>1, InOrderIs
      <4>4. y = m \/ y < m
        BY <4>1, <4>2, <4>3
      <4>5. y \in Nat /\ m \in Nat
        BY <1>3, <3>3
      <4> HIDE DEF m
      <4> QED
        BY <4>4, <4>5
    <3> QED
      BY <3>3, <3>4
  <2>2. PICK m \in S : \A y \in S : y <= m
    BY <2>1
  <2>3. Max(S) = m
    BY <1>3, <2>2, GreatestOf
  <2>4. m # n
    BY <1>1, <1>3, <1>4, <2>2
  <2> QED
    BY <1>2, <1>4, <2>3, <2>4 DEF S
<1>5. CASE ~\E s \in S : s > n
  <2>1. \A s \in S : s <= n
    BY <1>1, <1>3, <1>5
  <2>2. Max(S) = n
    BY <1>1, <1>3, <2>1, GreatestOf
  <2> QED
    BY <1>2, <1>5, <2>2 DEF S
<1> QED
  BY <1>4, <1>5

-----------------------------------------------------------------------------
(* What is visible                                                         *)

(* Container a is open and lets its descendant m be seen.                  *)
Lets(f, open, lim, a, m) ==
  /\ a \in open
  /\ Rank(Children(f, a), CHOOSE c \in Children(f, a) : m \in Subtree(f, c)) <= Shown(f, a, lim)

(* m is to be seen as far as the containers from n on decide.              *)
Below(f, open, lim, n, m) ==
  \A a \in Ancestors(f, m) : a >= n => Lets(f, open, lim, a, m)

(* Visible, in these terms.                                                *)
LEMMA VisibleLets ==
  ASSUME NEW f, NEW open, NEW lim, NEW m
  PROVE  Visible(f, open, lim, m) <=> \A a \in Ancestors(f, m) : Lets(f, open, lim, a, m)
  BY DEF Visible, Lets

(* An ancestor comes before its descendants.                               *)
LEMMA AncestorIs ==
  ASSUME NEW f, IsForest(f), NEW m \in Nodes(f), NEW a \in Ancestors(f, m)
  PROVE  a \in Nodes(f) /\ a < m /\ m \in Subtree(f, a) /\ f[a] < f[m]
<1>1. a \in Nodes(f) /\ a # m /\ m \in Subtree(f, a)
  BY DEF Ancestors
<1>2. a <= m /\ f[a] < f[m]
  BY <1>1, SubtreeIs
<1>3. a \in Nat /\ m \in Nat
  BY <1>1, NodesAre
<1> QED
  BY <1>1, <1>2, <1>3

(* The containers around a node that begin before n are around n, too.     *)
LEMMA AncestorBefore ==
  ASSUME NEW f, IsForest(f), NEW n \in Nodes(f), NEW m \in Subtree(f, n),
         NEW a \in Ancestors(f, m), a < n
  PROVE  a \in Ancestors(f, n)
<1>1. m \in Nodes(f) /\ n <= m
  BY SubtreeIs
<1>2. a \in Nodes(f) /\ m \in Subtree(f, a)
  BY <1>1, AncestorIs
<1>3. a \in Nat /\ n \in Nat
  BY <1>2, NodesAre
<1>4. n \in Subtree(f, a)
  BY <1>1, <1>2, <1>3, SubtreeIs
<1> QED
  BY <1>2, <1>3, <1>4 DEF Ancestors

(* Between a node and its child there is no container.                     *)
LEMMA AncestorBetween ==
  ASSUME NEW f, IsForest(f), NEW n \in Nodes(f), NEW c \in Children(f, n),
         NEW a \in Ancestors(f, c), a >= n
  PROVE  a = n
<1>1. c \in Nodes(f) /\ c \in Subtree(f, n) /\ f[c] = f[n] + 1
  BY ChildrenAre
<1>2. a \in Nodes(f) /\ a < c /\ f[a] < f[c]
  BY <1>1, AncestorIs
<1>3. a \in Nat /\ n \in Nat /\ c \in Nat /\ f[n] \in Nat /\ f[a] \in Nat
  BY <1>1, <1>2, NodesAre
<1>4. a \in Subtree(f, n)
  BY <1>1, <1>2, <1>3, SubtreeIs
<1>5. a # n => f[n] < f[a]
  BY <1>4, SubtreeIs
<1> QED
  BY <1>1, <1>2, <1>3, <1>5

(* Whether a container lets a node be seen depends on the child the node   *)
(* is in.                                                                  *)
LEMMA LetsChild ==
  ASSUME NEW f, IsForest(f), NEW open, NEW lim, NEW n \in Nodes(f), NEW c \in Children(f, n),
         NEW m \in Subtree(f, c)
  PROVE  Lets(f, open, lim, n, m) <=> n \in open /\ Rank(Children(f, n), c) <= Shown(f, n, lim)
  BY ChildOf DEF Lets

(* A node is to be seen below n when n shows the child it is in and it is  *)
(* to be seen below that child.                                            *)
LEMMA BelowChild ==
  ASSUME NEW f, IsForest(f), NEW open, NEW lim, NEW n \in Nodes(f), NEW c \in Children(f, n),
         NEW m \in Subtree(f, c)
  PROVE  Below(f, open, lim, n, m)
           <=> /\ n \in open /\ Rank(Children(f, n), c) <= Shown(f, n, lim)
               /\ Below(f, open, lim, c, m)
<1> DEFINE let(a) == Lets(f, open, lim, a, m)
<1>1. c \in Nodes(f) /\ c \in Subtree(f, n) /\ n < c
  BY ChildrenAre
<1>2. m \in Nodes(f) /\ m \in Subtree(f, n) /\ c <= m
  BY <1>1, SubtreeIs, SubtreeNested
<1>3. n \in Nat /\ c \in Nat /\ m \in Nat /\ \A a \in Ancestors(f, m) : a \in Nat
  <2>1. \A a \in Ancestors(f, m) : a \in Nodes(f)
    BY <1>2, AncestorIs
  <2> QED
    BY <1>1, <1>2, <2>1, NodesAre
<1>4. n \in Ancestors(f, m)
  BY <1>1, <1>2, <1>3 DEF Ancestors
<1>5. let(n) <=> n \in open /\ Rank(Children(f, n), c) <= Shown(f, n, lim)
  BY LetsChild
<1>6. ASSUME NEW a \in Ancestors(f, m), a >= n, ~(a >= c) PROVE a = n
  <2>1. a \in Ancestors(f, c)
    BY <1>1, <1>3, <1>6, AncestorBefore
  <2> QED
    BY <1>6, <2>1, AncestorBetween
<1>7. Below(f, open, lim, n, m) <=> \A a \in Ancestors(f, m) : a >= n => let(a)
  BY DEF Below
<1>8. Below(f, open, lim, c, m) <=> \A a \in Ancestors(f, m) : a >= c => let(a)
  BY DEF Below
<1> HIDE DEF let
<1>9. (\A a \in Ancestors(f, m) : a >= n => let(a))
        <=> let(n) /\ \A a \in Ancestors(f, m) : a >= c => let(a)
  <2>1. n >= n /\ \A a \in Ancestors(f, m) : a >= c => a >= n
    BY <1>1, <1>3
  <2> QED
    BY <1>4, <1>6, <2>1
<1> QED
  BY <1>5, <1>7, <1>8, <1>9

(* Nothing from n on hides n itself.                                       *)
LEMMA BelowSelf ==
  ASSUME NEW f, IsForest(f), NEW open, NEW lim, NEW n \in Nodes(f)
  PROVE  Below(f, open, lim, n, n)
<1> SUFFICES ASSUME NEW a \in Ancestors(f, n), a >= n PROVE FALSE
  BY DEF Below
<1>1. a < n /\ a \in Nodes(f)
  BY AncestorIs
<1>2. a \in Nat /\ n \in Nat
  BY <1>1, NodesAre
<1> QED
  BY <1>1, <1>2

(* In the tree of a root, the containers from the root on decide.          *)
LEMMA VisibleRoot ==
  ASSUME NEW f, IsForest(f), NEW open, NEW lim, NEW r \in Roots(f), NEW m \in Subtree(f, r)
  PROVE  Visible(f, open, lim, m) <=> Below(f, open, lim, r, m)
<1>1. r \in Nodes(f) /\ f[r] = 0
  BY DEF Roots
<1>2. m \in Nodes(f)
  BY <1>1, SubtreeIs
<1>3. ASSUME NEW a \in Ancestors(f, m) PROVE a >= r
  <2>1. a \in Nodes(f)
    BY <1>2, AncestorIs
  <2>2. a \in Nat /\ r \in Nat /\ f[a] \in Nat
    BY <1>1, <2>1, NodesAre
  <2>3. ASSUME a < r PROVE FALSE
    <3>1. a \in Ancestors(f, r)
      BY <1>1, <2>3, AncestorBefore
    <3>2. f[a] < f[r]
      BY <1>1, <3>1, AncestorIs
    <3> QED
      BY <1>1, <2>2, <3>2
  <2> QED
    BY <2>2, <2>3
<1> QED
  BY <1>3, VisibleLets DEF Below

(* Of a visible open container, the children shown are visible.            *)
LEMMA VisibleChild ==
  ASSUME NEW f, IsForest(f), NEW open, NEW lim, NEW n \in Nodes(f), NEW c \in Children(f, n),
         Visible(f, open, lim, n), n \in open
  PROVE  Visible(f, open, lim, c) <=> Rank(Children(f, n), c) <= Shown(f, n, lim)
<1>1. PICK r \in Roots(f) : n \in Subtree(f, r)
  BY RootOf
<1>2. r \in Nodes(f)
  BY DEF Roots
<1>3. c \in Nodes(f) /\ c \in Subtree(f, n) /\ n < c /\ n \in Nat /\ c \in Nat
  BY ChildrenAre, NodesAre
<1>4. c \in Subtree(f, c) /\ c \in Subtree(f, r)
  BY <1>1, <1>2, <1>3, SubtreeIs, SubtreeNested
<1>5. Lets(f, open, lim, n, c) <=> Rank(Children(f, n), c) <= Shown(f, n, lim)
  BY <1>4, LetsChild
<1>6. ASSUME NEW a \in Ancestors(f, c), a # n PROVE Lets(f, open, lim, a, c)
  <2>1. a \in Nodes(f) /\ a \in Nat
    BY <1>3, AncestorIs, NodesAre
  <2>2. a < n
    BY <1>3, <1>6, <2>1, AncestorBetween
  <2>3. a \in Ancestors(f, n)
    BY <1>3, <2>2, AncestorBefore
  <2>4. n \in Subtree(f, a) /\ n # a
    BY <2>3 DEF Ancestors
  <2>5. PICK d \in Children(f, a) : n \in Subtree(f, d)
    BY <2>1, <2>4, SubtreeSplit
  <2>6. d \in Nodes(f)
    BY <2>1, ChildrenAre
  <2>7. c \in Subtree(f, d)
    BY <1>3, <2>5, <2>6, SubtreeNested
  <2>8. Lets(f, open, lim, a, n)
    BY <2>3, VisibleLets
  <2> QED
    BY <2>1, <2>5, <2>7, <2>8, LetsChild
<1>7. n \in Ancestors(f, c)
  BY <1>3 DEF Ancestors
<1>8. Visible(f, open, lim, c) <=> Lets(f, open, lim, n, c)
  BY <1>6, <1>7, VisibleLets
<1> QED
  BY <1>5, <1>8

-----------------------------------------------------------------------------
(* The recursion of Flatten                                                *)

(* Each value of G depends on the arguments after its own place only.      *)
LooksAhead(G, N, X) ==
  /\ G \in [1..N -> [[1..N -> X] -> X]]
  /\ \A n \in 1..N : \A g, h \in [1..N -> X] :
       (\A m \in 1..N : n < m => g[m] = h[m]) => G[n][g] = G[n][h]
Solvable(G, N, X) == \E g \in [1..N -> X] : \A n \in 1..N : g[n] = G[n][g]

(* A recursion over 1..N in which each value depends on those after it has *)
(* a solution.                                                             *)
LEMMA Backwards ==
  ASSUME NEW N \in Nat, NEW X, NEW x \in X, NEW G, LooksAhead(G, N, X)
  PROVE  Solvable(G, N, X)
<1> DEFINE F == [1..N -> X]
           at(k) == (N + 1) - k
           put(g, j) == [n \in 1..N |-> IF n = j THEN G[j][g] ELSE g[n]]
           row(k) == [g \in F |-> put(g, at(k))]
           step == [k \in 1..N |-> row(k)]
           base == [n \in 1..N |-> x]
<1>1. \A k \in 1..N : at(k) \in 1..N
  OBVIOUS
<1>2. ASSUME NEW j \in 1..N, NEW g \in F
      PROVE  put(g, j) \in F /\ put(g, j)[j] = G[j][g] /\ \A n \in 1..N : n # j => put(g, j)[n] = g[n]
  <2>1. G[j][g] \in X
    BY DEF LooksAhead
  <2> QED
    BY <2>1
<1>3. ASSUME NEW n \in 1..N, NEW g \in F, NEW h \in F, \A m \in 1..N : n < m => g[m] = h[m]
      PROVE  G[n][g] = G[n][h]
  BY <1>3 DEF LooksAhead
<1>3a. base \in F
  OBVIOUS
<1> HIDE DEF F, put, base
<1>4. \A k \in 1..N : row(k) \in [F -> F] /\ \A g \in F : row(k)[g] = put(g, at(k))
  BY <1>1, <1>2
<1> HIDE DEF row, at
<1>5. step \in [1..N -> [F -> F]] /\ \A k \in 1..N : step[k] = row(k)
  BY <1>4
<1> HIDE DEF step
<1>6. PICK s \in [0..N -> F] : Follows(s, N, base, step)
  BY <1>3a, <1>5, Recursion
<1>7. \A k \in 1..N : s[k-1] \in F /\ s[k] = put(s[k-1], at(k))
  <2> SUFFICES ASSUME NEW k \in 1..N PROVE s[k-1] \in F /\ s[k] = put(s[k-1], at(k))
    OBVIOUS
  <2>1. k - 1 \in 0..N
    OBVIOUS
  <2>2. s[k-1] \in F /\ s[k] = row(k)[s[k-1]]
    BY <1>5, <1>6, <2>1 DEF Follows
  <2> QED
    BY <1>4, <2>2
<1> DEFINE P(k) == \A n \in 1..N : n >= (N + 1) - k => s[k][n] = G[n][s[k]]
           T == {k \in 0..N : P(k)}
<1>8. P(0)
  OBVIOUS
<1>9. ASSUME NEW k \in 0..N, k < N, P(k) PROVE P(k + 1)
  <2> DEFINE g == s[k]
             h == s[k + 1]
             j == at(k + 1)
  <2>1. j \in 1..N /\ j = N - k
    BY <1>9 DEF at
  <2>2. g \in F /\ h = put(g, j)
    <3>1. k + 1 \in 1..N /\ (k + 1) - 1 = k
      BY <1>9
    <3> QED
      BY <1>7, <3>1
  <2>3. h \in F /\ h[j] = G[j][g] /\ \A n \in 1..N : n # j => h[n] = g[n]
    BY <1>2, <2>1, <2>2
  <2>4. ASSUME NEW n \in 1..N, n >= j PROVE G[n][h] = G[n][g]
    <3>1. \A m \in 1..N : n < m => h[m] = g[m]
      BY <2>1, <2>3, <2>4
    <3> QED
      BY <1>3, <2>2, <2>3, <3>1
  <2>5. ASSUME NEW n \in 1..N, n >= (N + 1) - (k + 1) PROVE h[n] = G[n][h]
    <3>1. n >= j
      BY <2>1, <2>5
    <3>2. CASE n = j
      BY <2>3, <2>4, <3>1, <3>2
    <3>3. CASE n # j
      <4>1. n >= (N + 1) - k
        BY <2>1, <3>1, <3>3
      <4>2. g[n] = G[n][g]
        BY <1>9, <4>1
      <4> QED
        BY <2>3, <2>4, <3>1, <3>3, <4>2
    <3> QED
      BY <3>2, <3>3
  <2> QED
    BY <2>5
<1> HIDE DEF P
<1>10. 0 \in T
  BY <1>8
<1>11. \A k \in 0..N : k < N /\ k \in T => k + 1 \in T
  BY <1>9
<1> HIDE DEF T
<1>12. \A k \in 0..N : k \in T
  BY <1>10, <1>11, UpTo
<1>13. P(N) /\ s[N] \in F
  BY <1>6, <1>12 DEF T
<1>14. \A n \in 1..N : s[N][n] = G[n][s[N]]
  BY <1>13 DEF P
<1> QED
  BY <1>13, <1>14 DEF F, Solvable

(* Limits are numbers.                                                     *)
AreLimits(lim) == \A n \in DOMAIN lim : lim[n] \in Nat

(* How many children are shown; when not all are, the window decides.      *)
LEMMA ShownIs ==
  ASSUME NEW f, IsForest(f), NEW n \in Nodes(f), NEW lim, AreLimits(lim)
  PROVE  /\ Cardinality(Children(f, n)) \in Nat
         /\ Shown(f, n, lim) \in 0..Cardinality(Children(f, n))
         /\ Shown(f, n, lim) < Cardinality(Children(f, n)) =>
              /\ Window < Cardinality(Children(f, n))
              /\ n \in DOMAIN lim => lim[n] < Cardinality(Children(f, n))
<1> DEFINE total == Cardinality(Children(f, n))
           w == IF n \in DOMAIN lim THEN lim[n] ELSE Window
<1>1. total \in Nat
  BY ChildrenAre, FS_CardinalityType
<1>2. w \in Nat
  BY TreeAssumption DEF AreLimits
<1>3. Shown(f, n, lim) = IF total > Window THEN Min({w, total}) ELSE total
  BY DEF Shown
<1>3a. n \in DOMAIN lim => w = lim[n]
  OBVIOUS
<1>3b. Window \in Nat
  BY TreeAssumption
<1> HIDE DEF w, total
<1>4. CASE total > Window
  <2>1. CASE w <= total
    <3>1. Min({w, total}) = w
      BY <1>1, <1>2, <2>1, LeastOf
    <3> QED
      BY <1>1, <1>2, <1>3, <1>3a, <1>3b, <1>4, <2>1, <3>1 DEF total
  <2>2. CASE total < w
    <3>1. Min({w, total}) = total
      BY <1>1, <1>2, <2>2, LeastOf
    <3> QED
      BY <1>1, <1>3, <1>4, <3>1 DEF total
  <2> QED
    BY <1>1, <1>2, <2>1, <2>2
<1>5. CASE ~(total > Window)
  BY <1>1, <1>3, <1>5 DEF total
<1> QED
  BY <1>4, <1>5

(* The rows there can be.                                                  *)
Kinds == Heads \cup {"close", "show-more"}
AllRows(b) ==
  [kind : Kinds, node : Nodes(b.forest), comma : BOOLEAN, count : Nat, depth : Nat,
   cut : BOOLEAN, doc : Nat]

(* The rows g gives to the first k nodes of cs.                            *)
Blocks(g, cs, k) == [i \in 1..k |-> g[cs[i]]]

(* The rows of node n, given by g the rows of the nodes after it.          *)
NodeRows(b, open, lim, cut, g, n) ==
  LET f == b.forest
      children == InOrder(Children(f, n))
      shown == Shown(f, n, lim)
      comma == ~IsLast(f, n, lim)
  IN CASE children = <<>> -> <<Row(b, "leaf", n, comma, 0, cut)>>
       [] children # <<>> /\ n \notin open ->
            <<Row(b, "collapsed", n, comma, Len(children), cut)>>
       [] OTHER ->
            <<Row(b, "open", n, FALSE, Len(children), cut)>>
            \o FlattenSeq(Blocks(g, children, shown))
            \o (IF shown < Len(children)
                THEN <<Row(b, "show-more", n, FALSE, Len(children) - shown, cut)>>
                ELSE <<>>)
            \o <<Row(b, "close", n, comma, 0, cut)>>

(* The recursion behind Flatten.                                           *)
RowsBy(b, open, lim, cut) ==
  CHOOSE g : g = [n \in Nodes(b.forest) |-> NodeRows(b, open, lim, cut, g, n)]

(* Flatten puts the rows of the roots one after another.                   *)
LEMMA FlattenRoots ==
  ASSUME NEW b, NEW open, NEW lim, NEW cut
  PROVE  Flatten(b, open, lim, cut)
           = FlattenSeq([i \in DOMAIN InOrder(Roots(b.forest)) |->
                           RowsBy(b, open, lim, cut)[InOrder(Roots(b.forest))[i]]])
  BY Zenon DEF Flatten, RowsBy, NodeRows, Blocks

(* A row is one of those there can be.                                     *)
LEMMA RowIn ==
  ASSUME NEW b, IsForest(b.forest), NEW cut, NEW kind \in Kinds, NEW n \in Nodes(b.forest), NEW comma \in BOOLEAN,
         NEW count \in Nat
  PROVE  /\ Row(b, kind, n, comma, count, cut) \in AllRows(b)
         /\ Row(b, kind, n, comma, count, cut).kind = kind
         /\ Row(b, kind, n, comma, count, cut).node = n
         /\ Row(b, kind, n, comma, count, cut).comma = comma
         /\ Row(b, kind, n, comma, count, cut).count = count
         /\ Row(b, kind, n, comma, count, cut).depth
              = IF kind = "show-more" THEN b.forest[n] + 1 ELSE b.forest[n]
<1>1. Row(b, kind, n, comma, count, cut) \in AllRows(b)
  <2>1. b.forest[n] \in Nat /\ b.forest[n] + 1 \in Nat
    BY NodesAre
  <2> QED
    BY <2>1 DEF AllRows, Row
<1> QED
  BY <1>1 DEF Row

(* A sequence of one.                                                      *)
LEMMA Single ==
  ASSUME NEW A, NEW x \in A
  PROVE  <<x>> \in Seq(A) /\ Len(<<x>>) = 1 /\ <<x>>[1] = x
  OBVIOUS

(* The parts of the rows of a node: the one row of a node that is not open;*)
(* the first row of an open one, the rows of the children shown, child by  *)
(* child, the row for the hidden ones, and the last row.                   *)
Count(f, n) == Cardinality(Children(f, n))
Folded(b, n, lim, cut) ==
  IF Children(b.forest, n) = {}
  THEN <<Row(b, "leaf", n, ~IsLast(b.forest, n, lim), 0, cut)>>
  ELSE <<Row(b, "collapsed", n, ~IsLast(b.forest, n, lim), Count(b.forest, n), cut)>>
First(b, n, cut) == <<Row(b, "open", n, FALSE, Count(b.forest, n), cut)>>
Inside(f, n, lim, g) == Blocks(g, InOrder(Children(f, n)), Shown(f, n, lim))
Hidden(b, n, lim, cut) ==
  IF Shown(b.forest, n, lim) < Count(b.forest, n)
  THEN <<Row(b, "show-more", n, FALSE, Count(b.forest, n) - Shown(b.forest, n, lim), cut)>>
  ELSE <<>>
Closing(b, n, lim, cut) == <<Row(b, "close", n, ~IsLast(b.forest, n, lim), 0, cut)>>
Unfolded(b, n, lim, cut, inner) ==
  First(b, n, cut) \o inner \o Hidden(b, n, lim, cut) \o Closing(b, n, lim, cut)

(* n is an open container.                                                 *)
Opens(f, open, n) == Children(f, n) # {} /\ n \in open

(* g and h give the nodes after n the same rows.                           *)
AgreeAfter(f, n, g, h) == \A m \in Nodes(f) : n < m => g[m] = h[m]

(* The forms of the rows of a node.                                        *)
LEMMA NodeRowsIs ==
  ASSUME NEW b, IsForest(b.forest), NEW open, NEW lim, NEW cut, NEW g,
         NEW n \in Nodes(b.forest)
  PROVE  /\ Opens(b.forest, open, n) =>
              NodeRows(b, open, lim, cut, g, n)
                = Unfolded(b, n, lim, cut, FlattenSeq(Inside(b.forest, n, lim, g)))
         /\ ~Opens(b.forest, open, n) =>
              NodeRows(b, open, lim, cut, g, n) = Folded(b, n, lim, cut)
<1> DEFINE S == Children(b.forest, n)
           cs == InOrder(S)
<1>1. S \in SUBSET Nat /\ IsFiniteSet(S)
  BY ChildrenAre
<1> HIDE DEF S
<1>2. cs \in Seq(S) /\ Len(cs) = Cardinality(S) /\ Cardinality(S) \in Nat
  BY <1>1, InOrderIs
<1>3. Cardinality(S) = 0 <=> S = {}
  BY <1>1, FS_EmptySet
<1> HIDE DEF cs
<1>4. cs = <<>> <=> S = {}
  BY <1>2, <1>3
<1>5. CASE S = {}
  <2>1. cs = <<>>
    BY <1>4, <1>5
  <2> QED
    BY <1>5, <2>1, Zenon DEF NodeRows, Folded, Opens, cs, S
<1>6. CASE S # {} /\ n \notin open
  <2>1. cs # <<>> /\ Len(cs) = Cardinality(S)
    BY <1>2, <1>4, <1>6
  <2> QED
    BY <1>6, <2>1, Zenon DEF NodeRows, Folded, Opens, Count, cs, S
<1>7. CASE S # {} /\ n \in open
  <2>1. cs # <<>> /\ Len(cs) = Cardinality(S)
    BY <1>2, <1>4, <1>7
  <2> QED
    BY <1>7, <2>1, Zenon
    DEF NodeRows, Unfolded, Opens, First, Inside, Hidden, Closing, Count, cs, S
<1> QED
  BY <1>5, <1>6, <1>7

(* The rows of the children shown: a sequence of sequences of rows, which  *)
(* depends on what comes after the node only.                              *)
LEMMA InsideIs ==
  ASSUME NEW f, IsForest(f), NEW n \in Nodes(f), NEW X, NEW g \in [Nodes(f) -> X],
         NEW lim, AreLimits(lim)
  PROVE  /\ Inside(f, n, lim, g) \in Seq(X)
         /\ Len(Inside(f, n, lim, g)) = Shown(f, n, lim)
         /\ \A i \in 1..Shown(f, n, lim) :
              /\ InOrder(Children(f, n))[i] \in Children(f, n)
              /\ Inside(f, n, lim, g)[i] = g[InOrder(Children(f, n))[i]]
         /\ \A h : AgreeAfter(f, n, g, h) => Inside(f, n, lim, h) = Inside(f, n, lim, g)
<1> DEFINE cs == InOrder(Children(f, n))
           k == Shown(f, n, lim)
           C == Cardinality(Children(f, n))
           B(e) == Blocks(e, cs, k)
<1>1. C \in Nat /\ k \in 0..C
  BY ShownIs
<1>2. \A i \in 1..C : cs[i] \in Children(f, n)
  BY ChildrenAre, InOrderIs
<1>3. \A c \in Children(f, n) : c \in Nodes(f) /\ n < c
  BY ChildrenAre
<1>3a. \A e : Inside(f, n, lim, e) = B(e)
  BY DEF Inside
<1> HIDE DEF cs, k, C
<1>4. k \in Nat /\ \A i \in 1..k : cs[i] \in Children(f, n) /\ cs[i] \in Nodes(f) /\ n < cs[i]
  BY <1>1, <1>2, <1>3
<1>5. B(g) \in [1..k -> X] /\ \A i \in 1..k : B(g)[i] = g[cs[i]]
  BY <1>4 DEF Blocks
<1>6. ASSUME NEW h, AgreeAfter(f, n, g, h)
      PROVE  B(h) = B(g)
  BY <1>4, <1>6 DEF Blocks, AgreeAfter
<1> HIDE DEF B
<1>7. B(g) \in Seq(X) /\ Len(B(g)) = k
  BY <1>4, <1>5
<1> QED
  BY <1>3a, <1>4, <1>5, <1>6, <1>7 DEF cs, k

(* The parts are sequences of rows.                                        *)
LEMMA PartsAre ==
  ASSUME NEW b, IsForest(b.forest), NEW lim, AreLimits(lim), NEW cut, NEW n \in Nodes(b.forest)
  PROVE  /\ Folded(b, n, lim, cut) \in Seq(AllRows(b))
         /\ First(b, n, cut) \in Seq(AllRows(b))
         /\ Hidden(b, n, lim, cut) \in Seq(AllRows(b))
         /\ Closing(b, n, lim, cut) \in Seq(AllRows(b))
<1> DEFINE A == AllRows(b)
           C == Count(b.forest, n)
           k == Shown(b.forest, n, lim)
           comma == ~IsLast(b.forest, n, lim)
<1>1. C \in Nat /\ k \in 0..C /\ comma \in BOOLEAN
  BY ShownIs DEF Count
<1>2. "leaf" \in Kinds /\ "collapsed" \in Kinds /\ "open" \in Kinds /\ "close" \in Kinds
      /\ "show-more" \in Kinds
  BY DEF Kinds, Heads
<1>3. /\ Folded(b, n, lim, cut) = IF Children(b.forest, n) = {}
                                  THEN <<Row(b, "leaf", n, comma, 0, cut)>>
                                  ELSE <<Row(b, "collapsed", n, comma, C, cut)>>
      /\ First(b, n, cut) = <<Row(b, "open", n, FALSE, C, cut)>>
      /\ Hidden(b, n, lim, cut) = IF k < C THEN <<Row(b, "show-more", n, FALSE, C - k, cut)>>
                                  ELSE <<>>
      /\ Closing(b, n, lim, cut) = <<Row(b, "close", n, comma, 0, cut)>>
  BY Zenon DEF Folded, First, Hidden, Closing
<1> HIDE DEF A, C, k, comma
<1>4. <<Row(b, "open", n, FALSE, C, cut)>> \in Seq(A)
  BY <1>1, <1>2, RowIn, Single DEF A
<1>5. k < C => <<Row(b, "show-more", n, FALSE, C - k, cut)>> \in Seq(A)
  <2>1. k < C => C - k \in Nat
    BY <1>1
  <2> QED
    BY <1>2, <2>1, RowIn, Single DEF A
<1>6. <<Row(b, "close", n, comma, 0, cut)>> \in Seq(A)
  BY <1>1, <1>2, RowIn, Single DEF A
<1>7. <<Row(b, "leaf", n, comma, 0, cut)>> \in Seq(A)
  BY <1>1, <1>2, RowIn, Single DEF A
<1>8. <<Row(b, "collapsed", n, comma, C, cut)>> \in Seq(A)
  BY <1>1, <1>2, RowIn, Single DEF A
<1>9. <<>> \in Seq(A)
  OBVIOUS
<1>10. Folded(b, n, lim, cut) \in Seq(A)
  BY <1>3, <1>7, <1>8, Zenon
<1>11. Hidden(b, n, lim, cut) \in Seq(A)
  BY <1>3, <1>5, <1>9, Zenon
<1> QED
  BY <1>3, <1>4, <1>6, <1>10, <1>11 DEF A

(* Rows of a node are rows, and depend on the nodes after it only.         *)
LEMMA NodeRowsClosed ==
  ASSUME NEW b, IsForest(b.forest), NEW open, NEW lim, AreLimits(lim), NEW cut,
         NEW g \in [Nodes(b.forest) -> Seq(AllRows(b))], NEW n \in Nodes(b.forest)
  PROVE  /\ NodeRows(b, open, lim, cut, g, n) \in Seq(AllRows(b))
         /\ \A h : AgreeAfter(b.forest, n, g, h) =>
              NodeRows(b, open, lim, cut, g, n) = NodeRows(b, open, lim, cut, h, n)
<1> DEFINE f == b.forest
           A == AllRows(b)
           B(e) == Inside(f, n, lim, e)
           R(e) == NodeRows(b, open, lim, cut, e, n)
           one == First(b, n, cut)
           more == Hidden(b, n, lim, cut)
           end == Closing(b, n, lim, cut)
           big == Opens(f, open, n)
           glue(x) == Unfolded(b, n, lim, cut, x)
<1>1. /\ B(g) \in Seq(Seq(A))
      /\ \A h : AgreeAfter(f, n, g, h) => B(h) = B(g)
  BY InsideIs
<1>2. ASSUME NEW e
      PROVE  /\ big => R(e) = glue(FlattenSeq(B(e)))
             /\ ~big => R(e) = Folded(b, n, lim, cut)
  BY NodeRowsIs
<1>3. \A x : glue(x) = one \o x \o more \o end
  BY DEF Unfolded
<1>4. one \in Seq(A) /\ more \in Seq(A) /\ end \in Seq(A) /\ Folded(b, n, lim, cut) \in Seq(A)
  BY PartsAre
<1>5. FlattenSeq(B(g)) \in Seq(A)
  BY <1>1, FlattenIs
<1> HIDE DEF A, B, R, one, more, end, big, glue
<1>6. R(g) \in Seq(A)
  <2>1. one \o FlattenSeq(B(g)) \in Seq(A)
    BY <1>4, <1>5, ConcatIs
  <2>2. one \o FlattenSeq(B(g)) \o more \in Seq(A)
    BY <1>4, <2>1, ConcatIs
  <2>3. one \o FlattenSeq(B(g)) \o more \o end \in Seq(A)
    BY <1>4, <2>2, ConcatIs
  <2>4. glue(FlattenSeq(B(g))) \in Seq(A)
    BY <1>3, <2>3, Zenon
  <2> QED
    BY <1>2, <1>4, <2>4
<1>7. ASSUME NEW h, AgreeAfter(f, n, g, h) PROVE R(g) = R(h)
  <2>1. B(h) = B(g)
    BY <1>1, <1>7
  <2> QED
    BY <1>2, <2>1
<1> QED
  BY <1>6, <1>7 DEF R, A

(* The recursion of Flatten has a solution, which RowsBy is.               *)
LEMMA RowsEquation ==
  ASSUME NEW b, IsForest(b.forest), NEW open, NEW lim, AreLimits(lim), NEW cut
  PROVE  /\ RowsBy(b, open, lim, cut) \in [Nodes(b.forest) -> Seq(AllRows(b))]
         /\ \A n \in Nodes(b.forest) :
              RowsBy(b, open, lim, cut)[n]
                = NodeRows(b, open, lim, cut, RowsBy(b, open, lim, cut), n)
<1> DEFINE N == Len(b.forest)
           D == Nodes(b.forest)
           X == Seq(AllRows(b))
           H == [D -> X]
           R(g, n) == NodeRows(b, open, lim, cut, g, n)
           row(n) == [g \in H |-> R(g, n)]
           G == [n \in D |-> row(n)]
           none == <<>>
           F(g) == [n \in D |-> R(g, n)]
<1>1. N \in Nat /\ D = 1..N
  BY NodesAre
<1>2. ASSUME NEW n \in D, NEW g \in H
      PROVE  /\ R(g, n) \in X
             /\ \A h : AgreeAfter(b.forest, n, g, h) => R(g, n) = R(h, n)
  BY NodeRowsClosed
<1>2a. \A n, g, h : AgreeAfter(b.forest, n, g, h) <=> \A m \in D : n < m => g[m] = h[m]
  BY DEF AgreeAfter
<1>3. RowsBy(b, open, lim, cut) = CHOOSE g : g = F(g)
  BY DEF RowsBy
<1>4. none \in X
  OBVIOUS
<1>4a. H = [D -> X] /\ H = [1..N -> X]
  BY <1>1
<1> HIDE DEF N, D, X, R, none, H
<1>5. \A n \in D : row(n) \in [H -> X] /\ \A g \in H : row(n)[g] = R(g, n)
  BY <1>2
<1> HIDE DEF row
<1>6. G \in [D -> [H -> X]] /\ \A n \in D : \A g \in H : G[n][g] = R(g, n)
  BY <1>5
<1> HIDE DEF G
<1>7. \A n \in D : \A g, h \in H :
        (\A m \in D : n < m => g[m] = h[m]) => G[n][g] = G[n][h]
  BY <1>2, <1>2a, <1>6
<1>8. \E g \in [1..N -> X] : \A n \in 1..N : g[n] = G[n][g]
  <2>1. G \in [1..N -> [[1..N -> X] -> X]]
    BY <1>1, <1>4a, <1>6
  <2>2. LooksAhead(G, N, X)
    <3>1. ASSUME NEW n \in 1..N, NEW e \in [1..N -> X], NEW h \in [1..N -> X],
                 \A m \in 1..N : n < m => e[m] = h[m]
          PROVE  G[n][e] = G[n][h]
      <4>1. n \in D /\ e \in H /\ h \in H /\ \A m \in D : n < m => e[m] = h[m]
        BY <1>1, <1>4a, <3>1
      <4> QED
        BY <1>7, <4>1
    <3> QED
      BY <2>1, <3>1 DEF LooksAhead
  <2>3. Solvable(G, N, X)
    BY <1>1, <1>4, <2>2, Backwards
  <2> QED
    BY <2>3 DEF Solvable
<1>9. PICK g \in H : \A n \in D : g[n] = G[n][g]
  BY <1>1, <1>4a, <1>8
<1>10. g = F(g)
  BY <1>4a, <1>6, <1>9
<1> DEFINE K == RowsBy(b, open, lim, cut)
<1>11. K = F(K)
  BY <1>3, <1>10
<1> HIDE DEF K
<1>12. \A n \in D : K[n] = R(K, n)
  BY <1>11
<1>13. K \in H
  <2> DEFINE T == {n \in D : K[n] # g[n]}
  <2>1. ASSUME T # {} PROVE FALSE
    <3>1. T \in SUBSET (0..N)
      BY <1>1
    <3>2. PICK n \in T : \A j \in T : j <= n
      BY <1>1, <2>1, <3>1, GreatestNumber
    <3>3. \A m \in D : n < m => g[m] = K[m]
      BY <1>1, <3>2
    <3>4. R(g, n) = R(K, n)
      BY <1>2, <1>2a, <3>3
    <3> QED
      BY <1>6, <1>9, <1>12, <3>2, <3>4
  <2>2. K = g
    BY <1>4a, <1>10, <1>11, <1>12, <2>1
  <2> QED
    BY <2>2
<1> QED
  BY <1>12, <1>13, <1>4a DEF K, D, R, X

-----------------------------------------------------------------------------
(* What the rows of a node are                                             *)

(* Row i of R, by its kind: the brackets of an open container enclose what *)
(* is below it; the row for hidden children stands before the last bracket *)
(* of an open container that does hide some; a comma is where it belongs.  *)
Bracketed(f, R, i) ==
  \E j \in 1..Len(R) :
    /\ j > i /\ R[j].kind = "close" /\ R[j].node = R[i].node
    /\ \A k \in (i + 1)..(j - 1) :
         R[k].depth > R[i].depth /\ R[k].node \in Subtree(f, R[i].node)

Hides(f, open, lim, R, i) ==
  /\ i + 1 \in 1..Len(R) /\ R[i + 1].kind = "close" /\ R[i + 1].node = R[i].node
  /\ R[i].node \in open /\ Shown(f, R[i].node, lim) < Count(f, R[i].node)
  /\ R[i].count = Count(f, R[i].node) - Shown(f, R[i].node, lim)

Separated(f, R, i) == R[i].comma = (\E s \in Siblings(f, R[i].node) : s > R[i].node)

Fine(f, open, lim, R, i) ==
  /\ R[i].kind = "open" => Bracketed(f, R, i)
  /\ R[i].kind = "show-more" => Hides(f, open, lim, R, i)
  /\ R[i].kind \notin {"open", "show-more"} => Separated(f, R, i)

(* A row is about a node below d that is to be seen.                       *)
Within(f, open, lim, d, r) ==
  r.node \in Subtree(f, d) /\ Below(f, open, lim, d, r.node) /\ f[d] <= r.depth

(* R shows the subtrees of the nodes D and nothing else.                   *)
Stretch(f, open, lim, R, D) ==
  /\ \A i \in 1..Len(R) : \E d \in D : Within(f, open, lim, d, R[i])
  /\ \A i \in 1..Len(R) : Fine(f, open, lim, R, i)
  /\ \A i, j \in 1..Len(R) :
       i < j /\ R[i].kind \in Heads /\ R[j].kind \in Heads => R[i].node < R[j].node
  /\ \A d \in D : \A m \in Subtree(f, d) : Below(f, open, lim, d, m) =>
       \E i \in 1..Len(R) : R[i].kind \in Heads /\ R[i].node = m

(* Between two places of one block lie only places of that block.          *)
OneBlock(t, blk, off, p, j) ==
  /\ p < j
  /\ \A k \in (p + 1)..(j - 1) :
       k \in 1..Len(t) /\ blk[k] = blk[p] /\ off[p] < off[k] /\ off[k] < off[j]

(* That is how flattened blocks lie.                                       *)
LEMMA LaidBetween ==
  ASSUME NEW t, NEW ss, NEW n \in Nat, NEW blk, NEW off, Len(t) \in Nat,
         LaidOut(blk, off, t, ss, n),
         NEW p \in 1..Len(t), NEW j \in 1..Len(t), blk[p] = blk[j], off[p] < off[j]
  PROVE  OneBlock(t, blk, off, p, j)
<1> DEFINE L == Len(t)
<1>1. /\ \A q \in 1..L : blk[q] \in Nat /\ off[q] \in Nat
      /\ \A q, r \in 1..L : q < r => blk[q] < blk[r] \/ (blk[q] = blk[r] /\ off[q] < off[r])
  <2>1. blk \in [1..L -> 1..n] /\ off \in [1..L -> Nat]
    BY DEF LaidOut
  <2>2. \A x \in 1..n : x \in Nat
    OBVIOUS
  <2>3. \A q \in 1..L : blk[q] \in Nat /\ off[q] \in Nat
    BY <2>1, <2>2
  <2> QED
    BY <2>3 DEF LaidOut
<1> HIDE DEF L
<1>2. L \in Nat /\ p \in 1..L /\ j \in 1..L
  BY DEF L
<1>3. p < j
  <2>1. ~(j < p) /\ j # p
    BY <1>1, <1>2
  <2> QED
    BY <1>2, <2>1
<1>4. ASSUME NEW k \in (p + 1)..(j - 1)
      PROVE  k \in 1..L /\ blk[k] = blk[p] /\ off[p] < off[k] /\ off[k] < off[j]
  <2>1. k \in 1..L /\ p < k /\ k < j
    BY <1>2
  <2>2. /\ blk[p] < blk[k] \/ (blk[p] = blk[k] /\ off[p] < off[k])
        /\ blk[k] < blk[j] \/ (blk[k] = blk[j] /\ off[k] < off[j])
    BY <1>1, <1>2, <2>1
  <2>3. blk[p] \in Nat /\ blk[k] \in Nat
    BY <1>1, <1>2, <2>1
  <2> QED
    BY <2>1, <2>2, <2>3
<1> QED
  BY <1>3, <1>4 DEF L, OneBlock

(* A row that is fine in its block is fine where the block is put.         *)
LEMMA FineMoves ==
  ASSUME NEW f, NEW open, NEW lim, NEW t, NEW ss, NEW n \in Nat, NEW blk, NEW off, Len(t) \in Nat,
         LaidOut(blk, off, t, ss, n), NEW p \in 1..Len(t),
         Fine(f, open, lim, ss[blk[p]], off[p])
  PROVE  Fine(f, open, lim, t, p)
<1> DEFINE L == Len(t)
           s == ss[blk[p]]
           a == off[p]
<1>1. /\ blk[p] \in 1..n /\ a \in Nat /\ a \in 1..Len(s) /\ t[p] = s[a]
      /\ \A q \in 1..L : blk[q] = blk[p] => t[q] = s[off[q]]
      /\ \A c \in 1..Len(s) : \E q \in 1..L : blk[q] = blk[p] /\ off[q] = c
  BY DEF LaidOut
<1>2. ASSUME NEW c \in 1..Len(s), a < c
      PROVE  \E j \in 1..L :
               /\ j > p /\ t[j] = s[c]
               /\ \A k \in (p + 1)..(j - 1) :
                    k \in 1..L /\ blk[k] = blk[p] /\ a < off[k] /\ off[k] < c
                    /\ t[k] = s[off[k]]
  <2>1. PICK j \in 1..L : blk[j] = blk[p] /\ off[j] = c
    BY <1>1
  <2>2. p < j /\ \A k \in (p + 1)..(j - 1) :
          k \in 1..L /\ blk[k] = blk[p] /\ a < off[k] /\ off[k] < c
    <3>1. off[p] < off[j] /\ blk[p] = blk[j]
      BY <1>2, <2>1
    <3>2. OneBlock(t, blk, off, p, j)
      BY <3>1, LaidBetween
    <3> QED
      BY <2>1, <3>2 DEF OneBlock
  <2>3. t[j] = s[c] /\ \A k \in (p + 1)..(j - 1) : t[k] = s[off[k]]
    BY <1>1, <2>1, <2>2
  <2> QED
    BY <2>2, <2>3
<1>2a. L \in Nat /\ p \in 1..L
  OBVIOUS
<1>2b. \A q \in 1..L : off[q] \in Nat
  BY DEF LaidOut
<1> HIDE DEF L, s, a
<1>3. ASSUME Bracketed(f, s, a) PROVE Bracketed(f, t, p)
  <2>1. PICK c \in 1..Len(s) :
          /\ c > a /\ s[c].kind = "close" /\ s[c].node = s[a].node
          /\ \A k \in (a + 1)..(c - 1) :
               s[k].depth > s[a].depth /\ s[k].node \in Subtree(f, s[a].node)
    BY <1>3 DEF Bracketed
  <2>1a. a < c /\ c \in Nat
    BY <1>1, <2>1
  <2>2. PICK j \in 1..L :
          /\ j > p /\ t[j] = s[c]
          /\ \A k \in (p + 1)..(j - 1) :
               k \in 1..L /\ blk[k] = blk[p] /\ a < off[k] /\ off[k] < c /\ t[k] = s[off[k]]
    BY <1>2, <2>1, <2>1a
  <2>3. ASSUME NEW k \in (p + 1)..(j - 1)
        PROVE  t[k].depth > t[p].depth /\ t[k].node \in Subtree(f, t[p].node)
    <3>1. off[k] \in (a + 1)..(c - 1) /\ t[k] = s[off[k]]
      BY <1>1, <1>2b, <2>1a, <2>2
    <3> QED
      BY <1>1, <2>1, <3>1
  <2> QED
    BY <1>1, <2>1, <2>2, <2>3 DEF Bracketed, L
<1>4. ASSUME Hides(f, open, lim, s, a) PROVE Hides(f, open, lim, t, p)
  <2>1. a + 1 \in 1..Len(s) /\ a < a + 1
    BY <1>1, <1>4 DEF Hides
  <2>2. PICK j \in 1..L :
          /\ j > p /\ t[j] = s[a + 1]
          /\ \A k \in (p + 1)..(j - 1) :
               k \in 1..L /\ blk[k] = blk[p] /\ a < off[k] /\ off[k] < a + 1 /\ t[k] = s[off[k]]
    BY <1>2, <2>1
  <2>3. j = p + 1
    <3>1. ASSUME j # p + 1 PROVE FALSE
      <4>1. p + 1 \in (p + 1)..(j - 1)
        BY <1>2a, <2>2, <3>1
      <4>2. a < off[p + 1] /\ off[p + 1] < a + 1 /\ off[p + 1] \in Nat
        BY <1>2b, <2>2, <4>1
      <4> QED
        BY <1>1, <4>2
    <3> QED
      BY <3>1
  <2>4. p + 1 \in 1..L /\ t[p + 1] = s[a + 1] /\ t[p] = s[a]
    BY <1>1, <2>2, <2>3
  <2> QED
    BY <1>4, <2>4 DEF Hides, L
<1>5. Separated(f, s, a) => Separated(f, t, p)
  BY <1>1 DEF Separated
<1>6. t[p].kind = s[a].kind
  BY <1>1
<1>7. Fine(f, open, lim, s, a)
  BY DEF s, a
<1> QED
  BY <1>3, <1>4, <1>5, <1>6, <1>7 DEF Fine

(* The first k elements of cs.                                             *)
FirstOf(cs, k) == {cs[i] : i \in 1..k}

(* Each block of ss shows the subtree of its node of cs; the nodes have one*)
(* depth and come in order.                                                *)
BlocksShow(f, open, lim, ss, cs) ==
  /\ \A i \in 1..Len(ss) : cs[i] \in Nodes(f) /\ Stretch(f, open, lim, ss[i], {cs[i]})
  /\ \A i, j \in 1..Len(ss) : i < j => cs[i] < cs[j] /\ f[cs[i]] = f[cs[j]]

(* The blocks one after another show all these subtrees.                   *)
LEMMA FlattenStretch ==
  ASSUME NEW f, IsForest(f), NEW open, NEW lim, NEW S, NEW ss \in Seq(Seq(S)), NEW cs,
         BlocksShow(f, open, lim, ss, cs)
  PROVE  Stretch(f, open, lim, FlattenSeq(ss), FirstOf(cs, Len(ss)))
<1> DEFINE n == Len(ss)
           t == FlattenSeq(ss)
           L == Len(t)
           D == {cs[i] : i \in 1..n}
<1>1. t \in Seq(S) /\ \E blk, off : LaidOut(blk, off, t, ss, n)
  BY FlattenIs
<1>2. PICK blk, off : LaidOut(blk, off, t, ss, n)
  BY <1>1
<1>3. n \in Nat /\ L \in Nat
  BY <1>1
<1> HIDE DEF t
<1>4. \A p \in 1..L : blk[p] \in 1..n /\ off[p] \in 1..Len(ss[blk[p]]) /\ t[p] = ss[blk[p]][off[p]]
  BY <1>2 DEF LaidOut
<1>5. /\ \A p, q \in 1..L : p < q => blk[p] < blk[q] \/ (blk[p] = blk[q] /\ off[p] < off[q])
      /\ \A i \in 1..n : \A a \in 1..Len(ss[i]) : \E p \in 1..L : blk[p] = i /\ off[p] = a
  BY <1>2 DEF LaidOut
<1>6. /\ \A i \in 1..n : cs[i] \in Nodes(f) /\ Stretch(f, open, lim, ss[i], {cs[i]})
      /\ \A i, j \in 1..n : i < j => cs[i] < cs[j] /\ f[cs[i]] = f[cs[j]]
  BY DEF BlocksShow
<1>7. ASSUME NEW i \in 1..n
      PROVE  /\ \A a \in 1..Len(ss[i]) :
                  Within(f, open, lim, cs[i], ss[i][a]) /\ Fine(f, open, lim, ss[i], a)
             /\ \A a, c \in 1..Len(ss[i]) :
                  a < c /\ ss[i][a].kind \in Heads /\ ss[i][c].kind \in Heads =>
                    ss[i][a].node < ss[i][c].node
             /\ \A m \in Subtree(f, cs[i]) : Below(f, open, lim, cs[i], m) =>
                  \E a \in 1..Len(ss[i]) : ss[i][a].kind \in Heads /\ ss[i][a].node = m
  <2>1. Stretch(f, open, lim, ss[i], {cs[i]})
    BY <1>6
  <2>2. \A a \in 1..Len(ss[i]) : \E d \in {cs[i]} : Within(f, open, lim, d, ss[i][a])
    BY <2>1 DEF Stretch
  <2> QED
    BY <2>1, <2>2 DEF Stretch
<1> HIDE DEF n, L
<1>8. ASSUME NEW p \in 1..L
      PROVE  \E d \in D : Within(f, open, lim, d, t[p])
  <2>1. cs[blk[p]] \in D
    BY <1>4
  <2> QED
    BY <1>4, <1>7, <2>1
<1>9. ASSUME NEW p \in 1..L PROVE Fine(f, open, lim, t, p)
  <2>1. Fine(f, open, lim, ss[blk[p]], off[p])
    BY <1>4, <1>7
  <2> QED
    BY <1>2, <1>3, <2>1, FineMoves DEF L
<1>10. ASSUME NEW p \in 1..L, NEW q \in 1..L, p < q, t[p].kind \in Heads, t[q].kind \in Heads
       PROVE  t[p].node < t[q].node
  <2>1. CASE blk[p] = blk[q] /\ off[p] < off[q]
    <3> DEFINE i == blk[p]
               a == off[p]
               c == off[q]
    <3>1. i \in 1..n /\ a \in 1..Len(ss[i]) /\ c \in 1..Len(ss[i]) /\ a < c
          /\ t[p] = ss[i][a] /\ t[q] = ss[i][c]
      BY <1>4, <2>1
    <3> HIDE DEF i, a, c
    <3> QED
      BY <1>7, <1>10, <3>1
  <2>2. CASE blk[p] < blk[q]
    <3>1. cs[blk[p]] < cs[blk[q]] /\ f[cs[blk[p]]] = f[cs[blk[q]]]
          /\ cs[blk[p]] \in Nodes(f) /\ cs[blk[q]] \in Nodes(f)
      BY <1>4, <1>6, <2>2
    <3>2. t[p].node \in Subtree(f, cs[blk[p]]) /\ t[q].node \in Subtree(f, cs[blk[q]])
      BY <1>4, <1>7 DEF Within
    <3> QED
      BY <3>1, <3>2, SubtreesFollow
  <2> QED
    BY <1>5, <1>10, <2>1, <2>2
<1>11. ASSUME NEW d \in D, NEW m \in Subtree(f, d), Below(f, open, lim, d, m)
       PROVE  \E p \in 1..L : t[p].kind \in Heads /\ t[p].node = m
  <2>1. PICK i \in 1..n : d = cs[i]
    OBVIOUS
  <2>2. PICK a \in 1..Len(ss[i]) : ss[i][a].kind \in Heads /\ ss[i][a].node = m
    BY <1>7, <1>11, <2>1
  <2>3. PICK p \in 1..L : blk[p] = i /\ off[p] = a
    BY <1>5
  <2>4. t[p] = ss[i][a]
    BY <1>4, <2>3
  <2> QED
    BY <2>2, <2>4
<1> HIDE DEF D
<1>12. Stretch(f, open, lim, t, D)
  BY <1>8, <1>9, <1>10, <1>11 DEF Stretch, L
<1> QED
  BY <1>12 DEF t, D, n, FirstOf

(* The only row of a node that is not open.                                *)
LEMMA FoldedStretch ==
  ASSUME NEW b, IsForest(b.forest), NEW open, NEW lim, AreLimits(lim), NEW cut,
         NEW n \in Nodes(b.forest), ~Opens(b.forest, open, n)
  PROVE  Stretch(b.forest, open, lim, Folded(b, n, lim, cut), {n})
<1> DEFINE f == b.forest
           R == Folded(b, n, lim, cut)
           r == R[1]
           comma == ~IsLast(f, n, lim)
<1>1. Count(f, n) \in Nat /\ comma \in BOOLEAN
  BY ShownIs DEF Count
<1>2. "leaf" \in Kinds /\ "collapsed" \in Kinds
  BY DEF Kinds, Heads
<1>3. R = <<Row(b, "leaf", n, comma, 0, cut)>> \/ R = <<Row(b, "collapsed", n, comma, Count(f, n), cut)>>
  BY DEF Folded
<1> HIDE DEF R, comma
<1>4. /\ Len(R) = 1 /\ r.kind \in {"leaf", "collapsed"} /\ r.node = n /\ r.comma = comma
      /\ r.depth = f[n]
  <2>1. ASSUME NEW kind \in {"leaf", "collapsed"}, NEW count \in Nat,
               R = <<Row(b, kind, n, comma, count, cut)>>
        PROVE  /\ Len(R) = 1 /\ r.kind = kind /\ r.node = n /\ r.comma = comma
               /\ r.depth = f[n]
    <3>1. Len(R) = 1 /\ r = Row(b, kind, n, comma, count, cut)
      BY <2>1
    <3>2. kind \in Kinds /\ kind # "show-more"
      BY <1>2
    <3> DEFINE x == Row(b, kind, n, comma, count, cut)
    <3>3. x.kind = kind /\ x.node = n /\ x.comma = comma
      BY DEF Row
    <3>4. x.depth = IF kind = "show-more" THEN f[n] + 1 ELSE f[n]
      BY DEF Row
    <3>5. r = x
      BY <3>1
    <3> HIDE DEF x
    <3> QED
      BY <3>1, <3>2, <3>3, <3>4, <3>5
  <2> QED
    BY <1>1, <1>3, <2>1
<1>5. Within(f, open, lim, n, r)
  <2>1. f[n] <= f[n]
    BY NodesAre
  <2> QED
    BY <1>4, <2>1, SubtreeIs, BelowSelf DEF Within
<1>6. Fine(f, open, lim, R, 1)
  <2>1. comma = (\E s \in Siblings(f, n) : s > n)
    BY <1>1, IsLastIs DEF comma
  <2> QED
    BY <1>4, <2>1 DEF Fine, Separated
<1>7. ASSUME NEW m \in Subtree(f, n), Below(f, open, lim, n, m) PROVE m = n
  <2>1. ASSUME m # n PROVE FALSE
    <3>1. PICK c \in Children(f, n) : m \in Subtree(f, c)
      BY <2>1, SubtreeSplit
    <3>2. n \in open
      BY <1>7, <3>1, BelowChild
    <3> QED
      BY <3>1, <3>2 DEF Opens
  <2> QED
    BY <2>1
<1>8. \A i \in 1..Len(R) : i = 1
  BY <1>4
<1>9. 1 \in 1..Len(R) /\ r.kind \in Heads
  BY <1>4 DEF Heads
<1> QED
  BY <1>4, <1>5, <1>6, <1>7, <1>8, <1>9 DEF Stretch, R

(* What the fields of a row are.                                           *)
LEMMA RowFields ==
  ASSUME NEW b, NEW r \in AllRows(b)
  PROVE  r.node \in Nodes(b.forest) /\ r.depth \in Nat /\ r.kind \in Kinds
  BY DEF AllRows

(* R is F between a first and a last row, with a row before the last when  *)
(* h is 1.                                                                 *)
Framed(R, F, first, more, last, h) ==
  /\ Len(F) \in Nat /\ h \in {0, 1} /\ Len(R) = Len(F) + h + 2
  /\ R[1] = first /\ R[Len(F) + h + 2] = last
  /\ \A k \in 1..Len(F) : R[k + 1] = F[k]
  /\ h = 1 => R[Len(F) + 2] = more

(* Concatenation makes such frames.                                        *)
LEMMA FrameIs ==
  ASSUME NEW A, NEW F \in Seq(A), NEW first \in A, NEW more, NEW last \in A, NEW mid \in Seq(A),
         NEW h \in {0, 1}, h = 1 => Len(mid) = 1 /\ mid[1] = more, h = 0 => Len(mid) = 0
  PROVE  Framed(<<first>> \o F \o mid \o <<last>>, F, first, more, last, h)
<1> DEFINE u == <<first>>
           v == u \o F
           w == v \o mid
           e == <<last>>
           R == w \o e
           L == Len(F)
<1>1. u \in Seq(A) /\ Len(u) = 1 /\ u[1] = first
  BY Single
<1>2. e \in Seq(A) /\ Len(e) = 1 /\ e[1] = last
  BY Single
<1>3. L \in Nat /\ Len(mid) = h /\ h \in Nat
  <2>1. h = 0 \/ h = 1
    OBVIOUS
  <2>2. Len(mid) = h
    BY <2>1
  <2>3. L \in Nat /\ Len(mid) \in Nat
    OBVIOUS
  <2> QED
    BY <2>2, <2>3
<1> HIDE DEF u, e
<1>4. v \in Seq(A) /\ Len(v) = 1 + L /\ (\A k \in 1..1 : v[k] = u[k]) /\ (\A k \in 1..L : v[1 + k] = F[k])
  <2>1. /\ v \in Seq(A) /\ Len(v) = Len(u) + Len(F)
        /\ \A k \in 1..Len(u) : v[k] = u[k]
        /\ \A k \in 1..Len(F) : v[Len(u) + k] = F[k]
    <3>1. u \in Seq(A) /\ F \in Seq(A)
      BY <1>1
    <3> QED
      BY <3>1, ConcatIs
  <2> HIDE DEF v
  <2> QED
    BY <1>1, <2>1
<1> HIDE DEF v
<1>5. w \in Seq(A) /\ Len(w) = (1 + L) + h /\ (\A k \in 1..(1 + L) : w[k] = v[k])
      /\ (\A k \in 1..h : w[(1 + L) + k] = mid[k])
  BY <1>3, <1>4, ConcatIs
<1> HIDE DEF w
<1>6. R \in Seq(A) /\ Len(R) = ((1 + L) + h) + 1 /\ (\A k \in 1..((1 + L) + h) : R[k] = w[k])
      /\ (\A k \in 1..1 : R[((1 + L) + h) + k] = e[k])
  <2>1. /\ R \in Seq(A) /\ Len(R) = Len(w) + Len(e)
        /\ \A k \in 1..Len(w) : R[k] = w[k]
        /\ \A k \in 1..Len(e) : R[Len(w) + k] = e[k]
    <3>1. w \in Seq(A) /\ e \in Seq(A)
      BY <1>2, <1>5
    <3> QED
      BY <3>1, ConcatIs
  <2> HIDE DEF R
  <2> QED
    BY <1>2, <1>5, <2>1
<1> HIDE DEF R, L
<1>7. R[1] = first
  <2>1. 1 \in 1..((1 + L) + h) /\ 1 \in 1..(1 + L) /\ 1 \in 1..1
    BY <1>3
  <2> QED
    BY <1>1, <1>4, <1>5, <1>6, <2>1
<1>8. R[L + h + 2] = last
  <2>1. 1 \in 1..1 /\ ((1 + L) + h) + 1 = L + h + 2
    BY <1>3
  <2> QED
    BY <1>2, <1>6, <2>1
<1>9. ASSUME NEW k \in 1..L PROVE R[k + 1] = F[k]
  <2>1. k + 1 \in 1..((1 + L) + h) /\ k + 1 \in 1..(1 + L) /\ k + 1 = 1 + k
    BY <1>3
  <2> QED
    BY <1>4, <1>5, <1>6, <2>1
<1>10. ASSUME h = 1 PROVE R[L + 2] = more
  <2>1. L + 2 \in 1..((1 + L) + h) /\ L + 2 = (1 + L) + 1 /\ 1 \in 1..h
    BY <1>3, <1>10
  <2> QED
    BY <1>5, <1>6, <1>10, <2>1
<1>11. Len(R) = L + h + 2
  BY <1>3, <1>6
<1>12. Framed(R, F, first, more, last, h)
  BY <1>3, <1>7, <1>8, <1>9, <1>10, <1>11 DEF Framed, L
<1> QED
  BY <1>12 DEF R, w, v, u, e

(* The rows of an open container.                                          *)
LEMMA UnfoldedIs ==
  ASSUME NEW b, IsForest(b.forest), NEW lim, AreLimits(lim), NEW cut, NEW n \in Nodes(b.forest),
         NEW F \in Seq(AllRows(b))
  PROVE  Framed(Unfolded(b, n, lim, cut, F), F,
                Row(b, "open", n, FALSE, Count(b.forest, n), cut),
                Row(b, "show-more", n, FALSE, Count(b.forest, n) - Shown(b.forest, n, lim), cut),
                Row(b, "close", n, ~IsLast(b.forest, n, lim), 0, cut),
                IF Shown(b.forest, n, lim) < Count(b.forest, n) THEN 1 ELSE 0)
<1> DEFINE A == AllRows(b)
           C == Count(b.forest, n)
           s == Shown(b.forest, n, lim)
           comma == ~IsLast(b.forest, n, lim)
           first == Row(b, "open", n, FALSE, C, cut)
           more == Row(b, "show-more", n, FALSE, C - s, cut)
           last == Row(b, "close", n, comma, 0, cut)
           mid == Hidden(b, n, lim, cut)
           h == IF s < C THEN 1 ELSE 0
<1>1. C \in Nat /\ comma \in BOOLEAN
  BY ShownIs DEF Count
<1>2. "open" \in Kinds /\ "close" \in Kinds
  BY DEF Kinds, Heads
<1>3. mid \in Seq(A)
  BY PartsAre
<1>4. Unfolded(b, n, lim, cut, F) = <<first>> \o F \o mid \o <<last>>
  BY Zenon DEF Unfolded, First, Closing
<1>5. mid = IF s < C THEN <<more>> ELSE <<>>
  BY Zenon DEF Hidden
<1> HIDE DEF C, s, comma, mid
<1>6. first \in A
  BY <1>1, <1>2, RowIn
<1>7. last \in A
  BY <1>1, <1>2, RowIn
<1> HIDE DEF first, more, last, A
<1>8. h \in {0, 1} /\ (h = 1 => Len(mid) = 1 /\ mid[1] = more) /\ (h = 0 => Len(mid) = 0)
  <2>1. CASE s < C
    <3>1. mid = <<more>> /\ h = 1
      BY <1>5, <2>1
    <3> QED
      BY <3>1
  <2>2. CASE ~(s < C)
    <3>1. mid = <<>> /\ h = 0
      BY <1>5, <2>2
    <3> QED
      BY <3>1
  <2> QED
    BY <2>1, <2>2
<1>9. F \in Seq(A)
  BY DEF A
<1> HIDE DEF h
<1>10. Framed(<<first>> \o F \o mid \o <<last>>, F, first, more, last, h)
  BY <1>3, <1>6, <1>7, <1>8, <1>9, FrameIs
<1>11. Framed(Unfolded(b, n, lim, cut, F), F, first, more, last, h)
  BY <1>4, <1>10, Zenon
<1> QED
  BY <1>11, Zenon DEF first, more, last, h, C, s, comma

(* A row that is fine stays so behind a first row.                         *)
LEMMA FineShifts ==
  ASSUME NEW f, NEW open, NEW lim, NEW R, NEW F, Len(F) \in Nat, Len(R) \in Nat, Len(F) + 1 <= Len(R),
         \A k \in 1..Len(F) : R[k + 1] = F[k], NEW p \in 1..Len(F), Fine(f, open, lim, F, p)
  PROVE  Fine(f, open, lim, R, p + 1)
<1> DEFINE L == Len(F)
           M == Len(R)
<1>1. L \in Nat /\ M \in Nat /\ L + 1 <= M /\ p \in 1..L /\ \A k \in 1..L : R[k + 1] = F[k]
  OBVIOUS
<1>2. R[p + 1] = F[p]
  BY <1>1
<1>3. ASSUME Bracketed(f, F, p) PROVE Bracketed(f, R, p + 1)
  <2>1. PICK c \in 1..L :
          /\ c > p /\ F[c].kind = "close" /\ F[c].node = F[p].node
          /\ \A k \in (p + 1)..(c - 1) :
               F[k].depth > F[p].depth /\ F[k].node \in Subtree(f, F[p].node)
    BY <1>3 DEF Bracketed
  <2> HIDE DEF L, M
  <2>2. c + 1 \in 1..M /\ c + 1 > p + 1 /\ R[c + 1] = F[c]
    BY <1>1, <2>1
  <2>3. ASSUME NEW k \in ((p + 1) + 1)..((c + 1) - 1)
        PROVE  R[k].depth > R[p + 1].depth /\ R[k].node \in Subtree(f, R[p + 1].node)
    <3>1. k - 1 \in (p + 1)..(c - 1) /\ k - 1 \in 1..L /\ (k - 1) + 1 = k
      BY <1>1, <2>1
    <3>2. R[k] = F[k - 1]
      BY <1>1, <3>1
    <3> QED
      BY <1>2, <2>1, <3>1, <3>2
  <2> QED
    BY <1>2, <2>1, <2>2, <2>3 DEF Bracketed, M
<1>4. ASSUME Hides(f, open, lim, F, p) PROVE Hides(f, open, lim, R, p + 1)
  <2>1. p + 1 \in 1..L
    BY <1>4 DEF Hides
  <2>2. (p + 1) + 1 \in 1..M /\ R[(p + 1) + 1] = F[p + 1]
    BY <1>1, <2>1
  <2> QED
    BY <1>2, <1>4, <2>2 DEF Hides, M
<1>5. Separated(f, F, p) => Separated(f, R, p + 1)
  BY <1>2 DEF Separated
<1> QED
  BY <1>2, <1>3, <1>4, <1>5 DEF Fine

(* The children that a node shows are the first of them.                   *)
ShownChildren(f, n, lim) ==
  {c \in Children(f, n) : Rank(Children(f, n), c) <= Shown(f, n, lim)}

(* In order, they come first.                                              *)
LEMMA ShownFirst ==
  ASSUME NEW f, IsForest(f), NEW n \in Nodes(f), NEW lim, AreLimits(lim)
  PROVE  FirstOf(InOrder(Children(f, n)), Shown(f, n, lim)) = ShownChildren(f, n, lim)
<1> DEFINE S == Children(f, n)
           k == Shown(f, n, lim)
           C == Cardinality(S)
           cs == InOrder(S)
<1>1. C \in Nat /\ k \in 0..C
  BY ShownIs
<1>2. S \in SUBSET Nat /\ IsFiniteSet(S)
  BY ChildrenAre
<1>2a. ShownChildren(f, n, lim) = {c \in S : Rank(S, c) <= k}
  BY DEF ShownChildren
<1> HIDE DEF S, k
<1>3. /\ \A i \in 1..C : cs[i] \in S /\ Rank(S, cs[i]) = i
      /\ \A x \in S : Rank(S, x) \in 1..C /\ cs[Rank(S, x)] = x
  BY <1>2, InOrderIs
<1> HIDE DEF C, cs
<1>4. ASSUME NEW i \in 1..k PROVE cs[i] \in S /\ Rank(S, cs[i]) <= k
  <2>1. i \in 1..C /\ i <= k
    BY <1>1
  <2> QED
    BY <1>3, <2>1
<1>5. ASSUME NEW c \in S, Rank(S, c) <= k PROVE \E i \in 1..k : cs[i] = c
  <2>1. Rank(S, c) \in 1..k
    BY <1>1, <1>3, <1>5
  <2> QED
    BY <1>3, <2>1
<1> QED
  BY <1>2a, <1>4, <1>5 DEF S, k, cs, FirstOf

(* The rows of an open container, given those of the children it shows.    *)
LEMMA UnfoldedStretch ==
  ASSUME NEW b, IsForest(b.forest), NEW open, NEW lim, AreLimits(lim), NEW cut,
         NEW n \in Nodes(b.forest), Opens(b.forest, open, n), NEW F \in Seq(AllRows(b)),
         Stretch(b.forest, open, lim, F, ShownChildren(b.forest, n, lim))
  PROVE  Stretch(b.forest, open, lim, Unfolded(b, n, lim, cut, F), {n})
<1> DEFINE f == b.forest
           R == Unfolded(b, n, lim, cut, F)
           C == Count(f, n)
           s == Shown(f, n, lim)
           comma == ~IsLast(f, n, lim)
           first == Row(b, "open", n, FALSE, C, cut)
           more == Row(b, "show-more", n, FALSE, C - s, cut)
           last == Row(b, "close", n, comma, 0, cut)
           h == IF s < C THEN 1 ELSE 0
           L == Len(F)
           M == L + h + 2
           D == ShownChildren(f, n, lim)
<1>1. Framed(R, F, first, more, last, h)
  BY UnfoldedIs
<1>2. /\ first.kind = "open" /\ first.node = n /\ first.depth = f[n]
      /\ more.kind = "show-more" /\ more.node = n /\ more.depth = f[n] + 1 /\ more.count = C - s
      /\ last.kind = "close" /\ last.node = n /\ last.depth = f[n] /\ last.comma = comma
  BY DEF Row
<1>3. comma = (\E x \in Siblings(f, n) : x > n)
  BY IsLastIs
<1>4. n \in open /\ C \in Nat /\ s \in 0..C /\ f[n] \in Nat /\ n \in Nat
  BY ShownIs, NodesAre DEF Opens, Count
<1>5. h = 1 => s < C
  OBVIOUS
<1>6. \A k \in 1..L : F[k].node \in Nodes(f) /\ F[k].depth \in Nat /\ F[k].kind \in Kinds
  <2>1. \A k \in 1..L : F[k] \in AllRows(b)
    OBVIOUS
  <2> QED
    BY <2>1, RowFields
<1>7. /\ \A i \in 1..L : \E d \in D : Within(f, open, lim, d, F[i])
      /\ \A i \in 1..L : Fine(f, open, lim, F, i)
      /\ \A i, j \in 1..L :
           i < j /\ F[i].kind \in Heads /\ F[j].kind \in Heads => F[i].node < F[j].node
      /\ \A d \in D : \A m \in Subtree(f, d) : Below(f, open, lim, d, m) =>
           \E i \in 1..L : F[i].kind \in Heads /\ F[i].node = m
  BY DEF Stretch
<1>8. \A d \in D : d \in Children(f, n) /\ Rank(Children(f, n), d) <= s
  BY DEF ShownChildren
<1>9. \A d \in Children(f, n) : Rank(Children(f, n), d) <= s => d \in D
  BY DEF ShownChildren
<1>10. n \in Subtree(f, n) /\ Below(f, open, lim, n, n)
  BY SubtreeIs, BelowSelf
<1> HIDE DEF R, C, s, comma, first, more, last, D, h
<1>11. /\ L \in Nat /\ h \in {0, 1} /\ Len(R) = M /\ R[1] = first /\ R[M] = last
       /\ \A k \in 1..L : R[k + 1] = F[k]
       /\ h = 1 => R[L + 2] = more
  BY <1>1 DEF Framed
<1> HIDE DEF L
<1>11a. M \in Nat /\ M >= L + 2
  <2>1. h \in Nat
    BY <1>11
  <2> QED
    BY <1>11, <2>1
<1>12. ASSUME NEW i \in 1..M
       PROVE  i = 1 \/ (i - 1 \in 1..L /\ R[i] = F[i - 1]) \/ (h = 1 /\ i = L + 2 /\ i + 1 = M) \/ i = M
  <2>1. h = 0 \/ h = 1
    BY <1>11
  <2>2. i = 1 \/ i - 1 \in 1..L \/ (h = 1 /\ i = L + 2 /\ i + 1 = M) \/ i = M
    BY <1>11, <2>1
  <2>3. i - 1 \in 1..L => R[(i - 1) + 1] = F[i - 1] /\ (i - 1) + 1 = i
    BY <1>11
  <2> QED
    BY <2>2, <2>3
<1> HIDE DEF M
<1>13. ASSUME NEW k \in 1..L
       PROVE  /\ F[k].node \in Subtree(f, n) /\ Below(f, open, lim, n, F[k].node)
              /\ f[n] < F[k].depth /\ n < F[k].node
  <2>1. PICK d \in D : Within(f, open, lim, d, F[k])
    BY <1>7
  <2>2. d \in Children(f, n) /\ d \in Nodes(f) /\ d \in Subtree(f, n) /\ n < d /\ f[n] < f[d]
    BY <1>8, ChildrenAre
  <2>3. F[k].node \in Subtree(f, d) /\ Below(f, open, lim, d, F[k].node) /\ f[d] <= F[k].depth
    BY <2>1 DEF Within
  <2>4. F[k].node \in Subtree(f, n)
    BY <2>2, <2>3, SubtreeNested
  <2>5. Below(f, open, lim, n, F[k].node)
    BY <1>4, <1>8, <2>2, <2>3, BelowChild DEF s
  <2>6. d <= F[k].node
    BY <2>2, <2>3, SubtreeIs
  <2>7. d \in Nat /\ f[d] \in Nat /\ F[k].depth \in Nat /\ F[k].node \in Nat
    BY <1>6, <2>2, NodesAre
  <2> QED
    BY <1>4, <2>2, <2>3, <2>4, <2>5, <2>6, <2>7
<1>14. ASSUME NEW i \in 1..M
       PROVE  /\ Within(f, open, lim, n, R[i])
              /\ i # 1 /\ i # M => R[i].depth > f[n]
  <2>1. CASE i = 1
    BY <1>2, <1>4, <1>10, <1>11, <2>1 DEF Within
  <2>2. CASE i - 1 \in 1..L /\ R[i] = F[i - 1]
    <3>1. /\ F[i - 1].node \in Subtree(f, n) /\ Below(f, open, lim, n, F[i - 1].node)
          /\ f[n] < F[i - 1].depth /\ F[i - 1].depth \in Nat
      BY <1>6, <1>13, <2>2
    <3>2. f[n] <= F[i - 1].depth /\ F[i - 1].depth > f[n]
      BY <1>4, <3>1
    <3> QED
      BY <2>2, <3>1, <3>2 DEF Within
  <2>3. CASE h = 1 /\ i = L + 2
    <3>1. R[i] = more /\ f[n] <= f[n] + 1 /\ f[n] + 1 > f[n]
      BY <1>4, <1>11, <2>3
    <3> QED
      BY <1>2, <1>10, <3>1 DEF Within
  <2>4. CASE i = M
    BY <1>2, <1>4, <1>10, <1>11, <2>4 DEF Within
  <2> QED
    BY <1>12, <2>1, <2>2, <2>3, <2>4
<1>15. ASSUME NEW i \in 1..M PROVE Fine(f, open, lim, R, i)
  <2>1. CASE i = 1
    <3>1. M \in 1..Len(R) /\ M > 1 /\ R[M].kind = "close" /\ R[M].node = R[1].node
      BY <1>2, <1>11, <1>11a
    <3>2. ASSUME NEW k \in (1 + 1)..(M - 1)
          PROVE  R[k].depth > R[1].depth /\ R[k].node \in Subtree(f, R[1].node)
      <4>1. k \in 1..M /\ k # 1 /\ k # M
        BY <1>11a
      <4>2. R[k].depth > f[n] /\ R[k].node \in Subtree(f, n)
        BY <1>14, <4>1 DEF Within
      <4> QED
        BY <1>2, <1>11, <4>2
    <3>3. Bracketed(f, R, 1)
      BY <3>1, <3>2 DEF Bracketed
    <3> QED
      BY <1>2, <1>11, <2>1, <3>3 DEF Fine
  <2>2. CASE i - 1 \in 1..L /\ R[i] = F[i - 1]
    <3>1. Fine(f, open, lim, F, i - 1)
      BY <1>7, <2>2
    <3>2. Len(F) \in Nat /\ Len(R) \in Nat /\ Len(F) + 1 <= Len(R) /\ i - 1 \in 1..Len(F)
          /\ \A k \in 1..Len(F) : R[k + 1] = F[k]
      BY <1>11, <1>11a, <2>2 DEF L
    <3>3. Fine(f, open, lim, R, (i - 1) + 1)
      BY <3>1, <3>2, FineShifts
    <3>4. (i - 1) + 1 = i
      BY <1>11a
    <3> QED
      BY <3>3, <3>4
  <2>3. CASE h = 1 /\ i = L + 2 /\ i + 1 = M
    <3>1. R[i] = more /\ R[i + 1] = last /\ i + 1 \in 1..Len(R)
      BY <1>11, <1>11a, <2>3
    <3>2. Hides(f, open, lim, R, i)
      BY <1>2, <1>4, <1>5, <2>3, <3>1 DEF Hides, C, s
    <3> QED
      BY <1>2, <3>1, <3>2 DEF Fine
  <2>4. CASE i = M
    <3>1. R[i] = last
      BY <1>11, <2>4
    <3>2. Separated(f, R, i)
      BY <1>2, <1>3, <3>1 DEF Separated
    <3> QED
      BY <1>2, <3>1, <3>2 DEF Fine
  <2> QED
    BY <1>12, <2>1, <2>2, <2>3, <2>4
<1>16. ASSUME NEW i \in 1..M, R[i].kind \in Heads
       PROVE  i = 1 \/ (i - 1 \in 1..L /\ R[i] = F[i - 1])
  <2>1. ~(more.kind \in Heads) /\ ~(last.kind \in Heads)
    BY <1>2 DEF Heads
  <2> QED
    BY <1>11, <1>12, <1>16, <2>1
<1>17. ASSUME NEW i \in 1..M, NEW j \in 1..M, i < j, R[i].kind \in Heads, R[j].kind \in Heads
       PROVE  R[i].node < R[j].node
  <2>1. j # 1
    BY <1>11a, <1>17
  <2>2. j - 1 \in 1..L /\ R[j] = F[j - 1]
    BY <1>16, <1>17, <2>1
  <2>3. CASE i = 1
    BY <1>2, <1>11, <1>13, <2>2, <2>3
  <2>4. CASE i - 1 \in 1..L /\ R[i] = F[i - 1]
    <3>1. i - 1 < j - 1
      BY <1>11a, <1>17
    <3> QED
      BY <1>7, <1>17, <2>2, <2>4, <3>1
  <2> QED
    BY <1>16, <1>17, <2>3, <2>4
<1>18. ASSUME NEW m \in Subtree(f, n), Below(f, open, lim, n, m)
       PROVE  \E i \in 1..M : R[i].kind \in Heads /\ R[i].node = m
  <2>1. CASE m = n
    <3>1. 1 \in 1..M /\ R[1].kind \in Heads /\ R[1].node = n
      BY <1>2, <1>11, <1>11a DEF Heads
    <3> QED
      BY <2>1, <3>1
  <2>2. CASE m # n
    <3>1. PICK c \in Children(f, n) : m \in Subtree(f, c)
      BY <2>2, SubtreeSplit
    <3>2. Rank(Children(f, n), c) <= s /\ Below(f, open, lim, c, m)
      BY <1>18, <3>1, BelowChild DEF s
    <3>3. c \in D
      BY <1>9, <3>2
    <3>4. PICK k \in 1..L : F[k].kind \in Heads /\ F[k].node = m
      BY <1>7, <3>1, <3>2, <3>3
    <3>5. k + 1 \in 1..M /\ R[k + 1] = F[k]
      <4>1. R[k + 1] = F[k] /\ L \in Nat
        BY <1>11
      <4>2. k + 1 \in 1..M
        BY <1>11a, <4>1
      <4> QED
        BY <4>1, <4>2
    <3> QED
      BY <3>4, <3>5
  <2> QED
    BY <2>1, <2>2
<1>19. Stretch(f, open, lim, R, {n})
  BY <1>11, <1>14, <1>15, <1>17, <1>18 DEF Stretch
<1> QED
  BY <1>19 DEF R

(* The rows of every node show its subtree.                                *)
LEMMA RowsShow ==
  ASSUME NEW b, IsForest(b.forest), NEW open, NEW lim, AreLimits(lim), NEW cut
  PROVE  \A n \in Nodes(b.forest) :
           Stretch(b.forest, open, lim, RowsBy(b, open, lim, cut)[n], {n})
<1> DEFINE f == b.forest
           K == RowsBy(b, open, lim, cut)
           A == AllRows(b)
           Good(n) == Stretch(f, open, lim, K[n], {n})
           T == {n \in Nodes(f) : ~Good(n)}
<1>1. K \in [Nodes(f) -> Seq(A)] /\ \A n \in Nodes(f) : K[n] = NodeRows(b, open, lim, cut, K, n)
  BY RowsEquation
<1>2. Len(f) \in Nat /\ Nodes(f) = 1..Len(f)
  BY NodesAre
<1> HIDE DEF K
<1>3. ASSUME NEW n \in Nodes(f), \A m \in Nodes(f) : n < m => Good(m) PROVE Good(n)
  <2>1. CASE ~Opens(f, open, n)
    <3>1. K[n] = Folded(b, n, lim, cut)
      BY <1>1, <2>1, NodeRowsIs
    <3> QED
      BY <2>1, <3>1, FoldedStretch
  <2>2. CASE Opens(f, open, n)
    <3> DEFINE cs == InOrder(Children(f, n))
               k == Shown(f, n, lim)
               ss == Inside(f, n, lim, K)
               F == FlattenSeq(ss)
    <3>1. K[n] = Unfolded(b, n, lim, cut, F)
      BY <1>1, <2>2, NodeRowsIs
    <3>2. /\ ss \in Seq(Seq(A)) /\ Len(ss) = k
          /\ \A i \in 1..k : cs[i] \in Children(f, n) /\ ss[i] = K[cs[i]]
      <4> DEFINE X == Seq(A)
      <4>1. K \in [Nodes(f) -> X]
        BY <1>1
      <4> HIDE DEF X
      <4>2. ss \in Seq(X) /\ Len(ss) = k
        BY <4>1, InsideIs
      <4>3. ASSUME NEW i \in 1..k PROVE cs[i] \in Children(f, n) /\ ss[i] = K[cs[i]]
        <5>1. Cardinality(Children(f, n)) \in Nat /\ k \in 0..Cardinality(Children(f, n))
          BY ShownIs
        <5>2. i \in 1..Cardinality(Children(f, n))
          BY <5>1
        <5>3. cs[i] \in Children(f, n)
          BY <5>2, ChildrenAre, InOrderIs
        <5>4. ss[i] = K[cs[i]]
          BY DEF Inside, Blocks
        <5> QED
          BY <5>3, <5>4
      <4> QED
        BY <4>2, <4>3 DEF X
    <3>3. \A c \in Children(f, n) : c \in Nodes(f) /\ n < c /\ f[c] = f[n] + 1
      BY ChildrenAre
    <3>4. \A i, j \in 1..k : i < j => cs[i] < cs[j]
      <4>1. Cardinality(Children(f, n)) \in Nat /\ k \in 0..Cardinality(Children(f, n))
        BY ShownIs
      <4>2. \A i, j \in 1..Cardinality(Children(f, n)) : i < j => cs[i] < cs[j]
        BY ChildrenAre, InOrderIs
      <4>3. \A i \in 1..k : i \in 1..Cardinality(Children(f, n))
        BY <4>1
      <4> QED
        BY <4>2, <4>3
    <3>5. FirstOf(cs, k) = ShownChildren(f, n, lim)
      BY ShownFirst
    <3> HIDE DEF cs, k, ss, A
    <3>6. BlocksShow(f, open, lim, ss, cs)
      BY <1>3, <3>2, <3>3, <3>4 DEF BlocksShow
    <3>7. Stretch(f, open, lim, F, FirstOf(cs, Len(ss)))
      BY <3>2, <3>6, FlattenStretch
    <3>8. Stretch(f, open, lim, F, ShownChildren(f, n, lim))
      BY <3>2, <3>5, <3>7
    <3>9. F \in Seq(A)
      BY <3>2, FlattenIs
    <3> HIDE DEF F
    <3> QED
      BY <2>2, <3>1, <3>8, <3>9, UnfoldedStretch DEF A
  <2> QED
    BY <2>1, <2>2
<1> HIDE DEF Good
<1>4. ASSUME T # {} PROVE FALSE
  <2>1. T \in SUBSET (0..Len(f))
    BY <1>2
  <2>2. PICK n \in T : \A j \in T : j <= n
    BY <1>2, <1>4, <2>1, GreatestNumber
  <2>3. \A m \in Nodes(f) : n < m => Good(m)
    BY <1>2, <2>2
  <2> QED
    BY <1>3, <2>2, <2>3
<1>5. \A n \in Nodes(f) : Good(n)
  BY <1>4
<1> QED
  BY <1>5 DEF Good, K

(* The rows Flatten returns show the trees of the roots.                   *)
LEMMA FlattenShows ==
  ASSUME NEW b, IsForest(b.forest), NEW open, NEW lim, AreLimits(lim), NEW cut
  PROVE  /\ Flatten(b, open, lim, cut) \in Seq(AllRows(b))
         /\ Stretch(b.forest, open, lim, Flatten(b, open, lim, cut), Roots(b.forest))
<1> DEFINE f == b.forest
           K == RowsBy(b, open, lim, cut)
           A == AllRows(b)
           S == Roots(f)
           cs == InOrder(S)
           C == Cardinality(S)
           ss == [i \in DOMAIN cs |-> K[cs[i]]]
<1>1. Flatten(b, open, lim, cut) = FlattenSeq(ss)
  BY FlattenRoots
<1>2. K \in [Nodes(f) -> Seq(A)] /\ \A n \in Nodes(f) : Stretch(f, open, lim, K[n], {n})
  BY RowsEquation, RowsShow
<1>3. S \in SUBSET Nodes(f) /\ \A r \in S : f[r] = 0
  BY DEF Roots
<1>4. S \in SUBSET Nat /\ IsFiniteSet(S)
  <2>1. Nodes(f) \in SUBSET Nat /\ IsFiniteSet(Nodes(f))
    BY NodesAre
  <2> QED
    BY <1>3, <2>1, FS_Subset
<1> HIDE DEF K, S, A
<1>5. /\ C \in Nat /\ DOMAIN cs = 1..C /\ \A i \in 1..C : cs[i] \in S
      /\ \A i, j \in 1..C : i < j => cs[i] < cs[j]
      /\ \A x \in S : Rank(S, x) \in 1..C /\ cs[Rank(S, x)] = x
  BY <1>4, InOrderIs
<1> HIDE DEF cs, C
<1>6. ss \in [1..C -> Seq(A)] /\ \A i \in 1..C : ss[i] = K[cs[i]]
  BY <1>2, <1>3, <1>5
<1> HIDE DEF ss
<1>7. ss \in Seq(Seq(A)) /\ Len(ss) = C
  BY <1>5, <1>6
<1>8. BlocksShow(f, open, lim, ss, cs)
  BY <1>2, <1>3, <1>5, <1>6, <1>7 DEF BlocksShow
<1>9. Stretch(f, open, lim, FlattenSeq(ss), FirstOf(cs, Len(ss)))
  BY <1>7, <1>8, FlattenStretch
<1>10. FirstOf(cs, C) = S
  BY <1>5 DEF FirstOf
<1>11. FlattenSeq(ss) \in Seq(A)
  BY <1>7, FlattenIs
<1>12. Stretch(f, open, lim, FlattenSeq(ss), S)
  BY <1>7, <1>9, <1>10
<1> QED
  BY <1>1, <1>11, <1>12 DEF S, A

-----------------------------------------------------------------------------
(* The rows are the tree                                                   *)

(* How many elements of a set come after the k-th.                         *)
LEMMA RestCount ==
  ASSUME NEW S \in SUBSET Nat, IsFiniteSet(S), NEW k \in 0..Cardinality(S)
  PROVE  Cardinality({x \in S : ~(Rank(S, x) <= k)}) = Cardinality(S) - k
<1> DEFINE C == Cardinality(S)
           I == (k + 1)..C
           T == {x \in S : ~(Rank(S, x) <= k)}
           e == [i \in I |-> InOrder(S)[i]]
<1>1. /\ C \in Nat /\ \A i \in 1..C : InOrder(S)[i] \in S /\ Rank(S, InOrder(S)[i]) = i
      /\ \A x \in S : Rank(S, x) \in 1..C /\ InOrder(S)[Rank(S, x)] = x
  BY InOrderIs
<1>2. k \in Nat /\ k <= C
  BY <1>1
<1> HIDE DEF C
<1>3. \A i \in I : i \in 1..C /\ ~(i <= k)
  BY <1>1, <1>2
<1>4. e \in [I -> T] /\ \A i \in I : e[i] = InOrder(S)[i] /\ Rank(S, e[i]) = i
  BY <1>1, <1>3
<1>5. \A x \in T : \E i \in I : e[i] = x
  <2> SUFFICES ASSUME NEW x \in T PROVE \E i \in I : e[i] = x
    OBVIOUS
  <2>1. Rank(S, x) \in 1..C /\ ~(Rank(S, x) <= k) /\ InOrder(S)[Rank(S, x)] = x
    BY <1>1
  <2>2. Rank(S, x) \in I
    BY <1>1, <1>2, <2>1
  <2> QED
    BY <1>4, <2>1, <2>2
<1> HIDE DEF e, T, I
<1>6. e \in Bijection(I, T)
  BY <1>4, <1>5 DEF Bijection, Injection, IsInjective, Surjection
<1>7. IsFiniteSet(I) /\ Cardinality(I) = C - k
  <2>1. k + 1 \in Int /\ C \in Int
    BY <1>1, <1>2
  <2>2. IsFiniteSet(I) /\ Cardinality(I) = IF k + 1 > C THEN 0 ELSE C - (k + 1) + 1
    BY <2>1, FS_Interval DEF I
  <2> QED
    BY <1>1, <1>2, <2>2
<1>8. ExistsBijection(I, T)
  BY <1>6 DEF ExistsBijection
<1>9. Cardinality(T) = C - k
  BY <1>7, <1>8, FS_Bijection
<1> QED
  BY <1>9 DEF T, C

(* A stretch of rows for the roots is what ShowsTree asks for.             *)
LEMMA StretchShows ==
  ASSUME NEW b, IsForest(b.forest), NEW open, NEW lim, AreLimits(lim), NEW cut,
         NEW R \in Seq(AllRows(b)), Stretch(b.forest, open, lim, R, Roots(b.forest))
  PROVE  ShowsTree(b.forest, open, lim, R)
<1> DEFINE f == b.forest
           L == Len(R)
           V == {n \in Nodes(f) : Visible(f, open, lim, n)}
           H == {i \in DOMAIN R : R[i].kind \in Heads}
           g == [i \in H |-> R[i].node]
           heads == InOrder(H)
           C == Cardinality(H)
<1>1. L \in Nat /\ DOMAIN R = 1..L
  OBVIOUS
<1>2. /\ \A i \in 1..L : \E d \in Roots(f) : Within(f, open, lim, d, R[i])
      /\ \A i \in 1..L : Fine(f, open, lim, R, i)
      /\ \A i, j \in 1..L :
           i < j /\ R[i].kind \in Heads /\ R[j].kind \in Heads => R[i].node < R[j].node
      /\ \A d \in Roots(f) : \A m \in Subtree(f, d) : Below(f, open, lim, d, m) =>
           \E i \in 1..L : R[i].kind \in Heads /\ R[i].node = m
  BY DEF Stretch
<1>3. \A i \in 1..L : R[i].node \in Nodes(f) /\ R[i].kind \in Kinds
  <2>1. \A i \in 1..L : R[i] \in AllRows(b)
    OBVIOUS
  <2> QED
    BY <2>1, RowFields
<1>4. \A i \in 1..L : Visible(f, open, lim, R[i].node)
  <2> SUFFICES ASSUME NEW i \in 1..L PROVE Visible(f, open, lim, R[i].node)
    OBVIOUS
  <2>1. PICK d \in Roots(f) : Within(f, open, lim, d, R[i])
    BY <1>2
  <2> QED
    BY <2>1, VisibleRoot DEF Within
<1> HIDE DEF L
<1>5. /\ H \in SUBSET Nat /\ IsFiniteSet(H) /\ \A i \in H : i \in 1..L /\ R[i].kind \in Heads
      /\ \A i \in 1..L : R[i].kind \in Heads => i \in H
  <2>1. H \in SUBSET (1..L)
    BY <1>1
  <2>2. IsFiniteSet(1..L)
    BY <1>1, FS_Interval
  <2>3. IsFiniteSet(H)
    BY <2>1, <2>2, FS_Subset
  <2>4. \A i \in 1..L : i \in Nat
    BY <1>1
  <2> QED
    BY <1>1, <2>1, <2>3, <2>4
<1>6. V \in SUBSET Nat /\ IsFiniteSet(V) /\ \A n \in V : n \in Nodes(f) /\ Visible(f, open, lim, n)
  <2>1. V \in SUBSET Nodes(f)
    OBVIOUS
  <2>2. Nodes(f) \in SUBSET Nat /\ IsFiniteSet(Nodes(f))
    BY NodesAre
  <2>3. IsFiniteSet(V)
    BY <2>1, <2>2, FS_Subset
  <2> QED
    BY <2>1, <2>2, <2>3
<1>7. \A n \in Nodes(f) : Visible(f, open, lim, n) => n \in V
  OBVIOUS
<1> HIDE DEF H, V
<1>8. g \in [H -> V] /\ \A i \in H : g[i] = R[i].node
  BY <1>3, <1>4, <1>5, <1>7
<1> HIDE DEF g
<1>9. \A x, y \in H : x < y => g[x] < g[y]
  BY <1>2, <1>5, <1>8
<1>10. \A v \in V : \E x \in H : g[x] = v
  <2> SUFFICES ASSUME NEW v \in V PROVE \E x \in H : g[x] = v
    OBVIOUS
  <2>1. v \in Nodes(f) /\ Visible(f, open, lim, v)
    BY <1>6
  <2>2. PICK r \in Roots(f) : v \in Subtree(f, r)
    BY <2>1, RootOf
  <2>3. Below(f, open, lim, r, v)
    BY <2>1, <2>2, VisibleRoot
  <2>4. PICK i \in 1..L : R[i].kind \in Heads /\ R[i].node = v
    BY <1>2, <2>2, <2>3
  <2> QED
    BY <1>5, <1>8, <2>4
<1>11. Cardinality(V) = C /\ \A k \in 1..C : g[InOrder(H)[k]] = InOrder(V)[k]
  BY <1>5, <1>6, <1>8, <1>9, <1>10, SameOrder
<1>12. [k \in DOMAIN heads |-> R[heads[k]].node] = InOrder(V)
  <2>1. DOMAIN heads = 1..C /\ \A k \in 1..C : heads[k] \in H
    BY <1>5, InOrderIs
  <2>2. DOMAIN InOrder(V) = 1..C
    BY <1>6, <1>11, InOrderIs
  <2>3. InOrder(V) = [k \in 1..C |-> InOrder(V)[k]]
    BY <2>2 DEF InOrder
  <2>4. \A k \in 1..C : R[heads[k]].node = InOrder(V)[k]
    BY <1>8, <1>11, <2>1
  <2> HIDE DEF heads, C
  <2> QED
    BY <2>1, <2>3, <2>4
<1>13. ASSUME NEW i \in 1..L, R[i].kind = "show-more"
       PROVE  /\ R[i + 1].kind = "close" /\ R[i + 1].node = R[i].node
              /\ R[i].count = Cardinality({c \in Children(f, R[i].node) :
                                             ~Visible(f, open, lim, c)})
              /\ R[i].count > 0
  <2> DEFINE n == R[i].node
             S == Children(f, n)
             s == Shown(f, n, lim)
             T == {c \in S : ~Visible(f, open, lim, c)}
             U == {c \in S : ~(Rank(S, c) <= s)}
  <2>1. Hides(f, open, lim, R, i)
    BY <1>2, <1>13 DEF Fine
  <2>2. /\ R[i + 1].kind = "close" /\ R[i + 1].node = n
        /\ n \in open /\ s < Cardinality(S) /\ R[i].count = Cardinality(S) - s
    BY <2>1 DEF Hides, Count
  <2>3. n \in Nodes(f) /\ Visible(f, open, lim, n)
    BY <1>3, <1>4
  <2> HIDE DEF n
  <2>4. \A c \in S : Visible(f, open, lim, c) <=> Rank(S, c) <= s
    BY <2>2, <2>3, VisibleChild
  <2>5. T = U
    BY <2>4
  <2>6. S \in SUBSET Nat /\ IsFiniteSet(S) /\ s \in 0..Cardinality(S) /\ Cardinality(S) \in Nat
    BY <2>3, ChildrenAre, ShownIs
  <2> HIDE DEF S, s, T
  <2>7. Cardinality(U) = Cardinality(S) - s
    BY <2>6, RestCount
  <2> HIDE DEF U
  <2>8. R[i].count = Cardinality(T) /\ R[i].count > 0
    BY <2>2, <2>5, <2>6, <2>7
  <2> QED
    BY <2>2, <2>8 DEF T, S, n
<1>14. ASSUME NEW i \in DOMAIN R
       PROVE  CASE R[i].kind = "open" ->
                     \E j \in DOMAIN R :
                       /\ j > i /\ R[j].kind = "close" /\ R[j].node = R[i].node
                       /\ \A k \in (i + 1)..(j - 1) :
                            R[k].depth > R[i].depth /\ R[k].node \in Subtree(f, R[i].node)
                [] R[i].kind = "show-more" ->
                     /\ R[i + 1].kind = "close" /\ R[i + 1].node = R[i].node
                     /\ R[i].count = Cardinality({c \in Children(f, R[i].node) :
                                                    ~Visible(f, open, lim, c)})
                     /\ R[i].count > 0
                [] OTHER -> R[i].comma = (\E s \in Siblings(f, R[i].node) : s > R[i].node)
  <2>1. i \in 1..L /\ Fine(f, open, lim, R, i)
    BY <1>1, <1>2
  <2>2. CASE R[i].kind = "open"
    <3>1. Bracketed(f, R, i) /\ DOMAIN R = 1..Len(R)
      BY <1>1, <2>1, <2>2 DEF Fine, L
    <3>2. \E j \in DOMAIN R :
            /\ j > i /\ R[j].kind = "close" /\ R[j].node = R[i].node
            /\ \A k \in (i + 1)..(j - 1) :
                 R[k].depth > R[i].depth /\ R[k].node \in Subtree(f, R[i].node)
      BY <3>1, Zenon DEF Bracketed
    <3> QED
      BY <2>2, <3>2, Zenon
  <2>3. CASE R[i].kind = "show-more"
    BY <1>13, <2>1, <2>3, Zenon
  <2>4. CASE R[i].kind # "open" /\ R[i].kind # "show-more"
    <3>1. Separated(f, R, i)
      BY <2>1, <2>4 DEF Fine
    <3>2. R[i].comma = (\E s \in Siblings(f, R[i].node) : s > R[i].node)
      BY <3>1 DEF Separated
    <3> QED
      BY <2>4, <3>2, Zenon
  <2> QED
    BY <2>2, <2>3, <2>4
<1> QED
  BY <1>12, <1>14, Zenon DEF ShowsTree, H, V

-----------------------------------------------------------------------------
(* The inductive invariant                                                 *)

(* Until the first click all that the viewer keeps is what the worker sent.*)
Unclicked ==
  ~treeReady => /\ expanded = WorkerExpanded(body) /\ limits = NoLimits
                /\ forest \in {Unbuilt, BuildForest(body)}

(* The raised windows are windows of nodes of the body.                    *)
WindowsTyped == DOMAIN limits \subseteq Nodes(body.forest) /\ AreLimits(limits)

TreeInv == body \in Bodies /\ Unclicked /\ WindowsTyped /\ WindowsForgotten

(* The body that is shown has a forest.                                    *)
LEMMA BodyForest ==
  ASSUME NEW b \in Bodies
  PROVE  IsForest(b.forest)
<1>1. b.forest \in Forests
  BY DEF Bodies
<1>2. b.forest \in Seq(Nat) /\ b.forest # <<>> /\ b.forest[1] = 0
      /\ \A i \in 1..(Len(b.forest) - 1) : b.forest[i + 1] <= b.forest[i] + 1
  BY <1>1, TreeAssumption
<1>3. Len(b.forest) > 0
  BY <1>2
<1> QED
  BY <1>2, <1>3 DEF IsForest

(* Two rows differ in nothing but their number.                            *)
SameButDoc(r, q) ==
  /\ r.kind = q.kind /\ r.node = q.node /\ r.depth = q.depth
  /\ r.count = q.count /\ r.comma = q.comma
  /\ [r EXCEPT !.doc = 0] = [q EXCEPT !.doc = 0]

(* The documents' numbers are all that flattenForest adds.                 *)
LEMMA NumberedIs ==
  ASSUME NEW b, IsForest(b.forest), NEW R \in Seq(AllRows(b))
  PROVE  /\ Numbered(b.forest, R) \in Seq(AllRows(b))
         /\ Len(Numbered(b.forest, R)) = Len(R)
         /\ \A i \in 1..Len(R) : SameButDoc(Numbered(b.forest, R)[i], R[i])
<1> DEFINE f == b.forest
           N == Numbered(f, R)
           S == Roots(f)
<1>1. S \in SUBSET Nat /\ IsFiniteSet(S)
  <2>1. Nodes(f) \in SUBSET Nat /\ IsFiniteSet(Nodes(f)) /\ S \in SUBSET Nodes(f)
    BY NodesAre DEF Roots
  <2> QED
    BY <2>1, FS_Subset
<1>2. \A x \in S : Rank(S, x) \in Nat
  <2> TAKE x \in S
  <2>1. IsFiniteSet({m \in S : m <= x})
    BY <1>1, FS_Subset
  <2> QED
    BY <2>1, FS_CardinalityType DEF Rank
<1> HIDE DEF S
<1>3. DOMAIN N = 1..Len(R) /\ Len(R) \in Nat
  BY DEF Numbered
<1>4. ASSUME NEW i \in 1..Len(R)
      PROVE  N[i] \in AllRows(b) /\ SameButDoc(N[i], R[i])
  <2>1. R[i] \in AllRows(b)
    OBVIOUS
  <2>2. PICK k \in Nat : N[i] = [R[i] EXCEPT !.doc = k]
    <3>1. CASE R[i].node \in S /\ R[i].kind \in {"leaf", "collapsed", "open"}
      <4>1. N[i] = [R[i] EXCEPT !.doc = Rank(S, R[i].node)]
        BY <3>1 DEF Numbered, S
      <4> QED
        BY <1>2, <3>1, <4>1
    <3>2. CASE ~(R[i].node \in S /\ R[i].kind \in {"leaf", "collapsed", "open"})
      <4>1. N[i] = R[i]
        BY <3>2 DEF Numbered, S
      <4>2. R[i].doc \in Nat /\ R[i] = [R[i] EXCEPT !.doc = R[i].doc]
        BY <2>1 DEF AllRows
      <4> QED
        BY <4>1, <4>2
    <3> QED
      BY <3>1, <3>2
  <2>3. /\ [R[i] EXCEPT !.doc = k] \in AllRows(b)
        /\ SameButDoc([R[i] EXCEPT !.doc = k], R[i])
    BY <2>1 DEF AllRows, SameButDoc
  <2> QED
    BY <2>2, <2>3
<1> HIDE DEF N
<1>5. N \in Seq(AllRows(b)) /\ Len(N) = Len(R)
  <2>1. N = [i \in 1..Len(R) |-> N[i]]
    <3>1. N = [i \in DOMAIN N |-> N[i]]
      BY DEF N, Numbered
    <3> QED
      BY <1>3, <3>1
  <2> QED
    BY <1>3, <1>4, <2>1
<1> QED
  BY <1>4, <1>5 DEF N

(* Rows with the same fields but for the number show the same.             *)
LEMMA StretchNumbered ==
  ASSUME NEW b, IsForest(b.forest), NEW open, NEW lim, NEW D, NEW R \in Seq(AllRows(b)),
         Stretch(b.forest, open, lim, R, D)
  PROVE  Stretch(b.forest, open, lim, Numbered(b.forest, R), D)
<1> DEFINE f == b.forest
           N == Numbered(f, R)
           L == Len(R)
<1>1. Len(N) = L /\ L \in Nat
  BY NumberedIs
<1>2. ASSUME NEW i \in 1..L
      PROVE  /\ N[i].kind = R[i].kind /\ N[i].node = R[i].node
             /\ N[i].depth = R[i].depth /\ N[i].count = R[i].count
             /\ N[i].comma = R[i].comma
  <2>1. SameButDoc(N[i], R[i])
    BY NumberedIs
  <2> QED
    BY <2>1 DEF SameButDoc
<1> HIDE DEF N
<1>3. ASSUME NEW i \in 1..L PROVE Fine(f, open, lim, N, i)
  <2>1. Fine(f, open, lim, R, i)
    BY DEF Stretch
  <2>2. CASE R[i].kind = "open"
    <3>1. PICK j \in 1..L :
            /\ j > i /\ R[j].kind = "close" /\ R[j].node = R[i].node
            /\ \A k \in (i + 1)..(j - 1) :
                 R[k].depth > R[i].depth /\ R[k].node \in Subtree(f, R[i].node)
      BY <2>1, <2>2 DEF Fine, Bracketed
    <3>2. \A k \in (i + 1)..(j - 1) : k \in 1..L
      BY <1>1
    <3>3. \A k \in (i + 1)..(j - 1) :
            N[k].depth > N[i].depth /\ N[k].node \in Subtree(f, N[i].node)
      BY <1>2, <3>1, <3>2
    <3>4. Bracketed(f, N, i)
      BY <1>1, <1>2, <3>1, <3>3 DEF Bracketed
    <3> QED
      BY <1>2, <2>2, <3>4 DEF Fine
  <2>3. CASE R[i].kind = "show-more"
    <3>1. Hides(f, open, lim, R, i)
      BY <2>1, <2>3 DEF Fine
    <3>2. Hides(f, open, lim, N, i)
      BY <1>1, <1>2, <3>1 DEF Hides
    <3> QED
      BY <1>2, <2>3, <3>2 DEF Fine
  <2>4. CASE R[i].kind \notin {"open", "show-more"}
    <3>1. Separated(f, R, i)
      BY <2>1, <2>4 DEF Fine
    <3>2. Separated(f, N, i)
      BY <1>2, <3>1 DEF Separated
    <3> QED
      BY <1>2, <2>4, <3>2 DEF Fine
  <2> QED
    BY <2>2, <2>3, <2>4
<1>4. \A i \in 1..L : \E d \in D : Within(f, open, lim, d, N[i])
  BY <1>2 DEF Stretch, Within
<1>5. \A i, j \in 1..L :
        i < j /\ N[i].kind \in Heads /\ N[j].kind \in Heads => N[i].node < N[j].node
  BY <1>2 DEF Stretch
<1>6. \A d \in D : \A m \in Subtree(f, d) : Below(f, open, lim, d, m) =>
        \E i \in 1..L : N[i].kind \in Heads /\ N[i].node = m
  BY <1>2 DEF Stretch
<1> QED
  BY <1>1, <1>3, <1>4, <1>5, <1>6 DEF Stretch, N

(* The rows on show, the worker's or the viewer's, are flattened from what *)
(* is open and the windows, as a tree or as a forest.                      *)
LEMMA RowsFlattened ==
  ASSUME TreeInv
  PROVE  \E cut : \/ rows = Flatten(body, expanded, limits, cut)
                  \/ rows = Numbered(body.forest, Flatten(body, expanded, limits, cut))
  BY DEF TreeInv, Unclicked, rows, InitialRows, FlattenTree, FlattenForest

(* What the rows on show are.                                              *)
LEMMA RowsStretch ==
  ASSUME TreeInv
  PROVE  /\ rows \in Seq(AllRows(body))
         /\ Stretch(body.forest, expanded, limits, rows, Roots(body.forest))
         /\ ShowsTree(body.forest, expanded, limits, rows)
<1>1. IsForest(body.forest) /\ AreLimits(limits)
  BY BodyForest DEF TreeInv, WindowsTyped
<1>2. PICK cut : \/ rows = Flatten(body, expanded, limits, cut)
                 \/ rows = Numbered(body.forest, Flatten(body, expanded, limits, cut))
  BY RowsFlattened
<1> DEFINE R == Flatten(body, expanded, limits, cut)
<1>3. R \in Seq(AllRows(body)) /\ Stretch(body.forest, expanded, limits, R, Roots(body.forest))
  BY <1>1, FlattenShows
<1> HIDE DEF R
<1>4. rows \in Seq(AllRows(body)) /\ Stretch(body.forest, expanded, limits, rows, Roots(body.forest))
  BY <1>1, <1>2, <1>3, NumberedIs, StretchNumbered DEF R
<1> QED
  BY <1>1, <1>4, StretchShows

(* Where "Show more" can be clicked.                                       *)
LEMMA ClickedMore ==
  ASSUME TreeInv, NEW row \in Range(rows), row.kind = "show-more"
  PROVE  /\ row.node \in Nodes(body.forest)
         /\ {row.node} \cup Ancestors(body.forest, row.node) \subseteq expanded
         /\ Cardinality(Children(body.forest, row.node)) \in Nat
         /\ Window < Cardinality(Children(body.forest, row.node))
<1> DEFINE f == body.forest
           n == row.node
<1>1. IsForest(f) /\ AreLimits(limits)
  BY BodyForest DEF TreeInv, WindowsTyped
<1>2. rows \in Seq(AllRows(body))
  BY RowsStretch
<1>3. PICK i \in 1..Len(rows) : row = rows[i]
  <2>1. DOMAIN rows = 1..Len(rows)
    BY <1>2
  <2> QED
    BY <2>1 DEF Range
<1>4. /\ \E d \in Roots(f) : Within(f, expanded, limits, d, rows[i])
      /\ Fine(f, expanded, limits, rows, i)
  BY RowsStretch DEF Stretch
<1>5. Hides(f, expanded, limits, rows, i)
  BY <1>3, <1>4 DEF Fine
<1>6. n \in expanded /\ Shown(f, n, limits) < Cardinality(Children(f, n))
  BY <1>3, <1>5 DEF Hides, Count
<1>7. n \in Nodes(f)
  <2>1. rows[i] \in AllRows(body)
    BY <1>2
  <2> QED
    BY <1>1, <1>3, <2>1, RowFields
<1>8. Visible(f, expanded, limits, n)
  <2>1. PICK d \in Roots(f) : Within(f, expanded, limits, d, rows[i])
    BY <1>4
  <2> QED
    BY <1>1, <1>3, <2>1, VisibleRoot DEF Within
<1>9. Ancestors(f, n) \subseteq expanded
  BY <1>8, VisibleLets DEF Lets
<1>10. Cardinality(Children(f, n)) \in Nat /\ Window < Cardinality(Children(f, n))
  BY <1>1, <1>6, <1>7, ShownIs
<1> QED
  BY <1>6, <1>7, <1>9, <1>10

(* Raising a window above its first size keeps the windows in order.       *)
LEMMA RaiseKeeps ==
  ASSUME TreeInv, NEW row \in Range(rows), NEW limit \in Nat, Raise(row, limit), Window < limit,
         limit <= Cardinality(Children(body.forest, row.node))
  PROVE  TreeInv'
<1> DEFINE f == body.forest
           n == row.node
<1>1. row.kind = "show-more" /\ treeReady' = TRUE /\ body' = body /\ expanded' = expanded
      /\ limits' = [m \in DOMAIN limits \cup {n} |-> IF m = n THEN limit ELSE limits[m]]
  BY DEF Raise
<1>2. n \in Nodes(f) /\ {n} \cup Ancestors(f, n) \subseteq expanded
  BY <1>1, ClickedMore
<1>3. body' \in Bodies /\ Unclicked'
  BY <1>1 DEF TreeInv, Unclicked
<1>4. DOMAIN limits \subseteq Nodes(f) /\ \A m \in DOMAIN limits : limits[m] \in Nat
  BY DEF TreeInv, WindowsTyped, AreLimits
<1>5. /\ DOMAIN limits' = DOMAIN limits \cup {n}
      /\ \A m \in DOMAIN limits' : limits'[m] = IF m = n THEN limit ELSE limits[m]
  BY <1>1
<1>6. WindowsTyped'
  BY <1>1, <1>2, <1>4, <1>5 DEF WindowsTyped, AreLimits
<1>7. ASSUME NEW m \in DOMAIN limits'
      PROVE  /\ {m} \cup Ancestors(f, m) \subseteq expanded
             /\ limits'[m] > Window /\ limits'[m] <= Cardinality(Children(f, m))
  <2>1. CASE m = n
    <3>1. limit > Window
      BY TreeAssumption
    <3> QED
      BY <1>2, <1>5, <2>1, <3>1
  <2>2. CASE m # n
    BY <1>5, <2>2 DEF TreeInv, WindowsForgotten
  <2> QED
    BY <2>1, <2>2
<1>8. WindowsForgotten'
  BY <1>1, <1>7 DEF WindowsForgotten
<1> QED
  BY <1>3, <1>6, <1>8 DEF TreeInv

(* "Show more" and "Show all".                                             *)
LEMMA MoreKeeps ==
  ASSUME TreeInv, NEW row \in Range(rows), ShowMore(row) \/ ShowAll(row)
  PROVE  TreeInv'
<1> DEFINE n == row.node
           total == Cardinality(Children(body.forest, n))
           current == IF n \in DOMAIN limits THEN limits[n] ELSE Window
           next == Min({current + Window, total})
<1>1. row.kind = "show-more"
  BY DEF ShowMore, ShowAll, Raise
<1>2. total \in Nat /\ Window < total
  BY <1>1, ClickedMore
<1>3. Window \in Nat /\ Window > 0
  BY TreeAssumption
<1>4. current \in Nat /\ Window <= current
  <2>1. CASE n \in DOMAIN limits
    <3>1. limits[n] \in Nat /\ limits[n] > Window
      BY <2>1 DEF TreeInv, WindowsTyped, AreLimits, WindowsForgotten
    <3> QED
      BY <1>3, <2>1, <3>1
  <2>2. CASE n \notin DOMAIN limits
    BY <1>3, <2>2
  <2> QED
    BY <2>1, <2>2
<1>5. CASE ShowMore(row)
  <2>1. Raise(row, next)
    BY <1>5 DEF ShowMore, Total
  <2> HIDE DEF current, total
  <2>2. next \in Nat /\ Window < next /\ next <= total
    <3>1. CASE current + Window <= total
      <4>1. next = current + Window
        BY <1>2, <1>3, <1>4, <3>1, LeastOf
      <4> QED
        BY <1>3, <1>4, <3>1, <4>1
    <3>2. CASE total < current + Window
      <4>1. next = total
        BY <1>2, <1>3, <1>4, <3>2, LeastOf
      <4> QED
        BY <1>2, <4>1
    <3> QED
      BY <1>2, <1>3, <1>4, <3>1, <3>2
  <2> HIDE DEF next
  <2> QED
    BY <2>1, <2>2, RaiseKeeps DEF total
<1>6. CASE ShowAll(row)
  <2>1. Raise(row, total)
    BY <1>6 DEF ShowAll, Total
  <2>2. total <= total
    BY <1>2
  <2> QED
    BY <1>2, <2>1, <2>2, RaiseKeeps
<1> QED
  BY <1>5, <1>6

(* Opening a node, and closing one with what is below it.                  *)
LEMMA ToggleKeeps ==
  ASSUME TreeInv, NEW row, Toggle(row)
  PROVE  TreeInv'
<1> DEFINE f == body.forest
           n == row.node
<1>1. treeReady' = TRUE /\ body' = body /\ expanded' = SymDiff(expanded, {n})
      /\ limits' = IF n \in expanded THEN Restrict(limits, DOMAIN limits \ Subtree(f, n)) ELSE limits
  BY DEF Toggle, Forgotten
<1>2. IsForest(f)
  BY BodyForest DEF TreeInv
<1>3. body' \in Bodies /\ Unclicked'
  BY <1>1 DEF TreeInv, Unclicked
<1>4. /\ DOMAIN limits \subseteq Nodes(f) /\ \A m \in DOMAIN limits : limits[m] \in Nat
      /\ \A m \in DOMAIN limits :
           /\ {m} \cup Ancestors(f, m) \subseteq expanded
           /\ limits[m] > Window /\ limits[m] <= Cardinality(Children(f, m))
  BY DEF TreeInv, WindowsTyped, AreLimits, WindowsForgotten
<1>5. CASE n \in expanded
  <2>1. limits' = [m \in DOMAIN limits \ Subtree(f, n) |-> limits[m]]
    BY <1>1, <1>5 DEF Restrict
  <2>2. /\ DOMAIN limits' = DOMAIN limits \ Subtree(f, n)
        /\ \A m \in DOMAIN limits' : limits'[m] = limits[m] /\ m \in DOMAIN limits
    BY <2>1
  <2>3. \A x \in expanded : x # n => x \in expanded'
    BY <1>1 DEF SymDiff
  <2>4. ASSUME NEW m \in DOMAIN limits' PROVE {m} \cup Ancestors(f, m) \subseteq expanded'
    <3>1. m \in Nodes(f) /\ m \notin Subtree(f, n)
      BY <1>4, <2>2
    <3>2. m # n
      BY <1>2, <3>1, SubtreeIs
    <3>3. \A a \in Ancestors(f, m) : a # n
      BY <3>1 DEF Ancestors
    <3> QED
      BY <1>4, <2>2, <2>3, <3>2, <3>3
  <2>5. WindowsTyped'
    BY <1>1, <1>4, <2>2 DEF WindowsTyped, AreLimits
  <2>6. WindowsForgotten'
    BY <1>1, <1>4, <2>2, <2>4 DEF WindowsForgotten
  <2> QED
    BY <1>3, <2>5, <2>6 DEF TreeInv
<1>6. CASE n \notin expanded
  <2>1. limits' = limits /\ \A x \in expanded : x \in expanded'
    BY <1>1, <1>6 DEF SymDiff
  <2>2. WindowsTyped'
    BY <1>1, <1>4, <2>1 DEF WindowsTyped, AreLimits
  <2>3. WindowsForgotten'
    BY <1>1, <1>4, <2>1 DEF WindowsForgotten
  <2> QED
    BY <1>3, <2>2, <2>3 DEF TreeInv
<1> QED
  BY <1>5, <1>6

(* The invariant holds.                                                    *)
LEMMA TreeInvariant == Spec => []TreeInv
<1>1. Init => TreeInv
  BY DEF Init, TreeInv, Unclicked, WindowsTyped, AreLimits, WindowsForgotten, NoLimits
<1>2. TreeInv /\ [Next]_vars => TreeInv'
  <2> SUFFICES ASSUME TreeInv, [Next]_vars PROVE TreeInv'
    OBVIOUS
  <2>1. CASE NewBody
    BY <2>1 DEF NewBody, TreeInv, Unclicked, WindowsTyped, AreLimits, WindowsForgotten, NoLimits
  <2>2. ASSUME NEW row \in Range(rows), Toggle(row) PROVE TreeInv'
    BY <2>2, ToggleKeeps
  <2>3. ASSUME NEW row \in Range(rows), ShowMore(row) \/ ShowAll(row) PROVE TreeInv'
    BY <2>3, MoreKeeps
  <2>4. ASSUME NEW row \in Range(rows), CopyValue(row) PROVE TreeInv'
    BY <2>4 DEF CopyValue, EnsureForest, TreeInv, Unclicked, WindowsTyped, WindowsForgotten
  <2>5. CASE UNCHANGED vars
    BY <2>5 DEF vars, TreeInv, Unclicked, WindowsTyped, WindowsForgotten
  <2> QED
    BY <2>1, <2>2, <2>3, <2>4, <2>5 DEF Next
<1> QED
  BY <1>1, <1>2, PTL DEF Spec

(* The rows on show are the tree: each visible node heads one row, in      *)
(* document order, brackets enclose what is below a container, one row     *)
(* stands for all that a window hides, and commas are where they belong.   *)
THEOREM RowsAreTheTreeHolds == Spec => []RowsAreTheTree
<1>1. TreeInv => RowsAreTheTree
  BY RowsStretch DEF RowsAreTheTree
<1> QED
  BY <1>1, TreeInvariant, PTL

(* Until the first click, the tree the viewer builds is drawn as the rows  *)
(* that the worker sent, although of a single document only the viewer's   *)
(* first row has a docIndex.                                               *)
THEOREM LazyTreeAgreesHolds == Spec => []LazyTreeAgrees
<1>1. TreeInv => LazyTreeAgrees
  <2> SUFFICES ASSUME TreeInv, ~treeReady
               PROVE  Drawn(body, InitialRows(body))
                        = Drawn(body, FlattenForest(body, expanded, limits, EnsureForest))
    BY DEF LazyTreeAgrees
  <2> DEFINE R == Flatten(body, expanded, limits, EnsureForest)
             N == Numbered(body.forest, R)
  <2>1. /\ FlattenForest(body, expanded, limits, EnsureForest) = N
        /\ InitialRows(body) = IF body.multi THEN N ELSE R
    BY DEF TreeInv, Unclicked, InitialRows, EnsureForest, BuildForest, WorkerCut,
           FlattenTree, FlattenForest
  <2>2. IsForest(body.forest) /\ AreLimits(limits)
    BY BodyForest DEF TreeInv, WindowsTyped
  <2>3. R \in Seq(AllRows(body))
    BY <2>2, FlattenShows
  <2> HIDE DEF R
  <2>4. /\ DOMAIN N = 1..Len(R) /\ DOMAIN R = 1..Len(R)
        /\ \A i \in 1..Len(R) : [N[i] EXCEPT !.doc = 0] = [R[i] EXCEPT !.doc = 0]
    <3>1. DOMAIN N = 1..Len(R) /\ DOMAIN R = 1..Len(R)
      BY <2>3 DEF Numbered
    <3>2. ASSUME NEW i \in 1..Len(R)
          PROVE  [N[i] EXCEPT !.doc = 0] = [R[i] EXCEPT !.doc = 0]
      BY <2>2, <2>3, NumberedIs DEF SameButDoc
    <3> QED
      BY <3>1, <3>2
  <2> HIDE DEF N
  <2>5. CASE body.multi
    BY <2>1, <2>5
  <2>6. CASE ~body.multi
    <3>1. [i \in DOMAIN N |-> [N[i] EXCEPT !.doc = 0]]
            = [i \in DOMAIN R |-> [R[i] EXCEPT !.doc = 0]]
      BY <2>4
    <3> QED
      BY <2>1, <2>6, <3>1 DEF Drawn
  <2> QED
    BY <2>5, <2>6
<1> QED
  BY <1>1, TreeInvariant, PTL

(* A raised window belongs to a container that is open in open containers, *)
(* and is larger than the first window and no larger than the container.   *)
THEOREM WindowsForgottenHolds == Spec => []WindowsForgotten
<1>1. TreeInv => WindowsForgotten
  BY DEF TreeInv
<1> QED
  BY <1>1, TreeInvariant, PTL
=============================================================================
