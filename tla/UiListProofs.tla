---------------------------- MODULE UiListProofs ----------------------------
(***************************************************************************)
(* Proofs about UiList.                                                    *)
(***************************************************************************)
EXTENDS UiList, WellFoundedInduction, FiniteSetTheorems, TLAPS

-----------------------------------------------------------------------------
(* Induction and recursion over an initial segment of the numbers          *)

(* Every non-empty set of natural numbers has a least element.             *)
LEMMA LeastNumber ==
  ASSUME NEW T \in SUBSET Nat, T # {}
  PROVE  \E k \in T : \A j \in T : k <= j
<1> DEFINE R == OpToRel(<, Nat)
<1>1. IsWellFoundedOn(R, Nat)
  BY NatLessThanWellFounded
<1>2. \A j, k \in Nat : j < k => <<j, k>> \in R
  <2>1. R = {ss \in Nat \X Nat : ss[1] < ss[2]}
    BY Zenon DEF OpToRel
  <2> HIDE DEF R
  <2> SUFFICES ASSUME NEW j \in Nat, NEW k \in Nat, j < k
               PROVE  <<j, k>> \in R
    OBVIOUS
  <2>2. <<j, k>> \in Nat \X Nat /\ <<j, k>>[1] = j /\ <<j, k>>[2] = k
    OBVIOUS
  <2> QED
    BY <2>1, <2>2
<1> HIDE DEF R
<1>3. PICK k \in T : \A j \in T : ~(<<j, k>> \in R)
  BY <1>1, WFMin
<1>4. ASSUME NEW j \in T PROVE k <= j
  <2>1. ~(j < k)
    BY <1>2, <1>3
  <2> QED
    BY <2>1
<1> QED
  BY <1>4

(* Induction up to N, for a set of numbers.                                *)
LEMMA UpTo ==
  ASSUME NEW N \in Nat, NEW T, 0 \in T,
         \A n \in 0..N : n < N /\ n \in T => n + 1 \in T
  PROVE  \A n \in 0..N : n \in T
<1> SUFFICES ASSUME NEW n \in 0..N, n \notin T
             PROVE  FALSE
  OBVIOUS
<1> DEFINE Bad == {k \in 0..N : k \notin T}
<1>1. Bad \in SUBSET Nat /\ Bad # {}
  OBVIOUS
<1>2. PICK k \in Bad : \A j \in Bad : k <= j
  BY <1>1, LeastNumber
<1>3. k # 0
  BY <1>2
<1>4. k - 1 \in 0..N /\ k - 1 < N /\ ~(k - 1 \in Bad)
  BY <1>2, <1>3
<1> QED
  BY <1>2, <1>4

(* f follows a recursion that begins at base.                              *)
Follows(f, N, base, step) ==
  f[0] = base /\ \A n \in 1..N : f[n] = step[n][f[n-1]]

(* A function defined by recursion over 0..N exists.                       *)
LEMMA Recursion ==
  ASSUME NEW N \in Nat, NEW X, NEW base \in X, NEW step \in [1..N -> [X -> X]]
  PROVE  \E f \in [0..N -> X] : Follows(f, N, base, step)
<1> DEFINE Good(m) == \E f \in [0..m -> X] : Follows(f, m, base, step)
           T == {m \in Nat : Good(m)}
<1> USE DEF Follows
<1>1. 0 \in T
  <2> DEFINE f == [n \in 0..0 |-> base]
  <2>1. f \in [0..0 -> X] /\ f[0] = base /\ \A n \in 1..0 : f[n] = step[n][f[n-1]]
    OBVIOUS
  <2> QED
    BY <2>1
<1>2. ASSUME NEW m \in 0..N, m < N, m \in T PROVE m + 1 \in T
  <2>1. PICK f \in [0..m -> X] :
           f[0] = base /\ \A n \in 1..m : f[n] = step[n][f[n-1]]
    BY <1>2
  <2> DEFINE g == [n \in 0..(m + 1) |-> IF n = m + 1 THEN step[m + 1][f[m]] ELSE f[n]]
  <2>2. step[m + 1] \in [X -> X] /\ f[m] \in X
    BY <1>2, <2>1
  <2>3. g \in [0..(m + 1) -> X] /\ g[0] = base
    BY <1>2, <2>1, <2>2
  <2>4. ASSUME NEW n \in 1..(m + 1) PROVE g[n] = step[n][g[n-1]]
    BY <1>2, <2>1
  <2>5. Good(m + 1)
    BY <2>3, <2>4
  <2> HIDE DEF Good
  <2> QED
    BY <2>5
<1> HIDE DEF T
<1>3. \A m \in 0..N : m < N /\ m \in T => m + 1 \in T
  BY <1>2
<1>4. \A m \in 0..N : m \in T
  BY <1>1, <1>3, UpTo
<1>5. N \in T
  BY <1>4
<1> QED
  BY <1>5 DEF T

-----------------------------------------------------------------------------
(* Array.filter                                                            *)

(* The recursion behind Kept.                                              *)
KeptBy(s, good) ==
  CHOOSE f : f = [n \in 0..Len(s) |->
                    IF n = 0 THEN <<>>
                    ELSE IF n \in good THEN Append(f[n-1], s[n]) ELSE f[n-1]]

(* It is what the recursion says it is.                                    *)
LEMMA KeptEquation ==
  ASSUME NEW S, NEW s \in Seq(S), NEW good
  PROVE  /\ Kept(s, good) = KeptBy(s, good)[Len(s)]
         /\ KeptBy(s, good)[0] = <<>>
         /\ \A n \in 1..Len(s) :
              KeptBy(s, good)[n] = IF n \in good THEN Append(KeptBy(s, good)[n-1], s[n])
                                   ELSE KeptBy(s, good)[n-1]
<1> DEFINE N == Len(s)
           X == Seq(S)
           none == <<>>
           G(f, n) == IF n = 0 THEN none
                      ELSE IF n \in good THEN Append(f[n-1], s[n]) ELSE f[n-1]
           F(f) == [n \in 0..N |-> G(f, n)]
           row(n) == [t \in X |-> IF n \in good THEN Append(t, s[n]) ELSE t]
           step == [n \in 1..N |-> row(n)]
<1>1. \A n \in 1..N : row(n) \in [X -> X]
  OBVIOUS
<1>2. N \in Nat /\ none \in X /\ \A n \in 1..N : s[n] \in S
  OBVIOUS
<1>3. KeptBy(s, good) = CHOOSE f : f = F(f)
  BY DEF KeptBy
<1>4. Kept(s, good) = KeptBy(s, good)[N]
  BY DEF Kept, KeptBy
<1> HIDE DEF N, row, none, G
<1>5. step \in [1..N -> [X -> X]] /\ \A n \in 1..N : step[n] = row(n)
  BY <1>1
<1> HIDE DEF step, X
<1>6. PICK f \in [0..N -> X] : Follows(f, N, none, step)
  BY <1>2, <1>5, Recursion
<1>7. ASSUME NEW n \in 1..N
      PROVE  f[n] = IF n \in good THEN Append(f[n-1], s[n]) ELSE f[n-1]
  <2>1. f[n-1] \in X
    BY <1>2, <1>6
  <2>2. f[n] = row(n)[f[n-1]]
    BY <1>5, <1>6 DEF Follows
  <2> QED
    BY <2>1, <2>2 DEF row
<1>8. \A n \in 0..N : f[n] = G(f, n)
  <2>1. f[0] = none
    BY <1>6 DEF Follows
  <2>2. \A n \in 0..N : n = 0 \/ n \in 1..N
    BY <1>2
  <2> QED
    BY <1>7, <2>1, <2>2 DEF G
<1>9. f = F(f)
  BY <1>8
<1>10. KeptBy(s, good) = F(KeptBy(s, good))
  BY <1>3, <1>9
<1>11. \A n \in 0..N : KeptBy(s, good)[n] = G(KeptBy(s, good), n)
  BY <1>10
<1> QED
  BY <1>2, <1>4, <1>11 DEF N, G, none

(* t is what stands in the first n places of s at positions in good, in    *)
(* order: pos says where.                                                  *)
PickedAt(pos, t, s, n, good) ==
  /\ pos \in [1..Len(t) -> 1..n]
  /\ \A k \in 1..Len(t) : pos[k] \in good /\ t[k] = s[pos[k]]
  /\ \A j, k \in 1..Len(t) : j < k => pos[j] < pos[k]
  /\ \A i \in 1..n : i \in good => \E k \in 1..Len(t) : pos[k] = i

(* One more place that is in good.                                         *)
LEMMA PickedMore ==
  ASSUME NEW S, NEW s \in Seq(S), NEW good, NEW n \in 1..Len(s), NEW t \in Seq(S),
         NEW pos, PickedAt(pos, t, s, n - 1, good), n \in good
  PROVE  \E q : PickedAt(q, Append(t, s[n]), s, n, good)
<1> DEFINE u == Append(t, s[n])
           L == Len(t)
           q == [k \in 1..(L + 1) |-> IF k = L + 1 THEN n ELSE pos[k]]
<1>1. L \in Nat /\ Len(u) = L + 1 /\ u[L + 1] = s[n] /\ \A k \in 1..L : u[k] = t[k]
  OBVIOUS
<1>2. \A k \in 1..L : pos[k] \in 1..(n - 1) /\ pos[k] \in good /\ t[k] = s[pos[k]]
  BY DEF PickedAt
<1>3. \A j, k \in 1..L : j < k => pos[j] < pos[k]
  BY DEF PickedAt
<1>4. \A i \in 1..(n - 1) : i \in good => \E k \in 1..L : pos[k] = i
  BY DEF PickedAt
<1> HIDE DEF u, L
<1>5. q \in [1..(L + 1) -> 1..n]
  BY <1>1, <1>2
<1>6. \A k \in 1..(L + 1) : q[k] \in good /\ u[k] = s[q[k]]
  BY <1>1, <1>2
<1>7. \A j, k \in 1..(L + 1) : j < k => q[j] < q[k]
  BY <1>1, <1>2, <1>3
<1>8. ASSUME NEW i \in 1..n, i \in good PROVE \E k \in 1..(L + 1) : q[k] = i
  <2>1. CASE i = n
    BY <1>1, <2>1
  <2>2. CASE i # n
    <3>1. PICK k \in 1..L : pos[k] = i
      BY <1>4, <1>8, <2>2
    <3> QED
      BY <1>1, <3>1
  <2> QED
    BY <2>1, <2>2
<1> HIDE DEF q
<1>9. PickedAt(q, u, s, n, good)
  BY <1>1, <1>5, <1>6, <1>7, <1>8 DEF PickedAt
<1> QED
  BY <1>9 DEF u

(* One more place that is not.                                             *)
LEMMA PickedSame ==
  ASSUME NEW S, NEW s \in Seq(S), NEW good, NEW n \in 1..Len(s), NEW t \in Seq(S),
         NEW pos, PickedAt(pos, t, s, n - 1, good), n \notin good
  PROVE  PickedAt(pos, t, s, n, good)
<1>1. pos \in [1..Len(t) -> 1..n]
  BY DEF PickedAt
<1>2. ASSUME NEW i \in 1..n, i \in good PROVE \E k \in 1..Len(t) : pos[k] = i
  <2>1. i \in 1..(n - 1)
    BY <1>2
  <2> QED
    BY <1>2, <2>1 DEF PickedAt
<1> QED
  BY <1>1, <1>2 DEF PickedAt

(* What filter returns.                                                    *)
LEMMA KeptPicks ==
  ASSUME NEW S, NEW s \in Seq(S), NEW good
  PROVE  /\ Kept(s, good) \in Seq(S)
         /\ \E pos : PickedAt(pos, Kept(s, good), s, Len(s), good)
<1> DEFINE K == KeptBy(s, good)
           P(n) == K[n] \in Seq(S) /\ \E pos : PickedAt(pos, K[n], s, n, good)
           T == {n \in 0..Len(s) : P(n)}
<1>1. /\ Kept(s, good) = K[Len(s)] /\ K[0] = <<>>
      /\ \A n \in 1..Len(s) : K[n] = IF n \in good THEN Append(K[n-1], s[n]) ELSE K[n-1]
  BY KeptEquation
<1> HIDE DEF K
<1>2. Len(s) \in Nat
  OBVIOUS
<1>3. P(0)
  <2> DEFINE t == <<>>
             pos == [k \in 1..0 |-> 0]
  <2>1. t \in Seq(S) /\ Len(t) = 0 /\ pos \in [1..0 -> 1..0]
    OBVIOUS
  <2> HIDE DEF t, pos
  <2>2. PickedAt(pos, t, s, 0, good)
    BY <2>1 DEF PickedAt
  <2>3. K[0] = t
    BY <1>1 DEF t
  <2> QED
    BY <2>1, <2>2, <2>3
<1>4. ASSUME NEW n \in 1..Len(s), P(n - 1) PROVE P(n)
  <2> DEFINE t == K[n-1]
  <2>1. t \in Seq(S) /\ s[n] \in S
    BY <1>4
  <2>2. PICK pos : PickedAt(pos, t, s, n - 1, good)
    BY <1>4
  <2>3. K[n] = IF n \in good THEN Append(t, s[n]) ELSE t
    BY <1>1
  <2> HIDE DEF t
  <2>4. CASE n \in good
    <3>1. \E q : PickedAt(q, Append(t, s[n]), s, n, good)
      BY <2>1, <2>2, <2>4, PickedMore
    <3>2. Append(t, s[n]) \in Seq(S)
      BY <2>1
    <3>3. K[n] = Append(t, s[n])
      BY <2>3, <2>4
    <3> QED
      BY <3>1, <3>2, <3>3
  <2>5. CASE n \notin good
    <3>1. PickedAt(pos, t, s, n, good)
      BY <2>1, <2>2, <2>5, PickedSame
    <3>2. K[n] = t
      BY <2>3, <2>5
    <3> QED
      BY <2>1, <3>1, <3>2
  <2> QED
    BY <2>4, <2>5
<1> HIDE DEF P
<1>5. 0 \in T
  BY <1>2, <1>3
<1>6. ASSUME NEW n \in 0..Len(s), n < Len(s), n \in T PROVE n + 1 \in T
  <2>1. n + 1 \in 1..Len(s) /\ (n + 1) - 1 = n
    BY <1>2, <1>6
  <2>2. P(n + 1)
    BY <1>4, <1>6, <2>1
  <2> QED
    BY <2>1, <2>2
<1> HIDE DEF T
<1>7. \A n \in 0..Len(s) : n \in T
  BY <1>2, <1>5, <1>6, UpTo
<1>8. P(Len(s))
  BY <1>2, <1>7 DEF T
<1> QED
  BY <1>1, <1>8 DEF P

-----------------------------------------------------------------------------
(* Helpers on numbers and sequences                                        *)

(* The least number of a set.                                              *)
LEMMA LeastOf ==
  ASSUME NEW S \in SUBSET Int, NEW m \in S, \A y \in S : m <= y
  PROVE  Min(S) = m
<1>1. ASSUME NEW x \in S, \A y \in S : x =< y PROVE x = m
  BY <1>1
<1> QED
  BY <1>1 DEF Min

(* The greatest number of a set.                                           *)
LEMMA GreatestOf ==
  ASSUME NEW S \in SUBSET Int, NEW m \in S, \A y \in S : y <= m
  PROVE  Max(S) = m
<1>1. ASSUME NEW x \in S, \A y \in S : x >= y PROVE x = m
  BY <1>1
<1> QED
  BY <1>1 DEF Max

(* Math.max(0, Math.min(i, n - 1)), counting from 1.                       *)
LEMMA ClampIs ==
  ASSUME NEW n \in Nat, n > 0, NEW i \in Int
  PROVE  Clamp(i, n) = IF i < 1 THEN 1 ELSE IF i > n THEN n ELSE i
<1> DEFINE low == IF i < n THEN i ELSE n
           high == IF low < 1 THEN 1 ELSE low
<1>1. {i, n} \in SUBSET Int /\ low \in {i, n} /\ \A y \in {i, n} : low <= y
  OBVIOUS
<1>2. low \in Int
  OBVIOUS
<1>3. high = IF i < 1 THEN 1 ELSE IF i > n THEN n ELSE i
  OBVIOUS
<1>4. {1, low} \in SUBSET Int /\ high \in {1, low} /\ \A y \in {1, low} : y <= high
  BY <1>2
<1> HIDE DEF low
<1>5. Min({i, n}) = low
  BY <1>1, LeastOf
<1> HIDE DEF high
<1>6. Max({1, low}) = high
  BY <1>4, GreatestOf
<1> QED
  BY <1>3, <1>5, <1>6 DEF Clamp

(* Once round a list of n, from a number below 2n.                         *)
Wrap(x, n) == IF x < n THEN x ELSE x - n

(* It is the remainder.                                                    *)
LEMMA WrapIs ==
  ASSUME NEW n \in Nat, n > 0, NEW x \in 0..(2 * n - 1)
  PROVE  x % n = Wrap(x, n) /\ Wrap(x, n) \in 0..(n - 1)
  BY DEF Wrap

(* [...s].reverse().                                                       *)
LEMMA ReverseIs ==
  ASSUME NEW S, NEW s \in Seq(S)
  PROVE  /\ Reverse(s) \in Seq(S) /\ Len(Reverse(s)) = Len(s)
         /\ \A i \in 1..Len(s) : Reverse(s)[i] = s[(Len(s) - i) + 1]
  BY DEF Reverse

(* Numbers that occur once each, none of them 0.                           *)
Once(ids) == \A i, j \in 1..Len(ids) : ids[i] = ids[j] => i = j
IdList(ids) == ids \in Seq(Nat \ {0}) /\ Once(ids)

(* indexOf finds an id that is there.                                      *)
LEMMA IndexThere ==
  ASSUME NEW ids, IdList(ids), NEW i \in 1..Len(ids)
  PROVE  indexOf(ids, ids[i]) = i
<1>1. DOMAIN ids = 1..Len(ids) /\ \A j \in 1..Len(ids) : ids[j] = ids[i] => j = i
  BY DEF IdList, Once
<1> QED
  BY <1>1 DEF indexOf

(* And 0 stands for one that is not.                                       *)
LEMMA IndexIs ==
  ASSUME NEW ids, IdList(ids), NEW x
  PROVE  \/ indexOf(ids, x) = 0 /\ \A i \in 1..Len(ids) : ids[i] # x
         \/ indexOf(ids, x) \in 1..Len(ids) /\ ids[indexOf(ids, x)] = x
<1>1. DOMAIN ids = 1..Len(ids)
  BY DEF IdList
<1>2. CASE \A i \in 1..Len(ids) : ids[i] # x
  BY <1>1, <1>2 DEF indexOf
<1>3. CASE \E i \in 1..Len(ids) : ids[i] = x
  BY <1>1, <1>3 DEF indexOf
<1> QED
  BY <1>2, <1>3

-----------------------------------------------------------------------------
(* The keys                                                                *)

(* The selections that pressing a key again and again goes through.        *)
WalkBy(ids, delta) ==
  CHOOSE f : f = [k \in 0..Len(ids) |->
                    IF k = 0 THEN 0 ELSE move(ids, f[k-1], delta)]

(* A key selects something of the list, if there is anything.              *)
LEMMA MoveStays ==
  ASSUME NEW ids, IdList(ids), ids # <<>>, NEW x, NEW delta \in {-1, 1}
  PROVE  \E i \in 1..Len(ids) : move(ids, x, delta) = ids[i]
<1>1. Len(ids) \in Nat /\ Len(ids) > 0
  BY DEF IdList
<1>2. CASE indexOf(ids, x) = 0
  <2>1. move(ids, x, delta) = ids[IF delta > 0 THEN 1 ELSE Len(ids)]
    BY <1>2 DEF move
  <2> QED
    BY <1>1, <2>1
<1>3. CASE indexOf(ids, x) # 0
  <2>1. indexOf(ids, x) \in 1..Len(ids)
    BY <1>3, IndexIs
  <2>2. indexOf(ids, x) + delta \in Int
    BY <2>1
  <2>3. Clamp(indexOf(ids, x) + delta, Len(ids)) \in 1..Len(ids)
    BY <1>1, <2>2, ClampIs
  <2>4. move(ids, x, delta) = ids[Clamp(indexOf(ids, x) + delta, Len(ids))]
    BY <1>3 DEF move
  <2> QED
    BY <2>3, <2>4
<1> QED
  BY <1>2, <1>3

(* From a selection in the list a key goes on to its neighbour.            *)
LEMMA MoveOn ==
  ASSUME NEW ids, IdList(ids), NEW i \in 1..Len(ids), NEW delta \in {-1, 1},
         i + delta \in 1..Len(ids)
  PROVE  move(ids, ids[i], delta) = ids[i + delta]
<1>1. Len(ids) \in Nat /\ Len(ids) > 0 /\ ids # <<>>
  BY DEF IdList
<1>2. indexOf(ids, ids[i]) = i
  BY IndexThere
<1>3. move(ids, ids[i], delta) = ids[Clamp(i + delta, Len(ids))]
  BY <1>1, <1>2 DEF move
<1>4. Clamp(i + delta, Len(ids)) = i + delta
  BY <1>1, ClampIs
<1> QED
  BY <1>3, <1>4

(* Without a selection a key enters the list at an end.                    *)
LEMMA MoveIn ==
  ASSUME NEW ids, IdList(ids), ids # <<>>, NEW delta \in {-1, 1}
  PROVE  move(ids, 0, delta) = ids[IF delta > 0 THEN 1 ELSE Len(ids)]
<1>1. \A i \in 1..Len(ids) : ids[i] # 0
  BY DEF IdList
<1>2. indexOf(ids, 0) = 0
  <2>1. ~(indexOf(ids, 0) \in 1..Len(ids) /\ ids[indexOf(ids, 0)] = 0)
    BY <1>1
  <2> QED
    BY <2>1, IndexIs
<1> QED
  BY <1>2 DEF move

(* The recursion is defined.                                               *)
LEMMA WalkEquation ==
  ASSUME NEW ids, IdList(ids), ids # <<>>, NEW delta \in {-1, 1}
  PROVE  /\ WalkBy(ids, delta)[0] = 0
         /\ \A k \in 1..Len(ids) :
              WalkBy(ids, delta)[k] = move(ids, WalkBy(ids, delta)[k-1], delta)
<1> DEFINE N == Len(ids)
           X == Nat
           mv(x) == move(ids, x, delta)
           G(f, k) == IF k = 0 THEN 0 ELSE mv(f[k-1])
           F(f) == [k \in 0..N |-> G(f, k)]
           row == [x \in X |-> mv(x)]
           step == [k \in 1..N |-> row]
<1>1. N \in Nat /\ 0 \in X
  BY DEF IdList
<1>2. ASSUME NEW x \in X PROVE mv(x) \in X
  <2>1. PICK i \in 1..Len(ids) : mv(x) = ids[i]
    BY MoveStays
  <2> QED
    BY <2>1 DEF IdList
<1>3. WalkBy(ids, delta) = CHOOSE f : f = F(f)
  BY DEF WalkBy
<1> HIDE DEF N, X, mv
<1>4. row \in [X -> X] /\ \A x \in X : row[x] = mv(x)
  BY <1>2
<1> HIDE DEF row, G
<1>5. step \in [1..N -> [X -> X]] /\ \A k \in 1..N : step[k] = row
  BY <1>4
<1> HIDE DEF step
<1>6. PICK f \in [0..N -> X] : Follows(f, N, 0, step)
  BY <1>1, <1>5, Recursion
<1>7. f[0] = 0 /\ \A k \in 1..N : f[k] = mv(f[k-1])
  <2>1. ASSUME NEW k \in 1..N PROVE f[k] = mv(f[k-1])
    <3>1. f[k-1] \in X
      BY <1>1, <1>6
    <3> QED
      BY <1>4, <1>5, <1>6, <3>1 DEF Follows
  <2> QED
    BY <1>6, <2>1 DEF Follows
<1>8. \A k \in 0..N : f[k] = G(f, k)
  BY <1>1, <1>7 DEF G
<1>9. f = F(f)
  BY <1>8
<1>10. WalkBy(ids, delta) = F(WalkBy(ids, delta))
  BY <1>3, <1>9
<1>11. \A k \in 0..N : WalkBy(ids, delta)[k] = G(WalkBy(ids, delta), k)
  BY <1>10
<1> QED
  BY <1>1, <1>11 DEF N, G, mv

(* Down, the keys go through the list in its order, and up in the other.   *)
LEMMA WalkIs ==
  ASSUME NEW ids, IdList(ids), NEW k \in 1..Len(ids)
  PROVE  /\ WalkBy(ids, 1)[k] = ids[k]
         /\ WalkBy(ids, -1)[k] = ids[(Len(ids) + 1) - k]
<1> DEFINE N == Len(ids)
           d == WalkBy(ids, 1)
           u == WalkBy(ids, -1)
           P(n) == n = 0 \/ (d[n] = ids[n] /\ u[n] = ids[(N + 1) - n])
           T == {n \in 0..N : P(n)}
<1>1. N \in Nat /\ ids # <<>>
  BY DEF IdList
<1>2. /\ d[0] = 0 /\ \A n \in 1..N : d[n] = move(ids, d[n-1], 1)
      /\ u[0] = 0 /\ \A n \in 1..N : u[n] = move(ids, u[n-1], -1)
  <2>1. d[0] = 0 /\ \A n \in 1..N : d[n] = move(ids, d[n-1], 1)
    BY <1>1, WalkEquation
  <2>2. u[0] = 0 /\ \A n \in 1..N : u[n] = move(ids, u[n-1], -1)
    BY <1>1, WalkEquation
  <2> QED
    BY <2>1, <2>2
<1> HIDE DEF d, u
<1>3. ASSUME NEW n \in 0..N, n < N, P(n) PROVE P(n + 1)
  <2>1. CASE n = 0
    <3>1. d[1] = move(ids, 0, 1) /\ u[1] = move(ids, 0, -1)
      BY <1>2, <1>3, <2>1
    <3>2. d[1] = ids[1] /\ u[1] = ids[N]
      BY <1>1, <3>1, MoveIn
    <3> QED
      BY <2>1, <3>2, <1>1
  <2>2. CASE n # 0
    <3>1. /\ d[n + 1] = move(ids, ids[n], 1)
          /\ u[n + 1] = move(ids, ids[(N + 1) - n], -1)
      <4>1. n + 1 \in 1..N /\ (n + 1) - 1 = n
        BY <1>1, <1>3
      <4> QED
        BY <1>2, <1>3, <2>2, <4>1
    <3>2. move(ids, ids[n], 1) = ids[n + 1]
      BY <1>1, <1>3, <2>2, MoveOn
    <3>3. move(ids, ids[(N + 1) - n], -1) = ids[(N + 1) - (n + 1)]
      <4> DEFINE i == (N + 1) - n
      <4>1. i \in 1..N /\ i + (-1) \in 1..N /\ i + (-1) = (N + 1) - (n + 1)
        BY <1>1, <1>3, <2>2
      <4> HIDE DEF i
      <4>2. move(ids, ids[i], -1) = ids[i + (-1)]
        BY <4>1, MoveOn
      <4> QED
        BY <4>1, <4>2 DEF i
    <3> QED
      BY <3>1, <3>2, <3>3
  <2> QED
    BY <2>1, <2>2
<1>4. P(0)
  OBVIOUS
<1> HIDE DEF P
<1>5. 0 \in T
  BY <1>1, <1>4
<1>6. \A n \in 0..N : n < N /\ n \in T => n + 1 \in T
  BY <1>1, <1>3
<1> HIDE DEF T
<1>7. \A n \in 0..N : n \in T
  BY <1>1, <1>5, <1>6, UpTo
<1>8. P(k)
  BY <1>1, <1>7 DEF T
<1> QED
  BY <1>8 DEF P, d, u

-----------------------------------------------------------------------------
(* Next matching, next in trace                                            *)

(* The position j places after position c, once round a list of n.         *)
After(c, j, n) == Wrap((c - 1) + j, n) + 1

(* It is a position.                                                       *)
LEMMA AfterIs ==
  ASSUME NEW n \in Nat, n > 0, NEW c \in 0..n, NEW j \in 1..n
  PROVE  /\ After(c, j, n) \in 1..n
         /\ ((c - 1 + j) % n) + 1 = After(c, j, n)
<1>1. (c - 1) + j \in 0..(2 * n - 1)
  OBVIOUS
<1>2. ((c - 1) + j) % n = Wrap((c - 1) + j, n) /\ Wrap((c - 1) + j, n) \in 0..(n - 1)
  BY <1>1, WrapIs
<1> QED
  BY <1>2 DEF After

(* Going m places and then i is going m + i places.                        *)
LEMMA AfterAfter ==
  ASSUME NEW n \in Nat, n > 0, NEW c \in 0..n, NEW m \in 1..n, NEW i \in 1..n,
         m + i <= n
  PROVE  After(After(c, m, n), i, n) = After(c, m + i, n)
  BY DEF After, Wrap

(* Every position is so many places away.                                  *)
LEMMA AfterOnto ==
  ASSUME NEW n \in Nat, n > 0, NEW c \in 0..n, NEW p \in 1..n
  PROVE  \E j \in 1..n : After(c, j, n) = p
<1> DEFINE j == IF p > c THEN p - c ELSE (n + p) - c
<1>1. j \in 1..n /\ After(c, j, n) = p
  BY DEF After, Wrap
<1> QED
  BY <1>1

(* The search stops at the first of the set.                               *)
LEMMA NextIs ==
  ASSUME NEW ids, IdList(ids), NEW cur, NEW good, NEW c, c = indexOf(ids, cur),
         NEW m \in 1..Len(ids), ids[After(c, m, Len(ids))] \in good,
         \A k \in 1..Len(ids) : k < m => ids[After(c, k, Len(ids))] \notin good
  PROVE  nextWhere(ids, cur, good) = ids[After(c, m, Len(ids))]
<1> DEFINE n == Len(ids)
           at(k) == ids[((indexOf(ids, cur) - 1 + k) % n) + 1]
           hits == {k \in 1..n : at(k) \in good}
<1>1. n \in Nat /\ n > 0 /\ c \in 0..n
  <2>1. n \in Nat
    BY DEF IdList
  <2>2. c = 0 \/ c \in 1..n
    BY IndexIs
  <2> QED
    BY <2>1, <2>2
<1>2. ASSUME NEW k \in 1..n PROVE at(k) = ids[After(c, k, n)]
  <2>1. ((c - 1 + k) % n) + 1 = After(c, k, n)
    BY <1>1, AfterIs
  <2> QED
    BY <2>1
<1>3. nextWhere(ids, cur, good) = IF hits = {} THEN cur ELSE at(Min(hits))
  BY Zenon DEF nextWhere
<1> HIDE DEF n, at
<1>4. m \in hits /\ hits \in SUBSET Int /\ \A k \in hits : m <= k
  BY <1>1, <1>2 DEF n
<1> HIDE DEF hits
<1>5. Min(hits) = m
  BY <1>4, LeastOf
<1> QED
  BY <1>1, <1>2, <1>3, <1>4, <1>5 DEF n

(* Without any the selection stays.                                        *)
LEMMA NextStays ==
  ASSUME NEW ids, IdList(ids), NEW cur, NEW good,
         \A i \in 1..Len(ids) : ids[i] \notin good
  PROVE  nextWhere(ids, cur, good) = cur
<1> DEFINE n == Len(ids)
           c == indexOf(ids, cur)
           at(k) == ids[((c - 1 + k) % n) + 1]
           hits == {k \in 1..n : at(k) \in good}
<1>1. n \in Nat /\ c \in 0..n
  <2>1. n \in Nat
    BY DEF IdList
  <2>2. c = 0 \/ c \in 1..n
    BY IndexIs
  <2> QED
    BY <2>1, <2>2
<1>2. ASSUME NEW k \in 1..n PROVE at(k) \notin good
  <2> n > 0
    BY <1>1
  <2>1. ((c - 1 + k) % n) + 1 = After(c, k, n) /\ After(c, k, n) \in 1..n
    BY <1>1, AfterIs
  <2> QED
    BY <2>1
<1>3. nextWhere(ids, cur, good) = IF hits = {} THEN cur ELSE at(Min(hits))
  BY Zenon DEF nextWhere
<1>4. hits = {}
  BY <1>2
<1> QED
  BY <1>3, <1>4

(* The search ends at the selection or at one of the set in the list.      *)
LEMMA NextFinds ==
  ASSUME NEW ids, IdList(ids), NEW cur, NEW good,
         NEW p \in 1..Len(ids), ids[p] \in good
  PROVE  \E i \in 1..Len(ids) : ids[i] \in good /\ nextWhere(ids, cur, good) = ids[i]
<1> DEFINE n == Len(ids)
           c == indexOf(ids, cur)
           H == {k \in 1..n : ids[After(c, k, n)] \in good}
<1>1. n \in Nat /\ n > 0 /\ c \in 0..n
  <2>1. n \in Nat
    BY DEF IdList
  <2>2. c = 0 \/ c \in 1..n
    BY IndexIs
  <2> QED
    BY <2>1, <2>2
<1>2. PICK j \in 1..n : After(c, j, n) = p
  BY <1>1, AfterOnto
<1>3. H \in SUBSET Nat /\ H # {}
  BY <1>1, <1>2
<1>4. PICK m \in H : \A k \in H : m <= k
  BY <1>3, LeastNumber
<1>5. \A k \in 1..n : k < m => ids[After(c, k, n)] \notin good
  BY <1>1, <1>4
<1>6. nextWhere(ids, cur, good) = ids[After(c, m, n)]
  BY <1>1, <1>4, <1>5, NextIs
<1>7. After(c, m, n) \in 1..n
  BY <1>1, <1>4, AfterIs
<1> QED
  BY <1>4, <1>6, <1>7

(* The selections that "next" pressed again and again goes through.        *)
RoundBy(ids, cur, good) ==
  CHOOSE f : f = [k \in 0..Len(ids) |->
                    IF k = 0 THEN cur ELSE nextWhere(ids, f[k-1], good)]

(* The recursion is defined.                                               *)
LEMMA RoundEquation ==
  ASSUME NEW ids, IdList(ids), NEW cur, NEW good
  PROVE  /\ RoundBy(ids, cur, good)[0] = cur
         /\ \A k \in 1..Len(ids) :
              RoundBy(ids, cur, good)[k] = nextWhere(ids, RoundBy(ids, cur, good)[k-1], good)
<1> DEFINE N == Len(ids)
           X == {ids[i] : i \in 1..N} \cup {cur}
           mv(x) == nextWhere(ids, x, good)
           G(f, k) == IF k = 0 THEN cur ELSE mv(f[k-1])
           F(f) == [k \in 0..N |-> G(f, k)]
           row == [x \in X |-> mv(x)]
           step == [k \in 1..N |-> row]
<1>1. N \in Nat /\ cur \in X
  BY DEF IdList
<1>2. ASSUME NEW x \in X PROVE mv(x) \in X
  <2>1. CASE \A i \in 1..Len(ids) : ids[i] \notin good
    <3>1. mv(x) = x
      BY <2>1, NextStays
    <3> QED
      BY <3>1
  <2>2. CASE \E i \in 1..Len(ids) : ids[i] \in good
    <3>1. PICK p \in 1..Len(ids) : ids[p] \in good
      BY <2>2
    <3>2. PICK i \in 1..Len(ids) : mv(x) = ids[i]
      BY <3>1, NextFinds
    <3> QED
      BY <3>2
  <2> QED
    BY <2>1, <2>2
<1>3. RoundBy(ids, cur, good) = CHOOSE f : f = F(f)
  BY DEF RoundBy
<1> HIDE DEF N, X, mv
<1>4. row \in [X -> X] /\ \A x \in X : row[x] = mv(x)
  BY <1>2
<1> HIDE DEF row, G
<1>5. step \in [1..N -> [X -> X]] /\ \A k \in 1..N : step[k] = row
  BY <1>4
<1> HIDE DEF step
<1>6. PICK f \in [0..N -> X] : Follows(f, N, cur, step)
  BY <1>1, <1>5, Recursion
<1>7. f[0] = cur /\ \A k \in 1..N : f[k] = mv(f[k-1])
  <2>1. ASSUME NEW k \in 1..N PROVE f[k] = mv(f[k-1])
    <3>1. f[k-1] \in X
      BY <1>1, <1>6
    <3> QED
      BY <1>4, <1>5, <1>6, <3>1 DEF Follows
  <2> QED
    BY <1>6, <2>1 DEF Follows
<1>8. \A k \in 0..N : f[k] = G(f, k)
  BY <1>1, <1>7 DEF G
<1>9. f = F(f)
  BY <1>8
<1>10. RoundBy(ids, cur, good) = F(RoundBy(ids, cur, good))
  BY <1>3, <1>9
<1>11. \A k \in 0..N : RoundBy(ids, cur, good)[k] = G(RoundBy(ids, cur, good), k)
  BY <1>10
<1> QED
  BY <1>1, <1>11 DEF N, G, mv

(* Going round comes by everything of the set that is in the list: after   *)
(* the first j places everything there has been selected, and the last of  *)
(* it is where the search stands.                                          *)
LEMMA RoundCovers ==
  ASSUME NEW ids, IdList(ids), NEW cur, NEW good,
         NEW p \in 1..Len(ids), ids[p] \in good
  PROVE  \E k \in 1..Len(ids) : RoundBy(ids, cur, good)[k] = ids[p]
<1> DEFINE n == Len(ids)
           c == indexOf(ids, cur)
           r == RoundBy(ids, cur, good)
           at(j) == ids[After(c, j, n)]
           Hit(j) == at(j) \in good
           None0(j) == \A i \in 1..n : i <= j => ~Hit(i)
           LastHit(m, j) == Hit(m) /\ m <= j /\ \A i \in 1..n : i <= j /\ Hit(i) => i <= m
           P(j) == \/ None0(j)
                   \/ \E m, k \in 1..n : LastHit(m, j) /\ k <= j /\ r[k] = at(m)
           Q(j) == \A i \in 1..n : i <= j /\ Hit(i) => \E k \in 1..n : r[k] = at(i)
           T == {j \in 0..n : P(j) /\ Q(j)}
<1>1. n \in Nat /\ n > 0 /\ c \in 0..n
  <2>1. n \in Nat
    BY DEF IdList
  <2>2. c = 0 \/ c \in 1..n
    BY IndexIs
  <2> QED
    BY <2>1, <2>2
<1>2. r[0] = cur /\ \A k \in 1..n : r[k] = nextWhere(ids, r[k-1], good)
  BY RoundEquation
<1>3. \A j \in 1..n : After(c, j, n) \in 1..n
  BY <1>1, AfterIs
<1> HIDE DEF r
<1>4. ASSUME NEW j \in 1..n, P(j - 1), Hit(j)
      PROVE  \E k \in 1..n : k <= j /\ r[k] = at(j)
  <2>1. CASE None0(j - 1)
    <3>1. r[1] = nextWhere(ids, cur, good)
      BY <1>1, <1>2
    <3>2. \A i \in 1..n : i < j => ids[After(c, i, n)] \notin good
      BY <1>1, <2>1
    <3>3. nextWhere(ids, cur, good) = at(j)
      BY <1>4, <3>2, NextIs
    <3> QED
      BY <1>1, <3>1, <3>3
  <2>2. ASSUME NEW m \in 1..n, NEW k \in 1..n, LastHit(m, j - 1), k <= j - 1, r[k] = at(m)
        PROVE  \E l \in 1..n : l <= j /\ r[l] = at(j)
    <3> DEFINE d == After(c, m, n)
               e == j - m
    <3>1. d \in 1..n /\ indexOf(ids, ids[d]) = d
      BY <1>3, IndexThere
    <3>2. r[k + 1] = nextWhere(ids, ids[d], good)
      <4>1. k + 1 \in 1..n /\ (k + 1) - 1 = k
        BY <1>1, <2>2
      <4> QED
        BY <1>2, <2>2, <4>1
    <3>3. e \in 1..n /\ m + e = j
      BY <1>1, <2>2
    <3>4. ASSUME NEW i \in 1..n, i <= e PROVE After(d, i, n) = After(c, m + i, n)
      <4>1. m + i <= n
        BY <1>1, <3>3, <3>4
      <4> QED
        BY <1>1, <4>1, AfterAfter
    <3>5. ids[After(d, e, n)] = at(j)
      BY <3>3, <3>4
    <3>6. ASSUME NEW i \in 1..n, i < e PROVE ids[After(d, i, n)] \notin good
      <4>1. m + i \in 1..n /\ m + i <= j - 1 /\ ~(m + i <= m)
        BY <1>1, <3>3, <3>6
      <4>2. ~Hit(m + i)
        BY <2>2, <4>1
      <4>3. After(d, i, n) = After(c, m + i, n)
        BY <3>3, <3>4, <3>6
      <4> QED
        BY <4>2, <4>3
    <3> HIDE DEF d, e
    <3>7. nextWhere(ids, ids[d], good) = ids[After(d, e, n)]
      BY <1>4, <3>1, <3>3, <3>5, <3>6, NextIs
    <3>8. k + 1 \in 1..n /\ k + 1 <= j
      BY <1>1, <2>2
    <3> QED
      BY <3>2, <3>5, <3>7, <3>8
  <2> QED
    BY <1>4, <2>1, <2>2
<1>5. ASSUME NEW j \in 1..n, P(j - 1), Q(j - 1) PROVE P(j) /\ Q(j)
  <2>1. CASE Hit(j)
    <3>1. PICK k \in 1..n : k <= j /\ r[k] = at(j)
      BY <1>4, <1>5, <2>1
    <3>2. LastHit(j, j)
      BY <1>1, <2>1
    <3>3. P(j)
      BY <3>1, <3>2
    <3>4. ASSUME NEW i \in 1..n, i <= j, Hit(i) PROVE \E l \in 1..n : r[l] = at(i)
      <4>1. CASE i = j
        BY <3>1, <4>1
      <4>2. CASE i # j
        <5>1. i <= j - 1
          BY <1>1, <3>4, <4>2
        <5> QED
          BY <1>5, <3>4, <5>1
      <4> QED
        BY <4>1, <4>2
    <3> QED
      BY <3>3, <3>4
  <2>2. CASE ~Hit(j)
    <3>1. \A i \in 1..n : i <= j /\ Hit(i) => i <= j - 1
      BY <1>1, <2>2
    <3>2. Q(j)
      BY <1>5, <3>1
    <3>3. CASE None0(j - 1)
      <4>1. None0(j)
        BY <3>1, <3>3
      <4> QED
        BY <3>2, <4>1
    <3>4. ASSUME NEW m \in 1..n, NEW k \in 1..n, LastHit(m, j - 1), k <= j - 1, r[k] = at(m)
          PROVE  P(j)
      <4>1. LastHit(m, j) /\ k <= j
        BY <1>1, <3>1, <3>4
      <4> QED
        BY <3>4, <4>1
    <3> QED
      BY <1>5, <3>2, <3>3, <3>4
  <2> QED
    BY <2>1, <2>2
<1>6. P(0) /\ Q(0)
  BY <1>1
<1> HIDE DEF P, Q
<1>7. 0 \in T
  BY <1>1, <1>6
<1>8. ASSUME NEW j \in 0..n, j < n, j \in T PROVE j + 1 \in T
  <2>1. j + 1 \in 1..n /\ (j + 1) - 1 = j
    BY <1>1, <1>8
  <2>2. P((j + 1) - 1) /\ Q((j + 1) - 1)
    BY <1>8, <2>1
  <2>3. P(j + 1) /\ Q(j + 1)
    BY <1>5, <2>1, <2>2
  <2> QED
    BY <2>1, <2>3
<1> HIDE DEF T
<1>9. \A j \in 0..n : j \in T
  BY <1>1, <1>7, <1>8, UpTo
<1>10. Q(n)
  BY <1>1, <1>9 DEF T
<1>11. PICK i \in 1..n : After(c, i, n) = p
  BY <1>1, AfterOnto
<1>12. i <= n /\ Hit(i) /\ at(i) = ids[p]
  BY <1>1, <1>11
<1> QED
  BY <1>10, <1>12 DEF Q, r

(* Without anything of the set in the list the selection stays for good.   *)
LEMMA RoundStays ==
  ASSUME NEW ids, IdList(ids), NEW cur, NEW good,
         \A i \in 1..Len(ids) : ids[i] \notin good
  PROVE  \A k \in 0..Len(ids) : RoundBy(ids, cur, good)[k] = cur
<1> DEFINE n == Len(ids)
           r == RoundBy(ids, cur, good)
           T == {k \in 0..n : r[k] = cur}
<1>1. n \in Nat
  BY DEF IdList
<1>2. r[0] = cur /\ \A k \in 1..n : r[k] = nextWhere(ids, r[k-1], good)
  BY RoundEquation
<1>3. nextWhere(ids, cur, good) = cur
  BY NextStays
<1> HIDE DEF r, n
<1>4. 0 \in T
  BY <1>1, <1>2
<1>5. ASSUME NEW k \in 0..n, k < n, k \in T PROVE k + 1 \in T
  <2>1. k + 1 \in 1..n /\ (k + 1) - 1 = k
    BY <1>1, <1>5
  <2>2. r[k + 1] = nextWhere(ids, r[k], good)
    BY <1>2, <2>1
  <2> QED
    BY <1>3, <1>5, <2>1, <2>2
<1>6. \A k \in 0..n : k \in T
  <2> HIDE DEF T
  <2> QED
    BY <1>1, <1>4, <1>5, UpTo
<1> QED
  BY <1>6 DEF n, r

RoundTrip(ids, cur, good) ==
  ToSet(ids) \cap good
    = {RoundBy(ids, cur, good)[k] : k \in DOMAIN ids} \ ({cur} \ ToSet(ids))

(* What going round selects is what the list has of the set.               *)
LEMMA RoundIs ==
  ASSUME NEW ids, IdList(ids), NEW cur, NEW good, cur \in good
  PROVE  RoundTrip(ids, cur, good)
<1> DEFINE n == Len(ids)
           r == RoundBy(ids, cur, good)
<1>1. n \in Nat /\ DOMAIN ids = 1..n
  BY DEF IdList
<1>2. ToSet(ids) = {ids[i] : i \in 1..n}
  BY <1>1 DEF ToSet
<1>3. CASE \A i \in 1..n : ids[i] \notin good
  <2>1. ToSet(ids) \cap good = {} /\ cur \notin ToSet(ids)
    BY <1>2, <1>3
  <2>2. \A k \in 1..n : r[k] = cur
    BY <1>1, <1>3, RoundStays
  <2> HIDE DEF r
  <2> QED
    BY <1>1, <2>1, <2>2 DEF r, RoundTrip
<1>4. CASE \E i \in 1..n : ids[i] \in good
  <2>1. ASSUME NEW x \in ToSet(ids), x \in good PROVE \E k \in 1..n : x = r[k]
    <3>1. PICK p \in 1..n : x = ids[p]
      BY <1>2
    <3>2. \E k \in 1..n : r[k] = ids[p]
      BY <2>1, <3>1, RoundCovers
    <3> QED
      BY <3>1, <3>2
  <2>2. ASSUME NEW k \in 1..n PROVE r[k] \in ToSet(ids) /\ r[k] \in good
    <3>1. r[k] = nextWhere(ids, r[k-1], good)
      BY RoundEquation
    <3>2. PICK p \in 1..n : ids[p] \in good
      BY <1>4
    <3>3. PICK i \in 1..n : ids[i] \in good /\ nextWhere(ids, r[k-1], good) = ids[i]
      BY <3>2, NextFinds
    <3> QED
      BY <1>2, <3>1, <3>3
  <2> HIDE DEF r
  <2> QED
    BY <1>1, <2>1, <2>2 DEF r, RoundTrip
<1> QED
  BY <1>3, <1>4

-----------------------------------------------------------------------------
(* The list                                                                *)

ExchangeRow == [id : Nat, path : {k.path : k \in Kinds},
                trace : {k.trace : k \in Kinds}, status : BOOLEAN]

(* Every exchange of s has its own id, an id that has been given out.      *)
OwnIds(s) == \A i, j \in 1..Len(s) : s[i].id = s[j].id => i = j
GivenIds(s) == \A i \in 1..Len(s) : s[i].id \in 1..arrived

RowList(s) == s \in Seq(ExchangeRow) /\ OwnIds(s) /\ GivenIds(s)

(* The store's exchanges are rows of the list, and the selection is one of *)
(* them: an eviction spares it.                                            *)
ListInv ==
  /\ arrived \in Nat
  /\ RowList(exchanges)
  /\ selectedId = 0 \/ \E i \in 1..Len(exchanges) : exchanges[i].id = selectedId

Matches(ex, f, t) == matchesFilter(ex, f) /\ (t = None \/ ex.trace = t)

(* The visible exchanges are those of the store that match.                *)
LEMMA VisibleIs ==
  ASSUME RowList(exchanges), arrived \in Nat, NEW f, NEW t, NEW o
  PROVE  LET V == selectVisible(f, t, o) IN
         /\ RowList(V)
         /\ \A k \in 1..Len(V) : \E i \in 1..Len(exchanges) : V[k] = exchanges[i]
         /\ \A i \in 1..Len(exchanges) :
              Matches(exchanges[i], f, t) => \E k \in 1..Len(V) : V[k] = exchanges[i]
<1> DEFINE L == Len(exchanges)
           shown == {i \in DOMAIN exchanges : Matches(exchanges[i], f, t)}
           W == Kept(exchanges, shown)
           V == selectVisible(f, t, o)
<1>1. exchanges \in Seq(ExchangeRow) /\ L \in Nat /\ DOMAIN exchanges = 1..L
  BY DEF RowList
<1>2. V = IF o = "newest" THEN Reverse(W) ELSE W
  BY DEF selectVisible, Matches
<1> HIDE DEF V
<1>3. W \in Seq(ExchangeRow)
  <2> HIDE DEF shown
  <2> QED
    BY <1>1, KeptPicks
<1>4. PICK pos : PickedAt(pos, W, exchanges, L, shown)
  <2> HIDE DEF shown
  <2> QED
    BY <1>1, KeptPicks
<1> HIDE DEF W
<1>5. /\ pos \in [1..Len(W) -> 1..L]
      /\ \A k \in 1..Len(W) : W[k] = exchanges[pos[k]]
      /\ \A j, k \in 1..Len(W) : j < k => pos[j] < pos[k]
      /\ \A i \in 1..L : i \in shown => \E k \in 1..Len(W) : pos[k] = i
  <2> HIDE DEF shown
  <2> QED
    BY <1>4 DEF PickedAt
<1>6. RowList(W)
  <2>1. ASSUME NEW j \in 1..Len(W), NEW k \in 1..Len(W), W[j].id = W[k].id PROVE j = k
    <3>1. exchanges[pos[j]].id = exchanges[pos[k]].id /\ pos[j] \in 1..L /\ pos[k] \in 1..L
      BY <1>5, <2>1
    <3>2. pos[j] = pos[k]
      BY <3>1 DEF RowList, OwnIds
    <3>3. Len(W) \in Nat
      BY <1>3
    <3>4. ~(j < k) /\ ~(k < j)
      BY <1>1, <1>5, <3>2
    <3> QED
      BY <3>3, <3>4
  <2>2. GivenIds(W)
    BY <1>5 DEF RowList, GivenIds
  <2> QED
    BY <1>3, <2>1, <2>2 DEF RowList, OwnIds
<1>7. \A k \in 1..Len(W) : \E i \in 1..L : W[k] = exchanges[i]
  BY <1>5
<1>8. \A i \in 1..L : Matches(exchanges[i], f, t) => \E k \in 1..Len(W) : W[k] = exchanges[i]
  BY <1>1, <1>5
<1>9. CASE o # "newest"
  BY <1>2, <1>6, <1>7, <1>8, <1>9 DEF V
<1>10. CASE o = "newest"
  <2>1. V = Reverse(W) /\ V \in Seq(ExchangeRow) /\ Len(V) = Len(W) /\ Len(W) \in Nat
    BY <1>2, <1>3, <1>10, ReverseIs
  <2>2. \A i \in 1..Len(W) : V[i] = W[(Len(W) - i) + 1]
    BY <1>3, <2>1, ReverseIs
  <2>3. OwnIds(V)
    <3> SUFFICES ASSUME NEW j \in 1..Len(W), NEW k \in 1..Len(W), V[j].id = V[k].id
                 PROVE  j = k
      BY <2>1 DEF OwnIds
    <3> DEFINE a == (Len(W) - j) + 1
               b == (Len(W) - k) + 1
    <3>1. a \in 1..Len(W) /\ b \in 1..Len(W) /\ (a = b => j = k)
      BY <2>1
    <3>2. W[a].id = W[b].id
      BY <2>2
    <3> HIDE DEF a, b
    <3> QED
      BY <1>6, <3>1, <3>2 DEF RowList, OwnIds
  <2>3a. \A k \in 1..Len(V) : (Len(W) - k) + 1 \in 1..Len(W)
    BY <2>1
  <2>4. GivenIds(V)
    BY <1>6, <2>1, <2>2, <2>3a DEF RowList, GivenIds
  <2>5. \A k \in 1..Len(V) : \E i \in 1..L : V[k] = exchanges[i]
    BY <1>7, <2>1, <2>2, <2>3a
  <2>6. ASSUME NEW i \in 1..L, Matches(exchanges[i], f, t)
        PROVE  \E k \in 1..Len(V) : V[k] = exchanges[i]
    <3>1. PICK k \in 1..Len(W) : W[k] = exchanges[i]
      BY <1>8, <2>6
    <3> DEFINE l == (Len(W) - k) + 1
    <3>2. l \in 1..Len(V) /\ (Len(W) - l) + 1 = k
      BY <2>1
    <3> QED
      BY <2>1, <2>2, <3>1, <3>2
  <2> QED
    BY <2>1, <2>3, <2>4, <2>5, <2>6 DEF RowList, V
<1> QED
  BY <1>9, <1>10

(* The visible ids.                                                        *)
LEMMA VisibleIdsAre ==
  ASSUME ListInv
  PROVE  /\ RowList(selectVisibleExchanges)
         /\ Len(selectVisibleIds) = Len(selectVisibleExchanges)
         /\ \A i \in 1..Len(selectVisibleExchanges) :
              selectVisibleIds[i] = selectVisibleExchanges[i].id
         /\ IdList(selectVisibleIds)
         /\ DOMAIN selectVisibleIds = 1..Len(selectVisibleExchanges)
<1> DEFINE V == selectVisibleExchanges
           ids == selectVisibleIds
<1>1. RowList(V)
  BY VisibleIs DEF ListInv, selectVisibleExchanges
<1>2. ids = [i \in DOMAIN V |-> V[i].id]
  BY DEF selectVisibleIds
<1> HIDE DEF V, ids
<1>3. V \in Seq(ExchangeRow) /\ Len(V) \in Nat /\ DOMAIN V = 1..Len(V)
  BY <1>1 DEF RowList
<1>4. \A i \in 1..Len(V) : V[i].id \in Nat \ {0}
  <2>1. \A i \in 1..Len(V) : V[i].id \in 1..arrived
    BY <1>1 DEF RowList, GivenIds
  <2> QED
    BY <2>1 DEF ListInv
<1>5. ids \in [1..Len(V) -> Nat \ {0}] /\ \A i \in 1..Len(V) : ids[i] = V[i].id
  BY <1>2, <1>3, <1>4
<1>6. ids \in Seq(Nat \ {0}) /\ Len(ids) = Len(V) /\ DOMAIN ids = 1..Len(V)
  BY <1>3, <1>5
<1>7. Once(ids)
  BY <1>1, <1>5, <1>6 DEF Once, RowList, OwnIds
<1> QED
  BY <1>1, <1>5, <1>6, <1>7 DEF V, ids, IdList

(* Find returns the exchange with an id.                                   *)
LEMMA FindIs ==
  ASSUME ListInv, NEW i \in 1..Len(exchanges)
  PROVE  Find(exchanges[i].id) = exchanges[i] /\ exchanges[i].id \in HeldIds
<1>1. DOMAIN exchanges = 1..Len(exchanges)
  BY DEF ListInv, RowList
<1>2. \A j \in 1..Len(exchanges) : exchanges[j].id = exchanges[i].id => j = i
  BY DEF ListInv, RowList, OwnIds
<1> QED
  BY <1>1, <1>2 DEF Find, HeldIds

(* The keys and "next matching" reach everything.                          *)
LEMMA NavigationFollows ==
  ASSUME ListInv PROVE NavigationComplete
<1> DEFINE ids == selectVisibleIds
           good == SamePath(selectedId)
<1>1. IdList(ids) /\ DOMAIN ids = 1..Len(ids)
  BY VisibleIdsAre
<1>2. ASSUME NEW k \in DOMAIN ids
      PROVE  /\ WalkBy(ids, 1)[k] = ids[k]
             /\ WalkBy(ids, -1)[k] = ids[Len(ids) + 1 - k]
  BY <1>1, WalkIs
<1>3. ASSUME selectedId # 0
      PROVE  RoundTrip(ids, selectedId, good)
  <2>1. selectedId \in HeldIds
    BY <1>3, FindIs DEF ListInv
  <2>2. selectedId \in good
    BY <2>1 DEF SamePath
  <2> HIDE DEF ids, good
  <2> QED
    BY <1>1, <2>2, RoundIs
<1> QED
  BY <1>2, <1>3, Zenon DEF NavigationComplete, WalkBy, RoundBy, RoundTrip

-----------------------------------------------------------------------------
(* The steps                                                               *)

(* One sequence after another.                                             *)
LEMMA ConcatIs ==
  ASSUME NEW S, NEW a \in Seq(S), NEW b \in Seq(S)
  PROVE  /\ a \o b \in Seq(S) /\ Len(a \o b) = Len(a) + Len(b)
         /\ \A k \in 1..Len(a) : (a \o b)[k] = a[k]
         /\ \A k \in 1..Len(b) : (a \o b)[Len(a) + k] = b[k]
  OBVIOUS

(* s.filter((_, k) => k !== i).                                            *)
LEMMA RemoveIs ==
  ASSUME NEW S, NEW s \in Seq(S), NEW i \in 1..Len(s)
  PROVE  /\ RemoveAt(s, i) \in Seq(S) /\ Len(RemoveAt(s, i)) = Len(s) - 1
         /\ \A k \in 1..(Len(s) - 1) :
              RemoveAt(s, i)[k] = IF k < i THEN s[k] ELSE s[k + 1]
<1> DEFINE a == SubSeq(s, 1, i - 1)
           b == SubSeq(s, i + 1, Len(s))
<1>1. Len(s) \in Nat
  OBVIOUS
<1>2. a \in Seq(S) /\ Len(a) = i - 1 /\ \A k \in 1..(i - 1) : a[k] = s[k]
  OBVIOUS
<1>3. b \in Seq(S) /\ Len(b) = Len(s) - i /\ \A k \in 1..(Len(s) - i) : b[k] = s[i + k]
  OBVIOUS
<1>4. RemoveAt(s, i) = a \o b
  BY DEF RemoveAt
<1> HIDE DEF a, b
<1>5. a \o b \in Seq(S) /\ Len(a \o b) = Len(s) - 1
  <2>1. a \o b \in Seq(S) /\ Len(a \o b) = Len(a) + Len(b)
    BY <1>2, <1>3, ConcatIs
  <2>2. (i - 1) + (Len(s) - i) = Len(s) - 1
    BY <1>1
  <2> QED
    BY <1>2, <1>3, <2>1, <2>2
<1>6. ASSUME NEW k \in 1..(Len(s) - 1)
      PROVE  (a \o b)[k] = IF k < i THEN s[k] ELSE s[k + 1]
  <2>1. (a \o b)[k] = IF k <= Len(a) THEN a[k] ELSE b[k - Len(a)]
    BY <1>1, <1>2, <1>3
  <2>2. CASE k < i
    BY <1>1, <1>2, <2>1, <2>2
  <2>3. CASE ~(k < i)
    <3>1. k - Len(a) \in 1..(Len(s) - i) /\ i + (k - Len(a)) = k + 1
      BY <1>1, <1>2, <2>3
    <3> QED
      BY <1>1, <1>2, <1>3, <2>1, <2>3, <3>1
  <2> QED
    BY <2>2, <2>3
<1> QED
  BY <1>4, <1>5, <1>6

(* A request puts a row with the next id at the end.                       *)
LEMMA ArriveStep ==
  ASSUME ListInv, NEW kind \in Kinds, Arrive(kind)
  PROVE  ListInv'
<1> DEFINE row == [id |-> arrived + 1, path |-> kind.path, trace |-> kind.trace,
                   status |-> FALSE]
           L == Len(exchanges)
<1>1. arrived \in Nat /\ arrived' = arrived + 1 /\ selectedId' = selectedId
  BY DEF ListInv, Arrive
<1>2. row \in ExchangeRow /\ row.id = arrived + 1
  BY <1>1 DEF ExchangeRow
<1>3. exchanges' = Append(exchanges, row)
  BY DEF Arrive
<1> HIDE DEF row
<1>4. exchanges \in Seq(ExchangeRow) /\ L \in Nat
  BY DEF ListInv, RowList
<1>5. /\ exchanges' \in Seq(ExchangeRow) /\ Len(exchanges') = L + 1
      /\ exchanges'[L + 1] = row /\ \A i \in 1..L : exchanges'[i] = exchanges[i]
  BY <1>2, <1>3, <1>4
<1> HIDE DEF L
<1>6. /\ \A i \in 1..L : exchanges[i].id \in 1..arrived
      /\ \A i, j \in 1..L : exchanges[i].id = exchanges[j].id => i = j
  BY DEF L, ListInv, RowList, OwnIds, GivenIds
<1>7. GivenIds(exchanges)'
  BY <1>1, <1>2, <1>4, <1>5, <1>6 DEF GivenIds
<1>8. OwnIds(exchanges)'
  <2> SUFFICES ASSUME NEW i \in 1..(L + 1), NEW j \in 1..(L + 1),
                      exchanges'[i].id = exchanges'[j].id
               PROVE  i = j
    BY <1>5 DEF OwnIds
  <2>1. CASE i \in 1..L /\ j \in 1..L
    BY <1>5, <1>6, <2>1
  <2>2. CASE i = L + 1 /\ j \in 1..L
    BY <1>1, <1>2, <1>5, <1>6, <2>2
  <2>3. CASE j = L + 1 /\ i \in 1..L
    BY <1>1, <1>2, <1>5, <1>6, <2>3
  <2> QED
    BY <1>4, <2>1, <2>2, <2>3
<1>9. (selectedId = 0 \/ \E i \in 1..Len(exchanges) : exchanges[i].id = selectedId)'
  <2>1. selectedId = 0 \/ \E i \in 1..L : exchanges[i].id = selectedId
    BY DEF ListInv, L
  <2>2. \A i \in 1..L : i \in 1..(L + 1)
    BY <1>4
  <2> QED
    BY <1>1, <1>5, <2>1, <2>2
<1> QED
  BY <1>1, <1>5, <1>7, <1>8, <1>9 DEF ListInv, RowList

(* A response changes the status of a row.                                 *)
LEMMA RespondStep ==
  ASSUME ListInv, NEW n \in DOMAIN exchanges, Respond(n)
  PROVE  ListInv'
<1> DEFINE L == Len(exchanges)
<1>1. exchanges \in Seq(ExchangeRow) /\ L \in Nat /\ DOMAIN exchanges = 1..L
  BY DEF ListInv, RowList
<1>2. ASSUME NEW i \in 1..L PROVE exchanges[i] \in ExchangeRow
  BY <1>1
<1> DEFINE row == [exchanges[n] EXCEPT !.status = TRUE]
<1>3. row \in ExchangeRow /\ row.id = exchanges[n].id
  BY <1>1, <1>2 DEF ExchangeRow
<1>4. exchanges' = [exchanges EXCEPT ![n] = row]
  BY DEF Respond
<1> HIDE DEF row, L
<1>5. /\ exchanges' \in Seq(ExchangeRow) /\ Len(exchanges') = L
      /\ \A i \in 1..L : exchanges'[i] = IF i = n THEN row ELSE exchanges[i]
  BY <1>1, <1>3, <1>4 DEF L
<1>6. \A i \in 1..L : exchanges'[i].id = exchanges[i].id
  BY <1>3, <1>5
<1>7. arrived' = arrived /\ selectedId' = selectedId
  BY DEF Respond
<1> QED
  BY <1>5, <1>6, <1>7 DEF ListInv, RowList, OwnIds, GivenIds, L

(* An eviction leaves the selected row.                                    *)
LEMMA EvictStep ==
  ASSUME ListInv, Evict
  PROVE  ListInv'
<1> DEFINE L == Len(exchanges)
           back(k, i) == IF k < i THEN k ELSE k + 1
<1>1. exchanges \in Seq(ExchangeRow) /\ L \in Nat /\ DOMAIN exchanges = 1..L
  BY DEF ListInv, RowList
<1>2. PICK i \in 1..L : exchanges[i].id # selectedId /\ exchanges' = RemoveAt(exchanges, i)
  BY <1>1 DEF Evict
<1>3. exchanges' \in Seq(ExchangeRow) /\ Len(exchanges') = L - 1
  BY <1>1, <1>2, RemoveIs
<1>4. ASSUME NEW k \in 1..(L - 1)
      PROVE  exchanges'[k] = exchanges[back(k, i)] /\ back(k, i) \in 1..L
  BY <1>1, <1>2, RemoveIs
<1>5. arrived' = arrived /\ selectedId' = selectedId
  BY DEF Evict
<1>6. GivenIds(exchanges)'
  <2>1. \A k \in 1..L : exchanges[k].id \in 1..arrived
    BY DEF ListInv, RowList, GivenIds
  <2> HIDE DEF back
  <2> QED
    BY <1>3, <1>4, <1>5, <2>1 DEF GivenIds
<1>7. OwnIds(exchanges)'
  <2> SUFFICES ASSUME NEW j \in 1..(L - 1), NEW k \in 1..(L - 1),
                      exchanges'[j].id = exchanges'[k].id
               PROVE  j = k
    BY <1>3 DEF OwnIds
  <2>1. back(j, i) = back(k, i) => j = k
    BY <1>1
  <2> HIDE DEF back
  <2>2. back(j, i) = back(k, i)
    BY <1>4 DEF ListInv, RowList, OwnIds
  <2> QED
    BY <2>1, <2>2
<1>8. (selectedId = 0 \/ \E k \in 1..Len(exchanges) : exchanges[k].id = selectedId)'
  <2>1. CASE selectedId = 0
    BY <1>5, <2>1
  <2>2. ASSUME NEW j \in 1..L, exchanges[j].id = selectedId
        PROVE  \E k \in 1..(L - 1) : exchanges'[k].id = selectedId
    <3> DEFINE k == IF j < i THEN j ELSE j - 1
    <3>1. j # i
      BY <1>2, <2>2
    <3>2. k \in 1..(L - 1) /\ back(k, i) = j
      BY <1>1, <3>1
    <3> QED
      BY <1>4, <2>2, <3>2
  <2>3. selectedId = 0 \/ \E j \in 1..L : exchanges[j].id = selectedId
    BY DEF ListInv
  <2> QED
    BY <1>3, <1>5, <2>1, <2>2, <2>3
<1> QED
  BY <1>3, <1>5, <1>6, <1>7, <1>8 DEF ListInv, RowList

(* What a step that is not an event of the feed can do to the selection:   *)
(* keep it, or take one of the list, the list being left as it is.         *)
Moved ==
  /\ UNCHANGED <<list, filter, traceFilter, order>>
  /\ \E i \in DOMAIN selectVisibleIds : selectedId' = selectVisibleIds[i]

(* A jump of the palette selects an exchange of the trace it filters for.  *)
Jumped ==
  /\ UNCHANGED <<list, filter, order>>
  /\ cmdKOpen
  /\ \E i \in DOMAIN exchanges :
       selectedId' = exchanges[i].id /\ traceFilter' = exchanges[i].trace

(* A key.                                                                  *)
LEMMA KeyStep ==
  ASSUME ListInv, NEW d \in {-1, 1}, Key(d)
  PROVE  (UNCHANGED <<list, selectedId>>) \/ Moved
<1> DEFINE ids == selectVisibleIds
<1>1. IdList(ids) /\ DOMAIN ids = 1..Len(ids)
  BY VisibleIdsAre
<1>2. selectedId' = move(ids, selectedId, d) /\ UNCHANGED <<list, filter, traceFilter, order>>
  BY DEF Key, setSelectedId
<1>3. CASE ids = <<>>
  BY <1>2, <1>3 DEF move
<1>4. CASE ids # <<>>
  <2>1. \E i \in 1..Len(ids) : move(ids, selectedId, d) = ids[i]
    BY <1>1, <1>4, MoveStays
  <2> QED
    BY <1>1, <1>2, <2>1 DEF Moved
<1> QED
  BY <1>3, <1>4

(* The inspector's buttons.                                                *)
LEMMA InspectorStepStep ==
  ASSUME ListInv, NEW d \in {-1, 1}, InspectorStep(d)
  PROVE  (UNCHANGED <<list, selectedId>>) \/ Moved
<1> DEFINE ids == selectVisibleIds
           c == indexOf(ids, selectedId)
<1>1. IdList(ids) /\ DOMAIN ids = 1..Len(ids) /\ Len(ids) \in Nat
  BY VisibleIdsAre DEF IdList
<1>2. selectedId' = onStep(ids, selectedId, d) /\ UNCHANGED <<list, filter, traceFilter, order>>
  BY DEF InspectorStep, setSelectedId
<1>3. CASE ids = <<>>
  BY <1>2, <1>3 DEF onStep
<1>4. CASE ids # <<>>
  <2>1. onStep(ids, selectedId, d) = ids[Clamp(c + d, Len(ids))]
    BY <1>4 DEF onStep
  <2>2. c \in Nat
    <3>1. c = 0 \/ c \in 1..Len(ids)
      BY <1>1, IndexIs
    <3> QED
      BY <3>1
  <2>3. c + d \in Int /\ Len(ids) > 0
    <3>1. ids \in Seq(Nat \ {0})
      BY <1>1 DEF IdList
    <3>2. Len(ids) > 0
      BY <1>4, <3>1
    <3> QED
      BY <2>2, <3>2
  <2>4. Clamp(c + d, Len(ids)) \in 1..Len(ids)
    BY <1>1, <2>3, ClampIs
  <2> QED
    BY <1>1, <1>2, <2>1, <2>4 DEF Moved
<1> QED
  BY <1>3, <1>4

(* "Next" of a set of exchanges.                                           *)
LEMMA NextStep ==
  ASSUME ListInv, NEW good, setSelectedId(nextWhere(selectVisibleIds, selectedId, good))
  PROVE  (UNCHANGED <<list, selectedId>>) \/ Moved
<1> DEFINE ids == selectVisibleIds
<1>1. IdList(ids) /\ DOMAIN ids = 1..Len(ids)
  BY VisibleIdsAre
<1>2. selectedId' = nextWhere(ids, selectedId, good) /\ UNCHANGED <<list, filter, traceFilter, order>>
  BY DEF setSelectedId
<1>3. CASE \A i \in 1..Len(ids) : ids[i] \notin good
  BY <1>1, <1>2, <1>3, NextStays
<1>4. CASE \E p \in 1..Len(ids) : ids[p] \in good
  <2>1. \E i \in 1..Len(ids) : nextWhere(ids, selectedId, good) = ids[i]
    BY <1>1, <1>4, NextFinds
  <2> QED
    BY <1>1, <1>2, <2>1 DEF Moved
<1> QED
  BY <1>3, <1>4

(* A command of the palette.                                               *)
LEMMA CommandStep ==
  ASSUME ListInv, Command
  PROVE  (UNCHANGED <<list, selectedId>>) \/ Jumped
<1> SUFFICES ASSUME NEW t \in {Find(id).trace : id \in HeldIds} \ {None},
                    traceFilter' = t,
                    selectedId' = Min({id \in HeldIds : Find(id).trace = t}),
                    UNCHANGED <<list, filter, order>>, cmdKOpen
             PROVE  Jumped
  BY DEF Command
<1> DEFINE H == {id \in HeldIds : Find(id).trace = t}
<1>1. DOMAIN exchanges = 1..Len(exchanges)
  BY DEF ListInv, RowList
<1>2. \A i \in 1..Len(exchanges) : exchanges[i].id \in 1..arrived /\ arrived \in Nat
  BY DEF ListInv, RowList, GivenIds
<1>3. H \in SUBSET Nat /\ H # {}
  BY <1>1, <1>2 DEF HeldIds
<1>4. PICK m \in H : \A y \in H : m <= y
  BY <1>3, LeastNumber
<1>5. Min(H) = m
  <2> HIDE DEF H
  <2> QED
    BY <1>3, <1>4, LeastOf
<1>6. PICK i \in 1..Len(exchanges) : m = exchanges[i].id
  BY <1>1, <1>4 DEF HeldIds
<1>7. exchanges[i].trace = t
  BY <1>4, <1>6, FindIs
<1> QED
  BY <1>1, <1>5, <1>6, <1>7 DEF Jumped

(* Every other step leaves the store and the selection as they are.        *)
LEMMA StepCases ==
  ASSUME ListInv, [Next]_vars
  PROVE  \/ \E kind \in Kinds : Arrive(kind)
         \/ \E i \in DOMAIN exchanges : Respond(i)
         \/ Evict
         \/ UNCHANGED <<list, selectedId>>
         \/ Moved \/ Jumped
<1>1. CASE Click
  BY <1>1 DEF Click, setSelectedId, Moved
<1>2. ASSUME NEW d \in {-1, 1}, Key(d) \/ InspectorStep(d)
      PROVE  (UNCHANGED <<list, selectedId>>) \/ Moved
  BY <1>2, KeyStep, InspectorStepStep
<1>3. CASE onNextMatching
  <2>1. setSelectedId(nextWhere(selectVisibleIds, selectedId, SamePath(selectedId)))
    BY <1>3 DEF onNextMatching
  <2> QED
    BY <2>1, NextStep
<1>4. CASE onNextInTrace
  <2>1. setSelectedId(nextWhere(selectVisibleIds, selectedId, SameTrace(selectedId)))
    BY <1>4 DEF onNextInTrace
  <2> QED
    BY <2>1, NextStep
<1>5. CASE Command
  BY <1>5, CommandStep
<1>6. CASE Escape \/ setOrder \/ CtrlK \/ ShowHelp \/ CloseDialog
  BY <1>6 DEF Escape, setOrder, CtrlK, ShowHelp, CloseDialog
<1>7. CASE \E f \in Filters : setFilter(f)
  BY <1>7 DEF setFilter
<1>8. CASE \E t \in Traces \cup {None} : setTraceFilter(t)
  BY <1>8 DEF setTraceFilter
<1>9. CASE UNCHANGED vars
  BY <1>9 DEF vars
<1> QED
  BY <1>1, <1>2, <1>3, <1>4, <1>5, <1>6, <1>7, <1>8, <1>9 DEF Next

(* The selection stays one of the store's exchanges.                       *)
LEMMA ListStep ==
  ASSUME ListInv, [Next]_vars PROVE ListInv'
<1>1. CASE UNCHANGED <<list, selectedId>>
  BY <1>1 DEF ListInv, RowList, OwnIds, GivenIds, list
<1>2. ASSUME UNCHANGED list, \E i \in 1..Len(exchanges) : selectedId' = exchanges[i].id
      PROVE  ListInv'
  BY <1>2 DEF ListInv, RowList, OwnIds, GivenIds, list
<1>3. CASE Moved
  <2>1. PICK k \in DOMAIN selectVisibleIds : selectedId' = selectVisibleIds[k]
    BY <1>3 DEF Moved
  <2>2. k \in 1..Len(selectVisibleExchanges) /\ selectedId' = selectVisibleExchanges[k].id
    BY <2>1, VisibleIdsAre
  <2>3. PICK i \in 1..Len(exchanges) : selectVisibleExchanges[k] = exchanges[i]
    <3>1. RowList(exchanges) /\ arrived \in Nat
      BY DEF ListInv
    <3>2. \A l \in 1..Len(selectVisibleExchanges) :
            \E i \in 1..Len(exchanges) : selectVisibleExchanges[l] = exchanges[i]
      BY <3>1, VisibleIs DEF selectVisibleExchanges
    <3> QED
      BY <2>2, <3>2
  <2> QED
    BY <1>2, <1>3, <2>2, <2>3 DEF Moved
<1>4. CASE Jumped
  <2>1. DOMAIN exchanges = 1..Len(exchanges)
    BY DEF ListInv, RowList
  <2> QED
    BY <1>2, <1>4, <2>1 DEF Jumped
<1> QED
  BY <1>1, <1>3, <1>4, ArriveStep, RespondStep, EvictStep, StepCases

(* The invariant holds of every state.                                     *)
LEMMA ListInvariant ==
  Spec => []ListInv
<1>1. Init => ListInv
  <2> SUFFICES ASSUME Init PROVE ListInv
    OBVIOUS
  <2>1. <<>> \in Seq(ExchangeRow) /\ Len(<<>>) = 0
    OBVIOUS
  <2>2. exchanges = <<>> /\ arrived = 0 /\ selectedId = 0
    BY DEF Init
  <2>3. exchanges \in Seq(ExchangeRow) /\ Len(exchanges) = 0
    BY <2>1, <2>2
  <2> QED
    BY <2>2, <2>3 DEF ListInv, RowList, OwnIds, GivenIds
<1>2. ListInv /\ [Next]_vars => ListInv'
  BY ListStep
<1> QED
  BY <1>1, <1>2, PTL DEF Spec

(* The keys j and k walk through the visible exchanges, whatever the       *)
(* filters, the order and the traffic have made of them, and "next         *)
(* matching" comes by every visible exchange of the same path.             *)
THEOREM NavigationCompleteHolds ==
  Spec => []NavigationComplete
<1>1. ListInv => NavigationComplete
  BY NavigationFollows
<1> QED
  BY <1>1, ListInvariant, PTL

(* Whatever matches the filters is in the list.                            *)
AllShown ==
  \A i \in 1..Len(exchanges) :
    Matches(exchanges[i], filter, traceFilter) =>
      \E k \in DOMAIN selectVisibleIds : selectVisibleIds[k] = exchanges[i].id

(* It follows from the invariant.                                          *)
LEMMA MatchesAreShown ==
  ListInv => AllShown
<1> SUFFICES ASSUME ListInv, NEW i \in 1..Len(exchanges),
                    Matches(exchanges[i], filter, traceFilter)
             PROVE  \E k \in DOMAIN selectVisibleIds : selectVisibleIds[k] = exchanges[i].id
  BY DEF AllShown
<1>1. RowList(exchanges) /\ arrived \in Nat
  BY DEF ListInv
<1>2. \A j \in 1..Len(exchanges) : Matches(exchanges[j], filter, traceFilter) =>
        \E k \in 1..Len(selectVisibleExchanges) : selectVisibleExchanges[k] = exchanges[j]
  BY <1>1, VisibleIs DEF selectVisibleExchanges
<1>3. PICK k \in 1..Len(selectVisibleExchanges) : selectVisibleExchanges[k] = exchanges[i]
  BY <1>2
<1>4. k \in DOMAIN selectVisibleIds /\ selectVisibleIds[k] = selectVisibleExchanges[k].id
  BY VisibleIdsAre
<1> QED
  BY <1>3, <1>4

(* Whatever moves the selection, a click, a key, a button of the inspector *)
(* or the palette, selects an exchange that the list then shows, unless    *)
(* the palette jumps to a trace while a text filter is on.                 *)
THEOREM SelectionShownHolds ==
  Spec => SelectionShown
<1> DEFINE Shown == selectedId' # selectedId =>
                      \/ cmdKOpen /\ filter # ""
                      \/ \E i \in DOMAIN selectVisibleIds' : selectVisibleIds'[i] = selectedId'
<1>1. ASSUME ListInv, AllShown', [Next]_vars PROVE Shown
  <2>1. CASE selectedId' = selectedId
    BY <2>1
  <2>2. CASE Moved
    <3>1. selectVisibleIds' = selectVisibleIds
      BY <2>2, Zenon DEF Moved, list, selectVisibleIds, selectVisibleExchanges, selectVisible,
                  matchesFilter
    <3>2. PICK i \in DOMAIN selectVisibleIds : selectedId' = selectVisibleIds[i]
      BY <2>2 DEF Moved
    <3>3. i \in DOMAIN selectVisibleIds' /\ selectVisibleIds'[i] = selectedId'
      BY <3>1, <3>2
    <3> QED
      BY <3>3
  <2>3. CASE Jumped /\ filter = ""
    <3>1. DOMAIN exchanges = 1..Len(exchanges)
      BY <1>1 DEF ListInv, RowList
    <3>2. PICK i \in 1..Len(exchanges) :
             selectedId' = exchanges[i].id /\ traceFilter' = exchanges[i].trace
      BY <2>3, <3>1 DEF Jumped
    <3>3. exchanges' = exchanges /\ filter' = ""
      BY <2>3 DEF Jumped, list
    <3>4. Matches(exchanges'[i], filter', traceFilter')
      BY <3>2, <3>3 DEF Matches, matchesFilter
    <3>5. i \in 1..Len(exchanges') /\ exchanges'[i].id = selectedId'
      BY <3>2, <3>3
    <3>6. \E k \in DOMAIN selectVisibleIds' : selectVisibleIds'[k] = exchanges'[i].id
      BY <1>1, <3>4, <3>5 DEF AllShown
    <3> QED
      BY <3>5, <3>6
  <2>4. CASE Jumped /\ filter # ""
    BY <2>4 DEF Jumped
  <2>5. CASE (\E kind \in Kinds : Arrive(kind)) \/ (\E i \in DOMAIN exchanges : Respond(i)) \/ Evict
    BY <2>1, <2>5 DEF Arrive, Respond, Evict
  <2> QED
    BY <1>1, <2>1, <2>2, <2>3, <2>4, <2>5, StepCases
<1>2. ListInv /\ AllShown' /\ [Next]_vars => [Shown]_vars
  BY <1>1
<1> QED
  BY <1>2, ListInvariant, MatchesAreShown, PTL DEF Spec, SelectionShown

-----------------------------------------------------------------------------
(* Flattening a sequence of sequences                                      *)

(* The recursion behind FlattenSeq, and its first n sequences flattened.   *)
FlattenBy(ss) ==
  CHOOSE f : f = [i \in 1..Len(ss) |->
                    IF i = 1 THEN ss[i] ELSE f[i-1] \o ss[i]]
Flat(ss, n) == IF n = 0 THEN <<>> ELSE FlattenBy(ss)[n]

(* It is what the recursion says it is.                                    *)
LEMMA FlattenEquation ==
  ASSUME NEW S, NEW ss \in Seq(Seq(S))
  PROVE  /\ FlattenSeq(ss) = Flat(ss, Len(ss))
         /\ Flat(ss, 0) = <<>>
         /\ \A n \in 1..Len(ss) : Flat(ss, n) = Flat(ss, n - 1) \o ss[n]
<1> DEFINE N == Len(ss)
           X == Seq(S)
           none == <<>>
           cat(a, b) == a \o b
           G(f, n) == IF n = 1 THEN ss[n] ELSE cat(f[n-1], ss[n])
           F(f) == [n \in 1..N |-> G(f, n)]
           row(n) == [t \in X |-> cat(t, ss[n])]
           step == [n \in 1..N |-> row(n)]
<1>1. N \in Nat /\ none \in X /\ \A n \in 1..N : ss[n] \in X
  OBVIOUS
<1>2. \A n \in 1..N : row(n) \in [X -> X]
  <2>1. \A n \in 1..N : \A t \in X : t \o ss[n] \in X
    BY <1>1, ConcatIs
  <2> QED
    BY <2>1
<1>3. FlattenBy(ss) = CHOOSE f : f = F(f)
  BY DEF FlattenBy
<1>4. \A t \in X : cat(none, t) = t
  OBVIOUS
<1>4a. FlattenSeq(ss) = IF Len(ss) = 0 THEN ss ELSE FlattenBy(ss)[N]
  BY Zenon DEF FlattenSeq, FlattenBy
<1>4b. Len(ss) = 0 => ss = none
  OBVIOUS
<1> HIDE DEF N, row, none, G, cat
<1>5. step \in [1..N -> [X -> X]] /\ \A n \in 1..N : step[n] = row(n)
  BY <1>2
<1> HIDE DEF step, X
<1>6. PICK f \in [0..N -> X] : Follows(f, N, none, step)
  BY <1>1, <1>5, Recursion
<1>7. f[0] = none /\ \A n \in 1..N : f[n] = cat(f[n-1], ss[n])
  <2>1. ASSUME NEW n \in 1..N PROVE f[n] = cat(f[n-1], ss[n])
    <3>1. f[n-1] \in X
      BY <1>1, <1>6
    <3>2. f[n] = row(n)[f[n-1]]
      BY <1>5, <1>6 DEF Follows
    <3> QED
      BY <3>1, <3>2 DEF row
  <2> QED
    BY <1>6, <2>1 DEF Follows
<1> DEFINE g == [n \in 1..N |-> f[n]]
<1>8. ASSUME NEW n \in 1..N PROVE g[n] = G(g, n)
  <2>1. CASE n = 1
    <3>1. f[1] = cat(none, ss[1]) /\ ss[1] \in X
      BY <1>1, <1>7, <2>1
    <3>2. f[1] = ss[1]
      BY <1>4, <3>1
    <3> QED
      BY <2>1, <3>2 DEF G
  <2>2. CASE n # 1
    BY <1>1, <1>7, <2>2 DEF G
  <2> QED
    BY <2>1, <2>2
<1>9. g = F(g)
  BY <1>8
<1> HIDE DEF g
<1>10. FlattenBy(ss) = F(FlattenBy(ss))
  BY <1>3, <1>9
<1>11. \A n \in 1..N : FlattenBy(ss)[n] = G(FlattenBy(ss), n)
  BY <1>10
<1>12. Flat(ss, 0) = none /\ \A n \in 1..N : Flat(ss, n) = FlattenBy(ss)[n]
  BY <1>1 DEF Flat, none
<1>13. ASSUME NEW n \in 1..N PROVE Flat(ss, n) = cat(Flat(ss, n - 1), ss[n])
  <2>1. CASE n = 1
    BY <1>1, <1>4, <1>11, <1>12, <2>1 DEF G
  <2>2. CASE n # 1
    <3>1. n - 1 \in 1..N
      BY <1>1, <2>2
    <3>2. FlattenBy(ss)[n] = cat(FlattenBy(ss)[n-1], ss[n])
      BY <1>11, <2>2 DEF G
    <3> QED
      BY <1>12, <3>1, <3>2
  <2> QED
    BY <2>1, <2>2
<1>14. FlattenSeq(ss) = Flat(ss, N)
  BY <1>1, <1>4a, <1>4b, <1>12 DEF N
<1> QED
  BY <1>12, <1>13, <1>14 DEF N, none, cat

(* t consists of the first n sequences of ss one after another: position p *)
(* of t is position off[p] of sequence blk[p].                             *)
LaidOut(blk, off, t, ss, n) ==
  /\ blk \in [1..Len(t) -> 1..n] /\ off \in [1..Len(t) -> Nat]
  /\ \A p \in 1..Len(t) : off[p] \in 1..Len(ss[blk[p]]) /\ t[p] = ss[blk[p]][off[p]]
  /\ \A p, q \in 1..Len(t) :
       p < q => blk[p] < blk[q] \/ (blk[p] = blk[q] /\ off[p] < off[q])
  /\ \A i \in 1..n : \A a \in 1..Len(ss[i]) :
       \E p \in 1..Len(t) : blk[p] = i /\ off[p] = a

(* One more sequence.                                                      *)
LEMMA LaidMore ==
  ASSUME NEW S, NEW ss \in Seq(Seq(S)), NEW n \in 1..Len(ss), NEW t \in Seq(S),
         NEW blk, NEW off, LaidOut(blk, off, t, ss, n - 1)
  PROVE  \E b, o : LaidOut(b, o, t \o ss[n], ss, n)
<1> DEFINE x == ss[n]
           u == t \o x
           L == Len(t)
           M == Len(x)
           b == [p \in 1..(L + M) |-> IF p <= L THEN blk[p] ELSE n]
           o == [p \in 1..(L + M) |-> IF p <= L THEN off[p] ELSE p - L]
<1>1. x \in Seq(S)
  OBVIOUS
<1>2. L \in Nat /\ M \in Nat
  BY <1>1
<1>3. /\ Len(u) = L + M
      /\ \A k \in 1..L : u[k] = t[k]
      /\ \A k \in 1..M : u[L + k] = x[k]
  BY <1>1, ConcatIs
<1>4. /\ \A p \in 1..L : blk[p] \in 1..(n - 1) /\ off[p] \in Nat
      /\ \A p \in 1..L : off[p] \in 1..Len(ss[blk[p]]) /\ t[p] = ss[blk[p]][off[p]]
      /\ \A p, q \in 1..L :
           p < q => blk[p] < blk[q] \/ (blk[p] = blk[q] /\ off[p] < off[q])
      /\ \A i \in 1..(n - 1) : \A a \in 1..Len(ss[i]) :
           \E p \in 1..L : blk[p] = i /\ off[p] = a
  BY DEF LaidOut
<1>5. n \in Nat
  OBVIOUS
<1> HIDE DEF u, x, L, M
<1>6. \A p \in 1..(L + M) : p \in 1..L \/ (p > L /\ p - L \in 1..M)
  BY <1>2
<1>7. b \in [1..(L + M) -> 1..n] /\ o \in [1..(L + M) -> Nat]
  BY <1>2, <1>4, <1>5, <1>6
<1>8. /\ \A p \in 1..L : b[p] = blk[p] /\ o[p] = off[p]
      /\ \A p \in 1..(L + M) : p > L => b[p] = n /\ o[p] = p - L
  BY <1>2
<1> HIDE DEF b, o
<1>9. ASSUME NEW p \in 1..(L + M)
      PROVE  o[p] \in 1..Len(ss[b[p]]) /\ u[p] = ss[b[p]][o[p]]
  <2>1. CASE p \in 1..L
    BY <1>3, <1>4, <1>8, <2>1
  <2>2. CASE p > L
    <3>1. b[p] = n /\ o[p] = p - L /\ p - L \in 1..M
      BY <1>2, <1>8, <2>2
    <3>2. u[p] = x[p - L]
      <4>1. p = L + (p - L)
        BY <1>2
      <4> QED
        BY <1>3, <3>1, <4>1
    <3> QED
      BY <3>1, <3>2 DEF x, M
  <2> QED
    BY <1>6, <2>1, <2>2
<1>10. ASSUME NEW p \in 1..(L + M), NEW q \in 1..(L + M), p < q
       PROVE  b[p] < b[q] \/ (b[p] = b[q] /\ o[p] < o[q])
  <2>1. CASE q \in 1..L
    BY <1>2, <1>4, <1>8, <1>10, <2>1
  <2>2. CASE q > L /\ p \in 1..L
    <3>1. b[q] = n /\ b[p] = blk[p] /\ blk[p] \in 1..(n - 1)
      BY <1>4, <1>8, <2>2
    <3> QED
      BY <1>5, <3>1
  <2>3. CASE p > L
    BY <1>2, <1>8, <1>10, <2>3
  <2> QED
    BY <1>6, <2>1, <2>2, <2>3
<1>11. ASSUME NEW i \in 1..n, NEW a \in 1..Len(ss[i])
       PROVE  \E p \in 1..(L + M) : b[p] = i /\ o[p] = a
  <2>1. CASE i = n
    <3>1. a \in 1..M
      BY <2>1 DEF M, x
    <3>2. L + a \in 1..(L + M) /\ L + a > L /\ (L + a) - L = a
      BY <1>2, <3>1
    <3> QED
      BY <1>8, <2>1, <3>2
  <2>2. CASE i # n
    <3>1. i \in 1..(n - 1)
      BY <1>5, <2>2
    <3>2. PICK p \in 1..L : blk[p] = i /\ off[p] = a
      BY <1>4, <3>1
    <3>3. p \in 1..(L + M)
      BY <1>2
    <3> QED
      BY <1>8, <3>2, <3>3
  <2> QED
    BY <2>1, <2>2
<1>12. LaidOut(b, o, u, ss, n)
  BY <1>3, <1>7, <1>9, <1>10, <1>11 DEF LaidOut
<1> QED
  BY <1>12 DEF u, x

(* What FlattenSeq returns.                                                *)
LEMMA FlattenIs ==
  ASSUME NEW S, NEW ss \in Seq(Seq(S))
  PROVE  /\ FlattenSeq(ss) \in Seq(S)
         /\ \E blk, off : LaidOut(blk, off, FlattenSeq(ss), ss, Len(ss))
<1> DEFINE N == Len(ss)
           K(n) == Flat(ss, n)
           P(n) == K(n) \in Seq(S) /\ \E blk, off : LaidOut(blk, off, K(n), ss, n)
           T == {n \in 0..N : P(n)}
<1>1. /\ FlattenSeq(ss) = K(N) /\ K(0) = <<>>
      /\ \A n \in 1..N : K(n) = K(n - 1) \o ss[n]
  BY FlattenEquation
<1> HIDE DEF K
<1>2. N \in Nat
  OBVIOUS
<1>3. P(0)
  <2> DEFINE t == <<>>
             f == [k \in 1..0 |-> 0]
  <2>1. t \in Seq(S) /\ Len(t) = 0 /\ f \in [1..0 -> 1..0] /\ f \in [1..0 -> Nat]
    OBVIOUS
  <2> HIDE DEF t, f
  <2>2. LaidOut(f, f, t, ss, 0)
    BY <2>1 DEF LaidOut
  <2>3. K(0) = t
    BY <1>1 DEF t
  <2> QED
    BY <2>1, <2>2, <2>3
<1>4. ASSUME NEW n \in 1..N, P(n - 1) PROVE P(n)
  <2> DEFINE t == K(n - 1)
  <2>1. t \in Seq(S) /\ ss[n] \in Seq(S)
    BY <1>4
  <2>2. PICK blk, off : LaidOut(blk, off, t, ss, n - 1)
    BY <1>4
  <2>3. K(n) = t \o ss[n]
    BY <1>1
  <2> HIDE DEF t
  <2>4. \E b, o : LaidOut(b, o, t \o ss[n], ss, n)
    BY <2>1, <2>2, LaidMore
  <2>5. t \o ss[n] \in Seq(S)
    BY <2>1, ConcatIs
  <2> QED
    BY <2>3, <2>4, <2>5
<1> HIDE DEF P
<1>5. 0 \in T
  BY <1>2, <1>3
<1>6. ASSUME NEW n \in 0..N, n < N, n \in T PROVE n + 1 \in T
  <2>1. n + 1 \in 1..N /\ (n + 1) - 1 = n
    BY <1>2, <1>6
  <2>2. P(n + 1)
    BY <1>4, <1>6, <2>1
  <2> QED
    BY <2>1, <2>2
<1> HIDE DEF T
<1>7. \A n \in 0..N : n \in T
  BY <1>2, <1>5, <1>6, UpTo
<1>8. P(N)
  BY <1>2, <1>7 DEF T
<1> QED
  BY <1>1, <1>8 DEF P

(* A sequence that repeats nothing is as long as the set of what it has.   *)
LEMMA OnceLength ==
  ASSUME NEW S, NEW s \in Seq(S), Once(s)
  PROVE  Cardinality(ToSet(s)) = Len(s)
<1> DEFINE D == 1..Len(s)
           R == ToSet(s)
<1>1. Len(s) \in Nat /\ R = {s[i] : i \in D} /\ s \in [D -> S]
  BY DEF ToSet
<1>2. s \in [D -> R]
  BY <1>1
<1>3. \A i, j \in D : s[i] = s[j] => i = j
  BY DEF Once
<1>4. \A y \in R : \E i \in D : s[i] = y
  BY <1>1
<1> HIDE DEF D, R
<1>5. s \in Bijection(D, R)
  BY <1>2, <1>3, <1>4 DEF Bijection, Injection, Surjection, IsInjective
<1>6. ExistsBijection(D, R)
  BY <1>5 DEF ExistsBijection
<1>7. IsFiniteSet(D) /\ Cardinality(D) = Len(s)
  BY <1>1, FS_Interval DEF D
<1>8. Cardinality(R) = Cardinality(D)
  BY <1>6, <1>7, FS_Bijection
<1> QED
  BY <1>7, <1>8 DEF R

-----------------------------------------------------------------------------
(* Grouping by trace                                                       *)

(* The rows of the trace of row r.                                         *)
Mates(rows, r) == RowsOf(rows, rows[r].trace)

(* A row that is shown by itself, and the row that shows a row.            *)
Alone(rows, r) == rows[r].trace = None \/ Cardinality(Mates(rows, r)) = 1
Owner(rows, r) == IF Alone(rows, r) THEN r ELSE Min(Mates(rows, r))

(* The rows of a trace are a finite set of positions with a least and a    *)
(* greatest one.                                                           *)
LEMMA MatesAre ==
  ASSUME NEW rows, RowList(rows), NEW r \in 1..Len(rows)
  PROVE  /\ r \in Mates(rows, r) /\ Mates(rows, r) \in SUBSET (1..Len(rows))
         /\ IsFiniteSet(Mates(rows, r))
         /\ Min(Mates(rows, r)) \in Mates(rows, r)
         /\ \A m \in Mates(rows, r) : Min(Mates(rows, r)) <= m
         /\ \A m \in Mates(rows, r) : rows[m].trace = rows[r].trace
         /\ \A m \in 1..Len(rows) : rows[m].trace = rows[r].trace
              => m \in Mates(rows, r) /\ Mates(rows, m) = Mates(rows, r)
<1> DEFINE M == Mates(rows, r)
           N == Len(rows)
<1>1. N \in Nat /\ DOMAIN rows = 1..N
  BY DEF RowList
<1>2. M = {m \in 1..N : rows[m].trace = rows[r].trace}
  BY <1>1 DEF Mates, RowsOf
<1>3. \A m \in 1..N : rows[m].trace = rows[r].trace => Mates(rows, m) = M
  BY DEF Mates
<1> HIDE DEF M, N
<1>4. r \in M /\ M \in SUBSET (1..N) /\ M \in SUBSET Nat /\ M \in SUBSET Int
  BY <1>1, <1>2 DEF N
<1>5. PICK l \in M : \A m \in M : l <= m
  BY <1>4, LeastNumber
<1>6. Min(M) = l
  BY <1>4, <1>5, LeastOf
<1>7. IsFiniteSet(M)
  <2>1. IsFiniteSet(1..N)
    BY <1>1, FS_Interval
  <2> QED
    BY <1>4, <2>1, FS_Subset
<1> QED
  BY <1>2, <1>3, <1>4, <1>5, <1>6, <1>7 DEF M, N

(* One row shows all rows of a trace.                                      *)
LEMMA OwnerIs ==
  ASSUME NEW rows, RowList(rows), NEW r \in 1..Len(rows)
  PROVE  /\ Owner(rows, r) \in 1..Len(rows)
         /\ rows[Owner(rows, r)].trace = rows[r].trace
         /\ Alone(rows, Owner(rows, r)) <=> Alone(rows, r)
         /\ \A s \in 1..Len(rows) :
              rows[s].trace = rows[r].trace /\ rows[r].trace # None
                => Owner(rows, s) = Owner(rows, r)
<1> DEFINE M == Mates(rows, r)
<1>1. /\ r \in M /\ M \in SUBSET (1..Len(rows)) /\ IsFiniteSet(M)
      /\ Min(M) \in M
      /\ \A m \in M : rows[m].trace = rows[r].trace
      /\ \A m \in 1..Len(rows) : rows[m].trace = rows[r].trace
              => m \in M /\ Mates(rows, m) = M
  BY MatesAre
<1> HIDE DEF M
<1>2. \A s \in 1..Len(rows) : rows[s].trace = rows[r].trace =>
        (Alone(rows, s) <=> Alone(rows, r))
  BY <1>1 DEF Alone, M
<1>3. Owner(rows, r) = IF Alone(rows, r) THEN r ELSE Min(M)
  BY DEF Owner, M
<1>4. Owner(rows, r) \in 1..Len(rows) /\ rows[Owner(rows, r)].trace = rows[r].trace
  BY <1>1, <1>3
<1>5. ASSUME NEW s \in 1..Len(rows), rows[s].trace = rows[r].trace, rows[r].trace # None
      PROVE  Owner(rows, s) = Owner(rows, r)
  <2>1. s \in M /\ Mates(rows, s) = M /\ (Alone(rows, s) <=> Alone(rows, r))
    BY <1>1, <1>2, <1>5
  <2>2. CASE Alone(rows, r)
    <3>1. Cardinality(M) = 1
      BY <1>5, <2>2 DEF Alone, M
    <3>2. \E x : M = {x}
      BY <1>1, <3>1, FS_Singleton
    <3>3. s = r
      BY <1>1, <2>1, <3>2
    <3> QED
      BY <3>3
  <2>3. CASE ~Alone(rows, r)
    BY <2>1, <2>3 DEF Owner, M
  <2> QED
    BY <2>2, <2>3
<1> QED
  BY <1>2, <1>4, <1>5

(* g shows exactly the rows that row i is to show, each once.              *)
Shows(g, rows, i) ==
  /\ g \in Seq(Nat) /\ Once(g)
  /\ \A a \in 1..Len(g) : \E r \in 1..Len(rows) : g[a] = rows[r].id /\ Owner(rows, r) = i
  /\ \A r \in 1..Len(rows) : Owner(rows, r) = i => \E a \in 1..Len(g) : g[a] = rows[r].id

(* The card of a trace.                                                    *)
LEMMA CardShows ==
  ASSUME NEW rows, RowList(rows), arrived \in Nat, NEW i \in 1..Len(rows), ~Alone(rows, i),
         i = Min(Mates(rows, i)), NEW card, card = Kept(rows, Mates(rows, i))
  PROVE  Shows([n \in DOMAIN card |-> card[n].id], rows, i)
<1> DEFINE M == Mates(rows, i)
           N == Len(rows)
           L == Len(card)
           g == [n \in DOMAIN card |-> card[n].id]
<1>1. rows \in Seq(ExchangeRow) /\ N \in Nat
  BY DEF RowList
<1>2. card \in Seq(ExchangeRow)
  BY <1>1, KeptPicks
<1>3. PICK pos : PickedAt(pos, card, rows, N, M)
  BY <1>1, KeptPicks
<1>4. /\ \A k \in 1..L : pos[k] \in 1..N /\ pos[k] \in M /\ card[k] = rows[pos[k]]
      /\ \A j, k \in 1..L : j < k => pos[j] < pos[k]
      /\ \A m \in 1..N : m \in M => \E k \in 1..L : pos[k] = m
  BY <1>3 DEF PickedAt
<1>5. L \in Nat /\ DOMAIN card = 1..L
  BY <1>2
<1>6. \A k \in 1..N : rows[k].id \in Nat
  <2>1. \A k \in 1..N : rows[k].id \in 1..arrived
    BY DEF RowList, GivenIds
  <2> QED
    BY <2>1
<1>7. g \in [1..L -> Nat] /\ \A k \in 1..L : g[k] = rows[pos[k]].id
  BY <1>4, <1>5, <1>6
<1>8. g \in Seq(Nat) /\ Len(g) = L
  BY <1>5, <1>7
<1> HIDE DEF g, L
<1>9. Once(g)
  <2> SUFFICES ASSUME NEW j \in 1..L, NEW k \in 1..L, g[j] = g[k]
               PROVE  j = k
    BY <1>8 DEF Once
  <2>1. pos[j] = pos[k] /\ pos[j] \in Nat
    BY <1>1, <1>4, <1>7 DEF RowList, OwnIds
  <2>2. ~(j < k) /\ ~(k < j)
    BY <1>4, <2>1
  <2> QED
    BY <1>5, <2>2
<1>10. ASSUME NEW m \in M PROVE m \in 1..N /\ Owner(rows, m) = i
  <2>1. m \in 1..N /\ Mates(rows, m) = M /\ rows[m].trace = rows[i].trace
    BY MatesAre
  <2>2. ~Alone(rows, m)
    BY <2>1 DEF Alone
  <2> QED
    BY <2>1, <2>2 DEF Owner
<1>11. ASSUME NEW r \in 1..N, Owner(rows, r) = i PROVE r \in M
  <2>1. rows[i].trace = rows[r].trace
    BY <1>11, OwnerIs
  <2> QED
    BY <2>1, MatesAre
<1>12. \A a \in 1..L : \E r \in 1..N : g[a] = rows[r].id /\ Owner(rows, r) = i
  BY <1>4, <1>7, <1>10
<1>13. \A r \in 1..N : Owner(rows, r) = i => \E a \in 1..L : g[a] = rows[r].id
  BY <1>4, <1>7, <1>11
<1> QED
  BY <1>8, <1>9, <1>12, <1>13 DEF Shows, g

(* What each row puts on the page.                                         *)
LEMMA GroupedIs ==
  ASSUME NEW rows, RowList(rows), arrived \in Nat
  PROVE  /\ Grouped(rows) \in Seq(Seq(Nat)) /\ Len(Grouped(rows)) = Len(rows)
         /\ \A i \in 1..Len(rows) : Shows(Grouped(rows)[i], rows, i)
<1> DEFINE N == Len(rows)
           card(i) == Kept(rows, Mates(rows, i))
           ids(c) == [n \in DOMAIN c |-> c[n].id]
           page(i) == IF Alone(rows, i) THEN <<rows[i].id>>
                      ELSE IF i > Min(Mates(rows, i)) THEN <<>>
                      ELSE ids(card(i))
<1>1. N \in Nat /\ DOMAIN rows = 1..N
  BY DEF RowList
<1>2. Grouped(rows) = [i \in DOMAIN rows |-> page(i)]
  BY DEF Grouped, Alone, Mates
<1>3. ASSUME NEW i \in 1..N PROVE Shows(page(i), rows, i)
  <2> DEFINE M == Mates(rows, i)
  <2>1. i \in M /\ M \in SUBSET (1..N) /\ Min(M) \in M /\ \A m \in M : Min(M) <= m
    BY MatesAre
  <2>2. ASSUME NEW r \in 1..N, Owner(rows, r) = i
        PROVE  (Alone(rows, i) <=> Alone(rows, r)) /\ Mates(rows, r) = M
    BY <2>2, OwnerIs, MatesAre
  <2>3. CASE Alone(rows, i)
    <3> DEFINE x == rows[i].id
               g == <<x>>
    <3>1. page(i) = g
      BY <2>3
    <3>2. x \in Nat
      <4>1. x \in 1..arrived
        BY DEF RowList, GivenIds
      <4> QED
        BY <4>1
    <3>3. g \in Seq(Nat) /\ Len(g) = 1 /\ g[1] = x
      BY <3>2
    <3> HIDE DEF g
    <3>4. Once(g)
      BY <3>3 DEF Once
    <3>5. Owner(rows, i) = i
      BY <2>3 DEF Owner
    <3>6. \A r \in 1..N : Owner(rows, r) = i => r = i
      BY <2>2, <2>3 DEF Owner
    <3>7. Shows(g, rows, i)
      <4>1. \A a \in 1..Len(g) : a = 1
        BY <3>3
      <4>2. 1 \in 1..Len(g)
        BY <3>3
      <4> QED
        BY <3>3, <3>4, <3>5, <3>6, <4>1, <4>2 DEF Shows
    <3> QED
      BY <3>1, <3>7
  <2>4. CASE ~Alone(rows, i) /\ i > Min(M)
    <3> DEFINE g == <<>>
    <3>1. page(i) = g
      BY <2>4
    <3>2. g \in Seq(Nat) /\ Len(g) = 0
      OBVIOUS
    <3> HIDE DEF g
    <3>3. ASSUME NEW r \in 1..N, Owner(rows, r) = i PROVE FALSE
      <4>1. ~Alone(rows, r) /\ Mates(rows, r) = M
        BY <2>2, <2>4, <3>3
      <4>2. i = Min(M)
        BY <3>3, <4>1 DEF Owner
      <4> QED
        BY <2>1, <2>4, <4>2
    <3>4. Once(g)
      BY <3>2 DEF Once
    <3>5. Shows(g, rows, i)
      BY <3>2, <3>3, <3>4 DEF Shows
    <3> QED
      BY <3>1, <3>5
  <2>5. CASE ~Alone(rows, i) /\ ~(i > Min(M))
    <3>1. i = Min(M)
      BY <2>1, <2>5
    <3>2. page(i) = ids(card(i))
      BY <2>5
    <3>3. Shows(ids(card(i)), rows, i)
      BY <2>5, <3>1, CardShows
    <3> QED
      BY <3>2, <3>3
  <2> QED
    BY <2>3, <2>4, <2>5
<1> HIDE DEF page
<1>4. \A i \in 1..N : page(i) \in Seq(Nat)
  BY <1>3 DEF Shows
<1>5. Grouped(rows) \in [1..N -> Seq(Nat)] /\ \A i \in 1..N : Grouped(rows)[i] = page(i)
  BY <1>1, <1>2, <1>4
<1>6. Grouped(rows) \in Seq(Seq(Nat)) /\ Len(Grouped(rows)) = N
  BY <1>1, <1>5
<1> QED
  BY <1>3, <1>5, <1>6

(* Whatever stands between two rows of a trace is of that trace.           *)
Together(page, rows) ==
  \A i, j, k \in 1..Len(page) : \A a, b, c \in 1..Len(rows) :
    ( /\ i < j /\ j < k
      /\ page[i] = rows[a].id /\ page[j] = rows[b].id /\ page[k] = rows[c].id
      /\ rows[a].trace # None /\ rows[a].trace = rows[c].trace )
    => rows[b].trace = rows[a].trace

(* The page shows every row once, and the rows of a trace together.        *)
LEMMA PageIs ==
  ASSUME NEW rows, RowList(rows), arrived \in Nat,
         NEW page, page = FlattenSeq(Grouped(rows))
  PROVE  /\ page \in Seq(Nat) /\ Once(page)
         /\ \A p \in 1..Len(page) : \E r \in 1..Len(rows) : page[p] = rows[r].id
         /\ \A r \in 1..Len(rows) : \E p \in 1..Len(page) : page[p] = rows[r].id
         /\ Together(page, rows)
<1> DEFINE ss == Grouped(rows)
           N == Len(rows)
           P == Len(page)
<1>1. ss \in Seq(Seq(Nat)) /\ Len(ss) = N /\ N \in Nat
  BY GroupedIs DEF RowList
<1>2. ASSUME NEW i \in 1..N
      PROVE  /\ ss[i] \in Seq(Nat) /\ Once(ss[i])
             /\ \A a \in 1..Len(ss[i]) :
                  \E r \in 1..N : ss[i][a] = rows[r].id /\ Owner(rows, r) = i
             /\ \A r \in 1..N : Owner(rows, r) = i =>
                  \E a \in 1..Len(ss[i]) : ss[i][a] = rows[r].id
  <2>1. Shows(ss[i], rows, i)
    BY GroupedIs
  <2> HIDE DEF ss
  <2> QED
    BY <2>1 DEF Shows
<1> HIDE DEF ss
<1>3. page \in Seq(Nat)
  BY <1>1, FlattenIs DEF ss
<1>4. PICK blk, off : LaidOut(blk, off, page, ss, N)
  BY <1>1, FlattenIs DEF ss
<1>5. P \in Nat
  BY <1>3
<1>6. /\ \A p \in 1..P : blk[p] \in 1..N /\ off[p] \in Nat
      /\ \A p \in 1..P : off[p] \in 1..Len(ss[blk[p]]) /\ page[p] = ss[blk[p]][off[p]]
      /\ \A p, q \in 1..P :
           p < q => blk[p] < blk[q] \/ (blk[p] = blk[q] /\ off[p] < off[q])
      /\ \A i \in 1..N : \A a \in 1..Len(ss[i]) : \E p \in 1..P : blk[p] = i /\ off[p] = a
  BY <1>4 DEF LaidOut
<1> HIDE DEF P
<1>7. ASSUME NEW p \in 1..P PROVE \E r \in 1..N : page[p] = rows[r].id /\ Owner(rows, r) = blk[p]
  <2>1. blk[p] \in 1..N /\ off[p] \in 1..Len(ss[blk[p]]) /\ page[p] = ss[blk[p]][off[p]]
    BY <1>6
  <2>2. \A a \in 1..Len(ss[blk[p]]) :
          \E r \in 1..N : ss[blk[p]][a] = rows[r].id /\ Owner(rows, r) = blk[p]
    BY <1>2, <2>1
  <2> QED
    BY <2>1, <2>2
<1>8. ASSUME NEW r \in 1..N PROVE \E p \in 1..P : page[p] = rows[r].id
  <2> DEFINE i == Owner(rows, r)
  <2>1. i \in 1..N
    BY OwnerIs
  <2>2. PICK a \in 1..Len(ss[i]) : ss[i][a] = rows[r].id
    BY <1>2, <2>1
  <2> HIDE DEF i
  <2>3. PICK p \in 1..P : blk[p] = i /\ off[p] = a
    BY <1>6, <2>1
  <2> QED
    BY <1>6, <2>2, <2>3
<1>9. ASSUME NEW p \in 1..P, NEW r \in 1..N, page[p] = rows[r].id PROVE Owner(rows, r) = blk[p]
  <2>1. PICK s \in 1..N : page[p] = rows[s].id /\ Owner(rows, s) = blk[p]
    BY <1>7
  <2>2. r = s
    BY <1>9, <2>1 DEF RowList, OwnIds
  <2> QED
    BY <2>1, <2>2
<1>10. ASSUME NEW p \in 1..P, NEW q \in 1..P, page[p] = page[q] PROVE p = q
  <2>1. blk[p] = blk[q]
    <3>1. PICK s \in 1..N : page[p] = rows[s].id /\ Owner(rows, s) = blk[p]
      BY <1>7
    <3> QED
      BY <1>9, <1>10, <3>1
  <2>2. off[p] = off[q]
    <3> DEFINE x == ss[blk[p]]
    <3>1. Once(x) /\ off[p] \in 1..Len(x) /\ off[q] \in 1..Len(x) /\ x[off[p]] = x[off[q]]
      BY <1>2, <1>6, <1>10, <2>1
    <3> QED
      BY <3>1 DEF Once
  <2>3. ~(p < q) /\ ~(q < p)
    BY <1>6, <2>1, <2>2
  <2> QED
    BY <1>5, <2>3
<1>11. ASSUME NEW i \in 1..P, NEW j \in 1..P, NEW k \in 1..P,
              NEW a \in 1..N, NEW b \in 1..N, NEW c \in 1..N,
              i < j, j < k,
              page[i] = rows[a].id, page[j] = rows[b].id, page[k] = rows[c].id,
              rows[a].trace # None, rows[a].trace = rows[c].trace
       PROVE  rows[b].trace = rows[a].trace
  <2>1. Owner(rows, a) = blk[i] /\ Owner(rows, b) = blk[j] /\ Owner(rows, c) = blk[k]
    BY <1>9, <1>11
  <2>2. Owner(rows, a) = Owner(rows, c)
    BY <1>11, OwnerIs
  <2>3. blk[i] <= blk[j] /\ blk[j] <= blk[k] /\ blk[i] \in Nat /\ blk[j] \in Nat
    <3>1. blk[i] \in 1..N /\ blk[j] \in 1..N /\ blk[k] \in 1..N
      BY <1>6
    <3>2. blk[i] < blk[j] \/ blk[i] = blk[j]
      BY <1>6, <1>11
    <3>3. blk[j] < blk[k] \/ blk[j] = blk[k]
      BY <1>6, <1>11
    <3>4. \A x \in 1..N : x \in Nat
      OBVIOUS
    <3> QED
      BY <3>1, <3>2, <3>3, <3>4
  <2>4. blk[i] = blk[j]
    BY <2>1, <2>2, <2>3
  <2>5. Owner(rows, a) = Owner(rows, b)
    BY <2>1, <2>4
  <2> QED
    BY <2>5, OwnerIs
<1>11a. Together(page, rows)
  <2> SUFFICES ASSUME NEW i \in 1..P, NEW j \in 1..P, NEW k \in 1..P,
              NEW a \in 1..N, NEW b \in 1..N, NEW c \in 1..N,
              /\ i < j /\ j < k
              /\ page[i] = rows[a].id /\ page[j] = rows[b].id /\ page[k] = rows[c].id
              /\ rows[a].trace # None /\ rows[a].trace = rows[c].trace
             PROVE  rows[b].trace = rows[a].trace
    BY DEF Together, P
  <2> QED
    BY <1>11
<1>12. Once(page)
  BY <1>10 DEF Once, P
<1>13. \A p \in 1..P : \E r \in 1..N : page[p] = rows[r].id
  BY <1>7
<1> QED
  BY <1>3, <1>8, <1>11a, <1>12, <1>13 DEF P

(* GroupedOnce follows from the invariant.                                 *)
LEMMA GroupedFollows ==
  ASSUME ListInv PROVE GroupedOnce
<1> DEFINE rows == selectVisibleExchanges
           shown == FlattenSeq(Grouped(rows))
           N == Len(rows)
           P == Len(shown)
<1>1. RowList(rows) /\ arrived \in Nat
  BY VisibleIdsAre DEF ListInv
<1>2. ASSUME NEW r \in 1..N PROVE Find(rows[r].id) = rows[r]
  <2>1. RowList(exchanges) /\ arrived \in Nat
    BY DEF ListInv
  <2>2. \A l \in 1..Len(selectVisibleExchanges) :
          \E i \in 1..Len(exchanges) : selectVisibleExchanges[l] = exchanges[i]
    BY <2>1, VisibleIs DEF selectVisibleExchanges
  <2>3. PICK i \in 1..Len(exchanges) : rows[r] = exchanges[i]
    BY <2>2
  <2> QED
    BY <2>3, FindIs
<1> HIDE DEF rows
<1>3. /\ shown \in Seq(Nat) /\ Once(shown)
      /\ \A p \in 1..P : \E r \in 1..N : shown[p] = rows[r].id
      /\ \A r \in 1..N : \E p \in 1..P : shown[p] = rows[r].id
      /\ Together(shown, rows)
  BY <1>1, PageIs
<1> HIDE DEF shown
<1>4. DOMAIN rows = 1..N /\ DOMAIN shown = 1..P /\ N \in Nat /\ P \in Nat
  <2>1. rows \in Seq(ExchangeRow)
    BY <1>1 DEF RowList
  <2> QED
    BY <1>3, <2>1
<1>5. ToSet(shown) = {rows[i].id : i \in DOMAIN rows}
  <2>1. ToSet(shown) = {shown[p] : p \in 1..P}
    BY <1>4 DEF ToSet
  <2>2. ASSUME NEW x \in ToSet(shown) PROVE x \in {rows[i].id : i \in DOMAIN rows}
    <3>1. PICK p \in 1..P : x = shown[p]
      BY <2>1
    <3>2. PICK r \in 1..N : shown[p] = rows[r].id
      BY <1>3
    <3> QED
      BY <1>4, <3>1, <3>2
  <2>3. ASSUME NEW x \in {rows[i].id : i \in DOMAIN rows} PROVE x \in ToSet(shown)
    <3>1. PICK r \in 1..N : x = rows[r].id
      BY <1>4
    <3>2. PICK p \in 1..P : shown[p] = rows[r].id
      BY <1>3
    <3> QED
      BY <2>1, <3>1, <3>2
  <2> QED
    BY <2>2, <2>3
<1>6. P = N
  <2> DEFINE own == [i \in 1..N |-> rows[i].id]
  <2>1. \A i \in 1..N : rows[i].id \in Nat
    <3>1. \A i \in 1..N : rows[i].id \in 1..arrived
      BY <1>1 DEF RowList, GivenIds
    <3> QED
      BY <1>1, <3>1
  <2>2. own \in Seq(Nat) /\ Len(own) = N /\ DOMAIN own = 1..N
    BY <1>4, <2>1
  <2>3. Once(own)
    BY <1>1, <2>2 DEF Once, RowList, OwnIds
  <2>4. ToSet(own) = {rows[i].id : i \in DOMAIN rows}
    BY <1>4, <2>2 DEF ToSet
  <2> HIDE DEF own
  <2>5. Cardinality(ToSet(own)) = N
    BY <2>2, <2>3, OnceLength
  <2>6. Cardinality(ToSet(shown)) = P
    BY <1>3, OnceLength
  <2> QED
    BY <1>5, <2>4, <2>5, <2>6
<1>7. ASSUME NEW i \in DOMAIN shown, NEW j \in DOMAIN shown, NEW k \in DOMAIN shown,
             i < j, j < k, Find(shown[i]).trace # None,
             Find(shown[i]).trace = Find(shown[k]).trace
      PROVE  Find(shown[j]).trace = Find(shown[i]).trace
  <2>1. PICK a \in 1..N : shown[i] = rows[a].id
    BY <1>3, <1>4
  <2>2. PICK b \in 1..N : shown[j] = rows[b].id
    BY <1>3, <1>4
  <2>3. PICK c \in 1..N : shown[k] = rows[c].id
    BY <1>3, <1>4
  <2>4. /\ Find(shown[i]) = rows[a] /\ Find(shown[j]) = rows[b] /\ Find(shown[k]) = rows[c]
    BY <1>2, <2>1, <2>2, <2>3
  <2>5. i \in 1..Len(shown) /\ j \in 1..Len(shown) /\ k \in 1..Len(shown)
    BY <1>4
  <2>6. Together(shown, rows)
    BY <1>3
  <2>7. rows[b].trace = rows[a].trace
    BY <1>7, <2>1, <2>2, <2>3, <2>4, <2>5, <2>6 DEF Together
  <2> QED
    BY <2>4, <2>7
<1> QED
  BY <1>5, <1>6, <1>7 DEF GroupedOnce, shown, rows

(* The grouped list shows every visible exchange once, and the exchanges   *)
(* of a trace in one piece.                                                *)
THEOREM GroupedOnceHolds ==
  Spec => []GroupedOnce
<1>1. ListInv => GroupedOnce
  BY GroupedFollows
<1> QED
  BY <1>1, ListInvariant, PTL

-----------------------------------------------------------------------------
(* The lanes of the trace rail                                             *)

(* A bounded non-empty set of natural numbers has a greatest element.      *)
LEMMA GreatestNumber ==
  ASSUME NEW N \in Nat, NEW T \in SUBSET (1..N), T # {}
  PROVE  \E k \in T : \A j \in T : j <= k
<1> DEFINE U == {d \in 0..N : N - d \in T}
<1>1. U \in SUBSET Nat
  OBVIOUS
<1>2. U # {}
  <2>1. PICK x \in T : TRUE
    OBVIOUS
  <2>2. N - x \in 0..N /\ N - (N - x) = x
    OBVIOUS
  <2>3. N - x \in U
    BY <2>1, <2>2
  <2> QED
    BY <2>3
<1>3. PICK d \in U : \A e \in U : d <= e
  BY <1>1, <1>2, LeastNumber
<1>4. ASSUME NEW j \in T PROVE j <= N - d
  <2>1. N - j \in 0..N /\ N - (N - j) = j
    OBVIOUS
  <2>2. d <= N - j
    BY <1>3, <2>1
  <2> QED
    BY <1>3, <2>2
<1> QED
  BY <1>3, <1>4

Span == [trace : {k.trace : k \in Kinds}, first : Nat, last : Nat]

(* Spans of rows among N, in the order of their first rows.                *)
SpanList(spans, N) ==
  /\ spans \in Seq(Span)
  /\ \A k \in 1..Len(spans) : /\ spans[k].first \in 1..N
                              /\ spans[k].first <= spans[k].last
  /\ \A j, k \in 1..Len(spans) : j < k => spans[j].first < spans[k].first

(* What packLanes packs.                                                   *)
LEMMA SpansAre ==
  ASSUME NEW rows, RowList(rows)
  PROVE  SpanList(Spans(rows), Len(rows))
<1> DEFINE N == Len(rows)
           M(i) == Mates(rows, i)
           span(i) == [trace |-> rows[i].trace, first |-> Min(M(i)), last |-> Max(M(i))]
           ss == [i \in DOMAIN rows |-> span(i)]
           good == {i \in DOMAIN rows : /\ rows[i].trace # None
                                        /\ Cardinality(M(i)) > 1
                                        /\ i = Min(M(i))}
           t == Kept(ss, good)
<1>1. N \in Nat /\ DOMAIN rows = 1..N /\ rows \in Seq(ExchangeRow)
  BY DEF RowList
<1>2. Spans(rows) = t
  BY DEF Spans, Mates
<1>3. ASSUME NEW i \in 1..N
      PROVE  /\ Min(M(i)) \in 1..N /\ Max(M(i)) \in 1..N /\ i <= Max(M(i))
  <2>1. i \in M(i) /\ M(i) \in SUBSET (1..N) /\ Min(M(i)) \in M(i)
    BY MatesAre
  <2>2. PICK m \in M(i) : \A j \in M(i) : j <= m
    BY <1>1, <2>1, GreatestNumber
  <2> HIDE DEF M
  <2>3. M(i) \in SUBSET Int
    BY <1>1, <2>1
  <2>4. Max(M(i)) = m
    BY <2>2, <2>3, GreatestOf
  <2> QED
    BY <2>1, <2>2, <2>4
<1> HIDE DEF M
<1>4. ASSUME NEW i \in 1..N PROVE span(i) \in Span
  <2>1. rows[i] \in ExchangeRow
    BY <1>1
  <2>2. rows[i].trace \in {k.trace : k \in Kinds}
    BY <2>1 DEF ExchangeRow
  <2>3. Min(M(i)) \in Nat /\ Max(M(i)) \in Nat
    <3>1. \A x \in 1..N : x \in Nat
      OBVIOUS
    <3>2. Min(M(i)) \in 1..N /\ Max(M(i)) \in 1..N
      BY <1>3
    <3> QED
      BY <3>1, <3>2
  <2> QED
    BY <2>2, <2>3 DEF Span
<1>4a. \A i \in 1..N : span(i).first = Min(M(i)) /\ span(i).last = Max(M(i))
  OBVIOUS
<1>4b. \A i \in good : i = Min(M(i))
  OBVIOUS
<1> HIDE DEF span, good
<1>5. ss \in [1..N -> Span] /\ \A i \in 1..N : ss[i] = span(i)
  BY <1>1, <1>4
<1>6. ss \in Seq(Span) /\ Len(ss) = N
  BY <1>1, <1>5
<1> HIDE DEF ss
<1>7. t \in Seq(Span)
  BY <1>6, KeptPicks
<1>8. PICK pos : PickedAt(pos, t, ss, N, good)
  BY <1>6, KeptPicks
<1>9. /\ \A k \in 1..Len(t) : pos[k] \in 1..N /\ pos[k] \in good /\ t[k] = ss[pos[k]]
      /\ \A j, k \in 1..Len(t) : j < k => pos[j] < pos[k]
  BY <1>8 DEF PickedAt
<1> HIDE DEF t
<1>10. ASSUME NEW k \in 1..Len(t) PROVE t[k].first = pos[k] /\ pos[k] <= t[k].last /\ pos[k] \in 1..N
  <2>1. pos[k] \in 1..N /\ pos[k] = Min(M(pos[k])) /\ t[k] = span(pos[k])
    BY <1>4b, <1>5, <1>9
  <2> QED
    BY <1>3, <1>4a, <2>1
<1> QED
  BY <1>2, <1>7, <1>9, <1>10 DEF SpanList

Interval == [span : Span, lane : Nat]
Packing == [ends : Seq(Nat), intervals : SUBSET Interval]

(* The recursion behind packLanes.                                         *)
NoLanes == [ends |-> <<>>, intervals |-> {}]
PackBy(spans) ==
  CHOOSE f : f = [n \in 0..Len(spans) |->
                    IF n = 0 THEN [ends |-> <<>>, intervals |-> {}]
                    ELSE Place(f[n-1], spans[n])]

(* A free lane is taken over, and its end moved.                           *)
LEMMA PlaceFree ==
  ASSUME NEW acc \in Packing, NEW s \in Span, freeLane(acc.ends, s) # {}
  PROVE  \E lane \in 1..Len(acc.ends) :
           /\ acc.ends[lane] < s.first
           /\ Place(acc, s) \in Packing
           /\ Len(Place(acc, s).ends) = Len(acc.ends)
           /\ \A l \in 1..Len(acc.ends) :
                Place(acc, s).ends[l] = IF l = lane THEN s.last ELSE acc.ends[l]
           /\ Place(acc, s).intervals = acc.intervals \cup {[span |-> s, lane |-> lane]}
<1> DEFINE e == acc.ends
           free == freeLane(e, s)
           lane == Min(free)
           x == s.last
           e2 == [e EXCEPT ![lane] = x]
           i2 == acc.intervals \cup {[span |-> s, lane |-> lane]}
<1>1. e \in Seq(Nat) /\ acc.intervals \in SUBSET Interval /\ x \in Nat /\ s.first \in Nat
  BY DEF Packing, Span
<1>2. Len(e) \in Nat /\ DOMAIN e = 1..Len(e)
  BY <1>1
<1>3. free = {l \in 1..Len(e) : e[l] < s.first}
  BY <1>2 DEF freeLane
<1>4. free \in SUBSET Nat /\ free \in SUBSET Int
  BY <1>2, <1>3
<1>5. PICK m \in free : \A j \in free : m <= j
  BY <1>4, LeastNumber
<1>6. lane = m
  BY <1>4, <1>5, LeastOf
<1>7. lane \in 1..Len(e) /\ e[lane] < s.first
  BY <1>3, <1>5, <1>6
<1>8. Place(acc, s) = [ends |-> e2, intervals |-> i2]
  BY DEF Place
<1> HIDE DEF e, free, lane, x
<1>9. /\ e2 \in Seq(Nat) /\ Len(e2) = Len(e)
      /\ \A l \in 1..Len(e) : e2[l] = IF l = lane THEN x ELSE e[l]
  BY <1>1, <1>2, <1>7
<1>10. i2 \in SUBSET Interval
  <2>1. [span |-> s, lane |-> lane] \in Interval
    BY <1>2, <1>7 DEF Interval
  <2> QED
    BY <1>1, <2>1
<1> HIDE DEF e2, i2
<1>11. /\ Place(acc, s) \in Packing
       /\ Place(acc, s).ends = e2 /\ Place(acc, s).intervals = i2
  BY <1>8, <1>9, <1>10 DEF Packing
<1> QED
  BY <1>7, <1>9, <1>11 DEF e, i2, x

(* Without a free lane there is a new one.                                 *)
LEMMA PlaceNew ==
  ASSUME NEW acc \in Packing, NEW s \in Span, freeLane(acc.ends, s) = {}
  PROVE  /\ \A l \in 1..Len(acc.ends) : s.first <= acc.ends[l]
         /\ Place(acc, s) \in Packing
         /\ Len(Place(acc, s).ends) = Len(acc.ends) + 1
         /\ \A l \in 1..Len(acc.ends) : Place(acc, s).ends[l] = acc.ends[l]
         /\ Place(acc, s).ends[Len(acc.ends) + 1] = s.last
         /\ Place(acc, s).intervals
              = acc.intervals \cup {[span |-> s, lane |-> Len(acc.ends) + 1]}
<1> DEFINE e == acc.ends
           free == freeLane(e, s)
           lane == Len(e) + 1
           x == s.last
           e2 == Append(e, x)
           i2 == acc.intervals \cup {[span |-> s, lane |-> lane]}
<1>1. e \in Seq(Nat) /\ acc.intervals \in SUBSET Interval /\ x \in Nat /\ s.first \in Nat
  BY DEF Packing, Span
<1>2. Len(e) \in Nat /\ DOMAIN e = 1..Len(e) /\ \A l \in 1..Len(e) : e[l] \in Nat
  BY <1>1
<1>3. free = {l \in 1..Len(e) : e[l] < s.first}
  BY <1>2 DEF freeLane
<1>4. \A l \in 1..Len(e) : s.first <= e[l]
  BY <1>1, <1>2, <1>3
<1>8. Place(acc, s) = [ends |-> e2, intervals |-> i2]
  BY DEF Place
<1> HIDE DEF e, free, x
<1>9. /\ e2 \in Seq(Nat) /\ Len(e2) = Len(e) + 1 /\ e2[Len(e) + 1] = x
      /\ \A l \in 1..Len(e) : e2[l] = e[l]
  BY <1>1, <1>2
<1>10. i2 \in SUBSET Interval
  <2>1. [span |-> s, lane |-> lane] \in Interval
    BY <1>2 DEF Interval
  <2> QED
    BY <1>1, <2>1
<1> HIDE DEF e2, i2
<1>11. /\ Place(acc, s) \in Packing
       /\ Place(acc, s).ends = e2 /\ Place(acc, s).intervals = i2
  BY <1>8, <1>9, <1>10 DEF Packing
<1> QED
  BY <1>4, <1>9, <1>11 DEF e, i2, x

(* The recursion is defined.                                               *)
LEMMA PackEquation ==
  ASSUME NEW spans \in Seq(Span)
  PROVE  /\ NoLanes \in Packing
         /\ PackBy(spans)[0] = NoLanes
         /\ \A n \in 1..Len(spans) : PackBy(spans)[n] = Place(PackBy(spans)[n-1], spans[n])
<1> DEFINE N == Len(spans)
           X == Packing
           G(f, n) == IF n = 0 THEN NoLanes ELSE Place(f[n-1], spans[n])
           F(f) == [n \in 0..N |-> G(f, n)]
           row(n) == [t \in X |-> Place(t, spans[n])]
           step == [n \in 1..N |-> row(n)]
<1>1. N \in Nat /\ \A n \in 1..N : spans[n] \in Span
  OBVIOUS
<1>1a. NoLanes \in X
  <2>1. <<>> \in Seq(Nat)
    OBVIOUS
  <2> QED
    BY <2>1 DEF NoLanes, Packing
<1>2. \A n \in 1..N : row(n) \in [X -> X]
  <2>1. ASSUME NEW n \in 1..N, NEW t \in X PROVE Place(t, spans[n]) \in X
    BY <1>1, PlaceFree, PlaceNew
  <2> QED
    BY <2>1
<1>3. PackBy(spans) = CHOOSE f : f = F(f)
  BY DEF PackBy, NoLanes
<1> HIDE DEF N, row, G, X
<1>5. step \in [1..N -> [X -> X]] /\ \A n \in 1..N : step[n] = row(n)
  BY <1>2
<1> HIDE DEF step
<1>6. PICK f \in [0..N -> X] : Follows(f, N, NoLanes, step)
  BY <1>1, <1>1a, <1>5, Recursion
<1>7. f[0] = NoLanes /\ \A n \in 1..N : f[n] = Place(f[n-1], spans[n])
  <2>1. ASSUME NEW n \in 1..N PROVE f[n] = Place(f[n-1], spans[n])
    <3>1. f[n-1] \in X
      BY <1>1, <1>6
    <3>2. f[n] = row(n)[f[n-1]]
      BY <1>5, <1>6 DEF Follows
    <3> QED
      BY <3>1, <3>2 DEF row
  <2> QED
    BY <1>6, <2>1 DEF Follows
<1>8. \A n \in 0..N : f[n] = G(f, n)
  BY <1>1, <1>7 DEF G
<1>9. f = F(f)
  BY <1>8
<1>10. PackBy(spans) = F(PackBy(spans))
  BY <1>3, <1>9
<1>11. \A n \in 0..N : PackBy(spans)[n] = G(PackBy(spans), n)
  BY <1>10
<1> QED
  BY <1>1, <1>1a, <1>11 DEF N, G, X

Crosses(a, i) == a.span.first <= i /\ i <= a.span.last

(* What has been packed of the first n spans: a lane ends with one of its  *)
(* intervals and after all of them, intervals of a lane are apart, and     *)
(* there is a row that an interval of every lane crosses.                  *)
Packed(acc, spans, n, N) ==
  /\ acc \in Packing
  /\ \A a \in acc.intervals :
       /\ \E k \in 1..n : a.span = spans[k]
       /\ a.lane \in 1..Len(acc.ends)
       /\ a.span.last <= acc.ends[a.lane]
  /\ \A l \in 1..Len(acc.ends) :
       \E a \in acc.intervals : a.lane = l /\ a.span.last = acc.ends[l]
  /\ \A a, b \in acc.intervals :
       a.lane = b.lane =>
         a = b \/ a.span.last < b.span.first \/ b.span.last < a.span.first
  /\ \/ Len(acc.ends) = 0
     \/ \E i \in 1..N : \A l \in 1..Len(acc.ends) :
          \E a \in acc.intervals : a.lane = l /\ Crosses(a, i)

(* One more span.                                                          *)
LEMMA PackedMore ==
  ASSUME NEW N \in Nat, NEW spans, SpanList(spans, N), NEW n \in 1..Len(spans),
         NEW acc, Packed(acc, spans, n - 1, N)
  PROVE  Packed(Place(acc, spans[n]), spans, n, N)
<1> DEFINE s == spans[n]
           L == Len(acc.ends)
           A == acc.intervals
           new == Place(acc, s)
<1>1. s \in Span /\ s.first \in 1..N /\ s.first <= s.last
  BY DEF SpanList
<1>2. s.first \in Nat /\ s.last \in Nat
  BY <1>1 DEF Span
<1>3. acc \in Packing
  BY DEF Packed
<1>4. acc.ends \in Seq(Nat) /\ A \in SUBSET Interval
  BY <1>3 DEF Packing
<1>4a. L \in Nat /\ \A l \in 1..L : acc.ends[l] \in Nat
  BY <1>4
<1>5. ASSUME NEW a \in A
      PROVE  /\ a.span.first \in Nat /\ a.span.last \in Nat
             /\ \E k \in 1..n : a.span = spans[k]
             /\ a.span.first < s.first
             /\ a.lane \in 1..L /\ a.span.last <= acc.ends[a.lane]
  <2>1. PICK k \in 1..(n - 1) : a.span = spans[k]
    BY DEF Packed
  <2>2. a \in Interval
    BY <1>4
  <2>3. a.span \in Span
    BY <2>2 DEF Interval
  <2>4. k \in 1..Len(spans) /\ k < n /\ k \in 1..n
    BY DEF SpanList
  <2>5. spans[k].first < spans[n].first
    BY <2>4 DEF SpanList
  <2>6. a.lane \in 1..L /\ a.span.last <= acc.ends[a.lane]
    BY DEF Packed
  <2> QED
    BY <2>1, <2>3, <2>4, <2>5, <2>6 DEF Span
<1>6. /\ \A l \in 1..L : \E a \in A : a.lane = l /\ a.span.last = acc.ends[l]
      /\ \A a, b \in A : a.lane = b.lane =>
           a = b \/ a.span.last < b.span.first \/ b.span.last < a.span.first
      /\ \/ L = 0
         \/ \E i \in 1..N : \A l \in 1..L : \E a \in A : a.lane = l /\ Crosses(a, i)
  BY DEF Packed
<1>7. n \in 1..n
  OBVIOUS
<1> HIDE DEF s, A, L
<1>8. CASE freeLane(acc.ends, s) # {}
  <2>1. PICK lane \in 1..L :
           /\ acc.ends[lane] < s.first
           /\ new \in Packing
           /\ Len(new.ends) = L
           /\ \A l \in 1..L : new.ends[l] = IF l = lane THEN s.last ELSE acc.ends[l]
           /\ new.intervals = A \cup {[span |-> s, lane |-> lane]}
    BY <1>1, <1>3, <1>8, PlaceFree DEF L, A
  <2> DEFINE it == [span |-> s, lane |-> lane]
  <2>2. it.span = s /\ it.lane = lane
    OBVIOUS
  <2> HIDE DEF new, it
  <2>3. \A a \in new.intervals : a \in A \/ a = it
    BY <2>1 DEF it
  <2>4. it \in new.intervals /\ \A a \in A : a \in new.intervals
    BY <2>1 DEF it
  <2>5. \A a \in A : a.lane = lane => a.span.last < s.first
    BY <1>2, <1>4a, <1>5, <2>1
  <2>6. ASSUME NEW a \in new.intervals
        PROVE  /\ \E k \in 1..n : a.span = spans[k]
               /\ a.lane \in 1..Len(new.ends)
               /\ a.span.last <= new.ends[a.lane]
    <3>1. CASE a = it
      <4>1. new.ends[lane] = s.last
        BY <2>1
      <4> QED
        BY <1>2, <1>7, <2>1, <2>2, <3>1, <4>1 DEF s
    <3>2. CASE a \in A /\ a.lane = lane
      BY <1>1, <1>2, <1>5, <2>1, <2>5, <3>2
    <3>3. CASE a \in A /\ a.lane # lane
      BY <1>5, <2>1, <3>3
    <3> QED
      BY <2>3, <3>1, <3>2, <3>3
  <2>7. ASSUME NEW l \in 1..L
        PROVE  \E a \in new.intervals : a.lane = l /\ a.span.last = new.ends[l]
    <3>1. CASE l = lane
      BY <2>1, <2>2, <2>4, <3>1
    <3>2. CASE l # lane
      BY <1>6, <2>1, <2>4, <3>2
    <3> QED
      BY <3>1, <3>2
  <2>8. ASSUME NEW a \in new.intervals, NEW b \in new.intervals, a.lane = b.lane
        PROVE  a = b \/ a.span.last < b.span.first \/ b.span.last < a.span.first
    <3>1. CASE a \in A /\ b \in A
      BY <1>6, <2>8, <3>1
    <3>2. CASE a \in A /\ b = it
      BY <2>2, <2>5, <2>8, <3>2
    <3>3. CASE a = it /\ b \in A
      BY <2>2, <2>5, <2>8, <3>3
    <3> QED
      BY <2>3, <3>1, <3>2, <3>3
  <2>9. \/ L = 0
        \/ \E i \in 1..N : \A l \in 1..L : \E a \in new.intervals : a.lane = l /\ Crosses(a, i)
    BY <1>6, <2>4
  <2> QED
    BY <2>1, <2>6, <2>7, <2>8, <2>9 DEF Packed, new, s
<1>9. CASE freeLane(acc.ends, s) = {}
  <2> DEFINE lane == L + 1
  <2>1. /\ \A l \in 1..L : s.first <= acc.ends[l]
        /\ new \in Packing
        /\ Len(new.ends) = lane
        /\ \A l \in 1..L : new.ends[l] = acc.ends[l]
        /\ new.ends[lane] = s.last
        /\ new.intervals = A \cup {[span |-> s, lane |-> lane]}
    BY <1>1, <1>3, <1>9, PlaceNew DEF L, A
  <2> DEFINE it == [span |-> s, lane |-> lane]
  <2>2. it.span = s /\ it.lane = lane
    OBVIOUS
  <2>2a. lane \in 1..lane /\ lane \notin 1..L /\ \A l \in 1..lane : l = lane \/ l \in 1..L
    BY <1>4a
  <2>2b. \A l \in 1..L : l \in 1..lane
    BY <1>4a
  <2> HIDE DEF new, it, lane
  <2>3. \A a \in new.intervals : a \in A \/ a = it
    BY <2>1 DEF it
  <2>4. it \in new.intervals /\ \A a \in A : a \in new.intervals
    BY <2>1 DEF it
  <2>5. \A a \in A : a.lane # lane
    BY <1>5, <2>2a
  <2>6. ASSUME NEW a \in new.intervals
        PROVE  /\ \E k \in 1..n : a.span = spans[k]
               /\ a.lane \in 1..Len(new.ends)
               /\ a.span.last <= new.ends[a.lane]
    <3>1. CASE a = it
      BY <1>2, <1>7, <2>1, <2>2, <2>2a, <3>1 DEF s
    <3>2. CASE a \in A
      BY <1>5, <2>1, <2>2b, <3>2
    <3> QED
      BY <2>3, <3>1, <3>2
  <2>7. ASSUME NEW l \in 1..lane
        PROVE  \E a \in new.intervals : a.lane = l /\ a.span.last = new.ends[l]
    <3>1. CASE l = lane
      BY <2>1, <2>2, <2>4, <3>1
    <3>2. CASE l \in 1..L
      BY <1>6, <2>1, <2>4, <3>2
    <3> QED
      BY <2>2a, <3>1, <3>2
  <2>8. ASSUME NEW a \in new.intervals, NEW b \in new.intervals, a.lane = b.lane
        PROVE  a = b \/ a.span.last < b.span.first \/ b.span.last < a.span.first
    <3>1. CASE a \in A /\ b \in A
      BY <1>6, <2>8, <3>1
    <3>2. CASE a = it /\ b = it
      BY <3>2
    <3> QED
      BY <2>2, <2>3, <2>5, <2>8, <3>1, <3>2
  <2>9. ASSUME NEW l \in 1..lane
        PROVE  \E a \in new.intervals : a.lane = l /\ Crosses(a, s.first)
    <3>1. CASE l = lane
      <4>1. Crosses(it, s.first)
        BY <1>1, <1>2, <2>2 DEF Crosses
      <4> QED
        BY <2>2, <2>4, <3>1, <4>1
    <3>2. CASE l \in 1..L
      <4>1. PICK a \in A : a.lane = l /\ a.span.last = acc.ends[l]
        BY <1>6, <3>2
      <4>2. a.span.first <= s.first /\ s.first <= a.span.last
        BY <1>2, <1>5, <2>1, <3>2, <4>1
      <4> QED
        BY <2>4, <4>1, <4>2 DEF Crosses
    <3> QED
      BY <2>2a, <3>1, <3>2
  <2>10. \E i \in 1..N : \A l \in 1..lane : \E a \in new.intervals : a.lane = l /\ Crosses(a, i)
    BY <1>1, <2>9
  <2> QED
    BY <2>1, <2>6, <2>7, <2>8, <2>10 DEF Packed, new, s
<1> QED
  BY <1>8, <1>9 DEF s

(* What packLanes returns.                                                 *)
LEMMA PackIs ==
  ASSUME NEW rows, RowList(rows)
  PROVE  Packed(packLanes(rows), Spans(rows), Len(Spans(rows)), Len(rows))
<1> DEFINE spans == Spans(rows)
           M == Len(spans)
           N == Len(rows)
           K == PackBy(spans)
           P(n) == Packed(K[n], spans, n, N)
           T == {n \in 0..M : P(n)}
<1>1. SpanList(spans, N) /\ N \in Nat
  BY SpansAre DEF RowList
<1>2. packLanes(rows) = K[M]
  BY Zenon DEF packLanes, PackBy
<1> HIDE DEF spans
<1>3. spans \in Seq(Span) /\ M \in Nat
  BY <1>1 DEF SpanList
<1>4. /\ NoLanes \in Packing /\ K[0] = NoLanes
      /\ \A n \in 1..M : K[n] = Place(K[n-1], spans[n])
  BY <1>3, PackEquation
<1> HIDE DEF K
<1>5. P(0)
  <2>1. NoLanes.intervals = {} /\ NoLanes.ends = <<>>
    BY DEF NoLanes
  <2>2. Len(NoLanes.ends) = 0
    BY <2>1
  <2>3. Packed(NoLanes, spans, 0, N)
    BY <1>4, <2>1, <2>2 DEF Packed
  <2> QED
    BY <1>4, <2>3
<1>6. ASSUME NEW n \in 1..M, P(n - 1) PROVE P(n)
  BY <1>1, <1>4, <1>6, PackedMore
<1> HIDE DEF P
<1>7. 0 \in T
  BY <1>3, <1>5
<1>8. ASSUME NEW n \in 0..M, n < M, n \in T PROVE n + 1 \in T
  <2>1. n + 1 \in 1..M /\ (n + 1) - 1 = n
    BY <1>3, <1>8
  <2>2. P(n + 1)
    BY <1>6, <1>8, <2>1
  <2> QED
    BY <2>1, <2>2
<1> HIDE DEF T
<1>9. \A n \in 0..M : n \in T
  BY <1>3, <1>7, <1>8, UpTo
<1>10. P(M)
  BY <1>3, <1>9 DEF T
<1> QED
  BY <1>2, <1>10 DEF P, spans

(* The intervals of a packing that cross row i.                            *)
Crossing(acc, i) == {a \in acc.intervals : a.span.first <= i /\ i <= a.span.last}

(* The intervals that cross a row have each a lane of their own.           *)
LEMMA CrossingIs ==
  ASSUME NEW acc, NEW spans, NEW n, NEW N, Packed(acc, spans, n, N), NEW i \in 1..N, N \in Nat
  PROVE  /\ \A a, b \in Crossing(acc, i) : a.lane = b.lane => a = b
         /\ Cardinality(Crossing(acc, i)) \in Nat
         /\ Cardinality(Crossing(acc, i)) <= Len(acc.ends)
         /\ (\A l \in 1..Len(acc.ends) : \E a \in Crossing(acc, i) : a.lane = l)
              => Cardinality(Crossing(acc, i)) = Len(acc.ends)
<1> DEFINE C == Crossing(acc, i)
           L == Len(acc.ends)
           f == [a \in C |-> a.lane]
<1>1. acc.ends \in Seq(Nat) /\ acc.intervals \in SUBSET Interval /\ L \in Nat
  <2>1. acc \in Packing
    BY DEF Packed
  <2>2. acc.ends \in Seq(Nat) /\ acc.intervals \in SUBSET Interval
    BY <2>1 DEF Packing
  <2> QED
    BY <2>2
<1>2. ASSUME NEW a \in C
      PROVE  /\ a.span.first \in Nat /\ a.span.last \in Nat
             /\ a.lane \in 1..L /\ a \in acc.intervals
             /\ a.span.first <= i /\ i <= a.span.last
  <2>1. a \in acc.intervals /\ a \in Interval /\ a.span.first <= i /\ i <= a.span.last
    BY <1>1 DEF Crossing
  <2>2. a.span \in Span
    BY <2>1 DEF Interval
  <2>3. a.lane \in 1..L
    BY <2>1 DEF Packed
  <2> QED
    BY <2>1, <2>2, <2>3 DEF Span
<1>3. ASSUME NEW a \in C, NEW b \in C, a.lane = b.lane PROVE a = b
  <2>1. a = b \/ a.span.last < b.span.first \/ b.span.last < a.span.first
    BY <1>2, <1>3 DEF Packed
  <2>2. i \in Nat
    OBVIOUS
  <2> QED
    BY <1>2, <2>1, <2>2
<1> HIDE DEF L, C
<1>4. f \in [C -> 1..L] /\ \A a \in C : f[a] = a.lane
  BY <1>2
<1> HIDE DEF f
<1>5. f \in Injection(C, 1..L)
  BY <1>3, <1>4 DEF Injection, IsInjective
<1>6. IsFiniteSet(1..L) /\ Cardinality(1..L) = L
  BY <1>1, FS_Interval
<1>7. /\ IsFiniteSet(C) /\ Cardinality(C) <= L
      /\ Cardinality(C) = L <=> f \in Surjection(C, 1..L)
  BY <1>5, <1>6, FS_Injection
<1>8. Cardinality(C) \in Nat
  BY <1>7, FS_CardinalityType
<1>9. ASSUME \A l \in 1..L : \E a \in C : a.lane = l PROVE Cardinality(C) = L
  <2>1. f \in Surjection(C, 1..L)
    BY <1>4, <1>9 DEF Surjection
  <2> QED
    BY <1>7, <2>1
<1> QED
  BY <1>3, <1>7, <1>8, <1>9 DEF L, C

(* LanesPacked follows from the invariant.                                 *)
LEMMA LanesFollow ==
  ASSUME ListInv PROVE LanesPacked
<1> DEFINE rows == selectVisibleExchanges
           lanes == packLanes(rows)
           crossing(i) == Crossing(lanes, i)
           N == Len(rows)
           L == Len(lanes.ends)
           S == {Cardinality(crossing(i)) : i \in DOMAIN rows} \cup {0}
<1>1. RowList(rows)
  BY VisibleIdsAre
<1>2. N \in Nat /\ DOMAIN rows = 1..N
  BY <1>1 DEF RowList
<1>3. Packed(lanes, Spans(rows), Len(Spans(rows)), N)
  BY <1>1, PackIs
<1> HIDE DEF rows, lanes
<1>4. ASSUME NEW i \in 1..N
      PROVE  /\ \A a, b \in crossing(i) : a.lane = b.lane => a = b
             /\ Cardinality(crossing(i)) \in Nat /\ Cardinality(crossing(i)) <= L
             /\ (\A l \in 1..L : \E a \in crossing(i) : a.lane = l)
                  => Cardinality(crossing(i)) = L
  BY <1>2, <1>3, CrossingIs
<1>5. L \in Nat
  <2>1. lanes \in Packing
    BY <1>3 DEF Packed
  <2>2. lanes.ends \in Seq(Nat)
    BY <2>1 DEF Packing
  <2> QED
    BY <2>2
<1>6. \/ L = 0
      \/ \E i \in 1..N : \A l \in 1..L : \E a \in lanes.intervals : a.lane = l /\ Crosses(a, i)
  BY <1>3 DEF Packed
<1>7. L \in S
  <2>1. CASE L = 0
    BY <2>1
  <2>2. ASSUME NEW i \in 1..N,
               \A l \in 1..L : \E a \in lanes.intervals : a.lane = l /\ Crosses(a, i)
        PROVE  L \in S
    <3>1. \A l \in 1..L : \E a \in crossing(i) : a.lane = l
      BY <2>2 DEF Crosses, Crossing
    <3>2. Cardinality(crossing(i)) = L
      BY <1>4, <3>1
    <3> QED
      BY <1>2, <3>2
  <2> QED
    BY <1>6, <2>1, <2>2
<1>8. S \in SUBSET Int /\ \A y \in S : y <= L
  <2> HIDE DEF crossing, L
  <2>1. \A i \in 1..N : Cardinality(crossing(i)) \in Nat /\ Cardinality(crossing(i)) <= L
    BY <1>4
  <2> QED
    BY <1>2, <1>5, <2>1
<1>9. Max(S) = L
  <2> HIDE DEF S, L
  <2> QED
    BY <1>7, <1>8, GreatestOf
<1> QED
  BY <1>2, <1>4, <1>9, Zenon DEF LanesPacked, Crossing, rows, lanes

(* Traces that share a lane of the rail never share a row, and the rail    *)
(* has as many lanes as there are traces that cross one row, no more: the  *)
(* greedy packing of packLanes is the best there is.                       *)
THEOREM LanesPackedHolds ==
  Spec => []LanesPacked
<1>1. ListInv => LanesPacked
  BY LanesFollow
<1> QED
  BY <1>1, ListInvariant, PTL
=============================================================================
