---------------------------- MODULE CatalogProofs ----------------------------
(***************************************************************************)
(* Proofs about what becomes of what the providers show: CatalogReader,    *)
(* for any catalogues, page sizes and limits, and ReleaseMerge, for any    *)
(* releases, months and tolerances and batches of any length.              *)
(***************************************************************************)
EXTENDS ReleaseMerge, CatalogReader, FiniteSetTheorems, SequenceTheorems, WellFoundedInduction, TLAPS

-----------------------------------------------------------------------------
(* Counting up, and what a fold is made of.                                *)

LEMMA LeastThereIs ==
  ASSUME NEW M, M \subseteq Nat, M # {}
  PROVE  \E i \in M : \A j \in M : i <= j
<1> DEFINE R == {p \in Nat \X Nat : p[1] < p[2]}
<1>1. IsWellFoundedOn(R, Nat)
  BY NatLessThanWellFounded DEF OpToRel
<1>2. PICK i \in M : \A j \in M : <<j, i>> \notin R
  <2> HIDE DEF R
  <2> QED BY <1>1, WFMin
<1>3. ASSUME NEW j \in M
      PROVE  i <= j
  <2>1. i \in Nat /\ j \in Nat /\ (j < i => <<j, i>> \in R)
    OBVIOUS
  <2> HIDE DEF R
  <2> QED BY <1>2, <2>1
<1> QED BY <1>3

LEMMA CountingUp ==
  ASSUME NEW n \in Nat, NEW T, 0 \in T, \A k \in 0 .. n - 1 : k \in T => k + 1 \in T
  PROVE  n \in T
<1> SUFFICES ASSUME n \notin T
             PROVE  FALSE
  OBVIOUS
<1> DEFINE M == {i \in 0 .. n : i \notin T}
<1>1. PICK i \in M : \A j \in M : i <= j
  <2>1. M \subseteq Nat /\ M # {}
    OBVIOUS
  <2> HIDE DEF M
  <2> QED BY <2>1, LeastThereIs
<1>2. i \in 1 .. n
  OBVIOUS
<1>3. i - 1 \in 0 .. n - 1 /\ ~(i <= i - 1) /\ i - 1 + 1 = i
  BY <1>2
<1> QED BY <1>1, <1>3

LEMMA TopOfPrefix ==
  ASSUME NEW n \in Nat, NEW k \in 1 .. n
  PROVE  /\ 1 .. k \in SUBSET (1 .. n) /\ 1 .. k # {} /\ Max(1 .. k) = k
         /\ (1 .. k) \ {k} = 1 .. k - 1
<1>1. \A m \in 1 .. k : (\A j \in 1 .. k : m >= j) <=> m = k
  OBVIOUS
<1>2. Max(1 .. k) = k
  BY <1>1 DEF Max
<1> QED BY <1>2

LEMMA TopOfSome ==
  ASSUME NEW n \in Nat, NEW t \in SUBSET (1 .. n), t # {}
  PROVE  Max(t) \in t /\ \A j \in t : Max(t) >= j
<1> DEFINE M == {n - j : j \in t}
<1>1. M \subseteq Nat /\ M # {}
  OBVIOUS
<1>2. PICK i \in M : \A j \in M : i <= j
  <2> HIDE DEF M
  <2> QED BY <1>1, LeastThereIs
<1>3. PICK x \in t : i = n - x
  OBVIOUS
<1>4. \A j \in t : x >= j
  <2> TAKE j \in t
  <2>1. n - j \in M
    OBVIOUS
  <2>2. n - x <= n - j
    BY <2>1, <1>2, <1>3
  <2> QED BY <2>2
<1>5. \E m \in t : \A j \in t : m >= j
  BY <1>4
<1> QED BY <1>5 DEF Max

\* What F makes of the elements of s at the positions in t, in their order: the
\* values on the way, position by position.
Way(h, F, b, n, s, t) ==
  h[0] = b /\ \A k \in 1 .. n : h[k] = IF k \in t THEN F[<<h[k - 1], s[k]>>] ELSE h[k - 1]

LEMMA Steps ==
  ASSUME NEW D, NEW S, NEW F \in [D \X S -> D], NEW b \in D, NEW n \in Nat,
         NEW s \in [1 .. n -> S], NEW t
  PROVE  \E h \in [0 .. n -> D] : Way(h, F, b, n, s, t)
<1> DEFINE T == {m \in 0 .. n : \E h \in [0 .. m -> D] : Way(h, F, b, m, s, t)}
<1>1. 0 \in T
  <2> DEFINE h == [k \in 0 .. 0 |-> b]
  <2>1. h \in [0 .. 0 -> D] /\ h[0] = b
    OBVIOUS
  <2> HIDE DEF h
  <2>2. Way(h, F, b, 0, s, t)
    BY <2>1 DEF Way
  <2> QED BY <2>1, <2>2
<1>2. ASSUME NEW m \in 0 .. n - 1, m \in T
      PROVE  m + 1 \in T
  <2>1. PICK h \in [0 .. m -> D] : Way(h, F, b, m, s, t)
    BY <1>2
  <2> DEFINE next == IF m + 1 \in t THEN F[<<h[m], s[m + 1]>>] ELSE h[m]
             g == [k \in 0 .. m + 1 |-> IF k = m + 1 THEN next ELSE h[k]]
  <2>2. next \in D
    OBVIOUS
  <2>3. g \in [0 .. m + 1 -> D] /\ g[m + 1] = next /\ \A k \in 0 .. m : g[k] = h[k]
    <3> HIDE DEF next
    <3> QED BY <2>2
  <2> HIDE DEF g
  <2>4. ASSUME NEW k \in 1 .. m + 1
        PROVE  g[k] = IF k \in t THEN F[<<g[k - 1], s[k]>>] ELSE g[k - 1]
    <3>1. CASE k = m + 1
      <4>1. k - 1 = m /\ m \in 0 .. m
        BY <3>1
      <4>2. g[k - 1] = h[m]
        BY <2>3, <4>1
      <4> QED BY <2>3, <3>1, <4>2
    <3>2. CASE k # m + 1
      <4>1. k \in 1 .. m /\ k - 1 \in 0 .. m /\ k \in 0 .. m
        BY <3>2
      <4> QED BY <4>1, <2>1, <2>3 DEF Way
    <3> QED BY <3>1, <3>2
  <2>5. Way(g, F, b, m + 1, s, t)
    <3>1. g[0] = b
      BY <2>1, <2>3 DEF Way
    <3> QED BY <2>4, <3>1 DEF Way
  <2>6. m + 1 \in 0 .. n
    OBVIOUS
  <2> QED BY <2>3, <2>5, <2>6
<1>3. n \in T
  <2> HIDE DEF T
  <2> QED BY <1>1, <1>2, CountingUp
<1> QED BY <1>3

\* Two such ways agree as far as their positions do, and stand still without any.
LEMMA SameSteps ==
  ASSUME NEW F, NEW b, NEW n \in Nat, NEW s, NEW t, NEW u, NEW m \in 0 .. n,
         NEW h, Way(h, F, b, n, s, t), NEW g, Way(g, F, b, n, s, u),
         \A k \in 1 .. m : k \in t <=> k \in u
  PROVE  h[m] = g[m]
<1> DEFINE T == {k \in 0 .. m : h[k] = g[k]}
<1>1. 0 \in T
  BY DEF Way
<1>2. ASSUME NEW k \in 0 .. m - 1, k \in T
      PROVE  k + 1 \in T
  <2>1. k + 1 \in 1 .. n /\ k + 1 \in 1 .. m /\ k + 1 \in 0 .. m /\ k + 1 - 1 = k
    OBVIOUS
  <2> DEFINE j == k + 1
  <2>2. /\ h[j] = IF j \in t THEN F[<<h[j - 1], s[j]>>] ELSE h[j - 1]
        /\ g[j] = IF j \in u THEN F[<<g[j - 1], s[j]>>] ELSE g[j - 1]
        /\ j \in t <=> j \in u
    BY <2>1 DEF Way
  <2>3. h[k] = g[k]
    BY <1>2
  <2> QED BY <2>1, <2>2, <2>3
<1>3. n \in Nat /\ m \in T
  <2>1. m \in Nat
    OBVIOUS
  <2> HIDE DEF T
  <2> QED BY <1>1, <1>2, <2>1, CountingUp
<1> QED BY <1>3

LEMMA StandStill ==
  ASSUME NEW F, NEW b, NEW n \in Nat, NEW s, NEW t, NEW x \in 0 .. n,
         NEW h, Way(h, F, b, n, s, t), \A k \in x + 1 .. n : k \notin t
  PROVE  h[n] = h[x]
<1> DEFINE T == {k \in 0 .. n - x : h[x + k] = h[x]}
<1>1. 0 \in T
  OBVIOUS
<1>2. ASSUME NEW k \in 0 .. n - x - 1, k \in T
      PROVE  k + 1 \in T
  <2> DEFINE j == x + (k + 1)
  <2>1. j \in x + 1 .. n /\ j \in 1 .. n /\ j - 1 = x + k /\ k + 1 \in 0 .. n - x
    OBVIOUS
  <2>2. h[j] = h[j - 1]
    <3> HIDE DEF j
    <3> QED BY <2>1 DEF Way
  <2> QED BY <1>2, <2>1, <2>2
<1>3. n - x \in T
  <2>1. n - x \in Nat
    OBVIOUS
  <2> HIDE DEF T
  <2> QED BY <1>1, <1>2, <2>1, CountingUp
<1>4. x + (n - x) = n
  OBVIOUS
<1> QED BY <1>3, <1>4

\* The function by which FoldLeft is defined exists.
IsStep(F, D, S) == F \in [D \X S -> D]
FoldsAll(g, F, b, s, D) ==
  /\ g \in [SUBSET (DOMAIN s) -> D]
  /\ \A t \in SUBSET (DOMAIN s) : g[t] = IF t = {} THEN b ELSE F[<<g[t \ {Max(t)}], s[Max(t)]>>]

LEMMA FoldExists ==
  ASSUME NEW D, NEW S, NEW F, IsStep(F, D, S), NEW b \in D, NEW s \in Seq(S)
  PROVE  \E g : FoldsAll(g, F, b, s, D)
<1> DEFINE n == Len(s)
           W(t) == CHOOSE h \in [0 .. n -> D] : Way(h, F, b, n, s, t)
           g == [t \in SUBSET (1 .. n) |-> W(t)[n]]
<1>1. /\ n \in Nat /\ DOMAIN s = 1 .. n /\ s \in [1 .. n -> S]
      /\ F \in [D \X S -> D]
  BY DEF IsStep
<1>2. ASSUME NEW t
      PROVE  W(t) \in [0 .. n -> D] /\ Way(W(t), F, b, n, s, t)
  <2>1. \E h \in [0 .. n -> D] : Way(h, F, b, n, s, t)
    <3> HIDE DEF n
    <3> QED BY <1>1, Steps
  <2> QED BY <2>1
<1> HIDE DEF n, W
<1>3. g \in [SUBSET (1 .. n) -> D]
  <2>1. \A t \in SUBSET (1 .. n) : W(t)[n] \in D
    BY <1>1, <1>2
  <2> QED BY <2>1
<1>4. ASSUME NEW t \in SUBSET (1 .. n)
      PROVE  g[t] = IF t = {} THEN b ELSE F[<<g[t \ {Max(t)}], s[Max(t)]>>]
  <2>1. CASE t = {}
    <3>1. 0 \in 0 .. n /\ \A k \in 0 + 1 .. n : k \notin t
      BY <1>1, <2>1
    <3>2. W(t)[n] = W(t)[0]
      BY <1>1, <1>2, <3>1, StandStill
    <3>3. W(t)[0] = b
      BY <1>2 DEF Way
    <3> QED BY <2>1, <3>2, <3>3
  <2>2. CASE t # {}
    <3> DEFINE x == Max(t)
               u == t \ {x}
    <3>1. x \in t /\ \A j \in t : x >= j
      BY <1>1, <2>2, TopOfSome
    <3> HIDE DEF x
    <3>2. x \in 1 .. n /\ u \in SUBSET (1 .. n) /\ x \in 0 .. n /\ x - 1 \in 0 .. n
      BY <1>1, <3>1
    <3>3. \A k \in x + 1 .. n : k \notin t
      BY <1>1, <3>1, <3>2
    <3>4. W(t)[n] = W(t)[x]
      BY <1>1, <1>2, <3>2, <3>3, StandStill
    <3>5. W(t)[x] = F[<<W(t)[x - 1], s[x]>>]
      BY <1>2, <3>1, <3>2 DEF Way
    <3>6. W(u)[n] = W(u)[x - 1]
      <4>1. \A k \in (x - 1) + 1 .. n : k \notin u
        BY <1>1, <3>2, <3>3
      <4> HIDE DEF u
      <4> QED BY <1>1, <1>2, <3>2, <4>1, StandStill
    <3>7. W(t)[x - 1] = W(u)[x - 1]
      <4>1. \A k \in 1 .. x - 1 : k \in t <=> k \in u
        BY <3>2
      <4>2. Way(W(t), F, b, n, s, t) /\ Way(W(u), F, b, n, s, u)
        BY <1>2
      <4> HIDE DEF u
      <4> DEFINE m == x - 1
      <4>3. m \in 0 .. n /\ \A k \in 1 .. m : k \in t <=> k \in u
        BY <3>2, <4>1
      <4> HIDE DEF m
      <4>4. W(t)[m] = W(u)[m]
        BY <1>1, <4>2, <4>3, SameSteps
      <4> QED BY <4>4 DEF m
    <3> QED BY <2>2, <3>2, <3>4, <3>5, <3>6, <3>7 DEF x
  <2> QED BY <2>1, <2>2
<1> HIDE DEF g
<1> QED BY <1>1, <1>3, <1>4 DEF FoldsAll

\* What holds at first, and after every step if it did before, holds at the end.
Chained(h, F, s, n, D) ==
  \A k \in 1 .. n : h[1 .. k - 1] \in D => h[1 .. k] = F[<<h[1 .. k - 1], s[k]>>]
KeptBy(I, F, s, n, D) ==
  \A k \in 0 .. n - 1, d \in D : <<k, d>> \in I => <<k + 1, F[<<d, s[k + 1]>>]>> \in I

LEMMA AlongTheWay ==
  ASSUME NEW D, NEW S, NEW F \in [D \X S -> D], NEW n \in Nat, NEW s \in [1 .. n -> S], NEW h,
         h[{}] \in D, Chained(h, F, s, n, D),
         NEW I, <<0, h[{}]>> \in I, KeptBy(I, F, s, n, D)
  PROVE  h[1 .. n] \in D /\ <<n, h[1 .. n]>> \in I
<1> DEFINE T == {k \in 0 .. n : h[1 .. k] \in D /\ <<k, h[1 .. k]>> \in I}
<1>1. 0 \in T
  <2>1. 1 .. 0 = {}
    OBVIOUS
  <2> QED BY <2>1
<1>2. ASSUME NEW k \in 0 .. n - 1, k \in T
      PROVE  k + 1 \in T
  <2> DEFINE j == k + 1
  <2>1. j \in 1 .. n /\ j \in 0 .. n /\ j - 1 = k
    OBVIOUS
  <2>2. h[1 .. k] \in D /\ <<k, h[1 .. k]>> \in I
    BY <1>2
  <2>3. <<j, F[<<h[1 .. k], s[j]>>]>> \in I
    BY <2>2 DEF KeptBy
  <2> HIDE DEF j
  <2>4. h[1 .. j] = F[<<h[1 .. k], s[j]>>]
    BY <2>1, <2>2 DEF Chained
  <2>5. h[1 .. j] \in D
    BY <2>1, <2>2, <2>4
  <2> QED BY <2>1, <2>3, <2>4, <2>5 DEF j
<1> HIDE DEF T
<1>3. n \in T
  BY <1>1, <1>2, CountingUp
<1> QED BY <1>3 DEF T

-----------------------------------------------------------------------------
(* The folds of the models: what holds of the first value, and after every   *)
(* element if it did before, holds of the result.  I says it, as the set of  *)
(* pairs of a number of elements and a value of which it holds.              *)

LEMMA SaveFold ==
  ASSUME NEW D, NEW S, NEW b \in D, NEW s \in Seq(S),
         \A d \in D, x \in S : Save(d, x) \in D,
         NEW I, <<0, b>> \in I,
         \A k \in 0 .. Len(s) - 1, d \in D : <<k, d>> \in I => <<k + 1, Save(d, s[k + 1])>> \in I
  PROVE  FoldLeft(Save, b, s) \in D /\ <<Len(s), FoldLeft(Save, b, s)>> \in I
<1> DEFINE n == Len(s)
           F == [p \in D \X S |-> Save(p[1], p[2])]
           Solves(h) == h = [t \in SUBSET (DOMAIN s) |->
                               IF t = {} THEN b ELSE Save(h[t \ {Max(t)}], s[Max(t)])]
<1>1. n \in Nat /\ DOMAIN s = 1 .. n /\ s \in [1 .. n -> S] /\ b \in D
  OBVIOUS
<1>2. F \in [D \X S -> D] /\ \A d \in D, x \in S : F[<<d, x>>] = Save(d, x)
  OBVIOUS
<1> HIDE DEF F
<1>3. PICK g : FoldsAll(g, F, b, s, D)
  BY <1>1, <1>2, FoldExists DEF IsStep
<1>4. ASSUME NEW t \in SUBSET (DOMAIN s)
      PROVE  g[t] = IF t = {} THEN b ELSE Save(g[t \ {Max(t)}], s[Max(t)])
  <2>1. CASE t # {}
    <3>1. Max(t) \in 1 .. n /\ t \ {Max(t)} \in SUBSET (DOMAIN s)
      BY <1>1, <2>1, TopOfSome
    <3>2. g[t \ {Max(t)}] \in D /\ s[Max(t)] \in S
      BY <1>1, <1>3, <3>1 DEF FoldsAll
    <3> QED BY <1>2, <1>3, <2>1, <3>2 DEF FoldsAll
  <2> QED BY <1>3, <2>1 DEF FoldsAll
<1>5. Solves(g)
  BY <1>3, <1>4 DEF FoldsAll
<1>6. \E h : Solves(h) /\ FoldLeft(Save, b, s) = h[DOMAIN s]
  BY <1>5 DEF FoldLeft, MapThenFoldSet
<1>7. PICK h : Solves(h) /\ FoldLeft(Save, b, s) = h[DOMAIN s]
  BY <1>6
<1>8. h[{}] \in D /\ <<0, h[{}]>> \in I
  BY <1>1, <1>7
<1>9. Chained(h, F, s, n, D)
  <2> SUFFICES ASSUME NEW k \in 1 .. n, h[1 .. k - 1] \in D
               PROVE  h[1 .. k] = F[<<h[1 .. k - 1], s[k]>>]
    BY DEF Chained
  <2>1. /\ 1 .. k \in SUBSET (1 .. n) /\ 1 .. k # {} /\ Max(1 .. k) = k
        /\ (1 .. k) \ {k} = 1 .. k - 1
    BY <1>1, TopOfPrefix
  <2>2. h[1 .. k] = Save(h[1 .. k - 1], s[k])
    BY <1>1, <1>7, <2>1
  <2>3. s[k] \in S
    BY <1>1
  <2> QED BY <1>2, <2>2, <2>3
<1>10. KeptBy(I, F, s, n, D)
  <2> SUFFICES ASSUME NEW k \in 0 .. n - 1, NEW d \in D, <<k, d>> \in I
               PROVE  <<k + 1, F[<<d, s[k + 1]>>]>> \in I
    BY DEF KeptBy
  <2>1. s[k + 1] \in S
    BY <1>1
  <2> QED BY <1>2, <2>1
<1> HIDE DEF n, Solves
<1>11. h[1 .. n] \in D /\ <<n, h[1 .. n]>> \in I
  BY <1>1, <1>2, <1>8, <1>9, <1>10, AlongTheWay
<1> QED BY <1>1, <1>7, <1>11 DEF n

LEMMA StreamFold ==
  ASSUME NEW featuredOnly, NEW D, NEW S, NEW b \in D, NEW s \in Seq(S),
         \A d \in D, x \in S : AppendSpotifyRelease(d, x, featuredOnly) \in D,
         NEW I, <<0, b>> \in I,
         \A k \in 0 .. Len(s) - 1, d \in D : <<k, d>> \in I => <<k + 1, AppendSpotifyRelease(d, s[k + 1], featuredOnly)>> \in I
  PROVE  AppendSpotifyPage(b, s, featuredOnly) \in D /\ <<Len(s), AppendSpotifyPage(b, s, featuredOnly)>> \in I
<1> DEFINE n == Len(s)
           F == [p \in D \X S |-> AppendSpotifyRelease(p[1], p[2], featuredOnly)]
           Solves(h) == h = [t \in SUBSET (DOMAIN s) |->
                               IF t = {} THEN b ELSE AppendSpotifyRelease(h[t \ {Max(t)}], s[Max(t)], featuredOnly)]
<1>1. n \in Nat /\ DOMAIN s = 1 .. n /\ s \in [1 .. n -> S] /\ b \in D
  OBVIOUS
<1>2. F \in [D \X S -> D] /\ \A d \in D, x \in S : F[<<d, x>>] = AppendSpotifyRelease(d, x, featuredOnly)
  OBVIOUS
<1> HIDE DEF F
<1>3. PICK g : FoldsAll(g, F, b, s, D)
  BY <1>1, <1>2, FoldExists DEF IsStep
<1>4. ASSUME NEW t \in SUBSET (DOMAIN s)
      PROVE  g[t] = IF t = {} THEN b ELSE AppendSpotifyRelease(g[t \ {Max(t)}], s[Max(t)], featuredOnly)
  <2>1. CASE t # {}
    <3>1. Max(t) \in 1 .. n /\ t \ {Max(t)} \in SUBSET (DOMAIN s)
      BY <1>1, <2>1, TopOfSome
    <3>2. g[t \ {Max(t)}] \in D /\ s[Max(t)] \in S
      BY <1>1, <1>3, <3>1 DEF FoldsAll
    <3> QED BY <1>2, <1>3, <2>1, <3>2 DEF FoldsAll
  <2> QED BY <1>3, <2>1 DEF FoldsAll
<1>5. Solves(g)
  BY <1>3, <1>4 DEF FoldsAll
<1>6. \E h : Solves(h) /\ AppendSpotifyPage(b, s, featuredOnly) = h[DOMAIN s]
  BY <1>5 DEF AppendSpotifyPage, FoldLeft, MapThenFoldSet
<1>7. PICK h : Solves(h) /\ AppendSpotifyPage(b, s, featuredOnly) = h[DOMAIN s]
  BY <1>6
<1>8. h[{}] \in D /\ <<0, h[{}]>> \in I
  BY <1>1, <1>7
<1>9. Chained(h, F, s, n, D)
  <2> SUFFICES ASSUME NEW k \in 1 .. n, h[1 .. k - 1] \in D
               PROVE  h[1 .. k] = F[<<h[1 .. k - 1], s[k]>>]
    BY DEF Chained
  <2>1. /\ 1 .. k \in SUBSET (1 .. n) /\ 1 .. k # {} /\ Max(1 .. k) = k
        /\ (1 .. k) \ {k} = 1 .. k - 1
    BY <1>1, TopOfPrefix
  <2>2. h[1 .. k] = AppendSpotifyRelease(h[1 .. k - 1], s[k], featuredOnly)
    BY <1>1, <1>7, <2>1
  <2>3. s[k] \in S
    BY <1>1
  <2> QED BY <1>2, <2>2, <2>3
<1>10. KeptBy(I, F, s, n, D)
  <2> SUFFICES ASSUME NEW k \in 0 .. n - 1, NEW d \in D, <<k, d>> \in I
               PROVE  <<k + 1, F[<<d, s[k + 1]>>]>> \in I
    BY DEF KeptBy
  <2>1. s[k + 1] \in S
    BY <1>1
  <2> QED BY <1>2, <2>1
<1> HIDE DEF n, Solves
<1>11. h[1 .. n] \in D /\ <<n, h[1 .. n]>> \in I
  BY <1>1, <1>2, <1>8, <1>9, <1>10, AlongTheWay
<1> QED BY <1>1, <1>7, <1>11 DEF n

LEMMA AppearancesFold ==
  ASSUME NEW D, NEW S, NEW b \in D, NEW s \in Seq(S),
         \A d \in D, x \in S : MergeAppearance(d, x) \in D,
         NEW I, <<0, b>> \in I,
         \A k \in 0 .. Len(s) - 1, d \in D : <<k, d>> \in I => <<k + 1, MergeAppearance(d, s[k + 1])>> \in I
  PROVE  MergeAppearances(b, s) \in D /\ <<Len(s), MergeAppearances(b, s)>> \in I
<1> DEFINE n == Len(s)
           F == [p \in D \X S |-> MergeAppearance(p[1], p[2])]
           Solves(h) == h = [t \in SUBSET (DOMAIN s) |->
                               IF t = {} THEN b ELSE MergeAppearance(h[t \ {Max(t)}], s[Max(t)])]
<1>1. n \in Nat /\ DOMAIN s = 1 .. n /\ s \in [1 .. n -> S] /\ b \in D
  OBVIOUS
<1>2. F \in [D \X S -> D] /\ \A d \in D, x \in S : F[<<d, x>>] = MergeAppearance(d, x)
  OBVIOUS
<1> HIDE DEF F
<1>3. PICK g : FoldsAll(g, F, b, s, D)
  BY <1>1, <1>2, FoldExists DEF IsStep
<1>4. ASSUME NEW t \in SUBSET (DOMAIN s)
      PROVE  g[t] = IF t = {} THEN b ELSE MergeAppearance(g[t \ {Max(t)}], s[Max(t)])
  <2>1. CASE t # {}
    <3>1. Max(t) \in 1 .. n /\ t \ {Max(t)} \in SUBSET (DOMAIN s)
      BY <1>1, <2>1, TopOfSome
    <3>2. g[t \ {Max(t)}] \in D /\ s[Max(t)] \in S
      BY <1>1, <1>3, <3>1 DEF FoldsAll
    <3> QED BY <1>2, <1>3, <2>1, <3>2 DEF FoldsAll
  <2> QED BY <1>3, <2>1 DEF FoldsAll
<1>5. Solves(g)
  BY <1>3, <1>4 DEF FoldsAll
<1>6. \E h : Solves(h) /\ MergeAppearances(b, s) = h[DOMAIN s]
  BY <1>5 DEF MergeAppearances, FoldLeft, MapThenFoldSet
<1>7. PICK h : Solves(h) /\ MergeAppearances(b, s) = h[DOMAIN s]
  BY <1>6
<1>8. h[{}] \in D /\ <<0, h[{}]>> \in I
  BY <1>1, <1>7
<1>9. Chained(h, F, s, n, D)
  <2> SUFFICES ASSUME NEW k \in 1 .. n, h[1 .. k - 1] \in D
               PROVE  h[1 .. k] = F[<<h[1 .. k - 1], s[k]>>]
    BY DEF Chained
  <2>1. /\ 1 .. k \in SUBSET (1 .. n) /\ 1 .. k # {} /\ Max(1 .. k) = k
        /\ (1 .. k) \ {k} = 1 .. k - 1
    BY <1>1, TopOfPrefix
  <2>2. h[1 .. k] = MergeAppearance(h[1 .. k - 1], s[k])
    BY <1>1, <1>7, <2>1
  <2>3. s[k] \in S
    BY <1>1
  <2> QED BY <1>2, <2>2, <2>3
<1>10. KeptBy(I, F, s, n, D)
  <2> SUFFICES ASSUME NEW k \in 0 .. n - 1, NEW d \in D, <<k, d>> \in I
               PROVE  <<k + 1, F[<<d, s[k + 1]>>]>> \in I
    BY DEF KeptBy
  <2>1. s[k + 1] \in S
    BY <1>1
  <2> QED BY <1>2, <2>1
<1> HIDE DEF n, Solves
<1>11. h[1 .. n] \in D /\ <<n, h[1 .. n]>> \in I
  BY <1>1, <1>2, <1>8, <1>9, <1>10, AlongTheWay
<1> QED BY <1>1, <1>7, <1>11 DEF n

LEMMA CollectionsFold ==
  ASSUME NEW D, NEW S, << >> \in D, NEW s \in Seq(S),
         \A d \in D, x \in S : KeepCollection(d, x) \in D,
         NEW I, <<0, << >> >> \in I,
         \A k \in 0 .. Len(s) - 1, d \in D : <<k, d>> \in I => <<k + 1, KeepCollection(d, s[k + 1])>> \in I
  PROVE  KeepCollections(s) \in D /\ <<Len(s), KeepCollections(s)>> \in I
<1> DEFINE n == Len(s)
           F == [p \in D \X S |-> KeepCollection(p[1], p[2])]
           Solves(h) == h = [t \in SUBSET (DOMAIN s) |->
                               IF t = {} THEN << >> ELSE KeepCollection(h[t \ {Max(t)}], s[Max(t)])]
<1>1. n \in Nat /\ DOMAIN s = 1 .. n /\ s \in [1 .. n -> S] /\ << >> \in D
  OBVIOUS
<1>2. F \in [D \X S -> D] /\ \A d \in D, x \in S : F[<<d, x>>] = KeepCollection(d, x)
  OBVIOUS
<1> HIDE DEF F
<1>3. PICK g : FoldsAll(g, F, << >>, s, D)
  BY <1>1, <1>2, FoldExists DEF IsStep
<1>4. ASSUME NEW t \in SUBSET (DOMAIN s)
      PROVE  g[t] = IF t = {} THEN << >> ELSE KeepCollection(g[t \ {Max(t)}], s[Max(t)])
  <2>1. CASE t # {}
    <3>1. Max(t) \in 1 .. n /\ t \ {Max(t)} \in SUBSET (DOMAIN s)
      BY <1>1, <2>1, TopOfSome
    <3>2. g[t \ {Max(t)}] \in D /\ s[Max(t)] \in S
      BY <1>1, <1>3, <3>1 DEF FoldsAll
    <3> QED BY <1>2, <1>3, <2>1, <3>2 DEF FoldsAll
  <2> QED BY <1>3, <2>1 DEF FoldsAll
<1>5. Solves(g)
  BY <1>3, <1>4 DEF FoldsAll
<1>6. \E h : Solves(h) /\ KeepCollections(s) = h[DOMAIN s]
  BY <1>5 DEF KeepCollections, FoldLeft, MapThenFoldSet
<1>7. PICK h : Solves(h) /\ KeepCollections(s) = h[DOMAIN s]
  BY <1>6
<1>8. h[{}] \in D /\ <<0, h[{}]>> \in I
  BY <1>1, <1>7
<1>9. Chained(h, F, s, n, D)
  <2> SUFFICES ASSUME NEW k \in 1 .. n, h[1 .. k - 1] \in D
               PROVE  h[1 .. k] = F[<<h[1 .. k - 1], s[k]>>]
    BY DEF Chained
  <2>1. /\ 1 .. k \in SUBSET (1 .. n) /\ 1 .. k # {} /\ Max(1 .. k) = k
        /\ (1 .. k) \ {k} = 1 .. k - 1
    BY <1>1, TopOfPrefix
  <2>2. h[1 .. k] = KeepCollection(h[1 .. k - 1], s[k])
    BY <1>1, <1>7, <2>1
  <2>3. s[k] \in S
    BY <1>1
  <2> QED BY <1>2, <2>2, <2>3
<1>10. KeptBy(I, F, s, n, D)
  <2> SUFFICES ASSUME NEW k \in 0 .. n - 1, NEW d \in D, <<k, d>> \in I
               PROVE  <<k + 1, F[<<d, s[k + 1]>>]>> \in I
    BY DEF KeptBy
  <2>1. s[k + 1] \in S
    BY <1>1
  <2> QED BY <1>2, <2>1
<1> HIDE DEF n, Solves
<1>11. h[1 .. n] \in D /\ <<n, h[1 .. n]>> \in I
  BY <1>1, <1>2, <1>8, <1>9, <1>10, AlongTheWay
<1> QED BY <1>1, <1>7, <1>11 DEF n

LEMMA TracksFold ==
  ASSUME NEW known, NEW D, NEW S, << >> \in D, NEW s \in Seq(S),
         \A d \in D, x \in S : CreditTrack(known, d, x) \in D,
         NEW I, <<0, << >> >> \in I,
         \A k \in 0 .. Len(s) - 1, d \in D : <<k, d>> \in I => <<k + 1, CreditTrack(known, d, s[k + 1])>> \in I
  PROVE  ITunesCredits(known, s) \in D /\ <<Len(s), ITunesCredits(known, s)>> \in I
<1> DEFINE n == Len(s)
           F == [p \in D \X S |-> CreditTrack(known, p[1], p[2])]
           Solves(h) == h = [t \in SUBSET (DOMAIN s) |->
                               IF t = {} THEN << >> ELSE CreditTrack(known, h[t \ {Max(t)}], s[Max(t)])]
<1>1. n \in Nat /\ DOMAIN s = 1 .. n /\ s \in [1 .. n -> S] /\ << >> \in D
  OBVIOUS
<1>2. F \in [D \X S -> D] /\ \A d \in D, x \in S : F[<<d, x>>] = CreditTrack(known, d, x)
  OBVIOUS
<1> HIDE DEF F
<1>3. PICK g : FoldsAll(g, F, << >>, s, D)
  BY <1>1, <1>2, FoldExists DEF IsStep
<1>4. ASSUME NEW t \in SUBSET (DOMAIN s)
      PROVE  g[t] = IF t = {} THEN << >> ELSE CreditTrack(known, g[t \ {Max(t)}], s[Max(t)])
  <2>1. CASE t # {}
    <3>1. Max(t) \in 1 .. n /\ t \ {Max(t)} \in SUBSET (DOMAIN s)
      BY <1>1, <2>1, TopOfSome
    <3>2. g[t \ {Max(t)}] \in D /\ s[Max(t)] \in S
      BY <1>1, <1>3, <3>1 DEF FoldsAll
    <3> QED BY <1>2, <1>3, <2>1, <3>2 DEF FoldsAll
  <2> QED BY <1>3, <2>1 DEF FoldsAll
<1>5. Solves(g)
  BY <1>3, <1>4 DEF FoldsAll
<1>6. \E h : Solves(h) /\ ITunesCredits(known, s) = h[DOMAIN s]
  BY <1>5 DEF ITunesCredits, FoldLeft, MapThenFoldSet
<1>7. PICK h : Solves(h) /\ ITunesCredits(known, s) = h[DOMAIN s]
  BY <1>6
<1>8. h[{}] \in D /\ <<0, h[{}]>> \in I
  BY <1>1, <1>7
<1>9. Chained(h, F, s, n, D)
  <2> SUFFICES ASSUME NEW k \in 1 .. n, h[1 .. k - 1] \in D
               PROVE  h[1 .. k] = F[<<h[1 .. k - 1], s[k]>>]
    BY DEF Chained
  <2>1. /\ 1 .. k \in SUBSET (1 .. n) /\ 1 .. k # {} /\ Max(1 .. k) = k
        /\ (1 .. k) \ {k} = 1 .. k - 1
    BY <1>1, TopOfPrefix
  <2>2. h[1 .. k] = CreditTrack(known, h[1 .. k - 1], s[k])
    BY <1>1, <1>7, <2>1
  <2>3. s[k] \in S
    BY <1>1
  <2> QED BY <1>2, <2>2, <2>3
<1>10. KeptBy(I, F, s, n, D)
  <2> SUFFICES ASSUME NEW k \in 0 .. n - 1, NEW d \in D, <<k, d>> \in I
               PROVE  <<k + 1, F[<<d, s[k + 1]>>]>> \in I
    BY DEF KeptBy
  <2>1. s[k + 1] \in S
    BY <1>1
  <2> QED BY <1>2, <2>1
<1> HIDE DEF n, Solves
<1>11. h[1 .. n] \in D /\ <<n, h[1 .. n]>> \in I
  BY <1>1, <1>2, <1>8, <1>9, <1>10, AlongTheWay
<1> QED BY <1>1, <1>7, <1>11 DEF n

LEMMA GroupsFold ==
  ASSUME NEW recording, NEW D, NEW S, << >> \in D, recording.on \in Seq(S),
         \A d \in D, x \in S : AddGroup(d, x) \in D,
         NEW I, <<0, << >> >> \in I,
         \A k \in 0 .. Len(recording.on) - 1, d \in D : <<k, d>> \in I => <<k + 1, AddGroup(d, recording.on[k + 1])>> \in I
  PROVE  GroupsOf(recording) \in D /\ <<Len(recording.on), GroupsOf(recording)>> \in I
<1> DEFINE n == Len(recording.on)
           F == [p \in D \X S |-> AddGroup(p[1], p[2])]
           Solves(h) == h = [t \in SUBSET (DOMAIN recording.on) |->
                               IF t = {} THEN << >> ELSE AddGroup(h[t \ {Max(t)}], recording.on[Max(t)])]
<1>1. n \in Nat /\ DOMAIN recording.on = 1 .. n /\ recording.on \in [1 .. n -> S] /\ << >> \in D
  OBVIOUS
<1>2. F \in [D \X S -> D] /\ \A d \in D, x \in S : F[<<d, x>>] = AddGroup(d, x)
  OBVIOUS
<1> HIDE DEF F
<1>3. PICK g : FoldsAll(g, F, << >>, recording.on, D)
  BY <1>1, <1>2, FoldExists DEF IsStep
<1>4. ASSUME NEW t \in SUBSET (DOMAIN recording.on)
      PROVE  g[t] = IF t = {} THEN << >> ELSE AddGroup(g[t \ {Max(t)}], recording.on[Max(t)])
  <2>1. CASE t # {}
    <3>1. Max(t) \in 1 .. n /\ t \ {Max(t)} \in SUBSET (DOMAIN recording.on)
      BY <1>1, <2>1, TopOfSome
    <3>2. g[t \ {Max(t)}] \in D /\ recording.on[Max(t)] \in S
      BY <1>1, <1>3, <3>1 DEF FoldsAll
    <3> QED BY <1>2, <1>3, <2>1, <3>2 DEF FoldsAll
  <2> QED BY <1>3, <2>1 DEF FoldsAll
<1>5. Solves(g)
  BY <1>3, <1>4 DEF FoldsAll
<1>6. \E h : Solves(h) /\ GroupsOf(recording) = h[DOMAIN recording.on]
  BY <1>5 DEF GroupsOf, FoldLeft, MapThenFoldSet
<1>7. PICK h : Solves(h) /\ GroupsOf(recording) = h[DOMAIN recording.on]
  BY <1>6
<1>8. h[{}] \in D /\ <<0, h[{}]>> \in I
  BY <1>1, <1>7
<1>9. Chained(h, F, recording.on, n, D)
  <2> SUFFICES ASSUME NEW k \in 1 .. n, h[1 .. k - 1] \in D
               PROVE  h[1 .. k] = F[<<h[1 .. k - 1], recording.on[k]>>]
    BY DEF Chained
  <2>1. /\ 1 .. k \in SUBSET (1 .. n) /\ 1 .. k # {} /\ Max(1 .. k) = k
        /\ (1 .. k) \ {k} = 1 .. k - 1
    BY <1>1, TopOfPrefix
  <2>2. h[1 .. k] = AddGroup(h[1 .. k - 1], recording.on[k])
    BY <1>1, <1>7, <2>1
  <2>3. recording.on[k] \in S
    BY <1>1
  <2> QED BY <1>2, <2>2, <2>3
<1>10. KeptBy(I, F, recording.on, n, D)
  <2> SUFFICES ASSUME NEW k \in 0 .. n - 1, NEW d \in D, <<k, d>> \in I
               PROVE  <<k + 1, F[<<d, recording.on[k + 1]>>]>> \in I
    BY DEF KeptBy
  <2>1. recording.on[k + 1] \in S
    BY <1>1
  <2> QED BY <1>2, <2>1
<1> HIDE DEF n, Solves
<1>11. h[1 .. n] \in D /\ <<n, h[1 .. n]>> \in I
  BY <1>1, <1>2, <1>8, <1>9, <1>10, AlongTheWay
<1> QED BY <1>1, <1>7, <1>11 DEF n

LEMMA GroupCreditsFold ==
  ASSUME NEW known, NEW recording, NEW D, NEW S, NEW b \in D, GroupsOf(recording) \in Seq(S),
         \A d \in D, x \in S : CreditGroup(known, recording, d, x) \in D,
         NEW I, <<0, b>> \in I,
         \A k \in 0 .. Len(GroupsOf(recording)) - 1, d \in D : <<k, d>> \in I => <<k + 1, CreditGroup(known, recording, d, GroupsOf(recording)[k + 1])>> \in I
  PROVE  CreditGroups(known, recording, b) \in D /\ <<Len(GroupsOf(recording)), CreditGroups(known, recording, b)>> \in I
<1> DEFINE n == Len(GroupsOf(recording))
           F == [p \in D \X S |-> CreditGroup(known, recording, p[1], p[2])]
           Solves(h) == h = [t \in SUBSET (DOMAIN GroupsOf(recording)) |->
                               IF t = {} THEN b ELSE CreditGroup(known, recording, h[t \ {Max(t)}], GroupsOf(recording)[Max(t)])]
<1>1. n \in Nat /\ DOMAIN GroupsOf(recording) = 1 .. n /\ GroupsOf(recording) \in [1 .. n -> S] /\ b \in D
  OBVIOUS
<1>2. F \in [D \X S -> D] /\ \A d \in D, x \in S : F[<<d, x>>] = CreditGroup(known, recording, d, x)
  OBVIOUS
<1> HIDE DEF F
<1>3. PICK g : FoldsAll(g, F, b, GroupsOf(recording), D)
  BY <1>1, <1>2, FoldExists DEF IsStep
<1>4. ASSUME NEW t \in SUBSET (DOMAIN GroupsOf(recording))
      PROVE  g[t] = IF t = {} THEN b ELSE CreditGroup(known, recording, g[t \ {Max(t)}], GroupsOf(recording)[Max(t)])
  <2>1. CASE t # {}
    <3>1. Max(t) \in 1 .. n /\ t \ {Max(t)} \in SUBSET (DOMAIN GroupsOf(recording))
      BY <1>1, <2>1, TopOfSome
    <3>2. g[t \ {Max(t)}] \in D /\ GroupsOf(recording)[Max(t)] \in S
      BY <1>1, <1>3, <3>1 DEF FoldsAll
    <3> QED BY <1>2, <1>3, <2>1, <3>2 DEF FoldsAll
  <2> QED BY <1>3, <2>1 DEF FoldsAll
<1>5. Solves(g)
  BY <1>3, <1>4 DEF FoldsAll
<1>6. \E h : Solves(h) /\ CreditGroups(known, recording, b) = h[DOMAIN GroupsOf(recording)]
  BY <1>5 DEF CreditGroups, FoldLeft, MapThenFoldSet
<1>7. PICK h : Solves(h) /\ CreditGroups(known, recording, b) = h[DOMAIN GroupsOf(recording)]
  BY <1>6
<1>8. h[{}] \in D /\ <<0, h[{}]>> \in I
  BY <1>1, <1>7
<1>9. Chained(h, F, GroupsOf(recording), n, D)
  <2> SUFFICES ASSUME NEW k \in 1 .. n, h[1 .. k - 1] \in D
               PROVE  h[1 .. k] = F[<<h[1 .. k - 1], GroupsOf(recording)[k]>>]
    BY DEF Chained
  <2>1. /\ 1 .. k \in SUBSET (1 .. n) /\ 1 .. k # {} /\ Max(1 .. k) = k
        /\ (1 .. k) \ {k} = 1 .. k - 1
    BY <1>1, TopOfPrefix
  <2>2. h[1 .. k] = CreditGroup(known, recording, h[1 .. k - 1], GroupsOf(recording)[k])
    BY <1>1, <1>7, <2>1
  <2>3. GroupsOf(recording)[k] \in S
    BY <1>1
  <2> QED BY <1>2, <2>2, <2>3
<1>10. KeptBy(I, F, GroupsOf(recording), n, D)
  <2> SUFFICES ASSUME NEW k \in 0 .. n - 1, NEW d \in D, <<k, d>> \in I
               PROVE  <<k + 1, F[<<d, GroupsOf(recording)[k + 1]>>]>> \in I
    BY DEF KeptBy
  <2>1. GroupsOf(recording)[k + 1] \in S
    BY <1>1
  <2> QED BY <1>2, <2>1
<1> HIDE DEF n, Solves
<1>11. h[1 .. n] \in D /\ <<n, h[1 .. n]>> \in I
  BY <1>1, <1>2, <1>8, <1>9, <1>10, AlongTheWay
<1> QED BY <1>1, <1>7, <1>11 DEF n

LEMMA RecordingsFold ==
  ASSUME NEW known, NEW D, NEW S, << >> \in D, NEW s \in Seq(S),
         \A d \in D, x \in S : CreditRecording(known, d, x) \in D,
         NEW I, <<0, << >> >> \in I,
         \A k \in 0 .. Len(s) - 1, d \in D : <<k, d>> \in I => <<k + 1, CreditRecording(known, d, s[k + 1])>> \in I
  PROVE  MusicBrainzCredits(known, s) \in D /\ <<Len(s), MusicBrainzCredits(known, s)>> \in I
<1> DEFINE n == Len(s)
           F == [p \in D \X S |-> CreditRecording(known, p[1], p[2])]
           Solves(h) == h = [t \in SUBSET (DOMAIN s) |->
                               IF t = {} THEN << >> ELSE CreditRecording(known, h[t \ {Max(t)}], s[Max(t)])]
<1>1. n \in Nat /\ DOMAIN s = 1 .. n /\ s \in [1 .. n -> S] /\ << >> \in D
  OBVIOUS
<1>2. F \in [D \X S -> D] /\ \A d \in D, x \in S : F[<<d, x>>] = CreditRecording(known, d, x)
  OBVIOUS
<1> HIDE DEF F
<1>3. PICK g : FoldsAll(g, F, << >>, s, D)
  BY <1>1, <1>2, FoldExists DEF IsStep
<1>4. ASSUME NEW t \in SUBSET (DOMAIN s)
      PROVE  g[t] = IF t = {} THEN << >> ELSE CreditRecording(known, g[t \ {Max(t)}], s[Max(t)])
  <2>1. CASE t # {}
    <3>1. Max(t) \in 1 .. n /\ t \ {Max(t)} \in SUBSET (DOMAIN s)
      BY <1>1, <2>1, TopOfSome
    <3>2. g[t \ {Max(t)}] \in D /\ s[Max(t)] \in S
      BY <1>1, <1>3, <3>1 DEF FoldsAll
    <3> QED BY <1>2, <1>3, <2>1, <3>2 DEF FoldsAll
  <2> QED BY <1>3, <2>1 DEF FoldsAll
<1>5. Solves(g)
  BY <1>3, <1>4 DEF FoldsAll
<1>6. \E h : Solves(h) /\ MusicBrainzCredits(known, s) = h[DOMAIN s]
  BY <1>5 DEF MusicBrainzCredits, FoldLeft, MapThenFoldSet
<1>7. PICK h : Solves(h) /\ MusicBrainzCredits(known, s) = h[DOMAIN s]
  BY <1>6
<1>8. h[{}] \in D /\ <<0, h[{}]>> \in I
  BY <1>1, <1>7
<1>9. Chained(h, F, s, n, D)
  <2> SUFFICES ASSUME NEW k \in 1 .. n, h[1 .. k - 1] \in D
               PROVE  h[1 .. k] = F[<<h[1 .. k - 1], s[k]>>]
    BY DEF Chained
  <2>1. /\ 1 .. k \in SUBSET (1 .. n) /\ 1 .. k # {} /\ Max(1 .. k) = k
        /\ (1 .. k) \ {k} = 1 .. k - 1
    BY <1>1, TopOfPrefix
  <2>2. h[1 .. k] = CreditRecording(known, h[1 .. k - 1], s[k])
    BY <1>1, <1>7, <2>1
  <2>3. s[k] \in S
    BY <1>1
  <2> QED BY <1>2, <2>2, <2>3
<1>10. KeptBy(I, F, s, n, D)
  <2> SUFFICES ASSUME NEW k \in 0 .. n - 1, NEW d \in D, <<k, d>> \in I
               PROVE  <<k + 1, F[<<d, s[k + 1]>>]>> \in I
    BY DEF KeptBy
  <2>1. s[k + 1] \in S
    BY <1>1
  <2> QED BY <1>2, <2>1
<1> HIDE DEF n, Solves
<1>11. h[1 .. n] \in D /\ <<n, h[1 .. n]>> \in I
  BY <1>1, <1>2, <1>8, <1>9, <1>10, AlongTheWay
<1> QED BY <1>1, <1>7, <1>11 DEF n

LEMMA NormalizeFold ==
  ASSUME NEW D, NEW S, << >> \in D, NEW s \in Seq(S),
         \A d \in D, x \in S : NormalizeOne(d, x) \in D,
         NEW I, <<0, << >> >> \in I,
         \A k \in 0 .. Len(s) - 1, d \in D : <<k, d>> \in I => <<k + 1, NormalizeOne(d, s[k + 1])>> \in I
  PROVE  Normalize(s) \in D /\ <<Len(s), Normalize(s)>> \in I
<1> DEFINE n == Len(s)
           F == [p \in D \X S |-> NormalizeOne(p[1], p[2])]
           Solves(h) == h = [t \in SUBSET (DOMAIN s) |->
                               IF t = {} THEN << >> ELSE NormalizeOne(h[t \ {Max(t)}], s[Max(t)])]
<1>1. n \in Nat /\ DOMAIN s = 1 .. n /\ s \in [1 .. n -> S] /\ << >> \in D
  OBVIOUS
<1>2. F \in [D \X S -> D] /\ \A d \in D, x \in S : F[<<d, x>>] = NormalizeOne(d, x)
  OBVIOUS
<1> HIDE DEF F
<1>3. PICK g : FoldsAll(g, F, << >>, s, D)
  BY <1>1, <1>2, FoldExists DEF IsStep
<1>4. ASSUME NEW t \in SUBSET (DOMAIN s)
      PROVE  g[t] = IF t = {} THEN << >> ELSE NormalizeOne(g[t \ {Max(t)}], s[Max(t)])
  <2>1. CASE t # {}
    <3>1. Max(t) \in 1 .. n /\ t \ {Max(t)} \in SUBSET (DOMAIN s)
      BY <1>1, <2>1, TopOfSome
    <3>2. g[t \ {Max(t)}] \in D /\ s[Max(t)] \in S
      BY <1>1, <1>3, <3>1 DEF FoldsAll
    <3> QED BY <1>2, <1>3, <2>1, <3>2 DEF FoldsAll
  <2> QED BY <1>3, <2>1 DEF FoldsAll
<1>5. Solves(g)
  BY <1>3, <1>4 DEF FoldsAll
<1>6. \E h : Solves(h) /\ Normalize(s) = h[DOMAIN s]
  BY <1>5 DEF Normalize, FoldLeft, MapThenFoldSet
<1>7. PICK h : Solves(h) /\ Normalize(s) = h[DOMAIN s]
  BY <1>6
<1>8. h[{}] \in D /\ <<0, h[{}]>> \in I
  BY <1>1, <1>7
<1>9. Chained(h, F, s, n, D)
  <2> SUFFICES ASSUME NEW k \in 1 .. n, h[1 .. k - 1] \in D
               PROVE  h[1 .. k] = F[<<h[1 .. k - 1], s[k]>>]
    BY DEF Chained
  <2>1. /\ 1 .. k \in SUBSET (1 .. n) /\ 1 .. k # {} /\ Max(1 .. k) = k
        /\ (1 .. k) \ {k} = 1 .. k - 1
    BY <1>1, TopOfPrefix
  <2>2. h[1 .. k] = NormalizeOne(h[1 .. k - 1], s[k])
    BY <1>1, <1>7, <2>1
  <2>3. s[k] \in S
    BY <1>1
  <2> QED BY <1>2, <2>2, <2>3
<1>10. KeptBy(I, F, s, n, D)
  <2> SUFFICES ASSUME NEW k \in 0 .. n - 1, NEW d \in D, <<k, d>> \in I
               PROVE  <<k + 1, F[<<d, s[k + 1]>>]>> \in I
    BY DEF KeptBy
  <2>1. s[k + 1] \in S
    BY <1>1
  <2> QED BY <1>2, <2>1
<1> HIDE DEF n, Solves
<1>11. h[1 .. n] \in D /\ <<n, h[1 .. n]>> \in I
  BY <1>1, <1>2, <1>8, <1>9, <1>10, AlongTheWay
<1> QED BY <1>1, <1>7, <1>11 DEF n

-----------------------------------------------------------------------------
(* ReleaseMerge: what a record makes of its row.                           *)

Marks == {"spotify", "itunes"}

LEMMA ShownFields ==
  ASSUME MergeAssumption, NEW r \in Shown
  PROVE  /\ r.provider \in Providers /\ r.id \in Nat \ {0} /\ r.title \in Titles /\ r.type \in Types
         /\ r.day \in Nat /\ r.precision \in Precisions /\ r.role \in Roles /\ r.guests \in SUBSET Nat
BY DEF MergeAssumption

LEMMA NewRowReads ==
  ASSUME MergeAssumption, NEW r \in Shown
  PROVE  /\ NewRow(r) \in RowStates
         /\ NewRow(r).mbid = IF r.provider = "musicbrainz" THEN r.id ELSE 0
         /\ NewRow(r).spotify = IF r.provider = "spotify" THEN r.id ELSE 0
         /\ NewRow(r).itunes = IF r.provider = "itunes" THEN r.id ELSE 0
         /\ NewRow(r).source = r.provider /\ NewRow(r).title = r.title /\ NewRow(r).type = r.type
         /\ NewRow(r).day = r.day /\ NewRow(r).precision = r.precision
BY ShownFields DEF NewRow, RowStates, Providers

\* A record dates a row as itself, or leaves the row its date.
DatedAs(u, x) == u.day = x.day /\ u.precision = x.precision

LEMMA RewrittenReads ==
  ASSUME MergeAssumption, NEW r \in Shown, NEW row \in RowStates
  PROVE  LET u == Rewritten(row, r) IN
         /\ u \in RowStates /\ u.title = r.title /\ u.type = r.type
         /\ u.mbid = row.mbid /\ u.spotify = row.spotify /\ u.itunes = row.itunes
         /\ u.source = row.source /\ u.role = row.role
         /\ DatedAs(u, row) \/ DatedAs(u, r)
<1>1. r.precision \in Nat /\ row.precision \in Nat
  BY ShownFields DEF RowStates, Precisions
<1>2. /\ r.precision >= row.precision => Later(row.precision, r.precision) = r.precision
      /\ ~(r.precision >= row.precision) => Later(row.precision, r.precision) = row.precision
  BY <1>1 DEF Later
<1>3. CASE r.precision >= row.precision
  BY <1>2, <1>3, ShownFields DEF Rewritten, RowStates, DatedAs
<1>4. CASE ~(r.precision >= row.precision)
  BY <1>2, <1>4, ShownFields DEF Rewritten, RowStates, DatedAs
<1> QED BY <1>3, <1>4

LEMMA RoleIsRole ==
  ASSUME MergeAssumption, NEW r \in Shown, NEW role \in Roles
  PROVE  RoleOf(role, r) \in Roles
BY DEF RoleOf, Roles

\* What MusicBrainz shows, the row reads.
LEMMA MusicBrainzReads ==
  ASSUME MergeAssumption, NEW r \in Shown, NEW row \in RowStates, r.provider = "musicbrainz"
  PROVE  LET u == UpdatedRow(row, r) IN
         /\ u \in RowStates /\ u.mbid = r.id /\ u.title = r.title /\ u.type = r.type
         /\ u.spotify = row.spotify /\ u.itunes = row.itunes /\ u.source \in {"musicbrainz", "both"}
         /\ DatedAs(u, row) \/ DatedAs(u, r)
<1> DEFINE w == Rewritten(row, r)
<1>1. /\ w \in RowStates /\ w.title = r.title /\ w.type = r.type
      /\ w.spotify = row.spotify /\ w.itunes = row.itunes
      /\ DatedAs(w, row) \/ DatedAs(w, r)
  BY RewrittenReads
<1>2. RoleOf(w.role, r) \in Roles
  BY <1>1, RoleIsRole DEF RowStates
<1>3. r.id \in Nat
  BY ShownFields
<1> HIDE DEF w
<1>4. UpdatedRow(row, r) =
        [w EXCEPT !.mbid = r.id, !.role = RoleOf(@, r),
                  !.source = IF row.spotify = 0 /\ row.itunes = 0 THEN "musicbrainz" ELSE "both"]
  BY DEF UpdatedRow, MusicBrainzRow, w
<1>5. CASE row.spotify = 0 /\ row.itunes = 0
  BY <1>1, <1>2, <1>3, <1>4, <1>5 DEF RowStates, DatedAs, Providers
<1>6. CASE ~(row.spotify = 0 /\ row.itunes = 0)
  BY <1>1, <1>2, <1>3, <1>4, <1>6 DEF RowStates, DatedAs, Providers
<1> QED BY <1>5, <1>6

\* Spotify and iTunes leave a row that MusicBrainz has claimed as it reads.
LEMMA ProviderReads ==
  ASSUME MergeAssumption, NEW r \in Shown, NEW row \in RowStates, NEW p \in Marks, r.provider = p
  PROVE  LET u == UpdatedRow(row, r) IN
         /\ u \in RowStates /\ u.mbid = row.mbid
         /\ \A q \in Marks \ {p} : u[q] = row[q]
         /\ Claimed(row) /\ row.source \in {"musicbrainz", "both"} =>
              u.source = "both" /\ u.title = row.title /\ u.type = row.type
         /\ DatedAs(u, row) \/ DatedAs(u, r)
<1> DEFINE own == row.source = p \/ (row.source = "both" /\ ~Claimed(row))
           w == IF own THEN Rewritten(row, r) ELSE row
           mark == IF w[p] = 0 THEN r.id ELSE w[p]
           origin == IF w.source \in {p, "both"} THEN w.source ELSE "both"
<1>1. /\ w \in RowStates /\ w.mbid = row.mbid /\ w.spotify = row.spotify /\ w.itunes = row.itunes
      /\ w.source = row.source
      /\ DatedAs(w, row) \/ DatedAs(w, r)
  BY RewrittenReads DEF DatedAs
<1>2. p # "musicbrainz" /\ p \in {"spotify", "itunes"}
  BY DEF Marks
<1>3. Claimed(row) /\ row.source \in {"musicbrainz", "both"} => w.title = row.title /\ w.type = row.type
  BY <1>2
<1>4. RoleOf(w.role, r) \in Roles
  <2> HIDE DEF w
  <2> QED BY <1>1, RoleIsRole DEF RowStates
<1>5. UpdatedRow(row, r) = [w EXCEPT ![p] = mark, !.role = RoleOf(w.role, r), !.source = origin]
  <2> HIDE DEF own
  <2>1. UpdatedRow(row, r) = ProviderRow(row, r)
    BY <1>2 DEF UpdatedRow
  <2>2. ProviderRow(row, r) =
          [w EXCEPT ![p] = IF @ = 0 THEN r.id ELSE @, !.role = RoleOf(@, r),
                    !.source = IF @ \in {p, "both"} THEN @ ELSE "both"]
    BY DEF ProviderRow, own
  <2> HIDE DEF w
  <2>3. w \in [{"mbid", "spotify", "itunes", "source", "title", "type", "day", "precision", "role"} ->
                 UNION {Nat, Providers \cup {"both"}, Titles, Types, Precisions, Roles}]
    BY <1>1 DEF RowStates
  <2>4. CASE p = "spotify"
    BY <2>1, <2>2, <2>4
  <2>5. CASE p = "itunes"
    BY <2>1, <2>2, <2>5
  <2> QED BY <1>2, <2>4, <2>5
<1>6. mark \in Nat /\ origin \in Providers \cup {"both"}
  <2>1. w[p] \in Nat
    <3> HIDE DEF w
    <3> QED BY <1>1, <1>2 DEF RowStates
  <2>2. r.id \in Nat
    BY ShownFields
  <2>3. w.source \in Providers \cup {"both"}
    <3> HIDE DEF w
    <3> QED BY <1>1 DEF RowStates
  <2> HIDE DEF w
  <2> QED BY <2>1, <2>2, <2>3
<1>7. Claimed(row) /\ row.source \in {"musicbrainz", "both"} => origin = "both"
  BY <1>1, <1>2
<1> HIDE DEF w, mark, origin
<1>8. CASE p = "spotify"
  BY <1>1, <1>3, <1>4, <1>5, <1>6, <1>7, <1>8 DEF RowStates, DatedAs, Marks
<1>9. CASE p = "itunes"
  BY <1>1, <1>3, <1>4, <1>5, <1>6, <1>7, <1>9 DEF RowStates, DatedAs, Marks
<1> QED BY <1>2, <1>8, <1>9

-----------------------------------------------------------------------------
(* ReleaseMerge: where a record is stored.                                 *)

Coherents == {db \in Databases : Coherent(db)}

\* The row a record is stored in: the row of its id, a row that is alike, or one
\* of its own.
Place(db, r, i) ==
  \/ i \in KnownRow(db, r)
  \/ KnownRow(db, r) = {} /\ i \in MatchingRelease(db.rows, r)
  \/ KnownRow(db, r) = {} /\ i = Len(db.rows) + 1
Item(db, r, i, row) ==
  [provider |-> r.provider, row |-> i, role |-> r.role,
   new |-> i \notin DOMAIN db.rows \/ \E c \in CreditsOf(r, i) \ db.credits : c[4] # "primary",
   day |-> row.day, precision |-> row.precision]
StoredAt(db, r, i, new) ==
  /\ DOMAIN new.rows = 1 .. Later(i, Len(db.rows)) /\ Len(new.rows) = Later(i, Len(db.rows))
  /\ new.rows[i] = IF i \in DOMAIN db.rows THEN UpdatedRow(db.rows[i], r) ELSE NewRow(r)
  /\ \A j \in DOMAIN db.rows : j # i => new.rows[j] = db.rows[j]
  /\ new.evidence = Observe(db, r, i)
  /\ new.credits = db.credits \cup CreditsOf(r, i)
  /\ new.saved = Noted(db.saved, Item(db, r, i, new.rows[i]))

LEMMA MatchesAreAlike ==
  ASSUME NEW rs, NEW r, NEW i \in MatchingRelease(rs, r)
  PROVE  /\ i \in DOMAIN rs /\ r.precision # 0 /\ SameRelease(rs[i], r)
         /\ r.provider = "musicbrainz" => ~Claimed(rs[i])
<1> DEFINE same == {j \in DOMAIN rs : /\ r.precision # 0 /\ SameRelease(rs[j], r)
                                      /\ r.provider = "musicbrainz" => ~Claimed(rs[j])}
           exact == {j \in same : rs[j].type = r.type}
<1>1. MatchingRelease(rs, r) = IF Cardinality(exact) = 1 THEN exact
                               ELSE IF exact = {} /\ Cardinality(same \ exact) = 1 THEN same \ exact
                               ELSE {}
  BY DEF MatchingRelease
<1>2. i \in same
  <2> HIDE DEF same
  <2> QED BY <1>1
<1> QED BY <1>2

LEMMA KnownRowsAreRows ==
  ASSUME NEW db, EvidenceIsOne(db), NEW r, NEW i \in KnownRow(db, r)
  PROVE  i \in DOMAIN db.rows
BY DEF KnownRow, EvidenceIsOne

LEMMA SaveHasAPlace ==
  ASSUME MergeAssumption, NEW db \in Coherents, NEW r \in Shown
  PROVE  \E i \in 1 .. Len(db.rows) + 1 : Place(db, r, i) /\ StoredAt(db, r, i, Save(db, r))
<1> DEFINE n == Len(db.rows)
           found == RowOf(db, r)
           i == IF found = {} THEN n + 1 ELSE CHOOSE x \in found : TRUE
           row == IF found = {} THEN NewRow(r) ELSE UpdatedRow(db.rows[i], r)
           new == Save(db, r)
           added == CreditsOf(r, i) \ db.credits
<1>1. db \in Databases /\ EvidenceIsOne(db)
  BY DEF Coherents, Coherent
<1>2. n \in Nat /\ DOMAIN db.rows = 1 .. n
  BY <1>1 DEF Databases
<1>3. found \subseteq DOMAIN db.rows
  BY <1>1, KnownRowsAreRows, MatchesAreAlike DEF RowOf
<1>4. Place(db, r, i) /\ i \in 1 .. n + 1 /\ (found = {} <=> i \notin DOMAIN db.rows)
  <2>1. CASE found = {}
    BY <1>2, <2>1 DEF Place, RowOf
  <2>2. CASE found # {}
    <3>1. i \in found
      BY <2>2
    <3> HIDE DEF i
    <3> QED BY <1>2, <1>3, <2>2, <3>1 DEF Place, RowOf
  <2> QED BY <2>1, <2>2
<1>5. /\ new.rows = IF found = {} THEN Append(db.rows, row) ELSE [db.rows EXCEPT ![i] = row]
      /\ new.evidence = Observe(db, r, i)
      /\ new.credits = db.credits \cup added
      /\ new.saved = Noted(db.saved,
                      [provider |-> r.provider, row |-> i, role |-> r.role,
                       new |-> found = {} \/ \E c \in added : c[4] # "primary",
                       day |-> row.day, precision |-> row.precision])
  BY DEF Save
<1>6. row = IF i \in DOMAIN db.rows THEN UpdatedRow(db.rows[i], r) ELSE NewRow(r)
  <2> HIDE DEF i, found
  <2> QED BY <1>4
<1> HIDE DEF row, i, found, new
<1>7. /\ DOMAIN new.rows = 1 .. Later(i, n) /\ Len(new.rows) = Later(i, n) /\ new.rows[i] = row
      /\ \A j \in DOMAIN db.rows : j # i => new.rows[j] = db.rows[j]
  <2>0. db.rows \in Seq(RowStates)
    BY <1>1 DEF Databases
  <2>1. CASE found = {}
    <3>1. i = n + 1 /\ Later(i, n) = n + 1
      BY <1>2, <1>4, <2>1 DEF Later
    <3>2. row \in RowStates
      BY <1>4, <1>6, <2>1, NewRowReads
    <3>3. /\ Len(Append(db.rows, row)) = n + 1 /\ DOMAIN Append(db.rows, row) = 1 .. n + 1
          /\ Append(db.rows, row)[n + 1] = row
          /\ \A j \in DOMAIN db.rows : Append(db.rows, row)[j] = db.rows[j]
      BY <2>0, <3>2, AppendProperties, <1>2
    <3> QED BY <1>5, <2>1, <3>1, <3>3
  <2>2. CASE found # {}
    <3>1. i \in 1 .. n /\ Later(i, n) = n
      BY <1>2, <1>4, <2>2 DEF Later
    <3>2. row \in RowStates
      <4>1. db.rows[i] \in RowStates
        BY <1>2, <2>0, <3>1
      <4>2. r.provider = "musicbrainz" \/ \E p \in Marks : r.provider = p
        BY ShownFields DEF Providers, Marks
      <4> QED BY <1>2, <1>6, <3>1, <4>1, <4>2, MusicBrainzReads, ProviderReads
    <3>3. new.rows = [db.rows EXCEPT ![i] = row]
      BY <1>5, <2>2
    <3>4. new.rows \in Seq(RowStates) /\ Len(new.rows) = n /\ DOMAIN new.rows = 1 .. n
      BY <1>2, <2>0, <3>1, <3>2, <3>3
    <3> QED BY <1>2, <3>1, <3>3, <3>4
  <2> QED BY <2>1, <2>2
<1>8. new.saved = Noted(db.saved, Item(db, r, i, new.rows[i]))
  BY <1>4, <1>5, <1>7 DEF Item
<1>9. new.credits = db.credits \cup CreditsOf(r, i)
  BY <1>5
<1> QED BY <1>4, <1>5, <1>6, <1>7, <1>8, <1>9 DEF StoredAt, new, n

-----------------------------------------------------------------------------
(* ReleaseMerge: the candidates for news.                                  *)

\* A candidate after another was noted: as it was, or of the row just noted.
LEMMA NotedKeeps ==
  ASSUME NEW saved \in Seq(Candidates), NEW item \in Candidates
  PROVE  LET u == Noted(saved, item) IN
         /\ u \in Seq(Candidates)
         /\ \A k \in DOMAIN saved : /\ k \in DOMAIN u /\ u[k].row = saved[k].row
                                    /\ saved[k].new => u[k].new
         /\ \E k \in DOMAIN u : u[k].row = item.row /\ (item.new => u[k].new)
         /\ \A k \in DOMAIN u :
              \/ k \in DOMAIN saved /\ u[k] = saved[k]
              \/ /\ u[k].row = item.row
                 /\ u[k].new => item.new \/ (k \in DOMAIN saved /\ saved[k].new)
                 /\ \/ DatedAs(u[k], item)
                    \/ k \in DOMAIN saved /\ saved[k].row = item.row /\ DatedAs(u[k], saved[k])
<1> DEFINE same == {k \in DOMAIN saved : saved[k].provider = item.provider /\ saved[k].row = item.row}
           u == Noted(saved, item)
<1>0. Len(saved) \in Nat /\ DOMAIN saved = 1 .. Len(saved)
  OBVIOUS
<1>1. CASE same = {}
  <2>1. u = Append(saved, item)
    BY <1>1 DEF Noted
  <2>2. /\ u \in Seq(Candidates) /\ DOMAIN u = 1 .. Len(saved) + 1 /\ u[Len(saved) + 1] = item
        /\ \A k \in DOMAIN saved : u[k] = saved[k]
    BY <1>0, <2>1, AppendProperties
  <2> HIDE DEF u
  <2> QED BY <1>0, <2>2 DEF DatedAs, u
<1>2. CASE same # {}
  <2> DEFINE k == CHOOSE x \in same : TRUE
             new == saved[k].new \/ item.new
             kept == [saved[k] EXCEPT !.new = new]
             replaced == [item EXCEPT !.new = new]
             put == IF saved[k].role = "primary" /\ item.role = "featured" THEN kept ELSE replaced
  <2>1. k \in same
    BY <1>2
  <2>2. u = [saved EXCEPT ![k] = put]
    BY <1>2 DEF Noted
  <2> HIDE DEF k
  <2>3. k \in DOMAIN saved /\ saved[k] \in Candidates /\ saved[k].row = item.row
    BY <2>1
  <2> HIDE DEF same
  <2>4. /\ kept \in Candidates /\ kept.row = item.row /\ (kept.new <=> saved[k].new \/ item.new)
        /\ DatedAs(kept, saved[k])
    BY <2>3 DEF Candidates, DatedAs
  <2>5. /\ replaced \in Candidates /\ replaced.row = item.row /\ (replaced.new <=> saved[k].new \/ item.new)
        /\ DatedAs(replaced, item)
    BY <2>3 DEF Candidates, DatedAs
  <2> HIDE DEF kept, replaced
  <2>6. /\ put \in Candidates /\ put.row = item.row /\ (put.new <=> saved[k].new \/ item.new)
        /\ DatedAs(put, item) \/ DatedAs(put, saved[k])
    BY <2>4, <2>5
  <2> HIDE DEF put
  <2>7. /\ u \in Seq(Candidates) /\ DOMAIN u = DOMAIN saved /\ u[k] = put
        /\ \A j \in DOMAIN saved : j # k => u[j] = saved[j]
    BY <2>2, <2>3, <2>6
  <2> HIDE DEF u
  <2>8. /\ \A j \in DOMAIN saved : j \in DOMAIN u /\ u[j].row = saved[j].row /\ (saved[j].new => u[j].new)
        /\ \E j \in DOMAIN u : u[j].row = item.row /\ (item.new => u[j].new)
    BY <2>3, <2>6, <2>7
  <2>9. ASSUME NEW j \in DOMAIN u
        PROVE  \/ j \in DOMAIN saved /\ u[j] = saved[j]
               \/ /\ u[j].row = item.row
                  /\ u[j].new => item.new \/ (j \in DOMAIN saved /\ saved[j].new)
                  /\ \/ DatedAs(u[j], item)
                     \/ j \in DOMAIN saved /\ saved[j].row = item.row /\ DatedAs(u[j], saved[j])
    <3>1. CASE j = k
      BY <2>3, <2>6, <2>7, <3>1
    <3>2. CASE j # k
      BY <2>7, <3>2
    <3> QED BY <3>1, <3>2
  <2> QED BY <2>7, <2>8, <2>9 DEF u
<1> QED BY <1>1, <1>2

-----------------------------------------------------------------------------
(* ReleaseMerge: what is stored stays coherent, record by record.          *)

LEMMA CreditsAreTyped ==
  ASSUME MergeAssumption, NEW r \in Shown, NEW i \in Nat
  PROVE  CreditsOf(r, i) \subseteq Nat \X Providers \X Nat \X (Roles \cup {"guest"})
<1> DEFINE shown == IF r.guests = {} THEN {<<r.id, r.role>>} ELSE {<<g, "guest">> : g \in r.guests}
<1>1. shown \subseteq Nat \X (Roles \cup {"guest"})
  BY ShownFields
<1>2. CreditsOf(r, i) = {<<i, r.provider, c[1], c[2]>> : c \in shown}
  BY DEF CreditsOf
<1>3. r.provider \in Providers
  BY ShownFields
<1> HIDE DEF shown
<1> QED BY <1>1, <1>2, <1>3

LEMMA Observed1 ==
  ASSUME NEW db, NEW r, NEW i, NEW new, StoredAt(db, r, i, new)
  PROVE  \A e : e \in new.evidence <=>
           \/ e \in db.evidence /\ ~(e.of.provider = r.provider /\ e.of.id = r.id)
           \/ e = [of |-> r, row |-> i, at |-> syncs]
BY DEF StoredAt, Observe

\* A record is stored where its id was seen last, and only MusicBrainz changes
\* what claims a row.
LEMMA IdsStay ==
  ASSUME MergeAssumption, NEW db \in Coherents, NEW r \in Shown, NEW i, Place(db, r, i),
         NEW e \in db.evidence, e.of.provider = r.provider, e.of.id = r.id
  PROVE  e.row = i
<1>1. EvidenceIsOne(db) /\ ClaimsAreShown(db) /\ db \in Databases
  BY DEF Coherents, Coherent
<1>2. e.row \in DOMAIN db.rows
  BY <1>1 DEF EvidenceIsOne
<1>3. CASE r.provider = "musicbrainz"
  <2>1. db.rows[e.row].mbid = r.id /\ r.id # 0
    BY <1>1, <1>3, ShownFields DEF ClaimsAreShown
  <2>2. e.row \in KnownRow(db, r)
    BY <1>2, <1>3, <2>1 DEF KnownRow
  <2>3. i \in DOMAIN db.rows /\ db.rows[i].mbid = r.id
    BY <1>3, <2>2 DEF Place, KnownRow
  <2> QED BY <1>1, <1>2, <2>1, <2>3 DEF ClaimsAreShown, Claimed
<1>4. CASE r.provider # "musicbrainz"
  <2> DEFINE seen == {x.row : x \in {y \in db.evidence : y.of.provider = r.provider /\ y.of.id = r.id}}
  <2>1. \A x \in seen : x = e.row
    BY <1>1 DEF EvidenceIsOne
  <2>2. e.row \in seen
    OBVIOUS
  <2>3. KnownRow(db, r) = seen
    BY <1>4, <2>2 DEF KnownRow
  <2> HIDE DEF seen
  <2> QED BY <2>1, <2>2, <2>3 DEF Place
<1> QED BY <1>3, <1>4

LEMMA RowsAreTyped ==
  ASSUME MergeAssumption, NEW db \in Coherents, NEW r \in Shown, NEW i \in 1 .. Len(db.rows) + 1,
         NEW new, StoredAt(db, r, i, new)
  PROVE  /\ Len(db.rows) \in Nat /\ DOMAIN db.rows = 1 .. Len(db.rows)
         /\ \A j \in DOMAIN db.rows : db.rows[j] \in RowStates /\ j \in DOMAIN new.rows
         /\ \A j \in DOMAIN new.rows : new.rows[j] \in RowStates /\ (j = i \/ j \in DOMAIN db.rows)
         /\ i \in DOMAIN new.rows /\ i \in Nat
<1>1. db.rows \in Seq(RowStates)
  BY DEF Coherents, Coherent, Databases
<1>2. Len(db.rows) \in Nat /\ DOMAIN db.rows = 1 .. Len(db.rows) /\ \A j \in DOMAIN db.rows : db.rows[j] \in RowStates
  BY <1>1
<1>3. DOMAIN new.rows = DOMAIN db.rows \cup {i}
  BY <1>2 DEF StoredAt, Later
<1>4. new.rows[i] \in RowStates
  <2>1. r.provider = "musicbrainz" \/ \E p \in Marks : r.provider = p
    BY ShownFields DEF Providers, Marks
  <2>2. CASE i \in DOMAIN db.rows
    BY <1>2, <2>1, <2>2, MusicBrainzReads, ProviderReads DEF StoredAt
  <2>3. CASE i \notin DOMAIN db.rows
    BY <2>3, NewRowReads DEF StoredAt
  <2> QED BY <2>2, <2>3
<1>5. \A j \in DOMAIN db.rows : j # i => new.rows[j] \in RowStates
  BY <1>2 DEF StoredAt
<1> QED BY <1>2, <1>3, <1>4, <1>5

LEMMA ItemIsTyped ==
  ASSUME MergeAssumption, NEW db, NEW r \in Shown, NEW i \in Nat, NEW row \in RowStates
  PROVE  /\ Item(db, r, i, row) \in Candidates /\ Item(db, r, i, row).row = i
         /\ DatedAs(Item(db, r, i, row), row)
         /\ Item(db, r, i, row).new <=> (i \notin DOMAIN db.rows \/ \E c \in CreditsOf(r, i) \ db.credits : c[4] # "primary")
BY ShownFields DEF Item, Candidates, RowStates, DatedAs

\* What a record leaves of a row, and of its claim and its marks.
LEMMA RowsAfter ==
  ASSUME MergeAssumption, NEW db \in Coherents, NEW r \in Shown, NEW i \in 1 .. Len(db.rows) + 1,
         NEW new, StoredAt(db, r, i, new), NEW j \in DOMAIN new.rows
  PROVE  /\ new.rows[j].mbid = IF j = i /\ r.provider = "musicbrainz" THEN r.id
                               ELSE IF j \in DOMAIN db.rows THEN db.rows[j].mbid ELSE 0
         /\ \A p \in Marks : p # r.provider \/ j # i =>
              new.rows[j][p] = IF j \in DOMAIN db.rows THEN db.rows[j][p] ELSE 0
         /\ j = i /\ r.provider = "musicbrainz" =>
              /\ new.rows[j].title = r.title /\ new.rows[j].type = r.type
              /\ new.rows[j].source \in {"musicbrainz", "both"}
         /\ /\ j \in DOMAIN db.rows /\ ~(j = i /\ r.provider = "musicbrainz")
            /\ Claimed(db.rows[j]) /\ db.rows[j].source \in {"musicbrainz", "both"}
            => /\ new.rows[j].title = db.rows[j].title /\ new.rows[j].type = db.rows[j].type
               /\ new.rows[j].source \in {"musicbrainz", "both"}
<1>1. /\ \A k \in DOMAIN db.rows : db.rows[k] \in RowStates
      /\ \A k \in DOMAIN new.rows : k = i \/ k \in DOMAIN db.rows
  BY RowsAreTyped
<1>2. CASE j # i
  BY <1>1, <1>2 DEF StoredAt
<1>3. CASE j = i /\ i \notin DOMAIN db.rows
  <2>1. new.rows[j] = NewRow(r)
    BY <1>3 DEF StoredAt
  <2> QED BY <1>3, <2>1, NewRowReads DEF Marks
<1>4. CASE j = i /\ i \in DOMAIN db.rows /\ r.provider = "musicbrainz"
  <2>1. new.rows[j] = UpdatedRow(db.rows[i], r) /\ db.rows[i] \in RowStates
    BY <1>1, <1>4 DEF StoredAt
  <2> QED BY <1>4, <2>1, MusicBrainzReads DEF Marks
<1>5. CASE j = i /\ i \in DOMAIN db.rows /\ r.provider # "musicbrainz"
  <2>1. new.rows[j] = UpdatedRow(db.rows[i], r) /\ db.rows[i] \in RowStates
    BY <1>1, <1>5 DEF StoredAt
  <2>2. PICK p \in Marks : r.provider = p
    BY <1>5, ShownFields DEF Providers, Marks
  <2> QED BY <1>5, <2>1, <2>2, ProviderReads
<1> QED BY <1>2, <1>3, <1>4, <1>5

LEMMA SaveIsTyped ==
  ASSUME MergeAssumption, syncs \in Nat, NEW db \in Coherents, NEW r \in Shown,
         NEW i \in 1 .. Len(db.rows) + 1, StoredAt(db, r, i, Save(db, r))
  PROVE  Save(db, r) \in Databases
<1> DEFINE new == Save(db, r)
<1>1. db \in Databases
  BY DEF Coherents, Coherent
<1>2. /\ i \in Nat /\ new.rows[i] \in RowStates
      /\ \A j \in DOMAIN new.rows : new.rows[j] \in RowStates
  BY RowsAreTyped
<1>3. new = [rows |-> new.rows, evidence |-> new.evidence, credits |-> new.credits, saved |-> new.saved]
  BY DEF Save
<1> HIDE DEF new
<1>4. new.rows \in Seq(RowStates)
  <2>1. Len(new.rows) \in Nat /\ DOMAIN new.rows = 1 .. Len(new.rows)
    BY <1>1 DEF StoredAt, new, Later, Databases
  <2>2. new.rows = [j \in 1 .. Len(new.rows) |-> new.rows[j]]
    <3>1. CASE RowOf(db, r) = {}
      <4>1. \E x : new.rows = Append(db.rows, x)
        BY <3>1 DEF Save, new
      <4> QED BY <2>1, <4>1
    <3>2. CASE RowOf(db, r) # {}
      <4>1. \E x, y : new.rows = [db.rows EXCEPT ![x] = y]
        BY <3>2 DEF Save, new
      <4>2. db.rows = [j \in DOMAIN db.rows |-> db.rows[j]]
        BY <1>1 DEF Databases
      <4> QED BY <2>1, <4>1, <4>2
    <3> QED BY <3>1, <3>2
  <2> DEFINE n == Len(new.rows)
  <2>3. n \in Nat /\ new.rows \in [1 .. n -> RowStates]
    <3>1. \A j \in 1 .. n : new.rows[j] \in RowStates
      BY <1>2, <2>1
    <3> QED BY <2>1, <2>2, <3>1
  <2> HIDE DEF n
  <2> QED BY <2>3
<1>5. new.evidence \subseteq [of : Shown, row : Nat, at : Nat]
  BY <1>1, <1>2 DEF StoredAt, Observe, new, Databases
<1>6. new.credits \subseteq Nat \X Providers \X Nat \X (Roles \cup {"guest"})
  <2>1. new.credits = db.credits \cup CreditsOf(r, i)
    BY DEF StoredAt, new
  <2> QED BY <1>1, <1>2, <2>1, CreditsAreTyped DEF Databases
<1>7. new.saved \in Seq(Candidates)
  <2>1. new.saved = Noted(db.saved, Item(db, r, i, new.rows[i]))
    BY DEF StoredAt, new
  <2>2. Item(db, r, i, new.rows[i]) \in Candidates
    BY <1>2, ItemIsTyped
  <2>3. db.saved \in Seq(Candidates)
    BY <1>1 DEF Databases
  <2> QED BY <2>1, <2>2, <2>3, NotedKeeps
<1> QED BY <1>3, <1>4, <1>5, <1>6, <1>7 DEF Databases, new

LEMMA SaveKeepsEvidence ==
  ASSUME MergeAssumption, syncs \in Nat, NEW db \in Coherents, NEW r \in Shown,
         NEW i \in 1 .. Len(db.rows) + 1, NEW new, Place(db, r, i), StoredAt(db, r, i, new)
  PROVE  EvidenceIsOne(new)
<1>1. EvidenceIsOne(db) /\ db \in Databases
  BY DEF Coherents, Coherent
<1>2. /\ \A j \in DOMAIN db.rows : j \in DOMAIN new.rows
      /\ i \in DOMAIN new.rows /\ i \in Nat /\ new.rows[i] \in RowStates
  BY RowsAreTyped
<1>3. \A e : e \in new.evidence <=>
        \/ e \in db.evidence /\ ~(e.of.provider = r.provider /\ e.of.id = r.id)
        \/ e = [of |-> r, row |-> i, at |-> syncs]
  BY Observed1
<1>4. \A e \in new.evidence : e.row \in DOMAIN new.rows /\ e.at <= syncs
  BY <1>1, <1>2, <1>3 DEF EvidenceIsOne
<1>5. \A e, f \in new.evidence : e.of.provider = f.of.provider /\ e.of.id = f.of.id => e = f
  BY <1>1, <1>3 DEF EvidenceIsOne
<1>6. \A k \in DOMAIN new.saved : new.saved[k].row \in DOMAIN new.rows
  <2>1. new.saved = Noted(db.saved, Item(db, r, i, new.rows[i]))
    BY DEF StoredAt
  <2> DEFINE row == new.rows[i]
             item == Item(db, r, i, row)
  <2>2. item \in Candidates /\ item.row = i
    <3>1. row \in RowStates /\ i \in Nat
      BY <1>2
    <3> HIDE DEF row, item
    <3>2. Item(db, r, i, row) \in Candidates
      BY <3>1, ItemIsTyped
    <3>3. Item(db, r, i, row).row = i
      BY DEF Item
    <3> QED BY <3>2, <3>3 DEF item
  <2>3. db.saved \in Seq(Candidates)
    BY <1>1 DEF Databases
  <2>4. new.saved = Noted(db.saved, item)
    BY <2>1
  <2> HIDE DEF item
  <2>5. \A k \in DOMAIN new.saved :
          \/ k \in DOMAIN db.saved /\ new.saved[k] = db.saved[k]
          \/ new.saved[k].row = i
    <3> DEFINE u == Noted(db.saved, item)
    <3>1. \A k \in DOMAIN u :
            \/ k \in DOMAIN db.saved /\ u[k] = db.saved[k]
            \/ u[k].row = item.row
      <4>1. \A k \in DOMAIN u :
              \/ k \in DOMAIN db.saved /\ u[k] = db.saved[k]
              \/ /\ u[k].row = item.row
                 /\ u[k].new => item.new \/ (k \in DOMAIN db.saved /\ db.saved[k].new)
                 /\ \/ DatedAs(u[k], item)
                    \/ k \in DOMAIN db.saved /\ db.saved[k].row = item.row /\ DatedAs(u[k], db.saved[k])
        BY <2>2, <2>3, NotedKeeps
      <4> HIDE DEF u
      <4> QED BY <4>1
    <3> HIDE DEF u
    <3>2. new.saved = u
      BY <2>4 DEF u
    <3> QED BY <2>2, <3>1, <3>2
  <2> QED BY <1>1, <1>2, <2>5 DEF EvidenceIsOne
<1> QED BY <1>4, <1>5, <1>6 DEF EvidenceIsOne

LEMMA SaveKeepsClaims ==
  ASSUME MergeAssumption, syncs \in Nat, NEW db \in Coherents, NEW r \in Shown,
         NEW i \in 1 .. Len(db.rows) + 1, NEW new, Place(db, r, i), StoredAt(db, r, i, new)
  PROVE  ClaimsAreShown(new)
<1>1. EvidenceIsOne(db) /\ ClaimsAreShown(db) /\ db \in Databases
  BY DEF Coherents, Coherent
<1>2. /\ \A j \in DOMAIN db.rows : j \in DOMAIN new.rows
      /\ \A j \in DOMAIN new.rows : j = i \/ j \in DOMAIN db.rows
      /\ i \in DOMAIN new.rows
  BY RowsAreTyped
<1>3. \A e : e \in new.evidence <=>
        \/ e \in db.evidence /\ ~(e.of.provider = r.provider /\ e.of.id = r.id)
        \/ e = [of |-> r, row |-> i, at |-> syncs]
  BY Observed1
<1>0. \A e \in db.evidence : e.of \in Shown /\ e.of.id # 0
  <2>1. \A e \in db.evidence : e.of \in Shown
    BY <1>1 DEF Databases
  <2> QED BY <2>1, ShownFields
<1>00. r.id # 0
  BY ShownFields
<1>4. ASSUME NEW e \in new.evidence, e.of.provider = "musicbrainz"
      PROVE  /\ new.rows[e.row].mbid = e.of.id
             /\ new.rows[e.row].title = e.of.title /\ new.rows[e.row].type = e.of.type
  <2>1. CASE e = [of |-> r, row |-> i, at |-> syncs]
    BY <1>2, <1>4, <2>1, RowsAfter
  <2>2. CASE e \in db.evidence /\ ~(e.of.provider = r.provider /\ e.of.id = r.id)
    <3>1. /\ db.rows[e.row].mbid = e.of.id /\ e.row \in DOMAIN db.rows /\ e.of.id # 0
          /\ db.rows[e.row].title = e.of.title /\ db.rows[e.row].type = e.of.type
      BY <1>0, <1>1, <1>4, <2>2 DEF ClaimsAreShown, EvidenceIsOne
    <3>2. Claimed(db.rows[e.row]) /\ db.rows[e.row].source \in {"musicbrainz", "both"}
      BY <1>1, <3>1 DEF ClaimsAreShown, Claimed
    <3>3. ~(e.row = i /\ r.provider = "musicbrainz")
      <4> SUFFICES ASSUME e.row = i, r.provider = "musicbrainz"
                   PROVE  FALSE
        OBVIOUS
      <4>1. i \in DOMAIN db.rows /\ Claimed(db.rows[i])
        BY <3>1, <3>2
      <4>2. i # Len(db.rows) + 1
        BY <4>1, <1>1 DEF Databases
      <4>3. db.rows[i].mbid # r.id
        BY <1>4, <2>2, <3>1
      <4> QED BY <4>1, <4>2, <4>3, MatchesAreAlike DEF Place, KnownRow
    <3> QED BY <1>2, <3>1, <3>2, <3>3, RowsAfter
  <2> QED BY <1>3, <2>1, <2>2
<1>5. ASSUME NEW j \in DOMAIN new.rows, Claimed(new.rows[j])
      PROVE  /\ new.rows[j].source \in {"musicbrainz", "both"}
             /\ \E e \in new.evidence : e.row = j /\ e.of.provider = "musicbrainz"
  <2>1. CASE j = i /\ r.provider = "musicbrainz"
    <3>1. new.rows[j].source \in {"musicbrainz", "both"}
      BY <2>1, RowsAfter
    <3>2. [of |-> r, row |-> i, at |-> syncs] \in new.evidence
      BY <1>3
    <3> QED BY <2>1, <3>1, <3>2
  <2>2. CASE ~(j = i /\ r.provider = "musicbrainz")
    <3>1. j \in DOMAIN db.rows /\ Claimed(db.rows[j])
      BY <1>5, <2>2, RowsAfter DEF Claimed
    <3>2. db.rows[j].source \in {"musicbrainz", "both"}
      BY <1>1, <3>1 DEF ClaimsAreShown
    <3>3. PICK e \in db.evidence : e.row = j /\ e.of.provider = "musicbrainz"
      BY <1>1, <3>1 DEF ClaimsAreShown
    <3>4. e \in new.evidence
      <4>1. ~(e.of.provider = r.provider /\ e.of.id = r.id)
        BY <2>2, <3>3, IdsStay
      <4> QED BY <1>3, <4>1
    <3> QED BY <2>2, <3>1, <3>2, <3>3, <3>4, RowsAfter
  <2> QED BY <2>1, <2>2
<1>6. ASSUME NEW j \in DOMAIN new.rows, NEW k \in DOMAIN new.rows,
             Claimed(new.rows[j]), new.rows[j].mbid = new.rows[k].mbid
      PROVE  j = k
  <2> DEFINE old(m) == IF m \in DOMAIN db.rows THEN db.rows[m].mbid ELSE 0
  <2>1. \A m \in DOMAIN new.rows :
          new.rows[m].mbid = IF m = i /\ r.provider = "musicbrainz" THEN r.id ELSE old(m)
    BY RowsAfter
  <2>2. \A l, m : old(l) # 0 /\ old(l) = old(m) => l = m
    BY <1>1 DEF ClaimsAreShown, Claimed
  <2>3. r.provider = "musicbrainz" => \A m : old(m) = r.id => m = i
    <3> SUFFICES ASSUME r.provider = "musicbrainz", NEW m, old(m) = r.id
                 PROVE  m = i
      OBVIOUS
    <3>1. m \in KnownRow(db, r)
      BY <1>00 DEF KnownRow
    <3>2. i \in KnownRow(db, r)
      BY <3>1 DEF Place
    <3>3. old(i) = r.id
      BY <3>2 DEF KnownRow
    <3> HIDE DEF old
    <3> QED BY <1>00, <2>2, <3>3
  <2> HIDE DEF old
  <2>4. new.rows[j].mbid # 0
    BY <1>6 DEF Claimed
  <2> QED BY <1>6, <2>1, <2>2, <2>3, <2>4
<1> QED BY <1>4, <1>5, <1>6 DEF ClaimsAreShown

LEMMA SaveKeepsMarks ==
  ASSUME MergeAssumption, syncs \in Nat, NEW db \in Coherents, NEW r \in Shown,
         NEW i \in 1 .. Len(db.rows) + 1, NEW new, Place(db, r, i), StoredAt(db, r, i, new)
  PROVE  MarksAreShown(new)
<1>1. MarksAreShown(db)
  BY DEF Coherents, Coherent
<1>2. \A e : e \in new.evidence <=>
        \/ e \in db.evidence /\ ~(e.of.provider = r.provider /\ e.of.id = r.id)
        \/ e = [of |-> r, row |-> i, at |-> syncs]
  BY Observed1
<1>3. ASSUME NEW j \in DOMAIN new.rows, NEW p \in Marks, new.rows[j][p] # 0
      PROVE  \E e \in new.evidence : e.row = j /\ e.of.provider = p
  <2>1. CASE p = r.provider /\ j = i
    <3>1. [of |-> r, row |-> i, at |-> syncs] \in new.evidence
      BY <1>2
    <3> QED BY <2>1, <3>1
  <2>2. CASE p # r.provider \/ j # i
    <3>1. j \in DOMAIN db.rows /\ db.rows[j][p] # 0
      BY <1>3, <2>2, RowsAfter
    <3>2. PICK e \in db.evidence : e.row = j /\ e.of.provider = p
      BY <1>1, <3>1 DEF MarksAreShown, Marks
    <3>3. ~(e.of.provider = r.provider /\ e.of.id = r.id)
      BY <2>2, <3>2, IdsStay
    <3> QED BY <1>2, <3>2, <3>3
  <2> QED BY <2>1, <2>2
<1> QED BY <1>3 DEF MarksAreShown, Marks

LEMMA SaveIsCoherent ==
  ASSUME MergeAssumption, syncs \in Nat, NEW db \in Coherents, NEW r \in Shown
  PROVE  Save(db, r) \in Coherents
<1>1. PICK i \in 1 .. Len(db.rows) + 1 : Place(db, r, i) /\ StoredAt(db, r, i, Save(db, r))
  BY SaveHasAPlace
<1> DEFINE new == Save(db, r)
<1>2. new \in Databases
  BY <1>1, SaveIsTyped
<1>3. StoredAt(db, r, i, new)
  BY <1>1
<1> HIDE DEF new
<1>4. EvidenceIsOne(new) /\ ClaimsAreShown(new) /\ MarksAreShown(new)
  BY <1>1, <1>3, SaveKeepsEvidence, SaveKeepsClaims, SaveKeepsMarks
<1>5. CreditsAreStored(new)
  <2>1. \A e \in new.evidence : e \in db.evidence \/ e = [of |-> r, row |-> i, at |-> syncs]
    BY <1>3, Observed1
  <2>2. new.credits = db.credits \cup CreditsOf(r, i)
    BY <1>3 DEF StoredAt
  <2>3. CreditsAreStored(db)
    BY DEF Coherents, Coherent
  <2> QED BY <2>1, <2>2, <2>3 DEF CreditsAreStored
<1> QED BY <1>2, <1>4, <1>5 DEF Coherents, Coherent, new

-----------------------------------------------------------------------------
(* ReleaseMerge: what the first k records s of a synchronization make of    *)
(* what was stored when it began, db.                                       *)

AtStart(db) == db \in Coherents /\ db.saved = << >> /\ \A e \in db.evidence : e.at < syncs
Distinct(s) == \A j, k \in DOMAIN s : j # k => ~(s[j].provider = s[k].provider /\ s[j].id = s[k].id)
SameId(e, f) == e.of.provider = f.of.provider /\ e.of.id = f.of.id
IsFresh(e) == e.at = syncs

RowsGrow(db, cur) == DOMAIN db.rows \subseteq DOMAIN cur.rows /\ db.credits \subseteq cur.credits
FreshAreRecords(db, s, k, cur) ==
  /\ \A e \in cur.evidence : e \in db.evidence \/ (IsFresh(e) /\ \E j \in 1 .. k : e.of = s[j])
  /\ \A j \in 1 .. k : \E e \in cur.evidence : IsFresh(e) /\ e.of = s[j]
OldStays(db, cur) ==
  \A e \in db.evidence : \E f \in cur.evidence : (f = e \/ IsFresh(f)) /\ SameId(e, f) /\ f.row = e.row
Untouched(db, cur) ==
  \A i \in DOMAIN db.rows : (\A e \in cur.evidence : e.row = i => ~IsFresh(e)) => cur.rows[i] = db.rows[i]
\* The only record that joined a row of another provider is like that row.
JoinedAlike(db, cur) ==
  \A i \in DOMAIN db.rows, e \in cur.evidence :
    /\ e.row = i /\ IsFresh(e)
    /\ \A x \in cur.evidence : x.row = i /\ IsFresh(x) => x = e
    /\ \A x \in db.evidence : x.row = i => x.of.provider # e.of.provider
    => e.of.precision # 0 /\ SameRelease(db.rows[i], e.of)
NewRowsAreNoted(db, cur) ==
  \A i \in DOMAIN cur.rows \ DOMAIN db.rows :
    /\ \E m \in DOMAIN cur.saved : cur.saved[m].row = i /\ cur.saved[m].new
    /\ \E e \in cur.evidence : e.row = i /\ DatedAs(cur.rows[i], e.of)
    /\ \A m \in DOMAIN cur.saved : cur.saved[m].row = i =>
         \E e \in cur.evidence : e.row = i /\ DatedAs(cur.saved[m], e.of)
NothingIsNew(db, s, k, cur) ==
  (\A j \in 1 .. k : \E e \in db.evidence : e.of = s[j]) => \A m \in DOMAIN cur.saved : ~cur.saved[m].new

Since(db, s, k, cur) ==
  /\ RowsGrow(db, cur) /\ FreshAreRecords(db, s, k, cur) /\ OldStays(db, cur) /\ Untouched(db, cur)
  /\ JoinedAlike(db, cur) /\ NewRowsAreNoted(db, cur) /\ NothingIsNew(db, s, k, cur)

\* One record more, r, stored in row i.
OneMore(db, s, k, cur, r, i, new) ==
  /\ AtStart(db) /\ Distinct(s) /\ s \in Seq(Shown) /\ k \in 0 .. Len(s) - 1 /\ r = s[k + 1]
  /\ cur \in Coherents /\ Since(db, s, k, cur)
  /\ r \in Shown /\ i \in 1 .. Len(cur.rows) + 1 /\ Place(cur, r, i) /\ StoredAt(cur, r, i, new)
Newest(r, i) == [of |-> r, row |-> i, at |-> syncs]

LEMMA SinceTheStart ==
  ASSUME NEW db, AtStart(db), NEW s
  PROVE  Since(db, s, 0, db)
<1>1. \A e \in db.evidence : ~IsFresh(e)
  <2>1. db.evidence \subseteq [of : Shown, row : Nat, at : Nat] /\ \A e \in db.evidence : e.at < syncs /\ e.at <= syncs
    BY DEF AtStart, Coherents, Coherent, Databases, EvidenceIsOne
  <2>2. \A e \in db.evidence : e.at \in Nat /\ e.at < syncs
    BY <2>1
  <2> QED BY <2>2 DEF IsFresh
<1>2. DOMAIN db.saved = {} /\ 1 .. 0 = {}
  BY DEF AtStart
<1> QED BY <1>1, <1>2 DEF Since, RowsGrow, FreshAreRecords, OldStays, Untouched, JoinedAlike,
      NewRowsAreNoted, NothingIsNew, SameId

\* A record of the synchronization replaces none that came before it.
LEMMA FreshStays ==
  ASSUME NEW db, NEW s, NEW k, NEW cur, NEW r, NEW i, NEW new, OneMore(db, s, k, cur, r, i, new)
  PROVE  /\ \A e \in cur.evidence : IsFresh(e) => e \in new.evidence /\ e.of # r
         /\ \A e \in new.evidence : e \in cur.evidence \/ e = Newest(r, i)
         /\ \A e \in cur.evidence : e \in new.evidence \/ (e.of.provider = r.provider /\ e.of.id = r.id)
         /\ Newest(r, i) \in new.evidence
<1>1. \A e : e \in new.evidence <=>
        \/ e \in cur.evidence /\ ~(e.of.provider = r.provider /\ e.of.id = r.id)
        \/ e = Newest(r, i)
  BY Observed1 DEF OneMore, Newest
<1>2. ASSUME NEW e \in cur.evidence, IsFresh(e)
      PROVE  ~(e.of.provider = r.provider /\ e.of.id = r.id)
  <2>1. e \notin db.evidence
    <3>1. \A x \in db.evidence : x.at \in Nat /\ x.at < syncs
      BY DEF OneMore, AtStart, Coherents, Coherent, Databases
    <3> QED BY <1>2, <3>1 DEF IsFresh
  <2>2. PICK j \in 1 .. k : e.of = s[j]
    BY <2>1 DEF OneMore, Since, FreshAreRecords
  <2>3. k \in 0 .. Len(s) - 1 /\ s \in Seq(Shown) /\ r = s[k + 1] /\ Distinct(s)
    BY DEF OneMore
  <2>4. j \in DOMAIN s /\ k + 1 \in DOMAIN s /\ j # k + 1
    BY <2>3
  <2> QED BY <2>2, <2>3, <2>4 DEF Distinct
<1> QED BY <1>1, <1>2

LEMMA RowsGrowByOne ==
  ASSUME MergeAssumption, NEW db, NEW s, NEW k, NEW cur, NEW r, NEW i, NEW new,
         OneMore(db, s, k, cur, r, i, new)
  PROVE  RowsGrow(db, new) /\ RowsGrow(cur, new)
<1>1. cur \in Coherents /\ r \in Shown /\ i \in 1 .. Len(cur.rows) + 1 /\ StoredAt(cur, r, i, new)
      /\ RowsGrow(db, cur)
  BY DEF OneMore, Since
<1>2. \A j \in DOMAIN cur.rows : j \in DOMAIN new.rows
  BY <1>1, RowsAreTyped
<1> QED BY <1>1, <1>2 DEF RowsGrow, StoredAt

LEMMA FreshAreRecordsByOne ==
  ASSUME NEW db, NEW s, NEW k, NEW cur, NEW r, NEW i, NEW new, OneMore(db, s, k, cur, r, i, new)
  PROVE  FreshAreRecords(db, s, k + 1, new)
<1>1. /\ k \in Nat /\ r = s[k + 1] /\ FreshAreRecords(db, s, k, cur)
      /\ \A j \in 1 .. k + 1 : j \in 1 .. k \/ j = k + 1
      /\ k + 1 \in 1 .. k + 1 /\ \A j \in 1 .. k : j \in 1 .. k + 1
  BY DEF OneMore, Since
<1>2. IsFresh(Newest(r, i)) /\ Newest(r, i).of = s[k + 1]
  BY <1>1 DEF Newest, IsFresh
<1> QED BY <1>1, <1>2, FreshStays DEF FreshAreRecords

LEMMA OldStaysByOne ==
  ASSUME MergeAssumption, NEW db, NEW s, NEW k, NEW cur, NEW r, NEW i, NEW new,
         OneMore(db, s, k, cur, r, i, new)
  PROVE  OldStays(db, new)
<1> SUFFICES ASSUME NEW e \in db.evidence
             PROVE  \E f \in new.evidence : (f = e \/ IsFresh(f)) /\ SameId(e, f) /\ f.row = e.row
  BY DEF OldStays
<1>1. PICK f \in cur.evidence : (f = e \/ IsFresh(f)) /\ SameId(e, f) /\ f.row = e.row
  BY DEF OneMore, Since, OldStays
<1>2. CASE f \in new.evidence
  BY <1>1, <1>2
<1>3. CASE f \notin new.evidence
  <2>1. f.of.provider = r.provider /\ f.of.id = r.id
    BY <1>3, FreshStays
  <2>2. f.row = i
    BY <2>1, IdsStay DEF OneMore
  <2>3. Newest(r, i) \in new.evidence /\ IsFresh(Newest(r, i)) /\ Newest(r, i).row = i /\ Newest(r, i).of = r
    BY FreshStays DEF Newest, IsFresh
  <2> QED BY <1>1, <2>1, <2>2, <2>3 DEF SameId
<1> QED BY <1>2, <1>3

LEMMA UntouchedByOne ==
  ASSUME MergeAssumption, NEW db, NEW s, NEW k, NEW cur, NEW r, NEW i, NEW new,
         OneMore(db, s, k, cur, r, i, new)
  PROVE  Untouched(db, new)
<1> SUFFICES ASSUME NEW j \in DOMAIN db.rows, \A e \in new.evidence : e.row = j => ~IsFresh(e)
             PROVE  new.rows[j] = db.rows[j]
  BY DEF Untouched
<1>1. j # i
  <2>1. Newest(r, i) \in new.evidence /\ IsFresh(Newest(r, i)) /\ Newest(r, i).row = i
    BY FreshStays DEF Newest, IsFresh
  <2> QED BY <2>1
<1>2. \A e \in cur.evidence : e.row = j => ~IsFresh(e)
  BY FreshStays
<1>3. cur.rows[j] = db.rows[j] /\ j \in DOMAIN cur.rows
  BY <1>2 DEF OneMore, Since, Untouched, RowsGrow
<1> QED BY <1>1, <1>3 DEF OneMore, StoredAt

LEMMA JoinedAlikeByOne ==
  ASSUME MergeAssumption, NEW db, NEW s, NEW k, NEW cur, NEW r, NEW i, NEW new,
         OneMore(db, s, k, cur, r, i, new)
  PROVE  JoinedAlike(db, new)
<1> SUFFICES ASSUME NEW j \in DOMAIN db.rows, NEW e \in new.evidence,
                    e.row = j, IsFresh(e),
                    \A x \in new.evidence : x.row = j /\ IsFresh(x) => x = e,
                    \A x \in db.evidence : x.row = j => x.of.provider # e.of.provider
             PROVE  e.of.precision # 0 /\ SameRelease(db.rows[j], e.of)
  BY DEF JoinedAlike
<1>1. Newest(r, i) \in new.evidence /\ IsFresh(Newest(r, i)) /\ Newest(r, i).row = i /\ Newest(r, i).of = r
  BY FreshStays DEF Newest, IsFresh
<1>2. CASE e # Newest(r, i)
  <2>1. e \in cur.evidence
    BY <1>2, FreshStays
  <2>2. \A x \in cur.evidence : x.row = j /\ IsFresh(x) => x = e
    BY FreshStays
  <2> QED BY <2>1, <2>2 DEF OneMore, Since, JoinedAlike
<1>3. CASE e = Newest(r, i)
  <2>1. j = i /\ e.of = r
    BY <1>1, <1>3
  <2>2. \A x \in cur.evidence : x.row = i => ~IsFresh(x)
    BY <1>1, <1>3, <2>1, FreshStays
  <2>3. cur.rows[i] = db.rows[i] /\ i \in DOMAIN cur.rows
    BY <2>1, <2>2 DEF OneMore, Since, Untouched, RowsGrow
  <2>4. \A x \in cur.evidence : x.row = i => x.of.provider # r.provider
    <3> SUFFICES ASSUME NEW x \in cur.evidence, x.row = i
                 PROVE  x.of.provider # r.provider
      OBVIOUS
    <3>1. x \in db.evidence
      BY <2>2 DEF OneMore, Since, FreshAreRecords
    <3> QED BY <2>1, <3>1
  <2>5. KnownRow(cur, r) = {}
    <3> SUFFICES ASSUME NEW m \in KnownRow(cur, r)
                 PROVE  FALSE
      OBVIOUS
    <3>0. /\ cur \in Coherents /\ r \in Shown /\ ClaimsAreShown(cur) /\ MarksAreShown(cur)
          /\ EvidenceIsOne(cur) /\ r.id # 0
      BY ShownFields DEF OneMore, Coherents, Coherent
    <3>1. i \in KnownRow(cur, r)
      BY DEF OneMore, Place
    <3>2. CASE r.provider = "musicbrainz"
      <4>1. cur.rows[i].mbid = r.id /\ i \in DOMAIN cur.rows
        BY <3>1, <3>2 DEF KnownRow
      <4> QED BY <2>4, <3>0, <3>2, <4>1 DEF ClaimsAreShown, Claimed
    <3>3. CASE r.provider # "musicbrainz"
      <4> DEFINE seen == {x.row : x \in {y \in cur.evidence : y.of.provider = r.provider /\ y.of.id = r.id}}
      <4>1. i \notin seen
        BY <2>4
      <4>2. KnownRow(cur, r) = IF seen # {} THEN seen ELSE {n \in DOMAIN cur.rows : cur.rows[n][r.provider] = r.id}
        BY <3>3 DEF KnownRow
      <4> HIDE DEF seen
      <4>3. cur.rows[i][r.provider] = r.id /\ i \in DOMAIN cur.rows
        BY <3>1, <4>1, <4>2
      <4>4. r.provider \in {"spotify", "itunes"}
        BY <3>0, <3>3, ShownFields DEF Providers
      <4> QED BY <2>4, <3>0, <4>3, <4>4 DEF MarksAreShown
    <3> QED BY <3>2, <3>3
  <2>6. i \in MatchingRelease(cur.rows, r)
    <3>1. i # Len(cur.rows) + 1
      BY <2>3 DEF OneMore, Coherents, Coherent, Databases
    <3> QED BY <2>5, <3>1 DEF OneMore, Place
  <2> QED BY <2>1, <2>3, <2>6, MatchesAreAlike
<1> QED BY <1>2, <1>3

LEMMA NewRowsAreNotedByOne ==
  ASSUME MergeAssumption, NEW db, NEW s, NEW k, NEW cur, NEW r, NEW i, NEW new,
         OneMore(db, s, k, cur, r, i, new)
  PROVE  NewRowsAreNoted(db, new)
<1> DEFINE row == new.rows[i]
           item == Item(cur, r, i, row)
           u == new.saved
           saved == cur.saved
<1>1. /\ cur \in Coherents /\ r \in Shown /\ i \in 1 .. Len(cur.rows) + 1 /\ StoredAt(cur, r, i, new)
      /\ AtStart(db) /\ EvidenceIsOne(db) /\ EvidenceIsOne(cur) /\ saved \in Seq(Candidates)
  BY DEF OneMore, AtStart, Coherents, Coherent, Databases
<1>2. /\ \A j \in DOMAIN cur.rows : cur.rows[j] \in RowStates
      /\ \A j \in DOMAIN new.rows : j = i \/ j \in DOMAIN cur.rows
      /\ row \in RowStates /\ i \in Nat
  BY <1>1, RowsAreTyped
<1> HIDE DEF row
<1>3. /\ item \in Candidates /\ item.row = i /\ DatedAs(item, row)
      /\ i \notin DOMAIN cur.rows => item.new
  <2>1. Item(cur, r, i, row) \in Candidates
    BY <1>1, <1>2, ItemIsTyped
  <2>2. /\ Item(cur, r, i, row).row = i /\ DatedAs(Item(cur, r, i, row), row)
        /\ i \notin DOMAIN cur.rows => Item(cur, r, i, row).new
    BY DEF Item, DatedAs
  <2> QED BY <2>1, <2>2
<1>4. u = Noted(saved, item)
  BY <1>1 DEF StoredAt, row
<1> HIDE DEF item, u
<1>5. /\ \A m \in DOMAIN saved : m \in DOMAIN u /\ u[m].row = saved[m].row /\ (saved[m].new => u[m].new)
      /\ \E m \in DOMAIN u : u[m].row = item.row /\ (item.new => u[m].new)
      /\ \A m \in DOMAIN u :
           \/ m \in DOMAIN saved /\ u[m] = saved[m]
           \/ /\ u[m].row = item.row
              /\ \/ DatedAs(u[m], item)
                 \/ m \in DOMAIN saved /\ saved[m].row = item.row /\ DatedAs(u[m], saved[m])
  <2> DEFINE v == Noted(saved, item)
  <2>1. /\ \A m \in DOMAIN saved : /\ m \in DOMAIN v /\ v[m].row = saved[m].row
                                   /\ saved[m].new => v[m].new
        /\ \E m \in DOMAIN v : v[m].row = item.row /\ (item.new => v[m].new)
        /\ \A m \in DOMAIN v :
             \/ m \in DOMAIN saved /\ v[m] = saved[m]
             \/ /\ v[m].row = item.row
                /\ v[m].new => item.new \/ (m \in DOMAIN saved /\ saved[m].new)
                /\ \/ DatedAs(v[m], item)
                   \/ m \in DOMAIN saved /\ saved[m].row = item.row /\ DatedAs(v[m], saved[m])
    BY <1>1, <1>3, NotedKeeps
  <2>2. u = v
    BY <1>4
  <2> HIDE DEF v
  <2> QED BY <2>1, <2>2
<1>6. \A m \in DOMAIN saved : saved[m].row \in DOMAIN cur.rows
  BY <1>1 DEF EvidenceIsOne
<1>7. ASSUME NEW j, j \notin DOMAIN db.rows, NEW e \in cur.evidence, e.row = j
      PROVE  e \in new.evidence
  <2>1. e \notin db.evidence
    BY <1>1, <1>7 DEF EvidenceIsOne
  <2>2. IsFresh(e)
    BY <2>1 DEF OneMore, Since, FreshAreRecords
  <2> QED BY <2>2, FreshStays
<1>8. NewRowsAreNoted(db, cur)
  BY DEF OneMore, Since
<1>9. Newest(r, i) \in new.evidence /\ Newest(r, i).row = i /\ Newest(r, i).of = r
  BY FreshStays DEF Newest
<1>10. \A x, y, z : DatedAs(x, y) /\ DatedAs(y, z) => DatedAs(x, z)
  BY DEF DatedAs
<1>11. ASSUME NEW j \in DOMAIN new.rows \ DOMAIN db.rows, j # i
       PROVE  /\ \E m \in DOMAIN u : u[m].row = j /\ u[m].new
              /\ \E e \in new.evidence : e.row = j /\ DatedAs(new.rows[j], e.of)
              /\ \A m \in DOMAIN u : u[m].row = j => \E e \in new.evidence : e.row = j /\ DatedAs(u[m], e.of)
  <2>1. j \in DOMAIN cur.rows \ DOMAIN db.rows /\ new.rows[j] = cur.rows[j]
    BY <1>1, <1>2, <1>11 DEF StoredAt
  <2>2. /\ \E m \in DOMAIN saved : saved[m].row = j /\ saved[m].new
        /\ \E e \in cur.evidence : e.row = j /\ DatedAs(cur.rows[j], e.of)
        /\ \A m \in DOMAIN saved : saved[m].row = j => \E e \in cur.evidence : e.row = j /\ DatedAs(saved[m], e.of)
    BY <1>8, <2>1 DEF NewRowsAreNoted
  <2>3. \A m \in DOMAIN u : u[m].row = j => m \in DOMAIN saved /\ u[m] = saved[m]
    BY <1>3, <1>5, <1>11
  <2>4. \A e \in cur.evidence : e.row = j => e \in new.evidence
    BY <1>7, <2>1
  <2>5. \E m \in DOMAIN u : u[m].row = j /\ u[m].new
    BY <1>5, <2>2
  <2>6. \A m \in DOMAIN u : u[m].row = j => \E e \in new.evidence : e.row = j /\ DatedAs(u[m], e.of)
    BY <2>2, <2>3, <2>4
  <2> QED BY <2>1, <2>2, <2>4, <2>5, <2>6
<1>12. ASSUME i \in DOMAIN new.rows \ DOMAIN db.rows
       PROVE  /\ \E m \in DOMAIN u : u[m].row = i /\ u[m].new
              /\ \E e \in new.evidence : e.row = i /\ DatedAs(row, e.of)
              /\ \A m \in DOMAIN u : u[m].row = i => \E e \in new.evidence : e.row = i /\ DatedAs(u[m], e.of)
  <2>0. \A e \in cur.evidence : e.row = i => e \in new.evidence
    BY <1>7, <1>12
  <2>1. \E m \in DOMAIN u : u[m].row = i /\ u[m].new
    <3>1. CASE i \in DOMAIN cur.rows
      <4>1. \E m \in DOMAIN saved : saved[m].row = i /\ saved[m].new
        BY <1>8, <1>12, <3>1 DEF NewRowsAreNoted
      <4> QED BY <1>5, <4>1
    <3>2. CASE i \notin DOMAIN cur.rows
      BY <1>3, <1>5, <3>2
    <3> QED BY <3>1, <3>2
  <2>2. PICK e \in new.evidence : e.row = i /\ DatedAs(row, e.of)
    <3>1. CASE i \in DOMAIN cur.rows
      <4>1. row = UpdatedRow(cur.rows[i], r) /\ cur.rows[i] \in RowStates
        BY <1>1, <1>2, <3>1 DEF StoredAt, row
      <4>2. DatedAs(row, cur.rows[i]) \/ DatedAs(row, r)
        <5>1. r.provider = "musicbrainz" \/ \E p \in Marks : r.provider = p
          BY <1>1, ShownFields DEF Providers, Marks
        <5> QED BY <1>1, <4>1, <5>1, MusicBrainzReads, ProviderReads
      <4>3. PICK x \in cur.evidence : x.row = i /\ DatedAs(cur.rows[i], x.of)
        BY <1>8, <1>12, <3>1 DEF NewRowsAreNoted
      <4> QED BY <1>9, <1>10, <2>0, <4>2, <4>3
    <3>2. CASE i \notin DOMAIN cur.rows
      <4>1. row = NewRow(r)
        BY <1>1, <3>2 DEF StoredAt, row
      <4>2. DatedAs(row, r)
        BY <1>1, <4>1, NewRowReads DEF DatedAs
      <4> QED BY <1>9, <4>2
    <3> QED BY <3>1, <3>2
  <2>3. ASSUME NEW m \in DOMAIN saved, saved[m].row = i
        PROVE  \E x \in new.evidence : x.row = i /\ DatedAs(saved[m], x.of)
    <3>1. i \in DOMAIN cur.rows \ DOMAIN db.rows
      BY <1>6, <1>12, <2>3
    <3> QED BY <1>8, <2>0, <2>3, <3>1 DEF NewRowsAreNoted
  <2>4. ASSUME NEW m \in DOMAIN u, u[m].row = i
        PROVE  \E x \in new.evidence : x.row = i /\ DatedAs(u[m], x.of)
    <3>1. CASE m \in DOMAIN saved /\ u[m] = saved[m]
      BY <2>3, <2>4, <3>1
    <3>2. CASE DatedAs(u[m], item)
      BY <1>3, <1>10, <2>2, <3>2
    <3>3. CASE m \in DOMAIN saved /\ saved[m].row = item.row /\ DatedAs(u[m], saved[m])
      BY <1>3, <1>10, <2>3, <3>3
    <3> QED BY <1>5, <3>1, <3>2, <3>3
  <2> QED BY <2>1, <2>2, <2>4
<1>13. \A j \in DOMAIN new.rows \ DOMAIN db.rows :
         /\ \E m \in DOMAIN u : u[m].row = j /\ u[m].new
         /\ \E e \in new.evidence : e.row = j /\ DatedAs(new.rows[j], e.of)
         /\ \A m \in DOMAIN u : u[m].row = j => \E e \in new.evidence : e.row = j /\ DatedAs(u[m], e.of)
  BY <1>11, <1>12 DEF row
<1> QED BY <1>13 DEF NewRowsAreNoted, u

LEMMA NothingIsNewByOne ==
  ASSUME MergeAssumption, NEW db, NEW s, NEW k, NEW cur, NEW r, NEW i, NEW new,
         OneMore(db, s, k, cur, r, i, new)
  PROVE  NothingIsNew(db, s, k + 1, new)
<1> SUFFICES ASSUME \A j \in 1 .. k + 1 : \E e \in db.evidence : e.of = s[j],
                    NEW m \in DOMAIN new.saved
             PROVE  ~new.saved[m].new
  BY DEF NothingIsNew
<1> DEFINE row == new.rows[i]
           item == Item(cur, r, i, row)
           saved == cur.saved
           v == Noted(saved, item)
<1>0. /\ cur \in Coherents /\ r \in Shown /\ i \in 1 .. Len(cur.rows) + 1 /\ StoredAt(cur, r, i, new)
      /\ AtStart(db) /\ k \in Nat /\ r = s[k + 1] /\ Place(cur, r, i)
  BY DEF OneMore
<1>1. /\ cur \in Coherents /\ r \in Shown /\ i \in 1 .. Len(cur.rows) + 1 /\ StoredAt(cur, r, i, new)
      /\ AtStart(db) /\ CreditsAreStored(db) /\ EvidenceIsOne(cur) /\ saved \in Seq(Candidates)
      /\ k \in Nat /\ r = s[k + 1] /\ Place(cur, r, i)
  BY <1>0 DEF AtStart, Coherents, Coherent, Databases
<1>2. \A x \in DOMAIN saved : ~saved[x].new
  <2>1. \A j \in 1 .. k : j \in 1 .. k + 1
    BY <1>1
  <2> QED BY <2>1 DEF OneMore, Since, NothingIsNew
<1>3. PICK e \in db.evidence : e.of = r
  <2>1. k + 1 \in 1 .. k + 1
    BY <1>1
  <2> QED BY <1>1, <2>1
<1>4. PICK f \in cur.evidence : SameId(e, f) /\ f.row = e.row
  BY DEF OneMore, Since, OldStays
<1>5. f.row = i
  BY <1>1, <1>3, <1>4, IdsStay DEF SameId
<1>6. i \in DOMAIN cur.rows
  BY <1>1, <1>5 DEF EvidenceIsOne
<1>7. CreditsOf(r, i) \ cur.credits = {}
  <2>1. CreditsOf(r, i) \subseteq db.credits
    BY <1>1, <1>3, <1>4, <1>5 DEF CreditsAreStored
  <2>2. db.credits \subseteq cur.credits
    BY DEF OneMore, Since, RowsGrow
  <2> QED BY <2>1, <2>2
<1>8. row \in RowStates /\ i \in Nat
  BY <1>1, RowsAreTyped
<1> HIDE DEF row
<1>9. item \in Candidates /\ ~item.new
  <2>1. Item(cur, r, i, row) \in Candidates
    BY <1>1, <1>8, ItemIsTyped
  <2>2. ~Item(cur, r, i, row).new
    BY <1>6, <1>7 DEF Item
  <2> QED BY <2>1, <2>2
<1> HIDE DEF item
<1>10. \A x \in DOMAIN v :
         \/ x \in DOMAIN saved /\ v[x] = saved[x]
         \/ /\ v[x].row = item.row
            /\ v[x].new => item.new \/ (x \in DOMAIN saved /\ saved[x].new)
            /\ \/ DatedAs(v[x], item)
               \/ x \in DOMAIN saved /\ saved[x].row = item.row /\ DatedAs(v[x], saved[x])
  BY <1>1, <1>9, NotedKeeps
<1>11. new.saved = v
  BY <1>1 DEF StoredAt, row, item
<1> HIDE DEF v
<1> QED BY <1>2, <1>9, <1>10, <1>11

\* What a whole synchronization makes of what was stored.
LEMMA SinceForAll ==
  ASSUME MergeAssumption, syncs \in Nat, NEW db, AtStart(db), NEW s \in Seq(Shown), Distinct(s)
  PROVE  FoldLeft(Save, db, s) \in Coherents /\ Since(db, s, Len(s), FoldLeft(Save, db, s))
<1> DEFINE I == {p \in Nat \X Coherents : Since(db, s, p[1], p[2])}
<1>1. Len(s) \in Nat /\ \A k \in 1 .. Len(s) : s[k] \in Shown
  OBVIOUS
<1>2. db \in Coherents /\ \A d \in Coherents, x \in Shown : Save(d, x) \in Coherents
  BY SaveIsCoherent DEF AtStart
<1>3. <<0, db>> \in I
  BY <1>2, SinceTheStart
<1>4. ASSUME NEW k \in 0 .. Len(s) - 1, NEW cur \in Coherents, <<k, cur>> \in I
      PROVE  <<k + 1, Save(cur, s[k + 1])>> \in I
  <2> DEFINE r == s[k + 1]
             new == Save(cur, r)
  <2>1. r \in Shown /\ Since(db, s, k, cur) /\ k + 1 \in Nat
    BY <1>1, <1>4
  <2>2. new \in Coherents
    BY <1>2, <2>1
  <2> HIDE DEF r
  <2>3. PICK i \in 1 .. Len(cur.rows) + 1 : Place(cur, r, i) /\ StoredAt(cur, r, i, new)
    BY <2>1, SaveHasAPlace
  <2> HIDE DEF new
  <2>4. OneMore(db, s, k, cur, r, i, new)
    BY <2>1, <2>3 DEF OneMore, r
  <2>5. Since(db, s, k + 1, new)
    BY <2>4, RowsGrowByOne, FreshAreRecordsByOne, OldStaysByOne, UntouchedByOne, JoinedAlikeByOne,
       NewRowsAreNotedByOne, NothingIsNewByOne DEF Since
  <2>6. <<k + 1, new>> \in I
    BY <2>1, <2>2, <2>5
  <2> QED BY <2>6 DEF new, r
<1> HIDE DEF I
<1>5. FoldLeft(Save, db, s) \in Coherents /\ <<Len(s), FoldLeft(Save, db, s)>> \in I
  BY <1>2, <1>3, <1>4, SaveFold
<1> QED BY <1>5 DEF I

-----------------------------------------------------------------------------
(* ReleaseMerge: the invariant, and what a synchronization does.           *)

LEMMA BatchesAreDistinct ==
  ASSUME NEW b \in Batches
  PROVE  b \in Seq(Shown) /\ Distinct(b)
<1>1. b \in Seq(Shown)
  BY DEF Batches, BoundedSeq, SeqOf
<1>2. ASSUME NEW j \in DOMAIN b, NEW k \in DOMAIN b, j < k
      PROVE  ~(b[j].provider = b[k].provider /\ b[j].id = b[k].id)
  BY <1>2 DEF Batches
<1>3. Len(b) \in Nat /\ DOMAIN b = 1 .. Len(b)
  BY <1>1
<1>4. \A j, k \in DOMAIN b : j # k => j < k \/ k < j
  BY <1>3
<1> QED BY <1>1, <1>2, <1>4 DEF Distinct

LEMMA BatchStep ==
  ASSUME MergeAssumption, MergeIInv, NEW b \in Batches, ApplyBatches(b)
  PROVE  LET done == FoldLeft(Save, Database, b) IN
         /\ AtStart(Database) /\ b \in Seq(Shown)
         /\ done \in Coherents /\ Since(Database, b, Len(b), done)
         /\ rows' = done.rows /\ evidence' = done.evidence /\ credits' = done.credits
         /\ issues' = UNION {Conflicts(done.evidence, i) : i \in DOMAIN done.rows}
         /\ follow.all => events' = events \cup Announced(done.saved)
<1>1. AtStart(Database) /\ syncs \in Nat
  <2>1. Coherent(Database) /\ \A e \in evidence : e.at < syncs
    BY DEF MergeIInv
  <2>2. Database \in Databases /\ syncs \in Nat
    BY <2>1 DEF Coherent, MergeIInv
  <2> QED BY <2>1, <2>2 DEF AtStart, Coherents, Database
<1>2. b \in Seq(Shown) /\ Distinct(b)
  BY BatchesAreDistinct
<1> DEFINE done == FoldLeft(Save, Database, b)
<1>3. done \in Coherents /\ Since(Database, b, Len(b), done)
  BY <1>1, <1>2, SinceForAll
<1>4. /\ rows' = done.rows /\ evidence' = done.evidence /\ credits' = done.credits
      /\ issues' = UNION {Conflicts(done.evidence, i) : i \in DOMAIN done.rows}
      /\ \E told \in Told(done.saved) : events' = events \cup told
  BY DEF ApplyBatches
<1>5. follow.all => events' = events \cup Announced(done.saved)
  <2> HIDE DEF done
  <2> QED BY <1>4 DEF Told
<1> QED BY <1>1, <1>2, <1>3, <1>4, <1>5

LEMMA MergeIInvAtFirst ==
  ASSUME MergeAssumption, MergeInit
  PROVE  MergeIInv
<1>1. rows = << >> /\ evidence = {} /\ credits = {} /\ syncs = 0 /\ today = 0 /\ checked = Never
  BY DEF MergeInit
<1>2. follow \in [all : BOOLEAN, spotify : BOOLEAN]
  <2>1. PICK x \in BOOLEAN, y \in BOOLEAN : follow = [all |-> x, spotify |-> y]
    BY DEF MergeInit
  <2> QED BY <2>1
<1>3. DOMAIN rows = {} /\ rows \in Seq(RowStates) /\ << >> \in Seq(Candidates) /\ DOMAIN << >> = {}
  BY <1>1
<1>4. Database \in Databases
  BY <1>1, <1>3 DEF Database, Databases
<1>5. Database.rows = << >> /\ Database.evidence = {} /\ Database.credits = {} /\ Database.saved = << >>
  BY <1>1 DEF Database
<1>6. Coherent(Database)
  BY <1>4, <1>5 DEF Coherent, EvidenceIsOne, ClaimsAreShown, MarksAreShown, CreditsAreStored
<1>7. syncs \in 0 .. MaxSyncs
  BY <1>1 DEF MergeAssumption
<1> QED BY <1>1, <1>2, <1>6, <1>7 DEF MergeIInv

LEMMA MergeIInvAfter ==
  ASSUME MergeAssumption, MergeIInv, [MergeNext]_mergeVars
  PROVE  MergeIInv'
<1>0. today \in Nat /\ syncs \in 0 .. MaxSyncs /\ MaxSyncs \in Nat /\ NewsDays \in Nat
  BY DEF MergeIInv, MergeAssumption
<1>1. CASE UNCHANGED mergeVars
  BY <1>1 DEF MergeIInv, mergeVars, Coherent, EvidenceIsOne, ClaimsAreShown, MarksAreShown,
     CreditsAreStored, Database
<1>2. CASE MergeTick
  <2>1. /\ UNCHANGED <<rows, evidence, credits, syncs, follow, checked>> /\ today' \in Nat
    BY <1>0, <1>2 DEF MergeTick
  <2> QED BY <2>1 DEF MergeIInv, Coherent, EvidenceIsOne, ClaimsAreShown, MarksAreShown,
     CreditsAreStored, Database
<1>3. ASSUME NEW b \in Batches, ApplyBatches(b)
      PROVE  MergeIInv'
  <2> DEFINE done == FoldLeft(Save, Database, b)
  <2>1. /\ done \in Coherents
        /\ rows' = done.rows /\ evidence' = done.evidence /\ credits' = done.credits
    BY <1>3, BatchStep
  <2> HIDE DEF done
  <2>2. /\ syncs' = syncs + 1 /\ syncs < MaxSyncs /\ today' = today /\ checked' = today
        /\ \E s \in BOOLEAN : follow' = [all |-> TRUE, spotify |-> s]
    <3>1. follow' = [all |-> TRUE,
                     spotify |-> follow.spotify \/ \E k \in DOMAIN b : b[k].provider = "spotify"]
      BY <1>3 DEF ApplyBatches
    <3>2. follow.spotify \in BOOLEAN
      BY DEF MergeIInv
    <3> QED BY <1>3, <3>1, <3>2 DEF ApplyBatches
  <2>3. /\ done \in Databases /\ EvidenceIsOne(done) /\ ClaimsAreShown(done) /\ MarksAreShown(done)
        /\ CreditsAreStored(done)
    BY <2>1 DEF Coherents, Coherent
  <2>4. /\ Database'.rows = done.rows /\ Database'.evidence = done.evidence
        /\ Database'.credits = done.credits /\ Database'.saved = << >>
        /\ Database' = [rows |-> done.rows, evidence |-> done.evidence, credits |-> done.credits,
                        saved |-> << >>]
    BY <2>1 DEF Database
  <2>5. Database' \in Databases
    BY <2>3, <2>4 DEF Databases
  <2>6. \A e \in done.evidence : e.at < syncs' /\ e.at <= syncs' /\ e.at <= syncs
    <3>1. \A e \in done.evidence : e.at \in Nat /\ e.at <= syncs
      BY <2>3 DEF EvidenceIsOne, Databases
    <3> QED BY <1>0, <2>2, <3>1
  <2>7. EvidenceIsOne(Database)'
    BY <2>3, <2>4, <2>6 DEF EvidenceIsOne
  <2>8. ClaimsAreShown(Database)' /\ MarksAreShown(Database)' /\ CreditsAreStored(Database)'
    BY <2>3, <2>4 DEF ClaimsAreShown, MarksAreShown, CreditsAreStored
  <2>9. Coherent(Database)'
    BY <2>5, <2>7, <2>8 DEF Coherent
  <2>10. \A e \in evidence' : e.at < syncs'
    BY <2>1, <2>6
  <2>11. today' \in Nat /\ checked' \in Nat \cup {Never} /\ syncs' \in 0 .. MaxSyncs
    BY <1>0, <2>2
  <2> QED BY <2>2, <2>9, <2>10, <2>11 DEF MergeIInv
<1> QED BY <1>1, <1>2, <1>3 DEF MergeNext

LEMMA RowsAreCanonical ==
  ASSUME MergeIInv
  PROVE  CanonicalRows
<1> SUFFICES ASSUME NEW i \in DOMAIN rows
             PROVE  /\ Cardinality({r.id : r \in GroupRecords(i)}) <= 1
                    /\ \A r \in GroupRecords(i) :
                         rows[i].mbid = r.id /\ rows[i].title = r.title /\ rows[i].type = r.type
  BY DEF CanonicalRows
<1>1. \A r \in GroupRecords(i) : rows[i].mbid = r.id /\ rows[i].title = r.title /\ rows[i].type = r.type
  BY DEF MergeIInv, Coherent, ClaimsAreShown, Database, GroupRecords
<1> DEFINE ids == {r.id : r \in GroupRecords(i)}
           one == {rows[i].mbid}
<1>2. ids \in SUBSET one
  BY <1>1
<1>3. IsFiniteSet(one) /\ Cardinality(one) = 1
  BY FS_Singleton
<1> HIDE DEF ids, one
<1>4. Cardinality(ids) <= 1
  BY <1>2, <1>3, FS_Subset
<1> QED BY <1>1, <1>4 DEF ids

LEMMA BatchIdentities ==
  ASSUME MergeAssumption, MergeIInv, NEW b \in Batches, ApplyBatches(b)
  PROVE  IdentitiesStay
<1> DEFINE done == FoldLeft(Save, Database, b)
<1>1. done \in Coherents /\ Since(Database, b, Len(b), done) /\ evidence' = done.evidence
  BY BatchStep
<1> HIDE DEF done
<1>2. \A e \in evidence : \E f \in done.evidence : SameId(e, f) /\ f.row = e.row
  BY <1>1 DEF Since, OldStays, Database
<1>3. \A e, f \in done.evidence : SameId(e, f) => e = f
  BY <1>1 DEF Coherents, Coherent, EvidenceIsOne, SameId
<1> QED BY <1>1, <1>2, <1>3 DEF IdentitiesStay, SameId

LEMMA BatchAnnounces ==
  ASSUME MergeAssumption, MergeIInv, NEW b \in Batches, ApplyBatches(b)
  PROVE  NewIsAnnounced
<1> DEFINE done == FoldLeft(Save, Database, b)
<1>1. /\ Since(Database, b, Len(b), done) /\ evidence' = done.evidence /\ rows' = done.rows
      /\ follow.all => events' = events \cup Announced(done.saved)
  BY BatchStep
<1> HIDE DEF done
<1> SUFFICES ASSUME follow.all, follow.spotify, NEW i \in DOMAIN rows' \ DOMAIN rows,
                    \A f \in {x \in evidence' : x.row = i} : f.of.precision = 3 /\ f.of.day >= Cutoff
             PROVE  <<i, "announcement">> \in events'
  BY DEF NewIsAnnounced
<1>2. i \in DOMAIN done.rows \ DOMAIN Database.rows
  BY <1>1 DEF Database
<1>3. NewRowsAreNoted(Database, done)
  BY <1>1 DEF Since
<1>4. PICK m \in DOMAIN done.saved : done.saved[m].row = i /\ done.saved[m].new
  BY <1>2, <1>3 DEF NewRowsAreNoted
<1>5. PICK e \in done.evidence : e.row = i /\ DatedAs(done.saved[m], e.of)
  BY <1>2, <1>3, <1>4 DEF NewRowsAreNoted
<1>6. done.saved[m].precision = 3 /\ done.saved[m].day >= Cutoff
  BY <1>1, <1>5 DEF DatedAs
<1>7. <<done.saved[m].row, "announcement">> \in Announced(done.saved)
  BY <1>4, <1>6 DEF Announced
<1> QED BY <1>1, <1>4, <1>7

LEMMA BatchRepeats ==
  ASSUME MergeAssumption, MergeIInv, NEW b \in Batches, ApplyBatches(b)
  PROVE  OldIsNoNews
<1> DEFINE done == FoldLeft(Save, Database, b)
<1>1. /\ Since(Database, b, Len(b), done) /\ evidence' = done.evidence
      /\ follow.all => events' = events \cup Announced(done.saved)
  BY BatchStep
<1> HIDE DEF done
<1> SUFFICES ASSUME follow.all, Fresh \subseteq {e.of : e \in evidence}
             PROVE  events' = events
  BY DEF OldIsNoNews
<1>2. FreshAreRecords(Database, b, Len(b), done) /\ NothingIsNew(Database, b, Len(b), done)
  BY <1>1 DEF Since
<1>3. \A j \in 1 .. Len(b) : \E e \in Database.evidence : e.of = b[j]
  <2> SUFFICES ASSUME NEW j \in 1 .. Len(b)
               PROVE  \E e \in Database.evidence : e.of = b[j]
    OBVIOUS
  <2>1. PICK e \in done.evidence : IsFresh(e) /\ e.of = b[j]
    BY <1>2 DEF FreshAreRecords
  <2>2. b[j] \in Fresh
    BY <1>1, <2>1 DEF Fresh, IsFresh
  <2> QED BY <2>2 DEF Database
<1>4. \A m \in DOMAIN done.saved : ~done.saved[m].new
  BY <1>2, <1>3 DEF NothingIsNew
<1>5. Announced(done.saved) = {}
  BY <1>4 DEF Announced
<1> QED BY <1>1, <1>5

\* Two records of one row that are not both of it agree on its date.
LEMMA AlikeAgree ==
  ASSUME MergeAssumption, NEW row, NEW a \in Shown, NEW c \in Shown,
         row.day = a.day, row.precision = a.precision, c.precision # 0, SameRelease(row, c)
  PROVE  DatesAgree(a, c) /\ DatesAgree(c, a)
<1>1. a.day \in Nat /\ c.day \in Nat /\ a.precision \in {0, 2, 3} /\ c.precision \in {0, 2, 3}
  BY ShownFields DEF Precisions
<1>2. a.precision = c.precision /\ (c.precision = 3 => Apart(a.day, c.day) <= Tolerance)
      /\ (c.precision # 3 => a.day = c.day)
  BY DEF SameRelease
<1>3. Apart(a.day, c.day) = Apart(c.day, a.day)
  BY <1>1 DEF Apart
<1> QED BY <1>1, <1>2, <1>3 DEF DatesAgree

LEMMA BatchAgrees ==
  ASSUME MergeAssumption, MergeIInv, NEW b \in Batches, ApplyBatches(b)
  PROVE  MergesAgree
<1> DEFINE done == FoldLeft(Save, Database, b)
<1>1. /\ done \in Coherents /\ Since(Database, b, Len(b), done) /\ evidence' = done.evidence
      /\ issues' = UNION {Conflicts(done.evidence, i) : i \in DOMAIN done.rows}
      /\ AtStart(Database)
  BY BatchStep
<1> HIDE DEF done
<1> SUFFICES ASSUME NEW i \in DOMAIN rows, NEW a \in Latest(evidence, i), NEW c \in Joining(i),
                    ShownOnlyBy(a.provider, i), Joining(i) = {c}, c.provider # a.provider,
                    rows[i].day = a.day, rows[i].precision = a.precision, <<i, "date">> \in issues'
             PROVE  FALSE
  BY DEF MergesAgree
<1>2. /\ FreshAreRecords(Database, b, Len(b), done) /\ JoinedAlike(Database, done)
      /\ OldStays(Database, done)
  BY <1>1 DEF Since
<1>3. /\ \A e, f \in done.evidence : SameId(e, f) => e = f
      /\ \A e \in done.evidence : e.of \in Shown
      /\ \A e, f \in evidence : SameId(e, f) => e = f
      /\ \A e \in evidence : e.of \in Shown /\ e.at \in Nat /\ e.at < syncs /\ e.of.id \in Nat
  <2>1. /\ EvidenceIsOne(done) /\ done \in Databases /\ EvidenceIsOne(Database) /\ Database \in Databases
        /\ Database.evidence = evidence /\ \A e \in evidence : e.at < syncs
    BY <1>1 DEF Coherents, Coherent, AtStart, Database
  <2>2. /\ \A e, f \in done.evidence : SameId(e, f) => e = f
        /\ \A e, f \in evidence : SameId(e, f) => e = f
    BY <2>1 DEF EvidenceIsOne, SameId
  <2>3. /\ \A e \in done.evidence : e.of \in Shown
        /\ \A e \in evidence : e.of \in Shown /\ e.at \in Nat /\ e.at < syncs
    BY <2>1 DEF Databases
  <2>4. \A e \in evidence : e.of.id \in Nat
    BY <2>3, ShownFields
  <2> QED BY <2>2, <2>3, <2>4
<1>4. PICK ec \in done.evidence : ec.row = i /\ IsFresh(ec) /\ ec.of = c
  BY <1>1 DEF Joining, IsFresh
<1>5. \A x \in done.evidence : x.row = i /\ IsFresh(x) => x = ec
  <2> SUFFICES ASSUME NEW x \in done.evidence, x.row = i, IsFresh(x)
               PROVE  x = ec
    OBVIOUS
  <2>1. x.of \in Joining(i)
    BY <1>1 DEF Joining, IsFresh
  <2>2. x.of = ec.of
    BY <1>4, <2>1
  <2> QED BY <1>3, <2>2 DEF SameId
<1>6. \A x \in evidence : x.row = i => x.of.provider = a.provider
  BY DEF ShownOnlyBy
<1>7. c.precision # 0 /\ SameRelease(rows[i], c)
  <2>1. /\ i \in DOMAIN Database.rows /\ Database.rows[i] = rows[i] /\ Database.evidence = evidence
    BY DEF Database
  <2>2. \A x \in Database.evidence : x.row = i => x.of.provider # ec.of.provider
    BY <1>4, <1>6, <2>1
  <2>3. ec.of.precision # 0 /\ SameRelease(Database.rows[i], ec.of)
    BY <1>2, <1>4, <1>5, <2>1, <2>2 DEF JoinedAlike
  <2> QED BY <1>4, <2>1, <2>3
<1>8. PICK ea \in evidence : /\ ea.of = a /\ ea.row = i
                             /\ \A y \in evidence : y.row = i /\ y.of.provider = a.provider =>
                                  y.at < ea.at \/ (y.at = ea.at /\ a.id <= y.of.id)
  BY DEF Latest
<1>9. DatesAgree(a, c) /\ DatesAgree(c, a)
  <2>1. a \in Shown /\ c \in Shown
    BY <1>3, <1>4, <1>8
  <2> QED BY <1>7, <2>1, AlikeAgree
<1>10. \A x \in evidence : x.row = i => x \in done.evidence
  <2> SUFFICES ASSUME NEW x \in evidence, x.row = i
               PROVE  x \in done.evidence
    OBVIOUS
  <2>1. PICK f \in done.evidence : (f = x \/ IsFresh(f)) /\ SameId(x, f) /\ f.row = x.row
    BY <1>2 DEF OldStays, Database
  <2>2. CASE IsFresh(f)
    <3>1. f = ec
      BY <1>5, <2>1, <2>2
    <3>2. x.of.provider = c.provider
      BY <1>4, <2>1, <3>1 DEF SameId
    <3> QED BY <1>6, <3>2
  <2> QED BY <2>1, <2>2
<1>11. \A x \in Latest(done.evidence, i) : x = a \/ x = c
  <2> SUFFICES ASSUME NEW x \in done.evidence, x.row = i, x.of # c,
                      \A y \in done.evidence : y.row = i /\ y.of.provider = x.of.provider =>
                        y.at < x.at \/ (y.at = x.at /\ x.of.id <= y.of.id)
               PROVE  x.of = a
    BY DEF Latest
  <2>1. x \in evidence
    <3>1. ~IsFresh(x)
      BY <1>4, <1>5
    <3> QED BY <1>2, <3>1 DEF FreshAreRecords, Database
  <2>2. x.of.provider = a.provider
    BY <1>6, <2>1
  <2>3. x.at < ea.at \/ (x.at = ea.at /\ a.id <= x.of.id)
    BY <1>8, <2>1, <2>2
  <2>4. ea.at < x.at \/ (ea.at = x.at /\ x.of.id <= a.id)
    BY <1>8, <1>10, <2>2
  <2>5. x.of.id = a.id
    <3>1. x.at \in Nat /\ ea.at \in Nat /\ x.of.id \in Nat /\ a.id \in Nat
      BY <1>3, <1>8, <2>1
    <3> QED BY <2>3, <2>4, <3>1
  <2>6. x = ea
    BY <1>3, <1>8, <2>1, <2>2, <2>5 DEF SameId
  <2> QED BY <1>8, <2>6
<1>12. PICK n \in DOMAIN done.rows : <<i, "date">> \in Conflicts(done.evidence, n)
  BY <1>1
<1>13. n = i /\ \E x, y \in Latest(done.evidence, i) : x.provider # y.provider /\ ~DatesAgree(x, y)
  <2> DEFINE said == Latest(done.evidence, n)
             kinds == {u \in {"date", "title", "type", "missing"} :
                \/ u = "date" /\ \E p \in said, q \in said : p.provider # q.provider /\ ~DatesAgree(p, q)
                \/ u = "title" /\ Cardinality({Normal[r.title] : r \in said} \ {""}) > 1
                \/ u = "type" /\ Cardinality({r.type : r \in said}) > 1
                \/ u = "missing" /\ \A r \in said : r.provider # "musicbrainz"}
  <2>1. Conflicts(done.evidence, n) \subseteq {<<n, t>> : t \in kinds}
    BY DEF Conflicts
  <2> HIDE DEF kinds
  <2>2. n = i /\ "date" \in kinds
    BY <1>12, <2>1
  <2>3. \E p \in said, q \in said : p.provider # q.provider /\ ~DatesAgree(p, q)
    <3> HIDE DEF said
    <3> QED BY <2>2 DEF kinds
  <2> QED BY <2>2, <2>3
<1> QED BY <1>9, <1>11, <1>13

\* The transactions of a synchronization leave the evidence, the claims, the marks
\* and the credits coherent.
THEOREM MergeInvariance == MergeSpec => []MergeIInv
<1>1. MergeInit => MergeIInv
  BY MergeIInvAtFirst, MergeAssumption
<1>2. MergeIInv /\ [MergeNext]_mergeVars => MergeIInv'
  BY MergeIInvAfter, MergeAssumption
<1> QED BY <1>1, <1>2, PTL DEF MergeSpec

\* Whatever the providers show, in batches of any size: rows stay canonical, ids stay
\* in their row, what is new is announced and what is old is not, and records that
\* were joined as alike agree on their date.
THEOREM SoundSynchronizations == MergeSpec => SyncsAreSound
<1>1. MergeIInv => CanonicalRows
  BY RowsAreCanonical
<1>2. MergeIInv /\ [MergeNext]_mergeVars =>
        [Synchronizes => IdentitiesStay /\ NewIsAnnounced /\ OldIsNoNews /\ MergesAgree]_mergeVars
  <2> SUFFICES ASSUME MergeIInv, MergeNext, Synchronizes
               PROVE  IdentitiesStay /\ NewIsAnnounced /\ OldIsNoNews /\ MergesAgree
    OBVIOUS
  <2>1. ~MergeTick
    BY DEF MergeTick, Synchronizes
  <2>2. PICK b \in Batches : ApplyBatches(b)
    BY <2>1 DEF MergeNext
  <2> QED BY <2>2, BatchIdentities, BatchAnnounces, BatchRepeats, BatchAgrees,
       MergeAssumption
<1>3. MergeSpec => []MergeIInv
  BY MergeInvariance
<1> QED BY <1>1, <1>2, <1>3, PTL DEF MergeSpec, SyncsAreSound

-----------------------------------------------------------------------------
(* CatalogReader: lists of releases.                                       *)

Lists == Seq(ReleaseRecords)
Credits == Nat \X {"primary", "featured", "guest"}

\* One release is put at a: in place of another, or at the end.
Becomes(d, e, a, u) ==
  /\ a \in DOMAIN e /\ DOMAIN e = DOMAIN d \cup {a} /\ e[a] = u
  /\ \A j \in DOMAIN d : j # a => e[j] = d[j]

LEMMA AppendBecomes ==
  ASSUME NEW T, NEW d \in Seq(T), NEW u \in T
  PROVE  /\ Append(d, u) \in Seq(T) /\ Becomes(d, Append(d, u), Len(d) + 1, u)
         /\ Len(d) + 1 \notin DOMAIN d
<1> DEFINE e == Append(d, u)
<1>1. /\ Len(d) \in Nat /\ DOMAIN d = 1 .. Len(d)
      /\ e \in Seq(T) /\ Len(e) = Len(d) + 1 /\ e[Len(d) + 1] = u
      /\ \A j \in 1 .. Len(d) : e[j] = d[j]
  BY AppendProperties
<1>2. DOMAIN e = 1 .. Len(d) + 1
  BY <1>1
<1> HIDE DEF e
<1>3. Becomes(d, e, Len(d) + 1, u) /\ Len(d) + 1 \notin DOMAIN d
  BY <1>1, <1>2 DEF Becomes
<1> QED BY <1>1, <1>3 DEF e

LEMMA ExceptBecomes ==
  ASSUME NEW T, NEW d \in Seq(T), NEW a \in DOMAIN d, NEW u \in T
  PROVE  [d EXCEPT ![a] = u] \in Seq(T) /\ Becomes(d, [d EXCEPT ![a] = u], a, u)
<1> DEFINE e == [d EXCEPT ![a] = u]
<1>1. /\ Len(d) \in Nat /\ DOMAIN d = 1 .. Len(d) /\ d \in [1 .. Len(d) -> T]
      /\ Seq(T) = UNION {[1 .. n -> T] : n \in Nat}
  BY LenProperties, SeqDef
<1>2. e \in [1 .. Len(d) -> T] /\ e[a] = u /\ \A j \in DOMAIN d : j # a => e[j] = d[j]
  BY <1>1
<1>3. e \in Seq(T) /\ DOMAIN e = DOMAIN d
  BY <1>1, <1>2
<1> HIDE DEF e
<1>4. DOMAIN e = DOMAIN d \cup {a}
  BY <1>3
<1>5. Becomes(d, e, a, u)
  BY <1>2, <1>4 DEF Becomes
<1> QED BY <1>3, <1>5 DEF e

LEMMA PositionFinds ==
  ASSUME NEW T, NEW d \in Seq(T), NEW id
  PROVE  /\ Position(d, id) = 0 => \A i \in DOMAIN d : d[i].id # id
         /\ Position(d, id) # 0 => Position(d, id) \in DOMAIN d /\ d[Position(d, id)].id = id
<1>1. 0 \notin DOMAIN d
  OBVIOUS
<1>2. CASE \E i \in DOMAIN d : d[i].id = id
  <2> DEFINE p == CHOOSE i \in DOMAIN d : d[i].id = id
  <2>1. p \in DOMAIN d /\ d[p].id = id
    BY <1>2
  <2>2. Position(d, id) = p
    BY <1>2 DEF Position
  <2> HIDE DEF p
  <2> QED BY <1>1, <2>1, <2>2
<1>3. CASE ~ \E i \in DOMAIN d : d[i].id = id
  BY <1>3 DEF Position
<1> QED BY <1>2, <1>3

LEMMA WithCredits ==
  ASSUME NEW x \in ReleaseRecords, NEW c \in SUBSET Credits
  PROVE  LET y == [x EXCEPT !.credits = c] IN
         y \in ReleaseRecords /\ y.id = x.id /\ y.role = x.role /\ y.credits = c
<1>1. CASE x \in Released
  BY <1>1 DEF ReleaseRecords, Released, Credits
<1>2. CASE x \in DatedReleased
  BY <1>2 DEF ReleaseRecords, DatedReleased, Credits
<1> QED BY <1>1, <1>2 DEF ReleaseRecords

LEMMA WithRole ==
  ASSUME NEW x \in ReleaseRecords, NEW role \in {"", "primary", "featured"}
  PROVE  LET y == [x EXCEPT !.role = role] IN
         y \in ReleaseRecords /\ y.id = x.id /\ y.role = role /\ y.credits = x.credits
<1>1. CASE x \in Released
  BY <1>1 DEF ReleaseRecords, Released
<1>2. CASE x \in DatedReleased
  BY <1>2 DEF ReleaseRecords, DatedReleased
<1> QED BY <1>1, <1>2 DEF ReleaseRecords

LEMMA ReleaseFields ==
  ASSUME NEW d \in Lists, NEW i \in DOMAIN d
  PROVE  /\ d[i] \in ReleaseRecords /\ d[i].id \in Nat /\ d[i].credits \in SUBSET Credits
         /\ d[i].role \in {"", "primary", "featured"}
<1>1. d[i] \in ReleaseRecords
  BY DEF Lists
<1> QED BY <1>1 DEF ReleaseRecords, Released, DatedReleased, Credits

\* The elements of a sequence up to a position.
FirstOnes(s, k) == {s[j] : j \in 1 .. k}

LEMMA OnesMore ==
  ASSUME NEW S, NEW s \in Seq(S), NEW k \in 0 .. Len(s) - 1
  PROVE  /\ FirstOnes(s, k + 1) = FirstOnes(s, k) \cup {s[k + 1]} /\ FirstOnes(s, 0) = {}
         /\ s[k + 1] \in S /\ k + 1 \in Nat
         /\ FirstOnes(s, Len(s)) = {s[j] : j \in DOMAIN s}
<1>1. Len(s) \in Nat /\ DOMAIN s = 1 .. Len(s) /\ k \in Nat
  OBVIOUS
<1>2. \A j : j \in 1 .. k + 1 <=> j \in 1 .. k \/ j = k + 1
  BY <1>1
<1>3. FirstOnes(s, k + 1) = FirstOnes(s, k) \cup {s[k + 1]}
  BY <1>2 DEF FirstOnes
<1>4. k + 1 \in 1 .. Len(s) /\ 1 .. 0 = {}
  BY <1>1
<1> QED BY <1>1, <1>3, <1>4 DEF FirstOnes

-----------------------------------------------------------------------------
(* CatalogReader: a stream of Spotify.                                     *)

StreamRows == [id : Nat, group : STRING, eligible : BOOLEAN]

\* What a row makes of what has been read: a release, or a credit more of one.
LEMMA StreamStep ==
  ASSUME NEW d \in Lists, NEW x \in StreamRows, NEW featuredOnly, x.eligible
  PROVE  LET e == AppendSpotifyRelease(d, x, featuredOnly)
             role == RoleIn(x, featuredOnly)
         IN  /\ e \in Lists
             /\ \E a, u :
                  /\ Becomes(d, e, a, u) /\ u.id = x.id /\ <<x.id, role>> \in u.credits
                  /\ a \in DOMAIN d => /\ d[a].id = x.id /\ d[a].credits \subseteq u.credits
                                       /\ u.role = IF role = "primary" THEN "primary" ELSE d[a].role
                  /\ a \notin DOMAIN d => (\A i \in DOMAIN d : d[i].id # x.id) /\ u.role = role
<1> DEFINE e == AppendSpotifyRelease(d, x, featuredOnly)
           role == RoleIn(x, featuredOnly)
           new == [id |-> x.id, role |-> role, credits |-> {<<x.id, role>>}]
           at == Position(d, x.id)
<1>1. role \in {"primary", "featured"} /\ x.id \in Nat
  BY DEF RoleIn, StreamRows
<1>2. e = IF at = 0 THEN Append(d, new)
          ELSE [d EXCEPT ![at].credits = MergeCredits(@, new.credits),
                         ![at].role = IF role = "primary" THEN role ELSE @]
  BY DEF AppendSpotifyRelease, RoleIn
<1> HIDE DEF role, e
<1>3. new \in ReleaseRecords
  <2>1. {<<x.id, role>>} \in SUBSET (Nat \X {"primary", "featured", "guest"})
    BY <1>1
  <2> QED BY <1>1, <2>1 DEF ReleaseRecords, Released
<1>4. CASE at = 0
  <2>1. e = Append(d, new)
    BY <1>2, <1>4
  <2>2. \A i \in DOMAIN d : d[i].id # x.id
    BY <1>4, PositionFinds DEF Lists
  <2> DEFINE a == Len(d) + 1
  <2>3. e \in Lists /\ Becomes(d, e, a, new) /\ a \notin DOMAIN d
    BY <1>3, <2>1, AppendBecomes DEF Lists
  <2>4. new.id = x.id /\ <<x.id, role>> \in new.credits /\ new.role = role
    OBVIOUS
  <2> HIDE DEF a, new
  <2> QED BY <2>2, <2>3, <2>4 DEF e, role
<1>5. CASE at # 0
  <2>1. at \in DOMAIN d /\ d[at].id = x.id
    BY <1>5, PositionFinds DEF Lists
  <2> HIDE DEF at
  <2> DEFINE c == d[at].credits \cup {<<x.id, role>>}
             v == [d[at] EXCEPT !.credits = c]
             last == IF role = "primary" THEN "primary" ELSE d[at].role
             u == [v EXCEPT !.role = last]
  <2>2. d[at] \in ReleaseRecords /\ c \in SUBSET Credits /\ last \in {"", "primary", "featured"}
    <3>1. /\ d[at] \in ReleaseRecords /\ d[at].credits \in SUBSET Credits
          /\ d[at].role \in {"", "primary", "featured"}
      BY <2>1, ReleaseFields
    <3>2. <<x.id, role>> \in Credits
      BY <1>1 DEF Credits
    <3> QED BY <3>1, <3>2
  <2>3. v \in ReleaseRecords /\ v.id = d[at].id /\ v.role = d[at].role /\ v.credits = c
    <3> HIDE DEF c
    <3> QED BY <2>2, WithCredits
  <2>4. u \in ReleaseRecords /\ u.id = d[at].id /\ u.role = last /\ u.credits = c
    <3> HIDE DEF v, last
    <3> QED BY <2>2, <2>3, WithRole
  <2>5. e = [d EXCEPT ![at] = u]
    <3>1. e = [d EXCEPT ![at].credits = MergeCredits(@, new.credits),
                        ![at].role = IF role = "primary" THEN role ELSE @]
      BY <1>2, <1>5
    <3>2. e = [d EXCEPT ![at] = [[d[at] EXCEPT !.credits = MergeCredits(d[at].credits, new.credits)]
                                    EXCEPT !.role = IF role = "primary" THEN role ELSE d[at].role]]
      <4> HIDE DEF new, e
      <4> QED BY <2>1, <3>1
    <3>3. MergeCredits(d[at].credits, new.credits) = c
      BY DEF MergeCredits
    <3> HIDE DEF new, c
    <3>4. v.role = d[at].role
      BY <2>3
    <3>5. (IF role = "primary" THEN role ELSE d[at].role) = last
      OBVIOUS
    <3> HIDE DEF last
    <3> QED BY <2>1, <3>2, <3>3, <3>4, <3>5
  <2> HIDE DEF u
  <2>6. e \in Lists /\ Becomes(d, e, at, u)
    BY <2>1, <2>4, <2>5, ExceptBecomes DEF Lists
  <2>7. d[at].credits \subseteq u.credits /\ <<x.id, role>> \in u.credits
    BY <2>4
  <2> QED BY <2>1, <2>4, <2>6, <2>7 DEF e, role
<1> QED BY <1>4, <1>5

LEMMA StreamIsTyped ==
  ASSUME NEW d \in Lists, NEW x \in StreamRows, NEW featuredOnly
  PROVE  AppendSpotifyRelease(d, x, featuredOnly) \in Lists
<1>1. CASE x.eligible
  BY <1>1, StreamStep
<1>2. CASE ~x.eligible
  BY <1>2 DEF AppendSpotifyRelease
<1> QED BY <1>1, <1>2

LEMMA StreamOne ==
  ASSUME NEW d \in Lists, NEW x \in StreamRows, NEW featuredOnly, NEW R, ReadAs(d, R, featuredOnly)
  PROVE  ReadAs(AppendSpotifyRelease(d, x, featuredOnly), R \cup {x}, featuredOnly)
<1> DEFINE e == AppendSpotifyRelease(d, x, featuredOnly)
           role == RoleIn(x, featuredOnly)
<1>1. CASE ~x.eligible
  <2>1. e = d
    BY <1>1 DEF AppendSpotifyRelease
  <2> QED BY <1>1, <2>1 DEF ReadAs
<1>2. CASE x.eligible
  <2>1. PICK a, u :
          /\ Becomes(d, e, a, u) /\ u.id = x.id /\ <<x.id, role>> \in u.credits
          /\ a \in DOMAIN d => /\ d[a].id = x.id /\ d[a].credits \subseteq u.credits
                               /\ u.role = IF role = "primary" THEN "primary" ELSE d[a].role
          /\ a \notin DOMAIN d => (\A i \in DOMAIN d : d[i].id # x.id) /\ u.role = role
    BY <1>2, StreamStep
  <2>2. role \in {"primary", "featured"}
    BY DEF RoleIn
  <2> HIDE DEF e
  <2>3. /\ \A i \in DOMAIN e : i = a \/ (i \in DOMAIN d /\ e[i] = d[i])
        /\ \A i \in DOMAIN d : i \in DOMAIN e /\ (i # a => e[i] = d[i])
        /\ a \in DOMAIN e /\ e[a] = u
    BY <2>1 DEF Becomes
  <2>4. Once(e)
    BY <2>1, <2>3 DEF ReadAs, Once
  <2>5. ASSUME NEW i \in DOMAIN e
        PROVE  /\ e[i].role \in {"primary", "featured"}
               /\ \E row \in R \cup {x} : /\ row.eligible /\ row.id = e[i].id
                                          /\ e[i].role = "primary" => RoleIn(row, featuredOnly) = "primary"
    <3>1. CASE i # a
      BY <2>3, <3>1 DEF ReadAs
    <3>2. CASE i = a /\ a \in DOMAIN d /\ role # "primary"
      BY <2>1, <2>3, <3>2 DEF ReadAs
    <3>3. CASE i = a /\ (a \notin DOMAIN d \/ role = "primary")
      BY <1>2, <2>1, <2>2, <2>3, <3>3
    <3> QED BY <3>1, <3>2, <3>3
  <2>6. ASSUME NEW row \in R \cup {x}, row.eligible
        PROVE  \E i \in DOMAIN e :
                 /\ e[i].id = row.id /\ <<row.id, RoleIn(row, featuredOnly)>> \in e[i].credits
                 /\ RoleIn(row, featuredOnly) = "primary" => e[i].role = "primary"
    <3>1. CASE row = x
      BY <2>1, <2>3, <3>1
    <3>2. CASE row \in R
      <4>1. PICK i \in DOMAIN d :
              /\ d[i].id = row.id /\ <<row.id, RoleIn(row, featuredOnly)>> \in d[i].credits
              /\ RoleIn(row, featuredOnly) = "primary" => d[i].role = "primary"
        BY <2>6, <3>2 DEF ReadAs
      <4> QED BY <2>1, <2>3, <4>1
    <3> QED BY <3>1, <3>2
  <2> HIDE DEF role
  <2>7. ReadAs(e, R \cup {x}, featuredOnly)
    BY <2>4, <2>5, <2>6 DEF ReadAs
  <2> QED BY <2>7 DEF e
<1> QED BY <1>1, <1>2

\* A page adds its rows to those of the pages before.
LEMMA StreamPage ==
  ASSUME NEW d \in Lists, NEW s \in Seq(StreamRows), NEW featuredOnly, NEW R, ReadAs(d, R, featuredOnly)
  PROVE  LET e == AppendSpotifyPage(d, s, featuredOnly) IN
         e \in Lists /\ ReadAs(e, R \cup {s[j] : j \in DOMAIN s}, featuredOnly)
<1> DEFINE I == {p \in Nat \X Lists : ReadAs(p[2], R \cup FirstOnes(s, p[1]), featuredOnly)}
<1>1. FirstOnes(s, 0) = {} /\ FirstOnes(s, Len(s)) = {s[j] : j \in DOMAIN s}
  <2>1. DOMAIN s = 1 .. Len(s) /\ 1 .. 0 = {}
    OBVIOUS
  <2> QED BY <2>1 DEF FirstOnes
<1>2. <<0, d>> \in I
  BY <1>1
<1>3. \A c \in Lists, x \in StreamRows : AppendSpotifyRelease(c, x, featuredOnly) \in Lists
  BY StreamIsTyped
<1>4. ASSUME NEW k \in 0 .. Len(s) - 1, NEW c \in Lists, <<k, c>> \in I
      PROVE  <<k + 1, AppendSpotifyRelease(c, s[k + 1], featuredOnly)>> \in I
  <2>1. FirstOnes(s, k + 1) = FirstOnes(s, k) \cup {s[k + 1]} /\ s[k + 1] \in StreamRows /\ k + 1 \in Nat
    BY OnesMore
  <2> DEFINE x == s[k + 1]
             Q == R \cup FirstOnes(s, k)
  <2>2. ReadAs(c, Q, featuredOnly)
    BY <1>4
  <2>3. R \cup FirstOnes(s, k + 1) = Q \cup {x}
    BY <2>1
  <2> HIDE DEF Q
  <2>4. ReadAs(AppendSpotifyRelease(c, x, featuredOnly), Q \cup {x}, featuredOnly)
    BY <2>1, <2>2, StreamOne
  <2> QED BY <1>3, <2>1, <2>3, <2>4
<1> HIDE DEF I
<1>5. AppendSpotifyPage(d, s, featuredOnly) \in Lists /\ <<Len(s), AppendSpotifyPage(d, s, featuredOnly)>> \in I
  BY <1>2, <1>3, <1>4, StreamFold
<1> QED BY <1>1, <1>5 DEF I

-----------------------------------------------------------------------------
(* CatalogReader: what is in a list, whatever the order.                   *)

Elems(d) == {d[i] : i \in DOMAIN d}

LEMMA WhatIsIn ==
  ASSUME NEW d
  PROVE  /\ IdsOf(d) = {x.id : x \in Elems(d)}
         /\ \A id : CreditsIn(d, id) = UNION {x.credits : x \in {y \in Elems(d) : y.id = id}}
         /\ \A id : FeaturedIn(d, id) <=> \A x \in Elems(d) : x.id = id => x.role = "featured"
         /\ Bare(d) <=> \A x \in Elems(d) : x.role = "" /\ x.credits = {}
<1>1. IdsOf(d) = {x.id : x \in Elems(d)}
  BY DEF IdsOf, Elems
<1>2. ASSUME NEW id
      PROVE  CreditsIn(d, id) = UNION {x.credits : x \in {y \in Elems(d) : y.id = id}}
  <2>1. {d[i].credits : i \in {j \in DOMAIN d : d[j].id = id}} = {x.credits : x \in {y \in Elems(d) : y.id = id}}
    BY DEF Elems
  <2> QED BY <2>1 DEF CreditsIn
<1>3. ASSUME NEW id
      PROVE  FeaturedIn(d, id) <=> \A x \in Elems(d) : x.id = id => x.role = "featured"
  BY DEF FeaturedIn, Elems
<1>4. Bare(d) <=> \A x \in Elems(d) : x.role = "" /\ x.credits = {}
  BY DEF Bare, Elems
<1> QED BY <1>1, <1>2, <1>3, <1>4

LEMMA WhatGoesIn ==
  ASSUME NEW T, NEW d \in Seq(T)
  PROVE  /\ Elems(d) \subseteq T /\ Elems(<< >>) = {}
         /\ \A u \in T : Append(d, u) \in Seq(T) /\ Elems(Append(d, u)) = Elems(d) \cup {u}
         /\ \A e \in Seq(T) : d \o e \in Seq(T) /\ Elems(d \o e) = Elems(d) \cup Elems(e)
<1>1. Elems(d) \subseteq T /\ Elems(<< >>) = {} /\ DOMAIN d = 1 .. Len(d) /\ Len(d) \in Nat
  BY DEF Elems
<1>2. ASSUME NEW u \in T
      PROVE  Append(d, u) \in Seq(T) /\ Elems(Append(d, u)) = Elems(d) \cup {u}
  <2> DEFINE e == Append(d, u)
  <2>1. e \in Seq(T) /\ Becomes(d, e, Len(d) + 1, u) /\ Len(d) + 1 \notin DOMAIN d
    BY AppendBecomes
  <2> HIDE DEF e
  <2>2. Elems(e) = Elems(d) \cup {u}
    BY <2>1 DEF Becomes, Elems
  <2> QED BY <2>1, <2>2 DEF e
<1>3. ASSUME NEW e \in Seq(T)
      PROVE  d \o e \in Seq(T) /\ Elems(d \o e) = Elems(d) \cup Elems(e)
  <2> DEFINE f == d \o e
  <2>1. /\ f \in Seq(T) /\ Len(f) = Len(d) + Len(e)
        /\ \A i \in 1 .. Len(d) + Len(e) : f[i] = IF i <= Len(d) THEN d[i] ELSE e[i - Len(d)]
    BY ConcatProperties
  <2> HIDE DEF f
  <2>2. DOMAIN f = 1 .. Len(d) + Len(e) /\ DOMAIN e = 1 .. Len(e) /\ Len(e) \in Nat
    BY <2>1
  <2>3. ASSUME NEW i \in DOMAIN f
        PROVE  f[i] \in Elems(d) \cup Elems(e)
    <3>1. CASE i <= Len(d)
      <4>1. i \in DOMAIN d /\ f[i] = d[i]
        BY <1>1, <2>1, <2>2, <3>1
      <4> QED BY <4>1 DEF Elems
    <3>2. CASE ~(i <= Len(d))
      <4>1. i - Len(d) \in DOMAIN e /\ f[i] = e[i - Len(d)]
        BY <1>1, <2>1, <2>2, <3>2
      <4> QED BY <4>1 DEF Elems
    <3> QED BY <3>1, <3>2
  <2>4. ASSUME NEW i \in DOMAIN d
        PROVE  i \in DOMAIN f /\ f[i] = d[i]
    BY <1>1, <2>1, <2>2
  <2>5. ASSUME NEW i \in DOMAIN e
        PROVE  i + Len(d) \in DOMAIN f /\ f[i + Len(d)] = e[i]
    <3>1. i + Len(d) \in 1 .. Len(d) + Len(e) /\ ~(i + Len(d) <= Len(d)) /\ i + Len(d) - Len(d) = i
      BY <1>1, <2>2
    <3> QED BY <2>1, <2>2, <3>1
  <2>6. Elems(f) = Elems(d) \cup Elems(e)
    BY <2>3, <2>4, <2>5 DEF Elems
  <2> QED BY <2>1, <2>6 DEF f
<1> QED BY <1>1, <1>2, <1>3

\* The elements up to a position, and all of them.
LEMMA OnesAtEnds ==
  ASSUME NEW S, NEW s \in Seq(S)
  PROVE  FirstOnes(s, 0) = {} /\ FirstOnes(s, Len(s)) = Elems(s)
<1>1. DOMAIN s = 1 .. Len(s) /\ 1 .. 0 = {}
  OBVIOUS
<1> QED BY <1>1 DEF FirstOnes, Elems

-----------------------------------------------------------------------------
(* CatalogReader: appearances.                                             *)

\* One more credit of the release that has this id, or one more release.
AddsTo(d, e, x) ==
  \E a, u : /\ Becomes(d, e, a, u) /\ u.id = x.id
            /\ a \in DOMAIN d => d[a].id = x.id /\ d[a].credits \subseteq u.credits /\ u.role = d[a].role
            /\ a \notin DOMAIN d => (\A i \in DOMAIN d : d[i].id # x.id) /\ u = x

LEMMA AppearanceStep ==
  ASSUME NEW d \in Lists, NEW x \in ReleaseRecords
  PROVE  MergeAppearance(d, x) \in Lists /\ AddsTo(d, MergeAppearance(d, x), x)
<1> DEFINE e == MergeAppearance(d, x)
           at == Position(d, x.id)
<1>1. e = IF at = 0 THEN Append(d, x) ELSE [d EXCEPT ![at].credits = MergeCredits(@, x.credits)]
  BY DEF MergeAppearance
<1> HIDE DEF e
<1>2. CASE at = 0
  <2>1. \A i \in DOMAIN d : d[i].id # x.id
    BY <1>2, PositionFinds DEF Lists
  <2>2. e \in Lists /\ Becomes(d, e, Len(d) + 1, x) /\ Len(d) + 1 \notin DOMAIN d
    BY <1>1, <1>2, AppendBecomes DEF Lists
  <2>3. AddsTo(d, e, x)
    BY <2>1, <2>2 DEF AddsTo
  <2> QED BY <2>2, <2>3 DEF e
<1>3. CASE at # 0
  <2>1. at \in DOMAIN d /\ d[at].id = x.id
    BY <1>3, PositionFinds DEF Lists
  <2> HIDE DEF at
  <2> DEFINE c == d[at].credits \cup x.credits
             u == [d[at] EXCEPT !.credits = c]
  <2>2. d[at] \in ReleaseRecords /\ c \in SUBSET Credits
    <3>1. x.credits \in SUBSET Credits
      BY DEF ReleaseRecords, Released, DatedReleased, Credits
    <3>2. d[at] \in ReleaseRecords /\ d[at].credits \in SUBSET Credits
      BY <2>1, ReleaseFields
    <3> QED BY <3>1, <3>2
  <2>3. e = [d EXCEPT ![at] = u]
    <3>1. MergeCredits(d[at].credits, x.credits) = c
      BY DEF MergeCredits
    <3> QED BY <1>1, <1>3, <3>1
  <2> HIDE DEF c
  <2>4. u \in ReleaseRecords /\ u.id = d[at].id /\ u.role = d[at].role /\ u.credits = c
    BY <2>2, WithCredits
  <2> HIDE DEF u
  <2>5. e \in Lists /\ Becomes(d, e, at, u)
    BY <2>1, <2>3, <2>4, ExceptBecomes DEF Lists
  <2>6. d[at].credits \subseteq u.credits
    BY <2>4 DEF c
  <2>7. AddsTo(d, e, x)
    BY <2>1, <2>4, <2>5, <2>6 DEF AddsTo
  <2> QED BY <2>5, <2>7 DEF e
<1> QED BY <1>2, <1>3

\* The artist's own releases with some guests: each own one is kept in its role,
\* each guest is there, and there is nothing else.
WithGuests(e, own, G) ==
  /\ \A x \in own : \E y \in Elems(e) : y.id = x.id /\ x.credits \subseteq y.credits
  /\ \A g \in G : \E y \in Elems(e) : y.id = g.id
  /\ \A y \in Elems(e) :
       \/ \E x \in own : x.id = y.id /\ x.role = y.role
       \/ (\A x \in own : x.id # y.id) /\ \E g \in G : g.id = y.id /\ g.role = y.role

LEMMA AppearanceOne ==
  ASSUME NEW d \in Lists, NEW x \in ReleaseRecords, NEW own, NEW G, WithGuests(d, own, G)
  PROVE  WithGuests(MergeAppearance(d, x), own, G \cup {x})
<1> DEFINE e == MergeAppearance(d, x)
<1>1. PICK a, u :
        /\ Becomes(d, e, a, u) /\ u.id = x.id
        /\ a \in DOMAIN d => d[a].id = x.id /\ d[a].credits \subseteq u.credits /\ u.role = d[a].role
        /\ a \notin DOMAIN d => (\A i \in DOMAIN d : d[i].id # x.id) /\ u = x
  BY AppearanceStep DEF AddsTo
<1> HIDE DEF e
<1>2. /\ \A i \in DOMAIN e : i = a \/ (i \in DOMAIN d /\ e[i] = d[i])
      /\ \A i \in DOMAIN d : i \in DOMAIN e /\ (i # a => e[i] = d[i])
      /\ a \in DOMAIN e /\ e[a] = u
  BY <1>1 DEF Becomes
<1>3. ASSUME NEW y \in Elems(d)
      PROVE  \E z \in Elems(e) : z.id = y.id /\ y.credits \subseteq z.credits
  <2>1. PICK i \in DOMAIN d : y = d[i]
    BY DEF Elems
  <2>2. i \in DOMAIN e /\ e[i].id = y.id /\ y.credits \subseteq e[i].credits
    BY <1>1, <1>2, <2>1
  <2> QED BY <2>2 DEF Elems
<1>4. \A y \in own : \E z \in Elems(e) : z.id = y.id /\ y.credits \subseteq z.credits
  <2> SUFFICES ASSUME NEW y \in own
               PROVE  \E z \in Elems(e) : z.id = y.id /\ y.credits \subseteq z.credits
    OBVIOUS
  <2>1. PICK z \in Elems(d) : z.id = y.id /\ y.credits \subseteq z.credits
    BY DEF WithGuests
  <2>2. PICK w \in Elems(e) : w.id = z.id /\ z.credits \subseteq w.credits
    BY <1>3, <2>1
  <2> QED BY <2>1, <2>2
<1>5. \A g \in G \cup {x} : \E z \in Elems(e) : z.id = g.id
  <2>1. \E z \in Elems(e) : z.id = x.id
    BY <1>1, <1>2 DEF Elems
  <2>2. ASSUME NEW g \in G
        PROVE  \E z \in Elems(e) : z.id = g.id
    <3>1. PICK z \in Elems(d) : z.id = g.id
      BY DEF WithGuests
    <3> QED BY <1>3, <3>1
  <2> QED BY <2>1, <2>2
<1>6. ASSUME NEW y \in Elems(e)
      PROVE  \/ \E z \in own : z.id = y.id /\ z.role = y.role
             \/ (\A z \in own : z.id # y.id) /\ \E g \in G \cup {x} : g.id = y.id /\ g.role = y.role
  <2>1. CASE \E z \in Elems(d) : z.id = y.id /\ z.role = y.role
    BY <2>1 DEF WithGuests
  <2>2. CASE a \notin DOMAIN d /\ y = x
    <3>1. ASSUME NEW z \in own, z.id = x.id
          PROVE  FALSE
      <4>1. PICK w \in Elems(d) : w.id = z.id
        BY DEF WithGuests
      <4> QED BY <1>1, <2>2, <3>1, <4>1 DEF Elems
    <3> QED BY <2>2, <3>1
  <2>3. PICK i \in DOMAIN e : y = e[i]
    BY DEF Elems
  <2>4. CASE i # a
    <3>1. y \in Elems(d)
      BY <1>2, <2>3, <2>4 DEF Elems
    <3> QED BY <2>1, <3>1
  <2>5. CASE i = a /\ a \in DOMAIN d
    <3>1. d[a] \in Elems(d) /\ d[a].id = y.id /\ d[a].role = y.role
      BY <1>1, <1>2, <2>3, <2>5 DEF Elems
    <3> QED BY <2>1, <3>1
  <2>6. CASE i = a /\ a \notin DOMAIN d
    BY <1>1, <1>2, <2>2, <2>3, <2>6
  <2> QED BY <2>4, <2>5, <2>6
<1>7. WithGuests(e, own, G \cup {x})
  BY <1>4, <1>5, <1>6 DEF WithGuests
<1> QED BY <1>7 DEF e

LEMMA AppearancesMerged ==
  ASSUME NEW d \in Lists, NEW s \in Lists
  PROVE  MergeAppearances(d, s) \in Lists /\ WithGuests(MergeAppearances(d, s), Elems(d), Elems(s))
<1> DEFINE I == {p \in Nat \X Lists : WithGuests(p[2], Elems(d), FirstOnes(s, p[1]))}
<1>0. s \in Seq(ReleaseRecords)
  BY DEF Lists
<1>1. FirstOnes(s, 0) = {} /\ FirstOnes(s, Len(s)) = Elems(s)
  BY <1>0, OnesAtEnds
<1>2. <<0, d>> \in I
  BY <1>1 DEF WithGuests
<1>3. \A c \in Lists, x \in ReleaseRecords : MergeAppearance(c, x) \in Lists
  BY AppearanceStep
<1>4. ASSUME NEW k \in 0 .. Len(s) - 1, NEW c \in Lists, <<k, c>> \in I
      PROVE  <<k + 1, MergeAppearance(c, s[k + 1])>> \in I
  <2>1. FirstOnes(s, k + 1) = FirstOnes(s, k) \cup {s[k + 1]} /\ s[k + 1] \in ReleaseRecords /\ k + 1 \in Nat
    BY <1>0, OnesMore
  <2>2. WithGuests(c, Elems(d), FirstOnes(s, k))
    BY <1>4
  <2>3. WithGuests(MergeAppearance(c, s[k + 1]), Elems(d), FirstOnes(s, k + 1))
    BY <2>1, <2>2, AppearanceOne
  <2> QED BY <1>3, <2>1, <2>3
<1> HIDE DEF I
<1>5. MergeAppearances(d, s) \in Lists /\ <<Len(s), MergeAppearances(d, s)>> \in I
  BY <1>0, <1>2, <1>3, <1>4, AppearancesFold
<1> QED BY <1>1, <1>5 DEF I

-----------------------------------------------------------------------------
(* CatalogReader: the lookup and the credited tracks of iTunes.            *)

CollectionRows == [kind : STRING, owner : STRING, id : Nat, whole : BOOLEAN]
TrackRows == [id : Nat, collection : Nat, credited : BOOLEAN]

LEMMA CollectionOne ==
  ASSUME NEW d \in Lists, NEW x \in CollectionRows
  PROVE  LET e == KeepCollection(d, x) IN
         /\ e \in Lists
         /\ Bare(d) => Bare(e)
         /\ IdsOf(e) = IdsOf(d) \cup (IF Usable(x) THEN {x.id} ELSE {})
<1> DEFINE e == KeepCollection(d, x)
           u == [id |-> x.id, role |-> "", credits |-> {}]
<1>1. u \in ReleaseRecords /\ u.id = x.id /\ u.role = "" /\ u.credits = {}
  BY DEF CollectionRows, ReleaseRecords, Released
<1>2. e = IF Usable(x) /\ Position(d, x.id) = 0 THEN Append(d, u) ELSE d
  BY DEF KeepCollection
<1> HIDE DEF e, u
<1>3. CASE Usable(x) /\ Position(d, x.id) = 0
  <2>1. e = Append(d, u)
    BY <1>2, <1>3
  <2>2. e \in Lists /\ Elems(e) = Elems(d) \cup {u}
    <3>1. d \in Seq(ReleaseRecords)
      BY DEF Lists
    <3>2. Append(d, u) \in Seq(ReleaseRecords) /\ Elems(Append(d, u)) = Elems(d) \cup {u}
      <4>1. u \in ReleaseRecords
        BY <1>1
      <4>2. \A v \in ReleaseRecords : Append(d, v) \in Seq(ReleaseRecords) /\ Elems(Append(d, v)) = Elems(d) \cup {v}
        BY <3>1, WhatGoesIn
      <4> QED BY <4>1, <4>2
    <3> QED BY <2>1, <3>2 DEF Lists
  <2>3. IdsOf(e) = IdsOf(d) \cup {x.id}
    <3>1. IdsOf(d) = {y.id : y \in Elems(d)} /\ IdsOf(e) = {y.id : y \in Elems(e)}
      BY WhatIsIn
    <3>2. {y.id : y \in Elems(d) \cup {u}} = {y.id : y \in Elems(d)} \cup {u.id}
      OBVIOUS
    <3> QED BY <1>1, <2>2, <3>1, <3>2
  <2>4. Bare(d) => Bare(e)
    BY <1>1, <2>2, WhatIsIn
  <2> QED BY <1>3, <2>2, <2>3, <2>4 DEF e
<1>4. CASE ~(Usable(x) /\ Position(d, x.id) = 0)
  <2>1. e = d
    BY <1>2, <1>4
  <2>2. Usable(x) => x.id \in IdsOf(d)
    BY <1>4, PositionFinds DEF Lists, IdsOf
  <2>3. IdsOf(d) = IdsOf(d) \cup (IF Usable(x) THEN {x.id} ELSE {})
    BY <2>2
  <2> QED BY <2>1, <2>3 DEF e
<1> QED BY <1>3, <1>4

LEMMA CollectionsKept ==
  ASSUME NEW s \in Seq(CollectionRows)
  PROVE  LET e == KeepCollections(s) IN
         /\ e \in Lists /\ Bare(e)
         /\ IdsOf(e) = {s[i].id : i \in {j \in DOMAIN s : Usable(s[j])}}
<1> DEFINE I == {p \in Nat \X Lists :
                   Bare(p[2]) /\ IdsOf(p[2]) = {x.id : x \in {y \in FirstOnes(s, p[1]) : Usable(y)}}}
<1>1. FirstOnes(s, 0) = {} /\ FirstOnes(s, Len(s)) = Elems(s)
  BY OnesAtEnds
<1>2. << >> \in Lists /\ <<0, << >> >> \in I
  <2>1. << >> \in Lists /\ Bare(<< >>) /\ IdsOf(<< >>) = {}
    BY DEF Lists, Bare, IdsOf
  <2> QED BY <1>1, <2>1
<1>3. \A c \in Lists, x \in CollectionRows : KeepCollection(c, x) \in Lists
  BY CollectionOne
<1>4. ASSUME NEW k \in 0 .. Len(s) - 1, NEW c \in Lists, <<k, c>> \in I
      PROVE  <<k + 1, KeepCollection(c, s[k + 1])>> \in I
  <2> DEFINE x == s[k + 1]
  <2>1. FirstOnes(s, k + 1) = FirstOnes(s, k) \cup {x} /\ x \in CollectionRows /\ k + 1 \in Nat
    BY OnesMore
  <2> HIDE DEF x
  <2>2. Bare(c) /\ IdsOf(c) = {z.id : z \in {y \in FirstOnes(s, k) : Usable(y)}}
    BY <1>4
  <2>3. /\ KeepCollection(c, x) \in Lists /\ Bare(KeepCollection(c, x))
        /\ IdsOf(KeepCollection(c, x)) = IdsOf(c) \cup (IF Usable(x) THEN {x.id} ELSE {})
    BY <2>1, <2>2, CollectionOne
  <2>4. {z.id : z \in {y \in FirstOnes(s, k + 1) : Usable(y)}}
          = {z.id : z \in {y \in FirstOnes(s, k) : Usable(y)}} \cup (IF Usable(x) THEN {x.id} ELSE {})
    BY <2>1
  <2>5. <<k + 1, KeepCollection(c, x)>> \in I
    BY <2>1, <2>2, <2>3, <2>4
  <2> QED BY <2>5 DEF x
<1> HIDE DEF I
<1>5. KeepCollections(s) \in Lists /\ <<Len(s), KeepCollections(s)>> \in I
  BY <1>2, <1>3, <1>4, CollectionsFold
<1>6. {z.id : z \in {y \in Elems(s) : Usable(y)}} = {s[i].id : i \in {j \in DOMAIN s : Usable(s[j])}}
  BY DEF Elems
<1>7. Bare(KeepCollections(s)) /\ IdsOf(KeepCollections(s)) = {z.id : z \in {y \in Elems(s) : Usable(y)}}
  BY <1>1, <1>5 DEF I
<1> QED BY <1>5, <1>6, <1>7

\* A release that is known as it was looked up has no credits yet.
LEMMA KnownIsBare ==
  ASSUME NEW known \in Lists, Bare(known), NEW id
  PROVE  (IF Position(known, id) = 0 THEN {} ELSE known[Position(known, id)].credits) = {}
BY PositionFinds DEF Lists, Bare

\* The releases that some tracks credit, one for each of them.
CreditedTracks(C, T) ==
  /\ \A y \in C : y.role = "featured" /\ \E t \in T : t.credited /\ y.id = t.collection /\ y.credits = {<<t.id, "guest">>}
  /\ \A t \in T : t.credited => \E y \in C : y.id = t.collection /\ <<t.id, "guest">> \in y.credits

LEMMA TrackOne ==
  ASSUME NEW known \in Lists, Bare(known), NEW d \in Lists, NEW t \in TrackRows
  PROVE  /\ CreditTrack(known, d, t) \in Lists
         /\ \A T : CreditedTracks(Elems(d), T) => CreditedTracks(Elems(CreditTrack(known, d, t)), T \cup {t})
<1> DEFINE e == CreditTrack(known, d, t)
           had == \E i \in DOMAIN d : d[i].id = t.collection /\ <<t.id, "guest">> \in d[i].credits
           old == IF Position(known, t.collection) = 0 THEN {} ELSE known[Position(known, t.collection)].credits
           u == [id |-> t.collection, role |-> "featured", credits |-> {<<t.id, "guest">>}]
<1>1. e = IF ~t.credited \/ had THEN d
          ELSE Append(d, [id |-> t.collection, role |-> "featured", credits |-> old \cup {<<t.id, "guest">>}])
  BY DEF CreditTrack
<1>2. old = {}
  BY KnownIsBare
<1> HIDE DEF old
<1>3. e = IF ~t.credited \/ had THEN d ELSE Append(d, u)
  <2>1. old \cup {<<t.id, "guest">>} = {<<t.id, "guest">>}
    BY <1>2
  <2> QED BY <1>1, <2>1
<1>4. u \in ReleaseRecords /\ u.id = t.collection /\ u.role = "featured" /\ u.credits = {<<t.id, "guest">>}
  <2>1. t.id \in Nat /\ t.collection \in Nat
    BY DEF TrackRows
  <2>2. {<<t.id, "guest">>} \in SUBSET (Nat \X {"primary", "featured", "guest"})
    BY <2>1
  <2> QED BY <2>1, <2>2 DEF ReleaseRecords, Released
<1> HIDE DEF e, u
<1>5. CASE ~t.credited \/ had
  <2>1. t.credited => \E y \in Elems(d) : y.id = t.collection /\ <<t.id, "guest">> \in y.credits
    BY <1>5 DEF Elems
  <2> HIDE DEF had
  <2>2. ASSUME NEW T, CreditedTracks(Elems(d), T)
        PROVE  CreditedTracks(Elems(d), T \cup {t})
    BY <2>1, <2>2 DEF CreditedTracks
  <2>3. e = d
    BY <1>3, <1>5
  <2> QED BY <2>2, <2>3 DEF e
<1>6. CASE ~(~t.credited \/ had)
  <2>1. e \in Lists /\ Elems(e) = Elems(d) \cup {u}
    BY <1>3, <1>4, <1>6, WhatGoesIn DEF Lists
  <2> HIDE DEF had
  <2>2. ASSUME NEW T, CreditedTracks(Elems(d), T)
        PROVE  CreditedTracks(Elems(e), T \cup {t})
    <3>1. ASSUME NEW y \in Elems(e)
          PROVE  y.role = "featured" /\ \E s \in T \cup {t} : s.credited /\ y.id = s.collection /\ y.credits = {<<s.id, "guest">>}
      BY <1>4, <1>6, <2>1, <2>2 DEF CreditedTracks
    <3>2. ASSUME NEW s \in T \cup {t}, s.credited
          PROVE  \E y \in Elems(e) : y.id = s.collection /\ <<s.id, "guest">> \in y.credits
      BY <1>4, <2>1, <2>2, <3>2 DEF CreditedTracks
    <3> QED BY <3>1, <3>2 DEF CreditedTracks
  <2> QED BY <2>1, <2>2 DEF e
<1> QED BY <1>5, <1>6

LEMMA TracksCredited ==
  ASSUME NEW known \in Lists, Bare(known), NEW s \in Seq(TrackRows)
  PROVE  ITunesCredits(known, s) \in Lists /\ CreditedTracks(Elems(ITunesCredits(known, s)), Elems(s))
<1> DEFINE I == {p \in Nat \X Lists : CreditedTracks(Elems(p[2]), FirstOnes(s, p[1]))}
<1>1. FirstOnes(s, 0) = {} /\ FirstOnes(s, Len(s)) = Elems(s)
  BY OnesAtEnds
<1>2. << >> \in Lists /\ <<0, << >> >> \in I
  <2>1. << >> \in Lists /\ Elems(<< >>) = {}
    BY DEF Lists, Elems
  <2> QED BY <1>1, <2>1 DEF CreditedTracks
<1>3. \A c \in Lists, x \in TrackRows : CreditTrack(known, c, x) \in Lists
  BY TrackOne
<1>4. ASSUME NEW k \in 0 .. Len(s) - 1, NEW c \in Lists, <<k, c>> \in I
      PROVE  <<k + 1, CreditTrack(known, c, s[k + 1])>> \in I
  <2>1. FirstOnes(s, k + 1) = FirstOnes(s, k) \cup {s[k + 1]} /\ s[k + 1] \in TrackRows /\ k + 1 \in Nat
    BY OnesMore
  <2>2. CreditedTracks(Elems(c), FirstOnes(s, k))
    BY <1>4
  <2>3. CreditedTracks(Elems(CreditTrack(known, c, s[k + 1])), FirstOnes(s, k + 1))
    BY <2>1, <2>2, TrackOne
  <2> QED BY <1>3, <2>1, <2>3
<1> HIDE DEF I
<1>5. ITunesCredits(known, s) \in Lists /\ <<Len(s), ITunesCredits(known, s)>> \in I
  BY <1>2, <1>3, <1>4, TracksFold
<1> QED BY <1>1, <1>5 DEF I

-----------------------------------------------------------------------------
(* CatalogReader: the credited recordings of MusicBrainz.                  *)

RecordingRows == [id : Nat, credited : BOOLEAN, on : Seq([group : Nat, date : Dates])]

LEMMA GroupsAreNumbers ==
  ASSUME NEW r \in RecordingRows
  PROVE  GroupsOf(r) \in Seq(Nat)
<1> DEFINE I == Nat \X Seq(Nat)
           S == [group : Nat, date : Dates]
<1>1. r.on \in Seq(S)
  BY DEF RecordingRows
<1>2. << >> \in Seq(Nat) /\ <<0, << >> >> \in I
  <2>1. << >> \in Seq(Nat) /\ 0 \in Nat
    BY EmptySeq
  <2> QED BY <2>1
<1>3. ASSUME NEW d \in Seq(Nat), NEW x \in S
      PROVE  AddGroup(d, x) \in Seq(Nat)
  <2>1. x.group \in Nat
    OBVIOUS
  <2> QED BY <2>1 DEF AddGroup
<1>4. ASSUME NEW k \in 0 .. Len(r.on) - 1, NEW d \in Seq(Nat), <<k, d>> \in I
      PROVE  <<k + 1, AddGroup(d, r.on[k + 1])>> \in I
  <2>1. r.on[k + 1] \in S /\ k + 1 \in Nat
    BY <1>1, OnesMore
  <2> QED BY <1>3, <2>1
<1> HIDE DEF I, S
<1> QED BY <1>1, <1>2, <1>3, <1>4, GroupsFold

\* A date is known of a group as soon as one of its rows has one.
LEMMA EarliestIsADate ==
  ASSUME ReaderAssumption, NEW r \in RecordingRows, NEW id
  PROVE  LET D == DatesOf(r, id) IN
         Earliest(D) \in Dates /\ (Earliest(D) = Unknown <=> D = {})
<1> DEFINE D == DatesOf(r, id)
<1>1. D \subseteq Nat
  <2>1. r.on \in Seq([group : Nat, date : Dates])
    BY DEF RecordingRows
  <2>2. \A i \in DOMAIN r.on : r.on[i].date \in Dates
    <3> DEFINE s == r.on
               S == [group : Nat, date : Dates]
    <3>1. s \in Seq(S)
      BY <2>1
    <3>2. \A x \in S : x.date \in Dates
      OBVIOUS
    <3> HIDE DEF s, S
    <3>3. \A i \in DOMAIN s : s[i] \in S
      BY <3>1
    <3> QED BY <3>2, <3>3 DEF s
  <2> QED BY <2>2 DEF DatesOf, Dates
<1>2. Unknown \notin Nat
  BY DEF ReaderAssumption
<1> HIDE DEF D
<1>3. CASE D = {}
  BY <1>3 DEF Earliest, Dates, D
<1>4. CASE D # {}
  <2>1. \E d \in D : \A e \in D : d <= e
    BY <1>1, <1>4, LeastThereIs
  <2>2. Earliest(D) \in D
    BY <1>4, <2>1 DEF Earliest
  <2> QED BY <1>1, <1>2, <1>4, <2>2 DEF Dates, D
<1> QED BY <1>3, <1>4

\* What a recording p[1] on a group p[2] makes, if anything: a release of the
\* group that the recording credits.
IsShown(ids, p) == p[2] \in ids \/ DatesOf(p[1], p[2]) # {}
CreditedGroups(C, ids, P) ==
  /\ \A y \in C : y.role = "featured" /\ \E p \in P : IsShown(ids, p) /\ y.id = p[2] /\ y.credits = {<<p[1].id, "guest">>}
  /\ \A p \in P : IsShown(ids, p) => \E y \in C : y.id = p[2] /\ <<p[1].id, "guest">> \in y.credits

LEMMA GroupOne ==
  ASSUME ReaderAssumption, NEW known \in Seq(DatedReleased), Bare(known), NEW r \in RecordingRows,
         NEW d \in Lists, NEW id \in Nat
  PROVE  LET e == CreditGroup(known, r, d, id) IN
         /\ e \in Lists
         /\ \A P : CreditedGroups(Elems(d), IdsOf(known), P)
                     => CreditedGroups(Elems(e), IdsOf(known), P \cup {<<r, id>>})
<1> DEFINE e == CreditGroup(known, r, d, id)
           at == Position(known, id)
           date == IF at = 0 THEN Earliest(DatesOf(r, id)) ELSE known[at].date
           old == IF at = 0 THEN {} ELSE known[at].credits
           u == [id |-> id, role |-> "featured", date |-> date, credits |-> {<<r.id, "guest">>}]
           ids == IdsOf(known)
<1>1. e = IF at = 0 /\ date = Unknown THEN d
          ELSE Append(d, [id |-> id, role |-> "featured", date |-> date, credits |-> old \cup {<<r.id, "guest">>}])
  BY DEF CreditGroup
<1>2. /\ at = 0 => id \notin ids
      /\ at # 0 => at \in DOMAIN known /\ id \in ids
  <2>1. /\ at = 0 => \A i \in DOMAIN known : known[i].id # id
        /\ at # 0 => at \in DOMAIN known /\ known[at].id = id
    BY PositionFinds
  <2> QED BY <2>1 DEF IdsOf
<1>3. old \cup {<<r.id, "guest">>} = {<<r.id, "guest">>}
  BY <1>2 DEF Bare
<1>4. date \in Dates
  <2>1. at # 0 => known[at].date \in Dates
    <3> HIDE DEF at
    <3>1. ASSUME at # 0
          PROVE  known[at].date \in Dates
      <4>1. known[at] \in DatedReleased
        BY <1>2, <3>1
      <4> QED BY <4>1 DEF DatedReleased
    <3> QED BY <3>1
  <2> QED BY <2>1, EarliestIsADate
<1>5. (at = 0 /\ date = Unknown) <=> ~IsShown(ids, <<r, id>>)
  BY <1>2, EarliestIsADate DEF IsShown
<1> HIDE DEF old, at, date
<1>6. e = IF ~IsShown(ids, <<r, id>>) THEN d ELSE Append(d, u)
  BY <1>1, <1>3, <1>5
<1>7. u \in ReleaseRecords /\ u.id = id /\ u.role = "featured" /\ u.credits = {<<r.id, "guest">>}
  <2>1. r.id \in Nat
    BY DEF RecordingRows
  <2>2. {<<r.id, "guest">>} \in SUBSET (Nat \X {"primary", "featured", "guest"})
    BY <2>1
  <2> QED BY <1>4, <2>2 DEF ReleaseRecords, DatedReleased
<1> HIDE DEF e, u, ids
<1>8. CASE ~IsShown(ids, <<r, id>>)
  <2>1. ASSUME NEW P, CreditedGroups(Elems(d), ids, P)
        PROVE  CreditedGroups(Elems(d), ids, P \cup {<<r, id>>})
    BY <1>8, <2>1 DEF CreditedGroups
  <2> QED BY <1>6, <1>8, <2>1 DEF e, ids
<1>9. CASE IsShown(ids, <<r, id>>)
  <2>1. e \in Lists /\ Elems(e) = Elems(d) \cup {u}
    BY <1>6, <1>7, <1>9, WhatGoesIn DEF Lists
  <2>2. ASSUME NEW P, CreditedGroups(Elems(d), ids, P)
        PROVE  CreditedGroups(Elems(e), ids, P \cup {<<r, id>>})
    <3> DEFINE q == <<r, id>>
    <3>1. IsShown(ids, q) /\ u.id = q[2] /\ u.credits = {<<q[1].id, "guest">>}
      BY <1>7, <1>9
    <3> HIDE DEF q
    <3>2. ASSUME NEW y \in Elems(e)
          PROVE  y.role = "featured" /\ \E p \in P \cup {q} : IsShown(ids, p) /\ y.id = p[2] /\ y.credits = {<<p[1].id, "guest">>}
      BY <1>7, <2>1, <2>2, <3>1 DEF CreditedGroups
    <3>3. ASSUME NEW p \in P \cup {q}, IsShown(ids, p)
          PROVE  \E y \in Elems(e) : y.id = p[2] /\ <<p[1].id, "guest">> \in y.credits
      BY <1>7, <2>1, <2>2, <3>1, <3>3 DEF CreditedGroups
    <3>4. CreditedGroups(Elems(e), ids, P \cup {q})
      BY <3>2, <3>3 DEF CreditedGroups
    <3> QED BY <3>4 DEF q
  <2> QED BY <2>1, <2>2 DEF e, ids
<1> QED BY <1>8, <1>9

Pairs(r) == IF r.credited THEN {<<r, id>> : id \in Elems(GroupsOf(r))} ELSE {}

LEMMA GroupsCredited ==
  ASSUME ReaderAssumption, NEW known \in Seq(DatedReleased), Bare(known), NEW r \in RecordingRows,
         NEW d \in Lists, NEW P
  PROVE  LET e == CreditGroups(known, r, d) IN
         /\ e \in Lists
         /\ CreditedGroups(Elems(d), IdsOf(known), P)
              => CreditedGroups(Elems(e), IdsOf(known), P \cup {<<r, id>> : id \in Elems(GroupsOf(r))})
<1> DEFINE s == GroupsOf(r)
           ids == IdsOf(known)
           Upto(k) == P \cup {<<r, id>> : id \in FirstOnes(s, k)}
           I == {p \in Nat \X Lists : CreditedGroups(Elems(d), ids, P) => CreditedGroups(Elems(p[2]), ids, Upto(p[1]))}
<1>1. s \in Seq(Nat)
  BY GroupsAreNumbers
<1>2. FirstOnes(s, 0) = {} /\ FirstOnes(s, Len(s)) = Elems(s)
  BY <1>1, OnesAtEnds
<1>3. <<0, d>> \in I
  <2>1. Upto(0) = P
    BY <1>2
  <2> HIDE DEF Upto
  <2> QED BY <2>1
<1>4. \A c \in Lists, x \in Nat : CreditGroup(known, r, c, x) \in Lists
  BY GroupOne
<1> HIDE DEF s
<1>5. ASSUME NEW k \in 0 .. Len(s) - 1, NEW c \in Lists, <<k, c>> \in I
      PROVE  <<k + 1, CreditGroup(known, r, c, s[k + 1])>> \in I
  <2>1. FirstOnes(s, k + 1) = FirstOnes(s, k) \cup {s[k + 1]} /\ s[k + 1] \in Nat /\ k + 1 \in Nat
    BY <1>1, OnesMore
  <2>2. Upto(k + 1) = Upto(k) \cup {<<r, s[k + 1]>>}
    BY <2>1
  <2> HIDE DEF Upto
  <2>3. CreditedGroups(Elems(d), ids, P) => CreditedGroups(Elems(c), ids, Upto(k))
    BY <1>5
  <2>4. CreditedGroups(Elems(d), ids, P) => CreditedGroups(Elems(CreditGroup(known, r, c, s[k + 1])), ids, Upto(k + 1))
    <3> DEFINE x == s[k + 1]
               f == CreditGroup(known, r, c, x)
    <3>1. \A R : CreditedGroups(Elems(c), ids, R) => CreditedGroups(Elems(f), ids, R \cup {<<r, x>>})
      <4>1. x \in Nat
        BY <2>1
      <4> HIDE DEF x
      <4> QED BY <4>1, GroupOne
    <3> HIDE DEF f, ids
    <3>2. CreditedGroups(Elems(c), ids, Upto(k)) => CreditedGroups(Elems(f), ids, Upto(k) \cup {<<r, x>>})
      BY <3>1
    <3> QED BY <2>2, <2>3, <3>2 DEF f
  <2> QED BY <1>4, <2>1, <2>4
<1> HIDE DEF I
<1>6. CreditGroups(known, r, d) \in Lists /\ <<Len(s), CreditGroups(known, r, d)>> \in I
  BY <1>1, <1>3, <1>4, <1>5, GroupCreditsFold DEF s
<1> QED BY <1>2, <1>6 DEF I, s

LEMMA RecordingsCredited ==
  ASSUME ReaderAssumption, NEW known \in Seq(DatedReleased), Bare(known), NEW s \in Seq(RecordingRows)
  PROVE  LET e == MusicBrainzCredits(known, s) IN
         e \in Lists /\ CreditedGroups(Elems(e), IdsOf(known), UNION {Pairs(r) : r \in Elems(s)})
<1> DEFINE ids == IdsOf(known)
           Upto(k) == UNION {Pairs(r) : r \in FirstOnes(s, k)}
           I == {p \in Nat \X Lists : CreditedGroups(Elems(p[2]), ids, Upto(p[1]))}
<1>1. FirstOnes(s, 0) = {} /\ FirstOnes(s, Len(s)) = Elems(s)
  BY OnesAtEnds
<1>2. << >> \in Lists /\ <<0, << >> >> \in I
  <2>1. << >> \in Lists /\ Elems(<< >>) = {} /\ Upto(0) = {}
    BY <1>1 DEF Lists, Elems
  <2> HIDE DEF Upto
  <2> QED BY <2>1 DEF CreditedGroups
<1>3. \A c \in Lists, x \in RecordingRows : CreditRecording(known, c, x) \in Lists
  BY GroupsCredited DEF CreditRecording
<1>4. ASSUME NEW k \in 0 .. Len(s) - 1, NEW c \in Lists, <<k, c>> \in I
      PROVE  <<k + 1, CreditRecording(known, c, s[k + 1])>> \in I
  <2> DEFINE r == s[k + 1]
  <2>1. FirstOnes(s, k + 1) = FirstOnes(s, k) \cup {r} /\ r \in RecordingRows /\ k + 1 \in Nat
    BY OnesMore
  <2> HIDE DEF r
  <2>2. Upto(k + 1) = Upto(k) \cup Pairs(r)
    BY <2>1
  <2> HIDE DEF Upto
  <2>3. CreditedGroups(Elems(c), ids, Upto(k))
    BY <1>4
  <2>4. CASE r.credited
    <3>1. /\ CreditRecording(known, c, r) = CreditGroups(known, r, c)
          /\ Pairs(r) = {<<r, id>> : id \in Elems(GroupsOf(r))}
      BY <2>4 DEF CreditRecording, Pairs
    <3>2. CreditedGroups(Elems(CreditRecording(known, c, r)), ids, Upto(k) \cup Pairs(r))
      BY <2>1, <2>3, <3>1, GroupsCredited
    <3> QED BY <1>3, <2>1, <2>2, <3>2 DEF r
  <2>5. CASE ~r.credited
    <3>1. CreditRecording(known, c, r) = c /\ Upto(k) \cup Pairs(r) = Upto(k)
      BY <2>5 DEF CreditRecording, Pairs
    <3> QED BY <2>1, <2>2, <2>3, <3>1 DEF r
  <2> QED BY <2>4, <2>5
<1> HIDE DEF I
<1>5. MusicBrainzCredits(known, s) \in Lists /\ <<Len(s), MusicBrainzCredits(known, s)>> \in I
  BY <1>2, <1>3, <1>4, RecordingsFold
<1>6. CreditedGroups(Elems(MusicBrainzCredits(known, s)), ids, Upto(Len(s)))
  BY <1>5 DEF I
<1> QED BY <1>1, <1>5, <1>6

-----------------------------------------------------------------------------
(* CatalogReader: the normalization.                                       *)

\* The row meets the release that has its id, or becomes one.
MeetsIn(d, e, x) ==
  \E a, u : /\ Becomes(d, e, a, u) /\ u.id = x.id
            /\ a \in DOMAIN d => /\ d[a].id = x.id /\ u.credits = d[a].credits \cup x.credits
                                 /\ u.role = "featured" <=> d[a].role = "featured" /\ x.role = "featured"
            /\ a \notin DOMAIN d => (\A i \in DOMAIN d : d[i].id # x.id) /\ u = x

LEMMA NormalizeStep ==
  ASSUME NEW d \in Lists, NEW x \in ReleaseRecords
  PROVE  NormalizeOne(d, x) \in Lists /\ MeetsIn(d, NormalizeOne(d, x), x)
<1> DEFINE e == NormalizeOne(d, x)
           at == Position(d, x.id)
           c == MergeCredits(d[at].credits, x.credits)
<1>1. e = IF at = 0 THEN Append(d, x)
          ELSE IF d[at].role = "featured" /\ x.role # "featured" THEN [d EXCEPT ![at] = [x EXCEPT !.credits = c]]
          ELSE [d EXCEPT ![at].credits = c]
  BY DEF NormalizeOne
<1> HIDE DEF e
<1>2. CASE at = 0
  <2>1. \A i \in DOMAIN d : d[i].id # x.id
    BY <1>2, PositionFinds DEF Lists
  <2>2. e \in Lists /\ Becomes(d, e, Len(d) + 1, x) /\ Len(d) + 1 \notin DOMAIN d
    BY <1>1, <1>2, AppendBecomes DEF Lists
  <2>3. MeetsIn(d, e, x)
    BY <2>1, <2>2 DEF MeetsIn
  <2> QED BY <2>2, <2>3 DEF e
<1>3. CASE at # 0
  <2>1. at \in DOMAIN d /\ d[at].id = x.id
    BY <1>3, PositionFinds DEF Lists
  <2> HIDE DEF at, c
  <2>2. d[at] \in ReleaseRecords /\ d[at].role \in {"", "primary", "featured"}
    BY <2>1, ReleaseFields
  <2>3. c \in SUBSET Credits /\ c = d[at].credits \cup x.credits
    <3>1. x.credits \in SUBSET Credits
      BY DEF ReleaseRecords, Released, DatedReleased, Credits
    <3>2. d[at].credits \in SUBSET Credits
      BY <2>1, ReleaseFields
    <3> QED BY <3>1, <3>2 DEF c, MergeCredits
  <2> DEFINE v == [x EXCEPT !.credits = c]
             w == [d[at] EXCEPT !.credits = c]
  <2>4. v \in ReleaseRecords /\ v.id = x.id /\ v.role = x.role /\ v.credits = c
    BY <2>3, WithCredits
  <2>5. w \in ReleaseRecords /\ w.id = x.id /\ w.role = d[at].role /\ w.credits = c
    BY <2>1, <2>2, <2>3, WithCredits
  <2>6. \/ e = [d EXCEPT ![at] = v] /\ d[at].role = "featured" /\ x.role # "featured"
        \/ e = [d EXCEPT ![at] = w] /\ ~(d[at].role = "featured" /\ x.role # "featured")
    BY <1>1, <1>3
  <2> HIDE DEF v, w
  <2>7. CASE e = [d EXCEPT ![at] = v] /\ d[at].role = "featured" /\ x.role # "featured"
    <3>1. e \in Lists /\ Becomes(d, e, at, v)
      BY <2>1, <2>4, <2>7, ExceptBecomes DEF Lists
    <3>2. MeetsIn(d, e, x)
      BY <2>1, <2>3, <2>4, <2>7, <3>1 DEF MeetsIn
    <3> QED BY <3>1, <3>2 DEF e
  <2>8. CASE e = [d EXCEPT ![at] = w] /\ ~(d[at].role = "featured" /\ x.role # "featured")
    <3>1. e \in Lists /\ Becomes(d, e, at, w)
      BY <2>1, <2>5, <2>8, ExceptBecomes DEF Lists
    <3>2. MeetsIn(d, e, x)
      BY <2>1, <2>3, <2>5, <2>8, <3>1 DEF MeetsIn
    <3> QED BY <3>1, <3>2 DEF e
  <2> QED BY <2>6, <2>7, <2>8
<1> QED BY <1>2, <1>3

\* One release for each id of some rows, with all their credits, and a guest's
\* only if all of them are.
OneOfEach(e, X) ==
  /\ Once(e)
  /\ \A x \in X : \E i \in DOMAIN e : e[i].id = x.id
  /\ \A i \in DOMAIN e :
       /\ \E x \in X : x.id = e[i].id
       /\ e[i].credits = UNION {x.credits : x \in {y \in X : y.id = e[i].id}}
       /\ e[i].role = "featured" <=> \A x \in X : x.id = e[i].id => x.role = "featured"

LEMMA NormalizedOne ==
  ASSUME NEW d \in Lists, NEW x \in ReleaseRecords, NEW X, OneOfEach(d, X)
  PROVE  OneOfEach(NormalizeOne(d, x), X \cup {x})
<1> DEFINE e == NormalizeOne(d, x)
           Y == X \cup {x}
<1>1. PICK a, u :
        /\ Becomes(d, e, a, u) /\ u.id = x.id
        /\ a \in DOMAIN d => /\ d[a].id = x.id /\ u.credits = d[a].credits \cup x.credits
                             /\ u.role = "featured" <=> d[a].role = "featured" /\ x.role = "featured"
        /\ a \notin DOMAIN d => (\A i \in DOMAIN d : d[i].id # x.id) /\ u = x
  BY NormalizeStep DEF MeetsIn
<1> HIDE DEF e
<1>2. /\ \A i \in DOMAIN e : i = a \/ (i \in DOMAIN d /\ e[i] = d[i])
      /\ \A i \in DOMAIN d : i \in DOMAIN e /\ (i # a => e[i] = d[i])
      /\ a \in DOMAIN e /\ e[a] = u
  BY <1>1 DEF Becomes
<1>3. Once(e)
  BY <1>1, <1>2 DEF OneOfEach, Once
<1>4. ASSUME NEW y \in Y
      PROVE  \E i \in DOMAIN e : e[i].id = y.id
  <2>1. CASE y = x
    BY <1>1, <1>2, <2>1
  <2>2. CASE y \in X
    <3>1. PICK i \in DOMAIN d : d[i].id = y.id
      BY <2>2 DEF OneOfEach
    <3> QED BY <1>1, <1>2, <3>1
  <2> QED BY <2>1, <2>2
<1>5. ASSUME NEW i \in DOMAIN e
      PROVE  /\ \E y \in Y : y.id = e[i].id
             /\ e[i].credits = UNION {y.credits : y \in {z \in Y : z.id = e[i].id}}
             /\ e[i].role = "featured" <=> \A y \in Y : y.id = e[i].id => y.role = "featured"
  <2>1. CASE i # a
    <3>1. i \in DOMAIN d /\ e[i] = d[i]
      BY <1>2, <2>1
    <3>2. e[i].id # x.id
      BY <1>1, <2>1, <3>1 DEF OneOfEach, Once
    <3>3. {z \in Y : z.id = e[i].id} = {z \in X : z.id = e[i].id}
      BY <3>2
    <3>4. /\ \E y \in X : y.id = e[i].id
          /\ e[i].credits = UNION {y.credits : y \in {z \in X : z.id = e[i].id}}
          /\ e[i].role = "featured" <=> \A y \in X : y.id = e[i].id => y.role = "featured"
      BY <3>1 DEF OneOfEach
    <3>5. (\A y \in Y : y.id = e[i].id => y.role = "featured") <=> (\A y \in X : y.id = e[i].id => y.role = "featured")
      BY <3>2
    <3>6. \E y \in Y : y.id = e[i].id
      BY <3>4
    <3> HIDE DEF Y
    <3> QED BY <3>3, <3>4, <3>5, <3>6
  <2>2. CASE i = a /\ a \in DOMAIN d
    <3>1. /\ d[a].credits = UNION {y.credits : y \in {z \in X : z.id = x.id}}
          /\ d[a].role = "featured" <=> \A y \in X : y.id = x.id => y.role = "featured"
      BY <1>1, <2>2 DEF OneOfEach
    <3>2. e[i] = u /\ u.id = x.id /\ u.credits = d[a].credits \cup x.credits
          /\ (u.role = "featured" <=> d[a].role = "featured" /\ x.role = "featured")
      BY <1>1, <1>2, <2>2
    <3>3. {z \in Y : z.id = x.id} = {z \in X : z.id = x.id} \cup {x}
      OBVIOUS
    <3>4. UNION {y.credits : y \in {z \in X : z.id = x.id} \cup {x}}
            = (UNION {y.credits : y \in {z \in X : z.id = x.id}}) \cup x.credits
      <4> DEFINE Z == {z \in X : z.id = x.id}
      <4>1. {y.credits : y \in Z \cup {x}} = {y.credits : y \in Z} \cup {x.credits}
        OBVIOUS
      <4> HIDE DEF Z
      <4>2. UNION ({y.credits : y \in Z} \cup {x.credits}) = (UNION {y.credits : y \in Z}) \cup x.credits
        OBVIOUS
      <4>3. UNION {y.credits : y \in Z \cup {x}} = (UNION {y.credits : y \in Z}) \cup x.credits
        BY <4>1, <4>2
      <4> QED BY <4>3 DEF Z
    <3>5. e[i].credits = UNION {y.credits : y \in {z \in Y : z.id = e[i].id}}
      BY <3>1, <3>2, <3>3, <3>4
    <3>6. e[i].role = "featured" <=> \A y \in Y : y.id = e[i].id => y.role = "featured"
      BY <3>1, <3>2
    <3> QED BY <3>2, <3>5, <3>6
  <2>3. CASE i = a /\ a \notin DOMAIN d
    <3>1. e[i] = x /\ \A y \in X : y.id # x.id
      BY <1>1, <1>2, <2>3 DEF OneOfEach
    <3>2. {z \in Y : z.id = x.id} = {x}
      BY <3>1
    <3>3. UNION {y.credits : y \in {x}} = x.credits
      OBVIOUS
    <3>4. e[i].credits = UNION {y.credits : y \in {z \in Y : z.id = e[i].id}}
      BY <3>1, <3>2, <3>3
    <3>5. e[i].role = "featured" <=> \A y \in Y : y.id = e[i].id => y.role = "featured"
      BY <3>1
    <3> QED BY <3>1, <3>4, <3>5
  <2> QED BY <2>1, <2>2, <2>3
<1> HIDE DEF Y
<1>6. OneOfEach(e, Y)
  BY <1>3, <1>4, <1>5 DEF OneOfEach
<1> QED BY <1>6 DEF e, Y

\* Normalized, a batch has every release once, with what its rows say of it.
LEMMA BatchNormalized ==
  ASSUME NEW s \in Lists
  PROVE  LET e == Normalize(s) IN
         /\ e \in Lists /\ Once(e) /\ IdsOf(e) = IdsOf(s)
         /\ \A i \in DOMAIN e : /\ e[i].credits = CreditsIn(s, e[i].id)
                                /\ e[i].role = "featured" <=> FeaturedIn(s, e[i].id)
<1> DEFINE I == {p \in Nat \X Lists : OneOfEach(p[2], FirstOnes(s, p[1]))}
           e == Normalize(s)
<1>0. s \in Seq(ReleaseRecords)
  BY DEF Lists
<1>1. FirstOnes(s, 0) = {} /\ FirstOnes(s, Len(s)) = Elems(s)
  BY <1>0, OnesAtEnds
<1>2. << >> \in Lists /\ <<0, << >> >> \in I
  <2>1. << >> \in Lists /\ DOMAIN << >> = {}
    BY DEF Lists
  <2> QED BY <1>1, <2>1 DEF OneOfEach, Once
<1>3. \A c \in Lists, x \in ReleaseRecords : NormalizeOne(c, x) \in Lists
  BY NormalizeStep
<1>4. ASSUME NEW k \in 0 .. Len(s) - 1, NEW c \in Lists, <<k, c>> \in I
      PROVE  <<k + 1, NormalizeOne(c, s[k + 1])>> \in I
  <2>1. FirstOnes(s, k + 1) = FirstOnes(s, k) \cup {s[k + 1]} /\ s[k + 1] \in ReleaseRecords /\ k + 1 \in Nat
    BY <1>0, OnesMore
  <2>2. OneOfEach(c, FirstOnes(s, k))
    BY <1>4
  <2>3. OneOfEach(NormalizeOne(c, s[k + 1]), FirstOnes(s, k + 1))
    BY <2>1, <2>2, NormalizedOne
  <2> QED BY <1>3, <2>1, <2>3
<1> HIDE DEF I
<1>5. e \in Lists /\ <<Len(s), e>> \in I
  BY <1>0, <1>2, <1>3, <1>4, NormalizeFold
<1>6. OneOfEach(e, Elems(s))
  BY <1>1, <1>5 DEF I
<1> HIDE DEF e
<1>7. IdsOf(e) = IdsOf(s)
  <2>1. IdsOf(s) = {x.id : x \in Elems(s)}
    BY WhatIsIn
  <2>2. \A i \in DOMAIN e : \E x \in Elems(s) : x.id = e[i].id
    BY <1>6 DEF OneOfEach
  <2>3. \A x \in Elems(s) : \E i \in DOMAIN e : e[i].id = x.id
    BY <1>6 DEF OneOfEach
  <2>4. {e[i].id : i \in DOMAIN e} = {x.id : x \in Elems(s)}
    BY <2>2, <2>3
  <2> QED BY <2>1, <2>4 DEF IdsOf
<1>8. ASSUME NEW i \in DOMAIN e
      PROVE  e[i].credits = CreditsIn(s, e[i].id) /\ (e[i].role = "featured" <=> FeaturedIn(s, e[i].id))
  <2>1. /\ CreditsIn(s, e[i].id) = UNION {x.credits : x \in {y \in Elems(s) : y.id = e[i].id}}
        /\ FeaturedIn(s, e[i].id) <=> \A x \in Elems(s) : x.id = e[i].id => x.role = "featured"
    BY WhatIsIn
  <2> QED BY <1>6, <2>1 DEF OneOfEach
<1>9. Once(e)
  BY <1>6 DEF OneOfEach
<1> QED BY <1>5, <1>7, <1>8, <1>9 DEF e

-----------------------------------------------------------------------------
(* CatalogReader: pages.                                                   *)

LEMMA PageItems ==
  ASSUME NEW S, NEW s \in Seq(S), NEW p \in Nat, NEW z \in Nat \ {0}
  PROVE  LET items == SubSeq(s, p + 1, Minimum(p + z, Len(s))) IN
         /\ items \in Seq(S)
         /\ Elems(items) = {s[j] : j \in {i \in DOMAIN s : p < i /\ i <= p + z}}
         /\ items = << >> \/ p + Len(items) >= Len(s) \/ p + z >= Len(s) => \A i \in DOMAIN s : i <= p + z
<1> DEFINE top == Minimum(p + z, Len(s))
           items == SubSeq(s, p + 1, top)
<1>1. PICK l \in Nat : l = Len(s) /\ DOMAIN s = 1 .. l
  OBVIOUS
<1>2. top \in Nat /\ top <= l /\ top <= p + z /\ (top = p + z \/ top = l)
  <2>1. top = Minimum(p + z, l)
    BY <1>1
  <2> HIDE DEF top
  <2> QED BY <2>1 DEF Minimum
<1>3. items = SubSeq(s, p + 1, top)
  OBVIOUS
<1> HIDE DEF top, items
<1>4. /\ items \in Seq(S)
      /\ Len(items) = IF p + 1 <= top THEN top - p ELSE 0
      /\ \A i \in 1 .. Len(items) : items[i] = s[p + i]
  <2>1. \A i \in p + 1 .. top : i \in 1 .. l
    BY <1>2
  <2>2. \A i \in p + 1 .. top : s[i] \in S
    BY <1>1, <2>1
  <2>3. p + 1 \in Int /\ top \in Int /\ p + 1 + 0 = p + 1 /\ top - (p + 1) + 1 = top - p
        /\ \A i \in Nat : p + 1 + i - 1 = p + i
    BY <1>2
  <2> QED BY <1>1, <1>2, <1>3, <2>1, <2>2, <2>3, SubSeqProperties
<1>5. PICK m \in Nat : m = Len(items) /\ DOMAIN items = 1 .. m
  BY <1>4
<1>6. m = IF p + 1 <= top THEN top - p ELSE 0
  BY <1>4, <1>5
<1>7. Elems(items) = {s[j] : j \in {i \in DOMAIN s : p < i /\ i <= p + z}}
  <2>1. ASSUME NEW i \in 1 .. m
        PROVE  p + i \in 1 .. l /\ p < p + i /\ p + i <= p + z
    BY <1>2, <1>6
  <2>2. ASSUME NEW j \in 1 .. l, p < j, j <= p + z
        PROVE  j - p \in 1 .. m /\ p + (j - p) = j
    BY <1>2, <1>6, <2>2
  <2>3. \A i \in 1 .. m : items[i] = s[p + i]
    BY <1>4, <1>5
  <2> QED BY <1>1, <1>5, <2>1, <2>2, <2>3 DEF Elems
<1>8. ASSUME items = << >> \/ p + Len(items) >= Len(s) \/ p + z >= Len(s)
      PROVE  \A i \in DOMAIN s : i <= p + z
  <2>1. items = << >> => m = 0
    BY <1>5
  <2>2. m = 0 \/ p + m >= l \/ p + z >= l
    BY <1>1, <1>5, <1>8, <2>1
  <2>3. \A i \in 1 .. l : i <= p + z
    BY <1>2, <1>6, <2>2
  <2> QED BY <1>1, <2>3
<1> QED BY <1>4, <1>7, <1>8 DEF items, top

Before(s, n) == {s[j] : j \in {i \in DOMAIN s : i <= n * PageSize}}

\* The rows of a list up to a page are those before the page, and the page.
LEMMA PageTurned ==
  ASSUME ReaderAssumption, NEW S, NEW s \in Seq(S), NEW n \in Nat
  PROVE  LET items == Page(s, n) IN
         /\ items \in Seq(S)
         /\ Before(s, n + 1) = Before(s, n) \cup Elems(items)
         /\ items = << >> \/ n * PageSize + Len(items) >= Len(s) \/ (n + 1) * PageSize >= Len(s)
              => Before(s, n) \cup Elems(items) = Elems(s)
         /\ Before(s, 0) = {}
<1> DEFINE items == Page(s, n)
<1>1. PageSize \in Nat \ {0} /\ DOMAIN s = 1 .. Len(s) /\ Len(s) \in Nat
  BY DEF ReaderAssumption
<1>2. n * PageSize \in Nat /\ (n + 1) * PageSize = n * PageSize + PageSize /\ 0 * PageSize = 0
  BY <1>1
<1>3. PICK p \in Nat : p = n * PageSize
  BY <1>2
<1>4. items = SubSeq(s, p + 1, Minimum(p + PageSize, Len(s)))
  BY <1>2, <1>3 DEF Page
<1>5. /\ items \in Seq(S)
      /\ Elems(items) = {s[j] : j \in {i \in DOMAIN s : p < i /\ i <= p + PageSize}}
      /\ items = << >> \/ p + Len(items) >= Len(s) \/ p + PageSize >= Len(s) => \A i \in DOMAIN s : i <= p + PageSize
  <2> HIDE DEF items
  <2>1. PageSize \in Nat \ {0}
    BY <1>1
  <2>2. LET f == SubSeq(s, p + 1, Minimum(p + PageSize, Len(s))) IN
        /\ f \in Seq(S)
        /\ Elems(f) = {s[j] : j \in {i \in DOMAIN s : p < i /\ i <= p + PageSize}}
        /\ f = << >> \/ p + Len(f) >= Len(s) \/ p + PageSize >= Len(s) => \A i \in DOMAIN s : i <= p + PageSize
    BY <2>1, PageItems
  <2> QED BY <1>4, <2>2
<1> HIDE DEF items
<1>6. /\ Before(s, n) = {s[j] : j \in {i \in DOMAIN s : i <= p}}
      /\ Before(s, n + 1) = {s[j] : j \in {i \in DOMAIN s : i <= p + PageSize}}
  BY <1>2, <1>3 DEF Before
<1>7. \A i \in DOMAIN s : i <= p + PageSize <=> i <= p \/ (p < i /\ i <= p + PageSize)
  BY <1>1
<1>8. Before(s, n + 1) = Before(s, n) \cup Elems(items)
  BY <1>5, <1>6, <1>7
<1>9. (\A i \in DOMAIN s : i <= p + PageSize) => Before(s, n + 1) = Elems(s)
  BY <1>6 DEF Elems
<1>10. Before(s, 0) = {}
  BY <1>1, <1>2 DEF Before
<1> QED BY <1>2, <1>3, <1>5, <1>8, <1>9, <1>10 DEF items

-----------------------------------------------------------------------------
(* CatalogReader: what an observation delivers.                            *)

\* What BatchIsFaithful says of the batch it is about.
Faithful(b) ==
  /\ source.provider = "spotify" =>
       IdsOf(b) \in {EligibleRows(source.own), EligibleRows(source.own) \cup EligibleRows(source.guests)}
  /\ source.provider = "musicbrainz" => OwnIds \subseteq IdsOf(b)
  /\ \A id \in IdsOf(b) : FeaturedIn(b, id) <=> id \notin OwnIds
  /\ \/ \A id \in IdsOf(b) :
          IF source.provider = "spotify" THEN StreamCredits(id) \subseteq CreditsIn(b, id)
          ELSE IF source.provider = "itunes" THEN CreditsIn(b, id) = TrackCredits(id)
          ELSE CreditsIn(b, id) = RecordingCredits(id)
     \/ source.provider # "spotify" /\ \A i \in DOMAIN b : b[i].credits = {}

LEMMA BatchIsThat == BatchIsFaithful <=> Faithful(reading.releases)
BY DEF BatchIsFaithful, Faithful

LEMMA SourceStays ==
  ASSUME source' = source
  PROVE  /\ OwnIds' = OwnIds /\ Exact' = Exact
         /\ \A id : StreamCredits(id)' = StreamCredits(id)
         /\ \A id : TrackCredits(id)' = TrackCredits(id)
         /\ \A id : RecordingCredits(id)' = RecordingCredits(id)
<1>1. OwnIds' = OwnIds
  BY DEF OwnIds
<1>2. Exact' = Exact
  BY DEF Exact
<1>3. \A id : StreamCredits(id)' = StreamCredits(id)
  BY DEF StreamCredits
<1>4. \A id : TrackCredits(id)' = TrackCredits(id)
  BY DEF TrackCredits
<1>5. \A id : RecordingCredits(id)' = RecordingCredits(id)
  BY <1>1 DEF RecordingCredits
<1> QED BY <1>1, <1>2, <1>3, <1>4, <1>5

LEMMA BatchNext ==
  ASSUME source' = source, Faithful(reading'.releases)
  PROVE  BatchIsFaithful'
BY SourceStays DEF BatchIsFaithful, Faithful

\* What a catalogue is made of.
LEMMA CatalogueIsTyped ==
  ASSUME ReaderAssumption, source \in Catalogues
  PROVE  /\ source.provider \in {"spotify", "itunes", "musicbrainz"}
         /\ source.provider = "spotify" =>
              /\ source.own.rows \in Seq(StreamRows) /\ source.guests.rows \in Seq(StreamRows)
              /\ source.own.total \in Nat /\ Len(source.own.rows) <= source.own.total
              /\ source.guests.total \in Nat /\ Len(source.guests.rows) <= source.guests.total
         /\ source.provider = "itunes" =>
              source.rows \in Seq(CollectionRows) /\ source.tracks \in Seq(TrackRows)
         /\ source.provider = "musicbrainz" =>
              /\ source.own.rows \in Seq([id : Nat, date : Dates])
              /\ source.own.total \in Nat /\ Len(source.own.rows) <= source.own.total
              /\ source.recordings \in Seq(RecordingRows)
<1>1. CASE source \in OfSpotify
  BY <1>1 DEF ReaderAssumption, OfSpotify, SpotifyStreams, StreamRows
<1>2. CASE source \in OfITunes
  BY <1>2 DEF OfITunes, CollectionRows, TrackRows
<1>3. CASE source \in OfMusicBrainz
  BY <1>3 DEF ReaderAssumption, OfMusicBrainz, GroupLists, RecordingRows
<1> QED BY <1>1, <1>2, <1>3 DEF ReaderAssumption

LEMMA StreamIds ==
  ASSUME NEW d, NEW R, NEW featuredOnly, ReadAs(d, R, featuredOnly)
  PROVE  IdsOf(d) = {row.id : row \in {r \in R : r.eligible}}
<1>1. \A i \in DOMAIN d : \E row \in R : row.eligible /\ row.id = d[i].id
  BY DEF ReadAs
<1>2. \A row \in R : row.eligible => \E i \in DOMAIN d : d[i].id = row.id
  BY DEF ReadAs
<1>3. {d[i].id : i \in DOMAIN d} = {row.id : row \in {r \in R : r.eligible}}
  BY <1>1, <1>2
<1> QED BY <1>3 DEF IdsOf

\* Spotify: the first stream, with the appearances or without them.
LEMMA StreamsMakeABatch ==
  ASSUME ReaderAssumption, source \in Catalogues, source.provider = "spotify",
         NEW d \in Lists, ReadAs(d, Rows(source.own), FALSE), NEW e \in Lists, NEW G,
         WithGuests(e, Elems(d), G),
         G = {} \/ \E g \in Lists : G = Elems(g) /\ ReadAs(g, Rows(source.guests), TRUE)
  PROVE  Faithful(e)
<1>1. IdsOf(d) = EligibleRows(source.own)
  BY StreamIds DEF EligibleRows
<1>2. /\ {g.id : g \in G} = {} \/ {g.id : g \in G} = EligibleRows(source.guests)
      /\ \A g \in G : g.role = "featured"
  <2>1. CASE G = {}
    BY <2>1
  <2>2. CASE \E g \in Lists : G = Elems(g) /\ ReadAs(g, Rows(source.guests), TRUE)
    <3>1. PICK g \in Lists : G = Elems(g) /\ ReadAs(g, Rows(source.guests), TRUE)
      BY <2>2
    <3>2. IdsOf(g) = EligibleRows(source.guests)
      BY <3>1, StreamIds DEF EligibleRows
    <3>3. \A i \in DOMAIN g : g[i].role = "featured"
      BY <3>1 DEF ReadAs, RoleIn
    <3>4. {x.id : x \in G} = IdsOf(g)
      BY <3>1, WhatIsIn
    <3> QED BY <3>1, <3>2, <3>3, <3>4 DEF Elems
  <2> QED BY <2>1, <2>2
<1>3. IdsOf(d) = {x.id : x \in Elems(d)} /\ IdsOf(e) = {x.id : x \in Elems(e)}
  BY WhatIsIn
<1>4. IdsOf(e) = IdsOf(d) \cup {g.id : g \in G}
  BY <1>3 DEF WithGuests
<1>5. IdsOf(e) \in {EligibleRows(source.own), EligibleRows(source.own) \cup EligibleRows(source.guests)}
  BY <1>1, <1>2, <1>4
<1>6. ASSUME NEW x \in Elems(d)
      PROVE  x.role = "featured" <=> x.id \notin OwnIds
  <2>1. PICK i \in DOMAIN d : x = d[i]
    BY DEF Elems
  <2>2. /\ x.role \in {"primary", "featured"}
        /\ x.role = "primary" => \E row \in Rows(source.own) :
              row.eligible /\ row.id = x.id /\ RoleIn(row, FALSE) = "primary"
    BY <2>1 DEF ReadAs
  <2>3. ASSUME NEW row \in Rows(source.own), row.eligible, row.id = x.id, RoleIn(row, FALSE) = "primary"
        PROVE  x.role = "primary"
    <3>1. PICK j \in DOMAIN d : d[j].id = row.id /\ (RoleIn(row, FALSE) = "primary" => d[j].role = "primary")
      <4> DEFINE R == Rows(source.own)
      <4>1. /\ ReadAs(d, R, FALSE) /\ row \in R
        OBVIOUS
      <4> HIDE DEF R
      <4>2. \A r \in R : r.eligible =>
               \E j \in DOMAIN d : d[j].id = r.id /\ (RoleIn(r, FALSE) = "primary" => d[j].role = "primary")
        BY <4>1 DEF ReadAs
      <4> QED BY <2>3, <4>1, <4>2
    <3>2. d[j].role = "primary" /\ d[j].id = d[i].id
      BY <2>1, <2>3, <3>1
    <3>3. i = j
      BY <3>2 DEF ReadAs, Once
    <3> QED BY <2>1, <3>2, <3>3
  <2>4. x.id \in OwnIds <=> \E row \in Rows(source.own) :
          row.eligible /\ row.id = x.id /\ RoleIn(row, FALSE) = "primary"
    BY DEF OwnIds, RoleIn
  <2> QED BY <2>2, <2>3, <2>4
<1>7. OwnIds \subseteq IdsOf(d)
  BY <1>1 DEF OwnIds, EligibleRows
<1>8. ASSUME NEW id \in IdsOf(e)
      PROVE  FeaturedIn(e, id) <=> id \notin OwnIds
  <2>1. FeaturedIn(e, id) <=> \A y \in Elems(e) : y.id = id => y.role = "featured"
    BY WhatIsIn
  <2>2. PICK y \in Elems(e) : y.id = id
    BY <1>3
  <2>3. ASSUME NEW z \in Elems(e), z.id = id
        PROVE  z.role = "featured" <=> id \notin OwnIds
    <3>1. CASE \E x \in Elems(d) : x.id = z.id /\ x.role = z.role
      BY <1>6, <2>3, <3>1
    <3>2. CASE (\A x \in Elems(d) : x.id # z.id) /\ \E g \in G : g.id = z.id /\ g.role = z.role
      BY <1>2, <1>3, <1>7, <2>3, <3>2
    <3> QED BY <3>1, <3>2 DEF WithGuests
  <2> QED BY <2>1, <2>2, <2>3
<1>9. ASSUME NEW id \in IdsOf(e)
      PROVE  StreamCredits(id) \subseteq CreditsIn(e, id)
  <2>1. CreditsIn(e, id) = UNION {y.credits : y \in {z \in Elems(e) : z.id = id}}
    BY WhatIsIn
  <2>2. SUFFICES ASSUME NEW row \in Rows(source.own), row.eligible, row.id = id
                 PROVE  <<id, RoleIn(row, FALSE)>> \in CreditsIn(e, id)
    BY DEF StreamCredits, RoleIn
  <2>3. PICK i \in DOMAIN d : d[i].id = id /\ <<id, RoleIn(row, FALSE)>> \in d[i].credits
    BY <2>2 DEF ReadAs
  <2>4. PICK y \in Elems(e) : y.id = id /\ d[i].credits \subseteq y.credits
    BY <2>3 DEF WithGuests, Elems
  <2> QED BY <2>1, <2>3, <2>4
<1> QED BY <1>5, <1>8, <1>9 DEF Faithful

\* iTunes and MusicBrainz: what was looked up, with what credits a guest.
LEMMA CreditsMakeABatch ==
  ASSUME NEW d \in Lists, Bare(d), NEW c \in Lists, \A y \in Elems(c) : y.role = "featured"
  PROVE  LET b == d \o c IN
         /\ b \in Lists /\ IdsOf(d) \subseteq IdsOf(b)
         /\ \A id \in IdsOf(b) : FeaturedIn(b, id) <=> id \notin IdsOf(d)
         /\ \A id : CreditsIn(b, id) = CreditsIn(c, id)
<1> DEFINE b == d \o c
<1>1. b \in Lists /\ Elems(b) = Elems(d) \cup Elems(c)
  BY WhatGoesIn DEF Lists
<1> HIDE DEF b
<1>2. /\ IdsOf(d) = {x.id : x \in Elems(d)} /\ IdsOf(b) = {x.id : x \in Elems(b)}
      /\ \A x \in Elems(d) : x.role = "" /\ x.credits = {}
  BY WhatIsIn
<1>3. ASSUME NEW id \in IdsOf(b)
      PROVE  FeaturedIn(b, id) <=> id \notin IdsOf(d)
  <2>1. FeaturedIn(b, id) <=> \A y \in Elems(b) : y.id = id => y.role = "featured"
    BY WhatIsIn
  <2> QED BY <1>1, <1>2, <2>1
<1>4. ASSUME NEW id
      PROVE  CreditsIn(b, id) = CreditsIn(c, id)
  <2>1. /\ CreditsIn(b, id) = UNION {x.credits : x \in {y \in Elems(b) : y.id = id}}
        /\ CreditsIn(c, id) = UNION {x.credits : x \in {y \in Elems(c) : y.id = id}}
    BY WhatIsIn
  <2>2. ASSUME NEW x \in Elems(b), x.id = id, NEW z \in x.credits
        PROVE  x \in Elems(c)
    BY <1>1, <1>2, <2>2
  <2>3. Elems(c) \subseteq Elems(b)
    BY <1>1
  <2> QED BY <2>1, <2>2, <2>3
<1>5. IdsOf(d) \subseteq IdsOf(b)
  BY <1>1, <1>2
<1> QED BY <1>1, <1>3, <1>4, <1>5 DEF b

LEMMA LookupMakesABatch ==
  ASSUME ReaderAssumption, source \in Catalogues, source.provider = "itunes",
         NEW d \in Lists, Bare(d), IdsOf(d) = OwnIds
  PROVE  /\ Faithful(d)
         /\ d \o ITunesCredits(d, source.tracks) \in Lists
         /\ Faithful(d \o ITunesCredits(d, source.tracks))
<1> DEFINE c == ITunesCredits(d, source.tracks)
           b == d \o c
<1>1. source.tracks \in Seq(TrackRows)
  BY CatalogueIsTyped
<1>2. c \in Lists /\ CreditedTracks(Elems(c), Elems(source.tracks))
  BY <1>1, TracksCredited
<1> HIDE DEF c
<1>3. \A y \in Elems(c) : y.role = "featured"
  BY <1>2 DEF CreditedTracks
<1>4. /\ b \in Lists
      /\ \A id \in IdsOf(b) : FeaturedIn(b, id) <=> id \notin OwnIds
      /\ \A id : CreditsIn(b, id) = CreditsIn(c, id)
  BY <1>2, <1>3, CreditsMakeABatch
<1> HIDE DEF b
<1>5. ASSUME NEW id
      PROVE  CreditsIn(c, id) = TrackCredits(id)
  <2>1. CreditsIn(c, id) = UNION {x.credits : x \in {y \in Elems(c) : y.id = id}}
    BY WhatIsIn
  <2>2. TrackCredits(id) = {<<t.id, "guest">> : t \in {u \in Elems(source.tracks) : u.credited /\ u.collection = id}}
    BY DEF TrackCredits, Elems
  <2>3. ASSUME NEW y \in Elems(c), y.id = id, NEW z \in y.credits
        PROVE  z \in TrackCredits(id)
    BY <1>2, <2>2, <2>3 DEF CreditedTracks
  <2>4. ASSUME NEW t \in Elems(source.tracks), t.credited, t.collection = id
        PROVE  <<t.id, "guest">> \in CreditsIn(c, id)
    BY <1>2, <2>1, <2>4 DEF CreditedTracks
  <2> QED BY <2>1, <2>2, <2>3, <2>4
<1>6. Faithful(b)
  BY <1>4, <1>5 DEF Faithful
<1>7. Faithful(d)
  <2>1. ASSUME NEW id \in IdsOf(d)
        PROVE  ~FeaturedIn(d, id)
    BY DEF IdsOf, FeaturedIn, Bare
  <2>2. \A i \in DOMAIN d : d[i].credits = {}
    BY DEF Bare
  <2> QED BY <2>1, <2>2 DEF Faithful
<1> QED BY <1>4, <1>6, <1>7 DEF b, c

LEMMA GroupsMakeABatch ==
  ASSUME ReaderAssumption, source \in Catalogues, source.provider = "musicbrainz",
         NEW d \in Seq(DatedReleased), Bare(d), IdsOf(d) = OwnIds
  PROVE  /\ Faithful(d)
         /\ d \o MusicBrainzCredits(d, source.recordings) \in Lists
         /\ Faithful(d \o MusicBrainzCredits(d, source.recordings))
<1> DEFINE c == MusicBrainzCredits(d, source.recordings)
           b == d \o c
           P == UNION {Pairs(r) : r \in Elems(source.recordings)}
<1>0. d \in Lists
  <2>1. DatedReleased \subseteq ReleaseRecords
    BY DEF ReleaseRecords
  <2> QED BY <2>1, SeqMonotonic DEF Lists
<1>1. source.recordings \in Seq(RecordingRows)
  BY CatalogueIsTyped
<1>2. c \in Lists /\ CreditedGroups(Elems(c), OwnIds, P)
  BY <1>1, RecordingsCredited
<1> HIDE DEF c
<1>3. \A y \in Elems(c) : y.role = "featured"
  BY <1>2 DEF CreditedGroups
<1>4. /\ b \in Lists /\ OwnIds \subseteq IdsOf(b)
      /\ \A id \in IdsOf(b) : FeaturedIn(b, id) <=> id \notin OwnIds
      /\ \A id : CreditsIn(b, id) = CreditsIn(c, id)
  BY <1>0, <1>2, <1>3, CreditsMakeABatch
<1> HIDE DEF b
<1>5. ASSUME NEW r \in Elems(source.recordings), NEW id
      PROVE  <<r, id>> \in Pairs(r) <=> r.credited /\ Contains(GroupsOf(r), id)
  <2>1. r \in RecordingRows
    BY <1>1, WhatGoesIn
  <2>2. DOMAIN GroupsOf(r) = 1 .. Len(GroupsOf(r))
    BY <2>1, GroupsAreNumbers
  <2>3. id \in Elems(GroupsOf(r)) <=> Contains(GroupsOf(r), id)
    BY <2>2 DEF Elems, Contains
  <2> QED BY <2>3 DEF Pairs
<1>6. ASSUME NEW p \in P
      PROVE  p = <<p[1], p[2]>> /\ p[1] \in Elems(source.recordings) /\ p \in Pairs(p[1])
  BY DEF Pairs
<1>7. ASSUME NEW id
      PROVE  CreditsIn(c, id) = RecordingCredits(id)
  <2>1. CreditsIn(c, id) = UNION {x.credits : x \in {y \in Elems(c) : y.id = id}}
    BY WhatIsIn
  <2>2. RecordingCredits(id) = {<<r.id, "guest">> : r \in {s \in Elems(source.recordings) :
                                   s.credited /\ Contains(GroupsOf(s), id) /\ IsShown(OwnIds, <<s, id>>)}}
    BY DEF RecordingCredits, Elems, IsShown
  <2>3. ASSUME NEW y \in Elems(c), y.id = id, NEW z \in y.credits
        PROVE  z \in RecordingCredits(id)
    <3>1. PICK p \in P : IsShown(OwnIds, p) /\ y.id = p[2] /\ y.credits = {<<p[1].id, "guest">>}
      BY <1>2 DEF CreditedGroups
    <3> HIDE DEF P
    <3>2. p = <<p[1], id>> /\ p[1] \in Elems(source.recordings) /\ p \in Pairs(p[1])
      BY <1>6, <2>3, <3>1
    <3>3. p[1].credited /\ Contains(GroupsOf(p[1]), id)
      BY <1>5, <3>2
    <3>4. z = <<p[1].id, "guest">> /\ IsShown(OwnIds, <<p[1], id>>)
      BY <2>3, <3>1, <3>2
    <3> QED BY <2>2, <3>2, <3>3, <3>4
  <2>4. ASSUME NEW r \in Elems(source.recordings), r.credited, Contains(GroupsOf(r), id), IsShown(OwnIds, <<r, id>>)
        PROVE  <<r.id, "guest">> \in CreditsIn(c, id)
    <3> DEFINE p == <<r, id>>
    <3>1. p \in P /\ p[1] = r /\ p[2] = id
      BY <1>5, <2>4
    <3>2. IsShown(OwnIds, p)
      BY <2>4
    <3> HIDE DEF p, P
    <3>3. PICK y \in Elems(c) : y.id = p[2] /\ <<p[1].id, "guest">> \in y.credits
      BY <1>2, <3>1, <3>2 DEF CreditedGroups
    <3> QED BY <2>1, <3>1, <3>3
  <2>5. CreditsIn(c, id) \subseteq RecordingCredits(id)
    BY <2>1, <2>3
  <2>6. RecordingCredits(id) \subseteq CreditsIn(c, id)
    BY <2>2, <2>4
  <2> QED BY <2>5, <2>6
<1>8. Faithful(b)
  BY <1>4, <1>7 DEF Faithful
<1>9. Faithful(d)
  <2>1. ASSUME NEW id \in IdsOf(d)
        PROVE  ~FeaturedIn(d, id)
    BY DEF IdsOf, FeaturedIn, Bare
  <2>2. \A i \in DOMAIN d : d[i].credits = {}
    BY DEF Bare
  <2> QED BY <2>1, <2>2 DEF Faithful
<1> QED BY <1>4, <1>8, <1>9 DEF b, c

-----------------------------------------------------------------------------
(* CatalogReader: the invariant.                                           *)

LEMMA OnceCounts ==
  ASSUME NEW T, NEW e \in Seq(T), Once(e)
  PROVE  Cardinality(IdsOf(e)) = Len(e)
<1> DEFINE f == [i \in 1 .. Len(e) |-> e[i].id]
<1>1. Len(e) \in Nat /\ DOMAIN e = 1 .. Len(e)
  OBVIOUS
<1>2. IdsOf(e) = {e[i].id : i \in 1 .. Len(e)}
  BY <1>1 DEF IdsOf
<1>3. f \in [1 .. Len(e) -> IdsOf(e)] /\ \A t \in IdsOf(e) : \E i \in 1 .. Len(e) : f[i] = t
  BY <1>2
<1>4. \A i, j \in 1 .. Len(e) : f[i] = f[j] => i = j
  BY <1>1 DEF Once
<1>5. DOMAIN f = 1 .. Len(e)
  OBVIOUS
<1> HIDE DEF f
<1>6. f \in Bijection(1 .. Len(e), IdsOf(e))
  BY <1>3, <1>4, <1>5 DEF Bijection, Injection, Surjection, IsInjective
<1> QED BY <1>1, <1>6, FS_CountingElements DEF ExistsBijection

LEMMA ExactCounts ==
  ASSUME ReaderAssumption, source \in Catalogues, source.provider = "itunes"
  PROVE  Cardinality(Exact) = 1 \/ Exact = {} \/ Cardinality(Exact) > 1
<1> DEFINE s == source.found
           J == {j \in DOMAIN s : s[j].exact}
           f == [j \in J |-> s[j].id]
<1>1. source \in OfITunes
  BY DEF ReaderAssumption, OfSpotify, OfITunes, OfMusicBrainz
<1>2. s \in Seq([id : Nat, exact : BOOLEAN])
  BY <1>1 DEF OfITunes
<1>3. DOMAIN s = 1 .. Len(s) /\ Len(s) \in Nat
  BY <1>2
<1>4. IsFiniteSet(J)
  <2>1. IsFiniteSet(DOMAIN s)
    <3>1. IsFiniteSet(1 .. Len(s))
      <4> HIDE DEF s
      <4>1. 1 \in Int /\ Len(s) \in Int
        BY <1>3
      <4> QED BY <4>1, FS_Interval
    <3> QED BY <1>3, <3>1
  <2>2. J \in SUBSET (DOMAIN s)
    OBVIOUS
  <2> HIDE DEF J, s
  <2> QED BY <2>1, <2>2, FS_Subset
<1>5. Exact = {s[j].id : j \in J}
  BY DEF Exact
<1>6. f \in Surjection(J, Exact)
  BY <1>5 DEF Surjection
<1>7. IsFiniteSet(Exact)
  <2> HIDE DEF J, f
  <2> QED BY <1>4, <1>6, FS_Surjection
<1>8. Cardinality(Exact) \in Nat /\ (Cardinality(Exact) = 0 => Exact = {})
  BY <1>7, FS_CardinalityType, FS_EmptySet
<1> QED BY <1>8

ReadingStates ==
  [at : {"resolve", "lookup", "primary", "guests", "credits", "normalize", "done"}, page : Nat,
   releases : Seq(ReleaseRecords), guests : Seq(ReleaseRecords),
   answer : {"none", "whole", "partial", "failed", "limit", "not_found", "ambiguous"}]

LEMMA NothingIsLess ==
  ASSUME NEW featuredOnly
  PROVE  ReadAs(<< >>, {}, featuredOnly)
BY DEF ReadAs, Once

\* At first nothing is read.
LEMMA ReaderIInvAtFirst ==
  ASSUME ReaderAssumption, ReaderInit
  PROVE  ReaderIInv
<1>1. /\ source \in Catalogues
      /\ reading = [at |-> IF source.provider = "itunes" THEN "resolve" ELSE "primary",
                    page |-> 0, releases |-> << >>, guests |-> << >>, answer |-> "none"]
  BY DEF ReaderInit, Start
<1>2. << >> \in Seq(ReleaseRecords) /\ << >> \in Seq(DatedReleased)
  BY EmptySeq
<1>3. reading \in ReadingStates
  BY <1>1, <1>2 DEF ReadingStates
<1>4. /\ reading.at = IF source.provider = "itunes" THEN "resolve" ELSE "primary"
      /\ reading.page = 0 /\ reading.releases = << >> /\ reading.guests = << >> /\ reading.answer = "none"
  BY <1>1
<1>5. source.provider \in {"spotify", "itunes", "musicbrainz"}
  BY <1>1, CatalogueIsTyped
<1>6. ASSUME NEW s, NEW S, s.rows \in Seq(S)
      PROVE  ReadRows(s) = {}
  <2>1. ReadRows(s) = Before(s.rows, 0)
    BY <1>4 DEF ReadRows, Before
  <2> QED BY <1>6, <2>1, PageTurned
<1>7. source.provider = "spotify" => StreamsAreRead
  <2>1. ASSUME source.provider = "spotify"
        PROVE  ReadRows(source.own) = {}
    BY <1>1, <1>6, <2>1, CatalogueIsTyped
  <2> QED BY <1>4, <2>1, NothingIsLess DEF StreamsAreRead, IsAt
<1>8. source.provider = "itunes" => LookupIsRead
  BY <1>4 DEF LookupIsRead, IsAt
<1>9. source.provider = "musicbrainz" => GroupsAreRead
  <2>1. ASSUME source.provider = "musicbrainz"
        PROVE  ReadRows(source.own) = {}
    BY <1>1, <1>6, <2>1, CatalogueIsTyped
  <2>2. Bare(<< >>) /\ IdsOf(<< >>) = {}
    BY DEF Bare, IdsOf
  <2>3. {row.id : row \in {}} = {}
    OBVIOUS
  <2> QED BY <1>2, <1>4, <2>1, <2>2, <2>3 DEF GroupsAreRead, IsAt
<1>10. reading.at # "done" /\ reading.at # "normalize"
  BY <1>4
<1>11. ObservationIsFaithful
  BY <1>10 DEF ObservationIsFaithful, WholeOrRefused, OwnReleasesOutrankGuests, CreditsAreKept,
       NoForeignDiscography, Delivered, Observed
<1> QED BY <1>1, <1>3, <1>4, <1>7, <1>8, <1>9, <1>10, <1>11 DEF ReaderIInv, IsAt, ReadingStates

\* An observation that goes on.
LEMMA GoesOn ==
  ASSUME ReaderIInv, source' = source, reading' \in ReadingStates, reading'.at # "done",
         reading'.answer \in {"none", "partial"},
         source.provider = "spotify" => StreamsAreRead',
         source.provider = "itunes" => LookupIsRead',
         source.provider = "musicbrainz" => GroupsAreRead',
         reading'.at = "normalize" => Faithful(reading'.releases)
  PROVE  ReaderIInv'
<1>1. IsAt({"normalize"})' => BatchIsFaithful'
  BY BatchNext DEF IsAt
<1>2. ObservationIsFaithful'
  BY DEF ObservationIsFaithful, WholeOrRefused, OwnReleasesOutrankGuests, CreditsAreKept,
       NoForeignDiscography, Delivered, Observed
<1> QED BY <1>1, <1>2 DEF ReaderIInv, ReadingStates

\* An observation that is given up.
LEMMA GivesUp ==
  ASSUME ReaderIInv, source' = source, NEW why \in {"failed", "limit", "not_found", "ambiguous"}, Fail(why)
  PROVE  ReaderIInv'
<1>1. reading \in ReadingStates /\ source \in Catalogues
  BY DEF ReaderIInv, ReadingStates
<1>2. /\ reading' \in ReadingStates /\ reading'.at = "done" /\ reading'.answer = why
      /\ reading'.releases = << >>
  BY <1>1, EmptySeq DEF Fail, ReadingStates
<1>3. StreamsAreRead' /\ LookupIsRead' /\ GroupsAreRead'
  BY <1>2 DEF StreamsAreRead, LookupIsRead, GroupsAreRead, IsAt
<1>4. ObservationIsFaithful'
  BY <1>2 DEF ObservationIsFaithful, WholeOrRefused, OwnReleasesOutrankGuests, CreditsAreKept,
       NoForeignDiscography, Delivered, Observed
<1> QED BY <1>1, <1>2, <1>3, <1>4 DEF ReaderIInv, ReadingStates, IsAt

\* Which provider's observation it is, by where it is.
LEMMA StagesTell ==
  ASSUME ReaderAssumption, ReaderIInv
  PROVE  /\ source \in Catalogues /\ reading \in ReadingStates
         /\ reading.at \in {"resolve", "lookup"} => source.provider = "itunes"
         /\ reading.at # "done" => reading.answer \in {"none", "partial"}
         /\ reading.at # "done" /\ source.provider # "itunes" => reading.answer = "none"
<1>1. source \in Catalogues /\ reading \in ReadingStates
  BY DEF ReaderIInv, ReadingStates
<1>2. source.provider \in {"spotify", "itunes", "musicbrainz"}
  BY <1>1, CatalogueIsTyped
<1> QED BY <1>1, <1>2 DEF ReaderIInv, StreamsAreRead, GroupsAreRead, IsAt

\* A page of a stream of Spotify.
LEMMA StreamTurned ==
  ASSUME ReaderAssumption, NEW c, c.rows \in Seq(StreamRows), c.total \in Nat, Len(c.rows) <= c.total,
         NEW n \in Nat, NEW d \in Lists, NEW featuredOnly, ReadAs(d, Before(c.rows, n), featuredOnly)
  PROVE  LET e == AppendSpotifyPage(d, Page(c.rows, n), featuredOnly) IN
         /\ e \in Lists
         /\ AfterPage(c, n) = "complete" => ReadAs(e, Rows(c), featuredOnly)
         /\ ReadAs(e, Before(c.rows, n + 1), featuredOnly)
         /\ AfterPage(c, n) \in {"limit", "complete", "more"}
<1> DEFINE items == Page(c.rows, n)
           e == AppendSpotifyPage(d, items, featuredOnly)
<1>1. /\ items \in Seq(StreamRows)
      /\ Before(c.rows, n + 1) = Before(c.rows, n) \cup Elems(items)
      /\ items = << >> \/ n * PageSize + Len(items) >= Len(c.rows) \/ (n + 1) * PageSize >= Len(c.rows)
           => Before(c.rows, n) \cup Elems(items) = Elems(c.rows)
  <2> DEFINE s == c.rows
  <2>1. s \in Seq(StreamRows)
    OBVIOUS
  <2> HIDE DEF s, items
  <2>2. LET i == Page(s, n) IN
        /\ i \in Seq(StreamRows)
        /\ Before(s, n + 1) = Before(s, n) \cup Elems(i)
        /\ i = << >> \/ n * PageSize + Len(i) >= Len(s) \/ (n + 1) * PageSize >= Len(s)
             => Before(s, n) \cup Elems(i) = Elems(s)
        /\ Before(s, 0) = {}
    BY <2>1, PageTurned
  <2> QED BY <2>2 DEF s, items
<1>2. Elems(c.rows) = Rows(c)
  BY DEF Elems, Rows
<1>3. n * PageSize + Len(items) \in Nat /\ Len(c.rows) \in Nat
  BY <1>1 DEF ReaderAssumption
<1>4. AfterPage(c, n) = "complete" => items = << >> \/ n * PageSize + Len(items) >= c.total
  BY DEF AfterPage
<1>5. AfterPage(c, n) \in {"limit", "complete", "more"}
  BY DEF AfterPage
<1>6. AfterPage(c, n) = "complete" => Before(c.rows, n) \cup Elems(items) = Rows(c)
  <2>1. \A a \in Nat : a >= c.total => a >= Len(c.rows)
    BY <1>3
  <2> HIDE DEF items
  <2> QED BY <1>1, <1>2, <1>3, <1>4, <2>1
<1> HIDE DEF items
<1>7. e \in Lists /\ ReadAs(e, Before(c.rows, n) \cup Elems(items), featuredOnly)
  BY <1>1, StreamPage DEF Elems
<1> QED BY <1>1, <1>5, <1>6, <1>7 DEF items

-----------------------------------------------------------------------------
(* CatalogReader: the steps.                                               *)

LEMMA RequestFailsKeeps ==
  ASSUME ReaderAssumption, ReaderIInv, RequestFails
  PROVE  ReaderIInv'
BY GivesUp DEF RequestFails

LEMMA PrimaryPageKeeps ==
  ASSUME ReaderAssumption, ReaderIInv, FetchPrimaryPage
  PROVE  ReaderIInv'
<1> DEFINE after == AfterPage(source.own, reading.page)
           more == AppendSpotifyPage(reading.releases, Page(source.own.rows, reading.page), FALSE)
<1>1. /\ reading.at = "primary" /\ source' = source /\ source.provider = "spotify"
      /\ source \in Catalogues /\ reading \in ReadingStates /\ reading.answer = "none"
  BY StagesTell DEF FetchPrimaryPage, Ask
<1>2. /\ source.own.rows \in Seq(StreamRows) /\ source.own.total \in Nat
      /\ Len(source.own.rows) <= source.own.total /\ source.guests.rows \in Seq(StreamRows)
  BY <1>1, CatalogueIsTyped
<1>3. /\ reading.page \in Nat /\ reading.releases \in Lists /\ reading.guests = << >>
      /\ ReadAs(reading.releases, Before(source.own.rows, reading.page), FALSE)
  BY <1>1 DEF ReaderIInv, StreamsAreRead, IsAt, ReadRows, Before, ReadingStates, Lists
<1>4. /\ more \in Lists
      /\ after = "complete" => ReadAs(more, Rows(source.own), FALSE)
      /\ ReadAs(more, Before(source.own.rows, reading.page + 1), FALSE)
      /\ after \in {"limit", "complete", "more"}
  <2> DEFINE c == source.own
  <2>1. c.rows \in Seq(StreamRows) /\ c.total \in Nat /\ Len(c.rows) <= c.total
        /\ ReadAs(reading.releases, Before(c.rows, reading.page), FALSE)
    BY <1>2, <1>3
  <2> HIDE DEF c
  <2>2. LET e == AppendSpotifyPage(reading.releases, Page(c.rows, reading.page), FALSE) IN
        /\ e \in Lists
        /\ AfterPage(c, reading.page) = "complete" => ReadAs(e, Rows(c), FALSE)
        /\ ReadAs(e, Before(c.rows, reading.page + 1), FALSE)
        /\ AfterPage(c, reading.page) \in {"limit", "complete", "more"}
    BY <1>3, <2>1, StreamTurned
  <2> QED BY <2>2 DEF c
<1>5. \/ after = "limit" /\ Fail("limit")
      \/ after = "complete" /\ reading' = [reading EXCEPT !.at = "guests", !.page = 0, !.releases = more]
      \/ after = "more" /\ reading' = [reading EXCEPT !.page = @ + 1, !.releases = more]
  BY <1>4 DEF FetchPrimaryPage, Read
<1> HIDE DEF after, more
<1>6. CASE after = "limit" /\ Fail("limit")
  BY <1>1, <1>6, GivesUp
<1>7. CASE after = "complete" /\ reading' = [reading EXCEPT !.at = "guests", !.page = 0, !.releases = more]
  <2>1. /\ reading' \in ReadingStates /\ reading'.at = "guests" /\ reading'.page = 0
        /\ reading'.releases = more /\ reading'.guests = << >> /\ reading'.answer = "none"
    BY <1>1, <1>3, <1>4, <1>7 DEF ReadingStates, Lists
  <2>2. Before(source.guests.rows, 0) = {}
    BY <1>2, PageTurned
  <2>3. ReadRows(source.guests)' = {}
    BY <1>1, <2>1, <2>2 DEF ReadRows, Before
  <2>4. ReadAs(reading'.releases, Rows(source'.own), FALSE)
    BY <1>1, <1>4, <1>7, <2>1
  <2>5. ReadAs(reading'.guests, ReadRows(source.guests)', TRUE)
    BY <2>1, <2>3, NothingIsLess
  <2>6. StreamsAreRead'
    BY <2>1, <2>4, <2>5 DEF StreamsAreRead, IsAt
  <2> QED BY <1>1, <2>1, <2>6, GoesOn
<1>8. CASE after = "more" /\ reading' = [reading EXCEPT !.page = @ + 1, !.releases = more]
  <2>1. /\ reading' \in ReadingStates /\ reading'.at = "primary" /\ reading'.page = reading.page + 1
        /\ reading'.releases = more /\ reading'.guests = << >> /\ reading'.answer = "none"
    <3>1. reading.page + 1 \in Nat
      BY <1>3
    <3> QED BY <1>1, <1>3, <1>4, <1>8, <3>1 DEF ReadingStates, Lists
  <2>2. ReadRows(source.own)' = Before(source.own.rows, reading.page + 1)
    BY <1>1, <2>1 DEF ReadRows, Before
  <2>3. StreamsAreRead'
    BY <1>4, <2>1, <2>2 DEF StreamsAreRead, IsAt
  <2> QED BY <1>1, <2>1, <2>3, GoesOn
<1> QED BY <1>5, <1>6, <1>7, <1>8

LEMMA GuestPageKeeps ==
  ASSUME ReaderAssumption, ReaderIInv, FetchGuestPage
  PROVE  ReaderIInv'
<1> DEFINE after == AfterPage(source.guests, reading.page)
           more == AppendSpotifyPage(reading.guests, Page(source.guests.rows, reading.page), TRUE)
           d == reading.releases
<1>1. /\ reading.at = "guests" /\ source' = source /\ source.provider = "spotify"
      /\ source \in Catalogues /\ reading \in ReadingStates /\ reading.answer = "none"
  BY StagesTell DEF FetchGuestPage, Ask
<1>2. /\ source.guests.rows \in Seq(StreamRows) /\ source.guests.total \in Nat
      /\ Len(source.guests.rows) <= source.guests.total
  BY <1>1, CatalogueIsTyped
<1>3. /\ reading.page \in Nat /\ d \in Lists /\ reading.guests \in Lists
      /\ ReadAs(d, Rows(source.own), FALSE)
      /\ ReadAs(reading.guests, Before(source.guests.rows, reading.page), TRUE)
  BY <1>1 DEF ReaderIInv, StreamsAreRead, IsAt, ReadRows, Before, ReadingStates, Lists
<1>4. /\ more \in Lists
      /\ after = "complete" => ReadAs(more, Rows(source.guests), TRUE)
      /\ ReadAs(more, Before(source.guests.rows, reading.page + 1), TRUE)
      /\ after \in {"limit", "complete", "more"}
  <2> DEFINE c == source.guests
  <2>1. c.rows \in Seq(StreamRows) /\ c.total \in Nat /\ Len(c.rows) <= c.total
        /\ ReadAs(reading.guests, Before(c.rows, reading.page), TRUE)
    BY <1>2, <1>3
  <2> HIDE DEF c
  <2>2. LET e == AppendSpotifyPage(reading.guests, Page(c.rows, reading.page), TRUE) IN
        /\ e \in Lists
        /\ AfterPage(c, reading.page) = "complete" => ReadAs(e, Rows(c), TRUE)
        /\ ReadAs(e, Before(c.rows, reading.page + 1), TRUE)
        /\ AfterPage(c, reading.page) \in {"limit", "complete", "more"}
    BY <1>3, <2>1, StreamTurned
  <2> QED BY <2>2 DEF c
<1>5. \/ after = "limit" /\ reading' = [reading EXCEPT !.at = "normalize"]
      \/ after = "complete" /\ reading' = [reading EXCEPT !.at = "normalize", !.releases = MergeAppearances(@, more)]
      \/ after = "more" /\ reading' = [reading EXCEPT !.page = @ + 1, !.guests = more]
  BY <1>4 DEF FetchGuestPage, Read
<1> HIDE DEF after, more
<1>6. CASE after = "limit" /\ reading' = [reading EXCEPT !.at = "normalize"]
  <2>1. /\ reading' \in ReadingStates /\ reading'.at = "normalize" /\ reading'.releases = d
        /\ reading'.answer = "none"
    BY <1>1, <1>6 DEF ReadingStates
  <2>2. WithGuests(d, Elems(d), {})
    BY DEF WithGuests
  <2>3. Faithful(d)
    BY <1>1, <1>3, <2>2, StreamsMakeABatch
  <2>4. StreamsAreRead'
    BY <2>1 DEF StreamsAreRead, IsAt
  <2> QED BY <1>1, <2>1, <2>3, <2>4, GoesOn
<1>7. CASE after = "complete" /\ reading' = [reading EXCEPT !.at = "normalize", !.releases = MergeAppearances(@, more)]
  <2> DEFINE e == MergeAppearances(d, more)
  <2>1. e \in Lists /\ WithGuests(e, Elems(d), Elems(more))
    BY <1>3, <1>4, AppearancesMerged
  <2>2. reading' = [reading EXCEPT !.at = "normalize", !.releases = e]
    BY <1>7
  <2> HIDE DEF e
  <2>3. /\ reading' \in ReadingStates /\ reading'.at = "normalize" /\ reading'.releases = e
        /\ reading'.answer = "none"
    BY <1>1, <2>1, <2>2 DEF ReadingStates, Lists
  <2>4. Faithful(e)
    <3>1. \E g \in Lists : Elems(more) = Elems(g) /\ ReadAs(g, Rows(source.guests), TRUE)
      BY <1>4, <1>7
    <3> QED BY <1>1, <1>3, <2>1, <3>1, StreamsMakeABatch
  <2>5. StreamsAreRead'
    BY <2>3 DEF StreamsAreRead, IsAt
  <2> QED BY <1>1, <2>3, <2>4, <2>5, GoesOn
<1>8. CASE after = "more" /\ reading' = [reading EXCEPT !.page = @ + 1, !.guests = more]
  <2>1. /\ reading' \in ReadingStates /\ reading'.at = "guests" /\ reading'.page = reading.page + 1
        /\ reading'.releases = d /\ reading'.guests = more /\ reading'.answer = "none"
    <3>1. reading.page + 1 \in Nat
      BY <1>3
    <3> QED BY <1>1, <1>3, <1>4, <1>8, <3>1 DEF ReadingStates, Lists
  <2>2. ReadRows(source.guests)' = Before(source.guests.rows, reading.page + 1)
    BY <1>1, <2>1 DEF ReadRows, Before
  <2>3. ReadAs(reading'.releases, Rows(source'.own), FALSE)
    BY <1>1, <1>3, <2>1
  <2>4. StreamsAreRead'
    BY <1>4, <2>1, <2>2, <2>3 DEF StreamsAreRead, IsAt
  <2> QED BY <1>1, <2>1, <2>4, GoesOn
<1> QED BY <1>5, <1>6, <1>7, <1>8

LEMMA ResolveKeeps ==
  ASSUME ReaderAssumption, ReaderIInv, ResolveExactArtist
  PROVE  ReaderIInv'
<1>1. /\ reading.at = "resolve" /\ source' = source /\ source.provider = "itunes"
      /\ source \in Catalogues /\ reading \in ReadingStates /\ reading.answer \in {"none", "partial"}
  BY StagesTell DEF ResolveExactArtist, Ask
<1>2. \/ reading' = [reading EXCEPT !.at = "lookup"] /\ (source.known # 0 \/ Cardinality(Exact) = 1)
      \/ Fail("not_found") \/ Fail("ambiguous")
  BY <1>1, ExactCounts DEF ResolveExactArtist, Read
<1>3. CASE reading' = [reading EXCEPT !.at = "lookup"] /\ (source.known # 0 \/ Cardinality(Exact) = 1)
  <2>1. /\ reading' \in ReadingStates /\ reading'.at = "lookup" /\ reading'.answer = reading.answer
    BY <1>1, <1>3 DEF ReadingStates
  <2>2. LookupIsRead'
    BY <1>1, <1>3, <2>1, SourceStays DEF LookupIsRead, IsAt
  <2> QED BY <1>1, <2>1, <2>2, GoesOn
<1> QED BY <1>1, <1>2, <1>3, GivesUp

LEMMA LookupKeeps ==
  ASSUME ReaderAssumption, ReaderIInv, ArtistReleasesByID
  PROVE  ReaderIInv'
<1> DEFINE foreign == \E i \in DOMAIN source.rows : source.rows[i].kind = "artist" /\ source.rows[i].owner = "other"
           full == Len(SelectSeq(source.rows, LAMBDA row : row.kind = "collection")) >= CollectionLimit
           d == KeepCollections(source.rows)
<1>1. /\ reading.at = "lookup" /\ source' = source /\ source.provider = "itunes"
      /\ source \in Catalogues /\ reading \in ReadingStates /\ reading.answer \in {"none", "partial"}
  BY StagesTell DEF ArtistReleasesByID, Ask
<1>2. \/ foreign /\ Fail("ambiguous")
      \/ ~foreign /\ reading' = [reading EXCEPT !.at = "credits", !.releases = d,
                                   !.answer = IF full THEN "partial" ELSE @]
  BY DEF ArtistReleasesByID, Read
<1>3. d \in Lists /\ Bare(d) /\ IdsOf(d) = OwnIds
  <2>1. source.rows \in Seq(CollectionRows)
    BY <1>1, CatalogueIsTyped
  <2>2. IdsOf(d) = {source.rows[i].id : i \in {j \in DOMAIN source.rows : Usable(source.rows[j])}}
    BY <2>1, CollectionsKept
  <2>3. d \in Lists /\ Bare(d)
    BY <2>1, CollectionsKept
  <2> HIDE DEF d
  <2> QED BY <1>1, <2>2, <2>3 DEF OwnIds
<1>4. source.known # 0 \/ Cardinality(Exact) = 1
  BY <1>1 DEF ReaderIInv, LookupIsRead, IsAt
<1> HIDE DEF full, d
<1>5. CASE foreign /\ Fail("ambiguous")
  BY <1>1, <1>5, GivesUp
<1>6. CASE ~foreign /\ reading' = [reading EXCEPT !.at = "credits", !.releases = d,
                                     !.answer = IF full THEN "partial" ELSE @]
  <2>1. /\ reading' \in ReadingStates /\ reading'.at = "credits" /\ reading'.answer \in {"none", "partial"}
        /\ reading'.releases = d
    BY <1>1, <1>3, <1>6 DEF ReadingStates, Lists
  <2>2. Exact' = Exact /\ OwnIds' = OwnIds
    BY <1>1, SourceStays
  <2>3. LookupIsRead'
    BY <1>1, <1>3, <1>4, <1>6, <2>1, <2>2 DEF LookupIsRead, IsAt
  <2> QED BY <1>1, <2>1, <2>3, GoesOn
<1> QED BY <1>2, <1>5, <1>6

LEMMA TrackCreditsKeep ==
  ASSUME ReaderAssumption, ReaderIInv, ITunesArtistReleaseCredits
  PROVE  ReaderIInv'
<1> DEFINE d == reading.releases
           b == d \o ITunesCredits(d, source.tracks)
<1>1. /\ reading.at = "credits" /\ source' = source /\ source.provider = "itunes"
      /\ source \in Catalogues /\ reading \in ReadingStates /\ reading.answer \in {"none", "partial"}
  BY StagesTell DEF ITunesArtistReleaseCredits, Ask
<1>2. d \in Lists /\ Bare(d) /\ IdsOf(d) = OwnIds /\ LookupIsRead
  BY <1>1 DEF ReaderIInv, LookupIsRead, IsAt, ReadingStates, Lists
<1>3. Faithful(d) /\ b \in Lists /\ Faithful(b)
  BY <1>1, <1>2, LookupMakesABatch
<1>4. \/ reading' = [reading EXCEPT !.at = "normalize", !.releases = b]
      \/ reading' = [reading EXCEPT !.at = "normalize"]
  BY DEF ITunesArtistReleaseCredits, Read
<1> HIDE DEF b
<1>5. /\ reading' \in ReadingStates /\ reading'.at = "normalize" /\ reading'.releases \in {b, d}
      /\ reading'.answer = reading.answer
  BY <1>1, <1>3, <1>4 DEF ReadingStates, Lists
<1>6. LookupIsRead'
  <2>1. Exact' = Exact
    BY <1>1, SourceStays
  <2> QED BY <1>1, <1>2, <1>5, <2>1 DEF LookupIsRead, IsAt
<1> QED BY <1>1, <1>3, <1>5, <1>6, GoesOn

LEMMA GroupPageKeeps ==
  ASSUME ReaderAssumption, ReaderIInv, FetchGroupPage
  PROVE  ReaderIInv'
<1> DEFINE items == Page(source.own.rows, reading.page)
           new == [i \in DOMAIN items |-> [id |-> items[i].id, role |-> "", credits |-> {}, date |-> items[i].date]]
           more == reading.releases \o new
           whole == (reading.page + 1) * PageSize >= source.own.total \/ items = << >>
           s == source.own.rows
           n == reading.page
<1>1. /\ reading.at = "primary" /\ source' = source /\ source.provider = "musicbrainz"
      /\ source \in Catalogues /\ reading \in ReadingStates /\ reading.answer = "none"
  BY StagesTell DEF FetchGroupPage, Ask
<1>2. s \in Seq([id : Nat, date : Dates]) /\ source.own.total \in Nat /\ Len(s) <= source.own.total
  BY <1>1, CatalogueIsTyped
<1>3. /\ n \in Nat /\ reading.releases \in Seq(DatedReleased) /\ Bare(reading.releases)
      /\ IdsOf(reading.releases) = {row.id : row \in Before(s, n)}
  BY <1>1 DEF ReaderIInv, GroupsAreRead, IsAt, ReadRows, Before, ReadingStates
<1>4. /\ items \in Seq([id : Nat, date : Dates])
      /\ Before(s, n + 1) = Before(s, n) \cup Elems(items)
      /\ items = << >> \/ n * PageSize + Len(items) >= Len(s) \/ (n + 1) * PageSize >= Len(s)
           => Before(s, n) \cup Elems(items) = Elems(s)
  <2> HIDE DEF s, n
  <2>1. LET i == Page(s, n) IN
        /\ i \in Seq([id : Nat, date : Dates])
        /\ Before(s, n + 1) = Before(s, n) \cup Elems(i)
        /\ i = << >> \/ n * PageSize + Len(i) >= Len(s) \/ (n + 1) * PageSize >= Len(s)
             => Before(s, n) \cup Elems(i) = Elems(s)
        /\ Before(s, 0) = {}
    BY <1>2, <1>3, PageTurned
  <2> QED BY <2>1 DEF s, n
<1>5. \/ Fail("limit")
      \/ whole /\ reading' = [reading EXCEPT !.at = "credits", !.releases = more]
      \/ reading' = [reading EXCEPT !.page = @ + 1, !.releases = more]
  BY DEF FetchGroupPage, Read
<1>6. whole => Before(s, n) \cup Elems(items) = Rows(source.own)
  <2>1. Elems(s) = Rows(source.own)
    BY DEF Elems, Rows
  <2>2. (n + 1) * PageSize \in Nat /\ Len(s) \in Nat
    BY <1>2, <1>3 DEF ReaderAssumption
  <2>3. (n + 1) * PageSize >= source.own.total => (n + 1) * PageSize >= Len(s)
    <3>1. \A a, b, c \in Nat : a >= b /\ c <= b => a >= c
      OBVIOUS
    <3> QED BY <1>2, <2>2, <3>1
  <2> HIDE DEF items
  <2> QED BY <1>4, <2>1, <2>3
<1> HIDE DEF items, whole
<1>7. /\ new \in Seq(DatedReleased) /\ {x.id : x \in Elems(new)} = {x.id : x \in Elems(items)}
      /\ \A x \in Elems(new) : x.role = "" /\ x.credits = {}
  <2>1. ASSUME NEW i \in DOMAIN items
        PROVE  new[i] \in DatedReleased /\ new[i].id = items[i].id /\ new[i].role = "" /\ new[i].credits = {}
    <3>1. items[i] \in [id : Nat, date : Dates]
      <4> DEFINE S == [id : Nat, date : Dates]
      <4>1. items \in Seq(S)
        BY <1>4
      <4> HIDE DEF S
      <4>2. items[i] \in S
        BY <4>1
      <4> QED BY <4>2 DEF S
    <3>2. items[i].id \in Nat /\ items[i].date \in Dates
      BY <3>1
    <3>3. new[i] = [id |-> items[i].id, role |-> "", credits |-> {}, date |-> items[i].date]
      OBVIOUS
    <3> QED BY <3>2, <3>3 DEF DatedReleased
  <2>2. DOMAIN new = DOMAIN items
    OBVIOUS
  <2>3. PICK m \in Nat : DOMAIN items = 1 .. m
    BY <1>4
  <2>4. new = [i \in 1 .. m |-> new[i]]
    BY <2>3
  <2> HIDE DEF new
  <2>5. new \in [1 .. m -> DatedReleased]
    BY <2>1, <2>3, <2>4
  <2>6. new \in Seq(DatedReleased)
    BY <2>5, SeqDef
  <2>7. {x.id : x \in Elems(new)} = {x.id : x \in Elems(items)}
    <3>1. {x.id : x \in Elems(new)} = {new[i].id : i \in DOMAIN items}
      BY <2>2 DEF Elems
    <3>2. {x.id : x \in Elems(items)} = {items[i].id : i \in DOMAIN items}
      BY DEF Elems
    <3>3. \A i \in DOMAIN items : new[i].id = items[i].id
      BY <2>1
    <3>4. {new[i].id : i \in DOMAIN items} = {items[i].id : i \in DOMAIN items}
      BY <3>3
    <3> QED BY <3>1, <3>2, <3>4
  <2>8. \A x \in Elems(new) : x.role = "" /\ x.credits = {}
    BY <2>1, <2>2 DEF Elems
  <2> QED BY <2>6, <2>7, <2>8
<1> HIDE DEF new
<1>8. /\ more \in Seq(DatedReleased) /\ Bare(more)
      /\ IdsOf(more) = {row.id : row \in Before(s, n) \cup Elems(items)}
  <2>1. more \in Seq(DatedReleased) /\ Elems(more) = Elems(reading.releases) \cup Elems(new)
    <3>1. \A f \in Seq(DatedReleased) : reading.releases \o f \in Seq(DatedReleased)
                                            /\ Elems(reading.releases \o f) = Elems(reading.releases) \cup Elems(f)
      BY <1>3, WhatGoesIn
    <3> QED BY <1>7, <3>1
  <2> HIDE DEF more
  <2>2. \A x \in Elems(reading.releases) : x.role = "" /\ x.credits = {}
    BY <1>3, WhatIsIn
  <2>3. Bare(more)
    BY <1>7, <2>1, <2>2, WhatIsIn
  <2>4. /\ IdsOf(more) = {x.id : x \in Elems(more)}
        /\ IdsOf(reading.releases) = {x.id : x \in Elems(reading.releases)}
    BY WhatIsIn
  <2>5. IdsOf(more) = {x.id : x \in Elems(reading.releases)} \cup {x.id : x \in Elems(new)}
    BY <2>1, <2>4
  <2>6. IdsOf(more) = {row.id : row \in Before(s, n)} \cup {x.id : x \in Elems(items)}
    BY <1>3, <1>7, <2>4, <2>5
  <2> QED BY <2>1, <2>3, <2>6
<1> HIDE DEF more
<1>9. more \in Seq(ReleaseRecords)
  <2>1. DatedReleased \subseteq ReleaseRecords
    BY DEF ReleaseRecords
  <2> QED BY <1>8, <2>1, SeqMonotonic
<1>10. CASE whole /\ reading' = [reading EXCEPT !.at = "credits", !.releases = more]
  <2>1. /\ reading' \in ReadingStates /\ reading'.at = "credits" /\ reading'.releases = more
        /\ reading'.answer = "none"
    BY <1>1, <1>9, <1>10 DEF ReadingStates
  <2>2. IdsOf(more) = OwnIds
    BY <1>1, <1>6, <1>8, <1>10 DEF OwnIds
  <2>3. OwnIds' = OwnIds
    BY <1>1, SourceStays
  <2>4. GroupsAreRead'
    BY <1>8, <2>1, <2>2, <2>3 DEF GroupsAreRead, IsAt
  <2> QED BY <1>1, <2>1, <2>4, GoesOn
<1>11. CASE reading' = [reading EXCEPT !.page = @ + 1, !.releases = more]
  <2>1. /\ reading' \in ReadingStates /\ reading'.at = "primary" /\ reading'.releases = more
        /\ reading'.page = n + 1 /\ reading'.answer = "none"
    <3>1. n + 1 \in Nat
      BY <1>3
    <3> QED BY <1>1, <1>9, <1>11, <3>1 DEF ReadingStates
  <2>2. ReadRows(source.own)' = Before(s, n + 1)
    BY <1>1, <2>1 DEF ReadRows, Before
  <2>3. GroupsAreRead'
    BY <1>4, <1>8, <2>1, <2>2 DEF GroupsAreRead, IsAt
  <2> QED BY <1>1, <2>1, <2>3, GoesOn
<1> QED BY <1>1, <1>5, <1>10, <1>11, GivesUp

LEMMA RecordingCreditsKeep ==
  ASSUME ReaderAssumption, ReaderIInv, MusicBrainzArtistReleaseCredits
  PROVE  ReaderIInv'
<1> DEFINE d == reading.releases
           b == d \o MusicBrainzCredits(d, source.recordings)
<1>1. /\ reading.at = "credits" /\ source' = source /\ source.provider = "musicbrainz"
      /\ source \in Catalogues /\ reading \in ReadingStates /\ reading.answer = "none"
  BY StagesTell DEF MusicBrainzArtistReleaseCredits, Ask
<1>2. d \in Seq(DatedReleased) /\ Bare(d) /\ IdsOf(d) = OwnIds
  BY <1>1 DEF ReaderIInv, GroupsAreRead, IsAt
<1>3. Faithful(d) /\ b \in Lists /\ Faithful(b)
  BY <1>1, <1>2, GroupsMakeABatch
<1>4. \/ reading' = [reading EXCEPT !.at = "normalize", !.releases = b]
      \/ reading' = [reading EXCEPT !.at = "normalize"]
  BY DEF MusicBrainzArtistReleaseCredits, Read
<1> HIDE DEF b
<1>5. /\ reading' \in ReadingStates /\ reading'.at = "normalize" /\ reading'.releases \in {b, d}
      /\ reading'.answer = "none"
  BY <1>1, <1>3, <1>4 DEF ReadingStates, Lists
<1>6. GroupsAreRead'
  BY <1>5 DEF GroupsAreRead, IsAt
<1> QED BY <1>1, <1>3, <1>5, <1>6, GoesOn

\* The end: what is delivered is the batch, normalized.
LEMMA NormalizeKeeps ==
  ASSUME ReaderAssumption, ReaderIInv, NormalizeBatch
  PROVE  ReaderIInv'
<1> DEFINE b == reading.releases
           e == Normalize(b)
<1>1. /\ reading.at = "normalize" /\ source' = source /\ source \in Catalogues
      /\ reading \in ReadingStates /\ reading.answer \in {"none", "partial"}
      /\ source.provider # "itunes" => reading.answer = "none"
  BY StagesTell DEF NormalizeBatch, Ask
<1>2. b \in Lists /\ Faithful(b)
  BY <1>1, BatchIsThat DEF ReaderIInv, IsAt, ReadingStates, Lists
<1>3. /\ e \in Lists /\ Once(e) /\ IdsOf(e) = IdsOf(b)
      /\ \A i \in DOMAIN e : /\ e[i].credits = CreditsIn(b, e[i].id)
                             /\ e[i].role = "featured" <=> FeaturedIn(b, e[i].id)
  BY <1>2, BatchNormalized
<1>4. reading' = [reading EXCEPT !.at = "done", !.releases = e, !.answer = IF @ = "none" THEN "whole" ELSE @]
  BY DEF NormalizeBatch, Read
<1> HIDE DEF e
<1>5. /\ reading' \in ReadingStates /\ reading'.at = "done" /\ reading'.releases = e
      /\ reading'.answer \in {"whole", "partial"}
      /\ source.provider # "itunes" => reading'.answer = "whole"
  BY <1>1, <1>3, <1>4 DEF ReadingStates, Lists
<1>6. /\ source.provider = "spotify" => StreamsAreRead'
      /\ source.provider = "itunes" => LookupIsRead'
      /\ source.provider = "musicbrainz" => GroupsAreRead'
  BY <1>5 DEF StreamsAreRead, LookupIsRead, GroupsAreRead, IsAt
<1>7. Observed' /\ Delivered' /\ ReleaseIds' = IdsOf(e)
  BY <1>5 DEF Observed, Delivered, ReleaseIds, IdsOf
<1>8. WholeOrRefused'
  <2>1. {row.id : row \in Rows(source.own)} = OwnIds \/ source.provider # "musicbrainz"
    BY DEF OwnIds
  <2> QED BY <1>1, <1>2, <1>3, <1>7, <2>1 DEF WholeOrRefused, Faithful
<1>9. NoForeignDiscography'
  <2>1. source.provider = "itunes" =>
          /\ source.known # 0 \/ Cardinality(Exact) = 1
          /\ ~ \E i \in DOMAIN source.rows : source.rows[i].kind = "artist" /\ source.rows[i].owner = "other"
    BY <1>1 DEF ReaderIInv, LookupIsRead, IsAt
  <2>2. Exact' = Exact
    BY <1>1, SourceStays
  <2> QED BY <1>1, <2>1, <2>2 DEF NoForeignDiscography
<1>10. OwnReleasesOutrankGuests'
  <2>1. Cardinality(IdsOf(e)) = Len(e)
    BY <1>3, OnceCounts DEF Lists
  <2>2. OwnIds' = OwnIds
    BY <1>1, SourceStays
  <2>3. ASSUME NEW i \in DOMAIN e
        PROVE  (e[i].role = "featured") = (e[i].id \notin OwnIds)
    <3>1. e[i].id \in IdsOf(b)
      BY <1>3 DEF IdsOf
    <3>2. FeaturedIn(b, e[i].id) <=> e[i].id \notin OwnIds
      BY <1>2, <3>1 DEF Faithful
    <3> QED BY <1>3, <3>2
  <2> QED BY <1>5, <1>7, <2>1, <2>2, <2>3 DEF OwnReleasesOutrankGuests
<1>11. CreditsAreKept'
  <2>1. \A i \in DOMAIN e : e[i].id \in IdsOf(b) /\ e[i].credits = CreditsIn(b, e[i].id)
    BY <1>3 DEF IdsOf
  <2>2. CASE \A id \in IdsOf(b) :
               IF source.provider = "spotify" THEN StreamCredits(id) \subseteq CreditsIn(b, id)
               ELSE IF source.provider = "itunes" THEN CreditsIn(b, id) = TrackCredits(id)
               ELSE CreditsIn(b, id) = RecordingCredits(id)
    BY <1>1, <1>5, <2>1, <2>2, SourceStays DEF CreditsAreKept
  <2>3. CASE source.provider # "spotify" /\ \A i \in DOMAIN b : b[i].credits = {}
    <3>1. \A id : CreditsIn(b, id) = {}
      BY <2>3 DEF CreditsIn
    <3> QED BY <1>1, <1>5, <2>1, <2>3, <3>1 DEF CreditsAreKept
  <2> QED BY <1>2, <2>2, <2>3 DEF Faithful
<1> QED BY <1>1, <1>5, <1>6, <1>8, <1>9, <1>10, <1>11 DEF ReaderIInv, ObservationIsFaithful, IsAt, ReadingStates

LEMMA ReaderIInvAfter ==
  ASSUME ReaderAssumption, ReaderIInv, [ReaderNext]_readerVars
  PROVE  ReaderIInv'
<1>1. CASE UNCHANGED readerVars
  <2>1. source' = source /\ reading' = reading
    BY <1>1 DEF readerVars
  <2>2. /\ OwnIds' = OwnIds /\ Exact' = Exact
        /\ \A id : StreamCredits(id)' = StreamCredits(id)
        /\ \A id : TrackCredits(id)' = TrackCredits(id)
        /\ \A id : RecordingCredits(id)' = RecordingCredits(id)
    BY <2>1, SourceStays
  <2>3. StreamsAreRead' <=> StreamsAreRead
    BY <2>1 DEF StreamsAreRead, IsAt, ReadRows
  <2>4. LookupIsRead' <=> LookupIsRead
    BY <2>1, <2>2 DEF LookupIsRead, IsAt
  <2>5. GroupsAreRead' <=> GroupsAreRead
    BY <2>1, <2>2 DEF GroupsAreRead, IsAt, ReadRows
  <2>6. IsAt({"normalize"})' => BatchIsFaithful'
    <3>1. IsAt({"normalize"})' => Faithful(reading'.releases)
      BY <2>1, BatchIsThat DEF ReaderIInv, IsAt
    <3> QED BY <2>1, <3>1, BatchNext
  <2>7. ObservationIsFaithful'
    <3>1. Delivered' = Delivered /\ Observed' = Observed /\ ReleaseIds' = ReleaseIds
      BY <2>1 DEF Delivered, Observed, ReleaseIds
    <3>2. WholeOrRefused' /\ NoForeignDiscography'
      BY <2>1, <2>2, <3>1 DEF ReaderIInv, ObservationIsFaithful, WholeOrRefused, NoForeignDiscography
    <3>3. OwnReleasesOutrankGuests'
      BY <2>1, <2>2, <3>1 DEF ReaderIInv, ObservationIsFaithful, OwnReleasesOutrankGuests
    <3>4. CreditsAreKept'
      BY <2>1, <2>2, <3>1 DEF ReaderIInv, ObservationIsFaithful, CreditsAreKept
    <3> QED BY <3>2, <3>3, <3>4 DEF ObservationIsFaithful
  <2> QED BY <2>1, <2>3, <2>4, <2>5, <2>6, <2>7 DEF ReaderIInv
<1>2. CASE ReaderNext
  BY <1>2, RequestFailsKeeps, PrimaryPageKeeps, GuestPageKeeps, ResolveKeeps, LookupKeeps, TrackCreditsKeep,
     GroupPageKeeps, RecordingCreditsKeep, NormalizeKeeps DEF ReaderNext
<1> QED BY <1>1, <1>2

\* At each of its stages an observation has read, of its catalogue, what the pages
\* so far show, and what it normalizes misses nothing.
THEOREM ReaderInvariance == ReaderSpec => []ReaderIInv
<1>1. ReaderInit => ReaderIInv
  BY ReaderIInvAtFirst, ReaderAssumption
<1>2. ReaderIInv /\ [ReaderNext]_readerVars => ReaderIInv'
  BY ReaderIInvAfter, ReaderAssumption
<1> QED BY <1>1, <1>2, PTL DEF ReaderSpec

\* Whatever a provider has, in whatever order and on however many pages, and whichever
\* request fails: what is delivered is the right artist's, whole, each release once, as
\* the artist's own exactly if it is, with its credits.
THEOREM FaithfulObservations == ReaderSpec => []ObservationIsFaithful
<1>1. ReaderIInv => ObservationIsFaithful
  BY DEF ReaderIInv
<1> QED BY <1>1, ReaderInvariance, PTL
=============================================================================
