----------------------------- MODULE DataLemmas -----------------------------
(***************************************************************************)
(* Facts about the data the models are built from: the recency list of     *)
(* the cache and its arithmetic, and loops over a sequence.                *)
(*                                                                         *)
(* A loop is a fold of the community modules, which chooses a function     *)
(* on the subsets of 1 .. n.  FoldExists and FoldSteps say, for a loop     *)
(* body given as a function step on a set A it does not leave, that the    *)
(* function exists and that the loop runs through its turns in order.      *)
(***************************************************************************)
EXTENDS Naturals, Loops, WellFoundedInduction, TLAPS

\* Scaling by TicksPerSecond (Put's cap on the lifetime) is monotonic.
LEMMA Scaling ==
    ASSUME NEW a \in Nat, NEW b \in Nat, NEW c \in Nat, a <= b
    PROVE  a * c \in Nat /\ a * c <= b * c
OBVIOUS

\* Get's whole seconds left, scaled back, never exceed the time left.
LEMMA Flooring ==
    ASSUME NEW a \in Nat, NEW c \in Nat \ {0}
    PROVE  a \div c \in Nat /\ (a \div c) * c <= a
OBVIOUS

\* lru.Cache moving a key to the young end: the same keys, each still once.
LEMMA RefreshedSeq ==
    ASSUME NEW K, NEW s \in Seq(K), IsInjective(s), NEW i \in 1 .. Len(s)
    PROVE  LET r == Append(SubSeq(s, 1, i - 1) \o SubSeq(s, i + 1, Len(s)), s[i])
           IN  r \in Seq(K) /\ Len(r) = Len(s) /\ IsInjective(r) /\ Range(r) = Range(s)
<1> DEFINE before == SubSeq(s, 1, i - 1)
           after  == SubSeq(s, i + 1, Len(s))
           r == Append(before \o after, s[i])
<1>1. before \in Seq(K) /\ Len(before) = i - 1 /\ \A j \in 1 .. i - 1 : before[j] = s[j]
  OBVIOUS
<1>2. /\ after \in Seq(K) /\ Len(after) = Len(s) - i
      /\ \A j \in 1 .. Len(s) - i : after[j] = s[i + j]
  OBVIOUS
<1> HIDE DEF before, after, r
<1>3. r = Append(before \o after, s[i])
  BY DEF r
<1> DEFINE kept == before \o after
<1>4. /\ kept \in Seq(K) /\ Len(kept) = Len(s) - 1
      /\ \A j \in 1 .. Len(s) - 1 : kept[j] = IF j < i THEN s[j] ELSE s[j + 1]
  <2>1. kept \in Seq(K) /\ Len(kept) = Len(s) - 1
    BY <1>1, <1>2
  <2>2. ASSUME NEW j \in 1 .. Len(s) - 1, j < i PROVE kept[j] = s[j]
    BY <1>1, <1>2, <2>2
  <2>3. ASSUME NEW j \in 1 .. Len(s) - 1, j >= i PROVE kept[j] = s[j + 1]
    <3>1. j - (i - 1) \in 1 .. Len(s) - i
      BY <2>3
    <3>2. kept[j] = after[j - (i - 1)]
      BY <1>1, <1>2, <2>3
    <3> QED
      BY <1>2, <2>3, <3>1, <3>2
  <2> QED
    BY <2>1, <2>2, <2>3
<1> HIDE DEF kept
<1>5. /\ r \in Seq(K) /\ Len(r) = Len(s)
      /\ \A j \in 1 .. Len(s) - 1 : r[j] = IF j < i THEN s[j] ELSE s[j + 1]
      /\ r[Len(s)] = s[i]
  BY <1>4, <1>3 DEF kept
<1> DEFINE from(j) == IF j = Len(s) THEN i ELSE IF j < i THEN j ELSE j + 1
<1>6. \A j \in 1 .. Len(s) : from(j) \in 1 .. Len(s) /\ r[j] = s[from(j)]
  BY <1>5
<1>7. \A j, k \in 1 .. Len(s) : from(j) = from(k) => j = k
  OBVIOUS
<1> HIDE DEF from
<1>8. IsInjective(r)
  <2>1. DOMAIN r = 1 .. Len(s) /\ DOMAIN s = 1 .. Len(s)
    BY <1>5
  <2> SUFFICES ASSUME NEW j \in 1 .. Len(s), NEW k \in 1 .. Len(s), r[j] = r[k]
               PROVE  j = k
    BY <2>1, Zenon DEF IsInjective
  <2>2. s[from(j)] = s[from(k)] /\ from(j) \in DOMAIN s /\ from(k) \in DOMAIN s
    BY <1>6, <2>1, Zenon
  <2>3. from(j) = from(k)
    BY <2>2 DEF IsInjective
  <2> QED
    BY <1>7, <2>3
<1>9. ASSUME NEW x, NEW j \in DOMAIN s, s[j] = x PROVE \E k \in DOMAIN r : r[k] = x
  <2>1. CASE j < i
    BY <1>5, <1>9, <2>1
  <2>2. CASE j = i
    BY <1>5, <1>9, <2>2
  <2>3. CASE j > i
    BY <1>5, <1>9, <2>3, j - 1 \in 1 .. Len(s)
  <2> QED
    BY <2>1, <2>2, <2>3
<1>10. ASSUME NEW x, NEW j \in DOMAIN r, r[j] = x PROVE \E k \in DOMAIN s : s[k] = x
  BY <1>5, <1>6, <1>10
<1>11. r \in Seq(K) /\ Len(r) = Len(s) /\ IsInjective(r) /\ Range(r) = Range(s)
  BY <1>5, <1>8, <1>9, <1>10, Zenon DEF Range
<1> QED
  BY <1>11, Zenon DEF r, before, after

\* A key the list does not hold is added at the young end.
LEMMA AppendedSeq ==
    ASSUME NEW K, NEW s \in Seq(K), IsInjective(s), NEW k \in K,
           k \notin Range(s)
    PROVE  /\ Append(s, k) \in Seq(K) /\ Len(Append(s, k)) = Len(s) + 1
           /\ IsInjective(Append(s, k)) /\ Range(Append(s, k)) = Range(s) \cup {k}
<1> DEFINE r == Append(s, k)
<1>1. /\ r \in Seq(K) /\ Len(r) = Len(s) + 1
      /\ \A j \in 1 .. Len(s) : r[j] = s[j]
      /\ r[Len(s) + 1] = k
  OBVIOUS
<1> HIDE DEF r
<1>2. IsInjective(r)
  BY <1>1 DEF IsInjective, Range
<1>3. ASSUME NEW x PROVE (\E j \in DOMAIN r : r[j] = x) <=> x = k \/ \E j \in DOMAIN s : s[j] = x
  BY <1>1
<1> QED
  <2>1. Range(r) = Range(s) \cup {k}
    BY <1>3, Zenon DEF Range
  <2> QED
    BY <1>1, <1>2, <2>1 DEF r

\* Dropping the least recently used key drops that key and no other.
LEMMA TailSeq ==
    ASSUME NEW K, NEW s \in Seq(K), IsInjective(s), s # <<>>
    PROVE  /\ Tail(s) \in Seq(K) /\ Len(Tail(s)) = Len(s) - 1 /\ IsInjective(Tail(s))
           /\ Head(s) \in K /\ Range(Tail(s)) = Range(s) \ {Head(s)}
<1>1. /\ Tail(s) \in Seq(K) /\ Len(Tail(s)) = Len(s) - 1 /\ Len(s) > 0
      /\ \A j \in 1 .. Len(s) - 1 : Tail(s)[j] = s[j + 1]
      /\ Head(s) = s[1] /\ Head(s) \in K
  OBVIOUS
<1>2. IsInjective(Tail(s))
  BY <1>1 DEF IsInjective
<1>3. ASSUME NEW x, x # Head(s), NEW j \in DOMAIN s, s[j] = x
      PROVE  \E k \in DOMAIN Tail(s) : Tail(s)[k] = x
  BY <1>1, <1>3, j - 1 \in 1 .. Len(s) - 1
<1>4. ASSUME NEW x, NEW j \in DOMAIN Tail(s), Tail(s)[j] = x
      PROVE  x # Head(s) /\ \E k \in DOMAIN s : s[k] = x
  BY <1>1, <1>4 DEF IsInjective
<1> QED
  <2>1. Range(Tail(s)) = Range(s) \ {Head(s)}
    BY <1>3, <1>4, Zenon DEF Range
  <2> QED
    BY <1>1, <1>2, <2>1

-----------------------------------------------------------------------------

\* A set of numbers has a least element (the induction the folds rest on).
LEMMA LeastNat ==
    ASSUME NEW T \in SUBSET Nat, T # {}
    PROVE  \E m \in T : \A k \in T : m <= k
<1> DEFINE R == OpToRel(<, Nat)
<1>1. IsWellFoundedOn(R, Nat)
  BY NatLessThanWellFounded, Zenon
<1>2. \A x, y \in Nat : x < y => <<x, y>> \in R
  BY DEF OpToRel
<1> HIDE DEF R
<1>3. PICK m \in T : \A y \in T : ~(<<y, m>> \in R)
  BY <1>1, WFMin, Zenon
<1>4. ASSUME NEW k \in T PROVE m <= k
  <2>1. m \in Nat /\ k \in Nat /\ ~(k < m)
    BY <1>2, <1>3, Zenon
  <2> QED
    BY <2>1
<1> QED
  BY <1>4

\* What holds of 0 and passes from each number to the next holds up to n.
LEMMA Ascent ==
    ASSUME NEW n \in Nat, NEW G \in SUBSET (0 .. n), 0 \in G,
           \A m \in 0 .. n : m < n /\ m \in G => m + 1 \in G
    PROVE  G = 0 .. n
<1> DEFINE T == (0 .. n) \ G
<1> SUFFICES ASSUME T # {} PROVE FALSE
  BY Zenon
<1>1. PICK m \in T : \A k \in T : m <= k
  <2>1. T \in SUBSET Nat
    OBVIOUS
  <2> HIDE DEF T
  <2> QED
    BY <2>1, LeastNat
<1>2. m \in Nat /\ m # 0 /\ m <= n /\ m \notin G
  OBVIOUS
<1>3. m - 1 \in 0 .. n /\ m - 1 < n
  BY <1>2
<1>4. m - 1 \notin T
  BY <1>1, <1>2
<1>5. m - 1 \in G
  BY <1>3, <1>4
<1>6. (m - 1) + 1 \in G
  BY <1>3, <1>5
<1> QED
  BY <1>2, <1>6

\* The fold over 1 .. n takes n last.
LEMMA MaxInterval ==
    ASSUME NEW n \in Nat, NEW S \in SUBSET (1 .. n), n \in S
    PROVE  Max(S) = n
<1>1. \A x \in S : (\A y \in S : x >= y) <=> x = n
  OBVIOUS
<1> QED
  BY <1>1, Zenon DEF Max

\* The last id of a page.
LEMMA MaxIsGreatest ==
    ASSUME NEW n \in Nat, NEW S \in SUBSET (1 .. n), S # {}
    PROVE  Max(S) \in S /\ \A x \in S : x <= Max(S)
<1> DEFINE T == {b \in 0 .. n : \A x \in S : x <= b}
<1>1. n \in T /\ T \in SUBSET Nat
  OBVIOUS
<1>2. PICK b \in T : \A k \in T : b <= k
  BY <1>1, LeastNat, Zenon
<1>3. b \in 1 .. n
  <2>1. PICK x \in S : TRUE
    BY Zenon
  <2>2. x \in 1 .. n /\ x <= b /\ b \in 0 .. n
    OBVIOUS
  <2> QED
    BY <2>2
<1>4. b \in S
  <2> SUFFICES ASSUME b \notin S PROVE FALSE
    OBVIOUS
  <2>1. \A x \in S : x <= b - 1
    BY <1>3
  <2>2. b - 1 \in T
    BY <1>3, <2>1
  <2> QED
    BY <1>2, <1>3, <2>2
<1>5. \A x \in S : b >= x
  BY <1>3
<1>6. \E x \in S : \A y \in S : x >= y
  BY <1>4, <1>5
<1>7. Max(S) \in S /\ \A y \in S : Max(S) >= y
  BY <1>6, Zenon DEF Max
<1> QED
  BY <1>7

\* f folds step over the subsets of 1 .. n, greatest element last.
FoldsSets(f, n, base, step) ==
    /\ f[{}] = base
    /\ \A S \in SUBSET (1 .. n) :
           S # {} => Max(S) \in S /\ f[S] = step[<<Max(S), f[S \ {Max(S)}]>>]

\* The same for whatever iter is outside A.
FoldsWithin(iter, n, A, base, step) ==
    /\ iter[{}] = base
    /\ \A S \in SUBSET (1 .. n) : S # {} /\ iter[S \ {Max(S)}] \in A =>
           iter[S] = step[<<Max(S), iter[S \ {Max(S)}]>>]

\* g is the course of the same fold over 1 .. n.
Course(g, n, base, step) == g[0] = base /\ \A k \in 1 .. n : g[k] = step[<<k, g[k - 1]>>]

\* v is where the fold ends.
FoldsTo(n, A, base, step, v) ==
    \E g \in [0 .. n -> A] : Course(g, n, base, step) /\ v = g[n]

\* Every fold over 1 .. n exists.
LEMMA FoldExists ==
    ASSUME NEW n \in Nat, NEW A, NEW base \in A, NEW step \in [(1 .. n) \X A -> A]
    PROVE  \E f \in [SUBSET (1 .. n) -> A] : FoldsSets(f, n, base, step)
<1> DEFINE Good(f, m) ==
              f \in [SUBSET (1 .. m) -> A] /\ FoldsSets(f, m, base, step)
           G == {m \in 0 .. n : \E f : Good(f, m)}
<1> USE DEF FoldsSets
<1>1. 0 \in G
  <2> DEFINE f == [S \in SUBSET (1 .. 0) |-> base]
  <2>1. SUBSET (1 .. 0) = {{}}
    OBVIOUS
  <2>2. f \in [SUBSET (1 .. 0) -> A] /\ f[{}] = base
    BY <2>1
  <2> HIDE DEF f
  <2>3. Good(f, 0)
    BY <2>1, <2>2, Zenon
  <2> HIDE DEF Good
  <2> QED
    BY <2>3
<1>2. ASSUME NEW m \in 0 .. n, m < n, m \in G PROVE m + 1 \in G
  <2>1. PICK f : Good(f, m)
    BY <1>2, Zenon
  <2> DEFINE g == [S \in SUBSET (1 .. m + 1) |->
                      IF m + 1 \in S THEN step[<<m + 1, f[S \ {m + 1}]>>] ELSE f[S]]
  <2>2. \A S \in SUBSET (1 .. m + 1) : S \ {m + 1} \in SUBSET (1 .. m)
    OBVIOUS
  <2>3. \A S \in SUBSET (1 .. m + 1) : m + 1 \notin S => S \in SUBSET (1 .. m)
    OBVIOUS
  <2>4. m + 1 \in 1 .. n /\ m + 1 \in Nat
    BY <1>2
  <2>5. ASSUME NEW S \in SUBSET (1 .. m + 1)
        PROVE  g[S] \in A
    <3>1. CASE m + 1 \in S
      <4>1. g[S] = step[<<m + 1, f[S \ {m + 1}]>>]
        BY <3>1
      <4>2. f[S \ {m + 1}] \in A
        BY <2>1, <2>2
      <4> QED
        BY <2>4, <4>1, <4>2
    <3>2. CASE m + 1 \notin S
      BY <2>1, <2>3, <3>2
    <3> QED
      BY <3>1, <3>2
  <2>6. g[{}] = base
    BY <2>1
  <2>7. ASSUME NEW S \in SUBSET (1 .. m + 1), S # {}
        PROVE  Max(S) \in S /\ g[S] = step[<<Max(S), g[S \ {Max(S)}]>>]
    <3>1. CASE m + 1 \in S
      <4>1. Max(S) = m + 1
        BY <2>4, <3>1, MaxInterval
      <4>2. S \ {m + 1} \in SUBSET (1 .. m + 1) /\ m + 1 \notin S \ {m + 1}
        OBVIOUS
      <4>3. g[S \ {m + 1}] = f[S \ {m + 1}]
        BY <4>2
      <4>4. g[S] = step[<<m + 1, f[S \ {m + 1}]>>]
        BY <3>1
      <4> QED
        BY <3>1, <4>1, <4>3, <4>4
    <3>2. CASE m + 1 \notin S
      <4>1. S \in SUBSET (1 .. m)
        BY <2>3, <3>2
      <4>2. Max(S) \in S /\ f[S] = step[<<Max(S), f[S \ {Max(S)}]>>]
        BY <2>1, <2>7, <4>1
      <4>3. g[S] = f[S] /\ g[S \ {Max(S)}] = f[S \ {Max(S)}]
        BY <3>2, Zenon
      <4> QED
        BY <4>2, <4>3
    <3> QED
      BY <3>1, <3>2
  <2>8. g \in [SUBSET (1 .. m + 1) -> A]
    BY <2>5, Zenon
  <2> HIDE DEF g
  <2>9. Good(g, m + 1)
    BY <2>6, <2>7, <2>8
  <2>10. m + 1 \in 0 .. n
    BY <2>4
  <2> HIDE DEF Good
  <2> QED
    BY <2>9, <2>10
<1>3. G = 0 .. n
  <2>1. G \in SUBSET (0 .. n)
    OBVIOUS
  <2> HIDE DEF G
  <2> QED
    BY <1>1, <1>2, <2>1, Ascent
<1>4. PICK f : Good(f, n)
  <2> HIDE DEF Good
  <2>1. n \in G
    BY <1>3
  <2> QED
    BY <2>1
<1> QED
  BY <1>4, Zenon

\* A fold runs through its steps in order, and stays where they stay.
LEMMA FoldSteps ==
    ASSUME NEW n \in Nat, NEW A, NEW base \in A, NEW step \in [(1 .. n) \X A -> A],
           NEW iter, FoldsWithin(iter, n, A, base, step)
    PROVE  FoldsTo(n, A, base, step, iter[1 .. n])
<1> DEFINE g == [k \in 0 .. n |-> iter[1 .. k]]
           G == {m \in 0 .. n : g[m] \in A}
<1>1. g[0] = base
  BY DEF FoldsWithin
<1>2. ASSUME NEW k \in 1 .. n, g[k - 1] \in A PROVE g[k] = step[<<k, g[k - 1]>>]
  <2>1. /\ 1 .. k \in SUBSET (1 .. n) /\ 1 .. k # {} /\ (1 .. k) \ {k} = 1 .. (k - 1)
        /\ k \in Nat /\ k \in 1 .. k /\ k - 1 \in 0 .. n
    OBVIOUS
  <2>2. Max(1 .. k) = k
    BY <2>1, MaxInterval
  <2>3. g[k - 1] = iter[1 .. (k - 1)] /\ g[k] = iter[1 .. k]
    BY <2>1
  <2> QED
    BY <1>2, <2>1, <2>2, <2>3, Zenon DEF FoldsWithin
<1> HIDE DEF g
<1>3. ASSUME NEW m \in 0 .. n, m < n, m \in G PROVE m + 1 \in G
  <2>1. m + 1 \in 1 .. n /\ (m + 1) - 1 = m /\ g[m] \in A
    BY <1>3
  <2>2. g[m + 1] = step[<<m + 1, g[m]>>]
    BY <1>2, <2>1
  <2> QED
    BY <2>1, <2>2
<1>4. G \in SUBSET (0 .. n) /\ 0 \in G
  BY <1>1
<1>5. G = 0 .. n
  <2> HIDE DEF G
  <2> QED
    BY <1>3, <1>4, Ascent
<1>6. g \in [0 .. n -> A]
  BY <1>5, Zenon DEF g
<1>7. \A k \in 1 .. n : g[k] = step[<<k, g[k - 1]>>]
  <2> SUFFICES ASSUME NEW k \in 1 .. n PROVE g[k] = step[<<k, g[k - 1]>>]
    OBVIOUS
  <2>1. k - 1 \in 0 .. n
    OBVIOUS
  <2> QED
    BY <1>2, <1>6, <2>1
<1>8. iter[1 .. n] = g[n]
  BY DEF g
<1> QED
  BY <1>1, <1>6, <1>7, <1>8 DEF Course, FoldsTo
=============================================================================
