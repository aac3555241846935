---------------------------- MODULE StorageProofs ----------------------------
(***************************************************************************)
(* The lists and counters that the background context keeps in storage:    *)
(* the session's lists, the attribution ledger, the counts per site and    *)
(* the lifetime statistics, each with the inductive invariant its property *)
(* rests on, for every value of the constants: lists of any length, any    *)
(* number of events, restarts and failing calls.                           *)
(*                                                                         *)
(* What a restart takes back from the counts is the sum over the flushes   *)
(* under way, which the model writes as a fold; the lemmas on sums say     *)
(* that it adds up in any order.                                           *)
(*                                                                         *)
(* The theorems are of RunSpec, the harness; SessionRuns, LedgerRuns,      *)
(* SitesRuns and StatsRuns take them from it to the component.             *)
(***************************************************************************)
EXTENDS WorkerRuns, FiniteSetTheorems, SequenceTheorems, WellFoundedInduction, TLAPS

-----------------------------------------------------------------------------
(* Sequences.                                                              *)

\* A sequence with at most one element is empty or that element.
LEMMA Single ==
    ASSUME NEW S, NEW q \in Seq(S), q # <<>>, Len(q) <= 1
    PROVE  q = <<q[1]>> /\ q[1] \in S
<1>1. Len(q) = 1 /\ q[1] \in S
  <2>1. Len(q) \in Nat /\ Len(q) # 0
    BY EmptySeq
  <2> QED BY <2>1
<1>2. <<q[1]>> \in Seq(S) /\ Len(<<q[1]>>) = 1 /\ <<q[1]>>[1] = q[1]
  BY <1>1
<1>3. \A i \in 1..Len(q) : q[i] = <<q[1]>>[i]
  BY <1>1, <1>2
<1>4. q = <<q[1]>>
  <2> DEFINE t == <<q[1]>>
  <2>1. t \in Seq(S) /\ Len(q) = Len(t) /\ \A i \in 1..Len(q) : q[i] = t[i]
    BY <1>1, <1>2, <1>3
  <2> HIDE DEF t
  <2>2. q = t
    BY <2>1, SeqEqual
  <2> QED BY <2>2 DEF t
<1> QED BY <1>1, <1>4

Without(s, i) == SubSeq(s, 1, i - 1) \o SubSeq(s, i + 1, Len(s))

\* What is left of a queue when its head, or any of a log's runs, is done.
LEMMA Removed ==
    ASSUME NEW S, NEW s \in Seq(S), NEW i \in DOMAIN s
    PROVE  /\ Session!RemoveAt(s, i) = Without(s, i)
           /\ Sites!RemoveAt(s, i) = Without(s, i)
           /\ Counters!RemoveAt(s, i) = Without(s, i)
           /\ Without(s, i) \in Seq(S)
           /\ Len(Without(s, i)) = Len(s) - 1
           /\ \A j \in DOMAIN Without(s, i) :
                  Without(s, i)[j] = s[IF j < i THEN j ELSE j + 1]
<1> DEFINE l == SubSeq(s, 1, i - 1)
           r == SubSeq(s, i + 1, Len(s))
<1>1. i \in 1..Len(s) /\ Len(s) \in Nat
  OBVIOUS
<1>2. l \in Seq(S) /\ Len(l) = i - 1 /\ \A j \in 1..i - 1 : l[j] = s[j]
  BY <1>1
<1>3. r \in Seq(S) /\ Len(r) = Len(s) - i /\ \A j \in 1..Len(s) - i : r[j] = s[i + j]
  BY <1>1
<1>4. Without(s, i) = l \o r
  BY DEF Without
<1> HIDE DEF l, r
<1>5. l \o r \in Seq(S) /\ Len(l \o r) = Len(s) - 1
  BY <1>1, <1>2, <1>3
<1>6. \A j \in 1..Len(s) - 1 : (l \o r)[j] = s[IF j < i THEN j ELSE j + 1]
  <2> SUFFICES ASSUME NEW j \in 1..Len(s) - 1
               PROVE  (l \o r)[j] = s[IF j < i THEN j ELSE j + 1]
    OBVIOUS
  <2>1. CASE j < i
    BY <2>1, <1>1, <1>2, <1>3
  <2>2. CASE ~(j < i)
    <3>1. j - (i - 1) \in 1..Len(s) - i /\ i + (j - (i - 1)) = j + 1 /\ j > Len(l)
      BY <2>2, <1>1, <1>2
    <3>2. (l \o r)[j] = r[j - Len(l)]
      <4>1. \A k \in 1..Len(l) + Len(r) :
                (l \o r)[k] = IF k <= Len(l) THEN l[k] ELSE r[k - Len(l)]
        BY <1>2, <1>3, ConcatProperties, Zenon
      <4>2. Len(l) = i - 1 /\ Len(r) = Len(s) - i
        BY <1>2, <1>3, Zenon
      <4>3. j \in 1..Len(l) + Len(r) /\ ~(j <= Len(l))
        BY <4>2, <2>2, <1>1
      <4> QED BY <4>1, <4>3
    <3> QED BY <3>1, <3>2, <2>2, <1>2, <1>3
  <2> QED BY <2>1, <2>2
<1>7. DOMAIN (l \o r) = 1..Len(s) - 1
  BY <1>5
<1>8. /\ Session!RemoveAt(s, i) = Without(s, i) /\ Sites!RemoveAt(s, i) = Without(s, i)
      /\ Counters!RemoveAt(s, i) = Without(s, i)
  BY DEF Session!RemoveAt, Sites!RemoveAt, Counters!RemoveAt, Without
<1> QED BY <1>4, <1>5, <1>6, <1>7, <1>8

-----------------------------------------------------------------------------
(* Induction, for a set of natural numbers that is given by a formula.     *)

LEMMA Minimal ==
    ASSUME NEW Q, NEW N, IsWellFoundedOn(Q, N), NEW A, A \subseteq N, A # {}
    PROVE  \E u \in A : \A v \in A : ~(<<v, u>> \in Q)
  BY WFMin

LEMMA LeastNat ==
    ASSUME NEW T, T \subseteq Nat, T # {}
    PROVE  \E m \in T : \A n \in T : m <= n
<1> DEFINE R == OpToRel(<, Nat)
           N == Nat
<1>1. IsWellFoundedOn(R, N)
  BY NatLessThanWellFounded
<1>2. \A x, y \in Nat : <<x, y>> \in R <=> x < y
  BY DEF OpToRel
<1>3. T \subseteq N
  OBVIOUS
<1>4. \E u \in T : \A v \in T : ~(<<v, u>> \in R)
  <2> HIDE DEF R, N
  <2> QED BY <1>1, <1>3, Minimal
<1>5. PICK u \in T : \A v \in T : ~(<<v, u>> \in R)
  BY <1>4, Zenon
<1>6. \A v \in T : ~(v < u)
  <2> HIDE DEF R, N
  <2> QED BY <1>2, <1>5
<1> HIDE DEF R, N
<1> QED BY <1>6

LEMMA SetInduction ==
    ASSUME NEW S, 0 \in S, \A n \in Nat : n \in S => n + 1 \in S
    PROVE  Nat \subseteq S
<1> SUFFICES ASSUME NEW k \in Nat, k \notin S PROVE FALSE
  OBVIOUS
<1>1. PICK m \in Nat \ S : \A n \in Nat \ S : m <= n
  BY LeastNat
<1>2. m # 0
  OBVIOUS
<1>3. m - 1 \in Nat /\ m - 1 \in S
  BY <1>1, <1>2
<1> QED BY <1>1, <1>3

-----------------------------------------------------------------------------
(* Sums: the folds of the model add up in any order, here from the left.   *)

Partial(v, p) ==
    /\ p \in [0..Len(v) -> Int] /\ p[0] = 0
    /\ \A k \in 1..Len(v) : p[k] = p[k - 1] + v[k]

Added(g, v, t) == LET x == CHOOSE x \in t : TRUE IN g[t \ {x}] + v[x]

Folded(g, v) == g = [t \in SUBSET DOMAIN v |-> IF t = {} THEN 0 ELSE Added(g, v, t)]

LEMMA SomeOf ==
    ASSUME NEW n \in Nat, NEW t \in SUBSET (1..n)
    PROVE  /\ Cardinality(t) \in Nat /\ Cardinality(t) <= n
           /\ Cardinality(t) = 0 <=> t = {}
           /\ \A x \in t : /\ t \ {x} \in SUBSET (1..n)
                           /\ Cardinality(t \ {x}) = Cardinality(t) - 1
<1>1. IsFiniteSet(1..n) /\ Cardinality(1..n) = n
  <2>1. 1 \in Int /\ n \in Int
    OBVIOUS
  <2>2. IsFiniteSet(1..n) /\ Cardinality(1..n) = IF 1 > n THEN 0 ELSE n - 1 + 1
    BY <2>1, FS_Interval, Zenon
  <2> QED BY <2>2
<1>2. IsFiniteSet(t) /\ Cardinality(t) <= n
  BY <1>1, FS_Subset
<1>3. Cardinality(t) \in Nat
  BY <1>2, FS_CardinalityType
<1>4. Cardinality(t) = 0 <=> t = {}
  BY <1>2, FS_EmptySet
<1>5. \A x \in t : Cardinality(t \ {x}) = Cardinality(t) - 1
  BY <1>2, FS_RemoveElement
<1> QED BY <1>2, <1>3, <1>4, <1>5

\* The recursion has a solution: one for the sets of up to n indices makes one for
\* those of n + 1.
LEMMA FoldsExist ==
    ASSUME NEW v \in Seq(Int)
    PROVE  \E g : Folded(g, v)
<1> DEFINE D == DOMAIN v
           F(g) == [t \in SUBSET D |-> IF t = {} THEN 0 ELSE Added(g, v, t)]
           Upto(g, n) == \A t \in SUBSET D : Cardinality(t) <= n =>
                             g[t] = IF t = {} THEN 0 ELSE Added(g, v, t)
           S == {n \in Nat : \E g : Upto(F(g), n)}
<1>1. D = 1..Len(v) /\ Len(v) \in Nat
  OBVIOUS
<1>2. ASSUME NEW t \in SUBSET D
      PROVE  /\ Cardinality(t) \in Nat /\ Cardinality(t) <= Len(v)
             /\ Cardinality(t) = 0 <=> t = {}
             /\ \A x \in t : t \ {x} \in SUBSET D /\ Cardinality(t \ {x}) = Cardinality(t) - 1
  BY <1>1, SomeOf
<1>3. 0 \in S
  <2> DEFINE g == [t \in SUBSET D |-> 0]
  <2>1. \A t \in SUBSET D : Cardinality(t) <= 0 => t = {}
    BY <1>2
  <2>2. F(g)[{}] = 0
    OBVIOUS
  <2> HIDE DEF g, F
  <2>3. Upto(F(g), 0)
    BY <2>1, <2>2
  <2> HIDE DEF Upto
  <2> QED BY <2>3
<1>4. ASSUME NEW n \in Nat, n \in S PROVE n + 1 \in S
  <2>1. PICK g : Upto(F(g), n)
    BY <1>4
  <2> DEFINE h == F(g)
  <2>2. ASSUME NEW t \in SUBSET D, Cardinality(t) <= n + 1
        PROVE  F(h)[t] = IF t = {} THEN 0 ELSE Added(F(h), v, t)
    <3>1. CASE t = {}
      BY <3>1
    <3>2. CASE t # {}
      <4> DEFINE x == CHOOSE x \in t : TRUE
                 u == t \ {x}
      <4>1. x \in t
        BY <3>2
      <4> HIDE DEF x
      <4>2. u \in SUBSET D /\ Cardinality(u) <= n
        <5>1. Cardinality(t) \in Nat /\ \A y \in t :
                  t \ {y} \in SUBSET D /\ Cardinality(t \ {y}) = Cardinality(t) - 1
          BY <1>2, Zenon
        <5> HIDE DEF D
        <5> QED BY <2>2, <4>1, <5>1
      <4>3. h[u] = IF u = {} THEN 0 ELSE Added(h, v, u)
        BY <2>1, <4>2
      <4>4. F(h)[u] = IF u = {} THEN 0 ELSE Added(h, v, u)
        BY <4>2
      <4>5. F(h)[t] = h[u] + v[x]
        BY <3>2 DEF Added, x
      <4> HIDE DEF h, F
      <4>6. Added(F(h), v, t) = F(h)[u] + v[x]
        BY DEF Added, x
      <4> QED BY <3>2, <4>3, <4>4, <4>5, <4>6
    <3> QED BY <3>1, <3>2
  <2>3. Upto(F(h), n + 1)
    BY <2>2
  <2> HIDE DEF Upto, F, h
  <2> QED BY <2>3
<1>5. Nat \subseteq S
  <2> HIDE DEF S
  <2> QED BY <1>3, <1>4, SetInduction
<1>6. PICK g : Upto(F(g), Len(v))
  BY <1>1, <1>5
<1>7. \A t \in SUBSET D : F(g)[t] = IF t = {} THEN 0 ELSE Added(F(g), v, t)
  BY <1>2, <1>6
<1> DEFINE h == F(g)
<1>8. h = [t \in SUBSET D |-> h[t]]
  OBVIOUS
<1>9. h = F(h)
  <2>1. \A t \in SUBSET D : h[t] = F(h)[t]
    BY <1>7
  <2>2. F(h) = [t \in SUBSET D |-> F(h)[t]]
    OBVIOUS
  <2> HIDE DEF h, F
  <2> QED BY <1>8, <2>1, <2>2
<1> QED BY <1>9 DEF Folded

\* It adds up whichever index is taken out first.
LEMMA FoldsAnyOrder ==
    ASSUME NEW v \in Seq(Int), NEW g, Folded(g, v)
    PROVE  \A t \in SUBSET DOMAIN v :
               g[t] \in Int /\ \A y \in t : g[t] = g[t \ {y}] + v[y]
<1> DEFINE D == DOMAIN v
           Sums(t) == g[t] \in Int /\ \A y \in t : g[t] = g[t \ {y}] + v[y]
           S == {n \in Nat : \A t \in SUBSET D : Cardinality(t) <= n => Sums(t)}
<1>1. D = 1..Len(v) /\ Len(v) \in Nat /\ \A x \in D : v[x] \in Int
  OBVIOUS
<1>2. ASSUME NEW t \in SUBSET D
      PROVE  /\ Cardinality(t) \in Nat /\ Cardinality(t) <= Len(v)
             /\ Cardinality(t) = 0 <=> t = {}
             /\ \A x \in t : t \ {x} \in SUBSET D /\ Cardinality(t \ {x}) = Cardinality(t) - 1
  BY <1>1, SomeOf
<1>3. \A t \in SUBSET D : g[t] = IF t = {} THEN 0 ELSE Added(g, v, t)
  BY DEF Folded
<1>4. 0 \in S
  <2>1. \A t \in SUBSET D : Cardinality(t) <= 0 => t = {}
    BY <1>2
  <2>2. Sums({})
    BY <1>3
  <2> HIDE DEF Sums
  <2> QED BY <2>1, <2>2
<1>5. ASSUME NEW n \in Nat, n \in S PROVE n + 1 \in S
  <2> SUFFICES ASSUME NEW t \in SUBSET D, Cardinality(t) <= n + 1, t # {}
               PROVE  Sums(t)
    <3>1. Sums({})
      BY <1>3
    <3>2. \A t \in SUBSET D : Cardinality(t) <= n + 1 => Sums(t)
      <4> HIDE DEF Sums
      <4> QED BY <3>1
    <3> HIDE DEF Sums, D
    <3> QED BY <3>2
  <2> DEFINE x == CHOOSE x \in t : TRUE
  <2>1. x \in t
    OBVIOUS
  <2>2. g[t] = g[t \ {x}] + v[x]
    BY <1>3 DEF Added
  <2> HIDE DEF x
  <2>3. \A u \in SUBSET D : Cardinality(u) <= n => Sums(u)
    BY <1>5
  <2> HIDE DEF S
  <2>4. \A y \in t : t \ {y} \in SUBSET D /\ Cardinality(t \ {y}) <= n
    <3>1. Cardinality(t) \in Nat /\ \A y \in t :
              t \ {y} \in SUBSET D /\ Cardinality(t \ {y}) = Cardinality(t) - 1
      BY <1>2, Zenon
    <3> HIDE DEF D, Sums
    <3> QED BY <3>1
  <2>5. \A y \in t : g[t \ {y}] \in Int /\ v[y] \in Int
    BY <1>1, <2>3, <2>4
  <2>6. ASSUME NEW y \in t, y # x PROVE g[t] = g[t \ {y}] + v[y]
    <3>1. (t \ {x}) \ {y} = (t \ {y}) \ {x} /\ y \in t \ {x} /\ x \in t \ {y}
      BY <2>1, <2>6
    <3>2. /\ g[t \ {x}] = g[(t \ {x}) \ {y}] + v[y]
          /\ g[t \ {y}] = g[(t \ {y}) \ {x}] + v[x]
      BY <2>1, <2>3, <2>4, <3>1
    <3>3. g[(t \ {x}) \ {y}] \in Int
      <4>1. (t \ {x}) \ {y} \in SUBSET D /\ Cardinality((t \ {x}) \ {y}) <= n
        <5>1. t \ {x} \in SUBSET D /\ y \in t \ {x}
          BY <2>1, <3>1
        <5>2. (t \ {x}) \ {y} \in SUBSET D
              /\ Cardinality((t \ {x}) \ {y}) = Cardinality(t \ {x}) - 1
              /\ Cardinality(t \ {x}) \in Nat
          BY <1>2, <5>1, Zenon
        <5>3. Cardinality(t \ {x}) <= n
          BY <2>1, <2>4, Zenon
        <5> HIDE DEF D, Sums
        <5> QED BY <5>2, <5>3
      <4> QED BY <2>3, <4>1
    <3> DEFINE a == g[(t \ {x}) \ {y}]
    <3>4. g[t] = a + v[y] + v[x] /\ g[t \ {y}] = a + v[x]
      BY <2>2, <3>1, <3>2
    <3>5. a \in Int /\ v[x] \in Int /\ v[y] \in Int
      BY <2>1, <2>5, <3>3
    <3> HIDE DEF a
    <3> QED BY <3>4, <3>5
  <2>7. g[t] \in Int
    <3> DEFINE a == g[t \ {x}]
    <3>1. a \in Int /\ v[x] \in Int /\ g[t] = a + v[x]
      BY <2>1, <2>2, <2>5, Zenon
    <3> HIDE DEF a
    <3> QED BY <3>1
  <2> QED BY <2>2, <2>6, <2>7
<1>6. Nat \subseteq S
  <2> HIDE DEF S
  <2> QED BY <1>4, <1>5, SetInduction
<1> QED BY <1>1, <1>2, <1>6

\* So the fold is the last partial sum, and there is one.
LEMMA FoldsAdd ==
    ASSUME NEW v \in Seq(Int), NEW g, Folded(g, v)
    PROVE  /\ \E p : Partial(v, p)
           /\ \A p : Partial(v, p) => g[DOMAIN v] = p[Len(v)]
<1> DEFINE n == Len(v)
<1>1. DOMAIN v = 1..n /\ n \in Nat
  OBVIOUS
<1>2. g[{}] = 0
  <2>1. {} \in SUBSET DOMAIN v
    OBVIOUS
  <2> QED BY <2>1 DEF Folded
<1>3. \A k \in 1..n : g[1..k] \in Int /\ g[1..k] = g[1..(k - 1)] + v[k]
  <2> SUFFICES ASSUME NEW k \in 1..n
               PROVE  g[1..k] \in Int /\ g[1..k] = g[1..(k - 1)] + v[k]
    OBVIOUS
  <2>1. 1..k \in SUBSET DOMAIN v /\ k \in 1..k /\ (1..k) \ {k} = 1..(k - 1)
    BY <1>1
  <2>2. \A t \in SUBSET DOMAIN v : g[t] \in Int /\ \A y \in t : g[t] = g[t \ {y}] + v[y]
    BY FoldsAnyOrder
  <2>3. g[1..k] \in Int /\ g[1..k] = g[(1..k) \ {k}] + v[k]
    BY <2>1, <2>2, Zenon
  <2> QED BY <2>1, <2>3
<1>4. 1..0 = {}
  OBVIOUS
<1>5. \E p : Partial(v, p)
  <2> DEFINE p == [k \in 0..n |-> g[1..k]]
  <2>1. p \in [0..n -> Int]
    BY <1>1, <1>2, <1>3, <1>4
  <2>2. p[0] = 0
    BY <1>1, <1>2, <1>4
  <2>3. \A k \in 1..n : p[k] = p[k - 1] + v[k]
    BY <1>1, <1>3
  <2> QED BY <2>1, <2>2, <2>3 DEF Partial
<1>6. ASSUME NEW p, Partial(v, p) PROVE g[DOMAIN v] = p[n]
  <2> DEFINE S == {k \in Nat : k <= n => g[1..k] = p[k]}
  <2>1. 0 \in S
    BY <1>2, <1>4, <1>6 DEF Partial
  <2>2. \A k \in Nat : k \in S => k + 1 \in S
    <3> SUFFICES ASSUME NEW k \in S, k + 1 <= n PROVE g[1..(k + 1)] = p[k + 1]
      OBVIOUS
    <3>1. k \in Nat /\ k + 1 \in 1..n /\ g[1..k] = p[k] /\ (k + 1) - 1 = k
      BY <1>1, SMTT(30)
    <3> HIDE DEF S
    <3>2. p[k + 1] = p[k] + v[k + 1]
      BY <1>6, <3>1 DEF Partial
    <3> QED BY <1>3, <3>1, <3>2
  <2>3. Nat \subseteq S
    <3> HIDE DEF S
    <3> QED BY <2>1, <2>2, SetInduction
  <2> QED BY <1>1, <2>3
<1> QED BY <1>5, <1>6

\* The sum of a sequence of integers.
Total(v) == CHOOSE s : \E p : Partial(v, p) /\ s = p[Len(v)]

LEMMA TotalIs ==
    ASSUME NEW v \in Seq(Int)
    PROVE  /\ \E p : Partial(v, p)
           /\ \A p : Partial(v, p) => Total(v) = p[Len(v)]
           /\ \A g : Folded(g, v) => Total(v) = g[DOMAIN v]
           /\ Total(v) \in Int
<1>1. PICK g : Folded(g, v)
  BY FoldsExist
<1>2. (\E p : Partial(v, p)) /\ \A p : Partial(v, p) => g[DOMAIN v] = p[Len(v)]
  BY <1>1, FoldsAdd
<1>3. PICK q : Partial(v, q)
  BY <1>2
<1>4. \A p : Partial(v, p) => p[Len(v)] = q[Len(v)]
  BY <1>2, <1>3
<1>5. Total(v) = q[Len(v)]
  BY <1>3, <1>4 DEF Total
<1>6. q[Len(v)] \in Int
  BY <1>3 DEF Partial
<1>7. ASSUME NEW h, Folded(h, v) PROVE Total(v) = h[DOMAIN v]
  BY <1>3, <1>5, <1>7, FoldsAdd
<1> QED BY <1>3, <1>4, <1>5, <1>6, <1>7

LEMMA TotalOfNone == Total(<<>>) = 0
<1>1. Partial(<<>>, [k \in 0..0 |-> 0]) /\ <<>> \in Seq(Int) /\ Len(<<>>) = 0
  BY DEF Partial
<1>2. Total(<<>>) = [k \in 0..0 |-> 0][0]
  <2> DEFINE p == [k \in 0..0 |-> 0]
  <2> HIDE DEF p
  <2> QED BY <1>1, TotalIs DEF p
<1> QED BY <1>2

LEMMA TotalAppend ==
    ASSUME NEW v \in Seq(Int), NEW x \in Int
    PROVE  Append(v, x) \in Seq(Int) /\ Total(Append(v, x)) = Total(v) + x
<1> DEFINE n == Len(v)
           w == Append(v, x)
<1>1. n \in Nat /\ w \in Seq(Int) /\ Len(w) = n + 1 /\ w[n + 1] = x
      /\ \A k \in 1..n : w[k] = v[k]
  OBVIOUS
<1>2. PICK p : Partial(v, p)
  BY TotalIs
<1>3. Total(v) = p[n] /\ p[n] \in Int
  BY <1>2, TotalIs
<1> DEFINE r == [k \in 0..(n + 1) |-> IF k <= n THEN p[k] ELSE p[n] + x]
<1>4. Partial(w, r)
  <2>1. r \in [0..(n + 1) -> Int] /\ r[0] = 0
    BY <1>1, <1>2, <1>3 DEF Partial
  <2>2. ASSUME NEW k \in 1..(n + 1) PROVE r[k] = r[k - 1] + w[k]
    <3>1. CASE k <= n
      BY <1>1, <1>2, <3>1 DEF Partial
    <3>2. CASE k = n + 1
      BY <1>1, <3>2
    <3> QED BY <1>1, <3>1, <3>2
  <2> HIDE DEF w, r
  <2> QED BY <1>1, <2>1, <2>2 DEF Partial
<1>5. r[n + 1] = p[n] + x
  BY <1>1
<1> HIDE DEF w, r
<1>6. Total(w) = r[n + 1]
  BY <1>1, <1>4, TotalIs
<1> QED BY <1>1, <1>3, <1>5, <1>6 DEF w

LEMMA TotalWithout ==
    ASSUME NEW v \in Seq(Int), NEW i \in DOMAIN v, NEW w \in Seq(Int),
           Len(w) = Len(v) - 1,
           \A j \in DOMAIN w : w[j] = v[IF j < i THEN j ELSE j + 1]
    PROVE  Total(w) = Total(v) - v[i]
<1> DEFINE n == Len(v)
<1>1. /\ n \in Nat /\ i \in 1..n /\ DOMAIN w = 1..(n - 1) /\ n - 1 \in Nat
      /\ Len(w) = n - 1 /\ \A k \in 1..n : v[k] \in Int
      /\ \A j \in 1..(n - 1) : w[j] = v[IF j < i THEN j ELSE j + 1]
  <2>1. n \in Nat /\ i \in 1..n /\ \A k \in 1..n : v[k] \in Int
    OBVIOUS
  <2>2. Len(w) = n - 1 /\ Len(w) \in Nat /\ DOMAIN w = 1..Len(w)
    OBVIOUS
  <2>3. DOMAIN w = 1..(n - 1) /\ n - 1 \in Nat
    BY <2>2
  <2> HIDE DEF n
  <2> QED BY <2>1, <2>2, <2>3
<1>2. PICK p : Partial(v, p)
  BY TotalIs
<1>3. /\ Total(v) = p[n] /\ p[0] = 0 /\ \A k \in 0..n : p[k] \in Int
      /\ \A k \in 1..n : p[k] = p[k - 1] + v[k]
  BY <1>1, <1>2, TotalIs DEF Partial
<1> HIDE DEF n
<1> DEFINE r == [k \in 0..(n - 1) |-> IF k < i THEN p[k] ELSE p[k + 1] - v[i]]
<1>4. \A k \in 0..(n - 1) : r[k] = (IF k < i THEN p[k] ELSE p[k + 1] - v[i]) /\ r[k] \in Int
  <2> SUFFICES ASSUME NEW k \in 0..(n - 1)
               PROVE  (IF k < i THEN p[k] ELSE p[k + 1] - v[i]) \in Int
    OBVIOUS
  <2>1. k \in 0..n /\ k + 1 \in 0..n
    BY <1>1
  <2>2. p[k] \in Int /\ p[k + 1] \in Int /\ v[i] \in Int
    BY <1>1, <1>3, <2>1
  <2> QED BY <2>2
<1>5. Partial(w, r)
  <2>1. r \in [0..(n - 1) -> Int]
    BY <1>4
  <2> HIDE DEF r
  <2>2. r[0] = 0
    BY <1>1, <1>3, <1>4
  <2>3. ASSUME NEW k \in 1..(n - 1) PROVE r[k] = r[k - 1] + w[k]
    <3>1. /\ p[k + 1] = p[k] + v[k + 1] /\ p[k] = p[k - 1] + v[k]
          /\ p[k - 1] \in Int /\ p[k] \in Int /\ v[k] \in Int /\ v[k + 1] \in Int
          /\ v[i] \in Int
      <4>1. k \in 1..n /\ k + 1 \in 1..n /\ k - 1 \in 0..n /\ (k + 1) - 1 = k
        BY <1>1
      <4>2. p[k - 1] \in Int /\ p[k] \in Int /\ v[k] \in Int /\ v[k + 1] \in Int
            /\ v[i] \in Int
        <5>1. \A j \in 1..n : v[j] \in Int
          BY <1>1
        <5>2. \A j \in 0..n : p[j] \in Int
          BY <1>3
        <5>3. k \in 0..n /\ i \in 1..n
          BY <1>1, <4>1
        <5> QED BY <4>1, <5>1, <5>2, <5>3
      <4>3. p[k] = p[k - 1] + v[k]
        BY <1>3, <4>1
      <4>4. p[k + 1] = p[(k + 1) - 1] + v[k + 1]
        BY <1>3, <4>1
      <4> QED BY <4>1, <4>2, <4>3, <4>4
    <3>2. r[k] = (IF k < i THEN p[k] ELSE p[k + 1] - v[i])
          /\ r[k - 1] = (IF k <= i THEN p[k - 1] ELSE p[k] - v[i])
      BY <1>1, <1>4, SMTT(30)
    <3>3. w[k] = IF k < i THEN v[k] ELSE v[k + 1]
      BY <1>1
    <3>4. i \in Int /\ k \in Int
      BY <1>1
    <3>5. CASE k < i
      BY <3>1, <3>2, <3>3, <3>4, <3>5
    <3>6. CASE k = i
      <4>1. w[k] = v[k + 1] /\ r[k] = p[k + 1] - v[k] /\ r[k - 1] = p[k - 1]
        BY <3>2, <3>3, <3>4, <3>6
      <4> QED BY <3>1, <4>1, SMTT(30)
    <3>7. CASE k > i
      <4>1. w[k] = v[k + 1] /\ r[k] = p[k + 1] - v[i] /\ r[k - 1] = p[k] - v[i]
        BY <3>2, <3>3, <3>4, <3>7
      <4> QED BY <3>1, <4>1
    <3> QED BY <3>4, <3>5, <3>6, <3>7
  <2> QED BY <1>1, <2>1, <2>2, <2>3 DEF Partial
<1> HIDE DEF r
<1>6. r[n - 1] = p[n] - v[i]
  <2>1. CASE i <= n - 1
    BY <1>1, <1>4, <2>1
  <2>2. CASE i = n
    <3>1. r[n - 1] = p[n - 1] /\ p[n] = p[n - 1] + v[n] /\ p[n - 1] \in Int
      BY <1>1, <1>3, <1>4, <2>2
    <3> QED BY <1>1, <2>2, <3>1
  <2> QED BY <1>1, <2>1, <2>2
<1>7. Total(w) = r[n - 1]
  BY <1>1, <1>5, TotalIs
<1> QED BY <1>3, <1>6, <1>7

LEMMA TotalNat ==
    ASSUME NEW v \in Seq(Nat)
    PROVE  v \in Seq(Int) /\ Total(v) \in Nat
<1> DEFINE n == Len(v)
<1>1. v \in Seq(Int) /\ n \in Nat /\ \A k \in 1..n : v[k] \in Nat
  OBVIOUS
<1>2. PICK p : Partial(v, p)
  BY <1>1, TotalIs
<1>3. Total(v) = p[n] /\ p[0] = 0 /\ \A k \in 1..n : p[k] = p[k - 1] + v[k]
  BY <1>1, <1>2, TotalIs DEF Partial
<1> HIDE DEF n
<1> DEFINE S == {k \in Nat : k <= n => p[k] \in Nat}
<1>4. 0 \in S
  BY <1>3
<1>5. \A k \in Nat : k \in S => k + 1 \in S
  <2> SUFFICES ASSUME NEW k \in S, k + 1 <= n PROVE p[k + 1] \in Nat
    OBVIOUS
  <2>1. k + 1 \in 1..n /\ p[k] \in Nat /\ (k + 1) - 1 = k
    BY <1>1
  <2>2. p[k + 1] = p[k] + v[k + 1] /\ v[k + 1] \in Nat
    BY <1>1, <1>3, <2>1
  <2> QED BY <2>1, <2>2
<1>6. Nat \subseteq S
  <2> HIDE DEF S
  <2> QED BY <1>4, <1>5, SetInduction
<1> QED BY <1>1, <1>3, <1>6

LEMMA TotalOfOne ==
    ASSUME NEW x \in Int
    PROVE  Total(<<x>>) = x
<1> DEFINE e == <<>>
<1>1. e \in Seq(Int) /\ Append(e, x) = <<x>>
  OBVIOUS
<1>2. Total(e) = 0
  BY TotalOfNone
<1> HIDE DEF e
<1>3. Total(Append(e, x)) = Total(e) + x
  BY <1>1, TotalAppend
<1> QED BY <1>1, <1>2, <1>3

-----------------------------------------------------------------------------
(* The session's lists.                                                    *)

\* Only the head of the queue runs, and what it read is the history as it is.
HeadRuns ==
    \A i \in DOMAIN sessionQueue :
        sessionQueue[i].pc = "writing" => i = 1 /\ sessionQueue[i].seen = history

\* An append that no other met is alone, and what it read is the log as it is.
LogAlone ==
    ~raced => /\ Len(logging) <= 1
              /\ \A i \in DOMAIN logging :
                     logging[i].pc = "writing" => logging[i].seen = log

SessionInv ==
    Session!TypeOK /\ Session!HistoryExact /\ Session!LogExact /\ HeadRuns /\ LogAlone

SessionTask == [entry : Nat, kind : {"history", "badge"}, pc : {"reading", "writing"},
                seen : Seq(Nat)]
LogTask == [entry : Nat, pc : {"reading", "writing"}, seen : Seq(Nat)]

\* The newest max of a list of n, newest first: the i-th is the i-th from the end.
LEMMA NewestIs ==
    ASSUME NEW s \in Seq(Nat), NEW max \in Nat
    PROVE  /\ Session!NewestOf(s, max) \in Seq(Nat)
           /\ Len(Session!NewestOf(s, max)) = IF Len(s) > max THEN max ELSE Len(s)
           /\ \A i \in 1..Len(Session!NewestOf(s, max)) :
                  Session!NewestOf(s, max)[i] = s[Len(s) - i + 1]
<1> DEFINE from == IF Len(s) > max THEN Len(s) - max + 1 ELSE 1
           n == IF Len(s) > max THEN max ELSE Len(s)
           t == SubSeq(s, from, Len(s))
<1>1. from \in 1..Len(s) + 1 /\ n \in 0..Len(s) /\ Len(s) \in Nat /\ from + n = Len(s) + 1
  OBVIOUS
<1>a. DOMAIN s = 1..Len(s) /\ \A i \in from..Len(s) : s[i] \in Nat
  BY <1>1
<1>b. t = SubSeq(s, from, Len(s))
  OBVIOUS
<1>c. /\ SubSeq(s, from, Len(s)) \in Seq(Nat)
      /\ Len(SubSeq(s, from, Len(s))) = IF from <= Len(s) THEN Len(s) - from + 1 ELSE 0
      /\ \A i \in 1..Len(s) - from + 1 : SubSeq(s, from, Len(s))[i] = s[from + i - 1]
  <2> HIDE DEF from
  <2>1. from \in Int /\ Len(s) \in Int
    BY <1>1
  <2> QED BY <2>1, <1>a, SubSeqProperties
<1> HIDE DEF t, from, n
<1>2. t \in Seq(Nat) /\ Len(t) = n
  BY <1>1, <1>b, <1>c
<1>3. \A i \in 1..n : t[i] = s[from + i - 1]
  BY <1>1, <1>b, <1>c
<1> USE DEF n
<1>4. Session!NewestOf(s, max) = [i \in 1..n |-> t[(n - i) + 1]]
  <2>1. Session!NewestOf(s, max) = Session!Reverse(t)
    BY DEF Session!NewestOf, t, from
  <2> QED BY <2>1, <1>2 DEF Session!Reverse
<1> HIDE DEF t, n, from
<1>5. \A i \in 1..n : t[(n - i) + 1] = s[Len(s) - i + 1] /\ t[(n - i) + 1] \in Nat
  <2> SUFFICES ASSUME NEW i \in 1..n
               PROVE  t[(n - i) + 1] = s[Len(s) - i + 1] /\ t[(n - i) + 1] \in Nat
    OBVIOUS
  <2>1. (n - i) + 1 \in 1..n /\ from + ((n - i) + 1) - 1 = Len(s) - i + 1
    BY <1>1
  <2> QED BY <2>1, <1>2, <1>3
<1>6. [i \in 1..n |-> t[(n - i) + 1]] \in Seq(Nat)
  BY <1>1, <1>5, IsASeq
<1>7. /\ Session!NewestOf(s, max) \in Seq(Nat)
      /\ Len(Session!NewestOf(s, max)) = n
      /\ \A i \in 1..n : Session!NewestOf(s, max)[i] = s[Len(s) - i + 1]
  BY <1>1, <1>4, <1>5, <1>6
<1> QED BY <1>7 DEF n

LEMMA EmptyNewest ==
    ASSUME NEW max \in Nat
    PROVE  Session!NewestOf(<<>>, max) = <<>>
<1>1. <<>> \in Seq(Nat) /\ Len(<<>>) = 0
  OBVIOUS
<1>2. /\ Session!NewestOf(<<>>, max) \in Seq(Nat)
      /\ Len(Session!NewestOf(<<>>, max)) = IF Len(<<>>) > max THEN max ELSE Len(<<>>)
  BY <1>1, NewestIs
<1> QED BY <1>1, <1>2

\* Prepending to the newest max of a list gives the newest max of the longer list.
LEMMA PrependNewest ==
    ASSUME NEW s \in Seq(Nat), NEW max \in Nat, NEW e \in Nat
    PROVE  Session!Prepend(e, Session!NewestOf(s, max), max)
               = Session!NewestOf(Append(s, e), max)
<1> DEFINE old1 == Session!NewestOf(s, max)
           new1 == Session!NewestOf(Append(s, e), max)
           n == IF Len(s) > max THEN max ELSE Len(s)
           k == IF Len(s) + 1 > max THEN max ELSE Len(s) + 1
           got == Session!Prepend(e, old1, max)
<1>1. old1 \in Seq(Nat) /\ Len(old1) = n /\ \A i \in 1..n : old1[i] = s[Len(s) - i + 1]
  BY NewestIs
<1>2. Append(s, e) \in Seq(Nat) /\ Len(Append(s, e)) = Len(s) + 1
  OBVIOUS
<1>3. /\ new1 \in Seq(Nat) /\ Len(new1) = k
      /\ \A i \in 1..k : new1[i] = Append(s, e)[Len(s) + 1 - i + 1]
  <2> DEFINE u == Append(s, e)
  <2>1. u \in Seq(Nat) /\ Len(u) = Len(s) + 1
    BY <1>2
  <2> HIDE DEF u
  <2>2. /\ Session!NewestOf(u, max) \in Seq(Nat)
        /\ Len(Session!NewestOf(u, max)) = k
        /\ \A i \in 1..k : Session!NewestOf(u, max)[i] = u[Len(s) + 1 - i + 1]
    <3>1. /\ Session!NewestOf(u, max) \in Seq(Nat)
          /\ Len(Session!NewestOf(u, max)) = IF Len(u) > max THEN max ELSE Len(u)
          /\ \A i \in 1..Len(Session!NewestOf(u, max)) :
                 Session!NewestOf(u, max)[i] = u[Len(u) - i + 1]
      BY <2>1, NewestIs
    <3> HIDE DEF k
    <3>2. Len(Session!NewestOf(u, max)) = k
      BY <3>1, <2>1 DEF k
    <3>3. \A i \in 1..k : Session!NewestOf(u, max)[i] = u[Len(s) + 1 - i + 1]
      BY <3>1, <3>2, <2>1, SMTT(30)
    <3> QED BY <3>1, <3>2, <3>3
  <2> QED BY <2>2 DEF u
<1>4. got = SubSeq(<<e>> \o old1, 1, IF n < max THEN n + 1 ELSE max)
  BY <1>1 DEF Session!Prepend
<1> HIDE DEF old1, new1, got
<1>5. (IF n < max THEN n + 1 ELSE max) = k /\ k \in 0..n + 1 /\ n \in Nat
  OBVIOUS
<1>6. <<e>> \o old1 \in Seq(Nat) /\ Len(<<e>> \o old1) = n + 1
  BY <1>1
<1>a. got = SubSeq(<<e>> \o old1, 1, k)
  BY <1>4, <1>5
<1> HIDE DEF k, n
<1>7. got \in Seq(Nat) /\ Len(got) = k
  <2>1. \A i \in 1..k : (<<e>> \o old1)[i] \in Nat
    BY <1>5, <1>6
  <2> QED BY <2>1, <1>5, <1>6, <1>a, SubSeqProperties
<1>8. \A i \in 1..k : got[i] = (<<e>> \o old1)[i]
  BY <1>5, <1>6, <1>a
<1>9. \A i \in 1..k : got[i] = new1[i]
  <2> SUFFICES ASSUME NEW i \in 1..k PROVE got[i] = new1[i]
    OBVIOUS
  <2>1. CASE i = 1
    BY <2>1, <1>1, <1>3, <1>8
  <2>2. CASE i # 1
    <3>1. i - 1 \in 1..n /\ Len(s) - (i - 1) + 1 = Len(s) + 1 - i + 1
          /\ Len(s) - (i - 1) + 1 \in 1..Len(s)
      BY <2>2, <1>5 DEF n, k
    <3>2. (<<e>> \o old1)[i] = old1[i - 1]
      <4> DEFINE a == <<e>>
      <4>1. a \in Seq(Nat) /\ Len(a) = 1 /\ old1 \in Seq(Nat) /\ Len(old1) = n
        BY <1>1 DEF n
      <4> HIDE DEF a, old1
      <4>2. \A j \in 1..Len(a) + Len(old1) :
                (a \o old1)[j] = IF j <= Len(a) THEN a[j] ELSE old1[j - Len(a)]
        BY <4>1, ConcatProperties
      <4>3. n \in Nat /\ i \in 1..1 + n /\ ~(i <= 1)
        BY <4>1, <3>1, <2>2
      <4>4. (a \o old1)[i] = old1[i - 1]
        BY <4>1, <4>2, <4>3
      <4> QED BY <4>4 DEF a
    <3>3. Append(s, e)[Len(s) - (i - 1) + 1] = s[Len(s) - (i - 1) + 1]
      BY <3>1
    <3> QED BY <3>1, <3>2, <3>3, <1>1, <1>3, <1>8
  <2> QED BY <2>1, <2>2
<1> QED BY <1>3, <1>7, <1>9, SeqEqual DEF got, new1, old1

LEMMA SessionInit == Session!Init => SessionInv
<1> SUFFICES ASSUME Session!Init PROVE SessionInv
  OBVIOUS
<1>1. Session!TypeOK
  <2>1. \A S : <<>> \in Seq(S)
    OBVIOUS
  <2>2. <<>> \in Session!Entries
    BY <2>1 DEF Session!Entries
  <2> QED BY <2>1, <2>2 DEF Session!Init, Session!TypeOK
<1>a. HeadRuns /\ LogAlone
  BY DEF Session!Init, HeadRuns, LogAlone
<1> QED BY <1>1, <1>a, EmptyNewest, BoundsAssumption
        DEF Session!Init, SessionInv, Session!HistoryExact, Session!LogExact

\* A task enters the queue, or the log, behind the others.
LEMMA SessionJoins ==
    ASSUME SessionInv,
           Session!AppendHistory \/ Session!UpdateTabBadge \/ Session!AppendSessionLog
    PROVE  SessionInv'
<1> USE DEF SessionInv
<1>1. /\ sessionQueue \in Seq(SessionTask) /\ logging \in Seq(LogTask)
      /\ history \in Seq(Nat) /\ log \in Seq(Nat)
  BY DEF Session!TypeOK, SessionTask, LogTask, Session!Entries
<1>2. ASSUME NEW kind \in {"history", "badge"}, Session!Enqueue(kind)
      PROVE  SessionInv'
  <2> DEFINE task == [entry |-> appends', kind |-> kind, pc |-> "reading", seen |-> <<>>]
  <2>1. appends' \in Nat /\ sessionQueue' = Append(sessionQueue, task)
    BY <1>2 DEF Session!Enqueue, Session!TypeOK
  <2>2. task \in SessionTask /\ task.pc = "reading"
    BY <2>1 DEF SessionTask
  <2> HIDE DEF task
  <2>3. /\ sessionQueue' \in Seq(SessionTask)
        /\ Len(sessionQueue') = Len(sessionQueue) + 1
        /\ \A i \in DOMAIN sessionQueue' :
               sessionQueue'[i] = IF i = Len(sessionQueue) + 1 THEN task ELSE sessionQueue[i]
    BY <2>1, <2>2, <1>1
  <2>4. UNCHANGED <<history, log, logging, added, logged, raced, logs, sessionRestarts,
                    sessionFaults>>
    BY <1>2 DEF Session!Enqueue
  <2>5. Session!TypeOK'
    BY <2>1, <2>3, <2>4 DEF Session!TypeOK, SessionTask, Session!Entries
  <2>6. HeadRuns'
    <3>1. \A i \in DOMAIN sessionQueue' :
             i # Len(sessionQueue) + 1 => i \in DOMAIN sessionQueue
      BY <2>3, <1>1
    <3> QED BY <3>1, <2>2, <2>3, <2>4 DEF HeadRuns
  <2>7. Session!HistoryExact' /\ Session!LogExact' /\ LogAlone'
    BY <2>4 DEF Session!HistoryExact, Session!LogExact, LogAlone
  <2> QED BY <2>5, <2>6, <2>7
<1>3. CASE Session!AppendSessionLog
  <2> DEFINE task == [entry |-> logs', pc |-> "reading", seen |-> <<>>]
  <2>1. /\ logs' \in Nat /\ logging' = Append(logging, task)
        /\ raced' = (raced \/ logging # <<>>)
    BY <1>3 DEF Session!AppendSessionLog, Session!TypeOK
  <2>2. task \in LogTask /\ task.pc = "reading"
    BY <2>1 DEF LogTask
  <2> HIDE DEF task
  <2>3. /\ logging' \in Seq(LogTask)
        /\ Len(logging') = Len(logging) + 1
        /\ \A i \in DOMAIN logging' :
               logging'[i] = IF i = Len(logging) + 1 THEN task ELSE logging[i]
    BY <2>1, <2>2, <1>1
  <2>4. UNCHANGED <<history, sessionQueue, log, added, logged, appends, sessionRestarts,
                    sessionFaults>>
    BY <1>3 DEF Session!AppendSessionLog
  <2>5. Session!TypeOK'
    <3>1. raced' \in BOOLEAN
      BY <2>1 DEF Session!TypeOK
    <3> QED BY <3>1, <2>1, <2>3, <2>4 DEF Session!TypeOK, LogTask, Session!Entries
  <2>6. LogAlone'
    <3> SUFFICES ASSUME ~raced'
                 PROVE  Len(logging') <= 1 /\ \A i \in DOMAIN logging' :
                            logging'[i].pc = "writing" => logging'[i].seen = log'
      BY DEF LogAlone
    <3>1. logging = <<>>
      BY <2>1
    <3> QED BY <3>1, <2>2, <2>3
  <2>7. Session!HistoryExact' /\ Session!LogExact' /\ HeadRuns'
    <3>1. ~raced' => ~raced
      BY <2>1
    <3> QED BY <3>1, <2>4 DEF Session!HistoryExact, Session!LogExact, HeadRuns
  <2> QED BY <2>5, <2>6, <2>7
<1> QED BY <1>2, <1>3 DEF Session!AppendHistory, Session!UpdateTabBadge

\* A task of the history's queue reads, writes or fails.
LEMMA SessionQueueRuns ==
    ASSUME SessionInv, NEW i \in DOMAIN sessionQueue,
           Session!TaskReads(i) \/ Session!TaskWrites(i) \/ Session!TaskFails(i)
    PROVE  SessionInv'
<1> USE DEF SessionInv
<1>1. /\ sessionQueue \in Seq(SessionTask) /\ sessionQueue[i] \in SessionTask
      /\ history \in Seq(Nat) /\ added \in Seq(Nat)
  <2>1. /\ sessionQueue \in Seq(SessionTask)
        /\ history \in Seq(Nat) /\ added \in Seq(Nat)
    BY DEF Session!TypeOK, SessionTask, Session!Entries
  <2> QED BY <2>1
<1>2. i = 1
  BY DEF Session!TaskReads, Session!TaskWrites, Session!TaskFails, Session!Runs
<1>3. UNCHANGED <<log, logging, logged, raced, appends, logs, sessionRestarts>>
      /\ sessionFaults' \in Nat
  BY DEF Session!TaskReads, Session!TaskWrites, Session!TaskFails, Session!Fails,
         Session!bounds, Session!TypeOK
<1>4. Session!LogExact' /\ LogAlone'
  BY <1>3 DEF Session!LogExact, LogAlone
<1>5. CASE Session!TaskReads(i)
  <2> DEFINE task == [sessionQueue[i] EXCEPT !.pc = "writing", !.seen = history]
  <2>1. UNCHANGED <<history, added>> /\ sessionQueue' = [sessionQueue EXCEPT ![i] = task]
    BY <1>5 DEF Session!TaskReads
  <2>2. task \in SessionTask /\ task.seen = history
    BY <1>1 DEF SessionTask
  <2> HIDE DEF task
  <2>3. /\ sessionQueue' \in Seq(SessionTask) /\ DOMAIN sessionQueue' = DOMAIN sessionQueue
        /\ \A j \in DOMAIN sessionQueue :
               sessionQueue'[j] = IF j = i THEN task ELSE sessionQueue[j]
    BY <2>1, <2>2, <1>1
  <2>4. Session!TypeOK'
    BY <2>1, <2>3, <1>3 DEF Session!TypeOK, SessionTask, Session!Entries
  <2>5. HeadRuns' /\ Session!HistoryExact'
    BY <2>1, <2>2, <2>3, <1>2 DEF HeadRuns, Session!HistoryExact
  <2> QED BY <2>4, <2>5, <1>4
<1>6. CASE Session!TaskWrites(i) \/ Session!TaskFails(i)
  <2>0. sessionQueue' = Session!RemoveAt(sessionQueue, i)
    BY <1>6 DEF Session!TaskWrites, Session!TaskFails
  <2>1. /\ sessionQueue' \in Seq(SessionTask)
        /\ \A j \in DOMAIN sessionQueue' :
               j + 1 \in DOMAIN sessionQueue /\ sessionQueue'[j] = sessionQueue[j + 1]
    <3>1. /\ sessionQueue' \in Seq(SessionTask)
          /\ Len(sessionQueue') = Len(sessionQueue) - 1
          /\ \A j \in DOMAIN sessionQueue' :
                 sessionQueue'[j] = sessionQueue[IF j < i THEN j ELSE j + 1]
      BY <1>1, <2>0, Removed
    <3>2. DOMAIN sessionQueue' = 1..Len(sessionQueue) - 1
          /\ DOMAIN sessionQueue = 1..Len(sessionQueue) /\ Len(sessionQueue) \in Nat
      BY <3>1, <1>1
    <3> QED BY <3>1, <3>2, <1>2
  <2>2. HeadRuns'
    <3> SUFFICES ASSUME NEW j \in DOMAIN sessionQueue' PROVE sessionQueue'[j].pc # "writing"
      BY DEF HeadRuns
    <3>1. j \in Nat \ {0} /\ j + 1 # 1
      BY <2>1
    <3> QED BY <3>1, <2>1 DEF HeadRuns
  <2>3. CASE UNCHANGED <<history, added>>
    <3>1. Session!TypeOK'
      BY <2>1, <2>3, <1>3 DEF Session!TypeOK, SessionTask, Session!Entries
    <3> QED BY <3>1, <2>2, <2>3, <1>4 DEF Session!HistoryExact
  <2>4. CASE /\ sessionQueue[i].pc = "writing"
             /\ history' = Session!Prepend(sessionQueue[i].entry, sessionQueue[i].seen, HistoryMax)
             /\ added' = Append(added, sessionQueue[i].entry)
    <3> DEFINE e == sessionQueue[i].entry
    <3>1. e \in Nat
      BY <1>1 DEF SessionTask
    <3>2. sessionQueue[i].seen = Session!NewestOf(added, HistoryMax)
      BY <2>4 DEF HeadRuns, Session!HistoryExact
    <3>3. history' = Session!Prepend(e, Session!NewestOf(added, HistoryMax), HistoryMax)
          /\ added' = Append(added, e)
      BY <2>4, <3>2
    <3> HIDE DEF e
    <3>4. history' = Session!NewestOf(Append(added, e), HistoryMax)
      BY <3>1, <3>3, <1>1, PrependNewest, BoundsAssumption
    <3>5. added' \in Seq(Nat)
      BY <3>1, <3>3, <1>1
    <3>6. history' = Session!NewestOf(added', HistoryMax)
      BY <3>3, <3>4
    <3>7. history' \in Seq(Nat)
      <4> DEFINE a == added'
      <4>1. a \in Seq(Nat) /\ history' = Session!NewestOf(a, HistoryMax)
        BY <3>5, <3>6
      <4> HIDE DEF a
      <4> QED BY <4>1, NewestIs, BoundsAssumption
    <3>8. Session!TypeOK'
      BY <2>1, <3>5, <3>7, <1>3 DEF Session!TypeOK, SessionTask, Session!Entries
    <3> QED BY <3>6, <3>8, <2>2, <1>4 DEF Session!HistoryExact
  <2> QED BY <2>3, <2>4, <1>6 DEF Session!TaskWrites, Session!TaskFails
<1> QED BY <1>5, <1>6

\* A run of appendSessionLog reads, writes or fails.
LEMMA SessionLogRuns ==
    ASSUME SessionInv, NEW i \in DOMAIN logging,
           Session!LogReads(i) \/ Session!LogWrites(i) \/ Session!LogFails(i)
    PROVE  SessionInv'
<1> USE DEF SessionInv
<1>1. /\ logging \in Seq(LogTask) /\ logging[i] \in LogTask
      /\ log \in Seq(Nat) /\ logged \in Seq(Nat)
  <2>1. /\ logging \in Seq(LogTask)
        /\ log \in Seq(Nat) /\ logged \in Seq(Nat)
    BY DEF Session!TypeOK, LogTask, Session!Entries
  <2> QED BY <2>1
<1>2. ~raced => i = 1 /\ Len(logging) = 1
  <2>1. i \in 1..Len(logging) /\ Len(logging) \in Nat
    BY <1>1
  <2>2. ~raced => Len(logging) <= 1
    BY DEF LogAlone
  <2> QED BY <2>1, <2>2
<1>3. UNCHANGED <<history, sessionQueue, added, raced, appends, logs, sessionRestarts>>
      /\ sessionFaults' \in Nat
  BY DEF Session!LogReads, Session!LogWrites, Session!LogFails, Session!Fails,
         Session!bounds, Session!TypeOK
<1>4. Session!HistoryExact' /\ HeadRuns'
  BY <1>3 DEF Session!HistoryExact, HeadRuns
<1>5. CASE Session!LogReads(i)
  <2> DEFINE task == [logging[i] EXCEPT !.pc = "writing", !.seen = log]
  <2>1. UNCHANGED <<log, logged>> /\ logging' = [logging EXCEPT ![i] = task]
    BY <1>5 DEF Session!LogReads
  <2>2. task \in LogTask /\ task.seen = log
    BY <1>1 DEF LogTask
  <2> HIDE DEF task
  <2>3. /\ logging' \in Seq(LogTask) /\ Len(logging') = Len(logging)
        /\ DOMAIN logging' = DOMAIN logging
        /\ \A j \in DOMAIN logging : logging'[j] = IF j = i THEN task ELSE logging[j]
    BY <2>1, <2>2, <1>1
  <2>4. Session!TypeOK'
    BY <2>1, <2>3, <1>3 DEF Session!TypeOK, LogTask, Session!Entries
  <2>5. LogAlone'
    <3> SUFFICES ASSUME ~raced'
                 PROVE  Len(logging') <= 1 /\ \A j \in DOMAIN logging' :
                            logging'[j].pc = "writing" => logging'[j].seen = log'
      BY DEF LogAlone
    <3>1. i = 1 /\ Len(logging') = 1
      BY <1>2, <1>3, <2>3
    <3>2. \A j \in DOMAIN logging' : j = i
      BY <3>1, <2>3
    <3> QED BY <3>1, <3>2, <2>1, <2>2, <2>3
  <2>6. Session!LogExact'
    BY <2>1, <1>3 DEF Session!LogExact
  <2> QED BY <2>4, <2>5, <2>6, <1>4
<1>6. CASE Session!LogWrites(i) \/ Session!LogFails(i)
  <2>0. logging' = Session!RemoveAt(logging, i)
    BY <1>6 DEF Session!LogWrites, Session!LogFails
  <2>1. /\ logging' \in Seq(LogTask) /\ Len(logging') = Len(logging) - 1
        /\ Len(logging) \in Nat
    BY <1>1, <2>0, Removed
  <2>2. LogAlone'
    <3> SUFFICES ASSUME ~raced'
                 PROVE  Len(logging') <= 1 /\ \A j \in DOMAIN logging' :
                            logging'[j].pc = "writing" => logging'[j].seen = log'
      BY DEF LogAlone
    <3>1. Len(logging') = 0
      BY <1>2, <1>3, <2>1
    <3>2. DOMAIN logging' = {}
      BY <3>1, <2>1
    <3> QED BY <3>1, <3>2
  <2>3. CASE UNCHANGED <<log, logged>>
    <3>1. Session!TypeOK'
      BY <2>1, <2>3, <1>3 DEF Session!TypeOK, LogTask, Session!Entries
    <3>2. Session!LogExact'
      BY <2>3, <1>3 DEF Session!LogExact
    <3> QED BY <3>1, <3>2, <2>2, <1>4
  <2>4. CASE Session!LogWrites(i)
    <3> DEFINE e == logging[i].entry
               seen == logging[i].seen
    <3>1. e \in Nat /\ seen \in Seq(Nat)
      BY <1>1 DEF LogTask
    <3>2. log' = Session!Prepend(e, seen, LogMax) /\ logged' = Append(logged, e)
      BY <2>4 DEF Session!LogWrites, Session!Logged
    <3>3. ~raced => seen = Session!NewestOf(logged, LogMax)
      BY <2>4 DEF Session!LogWrites, LogAlone, Session!LogExact
    <3> HIDE DEF e, seen
    <3>4. ~raced => log' = Session!NewestOf(Append(logged, e), LogMax)
      BY <3>1, <3>2, <3>3, <1>1, PrependNewest, BoundsAssumption
    <3>5. Session!LogExact'
      BY <3>2, <3>4, <1>3 DEF Session!LogExact
    <3>6. log' \in Seq(Nat) /\ logged' \in Seq(Nat)
      <4> DEFINE n == IF Len(seen) < LogMax THEN Len(seen) + 1 ELSE LogMax
                 all == <<e>> \o seen
      <4>1. n \in 0..Len(seen) + 1 /\ Len(seen) \in Nat
        BY <3>1, BoundsAssumption
      <4>2. all \in Seq(Nat) /\ Len(all) = Len(seen) + 1
        BY <3>1
      <4>3. log' = SubSeq(all, 1, n)
        BY <3>2 DEF Session!Prepend
      <4> HIDE DEF n, all
      <4>4. \A j \in 1..n : all[j] \in Nat
        BY <4>1, <4>2
      <4>5. log' \in Seq(Nat)
        BY <4>1, <4>3, <4>4, SubSeqProperties
      <4> QED BY <4>5, <3>1, <3>2, <1>1
    <3>7. Session!TypeOK'
      BY <2>1, <3>6, <1>3 DEF Session!TypeOK, LogTask, Session!Entries
    <3> QED BY <3>5, <3>7, <2>2, <1>4
  <2> QED BY <2>3, <2>4, <1>6 DEF Session!LogFails
<1> QED BY <1>5, <1>6

\* The log is cleared, or the worker stops.
LEMMA SessionEnds ==
    ASSUME SessionInv, Session!ClearDebugLog \/ Session!Restart
    PROVE  SessionInv'
<1> USE DEF SessionInv
<1>1. CASE Session!ClearDebugLog
  <2>1. /\ log' = <<>> /\ logged' = <<>> /\ raced' = (logging # <<>>)
        /\ UNCHANGED <<history, sessionQueue, logging, added, appends, logs,
                       sessionRestarts, sessionFaults>>
    BY <1>1 DEF Session!ClearDebugLog, Session!bounds
  <2>2. <<>> \in Session!Entries
    BY DEF Session!Entries
  <2>3. Session!TypeOK'
    BY <2>1, <2>2 DEF Session!TypeOK
  <2>4. Session!LogExact'
    BY <2>1, EmptyNewest, BoundsAssumption DEF Session!LogExact
  <2>5. LogAlone'
    <3>1. ~raced' => logging' = <<>>
      BY <2>1
    <3> QED BY <3>1 DEF LogAlone
  <2>6. Session!HistoryExact' /\ HeadRuns'
    BY <2>1 DEF Session!HistoryExact, HeadRuns
  <2> QED BY <2>3, <2>4, <2>5, <2>6
<1>2. CASE Session!Restart
  <2>1. /\ sessionQueue' = <<>> /\ logging' = <<>> /\ sessionRestarts' = sessionRestarts + 1
        /\ UNCHANGED <<history, log, added, logged, raced, appends, logs, sessionFaults>>
    BY <1>2 DEF Session!Restart
  <2>2. \A S : <<>> \in Seq(S)
    OBVIOUS
  <2>3. Session!TypeOK'
    BY <2>1, <2>2 DEF Session!TypeOK
  <2>4. HeadRuns' /\ LogAlone' /\ Session!HistoryExact' /\ Session!LogExact'
    BY <2>1 DEF HeadRuns, LogAlone, Session!HistoryExact, Session!LogExact
  <2> QED BY <2>3, <2>4
<1> QED BY <1>1, <1>2

LEMMA SessionNext == SessionInv /\ [Session!Next]_(Session!vars) => SessionInv'
<1> SUFFICES ASSUME SessionInv, [Session!Next]_(Session!vars) PROVE SessionInv'
  OBVIOUS
<1>1. CASE Session!Next
  BY <1>1, SessionJoins, SessionQueueRuns, SessionLogRuns, SessionEnds
     DEF Session!Next, Session!TaskStep, Session!LogStep
<1>2. CASE UNCHANGED Session!vars
  <2>1. SessionInv
    OBVIOUS
  <2> QED BY <1>2, <2>1 DEF SessionInv, Session!vars, Session!bounds, Session!TypeOK, HeadRuns,
                    LogAlone, Session!HistoryExact, Session!LogExact
<1> QED BY <1>1, <1>2

LEMMA SessionRuns == RunSpec => Session!Spec
<1>1. RunInit => Session!Init
  BY DEF RunInit
<1>2. [RunNext]_allVars => [Session!Next]_(Session!vars)
  BY DEF RunNext, allVars, sessionVars, Session!vars, Session!bounds
<1> QED BY <1>1, <1>2, PTL DEF RunSpec, Session!Spec

\* Recent history and, while no two of its appends overlapped, the debug log hold
\* exactly the newest of what was appended since they were last cleared
\* (appendHistory behind withSessionMutation, appendSessionLog), for any capacity,
\* any number of appends, failing calls and restarts.
THEOREM RecordsAreExact == RunSpec => []RecordsExact
<1>1. SessionInv => RecordsExact
  BY DEF SessionInv, RecordsExact
<1> QED BY <1>1, SessionInit, SessionNext, SessionRuns, PTL DEF Session!Spec

-----------------------------------------------------------------------------
(* The ledger.                                                             *)

\* What is stored, or on its way there, is within the capacity.
LedgerFits ==
    /\ Len(ledgerStored) <= LedgerCap
    /\ \A i \in DOMAIN writes : Len(writes[i]) <= LedgerCap

\* Before the hydration nothing is held or sent, and whatever was asked waits.
LedgerCold == ~hydrated => ledger = <<>> /\ writes = <<>> /\ waiting = asked

\* The last write on its way carries the ledger as it is.
LastSent == hydrated /\ writes # <<>> => writes[Len(writes)] = ledger

LedgerInv ==
    /\ Ledger!TypeOK /\ Ledger!NothingLostToHydration /\ Ledger!MirrorConverges
    /\ LedgerFits /\ LedgerCold /\ LastSent

LEMMA Newest ==
    ASSUME NEW u \in Seq(Nat)
    PROVE  /\ Ledger!Newest(u) \in Seq(Nat)
           /\ Len(Ledger!Newest(u)) = IF Len(u) > LedgerCap THEN LedgerCap ELSE Len(u)
           /\ \A i \in 1..Len(Ledger!Newest(u)) :
                  Ledger!Newest(u)[i] = u[i + Len(u) - Len(Ledger!Newest(u))]
<1> DEFINE from == IF Len(u) > LedgerCap THEN Len(u) - LedgerCap + 1 ELSE 1
           n == IF Len(u) > LedgerCap THEN LedgerCap ELSE Len(u)
<1>1. from \in 1..Len(u) + 1 /\ n \in Nat /\ Len(u) \in Nat /\ from + n = Len(u) + 1
  BY BoundsAssumption
<1>2. \A i \in from..Len(u) : u[i] \in Nat
  BY <1>1
<1>3. Ledger!Newest(u) = SubSeq(u, from, Len(u))
  BY DEF Ledger!Newest
<1> HIDE DEF from, n
<1>4. /\ Ledger!Newest(u) \in Seq(Nat)
      /\ Len(Ledger!Newest(u)) = IF from <= Len(u) THEN Len(u) - from + 1 ELSE 0
      /\ \A i \in 1..Len(u) - from + 1 : Ledger!Newest(u)[i] = u[from + i - 1]
  <2>1. from \in Int /\ Len(u) \in Int
    BY <1>1
  <2> QED BY <2>1, <1>2, <1>3, SubSeqProperties
<1>5. Len(Ledger!Newest(u)) = n
  BY <1>1, <1>4
<1>6. \A i \in 1..n : Ledger!Newest(u)[i] = u[i + Len(u) - n]
  <2> SUFFICES ASSUME NEW i \in 1..n PROVE Ledger!Newest(u)[i] = u[i + Len(u) - n]
    OBVIOUS
  <2>1. i \in 1..Len(u) - from + 1 /\ from + i - 1 = i + Len(u) - n
    BY <1>1
  <2> QED BY <2>1, <1>4
<1> QED BY <1>4, <1>5, <1>6 DEF n

\* A ledger within its capacity is its own newest part.
LEMMA NewestOfShort ==
    ASSUME NEW u \in Seq(Nat), Len(u) <= LedgerCap
    PROVE  Ledger!Newest(u) = u
<1>1. /\ Ledger!Newest(u) \in Seq(Nat) /\ Len(Ledger!Newest(u)) = Len(u)
      /\ \A i \in 1..Len(u) : Ledger!Newest(u)[i] = u[i + Len(u) - Len(Ledger!Newest(u))]
  <2>1. Len(u) \in Nat /\ ~(Len(u) > LedgerCap)
    BY BoundsAssumption
  <2> QED BY <2>1, Newest
<1>2. \A i \in 1..Len(u) : Ledger!Newest(u)[i] = u[i]
  <2>1. \A i \in 1..Len(u) : i + Len(u) - Len(u) = i
    OBVIOUS
  <2> QED BY <1>1, <2>1
<1> QED BY <1>1, <1>2, SeqEqual

\* Pushing an event onto the newest part of a list gives that of the longer list.
LEMMA PushNewest ==
    ASSUME NEW u \in Seq(Nat), NEW e \in Nat
    PROVE  Ledger!PushEvent(Ledger!Newest(u), e) = Ledger!Newest(Append(u, e))
<1> DEFINE a == Ledger!Newest(u)
           b == Append(a, e)
           c == Append(u, e)
           m == IF Len(u) > LedgerCap THEN LedgerCap ELSE Len(u)
           k == IF Len(u) + 1 > LedgerCap THEN LedgerCap ELSE Len(u) + 1
<1>0. k \in Nat /\ m \in 0..Len(u) /\ k <= m + 1 /\ Len(u) \in Nat
      /\ (IF m + 1 > LedgerCap THEN LedgerCap ELSE m + 1) = k
  BY BoundsAssumption
<1>1. a \in Seq(Nat) /\ Len(a) = m /\ \A i \in 1..m : a[i] = u[i + Len(u) - m]
  BY Newest
<1> HIDE DEF a, m
<1>2. b \in Seq(Nat) /\ Len(b) = m + 1 /\ c \in Seq(Nat) /\ Len(c) = Len(u) + 1
  BY <1>1
<1>3. \A i \in 1..m + 1 : b[i] = c[i + Len(u) - m]
  <2> SUFFICES ASSUME NEW i \in 1..m + 1 PROVE b[i] = c[i + Len(u) - m]
    OBVIOUS
  <2>1. CASE i = m + 1
    BY <2>1, <1>0, <1>1
  <2>2. CASE i # m + 1
    <3>1. i \in 1..m /\ i + Len(u) - m \in 1..Len(u)
      BY <2>2, <1>0
    <3> QED BY <3>1, <1>1
  <2> QED BY <2>1, <2>2
<1> HIDE DEF b, c, k
<1>4. /\ Ledger!Newest(b) \in Seq(Nat) /\ Len(Ledger!Newest(b)) = k
      /\ \A i \in 1..k : Ledger!Newest(b)[i] = b[i + (m + 1) - k]
  <2>1. /\ Ledger!Newest(b) \in Seq(Nat)
        /\ Len(Ledger!Newest(b)) = IF Len(b) > LedgerCap THEN LedgerCap ELSE Len(b)
        /\ \A i \in 1..Len(Ledger!Newest(b)) :
               Ledger!Newest(b)[i] = b[i + Len(b) - Len(Ledger!Newest(b))]
    BY <1>2, Newest
  <2> QED BY <2>1, <1>0, <1>2
<1>5. /\ Ledger!Newest(c) \in Seq(Nat) /\ Len(Ledger!Newest(c)) = k
      /\ \A i \in 1..k : Ledger!Newest(c)[i] = c[i + (Len(u) + 1) - k]
  <2>1. /\ Ledger!Newest(c) \in Seq(Nat)
        /\ Len(Ledger!Newest(c)) = IF Len(c) > LedgerCap THEN LedgerCap ELSE Len(c)
        /\ \A i \in 1..Len(Ledger!Newest(c)) :
               Ledger!Newest(c)[i] = c[i + Len(c) - Len(Ledger!Newest(c))]
    BY <1>2, Newest
  <2>2. Len(Ledger!Newest(c)) = k
    BY <2>1, <1>2 DEF k
  <2> QED BY <2>1, <2>2, <1>2
<1>6. \A i \in 1..k : Ledger!Newest(b)[i] = Ledger!Newest(c)[i]
  <2> SUFFICES ASSUME NEW i \in 1..k PROVE Ledger!Newest(b)[i] = Ledger!Newest(c)[i]
    OBVIOUS
  <2>1. i + (m + 1) - k \in 1..m + 1
        /\ i + (m + 1) - k + Len(u) - m = i + (Len(u) + 1) - k
    BY <1>0
  <2>2. b[i + (m + 1) - k] = c[i + (m + 1) - k + Len(u) - m]
    BY <2>1, <1>3
  <2> QED BY <2>1, <2>2, <1>4, <1>5
<1>7. Ledger!Newest(b) = Ledger!Newest(c)
  BY <1>4, <1>5, <1>6, SeqEqual
<1> QED BY <1>7 DEF Ledger!PushEvent, a, b, c

LEMMA AppendConcat ==
    ASSUME NEW b \in Seq(Nat), NEW l \in Seq(Nat), NEW e \in Nat
    PROVE  Append(b \o l, e) = b \o Append(l, e)
<1>1. b \o l \in Seq(Nat) /\ <<e>> \in Seq(Nat)
  OBVIOUS
<1>2. \A q \in Seq(Nat) : Append(q, e) = q \o <<e>>
  <2> SUFFICES ASSUME NEW q \in Seq(Nat) PROVE Append(q, e) = q \o <<e>>
    OBVIOUS
  <2> QED BY AppendIsConcat
<1>3. (b \o l) \o <<e>> = b \o (l \o <<e>>)
  <2> DEFINE t == <<e>>
  <2>1. t \in Seq(Nat)
    BY <1>1
  <2> HIDE DEF t
  <2>2. (b \o l) \o t = b \o (l \o t)
    BY <2>1, ConcatAssociative, SMTT(30)
  <2> QED BY <2>2 DEF t
<1> QED BY <1>1, <1>2, <1>3

\* The pushes that waited, folded over what was stored, leave the newest of both:
\* the fold of the model is the recursion on the waiting list.
LEMMA FoldedInOrder ==
    ASSUME NEW b \in Seq(Nat), Len(b) <= LedgerCap, NEW s \in Seq(Nat)
    PROVE  Ledger!FoldLeft(Ledger!PushEvent, b, s) = Ledger!Newest(b \o s)
<1> DEFINE D == DOMAIN s
           Push(x, y) == Ledger!PushEvent(x, y)
           Largest(t) == Ledger!Max(t)
           Rec(g, n) == g = [t \in SUBSET (1..n) |->
                                IF t = {} THEN b ELSE Push(g[t \ {Largest(t)}], s[Largest(t)])]
           fold == CHOOSE g : Rec(g, Len(s))
<1>1. D = 1..Len(s) /\ Len(s) \in Nat
  OBVIOUS
<1>2. Ledger!FoldLeft(Ledger!PushEvent, b, s) = fold[1..Len(s)]
  <2>1. Ledger!FoldLeft(Ledger!PushEvent, b, s)
          = Ledger!MapThenFoldSet(LAMBDA x, y : Ledger!PushEvent(y, x), b, LAMBDA i : s[i],
                                  LAMBDA S : Ledger!Max(S), DOMAIN s)
    BY DEF Ledger!FoldLeft
  <2>2. @ = (CHOOSE g : g = [t \in SUBSET D |->
                      IF t = {} THEN b ELSE Push(g[t \ {Largest(t)}], s[Largest(t)])])[D]
    BY DEF Ledger!MapThenFoldSet
  <2> QED BY <2>1, <2>2, <1>1
<1>3. \A n \in Nat : \A t \in SUBSET (1..n + 1) : n + 1 \in t => Largest(t) = n + 1
  <2> SUFFICES ASSUME NEW n \in Nat, NEW t \in SUBSET (1..n + 1), n + 1 \in t
               PROVE  Largest(t) = n + 1
    OBVIOUS
  <2>1. \A y \in t : y \in Nat /\ y <= n + 1
    OBVIOUS
  <2>2. \A x \in t : (\A y \in t : x >= y) => x = n + 1
    BY <2>1
  <2>3. \A y \in t : n + 1 >= y
    BY <2>1
  <2> QED BY <2>2, <2>3 DEF Ledger!Max
<1> HIDE DEF Largest, Push
<1>4. \A n \in Nat : \E g : Rec(g, n)
  <2> DEFINE T == {n \in Nat : \E g : Rec(g, n)}
  <2>1. 0 \in T
    <3> DEFINE g0 == [t \in SUBSET (1..0) |-> b]
    <3>1. \A t \in SUBSET (1..0) : t = {}
      OBVIOUS
    <3>2. Rec(g0, 0)
      BY <3>1
    <3> QED BY <3>2
  <2>2. ASSUME NEW n \in Nat, n \in T PROVE n + 1 \in T
    <3>1. PICK g : Rec(g, n)
      BY <2>2
    <3> DEFINE G == [t \in SUBSET (1..n + 1) |->
                        IF t = {} THEN b
                        ELSE IF n + 1 \in t THEN Push(g[t \ {n + 1}], s[n + 1])
                        ELSE g[t]]
               H == [t \in SUBSET (1..n + 1) |->
                        IF t = {} THEN b ELSE Push(G[t \ {Largest(t)}], s[Largest(t)])]
    <3>a. (\A x \in 1..n : x \in 1..n + 1) /\ n + 1 \notin 1..n
          /\ \A x \in 1..n + 1 : x # n + 1 => x \in 1..n
      OBVIOUS
    <3>2. \A t \in SUBSET (1..n) :
             /\ t \in SUBSET (1..n + 1) /\ n + 1 \notin t
             /\ g[t] = IF t = {} THEN b ELSE Push(g[t \ {Largest(t)}], s[Largest(t)])
      <4>1. \A t \in SUBSET (1..n) : t \in SUBSET (1..n + 1) /\ n + 1 \notin t
        BY <3>a
      <4> QED BY <3>1, <4>1
    <3>3. \A t \in SUBSET (1..n) : G[t] = g[t]
      BY <3>2
    <3>4. ASSUME NEW t \in SUBSET (1..n + 1) PROVE G[t] = H[t]
      <4>1. CASE t = {}
        BY <4>1
      <4>2. CASE n + 1 \in t
        <5>1. Largest(t) = n + 1 /\ t \ {n + 1} \in SUBSET (1..n) /\ t # {}
          <6>1. t \ {n + 1} \in SUBSET (1..n) /\ t # {}
            BY <4>2, <3>a
          <6> QED BY <6>1, <4>2, <1>3
        <5>2. G[t \ {n + 1}] = g[t \ {n + 1}]
          BY <5>1, <3>3
        <5> QED BY <5>1, <5>2, <4>2
      <4>3. CASE t # {} /\ n + 1 \notin t
        <5>1. t \in SUBSET (1..n) /\ t \ {Largest(t)} \in SUBSET (1..n)
          BY <4>3, <3>a
        <5>2. G[t \ {Largest(t)}] = g[t \ {Largest(t)}] /\ G[t] = g[t]
          BY <5>1, <3>3
        <5>3. g[t] = Push(g[t \ {Largest(t)}], s[Largest(t)])
          BY <5>1, <3>2, <4>3
        <5> QED BY <5>2, <5>3, <4>3
      <4> QED BY <4>1, <4>2, <4>3
    <3>5. G = H
      BY <3>4
    <3>6. Rec(G, n + 1)
      BY <3>5
    <3> HIDE DEF Rec, G
    <3>7. \E f : Rec(f, n + 1)
      BY <3>6
    <3> QED BY <3>7
  <2> HIDE DEF T
  <2>3. Nat \subseteq T
    BY <2>1, <2>2, SetInduction
  <2> QED BY <2>3 DEF T
<1>5. Rec(fold, Len(s))
  <2> HIDE DEF Rec
  <2> QED BY <1>4, <1>1
<1> HIDE DEF fold
<1>6. fold[{}] = b
  BY <1>5
<1>7. \A k \in Nat : k + 1 <= Len(s) =>
         fold[1..k + 1] = Ledger!PushEvent(fold[1..k], s[k + 1])
  <2> SUFFICES ASSUME NEW k \in Nat, k + 1 <= Len(s)
               PROVE  fold[1..k + 1] = Ledger!PushEvent(fold[1..k], s[k + 1])
    OBVIOUS
  <2>1. Largest(1..k + 1) = k + 1
    BY <1>3
  <2>2. 1..k + 1 \in SUBSET (1..Len(s)) /\ 1..k + 1 # {} /\ (1..k + 1) \ {k + 1} = 1..k
    <3>1. \A x : x \in (1..k + 1) \ {k + 1} <=> x \in 1..k
      OBVIOUS
    <3>2. (\A x \in 1..k + 1 : x \in 1..Len(s)) /\ k + 1 \in 1..k + 1
      BY <1>1
    <3>3. (1..k + 1) \ {k + 1} = 1..k
      BY <3>1, Zenon
    <3>4. 1..k + 1 \in SUBSET (1..Len(s)) /\ 1..k + 1 # {}
      BY <3>2, Zenon
    <3> QED BY <3>3, <3>4
  <2>3. fold[1..k + 1] = Push(fold[(1..k + 1) \ {Largest(1..k + 1)}], s[Largest(1..k + 1)])
    BY <2>2, <1>5
  <2> QED BY <2>1, <2>2, <2>3 DEF Push
<1>8. \A k \in Nat : k <= Len(s) => fold[1..k] = Ledger!Newest(b \o SubSeq(s, 1, k))
  <2> DEFINE T == {k \in Nat : k <= Len(s) => fold[1..k] = Ledger!Newest(b \o SubSeq(s, 1, k))}
  <2>1. 0 \in T
    <3>1. 1..0 = {} /\ b \o SubSeq(s, 1, 0) = b
      OBVIOUS
    <3> QED BY <3>1, <1>6, NewestOfShort
  <2>2. ASSUME NEW k \in Nat, k \in T PROVE k + 1 \in T
    <3> SUFFICES ASSUME k + 1 <= Len(s)
                 PROVE  fold[1..k + 1] = Ledger!Newest(b \o SubSeq(s, 1, k + 1))
      OBVIOUS
    <3> DEFINE u == b \o SubSeq(s, 1, k)
    <3>1. fold[1..k] = Ledger!Newest(u)
      BY <2>2, <1>1
    <3>2. u \in Seq(Nat) /\ s[k + 1] \in Nat
      BY <1>1
    <3>3. Append(u, s[k + 1]) = b \o SubSeq(s, 1, k + 1)
      <4> DEFINE l == SubSeq(s, 1, k)
                 r == SubSeq(s, 1, k + 1)
      <4>1. l \in Seq(Nat) /\ Len(l) = k /\ r \in Seq(Nat) /\ Len(r) = k + 1
        BY <1>1
      <4>2. (\A i \in 1..k : l[i] = s[i]) /\ (\A i \in 1..k + 1 : r[i] = s[i])
        BY <1>1
      <4> HIDE DEF l, r
      <4>3. r = Append(l, s[k + 1])
        <5>1. Append(l, s[k + 1]) \in Seq(Nat) /\ Len(Append(l, s[k + 1])) = k + 1
          BY <4>1, <3>2
        <5>2. \A i \in 1..k + 1 : Append(l, s[k + 1])[i] = r[i]
          <6> DEFINE e == s[k + 1]
          <6>0. e \in Nat
            BY <3>2
          <6> HIDE DEF e
          <6>1. \A i \in 1..k + 1 : Append(l, e)[i] = IF i = k + 1 THEN e ELSE l[i]
            BY <4>1, <6>0
          <6>2. \A i \in 1..k + 1 : i = k + 1 \/ i \in 1..k
            OBVIOUS
          <6> QED BY <6>1, <6>2, <4>2 DEF e
        <5> QED BY <5>1, <5>2, <4>1, SeqEqual
      <4>4. Append(b \o l, s[k + 1]) = b \o Append(l, s[k + 1])
        BY <4>1, <3>2, AppendConcat
      <4> QED BY <4>3, <4>4 DEF l, r
    <3> HIDE DEF u
    <3>4. Ledger!PushEvent(Ledger!Newest(u), s[k + 1]) = Ledger!Newest(Append(u, s[k + 1]))
      BY <3>2, PushNewest
    <3> QED BY <3>1, <3>3, <3>4, <1>7
  <2> HIDE DEF T
  <2>3. Nat \subseteq T
    BY <2>1, <2>2, SetInduction
  <2> QED BY <2>3 DEF T
<1>9. SubSeq(s, 1, Len(s)) = s
  OBVIOUS
<1>10. fold[1..Len(s)] = Ledger!Newest(b \o SubSeq(s, 1, Len(s)))
  BY <1>1, <1>8
<1> QED BY <1>2, <1>9, <1>10

LEMMA LedgerInit == Ledger!Init => LedgerInv
<1> SUFFICES ASSUME Ledger!Init PROVE LedgerInv
  OBVIOUS
<1>1. (\A S : <<>> \in Seq(S)) /\ Len(<<>>) = 0 /\ LedgerCap >= 0 /\ DOMAIN <<>> = {}
  BY BoundsAssumption
<1>2. Ledger!TypeOK
  BY <1>1 DEF Ledger!Init, Ledger!TypeOK, Ledger!Events
<1> QED BY <1>1, <1>2 DEF Ledger!Init, LedgerInv, Ledger!NothingLostToHydration,
               Ledger!MirrorConverges, LedgerFits, LedgerCold, LastSent

\* A navigation has a result.
LEMMA LedgerProcess ==
    ASSUME LedgerInv, Ledger!Process
    PROVE  LedgerInv'
<1> USE DEF LedgerInv
<1>1. /\ ledger \in Seq(Nat) /\ waiting \in Seq(Nat) /\ asked \in Seq(Nat)
      /\ base \in Seq(Nat) /\ writes \in Seq(Seq(Nat)) /\ hydrated \in BOOLEAN
  BY DEF Ledger!TypeOK, Ledger!Events
<1>2. /\ events' = events + 1 /\ events' \in Nat
      /\ UNCHANGED <<ledgerStored, hydrated, recording, clearing, base, cleared, diverged,
                     ledgerRestarts, clears, ledgerFaults>>
  BY DEF Ledger!Process, Ledger!TypeOK, Ledger!memory
<1>3. CASE UNCHANGED <<ledger, waiting, writes, asked>>
  BY <1>2, <1>3 DEF Ledger!TypeOK, Ledger!NothingLostToHydration, Ledger!MirrorConverges,
                    LedgerFits, LedgerCold, LastSent
<1>4. CASE /\ asked' = Append(asked, events') /\ ~hydrated
           /\ waiting' = Append(waiting, events') /\ UNCHANGED <<ledger, writes>>
  <2>1. asked' \in Seq(Nat) /\ waiting' \in Seq(Nat)
    BY <1>1, <1>2, <1>4
  <2> QED BY <1>2, <1>4, <2>1 DEF Ledger!TypeOK, Ledger!Events, Ledger!NothingLostToHydration,
                 Ledger!MirrorConverges, LedgerFits, LedgerCold, LastSent
<1>5. CASE /\ asked' = Append(asked, events') /\ hydrated
           /\ ledger' = Ledger!PushEvent(ledger, events')
           /\ writes' = Append(writes, ledger') /\ UNCHANGED waiting
  <2> DEFINE e == events'
             u == base \o asked
  <2>1. u \in Seq(Nat) /\ e \in Nat
    BY <1>1, <1>2
  <2>2. ledger = Ledger!Newest(u)
    BY <1>5 DEF Ledger!NothingLostToHydration
  <2>3. ledger' = Ledger!PushEvent(ledger, e) /\ asked' = Append(asked, e)
    BY <1>5
  <2> HIDE DEF e, u
  <2>4. ledger' = Ledger!Newest(Append(u, e))
    BY <2>1, <2>2, <2>3, PushNewest
  <2>5. base' \o asked' = Append(u, e)
    <3>1. base' \o asked' = base \o Append(asked, e)
      BY <2>3, <1>2
    <3>2. Append(base \o asked, e) = base \o Append(asked, e)
      BY <1>1, <2>1, AppendConcat
    <3> QED BY <3>1, <3>2 DEF u
  <2>6. ledger' \in Seq(Nat) /\ Len(ledger') <= LedgerCap
    <3> DEFINE v == Append(u, e)
    <3>1. v \in Seq(Nat) /\ ledger' = Ledger!Newest(v)
      BY <2>1, <2>4
    <3> HIDE DEF v
    <3> QED BY <3>1, Newest, BoundsAssumption
  <2>7. asked' \in Seq(Nat)
    BY <1>1, <2>1, <2>3
  <2> DEFINE l == ledger'
  <2>8. writes' = Append(writes, l) /\ l \in Seq(Nat) /\ Len(l) <= LedgerCap
    BY <1>5, <2>6
  <2> HIDE DEF l
  <2>9. /\ writes' \in Seq(Seq(Nat)) /\ Len(writes') = Len(writes) + 1 /\ writes' # <<>>
        /\ \A i \in DOMAIN writes' : writes'[i] = IF i = Len(writes) + 1 THEN l ELSE writes[i]
        /\ \A i \in DOMAIN writes' : i = Len(writes) + 1 \/ i \in DOMAIN writes
        /\ Len(writes) + 1 \in DOMAIN writes'
    BY <2>8, <1>1
  <2>10. Ledger!TypeOK'
    BY <2>6, <2>7, <2>9, <1>2, <1>5 DEF Ledger!TypeOK, Ledger!Events
  <2>11. Ledger!NothingLostToHydration'
    BY <2>4, <2>5 DEF Ledger!NothingLostToHydration
  <2>12. Ledger!MirrorConverges' /\ LedgerCold'
    BY <2>9, <1>2, <1>5 DEF Ledger!MirrorConverges, LedgerCold
  <2>13. LedgerFits'
    BY <2>8, <2>9, <1>2 DEF LedgerFits
  <2>14. LastSent'
    BY <2>9 DEF LastSent, l
  <2> QED BY <2>10, <2>11, <2>12, <2>13, <2>14
<1> QED BY <1>3, <1>4, <1>5 DEF Ledger!Process, Ledger!memory, Ledger!MustWait, Ledger!Mirror

\* The hydration settles, and what waited follows.
LEMMA LedgerHydrates ==
    ASSUME LedgerInv, Ledger!Hydrate
    PROVE  LedgerInv'
<1> USE DEF LedgerInv
<1> DEFINE After(n) == Ledger!FoldLeft(Ledger!PushEvent, base', SubSeq(waiting, 1, n))
           b == base'
<1>1. /\ ~hydrated /\ hydrated' = TRUE /\ waiting' = <<>>
      /\ ledger' = After(Len(waiting))
      /\ writes' = writes \o [n \in 1..Len(waiting) |-> After(n)]
      /\ UNCHANGED <<ledgerStored, recording, clearing, asked, cleared>>
  BY DEF Ledger!Hydrate, Ledger!Released
<1>2. /\ waiting \in Seq(Nat) /\ asked = waiting /\ writes = <<>>
      /\ ledgerStored \in Seq(Nat) /\ Len(waiting) \in Nat
  BY <1>1 DEF Ledger!TypeOK, Ledger!Events, LedgerCold
<1>3. b \in Seq(Nat) /\ Len(b) <= LedgerCap
  <2>1. b = ledgerStored \/ b = <<>>
    BY <1>1 DEF Ledger!Hydrate, LedgerCold
  <2>2. CASE b = ledgerStored
    BY <2>2, <1>2 DEF LedgerFits
  <2>3. CASE b = <<>>
    <3>1. <<>> \in Seq(Nat) /\ Len(<<>>) = 0
      OBVIOUS
    <3> QED BY <3>1, <2>3, BoundsAssumption
  <2> QED BY <2>1, <2>2, <2>3
<1> HIDE DEF b
<1>4. \A n \in 0..Len(waiting) :
         /\ After(n) = Ledger!Newest(b \o SubSeq(waiting, 1, n))
         /\ After(n) \in Seq(Nat) /\ Len(After(n)) <= LedgerCap
  <2> SUFFICES ASSUME NEW n \in 0..Len(waiting)
               PROVE  /\ After(n) = Ledger!Newest(b \o SubSeq(waiting, 1, n))
                      /\ After(n) \in Seq(Nat) /\ Len(After(n)) <= LedgerCap
    OBVIOUS
  <2> DEFINE s == SubSeq(waiting, 1, n)
             a == After(n)
  <2>1. s \in Seq(Nat)
    BY <1>2
  <2>2. a = Ledger!FoldLeft(Ledger!PushEvent, b, s)
    BY DEF b
  <2> HIDE DEF s, a
  <2>3. a = Ledger!Newest(b \o s)
    BY <2>1, <2>2, <1>3, FoldedInOrder
  <2> DEFINE u == b \o s
  <2>4. u \in Seq(Nat) /\ a = Ledger!Newest(u)
    BY <2>1, <2>3, <1>3
  <2> HIDE DEF u
  <2>5. a \in Seq(Nat) /\ Len(a) <= LedgerCap
    BY <2>4, Newest, BoundsAssumption
  <2> QED BY <2>3, <2>5 DEF s, a
<1> HIDE DEF After
<1>5. SubSeq(waiting, 1, Len(waiting)) = waiting
  BY <1>2
<1>6. ledger' = Ledger!Newest(b \o asked) /\ ledger' \in Seq(Nat)
  <2>1. Len(waiting) \in 0..Len(waiting)
    BY <1>2
  <2>2. /\ After(Len(waiting)) = Ledger!Newest(b \o SubSeq(waiting, 1, Len(waiting)))
        /\ After(Len(waiting)) \in Seq(Nat)
    BY <2>1, <1>4
  <2> QED BY <2>2, <1>1, <1>2, <1>5
<1>7. /\ writes' \in Seq(Seq(Nat)) /\ Len(writes') = Len(waiting)
      /\ \A n \in 1..Len(waiting) : writes'[n] = After(n)
  <2> DEFINE w == [n \in 1..Len(waiting) |-> After(n)]
  <2>1. w \in Seq(Seq(Nat)) /\ Len(w) = Len(waiting)
        /\ \A n \in 1..Len(waiting) : w[n] = After(n)
    <3>1. \A n \in 1..Len(waiting) : After(n) \in Seq(Nat)
      BY <1>2, <1>4
    <3>2. w \in [1..Len(waiting) -> Seq(Nat)]
      BY <3>1
    <3> QED BY <3>2, <1>2, SMTT(30)
  <2>2. writes' = <<>> \o w
    BY <1>1, <1>2
  <2> HIDE DEF w
  <2> QED BY <2>1, <2>2
<1>8. /\ ledgerFaults' \in Nat /\ diverged' \in BOOLEAN
      /\ UNCHANGED <<events, ledgerRestarts, clears>>
  <2>1. \/ base' = ledgerStored /\ UNCHANGED <<diverged, Ledger!bounds>>
        \/ Ledger!Fails /\ base' = ledger
    BY Zenon DEF Ledger!Hydrate
  <2>2. diverged \in BOOLEAN /\ ledgerFaults \in Nat
    BY DEF Ledger!TypeOK
  <2>3. CASE UNCHANGED <<diverged, Ledger!bounds>>
    BY <2>2, <2>3 DEF Ledger!bounds
  <2>4. CASE Ledger!Fails
    BY <2>2, <2>4 DEF Ledger!Fails
  <2> QED BY <2>1, <2>3, <2>4
<1>9. Ledger!TypeOK'
  <2>1. waiting' \in Seq(Nat)
    BY <1>1
  <2> QED BY <2>1, <1>1, <1>3, <1>6, <1>7, <1>8 DEF Ledger!TypeOK, Ledger!Events, b
<1>10. Ledger!NothingLostToHydration'
  BY <1>1, <1>6 DEF Ledger!NothingLostToHydration, b
<1>11. Ledger!MirrorConverges'
  <2> SUFFICES ASSUME writes' = <<>>, ~diverged' PROVE ledgerStored' = ledger'
    BY DEF Ledger!MirrorConverges
  <2>1. Len(waiting) = 0
    BY <1>7
  <2>2. base' = ledgerStored
    BY DEF Ledger!Hydrate, Ledger!Fails
  <2>3. asked = <<>> /\ b \o <<>> = b
    BY <2>1, <1>2, <1>3
  <2>4. ledger' = b
    BY <2>3, <1>3, <1>6, NewestOfShort
  <2> QED BY <2>2, <2>4, <1>1 DEF b
<1>12. LedgerFits' /\ LedgerCold'
  <2>1. \A i \in DOMAIN writes' : i \in 1..Len(waiting) /\ i \in 0..Len(waiting)
    BY <1>2, <1>7
  <2>2. \A i \in DOMAIN writes' : Len(writes'[i]) <= LedgerCap
    BY <2>1, <1>4, <1>7
  <2>3. Len(ledgerStored') <= LedgerCap
    BY <1>1 DEF LedgerFits
  <2> QED BY <2>2, <2>3, <1>1 DEF LedgerFits, LedgerCold
<1>13. LastSent'
  <2> SUFFICES ASSUME writes' # <<>> PROVE writes'[Len(writes')] = ledger'
    BY DEF LastSent
  <2>1. Len(waiting) \in 1..Len(waiting)
    BY <1>2, <1>7
  <2> QED BY <2>1, <1>1, <1>7
<1> QED BY <1>9, <1>10, <1>11, <1>12, <1>13

\* A write to the mirror is applied, or fails.
LEMMA LedgerSettles ==
    ASSUME LedgerInv, Ledger!WriteSettles
    PROVE  LedgerInv'
<1> USE DEF LedgerInv
<1>1. /\ writes # <<>> /\ writes' = Tail(writes)
      /\ UNCHANGED <<ledger, hydrated, waiting, recording, clearing, base, asked, cleared>>
  BY DEF Ledger!WriteSettles, Ledger!memory
<1>2. /\ writes \in Seq(Seq(Nat)) /\ ledgerStored \in Seq(Nat) /\ Len(writes) \in Nat \ {0}
      /\ diverged \in BOOLEAN /\ ledgerFaults \in Nat
  BY <1>1 DEF Ledger!TypeOK, Ledger!Events
<1>3. hydrated
  BY <1>1 DEF LedgerCold, Ledger!TypeOK
<1>4. /\ writes' \in Seq(Seq(Nat)) /\ Len(writes') = Len(writes) - 1
      /\ \A i \in DOMAIN writes' : i + 1 \in DOMAIN writes /\ writes'[i] = writes[i + 1]
      /\ writes[1] \in Seq(Nat) /\ Len(writes[1]) <= LedgerCap /\ Head(writes) = writes[1]
  <2>1. 1 \in DOMAIN writes
    BY <1>2
  <2> QED BY <2>1, <1>1, <1>2 DEF LedgerFits
<1>5. \/ ledgerStored' = writes[1] /\ diverged' = FALSE /\ UNCHANGED Ledger!bounds
      \/ Ledger!Fails /\ UNCHANGED ledgerStored
  BY <1>4 DEF Ledger!WriteSettles
<1>6. /\ ledgerStored' \in Seq(Nat) /\ Len(ledgerStored') <= LedgerCap
      /\ diverged' \in BOOLEAN /\ ledgerFaults' \in Nat
      /\ UNCHANGED <<events, ledgerRestarts, clears>>
  <2>1. CASE ledgerStored' = writes[1] /\ diverged' = FALSE /\ UNCHANGED Ledger!bounds
    BY <2>1, <1>2, <1>4 DEF Ledger!bounds
  <2>2. CASE Ledger!Fails /\ UNCHANGED ledgerStored
    BY <2>2, <1>2 DEF Ledger!Fails, LedgerFits
  <2> QED BY <2>1, <2>2, <1>5
<1>7. Ledger!TypeOK'
  BY <1>1, <1>4, <1>6 DEF Ledger!TypeOK, Ledger!Events
<1>8. Ledger!NothingLostToHydration' /\ LedgerCold'
  BY <1>1, <1>3 DEF Ledger!NothingLostToHydration, LedgerCold
<1>9. LedgerFits'
  BY <1>4, <1>6 DEF LedgerFits
<1>10. LastSent'
  <2> SUFFICES ASSUME writes' # <<>> PROVE writes'[Len(writes')] = ledger'
    BY DEF LastSent
  <2>1. Len(writes') \in DOMAIN writes' /\ Len(writes') + 1 = Len(writes)
    BY <1>2, <1>4
  <2> QED BY <2>1, <1>1, <1>3, <1>4 DEF LastSent
<1>11. Ledger!MirrorConverges'
  <2> SUFFICES ASSUME writes' = <<>>, ~diverged' PROVE ledgerStored' = ledger'
    BY DEF Ledger!MirrorConverges
  <2>1. Len(writes) = 1
    BY <1>2, <1>4
  <2>2. ledgerStored' = writes[1]
    BY <1>5 DEF Ledger!Fails
  <2> QED BY <2>1, <2>2, <1>1, <1>3 DEF LastSent
<1> QED BY <1>7, <1>8, <1>9, <1>10, <1>11

\* The worker stops, the page switches recording, asks for a clear, or clears.
LEMMA LedgerOthers ==
    ASSUME LedgerInv,
           Ledger!Restart \/ Ledger!Toggle \/ Ledger!Clear \/ Ledger!ClearLands
    PROVE  LedgerInv'
<1> USE DEF LedgerInv
<1>0. (\A S : <<>> \in Seq(S)) /\ Len(<<>>) = 0 /\ DOMAIN <<>> = {} /\ LedgerCap >= 0
  BY BoundsAssumption
<1>1. CASE Ledger!Restart
  <2>1. /\ ledger' = <<>> /\ hydrated' = FALSE /\ waiting' = <<>> /\ writes' = <<>>
        /\ base' = <<>> /\ asked' = <<>> /\ diverged' = FALSE
        /\ ledgerRestarts' = ledgerRestarts + 1
        /\ UNCHANGED <<recording, clearing, cleared, events, clears, ledgerFaults>>
    BY <1>1 DEF Ledger!Restart
  <2>2. PICK n \in 0..Len(writes) : ledgerStored' = IF n = 0 THEN ledgerStored ELSE writes[n]
    BY <1>1 DEF Ledger!Restart
  <2>3. ledgerStored' \in Seq(Nat) /\ Len(ledgerStored') <= LedgerCap
    <3>1. writes \in Seq(Seq(Nat)) /\ ledgerStored \in Seq(Nat)
      BY DEF Ledger!TypeOK, Ledger!Events
    <3>2. n = 0 \/ n \in DOMAIN writes
      BY <3>1
    <3>3. n \in DOMAIN writes => writes[n] \in Seq(Nat)
      BY <3>1
    <3> QED BY <3>1, <3>2, <3>3, <2>2 DEF LedgerFits
  <2>4. Ledger!TypeOK'
    <3>1. <<>> \in Seq(Nat) /\ <<>> \in Seq(Seq(Nat))
      BY <1>0
    <3>2. ledgerRestarts' \in Nat
      BY <2>1 DEF Ledger!TypeOK
    <3> QED BY <2>1, <2>3, <3>1, <3>2 DEF Ledger!TypeOK, Ledger!Events
  <2> QED BY <2>1, <2>3, <2>4, <1>0 DEF Ledger!NothingLostToHydration, Ledger!MirrorConverges,
                 LedgerFits, LedgerCold, LastSent
<1>2. CASE Ledger!Toggle \/ Ledger!Clear
  <2>1. /\ recording' \in BOOLEAN /\ clearing' \in BOOLEAN /\ clears' \in Nat
        /\ UNCHANGED <<ledgerStored, ledger, hydrated, waiting, writes, base, asked, cleared,
                       diverged, events, ledgerRestarts, ledgerFaults>>
    <3>1. recording \in BOOLEAN /\ clears \in Nat
      BY DEF Ledger!TypeOK
    <3>2. CASE Ledger!Toggle
      BY <3>1, <3>2 DEF Ledger!Toggle, Ledger!memory
    <3>3. CASE Ledger!Clear
      BY <3>1, <3>3 DEF Ledger!Clear, Ledger!memory
    <3> QED BY <1>2, <3>2, <3>3
  <2> QED BY <2>1 DEF Ledger!TypeOK, Ledger!NothingLostToHydration, Ledger!MirrorConverges,
                 LedgerFits, LedgerCold, LastSent
<1>3. CASE Ledger!ClearLands
  <2>1. /\ ledgerStored' = <<>> /\ clearing' = FALSE /\ diverged' = TRUE
        /\ cleared' = cleared \cup Ledger!Range(ledgerStored)
        /\ UNCHANGED <<ledger, hydrated, waiting, writes, recording, base, asked, events,
                       ledgerRestarts, clears, ledgerFaults>>
    BY <1>3 DEF Ledger!ClearLands, Ledger!memory, Ledger!bounds
  <2>2. cleared' \subseteq Nat
    <3>1. \A i \in DOMAIN ledgerStored : ledgerStored[i] \in Nat
      BY DEF Ledger!TypeOK, Ledger!Events
    <3> QED BY <3>1, <2>1 DEF Ledger!Range, Ledger!TypeOK
  <2>3. Ledger!TypeOK'
    BY <2>1, <2>2, <1>0 DEF Ledger!TypeOK, Ledger!Events
  <2> QED BY <2>1, <2>3, <1>0 DEF Ledger!NothingLostToHydration, Ledger!MirrorConverges,
                 LedgerFits, LedgerCold, LastSent
<1> QED BY <1>1, <1>2, <1>3

LEMMA LedgerNext == LedgerInv /\ [Ledger!Next]_(Ledger!vars) => LedgerInv'
<1> SUFFICES ASSUME LedgerInv, [Ledger!Next]_(Ledger!vars) PROVE LedgerInv'
  OBVIOUS
<1>1. CASE Ledger!Next
  BY <1>1, LedgerProcess, LedgerHydrates, LedgerSettles, LedgerOthers DEF Ledger!Next
<1>2. CASE UNCHANGED Ledger!vars
  BY <1>2 DEF LedgerInv, Ledger!vars, Ledger!memory, Ledger!bounds, Ledger!TypeOK,
     Ledger!NothingLostToHydration, Ledger!MirrorConverges, LedgerFits, LedgerCold, LastSent
<1> QED BY <1>1, <1>2

LEMMA LedgerRuns == RunSpec => Ledger!Spec
<1>1. RunInit => Ledger!Init
  BY DEF RunInit
<1>2. [RunNext]_allVars => [Ledger!Next]_(Ledger!vars)
  BY DEF RunNext, allVars, ledgerVars, Ledger!vars, Ledger!memory, Ledger!bounds
<1> QED BY <1>1, <1>2, PTL DEF RunSpec, Ledger!Spec

\* No event processed by this worker, before or after the mirror was read, is missing
\* from recent activity unless newer ones pushed it out, and a mirror to which all
\* writes have come through shows what the worker knows, as long as no Settings page
\* cleared it behind its back (pushAttributionAndPersist, _hydrateAttributionLedger).
THEOREM LedgerIsKept == RunSpec => []LedgerKept
<1>1. LedgerInv => LedgerKept
  BY DEF LedgerInv, LedgerKept
<1> QED BY <1>1, LedgerInit, LedgerNext, LedgerRuns, PTL DEF Ledger!Spec

-----------------------------------------------------------------------------
(* The statistics per site.                                                *)

Batches(q, s) == [i \in DOMAIN q |-> q[i].batch[s]]

\* What is in flight for a site is the total of the batches for it.
SitesTotal ==
    \A s : Batches(sitesFlushes, s) \in Seq(Int)
               => Sites!InFlight(s) = Total(Batches(sitesFlushes, s))

LEMMA SitesTotalled == SitesTotal
<1> SUFFICES ASSUME NEW s, Batches(sitesFlushes, s) \in Seq(Int)
             PROVE  Sites!InFlight(s) = Total(Batches(sitesFlushes, s))
  BY DEF SitesTotal
<1> DEFINE q == sitesFlushes
           v == Batches(q, s)
<1>0. v \in Seq(Int)
  OBVIOUS
<1> DEFINE Rec(g) == g = [t \in SUBSET DOMAIN q |->
                             IF t = {} THEN 0
                             ELSE LET x == CHOOSE x \in t : TRUE
                                  IN  g[t \ {x}] + q[x].batch[s]]
           it == CHOOSE g : Rec(g)
<1>1. Sites!InFlight(s) = it[DOMAIN q]
  BY DEF Sites!InFlight, Sites!FoldSeq, Sites!FoldFunction, Sites!FoldFunctionOnSet, Sites!MapThenFoldSet
<1>2. DOMAIN v = DOMAIN q /\ \A x \in DOMAIN q : v[x] = q[x].batch[s]
  BY DEF Batches
<1> HIDE DEF v
<1>3. ASSUME NEW g PROVE Rec(g) <=> Folded(g, v)
  <2> DEFINE F == [t \in SUBSET DOMAIN q |->
                             IF t = {} THEN 0
                             ELSE LET x == CHOOSE x \in t : TRUE
                                  IN  g[t \ {x}] + q[x].batch[s]]
             G == [t \in SUBSET DOMAIN v |-> IF t = {} THEN 0 ELSE Added(g, v, t)]
  <2>1. \A t \in SUBSET DOMAIN q : t # {} => (CHOOSE x \in t : TRUE) \in DOMAIN q
    OBVIOUS
  <2>2. \A t \in SUBSET DOMAIN q : F[t] = G[t]
    BY <1>2, <2>1 DEF Added
  <2>3. F = G
    BY <1>2, <2>2
  <2> QED BY <2>3 DEF Folded
<1> HIDE DEF Rec
<1>4. Folded(it, v)
  BY <1>0, <1>3, FoldsExist
<1> HIDE DEF it
<1> QED BY <1>0, <1>1, <1>2, <1>4, TotalIs DEF v

\* What is in flight is what the one flush there is carries.
SitesSums ==
    /\ sitesFlushes = <<>> => \A s : Sites!InFlight(s) = 0
    /\ \A f, s : sitesFlushes = <<f>> /\ f.batch[s] \in Nat => Sites!InFlight(s) = f.batch[s]

LEMMA SitesSummed == SitesSums
<1>1. ASSUME sitesFlushes = <<>>, NEW s PROVE Sites!InFlight(s) = 0
  <2>1. Batches(sitesFlushes, s) = <<>> /\ <<>> \in Seq(Int)
    BY <1>1 DEF Batches
  <2> QED BY <2>1, SitesTotalled, TotalOfNone DEF SitesTotal
<1>2. ASSUME NEW f, NEW s, sitesFlushes = <<f>>, f.batch[s] \in Nat
      PROVE  Sites!InFlight(s) = f.batch[s]
  <2> DEFINE n == f.batch[s]
  <2>1. Batches(sitesFlushes, s) = <<n>> /\ <<n>> \in Seq(Int) /\ n \in Int
    BY <1>2 DEF Batches
  <2> HIDE DEF n
  <2>2. Total(<<n>>) = n
    BY <2>1, TotalOfOne
  <2>3. Sites!InFlight(s) = Total(<<n>>)
    BY <2>1, SitesTotalled DEF SitesTotal
  <2> QED BY <2>2, <2>3 DEF n
<1> QED BY <1>1, <1>2 DEF SitesSums

SiteMap == UNION {[D -> Nat] : D \in SUBSET Site}
SiteFlush == [pc : {"reading", "writing"}, batch : [Site -> Nat], seen : SiteMap]

Batched(q, s) == IF q = <<>> THEN 0 ELSE q[1].batch[s]

SitesTyped ==
    /\ sitesStored \in SiteMap /\ sitesPending \in [Site -> Nat]
    /\ sitesFlushes \in Seq(SiteFlush) /\ sitesUnguarded \in BOOLEAN

\* Flushes that nothing disturbs come one at a time, what one has read is what is
\* stored, and the sums are right.
SitesGuarded ==
    /\ Len(sitesFlushes) <= 1
    /\ \A i \in DOMAIN sitesFlushes :
           sitesFlushes[i].pc = "writing" => sitesFlushes[i].seen = sitesStored
    /\ sitesCounted \in [Site -> Int]
    /\ \A s \in Site : Sites!Value(sitesStored, s) + sitesPending[s] + Batched(sitesFlushes, s)
                           = sitesCounted[s]

SitesInv == SitesTyped /\ (~sitesUnguarded => SitesGuarded)

LEMMA ValueTyped ==
    ASSUME NEW m \in SiteMap, NEW s
    PROVE  Sites!Value(m, s) \in Nat
  BY DEF SiteMap, Sites!Value

\* One flush at most: what is in flight is its batch.
LEMMA SitesBatched ==
    ASSUME SitesTyped, SitesGuarded
    PROVE  \A s \in Site : Sites!InFlight(s) = Batched(sitesFlushes, s)
                           /\ Batched(sitesFlushes, s) \in Nat
<1> SUFFICES ASSUME NEW s \in Site
             PROVE  Sites!InFlight(s) = Batched(sitesFlushes, s)
                    /\ Batched(sitesFlushes, s) \in Nat
  OBVIOUS
<1>0. sitesFlushes \in Seq(SiteFlush)
  BY DEF SitesTyped
<1>1. CASE sitesFlushes = <<>>
  BY <1>1, SitesSummed DEF SitesSums, Batched
<1>2. CASE sitesFlushes # <<>>
  <2> DEFINE f == sitesFlushes[1]
  <2>1. sitesFlushes = <<f>> /\ f \in SiteFlush
    BY <1>0, <1>2, Single DEF SitesGuarded
  <2>2. f.batch[s] \in Nat
    BY <2>1 DEF SiteFlush
  <2> HIDE DEF f
  <2>3. Sites!InFlight(s) = f.batch[s]
    BY <2>1, <2>2, SitesSummed DEF SitesSums
  <2> QED BY <2>1, <2>2, <2>3, <1>2 DEF Batched, f
<1> QED BY <1>1, <1>2

LEMMA SitesInit == Sites!Init => SitesInv
<1> SUFFICES ASSUME Sites!Init PROVE SitesInv
  OBVIOUS
<1>1. /\ sitesStored = [s \in {} |-> 0] /\ sitesFlushes = <<>>
      /\ sitesPending = [s \in Site |-> 0] /\ sitesCounted = [s \in Site |-> 0]
      /\ sitesUnguarded = FALSE
  BY DEF Sites!Init, Sites!Nothing
<1>2. sitesStored \in SiteMap
  <2>1. sitesStored \in [{} -> Nat] /\ {} \in SUBSET Site
    BY <1>1
  <2> QED BY <2>1 DEF SiteMap
<1>3. SitesTyped
  <2>1. sitesFlushes \in Seq(SiteFlush)
    BY <1>1
  <2> QED BY <2>1, <1>1, <1>2 DEF SitesTyped
<1>4. SitesGuarded
  BY <1>1 DEF SitesGuarded, Sites!Value, Batched
<1> QED BY <1>3, <1>4 DEF SitesInv

\* Counting, and taking the batch that is pending.
LEMMA SitesTake ==
    ASSUME SitesInv,
           (\E s \in Site : Sites!IncrementDomainStat(s)) \/ Sites!Take
    PROVE  SitesInv'
<1>1. ASSUME NEW s \in Site, Sites!IncrementDomainStat(s) PROVE SitesInv'
  <2>1. /\ sitesPending' = [sitesPending EXCEPT ![s] = @ + 1]
        /\ sitesCounted' = [sitesCounted EXCEPT ![s] = @ + 1]
        /\ UNCHANGED <<sitesStored, sitesFlushes, sitesUnguarded>>
    BY <1>1 DEF Sites!IncrementDomainStat
  <2>2. SitesTyped'
    BY <2>1 DEF SitesInv, SitesTyped
  <2>3. ASSUME ~sitesUnguarded PROVE SitesGuarded'
    <3>1. SitesTyped /\ SitesGuarded
      BY <2>3 DEF SitesInv
    <3>2. \A t \in Site : /\ Sites!Value(sitesStored, t) \in Nat /\ sitesPending[t] \in Nat
                          /\ Batched(sitesFlushes, t) \in Nat /\ sitesCounted[t] \in Int
      BY <3>1, ValueTyped, SitesBatched DEF SitesTyped, SitesGuarded
    <3>3. \A t \in Site : Sites!Value(sitesStored, t)' = Sites!Value(sitesStored, t)
                          /\ Batched(sitesFlushes, t)' = Batched(sitesFlushes, t)
      BY <2>1
    <3>4. \A t \in Site : Sites!Value(sitesStored, t)' + sitesPending'[t]
                              + Batched(sitesFlushes, t)' = sitesCounted'[t]
      BY <2>1, <3>1, <3>2, <3>3 DEF SitesGuarded, SitesTyped
    <3> QED BY <2>1, <3>1, <3>4 DEF SitesGuarded
  <2> QED BY <2>1, <2>2, <2>3 DEF SitesInv
<1>2. CASE Sites!Take
  <2>1. /\ sitesPending' = [s \in Site |-> 0]
        /\ sitesFlushes' = IF sitesPending = [s \in Site |-> 0] THEN sitesFlushes
                           ELSE Append(sitesFlushes, [pc |-> "reading", batch |-> sitesPending,
                                                      seen |-> sitesStored])
        /\ sitesUnguarded' = (sitesUnguarded \/ (sitesPending # [s \in Site |-> 0]
                                                 /\ sitesFlushes # <<>>))
        /\ UNCHANGED <<sitesStored, sitesCounted>>
    BY <1>2 DEF Sites!Take, Sites!AfterTaking, Sites!Nothing
  <2>2. CASE sitesPending = [s \in Site |-> 0]
    <3>1. UNCHANGED <<sitesStored, sitesPending, sitesFlushes, sitesCounted>>
          /\ sitesUnguarded' = sitesUnguarded
      BY <2>1, <2>2 DEF SitesInv, SitesTyped
    <3> QED BY <3>1 DEF SitesInv, SitesTyped, SitesGuarded, Sites!Value, Batched
  <2>3. CASE sitesPending # [s \in Site |-> 0]
    <3> DEFINE f == [pc |-> "reading", batch |-> sitesPending, seen |-> sitesStored]
    <3>1. sitesFlushes' = Append(sitesFlushes, f)
      BY <2>1, <2>3
    <3>2. f \in SiteFlush /\ f.pc = "reading" /\ f.batch = sitesPending
      BY DEF SiteFlush, SitesInv, SitesTyped
    <3> HIDE DEF f
    <3>3. sitesFlushes' \in Seq(SiteFlush)
      BY <3>1, <3>2 DEF SitesInv, SitesTyped
    <3>4. SitesTyped'
      BY <3>3, <2>1 DEF SitesInv, SitesTyped
    <3>5. ASSUME ~sitesUnguarded' PROVE SitesGuarded'
      <4>1. ~sitesUnguarded /\ sitesFlushes = <<>>
        BY <3>5, <2>1, <2>3
      <4>2. SitesTyped /\ SitesGuarded
        BY <4>1 DEF SitesInv
      <4>3. sitesFlushes' = <<f>>
        BY <3>1, <4>1
      <4>4. \A s \in Site : Batched(sitesFlushes, s)' = sitesPending[s]
                            /\ Batched(sitesFlushes, s) = 0
        BY <4>1, <4>3, <3>2 DEF Batched
      <4>5. \A s \in Site : /\ Sites!Value(sitesStored, s)' = Sites!Value(sitesStored, s)
                            /\ Sites!Value(sitesStored, s) \in Nat /\ sitesPending[s] \in Nat
        BY <4>2, <2>1, ValueTyped DEF SitesTyped
      <4>6. \A s \in Site : Sites!Value(sitesStored, s)' + sitesPending'[s]
                                + Batched(sitesFlushes, s)' = sitesCounted'[s]
        BY <4>2, <4>4, <4>5, <2>1 DEF SitesGuarded
      <4> QED BY <4>2, <4>3, <4>6, <3>2, <2>1 DEF SitesGuarded
    <3> QED BY <3>4, <3>5 DEF SitesInv
  <2> QED BY <2>2, <2>3
<1> QED BY <1>1, <1>2

\* What a flush writes: a count for count, the batch's added.
LEMMA MergedTyped ==
    ASSUME NEW seen \in SiteMap, NEW batch \in [Site -> Nat]
    PROVE  /\ Sites!Merged(seen, batch) \in SiteMap
           /\ \A s \in Site : Sites!Value(Sites!Merged(seen, batch), s)
                                  = Sites!Value(seen, s) + batch[s]
<1> DEFINE D == DOMAIN seen \cup {s \in Site : batch[s] > 0}
           m == [s \in D |-> Sites!Value(seen, s) + batch[s]]
<1>1. D \subseteq Site
  BY DEF SiteMap
<1>2. \A s \in Site : Sites!Value(seen, s) \in Nat /\ batch[s] \in Nat
  BY ValueTyped
<1>3. Sites!Merged(seen, batch) = m
  BY DEF Sites!Merged
<1>4. m \in [D -> Nat]
  BY <1>1, <1>2
<1>5. m \in SiteMap
  <2> HIDE DEF D, m
  <2> QED BY <1>1, <1>4 DEF SiteMap
<1>6. ASSUME NEW s \in Site PROVE Sites!Value(m, s) = Sites!Value(seen, s) + batch[s]
  <2>1. CASE s \in D
    BY <2>1 DEF Sites!Value
  <2>2. CASE s \notin D
    <3>1. batch[s] = 0 /\ Sites!Value(seen, s) = 0 /\ Sites!Value(m, s) = 0
      BY <2>2, <1>2 DEF Sites!Value
    <3> QED BY <3>1
  <2> QED BY <2>1, <2>2
<1> QED BY <1>3, <1>5, <1>6

\* A flush reads, or its batch goes back; it writes, or its write is lost.
LEMMA SitesFlush ==
    ASSUME SitesInv, NEW i \in DOMAIN sitesFlushes,
           Sites!FlushReads(i) \/ Sites!FlushWrites(i)
    PROVE  SitesInv'
<1> DEFINE f == sitesFlushes[i]
<1>1. SitesTyped /\ sitesFlushes \in Seq(SiteFlush) /\ f \in SiteFlush
  <2>1. SitesTyped /\ sitesFlushes \in Seq(SiteFlush)
    BY DEF SitesInv, SitesTyped
  <2> QED BY <2>1
<1>2. ~sitesUnguarded => /\ SitesGuarded /\ i = 1 /\ sitesFlushes = <<f>>
                         /\ \A s \in Site : Batched(sitesFlushes, s) = f.batch[s]
  <2> SUFFICES ASSUME ~sitesUnguarded
               PROVE  /\ SitesGuarded /\ i = 1 /\ sitesFlushes = <<f>>
                      /\ \A s \in Site : Batched(sitesFlushes, s) = f.batch[s]
    OBVIOUS
  <2>1. SitesGuarded
    BY DEF SitesInv
  <2>2. sitesFlushes # <<>> /\ Len(sitesFlushes) <= 1
    BY <2>1, <1>1 DEF SitesGuarded
  <2>3. i = 1
    BY <2>2, <1>1
  <2>4. sitesFlushes = <<f>>
    BY <2>2, <2>3, <1>1, Single
  <2> QED BY <2>1, <2>2, <2>3, <2>4 DEF Batched
<1>3. f.pc \in {"reading", "writing"} /\ f.batch \in [Site -> Nat] /\ f.seen \in SiteMap
  BY <1>1 DEF SiteFlush
<1>4. CASE /\ sitesFlushes' = [sitesFlushes EXCEPT ![i].pc = "writing", ![i].seen = sitesStored]
           /\ UNCHANGED <<sitesStored, sitesPending, sitesCounted, sitesUnguarded>>
  <2> DEFINE g == [f EXCEPT !.pc = "writing", !.seen = sitesStored]
  <2>1. g \in SiteFlush /\ g.seen = sitesStored /\ g.batch = f.batch
    BY <1>1 DEF SiteFlush, SitesTyped
  <2>2. sitesFlushes' = [sitesFlushes EXCEPT ![i] = g]
    BY <1>4
  <2> HIDE DEF g
  <2>3. /\ sitesFlushes' \in Seq(SiteFlush) /\ Len(sitesFlushes') = Len(sitesFlushes)
        /\ DOMAIN sitesFlushes' = DOMAIN sitesFlushes /\ sitesFlushes'[i] = g
    BY <2>1, <2>2, <1>1
  <2>4. SitesTyped'
    BY <2>3, <1>1, <1>4 DEF SitesTyped
  <2>5. ASSUME ~sitesUnguarded' PROVE SitesGuarded'
    <3>1. ~sitesUnguarded
      BY <2>5, <1>4
    <3>2. sitesFlushes' # <<>> /\ \A s \in Site : Batched(sitesFlushes, s)' = f.batch[s]
      <4>1. sitesFlushes' # <<>> /\ sitesFlushes'[1] = g
        BY <2>3, <1>2, <3>1
      <4> QED BY <4>1, <2>1 DEF Batched
    <3>3. \A s \in Site : Sites!Value(sitesStored, s)' + sitesPending'[s]
                              + Batched(sitesFlushes, s)' = sitesCounted'[s]
      BY <3>1, <3>2, <1>2, <1>4 DEF SitesGuarded
    <3>4. \A j \in DOMAIN sitesFlushes' : sitesFlushes'[j] = g
      <4>1. \A j \in DOMAIN sitesFlushes : j = 1
        BY <3>1, <1>1, <1>2
      <4> QED BY <4>1, <2>3, <1>2, <3>1
    <3> QED BY <3>1, <3>3, <3>4, <2>1, <2>3, <1>2, <1>4 DEF SitesGuarded
  <2> QED BY <2>4, <2>5 DEF SitesInv
<1>5. CASE sitesFlushes' = Sites!RemoveAt(sitesFlushes, i)
  <2>1. sitesFlushes' \in Seq(SiteFlush) /\ (~sitesUnguarded => sitesFlushes' = <<>>)
    <3>1. /\ sitesFlushes' \in Seq(SiteFlush) /\ Len(sitesFlushes') = Len(sitesFlushes) - 1
      BY <1>1, <1>5, Removed
    <3>2. ~sitesUnguarded => Len(sitesFlushes) = 1
      BY <1>2
    <3> QED BY <3>1, <3>2
  <2>2. ~sitesUnguarded => DOMAIN sitesFlushes' = {} /\ Len(sitesFlushes') = 0
                           /\ \A s \in Site : Batched(sitesFlushes, s)' = 0
    BY <2>1 DEF Batched
  <2>3. CASE /\ sitesPending' = Sites!Restored(f)
             /\ UNCHANGED <<sitesStored, sitesCounted, sitesUnguarded>>
    <3>1. sitesPending' = [s \in Site |-> sitesPending[s] + f.batch[s]]
      BY <2>3 DEF Sites!Restored, Sites!Plus
    <3>2. sitesPending \in [Site -> Nat]
      BY <1>1 DEF SitesTyped
    <3>3. sitesPending' \in [Site -> Nat]
      BY <3>1, <3>2, <1>3
    <3>4. SitesTyped'
      BY <2>1, <2>3, <3>3, <1>1 DEF SitesTyped
    <3>5. ASSUME ~sitesUnguarded' PROVE SitesGuarded'
      <4>1. ~sitesUnguarded /\ SitesGuarded
        BY <3>5, <2>3, <1>2
      <4>2. \A s \in Site : /\ Sites!Value(sitesStored, s) \in Nat /\ sitesPending[s] \in Nat
                            /\ f.batch[s] \in Nat
                            /\ Sites!Value(sitesStored, s)' = Sites!Value(sitesStored, s)
        BY <3>2, <1>1, <1>3, <2>3, ValueTyped DEF SitesTyped
      <4>3. \A s \in Site : Sites!Value(sitesStored, s)' + sitesPending'[s]
                                + Batched(sitesFlushes, s)' = sitesCounted'[s]
        BY <4>1, <4>2, <3>1, <2>2, <2>3, <1>2 DEF SitesGuarded
      <4> QED BY <4>1, <4>3, <2>2, <2>3 DEF SitesGuarded
    <3> QED BY <3>4, <3>5 DEF SitesInv
  <2>4. CASE Sites!Fails("write") /\ sitesUnguarded' = TRUE
             /\ UNCHANGED <<sitesStored, sitesCounted, sitesPending>>
    <3>1. SitesTyped'
      BY <2>1, <2>4, <1>1 DEF SitesTyped
    <3> QED BY <3>1, <2>4 DEF SitesInv
  <2>5. ASSUME f.pc = "writing",
               NEW kept \in SUBSET DOMAIN Sites!Merged(f.seen, f.batch),
               sitesStored' = [s \in kept |-> Sites!Merged(f.seen, f.batch)[s]],
               sitesCounted' = [s \in Site |->
                   IF s \in DOMAIN Sites!Merged(f.seen, f.batch) \ kept
                   THEN sitesCounted[s] - Sites!Merged(f.seen, f.batch)[s]
                   ELSE sitesCounted[s]],
               UNCHANGED <<sitesPending, sitesUnguarded>>
        PROVE  SitesInv'
    <3> DEFINE m == Sites!Merged(f.seen, f.batch)
    <3>1. /\ m \in SiteMap
          /\ \A s \in Site : Sites!Value(m, s) = Sites!Value(f.seen, s) + f.batch[s]
      BY <1>3, MergedTyped
    <3>2. /\ kept \in SUBSET DOMAIN m
          /\ sitesStored' = [s \in kept |-> m[s]]
          /\ sitesCounted' = [s \in Site |-> IF s \in DOMAIN m \ kept THEN sitesCounted[s] - m[s]
                                                                     ELSE sitesCounted[s]]
      BY <2>5
    <3> HIDE DEF m
    <3>3. DOMAIN m \subseteq Site /\ \A s \in DOMAIN m : m[s] \in Nat
      BY <3>1 DEF SiteMap
    <3>4. sitesStored' \in SiteMap
      <4>1. sitesStored' \in [kept -> Nat] /\ kept \in SUBSET Site
        BY <3>2, <3>3
      <4> QED BY <4>1 DEF SiteMap
    <3>5. SitesTyped'
      BY <2>1, <2>5, <3>4, <1>1 DEF SitesTyped
    <3>6. ASSUME ~sitesUnguarded' PROVE SitesGuarded'
      <4>1. ~sitesUnguarded /\ SitesGuarded
        BY <3>6, <2>5, <1>2
      <4>2. f.seen = sitesStored
        BY <4>1, <2>5, <1>1 DEF SitesGuarded
      <4>3. sitesCounted' \in [Site -> Int]
        BY <3>2, <3>3, <4>1 DEF SitesGuarded
      <4>4. ASSUME NEW s \in Site
            PROVE  Sites!Value(sitesStored, s)' + sitesPending'[s]
                       + Batched(sitesFlushes, s)' = sitesCounted'[s]
        <5>1. /\ Sites!Value(m, s) = Sites!Value(sitesStored, s) + f.batch[s]
              /\ Sites!Value(m, s) \in Nat /\ Sites!Value(sitesStored, s) \in Nat
              /\ f.batch[s] \in Nat /\ sitesPending[s] \in Nat /\ sitesCounted[s] \in Int
          BY <3>1, <4>1, <4>2, <1>1, <1>3, ValueTyped DEF SitesTyped, SitesGuarded
        <5>2. Sites!Value(sitesStored, s) + sitesPending[s] + f.batch[s] = sitesCounted[s]
          BY <4>1, <1>2 DEF SitesGuarded
        <5>3. Batched(sitesFlushes, s)' = 0 /\ sitesPending'[s] = sitesPending[s]
          BY <4>1, <2>2, <2>5
        <5>4. CASE s \in kept
          <6>1. Sites!Value(sitesStored, s)' = Sites!Value(m, s) /\ sitesCounted'[s] = sitesCounted[s]
            BY <5>4, <3>2 DEF Sites!Value
          <6> QED BY <6>1, <5>1, <5>2, <5>3
        <5>5. CASE s \notin kept /\ s \in DOMAIN m
          <6>1. /\ Sites!Value(sitesStored, s)' = 0
                /\ sitesCounted'[s] = sitesCounted[s] - Sites!Value(m, s)
            BY <5>5, <3>2 DEF Sites!Value
          <6> QED BY <6>1, <5>1, <5>2, <5>3
        <5>6. CASE s \notin kept /\ s \notin DOMAIN m
          <6>1. /\ Sites!Value(sitesStored, s)' = 0 /\ Sites!Value(m, s) = 0
                /\ sitesCounted'[s] = sitesCounted[s]
            BY <5>6, <3>2 DEF Sites!Value
          <6> QED BY <6>1, <5>1, <5>2, <5>3
        <5> QED BY <5>4, <5>5, <5>6
      <4> QED BY <4>1, <4>3, <4>4, <2>2 DEF SitesGuarded
    <3> QED BY <3>5, <3>6 DEF SitesInv
  <2>6. CASE Sites!FlushReads(i)
    <3>1. sitesFlushes' # [sitesFlushes EXCEPT ![i].pc = "writing", ![i].seen = sitesStored]
      <4>1. Len(sitesFlushes') = Len(sitesFlushes) - 1 /\ Len(sitesFlushes) \in Nat
        BY <1>1, <1>5, Removed
      <4>2. Len([sitesFlushes EXCEPT ![i].pc = "writing", ![i].seen = sitesStored])
              = Len(sitesFlushes)
        BY <1>1
      <4> QED BY <4>1, <4>2
    <3> QED BY <3>1, <2>3, <2>6 DEF Sites!FlushReads
  <2>7. CASE Sites!FlushWrites(i)
    BY <2>7, <2>4, <2>5 DEF Sites!FlushWrites
  <2> QED BY <2>6, <2>7
<1> QED BY <1>4, <1>5 DEF Sites!FlushReads, Sites!FlushWrites

LEMMA SitesOthers ==
    ASSUME SitesInv, Sites!Reset \/ Sites!Restart
    PROVE  SitesInv'
<1>0. SitesTyped
  BY DEF SitesInv
<1>1. CASE Sites!Reset
  <2>1. /\ sitesStored' = [s \in {} |-> 0] /\ sitesCounted' = sitesPending
        /\ sitesUnguarded' = (sitesFlushes # <<>>)
        /\ UNCHANGED <<sitesPending, sitesFlushes>>
    BY <1>1 DEF Sites!Reset
  <2>2. sitesStored' \in SiteMap
    <3>1. sitesStored' \in [{} -> Nat] /\ {} \in SUBSET Site
      BY <2>1
    <3> QED BY <3>1 DEF SiteMap
  <2>3. SitesTyped'
    BY <2>1, <2>2, <1>0 DEF SitesTyped
  <2>4. ASSUME ~sitesUnguarded' PROVE SitesGuarded'
    <3>1. sitesFlushes' = <<>> /\ sitesPending' \in [Site -> Nat]
      BY <2>1, <2>4, <1>0 DEF SitesTyped
    <3>2. \A s \in Site : Sites!Value(sitesStored, s)' = 0 /\ Batched(sitesFlushes, s)' = 0
      BY <2>1, <3>1 DEF Sites!Value, Batched
    <3> QED BY <2>1, <3>1, <3>2 DEF SitesGuarded
  <2> QED BY <2>3, <2>4 DEF SitesInv
<1>2. CASE Sites!Restart
  <2>1. /\ sitesCounted' = [s \in Site |-> sitesCounted[s] - sitesPending[s] - Sites!InFlight(s)]
        /\ sitesPending' = [s \in Site |-> 0] /\ sitesFlushes' = <<>>
        /\ UNCHANGED <<sitesStored, sitesUnguarded>>
    BY <1>2 DEF Sites!Restart, Sites!Nothing
  <2>2. SitesTyped'
    <3>1. sitesFlushes' \in Seq(SiteFlush)
      BY <2>1
    <3> QED BY <3>1, <2>1, <1>0 DEF SitesTyped
  <2>3. ASSUME ~sitesUnguarded' PROVE SitesGuarded'
    <3>1. SitesGuarded
      BY <2>1, <2>3 DEF SitesInv
    <3>2. \A s \in Site : /\ Sites!Value(sitesStored, s) \in Nat /\ sitesPending[s] \in Nat
                          /\ Batched(sitesFlushes, s) \in Nat /\ sitesCounted[s] \in Int
                          /\ Sites!InFlight(s) = Batched(sitesFlushes, s)
      BY <3>1, <1>0, ValueTyped, SitesBatched DEF SitesTyped, SitesGuarded
    <3>3. \A s \in Site : /\ Sites!Value(sitesStored, s)' = Sites!Value(sitesStored, s)
                          /\ Batched(sitesFlushes, s)' = 0 /\ sitesPending'[s] = 0
                          /\ sitesCounted'[s] = Sites!Value(sitesStored, s)
      BY <2>1, <3>1, <3>2, SMTT(30) DEF Batched, SitesGuarded
    <3>4. sitesCounted' \in [Site -> Int]
      BY <2>1, <3>2
    <3> QED BY <2>1, <3>2, <3>3, <3>4 DEF SitesGuarded
  <2> QED BY <2>2, <2>3 DEF SitesInv
<1> QED BY <1>1, <1>2

LEMMA SitesNext == SitesInv /\ [Sites!Next]_(Sites!vars) => SitesInv'
<1> SUFFICES ASSUME SitesInv, [Sites!Next]_(Sites!vars) PROVE SitesInv'
  OBVIOUS
<1>1. CASE Sites!Next
  BY <1>1, SitesTake, SitesFlush, SitesOthers
     DEF Sites!Next, Sites!TimerFires, Sites!Suspend, Sites!FlushStep
<1>2. CASE UNCHANGED Sites!vars
  BY <1>2 DEF Sites!vars, Sites!bounds, SitesInv, SitesTyped, SitesGuarded, Sites!Value, Batched
<1> QED BY <1>1, <1>2

LEMMA SitesRuns == RunSpec => Sites!Spec
<1>1. RunInit => Sites!Init
  BY DEF RunInit
<1>2. [RunNext]_allVars => [Sites!Next]_(Sites!vars)
  BY DEF RunNext, allVars, sitesVars, Sites!vars, Sites!bounds
<1> QED BY <1>1, <1>2, PTL DEF RunSpec, Sites!Spec

\* What is stored for a site, waits in the batch and is being flushed add up to what was
\* counted and neither reset, evicted nor lost with a worker, while no two flushes
\* overlap and no write fails (_flushDomainStats, its retry and its eviction).
THEOREM SiteCountsAreConserved == RunSpec => []SiteCountsConserved
<1>1. SitesInv => SiteCountsConserved
  <2> SUFFICES ASSUME SitesInv, ~sitesUnguarded, NEW s \in Site
               PROVE  Sites!Value(sitesStored, s) + sitesPending[s] + Sites!InFlight(s)
                          = sitesCounted[s]
    BY DEF SiteCountsConserved, Sites!SiteCountsConserved
  <2> QED BY SitesBatched DEF SitesInv, SitesGuarded
<1> QED BY <1>1, SitesInit, SitesNext, SitesRuns, PTL DEF Sites!Spec

LEMMA InFlightIs == SitesTyped => \A s \in Site : Sites!InFlight(s) \in Int
<1> SUFFICES ASSUME SitesTyped, NEW s \in Site PROVE Sites!InFlight(s) \in Int
  OBVIOUS
<1> DEFINE q == sitesFlushes
           v == Batches(q, s)
<1>1. q \in Seq(SiteFlush)
  BY DEF SitesTyped
<1>2. \A i \in 1..Len(q) : q[i].batch[s] \in Int
  <2>1. \A f \in SiteFlush : f.batch[s] \in Int
    BY DEF SiteFlush
  <2> QED BY <1>1, <2>1
<1>3. v = [i \in 1..Len(q) |-> q[i].batch[s]] /\ Len(q) \in Nat
  BY <1>1 DEF Batches
<1>4. v \in Seq(Int)
  <2>1. v \in [1..Len(q) -> Int]
    BY <1>2, <1>3
  <2> QED BY <1>3, <2>1
<1> HIDE DEF v
<1>5. Total(v) \in Int
  BY <1>4, TotalIs
<1> QED BY <1>4, <1>5, SitesTotalled DEF SitesTotal, v

Positive(m) == \A s \in DOMAIN m : m[s] # 0

\* What SitesInv leaves out: an entry is never empty, and there are no more of
\* them than the cap, however many flushes overlap.
SitesKept ==
    /\ sitesCounted \in [Site -> Int] /\ sitesTimer \in BOOLEAN
    /\ siteIncrements \in Nat /\ siteResets \in Nat /\ sitesRestarts \in Nat /\ sitesFaults \in Nat
    /\ Positive(sitesStored) /\ Cardinality(DOMAIN sitesStored) <= SitesCap
    /\ \A i \in DOMAIN sitesFlushes :
           sitesFlushes[i].batch # Sites!Nothing /\ Positive(sitesFlushes[i].seen)

LEMMA SitesKeptInit == Sites!Init => SitesKept
<1> SUFFICES ASSUME Sites!Init PROVE SitesKept
  OBVIOUS
<1>1. /\ sitesStored = [s \in {} |-> 0] /\ DOMAIN sitesStored = {}
      /\ sitesCounted = [s \in Site |-> 0] /\ sitesTimer = FALSE /\ sitesFlushes = <<>>
      /\ siteIncrements = 0 /\ siteResets = 0 /\ sitesRestarts = 0 /\ sitesFaults = 0
  BY DEF Sites!Init, Sites!Nothing
<1>2. Cardinality({}) = 0
  BY FS_EmptySet
<1>3. DOMAIN sitesFlushes = {}
  BY <1>1
<1>4. Cardinality(DOMAIN sitesStored) <= SitesCap
  <2>1. Cardinality(DOMAIN sitesStored) = 0
    BY <1>1, <1>2
  <2> QED BY <2>1, BoundsAssumption
<1>5. sitesCounted \in [Site -> Int] /\ Positive(sitesStored)
  BY <1>1 DEF Positive
<1>6. /\ sitesTimer \in BOOLEAN
      /\ siteIncrements \in Nat /\ siteResets \in Nat /\ sitesRestarts \in Nat /\ sitesFaults \in Nat
  BY <1>1
<1> QED BY <1>3, <1>4, <1>5, <1>6 DEF SitesKept

LEMMA SitesCardinality == \A S : Sites!Cardinality(S) = Cardinality(S)
  BY DEF Sites!Cardinality, Cardinality

\* What a flush keeps fits the cap.
LEMMA KeptFits ==
    ASSUME NEW m \in SiteMap, NEW kept \in SUBSET DOMAIN m, Sites!Keeps(m, kept)
    PROVE  Cardinality(kept) <= SitesCap
<1>1. DOMAIN m \subseteq Site
  BY DEF SiteMap
<1>2. Cardinality(DOMAIN m) \in Nat /\ SitesCap \in Nat
  BY <1>1, BoundsAssumption, FS_Subset, FS_CardinalityType
<1>3. Cardinality(kept) = IF Cardinality(DOMAIN m) > SitesCap THEN SitesCap
                          ELSE Cardinality(DOMAIN m)
  BY SitesCardinality DEF Sites!Keeps
<1> DEFINE n == Cardinality(DOMAIN m)
<1> HIDE DEF n
<1>4. (IF n > SitesCap THEN SitesCap ELSE n) <= SitesCap
  BY <1>2 DEF n
<1> QED BY <1>3, <1>4 DEF n

LEMMA SitesKeptNext ==
    ASSUME SitesInv, SitesInv', SitesKept, [Sites!Next]_(Sites!vars)
    PROVE  SitesKept'
<1>0. /\ SitesTyped /\ sitesFlushes \in Seq(SiteFlush) /\ sitesPending \in [Site -> Nat]
      /\ sitesStored \in SiteMap
  BY DEF SitesInv, SitesTyped
<1>1. /\ sitesCounted \in [Site -> Int] /\ sitesTimer \in BOOLEAN
      /\ siteIncrements \in Nat /\ siteResets \in Nat /\ sitesRestarts \in Nat /\ sitesFaults \in Nat
      /\ Positive(sitesStored) /\ Cardinality(DOMAIN sitesStored) <= SitesCap
      /\ \A i \in DOMAIN sitesFlushes :
             sitesFlushes[i].batch # Sites!Nothing /\ Positive(sitesFlushes[i].seen)
  BY DEF SitesKept
<1>2. ASSUME NEW call, Sites!Fails(call)
      PROVE  siteIncrements' \in Nat /\ siteResets' \in Nat /\ sitesRestarts' \in Nat
             /\ sitesFaults' \in Nat
  BY <1>1, <1>2 DEF Sites!Fails
<1>3. UNCHANGED Sites!bounds
          => siteIncrements' \in Nat /\ siteResets' \in Nat /\ sitesRestarts' \in Nat
             /\ sitesFaults' \in Nat
  BY <1>1 DEF Sites!bounds
<1>4. ASSUME NEW i \in DOMAIN sitesFlushes, sitesFlushes' = Sites!RemoveAt(sitesFlushes, i)
      PROVE  \A j \in DOMAIN sitesFlushes' :
                 sitesFlushes'[j].batch # Sites!Nothing /\ Positive(sitesFlushes'[j].seen)
  <2> DEFINE w == Without(sitesFlushes, i)
  <2>1. /\ sitesFlushes' = w /\ w \in Seq(SiteFlush) /\ Len(w) = Len(sitesFlushes) - 1
        /\ \A j \in DOMAIN w : w[j] = sitesFlushes[IF j < i THEN j ELSE j + 1]
    BY <1>0, <1>4, Removed
  <2> HIDE DEF w
  <2>2. \A j \in DOMAIN w : (IF j < i THEN j ELSE j + 1) \in DOMAIN sitesFlushes
    <3>1. DOMAIN w = 1..(Len(sitesFlushes) - 1) /\ Len(sitesFlushes) \in Nat
          /\ DOMAIN sitesFlushes = 1..Len(sitesFlushes)
      <4>1. DOMAIN w = 1..Len(w)
        BY <2>1
      <4> QED BY <1>0, <2>1, <4>1
    <3> QED BY <3>1
  <2> QED BY <1>1, <2>1, <2>2
<1>5. CASE UNCHANGED Sites!vars
  BY <1>1, <1>3, <1>5 DEF Sites!vars, SitesKept
<1>6. CASE \E s \in Site : Sites!IncrementDomainStat(s)
  <2> PICK s \in Site : Sites!IncrementDomainStat(s)
    BY <1>6
  <2>1. /\ sitesCounted' = [sitesCounted EXCEPT ![s] = @ + 1] /\ sitesTimer' = TRUE
        /\ siteIncrements' = siteIncrements + 1
        /\ UNCHANGED <<sitesStored, sitesFlushes, siteResets, sitesRestarts, sitesFaults>>
    BY DEF Sites!IncrementDomainStat
  <2>2. sitesCounted' \in [Site -> Int]
    BY <1>1, <2>1
  <2> QED BY <1>1, <2>1, <2>2 DEF SitesKept
<1>7. CASE Sites!Take /\ (sitesTimer' = FALSE \/ UNCHANGED sitesTimer)
  <2>1. /\ sitesFlushes' = IF sitesPending = Sites!Nothing THEN sitesFlushes
                           ELSE Append(sitesFlushes, [pc |-> "reading", batch |-> sitesPending,
                                                      seen |-> sitesStored])
        /\ UNCHANGED <<sitesStored, sitesCounted>> /\ UNCHANGED Sites!bounds
    BY <1>7 DEF Sites!Take
  <2>2. \A j \in DOMAIN sitesFlushes' :
            sitesFlushes'[j].batch # Sites!Nothing /\ Positive(sitesFlushes'[j].seen)
    <3>1. CASE sitesPending = Sites!Nothing
      BY <1>1, <2>1, <3>1
    <3>2. CASE sitesPending # Sites!Nothing
      <4> DEFINE f == [pc |-> "reading", batch |-> sitesPending, seen |-> sitesStored]
      <4>1. f \in SiteFlush /\ f.batch # Sites!Nothing /\ Positive(f.seen)
        BY <1>0, <1>1, <3>2 DEF SiteFlush
      <4>2. sitesFlushes' = Append(sitesFlushes, f)
        BY <2>1, <3>2
      <4> HIDE DEF f
      <4>3. \A j \in DOMAIN sitesFlushes' :
                sitesFlushes'[j] = f \/ (j \in DOMAIN sitesFlushes /\ sitesFlushes'[j] = sitesFlushes[j])
        BY <1>0, <4>1, <4>2
      <4> QED BY <1>1, <4>1, <4>3
    <3> QED BY <3>1, <3>2
  <2>3. sitesTimer' \in BOOLEAN
    BY <1>1, <1>7
  <2> QED BY <1>1, <1>3, <2>1, <2>2, <2>3 DEF SitesKept
<1>8. ASSUME NEW i \in DOMAIN sitesFlushes, Sites!FlushReads(i)
      PROVE  SitesKept'
  <2>1. UNCHANGED <<sitesStored, sitesTimer, sitesCounted>>
        /\ siteIncrements' \in Nat /\ siteResets' \in Nat /\ sitesRestarts' \in Nat
        /\ sitesFaults' \in Nat
    BY <1>2, <1>3, <1>8 DEF Sites!FlushReads
  <2>2. \A j \in DOMAIN sitesFlushes' :
            sitesFlushes'[j].batch # Sites!Nothing /\ Positive(sitesFlushes'[j].seen)
    <3>1. CASE sitesFlushes' = [sitesFlushes EXCEPT ![i].pc = "writing", ![i].seen = sitesStored]
      <4> DEFINE g == [sitesFlushes[i] EXCEPT !.pc = "writing", !.seen = sitesStored]
      <4>1. sitesFlushes[i] \in SiteFlush
        BY <1>0
      <4>2. g.batch = sitesFlushes[i].batch /\ g.seen = sitesStored
        BY <4>1 DEF SiteFlush
      <4>3. sitesFlushes' = [sitesFlushes EXCEPT ![i] = g]
        BY <3>1
      <4> HIDE DEF g
      <4>4. \A j \in DOMAIN sitesFlushes' :
                j \in DOMAIN sitesFlushes
                /\ sitesFlushes'[j] = IF j = i THEN g ELSE sitesFlushes[j]
        BY <4>3
      <4> QED BY <1>1, <4>2, <4>4
    <3>2. CASE sitesFlushes' = Sites!RemoveAt(sitesFlushes, i)
      BY <1>4, <3>2
    <3> QED BY <1>8, <3>1, <3>2 DEF Sites!FlushReads
  <2> QED BY <1>1, <2>1, <2>2 DEF SitesKept
<1>9. ASSUME NEW i \in DOMAIN sitesFlushes, Sites!FlushWrites(i)
      PROVE  SitesKept'
  <2>1. sitesFlushes' = Sites!RemoveAt(sitesFlushes, i) /\ UNCHANGED <<sitesPending, sitesTimer>>
    BY <1>9 DEF Sites!FlushWrites
  <2>2. \A j \in DOMAIN sitesFlushes' :
            sitesFlushes'[j].batch # Sites!Nothing /\ Positive(sitesFlushes'[j].seen)
    BY <1>4, <2>1
  <2>3. CASE Sites!Fails("write") /\ UNCHANGED <<sitesStored, sitesCounted>>
    BY <1>1, <1>2, <2>1, <2>2, <2>3 DEF SitesKept
  <2> DEFINE f == sitesFlushes[i]
             m == Sites!Merged(f.seen, f.batch)
  <2>4. ASSUME NEW kept \in SUBSET DOMAIN m, Sites!Keeps(m, kept),
               sitesStored' = [s \in kept |-> m[s]],
               sitesCounted' = [s \in Site |-> IF s \in DOMAIN m \ kept
                                               THEN sitesCounted[s] - m[s] ELSE sitesCounted[s]],
               UNCHANGED Sites!bounds
        PROVE  SitesKept'
    <3>1. f.seen \in SiteMap /\ f.batch \in [Site -> Nat] /\ Positive(f.seen)
      <4>1. f \in SiteFlush /\ Positive(f.seen)
        BY <1>0, <1>1
      <4> QED BY <4>1 DEF SiteFlush
    <3>2. m \in SiteMap
      BY <3>1, MergedTyped
    <3>3. Positive(m)
      <4> SUFFICES ASSUME NEW s \in DOMAIN m PROVE m[s] # 0
        BY DEF Positive
      <4>1. /\ s \in DOMAIN f.seen \/ (s \in Site /\ f.batch[s] > 0)
            /\ m[s] = Sites!Value(f.seen, s) + f.batch[s]
        BY DEF Sites!Merged
      <4>2. s \in Site
        BY <3>1, <4>1 DEF SiteMap
      <4>3. Sites!Value(f.seen, s) \in Nat /\ f.batch[s] \in Nat
        BY <3>1, <4>2, ValueTyped
      <4>4. Sites!Value(f.seen, s) # 0 \/ f.batch[s] > 0
        BY <3>1, <4>1 DEF Positive, Sites!Value
      <4> DEFINE a == Sites!Value(f.seen, s)
                 b == f.batch[s]
                 c == m[s]
      <4>5. c = a + b /\ a \in Nat /\ b \in Nat /\ (a # 0 \/ b > 0)
        BY <4>1, <4>3, <4>4
      <4> HIDE DEF a, b, c
      <4>6. c # 0
        BY <4>5
      <4> QED BY <4>6 DEF c
    <3> HIDE DEF m
    <3>4. DOMAIN m \subseteq Site /\ \A s \in DOMAIN m : m[s] \in Nat
      BY <3>2 DEF SiteMap
    <3>5. Cardinality(kept) <= SitesCap
      BY <2>4, <3>2, KeptFits
    <3>6. DOMAIN sitesStored' = kept /\ Positive(sitesStored)'
      BY <2>4, <3>3 DEF Positive
    <3>7. sitesCounted' \in [Site -> Int]
      BY <1>1, <2>4, <3>4
    <3> QED BY <1>1, <1>3, <2>1, <2>2, <2>4, <3>5, <3>6, <3>7 DEF SitesKept
  <2> QED BY <1>9, <2>3, <2>4 DEF Sites!FlushWrites
<1>10. CASE Sites!Reset
  <2>1. /\ siteResets' = siteResets + 1 /\ sitesStored' = [s \in {} |-> 0]
        /\ sitesCounted' = sitesPending
        /\ UNCHANGED <<sitesTimer, sitesFlushes, siteIncrements, sitesRestarts, sitesFaults>>
    BY <1>10 DEF Sites!Reset
  <2>2. DOMAIN sitesStored' = {} /\ Cardinality({}) = 0
    BY <2>1, FS_EmptySet
  <2>3. sitesCounted' \in [Site -> Int]
    BY <1>0, <2>1
  <2>4. Positive(sitesStored)'
    BY <2>2 DEF Positive
  <2> QED BY <1>1, <2>1, <2>2, <2>3, <2>4, BoundsAssumption DEF SitesKept
<1>11. CASE Sites!Restart
  <2>1. /\ sitesRestarts' = sitesRestarts + 1 /\ sitesTimer' = FALSE /\ sitesFlushes' = <<>>
        /\ sitesCounted' = [s \in Site |-> sitesCounted[s] - sitesPending[s] - Sites!InFlight(s)]
        /\ UNCHANGED <<sitesStored, siteIncrements, siteResets, sitesFaults>>
    BY <1>11 DEF Sites!Restart
  <2>2. sitesCounted' \in [Site -> Int]
    <3>1. \A s \in Site : sitesCounted[s] \in Int /\ sitesPending[s] \in Int
                          /\ Sites!InFlight(s) \in Int
      BY <1>0, <1>1, InFlightIs
    <3> QED BY <2>1, <3>1
  <2>3. DOMAIN sitesFlushes' = {}
    BY <2>1
  <2>4. sitesTimer' \in BOOLEAN /\ sitesRestarts' \in Nat
        /\ siteIncrements' \in Nat /\ siteResets' \in Nat /\ sitesFaults' \in Nat
    <3>1. /\ sitesRestarts \in Nat /\ siteIncrements \in Nat /\ siteResets \in Nat
          /\ sitesFaults \in Nat
      BY <1>1
    <3>2. sitesRestarts' = sitesRestarts + 1 /\ UNCHANGED <<siteIncrements, siteResets, sitesFaults>>
      BY <2>1
    <3>3. sitesTimer' \in BOOLEAN
      BY <2>1
    <3>4. /\ sitesRestarts' \in Nat /\ siteIncrements' \in Nat /\ siteResets' \in Nat
          /\ sitesFaults' \in Nat
      BY <3>1, <3>2
    <3> QED BY <3>3, <3>4
  <2>5. Positive(sitesStored)' /\ Cardinality(DOMAIN sitesStored') <= SitesCap
    BY <1>1, <2>1
  <2> QED BY <2>2, <2>3, <2>4, <2>5 DEF SitesKept
<1> QED
  BY <1>5, <1>6, <1>7, <1>8, <1>9, <1>10, <1>11
     DEF Sites!Next, Sites!TimerFires, Sites!Suspend, Sites!FlushStep

LEMMA SitesTypeOK == SitesInv /\ SitesKept => Sites!TypeOK
<1> SUFFICES ASSUME SitesInv, SitesKept PROVE Sites!TypeOK
  OBVIOUS
<1>1. /\ sitesStored \in SiteMap /\ sitesPending \in [Site -> Nat]
      /\ sitesFlushes \in Seq(SiteFlush) /\ sitesUnguarded \in BOOLEAN
  BY DEF SitesInv, SitesTyped
<1>2. DOMAIN sitesStored \subseteq Site /\ \A s \in DOMAIN sitesStored : sitesStored[s] \in Nat \ {0}
  BY <1>1 DEF SiteMap, SitesKept, Positive
<1>3. \A i \in DOMAIN sitesFlushes :
          /\ sitesFlushes[i].pc \in {"reading", "writing"}
          /\ sitesFlushes[i].batch \in [Site -> Nat] \ {Sites!Nothing}
  <2>1. \A i \in DOMAIN sitesFlushes : sitesFlushes[i] \in SiteFlush
    BY <1>1
  <2> QED BY <2>1 DEF SiteFlush, SitesKept
<1>4. /\ sitesCounted \in [Site -> Int] /\ sitesTimer \in BOOLEAN
      /\ siteIncrements \in Nat /\ siteResets \in Nat /\ sitesRestarts \in Nat /\ sitesFaults \in Nat
      /\ Cardinality(DOMAIN sitesStored) <= SitesCap
  BY DEF SitesKept
<1> QED BY <1>1, <1>2, <1>3, <1>4, SitesCardinality DEF Sites!TypeOK, Sites!Counts

-----------------------------------------------------------------------------
(* The lifetime statistics.                                                *)

StatsFlush == [pc : {"reading", "writing"}, delta : Nat \ {0}, seen : Nat]

Delta(q) == IF q = <<>> THEN 0 ELSE q[1].delta

StatsTyped ==
    /\ stats \in Nat \cup {Counters!Absent} /\ firstUsed \in Nat /\ old \in Counters!Saved
    /\ pending \in Nat /\ flushes \in Seq(StatsFlush)
    /\ boot \in [pc : {"idle", "reading", "deciding"}, seen : Nat, done : BOOLEAN]
    /\ statsMigration \in [pc : {"start", "readingLocal", "writing", "removing", "done"},
                           old : Counters!Saved, seen : Counters!Saved]
    /\ statsUnguarded \in BOOLEAN /\ statsRestarts \in Nat

\* What an older release left is a whole record; the migration under way is of it; and
\* once it has been written, the counter is there.
MigrationSound ==
    /\ old # Counters!Nothing => old.stats \in Nat /\ old.firstUsed # 0
    /\ statsMigration.pc \in {"readingLocal", "writing", "removing"} =>
           old # Counters!Nothing /\ statsMigration.old = old
    /\ statsMigration.pc = "writing" =>
           statsMigration.seen.stats \in Nat \cup {Counters!Absent}
    /\ statsMigration.pc \in {"removing", "done"} /\ old # Counters!Nothing =>
           stats # Counters!Absent

\* Flushes come one at a time, after the migration, and what one has read is what is
\* stored.
FlushesAlone ==
    /\ Len(flushes) <= 1
    /\ flushes # <<>> => Counters!Migrated
    /\ \A i \in DOMAIN flushes :
           flushes[i].pc = "writing" => flushes[i].seen = Counters!Present(stats)

\* The counter adds up, the old one standing for the new before the migration's write.
CountsAdd ==
    /\ counted \in Int
    /\ Counters!Migrated => Counters!Present(stats) + pending + Delta(flushes) = counted
    /\ ~Counters!Migrated =>
           (IF stats = Counters!Absent THEN old.stats ELSE stats) + pending = counted

\* What the migration has read is what is stored; the first firstUsed is the old one's
\* until it is written, and none where there is nothing left to migrate.
FirstUsedHeld ==
    /\ statsMigration.pc = "writing" =>
           statsMigration.seen.stats = stats /\ statsMigration.seen.firstUsed = firstUsed
    /\ statsMigration.pc \in {"removing", "done"} /\ old # Counters!Nothing => firstUsed # 0
    /\ firstUsed # 0 => firstUsed = origin
    /\ firstUsed = 0 => origin = IF Counters!Migrated THEN 0 ELSE old.firstUsed

\* The bootstrap comes after the migration, and what it has read is what is stored.
BootAlone ==
    /\ boot.pc # "idle" => Counters!Migrated
    /\ boot.pc = "deciding" => boot.seen = firstUsed

StatsGuarded == FlushesAlone /\ CountsAdd /\ FirstUsedHeld /\ BootAlone

StatsInv == StatsTyped /\ MigrationSound /\ (~statsUnguarded => StatsGuarded)

\* What is in flight is the total of what the flushes carry.
Deltas(q) == [i \in DOMAIN q |-> q[i].delta]

CountersTotal == Deltas(flushes) \in Seq(Int) => Counters!InFlightSum = Total(Deltas(flushes))

LEMMA CountersTotalled == CountersTotal
<1> DEFINE q == flushes
           v == Deltas(q)
<1> SUFFICES ASSUME v \in Seq(Int) PROVE Counters!InFlightSum = Total(v)
  BY DEF CountersTotal
<1> DEFINE Rec(g) == g = [t \in SUBSET DOMAIN q |->
                             IF t = {} THEN 0
                             ELSE LET x == CHOOSE x \in t : TRUE
                                  IN  g[t \ {x}] + q[x].delta]
           it == CHOOSE g : Rec(g)
<1>1. Counters!InFlightSum = it[DOMAIN q]
  BY DEF Counters!InFlightSum, Counters!FoldSeq, Counters!FoldFunction, Counters!FoldFunctionOnSet, Counters!MapThenFoldSet
<1>2. DOMAIN v = DOMAIN q /\ \A x \in DOMAIN q : v[x] = q[x].delta
  BY DEF Deltas
<1> HIDE DEF v
<1>3. ASSUME NEW g PROVE Rec(g) <=> Folded(g, v)
  <2> DEFINE F == [t \in SUBSET DOMAIN q |->
                             IF t = {} THEN 0
                             ELSE LET x == CHOOSE x \in t : TRUE
                                  IN  g[t \ {x}] + q[x].delta]
             G == [t \in SUBSET DOMAIN v |-> IF t = {} THEN 0 ELSE Added(g, v, t)]
  <2>1. \A t \in SUBSET DOMAIN q : t # {} => (CHOOSE x \in t : TRUE) \in DOMAIN q
    OBVIOUS
  <2>2. \A t \in SUBSET DOMAIN q : F[t] = G[t]
    BY <1>2, <2>1 DEF Added
  <2>3. F = G
    BY <1>2, <2>2
  <2> QED BY <2>3 DEF Folded
<1> HIDE DEF Rec
<1>4. Folded(it, v)
  BY <1>3, FoldsExist
<1> HIDE DEF it
<1> QED BY <1>1, <1>2, <1>4, TotalIs

\* What is in flight is what the one flush there is carries.
CountersSums ==
    /\ flushes = <<>> => Counters!InFlightSum = 0
    /\ \A f : flushes = <<f>> /\ f.delta \in Nat => Counters!InFlightSum = f.delta

LEMMA CountersSummed == CountersSums
<1>1. ASSUME flushes = <<>> PROVE Counters!InFlightSum = 0
  <2>1. Deltas(flushes) = <<>> /\ <<>> \in Seq(Int)
    BY <1>1 DEF Deltas
  <2> QED BY <2>1, CountersTotalled, TotalOfNone DEF CountersTotal
<1>2. ASSUME NEW f, flushes = <<f>>, f.delta \in Nat PROVE Counters!InFlightSum = f.delta
  <2>1. Deltas(flushes) = <<f.delta>> /\ <<f.delta>> \in Seq(Int)
    BY <1>2 DEF Deltas
  <2> DEFINE n == f.delta
  <2>2. n \in Int
    BY <1>2
  <2> HIDE DEF n
  <2>3. Total(<<n>>) = n
    BY <2>2, TotalOfOne
  <2>4. Counters!InFlightSum = Total(<<n>>)
    BY <2>1, CountersTotalled DEF CountersTotal, n
  <2> QED BY <2>3, <2>4 DEF n
<1> QED BY <1>1, <1>2 DEF CountersSums

LEMMA DeltaIs ==
    ASSUME StatsTyped, FlushesAlone
    PROVE  Counters!InFlightSum = Delta(flushes) /\ Delta(flushes) \in Nat
<1>0. flushes \in Seq(StatsFlush) /\ Len(flushes) <= 1
  BY DEF StatsTyped, FlushesAlone
<1>1. CASE flushes = <<>>
  BY <1>1, CountersSummed DEF CountersSums, Delta
<1>2. CASE flushes # <<>>
  <2> DEFINE f == flushes[1]
  <2>1. flushes = <<f>> /\ f \in StatsFlush
    BY <1>0, <1>2, Single
  <2>2. f.delta \in Nat
    BY <2>1 DEF StatsFlush
  <2> HIDE DEF f
  <2>3. Counters!InFlightSum = f.delta
    BY <2>1, <2>2, CountersSummed DEF CountersSums
  <2> QED BY <2>1, <2>2, <2>3, <1>2 DEF Delta, f
<1> QED BY <1>1, <1>2

LEMMA StatsInit == Counters!Init => StatsInv
<1> SUFFICES ASSUME Counters!Init PROVE StatsInv
  OBVIOUS
<1>1. /\ stats = -1 /\ firstUsed = 0 /\ pending = 0 /\ flushes = <<>>
      /\ boot = Counters!NoBoot /\ statsMigration = Counters!FreshMigration
      /\ counted = Counters!Present(old.stats) /\ origin = old.firstUsed
      /\ statsUnguarded = FALSE /\ statsRestarts = 0
      /\ old \in {Counters!Nothing, [stats |-> 2, firstUsed |-> 1]}
  BY DEF Counters!Init, Counters!Absent
<1>2. old \in Counters!Saved /\ Counters!Nothing \in Counters!Saved
  BY <1>1 DEF Counters!Saved, Counters!Nothing, Counters!Absent
<1>3. StatsTyped
  <2>1. flushes \in Seq(StatsFlush)
    BY <1>1
  <2>2. statsMigration \in [pc : {"start", "readingLocal", "writing", "removing", "done"},
                            old : Counters!Saved, seen : Counters!Saved]
    BY <1>1, <1>2 DEF Counters!FreshMigration
  <2> QED BY <1>1, <1>2, <2>1, <2>2 DEF StatsTyped, Counters!NoBoot, Counters!Absent
<1>4. statsMigration.pc = "start" /\ boot.pc = "idle" /\ (Counters!Migrated <=> old = Counters!Nothing)
  BY <1>1 DEF Counters!FreshMigration, Counters!NoBoot, Counters!Migrated
<1>5. old = Counters!Nothing => old.stats = -1 /\ old.firstUsed = 0
  BY DEF Counters!Nothing, Counters!Absent
<1>6. old # Counters!Nothing => old.stats = 2 /\ old.firstUsed = 1
  BY <1>1
<1>7. MigrationSound
  BY <1>4, <1>6 DEF MigrationSound
<1>8. FlushesAlone /\ BootAlone
  BY <1>1, <1>4 DEF FlushesAlone, BootAlone
<1>9. CountsAdd
  BY <1>1, <1>4, <1>5, <1>6 DEF CountsAdd, Counters!Present, Counters!Absent, Delta
<1>10. FirstUsedHeld
  BY <1>1, <1>4, <1>5, <1>6 DEF FirstUsedHeld
<1> QED BY <1>3, <1>7, <1>8, <1>9, <1>10 DEF StatsInv, StatsGuarded

\* Counting, and taking the batch that is pending.
LEMMA StatsTake ==
    ASSUME StatsInv, Counters!IncrementStat \/ Counters!Take
    PROVE  StatsInv'
<1> USE DEF StatsInv, StatsGuarded
<1>0. /\ pending \in Nat /\ flushes \in Seq(StatsFlush)
      /\ UNCHANGED <<stats, firstUsed, old, boot, statsMigration, origin, statsRestarts>>
  BY DEF Counters!IncrementStat, Counters!Take, Counters!storage, Counters!bounds, StatsTyped
<1>1. (Counters!Migrated' <=> Counters!Migrated) /\ MigrationSound'
  BY <1>0 DEF Counters!Migrated, MigrationSound
<1>2. CASE Counters!IncrementStat
  <2>1. /\ pending' = pending + 1 /\ counted' = counted + 1
        /\ UNCHANGED <<flushes, statsUnguarded>>
    BY <1>2 DEF Counters!IncrementStat
  <2>2. StatsTyped'
    BY <1>0, <2>1 DEF StatsTyped
  <2>3. ASSUME ~statsUnguarded PROVE StatsGuarded'
    <3>1. FlushesAlone' /\ FirstUsedHeld' /\ BootAlone'
      BY <2>1, <2>3, <1>0, <1>1 DEF FlushesAlone, FirstUsedHeld, BootAlone, Counters!Present
    <3>2. CountsAdd'
      <4>1. /\ Counters!Present(stats) \in Nat /\ Delta(flushes) \in Nat /\ counted \in Int
            /\ stats \in Int /\ old.stats \in Int
        BY <2>3, DeltaIs DEF StatsTyped, CountsAdd, Counters!Present, Counters!Absent, Counters!Saved
      <4>2. Counters!Present(stats)' = Counters!Present(stats) /\ Delta(flushes)' = Delta(flushes)
        BY <1>0, <2>1 DEF Counters!Present
      <4> QED BY <4>1, <4>2, <2>1, <2>3, <1>0, <1>1, SMTT(30) DEF CountsAdd
    <3> QED BY <3>1, <3>2
  <2> QED BY <2>1, <2>2, <2>3, <1>1
<1>3. CASE Counters!Take
  <2>1. /\ pending' = 0 /\ UNCHANGED counted
        /\ flushes' = IF pending = 0 THEN flushes
                      ELSE Append(flushes, [pc |-> "reading", delta |-> pending, seen |-> 0])
        /\ statsUnguarded' = (statsUnguarded \/ flushes # <<>> \/ ~Counters!Migrated)
    BY <1>3 DEF Counters!Take, Counters!AfterTaking, Counters!Unguards
  <2> DEFINE f == [pc |-> "reading", delta |-> pending, seen |-> 0]
  <2>2. flushes' \in Seq(StatsFlush)
    <3>1. pending # 0 => f \in StatsFlush
      BY <1>0 DEF StatsFlush
    <3> HIDE DEF f
    <3> QED BY <3>1, <2>1, <1>0 DEF f
  <2>3. StatsTyped'
    BY <1>0, <2>1, <2>2 DEF StatsTyped
  <2>4. ASSUME ~statsUnguarded' PROVE StatsGuarded'
    <3>1. ~statsUnguarded /\ flushes = <<>> /\ Counters!Migrated
      BY <2>1, <2>4
    <3>2. flushes' = IF pending = 0 THEN <<>> ELSE <<f>>
      BY <2>1, <3>1
    <3>3. f.pc = "reading" /\ f.delta = pending
      OBVIOUS
    <3> HIDE DEF f
    <3>4. /\ Len(flushes') <= 1 /\ Delta(flushes)' = pending
          /\ \A i \in DOMAIN flushes' : flushes'[i].pc = "reading"
      BY <3>2, <3>3 DEF Delta
    <3>5. FlushesAlone'
      BY <3>1, <3>4, <1>1 DEF FlushesAlone
    <3>6. FirstUsedHeld' /\ BootAlone'
      BY <3>1, <1>0, <1>1 DEF FirstUsedHeld, BootAlone
    <3>7. CountsAdd'
      <4>1. Counters!Present(stats)' = Counters!Present(stats) /\ Delta(flushes) = 0
            /\ Counters!Present(stats) \in Nat
        BY <1>0, <3>1 DEF Counters!Present, Delta, StatsTyped, Counters!Absent
      <4> QED BY <4>1, <3>1, <3>4, <2>1, <1>0, <1>1 DEF CountsAdd
    <3> QED BY <3>5, <3>6, <3>7
  <2> QED BY <2>1, <2>3, <2>4, <1>1
<1> QED BY <1>2, <1>3

\* A flush reads, and writes.
LEMMA StatsFlushes ==
    ASSUME StatsInv, NEW i \in DOMAIN flushes,
           Counters!FlushReads(i) \/ Counters!FlushWrites(i)
    PROVE  StatsInv'
<1> USE DEF StatsInv, StatsGuarded
<1> DEFINE f == flushes[i]
<1>0. /\ StatsTyped /\ flushes \in Seq(StatsFlush) /\ f \in StatsFlush
  <2>1. StatsTyped /\ flushes \in Seq(StatsFlush)
    BY DEF StatsTyped
  <2> QED BY <2>1
<1>1. /\ UNCHANGED <<firstUsed, old, pending, boot, statsMigration, counted, origin, statsRestarts>>
      /\ (Counters!Migrated' <=> Counters!Migrated)
      /\ statsUnguarded' \in BOOLEAN /\ (~statsUnguarded' => ~statsUnguarded)
  <2>1. UNCHANGED <<firstUsed, old, pending, boot, statsMigration, counted, origin, statsRestarts>>
    BY DEF Counters!FlushReads, Counters!FlushWrites, Counters!Fails, Counters!storage,
           Counters!bounds
  <2>2. (Counters!Migrated' <=> Counters!Migrated)
    BY <2>1 DEF Counters!Migrated
  <2>3. statsUnguarded' = statsUnguarded \/ statsUnguarded' = TRUE
    BY DEF Counters!FlushReads, Counters!FlushWrites, Counters!Unguards
  <2> QED BY <2>1, <2>2, <2>3 DEF StatsTyped
<1>2. ~statsUnguarded => /\ StatsGuarded /\ i = 1 /\ flushes = <<f>> /\ Delta(flushes) = f.delta
                         /\ Counters!Migrated
  <2> SUFFICES ASSUME ~statsUnguarded
               PROVE  /\ StatsGuarded /\ i = 1 /\ flushes = <<f>> /\ Delta(flushes) = f.delta
                      /\ Counters!Migrated
    OBVIOUS
  <2>1. flushes # <<>> /\ Len(flushes) <= 1
    BY <1>0 DEF FlushesAlone
  <2>2. i = 1
    BY <2>1, <1>0
  <2>3. flushes = <<f>>
    BY <2>1, <2>2, <1>0, Single
  <2> QED BY <2>1, <2>2, <2>3 DEF Delta, FlushesAlone
<1>3. f.pc \in {"reading", "writing"} /\ f.delta \in Nat \ {0} /\ f.seen \in Nat
  BY <1>0 DEF StatsFlush
<1>4. ASSUME NEW n \in Nat, statsUnguarded' \/ n = Counters!Present(stats), UNCHANGED stats,
             flushes' = [flushes EXCEPT ![i].pc = "writing", ![i].seen = n]
      PROVE  StatsInv'
  <2> DEFINE g == [f EXCEPT !.pc = "writing", !.seen = n]
  <2>1. g \in StatsFlush /\ g.seen = n /\ g.delta = f.delta
    BY <1>0 DEF StatsFlush
  <2>2. flushes' = [flushes EXCEPT ![i] = g]
    BY <1>4
  <2> HIDE DEF g
  <2>3. /\ flushes' \in Seq(StatsFlush) /\ Len(flushes') = Len(flushes)
        /\ DOMAIN flushes' = DOMAIN flushes /\ flushes'[i] = g
    BY <2>1, <2>2, <1>0
  <2>4. StatsTyped' /\ MigrationSound'
    BY <2>3, <1>0, <1>1, <1>4 DEF StatsTyped, MigrationSound
  <2>5. ASSUME ~statsUnguarded' PROVE StatsGuarded'
    <3>1. ~statsUnguarded
      BY <2>5, <1>1
    <3>2. flushes' # <<>> /\ Delta(flushes)' = f.delta
      BY <2>1, <2>3, <1>2, <3>1 DEF Delta
    <3>3. \A j \in DOMAIN flushes' : flushes'[j] = g
      <4>1. \A j \in DOMAIN flushes : j = 1
        BY <3>1, <1>0, <1>2
      <4> QED BY <4>1, <2>3, <1>2, <3>1
    <3>4. FlushesAlone'
      BY <3>1, <3>3, <2>1, <2>3, <2>5, <1>1, <1>2, <1>4 DEF FlushesAlone, Counters!Present
    <3>5. FirstUsedHeld' /\ BootAlone'
      BY <3>1, <1>1, <1>4 DEF FirstUsedHeld, BootAlone
    <3>6. CountsAdd'
      BY <3>1, <3>2, <1>1, <1>2, <1>4 DEF CountsAdd, Counters!Present
    <3> QED BY <3>4, <3>5, <3>6
  <2> QED BY <2>4, <2>5
<1>5. ASSUME flushes' = Counters!RemoveAt(flushes, i), f.pc = "writing",
             \/ stats' = f.seen + f.delta
             \/ UNCHANGED stats /\ statsUnguarded' = TRUE
      PROVE  StatsInv'
  <2>1. flushes' \in Seq(StatsFlush) /\ (~statsUnguarded => flushes' = <<>>)
    <3>1. /\ flushes' \in Seq(StatsFlush) /\ Len(flushes') = Len(flushes) - 1
      BY <1>0, <1>5, Removed
    <3>2. ~statsUnguarded => Len(flushes) = 1
      BY <1>2
    <3> QED BY <3>1, <3>2
  <2>2. stats' \in Nat \cup {Counters!Absent} /\ (stats # Counters!Absent => stats' # Counters!Absent)
        /\ (~statsUnguarded' => stats' = f.seen + f.delta)
    BY <1>0, <1>3, <1>5 DEF StatsTyped, Counters!Absent
  <2>3. StatsTyped' /\ MigrationSound'
    BY <2>1, <2>2, <1>0, <1>1 DEF StatsTyped, MigrationSound
  <2>4. ASSUME ~statsUnguarded' PROVE StatsGuarded'
    <3>1. ~statsUnguarded /\ Counters!Migrated /\ statsMigration.pc # "writing"
      <4>1. ~statsUnguarded /\ Counters!Migrated
        BY <2>4, <1>1, <1>2
      <4> QED BY <4>1 DEF MigrationSound, Counters!Migrated
    <3>2. flushes' = <<>> /\ Len(flushes') = 0 /\ DOMAIN flushes' = {} /\ Delta(flushes)' = 0
      BY <3>1, <2>1 DEF Delta
    <3>3. FlushesAlone'
      BY <3>2 DEF FlushesAlone
    <3>4. FirstUsedHeld' /\ BootAlone'
      BY <3>1, <1>1 DEF FirstUsedHeld, BootAlone
    <3>5. f.seen = Counters!Present(stats)
      BY <3>1, <1>5 DEF FlushesAlone
    <3>6. Counters!Present(stats') = f.seen + f.delta
      BY <2>2, <2>4, <1>3 DEF Counters!Present, Counters!Absent
    <3>7. CountsAdd'
      <4>1. pending \in Nat /\ counted \in Int
            /\ Counters!Present(stats) + pending + f.delta = counted
        BY <3>1, <1>0, <1>2 DEF StatsTyped, CountsAdd
      <4> QED BY <4>1, <3>1, <3>2, <3>5, <3>6, <1>1, <1>3 DEF CountsAdd
    <3> QED BY <3>3, <3>4, <3>7
  <2> QED BY <2>3, <2>4
<1>6. CASE Counters!FlushReads(i)
  <2>1. Counters!Present(stats) \in Nat /\ UNCHANGED stats
    BY <1>0, <1>6 DEF Counters!FlushReads, Counters!storage, StatsTyped, Counters!Present,
                      Counters!Absent
  <2>2. CASE flushes' = [flushes EXCEPT ![i].pc = "writing", ![i].seen = Counters!Present(stats)]
    BY <2>1, <2>2, <1>4
  <2>3. CASE /\ flushes' = [flushes EXCEPT ![i].pc = "writing", ![i].seen = 0]
             /\ statsUnguarded' = TRUE
    BY <2>1, <2>3, <1>4
  <2> QED BY <2>2, <2>3, <1>6 DEF Counters!FlushReads, Counters!Unguards
<1>7. CASE Counters!FlushWrites(i)
  BY <1>7, <1>5 DEF Counters!FlushWrites, Counters!Unguards
<1> QED BY <1>6, <1>7

\* The bootstrap starts, reads and stamps.
LEMMA StatsBoot ==
    ASSUME StatsInv, Counters!StartBoot \/ Counters!BootReads \/ Counters!BootWrites
    PROVE  StatsInv'
<1> USE DEF StatsInv, StatsGuarded
<1>0. /\ UNCHANGED <<stats, old, pending, flushes, statsMigration, counted>>
      /\ (Counters!Migrated' <=> Counters!Migrated) /\ StatsTyped
      /\ Delta(flushes)' = Delta(flushes)
      /\ Counters!Present(stats)' = Counters!Present(stats)
  <2>1. UNCHANGED <<stats, old, pending, flushes, statsMigration, counted>>
    BY DEF Counters!StartBoot, Counters!BootReads, Counters!BootWrites, Counters!storage
  <2> QED BY <2>1 DEF Counters!Migrated, Counters!Present
<1>a. /\ boot.pc \in {"idle", "reading", "deciding"} /\ boot.seen \in Nat
      /\ boot.done \in BOOLEAN /\ statsUnguarded \in BOOLEAN /\ firstUsed \in Nat
      /\ statsRestarts \in Nat
  BY <1>0 DEF StatsTyped
<1>1. MigrationSound'
  BY <1>0 DEF MigrationSound
<1>2. ASSUME ~statsUnguarded PROVE FlushesAlone' /\ CountsAdd'
  BY <1>0, <1>2 DEF FlushesAlone, CountsAdd
<1>3. ASSUME boot' \in [pc : {"idle", "reading", "deciding"}, seen : Nat, done : BOOLEAN],
             statsUnguarded' \in BOOLEAN, firstUsed' \in Nat, statsRestarts' \in Nat
      PROVE  StatsTyped'
  BY <1>0, <1>3 DEF StatsTyped
<1>4. CASE Counters!StartBoot
  <2> DEFINE b == [boot EXCEPT !.pc = "reading"]
  <2>1. boot' = b /\ UNCHANGED <<firstUsed, origin, statsRestarts>>
        /\ statsUnguarded' = (statsUnguarded \/ ~Counters!Migrated)
    BY <1>4 DEF Counters!StartBoot, Counters!storage, Counters!bounds, Counters!Unguards
  <2>2. b \in [pc : {"idle", "reading", "deciding"}, seen : Nat, done : BOOLEAN]
        /\ b.pc = "reading"
    BY <1>a, <1>0 DEF StatsTyped
  <2> HIDE DEF b
  <2>3. StatsTyped'
    BY <2>1, <2>2, <1>a, <1>3
  <2>4. ASSUME ~statsUnguarded' PROVE StatsGuarded'
    <3>1. ~statsUnguarded /\ Counters!Migrated
      BY <2>1, <2>4
    <3>2. FirstUsedHeld' /\ BootAlone'
      BY <3>1, <2>1, <2>2, <1>0 DEF FirstUsedHeld, BootAlone
    <3> QED BY <3>1, <3>2, <1>2
  <2> QED BY <2>3, <2>4, <1>1
<1>5. CASE Counters!BootReads
  <2>1. boot.pc = "reading" /\ UNCHANGED <<firstUsed, origin, statsRestarts>>
    BY <1>5 DEF Counters!BootReads, Counters!storage, Counters!bounds, Counters!Fails
  <2>2. ASSUME NEW n \in Nat, boot' = [boot EXCEPT !.pc = "deciding", !.seen = n],
               \/ n = firstUsed /\ UNCHANGED statsUnguarded
               \/ statsUnguarded' = TRUE
        PROVE  StatsInv'
    <3> DEFINE b == [boot EXCEPT !.pc = "deciding", !.seen = n]
    <3>1. b \in [pc : {"idle", "reading", "deciding"}, seen : Nat, done : BOOLEAN]
          /\ b.pc = "deciding" /\ b.seen = n
      BY <1>a, <1>0 DEF StatsTyped
    <3>2. boot' = b
      BY <2>2
    <3> HIDE DEF b
    <3>3. StatsTyped'
      BY <3>1, <3>2, <2>1, <2>2, <1>a, <1>3
    <3>4. ASSUME ~statsUnguarded' PROVE StatsGuarded'
      <4>1. ~statsUnguarded /\ n = firstUsed
        BY <3>4, <2>2
      <4>2. Counters!Migrated
        BY <4>1, <2>1 DEF BootAlone
      <4>3. FirstUsedHeld' /\ BootAlone'
        BY <4>1, <4>2, <3>1, <3>2, <2>1, <1>0 DEF FirstUsedHeld, BootAlone
      <4> QED BY <4>1, <4>3, <1>2
    <3> QED BY <3>3, <3>4, <1>1
  <2>3. \/ boot' = [boot EXCEPT !.pc = "deciding", !.seen = firstUsed] /\ UNCHANGED statsUnguarded
        \/ boot' = [boot EXCEPT !.pc = "deciding", !.seen = 0] /\ statsUnguarded' = TRUE
    BY <1>5 DEF Counters!BootReads, Counters!Unguards
  <2> QED BY <2>2, <2>3, <1>a
<1>6. CASE Counters!BootWrites
  <2> DEFINE b == [boot EXCEPT !.pc = "idle", !.done = TRUE]
  <2>1. boot.pc = "deciding" /\ boot' = b /\ UNCHANGED <<statsUnguarded, statsRestarts>>
        /\ \/ boot.seen = 0 /\ firstUsed' = statsRestarts + 2
              /\ origin' = IF origin = 0 THEN statsRestarts + 2 ELSE origin
           \/ UNCHANGED <<firstUsed, origin>>
    BY <1>6 DEF Counters!BootWrites, Counters!Stamps, Counters!Now, Counters!bounds, Counters!Fails
  <2>2. b \in [pc : {"idle", "reading", "deciding"}, seen : Nat, done : BOOLEAN]
        /\ b.pc = "idle"
    BY <1>a, <1>0 DEF StatsTyped
  <2> HIDE DEF b
  <2>3. StatsTyped'
    BY <2>1, <2>2, <1>a, <1>3
  <2>4. ASSUME ~statsUnguarded' PROVE StatsGuarded'
    <3>1. ~statsUnguarded /\ StatsGuarded
      BY <2>1, <2>4
    <3>2. Counters!Migrated /\ boot.seen = firstUsed /\ statsMigration.pc # "writing"
      <4>1. Counters!Migrated /\ boot.seen = firstUsed
        BY <3>1, <2>1 DEF BootAlone
      <4> QED BY <4>1 DEF MigrationSound, Counters!Migrated
    <3>3. BootAlone'
      BY <2>1, <2>2 DEF BootAlone
    <3>4. FirstUsedHeld'
      <4>1. CASE UNCHANGED <<firstUsed, origin>>
        BY <4>1, <3>1, <1>0 DEF FirstUsedHeld
      <4>2. CASE ~UNCHANGED <<firstUsed, origin>>
        <5>1. firstUsed = 0 /\ origin = 0
          BY <4>2, <2>1, <3>1, <3>2 DEF FirstUsedHeld
        <5>2. firstUsed' = statsRestarts + 2 /\ origin' = statsRestarts + 2 /\ firstUsed' # 0
          BY <4>2, <5>1, <2>1, <1>a
        <5> QED BY <5>1, <5>2, <3>1, <3>2, <1>0 DEF FirstUsedHeld
      <4> QED BY <4>1, <4>2
    <3> QED BY <3>1, <3>3, <3>4, <1>2
  <2> QED BY <2>3, <2>4, <1>1
<1> QED BY <1>4, <1>5, <1>6

\* The migration reads twice, writes and removes.
LEMMA StatsMigrates ==
    ASSUME StatsInv,
           \/ Counters!MigrationReadsOld \/ Counters!MigrationReadsLocal
           \/ Counters!MigrationWrites \/ Counters!MigrationRemoves
    PROVE  StatsInv'
<1> USE DEF StatsInv, StatsGuarded
<1> DEFINE Runs == [pc : {"start", "readingLocal", "writing", "removing", "done"},
                    old : Counters!Saved, seen : Counters!Saved]
<1>0. /\ UNCHANGED <<statsUnguarded, pending, flushes, boot, counted, origin, statsRestarts>>
      /\ StatsTyped /\ Delta(flushes)' = Delta(flushes) /\ (Len(flushes))' = Len(flushes)
  <2>1. UNCHANGED <<statsUnguarded, pending, flushes, boot, counted, origin, statsRestarts>>
    BY DEF Counters!MigrationReadsOld, Counters!MigrationReadsLocal, Counters!MigrationWrites,
           Counters!MigrationRemoves, Counters!bounds, Counters!Fails
  <2> QED BY <2>1
<1>a. /\ statsMigration \in Runs /\ stats \in Int /\ stats >= -1 /\ firstUsed \in Nat
      /\ old.stats \in Int /\ old.firstUsed \in Nat /\ pending \in Nat
  BY <1>0 DEF StatsTyped, Counters!Saved, Counters!Absent
<1>b. old = Counters!Nothing => old.stats = -1 /\ old.firstUsed = 0
  BY DEF Counters!Nothing, Counters!Absent
<1>1. CASE Counters!MigrationReadsOld
  <2> DEFINE m == IF old = Counters!Nothing THEN [statsMigration EXCEPT !.pc = "done"]
                  ELSE [statsMigration EXCEPT !.pc = "readingLocal", !.old = old]
  <2>1. /\ statsMigration.pc = "start" /\ statsMigration' = m
        /\ UNCHANGED <<stats, firstUsed, old>>
    BY <1>1 DEF Counters!MigrationReadsOld, Counters!storage
  <2>2. m \in Runs /\ (old = Counters!Nothing => m.pc = "done")
        /\ (old # Counters!Nothing => m.pc = "readingLocal" /\ m.old = old)
    <3>1. old \in Counters!Saved
      BY <1>0 DEF StatsTyped
    <3> QED BY <3>1, <1>a
  <2> HIDE DEF m
  <2>3. StatsTyped'
    BY <2>1, <2>2, <1>0 DEF StatsTyped
  <2>4. MigrationSound'
    BY <2>1, <2>2 DEF MigrationSound
  <2>5. (Counters!Migrated' <=> Counters!Migrated)
    BY <2>1, <2>2 DEF Counters!Migrated
  <2>6. ASSUME ~statsUnguarded PROVE StatsGuarded'
    <3>1. FlushesAlone' /\ BootAlone'
      BY <2>1, <2>5, <2>6, <1>0 DEF FlushesAlone, BootAlone, Counters!Present
    <3>2. CountsAdd'
      BY <2>1, <2>5, <2>6, <1>0 DEF CountsAdd, Counters!Present
    <3>3. FirstUsedHeld'
      BY <2>1, <2>2, <2>5, <2>6, <1>0 DEF FirstUsedHeld
    <3> QED BY <3>1, <3>2, <3>3
  <2> QED BY <2>3, <2>4, <2>6, <1>0
<1>2. CASE Counters!MigrationReadsLocal
  <2> DEFINE m == [statsMigration EXCEPT !.pc = "writing", !.seen.stats = stats,
                                         !.seen.firstUsed = firstUsed]
  <2>1. /\ statsMigration.pc = "readingLocal" /\ statsMigration' = m
        /\ UNCHANGED <<stats, firstUsed, old>>
    BY <1>2 DEF Counters!MigrationReadsLocal, Counters!storage
  <2>2. m \in Runs /\ m.pc = "writing" /\ m.old = statsMigration.old
        /\ m.seen.stats = stats /\ m.seen.firstUsed = firstUsed
    BY <1>a DEF Counters!Saved
  <2> HIDE DEF m
  <2>3. StatsTyped'
    BY <2>1, <2>2, <1>0 DEF StatsTyped
  <2>4. MigrationSound'
    BY <2>1, <2>2, <1>0 DEF MigrationSound, StatsTyped
  <2>5. (Counters!Migrated' <=> Counters!Migrated)
    BY <2>1, <2>2 DEF Counters!Migrated
  <2>6. ASSUME ~statsUnguarded PROVE StatsGuarded'
    <3>1. FlushesAlone' /\ BootAlone'
      BY <2>1, <2>5, <2>6, <1>0 DEF FlushesAlone, BootAlone, Counters!Present
    <3>2. CountsAdd'
      BY <2>1, <2>5, <2>6, <1>0 DEF CountsAdd, Counters!Present
    <3>3. FirstUsedHeld'
      BY <2>1, <2>2, <2>5, <2>6, <1>0 DEF FirstUsedHeld
    <3> QED BY <3>1, <3>2, <3>3
  <2> QED BY <2>3, <2>4, <2>6, <1>0
<1>3. CASE Counters!MigrationWrites
  <2> DEFINE m == [statsMigration EXCEPT !.pc = "removing"]
             stats0 == statsMigration.seen.stats
             firstUsed0 == statsMigration.seen.firstUsed
  <2>1. /\ statsMigration.pc = "writing" /\ statsMigration' = m /\ UNCHANGED old
        /\ stats' = Counters!Merged(statsMigration.seen.stats, statsMigration.old.stats, Counters!Absent)
        /\ firstUsed' = Counters!Merged(statsMigration.seen.firstUsed, statsMigration.old.firstUsed, 0)
    BY <1>3 DEF Counters!MigrationWrites
  <2>2. m \in Runs /\ m.pc = "removing" /\ m.old = statsMigration.old
    BY <1>a
  <2> HIDE DEF m
  <2>3. /\ old # Counters!Nothing /\ statsMigration.old = old /\ old.stats \in Nat
        /\ old.firstUsed # 0
    BY <2>1 DEF MigrationSound
  <2>4. /\ stats' = IF stats0 = -1 THEN old.stats ELSE stats0
        /\ firstUsed' = IF firstUsed0 = 0 THEN old.firstUsed ELSE firstUsed0
        /\ stats0 \in Nat \cup {-1} /\ firstUsed0 \in Nat
    BY <2>1, <2>3, <1>a DEF Counters!Merged, Counters!Absent, Counters!Saved, MigrationSound
  <2> HIDE DEF stats0, firstUsed0
  <2>5. stats' \in Nat /\ firstUsed' \in Nat /\ firstUsed' # 0
    BY <2>3, <2>4, <1>a
  <2>6. StatsTyped'
    BY <2>1, <2>2, <2>5, <1>0 DEF StatsTyped
  <2>7. MigrationSound'
    <3>1. stats' # Counters!Absent
      BY <2>5 DEF Counters!Absent
    <3> QED BY <3>1, <2>1, <2>2, <2>3 DEF MigrationSound
  <2>8. ~Counters!Migrated /\ ~Counters!Migrated'
    BY <2>1, <2>2, <2>3 DEF Counters!Migrated
  <2>9. ASSUME ~statsUnguarded PROVE StatsGuarded'
    <3>1. stats0 = stats /\ firstUsed0 = firstUsed
      BY <2>9, <2>1 DEF FirstUsedHeld, stats0, firstUsed0
    <3>2. FlushesAlone'
      <4>1. flushes = <<>>
        BY <2>8, <2>9 DEF FlushesAlone
      <4> QED BY <4>1, <1>0 DEF FlushesAlone
    <3>3. BootAlone'
      BY <2>8, <2>9, <1>0 DEF BootAlone
    <3>4. CountsAdd'
      <4>1. counted \in Int /\ (IF stats = -1 THEN old.stats ELSE stats) + pending = counted
        BY <2>8, <2>9 DEF CountsAdd, Counters!Absent
      <4>2. stats' = IF stats = -1 THEN old.stats ELSE stats
        BY <2>4, <3>1
      <4>3. stats' # Counters!Absent
        BY <2>5 DEF Counters!Absent
      <4> QED BY <4>1, <4>2, <4>3, <2>8, <1>0 DEF CountsAdd
    <3>5. FirstUsedHeld'
      <4>1. firstUsed' = origin
        BY <3>1, <2>4, <2>8, <2>9 DEF FirstUsedHeld
      <4> QED BY <4>1, <2>2, <2>1, <2>5, <1>0 DEF FirstUsedHeld
    <3> QED BY <3>2, <3>3, <3>4, <3>5
  <2> QED BY <2>6, <2>7, <2>9, <1>0
<1>4. CASE Counters!MigrationRemoves
  <2> DEFINE m == [statsMigration EXCEPT !.pc = "done"]
  <2>1. /\ statsMigration.pc = "removing" /\ statsMigration' = m
        /\ UNCHANGED <<stats, firstUsed>>
        /\ old' = Counters!Nothing \/ UNCHANGED old
    BY <1>4 DEF Counters!MigrationRemoves
  <2>2. m \in Runs /\ m.pc = "done"
    BY <1>a
  <2> HIDE DEF m
  <2>3. old # Counters!Nothing /\ stats # Counters!Absent
    BY <2>1 DEF MigrationSound
  <2>4. StatsTyped'
    <3>1. Counters!Nothing \in Counters!Saved
      BY DEF Counters!Nothing, Counters!Saved, Counters!Absent
    <3>2. old' \in Counters!Saved
      BY <3>1, <2>1, <1>0 DEF StatsTyped
    <3> QED BY <3>2, <2>1, <2>2, <1>0 DEF StatsTyped
  <2>5. MigrationSound'
    BY <2>1, <2>2, <2>3 DEF MigrationSound
  <2>6. ~Counters!Migrated /\ Counters!Migrated'
    BY <2>1, <2>2, <2>3 DEF Counters!Migrated
  <2>7. ASSUME ~statsUnguarded PROVE StatsGuarded'
    <3>1. flushes = <<>> /\ boot.pc = "idle" /\ firstUsed # 0
      <4>1. flushes = <<>> /\ firstUsed # 0
        BY <2>1, <2>3, <2>6, <2>7 DEF FlushesAlone, FirstUsedHeld
      <4>2. boot.pc = "idle"
        BY <2>6, <2>7 DEF BootAlone
      <4> QED BY <4>1, <4>2
    <3>2. FlushesAlone' /\ BootAlone'
      BY <3>1, <1>0 DEF FlushesAlone, BootAlone
    <3>3. FirstUsedHeld'
      BY <3>1, <2>1, <2>2, <2>7, <1>0 DEF FirstUsedHeld
    <3>4. CountsAdd'
      <4>1. counted \in Int /\ stats + pending = counted
        BY <2>3, <2>6, <2>7 DEF CountsAdd
      <4>2. Counters!Present(stats)' = stats /\ Delta(flushes)' = 0
        BY <3>1, <2>1, <2>3, <1>0 DEF Counters!Present, Delta
      <4> QED BY <4>1, <4>2, <2>6, <1>0, <1>a DEF CountsAdd
    <3> QED BY <3>2, <3>3, <3>4
  <2> QED BY <2>4, <2>5, <2>7, <1>0
<1> QED BY <1>1, <1>2, <1>3, <1>4

\* "Reset stats".
LEMMA StatsReset ==
    ASSUME StatsInv, Counters!Reset
    PROVE  StatsInv'
<1> USE DEF StatsInv, StatsGuarded
<1>1. /\ UNCHANGED <<old, pending, flushes, boot, statsMigration, statsRestarts>> /\ StatsTyped
      /\ stats' = 0 /\ firstUsed' = 0 /\ origin' = 0 /\ counted' = pending + Counters!InFlightSum
      /\ statsUnguarded' = (flushes # <<>> \/ old # Counters!Nothing \/ boot.pc # "idle")
  BY DEF Counters!Reset
<1>2. StatsTyped'
  BY <1>1 DEF StatsTyped
<1>3. MigrationSound'
  <2>1. stats' # Counters!Absent
    BY <1>1 DEF Counters!Absent
  <2> QED BY <1>1, <2>1 DEF MigrationSound
<1>4. ASSUME ~statsUnguarded' PROVE StatsGuarded'
  <2>1. /\ flushes = <<>> /\ old = Counters!Nothing /\ boot.pc = "idle"
        /\ statsMigration.pc # "writing"
    BY <1>1, <1>4 DEF MigrationSound
  <2>2. Counters!Migrated'
    BY <1>1, <2>1 DEF Counters!Migrated
  <2>3. FlushesAlone' /\ BootAlone'
    BY <1>1, <2>1 DEF FlushesAlone, BootAlone
  <2>4. FirstUsedHeld'
    BY <1>1, <2>1, <2>2 DEF FirstUsedHeld
  <2>5. CountsAdd'
    <3>1. counted' = pending /\ pending \in Nat /\ pending' = pending
      BY <1>1, <2>1, CountersSummed DEF CountersSums, StatsTyped
    <3>2. Counters!Present(stats)' = 0 /\ Delta(flushes)' = 0
      BY <1>1, <2>1 DEF Counters!Present, Counters!Absent, Delta
    <3> QED BY <3>1, <3>2, <2>2 DEF CountsAdd
  <2> QED BY <2>3, <2>4, <2>5
<1> QED BY <1>2, <1>3, <1>4

\* The worker stops.
LEMMA StatsRestart ==
    ASSUME StatsInv, Counters!Restart
    PROVE  StatsInv'
<1> USE DEF StatsInv, StatsGuarded
<1>1. /\ UNCHANGED <<stats, firstUsed, old, origin, statsUnguarded>> /\ StatsTyped
      /\ pending' = 0 /\ flushes' = <<>> /\ statsRestarts' = statsRestarts + 1
      /\ boot' = Counters!NoBoot /\ statsMigration' = Counters!FreshMigration
      /\ counted' = counted - pending - Counters!InFlightSum
  BY DEF Counters!Restart, Counters!storage
<1>2. statsMigration'.pc = "start" /\ boot'.pc = "idle"
  BY <1>1 DEF Counters!FreshMigration, Counters!NoBoot
<1>3. StatsTyped'
  <2>1. Counters!Nothing \in Counters!Saved
    BY DEF Counters!Nothing, Counters!Saved, Counters!Absent
  <2>2. statsMigration' \in [pc : {"start", "readingLocal", "writing", "removing", "done"},
                             old : Counters!Saved, seen : Counters!Saved]
    BY <2>1, <1>1 DEF Counters!FreshMigration
  <2>3. boot' \in [pc : {"idle", "reading", "deciding"}, seen : Nat, done : BOOLEAN]
    BY <1>1 DEF Counters!NoBoot
  <2>4. flushes' \in Seq(StatsFlush)
    BY <1>1
  <2> QED BY <2>2, <2>3, <2>4, <1>1 DEF StatsTyped
<1>4. MigrationSound'
  BY <1>1, <1>2 DEF MigrationSound
<1>5. (Counters!Migrated' <=> old = Counters!Nothing) /\ (old = Counters!Nothing => Counters!Migrated)
  BY <1>1, <1>2 DEF Counters!Migrated
<1>6. ASSUME ~statsUnguarded' PROVE StatsGuarded'
  <2>1. ~statsUnguarded /\ StatsGuarded
    BY <1>1, <1>6
  <2>2. Counters!InFlightSum = Delta(flushes) /\ Delta(flushes) \in Nat
    BY <2>1, <1>1, DeltaIs
  <2>3. FlushesAlone' /\ BootAlone'
    BY <1>1, <1>2 DEF FlushesAlone, BootAlone
  <2>4. CASE Counters!Migrated
    <3>1. old # Counters!Nothing => stats # Counters!Absent /\ firstUsed # 0
      BY <2>1, <2>4 DEF MigrationSound, FirstUsedHeld, Counters!Migrated
    <3>2. FirstUsedHeld'
      BY <3>1, <2>1, <2>4, <1>1, <1>2, <1>5 DEF FirstUsedHeld
    <3>3. CountsAdd'
      <4>1. Counters!Present(stats) + pending + Delta(flushes) = counted /\ counted \in Int
            /\ pending \in Nat /\ stats \in Int /\ Counters!Present(stats) \in Int
        BY <2>1, <2>4, <1>1 DEF CountsAdd, StatsTyped, Counters!Present, Counters!Absent
      <4>2. counted' \in Int /\ counted' = Counters!Present(stats)
        BY <4>1, <2>2, <1>1
      <4>3. Counters!Present(stats)' = Counters!Present(stats) /\ Delta(flushes)' = 0
            /\ old' = old /\ stats' = stats /\ pending' = 0
        BY <1>1 DEF Counters!Present, Delta
      <4>4. old # Counters!Nothing => Counters!Present(stats) = stats
        BY <3>1 DEF Counters!Present
      <4> QED BY <4>1, <4>2, <4>3, <4>4, <3>1, <1>5 DEF CountsAdd
    <3> QED BY <2>3, <3>2, <3>3
  <2>5. CASE ~Counters!Migrated
    <3>1. flushes = <<>> /\ Delta(flushes) = 0 /\ ~Counters!Migrated'
      BY <2>1, <2>5, <1>5 DEF FlushesAlone, Delta
    <3>2. FirstUsedHeld'
      BY <3>1, <2>1, <2>5, <1>1, <1>2 DEF FirstUsedHeld
    <3>3. CountsAdd'
      <4> DEFINE n == IF stats = Counters!Absent THEN old.stats ELSE stats
      <4>1. n + pending = counted /\ counted \in Int /\ pending \in Nat /\ n \in Int
        BY <2>1, <2>5, <1>1 DEF CountsAdd, StatsTyped, Counters!Absent, Counters!Saved
      <4>2. n' = n /\ pending' = 0
        BY <1>1
      <4>3. counted' = counted - pending
        <5>1. Counters!InFlightSum = 0
          BY <3>1, <2>2
        <5> HIDE DEF n
        <5> QED BY <5>1, <4>1, <1>1
      <4> HIDE DEF n
      <4>4. counted' \in Int /\ n' + pending' = counted'
        BY <4>1, <4>2, <4>3
      <4> QED BY <4>4, <3>1 DEF CountsAdd, n
    <3> QED BY <2>3, <3>2, <3>3
  <2> QED BY <2>4, <2>5
<1> QED BY <1>3, <1>4, <1>6

LEMMA StatsNext == StatsInv /\ [Counters!Next]_statsVars => StatsInv'
<1> SUFFICES ASSUME StatsInv, [Counters!Next]_statsVars PROVE StatsInv'
  OBVIOUS
<1>1. CASE UNCHANGED statsVars
  BY <1>1 DEF statsVars, StatsInv, StatsTyped, MigrationSound, StatsGuarded, FlushesAlone,
              CountsAdd, FirstUsedHeld, BootAlone, Counters!Migrated
<1>2. CASE Counters!Next
  <2>1. CASE Counters!TimerFires \/ Counters!Suspend
    BY <2>1, StatsTake DEF Counters!TimerFires, Counters!Suspend
  <2>2. CASE Counters!FlushStep
    BY <2>2, StatsFlushes DEF Counters!FlushStep
  <2> QED BY <1>2, <2>1, <2>2, StatsTake, StatsBoot, StatsMigrates, StatsReset, StatsRestart
          DEF Counters!Next
<1> QED BY <1>1, <1>2

LEMMA StatsKeeps == StatsInv => StatsKept
<1> SUFFICES ASSUME StatsInv PROVE StatsKept
  OBVIOUS
<1>1. Counters!CountsConserved
  BY DeltaIs DEF StatsInv, StatsGuarded, CountsAdd, Counters!CountsConserved
<1>2. Counters!FirstUsedKept
  BY DEF StatsInv, StatsGuarded, FirstUsedHeld, Counters!FirstUsedKept
<1> QED BY <1>1, <1>2 DEF StatsKept

\* Every step of the harness is one of the statistics' or leaves them alone.
LEMMA StatsRuns == RunSpec => Counters!Init /\ [][Counters!Next]_statsVars
<1>1. RunInit => Counters!Init
  BY DEF RunInit
<1>2. [RunNext]_allVars => [Counters!Next]_statsVars
  BY DEF RunNext, allVars
<1> QED BY <1>1, <1>2, PTL DEF RunSpec

\* The counters are neither lost nor doubled, and firstUsed is the stamp of the first
\* lifetime, through the batches, the one-time migration, resets and restarts, as long
\* as flushes do not overlap and wait for the migration (incrementStat, _flushStats,
\* migrateStatsToLocal, createFirstUsedBootstrap).
THEOREM StatsAreKept == RunSpec => []StatsKept
<1> QED BY StatsRuns, StatsInit, StatsNext, StatsKeeps, PTL

LEMMA DeltasAre ==
    ASSUME NEW q \in Seq(StatsFlush)
    PROVE  /\ Deltas(q) \in Seq(Nat) /\ Len(Deltas(q)) = Len(q) /\ DOMAIN Deltas(q) = DOMAIN q
           /\ \A f \in StatsFlush : Total(Deltas(Append(q, f))) = Total(Deltas(q)) + f.delta
           /\ \A i \in DOMAIN q, g \in StatsFlush :
                  g.delta = q[i].delta => Deltas([q EXCEPT ![i] = g]) = Deltas(q)
           /\ \A i \in DOMAIN q :
                  Total(Deltas(Counters!RemoveAt(q, i))) = Total(Deltas(q)) - q[i].delta
<1>1. \A r \in Seq(StatsFlush) :
          /\ Deltas(r) \in Seq(Nat) /\ Deltas(r) \in Seq(Int)
          /\ Len(Deltas(r)) = Len(r) /\ DOMAIN Deltas(r) = DOMAIN r
          /\ \A i \in DOMAIN r : Deltas(r)[i] = r[i].delta /\ r[i].delta \in Nat
  <2> TAKE r \in Seq(StatsFlush)
  <2>1. \A i \in 1..Len(r) : r[i].delta \in Nat
    <3>1. \A f \in StatsFlush : f.delta \in Nat
      BY DEF StatsFlush
    <3>2. \A i \in 1..Len(r) : r[i] \in StatsFlush
      OBVIOUS
    <3> QED BY <3>1, <3>2
  <2>2. Deltas(r) = [i \in 1..Len(r) |-> r[i].delta] /\ Len(r) \in Nat
    BY DEF Deltas
  <2>3. Deltas(r) \in [1..Len(r) -> Nat]
    BY <2>1, <2>2
  <2> QED BY <2>1, <2>2, <2>3
<1>2. ASSUME NEW f \in StatsFlush
      PROVE  Total(Deltas(Append(q, f))) = Total(Deltas(q)) + f.delta
  <2>1. f.delta \in Nat
    BY DEF StatsFlush
  <2>2. Deltas(Append(q, f)) = Append(Deltas(q), f.delta)
    <3> DEFINE a == Append(q, f)
               b == Append(Deltas(q), f.delta)
    <3>1. a \in Seq(StatsFlush) /\ Len(a) = Len(q) + 1 /\ a[Len(q) + 1] = f
          /\ \A i \in 1..Len(q) : a[i] = q[i]
      OBVIOUS
    <3>2. Deltas(q) \in Seq(Nat)
      BY <1>1
    <3>3. b \in Seq(Nat) /\ Len(b) = Len(Deltas(q)) + 1 /\ b[Len(Deltas(q)) + 1] = f.delta
          /\ \A i \in 1..Len(Deltas(q)) : b[i] = Deltas(q)[i]
      BY <2>1, <3>2
    <3>4. Len(q) \in Nat /\ Len(Deltas(q)) = Len(q)
      BY <1>1
    <3> HIDE DEF a, b
    <3>5. Deltas(a) \in Seq(Nat) /\ Len(Deltas(a)) = Len(a) /\ DOMAIN a = 1..Len(a)
          /\ \A i \in DOMAIN a : Deltas(a)[i] = a[i].delta
      BY <1>1, <3>1
    <3>6. \A i \in 1..Len(q) : Deltas(q)[i] = q[i].delta
      BY <1>1
    <3>7. \A i \in 1..Len(b) : Deltas(a)[i] = b[i]
      <4> SUFFICES ASSUME NEW i \in 1..Len(b) PROVE Deltas(a)[i] = b[i]
        OBVIOUS
      <4>1. Deltas(a)[i] = a[i].delta /\ (i \in 1..Len(q) \/ i = Len(q) + 1)
        <5>1. i \in 1..Len(q) + 1 /\ Len(a) = Len(q) + 1
          BY <3>1, <3>3, <3>4
        <5>2. i \in DOMAIN a
          BY <3>5, <5>1
        <5> QED BY <3>4, <3>5, <5>1, <5>2
      <4>2. CASE i \in 1..Len(q)
        <5>1. a[i] = q[i] /\ Deltas(q)[i] = q[i].delta
          BY <3>1, <3>6, <4>2
        <5>2. b[i] = Deltas(q)[i]
          BY <3>3, <3>4, <4>2
        <5> QED BY <4>1, <5>1, <5>2
      <4>3. CASE i = Len(q) + 1
        BY <3>1, <3>3, <3>4, <4>1, <4>3
      <4> QED BY <4>1, <4>2, <4>3
    <3>8. Len(Deltas(a)) = Len(b)
      BY <3>1, <3>3, <3>4, <3>5
    <3>9. Deltas(a) = b
      <4> DEFINE c == Deltas(a)
      <4>1. c \in Seq(Nat) /\ b \in Seq(Nat) /\ Len(c) = Len(b) /\ \A i \in 1..Len(c) : c[i] = b[i]
        BY <3>3, <3>5, <3>7, <3>8
      <4> HIDE DEF c
      <4>2. c = b
        BY <4>1, SeqEqual
      <4> QED BY <4>2 DEF c
    <3> QED BY <3>9 DEF a, b
  <2> QED BY <1>1, <2>1, <2>2, TotalAppend
<1>3. ASSUME NEW i \in DOMAIN q, NEW g \in StatsFlush, g.delta = q[i].delta
      PROVE  Deltas([q EXCEPT ![i] = g]) = Deltas(q)
  BY <1>3 DEF Deltas
<1>4. ASSUME NEW i \in DOMAIN q
      PROVE  Total(Deltas(Counters!RemoveAt(q, i))) = Total(Deltas(q)) - q[i].delta
  <2> DEFINE w == Without(q, i)
  <2>1. /\ Counters!RemoveAt(q, i) = w /\ w \in Seq(StatsFlush) /\ Len(w) = Len(q) - 1
        /\ \A j \in DOMAIN w : w[j] = q[IF j < i THEN j ELSE j + 1]
    BY Removed
  <2> HIDE DEF w
  <2>2. /\ Deltas(w) \in Seq(Int) /\ Deltas(q) \in Seq(Int) /\ i \in DOMAIN Deltas(q)
        /\ Len(Deltas(w)) = Len(Deltas(q)) - 1 /\ Deltas(q)[i] = q[i].delta
    BY <1>1, <2>1
  <2>3. \A j \in DOMAIN Deltas(w) : Deltas(w)[j] = Deltas(q)[IF j < i THEN j ELSE j + 1]
    <3> SUFFICES ASSUME NEW j \in DOMAIN Deltas(w)
                 PROVE  Deltas(w)[j] = Deltas(q)[IF j < i THEN j ELSE j + 1]
      OBVIOUS
    <3> DEFINE k == IF j < i THEN j ELSE j + 1
    <3>1. j \in DOMAIN w /\ Deltas(w)[j] = w[j].delta /\ w[j] = q[k]
      BY <1>1, <2>1
    <3>2. k \in DOMAIN q
      <4>1. i \in 1..Len(q) /\ Len(q) \in Nat /\ j \in 1..Len(w)
        BY <2>1, <3>1
      <4>2. k \in 1..Len(q)
        BY <2>1, <4>1
      <4> QED BY <4>2
    <3> HIDE DEF k
    <3>3. Deltas(q)[k] = q[k].delta
      BY <1>1, <3>2
    <3> QED BY <3>1, <3>3 DEF k
  <2>4. Total(Deltas(w)) = Total(Deltas(q)) - Deltas(q)[i]
    <3> DEFINE a == Deltas(w)
               b == Deltas(q)
    <3> HIDE DEF a, b
    <3>1. a \in Seq(Int) /\ b \in Seq(Int) /\ i \in DOMAIN b /\ Len(a) = Len(b) - 1
          /\ \A j \in DOMAIN a : a[j] = b[IF j < i THEN j ELSE j + 1]
      BY <2>2, <2>3 DEF a, b
    <3>2. Total(a) = Total(b) - b[i]
      BY <3>1, TotalWithout
    <3> QED BY <3>2 DEF a, b
  <2> QED BY <2>1, <2>2, <2>4
<1> QED BY <1>1, <1>2, <1>3, <1>4

\* What was counted is at least what is pending or being flushed, guarded or not: the
\* count a restart takes back has been counted.
CountedInv ==
    /\ counted \in Nat /\ pending + Total(Deltas(flushes)) <= counted
    /\ timer \in BOOLEAN /\ origin \in Nat
    /\ increments \in Nat /\ resets \in Nat /\ statsFaults \in Nat

LEMMA CountedInit == Counters!Init => CountedInv
<1> SUFFICES ASSUME Counters!Init PROVE CountedInv
  OBVIOUS
<1>1. Total(Deltas(flushes)) = 0
  <2>1. Deltas(flushes) = <<>>
    BY DEF Counters!Init, Deltas
  <2> QED BY <2>1, TotalOfNone
<1>2. /\ pending = 0 /\ timer = FALSE /\ increments = 0 /\ resets = 0 /\ statsFaults = 0
      /\ counted = Counters!Present(old.stats) /\ origin = old.firstUsed
      /\ old \in {Counters!Nothing, [stats |-> 2, firstUsed |-> 1]}
  BY DEF Counters!Init
<1>3. counted \in Nat /\ origin \in Nat
  BY <1>2 DEF Counters!Nothing, Counters!Present, Counters!Absent
<1>4. pending + Total(Deltas(flushes)) <= counted
  <2> DEFINE sum == Total(Deltas(flushes))
  <2>1. sum = 0 /\ pending = 0 /\ counted \in Nat
    BY <1>1, <1>2, <1>3
  <2> HIDE DEF sum
  <2>2. pending + sum <= counted
    BY <2>1
  <2> QED BY <2>2 DEF sum
<1>5. timer \in BOOLEAN /\ increments \in Nat /\ resets \in Nat /\ statsFaults \in Nat
  BY <1>2
<1> QED BY <1>3, <1>4, <1>5 DEF CountedInv

LEMMA CountedNext ==
    ASSUME StatsInv, StatsInv', CountedInv, [Counters!Next]_statsVars
    PROVE  CountedInv'
<1> DEFINE sum == Total(Deltas(flushes))
<1>0. /\ flushes \in Seq(StatsFlush) /\ flushes' \in Seq(StatsFlush)
      /\ pending \in Nat /\ pending' \in Nat /\ statsRestarts \in Nat
  BY DEF StatsInv, StatsTyped
<1>1. sum \in Nat /\ Total(Deltas(flushes)') \in Nat /\ Counters!InFlightSum = sum
  <2>1. Deltas(flushes) \in Seq(Nat) /\ Deltas(flushes') \in Seq(Nat)
    BY <1>0, DeltasAre
  <2>2. sum \in Nat /\ Total(Deltas(flushes')) \in Nat /\ Deltas(flushes) \in Seq(Int)
    BY <2>1, TotalNat
  <2> QED BY <2>2, CountersTotalled DEF CountersTotal
<1>2. /\ counted \in Nat /\ pending + sum <= counted
      /\ timer \in BOOLEAN /\ origin \in Nat
      /\ increments \in Nat /\ resets \in Nat /\ statsFaults \in Nat
  BY DEF CountedInv
<1> HIDE DEF sum
<1>3. ASSUME UNCHANGED <<pending, flushes, counted, timer>>, origin' \in Nat,
             increments' \in Nat, resets' \in Nat, statsFaults' \in Nat
      PROVE  CountedInv'
  BY <1>2, <1>3 DEF CountedInv, sum
<1>4. ASSUME NEW call, Counters!Fails(call)
      PROVE  increments' \in Nat /\ resets' \in Nat /\ statsFaults' \in Nat
  BY <1>2, <1>4 DEF Counters!Fails
<1>5. UNCHANGED Counters!bounds
          => increments' \in Nat /\ resets' \in Nat /\ statsFaults' \in Nat
  BY <1>2 DEF Counters!bounds
<1>6. CASE UNCHANGED statsVars
  BY <1>2, <1>3, <1>6 DEF statsVars
<1>7. CASE Counters!IncrementStat
  <2>1. /\ pending' = pending + 1 /\ counted' = counted + 1 /\ timer' = TRUE
        /\ increments' = increments + 1 /\ UNCHANGED <<flushes, origin, resets, statsFaults>>
    BY <1>7 DEF Counters!IncrementStat
  <2>2. Total(Deltas(flushes))' = sum
    BY <2>1 DEF sum
  <2> QED BY <1>0, <1>1, <1>2, <2>1, <2>2 DEF CountedInv
<1>8. CASE Counters!Take /\ (timer' = FALSE \/ UNCHANGED timer)
  <2>1. /\ pending' = 0 /\ UNCHANGED <<counted, origin>> /\ UNCHANGED Counters!bounds
        /\ flushes' = IF pending = 0 THEN flushes
                      ELSE Append(flushes, [pc |-> "reading", delta |-> pending, seen |-> 0])
    BY <1>8 DEF Counters!Take, Counters!AfterTaking
  <2>2. Total(Deltas(flushes))' = sum + pending
    <3>1. CASE pending = 0
      BY <1>1, <2>1, <3>1 DEF sum
    <3>2. CASE pending # 0
      <4> DEFINE f == [pc |-> "reading", delta |-> pending, seen |-> 0]
      <4>1. f \in StatsFlush /\ f.delta = pending
        BY <1>0, <3>2 DEF StatsFlush
      <4> HIDE DEF f
      <4>2. flushes' = Append(flushes, f)
        BY <2>1, <3>2 DEF f
      <4>3. Total(Deltas(Append(flushes, f))) = sum + f.delta
        BY <1>0, <4>1, DeltasAre DEF sum
      <4> QED BY <4>1, <4>2, <4>3
    <3> QED BY <3>1, <3>2
  <2>3. timer' \in BOOLEAN
    BY <1>2, <1>8
  <2> QED BY <1>0, <1>1, <1>2, <1>5, <2>1, <2>2, <2>3 DEF CountedInv
<1>9. ASSUME NEW i \in DOMAIN flushes, Counters!FlushReads(i) \/ Counters!FlushWrites(i)
      PROVE  CountedInv'
  <2>1. UNCHANGED <<pending, timer, counted, origin>>
        /\ increments' \in Nat /\ resets' \in Nat /\ statsFaults' \in Nat
    BY <1>4, <1>5, <1>9 DEF Counters!FlushReads, Counters!FlushWrites
  <2>2. flushes[i] \in StatsFlush
    BY <1>0
  <2>3. flushes[i].delta \in Nat
    BY <2>2 DEF StatsFlush
  <2>4. ASSUME NEW n \in Nat,
               flushes' = [flushes EXCEPT ![i].pc = "writing", ![i].seen = n]
        PROVE  Total(Deltas(flushes))' <= sum
    <3> DEFINE g == [flushes[i] EXCEPT !.pc = "writing", !.seen = n]
    <3>1. g \in StatsFlush /\ g.delta = flushes[i].delta
      BY <2>2 DEF StatsFlush
    <3>2. flushes' = [flushes EXCEPT ![i] = g]
      BY <2>4
    <3> HIDE DEF g
    <3>3. Deltas([flushes EXCEPT ![i] = g]) = Deltas(flushes)
      BY <1>0, <3>1, DeltasAre
    <3>4. Total(Deltas(flushes))' = sum
      BY <3>2, <3>3 DEF sum
    <3> QED BY <1>1, <3>4
  <2>5. Counters!Present(stats) \in Nat
    BY DEF StatsInv, StatsTyped, Counters!Present, Counters!Absent
  <2>6. ASSUME flushes' = Counters!RemoveAt(flushes, i) PROVE Total(Deltas(flushes))' <= sum
    <3>1. Total(Deltas(Counters!RemoveAt(flushes, i))) = sum - flushes[i].delta
      BY <1>0, DeltasAre DEF sum
    <3>2. Total(Deltas(flushes))' = sum - flushes[i].delta
      BY <2>6, <3>1
    <3> QED BY <1>1, <2>3, <3>2
  <2>7. Total(Deltas(flushes))' <= sum
    <3>1. CASE Counters!FlushReads(i)
      BY <2>4, <2>5, <3>1 DEF Counters!FlushReads
    <3>2. CASE Counters!FlushWrites(i)
      BY <2>6, <3>2 DEF Counters!FlushWrites
    <3> QED BY <1>9, <3>1, <3>2
  <2> QED BY <1>0, <1>1, <1>2, <2>1, <2>7 DEF CountedInv
<1>10. CASE Counters!StartBoot \/ Counters!BootReads
  <2>1. UNCHANGED <<pending, flushes, counted, timer, origin>>
        /\ increments' \in Nat /\ resets' \in Nat /\ statsFaults' \in Nat
    BY <1>4, <1>5, <1>10 DEF Counters!StartBoot, Counters!BootReads
  <2> QED BY <1>2, <1>3, <2>1
<1>11. CASE Counters!BootWrites
  <2>1. UNCHANGED <<pending, flushes, counted, timer>>
        /\ increments' \in Nat /\ resets' \in Nat /\ statsFaults' \in Nat
    BY <1>4, <1>5, <1>11 DEF Counters!BootWrites
  <2>2. origin' \in Nat
    BY <1>0, <1>2, <1>11 DEF Counters!BootWrites, Counters!Now
  <2> QED BY <1>3, <2>1, <2>2
<1>12. CASE \/ Counters!MigrationReadsOld \/ Counters!MigrationReadsLocal
            \/ Counters!MigrationWrites \/ Counters!MigrationRemoves
  <2>1. UNCHANGED <<pending, flushes, counted, timer, origin>>
        /\ increments' \in Nat /\ resets' \in Nat /\ statsFaults' \in Nat
    BY <1>4, <1>5, <1>12 DEF Counters!MigrationReadsOld, Counters!MigrationReadsLocal,
                             Counters!MigrationWrites, Counters!MigrationRemoves
  <2> QED BY <1>2, <1>3, <2>1
<1>13. CASE Counters!Reset
  <2>1. /\ counted' = pending + sum /\ origin' = 0 /\ resets' = resets + 1
        /\ UNCHANGED <<pending, flushes, timer, increments, statsFaults>>
    BY <1>1, <1>13 DEF Counters!Reset
  <2>2. Total(Deltas(flushes))' = sum
    BY <2>1 DEF sum
  <2> QED BY <1>0, <1>1, <1>2, <2>1, <2>2 DEF CountedInv
<1>14. CASE Counters!Restart
  <2>1. /\ counted' = counted - pending - sum /\ pending' = 0 /\ timer' = FALSE
        /\ flushes' = <<>> /\ UNCHANGED <<origin, increments, resets, statsFaults>>
    BY <1>1, <1>14 DEF Counters!Restart
  <2>2. Total(Deltas(flushes))' = 0
    <3>1. Deltas(flushes') = <<>>
      BY <2>1 DEF Deltas
    <3> QED BY <3>1, TotalOfNone
  <2>3. counted' \in Nat
    BY <1>0, <1>1, <1>2, <2>1
  <2>4. pending' + Total(Deltas(flushes))' <= counted'
    <3> DEFINE inFlight == Total(Deltas(flushes))'
    <3>1. inFlight = 0 /\ pending' = 0
      BY <2>1, <2>2
    <3> HIDE DEF inFlight
    <3>2. pending' + inFlight <= counted'
      BY <2>3, <3>1
    <3> QED BY <3>2 DEF inFlight
  <2>5. timer' \in BOOLEAN /\ origin' \in Nat
        /\ increments' \in Nat /\ resets' \in Nat /\ statsFaults' \in Nat
    BY <1>2, <2>1
  <2> QED BY <2>3, <2>4, <2>5 DEF CountedInv
<1> QED
  BY <1>6, <1>7, <1>8, <1>9, <1>10, <1>11, <1>12, <1>13, <1>14
     DEF Counters!Next, Counters!TimerFires, Counters!Suspend, Counters!FlushStep

LEMMA CountersTyped == StatsInv /\ CountedInv => Counters!TypeOK
  BY DEF StatsInv, StatsTyped, StatsFlush, CountedInv, Counters!TypeOK

-----------------------------------------------------------------------------
(* The types.                                                              *)

LEMMA StatsAreTyped == RunSpec => []Counters!TypeOK
<1>1. StatsInv /\ StatsInv' /\ CountedInv /\ [Counters!Next]_statsVars => CountedInv'
  BY CountedNext
<1> QED BY <1>1, StatsRuns, StatsInit, StatsNext, CountedInit, CountersTyped, PTL

LEMMA LedgerTyped == RunSpec => []Ledger!TypeOK
<1>1. LedgerInv => Ledger!TypeOK
  BY DEF LedgerInv
<1> QED BY <1>1, LedgerInit, LedgerNext, LedgerRuns, PTL DEF Ledger!Spec

LEMMA SessionTyped == RunSpec => []Session!TypeOK
<1>1. SessionInv => Session!TypeOK
  BY DEF SessionInv
<1> QED BY <1>1, SessionInit, SessionNext, SessionRuns, PTL DEF Session!Spec

LEMMA SitesAreTyped == RunSpec => []Sites!TypeOK
<1>1. SitesInv /\ SitesInv' /\ SitesKept /\ [Sites!Next]_(Sites!vars) => SitesKept'
  BY SitesKeptNext
<1> QED
  BY <1>1, SitesRuns, SitesInit, SitesNext, SitesKeptInit, SitesTypeOK, PTL DEF Sites!Spec
=============================================================================
