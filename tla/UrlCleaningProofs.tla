-------------------------- MODULE UrlCleaningProofs ---------------------------
(***************************************************************************)
(* The cleaning of a link, for any number of hops unwrapped and of passes: *)
(* the destinations the user pays or is paid through are let be, affiliate *)
(* values are kept and dropped as asked, and a second pass finds nothing   *)
(* to change.                                                              *)
(*                                                                         *)
(* What each strip leaves of a query is said once, in a lemma about the    *)
(* fold the code writes as a loop; the invariant is that a link a pass has *)
(* been over is one that no pass changes.  The theorems are of RunSpec,    *)
(* the harness: every step of it is one of the cleaner's or leaves the     *)
(* cleaner's variables alone.                                              *)
(***************************************************************************)
EXTENDS PageProofs

-----------------------------------------------------------------------------
(* The cleaning of a link: what is picked of a query.                      *)

\* One param looked at.
Found(found, p, some) == IF p \in some THEN Append(found, p) ELSE found

LEMMA AmongInOrder ==
    ASSUME NEW S, NEW q \in Seq(S), NEW some
    PROVE  \E step :
              /\ step[0] = <<>> /\ Cleaner!Among(q, some) = step[Len(q)]
              /\ \A k \in Nat : k + 1 <= Len(q) =>
                    step[k + 1] = Found(step[k], q[k + 1], some)
<1> DEFINE D == DOMAIN q
           Push(x, y) == Found(x, y, some)
           Largest(t) == Cleaner!Max(t)
           Rec(g, n) == g = [t \in SUBSET (1..n) |->
                                IF t = {} THEN <<>> ELSE Push(g[t \ {Largest(t)}], q[Largest(t)])]
           fold == CHOOSE g : Rec(g, Len(q))
<1>1. D = 1..Len(q) /\ Len(q) \in Nat
  OBVIOUS
<1>2. Cleaner!Among(q, some) = fold[1..Len(q)]
  <2>0. Cleaner!Among(q, some)
          = Cleaner!FoldLeft(LAMBDA found, p : IF p \in some THEN Append(found, p) ELSE found,
                             <<>>, q)
    BY DEF Cleaner!Among
  <2>1. @ = Cleaner!MapThenFoldSet(
                LAMBDA x, y : IF x \in some THEN Append(y, x) ELSE y, <<>>,
                LAMBDA i : q[i], LAMBDA T : Cleaner!Max(T), DOMAIN q)
    BY DEF Cleaner!FoldLeft
  <2>2. @ = (CHOOSE g : g = [t \in SUBSET D |->
                      IF t = {} THEN <<>> ELSE Push(g[t \ {Largest(t)}], q[Largest(t)])])[D]
    BY DEF Cleaner!MapThenFoldSet, Found
  <2> QED BY <2>0, <2>1, <2>2, <1>1
<1>3. \A n \in Nat : \A t \in SUBSET (1..n + 1) : n + 1 \in t => Largest(t) = n + 1
  <2> SUFFICES ASSUME NEW n \in Nat, NEW t \in SUBSET (1..n + 1), n + 1 \in t
               PROVE  Largest(t) = n + 1
    OBVIOUS
  <2>1. \A y \in t : y \in Nat /\ y <= n + 1
    OBVIOUS
  <2>2. \A x \in t : (\A y \in t : x >= y) => x = n + 1
    BY <2>1
  <2>3. \A y \in t : n + 1 >= y
    BY <2>1
  <2> QED BY <2>2, <2>3 DEF Cleaner!Max
<1> HIDE DEF Largest, Push
<1>4. \A n \in Nat : \E g : Rec(g, n)
  <2> DEFINE T == {n \in Nat : \E g : Rec(g, n)}
  <2>1. 0 \in T
    <3> DEFINE g0 == [t \in SUBSET (1..0) |-> <<>>]
    <3>1. \A t \in SUBSET (1..0) : t = {}
      OBVIOUS
    <3>2. Rec(g0, 0)
      BY <3>1
    <3> QED BY <3>2
  <2>2. ASSUME NEW n \in Nat, n \in T PROVE n + 1 \in T
    <3>1. PICK g : Rec(g, n)
      BY <2>2
    <3> DEFINE G == [t \in SUBSET (1..n + 1) |->
                        IF t = {} THEN <<>>
                        ELSE IF n + 1 \in t THEN Push(g[t \ {n + 1}], q[n + 1])
                        ELSE g[t]]
               H == [t \in SUBSET (1..n + 1) |->
                        IF t = {} THEN <<>> ELSE Push(G[t \ {Largest(t)}], q[Largest(t)])]
    <3>a. (\A x \in 1..n : x \in 1..n + 1) /\ n + 1 \notin 1..n
          /\ \A x \in 1..n + 1 : x # n + 1 => x \in 1..n
      OBVIOUS
    <3>2. \A t \in SUBSET (1..n) :
             /\ t \in SUBSET (1..n + 1) /\ n + 1 \notin t
             /\ g[t] = IF t = {} THEN <<>> ELSE Push(g[t \ {Largest(t)}], q[Largest(t)])
      <4>1. \A t \in SUBSET (1..n) : t \in SUBSET (1..n + 1) /\ n + 1 \notin t
        BY <3>a
      <4> QED BY <3>1, <4>1
    <3>3. \A t \in SUBSET (1..n) : G[t] = g[t]
      BY <3>2
    <3>4. ASSUME NEW t \in SUBSET (1..n + 1) PROVE G[t] = H[t]
      <4>1. CASE t = {}
        BY <4>1
      <4>2. CASE n + 1 \in t
        <5>1. Largest(t) = n + 1 /\ t \ {n + 1} \in SUBSET (1..n) /\ t # {}
          <6>1. t \ {n + 1} \in SUBSET (1..n) /\ t # {}
            BY <4>2, <3>a
          <6> QED BY <6>1, <4>2, <1>3
        <5>2. G[t \ {n + 1}] = g[t \ {n + 1}]
          BY <5>1, <3>3
        <5> QED BY <5>1, <5>2, <4>2
      <4>3. CASE t # {} /\ n + 1 \notin t
        <5>1. t \in SUBSET (1..n) /\ t \ {Largest(t)} \in SUBSET (1..n)
          BY <4>3, <3>a
        <5>2. G[t \ {Largest(t)}] = g[t \ {Largest(t)}] /\ G[t] = g[t]
          BY <5>1, <3>3
        <5>3. g[t] = Push(g[t \ {Largest(t)}], q[Largest(t)])
          BY <5>1, <3>2, <4>3
        <5> QED BY <5>2, <5>3, <4>3
      <4> QED BY <4>1, <4>2, <4>3
    <3>5. G = H
      BY <3>4
    <3>6. Rec(G, n + 1)
      BY <3>5
    <3> HIDE DEF Rec, G
    <3>7. \E f : Rec(f, n + 1)
      BY <3>6
    <3> QED BY <3>7
  <2> HIDE DEF T
  <2>3. Nat \subseteq T
    BY <2>1, <2>2, Numbered
  <2> QED BY <2>3 DEF T
<1>5. Rec(fold, Len(q))
  <2> HIDE DEF Rec
  <2> QED BY <1>4, <1>1
<1> HIDE DEF fold
<1>6. fold[{}] = <<>>
  BY <1>5
<1>7. \A k \in Nat : k + 1 <= Len(q) =>
         fold[1..k + 1] = Found(fold[1..k], q[k + 1], some)
  <2> SUFFICES ASSUME NEW k \in Nat, k + 1 <= Len(q)
               PROVE  fold[1..k + 1] = Found(fold[1..k], q[k + 1], some)
    OBVIOUS
  <2>1. Largest(1..k + 1) = k + 1
    BY <1>3
  <2>2. 1..k + 1 \in SUBSET (1..Len(q)) /\ 1..k + 1 # {} /\ (1..k + 1) \ {k + 1} = 1..k
    <3>1. \A x : x \in (1..k + 1) \ {k + 1} <=> x \in 1..k
      OBVIOUS
    <3>2. (\A x \in 1..k + 1 : x \in 1..Len(q)) /\ k + 1 \in 1..k + 1
      BY <1>1
    <3>3. (1..k + 1) \ {k + 1} = 1..k
      BY <3>1, Zenon
    <3>4. 1..k + 1 \in SUBSET (1..Len(q)) /\ 1..k + 1 # {}
      BY <3>2, Zenon
    <3> QED BY <3>3, <3>4
  <2>3. fold[1..k + 1] = Push(fold[(1..k + 1) \ {Largest(1..k + 1)}], q[Largest(1..k + 1)])
    BY <2>2, <1>5
  <2> QED BY <2>1, <2>2, <2>3 DEF Push
<1> DEFINE step == [k \in Nat |-> fold[1..k]]
<1>8. \A k \in Nat : step[k] = fold[1..k]
  OBVIOUS
<1>9. 1..0 = {} /\ 0 \in Nat
  OBVIOUS
<1> HIDE DEF step
<1>10. step[0] = <<>>
  BY <1>6, <1>8, <1>9
<1>11. \A k \in Nat : k + 1 \in Nat
  OBVIOUS
<1>12. \A k \in Nat : k + 1 <= Len(q) =>
         step[k + 1] = Found(step[k], q[k + 1], some)
  BY <1>7, <1>8, <1>11
<1>13. Cleaner!Among(q, some) = step[Len(q)]
  BY <1>1, <1>2, <1>8
<1> QED BY <1>10, <1>12, <1>13

\* What is picked: the params among some, all of them, and in their place if there are
\* no others.
LEMMA AmongIs ==
    ASSUME NEW S, NEW q \in Seq(S), NEW some
    PROVE  /\ Cleaner!Among(q, some) \in Seq(S)
           /\ \A p : (\E i \in 1..Len(Cleaner!Among(q, some)) : Cleaner!Among(q, some)[i] = p)
                        <=> p \in some /\ \E i \in 1..Len(q) : q[i] = p
           /\ (\A i \in 1..Len(q) : q[i] \in some) => Cleaner!Among(q, some) = q
<1> DEFINE r == Cleaner!Among(q, some)
<1>1. Len(q) \in Nat /\ \A i \in 1..Len(q) : q[i] \in S
  OBVIOUS
<1>2. PICK step :
         /\ step[0] = <<>> /\ r = step[Len(q)]
         /\ \A k \in Nat : k + 1 <= Len(q) => step[k + 1] = Found(step[k], q[k + 1], some)
  BY AmongInOrder
<1> HIDE DEF r
<1> DEFINE Elements(k) ==
               /\ step[k] \in Seq(S)
               /\ \A p : (\E i \in 1..Len(step[k]) : step[k][i] = p)
                            <=> p \in some /\ \E i \in 1..k : q[i] = p
           T == {k \in Nat : k <= Len(q) => Elements(k)}
<1>3. 0 \in T
  <2>1. Elements(0)
    BY <1>2
  <2> HIDE DEF Elements
  <2> QED BY <2>1
<1>4. ASSUME NEW k \in Nat, k \in T PROVE k + 1 \in T
  <2> SUFFICES ASSUME k + 1 <= Len(q) PROVE Elements(k + 1)
    BY DEF T
  <2>1. Elements(k)
    <3> HIDE DEF Elements
    <3> QED BY <1>1, <1>4
  <2> DEFINE p0 == q[k + 1]
             old == step[k]
             new == step[k + 1]
  <2>2. p0 \in S /\ old \in Seq(S) /\ new = Found(old, p0, some)
    BY <1>1, <1>2, <2>1
  <2>3. \A p : (\E i \in 1..k + 1 : q[i] = p) <=> (\E i \in 1..k : q[i] = p) \/ p = p0
    <3>1. \A i : i \in 1..k + 1 <=> i \in 1..k \/ i = k + 1
      OBVIOUS
    <3> QED BY <3>1
  <2>4. \A p : (\E i \in 1..Len(old) : old[i] = p) <=> p \in some /\ \E i \in 1..k : q[i] = p
    BY <2>1
  <2> HIDE DEF p0, old, new
  <2>5. CASE p0 \in some
    <3>1. new = Append(old, p0)
      BY <2>2, <2>5 DEF Found
    <3>2. /\ new \in Seq(S) /\ Len(new) = Len(old) + 1 /\ Len(old) \in Nat
          /\ \A i \in 1..Len(old) : new[i] = old[i]
          /\ new[Len(old) + 1] = p0
      BY <2>2, <3>1
    <3>3. \A p : (\E i \in 1..Len(new) : new[i] = p)
                    <=> (\E i \in 1..Len(old) : old[i] = p) \/ p = p0
      <4>1. \A i : i \in 1..Len(new) <=> i \in 1..Len(old) \/ i = Len(old) + 1
        BY <3>2
      <4> QED BY <3>2, <4>1
    <3>4. \A p : (\E i \in 1..Len(new) : new[i] = p)
                    <=> p \in some /\ \E i \in 1..k + 1 : q[i] = p
      BY <2>3, <2>4, <2>5, <3>3, Zenon
    <3> QED BY <3>2, <3>4 DEF new
  <2>6. CASE p0 \notin some
    <3>1. new = old
      BY <2>2, <2>6 DEF Found
    <3>4. \A p : (\E i \in 1..Len(new) : new[i] = p)
                    <=> p \in some /\ \E i \in 1..k + 1 : q[i] = p
      BY <2>3, <2>4, <2>6, <3>1, Zenon
    <3> QED BY <2>2, <3>1, <3>4 DEF new
  <2> QED BY <2>5, <2>6
<1> HIDE DEF T
<1>5. Nat \subseteq T
  BY <1>3, <1>4, Numbered
<1>6. Elements(Len(q))
  <2> HIDE DEF Elements
  <2>1. Len(q) \in T
    BY <1>1, <1>5
  <2> QED BY <2>1, <1>1 DEF T
<1>7. ASSUME \A i \in 1..Len(q) : q[i] \in some PROVE r = q
  <2> DEFINE Same(k) == /\ step[k] \in Seq(S) /\ Len(step[k]) = k
                        /\ \A i \in 1..k : step[k][i] = q[i]
             U == {k \in Nat : k <= Len(q) => Same(k)}
  <2>1. 0 \in U
    <3>1. Same(0)
      BY <1>2
    <3> HIDE DEF Same
    <3> QED BY <3>1
  <2>2. ASSUME NEW k \in Nat, k \in U PROVE k + 1 \in U
    <3> SUFFICES ASSUME k + 1 <= Len(q) PROVE Same(k + 1)
      BY DEF U
    <3>1. Same(k)
      <4> HIDE DEF Same
      <4> QED BY <1>1, <2>2
    <3>2. step[k + 1] = Append(step[k], q[k + 1]) /\ q[k + 1] \in S
      <4>1. k + 1 \in 1..Len(q)
        BY <1>1
      <4>2. q[k + 1] \in some /\ q[k + 1] \in S
        BY <4>1, <1>1, <1>7
      <4>3. step[k + 1] = Found(step[k], q[k + 1], some)
        BY <1>2
      <4> QED BY <4>2, <4>3 DEF Found
    <3>3. \A i : i \in 1..k + 1 <=> i \in 1..k \/ i = k + 1
      OBVIOUS
    <3> QED BY <3>1, <3>2, <3>3
  <2> HIDE DEF U
  <2>3. Nat \subseteq U
    BY <2>1, <2>2, Numbered
  <2>4. Len(q) \in U
    BY <1>1, <2>3
  <2>5. Same(Len(q))
    <3> HIDE DEF Same
    <3> QED BY <2>4, <1>1 DEF U
  <2> QED BY <2>5, <1>2, SeqEqual
<1> QED BY <1>2, <1>6, <1>7 DEF r

\* Picked twice, with nothing in common, no more than there was.
LEMMA AmongDisjoint ==
    ASSUME NEW S, NEW q \in Seq(S), NEW A, NEW B, A \cap B = {}
    PROVE  Len(Cleaner!Among(q, A)) + Len(Cleaner!Among(q, B)) <= Len(q)
<1>1. Len(q) \in Nat /\ \A i \in 1..Len(q) : q[i] \in S
  OBVIOUS
<1>2. PICK a : /\ a[0] = <<>> /\ Cleaner!Among(q, A) = a[Len(q)]
               /\ \A k \in Nat : k + 1 <= Len(q) => a[k + 1] = Found(a[k], q[k + 1], A)
  BY AmongInOrder
<1>3. PICK b : /\ b[0] = <<>> /\ Cleaner!Among(q, B) = b[Len(q)]
               /\ \A k \in Nat : k + 1 <= Len(q) => b[k + 1] = Found(b[k], q[k + 1], B)
  BY AmongInOrder
<1> DEFINE Short(k) == /\ a[k] \in Seq(S) /\ b[k] \in Seq(S)
                       /\ Len(a[k]) + Len(b[k]) <= k
           T == {k \in Nat : k <= Len(q) => Short(k)}
<1>4. 0 \in T
  <2>1. Short(0)
    BY <1>2, <1>3
  <2> HIDE DEF Short
  <2> QED BY <2>1
<1>5. ASSUME NEW k \in Nat, k \in T PROVE k + 1 \in T
  <2> SUFFICES ASSUME k + 1 <= Len(q) PROVE Short(k + 1)
    <3> HIDE DEF Short
    <3> QED BY DEF T
  <2>0. Short(k)
    <3> HIDE DEF Short
    <3> QED BY <1>1, <1>5
  <2> DEFINE x == a[k]
             y == b[k]
             e == q[k + 1]
             n == Len(x)
             m == Len(y)
  <2>1. x \in Seq(S) /\ y \in Seq(S) /\ n + m <= k
    BY <2>0
  <2>2. e \in S
    <3>1. k + 1 \in 1..Len(q)
      BY <1>1
    <3> QED BY <1>1, <3>1
  <2>3. a[k + 1] = Found(x, e, A) /\ b[k + 1] = Found(y, e, B)
    BY <1>2, <1>3
  <2> HIDE DEF x, y, e, T, Short
  <2>4. /\ n \in Nat /\ Len(Append(x, e)) = n + 1 /\ Append(x, e) \in Seq(S)
        /\ m \in Nat /\ Len(Append(y, e)) = m + 1 /\ Append(y, e) \in Seq(S)
    BY <2>1, <2>2
  <2> HIDE DEF n, m
  <2>5. (n + 1) + m <= k + 1 /\ n + (m + 1) <= k + 1 /\ n + m <= k + 1
    BY <2>1, <2>4
  <2>6. e \notin A \/ e \notin B
    OBVIOUS
  <2>7. \/ a[k + 1] = x /\ b[k + 1] = y
        \/ a[k + 1] = Append(x, e) /\ b[k + 1] = y
        \/ a[k + 1] = x /\ b[k + 1] = Append(y, e)
    BY <2>3, <2>6 DEF Found
  <2>8. Len(x) = n /\ Len(y) = m
    BY DEF n, m
  <2> QED BY <2>1, <2>4, <2>5, <2>7, <2>8 DEF Short
<1> HIDE DEF T
<1>6. Nat \subseteq T
  BY <1>4, <1>5, Numbered
<1>7. Short(Len(q))
  <2> HIDE DEF Short
  <2>1. Len(q) \in T
    BY <1>1, <1>6
  <2> QED BY <2>1, <1>1 DEF T
<1> QED BY <1>2, <1>3, <1>7

-----------------------------------------------------------------------------
(* The cleaning of a link: the links there are.                            *)

LayersThere ==
    {<<>>, <<"wrapper">>, <<"wrapper", "wrapper">>, <<"amp">>, <<"wrapper", "amp">>}

\* A product's name is stripped from its path, a creator's from a referral.
PathsThere ==
    {<<"page">>, <<"auth">>, <<"item">>, <<"slug", "dp">>, <<"dp">>, <<"shop", "creator">>,
     <<"a", "creator", "page">>}
    \cup (IF Localized THEN {<<"-", "en", "slug", "dp">>, <<"-", "en", "dp">>, <<"-", "dp">>}
          ELSE {})

QueriesThere == {q \in Seq(Cleaner!Singles) : Len(q) <= 2}

LinksThere == [layers : LayersThere, host : {"shop", "gateway"}, path : PathsThere,
               query : QueriesThere]

PrefsThere ==
    [stripAll : BOOLEAN, notify : BOOLEAN, unwrap : BOOLEAN,
     white : {{}, {Cleaner!Site("shop")}, {Cleaner!Site("gateway")}, {Cleaner!Approval}},
     black : {{}, {Cleaner!Site("shop")}, {Cleaner!Entry("shop", "tag", "*")}}]

LinkInv ==
    /\ link \in LinksThere /\ linkPrefs \in PrefsThere
    /\ answer.junk \in 0..3 /\ passes \in 0..MaxPasses

\* How many wrappers are peeled of each kind of link.
LEMMA HopsAre ==
    /\ Cleaner!Hops(<<>>) = 0 /\ Cleaner!Hops(<<"amp">>) = 0
    /\ Cleaner!Hops(<<"wrapper">>) = 1 /\ Cleaner!Hops(<<"wrapper", "amp">>) = 1
    /\ Cleaner!Hops(<<"wrapper", "wrapper">>) = 2
<1> DEFINE Peel(layers) == {i \in 1..MaxHops :
               i <= Len(layers) /\ \A j \in 1..i : layers[j] = "wrapper"}
<1>1. MaxHops \in Nat /\ MaxHops >= 2
  BY PageAssumption
<1>2. /\ Cardinality({}) = 0 /\ Cardinality({1}) = 1 /\ Cardinality({1, 2}) = 2
  <2>1. IsFiniteSet({1}) /\ Cardinality({1}) = 1 /\ Cardinality({}) = 0
    BY FS_Singleton, FS_EmptySet
  <2>2. {1, 2} = {1} \cup {2} /\ 2 \notin {1}
    OBVIOUS
  <2>3. Cardinality({1} \cup {2}) = 1 + 1
    BY <2>1, <2>2, FS_AddElement
  <2> QED BY <2>1, <2>2, <2>3
<1>3. \A layers : Cleaner!Hops(layers) = Cardinality(Peel(layers))
  BY DEF Cleaner!Hops, Cleaner!Cardinality, Cardinality
<1>4. \A i \in 1..MaxHops : 1 \in 1..i
  BY <1>1
<1>5. Peel(<<>>) = {} /\ Peel(<<"amp">>) = {}
  <2>1. Peel(<<>>) = {}
    OBVIOUS
  <2>2. \A i \in 1..MaxHops : <<"amp">>[1] # "wrapper"
    OBVIOUS
  <2> QED BY <2>1, <2>2, <1>4
<1>6. Peel(<<"wrapper">>) = {1}
  <2>1. Len(<<"wrapper">>) = 1 /\ \A j \in 1..1 : <<"wrapper">>[j] = "wrapper"
    OBVIOUS
  <2> QED BY <2>1, <1>1
<1>7. Peel(<<"wrapper", "amp">>) = {1}
  <2>1. Len(<<"wrapper", "amp">>) = 2 /\ <<"wrapper", "amp">>[2] = "amp"
        /\ \A j \in 1..1 : <<"wrapper", "amp">>[j] = "wrapper"
    OBVIOUS
  <2>2. \A i \in 1..MaxHops : i <= 2 => i \in {1, 2}
    BY <1>1
  <2>3. 2 \in 1..2 /\ 1 \in 1..MaxHops
    BY <1>1
  <2> QED BY <2>1, <2>2, <2>3
<1>8. Peel(<<"wrapper", "wrapper">>) = {1, 2}
  <2>1. Len(<<"wrapper", "wrapper">>) = 2
        /\ \A j \in 1..2 : <<"wrapper", "wrapper">>[j] = "wrapper"
    OBVIOUS
  <2>2. \A i \in 1..MaxHops : i <= 2 => i \in {1, 2}
    BY <1>1
  <2>3. 2 \in 1..MaxHops /\ 1 \in 1..MaxHops /\ \A j \in 1..1 : j \in 1..2
    BY <1>1
  <2> QED BY <2>1, <2>2, <2>3
<1> HIDE DEF Peel
<1> QED BY <1>2, <1>3, <1>5, <1>6, <1>7, <1>8

\* A piece of a path or of some layers, from what it holds.
Word == {"a", "amp", "auth", "creator", "dp", "en", "item", "page", "shop", "slug",
         "wrapper", "-"}

LEMMA Piece ==
    ASSUME NEW s, NEW t \in Seq(Word), NEW m \in Int, NEW n \in Int, Len(t) = n - m + 1,
           \A i \in 1..Len(t) : t[i] = s[m + i - 1]
    PROVE  SubSeq(s, m, n) = t
<1>1. Len(t) \in Nat /\ \A i \in 1..Len(t) : t[i] \in Word
  OBVIOUS
<1>2. \A i \in m..n : s[i] \in Word
  <2> SUFFICES ASSUME NEW i \in m..n PROVE s[i] \in Word
    OBVIOUS
  <2>1. i - m + 1 \in 1..Len(t) /\ m + (i - m + 1) - 1 = i
    BY <1>1
  <2> QED BY <1>1, <2>1
<1>3. /\ SubSeq(s, m, n) \in Seq(Word)
      /\ Len(SubSeq(s, m, n)) = IF m <= n THEN n - m + 1 ELSE 0
      /\ \A i \in 1..n - m + 1 : SubSeq(s, m, n)[i] = s[m + i - 1]
  BY <1>2, SubSeqProperties
<1>4. Len(SubSeq(s, m, n)) = Len(t)
  BY <1>1, <1>3
<1> QED BY <1>1, <1>3, <1>4, SeqEqual

\* What unwrapping leaves of the layers: none of them, or all.
LEMMA PeeledIs ==
    ASSUME NEW layers \in LayersThere
    PROVE  Cleaner!Peeled(layers)
             = IF linkPrefs.unwrap \/ layers = <<"amp">> THEN <<>> ELSE layers
<1> DEFINE w == <<"wrapper">>
           a == <<"amp">>
           wa == <<"wrapper", "amp">>
           ww == <<"wrapper", "wrapper">>
           Left(rest) == IF rest # <<>> /\ Head(rest) = "amp" THEN Tail(rest) ELSE rest
<1>1. /\ Len(w) = 1 /\ Len(a) = 1 /\ Len(wa) = 2 /\ Len(ww) = 2 /\ Len(<<>>) = 0
      /\ a \in Seq(Word) /\ <<>> \in Seq(Word) /\ wa[2] = "amp" /\ a[1] = "amp"
  <2>1. Len(w) = 1 /\ Len(a) = 1 /\ Len(wa) = 2 /\ Len(ww) = 2 /\ Len(<<>>) = 0
    OBVIOUS
  <2>3. a \in Seq(Word) /\ <<>> \in Seq(Word)
    BY DEF Word
  <2>4. wa[2] = "amp" /\ a[1] = "amp"
    OBVIOUS
  <2> QED BY <2>1, <2>3, <2>4
<1>2. /\ SubSeq(<<>>, 1, 0) = <<>> /\ SubSeq(a, 1, 1) = a /\ SubSeq(w, 2, 1) = <<>>
      /\ SubSeq(wa, 2, 2) = a /\ SubSeq(ww, 3, 2) = <<>>
  <2>1. SubSeq(wa, 2, 2) = a
    <3> HIDE DEF wa, a
    <3>1. \A i \in 1..Len(a) : a[i] = wa[2 + i - 1]
      BY <1>1
    <3> QED BY <3>1, <1>1, Piece
  <2>2. SubSeq(a, 1, 1) = a
    <3> HIDE DEF wa, a
    <3>1. \A i \in 1..Len(a) : a[i] = a[1 + i - 1]
      BY <1>1
    <3> QED BY <3>1, <1>1, Piece
  <2>3. SubSeq(<<>>, 1, 0) = <<>> /\ SubSeq(w, 2, 1) = <<>> /\ SubSeq(ww, 3, 2) = <<>>
    BY SubSeqEmpty
  <2> QED BY <2>1, <2>2, <2>3
<1>3. /\ a # <<>> /\ Head(a) = "amp" /\ Tail(a) = <<>>
      /\ w # <<>> /\ Head(w) = "wrapper" /\ wa # <<>> /\ Head(wa) = "wrapper"
      /\ ww # <<>> /\ Head(ww) = "wrapper" /\ w # a /\ wa # a /\ ww # a /\ <<>> # a
  <2>1. Head(a) = a[1] /\ Head(w) = w[1] /\ Head(wa) = wa[1] /\ Head(ww) = ww[1]
    OBVIOUS
  <2>2. Tail(a) = <<>>
    OBVIOUS
  <2>3. a # <<>> /\ w # <<>> /\ wa # <<>> /\ ww # <<>>
    OBVIOUS
  <2>4. w[1] = "wrapper" /\ wa[1] = "wrapper" /\ ww[1] = "wrapper" /\ a[1] = "amp"
    OBVIOUS
  <2> QED BY <2>1, <2>2, <2>3, <2>4
<1>4. /\ Cleaner!Hops(<<>>) = 0 /\ Cleaner!Hops(a) = 0 /\ Cleaner!Hops(w) = 1
      /\ Cleaner!Hops(wa) = 1 /\ Cleaner!Hops(ww) = 2
  BY HopsAre
<1>5. layers \in {<<>>, w, ww, a, wa}
  BY DEF LayersThere
<1>6. \A x : Cleaner!Peeled(x)
                 = Left(IF linkPrefs.unwrap THEN SubSeq(x, Cleaner!Hops(x) + 1, Len(x)) ELSE x)
  BY DEF Cleaner!Peeled
<1>7. SubSeq(layers, Cleaner!Hops(layers) + 1, Len(layers)) = IF layers \in {a, wa} THEN a ELSE <<>>
  <2> HIDE DEF w, a, wa, ww
  <2>1. 0 + 1 = 1 /\ 1 + 1 = 2 /\ 2 + 1 = 3
    OBVIOUS
  <2>2. CASE layers = <<>>
    BY <1>1, <1>2, <1>3, <1>4, <2>1, <2>2
  <2>3. CASE layers = w
    BY <1>1, <1>2, <1>3, <1>4, <2>1, <2>3
  <2>4. CASE layers = a
    BY <1>1, <1>2, <1>3, <1>4, <2>1, <2>4
  <2>5. CASE layers = wa
    BY <1>1, <1>2, <1>3, <1>4, <2>1, <2>5
  <2>6. CASE layers = ww
    BY <1>1, <1>2, <1>3, <1>4, <2>1, <2>6
  <2> QED BY <1>5, <2>2, <2>3, <2>4, <2>5, <2>6
<1>8. Left(<<>>) = <<>> /\ Left(a) = <<>> /\ Left(w) = w /\ Left(wa) = wa /\ Left(ww) = ww
  BY <1>3
<1>9. a = <<"amp">>
  OBVIOUS
<1> HIDE DEF w, a, wa, ww, Left
<1> QED BY <1>3, <1>5, <1>6, <1>7, <1>8, <1>9

\* What the path rules make of each path: a referral leads to its page, and a name that
\* is stripped leaves no other to strip, save behind a storefront's prefix.
Referral == <<"a", "creator", "page">>

LEMMA PathsAre ==
    ASSUME NEW path \in PathsThere
    PROVE  /\ Cleaner!IsCreatorPath(path) =>
                Cleaner!UnwrapTo(path) = IF path = Referral THEN <<"page">> ELSE path
           /\ path = Referral => Cleaner!IsCreatorPath(path)
           /\ Cleaner!PathStripped(path) \in PathsThere /\ <<"page">> \in PathsThere
           /\ Cleaner!PathStripped(path) = Referral <=> path = Referral
           /\ Cleaner!PathStripped(path) = <<"item">> <=> path = <<"item">>
           /\ Cleaner!PathStripped(path) = <<"auth">> <=> path = <<"auth">>
           /\ path = <<"page">> => Cleaner!PathStripped(path) = path
           /\ ~Localized =>
                Cleaner!PathStripped(Cleaner!PathStripped(path)) = Cleaner!PathStripped(path)
           /\ <<"page">> # Referral /\ <<"page">> # <<"item">>
<1> DEFINE plain == <<"page">>
           auth == <<"auth">>
           item == <<"item">>
           slug == <<"slug", "dp">>
           dp == <<"dp">>
           shop == <<"shop", "creator">>
           referral == <<"a", "creator", "page">>
           full == <<"-", "en", "slug", "dp">>
           locale == <<"-", "en", "dp">>
           dash == <<"-", "dp">>
           all == {plain, auth, item, slug, dp, shop, referral, full, locale, dash}
<1>1. /\ PathsThere \subseteq all /\ {plain, auth, item, slug, dp, shop, referral} \subseteq PathsThere
      /\ Localized => all \subseteq PathsThere
      /\ ~Localized => full \notin PathsThere /\ locale \notin PathsThere /\ dash \notin PathsThere
  BY DEF PathsThere
<1>2. /\ Len(plain) = 1 /\ Len(auth) = 1 /\ Len(item) = 1 /\ Len(slug) = 2 /\ Len(dp) = 1
      /\ Len(shop) = 2 /\ Len(referral) = 3 /\ Len(full) = 4 /\ Len(locale) = 3
      /\ Len(dash) = 2
  OBVIOUS
<1>3. /\ plain[1] = "page" /\ auth[1] = "auth" /\ item[1] = "item" /\ slug[1] = "slug"
      /\ dp[1] = "dp" /\ shop[1] = "shop" /\ referral[1] = "a" /\ full[1] = "-"
      /\ locale[1] = "-" /\ dash[1] = "-"
  OBVIOUS
<1>4. /\ slug[2] = "dp" /\ shop[2] = "creator" /\ referral[2] = "creator"
      /\ referral[3] = "page" /\ full[2] = "en" /\ full[3] = "slug" /\ full[4] = "dp"
      /\ locale[2] = "en" /\ locale[3] = "dp" /\ dash[2] = "dp"
  OBVIOUS
<1>5. \A x : x # <<>> => Head(x) = x[1]
  OBVIOUS
<1>6. /\ plain # <<>> /\ auth # <<>> /\ item # <<>> /\ slug # <<>> /\ dp # <<>>
      /\ shop # <<>> /\ referral # <<>> /\ full # <<>> /\ locale # <<>> /\ dash # <<>>
  OBVIOUS
<1>7. \A x : Cleaner!Last(x) = x[Len(x)]
  BY DEF Cleaner!Last
<1>8. SubSeq(referral, 3, 3) = plain
  <2>1. plain \in Seq(Word)
    BY DEF Word
  <2> HIDE DEF plain, referral
  <2>2. \A i \in 1..Len(plain) : plain[i] = referral[3 + i - 1]
    BY <1>2, <1>3, <1>4
  <2> QED BY <2>1, <2>2, <1>2, Piece
<1>9. /\ SubSeq(slug, 1, 0) \o dp = dp /\ SubSeq(full, 1, 2) \o dp = locale
      /\ SubSeq(locale, 1, 1) \o dp = dash /\ SubSeq(dash, 1, 0) \o dp = dp
  <2> DEFINE en == <<"-", "en">>
             bar == <<"-">>
  <2>1. SubSeq(slug, 1, 0) = <<>> /\ SubSeq(dash, 1, 0) = <<>>
    BY SubSeqEmpty
  <2>2. SubSeq(full, 1, 2) = en
    <3>1. en \in Seq(Word) /\ Len(en) = 2 /\ en[1] = "-" /\ en[2] = "en"
      BY DEF Word
    <3> HIDE DEF en, full
    <3>2. \A i \in 1..Len(en) : en[i] = full[1 + i - 1]
      BY <1>3, <1>4, <3>1
    <3> QED BY <3>1, <3>2, Piece
  <2>3. SubSeq(locale, 1, 1) = bar
    <3>1. bar \in Seq(Word) /\ Len(bar) = 1 /\ bar[1] = "-"
      BY DEF Word
    <3> HIDE DEF bar, locale
    <3>2. \A i \in 1..Len(bar) : bar[i] = locale[1 + i - 1]
      BY <1>3, <3>1
    <3> QED BY <3>1, <3>2, Piece
  <2>0. dp \in Seq(Word) /\ bar \in Seq(Word) /\ dash \in Seq(Word) /\ Len(bar) = 1
        /\ bar[1] = "-"
    BY DEF Word
  <2>4. <<>> \o dp = dp /\ bar \o dp = dash
    <3>1. <<>> \o dp = dp
      BY <2>0
    <3> HIDE DEF bar, dp, dash
    <3>2. /\ bar \o dp \in Seq(Word) /\ Len(bar \o dp) = Len(bar) + Len(dp)
          /\ \A i \in 1..Len(bar) + Len(dp) :
               (bar \o dp)[i] = IF i <= Len(bar) THEN bar[i] ELSE dp[i - Len(bar)]
      BY <2>0, ConcatProperties
    <3>3. \A i \in 1..2 : (bar \o dp)[i] = dash[i]
      BY <2>0, <3>2, <1>2, <1>3, <1>4
    <3>4. bar \o dp = dash
      BY <2>0, <3>2, <3>3, <1>2, SeqEqual
    <3> QED BY <3>1, <3>4
  <2>5. en \o dp = locale
    <3>1. en \in Seq(Word) /\ dp \in Seq(Word) /\ locale \in Seq(Word)
      BY DEF Word
    <3>2. Len(en) = 2 /\ en[1] = "-" /\ en[2] = "en"
      OBVIOUS
    <3> HIDE DEF en, dp, locale
    <3>3. /\ en \o dp \in Seq(Word) /\ Len(en \o dp) = Len(en) + Len(dp)
          /\ \A i \in 1..Len(en) + Len(dp) :
               (en \o dp)[i] = IF i <= Len(en) THEN en[i] ELSE dp[i - Len(en)]
      BY <3>1, ConcatProperties
    <3>4. \A i \in 1..3 : (en \o dp)[i] = locale[i]
      BY <3>2, <3>3, <1>2, <1>3, <1>4
    <3> QED BY <3>1, <3>2, <3>3, <3>4, <1>2, SeqEqual
  <2> QED BY <2>1, <2>2, <2>3, <2>4, <2>5
<1>10. plain = <<"page">> /\ item = <<"item">> /\ auth = <<"auth">> /\ dp = <<"dp">>
       /\ referral = Referral
  BY DEF Referral
<1>0. path \in PathsThere
  OBVIOUS
<1> HIDE DEF plain, auth, item, slug, dp, shop, referral, full, locale, dash
<1>11. \A x \in all : x # <<>> /\ Head(x) = x[1]
  BY <1>5, <1>6
<1>12. \A x \in all : x[1] = "a" <=> x = referral
  BY <1>3
<1>13. \A x \in all : Cleaner!UnwrapTo(x) = IF x = referral THEN plain ELSE x
  <2> SUFFICES ASSUME NEW x \in all
               PROVE  Cleaner!UnwrapTo(x) = IF x = referral THEN plain ELSE x
    OBVIOUS
  <2>1. CASE x = referral
    <3>1. Len(x) = 3 /\ x[3] = "page" /\ Head(x) = "a"
      BY <1>2, <1>4, <1>11, <1>12, <2>1, Zenon
    <3>2. Len(x) > 2 /\ "page" # "a"
      BY <3>1
    <3>3. SubSeq(x, 3, Len(x)) = plain
      BY <1>8, <2>1, <3>1, Zenon
    <3>4. Cleaner!UnwrapTo(x) = SubSeq(x, 3, Len(x))
      BY <3>1, <3>2, Zenon DEF Cleaner!UnwrapTo
    <3> QED BY <3>3, <3>4, <2>1, Zenon
  <2>2. CASE x # referral
    BY <1>11, <1>12, <2>2 DEF Cleaner!UnwrapTo
  <2> QED BY <2>1, <2>2
<1>14. Cleaner!IsCreatorPath(referral)
  BY <1>3, <1>11 DEF Cleaner!IsCreatorPath
<1>15. \A x \in all : Len(x) > 1 /\ Cleaner!Last(x) = "dp" <=> x \in {slug, full, locale, dash}
  <2> SUFFICES ASSUME NEW x \in all
               PROVE  Len(x) > 1 /\ Cleaner!Last(x) = "dp" <=> x \in {slug, full, locale, dash}
    OBVIOUS
  <2>1. CASE x \in {plain, auth, item, dp}
    <3>1. Len(x) = 1
      BY <1>2, <2>1
    <3>2. x \notin {slug, full, locale, dash}
      BY <1>2, <3>1
    <3> QED BY <3>1, <3>2
  <2>2. CASE x = shop
    BY <1>2, <1>3, <1>4, <1>7, <2>2
  <2>3. CASE x = referral
    BY <1>2, <1>3, <1>4, <1>7, <2>3
  <2>4. CASE x \in {slug, full, locale, dash}
    <3>1. Len(x) \in {2, 3, 4} /\ x[Len(x)] = "dp"
      <4>1. slug[Len(slug)] = "dp" /\ full[Len(full)] = "dp"
            /\ locale[Len(locale)] = "dp" /\ dash[Len(dash)] = "dp"
        BY <1>2, <1>4, Zenon
      <4> QED BY <1>2, <2>4, <4>1, Zenon
    <3> QED BY <1>7, <2>4, <3>1
  <2> QED BY <2>1, <2>2, <2>3, <2>4
<1>16. /\ SubSeq(slug, 1, Len(slug) - 2) \o dp = dp /\ SubSeq(full, 1, Len(full) - 2) \o dp = locale
       /\ SubSeq(locale, 1, Len(locale) - 2) \o dp = dash /\ SubSeq(dash, 1, Len(dash) - 2) \o dp = dp
  <2>1. Len(slug) - 2 = 0 /\ Len(full) - 2 = 2 /\ Len(locale) - 2 = 1 /\ Len(dash) - 2 = 0
    BY <1>2
  <2> QED BY <1>9, <2>1, Zenon
<1>17. \A x \in all : Cleaner!PathStripped(x)
         = IF x \in {slug, full, locale, dash}
           THEN SubSeq(x, 1, Len(x) - 2) \o dp ELSE x
  BY <1>10, <1>15 DEF Cleaner!PathStripped
<1>18. /\ Cleaner!PathStripped(slug) = dp /\ Cleaner!PathStripped(full) = locale
       /\ Cleaner!PathStripped(locale) = dash /\ Cleaner!PathStripped(dash) = dp
       /\ \A x \in all \ {slug, full, locale, dash} : Cleaner!PathStripped(x) = x
  BY <1>16, <1>17, Zenon
<1>19. /\ dp \notin {slug, full, locale, dash, item, auth, referral}
       /\ plain \notin {referral, item, slug, full, locale, dash}
       /\ {slug, full, locale, dash} \cap {item, auth, referral} = {}
       /\ auth \notin {slug, full, locale, dash} /\ item \notin {slug, full, locale, dash}
  BY <1>2, <1>3
<1>20. path \in all /\ PathsThere \subseteq all
  BY <1>0, <1>1, Zenon
<1>21. /\ Cleaner!PathStripped(path) \in PathsThere
       /\ Cleaner!PathStripped(path) = referral <=> path = referral
       /\ Cleaner!PathStripped(path) = item <=> path = item
       /\ Cleaner!PathStripped(path) = auth <=> path = auth
       /\ ~Localized => Cleaner!PathStripped(Cleaner!PathStripped(path))
                          = Cleaner!PathStripped(path)
  <2>1. CASE path = slug
    BY <1>1, <1>18, <1>19, <2>1
  <2>2. CASE path = full
    BY <1>0, <1>1, <1>18, <1>19, <2>2
  <2>3. CASE path = locale
    BY <1>0, <1>1, <1>18, <1>19, <2>3
  <2>4. CASE path = dash
    BY <1>0, <1>1, <1>18, <1>19, <2>4
  <2>5. CASE path \notin {slug, full, locale, dash}
    BY <1>0, <1>18, <1>20, <2>5
  <2> QED BY <2>1, <2>2, <2>3, <2>4, <2>5
<1>22. path = plain => Cleaner!PathStripped(path) = path
  BY <1>18, <1>19, <1>20
<1>23. plain \in PathsThere /\ plain # referral /\ plain # item
  BY <1>1, <1>19
<1>24. Cleaner!UnwrapTo(path) = IF path = referral THEN plain ELSE path
  BY <1>13, <1>20, Zenon
<1> QED BY <1>10, <1>14, <1>21, <1>22, <1>23, <1>24

\* What the members of a query that is picked from are.
LEMMA AmongSet ==
    ASSUME NEW S, NEW q \in Seq(S), NEW some
    PROVE  /\ Cleaner!Among(q, some) \in Seq(S) /\ Len(Cleaner!Among(q, some)) <= Len(q)
           /\ Cleaner!ToSet(Cleaner!Among(q, some)) = Cleaner!ToSet(q) \cap some
           /\ Cleaner!ToSet(q) \subseteq some => Cleaner!Among(q, some) = q
           /\ Cleaner!Among(q, some) = <<>> <=> Cleaner!ToSet(q) \cap some = {}
           /\ Cleaner!Among(q, some) # <<>>
                => Cleaner!Among(q, some)[1] \in Cleaner!ToSet(q) \cap some
<1> DEFINE r == Cleaner!Among(q, some)
<1>1. /\ r \in Seq(S)
      /\ \A p : (\E i \in 1..Len(r) : r[i] = p) <=> p \in some /\ \E i \in 1..Len(q) : q[i] = p
      /\ (\A i \in 1..Len(q) : q[i] \in some) => r = q
  BY AmongIs
<1>2. Len(r) + Len(Cleaner!Among(q, {})) <= Len(q)
  BY AmongDisjoint
<1>3. Cleaner!Among(q, {}) \in Seq(S)
  BY AmongIs
<1> HIDE DEF r
<1>4. \A s \in Seq(S) : Cleaner!ToSet(s) = {s[i] : i \in 1..Len(s)} /\ Len(s) \in Nat
  BY DEF Cleaner!ToSet
<1>5. Len(r) <= Len(q)
  BY <1>1, <1>2, <1>3, <1>4
<1>6. Cleaner!ToSet(r) = Cleaner!ToSet(q) \cap some
  <2>1. \A p : p \in Cleaner!ToSet(r) <=> \E i \in 1..Len(r) : r[i] = p
    BY <1>1, <1>4
  <2>2. \A p : p \in Cleaner!ToSet(q) <=> \E i \in 1..Len(q) : q[i] = p
    BY <1>4
  <2> QED BY <1>1, <2>1, <2>2
<1>7. Cleaner!ToSet(q) \subseteq some => r = q
  BY <1>1, <1>4
<1>8. r = <<>> <=> Cleaner!ToSet(r) = {}
  <2>1. r = <<>> => Cleaner!ToSet(r) = {}
    <3>1. r = <<>> => 1..Len(r) = {}
      OBVIOUS
    <3> QED BY <1>1, <1>4, <3>1
  <2>2. r # <<>> => Len(r) >= 1
    BY <1>1
  <2>3. Len(r) >= 1 => r[1] \in Cleaner!ToSet(r)
    BY <1>1, <1>4
  <2> QED BY <2>1, <2>2, <2>3
<1>9. r # <<>> => r[1] \in Cleaner!ToSet(r)
  <2>1. r # <<>> => Len(r) >= 1
    BY <1>1
  <2> QED BY <1>1, <1>4, <2>1
<1>10. r = Cleaner!Among(q, some)
  BY DEF r
<1> QED BY <1>1, <1>5, <1>6, <1>7, <1>8, <1>9, <1>10

LEMMA ConcatSet ==
    ASSUME NEW S, NEW a \in Seq(S), NEW b \in Seq(S)
    PROVE  /\ a \o b \in Seq(S) /\ Len(a \o b) = Len(a) + Len(b)
           /\ Cleaner!ToSet(a \o b) = Cleaner!ToSet(a) \cup Cleaner!ToSet(b)
<1> DEFINE c == a \o b
<1>1. /\ c \in Seq(S) /\ Len(c) = Len(a) + Len(b)
      /\ \A i \in 1..Len(a) + Len(b) : c[i] = IF i <= Len(a) THEN a[i] ELSE b[i - Len(a)]
  BY ConcatProperties
<1> HIDE DEF c
<1>2. \A s \in Seq(S) : Cleaner!ToSet(s) = {s[i] : i \in 1..Len(s)} /\ Len(s) \in Nat
  BY DEF Cleaner!ToSet
<1>3. Cleaner!ToSet(c) \subseteq Cleaner!ToSet(a) \cup Cleaner!ToSet(b)
  <2> SUFFICES ASSUME NEW i \in 1..Len(c)
               PROVE  c[i] \in Cleaner!ToSet(a) \cup Cleaner!ToSet(b)
    BY <1>1, <1>2
  <2>1. CASE i <= Len(a)
    <3>1. i \in 1..Len(a) /\ c[i] = a[i]
      BY <1>1, <1>2, <2>1
    <3> QED BY <1>2, <3>1
  <2>2. CASE ~(i <= Len(a))
    <3>1. i - Len(a) \in 1..Len(b) /\ c[i] = b[i - Len(a)]
      BY <1>1, <1>2, <2>2
    <3> QED BY <1>2, <3>1
  <2> QED BY <2>1, <2>2
<1>4. Cleaner!ToSet(a) \subseteq Cleaner!ToSet(c)
  <2> SUFFICES ASSUME NEW i \in 1..Len(a) PROVE a[i] \in Cleaner!ToSet(c)
    BY <1>2
  <2>1. i \in 1..Len(c) /\ c[i] = a[i]
    BY <1>1, <1>2
  <2> QED BY <1>1, <1>2, <2>1
<1>5. Cleaner!ToSet(b) \subseteq Cleaner!ToSet(c)
  <2> SUFFICES ASSUME NEW i \in 1..Len(b) PROVE b[i] \in Cleaner!ToSet(c)
    BY <1>2
  <2>1. /\ i + Len(a) \in 1..Len(a) + Len(b) /\ ~(i + Len(a) <= Len(a))
        /\ (i + Len(a)) - Len(a) = i
    BY <1>2
  <2>2. c[i + Len(a)] = b[i] /\ i + Len(a) \in 1..Len(c)
    BY <1>1, <2>1
  <2> QED BY <1>1, <1>2, <2>2
<1>6. c = a \o b
  BY DEF c
<1> QED BY <1>1, <1>3, <1>4, <1>5, <1>6

-----------------------------------------------------------------------------
(* What each strip leaves of a query.                                      *)

LEMMA ParamsThere ==
    \A p \in Cleaner!Singles :
       p = Cleaner!Param(p.key, p.val) /\ p.key # Cleaner!None /\ (~MixedCase => p.key # "Tag")
<1> SUFFICES ASSUME NEW p \in Cleaner!Singles
             PROVE  /\ p = Cleaner!Param(p.key, p.val) /\ p.key # Cleaner!None
                    /\ ~MixedCase => p.key # "Tag"
  OBVIOUS
<1> USE DEF Cleaner!Param, Cleaner!None
<1>1. CASE p \in {Cleaner!Param("tag", v) : v \in {"v1", "v2", ""}}
  <2>1. PICK v \in {"v1", "v2", ""} : p = Cleaner!Param("tag", v)
    BY <1>1
  <2>2. p.key = "tag" /\ p.val = v
    BY <2>1
  <2>3. "tag" # "Tag" /\ "tag" # "none"
    OBVIOUS
  <2> QED BY <2>1, <2>2, <2>3
<1>2. CASE p \in {Cleaner!Param(k, "v1") :
                     k \in {"trk", "cat", "kept", "land", "pair", "plain", "sig"}}
  BY <1>2
<1>3. CASE MixedCase /\ p = Cleaner!Param("Tag", "v2")
  BY <1>3
<1>4. p \in (IF MixedCase THEN {Cleaner!Param("Tag", "v2")} ELSE {})
        => MixedCase /\ p = Cleaner!Param("Tag", "v2")
  OBVIOUS
<1> QED BY <1>1, <1>2, <1>3, <1>4, Zenon DEF Cleaner!Singles

LEMMA KeepingIs ==
    ASSUME NEW q \in QueriesThere, NEW k, NEW kept
    PROVE  /\ Cleaner!Keeping(q, k, kept) \in QueriesThere
           /\ Cleaner!ToSet(Cleaner!Keeping(q, k, kept))
                = {p \in Cleaner!ToSet(q) : p.key = k => p.val \in kept}
<1> DEFINE S == Cleaner!Singles
           A == {p \in S : p.key # k}
           B == {p \in S : p.key = k /\ p.val \in kept}
           a == Cleaner!Among(q, A)
           b == Cleaner!Among(q, B)
<1>1. q \in Seq(S) /\ Len(q) <= 2 /\ Len(q) \in Nat /\ A \cap B = {}
  BY DEF QueriesThere
<1>2. Cleaner!Keeping(q, k, kept) = a \o b
  BY DEF Cleaner!Keeping, Cleaner!Without
<1>3. /\ a \in Seq(S) /\ b \in Seq(S) /\ Cleaner!ToSet(a) = Cleaner!ToSet(q) \cap A
      /\ Cleaner!ToSet(b) = Cleaner!ToSet(q) \cap B
  <2> HIDE DEF S, A, B
  <2> QED BY <1>1, AmongSet
<1>4. Len(a) + Len(b) <= Len(q)
  <2> HIDE DEF S, A, B
  <2> QED BY <1>1, AmongDisjoint
<1>5. Cleaner!ToSet(q) \subseteq S
  BY <1>1 DEF Cleaner!ToSet
<1>6. /\ a \o b \in Seq(S) /\ Len(a \o b) = Len(a) + Len(b)
      /\ Cleaner!ToSet(a \o b) = Cleaner!ToSet(a) \cup Cleaner!ToSet(b)
  <2> HIDE DEF S, a, b
  <2> QED BY <1>3, ConcatSet
<1>7. Cleaner!ToSet(a \o b) = {p \in Cleaner!ToSet(q) : p.key = k => p.val \in kept}
  <2> HIDE DEF S, a, b
  <2> QED BY <1>3, <1>5, <1>6
<1>8. a \o b \in QueriesThere
  <2>1. Len(a) \in Nat /\ Len(b) \in Nat
    BY <1>3
  <2> HIDE DEF a, b
  <2> QED BY <1>1, <1>4, <1>6, <2>1 DEF QueriesThere
<1> QED BY <1>2, <1>7, <1>8, Zenon

\* The spelling found is one of the query's; where a param is spelled one way only it
\* is its name.
LEMMA SpellingIs ==
    ASSUME NEW q \in QueriesThere, NEW k \in {"tag", "land"}
    PROVE  /\ \/ Cleaner!SpellingOf(q, k) = Cleaner!None
              \/ /\ Cleaner!SpellingOf(q, k) \in Cleaner!Keys(q)
                 /\ Cleaner!Lower(Cleaner!SpellingOf(q, k)) = k
           /\ ~MixedCase => Cleaner!SpellingOf(q, k)
                              = IF k \in Cleaner!Keys(q) THEN k ELSE Cleaner!None
<1> DEFINE S == Cleaner!Singles
           some == {p \in S : Cleaner!Lower(p.key) = k}
           found == Cleaner!Among(q, some)
           T == Cleaner!ToSet(q)
<1>1. q \in Seq(S) /\ T \subseteq S
  BY DEF QueriesThere, Cleaner!ToSet
<1>2. /\ found = <<>> <=> T \cap some = {}
      /\ found # <<>> => found[1] \in T \cap some
  <2> HIDE DEF S, some
  <2> QED BY <1>1, AmongSet
<1>3. ~MixedCase => \A p \in S : Cleaner!Lower(p.key) = p.key
  BY ParamsThere DEF Cleaner!Lower
<1>4. Cleaner!SpellingOf(q, k) = IF found = <<>> THEN Cleaner!None ELSE found[1].key
  BY DEF Cleaner!SpellingOf
<1>5. Cleaner!Keys(q) = {p.key : p \in T}
  BY DEF Cleaner!Keys
<1> HIDE DEF S, found, T
<1>6. \/ Cleaner!SpellingOf(q, k) = Cleaner!None
      \/ /\ Cleaner!SpellingOf(q, k) \in Cleaner!Keys(q)
         /\ Cleaner!Lower(Cleaner!SpellingOf(q, k)) = k
  BY <1>2, <1>4, <1>5
<1>7. ~MixedCase => (k \in Cleaner!Keys(q) <=> T \cap some # {})
  BY <1>1, <1>3, <1>5
<1>8. ~MixedCase => Cleaner!SpellingOf(q, k)
                      = IF k \in Cleaner!Keys(q) THEN k ELSE Cleaner!None
  BY <1>1, <1>2, <1>3, <1>4, <1>7
<1> QED BY <1>6, <1>8, Zenon

LEMMA StripIs ==
    ASSUME NEW l, NEW q \in QueriesThere, NEW k \in {"tag", "land"}
    PROVE  /\ Cleaner!StripUnapproved(l, q, k) \in QueriesThere
           /\ Cleaner!ToSet(Cleaner!StripUnapproved(l, q, k)) \subseteq Cleaner!ToSet(q)
           /\ Cleaner!ToSet(Cleaner!StripUnapproved(l, q, k)) = Cleaner!ToSet(q)
                => Cleaner!StripUnapproved(l, q, k) = q
           /\ ~MixedCase =>
                Cleaner!ToSet(Cleaner!StripUnapproved(l, q, k))
                  = {p \in Cleaner!ToSet(q) :
                       p.key = k /\ k \in Cleaner!AffiliateParams(l)
                         => Cleaner!Approved(l, k, p.val)}
<1> DEFINE r == Cleaner!StripUnapproved(l, q, k)
           T == Cleaner!ToSet(q)
           spelled == Cleaner!SpellingOf(q, k)
           values == Cleaner!ValuesOf(q, spelled)
           kept == {v \in values : Cleaner!Approved(l, k, v)}
           strips == k \in Cleaner!AffiliateParams(l) /\ kept # values
<1>1. r = IF strips THEN Cleaner!Keeping(q, spelled, kept) ELSE q
  BY DEF Cleaner!StripUnapproved
<1>2. /\ Cleaner!Keeping(q, spelled, kept) \in QueriesThere
      /\ Cleaner!ToSet(Cleaner!Keeping(q, spelled, kept))
           = {p \in T : p.key = spelled => p.val \in kept}
  BY KeepingIs
<1>3. values = {p.val : p \in {x \in T : x.key = spelled}}
  BY DEF Cleaner!ValuesOf
<1>4. T \subseteq Cleaner!Singles /\ Cleaner!Keys(q) = {p.key : p \in T}
  BY DEF QueriesThere, Cleaner!ToSet, Cleaner!Keys
<1>5. r \in QueriesThere /\ Cleaner!ToSet(r) \subseteq T
  <2> HIDE DEF r, spelled, kept
  <2> QED BY <1>1, <1>2
<1>6. strips => \E p \in T : p.key = spelled /\ p.val \notin kept
  <2> HIDE DEF spelled
  <2> QED BY <1>3
<1>7. Cleaner!ToSet(r) = T => r = q
  <2> HIDE DEF r, spelled, kept, strips, T
  <2> QED BY <1>1, <1>2, <1>6
<1>8. ~MixedCase =>
        Cleaner!ToSet(r) = {p \in T : p.key = k /\ k \in Cleaner!AffiliateParams(l)
                                        => Cleaner!Approved(l, k, p.val)}
  <2> SUFFICES ASSUME ~MixedCase
               PROVE  Cleaner!ToSet(r)
                        = {p \in T : p.key = k /\ k \in Cleaner!AffiliateParams(l)
                                       => Cleaner!Approved(l, k, p.val)}
    OBVIOUS
  <2>1. spelled = IF k \in Cleaner!Keys(q) THEN k ELSE Cleaner!None
    BY SpellingIs
  <2>2. \A p \in T : p.key # Cleaner!None
    BY <1>4, ParamsThere
  <2>3. CASE k \notin Cleaner!Keys(q)
    <3>1. \A p \in T : p.key # k /\ p.key # spelled
      <4> HIDE DEF spelled, T
      <4> QED BY <1>4, <2>1, <2>2, <2>3
    <3>2. values = {} /\ kept = {}
      <4> HIDE DEF spelled, T
      <4> QED BY <1>3, <3>1
    <3>3. r = q
      <4> HIDE DEF r, spelled, T, values, kept
      <4> QED BY <1>1, <3>2
    <3> HIDE DEF T, r
    <3> QED BY <3>1, <3>3 DEF T
  <2>4. CASE k \in Cleaner!Keys(q)
    <3>1. spelled = k
      BY <2>1, <2>4
    <3>2. \A p \in T : p.key = k => (p.val \in kept <=> Cleaner!Approved(l, k, p.val))
      <4> HIDE DEF spelled, T
      <4> QED BY <1>3, <3>1
    <3>3. CASE strips
      <4> HIDE DEF r, spelled, T, kept
      <4> QED BY <1>1, <1>2, <3>1, <3>2, <3>3
    <3>4. CASE ~strips
      <4>1. k \in Cleaner!AffiliateParams(l) =>
              \A p \in T : p.key = k => Cleaner!Approved(l, k, p.val)
        <5>1. \A p \in T : p.key = k => p.val \in values
          <6> HIDE DEF spelled, T
          <6> QED BY <1>3, <3>1
        <5> HIDE DEF spelled, T, values, kept
        <5> QED BY <3>2, <3>4, <5>1
      <4>2. r = q
        BY <1>1, <3>4
      <4>3. Cleaner!ToSet(r) = T
        BY <4>2
      <4> HIDE DEF r, T
      <4> QED BY <4>1, <4>3
    <3> QED BY <3>3, <3>4
  <2> QED BY <2>3, <2>4
<1> HIDE DEF r
<1>9. r = Cleaner!StripUnapproved(l, q, k)
  BY DEF r
<1> QED BY <1>5, <1>7, <1>8, <1>9

LEMMA AffiliatesIs ==
    ASSUME NEW l, NEW q \in QueriesThere
    PROVE  /\ Cleaner!WithoutAffiliates(l, q) \in QueriesThere
           /\ Cleaner!ToSet(Cleaner!WithoutAffiliates(l, q)) \subseteq Cleaner!ToSet(q)
           /\ Cleaner!ToSet(Cleaner!WithoutAffiliates(l, q)) = Cleaner!ToSet(q)
                => Cleaner!WithoutAffiliates(l, q) = q
           /\ ~(linkPrefs.stripAll /\ l.layers = <<>>) => Cleaner!WithoutAffiliates(l, q) = q
           /\ ~MixedCase /\ linkPrefs.stripAll /\ l.layers = <<>> =>
                Cleaner!ToSet(Cleaner!WithoutAffiliates(l, q))
                  = {p \in Cleaner!ToSet(q) :
                       \A k \in Cleaner!AffiliateParams(l) :
                          p.key = k => Cleaner!Approved(l, k, p.val)}
<1> DEFINE one == Cleaner!StripUnapproved(l, q, "tag")
           both == Cleaner!StripUnapproved(l, one, "land")
           r == Cleaner!WithoutAffiliates(l, q)
           T == Cleaner!ToSet(q)
           A == Cleaner!AffiliateParams(l)
<1>1. r = IF linkPrefs.stripAll /\ l.layers = <<>> THEN both ELSE q
  BY DEF Cleaner!WithoutAffiliates
<1>2. /\ one \in QueriesThere /\ Cleaner!ToSet(one) \subseteq T
      /\ Cleaner!ToSet(one) = T => one = q
      /\ ~MixedCase =>
           Cleaner!ToSet(one)
             = {p \in T : p.key = "tag" /\ "tag" \in A => Cleaner!Approved(l, "tag", p.val)}
  BY StripIs
<1>3. /\ both \in QueriesThere /\ Cleaner!ToSet(both) \subseteq Cleaner!ToSet(one)
      /\ Cleaner!ToSet(both) = Cleaner!ToSet(one) => both = one
      /\ ~MixedCase =>
           Cleaner!ToSet(both)
             = {p \in Cleaner!ToSet(one) :
                  p.key = "land" /\ "land" \in A => Cleaner!Approved(l, "land", p.val)}
  <2> HIDE DEF one
  <2> QED BY <1>2, StripIs
<1>4. A \subseteq {"tag", "land"}
  BY DEF Cleaner!AffiliateParams
<1>5. r = Cleaner!WithoutAffiliates(l, q)
  OBVIOUS
<1> HIDE DEF one, both, r, T, A
<1>6. r \in QueriesThere /\ Cleaner!ToSet(r) \subseteq T
  BY <1>1, <1>2, <1>3 DEF T
<1>7. Cleaner!ToSet(r) = T => r = q
  BY <1>1, <1>2, <1>3
<1>8. ~MixedCase /\ linkPrefs.stripAll /\ l.layers = <<>> =>
        Cleaner!ToSet(r) = {p \in T : \A k \in A : p.key = k => Cleaner!Approved(l, k, p.val)}
  <2> SUFFICES ASSUME ~MixedCase, linkPrefs.stripAll, l.layers = <<>>
               PROVE  Cleaner!ToSet(both)
                        = {p \in T : \A k \in A : p.key = k => Cleaner!Approved(l, k, p.val)}
    BY <1>1
  <2>1. \A p : (\A k \in A : p.key = k => Cleaner!Approved(l, k, p.val))
                 <=> /\ p.key = "tag" /\ "tag" \in A => Cleaner!Approved(l, "tag", p.val)
                     /\ p.key = "land" /\ "land" \in A => Cleaner!Approved(l, "land", p.val)
    BY <1>4, Zenon
  <2> QED BY <1>2, <1>3, <2>1
<1> QED BY <1>1, <1>5, <1>6, <1>7, <1>8 DEF T, A

LEMMA BlacklistIs ==
    ASSUME NEW l, NEW q \in QueriesThere
    PROVE  /\ Cleaner!WithoutBlacklisted(l, q) \in QueriesThere
           /\ Cleaner!ToSet(Cleaner!WithoutBlacklisted(l, q)) \subseteq Cleaner!ToSet(q)
           /\ Cleaner!ToSet(Cleaner!WithoutBlacklisted(l, q)) = Cleaner!ToSet(q)
                => Cleaner!WithoutBlacklisted(l, q) = q
           /\ ~Cleaner!IsShop(l) => Cleaner!WithoutBlacklisted(l, q) = q
           /\ Cleaner!WithoutBlacklisted(l, q) # q =>
                \E k \in Cleaner!Keys(q) : Cleaner!Lower(k) = "tag"
           /\ ~MixedCase =>
                Cleaner!ToSet(Cleaner!WithoutBlacklisted(l, q))
                  = {p \in Cleaner!ToSet(q) : p.key = "tag" => ~Cleaner!Blacklisted(l, p.val)}
<1> DEFINE r == Cleaner!WithoutBlacklisted(l, q)
           T == Cleaner!ToSet(q)
           spelled == Cleaner!SpellingOf(q, "tag")
           values == Cleaner!ValuesOf(q, spelled)
           kept == {v \in values : ~Cleaner!Blacklisted(l, v)}
           strips == \E v \in values : Cleaner!Blacklisted(l, v)
<1>1. r = IF strips THEN Cleaner!Keeping(q, spelled, kept) ELSE q
  BY DEF Cleaner!WithoutBlacklisted
<1>2. /\ Cleaner!Keeping(q, spelled, kept) \in QueriesThere
      /\ Cleaner!ToSet(Cleaner!Keeping(q, spelled, kept))
           = {p \in T : p.key = spelled => p.val \in kept}
  BY KeepingIs
<1>3. values = {p.val : p \in {x \in T : x.key = spelled}}
  BY DEF Cleaner!ValuesOf
<1>4. T \subseteq Cleaner!Singles /\ Cleaner!Keys(q) = {p.key : p \in T}
  BY DEF QueriesThere, Cleaner!ToSet, Cleaner!Keys
<1>5. \/ spelled = Cleaner!None
      \/ spelled \in Cleaner!Keys(q) /\ Cleaner!Lower(spelled) = "tag"
  BY SpellingIs
<1>6. ~MixedCase => spelled = IF "tag" \in Cleaner!Keys(q) THEN "tag" ELSE Cleaner!None
  BY SpellingIs
<1>7. r = Cleaner!WithoutBlacklisted(l, q)
  OBVIOUS
<1>8. ~Cleaner!IsShop(l) => ~strips
  BY DEF Cleaner!Blacklisted
<1>9. \A p \in T : p.key # Cleaner!None
  BY <1>4, ParamsThere
<1> HIDE DEF r, T, spelled
<1>10. /\ strips => \E p \in T : p.key = spelled /\ p.val \notin kept
       /\ \A p \in T : p.key = spelled => p.val \in values
       /\ \A p \in T : p.key = spelled => (p.val \in kept <=> ~Cleaner!Blacklisted(l, p.val))
  BY <1>3
<1>11. strips => spelled # Cleaner!None
  BY <1>9, <1>10, Zenon
<1> HIDE DEF values, kept
<1>12. ~strips => \A p \in T : p.key = spelled => ~Cleaner!Blacklisted(l, p.val)
  BY <1>10
<1> HIDE DEF strips
<1>13. r \in QueriesThere /\ Cleaner!ToSet(r) \subseteq T
  BY <1>1, <1>2 DEF T
<1>14. Cleaner!ToSet(r) = T => r = q
  BY <1>1, <1>2, <1>10
<1>15. r # q => \E k \in Cleaner!Keys(q) : Cleaner!Lower(k) = "tag"
  BY <1>1, <1>5, <1>11
<1>16. ~MixedCase =>
         Cleaner!ToSet(r) = {p \in T : p.key = "tag" => ~Cleaner!Blacklisted(l, p.val)}
  <2> SUFFICES ASSUME ~MixedCase
               PROVE  Cleaner!ToSet(r)
                        = {p \in T : p.key = "tag" => ~Cleaner!Blacklisted(l, p.val)}
    OBVIOUS
  <2>1. \A p \in T : p.key = "tag" => spelled = "tag"
    BY <1>4, <1>6
  <2>2. spelled = "tag" \/ spelled = Cleaner!None
    BY <1>6
  <2>3. CASE strips
    <3>1. spelled = "tag"
      BY <1>11, <2>2, <2>3
    <3> QED BY <1>1, <1>2, <1>10, <2>3, <3>1
  <2>4. CASE ~strips
    <3>1. Cleaner!ToSet(r) = T
      BY <1>1, <2>4 DEF T
    <3> QED BY <1>12, <2>1, <2>4, <3>1
  <2> QED BY <2>3, <2>4
<1> QED BY <1>1, <1>7, <1>8, <1>13, <1>14, <1>15, <1>16 DEF T

LEMMA TrackingIs ==
    ASSUME NEW l, l.query \in QueriesThere
    PROVE  /\ Cleaner!WithoutTracking(l) \in QueriesThere
           /\ Cleaner!ToSet(Cleaner!WithoutTracking(l))
                = {p \in Cleaner!ToSet(l.query) : ~Cleaner!TrackingStrips(l, p.key)}
           /\ Cleaner!ToSet(Cleaner!WithoutTracking(l)) = Cleaner!ToSet(l.query)
                => Cleaner!WithoutTracking(l) = l.query
<1> DEFINE S == Cleaner!Singles
           some == {p \in S : ~Cleaner!TrackingStrips(l, p.key)}
           T == Cleaner!ToSet(l.query)
           r == Cleaner!WithoutTracking(l)
<1>1. l.query \in Seq(S) /\ Len(l.query) <= 2 /\ Len(l.query) \in Nat
  BY DEF QueriesThere
<1>2. T \subseteq S
  BY <1>1 DEF Cleaner!ToSet
<1>3. r = Cleaner!Among(l.query, some)
  BY DEF Cleaner!WithoutTracking
<1>4. /\ r \in Seq(S) /\ Len(r) <= Len(l.query) /\ Cleaner!ToSet(r) = T \cap some
      /\ T \subseteq some => r = l.query
  <2> HIDE DEF S, some, r
  <2> QED BY <1>1, <1>3, AmongSet
<1>5. r \in QueriesThere
  <2>1. Len(r) \in Nat
    BY <1>4
  <2> HIDE DEF r
  <2> QED BY <1>1, <1>4, <2>1 DEF QueriesThere
<1>6. r = Cleaner!WithoutTracking(l)
  OBVIOUS
<1> HIDE DEF S, T, r
<1>7. Cleaner!ToSet(r) = {p \in T : ~Cleaner!TrackingStrips(l, p.key)}
  BY <1>2, <1>4
<1>8. Cleaner!ToSet(r) = T => r = l.query
  BY <1>4
<1> QED BY <1>5, <1>6, <1>7, <1>8 DEF T

-----------------------------------------------------------------------------
(* What unwrapping and the path rules leave of a link.                     *)

\* Nothing left to unwrap.
Bare(l) ==
    /\ linkPrefs.unwrap \/ l.layers = <<"amp">> => l.layers = <<>>
    /\ linkPrefs.stripAll /\ l.layers = <<>> => l.path # Referral

LEMMA UnwrappedIs ==
    ASSUME NEW l \in LinksThere
    PROVE  /\ Cleaner!Unwrapped(l) \in LinksThere
           /\ Cleaner!Unwrapped(l).host = l.host /\ Cleaner!Unwrapped(l).query = l.query
           /\ Cleaner!Unwrapped(l).layers \in {<<>>, l.layers}
           /\ l.layers = <<>> => Cleaner!Unwrapped(l).layers = <<>>
           /\ Cleaner!Unwrapped(l).path \in {l.path, <<"page">>}
           /\ Bare(Cleaner!Unwrapped(l))
           /\ Bare(l) => Cleaner!Unwrapped(l) = l
<1> DEFINE peeled == Cleaner!Peeled(l.layers)
           v == [l EXCEPT !.layers = peeled]
           u == Cleaner!Unwrapped(l)
           Moves == /\ linkPrefs.stripAll /\ peeled = <<>>
                    /\ Cleaner!IsCreatorPath(l.path) /\ l.path = Referral
<1>1. /\ l.layers \in LayersThere /\ l.path \in PathsThere /\ l.host \in {"shop", "gateway"}
      /\ l.query \in QueriesThere
      /\ l = [layers |-> l.layers, host |-> l.host, path |-> l.path, query |-> l.query]
  BY DEF LinksThere
<1>2. peeled = IF linkPrefs.unwrap \/ l.layers = <<"amp">> THEN <<>> ELSE l.layers
  BY <1>1, PeeledIs
<1>3. <<>> \in LayersThere /\ <<>> # <<"amp">>
  BY DEF LayersThere
<1>4. /\ Cleaner!IsCreatorPath(l.path) =>
           Cleaner!UnwrapTo(l.path) = IF l.path = Referral THEN <<"page">> ELSE l.path
      /\ l.path = Referral => Cleaner!IsCreatorPath(l.path)
      /\ <<"page">> \in PathsThere /\ <<"page">> # Referral
  BY <1>1, PathsAre
<1> HIDE DEF peeled
<1>5. v = [layers |-> peeled, host |-> l.host, path |-> l.path, query |-> l.query]
  BY <1>1
<1>6. u = IF linkPrefs.stripAll /\ v.layers = <<>> /\ Cleaner!IsCreatorPath(l.path)
          THEN [v EXCEPT !.path = Cleaner!UnwrapTo(l.path)] ELSE v
  BY DEF Cleaner!Unwrapped, peeled
<1>7. u = [layers |-> peeled, host |-> l.host,
           path |-> IF linkPrefs.stripAll /\ peeled = <<>> /\ l.path = Referral
                    THEN <<"page">> ELSE l.path,
           query |-> l.query]
  <2> HIDE DEF u, v
  <2>1. CASE linkPrefs.stripAll /\ peeled = <<>> /\ Cleaner!IsCreatorPath(l.path)
    <3>1. v.layers = <<>>
      BY <1>5, <2>1
    <3>2. u = [v EXCEPT !.path = Cleaner!UnwrapTo(l.path)]
      BY <1>6, <2>1, <3>1, Zenon
    <3>3. Cleaner!UnwrapTo(l.path) = IF l.path = Referral THEN <<"page">> ELSE l.path
      BY <1>4, <2>1, Zenon
    <3>4. u = [layers |-> peeled, host |-> l.host, path |-> Cleaner!UnwrapTo(l.path),
               query |-> l.query]
      BY <1>5, <3>2
    <3> QED BY <2>1, <3>3, <3>4, Zenon
  <2>2. CASE ~(linkPrefs.stripAll /\ peeled = <<>> /\ Cleaner!IsCreatorPath(l.path))
    <3>1. v.layers = peeled
      BY <1>5
    <3>2. u = v
      BY <1>6, <2>2, <3>1, Zenon
    <3>3. ~(linkPrefs.stripAll /\ peeled = <<>> /\ l.path = Referral)
      BY <1>4, <2>2, Zenon
    <3> QED BY <1>5, <3>2, <3>3, Zenon
  <2> QED BY <2>1, <2>2, Zenon
<1>8. u = Cleaner!Unwrapped(l)
  OBVIOUS
<1> HIDE DEF u, v
<1>9. /\ u.layers = peeled /\ u.host = l.host /\ u.query = l.query
      /\ u.path = IF linkPrefs.stripAll /\ peeled = <<>> /\ l.path = Referral
                  THEN <<"page">> ELSE l.path
  BY <1>7
<1>10. peeled \in LayersThere /\ u.path \in PathsThere
  BY <1>1, <1>2, <1>3, <1>4, <1>9, Zenon
<1>11. u \in LinksThere
  BY <1>1, <1>7, <1>9, <1>10 DEF LinksThere
<1>12. Bare(u)
  BY <1>2, <1>3, <1>4, <1>9, Zenon DEF Bare
<1>13. ASSUME Bare(l) PROVE u = l
  <2>1. peeled = l.layers
    BY <1>2, <1>13, Zenon DEF Bare
  <2>2. ~(linkPrefs.stripAll /\ peeled = <<>> /\ l.path = Referral)
    BY <1>13, <2>1, Zenon DEF Bare
  <2>3. u.path = l.path
    BY <1>9, <2>2, Zenon
  <2> QED BY <1>1, <1>7, <1>9, <2>1, <2>3, Zenon
<1>14. /\ peeled \in {<<>>, l.layers} /\ u.path \in {l.path, <<"page">>}
       /\ l.layers = <<>> => peeled = <<>>
  BY <1>2, <1>9, Zenon
<1> QED BY <1>8, <1>9, <1>11, <1>12, <1>13, <1>14, Zenon

LEMMA PathCleanedIs ==
    ASSUME NEW l \in LinksThere
    PROVE  /\ Cleaner!PathCleaned(l) \in LinksThere
           /\ Cleaner!PathCleaned(l).layers = l.layers /\ Cleaner!PathCleaned(l).host = l.host
           /\ Cleaner!PathCleaned(l).query = l.query
           /\ Cleaner!PathCleaned(l).path = Referral <=> l.path = Referral
           /\ Cleaner!PathCleaned(l).path = <<"item">> <=> l.path = <<"item">>
           /\ Cleaner!PathCleaned(l).path = <<"auth">> <=> l.path = <<"auth">>
           /\ Cleaner!PathCleaned(l) # l =>
                Cleaner!PathCleaned(l).path # l.path /\ l.path # <<"page">>
           /\ \A q : ~Localized =>
                LET c == [Cleaner!PathCleaned(l) EXCEPT !.query = q]
                IN  Cleaner!PathCleaned(c) = c
<1> DEFINE c == Cleaner!PathCleaned(l)
           new == IF Cleaner!IsShop(l) THEN Cleaner!PathStripped(l.path) ELSE l.path
<1>1. /\ l.layers \in LayersThere /\ l.path \in PathsThere /\ l.host \in {"shop", "gateway"}
      /\ l.query \in QueriesThere
      /\ l = [layers |-> l.layers, host |-> l.host, path |-> l.path, query |-> l.query]
  BY DEF LinksThere
<1>2. /\ Cleaner!PathStripped(l.path) \in PathsThere
      /\ Cleaner!PathStripped(l.path) = Referral <=> l.path = Referral
      /\ Cleaner!PathStripped(l.path) = <<"item">> <=> l.path = <<"item">>
      /\ Cleaner!PathStripped(l.path) = <<"auth">> <=> l.path = <<"auth">>
      /\ l.path = <<"page">> => Cleaner!PathStripped(l.path) = l.path
      /\ ~Localized => Cleaner!PathStripped(Cleaner!PathStripped(l.path))
                         = Cleaner!PathStripped(l.path)
  BY <1>1, PathsAre
<1>3. c = [layers |-> l.layers, host |-> l.host, path |-> new, query |-> l.query]
  <2>1. c = IF Cleaner!IsShop(l) THEN [l EXCEPT !.path = Cleaner!PathStripped(l.path)] ELSE l
    BY DEF Cleaner!PathCleaned
  <2>2. [l EXCEPT !.path = Cleaner!PathStripped(l.path)]
          = [layers |-> l.layers, host |-> l.host, path |-> Cleaner!PathStripped(l.path),
             query |-> l.query]
    BY <1>1
  <2> HIDE DEF c
  <2> QED BY <1>1, <2>1, <2>2, Zenon
<1>4. c = Cleaner!PathCleaned(l)
  OBVIOUS
<1> HIDE DEF c
<1>5. /\ new \in PathsThere
      /\ new = Referral <=> l.path = Referral
      /\ new = <<"item">> <=> l.path = <<"item">>
      /\ new = <<"auth">> <=> l.path = <<"auth">>
      /\ l.path = <<"page">> => new = l.path
      /\ ~Localized /\ Cleaner!IsShop(l) => Cleaner!PathStripped(new) = new
  BY <1>1, <1>2, Zenon
<1> HIDE DEF new
<1>6. /\ c.layers = l.layers /\ c.host = l.host /\ c.path = new /\ c.query = l.query
      /\ c \in LinksThere
  BY <1>1, <1>3, <1>5 DEF LinksThere
<1>7. c # l => new # l.path
  BY <1>1, <1>3, Zenon
<1>8. ASSUME NEW q, ~Localized
      PROVE  Cleaner!PathCleaned([c EXCEPT !.query = q]) = [c EXCEPT !.query = q]
  <2> DEFINE d == [c EXCEPT !.query = q]
  <2>1. d = [layers |-> l.layers, host |-> l.host, path |-> new, query |-> q]
    BY <1>3
  <2> HIDE DEF d
  <2>2. d.layers = l.layers /\ d.host = l.host /\ d.path = new
    BY <2>1
  <2>3. Cleaner!IsShop(d) <=> Cleaner!IsShop(l)
    BY <2>2, Zenon DEF Cleaner!IsShop
  <2>4. Cleaner!PathCleaned(d)
          = IF Cleaner!IsShop(d) THEN [d EXCEPT !.path = Cleaner!PathStripped(d.path)] ELSE d
    BY DEF Cleaner!PathCleaned
  <2>5. [d EXCEPT !.path = new] = d
    BY <2>1
  <2>6. Cleaner!PathCleaned(d) = d
    <3>1. Cleaner!IsShop(d) => Cleaner!PathStripped(d.path) = new
      BY <1>5, <1>8, <2>2, <2>3, Zenon
    <3> QED BY <2>4, <2>5, <3>1, Zenon
  <2> QED BY <2>6 DEF d
<1>9. c # l => l.path # <<"page">>
  BY <1>5, <1>7, Zenon
<1>10. c.path = Referral <=> l.path = Referral
  BY <1>5, <1>6, Zenon
<1>11. c.path = <<"item">> <=> l.path = <<"item">>
  BY <1>5, <1>6, Zenon
<1>12. c.path = <<"auth">> <=> l.path = <<"auth">>
  BY <1>5, <1>6, Zenon
<1>13. c # l => c.path # l.path
  BY <1>6, <1>7, Zenon
<1> QED BY <1>4, <1>6, <1>8, <1>9, <1>10, <1>11, <1>12, <1>13, Zenon

LEMMA EntryHostIs ==
    ASSUME NEW l \in LinksThere
    PROVE  /\ l.layers = <<>> => Cleaner!EntryHost(l) = l.host
           /\ Bare(l) /\ l.layers # <<>> => Cleaner!EntryHost(l) = "gateway"
<1> DEFINE w == <<"wrapper">>
           wa == <<"wrapper", "amp">>
           ww == <<"wrapper", "wrapper">>
<1>1. l.layers = <<>> => Cleaner!EntryHost(l) = l.host
  BY Zenon DEF Cleaner!EntryHost
<1>2. /\ w # <<>> /\ Head(w) = "wrapper" /\ wa # <<>> /\ Head(wa) = "wrapper"
      /\ ww # <<>> /\ Head(ww) = "wrapper"
  <2>1. Head(w) = w[1] /\ Head(wa) = wa[1] /\ Head(ww) = ww[1]
    OBVIOUS
  <2>2. w # <<>> /\ wa # <<>> /\ ww # <<>>
    OBVIOUS
  <2>3. w[1] = "wrapper" /\ wa[1] = "wrapper" /\ ww[1] = "wrapper"
    OBVIOUS
  <2> QED BY <2>1, <2>2, <2>3
<1>3. l.layers \in {<<>>, w, ww, <<"amp">>, wa}
  BY DEF LinksThere, LayersThere
<1> HIDE DEF w, wa, ww
<1>4. ASSUME Bare(l), l.layers # <<>> PROVE Cleaner!EntryHost(l) = "gateway"
  <2>1. l.layers # <<"amp">>
    BY <1>4, Zenon DEF Bare
  <2>2. l.layers \in {w, ww, wa}
    BY <1>3, <1>4, <2>1, Zenon
  <2>3. l.layers # <<>> /\ Head(l.layers) = "wrapper"
    BY <1>2, <2>2, Zenon
  <2> QED BY <2>3, Zenon DEF Cleaner!EntryHost
<1> QED BY <1>1, <1>4

\* The query after each strip, and what is reported.
Untracked(u) == Cleaner!WithoutTracking(u)
Affiliated(u) == Cleaner!WithoutAffiliates(u, Untracked(u))
Stripped(u) == Cleaner!WithoutBlacklisted(u, Affiliated(u))
Detected(u) == Cleaner!StillDetected(u, Cleaner!Foreign(u, Untracked(u)))

LEMMA StrippedIs ==
    ASSUME NEW u, u.query \in QueriesThere
    PROVE  /\ Untracked(u) \in QueriesThere /\ Affiliated(u) \in QueriesThere
           /\ Stripped(u) \in QueriesThere
           /\ Cleaner!ToSet(Stripped(u)) \subseteq Cleaner!ToSet(Affiliated(u))
           /\ Cleaner!ToSet(Affiliated(u)) \subseteq Cleaner!ToSet(Untracked(u))
           /\ Cleaner!ToSet(Untracked(u)) \subseteq Cleaner!ToSet(u.query)
           /\ Cleaner!ToSet(Untracked(u)) = Cleaner!ToSet(u.query) => Untracked(u) = u.query
           /\ Cleaner!ToSet(Affiliated(u)) = Cleaner!ToSet(Untracked(u))
                => Affiliated(u) = Untracked(u)
           /\ Cleaner!ToSet(Stripped(u)) = Cleaner!ToSet(Affiliated(u))
                => Stripped(u) = Affiliated(u)
<1>1. /\ Untracked(u) \in QueriesThere
      /\ Cleaner!ToSet(Untracked(u)) \subseteq Cleaner!ToSet(u.query)
      /\ Cleaner!ToSet(Untracked(u)) = Cleaner!ToSet(u.query) => Untracked(u) = u.query
  BY TrackingIs DEF Untracked
<1>2. /\ Affiliated(u) \in QueriesThere
      /\ Cleaner!ToSet(Affiliated(u)) \subseteq Cleaner!ToSet(Untracked(u))
      /\ Cleaner!ToSet(Affiliated(u)) = Cleaner!ToSet(Untracked(u)) => Affiliated(u) = Untracked(u)
  BY <1>1, AffiliatesIs DEF Affiliated
<1>3. /\ Stripped(u) \in QueriesThere
      /\ Cleaner!ToSet(Stripped(u)) \subseteq Cleaner!ToSet(Affiliated(u))
      /\ Cleaner!ToSet(Stripped(u)) = Cleaner!ToSet(Affiliated(u)) => Stripped(u) = Affiliated(u)
  BY <1>2, BlacklistIs DEF Stripped
<1> QED BY <1>1, <1>2, <1>3

\* What is counted as removed names different keys of a query of two at most.
LEMMA FewKeys ==
    ASSUME NEW q \in QueriesThere
    PROVE  IsFiniteSet(Cleaner!Keys(q)) /\ Cardinality(Cleaner!Keys(q)) <= 2
<1>1. q \in Seq(Cleaner!Singles) /\ Len(q) \in Nat /\ Len(q) <= 2
  BY DEF QueriesThere
<1> DEFINE a == q[1].key
           b == q[2].key
<1>2. Cleaner!Keys(q) \subseteq {a, b}
  <2>1. Cleaner!ToSet(q) = {q[i] : i \in 1..Len(q)}
    BY <1>1 DEF Cleaner!ToSet
  <2>2. \A i \in 1..Len(q) : i = 1 \/ i = 2
    BY <1>1
  <2>3. Cleaner!Keys(q) = {p.key : p \in Cleaner!ToSet(q)}
    BY DEF Cleaner!Keys
  <2> QED BY <2>1, <2>2, <2>3
<1> HIDE DEF a, b
<1>3. IsFiniteSet({a, b}) /\ Cardinality({a, b}) <= 2
  <2>1. IsFiniteSet({a}) /\ Cardinality({a}) = 1
    BY FS_Singleton
  <2>2. {a, b} = {a} \cup {b}
    OBVIOUS
  <2>3. /\ IsFiniteSet({a} \cup {b})
        /\ Cardinality({a} \cup {b}) = IF b \in {a} THEN Cardinality({a}) ELSE Cardinality({a}) + 1
    BY <2>1, FS_AddElement
  <2> QED BY <2>1, <2>2, <2>3
<1>4. IsFiniteSet(Cleaner!Keys(q)) /\ Cardinality(Cleaner!Keys(q)) <= Cardinality({a, b})
  BY <1>2, <1>3, FS_Subset
<1>5. Cardinality(Cleaner!Keys(q)) \in Nat /\ Cardinality({a, b}) \in Nat
  BY <1>3, <1>4, FS_CardinalityType
<1> QED BY <1>3, <1>4, <1>5

LEMMA JunkIsFew ==
    ASSUME NEW K, IsFiniteSet(K), Cardinality(K) <= 2, NEW R, R \subseteq K,
           NEW land, NEW spelled, spelled # land,
           NEW A, A => land \in K \ R, NEW B, B => spelled \in K \ R
    PROVE  Cleaner!Cardinality(R) + Cleaner!One(A) + Cleaner!One(B) \in 0..2
<1>1. IsFiniteSet(R)
  BY FS_Subset
<1> DEFINE one == IF A THEN R \cup {land} ELSE R
           both == IF B THEN one \cup {spelled} ELSE one
<1>2. IsFiniteSet(one) /\ Cardinality(one) = Cardinality(R) + Cleaner!One(A)
  <2>1. Cardinality(R) \in Nat
    BY <1>1, FS_CardinalityType
  <2>2. CASE A
    BY <1>1, <2>1, <2>2, FS_AddElement DEF Cleaner!One
  <2>3. CASE ~A
    BY <1>1, <2>1, <2>3 DEF Cleaner!One
  <2> QED BY <2>2, <2>3
<1>3. IsFiniteSet(both) /\ Cardinality(both) = Cardinality(one) + Cleaner!One(B)
  <2>1. Cardinality(one) \in Nat
    BY <1>2, FS_CardinalityType
  <2>2. CASE B
    <3>1. spelled \notin one
      BY <2>2
    <3> HIDE DEF one
    <3> QED BY <1>2, <2>1, <2>2, <3>1, FS_AddElement DEF Cleaner!One
  <2>3. CASE ~B
    <3> HIDE DEF one
    <3> QED BY <1>2, <2>1, <2>3 DEF Cleaner!One
  <2> QED BY <2>2, <2>3
<1>4. Cardinality(both) <= Cardinality(K)
  <2>1. both \subseteq K
    OBVIOUS
  <2> HIDE DEF both
  <2> QED BY <2>1, FS_Subset
<1>5. Cardinality(R) \in Nat /\ Cardinality(K) \in Nat
  BY <1>1, FS_CardinalityType
<1>6. Cleaner!One(A) \in {0, 1} /\ Cleaner!One(B) \in {0, 1}
  BY DEF Cleaner!One
<1>7. Cleaner!Cardinality(R) = Cardinality(R)
  BY DEF Cleaner!Cardinality, Cardinality
<1> HIDE DEF one, both
<1> QED BY <1>2, <1>3, <1>4, <1>5, <1>6, <1>7

-----------------------------------------------------------------------------
(* The cleaning of a link: what holds throughout.                          *)

LEMMA LinkInit == RunInit => LinkInv
<1> SUFFICES ASSUME RunInit PROVE LinkInv
  OBVIOUS
<1>1. /\ Cleaner!Param("tag", "v1") \in Cleaner!Singles
      /\ Cleaner!Param("tag", "v2") \in Cleaner!Singles
      /\ Cleaner!Param("trk", "v1") \in Cleaner!Singles
  BY Zenon DEF Cleaner!Singles
<1>2. Cleaner!Queries \subseteq QueriesThere
  <2> DEFINE S == Cleaner!Singles
             one == Cleaner!Param("tag", "v1")
             two == Cleaner!Param("tag", "v2")
             trk == Cleaner!Param("trk", "v1")
             single == {<<p>> : p \in S}
             double == {<<p, q>> : p \in {one, trk}, q \in S}
  <2>1. Cleaner!Queries = {<<>>} \cup single \cup double \cup {<<two, one>>}
    BY DEF Cleaner!Queries
  <2>2. one \in S /\ two \in S /\ trk \in S
    BY <1>1
  <2>3. \A p, q \in S : <<>> \in QueriesThere /\ <<p>> \in QueriesThere
                        /\ <<p, q>> \in QueriesThere
    <3>1. QueriesThere = {q \in Seq(S) : Len(q) <= 2}
      BY DEF QueriesThere
    <3> HIDE DEF S
    <3>2. \A p, q \in S : <<>> \in Seq(S) /\ <<p>> \in Seq(S) /\ <<p, q>> \in Seq(S)
      OBVIOUS
    <3>3. \A p, q \in S : Len(<<>>) = 0 /\ Len(<<p>>) = 1 /\ Len(<<p, q>>) = 2
      OBVIOUS
    <3> QED BY <3>1, <3>2, <3>3
  <2> HIDE DEF S, one, two, trk
  <2>4. single \subseteq QueriesThere
    BY <2>3, Zenon
  <2>5. double \subseteq QueriesThere
    <3> SUFFICES ASSUME NEW x \in double PROVE x \in QueriesThere
      OBVIOUS
    <3>1. PICK p \in {one, trk}, q \in S : x = <<p, q>>
      OBVIOUS
    <3>2. p \in S
      BY <2>2
    <3> HIDE DEF double
    <3> QED BY <2>3, <3>1, <3>2
  <2> HIDE DEF single, double
  <2> QED BY <2>1, <2>2, <2>3, <2>4, <2>5
<1>3. Cleaner!Paths \subseteq PathsThere
  BY DEF Cleaner!Paths, PathsThere
<1>4. Cleaner!Links \subseteq LinksThere
  BY <1>2, <1>3 DEF Cleaner!Links, LinksThere, LayersThere, PathsThere
<1>5. \E l \in Cleaner!Links : TRUE
  <2>1. <<"page">> \in Cleaner!Paths /\ <<>> \in Cleaner!Queries
    <3>1. <<"page">> \in Cleaner!Paths
      BY DEF Cleaner!Paths
    <3>2. <<>> \in Cleaner!Queries
      <4> HIDE DEF Cleaner!Singles
      <4>1. \A A, B, C : <<>> \in {<<>>} \cup A \cup B \cup C
        OBVIOUS
      <4> QED BY <4>1 DEF Cleaner!Queries
    <3> QED BY <3>1, <3>2
  <2>2. [layers |-> <<>>, host |-> "shop", path |-> <<"page">>, query |-> <<>>] \in Cleaner!Links
    BY <2>1 DEF Cleaner!Links
  <2> QED BY <2>2
<1>6. CASE focus = "link"
  <2>1. Cleaner!Init
    BY <1>6, Zenon DEF RunInit
  <2>2. link \in LinksThere /\ passes = 0
    BY <1>4, <2>1 DEF Cleaner!Init
  <2>3. linkPrefs \in PrefsThere
    BY <2>1, Zenon DEF Cleaner!Init, PrefsThere
  <2>4. answer.junk \in 0..3
    BY <2>1 DEF Cleaner!Init, Cleaner!NoAnswer
  <2> QED BY <2>2, <2>3, <2>4, PageAssumption DEF LinkInv
<1>7. CASE focus # "link"
  <2>1. /\ link = CHOOSE l \in Cleaner!Links : TRUE
        /\ linkPrefs = [stripAll |-> FALSE, notify |-> FALSE,
                        unwrap |-> FALSE, white |-> {}, black |-> {}]
        /\ answer = Cleaner!NoAnswer /\ passes = 0
    BY <1>7, Zenon DEF RunInit
  <2>2. link \in LinksThere
    <3>1. link \in Cleaner!Links
      BY <1>5, <2>1, Zenon
    <3> QED BY <1>4, <3>1
  <2>3. linkPrefs \in PrefsThere
    BY <2>1 DEF PrefsThere
  <2>4. answer.junk \in 0..3
    BY <2>1 DEF Cleaner!NoAnswer
  <2> QED BY <2>1, <2>2, <2>3, <2>4, PageAssumption DEF LinkInv
<1> QED BY <1>6, <1>7

\* What a pass that strips does, in the words above.
LEMMA StripsAre ==
    ASSUME Cleaner!Strips
    PROVE  LET u == Cleaner!Unwrapped(link)
           IN  /\ Cleaner!Continues /\ Cleaner!Site(Cleaner!EntryHost(u)) \notin linkPrefs.black
               /\ link' = [Cleaner!PathCleaned(u) EXCEPT !.query = Stripped(u)]
               /\ answer'.action
                    = Cleaner!ActionFor(link, u, Stripped(u), u.query, Detected(u))
               /\ answer'.junk
                    = Cleaner!Cardinality(Cleaner!Keys(u.query) \ Cleaner!Keys(Untracked(u)))
                      + Cleaner!One("land" \in Cleaner!Keys(Untracked(u))
                                                 \ Cleaner!Keys(Affiliated(u)))
                      + Cleaner!One(Stripped(u) # Affiliated(u))
                      + Cleaner!One(Cleaner!PathCleaned(u) # u)
               /\ answer'.detected = Detected(u)
  BY DEF Cleaner!Strips, Cleaner!Answers, Untracked, Affiliated, Stripped, Detected

LEMMA LinkStep ==
    ASSUME LinkInv, Cleaner!Pass
    PROVE  LinkInv'
<1> DEFINE u == Cleaner!Unwrapped(link)
           c == Cleaner!PathCleaned(u)
<1>1. link \in LinksThere /\ linkPrefs \in PrefsThere /\ passes \in 0..MaxPasses
  BY DEF LinkInv
<1>2. u \in LinksThere
  BY <1>1, UnwrappedIs
<1>3. c \in LinksThere
  BY <1>2, PathCleanedIs
<1> HIDE DEF u, c
<1>4. linkPrefs' \in PrefsThere /\ passes' \in 0..MaxPasses
  BY <1>1, PageAssumption DEF Cleaner!Pass
<1>5. \A q \in QueriesThere : [c EXCEPT !.query = q] \in LinksThere
  BY <1>3 DEF LinksThere
<1>6. CASE Cleaner!LeavesAlone \/ Cleaner!HonorsCreator
  <2>1. link' = link /\ answer'.junk = 0
    BY <1>6 DEF Cleaner!LeavesAlone, Cleaner!HonorsCreator, Cleaner!Answers
  <2> QED BY <1>1, <1>4, <2>1 DEF LinkInv
<1>7. CASE Cleaner!StopsAtDestination \/ Cleaner!SparesAuthPath
  <2>1. link' = u /\ answer'.junk = 0
    BY <1>7 DEF Cleaner!StopsAtDestination, Cleaner!SparesAuthPath, Cleaner!Answers, u
  <2> QED BY <1>2, <1>4, <2>1 DEF LinkInv
<1>8. CASE Cleaner!WipesQuery
  <2>1. PICK condition : /\ link' = [c EXCEPT !.query = <<>>]
                         /\ answer'.junk = Len(u.query) + Cleaner!One(condition)
    BY <1>8 DEF Cleaner!WipesQuery, Cleaner!Answers, u, c
  <2>2. <<>> \in QueriesThere
    <3>1. Len(<<>>) = 0 /\ <<>> \in Seq(Cleaner!Singles)
      OBVIOUS
    <3> QED BY <3>1 DEF QueriesThere
  <2>3. u.query \in QueriesThere
    BY <1>2 DEF LinksThere
  <2>4. Len(u.query) \in Nat /\ Len(u.query) <= 2
    BY <2>3 DEF QueriesThere
  <2>5. answer'.junk \in 0..3
    <3>1. Cleaner!One(condition) \in {0, 1}
      BY DEF Cleaner!One
    <3> QED BY <2>1, <2>4, <3>1
  <2>6. link' \in LinksThere
    BY <1>5, <2>1, <2>2
  <2> QED BY <1>4, <2>5, <2>6 DEF LinkInv
<1>9. CASE Cleaner!Strips
  <2> DEFINE K == Cleaner!Keys(u.query)
             T == Cleaner!Keys(Untracked(u))
             A == Cleaner!Keys(Affiliated(u))
  <2>1. /\ link' = [c EXCEPT !.query = Stripped(u)]
        /\ answer'.junk = Cleaner!Cardinality(K \ T) + Cleaner!One("land" \in T \ A)
                          + Cleaner!One(Stripped(u) # Affiliated(u)) + Cleaner!One(c # u)
    BY <1>9, StripsAre DEF u, c
  <2>2. u.query \in QueriesThere
    BY <1>2 DEF LinksThere
  <2>3. /\ Affiliated(u) \in QueriesThere /\ Stripped(u) \in QueriesThere
        /\ Cleaner!ToSet(Affiliated(u)) \subseteq Cleaner!ToSet(Untracked(u))
        /\ Cleaner!ToSet(Untracked(u)) \subseteq Cleaner!ToSet(u.query)
    BY <2>2, StrippedIs
  <2>4. A \subseteq T /\ T \subseteq K
    BY <2>3 DEF Cleaner!Keys
  <2>5. IsFiniteSet(K) /\ Cardinality(K) <= 2
    BY <2>2, FewKeys
  <2>6. PICK spelled : /\ spelled # "land"
                       /\ Stripped(u) # Affiliated(u) => spelled \in A
    <3>1. CASE Stripped(u) # Affiliated(u)
      <4>1. PICK k \in A : Cleaner!Lower(k) = "tag"
        BY <2>3, <3>1, BlacklistIs DEF Stripped
      <4>2. k # "land"
        BY <4>1 DEF Cleaner!Lower
      <4> QED BY <4>1, <4>2
    <3>2. CASE ~(Stripped(u) # Affiliated(u))
      <4>1. "tag" # "land"
        OBVIOUS
      <4> QED BY <3>2, <4>1, Zenon
    <3> QED BY <3>1, <3>2
  <2> HIDE DEF K, T, A
  <2>7. /\ "land" \in T \ A => "land" \in K \ (K \ T)
        /\ Stripped(u) # Affiliated(u) => spelled \in K \ (K \ T)
    BY <2>4, <2>6
  <2>8. Cleaner!Cardinality(K \ T) + Cleaner!One("land" \in T \ A)
          + Cleaner!One(Stripped(u) # Affiliated(u)) \in 0..2
    <3> DEFINE R == K \ T
               landed == "land" \in T \ A
               wiped == Stripped(u) # Affiliated(u)
    <3>1. R \subseteq K /\ (landed => "land" \in K \ R) /\ (wiped => spelled \in K \ R)
      BY <2>7
    <3> HIDE DEF R, landed, wiped
    <3>2. Cleaner!Cardinality(R) + Cleaner!One(landed) + Cleaner!One(wiped) \in 0..2
      BY <2>5, <2>6, <3>1, JunkIsFew
    <3> QED BY <3>2 DEF R, landed, wiped
  <2>9. Cleaner!One(c # u) \in {0, 1}
    BY DEF Cleaner!One
  <2>10. answer'.junk \in 0..3
    BY <2>1, <2>8, <2>9
  <2>11. link' \in LinksThere
    BY <1>5, <2>1, <2>3
  <2> QED BY <1>4, <2>10, <2>11 DEF LinkInv
<1> QED BY <1>6, <1>7, <1>8, <1>9 DEF Cleaner!Pass

LEMMA LinkAlways == RunSpec => []LinkInv
<1>1. RunInit => LinkInv
  BY LinkInit
<1>2. LinkInv /\ [RunNext]_allVars => LinkInv'
  <2> SUFFICES ASSUME LinkInv, [RunNext]_allVars PROVE LinkInv'
    OBVIOUS
  <2>1. CASE Cleaner!Next
    BY <2>1, LinkStep DEF Cleaner!Next
  <2>2. CASE UNCHANGED linkVars
    BY <2>2 DEF LinkInv, linkVars
  <2> QED BY <2>1, <2>2, Zenon DEF RunNext, allVars
<1> QED BY <1>1, <1>2, PTL DEF RunSpec

-----------------------------------------------------------------------------
(* The cleaning of a link: what a pass may do.                             *)

\* A destination that the choke points do not hold has no choke point at all.
LEMMA ChokePoints ==
    ASSUME NEW l \in LinksThere, Bare(l), l.layers = <<>>,
           Cleaner!Site(l.host) \in linkPrefs.white \/ "sig" \in Cleaner!Keys(l.query)
    PROVE  Cleaner!StopsAt(l)
<1>1. Cleaner!EntryHost(l) = l.host
  BY EntryHostIs
<1>2. Cleaner!ToSet(<<>>) = {}
  BY DEF Cleaner!ToSet
<1> QED BY <1>1, <1>2 DEF Cleaner!StopsAt, Cleaner!IsSiteFullyExempt, Cleaner!IsSigned

\* Behind a layer that stays nothing of the query is stripped.
LEMMA BehindLayers ==
    ASSUME NEW u \in LinksThere, u.layers # <<>>
    PROVE  Stripped(u) = u.query
<1>1. ~Cleaner!IsShop(u)
  BY DEF Cleaner!IsShop
<1>2. u.query \in QueriesThere
  BY DEF LinksThere
<1>3. Untracked(u) = u.query
  <2>1. \A k : ~Cleaner!TrackingStrips(u, k)
    BY <1>1 DEF Cleaner!TrackingStrips
  <2>2. Cleaner!ToSet(Untracked(u)) = Cleaner!ToSet(u.query)
    BY <1>2, <2>1, TrackingIs DEF Untracked
  <2> QED BY <1>2, <2>2, TrackingIs DEF Untracked
<1>4. Affiliated(u) = u.query
  BY <1>2, <1>3, AffiliatesIs DEF Affiliated
<1> QED BY <1>1, <1>2, <1>4, BlacklistIs DEF Stripped

LEMMA PassKeepsProtected ==
    ASSUME LinkInv, Cleaner!Pass
    PROVE  Cleaner!ProtectedIsKept
<1> DEFINE u == Cleaner!Unwrapped(link)
           c == Cleaner!PathCleaned(u)
<1> SUFFICES ASSUME Cleaner!Site(link.host) \in linkPrefs.white
                      \/ "sig" \in Cleaner!Keys(link.query)
             PROVE  link'.query = link.query
  BY DEF Cleaner!ProtectedIsKept
<1>1. link \in LinksThere /\ linkPrefs \in PrefsThere
  BY DEF LinkInv
<1>2. u \in LinksThere /\ u.host = link.host /\ u.query = link.query /\ Bare(u)
  BY <1>1, UnwrappedIs
<1>3. CASE Cleaner!LeavesAlone \/ Cleaner!HonorsCreator
  BY <1>3 DEF Cleaner!LeavesAlone, Cleaner!HonorsCreator, Cleaner!Answers
<1>4. CASE Cleaner!StopsAtDestination \/ Cleaner!SparesAuthPath
  <2>1. link' = u
    BY <1>4 DEF Cleaner!StopsAtDestination, Cleaner!SparesAuthPath, Cleaner!Answers
  <2> HIDE DEF u
  <2> QED BY <1>2, <2>1
<1>5. CASE Cleaner!WipesQuery \/ Cleaner!Strips
  <2>1. ~Cleaner!StopsAt(u)
    BY <1>5 DEF Cleaner!WipesQuery, Cleaner!Strips, Cleaner!Continues
  <2>2. u.layers # <<>>
    <3> HIDE DEF u
    <3> QED BY <1>2, <2>1, ChokePoints
  <2>3. Cleaner!EntryHost(u) = "gateway"
    <3> HIDE DEF u
    <3> QED BY <1>2, <2>2, EntryHostIs
  <2>4. Cleaner!Site("gateway") \notin linkPrefs.black
    BY <1>1 DEF PrefsThere, Cleaner!Site, Cleaner!Entry, Cleaner!None
  <2>5. Cleaner!Strips
    BY <1>5, <2>3, <2>4 DEF Cleaner!WipesQuery
  <2>6. link' = [c EXCEPT !.query = Stripped(u)]
    BY <2>5, StripsAre
  <2>7. c \in LinksThere /\ Stripped(u) = u.query
    <3> HIDE DEF u
    <3> QED BY <1>2, <2>2, BehindLayers, PathCleanedIs
  <2>8. link'.query = Stripped(u)
    <3> HIDE DEF u, c
    <3> QED BY <2>6, <2>7 DEF LinksThere
  <2> HIDE DEF u, c
  <2> QED BY <1>2, <2>7, <2>8
<1> QED BY <1>3, <1>4, <1>5 DEF Cleaner!Pass

\* A tag that is reported is one of a shop's, unapproved, and nobody ruled on it.
LEMMA DetectedIs ==
    ASSUME ~MixedCase, NEW u, u.query \in QueriesThere, Detected(u) # Cleaner!None
    PROVE  /\ Cleaner!IsShop(u) /\ ~linkPrefs.stripAll
           /\ ~Cleaner!Blacklisted(u, Detected(u))
           /\ \E p \in Cleaner!ToSet(Untracked(u)) : p.key = "tag" /\ p.val = Detected(u)
<1> DEFINE t == Untracked(u)
           v == Cleaner!Foreign(u, t)
           S == Cleaner!Singles
           spelled == Cleaner!SpellingOf(t, "tag")
           some == {p \in S : /\ p.key = spelled /\ p.val # ""
                              /\ ~Cleaner!Approved(u, "tag", p.val)}
           candidates == Cleaner!Among(t, some)
<1>1. t \in QueriesThere
  BY StrippedIs
<1>2. t \in Seq(S) /\ Cleaner!ToSet(t) \subseteq S
  BY <1>1 DEF QueriesThere, Cleaner!ToSet
<1>3. Detected(u) = IF v # Cleaner!None /\ Cleaner!Blacklisted(u, v) THEN Cleaner!None ELSE v
  BY Zenon DEF Detected, Cleaner!StillDetected
<1>4. v # Cleaner!None =>
        /\ linkPrefs.notify /\ ~linkPrefs.stripAll /\ Cleaner!IsShop(u)
        /\ v = Cleaner!FirstUnapproved(u, t)
  BY Zenon DEF Cleaner!Foreign
<1>5. Cleaner!FirstUnapproved(u, t)
        = IF candidates = <<>> THEN Cleaner!None ELSE candidates[1].val
  BY Zenon DEF Cleaner!FirstUnapproved
<1>6. candidates # <<>> => candidates[1] \in Cleaner!ToSet(t) \cap some
  <2> HIDE DEF S, some
  <2> QED BY <1>2, AmongSet
<1>7. \A p \in some : p.key = spelled
  BY Zenon
<1>8. spelled = IF "tag" \in Cleaner!Keys(t) THEN "tag" ELSE Cleaner!None
  BY <1>1, SpellingIs
<1>9. \A p \in Cleaner!ToSet(t) : p.key # Cleaner!None
  BY <1>2, ParamsThere
<1> HIDE DEF t, v, some, candidates, spelled
<1>10. v = Detected(u) /\ v # Cleaner!None /\ ~Cleaner!Blacklisted(u, v)
  BY <1>3, Zenon
<1>11. candidates # <<>> /\ candidates[1].val = v
  BY <1>4, <1>5, <1>10
<1>12. candidates[1].key = "tag" /\ candidates[1] \in Cleaner!ToSet(t)
  BY <1>6, <1>7, <1>8, <1>9, <1>11
<1> QED BY <1>4, <1>10, <1>11, <1>12 DEF t

LEMMA ShopsAlike ==
    ASSUME NEW l, NEW m, l.layers = m.layers, l.host = m.host
    PROVE  /\ Cleaner!IsShop(l) <=> Cleaner!IsShop(m)
           /\ Cleaner!EntryHost(l) = Cleaner!EntryHost(m)
           /\ Cleaner!AffiliateParams(l) = Cleaner!AffiliateParams(m)
           /\ \A k, v : Cleaner!Approved(l, k, v) <=> Cleaner!Approved(m, k, v)
           /\ \A v : Cleaner!Blacklisted(l, v) <=> Cleaner!Blacklisted(m, v)
<1>1. Cleaner!IsShop(l) <=> Cleaner!IsShop(m)
  BY Zenon DEF Cleaner!IsShop
<1>2. Cleaner!EntryHost(l) = Cleaner!EntryHost(m)
  BY Zenon DEF Cleaner!EntryHost
<1>3. Cleaner!AffiliateParams(l) = Cleaner!AffiliateParams(m)
  BY <1>1, Zenon DEF Cleaner!AffiliateParams
<1>4. \A k, v : Cleaner!Approved(l, k, v) <=> Cleaner!Approved(m, k, v)
  BY <1>1, Zenon DEF Cleaner!Approved
<1>5. \A v : Cleaner!Blacklisted(l, v) <=> Cleaner!Blacklisted(m, v)
  BY <1>1, <1>4, Zenon DEF Cleaner!Blacklisted
<1> QED BY <1>1, <1>2, <1>3, <1>4, <1>5

LEMMA PassKeepsApproved ==
    ASSUME LinkInv, Cleaner!Pass, ~MixedCase
    PROVE  Cleaner!ApprovedIsKept
<1> DEFINE u == Cleaner!Unwrapped(link)
           c == Cleaner!PathCleaned(u)
           mine == Cleaner!Param("tag", "v1")
<1> SUFFICES ASSUME Cleaner!IsShop(link), link.path # <<"item">>,
                    Cleaner!Site("shop") \notin linkPrefs.black,
                    mine \in Cleaner!ToSet(link.query), Cleaner!Approval \in linkPrefs.white
             PROVE  mine \in Cleaner!ToSet(link'.query)
  BY Zenon DEF Cleaner!ApprovedIsKept
<1>0. mine.key = "tag" /\ mine.val = "v1"
  BY DEF Cleaner!Param
<1> HIDE DEF mine
<1>1. link \in LinksThere /\ linkPrefs \in PrefsThere /\ link.layers = <<>> /\ link.host = "shop"
  BY DEF LinkInv, Cleaner!IsShop
<1>2. /\ u \in LinksThere /\ u.host = "shop" /\ u.query = link.query /\ u.layers = <<>>
      /\ u.path \in {link.path, <<"page">>}
  BY <1>1, UnwrappedIs
<1>3. Cleaner!IsShop(u) /\ Cleaner!EntryHost(u) = "shop" /\ u.query \in QueriesThere
  <2> HIDE DEF u
  <2> QED BY <1>2, EntryHostIs DEF Cleaner!IsShop, LinksThere
<1>4. u.path # <<"item">>
  <2>1. <<"page">> # <<"item">>
    OBVIOUS
  <2> HIDE DEF u
  <2> QED BY <1>2, <2>1
<1>5. CASE Cleaner!LeavesAlone \/ Cleaner!HonorsCreator
  BY <1>5 DEF Cleaner!LeavesAlone, Cleaner!HonorsCreator, Cleaner!Answers
<1>6. CASE Cleaner!StopsAtDestination \/ Cleaner!SparesAuthPath
  <2>1. link' = u
    BY <1>6 DEF Cleaner!StopsAtDestination, Cleaner!SparesAuthPath, Cleaner!Answers
  <2> HIDE DEF u
  <2> QED BY <1>2, <2>1
<1>7. CASE Cleaner!WipesQuery
  BY <1>3, <1>7 DEF Cleaner!WipesQuery
<1>8. CASE Cleaner!Strips
  <2>1. link' = [c EXCEPT !.query = Stripped(u)]
    BY <1>8, StripsAre
  <2>2. c \in LinksThere
    <3> HIDE DEF u
    <3> QED BY <1>2, PathCleanedIs
  <2>3. link'.query = Stripped(u)
    <3> HIDE DEF u, c
    <3> QED BY <2>1, <2>2 DEF LinksThere
  <2> HIDE DEF u, c
  <2>4. ~Cleaner!TrackingStrips(u, "tag")
    BY <1>3, <1>4 DEF Cleaner!TrackingStrips, Cleaner!Spared, Cleaner!Lower
  <2>5. Cleaner!Approved(u, "tag", "v1")
    BY <1>3 DEF Cleaner!Approved, Cleaner!IsWhitelisted, Cleaner!Approval, Cleaner!Entry
  <2>6. mine \in Cleaner!ToSet(Untracked(u)) /\ Untracked(u) \in QueriesThere
    BY <1>0, <1>2, <1>3, <2>4, TrackingIs DEF Untracked
  <2>7. mine \in Cleaner!ToSet(Affiliated(u)) /\ Affiliated(u) \in QueriesThere
    <3>1. Affiliated(u) \in QueriesThere
      BY <2>6, AffiliatesIs DEF Affiliated
    <3>2. CASE linkPrefs.stripAll
      <4>1. \A k \in Cleaner!AffiliateParams(u) :
              mine.key = k => Cleaner!Approved(u, k, mine.val)
        BY <1>0, <2>5
      <4> QED BY <1>2, <2>6, <3>1, <3>2, <4>1, AffiliatesIs DEF Affiliated
    <3>3. CASE ~linkPrefs.stripAll
      BY <2>6, <3>1, <3>3, AffiliatesIs DEF Affiliated
    <3> QED BY <3>2, <3>3
  <2>8. ~Cleaner!Blacklisted(u, "v1")
    BY <2>5 DEF Cleaner!Blacklisted
  <2>9. mine \in Cleaner!ToSet(Stripped(u))
    BY <1>0, <2>7, <2>8, BlacklistIs DEF Stripped
  <2> QED BY <2>3, <2>9
<1> QED BY <1>5, <1>6, <1>7, <1>8 DEF Cleaner!Pass

LEMMA PassIsThorough ==
    ASSUME LinkInv, Cleaner!Pass, ~MixedCase
    PROVE  Cleaner!StripAllIsThorough
<1> DEFINE u == Cleaner!Unwrapped(link)
           c == Cleaner!PathCleaned(u)
<1> SUFFICES ASSUME linkPrefs.stripAll, answer'.action \in {"cleaned", "blacklisted"},
                    ~Cleaner!StopsAt(link'), Cleaner!IsShop(link'),
                    NEW p \in Cleaner!ToSet(link'.query),
                    Cleaner!Lower(p.key) \in {"tag", "land"}
             PROVE  Cleaner!Approved(link', Cleaner!Lower(p.key), p.val)
  BY Zenon DEF Cleaner!StripAllIsThorough
<1>1. link \in LinksThere /\ linkPrefs \in PrefsThere
  BY DEF LinkInv
<1>2. u \in LinksThere
  BY <1>1, UnwrappedIs
<1>3. CASE Cleaner!LeavesAlone \/ Cleaner!HonorsCreator \/ Cleaner!SparesAuthPath
  <2>1. answer'.action \in {"untouched", "honored-creator"}
    BY <1>3 DEF Cleaner!LeavesAlone, Cleaner!HonorsCreator, Cleaner!SparesAuthPath,
                Cleaner!Answers
  <2> QED BY <2>1
<1>4. CASE Cleaner!StopsAtDestination
  BY <1>4 DEF Cleaner!StopsAtDestination, Cleaner!Answers
<1>5. CASE Cleaner!WipesQuery
  <2>1. link' = [c EXCEPT !.query = <<>>]
    BY <1>5 DEF Cleaner!WipesQuery, Cleaner!Answers
  <2>2. c \in LinksThere
    <3> HIDE DEF u
    <3> QED BY <1>2, PathCleanedIs
  <2>3. link'.query = <<>>
    <3> HIDE DEF u, c
    <3> QED BY <2>1, <2>2 DEF LinksThere
  <2>4. Cleaner!ToSet(<<>>) = {}
    BY DEF Cleaner!ToSet
  <2> QED BY <2>3, <2>4
<1>6. CASE Cleaner!Strips
  <2>1. link' = [c EXCEPT !.query = Stripped(u)]
    BY <1>6, StripsAre
  <2>2. c \in LinksThere /\ c.layers = u.layers /\ c.host = u.host
    <3> HIDE DEF u
    <3> QED BY <1>2, PathCleanedIs
  <2>3. link'.query = Stripped(u) /\ link'.layers = u.layers /\ link'.host = u.host
    <3> HIDE DEF u, c
    <3> QED BY <2>1, <2>2 DEF LinksThere
  <2> HIDE DEF u, c
  <2>4. u.query \in QueriesThere
    BY <1>2 DEF LinksThere
  <2>5. /\ Cleaner!IsShop(u)
        /\ \A k, v : Cleaner!Approved(u, k, v) => Cleaner!Approved(link', k, v)
    <3>1. Cleaner!IsShop(u)
      BY <2>3 DEF Cleaner!IsShop
    <3>2. Cleaner!IsShop(link')
      OBVIOUS
    <3> QED BY <3>1, <3>2, Zenon DEF Cleaner!Approved
  <2>6. /\ p \in Cleaner!ToSet(Affiliated(u)) /\ p \in Cleaner!ToSet(u.query)
        /\ Untracked(u) \in QueriesThere
    BY <2>3, <2>4, StrippedIs
  <2>7. u.layers = <<>> /\ Cleaner!AffiliateParams(u) = {"tag", "land"}
    BY <2>5 DEF Cleaner!IsShop, Cleaner!AffiliateParams
  <2>8. Cleaner!Lower(p.key) = p.key
    <3>1. p \in Cleaner!Singles
      BY <2>4, <2>6 DEF QueriesThere, Cleaner!ToSet
    <3> QED BY <3>1, ParamsThere DEF Cleaner!Lower
  <2>9. Cleaner!Approved(u, p.key, p.val)
    <3>1. \A k \in Cleaner!AffiliateParams(u) : p.key = k => Cleaner!Approved(u, k, p.val)
      BY <2>6, <2>7, AffiliatesIs DEF Affiliated
    <3> QED BY <2>7, <2>8, <3>1
  <2> QED BY <2>5, <2>8, <2>9
<1> QED BY <1>3, <1>4, <1>5, <1>6 DEF Cleaner!Pass

LEMMA PassAnswersTruly ==
    ASSUME LinkInv, Cleaner!Pass, ~MixedCase
    PROVE  Cleaner!AnswerIsTrue
<1> DEFINE u == Cleaner!Unwrapped(link)
           c == Cleaner!PathCleaned(u)
<1>1. link \in LinksThere /\ linkPrefs \in PrefsThere
  BY DEF LinkInv
<1>2. /\ u \in LinksThere /\ u.query = link.query /\ u.path \in {link.path, <<"page">>}
      /\ u = [layers |-> u.layers, host |-> u.host, path |-> u.path, query |-> u.query]
  <2>1. u \in LinksThere /\ u.query = link.query /\ u.path \in {link.path, <<"page">>}
    BY <1>1, UnwrappedIs
  <2> HIDE DEF u
  <2> QED BY <2>1 DEF LinksThere
<1>3. /\ c \in LinksThere /\ c.layers = u.layers /\ c.host = u.host
      /\ c # u => c.path # u.path /\ u.path # <<"page">>
  <2> HIDE DEF u
  <2> QED BY <1>2, PathCleanedIs
<1>4. u.query \in QueriesThere
  <2> HIDE DEF u
  <2> QED BY <1>2 DEF LinksThere
<1>5. \A q : /\ [c EXCEPT !.query = q].query = q /\ [c EXCEPT !.query = q].path = c.path
             /\ [c EXCEPT !.query = q].layers = u.layers
             /\ [c EXCEPT !.query = q].host = u.host
  <2> HIDE DEF u, c
  <2> QED BY <1>3 DEF LinksThere
<1>6. \A q : [c EXCEPT !.query = q] = link => c = u /\ q = u.query
  <2> HIDE DEF u, c
  <2> QED BY <1>2, <1>3, <1>5, Zenon
<1>7. [u EXCEPT !.query = u.query] = u
  <2> HIDE DEF u
  <2> QED BY <1>2
<1>8. CASE Cleaner!LeavesAlone \/ Cleaner!HonorsCreator
  <2>1. /\ link' = link /\ answer'.detected = Cleaner!None /\ answer'.junk = 0
        /\ answer'.action \in {"untouched", "honored-creator"}
    BY <1>8 DEF Cleaner!LeavesAlone, Cleaner!HonorsCreator, Cleaner!Answers
  <2>2. answer'.action # "cleaned" /\ ~(answer'.junk > 0)
    BY <2>1
  <2> QED BY <2>1, <2>2, Zenon DEF Cleaner!AnswerIsTrue
<1>9. CASE Cleaner!StopsAtDestination
  <2>1. /\ link' = u /\ answer'.detected = Cleaner!None /\ answer'.junk = 0
        /\ answer'.action = "cleaned" /\ Cleaner!StopsAt(u) /\ ~Cleaner!LeftAlone(link)
    BY <1>9 DEF Cleaner!StopsAtDestination, Cleaner!Answers, Cleaner!Proceeds
  <2>2. u # link
    <3> HIDE DEF u
    <3> QED BY <2>1, Zenon DEF Cleaner!StopsAt, Cleaner!LeftAlone
  <2>3. answer'.action # "untouched" /\ ~(answer'.junk > 0)
    BY <2>1
  <2> HIDE DEF u
  <2> QED BY <2>1, <2>2, <2>3, Zenon DEF Cleaner!AnswerIsTrue
<1>10. CASE Cleaner!SparesAuthPath
  <2>1. /\ link' = u /\ answer'.detected = Cleaner!None /\ answer'.junk = 0
        /\ answer'.action = "untouched" /\ Cleaner!IsAuthPath(u)
    BY <1>10 DEF Cleaner!SparesAuthPath, Cleaner!Answers
  <2>2. answer'.action # "cleaned" /\ ~(answer'.junk > 0)
    BY <2>1
  <2>3. Cleaner!IsAuthPath(link')
    <3> HIDE DEF u
    <3> QED BY <2>1
  <2> HIDE DEF u
  <2> QED BY <2>1, <2>2, <2>3, Zenon DEF Cleaner!AnswerIsTrue
<1>11. CASE Cleaner!WipesQuery
  <2>1. /\ link' = [c EXCEPT !.query = <<>>] /\ answer'.detected = Cleaner!None
        /\ answer'.action = "blacklisted"
        /\ answer'.junk = Len(u.query)
                          + Cleaner!One([c EXCEPT !.query = <<>>].path # u.path)
    BY <1>11 DEF Cleaner!WipesQuery, Cleaner!Answers
  <2>2. answer'.action # "cleaned" /\ answer'.action # "untouched"
    BY <2>1
  <2>3. link' = link => ~(answer'.junk > 0)
    <3> HIDE DEF u, c
    <3>1. SUFFICES ASSUME link' = link PROVE answer'.junk = 0
      OBVIOUS
    <3>2. c = u /\ u.query = <<>>
      BY <1>6, <2>1, <3>1
    <3>3. Len(u.query) = 0
      BY <3>2
    <3>4. ~([c EXCEPT !.query = <<>>].path # u.path)
      BY <1>5, <3>2
    <3> QED BY <2>1, <3>3, <3>4 DEF Cleaner!One
  <2> HIDE DEF u, c
  <2> QED BY <2>1, <2>2, <2>3, Zenon DEF Cleaner!AnswerIsTrue
<1>12. CASE Cleaner!Strips
  <2> DEFINE K == Cleaner!Keys(u.query)
             T == Cleaner!Keys(Untracked(u))
             A == Cleaner!Keys(Affiliated(u))
  <2>1. /\ link' = [c EXCEPT !.query = Stripped(u)]
        /\ answer'.detected = Detected(u)
        /\ answer'.action = Cleaner!ActionFor(link, u, Stripped(u), u.query, Detected(u))
        /\ answer'.junk = Cleaner!Cardinality(K \ T) + Cleaner!One("land" \in T \ A)
                          + Cleaner!One(Stripped(u) # Affiliated(u)) + Cleaner!One(c # u)
    BY <1>12, StripsAre
  <2>2. Cleaner!ActionFor(link, u, Stripped(u), u.query, Detected(u))
          = IF Detected(u) # Cleaner!None THEN "detected_foreign"
            ELSE IF u # link \/ Stripped(u) # u.query \/ c # u THEN "cleaned" ELSE "untouched"
    BY DEF Cleaner!ActionFor
  <2> HIDE DEF u, c
  <2>3. link' = link => c = u /\ Stripped(u) = u.query /\ u = link
    <3> SUFFICES ASSUME link' = link PROVE c = u /\ Stripped(u) = u.query /\ u = link
      OBVIOUS
    <3>1. c = u /\ Stripped(u) = u.query
      BY <1>6, <2>1
    <3> QED BY <1>7, <2>1, <3>1
  <2>4. c = u /\ Stripped(u) = u.query /\ u = link => link' = link
    BY <1>7, <2>1
  <2>5. answer'.action = "untouched" => link' = link
    BY <2>1, <2>2, <2>4
  <2>6. answer'.action = "cleaned" => link' # link
    BY <2>1, <2>2, <2>3
  <2>7. link' = link => ~(answer'.junk > 0)
    <3>1. SUFFICES ASSUME c = u, Stripped(u) = u.query PROVE answer'.junk = 0
      BY <2>3
    <3>2. /\ Untracked(u) = u.query /\ Affiliated(u) = u.query
      BY <1>4, <3>1, StrippedIs
    <3>3. K \ T = {} /\ T \ A = {} /\ Stripped(u) = Affiliated(u)
      BY <3>1, <3>2
    <3>4. Cleaner!Cardinality({}) = 0
      BY FS_EmptySet DEF Cleaner!Cardinality, Cardinality
    <3>5. /\ Cleaner!One("land" \in T \ A) = 0 /\ Cleaner!One(Stripped(u) # Affiliated(u)) = 0
          /\ Cleaner!One(c # u) = 0
      <4> HIDE DEF T, A
      <4> QED BY <3>1, <3>3 DEF Cleaner!One
    <3> HIDE DEF K, T, A
    <3> QED BY <2>1, <3>3, <3>4, <3>5
  <2>8. ASSUME Detected(u) # Cleaner!None
        PROVE  /\ Detected(u) \in Cleaner!ValuesOf(link'.query,
                                                   Cleaner!SpellingOf(link'.query, "tag"))
               /\ ~Cleaner!Blacklisted(link', Detected(u))
    <3>1. /\ ~linkPrefs.stripAll /\ ~Cleaner!Blacklisted(u, Detected(u))
          /\ \E p \in Cleaner!ToSet(Untracked(u)) : p.key = "tag" /\ p.val = Detected(u)
      BY <1>4, <2>8, DetectedIs
    <3>2. PICK p \in Cleaner!ToSet(Untracked(u)) : p.key = "tag" /\ p.val = Detected(u)
      BY <3>1
    <3>3. Affiliated(u) = Untracked(u) /\ Affiliated(u) \in QueriesThere
      BY <1>4, <3>1, StrippedIs, AffiliatesIs DEF Affiliated
    <3>4. p \in Cleaner!ToSet(Stripped(u)) /\ Stripped(u) \in QueriesThere
      BY <3>1, <3>2, <3>3, BlacklistIs DEF Stripped
    <3>5. link'.query = Stripped(u) /\ link'.layers = u.layers /\ link'.host = u.host
      BY <1>5, <2>1
    <3>6. "tag" \in Cleaner!Keys(Stripped(u))
      BY <3>2, <3>4 DEF Cleaner!Keys
    <3>7. Cleaner!SpellingOf(Stripped(u), "tag") = "tag"
      BY <3>4, <3>6, SpellingIs
    <3>8. Detected(u) \in Cleaner!ValuesOf(Stripped(u), "tag")
      BY <3>2, <3>4 DEF Cleaner!ValuesOf
    <3>9. ~Cleaner!Blacklisted(link', Detected(u))
      BY <3>1, <3>5, ShopsAlike
    <3> QED BY <3>5, <3>7, <3>8, <3>9
  <2> QED BY <2>1, <2>5, <2>6, <2>7, <2>8, Zenon DEF Cleaner!AnswerIsTrue
<1> QED BY <1>8, <1>9, <1>10, <1>11, <1>12 DEF Cleaner!Pass

\* A link that no pass changes: left alone, honored, or with nothing to strip.
KeptLink(l) ==
    \A p \in Cleaner!ToSet(l.query) :
       /\ ~Cleaner!TrackingStrips(l, p.key)
       /\ linkPrefs.stripAll /\ l.layers = <<>> =>
            \A k \in Cleaner!AffiliateParams(l) : p.key = k => Cleaner!Approved(l, k, p.val)
       /\ p.key = "tag" => ~Cleaner!Blacklisted(l, p.val)

Rests(l) ==
    \/ Cleaner!LeftAlone(l) \/ Cleaner!Honored(l)
    \/ /\ Bare(l)
       /\ \/ Cleaner!IsAuthPath(l)
          \/ /\ Cleaner!PathCleaned(l) = l
             /\ Cleaner!Site(Cleaner!EntryHost(l)) \in linkPrefs.black => l.query = <<>>
             /\ KeptLink(l)

LEMMA KeptIsWhole ==
    ASSUME ~MixedCase, NEW l \in LinksThere, KeptLink(l)
    PROVE  Stripped(l) = l.query
<1>1. l.query \in QueriesThere
  BY DEF LinksThere
<1>2. Untracked(l) = l.query
  <2>1. Cleaner!ToSet(Untracked(l)) = Cleaner!ToSet(l.query)
    BY <1>1, TrackingIs DEF Untracked, KeptLink
  <2> QED BY <1>1, <2>1, StrippedIs
<1>3. Affiliated(l) = l.query
  <2>1. CASE linkPrefs.stripAll /\ l.layers = <<>>
    <3>1. Cleaner!ToSet(Affiliated(l))
            = {p \in Cleaner!ToSet(l.query) :
                 \A k \in Cleaner!AffiliateParams(l) :
                    p.key = k => Cleaner!Approved(l, k, p.val)}
      BY <1>1, <1>2, <2>1, AffiliatesIs DEF Affiliated
    <3>2. Cleaner!ToSet(Affiliated(l)) = Cleaner!ToSet(l.query)
      BY <2>1, <3>1 DEF KeptLink
    <3> QED BY <1>1, <1>2, <3>2, StrippedIs
  <2>2. CASE ~(linkPrefs.stripAll /\ l.layers = <<>>)
    BY <1>1, <1>2, <2>2, AffiliatesIs DEF Affiliated
  <2> QED BY <2>1, <2>2
<1>4. Cleaner!ToSet(Stripped(l)) = Cleaner!ToSet(l.query)
  <2>1. Cleaner!ToSet(Stripped(l))
          = {p \in Cleaner!ToSet(l.query) : p.key = "tag" => ~Cleaner!Blacklisted(l, p.val)}
    BY <1>1, <1>3, BlacklistIs DEF Stripped
  <2> QED BY <2>1 DEF KeptLink
<1> QED BY <1>1, <1>3, <1>4, StrippedIs

\* Whether a link rests is a matter of the link, the preferences and the referrer.
LEMMA RestsAfter ==
    ASSUME linkPrefs' = linkPrefs, referrer' = referrer
    PROVE  Rests(link)' <=> Rests(link')
<1>1. Cleaner!LeftAlone(link)' <=> Cleaner!LeftAlone(link')
  BY Zenon DEF Cleaner!LeftAlone, Cleaner!IsSiteFullyExempt, Cleaner!IsSigned
<1>2. Cleaner!Honored(link)' <=> Cleaner!Honored(link')
  BY Zenon DEF Cleaner!Honored
<1>3. Bare(link)' <=> Bare(link')
  BY Zenon DEF Bare, Referral
<1>4. Cleaner!IsAuthPath(link)' <=> Cleaner!IsAuthPath(link')
  BY Zenon DEF Cleaner!IsAuthPath
<1>5. (Cleaner!PathCleaned(link) = link)' <=> Cleaner!PathCleaned(link') = link'
  BY Zenon DEF Cleaner!PathCleaned
<1>6. (Cleaner!Site(Cleaner!EntryHost(link)) \in linkPrefs.black)'
        <=> Cleaner!Site(Cleaner!EntryHost(link')) \in linkPrefs.black
  BY Zenon DEF Cleaner!Site, Cleaner!Entry, Cleaner!EntryHost
<1>7. KeptLink(link)' <=> KeptLink(link')
  <2>1. \A k : Cleaner!TrackingStrips(link, k)' <=> Cleaner!TrackingStrips(link', k)
    BY Zenon DEF Cleaner!TrackingStrips, Cleaner!Spared, Cleaner!LandingKept,
                 Cleaner!Classified
  <2>2. \A k, v : Cleaner!Approved(link, k, v)' <=> Cleaner!Approved(link', k, v)
    BY Zenon DEF Cleaner!Approved, Cleaner!IsWhitelisted
  <2>3. \A v : Cleaner!Blacklisted(link, v)' <=> Cleaner!Blacklisted(link', v)
    BY <2>2, Zenon DEF Cleaner!Blacklisted
  <2> QED BY <2>1, <2>2, <2>3, Zenon DEF KeptLink
<1> QED BY <1>1, <1>2, <1>3, <1>4, <1>5, <1>6, <1>7, Zenon DEF Rests

LEMMA RestsIdle ==
    ASSUME ~MixedCase, LinkInv, Rests(link), Cleaner!Pass
    PROVE  link' = link
<1> DEFINE u == Cleaner!Unwrapped(link)
           c == Cleaner!PathCleaned(u)
<1>1. link \in LinksThere
  BY DEF LinkInv
<1>2. CASE Cleaner!LeavesAlone \/ Cleaner!HonorsCreator
  BY <1>2 DEF Cleaner!LeavesAlone, Cleaner!HonorsCreator, Cleaner!Answers
<1>3. CASE Cleaner!Proceeds
  <2>1. /\ Bare(link)
        /\ \/ Cleaner!IsAuthPath(link)
           \/ /\ Cleaner!PathCleaned(link) = link
              /\ Cleaner!Site(Cleaner!EntryHost(link)) \in linkPrefs.black => link.query = <<>>
              /\ KeptLink(link)
    BY <1>3, Zenon DEF Rests, Cleaner!Proceeds
  <2>2. u = link
    BY <1>1, <2>1, UnwrappedIs
  <2>3. [link EXCEPT !.query = link.query] = link
    BY <1>1 DEF LinksThere
  <2>4. CASE Cleaner!StopsAtDestination \/ Cleaner!SparesAuthPath
    BY <2>2, <2>4 DEF Cleaner!StopsAtDestination, Cleaner!SparesAuthPath, Cleaner!Answers
  <2>5. CASE Cleaner!WipesQuery
    <3>1. /\ link' = [c EXCEPT !.query = <<>>] /\ ~Cleaner!IsAuthPath(u)
          /\ Cleaner!Site(Cleaner!EntryHost(u)) \in linkPrefs.black
      BY <2>5 DEF Cleaner!WipesQuery, Cleaner!Answers, Cleaner!Continues
    <3> HIDE DEF u
    <3>2. c = link /\ link.query = <<>>
      BY <2>1, <2>2, <3>1
    <3> HIDE DEF c
    <3> QED BY <2>3, <3>1, <3>2
  <2>6. CASE Cleaner!Strips
    <3>1. /\ link' = [c EXCEPT !.query = Stripped(u)] /\ ~Cleaner!IsAuthPath(u)
      BY <2>6, StripsAre DEF Cleaner!Continues
    <3> HIDE DEF u
    <3>2. c = link /\ KeptLink(link)
      BY <2>1, <2>2, <3>1
    <3>3. Stripped(u) = link.query
      BY <1>1, <2>2, <3>2, KeptIsWhole
    <3> HIDE DEF c
    <3> QED BY <2>3, <3>1, <3>2, <3>3
  <2>7. Cleaner!StopsAtDestination \/ Cleaner!SparesAuthPath \/ Cleaner!WipesQuery
          \/ Cleaner!Strips \/ Cleaner!LeavesAlone \/ Cleaner!HonorsCreator
    BY DEF Cleaner!Pass
  <2> QED BY <1>2, <2>4, <2>5, <2>6, <2>7, Zenon
<1>4. \/ Cleaner!LeavesAlone \/ Cleaner!HonorsCreator \/ Cleaner!Proceeds
  BY DEF Cleaner!Pass, Cleaner!StopsAtDestination, Cleaner!SparesAuthPath,
         Cleaner!WipesQuery, Cleaner!Strips, Cleaner!Continues
<1> QED BY <1>2, <1>3, <1>4

\* What a pass leaves, no pass changes.
LEMMA PassRests ==
    ASSUME ~MixedCase, ~Localized, LinkInv, Cleaner!Pass
    PROVE  Rests(link')
<1> DEFINE u == Cleaner!Unwrapped(link)
           c == Cleaner!PathCleaned(u)
<1>1. link \in LinksThere
  BY DEF LinkInv
<1>2. u \in LinksThere /\ Bare(u)
  BY <1>1, UnwrappedIs
<1>3. /\ c \in LinksThere /\ c.layers = u.layers /\ c.host = u.host
      /\ c.path = Referral <=> u.path = Referral
      /\ c.path = <<"item">> <=> u.path = <<"item">>
      /\ \A q : LET d == [c EXCEPT !.query = q] IN Cleaner!PathCleaned(d) = d
  <2> HIDE DEF u
  <2> QED BY <1>2, PathCleanedIs
<1>4. u.query \in QueriesThere
  <2> HIDE DEF u
  <2> QED BY <1>2 DEF LinksThere
<1>5. \A q : /\ [c EXCEPT !.query = q].query = q /\ [c EXCEPT !.query = q].path = c.path
             /\ [c EXCEPT !.query = q].layers = u.layers
             /\ [c EXCEPT !.query = q].host = u.host
             /\ Cleaner!PathCleaned([c EXCEPT !.query = q]) = [c EXCEPT !.query = q]
             /\ Bare([c EXCEPT !.query = q])
  <2> HIDE DEF u, c
  <2> SUFFICES ASSUME NEW q
               PROVE  LET d == [c EXCEPT !.query = q]
                      IN  /\ d.query = q /\ d.path = c.path /\ d.layers = u.layers
                          /\ d.host = u.host /\ Cleaner!PathCleaned(d) = d /\ Bare(d)
    BY Zenon
  <2> DEFINE d == [c EXCEPT !.query = q]
  <2>1. d.query = q /\ d.path = c.path /\ d.layers = u.layers /\ d.host = u.host
    BY <1>3 DEF LinksThere
  <2>2. Cleaner!PathCleaned(d) = d
    BY <1>3
  <2> HIDE DEF d
  <2>3. Bare(d)
    BY <1>2, <1>3, <2>1, Zenon DEF Bare
  <2> QED BY <2>1, <2>2, <2>3 DEF d
<1>6. CASE Cleaner!LeavesAlone
  BY <1>6 DEF Cleaner!LeavesAlone, Cleaner!Answers, Rests
<1>7. CASE Cleaner!HonorsCreator
  BY <1>7 DEF Cleaner!HonorsCreator, Cleaner!Answers, Rests
<1>8. CASE Cleaner!StopsAtDestination
  <2>1. link' = u /\ Cleaner!StopsAt(u)
    BY <1>8 DEF Cleaner!StopsAtDestination, Cleaner!Answers
  <2> HIDE DEF u
  <2> QED BY <2>1, Zenon DEF Rests, Cleaner!StopsAt, Cleaner!LeftAlone
<1>9. CASE Cleaner!SparesAuthPath
  <2>1. link' = u /\ Cleaner!IsAuthPath(u)
    BY <1>9 DEF Cleaner!SparesAuthPath, Cleaner!Answers
  <2> HIDE DEF u
  <2> QED BY <1>2, <2>1, Zenon DEF Rests
<1>10. CASE Cleaner!WipesQuery
  <2>1. link' = [c EXCEPT !.query = <<>>]
    BY <1>10 DEF Cleaner!WipesQuery, Cleaner!Answers
  <2> HIDE DEF u, c
  <2>2. /\ link'.query = <<>> /\ Cleaner!PathCleaned(link') = link' /\ Bare(link')
    BY <1>5, <2>1
  <2>3. Cleaner!ToSet(<<>>) = {}
    BY DEF Cleaner!ToSet
  <2>4. KeptLink(link')
    BY <2>2, <2>3 DEF KeptLink
  <2> QED BY <2>2, <2>4, Zenon DEF Rests
<1>11. CASE Cleaner!Strips
  <2>1. /\ link' = [c EXCEPT !.query = Stripped(u)]
        /\ Cleaner!Site(Cleaner!EntryHost(u)) \notin linkPrefs.black
    BY <1>11, StripsAre
  <2> HIDE DEF u, c
  <2>2. /\ link'.query = Stripped(u) /\ link'.path = c.path /\ link'.layers = u.layers
        /\ link'.host = u.host /\ Cleaner!PathCleaned(link') = link' /\ Bare(link')
    BY <1>5, <2>1
  <2>3. /\ Cleaner!IsShop(link') <=> Cleaner!IsShop(u)
        /\ Cleaner!EntryHost(link') = Cleaner!EntryHost(u)
        /\ Cleaner!AffiliateParams(link') = Cleaner!AffiliateParams(u)
        /\ \A k, v : Cleaner!Approved(link', k, v) <=> Cleaner!Approved(u, k, v)
        /\ \A v : Cleaner!Blacklisted(link', v) <=> Cleaner!Blacklisted(u, v)
    BY <2>2, ShopsAlike
  <2>4. /\ Cleaner!ToSet(Stripped(u)) \subseteq Cleaner!ToSet(Affiliated(u))
        /\ Cleaner!ToSet(Affiliated(u)) \subseteq Cleaner!ToSet(Untracked(u))
        /\ Cleaner!ToSet(Untracked(u)) \subseteq Cleaner!ToSet(u.query)
        /\ Untracked(u) \in QueriesThere /\ Affiliated(u) \in QueriesThere
    BY <1>4, StrippedIs
  <2>5. Cleaner!Keys(link'.query) \subseteq Cleaner!Keys(u.query)
    BY <2>2, <2>4 DEF Cleaner!Keys
  <2>6. \A k : Cleaner!TrackingStrips(link', k) => Cleaner!TrackingStrips(u, k)
    <3>1. \A k : Cleaner!Classified(link', k) => Cleaner!Classified(u, k)
      BY <2>3, <2>5 DEF Cleaner!Classified
    <3>2. \A k : Cleaner!Spared(u, k) => Cleaner!Spared(link', k)
      BY <2>3, Zenon DEF Cleaner!Spared
    <3>3. Cleaner!IsShop(link') /\ link'.path = <<"item">>
            <=> Cleaner!IsShop(u) /\ u.path = <<"item">>
      BY <1>3, <2>2, <2>3, Zenon
    <3> QED BY <2>2, <3>1, <3>2, <3>3, Zenon DEF Cleaner!TrackingStrips
  <2>7. KeptLink(link')
    <3> SUFFICES ASSUME NEW p \in Cleaner!ToSet(Stripped(u))
                 PROVE  /\ ~Cleaner!TrackingStrips(link', p.key)
                        /\ linkPrefs.stripAll /\ link'.layers = <<>> =>
                             \A k \in Cleaner!AffiliateParams(link') :
                                p.key = k => Cleaner!Approved(link', k, p.val)
                        /\ p.key = "tag" => ~Cleaner!Blacklisted(link', p.val)
      BY <2>2, Zenon DEF KeptLink
    <3>1. ~Cleaner!TrackingStrips(u, p.key)
      BY <1>4, <2>4, TrackingIs DEF Untracked
    <3>2. linkPrefs.stripAll /\ u.layers = <<>> =>
            \A k \in Cleaner!AffiliateParams(u) : p.key = k => Cleaner!Approved(u, k, p.val)
      BY <2>4, AffiliatesIs DEF Affiliated
    <3>3. p.key = "tag" => ~Cleaner!Blacklisted(u, p.val)
      BY <2>4, BlacklistIs DEF Stripped
    <3> QED BY <2>2, <2>3, <2>6, <3>1, <3>2, <3>3, Zenon
  <2> QED BY <2>1, <2>2, <2>3, <2>7, Zenon DEF Rests
<1> QED BY <1>6, <1>7, <1>8, <1>9, <1>10, <1>11 DEF Cleaner!Pass

\* What an exempt site and a signed link carry is left to them, whatever stands before
\* them and whatever the preferences.
THEOREM DestinationsAreProtected == RunSpec => ProtectedDestination
<1>1. LinkInv /\ [RunNext]_allVars
        => [focus = "link" => Cleaner!ProtectedIsKept]_linkVars
  <2> SUFFICES ASSUME LinkInv, RunNext, linkVars' # linkVars
               PROVE  Cleaner!ProtectedIsKept
    BY DEF linkVars, allVars
  <2>1. Cleaner!Next
    BY Zenon DEF RunNext
  <2> QED BY <2>1, PassKeepsProtected DEF Cleaner!Next
<1> QED BY <1>1, LinkAlways, PTL DEF RunSpec, ProtectedDestination

\* Approvals are honored, stripping all is thorough and the answer is true, in a query
\* that spells each param in one way.
THEOREM AskedForIsDone ==
    ASSUME ~MixedCase
    PROVE  RunSpec => AffiliatesAsAsked
<1>1. LinkInv /\ [RunNext]_allVars
        => [focus = "link" => /\ Cleaner!ApprovedIsKept
                              /\ Cleaner!StripAllIsThorough
                              /\ Cleaner!AnswerIsTrue]_linkVars
  <2> SUFFICES ASSUME LinkInv, RunNext, linkVars' # linkVars
               PROVE  /\ Cleaner!ApprovedIsKept /\ Cleaner!StripAllIsThorough
                      /\ Cleaner!AnswerIsTrue
    BY DEF linkVars, allVars
  <2>1. Cleaner!Next
    BY Zenon DEF RunNext
  <2> QED
    BY <2>1, PassKeepsApproved, PassIsThorough, PassAnswersTruly DEF Cleaner!Next
<1> QED BY <1>1, LinkAlways, PTL DEF RunSpec, AffiliatesAsAsked

\* A second pass finds nothing to change, where a query spells each param in one way and
\* no path has a storefront's prefix.
THEOREM CleaningSettles ==
    ASSUME ~MixedCase, ~Localized
    PROVE  RunSpec => SecondPassChangesNothing
<1> DEFINE Inv == passes >= 1 => Rests(link)
<1>1. RunInit => Inv
  <2>1. RunInit => passes = 0
    BY DEF RunInit, Cleaner!Init
  <2> QED BY <2>1
<1>2. LinkInv /\ Inv /\ [RunNext]_allVars => Inv'
  <2> SUFFICES ASSUME LinkInv, Inv, [RunNext]_allVars PROVE Inv'
    OBVIOUS
  <2>1. CASE Cleaner!Next
    <3>1. linkPrefs' = linkPrefs /\ referrer' = referrer
      BY <2>1 DEF Cleaner!Next, Cleaner!Pass
    <3>2. Rests(link')
      BY <2>1, PassRests DEF Cleaner!Next
    <3> QED BY <3>1, <3>2, RestsAfter
  <2>2. CASE UNCHANGED linkVars
    <3>1. /\ linkPrefs' = linkPrefs /\ referrer' = referrer /\ link' = link
          /\ passes' = passes
      BY <2>2 DEF linkVars
    <3> QED BY <3>1, RestsAfter
  <2> QED BY <2>1, <2>2, Zenon DEF RunNext, allVars
<1>3. LinkInv /\ Inv /\ [RunNext]_allVars
        => [focus = "link" => Cleaner!SecondPassIsIdle]_linkVars
  <2> SUFFICES ASSUME LinkInv, Inv, RunNext, linkVars' # linkVars
               PROVE  Cleaner!SecondPassIsIdle
    BY DEF linkVars, allVars
  <2>1. Cleaner!Next
    BY Zenon DEF RunNext
  <2> QED BY <2>1, RestsIdle DEF Cleaner!Next, Cleaner!SecondPassIsIdle
<1> QED BY <1>1, <1>2, <1>3, LinkAlways, PTL DEF RunSpec, SecondPassChangesNothing

-----------------------------------------------------------------------------
LEMMA LinkTyped == LinkInv => Cleaner!TypeOK
<1> SUFFICES ASSUME LinkInv PROVE Cleaner!TypeOK
  OBVIOUS
<1>1. /\ link.query \in QueriesThere /\ link.host \in {"shop", "gateway"}
      /\ answer.junk \in 0..3 /\ passes \in 0..MaxPasses
  <2>1. link \in LinksThere /\ answer.junk \in 0..3 /\ passes \in 0..MaxPasses
    BY Zenon DEF LinkInv
  <2> QED BY <2>1 DEF LinksThere
<1>2. link.query \in Seq(Cleaner!Singles)
  BY <1>1, Zenon DEF QueriesThere
<1> QED BY <1>1, <1>2, Zenon DEF Cleaner!TypeOK

\* Whichever component the harness explores, its state is well typed, for any value of
\* the constants.
THEOREM PageTypesHold == RunSpec => []StateTyped
<1>1. RunSpec => []Frequency!TypeOK
  BY FreqAlways, FreqTyped, PTL
<1>2. RunSpec => []Cleaner!TypeOK
  BY LinkAlways, LinkTyped, PTL
<1>3. RunSpec => []TypeOK
  BY LinksOfRun, LinksTypeCorrect, PTL
<1>4. Badge!TypeOK /\ Nudge!TypeOK /\ Frequency!TypeOK /\ Tab!TypeOK /\ Hover!TypeOK
        /\ Cleaner!TypeOK /\ TypeOK => StateTyped
  BY Zenon DEF StateTyped
<1> QED
  BY <1>1, <1>2, <1>3, <1>4, BadgeTyped, NudgeTyped, TabTyped, HoverTyped, PTL
=============================================================================
