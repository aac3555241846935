------------------------ MODULE ListMutationsProofs ------------------------
(***************************************************************************)
(* ListMutations implements AtomicLists wherever a queue orders the edits, *)
(* for any set of entries and users and any number of edits and failures.  *)
(***************************************************************************)
EXTENDS ListMutations, SequenceTheorems, FiniteSetTheorems, TLAPS

-----------------------------------------------------------------------------
(* Sequences, as the lists and the queues use them.                        *)

LEMMA AppendSet ==
    ASSUME NEW S, NEW s \in Seq(S), NEW e \in S
    PROVE  /\ ToSet(Append(s, e)) = ToSet(s) \cup {e}
           /\ IsInjective(s) /\ e \notin ToSet(s) => IsInjective(Append(s, e))
<1>1. /\ Append(s, e) \in Seq(S)
      /\ DOMAIN Append(s, e) = 1..(Len(s) + 1) /\ DOMAIN s = 1..Len(s)
      /\ \A i \in 1..Len(s) : Append(s, e)[i] = s[i]
      /\ Append(s, e)[Len(s) + 1] = e
  BY AppendProperties, LenProperties
<1>2. Len(s) \in Nat
  BY LenProperties
<1>3. ToSet(Append(s, e)) = ToSet(s) \cup {e}
  <2> DEFINE t == Append(s, e)
  <2> HIDE DEF t
  <2>1. DOMAIN t = 1..(Len(s) + 1) /\ t[Len(s) + 1] = e
        /\ \A i \in 1..Len(s) : t[i] = s[i]
    BY <1>1 DEF t
  <2>2. ToSet(t) = ToSet(s) \cup {e}
    BY <2>1, <1>1, <1>2 DEF ToSet
  <2> QED BY <2>2 DEF t
<1>4. ASSUME IsInjective(s), e \notin ToSet(s)
      PROVE  IsInjective(Append(s, e))
  BY <1>1, <1>2, <1>4 DEF IsInjective, ToSet
<1> QED BY <1>3, <1>4

LEMMA RemoveAtIs ==
    ASSUME NEW S, NEW s \in Seq(S), NEW i \in 1..Len(s)
    PROVE  /\ RemoveAt(s, i) \in Seq(S)
           /\ Len(RemoveAt(s, i)) = Len(s) - 1
           /\ \A j \in 1..(Len(s) - 1) :
                RemoveAt(s, i)[j] = IF j < i THEN s[j] ELSE s[j + 1]
<1> DEFINE a == SubSeq(s, 1, i - 1)
           b == SubSeq(s, i + 1, Len(s))
<1>1. Len(s) \in Nat /\ \A j \in 1..Len(s) : s[j] \in S
  BY LenProperties, ElementOfSeq
<1>2. /\ a \in Seq(S) /\ Len(a) = i - 1
      /\ \A j \in 1..(i - 1) : a[j] = s[j]
  <2>1. 1 \in Int /\ i - 1 \in Int /\ \A j \in 1..(i - 1) : s[j] \in S
    BY <1>1
  <2> QED BY <1>1, <2>1, SubSeqProperties
<1>3. /\ b \in Seq(S) /\ Len(b) = Len(s) - i
      /\ \A j \in 1..(Len(s) - i) : b[j] = s[i + j]
  <2>1. i + 1 \in Int /\ Len(s) \in Int /\ \A j \in (i + 1)..Len(s) : s[j] \in S
    BY <1>1
  <2> QED BY <1>1, <2>1, SubSeqProperties
<1> HIDE DEF a, b
<1>4. /\ a \o b \in Seq(S) /\ Len(a \o b) = Len(a) + Len(b)
      /\ \A j \in 1..(Len(a) + Len(b)) :
            (a \o b)[j] = IF j <= Len(a) THEN a[j] ELSE b[j - Len(a)]
  BY <1>2, <1>3, ConcatProperties
<1>5. RemoveAt(s, i) = a \o b
  BY DEF RemoveAt, a, b
<1>6. \A j \in 1..(Len(s) - 1) : (a \o b)[j] = IF j < i THEN s[j] ELSE s[j + 1]
  <2> TAKE j \in 1..(Len(s) - 1)
  <2>1. CASE j < i
    BY <1>1, <1>2, <1>3, <1>4, <2>1
  <2>2. CASE ~(j < i)
    <3>1. (a \o b)[j] = b[j - (i - 1)]
      BY <1>1, <1>2, <1>3, <1>4, <2>2
    <3>2. j - (i - 1) \in 1..(Len(s) - i)
      BY <1>1, <2>2
    <3>3. b[j - (i - 1)] = s[i + (j - (i - 1))]
      BY <1>3, <3>2
    <3>4. i + (j - (i - 1)) = j + 1
      BY <1>1
    <3> QED BY <2>2, <3>1, <3>3, <3>4
  <2> QED BY <2>1, <2>2
<1>7. Len(a \o b) = Len(s) - 1
  BY <1>1, <1>2, <1>3, <1>4
<1> QED BY <1>4, <1>5, <1>6, <1>7

LEMMA RemoveAtSet ==
    ASSUME NEW S, NEW s \in Seq(S), NEW i \in 1..Len(s), IsInjective(s)
    PROVE  /\ IsInjective(RemoveAt(s, i))
           /\ ToSet(RemoveAt(s, i)) = ToSet(s) \ {s[i]}
<1> DEFINE t == RemoveAt(s, i)
<1>1. /\ t \in Seq(S) /\ Len(t) = Len(s) - 1
      /\ \A j \in 1..(Len(s) - 1) : t[j] = IF j < i THEN s[j] ELSE s[j + 1]
  BY RemoveAtIs
<1>2. Len(s) \in Nat /\ DOMAIN s = 1..Len(s) /\ DOMAIN t = 1..(Len(s) - 1)
  BY <1>1, LenProperties
<1> HIDE DEF t
<1>3. IsInjective(t)
  <2>1. \A j, k \in 1..Len(s) : s[j] = s[k] => j = k
    BY <1>2 DEF IsInjective
  <2> SUFFICES ASSUME NEW j \in 1..(Len(s) - 1), NEW k \in 1..(Len(s) - 1), t[j] = t[k]
               PROVE  j = k
    BY <1>2 DEF IsInjective
  <2> DEFINE J == IF j < i THEN j ELSE j + 1
             K == IF k < i THEN k ELSE k + 1
  <2>2. t[j] = s[J] /\ t[k] = s[K] /\ J \in 1..Len(s) /\ K \in 1..Len(s)
    BY <1>1, <1>2
  <2>3. J = K
    BY <2>1, <2>2
  <2> QED BY <2>3
<1>4. ToSet(t) \subseteq ToSet(s) \ {s[i]}
  <2> SUFFICES ASSUME NEW j \in 1..(Len(s) - 1)
               PROVE  t[j] \in ToSet(s) \ {s[i]}
    BY <1>2 DEF ToSet
  <2> DEFINE J == IF j < i THEN j ELSE j + 1
  <2>1. t[j] = s[J] /\ J \in 1..Len(s) /\ J # i
    BY <1>1, <1>2
  <2> QED BY <1>2, <2>1 DEF ToSet, IsInjective
<1>5. ToSet(s) \ {s[i]} \subseteq ToSet(t)
  <2> SUFFICES ASSUME NEW j \in 1..Len(s), j # i
               PROVE  s[j] \in ToSet(t)
    BY <1>2 DEF ToSet
  <2> DEFINE J == IF j < i THEN j ELSE j - 1
  <2>1. J \in 1..(Len(s) - 1) /\ t[J] = s[j]
    BY <1>1, <1>2
  <2> QED BY <1>2, <2>1 DEF ToSet
<1> QED BY <1>3, <1>4, <1>5 DEF t

LEMMA HeadRemoved ==
    ASSUME NEW S, NEW s \in Seq(S), s # <<>>
    PROVE  RemoveAt(s, 1) = Tail(s)
<1> DEFINE r == RemoveAt(s, 1)
           t == Tail(s)
<1>1. Len(s) \in Nat /\ 1 \in 1..Len(s)
  BY EmptySeq, LenProperties
<1>2. /\ r \in Seq(S) /\ Len(r) = Len(s) - 1
      /\ \A j \in 1..(Len(s) - 1) : r[j] = s[j + 1]
  BY <1>1, RemoveAtIs
<1>3. /\ t \in Seq(S) /\ Len(t) = Len(s) - 1
      /\ \A j \in 1..(Len(s) - 1) : t[j] = s[j + 1]
  BY HeadTailProperties
<1> HIDE DEF r, t
<1>4. r = t
  BY <1>2, <1>3, SeqEqual
<1> QED BY <1>4 DEF r, t

LEMMA ConcatSet ==
    ASSUME NEW S, NEW s \in Seq(S), NEW t \in Seq(S)
    PROVE  /\ ToSet(s \o t) = ToSet(s) \cup ToSet(t)
           /\ IsInjective(s) /\ IsInjective(t) /\ ToSet(s) \cap ToSet(t) = {}
                => IsInjective(s \o t)
<1> DEFINE u == s \o t
<1>1. /\ DOMAIN u = 1..(Len(s) + Len(t))
      /\ \A i \in 1..(Len(s) + Len(t)) :
            u[i] = IF i <= Len(s) THEN s[i] ELSE t[i - Len(s)]
  BY ConcatProperties, LenProperties
<1>2. Len(s) \in Nat /\ Len(t) \in Nat /\ DOMAIN s = 1..Len(s) /\ DOMAIN t = 1..Len(t)
  BY LenProperties
<1> HIDE DEF u
<1>3. \A i \in 1..Len(s) : i \in DOMAIN u /\ u[i] = s[i]
  BY <1>1, <1>2
<1>4. \A i \in 1..Len(t) : Len(s) + i \in DOMAIN u /\ u[Len(s) + i] = t[i]
  BY <1>1, <1>2
<1>5. \A i \in DOMAIN u : \/ i \in 1..Len(s) /\ u[i] = s[i]
                          \/ i - Len(s) \in 1..Len(t) /\ u[i] = t[i - Len(s)]
  BY <1>1, <1>2
<1>6. ToSet(u) = ToSet(s) \cup ToSet(t)
  <2>1. ToSet(s) \subseteq ToSet(u)
    BY <1>2, <1>3 DEF ToSet
  <2>2. ToSet(t) \subseteq ToSet(u)
    BY <1>2, <1>4 DEF ToSet
  <2>3. ToSet(u) \subseteq ToSet(s) \cup ToSet(t)
    BY <1>2, <1>5 DEF ToSet
  <2> QED BY <2>1, <2>2, <2>3
<1>7. ASSUME IsInjective(s), IsInjective(t), ToSet(s) \cap ToSet(t) = {}
      PROVE  IsInjective(u)
  <2> SUFFICES ASSUME NEW i \in DOMAIN u, NEW j \in DOMAIN u, u[i] = u[j]
               PROVE  i = j
    BY DEF IsInjective
  <2>1. CASE i \in 1..Len(s) /\ j \in 1..Len(s)
    BY <1>2, <1>3, <1>7, <2>1 DEF IsInjective
  <2>2. CASE i - Len(s) \in 1..Len(t) /\ j - Len(s) \in 1..Len(t)
    <3>1. u[i] = t[i - Len(s)] /\ u[j] = t[j - Len(s)]
      BY <1>1, <1>2, <2>2
    <3>2. i - Len(s) = j - Len(s)
      BY <1>2, <1>7, <2>2, <3>1 DEF IsInjective
    <3> QED BY <1>1, <1>2, <3>2
  <2>3. CASE i \in 1..Len(s) /\ j - Len(s) \in 1..Len(t)
    <3>1. u[i] = s[i] /\ u[j] = t[j - Len(s)]
      BY <1>1, <1>2, <2>3
    <3> QED BY <1>2, <1>7, <2>3, <3>1 DEF ToSet
  <2>4. CASE i - Len(s) \in 1..Len(t) /\ j \in 1..Len(s)
    <3>1. u[j] = s[j] /\ u[i] = t[i - Len(s)]
      BY <1>1, <1>2, <2>4
    <3> QED BY <1>2, <1>7, <2>4, <3>1 DEF ToSet
  <2> QED BY <1>5, <2>1, <2>2, <2>3, <2>4
<1> QED BY <1>6, <1>7 DEF u

\* A finite set has a sequence, which SetToSeq then is.
LEMMA SeqOfSet ==
    ASSUME NEW S, IsFiniteSet(S)
    PROVE  /\ SetToSeq(S) \in Seq(S)
           /\ IsInjective(SetToSeq(S))
           /\ ToSet(SetToSeq(S)) = S
<1> DEFINE n == Cardinality(S)
           Good(f) == f \in [1..n -> S] /\ IsInjective(f)
<1>1. n \in Nat /\ ExistsBijection(1..n, S)
  BY FS_CardinalityType
<1>2. PICK g : g \in Bijection(1..n, S)
  BY <1>1 DEF ExistsBijection
<1>3. Good(g)
  BY <1>2, Zenon DEF Bijection, Injection, IsInjective
<1>4. Good(SetToSeq(S))
  BY <1>3 DEF SetToSeq
<1>5. SetToSeq(S) \in Seq(S)
  BY <1>1, <1>4
<1>6. SetToSeq(S) \in Surjection(1..n, S)
  <2>1. SetToSeq(S) \in Injection(1..n, S)
    BY <1>4 DEF Injection
  <2>2. Cardinality(1..n) = n
    BY <1>1, FS_Interval
  <2> QED BY <2>1, <2>2, FS_Injection
<1>7. ToSet(SetToSeq(S)) = S
  BY <1>4, <1>6 DEF Surjection, ToSet
<1> QED BY <1>4, <1>5, <1>7

\* Pausing and unpausing a site: one entry comes or goes.
LEMMA ToggledIs ==
    ASSUME NEW l \in Seq(Entry), NEW e \in Entry, IsInjective(l)
    PROVE  /\ Toggled(l, e) \in Seq(Entry) /\ IsInjective(Toggled(l, e))
           /\ ToSet(Toggled(l, e)) =
                IF e \in ToSet(l) THEN ToSet(l) \ {e} ELSE ToSet(l) \cup {e}
<1>1. CASE e \in ToSet(l)
  <2>1. Place(l, e) \in DOMAIN l /\ l[Place(l, e)] = e
    BY <1>1 DEF ToSet, Place
  <2>2. Place(l, e) \in 1..Len(l)
    BY <2>1, LenProperties
  <2> QED BY <1>1, <2>1, <2>2, RemoveAtIs, RemoveAtSet DEF Toggled
<1>2. CASE e \notin ToSet(l)
  BY <1>2, AppendSet, AppendProperties DEF Toggled
<1> QED BY <1>1, <1>2

-----------------------------------------------------------------------------
(* The two queues.                                                         *)

\* The tasks of one queue: only the first has read, each edit is there once, and
\* has a number below the next one to be given out.
QueueOK(q, kinds, next) ==
    /\ q \in Seq(TaskType)
    /\ \A i \in DOMAIN q :
        /\ q[i].edit.kind \in kinds /\ q[i].edit.id < next
        /\ IsInjective(q[i].seen) /\ IsFiniteSet(q[i].seenLegacy)
        /\ q[i].pc = "writing" => i = 1
        /\ q[i].edit.kind = "remove" => q[i].row # 0
    /\ \A i, j \in DOMAIN q : q[i].edit.id = q[j].edit.id => i = j

Fresh(t, kinds, id) ==
    /\ t \in TaskType /\ t.edit.kind \in kinds /\ t.edit.id = id
    /\ t.pc = "reading" /\ t.seen = <<>> /\ t.seenLegacy = {}
    /\ t.edit.kind = "remove" => t.row # 0

LEMMA Queued ==
    ASSUME NEW q, NEW kinds, NEW next \in Nat, QueueOK(q, kinds, next),
           NEW t, Fresh(t, kinds, next)
    PROVE  /\ QueueOK(Append(q, t), kinds, next + 1)
           /\ EditsOf(Append(q, t)) = EditsOf(q) \cup {t.edit}
           /\ Len(Append(q, t)) = Len(q) + 1 /\ Len(q) \in Nat
           /\ Append(q, t)[Len(q) + 1] = t
           /\ \A i \in 1..Len(q) : Append(q, t)[i] = q[i]
<1> DEFINE r == Append(q, t)
<1>1. q \in Seq(TaskType) /\ t \in TaskType
  BY DEF QueueOK, Fresh
<1>2. /\ r \in Seq(TaskType) /\ Len(r) = Len(q) + 1 /\ Len(q) \in Nat
      /\ DOMAIN r = 1..(Len(q) + 1) /\ DOMAIN q = 1..Len(q)
      /\ \A i \in 1..Len(q) : r[i] = q[i]
      /\ r[Len(q) + 1] = t
  BY <1>1, AppendProperties, LenProperties
<1> HIDE DEF r
<1>3. EditsOf(r) = EditsOf(q) \cup {t.edit}
  BY <1>2 DEF EditsOf
<1>4. IsInjective(<<>>) /\ IsFiniteSet({})
  BY FS_EmptySet DEF IsInjective
<1>5. \A i \in DOMAIN q : q[i].edit.id \in Nat
  <2> SUFFICES ASSUME NEW i \in DOMAIN q PROVE q[i].edit.id \in Nat
    OBVIOUS
  <2>1. q[i] \in TaskType
    BY <1>1, <1>2, ElementOfSeq
  <2> QED BY <2>1 DEF TaskType, Edit
<1>6. \A i \in DOMAIN r :
        /\ r[i].edit.kind \in kinds /\ r[i].edit.id < next + 1
        /\ IsInjective(r[i].seen) /\ IsFiniteSet(r[i].seenLegacy)
        /\ r[i].pc = "writing" => i = 1
        /\ r[i].edit.kind = "remove" => r[i].row # 0
  <2> TAKE i \in DOMAIN r
  <2>1. CASE i = Len(q) + 1
    <3>1. t.edit.kind \in kinds /\ t.edit.id < next + 1
          /\ t.pc # "writing" /\ (t.edit.kind = "remove" => t.row # 0)
      BY DEF Fresh
    <3>2. IsInjective(t.seen) /\ IsFiniteSet(t.seenLegacy)
      BY <1>4 DEF Fresh
    <3>3. r[i] = t
      BY <1>2, <2>1
    <3> QED BY <3>1, <3>2, <3>3
  <2>2. CASE i \in 1..Len(q)
    BY <1>2, <1>5, <2>2 DEF QueueOK
  <2> QED BY <1>2, <2>1, <2>2
<1>7. \A i, j \in DOMAIN r : r[i].edit.id = r[j].edit.id => i = j
  BY <1>2, <1>5 DEF QueueOK, Fresh
<1>8. QueueOK(r, kinds, next + 1)
  BY <1>2, <1>6, <1>7 DEF QueueOK
<1> QED BY <1>2, <1>3, <1>8 DEF r

LEMMA Dequeued ==
    ASSUME NEW q, NEW kinds, NEW next, QueueOK(q, kinds, next), q # <<>>
    PROVE  /\ QueueOK(Tail(q), kinds, next)
           /\ EditsOf(Tail(q)) = EditsOf(q) \ {q[1].edit}
           /\ \A i \in DOMAIN Tail(q) : i + 1 \in DOMAIN q /\ Tail(q)[i] = q[i + 1]
                                        /\ Tail(q)[i].pc # "writing"
<1> DEFINE r == Tail(q)
<1>1. q \in Seq(TaskType)
  BY DEF QueueOK
<1>2. /\ r \in Seq(TaskType) /\ Len(q) \in Nat /\ Len(q) # 0
      /\ DOMAIN r = 1..(Len(q) - 1) /\ DOMAIN q = 1..Len(q)
      /\ \A i \in 1..(Len(q) - 1) : r[i] = q[i + 1]
  BY <1>1, HeadTailProperties, LenProperties, EmptySeq
<1> HIDE DEF r
<1>3. \A i \in DOMAIN r : i + 1 \in DOMAIN q /\ r[i] = q[i + 1] /\ i + 1 # 1
  BY <1>2
<1>4. EditsOf(r) = EditsOf(q) \ {q[1].edit}
  <2>1. ASSUME NEW i \in DOMAIN r
        PROVE  r[i].edit \in EditsOf(q) \ {q[1].edit}
    <3>1. q[i + 1].edit \in EditsOf(q)
      BY <1>3 DEF EditsOf
    <3>2. q[i + 1].edit # q[1].edit
      BY <1>2, <1>3 DEF QueueOK
    <3> QED BY <1>3, <3>1, <3>2
  <2>2. ASSUME NEW i \in DOMAIN q, i # 1
        PROVE  q[i].edit \in EditsOf(r)
    <3>1. i - 1 \in DOMAIN r /\ r[i - 1] = q[i]
      BY <1>2, <2>2
    <3> QED BY <3>1 DEF EditsOf
  <2> QED BY <2>1, <2>2 DEF EditsOf
<1>5. \A i \in DOMAIN r : r[i].pc # "writing"
  BY <1>3 DEF QueueOK
<1>6. \A i, j \in DOMAIN r : r[i].edit.id = r[j].edit.id => i = j
  BY <1>2, <1>3 DEF QueueOK
<1>7. QueueOK(r, kinds, next)
  BY <1>2, <1>3, <1>5, <1>6 DEF QueueOK
<1> QED BY <1>3, <1>4, <1>5, <1>7 DEF r

\* The first task reads, and is otherwise what it was.
LEMMA HeadReads ==
    ASSUME NEW q, NEW kinds, NEW next, QueueOK(q, kinds, next), q # <<>>,
           NEW t \in TaskType, t.edit = q[1].edit, t.row = q[1].row,
           IsInjective(t.seen), IsFiniteSet(t.seenLegacy)
    PROVE  /\ QueueOK([q EXCEPT ![1] = t], kinds, next)
           /\ EditsOf([q EXCEPT ![1] = t]) = EditsOf(q)
           /\ 1 \in DOMAIN q
<1> DEFINE r == [q EXCEPT ![1] = t]
<1>1. q \in Seq(TaskType) /\ 1 \in 1..Len(q)
  BY EmptySeq DEF QueueOK
<1>4. /\ r \in Seq(TaskType) /\ DOMAIN r = DOMAIN q /\ 1 \in DOMAIN q
      /\ \A i \in DOMAIN q : r[i] = IF i = 1 THEN t ELSE q[i]
  BY <1>1, ExceptSeq, LenProperties
<1> HIDE DEF r
<1>5. \A i \in DOMAIN q : r[i].edit = q[i].edit /\ r[i].row = q[i].row
  BY <1>4
<1>6. EditsOf(r) = EditsOf(q)
  BY <1>4, <1>5 DEF EditsOf
<1>7. \A i \in DOMAIN r :
        /\ r[i].edit.kind \in kinds /\ r[i].edit.id < next
        /\ IsInjective(r[i].seen) /\ IsFiniteSet(r[i].seenLegacy)
        /\ r[i].pc = "writing" => i = 1
        /\ r[i].edit.kind = "remove" => r[i].row # 0
  BY <1>4, <1>5 DEF QueueOK
<1>8. QueueOK(r, kinds, next)
  BY <1>4, <1>5, <1>7 DEF QueueOK
<1> QED BY <1>4, <1>6, <1>8 DEF r

-----------------------------------------------------------------------------
(* The invariant.                                                          *)

ListsInv ==
    /\ list \in Seq(Entry) /\ IsInjective(list)
    /\ popup \in Seq(Entry) /\ IsInjective(popup)
    /\ rendered \in Seq(Entry)
    /\ legacy \subseteq Entry /\ IsFiniteSet(legacy)
    /\ edits \in Nat /\ faults \in Nat /\ told \subseteq Entry
    /\ unguarded \in BOOLEAN

QueuesInv ==
    /\ QueueOK(queue, {"add", "migrate"}, edits)
    /\ QueueOK(options, {"add", "remove"}, edits)

\* With one queue at work, the task that has read holds the list as it is, and the
\* row to remove is the row that was clicked: this is what makes it atomic.
OrderInv ==
    ~unguarded =>
        /\ queue = <<>> \/ options = <<>>
        /\ \A i \in DOMAIN queue :
            queue[i].pc = "writing" => queue[i].seen = list /\ queue[i].seenLegacy = legacy
        /\ \A i \in DOMAIN options :
            /\ options[i].pc = "writing" => options[i].seen = list
            /\ options[i].edit.kind = "remove" =>
                /\ i = 1 /\ options[i].row \in DOMAIN list
                /\ list[options[i].row] = options[i].edit.entry

Inv == ListsInv /\ QueuesInv /\ OrderInv

\* What a step has to be for AtomicLists.
Refined == [unguarded \/ unguarded' \/ Atomic!Next]_(Atomic!vars)

LEMMA InitInv == ASSUME Init PROVE Inv /\ Atomic!Init
<1>1. list \in Seq(Entry) /\ IsInjective(list)
  <2>1. list \in SeqOf(Entry, 2) /\ IsInjective(list)
    BY DEF Init, Lists
  <2>2. PICK m \in 0..2 : list \in [1..m -> Entry]
    BY <2>1 DEF SeqOf
  <2>3. m \in Nat
    OBVIOUS
  <2>4. list \in UNION {[1..n -> Entry] : n \in Nat}
    BY <2>2, <2>3
  <2> QED BY <2>1, <2>4, SeqDef
<1>2. legacy \subseteq Entry /\ IsFiniteSet(legacy)
  <2>1. legacy = {} \/ \E e \in Entry : legacy = {e}
    BY DEF Init
  <2> QED BY <2>1, FS_EmptySet, FS_Singleton
<1>3. QueueOK(<<>>, {"add", "migrate"}, edits) /\ QueueOK(<<>>, {"add", "remove"}, edits)
  BY DEF QueueOK
<1>4. ToSet(list) \in SUBSET Entry
  BY <1>1, LenProperties, ElementOfSeq DEF ToSet
<1>5. ListsInv
  BY <1>1, <1>2 DEF Init, ListsInv
<1>6. QueuesInv
  BY <1>3 DEF Init, QueuesInv
<1>7. OrderInv
  BY DEF Init, OrderInv
<1>8. Atomic!Init
  <2>1. EditsOf(queue) = {} /\ EditsOf(options) = {}
    BY DEF Init, EditsOf
  <2> QED BY <1>2, <1>4, <2>1 DEF Atomic!Init
<1> QED BY <1>5, <1>6, <1>7, <1>8 DEF Inv

\* Steps that move neither the stored lists nor the queues.
LEMMA Still ==
    ASSUME UNCHANGED <<list, legacy, queue, options>>
    PROVE  Refined
  BY DEF Refined, Atomic!vars, EditsOf

-----------------------------------------------------------------------------
(* Edits asked for.                                                        *)

LEMMA WorkerAsked ==
    ASSUME Inv, NEW t, Fresh(t, {"add", "migrate"}, edits), NewEdit(~OptionsIdle),
           queue' = Append(queue, t),
           UNCHANGED <<list, legacy, options, rendered, popup, told, faults>>
    PROVE  Inv' /\ Refined
<1>1. /\ QueueOK(queue', {"add", "migrate"}, edits') /\ edits' = edits + 1
      /\ edits \in Nat /\ edits' \in Nat
      /\ EditsOf(queue') = EditsOf(queue) \cup {t.edit}
      /\ Len(queue') = Len(queue) + 1 /\ Len(queue) \in Nat
      /\ queue'[Len(queue) + 1] = t
      /\ \A i \in 1..Len(queue) : queue'[i] = queue[i]
  BY Queued DEF Inv, ListsInv, QueuesInv, NewEdit
<1>2. DOMAIN queue' = 1..(Len(queue) + 1) /\ DOMAIN queue = 1..Len(queue)
  BY <1>1, LenProperties DEF QueueOK, Inv, QueuesInv
<1>3. QueueOK(options', {"add", "remove"}, edits')
  <2>1. \A i \in DOMAIN options : options[i].edit.id < edits'
    <3> TAKE i \in DOMAIN options
    <3>1. options[i] \in TaskType /\ options[i].edit.id < edits
      BY ElementOfSeq, LenProperties DEF Inv, QueuesInv, QueueOK
    <3>2. options[i].edit.id \in Nat
      BY <3>1 DEF TaskType, Edit
    <3> QED BY <1>1, <3>1, <3>2
  <2> QED BY <2>1 DEF Inv, QueuesInv, QueueOK
<1>4. unguarded' \in BOOLEAN /\ (~unguarded' => options = <<>>)
      /\ (~unguarded' /\ unguarded => queue = <<>>)
  BY DEF NewEdit, OptionsIdle, WorkerIdle, Inv, ListsInv
<1>5. OrderInv'
  <2> SUFFICES ASSUME ~unguarded'
               PROVE  \A i \in DOMAIN queue' : queue'[i].pc = "writing" =>
                          queue'[i].seen = list /\ queue'[i].seenLegacy = legacy
    BY <1>4 DEF OrderInv
  <2> TAKE i \in DOMAIN queue'
  <2>1. CASE i = Len(queue) + 1
    BY <1>1, <2>1 DEF Fresh
  <2>2. CASE i \in 1..Len(queue)
    <3>1. ~unguarded
      BY <1>1, <1>4, <2>2
    <3> QED BY <1>1, <1>2, <2>2, <3>1 DEF Inv, OrderInv
  <2> QED BY <1>2, <2>1, <2>2
<1>6. Atomic!Ask
  <2>1. t.edit \in Edit
    BY DEF Fresh, TaskType
  <2> QED BY <1>1, <2>1 DEF Atomic!Ask, Atomic!Edit, Edit
<1>7. ListsInv'
  BY <1>1, <1>4 DEF Inv, ListsInv
<1> QED BY <1>1, <1>3, <1>5, <1>6, <1>7 DEF Inv, QueuesInv, Refined, Atomic!Next

LEMMA OptionsAsked ==
    ASSUME Inv, NEW t, Fresh(t, {"add", "remove"}, edits), NEW unsafe \in BOOLEAN,
           NewEdit(unsafe), ~WorkerIdle => unsafe,
           ~unsafe /\ t.edit.kind = "remove" =>
                /\ options = <<>> /\ t.row \in DOMAIN list
                /\ list[t.row] = t.edit.entry,
           options' = Append(options, t),
           UNCHANGED <<list, legacy, queue, rendered, popup, told, faults>>
    PROVE  Inv' /\ Refined
<1>1. /\ QueueOK(options', {"add", "remove"}, edits') /\ edits' = edits + 1
      /\ edits \in Nat /\ edits' \in Nat
      /\ EditsOf(options') = EditsOf(options) \cup {t.edit}
      /\ Len(options') = Len(options) + 1 /\ Len(options) \in Nat
      /\ options'[Len(options) + 1] = t
      /\ \A i \in 1..Len(options) : options'[i] = options[i]
  BY Queued DEF Inv, ListsInv, QueuesInv, NewEdit
<1>2. /\ DOMAIN options' = 1..(Len(options) + 1) /\ DOMAIN options = 1..Len(options)
      /\ options = <<>> => Len(options) = 0
  BY <1>1, LenProperties DEF QueueOK, Inv, QueuesInv
<1>3. QueueOK(queue', {"add", "migrate"}, edits')
  <2>1. \A i \in DOMAIN queue : queue[i].edit.id < edits'
    <3> TAKE i \in DOMAIN queue
    <3>1. queue[i] \in TaskType /\ queue[i].edit.id < edits
      BY ElementOfSeq, LenProperties DEF Inv, QueuesInv, QueueOK
    <3>2. queue[i].edit.id \in Nat
      BY <3>1 DEF TaskType, Edit
    <3> QED BY <1>1, <3>1, <3>2
  <2> QED BY <2>1 DEF Inv, QueuesInv, QueueOK
<1>4. /\ unguarded' \in BOOLEAN
      /\ ~unguarded' => ~unsafe /\ queue = <<>>
      /\ ~unguarded' /\ unguarded => options = <<>>
  BY DEF NewEdit, OptionsIdle, WorkerIdle, Inv, ListsInv
<1>5. OrderInv'
  <2> SUFFICES ASSUME ~unguarded', NEW i \in DOMAIN options'
               PROVE  /\ options'[i].pc = "writing" => options'[i].seen = list
                      /\ options'[i].edit.kind = "remove" =>
                            /\ i = 1 /\ options'[i].row \in DOMAIN list
                            /\ list[options'[i].row] = options'[i].edit.entry
    BY <1>4 DEF OrderInv
  <2>1. CASE i = Len(options) + 1
    BY <1>1, <1>2, <1>4, <2>1 DEF Fresh
  <2>2. CASE i \in 1..Len(options)
    <3>1. ~unguarded
      BY <1>1, <1>2, <1>4, <2>2
    <3> QED BY <1>1, <1>2, <2>2, <3>1 DEF Inv, OrderInv
  <2> QED BY <1>2, <2>1, <2>2
<1>6. Atomic!Ask
  <2>1. t.edit \in Edit
    BY DEF Fresh, TaskType
  <2> QED BY <1>1, <2>1 DEF Atomic!Ask, Atomic!Edit, Edit
<1>7. ListsInv'
  BY <1>1, <1>4 DEF Inv, ListsInv
<1> QED BY <1>1, <1>3, <1>5, <1>6, <1>7 DEF Inv, QueuesInv, Refined, Atomic!Next

LEMMA AddToWhitelistKeeps ==
    ASSUME Inv, NEW e \in Entry, AddToWhitelist(e)
    PROVE  Inv' /\ Refined
<1> DEFINE t == Task([id |-> edits, kind |-> "add", entry |-> e])
<1>1. Fresh(t, {"add", "migrate"}, edits)
  <2>1. [id |-> edits, kind |-> "add", entry |-> e] \in Edit /\ <<>> \in Seq(Entry)
    BY EmptySeq DEF Inv, ListsInv, Edit
  <2> QED BY <2>1 DEF Fresh, Task, TaskType
<1> HIDE DEF t
<1>2. queue' = Append(queue, t)
  BY DEF AddToWhitelist, Enqueue, t
<1> QED BY <1>1, <1>2, WorkerAsked DEF AddToWhitelist

LEMMA StartMigrationKeeps ==
    ASSUME Inv, StartMigration
    PROVE  Inv' /\ Refined
<1> DEFINE t == Task([id |-> edits, kind |-> "migrate"])
<1>1. Fresh(t, {"add", "migrate"}, edits)
  <2>1. [id |-> edits, kind |-> "migrate"] \in Edit /\ <<>> \in Seq(Entry)
    BY EmptySeq DEF Inv, ListsInv, Edit
  <2> QED BY <2>1 DEF Fresh, Task, TaskType
<1> HIDE DEF t
<1>2. queue' = Append(queue, t)
  BY DEF StartMigration, Enqueue, t
<1> QED BY <1>1, <1>2, WorkerAsked DEF StartMigration

LEMMA AddEntryKeeps ==
    ASSUME Inv, NEW e \in Entry, AddEntry(e)
    PROVE  Inv' /\ Refined
<1> DEFINE t == Task([id |-> edits, kind |-> "add", entry |-> e])
<1>1. Fresh(t, {"add", "remove"}, edits) /\ t.edit.kind = "add"
  <2>1. [id |-> edits, kind |-> "add", entry |-> e] \in Edit /\ <<>> \in Seq(Entry)
    BY EmptySeq DEF Inv, ListsInv, Edit
  <2> QED BY <2>1 DEF Fresh, Task, TaskType
<1> HIDE DEF t
<1>2. options' = Append(options, t)
  BY DEF AddEntry, t
<1>3. (~WorkerIdle) \in BOOLEAN
  BY DEF WorkerIdle
<1> QED BY <1>1, <1>2, <1>3, OptionsAsked DEF AddEntry

LEMMA RemoveEntryKeeps ==
    ASSUME Inv, NEW i \in DOMAIN rendered, RemoveEntry(i)
    PROVE  Inv' /\ Refined
<1> DEFINE edit == [id |-> edits, kind |-> "remove", entry |-> rendered[i]]
           t == [Task(edit) EXCEPT !.row = i]
           unsafe == ~WorkerIdle \/ ~OptionsIdle \/ rendered # list
<1>1. i \in Nat /\ i # 0 /\ rendered[i] \in Entry
  BY LenProperties, ElementOfSeq DEF Inv, ListsInv
<1>2. /\ t.edit = edit /\ t.row = i /\ t.edit.kind = "remove"
      /\ t.edit.entry = rendered[i]
  BY DEF Task
<1>3. Fresh(t, {"add", "remove"}, edits)
  <2>1. edit \in Edit /\ <<>> \in Seq(Entry)
    BY <1>1, EmptySeq DEF Inv, ListsInv, Edit
  <2> QED BY <1>1, <2>1 DEF Fresh, Task, TaskType
<1>4. /\ options' = Append(options, t) /\ NewEdit(unsafe)
      /\ UNCHANGED <<list, legacy, queue, rendered, popup, told, faults>>
  BY DEF RemoveEntry
<1>5. unsafe \in BOOLEAN /\ (~WorkerIdle => unsafe)
  BY DEF WorkerIdle, OptionsIdle
<1>6. ~unsafe => options = <<>> /\ t.row \in DOMAIN list /\ list[t.row] = t.edit.entry
  BY <1>2 DEF OptionsIdle
<1> HIDE DEF t, unsafe
<1> QED BY <1>3, <1>4, <1>5, <1>6, OptionsAsked

-----------------------------------------------------------------------------
(* Tasks that read.                                                        *)

LEMMA TaskReadKeeps ==
    ASSUME Inv, NEW i \in DOMAIN queue, TaskRead(i)
    PROVE  Inv' /\ Refined
<1>1. queue # <<>> /\ i = 1
  BY DEF TaskRead, Runs
<1>2. PICK l \in Seq(Entry), m \in SUBSET Entry :
        /\ ReadAs(1, l, m) /\ IsInjective(l) /\ IsFiniteSet(m)
        /\ ~unguarded' => ~unguarded /\ l = list /\ m = legacy
        /\ unguarded' \in BOOLEAN /\ faults' \in Nat
  <2>1. CASE ReadAs(1, list, legacy) /\ UNCHANGED <<unguarded, faults>>
    BY <2>1 DEF Inv, ListsInv
  <2>2. CASE Fails("read") /\ ReadAs(1, <<>>, {}) /\ unguarded' = TRUE
    <3>1. IsInjective(<<>>) /\ IsFiniteSet({}) /\ <<>> \in Seq(Entry)
      BY EmptySeq, FS_EmptySet DEF IsInjective
    <3>2. faults' \in Nat
      BY <2>2 DEF Fails, Inv, ListsInv
    <3> QED BY <2>2, <3>1, <3>2
  <2> QED BY <1>1, <2>1, <2>2 DEF TaskRead
<1> DEFINE t == [queue[1] EXCEPT !.pc = "writing", !.seen = l, !.seenLegacy = m]
<1>3. 1 \in DOMAIN queue
  BY <1>1
<1>4. queue' = [queue EXCEPT ![1] = t]
  BY <1>2, <1>3 DEF ReadAs
<1>5. /\ t \in TaskType /\ t.edit = queue[1].edit /\ t.row = queue[1].row
      /\ t.seen = l /\ t.seenLegacy = m
  <2>1. queue[1] \in TaskType
    BY <1>3, ElementOfSeq, LenProperties DEF Inv, QueuesInv, QueueOK
  <2> QED BY <2>1 DEF TaskType
<1> HIDE DEF t
<1>6. /\ QueueOK(queue', {"add", "migrate"}, edits)
      /\ EditsOf(queue') = EditsOf(queue)
  BY <1>1, <1>2, <1>4, <1>5, HeadReads DEF Inv, QueuesInv
<1>7. UNCHANGED <<list, legacy, options, rendered, popup, edits, told>>
  BY DEF TaskRead
<1>8. OrderInv'
  <2> SUFFICES ASSUME ~unguarded', NEW j \in DOMAIN queue', queue'[j].pc = "writing"
               PROVE  queue'[j].seen = list /\ queue'[j].seenLegacy = legacy
    BY <1>1, <1>2, <1>7 DEF OrderInv, Inv
  <2>1. j = 1
    BY <1>6 DEF QueueOK
  <2>2. queue'[1] = t
    BY <1>3, <1>4
  <2> QED BY <1>2, <1>5, <2>1, <2>2
<1>9. Inv'
  BY <1>2, <1>6, <1>7, <1>8 DEF Inv, ListsInv, QueuesInv
<1>10. Refined
  BY <1>6, <1>7 DEF Refined, Atomic!vars
<1> QED BY <1>9, <1>10

LEMMA OptionsReadKeeps ==
    ASSUME Inv, OptionsRead
    PROVE  Inv' /\ Refined
<1>1. options # <<>> /\ options \in Seq(TaskType) /\ Head(options) = options[1]
  BY DEF OptionsRead, Inv, QueuesInv, QueueOK
<1>2. 1 \in DOMAIN options /\ options[1] \in TaskType
  BY <1>1, EmptySeq, ElementOfSeq, LenProperties
<1>3. UNCHANGED <<unguarded, list, legacy, queue, rendered, popup, edits, told>>
  BY DEF OptionsRead
<1>4. CASE /\ options' = [options EXCEPT ![1].pc = "writing", ![1].seen = list]
           /\ UNCHANGED faults
  <2> DEFINE t == [options[1] EXCEPT !.pc = "writing", !.seen = list]
  <2>1. options' = [options EXCEPT ![1] = t]
    BY <1>2, <1>4
  <2>2. /\ t \in TaskType /\ t.edit = options[1].edit /\ t.row = options[1].row
        /\ t.seen = list /\ t.seenLegacy = options[1].seenLegacy
    BY <1>2 DEF TaskType, Inv, ListsInv
  <2> HIDE DEF t
  <2>3. IsInjective(t.seen) /\ IsFiniteSet(t.seenLegacy)
    BY <1>2, <2>2 DEF Inv, ListsInv, QueuesInv, QueueOK
  <2>4. /\ QueueOK(options', {"add", "remove"}, edits)
        /\ EditsOf(options') = EditsOf(options)
    BY <1>1, <2>1, <2>2, <2>3, HeadReads DEF Inv, QueuesInv
  <2>5. /\ options'[1] = t /\ DOMAIN options' = DOMAIN options
        /\ \A j \in DOMAIN options : j # 1 => options'[j] = options[j]
    BY <1>2, <2>1
  <2>6. OrderInv'
    <3> SUFFICES ASSUME ~unguarded, NEW j \in DOMAIN options
                 PROVE  /\ options'[j].pc = "writing" => options'[j].seen = list
                        /\ options'[j].edit.kind = "remove" =>
                              /\ j = 1 /\ options'[j].row \in DOMAIN list
                              /\ list[options'[j].row] = options'[j].edit.entry
      BY <1>1, <1>3, <2>5 DEF OrderInv, Inv
    <3>1. options'[j].pc = "writing" => j = 1
      BY <2>4, <2>5 DEF QueueOK
    <3>2. options'[j].edit = options[j].edit /\ options'[j].row = options[j].row
      BY <2>2, <2>5
    <3> QED BY <2>2, <2>5, <3>1, <3>2 DEF Inv, OrderInv
  <2> QED
    BY <1>3, <1>4, <2>4, <2>6 DEF Inv, ListsInv, QueuesInv, Refined, Atomic!vars
<1>5. CASE Fails("read") /\ options' = Tail(options)
  <2>1. /\ QueueOK(options', {"add", "remove"}, edits)
        /\ EditsOf(options') = EditsOf(options) \ {options[1].edit}
        /\ \A j \in DOMAIN options' : j + 1 \in DOMAIN options
              /\ options'[j] = options[j + 1] /\ options'[j].pc # "writing"
    BY <1>1, <1>5, Dequeued DEF Inv, QueuesInv
  <2>2. \A j \in DOMAIN options' : j \in Nat /\ j # 0
    BY <2>1, LenProperties DEF QueueOK
  <2>3. OrderInv'
    BY <1>1, <1>3, <2>1, <2>2 DEF Inv, OrderInv
  <2>4. unguarded \/ Atomic!GiveUp(options[1].edit)
    <3> SUFFICES ASSUME ~unguarded PROVE Atomic!GiveUp(options[1].edit)
      OBVIOUS
    <3>1. queue = <<>>
      BY <1>1 DEF Inv, OrderInv
    <3>2. EditsOf(queue) = {} /\ EditsOf(queue') = {}
      BY <1>3, <3>1 DEF EditsOf
    <3>3. options[1].edit \in EditsOf(options)
      BY <1>2 DEF EditsOf
    <3> QED BY <1>3, <2>1, <3>2, <3>3 DEF Atomic!GiveUp, Atomic!Settle
  <2>5. unguarded \/ Atomic!Next
    BY <2>4 DEF Atomic!Next, Atomic!GiveUp, Atomic!Settle
  <2>6. faults' \in Nat
    BY <1>5 DEF Fails, Inv, ListsInv
  <2> QED
    BY <1>3, <2>1, <2>3, <2>5, <2>6 DEF Inv, ListsInv, QueuesInv, Refined
<1> QED BY <1>4, <1>5 DEF OptionsRead

-----------------------------------------------------------------------------
(* Tasks that write, and so settle.                                        *)

LEMMA WorkerSettles ==
    ASSUME Inv, 1 \in DOMAIN queue, Finish(1),
           list' \in Seq(Entry), IsInjective(list'),
           legacy' \subseteq Entry, IsFiniteSet(legacy'),
           told' \subseteq Entry, faults' \in Nat,
           UNCHANGED <<unguarded, options, rendered, popup, edits>>
    PROVE  /\ Inv'
           /\ ~unguarded => Atomic!Settle(queue[1].edit)
<1>1. queue # <<>> /\ queue \in Seq(TaskType)
  BY DEF Inv, QueuesInv, QueueOK
<1>2. queue' = Tail(queue)
  BY <1>1, HeadRemoved DEF Finish
<1>3. /\ QueueOK(queue', {"add", "migrate"}, edits)
      /\ EditsOf(queue') = EditsOf(queue) \ {queue[1].edit}
      /\ \A j \in DOMAIN queue' : queue'[j].pc # "writing"
  BY <1>1, <1>2, Dequeued DEF Inv, QueuesInv
<1>4. ~unguarded => options = <<>>
  BY <1>1 DEF Inv, OrderInv
<1>5. OrderInv'
  BY <1>3, <1>4 DEF OrderInv
<1>6. ASSUME ~unguarded PROVE Atomic!Settle(queue[1].edit)
  <2>1. EditsOf(options) = {} /\ EditsOf(options') = {}
    BY <1>4, <1>6 DEF EditsOf
  <2>2. queue[1].edit \in EditsOf(queue)
    BY DEF EditsOf
  <2> QED BY <1>3, <2>1, <2>2 DEF Atomic!Settle
<1> QED BY <1>3, <1>5, <1>6 DEF Inv, ListsInv, QueuesInv

LEMMA AddWriteKeeps ==
    ASSUME Inv, NEW i \in DOMAIN queue, AddWrite(i)
    PROVE  Inv' /\ Refined
<1> DEFINE e == queue[1].edit.entry
           seen == queue[1].seen
<1>1. i = 1 /\ 1 \in DOMAIN queue /\ queue[1].pc = "writing" /\ queue[1].edit.kind = "add"
  BY DEF AddWrite, Runs
<1>2. queue[1] \in TaskType
  BY <1>1, ElementOfSeq, LenProperties DEF Inv, QueuesInv, QueueOK
<1>3. e \in Entry /\ seen \in Seq(Entry)
  BY <1>1, <1>2 DEF TaskType, Edit
<1>4. IsInjective(seen)
  BY <1>1 DEF Inv, QueuesInv, QueueOK
<1>5. \/ e \in ToSet(seen) /\ UNCHANGED <<list, faults>>
      \/ e \notin ToSet(seen) /\ list' = Append(seen, e) /\ UNCHANGED faults
      \/ Fails("write") /\ UNCHANGED list
  BY <1>1 DEF AddWrite
<1>6. /\ told' = told \cup {e} /\ Finish(1)
      /\ UNCHANGED <<unguarded, legacy, options, rendered, popup, edits>>
  BY <1>1 DEF AddWrite
<1>7. ~unguarded => seen = list
  BY <1>1 DEF Inv, OrderInv
<1> HIDE DEF e, seen
<1>8. list' \in Seq(Entry) /\ IsInjective(list') /\ faults' \in Nat
  <2>1. faults' \in Nat
    BY <1>5 DEF Fails, Inv, ListsInv
  <2>2. CASE list' = list
    BY <2>1, <2>2 DEF Inv, ListsInv
  <2>3. CASE e \notin ToSet(seen) /\ list' = Append(seen, e)
    <3>1. Append(seen, e) \in Seq(Entry)
      BY <1>3, AppendProperties
    <3>2. IsInjective(Append(seen, e))
      BY <1>3, <1>4, <2>3, AppendSet
    <3> QED BY <2>1, <2>3, <3>1, <3>2
  <2> QED BY <1>5, <2>2, <2>3
<1>9. Inv' /\ (~unguarded => Atomic!Settle(queue[1].edit))
  BY <1>1, <1>3, <1>6, <1>8, WorkerSettles DEF Inv, ListsInv
<1>10. ASSUME ~unguarded PROVE Atomic!Next
  <2>1. queue[1].edit.entry = e
    BY DEF e
  <2>2. ToSet(Append(seen, e)) = ToSet(seen) \cup {e}
    BY <1>3, AppendSet
  <2>3. ToSet(list') = ToSet(list) \cup {e} \/ list' = list
    BY <1>5, <1>7, <1>10, <2>2
  <2>4. Atomic!Add(queue[1].edit) \/ Atomic!GiveUp(queue[1].edit)
    BY <1>1, <1>6, <1>9, <1>10, <2>1, <2>3 DEF Atomic!Add, Atomic!GiveUp
  <2> QED BY <2>4 DEF Atomic!Next, Atomic!Add, Atomic!GiveUp, Atomic!Settle
<1> QED BY <1>9, <1>10 DEF Refined

LEMMA MigrateWriteKeeps ==
    ASSUME Inv, NEW i \in DOMAIN queue, MigrateWrite(i)
    PROVE  Inv' /\ Refined
<1> DEFINE marked == queue[1].seenLegacy
           seen == queue[1].seen
           fresh == marked \ ToSet(seen)
<1>1. /\ i = 1 /\ 1 \in DOMAIN queue /\ queue[1].pc = "writing"
      /\ queue[1].edit.kind = "migrate"
  BY DEF MigrateWrite, Runs
<1>2. queue[1] \in TaskType
  BY <1>1, ElementOfSeq, LenProperties DEF Inv, QueuesInv, QueueOK
<1>3. seen \in Seq(Entry) /\ marked \subseteq Entry
  BY <1>2 DEF TaskType
<1>4. IsInjective(seen) /\ IsFiniteSet(marked)
  BY <1>1 DEF Inv, QueuesInv, QueueOK
<1>5. \/ marked = {} /\ UNCHANGED <<list, legacy, faults>>
      \/ /\ list' = seen \o SetToSeq(fresh) /\ legacy' = {}
         /\ UNCHANGED faults
      \/ Fails("write") /\ UNCHANGED <<list, legacy>>
  BY <1>1 DEF MigrateWrite
<1>6. Finish(1) /\ UNCHANGED <<unguarded, options, rendered, popup, edits, told>>
  BY <1>1 DEF MigrateWrite
<1>7. ~unguarded => seen = list /\ marked = legacy
  BY <1>1 DEF Inv, OrderInv
<1>8. IsFiniteSet(fresh) /\ fresh \subseteq Entry /\ fresh \cap ToSet(seen) = {}
      /\ ToSet(seen) \cup fresh = ToSet(seen) \cup marked
  BY <1>3, <1>4, FS_Subset
<1> HIDE DEF marked, seen, fresh
<1>9. /\ SetToSeq(fresh) \in Seq(Entry) /\ IsInjective(SetToSeq(fresh))
      /\ ToSet(SetToSeq(fresh)) = fresh
  BY <1>8, SeqOfSet, SeqMonotonic
<1>10. /\ seen \o SetToSeq(fresh) \in Seq(Entry)
       /\ IsInjective(seen \o SetToSeq(fresh))
       /\ ToSet(seen \o SetToSeq(fresh)) = ToSet(seen) \cup marked
  BY <1>3, <1>4, <1>8, <1>9, ConcatSet, ConcatProperties
<1>11. /\ list' \in Seq(Entry) /\ IsInjective(list') /\ faults' \in Nat
       /\ legacy' \subseteq Entry /\ IsFiniteSet(legacy')
  <2>1. faults' \in Nat
    BY <1>5 DEF Fails, Inv, ListsInv
  <2>2. CASE UNCHANGED <<list, legacy>>
    BY <2>1, <2>2 DEF Inv, ListsInv
  <2>3. CASE list' = seen \o SetToSeq(fresh) /\ legacy' = {}
    BY <1>10, <2>1, <2>3, FS_EmptySet
  <2> QED BY <1>5, <2>2, <2>3
<1>12. Inv' /\ (~unguarded => Atomic!Settle(queue[1].edit))
  BY <1>1, <1>6, <1>11, WorkerSettles DEF Inv, ListsInv
<1>13. ASSUME ~unguarded PROVE Atomic!Next
  <2>1. \/ ToSet(list') = ToSet(list) \cup legacy /\ legacy' = {}
        \/ UNCHANGED <<list, legacy>>
    BY <1>5, <1>7, <1>10, <1>13
  <2>2. Atomic!Migrate(queue[1].edit) \/ Atomic!GiveUp(queue[1].edit)
    BY <1>1, <1>12, <1>13, <2>1 DEF Atomic!Migrate, Atomic!GiveUp
  <2> QED BY <2>2 DEF Atomic!Next, Atomic!Migrate, Atomic!GiveUp, Atomic!Settle
<1> QED BY <1>12, <1>13 DEF Refined

LEMMA OptionsSettles ==
    ASSUME Inv, options # <<>>, options' = Tail(options),
           list' \in Seq(Entry), IsInjective(list'),
           rendered' \in Seq(Entry), faults' \in Nat,
           UNCHANGED <<unguarded, legacy, queue, popup, edits, told>>
    PROVE  /\ Inv'
           /\ ~unguarded => Atomic!Settle(options[1].edit)
<1>1. options \in Seq(TaskType) /\ 1 \in DOMAIN options
  BY EmptySeq, LenProperties DEF Inv, QueuesInv, QueueOK
<1>2. /\ QueueOK(options', {"add", "remove"}, edits)
      /\ EditsOf(options') = EditsOf(options) \ {options[1].edit}
      /\ \A j \in DOMAIN options' : j + 1 \in DOMAIN options
            /\ options'[j] = options[j + 1] /\ options'[j].pc # "writing"
  BY Dequeued DEF Inv, QueuesInv
<1>3. \A j \in DOMAIN options' : j \in Nat /\ j # 0
  BY <1>2, LenProperties DEF QueueOK
<1>4. ~unguarded => queue = <<>>
  BY DEF Inv, OrderInv
<1>5. ASSUME ~unguarded, NEW j \in DOMAIN options'
      PROVE  options'[j].edit.kind # "remove"
  <2>1. j + 1 # 1
    BY <1>3, <1>5
  <2> QED BY <1>2, <1>5, <2>1 DEF Inv, OrderInv
<1>6. OrderInv'
  BY <1>2, <1>4, <1>5 DEF OrderInv
<1>7. ASSUME ~unguarded PROVE Atomic!Settle(options[1].edit)
  <2>1. EditsOf(queue) = {} /\ EditsOf(queue') = {}
    BY <1>4, <1>7 DEF EditsOf
  <2>2. options[1].edit \in EditsOf(options)
    BY <1>1 DEF EditsOf
  <2> QED BY <1>2, <2>1, <2>2 DEF Atomic!Settle
<1> QED BY <1>2, <1>6, <1>7 DEF Inv, ListsInv, QueuesInv

LEMMA OptionsWriteKeeps ==
    ASSUME Inv, OptionsWrite
    PROVE  Inv' /\ Refined
<1> DEFINE task == options[1]
           seen == task.seen
           e == task.edit.entry
<1>1. /\ options # <<>> /\ options \in Seq(TaskType) /\ Head(options) = task
      /\ 1 \in DOMAIN options
  BY EmptySeq, LenProperties DEF OptionsWrite, Inv, QueuesInv, QueueOK
<1>2. task \in TaskType /\ task.edit.kind \in {"add", "remove"}
  BY <1>1, ElementOfSeq, LenProperties DEF Inv, QueuesInv, QueueOK
<1>3. seen \in Seq(Entry) /\ e \in Entry /\ task.row \in Nat /\ IsInjective(seen)
      /\ (task.edit.kind = "remove" => task.row # 0)
  <2>1. IsInjective(seen) /\ (task.edit.kind = "remove" => task.row # 0)
    BY <1>1 DEF Inv, QueuesInv, QueueOK
  <2> QED BY <1>2, <2>1 DEF TaskType, Edit
<1>4. /\ \/ UNCHANGED <<list, rendered>>
         \/ Proceeds(task) /\ list' = Result(task) /\ rendered' = Result(task)
      /\ faults' \in Nat
      /\ task.pc = "writing" /\ options' = Tail(options)
      /\ UNCHANGED <<unguarded, legacy, queue, popup, edits, told>>
  BY <1>1 DEF OptionsWrite, Fails, Inv, ListsInv
<1>5. ASSUME ~unguarded
      PROVE  /\ seen = list
             /\ task.edit.kind = "remove" =>
                    task.row \in DOMAIN list /\ list[task.row] = e
  BY <1>1, <1>4, <1>5 DEF Inv, OrderInv
<1>6. ASSUME Proceeds(task)
      PROVE  /\ Result(task) \in Seq(Entry) /\ IsInjective(Result(task))
             /\ task.edit.kind = "add" => ToSet(Result(task)) = ToSet(seen) \cup {e}
             /\ task.edit.kind = "remove" =>
                    ToSet(Result(task)) = ToSet(seen) \ {seen[task.row]}
  <2>1. CASE task.edit.kind = "add"
    <3>1. Result(task) = Append(seen, e) /\ e \notin ToSet(seen)
      BY <1>6, <2>1 DEF Result, Proceeds
    <3>2. Append(seen, e) \in Seq(Entry)
      BY <1>3, AppendProperties
    <3>3. /\ ToSet(Append(seen, e)) = ToSet(seen) \cup {e}
          /\ IsInjective(Append(seen, e))
      BY <1>3, <3>1, AppendSet
    <3> QED BY <2>1, <3>1, <3>2, <3>3
  <2>2. CASE task.edit.kind = "remove"
    <3>1. Result(task) = RemoveAt(seen, task.row) /\ task.row \in 1..Len(seen)
      BY <1>3, <1>6, <2>2, LenProperties DEF Result, WithRowRemoved, Proceeds
    <3> QED BY <1>3, <2>2, <3>1, RemoveAtIs, RemoveAtSet
  <2> QED BY <1>2, <2>1, <2>2
<1> HIDE DEF seen, e
<1>7. list' \in Seq(Entry) /\ IsInjective(list') /\ rendered' \in Seq(Entry)
  <2>1. CASE UNCHANGED <<list, rendered>>
    BY <2>1 DEF Inv, ListsInv
  <2>2. CASE Proceeds(task) /\ list' = Result(task) /\ rendered' = Result(task)
    BY <1>6, <2>2
  <2> QED BY <1>4, <2>1, <2>2
<1>8. Inv' /\ (~unguarded => Atomic!Settle(task.edit))
  BY <1>1, <1>4, <1>7, OptionsSettles
<1>9. ASSUME ~unguarded PROVE Atomic!Next
  <2>1. \/ list' = list
        \/ task.edit.kind = "add" /\ ToSet(list') = ToSet(list) \cup {e}
        \/ task.edit.kind = "remove" /\ ToSet(list') = ToSet(list) \ {e}
    BY <1>2, <1>4, <1>5, <1>6, <1>9
  <2>2. task.edit.entry = e
    BY DEF e
  <2>3. \/ Atomic!Add(task.edit) \/ Atomic!Remove(task.edit)
        \/ Atomic!GiveUp(task.edit)
    BY <1>4, <1>8, <1>9, <2>1, <2>2 DEF Atomic!Add, Atomic!Remove, Atomic!GiveUp
  <2> QED
    BY <2>3 DEF Atomic!Next, Atomic!Add, Atomic!Remove, Atomic!GiveUp, Atomic!Settle
<1> QED BY <1>8, <1>9 DEF Refined

-----------------------------------------------------------------------------
(* The popup, and pages rendered anew.                                     *)

LEMMA PauseSiteKeeps ==
    ASSUME Inv, NEW e \in Entry, PauseSite(e)
    PROVE  Inv' /\ Refined
<1>1. /\ popup' \in Seq(Entry) /\ IsInjective(popup')
      /\ ToSet(popup') =
            IF e \in ToSet(popup) THEN ToSet(popup) \ {e} ELSE ToSet(popup) \cup {e}
  BY ToggledIs DEF PauseSite, Inv, ListsInv
<1>2. /\ list' = popup' \/ list' = list
      /\ faults' \in Nat /\ edits' = edits + 1 /\ edits \in Nat
      /\ UNCHANGED <<legacy, queue, options, rendered, told>>
  BY DEF PauseSite, Fails, NewEdit, Inv, ListsInv
<1>3. /\ unguarded' \in BOOLEAN
      /\ ~unguarded' => queue = <<>> /\ options = <<>> /\ popup = list
  BY DEF PauseSite, NewEdit, WorkerIdle, OptionsIdle, Inv, ListsInv
<1>4. list' \in Seq(Entry) /\ IsInjective(list')
  <2>1. CASE list' = popup'
    BY <1>1, <2>1
  <2>2. CASE list' = list
    BY <2>2 DEF Inv, ListsInv
  <2> QED BY <1>2, <2>1, <2>2
<1>5. ListsInv'
  BY <1>1, <1>2, <1>3, <1>4 DEF Inv, ListsInv
<1>6. ASSUME NEW q, NEW kinds, QueueOK(q, kinds, edits)
      PROVE  QueueOK(q, kinds, edits + 1)
  <2>1. \A i \in DOMAIN q : q[i].edit.id < edits + 1
    <3> TAKE i \in DOMAIN q
    <3>1. q[i] \in TaskType /\ q[i].edit.id < edits
      BY <1>6, ElementOfSeq, LenProperties DEF QueueOK
    <3>2. q[i].edit.id \in Nat
      BY <3>1 DEF TaskType, Edit
    <3> QED BY <1>2, <3>1, <3>2
  <2> QED BY <1>6, <2>1 DEF QueueOK
<1>7. QueuesInv'
  BY <1>2, <1>6 DEF Inv, QueuesInv
<1>8. OrderInv'
  BY <1>2, <1>3 DEF OrderInv
<1>9. ASSUME ~unguarded' PROVE Atomic!Toggle(e) \/ UNCHANGED Atomic!vars
  <2>1. EditsOf(queue') = EditsOf(queue) /\ EditsOf(options') = EditsOf(options)
    BY <1>2
  <2>2. CASE list' = list
    BY <1>2, <2>1, <2>2 DEF Atomic!vars
  <2>3. CASE list' = popup'
    BY <1>1, <1>2, <1>3, <1>9, <2>1, <2>3 DEF Atomic!Toggle
  <2> QED BY <1>2, <2>2, <2>3
<1>10. Refined
  BY <1>9 DEF Refined, Atomic!Next
<1> QED BY <1>5, <1>7, <1>8, <1>10 DEF Inv

\* Steps that change what a page shows, or nothing.
LEMMA ShownKeeps ==
    ASSUME Inv, rendered' \in Seq(Entry), popup' \in Seq(Entry), IsInjective(popup'),
           UNCHANGED <<unguarded, list, legacy, queue, options, edits, told, faults>>
    PROVE  Inv' /\ Refined
<1>1. Inv'
  BY DEF Inv, ListsInv, QueuesInv, OrderInv
<1> QED BY <1>1, Still

LEMMA NextKeeps == ASSUME Inv, [Next]_vars PROVE Inv' /\ Refined
<1>1. ASSUME NEW e \in Entry, AddToWhitelist(e) \/ AddEntry(e) \/ PauseSite(e)
      PROVE  Inv' /\ Refined
  BY <1>1, AddToWhitelistKeeps, AddEntryKeeps, PauseSiteKeeps
<1>2. ASSUME NEW i \in DOMAIN rendered, RemoveEntry(i) PROVE Inv' /\ Refined
  BY <1>2, RemoveEntryKeeps
<1>3. CASE StartMigration
  BY <1>3, StartMigrationKeeps
<1>4. CASE ReopenSettings
  BY <1>4, ShownKeeps DEF ReopenSettings, Inv, ListsInv
<1>5. CASE RenderPopup
  BY <1>5, ShownKeeps DEF RenderPopup, Inv, ListsInv
<1>6. CASE WorkerStep
  BY <1>6, TaskReadKeeps, AddWriteKeeps, MigrateWriteKeeps DEF WorkerStep
<1>7. CASE OptionsStep
  BY <1>7, OptionsReadKeeps, OptionsWriteKeeps DEF OptionsStep
<1>8. CASE UNCHANGED vars
  BY <1>8, ShownKeeps DEF vars, Inv, ListsInv
<1> QED BY <1>1, <1>2, <1>3, <1>4, <1>5, <1>6, <1>7, <1>8 DEF Next

-----------------------------------------------------------------------------
(* Theorems.                                                               *)

LEMMA InvAlways == Spec => []Inv
  BY InitInv, NextKeeps, PTL DEF Spec

\* The lists, the queues and what the pages show keep their types; no list ever
\* holds an entry twice.
THEOREM TypeCorrect == Spec => []TypeOK
<1>1. Inv => TypeOK
  BY DEF Inv, ListsInv, QueuesInv, QueueOK, TypeOK
<1> QED BY <1>1, InvAlways, PTL

\* The writers of the allowlist implement AtomicLists: with one queue at work every
\* step that changes the list is one edit asked for before, made to the list as it
\* is, whatever calls fail (list-mutation-queue.js, sync-mutation.js).
THEOREM WritersAreAtomic == Spec => EditsAreAtomic
<1>1. Init => Atomic!Init
  BY InitInv
<1>2. Inv /\ [Next]_vars => [unguarded \/ unguarded' \/ Atomic!Next]_(Atomic!vars)
  BY NextKeeps DEF Refined
<1> QED BY <1>1, <1>2, InvAlways, PTL DEF Spec, EditsAreAtomic
=============================================================================
