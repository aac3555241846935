---------------------------- MODULE DnrGateProofs ----------------------------
(***************************************************************************)
(* Proofs about DnrGate: its types, the memo of the category mirrors, for  *)
(* any number of overlapping passes, and what one pass that no other       *)
(* overlaps brings about.                                                  *)
(***************************************************************************)
EXTENDS DnrGate, TLAPS

-----------------------------------------------------------------------------
(* The inductive invariant.                                                *)

Waiting == {"loading", "readingRemote", "calling"}

Snapshot == [PrefKey -> BOOLEAN]

Reading == [pc |-> "reading", snap |-> NoPrefs, step |-> 0, attempt |-> 0]

\* An activation in the middle of a pass.
Pass == [pc : Waiting, snap : Snapshot, step : 1..10, attempt : 1..2]

\* What is known of a pass that is about to replace the mirrors.
MirrorsReady(a, loaded) ==
    a \in Pass /\ StepsOf(a.snap)[a.step] = "categoryMirrors"
        => /\ ~FirefoxMV2
           /\ a.pc # "readingRemote"
           /\ a.pc = "calling" /\ MirrorKey(a.snap) = "some" => loaded # "unread"

\* Every outstanding call is that of a pass waiting for it, and no pass has two.
Waits(q, w) ==
    /\ q \in Seq(Workers)
    /\ \A i \in 1..Len(q) : w[q[i]].pc = "calling"
    /\ \A i, j \in 1..Len(q) : q[i] = q[j] => i = j

PlainTypes ==
    /\ browser \in Browsers
    /\ pending \in Seq(PrefKey \cup {"onInstalled", "onStartup"})
    /\ mirrorKey \in {"unknown", "none", "some"}
    /\ staticRules \in {"unread", "loaded", "empty"}
    /\ verdict \in {"none", "ok", "failed"}
    /\ faults \in Nat /\ writes \in Nat /\ restarts \in Nat

BooleanTypes ==
    /\ rules \in [Family -> BOOLEAN]
    /\ overlapped \in BOOLEAN /\ misread \in BOOLEAN

PrefTypes == stored \in Snapshot /\ cachedPrefs \in {NoPrefs} \cup Snapshot

PassInv == worker \in [Workers -> {Idle, Reading} \cup Pass]

QueueInv == Waits(dnrQueue, worker)

ReadyInv == \A h \in Workers : MirrorsReady(worker[h], staticRules)

MemoInv ==
    /\ mirrorKey = "none" => ~rules["categoryMirrors"]
    /\ mirrorKey = "some" => rules["categoryMirrors"] \/ misread
    /\ staticRules = "empty" => misread

Inv == PlainTypes /\ BooleanTypes /\ PrefTypes /\ PassInv /\ QueueInv /\ ReadyInv
       /\ MemoInv

-----------------------------------------------------------------------------
(* The steps of a pass.                                                    *)

LEMMA StepFacts ==
  ASSUME NEW p
  PROVE  /\ Len(StepsOf(p)) = 10
         /\ \A i \in 1..10 :
              StepsOf(p)[i] \in {"categoryMirrors", "remoteScoped"}
                  => i + 1 \in 1..10 /\ StepsOf(p)[i + 1] # "categoryMirrors"
<1>1. /\ Len(OpenSteps) = 10 /\ Len(CloseSteps) = 10
  BY DEF OpenSteps, CloseSteps
<1>2. ASSUME NEW i \in 1..10, OpenSteps[i] \in {"categoryMirrors", "remoteScoped"}
      PROVE  i + 1 \in 1..10 /\ OpenSteps[i + 1] # "categoryMirrors"
  BY <1>2 DEF OpenSteps
<1>3. ASSUME NEW i \in 1..10, CloseSteps[i] \in {"categoryMirrors", "remoteScoped"}
      PROVE  i + 1 \in 1..10 /\ CloseSteps[i + 1] # "categoryMirrors"
  BY <1>3 DEF CloseSteps
<1>4. StepsOf(p) = OpenSteps \/ StepsOf(p) = CloseSteps
  BY Zenon DEF StepsOf
<1> QED
  BY <1>1, <1>2, <1>3, <1>4

-----------------------------------------------------------------------------
(* The queue of outstanding calls.                                         *)

\* A pass that is not waiting for a call may be replaced, and may issue one.
LEMMA QueueGrows ==
  ASSUME NEW q, NEW w \in [Workers -> {Idle, Reading} \cup Pass], Waits(q, w),
         NEW h \in Workers, \A i \in 1..Len(q) : q[i] # h,
         NEW a \in {Idle, Reading} \cup Pass
  PROVE  /\ Waits(q, [w EXCEPT ![h] = a])
         /\ a.pc = "calling" => Waits(Append(q, h), [w EXCEPT ![h] = a])
<1> DEFINE w2 == [w EXCEPT ![h] = a]
<1>1. \A i \in 1..Len(q) : w2[q[i]].pc = "calling"
  <2> SUFFICES ASSUME NEW i \in 1..Len(q) PROVE w2[q[i]].pc = "calling"
    OBVIOUS
  <2>1. q[i] \in Workers /\ q[i] # h /\ w[q[i]].pc = "calling"
    BY DEF Waits
  <2>2. w2[q[i]] = w[q[i]]
    BY <2>1
  <2> QED
    BY <2>1, <2>2
<1>2. Waits(q, w2)
  BY <1>1 DEF Waits
<1>3. ASSUME a.pc = "calling" PROVE Waits(Append(q, h), w2)
  <2> DEFINE q2 == Append(q, h)
  <2>1. q \in Seq(Workers) /\ q2 \in Seq(Workers) /\ Len(q2) = Len(q) + 1
        /\ Len(q) \in Nat
    BY DEF Waits
  <2>2. \A i \in 1..Len(q) : q2[i] = q[i]
    BY <2>1
  <2>3. q2[Len(q) + 1] = h
    BY <2>1
  <2>4. \A i \in 1..Len(q2) : i \in 1..Len(q) \/ i = Len(q) + 1
    BY <2>1
  <2>5. w2[h].pc = "calling"
    BY <1>3
  <2>6. \A i \in 1..Len(q2) : w2[q2[i]].pc = "calling"
    BY <1>1, <2>2, <2>3, <2>4, <2>5
  <2>7. \A i, j \in 1..Len(q2) : q2[i] = q2[j] => i = j
    BY <2>2, <2>3, <2>4 DEF Waits
  <2> QED
    BY <2>1, <2>6, <2>7 DEF Waits
<1> QED
  BY <1>2, <1>3

\* The pass whose call is served waits for no other.
LEMMA QueueServes ==
  ASSUME NEW q, NEW w, Waits(q, w), q # <<>>
  PROVE  /\ Head(q) \in Workers /\ w[Head(q)].pc = "calling"
         /\ Waits(Tail(q), w)
         /\ \A i \in 1..Len(Tail(q)) : Tail(q)[i] # Head(q)
<1> DEFINE t == Tail(q)
<1>1. q \in Seq(Workers)
  BY DEF Waits
<1>2. t \in Seq(Workers) /\ Len(t) = Len(q) - 1 /\ Len(q) \in Nat /\ Len(q) > 0
  BY <1>1
<1>3. \A i \in 1..Len(t) : t[i] = q[i + 1] /\ i + 1 \in 1..Len(q)
  BY <1>1, <1>2
<1>4. Head(q) = q[1] /\ 1 \in 1..Len(q) /\ Head(q) \in Workers
  BY <1>1, <1>2
<1>5. \A i \in 1..Len(t) : w[t[i]].pc = "calling"
  BY <1>3 DEF Waits
<1>6. \A i, j \in 1..Len(t) : t[i] = t[j] => i = j
  <2> SUFFICES ASSUME NEW i \in 1..Len(t), NEW j \in 1..Len(t), t[i] = t[j]
               PROVE  i = j
    OBVIOUS
  <2>1. i + 1 = j + 1
    BY <1>3 DEF Waits
  <2> QED
    BY <2>1, <1>2
<1>7. \A i \in 1..Len(t) : t[i] # Head(q)
  <2> SUFFICES ASSUME NEW i \in 1..Len(t), t[i] = q[1] PROVE FALSE
    BY <1>4
  <2>1. i + 1 = 1
    BY <1>3, <1>4 DEF Waits
  <2> QED
    BY <2>1, <1>2
<1> QED
  BY <1>2, <1>4, <1>5, <1>6, <1>7 DEF Waits

LEMMA NotQueued ==
  ASSUME NEW q, NEW w, Waits(q, w), NEW h, w[h].pc # "calling"
  PROVE  \A i \in 1..Len(q) : q[i] # h
BY DEF Waits

-----------------------------------------------------------------------------
(* GoTo puts a pass at a step whose call it may make.                      *)

LEMMA GoToPass ==
  ASSUME PassInv, NEW h \in Workers, NEW p \in Snapshot, NEW i \in 1..10,
         NEW attempt \in 1..2, NEW q, Waits(q, worker),
         \A k \in 1..Len(q) : q[k] # h,
         GoTo(h, p, i, attempt, q)
  PROVE  \E a \in Pass : /\ worker' = [worker EXCEPT ![h] = a]
                         /\ Waits(dnrQueue', worker')
                         /\ MirrorsReady(a, staticRules)
<1> DEFINE next == IF Skipped(p, StepsOf(p)[i]) THEN i + 1 ELSE i
           step == StepsOf(p)[next]
           pc == IF step = "categoryMirrors" /\ MirrorKey(p) = "some"
                      /\ staticRules = "unread"
                 THEN "loading"
                 ELSE IF step = "remoteScoped" /\ p.remoteRulesEnabled
                      THEN "readingRemote" ELSE "calling"
           a == [pc |-> pc, snap |-> p, step |-> next, attempt |-> attempt]
<1>1. /\ worker' = [worker EXCEPT ![h] = a]
      /\ dnrQueue' = IF pc = "calling" THEN Append(q, h) ELSE q
  BY Zenon DEF GoTo
<1>2. Skipped(p, StepsOf(p)[i]) => StepsOf(p)[i] \in {"categoryMirrors", "remoteScoped"}
  BY DEF Skipped
<1>3. next \in 1..10
  BY <1>2, StepFacts
<1>4. pc \in Waiting
  BY Zenon DEF Waiting
<1>5. a \in Pass
  BY <1>3, <1>4 DEF Pass
<1>6. step = "categoryMirrors" => ~Skipped(p, step)
  <2>1. CASE Skipped(p, StepsOf(p)[i])
    BY <2>1, <1>2, StepFacts
  <2>2. CASE ~Skipped(p, StepsOf(p)[i])
    BY <2>2
  <2> QED
    BY <2>1, <2>2
<1>7. MirrorsReady(a, staticRules)
  <2> SUFFICES ASSUME step = "categoryMirrors"
               PROVE  ~FirefoxMV2 /\ pc # "readingRemote"
                      /\ (pc = "calling" /\ MirrorKey(p) = "some"
                              => staticRules # "unread")
    BY DEF MirrorsReady
  <2>1. ~FirefoxMV2
    BY <1>6, Zenon DEF Skipped
  <2> QED
    BY <2>1
<1>8. a.pc = pc
  OBVIOUS
<1> HIDE DEF next, step, pc, a
<1>9. Waits(dnrQueue', worker')
  BY <1>1, <1>5, <1>8, QueueGrows DEF PassInv
<1> QED
  BY <1>1, <1>5, <1>7, <1>9

LEMMA ReturnIdle ==
  ASSUME PassInv, NEW h \in Workers, NEW q, Waits(q, worker),
         \A k \in 1..Len(q) : q[k] # h, Return(h, q)
  PROVE  worker' = [worker EXCEPT ![h] = Idle] /\ Waits(dnrQueue', worker')
BY QueueGrows DEF Return, PassInv

-----------------------------------------------------------------------------
(* What follows for the invariant when one activation moves.               *)

LEMMA ReadyKept ==
  ASSUME PassInv, ReadyInv, browser' = browser, NEW h \in Workers, NEW a,
         worker' = [worker EXCEPT ![h] = a], MirrorsReady(a, staticRules'),
         staticRules # "unread" => staticRules' # "unread"
  PROVE  ReadyInv'
<1> SUFFICES ASSUME NEW k \in Workers PROVE MirrorsReady(worker[k], staticRules)'
  BY DEF ReadyInv
<1>1. CASE k = h
  <2>1. worker'[k] = a
    BY <1>1 DEF PassInv
  <2> QED
    BY <2>1 DEF MirrorsReady, FirefoxMV2
<1>2. CASE k # h
  <2>1. worker'[k] = worker[k]
    BY <1>2 DEF PassInv
  <2>2. MirrorsReady(worker[k], staticRules)
    BY DEF ReadyInv
  <2> QED
    BY <2>1, <2>2 DEF MirrorsReady, FirefoxMV2
<1> QED
  BY <1>1, <1>2

LEMMA PassKept ==
  ASSUME PassInv, NEW h \in Workers, NEW a \in {Idle, Reading} \cup Pass,
         worker' = [worker EXCEPT ![h] = a]
  PROVE  PassInv'
BY DEF PassInv

LEMMA NotReady ==
  ASSUME NEW loaded
  PROVE  MirrorsReady(Idle, loaded) /\ MirrorsReady(Reading, loaded)
BY DEF MirrorsReady, Idle, Reading, Pass, Waiting

\* A listener that begins a pass.
LEMMA Starts ==
  ASSUME PassInv, QueueInv, ReadyInv, NEW h \in Workers, worker[h] = Idle,
         StartPass(h), UNCHANGED <<browser, staticRules, dnrQueue>>
  PROVE  PassInv' /\ QueueInv' /\ ReadyInv' /\ overlapped' \in BOOLEAN
<1>1. worker' = [worker EXCEPT ![h] = Reading]
  <2>1. worker' = [worker EXCEPT ![h] = [worker[h] EXCEPT !.pc = "reading"]]
    BY Zenon DEF StartPass
  <2>2. [Idle EXCEPT !.pc = "reading"] = Reading
    BY DEF Idle, Reading
  <2> QED
    BY <2>1, <2>2
<1>2. PassInv'
  BY <1>1, PassKept
<1>3. QueueInv'
  <2>1. \A i \in 1..Len(dnrQueue) : dnrQueue[i] # h
    BY NotQueued DEF QueueInv, Idle
  <2> QED
    BY <1>1, <2>1, QueueGrows DEF QueueInv, PassInv
<1>4. ReadyInv'
  BY <1>1, ReadyKept, NotReady
<1>5. overlapped' \in BOOLEAN
  BY Zenon DEF StartPass
<1> QED
  BY <1>2, <1>3, <1>4, <1>5

-----------------------------------------------------------------------------
(* The initial states.                                                     *)

LEMMA InvInit == Init => Inv
<1> SUFFICES ASSUME Init PROVE Inv
  OBVIOUS
<1>1. PlainTypes
  BY DEF Init, PlainTypes
<1>2. BooleanTypes
  <2>1. rules \in [Family -> BOOLEAN]
    BY Zenon DEF Init
  <2> QED
    BY <2>1, Zenon DEF Init, BooleanTypes
<1>3. PrefTypes
  <2>1. Defaults \in Snapshot
    BY DEF Defaults, Snapshot
  <2> QED
    BY <2>1 DEF Init, PrefTypes
<1>4. PassInv /\ QueueInv
  BY DEF Init, PassInv, QueueInv, Waits
<1>5. ReadyInv
  BY NotReady DEF Init, ReadyInv
<1>6. MemoInv
  BY DEF Init, MemoInv
<1> QED
  BY <1>1, <1>2, <1>3, <1>4, <1>5, <1>6 DEF Inv

-----------------------------------------------------------------------------
(* The user, the browser and the listeners.                                *)

LEMMA UserStep ==
  ASSUME Inv, NEW k \in UserKeys, UserWrites(k)
  PROVE  Inv'
<1>1. UNCHANGED <<browser, overlapped, misread, cachedPrefs, mirrorKey, staticRules,
                  worker, dnrQueue, rules, verdict, faults, restarts>>
  BY Zenon DEF UserWrites
<1>2. k \in PrefKey
  BY ConstantsAssumption
<1>3. PlainTypes'
  BY <1>1, <1>2 DEF Inv, PlainTypes, UserWrites
<1>4. PrefTypes'
  <2>1. stored' = [stored EXCEPT ![k] = ~@]
    BY Zenon DEF UserWrites
  <2>2. stored' \in Snapshot
    BY <2>1, <1>2, Zenon DEF Inv, PrefTypes, Snapshot
  <2> QED
    BY <1>1, <2>2 DEF Inv, PrefTypes
<1> QED
  BY <1>1, <1>3, <1>4, Zenon DEF Inv, BooleanTypes, PassInv, QueueInv, ReadyInv,
     MemoInv, MirrorsReady, FirefoxMV2

LEMMA EvictStep ==
  ASSUME Inv, Evict
  PROVE  Inv'
<1>1. UNCHANGED <<browser, overlapped, misread, stored, pending, worker, dnrQueue,
                  rules, verdict, faults, writes>>
  BY Zenon DEF Evict
<1>2. /\ cachedPrefs' = NoPrefs /\ mirrorKey' = "unknown" /\ staticRules' = "unread"
      /\ restarts' = restarts + 1 /\ Quiet
  BY Zenon DEF Evict
<1>3. PlainTypes'
  BY <1>1, <1>2 DEF Inv, PlainTypes
<1>4. PrefTypes'
  BY <1>1, <1>2 DEF Inv, PrefTypes
<1>5. ReadyInv'
  BY <1>1, <1>2, NotReady DEF Quiet, ReadyInv, MirrorsReady, Pass, Idle, Waiting
<1>6. MemoInv'
  BY <1>2 DEF MemoInv
<1> QED
  BY <1>1, <1>3, <1>4, <1>5, <1>6, Zenon DEF Inv, BooleanTypes, PassInv, QueueInv

LEMMA RestartStep ==
  ASSUME Inv, BrowserRestarts
  PROVE  Inv'
<1>1. UNCHANGED <<browser, misread, stored, rules, verdict, faults, writes>>
  BY Zenon DEF BrowserRestarts
<1>2. /\ cachedPrefs' = NoPrefs /\ mirrorKey' = "unknown" /\ staticRules' = "unread"
      /\ restarts' = restarts + 1 /\ worker' = [h \in Workers |-> Idle]
      /\ dnrQueue' = <<>> /\ pending' = <<"onStartup">> /\ overlapped' = FALSE
  BY Zenon DEF BrowserRestarts
<1>3. PlainTypes'
  BY <1>1, <1>2 DEF Inv, PlainTypes
<1>4. PrefTypes'
  BY <1>1, <1>2 DEF Inv, PrefTypes
<1>5. PassInv' /\ QueueInv'
  BY <1>2 DEF PassInv, QueueInv, Waits
<1>6. ReadyInv'
  BY <1>2, NotReady DEF ReadyInv, MirrorsReady, Pass, Idle, Waiting
<1>7. MemoInv' /\ BooleanTypes'
  BY <1>1, <1>2, Zenon DEF Inv, BooleanTypes, MemoInv
<1> QED
  BY <1>3, <1>4, <1>5, <1>6, <1>7 DEF Inv

LEMMA PendingTypes ==
  ASSUME NEW T, NEW q \in Seq(T), q # <<>>, NEW e \in T
  PROVE  Head(q) \in T /\ Tail(q) \in Seq(T) /\ Append(Tail(q), e) \in Seq(T)
OBVIOUS

LEMMA OnChangedStep ==
  ASSUME Inv, NEW h \in Workers, OnChanged(h)
  PROVE  Inv'
<1>1. UNCHANGED <<browser, misread, stored, mirrorKey, staticRules, dnrQueue, rules,
                  verdict, faults, writes, restarts>>
  BY Zenon DEF OnChanged
<1>2. /\ pending # <<>> /\ worker[h] = Idle /\ pending' = Tail(pending)
      /\ cachedPrefs' = NoPrefs
      /\ StartPass(h) \/ UNCHANGED <<worker, overlapped>>
  BY Zenon DEF OnChanged, CanDeliver, Invalidated
<1>3. PlainTypes'
  BY <1>1, <1>2, PendingTypes DEF Inv, PlainTypes
<1>4. PrefTypes'
  BY <1>1, <1>2 DEF Inv, PrefTypes
<1>5. PassInv' /\ QueueInv' /\ ReadyInv' /\ overlapped' \in BOOLEAN
  <2>1. CASE StartPass(h)
    BY <1>1, <1>2, <2>1, Starts DEF Inv
  <2>2. CASE UNCHANGED <<worker, overlapped>>
    BY <1>1, <2>2, Zenon DEF Inv, PassInv, QueueInv, ReadyInv, BooleanTypes,
       MirrorsReady, FirefoxMV2
  <2> QED
    BY <1>2, <2>1, <2>2
<1>6. MemoInv' /\ BooleanTypes'
  BY <1>1, <1>5, Zenon DEF Inv, BooleanTypes, MemoInv
<1> QED
  BY <1>3, <1>4, <1>5, <1>6 DEF Inv

LEMMA OnStartupStep ==
  ASSUME Inv, NEW h \in Workers, OnStartup(h)
  PROVE  Inv'
<1>1. UNCHANGED <<browser, misread, stored, cachedPrefs, mirrorKey, staticRules,
                  dnrQueue, rules, verdict, faults, writes, restarts>>
  BY Zenon DEF OnStartup
<1>2. /\ pending # <<>> /\ worker[h] = Idle /\ pending' = Tail(pending)
      /\ StartPass(h)
  BY Zenon DEF OnStartup, CanDeliver
<1>3. PlainTypes'
  BY <1>1, <1>2, PendingTypes DEF Inv, PlainTypes
<1>4. PassInv' /\ QueueInv' /\ ReadyInv' /\ overlapped' \in BOOLEAN
  BY <1>1, <1>2, Starts DEF Inv
<1>5. PrefTypes' /\ MemoInv' /\ BooleanTypes'
  BY <1>1, <1>4, Zenon DEF Inv, BooleanTypes, MemoInv, PrefTypes
<1> QED
  BY <1>3, <1>4, <1>5 DEF Inv

LEMMA OnInstalledStep ==
  ASSUME Inv, NEW h \in Workers, OnInstalled(h)
  PROVE  Inv'
<1>1. UNCHANGED <<browser, misread, cachedPrefs, mirrorKey, staticRules, dnrQueue,
                  rules, verdict, faults, writes, restarts>>
  BY Zenon DEF OnInstalled
<1>2. /\ pending # <<>> /\ worker[h] = Idle
      /\ pending' = Append(Tail(pending), "onboardingDone")
      /\ stored' = [stored EXCEPT !.onboardingDone = TRUE]
      /\ StartPass(h)
  BY Zenon DEF OnInstalled, CanDeliver
<1>3. PlainTypes'
  <2>1. "onboardingDone" \in PrefKey
    BY DEF PrefKey
  <2> QED
    BY <1>1, <1>2, <2>1, PendingTypes DEF Inv, PlainTypes
<1>4. PassInv' /\ QueueInv' /\ ReadyInv' /\ overlapped' \in BOOLEAN
  BY <1>1, <1>2, Starts DEF Inv
<1>5. PrefTypes'
  <2>1. stored' \in Snapshot
    BY <1>2, Zenon DEF Inv, PrefTypes, Snapshot
  <2> QED
    BY <1>1, <2>1 DEF Inv, PrefTypes
<1>6. MemoInv' /\ BooleanTypes'
  BY <1>1, <1>4, Zenon DEF Inv, BooleanTypes, MemoInv
<1> QED
  BY <1>3, <1>4, <1>5, <1>6 DEF Inv

-----------------------------------------------------------------------------
(* A pass moves on.                                                        *)

LEMMA InPass ==
  ASSUME PassInv, NEW h \in Workers, worker[h].pc \in Waiting
  PROVE  worker[h] \in Pass
BY DEF PassInv, Idle, Reading, Waiting

\* A pass that issues the call of the step it is at.
LEMMA Calls ==
  ASSUME Inv, NEW h \in Workers, worker[h].pc \in {"loading", "readingRemote"},
         worker' = [worker EXCEPT ![h].pc = "calling"],
         dnrQueue' = Append(dnrQueue, h), browser' = browser,
         staticRules # "unread" => staticRules' # "unread",
         worker[h].pc = "loading" => staticRules' # "unread"
  PROVE  PassInv' /\ QueueInv' /\ ReadyInv'
<1> DEFINE a == [worker[h] EXCEPT !.pc = "calling"]
<1>1. worker[h] \in Pass
  BY InPass DEF Inv, Waiting
<1>2. a \in Pass /\ a.pc = "calling" /\ a.snap = worker[h].snap /\ a.step = worker[h].step
  BY <1>1 DEF Pass, Waiting
<1>3. worker' = [worker EXCEPT ![h] = a]
  BY Zenon
<1>4. MirrorsReady(worker[h], staticRules)
  BY DEF Inv, ReadyInv
<1>5. MirrorsReady(a, staticRules')
  BY <1>1, <1>2, <1>4 DEF MirrorsReady
<1>6. \A i \in 1..Len(dnrQueue) : dnrQueue[i] # h
  BY NotQueued DEF Inv, QueueInv
<1> HIDE DEF a
<1>7. PassInv'
  BY <1>2, <1>3, PassKept DEF Inv
<1>8. QueueInv'
  <2>1. Waits(dnrQueue, worker) /\ worker \in [Workers -> {Idle, Reading} \cup Pass]
    BY DEF Inv, QueueInv, PassInv
  <2>2. Waits(Append(dnrQueue, h), [worker EXCEPT ![h] = a])
    BY <1>2, <1>6, <2>1, QueueGrows
  <2> QED
    BY <1>3, <2>2, Zenon DEF QueueInv
<1>9. ReadyInv'
  BY <1>3, <1>5, ReadyKept DEF Inv
<1> QED
  BY <1>7, <1>8, <1>9

LEMMA ReadPrefsStep ==
  ASSUME Inv, NEW h \in Workers, ReadPrefs(h)
  PROVE  Inv'
<1> DEFINE p == IF cachedPrefs = NoPrefs THEN stored ELSE cachedPrefs
<1>1. UNCHANGED <<browser, overlapped, misread, stored, pending, mirrorKey,
                  staticRules, rules, verdict, faults, writes, restarts>>
  BY Zenon DEF ReadPrefs
<1>2. worker[h].pc = "reading" /\ cachedPrefs' = p /\ GoTo(h, p, 1, 1, dnrQueue)
  BY Zenon DEF ReadPrefs
<1>3. p \in Snapshot
  BY DEF Inv, PrefTypes
<1> HIDE DEF p
<1>4. \A k \in 1..Len(dnrQueue) : dnrQueue[k] # h
  BY <1>2, NotQueued DEF Inv, QueueInv
<1>5. PICK a \in Pass : /\ worker' = [worker EXCEPT ![h] = a]
                        /\ Waits(dnrQueue', worker')
                        /\ MirrorsReady(a, staticRules)
  <2>1. 1 \in 1..10 /\ 1 \in 1..2
    OBVIOUS
  <2> QED
    BY <1>2, <1>3, <1>4, <2>1, GoToPass, Zenon DEF Inv, QueueInv
<1>6. PassInv' /\ ReadyInv' /\ QueueInv'
  BY <1>1, <1>5, PassKept, ReadyKept DEF Inv, QueueInv
<1>7. PrefTypes'
  BY <1>1, <1>2, <1>3 DEF Inv, PrefTypes
<1> QED
  BY <1>1, <1>6, <1>7, Zenon DEF Inv, PlainTypes, BooleanTypes, MemoInv

LEMMA StaticRulesReadStep ==
  ASSUME Inv, NEW h \in Workers, StaticRulesRead(h)
  PROVE  Inv'
<1>1. UNCHANGED <<browser, overlapped, stored, pending, cachedPrefs, mirrorKey, rules,
                  verdict, writes, restarts>>
  BY Zenon DEF StaticRulesRead
<1>2. /\ worker[h].pc = "loading"
      /\ worker' = [worker EXCEPT ![h].pc = "calling"]
      /\ dnrQueue' = Append(dnrQueue, h)
  BY Zenon DEF StaticRulesRead
<1>3. \/ staticRules' = "loaded" /\ UNCHANGED <<misread, faults>>
      \/ staticRules' = "empty" /\ misread' = TRUE /\ faults' = faults + 1
  BY Zenon DEF StaticRulesRead
<1>4. PassInv' /\ QueueInv' /\ ReadyInv'
  BY <1>1, <1>2, <1>3, Calls
<1>5. PlainTypes'
  BY <1>1, <1>3 DEF Inv, PlainTypes
<1>6. BooleanTypes' /\ MemoInv'
  <2>1. CASE staticRules' = "loaded" /\ UNCHANGED <<misread, faults>>
    <3>1. staticRules' # "empty"
      BY <2>1
    <3> QED
      BY <1>1, <2>1, <3>1, Zenon DEF Inv, BooleanTypes, MemoInv
  <2>2. CASE misread' = TRUE
    BY <1>1, <2>2, Zenon DEF Inv, BooleanTypes, MemoInv
  <2> QED
    BY <1>3, <2>1, <2>2
<1>7. PrefTypes'
  BY <1>1 DEF Inv, PrefTypes
<1> QED
  BY <1>4, <1>5, <1>6, <1>7 DEF Inv

LEMMA RemoteCacheReadStep ==
  ASSUME Inv, NEW h \in Workers, RemoteCacheRead(h)
  PROVE  Inv'
<1>1. UNCHANGED <<browser, overlapped, misread, stored, pending, cachedPrefs,
                  mirrorKey, staticRules, rules, verdict, faults, writes, restarts>>
  BY Zenon DEF RemoteCacheRead
<1>2. /\ worker[h].pc = "readingRemote"
      /\ worker' = [worker EXCEPT ![h].pc = "calling"]
      /\ dnrQueue' = Append(dnrQueue, h)
  BY Zenon DEF RemoteCacheRead
<1>3. PassInv' /\ QueueInv' /\ ReadyInv'
  BY <1>1, <1>2, Calls
<1> QED
  BY <1>1, <1>3, Zenon DEF Inv, PlainTypes, BooleanTypes, PrefTypes, MemoInv

-----------------------------------------------------------------------------
(* A call is served.                                                       *)

LEMMA WantTypes ==
  ASSUME NEW p \in Snapshot
  PROVE  Want(p) \in [Family -> BOOLEAN]
<1>1. \A f \in DynamicFamily : DynamicRules(p)[f] \in BOOLEAN
  <2>1. /\ p.disabledCategories \in BOOLEAN /\ p.customParams \in BOOLEAN
        /\ p.whitelist \in BOOLEAN /\ p.suppressReferer \in BOOLEAN
        /\ p.blockBeacons \in BOOLEAN /\ p.blacklist \in BOOLEAN
        /\ p.remoteRulesEnabled \in BOOLEAN
    BY DEF Snapshot, PrefKey
  <2>2. /\ DynamicRules(p)["allowlist"] = p.whitelist
        /\ DynamicRules(p)["suppressReferer"] = p.suppressReferer
        /\ DynamicRules(p)["blockBeacons"] = p.blockBeacons
        /\ DynamicRules(p)["blocklistReferer"] = p.blacklist
        /\ DynamicRules(p)["blocklistBeacons"] = p.blacklist
    BY DEF DynamicRules
  <2>3. /\ DynamicRules(p)["categoryMirrors"] \in BOOLEAN
        /\ DynamicRules(p)["customParams"] \in BOOLEAN
        /\ DynamicRules(p)["remoteScoped"] \in BOOLEAN
        /\ DynamicRules(p)["remoteParams"] \in BOOLEAN
    BY Zenon DEF DynamicRules
  <2> QED
    BY <2>1, <2>2, <2>3, Zenon DEF DynamicFamily
<1>2. OpenRules(p) \in [Family -> BOOLEAN]
  <2> SUFFICES ASSUME NEW f \in Family
               PROVE  (IF f \in StaticFamily THEN f \in PartitionRulesets(p)
                       ELSE DynamicRules(p)[f]) \in BOOLEAN
    BY Zenon DEF OpenRules
  <2>1. CASE f \in StaticFamily
    <3>1. (f \in PartitionRulesets(p)) \in BOOLEAN
      BY DEF PartitionRulesets
    <3> QED
      BY <2>1, <3>1, Zenon
  <2>2. CASE f \notin StaticFamily
    <3>1. f \in DynamicFamily
      BY <2>2 DEF Family
    <3> QED
      BY <1>1, <2>2, <3>1, Zenon
  <2> QED
    BY <2>1, <2>2
<1>3. NoRules \in [Family -> BOOLEAN]
  BY DEF NoRules
<1> QED
  BY <1>2, <1>3, Zenon DEF Want

\* The mirrors are wanted exactly when the key to remember for them says so.
LEMMA WantMirrors ==
  ASSUME NEW p \in Snapshot, ~FirefoxMV2
  PROVE  Want(p)["categoryMirrors"] <=> MirrorKey(p) = "some"
<1>1. "categoryMirrors" \in Family /\ "categoryMirrors" \notin StaticFamily
  BY DEF Family, DynamicFamily, StaticFamily
<1>2. NoRules["categoryMirrors"] = FALSE
  BY <1>1 DEF NoRules
<1>3. OpenRules(p)["categoryMirrors"] = DynamicRules(p)["categoryMirrors"]
  BY <1>1, Zenon DEF OpenRules
<1>4. DynamicRules(p)["categoryMirrors"] <=> p.disabledCategories
  BY DEF DynamicRules
<1>5. MirrorKey(p) = "some" <=> GateOpen(p) /\ p.disabledCategories
  BY DEF MirrorKey
<1>6. CASE GateOpen(p)
  BY <1>3, <1>4, <1>5, <1>6, Zenon DEF Want
<1>7. CASE ~GateOpen(p)
  BY <1>2, <1>5, <1>7, Zenon DEF Want
<1> QED
  BY <1>6, <1>7

LEMMA EffectTypes ==
  ASSUME BooleanTypes, NEW p \in Snapshot, NEW step
  PROVE  Effect(p, step) \in [Family -> BOOLEAN]
<1> SUFFICES ASSUME NEW f \in Family
             PROVE  (IF f \notin Covers(p, step) THEN rules[f]
                     ELSE IF f = "categoryMirrors"
                          THEN Want(p)[f] /\ staticRules = "loaded"
                          ELSE Want(p)[f]) \in BOOLEAN
  BY Zenon DEF Effect
<1>1. rules[f] \in BOOLEAN /\ Want(p)[f] \in BOOLEAN
  BY WantTypes DEF BooleanTypes
<1> QED
  BY <1>1, Zenon

\* Only their own step touches the mirrors.
LEMMA EffectMirrors ==
  ASSUME NEW p, NEW step
  PROVE  /\ step # "categoryMirrors" =>
              Effect(p, step)["categoryMirrors"] = rules["categoryMirrors"]
         /\ step = "categoryMirrors" =>
              (Effect(p, step)["categoryMirrors"]
                   <=> Want(p)["categoryMirrors"] /\ staticRules = "loaded")
<1>1. "categoryMirrors" \in Family /\ "categoryMirrors" \notin StaticFamily
  BY DEF Family, DynamicFamily, StaticFamily
<1>2. Effect(p, step)["categoryMirrors"]
        = IF "categoryMirrors" \notin Covers(p, step) THEN rules["categoryMirrors"]
          ELSE Want(p)["categoryMirrors"] /\ staticRules = "loaded"
  BY <1>1, Zenon DEF Effect
<1>3. "categoryMirrors" \in Covers(p, step) <=> step = "categoryMirrors"
  <2>1. CASE step = "categoryMirrors"
    BY <2>1 DEF Covers
  <2>2. CASE step # "categoryMirrors"
    BY <1>1, <2>2 DEF Covers
  <2> QED
    BY <2>1, <2>2
<1> QED
  BY <1>2, <1>3, Zenon

\* A pass that goes on, or returns, after its call was served.
LEMMA MovesOn ==
  ASSUME Inv, NEW h \in Workers, dnrQueue # <<>>, Head(dnrQueue) = h,
         NEW i \in 1..10, NEW attempt \in 1..2, UNCHANGED <<browser, staticRules>>,
         \/ Return(h, Tail(dnrQueue))
         \/ GoTo(h, worker[h].snap, i, attempt, Tail(dnrQueue))
  PROVE  PassInv' /\ QueueInv' /\ ReadyInv'
<1> DEFINE q == Tail(dnrQueue)
<1>1. Waits(dnrQueue, worker)
  BY DEF Inv, QueueInv
<1>2. worker[h].pc = "calling" /\ Waits(q, worker) /\ \A k \in 1..Len(q) : q[k] # h
  BY <1>1, QueueServes
<1>3. worker[h].snap \in Snapshot
  BY <1>2, InPass DEF Inv, Waiting, Pass
<1>4. PICK a \in {Idle} \cup Pass : /\ worker' = [worker EXCEPT ![h] = a]
                                    /\ Waits(dnrQueue', worker')
                                    /\ MirrorsReady(a, staticRules)
  <2>1. CASE Return(h, q)
    BY <1>2, <2>1, ReturnIdle, NotReady DEF Inv
  <2>2. CASE GoTo(h, worker[h].snap, i, attempt, q)
    <3> HIDE DEF q
    <3>1. PICK a \in Pass : /\ worker' = [worker EXCEPT ![h] = a]
                            /\ Waits(dnrQueue', worker')
                            /\ MirrorsReady(a, staticRules)
      BY <1>2, <1>3, <2>2, GoToPass, Zenon DEF Inv
    <3> QED
      BY <3>1
  <2> QED
    BY <2>1, <2>2
<1> QED
  BY <1>4, PassKept, ReadyKept DEF Inv, QueueInv

LEMMA ServeCallStep ==
  ASSUME Inv, NEW h \in Workers, ServeCall(h)
  PROVE  Inv'
<1> DEFINE p == worker[h].snap
           i == worker[h].step
           step == StepsOf(p)[i]
<1>1. UNCHANGED <<browser, overlapped, misread, stored, pending, cachedPrefs,
                  staticRules, verdict, writes, restarts>>
  BY Zenon DEF ServeCall
<1>2. dnrQueue # <<>> /\ Head(dnrQueue) = h
  BY Zenon DEF ServeCall
<1>3. \/ /\ rules' = Effect(p, step)
         /\ mirrorKey' = Memo(p, step, TRUE)
         /\ faults' = faults
      \/ /\ faults' = faults + 1
         /\ mirrorKey' = Memo(p, step, FALSE)
         /\ rules' = rules
  BY Zenon DEF ServeCall
<1>4. \/ Return(h, Tail(dnrQueue))
      \/ i # Len(StepsOf(p)) /\ GoTo(h, p, i + 1, worker[h].attempt, Tail(dnrQueue))
  BY Zenon DEF ServeCall
<1>5. worker[h].pc = "calling" /\ worker[h] \in Pass
  <2>1. worker[h].pc = "calling"
    BY <1>2, QueueServes DEF Inv, QueueInv
  <2> QED
    BY <2>1, InPass DEF Inv, Waiting
<1>6. p \in Snapshot /\ i \in 1..10 /\ worker[h].attempt \in 1..2
  BY <1>5 DEF Pass
<1>7. PassInv' /\ QueueInv' /\ ReadyInv'
  <2>1. CASE Return(h, Tail(dnrQueue))
    BY <1>1, <1>2, <1>6, <2>1, MovesOn
  <2>2. CASE i # Len(StepsOf(p)) /\ GoTo(h, p, i + 1, worker[h].attempt, Tail(dnrQueue))
    <3>1. Len(StepsOf(p)) = 10
      BY StepFacts, Zenon
    <3>2. i + 1 \in 1..10
      BY <1>6, <2>2, <3>1
    <3> QED
      BY <1>1, <1>2, <1>6, <2>2, <3>2, MovesOn
  <2> QED
    BY <1>4, <2>1, <2>2
<1>8. MirrorKey(p) \in {"none", "some"}
  BY DEF MirrorKey
<1>9. PlainTypes'
  <2>1. mirrorKey' \in {"unknown", "none", "some"}
    BY <1>3, <1>8, Zenon DEF Inv, PlainTypes, Memo
  <2>2. faults' = faults \/ faults' = faults + 1
    BY <1>3, Zenon
  <2>3. faults' \in Nat
    BY <2>2 DEF Inv, PlainTypes
  <2> QED
    BY <1>1, <2>1, <2>3, Zenon DEF Inv, PlainTypes
<1>10. BooleanTypes'
  <2>1. BooleanTypes
    BY DEF Inv
  <2>2. Effect(p, step) \in [Family -> BOOLEAN]
    <3> HIDE DEF p, step
    <3> QED
      BY <1>6, <2>1, EffectTypes
  <2>3. rules' \in [Family -> BOOLEAN]
    BY <1>3, <2>1, <2>2, Zenon DEF BooleanTypes
  <2> QED
    BY <1>1, <2>1, <2>3, Zenon DEF BooleanTypes
<1>11. MemoInv'
  <2>1. MemoInv
    BY DEF Inv
  <2>2. CASE rules' = rules /\ mirrorKey' = Memo(p, step, FALSE)
    <3>1. mirrorKey' = mirrorKey
      BY <2>2, Zenon DEF Memo
    <3> QED
      BY <1>1, <2>1, <2>2, <3>1, Zenon DEF MemoInv
  <2>3. CASE rules' = Effect(p, step) /\ mirrorKey' = Memo(p, step, TRUE)
    <3>1. CASE step # "categoryMirrors"
      <4>1. mirrorKey' = mirrorKey
        BY <2>3, <3>1, Zenon DEF Memo
      <4>2. rules'["categoryMirrors"] = rules["categoryMirrors"]
        BY <2>3, <3>1, EffectMirrors, Zenon
      <4> QED
        BY <1>1, <2>1, <4>1, <4>2, Zenon DEF MemoInv
    <3>2. CASE step = "categoryMirrors"
      <4>1. MirrorsReady(worker[h], staticRules)
        BY DEF Inv, ReadyInv
      <4>2. ~FirefoxMV2 /\ (MirrorKey(p) = "some" => staticRules # "unread")
        BY <1>5, <3>2, <4>1 DEF MirrorsReady
      <4>3. mirrorKey' = MirrorKey(p)
        BY <2>3, <3>2, Zenon DEF Memo
      <4>4. rules'["categoryMirrors"]
              <=> MirrorKey(p) = "some" /\ staticRules = "loaded"
        BY <1>6, <2>3, <3>2, <4>2, EffectMirrors, WantMirrors, Zenon
      <4>5. staticRules \in {"unread", "loaded", "empty"}
        BY DEF Inv, PlainTypes
      <4>6. mirrorKey' = "none" => ~rules'["categoryMirrors"]
        BY <4>3, <4>4
      <4>7. mirrorKey' = "some" => rules'["categoryMirrors"] \/ misread'
        <5>1. CASE staticRules = "loaded"
          BY <4>3, <4>4, <5>1, Zenon
        <5>2. CASE staticRules = "empty"
          BY <1>1, <2>1, <5>2, Zenon DEF MemoInv
        <5> QED
          BY <4>2, <4>3, <4>5, <5>1, <5>2, Zenon
      <4> QED
        BY <1>1, <2>1, <4>6, <4>7, Zenon DEF MemoInv
    <3> QED
      BY <3>1, <3>2
  <2> QED
    BY <1>3, <2>2, <2>3
<1>12. PrefTypes'
  BY <1>1 DEF Inv, PrefTypes
<1> QED
  BY <1>7, <1>9, <1>10, <1>11, <1>12 DEF Inv

LEMMA ServeReadBackStep ==
  ASSUME Inv, NEW h \in Workers, ServeReadBack(h)
  PROVE  Inv'
<1>1. UNCHANGED <<browser, overlapped, misread, stored, pending, cachedPrefs,
                  mirrorKey, staticRules, rules, writes, restarts>>
  BY Zenon DEF ServeReadBack
<1>2. dnrQueue # <<>> /\ Head(dnrQueue) = h
  BY Zenon DEF ServeReadBack
<1>3. /\ verdict' \in {"ok", "failed", verdict}
      /\ faults' = faults \/ faults' = faults + 1
  BY Zenon DEF ServeReadBack, Unverified
<1>4. \/ Return(h, Tail(dnrQueue))
      \/ /\ MayRetry(h)
         /\ GoTo(h, worker[h].snap, 1, worker[h].attempt + 1, Tail(dnrQueue))
  BY Zenon DEF ServeReadBack
<1>5. PassInv' /\ QueueInv' /\ ReadyInv'
  <2>1. 1 \in 1..10 /\ 1 \in 1..2 /\ 2 \in 1..2
    OBVIOUS
  <2>2. CASE Return(h, Tail(dnrQueue))
    BY <1>1, <1>2, <2>1, <2>2, MovesOn
  <2>3. CASE /\ MayRetry(h)
             /\ GoTo(h, worker[h].snap, 1, worker[h].attempt + 1, Tail(dnrQueue))
    <3>1. worker[h].attempt + 1 = 2
      BY <2>3 DEF MayRetry
    <3>2. GoTo(h, worker[h].snap, 1, 2, Tail(dnrQueue))
      BY <2>3, <3>1, Zenon
    <3> QED
      BY <1>1, <1>2, <2>1, <3>2, MovesOn
  <2> QED
    BY <1>4, <2>2, <2>3
<1>6. PlainTypes'
  <2>1. verdict' \in {"none", "ok", "failed"}
    BY <1>3 DEF Inv, PlainTypes
  <2>2. faults' \in Nat
    BY <1>3 DEF Inv, PlainTypes
  <2> QED
    BY <1>1, <2>1, <2>2, Zenon DEF Inv, PlainTypes
<1> QED
  BY <1>1, <1>5, <1>6, Zenon DEF Inv, BooleanTypes, PrefTypes, MemoInv

-----------------------------------------------------------------------------
(* The theorems.                                                           *)

LEMMA InvStep == Inv /\ [Next]_vars => Inv'
<1> SUFFICES ASSUME Inv, [Next]_vars PROVE Inv'
  OBVIOUS
<1>1. ASSUME NEW k \in UserKeys, UserWrites(k) PROVE Inv'
  BY <1>1, UserStep
<1>2. CASE Evict
  BY <1>2, EvictStep
<1>3. CASE BrowserRestarts
  BY <1>3, RestartStep
<1>4. ASSUME NEW h \in Workers, Step(h) PROVE Inv'
  BY <1>4, OnChangedStep, OnStartupStep, OnInstalledStep, ReadPrefsStep,
     StaticRulesReadStep, RemoteCacheReadStep, ServeCallStep, ServeReadBackStep, Zenon
     DEF Step
<1>5. CASE UNCHANGED vars
  BY <1>5, Zenon DEF vars, Inv, PlainTypes, BooleanTypes, PrefTypes, PassInv, QueueInv,
     ReadyInv, MemoInv, MirrorsReady, FirefoxMV2
<1> QED
  BY <1>1, <1>2, <1>3, <1>4, <1>5 DEF Next

LEMMA Invariance == Spec => []Inv
BY InvInit, InvStep, PTL DEF Spec

\* Every variable of the gate keeps its type, whatever overlaps, fails or is
\* restarted: in particular no pass runs past the last of its steps or makes a
\* third attempt (dnr-sync.js, tearDownAndVerify).
THEOREM TypeCorrect == Spec => []TypeOK
<1>1. Inv => TypeOK
  <2> SUFFICES ASSUME Inv PROVE TypeOK
    OBVIOUS
  <2>1. Len(OpenSteps) = 10
    BY DEF OpenSteps
  <2>2. Idle \in Activation /\ Reading \in Activation
    BY <2>1 DEF Activation, Idle, Reading
  <2>3. Pass \subseteq Activation
    BY <2>1 DEF Activation, Pass, Waiting, Snapshot
  <2>4. worker \in [Workers -> Activation]
    BY <2>2, <2>3 DEF Inv, PassInv
  <2>5. dnrQueue \in Seq(Workers)
    BY DEF Inv, QueueInv, Waits
  <2> QED
    BY <2>4, <2>5, Zenon DEF Inv, PlainTypes, BooleanTypes, PrefTypes, Snapshot, TypeOK
<1> QED
  BY <1>1, Invariance, PTL

\* The memo of the category mirrors tells the truth for any number of passes that
\* overlap in any way, with any calls failing and the browser stopped anywhere:
\* a sync skipped on its account leaves registered what it would have written
\* (syncCategoryFilteredDNR, _categoryMirrorKey).
THEOREM MemoIsSound == Spec => []MirrorKeySound
<1>1. Inv => MirrorKeySound
  BY Zenon DEF Inv, PlainTypes, MemoInv, MirrorKeySound
<1> QED
  BY <1>1, Invariance, PTL

-----------------------------------------------------------------------------
(* A pass of applyDnrState that no other overlaps brings the registered    *)
(* rules to what the preferences ask for, and one that closes the gate     *)
(* leaves none though a call failed, for any number of listeners, any      *)
(* preferences the user may change and any number of changes and restarts. *)
(*                                                                         *)
(* The argument: what a pass works from is the stored preferences, up to   *)
(* changes whose event is still to come (CacheInv, ProgressInv); what it   *)
(* has done so far stays done, and what it skips needs no doing; a teardown*)
(* that begins anew does so because a call failed (Progress); so at its    *)
(* end the rules are those of its snapshot, and remain so (RestInv) until  *)
(* an event starts the next pass.                                          *)

Announced(k, q) == \E i \in 1..Len(q) : q[i] = k

\* Snapshot p is what s stores, up to the changes still queued in q and the key x.
Agrees(p, s, q, x) == \A k \in PrefKey \ {x} : p[k] = s[k] \/ Announced(k, q)

\* Changes of this key alone start no pass.
Quiescent == "disabledCategories"

\* The families of the first n - 1 steps of a pass for p are as p wants them.
Done(r, p, n) ==
    \A j \in 1..10 : j < n =>
        \A f \in Covers(p, StepsOf(p)[j]) : r[f] = Want(p)[f]

\* An event that will start a pass whatever has changed.
Behind(q) == Announced("onInstalled", q) \/ Announced("onStartup", q)

HistoryInv == misread => faults # 0

\* Firefox has neither mirrors nor scoped remote rules, whose steps it skips.
FirefoxInv == FirefoxMV2 => ~rules["categoryMirrors"] /\ ~rules["remoteScoped"]

PendingInv == \A i \in 1..Len(pending) : pending[i] # "remoteRulesEnabled"

CacheInv == cachedPrefs # NoPrefs => Agrees(cachedPrefs, stored, pending, "none")

SoloInv ==
    ~overlapped => \A h, k \in Workers : worker[h] # Idle /\ worker[k] # Idle => h = k

\* The calls for the static rulesets, whose effect no read-back can see.
StaticCallsLand == "updateEnabledRulesets" \notin Faulty

StaticOff(r) == \A f \in StaticFamily : ~r[f]

\* A pass for p at step n of attempt t, with the rules r, after c failed calls.  One
\* that closes the gate has begun anew because a call failed; if no more than that
\* one did, all of its own have landed.
Progress(r, p, n, t, c) ==
    /\ c = 0 => Done(r, p, n)
    /\ ~GateOpen(p) =>
        /\ StaticCallsLand /\ n > 1 => StaticOff(r)
        /\ t = 2 => c # 0
        /\ t = 2 /\ c <= 1 => Done(r, p, n)

OnTheWay(a) ==
    /\ Agrees(a.snap, stored, pending, Quiescent)
    /\ \A r \in {rules}, p \in {a.snap}, n \in {a.step}, t \in {a.attempt}, c \in {faults} :
           Progress(r, p, n, t, c)

ProgressInv ==
    ~overlapped => \A h \in Workers : worker[h] \in Pass => OnTheWay(worker[h])

\* What a pass for p leaves behind.
Outcome(r, p, c) ==
    /\ c = 0 => r = Want(p)
    /\ StaticCallsLand /\ c <= 1 /\ ~GateOpen(p) => r = NoRules

RestInv ==
    ~overlapped /\ Quiet /\ ~Behind(pending) =>
        \E p \in Snapshot : /\ Agrees(p, stored, pending, Quiescent)
                            /\ \A r \in {rules}, c \in {faults} : Outcome(r, p, c)

PassesInv ==
    /\ HistoryInv /\ FirefoxInv /\ PendingInv /\ CacheInv /\ SoloInv /\ ProgressInv
    /\ RestInv

-----------------------------------------------------------------------------
(* What is wanted.                                                         *)

LEMMA SameBrowser ==
    ASSUME browser' = browser
    PROVE  /\ FirefoxMV2' <=> FirefoxMV2
           /\ \A p : Want(p)' = Want(p)
           /\ \A p, s : Covers(p, s)' = Covers(p, s)
           /\ \A r, p, n : Done(r, p, n)' <=> Done(r, p, n)
           /\ \A r, p, n, t, c : Progress(r, p, n, t, c)' <=> Progress(r, p, n, t, c)
           /\ \A r, p, c : Outcome(r, p, c)' <=> Outcome(r, p, c)
<1>1. FirefoxMV2' <=> FirefoxMV2
  BY DEF FirefoxMV2
<1>2. ASSUME NEW p PROVE Want(p)' = Want(p)
  BY DEF Want, OpenRules, DynamicRules, PartitionRulesets, FirefoxMV2
<1>3. ASSUME NEW p, NEW s PROVE Covers(p, s)' = Covers(p, s)
  BY DEF Covers, FirefoxMV2
<1>4. ASSUME NEW r, NEW p, NEW n PROVE Done(r, p, n)' <=> Done(r, p, n)
  BY <1>2, <1>3 DEF Done
<1>5. ASSUME NEW r, NEW p, NEW n, NEW t, NEW c
      PROVE  Progress(r, p, n, t, c)' <=> Progress(r, p, n, t, c)
  BY <1>4 DEF Progress, StaticOff, GateOpen
<1>6. ASSUME NEW r, NEW p, NEW c PROVE Outcome(r, p, c)' <=> Outcome(r, p, c)
  BY <1>2 DEF Outcome, GateOpen
<1> QED BY <1>1, <1>2, <1>3, <1>4, <1>5, <1>6

LEMMA OpenStepsAre ==
    /\ OpenSteps[1] = "staticRulesets" /\ OpenSteps[2] = "categoryMirrors"
    /\ OpenSteps[3] = "customParams" /\ OpenSteps[4] = "allowlist"
    /\ OpenSteps[5] = "suppressReferer" /\ OpenSteps[6] = "blockBeacons"
    /\ OpenSteps[7] = "blocklistReferer" /\ OpenSteps[8] = "blocklistBeacons"
    /\ OpenSteps[9] = "remoteScoped" /\ OpenSteps[10] = "remoteParams"
  BY DEF OpenSteps

LEMMA CloseStepsAre ==
    /\ CloseSteps[1] = "staticRulesets" /\ CloseSteps[2] = "customParams"
    /\ CloseSteps[3] = "categoryMirrors" /\ CloseSteps[4] = "allowlist"
    /\ CloseSteps[5] = "suppressReferer" /\ CloseSteps[6] = "blockBeacons"
    /\ CloseSteps[7] = "blocklistReferer" /\ CloseSteps[8] = "blocklistBeacons"
    /\ CloseSteps[9] = "remoteParams" /\ CloseSteps[10] = "readBack"
  BY DEF CloseSteps

\* The steps of a pass leave out no family.
LEMMA AllCovered ==
    ASSUME NEW p \in Snapshot, NEW r \in [Family -> BOOLEAN],
           Done(r, p, IF GateOpen(p) THEN 11 ELSE 10)
    PROVE  r = Want(p)
<1> SUFFICES ASSUME NEW f \in Family PROVE r[f] = Want(p)[f]
  BY WantTypes
<1>1. CASE GateOpen(p)
  <2>1. StepsOf(p) = OpenSteps
    BY <1>1 DEF StepsOf
  <2>2. \E j \in 1..10 : f \in Covers(p, OpenSteps[j])
    BY OpenStepsAre DEF Covers, Family, DynamicFamily
  <2> QED BY <1>1, <2>1, <2>2 DEF Done
<1>2. CASE ~GateOpen(p)
  <2>1. StepsOf(p) = CloseSteps
    BY <1>2 DEF StepsOf
  <2>2. \E j \in 1..9 : f \in Covers(p, CloseSteps[j])
    BY <1>2, CloseStepsAre DEF Covers, Family, DynamicFamily
  <2> QED BY <1>2, <2>1, <2>2 DEF Done
<1> QED BY <1>1, <1>2

\* On Firefox the skipped families are never wanted.
LEMMA FirefoxWants ==
    ASSUME NEW p, FirefoxMV2
    PROVE  ~Want(p)["categoryMirrors"] /\ ~Want(p)["remoteScoped"]
<1>1. /\ "categoryMirrors" \in Family \ StaticFamily
      /\ "remoteScoped" \in Family \ StaticFamily
  BY DEF Family, DynamicFamily, StaticFamily
<1>2. ~OpenRules(p)["categoryMirrors"] /\ ~OpenRules(p)["remoteScoped"]
  BY <1>1 DEF OpenRules, DynamicRules
<1> QED BY <1>1, <1>2 DEF Want, NoRules

-----------------------------------------------------------------------------
(* A pass on its own.                                                      *)

\* A call that lands does its step and undoes none.
LEMMA CallDoes ==
    ASSUME NEW p \in Snapshot, NEW i \in 1..10, Done(rules, p, i), BooleanTypes,
           StepsOf(p)[i] = "categoryMirrors" /\ Want(p)["categoryMirrors"]
               => staticRules = "loaded"
    PROVE  Done(Effect(p, StepsOf(p)[i]), p, i + 1)
<1> DEFINE step == StepsOf(p)[i]
           r == Effect(p, step)
<1>1. \A f \in Family : Want(p)[f] \in BOOLEAN
  BY WantTypes
<1>2. ASSUME NEW f \in Family, f \in Covers(p, step) PROVE r[f] = Want(p)[f]
  <2>1. r[f] = IF f = "categoryMirrors" THEN Want(p)[f] /\ staticRules = "loaded"
               ELSE Want(p)[f]
    BY <1>2, Zenon DEF Effect
  <2>2. CASE f = "categoryMirrors"
    <3>1. step = "categoryMirrors"
      BY <1>2, <2>2 DEF Covers, StaticFamily
    <3> QED BY <1>1, <2>1, <2>2, <3>1, Zenon
  <2>3. CASE f # "categoryMirrors"
    BY <2>1, <2>3
  <2> QED BY <2>2, <2>3
<1>3. ASSUME NEW f \in Family, f \notin Covers(p, step) PROVE r[f] = rules[f]
  BY <1>3, Zenon DEF Effect
<1>4. \A s : Covers(p, s) \cap Family = Covers(p, s) \/ s \notin {StepsOf(p)[j] : j \in 1..10}
  BY OpenStepsAre, CloseStepsAre DEF StepsOf, Covers, Family, DynamicFamily
<1> SUFFICES ASSUME NEW j \in 1..10, j < i + 1, NEW f \in Covers(p, StepsOf(p)[j])
             PROVE  r[f] = Want(p)[f]
  BY DEF Done
<1>5. f \in Family
  BY <1>4
<1>6. CASE f \in Covers(p, step)
  BY <1>2, <1>5, <1>6
<1>7. CASE f \notin Covers(p, step)
  <2>1. j < i
    BY <1>7
  <2> QED BY <1>3, <1>5, <1>7, <2>1 DEF Done
<1> QED BY <1>6, <1>7

\* A step is skipped only when its families are as wanted: the memo is sound.
LEMMA SkippingIsSafe ==
    ASSUME NEW p \in Snapshot, NEW i \in 1..10, NEW r, Done(r, p, i),
           Skipped(p, StepsOf(p)[i]),
           FirefoxMV2 => ~r["categoryMirrors"] /\ ~r["remoteScoped"],
           r \in [Family -> BOOLEAN],
           mirrorKey = "none" => ~r["categoryMirrors"],
           mirrorKey = "some" /\ GateOpen(p) => r["categoryMirrors"]
    PROVE  Done(r, p, i + 1)
<1> DEFINE step == StepsOf(p)[i]
<1>1. /\ "categoryMirrors" \in Family /\ "remoteScoped" \in Family
      /\ r["categoryMirrors"] \in BOOLEAN /\ Want(p)["categoryMirrors"] \in BOOLEAN
      /\ r["remoteScoped"] \in BOOLEAN /\ Want(p)["remoteScoped"] \in BOOLEAN
  BY WantTypes DEF Family, DynamicFamily
<1>2. Covers(p, step) = {step} /\ step \in {"categoryMirrors", "remoteScoped"}
  BY DEF Skipped, Covers
<1>3. r[step] = Want(p)[step]
  <2>1. CASE FirefoxMV2
    <3>1. /\ ~Want(p)["categoryMirrors"] /\ ~Want(p)["remoteScoped"]
          /\ ~r["categoryMirrors"] /\ ~r["remoteScoped"]
      BY <2>1, FirefoxWants
    <3>2. r["categoryMirrors"] = Want(p)["categoryMirrors"]
      BY <1>1, <3>1, Zenon
    <3>3. r["remoteScoped"] = Want(p)["remoteScoped"]
      BY <1>1, <3>1, Zenon
    <3>4. CASE step = "categoryMirrors"
      BY <3>2, <3>4
    <3>5. CASE step = "remoteScoped"
      BY <3>3, <3>5
    <3> QED BY <1>2, <3>4, <3>5
  <2>2. CASE ~FirefoxMV2
    <3>1. step = "categoryMirrors" /\ mirrorKey = MirrorKey(p)
      BY <1>2, <2>2 DEF Skipped
    <3>2. MirrorKey(p) \in {"none", "some"} /\ (MirrorKey(p) = "some" => GateOpen(p))
      BY DEF MirrorKey
    <3> QED BY <1>1, <2>2, <3>1, <3>2, WantMirrors
  <2> QED BY <2>1, <2>2
<1>4. ASSUME NEW j \in 1..10, j < i + 1, NEW f \in Covers(p, StepsOf(p)[j])
      PROVE  r[f] = Want(p)[f]
  <2>1. CASE j = i
    BY <1>2, <1>3, <2>1
  <2>2. CASE j # i
    BY <1>4, <2>2 DEF Done
  <2> QED BY <2>1, <2>2
<1> QED BY <1>4 DEF Done

\* Where a pass for p that goes on at step i is put.
LEMMA GoesTo ==
    ASSUME PassInv, NEW h \in Workers, NEW p, NEW i, NEW attempt, NEW q,
           GoTo(h, p, i, attempt, q)
    PROVE  /\ worker'[h].snap = p
           /\ worker'[h].step = IF Skipped(p, StepsOf(p)[i]) THEN i + 1 ELSE i
           /\ worker'[h].attempt = attempt
           /\ worker'[h].pc \in Waiting
           /\ \A k \in Workers : k # h => worker'[k] = worker[k]
  BY DEF GoTo, PassInv, Waiting

LEMMA PassIsBusy == Idle \notin Pass /\ Reading \notin Pass /\ Reading # Idle
  BY DEF Idle, Reading, Pass, Waiting

\* While h has a pass of its own and no other has one, only h's progress matters.
LEMMA OnlyMine ==
    ASSUME NEW h \in Workers, SoloInv, worker[h] # Idle,
           \A k \in Workers : k # h => worker'[k] = worker[k],
           UNCHANGED <<browser, overlapped, stored, pending>>,
           ~overlapped /\ worker'[h] \in Pass =>
               /\ Agrees(worker'[h].snap, stored, pending, Quiescent)
               /\ Progress(rules', worker'[h].snap, worker'[h].step, worker'[h].attempt,
                           faults')
    PROVE  SoloInv' /\ ProgressInv'
<1>1. ~overlapped => \A k \in Workers : k # h => worker'[k] = Idle
  BY DEF SoloInv
<1>2. SoloInv'
  BY <1>1 DEF SoloInv
<1>3. ASSUME ~overlapped', NEW k \in Workers, worker'[k] \in Pass
      PROVE  OnTheWay(worker[k])'
  <2>1. k = h
    BY <1>1, <1>3, PassIsBusy
  <2>2. Agrees(worker'[h].snap, stored', pending', Quiescent)
    BY <1>3, <2>1
  <2>3. ASSUME NEW r \in {rules'}, NEW p \in {worker'[h].snap}, NEW n \in {worker'[h].step},
               NEW t \in {worker'[h].attempt}, NEW c \in {faults'}
        PROVE  Progress(r, p, n, t, c)'
    BY <1>3, <2>1, SameBrowser
  <2> QED BY <2>1, <2>2, <2>3 DEF OnTheWay
<1> QED BY <1>2, <1>3 DEF ProgressInv

-----------------------------------------------------------------------------
(* The steps.                                                              *)

LEMMA PassesInit == Init => PassesInv
<1> SUFFICES ASSUME Init PROVE PassesInv
  OBVIOUS
<1>1. pending = <<"onInstalled">> /\ pending[1] = "onInstalled" /\ Len(pending) = 1
  BY DEF Init
<1>2. Behind(pending) /\ PendingInv
  BY <1>1 DEF Behind, Announced, PendingInv
<1>3. FirefoxInv
  <2>1. \A f \in DynamicFamily : f \in Family /\ f \notin StaticFamily /\ f # "tracking_params"
    BY DEF Family, DynamicFamily, StaticFamily
  <2>2. \A f \in Family : rules[f] <=> \/ f = "tracking_params"
                                       \/ (f \in StaticFamily /\ ~FirefoxMV2)
    BY DEF Init
  <2> QED BY <2>1, <2>2 DEF FirefoxInv, DynamicFamily
<1>4. HistoryInv /\ CacheInv
  BY DEF Init, HistoryInv, CacheInv
<1>5. SoloInv /\ ProgressInv
  BY PassIsBusy DEF Init, SoloInv, ProgressInv
<1> QED BY <1>2, <1>3, <1>4, <1>5 DEF PassesInv, RestInv

\* An announcement is not lost by another that follows it.
LEMMA AnnouncedAppend ==
    ASSUME NEW S, NEW q \in Seq(S), NEW e \in S
    PROVE  /\ \A k : Announced(k, q) => Announced(k, Append(q, e))
           /\ Announced(e, Append(q, e))
           /\ \A k : Announced(k, Append(q, e)) => Announced(k, q) \/ k = e
<1> DEFINE r == Append(q, e)
<1>1. /\ Len(r) = Len(q) + 1 /\ r[Len(q) + 1] = e /\ Len(q) \in Nat
      /\ \A i \in 1..Len(q) : r[i] = q[i] /\ i \in 1..Len(r)
  OBVIOUS
<1>2. \A i \in 1..Len(r) : i \in 1..Len(q) \/ i = Len(q) + 1
  BY <1>1
<1>3. Len(q) + 1 \in 1..Len(r)
  BY <1>1
<1> HIDE DEF r
<1> QED BY <1>1, <1>2, <1>3 DEF Announced

LEMMA AnnouncedTail ==
    ASSUME NEW S, NEW q \in Seq(S), q # <<>>
    PROVE  /\ \A k : Announced(k, q) => Announced(k, Tail(q)) \/ k = Head(q)
           /\ \A k : Announced(k, Tail(q)) => Announced(k, q)
           /\ Announced(Head(q), q)
<1> DEFINE r == Tail(q)
<1>1. /\ Len(r) = Len(q) - 1 /\ Len(q) \in Nat /\ Len(q) > 0 /\ Head(q) = q[1]
      /\ \A i \in 1..Len(r) : r[i] = q[i + 1] /\ i + 1 \in 1..Len(q)
  OBVIOUS
<1>2. \A i \in 1..Len(q) : i = 1 \/ (i - 1 \in 1..Len(r) /\ r[i - 1] = q[i])
  BY <1>1
<1>3. 1 \in 1..Len(q)
  BY <1>1
<1> HIDE DEF r
<1> QED BY <1>1, <1>2, <1>3 DEF Announced

\* PendingInv in the terms of the others.
LEMMA PendingMeans == PendingInv <=> ~Announced("remoteRulesEnabled", pending)
  BY DEF PendingInv, Announced

\* What the user, the browser and an event that starts no pass do to the rest.
LEMMA Meanwhile ==
    ASSUME PassesInv, UNCHANGED <<browser, rules, worker, overlapped, faults, misread>>,
           \A k \in PrefKey \ {Quiescent} :
               /\ Announced(k, pending) => Announced(k, pending')
               /\ stored'[k] = stored[k] \/ Announced(k, pending'),
           Behind(pending) => Behind(pending')
    PROVE  HistoryInv' /\ FirefoxInv' /\ SoloInv' /\ ProgressInv' /\ RestInv'
<1>1. \A p : Agrees(p, stored, pending, Quiescent) => Agrees(p, stored', pending', Quiescent)
  BY DEF Agrees
<1>2. HistoryInv' /\ FirefoxInv' /\ SoloInv'
  BY SameBrowser DEF PassesInv, HistoryInv, FirefoxInv, SoloInv
<1>3. ProgressInv'
  <2> SUFFICES ASSUME ~overlapped, NEW h \in Workers, worker[h] \in Pass
               PROVE  OnTheWay(worker[h])'
    BY DEF ProgressInv
  <2>1. OnTheWay(worker[h])
    BY DEF PassesInv, ProgressInv
  <2>2. Agrees(worker[h].snap, stored', pending', Quiescent)
    BY <1>1, <2>1 DEF OnTheWay
  <2>3. ASSUME NEW r \in {rules}, NEW p \in {worker[h].snap}, NEW n \in {worker[h].step},
               NEW t \in {worker[h].attempt}, NEW c \in {faults}
        PROVE  Progress(r, p, n, t, c)'
    BY <2>1, SameBrowser DEF OnTheWay
  <2> QED BY <2>2, <2>3 DEF OnTheWay
<1>4. RestInv'
  <2> SUFFICES ASSUME ~overlapped, Quiet', ~Behind(pending')
               PROVE  \E p \in Snapshot :
                          /\ Agrees(p, stored', pending', Quiescent)
                          /\ \A r \in {rules}, c \in {faults} : Outcome(r, p, c)'
    BY DEF RestInv
  <2>1. Quiet
    BY DEF Quiet
  <2>2. PICK p \in Snapshot : /\ Agrees(p, stored, pending, Quiescent)
                             /\ \A r \in {rules}, c \in {faults} : Outcome(r, p, c)
    BY <2>1 DEF PassesInv, RestInv
  <2> QED BY <1>1, <2>2, SameBrowser
<1> QED BY <1>2, <1>3, <1>4

\* A pass that starts owes nothing yet, and outdates what was promised before.
LEMMA PassStarts ==
    ASSUME Inv, PassesInv, NEW h \in Workers, worker[h] = Idle, StartPass(h),
           UNCHANGED <<browser, rules, misread, faults>>
    PROVE  HistoryInv' /\ FirefoxInv' /\ SoloInv' /\ ProgressInv' /\ RestInv'
<1>1. worker' = [worker EXCEPT ![h] = Reading]
  <2>1. worker' = [worker EXCEPT ![h] = [worker[h] EXCEPT !.pc = "reading"]]
    BY Zenon DEF StartPass
  <2>2. [Idle EXCEPT !.pc = "reading"] = Reading
    BY DEF Idle, Reading
  <2> QED BY <2>1, <2>2
<1>2. ~overlapped' => \A k \in Workers : k # h => worker'[k] = Idle
  <2>1. ~overlapped' => Quiet
    BY Zenon DEF StartPass
  <2>2. \A k \in Workers : k # h => worker'[k] = worker[k]
    BY <1>1 DEF Inv, PassInv
  <2> QED BY <2>1, <2>2 DEF Quiet
<1>3. worker'[h] = Reading
  BY <1>1 DEF Inv, PassInv
<1>4. HistoryInv' /\ FirefoxInv'
  BY SameBrowser DEF PassesInv, HistoryInv, FirefoxInv
<1>5. SoloInv' /\ ProgressInv'
  BY <1>2, <1>3, PassIsBusy DEF SoloInv, ProgressInv
<1>6. RestInv'
  BY <1>3, PassIsBusy DEF RestInv, Quiet
<1> QED BY <1>4, <1>5, <1>6

LEMMA EventTypes ==
    ASSUME PlainTypes
    PROVE  pending \in Seq(PrefKey \cup {"onInstalled", "onStartup"})
  BY DEF PlainTypes

LEMMA UserWritesKeeps ==
    ASSUME Inv, PassesInv, NEW k \in UserKeys, UserWrites(k)
    PROVE  PassesInv'
<1>1. /\ pending' = Append(pending, k) /\ stored' = [stored EXCEPT ![k] = ~stored[k]]
      /\ UNCHANGED <<browser, rules, worker, overlapped, faults, misread, cachedPrefs>>
  BY Zenon DEF UserWrites
<1>2. k \in PrefKey /\ k # "remoteRulesEnabled"
  BY ConstantsAssumption
<1>3. /\ \A e : Announced(e, pending) => Announced(e, pending')
      /\ Announced(k, pending')
      /\ \A e : Announced(e, pending') => Announced(e, pending) \/ e = k
  BY <1>1, <1>2, AnnouncedAppend, EventTypes DEF Inv
<1>4. \A e \in PrefKey : stored'[e] = stored[e] \/ e = k
  BY <1>1 DEF Inv, PrefTypes, Snapshot
<1>5. HistoryInv' /\ FirefoxInv' /\ SoloInv' /\ ProgressInv' /\ RestInv'
  BY <1>1, <1>3, <1>4, Meanwhile DEF Behind
<1>6. PendingInv'
  BY <1>2, <1>3, PendingMeans DEF PassesInv, PendingInv, Announced
<1>7. CacheInv'
  BY <1>1, <1>3, <1>4 DEF PassesInv, CacheInv, Agrees
<1> QED BY <1>5, <1>6, <1>7 DEF PassesInv

LEMMA EvictKeeps == ASSUME Inv, PassesInv, Evict PROVE PassesInv'
<1>1. UNCHANGED <<browser, rules, worker, overlapped, faults, misread, stored, pending>>
      /\ cachedPrefs' = NoPrefs
  BY Zenon DEF Evict
<1>2. HistoryInv' /\ FirefoxInv' /\ SoloInv' /\ ProgressInv' /\ RestInv'
  BY <1>1, Meanwhile
<1> QED BY <1>1, <1>2 DEF PassesInv, PendingInv, CacheInv

LEMMA RestartKeeps == ASSUME Inv, PassesInv, BrowserRestarts PROVE PassesInv'
<1>1. /\ UNCHANGED <<browser, rules, faults, misread, stored>>
      /\ cachedPrefs' = NoPrefs /\ worker' = [h \in Workers |-> Idle]
      /\ pending' = <<"onStartup">>
  BY Zenon DEF BrowserRestarts
<1>2. Len(pending') = 1 /\ pending'[1] = "onStartup"
  BY <1>1
<1>3. Behind(pending') /\ PendingInv'
  BY <1>2 DEF Behind, Announced, PendingInv
<1>4. HistoryInv' /\ FirefoxInv' /\ CacheInv'
  BY <1>1, SameBrowser DEF PassesInv, HistoryInv, FirefoxInv, CacheInv
<1>5. SoloInv' /\ ProgressInv'
  BY <1>1, PassIsBusy DEF SoloInv, ProgressInv
<1> QED BY <1>3, <1>4, <1>5 DEF PassesInv, RestInv

LEMMA OnChangedKeeps ==
    ASSUME Inv, PassesInv, NEW h \in Workers, OnChanged(h) PROVE PassesInv'
<1> DEFINE k == Head(pending)
<1>1. /\ pending # <<>> /\ worker[h] = Idle /\ k \in PrefKey
      /\ pending' = Tail(pending) /\ cachedPrefs' = NoPrefs
      /\ \/ StartPass(h)
         \/ k \notin AppliedKeys /\ UNCHANGED <<worker, overlapped>>
      /\ UNCHANGED <<browser, rules, misread, faults, stored>>
  BY Zenon DEF OnChanged, CanDeliver, Invalidated
<1>2. /\ \A e : Announced(e, pending) => Announced(e, pending') \/ e = k
      /\ \A e : Announced(e, pending') => Announced(e, pending)
      /\ Announced(k, pending)
  BY <1>1, AnnouncedTail, EventTypes DEF Inv
<1>3. PendingInv'
  BY <1>2, PendingMeans DEF PassesInv, PendingInv, Announced
<1>4. CacheInv'
  BY <1>1 DEF CacheInv
<1>5. HistoryInv' /\ FirefoxInv' /\ SoloInv' /\ ProgressInv' /\ RestInv'
  <2>1. CASE StartPass(h)
    BY <1>1, <2>1, PassStarts
  <2>2. CASE k \notin AppliedKeys /\ UNCHANGED <<worker, overlapped>>
    <3>1. k # "remoteRulesEnabled"
      BY <1>2, PendingMeans DEF PassesInv
    <3>2. k = Quiescent
      BY <1>1, <2>2, <3>1 DEF PrefKey, AppliedKeys, Quiescent
    <3>3. Behind(pending) => Behind(pending')
      BY <1>1, <1>2 DEF Behind, PrefKey
    <3> QED BY <1>1, <1>2, <2>2, <3>2, <3>3, Meanwhile
  <2> QED BY <1>1, <2>1, <2>2
<1> QED BY <1>3, <1>4, <1>5 DEF PassesInv

LEMMA OnStartupKeeps ==
    ASSUME Inv, PassesInv, NEW h \in Workers, OnStartup(h) PROVE PassesInv'
<1>1. /\ pending # <<>> /\ worker[h] = Idle /\ Head(pending) = "onStartup"
      /\ pending' = Tail(pending) /\ StartPass(h)
      /\ UNCHANGED <<browser, rules, misread, faults, stored, cachedPrefs>>
  BY Zenon DEF OnStartup, CanDeliver
<1>2. /\ \A e : Announced(e, pending) => Announced(e, pending') \/ e = "onStartup"
      /\ \A e : Announced(e, pending') => Announced(e, pending)
  BY <1>1, AnnouncedTail, EventTypes DEF Inv
<1>3. PendingInv'
  BY <1>2, PendingMeans DEF PassesInv, PendingInv, Announced
<1>4. CacheInv'
  BY <1>1, <1>2 DEF PassesInv, CacheInv, Agrees, PrefKey
<1>5. HistoryInv' /\ FirefoxInv' /\ SoloInv' /\ ProgressInv' /\ RestInv'
  BY <1>1, PassStarts
<1> QED BY <1>3, <1>4, <1>5 DEF PassesInv

LEMMA OnInstalledKeeps ==
    ASSUME Inv, PassesInv, NEW h \in Workers, OnInstalled(h) PROVE PassesInv'
<1>1. /\ pending # <<>> /\ worker[h] = Idle /\ Head(pending) = "onInstalled"
      /\ stored' = [stored EXCEPT !.onboardingDone = TRUE]
      /\ pending' = Append(Tail(pending), "onboardingDone") /\ StartPass(h)
      /\ UNCHANGED <<browser, rules, misread, faults, cachedPrefs>>
  BY Zenon DEF OnInstalled, CanDeliver
<1>2. /\ \A e : Announced(e, pending) => Announced(e, Tail(pending)) \/ e = "onInstalled"
      /\ \A e : Announced(e, Tail(pending)) => Announced(e, pending)
  BY <1>1, AnnouncedTail, EventTypes DEF Inv
<1>3. /\ \A e : Announced(e, Tail(pending)) => Announced(e, pending')
      /\ Announced("onboardingDone", pending')
      /\ \A e : Announced(e, pending') => Announced(e, Tail(pending)) \/ e = "onboardingDone"
  <2> DEFINE Events == PrefKey \cup {"onInstalled", "onStartup"}
             q == Tail(pending)
  <2>1. q \in Seq(Events) /\ "onboardingDone" \in Events
    BY <1>1, EventTypes DEF Inv, PrefKey
  <2>2. pending' = Append(q, "onboardingDone")
    BY <1>1
  <2> HIDE DEF Events, q
  <2>3. /\ \A e : Announced(e, q) => Announced(e, pending')
        /\ Announced("onboardingDone", pending')
        /\ \A e : Announced(e, pending') => Announced(e, q) \/ e = "onboardingDone"
    BY <2>1, <2>2, AnnouncedAppend
  <2> QED BY <2>3 DEF q
<1>4. PendingInv'
  BY <1>2, <1>3, PendingMeans DEF PassesInv, PendingInv, Announced
<1>5. CacheInv'
  <2>1. \A e \in PrefKey : stored'[e] = stored[e] \/ e = "onboardingDone"
    BY <1>1 DEF Inv, PrefTypes, Snapshot
  <2>2. "onInstalled" \notin PrefKey
    BY DEF PrefKey
  <2> QED BY <1>1, <1>2, <1>3, <2>1, <2>2 DEF PassesInv, CacheInv, Agrees
<1>6. HistoryInv' /\ FirefoxInv' /\ SoloInv' /\ ProgressInv' /\ RestInv'
  BY <1>1, PassStarts
<1> QED BY <1>4, <1>5, <1>6 DEF PassesInv

\* The first step of a pass is never skipped: a pass begins having done nothing.
LEMMA FirstStep == ASSUME NEW p PROVE ~Skipped(p, StepsOf(p)[1]) /\ \A r : Done(r, p, 1)
  BY OpenStepsAre, CloseStepsAre DEF Skipped, StepsOf, Done

LEMMA ReadPrefsKeeps ==
    ASSUME Inv, PassesInv, NEW h \in Workers, ReadPrefs(h) PROVE PassesInv'
<1> DEFINE p == IF cachedPrefs = NoPrefs THEN stored ELSE cachedPrefs
<1>1. /\ worker[h].pc = "reading" /\ cachedPrefs' = p /\ GoTo(h, p, 1, 1, dnrQueue)
      /\ UNCHANGED <<browser, rules, misread, faults, stored, pending, overlapped>>
  BY Zenon DEF ReadPrefs
<1>2. Agrees(p, stored, pending, "none")
  BY DEF PassesInv, CacheInv, Agrees
<1> HIDE DEF p
<1>3. Agrees(p, stored, pending, Quiescent)
  BY <1>2 DEF Agrees, PrefKey
<1>4. /\ worker'[h].snap = p /\ worker'[h].step = 1 /\ worker'[h].pc \in Waiting
      /\ worker'[h].attempt = 1
      /\ \A k \in Workers : k # h => worker'[k] = worker[k]
  BY <1>1, GoesTo, FirstStep DEF Inv
<1>5. worker[h] # Idle /\ worker'[h] # Idle
  BY <1>1, <1>4 DEF Idle, Waiting
<1>6. SoloInv' /\ ProgressInv'
  <2>1. Progress(rules', p, 1, 1, faults')
    BY FirstStep DEF Progress
  <2> QED BY <1>1, <1>3, <1>4, <1>5, <2>1, OnlyMine DEF PassesInv
<1>7. RestInv'
  BY <1>5 DEF RestInv, Quiet
<1>8. HistoryInv' /\ FirefoxInv' /\ PendingInv' /\ CacheInv'
  BY <1>1, <1>2, SameBrowser DEF PassesInv, HistoryInv, FirefoxInv, PendingInv, CacheInv
<1> QED BY <1>6, <1>7, <1>8 DEF PassesInv

\* One failure more asks less of a pass.
LEMMA FaultAdds ==
    ASSUME NEW r, NEW p, NEW n, NEW t, NEW c \in Nat, Progress(r, p, n, t, c)
    PROVE  Progress(r, p, n, t, c + 1)
  BY DEF Progress

\* What a pass waits for before it can make its call.
LEMMA PreparationKeeps ==
    ASSUME Inv, PassesInv, NEW h \in Workers, StaticRulesRead(h) \/ RemoteCacheRead(h)
    PROVE  PassesInv'
<1>1. /\ worker[h].pc \in {"loading", "readingRemote"}
      /\ worker' = [worker EXCEPT ![h].pc = "calling"]
      /\ UNCHANGED <<browser, rules, stored, pending, overlapped, cachedPrefs>>
      /\ UNCHANGED <<misread, faults>> \/ faults' = faults + 1
  BY Zenon DEF StaticRulesRead, RemoteCacheRead
<1>2. faults' # 0 \/ UNCHANGED <<misread, faults>>
  BY <1>1 DEF Inv, PlainTypes
<1>3. worker[h] \in Pass
  BY <1>1, InPass DEF Inv, Waiting
<1>4. /\ worker'[h].pc = "calling" /\ worker'[h].snap = worker[h].snap
      /\ worker'[h].step = worker[h].step /\ worker'[h].attempt = worker[h].attempt
      /\ \A k \in Workers : k # h => worker'[k] = worker[k]
  BY <1>1, <1>3 DEF Inv, PassInv, Pass
<1>5. worker[h] # Idle /\ worker'[h] # Idle
  BY <1>1, <1>4 DEF Idle
<1>6. SoloInv' /\ ProgressInv'
  <2>1. ~overlapped =>
            /\ Agrees(worker[h].snap, stored, pending, Quiescent)
            /\ Progress(rules, worker[h].snap, worker[h].step, worker[h].attempt, faults)
    BY <1>3 DEF PassesInv, ProgressInv, OnTheWay
  <2>2. ~overlapped =>
            Progress(rules, worker[h].snap, worker[h].step, worker[h].attempt, faults')
    BY <1>1, <2>1, FaultAdds DEF Inv, PlainTypes
  <2> QED BY <1>1, <1>4, <1>5, <2>1, <2>2, OnlyMine DEF PassesInv
<1>7. RestInv'
  BY <1>5 DEF RestInv, Quiet
<1>8. HistoryInv' /\ FirefoxInv' /\ PendingInv' /\ CacheInv'
  BY <1>1, <1>2, SameBrowser DEF PassesInv, HistoryInv, FirefoxInv, PendingInv, CacheInv
<1> QED BY <1>6, <1>7, <1>8 DEF PassesInv

\* What a pass has done when its call has landed, and where it goes on.
LEMMA CallLands ==
    ASSUME Inv, PassesInv, Inv', FirefoxInv', NEW h \in Workers, worker[h].pc = "calling",
           Done(rules, worker[h].snap, worker[h].step),
           misread' = misread, GateOpen(worker[h].snap) => ~misread,
           StepsOf(worker[h].snap)[worker[h].step] # "readBack",
           rules' = Effect(worker[h].snap, StepsOf(worker[h].snap)[worker[h].step]),
           mirrorKey' = Memo(worker[h].snap, StepsOf(worker[h].snap)[worker[h].step], TRUE),
           browser' = browser
    PROVE  /\ Done(rules', worker[h].snap, worker[h].step + 1)
           /\ worker[h].step < 10 /\ Skipped(worker[h].snap,
                                             StepsOf(worker[h].snap)[worker[h].step + 1])
                  => Done(rules', worker[h].snap, worker[h].step + 2)
<1>1. PICK p \in Snapshot, i \in 1..10 : p = worker[h].snap /\ i = worker[h].step
  BY InPass DEF Inv, Waiting, Pass
<1> DEFINE step == StepsOf(p)[i]
<1>2. worker[h] \in Pass
  BY InPass DEF Inv, Waiting
<1>3. Done(rules, p, i) /\ (GateOpen(p) => ~misread)
  BY <1>1
<1>4. step = "categoryMirrors" /\ Want(p)["categoryMirrors"] => staticRules = "loaded"
  <2> SUFFICES ASSUME step = "categoryMirrors", Want(p)["categoryMirrors"]
               PROVE  staticRules = "loaded"
    OBVIOUS
  <2>1. ~FirefoxMV2 /\ (MirrorKey(p) = "some" => staticRules # "unread")
    BY <1>1, <1>2 DEF Inv, ReadyInv, MirrorsReady
  <2>2. MirrorKey(p) = "some"
    BY <2>1, WantMirrors
  <2>3. staticRules # "empty"
    BY <1>3, <2>2 DEF MirrorKey, Inv, MemoInv
  <2> QED BY <2>1, <2>2, <2>3 DEF Inv, PlainTypes
<1>5. Done(rules', p, i + 1)
  BY <1>1, <1>3, <1>4, CallDoes DEF Inv
<1>6. ASSUME i < 10, Skipped(p, StepsOf(p)[i + 1]) PROVE Done(rules', p, i + 2)
  <2>1. i + 1 \in 1..10
    BY <1>6
  <2>2. step = "categoryMirrors" => StepsOf(p)[i + 1] # "categoryMirrors"
    BY StepFacts
  <2>3. CASE step # "categoryMirrors"
    <3>1. mirrorKey' = mirrorKey
      BY <1>1, <2>3 DEF Memo
    <3>2. /\ mirrorKey = "none" => ~rules'["categoryMirrors"]
          /\ mirrorKey = "some" /\ GateOpen(p) => rules'["categoryMirrors"]
      BY <1>3, <3>1 DEF Inv, MemoInv
    <3>3. FirefoxMV2 => ~rules'["categoryMirrors"] /\ ~rules'["remoteScoped"]
      BY SameBrowser DEF FirefoxInv
    <3>4. rules' \in [Family -> BOOLEAN]
      BY DEF Inv, BooleanTypes
    <3>5. Done(rules', p, (i + 1) + 1)
      BY <1>5, <1>6, <2>1, <3>2, <3>3, <3>4, SkippingIsSafe
    <3>6. (i + 1) + 1 = i + 2
      OBVIOUS
    <3> QED BY <3>5, <3>6
  <2>4. CASE step = "categoryMirrors"
    <3>1. i \in {2, 3} /\ StepsOf(p)[i + 1] # "remoteScoped"
      BY <2>4, OpenStepsAre, CloseStepsAre DEF StepsOf
    <3> QED BY <1>6, <2>2, <2>4, <3>1 DEF Skipped
  <2> QED BY <2>3, <2>4
<1> QED BY <1>1, <1>5, <1>6

\* The steps of a closing pass leave no static ruleset, once the first has landed.
LEMMA StaticStays ==
    ASSUME NEW p, NEW step, ~GateOpen(p), BooleanTypes,
           StaticOff(rules) \/ step = "staticRulesets"
    PROVE  StaticOff(Effect(p, step))
<1> SUFFICES ASSUME NEW f \in StaticFamily PROVE ~Effect(p, step)[f]
  BY DEF StaticOff
<1>1. f \in Family /\ f # "categoryMirrors" /\ ~Want(p)[f]
  BY DEF Family, StaticFamily, Want, NoRules
<1>2. CASE f \in Covers(p, step)
  BY <1>1, <1>2 DEF Effect
<1>3. CASE f \notin Covers(p, step)
  <2>1. step # "staticRulesets"
    BY <1>3 DEF Covers
  <2> QED BY <1>1, <1>3, <2>1 DEF Effect, StaticOff
<1> QED BY <1>2, <1>3

\* On Firefox no call registers what its passes skip.
LEMMA EffectOnFirefox ==
    ASSUME NEW p, NEW step, FirefoxMV2, BooleanTypes,
           ~rules["categoryMirrors"], ~rules["remoteScoped"]
    PROVE  ~Effect(p, step)["categoryMirrors"] /\ ~Effect(p, step)["remoteScoped"]
<1>1. "categoryMirrors" \in Family /\ "remoteScoped" \in Family
  BY DEF Family, DynamicFamily
<1>2. ~Want(p)["categoryMirrors"] /\ ~Want(p)["remoteScoped"]
  BY FirefoxWants
<1>3. ~Effect(p, step)["categoryMirrors"]
  BY <1>1, <1>2, Zenon DEF Effect
<1>4. Effect(p, step)["remoteScoped"] \in {rules["remoteScoped"], Want(p)["remoteScoped"]}
  BY <1>1 DEF Effect
<1> QED BY <1>2, <1>3, <1>4

\* The end of a pass that had no other beside it.
LEMMA PassEnds ==
    ASSUME Inv, SoloInv, NEW h \in Workers, worker[h] \in Pass,
           worker' = [worker EXCEPT ![h] = Idle],
           UNCHANGED <<browser, stored, pending, overlapped>>,
           ~overlapped =>
               /\ Agrees(worker[h].snap, stored, pending, Quiescent)
               /\ Outcome(rules', worker[h].snap, faults')
    PROVE  SoloInv' /\ ProgressInv' /\ RestInv'
<1>1. PICK p \in Snapshot : p = worker[h].snap
  BY DEF Pass
<1>2. worker'[h] = Idle /\ \A k \in Workers : k # h => worker'[k] = worker[k]
  BY DEF Inv, PassInv
<1>3. SoloInv' /\ ProgressInv'
  BY <1>2, PassIsBusy, OnlyMine
<1>4. ASSUME ~overlapped'
      PROVE  /\ Agrees(p, stored', pending', Quiescent)
             /\ \A r \in {rules'}, c \in {faults'} : Outcome(r, p, c)'
  BY <1>1, <1>4, SameBrowser
<1> QED BY <1>3, <1>4 DEF RestInv

LEMMA ServeCallKeeps ==
    ASSUME Inv, Inv', PassesInv, NEW h \in Workers, ServeCall(h) PROVE PassesInv'
<1> DEFINE p == worker[h].snap
           i == worker[h].step
           t == worker[h].attempt
           step == StepsOf(p)[i]
           n == IF i < 10 /\ Skipped(p, StepsOf(p)[i + 1]) THEN i + 2 ELSE i + 1
           Landed == /\ rules' = Effect(p, step) /\ mirrorKey' = Memo(p, step, TRUE)
                     /\ faults' = faults
           Failed == faults' = faults + 1 /\ rules' = rules /\ CallOf(step) \in Faulty
<1>1. /\ dnrQueue # <<>> /\ Head(dnrQueue) = h /\ step # "readBack"
      /\ UNCHANGED <<browser, overlapped, misread, stored, pending, cachedPrefs>>
      /\ Landed \/ Failed
      /\ IF i = Len(StepsOf(p)) THEN Return(h, Tail(dnrQueue))
         ELSE GoTo(h, p, i + 1, t, Tail(dnrQueue))
  BY Zenon DEF ServeCall
<1>2. worker[h].pc = "calling"
  BY <1>1, QueueServes DEF Inv, QueueInv
<1>3. worker[h] \in Pass /\ p \in Snapshot /\ i \in 1..10 /\ worker[h] # Idle
  BY <1>2, InPass DEF Inv, Waiting, Pass, Idle
<1>0. faults \in Nat /\ faults + 1 # 0
  BY DEF Inv, PlainTypes
<1>4. HistoryInv' /\ PendingInv' /\ CacheInv'
  <2>1. faults' = faults \/ faults' # 0
    BY <1>1, <1>0, Zenon
  <2> QED BY <1>1, <2>1 DEF PassesInv, HistoryInv, PendingInv, CacheInv
<1>5. FirefoxInv'
  BY <1>1, EffectOnFirefox, SameBrowser DEF Inv, PassesInv, FirefoxInv
<1>6. ASSUME Landed, Done(rules, p, i), GateOpen(p) => ~misread
      PROVE  Done(rules', p, n)
  BY <1>1, <1>2, <1>3, <1>5, <1>6, CallLands
<1>7. ASSUME ~overlapped
      PROVE  Agrees(p, stored, pending, Quiescent) /\ Progress(rules', p, n, t, faults')
  <2>1. Agrees(p, stored, pending, Quiescent) /\ Progress(rules, p, i, t, faults)
    BY <1>3, <1>7 DEF PassesInv, ProgressInv, OnTheWay
  <2>2. ASSUME faults' = 0 PROVE Done(rules', p, n)
    <3>1. Landed /\ faults = 0
      BY <1>0, <1>1, <2>2
    <3>2. Done(rules, p, i) /\ ~misread
      BY <2>1, <3>1 DEF Progress, PassesInv, HistoryInv
    <3> QED BY <1>6, <3>1, <3>2
  <2>3. ASSUME ~GateOpen(p), StaticCallsLand PROVE StaticOff(rules')
    <3>1. i = 1 => step = "staticRulesets"
      BY <2>3, CloseStepsAre DEF StepsOf
    <3>2. i # 1 => StaticOff(rules)
      BY <1>3, <2>1, <2>3 DEF Progress
    <3>3. CASE Landed
      BY <2>3, <3>1, <3>2, <3>3, StaticStays DEF Inv
    <3>4. CASE Failed
      <4>1. step # "staticRulesets"
        BY <2>3, <3>4 DEF StaticCallsLand, CallOf
      <4> QED BY <3>1, <3>2, <3>4, <4>1
    <3> QED BY <1>1, <3>3, <3>4
  <2>4. ASSUME ~GateOpen(p), t = 2
        PROVE  faults' # 0 /\ (faults' <= 1 => Done(rules', p, n))
    <3>1. faults # 0 /\ (faults <= 1 => Done(rules, p, i))
      BY <2>1, <2>4 DEF Progress
    <3>2. CASE Landed
      BY <1>6, <2>4, <3>1, <3>2
    <3>3. CASE Failed
      BY <1>0, <3>1, <3>3
    <3> QED BY <1>1, <3>2, <3>3
  <2> HIDE DEF n, p, t
  <2> QED BY <2>1, <2>2, <2>3, <2>4 DEF Progress
<1> HIDE DEF step
<1>8. CASE i = 10
  <2>1. Return(h, Tail(dnrQueue))
    BY <1>1, <1>8, StepFacts
  <2>2. worker' = [worker EXCEPT ![h] = Idle]
    BY <2>1 DEF Return
  <2>3. GateOpen(p)
    BY <1>1, <1>8, CloseStepsAre DEF StepsOf, step
  <2>4. n = 11
    BY <1>8
  <2>5. rules' \in [Family -> BOOLEAN]
    BY DEF Inv, BooleanTypes
  <2>6. ~overlapped => Outcome(rules', p, faults')
    BY <1>3, <1>7, <2>3, <2>4, <2>5, AllCovered DEF Outcome, Progress
  <2> QED BY <1>1, <1>3, <1>4, <1>5, <1>7, <2>2, <2>6, PassEnds DEF PassesInv
<1>9. CASE i # 10
  <2>1. GoTo(h, p, i + 1, t, Tail(dnrQueue)) /\ i < 10
    BY <1>1, <1>3, <1>9, StepFacts
  <2>2. /\ worker'[h].snap = p /\ worker'[h].pc \in Waiting /\ worker'[h].attempt = t
        /\ worker'[h].step = IF Skipped(p, StepsOf(p)[i + 1]) THEN (i + 1) + 1 ELSE i + 1
        /\ \A k \in Workers : k # h => worker'[k] = worker[k]
    BY <2>1, GoesTo DEF Inv
  <2>3. (i + 1) + 1 = i + 2
    BY <1>3
  <2>4. worker'[h].step = n
    BY <2>1, <2>2, <2>3
  <2>5. SoloInv' /\ ProgressInv'
    BY <1>1, <1>3, <1>7, <2>2, <2>4, OnlyMine DEF PassesInv
  <2>6. RestInv'
    BY <2>2 DEF RestInv, Quiet, Waiting, Idle
  <2> QED BY <1>4, <1>5, <2>5, <2>6 DEF PassesInv
<1> QED BY <1>8, <1>9

\* No rule of either kind is no rule.
LEMMA NothingLeft ==
    ASSUME NEW r \in [Family -> BOOLEAN], StaticOff(r), {f \in DynamicFamily : r[f]} = {}
    PROVE  r = NoRules
  BY DEF StaticOff, NoRules, Family

LEMMA ServeReadBackKeeps ==
    ASSUME Inv, Inv', PassesInv, NEW h \in Workers, ServeReadBack(h) PROVE PassesInv'
<1> DEFINE p == worker[h].snap
           i == worker[h].step
           t == worker[h].attempt
           residual == {f \in DynamicFamily : rules[f]}
<1>1. /\ dnrQueue # <<>> /\ Head(dnrQueue) = h /\ StepsOf(p)[i] = "readBack"
      /\ UNCHANGED <<browser, overlapped, misread, stored, pending, cachedPrefs, rules>>
      /\ \/ residual = {} /\ faults' = faults /\ Return(h, Tail(dnrQueue))
         \/ /\ residual # {} /\ t = 1 /\ faults' = faults
            /\ GoTo(h, p, 1, t + 1, Tail(dnrQueue))
         \/ residual # {} /\ t # 1 /\ faults' = faults /\ Return(h, Tail(dnrQueue))
         \/ faults' = faults + 1 /\ Return(h, Tail(dnrQueue))
  BY Zenon DEF ServeReadBack, MayRetry
<1>2. worker[h].pc = "calling"
  BY <1>1, QueueServes DEF Inv, QueueInv
<1>3. /\ worker[h] \in Pass /\ p \in Snapshot /\ i \in 1..10 /\ worker[h] # Idle
      /\ t \in {1, 2} /\ faults \in Nat /\ rules \in [Family -> BOOLEAN]
  BY <1>2, InPass DEF Inv, Waiting, Pass, Idle, PlainTypes, BooleanTypes
<1>4. HistoryInv' /\ PendingInv' /\ CacheInv' /\ FirefoxInv'
  <2>1. faults' = faults \/ faults' # 0
    BY <1>1, <1>3
  <2> QED BY <1>1, <2>1, SameBrowser
          DEF PassesInv, HistoryInv, PendingInv, CacheInv, FirefoxInv
<1>5. ~GateOpen(p) /\ i = 10 /\ Want(p) = NoRules
  BY <1>1, <1>3, OpenStepsAre, CloseStepsAre DEF StepsOf, Want
<1>6. ~overlapped => Agrees(p, stored, pending, Quiescent) /\ Progress(rules, p, 10, t, faults)
  BY <1>3, <1>5 DEF PassesInv, ProgressInv, OnTheWay
<1>7. Done(rules, p, 10) => rules = NoRules
  BY <1>3, <1>5, AllCovered
<1>8. rules = NoRules => residual = {}
  BY DEF NoRules, Family
<1>9. CASE Return(h, Tail(dnrQueue))
  <2>1. worker' = [worker EXCEPT ![h] = Idle]
    BY <1>9 DEF Return
  <2>2. ASSUME ~overlapped, StaticCallsLand, faults' <= 1 PROVE rules = NoRules
    <3>1. CASE residual = {}
      <4>1. StaticOff(rules)
        BY <1>5, <1>6, <2>2 DEF Progress
      <4> QED BY <1>3, <3>1, <4>1, NothingLeft
    <3>2. CASE residual # {} /\ t # 1 /\ faults' = faults
      BY <1>3, <1>5, <1>6, <1>7, <2>2, <3>2 DEF Progress
    <3>3. CASE faults' = faults + 1
      BY <1>3, <1>6, <1>7, <2>2, <3>3 DEF Progress
    <3>4. ~GoTo(h, p, 1, t + 1, Tail(dnrQueue))
      <4>1. worker'[h] = Idle
        BY <1>3, <2>1 DEF Inv, PassInv
      <4> QED BY <4>1, GoesTo DEF Inv, Idle, Waiting
    <3> QED BY <1>1, <3>1, <3>2, <3>3, <3>4
  <2>3. ASSUME ~overlapped, faults' = 0 PROVE rules = NoRules
    BY <1>1, <1>3, <1>6, <1>7, <2>3 DEF Progress
  <2>4. ~overlapped => Outcome(rules', p, faults')
    BY <1>1, <1>5, <2>2, <2>3 DEF Outcome
  <2> QED BY <1>1, <1>3, <1>4, <1>6, <2>1, <2>4, PassEnds DEF PassesInv
<1>10. CASE residual # {} /\ t = 1 /\ faults' = faults /\ GoTo(h, p, 1, t + 1, Tail(dnrQueue))
  <2>1. /\ worker'[h].snap = p /\ worker'[h].pc \in Waiting /\ worker'[h].step = 1
        /\ worker'[h].attempt = 2
        /\ \A k \in Workers : k # h => worker'[k] = worker[k]
    BY <1>10, GoesTo, FirstStep DEF Inv
  <2>2. ~overlapped => faults # 0
    BY <1>6, <1>7, <1>8, <1>10 DEF Progress
  <2>3. ~overlapped => Progress(rules', p, 1, 2, faults')
    BY <1>10, <2>2, FirstStep DEF Progress
  <2>4. SoloInv' /\ ProgressInv'
    BY <1>1, <1>3, <1>6, <2>1, <2>3, OnlyMine DEF PassesInv
  <2>5. RestInv'
    BY <2>1 DEF RestInv, Quiet, Waiting, Idle
  <2> QED BY <1>4, <2>4, <2>5 DEF PassesInv
<1> QED BY <1>1, <1>9, <1>10

-----------------------------------------------------------------------------
(* The theorem.                                                            *)

LEMMA PassesStep == Inv /\ PassesInv /\ [Next]_vars => PassesInv'
<1> SUFFICES ASSUME Inv, PassesInv, [Next]_vars PROVE PassesInv'
  OBVIOUS
<1>1. Inv'
  BY InvStep
<1>2. ASSUME NEW k \in UserKeys, UserWrites(k) PROVE PassesInv'
  BY <1>2, UserWritesKeeps
<1>3. CASE Evict \/ BrowserRestarts
  BY <1>3, EvictKeeps, RestartKeeps
<1>4. ASSUME NEW h \in Workers, Step(h) PROVE PassesInv'
  BY <1>1, <1>4, OnChangedKeeps, OnStartupKeeps, OnInstalledKeeps, ReadPrefsKeeps,
     PreparationKeeps, ServeCallKeeps, ServeReadBackKeeps DEF Step
<1>5. CASE UNCHANGED vars
  <2>1. UNCHANGED <<browser, rules, worker, overlapped, faults, misread, stored, pending,
                    cachedPrefs>>
    BY <1>5 DEF vars
  <2>2. HistoryInv' /\ FirefoxInv' /\ SoloInv' /\ ProgressInv' /\ RestInv'
    BY <2>1, Meanwhile
  <2> QED BY <2>1, <2>2 DEF PassesInv, PendingInv, CacheInv
<1> QED BY <1>2, <1>3, <1>4, <1>5 DEF Next

LEMMA PassesAlways == Spec => []PassesInv
  BY PassesInit, PassesStep, Invariance, PTL DEF Spec

\* At rest, with every change handled, the last pass worked from what is stored.
LEMMA LastPass ==
    ASSUME PassesInv, Inv, Settled, ~overlapped
    PROVE  \E p \in Snapshot : /\ Outcome(rules, p, faults)
                               /\ p = [stored EXCEPT !.disabledCategories =
                                                         p["disabledCategories"]]
                               /\ p["disabledCategories"] \in BOOLEAN
                               /\ GateOpen(p) <=> GateOpen(stored)
<1>1. \A k : ~Announced(k, pending)
  BY DEF Settled, Announced
<1>2. PICK p \in Snapshot : Agrees(p, stored, pending, Quiescent) /\ Outcome(rules, p, faults)
  BY <1>1 DEF PassesInv, RestInv, Settled, Behind
<1>3. p = [stored EXCEPT !.disabledCategories = p["disabledCategories"]]
  BY <1>1, <1>2 DEF Agrees, Quiescent, Inv, PrefTypes, Snapshot, PrefKey
<1>4. p["disabledCategories"] \in BOOLEAN
  BY DEF Snapshot, PrefKey
<1>5. GateOpen(p) <=> GateOpen(stored)
  BY <1>1, <1>2 DEF GateOpen, Agrees, Quiescent, PrefKey
<1> QED BY <1>2, <1>3, <1>4, <1>5

\* Once every change has been handled, the last of them by a pass that ran alone,
\* and no call has failed, the registered rules are those the stored preferences ask
\* for, whatever passes overlapped before and wherever the browser was stopped
\* (applyDnrState, syncCategoryFilteredDNR, applyStaticRulesets).
THEOREM LonePassConverges == Spec => []PassConverges
<1>1. PassesInv /\ Inv => PassConverges
  BY LastPass DEF PassConverges, Converged, Outcome
<1> QED BY <1>1, PassesAlways, Invariance, PTL

\* A closed gate has nothing registered after such a pass, though one call of the
\* teardown, or of any pass before it, failed: its read-back sees what is left of the
\* dynamic rules and the retry removes it.  It cannot see the static rulesets
\* (tearDownAndVerify), whence the assumption.
THEOREM ClosedAfterOneFailure ==
    ASSUME "updateEnabledRulesets" \notin Faulty PROVE Spec => []PassCloses
<1>1. PassesInv /\ Inv => PassCloses
  BY LastPass DEF PassCloses, Outcome, StaticCallsLand
<1> QED BY <1>1, PassesAlways, Invariance, PTL

\* A teardown that reports success and that nothing overlapped has left no rule at
\* all, however many of its calls failed (tearDownAndVerify's ok).
THEOREM SuccessIsTrue ==
    ASSUME "updateEnabledRulesets" \notin Faulty PROVE Spec => SuccessMeansInert
<1> DEFINE Honest == \A h \in Workers :
        ServeReadBack(h) /\ worker'[h] = Idle /\ verdict' = "ok" /\ ~overlapped
            => rules' = NoRules
<1>1. ASSUME PassesInv, Inv, [Next]_vars PROVE [Honest]_vars
  <2> SUFFICES ASSUME NEW h \in Workers, ServeReadBack(h), worker'[h] = Idle,
                      verdict' = "ok", ~overlapped
               PROVE  rules' = NoRules
    BY Zenon
  <2> DEFINE p == worker[h].snap
  <2>1. /\ dnrQueue # <<>> /\ Head(dnrQueue) = h
        /\ StepsOf(p)[worker[h].step] = "readBack" /\ rules' = rules
        /\ \/ {f \in DynamicFamily : rules[f]} = {}
           \/ GoTo(h, p, 1, worker[h].attempt + 1, Tail(dnrQueue))
           \/ verdict' = "failed" \/ verdict' = Unverified
    BY Zenon DEF ServeReadBack
  <2>2. {f \in DynamicFamily : rules[f]} = {}
    BY <1>1, <2>1, GoesTo DEF Inv, Idle, Waiting, Unverified
  <2>3. worker[h].pc = "calling"
    BY <1>1, <2>1, QueueServes DEF Inv, QueueInv
  <2>4. worker[h] \in Pass /\ p \in Snapshot /\ worker[h].step \in 1..10
    BY <1>1, <2>3, InPass DEF Inv, Waiting, Pass
  <2>5. ~GateOpen(p) /\ worker[h].step = 10
    BY <2>1, <2>4, OpenStepsAre, CloseStepsAre DEF StepsOf
  <2>6. StaticOff(rules)
    BY <1>1, <2>4, <2>5 DEF PassesInv, ProgressInv, OnTheWay, Progress, StaticCallsLand
  <2>7. rules \in [Family -> BOOLEAN]
    BY <1>1 DEF Inv, BooleanTypes
  <2> QED BY <2>1, <2>2, <2>6, <2>7, NothingLeft
<1>2. [][Honest]_vars => SuccessMeansInert
  BY PTL DEF SuccessMeansInert
<1> QED BY <1>1, <1>2, PassesAlways, Invariance, PTL DEF Spec
=============================================================================
