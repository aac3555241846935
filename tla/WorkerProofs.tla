---------------------------- MODULE WorkerProofs -----------------------------
(***************************************************************************)
(* The components of the background context that answer from memory or     *)
(* write what they were handed: the cache of preferences, the single-      *)
(* flight loaders, the clicked links and the import of settings, each with *)
(* the inductive invariant its properties rest on, for every value of the  *)
(* constants; and the lists and the consent record, whose proofs are       *)
(* carried over from their own modules.  With what StorageProofs says of   *)
(* the other components this gives the types of all ten.                   *)
(*                                                                         *)
(* The cache's theorems are of Spec, its own; the others are of RunSpec,   *)
(* the harness: every step of it is one of the component's or leaves the   *)
(* component's variables alone.                                            *)
(***************************************************************************)
EXTENDS StorageProofs, Integers, Sequences, FiniteSetTheorems, TLAPS

-----------------------------------------------------------------------------
(* The cache of preferences, for any number of storage parts, fetches and  *)
(* callers: the state is well typed, the cache never outlives a change the *)
(* worker has heard of, and no caller gets preferences older than that.    *)

\* Events announce only writes that happened.
HeardInv == \A p \in Parts : heard[p] <= stored[p]

\* What is cached reflects every change heard of.
CacheInv ==
    cachedPrefs # NotCached => \A p \in Parts : NotOlder(p, cachedPrefs[p], heard[p])

\* No fetch began in the future, and one that is still current has read nothing
\* older than what has been heard of: this is what the version check buys.
FetchInv ==
    \A f \in Fetches :
        /\ fetch[f].versionAtStart <= version
        /\ fetch[f].active /\ Current(f) =>
              \A p \in Parts : \/ fetch[f].got[p] = NotRead
                               \/ NotOlder(p, fetch[f].got[p], heard[p])

AskedInv == \A c \in Callers : \A p \in Parts : caller[c].asked[p] <= heard[p]

\* An answer is a whole snapshot.
AnswerInv ==
    \A c \in Callers : caller[c].state = "answered" => caller[c].answer \in Snapshot

\* The inductive invariant: AnswerNotStale alone is not inductive, because what a
\* caller is answered depends on what its fetch has read.
PrefsInv ==
    /\ TypeOK /\ HeardInv /\ CacheInv /\ FetchInv /\ AskedInv /\ AnswerInv
    /\ AnswerNotStale

-----------------------------------------------------------------------------
LEMMA StartedTyped == ASSUME TypeOK PROVE Started \in FetchRecord
  BY DEF TypeOK, Started, FetchRecord, NothingRead, NotRead

\* No step leaves the types.
LEMMA PrefsTypeNext == TypeOK /\ [Next]_vars => TypeOK'
<1> SUFFICES ASSUME TypeOK, [Next]_vars PROVE TypeOK'
  OBVIOUS
<1> USE DEF TypeOK
<1>1. ASSUME NEW p \in Parts, Write(p) PROVE TypeOK'
  BY <1>1 DEF Write
<1>2. ASSUME NEW p \in Parts, HearChange(p) PROVE TypeOK'
  BY <1>2 DEF HearChange, Invalidate
<1>3. ASSUME ForceInvalidate PROVE TypeOK'
  BY <1>3 DEF ForceInvalidate, Invalidate
<1>4. ASSUME NEW c \in Callers, Ask(c) PROVE TypeOK'
  <2>1. CASE cachedPrefs # NotCached
    BY <1>4, <2>1 DEF Ask, CallerRecord
  <2>2. CASE cachedPrefs = NotCached
    <3>1. prefsFetchPromise' \in Fetches
      BY <1>4, <2>2 DEF Ask
    <3>2. fetch' \in [Fetches -> FetchRecord]
      BY <1>4, <2>2, StartedTyped DEF Ask
    <3>3. [state |-> "waiting", awaits |-> prefsFetchPromise', asked |-> heard,
           answer |-> NotCached] \in CallerRecord
      BY <3>1 DEF CallerRecord
    <3>4. caller' \in [Callers -> CallerRecord]
      BY <1>4, <2>2, <3>3 DEF Ask
    <3> QED BY <1>4, <3>1, <3>2, <3>4 DEF Ask
  <2> QED BY <2>1, <2>2
<1>5. ASSUME NEW f \in Fetches, NEW p \in Parts, ReadPart(f, p) PROVE TypeOK'
  <2>1. PICK v \in Nat \cup {Default} : fetch' = [fetch EXCEPT ![f].got[p] = v]
    BY <1>5 DEF ReadPart
  <2>2. [fetch[f] EXCEPT !.got = [fetch[f].got EXCEPT ![p] = v]] \in FetchRecord
    BY DEF FetchRecord
  <2>3. fetch' \in [Fetches -> FetchRecord]
    BY <2>1, <2>2
  <2> QED BY <1>5, <2>3 DEF ReadPart
<1>6. ASSUME NEW f \in Fetches, Fill(f) PROVE TypeOK'
  <2>1. fetch[f].got \in Snapshot
    BY <1>6 DEF Fill, ReadAll, FetchRecord, Snapshot
  <2>2. FreeFetch \in FetchRecord
    BY DEF FreeFetch, FetchRecord, NothingRead
  <2>3. \A c \in Callers : Answered(c, fetch[f].got) \in CallerRecord
    BY <2>1 DEF Answered, CallerRecord
  <2>4. caller' \in [Callers -> CallerRecord]
    BY <1>6, <2>3 DEF Fill
  <2>5. fetch' \in [Fetches -> FetchRecord]
    BY <1>6, <2>2 DEF Fill
  <2> QED BY <1>6, <2>1, <2>4, <2>5 DEF Fill
<1>7. ASSUME NEW f \in Fetches, Discard(f) PROVE TypeOK'
  <2>1. CASE cachedPrefs # NotCached
    <3>1. FreeFetch \in FetchRecord
      BY DEF FreeFetch, FetchRecord, NothingRead
    <3>2. \A c \in Callers : Answered(c, cachedPrefs) \in CallerRecord
      BY DEF Answered, CallerRecord
    <3>3. caller' \in [Callers -> CallerRecord]
      BY <1>7, <2>1, <3>2 DEF Discard
    <3>4. fetch' \in [Fetches -> FetchRecord]
      BY <1>7, <2>1, <3>1 DEF Discard
    <3> QED BY <1>7, <2>1, <3>3, <3>4 DEF Discard
  <2>2. CASE cachedPrefs = NotCached
    <3>1. fetch' \in [Fetches -> FetchRecord]
      BY <1>7, <2>2, StartedTyped DEF Discard
    <3> QED BY <1>7, <2>2, <3>1 DEF Discard
  <2> QED BY <2>1, <2>2
<1>8. CASE UNCHANGED vars
  BY <1>8 DEF vars
<1> QED
  BY <1>1, <1>2, <1>3, <1>4, <1>5, <1>6, <1>7, <1>8 DEF Next, FetchStep

\* The state stays within its types (getPrefsWithCache and its variables).
THEOREM PrefsTypeCorrect == Spec => []TypeOK
<1>1. Init => TypeOK
  BY ConstantsAssumption
  DEF Init, TypeOK, Default, NotRead, NothingRead, FreeFetch, Unasked, Snapshot,
      FetchRecord, CallerRecord
<1> QED BY <1>1, PrefsTypeNext, PTL DEF Spec

-----------------------------------------------------------------------------
\* The parts of the state that values are compared with only grow, except that
\* hearing of a change raises the bar for the cache and the fetches.
Monotone ==
    /\ \A p \in Parts : stored[p] <= stored'[p] /\ heard[p] <= heard'[p]
    /\ failed \subseteq failed'

LEMMA NextMonotone == ASSUME TypeOK, [Next]_vars PROVE Monotone
<1>1. ASSUME NEW p \in Parts, Write(p) PROVE Monotone
  BY <1>1 DEF Write, TypeOK, Monotone
<1>2. ASSUME NEW p \in Parts, HearChange(p) PROVE Monotone
  BY <1>2 DEF HearChange, TypeOK, Monotone
<1>3. ASSUME UNCHANGED <<stored, heard>>, failed \subseteq failed' PROVE Monotone
  BY <1>3 DEF TypeOK, Monotone
<1> QED
  BY <1>1, <1>2, <1>3 DEF Next, FetchStep, ForceInvalidate, Ask, ReadPart, Fill,
                          Discard, vars

\* Storage as a comparison sees it: what NotOlder needs of a step.
LEMMA StoredGrows ==
    ASSUME TypeOK, TypeOK', Monotone
    PROVE  /\ \A p \in Parts : /\ stored[p] \in Nat /\ stored'[p] \in Nat
                               /\ heard[p] \in Nat /\ stored[p] <= stored'[p]
           /\ failed \subseteq failed'
  BY DEF TypeOK, Monotone

\* A caller that is answered with a snapshot no older than what has been heard of
\* is not given anything older than what it asked for; the others keep what they
\* have.
LEMMA CallersKept ==
    ASSUME TypeOK, TypeOK', Monotone, AskedInv, AnswerInv, AnswerNotStale,
           NEW prefs \in Snapshot,
           \A p \in Parts : NotOlder(p, prefs[p], heard[p]),
           \A c \in Callers :
               \/ caller'[c] = caller[c]
               \/ /\ caller'[c].state = "answered" /\ caller'[c].answer = prefs
                  /\ caller'[c].asked \in {heard, caller[c].asked}
    PROVE  AskedInv' /\ AnswerInv' /\ AnswerNotStale'
<1>1. AskedInv'
  <2>1. SUFFICES ASSUME NEW c \in Callers, NEW p \in Parts
                 PROVE  caller'[c].asked[p] <= heard'[p]
    BY DEF AskedInv
  <2>2. /\ heard[p] \in Nat /\ heard'[p] \in Nat /\ heard[p] <= heard'[p]
        /\ caller[c].asked[p] \in Nat /\ caller[c].asked[p] <= heard[p]
    BY DEF AskedInv, Monotone, TypeOK, CallerRecord
  <2>3. caller'[c].asked \in {heard, caller[c].asked}
    OBVIOUS
  <2> QED BY <2>2, <2>3
<1>2. AnswerInv'
  BY DEF AnswerInv, Snapshot
<1>3. ASSUME NEW c \in Callers, caller'[c].state = "answered", NEW p \in Parts
      PROVE  NotOlder(p, caller[c].answer[p], caller[c].asked[p])'
  <2>1. CASE caller'[c] = caller[c]
    <3>1. /\ caller[c].answer[p] \in Int /\ caller[c].asked[p] \in Nat
          /\ NotOlder(p, caller[c].answer[p], caller[c].asked[p])
      BY <1>3, <2>1 DEF AnswerInv, AnswerNotStale, TypeOK, CallerRecord, Snapshot, Default
    <3> QED BY <2>1, <3>1, StoredGrows DEF NotOlder, Default
  <2>2. CASE /\ caller'[c].answer = prefs
             /\ caller'[c].asked \in {heard, caller[c].asked}
    <3>1. /\ prefs[p] \in Int /\ heard[p] \in Nat /\ caller'[c].asked[p] \in Nat
          /\ caller'[c].asked[p] <= heard[p]
      BY <2>2 DEF AskedInv, TypeOK, CallerRecord, Snapshot, Default
    <3> QED BY <2>2, <3>1, StoredGrows DEF NotOlder, Default
  <2> QED BY <1>3, <2>1, <2>2
<1> QED BY <1>1, <1>2, <1>3 DEF AnswerNotStale

\* A caller that begins to wait has been answered nothing.
LEMMA WaitingKept ==
    ASSUME TypeOK, TypeOK', Monotone, AskedInv, AnswerInv, AnswerNotStale,
           \A c \in Callers :
               \/ caller'[c] = caller[c]
               \/ caller'[c].state = "waiting" /\ caller'[c].asked = heard
    PROVE  AskedInv' /\ AnswerInv' /\ AnswerNotStale'
<1>1. AskedInv'
  BY DEF AskedInv, Monotone, TypeOK, CallerRecord
<1>2. AnswerInv'
  BY DEF AnswerInv
<1>3. ASSUME NEW c \in Callers, caller'[c].state = "answered", NEW p \in Parts
      PROVE  NotOlder(p, caller[c].answer[p], caller[c].asked[p])'
  <2>1. caller'[c] = caller[c]
    BY <1>3
  <2>2. /\ caller[c].answer[p] \in Int /\ caller[c].asked[p] \in Nat
        /\ NotOlder(p, caller[c].answer[p], caller[c].asked[p])
    BY <1>3, <2>1 DEF AnswerInv, AnswerNotStale, TypeOK, CallerRecord, Snapshot, Default
  <2> QED BY <2>1, <2>2, StoredGrows DEF NotOlder, Default
<1> QED BY <1>1, <1>2, <1>3 DEF AnswerNotStale

\* Every step keeps the invariant.
LEMMA PrefsInvNext == PrefsInv /\ [Next]_vars => PrefsInv'
<1> SUFFICES ASSUME PrefsInv, [Next]_vars PROVE PrefsInv'
  OBVIOUS
<1>t. TypeOK /\ TypeOK' /\ Monotone
  BY PrefsTypeNext, NextMonotone DEF PrefsInv
<1>h. HeardInv'
  <2>1. ASSUME NEW p \in Parts, HearChange(p) PROVE HeardInv'
    BY <2>1, <1>t DEF HearChange, PrefsInv, HeardInv, TypeOK
  <2>2. ASSUME heard' = heard PROVE HeardInv'
    BY <2>2, <1>t DEF PrefsInv, HeardInv, TypeOK, Monotone
  <2> QED BY <2>1, <2>2 DEF Next, FetchStep, Write, ForceInvalidate, Ask, ReadPart,
                            Fill, Discard, vars
<1>c. ASSUME cachedPrefs' = cachedPrefs, heard' = heard PROVE CacheInv'
  <2>1. SUFFICES ASSUME cachedPrefs # NotCached, NEW p \in Parts
                 PROVE  NotOlder(p, cachedPrefs[p], heard[p])'
    BY <1>c DEF CacheInv
  <2>2. cachedPrefs[p] \in Int /\ heard[p] \in Nat /\ NotOlder(p, cachedPrefs[p], heard[p])
    BY <1>t, <2>1 DEF PrefsInv, CacheInv, TypeOK, Snapshot, Default
  <2> QED BY <1>c, <1>t, <2>2, StoredGrows DEF NotOlder, Default
<1>a. ASSUME caller' = caller PROVE AskedInv' /\ AnswerInv' /\ AnswerNotStale'
  BY <1>a, <1>t, WaitingKept DEF PrefsInv
\* A fetch that is untouched, or freed, or just started, keeps its part.
<1>f. ASSUME heard' = heard, version' = version,
             \A f \in Fetches : fetch'[f] \in {fetch[f], FreeFetch, Started}
      PROVE  FetchInv'
  <2>1. SUFFICES ASSUME NEW f \in Fetches
                 PROVE  /\ fetch'[f].versionAtStart <= version
                        /\ fetch'[f].active /\ fetch'[f].versionAtStart = version =>
                              \A p \in Parts :
                                 \/ fetch'[f].got[p] = NotRead
                                 \/ NotOlder(p, fetch[f].got[p], heard[p])'
    BY <1>f DEF FetchInv, Current
  <2>2. CASE fetch'[f] = fetch[f]
    <3>1. \A p \in Parts : fetch[f].got[p] \in Int
      <4>1. fetch[f].got \in [Parts -> Nat \cup {Default, NotRead}]
        BY <1>t DEF TypeOK, FetchRecord
      <4> QED BY <4>1 DEF Default, NotRead
    <3>2. /\ fetch[f].versionAtStart <= version
          /\ fetch[f].active /\ fetch[f].versionAtStart = version =>
                \A p \in Parts : \/ fetch[f].got[p] = NotRead
                                 \/ NotOlder(p, fetch[f].got[p], heard[p])
      BY DEF PrefsInv, FetchInv, Current
    <3> QED BY <1>f, <1>t, <2>2, <3>1, <3>2, StoredGrows DEF NotOlder, Default
  <2>3. CASE fetch'[f] = FreeFetch
    BY <1>t, <2>3 DEF FreeFetch, TypeOK
  <2>4. CASE fetch'[f] = Started
    BY <1>t, <2>4 DEF Started, NothingRead, TypeOK
  <2> QED BY <1>f, <2>2, <2>3, <2>4
\* A step that invalidates makes every fetch in flight a past one.
<1>v. ASSUME Invalidate, fetch' = fetch PROVE CacheInv' /\ FetchInv'
  BY <1>v, <1>t DEF Invalidate, PrefsInv, CacheInv, FetchInv, Current, TypeOK, FetchRecord
<1>1. ASSUME NEW p \in Parts, Write(p) PROVE PrefsInv'
  BY <1>1, <1>t, <1>h, <1>c, <1>a, <1>f DEF Write, PrefsInv
<1>2. ASSUME NEW p \in Parts, HearChange(p) PROVE PrefsInv'
  BY <1>2, <1>t, <1>h, <1>a, <1>v DEF HearChange, PrefsInv
<1>3. ASSUME ForceInvalidate PROVE PrefsInv'
  BY <1>3, <1>t, <1>h, <1>a, <1>v DEF ForceInvalidate, PrefsInv
<1>4. ASSUME NEW c \in Callers, Ask(c) PROVE PrefsInv'
  <2>1. CacheInv' /\ FetchInv'
    <3>1. \A f \in Fetches : fetch'[f] \in {fetch[f], FreeFetch, Started}
      BY <1>4, <1>t DEF Ask, TypeOK
    <3> QED BY <1>4, <1>c, <1>f, <3>1 DEF Ask
  <2>2. AskedInv' /\ AnswerInv' /\ AnswerNotStale'
    <3>1. CASE cachedPrefs # NotCached
      <4>1. cachedPrefs \in Snapshot
        BY <1>t, <3>1 DEF TypeOK
      <4>2. \A p \in Parts : NotOlder(p, cachedPrefs[p], heard[p])
        BY <3>1 DEF PrefsInv, CacheInv
      <4>3. \A d \in Callers :
               \/ caller'[d] = caller[d]
               \/ /\ caller'[d].state = "answered" /\ caller'[d].answer = cachedPrefs
                  /\ caller'[d].asked \in {heard, caller[d].asked}
        BY <1>4, <1>t, <3>1 DEF Ask, TypeOK
      <4> QED BY <1>t, <4>1, <4>2, <4>3, CallersKept DEF PrefsInv
    <3>2. CASE cachedPrefs = NotCached
      BY <1>a, <1>t, <1>4, <3>2, StoredGrows, WaitingKept DEF Ask, TypeOK, PrefsInv
    <3> QED BY <3>1, <3>2
  <2> QED BY <1>t, <1>h, <2>1, <2>2 DEF PrefsInv
<1>5. ASSUME NEW f \in Fetches, NEW p \in Parts, ReadPart(f, p) PROVE PrefsInv'
  <2>1. FetchInv'
    <3>1. PICK v \in Nat \cup {Default} :
             /\ fetch' = [fetch EXCEPT ![f].got[p] = v]
             /\ v = stored[p] \/ (v = Default /\ p \in failed')
      BY <1>5, <1>t DEF ReadPart, TypeOK
    <3>2. SUFFICES ASSUME NEW g \in Fetches
                   PROVE  /\ fetch'[g].versionAtStart <= version
                          /\ fetch'[g].active /\ fetch'[g].versionAtStart = version =>
                                \A q \in Parts :
                                   \/ fetch'[g].got[q] = NotRead
                                   \/ NotOlder(q, fetch[g].got[q], heard[q])'
      BY <1>5 DEF FetchInv, Current, ReadPart
    <3>3. /\ fetch'[g].versionAtStart = fetch[g].versionAtStart
          /\ fetch'[g].active = fetch[g].active
          /\ \A q \in Parts : fetch'[g].got[q] = fetch[g].got[q]
                              \/ (q = p /\ fetch'[g].got[q] = v)
      BY <1>t, <3>1 DEF TypeOK, FetchRecord
    <3>4. /\ fetch[g].versionAtStart <= version
          /\ fetch[g].active /\ fetch[g].versionAtStart = version =>
                \A q \in Parts : \/ fetch[g].got[q] = NotRead
                                 \/ NotOlder(q, fetch[g].got[q], heard[q])
      BY DEF PrefsInv, FetchInv, Current
    <3>5. \A q \in Parts : fetch[g].got[q] \in Int
      <4>1. fetch[g].got \in [Parts -> Nat \cup {Default, NotRead}]
        BY <1>t DEF TypeOK, FetchRecord
      <4> QED BY <4>1 DEF Default, NotRead
    <3>6. heard' = heard /\ stored' = stored /\ HeardInv
      BY <1>5 DEF ReadPart, PrefsInv
    <3> QED
      BY <1>t, <3>1, <3>3, <3>4, <3>5, <3>6, StoredGrows DEF NotOlder, HeardInv, Default
  <2> QED BY <1>5, <1>t, <1>h, <1>c, <1>a, <2>1 DEF ReadPart, PrefsInv
<1>6. ASSUME NEW f \in Fetches, Fill(f) PROVE PrefsInv'
  <2>1. fetch[f].got \in Snapshot
    BY <1>6, <1>t DEF Fill, ReadAll, TypeOK, FetchRecord, Snapshot
  <2>2. \A p \in Parts : NotOlder(p, fetch[f].got[p], heard[p])
    BY <1>6 DEF Fill, ReadAll, PrefsInv, FetchInv
  <2>3. CacheInv'
    BY <1>6, <2>2 DEF Fill, CacheInv, NotOlder
  <2>4. FetchInv'
    <3>1. \A g \in Fetches : fetch'[g] \in {fetch[g], FreeFetch, Started}
      BY <1>6, <1>t DEF Fill, TypeOK
    <3> QED BY <1>6, <1>f, <3>1 DEF Fill
  <2>5. AskedInv' /\ AnswerInv' /\ AnswerNotStale'
    <3>1. \A c \in Callers :
             \/ caller'[c] = caller[c]
             \/ /\ caller'[c].state = "answered" /\ caller'[c].answer = fetch[f].got
                /\ caller'[c].asked \in {heard, caller[c].asked}
      BY <1>6, <1>t DEF Fill, Answered, TypeOK, CallerRecord
    <3> QED BY <1>t, <2>1, <2>2, <3>1, CallersKept DEF PrefsInv
  <2> QED BY <1>t, <1>h, <2>3, <2>4, <2>5 DEF PrefsInv
<1>7. ASSUME NEW f \in Fetches, Discard(f) PROVE PrefsInv'
  <2>1. CacheInv' /\ FetchInv'
    <3>1. \A g \in Fetches : fetch'[g] \in {fetch[g], FreeFetch, Started}
      BY <1>7, <1>t DEF Discard, TypeOK
    <3> QED BY <1>7, <1>c, <1>f, <3>1 DEF Discard
  <2>2. AskedInv' /\ AnswerInv' /\ AnswerNotStale'
    <3>1. CASE cachedPrefs # NotCached
      <4>1. cachedPrefs \in Snapshot
        BY <1>t, <3>1 DEF TypeOK
      <4>2. \A p \in Parts : NotOlder(p, cachedPrefs[p], heard[p])
        BY <3>1 DEF PrefsInv, CacheInv
      <4>3. \A c \in Callers :
               \/ caller'[c] = caller[c]
               \/ /\ caller'[c].state = "answered" /\ caller'[c].answer = cachedPrefs
                  /\ caller'[c].asked \in {heard, caller[c].asked}
        <5>1. caller' = [c \in Callers |-> IF caller[c].awaits = f
                              THEN Answered(c, cachedPrefs) ELSE caller[c]]
          BY <1>7, <3>1 DEF Discard
        <5>2. \A c \in Callers : caller[c] \in CallerRecord
          BY <1>t DEF TypeOK
        <5> QED BY <5>1, <5>2 DEF Answered, CallerRecord
      <4> QED BY <1>t, <4>1, <4>2, <4>3, CallersKept DEF PrefsInv
    <3>2. CASE cachedPrefs = NotCached
      BY <1>7, <1>a, <3>2 DEF Discard
    <3> QED BY <3>1, <3>2
  <2> QED BY <1>t, <1>h, <2>1, <2>2 DEF PrefsInv
<1>8. CASE UNCHANGED vars
  <2>1. FetchInv'
    BY <1>8, <1>f DEF vars
  <2> QED BY <1>8, <1>t, <1>h, <1>c, <1>a, <2>1 DEF vars, PrefsInv
<1> QED
  BY <1>1, <1>2, <1>3, <1>4, <1>5, <1>6, <1>7, <1>8 DEF Next, FetchStep

\* The invariant holds of every reachable state.
THEOREM PrefsInvHolds == Spec => []PrefsInv
<1>1. Init => PrefsInv
  <2> SUFFICES ASSUME Init PROVE PrefsInv
    OBVIOUS
  <2>1. TypeOK
    BY ConstantsAssumption
    DEF Init, TypeOK, Default, NotRead, NothingRead, FreeFetch, Unasked, Snapshot,
        FetchRecord, CallerRecord
  <2> QED
    BY <2>1 DEF Init, PrefsInv, HeardInv, CacheInv, FetchInv, AskedInv, AnswerInv,
                AnswerNotStale, Unasked, FreeFetch
<1> QED BY <1>1, PrefsInvNext, PTL DEF Spec

\* Whatever the number of concurrent fetches, discards and failed reads, an
\* activation is never given preferences older than the changes the worker had
\* heard of when it asked (getPrefsWithCache's version check).
THEOREM NoStaleAnswer == Spec => []AnswerNotStale
  BY PrefsInvHolds, PTL DEF PrefsInv

\* Once every change has been heard of, the cache holds what storage holds
\* (getPrefsWithCache, _invalidatePrefsCache).
THEOREM CacheIsFresh == Spec => []CacheFresh
<1>1. PrefsInv => CacheFresh
  BY DEF PrefsInv, CacheInv, CacheFresh
<1> QED BY <1>1, PrefsInvHolds, PTL

-----------------------------------------------------------------------------
(* The loaders.                                                            *)

\* Whoever waits for a load keeps it; and a settled load that could be retried
\* is the one whose waiters are all still to come back.
LoaderWaits ==
    /\ \A r \in Loader!Pending : Loader!Waiters(r) # {}
    /\ Loader!Pending = {} /\ ready # 0 /\ Loader!Retries =>
            microtasks # <<>> /\ \A i \in DOMAIN microtasks : microtasks[i][1] = "resume"

\* Nobody comes back while a load is under way, and nobody comes back behind a
\* caller who asks again unless there is nothing left to drop.
LoaderOrder ==
    /\ Loader!Pending # {} => \A i \in DOMAIN microtasks : microtasks[i][1] = "call"
    /\ \A i, j \in DOMAIN microtasks :
            i < j /\ microtasks[i][1] = "call" /\ microtasks[j][1] = "resume" =>
                ready # 0 /\ ~Loader!Retries

LoaderInv == Loader!TypeOK /\ Loader!LoadIsShared /\ LoaderWaits /\ LoaderOrder

LoaderJob == {"resume", "call"} \X Caller

\* The jobs a settled run leaves: its waiters', in some order, and no other.
LEMMA WaitersResume ==
    ASSUME NEW r, NEW m \in Loader!SetToAllKPermutations(
                                {<<"resume", c>> : c \in Loader!Waiters(r)}),
           \A c \in Loader!Waiters(r) : Loader!Contains(m, <<"resume", c>>)
    PROVE  /\ m \in Seq(LoaderJob)
           /\ \A i \in DOMAIN m : m[i][1] = "resume"
           /\ Loader!Waiters(r) # {} => m # <<>>
<1> DEFINE Jobs == {<<"resume", c>> : c \in Loader!Waiters(r)}
<1>1. PICK T \in SUBSET Jobs : m \in Loader!SetToSeqs(T)
  BY DEF Loader!SetToAllKPermutations
<1>2. Cardinality(T) \in Nat
  <2>1. IsFiniteSet({"resume"} \X Caller)
    BY BoundsAssumption, FS_Singleton, FS_Product
  <2>2. Jobs \subseteq {"resume"} \X Caller
    BY DEF Loader!Waiters
  <2> HIDE DEF Jobs
  <2> QED BY <2>1, <2>2, FS_Subset, FS_CardinalityType
<1>3. Loader!Cardinality(T) = Cardinality(T)
  BY DEF Loader!Cardinality, Cardinality
<1>4. m \in [1..Cardinality(T) -> T]
  BY <1>1, <1>3 DEF Loader!SetToSeqs
<1>5. T \subseteq {"resume"} \X Caller
  BY DEF Loader!Waiters
<1>6. m \in Seq(LoaderJob) /\ \A i \in DOMAIN m : m[i] \in {"resume"} \X Caller
  BY <1>2, <1>4, <1>5 DEF LoaderJob
<1>7. Loader!Waiters(r) # {} => m # <<>>
  BY DEF Loader!Contains
<1> QED BY <1>6, <1>7

\* A step in which the load under way settles, told apart by what it installed.
LEMMA LoaderSettles ==
    ASSUME LoaderInv, NEW r \in DOMAIN runs, runs[r] # "settled", Loader!Settle(r),
           microtasks = <<>>, UNCHANGED <<ready, awaiting, callers>>,
           attempts' \in 0..MaxAttempts, loaded' \in BOOLEAN,
           cache' \in {"full", "empty", "none"}, loaderRestarts' \in Nat
    PROVE  LoaderInv'
<1> USE DEF LoaderInv
<1>1. r \in Loader!Pending /\ ready = r /\ Loader!Waiters(r) # {}
  BY DEF Loader!Pending, Loader!LoadIsShared, LoaderWaits
<1>2. /\ microtasks' \in Seq(LoaderJob) /\ microtasks' # <<>>
      /\ \A i \in DOMAIN microtasks' : microtasks'[i][1] = "resume"
  BY <1>1, WaitersResume DEF Loader!Settle
<1>3. /\ runs' \in Seq(Loader!Pcs) /\ Len(runs') = Len(runs)
      /\ DOMAIN runs' = DOMAIN runs
      /\ \A s \in DOMAIN runs' : runs'[s] = IF s = r THEN "settled" ELSE runs[s]
  BY DEF Loader!Settle, Loader!TypeOK, Loader!Pcs
<1>4. Loader!Pending' = {}
  BY <1>1, <1>3 DEF Loader!Pending, Loader!LoadIsShared
<1>5. Loader!TypeOK'
  BY <1>2, <1>3 DEF Loader!TypeOK, LoaderJob
<1> QED BY <1>2, <1>4, <1>5 DEF Loader!LoadIsShared, LoaderWaits, LoaderOrder

\* What may stand in the queue behind a caller who asks again, or when a message comes.
LEMMA BehindACall ==
    ASSUME LoaderInv, NEW jobs \in Seq(LoaderJob),
           \/ microtasks = <<>> /\ jobs = <<>>
           \/ microtasks # <<>> /\ Head(microtasks)[1] = "call" /\ jobs = Tail(microtasks)
    PROVE  /\ ready # 0 /\ Loader!Pending = {} => ~Loader!Retries
           /\ (ready = 0 \/ Loader!Pending # {}) =>
                    \A i \in DOMAIN jobs : jobs[i][1] = "call"
           /\ \A i, j \in DOMAIN jobs :
                    i < j /\ jobs[i][1] = "call" /\ jobs[j][1] = "resume" =>
                        ready # 0 /\ ~Loader!Retries
<1>1. CASE microtasks = <<>> /\ jobs = <<>>
  BY <1>1 DEF LoaderInv, LoaderWaits
<1>2. CASE /\ microtasks # <<>> /\ Head(microtasks)[1] = "call"
           /\ jobs = Tail(microtasks)
  <2>1. microtasks \in Seq(LoaderJob)
    BY DEF LoaderInv, Loader!TypeOK, LoaderJob
  <2>2. /\ 1 \in DOMAIN microtasks /\ microtasks[1][1] = "call"
        /\ \A i \in DOMAIN jobs : /\ i + 1 \in DOMAIN microtasks
                                 /\ jobs[i] = microtasks[i + 1]
                                 /\ jobs[i] \in LoaderJob
                                 /\ i \in Nat /\ 1 < i + 1
    BY <1>2, <2>1
  <2>3. \A i \in DOMAIN jobs : jobs[i][1] = "resume" => ready # 0 /\ Loader!Pending = {}
    BY <2>2 DEF LoaderInv, LoaderOrder
  <2>4. \A i \in DOMAIN jobs : jobs[i][1] \in {"call", "resume"}
    BY <2>2 DEF LoaderJob
  <2>5. ready # 0 /\ Loader!Pending = {} => ~Loader!Retries
    BY <1>2, <2>2 DEF LoaderInv, LoaderWaits
  <2>6. \A i, j \in DOMAIN jobs :
            i < j /\ jobs[i][1] = "call" /\ jobs[j][1] = "resume" =>
                ready # 0 /\ ~Loader!Retries
    BY <2>3, <2>5
  <2> QED BY <2>3, <2>4, <2>5, <2>6
<1> QED BY <1>1, <1>2

LEMMA LoaderEnsures ==
    ASSUME LoaderInv, NEW c \in Caller, NEW jobs \in Seq(LoaderJob), Loader!Ensure(c, jobs),
           \/ microtasks = <<>> /\ jobs = <<>>
           \/ microtasks # <<>> /\ Head(microtasks)[1] = "call" /\ jobs = Tail(microtasks)
    PROVE  LoaderInv'
<1>1. /\ ready # 0 /\ Loader!Pending = {} => ~Loader!Retries
      /\ (ready = 0 \/ Loader!Pending # {}) =>
                \A i \in DOMAIN jobs : jobs[i][1] = "call"
      /\ \A i, j \in DOMAIN jobs :
                i < j /\ jobs[i][1] = "call" /\ jobs[j][1] = "resume" =>
                    ready # 0 /\ ~Loader!Retries
  BY BehindACall
<1>2. /\ runs \in Seq(Loader!Pcs) /\ ready \in 0..Len(runs) /\ attempts \in 0..MaxAttempts
      /\ awaiting \in [Caller -> 0..Len(runs)]
      /\ callers \in [Caller -> {"idle", "awaiting", "calling"}]
      /\ MaxAttempts \in Nat /\ cache \in {"full", "empty", "none"}
      /\ loaded \in BOOLEAN /\ loaderRestarts \in Nat
  BY BoundsAssumption DEF LoaderInv, Loader!TypeOK
<1>3. /\ callers' = [callers EXCEPT ![c] = "awaiting"]
      /\ awaiting' = [awaiting EXCEPT ![c] = ready']
      /\ microtasks' = IF runs'[ready'] = "settled" THEN Append(jobs, <<"resume", c>>)
                       ELSE jobs
      /\ UNCHANGED <<loaded, cache, loaderRestarts>>
  BY DEF Loader!Ensure
<1>4. <<"resume", c>> \in LoaderJob /\ microtasks' \in Seq(LoaderJob)
  BY <1>3 DEF LoaderJob
<1>5. callers'[c] = "awaiting" /\ awaiting'[c] = ready'
  BY <1>2, <1>3
<1>6. Loader!Pending \subseteq {ready} /\ (ready = 0 => Loader!Pending = {})
  BY <1>2 DEF LoaderInv, Loader!LoadIsShared, Loader!Pending
<1>7. /\ \A r \in DOMAIN runs : runs[r] # "settled" => r \in Loader!Pending
      /\ Loader!Pending \subseteq DOMAIN runs /\ DOMAIN runs = 1..Len(runs)
  BY <1>2 DEF Loader!Pending
<1>8. CASE Loader!Shares
  <2>1. ready # 0 /\ UNCHANGED <<ready, runs, attempts>>
    BY <1>8 DEF Loader!Ensure, Loader!Shares, Loader!NoRun
  <2>2. Loader!Pending' = Loader!Pending /\ (Loader!Retries' <=> Loader!Retries)
    BY <1>3, <2>1 DEF Loader!Pending, Loader!Retries
  <2>3. Loader!TypeOK'
    BY <1>2, <1>3, <1>4, <2>1 DEF Loader!TypeOK, LoaderJob
  <2>4. Loader!LoadIsShared'
    BY <2>1, <2>2 DEF LoaderInv, Loader!LoadIsShared
  <2>5. \A r \in Loader!Pending' : Loader!Waiters(r)' # {}
    BY <1>5, <1>6, <2>1, <2>2 DEF Loader!Waiters
  <2>6. CASE runs[ready] = "settled"
    <3>1. Loader!Pending = {} /\ ~Loader!Retries
      BY <1>1, <1>6, <1>7, <2>1, <2>6 DEF Loader!Pending
    <3> QED
      BY <2>1, <2>2, <2>3, <2>4, <2>5, <3>1 DEF LoaderInv, LoaderWaits, LoaderOrder
  <2>7. CASE runs[ready] # "settled"
    <3>0. ready \in Loader!Pending
      BY <1>2, <1>7, <2>1, <2>7
    <3>1. microtasks' = jobs /\ Loader!Pending # {}
      BY <1>3, <2>1, <2>7, <3>0
    <3>2. \A i \in DOMAIN microtasks' : microtasks'[i][1] = "call"
      BY <1>1, <3>1
    <3> QED
      BY <2>1, <2>2, <2>3, <2>4, <2>5, <3>1, <3>2 DEF LoaderInv, LoaderWaits, LoaderOrder
  <2> QED BY <2>6, <2>7
<1>9. CASE ~Loader!Shares
  <2>1. /\ ready = 0 /\ runs' = Append(runs, Loader!FirstPc) /\ ready' = Len(runs) + 1
        /\ attempts' = IF Loader!FirstPc = "fetching" THEN attempts + 1 ELSE attempts
    BY <1>9 DEF Loader!Ensure, Loader!Shares, Loader!NoRun
  <2>2. /\ Loader!FirstPc \in Loader!Pcs
        /\ Loader!FirstPc = "fetching" => attempts < MaxAttempts
        /\ Loader!FirstPc = "settled" => ~(attempts < MaxAttempts)
    BY DEF Loader!FirstPc, Loader!Pcs
  <2>3. /\ DOMAIN runs' = 1..ready' /\ runs'[ready'] = Loader!FirstPc /\ Len(runs') = ready'
        /\ \A r \in DOMAIN runs : runs'[r] = runs[r]
        /\ ready' \in Nat \ {0}
    BY <1>2, <2>1, <2>2
  <2>4. Loader!TypeOK'
    <3>1. runs' \in Seq(Loader!Pcs)
      BY <1>2, <2>1, <2>2
    <3>2. awaiting' \in [Caller -> 0..Len(runs')] /\ ready' \in 0..Len(runs')
      BY <1>2, <1>3, <2>1, <2>3
    <3>3. attempts' \in 0..MaxAttempts
      BY <1>2, <2>1, <2>2
    <3>4. callers' \in [Caller -> {"idle", "awaiting", "calling"}]
      BY <1>2, <1>3
    <3> QED BY <1>2, <1>3, <1>4, <3>1, <3>2, <3>3, <3>4 DEF Loader!TypeOK, LoaderJob
  <2>5. Loader!Pending' = IF Loader!FirstPc = "settled" THEN {} ELSE {ready'}
    <3>1. \A r \in DOMAIN runs : runs[r] = "settled"
      BY <1>6, <1>7, <2>1
    <3>2. \A r \in DOMAIN runs' : r = ready' \/ r \in DOMAIN runs
      BY <1>2, <1>7, <2>1, <2>3
    <3>3. ready' \in DOMAIN runs'
      BY <2>3
    <3> QED BY <2>3, <3>1, <3>2, <3>3 DEF Loader!Pending
  <2>6. Loader!LoadIsShared' /\ \A r \in Loader!Pending' : Loader!Waiters(r)' # {}
    BY <1>5, <2>5 DEF Loader!LoadIsShared, Loader!Waiters
  <2>7. CASE Loader!FirstPc = "settled"
    <3>1. ~Loader!Retries' /\ ready' # 0 /\ Loader!Pending' = {}
      BY <1>3, <2>1, <2>2, <2>3, <2>5, <2>7 DEF Loader!Retries
    <3> QED BY <2>4, <2>6, <3>1 DEF LoaderInv, LoaderWaits, LoaderOrder
  <2>8. CASE Loader!FirstPc # "settled"
    <3>1. microtasks' = jobs /\ Loader!Pending' # {}
      BY <1>3, <2>3, <2>5, <2>8
    <3>2. \A i \in DOMAIN microtasks' : microtasks'[i][1] = "call"
      BY <1>1, <2>1, <3>1
    <3> QED BY <2>4, <2>6, <3>1, <3>2 DEF LoaderInv, LoaderWaits, LoaderOrder
  <2> QED BY <2>7, <2>8
<1> QED BY <1>8, <1>9

LEMMA LoaderInit == Loader!Init => LoaderInv
<1> SUFFICES ASSUME Loader!Init PROVE LoaderInv
  OBVIOUS
<1>1. DOMAIN runs = {} /\ DOMAIN microtasks = {} /\ ready = 0 /\ microtasks = <<>>
  BY DEF Loader!Init, Loader!NoRun
<1>2. Loader!TypeOK
  <2>1. /\ runs \in Seq(Loader!Pcs) /\ Len(runs) = 0
        /\ microtasks \in Seq({"resume", "call"} \X Caller)
    BY DEF Loader!Init
  <2>2. /\ awaiting \in [Caller -> 0..0]
        /\ callers \in [Caller -> {"idle", "awaiting", "calling"}]
    BY DEF Loader!Init, Loader!NoRun
  <2>3. ready \in 0..Len(runs) /\ awaiting \in [Caller -> 0..Len(runs)]
    <3>1. 0..Len(runs) = 0..0 /\ ready \in 0..0
      BY <2>1 DEF Loader!Init, Loader!NoRun
    <3> QED BY <2>2, <3>1
  <2>4. attempts \in 0..MaxAttempts /\ loaderRestarts \in Nat
    BY BoundsAssumption DEF Loader!Init
  <2> QED BY <2>1, <2>2, <2>3, <2>4 DEF Loader!Init, Loader!TypeOK
<1> QED
  BY <1>1, <1>2 DEF LoaderInv, Loader!LoadIsShared, Loader!Pending, LoaderWaits, LoaderOrder

LEMMA LoaderNext == LoaderInv /\ [Loader!Next]_Loader!vars => LoaderInv'
<1> SUFFICES ASSUME LoaderInv, [Loader!Next]_Loader!vars PROVE LoaderInv'
  OBVIOUS
<1>0. Loader!TypeOK /\ microtasks \in Seq(LoaderJob) /\ MaxAttempts \in Nat
  BY BoundsAssumption DEF LoaderInv, Loader!TypeOK, LoaderJob
<1>1. ASSUME NEW c \in Caller, Loader!Arrive(c) PROVE LoaderInv'
  <2>1. microtasks = <<>> /\ Loader!Ensure(c, <<>>) /\ <<>> \in Seq(LoaderJob)
    BY <1>1 DEF Loader!Arrive, Loader!EventLoopIdle
  <2> QED BY <2>1, LoaderEnsures
<1>2. CASE Loader!CallAgain
  <2> DEFINE c == Head(microtasks)[2]
  <2>1. /\ microtasks # <<>> /\ Head(microtasks)[1] = "call" /\ Tail(microtasks) \in Seq(LoaderJob)
        /\ c \in Caller /\ Loader!Ensure(c, Tail(microtasks))
    BY <1>0, <1>2 DEF Loader!CallAgain, LoaderJob
  <2> HIDE DEF c
  <2> QED BY <2>1, LoaderEnsures
<1>3. ASSUME NEW r \in DOMAIN runs, Loader!CacheAnswers(r) PROVE LoaderInv'
  <2>1. /\ runs[r] = "cache" /\ microtasks = <<>>
        /\ UNCHANGED <<ready, cache, awaiting, callers, loaderRestarts>>
    BY <1>3 DEF Loader!CacheAnswers, Loader!EventLoopIdle
  <2>2. CASE Loader!Settle(r)
    <3>1. \/ attempts' = attempts
          \/ attempts < MaxAttempts /\ attempts' = attempts + 1
      BY <1>3 DEF Loader!CacheAnswers
    <3>2. attempts' \in 0..MaxAttempts
      BY <1>0, <3>1 DEF Loader!TypeOK
    <3>3. loaded' \in BOOLEAN
      BY <1>0, <1>3 DEF Loader!CacheAnswers, Loader!TypeOK
    <3> QED BY <1>0, <2>1, <2>2, <3>2, <3>3, LoaderSettles DEF Loader!TypeOK
  <2>3. CASE ~Loader!Settle(r)
    <3>1. /\ runs' = [runs EXCEPT ![r] = "fetching"] /\ attempts < MaxAttempts
          /\ attempts' = attempts + 1 /\ UNCHANGED <<loaded, microtasks>>
      BY <1>3, <2>3 DEF Loader!CacheAnswers
    <3>2. Loader!TypeOK'
      BY <1>0, <2>1, <3>1 DEF Loader!TypeOK, Loader!Pcs
    <3>3. Loader!Pending' = Loader!Pending /\ r \in Loader!Pending
      BY <1>0, <2>1, <3>1 DEF Loader!Pending, Loader!TypeOK
    <3>4. \A s \in DOMAIN runs : Loader!Waiters(s)' = Loader!Waiters(s)
      BY <2>1 DEF Loader!Waiters
    <3>5. Loader!Pending \subseteq DOMAIN runs
      BY DEF Loader!Pending
    <3>6. DOMAIN microtasks' = {}
      BY <2>1, <3>1
    <3> QED BY <2>1, <3>2, <3>3, <3>4, <3>5, <3>6
            DEF LoaderInv, Loader!LoadIsShared, LoaderWaits, LoaderOrder
  <2> QED BY <2>2, <2>3
<1>4. ASSUME NEW r \in DOMAIN runs, Loader!FetchAnswers(r) PROVE LoaderInv'
  <2>1. /\ runs[r] = "fetching" /\ microtasks = <<>> /\ loaded' \in BOOLEAN
        /\ UNCHANGED <<ready, attempts, cache, awaiting, callers, loaderRestarts>>
    BY <1>0, <1>4 DEF Loader!FetchAnswers, Loader!EventLoopIdle, Loader!TypeOK, Loader!HasCache
  <2>2. CASE Loader!Settle(r)
    BY <1>0, <2>1, <2>2, LoaderSettles DEF Loader!TypeOK
  <2>3. CASE ~Loader!Settle(r)
    <3>1. runs' = [runs EXCEPT ![r] = "caching"] /\ UNCHANGED microtasks
      BY <1>4, <2>3 DEF Loader!FetchAnswers
    <3>2. Loader!TypeOK'
      BY <1>0, <2>1, <3>1 DEF Loader!TypeOK, Loader!Pcs
    <3>3. Loader!Pending' = Loader!Pending /\ r \in Loader!Pending
      BY <1>0, <2>1, <3>1 DEF Loader!Pending, Loader!TypeOK
    <3>4. \A s \in DOMAIN runs : Loader!Waiters(s)' = Loader!Waiters(s)
      BY <2>1 DEF Loader!Waiters
    <3>5. Loader!Pending \subseteq DOMAIN runs
      BY DEF Loader!Pending
    <3>6. DOMAIN microtasks' = {}
      BY <2>1, <3>1
    <3> QED BY <2>1, <3>2, <3>3, <3>4, <3>5, <3>6
            DEF LoaderInv, Loader!LoadIsShared, LoaderWaits, LoaderOrder
  <2> QED BY <2>2, <2>3
<1>5. ASSUME NEW r \in DOMAIN runs, Loader!CacheWritten(r) PROVE LoaderInv'
  <2>1. /\ runs[r] = "caching" /\ microtasks = <<>> /\ Loader!Settle(r)
        /\ cache' \in {cache, "full"}
        /\ UNCHANGED <<ready, attempts, loaded, awaiting, callers, loaderRestarts>>
    BY <1>5 DEF Loader!CacheWritten, Loader!EventLoopIdle
  <2>2. cache' \in {"full", "empty", "none"}
    BY <1>0, <2>1 DEF Loader!TypeOK
  <2> QED BY <1>0, <2>1, <2>2, LoaderSettles DEF Loader!TypeOK
<1>6. CASE Loader!Resume
  <2> DEFINE c == Head(microtasks)[2]
  <2>1. /\ microtasks # <<>> /\ Head(microtasks)[1] = "resume" /\ c \in Caller
        /\ ready' = IF Loader!Retries THEN 0 ELSE ready
        /\ UNCHANGED <<runs, attempts, loaded, cache, awaiting, loaderRestarts>>
        /\ \/ callers' = [callers EXCEPT ![c] = "idle"] /\ microtasks' = Tail(microtasks)
           \/ /\ callers' = [callers EXCEPT ![c] = "calling"]
              /\ microtasks' = Append(Tail(microtasks), <<"call", c>>)
    BY <1>0, <1>6 DEF Loader!Resume, Loader!NoRun, LoaderJob
  <2>2. 1 \in DOMAIN microtasks /\ microtasks[1][1] = "resume"
    BY <1>0, <2>1
  <2>3. Loader!Pending = {} /\ Loader!Pending' = {} /\ (Loader!Retries' <=> Loader!Retries)
    BY <2>1, <2>2 DEF LoaderInv, LoaderOrder, Loader!Pending, Loader!Retries
  <2>4. Loader!TypeOK'
    <3>0. Tail(microtasks) \in Seq(LoaderJob) /\ <<"call", c>> \in LoaderJob
      BY <1>0, <2>1 DEF LoaderJob
    <3>1. microtasks' \in Seq(LoaderJob)
      <4> DEFINE tail == Tail(microtasks)
                 job == <<"call", c>>
      <4>1. microtasks' \in {tail, Append(tail, job)}
        BY <2>1
      <4>2. tail \in Seq(LoaderJob) /\ job \in LoaderJob
        BY <3>0
      <4> HIDE DEF c, tail, job
      <4> QED BY <4>1, <4>2
    <3>2. callers' \in [Caller -> {"idle", "awaiting", "calling"}]
      BY <1>0, <2>1 DEF Loader!TypeOK
    <3> QED BY <1>0, <2>1, <3>1, <3>2 DEF Loader!TypeOK, LoaderJob
  <2>5. \A i \in DOMAIN microtasks' :
            /\ i \in Nat
            /\ microtasks'[i][1] = "resume" =>
                    /\ i + 1 \in DOMAIN microtasks /\ i <= Len(Tail(microtasks))
                    /\ microtasks'[i] = microtasks[i + 1]
            /\ i <= Len(Tail(microtasks)) =>
                    i + 1 \in DOMAIN microtasks /\ microtasks'[i] = microtasks[i + 1]
    BY <1>0, <2>1
  <2>6. ASSUME NEW i \in DOMAIN microtasks', NEW j \in DOMAIN microtasks', i < j,
               microtasks'[i][1] = "call", microtasks'[j][1] = "resume"
        PROVE  ready' # 0 /\ ~Loader!Retries'
    <3>1. i <= Len(Tail(microtasks)) /\ i + 1 < j + 1
      BY <1>0, <2>1, <2>5, <2>6
    <3>2. /\ i + 1 \in DOMAIN microtasks /\ j + 1 \in DOMAIN microtasks
          /\ microtasks[i + 1][1] = "call" /\ microtasks[j + 1][1] = "resume"
      BY <2>5, <2>6, <3>1
    <3> QED BY <2>1, <2>3, <3>1, <3>2 DEF LoaderInv, LoaderOrder
  <2> HIDE DEF c
  <2> QED BY <2>1, <2>3, <2>4, <2>6
          DEF LoaderInv, Loader!LoadIsShared, LoaderWaits, LoaderOrder
<1>7. CASE Loader!Restart
  <2>1. /\ ready' = 0 /\ runs' = <<>> /\ attempts' = 0 /\ loaded' = FALSE
        /\ awaiting' = [c \in Caller |-> 0] /\ callers' = [c \in Caller |-> "idle"]
        /\ loaderRestarts' = loaderRestarts + 1 /\ microtasks = <<>> /\ UNCHANGED microtasks
    BY <1>7 DEF Loader!Restart, Loader!NoRun, Loader!EventLoopIdle
  <2>2. cache' \in {"full", "empty", "none"}
    BY <1>0, <1>7 DEF Loader!Restart, Loader!TypeOK, Loader!HasCache
  <2>3. Loader!TypeOK'
    <3>1. /\ runs' \in Seq(Loader!Pcs) /\ Len(runs') = 0
          /\ awaiting' \in [Caller -> 0..0]
          /\ callers' \in [Caller -> {"idle", "awaiting", "calling"}]
      BY <2>1
    <3>2. ready' \in 0..Len(runs') /\ awaiting' \in [Caller -> 0..Len(runs')]
      <4>1. 0..Len(runs') = 0..0 /\ ready' \in 0..0
        BY <2>1, <3>1
      <4> QED BY <3>1, <4>1
    <3>3. attempts' \in 0..MaxAttempts /\ loaderRestarts' \in Nat
      BY <1>0, <2>1 DEF Loader!TypeOK
    <3> QED BY <1>0, <2>1, <2>2, <3>1, <3>2, <3>3 DEF Loader!TypeOK
  <2>4. DOMAIN runs' = {} /\ DOMAIN microtasks' = {}
    BY <2>1
  <2> QED BY <2>1, <2>3, <2>4
          DEF LoaderInv, Loader!LoadIsShared, Loader!Pending, LoaderWaits, LoaderOrder
<1>8. CASE UNCHANGED Loader!vars
  BY <1>8 DEF Loader!vars, LoaderInv, Loader!TypeOK, Loader!LoadIsShared, Loader!Pending,
              LoaderWaits, LoaderOrder, Loader!Waiters, Loader!Retries
<1> QED
  BY <1>1, <1>2, <1>3, <1>4, <1>5, <1>6, <1>7, <1>8 DEF Loader!Next, Loader!RunStep

\* No two loads of a rule set run at once, and a load that failed is not left to
\* answer for a retry that the budget still allows (createSingleFlightLoader).
THEOREM LoadsAreShared == RunSpec => []OneLoadAtATime
<1>1. RunInit => LoaderInv
  BY LoaderInit DEF RunInit
<1>2. [RunNext]_allVars => [Loader!Next]_Loader!vars
  BY DEF RunNext, allVars, loaderVars, Loader!vars
<1>3. LoaderInv => OneLoadAtATime
  BY DEF LoaderInv, OneLoadAtATime, LoaderWaits, Loader!RetryIsArmed, Loader!EventLoopIdle,
         Loader!Retries, Loader!NoRun
<1> QED BY <1>1, <1>2, <1>3, LoaderNext, PTL DEF RunSpec

-----------------------------------------------------------------------------
(* A clicked link.                                                         *)

Junk(url) == IF url.junk THEN 1 ELSE 0

\* The click the toast is about still waits for it.
ToastInv == toast # 0 => toast \in DOMAIN clicks /\ clicks[toast].pc = "toast"

\* A click that was held has been counted; one on its way to a cleaned URL, or never
\* held, has been counted for what its URL lost since, which Chrome does not report.
CountInv ==
    \A i \in DOMAIN clicks :
        IF clicks[i].pc \in {"toast", "dropped", "resolving"}
        THEN clicks[i].counted = Junk(clicks[i].link)
        ELSE clicks[i].choice \in {"none", "clean"} =>
                /\ clicks[i].counted + Junk(clicks[i].url) <= Junk(clicks[i].link)
                /\ firefox \/ clicks[i].pc = "requested" =>
                       clicks[i].counted + Junk(clicks[i].url) = Junk(clicks[i].link)
                /\ clicks[i].pc = "arrived" => ~clicks[i].url.junk

ClicksInv == Clicks!TypeOK /\ ToastInv /\ CountInv

ClickRecord ==
    [link : Clicks!Links, newTab : BOOLEAN, url : Clicks!Links, wire : Clicks!Links,
     pc : {"toast", "dropped", "resolving", "requested", "loading", "arrived"},
     choice : {"none", "original", "clean", "fallback"}, counted : Nat]

\* CountInv of one click.
Tallied(r) ==
    IF r.pc \in {"toast", "dropped", "resolving"}
    THEN r.counted = Junk(r.link)
    ELSE r.choice \in {"none", "clean"} =>
            /\ r.counted + Junk(r.url) <= Junk(r.link)
            /\ firefox \/ r.pc = "requested" => r.counted + Junk(r.url) = Junk(r.link)
            /\ r.pc = "arrived" => ~r.url.junk

LEMMA TalliedIs == CountInv <=> \A i \in DOMAIN clicks : Tallied(clicks[i])
  BY DEF CountInv, Tallied

LEMMA ClickTyped ==
    ASSUME ClicksInv
    PROVE  /\ clicks \in Seq(ClickRecord)
           /\ \A i \in DOMAIN clicks : clicks[i] \in ClickRecord /\ Tallied(clicks[i])
<1>1. clicks \in Seq(ClickRecord)
  BY DEF ClicksInv, Clicks!TypeOK, ClickRecord
<1>2. \A i \in DOMAIN clicks : clicks[i] \in ClickRecord
  BY <1>1
<1>3. \A i \in DOMAIN clicks : Tallied(clicks[i])
  BY TalliedIs DEF ClicksInv
<1> QED BY <1>1, <1>2, <1>3

\* Cleaning leaves a URL without junk.
LEMMA CleanedUrl ==
    ASSUME NEW url \in Clicks!Links, NEW listed
    PROVE  /\ Clicks!Cleaned(url, listed) \in Clicks!Links
           /\ Clicks!Cleaned(url, listed).junk = FALSE
<1>1. (url.tag /\ ~listed) \in BOOLEAN
  OBVIOUS
<1> QED BY <1>1, Zenon DEF Clicks!Cleaned, Clicks!Links

\* A step that changes one click: what is left to show is about that click.
LEMMA OneClick ==
    ASSUME ClicksInv, NEW i \in DOMAIN clicks, NEW r \in ClickRecord,
           clicks' = [clicks EXCEPT ![i] = r], Tallied(r), UNCHANGED firefox,
           toast' \in {0, toast}, toast' = i => r.pc = "toast"
    PROVE  clicks' \in Seq(ClickRecord) /\ ToastInv' /\ CountInv' /\ toast' \in 0..Len(clicks')
<1>1. clicks \in Seq(ClickRecord) /\ toast \in 0..Len(clicks)
  BY DEF ClicksInv, Clicks!TypeOK, ClickRecord
<1>2. /\ clicks' \in Seq(ClickRecord) /\ DOMAIN clicks' = DOMAIN clicks
      /\ Len(clicks') = Len(clicks)
      /\ \A c \in DOMAIN clicks : clicks'[c] = IF c = i THEN r ELSE clicks[c]
  BY <1>1
<1>3. ToastInv'
  BY <1>2 DEF ClicksInv, ToastInv
<1>4. \A c \in DOMAIN clicks : Tallied(clicks[c])
  BY TalliedIs DEF ClicksInv
<1>5. CountInv'
  BY <1>2, <1>4 DEF CountInv, Tallied
<1> QED BY <1>1, <1>2, <1>3, <1>5

LEMMA ClicksInit == Clicks!Init => ClicksInv
<1> SUFFICES ASSUME Clicks!Init PROVE ClicksInv
  OBVIOUS
<1>1. clicks = <<>> /\ DOMAIN clicks = {} /\ Len(clicks) = 0 /\ toast = 0 /\ recent = 0
  BY DEF Clicks!Init, Clicks!Nobody
<1>2. Clicks!TypeOK
  <2>1. clicks \in Seq(ClickRecord)
    BY <1>1
  <2>2. {firefox, notify, resolve, left} \subseteq BOOLEAN
    BY DEF Clicks!Init
  <2>3. recent \in 0..RewriteMax /\ toast \in 0..Len(clicks) /\ blacklist = "absent"
    BY <1>1, BoundsAssumption DEF Clicks!Init
  <2> QED BY <2>1, <2>2, <2>3 DEF Clicks!TypeOK, ClickRecord
<1> QED BY <1>1, <1>2 DEF ClicksInv, ToastInv, CountInv

\* The record a step leaves of click i, and what else it may change.
LEMMA ClicksOne ==
    ASSUME ClicksInv, NEW i \in DOMAIN clicks, NEW r \in ClickRecord,
           clicks' = [clicks EXCEPT ![i] = r], Tallied(r),
           UNCHANGED <<firefox, notify, resolve, recent>>,
           toast' \in {0, toast}, toast' = i => r.pc = "toast",
           left' \in BOOLEAN, blacklist' \in {"absent", "sent", "stored", "cached"}
    PROVE  ClicksInv'
<1>1. clicks' \in Seq(ClickRecord) /\ ToastInv' /\ CountInv' /\ toast' \in 0..Len(clicks')
  BY OneClick
<1>2. {firefox', notify', resolve', left'} \subseteq BOOLEAN /\ recent' \in 0..RewriteMax
  BY DEF ClicksInv, Clicks!TypeOK
<1> QED BY <1>1, <1>2 DEF ClicksInv, Clicks!TypeOK, ClickRecord

\* A click is added at the end, and the one whose toast goes is dropped.
LEMMA ClickAdded ==
    ASSUME ClicksInv, NEW r \in ClickRecord, NEW earlier \in {clicks, Clicks!Replaced},
           clicks' = Append(earlier, r), Tallied(r), UNCHANGED <<firefox, notify, resolve, blacklist>>,
           \/ earlier = clicks /\ toast' = toast
           \/ earlier = Clicks!Replaced /\ toast' = Len(clicks) + 1 /\ r.pc = "toast",
           left' \in BOOLEAN, recent' \in 0..RewriteMax
    PROVE  ClicksInv'
<1>1. /\ clicks \in Seq(ClickRecord) /\ toast \in 0..Len(clicks)
      /\ \A c \in DOMAIN clicks : Tallied(clicks[c])
  BY TalliedIs DEF ClicksInv, Clicks!TypeOK, ClickRecord
<1>2. /\ earlier \in Seq(ClickRecord) /\ Len(earlier) = Len(clicks) /\ DOMAIN earlier = DOMAIN clicks
      /\ \A c \in DOMAIN clicks : Tallied(earlier[c])
      /\ earlier = clicks \/ \A c \in DOMAIN clicks : c # toast => earlier[c] = clicks[c]
  <2>1. CASE earlier = clicks
    BY <1>1, <2>1
  <2>2. CASE earlier = Clicks!Replaced
    <3>1. earlier = [c \in DOMAIN clicks |-> IF c = toast THEN [clicks[c] EXCEPT !.pc = "dropped"]
                                         ELSE clicks[c]]
      BY <2>2 DEF Clicks!Replaced
    <3>2. \A c \in DOMAIN clicks : clicks[c] \in ClickRecord
      BY <1>1
    <3>3. ASSUME NEW c \in DOMAIN clicks, c = toast
          PROVE  earlier[c] \in ClickRecord /\ Tallied(earlier[c])
      <4>1. c # 0 /\ clicks[c].pc = "toast"
        BY <1>1, <3>3 DEF ClicksInv, ToastInv
      <4>2. /\ earlier[c] = [clicks[c] EXCEPT !.pc = "dropped"] /\ clicks[c] \in ClickRecord
            /\ Tallied(clicks[c])
        BY <1>1, <3>1, <3>2, <3>3
      <4> QED BY <4>1, <4>2 DEF ClickRecord, Tallied
    <3>4. ASSUME NEW c \in DOMAIN clicks, c # toast
          PROVE  earlier[c] \in ClickRecord /\ Tallied(earlier[c]) /\ earlier[c] = clicks[c]
      BY <1>1, <3>1, <3>2, <3>4
    <3>5. \A c \in DOMAIN clicks : earlier[c] \in ClickRecord /\ Tallied(earlier[c])
      BY <3>3, <3>4
    <3>6. DOMAIN earlier = 1..Len(clicks) /\ Len(clicks) \in Nat
      BY <1>1, <3>1
    <3>7. earlier \in [1..Len(clicks) -> ClickRecord]
      BY <3>1, <3>5, <3>6
    <3> QED BY <3>4, <3>5, <3>6, <3>7
  <2> QED BY <2>1, <2>2
<1>3. /\ clicks' \in Seq(ClickRecord) /\ Len(clicks') = Len(clicks) + 1
      /\ DOMAIN clicks' = 1..Len(clicks) + 1 /\ clicks'[Len(clicks) + 1] = r
      /\ \A c \in DOMAIN clicks : c \in DOMAIN clicks' /\ clicks'[c] = earlier[c]
      /\ DOMAIN clicks = 1..Len(clicks) /\ Len(clicks) \in Nat
  BY <1>1, <1>2
<1>4. \A c \in DOMAIN clicks' : Tallied(clicks'[c])
  BY <1>2, <1>3
<1>5. CountInv'
  BY <1>4 DEF CountInv, Tallied
<1>6. ToastInv' /\ toast' \in 0..Len(clicks')
  BY <1>1, <1>2, <1>3 DEF ClicksInv, ToastInv
<1>7. {firefox', notify', resolve', left'} \subseteq BOOLEAN
      /\ blacklist' \in {"absent", "sent", "stored", "cached"}
  BY DEF ClicksInv, Clicks!TypeOK
<1> QED BY <1>3, <1>5, <1>6, <1>7 DEF ClicksInv, Clicks!TypeOK, ClickRecord

LEMMA ClickStep == ASSUME ClicksInv, Clicks!Click PROVE ClicksInv'
<1>1. PICK link \in Clicks!Links, newTab \in BOOLEAN :
        /\ ~left /\ Len(clicks) < MaxClicks
        /\ LET i == Len(clicks) + 1
               fresh == [link |-> link, newTab |-> newTab, pc |-> "clicked", url |-> link,
                         choice |-> "none", wire |-> link, counted |-> 0]
               counting == [fresh EXCEPT !.counted = IF link.junk THEN 1 ELSE 0]
           IN  IF ~Clicks!Intercepted(link)
               THEN /\ clicks' = Append(clicks, [fresh EXCEPT !.pc = "requested"])
                    /\ Clicks!Leaves(i)
                    /\ UNCHANGED <<toast, recent>>
               ELSE /\ recent' = recent + 1
                    /\ \/ /\ Clicks!Notifies(link)
                          /\ clicks' = Append(Clicks!Replaced, [counting EXCEPT !.pc = "toast"])
                          /\ toast' = i
                          /\ UNCHANGED left
                       \/ /\ ~Clicks!Notifies(link) /\ Clicks!ResolvesShortener(link)
                          /\ clicks' = Append(clicks, [counting EXCEPT !.pc = "resolving"])
                          /\ UNCHANGED <<toast, left>>
                       \/ /\ ~Clicks!Notifies(link) /\ ~Clicks!ResolvesShortener(link)
                          /\ clicks' = Append(clicks, [counting EXCEPT !.pc = "requested",
                                          !.url = Clicks!Cleaned(link, Clicks!Blacklisted)])
                          /\ Clicks!Leaves(i)
                          /\ UNCHANGED toast
  BY ZenonT(40) DEF Clicks!Click
<1> DEFINE i == Len(clicks) + 1
           clean == Clicks!Cleaned(link, Clicks!Blacklisted)
           Made(pc, url, n) ==
                [link |-> link, newTab |-> newTab, pc |-> pc, url |-> url, choice |-> "none",
                 wire |-> link, counted |-> n]
<1>2. clean \in Clicks!Links /\ clean.junk = FALSE
  BY CleanedUrl
<1>3. /\ Junk(link) \in {0, 1} /\ Junk(clean) = 0
      /\ Junk(link) = IF link.junk THEN 1 ELSE 0
  BY <1>2 DEF Junk
<1>4. UNCHANGED <<firefox, notify, resolve, blacklist>>
  BY DEF Clicks!Click
<1>5. /\ recent \in 0..RewriteMax /\ left \in BOOLEAN /\ RewriteMax \in Nat
      /\ Clicks!Intercepted(link) => recent < RewriteMax
  BY BoundsAssumption DEF ClicksInv, Clicks!TypeOK, Clicks!Intercepted
<1>6. \A pc \in {"toast", "resolving", "requested"}, url \in {link, clean}, n \in {0, 1} :
            Made(pc, url, n) \in ClickRecord
  BY <1>2 DEF ClickRecord
<1> DEFINE fresh == Made("clicked", link, 0)
           counting == [fresh EXCEPT !.counted = IF link.junk THEN 1 ELSE 0]
<1>11. counting = Made("clicked", link, Junk(link))
  BY <1>3
<1>12. \A pc : /\ [fresh EXCEPT !.pc = pc] = Made(pc, link, 0)
               /\ [counting EXCEPT !.pc = pc] = Made(pc, link, Junk(link))
               /\ [counting EXCEPT !.pc = pc, !.url = clean] = Made(pc, clean, Junk(link))
  <2> DEFINE n == Junk(link)
             u == clean
  <2>1. ASSUME NEW pc PROVE [fresh EXCEPT !.pc = pc] = Made(pc, link, 0)
    <3> HIDE DEF clean, u, n
    <3> QED OBVIOUS
  <2>2. counting = Made("clicked", link, n)
    BY <1>11
  <2>3. ASSUME NEW pc
        PROVE  /\ [counting EXCEPT !.pc = pc] = Made(pc, link, n)
               /\ [counting EXCEPT !.pc = pc, !.url = u] = Made(pc, u, n)
    <3> HIDE DEF counting, clean, u, n
    <3>1. [Made("clicked", link, n) EXCEPT !.pc = pc] = Made(pc, link, n)
      OBVIOUS
    <3>2. [Made("clicked", link, n) EXCEPT !.pc = pc, !.url = u] = Made(pc, u, n)
      <4> DEFINE made == [Made("clicked", link, n) EXCEPT !.pc = pc]
      <4>1. made = Made(pc, link, n)
        BY <3>1
      <4> HIDE DEF made
      <4>2. [made EXCEPT !.url = u] = Made(pc, u, n)
        BY <4>1
      <4> QED BY <4>2 DEF made
    <3> HIDE DEF Made, fresh
    <3> QED BY <2>2, <3>1, <3>2
  <2> QED BY <2>1, <2>3
<1>7. CASE ~Clicks!Intercepted(link)
  <2> DEFINE r == Made("requested", link, 0)
  <2>1. clicks' = Append(clicks, r) /\ left' \in BOOLEAN /\ UNCHANGED <<toast, recent>>
    BY <1>1, <1>7 DEF Clicks!Leaves
  <2>2. r \in ClickRecord /\ Tallied(r)
    BY <1>3, <1>6 DEF Tallied
  <2> HIDE DEF r
  <2> QED BY <1>4, <1>5, <2>1, <2>2, ClickAdded
<1>8. CASE Clicks!Intercepted(link) /\ Clicks!Notifies(link)
  <2> DEFINE r == Made("toast", link, Junk(link))
  <2>1. /\ clicks' = Append(Clicks!Replaced, r) /\ toast' = i /\ left' \in BOOLEAN
        /\ recent' = recent + 1 /\ r.pc = "toast"
    BY <1>1, <1>5, <1>8, <1>12
  <2>2. r \in ClickRecord /\ Tallied(r) /\ recent' \in 0..RewriteMax
    BY <1>3, <1>5, <1>6, <1>8, <2>1 DEF Tallied
  <2> HIDE DEF r
  <2> QED BY <1>4, <2>1, <2>2, ClickAdded
<1>9. CASE Clicks!Intercepted(link) /\ ~Clicks!Notifies(link) /\ Clicks!ResolvesShortener(link)
  <2> DEFINE r == Made("resolving", link, Junk(link))
  <2>1. /\ clicks' = Append(clicks, r) /\ UNCHANGED toast /\ left' \in BOOLEAN
        /\ recent' = recent + 1
    BY <1>1, <1>5, <1>9, <1>12
  <2>2. r \in ClickRecord /\ Tallied(r) /\ recent' \in 0..RewriteMax
    BY <1>3, <1>5, <1>6, <1>9, <2>1 DEF Tallied
  <2> HIDE DEF r
  <2> QED BY <1>4, <2>1, <2>2, ClickAdded
<1>10. CASE Clicks!Intercepted(link) /\ ~Clicks!Notifies(link) /\ ~Clicks!ResolvesShortener(link)
  <2> DEFINE r == Made("requested", clean, Junk(link))
  <2>1. /\ clicks' = Append(clicks, r) /\ UNCHANGED toast /\ left' \in BOOLEAN
        /\ recent' = recent + 1
    BY <1>1, <1>5, <1>10, <1>12 DEF Clicks!Leaves
  <2>2. r \in ClickRecord /\ Tallied(r) /\ recent' \in 0..RewriteMax
    BY <1>2, <1>3, <1>5, <1>6, <1>10, <2>1 DEF Tallied
  <2> HIDE DEF r
  <2> QED BY <1>4, <2>1, <2>2, ClickAdded
<1> QED BY <1>7, <1>8, <1>9, <1>10

LEMMA ClicksNext == ClicksInv /\ [Clicks!Next]_Clicks!vars => ClicksInv'
<1> SUFFICES ASSUME ClicksInv, [Clicks!Next]_Clicks!vars PROVE ClicksInv'
  OBVIOUS
<1>0. /\ clicks \in Seq(ClickRecord) /\ toast \in 0..Len(clicks) /\ left \in BOOLEAN
      /\ recent \in 0..RewriteMax /\ RewriteMax \in Nat
      /\ blacklist \in {"absent", "sent", "stored", "cached"}
      /\ \A i \in DOMAIN clicks : clicks[i] \in ClickRecord /\ Tallied(clicks[i])
  BY ClickTyped, BoundsAssumption DEF ClicksInv, Clicks!TypeOK
<1>1. CASE Clicks!Click
  BY <1>1, ClickStep
<1>2. CASE Clicks!WindowEnds \/ Clicks!BlacklistStored \/ UNCHANGED Clicks!vars
  <2>1. /\ UNCHANGED <<firefox, notify, resolve, clicks, toast, left>>
        /\ recent' \in {recent, 0}
        /\ blacklist' \in {"absent", "sent", "stored", "cached"}
    BY <1>0, <1>2 DEF Clicks!WindowEnds, Clicks!BlacklistStored, Clicks!vars
  <2>2. ToastInv' /\ CountInv'
    BY <2>1 DEF ClicksInv, ToastInv, CountInv
  <2> QED BY <1>0, <2>1, <2>2 DEF ClicksInv, Clicks!TypeOK
<1>3. ASSUME NEW i \in DOMAIN clicks, NEW url \in Clicks!Links,
             NEW choice \in {"none", "original", "clean", "fallback"},
             clicks[i].pc \in {"toast", "resolving"},
             choice \in {"none", "clean"} => url.junk = FALSE,
             clicks' = Clicks!Navigated(i, url, choice), Clicks!Leaves(i),
             UNCHANGED <<firefox, notify, resolve, recent>>,
             toast' = 0 \/ (toast' = toast /\ clicks[i].pc = "resolving"),
             blacklist' \in {"absent", "sent", "stored", "cached"}
      PROVE  ClicksInv'
  <2> DEFINE r == [clicks[i] EXCEPT !.pc = "requested", !.url = url, !.choice = choice]
  <2>1. clicks' = [clicks EXCEPT ![i] = r]
    BY <1>0, <1>3 DEF Clicks!Navigated
  <2>2. r \in ClickRecord
    BY <1>0 DEF ClickRecord
  <2>3. /\ r.pc = "requested" /\ r.url = url /\ r.choice = choice /\ r.link = clicks[i].link
        /\ r.counted = clicks[i].counted
    BY <1>0 DEF ClickRecord
  <2>4. clicks[i].counted = Junk(clicks[i].link)
    BY <1>0, <1>3 DEF Tallied
  <2>5. Tallied(r)
    <3>1. clicks[i].counted \in Nat
      BY <1>0 DEF ClickRecord
    <3> HIDE DEF r
    <3> QED BY <1>3, <2>3, <2>4, <3>1 DEF Tallied, Junk
  <2>6. left' \in BOOLEAN
    BY <1>3 DEF Clicks!Leaves
  <2>7. toast' \in {0, toast} /\ toast' # i
    BY <1>0, <1>3 DEF ClicksInv, ToastInv
  <2> HIDE DEF r
  <2> QED BY <1>3, <2>1, <2>2, <2>5, <2>6, <2>7, ClicksOne
<1>4. CASE Clicks!Keep \/ Clicks!Remove
  <2>1. toast \in DOMAIN clicks /\ clicks[toast].pc = "toast"
    BY <1>4 DEF Clicks!Keep, Clicks!Remove, Clicks!Nobody, ClicksInv, ToastInv
  <2> DEFINE removed == Clicks!Removed(clicks[toast].link)
  <2>2. clicks[toast].link \in Clicks!Links /\ removed \in Clicks!Links /\ removed.junk = FALSE
    BY <1>0, <2>1, CleanedUrl DEF ClickRecord, Clicks!Removed
  <2>3. /\ Clicks!Leaves(toast) /\ toast' = 0 /\ UNCHANGED <<firefox, notify, resolve, recent>>
        /\ \/ clicks' = Clicks!Navigated(toast, clicks[toast].link, "original")
           \/ clicks' = Clicks!Navigated(toast, removed, "clean")
    BY <1>4 DEF Clicks!Keep, Clicks!Remove, Clicks!Nobody
  <2>4. blacklist' \in {"absent", "sent", "stored", "cached"}
    BY <1>0, <1>4 DEF Clicks!Keep, Clicks!Remove
  <2> HIDE DEF removed
  <2> QED BY <1>3, <2>1, <2>2, <2>3, <2>4
<1>5. ASSUME NEW i \in DOMAIN clicks, Clicks!Resolves(i) \/ Clicks!TimesOut(i) PROVE ClicksInv'
  <2>1. Clicks!Clean \in Clicks!Links /\ Clicks!Clean.junk = FALSE
    BY DEF Clicks!Clean, Clicks!Links
  <2>2. clicks[i].link \in Clicks!Links
    BY <1>0 DEF ClickRecord
  <2>3. /\ clicks[i].pc = "resolving"
        /\ UNCHANGED <<firefox, notify, resolve, toast, recent, blacklist>>
        /\ \/ clicks' = Clicks!Navigated(i, Clicks!Clean, "none")
           \/ clicks' = Clicks!Navigated(i, clicks[i].link, "fallback")
    BY <1>5 DEF Clicks!Resolves, Clicks!TimesOut, Clicks!FallsBack
  <2>4. Clicks!Leaves(i)
    <3>1. CASE Clicks!Resolves(i)
      BY <3>1 DEF Clicks!Resolves
    <3>2. CASE Clicks!TimesOut(i)
      <4>1. clicks' = Clicks!Navigated(i, clicks[i].link, "fallback")
            /\ left' = (left \/ ~clicks[i].newTab)
        BY <3>2 DEF Clicks!TimesOut, Clicks!FallsBack
      <4>2. clicks'[i].newTab = clicks[i].newTab
        BY <1>0, <4>1 DEF Clicks!Navigated, ClickRecord
      <4> QED BY <4>1, <4>2 DEF Clicks!Leaves
    <3> QED BY <1>5, <3>1, <3>2
  <2> QED BY <1>0, <1>3, <2>1, <2>2, <2>3, <2>4
<1>6. ASSUME NEW i \in DOMAIN clicks, Clicks!Request(i) PROVE ClicksInv'
  <2>1. /\ clicks[i].pc = "requested" /\ clicks[i] \in ClickRecord /\ Tallied(clicks[i])
        /\ UNCHANGED <<firefox, notify, resolve, toast, recent, blacklist, left>>
    BY <1>0, <1>6 DEF Clicks!Request
  <2>2. PICK url, n :
            /\ Clicks!Sent(i, url, n)
            /\ \/ /\ ~firefox /\ url = [clicks[i].url EXCEPT !.junk = FALSE]
                  /\ n = clicks[i].counted
               \/ url = Clicks!Cleaned(clicks[i].url, blacklist = "cached")
                  /\ n = Clicks!Counts(i)
               \/ url = clicks[i].url /\ n = clicks[i].counted
    BY <1>6 DEF Clicks!Request
  <2>3. clicks[i].url \in Clicks!Links /\ clicks[i].counted \in Nat
    BY <2>1 DEF ClickRecord
  <2>4. /\ url \in Clicks!Links /\ n \in Nat
        /\ n + Junk(url) <= clicks[i].counted + Junk(clicks[i].url)
        /\ firefox => n + Junk(url) = clicks[i].counted + Junk(clicks[i].url)
    <3>1. CASE ~firefox /\ url = [clicks[i].url EXCEPT !.junk = FALSE]
               /\ n = clicks[i].counted
      <4>1. url \in Clicks!Links /\ url.junk = FALSE
        BY <2>3, <3>1 DEF Clicks!Links
      <4> QED BY <2>3, <3>1, <4>1 DEF Junk
    <3>2. CASE url = Clicks!Cleaned(clicks[i].url, blacklist = "cached")
               /\ n = Clicks!Counts(i)
      <4>1. url \in Clicks!Links /\ url.junk = FALSE
        BY <2>3, <3>2, CleanedUrl
      <4> QED BY <2>3, <3>2, <4>1 DEF Junk, Clicks!Counts
    <3>3. CASE url = clicks[i].url /\ n = clicks[i].counted
      BY <2>3, <3>3 DEF Junk
    <3> QED BY <2>2, <3>1, <3>2, <3>3
  <2> DEFINE r == [clicks[i] EXCEPT !.pc = "loading", !.url = url, !.wire = url,
                                    !.counted = n]
  <2>5. clicks' = [clicks EXCEPT ![i] = r]
    BY <1>0, <2>2 DEF Clicks!Sent
  <2>6. /\ r \in ClickRecord /\ r.pc = "loading" /\ r.url = url /\ r.link = clicks[i].link
        /\ r.choice = clicks[i].choice /\ r.counted = n
    BY <2>1, <2>4 DEF ClickRecord
  <2>7. Tallied(r)
    <3>1. Junk(url) \in {0, 1} /\ Junk(clicks[i].url) \in {0, 1} /\ Junk(clicks[i].link) \in {0, 1}
      BY DEF Junk
    <3> HIDE DEF r
    <3> QED BY <2>1, <2>3, <2>4, <2>6, <3>1 DEF Tallied
  <2>8. toast' \in {0, toast} /\ toast' # i
    BY <1>0, <2>1 DEF ClicksInv, ToastInv
  <2> HIDE DEF r
  <2> QED BY <1>0, <2>1, <2>5, <2>6, <2>7, <2>8, ClicksOne
<1>7. ASSUME NEW i \in DOMAIN clicks, Clicks!Arrive(i) PROVE ClicksInv'
  <2> DEFINE url == Clicks!Cleaned(clicks[i].url, Clicks!Blacklisted)
             r == [clicks[i] EXCEPT !.pc = "arrived", !.counted = Clicks!Counts(i), !.url = url]
  <2>1. /\ clicks[i].pc = "loading" /\ clicks[i] \in ClickRecord /\ Tallied(clicks[i])
        /\ UNCHANGED <<firefox, notify, resolve, toast, recent, blacklist, left>>
    BY <1>0, <1>7 DEF Clicks!Arrive
  <2>2. clicks' = [clicks EXCEPT ![i] = r]
    BY <1>0, <1>7 DEF Clicks!Arrive
  <2>3. clicks[i].url \in Clicks!Links /\ clicks[i].counted \in Nat
    BY <2>1 DEF ClickRecord
  <2>4. /\ url \in Clicks!Links /\ url.junk = FALSE
        /\ Clicks!Counts(i) = clicks[i].counted + Junk(clicks[i].url)
        /\ Clicks!Counts(i) \in Nat
    <3>1. url \in Clicks!Links /\ url.junk = FALSE
      BY <2>3, CleanedUrl
    <3> QED BY <2>3, <3>1 DEF Clicks!Counts, Junk
  <2>5. /\ r \in ClickRecord /\ r.pc = "arrived" /\ r.url = url /\ r.link = clicks[i].link
        /\ r.choice = clicks[i].choice /\ r.counted = Clicks!Counts(i)
    <3> HIDE DEF url
    <3> QED BY <2>1, <2>4 DEF ClickRecord
  <2>6. Tallied(r)
    <3>1. Junk(url) = 0
      BY <2>4 DEF Junk
    <3> HIDE DEF r, url
    <3> QED BY <2>1, <2>4, <2>5, <3>1 DEF Tallied
  <2>7. toast' \in {0, toast} /\ toast' # i
    BY <1>0, <2>1 DEF ClicksInv, ToastInv
  <2> HIDE DEF r
  <2> QED BY <1>0, <2>1, <2>2, <2>5, <2>6, <2>7, ClicksOne
<1> QED
  BY <1>1, <1>2, <1>4, <1>5, <1>6, <1>7 DEF Clicks!Next, Clicks!Timeout, Clicks!Travel

\* The junk of a clicked link is counted once, whichever of the click, the network
\* and the page removes it (content/cleaner.js, process-url.js).
THEOREM JunkCountedOnce == RunSpec => []CountedOnce
<1>1. RunInit => ClicksInv
  BY ClicksInit DEF RunInit
<1>2. [RunNext]_allVars => [Clicks!Next]_Clicks!vars
  BY DEF RunNext, allVars, clicksVars, Clicks!vars
<1>3. ClicksInv => CountedOnce
  <2> SUFFICES ASSUME ClicksInv, NEW i \in DOMAIN clicks, Clicks!Arrived(i),
                      ~Clicks!WentToTheLink(i)
               PROVE  /\ clicks[i].counted <= 1
                      /\ clicks[i].counted = 1 => clicks[i].link.junk
                      /\ firefox /\ clicks[i].link.junk => clicks[i].counted = 1
    BY DEF CountedOnce, Clicks!CountedOnce
  <2>1. clicks[i] \in ClickRecord /\ Tallied(clicks[i])
    BY ClickTyped DEF Clicks!Arrived
  <2>2. /\ clicks[i].pc = "arrived" /\ clicks[i].choice \in {"none", "clean"}
        /\ clicks[i].counted \in Nat
    BY <2>1 DEF Clicks!Arrived, Clicks!WentToTheLink, ClickRecord
  <2> QED BY <2>1, <2>2 DEF Tallied, Junk
<1> QED BY <1>1, <1>2, <1>3, ClicksNext, PTL DEF RunSpec

-----------------------------------------------------------------------------
(* What is proved of ListMutations and of ConsentRecord by themselves      *)
(* holds of the harness: their proof modules are instances here, whose     *)
(* definitions are those of the harness's instances, word for word.        *)

Listed == INSTANCE ListMutationsProofs WITH
    Faulty <- ListsFaulty, Cap <- ListsCap, MaxFaults <- MaxListsFaults,
    legacy <- listsLegacy, queue <- listsQueue,
    unguarded <- listsUnguarded, faults <- listsFaults

LEMMA ListedInit == Lists!Init => Listed!Init
  BY DEF Listed!Init, Lists!Init, Listed!Lists, Lists!Lists, Listed!SeqOf,
         Lists!SeqOf, Listed!IsInjective, Lists!IsInjective

LEMMA ListedSetToSeq == \A S : Listed!SetToSeq(S) = Lists!SetToSeq(S)
<1>1. \A S : Listed!Cardinality(S) = Lists!Cardinality(S)
  BY DEF Listed!Cardinality, Lists!Cardinality
<1> QED
  BY <1>1, Zenon DEF Listed!SetToSeq, Lists!SetToSeq, Listed!IsInjective,
                     Lists!IsInjective

LEMMA ListedNext == Lists!Next => Listed!Next
<1>1. \A e : Lists!AddToWhitelist(e) => Listed!AddToWhitelist(e)
  BY DEF Listed!AddToWhitelist, Lists!AddToWhitelist, Listed!NewEdit, Lists!NewEdit,
         Listed!Enqueue, Lists!Enqueue, Listed!Task, Lists!Task, Listed!WorkerIdle,
         Lists!WorkerIdle, Listed!OptionsIdle, Lists!OptionsIdle
<1>2. Lists!StartMigration => Listed!StartMigration
  BY DEF Listed!StartMigration, Lists!StartMigration, Listed!NewEdit, Lists!NewEdit,
         Listed!Enqueue, Lists!Enqueue, Listed!Task, Lists!Task, Listed!WorkerIdle,
         Lists!WorkerIdle, Listed!OptionsIdle, Lists!OptionsIdle
<1>3. \A e : Lists!TaskRead(e) => Listed!TaskRead(e)
  BY SMTT(30) DEF Listed!TaskRead, Lists!TaskRead, Listed!Runs, Lists!Runs, Listed!ReadAs,
         Lists!ReadAs, Listed!Fails, Lists!Fails
<1>4. \A e : Lists!AddWrite(e) => Listed!AddWrite(e)
  BY SMTT(30) DEF Listed!AddWrite, Lists!AddWrite, Listed!Runs, Lists!Runs, Listed!Fails,
         Lists!Fails, Listed!Finish, Lists!Finish, Listed!ToSet, Lists!ToSet,
         Listed!RemoveAt, Lists!RemoveAt
<1>5. \A e : Lists!MigrateWrite(e) => Listed!MigrateWrite(e)
  BY ListedSetToSeq DEF Listed!MigrateWrite, Lists!MigrateWrite, Listed!Runs,
                        Lists!Runs, Listed!Fails, Lists!Fails, Listed!Finish,
                        Lists!Finish, Listed!ToSet, Lists!ToSet, Listed!RemoveAt,
                        Lists!RemoveAt
<1>6. \A e : Lists!AddEntry(e) => Listed!AddEntry(e)
  BY DEF Listed!AddEntry, Lists!AddEntry, Listed!NewEdit, Lists!NewEdit, Listed!Task,
         Lists!Task, Listed!WorkerIdle, Lists!WorkerIdle, Listed!OptionsIdle,
         Lists!OptionsIdle
<1>7. \A e : Lists!RemoveEntry(e) => Listed!RemoveEntry(e)
  BY DEF Listed!RemoveEntry, Lists!RemoveEntry, Listed!NewEdit, Lists!NewEdit,
         Listed!Task, Lists!Task, Listed!WorkerIdle, Lists!WorkerIdle,
         Listed!OptionsIdle, Lists!OptionsIdle
<1>8. Lists!OptionsRead => Listed!OptionsRead
  BY SMTT(40) DEF Listed!OptionsRead, Lists!OptionsRead, Listed!Fails, Lists!Fails
<1>9. Lists!OptionsWrite => Listed!OptionsWrite
  BY DEF Listed!OptionsWrite, Lists!OptionsWrite, Listed!Fails, Lists!Fails,
         Listed!Proceeds, Lists!Proceeds, Listed!Result, Lists!Result,
         Listed!WithRowRemoved, Lists!WithRowRemoved, Listed!ToSet, Lists!ToSet,
         Listed!RemoveAt, Lists!RemoveAt
<1>10. Lists!ReopenSettings => Listed!ReopenSettings
  BY DEF Listed!ReopenSettings, Lists!ReopenSettings, Listed!OptionsIdle,
         Lists!OptionsIdle
<1>11. \A e : Lists!PauseSite(e) => Listed!PauseSite(e)
  BY DEF Listed!PauseSite, Lists!PauseSite, Listed!NewEdit, Lists!NewEdit,
         Listed!Toggled, Lists!Toggled, Listed!Place, Lists!Place, Listed!Fails,
         Lists!Fails, Listed!ToSet, Lists!ToSet, Listed!RemoveAt, Lists!RemoveAt,
         Listed!WorkerIdle, Lists!WorkerIdle, Listed!OptionsIdle, Lists!OptionsIdle
<1>12. Lists!RenderPopup => Listed!RenderPopup
  BY DEF Listed!RenderPopup, Lists!RenderPopup
<1> QED
  BY <1>1, <1>2, <1>3, <1>4, <1>5, <1>6, <1>7, <1>8, <1>9, <1>10, <1>11, <1>12
     DEF Listed!Next, Lists!Next, Listed!WorkerStep, Lists!WorkerStep,
         Listed!OptionsStep, Lists!OptionsStep

LEMMA ListsRuns == RunSpec => Listed!Spec
<1>1. RunInit => Listed!Init
  BY ListedInit DEF RunInit
<1>2. [RunNext]_allVars => [Listed!Next]_(Listed!vars)
  BY ListedNext DEF RunNext, allVars, listsVars, Listed!vars
<1> QED BY <1>1, <1>2, PTL DEF RunSpec, Listed!Spec

\* The abstract lists the two instances map to are the same.
LEMMA ListedAtomic ==
  /\ Listed!Atomic!Init => Lists!Atomic!Init
  /\ Listed!Atomic!Next => Lists!Atomic!Next
  /\ Listed!Atomic!vars = Lists!Atomic!vars
  /\ Listed!Atomic!vars' = Lists!Atomic!vars'
<1> USE DEF Listed!ToSet, Lists!ToSet, Listed!EditsOf, Lists!EditsOf
<1>1. Listed!Atomic!Init => Lists!Atomic!Init
  BY DEF Listed!Atomic!Init, Lists!Atomic!Init
<1>2. Listed!Atomic!Next => Lists!Atomic!Next
  BY DEF Listed!Atomic!Next, Lists!Atomic!Next, Listed!Atomic!Ask, Lists!Atomic!Ask,
         Listed!Atomic!Toggle, Lists!Atomic!Toggle, Listed!Atomic!Add,
         Lists!Atomic!Add, Listed!Atomic!Remove, Lists!Atomic!Remove,
         Listed!Atomic!Migrate, Lists!Atomic!Migrate, Listed!Atomic!GiveUp,
         Lists!Atomic!GiveUp, Listed!Atomic!Settle, Lists!Atomic!Settle,
         Listed!Atomic!Edit, Lists!Atomic!Edit
<1>3. Listed!Atomic!vars = Lists!Atomic!vars /\ Listed!Atomic!vars' = Lists!Atomic!vars'
  BY DEF Listed!Atomic!vars, Lists!Atomic!vars
<1> QED BY <1>1, <1>2, <1>3

\* With one queue at work every change of the allowlist is one edit asked for before,
\* made to the list as it is (list-mutation-queue.js, sync-mutation.js), whatever else
\* the worker and Settings do.
THEOREM ListEditsAreAtomic == RunSpec => EditsAreAtomic
<1>1. Listed!Spec => Listed!EditsAreAtomic
  BY Listed!WritersAreAtomic
<1>2. Listed!Atomic!Init => Lists!Atomic!Init
  BY ListedAtomic
<1>3. [listsUnguarded \/ listsUnguarded' \/ Listed!Atomic!Next]_(Listed!Atomic!vars)
        => [listsUnguarded \/ listsUnguarded' \/ Lists!Atomic!Next]_(Lists!Atomic!vars)
  BY ListedAtomic
<1> QED
  BY <1>1, <1>2, <1>3, ListsRuns, PTL
     DEF EditsAreAtomic, Lists!EditsAreAtomic, Listed!EditsAreAtomic

Agreed == INSTANCE ConsentRecordProofs WITH
    Faulty <- ConsentFaulty, MaxRestarts <- MaxConsentRestarts,
    MaxFaults <- MaxConsentFaults, legacy <- consentLegacy,
    migration <- consentMigration, restarts <- consentRestarts,
    faults <- consentFaults

LEMMA AgreedInit == Consent!Init => Agreed!Init
  BY DEF Agreed!Init, Consent!Init, Agreed!Record, Consent!Record, Agreed!Nothing,
         Consent!Nothing, Agreed!Old, Consent!Old, Agreed!Current, Consent!Current,
         Agreed!NoMigration, Consent!NoMigration, Agreed!NoOpener, Consent!NoOpener

LEMMA AgreedNext == Consent!Next => Agreed!Next
<1> USE DEF Agreed!bounds, Consent!bounds, Agreed!stored, Consent!stored, Agreed!Fails,
            Consent!Fails, Agreed!Read, Consent!Read, Agreed!Record, Consent!Record,
            Agreed!Nothing, Consent!Nothing, Agreed!Current, Consent!Current
<1>1. Consent!MigrationStep => Agreed!MigrationStep
  BY DEF Agreed!MigrationStep, Consent!MigrationStep, Agreed!MigrationReadsSync,
         Consent!MigrationReadsSync, Agreed!MigrationReadsLocal,
         Consent!MigrationReadsLocal, Agreed!LocalHasConsent, Consent!LocalHasConsent,
         Agreed!MigrationCopies, Consent!MigrationCopies, Agreed!MigrationKeeps,
         Consent!MigrationKeeps, Agreed!MayRemove, Consent!MayRemove,
         Agreed!MigrationRemoves, Consent!MigrationRemoves
<1>2. \/ Consent!ImplicitAccept \/ Consent!InstallOpens
      \/ Consent!WakeChecks \/ Consent!WakeOpens \/ Consent!WakeClears
      => \/ Agreed!ImplicitAccept \/ Agreed!InstallOpens
         \/ Agreed!WakeChecks \/ Agreed!WakeOpens \/ Agreed!WakeClears
  BY DEF Agreed!ImplicitAccept, Consent!ImplicitAccept, Agreed!OpensOnInstall,
         Consent!OpensOnInstall, Agreed!InstallOpens, Consent!InstallOpens,
         Agreed!Opens, Consent!Opens, Agreed!ReadsDone, Consent!ReadsDone,
         Agreed!WakeChecks, Consent!WakeChecks, Agreed!WakeOpens, Consent!WakeOpens,
         Agreed!WakeClears, Consent!WakeClears
<1>3. \A c : Consent!OpenerChecks(c) \/ Consent!OpenerMarks(c) \/ Consent!OpenerCreates(c)
          => Agreed!OpenerChecks(c) \/ Agreed!OpenerMarks(c) \/ Agreed!OpenerCreates(c)
  BY DEF Agreed!OpenerChecks, Consent!OpenerChecks, Agreed!OpenerMarks,
         Consent!OpenerMarks, Agreed!OpenerCreates, Consent!OpenerCreates,
         Agreed!AlreadyOpened, Consent!AlreadyOpened
<1>4. Consent!Submit \/ Consent!Restart => Agreed!Submit \/ Agreed!Restart
  BY DEF Agreed!Submit, Consent!Submit, Agreed!Restart, Consent!Restart,
         Agreed!NoMigration, Consent!NoMigration, Agreed!NoOpener, Consent!NoOpener
<1> QED
  BY <1>1, <1>2, <1>3, <1>4
     DEF Agreed!Next, Consent!Next, Agreed!WorkerStep, Consent!WorkerStep

LEMMA ConsentRuns == RunSpec => Agreed!Spec
<1>1. RunInit => Agreed!Init
  BY AgreedInit DEF RunInit
<1>2. [RunNext]_allVars => [Agreed!Next]_(Agreed!vars)
  BY AgreedNext
     DEF RunNext, allVars, consentVars, Agreed!vars, Agreed!stored, Agreed!bounds
<1> QED BY <1>1, <1>2, PTL DEF RunSpec, Agreed!Spec

\* The gate of a device that had accepted never shuts, in whatever order the
\* migration, the install, the button and restarts come and whichever storage calls
\* fail (migrateConsentToLocal, setConsent).
THEOREM GateStaysOpen == ASSUME PartialLegacy = FALSE PROVE RunSpec => []GateNeverCloses
<1>1. Agreed!Spec => []Agreed!GateNeverCloses
  BY Agreed!AcceptedStays, Zenon
<1>2. Agreed!GateNeverCloses => GateNeverCloses
  BY DEF GateNeverCloses, Agreed!GateNeverCloses, Consent!GateNeverCloses
<1> QED BY <1>1, <1>2, ConsentRuns, PTL

\* Every onboarding tab but the first took a storage call that failed
\* (openOnboardingOnce, clearOnboardingTabFlag).
THEOREM OnboardingIsOpenedOnce ==
    ASSUME PartialLegacy = FALSE PROVE RunSpec => []OneOnboardingTab
<1>1. Agreed!Spec => []Agreed!OneOnboardingTab
  BY Agreed!TabsAreEarned
<1>2. Agreed!OneOnboardingTab => OneOnboardingTab
  BY DEF OneOnboardingTab, Agreed!OneOnboardingTab, Consent!OneOnboardingTab
<1> QED BY <1>1, <1>2, ConsentRuns, PTL

-----------------------------------------------------------------------------
(* The settings file.                                                      *)

FileSites == {"a", "b"}
FileKeys == Import!Keys \cup {"muga", "disabled"}

\* A file, and a plan made of one.
FileTyped(f) ==
    /\ f = [key \in FileKeys |-> f[key]]
    /\ f.white \in Seq(FileSites) /\ f.disabled \subseteq FileSites
    /\ \A key \in Import!Keys \ {"white"} : f[key] \in Import!Maybe

StoresTyped ==
    /\ sync = [key \in Import!Synced |-> sync[key]]
    /\ sync.white \in Seq(FileSites) /\ Len(sync.white) <= ImportCap
    /\ deviceLocal \in [Import!OnDevice -> Import!Switch]

\* What the plan makes of a setting.
Planned(key) == IF Import!Says(toSave, key) THEN toSave[key] ELSE before[key]

Applied == importToast \in {"success", "skipped"}

\* The settings written so far, the one that may be overridden apart.
Written ==
    IF stage = "devMode" THEN {"white", "plain", "click"}
    ELSE IF stage = "devTools" THEN {"white", "plain", "click", "devMode"}
    ELSE IF stage \in {"override", "refresh"} \/ Applied THEN Import!Keys \ {"remote"}
    ELSE {}

\* An import nobody interferes with writes the plan of its file.
PlanInv ==
    /\ Import!TypeOK /\ StoresTyped /\ FileTyped(file) /\ FileTyped(toSave)
    /\ Len(toSave.white) <= ImportCap
    /\ stage # "idle" => importToast = "none"
    /\ importToast = "success" => ~Import!Skipped(file)
    /\ ~overlapped /\ (stage \notin {"idle", "gate"} \/ Applied) =>
            toSave = Import!Plan(file)

\* What it has done so far.
Course ==
    /\ \A key \in Import!Keys \ {"remote"} :
            Import!Effective[key] = IF key \in Written THEN Planned(key) ELSE before[key]
    /\ IF stage = "refresh" \/ Applied THEN Import!Effective["remote"] = Planned("remote")
       ELSE IF stage \in {"devMode", "devTools", "override"} /\ toSave.remote # Import!Absent
            THEN sync.remote = toSave.remote
            ELSE Import!Effective["remote"] = before.remote
    /\ Applied => checkbox = Import!Effective["remote"]

CourseInv == ~overlapped => Course

\* The stores, as one record of settings: those of the device, the override over the
\* synced ones.
LEMMA EffectiveIs ==
    /\ \A key \in Import!OnDevice : Import!Effective[key] = deviceLocal[key]
    /\ \A key \in Import!Synced \ {"remote"} : Import!Effective[key] = sync[key]
    /\ Import!Effective["remote"] = IF override = Import!Absent THEN sync.remote ELSE override
  BY Zenon DEF Import!Effective, Import!Keys, Import!Synced, Import!OnDevice, Import!Gated

LEMMA MigratedIs ==
    ASSUME NEW f, FileTyped(f)
    PROVE  /\ Import!Migrated(f) \in Seq(FileSites)
           /\ Import!ToSet(Import!Migrated(f)) = Import!ToSet(f.white) \cup f.disabled
<1> DEFINE rest == {site \in f.disabled : ~Import!Contains(f.white, site)}
           s == Import!SetToSeq(rest)
<1>1. f.white \in Seq(FileSites) /\ rest \subseteq FileSites /\ f.disabled \subseteq FileSites
  BY DEF FileTyped
<1>2. IsFiniteSet(FileSites)
  <2>1. IsFiniteSet({"a"} \cup {"b"})
    BY FS_Singleton, FS_Union
  <2>2. FileSites = {"a"} \cup {"b"}
    BY DEF FileSites
  <2> QED BY <2>1, <2>2
<1>3. IsFiniteSet(rest)
  BY <1>1, <1>2, FS_Subset
<1>4. s \in Seq(rest) /\ Import!ToSet(s) = rest
  <2>1. Listed!IsFiniteSet(rest)
    BY <1>3 DEF Listed!IsFiniteSet, IsFiniteSet
  <2>2. /\ Listed!SetToSeq(rest) \in Seq(rest)
        /\ Listed!ToSet(Listed!SetToSeq(rest)) = rest
    BY <2>1, Listed!SeqOfSet
  <2>3. \A S : Listed!Cardinality(S) = Import!Cardinality(S)
    BY DEF Listed!Cardinality, Import!Cardinality
  <2>4. Listed!SetToSeq(rest) = s
    BY <2>3, Zenon DEF Listed!SetToSeq, Import!SetToSeq, Listed!IsInjective,
                       Import!IsInjective
  <2>5. Listed!ToSet(s) = Import!ToSet(s)
    BY DEF Listed!ToSet, Import!ToSet
  <2> QED BY <2>2, <2>4, <2>5
<1>5. Import!Migrated(f) = f.white \o s
  BY DEF Import!Migrated
<1> HIDE DEF s
<1>6. Import!ToSet(f.white \o s) = Import!ToSet(f.white) \cup Import!ToSet(s)
  <2> DEFINE w == f.white
  <2>1. w \in Seq(FileSites) /\ s \in Seq(FileSites)
    BY <1>1, <1>4
  <2> HIDE DEF w
  <2>2. /\ DOMAIN (w \o s) = 1..(Len(w) + Len(s)) /\ Len(w) \in Nat /\ Len(s) \in Nat
        /\ DOMAIN w = 1..Len(w) /\ DOMAIN s = 1..Len(s)
        /\ \A i \in 1..(Len(w) + Len(s)) :
                (w \o s)[i] = IF i <= Len(w) THEN w[i] ELSE s[i - Len(w)]
    BY <2>1
  <2>3. \A x \in Import!ToSet(w \o s) : x \in Import!ToSet(w) \cup Import!ToSet(s)
    BY <2>2 DEF Import!ToSet
  <2>4. \A x \in Import!ToSet(w) : x \in Import!ToSet(w \o s)
    BY <2>2 DEF Import!ToSet
  <2>5. ASSUME NEW i \in DOMAIN s PROVE s[i] \in Import!ToSet(w \o s)
    <3>1. i + Len(w) \in DOMAIN (w \o s) /\ (w \o s)[i + Len(w)] = s[i]
      BY <2>2
    <3> QED BY <3>1 DEF Import!ToSet
  <2>6. \A x \in Import!ToSet(s) : x \in Import!ToSet(w \o s)
    BY <2>5 DEF Import!ToSet
  <2> QED BY <2>3, <2>4, <2>6 DEF w
<1>7. \A site \in f.disabled : Import!Contains(f.white, site) => site \in Import!ToSet(f.white)
  BY <1>1 DEF Import!Contains, Import!ToSet
<1>8. s \in Seq(FileSites)
  BY <1>1, <1>4
<1> QED BY <1>1, <1>4, <1>5, <1>6, <1>7, <1>8

\* A plan is a file whose list fits; everything but the list and the gated settings is
\* the file's.
LEMMA PlanIs ==
    ASSUME NEW f, FileTyped(f)
    PROVE  /\ FileTyped(Import!Plan(f)) /\ Len(Import!Plan(f).white) <= ImportCap
           /\ Import!Plan(f).white = Import!Capped(f)
           /\ \A key \in Import!Gated : Import!Plan(f)[key] = Import!Landing(f, key)
           /\ \A key \in Import!Keys \ (Import!Gated \cup {"white"}) :
                    Import!Plan(f)[key] = f[key]
<1> DEFINE p == Import!Plan(f)
           white == Import!Capped(f)
           click == Import!Landing(f, "click")
           remote == Import!Landing(f, "remote")
<1>1. Import!Migrated(f) \in Seq(FileSites) /\ ImportCap \in Nat \ {0}
  BY MigratedIs, BoundsAssumption
<1>2. white \in Seq(FileSites) /\ Len(white) <= ImportCap
  <2>1. CASE Import!Skipped(f)
    <3>1. /\ Len(Import!Migrated(f)) > ImportCap
          /\ white = SubSeq(Import!Migrated(f), 1, ImportCap)
      BY <2>1 DEF Import!Skipped, Import!Capped
    <3> QED BY <1>1, <3>1
  <2>2. CASE ~Import!Skipped(f)
    BY <1>1, <2>2 DEF Import!Skipped, Import!Capped
  <2> QED BY <2>1, <2>2
<1>3. click \in Import!Maybe /\ remote \in Import!Maybe
  BY DEF FileTyped, Import!Landing, Import!Maybe, Import!Switch, Import!Keys, Import!Synced,
         Import!Gated
<1>4. /\ p = [key \in FileKeys |-> p[key]] /\ p.white = white /\ p.click = click
      /\ p.remote = remote
      /\ \A key \in FileKeys \ {"white", "click", "remote"} : p[key] = f[key]
  <2> HIDE DEF white, click, remote
  <2>1. p = [f EXCEPT !.white = white, !.click = click, !.remote = remote]
    BY DEF Import!Plan, white, click, remote
  <2>2. DOMAIN f = FileKeys /\ {"white", "click", "remote"} \subseteq FileKeys
    BY DEF FileTyped, FileKeys, Import!Keys, Import!Synced, Import!Gated
  <2> HIDE DEF p
  <2> QED BY <2>1, <2>2
<1> HIDE DEF p, white, click, remote
<1>5. FileTyped(p)
  <2>1. p.disabled \subseteq FileSites
    BY <1>4 DEF FileTyped, FileKeys
  <2>2. ASSUME NEW key \in Import!Keys \ {"white"} PROVE p[key] \in Import!Maybe
    BY <1>3, <1>4 DEF FileTyped, FileKeys
  <2> QED BY <1>2, <1>4, <2>1, <2>2 DEF FileTyped
<1>6. \A key \in Import!Gated : p[key] = Import!Landing(f, key)
  BY <1>4 DEF Import!Gated, click, remote
<1>7. \A key \in Import!Keys \ (Import!Gated \cup {"white"}) : p[key] = f[key]
  BY <1>4 DEF Import!Gated, FileKeys
<1> QED BY <1>2, <1>4, <1>5, <1>6, <1>7 DEF p, white

\* Everything a file may be, the present settings exported included.
LEMMA FilesTyped ==
    ASSUME Import!TypeOK, StoresTyped,
           NEW f \in Import!Files \cup {Import!NoFile, Import!ExportPayload}
    PROVE  FileTyped(f)
<1> DEFINE File(muga, white, disabled, plain, click, remote, devMode, devTools) ==
                [muga |-> muga, white |-> white, disabled |-> disabled, plain |-> plain,
                 click |-> click, remote |-> remote, devMode |-> devMode,
                 devTools |-> devTools]
<1>0. ASSUME NEW muga, NEW white \in Seq(FileSites), NEW disabled \in SUBSET FileSites,
             NEW plain \in Import!Maybe, NEW click \in Import!Maybe,
             NEW remote \in Import!Maybe, NEW devMode \in Import!Maybe,
             NEW devTools \in Import!Maybe
      PROVE  FileTyped(File(muga, white, disabled, plain, click, remote, devMode, devTools))
  <2> DEFINE g == File(muga, white, disabled, plain, click, remote, devMode, devTools)
  <2>1. FileKeys = {"muga", "white", "disabled", "plain", "click", "remote", "devMode",
                    "devTools"}
    BY DEF FileKeys, Import!Keys, Import!Synced, Import!Gated, Import!OnDevice
  <2>2. g = [key \in FileKeys |-> g[key]]
    BY <2>1
  <2>3. ASSUME NEW key \in Import!Keys \ {"white"} PROVE g[key] \in Import!Maybe
    BY DEF Import!Keys, Import!Synced, Import!Gated, Import!OnDevice
  <2> QED BY <2>2, <2>3 DEF FileTyped
<1>9. Import!NoFile = File(FALSE, <<>>, {}, Import!Absent, Import!Absent, Import!Absent,
                            Import!Absent, Import!Absent)
  BY Zenon DEF Import!NoFile
<1> HIDE DEF File
<1> USE DEF Import!Maybe, Import!Switch, Import!Absent
<1>1. CASE f \in Import!Files
  <2>1. PICK lists \in {<<<<>>, {"a"}>>, <<<<"b">>, {"a"}>>, <<<<"b">>, {"b"}>>},
             said \in {"on", "absent"}, click \in Import!Maybe, remote \in Import!Maybe,
             devTools \in {"off", "absent"} :
                f = File(TRUE, lists[1], lists[2], said, click, remote, said, devTools)
    BY <1>1 DEF Import!Files, File
  <2>2. lists[1] \in Seq(FileSites) /\ lists[2] \in SUBSET FileSites
    <3> DEFINE Good(l) == l[1] \in Seq(FileSites) /\ l[2] \in SUBSET FileSites
    <3>1. /\ "a" \in FileSites /\ "b" \in FileSites
          /\ <<>> \in Seq(FileSites) /\ <<"b">> \in Seq(FileSites)
      BY DEF FileSites
    <3>2. Good(<<<<>>, {"a"}>>) /\ Good(<<<<"b">>, {"a"}>>) /\ Good(<<<<"b">>, {"b"}>>)
      BY <3>1
    <3> HIDE DEF Good
    <3>3. Good(lists)
      BY <2>1, <3>2
    <3> QED BY <3>3 DEF Good
  <2> QED BY <1>0, <2>1, <2>2
<1>2. CASE f = Import!NoFile
  <2>1. <<>> \in Seq(FileSites) /\ {} \in SUBSET FileSites
    OBVIOUS
  <2> QED BY <1>0, <1>9, <1>2, <2>1
<1>3. CASE f = Import!ExportPayload
  <2>1. f = File(TRUE, sync.white, {}, sync.plain, sync.click, sync.remote,
                 deviceLocal.devMode, deviceLocal.devTools)
    BY <1>3, Zenon DEF Import!ExportPayload, File
  <2>2. sync.white \in Seq(FileSites) /\ {} \in SUBSET FileSites
    BY DEF StoresTyped
  <2>3. /\ sync.plain \in Import!Maybe /\ sync.click \in Import!Maybe
        /\ sync.remote \in Import!Maybe
    BY DEF Import!TypeOK, Import!Synced, Import!Gated
  <2>4. deviceLocal.devMode \in Import!Maybe /\ deviceLocal.devTools \in Import!Maybe
    BY DEF Import!TypeOK, Import!OnDevice
  <2> QED BY <1>0, <2>1, <2>2, <2>3, <2>4
<1> QED BY <1>1, <1>2, <1>3

\* A plan is of the file and the permissions alone.
LEMMA PlanStays == UNCHANGED <<file, grants>> =>
        Import!Plan(file)' = Import!Plan(file) /\ Import!Skipped(file)' = Import!Skipped(file)
  BY SMT DEF Import!Plan, Import!Capped, Import!Skipped, Import!Migrated, Import!Landing

LEMMA FilesStay ==
    ASSUME PlanInv, UNCHANGED <<file, toSave>>
    PROVE  FileTyped(file)' /\ FileTyped(toSave)' /\ (Len(toSave.white) <= ImportCap)'
  BY DEF PlanInv, FileTyped

LEMMA PlanInit == Import!Init => PlanInv
<1> SUFFICES ASSUME Import!Init PROVE PlanInv
  OBVIOUS
<1> USE DEF Import!Keys, Import!Synced, Import!Gated, Import!OnDevice, Import!Maybe,
            Import!Switch, Import!Absent
<1>1. StoresTyped
  <2>1. ImportCap \in Nat \ {0}
    BY BoundsAssumption
  <2> QED BY <2>1 DEF Import!Init, StoresTyped, FileSites
<1>2. Import!TypeOK
  <2>1. Import!Effective["remote"] \in Import!Switch
    BY EffectiveIs DEF Import!Init
  <2> QED BY <2>1 DEF Import!Init, Import!TypeOK
<1>3. FileTyped(Import!NoFile) /\ Import!NoFile.white = <<>>
  BY <1>1, <1>2, FilesTyped DEF Import!NoFile
<1>4. file = Import!NoFile /\ toSave = Import!NoFile /\ stage = "idle" /\ importToast = "none"
  BY DEF Import!Init
<1>5. ImportCap \in Nat
  BY BoundsAssumption
<1> QED BY <1>1, <1>2, <1>3, <1>4, <1>5 DEF PlanInv, Applied

LEMMA PlanNext == PlanInv /\ [Import!Next]_(Import!vars) => PlanInv'
<1> SUFFICES ASSUME PlanInv, [Import!Next]_(Import!vars) PROVE PlanInv'
  OBVIOUS
<1> USE DEF Import!Idle
<1>0. /\ Import!TypeOK /\ StoresTyped /\ FileTyped(file) /\ FileTyped(toSave)
      /\ stage # "idle" => importToast = "none"
      /\ Len(toSave.white) <= ImportCap /\ ImportCap \in Nat
  BY BoundsAssumption DEF PlanInv
<1>1. ASSUME NEW f \in Import!Files \cup {Import!NoFile, Import!ExportPayload},
             Import!Choose(f)
      PROVE  PlanInv'
  <2>1. FileTyped(f) /\ FileTyped(Import!NoFile) /\ Import!NoFile.white = <<>>
    BY <1>0, FilesTyped DEF Import!NoFile
  <2>2. /\ file' = f /\ toSave' = Import!NoFile
        /\ stage' \in {"idle", "gate"} /\ importToast' \in {"none", "error"}
        /\ stage' # "idle" => importToast' = "none"
        /\ UNCHANGED <<sync, deviceLocal, override, grants, toggling, checkbox>>
    BY <1>1 DEF Import!Choose, Import!store
  <2>3. Import!TypeOK' /\ StoresTyped'
    BY <1>0, <2>2 DEF Import!TypeOK, StoresTyped
  <2>4. FileTyped(file)' /\ FileTyped(toSave)' /\ (Len(toSave.white) <= ImportCap)'
    <3>1. FileTyped(file') /\ FileTyped(toSave') /\ toSave'.white = <<>> /\ Len(<<>>) = 0
      BY <2>1, <2>2
    <3> QED BY <1>0, <3>1 DEF FileTyped
  <2> QED BY <2>2, <2>3, <2>4 DEF PlanInv, Applied
<1>2. CASE Import!Gate
  <2>1. /\ stage = "gate" /\ stage' = "diff" /\ toSave' = Import!Plan(file)
        /\ UNCHANGED <<sync, deviceLocal, override, grants, toggling, file, importToast,
                       checkbox>>
    BY <1>2 DEF Import!Gate, Import!store
  <2>2. Import!TypeOK' /\ StoresTyped'
    BY <1>0, <2>1 DEF Import!TypeOK, StoresTyped
  <2>3. FileTyped(toSave') /\ Len(toSave'.white) <= ImportCap
    BY <1>0, <2>1, PlanIs
  <2>4. FileTyped(file)' /\ FileTyped(toSave)' /\ (Len(toSave.white) <= ImportCap)'
    BY <1>0, <2>1, <2>3 DEF FileTyped
  <2>5. toSave' = Import!Plan(file)'
    BY <2>1, PlanStays
  <2>6. importToast' = "none"
    BY <1>0, <2>1
  <2> QED BY <2>2, <2>4, <2>5, <2>6 DEF PlanInv
<1>3. ASSUME UNCHANGED <<sync, deviceLocal, override, grants, toggling, file, toSave, overlapped>>,
             /\ stage \notin {"idle", "gate"} /\ stage' \in {"idle", "modal", "sync"}
             /\ importToast' \in {"none", "no changes", "cancelled", "error"}
             /\ stage' # "idle" => importToast' = "none"
             /\ checkbox' = checkbox
      PROVE  PlanInv'
  <2>1. Import!TypeOK' /\ StoresTyped'
    BY <1>0, <1>3 DEF Import!TypeOK, StoresTyped
  <2>2. Import!Plan(file)' = Import!Plan(file)
    BY <1>3, PlanStays
  <2> QED BY <1>3, <2>1, <2>2, FilesStay DEF PlanInv, Applied
<1>4. CASE Import!Diff
  BY <1>0, <1>3, <1>4 DEF Import!Diff, Import!store
<1>5. ASSUME NEW confirmed \in BOOLEAN, Import!Answer(confirmed) PROVE PlanInv'
  BY <1>0, <1>3, <1>5 DEF Import!Answer, Import!store
<1>6. ASSUME UNCHANGED <<grants, toggling, file, toSave, overlapped>>,
             stage \notin {"idle", "gate"}, StoresTyped',
             \A key \in Import!Synced \ {"white"} : sync'[key] \in Import!Switch,
             override' \in Import!Maybe, checkbox' \in Import!Switch,
             \/ /\ stage' \in {"devMode", "devTools", "override", "refresh"}
                /\ importToast' = importToast
             \/ stage' = "idle" /\ importToast' = "error"
             \/ stage' = "idle" /\ importToast' = IF Import!Skipped(file) THEN "skipped"
                                                  ELSE "success"
      PROVE  PlanInv'
  <2>1. Import!TypeOK'
    BY <1>0, <1>6 DEF Import!TypeOK, StoresTyped
  <2>2. /\ Import!Plan(file)' = Import!Plan(file)
        /\ Import!Skipped(file)' = Import!Skipped(file)
    BY <1>6, PlanStays
  <2> QED BY <1>0, <1>6, <2>1, <2>2, FilesStay DEF PlanInv, Applied
<1>7. CASE Import!WriteSync
  <2>1. /\ stage = "sync"
        /\ UNCHANGED <<deviceLocal, override, grants, toggling, file, toSave, checkbox,
                       overlapped>>
    BY <1>7 DEF Import!WriteSync
  <2>2. CASE /\ sync' = [key \in Import!Synced |->
                            IF Import!Says(toSave, key) THEN toSave[key] ELSE sync[key]]
             /\ stage' = "devMode" /\ UNCHANGED importToast
    <3>1. "white" \in Import!Synced /\ Import!Synced \subseteq Import!Keys
      BY DEF Import!Synced, Import!Keys
    <3>2. ASSUME NEW key \in Import!Synced \ {"white"} PROVE sync'[key] \in Import!Switch
      BY <1>0, <2>2, <3>1 DEF Import!Says, FileTyped, Import!Maybe, Import!TypeOK
    <3>3. StoresTyped'
      BY <1>0, <2>1, <2>2, <3>1 DEF Import!Says, FileTyped, StoresTyped
    <3> QED BY <1>0, <1>6, <2>1, <2>2, <3>2, <3>3 DEF Import!TypeOK
  <2>3. CASE UNCHANGED sync /\ stage' = "idle" /\ importToast' = "error"
    BY <1>3, <2>1, <2>3
  <2> QED BY <1>7, <2>2, <2>3 DEF Import!WriteSync
<1>8. ASSUME NEW key \in Import!OnDevice, NEW next \in {"devTools", "override"},
             Import!WriteFlag(key, next)
      PROVE  PlanInv'
  <2>1. /\ stage = key /\ stage' = next /\ UNCHANGED importToast
        /\ UNCHANGED <<sync, override, grants, toggling, file, toSave, checkbox, overlapped>>
        /\ \/ UNCHANGED deviceLocal
           \/ /\ toSave[key] # Import!Absent
              /\ deviceLocal' = [deviceLocal EXCEPT ![key] = toSave[key]]
    BY <1>8, Zenon DEF Import!WriteFlag
  <2>2. toSave[key] # Import!Absent => toSave[key] \in Import!Switch
    BY <1>0 DEF FileTyped, Import!Maybe, Import!Keys, Import!OnDevice
  <2>3. StoresTyped'
    BY <1>0, <2>1, <2>2 DEF StoresTyped
  <2>4. stage \notin {"idle", "gate"}
    BY <2>1 DEF Import!OnDevice
  <2> QED BY <1>0, <1>6, <2>1, <2>3, <2>4 DEF Import!TypeOK
<1>9. CASE Import!WriteOverride
  <2>1. /\ stage = "override"
        /\ UNCHANGED <<sync, deviceLocal, grants, toggling, file, toSave, checkbox,
                       overlapped>>
        /\ \/ override' = Import!Reconciled /\ stage' = "refresh" /\ UNCHANGED importToast
           \/ stage' = "idle" /\ importToast' = "error" /\ UNCHANGED override
    BY <1>9, Zenon DEF Import!WriteOverride
  <2>2. Import!Reconciled \in Import!Maybe
    BY <1>0 DEF Import!Reconciled, Import!TypeOK, FileTyped, Import!Keys, Import!Synced,
                Import!Gated
  <2>3. StoresTyped' /\ override' \in Import!Maybe
    BY <1>0, <2>1, <2>2 DEF StoresTyped, Import!TypeOK
  <2> QED BY <1>0, <1>6, <2>1, <2>3 DEF Import!TypeOK
<1>10. CASE Import!Refresh
  <2>1. /\ stage = "refresh" /\ stage' = "idle"
        /\ importToast' = IF Import!Skipped(file) THEN "skipped" ELSE "success"
        /\ checkbox' = Import!Effective["remote"]
        /\ UNCHANGED <<sync, deviceLocal, override, grants, toggling, file, toSave,
                       overlapped>>
    BY <1>10, Zenon DEF Import!Refresh, Import!store
  <2>2. Import!Effective["remote"] \in Import!Switch
    BY <1>0, EffectiveIs DEF Import!TypeOK, Import!Synced, Import!Gated, Import!Maybe
  <2>3. StoresTyped'
    BY <1>0, <2>1 DEF StoresTyped
  <2> QED BY <1>0, <1>6, <2>1, <2>2, <2>3 DEF Import!TypeOK
<1>11. ASSUME overlapped', UNCHANGED <<stage, file, toSave, importToast, checkbox>>,
              StoresTyped',
              \A key \in Import!Synced \ {"white"} : sync'[key] \in Import!Switch,
              override' \in Import!Maybe, toggling' \in Import!Maybe,
              grants' \subseteq Import!Gated
       PROVE  PlanInv'
  <2>1. Import!TypeOK'
    BY <1>0, <1>11 DEF Import!TypeOK, StoresTyped
  <2>2. (importToast = "success" => ~Import!Skipped(file))'
    BY <1>11 DEF PlanInv, Import!Skipped, Import!Migrated
  <2> QED BY <1>0, <1>11, <2>1, <2>2, FilesStay DEF PlanInv
<1>12. CASE Import!OthersWrite
  <2>1. /\ overlapped'
        /\ UNCHANGED <<stage, file, toSave, importToast, checkbox, deviceLocal, override,
                       grants, toggling>>
    BY <1>12, Zenon DEF Import!OthersWrite, Import!Overlap
  <2>2. \/ \E key \in Import!Synced \ {"white"}, value \in Import!Switch :
                sync' = [sync EXCEPT ![key] = value]
        \/ sync' = [sync EXCEPT !.white = <<>>]
    BY <1>12, Zenon DEF Import!OthersWrite
  <2>3. /\ sync' = [key \in Import!Synced |-> sync'[key]]
        /\ sync'.white \in {sync.white, <<>>}
        /\ \A key \in Import!Synced \ {"white"} : sync'[key] \in Import!Switch
    <3>1. "white" \in Import!Synced
      BY DEF Import!Synced
    <3> QED BY <1>0, <2>2, <3>1 DEF StoresTyped, Import!TypeOK
  <2>4. StoresTyped'
    <3>1. /\ sync'.white \in Seq(FileSites) /\ Len(sync'.white) <= ImportCap
          /\ deviceLocal' \in [Import!OnDevice -> Import!Switch]
      <4>1. <<>> \in Seq(FileSites) /\ Len(<<>>) = 0 /\ ImportCap \in Nat
        BY <1>0
      <4>2. /\ sync.white \in Seq(FileSites) /\ Len(sync.white) <= ImportCap
            /\ deviceLocal \in [Import!OnDevice -> Import!Switch]
        BY <1>0 DEF StoresTyped
      <4>3. CASE sync'.white = sync.white
        BY <2>1, <4>2, <4>3
      <4>4. CASE sync'.white = <<>>
        BY <2>1, <4>1, <4>2, <4>4
      <4> QED BY <2>3, <4>3, <4>4
    <3> QED BY <2>3, <3>1 DEF StoresTyped
  <2> QED BY <1>0, <1>11, <2>1, <2>3, <2>4 DEF Import!TypeOK
<1>13. ASSUME NEW value \in Import!Switch,
              Import!ToggleRemote(value) \/ Import!ToggleClick(value)
       PROVE  PlanInv'
  <2>1. /\ overlapped'
        /\ UNCHANGED <<stage, file, toSave, importToast, checkbox, deviceLocal, override>>
        /\ toggling' \in {toggling, value}
    BY <1>13, Zenon DEF Import!ToggleRemote, Import!ToggleClick, Import!Overlap
  <2>2. PICK key \in Import!Gated : /\ sync' = [sync EXCEPT ![key] = value]
                                   /\ grants' \in {grants, grants \cup {key}}
    BY <1>13 DEF Import!ToggleRemote, Import!ToggleClick, Import!Gated
  <2>3. /\ sync' = [k \in Import!Synced |-> sync'[k]] /\ sync'.white = sync.white
        /\ \A k \in Import!Synced \ {"white"} : sync'[k] \in Import!Switch
    <3>1. key # "white" /\ "white" \in Import!Synced
      BY DEF Import!Gated, Import!Synced
    <3> QED BY <1>0, <2>2, <3>1 DEF StoresTyped, Import!TypeOK
  <2>4. StoresTyped'
    <3>1. /\ sync'.white \in Seq(FileSites) /\ Len(sync'.white) <= ImportCap
          /\ deviceLocal' \in [Import!OnDevice -> Import!Switch]
      BY <1>0, <2>1, <2>3 DEF StoresTyped
    <3> QED BY <2>3, <3>1 DEF StoresTyped
  <2>5. toggling' \in Import!Maybe /\ override' \in Import!Maybe /\ grants' \subseteq Import!Gated
    BY <1>0, <2>1, <2>2 DEF Import!TypeOK, Import!Maybe
  <2> QED BY <1>11, <2>1, <2>3, <2>4, <2>5
<1>14. CASE Import!ToggleSettles
  <2>1. /\ overlapped' /\ toggling' = Import!Absent /\ override' = toggling
        /\ UNCHANGED <<stage, file, toSave, importToast, checkbox, sync, deviceLocal, grants>>
    BY <1>14, Zenon DEF Import!ToggleSettles
  <2>2. StoresTyped'
    BY <1>0, <2>1 DEF StoresTyped
  <2> QED BY <1>0, <1>11, <2>1, <2>2 DEF Import!TypeOK, Import!Maybe
<1>15. CASE Import!Revoke
  <2>1. /\ overlapped' /\ grants' \subseteq grants
        /\ UNCHANGED <<stage, file, toSave, importToast, checkbox, deviceLocal, sync,
                       override, toggling>>
    BY <1>15 DEF Import!Revoke, Import!Overlap
  <2>2. StoresTyped'
    BY <1>0, <2>1 DEF StoresTyped
  <2> QED BY <1>0, <1>11, <2>1, <2>2 DEF Import!TypeOK
<1>16. CASE UNCHANGED Import!vars
  <2>1. UNCHANGED <<sync, deviceLocal, override, grants, toggling, stage, file, toSave, importToast,
                    checkbox, overlapped>>
    BY <1>16 DEF Import!vars, Import!store
  <2>2. Import!TypeOK' /\ StoresTyped'
    BY <1>0, <2>1 DEF Import!TypeOK, StoresTyped
  <2> QED BY <2>1, <2>2, FilesStay, PlanStays DEF PlanInv, Applied
<1> QED
  BY <1>1, <1>2, <1>4, <1>5, <1>7, <1>8, <1>9, <1>10, <1>12, <1>13, <1>14, <1>15, <1>16
     DEF Import!Next, Import!OnDevice

LEMMA EffectiveStays ==
    UNCHANGED <<sync, deviceLocal, override>> => Import!Effective' = Import!Effective
  BY DEF Import!Effective

\* Nothing is written: the settings, the plan and what was shown stay as they are.
LEMMA CourseHolds ==
    ASSUME PlanInv, CourseInv, ~overlapped,
           UNCHANGED <<sync, deviceLocal, override>>,
           \/ before' = before /\ stage \in {"idle", "gate", "diff", "modal", "sync"} /\ ~Applied
           \/ before' = Import!Effective,
           stage' \in {"idle", "gate", "diff", "modal", "sync"},
           importToast' \notin {"success", "skipped"}
    PROVE  Course'
<1>1. Import!Effective' = Import!Effective
  BY EffectiveStays
<1>2. Written' = {} /\ ~Applied'
  BY DEF Written, Applied
<1>4. Course
  BY DEF CourseInv
<1>5. \A key \in Import!Keys : before'[key] = Import!Effective[key]
  <2>1. CASE before' = before
    <3>1. ASSUME stage \in {"idle", "gate", "diff", "modal", "sync"}, ~Applied
          PROVE  Import!Effective["remote"] = before.remote
      BY <1>4, <3>1 DEF Course
    <3>2. \A key \in Import!Keys \ {"remote"} : Written = {} => Import!Effective[key] = before[key]
      BY <1>4 DEF Course
    <3>3. CASE stage \in {"idle", "gate", "diff", "modal", "sync"} /\ ~Applied
      <4>1. Written = {}
        BY <3>3 DEF Written
      <4> QED BY <2>1, <3>1, <3>2, <3>3, <4>1
    <3>4. CASE before' = Import!Effective
      BY <3>4
    <3> QED BY <3>3, <3>4
  <2>2. CASE before' = Import!Effective
    BY <2>2
  <2> QED BY <2>1, <2>2
<1>6. "remote" \in Import!Keys
  BY DEF Import!Keys, Import!Synced, Import!Gated
<1>7. \A key \in Import!Keys : Import!Effective'[key] = before'[key]
  BY <1>1, <1>5
<1>8. stage' \notin {"devMode", "devTools", "override", "refresh"}
  OBVIOUS
<1> QED BY <1>2, <1>6, <1>7, <1>8, Zenon DEF Course

LEMMA CourseInit == Import!Init => CourseInv
<1> SUFFICES ASSUME Import!Init PROVE Course
  BY DEF CourseInv
<1>1. before = Import!Effective /\ stage = "idle" /\ importToast = "none"
  BY Zenon DEF Import!Init
<1>2. Written = {} /\ ~Applied
  BY <1>1 DEF Written, Applied
<1> QED BY <1>1, <1>2 DEF Course

\* Each write puts the plan's settings of its store in place and touches no other.
LEMMA CourseNext ==
    ASSUME ImportFaulty \cap {"local", "override"} = {},
           PlanInv, CourseInv, [Import!Next]_(Import!vars)
    PROVE  CourseInv'
<1> SUFFICES ASSUME ~overlapped' PROVE Course'
  BY DEF CourseInv
<1> USE DEF Import!Idle
<1>0. /\ stage # "idle" => importToast = "none"
      /\ FileTyped(toSave)
  BY DEF PlanInv
<1>1. ASSUME NEW f \in Import!Files \cup {Import!NoFile, Import!ExportPayload},
             Import!Choose(f)
      PROVE  Course'
  <2>1. /\ stage' \in {"idle", "gate"} /\ importToast' \in {"none", "error"}
        /\ before' = Import!Effective
        /\ UNCHANGED <<sync, deviceLocal, override>>
    BY <1>1 DEF Import!Choose, Import!store
  <2>2. Import!Effective' = Import!Effective
    BY <2>1, EffectiveStays
  <2>3. Written' = {} /\ ~Applied' /\ stage' \notin {"devMode", "devTools", "override", "refresh"}
    BY <2>1 DEF Written, Applied
  <2> QED BY <2>1, <2>2, <2>3, Zenon DEF Course
<1>2. CASE Import!Gate
  <2>1. /\ stage = "gate" /\ stage' = "diff"
        /\ UNCHANGED <<sync, deviceLocal, override, before, importToast, overlapped>>
    BY <1>2 DEF Import!Gate, Import!store
  <2> QED BY <1>0, <2>1, CourseHolds DEF Applied
<1>3. CASE Import!Diff
  <2>1. /\ stage = "diff" /\ stage' \in {"idle", "modal"} /\ before' = Import!Effective
        /\ importToast' \in {importToast, "no changes"}
        /\ UNCHANGED <<sync, deviceLocal, override, overlapped>>
    BY <1>3 DEF Import!Diff, Import!store
  <2> QED BY <1>0, <2>1, CourseHolds DEF Applied
<1>4. ASSUME NEW confirmed \in BOOLEAN, Import!Answer(confirmed) PROVE Course'
  <2>1. /\ stage = "modal" /\ stage' \in {"idle", "sync"}
        /\ importToast' \in {importToast, "cancelled"}
        /\ UNCHANGED <<sync, deviceLocal, override, overlapped, before>>
    BY <1>4 DEF Import!Answer, Import!store
  <2> QED BY <1>0, <2>1, CourseHolds DEF Applied
<1> DEFINE Listed3 == {"white", "plain", "click"}
<1>K. /\ Import!Keys \ {"remote"} = Listed3 \cup {"devMode", "devTools"}
      /\ Import!Synced = Listed3 \cup {"remote"} /\ Import!OnDevice = {"devMode", "devTools"}
  BY DEF Import!Keys, Import!Synced, Import!Gated, Import!OnDevice
<1>E. /\ \A key \in Listed3 : Import!Effective[key] = sync[key]
      /\ \A key \in {"devMode", "devTools"} : Import!Effective[key] = deviceLocal[key]
      /\ Import!Effective["remote"] = IF override = Import!Absent THEN sync.remote ELSE override
  BY EffectiveIs, <1>K
<1>F. /\ \A key \in Listed3 : Import!Effective'[key] = sync'[key]
      /\ \A key \in {"devMode", "devTools"} : Import!Effective'[key] = deviceLocal'[key]
      /\ Import!Effective'["remote"] = IF override' = Import!Absent THEN sync'.remote
                                       ELSE override'
  BY Zenon, <1>K DEF Import!Effective, Import!Keys
<1>C. ~overlapped => Course
  BY DEF CourseInv
<1>5. ASSUME stage # "idle", UNCHANGED <<toSave, before, overlapped>>
      PROVE  /\ ~Applied
             /\ \A key \in Import!Keys : Planned(key)' = Planned(key)
             /\ \A key \in Listed3 \cup {"devMode", "devTools"} :
                    Import!Effective[key] = IF key \in Written THEN Planned(key)
                                            ELSE before[key]
  <2>1. ~Applied
    BY <1>0, <1>5 DEF Applied
  <2>2. \A key \in Import!Keys : Planned(key)' = Planned(key)
    BY <1>5 DEF Planned, Import!Says
  <2>3. Course
    BY <1>5 DEF CourseInv
  <2> QED BY <2>1, <2>2, <2>3, <1>K DEF Course
<1>6. CASE Import!WriteSync
  <2>1. /\ stage = "sync" /\ UNCHANGED <<toSave, before, overlapped, deviceLocal, override>>
        /\ \/ /\ sync' = [key \in Import!Synced |->
                            IF Import!Says(toSave, key) THEN toSave[key] ELSE sync[key]]
              /\ stage' = "devMode" /\ UNCHANGED importToast
           \/ UNCHANGED sync /\ stage' = "idle" /\ importToast' = "error"
    BY <1>6, Zenon DEF Import!WriteSync
  <2>2. CASE UNCHANGED sync /\ stage' = "idle" /\ importToast' = "error"
    BY <1>0, <2>1, <2>2, CourseHolds DEF Applied
  <2>3. CASE /\ sync' = [key \in Import!Synced |->
                            IF Import!Says(toSave, key) THEN toSave[key] ELSE sync[key]]
             /\ stage' = "devMode" /\ UNCHANGED importToast
    <3>1. Written = {} /\ Written' = Listed3 /\ ~Applied' /\ ~Applied
      BY <1>0, <2>1, <2>3 DEF Written, Applied
    <3>2. \A key \in Import!Keys \ {"remote"} : Import!Effective[key] = before[key]
      BY <1>5, <1>K, <2>1, <3>1
    <3>3. ASSUME NEW key \in Listed3 PROVE Import!Effective'[key] = Planned(key)'
      <4>1. sync'[key] = IF Import!Says(toSave, key) THEN toSave[key] ELSE sync[key]
        BY <2>3, <1>K
      <4>2. sync[key] = before[key]
        BY <1>E, <1>K, <3>2
      <4>3. Planned(key)' = Planned(key)
        BY <1>5, <1>K, <2>1
      <4> QED BY <1>F, <4>1, <4>2, <4>3 DEF Planned
    <3>4. \A key \in {"devMode", "devTools"} : Import!Effective'[key] = before'[key]
      BY <1>E, <1>F, <1>K, <2>1, <3>2
    <3>5. sync'.remote = IF toSave.remote # Import!Absent THEN toSave.remote ELSE sync.remote
      BY <1>K, <2>3 DEF Import!Says
    <3>6. Import!Effective["remote"] = before.remote
      BY <1>C, <2>1, <3>1 DEF Course
    <3>7. toSave'.remote = Import!Absent => Import!Effective'["remote"] = before'.remote
      BY <1>E, <1>F, <2>1, <3>5, <3>6
    <3> QED BY <1>K, <2>1, <2>3, <3>1, <3>3, <3>4, <3>5, <3>7 DEF Course
  <2> QED BY <2>1, <2>2, <2>3
<1>7. ASSUME NEW key \in Import!OnDevice, NEW next,
             next = IF key = "devMode" THEN "devTools" ELSE "override",
             Import!WriteFlag(key, next)
      PROVE  Course'
  <2>1. /\ stage = key /\ stage' = next
        /\ UNCHANGED <<toSave, before, overlapped, sync, override, importToast>>
        /\ deviceLocal' = IF toSave[key] = Import!Absent THEN deviceLocal
                          ELSE [deviceLocal EXCEPT ![key] = toSave[key]]
    BY <1>7 DEF Import!WriteFlag, Import!Fails
  <2>2. /\ Written' = Written \cup {key} /\ key \notin Written /\ ~Applied /\ ~Applied'
    BY <1>0, <1>7, <1>K, <2>1 DEF Written, Applied
  <2>3. deviceLocal = [k \in Import!OnDevice |-> deviceLocal[k]]
    BY DEF PlanInv, StoresTyped
  <2>4. /\ deviceLocal'[key] = IF toSave[key] = Import!Absent THEN deviceLocal[key] ELSE toSave[key]
        /\ \A k \in Import!OnDevice \ {key} : deviceLocal'[k] = deviceLocal[k]
    BY <2>1, <2>3
  <2>5. key \in {"devMode", "devTools"} /\ key \in Import!Keys /\ key # "white" /\ stage # "idle"
    BY <1>K, <2>1 DEF Import!Keys
  <2>6. Import!Effective'[key] = Planned(key)'
    BY <1>5, <1>E, <1>F, <1>K, <2>1, <2>2, <2>4, <2>5 DEF Planned, Import!Says
  <2>7. ASSUME NEW k \in Listed3 \cup {"devMode", "devTools"}, k # key
        PROVE  Import!Effective'[k] = IF k \in Written' THEN Planned(k)' ELSE before'[k]
    <3>1. Import!Effective'[k] = Import!Effective[k]
      BY <1>E, <1>F, <1>K, <2>1, <2>4, <2>7
    <3>2. k \in Import!Keys
      BY <1>K
    <3> QED BY <1>5, <2>1, <2>2, <2>5, <2>7, <3>1, <3>2
  <2>8. Import!Effective'["remote"] = Import!Effective["remote"]
    BY <1>E, <1>F, <2>1
  <2>10. stage' \in {"devTools", "override"}
    BY <1>7, <2>1
  <2>9. IF toSave'.remote # Import!Absent THEN sync'.remote = toSave'.remote
        ELSE Import!Effective'["remote"] = before'.remote
    BY <1>C, <2>1, <2>2, <2>5, <2>8, <2>10 DEF Course
  <2> QED BY <1>K, <2>2, <2>6, <2>7, <2>9, <2>10 DEF Course
<1>8. CASE Import!WriteOverride
  <2>1. /\ stage = "override" /\ stage' = "refresh" /\ override' = Import!Reconciled
        /\ UNCHANGED <<toSave, before, overlapped, sync, deviceLocal, importToast>>
    BY <1>8 DEF Import!WriteOverride, Import!Fails
  <2>2. Written' = Written /\ ~Applied /\ ~Applied'
    BY <1>0, <2>1 DEF Written, Applied
  <2>3. Import!Effective'["remote"] = Planned("remote")'
    <3>1. toSave.remote # Import!Absent => sync.remote = toSave.remote
      BY <1>C, <2>1, <2>2 DEF Course
    <3>2. toSave.remote = Import!Absent => Import!Effective["remote"] = before.remote
      BY <1>C, <2>1, <2>2 DEF Course
    <3>3. Import!Says(toSave, "remote") <=> toSave.remote # Import!Absent
      BY DEF Import!Says
    <3>4. "remote" \in Import!Keys
      BY DEF Import!Keys, Import!Synced, Import!Gated
    <3> QED BY <1>5, <1>E, <1>F, <2>1, <3>1, <3>2, <3>3, <3>4 DEF Planned, Import!Reconciled
  <2>4. ASSUME NEW k \in Listed3 \cup {"devMode", "devTools"}
        PROVE  Import!Effective'[k] = IF k \in Written' THEN Planned(k)' ELSE before'[k]
    <3>1. Import!Effective'[k] = Import!Effective[k]
      BY <1>E, <1>F, <1>K, <2>1
    <3>2. k \in Import!Keys
      BY <1>K
    <3> QED BY <1>5, <2>1, <2>2, <3>1, <3>2
  <2> QED BY <1>K, <2>1, <2>2, <2>3, <2>4 DEF Course
<1>9. CASE Import!Refresh
  <2>1. /\ stage = "refresh" /\ stage' = "idle" /\ importToast' \in {"skipped", "success"}
        /\ checkbox' = Import!Effective["remote"]
        /\ UNCHANGED <<toSave, before, overlapped, sync, deviceLocal, override>>
    BY <1>9, SMT DEF Import!Refresh, Import!store
  <2>2. Written' = Written /\ ~Applied /\ Applied'
    BY <1>0, <2>1 DEF Written, Applied
  <2>3. Import!Effective' = Import!Effective
    BY <2>1, EffectiveStays
  <2>4. "remote" \in Import!Keys
    BY DEF Import!Keys, Import!Synced, Import!Gated
  <2>5. Import!Effective'["remote"] = Planned("remote")'
    BY <1>5, <1>C, <2>1, <2>3, <2>4 DEF Course
  <2>6. ASSUME NEW k \in Listed3 \cup {"devMode", "devTools"}
        PROVE  Import!Effective'[k] = IF k \in Written' THEN Planned(k)' ELSE before'[k]
    <3>1. k \in Import!Keys
      BY <1>K
    <3> QED BY <1>5, <2>1, <2>2, <2>3, <3>1
  <2>7. checkbox' = Import!Effective'["remote"]
    BY <2>1, <2>3
  <2> QED BY <1>K, <2>2, <2>5, <2>6, <2>7 DEF Course
<1>10. CASE UNCHANGED Import!vars
  <2>1. UNCHANGED <<sync, deviceLocal, override, grants, toggling, stage, file, toSave, importToast,
                    before, checkbox, overlapped>>
    BY <1>10 DEF Import!vars, Import!store
  <2>2. Import!Effective' = Import!Effective
    BY <2>1, EffectiveStays
  <2>3. Course
    BY <1>C, <2>1
  <2> QED BY <2>1, <2>2, <2>3 DEF Course, Written, Applied, Planned, Import!Says
<1>11. ~Import!OthersWrite /\ ~Import!ToggleSettles /\ ~Import!Revoke
       /\ \A value \in Import!Switch : ~Import!ToggleRemote(value) /\ ~Import!ToggleClick(value)
  BY Zenon DEF Import!OthersWrite, Import!ToggleSettles, Import!Revoke, Import!ToggleRemote,
               Import!ToggleClick, Import!Overlap
<1>12. Import!WriteFlag("devMode", "devTools") \/ Import!WriteFlag("devTools", "override") => Course'
  <2>1. "devMode" \in Import!OnDevice /\ "devTools" \in Import!OnDevice
    BY <1>K
  <2>2. /\ "devTools" = IF "devMode" = "devMode" THEN "devTools" ELSE "override"
        /\ "override" = IF "devTools" = "devMode" THEN "devTools" ELSE "override"
    OBVIOUS
  <2>3. ASSUME Import!WriteFlag("devMode", "devTools") PROVE Course'
    BY <1>7, <2>1, <2>2, <2>3, Zenon
  <2>4. ASSUME Import!WriteFlag("devTools", "override") PROVE Course'
    BY <1>7, <2>1, <2>2, <2>4, Zenon
  <2> QED BY <2>3, <2>4
<1> QED
  BY <1>1, <1>2, <1>3, <1>4, <1>6, <1>8, <1>9, <1>10, <1>11, <1>12, Zenon DEF Import!Next

LEMMA ImportRuns == RunSpec => Import!Init /\ [][Import!Next]_(Import!vars)
<1>1. RunInit => Import!Init
  BY DEF RunInit
<1>2. [RunNext]_allVars => [Import!Next]_(Import!vars)
  BY DEF RunNext, allVars, importVars, Import!vars, Import!store, Import!bounds
<1> QED BY <1>1, <1>2, PTL DEF RunSpec

LEMMA PlansAreKept == RunSpec => []PlanInv
  BY PlanInit, PlanNext, ImportRuns, PTL

\* An import by itself does what its list of changes said, or nothing.
LEMMA CourseShows == PlanInv /\ CourseInv => Import!AppliedAsShown
<1> SUFFICES ASSUME PlanInv, CourseInv, stage = "idle", ~overlapped
             PROVE  IF importToast \in {"success", "skipped"}
                    THEN /\ Import!SameSettings(Import!Effective,
                              [key \in Import!Keys |->
                                IF key \in Import!Rows(before, toSave) THEN toSave[key]
                                ELSE before[key]])
                         /\ checkbox = Import!Effective.remote
                    ELSE Import!SameSettings(Import!Effective, before)
  BY Zenon DEF Import!AppliedAsShown
<1>1. Course /\ "remote" \in Import!Keys
  BY DEF CourseInv, Import!Keys, Import!Synced, Import!Gated
<1>2. CASE Applied
  <2>1. \A key \in Import!Keys : Import!Effective[key] = Planned(key)
    <3>1. Written = Import!Keys \ {"remote"}
      BY <1>2 DEF Written
    <3> QED BY <1>1, <1>2, <3>1 DEF Course
  <2> DEFINE Shown == [key \in Import!Keys |->
                            IF key \in Import!Rows(before, toSave) THEN toSave[key]
                            ELSE before[key]]
  <2>2. ASSUME NEW key \in Import!Keys
        PROVE  Import!Same(key, Import!Effective[key], Shown[key])
    <3>1. /\ Shown[key] = IF key \in Import!Rows(before, toSave) THEN toSave[key] ELSE before[key]
          /\ Import!Effective[key] = Planned(key)
      BY <2>1
    <3>2. CASE key \in Import!Rows(before, toSave)
      BY <3>1, <3>2 DEF Planned, Import!Rows, Import!Same
    <3>3. CASE ~Import!Says(toSave, key)
      BY <3>1, <3>3 DEF Planned, Import!Rows, Import!Same
    <3>4. CASE Import!Says(toSave, key) /\ Import!Same(key, before[key], toSave[key])
      <4>1. key \notin Import!Rows(before, toSave)
        BY <3>4 DEF Import!Rows
      <4> QED BY <3>1, <3>4, <4>1 DEF Planned, Import!Same
    <3> QED BY <3>2, <3>3, <3>4 DEF Import!Rows
  <2>3. checkbox = Import!Effective.remote
    BY <1>1, <1>2 DEF Course
  <2> QED BY <1>2, <2>2, <2>3 DEF Applied, Import!SameSettings
<1>3. CASE ~Applied
  <2>1. Written = {} /\ stage \notin {"refresh", "devMode", "devTools", "override"}
    BY <1>3 DEF Written
  <2>2. \A key \in Import!Keys : Import!Effective[key] = before[key]
    BY <1>1, <1>3, <2>1 DEF Course
  <2> QED BY <1>3, <2>2 DEF Applied, Import!SameSettings, Import!Same
<1> QED BY <1>2, <1>3

\* The settings just exported are the settings there are.
LEMMA CourseIsQuiet == PlanInv /\ CourseInv => Import!RoundTripIsQuiet
<1> SUFFICES ASSUME PlanInv, CourseInv, stage = "modal", ~overlapped,
                    file = Import!ExportPayload,
                    NEW key \in Import!Rows(before, toSave)
             PROVE  /\ key \in Import!Gated
                    /\ key \notin grants \/ (key = "remote" /\ override # Import!Absent)
  BY DEF Import!RoundTripIsQuiet
<1>1. /\ toSave = Import!Plan(file) /\ FileTyped(file) /\ StoresTyped /\ Import!TypeOK
      /\ importToast = "none"
  BY DEF PlanInv
<1>2. \A k \in Import!Keys : before[k] = Import!Effective[k]
  <2>1. ~Applied /\ Written = {}
    BY <1>1 DEF Applied, Written
  <2> QED BY <2>1 DEF CourseInv, Course
<1>3. /\ file.white = sync.white /\ file.disabled = {} /\ file.plain = sync.plain
      /\ file.click = sync.click /\ file.remote = sync.remote
      /\ file.devMode = deviceLocal.devMode /\ file.devTools = deviceLocal.devTools
  BY DEF Import!ExportPayload
<1>4. /\ Import!Effective.white = sync.white /\ Import!Effective.plain = sync.plain
      /\ Import!Effective.click = sync.click
      /\ Import!Effective.remote = IF override = Import!Absent THEN sync.remote ELSE override
      /\ Import!Effective.devMode = deviceLocal.devMode
      /\ Import!Effective.devTools = deviceLocal.devTools
  BY EffectiveIs DEF Import!Synced, Import!OnDevice, Import!Gated
<1>5. key \in Import!Keys /\ ~Import!Same(key, before[key], toSave[key])
  BY DEF Import!Rows
<1>6. key # "white"
  <2>1. Import!Migrated(file) = sync.white
    <3>1. Import!Migrated(file) = file.white \o Import!SetToSeq({})
      BY <1>3 DEF Import!Migrated
    <3>2. Import!SetToSeq({}) = <<>>
      <4>1. Listed!IsFiniteSet({}) /\ IsFiniteSet({})
        BY FS_EmptySet DEF Listed!IsFiniteSet, IsFiniteSet
      <4>2. Listed!SetToSeq({}) \in Seq({})
        BY <4>1, Listed!SeqOfSet
      <4>3. \A S : Listed!Cardinality(S) = Import!Cardinality(S)
        BY DEF Listed!Cardinality, Import!Cardinality
      <4>4. Listed!SetToSeq({}) = Import!SetToSeq({})
        BY <4>3, Zenon DEF Listed!SetToSeq, Import!SetToSeq, Listed!IsInjective,
                           Import!IsInjective
      <4> DEFINE s == Import!SetToSeq({})
      <4>5. s \in Seq({})
        BY <4>2, <4>4
      <4> HIDE DEF s
      <4>6. s = <<>>
        BY <4>5
      <4> QED BY <4>6 DEF s
    <3>3. sync.white \in Seq(FileSites)
      BY <1>1 DEF StoresTyped
    <3>4. sync.white \o <<>> = sync.white
      BY <3>3
    <3> QED BY <1>3, <3>1, <3>2, <3>4
  <2>2. Import!Capped(file) = sync.white
    BY <1>1, <2>1, BoundsAssumption DEF Import!Capped, Import!Skipped, StoresTyped
  <2>3. toSave.white = sync.white
    BY <1>1, <2>2, PlanIs
  <2>4. "white" \in Import!Keys
    BY DEF Import!Keys, Import!Synced
  <2>5. before.white = sync.white
    BY <1>2, <1>4, <2>4
  <2> QED BY <1>5, <2>3, <2>5 DEF Import!Same
<1>7. before[key] # toSave[key]
  BY <1>5, <1>6 DEF Import!Same
<1>8. key \in Import!Gated
  <2>1. toSave[key] = file[key] \/ key \in Import!Gated
    BY <1>1, <1>5, <1>6, PlanIs
  <2>2. key \in {"plain", "devMode", "devTools"} \cup Import!Gated
    BY <1>5, <1>6 DEF Import!Keys, Import!Synced, Import!OnDevice
  <2> QED BY <1>2, <1>3, <1>4, <1>5, <1>7, <2>1, <2>2
<1>9. key \in grants => key = "remote" /\ override # Import!Absent
  <2> SUFFICES ASSUME key \in grants PROVE key = "remote" /\ override # Import!Absent
    OBVIOUS
  <2>1. toSave[key] = file[key]
    BY <1>1, <1>8, PlanIs DEF Import!Landing
  <2>2. key \in {"click", "remote"}
    BY <1>8 DEF Import!Gated
  <2> QED BY <1>2, <1>3, <1>4, <1>5, <1>7, <2>1, <2>2
<1> QED BY <1>8, <1>9

\* What was switched off stays off, once it all fits.
LEMMA CourseExempts == PlanInv /\ CourseInv => Import!ExemptionsSurvive
<1> SUFFICES ASSUME PlanInv, CourseInv, stage = "idle", ~overlapped, importToast = "success"
             PROVE  file.disabled \subseteq Import!ToSet(sync.white)
  BY DEF Import!ExemptionsSurvive
<1>1. /\ Applied /\ toSave = Import!Plan(file) /\ FileTyped(file) /\ ~Import!Skipped(file)
  BY DEF PlanInv, Applied
<1>2. "white" \in Import!Keys \ {"remote"} /\ "white" \in Import!Synced \ {"remote"}
  BY DEF Import!Keys, Import!Synced
<1>3. Import!Effective["white"] = Planned("white")
  BY <1>1, <1>2 DEF CourseInv, Course, Written
<1>4. sync.white = toSave.white
  BY <1>2, <1>3, EffectiveIs DEF Planned, Import!Says
<1>5. sync.white = Import!Migrated(file)
  BY <1>1, <1>4, PlanIs DEF Import!Capped
<1> QED BY <1>1, <1>5, MigratedIs

\* An import does what it showed or nothing, one's own export shows no change, and no
\* site switched off in an old backup is switched on in silence, whatever the file says
\* and whoever writes before and after (planImport, diffImport, the handler of
\* #import-file), as long as the writes of the device's own stores do not fail:
\* ImportHalfDone.cfg shows what a failure of theirs leaves.
THEOREM ImportsAreHonest ==
    ASSUME ImportFaulty \cap {"local", "override"} = {} PROVE RunSpec => []ImportHonest
<1>1. PlanInv /\ CourseInv /\ [Import!Next]_(Import!vars) => CourseInv'
  BY CourseNext
<1>2. RunSpec => []CourseInv
  BY <1>1, CourseInit, ImportRuns, PlansAreKept, PTL
<1>3. PlanInv /\ CourseInv => ImportHonest
  BY CourseShows, CourseIsQuiet, CourseExempts DEF ImportHonest
<1> QED BY <1>2, <1>3, PlansAreKept, PTL

\* A file turns nothing on whose permission is not held, whichever writes fail
\* (hasShortenerPermissions, hasRemoteRulesPermission).
THEOREM GrantsAreHeld == RunSpec => GrantsRespected
<1>1. PlanInv /\ [RunNext]_allVars => [focus = "import" => Import!GrantIsHeld]_importVars
  <2> SUFFICES ASSUME PlanInv, [Import!Next]_(Import!vars),
                      NEW key \in Import!Gated, stage = "sync", sync[key] # "on",
                      sync'[key] = "on", stage' # "sync", ~overlapped
               PROVE  key \in grants
    <3>1. [RunNext]_allVars => [Import!Next]_(Import!vars)
      BY DEF RunNext, allVars, importVars, Import!vars, Import!store, Import!bounds
    <3> QED BY <3>1, Zenon DEF Import!GrantIsHeld
  <2>1. Import!WriteSync
    <3>1. ~UNCHANGED Import!vars
      BY DEF Import!vars
    <3>2. /\ ~Import!Gate /\ ~Import!Diff /\ ~Import!WriteOverride /\ ~Import!Refresh
          /\ \A f : ~Import!Choose(f)
          /\ \A c : ~Import!Answer(c)
          /\ ~Import!WriteFlag("devMode", "devTools")
          /\ ~Import!WriteFlag("devTools", "override")
      BY DEF Import!Gate, Import!Diff, Import!WriteOverride, Import!Refresh, Import!Choose,
             Import!Answer, Import!WriteFlag
    <3>3. /\ ~Import!OthersWrite /\ ~Import!ToggleSettles /\ ~Import!Revoke
          /\ \A value : ~Import!ToggleRemote(value) /\ ~Import!ToggleClick(value)
      BY DEF Import!OthersWrite, Import!ToggleSettles, Import!Revoke, Import!ToggleRemote,
             Import!ToggleClick, Import!Overlap
    <3> QED BY <3>1, <3>2, <3>3, Zenon DEF Import!Next
  <2>2. toSave[key] = "on"
    BY <2>1 DEF Import!WriteSync, Import!Idle, Import!Synced
  <2>3. toSave = Import!Plan(file) /\ FileTyped(file)
    BY DEF PlanInv
  <2>4. Import!Landing(file, key) = "on"
    BY <2>2, <2>3, PlanIs
  <2> QED BY <2>4 DEF Import!Landing
<1> QED BY <1>1, PlansAreKept, PTL DEF RunSpec, GrantsRespected

-----------------------------------------------------------------------------
(* The types.                                                              *)

LEMMA PrefsTyped == RunSpec => []TypeOK
<1>1. RunInit => Init
  BY DEF RunInit
<1>2. [RunNext]_allVars => [Next]_vars
  BY DEF RunNext, allVars
<1> QED BY <1>1, <1>2, PrefsTypeCorrect, PTL DEF RunSpec, Spec

LEMMA ListsTyped == RunSpec => []Lists!TypeOK
<1>1. Listed!TypeOK => Lists!TypeOK
  BY DEF Listed!TypeOK, Lists!TypeOK, Listed!IsInjective, Lists!IsInjective,
         Listed!TaskType, Lists!TaskType, Listed!Edit, Lists!Edit
<1>2. Listed!Spec => []Listed!TypeOK
  BY Listed!TypeCorrect
<1> QED BY <1>1, <1>2, ListsRuns, PTL

LEMMA LoaderTyped == RunSpec => []Loader!TypeOK
<1>1. RunInit => LoaderInv
  BY LoaderInit DEF RunInit
<1>2. [RunNext]_allVars => [Loader!Next]_Loader!vars
  BY DEF RunNext, allVars, loaderVars, Loader!vars
<1>3. LoaderInv => Loader!TypeOK
  BY DEF LoaderInv
<1> QED BY <1>1, <1>2, <1>3, LoaderNext, PTL DEF RunSpec

LEMMA ClicksTyped == RunSpec => []Clicks!TypeOK
<1>1. RunInit => ClicksInv
  BY ClicksInit DEF RunInit
<1>2. [RunNext]_allVars => [Clicks!Next]_Clicks!vars
  BY DEF RunNext, allVars, clicksVars, Clicks!vars
<1>3. ClicksInv => Clicks!TypeOK
  BY DEF ClicksInv
<1> QED BY <1>1, <1>2, <1>3, ClicksNext, PTL DEF RunSpec

LEMMA ConsentTyped == RunSpec => []Consent!TypeOK
<1>1. Agreed!TypeOK => Consent!TypeOK
  BY DEF Agreed!TypeOK, Consent!TypeOK, Agreed!Record, Consent!Record, Agreed!Nothing,
         Consent!Nothing, Agreed!Old, Consent!Old, Agreed!Current, Consent!Current
<1>2. Agreed!Spec => []Agreed!TypeOK
  BY Agreed!TypeCorrect
<1> QED BY <1>1, <1>2, ConsentRuns, PTL

\* What every component of the background context holds is of its type, for lists,
\* counts and restarts without bound; no site's entry is empty, nor are there more
\* sites than the cap, however many flushes overlap (_flushDomainStats).
THEOREM WorkerTypesHold == RunSpec => []StateTyped
<1>1. PlanInv => Import!TypeOK
  BY DEF PlanInv
<1>2. /\ TypeOK /\ Lists!TypeOK /\ Counters!TypeOK /\ Ledger!TypeOK /\ Session!TypeOK
      /\ Loader!TypeOK /\ Clicks!TypeOK /\ Consent!TypeOK /\ Sites!TypeOK /\ PlanInv
      => StateTyped
  BY <1>1 DEF StateTyped
<1> QED
  BY <1>2, PrefsTyped, ListsTyped, StatsAreTyped, LedgerTyped, SessionTyped, LoaderTyped,
     ClicksTyped, ConsentTyped, SitesAreTyped, PlansAreKept, PTL
=============================================================================
