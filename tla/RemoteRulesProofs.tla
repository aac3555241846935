-------------------------- MODULE RemoteRulesProofs --------------------------
(***************************************************************************)
(* Proofs about RemoteRules.                                               *)
(*   NeverRollsBack: a payload that passes the rollback check stays above  *)
(*   the version floor until it is merged, because nothing but a merge     *)
(*   moves the floor and only one fetch is in flight.                      *)
(*   ClosedIsQuiet: a closed gate is known to the pass that closes it and  *)
(*   to the fetch, whose writes come before those of that pass in the queue*)
(*   of declarativeNetRequest calls.                                       *)
(*   CalmStoresAgree: undisturbed, a merge leaves rules, parameters and    *)
(*   metadata of one version.                                              *)
(***************************************************************************)
EXTENDS RemoteRules, TLAPS

-----------------------------------------------------------------------------
(* The records and the queue stay in their types.                          *)

FetchPc == {"idle", "fetching", "validating", "refreshing", "gating", "global",
            "scoped", "persisting", "errorReading", "errorWriting"}

ApplyPc == {"idle", "reading", "leading", "readingCache", "scoped", "global",
            "tearing", "verifying"}

Callers == {"fetch", "disable", "apply"}

LEMMA VersionIsNat == Version \subseteq Nat /\ 0 \in Version
  BY ConstantsAssumption DEF Version

LEMMA NoMetaType == NoMeta \in Meta
  BY VersionIsNat DEF NoMeta, Meta

LEMMA FetchTypes ==
  ASSUME NEW f \in Fetch
  PROVE  /\ NoFetch \in Fetch
         /\ f.payload \in Version /\ f.metaRead \in Meta
         /\ \A pc \in FetchPc : /\ [f EXCEPT !.pc = pc] \in Fetch
                              /\ \A v \in Version : [f EXCEPT !.pc = pc, !.payload = v] \in Fetch
                              /\ \A m \in Meta : [f EXCEPT !.pc = pc, !.metaRead = m] \in Fetch
  BY NoMetaType, VersionIsNat DEF Fetch, FetchPc, NoFetch

LEMMA ApplyTypes ==
  ASSUME NEW a \in Apply
  PROVE  /\ NoApply \in Apply
         /\ a.step \in 0..LeadCalls /\ a.read \in Version /\ a.facts \in Version
         /\ \A pc \in ApplyPc : /\ [a EXCEPT !.pc = pc] \in Apply
                              /\ \A v, w \in Version :
                                   [a EXCEPT !.pc = pc, !.read = v, !.facts = w] \in Apply
                              /\ [a EXCEPT !.pc = pc, !.step = 0, !.attempt = 2] \in Apply
         /\ \A i \in 0..LeadCalls : [a EXCEPT !.step = i] \in Apply
<1>1. NoApply \in Apply
  BY ConstantsAssumption, VersionIsNat DEF Apply, NoApply
<1>2. a.step \in 0..LeadCalls /\ a.read \in Version /\ a.facts \in Version
  BY DEF Apply
<1>3. ASSUME NEW pc \in ApplyPc
      PROVE  [a EXCEPT !.pc = pc] \in Apply
  BY DEF Apply, ApplyPc
<1>4. ASSUME NEW pc \in ApplyPc, NEW v \in Version, NEW w \in Version
      PROVE  [a EXCEPT !.pc = pc, !.read = v, !.facts = w] \in Apply
  BY DEF Apply, ApplyPc
<1>5. ASSUME NEW pc \in ApplyPc
      PROVE  [a EXCEPT !.pc = pc, !.step = 0, !.attempt = 2] \in Apply
  <2>1. 0 \in 0..LeadCalls /\ 2 \in 0..2
    BY ConstantsAssumption
  <2> QED
    BY <2>1 DEF Apply, ApplyPc
<1>6. ASSUME NEW i \in 0..LeadCalls
      PROVE  [a EXCEPT !.step = i] \in Apply
  BY DEF Apply
<1> QED
  BY <1>1, <1>2, <1>3, <1>4, <1>5, <1>6

LEMMA MetaTypes ==
  ASSUME NEW m \in Meta
  PROVE  /\ m.version \in Nat /\ m.version \in Version
         /\ \A b \in BOOLEAN : [m EXCEPT !.fresh = b] \in Meta
         /\ \A b \in BOOLEAN : [m EXCEPT !.error = b] \in Meta
         /\ [m EXCEPT !.fresh = TRUE, !.error = FALSE] \in Meta
  BY VersionIsNat DEF Meta

LEMMA QueueTypes ==
  ASSUME NEW q \in Seq(Callers), NEW c \in Callers
  PROVE  /\ <<>> \in Seq(Callers)
         /\ Append(q, c) \in Seq(Callers)
         /\ q # <<>> => Tail(q) \in Seq(Callers) /\ Append(Tail(q), c) \in Seq(Callers)
  OBVIOUS

-----------------------------------------------------------------------------
(* Type correctness.                                                       *)

LEMMA TypeInit == Init => TypeOK
<1> SUFFICES ASSUME Init PROVE TypeOK
  OBVIOUS
<1>1. NoFetch \in Fetch /\ NoApply \in Apply
  BY NoMetaType, VersionIsNat, ConstantsAssumption DEF NoFetch, Fetch, NoApply, Apply
<1>2. checked \in BOOLEAN /\ disturbed \in BOOLEAN
  BY Zenon DEF Init
<1>3. /\ prefs \in Prefs /\ cachedPrefs = NoPrefs /\ meta \in Meta
      /\ fetch = NoFetch /\ apply = NoApply /\ disabling = "idle"
  BY Zenon, NoMetaType DEF Init, Prefs
<1>4. /\ published \in Version /\ params \in Version /\ floor \in Version
      /\ global \in Version /\ scoped \in Version
  BY VersionIsNat, Zenon DEF Init
<1>5. /\ changes \in Nat /\ faults \in Nat /\ toggles \in Nat /\ fetches \in Nat
      /\ restarts \in Nat /\ dnrQueue \in Seq({"fetch", "disable", "apply"})
  BY DEF Init
<1> QED
  BY <1>1, <1>2, <1>3, <1>4, <1>5 DEF TypeOK

\* What has been disturbed stays so.
LEMMA DisturbedKept ==
  ASSUME disturbed \in BOOLEAN, [Next]_vars
  PROVE  disturbed' \in BOOLEAN /\ (disturbed => disturbed')
<1>1. CASE UNCHANGED disturbed
  BY <1>1, Zenon
<1>2. CASE disturbed' = (disturbed \/ InFlight)
  BY <1>2, Zenon
<1>3. CASE disturbed' = (disturbed \/ apply.pc # "idle" \/ disabling # "idle")
  BY <1>3, Zenon
<1>4. CASE disturbed' = TRUE
  BY <1>4, Zenon
<1>5. CASE Publish \/ WeekPasses \/ BrowserRestarts \/ Evict \/ DisableStep \/ UNCHANGED vars
  BY <1>1, <1>5, Zenon DEF Publish, WeekPasses, BrowserRestarts, Evict, DisableStep, RemoveCache,
     RemoveRules, vars
<1>6. CASE ToggleGate \/ Disable
  BY <1>2, <1>6, Zenon DEF ToggleGate, Disable
<1>7. CASE Enable \/ WakeCheck \/ ForceFetch
  BY <1>1, <1>3, <1>4, <1>7, Zenon DEF Enable, WakeCheck, ForceFetch, StartFetch
<1>8. CASE FetchStep
  BY <1>1, <1>4, <1>8, Zenon DEF FetchStep, Answer, Validate, Refresh, Gate, WriteGlobal,
     WriteScoped, Persist, ReadForError, WriteError, StorageFails
<1>9. CASE ApplyStep
  BY <1>1, <1>2, <1>9, Zenon DEF ApplyStep, HearChange, ReadPrefs, ServeLeadingCall, ReadCache,
     ReconcileScoped, TearDown, Verify, ReconcileGlobal
<1> QED
  BY <1>5, <1>6, <1>7, <1>8, <1>9, Zenon DEF Next

\* Every step preserves the types.
LEMMA TypeStep == TypeOK /\ [Next]_vars => TypeOK'
<1> SUFFICES ASSUME TypeOK, [Next]_vars PROVE TypeOK'
  OBVIOUS
<1>0. disturbed' \in BOOLEAN
  BY DisturbedKept, Zenon DEF TypeOK
<1> USE <1>0, VersionIsNat DEF TypeOK, stores, bounds
<1>1. CASE Publish
  BY <1>1, ConstantsAssumption DEF Publish, Version
<1>2. CASE WeekPasses
  BY <1>2, MetaTypes DEF WeekPasses
<1>3. CASE BrowserRestarts
  <2>1. UNCHANGED <<prefs, published, params, meta, floor, global, scoped, faults, toggles, fetches>>
    BY <1>3, Zenon DEF BrowserRestarts, stores, bounds, Fails, StartFetch
  <2>2. restarts' \in Nat
    BY <1>3 DEF BrowserRestarts
  <2>3. cachedPrefs' \in Prefs \cup {NoPrefs}
    BY <1>3 DEF BrowserRestarts
  <2>4. changes' \in Nat
    BY <1>3 DEF BrowserRestarts
  <2>5. checked' \in BOOLEAN
    BY <1>3, Zenon DEF BrowserRestarts
  <2>6. fetch' \in Fetch
    BY <1>3, FetchTypes DEF BrowserRestarts
  <2>7. disabling' \in {"idle", "removing", "clearing"}
    BY <1>3 DEF BrowserRestarts
  <2>8. apply' \in Apply
    BY <1>3, ApplyTypes DEF BrowserRestarts
  <2>9. dnrQueue' \in Seq(Callers)
    BY <1>3, QueueTypes DEF BrowserRestarts, Callers
  <2> QED
    BY <2>1, <2>2, <2>3, <2>4, <2>5, <2>6, <2>7, <2>8, <2>9 DEF Callers
<1>4. CASE Evict
  <2>1. UNCHANGED <<prefs, changes, published, params, meta, floor, global, scoped, fetch, disabling, apply, dnrQueue, faults, toggles, fetches>>
    BY <1>4, Zenon DEF Evict, stores, bounds, Fails, StartFetch
  <2>2. restarts' \in Nat
    BY <1>4 DEF Evict
  <2>3. cachedPrefs' \in Prefs \cup {NoPrefs}
    BY <1>4 DEF Evict
  <2>4. checked' \in BOOLEAN
    BY <1>4, Zenon DEF Evict
  <2> QED
    BY <2>1, <2>2, <2>3, <2>4 DEF Callers
<1>5. CASE ToggleGate
  <2>1. UNCHANGED <<cachedPrefs, published, params, meta, floor, global, scoped, checked, fetch, disabling, apply, dnrQueue, faults, fetches, restarts>>
    BY <1>5, Zenon DEF ToggleGate, stores, bounds, Fails, StartFetch
  <2>2. toggles' \in Nat
    BY <1>5 DEF ToggleGate
  <2>3. prefs' \in Prefs
    BY <1>5 DEF ToggleGate, Prefs
  <2>4. changes' \in Nat
    BY <1>5 DEF ToggleGate
  <2> QED
    BY <2>1, <2>2, <2>3, <2>4 DEF Callers
<1>6. CASE Enable
  <2>1. UNCHANGED <<published, params, meta, floor, global, scoped, checked, disabling, apply, dnrQueue, faults, restarts>>
    BY <1>6, Zenon DEF Enable, stores, bounds, Fails, StartFetch
  <2>2. toggles' \in Nat
    BY <1>6 DEF Enable
  <2>3. prefs' \in Prefs
    BY <1>6 DEF Enable, Prefs
  <2>4. changes' \in Nat
    BY <1>6 DEF Enable
  <2>5. cachedPrefs' \in Prefs \cup {NoPrefs}
    BY <1>6 DEF Enable
  <2>6. fetch' \in Fetch
    <3>1. fetch' = fetch \/ fetch' = [NoFetch EXCEPT !.pc = "fetching"]
      BY <1>6, Zenon DEF Enable, StartFetch
    <3>2. [NoFetch EXCEPT !.pc = "fetching"] \in Fetch
      BY FetchTypes DEF FetchPc
    <3> QED
      BY <3>1, <3>2, Zenon
  <2>7. fetches' \in Nat
    BY <1>6 DEF Enable, StartFetch
  <2> QED
    BY <2>1, <2>2, <2>3, <2>4, <2>5, <2>6, <2>7 DEF Callers
<1>7. CASE Disable
  <2>1. UNCHANGED <<published, params, meta, floor, global, scoped, checked, fetch, apply, dnrQueue, faults, fetches, restarts>>
    BY <1>7, Zenon DEF Disable, stores, bounds, Fails, StartFetch
  <2>2. toggles' \in Nat
    BY <1>7 DEF Disable
  <2>3. prefs' \in Prefs
    BY <1>7 DEF Disable, Prefs
  <2>4. changes' \in Nat
    BY <1>7 DEF Disable
  <2>5. cachedPrefs' \in Prefs \cup {NoPrefs}
    BY <1>7 DEF Disable
  <2>6. disabling' \in {"idle", "removing", "clearing"}
    BY <1>7 DEF Disable
  <2> QED
    BY <2>1, <2>2, <2>3, <2>4, <2>5, <2>6 DEF Callers
<1>8. CASE RemoveCache
  BY <1>8, NoMetaType, QueueTypes DEF RemoveCache, ClearStorage, Callers
<1>9. CASE RemoveRules
  BY <1>9, QueueTypes DEF RemoveRules, Callers
<1>10. CASE WakeCheck
  <2>1. UNCHANGED <<prefs, cachedPrefs, changes, published, params, meta, floor, global, scoped, disabling, apply, dnrQueue, faults, toggles, restarts>>
    BY <1>10, Zenon DEF WakeCheck, stores, bounds, Fails, StartFetch
  <2>2. checked' \in BOOLEAN
    BY <1>10, Zenon DEF WakeCheck
  <2>3. fetch' \in Fetch
    <3>1. fetch' = fetch \/ fetch' = [NoFetch EXCEPT !.pc = "fetching"]
      BY <1>10, Zenon DEF WakeCheck, StartFetch
    <3>2. [NoFetch EXCEPT !.pc = "fetching"] \in Fetch
      BY FetchTypes DEF FetchPc
    <3> QED
      BY <3>1, <3>2
  <2>4. fetches' \in Nat
    BY <1>10, SMTT(30) DEF WakeCheck, StartFetch
  <2> QED
    BY <2>1, <2>2, <2>3, <2>4 DEF Callers
<1>11. CASE ForceFetch
  <2>1. UNCHANGED <<prefs, cachedPrefs, changes, published, params, meta, floor, global, scoped, checked, disabling, apply, dnrQueue, faults, toggles, restarts>>
    BY <1>11, Zenon DEF ForceFetch, stores, bounds, Fails, StartFetch
  <2>2. fetch' \in Fetch
    BY <1>11, FetchTypes DEF ForceFetch, StartFetch, FetchPc
  <2>3. fetches' \in Nat
    BY <1>11 DEF ForceFetch, StartFetch
  <2> QED
    BY <2>1, <2>2, <2>3 DEF Callers
<1>12. CASE Answer
  <2>1. UNCHANGED <<prefs, cachedPrefs, changes, published, params, meta, floor, global, scoped, checked, disabling, apply, dnrQueue, faults, toggles, fetches, restarts>>
    BY <1>12, Zenon DEF Answer, stores, bounds, Fails, StartFetch
  <2>2. fetch' \in Fetch
    <3>1. 1..published \subseteq Version
      BY ConstantsAssumption, SMTT(30) DEF Version
    <3>2. \/ \E v \in 1..published :
                fetch' = [fetch EXCEPT !.pc = "validating", !.payload = v]
          \/ fetch' = [fetch EXCEPT !.pc = "errorReading"]
      BY <1>12, Zenon DEF Answer, FetchAt
    <3>3. /\ \A v \in Version : [fetch EXCEPT !.pc = "validating", !.payload = v] \in Fetch
          /\ [fetch EXCEPT !.pc = "errorReading"] \in Fetch
      BY FetchTypes DEF FetchPc
    <3> QED
      BY <3>1, <3>2, <3>3
  <2> QED
    BY <2>1, <2>2 DEF Callers
<1>13. CASE Validate
  <2>1. UNCHANGED <<prefs, cachedPrefs, changes, published, params, meta, floor, global, scoped, checked, disabling, apply, dnrQueue, faults, toggles, fetches, restarts>>
    BY <1>13, Zenon DEF Validate, stores, bounds, Fails, StartFetch
  <2>2. fetch' \in Fetch
    <3>1. \/ fetch' = [fetch EXCEPT !.pc = "errorReading"]
          \/ fetch' = [fetch EXCEPT !.pc = "refreshing", !.metaRead = meta]
          \/ fetch' = [fetch EXCEPT !.pc = "gating"]
      BY <1>13, Zenon DEF Validate, FetchAt
    <3>2. /\ [fetch EXCEPT !.pc = "errorReading"] \in Fetch
          /\ [fetch EXCEPT !.pc = "refreshing", !.metaRead = meta] \in Fetch
          /\ [fetch EXCEPT !.pc = "gating"] \in Fetch
      BY FetchTypes DEF FetchPc
    <3> QED
      BY <3>1, <3>2, Zenon
  <2> QED
    BY <2>1, <2>2 DEF Callers
<1>14. CASE Refresh
  BY <1>14, FetchTypes, MetaTypes DEF Refresh
<1>15. CASE Gate
  BY <1>15, FetchTypes, QueueTypes DEF Gate, FetchAt, FetchPc, SeenPrefs, Callers
<1>16. CASE WriteGlobal
  <2>1. UNCHANGED <<prefs, cachedPrefs, changes, published, params, meta, floor, scoped, checked, disabling, apply, toggles, fetches, restarts>>
    BY <1>16, Zenon DEF WriteGlobal, stores, bounds, Fails, StartFetch
  <2>2. global' \in Version
    BY <1>16, FetchTypes, VersionIsNat DEF WriteGlobal, GlobalRule
  <2>3. fetch' \in Fetch
    BY <1>16, FetchTypes DEF WriteGlobal, FetchAt, FetchPc, AfterDnrError
  <2>4. dnrQueue' \in Seq(Callers)
    BY <1>16, QueueTypes DEF WriteGlobal, Callers
  <2>5. faults' \in Nat
    BY <1>16 DEF WriteGlobal, Fails, bounds
  <2> QED
    BY <2>1, <2>2, <2>3, <2>4, <2>5 DEF Callers
<1>17. CASE WriteScoped
  <2>1. UNCHANGED <<prefs, cachedPrefs, changes, published, params, meta, floor, global, checked, disabling, apply, toggles, fetches, restarts>>
    BY <1>17, Zenon DEF WriteScoped, stores, bounds, Fails, StartFetch
  <2>2. scoped' \in Version
    BY <1>17, FetchTypes DEF WriteScoped
  <2>3. fetch' \in Fetch
    BY <1>17, FetchTypes DEF WriteScoped, FetchAt, FetchPc
  <2>4. dnrQueue' \in Seq(Callers)
    BY <1>17, QueueTypes DEF WriteScoped, Callers
  <2>5. faults' \in Nat
    BY <1>17, SMTT(30) DEF WriteScoped, Fails, bounds
  <2> QED
    BY <2>1, <2>2, <2>3, <2>4, <2>5 DEF Callers
<1>18. CASE Persist
  BY <1>18, FetchTypes DEF Persist, Meta, Max2
<1>19. CASE ReadForError
  BY <1>19, FetchTypes DEF ReadForError, FetchPc
<1>20. CASE WriteError
  BY <1>20, FetchTypes, MetaTypes DEF WriteError
<1>21. CASE StorageFails
  <2>1. UNCHANGED <<prefs, cachedPrefs, changes, published, params, meta, floor, global, scoped, checked, disabling, apply, dnrQueue, toggles, fetches, restarts>>
    BY <1>21, Zenon DEF StorageFails, stores, bounds, Fails, StartFetch
  <2>2. fetch' \in Fetch
    BY <1>21, FetchTypes DEF StorageFails, Finished
  <2>3. faults' \in Nat
    BY <1>21 DEF StorageFails, Fails
  <2> QED
    BY <2>1, <2>2, <2>3 DEF Callers
<1>22. CASE HearChange
  <2>1. UNCHANGED <<prefs, published, params, meta, floor, global, scoped, checked, fetch, disabling, dnrQueue, faults, toggles, fetches, restarts>>
    BY <1>22, Zenon DEF HearChange, stores, bounds, Fails, StartFetch
  <2>2. changes' \in Nat
    BY <1>22, SMTT(30) DEF HearChange
  <2>3. cachedPrefs' \in Prefs \cup {NoPrefs}
    BY <1>22 DEF HearChange
  <2>4. apply' \in Apply
    BY <1>22, ApplyTypes DEF HearChange, ApplyPc
  <2> QED
    BY <2>1, <2>2, <2>3, <2>4 DEF Callers
<1>23. CASE ReadPrefs
  BY <1>23, QueueTypes, ConstantsAssumption DEF ReadPrefs, Apply, Prefs, SeenPrefs, Callers
<1>24. CASE ServeLeadingCall
  <2>1. UNCHANGED <<prefs, cachedPrefs, changes, published, params, meta, floor, global, scoped, checked, fetch, disabling, faults, toggles, fetches, restarts>>
    BY <1>24, Zenon DEF ServeLeadingCall, stores, bounds, Fails, StartFetch
  <2>2. apply' \in Apply
    <3>1. \/ apply.step < LeadCalls /\ apply' = [apply EXCEPT !.step = @ + 1]
          \/ \E pc \in ApplyPc : apply' = [apply EXCEPT !.pc = pc]
      BY <1>24 DEF ServeLeadingCall, ApplyPc
    <3>2. apply.step < LeadCalls => apply.step + 1 \in 0..LeadCalls
      <4>1. apply.step \in 0..LeadCalls
        BY ApplyTypes
      <4> QED
        BY <4>1, ConstantsAssumption
    <3> QED
      BY <3>1, <3>2, ApplyTypes
  <2>3. dnrQueue' \in Seq(Callers)
    BY <1>24, QueueTypes DEF ServeLeadingCall, Callers
  <2> QED
    BY <2>1, <2>2, <2>3 DEF Callers
<1>25. CASE ReadCache
  BY <1>25, ApplyTypes, QueueTypes, MetaTypes DEF ReadCache, ApplyPc, Callers
<1>26. CASE ReconcileScoped
  BY <1>26, ApplyTypes, QueueTypes DEF ReconcileScoped, ApplyPc, Callers
<1>27. CASE ReconcileGlobal
  BY <1>27, ApplyTypes, QueueTypes DEF ReconcileGlobal, GlobalRule, Callers
<1>28. CASE TearDown
  BY <1>28, ApplyTypes, QueueTypes DEF TearDown, ApplyPc, Callers
<1>29. CASE Verify
  <2>1. UNCHANGED <<prefs, cachedPrefs, changes, published, params, meta, floor, global, scoped, checked, fetch, disabling, faults, toggles, fetches, restarts>>
    BY <1>29, Zenon DEF Verify, stores, bounds, Fails, StartFetch
  <2>2. apply' \in Apply
    BY <1>29, ApplyTypes DEF Verify, ApplyPc
  <2>3. dnrQueue' \in Seq(Callers)
    BY <1>29, QueueTypes DEF Verify, Callers
  <2> QED
    BY <2>1, <2>2, <2>3 DEF Callers
<1>30. CASE UNCHANGED vars
  BY <1>30 DEF vars
<1> QED
  BY <1>1, <1>2, <1>3, <1>4, <1>5, <1>6, <1>7, <1>8, <1>9, <1>10, <1>11, <1>12, <1>13, <1>14, <1>15, <1>16, <1>17, <1>18, <1>19, <1>20, <1>21, <1>22, <1>23, <1>24, <1>25, <1>26, <1>27, <1>28, <1>29, <1>30
  DEF Next, DisableStep, FetchStep, ApplyStep

\* Every reachable state of the remote-rules channel is type correct
\* (runRemoteRulesFetch, clearRemoteCache, reconcileRemoteDnrRule), for any number
\* of versions, fetches, toggles, faults and restarts.
THEOREM TypeCorrect == Spec => []TypeOK
<1>1. Init => TypeOK
  BY TypeInit
<1>2. TypeOK /\ [Next]_vars => TypeOK'
  BY TypeStep
<1> QED
  BY <1>1, <1>2, PTL DEF Spec

-----------------------------------------------------------------------------
(* No rollback.                                                            *)

\* Where a fetch is between the rollback check and the merge.
Merging == {"gating", "global", "scoped", "persisting"}

\* What passed the check is still not older than the floor.
AboveFloor == fetch.pc \in Merging => fetch.payload >= floor

Inv == TypeOK /\ AboveFloor

\* The check of validateParams establishes it.
LEMMA ValidateStep == TypeOK /\ Validate => AboveFloor'
<1> SUFFICES ASSUME TypeOK, Validate PROVE AboveFloor'
  OBVIOUS
<1>1. floor' = floor
  BY Zenon DEF Validate, stores
<1>2. /\ fetch.payload \in Nat /\ floor \in Nat /\ meta.version \in Nat
  BY FetchTypes, MetaTypes, VersionIsNat DEF TypeOK
<1>3. CASE NotARollback(fetch.payload) /\ fetch' = [fetch EXCEPT !.pc = "gating"]
  <2>1. fetch'.payload = fetch.payload
    BY <1>3 DEF TypeOK, Fetch
  <2>2. fetch.payload >= floor
    BY <1>2, <1>3 DEF NotARollback, Max2
  <2> QED
    BY <1>1, <2>1, <2>2 DEF AboveFloor
<1>4. CASE \/ fetch' = [fetch EXCEPT !.pc = "errorReading"]
           \/ fetch' = [fetch EXCEPT !.pc = "refreshing", !.metaRead = meta]
  <2>1. fetch'.pc \in {"errorReading", "refreshing"}
    BY <1>4 DEF TypeOK, Fetch
  <2> QED
    BY <2>1 DEF AboveFloor, Merging
<1>5. \/ NotARollback(fetch.payload) /\ fetch' = [fetch EXCEPT !.pc = "gating"]
      \/ fetch' = [fetch EXCEPT !.pc = "errorReading"]
      \/ fetch' = [fetch EXCEPT !.pc = "refreshing", !.metaRead = meta]
  BY Zenon DEF Validate, FetchAt
<1> QED
  BY <1>3, <1>4, <1>5

\* A step of the merge changes neither the payload nor the floor.
LEMMA MergeStep == Inv /\ (Gate \/ WriteGlobal \/ WriteScoped) => AboveFloor'
<1> SUFFICES ASSUME Inv, Gate \/ WriteGlobal \/ WriteScoped PROVE AboveFloor'
  OBVIOUS
<1>1. fetch.pc \in Merging /\ floor' = floor
  BY Zenon DEF Gate, WriteGlobal, WriteScoped, Merging, stores
<1>2. \E pc \in FetchPc : fetch' = [fetch EXCEPT !.pc = pc]
  BY DEF Gate, WriteGlobal, WriteScoped, FetchAt, FetchPc, AfterDnrError
<1>3. fetch'.payload = fetch.payload
  BY <1>2 DEF Inv, TypeOK, Fetch
<1> QED
  BY <1>1, <1>3 DEF Inv, AboveFloor

LEMMA InvStep == Inv /\ [Next]_vars => Inv'
<1> SUFFICES ASSUME Inv, [Next]_vars PROVE AboveFloor'
  BY TypeStep DEF Inv
<1>1. CASE UNCHANGED <<fetch, floor>>
  BY <1>1 DEF Inv, AboveFloor
<1>2. CASE fetch' = NoFetch \/ fetch' = [NoFetch EXCEPT !.pc = "fetching"]
  BY <1>2 DEF NoFetch, AboveFloor, Merging
<1>3. CASE Publish
  BY <1>1, <1>3, Zenon DEF Publish, stores
<1>4. CASE WeekPasses
  BY <1>1, <1>4, Zenon DEF WeekPasses, stores
<1>5. CASE Evict
  BY <1>1, <1>5, Zenon DEF Evict, stores
<1>6. CASE ToggleGate
  BY <1>1, <1>6, Zenon DEF ToggleGate, stores
<1>7. CASE Disable
  BY <1>1, <1>7, Zenon DEF Disable, stores
<1>8. CASE RemoveRules
  BY <1>1, <1>8, Zenon DEF RemoveRules, stores
<1>9. CASE HearChange
  BY <1>1, <1>9, Zenon DEF HearChange, stores
<1>10. CASE ReadPrefs
  BY <1>1, <1>10, Zenon DEF ReadPrefs, stores
<1>11. CASE ServeLeadingCall
  BY <1>1, <1>11, Zenon DEF ServeLeadingCall, stores
<1>12. CASE ReadCache
  BY <1>1, <1>12, Zenon DEF ReadCache, stores
<1>13. CASE ReconcileScoped
  BY <1>1, <1>13, Zenon DEF ReconcileScoped, stores
<1>14. CASE ReconcileGlobal
  BY <1>1, <1>14, Zenon DEF ReconcileGlobal, stores
<1>15. CASE TearDown
  BY <1>1, <1>15, Zenon DEF TearDown, stores
<1>16. CASE Verify
  BY <1>1, <1>16, Zenon DEF Verify, stores
<1>17. CASE RemoveCache
  BY <1>1, <1>17, Zenon DEF RemoveCache, ClearStorage
<1>18. CASE UNCHANGED vars
  BY <1>1, <1>18, Zenon DEF vars, stores
<1>19. CASE Enable
  BY <1>1, <1>2, <1>19, Zenon DEF Enable, stores, StartFetch
<1>20. CASE WakeCheck
  BY <1>1, <1>2, <1>20, Zenon DEF WakeCheck, stores, StartFetch
<1>21. CASE ForceFetch
  BY <1>1, <1>2, <1>21, Zenon DEF ForceFetch, stores, StartFetch
<1>22. CASE BrowserRestarts
  BY <1>2, <1>22, Zenon DEF BrowserRestarts
<1>23. CASE Refresh
  BY <1>2, <1>23, Zenon DEF Refresh
<1>24. CASE Persist
  BY <1>2, <1>24, Zenon DEF Persist
<1>25. CASE WriteError
  BY <1>2, <1>25, Zenon DEF WriteError
<1>26. CASE StorageFails
  BY <1>2, <1>26, Zenon DEF StorageFails, Finished
<1>27. CASE Answer \/ ReadForError
  <2>1. fetch'.pc \in {"validating", "errorReading", "errorWriting"}
    BY <1>27 DEF Answer, ReadForError, FetchAt, Inv, TypeOK, Fetch
  <2> QED
    BY <2>1 DEF AboveFloor, Merging
<1>28. CASE Validate
  BY <1>28, ValidateStep DEF Inv
<1>29. CASE Gate \/ WriteGlobal \/ WriteScoped
  BY <1>29, MergeStep
<1> QED
  BY <1>3, <1>4, <1>5, <1>6, <1>7, <1>8, <1>9, <1>10, <1>11, <1>12, <1>13, <1>14, <1>15, <1>16, <1>17, <1>18, <1>19, <1>20, <1>21, <1>22, <1>23, <1>24, <1>25, <1>26, <1>27, <1>28, <1>29
  DEF Next, DisableStep, FetchStep, ApplyStep

LEMMA InvHolds == Spec => []Inv
<1>1. Init => AboveFloor
  BY DEF Init, NoFetch, AboveFloor, Merging
<1>2. Init => Inv
  BY <1>1, TypeInit DEF Inv
<1> QED
  BY <1>2, InvStep, PTL DEF Spec

\* Only a merge gives params a new payload, and what it merges passed the check.
LEMMA OnlyMergesAdvance ==
  Inv /\ [Next]_vars => (params' # params /\ params' # 0 => params' >= floor)
<1> SUFFICES ASSUME Inv, [Next]_vars, params' # params, params' # 0
             PROVE  params' >= floor
  OBVIOUS
<1>1. CASE Persist
  BY <1>1 DEF Persist, Inv, AboveFloor, Merging
<1>2. CASE RemoveCache
  BY <1>2 DEF RemoveCache, ClearStorage
<1>3. CASE ~Persist /\ ~RemoveCache
  <2>1. params' = params
    BY <1>3, Zenon DEF Next, DisableStep, FetchStep, ApplyStep, vars, stores, Publish, WeekPasses, Evict, ToggleGate, Disable, RemoveRules, HearChange, ReadPrefs, ServeLeadingCall, ReadCache, ReconcileScoped, ReconcileGlobal, TearDown, Verify, Enable, WakeCheck, ForceFetch, BrowserRestarts, Refresh, WriteError, StorageFails, Answer, ReadForError, Validate, Gate, WriteGlobal, WriteScoped
  <2> QED
    BY <2>1
<1> QED
  BY <1>1, <1>2, <1>3

\* A signed payload older than one already merged is never merged again, whatever
\* is disabled, enabled, fetched or restarted in between (the rollback check of
\* validateParams against the floor that clearRemoteCache leaves alone).
THEOREM NeverRollsBack == Spec => NoRollback
<1>1. Inv /\ [Next]_vars => [params' # params /\ params' # 0 => params' >= floor]_vars
  BY OnlyMergesAdvance
<1> QED
  BY <1>1, InvHolds, PTL DEF Spec, NoRollback

-----------------------------------------------------------------------------
(* The queue of declarativeNetRequest calls: one entry for each activity that *)
(* waits for one, served in the order of the calls.                           *)

In(c, q) == \E i \in 1..Len(q) : q[i] = c
NoDup(q) == \A i, j \in 1..Len(q) : q[i] = q[j] => i = j

\* Every call of a is served before every call of b.
Ahead(q, a, b) == \A i, j \in 1..Len(q) : q[i] = a /\ q[j] = b => i < j

LEMMA Appended ==
  ASSUME NEW q \in Seq(Callers), NEW c \in Callers, NoDup(q), ~In(c, q)
  PROVE  /\ NoDup(Append(q, c))
         /\ \A d \in Callers : In(d, Append(q, c)) <=> In(d, q) \/ d = c
         /\ \A d \in Callers \ {c} : Ahead(Append(q, c), d, c)
         /\ \A a \in Callers \ {c}, b \in Callers :
              Ahead(q, a, b) => Ahead(Append(q, c), a, b)
<1> DEFINE r == Append(q, c)
<1>1. /\ Len(r) = Len(q) + 1 /\ Len(q) \in Nat
      /\ \A i \in 1..Len(q) : r[i] = q[i]
      /\ r[Len(q) + 1] = c
  OBVIOUS
<1>2. \A i \in 1..Len(r) : i \in 1..Len(q) \/ i = Len(q) + 1
  BY <1>1
<1> HIDE DEF r
<1>3. NoDup(r)
  BY <1>1, <1>2 DEF NoDup, In
<1>4. \A d \in Callers : In(d, r) <=> In(d, q) \/ d = c
  <2>1. 1..Len(q) \subseteq 1..Len(r) /\ Len(q) + 1 \in 1..Len(r)
    BY <1>1
  <2> QED
    BY <1>1, <1>2, <2>1 DEF In
<1>5. \A d \in Callers \ {c} : Ahead(r, d, c)
  BY <1>1, <1>2 DEF Ahead, In
<1>6. ASSUME NEW a \in Callers \ {c}, NEW b \in Callers, Ahead(q, a, b)
      PROVE  Ahead(r, a, b)
  BY <1>1, <1>2, <1>6 DEF Ahead
<1> QED
  BY <1>3, <1>4, <1>5, <1>6 DEF r

LEMMA Served ==
  ASSUME NEW q \in Seq(Callers), NoDup(q), q # <<>>
  PROVE  /\ Tail(q) \in Seq(Callers) /\ Head(q) \in Callers
         /\ NoDup(Tail(q))
         /\ In(Head(q), q) /\ ~In(Head(q), Tail(q))
         /\ \A d \in Callers : In(d, Tail(q)) <=> In(d, q) /\ d # Head(q)
         /\ \A a, b \in Callers : Ahead(q, a, b) => Ahead(Tail(q), a, b)
         /\ \A a \in Callers : In(a, q) /\ Ahead(q, a, Head(q)) => FALSE
<1> DEFINE t == Tail(q)
<1>1. /\ Len(q) \in Nat \ {0} /\ Len(t) = Len(q) - 1
      /\ t \in Seq(Callers) /\ q[1] = Head(q) /\ Head(q) \in Callers
      /\ \A i \in 1..Len(t) : t[i] = q[i + 1]
  OBVIOUS
<1> HIDE DEF t
<1>2. /\ \A i \in 1..Len(t) : i + 1 \in 1..Len(q) /\ i + 1 # 1
      /\ \A i \in 1..Len(q) : i = 1 \/ (i - 1 \in 1..Len(t) /\ (i - 1) + 1 = i)
      /\ 1 \in 1..Len(q)
  BY <1>1
<1>3. NoDup(t)
  BY <1>1, <1>2 DEF NoDup
<1>4. In(Head(q), q) /\ ~In(Head(q), t)
  BY <1>1, <1>2 DEF In, NoDup
<1>5. ASSUME NEW d \in Callers
      PROVE  In(d, t) <=> In(d, q) /\ d # Head(q)
  <2>1. In(d, t) => In(d, q)
    BY <1>1, <1>2 DEF In
  <2>2. ASSUME In(d, q), d # Head(q) PROVE In(d, t)
    <3>1. PICK i \in 1..Len(q) : q[i] = d
      BY <2>2 DEF In
    <3>2. i - 1 \in 1..Len(t) /\ t[i - 1] = d
      BY <1>1, <1>2, <2>2, <3>1
    <3> QED
      BY <3>2 DEF In
  <2> QED
    BY <1>4, <2>1, <2>2
<1>6. \A a, b \in Callers : Ahead(q, a, b) => Ahead(t, a, b)
  BY <1>1, <1>2 DEF Ahead
<1>7. ASSUME NEW a \in Callers, In(a, q), Ahead(q, a, Head(q)) PROVE FALSE
  <2>1. PICK i \in 1..Len(q) : q[i] = a
    BY <1>7 DEF In
  <2>2. i < 1
    BY <1>1, <1>2, <1>7, <2>1 DEF Ahead
  <2> QED
    BY <1>1, <2>2
<1> QED
  BY <1>1, <1>3, <1>4, <1>5, <1>6, <1>7 DEF t

\* applyDnrState waits for a call.
Calling == {"leading", "scoped", "global", "tearing", "verifying"}

\* Who waits for a call.
Due(c) ==
    \/ c = "fetch" /\ fetch.pc \in {"global", "scoped"}
    \/ c = "apply" /\ apply.pc \in Calling
    \/ c = "disable" /\ disabling = "clearing"

QueueOK == NoDup(dnrQueue) /\ \A c \in Callers : In(c, dnrQueue) <=> Due(c)

\* What a step can do to the queue, with what it does to those who wait.
Joins(c) == /\ dnrQueue' = Append(dnrQueue, c)
            /\ ~Due(c) /\ Due(c)'
            /\ \A d \in Callers \ {c} : Due(d)' <=> Due(d)
Leaves(c) == /\ dnrQueue # <<>> /\ Head(dnrQueue) = c
             /\ dnrQueue' = Tail(dnrQueue)
             /\ ~Due(c)'
             /\ \A d \in Callers \ {c} : Due(d)' <=> Due(d)
Rejoins(c) == /\ dnrQueue # <<>> /\ Head(dnrQueue) = c
              /\ dnrQueue' = Append(Tail(dnrQueue), c)
              /\ \A d \in Callers : Due(d)' <=> Due(d)
Waits == dnrQueue' = dnrQueue /\ \A d \in Callers : Due(d)' <=> Due(d)
Empties == dnrQueue' = <<>> /\ \A d \in Callers : ~Due(d)'

\* The steps of a fetch that are not about a rule do not lead to one.
LEMMA AwayFromRules ==
  ASSUME fetch \in Fetch,
         \/ Answer \/ Validate \/ Refresh \/ Persist \/ ReadForError \/ WriteError
         \/ StorageFails
  PROVE  fetch'.pc \notin {"global", "scoped", "persisting"}
<1>1. CASE Answer \/ ReadForError
  BY <1>1 DEF Answer, ReadForError, FetchAt, Fetch
<1>2. CASE Validate
  BY <1>2 DEF Validate, FetchAt, Fetch
<1>3. CASE fetch' = NoFetch
  BY <1>3 DEF NoFetch
<1> QED
  BY <1>1, <1>2, <1>3, Zenon DEF Refresh, Persist, WriteError, StorageFails, Finished

LEMMA QueueMove ==
  TypeOK /\ QueueOK /\ [Next]_vars => Waits \/ Empties \/ \E c \in Callers : Joins(c) \/ Leaves(c) \/ Rejoins(c)
<1> SUFFICES ASSUME TypeOK, QueueOK, [Next]_vars
             PROVE  Waits \/ Empties \/ \E c \in Callers : Joins(c) \/ Leaves(c) \/ Rejoins(c)
  OBVIOUS
<1> USE DEF Callers
<1>0. fetch \in Fetch /\ apply \in Apply
  BY DEF TypeOK
<1>1. CASE UNCHANGED <<dnrQueue, fetch, apply, disabling>>
  BY <1>1 DEF Waits, Due
<1>2. CASE Publish \/ WeekPasses \/ Evict \/ ToggleGate \/ UNCHANGED vars
  BY <1>1, <1>2, Zenon DEF Publish, WeekPasses, Evict, ToggleGate, vars
<1>3. CASE BrowserRestarts
  BY <1>3 DEF BrowserRestarts, Empties, Due, NoFetch, NoApply, Calling
<1>4. CASE Enable \/ WakeCheck \/ ForceFetch
  <2>1. CASE ~InFlight /\ fetch' = [NoFetch EXCEPT !.pc = "fetching"] /\ UNCHANGED <<dnrQueue, apply, disabling>>
    BY <2>1 DEF Waits, Due, NoFetch, InFlight
  <2> QED
    BY <1>1, <1>4, <2>1, Zenon DEF Enable, WakeCheck, ForceFetch, StartFetch
<1>5. CASE Disable
  BY <1>5 DEF Disable, Waits, Due
<1>6. CASE RemoveCache
  BY <1>6 DEF RemoveCache, Joins, Due
<1>7. CASE RemoveRules
  BY <1>7 DEF RemoveRules, Leaves, Due
<1>8. CASE Answer \/ Validate \/ Refresh \/ Persist \/ ReadForError \/ WriteError \/ StorageFails
  <2>1. UNCHANGED <<dnrQueue, apply, disabling>>
    BY <1>8, Zenon DEF Answer, Validate, Refresh, Persist, ReadForError, WriteError, StorageFails
  <2>2. fetch.pc \notin {"global", "scoped"}
    BY <1>8 DEF Answer, Validate, Refresh, Persist, ReadForError, WriteError, StorageFails
  <2>3. fetch'.pc \notin {"global", "scoped"}
    BY <1>0, <1>8, AwayFromRules
  <2> QED
    BY <2>1, <2>2, <2>3 DEF Waits, Due
<1>9. CASE Gate
  BY <1>0, <1>9 DEF Gate, FetchAt, Fetch, Waits, Joins, Due
<1>10. CASE WriteGlobal
  BY <1>0, <1>10 DEF WriteGlobal, FetchAt, Fetch, Rejoins, Leaves, Due, AfterDnrError
<1>11. CASE WriteScoped
  BY <1>0, <1>11 DEF WriteScoped, FetchAt, Fetch, Leaves, Due
<1>12. CASE HearChange
  BY <1>12 DEF HearChange, Waits, Due, NoApply, Calling
<1>13. CASE ReadPrefs
  BY <1>13 DEF ReadPrefs, Joins, Due, Calling
<1>14. CASE ServeLeadingCall
  BY <1>0, <1>14 DEF ServeLeadingCall, Apply, Rejoins, Leaves, Due, Calling
<1>15. CASE ReadCache
  BY <1>0, <1>15 DEF ReadCache, Apply, Joins, Due, Calling
<1>16. CASE ReconcileScoped
  BY <1>0, <1>16 DEF ReconcileScoped, Apply, Rejoins, Due, Calling
<1>17. CASE ReconcileGlobal
  BY <1>0, <1>17 DEF ReconcileGlobal, NoApply, Leaves, Due, Calling
<1>18. CASE TearDown
  BY <1>0, <1>18 DEF TearDown, Apply, Rejoins, Due, Calling
<1>19. CASE Verify
  <2>1. UNCHANGED <<fetch, disabling>> /\ apply.pc = "verifying"
    BY <1>19, Zenon DEF Verify
  <2>2. CASE apply' = NoApply /\ dnrQueue' = Tail(dnrQueue)
    BY <1>19, <2>1, <2>2 DEF Verify, NoApply, Leaves, Due, Calling
  <2>3. CASE /\ apply' = [apply EXCEPT !.pc = "leading", !.step = 0, !.attempt = 2]
             /\ dnrQueue' = Append(Tail(dnrQueue), "apply")
    BY <1>0, <1>19, <2>1, <2>3 DEF Verify, Apply, Rejoins, Due, Calling
  <2> QED
    BY <1>19, <2>2, <2>3, Zenon DEF Verify
<1> QED
  BY <1>2, <1>3, <1>4, <1>5, <1>6, <1>7, <1>8, <1>9, <1>10, <1>11, <1>12, <1>13, <1>14, <1>15, <1>16, <1>17, <1>18, <1>19
  DEF Next, DisableStep, FetchStep, ApplyStep

LEMMA QueueStep == TypeOK /\ QueueOK /\ [Next]_vars => QueueOK'
<1> SUFFICES ASSUME TypeOK, QueueOK, [Next]_vars PROVE QueueOK'
  OBVIOUS
<1> DEFINE q == dnrQueue
<1>0. q \in Seq(Callers) /\ NoDup(q) /\ \A c \in Callers : In(c, q) <=> Due(c)
  BY DEF TypeOK, QueueOK, Callers
<1>1. CASE Waits
  BY <1>0, <1>1 DEF Waits, QueueOK
<1>2. CASE Empties
  BY <1>2 DEF Empties, QueueOK, NoDup, In
<1>3. ASSUME NEW c \in Callers, Joins(c) PROVE QueueOK'
  BY <1>0, <1>3, Appended DEF Joins, QueueOK
<1>4. ASSUME NEW c \in Callers, Leaves(c) PROVE QueueOK'
  BY <1>0, <1>4, Served DEF Leaves, QueueOK
<1>5. ASSUME NEW c \in Callers, Rejoins(c) PROVE QueueOK'
  <2>1. /\ Tail(q) \in Seq(Callers) /\ NoDup(Tail(q)) /\ ~In(c, Tail(q))
        /\ In(c, q) /\ \A d \in Callers : In(d, Tail(q)) <=> In(d, q) /\ d # c
    BY <1>0, <1>5, Served DEF Rejoins
  <2>2. NoDup(q') /\ \A d \in Callers : In(d, q') <=> In(d, Tail(q)) \/ d = c
    BY <1>5, <2>1, Appended DEF Rejoins
  <2> QED
    BY <1>0, <1>5, <2>1, <2>2 DEF Rejoins, QueueOK
<1> QED
  BY <1>1, <1>2, <1>3, <1>4, <1>5, QueueMove

-----------------------------------------------------------------------------
(* What an apply pass knows.                                                  *)

\* With no change left to hear of, the cached preferences are the stored ones.
CacheCurrent == changes = 0 => cachedPrefs \in {NoPrefs, prefs}

\* A pass goes where the preferences it read send it, and the last pass has read
\* the preferences that are stored.
PassReads ==
    /\ apply.pc \in {"readingCache", "scoped", "global"} => apply.open
    /\ apply.pc \in {"tearing", "verifying"} => ~apply.open
    /\ changes = 0 /\ apply.pc \notin {"idle", "reading"}
         => apply.open = prefs.open /\ apply.on = prefs.on

LEMMA CacheStep == TypeOK /\ CacheCurrent /\ [Next]_vars => CacheCurrent'
<1> SUFFICES ASSUME TypeOK, CacheCurrent, [Next]_vars, changes' = 0
             PROVE  cachedPrefs' \in {NoPrefs, prefs'}
  BY DEF CacheCurrent
<1>1. CASE cachedPrefs' = NoPrefs
  BY <1>1
<1>2. CASE UNCHANGED <<prefs, changes>> /\ cachedPrefs' \in {cachedPrefs, SeenPrefs}
  BY <1>2 DEF CacheCurrent, SeenPrefs
<1>3. CASE ToggleGate
  BY <1>3 DEF ToggleGate, TypeOK
<1>4. CASE \/ BrowserRestarts \/ Evict \/ Enable \/ Disable \/ RemoveCache \/ Refresh
           \/ Persist \/ WriteError \/ HearChange
  BY <1>1, <1>4, Zenon DEF BrowserRestarts, Evict, Enable, Disable, RemoveCache,
     Refresh, Persist, WriteError, HearChange
<1>5. CASE \/ Publish \/ WeekPasses \/ RemoveRules \/ WakeCheck \/ ForceFetch \/ Answer
           \/ Validate \/ Gate \/ WriteGlobal \/ WriteScoped \/ ReadForError \/ StorageFails
  <2>1. UNCHANGED <<prefs, changes>> /\ (cachedPrefs' = cachedPrefs \/ cachedPrefs' = SeenPrefs)
    BY <1>5, Zenon DEF Publish, WeekPasses, RemoveRules, WakeCheck, ForceFetch, Answer,
       Validate, Gate, WriteGlobal, WriteScoped, ReadForError, StorageFails
  <2> QED
    BY <1>2, <2>1
<1>6. CASE \/ ReadPrefs \/ ServeLeadingCall \/ ReadCache \/ ReconcileScoped
           \/ ReconcileGlobal \/ TearDown \/ Verify \/ UNCHANGED vars
  <2>1. UNCHANGED <<prefs, changes>> /\ (cachedPrefs' = cachedPrefs \/ cachedPrefs' = SeenPrefs)
    BY <1>6, Zenon DEF ReadPrefs, ServeLeadingCall, ReadCache, ReconcileScoped,
       ReconcileGlobal, TearDown, Verify, vars
  <2> QED
    BY <1>2, <2>1
<1> QED
  BY <1>3, <1>4, <1>5, <1>6, Zenon DEF Next, DisableStep, FetchStep, ApplyStep

LEMMA PassStep ==
  TypeOK /\ CacheCurrent /\ PassReads /\ [Next]_vars => PassReads'
<1> SUFFICES ASSUME TypeOK, CacheCurrent, PassReads, [Next]_vars PROVE PassReads'
  OBVIOUS
<1>0. apply \in Apply
  BY DEF TypeOK
<1>1. CASE UNCHANGED <<prefs, changes, apply>>
  BY <1>1 DEF PassReads
<1>2. CASE apply' = apply /\ changes' = changes + 1
  BY <1>2 DEF PassReads, TypeOK
<1>3. CASE apply' = NoApply \/ apply' = [NoApply EXCEPT !.pc = "reading"]
  BY <1>3 DEF PassReads, NoApply
<1>4. CASE ToggleGate \/ Enable \/ Disable
  BY <1>2, <1>4, Zenon DEF ToggleGate, Enable, Disable
<1>5. CASE BrowserRestarts \/ HearChange \/ ReconcileGlobal
  BY <1>3, <1>5, Zenon DEF BrowserRestarts, HearChange, ReconcileGlobal
<1>6. CASE ReadPrefs
  <2>1. UNCHANGED <<prefs, changes>> /\ apply'.pc = "leading" /\ apply'.open = SeenPrefs.open /\ apply'.on = SeenPrefs.on
    BY <1>6 DEF ReadPrefs
  <2>2. changes = 0 => SeenPrefs = prefs
    BY DEF CacheCurrent, SeenPrefs
  <2> QED
    BY <2>1, <2>2 DEF PassReads
<1>7. CASE ServeLeadingCall
  BY <1>0, <1>7 DEF ServeLeadingCall, PassReads, Apply
<1>8. CASE ReadCache
  BY <1>0, <1>8 DEF ReadCache, PassReads, Apply
<1>9. CASE ReconcileScoped
  BY <1>0, <1>9 DEF ReconcileScoped, PassReads, Apply
<1>10. CASE TearDown
  BY <1>0, <1>10 DEF TearDown, PassReads, Apply
<1>11. CASE Verify
  <2>1. \/ apply' = NoApply
        \/ UNCHANGED <<prefs, changes>> /\ apply' = [apply EXCEPT !.pc = "leading", !.step = 0, !.attempt = 2]
    BY <1>11, Zenon DEF Verify
  <2>2. apply.pc = "verifying"
    BY <1>11, Zenon DEF Verify
  <2> QED
    BY <1>0, <1>3, <2>1, <2>2 DEF PassReads, Apply
<1>12. CASE \/ Publish \/ WeekPasses \/ Evict \/ RemoveCache \/ RemoveRules \/ WakeCheck
            \/ ForceFetch \/ Answer \/ Validate \/ Refresh \/ Gate \/ WriteGlobal \/ WriteScoped
            \/ Persist \/ ReadForError \/ WriteError \/ StorageFails \/ UNCHANGED vars
  BY <1>1, <1>12, Zenon DEF Publish, WeekPasses, Evict, RemoveCache, RemoveRules, WakeCheck,
     ForceFetch, Answer, Validate, Refresh, Gate, WriteGlobal, WriteScoped, Persist,
     ReadForError, WriteError, StorageFails, vars
<1> QED
  BY <1>4, <1>5, <1>6, <1>7, <1>8, <1>9, <1>10, <1>11, <1>12
  DEF Next, DisableStep, FetchStep, ApplyStep

-----------------------------------------------------------------------------
(* A closed gate.                                                             *)

FetchFirst == Ahead(dnrQueue, "fetch", "apply")

\* The pass that hears last of a closed gate finds at most one fetch still writing,
\* which saw the gate open before: its first write is served before the pass's
\* first call, and its second before the pass's teardown.
Closing ==
    changes = 0 /\ ~prefs.open =>
      /\ apply.pc = "leading" /\ apply.step = 0 /\ fetch.pc = "global" => FetchFirst
      /\ (apply.pc = "leading" /\ apply.step > 0) \/ apply.pc = "tearing"
           => fetch.pc # "global" /\ FetchFirst
      /\ apply.pc \in {"idle", "verifying"}
           => fetch.pc \notin {"global", "scoped"} /\ global = 0 /\ scoped = 0

LiveInv == TypeOK /\ QueueOK /\ CacheCurrent /\ PassReads /\ Closing

\* While the pass is at the head of the queue, a fetch that is to be served first
\* is not waiting.
LEMMA HeadIsLast ==
  ASSUME TypeOK, QueueOK, dnrQueue # <<>>, Head(dnrQueue) = "apply", FetchFirst
  PROVE  fetch.pc \notin {"global", "scoped"}
<1>1. dnrQueue \in Seq(Callers) /\ NoDup(dnrQueue)
  BY DEF TypeOK, QueueOK, Callers
<1>2. ~In("fetch", dnrQueue)
  BY <1>1, Served DEF FetchFirst, Callers
<1> QED
  BY <1>2 DEF QueueOK, Due, Callers

\* Who joins the queue, or goes back to its end, comes after all the others.
LEMMA LastInLine ==
  ASSUME TypeOK, QueueOK, NEW c \in Callers,
         \/ ~Due(c) /\ dnrQueue' = Append(dnrQueue, c)
         \/ dnrQueue # <<>> /\ Head(dnrQueue) = c /\ dnrQueue' = Append(Tail(dnrQueue), c)
  PROVE  \A d \in Callers \ {c} : Ahead(dnrQueue', d, c)
<1>1. dnrQueue \in Seq(Callers) /\ NoDup(dnrQueue)
  BY DEF TypeOK, QueueOK, Callers
<1>2. CASE ~Due(c) /\ dnrQueue' = Append(dnrQueue, c)
  BY <1>1, <1>2, Appended DEF QueueOK
<1>3. CASE dnrQueue # <<>> /\ Head(dnrQueue) = c /\ dnrQueue' = Append(Tail(dnrQueue), c)
  <2>1. Tail(dnrQueue) \in Seq(Callers) /\ NoDup(Tail(dnrQueue)) /\ ~In(c, Tail(dnrQueue))
    BY <1>1, <1>3, Served
  <2> QED
    BY <1>3, <2>1, Appended
<1> QED
  BY <1>2, <1>3

LEMMA ClosingStep == LiveInv /\ [Next]_vars => Closing'
<1> SUFFICES ASSUME LiveInv, [Next]_vars, changes' = 0, ~prefs'.open
             PROVE  Closing'
  BY DEF Closing
<1>0. /\ TypeOK /\ QueueOK /\ apply \in Apply /\ fetch \in Fetch
      /\ dnrQueue \in Seq(Callers) /\ NoDup(dnrQueue)
  BY DEF LiveInv, TypeOK, QueueOK, Callers
<1>1. CASE BrowserRestarts \/ ToggleGate \/ Enable \/ Disable
  BY <1>0, <1>1 DEF BrowserRestarts, ToggleGate, Enable, Disable, TypeOK
<1>2. CASE HearChange
  BY <1>2 DEF HearChange, NoApply, Closing
<1> DEFINE Same == UNCHANGED <<prefs, changes>>
<1>3. Same => /\ changes = 0 /\ ~prefs.open
              /\ cachedPrefs \in {NoPrefs, prefs}
              /\ apply.pc \notin {"idle", "reading"} => ~apply.open
  BY DEF LiveInv, CacheCurrent, PassReads
<1>4. CASE UNCHANGED <<prefs, changes, apply, fetch, dnrQueue, global, scoped>>
  BY <1>4 DEF LiveInv, Closing, FetchFirst
<1>5. CASE Publish \/ WeekPasses \/ Evict \/ UNCHANGED vars
  BY <1>4, <1>5, Zenon DEF Publish, WeekPasses, Evict, vars
<1>6. CASE RemoveCache
  <2>1. FetchFirst => FetchFirst'
    <3>1. ~In("disable", dnrQueue) /\ dnrQueue' = Append(dnrQueue, "disable")
      BY <1>0, <1>6 DEF RemoveCache, QueueOK, Due, Callers
    <3> QED
      BY <1>0, <3>1, Appended DEF FetchFirst, Callers
  <2>2. UNCHANGED <<prefs, changes, apply, fetch, global, scoped>>
    BY <1>6, Zenon DEF RemoveCache
  <2> QED
    BY <2>1, <2>2 DEF LiveInv, Closing
<1>7. CASE RemoveRules
  <2>1. FetchFirst => FetchFirst'
    BY <1>0, <1>7, Served DEF RemoveRules, FetchFirst, Callers
  <2>2. UNCHANGED <<prefs, changes, apply, fetch>> /\ global' = 0 /\ scoped' = 0
    BY <1>7, Zenon DEF RemoveRules
  <2> QED
    BY <2>1, <2>2 DEF LiveInv, Closing
<1>8. CASE WakeCheck \/ ForceFetch
  <2>1. CASE fetch' = [NoFetch EXCEPT !.pc = "fetching"] /\ UNCHANGED <<prefs, changes, apply, dnrQueue, global, scoped>>
    <3>1. fetch'.pc = "fetching"
      BY <2>1 DEF NoFetch
    <3> QED
      BY <2>1, <3>1 DEF LiveInv, Closing, FetchFirst
  <2> QED
    BY <1>4, <1>8, <2>1, Zenon DEF WakeCheck, ForceFetch, StartFetch
<1>9. CASE Answer \/ Validate \/ Refresh \/ Persist \/ ReadForError \/ WriteError \/ StorageFails
  <2>1. UNCHANGED <<prefs, changes, apply, dnrQueue, global, scoped>>
    BY <1>9, Zenon DEF Answer, Validate, Refresh, Persist, ReadForError, WriteError, StorageFails
  <2>2. fetch'.pc \notin {"global", "scoped"}
    BY <1>0, <1>9, AwayFromRules
  <2> QED
    BY <2>1, <2>2 DEF LiveInv, Closing, FetchFirst
<1>10. CASE Gate
  <2>1. Same
    BY <1>10, Zenon DEF Gate
  <2>2. ~LiveGate
    BY <1>3, <2>1 DEF LiveGate, SeenPrefs
  <2>3. UNCHANGED <<apply, dnrQueue, global, scoped>> /\ fetch' = [fetch EXCEPT !.pc = "persisting"]
    BY <1>10, <2>2, Zenon DEF Gate, FetchAt
  <2>4. fetch'.pc = "persisting"
    BY <1>0, <2>3 DEF Fetch
  <2> QED
    BY <2>1, <2>3, <2>4 DEF LiveInv, Closing, FetchFirst
<1>11. CASE WriteGlobal
  <2>1. Same /\ UNCHANGED <<apply, scoped>> /\ fetch.pc = "global"
    BY <1>11, Zenon DEF WriteGlobal
  <2>2. apply.pc \in {"reading", "leading"} /\ (apply.pc = "leading" => ~(apply.step > 0))
    BY <1>0, <1>3, <2>1 DEF LiveInv, Closing, PassReads, Apply
  <2>3. fetch'.pc # "global"
    BY <1>0, <1>11 DEF WriteGlobal, FetchAt, Fetch, AfterDnrError
  <2> QED
    BY <2>1, <2>2, <2>3 DEF Closing
<1>12. CASE WriteScoped
  <2>1. Same /\ UNCHANGED <<apply, global>> /\ fetch.pc = "scoped"
    BY <1>12, Zenon DEF WriteScoped
  <2>2. fetch'.pc = "persisting"
    BY <1>0, <1>12 DEF WriteScoped, FetchAt, Fetch
  <2>3. apply.pc \notin {"idle", "verifying"}
    BY <1>3, <2>1 DEF LiveInv, Closing
  <2>4. FetchFirst => FetchFirst'
    BY <1>0, <1>12, Served DEF WriteScoped, FetchFirst, Callers
  <2> QED
    BY <2>1, <2>2, <2>3, <2>4 DEF LiveInv, Closing
<1>13. CASE ReadPrefs
  <2>1. Same /\ UNCHANGED <<fetch, global, scoped>> /\ apply'.pc = "leading" /\ apply'.step = 0
    BY <1>13 DEF ReadPrefs
  <2>2. FetchFirst'
    <3>1. ~Due("apply") /\ dnrQueue' = Append(dnrQueue, "apply")
      BY <1>13 DEF ReadPrefs, Due, Calling
    <3> QED
      BY <1>0, <3>1, LastInLine DEF FetchFirst, Callers
  <2> QED
    BY <2>1, <2>2 DEF Closing
<1>14. CASE ServeLeadingCall
  <2>1. /\ Same /\ UNCHANGED <<fetch, global, scoped>>
        /\ dnrQueue # <<>> /\ Head(dnrQueue) = "apply" /\ apply.pc = "leading"
    BY <1>14, Zenon DEF ServeLeadingCall
  <2>2. /\ ~apply.open /\ dnrQueue' = Append(Tail(dnrQueue), "apply")
        /\ \/ apply.step < LeadCalls /\ apply' = [apply EXCEPT !.step = @ + 1]
           \/ apply' = [apply EXCEPT !.pc = "tearing"]
    BY <1>3, <1>14, <2>1 DEF ServeLeadingCall
  <2>3. FetchFirst'
    BY <1>0, <2>1, <2>2, LastInLine DEF FetchFirst, Callers
  <2>4. fetch.pc # "global"
    <3>1. CASE apply.step = 0 /\ fetch.pc = "global"
      BY <1>0, <1>3, <2>1, <3>1, HeadIsLast DEF LiveInv, Closing
    <3>2. apply.step = 0 \/ apply.step > 0
      BY <1>0, ConstantsAssumption DEF Apply
    <3> QED
      BY <1>3, <2>1, <3>1, <3>2 DEF LiveInv, Closing
  <2>5. apply'.pc \in {"leading", "tearing"} /\ (apply'.pc = "leading" => apply'.step # 0)
    BY <1>0, <2>1, <2>2, ConstantsAssumption DEF Apply
  <2> QED
    BY <2>1, <2>3, <2>4, <2>5 DEF Closing
<1>15. CASE ReadCache \/ ReconcileScoped \/ ReconcileGlobal
  <2>1. Same /\ apply.pc \in {"readingCache", "scoped", "global"}
    BY <1>15 DEF ReadCache, ReconcileScoped, ReconcileGlobal
  <2> QED
    BY <1>3, <2>1 DEF LiveInv, PassReads
<1>16. CASE TearDown
  <2>1. /\ Same /\ fetch' = fetch /\ global' = 0 /\ scoped' = 0
        /\ dnrQueue # <<>> /\ Head(dnrQueue) = "apply" /\ apply.pc = "tearing"
    BY <1>16, Zenon DEF TearDown
  <2>2. fetch.pc \notin {"global", "scoped"}
    BY <1>0, <1>3, <2>1, HeadIsLast DEF LiveInv, Closing
  <2>3. apply'.pc = "verifying"
    BY <1>0, <1>16 DEF TearDown, Apply
  <2> QED
    BY <2>1, <2>2, <2>3 DEF Closing
<1>17. CASE Verify
  <2>1. /\ Same /\ UNCHANGED <<fetch, global, scoped>> /\ apply.pc = "verifying"
    BY <1>17, Zenon DEF Verify
  <2>2. fetch.pc \notin {"global", "scoped"} /\ global = 0 /\ scoped = 0
    BY <1>3, <2>1 DEF LiveInv, Closing
  <2>3. apply' = NoApply
    BY <1>17, <2>2, Zenon DEF Verify
  <2> QED
    BY <2>1, <2>2, <2>3 DEF Closing, NoApply
<1> QED
  BY <1>1, <1>2, <1>5, <1>6, <1>7, <1>8, <1>9, <1>10, <1>11, <1>12, <1>13, <1>14, <1>15, <1>16, <1>17
  DEF Next, DisableStep, FetchStep, ApplyStep

LEMMA LiveInvHolds == Spec => []LiveInv
<1>1. Init => LiveInv
  <2> SUFFICES ASSUME Init PROVE LiveInv
    OBVIOUS
  <2>1. fetch.pc = "idle" /\ apply.pc = "idle" /\ disabling = "idle" /\ dnrQueue = <<>>
    BY DEF Init, NoFetch, NoApply
  <2>2. global = 0 /\ scoped = 0 /\ cachedPrefs = NoPrefs
    BY DEF Init
  <2>3. QueueOK
    BY <2>1 DEF QueueOK, NoDup, In, Due, Calling, Callers
  <2> QED
    BY <2>1, <2>2, <2>3, TypeInit DEF LiveInv, CacheCurrent, PassReads, Closing
<1>2. LiveInv /\ [Next]_vars => LiveInv'
  BY TypeStep, QueueStep, CacheStep, PassStep, ClosingStep DEF LiveInv
<1> QED
  BY <1>1, <1>2, PTL DEF Spec

\* Once settled, a disabled extension has no remote rule, whatever fetch was in
\* flight when it was disabled, and whatever failed or restarted (the late gate
\* check of mergeIntoCache, the invalidation of the preference cache by a change,
\* the teardown of applyDnrState): for any number of calls that precede the
\* teardown, toggles, fetches, faults and restarts.
THEOREM ClosedIsQuiet == Spec => []ClosedHasNoRemoteRules
<1>1. LiveInv => ClosedHasNoRemoteRules
  BY DEF LiveInv, Closing, ClosedHasNoRemoteRules, Settled
<1> QED
  BY <1>1, LiveInvHolds, PTL

-----------------------------------------------------------------------------
(* Nothing has overlapped a fetch.                                         *)

\* A fetch in flight is alone, and a channel being disabled is off.
Alone ==
    /\ InFlight => apply.pc = "idle" /\ disabling = "idle"
    /\ disabling # "idle" => ~prefs.on

\* The parameters are those of the metadata, and what a fetch read of the metadata
\* is what it will write back.
MetaKept ==
    /\ params = meta.version
    /\ fetch.pc \in {"refreshing", "errorWriting"} => fetch.metaRead.version = meta.version

\* What the rules are while the channel is wanted and no change is left to hear of:
\* those of the cached payload, or, while it is merged, those of the fetched one.
Follows ==
    changes = 0 /\ prefs.open /\ prefs.on =>
      /\ apply.pc = "idle" /\ fetch.pc \notin {"scoped", "persisting"}
           => global = GlobalRule(params) /\ scoped = params
      /\ fetch.pc \in {"scoped", "persisting"} => global = GlobalRule(fetch.payload)
      /\ fetch.pc = "persisting" => scoped = fetch.payload
      /\ apply.pc = "scoped" => apply.read = params /\ apply.facts = params
      /\ apply.pc = "global" => apply.read = params /\ scoped = params

CalmInv ==
    /\ TypeOK /\ QueueOK /\ CacheCurrent /\ PassReads
    /\ ~disturbed => Alone /\ MetaKept /\ Follows

LEMMA AloneStep ==
  ASSUME TypeOK, QueueOK, Alone, [Next]_vars, ~disturbed'
  PROVE  Alone'
<1>0. apply \in Apply /\ fetch \in Fetch
  BY DEF TypeOK
<1>1. CASE UNCHANGED <<prefs, fetch, apply, disabling>>
  BY <1>1 DEF Alone, InFlight
<1>2. CASE Publish \/ WeekPasses \/ Evict \/ UNCHANGED vars
  BY <1>1, <1>2, Zenon DEF Publish, WeekPasses, Evict, vars
<1>3. CASE ToggleGate
  BY <1>3 DEF ToggleGate, Alone, InFlight, TypeOK, Prefs
<1>4. CASE BrowserRestarts
  BY <1>4 DEF BrowserRestarts, Alone, InFlight, NoFetch
<1>5. CASE Enable
  BY <1>5 DEF Enable, StartFetch, Alone, InFlight, NoFetch
<1>6. CASE Disable
  BY <1>6 DEF Disable, Alone, InFlight, TypeOK, Prefs
<1>7. CASE RemoveCache
  BY <1>7 DEF RemoveCache, Alone, InFlight
<1>8. CASE RemoveRules
  BY <1>8 DEF RemoveRules, Alone, InFlight
<1>9. CASE WakeCheck \/ ForceFetch
  <2>1. UNCHANGED <<prefs, apply, disabling>>
    BY <1>9, Zenon DEF WakeCheck, ForceFetch
  <2>2. \/ fetch' = fetch
        \/ prefs.on /\ apply.pc = "idle"
    BY <1>9 DEF WakeCheck, ForceFetch, StartFetch
  <2> QED
    BY <2>1, <2>2 DEF Alone, InFlight
<1>10. CASE FetchStep
  <2>1. InFlight
    BY <1>10 DEF FetchStep, Answer, Validate, Refresh, Gate, WriteGlobal, WriteScoped,
       Persist, ReadForError, WriteError, StorageFails, InFlight
  <2>2. UNCHANGED <<prefs, apply, disabling>>
    BY <1>10, Zenon DEF FetchStep, Answer, Validate, Refresh, Gate, WriteGlobal, WriteScoped,
       Persist, ReadForError, WriteError, StorageFails
  <2> QED
    BY <2>1, <2>2 DEF Alone
<1>11. CASE ApplyStep
  <2>1. ~InFlight
    <3>1. CASE HearChange
      BY <3>1 DEF HearChange
    <3>2. CASE ~HearChange
      BY <1>11, <3>2 DEF ApplyStep, ReadPrefs, ServeLeadingCall, ReadCache, ReconcileScoped,
         TearDown, Verify, ReconcileGlobal, Alone
    <3> QED
      BY <3>1, <3>2
  <2>2. UNCHANGED <<prefs, fetch, disabling>>
    BY <1>11, Zenon DEF ApplyStep, HearChange, ReadPrefs, ServeLeadingCall, ReadCache,
       ReconcileScoped, TearDown, Verify, ReconcileGlobal
  <2> QED
    BY <2>1, <2>2 DEF Alone, InFlight
<1> QED
  BY <1>2, <1>3, <1>4, <1>5, <1>6, <1>7, <1>8, <1>9, <1>10, <1>11 DEF Next, DisableStep

LEMMA MetaStep ==
  ASSUME TypeOK, Alone, MetaKept, [Next]_vars, ~disturbed'
  PROVE  MetaKept'
<1>0. fetch \in Fetch /\ meta \in Meta /\ fetch.metaRead \in Meta
  BY DEF TypeOK, Fetch
<1>1. CASE UNCHANGED <<params, meta, fetch>>
  BY <1>1 DEF MetaKept
<1>2. CASE UNCHANGED <<params, meta>> /\ fetch'.pc \notin {"refreshing", "errorWriting"}
  BY <1>2 DEF MetaKept
<1>3. CASE Publish \/ Evict \/ ToggleGate \/ Disable \/ RemoveRules \/ UNCHANGED vars
  BY <1>1, <1>3, Zenon DEF Publish, Evict, ToggleGate, Disable, RemoveRules, vars, stores
<1>4. CASE ApplyStep
  BY <1>1, <1>4, Zenon DEF ApplyStep, HearChange, ReadPrefs, ServeLeadingCall, ReadCache,
     ReconcileScoped, TearDown, Verify, ReconcileGlobal, stores
<1>5. CASE WeekPasses
  BY <1>0, <1>5 DEF WeekPasses, Meta, MetaKept
<1>6. CASE BrowserRestarts \/ StorageFails
  <2>1. UNCHANGED <<params, meta>> /\ fetch' = NoFetch
    BY <1>6, Zenon DEF BrowserRestarts, StorageFails, Finished, stores
  <2> QED
    BY <1>2, <2>1 DEF NoFetch
<1>7. CASE Enable \/ WakeCheck \/ ForceFetch
  <2>1. UNCHANGED <<params, meta>> /\ (fetch' = fetch \/ fetch' = [NoFetch EXCEPT !.pc = "fetching"])
    BY <1>7, Zenon DEF Enable, WakeCheck, ForceFetch, StartFetch, stores
  <2> QED
    BY <1>1, <1>2, <2>1 DEF NoFetch
<1>8. CASE RemoveCache
  <2>1. fetch' = fetch /\ fetch.pc = "idle" /\ params' = 0 /\ meta' = NoMeta
    BY <1>8 DEF RemoveCache, ClearStorage, Alone, InFlight
  <2> QED
    BY <2>1 DEF MetaKept, NoMeta
<1>9. CASE Answer
  BY <1>0, <1>2, <1>9 DEF Answer, FetchAt, Fetch, stores
<1>10. CASE Validate \/ ReadForError
  <2>1. /\ UNCHANGED <<params, meta>>
        /\ \/ fetch' = [fetch EXCEPT !.pc = "errorReading"]
           \/ fetch' = [fetch EXCEPT !.pc = "refreshing", !.metaRead = meta]
           \/ fetch' = [fetch EXCEPT !.pc = "gating"]
           \/ fetch' = [fetch EXCEPT !.pc = "errorWriting", !.metaRead = meta]
    BY <1>10, Zenon DEF Validate, ReadForError, FetchAt, stores
  <2> QED
    BY <1>0, <2>1 DEF MetaKept, Fetch
<1>11. CASE Refresh \/ WriteError
  <2>1. params' = params /\ meta'.version = fetch.metaRead.version /\ fetch' = NoFetch
    BY <1>0, <1>11 DEF Refresh, WriteError, Meta
  <2>2. fetch.pc \in {"refreshing", "errorWriting"}
    BY <1>11 DEF Refresh, WriteError
  <2> QED
    BY <2>1, <2>2 DEF MetaKept, NoFetch
<1>12. CASE Gate \/ WriteGlobal \/ WriteScoped
  <2>1. UNCHANGED <<params, meta>>
    BY <1>12, Zenon DEF Gate, WriteGlobal, WriteScoped, stores
  <2>2. fetch'.pc \notin {"refreshing", "errorWriting"}
    BY <1>0, <1>12 DEF Gate, WriteGlobal, WriteScoped, FetchAt, Fetch, AfterDnrError
  <2> QED
    BY <1>2, <2>1, <2>2
<1>13. CASE Persist
  BY <1>13 DEF Persist, MetaKept, NoFetch
<1> QED
  BY <1>3, <1>4, <1>5, <1>6, <1>7, <1>8, <1>9, <1>10, <1>11, <1>12, <1>13
  DEF Next, DisableStep, FetchStep

LEMMA FollowsStep ==
  ASSUME CalmInv, [Next]_vars, ~disturbed, ~disturbed'
  PROVE  Follows'
<1> SUFFICES ASSUME changes' = 0, prefs'.open, prefs'.on
             PROVE  Follows'
  BY DEF Follows
<1>0. /\ TypeOK /\ QueueOK /\ apply \in Apply /\ fetch \in Fetch
      /\ Alone /\ MetaKept /\ CacheCurrent /\ PassReads
  BY DEF CalmInv, TypeOK
<1>1. CASE BrowserRestarts \/ ToggleGate \/ Enable \/ Disable
  BY <1>0, <1>1 DEF BrowserRestarts, ToggleGate, Enable, Disable, TypeOK
<1>2. CASE HearChange
  BY <1>2 DEF HearChange, NoApply, Follows, InFlight
<1> DEFINE Same == UNCHANGED <<prefs, changes>>
<1>3. Same => /\ changes = 0 /\ prefs.open /\ prefs.on
              /\ cachedPrefs \in {NoPrefs, prefs} /\ disabling = "idle"
              /\ apply.pc \notin {"idle", "reading"} => apply.open /\ apply.on
  BY <1>0 DEF Alone, CacheCurrent, PassReads
<1>4. CASE UNCHANGED <<prefs, changes, apply, fetch, params, global, scoped>>
  BY <1>4 DEF CalmInv, Follows
<1>5. CASE Publish \/ WeekPasses \/ Evict \/ UNCHANGED vars
  BY <1>4, <1>5, Zenon DEF Publish, WeekPasses, Evict, vars, stores
<1>6. CASE RemoveCache
  BY <1>3, <1>6 DEF RemoveCache
<1>7. CASE RemoveRules
  <2>1. disabling = "clearing"
    BY <1>0, <1>7, Served DEF RemoveRules, TypeOK, QueueOK, Due, Callers
  <2> QED
    BY <1>3, <1>7, <2>1 DEF RemoveRules
<1>8. CASE WakeCheck \/ ForceFetch
  <2>1. CASE /\ ~InFlight /\ fetch' = [NoFetch EXCEPT !.pc = "fetching"]
             /\ UNCHANGED <<prefs, changes, apply, params, global, scoped>>
    <3>1. fetch'.pc = "fetching" /\ fetch.pc = "idle"
      BY <2>1 DEF NoFetch, InFlight
    <3> QED
      BY <2>1, <3>1 DEF CalmInv, Follows
  <2> QED
    BY <1>4, <1>8, <2>1, Zenon DEF WakeCheck, ForceFetch, StartFetch, stores
<1>9. CASE FetchStep
  <2>1. Same /\ UNCHANGED apply
    BY <1>9, Zenon DEF FetchStep, Answer, Validate, Refresh, Gate, WriteGlobal, WriteScoped,
       Persist, ReadForError, WriteError, StorageFails
  <2>2. InFlight
    BY <1>9 DEF FetchStep, Answer, Validate, Refresh, Gate, WriteGlobal, WriteScoped,
       Persist, ReadForError, WriteError, StorageFails, InFlight
  <2>3. apply.pc = "idle"
    BY <1>0, <2>2 DEF Alone
  <2>4. CASE Answer \/ Validate \/ Refresh \/ ReadForError \/ WriteError
    <3>1. UNCHANGED <<params, global, scoped>>
      BY <2>4, Zenon DEF Answer, Validate, Refresh, ReadForError, WriteError, stores
    <3>2. fetch.pc \notin {"scoped", "persisting"}
      BY <2>4 DEF Answer, Validate, Refresh, ReadForError, WriteError
    <3>3. fetch'.pc \notin {"scoped", "persisting"}
      BY <1>0, <2>4, AwayFromRules
    <3> QED
      BY <1>3, <2>1, <2>3, <3>1, <3>2, <3>3 DEF CalmInv, Follows
  <2>5. CASE Gate
    <3>1. LiveGate
      BY <1>3, <2>1 DEF LiveGate, SeenPrefs
    <3>2. /\ UNCHANGED <<params, global, scoped>> /\ fetch.pc = "gating"
          /\ fetch' = [fetch EXCEPT !.pc = "global"]
      BY <2>5, <3>1, Zenon DEF Gate, FetchAt, stores
    <3>3. fetch'.pc = "global"
      BY <1>0, <3>2 DEF Fetch
    <3> QED
      BY <1>3, <2>1, <2>3, <3>2, <3>3 DEF CalmInv, Follows
  <2>6. CASE WriteGlobal
    <3>1. UNCHANGED <<params, scoped>> /\ fetch.pc = "global"
      BY <2>6, Zenon DEF WriteGlobal, stores
    <3>2. \/ fetch'.pc = "scoped" /\ fetch'.payload = fetch.payload /\ global' = GlobalRule(fetch.payload)
          \/ fetch'.pc = "errorReading" /\ global' = global
      BY <1>0, <2>6 DEF WriteGlobal, FetchAt, AfterDnrError, Fetch
    <3> QED
      BY <1>3, <2>1, <2>3, <3>1, <3>2 DEF CalmInv, Follows
  <2>7. CASE WriteScoped
    <3>1. UNCHANGED <<params, global>> /\ fetch.pc = "scoped"
      BY <2>7, Zenon DEF WriteScoped, stores
    <3>2. fetch'.pc = "persisting" /\ fetch'.payload = fetch.payload
      BY <1>0, <2>7 DEF WriteScoped, FetchAt, Fetch
    <3>3. scoped' = fetch.payload
      BY <2>7 DEF WriteScoped, MayFail
    <3> QED
      BY <1>3, <2>1, <2>3, <3>1, <3>2, <3>3 DEF CalmInv, Follows
  <2>8. CASE Persist
    <3>1. /\ UNCHANGED <<global, scoped>> /\ fetch.pc = "persisting"
          /\ params' = fetch.payload /\ fetch'.pc = "idle"
      BY <2>8 DEF Persist, NoFetch
    <3> QED
      BY <1>3, <2>1, <2>3, <3>1 DEF CalmInv, Follows, GlobalRule
  <2>9. ~StorageFails
    BY DEF StorageFails, MayFail
  <2> QED
    BY <1>9, <2>4, <2>5, <2>6, <2>7, <2>8, <2>9 DEF FetchStep
<1>10. CASE ApplyStep
  <2>1. UNCHANGED <<params, fetch>>
    BY <1>10, Zenon DEF ApplyStep, HearChange, ReadPrefs, ServeLeadingCall, ReadCache,
       ReconcileScoped, TearDown, Verify, ReconcileGlobal, stores
  <2>2. CASE ~HearChange
    <3>1. Same /\ apply.pc # "idle"
      BY <1>10, <2>2 DEF ApplyStep, ReadPrefs, ServeLeadingCall, ReadCache,
         ReconcileScoped, TearDown, Verify, ReconcileGlobal
    <3>2. fetch.pc = "idle"
      BY <1>0, <3>1 DEF Alone, InFlight
    <3>3. CASE ReadPrefs
      BY <2>1, <3>2, <3>3 DEF ReadPrefs, Follows
    <3>4. CASE ServeLeadingCall
      <4>1. apply'.pc \in {"leading", "readingCache"}
        BY <1>0, <1>3, <3>1, <3>4 DEF ServeLeadingCall, Apply
      <4> QED
        BY <2>1, <3>2, <4>1 DEF Follows
    <3>5. CASE ReadCache
      <4>1. apply'.pc = "scoped" /\ apply'.read = params /\ apply'.facts = params
        BY <1>0, <3>5 DEF ReadCache, Apply, MetaKept
      <4> QED
        BY <2>1, <3>2, <4>1 DEF Follows
    <3>6. CASE ReconcileScoped
      <4>1. apply'.pc = "global" /\ apply'.read = apply.read /\ scoped' = apply.facts
            /\ apply.pc = "scoped"
        BY <1>0, <3>6 DEF ReconcileScoped, Apply
      <4> QED
        BY <1>3, <2>1, <3>1, <3>2, <4>1 DEF CalmInv, Follows
    <3>7. CASE ReconcileGlobal
      <4>1. apply'.pc = "idle" /\ scoped' = scoped /\ global' = GlobalRule(apply.read)
            /\ apply.pc = "global"
        BY <3>7 DEF ReconcileGlobal, NoApply
      <4> QED
        BY <1>3, <2>1, <3>1, <3>2, <4>1 DEF CalmInv, Follows, GlobalRule
    <3>8. CASE TearDown \/ Verify
      BY <1>0, <1>3, <3>1, <3>8 DEF TearDown, Verify, PassReads
    <3> QED
      BY <1>10, <2>2, <3>3, <3>4, <3>5, <3>6, <3>7, <3>8 DEF ApplyStep
  <2> QED
    BY <1>2, <2>2
<1> QED
  BY <1>1, <1>2, <1>5, <1>6, <1>7, <1>8, <1>9, <1>10 DEF Next, DisableStep

LEMMA CalmInvStep == CalmInv /\ [Next]_vars => CalmInv'
<1> SUFFICES ASSUME CalmInv, [Next]_vars PROVE CalmInv'
  OBVIOUS
<1>1. TypeOK' /\ QueueOK' /\ CacheCurrent' /\ PassReads'
  BY TypeStep, QueueStep, CacheStep, PassStep DEF CalmInv
<1>2. ASSUME ~disturbed'
      PROVE  Alone' /\ MetaKept' /\ Follows'
  <2>1. ~disturbed
    BY <1>2, DisturbedKept DEF CalmInv, TypeOK
  <2> QED
    BY <1>2, <2>1, AloneStep, MetaStep, FollowsStep DEF CalmInv
<1> QED
  BY <1>1, <1>2 DEF CalmInv

\* As long as nothing has overlapped a fetch, and no failure but that of the network
\* or of the write of rule 1001 has hit one, the metadata describes the cached
\* parameters (step 5b of runRemoteRulesFetch), and once settled the rules are those
\* of the cached payload (mergeIntoCache, reconcileRemoteDnrRule), through any number
\* of versions, fetches, toggles and restarts, a restart in the middle of a merge
\* included.
THEOREM CalmStoresAgree == Spec => []SettledAgree
<1>1. Init => CalmInv
  <2> SUFFICES ASSUME Init PROVE CalmInv
    OBVIOUS
  <2>1. fetch.pc = "idle" /\ apply.pc = "idle" /\ disabling = "idle"
    BY DEF Init, NoFetch, NoApply
  <2>2. /\ global = 0 /\ scoped = 0 /\ params = 0 /\ meta.version = 0
        /\ cachedPrefs = NoPrefs /\ dnrQueue = <<>>
    BY DEF Init, NoMeta
  <2>3. QueueOK
    BY <2>1, <2>2 DEF QueueOK, NoDup, In, Due, Calling, Callers
  <2>4. GlobalRule(0) = 0
    BY DEF GlobalRule
  <2> QED
    BY <2>1, <2>2, <2>3, <2>4, TypeInit
    DEF CalmInv, CacheCurrent, PassReads, Alone, MetaKept, Follows, InFlight
<1>2. CalmInv /\ [Next]_vars => CalmInv'
  BY CalmInvStep
<1>3. CalmInv => SettledAgree
  BY DEF CalmInv, MetaKept, Follows, SettledAgree, MetaDescribesParams, RulesFollowCache,
     Settled, InFlight
<1> QED
  BY <1>1, <1>2, <1>3, PTL DEF Spec
=============================================================================
