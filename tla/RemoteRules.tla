----------------------------- MODULE RemoteRules -----------------------------
(***************************************************************************)
(* The remote-rules channel: the signed payload fetched by                 *)
(* runRemoteRulesFetch and merged by mergeIntoCache (lib/remote-rules.js), *)
(* dropped by clearRemoteCache, rebuilt from the cache by                  *)
(* reconcileRemoteDnrRule (background/dnr-sync.js), and triggered by the   *)
(* wake check (background/remote-rules-wake.js) and by the ENABLE_, DISABLE_*)
(* and FORCE_FETCH_REMOTE_RULES messages (background/service-worker.js).   *)
(*                                                                         *)
(* A payload is its version; 0 stands for "no payload", "no rule".  Three  *)
(* activities interleave at every await: the one fetch in flight, the      *)
(* DISABLE handler, and applyDnrState, of which DnrGate has the details.   *)
(***************************************************************************)
EXTENDS Naturals, Sequences, FiniteSets

CONSTANTS
    MaxVersion,     \* bound: payload versions ever published
    EmptyVersions,  \* versions whose parameters are all built in already
    Faulty,         \* what may fail besides the network
    LeadCalls,      \* calls applyDnrState makes before it comes to remote rules
    MaxFaults,      \* bound: failures of what is in Faulty
    MaxToggles,     \* bound: uses of the two toggles
    MaxFetches,     \* bound: fetches started
    MaxRestarts     \* bound: restarts and evictions

ASSUME ConstantsAssumption ==
    /\ MaxVersion \in Nat
    /\ EmptyVersions \subseteq 1..MaxVersion
    /\ Faulty \subseteq {"globalRule", "scopedRules", "storage"}
    /\ LeadCalls \in Nat
    /\ MaxFaults \in Nat /\ MaxToggles \in Nat /\ MaxFetches \in Nat
    /\ MaxRestarts \in Nat

VARIABLES
    prefs,       \* stored: open (enabled and accepted), on (remoteRulesEnabled)
    cachedPrefs, \* the worker's prefs cache, or NoPrefs
    changes,     \* preference changes the worker has not heard of
    published,   \* latest version published
    params,      \* remoteParams in storage.local
    meta,        \* remoteRulesMeta in storage.local
    floor,       \* remoteRulesVersionFloor in storage.local
    global,      \* rule 1001
    scoped,      \* rules 3100-5099
    checked,     \* _remoteRulesCheckedThisLifetime
    fetch,       \* runRemoteRulesFetch; in flight unless its pc is "idle"
    disabling,   \* the DISABLE handler: "idle", "removing" or "clearing"
    apply,       \* applyDnrState
    dnrQueue,    \* who waits for a declarativeNetRequest call
    disturbed,   \* history: a toggle or an applyDnrState has met a fetch in flight,
                 \* or the write of the scoped rules or a storage call has failed
    faults, toggles, fetches, restarts

stores == <<params, meta, floor>>
bounds == <<faults, toggles, fetches, restarts>>
vars == <<prefs, cachedPrefs, changes, published, stores, global, scoped, checked,
          fetch, disabling, apply, dnrQueue, disturbed, bounds>>

Version == 0..MaxVersion

-----------------------------------------------------------------------------
NoPrefs == [k \in {} |-> FALSE]

\* DEFAULT_META.  fresh: fetchedAt is less than a week old.
NoMeta == [version |-> 0, fresh |-> FALSE, error |-> FALSE]

NoFetch == [pc |-> "idle", payload |-> 0, metaRead |-> NoMeta]
NoApply == [pc |-> "idle", open |-> FALSE, on |-> FALSE, step |-> 0, read |-> 0,
            facts |-> 0, attempt |-> 0]

Max2(a, b) == IF a > b THEN a ELSE b

\* buildRemoteDnrRule is not called for an empty list: the rule is removed.
GlobalRule(v) == IF v \in EmptyVersions THEN 0 ELSE v

Init ==
    /\ prefs \in [open : BOOLEAN, on : BOOLEAN]
    /\ cachedPrefs = NoPrefs
    /\ changes = 0
    /\ published = 0
    /\ params = 0 /\ meta = NoMeta /\ floor = 0
    /\ global = 0 /\ scoped = 0
    /\ checked = FALSE
    /\ fetch = NoFetch /\ disabling = "idle" /\ apply = NoApply
    /\ dnrQueue = <<>>
    /\ disturbed = FALSE
    /\ faults = 0 /\ toggles = 0 /\ fetches = 0 /\ restarts = 0

InFlight == fetch.pc # "idle"
MayFail(what) == what \in Faulty /\ faults < MaxFaults
Fails == faults' = faults + 1 /\ UNCHANGED <<toggles, fetches, restarts>>

-----------------------------------------------------------------------------
(* The world.                                                              *)

\* The maintainers sign and publish the next version.
Publish ==
    /\ published < MaxVersion
    /\ published' = published + 1
    /\ UNCHANGED <<prefs, cachedPrefs, changes, stores, global, scoped, checked,
                   fetch, disabling, apply, dnrQueue, disturbed, bounds>>

\* REMOTE_REFRESH_INTERVAL_MS go by.
WeekPasses ==
    /\ meta.fresh
    /\ meta' = [meta EXCEPT !.fresh = FALSE]
    /\ UNCHANGED <<prefs, cachedPrefs, changes, published, params, floor, global,
                   scoped, checked, fetch, disabling, apply, dnrQueue, disturbed,
                   bounds>>

\* The browser stops, in the middle of anything, and starts again: onStartup
\* applies the stored state.
BrowserRestarts ==
    /\ restarts < MaxRestarts
    /\ restarts' = restarts + 1
    /\ cachedPrefs' = NoPrefs
    /\ changes' = 1
    /\ checked' = FALSE
    /\ fetch' = NoFetch /\ disabling' = "idle" /\ apply' = NoApply
    /\ dnrQueue' = <<>>
    /\ UNCHANGED <<prefs, published, stores, global, scoped, disturbed, faults,
                   toggles, fetches>>

\* The idle worker is evicted: nothing is applied again when it wakes.
Evict ==
    /\ changes = 0 /\ apply.pc = "idle" /\ disabling = "idle" /\ ~InFlight
    /\ restarts < MaxRestarts
    /\ restarts' = restarts + 1
    /\ cachedPrefs' = NoPrefs
    /\ checked' = FALSE
    /\ UNCHANGED <<prefs, changes, published, stores, global, scoped, fetch,
                   disabling, apply, dnrQueue, disturbed, faults, toggles, fetches>>

\* The user switches MUGA on or off (popup, Settings).
ToggleGate ==
    /\ toggles < MaxToggles
    /\ disturbed' = (disturbed \/ InFlight)
    /\ toggles' = toggles + 1
    /\ prefs' = [prefs EXCEPT !.open = ~@]
    /\ changes' = changes + 1
    /\ UNCHANGED <<cachedPrefs, published, stores, global, scoped, checked, fetch,
                   disabling, apply, dnrQueue, faults, fetches, restarts>>

-----------------------------------------------------------------------------
(* What starts and stops the channel.                                      *)

StartFetch ==
    /\ fetches < MaxFetches
    /\ disturbed' = (disturbed \/ apply.pc # "idle" \/ disabling # "idle")
    /\ fetches' = fetches + 1
    /\ fetch' = [NoFetch EXCEPT !.pc = "fetching"]

\* ENABLE_REMOTE_RULES.  The override it writes raises a change event; its fetch
\* is dropped when one is in flight.
Enable ==
    /\ toggles < MaxToggles
    /\ ~prefs.on
    /\ toggles' = toggles + 1
    /\ prefs' = [prefs EXCEPT !.on = TRUE]
    /\ changes' = changes + 1
    /\ cachedPrefs' = NoPrefs
    /\ \/ InFlight /\ disturbed' = TRUE /\ UNCHANGED <<fetch, fetches>>
       \/ ~InFlight /\ StartFetch
    /\ UNCHANGED <<published, stores, global, scoped, checked, disabling, apply,
                   dnrQueue, faults, restarts>>

\* DISABLE_REMOTE_RULES up to the storage.remove of clearRemoteCache.
Disable ==
    /\ toggles < MaxToggles
    /\ prefs.on /\ disabling = "idle"
    /\ disturbed' = (disturbed \/ InFlight)
    /\ toggles' = toggles + 1
    /\ prefs' = [prefs EXCEPT !.on = FALSE]
    /\ changes' = changes + 1
    /\ cachedPrefs' = NoPrefs
    /\ disabling' = "removing"
    /\ UNCHANGED <<published, stores, global, scoped, checked, fetch, apply, dnrQueue,
                   faults, fetches, restarts>>

ClearKeepsMeta == params' = 0 /\ UNCHANGED <<meta, floor>>

\* The keys clearRemoteCache removes: not the version floor.
ClearStorage == params' = 0 /\ meta' = NoMeta /\ floor' = floor

\* clearRemoteCache: storage first, then the rules.
RemoveCache ==
    /\ disabling = "removing"
    /\ ClearStorage
    /\ cachedPrefs' = NoPrefs
    /\ disabling' = "clearing"
    /\ dnrQueue' = Append(dnrQueue, "disable")
    /\ UNCHANGED <<prefs, changes, published, global, scoped, checked, fetch, apply,
                   disturbed, bounds>>

RemoveRules ==
    /\ dnrQueue # <<>> /\ Head(dnrQueue) = "disable"
    /\ global' = 0 /\ scoped' = 0
    /\ disabling' = "idle"
    /\ dnrQueue' = Tail(dnrQueue)
    /\ UNCHANGED <<prefs, cachedPrefs, changes, published, stores, checked, fetch,
                   apply, disturbed, bounds>>

\* maybeFetchRemoteRules: once per lifetime, when the cache is a week old.
WakeCheck ==
    /\ ~checked
    /\ checked' = TRUE
    /\ \/ /\ prefs.open /\ prefs.on /\ ~meta.fresh /\ ~InFlight
          /\ StartFetch
       \/ /\ ~prefs.open \/ ~prefs.on \/ meta.fresh \/ InFlight
          /\ UNCHANGED <<fetch, disturbed, fetches>>
    /\ UNCHANGED <<prefs, cachedPrefs, changes, published, stores, global, scoped,
                   disabling, apply, dnrQueue, faults, toggles, restarts>>

\* FORCE_FETCH_REMOTE_RULES.
ForceFetch ==
    /\ prefs.open /\ prefs.on /\ ~InFlight
    /\ StartFetch
    /\ UNCHANGED <<prefs, cachedPrefs, changes, published, stores, global, scoped,
                   checked, disabling, apply, dnrQueue, faults, toggles, restarts>>

-----------------------------------------------------------------------------
(* runRemoteRulesFetch.                                                    *)

FetchAt(pc) == fetch' = [fetch EXCEPT !.pc = pc]

\* The answer arrives: an authentic payload (an edge cache may serve an old one),
\* or nothing usable (timeout, over the cap, bad shape, bad signature).
Answer ==
    /\ fetch.pc = "fetching"
    /\ \/ \E v \in 1..published :
             fetch' = [fetch EXCEPT !.pc = "validating", !.payload = v]
       \/ FetchAt("errorReading")
    /\ UNCHANGED <<prefs, cachedPrefs, changes, published, stores, global, scoped,
                   checked, disabling, apply, dnrQueue, disturbed, bounds>>

FloorIsMetaOnly(v) == v >= meta.version

\* The rollback check of validateParams, against the floor that survives a
\* disable.
NotARollback(v) == v >= Max2(meta.version, floor)

\* Step 5 and 5b: the stored metadata decides what the payload is.
Validate ==
    /\ fetch.pc = "validating"
    /\ LET v == fetch.payload IN
         \/ ~NotARollback(v) /\ FetchAt("errorReading")
         \/ /\ NotARollback(v) /\ meta.version = v
            /\ fetch' = [fetch EXCEPT !.pc = "refreshing", !.metaRead = meta]
         \/ NotARollback(v) /\ meta.version # v /\ FetchAt("gating")
    /\ UNCHANGED <<prefs, cachedPrefs, changes, published, stores, global, scoped,
                   checked, disabling, apply, dnrQueue, disturbed, bounds>>

\* The up-to-date write: the metadata as read, with a new stamp.
Refresh ==
    /\ fetch.pc = "refreshing"
    /\ meta' = [fetch.metaRead EXCEPT !.fresh = TRUE, !.error = FALSE]
    /\ cachedPrefs' = NoPrefs
    /\ fetch' = NoFetch
    /\ UNCHANGED <<prefs, changes, published, params, floor, global, scoped,
                   checked, disabling, apply, dnrQueue, disturbed, bounds>>

\* _currentGateOpen: the cached preferences, or the stored ones.
SeenPrefs == IF cachedPrefs = NoPrefs THEN prefs ELSE cachedPrefs

GateAssumedOpen == TRUE

\* getGateOpen, read as late as possible.
LiveGate == SeenPrefs.open

\* The late gate check; an open gate leads to the write of rule 1001.
Gate ==
    /\ fetch.pc = "gating"
    /\ cachedPrefs' = SeenPrefs
    /\ \/ LiveGate /\ FetchAt("global") /\ dnrQueue' = Append(dnrQueue, "fetch")
       \/ ~LiveGate /\ FetchAt("persisting") /\ UNCHANGED dnrQueue
    /\ UNCHANGED <<prefs, changes, published, stores, global, scoped, checked,
                   disabling, apply, disturbed, bounds>>

DnrErrorIgnored == "persisting"

\* Where a failed write of rule 1001 leads: the version is not advanced.
AfterDnrError == "errorReading"

WriteGlobal ==
    /\ fetch.pc = "global"
    /\ dnrQueue # <<>> /\ Head(dnrQueue) = "fetch"
    /\ \/ /\ global' = GlobalRule(fetch.payload)
          /\ FetchAt("scoped")
          /\ dnrQueue' = Append(Tail(dnrQueue), "fetch")
          /\ UNCHANGED bounds
       \/ /\ MayFail("globalRule") /\ Fails
          /\ FetchAt(AfterDnrError)
          /\ dnrQueue' = Tail(dnrQueue)
          /\ UNCHANGED global
    /\ UNCHANGED <<prefs, cachedPrefs, changes, published, stores, scoped, checked,
                   disabling, apply, disturbed>>

\* applyScopedDnrRules; its failure is swallowed.
WriteScoped ==
    /\ fetch.pc = "scoped"
    /\ dnrQueue # <<>> /\ Head(dnrQueue) = "fetch"
    /\ \/ scoped' = fetch.payload /\ UNCHANGED <<disturbed, bounds>>
       \/ /\ MayFail("scopedRules") /\ Fails
          /\ disturbed' = TRUE
          /\ UNCHANGED scoped
    /\ FetchAt("persisting")
    /\ dnrQueue' = Tail(dnrQueue)
    /\ UNCHANGED <<prefs, cachedPrefs, changes, published, stores, global, checked,
                   disabling, apply>>

\* The end of mergeIntoCache.
Persist ==
    /\ fetch.pc = "persisting"
    /\ params' = fetch.payload
    /\ meta' = [version |-> fetch.payload, fresh |-> TRUE, error |-> FALSE]
    /\ floor' = Max2(floor, fetch.payload)
    /\ cachedPrefs' = NoPrefs
    /\ fetch' = NoFetch
    /\ UNCHANGED <<prefs, changes, published, global, scoped, checked, disabling,
                   apply, dnrQueue, disturbed, bounds>>

\* _writeError reads the metadata and then writes it back with an error.
ReadForError ==
    /\ fetch.pc = "errorReading"
    /\ fetch' = [fetch EXCEPT !.pc = "errorWriting", !.metaRead = meta]
    /\ UNCHANGED <<prefs, cachedPrefs, changes, published, stores, global, scoped,
                   checked, disabling, apply, dnrQueue, disturbed, bounds>>

WriteError ==
    /\ fetch.pc = "errorWriting"
    /\ meta' = [fetch.metaRead EXCEPT !.error = TRUE]
    /\ cachedPrefs' = NoPrefs
    /\ fetch' = NoFetch
    /\ UNCHANGED <<prefs, changes, published, params, floor, global, scoped,
                   checked, disabling, apply, dnrQueue, disturbed, bounds>>

InFlightForever == [fetch EXCEPT !.pc = "ended"]

HalfReset == [pc |-> "idle"]

\* The finally of runRemoteRulesFetch.
Finished == NoFetch

\* A storage call of the pipeline rejects: the fetch ends there.
StorageFails ==
    /\ fetch.pc \in {"validating", "refreshing", "persisting", "errorReading",
                     "errorWriting"}
    /\ MayFail("storage") /\ Fails
    /\ fetch' = Finished
    /\ disturbed' = TRUE
    /\ UNCHANGED <<prefs, cachedPrefs, changes, published, stores, global, scoped,
                   checked, disabling, apply, dnrQueue>>

FetchStep ==
    \/ Answer \/ Validate \/ Refresh \/ Gate \/ WriteGlobal \/ WriteScoped
    \/ Persist \/ ReadForError \/ WriteError \/ StorageFails

-----------------------------------------------------------------------------
(* applyDnrState, as far as remote rules are concerned.                    *)

\* storage.onChanged for a preference, or onStartup.
HearChange ==
    /\ changes > 0 /\ apply.pc = "idle"
    /\ disturbed' = (disturbed \/ InFlight)
    /\ changes' = changes - 1
    /\ cachedPrefs' = NoPrefs
    /\ apply' = [NoApply EXCEPT !.pc = "reading"]
    /\ UNCHANGED <<prefs, published, stores, global, scoped, checked, fetch, disabling,
                   dnrQueue, bounds>>

ReadPrefs ==
    /\ apply.pc = "reading"
    /\ cachedPrefs' = SeenPrefs
    /\ apply' = [pc |-> "leading", open |-> SeenPrefs.open, on |-> SeenPrefs.on,
                 step |-> 0, read |-> 0, facts |-> 0, attempt |-> 1]
    /\ dnrQueue' = Append(dnrQueue, "apply")
    /\ UNCHANGED <<prefs, changes, published, stores, global, scoped, checked,
                   fetch, disabling, disturbed, bounds>>

\* One of the calls for the other rule families; after the last one an open gate
\* reads the cached payload (or none, when the channel is off).
ServeLeadingCall ==
    /\ apply.pc = "leading"
    /\ dnrQueue # <<>> /\ Head(dnrQueue) = "apply"
    /\ \/ /\ apply.step < LeadCalls
          /\ apply' = [apply EXCEPT !.step = @ + 1]
          /\ dnrQueue' = Append(Tail(dnrQueue), "apply")
       \/ /\ apply.step = LeadCalls /\ apply.open /\ apply.on
          /\ apply' = [apply EXCEPT !.pc = "readingCache"]
          /\ dnrQueue' = Tail(dnrQueue)
       \/ /\ apply.step = LeadCalls /\ apply.open /\ ~apply.on
          /\ apply' = [apply EXCEPT !.pc = "scoped"]
          /\ dnrQueue' = Append(Tail(dnrQueue), "apply")
       \/ /\ apply.step = LeadCalls /\ ~apply.open
          /\ apply' = [apply EXCEPT !.pc = "tearing"]
          /\ dnrQueue' = Append(Tail(dnrQueue), "apply")
    /\ UNCHANGED <<prefs, cachedPrefs, changes, published, stores, global, scoped,
                   checked, fetch, disabling, disturbed, bounds>>

\* getRemoteParams: the parameters, and with the metadata the scoped facts.
ReadCache ==
    /\ apply.pc = "readingCache"
    /\ apply' = [apply EXCEPT !.pc = "scoped", !.read = params, !.facts = meta.version]
    /\ dnrQueue' = Append(dnrQueue, "apply")
    /\ UNCHANGED <<prefs, cachedPrefs, changes, published, stores, global, scoped,
                   checked, fetch, disabling, disturbed, bounds>>

\* reconcileRemoteDnrRule's two calls.
ReconcileScoped ==
    /\ apply.pc = "scoped"
    /\ dnrQueue # <<>> /\ Head(dnrQueue) = "apply"
    /\ scoped' = apply.facts
    /\ apply' = [apply EXCEPT !.pc = "global"]
    /\ dnrQueue' = Append(Tail(dnrQueue), "apply")
    /\ UNCHANGED <<prefs, cachedPrefs, changes, published, stores, global, checked,
                   fetch, disabling, disturbed, bounds>>

ReconcileGlobal ==
    /\ apply.pc = "global"
    /\ dnrQueue # <<>> /\ Head(dnrQueue) = "apply"
    /\ global' = GlobalRule(apply.read)
    /\ apply' = NoApply
    /\ dnrQueue' = Tail(dnrQueue)
    /\ UNCHANGED <<prefs, cachedPrefs, changes, published, stores, scoped, checked,
                   fetch, disabling, disturbed, bounds>>

\* The remoteParams step of tearDownAndVerify.
TearDown ==
    /\ apply.pc = "tearing"
    /\ dnrQueue # <<>> /\ Head(dnrQueue) = "apply"
    /\ global' = 0 /\ scoped' = 0
    /\ apply' = [apply EXCEPT !.pc = "verifying"]
    /\ dnrQueue' = Append(Tail(dnrQueue), "apply")
    /\ UNCHANGED <<prefs, cachedPrefs, changes, published, stores, checked, fetch,
                   disabling, disturbed, bounds>>

\* Its read-back: what is left earns one more pass.
Verify ==
    /\ apply.pc = "verifying"
    /\ dnrQueue # <<>> /\ Head(dnrQueue) = "apply"
    /\ \/ /\ global = 0 /\ scoped = 0
          /\ apply' = NoApply /\ dnrQueue' = Tail(dnrQueue)
       \/ /\ ~(global = 0 /\ scoped = 0) /\ apply.attempt = 1
          /\ apply' = [apply EXCEPT !.pc = "leading", !.step = 0, !.attempt = 2]
          /\ dnrQueue' = Append(Tail(dnrQueue), "apply")
       \/ /\ ~(global = 0 /\ scoped = 0) /\ apply.attempt = 2
          /\ apply' = NoApply /\ dnrQueue' = Tail(dnrQueue)
    /\ UNCHANGED <<prefs, cachedPrefs, changes, published, stores, global, scoped,
                   checked, fetch, disabling, disturbed, bounds>>

ApplyStep ==
    \/ HearChange \/ ReadPrefs \/ ServeLeadingCall \/ ReadCache \/ ReconcileScoped
    \/ ReconcileGlobal \/ TearDown \/ Verify

DisableStep == RemoveCache \/ RemoveRules

Next ==
    \/ Publish \/ WeekPasses \/ BrowserRestarts \/ Evict \/ ToggleGate
    \/ Enable \/ Disable \/ DisableStep \/ WakeCheck \/ ForceFetch
    \/ FetchStep \/ ApplyStep

Spec == Init /\ [][Next]_vars

\* fetchWithCap times out, and storage and declarativeNetRequest answer.
FairSpec == Spec /\ WF_vars(FetchStep) /\ WF_vars(ApplyStep) /\ WF_vars(DisableStep)

-----------------------------------------------------------------------------
(* Properties.                                                             *)

Settled == changes = 0 /\ apply.pc = "idle" /\ disabling = "idle" /\ ~InFlight

Prefs == [open : BOOLEAN, on : BOOLEAN]
Meta == [version : Version, fresh : BOOLEAN, error : BOOLEAN]
Fetch == [pc : {"idle", "fetching", "validating", "refreshing", "gating", "global",
                "scoped", "persisting", "errorReading", "errorWriting"},
          payload : Version, metaRead : Meta]
Apply == [pc : {"idle", "reading", "leading", "readingCache", "scoped", "global",
                "tearing", "verifying"},
          open : BOOLEAN, on : BOOLEAN, step : 0..LeadCalls, read : Version,
          facts : Version, attempt : 0..2]

\* Type correctness.
TypeOK ==
    /\ prefs \in Prefs /\ cachedPrefs \in Prefs \cup {NoPrefs}
    /\ changes \in Nat
    /\ published \in Version /\ params \in Version /\ floor \in Version
    /\ global \in Version /\ scoped \in Version
    /\ meta \in Meta
    /\ checked \in BOOLEAN
    /\ fetch \in Fetch
    /\ disabling \in {"idle", "removing", "clearing"}
    /\ apply \in Apply
    /\ dnrQueue \in Seq({"fetch", "disable", "apply"})
    /\ disturbed \in BOOLEAN
    /\ faults \in Nat /\ toggles \in Nat /\ fetches \in Nat /\ restarts \in Nat

\* A signed payload older than one already merged is never merged again, not even
\* after a disable and a re-enable (the floor clearRemoteCache leaves alone).
NoRollback == [][params' # params /\ params' # 0 => params' >= floor]_vars

\* The metadata describes the cached payload: a version the next fetch would call
\* up to date is one whose parameters are there (runRemoteRulesFetch step 5b).
MetaDescribesParams == meta.version # 0 => params = meta.version

\* Once settled with the gate open and the channel on, the rules are those of the
\* cached payload, whatever was fetched while the gate was closed, and although a
\* fetch writes the rules before it records the version (mergeIntoCache).
RulesFollowCache ==
    Settled /\ prefs.open /\ prefs.on
        => global = GlobalRule(params) /\ scoped = params

\* As long as nothing has overlapped a fetch, and no failure but that of the network
\* or of the write of rule 1001 has hit one, what is stored agrees: the metadata
\* describes the parameters, and the rules follow both.
SettledAgree == ~disturbed => MetaDescribesParams /\ RulesFollowCache

\* Once settled, a disabled extension has no remote rule, even when it was
\* disabled during a fetch (the late gate check, the teardown's read-back).
ClosedHasNoRemoteRules == Settled /\ ~prefs.open => global = 0 /\ scoped = 0

\* Once settled with the channel off, nothing remote is left registered
\* (clearRemoteCache).
DisabledHasNoRemoteRules == Settled /\ ~prefs.on => global = 0 /\ scoped = 0

\* A fetch in flight ends, so the next one is not dropped for ever.
FetchEnds == InFlight ~> ~InFlight
=============================================================================
