------------------------------- MODULE DnrGate -------------------------------
(***************************************************************************)
(* The network layer of MUGA: how the background context turns stored      *)
(* preferences and the consent record into registered declarativeNetRequest*)
(* rules (background/dnr-sync.js, dnr-teardown.js and the storage.onChanged*)
(* / onInstalled / onStartup listeners of background/service-worker.js).   *)
(*                                                                         *)
(* Every listener is an async function: between two awaits other listeners *)
(* run.  A worker below is one such activation.  The browser serves the    *)
(* extension's declarativeNetRequest calls in the order they were issued   *)
(* (dnrQueue); a fetch and a storage read are served at any time.  A call's*)
(* effect and the code up to the next await are one action.                *)
(*                                                                         *)
(* A preference is abstracted to off/on (a list: empty/not empty) and a    *)
(* family of rules to absent/registered.                                   *)
(***************************************************************************)
EXTENDS Naturals, Sequences, FiniteSets

CONSTANTS
    Workers,       \* activations of the listeners that may be in flight
    UserKeys,      \* the preferences the user changes (RemoteRules has the other)
    Browsers,      \* the browsers MUGA may run in: "chrome", "firefoxMV2"
    RemoteCached,  \* a verified remote payload is in storage.local
    MayOverlap,    \* a change may be delivered while a listener awaits
    Faulty,        \* the browser calls that may fail
    MaxFaults,     \* bound: failed calls
    MaxWrites,     \* bound: user writes
    MaxRestarts    \* bound: evictions and browser restarts

PrefKey == {"enabled", "onboardingDone", "ampRedirect", "unwrapRedirects",
            "disabledCategories", "customParams", "whitelist", "blacklist",
            "suppressReferer", "blockBeacons", "remoteRulesEnabled"}

\* Rule families: the four static rulesets of the manifest, then the dynamic
\* id ranges of dnr-ids.js.
StaticFamily == {"tracking_params", "amp_redirect", "wrapper_unwrap",
                 "amazon_path_canonical"}
DynamicFamily == {"categoryMirrors", "customParams", "allowlist",
                  "suppressReferer", "blockBeacons", "blocklistReferer",
                  "blocklistBeacons", "remoteScoped", "remoteParams"}
Family == StaticFamily \cup DynamicFamily

FaultKind == {"updateEnabledRulesets", "updateDynamicRules",
              "getDynamicRules", "fetch"}

ASSUME ConstantsAssumption ==
    /\ UserKeys \subseteq PrefKey \ {"remoteRulesEnabled"}
    /\ Browsers \subseteq {"chrome", "firefoxMV2"}
    /\ RemoteCached \in BOOLEAN
    /\ MayOverlap \in BOOLEAN
    /\ Faulty \subseteq FaultKind
    /\ MaxFaults \in Nat
    /\ MaxWrites \in Nat
    /\ MaxRestarts \in Nat

VARIABLES
    browser,     \* the one it runs in
    stored,      \* effective preferences held by sync and local storage
    pending,     \* browser events not delivered yet, oldest first
    cachedPrefs, \* the worker's prefs cache, or NoPrefs
    mirrorKey,   \* _categoryMirrorKey: "unknown" until this lifetime syncs
    staticRules, \* _staticTrackingRules: "unread", "loaded" or "empty"
    worker,      \* the activations of the listeners
    dnrQueue,    \* workers whose declarativeNetRequest call is outstanding
    rules,       \* which families the browser has registered
    verdict,     \* result of the last tearDownAndVerify
    overlapped,  \* history: the last pass began before another had ended
    misread,     \* history: a read of the packaged rules has failed
    faults, writes, restarts

vars == <<browser, stored, pending, cachedPrefs, mirrorKey, staticRules, worker,
          dnrQueue, rules, verdict, overlapped, misread, faults, writes,
          restarts>>

-----------------------------------------------------------------------------
(* Decisions: pure functions of a snapshot of the preferences.             *)

NoPrefs == [k \in {} |-> FALSE]

\* isFirefoxMV2()
FirefoxMV2 == browser = "firefoxMV2"

\* applyDnrState's gate; getPrefs forces dnrEnabled to true.
GateOpen(p) == p.enabled /\ p.onboardingDone

\* partitionRulesets: the static rulesets an open gate enables.
PartitionRulesets(p) ==
    {f \in StaticFamily :
        /\ ~FirefoxMV2
        /\ f = "tracking_params" => ~p.disabledCategories
        /\ f = "amp_redirect"    => p.ampRedirect
        /\ f = "wrapper_unwrap"  => p.unwrapRedirects}

\* The dynamic rules the sync functions build while the gate is open; Firefox
\* strips in its blocking webRequest listener instead.
DynamicRules(p) ==
    [categoryMirrors  |-> ~FirefoxMV2 /\ p.disabledCategories,
     customParams     |-> ~FirefoxMV2 /\ p.customParams,
     allowlist        |-> p.whitelist,
     suppressReferer  |-> p.suppressReferer,
     blockBeacons     |-> p.blockBeacons,
     blocklistReferer |-> p.blacklist,
     blocklistBeacons |-> p.blacklist,
     remoteScoped     |-> ~FirefoxMV2 /\ p.remoteRulesEnabled /\ RemoteCached,
     remoteParams     |-> ~FirefoxMV2 /\ p.remoteRulesEnabled /\ RemoteCached]

OpenRules(p) == [f \in Family |-> IF f \in StaticFamily THEN f \in PartitionRulesets(p)
                                  ELSE DynamicRules(p)[f]]

NoRules == [f \in Family |-> FALSE]

Want(p) == IF GateOpen(p) THEN OpenRules(p) ELSE NoRules

\* The awaited calls of one pass of applyDnrState, in source order.
OpenSteps == <<"staticRulesets", "categoryMirrors", "customParams", "allowlist",
               "suppressReferer", "blockBeacons", "blocklistReferer",
               "blocklistBeacons", "remoteScoped", "remoteParams">>
CloseSteps == <<"staticRulesets", "customParams", "categoryMirrors", "allowlist",
                "suppressReferer", "blockBeacons", "blocklistReferer",
                "blocklistBeacons", "remoteParams", "readBack">>

StepsOf(p) == IF GateOpen(p) THEN OpenSteps ELSE CloseSteps

CloseForgetsScoped(p, step) ==
    CASE step = "staticRulesets" -> StaticFamily
      [] step = "readBack" -> {}
      [] OTHER -> {step}

\* The families the call of a step replaces.
Covers(p, step) ==
    CASE step = "staticRulesets" -> StaticFamily
      [] step = "remoteParams" /\ (FirefoxMV2 \/ ~GateOpen(p)) ->
             {"remoteScoped", "remoteParams"}
      [] step = "readBack" -> {}
      [] OTHER -> {step}

\* The key syncCategoryFilteredDNR would write mirrors for.
MirrorKey(p) == IF GateOpen(p) /\ p.disabledCategories THEN "some" ELSE "none"

FreshWorkerHasNone(p, step) ==
    \/ step = "categoryMirrors" /\ (FirefoxMV2 \/ mirrorKey = MirrorKey(p)
                                     \/ (mirrorKey = "unknown" /\ MirrorKey(p) = "none"))
    \/ step = "remoteScoped" /\ FirefoxMV2

\* Steps that return without a call: the mirrors are already the ones wanted, or
\* the browser is Firefox, which has no mirrors and clears both remote families
\* in one call.
Skipped(p, step) ==
    \/ step = "categoryMirrors" /\ (FirefoxMV2 \/ mirrorKey = MirrorKey(p))
    \/ step = "remoteScoped" /\ FirefoxMV2

\* Which browser call a step makes, by the name of the fault it can suffer.
CallOf(step) ==
    CASE step = "staticRulesets" -> "updateEnabledRulesets"
      [] step = "readBack" -> "getDynamicRules"
      [] OTHER -> "updateDynamicRules"

-----------------------------------------------------------------------------
(* State.                                                                  *)

Idle == [pc |-> "idle", snap |-> NoPrefs, step |-> 0, attempt |-> 0]

Quiet == \A h \in Workers : worker[h] = Idle

Defaults == [k \in PrefKey |->
                k \in {"enabled", "ampRedirect", "unwrapRedirects",
                       "remoteRulesEnabled"}]

\* A fresh install: the browser has enabled every ruleset of the manifest and
\* is about to fire onInstalled; nobody has accepted anything yet.
Init ==
    /\ browser \in Browsers
    /\ stored = Defaults
    /\ pending = <<"onInstalled">>
    /\ cachedPrefs = NoPrefs
    /\ mirrorKey = "unknown"
    /\ staticRules = "unread"
    /\ worker = [h \in Workers |-> Idle]
    /\ dnrQueue = <<>>
    /\ rules = [f \in Family |-> \/ f = "tracking_params"
                                 \/ (f \in StaticFamily /\ ~FirefoxMV2)]
    /\ verdict = "none" /\ overlapped = FALSE /\ misread = FALSE
    /\ faults = 0 /\ writes = 0 /\ restarts = 0

\* Puts worker h at step i of the pass for snapshot p, appending its call to
\* queue q if the step begins with one; after the last step h returns.
GoTo(h, p, i, attempt, q) ==
    LET next == IF Skipped(p, StepsOf(p)[i]) THEN i + 1 ELSE i
        step == StepsOf(p)[next]
        pc   == IF step = "categoryMirrors" /\ MirrorKey(p) = "some"
                     /\ staticRules = "unread"
                THEN "loading"
                ELSE IF step = "remoteScoped" /\ p.remoteRulesEnabled
                     THEN "readingRemote" ELSE "calling"
    IN  /\ worker' = [worker EXCEPT ![h] =
                         [pc |-> pc, snap |-> p, step |-> next, attempt |-> attempt]]
        /\ dnrQueue' = IF pc = "calling" THEN Append(q, h) ELSE q

Return(h, q) ==
    /\ worker' = [worker EXCEPT ![h] = Idle]
    /\ dnrQueue' = q

-----------------------------------------------------------------------------
(* The user and the browser.                                               *)

\* A page writes a preference.  The acceptance record is only ever granted.
UserWrites(k) ==
    /\ writes < MaxWrites
    /\ k = "onboardingDone" => ~stored[k]
    /\ stored' = [stored EXCEPT ![k] = ~@]
    /\ pending' = Append(pending, k)
    /\ writes' = writes + 1
    /\ UNCHANGED <<browser, overlapped, misread, cachedPrefs, mirrorKey, staticRules,
                   worker, dnrQueue, rules, verdict, faults, restarts>>

\* The browser unloads an idle worker: everything it kept in memory is gone.
Evict ==
    /\ restarts < MaxRestarts
    /\ Quiet
    /\ restarts' = restarts + 1
    /\ cachedPrefs' = NoPrefs
    /\ mirrorKey' = "unknown"
    /\ staticRules' = "unread"
    /\ UNCHANGED <<browser, overlapped, misread, stored, pending, worker, dnrQueue,
                   rules, verdict, faults, writes>>

\* The browser exits, in the middle of anything, and starts again.  Storage and
\* the registered rules survive it.
BrowserRestarts ==
    /\ restarts < MaxRestarts
    /\ restarts' = restarts + 1
    /\ cachedPrefs' = NoPrefs
    /\ mirrorKey' = "unknown"
    /\ staticRules' = "unread"
    /\ worker' = [h \in Workers |-> Idle]
    /\ dnrQueue' = <<>>
    /\ pending' = <<"onStartup">>
    /\ overlapped' = FALSE
    /\ UNCHANGED <<browser, misread, stored, rules, verdict, faults, writes>>

-----------------------------------------------------------------------------
(* The listeners.                                                          *)

StartPass(h) ==
    /\ worker' = [worker EXCEPT ![h].pc = "reading"]
    /\ overlapped' = ~Quiet

CanDeliver(h) == pending # <<>> /\ worker[h] = Idle /\ (MayOverlap \/ Quiet)

\* The changes after which storage.onChanged calls applyDnrState.
AppliedKeys == {"onboardingDone", "customParams", "enabled", "ampRedirect",
                "unwrapRedirects", "whitelist", "blacklist", "suppressReferer",
                "blockBeacons"}

\* _invalidatePrefsCache, which every change event runs first.
Invalidated == NoPrefs

OnChanged(h) ==
    /\ CanDeliver(h)
    /\ Head(pending) \in PrefKey
    /\ pending' = Tail(pending)
    /\ cachedPrefs' = Invalidated
    /\ IF Head(pending) \in AppliedKeys THEN StartPass(h)
       ELSE UNCHANGED <<worker, overlapped>>
    /\ UNCHANGED <<browser, misread, stored, mirrorKey, staticRules, dnrQueue, rules,
                   verdict, faults, writes, restarts>>

OnStartup(h) ==
    /\ CanDeliver(h)
    /\ Head(pending) = "onStartup"
    /\ pending' = Tail(pending)
    /\ StartPass(h)
    /\ UNCHANGED <<browser, misread, stored, cachedPrefs, mirrorKey, staticRules,
                   dnrQueue, rules, verdict, faults, writes, restarts>>

\* recordImplicitAcceptOnInstall, whose own write raises a change event.
OnInstalled(h) ==
    /\ CanDeliver(h)
    /\ Head(pending) = "onInstalled"
    /\ stored' = [stored EXCEPT !.onboardingDone = TRUE]
    /\ pending' = Append(Tail(pending), "onboardingDone")
    /\ StartPass(h)
    /\ UNCHANGED <<browser, misread, cachedPrefs, mirrorKey, staticRules, dnrQueue,
                   rules, verdict, faults, writes, restarts>>

\* getPrefsWithCache resolves.  PrefsCache shows that a fetch overtaken by an
\* invalidation is discarded, so the read and the fill are one action here.
ReadPrefs(h) ==
    /\ worker[h].pc = "reading"
    /\ LET p == IF cachedPrefs = NoPrefs THEN stored ELSE cachedPrefs IN
         /\ cachedPrefs' = p
         /\ GoTo(h, p, 1, 1, dnrQueue)
    /\ UNCHANGED <<browser, overlapped, misread, stored, pending, mirrorKey,
                   staticRules, rules, verdict, faults, writes, restarts>>

\* loadStaticTrackingRules: a failed read is kept as an empty ruleset.
StaticRulesRead(h) ==
    /\ worker[h].pc = "loading"
    /\ \/ staticRules' = "loaded" /\ UNCHANGED <<misread, faults>>
       \/ /\ "fetch" \in Faulty /\ faults < MaxFaults
          /\ staticRules' = "empty" /\ misread' = TRUE /\ faults' = faults + 1
    /\ worker' = [worker EXCEPT ![h].pc = "calling"]
    /\ dnrQueue' = Append(dnrQueue, h)
    /\ UNCHANGED <<browser, overlapped, stored, pending, cachedPrefs, mirrorKey,
                   rules, verdict, writes, restarts>>

\* reconcileRemoteDnrRule has read the cached payload.
RemoteCacheRead(h) ==
    /\ worker[h].pc = "readingRemote"
    /\ worker' = [worker EXCEPT ![h].pc = "calling"]
    /\ dnrQueue' = Append(dnrQueue, h)
    /\ UNCHANGED <<browser, overlapped, misread, stored, pending, cachedPrefs,
                   mirrorKey, staticRules, rules, verdict, faults, writes, restarts>>

\* What a successful call of this step registers.
Effect(p, step) ==
    [f \in Family |->
        IF f \notin Covers(p, step) THEN rules[f]
        ELSE IF f = "categoryMirrors" THEN Want(p)[f] /\ staticRules = "loaded"
        ELSE Want(p)[f]]

RemembersFailure(p, step, landed) ==
    IF step = "categoryMirrors" THEN MirrorKey(p) ELSE mirrorKey

\* _categoryMirrorKey after a step: only a write that landed is remembered.
Memo(p, step, landed) ==
    IF step = "categoryMirrors" /\ landed THEN MirrorKey(p) ELSE mirrorKey

\* A call of an apply or teardown step is served.  A failure is logged and the
\* pass goes on.
ServeCall(h) ==
    /\ dnrQueue # <<>> /\ Head(dnrQueue) = h
    /\ LET p    == worker[h].snap
           i    == worker[h].step
           step == StepsOf(p)[i]
       IN  /\ step # "readBack"
           /\ \/ /\ rules' = Effect(p, step)
                 /\ mirrorKey' = Memo(p, step, TRUE)
                 /\ faults' = faults
              \/ /\ CallOf(step) \in Faulty /\ faults < MaxFaults
                 /\ faults' = faults + 1
                 /\ mirrorKey' = Memo(p, step, FALSE)
                 /\ rules' = rules
           /\ IF i = Len(StepsOf(p)) THEN Return(h, Tail(dnrQueue))
              ELSE GoTo(h, p, i + 1, worker[h].attempt, Tail(dnrQueue))
    /\ UNCHANGED <<browser, overlapped, misread, stored, pending, cachedPrefs,
                   staticRules, verdict, writes, restarts>>

RetryNever(h) == FALSE
RetryAlways(h) == TRUE

\* One retry, not a loop.
MayRetry(h) == worker[h].attempt = 1

UnreadableIsClean == "ok"

\* Unverifiable is not the same as clean.
Unverified == "failed"

\* The read-back of tearDownAndVerify: only dynamic rules can be seen there.
\* Residual rules earn one more pass; an unreadable answer earns none.
ServeReadBack(h) ==
    /\ dnrQueue # <<>> /\ Head(dnrQueue) = h
    /\ StepsOf(worker[h].snap)[worker[h].step] = "readBack"
    /\ LET residual == {f \in DynamicFamily : rules[f]} IN
         \/ /\ residual = {}
            /\ verdict' = "ok"
            /\ Return(h, Tail(dnrQueue))
            /\ faults' = faults
         \/ /\ residual # {} /\ MayRetry(h)
            /\ GoTo(h, worker[h].snap, 1, worker[h].attempt + 1, Tail(dnrQueue))
            /\ UNCHANGED <<verdict, faults>>
         \/ /\ residual # {} /\ ~MayRetry(h)
            /\ verdict' = "failed"
            /\ Return(h, Tail(dnrQueue))
            /\ faults' = faults
         \/ /\ "getDynamicRules" \in Faulty /\ faults < MaxFaults
            /\ faults' = faults + 1
            /\ verdict' = Unverified
            /\ Return(h, Tail(dnrQueue))
    /\ UNCHANGED <<browser, overlapped, misread, stored, pending, cachedPrefs,
                   mirrorKey, staticRules, rules, writes, restarts>>

Step(h) ==
    \/ OnChanged(h) \/ OnStartup(h) \/ OnInstalled(h) \/ ReadPrefs(h)
    \/ StaticRulesRead(h) \/ RemoteCacheRead(h) \/ ServeCall(h) \/ ServeReadBack(h)

Next ==
    \/ \E k \in UserKeys : UserWrites(k)
    \/ Evict
    \/ BrowserRestarts
    \/ \E h \in Workers : Step(h)

Spec == Init /\ [][Next]_vars

\* Promises settle: an event is delivered, a read answers, a call is served.
FairSpec == Spec /\ \A h \in Workers : WF_vars(Step(h))
-----------------------------------------------------------------------------
(* Properties.                                                             *)

Settled == Quiet /\ pending = <<>>

Activation == [pc : {"idle", "reading", "loading", "readingRemote", "calling"},
               snap : {NoPrefs} \cup [PrefKey -> BOOLEAN],
               step : 0..Len(OpenSteps), attempt : 0..2]

\* Type correctness of the state of dnr-sync.js and of its listeners.
TypeOK ==
    /\ browser \in Browsers
    /\ stored \in [PrefKey -> BOOLEAN]
    /\ pending \in Seq(PrefKey \cup {"onInstalled", "onStartup"})
    /\ cachedPrefs \in {NoPrefs} \cup [PrefKey -> BOOLEAN]
    /\ mirrorKey \in {"unknown", "none", "some"}
    /\ staticRules \in {"unread", "loaded", "empty"}
    /\ worker \in [Workers -> Activation]
    /\ dnrQueue \in Seq(Workers)
    /\ rules \in [Family -> BOOLEAN]
    /\ verdict \in {"none", "ok", "failed"}
    /\ overlapped \in BOOLEAN /\ misread \in BOOLEAN
    /\ faults \in Nat /\ writes \in Nat /\ restarts \in Nat

\* The registered rules are those the stored preferences ask for, the static
\* ruleset and its category mirrors being swapped as a pair, never both and
\* never neither; a change of disabledCategories alone may not be applied yet.
Converged ==
    \E c \in BOOLEAN : rules = Want([stored EXCEPT !.disabledCategories = c])

\* Once every change has been handled, the last of them by a pass that ran alone,
\* the registered rules have converged, whatever earlier passes overlapped and
\* wherever the browser was stopped (applyDnrState, syncCategoryFilteredDNR).
PassConverges == Settled /\ ~overlapped /\ faults = 0 => Converged

\* After such a pass a disabled or not yet accepted extension has nothing
\* registered at the network layer, one failed call for its dynamic rules
\* notwithstanding (tearDownAndVerify).
PassCloses ==
    Settled /\ ~overlapped /\ faults <= 1 /\ ~GateOpen(stored) => rules = NoRules

\* The memo that lets syncCategoryFilteredDNR skip a write tells the truth,
\* however passes overlap: the mirrors registered in the browser, which outlive
\* the worker, are those of _categoryMirrorKey (or none, had the packaged
\* rules been unreadable).
MirrorKeySound ==
    mirrorKey # "unknown" =>
        /\ rules.categoryMirrors => mirrorKey = "some"
        /\ mirrorKey = "some" => rules.categoryMirrors \/ misread

\* A teardown that no other pass overlaps and that reports success has left
\* nothing registered, however many calls for dynamic rules failed
\* (tearDownAndVerify's ok).
SuccessMeansInert ==
    [][\A h \in Workers :
         ServeReadBack(h) /\ worker'[h] = Idle /\ verdict' = "ok" /\ ~overlapped
             => rules' = NoRules]_vars

\* Whatever the user does, the rules end up following the preferences and stay
\* so, provided the browser delivers events and answers calls.
EventuallyConverged == <>[](Settled /\ Converged)

\* What teardown.js says must never happen: once settled, rules of a disabled or
\* not accepted extension are still registered.
ClosedIsInert == Settled /\ ~GateOpen(stored) => rules = NoRules

\* What Settings says of a category just disabled: once settled, the static
\* ruleset, which strips every category, is not registered.
CategoryApplied ==
    Settled /\ GateOpen(stored) /\ stored.disabledCategories
        => ~rules.tracking_params
=============================================================================
