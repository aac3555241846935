----------------------------- MODULE WorkerRuns ------------------------------
(***************************************************************************)
(* The queues, caches and one-time tasks of the background context and the *)
(* import of settings, one in each behaviour.  Each is checked against     *)
(* every other writer of its own storage keys, so nothing is lost by       *)
(* keeping the other components still.  PrefsCache is extended, the others *)
(* are instances; the constants of theirs that share a name with another's *)
(* carry the component's here.                                             *)
(***************************************************************************)
EXTENDS PrefsCache

CONSTANTS
    Focus,        \* the components explored
    AllBrowsers,  \* links clicked in every browser, with every setting
    \* ListMutations
    Entry, Users, ListsFaulty, ListsCap, MaxEdits, MaxListsFaults,
    \* Stats
    StatsFaulty, CountMax, MaxStatsRestarts, MaxResets, MaxStatsFaults,
    \* AttributionLedger
    LedgerCap, MaxEvents, MaxLedgerRestarts, MaxClears, MaxLedgerFaults,
    \* SessionRecords
    HistoryMax, LogMax, MaxAppends, MaxLogs, MaxSessionRestarts,
    MaxSessionFaults,
    \* SingleFlight
    Caller, MaxAttempts, MaxLoaderRestarts,
    \* LinkClick
    RewriteMax, MaxClicks,
    \* ConsentRecord
    ConsentFaulty, PartialLegacy, MaxConsentRestarts, MaxSubmits,
    MaxConsentFaults,
    \* DomainStats
    Site, SitesCap, SitesFaulty, SiteCountMax, MaxSiteResets, MaxSitesRestarts,
    MaxSitesFaults,
    \* SettingsImport
    ImportFaulty, ImportCap, MaxChanges, MaxImports, MaxImportFaults

ASSUME BoundsAssumption ==
    /\ IsFiniteSet(Caller) /\ MaxAttempts \in Nat /\ RewriteMax \in Nat
    /\ HistoryMax \in Nat /\ LogMax \in Nat /\ LedgerCap \in Nat
    /\ ImportCap \in Nat \ {0} /\ SitesCap \in Nat /\ IsFiniteSet(Site)

VARIABLES
    focus,  \* the component this behaviour is about
    \* ListMutations
    list, listsLegacy, listsQueue, options, rendered, popup, edits, told,
    listsUnguarded, listsFaults,
    \* Stats
    stats, firstUsed, old, pending, timer, flushes, boot, statsMigration,
    counted, origin, statsUnguarded, increments, statsRestarts, resets,
    statsFaults,
    \* AttributionLedger
    ledgerStored, ledger, hydrated, waiting, writes, recording, clearing, base,
    asked, cleared, diverged, events, ledgerRestarts, clears, ledgerFaults,
    \* SessionRecords
    history, sessionQueue, log, logging, added, logged, raced, appends, logs,
    sessionRestarts, sessionFaults,
    \* SingleFlight
    ready, runs, attempts, loaded, cache, awaiting, microtasks, callers,
    loaderRestarts,
    \* LinkClick
    firefox, notify, resolve, clicks, toast, recent, blacklist, left,
    \* ConsentRecord
    reason, local, consentLegacy, flag, opened, tabs, consentMigration, wake,
    install, opener, accepted, consentRestarts, submits, consentFaults,
    \* DomainStats
    sitesStored, sitesPending, sitesTimer, sitesFlushes, sitesCounted,
    sitesUnguarded, siteIncrements, siteResets, sitesRestarts, sitesFaults,
    \* SettingsImport
    sync, deviceLocal, override, grants, toggling, stage, file, toSave, before,
    importToast, checkbox, overlapped, changes, imports, importFaults

Lists == INSTANCE ListMutations WITH
    Faulty <- ListsFaulty, Cap <- ListsCap, MaxFaults <- MaxListsFaults,
    legacy <- listsLegacy, queue <- listsQueue,
    unguarded <- listsUnguarded, faults <- listsFaults
Counters == INSTANCE Stats WITH
    Faulty <- StatsFaulty, MaxCount <- CountMax,
    MaxRestarts <- MaxStatsRestarts, MaxFaults <- MaxStatsFaults,
    migration <- statsMigration, unguarded <- statsUnguarded,
    restarts <- statsRestarts, faults <- statsFaults
Ledger == INSTANCE AttributionLedger WITH
    Cap <- LedgerCap, MaxRestarts <- MaxLedgerRestarts,
    MaxFaults <- MaxLedgerFaults, stored <- ledgerStored,
    restarts <- ledgerRestarts, faults <- ledgerFaults
Session == INSTANCE SessionRecords WITH
    MaxRestarts <- MaxSessionRestarts, MaxFaults <- MaxSessionFaults,
    queue <- sessionQueue, restarts <- sessionRestarts, faults <- sessionFaults
Loader == INSTANCE SingleFlight WITH
    MaxRestarts <- MaxLoaderRestarts, restarts <- loaderRestarts
Clicks == INSTANCE LinkClick
Consent == INSTANCE ConsentRecord WITH
    Faulty <- ConsentFaulty, MaxRestarts <- MaxConsentRestarts,
    MaxFaults <- MaxConsentFaults, legacy <- consentLegacy,
    migration <- consentMigration, restarts <- consentRestarts,
    faults <- consentFaults
Sites == INSTANCE DomainStats WITH
    Cap <- SitesCap, Faulty <- SitesFaulty, MaxCount <- SiteCountMax,
    MaxResets <- MaxSiteResets, MaxRestarts <- MaxSitesRestarts,
    MaxFaults <- MaxSitesFaults, stored <- sitesStored,
    pending <- sitesPending, timer <- sitesTimer, flushes <- sitesFlushes,
    counted <- sitesCounted, unguarded <- sitesUnguarded,
    increments <- siteIncrements, resets <- siteResets,
    restarts <- sitesRestarts, faults <- sitesFaults
Import == INSTANCE SettingsImport WITH
    Faulty <- ImportFaulty, Cap <- ImportCap, MaxFaults <- MaxImportFaults,
    local <- deviceLocal, toast <- importToast, faults <- importFaults

listsVars ==
    <<list, listsLegacy, listsQueue, options, rendered, popup, edits, told,
      listsUnguarded, listsFaults>>
statsVars ==
    <<stats, firstUsed, old, pending, timer, flushes, boot, statsMigration,
      counted, origin, statsUnguarded, increments, statsRestarts, resets,
      statsFaults>>
ledgerVars ==
    <<ledgerStored, ledger, hydrated, waiting, writes, recording, clearing,
      base, asked, cleared, diverged, events, ledgerRestarts, clears,
      ledgerFaults>>
sessionVars ==
    <<history, sessionQueue, log, logging, added, logged, raced, appends,
      logs, sessionRestarts, sessionFaults>>
loaderVars ==
    <<ready, runs, attempts, loaded, cache, awaiting, microtasks, callers,
      loaderRestarts>>
clicksVars ==
    <<firefox, notify, resolve, clicks, toast, recent, blacklist, left>>
consentVars ==
    <<reason, local, consentLegacy, flag, opened, tabs, consentMigration,
      wake, install, opener, accepted, consentRestarts, submits,
      consentFaults>>
sitesVars ==
    <<sitesStored, sitesPending, sitesTimer, sitesFlushes, sitesCounted,
      sitesUnguarded, siteIncrements, siteResets, sitesRestarts, sitesFaults>>
importVars ==
    <<sync, deviceLocal, override, grants, toggling, stage, file, toSave,
      before, importToast, checkbox, overlapped, changes, imports,
      importFaults>>

RunInit ==
    /\ focus \in Focus
    /\ Init
    /\ Lists!Init
    /\ focus # "lists" => list = <<>> /\ listsLegacy = {}
    /\ Counters!Init
    /\ focus # "stats" => old = Counters!Nothing
    /\ Ledger!Init
    /\ Session!Init
    /\ Loader!Init
    /\ focus # "loader" => cache = "none"
    /\ Clicks!Init
    /\ ~AllBrowsers \/ focus # "clicks" => firefox /\ notify /\ resolve
    /\ Consent!Init
    /\ focus # "consent" => reason = "update" /\ local = Consent!Nothing
    /\ Sites!Init
    /\ Import!Init
    /\ focus # "import" => override = Import!Absent /\ grants = {}

RunNext ==
    /\ UNCHANGED focus
    /\ \/ focus = "prefs" /\ Next
          /\ UNCHANGED <<listsVars, statsVars, ledgerVars, sessionVars, loaderVars,
                         clicksVars, consentVars, sitesVars, importVars>>
       \/ focus = "lists" /\ Lists!Next
          /\ UNCHANGED <<vars, statsVars, ledgerVars, sessionVars, loaderVars,
                         clicksVars, consentVars, sitesVars, importVars>>
       \/ focus = "stats" /\ Counters!Next
          /\ UNCHANGED <<vars, listsVars, ledgerVars, sessionVars, loaderVars,
                         clicksVars, consentVars, sitesVars, importVars>>
       \/ focus = "ledger" /\ Ledger!Next
          /\ UNCHANGED <<vars, listsVars, statsVars, sessionVars, loaderVars,
                         clicksVars, consentVars, sitesVars, importVars>>
       \/ focus = "session" /\ Session!Next
          /\ UNCHANGED <<vars, listsVars, statsVars, ledgerVars, loaderVars,
                         clicksVars, consentVars, sitesVars, importVars>>
       \/ focus = "loader" /\ Loader!Next
          /\ UNCHANGED <<vars, listsVars, statsVars, ledgerVars, sessionVars,
                         clicksVars, consentVars, sitesVars, importVars>>
       \/ focus = "clicks" /\ Clicks!Next
          /\ UNCHANGED <<vars, listsVars, statsVars, ledgerVars, sessionVars,
                         loaderVars, consentVars, sitesVars, importVars>>
       \/ focus = "consent" /\ Consent!Next
          /\ UNCHANGED <<vars, listsVars, statsVars, ledgerVars, sessionVars,
                         loaderVars, clicksVars, sitesVars, importVars>>
       \/ focus = "sites" /\ Sites!Next
          /\ UNCHANGED <<vars, listsVars, statsVars, ledgerVars, sessionVars,
                         loaderVars, clicksVars, consentVars, importVars>>
       \/ focus = "import" /\ Import!Next
          /\ UNCHANGED <<vars, listsVars, statsVars, ledgerVars, sessionVars,
                         loaderVars, clicksVars, consentVars, sitesVars>>

allVars ==
    <<focus, vars, listsVars, statsVars, ledgerVars, sessionVars, loaderVars,
      clicksVars, consentVars, sitesVars, importVars>>

RunSpec == RunInit /\ [][RunNext]_allVars

\* Storage answers, timers fire and promise chains run on.
LiveSpec ==
    /\ RunSpec
    /\ \A f \in Fetches : WF_vars(focus = "prefs" /\ FetchStep(f))
    /\ WF_listsVars(focus = "lists" /\ Lists!WorkerStep)
    /\ WF_listsVars(focus = "lists" /\ Lists!OptionsStep)
    /\ WF_statsVars(focus = "stats" /\ Counters!TimerFires)
    /\ WF_statsVars(focus = "stats" /\ Counters!FlushStep)
    /\ WF_statsVars(focus = "stats" /\ (Counters!MigrationReadsOld
                                     \/ Counters!MigrationReadsLocal
                                     \/ Counters!MigrationWrites
                                     \/ Counters!MigrationRemoves))
    /\ WF_ledgerVars(focus = "ledger" /\ Ledger!Hydrate)
    /\ WF_ledgerVars(focus = "ledger" /\ Ledger!WriteSettles)
    /\ WF_sessionVars(focus = "session" /\ Session!TaskStep)
    /\ WF_sessionVars(focus = "session" /\ Session!LogStep)
    /\ WF_loaderVars(focus = "loader" /\ Loader!RunStep)
    /\ WF_loaderVars(focus = "loader" /\ (Loader!Resume \/ Loader!CallAgain))
    /\ WF_clicksVars(focus = "clicks" /\ Clicks!Keep)
    /\ WF_clicksVars(focus = "clicks" /\ Clicks!Timeout)
    /\ WF_clicksVars(focus = "clicks" /\ Clicks!Travel)
    /\ WF_consentVars(focus = "consent" /\ Consent!WorkerStep)

-----------------------------------------------------------------------------
\* Type correctness of the component in focus.
StateTyped ==
    /\ focus = "prefs" => TypeOK
    /\ focus = "lists" => Lists!TypeOK
    /\ focus = "stats" => Counters!TypeOK
    /\ focus = "ledger" => Ledger!TypeOK
    /\ focus = "session" => Session!TypeOK
    /\ focus = "loader" => Loader!TypeOK
    /\ focus = "clicks" => Clicks!TypeOK
    /\ focus = "consent" => Consent!TypeOK
    /\ focus = "sites" => Sites!TypeOK
    /\ focus = "import" => Import!TypeOK

\* Every change of the allowlist is one edit, applied to the list as it is
\* (list-mutation-queue.js, sync-mutation.js): the refinement of AtomicLists.
EditsAreAtomic == Lists!EditsAreAtomic

\* No lifetime count is lost or doubled by flushes, migration and restarts that a
\* queue orders (incrementStat, migrateStatsToLocal), and the first firstUsed is
\* never stamped over (createFirstUsedBootstrap).
StatsKept == Counters!CountsConserved /\ Counters!FirstUsedKept

\* No cleaned link is lost to the cold start of the ledger, and what the popup reads
\* is the ledger once every write is applied (pushAttributionAndPersist).
LedgerKept == Ledger!NothingLostToHydration /\ Ledger!MirrorConverges

\* The session history is the newest entries, none lost to another append
\* (appendHistory, withSessionMutation); the debug log loses entries only to
\* overlapping appends (appendSessionLog).
RecordsExact == Session!HistoryExact /\ Session!LogExact

\* No two loads of a rule set run at once, and a load that failed is not left to
\* answer for a retry the budget still allows (createSingleFlightLoader).
OneLoadAtATime == Loader!LoadIsShared /\ Loader!RetryIsArmed

\* The junk of a clicked link is counted once, whoever removes it
\* (the click interceptor, recordNetworkClean, the self-clean).
CountedOnce == Clicks!CountedOnce

\* No order of migration, install, button, crash and failing call shuts the gate
\* of a device that had accepted (migrateConsentToLocal, setConsent).
GateNeverCloses == Consent!GateNeverCloses

\* Every onboarding tab but the first took a storage call that failed
\* (openOnboardingOnce).
OneOnboardingTab == Consent!OneOnboardingTab

\* No site's count is lost or doubled, evictions apart (_flushDomainStats).
SiteCountsConserved == Sites!SiteCountsConserved

\* An import does what it showed or nothing, one's own export shows no change, and
\* no site switched off in an old backup is switched on in silence (planImport,
\* diffImport, the handler of #import-file).
ImportHonest ==
    /\ Import!AppliedAsShown
    /\ Import!RoundTripIsQuiet
    /\ Import!ExemptionsSurvive

\* A file turns nothing on whose permission is not held (hasShortenerPermissions,
\* hasRemoteRulesPermission).
GrantsRespected == [][focus = "import" => Import!GrantIsHeld]_importVars

\* Whoever waits for a shared fetch is served: the callers of the preferences
\* (getPrefsWithCache), of a rule set (createSingleFlightLoader), and the events
\* accepted before the ledger was read (_hydrate).
WaitersServed ==
    EveryoneAnswered /\ Loader!CallersAnswered /\ Ledger!WaitersGetRecorded

\* A task that fails does not hold up those behind it (runListMutation,
\* withSessionMutation), and a pending count does not wait for ever
\* (_scheduleStatsFlush).
QueuesDrain ==
    Lists!EditsSettle /\ Session!QueueDrains /\ Counters!CountsGetStored

\* A click held for a toast or a resolution leads somewhere in the end
\* (showAffiliateNotice, RESOLVE_SHORTENER).
HeldClicksNavigate == Clicks!HeldClicksNavigate

\* A fresh install shows the page, unless its worker dies on the way
\* (openOnboardingOnce).
InstallShowsPage == Consent!InstallShowsPage
=============================================================================
