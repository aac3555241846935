---------------------------- MODULE ConsentRecord ----------------------------
(***************************************************************************)
(* The acceptance that opens MUGA's gate: the per-device consent record    *)
(* (lib/consent-storage.js), the record an older release left in           *)
(* storage.sync and its migration (lib/sync-migration.js, run once per     *)
(* worker by background/run-migrations.js), the acceptance an install      *)
(* implies (service-worker.js), the onboarding page's button, and the tab  *)
(* openOnboardingOnce shows (background/onboarding-gate.js).               *)
(*                                                                         *)
(* A storage area serves its calls in the order they are made, so a call   *)
(* takes effect where it is made and its continuation is another action.   *)
(* setConsent's callers all pass the whole record: what its own read finds *)
(* is never used.  Versions are numbers, 0 for null.                       *)
(***************************************************************************)
EXTENDS Naturals

CONSTANTS
    Faulty,         \* storage calls that may fail: "read", "write", "remove"
    PartialLegacy,  \* an older release may have left a version without onboardingDone
    MaxRestarts, MaxSubmits, MaxFaults

VARIABLES
    reason,     \* details.reason of onInstalled in the first lifetime
    local,      \* mugaConsent
    legacy,     \* the keys in storage.sync
    flag,       \* mugaOnboardingTabOpened
    opened,     \* _onboardingTabOpened
    tabs,       \* onboarding tabs created
    migration,  \* the run of _migrateConsentToLocal
    wake,       \* the startup check of module scope
    install,    \* the onInstalled handler
    opener,     \* openOnboardingOnce, by caller
    accepted,   \* history: an acceptance was recorded on this device or synced
    restarts, submits, faults

bounds == <<restarts, submits, faults>>
stored == <<local, legacy, flag>>
vars == <<reason, stored, opened, tabs, migration, wake, install, opener, accepted,
          bounds>>

Record(done, version) == [done |-> done, version |-> version]
Nothing == Record(FALSE, 0)
Old == Record(TRUE, 1)
Current == Record(TRUE, 2)  \* TERMS_VERSION

NoMigration == [pc |-> "start", sync |-> Nothing, seen |-> Nothing]
NoOpener == [c \in {"wake", "install"} |-> "idle"]

\* A new device, one whose account carries an older release's record, or an
\* update of a device that has accepted.
Init ==
    /\ \/ /\ reason = "install" /\ local = Nothing
          /\ legacy \in {Nothing, Old}
                        \cup (IF PartialLegacy THEN {Record(FALSE, 1)} ELSE {})
       \/ reason = "update" /\ local = Nothing /\ legacy = Old
       \/ reason = "update" /\ local = Old /\ legacy \in {Nothing, Old}
    /\ flag = FALSE /\ opened = FALSE /\ tabs = 0
    /\ migration = NoMigration /\ wake = "start" /\ install = "start"
    /\ opener = NoOpener
    /\ accepted = (local.done \/ legacy.done)
    /\ restarts = 0 /\ submits = 0 /\ faults = 0

Fails(call) ==
    /\ call \in Faulty /\ faults < MaxFaults
    /\ faults' = faults + 1
    /\ UNCHANGED <<restarts, submits>>

\* A read answers with the stored value, or with the default when it fails.
Read(answer, kept, default) ==
    \/ answer = kept /\ UNCHANGED bounds
    \/ answer = default /\ Fails("read")

-----------------------------------------------------------------------------
(* migrateConsentToLocal.                                                  *)

MigrationReadsSync ==
    /\ migration.pc = "start"
    /\ \E r \in {legacy, Nothing} :
            /\ Read(r, legacy, Nothing)
            /\ migration' = [migration EXCEPT
                    !.pc = IF r = Nothing THEN "done" ELSE "checking", !.sync = r]
    /\ UNCHANGED <<reason, stored, opened, tabs, wake, install, opener, accepted>>

MigrationReadsLocal ==
    /\ migration.pc = "checking"
    /\ \E r \in {local, Nothing} :
            /\ Read(r, local, Nothing)
            /\ migration' = [migration EXCEPT !.pc = "deciding", !.seen = r]
    /\ UNCHANGED <<reason, stored, opened, tabs, wake, install, opener, accepted>>

\* local that has consent is this device's own, and is kept.
LocalHasConsent(seen) == seen.done \/ seen.version # 0

MigrationCopies ==
    /\ migration.pc = "deciding" /\ ~LocalHasConsent(migration.seen)
    /\ \/ /\ local' = migration.sync /\ UNCHANGED bounds
          /\ migration' = [migration EXCEPT !.pc = "removing"]
       \/ /\ Fails("write") /\ UNCHANGED local
          /\ migration' = [migration EXCEPT !.pc = "done"]
    /\ UNCHANGED <<reason, legacy, flag, opened, tabs, wake, install, opener, accepted>>

MigrationKeeps ==
    /\ migration.pc = "deciding" /\ LocalHasConsent(migration.seen)
    /\ migration' = [migration EXCEPT !.pc = "removing"]
    /\ UNCHANGED <<reason, stored, opened, tabs, wake, install, opener, accepted, bounds>>

RemovesFirst == migration.pc \in {"deciding", "removing"}

MayRemove == migration.pc = "removing"

MigrationRemoves ==
    /\ MayRemove
    /\ \/ legacy' = Nothing /\ UNCHANGED bounds
       \/ Fails("remove") /\ UNCHANGED legacy
    /\ migration' = [migration EXCEPT !.pc = "done"]
    /\ UNCHANGED <<reason, local, flag, opened, tabs, wake, install, opener, accepted>>

MigrationStep ==
    \/ MigrationReadsSync \/ MigrationReadsLocal \/ MigrationCopies \/ MigrationKeeps
    \/ MigrationRemoves

-----------------------------------------------------------------------------
(* onInstalled, and the startup check.                                     *)

OnlyAtTheGate == local.done = FALSE

\* A fresh install shows the onboarding page although it has accepted already.
OpensOnInstall == TRUE

\* recordImplicitAcceptOnInstall: a failed write is logged, the handler goes on.
ImplicitAccept ==
    /\ reason = "install" /\ install = "start"
    /\ install' = "accepted"
    /\ \/ local' = Current /\ accepted' = TRUE /\ UNCHANGED bounds
       \/ Fails("write") /\ UNCHANGED <<local, accepted>>
    /\ UNCHANGED <<reason, legacy, flag, opened, tabs, migration, wake, opener>>

\* openOnboardingOnce: the memory guard, then the stored one.
Opens(caller) ==
    IF opened THEN UNCHANGED <<opened, opener>>
    ELSE opened' = TRUE /\ opener' = [opener EXCEPT ![caller] = "checking"]

InstallOpens ==
    /\ install = "accepted"
    /\ install' = "done"
    /\ IF OpensOnInstall THEN Opens("install") ELSE UNCHANGED <<opened, opener>>
    /\ UNCHANGED <<reason, stored, tabs, migration, wake, accepted, bounds>>

\* getPrefs reads sync, consent and overrides at once; either may fail.
ReadsDone(done) ==
    \/ done = (local.done \/ legacy.done) /\ UNCHANGED bounds
    \/ done \in {local.done, legacy.done, FALSE} /\ Fails("read")

\* The fallback of module scope: open the page, or forget that it was opened.
WakeChecks ==
    /\ wake = "start"
    /\ \E done \in BOOLEAN : ReadsDone(done) /\ wake' = IF done THEN "clear" ELSE "open"
    /\ UNCHANGED <<reason, stored, opened, tabs, migration, install, opener, accepted>>

WakeOpens ==
    /\ wake = "open" /\ wake' = "done"
    /\ Opens("wake")
    /\ UNCHANGED <<reason, stored, tabs, migration, install, accepted, bounds>>

\* clearOnboardingTabFlag: the removal is not awaited and may fail unseen.
WakeClears ==
    /\ wake = "clear" /\ wake' = "done"
    /\ opened' = FALSE
    /\ \/ flag' = FALSE /\ UNCHANGED bounds
       \/ Fails("remove") /\ UNCHANGED flag
    /\ UNCHANGED <<reason, local, legacy, tabs, migration, install, opener, accepted>>

Forgets(seen) == FALSE

AlreadyOpened(seen) == seen

\* The tab is created once the flag's write has been answered, for better or worse.
OpenerChecks(c) ==
    /\ opener[c] = "checking"
    /\ \E seen \in {flag, FALSE} :
            /\ Read(seen, flag, FALSE)
            /\ opener' = [opener EXCEPT
                    ![c] = IF AlreadyOpened(seen) THEN "idle" ELSE "marking"]
    /\ UNCHANGED <<reason, stored, opened, tabs, migration, wake, install, accepted>>

OpenerMarks(c) ==
    /\ opener[c] = "marking"
    /\ opener' = [opener EXCEPT ![c] = "creating"]
    /\ \/ flag' = TRUE /\ UNCHANGED bounds
       \/ Fails("write") /\ UNCHANGED flag
    /\ UNCHANGED <<reason, local, legacy, opened, tabs, migration, wake, install, accepted>>

OpenerCreates(c) ==
    /\ opener[c] = "creating"
    /\ opener' = [opener EXCEPT ![c] = "idle"]
    /\ tabs' = tabs + 1
    /\ UNCHANGED <<reason, stored, opened, migration, wake, install, accepted, bounds>>

WorkerStep ==
    \/ MigrationStep \/ ImplicitAccept \/ InstallOpens
    \/ WakeChecks \/ WakeOpens \/ WakeClears
    \/ \E c \in DOMAIN opener : OpenerChecks(c) \/ OpenerMarks(c) \/ OpenerCreates(c)

-----------------------------------------------------------------------------
(* The onboarding page's button, and the end of a worker.                  *)

Submit ==
    /\ tabs > 0 /\ submits < MaxSubmits
    /\ \/ /\ local' = Current /\ accepted' = TRUE
          /\ submits' = submits + 1 /\ UNCHANGED <<restarts, faults>>
       \/ Fails("write") /\ UNCHANGED <<local, accepted>>
    /\ UNCHANGED <<reason, legacy, flag, opened, tabs, migration, wake, install, opener>>

\* onInstalled is dispatched once: a worker that dies takes the handler with it.
Restart ==
    /\ restarts < MaxRestarts
    /\ restarts' = restarts + 1
    /\ opened' = FALSE /\ migration' = NoMigration /\ wake' = "start"
    /\ install' = "done" /\ opener' = NoOpener
    /\ UNCHANGED <<reason, stored, tabs, accepted, submits, faults>>

Next == WorkerStep \/ Submit \/ Restart

Spec == Init /\ [][Next]_vars

\* The worker's own steps run; nobody has to press the button.
Fairness == WF_vars(WorkerStep)

FairSpec == Spec /\ Fairness

-----------------------------------------------------------------------------
(* What the record promises.                                               *)

\* The stored values, and a bound on what can be open.
TypeOK ==
    /\ local \in {Nothing, Old, Current, Record(FALSE, 1)}
    /\ legacy \in {Nothing, Old, Record(FALSE, 1)}
    /\ migration.pc \in {"start", "checking", "deciding", "removing", "done"}
    /\ wake \in {"start", "open", "clear", "done"}
    /\ install \in {"start", "accepted", "done"}
    /\ opened \in BOOLEAN /\ flag \in BOOLEAN /\ tabs \in Nat

\* Once accepted, always accepted: no order of migration, install, button, crash
\* and failing call leaves the device with the gate shut.
GateNeverCloses == accepted => local.done \/ legacy.done

\* The onboarding tab is opened once per device, whichever of its two callers
\* runs first and however often the worker restarts; every further tab took a
\* storage call that failed.
OneOnboardingTab == tabs <= 1 + faults

\* A fresh install shows the page, unless its worker dies on the way.
InstallShowsPage == (reason = "install") ~> (tabs > 0 \/ restarts > 0)

\* What this device accepted is not replaced by what another device accepted
\* under older terms.
LocalIsAuthoritative == [][local = Current => local' = Current]_vars
=============================================================================
