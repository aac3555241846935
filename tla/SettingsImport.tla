--------------------------- MODULE SettingsImport ----------------------------
(***************************************************************************)
(* Export and import of the settings on the options page                   *)
(* (lib/settings-schema.js, options/options.js): an import is planned from *)
(* the file, cut down to the host permissions that are held, shown to the  *)
(* user as a list of changes, and applied, if the user confirms, by writes *)
(* to three stores that follow one another.  Meanwhile other devices, other*)
(* options pages and the browser's own pages go on.                        *)
(*                                                                         *)
(* Five settings stand for the kinds of SETTINGS_FIELDS: "white" (lists),  *)
(* "plain" (booleans), "click" (permission-gated), "remote" (gated, and    *)
(* overridden per device), "devMode" and "devTools" (kept on the device).  *)
(***************************************************************************)
EXTENDS Naturals, Sequences, SequencesExt

CONSTANTS
    Faulty,     \* the writes that may fail: "sync", "local", "override"
    Cap,        \* IMPORT_LIST_CAPS.whitelist
    MaxChanges, MaxImports, MaxFaults  \* bounds

VARIABLES
    sync,       \* chrome.storage.sync
    local,      \* chrome.storage.local, the two flags of this device
    override,   \* mugaPerDevicePrefs.remoteRulesEnabled
    grants,     \* the optional host permissions held
    toggling,   \* the value whose override a toggle has yet to write
    stage, file, toSave, before, toast,  \* the import under way
    checkbox,   \* #remote-rules-toggle
    overlapped, \* history: something else changed since the file was chosen
    changes, imports, faults

store == <<sync, local, override, grants>>
bounds == <<changes, imports, faults>>
vars == <<store, toggling, stage, file, toSave, before, toast, checkbox, overlapped, bounds>>

Absent == "absent"
Switch == {"on", "off"}
Maybe == Switch \cup {Absent}

Gated == {"click", "remote"}
Synced == {"white", "plain"} \cup Gated
OnDevice == {"devMode", "devTools"}
Keys == Synced \cup OnDevice

\* What a file holds: the keys, and the sites a backup of an older version marks
\* "::disabled" in its blacklist.
Files ==
    {[muga |-> TRUE, white |-> lists[1], disabled |-> lists[2], plain |-> said,
      click |-> click, remote |-> remote, devMode |-> said, devTools |-> devTools] :
        lists \in {<<<<>>, {"a"}>>, <<<<"b">>, {"a"}>>, <<<<"b">>, {"b"}>>},
        said \in {"on", Absent}, click \in Maybe, remote \in Maybe,
        devTools \in {"off", Absent}}

NoFile ==
    [muga |-> FALSE, white |-> <<>>, disabled |-> {}, plain |-> Absent, click |-> Absent,
     remote |-> Absent, devMode |-> Absent, devTools |-> Absent]

\* getPrefs lays the override over the synced value.
Effective ==
    [key \in Keys |->
        IF key \in OnDevice THEN local[key]
        ELSE IF key = "remote" /\ override # Absent THEN override ELSE sync[key]]

Init ==
    /\ sync = [white |-> <<"b">>, plain |-> "off", click |-> "on", remote |-> "on"]
    /\ local = [devMode |-> "off", devTools |-> "on"]
    /\ override \in {Absent, "off"} /\ grants \in {{}, Gated}
    /\ toggling = Absent /\ stage = "idle" /\ file = NoFile /\ toSave = NoFile
    /\ before = Effective /\ toast = "none" /\ checkbox = Effective.remote
    /\ overlapped = FALSE /\ changes = 0 /\ imports = 0 /\ faults = 0

-----------------------------------------------------------------------------
(* The file.                                                               *)

\* buildExportPayload: the synced values, not the effective ones, and every local
\* flag under its own key.
ExportPayload ==
    [muga |-> TRUE, white |-> sync.white, disabled |-> {}, plain |-> sync.plain,
     click |-> sync.click, remote |-> sync.remote, devMode |-> local.devMode,
     devTools |-> local.devTools]

\* migrate: a marked site becomes an entry of the allowlist, unless it is one.
Migrated(f) ==
    f.white \o SetToSeq({site \in f.disabled : ~Contains(f.white, site)})

Skipped(f) == Len(Migrated(f)) > Cap

\* capImportedLists keeps what fits.
Capped(f) == IF Skipped(f) THEN SubSeq(Migrated(f), 1, Cap) ELSE Migrated(f)

AsAsked(f, key) == f[key]
\* A gated setting is turned on only with its permission, and left alone when the
\* file says nothing of it.
Landing(f, key) ==
    IF key \in Gated /\ f[key] = "on" /\ key \notin grants THEN "off" ELSE f[key]

Plan(f) ==
    [f EXCEPT !.white = Capped(f), !.click = Landing(f, "click"),
              !.remote = Landing(f, "remote")]

Same(key, a, b) == IF key = "white" THEN ToSet(a) = ToSet(b) ELSE a = b

\* The lists are always there.
Says(plan, key) == key = "white" \/ plan[key] # Absent

\* diffImport: the settings the plan mentions and would change.
Rows(current, plan) ==
    {key \in Keys : Says(plan, key) /\ ~Same(key, current[key], plan[key])}

-----------------------------------------------------------------------------
(* The import, one step per await that matters.                            *)

Idle(said) == stage' = "idle" /\ toast' = said

\* A file that is no export of MUGA is refused before anything is read.
Choose(f) ==
    /\ stage = "idle" /\ imports < MaxImports /\ imports' = imports + 1
    /\ IF f.muga THEN stage' = "gate" /\ toast' = "none" ELSE Idle("error")
    /\ file' = f /\ overlapped' = FALSE /\ before' = Effective /\ toSave' = NoFile
    /\ UNCHANGED <<store, toggling, checkbox, changes, faults>>

\* hasShortenerPermissions and hasRemoteRulesPermission.
Gate ==
    /\ stage = "gate" /\ stage' = "diff"
    /\ toSave' = Plan(file)
    /\ UNCHANGED <<store, toggling, file, before, toast, checkbox, overlapped, bounds>>

Diff ==
    /\ stage = "diff"
    /\ before' = Effective
    /\ IF Rows(Effective, toSave) = {} THEN Idle("no changes")
       ELSE stage' = "modal" /\ UNCHANGED toast
    /\ UNCHANGED <<store, toggling, file, toSave, checkbox, overlapped, bounds>>

Answer(confirmed) ==
    /\ stage = "modal"
    /\ IF confirmed THEN stage' = "sync" /\ UNCHANGED toast ELSE Idle("cancelled")
    /\ UNCHANGED <<store, toggling, file, toSave, before, checkbox, overlapped, bounds>>

Fails(write) == write \in Faulty /\ faults < MaxFaults /\ faults' = faults + 1

\* One call writes every synced setting of the plan; if setPrefs answers false,
\* nothing more is written.
WriteSync ==
    /\ stage = "sync"
    /\ \/ /\ sync' = [key \in Synced |->
                        IF Says(toSave, key) THEN toSave[key] ELSE sync[key]]
          /\ stage' = "devMode" /\ UNCHANGED <<toast, faults>>
       \/ Fails("sync") /\ Idle("error") /\ UNCHANGED sync
    /\ UNCHANGED <<local, override, grants, toggling, file, toSave, before, checkbox,
                   overlapped, changes, imports>>

\* setDevMode and setDevToolsMode swallow their error.
WriteFlag(key, next) ==
    /\ stage = key /\ stage' = next
    /\ \/ /\ local' = IF toSave[key] = Absent THEN local
                      ELSE [local EXCEPT ![key] = toSave[key]]
          /\ UNCHANGED faults
       \/ toSave[key] # Absent /\ Fails("local") /\ UNCHANGED local
    /\ UNCHANGED <<sync, override, grants, toggling, file, toSave, before, toast, checkbox,
                   overlapped, changes, imports>>

OverrideStays == override
\* What becomes of the override: an import that says something of a guarded setting
\* is an explicit choice for this device.
Reconciled == IF toSave.remote = Absent THEN override ELSE toSave.remote

WriteOverride ==
    /\ stage = "override"
    /\ \/ override' = Reconciled /\ stage' = "refresh" /\ UNCHANGED <<toast, faults>>
       \/ /\ toSave.remote # Absent /\ Fails("override")
          /\ Idle("error") /\ UNCHANGED override
    /\ UNCHANGED <<sync, local, grants, toggling, file, toSave, before, checkbox,
                   overlapped, changes, imports>>

\* The page is filled again, this toggle from the effective value.
Refresh ==
    /\ stage = "refresh"
    /\ checkbox' = Effective.remote
    /\ Idle(IF Skipped(file) THEN "skipped" ELSE "success")
    /\ UNCHANGED <<store, toggling, file, toSave, before, overlapped, bounds>>

-----------------------------------------------------------------------------
(* Meanwhile.                                                              *)

Overlap ==
    /\ changes < MaxChanges /\ changes' = changes + 1
    /\ overlapped' = TRUE
    /\ UNCHANGED <<stage, file, toSave, before, toast, checkbox, local, imports, faults>>

\* Another device, the popup or the worker writes a synced setting.
OthersWrite ==
    /\ Overlap
    /\ \/ \E key \in Synced \ {"white"}, value \in Switch :
            sync[key] # value /\ sync' = [sync EXCEPT ![key] = value]
       \/ sync' = [sync EXCEPT !.white = <<>>] /\ sync.white # <<>>
    /\ UNCHANGED <<override, grants, toggling>>

\* A toggle of remote rules on another options page: turning it on asks for the
\* permission first, and the worker writes the setting and then the override.
ToggleRemote(value) ==
    /\ Overlap /\ toggling = Absent
    /\ toggling' = value
    /\ grants' = IF value = "on" THEN grants \cup {"remote"} ELSE grants
    /\ sync' = [sync EXCEPT !.remote = value]
    /\ UNCHANGED override

ToggleSettles ==
    /\ toggling # Absent /\ toggling' = Absent
    /\ override' = toggling /\ overlapped' = TRUE
    /\ UNCHANGED <<sync, local, grants, stage, file, toSave, before, toast, checkbox, bounds>>

\* The toggle of shortener resolution, wireToggle.
ToggleClick(value) ==
    /\ Overlap
    /\ grants' = IF value = "on" THEN grants \cup {"click"} ELSE grants
    /\ sync' = [sync EXCEPT !.click = value]
    /\ UNCHANGED <<override, toggling>>

\* The user takes a permission back on the browser's own page.
Revoke ==
    /\ Overlap
    /\ \E key \in grants : grants' = grants \ {key}
    /\ UNCHANGED <<sync, override, toggling>>

Next ==
    \/ \E f \in Files \cup {NoFile, ExportPayload} : Choose(f)
    \/ Gate \/ Diff \/ \E confirmed \in BOOLEAN : Answer(confirmed)
    \/ WriteSync \/ WriteFlag("devMode", "devTools") \/ WriteFlag("devTools", "override")
    \/ WriteOverride \/ Refresh
    \/ OthersWrite \/ \E value \in Switch : ToggleRemote(value) \/ ToggleClick(value)
    \/ ToggleSettles \/ Revoke

Spec == Init /\ [][Next]_vars

-----------------------------------------------------------------------------
(* What an import promises.                                                *)

\* The stores, the plan and the stage hold values of their kind.
TypeOK ==
    /\ \A key \in Synced \ {"white"} : sync[key] \in Switch
    /\ \A key \in OnDevice : local[key] \in Switch
    /\ override \in Maybe /\ toggling \in Maybe /\ checkbox \in Switch
    /\ grants \subseteq Gated
    /\ stage \in {"idle", "gate", "diff", "modal", "sync", "devMode", "devTools",
                  "override", "refresh"}
    /\ toast \in {"none", "error", "no changes", "cancelled", "success", "skipped"}

SameSettings(a, b) == \A key \in Keys : Same(key, a[key], b[key])

\* An import that reports success has done what its list of changes said and nothing
\* else, the toggle of the page included; one that reports anything else has changed
\* nothing, though three stores are written one after the other and a setting may be
\* overridden on this device.  Changes from elsewhere in the meantime are excepted.
AppliedAsShown ==
    stage = "idle" /\ ~overlapped /\ imports > 0 =>
        IF toast \in {"success", "skipped"}
        THEN /\ SameSettings(Effective,
                    [key \in Keys |-> IF key \in Rows(before, toSave) THEN toSave[key]
                                      ELSE before[key]])
             /\ checkbox = Effective.remote
        ELSE SameSettings(Effective, before)

\* Importing an export of the present settings shows no change, apart from the gated
\* settings whose permission is missing, and the one this device overrides: the
\* export holds its synced value.
RoundTripIsQuiet ==
    stage = "modal" /\ ~overlapped /\ file = ExportPayload =>
        \A key \in Rows(before, toSave) :
            /\ key \in Gated
            /\ key \notin grants \/ (key = "remote" /\ override # Absent)

\* A site an older backup had switched MUGA off for stays switched off, unless the
\* user is told that entries were skipped.
ExemptionsSurvive ==
    stage = "idle" /\ ~overlapped /\ toast = "success" =>
        file.disabled \subseteq ToSet(sync.white)

\* A file never turns a setting on whose permission is not held, unless it is taken
\* back while the user is asked.
GrantIsHeld ==
    \A key \in Gated :
        stage = "sync" /\ sync[key] # "on" /\ sync'[key] = "on" /\ stage' # "sync"
            => key \in grants \/ overlapped

GrantsRespected == [][GrantIsHeld]_vars
=============================================================================
