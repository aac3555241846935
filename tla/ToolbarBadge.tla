---------------------------- MODULE ToolbarBadge ----------------------------
(***************************************************************************)
(* The count on the toolbar icon of one tab: updateTabBadge, onTabUpdated, *)
(* onTabRemoved, repaintAllTabsActiveState (background/toolbar-badge.js),  *)
(* the presenter (lib/toolbar-presenter.js) and the preference listener    *)
(* that drives it (background/service-worker.js).                          *)
(*                                                                         *)
(* Counts live in storage.session, which outlives the worker; the presenter*)
(* keeps a copy, and what is inactive, in memory, which does not.          *)
(***************************************************************************)
EXTENDS Integers, Sequences, SequencesExt

CONSTANTS
    MaxCleans, MaxNavigations, MaxChanges,  \* bounds: of each event
    MaxEvictions                            \* bound: evictions of the idle worker

VARIABLES
    prefs,     \* on: enabled; paused: site "a" is allowlisted; show: showBadge;
               \* done: onboardingDone
    warm,      \* cachedPrefs is set (to prefs: PrefsCache shows it is current)
    page,      \* the site in the tab, or "closed"
    pageCount, \* tab_{id} in storage.session
    total,     \* tab_badge_{id} in storage.session
    memTotal,  \* the presenter's badgeTotals entry, or Unknown
    inactive,  \* the presenter's activeStates entry is false
    badge,     \* the badge text: a count, Blank or Glyph
    queue,     \* withSessionMutation: updateTabBadge runs in turn
    counted,   \* totals updateTabBadge is about to emit
    nav,       \* onTabUpdated
    heard,     \* the preference changes being handled
    unguarded, \* history: since the last undisturbed navigation, a navigation or
               \* the closing of the tab cut into something under way, or the
               \* presenter ignored a change of showBadge
    cleans,    \* history: parameters cleaned on this page and in this tab
    events     \* how often each bounded event happened

vars == <<prefs, warm, page, pageCount, total, memTotal, inactive, badge, queue,
          counted, nav, heard, unguarded, cleans, events>>

Unknown == -1
Blank == 0
Glyph == -1

NoNav == [pc |-> "idle", active |-> TRUE]

Open == page # "closed"

\* computeTabActiveState.
ActiveOn(p, site) == p.on /\ p.done /\ ~(p.paused /\ site = "a")

Init ==
    /\ prefs \in [on : {TRUE}, paused : {FALSE}, show : {TRUE}, done : BOOLEAN]
    /\ warm = FALSE
    /\ page = "a"
    /\ pageCount = 0 /\ total = 0
    /\ memTotal = Unknown /\ inactive = FALSE
    /\ badge = Blank
    /\ queue = <<>> /\ counted = <<>> /\ nav = NoNav /\ heard = <<>>
    /\ unguarded = FALSE
    /\ cleans = [page |-> 0, tab |-> 0]
    /\ events = [cleaned |-> 0, navigated |-> 0, changed |-> 0, evicted |-> 0]

Idle == queue = <<>> /\ counted = <<>> /\ nav = NoNav /\ heard = <<>>

Happens(event, max) == events[event] < max /\ events' = [events EXCEPT ![event] = @ + 1]

-----------------------------------------------------------------------------
(* The presenter.                                                          *)

CountWins(isInactive, count) == count

\* The glyph of an inactive tab takes precedence over its count.
BadgeText(isInactive, count) == IF isInactive THEN Glyph ELSE count

\* paintBadge: nothing at all before consent or with showBadge off.  Both come
\* from cachedPrefs, and a cold cache reads as no consent.
Painted(isWarm, isInactive, count) ==
    IF isWarm /\ prefs.done /\ prefs.show /\ Open THEN BadgeText(isInactive, count)
    ELSE badge

Remembered == IF memTotal = Unknown THEN 0 ELSE memTotal

-----------------------------------------------------------------------------
(* updateTabBadge.                                                         *)

\* A parameter is removed on the page.
Clean ==
    /\ Open /\ ActiveOn(prefs, page)
    /\ Happens("cleaned", MaxCleans)
    /\ cleans' = [page |-> cleans.page + 1, tab |-> cleans.tab + 1]
    /\ queue' = Append(queue, [pc |-> "readPage", seen |-> 0])
    /\ UNCHANGED <<unguarded, prefs, warm, page, pageCount, total, memTotal, inactive,
                   badge, counted, nav, heard>>

EveryTask(i) == TRUE

\* withSessionMutation runs a cycle after every earlier one has settled.
Runs(i) == i = 1

Doubled(seen) == seen + 2
Counted(seen) == seen + 1

To(i, pc, seen) == queue' = [queue EXCEPT ![i] = [pc |-> pc, seen |-> seen]]

SessionStep(i) ==
    /\ Runs(i)
    /\ \/ /\ queue[i].pc = "readPage"
          /\ To(i, "writePage", pageCount)
          /\ UNCHANGED <<pageCount, total, counted>>
       \/ /\ queue[i].pc = "writePage"
          /\ pageCount' = Counted(queue[i].seen)
          /\ To(i, "readTotal", 0)
          /\ UNCHANGED <<total, counted>>
       \/ /\ queue[i].pc = "readTotal"
          /\ To(i, "writeTotal", total)
          /\ UNCHANGED <<pageCount, total, counted>>
       \/ /\ queue[i].pc = "writeTotal"
          /\ total' = Counted(queue[i].seen)
          /\ counted' = Append(counted, total')
          /\ queue' = RemoveAt(queue, i)
          /\ UNCHANGED pageCount
    /\ UNCHANGED <<unguarded, prefs, warm, page, memTotal, inactive, badge, nav,
                   heard, cleans, events>>

\* The cache is warmed and urlCleaned emitted.
EmitCleaned ==
    /\ counted # <<>>
    /\ warm' = TRUE
    /\ memTotal' = Head(counted)
    /\ badge' = Painted(TRUE, inactive, Head(counted))
    /\ counted' = Tail(counted)
    /\ UNCHANGED <<unguarded, prefs, page, pageCount, total, inactive, queue, nav,
                   heard, cleans, events>>

-----------------------------------------------------------------------------
(* onTabUpdated and onTabRemoved.                                          *)

\* The browser blanks the badge, the per-page count goes.
Navigate(site) ==
    /\ Open /\ nav = NoNav
    /\ unguarded' = ~Idle
    /\ Happens("navigated", MaxNavigations)
    /\ page' = site
    /\ badge' = Blank
    /\ pageCount' = 0
    /\ cleans' = [cleans EXCEPT !.page = 0]
    /\ nav' = [NoNav EXCEPT !.pc = "readingPrefs"]
    /\ UNCHANGED <<prefs, warm, total, memTotal, inactive, queue, counted, heard>>

NavReadsPrefs ==
    /\ nav.pc = "readingPrefs"
    /\ warm' = TRUE
    /\ nav' = IF prefs.done THEN [pc |-> "readingTotal", active |-> ActiveOn(prefs, page)]
              ELSE NoNav
    /\ UNCHANGED <<unguarded, prefs, page, pageCount, total, memTotal, inactive,
                   badge, queue, counted, heard, cleans, events>>

FromMemory == Remembered

\* The total navigationStarted carries: read back from storage.session, since the
\* worker may have been evicted since it was last counted.
TotalOnNavigation == total

\* navigationStarted, then tabActiveStateChanged.
NavRepaints ==
    /\ nav.pc = "readingTotal"
    /\ memTotal' = TotalOnNavigation
    /\ inactive' = ~nav.active
    /\ badge' = Painted(warm, ~nav.active, TotalOnNavigation)
    /\ nav' = NoNav
    /\ UNCHANGED <<unguarded, prefs, warm, page, pageCount, total, queue, counted,
                   heard, cleans, events>>

KeepsTotal == total

\* Both session keys are evicted here, and only here the total.
TotalAfterClose == 0

CloseTab ==
    /\ Open
    /\ unguarded' = ~Idle
    /\ page' = "closed"
    /\ pageCount' = 0 /\ total' = TotalAfterClose
    /\ memTotal' = Unknown /\ inactive' = FALSE
    /\ badge' = Blank
    /\ cleans' = [page |-> 0, tab |-> 0]
    /\ UNCHANGED <<prefs, warm, queue, counted, nav, heard, events>>

-----------------------------------------------------------------------------
(* storage.onChanged.                                                      *)

\* A preference changes; the listener drops the cache before anything else.
Change(key) ==
    /\ Idle
    /\ Happens("changed", MaxChanges)
    /\ key = "done" => ~prefs.done
    /\ prefs' = [prefs EXCEPT ![key] = ~@]
    /\ warm' = FALSE
    /\ heard' = Append(heard, [key |-> key, pc |-> "start", read |-> prefs])
    /\ UNCHANGED <<unguarded, page, pageCount, total, memTotal, inactive, badge,
                   queue, counted, nav, cleans>>

\* Every key but showBadge leads to getPrefsWithCache, applyDnrState, and
\* repaintAllTabsActiveState, which does nothing before consent.
ListenerReadsPrefs ==
    /\ heard # <<>> /\ Head(heard).pc = "start" /\ Head(heard).key # "show"
    /\ warm' = TRUE
    /\ heard' = IF prefs.done
                THEN [heard EXCEPT ![1].pc = "querying", ![1].read = prefs]
                ELSE Tail(heard)
    /\ UNCHANGED <<unguarded, prefs, page, pageCount, total, memTotal, inactive,
                   badge, queue, counted, nav, cleans, events>>

\* tabs.query answers and tabActiveStateChanged is emitted: the count painted is
\* the one in memory.
RepaintAllTabs ==
    /\ heard # <<>> /\ Head(heard).pc = "querying"
    /\ heard' = Tail(heard)
    /\ IF Open
       THEN /\ inactive' = ~ActiveOn(Head(heard).read, page)
            /\ badge' = Painted(warm, inactive', Remembered)
       ELSE UNCHANGED <<inactive, badge>>
    /\ UNCHANGED <<unguarded, prefs, warm, page, pageCount, total, memTotal, queue,
                   counted, nav, cleans, events>>

\* collectBadgeTotals and showBadgePrefChanged: the presenter ignores it before
\* consent, which is what the cache just dropped looks like.
ListenerTellsShowBadge ==
    /\ heard # <<>> /\ Head(heard).pc = "start" /\ Head(heard).key = "show"
    /\ heard' = Tail(heard)
    /\ LET known == IF total > 0 THEN total ELSE memTotal IN
         IF warm /\ prefs.done /\ known # Unknown /\ Open
         THEN /\ memTotal' = known
              /\ badge' = IF prefs.show THEN BadgeText(inactive, known) ELSE Blank
              /\ UNCHANGED unguarded
         ELSE unguarded' = TRUE /\ UNCHANGED <<memTotal, badge>>
    /\ UNCHANGED <<prefs, warm, page, pageCount, total, inactive, queue, counted, nav,
                   cleans, events>>

\* The idle worker is evicted; no onStartup follows.
Evict ==
    /\ Idle
    /\ Happens("evicted", MaxEvictions)
    /\ warm' = FALSE /\ memTotal' = Unknown /\ inactive' = FALSE
    /\ UNCHANGED <<unguarded, prefs, page, pageCount, total, badge, queue, counted,
                   nav, heard, cleans>>

Next ==
    \/ Clean \/ EmitCleaned \/ \E i \in DOMAIN queue : SessionStep(i)
    \/ \E site \in {"a", "b"} : Navigate(site)
    \/ NavReadsPrefs \/ NavRepaints \/ CloseTab
    \/ \E key \in {"on", "paused", "show", "done"} : Change(key)
    \/ ListenerReadsPrefs \/ RepaintAllTabs \/ ListenerTellsShowBadge
    \/ Evict

Spec == Init /\ [][Next]_vars

-----------------------------------------------------------------------------
(* Properties.                                                             *)

\* Type correctness; no count is ever ahead of what was cleaned.
TypeOK ==
    /\ prefs \in [on : BOOLEAN, paused : BOOLEAN, show : BOOLEAN, done : BOOLEAN]
    /\ warm \in BOOLEAN /\ inactive \in BOOLEAN /\ unguarded \in BOOLEAN
    /\ page \in {"a", "b", "closed"}
    /\ Open => pageCount \in 0..cleans.tab /\ total \in 0..cleans.tab
    /\ memTotal \in Nat \cup {Unknown} /\ badge \in Nat \cup {Glyph}
    /\ queue \in Seq([pc : {"readPage", "writePage", "readTotal", "writeTotal"},
                      seen : Nat])
    /\ counted \in Seq(Nat)
    /\ nav \in [pc : {"idle", "readingPrefs", "readingTotal"}, active : BOOLEAN]

\* The badge tells the truth once nothing is under way: the glyph on a tab where
\* nothing is cleaned, else the tab's running total, and nothing with showBadge
\* off; across navigations, preference changes and evictions.  Only a repaint in a
\* worker that was restarted, and has no total in memory, may show nothing.
BadgeTruthful ==
    Idle /\ Open /\ prefs.done /\ ~unguarded
        => \/ badge = IF ~prefs.show THEN Blank
                      ELSE IF ~ActiveOn(prefs, page) THEN Glyph ELSE total
           \/ memTotal = Unknown /\ badge = Blank

\* The running total is that of the tab, whatever overlaps; the per-page count is
\* that of the page unless a navigation cut into the counting.
CountsExact ==
    Idle /\ Open => /\ total = cleans.tab
                    /\ unguarded \/ pageCount = cleans.page

\* The badge never shows more than was cleaned in the tab, whatever overlaps.
NeverOverstated == Open => badge <= cleans.tab

\* A closed tab leaves no session key and no entry of the presenter behind, unless
\* it was closed while something was under way.
NothingLeftBehind ==
    Idle /\ ~Open /\ ~unguarded => pageCount = 0 /\ total = 0 /\ memTotal = Unknown

\* What background/toolbar-badge.js says of onTabRemoved: both session keys are
\* evicted there, whatever else is going on.
SessionKeysEvicted == Idle /\ ~Open => pageCount = 0 /\ total = 0
=============================================================================
