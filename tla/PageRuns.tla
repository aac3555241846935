------------------------------ MODULE PageRuns -------------------------------
(***************************************************************************)
(* The content scripts, the cleaning of a link, and the toolbar and popup  *)
(* that tell of it, one in each behaviour: they share no variable, so      *)
(* nothing is lost by keeping the others still.  DomLinks is extended, the *)
(* others instances of their modules.                                      *)
(***************************************************************************)
EXTENDS DomLinks

CONSTANTS
    Focus,  \* the components explored
    \* ToolbarBadge
    MaxCleans, MaxBadgeNavigations, MaxBadgeChanges, MaxEvictions,
    \* RateNudge
    MinActiveDays, MinDaysSinceFirstUse, MaxShows, MinDaysBetween, MaxDay,
    MaxSessions, MaxNudgeFaults,
    \* FrequencyStore
    Name, Domain, Value, ShortNames, RandomValues, DomainThreshold,
    ValueThreshold, CandidateDomainThreshold, CandidateValueThreshold, Buffer,
    MaxTracked, MaxBatches, MaxFreqFaults,
    \* TabScripts
    Route, LoopCap, MaxTabChanges, MaxTabNavigations, MaxTabFailures,
    \* HoverPreview
    Wrapped, Shorteners, MaxHovers, MaxHoverChanges, MaxHoverFailures,
    \* UrlCleaning
    MaxHops, Localized, MixedCase, MaxPasses

\* What the proofs need of the constants: no link is called as the absence of one,
\* the nudge is not shown on the day MUGA is first used, a list is long enough for
\* the thresholds its length is held against, and a wrapper within a wrapper is
\* unwrapped in one go.
ASSUME PageAssumption ==
    /\ "none" \notin Wrapped \cup Shorteners
    /\ LoopCap \in Nat /\ MaxTabNavigations \in Nat /\ MaxTabFailures \in Nat
    /\ MaxDay \in Nat /\ MaxShows \in Nat /\ MinDaysBetween \in Nat
    /\ MinDaysSinceFirstUse \in Nat \ {0}
    /\ IsFiniteSet(Name) /\ MaxTracked \in Nat \ {0} /\ Buffer \in Nat
    /\ DomainThreshold \in Nat /\ CandidateDomainThreshold \in Nat
    /\ ValueThreshold \in Nat /\ CandidateValueThreshold \in Nat
    /\ DomainThreshold <= CandidateDomainThreshold + Buffer
    /\ ValueThreshold <= CandidateValueThreshold + Buffer
    /\ MaxHops \in Nat \ {0, 1} /\ MaxPasses \in Nat

VARIABLES
    focus,  \* the component this behaviour is about
    \* ToolbarBadge
    badgePrefs, cacheWarm, page, pageCount, total, memTotal, inactive, badge, queue,
    badgeCounted, nav, badgeHeard, badgeUnguarded, cleans, events,
    \* RateNudge
    day, count, lastDay, memo, run, popup, nudgeShown, lastShown, dismissed,
    sessionSeen, sessions, nudgeCounted, showings, straddled, nudgeFaults,
    faulted,
    \* FrequencyStore
    params, chain, truth, seenAt, clock, batches, freqFaults,
    \* TabScripts
    firefox, tabStored, areas, tabHeard, told, asks, replies, tabPrefs, tabGate,
    gateFailed, location, last, log, rewrites, seen, navigations, tabFailures,
    \* HoverPreview
    setting, hoverPrefs, loads, current, gen, hoverTimer, requests, hoverShown,
    aria, described, rested, hovers, changes, hoverFailures,
    \* UrlCleaning
    link, linkPrefs, referrer, answer, passes

Badge == INSTANCE ToolbarBadge WITH
    MaxNavigations <- MaxBadgeNavigations, MaxChanges <- MaxBadgeChanges,
    prefs <- badgePrefs, warm <- cacheWarm, counted <- badgeCounted, heard <- badgeHeard,
    unguarded <- badgeUnguarded
Nudge == INSTANCE RateNudge WITH
    MaxFaults <- MaxNudgeFaults,
    shown <- nudgeShown, counted <- nudgeCounted, faults <- nudgeFaults
Frequency == INSTANCE FrequencyStore WITH
    MaxFaults <- MaxFreqFaults, faults <- freqFaults
Tab == INSTANCE TabScripts WITH
    MaxChanges <- MaxTabChanges, MaxNavigations <- MaxTabNavigations,
    MaxFailures <- MaxTabFailures, stored <- tabStored, heard <- tabHeard,
    prefs <- tabPrefs, gate <- tabGate, failures <- tabFailures
Hover == INSTANCE HoverPreview WITH
    MaxChanges <- MaxHoverChanges, MaxFailures <- MaxHoverFailures,
    prefs <- hoverPrefs, timer <- hoverTimer,
    shown <- hoverShown, failures <- hoverFailures
Cleaner == INSTANCE UrlCleaning WITH prefs <- linkPrefs

badgeVars ==
    <<badgePrefs, cacheWarm, page, pageCount, total, memTotal, inactive, badge,
      queue, badgeCounted, nav, badgeHeard, badgeUnguarded, cleans, events>>
nudgeVars ==
    <<day, count, lastDay, memo, run, popup, nudgeShown, lastShown,
      dismissed, sessionSeen, sessions, nudgeCounted, showings, straddled,
      nudgeFaults, faulted>>
freqVars ==
    <<params, chain, truth, seenAt, clock, batches, freqFaults>>
tabVars ==
    <<firefox, tabStored, areas, tabHeard, told, asks, replies, tabPrefs,
      tabGate, gateFailed, location, last, log, rewrites, seen, navigations,
      tabFailures>>
hoverVars ==
    <<setting, hoverPrefs, loads, current, gen, hoverTimer, requests,
      hoverShown, aria, described, rested, hovers, changes, hoverFailures>>
linkVars ==
    <<link, linkPrefs, referrer, answer, passes>>
RunInit ==
    /\ focus \in Focus
    /\ Badge!Init
    /\ focus # "badge" => badgePrefs.done
    /\ Nudge!Init
    /\ Frequency!Init
    /\ Tab!Init
    /\ focus # "tab" =>
         firefox /\ location = CHOOSE u \in Tab!URLs : Tab!IsClean(u)
    /\ Hover!Init
    /\ focus # "hover" => setting = CHOOSE s \in Hover!Settings : TRUE
    /\ IF focus = "link"
       THEN Cleaner!Init
       ELSE /\ link = CHOOSE l \in Cleaner!Links : TRUE
            /\ linkPrefs = [stripAll |-> FALSE, notify |-> FALSE,
                            unwrap |-> FALSE, white |-> {}, black |-> {}]
            /\ referrer = Cleaner!None /\ answer = Cleaner!NoAnswer
            /\ passes = 0
    /\ Init
    /\ focus # "dom" =>
         pageScheme = "https" /\ ~onPath /\ href = CHOOSE l \in Hrefs : TRUE

RunNext ==
    /\ UNCHANGED focus
    /\ \/ focus = "badge" /\ Badge!Next
          /\ UNCHANGED <<nudgeVars, freqVars, tabVars, hoverVars, linkVars,
                         vars>>
       \/ focus = "nudge" /\ Nudge!Next
          /\ UNCHANGED <<badgeVars, freqVars, tabVars, hoverVars, linkVars,
                         vars>>
       \/ focus = "freq" /\ Frequency!Next
          /\ UNCHANGED <<badgeVars, nudgeVars, tabVars, hoverVars, linkVars,
                         vars>>
       \/ focus = "tab" /\ Tab!Next
          /\ UNCHANGED <<badgeVars, nudgeVars, freqVars, hoverVars, linkVars,
                         vars>>
       \/ focus = "hover" /\ Hover!Next
          /\ UNCHANGED <<badgeVars, nudgeVars, freqVars, tabVars, linkVars,
                         vars>>
       \/ focus = "link" /\ Cleaner!Next
          /\ UNCHANGED <<badgeVars, nudgeVars, freqVars, tabVars, hoverVars,
                         vars>>
       \/ focus = "dom" /\ Next
          /\ UNCHANGED <<badgeVars, nudgeVars, freqVars, tabVars, hoverVars,
                         linkVars>>

allVars ==
    <<focus, badgeVars, nudgeVars, freqVars, tabVars, hoverVars, linkVars,
      vars>>

RunSpec == RunInit /\ [][RunNext]_allVars

-----------------------------------------------------------------------------
\* Type correctness of the component in focus.
StateTyped ==
    /\ focus = "badge" => Badge!TypeOK
    /\ focus = "nudge" => Nudge!TypeOK
    /\ focus = "freq" => Frequency!TypeOK
    /\ focus = "tab" => Tab!TypeOK
    /\ focus = "hover" => Hover!TypeOK
    /\ focus = "link" => Cleaner!TypeOK
    /\ focus = "dom" => TypeOK

\* The badge tells the truth once nothing is under way, its counts are those of the
\* page and of the tab, whatever overlaps, and a closed tab leaves no key and no
\* entry behind (updateTabBadge, onTabRemoved).
BadgeSound ==
    /\ Badge!BadgeTruthful
    /\ Badge!CountsExact
    /\ Badge!NeverOverstated
    /\ Badge!NothingLeftBehind

\* A day counts once however many contexts count it (planActiveDayUpdate), and the
\* nudge is shown rarely: its cap, one per session, days apart
\* (shouldShowRateNudge).
NudgeHonest == Nudge!ActiveDaysExact /\ Nudge!NudgeIsRare

\* Every verdict is the one that everything seen would give, and a parameter is
\* forgotten only for ones seen since (_applyObservation, MAX_TRACKED_PARAMS).
FrequencySound == Frequency!VerdictsLossless /\ Frequency!RecentlySeenTracked

\* The history gate is what the stored preferences say, however answers and
\* changes crossed (readPrefsAndGate).
GateConverges == Tab!GateConverges

\* What __mugaReclean was called for ends up clean, and a page that puts a
\* parameter back is not fought for ever (isRecleanLoop).
RecleanSettles == Tab!SeenEndsClean /\ Tab!RewritesBounded

\* A tooltip is about the link the pointer has rested on (maybeResolveShortener),
\* and a link's own description comes back whichever event ends the preview
\* (clearDescribed).
PreviewHonest == Hover!PreviewHonest

\* Cleaning settles: a second pass finds nothing to change (processUrl).
SecondPassChangesNothing ==
    [][focus = "link" => Cleaner!SecondPassIsIdle]_linkVars

\* A value the user approved outlives every strip (isWhitelisted), no other
\* affiliate value outlives stripping all (stripAllAffiliates), and the answer says
\* what was done (buildReturnPayload).
AffiliatesAsAsked ==
    [][focus = "link" => /\ Cleaner!ApprovedIsKept
                         /\ Cleaner!StripAllIsThorough
                         /\ Cleaner!AnswerIsTrue]_linkVars

\* An exempt site and a signed link lose nothing of their query, whatever stood
\* in front of them (isSiteFullyExempt, isSignedUrl).
ProtectedDestination ==
    [][focus = "link" => Cleaner!ProtectedIsKept]_linkVars
=============================================================================
