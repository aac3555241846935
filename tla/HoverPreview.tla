---------------------------- MODULE HoverPreview ----------------------------
(***************************************************************************)
(* The hover preview of a page (content/hover-preview.js): one tooltip,    *)
(* one hover at a time, a delay before it shows and, for a shortener, a    *)
(* question to the service worker whose answer may come when the pointer   *)
(* is long elsewhere, or back (RESOLVE_SHORTENER in service-worker.js,     *)
(* lib/native-shortener-resolver.js, clean-resolved-destination.js).       *)
(***************************************************************************)
EXTENDS Naturals, FiniteSets

CONSTANTS
    Wrapped,     \* links whose clean form is on another host: shown at once
    Shorteners,  \* links a shortener hides
    MaxHovers, MaxChanges, MaxFailures

VARIABLES
    setting,   \* resolveShortenersOnHover and the gate, as stored
    prefs,     \* _prefs of this page, or Unknown
    loads,     \* getPrefs messages under way
    current,   \* _currentAnchor
    gen,       \* _hoverGen
    timer,     \* the anchor the delay runs for
    requests,  \* RESOLVE_SHORTENER questions under way
    shown,     \* the anchor the tooltip is about, and what it says
    aria,      \* each link's aria-describedby: the page's own or the tooltip's
    described, \* _describedAnchor, and the value it had
    rested,    \* history: the pointer rested on the current link for the delay
    hovers, changes, failures

bounds == <<hovers, changes, failures>>
hover == <<current, gen, timer, rested>>
tooltip == <<shown, aria, described>>
settings == <<setting, prefs, loads>>
vars == <<settings, hover, requests, tooltip, bounds>>

Link == Wrapped \cup Shorteners
None == "none"
Unknown == "unknown"
Settings == {"off", "on", "resolving"}  \* gate closed; previews; previews that resolve
Hidden == [link |-> None, text |-> None]

Init ==
    /\ setting \in Settings /\ prefs = Unknown /\ loads = 1
    /\ current = None /\ gen = 0 /\ timer = None /\ rested = FALSE
    /\ requests = {}
    /\ shown = Hidden /\ aria = [l \in Link |-> "page"]
    /\ described = [link |-> None, was |-> None]
    /\ hovers = 0 /\ changes = 0 /\ failures = 0

-----------------------------------------------------------------------------
(* The tooltip.                                                            *)

LeavesTip == aria

\* clearDescribedBy: the described link gets its own value back.
Restored == IF described.link = None THEN aria
            ELSE [aria EXCEPT ![described.link] = described.was]

Hide ==
    /\ shown' = Hidden
    /\ aria' = Restored
    /\ described' = [link |-> None, was |-> None]

\* describeAnchor keeps what the attribute was before, once per link.
Was(l) == IF described.link = l THEN described.was ELSE Restored[l]

Show(l, text) ==
    /\ shown' = [link |-> l, text |-> text]
    /\ described' = [link |-> l, was |-> Was(l)]
    /\ aria' = [Restored EXCEPT ![l] = "tip"]

-----------------------------------------------------------------------------
(* The pointer and the keyboard.                                           *)

NextGen == gen + 1

\* clearHoverState: the timer and every question under way are given up.
Cleared ==
    /\ gen' = NextGen /\ timer' = None /\ rested' = FALSE
    /\ Hide

\* mouseover and focusin on a link that is not the current one.
Enter(l) ==
    /\ l # current /\ hovers < MaxHovers
    /\ hovers' = hovers + 1
    /\ gen' = NextGen /\ rested' = FALSE /\ Hide
    /\ current' = l /\ timer' = l
    /\ UNCHANGED <<settings, requests, changes, failures>>

\* mouseout, focusout, a move off the link, scroll, Escape, click.
Leave ==
    /\ current # None
    /\ current' = None /\ Cleared
    /\ UNCHANGED <<settings, requests, bounds>>

GatePasses == prefs \in {"on", "resolving"}

\* fireHover: the cleaner answers at once; a shortener has to be asked about.
FireHover ==
    /\ timer # None
    /\ timer' = None /\ rested' = TRUE
    /\ IF GatePasses /\ timer \in Wrapped
       THEN Show(timer, "clean") ELSE UNCHANGED tooltip
    /\ requests' = IF prefs = "resolving" /\ timer \in Shorteners
                   THEN requests \cup {[link |-> timer, gen |-> gen, pc |-> "asked"]}
                   ELSE requests
    /\ UNCHANGED <<settings, current, gen, bounds>>

-----------------------------------------------------------------------------
(* RESOLVE_SHORTENER.                                                      *)

Becomes(r, pc) == requests' = (requests \ {r}) \cup {[r EXCEPT !.pc = pc]}

\* The worker checks the stored preference itself before it fetches.
WorkerChecks(r) ==
    /\ r.pc = "asked"
    /\ Becomes(r, IF setting = "resolving" THEN "fetching" ELSE "refused")
    /\ UNCHANGED <<settings, hover, tooltip, bounds>>

\* The redirect is followed and its target cleaned, or the fetch or the checks
\* on the target fail, or the worker dies.
WorkerAnswers(r) ==
    /\ r.pc = "fetching"
    /\ \/ Becomes(r, "answered") /\ UNCHANGED failures
       \/ /\ failures < MaxFailures /\ failures' = failures + 1
          /\ Becomes(r, "refused")
    /\ UNCHANGED <<settings, hover, tooltip, hovers, changes>>

SameLink(r) == current = r.link

\* What an answer must find unchanged: the hover it was asked for.
StillWanted(r) == gen = r.gen /\ current = r.link

\* The answer, the page's own six-second limit, and the checks made after it.
AnswerArrives(r) ==
    /\ r.pc \in {"answered", "refused"}
    /\ requests' = requests \ {r}
    /\ IF r.pc = "answered" /\ StillWanted(r) /\ prefs = "resolving"
       THEN Show(r.link, "destination") ELSE UNCHANGED tooltip
    /\ UNCHANGED <<settings, hover, bounds>>

GivesUp(r) ==
    /\ r.pc # "answered" /\ requests' = requests \ {r}
    /\ UNCHANGED <<settings, hover, tooltip, bounds>>

-----------------------------------------------------------------------------
(* The settings of the page.                                               *)

Change ==
    /\ changes < MaxChanges
    /\ changes' = changes + 1
    /\ \E s \in Settings \ {setting} : setting' = s
    /\ loads' = loads + 1
    /\ UNCHANGED <<prefs, hover, requests, tooltip, hovers, failures>>

\* loadPrefs: the worker answers with what is stored, or not at all (null).
Loaded ==
    /\ loads > 0 /\ loads' = loads - 1
    /\ \/ prefs' = setting /\ UNCHANGED bounds
       \/ /\ failures < MaxFailures /\ failures' = failures + 1
          /\ prefs' = Unknown /\ UNCHANGED <<hovers, changes>>
    /\ UNCHANGED <<setting, hover, requests, tooltip>>

Next ==
    \/ \E l \in Link : Enter(l)
    \/ Leave \/ FireHover
    \/ \E r \in requests : WorkerChecks(r) \/ WorkerAnswers(r) \/ AnswerArrives(r)
                           \/ GivesUp(r)
    \/ Change \/ Loaded

Spec == Init /\ [][Next]_vars

-----------------------------------------------------------------------------
(* What the preview promises.                                              *)

\* The tooltip, the hover and the settings hold values of their kind.
TypeOK ==
    /\ setting \in Settings /\ prefs \in Settings \cup {Unknown} /\ loads \in Nat
    /\ current \in Link \cup {None} /\ timer \in Link \cup {None}
    /\ shown.link \in Link \cup {None}
    /\ \A l \in Link : aria[l] \in {"page", "tip"}

\* A tooltip is about the link under the pointer, and only after the pointer
\* rested there for the whole delay: an answer asked for by an earlier visit to
\* the same link shows nothing.
TooltipIsEarned == shown.link # None => shown.link = current /\ rested

\* The page's own description of a link is out of the way exactly while the
\* tooltip describes it, and comes back whichever event ends the preview.
DescriptionsRestored == \A l \in Link : aria[l] = "tip" <=> shown.link = l

\* What a user of the preview is promised: nothing shown unasked, nothing of the
\* page left changed.
PreviewHonest == TooltipIsEarned /\ DescriptionsRestored
=============================================================================
