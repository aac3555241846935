------------------------------ MODULE DomLinks -------------------------------
(***************************************************************************)
(* What the content scripts do to the page itself while the history gate   *)
(* is open: the observer that rewrites links as the page changes them      *)
(* (content/dom-link-rewriter.js), the capture-phase listeners that do it  *)
(* again at the last moment (dom-link-rewriter-click.js), and the wiping   *)
(* of an intermediary's storage (bounce-state-cleaner.js).  One link is    *)
(* enough: they are rewritten one by one.                                  *)
(*                                                                         *)
(* The rewriters use the full pipeline when its context is warm            *)
(* (cleanWithContext in content/cleaner.js) and a built-in list of hot     *)
(* parameters when it is not.                                              *)
(***************************************************************************)
EXTENDS Naturals, FiniteSets

CONSTANTS MaxWrites, MaxGates, MaxTurns  \* bounds

VARIABLES
    pageScheme, \* the page is served over http or https
    warm,       \* the preferences and the bundle are there
    observing,  \* _observer
    installed,  \* the click listeners are
    href,       \* the attribute of the link
    pending,    \* a mutation record waits for the observer
    press,      \* the click under way
    rewritten,  \* history: rewrites since the page, the gate or the context changed
    storage,    \* what the page keeps in its Web Storage: "empty" or "used"
    onPath,     \* the page's URL is an intermediary's
    latch,      \* _haveCleaned
    gate,       \* _prevGateEnabled
    writes, gates, turns

bounds == <<writes, gates, turns>>
bounce == <<storage, onPath, latch, gate>>
listeners == <<observing, installed>>
vars == <<pageScheme, warm, listeners, href, pending, press, rewritten, bounce, bounds>>

None == "none"

\* How the attribute is written, where it leads, the parameters it carries that the
\* built-in list knows ("hot") or only the pipeline does ("cold"), and the scheme
\* of the destination it wraps.  "hash" is a relative link without a query.
Href(shape, host, junk, dest) ==
    [shape |-> shape, scheme |-> "https", host |-> host, junk |-> junk, dest |-> dest]

Junk == SUBSET {"hot", "cold"}
Hrefs ==
    {Href(form[1], form[2], junk, dest) :
        form \in {<<"abs", "other">>, <<"proto", "other">>, <<"rel", "page">>},
        junk \in Junk, dest \in {None, "https"}}
    \cup {Href("hash", "page", {}, None)}

Init ==
    /\ pageScheme \in {"http", "https"}
    /\ warm = FALSE /\ observing = FALSE /\ installed = FALSE
    /\ href \in Hrefs /\ pending = FALSE /\ press = "up" /\ rewritten = 0
    /\ storage = "empty" /\ onPath \in BOOLEAN /\ latch = FALSE /\ gate = FALSE
    /\ writes = 0 /\ gates = 0 /\ turns = 0

-----------------------------------------------------------------------------
(* Cleaning one href.                                                      *)

\* new URL(raw, location): what the browser would open.  A link without a query of
\* its own has the page's, which is taken to be a dirty one.
Resolve(l) ==
    [scheme |-> IF l.shape = "abs" THEN l.scheme ELSE pageScheme, host |-> l.host,
     junk |-> IF l.shape = "hash" THEN {"hot"} ELSE l.junk, dest |-> l.dest]

Inline(url) == [url EXCEPT !.junk = @ \ {"hot"}]

Full(url) ==
    IF url.dest # None
    THEN [scheme |-> url.dest, host |-> "dest", junk |-> {}, dest |-> None]
    ELSE [url EXCEPT !.junk = {}]

CleanAbsolute(url) == IF warm THEN Full(url) ELSE Inline(url)

AnyOrigin(url) == TRUE
\* A cleaned URL of another origin has no relative form.
SameOrigin(url) == url.host = "page" /\ url.scheme = pageScheme

\* urlCleaner: absolute links as they come out, protocol-relative ones without
\* their scheme, relative ones as a path of this origin, or untouched.
Cleaned(l) ==
    LET url == CleanAbsolute(Resolve(l))
        unchanged == url = Resolve(l)
    IN  IF l.shape = "abs"
        THEN [l EXCEPT !.scheme = url.scheme, !.host = url.host,
                       !.junk = url.junk, !.dest = url.dest]
        ELSE IF l.shape = "proto" /\ ~unchanged
        THEN Href("proto", url.host, url.junk, url.dest)
        ELSE IF l.shape = "rel" /\ ~unchanged /\ SameOrigin(url)
        THEN Href("rel", "page", url.junk, url.dest)
        ELSE l

WritesAnyway(l) == TRUE
\* rewriteLink writes what is different and nothing else.
Differs(l) == Cleaned(l) # l

\* Every write of the attribute makes a record while the observer is connected.
Rewrite(cleared) ==
    IF Differs(href)
    THEN /\ href' = Cleaned(href) /\ pending' = observing'
         /\ rewritten' = rewritten + 1
    ELSE UNCHANGED <<href, rewritten>> /\ pending' = IF cleared THEN FALSE ELSE pending

-----------------------------------------------------------------------------
(* The page, the observer and the pointer.                                 *)

PageWrites(l) ==
    /\ writes < MaxWrites /\ writes' = writes + 1
    /\ href' = l /\ pending' = observing /\ rewritten' = 0
    /\ press' = IF press = "clicked" THEN "redecorated" ELSE press
    /\ UNCHANGED <<pageScheme, warm, listeners, bounce, gates, turns>>

ObserverFires ==
    /\ pending /\ rewritten <= 2 + MaxTurns
    /\ UNCHANGED listeners /\ Rewrite(TRUE)
    /\ UNCHANGED <<pageScheme, warm, press, bounce, bounds>>

\* Capture phase: before the page's own listeners, which may write in between.
Captures(from, to) ==
    /\ press = from /\ press' = to
    /\ UNCHANGED listeners
    /\ IF installed THEN Rewrite(FALSE) ELSE UNCHANGED <<href, pending, rewritten>>
    /\ UNCHANGED <<pageScheme, warm, bounce, bounds>>

MouseDown == Captures("up", "down")
Click == Captures("down", IF installed THEN "clicked" ELSE "ignored")

\* The browser opens the link; the page stays, as with a new tab.
Follow ==
    /\ press \in {"clicked", "redecorated", "ignored"}
    /\ press' = "up"
    /\ UNCHANGED <<pageScheme, warm, listeners, href, pending, rewritten, bounce, bounds>>

\* loadPrefs has answered, or a change has dropped the preferences.
ContextTurns ==
    /\ turns < MaxTurns /\ turns' = turns + 1
    /\ warm' = ~warm
    /\ UNCHANGED <<pageScheme, listeners, href, pending, press, rewritten, bounce,
                   writes, gates>>

-----------------------------------------------------------------------------
(* The gate, and the storage of an intermediary.                           *)

\* startObserver also rewrites the links that are there already.
FirstPass == ~observing

StaysCleaned(enabled) == latch
\* The latch is armed again when the gate closes.
StillCleaned(enabled) == latch /\ ~(gate /\ ~enabled)

\* muga:history-gate, dispatched after every change of a preference.
Gate(enabled) ==
    /\ gates < MaxGates /\ gates' = gates + 1
    /\ observing' = enabled /\ installed' = enabled
    /\ IF ~enabled THEN pending' = FALSE /\ UNCHANGED <<href, rewritten>>
       ELSE IF FirstPass THEN Rewrite(TRUE)
       ELSE UNCHANGED <<href, pending, rewritten>>
    /\ gate' = enabled
    /\ LET wipes == enabled /\ ~StillCleaned(enabled) /\ onPath
       IN  /\ latch' = (StillCleaned(enabled) \/ wipes)
           /\ storage' = IF wipes THEN "empty" ELSE storage
    /\ UNCHANGED <<pageScheme, warm, press, onPath, writes, turns>>

\* The page stores something, or moves to another path of its origin.
PageStores ==
    /\ storage' = "used" /\ storage = "empty"
    /\ UNCHANGED <<pageScheme, warm, listeners, href, pending, press, rewritten,
                   onPath, latch, gate, bounds>>

PageMoves ==
    /\ turns < MaxTurns /\ turns' = turns + 1
    /\ onPath' = ~onPath
    /\ UNCHANGED <<pageScheme, warm, listeners, href, pending, press, rewritten,
                   storage, latch, gate, writes, gates>>

Next ==
    \/ \E l \in Hrefs : PageWrites(l)
    \/ ObserverFires \/ MouseDown \/ Click \/ Follow \/ ContextTurns
    \/ \E enabled \in BOOLEAN : Gate(enabled)
    \/ PageStores \/ PageMoves

Spec == Init /\ [][Next]_vars

-----------------------------------------------------------------------------
(* What the page scripts promise.                                          *)

\* The attribute, the click and the flags hold values of their kind.
TypeOK ==
    /\ href.shape \in {"abs", "proto", "rel", "hash"} /\ href.junk \in Junk
    /\ press \in {"up", "down", "clicked", "redecorated", "ignored"}
    /\ storage \in {"empty", "used"}
    /\ \A flag \in {warm, observing, installed, pending, latch, gate} : flag \in BOOLEAN

\* A relative link into a wrapper of this site has no clean form of its own.
HasCleanForm(l) == ~(l.shape = "rel" /\ l.dest # None)

\* Once the observer has nothing left to do, no link shows a parameter the built-in
\* list knows, whatever the page, the gate and the context did in between; and it
\* comes to rest, writing each link at most once for each change of its own making.
LinksConverge ==
    /\ observing /\ ~pending /\ HasCleanForm(href) => "hot" \notin href.junk
    /\ rewritten <= 1 + turns

\* A rewritten link leads where the cleaned link leads, and one without a query of
\* its own is never rewritten.
TargetKept ==
    href' # href /\ writes' = writes =>
        /\ href.shape # "hash" /\ href'.shape = href.shape
        /\ [Resolve(href') EXCEPT !.scheme = pageScheme]
           = [CleanAbsolute(Resolve(href)) EXCEPT !.scheme = pageScheme]

\* The link a click follows is clean, if the page left it alone after the click was
\* captured: what it did to the link on mousedown does not matter.
FollowedIsClean ==
    press = "clicked" /\ press' = "up" /\ HasCleanForm(href) => "hot" \notin href.junk

LinkStepIsSound == TargetKept /\ FollowedIsClean
RewritesAreSound == [][LinkStepIsSound]_vars

\* Opening the gate on an intermediary's page leaves it nothing it stored before,
\* while MUGA was off or before it was heard of.
OpeningIsClean == ~gate /\ gate' /\ onPath => storage' = "empty"
OpeningWipes == [][OpeningIsClean]_vars

\* A protocol-relative link that wraps a secure destination does not come to lead
\* to it over http.
SchemeKept ==
    [][href' # href /\ writes' = writes =>
        Resolve(href').scheme = CleanAbsolute(Resolve(href)).scheme]_vars
=============================================================================
