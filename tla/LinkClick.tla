----------------------------- MODULE LinkClick -----------------------------
(***************************************************************************)
(* What becomes of a clicked link: the click interceptor, its two toasts   *)
(* and the click-time shortener resolution (content/cleaner.js), the       *)
(* network layer the navigation passes (Chrome's declarativeNetRequest, or *)
(* Firefox's blocking listener, service-worker.js), and the self-clean of  *)
(* the page it arrives at, with what each of them counts.                  *)
(*                                                                         *)
(* A URL is what the properties tell apart: junk parameters, and a third   *)
(* party's affiliate tag, which cleaning keeps unless the tag is on the    *)
(* blacklist.                                                              *)
(***************************************************************************)
EXTENDS Naturals, Sequences

CONSTANTS
    RewriteMax,   \* rewrites a host may have in the window of isRewriteLoop
    MaxClicks     \* bound

Nobody == 0

VARIABLES
    firefox,    \* the blocking listener of MV2, or the rules of MV3
    notify,     \* prefs.notifyForeignAffiliate
    resolve,    \* prefs.resolveShortenersOnClick
    clicks,     \* the clicks on this page, in order
    toast,      \* the click whose toast is shown, or Nobody
    recent,     \* _rewriteLog's count for the links' host
    blacklist,  \* the tag: "absent", "sent" (ADD_TO_BLACKLIST), "stored" or, once
                \* the worker's cache has been filled again, "cached"
    left        \* the page has been navigated away from

vars == <<firefox, notify, resolve, clicks, toast, recent, blacklist, left>>

Links == [junk : BOOLEAN, tag : BOOLEAN, shortener : BOOLEAN]

Init ==
    /\ firefox \in BOOLEAN /\ notify \in BOOLEAN /\ resolve \in BOOLEAN
    /\ clicks = <<>> /\ toast = Nobody /\ recent = 0
    /\ blacklist = "absent" /\ left = FALSE

Blacklisted == blacklist \in {"stored", "cached"}

\* processUrl: junk goes; the tag stays unless it is blacklisted.
Cleaned(url, listed) == [url EXCEPT !.junk = FALSE, !.tag = url.tag /\ ~listed]

-----------------------------------------------------------------------------
(* The click.                                                              *)

\* navigate(): in this tab it replaces the page.
Navigated(i, url, choice) ==
    [clicks EXCEPT ![i].pc = "requested", ![i].url = url, ![i].choice = choice]
Leaves(i) == left' = (left \/ ~clicks'[i].newTab)

Intercepted(link) ==
    /\ link.tag \/ (link.shortener /\ resolve)  \* an affiliate store, a shortener
    /\ recent < RewriteMax                    \* isRewriteLoop

ResolvesShortener(link) == link.shortener /\ resolve /\ ~(link.tag /\ notify)
Notifies(link) == link.tag /\ notify /\ ~Blacklisted

\* A new toast removes the one that is shown, whose click leads nowhere.
Replaced == [c \in DOMAIN clicks |-> IF c = toast THEN [clicks[c] EXCEPT !.pc = "dropped"]
                                    ELSE clicks[c]]

\* The interceptor counts, then shows a toast, asks the worker, or navigates.
Click ==
    \E link \in Links, newTab \in BOOLEAN :
    /\ ~left /\ Len(clicks) < MaxClicks
    /\ ~(link.tag /\ link.shortener)
    /\ LET i == Len(clicks) + 1
           fresh == [link |-> link, newTab |-> newTab, pc |-> "clicked", url |-> link,
                     choice |-> "none", wire |-> link, counted |-> 0]
           counting == [fresh EXCEPT !.counted = IF link.junk THEN 1 ELSE 0]
       IN  IF ~Intercepted(link)
           THEN /\ clicks' = Append(clicks, [fresh EXCEPT !.pc = "requested"])
                /\ Leaves(i)
                /\ UNCHANGED <<toast, recent>>
           ELSE /\ recent' = recent + 1
                /\ \/ /\ Notifies(link)
                      /\ clicks' = Append(Replaced, [counting EXCEPT !.pc = "toast"])
                      /\ toast' = i
                      /\ UNCHANGED left
                   \/ /\ ~Notifies(link) /\ ResolvesShortener(link)
                      /\ clicks' = Append(clicks, [counting EXCEPT !.pc = "resolving"])
                      /\ UNCHANGED <<toast, left>>
                   \/ /\ ~Notifies(link) /\ ~ResolvesShortener(link)
                      /\ clicks' = Append(clicks, [counting EXCEPT !.pc = "requested",
                                             !.url = Cleaned(link, Blacklisted)])
                      /\ Leaves(i)
                      /\ UNCHANGED toast
    /\ UNCHANGED <<firefox, notify, resolve, blacklist>>

\* Two seconds without a rewrite.
WindowEnds ==
    /\ recent > 0
    /\ recent' = 0
    /\ UNCHANGED <<firefox, notify, resolve, clicks, toast, blacklist, left>>

-----------------------------------------------------------------------------
(* The toast.                                                              *)

\* "Keep it", "Dismiss" or the timer: the original link.
Keep ==
    /\ ~left /\ toast # Nobody
    /\ clicks' = Navigated(toast, clicks[toast].link, "original")
    /\ Leaves(toast)
    /\ toast' = Nobody
    /\ UNCHANGED <<firefox, notify, resolve, recent, blacklist>>

\* What "Remove it" navigates to: the cleaned URL.
Removed(link) == Cleaned(link, Blacklisted)

\* "Remove it": the tag is sent to the blacklist, and the navigation starts.
Remove ==
    /\ ~left /\ toast # Nobody
    /\ clicks' = Navigated(toast, Removed(clicks[toast].link), "clean")
    /\ blacklist' = IF blacklist = "absent" THEN "sent" ELSE blacklist
    /\ Leaves(toast)
    /\ toast' = Nobody
    /\ UNCHANGED <<firefox, notify, resolve, recent>>

\* The worker writes the blacklist and drops its cache, which is filled again later.
BlacklistStored ==
    /\ blacklist \in {"sent", "stored"}
    /\ blacklist' = IF blacklist = "sent" THEN "stored" ELSE "cached"
    /\ UNCHANGED <<firefox, notify, resolve, clicks, toast, recent, left>>

-----------------------------------------------------------------------------
(* The shortener.                                                          *)

GivesUp(i) == UNCHANGED clicks
\* ok: false, an invalid destination, a failed message: the link itself.
FallsBack(i) == clicks' = Navigated(i, clicks[i].link, "fallback")

Clean == [junk |-> FALSE, tag |-> FALSE, shortener |-> FALSE]

\* RESOLVE_SHORTENER answers in time, with a cleaned destination or without.
Resolves(i) ==
    /\ ~left /\ clicks[i].pc = "resolving"
    /\ clicks' = Navigated(i, Clean, "none") \/ FallsBack(i)
    /\ Leaves(i)
    /\ UNCHANGED <<firefox, notify, resolve, toast, recent, blacklist>>

\* The six seconds are over first; a later answer finds nobody.
TimesOut(i) ==
    /\ ~left /\ clicks[i].pc = "resolving"
    /\ FallsBack(i)
    /\ left' = (left \/ ~clicks[i].newTab)
    /\ UNCHANGED <<firefox, notify, resolve, toast, recent, blacklist>>

-----------------------------------------------------------------------------
(* The navigation.                                                         *)

NeverCounts(i) == clicks[i].counted
\* recordNetworkClean and the self-clean count what they remove.
Counts(i) == clicks[i].counted + IF clicks[i].url.junk THEN 1 ELSE 0

\* url goes out on the wire.
Sent(i, url, counted) ==
    clicks' = [clicks EXCEPT ![i].pc = "loading", ![i].url = url, ![i].wire = url,
                             ![i].counted = counted]

\* Chrome's rules strip the request and tell nobody; Firefox's listener strips and
\* counts, but lets it pass while its caches are cold, as they are after a write
\* to a list.
Request(i) ==
    /\ clicks[i].pc = "requested"
    /\ \/ ~firefox /\ Sent(i, [clicks[i].url EXCEPT !.junk = FALSE], clicks[i].counted)
       \/ /\ firefox /\ blacklist # "stored"
          /\ Sent(i, Cleaned(clicks[i].url, blacklist = "cached"), Counts(i))
       \/ firefox /\ Sent(i, clicks[i].url, clicks[i].counted)
    /\ UNCHANGED <<firefox, notify, resolve, toast, recent, blacklist, left>>

\* The self-clean of the page it leads to.
Arrive(i) ==
    /\ clicks[i].pc = "loading"
    /\ clicks' = [clicks EXCEPT ![i].pc = "arrived", ![i].counted = Counts(i),
                                ![i].url = Cleaned(clicks[i].url, Blacklisted)]
    /\ UNCHANGED <<firefox, notify, resolve, toast, recent, blacklist, left>>

Travel == \E i \in DOMAIN clicks : Request(i) \/ Arrive(i)
Timeout == \E i \in DOMAIN clicks : TimesOut(i)

Next ==
    \/ Click \/ WindowEnds \/ Keep \/ Remove \/ BlacklistStored
    \/ \E i \in DOMAIN clicks : Resolves(i)
    \/ Timeout \/ Travel

Spec == Init /\ [][Next]_vars
FairSpec == Spec /\ WF_vars(Keep) /\ WF_vars(Timeout) /\ WF_vars(Travel)

-----------------------------------------------------------------------------
(* Properties.                                                             *)

\* Type correctness.
TypeOK ==
    /\ {firefox, notify, resolve, left} \subseteq BOOLEAN
    /\ clicks \in Seq([link : Links, newTab : BOOLEAN, url : Links, wire : Links,
           pc : {"toast", "dropped", "resolving", "requested", "loading",
                 "arrived"},
           choice : {"none", "original", "clean", "fallback"}, counted : Nat])
    /\ toast \in 0..Len(clicks) /\ recent \in 0..RewriteMax
    /\ blacklist \in {"absent", "sent", "stored", "cached"}

Arrived(i) == i \in DOMAIN clicks /\ clicks[i].pc = "arrived"
WentToTheLink(i) == clicks[i].choice \in {"original", "fallback"}

\* Whichever of the click, the network and the page removes a link's junk, it is
\* counted once on Firefox, and at most once on Chrome, whose rules do not report;
\* only a click that was counted and then sent to the link itself may count again
\* (recordNetworkClean: "identical tallies").
CountedOnce ==
    \A i \in DOMAIN clicks : Arrived(i) /\ ~WentToTheLink(i) =>
        /\ clicks[i].counted <= 1
        /\ clicks[i].counted = 1 => clicks[i].link.junk
        /\ firefox /\ clicks[i].link.junk => clicks[i].counted = 1

Waits(i) == i \in DOMAIN clicks /\ clicks[i].pc \in {"toast", "resolving"}

\* A click that was held for a toast or for a resolution leads somewhere in the
\* end, whether the user answers or not; only a newer toast, or leaving the page,
\* takes it away.
HeldClicksNavigate ==
    \A i \in 1..MaxClicks : Waits(i) ~> ~Waits(i) \/ left

\* "Remove it always strips to the clean URL": a link whose tag the user asked to
\* remove is requested without it.
RemoveMeansRemoved ==
    \A i \in DOMAIN clicks :
      clicks[i].choice = "clean" /\ clicks[i].pc \in {"loading", "arrived"}
        => ~clicks[i].wire.tag
=============================================================================
