----------------------------- MODULE TabScripts -----------------------------
(***************************************************************************)
(* The scripts of one tab between loads: the preferences it has asked the  *)
(* worker for (content/cleaner.js), the active-defence gate                *)
(* (content/history-defuser.js), and the cleaning of same-document         *)
(* navigations, which no network rule sees: the synchronous strip of the   *)
(* main world (history-defuser-mainworld.js) and __mugaReclean.            *)
(*                                                                         *)
(* The worker is what PrefsCache shows of it: an answer is some version of *)
(* the preferences that is not older than what the worker has heard of.    *)
(* MUGA is enabled in the even versions.                                   *)
(***************************************************************************)
EXTENDS Integers, Sequences, SequencesExt, FiniteSets, FiniteSetsExt

CONSTANTS
    Route,
    LoopCap,    \* rewrites of one URL that isRecleanLoop allows in its window
    MaxChanges, MaxNavigations, MaxFailures  \* bounds

None == -1

VARIABLES
    firefox,    \* Firefox wraps the page's history itself and has no first strip
    stored,     \* the version in storage
    areas,      \* the storage area of each change: "sync" or "local"
    heard,      \* the last change the worker was told of
    told,       \* the last change this tab was told of
    asks,       \* questions of the tab, not yet answered: "content" or "gate"
    replies,    \* answers on their way
    prefs,      \* _contentPrefs: a version, or None
    gate,       \* _fxGateOpen, _gateOpen
    gateFailed, \* history: the gate's last answer was a failure
    location,   \* the URL in the address bar
    last,       \* _lastRecleanUrl
    log,        \* _recleanLog: times each URL was cleaned in this window
    rewrites,   \* history: rewrites of each URL in this window
    seen,       \* history: __mugaReclean was called for the location, enabled and
                \* within the loop cap
    navigations, failures

channel == <<stored, areas, heard, told, asks, replies>>
page == <<location, last, log, rewrites, seen>>
vars == <<firefox, channel, prefs, gate, gateFailed, page, navigations, failures>>

Enabled(version) == version # None /\ version % 2 = 0

\* A URL: its route, parameters of the hot-path subset, and what only the full
\* pipeline removes.
URLs == [route : Route, hot : BOOLEAN, deep : BOOLEAN]
IsClean(url) == ~url.hot /\ ~url.deep

Init ==
    /\ firefox \in BOOLEAN
    /\ stored = 0 /\ areas = <<>> /\ heard = 0 /\ told = 0
    /\ asks = {"content", "gate"} /\ replies = <<>>
    /\ prefs = None /\ gate = FALSE /\ gateFailed = FALSE
    /\ location \in {u \in URLs : IsClean(u)} /\ last = <<>>
    /\ log = [u \in URLs |-> 0] /\ rewrites = [u \in URLs |-> 0] /\ seen = FALSE
    /\ navigations = 0 /\ failures = 0

-----------------------------------------------------------------------------
(* Preferences.                                                            *)

Change ==
    /\ stored < MaxChanges
    /\ stored' = stored + 1
    /\ \E area \in {"sync", "local"} : areas' = Append(areas, area)
    /\ UNCHANGED <<firefox, heard, told, asks, replies, prefs, gate, gateFailed, page,
                   navigations, failures>>

WorkerHears ==
    /\ heard < stored
    /\ heard' = heard + 1
    /\ UNCHANGED <<firefox, stored, areas, told, asks, replies, prefs, gate, gateFailed,
                   page, navigations, failures>>

SyncOnly(area) == area = "sync"
\* history-defuser.js: the consent record and the overrides are local.
MovesGate(area) == area \in {"sync", "local"}

\* storage.onChanged: the gate asks again; cleaner.js only drops what it had.  The
\* worker is told no later than the tabs.
TabHears ==
    /\ told < heard
    /\ told' = told + 1
    /\ asks' = IF MovesGate(areas[told']) THEN asks \cup {"gate"} ELSE asks
    /\ prefs' = IF areas[told'] = "sync" THEN None ELSE prefs
    /\ UNCHANGED <<firefox, stored, areas, heard, replies, gate, gateFailed, page,
                   navigations, failures>>

\* getPrefs.  A worker that dies answers nothing.
Answer ==
    \E who \in asks :
    /\ asks' = asks \ {who}
    /\ \/ \E version \in heard..stored :
            replies' = Append(replies, [who |-> who, version |-> version])
          /\ UNCHANGED failures
       \/ /\ failures < MaxFailures /\ failures' = failures + 1
          /\ replies' = Append(replies, [who |-> who, version |-> None])
    /\ UNCHANGED <<firefox, stored, areas, heard, told, prefs, gate, gateFailed, page,
                   navigations>>

\* __mugaReclean(url): guards, loop cap, full pipeline, rewrite.  The address bar
\* already shows url.
Pipeline(url) == [url EXCEPT !.hot = FALSE, !.deep = FALSE]

NeverLoops(n) == FALSE
Loops(n) == n > LoopCap

TargetSeenBefore(url, target) == IsClean(url) \/ last = <<target>>
\* computeRecleanTarget: only a real difference is rewritten.
NothingToRewrite(url, target) == target = url

Reclean(url, version) ==
    IF ~Enabled(version) \/ last = <<url>>
    THEN location' = url /\ UNCHANGED <<last, log, rewrites>>
    ELSE /\ log' = [log EXCEPT ![url] = @ + 1]
         /\ IF Loops(log'[url]) \/ NothingToRewrite(url, Pipeline(url))
            THEN location' = url /\ UNCHANGED <<last, rewrites>>
            ELSE /\ location' = Pipeline(url)
                 /\ last' = <<Pipeline(url)>>
                 /\ rewrites' = [rewrites EXCEPT ![url] = @ + 1]

\* The loop cap is what leaves a URL dirty.
Allowed(url, version) == Enabled(version) /\ log'[url] <= LoopCap

Deliver ==
    /\ replies # <<>>
    /\ replies' = Tail(replies)
    /\ LET reply == Head(replies)
       IN  IF reply.who = "content"
           THEN /\ prefs' = reply.version
                \* the document_start self-clean
                /\ Reclean(location, reply.version)
                /\ seen' = Allowed(location, reply.version)
                /\ UNCHANGED <<gate, gateFailed>>
           ELSE /\ gate' = Enabled(reply.version)
                /\ gateFailed' = (reply.version = None)
                /\ UNCHANGED <<prefs, page>>
    /\ UNCHANGED <<firefox, stored, areas, heard, told, asks, navigations, failures>>

-----------------------------------------------------------------------------
(* Same-document navigations.                                              *)

Navigates(url, recleaned) ==
    /\ navigations < MaxNavigations
    /\ navigations' = navigations + 1
    /\ IF recleaned THEN Reclean(url, prefs)
       ELSE location' = url /\ UNCHANGED <<last, log, rewrites>>
    /\ seen' = (recleaned /\ Allowed(url, prefs))
    /\ UNCHANGED <<firefox, channel, prefs, gate, gateFailed, failures>>

\* pushState, replaceState: the page, perhaps putting back what was removed.
PushState ==
    \E url \in URLs :
      Navigates(IF gate /\ ~firefox THEN [url EXCEPT !.hot = FALSE] ELSE url, gate)

\* popstate and hashchange ask no gate.
Traverse == \E url \in URLs : Navigates(url, TRUE)

\* Three seconds since a URL was first cleaned.
WindowEnds ==
    /\ \E url \in URLs : /\ log[url] > 0
                         /\ log' = [log EXCEPT ![url] = 0]
                         /\ rewrites' = [rewrites EXCEPT ![url] = 0]
    /\ UNCHANGED <<firefox, channel, prefs, gate, gateFailed, location, last, seen,
                   navigations, failures>>

Next ==
    \/ Change \/ WorkerHears \/ TabHears \/ Answer \/ Deliver
    \/ PushState \/ Traverse \/ WindowEnds

Spec == Init /\ [][Next]_vars
-----------------------------------------------------------------------------
(* Properties.                                                             *)

\* Type correctness.
TypeOK ==
    /\ firefox \in BOOLEAN /\ told \in 0..heard /\ heard \in 0..stored
    /\ areas \in Seq({"sync", "local"}) /\ stored = Len(areas)
    /\ asks \subseteq {"content", "gate"}
    /\ replies \in Seq([who : {"content", "gate"}, version : 0..stored \cup {None}])
    /\ prefs \in 0..stored \cup {None} /\ {gate, gateFailed, seen} \subseteq BOOLEAN
    /\ location \in URLs /\ last \in SeqOf(URLs, 1)
    /\ log \in [URLs -> Nat] /\ rewrites \in [URLs -> Nat]
    /\ navigations \in 0..MaxNavigations /\ failures \in 0..MaxFailures

Answering(who) == who \in asks \/ \E i \in DOMAIN replies : replies[i].who = who

\* Once the tab has heard of every change and been answered, the gate is what the
\* stored preferences say, whichever area they changed in and however the answers
\* and the changes crossed, unless the last question was lost
\* (readPrefsAndGate: "without a page reload").
GateConverges ==
    told = stored /\ ~Answering("gate") /\ ~gateFailed => gate = Enabled(stored)

\* Two dirty URLs that clean to one, back and forward, a page that puts parameters
\* back: what __mugaReclean was called for ends up clean, unless the same URL came
\* back too often (__mugaReclean).
SeenEndsClean == seen => IsClean(location)

\* A page that keeps putting a parameter back is not fought for ever (isRecleanLoop).
RewritesBounded == \A url \in URLs : rewrites[url] <= LoopCap

\* "Eagerly load prefs so they're available synchronously for click/copy handlers":
\* once they have been answered they are there.
PrefsReady == Answering("content") \/ prefs # None
=============================================================================
