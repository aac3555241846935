----------------------------- MODULE PrefsCache -----------------------------
(***************************************************************************)
(* The preferences cache of background/service-worker.js                   *)
(* (getPrefsWithCache, _invalidatePrefsCache) over getPrefs of lib/prefs.js *)
(* and getRemoteParams of lib/storage.js.                                  *)
(*                                                                         *)
(* A snapshot is assembled from several parts of storage (the sync area,   *)
(* the consent record, the per-device overrides, the remote payload), each *)
(* read on its own, each degrading to its default on its own failure.      *)
(* Writers are other contexts; the worker hears of a write some time later *)
(* through storage.onChanged.  A part's value is the number of writes to it*)
(* so far.                                                                 *)
(***************************************************************************)
EXTENDS Integers, FiniteSets

CONSTANTS
    Parts,      \* what a snapshot is read from
    Fetches,    \* bound: reads of the whole snapshot in flight at a time
    Callers,    \* activations that ask for the preferences
    NoFetch,    \* prefsFetchPromise = null
    MaxWrites,  \* bound: writes to each part
    MaxFailures,\* bound: failed reads
    MaxForced   \* bound: invalidations that no change event announces

ASSUME ConstantsAssumption ==
    /\ NoFetch \notin Fetches
    /\ MaxWrites \in Nat /\ MaxFailures \in Nat /\ MaxForced \in Nat

VARIABLES
    stored,            \* writes each part has taken
    heard,             \* writes each part's change events have announced
    cachedPrefs,       \* the snapshot kept, or NotCached
    prefsFetchPromise, \* the fetch new callers join, or NoFetch
    version,           \* _cacheVersion
    fetch,             \* the fetches in flight
    caller,            \* what each activation waits for and was answered
    failed,            \* parts a read of which has failed
    failures, forced

vars == <<stored, heard, cachedPrefs, prefsFetchPromise, version, fetch, caller,
          failed, failures, forced>>

-----------------------------------------------------------------------------
Default == -1    \* what a failed read of a part is replaced by
NotRead == -2

NotCached == [p \in {} |-> Default]
NothingRead == [p \in Parts |-> NotRead]
FreeFetch == [active |-> FALSE, versionAtStart |-> 0, got |-> NothingRead]

\* A caller remembers what the worker had heard when it asked.
Unasked == [state |-> "idle", awaits |-> NoFetch,
            asked |-> [p \in Parts |-> 0], answer |-> NotCached]

Init ==
    /\ stored = [p \in Parts |-> 0]
    /\ heard = stored
    /\ cachedPrefs = NotCached
    /\ prefsFetchPromise = NoFetch
    /\ version = 0
    /\ fetch = [f \in Fetches |-> FreeFetch]
    /\ caller = [c \in Callers |-> Unasked]
    /\ failed = {}
    /\ failures = 0 /\ forced = 0

-----------------------------------------------------------------------------
(* Storage.                                                                *)

\* Some context writes a part; the worker has yet to hear of it.
Write(p) ==
    /\ stored[p] < MaxWrites
    /\ stored' = [stored EXCEPT ![p] = @ + 1]
    /\ UNCHANGED <<heard, cachedPrefs, prefsFetchPromise, version, fetch, caller,
                   failed, failures, forced>>

InvalidateKeepsVersion ==
    /\ cachedPrefs' = NotCached
    /\ prefsFetchPromise' = NoFetch
    /\ version' = version

\* _invalidatePrefsCache.
Invalidate ==
    /\ cachedPrefs' = NotCached
    /\ prefsFetchPromise' = NoFetch
    /\ version' = version + 1

\* A change event of storage.onChanged.
HearChange(p) ==
    /\ heard[p] < stored[p]
    /\ heard' = [heard EXCEPT ![p] = @ + 1]
    /\ Invalidate
    /\ UNCHANGED <<stored, fetch, caller, failed, failures, forced>>

\* ADD_TO_WHITELIST, ADD_TO_BLACKLIST and the remote-rules handlers invalidate
\* on their own, without waiting for the event.
ForceInvalidate ==
    /\ forced < MaxForced
    /\ forced' = forced + 1
    /\ Invalidate
    /\ UNCHANGED <<stored, heard, fetch, caller, failed, failures>>

-----------------------------------------------------------------------------
(* getPrefsWithCache.                                                      *)

Started == [active |-> TRUE, versionAtStart |-> version, got |-> NothingRead]

Answered(c, prefs) == [caller[c] EXCEPT !.state = "answered", !.awaits = NoFetch,
                                        !.answer = prefs]

\* An activation asks: it is answered from the cache, joins the fetch in
\* flight, or starts one.
Ask(c) ==
    /\ caller[c].state # "waiting"
    /\ \/ /\ cachedPrefs # NotCached
          /\ caller' = [caller EXCEPT ![c] =
                 [state |-> "answered", awaits |-> NoFetch, asked |-> heard,
                  answer |-> cachedPrefs]]
          /\ UNCHANGED <<prefsFetchPromise, fetch>>
       \/ /\ cachedPrefs = NotCached
          /\ \/ /\ prefsFetchPromise # NoFetch
                /\ UNCHANGED <<prefsFetchPromise, fetch>>
             \/ /\ prefsFetchPromise = NoFetch
                /\ \E f \in Fetches :
                      /\ ~fetch[f].active
                      /\ fetch' = [fetch EXCEPT ![f] = Started]
                      /\ prefsFetchPromise' = f
          /\ caller' = [caller EXCEPT ![c] =
                 [state |-> "waiting", awaits |-> prefsFetchPromise', asked |-> heard,
                  answer |-> NotCached]]
    /\ UNCHANGED <<stored, heard, cachedPrefs, version, failed, failures, forced>>

\* One of the parallel reads of a fetch settles, or fails and is replaced by the
\* default of that part.
ReadPart(f, p) ==
    /\ fetch[f].active /\ fetch[f].got[p] = NotRead
    /\ \/ /\ fetch' = [fetch EXCEPT ![f].got[p] = stored[p]]
          /\ UNCHANGED <<failed, failures>>
       \/ /\ failures < MaxFailures
          /\ fetch' = [fetch EXCEPT ![f].got[p] = Default]
          /\ failed' = failed \cup {p}
          /\ failures' = failures + 1
    /\ UNCHANGED <<stored, heard, cachedPrefs, prefsFetchPromise, version, caller,
                   forced>>

SomeRead(f) == fetch[f].active /\ \E p \in Parts : fetch[f].got[p] # NotRead

\* Promise.all has settled.
ReadAll(f) == fetch[f].active /\ \A p \in Parts : fetch[f].got[p] # NotRead

AlwaysCurrent(f) == TRUE

\* Nothing was invalidated since the fetch began.
Current(f) == fetch[f].versionAtStart = version

\* The continuation of Promise.all when the result is kept.
Fill(f) ==
    /\ ReadAll(f) /\ Current(f)
    /\ cachedPrefs' = fetch[f].got
    /\ prefsFetchPromise' = NoFetch
    /\ fetch' = [fetch EXCEPT ![f] = FreeFetch]
    /\ caller' = [c \in Callers |-> IF caller[c].awaits = f
                                    THEN Answered(c, fetch[f].got) ELSE caller[c]]
    /\ UNCHANGED <<stored, heard, version, failed, failures, forced>>

DiscardAndForget(f) ==
    /\ ReadAll(f) /\ ~Current(f)
    /\ fetch' = [fetch EXCEPT ![f] = FreeFetch]
    /\ prefsFetchPromise' = NoFetch
    /\ UNCHANGED <<caller, stored, heard, cachedPrefs, version, failed, failures, forced>>

\* The continuation when the result is stale: the promise is dropped, whichever
\* fetch it stands for, and those who wait for f get what asking now returns.
Discard(f) ==
    /\ ReadAll(f) /\ ~Current(f)
    /\ \/ /\ cachedPrefs # NotCached
          /\ fetch' = [fetch EXCEPT ![f] = FreeFetch]
          /\ prefsFetchPromise' = NoFetch
          /\ caller' = [c \in Callers |-> IF caller[c].awaits = f
                                          THEN Answered(c, cachedPrefs) ELSE caller[c]]
       \/ /\ cachedPrefs = NotCached
          /\ fetch' = [fetch EXCEPT ![f] = Started]
          /\ prefsFetchPromise' = f
          /\ UNCHANGED caller
    /\ UNCHANGED <<stored, heard, cachedPrefs, version, failed, failures, forced>>

FetchStep(f) == (\E p \in Parts : ReadPart(f, p)) \/ Fill(f) \/ Discard(f)

Next ==
    \/ \E p \in Parts : Write(p) \/ HearChange(p)
    \/ ForceInvalidate
    \/ \E c \in Callers : Ask(c)
    \/ \E f \in Fetches : FetchStep(f)

Spec == Init /\ [][Next]_vars

\* Reads settle and promise continuations run; nobody has to write or to ask.
FairSpec == Spec /\ \A f \in Fetches : WF_vars(FetchStep(f))

-----------------------------------------------------------------------------
(* Properties.                                                             *)

Snapshot == [Parts -> Nat \cup {Default}]

FetchRecord == [active : BOOLEAN, versionAtStart : Nat,
                got : [Parts -> Nat \cup {Default, NotRead}]]

CallerRecord == [state : {"idle", "waiting", "answered"},
                 awaits : Fetches \cup {NoFetch},
                 asked : [Parts -> Nat],
                 answer : {NotCached} \cup Snapshot]

\* Type correctness of the cache's module-level variables.
TypeOK ==
    /\ stored \in [Parts -> Nat] /\ heard \in [Parts -> Nat]
    /\ cachedPrefs \in {NotCached} \cup Snapshot
    /\ prefsFetchPromise \in Fetches \cup {NoFetch}
    /\ version \in Nat
    /\ fetch \in [Fetches -> FetchRecord]
    /\ caller \in [Callers -> CallerRecord]
    /\ failed \subseteq Parts
    /\ failures \in Nat /\ forced \in Nat

\* v is no older than the part was when n writes to it had been heard of, or is
\* the default because a read of this very part failed.
NotOlder(p, v, n) == (n <= v /\ v <= stored[p]) \/ (v = Default /\ p \in failed)

\* Once every change has been heard of, the cache holds what storage holds; a
\* failed read costs its own part only (getPrefs, getPrefsWithCache).
CacheFresh ==
    cachedPrefs # NotCached /\ heard = stored
        => \A p \in Parts : NotOlder(p, cachedPrefs[p], stored[p])

\* An activation is never given preferences older than the changes the worker
\* had heard of when it asked, however many fetches were in flight or were
\* discarded meanwhile.
AnswerNotStale ==
    \A c \in Callers : caller[c].state = "answered" =>
        \A p \in Parts : NotOlder(p, caller[c].answer[p], caller[c].asked[p])

\* Nobody is left waiting by a discarded fetch.
EveryoneAnswered ==
    \A c \in Callers : caller[c].state = "waiting" ~> caller[c].state = "answered"
=============================================================================
