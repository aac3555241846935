------------------------- MODULE AttributionLedger -------------------------
(***************************************************************************)
(* "Recent activity": the worker's ring buffer of cleaning events          *)
(* (background/process-url.js, lib/attribution-ledger.js), its mirror in   *)
(* storage.local, the cold-start hydration from that mirror, and the       *)
(* Settings page's switch and Clear button (options/options.js), which     *)
(* write the mirror without telling the worker.                            *)
(*                                                                         *)
(* An event is the number of the navigation that made it.                  *)
(***************************************************************************)
EXTENDS Naturals, Sequences, SequencesExt

CONSTANTS
    Cap,         \* DEFAULT_LEDGER_CAPACITY
    MaxEvents, MaxRestarts, MaxClears, MaxFaults  \* bounds

VARIABLES
    stored,     \* storage.local attributionLedger.events
    ledger,     \* _attributionLedger.events
    hydrated,   \* _attributionLedgerHydrated has settled
    waiting,    \* pushes awaiting the hydration
    writes,     \* mirror writes sent to storage and not yet applied, in order
    recording,  \* prefs.attributionLedgerEnabled
    clearing,   \* the page's clear is on its way to storage
    base,       \* history: the ledger this lifetime began with
    asked,      \* history: events accepted in this lifetime
    cleared,    \* history: events a clear has removed
    diverged,   \* history: the mirror was last changed, or not changed, by a
                \* failed call or a clear
    events, restarts, clears, faults

memory == <<ledger, hydrated, waiting>>
bounds == <<events, restarts, clears, faults>>
vars == <<stored, memory, writes, recording, clearing, base, asked, cleared,
          diverged, bounds>>

Newest(s) == SubSeq(s, IF Len(s) > Cap THEN Len(s) - Cap + 1 ELSE 1, Len(s))

Init ==
    /\ stored = <<>> /\ ledger = <<>> /\ hydrated = FALSE
    /\ waiting = <<>> /\ writes = <<>> /\ recording = TRUE /\ clearing = FALSE
    /\ base = <<>> /\ asked = <<>> /\ cleared = {} /\ diverged = FALSE
    /\ events = 0 /\ restarts = 0 /\ clears = 0 /\ faults = 0

Fails ==
    /\ faults < MaxFaults
    /\ faults' = faults + 1 /\ diverged' = TRUE
    /\ UNCHANGED <<events, restarts, clears>>

-----------------------------------------------------------------------------
(* The worker.                                                             *)

KeepsOldest(s, event) == SubSeq(Append(s, event), 1, Cap)

\* pushEvent: first in, first out.
PushEvent(s, event) == Newest(Append(s, event))

\* fromCleanerResult: an action it does not know makes no event.
RecordedActions ==
    {"untouched", "cleaned", "blacklisted", "detected_foreign", "honored-creator"}

MirrorsTheOld(before, after) == before

\* What storage is sent after a push.
Mirror(before, after) == after

DoesNotWait == FALSE

\* pushAttributionAndPersist awaits the hydration before it touches the ledger.
MustWait == ~hydrated

\* handleProcessUrl has a result; a URL it failed on never gets here.
Process ==
    \E action \in {"cleaned", "unknown"} :
    /\ events < MaxEvents
    /\ events' = events + 1
    /\ IF ~recording \/ action \notin RecordedActions
       THEN UNCHANGED <<memory, writes, asked>>
       ELSE /\ asked' = Append(asked, events')
            /\ IF MustWait
               THEN waiting' = Append(waiting, events') /\ UNCHANGED <<ledger, writes>>
               ELSE /\ ledger' = PushEvent(ledger, events')
                    /\ writes' = Append(writes, Mirror(ledger, ledger'))
                    /\ UNCHANGED waiting
            /\ UNCHANGED hydrated
    /\ UNCHANGED <<stored, recording, clearing, base, cleared, diverged, restarts,
                   clears, faults>>

StillWaiting == waiting
Released == <<>>

\* _hydrateAttributionLedger settles, and the pushes that waited follow in order,
\* each sending the ledger it made to storage.
Hydrate ==
    /\ ~hydrated
    /\ hydrated' = TRUE
    /\ \/ base' = stored /\ UNCHANGED <<diverged, bounds>>
       \/ Fails /\ base' = ledger
    /\ LET After(n) == FoldLeft(PushEvent, base', SubSeq(waiting, 1, n))
       IN  /\ ledger' = After(Len(waiting))
           /\ writes' = writes \o [n \in 1..Len(waiting) |-> After(n)]
    /\ waiting' = Released
    /\ UNCHANGED <<stored, recording, clearing, asked, cleared>>

\* The mirror is fire-and-forget; its failure is logged and nothing retries it.
WriteSettles ==
    /\ writes # <<>>
    /\ writes' = Tail(writes)
    /\ \/ stored' = Head(writes) /\ diverged' = FALSE /\ UNCHANGED bounds
       \/ Fails /\ UNCHANGED stored
    /\ UNCHANGED <<memory, recording, clearing, base, asked, cleared>>

\* The worker stops: of the writes it had sent, some have been applied.
Restart ==
    /\ restarts < MaxRestarts
    /\ restarts' = restarts + 1
    /\ \E n \in 0..Len(writes) : stored' = IF n = 0 THEN stored ELSE writes[n]
    /\ ledger' = <<>> /\ hydrated' = FALSE /\ waiting' = <<>> /\ writes' = <<>>
    /\ base' = <<>> /\ asked' = <<>>
    /\ diverged' = FALSE
    /\ UNCHANGED <<recording, clearing, cleared, events, clears, faults>>

-----------------------------------------------------------------------------
(* The Settings page.                                                      *)

\* The recording switch: the preference is saved and, when it was turned off, the
\* stored ledger is cleared.
Toggle ==
    /\ clears < MaxClears /\ ~clearing
    /\ clears' = clears + 1
    /\ recording' = ~recording
    /\ clearing' = recording
    /\ UNCHANGED <<stored, memory, writes, base, asked, cleared, diverged, events,
                   restarts, faults>>

\* The Clear button.
Clear ==
    /\ clears < MaxClears /\ ~clearing
    /\ clears' = clears + 1
    /\ clearing' = TRUE
    /\ UNCHANGED <<stored, memory, writes, recording, base, asked, cleared, diverged,
                   events, restarts, faults>>

ClearLands ==
    /\ clearing
    /\ clearing' = FALSE
    /\ stored' = <<>>
    /\ cleared' = cleared \cup Range(stored)
    /\ diverged' = TRUE
    /\ UNCHANGED <<memory, writes, recording, base, asked, bounds>>

Next ==
    \/ Process \/ Hydrate \/ WriteSettles \/ Restart
    \/ Toggle \/ Clear \/ ClearLands

Spec == Init /\ [][Next]_vars
FairSpec == Spec /\ WF_vars(Hydrate) /\ WF_vars(WriteSettles)

-----------------------------------------------------------------------------
(* Properties.                                                             *)

Events == Seq(Nat)

\* Type correctness.
TypeOK ==
    /\ stored \in Events /\ ledger \in Events /\ waiting \in Events
    /\ hydrated \in BOOLEAN /\ writes \in Seq(Events)
    /\ recording \in BOOLEAN /\ clearing \in BOOLEAN
    /\ base \in Events /\ asked \in Events /\ cleared \subseteq Nat
    /\ diverged \in BOOLEAN
    /\ events \in Nat /\ restarts \in Nat /\ clears \in Nat /\ faults \in Nat

\* No event is lost to the cold start: whenever the hydration has settled, the
\* ledger is the newest Cap of what it began with and of every event accepted
\* since the worker started, those accepted before the hydration included
\* (pushAttributionAndPersist, the write-loss of #1266).
NothingLostToHydration == hydrated => ledger = Newest(base \o asked)

\* The popup reads the mirror: once all writes are applied it is the ledger,
\* whatever restarts came before, unless a call failed or the page cleared it and
\* no event has been recorded since.
MirrorConverges == hydrated /\ writes = <<>> /\ ~diverged => stored = ledger

\* An event accepted before the hydration is not kept waiting for ever.
WaitersGetRecorded == (waiting # <<>>) ~> (waiting = <<>>)

\* What Settings tells the user: "Recent activity cleared."  An event the user has
\* cleared is not listed again.
ClearedStaysCleared == cleared \cap Range(stored) = {}
=============================================================================
