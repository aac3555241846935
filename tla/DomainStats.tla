---------------------------- MODULE DomainStats ----------------------------
(***************************************************************************)
(* Per-site statistics (lib/storage.js, domainStats in storage.local):     *)
(* incrementDomainStat adds to a pending map that a 50ms timer, or         *)
(* runtime.onSuspend, flushes; a flush reads the stored map, adds what it  *)
(* took, evicts the sites with the fewest parameters beyond the cap, and   *)
(* writes the whole map.  Settings' "Reset stats" writes an empty one.     *)
(*                                                                         *)
(* A site's entry is its number of removed parameters; urls, which grows   *)
(* by one where params grows by the count, is left out.                    *)
(***************************************************************************)
EXTENDS Integers, Sequences, SequencesExt, FiniteSets

CONSTANTS
    Site,
    Cap,         \* DOMAIN_STATS_MAX
    Faulty,      \* storage calls that may fail: "read", "write"
    MaxCount, MaxResets, MaxRestarts, MaxFaults  \* bounds

VARIABLES
    stored,     \* the stored map: a function from some of Site
    pending,    \* _pendingDomainStats: parameters per site, 0 for no entry
    timer,      \* a timeout that will run the flush is armed
    flushes,    \* runs of _flushDomainStats
    counted,    \* history: per site, what stored, pending and flushes should sum to
    unguarded,  \* history: two flushes overlapped, a reset overlapped a flush, or
                \* a write failed
    increments, resets, restarts, faults

bounds == <<increments, resets, restarts, faults>>
vars == <<stored, pending, timer, flushes, counted, unguarded, bounds>>

Nothing == [s \in Site |-> 0]
Plus(f, g) == [s \in Site |-> f[s] + g[s]]
Value(map, s) == IF s \in DOMAIN map THEN map[s] ELSE 0

Init ==
    /\ stored = [s \in {} |-> 0]
    /\ pending = Nothing /\ timer = FALSE /\ flushes = <<>>
    /\ counted = Nothing /\ unguarded = FALSE
    /\ increments = 0 /\ resets = 0 /\ restarts = 0 /\ faults = 0

Fails(call) ==
    /\ call \in Faulty /\ faults < MaxFaults
    /\ faults' = faults + 1
    /\ UNCHANGED <<increments, resets, restarts>>

-----------------------------------------------------------------------------
IncrementDomainStat(s) ==
    /\ increments < MaxCount
    /\ increments' = increments + 1
    /\ pending' = [pending EXCEPT ![s] = @ + 1]
    /\ counted' = [counted EXCEPT ![s] = @ + 1]
    /\ timer' = TRUE
    /\ UNCHANGED <<stored, flushes, unguarded, resets, restarts, faults>>

KeepsPending == pending
\* The batch being flushed is taken out of the pending map.
AfterTaking == Nothing

Take ==
    /\ pending' = AfterTaking
    /\ flushes' = IF pending = Nothing THEN flushes
                  ELSE Append(flushes, [pc |-> "reading", batch |-> pending,
                                        seen |-> stored])
    /\ unguarded' = (unguarded \/ (pending # Nothing /\ flushes # <<>>))
    /\ UNCHANGED <<stored, counted, bounds>>

TimerFires == timer /\ timer' = FALSE /\ Take

\* runtime.onSuspend, which leaves the armed timeout alone.
Suspend == pending # Nothing /\ UNCHANGED timer /\ Take

LosesBatch(f) == pending

\* A batch that could not be merged goes back into the pending map.  No timer is
\* armed for it: the next increment arms one.
Restored(f) == Plus(pending, f.batch)

FlushReads(i) ==
    /\ flushes[i].pc = "reading"
    /\ \/ /\ flushes' = [flushes EXCEPT ![i].pc = "writing", ![i].seen = stored]
          /\ UNCHANGED <<pending, bounds>>
       \/ /\ Fails("read")
          /\ pending' = Restored(flushes[i])
          /\ flushes' = RemoveAt(flushes, i)
    /\ UNCHANGED <<stored, timer, counted, unguarded>>

Merged(seen, batch) ==
    [s \in DOMAIN seen \cup {s \in Site : batch[s] > 0} |-> Value(seen, s) + batch[s]]

KeepsOneMore(map, kept) ==
    kept \subseteq DOMAIN map /\ Cardinality(kept) <= Cap + 1

\* Sorting by params and keeping the end: ties fall either way.
Keeps(map, kept) ==
    /\ kept \subseteq DOMAIN map
    /\ Cardinality(kept) = IF Cardinality(DOMAIN map) > Cap THEN Cap
                           ELSE Cardinality(DOMAIN map)
    /\ \A k \in kept, d \in DOMAIN map \ kept : map[d] <= map[k]

\* setStats logs a failed write and resolves, so nothing is restored.
FlushWrites(i) ==
    /\ flushes[i].pc = "writing"
    /\ \/ LET map == Merged(flushes[i].seen, flushes[i].batch)
          IN  \E kept \in SUBSET DOMAIN map :
              /\ Keeps(map, kept)
              /\ stored' = [s \in kept |-> map[s]]
              /\ counted' = [s \in Site |-> IF s \in DOMAIN map \ kept
                                            THEN counted[s] - map[s] ELSE counted[s]]
              /\ UNCHANGED <<unguarded, bounds>>
       \/ /\ Fails("write") /\ unguarded' = TRUE
          /\ UNCHANGED <<stored, counted>>
    /\ flushes' = RemoveAt(flushes, i)
    /\ UNCHANGED <<pending, timer>>

FlushStep == \E i \in DOMAIN flushes : FlushReads(i) \/ FlushWrites(i)

\* "Reset stats": the worker's pending map is not told.
Reset ==
    /\ resets < MaxResets
    /\ resets' = resets + 1
    /\ stored' = [s \in {} |-> 0]
    /\ counted' = pending
    /\ unguarded' = (flushes # <<>>)
    /\ UNCHANGED <<pending, timer, flushes, increments, restarts, faults>>

InFlight(s) == FoldSeq(LAMBDA f, n : n + f.batch[s], 0, flushes)

\* The worker stops: what it had not written is lost, which the code accepts.
Restart ==
    /\ restarts < MaxRestarts
    /\ restarts' = restarts + 1
    /\ counted' = [s \in Site |-> counted[s] - pending[s] - InFlight(s)]
    /\ pending' = Nothing /\ timer' = FALSE /\ flushes' = <<>>
    /\ UNCHANGED <<stored, unguarded, increments, resets, faults>>

Next ==
    \/ \E s \in Site : IncrementDomainStat(s)
    \/ TimerFires \/ Suspend \/ FlushStep \/ Reset \/ Restart

Spec == Init /\ [][Next]_vars

-----------------------------------------------------------------------------
(* Properties.                                                             *)

Counts == [Site -> Nat]

\* Type correctness; the stored map never holds more sites than the cap, not even
\* after flushes that overlap.
TypeOK ==
    /\ DOMAIN stored \subseteq Site /\ \A s \in DOMAIN stored : stored[s] \in Nat \ {0}
    /\ Cardinality(DOMAIN stored) <= Cap
    /\ pending \in Counts /\ timer \in BOOLEAN
    /\ \A i \in DOMAIN flushes : flushes[i].pc \in {"reading", "writing"}
                                /\ flushes[i].batch \in Counts \ {Nothing}
    /\ counted \in [Site -> Int] /\ unguarded \in BOOLEAN
    /\ increments \in Nat /\ resets \in Nat /\ restarts \in Nat /\ faults \in Nat

\* No parameter is lost or counted twice: site by site, what is stored, pending and
\* being flushed is what was counted, less what an eviction dropped; a failed read
\* included, as long as no two flushes overlapped and no write failed
\* (_flushDomainStats).
SiteCountsConserved ==
    ~unguarded => \A s \in Site :
                    Value(stored, s) + pending[s] + InFlight(s) = counted[s]
=============================================================================
