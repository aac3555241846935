------------------------------- MODULE Stats -------------------------------
(***************************************************************************)
(* The lifetime statistics in storage.local and everything that writes     *)
(* them: incrementStat and its batched flush (lib/storage.js), the one-time*)
(* migrateStatsToLocal (lib/storage-migrations.js), the firstUsed bootstrap*)
(* (lib/single-flight-loader.js) and the "Reset stats" button of Settings. *)
(*                                                                         *)
(* One counter stands for all; firstUsed is the number of the worker       *)
(* lifetime that stamped it.  0 and Absent stand for null.                 *)
(***************************************************************************)
EXTENDS Integers, Sequences, SequencesExt

CONSTANTS
    Faulty,         \* storage calls that may fail: "read", "write", "remove"
    MaxCount,       \* bound: increments
    MaxRestarts, MaxResets, MaxFaults

VARIABLES
    stats,      \* storage.local: the counter, or Absent
    firstUsed,  \* storage.local
    old,        \* storage.sync: what an older release left, or Nothing
    pending,    \* _pendingStats
    timer,      \* a timeout that will run _flushStats is armed
    flushes,    \* runs of _flushStats
    boot,       \* the run of createFirstUsedBootstrap's ensure, and its done
    migration,  \* the run of migrateStatsToLocal
    counted,    \* history: what the counter should show
    origin,     \* history: the first firstUsed there was
    unguarded,  \* history: a write overlapped another that no queue orders it
                \* with, or a call failed that no caller hears of
    increments, restarts, resets, faults

storage == <<stats, firstUsed, old>>
bounds == <<increments, restarts, resets, faults>>
vars == <<storage, pending, timer, flushes, boot, migration, counted, origin,
          unguarded, bounds>>

Absent == -1
Nothing == [stats |-> Absent, firstUsed |-> 0]

NoBoot == [pc |-> "idle", seen |-> 0, done |-> FALSE]
FreshMigration == [pc |-> "start", old |-> Nothing, seen |-> Nothing]

AsStored(n) == n

\* STAT_DEFAULTS: a counter that is absent reads as zero.
Present(n) == IF n = Absent THEN 0 ELSE n

\* An install of today, or one updated from a release that kept stats in sync.
Init ==
    /\ stats = Absent /\ firstUsed = 0
    /\ old \in {Nothing, [stats |-> 2, firstUsed |-> 1]}
    /\ pending = 0 /\ timer = FALSE /\ flushes = <<>>
    /\ boot = NoBoot /\ migration = FreshMigration
    /\ counted = Present(old.stats) /\ origin = old.firstUsed
    /\ unguarded = FALSE
    /\ increments = 0 /\ restarts = 0 /\ resets = 0 /\ faults = 0

Fails(call) ==
    /\ call \in Faulty /\ faults < MaxFaults
    /\ faults' = faults + 1
    /\ UNCHANGED <<increments, restarts, resets>>

Now == restarts + 2
Migrated == migration.pc = "done" \/ old = Nothing
Unguards(condition) == unguarded' = (unguarded \/ condition)

-----------------------------------------------------------------------------
(* incrementStat and _flushStats.                                          *)

IncrementStat ==
    /\ increments < MaxCount
    /\ increments' = increments + 1
    /\ pending' = pending + 1
    /\ timer' = TRUE
    /\ counted' = counted + 1
    /\ UNCHANGED <<unguarded, storage, flushes, boot, migration, origin, restarts,
                   resets, faults>>

KeepPending == pending

\* The batch being flushed is taken out of the pending map.
AfterTaking == 0

Take ==
    /\ pending' = AfterTaking
    /\ flushes' = IF pending = 0 THEN flushes
                  ELSE Append(flushes, [pc |-> "reading", delta |-> pending, seen |-> 0])
    /\ Unguards(flushes # <<>> \/ ~Migrated)
    /\ UNCHANGED <<storage, boot, migration, counted, origin, bounds>>

TimerFires == timer /\ timer' = FALSE /\ Take

\* runtime.onSuspend: the timeout that was armed stays armed.
Suspend == pending > 0 /\ UNCHANGED timer /\ Take

\* getStats: a failed read answers with the zero of STAT_DEFAULTS.
FlushReads(i) ==
    /\ flushes[i].pc = "reading"
    /\ \/ /\ flushes' = [flushes EXCEPT ![i].pc = "writing", ![i].seen = Present(stats)]
          /\ UNCHANGED <<unguarded, bounds>>
       \/ /\ Fails("read") /\ Unguards(TRUE)
          /\ flushes' = [flushes EXCEPT ![i].pc = "writing", ![i].seen = 0]
    /\ UNCHANGED <<storage, pending, timer, boot, migration, counted, origin>>

\* setStats: a failed write is logged and not reported, so nothing is restored.
FlushWrites(i) ==
    /\ flushes[i].pc = "writing"
    /\ \/ stats' = flushes[i].seen + flushes[i].delta /\ UNCHANGED <<unguarded, bounds>>
       \/ Fails("write") /\ Unguards(TRUE) /\ UNCHANGED stats
    /\ flushes' = RemoveAt(flushes, i)
    /\ UNCHANGED <<firstUsed, old, pending, timer, boot, migration, counted, origin>>

FlushStep == \E i \in DOMAIN flushes : FlushReads(i) \/ FlushWrites(i)

-----------------------------------------------------------------------------
(* createFirstUsedBootstrap.                                               *)

\* onInstalled, onStartup; the PROCESS_URL path: one run at a time, until done.
StartBoot ==
    /\ ~boot.done /\ boot.pc = "idle"
    /\ boot' = [boot EXCEPT !.pc = "reading"]
    /\ Unguards(~Migrated)
    /\ UNCHANGED <<storage, pending, timer, flushes, migration, counted, origin,
                   bounds>>

BootReads ==
    /\ boot.pc = "reading"
    /\ \/ boot' = [boot EXCEPT !.pc = "deciding", !.seen = firstUsed]
          /\ UNCHANGED <<unguarded, bounds>>
       \/ /\ Fails("read") /\ Unguards(TRUE)
          /\ boot' = [boot EXCEPT !.pc = "deciding", !.seen = 0]
    /\ UNCHANGED <<storage, pending, timer, flushes, migration, counted, origin>>

AlwaysStamps == TRUE

\* firstUsed is stamped only where there is none.
Stamps == boot.seen = 0

BootWrites ==
    /\ boot.pc = "deciding"
    /\ \/ /\ Stamps /\ firstUsed' = Now
          /\ origin' = IF origin = 0 THEN Now ELSE origin
          /\ UNCHANGED bounds
       \/ Stamps /\ Fails("write") /\ UNCHANGED <<firstUsed, origin>>
       \/ ~Stamps /\ UNCHANGED <<firstUsed, origin, bounds>>
    /\ boot' = [boot EXCEPT !.pc = "idle", !.done = TRUE]
    /\ UNCHANGED <<unguarded, stats, old, pending, timer, flushes, migration,
                   counted>>

-----------------------------------------------------------------------------
(* migrateStatsToLocal: two reads, a write, a removal; it may end at any.  *)

MigrationReadsOld ==
    /\ migration.pc = "start"
    /\ migration' = IF old = Nothing THEN [migration EXCEPT !.pc = "done"]
                    ELSE [migration EXCEPT !.pc = "readingLocal", !.old = old]
    /\ UNCHANGED <<unguarded, storage, pending, timer, flushes, boot, counted, origin,
                   bounds>>

MigrationReadsLocal ==
    /\ migration.pc = "readingLocal"
    /\ migration' = [migration EXCEPT !.pc = "writing", !.seen.stats = stats,
                                      !.seen.firstUsed = firstUsed]
    /\ UNCHANGED <<unguarded, storage, pending, timer, flushes, boot, counted, origin,
                   bounds>>

PreferSync(local, sync, none) == IF sync = none THEN local ELSE sync

\* localData[key] ?? syncData[key].
Merged(local, sync, none) == IF local = none THEN sync ELSE local

\* The one write carries every key, those read from local too.
MigrationWrites ==
    /\ migration.pc = "writing"
    /\ stats' = Merged(migration.seen.stats, migration.old.stats, Absent)
    /\ firstUsed' = Merged(migration.seen.firstUsed, migration.old.firstUsed, 0)
    /\ migration' = [migration EXCEPT !.pc = "removing"]
    /\ UNCHANGED <<unguarded, old, pending, timer, flushes, boot, counted, origin,
                   bounds>>

\* The removal is best-effort.
MigrationRemoves ==
    /\ migration.pc = "removing"
    /\ \/ old' = Nothing /\ UNCHANGED bounds
       \/ Fails("remove") /\ UNCHANGED old
    /\ migration' = [migration EXCEPT !.pc = "done"]
    /\ UNCHANGED <<unguarded, stats, firstUsed, pending, timer, flushes, boot,
                   counted, origin>>

-----------------------------------------------------------------------------
\* "Reset stats".  What is still pending counts as counted afterwards.
InFlightSum == FoldSeq(LAMBDA f, n : n + f.delta, 0, flushes)

Reset ==
    /\ resets < MaxResets
    /\ unguarded' = (flushes # <<>> \/ old # Nothing \/ boot.pc # "idle")
    /\ resets' = resets + 1
    /\ stats' = 0 /\ firstUsed' = 0
    /\ counted' = pending + InFlightSum /\ origin' = 0
    /\ UNCHANGED <<old, pending, timer, flushes, boot, migration, increments,
                   restarts, faults>>

\* The worker stops; what it had not written is lost, which the code accepts.
Restart ==
    /\ restarts < MaxRestarts
    /\ restarts' = restarts + 1
    /\ counted' = counted - pending - InFlightSum
    /\ pending' = 0 /\ timer' = FALSE /\ flushes' = <<>>
    /\ boot' = NoBoot /\ migration' = FreshMigration
    /\ UNCHANGED <<unguarded, storage, origin, increments, resets, faults>>

Next ==
    \/ IncrementStat \/ TimerFires \/ Suspend \/ FlushStep
    \/ StartBoot \/ BootReads \/ BootWrites
    \/ MigrationReadsOld \/ MigrationReadsLocal \/ MigrationWrites \/ MigrationRemoves
    \/ Reset \/ Restart

Spec == Init /\ [][Next]_vars

\* The timer fires and storage answers.
FairSpec ==
    /\ Spec
    /\ WF_vars(TimerFires) /\ WF_vars(FlushStep)
    /\ WF_vars(MigrationReadsOld \/ MigrationReadsLocal \/ MigrationWrites
               \/ MigrationRemoves)

-----------------------------------------------------------------------------
(* Properties.                                                             *)

Saved == [stats : Int, firstUsed : Nat]

\* Type correctness.
TypeOK ==
    /\ stats \in Nat \cup {Absent} /\ firstUsed \in Nat
    /\ old \in Saved
    /\ pending \in Nat /\ timer \in BOOLEAN
    /\ flushes \in Seq([pc : {"reading", "writing"}, delta : Nat \ {0}, seen : Nat])
    /\ boot \in [pc : {"idle", "reading", "deciding"}, seen : Nat, done : BOOLEAN]
    /\ migration \in [pc : {"start", "readingLocal", "writing", "removing", "done"},
                      old : Saved, seen : Saved]
    /\ counted \in Nat /\ origin \in Nat /\ unguarded \in BOOLEAN
    /\ increments \in Nat /\ restarts \in Nat /\ resets \in Nat /\ faults \in Nat

\* Once the migration is over no count is lost and none counts twice: what is
\* stored, pending and being flushed is what was counted, across restarts at any
\* step of the migration and of a flush, and repeated migrations, as long as
\* nothing unguarded happened (incrementStat, migrateStatsToLocal).
CountsConserved ==
    Migrated /\ ~unguarded => Present(stats) + pending + InFlightSum = counted

\* The original firstUsed is then never replaced by a later stamp: not by a retry,
\* not by a restart, not by a migration (createFirstUsedBootstrap).
FirstUsedKept == firstUsed # 0 /\ ~unguarded => firstUsed = origin

\* What is pending is written or lost to a restart: it does not wait for ever.
CountsGetStored == (pending > 0) ~> (pending = 0)

\* What lib/storage.js says of its batches: no count is lost to concurrency or to
\* a failed write.
NoCountLost ==
    Migrated => Present(stats) + pending + InFlightSum >= counted

\* What lib/single-flight-loader.js says of the bootstrap: it never overwrites a
\* firstUsed that exists.
NeverOverwritten == firstUsed # 0 => firstUsed = origin
=============================================================================
