--------------------------- MODULE SessionRecords ---------------------------
(***************************************************************************)
(* Two lists in storage.session: the history of cleaned URLs, whose        *)
(* appends run one at a time in withSessionMutation's queue, with the badge*)
(* totals (background/service-worker.js); and the debug log, whose appends *)
(* read and write with no queue (background/session-log.js).               *)
(*                                                                         *)
(* An entry is its number.  Both lists are kept newest first.              *)
(***************************************************************************)
EXTENDS Naturals, Sequences, SequencesExt

CONSTANTS
    HistoryMax, LogMax,   \* HISTORY_MAX, SESSION_LOG_MAX
    MaxAppends, MaxLogs, MaxRestarts, MaxFaults  \* bounds

VARIABLES
    history,   \* storage.session history
    queue,     \* _sessionMutationQueue: the tasks not yet settled
    log,       \* storage.session debugLog
    logging,   \* runs of appendSessionLog
    added,     \* history: entries whose write succeeded, oldest first
    logged,    \* history: the same for the log, since it was last cleared
    raced,     \* history: two runs of appendSessionLog, or one and a clear,
               \* were under way together
    appends, logs, restarts, faults

bounds == <<appends, logs, restarts, faults>>
vars == <<history, queue, log, logging, added, logged, raced, bounds>>

Init ==
    /\ history = <<>> /\ queue = <<>> /\ log = <<>> /\ logging = <<>>
    /\ added = <<>> /\ logged = <<>> /\ raced = FALSE
    /\ appends = 0 /\ logs = 0 /\ restarts = 0 /\ faults = 0

Fails == faults < MaxFaults /\ faults' = faults + 1
         /\ UNCHANGED <<appends, logs, restarts>>

\* [entry, ...list].slice(0, max)
Prepend(entry, list, max) == SubSeq(<<entry>> \o list, 1,
                               IF Len(list) < max THEN Len(list) + 1 ELSE max)

-----------------------------------------------------------------------------
(* The history.                                                            *)

\* appendHistory and updateTabBadge share the queue.
Enqueue(kind) ==
    /\ appends < MaxAppends
    /\ appends' = appends + 1
    /\ queue' = Append(queue, [entry |-> appends', kind |-> kind, pc |-> "reading",
                               seen |-> <<>>])
    /\ UNCHANGED <<history, log, logging, added, logged, raced, logs, restarts,
                   faults>>

AppendHistory == Enqueue("history")
UpdateTabBadge == Enqueue("badge")

AnyTask(i) == i \in DOMAIN queue
NoneFailed(i) == i \in DOMAIN queue /\ i = 1 /\ faults = 0

\* .then(fn, fn): a task starts when the one before it has settled, either way.
Runs(i) == i \in DOMAIN queue /\ i = 1

TaskReads(i) ==
    /\ Runs(i) /\ queue[i].pc = "reading"
    /\ queue' = [queue EXCEPT ![i].pc = "writing", ![i].seen = history]
    /\ UNCHANGED <<history, log, logging, added, logged, raced, bounds>>

TaskWrites(i) ==
    /\ Runs(i) /\ queue[i].pc = "writing"
    /\ IF queue[i].kind = "badge" THEN UNCHANGED <<history, added>>
       ELSE /\ history' = Prepend(queue[i].entry, queue[i].seen, HistoryMax)
            /\ added' = Append(added, queue[i].entry)
    /\ queue' = RemoveAt(queue, i)
    /\ UNCHANGED <<log, logging, logged, raced, bounds>>

\* A read or a write of storage.session failed.
TaskFails(i) ==
    /\ Runs(i) /\ Fails
    /\ queue' = RemoveAt(queue, i)
    /\ UNCHANGED <<history, log, logging, added, logged, raced>>

TaskStep == \E i \in DOMAIN queue : TaskReads(i) \/ TaskWrites(i)

-----------------------------------------------------------------------------
(* The debug log.                                                          *)

AppendSessionLog ==
    /\ logs < MaxLogs
    /\ logs' = logs + 1
    /\ logging' = Append(logging, [entry |-> logs', pc |-> "reading", seen |-> <<>>])
    /\ raced' = (raced \/ logging # <<>>)
    /\ UNCHANGED <<history, queue, log, added, logged, appends, restarts, faults>>

LogReads(i) ==
    /\ logging[i].pc = "reading"
    /\ logging' = [logging EXCEPT ![i].pc = "writing", ![i].seen = log]
    /\ UNCHANGED <<history, queue, log, added, logged, raced, bounds>>

AppendsOldestFirst(entry, seen) == Append(seen, entry)
Logged(entry, seen) == Prepend(entry, seen, LogMax)

LogWrites(i) ==
    /\ logging[i].pc = "writing"
    /\ log' = Logged(logging[i].entry, logging[i].seen)
    /\ logged' = Append(logged, logging[i].entry)
    /\ logging' = RemoveAt(logging, i)
    /\ UNCHANGED <<history, queue, added, raced, bounds>>

\* The log is best-effort: a failed call drops the entry.
LogFails(i) ==
    /\ Fails
    /\ logging' = RemoveAt(logging, i)
    /\ UNCHANGED <<history, queue, log, added, logged, raced>>

LogStep == \E i \in DOMAIN logging : LogReads(i) \/ LogWrites(i)

\* CLEAR_DEBUG_LOG.
ClearDebugLog ==
    /\ log # <<>>
    /\ log' = <<>> /\ logged' = <<>>
    /\ raced' = (logging # <<>>)
    /\ UNCHANGED <<history, queue, logging, added, bounds>>

\* The worker stops; storage.session outlives it.  A write that was on its way has
\* been applied (TaskWrites came first) or not.
Restart ==
    /\ restarts < MaxRestarts
    /\ restarts' = restarts + 1
    /\ queue' = <<>> /\ logging' = <<>>
    /\ UNCHANGED <<history, log, added, logged, raced, appends, logs, faults>>

Next ==
    \/ AppendHistory \/ UpdateTabBadge \/ TaskStep
    \/ \E i \in DOMAIN queue : TaskFails(i)
    \/ AppendSessionLog \/ LogStep \/ ClearDebugLog
    \/ \E i \in DOMAIN logging : LogFails(i)
    \/ Restart

Spec == Init /\ [][Next]_vars
FairSpec == Spec /\ WF_vars(TaskStep) /\ WF_vars(LogStep)

-----------------------------------------------------------------------------
(* Properties.                                                             *)

NewestOf(s, max) == Reverse(SubSeq(s, IF Len(s) > max THEN Len(s) - max + 1 ELSE 1, Len(s)))

Entries == Seq(Nat)

\* Type correctness.
TypeOK ==
    /\ history \in Entries /\ log \in Entries
    /\ queue \in Seq([entry : Nat, kind : {"history", "badge"},
                      pc : {"reading", "writing"}, seen : Entries])
    /\ logging \in Seq([entry : Nat, pc : {"reading", "writing"}, seen : Entries])
    /\ added \in Entries /\ logged \in Entries /\ raced \in BOOLEAN
    /\ appends \in Nat /\ logs \in Nat /\ restarts \in Nat /\ faults \in Nat

\* The history is exactly the newest HistoryMax of the entries written, newest
\* first, in the order they were asked for: no append is lost to another, to a
\* badge update queued with it, or to a failure before it (appendHistory, #1097).
HistoryExact == history = NewestOf(added, HistoryMax)

\* The queue heals itself: a task that fails does not hold up those behind it
\* (withSessionMutation).
QueueDrains == (queue # <<>>) ~> (queue = <<>>)

\* The debug log loses entries only to appends that were under way together.
LogExact == ~raced => log = NewestOf(logged, LogMax)
=============================================================================
