----------------------------- MODULE RateNudge -----------------------------
(***************************************************************************)
(* The active-day counter and the popup's rate nudge (lib/rate-nudge.js,   *)
(* noteActiveDay in service-worker.js, initGrowth in popup/popup.js).  Two *)
(* contexts, the worker and the popup, count the day each with a recorder  *)
(* of its own; the popup then decides whether to show the nudge.  MUGA is  *)
(* enabled and onboarded.                                                  *)
(*                                                                         *)
(* Time is the local day.  firstUsed is day 0.                             *)
(***************************************************************************)
EXTENDS Integers, FiniteSets

CONSTANTS
    MinActiveDays, MinDaysSinceFirstUse, MaxShows, MinDaysBetween, \* RATE_NUDGE_*
    MaxDay, MaxSessions, MaxFaults  \* bounds

Context == {"worker", "popup"}
None == -1

VARIABLES
    day,
    count, lastDay,   \* storage.local activeDaysCount, activeDaysLastDay
    memo,             \* per context: _lastCountedDay
    run,              \* per context: the recorder's run in flight
    popup,            \* "closed", "counting", "reading"
    shown, lastShown, dismissed,  \* storage.local nudgeShownCount and so on
    sessionSeen,      \* storage.session
    sessions,
    counted,          \* history: the days something was counted for
    showings,         \* history: the days the nudge was shown, with the session
    straddled,        \* history: a run was in flight at midnight
    faults, faulted   \* faulted: a write failed

stored == <<count, lastDay, shown, lastShown, dismissed>>
vars == <<day, stored, memo, run, popup, sessionSeen, sessions, counted, showings,
          straddled, faults, faulted>>

Idle == [pc |-> "idle", day |-> 0, seen |-> 0, seenDay |-> None]

Init ==
    /\ day = 0 /\ count = 0 /\ lastDay = None
    /\ memo = [c \in Context |-> None] /\ run = [c \in Context |-> Idle]
    /\ popup = "closed" /\ shown = 0 /\ lastShown = 0 /\ dismissed = FALSE
    /\ sessionSeen = FALSE /\ sessions = 1
    /\ counted = {} /\ showings = {} /\ straddled = FALSE
    /\ faults = 0 /\ faulted = FALSE

-----------------------------------------------------------------------------
(* createActiveDayRecorder.                                                *)

\* record(): the memo makes every later call of the day free; overlapping calls
\* of one context share a run.
Record(c) ==
    IF memo[c] # day /\ run[c].pc = "idle"
    THEN run' = [run EXCEPT ![c] = [Idle EXCEPT !.pc = "reading", !.day = day]]
    ELSE UNCHANGED run

\* A failed read leaves the memo unset.
RecordReads(c) ==
    /\ run[c].pc = "reading"
    /\ \/ /\ run' = [run EXCEPT ![c].pc = "writing", ![c].seen = count,
                                ![c].seenDay = lastDay]
          /\ UNCHANGED faults
       \/ /\ faults < MaxFaults /\ faults' = faults + 1
          /\ run' = [run EXCEPT ![c] = Idle]
    /\ UNCHANGED <<day, stored, memo, popup, sessionSeen, sessions, counted, showings,
                   straddled, faulted>>

Increments(seen) == count + 1

\* The patch is absolute: what was read, plus one.
Planned(seen) == seen + 1

\* planActiveDayUpdate, setStats (a failed write resolves too) and the memo.
RecordWrites(c) ==
    /\ run[c].pc = "writing"
    /\ \/ /\ IF run[c].seenDay = run[c].day THEN UNCHANGED <<count, lastDay>>
             ELSE count' = Planned(run[c].seen) /\ lastDay' = run[c].day
          /\ counted' = counted \cup {run[c].day}
          /\ UNCHANGED <<faults, faulted>>
       \/ /\ faults < MaxFaults /\ faults' = faults + 1 /\ faulted' = TRUE
          /\ UNCHANGED <<count, lastDay, counted>>
    /\ memo' = [memo EXCEPT ![c] = run[c].day]
    /\ run' = [run EXCEPT ![c] = Idle]
    /\ UNCHANGED <<day, shown, lastShown, dismissed, popup, sessionSeen, sessions,
                   showings, straddled>>

\* The worker made a decision on a page (noteActiveDay).
Decide ==
    /\ Record("worker") /\ run' # run
    /\ UNCHANGED <<day, stored, memo, popup, sessionSeen, sessions, counted, showings,
                   straddled, faults, faulted>>

-----------------------------------------------------------------------------
(* The popup.                                                              *)

\* A popup is a new page: its recorder is new.
Open ==
    /\ popup = "closed"
    /\ popup' = "counting"
    /\ Record("popup")
    /\ UNCHANGED <<day, stored, memo, sessionSeen, sessions, counted, showings, straddled,
                   faults, faulted>>

Counts ==
    /\ popup = "counting" /\ run["popup"].pc = "idle"
    /\ popup' = "reading"
    /\ UNCHANGED <<day, stored, memo, run, sessionSeen, sessions, counted, showings,
                   straddled, faults, faulted>>

ShowsEverySession ==
    /\ ~dismissed /\ shown < MaxShows
    /\ day >= MinDaysSinceFirstUse /\ count >= MinActiveDays

ShouldShowRateNudge ==
    /\ ~dismissed /\ ~sessionSeen /\ shown < MaxShows
    /\ day >= MinDaysSinceFirstUse
    /\ count >= MinActiveDays
    /\ lastShown > 0 => day - lastShown >= MinDaysBetween

\* The nudge is shown whether or not its two writes succeed.
Show ==
    /\ popup = "reading" /\ ShouldShowRateNudge
    /\ popup' = "closed"
    /\ showings' = showings \cup {[day |-> day, session |-> sessions, n |-> shown]}
    /\ \/ shown' = shown + 1 /\ lastShown' = day /\ sessionSeen' = TRUE
          /\ UNCHANGED <<faults, faulted>>
       \/ /\ faults < MaxFaults /\ faults' = faults + 1 /\ faulted' = TRUE
          /\ \/ sessionSeen' = TRUE /\ UNCHANGED <<shown, lastShown>>
             \/ UNCHANGED sessionSeen /\ shown' = shown + 1 /\ lastShown' = day
    /\ dismissed' \in BOOLEAN  \* the user may answer it: silenced for good
    /\ memo' = [memo EXCEPT !["popup"] = None]
    /\ UNCHANGED <<day, count, lastDay, run, sessions, counted, straddled>>

Close ==
    /\ popup # "closed"
    /\ popup = "reading" => ~ShouldShowRateNudge
    /\ popup' = "closed"
    /\ run' = [run EXCEPT !["popup"] = Idle]
    /\ memo' = [memo EXCEPT !["popup"] = None]
    /\ UNCHANGED <<day, stored, sessionSeen, sessions, counted, showings,
                   straddled, faults, faulted>>

-----------------------------------------------------------------------------
Midnight ==
    /\ day < MaxDay
    /\ day' = day + 1
    /\ straddled' = (straddled \/ \E c \in Context : run[c].pc # "idle")
    /\ UNCHANGED <<stored, memo, run, popup, sessionSeen, sessions, counted, showings,
                   faults, faulted>>

\* The browser restarts: storage.session, the worker and the popup are new.
NewSession ==
    /\ sessions < MaxSessions
    /\ sessions' = sessions + 1
    /\ sessionSeen' = FALSE /\ popup' = "closed"
    /\ memo' = [c \in Context |-> None] /\ run' = [c \in Context |-> Idle]
    /\ UNCHANGED <<day, stored, counted, showings, straddled, faults, faulted>>

Next ==
    \/ Decide \/ \E c \in Context : RecordReads(c) \/ RecordWrites(c)
    \/ Open \/ Counts \/ Show \/ Close
    \/ Midnight \/ NewSession

Spec == Init /\ [][Next]_vars

-----------------------------------------------------------------------------
(* Properties.                                                             *)

\* Type correctness.
TypeOK ==
    /\ day \in 0..MaxDay /\ count \in Nat /\ lastDay \in Nat \cup {None}
    /\ memo \in [Context -> Nat \cup {None}]
    /\ run \in [Context -> [pc : {"idle", "reading", "writing"}, day : Nat,
                            seen : Nat, seenDay : Nat \cup {None}]]
    /\ popup \in {"closed", "counting", "reading"}
    /\ shown \in Nat /\ lastShown \in Nat /\ dismissed \in BOOLEAN
    /\ sessionSeen \in BOOLEAN /\ sessions \in Nat
    /\ counted \subseteq 0..MaxDay /\ straddled \in BOOLEAN
    /\ faults \in Nat /\ faulted \in BOOLEAN

\* A day counts once however many contexts count it, and is not lost to the other
\* context or to a restart, unless a run was in flight at midnight or a write
\* failed (planActiveDayUpdate).
ActiveDaysExact == ~straddled /\ ~faulted => count = Cardinality(counted)

\* The nudge is shown at most MaxShows times, once per session, and its showings
\* are MinDaysBetween apart, unless recording one failed (shouldShowRateNudge).
NudgeIsRare ==
    ~faulted =>
      /\ Cardinality(showings) <= MaxShows
      /\ \A s, t \in showings : s # t =>
           /\ s.session # t.session
           /\ s.day - t.day >= MinDaysBetween \/ t.day - s.day >= MinDaysBetween
=============================================================================
