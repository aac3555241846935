---------------------------- MODULE SingleFlight ----------------------------
(***************************************************************************)
(* The loader behind domain-rules.json and the path rules                  *)
(* (lib/single-flight-loader.js, service-worker.js): one load shared by all*)
(* callers, a cache consulted before the attempt budget, and a retry armed *)
(* by whoever awaited a load that failed.                                  *)
(*                                                                         *)
(* JavaScript's event loop is part of the argument: a message, an answer   *)
(* of storage and an answer of fetch are events that find the microtasks   *)
(* run out; what they settle continues as microtasks, first in first out.  *)
(***************************************************************************)
EXTENDS Naturals, Sequences, SequencesExt

CONSTANTS
    Caller,
    MaxAttempts,   \* DOMAIN_RULES_MAX_ATTEMPTS, PATH_RULES_MAX_ATTEMPTS
    MaxRestarts    \* bound

NoRun == 0

VARIABLES
    ready,      \* the run whose promise `ready` holds, or NoRun
    runs,       \* pc of each run() called in this lifetime
    attempts,
    loaded,     \* isLoaded(): the rules are installed
    cache,      \* storage.session: "full", "empty", or "none" for the path loader,
                \* which has no cache
    awaiting,   \* per caller: the run it awaits, or NoRun
    microtasks, \* jobs: <<"resume", c>> after its await, <<"call", c>> to call again
    callers,    \* per caller: "idle", "awaiting" or "answered"
    restarts

vars == <<ready, runs, attempts, loaded, cache, awaiting, microtasks, callers,
          restarts>>

Pending == {r \in DOMAIN runs : runs[r] # "settled"}

Init ==
    /\ ready = NoRun /\ runs = <<>> /\ attempts = 0 /\ loaded = FALSE
    /\ cache \in {"full", "empty", "none"}
    /\ awaiting = [c \in Caller |-> NoRun] /\ microtasks = <<>>
    /\ callers = [c \in Caller |-> "idle"] /\ restarts = 0

\* Events are handled when no microtask is left.
EventLoopIdle == microtasks = <<>>

-----------------------------------------------------------------------------
NoOne(r) == {}
Waiters(r) == {c \in Caller : callers[c] = "awaiting" /\ awaiting[c] = r}

\* The run settles; whoever awaits it is resumed, each once.
Settle(r) ==
    /\ runs' = [runs EXCEPT ![r] = "settled"]
    /\ microtasks' \in SetToAllKPermutations({<<"resume", c>> : c \in Waiters(r)})
    /\ \A c \in Waiters(r) : Contains(microtasks', <<"resume", c>>)

\* run(), from its start to its first wait: a run out of budget settles at once.
HasCache == cache # "none"
FirstPc == IF HasCache THEN "cache"
           ELSE IF attempts < MaxAttempts THEN "fetching" ELSE "settled"

NeverShares == FALSE
Shares == ready # NoRun

\* ensure(), as far as its await.  The await of a settled run is one microtask.
Ensure(c, jobs) ==
    /\ callers' = [callers EXCEPT ![c] = "awaiting"]
    /\ IF Shares
       THEN UNCHANGED <<ready, runs, attempts>>
       ELSE /\ runs' = Append(runs, FirstPc)
            /\ ready' = Len(runs) + 1
            /\ attempts' = IF FirstPc = "fetching" THEN attempts + 1 ELSE attempts
    /\ awaiting' = [awaiting EXCEPT ![c] = ready']
    /\ microtasks' = IF runs'[ready'] = "settled" THEN Append(jobs, <<"resume", c>>)
                     ELSE jobs
    /\ UNCHANGED <<loaded, cache, restarts>>

\* A message or a menu click needs the rules.
Arrive(c) == EventLoopIdle /\ callers[c] = "idle" /\ Ensure(c, microtasks)

\* The loop over the URLs of a selection asks again within the same turn.
CallAgain ==
    /\ microtasks # <<>> /\ Head(microtasks)[1] = "call"
    /\ Ensure(Head(microtasks)[2], Tail(microtasks))

\* readCache: an error is a miss.  A hit costs no attempt.
CacheAnswers(r) ==
    /\ runs[r] = "cache" /\ EventLoopIdle
    /\ \/ cache = "full" /\ loaded' = TRUE /\ Settle(r) /\ UNCHANGED attempts
       \/ /\ UNCHANGED loaded
          /\ IF attempts < MaxAttempts
             THEN /\ runs' = [runs EXCEPT ![r] = "fetching"]
                  /\ attempts' = attempts + 1
                  /\ UNCHANGED microtasks
             ELSE Settle(r) /\ UNCHANGED attempts
    /\ UNCHANGED <<ready, cache, awaiting, callers, restarts>>

\* After the rules are applied the cache is written, if there is one; the path
\* loader's onError empties the rules it had.
FetchAnswers(r) ==
    /\ runs[r] = "fetching" /\ EventLoopIdle
    /\ \/ /\ loaded' = TRUE
          /\ IF HasCache
             THEN runs' = [runs EXCEPT ![r] = "caching"] /\ UNCHANGED microtasks
             ELSE Settle(r)
       \/ Settle(r) /\ loaded' = (loaded /\ HasCache)
    /\ UNCHANGED <<ready, attempts, cache, awaiting, callers, restarts>>

\* writeCache: its failure does not fail the load.
CacheWritten(r) ==
    /\ runs[r] = "caching" /\ EventLoopIdle
    /\ Settle(r)
    /\ cache' \in {cache, "full"}
    /\ UNCHANGED <<ready, attempts, loaded, awaiting, callers, restarts>>

RunStep == \E r \in DOMAIN runs : CacheAnswers(r) \/ FetchAnswers(r) \/ CacheWritten(r)

RetriesNever == FALSE

\* Whoever awaited a load that failed drops the promise, not the load itself.
Retries == ~loaded /\ attempts < MaxAttempts

\* ensure(), after its await.
Resume ==
    /\ microtasks # <<>> /\ Head(microtasks)[1] = "resume"
    /\ LET c == Head(microtasks)[2]
       IN  \/ /\ callers' = [callers EXCEPT ![c] = "idle"]
              /\ microtasks' = Tail(microtasks)
           \/ /\ callers' = [callers EXCEPT ![c] = "calling"]
              /\ microtasks' = Append(Tail(microtasks), <<"call", c>>)
    /\ ready' = IF Retries THEN NoRun ELSE ready
    /\ UNCHANGED <<runs, attempts, loaded, cache, awaiting, restarts>>

\* The worker stops; storage.session outlives it, until the browser restarts.
Restart ==
    /\ restarts < MaxRestarts /\ EventLoopIdle
    /\ restarts' = restarts + 1
    /\ ready' = NoRun /\ runs' = <<>> /\ attempts' = 0 /\ loaded' = FALSE
    /\ awaiting' = [c \in Caller |-> NoRun]
    /\ callers' = [c \in Caller |-> "idle"]
    /\ cache' \in {cache, IF HasCache THEN "empty" ELSE "none"}
    /\ UNCHANGED microtasks

Next ==
    \/ \E c \in Caller : Arrive(c)
    \/ CallAgain \/ RunStep \/ Resume \/ Restart

Spec == Init /\ [][Next]_vars
FairSpec == Spec /\ WF_vars(RunStep) /\ WF_vars(Resume \/ CallAgain)

-----------------------------------------------------------------------------
(* Properties.                                                             *)

Pcs == {"cache", "fetching", "caching", "settled"}

\* Type correctness; the budget is never overdrawn.
TypeOK ==
    /\ runs \in Seq(Pcs) /\ ready \in 0..Len(runs)
    /\ attempts \in 0..MaxAttempts
    /\ loaded \in BOOLEAN /\ cache \in {"full", "empty", "none"}
    /\ awaiting \in [Caller -> 0..Len(runs)]
    /\ callers \in [Caller -> {"idle", "awaiting", "calling"}]
    /\ microtasks \in Seq({"resume", "call"} \X Caller)
    /\ restarts \in Nat

\* The one load under way is the one newcomers share: no caller's continuation
\* drops the promise of a load newer than the one it awaited, so no two loads run
\* at once (createSingleFlightLoader, the stampede of #833).
LoadIsShared == \A r \in Pending : ready = r

\* Between events a load that failed is never left to answer for a retry that the
\* budget still allows (ensure).
RetryIsArmed ==
    EventLoopIdle /\ Pending = {} /\ ~loaded /\ attempts < MaxAttempts => ready = NoRun

\* Every caller is answered, whatever the cache and the network do.
CallersAnswered ==
    \A c \in Caller : (callers[c] = "awaiting") ~> (callers[c] # "awaiting")
=============================================================================
