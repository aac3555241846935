--------------------------- MODULE FrequencyStore ---------------------------
(***************************************************************************)
(* The cross-site frequency tracker (lib/cross-site-frequency.js): which   *)
(* domains and values each parameter was seen with, kept in one object of  *)
(* storage.local that every batch of observations reads and writes whole.  *)
(* The worker's batches form a chain; each parameter's lists are clamped to*)
(* their newest entries, the parameters to the most recently seen.         *)
(*                                                                         *)
(* A value stands for its hash.  The running mean of the entropy is kept as*)
(* count and sum, a sample being 1 above the threshold or 0.               *)
(***************************************************************************)
EXTENDS Naturals, Sequences, SequencesExt, FiniteSets, FiniteSetsExt

CONSTANTS
    Name, Domain, Value,
    ShortNames,       \* names shorter than CANDIDATE_NAME_LENGTH_MIN
    RandomValues,     \* values with an entropy above the threshold
    DomainThreshold, ValueThreshold,                   \* suspicious
    CandidateDomainThreshold, CandidateValueThreshold, \* candidate
    Buffer,           \* PER_ENTRY_BUFFER
    MaxTracked,       \* MAX_TRACKED_PARAMS
    MaxBatches, MaxFaults  \* bounds

VARIABLES
    params,    \* crossSiteFreq.params: a function from some of Name
    chain,     \* _chain: batches not yet finished
    truth,     \* history: per tracked name, everything seen since it was tracked
    seenAt,    \* history: per name, when it was last recorded, 0 for never
    clock,     \* Date.now(): a batch each
    batches, faults

vars == <<params, chain, truth, seenAt, clock, batches, faults>>

MaxValues == CandidateValueThreshold + Buffer
MaxDomains == CandidateDomainThreshold + Buffer

Empty == [n \in {} |-> 0]

Init ==
    /\ params = Empty /\ chain = <<>> /\ truth = Empty
    /\ seenAt = [n \in Name |-> 0] /\ clock = 0 /\ batches = 0 /\ faults = 0

-----------------------------------------------------------------------------
NewEntry == [domains |-> <<>>, values |-> <<>>, lastSeen |-> 0, count |-> 0, sum |-> 0]

ClampTighter(s, max) == SubSeq(s, IF Len(s) >= max THEN 2 ELSE 1, Len(s))

\* Over the ceiling the oldest go.
Clamp(s, max) == SubSeq(s, IF Len(s) > max THEN Len(s) - max + 1 ELSE 1, Len(s))

Included(s, x, max) == Clamp(IF Contains(s, x) THEN s ELSE Append(s, x), max)

Touched(entry, domain, value, now) ==
    [domains  |-> Included(entry.domains, domain, MaxDomains),
     values   |-> Included(entry.values, value, MaxValues),
     lastSeen |-> now,
     count    |-> entry.count + 1,
     sum      |-> entry.sum + IF value \in RandomValues THEN 1 ELSE 0]

Get(map, n, default) == IF n \in DOMAIN map THEN map[n] ELSE default

EvictsNewest(map) ==
    {n \in DOMAIN map : \A m \in DOMAIN map : map[m].lastSeen <= map[n].lastSeen}

\* The least recently seen; of several, the first in the object's order.
Victims(map) ==
    {n \in DOMAIN map : \A m \in DOMAIN map : map[n].lastSeen <= map[m].lastSeen}

\* The history of a parameter, unclamped.
NewTruth == [domains |-> {}, values |-> {}, count |-> 0, sum |-> 0]
TrulySeen(known, domain, value) ==
    [domains |-> known.domains \cup {domain},
     values  |-> known.values \cup {value},
     count   |-> known.count + 1,
     sum     |-> known.sum + IF value \in RandomValues THEN 1 ELSE 0]

With(map, n, x) == [m \in DOMAIN map \cup {n} |-> IF m = n THEN x ELSE map[m]]

\* _applyObservation: one name of a batch, to the parameters and their history.
Observed(s, n, batch) ==
    LET entry == Touched(Get(s.params, n, NewEntry), batch.domain, batch.value, batch.at)
        map == With(s.params, n, entry)
        known == TrulySeen(Get(s.truth, n, NewTruth), batch.domain, batch.value)
        victims == IF Cardinality(DOMAIN map) > MaxTracked
                   THEN {CHOOSE v \in Victims(map) : TRUE} ELSE {}
    IN  [params |-> [m \in DOMAIN map \ victims |-> map[m]],
         truth  |-> [m \in DOMAIN map \ victims |-> With(s.truth, n, known)[m]]]

Recorded(s, batch) == FoldLeft(LAMBDA t, n : Observed(t, n, batch), s, batch.names)

\* recordFrequency and observeMany: the names stripped from one URL.
ObserveMany ==
    \E domain \in Domain, value \in Value,
       names \in SetToAllKPermutations(Name) \ {<<>>} :
    /\ batches < MaxBatches /\ Len(names) <= 2
    /\ batches' = batches + 1
    /\ clock' = clock + 1
    /\ chain' = Append(chain, [domain |-> domain, value |-> value, names |-> names,
                               at |-> clock', pc |-> "queued", seen |-> Empty,
                               lost |-> FALSE])
    /\ UNCHANGED <<params, truth, seenAt, faults>>

AnyBatch(i) == i \in DOMAIN chain
\* A batch starts when the one before it has finished.
Turn(i) == i \in DOMAIN chain /\ i = 1

Fails == faults < MaxFaults /\ faults' = faults + 1

\* adapter.get: a failed read answers with no parameters at all.
BatchReads(i) ==
    /\ Turn(i) /\ chain[i].pc = "queued"
    /\ \/ /\ chain' = [chain EXCEPT ![i].pc = "writing", ![i].seen = params]
          /\ UNCHANGED faults
       \/ /\ Fails
          /\ chain' = [chain EXCEPT ![i].pc = "writing", ![i].lost = TRUE]
    /\ UNCHANGED <<params, truth, seenAt, clock, batches>>

\* adapter.set: a failed write is logged, and the batch forgotten.
BatchWrites(i) ==
    /\ Turn(i) /\ chain[i].pc = "writing"
    /\ LET b == chain[i]
           result == Recorded([params |-> b.seen,
                               truth |-> IF b.lost THEN Empty ELSE truth], b)
       IN  \/ /\ params' = result.params
              /\ truth' = result.truth
              /\ seenAt' = [n \in Name |-> IF Contains(b.names, n) THEN b.at
                                           ELSE IF b.lost THEN 0 ELSE seenAt[n]]
              /\ UNCHANGED faults
           \/ Fails /\ UNCHANGED <<params, truth, seenAt>>
    /\ chain' = RemoveAt(chain, i)
    /\ UNCHANGED <<clock, batches>>

BatchStep == \E i \in DOMAIN chain : BatchReads(i) \/ BatchWrites(i)

Next == ObserveMany \/ BatchStep

Spec == Init /\ [][Next]_vars

-----------------------------------------------------------------------------
\* graduate(): a verdict on read, from how many domains and values there are.
Graduate(name, domains, values, count, sum) ==
    IF domains < DomainThreshold \/ values < ValueThreshold THEN "observed"
    ELSE IF /\ domains >= CandidateDomainThreshold
            /\ values >= CandidateValueThreshold
            /\ 2 * sum > count
            /\ name \notin ShortNames
         THEN "candidate" ELSE "suspicious"

\* getState, for the parameters the popup lists.
GetState(n) == Graduate(n, Len(params[n].domains), Len(params[n].values),
                        params[n].count, params[n].sum)

-----------------------------------------------------------------------------
(* Properties.                                                             *)

\* Type correctness, with the ceilings of #731 and the LRU cap.
TypeOK ==
    /\ DOMAIN params \subseteq Name /\ Cardinality(DOMAIN params) <= MaxTracked
    /\ \A n \in DOMAIN params :
         /\ params[n].domains \in SeqOf(Domain, MaxDomains) /\ IsInjective(params[n].domains)
         /\ params[n].values \in SeqOf(Value, MaxValues) /\ IsInjective(params[n].values)
         /\ params[n].lastSeen \in 1..clock
    /\ \A i \in DOMAIN chain : chain[i].pc \in {"queued", "writing"}
    /\ DOMAIN truth = DOMAIN params /\ seenAt \in [Name -> 0..clock]
    /\ clock \in Nat /\ batches \in Nat /\ faults \in Nat

\* The ceilings lose nothing and no batch is lost to another: every verdict is
\* the one that everything seen since the parameter was tracked would give
\* (_applyObservation, the chain of #732).
VerdictsLossless ==
    \A n \in DOMAIN params :
      GetState(n) = Graduate(n, Cardinality(truth[n].domains),
                             Cardinality(truth[n].values), truth[n].count, truth[n].sum)

\* A parameter is forgotten only for ones seen since: no untracked parameter was
\* seen later than a tracked one (MAX_TRACKED_PARAMS).
RecentlySeenTracked ==
    \A n \in Name \ DOMAIN params, m \in DOMAIN params : seenAt[n] <= seenAt[m]
=============================================================================
