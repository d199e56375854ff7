----------------------------- MODULE Enrichment -----------------------------
(***************************************************************************)
(* The enrichment runner: one task (quality), run by one goroutine in each *)
(* process that hosts it (the API process and cmd/enricher may both), over *)
(* the task's row in enrichment_state, a ReplacingMergeTree(updated_at).   *)
(*                                                                         *)
(* An event is identified with its place in the order (created_at, id) the *)
(* cursor walks.  Clocks of two hosts may differ.                          *)
(***************************************************************************)
EXTENDS Integers, FiniteSets

CONSTANTS
    Runners, TaskEvents,
    Rank,       \* Rank[e] >= 1: the place of e by (created_at, id)
    Yields,     \* Yields[e]: the derived tables the processor has rows for
    Unusable,   \* events whose own result is an error
    BatchSize,
    Skew,       \* Skew[r]: how far the clock of r's host is ahead
    MaxClock, MaxFailures \* bounds

DerivedTables == {"derived_tags", "derived_metrics"}

ASSUME EnrichmentAssumption ==
    /\ Rank \in [TaskEvents -> Nat \ {0}]
    /\ \A d, e \in TaskEvents : Rank[d] = Rank[e] => d = e
    /\ Yields \in [TaskEvents -> SUBSET DerivedTables] /\ Unusable \subseteq TaskEvents
    /\ BatchSize \in Nat \ {0} /\ Skew \in [Runners -> Nat]
    /\ MaxClock \in Nat /\ MaxFailures \in Nat

VARIABLES
    stored,     \* events in nostr_events
    missed,     \* history: those stored below a place a runner had reached
    derived,    \* derived[t]: events with rows in the derived table t
    cursor,     \* the cursor of the row FINAL shows; 0 without a row
    savedAt,    \* its updated_at
    clock,
    failures,   \* bound
    place, from, batch, computedAt \* of each runner's RunOnce

database == <<derived, cursor, savedAt>>
run == <<place, from, batch, computedAt>>
world == <<stored, missed, clock, failures>>
enrichmentVars == <<database, run, world>>

InitEnrichment ==
    /\ stored = {} /\ missed = {} /\ derived = [t \in DerivedTables |-> {}]
    /\ cursor = 0 /\ savedAt = 0 /\ clock = 0 /\ failures = 0
    /\ place = [r \in Runners |-> "load"] /\ from = [r \in Runners |-> 0]
    /\ batch = [r \in Runners |-> {}] /\ computedAt = [r \in Runners |-> 0]

-----------------------------------------------------------------------------
(* Helpers *)

\* Mutant of After: only created_at is compared, two events to the second.
AfterBySecond(c) == {e \in stored : Rank[e] \div 2 > c \div 2}

After(c) == {e \in stored : Rank[e] > c}

\* The batch a fetch from c returns: the first BatchSize events after it.
Fetched(c) == {e \in After(c) :
    Cardinality({d \in After(c) : Rank[d] < Rank[e]}) < BatchSize}

\* The cursor ends at the last event of the batch, whatever its result.
EndsBatch(e, b) == e \in b /\ \A d \in b : Rank[d] <= Rank[e]

\* Mutant of ToWrite: an unusable event ends the batch.
ToWriteNone(b, t) == IF b \intersect Unusable # {} THEN {}
                     ELSE {e \in b : t \in Yields[e]}

\* The events of a batch that have rows for t.  An empty annotation has none.
ToWrite(b, t) == {e \in b \ Unusable : t \in Yields[e]}

Wanting(t) == {e \in TaskEvents \ Unusable : t \in Yields[e]}

ClockOf(r) == IF clock + Skew[r] > MaxClock THEN MaxClock ELSE clock + Skew[r]

Reset(r) == /\ place' = [place EXCEPT ![r] = "load"] /\ from' = [from EXCEPT ![r] = 0]
            /\ batch' = [batch EXCEPT ![r] = {}]
            /\ computedAt' = [computedAt EXCEPT ![r] = 0]

-----------------------------------------------------------------------------
(* RunOnce *)

Load(r) ==
    /\ place[r] = "load"
    /\ place' = [place EXCEPT ![r] = "fetch"] /\ from' = [from EXCEPT ![r] = cursor]
    /\ UNCHANGED <<database, world, batch, computedAt>>

\* Without events the runner sleeps and starts over.
Fetch(r) ==
    /\ place[r] = "fetch"
    /\ IF After(from[r]) = {} THEN Reset(r)
       ELSE /\ place' = [place EXCEPT ![r] = "process"]
            /\ batch' = [batch EXCEPT ![r] = Fetched(from[r])]
            /\ UNCHANGED <<from, computedAt>>
    /\ UNCHANGED <<database, world>>

\* ProcessBatch, and the time the results are stamped with.
Process(r) ==
    /\ place[r] = "process"
    /\ place' = [place EXCEPT ![r] = "tags"]
    /\ computedAt' = [computedAt EXCEPT ![r] = ClockOf(r)]
    /\ UNCHANGED <<database, world, from, batch>>

Write(r, t) == derived' = [derived EXCEPT ![t] = @ \union ToWrite(batch[r], t)]

WriteTags(r) ==
    /\ place[r] = "tags" /\ place' = [place EXCEPT ![r] = "metrics"]
    /\ Write(r, "derived_tags")
    /\ UNCHANGED <<cursor, savedAt, world, from, batch, computedAt>>

WriteMetrics(r) ==
    /\ place[r] = "metrics" /\ place' = [place EXCEPT ![r] = "save"]
    /\ Write(r, "derived_metrics")
    /\ UNCHANGED <<cursor, savedAt, world, from, batch, computedAt>>

\* Mutant of SaveRow: the place of a new cursor is the highest one stored.
SaveRowAtEnd(r) ==
    \E e \in stored : /\ EndsBatch(e, stored)
                      /\ cursor' = Rank[e] /\ savedAt' = computedAt[r]

\* SaveEnrichmentState: the row with the newest updated_at is the one FINAL
\* shows, the later of two with the same.
SaveRow(r) ==
    IF computedAt[r] < savedAt THEN UNCHANGED <<cursor, savedAt>>
    ELSE \E e \in batch[r] : /\ EndsBatch(e, batch[r])
                             /\ cursor' = Rank[e] /\ savedAt' = computedAt[r]

Save(r) ==
    /\ place[r] = "save" /\ SaveRow(r) /\ Reset(r)
    /\ UNCHANGED <<derived, world>>

\* A call fails, or the process dies and comes back.  A statement that is
\* reported as failed after it took effect is that statement and then this one.
Fail(r) ==
    /\ place[r] # "load" /\ failures < MaxFailures /\ failures' = failures + 1
    /\ Reset(r)
    /\ UNCHANGED <<database, stored, missed, clock>>

-----------------------------------------------------------------------------
(* The rest of the system *)

\* Has a runner, or the saved cursor, gone past the place of e?
Overtaken(e) ==
    \/ Rank[e] <= cursor
    \/ \E r \in Runners : Rank[e] <= from[r] \/ \E d \in batch[r] : Rank[e] < Rank[d]

Store(e) ==
    /\ e \notin stored /\ stored' = stored \union {e}
    /\ missed' = IF Overtaken(e) THEN missed \union {e} ELSE missed
    /\ UNCHANGED <<database, run, clock, failures>>

Tick == /\ clock < MaxClock /\ clock' = clock + 1
        /\ UNCHANGED <<database, run, stored, missed, failures>>

Progress(r) == Load(r) \/ Fetch(r) \/ Process(r) \/ WriteTags(r) \/ WriteMetrics(r)
               \/ Save(r)

EnrichmentNext == (\E r \in Runners : Progress(r) \/ Fail(r)) \/ (\E e \in TaskEvents : Store(e)) \/ Tick

EnrichmentSpec == InitEnrichment /\ [][EnrichmentNext]_enrichmentVars

\* runTask never ends while its process runs, and time passes.
FairEnrichment == EnrichmentSpec /\ WF_enrichmentVars(Tick) /\ \A r \in Runners : WF_enrichmentVars(Progress(r))

-----------------------------------------------------------------------------
(* Properties *)

EnrichmentTypeOK ==
    /\ stored \subseteq TaskEvents /\ missed \subseteq stored
    /\ derived \in [DerivedTables -> SUBSET stored]
    /\ cursor \in Nat /\ savedAt \in 0..MaxClock /\ clock \in 0..MaxClock
    /\ failures \in 0..MaxFailures
    /\ place \in [Runners -> {"load", "fetch", "process", "tags", "metrics", "save"}]
    /\ from \in [Runners -> Nat] /\ batch \in [Runners -> SUBSET stored]
    /\ computedAt \in [Runners -> 0..MaxClock]

Enriched(e) == \A t \in DerivedTables : e \in Wanting(t) => e \in derived[t]

CoveredTo(c) == \A e \in stored \ missed : Rank[e] <= c => Enriched(e)

\* No event below the saved cursor was skipped, other than one stored when the
\* cursor or a fetched batch was already past it: not when a batch fails between
\* its two inserts, not when two runners work from different cursors, and not
\* when a slow one moves the cursor back (runner.go:81-152).
NothingSkipped == CoveredTo(cursor)

\* A cursor that is moved back, batches that fail and a host whose clock is
\* ahead delay enrichment but do not end it.
EventuallyEnriched == \A e \in TaskEvents : e \in stored \ missed ~> Enriched(e)

\* The runners, together, are one worker with a persisted cursor.
Worker == INSTANCE Watermark WITH
    Items <- TaskEvents, offered <- stored, mark <- cursor,
    done <- {e \in stored : Enriched(e)}
KeepsWatermark == Worker!WSpec
=============================================================================
