------------------------------- MODULE AppView -------------------------------
(***************************************************************************)
(* The event tables and the app-view tables derived from them: inserts     *)
(* with the materialized views they feed, the removal of kinds that are no *)
(* longer configured when an ingester starts, and the rebuild of the       *)
(* app-view tables (Backfill), on its own or after such a removal.         *)
(*                                                                         *)
(* A row is identified with its event: note_like_counts and                *)
(* note_repost_counts are one view of sets of events ("likes"), as their   *)
(* uniq states are; note_zap_totals adds sats up, so it counts how often   *)
(* each receipt was added.  derived_* tables and the replies are left out. *)
(***************************************************************************)
EXTENDS Integers, Sequences, FiniteSets

CONSTANTS
    Events,
    KindOf,     \* KindOf[e]
    Configured, \* the kinds of NAGG_KINDS
    InProcess,  \* whether the ingester runs in the API's process
    OnDemand,   \* whether requests fetch events of any kind (NAGG_ON_DEMAND_USER_FEED)
    Writers,    \* goroutines that call InsertEvents
    MaxAdds,    \* bound on inserts of one receipt
    MaxBoots,   \* bound on starts of an ingester
    None

ASSUME AppViewAssumption ==
    /\ KindOf \in [Events -> Nat] /\ Configured \subseteq Nat
    /\ InProcess \in BOOLEAN /\ OnDemand \in BOOLEAN /\ MaxAdds \in Nat /\ MaxBoots \in Nat /\ None \notin Events

LikeKinds == {6, 7, 16}
CandidateKinds == {1, 3, 6, 7, 16, 9735}
ZapKind == 9735
ProfileKind == 0

OfKinds(K) == {e \in Events : KindOf[e] \in K}
Removed == {e \in Events : KindOf[e] \notin Configured}

VARIABLES
    tables,  \* rows of "events", "relays" and "tags"
    views,   \* rows of "likes", "zaps", "profiles" and "candidates"
    totals,  \* totals[e]: how often receipt e is in note_zap_totals
    writing, \* writing[w]: the event w inserts, or None
    next,    \* next[w]: the table it inserts into next
    step,    \* where the ingester's start is; 0 when it is not starting
    rebuild, \* whether the removal is followed by a rebuild
    serving, \* the ingester consumes events
    boots

rows == <<tables, views, totals>>
writers == <<writing, next>>
starter == <<step, rebuild, serving, boots>>
tableVars == <<rows, writers, starter>>

Tables == {"events", "relays", "tags"}
Views == {"likes", "zaps", "profiles", "candidates"}
InsertOrder == <<"events", "relays", "tags", "zaps">>

\* What the materialized views and extractNoteZap derive from event and tag rows.
SourceOf == [likes |-> "tags", zaps |-> "events", profiles |-> "events", candidates |-> "tags"]
Selected(v) == CASE v = "likes" -> OfKinds(LikeKinds)
                 [] v = "zaps" -> OfKinds({ZapKind})
                 [] v = "profiles" -> OfKinds({ProfileKind})
                 [] v = "candidates" -> OfKinds(CandidateKinds)
Derived(v) == tables[SourceOf[v]] \intersect Selected(v)

\* The tables start as an earlier run with any configuration may have left them:
\* complete or half-way inserts, views as the rows say.
InitTables ==
    /\ \E E \in SUBSET Events : \E T \in SUBSET E :
          tables = [t \in Tables |-> IF t = "tags" THEN T ELSE E]
    /\ views = [v \in Views |-> Derived(v)]
    /\ totals = [e \in Events |-> IF e \in views["zaps"] THEN 1 ELSE 0]
    /\ writing = [w \in Writers |-> None] /\ next = [w \in Writers |-> 1]
    /\ step = 0 /\ rebuild = FALSE /\ serving = FALSE /\ boots = 0

-----------------------------------------------------------------------------
(* InsertEvents, with a batch of one event *)

\* The ingesters subscribe to the configured kinds; on-demand fetches ask by id, or for
\* the kinds of a query.  Any event may come again: from another relay, by a replay
\* after a restart, or by a fetch.
Insertable == IF OnDemand THEN Events ELSE Events \ Removed

BeginInsert(w) == \E e \in Insertable :
    /\ writing[w] = None
    /\ writing' = [writing EXCEPT ![w] = e] /\ next' = [next EXCEPT ![w] = 1]
    /\ UNCHANGED <<rows, starter>>

\* A row of table t, and what the materialized views on t make of it.
Stored(e, t) ==
    IF t = "zaps"
    THEN /\ tables' = tables
         /\ views' = [views EXCEPT !["zaps"] = @ \union ({e} \intersect Selected("zaps"))]
         /\ totals' = [totals EXCEPT ![e] = IF e \in Selected("zaps") THEN @ + 1 ELSE @]
    ELSE /\ tables' = [tables EXCEPT ![t] = @ \union {e}]
         /\ views' = [v \in Views |-> IF v # "zaps" /\ SourceOf[v] = t
                                      THEN views[v] \union ({e} \intersect Selected(v))
                                      ELSE views[v]]
         /\ UNCHANGED totals

Send(w) == LET e == writing[w] IN
    /\ e # None /\ totals[e] < MaxAdds
    /\ Stored(e, InsertOrder[next[w]])
    /\ IF next[w] = Len(InsertOrder)
       THEN writing' = [writing EXCEPT ![w] = None] /\ UNCHANGED next
       ELSE next' = [next EXCEPT ![w] = @ + 1] /\ UNCHANGED writing
    /\ UNCHANGED starter

\* A send fails and the insert is given up; its caller may start it over.
SendFails(w) ==
    /\ writing[w] # None /\ writing' = [writing EXCEPT ![w] = None]
    /\ UNCHANGED <<rows, next, starter>>

-----------------------------------------------------------------------------
(* PruneRemovedEventKinds and Backfill *)

\* Mutant of RemovalOrder: event rows first.
EventsFirst == <<"events", "relays", "candidates", "tags">>

\* eventKindRetentionMutations: what tells the kinds apart goes last.
RemovalOrder == <<"relays", "candidates", "tags", "events">>

\* Mutant of RebuildOrder: a table is truncated after it was filled.
TruncateLate == <<
    <<"truncate", "likes">>, <<"truncate", "zaps">>, <<"truncate", "totals">>,
    <<"truncate", "candidates">>, <<"fill", "likes">>, <<"fill", "profiles">>,
    <<"truncate", "profiles">>, <<"fill", "candidates">>, <<"fill", "zaps">> >>

\* The statements of Backfill.
RebuildOrder == <<
    <<"truncate", "likes">>, <<"truncate", "zaps">>, <<"truncate", "totals">>,
    <<"truncate", "profiles">>, <<"truncate", "candidates">>, <<"fill", "likes">>,
    <<"fill", "profiles">>, <<"fill", "candidates">>, <<"fill", "zaps">> >>

\* The statements of a start, numbered from 1.
RemovalSteps == Len(RemovalOrder)
LastStep == RemovalSteps + Len(RebuildOrder)

\* shouldRebuildAppViewAfterKindPrune.
AppViewKinds == {0, 1, 3, 6, 7, 16, 9735}
NeedsRebuild == tables["events"] \intersect Removed \intersect OfKinds(AppViewKinds) # {}

\* An ingester starts and counts what it has to remove.
Boot ==
    /\ step = 0 /\ ~serving /\ boots < MaxBoots /\ boots' = boots + 1
    /\ rebuild' = NeedsRebuild
    /\ IF tables["events"] \intersect Removed = {}
       THEN step' = 0 /\ serving' = TRUE
       ELSE step' = 1 /\ UNCHANGED serving
    /\ UNCHANGED <<rows, writers>>

\* The rows of relays have no kind: they go by the event rows there are.
Remove(t) ==
    IF t = "candidates"
    THEN /\ views' = [views EXCEPT !["candidates"] = @ \ Removed]
         /\ UNCHANGED tables
    ELSE /\ tables' = [tables EXCEPT ![t] =
                          @ \ (IF t = "relays" THEN Removed \intersect tables["events"] ELSE Removed)]
         /\ UNCHANGED views

Truncate(v) ==
    IF v = "totals"
    THEN totals' = [e \in Events |-> 0] /\ UNCHANGED views
    ELSE views' = [views EXCEPT ![v] = {}] /\ UNCHANGED totals

\* backfillZaps feeds note_zap_totals through note_zaps.
Fill(v) ==
    /\ views' = [views EXCEPT ![v] = @ \union Derived(v)]
    /\ totals' = IF v = "zaps"
                 THEN [e \in Events |-> totals[e] + (IF e \in Derived("zaps") THEN 1 ELSE 0)]
                 ELSE totals

Statement ==
    IF step <= RemovalSteps
    THEN Remove(RemovalOrder[step]) /\ UNCHANGED totals
    ELSE LET s == RebuildOrder[step - RemovalSteps] IN
         /\ IF s[1] = "truncate" THEN Truncate(s[2]) ELSE Fill(s[2])
         /\ UNCHANGED tables

IsLast(s) == s = LastStep \/ (s = RemovalSteps /\ ~rebuild)

RunStatement ==
    /\ step # 0 /\ Statement
    /\ step' = IF IsLast(step) THEN 0 ELSE step + 1
    /\ serving' = IsLast(step)
    /\ UNCHANGED <<writers, rebuild, boots>>

\* A statement fails.  The standalone ingester goes on to consume all the same, the
\* one in the API's process does not start.
StatementFails ==
    /\ step # 0 /\ step' = 0 /\ serving' = ~InProcess
    /\ UNCHANGED <<rows, writers, rebuild, boots>>

\* The ingester's process ends, at any statement of its start.
Stop ==
    /\ step # 0 \/ serving
    /\ step' = 0 /\ serving' = FALSE
    /\ UNCHANGED <<rows, writers, rebuild, boots>>

TablesNext ==
    \/ \E w \in Writers : BeginInsert(w) \/ Send(w) \/ SendFails(w)
    \/ Boot \/ RunStatement \/ StatementFails \/ Stop

TablesSpec == InitTables /\ [][TablesNext]_tableVars

-----------------------------------------------------------------------------
(* Properties *)

\* However often a start is interrupted between two of its statements, and whatever
\* is inserted meanwhile: no relay, tag or candidate row of a removed kind is left
\* without its event row, which is what the next start would find it by.
RemovedKindsGoTogether ==
    (tables["relays"] \union tables["tags"] \union views["candidates"]) \intersect Removed
        \subseteq tables["events"]

\* README.md:45: when an ingester begins to consume, there are no rows of removed kinds.
ServesConfiguredKindsOnly == ~serving /\ serving' =>
    (tables["events"] \union tables["relays"] \union tables["tags"] \union views["candidates"])'
        \intersect Removed = {}

Behind(v) == ~(Derived(v) \ Removed \subseteq views[v])

\* A rebuild that comes to its end leaves no view behind its table, whatever is
\* inserted while its tables are truncated and filled again, and no receipt out of the
\* totals (store.go:571-636).
RebuildCompletes == RunStatement /\ step = LastStep =>
    /\ \A v \in Views : ~Behind(v)'
    /\ \A e \in views'["zaps"] : totals'[e] > 0

\* A start that comes to its end leaves only rows of the kinds it is configured for, and
\* views that are as full as their tables.
StartCompletes == [][ServesConfiguredKindsOnly /\ RebuildCompletes]_tableVars
=============================================================================
