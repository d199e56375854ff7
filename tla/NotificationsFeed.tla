------------------------- MODULE NotificationsFeed -------------------------
(***************************************************************************)
(* The notifications read-model: RecomputeNotificationsFeed, the loop that *)
(* ticks it, the two persisted cursors it keeps in rollup_state, and the   *)
(* readiness check that flips reads from the legacy query to the model.    *)
(*                                                                         *)
(* A candidate is identified with its created_at, which is all the         *)
(* cursors ever look at.  One unit of time stands for the granularity at   *)
(* which the windows differ.  0 is Go's zero time: no cursor saved yet.    *)
(***************************************************************************)
EXTENDS Integers

CONSTANTS
    Slice,         \* notificationsFeedSlice
    Overlap,       \* notificationsFeedOverlap
    History,       \* notificationsFeedHistoryWindow, and the table's TTL
    ReadyLag,      \* notificationsFeedReadyLag
    ReadyHistory,  \* notificationsFeedReadyHistory
    ReadyCacheTTL, \* how long a readiness verdict is reused
    Stamps,        \* the created_at values candidates may have
    StartNow,      \* the time at which the system is first deployed
    MaxNow         \* bound on the clock

ASSUME WindowsAssumption ==
    /\ Slice \in Nat \ {0} /\ Overlap \in Nat /\ History \in Nat
    /\ ReadyLag \in Nat /\ ReadyHistory \in Nat /\ ReadyCacheTTL \in Nat \ {0}
    /\ ReadyHistory <= History
    /\ Slice <= History

ASSUME ClockAssumption ==
    /\ Stamps \subseteq Nat
    /\ StartNow \in Nat /\ StartNow > History + ReadyCacheTTL
    /\ MaxNow \in Nat

VARIABLES
    now,         \* wall clock
    candidates,  \* created_at of the rows of notification_candidates
    late,        \* those that became visible more than Overlap after created_at
    feed,        \* created_at of the rows of notifications_feed
    headCur,     \* rollup_state of notificationsFeedTask
    backCur,     \* rollup_state of notificationsFeedBackfillTask
    pc,          \* where the tick is between two database calls
    tick,        \* the `now` argument of the running tick
    head,        \* head.CursorCreatedAt as loaded by the running tick
    edge,        \* the upper end of the running history slice
    feedReady,   \* Store.feedReady
    checkedAt    \* Store.feedReadyCheckedAt

table == <<candidates, late, feed>>
cursors == <<headCur, backCur>>
locals == <<tick, head, edge>>
Return == pc' = "idle" /\ tick' = 0 /\ head' = 0 /\ edge' = 0
readiness == <<feedReady, checkedAt>>
vars == <<now, table, cursors, pc, locals, readiness>>

PCs == {"idle", "head", "saveHead", "loadBack", "back", "saveBack"}

\* The candidates a slice [from, to) reads.
Window(from, to) == {t \in candidates : from <= t /\ t < to}

\* Mutant of HeadFrom: the head slice resumes without the overlap.
HeadFromNoOverlap == IF head = 0 THEN tick - Slice ELSE head

\* The lower end of the head slice: one slice on the very first run.
HeadFrom == IF head = 0 THEN tick - Slice ELSE head - Overlap

\* The history target of the running tick, and the slice it works on.
Target == tick - History

\* Mutant of SliceFrom: a last slice shorter than the others is skipped.
SliceFromWholeOnly == IF edge - Slice < Target THEN edge ELSE edge - Slice

SliceFrom == IF edge - Slice < Target THEN Target ELSE edge - Slice

\* Where the history walker resumes: its own cursor, or the bottom of the first
\* head slice, or (a head cursor without a backfill cursor) the loaded head.
ResumeEdge == IF backCur # 0 THEN backCur
              ELSE IF head = 0 THEN HeadFrom ELSE head

Init ==
    /\ now = StartNow
    /\ candidates \in SUBSET {t \in Stamps : t < StartNow}
    /\ late = {} /\ feed = {}
    /\ headCur = 0 /\ backCur = 0
    /\ pc = "idle" /\ tick = 0 /\ head = 0 /\ edge = 0
    /\ feedReady = FALSE /\ checkedAt = 0

-----------------------------------------------------------------------------
(* The tick *)

\* The loop calls RecomputeNotificationsFeed with the current time; the head
\* cursor is loaded.
LoadHead ==
    /\ pc = "idle"
    /\ pc' = "head" /\ tick' = now /\ head' = headCur /\ edge' = 0
    /\ UNCHANGED <<now, table, cursors, readiness>>

ExecHead ==
    /\ pc = "head"
    /\ feed' = feed \union Window(HeadFrom, tick)
    /\ pc' = "saveHead"
    /\ UNCHANGED <<now, candidates, late, cursors, locals, readiness>>

SaveHead ==
    /\ pc = "saveHead"
    /\ headCur' = tick
    /\ pc' = "loadBack"
    /\ UNCHANGED <<now, table, backCur, locals, readiness>>

\* The walker's cursor is loaded; past the target there is nothing left to do.
LoadBackfill ==
    /\ pc = "loadBack"
    /\ IF ResumeEdge > Target
       THEN pc' = "back" /\ edge' = ResumeEdge /\ UNCHANGED <<tick, head>>
       ELSE Return
    /\ UNCHANGED <<now, table, cursors, readiness>>

ExecBackfill ==
    /\ pc = "back"
    /\ feed' = feed \union Window(SliceFrom, edge)
    /\ pc' = "saveBack"
    /\ UNCHANGED <<now, candidates, late, cursors, locals, readiness>>

SaveBackfill ==
    /\ pc = "saveBack"
    /\ backCur' = SliceFrom
    /\ Return
    /\ UNCHANGED <<now, table, headCur, readiness>>

\* A call fails, or the process dies before it: the tick ends where it is.
Abort ==
    /\ pc # "idle"
    /\ Return
    /\ UNCHANGED <<now, table, cursors, readiness>>

\* An INSERT ... SELECT fails (or the process dies) with part of it landed.
PartialExec ==
    /\ pc \in {"head", "back"}
    /\ \E part \in SUBSET (IF pc = "head" THEN Window(HeadFrom, tick)
                           ELSE Window(SliceFrom, edge)) :
          feed' = feed \union part
    /\ Return
    /\ UNCHANGED <<now, candidates, late, cursors, readiness>>

\* The cursor row lands but the process dies, or the call reports an error.
SaveThenDie ==
    /\ \/ pc = "saveHead" /\ headCur' = tick /\ UNCHANGED backCur
       \/ pc = "saveBack" /\ backCur' = SliceFrom /\ UNCHANGED headCur
    /\ Return
    /\ UNCHANGED <<now, table, readiness>>

-----------------------------------------------------------------------------
(* Readers *)

LagFresh == headCur # 0 /\ now - headCur < ReadyLag

\* Mutant of HistoryDeep: a cursor that was never saved counts as old.
HistoryDeepZero == now - backCur >= ReadyHistory

HistoryDeep == backCur # 0 /\ now - backCur >= ReadyHistory

\* notificationsFeedReady past its cache: a failed load counts as not ready.
CheckReady ==
    /\ now - checkedAt >= ReadyCacheTTL
    /\ checkedAt' = now
    /\ \/ feedReady' = (LagFresh /\ HistoryDeep)
       \/ feedReady' = FALSE
    /\ UNCHANGED <<now, table, cursors, pc, locals>>

\* A Notifications call issued now is answered from the read-model, on a cached
\* verdict or on a new one.
ServedFromFeed ==
    IF now - checkedAt < ReadyCacheTTL THEN feedReady ELSE LagFresh /\ HistoryDeep

-----------------------------------------------------------------------------
(* The rest of the system *)

\* Ingest makes a candidate visible (mv_notification_candidates).
Arrive(t) ==
    /\ t \notin candidates
    /\ candidates' = candidates \union {t}
    /\ late' = IF t + Overlap < now THEN late \union {t} ELSE late
    /\ UNCHANGED <<now, feed, cursors, pc, locals, readiness>>

\* The table's TTL: rows past the history window are dropped by merges.
Expire ==
    /\ \E t \in feed : t + History < now /\ feed' = feed \ {t}
    /\ UNCHANGED <<now, candidates, late, cursors, pc, locals, readiness>>

Elapse ==
    /\ now < MaxNow
    /\ now' = now + 1
    /\ UNCHANGED <<table, cursors, pc, locals, readiness>>

Environment == (\E t \in Stamps : Arrive(t)) \/ Expire \/ Elapse

TickStep == LoadHead \/ ExecHead \/ SaveHead \/ LoadBackfill \/ ExecBackfill
            \/ SaveBackfill

Fault == Abort \/ PartialExec \/ SaveThenDie

Next == TickStep \/ Fault \/ CheckReady \/ Environment

Spec == Init /\ [][Next]_vars

\* The loop ticks forever and a failing database call is retried by a later
\* tick; outages and crashes do not last forever, so each call of the tick
\* that is reached again and again eventually succeeds.
FairSpec ==
    /\ Spec
    /\ WF_vars(Elapse) /\ WF_vars(LoadHead)
    /\ SF_vars(ExecHead) /\ SF_vars(SaveHead) /\ SF_vars(LoadBackfill)
    /\ SF_vars(ExecBackfill) /\ SF_vars(SaveBackfill)

-----------------------------------------------------------------------------
(* Properties *)

TypeOK ==
    /\ now \in Nat
    /\ candidates \subseteq Stamps /\ late \subseteq candidates
    /\ feed \subseteq candidates
    /\ headCur \in Nat /\ backCur \in Nat
    /\ pc \in PCs
    /\ tick \in Nat /\ head \in Nat /\ edge \in Int
    /\ feedReady \in BOOLEAN /\ checkedAt \in Nat

\* Every candidate from `from` up to Overlap before `to` that became visible in
\* time and that the TTL keeps has been copied to the feed.
Covered(from, to) ==
    \A t \in candidates \ late :
        (from <= t /\ t + Overlap < to /\ now <= t + History) => t \in feed

\* The region between the two persisted cursors has no hole, whatever tick
\* failed or died where: what lies between the backfill cursor and the head
\* (less the overlap the next tick reprocesses) is in the feed.
CoverageIsContiguous == backCur # 0 => Covered(backCur, headCur)

\* A reader that is switched to the read-model misses no notification of the
\* history users page through, down to the lag that readiness tolerates.
ReadyMeansServable ==
    ServedFromFeed => Covered(now - ReadyHistory, now - ReadyLag - ReadyCacheTTL)

\* The head cursor only moves forward and the history cursor only backward: no
\* retry or restart un-covers what a reader may rely on.
CursorsMonotone ==
    [][/\ headCur' >= headCur
       /\ (backCur # 0 => backCur' # 0 /\ backCur' <= backCur)]_vars

\* The walker reaches the history target and stays there, and the head reaches
\* the clock.
EventuallyCaughtUp ==
    <>[](headCur = now /\ backCur # 0 /\ backCur <= now - History)
=============================================================================
