--------------------------- MODULE ReadModelProofs ---------------------------
(***************************************************************************)
(* Proofs about what is derived from event rows: the notifications feed    *)
(* (NotificationsFeed), for every choice of its windows, the app-view      *)
(* tables (AppView), for any events and writers, and the annotations of    *)
(* the enrichment (Enrichment), for any runners, batch size and clocks.    *)
(* The three share no variable.                                            *)
(*                                                                         *)
(* CoverageIsContiguous is not inductive: between the statement that       *)
(* fills a slice and the save of its cursor, the slice is in the feed and  *)
(* no cursor says so.  The strengthening follows the running tick and      *)
(* says, at each program point, which region it has filled so far.         *)
(*                                                                         *)
(* The app-view properties need what the statements of a start that have   *)
(* run leave behind (RemovalSoFar, RebuildSoFar), and that inserts, which  *)
(* go on all the while, only bring kinds that stay (WritersInOrder): that  *)
(* is so without on-demand fetches, and the theorems say so.               *)
(*                                                                         *)
(* What no failure, restart or second runner can do to enrichment: the     *)
(* cursor of the row may be older than a runner's, and a runner's may be   *)
(* older than the row's; that either is safe to save is what the invariant *)
(* has for every runner: all is enriched up to where it began, its batch   *)
(* has no gap, and what it has written is there.                           *)
(***************************************************************************)
EXTENDS NotificationsFeed, AppView, Enrichment, FiniteSetTheorems, TLAPS

-----------------------------------------------------------------------------
(* The notifications feed *)

\* The persisted cursors: a walker's cursor only exists once a head cursor does.
CursorInv ==
    /\ headCur <= now
    /\ headCur = 0 \/ headCur >= StartNow
    /\ backCur # 0 => headCur # 0

\* The locals of the running tick and how they stand to the cursors.
LocalInv ==
    /\ pc # "idle" => /\ StartNow <= tick /\ tick <= now /\ headCur <= tick
                      /\ head <= tick
                      /\ head = 0 \/ head >= StartNow
    /\ pc \in {"head", "saveHead"} => head = headCur
    /\ pc \in {"loadBack", "back", "saveBack"} => headCur = tick
    /\ pc \in {"back", "saveBack"} =>
          /\ edge > Target
          /\ backCur # 0 => edge = backCur

\* What the running tick has filled and not yet saved.
FilledInv ==
    /\ pc = "saveHead" => Covered(HeadFrom, tick)
    /\ pc = "loadBack" => Covered(ResumeEdge, tick)
    /\ pc \in {"back", "saveBack"} => Covered(edge, tick)
    /\ pc = "saveBack" => Covered(SliceFrom, tick)

\* A positive verdict stays true of the cursors as they were when it was given.
ReadyInv ==
    /\ checkedAt <= now
    /\ feedReady => /\ headCur # 0 /\ checkedAt < headCur + ReadyLag
                    /\ backCur # 0 /\ backCur + ReadyHistory <= checkedAt

FeedInv ==
    /\ TypeOK /\ StartNow <= now
    /\ CursorInv /\ LocalInv /\ CoverageIsContiguous /\ FilledInv /\ ReadyInv

-----------------------------------------------------------------------------
\* Covered in the next state, of a region named in this one.
CoveredNext(lo, to) ==
    \A t \in candidates' \ late' :
        (lo <= t /\ t + Overlap < to /\ now' <= t + History) => t \in feed'

\* Two regions that meet or overlap cover their union.
LEMMA CoveredJoin ==
    ASSUME TypeOK, NEW a \in Int, NEW b \in Int, NEW c \in Int, NEW d \in Int,
           Covered(a, b), Covered(c, d), c + Overlap <= b
    PROVE  Covered(a, d)
  BY WindowsAssumption, ClockAssumption DEF TypeOK, Covered

\* A region covers each of its parts.
LEMMA CoveredPart ==
    ASSUME TypeOK, NEW a \in Int, NEW b \in Int, NEW c \in Int, NEW d \in Int,
           Covered(a, b), a <= c, d <= b
    PROVE  Covered(c, d)
  BY WindowsAssumption, ClockAssumption DEF TypeOK, Covered

LEMMA InitFeedInv == Init => FeedInv
<1> SUFFICES ASSUME Init PROVE FeedInv
  OBVIOUS
<1>0. feedReady \in BOOLEAN
  BY DEF Init
<1>1. TypeOK /\ StartNow <= now
  BY <1>0, WindowsAssumption, ClockAssumption DEF Init, TypeOK, PCs
<1>2. CursorInv /\ ReadyInv
  BY ClockAssumption DEF Init, CursorInv, ReadyInv
<1>3. LocalInv /\ CoverageIsContiguous /\ FilledInv
  BY DEF Init, LocalInv, CoverageIsContiguous, FilledInv
<1> QED
  BY <1>1, <1>2, <1>3 DEF FeedInv

LEMMA FeedInvServable == FeedInv => ReadyMeansServable
<1> SUFFICES ASSUME FeedInv, ServedFromFeed
             PROVE  Covered(now - ReadyHistory, now - ReadyLag - ReadyCacheTTL)
  BY DEF ReadyMeansServable
<1>1. backCur # 0 /\ backCur <= now - ReadyHistory
  BY WindowsAssumption, ClockAssumption
  DEF FeedInv, TypeOK, ReadyInv, ServedFromFeed, LagFresh, HistoryDeep
<1>2. headCur >= now - ReadyLag - ReadyCacheTTL
  BY WindowsAssumption, ClockAssumption
  DEF FeedInv, TypeOK, ReadyInv, ServedFromFeed, LagFresh, HistoryDeep
<1>3. Covered(backCur, headCur)
  BY <1>1 DEF FeedInv, CoverageIsContiguous
<1> QED
  BY <1>1, <1>2, <1>3, CoveredPart, WindowsAssumption DEF FeedInv, TypeOK

-----------------------------------------------------------------------------
\* TypeOK and the bounds of the clock and the cursors, action by action.
LEMMA NextScalars ==
    FeedInv /\ [Next]_vars =>
        (TypeOK /\ StartNow <= now /\ CursorInv /\ LocalInv /\ ReadyInv)'
<1> SUFFICES ASSUME FeedInv, [Next]_vars
             PROVE  (TypeOK /\ StartNow <= now /\ CursorInv /\ LocalInv /\ ReadyInv)'
  OBVIOUS
<1> USE WindowsAssumption, ClockAssumption
        DEF FeedInv, TypeOK, CursorInv, LocalInv, ReadyInv, PCs
<1>1. CASE LoadHead
  BY <1>1 DEF LoadHead, table, cursors, readiness
<1>2. CASE ExecHead
  BY <1>2 DEF ExecHead, Window, cursors, locals, readiness
<1>3. CASE SaveHead
  BY <1>3 DEF SaveHead, table, locals, readiness
<1>4. CASE LoadBackfill
  BY <1>4 DEF LoadBackfill, Return, ResumeEdge, HeadFrom, Target, table, cursors,
              readiness
<1>5. CASE ExecBackfill
  BY <1>5 DEF ExecBackfill, Window, Target, cursors, locals, readiness
<1>6. CASE SaveBackfill
  BY <1>6 DEF SaveBackfill, Return, SliceFrom, Target, table, readiness
<1>7. CASE Abort
  BY <1>7 DEF Abort, Return, table, cursors, readiness
<1>8. CASE PartialExec
  BY <1>8 DEF PartialExec, Return, Window, cursors, readiness
<1>9. CASE SaveThenDie
  BY <1>9 DEF SaveThenDie, Return, SliceFrom, Target, table, readiness
<1>10. CASE CheckReady
  <2>1. feedReady' \in BOOLEAN
    BY <1>10 DEF CheckReady, LagFresh, HistoryDeep
  <2>2. feedReady' => LagFresh /\ HistoryDeep
    BY <1>10 DEF CheckReady
  <2>3. ReadyInv'
    BY <1>10, <2>2 DEF CheckReady, LagFresh, HistoryDeep, table, cursors
  <2> QED
    BY <1>10, <2>1, <2>3 DEF CheckReady, Target, table, cursors, locals
<1>11. ASSUME NEW t \in Stamps, Arrive(t)
       PROVE  (TypeOK /\ StartNow <= now /\ CursorInv /\ LocalInv /\ ReadyInv)'
  BY <1>11 DEF Arrive, Target, cursors, locals, readiness
<1>12. CASE Expire
  BY <1>12 DEF Expire, Target, cursors, locals, readiness
<1>13. CASE Elapse
  BY <1>13 DEF Elapse, Target, table, cursors, locals, readiness
<1>14. CASE UNCHANGED vars
  BY <1>14 DEF vars, Target, table, cursors, locals, readiness
<1> QED
  BY <1>1, <1>2, <1>3, <1>4, <1>5, <1>6, <1>7, <1>8, <1>9, <1>10, <1>11,
     <1>12, <1>13, <1>14
  DEF Next, TickStep, Fault, Environment

\* No step un-covers a region that ends at or before the clock: what arrives
\* in time is younger than that, and only rows past the history window go.
LEMMA CoveredKept ==
    FeedInv /\ [Next]_vars =>
        \A lo, to \in Int : to <= now /\ Covered(lo, to) => CoveredNext(lo, to)
<1> SUFFICES ASSUME FeedInv, [Next]_vars, NEW lo \in Int, NEW to \in Int,
                    to <= now, Covered(lo, to),
                    NEW t \in candidates' \ late',
                    lo <= t, t + Overlap < to, now' <= t + History
             PROVE  t \in feed'
  BY DEF CoveredNext
<1> USE WindowsAssumption, ClockAssumption
<1>1. t \in Nat /\ now \in Nat /\ now' \in Nat /\ TypeOK'
  BY NextScalars DEF FeedInv, TypeOK
<1>2. now <= now'
  BY <1>1 DEF Next, TickStep, Fault, Environment, vars, LoadHead, ExecHead, SaveHead,
         LoadBackfill, ExecBackfill, SaveBackfill, Abort, PartialExec,
         SaveThenDie, CheckReady, Arrive, Expire, Elapse
<1>3. t \in candidates \ late
  <2>1. CASE \E s \in Stamps : Arrive(s)
    BY <1>1, <2>1 DEF Arrive
  <2>2. CASE candidates' = candidates /\ late' = late
    BY <2>2
  <2> QED
    BY <2>1, <2>2 DEF Next, TickStep, Fault, Environment, vars, table, LoadHead,
       ExecHead, SaveHead, LoadBackfill, ExecBackfill, SaveBackfill, Abort,
       PartialExec, SaveThenDie, CheckReady, Expire, Elapse
<1>4. t \in feed
  BY <1>1, <1>2, <1>3 DEF Covered
<1>5. CASE Expire
  BY <1>1, <1>4, <1>5 DEF Expire
<1>6. CASE feed \subseteq feed'
  BY <1>4, <1>6
<1> QED
  BY <1>5, <1>6 DEF Next, TickStep, Fault, Environment, vars, table, LoadHead,
     ExecHead, SaveHead, LoadBackfill, ExecBackfill, SaveBackfill, Abort,
     PartialExec, SaveThenDie, CheckReady, Arrive, Elapse

\* Outside the tick's own steps nothing a filled region is named by changes.
LEMMA NextCovered ==
    FeedInv /\ [Next]_vars => (CoverageIsContiguous /\ FilledInv)'
<1> SUFFICES ASSUME FeedInv, [Next]_vars
             PROVE  (CoverageIsContiguous /\ FilledInv)'
  OBVIOUS
<1> USE WindowsAssumption, ClockAssumption
<1>a. TypeOK /\ CursorInv /\ LocalInv /\ CoverageIsContiguous /\ FilledInv
  BY DEF FeedInv
<1>b. /\ now \in Nat /\ headCur \in Nat /\ backCur \in Nat /\ tick \in Nat
      /\ head \in Nat /\ edge \in Int /\ HeadFrom \in Int /\ SliceFrom \in Int
      /\ ResumeEdge \in Int /\ Target \in Int
  BY <1>a DEF TypeOK, HeadFrom, SliceFrom, ResumeEdge, Target
<1>c. \A lo, to \in Int : to <= now /\ Covered(lo, to) => CoveredNext(lo, to)
  BY CoveredKept
<1>d. headCur <= now
  BY <1>a DEF CursorInv
<1>e. backCur # 0 => CoveredNext(backCur, headCur)
  BY <1>a, <1>b, <1>c, <1>d DEF CoverageIsContiguous
<1>f. UNCHANGED cursors => CoverageIsContiguous'
  BY <1>e DEF cursors, CoverageIsContiguous, CoveredNext, Covered
<1>g. pc' = "idle" => FilledInv'
  BY DEF FilledInv
<1>h. /\ pc = "saveHead" => CoveredNext(HeadFrom, tick)
      /\ pc = "loadBack" => CoveredNext(ResumeEdge, tick)
      /\ pc \in {"back", "saveBack"} => CoveredNext(edge, tick)
      /\ pc = "saveBack" => CoveredNext(SliceFrom, tick)
  BY <1>a, <1>b, <1>c DEF FilledInv, LocalInv
<1>i. UNCHANGED <<cursors, pc, locals>> => FilledInv'
  BY <1>h DEF cursors, locals, FilledInv, CoveredNext, Covered, HeadFrom,
              ResumeEdge, SliceFrom, Target
<1>1. CASE LoadHead
  BY <1>1, <1>f DEF LoadHead, FilledInv
<1>2. CASE ExecHead
  <2>1. CoverageIsContiguous'
    BY <1>2, <1>f DEF ExecHead
  <2>2. CoveredNext(HeadFrom, tick)
    BY <1>2, <1>a, <1>b DEF ExecHead, Window, CoveredNext, TypeOK
  <2>3. FilledInv'
    BY <1>2, <2>2 DEF ExecHead, locals, FilledInv, CoveredNext, Covered, HeadFrom
  <2> QED BY <2>1, <2>3
<1>3. CASE SaveHead
  <2>1. CoveredNext(HeadFrom, tick)
    BY <1>3, <1>h DEF SaveHead
  <2>2. backCur # 0 => Covered(backCur, tick)
    BY <1>3, <1>a, <1>b, CoveredJoin
    DEF SaveHead, CursorInv, LocalInv, FilledInv, CoverageIsContiguous, HeadFrom
  <2>3. backCur # 0 => CoveredNext(backCur, tick)
    BY <1>3, <1>a, <1>b, <1>c, <2>2 DEF SaveHead, LocalInv
  <2>4. CoverageIsContiguous'
    BY <1>3, <2>3 DEF SaveHead, CoverageIsContiguous, CoveredNext, Covered
  <2>5. CoveredNext(ResumeEdge, tick)
    <3>1. CASE backCur # 0
      BY <3>1, <2>3 DEF ResumeEdge
    <3>2. CASE backCur = 0 /\ head = 0
      BY <3>2, <2>1 DEF ResumeEdge
    <3>3. CASE backCur = 0 /\ head # 0
      <4>1. \A t \in candidates' : t \in Nat
        BY <1>3, <1>a DEF SaveHead, table, TypeOK
      <4>2. \A t \in Nat : head <= t => HeadFrom <= t
        BY <3>3, <1>b DEF HeadFrom
      <4> QED
        BY <3>3, <2>1, <4>1, <4>2 DEF ResumeEdge, CoveredNext
    <3> QED BY <3>1, <3>2, <3>3
  <2>6. ResumeEdge' = ResumeEdge
    BY <1>3 DEF SaveHead, locals, ResumeEdge, HeadFrom
  <2>7. FilledInv'
    BY <1>3, <2>5, <2>6 DEF SaveHead, locals, FilledInv, CoveredNext, Covered
  <2> QED BY <2>4, <2>7
<1>4. CASE LoadBackfill
  <2>1. CASE ResumeEdge > Target
    <3>1. FilledInv'
      BY <1>4, <2>1, <1>h DEF LoadBackfill, FilledInv, CoveredNext, Covered
    <3> QED BY <1>4, <3>1, <1>f DEF LoadBackfill
  <2>2. CASE ~(ResumeEdge > Target)
    BY <1>4, <2>2, <1>f, <1>g DEF LoadBackfill, Return
  <2> QED BY <2>1, <2>2
<1>5. CASE ExecBackfill
  <2>1. CoveredNext(edge, tick) /\ edge \in Int /\ tick \in Nat
    BY <1>5, <1>b, <1>h DEF ExecBackfill
  <2>2. CoveredNext(SliceFrom, tick)
    BY <1>5, <2>1, <1>a, <1>b DEF ExecBackfill, Window, CoveredNext, TypeOK
  <2>3. SliceFrom' = SliceFrom
    BY <1>5 DEF ExecBackfill, locals, SliceFrom, Target
  <2>4. FilledInv'
    BY <1>5, <2>1, <2>2, <2>3 DEF ExecBackfill, locals, FilledInv, CoveredNext, Covered
  <2> QED BY <1>5, <2>4, <1>f DEF ExecBackfill
<1>6. CASE SaveBackfill
  <2>1. CoveredNext(SliceFrom, headCur)
    BY <1>6, <1>a, <1>h DEF SaveBackfill, LocalInv
  <2>2. CoverageIsContiguous'
    BY <1>6, <2>1 DEF SaveBackfill, CoverageIsContiguous, CoveredNext, Covered
  <2> QED BY <1>6, <2>2, <1>g DEF SaveBackfill, Return
<1>7. CASE Abort
  BY <1>7, <1>f, <1>g DEF Abort, Return
<1>8. CASE PartialExec
  BY <1>8, <1>f, <1>g DEF PartialExec, Return
<1>9. CASE SaveThenDie
  <2>1. CASE pc = "saveHead" /\ headCur' = tick /\ UNCHANGED backCur
    <3>1. backCur # 0 => Covered(backCur, tick)
      BY <2>1, <1>a, <1>b, CoveredJoin
      DEF CursorInv, LocalInv, FilledInv, CoverageIsContiguous, HeadFrom
    <3>2. backCur # 0 => CoveredNext(backCur, tick)
      BY <2>1, <1>a, <1>b, <1>c, <3>1 DEF LocalInv
    <3>3. CoverageIsContiguous'
      BY <2>1, <3>2 DEF CoverageIsContiguous, CoveredNext, Covered
    <3> QED BY <1>9, <3>3, <1>g DEF SaveThenDie, Return
  <2>2. CASE pc = "saveBack" /\ backCur' = SliceFrom /\ UNCHANGED headCur
    <3>1. CoveredNext(SliceFrom, headCur)
      BY <2>2, <1>a, <1>h DEF LocalInv
    <3>2. CoverageIsContiguous'
      BY <2>2, <3>1 DEF CoverageIsContiguous, CoveredNext, Covered
    <3> QED BY <1>9, <3>2, <1>g DEF SaveThenDie, Return
  <2> QED BY <1>9, <2>1, <2>2 DEF SaveThenDie
<1>10. CASE CheckReady
  BY <1>10, <1>f, <1>i DEF CheckReady
<1>11. ASSUME NEW t \in Stamps, Arrive(t)
       PROVE  (CoverageIsContiguous /\ FilledInv)'
  BY <1>11, <1>f, <1>i DEF Arrive
<1>12. CASE Expire
  BY <1>12, <1>f, <1>i DEF Expire
<1>13. CASE Elapse
  BY <1>13, <1>f, <1>i DEF Elapse
<1>14. CASE UNCHANGED vars
  BY <1>14, <1>f, <1>i DEF vars
<1> QED
  BY <1>1, <1>2, <1>3, <1>4, <1>5, <1>6, <1>7, <1>8, <1>9, <1>10, <1>11,
     <1>12, <1>13, <1>14
  DEF Next, TickStep, Fault, Environment

LEMMA FeedInvHolds == Spec => []FeedInv
<1>1. FeedInv /\ [Next]_vars => FeedInv'
  BY NextScalars, NextCovered DEF FeedInv
<1> QED
  BY InitFeedInv, <1>1, PTL DEF Spec

-----------------------------------------------------------------------------
\* The feed has no hole between the persisted cursors, for every window size.
THEOREM FeedCoverage == Spec => []CoverageIsContiguous
<1>1. FeedInv => CoverageIsContiguous
  BY DEF FeedInv
<1> QED
  BY FeedInvHolds, <1>1, PTL

\* A reader switched to the read-model misses nothing it was promised.
THEOREM FeedReadiness == Spec => []ReadyMeansServable
  BY FeedInvHolds, FeedInvServable, PTL

\* No retry or restart moves a cursor the wrong way.
THEOREM FeedCursorsMonotone == Spec => CursorsMonotone
<1> DEFINE Mono == /\ headCur' >= headCur
                   /\ (backCur # 0 => backCur' # 0 /\ backCur' <= backCur)
<1>1. FeedInv /\ [Next]_vars => [Mono]_vars
  <2> SUFFICES ASSUME FeedInv, Next PROVE Mono
    BY DEF vars
  <2> USE WindowsAssumption, ClockAssumption
  <2>1. headCur \in Nat /\ backCur \in Nat /\ LocalInv /\ TypeOK
    BY DEF FeedInv, TypeOK
  <2>2. CASE SaveHead
    BY <2>1, <2>2 DEF SaveHead, LocalInv, TypeOK
  <2>3. CASE SaveBackfill
    BY <2>1, <2>3 DEF SaveBackfill, LocalInv, SliceFrom, Target, TypeOK
  <2>4. CASE SaveThenDie
    BY <2>1, <2>4 DEF SaveThenDie, LocalInv, SliceFrom, Target, TypeOK
  <2>5. CASE UNCHANGED cursors
    BY <2>1, <2>5 DEF cursors
  <2> QED
    BY <2>2, <2>3, <2>4, <2>5
    DEF Next, TickStep, Fault, Environment, LoadHead, ExecHead, LoadBackfill,
        ExecBackfill, Abort, PartialExec, CheckReady, Arrive, Expire, Elapse
<1> QED
  BY <1>1, FeedInvHolds, PTL DEF Spec, CursorsMonotone

\* Type correctness.
THEOREM FeedTypes == Spec => []TypeOK
<1>1. FeedInv => TypeOK
  BY DEF FeedInv
<1> QED
  BY FeedInvHolds, <1>1, PTL

-----------------------------------------------------------------------------
(* The app-view tables *)

\* The types of AppView.
TablesTypeOK ==
    /\ tables \in [Tables -> SUBSET Events] /\ views \in [Views -> SUBSET Events]
    /\ totals \in [Events -> Nat]
    /\ writing \in [Writers -> Events \union {None}] /\ next \in [Writers -> 1..Len(InsertOrder)]
    /\ step \in 0..LastStep /\ rebuild \in BOOLEAN /\ serving \in BOOLEAN /\ boots \in 0..MaxBoots

\* Writers only insert kinds that stay, and event rows first.
WritersInOrder == \A w \in Writers : writing[w] # None =>
    /\ writing[w] \notin Removed
    /\ next[w] > 1 => writing[w] \in tables["events"]

\* What the statements of the removal that have run leave behind.
RemovalSoFar ==
    /\ step > 1 => tables["relays"] \intersect Removed = {}
    /\ step > 2 => views["candidates"] \intersect Removed = {}
    /\ step > 3 => tables["tags"] \intersect Removed = {}
    /\ step > 4 => tables["events"] \intersect Removed = {}

\* What the statements of the rebuild that have run leave behind.
RebuildSoFar ==
    /\ step > RemovalSteps + 2 => views["zaps"] \subseteq Derived("zaps")
    /\ step > RemovalSteps + 6 => ~Behind("likes")
    /\ step > RemovalSteps + 7 => ~Behind("profiles")
    /\ step > RemovalSteps + 8 => ~Behind("candidates")

\* What holds in every state, rebuild or not.
TablesInv == TablesTypeOK /\ WritersInOrder /\ RemovedKindsGoTogether /\ RemovalSoFar

\* The constants of the insert, the removal and the rebuild.
LEMMA TablesFacts ==
    /\ SourceOf["likes"] = "tags" /\ SourceOf["zaps"] = "events"
    /\ SourceOf["profiles"] = "events" /\ SourceOf["candidates"] = "tags"
    /\ Len(InsertOrder) = 4 /\ RemovalSteps = 4 /\ LastStep = 13
    /\ \A v \in Views : SourceOf[v] \in Tables /\ Selected(v) \subseteq Events
    /\ \A e \in Events : e \in Removed <=> KindOf[e] \notin Configured
    /\ Removed \subseteq Events /\ Insertable \subseteq Events
    /\ (~OnDemand => Insertable = Events \ Removed)
<1>1. \A v \in Views : Selected(v) \subseteq Events
  BY DEF Views, Selected, OfKinds
<1> QED
  BY <1>1 DEF SourceOf, InsertOrder, RemovalOrder, RemovalSteps, LastStep, RebuildOrder, Views, Tables,
     Removed, Insertable

\* The tables as an earlier run left them (store.go:685-786).
LEMMA TablesStart == InitTables => TablesInv /\ RebuildSoFar
<1> SUFFICES ASSUME InitTables PROVE TablesInv /\ RebuildSoFar
  OBVIOUS
<1>a. PICK E \in SUBSET Events :
         \E T \in SUBSET E : tables = [t \in Tables |-> IF t = "tags" THEN T ELSE E]
  BY DEF InitTables
<1>1. PICK T \in SUBSET E : tables = [t \in Tables |-> IF t = "tags" THEN T ELSE E]
  BY <1>a
<1>2. /\ tables \in [Tables -> SUBSET Events] /\ tables["events"] = E /\ tables["relays"] = E
      /\ tables["tags"] = T
  BY <1>1 DEF Tables
<1>3. \A v \in Views : Derived(v) \subseteq Events /\ Derived("candidates") \subseteq T
  BY <1>2, TablesFacts DEF Derived, Views
<1>4. views \in [Views -> SUBSET Events] /\ views["candidates"] \subseteq T
  BY <1>3 DEF InitTables, Views
<1>5. totals \in [Events -> Nat] /\ step = 0
  BY DEF InitTables
<1>c. writing \in [Writers -> Events \union {None}] /\ next \in [Writers -> 1..4]
  BY DEF InitTables
<1>6. TablesTypeOK
  <2>1. rebuild \in BOOLEAN /\ serving \in BOOLEAN /\ boots = 0 /\ MaxBoots \in Nat
    BY AppViewAssumption DEF InitTables
  <2> QED
    BY <1>2, <1>4, <1>5, <1>c, <2>1, TablesFacts DEF TablesTypeOK
<1>7. WritersInOrder /\ RemovedKindsGoTogether
  BY <1>1, <1>2, <1>4 DEF InitTables, WritersInOrder, RemovedKindsGoTogether
<1>8. RemovalSoFar /\ RebuildSoFar
  BY <1>5, TablesFacts DEF RemovalSoFar, RebuildSoFar
<1> QED
  BY <1>6, <1>7, <1>8 DEF TablesInv

\* A row and what the views make of it (store.go:717-784).
LEMMA StoredRow ==
    ASSUME TablesTypeOK, NEW e \in Events, NEW t \in {"events", "relays", "tags", "zaps"}, Stored(e, t)
    PROVE  /\ tables' \in [Tables -> SUBSET Events] /\ views' \in [Views -> SUBSET Events]
           /\ totals' \in [Events -> Nat]
           /\ \A u \in Tables : tables'[u] = IF u = t THEN tables[u] \union {e} ELSE tables[u]
           /\ \A v \in Views : /\ views[v] \subseteq views'[v] /\ views'[v] \subseteq views[v] \union {e}
                               /\ v # "zaps" => Derived(v)' \subseteq views'[v] \union Derived(v)
           /\ views'["zaps"] = IF t = "zaps" THEN views["zaps"] \union ({e} \intersect Selected("zaps"))
                               ELSE views["zaps"]
<1>1. CASE t = "zaps"
  <2>1. /\ tables' = tables
        /\ views' = [views EXCEPT !["zaps"] = @ \union ({e} \intersect Selected("zaps"))]
        /\ totals' = [totals EXCEPT ![e] = IF e \in Selected("zaps") THEN @ + 1 ELSE @]
    BY <1>1 DEF Stored
  <2>2. "zaps" \in Views /\ "zaps" \notin Tables
    BY DEF Views, Tables
  <2>3. totals' \in [Events -> Nat]
    BY <2>1 DEF TablesTypeOK
  <2>4. \A v \in Views : Derived(v)' = Derived(v)
    BY <2>1 DEF Derived, Selected, OfKinds
  <2> QED
    BY <1>1, <2>1, <2>2, <2>3, <2>4, TablesFacts DEF TablesTypeOK
<1>2. CASE t # "zaps"
  <2>1. /\ tables' = [tables EXCEPT ![t] = @ \union {e}] /\ totals' = totals
        /\ views' = [v \in Views |-> IF v # "zaps" /\ SourceOf[v] = t
                                     THEN views[v] \union ({e} \intersect Selected(v)) ELSE views[v]]
    BY <1>2 DEF Stored
  <2>2. t \in Tables /\ "zaps" \in Views
    BY <1>2 DEF Tables, Views
  <2>3. \A v \in Views : v # "zaps" => Derived(v)' \subseteq views'[v] \union Derived(v)
    <3> SUFFICES ASSUME NEW v \in Views, v # "zaps", NEW x \in Derived(v)', x \notin Derived(v)
                 PROVE  x \in views'[v]
      OBVIOUS
    <3>1. x \in tables'[SourceOf[v]] /\ x \in Selected(v) /\ x \notin tables[SourceOf[v]]
      BY DEF Derived, Selected, OfKinds
    <3>2. SourceOf[v] = t /\ x = e
      BY <2>1, <2>2, <3>1, TablesFacts DEF TablesTypeOK
    <3> QED
      BY <2>1, <3>1, <3>2
  <2> QED
    BY <1>2, <2>1, <2>2, <2>3, TablesFacts DEF TablesTypeOK
<1> QED
  BY <1>1, <1>2

\* Inserts, of kinds that stay, disturb neither the removal nor the rebuild.
LEMMA TablesWriters ==
    ASSUME ~OnDemand, TablesInv, NEW w \in Writers, BeginInsert(w) \/ Send(w) \/ SendFails(w)
    PROVE  TablesInv' /\ (RebuildSoFar => RebuildSoFar')
<1> USE TablesFacts, AppViewAssumption
<1>1. CASE BeginInsert(w) \/ SendFails(w)
  <2>1. UNCHANGED <<rows, starter>>
    BY <1>1 DEF BeginInsert, SendFails
  <2>2. /\ writing' \in [Writers -> Events \union {None}] /\ next' \in [Writers -> 1..4]
        /\ \A x \in Writers \ {w} : writing'[x] = writing[x] /\ next'[x] = next[x]
        /\ writing'[w] = None \/ (writing'[w] \in Insertable /\ next'[w] = 1)
    BY <1>1 DEF BeginInsert, SendFails, TablesInv, TablesTypeOK
  <2>3. TablesTypeOK'
    BY <2>1, <2>2 DEF TablesInv, TablesTypeOK, rows, starter
  <2>4. WritersInOrder'
    BY <2>1, <2>2 DEF TablesInv, WritersInOrder, rows
  <2> QED
    BY <2>1, <2>3, <2>4
    DEF TablesInv, RemovedKindsGoTogether, RemovalSoFar, RebuildSoFar, Behind, Derived, rows, starter
<1>2. CASE Send(w)
  <2>a. PICK e \in Events : /\ e = writing[w] /\ e \notin Removed /\ next[w] \in 1..4
                            /\ next[w] > 1 => e \in tables["events"]
    BY <1>2 DEF Send, TablesInv, TablesTypeOK, WritersInOrder
  <2>2. PICK t \in {"events", "relays", "tags", "zaps"} :
           /\ t = InsertOrder[next[w]] /\ (t = "events" <=> next[w] = 1)
    BY <2>a DEF InsertOrder
  <2>1. e \notin Removed /\ (t # "events" => e \in tables["events"])
    BY <2>a, <2>2
  <2>3. Stored(e, t) /\ UNCHANGED starter
    BY <1>2, <2>a, <2>2 DEF Send
  <2>4. /\ tables' \in [Tables -> SUBSET Events] /\ views' \in [Views -> SUBSET Events]
        /\ totals' \in [Events -> Nat]
        /\ \A u \in Tables : tables'[u] = IF u = t THEN tables[u] \union {e} ELSE tables[u]
        /\ \A v \in Views : /\ views[v] \subseteq views'[v] /\ views'[v] \subseteq views[v] \union {e}
                            /\ v # "zaps" => Derived(v)' \subseteq views'[v] \union Derived(v)
        /\ views'["zaps"] = IF t = "zaps" THEN views["zaps"] \union ({e} \intersect Selected("zaps"))
                            ELSE views["zaps"]
    <3>1. TablesTypeOK /\ Stored(e, t) /\ t \in {"events", "relays", "tags", "zaps"}
      BY <2>2, <2>3 DEF TablesInv
    <3> HIDE TablesFacts, AppViewAssumption
    <3> QED
      BY <3>1, StoredRow, ZenonT(60)
  <2>5. /\ writing' \in [Writers -> Events \union {None}] /\ next' \in [Writers -> 1..4]
        /\ \A x \in Writers \ {w} : writing'[x] = writing[x] /\ next'[x] = next[x]
        /\ writing'[w] \in {None, e}
    BY <1>2, <2>a DEF Send, TablesInv, TablesTypeOK
  <2>6. TablesTypeOK'
    BY <2>3, <2>4, <2>5 DEF TablesInv, TablesTypeOK, starter
  <2>7. e \in tables'["events"] /\ tables["events"] \subseteq tables'["events"]
    BY <2>1, <2>4 DEF Tables, TablesInv, TablesTypeOK
  <2>8. WritersInOrder'
    BY <2>1, <2>5, <2>7 DEF TablesInv, WritersInOrder
  <2>9. /\ \A u \in Tables : tables'[u] \intersect Removed = tables[u] \intersect Removed
        /\ \A v \in Views : views'[v] \intersect Removed = views[v] \intersect Removed
    BY <2>1, <2>4
  <2>10. RemovedKindsGoTogether' /\ RemovalSoFar'
    BY <2>3, <2>9 DEF TablesInv, RemovedKindsGoTogether, RemovalSoFar, Tables, Views, starter
  <2>11. RebuildSoFar => RebuildSoFar'
    <3>1. \A v \in Views : v # "zaps" /\ ~Behind(v) => ~Behind(v)'
      BY <2>4 DEF Behind
    <3>2. views["zaps"] \subseteq Derived("zaps") => views'["zaps"] \subseteq Derived("zaps")'
      BY <2>1, <2>2, <2>4, <2>7 DEF Derived
    <3> QED
      BY <2>3, <3>1, <3>2 DEF RebuildSoFar, starter, Views
  <2> QED
    BY <2>6, <2>8, <2>10, <2>11 DEF TablesInv
<1> QED
  BY <1>1, <1>2

\* The statements of a start: four of the removal (retention.go:96-110) and nine of the
\* rebuild (store.go:573-620), which first only truncates and then only fills.
LEMMA StatementEffect ==
    ASSUME TablesTypeOK, step # 0, Statement
    PROVE  /\ tables' \in [Tables -> SUBSET Events] /\ views' \in [Views -> SUBSET Events]
           /\ totals' \in [Events -> Nat]
           /\ step = 1 => /\ tables' = [tables EXCEPT !["relays"] = @ \ (Removed \intersect tables["events"])]
                          /\ views' = views
           /\ step = 2 => tables' = tables /\ views' = [views EXCEPT !["candidates"] = @ \ Removed]
           /\ step = 3 => tables' = [tables EXCEPT !["tags"] = @ \ Removed] /\ views' = views
           /\ step = 4 => tables' = [tables EXCEPT !["events"] = @ \ Removed] /\ views' = views
           /\ step > 4 => tables' = tables /\ \A v \in Views : views'[v] \subseteq views[v] \union Derived(v)
           /\ step = 6 => views'["zaps"] = {}
           /\ step \in 7..12 => views'["zaps"] = views["zaps"]
           /\ step > 9 => \A v \in Views : views[v] \subseteq views'[v]
           /\ step = 10 => Derived("likes") \subseteq views'["likes"]
           /\ step = 11 => Derived("profiles") \subseteq views'["profiles"]
           /\ step = 12 => Derived("candidates") \subseteq views'["candidates"]
           /\ step = 13 => /\ Derived("zaps") \subseteq views'["zaps"]
                           /\ \A e \in Derived("zaps") : totals'[e] > 0
<1> USE TablesFacts
<1>0. step \in 1..13 /\ \A v \in Views : Derived(v) \subseteq Events
  BY DEF Derived, TablesTypeOK
<1>1. CASE step <= 4
  <2>1. /\ step = 1 => RemovalOrder[step] = "relays"
        /\ step = 2 => RemovalOrder[step] = "candidates"
        /\ step = 3 => RemovalOrder[step] = "tags"
        /\ step = 4 => RemovalOrder[step] = "events"
    BY DEF RemovalOrder
  <2>2. Remove(RemovalOrder[step]) /\ totals' = totals
    BY <1>1 DEF Statement
  <2>3. CASE step = 1
    BY <2>1, <2>2, <2>3 DEF Remove, TablesTypeOK
  <2>4. CASE step = 2
    BY <2>1, <2>2, <2>4 DEF Remove, TablesTypeOK
  <2>5. CASE step = 3
    BY <2>1, <2>2, <2>5 DEF Remove, TablesTypeOK
  <2>6. CASE step = 4
    BY <2>1, <2>2, <2>6 DEF Remove, TablesTypeOK
  <2> QED
    BY <1>0, <1>1, <2>3, <2>4, <2>5, <2>6
<1>2. CASE step \in 5..9
  <2>1. PICK v \in Views \union {"totals"} : Truncate(v) /\ (v = "zaps" <=> step = 6)
    <3>1. RebuildOrder[step - 4][1] = "truncate"
      BY <1>2 DEF RebuildOrder
    <3>2. Truncate(RebuildOrder[step - 4][2])
      BY <1>2, <3>1 DEF Statement
    <3>3. /\ RebuildOrder[step - 4][2] \in {"likes", "zaps", "totals", "profiles", "candidates"}
          /\ RebuildOrder[step - 4][2] = "zaps" <=> step = 6
      BY <1>2 DEF RebuildOrder
    <3> QED
      BY <3>2, <3>3 DEF Views
  <2>2. tables' = tables
    BY <1>2 DEF Statement
  <2>3. CASE v = "totals"
    BY <1>2, <2>1, <2>2, <2>3 DEF Truncate, TablesTypeOK, Views
  <2>4. CASE v # "totals"
    <3>1. views' = [views EXCEPT ![v] = {}] /\ totals' = totals
      BY <2>1, <2>4 DEF Truncate
    <3> QED
      BY <1>2, <2>1, <2>2, <2>4, <3>1 DEF TablesTypeOK, Views
  <2> QED
    BY <2>3, <2>4
<1>3. CASE step \in 10..13
  <2>1. PICK v \in Views : /\ Fill(v) /\ (v = "likes" <=> step = 10) /\ (v = "profiles" <=> step = 11)
                           /\ (v = "candidates" <=> step = 12) /\ (v = "zaps" <=> step = 13)
    <3>1. RebuildOrder[step - 4][1] = "fill"
      BY <1>3 DEF RebuildOrder
    <3>2. Fill(RebuildOrder[step - 4][2])
      BY <1>3, <3>1 DEF Statement
    <3>3. /\ step = 10 => RebuildOrder[step - 4][2] = "likes"
          /\ step = 11 => RebuildOrder[step - 4][2] = "profiles"
          /\ step = 12 => RebuildOrder[step - 4][2] = "candidates"
          /\ step = 13 => RebuildOrder[step - 4][2] = "zaps"
      BY DEF RebuildOrder
    <3> QED
      BY <1>3, <3>2, <3>3 DEF Views
  <2>2. tables' = tables
    BY <1>3 DEF Statement
  <2>3. views' = [views EXCEPT ![v] = @ \union Derived(v)]
    BY <2>1 DEF Fill
  <2>4. views' \in [Views -> SUBSET Events]
    BY <1>0, <2>3 DEF TablesTypeOK
  <2>5. totals' \in [Events -> Nat] /\ (v = "zaps" => \A e \in Derived("zaps") : totals'[e] > 0)
    <3>1. CASE v = "zaps"
      <4>1. totals' = [e \in Events |-> totals[e] + (IF e \in Derived("zaps") THEN 1 ELSE 0)]
        BY <2>1, <3>1 DEF Fill
      <4>2. Derived("zaps") \subseteq Events
        BY <1>0 DEF Views
      <4> QED
        BY <4>1, <4>2 DEF TablesTypeOK
    <3>2. CASE v # "zaps"
      BY <2>1, <3>2 DEF Fill, TablesTypeOK
    <3> QED
      BY <3>1, <3>2
  <2>6. \A u \in Views : views'[u] = IF u = v THEN views[u] \union Derived(u) ELSE views[u]
    BY <2>3 DEF TablesTypeOK
  <2>7. "likes" \in Views /\ "profiles" \in Views /\ "candidates" \in Views /\ "zaps" \in Views
    BY DEF Views
  <2> QED
    BY <1>3, <2>1, <2>2, <2>4, <2>5, <2>6, <2>7 DEF TablesTypeOK
<1> QED
  BY <1>0, <1>1, <1>2, <1>3

\* No step of a start, nor its end at any statement, disturbs either.
LEMMA TablesStarter ==
    ASSUME TablesInv, Boot \/ RunStatement \/ StatementFails \/ Stop
    PROVE  TablesInv' /\ (RebuildSoFar => RebuildSoFar')
<1> USE TablesFacts, AppViewAssumption
<1>1. CASE Boot \/ StatementFails \/ Stop
  <2>1. UNCHANGED <<rows, writers>> /\ step' \in {0, 1} /\ rebuild' \in BOOLEAN /\ serving' \in BOOLEAN
    <3>1. CASE Boot
      BY <3>1 DEF Boot, NeedsRebuild, TablesInv, TablesTypeOK
    <3>2. CASE StatementFails \/ Stop
      BY <3>2 DEF StatementFails, Stop, TablesInv, TablesTypeOK
    <3> QED
      BY <1>1, <3>1, <3>2
  <2>2. boots' \in 0..MaxBoots
    <3>1. boots \in 0..MaxBoots /\ (boots' = boots \/ (boots < MaxBoots /\ boots' = boots + 1))
      BY <1>1 DEF Boot, StatementFails, Stop, TablesInv, TablesTypeOK
    <3> QED
      BY <3>1
  <2> QED
    BY <2>1, <2>2 DEF TablesInv, TablesTypeOK, WritersInOrder, RemovedKindsGoTogether, RemovalSoFar,
        RebuildSoFar, rows, writers
<1>2. CASE RunStatement
  <2>1. /\ step \in 1..13 /\ Statement /\ UNCHANGED <<writers, rebuild, boots>>
        /\ step' = 0 \/ step' = step + 1
        /\ step' \in 0..13 /\ serving' \in BOOLEAN
        /\ step = 13 => step' = 0
    <3>1. step \in 1..13 /\ Statement /\ UNCHANGED <<writers, rebuild, boots>>
      BY <1>2 DEF RunStatement, TablesInv, TablesTypeOK
    <3>2. IsLast(step) \in BOOLEAN /\ (step = 13 => IsLast(step)) /\ serving' = IsLast(step)
      BY <1>2 DEF RunStatement, IsLast
    <3>3. step' = IF IsLast(step) THEN 0 ELSE step + 1
      BY <1>2 DEF RunStatement
    <3> QED
      BY <3>1, <3>2, <3>3
  <2> DEFINE effect ==
       /\ tables' \in [Tables -> SUBSET Events] /\ views' \in [Views -> SUBSET Events]
       /\ totals' \in [Events -> Nat]
       /\ step = 1 => /\ tables' = [tables EXCEPT !["relays"] = @ \ (Removed \intersect tables["events"])]
                      /\ views' = views
       /\ step = 2 => tables' = tables /\ views' = [views EXCEPT !["candidates"] = @ \ Removed]
       /\ step = 3 => tables' = [tables EXCEPT !["tags"] = @ \ Removed] /\ views' = views
       /\ step = 4 => tables' = [tables EXCEPT !["events"] = @ \ Removed] /\ views' = views
       /\ step > 4 => tables' = tables /\ \A v \in Views : views'[v] \subseteq views[v] \union Derived(v)
       /\ step = 6 => views'["zaps"] = {}
       /\ step \in 7..12 => views'["zaps"] = views["zaps"]
       /\ step > 9 => \A v \in Views : views[v] \subseteq views'[v]
       /\ step = 10 => Derived("likes") \subseteq views'["likes"]
       /\ step = 11 => Derived("profiles") \subseteq views'["profiles"]
       /\ step = 12 => Derived("candidates") \subseteq views'["candidates"]
  <2>2. effect
    BY <2>1, StatementEffect DEF TablesInv
  <2>3. TablesTypeOK'
    BY <2>1, <2>2 DEF TablesInv, TablesTypeOK, writers
  <2>4. /\ tables \in [Tables -> SUBSET Events] /\ views \in [Views -> SUBSET Events]
        /\ "events" \in Tables /\ "relays" \in Tables /\ "tags" \in Tables
        /\ "likes" \in Views /\ "profiles" \in Views /\ "candidates" \in Views /\ "zaps" \in Views
    BY DEF TablesInv, TablesTypeOK, Tables, Views
  <2>5. tables["events"] \ Removed \subseteq tables'["events"]
    BY <2>1, <2>2, <2>4
  <2>6. WritersInOrder'
    BY <2>1, <2>5 DEF TablesInv, WritersInOrder, writers
  <2>7. /\ tables'["relays"] \subseteq tables["relays"] /\ tables'["tags"] \subseteq tables["tags"]
        /\ tables'["events"] \subseteq tables["events"] /\ (step # 4 => tables'["events"] = tables["events"])
        /\ views'["candidates"] \intersect Removed \subseteq
                (views["candidates"] \union tables["tags"]) \intersect Removed
        /\ step <= 4 => views'["candidates"] \subseteq views["candidates"]
    BY <2>1, <2>2, <2>4 DEF Derived
  <2>8. RemovalSoFar'
    BY <2>1, <2>2, <2>4, <2>7 DEF TablesInv, RemovalSoFar, RemovedKindsGoTogether
  <2>9. RemovedKindsGoTogether'
    <3>1. CASE step = 4
      BY <2>1, <2>7, <3>1 DEF TablesInv, RemovalSoFar, RemovedKindsGoTogether
    <3>2. CASE step # 4
      BY <2>1, <2>7, <3>2 DEF TablesInv, RemovedKindsGoTogether
    <3> QED
      BY <3>1, <3>2
  <2>10. RebuildSoFar => RebuildSoFar'
    <3>1. step > 4 => \A v \in Views : Derived(v)' = Derived(v)
      BY <2>2 DEF Derived, Selected, OfKinds
    <3>2. step > 9 => \A v \in Views : ~Behind(v) => ~Behind(v)'
      BY <2>1, <2>2, <3>1 DEF Behind
    <3>3. /\ step = 10 => ~Behind("likes")'
          /\ step = 11 => ~Behind("profiles")'
          /\ step = 12 => ~Behind("candidates")'
      BY <2>2, <2>4, <3>1 DEF Behind
    <3>4. CASE step' > 10
      <4>1. step \in 10..12 /\ step' = step + 1
        BY <2>1, <3>4
      <4>2. views'["zaps"] = views["zaps"] /\ Derived("zaps")' = Derived("zaps")
        BY <2>2, <2>4, <3>1, <4>1
      <4>0. RebuildSoFar => /\ step > 6 => views["zaps"] \subseteq Derived("zaps")
                            /\ step > 10 => ~Behind("likes")
        <5> HIDE AppViewAssumption
        <5> QED
          BY DEF RebuildSoFar
      <4> HIDE TablesFacts, AppViewAssumption
      <4>3. ASSUME RebuildSoFar PROVE views'["zaps"] \subseteq Derived("zaps")'
        <5>1. views["zaps"] \subseteq Derived("zaps")
          BY <4>0, <4>1, <4>3
        <5> QED
          BY <4>2, <5>1
      <4>4. ASSUME RebuildSoFar PROVE ~Behind("likes")'
        <5>1. CASE step = 10
          BY <3>3, <5>1
        <5>2. CASE step > 10
          <6>1. ~Behind("likes")
            BY <4>0, <4>4, <5>2
          <6> QED
            BY <2>4, <3>2, <4>1, <5>2, <6>1
        <5> QED
          BY <4>1, <5>1, <5>2
      <4> USE TablesFacts, AppViewAssumption
      <4>5. ASSUME RebuildSoFar, step > 10 PROVE ~Behind("profiles")'
        BY <2>4, <3>2, <3>3, <4>1, <4>5 DEF RebuildSoFar
      <4>6. ASSUME RebuildSoFar, step > 11 PROVE ~Behind("candidates")'
        BY <2>4, <3>2, <3>3, <4>1, <4>6 DEF RebuildSoFar
      <4> QED
        BY <4>1, <4>3, <4>4, <4>5, <4>6 DEF RebuildSoFar
    <3>5. CASE step' <= 10
      BY <2>1, <2>2, <2>4, <3>1, <3>5 DEF RebuildSoFar
    <3> QED
      BY <2>1, <3>4, <3>5
  <2> QED
    BY <2>3, <2>6, <2>8, <2>9, <2>10 DEF TablesInv
<1> QED
  BY <1>1, <1>2

\* Every step keeps both parts of the invariant.
LEMMA TablesStep ==
    ~OnDemand /\ TablesInv /\ RebuildSoFar /\ [TablesNext]_tableVars => TablesInv' /\ RebuildSoFar'
<1> SUFFICES ASSUME ~OnDemand, TablesInv, RebuildSoFar, [TablesNext]_tableVars
             PROVE  TablesInv' /\ RebuildSoFar'
  OBVIOUS
<1>1. CASE UNCHANGED tableVars
  BY <1>1 DEF tableVars, rows, writers, starter, TablesInv, TablesTypeOK, WritersInOrder,
      RemovedKindsGoTogether, RemovalSoFar, RebuildSoFar, Behind, Derived
<1>2. CASE TablesNext
  BY <1>2, TablesWriters, TablesStarter DEF TablesNext
<1> QED
  BY <1>1, <1>2

\* The next start finds by its event row whatever a removal that was interrupted has left
\* of a removed kind, if nobody fetches events of such kinds meanwhile (retention.go:96-110).
THEOREM RemovedGoTogether == ASSUME ~OnDemand PROVE TablesSpec => []RemovedKindsGoTogether
<1>1. TablesInv => RemovedKindsGoTogether
  BY DEF TablesInv
<1>2. TablesInv /\ RebuildSoFar /\ [TablesNext]_tableVars => TablesInv' /\ RebuildSoFar'
  BY TablesStep
<1> QED
  BY <1>1, <1>2, TablesStart, PTL DEF TablesSpec

\* A rebuild ends with views that are as full as their tables (store.go:571-636).
LEMMA RebuildEnd == TablesInv /\ RebuildSoFar => RebuildCompletes
<1> SUFFICES ASSUME TablesInv, RebuildSoFar PROVE RebuildCompletes
  OBVIOUS
<1> SUFFICES ASSUME RunStatement, step = 13
             PROVE  /\ \A v \in Views : ~Behind(v)'
                    /\ \A e \in views'["zaps"] : totals'[e] > 0
  BY TablesFacts DEF RebuildCompletes
<1>1. Statement /\ TablesTypeOK
  BY DEF RunStatement, TablesInv
<1>2. /\ tables' = tables /\ \A v \in Views : views[v] \subseteq views'[v]
      /\ views'["zaps"] \subseteq views["zaps"] \union Derived("zaps")
      /\ Derived("zaps") \subseteq views'["zaps"]
      /\ \A e \in Derived("zaps") : totals'[e] > 0
  BY <1>1, StatementEffect DEF Views
<1>3. \A v \in Views : Derived(v)' = Derived(v)
  BY <1>2 DEF Derived, Selected, OfKinds
<1>4. views["zaps"] \subseteq Derived("zaps") /\ \A v \in Views : v # "zaps" => ~Behind(v)
  BY TablesFacts DEF RebuildSoFar, Views
<1> QED
  BY <1>2, <1>3, <1>4 DEF Behind, Views

\* The same of every rebuild of every start, also of a standalone ingester's.
THEOREM RebuildsComplete == ASSUME ~OnDemand PROVE TablesSpec => [][RebuildCompletes]_tableVars
<1>1. TablesInv /\ RebuildSoFar /\ [TablesNext]_tableVars => TablesInv' /\ RebuildSoFar'
  BY TablesStep
<1> QED
  BY <1>1, RebuildEnd, TablesStart, PTL DEF TablesSpec

\* Before it consumes, an ingester in the API's process has removed all rows of the kinds
\* it is not configured for, and a rebuild that ends leaves no view behind its table
\* (store.go:571-636, retention.go:21-57).
THEOREM StartsComplete == ASSUME ~OnDemand, InProcess PROVE TablesSpec => StartCompletes
<1>1. TablesInv /\ RebuildSoFar /\ [TablesNext]_tableVars => TablesInv' /\ RebuildSoFar'
  BY TablesStep
<1>2. ASSUME TablesInv, TablesNext PROVE ServesConfiguredKindsOnly
  <2> SUFFICES ASSUME ~serving, serving'
               PROVE  (tables'["events"] \union tables'["relays"] \union tables'["tags"] 
                         \union views'["candidates"]) \intersect Removed = {}
    BY DEF ServesConfiguredKindsOnly, Removed
  <2>1. Boot \/ RunStatement
    BY <1>2 DEF TablesNext, BeginInsert, Send, SendFails, starter, StatementFails, Stop
  <2>2. CASE Boot
    <3>1. tables' = tables /\ views' = views /\ tables["events"] \intersect Removed = {}
      BY <2>2 DEF Boot, rows
    <3>2. (tables["relays"] \union tables["tags"] \union views["candidates"]) \intersect Removed
             \subseteq tables["events"]
      BY <1>2 DEF TablesInv, RemovedKindsGoTogether
    <3> QED
      BY <3>1, <3>2
  <2>3. CASE RunStatement
    <3>1. step = 13 \/ step = 4
      BY <1>2, <2>3, TablesFacts DEF RunStatement, IsLast, TablesInv, TablesTypeOK
    <3>2. Statement /\ TablesTypeOK
      BY <1>2, <2>3 DEF RunStatement, TablesInv
    <3>3. /\ tables'["relays"] \subseteq tables["relays"] /\ tables'["tags"] \subseteq tables["tags"]
          /\ tables'["events"] \intersect Removed = {}
          /\ views'["candidates"] \subseteq views["candidates"] \union tables["tags"]
      BY <1>2, <3>1, <3>2, TablesFacts, StatementEffect
      DEF TablesInv, RemovalSoFar, TablesTypeOK, Derived, Tables, Views
    <3> QED
      BY <1>2, <3>1, <3>3 DEF TablesInv, RemovalSoFar
  <2> QED
    BY <2>1, <2>2, <2>3
<1>4. TablesInv /\ RebuildSoFar /\ [TablesNext]_tableVars
        => [ServesConfiguredKindsOnly /\ RebuildCompletes]_tableVars
  BY <1>2, RebuildEnd
<1> QED
  BY <1>1, <1>4, TablesStart, PTL DEF TablesSpec, StartCompletes

-----------------------------------------------------------------------------
(* Enrichment *)

Working == {"process", "tags", "metrics", "save"}

\* Nothing that a batch goes past is left out of it.
NoGap(r) == \A e \in stored \ missed, d \in batch[r] :
                (from[r] < Rank[e] /\ Rank[e] <= Rank[d]) => e \in batch[r]

Written(r, t) == \A e \in batch[r] \intersect Wanting(t) : e \in derived[t]

EnrichInv ==
    /\ EnrichmentTypeOK
    /\ IsFiniteSet(stored)
    /\ NothingSkipped
    /\ \A r \in Runners : /\ CoveredTo(from[r])
                          /\ place[r] \notin Working => batch[r] = {}
                          /\ NoGap(r)
                          /\ place[r] \in {"metrics", "save"} => Written(r, "derived_tags")
                          /\ place[r] = "save" => Written(r, "derived_metrics")

-----------------------------------------------------------------------------
(* Lemmas *)

\* Of a finite set of stored events, the first ones have no gap (FetchEnrichmentEvents).
LEMMA FirstHaveNoGap ==
    ASSUME NEW c \in Nat, IsFiniteSet(stored), stored \subseteq TaskEvents,
           NEW e \in After(c), NEW d \in Fetched(c), Rank[e] <= Rank[d]
    PROVE  e \in Fetched(c)
<1> DEFINE below(x) == {y \in After(c) : Rank[y] < Rank[x]}
<1>1. After(c) \subseteq stored /\ d \in After(c)
  BY DEF After, Fetched
<1>2. IsFiniteSet(After(c))
  BY <1>1, FS_Subset
<1>3. below(e) \subseteq below(d)
  BY <1>1, EnrichmentAssumption
<1>4. IsFiniteSet(below(d)) /\ IsFiniteSet(below(e))
  BY <1>2, FS_Subset
<1>5. Cardinality(below(e)) <= Cardinality(below(d))
  BY <1>3, <1>4, FS_Subset
<1>6. Cardinality(below(e)) \in Nat /\ Cardinality(below(d)) \in Nat
  BY <1>4, FS_CardinalityType
<1>7. Cardinality(below(d)) < BatchSize
  BY DEF Fetched
<1> QED
  BY <1>5, <1>6, <1>7, EnrichmentAssumption DEF Fetched

\* Rows are only added, so that what was enriched stays so.
LEMMA MoreIsEnriched ==
    ASSUME EnrichmentTypeOK, NEW r \in Runners, NEW t \in DerivedTables, Write(r, t), UNCHANGED <<stored, missed>>
    PROVE  /\ \A u \in DerivedTables : derived[u] \subseteq derived'[u]
           /\ derived'[t] = derived[t] \union ToWrite(batch[r], t)
           /\ \A e \in TaskEvents : Enriched(e) => Enriched(e)'
           /\ \A c : CoveredTo(c) => CoveredTo(c)'
<1>1. /\ \A u \in DerivedTables : derived[u] \subseteq derived'[u]
      /\ derived'[t] = derived[t] \union ToWrite(batch[r], t)
  BY DEF Write, EnrichmentTypeOK
<1>2. \A e \in TaskEvents : Enriched(e) => Enriched(e)'
  BY <1>1 DEF Enriched, Wanting
<1>3. stored \subseteq TaskEvents /\ stored' = stored /\ missed' = missed
  BY DEF EnrichmentTypeOK
<1>4. \A c : CoveredTo(c) => CoveredTo(c)'
  BY <1>2, <1>3 DEF CoveredTo
<1> QED
  BY <1>1, <1>2, <1>4

\* What a runner that has written both tables may save is covered.
LEMMA BatchIsCovered ==
    ASSUME EnrichInv, NEW r \in Runners, place[r] = "save", NEW d \in batch[r]
    PROVE  CoveredTo(Rank[d])
<1> SUFFICES ASSUME NEW e \in stored \ missed, Rank[e] <= Rank[d]
             PROVE  Enriched(e)
  BY DEF CoveredTo
<1>1. e \in TaskEvents /\ d \in TaskEvents /\ Rank[e] \in Nat /\ Rank[d] \in Nat /\ from[r] \in Nat
  BY EnrichmentAssumption DEF EnrichInv, EnrichmentTypeOK
<1>2. CASE Rank[e] <= from[r]
  BY <1>2 DEF EnrichInv, CoveredTo
<1>3. CASE from[r] < Rank[e]
  <2>1. e \in batch[r]
    BY <1>3 DEF EnrichInv, NoGap
  <2>2. \A t \in DerivedTables : Written(r, t)
    BY DEF EnrichInv, DerivedTables
  <2> QED
    BY <2>1, <2>2 DEF Written, Enriched
<1> QED
  BY <1>1, <1>2, <1>3

-----------------------------------------------------------------------------
(* Types *)

LEMMA TypesInit == InitEnrichment => EnrichmentTypeOK
  BY EnrichmentAssumption DEF InitEnrichment, EnrichmentTypeOK

LEMMA TypesNext == EnrichmentTypeOK /\ [EnrichmentNext]_enrichmentVars => EnrichmentTypeOK'
<1> SUFFICES ASSUME EnrichmentTypeOK, [EnrichmentNext]_enrichmentVars PROVE EnrichmentTypeOK'
  OBVIOUS
<1> USE EnrichmentAssumption DEF EnrichmentTypeOK
<1>r. ASSUME NEW r \in Runners, Reset(r)
      PROVE  /\ place' \in [Runners -> {"load", "fetch", "process", "tags", "metrics", "save"}]
             /\ from' \in [Runners -> Nat] /\ batch' \in [Runners -> SUBSET stored]
             /\ computedAt' \in [Runners -> 0..MaxClock]
  BY <1>r DEF Reset
<1>1. ASSUME NEW r \in Runners, Load(r) PROVE EnrichmentTypeOK'
  BY <1>1 DEF Load, database, world
<1>2. ASSUME NEW r \in Runners, Fetch(r) PROVE EnrichmentTypeOK'
  <2>1. CASE After(from[r]) = {}
    BY <1>2, <2>1, <1>r DEF Fetch, database, world
  <2>2. CASE After(from[r]) # {}
    <3>1. Fetched(from[r]) \subseteq stored
      BY DEF Fetched, After
    <3> QED
      BY <1>2, <2>2, <3>1 DEF Fetch, database, world
  <2> QED
    BY <2>1, <2>2
<1>3. ASSUME NEW r \in Runners, Process(r) PROVE EnrichmentTypeOK'
  <2>1. ClockOf(r) \in 0..MaxClock
    BY DEF ClockOf
  <2> QED
    BY <1>3, <2>1 DEF Process, database, world
<1>4. ASSUME NEW r \in Runners, WriteTags(r) PROVE EnrichmentTypeOK'
  BY <1>4 DEF WriteTags, Write, ToWrite, DerivedTables, world
<1>5. ASSUME NEW r \in Runners, WriteMetrics(r) PROVE EnrichmentTypeOK'
  BY <1>5 DEF WriteMetrics, Write, ToWrite, DerivedTables, world
<1>6. ASSUME NEW r \in Runners, Save(r) PROVE EnrichmentTypeOK'
  <2>1. cursor' \in Nat /\ savedAt' \in 0..MaxClock
    BY <1>6 DEF Save, SaveRow
  <2> QED
    BY <1>6, <1>r, <2>1 DEF Save, world
<1>7. ASSUME NEW r \in Runners, Fail(r) PROVE EnrichmentTypeOK'
  BY <1>7, <1>r DEF Fail, database
<1>8. ASSUME NEW e \in TaskEvents, Store(e) PROVE EnrichmentTypeOK'
  BY <1>8 DEF Store, database, run
<1>9. ASSUME Tick PROVE EnrichmentTypeOK'
  BY <1>9 DEF Tick, database, run
<1>10. ASSUME UNCHANGED enrichmentVars PROVE EnrichmentTypeOK'
  BY <1>10 DEF enrichmentVars, database, run, world
<1> QED
  BY <1>1, <1>2, <1>3, <1>4, <1>5, <1>6, <1>7, <1>8, <1>9, <1>10 DEF EnrichmentNext, Progress

-----------------------------------------------------------------------------
(* The invariant *)

\* What a runner may rely on, as it is said in EnrichInv.
RunnerInv(r) ==
    /\ CoveredTo(from[r])
    /\ place[r] \notin Working => batch[r] = {}
    /\ NoGap(r)
    /\ place[r] \in {"metrics", "save"} => Written(r, "derived_tags")
    /\ place[r] = "save" => Written(r, "derived_metrics")

\* Nothing is below the first place.
LEMMA NothingBelowFirst == ASSUME stored \subseteq TaskEvents PROVE CoveredTo(0)
  BY EnrichmentAssumption DEF CoveredTo

LEMMA EnrichInit == InitEnrichment => EnrichInv
<1> SUFFICES ASSUME InitEnrichment PROVE EnrichInv
  OBVIOUS
<1>1. EnrichmentTypeOK
  BY TypesInit
<1>2. IsFiniteSet(stored)
  BY FS_EmptySet DEF InitEnrichment
<1> QED
  BY <1>1, <1>2 DEF EnrichInv, InitEnrichment, NothingSkipped, CoveredTo, NoGap, Working

\* A runner that starts over relies on nothing.
LEMMA ResetRunner ==
    ASSUME EnrichInv, EnrichmentTypeOK', NEW r \in Runners, Reset(r),
           UNCHANGED <<derived, stored, missed>>
    PROVE  \A q \in Runners : RunnerInv(q)'
<1> TAKE q \in Runners
<1>1. CASE q = r
  <2>1. from'[q] = 0 /\ batch'[q] = {} /\ place'[q] = "load"
    BY <1>1 DEF Reset, EnrichInv, EnrichmentTypeOK
  <2>2. CoveredTo(0)'
    BY NothingBelowFirst DEF EnrichInv, EnrichmentTypeOK, CoveredTo, Enriched
  <2> QED
    BY <2>1, <2>2 DEF RunnerInv, NoGap, Written, Working, CoveredTo
<1>2. CASE q # r
  BY <1>2 DEF Reset, EnrichInv, EnrichmentTypeOK, RunnerInv, NoGap, Written, CoveredTo, Enriched
<1> QED
  BY <1>1, <1>2

\* What one runner does to itself leaves the others what they rely on.
LEMMA OthersKeep ==
    ASSUME EnrichInv, NEW r \in Runners, NEW q \in Runners \ {r}, UNCHANGED <<derived, stored, missed>>,
           place'[q] = place[q], from'[q] = from[q], batch'[q] = batch[q]
    PROVE  RunnerInv(q)'
  BY DEF EnrichInv, RunnerInv, NoGap, Written, CoveredTo, Enriched

LEMMA CursorKeeps ==
    ASSUME NothingSkipped, UNCHANGED <<derived, stored, missed, cursor>>
    PROVE  NothingSkipped'
  BY DEF NothingSkipped, CoveredTo, Enriched

LEMMA NextLoad ==
    ASSUME EnrichInv, EnrichmentTypeOK', NEW r \in Runners, Load(r)
    PROVE  EnrichInv'
<1> USE DEF Load, database, world
<1>1. NothingSkipped' /\ IsFiniteSet(stored)'
  BY CursorKeeps DEF EnrichInv
<1>2. RunnerInv(r)'
  BY DEF EnrichInv, EnrichmentTypeOK, RunnerInv, NoGap, Written, Working, NothingSkipped, CoveredTo, Enriched
<1>3. \A q \in Runners \ {r} : RunnerInv(q)'
  BY OthersKeep DEF EnrichInv, EnrichmentTypeOK
<1> QED
  BY <1>1, <1>2, <1>3 DEF EnrichInv, RunnerInv

LEMMA NextFetch ==
    ASSUME EnrichInv, EnrichmentTypeOK', NEW r \in Runners, Fetch(r)
    PROVE  EnrichInv'
<1> USE DEF Fetch, database, world
<1>1. NothingSkipped' /\ IsFiniteSet(stored)'
  BY CursorKeeps DEF EnrichInv
<1>2. CASE After(from[r]) = {}
  BY <1>1, <1>2, ResetRunner DEF EnrichInv, RunnerInv
<1>3. CASE After(from[r]) # {}
  <2>1. /\ place' = [place EXCEPT ![r] = "process"] /\ batch' = [batch EXCEPT ![r] = Fetched(from[r])]
        /\ from' = from
    BY <1>3
  <2>2. from[r] \in Nat /\ stored \subseteq TaskEvents /\ place'[r] = "process" /\ batch'[r] = Fetched(from[r])
    BY <2>1 DEF EnrichInv, EnrichmentTypeOK
  <2>3. NoGap(r)'
    <3> SUFFICES ASSUME NEW e \in stored \ missed, NEW d \in Fetched(from[r]),
                        from[r] < Rank[e], Rank[e] <= Rank[d]
                 PROVE  e \in Fetched(from[r])
      BY <2>1, <2>2 DEF NoGap
    <3>1. e \in After(from[r])
      BY DEF After
    <3> QED
      BY <3>1, <2>2, FirstHaveNoGap DEF EnrichInv
  <2>4. RunnerInv(r)'
    BY <2>1, <2>2, <2>3 DEF EnrichInv, RunnerInv, Working, CoveredTo, Enriched
  <2>5. \A q \in Runners \ {r} : RunnerInv(q)'
    BY <2>1, OthersKeep DEF EnrichInv, EnrichmentTypeOK
  <2> QED
    BY <1>1, <2>4, <2>5 DEF EnrichInv, RunnerInv
<1> QED
  BY <1>2, <1>3

LEMMA NextProcess ==
    ASSUME EnrichInv, EnrichmentTypeOK', NEW r \in Runners, Process(r)
    PROVE  EnrichInv'
<1> USE DEF Process, database, world
<1>1. NothingSkipped' /\ IsFiniteSet(stored)'
  BY CursorKeeps DEF EnrichInv
<1>2. RunnerInv(r)'
  BY DEF EnrichInv, EnrichmentTypeOK, RunnerInv, NoGap, Written, Working, CoveredTo, Enriched
<1>3. \A q \in Runners \ {r} : RunnerInv(q)'
  BY OthersKeep DEF EnrichInv, EnrichmentTypeOK
<1> QED
  BY <1>1, <1>2, <1>3 DEF EnrichInv, RunnerInv

\* A write adds rows, those of the runner's batch, and leads it on.
LEMMA NextWrite ==
    ASSUME EnrichInv, EnrichmentTypeOK', NEW r \in Runners, NEW t \in DerivedTables, Write(r, t),
           UNCHANGED <<cursor, stored, missed, from, batch>>,
           \/ t = "derived_tags" /\ place[r] = "tags" /\ place' = [place EXCEPT ![r] = "metrics"]
           \/ t = "derived_metrics" /\ place[r] = "metrics" /\ place' = [place EXCEPT ![r] = "save"]
    PROVE  EnrichInv'
<1>1. /\ \A u \in DerivedTables : derived[u] \subseteq derived'[u]
      /\ derived'[t] = derived[t] \union ToWrite(batch[r], t)
      /\ \A c : CoveredTo(c) => CoveredTo(c)'
  BY MoreIsEnriched DEF EnrichInv
<1>2. NothingSkipped' /\ IsFiniteSet(stored)'
  BY <1>1 DEF EnrichInv, NothingSkipped
<1>3. Written(r, t)'
  BY <1>1 DEF Written, ToWrite, Wanting
<1>4. \A q \in Runners, u \in DerivedTables : Written(q, u) => Written(q, u)'
  BY <1>1 DEF Written, Wanting
<1>5. "derived_tags" \in DerivedTables /\ "derived_metrics" \in DerivedTables
  BY DEF DerivedTables
<1>6. \A q \in Runners : NoGap(q)' /\ CoveredTo(from[q])'
  BY <1>1 DEF EnrichInv, NoGap
<1>7. RunnerInv(r)'
  BY <1>3, <1>4, <1>5, <1>6 DEF EnrichInv, EnrichmentTypeOK, RunnerInv, Working
<1>8. \A q \in Runners \ {r} : RunnerInv(q)'
  BY <1>4, <1>5, <1>6 DEF EnrichInv, EnrichmentTypeOK, RunnerInv, Working
<1> QED
  BY <1>2, <1>7, <1>8 DEF EnrichInv, RunnerInv

LEMMA NextSave ==
    ASSUME EnrichInv, EnrichmentTypeOK', NEW r \in Runners, Save(r)
    PROVE  EnrichInv'
<1> USE DEF Save, world
<1>1. NothingSkipped'
  <2>1. CASE cursor' = cursor
    BY <2>1, CursorKeeps DEF EnrichInv
  <2>2. CASE cursor' # cursor
    <3>1. PICK d \in batch[r] : cursor' = Rank[d]
      BY <2>2 DEF SaveRow
    <3>2. CoveredTo(Rank[d])
      BY BatchIsCovered
    <3> QED
      BY <3>1, <3>2 DEF NothingSkipped, CoveredTo, Enriched
  <2> QED
    BY <2>1, <2>2
<1>2. \A q \in Runners : RunnerInv(q)'
  BY ResetRunner
<1> QED
  BY <1>1, <1>2 DEF EnrichInv, RunnerInv

\* An event that appears where nothing has passed yet asks nothing of anybody; one that
\* appears later is missed.
LEMMA NextStore ==
    ASSUME EnrichInv, EnrichmentTypeOK', NEW e \in TaskEvents, Store(e)
    PROVE  EnrichInv'
<1> USE DEF Store, database, run
<1>1. IsFiniteSet(stored)'
  BY FS_AddElement DEF EnrichInv
<1>2. stored' \ missed' \subseteq (stored \ missed) \union (IF Overtaken(e) THEN {} ELSE {e})
  BY DEF EnrichInv, EnrichmentTypeOK
<1>3. \A f : Enriched(f)' = Enriched(f)
  BY DEF Enriched
<1>4. NothingSkipped'
  BY <1>2, <1>3, EnrichmentAssumption DEF EnrichInv, EnrichmentTypeOK, NothingSkipped, CoveredTo, Overtaken
<1>5. ASSUME NEW q \in Runners PROVE RunnerInv(q)'
  <2>1. CoveredTo(from[q])'
    BY <1>2, <1>3, EnrichmentAssumption DEF EnrichInv, EnrichmentTypeOK, CoveredTo, Overtaken
  <2>2. NoGap(q)'
    <3> SUFFICES ASSUME NEW f \in (stored \ missed)', NEW d \in batch[q],
                        from[q] < Rank[f], Rank[f] <= Rank[d]
                 PROVE  f \in batch[q]
      BY DEF NoGap
    <3>1. CASE f \in stored \ missed
      BY <3>1 DEF EnrichInv, NoGap
    <3>2. CASE f = e /\ ~Overtaken(e)
      <4>1. d \in TaskEvents /\ Rank[d] = Rank[e]
        BY <3>2, EnrichmentAssumption DEF Overtaken, EnrichInv, EnrichmentTypeOK
      <4> QED
        BY <3>2, <4>1, EnrichmentAssumption
    <3> QED
      BY <1>2, <3>1, <3>2
  <2> QED
    BY <2>1, <2>2 DEF EnrichInv, RunnerInv, Written, Working
<1> QED
  BY <1>1, <1>4, <1>5 DEF EnrichInv, RunnerInv

LEMMA EnrichNext == EnrichInv /\ [EnrichmentNext]_enrichmentVars => EnrichInv'
<1> SUFFICES ASSUME EnrichInv, [EnrichmentNext]_enrichmentVars PROVE EnrichInv'
  OBVIOUS
<1>0. EnrichmentTypeOK'
  BY TypesNext DEF EnrichInv
<1>1. ASSUME NEW r \in Runners, Progress(r) PROVE EnrichInv'
  <2>1. CASE WriteTags(r)
    BY <1>0, <2>1, NextWrite DEF WriteTags, world, DerivedTables
  <2>2. CASE WriteMetrics(r)
    BY <1>0, <2>2, NextWrite DEF WriteMetrics, world, DerivedTables
  <2> QED
    BY <1>0, <1>1, <2>1, <2>2, NextLoad, NextFetch, NextProcess, NextSave DEF Progress
<1>2. ASSUME NEW r \in Runners, Fail(r) PROVE EnrichInv'
  <2>1. NothingSkipped' /\ IsFiniteSet(stored)'
    BY <1>2, CursorKeeps DEF EnrichInv, Fail, database
  <2>2. \A q \in Runners : RunnerInv(q)'
    BY <1>0, <1>2, ResetRunner DEF Fail, database
  <2> QED
    BY <1>0, <2>1, <2>2 DEF EnrichInv, RunnerInv
<1>3. ASSUME UNCHANGED <<database, run, stored, missed>> PROVE EnrichInv'
  BY <1>0, <1>3 DEF EnrichInv, database, run, NothingSkipped, CoveredTo, Enriched, NoGap, Written
<1> QED
  BY <1>0, <1>1, <1>2, <1>3, NextStore DEF EnrichmentNext, Tick, enrichmentVars, world

-----------------------------------------------------------------------------
(* Theorems *)

\* What the enrichment runners rely on holds in every reachable state.
THEOREM EnrichmentInvariant == EnrichmentSpec => []EnrichInv
  BY EnrichInit, EnrichNext, PTL DEF EnrichmentSpec

\* The state and the runners have their types (EnrichmentTypeOK).
THEOREM EnrichmentTypes == EnrichmentSpec => []EnrichmentTypeOK
<1>1. EnrichInv => EnrichmentTypeOK
  BY DEF EnrichInv
<1> QED
  BY <1>1, EnrichmentInvariant, PTL

\* Nothing below the saved cursor was skipped but what came too late, whatever fails,
\* restarts, or saves an old cursor over a new one (RunOnce, SaveEnrichmentState).
THEOREM EnrichmentSkipsNothing == EnrichmentSpec => []NothingSkipped
<1>1. EnrichInv => NothingSkipped
  BY DEF EnrichInv
<1> QED
  BY <1>1, EnrichmentInvariant, PTL

-----------------------------------------------------------------------------
(* The refinement *)

Done == {e \in stored : Enriched(e)}

LEMMA WatermarkInit == InitEnrichment => Worker!WInit
  BY DEF InitEnrichment, Worker!WInit

LEMMA WatermarkStep ==
    EnrichInv /\ [EnrichmentNext]_enrichmentVars => [Worker!WNext]_(Worker!wvars)
<1> SUFFICES ASSUME EnrichInv, [EnrichmentNext]_enrichmentVars PROVE [Worker!WNext]_(Worker!wvars)
  OBVIOUS
<1>1. ASSUME NEW r \in Runners, NEW t \in DerivedTables, Write(r, t), UNCHANGED <<cursor, stored, missed>>
      PROVE  Worker!WFinish
  <2>1. \A e \in TaskEvents : Enriched(e) => Enriched(e)'
    BY <1>1, MoreIsEnriched DEF EnrichInv
  <2>2. Done \subseteq Done' /\ Done' \subseteq stored
    BY <1>1, <2>1 DEF Done, EnrichInv, EnrichmentTypeOK
  <2>3. Done' = Done \union Done'
    BY <2>2
  <2> QED
    BY <1>1, <2>2, <2>3 DEF Worker!WFinish, Done
<1>2. ASSUME UNCHANGED <<derived, stored, missed, cursor>> PROVE UNCHANGED Worker!wvars
  BY <1>2 DEF Worker!wvars, Enriched
<1>3. ASSUME NEW r \in Runners, Save(r) PROVE [Worker!WNext]_(Worker!wvars)
  <2>1. CASE cursor' = cursor
    BY <1>2, <1>3, <2>1 DEF Save, world
  <2>2. CASE cursor' # cursor
    <3>1. PICK d \in batch[r] : cursor' = Rank[d]
      BY <1>3, <2>2 DEF Save, SaveRow
    <3>2. CoveredTo(Rank[d]) /\ d \in stored
      BY <1>3, BatchIsCovered DEF Save, EnrichInv, EnrichmentTypeOK
    <3>3. Worker!CoveredUpTo(Rank[d])
      BY <3>2 DEF CoveredTo, Worker!CoveredUpTo
    <3>4. UNCHANGED <<stored, missed, derived>>
      BY <1>3 DEF Save, world
    <3>5. Done' = Done
      BY <3>4 DEF Done, Enriched
    <3> QED
      BY <3>1, <3>2, <3>3, <3>4, <3>5 DEF Worker!WMove, Worker!WNext, Done
  <2> QED
    BY <2>1, <2>2
<1>4. ASSUME NEW e \in TaskEvents, Store(e) PROVE Worker!WNext
  <2>1. UNCHANGED <<derived, cursor>> /\ e \notin stored /\ stored' = stored \union {e}
    BY <1>4 DEF Store, database
  <2>2. missed' \in {missed, missed \union {e}} /\ (Rank[e] <= cursor => e \in missed')
    BY <1>4 DEF Store, Overtaken
  <2>3. Done' \in {Done, Done \union {e}}
    <3>1. \A f : Enriched(f)' = Enriched(f)
      BY <2>1 DEF Enriched
    <3>2. Done' = IF Enriched(e) THEN Done \union {e} ELSE Done
      BY <2>1, <3>1 DEF Done
    <3> QED
      BY <3>2
  <2>4. Worker!WOffer(e)
    BY <2>1, <2>2, <2>3 DEF Worker!WOffer, Done
  <2> QED
    BY <2>4 DEF Worker!WNext
<1>5. ASSUME NEW r \in Runners, Progress(r) \/ Fail(r) PROVE [Worker!WNext]_(Worker!wvars)
  <2>1. CASE WriteTags(r)
    BY <2>1, <1>1 DEF WriteTags, world, DerivedTables, Worker!WNext
  <2>2. CASE WriteMetrics(r)
    BY <2>2, <1>1 DEF WriteMetrics, world, DerivedTables, Worker!WNext
  <2>3. CASE Load(r) \/ Fetch(r) \/ Process(r) \/ Fail(r)
    BY <2>3, <1>2 DEF Load, Fetch, Process, Fail, database, world
  <2> QED
    BY <1>3, <1>5, <2>1, <2>2, <2>3 DEF Progress
<1>6. ASSUME Tick \/ UNCHANGED enrichmentVars PROVE UNCHANGED Worker!wvars
  BY <1>6, <1>2 DEF Tick, enrichmentVars, database, run, world
<1> QED
  BY <1>4, <1>5, <1>6 DEF EnrichmentNext

\* The runners, whatever they do to each other, are a worker with a persisted cursor
\* (Watermark).
THEOREM EnrichmentKeepsWatermark == EnrichmentSpec => KeepsWatermark
  BY WatermarkInit, WatermarkStep, EnrichmentInvariant, PTL DEF EnrichmentSpec, KeepsWatermark, Worker!WSpec
=============================================================================
