------------------------ MODULE IngestPipelineProofs ------------------------
(***************************************************************************)
(* Proofs about PostCap and IngestPipeline, for any events, authors,       *)
(* limits, batch sizes and numbers of workers, tables and failures.        *)
(***************************************************************************)
EXTENDS IngestPipeline, FiniteSetTheorems, TLAPS

(* The cap: what the counter says of today is no more than what was let through. *)

CountedInv == capDay = day => \A a \in Authors : counts[a] <= today[a]

\* Who has an entry was counted from the first post on, and up to Limit.
EntryInv == \A a \in Authors :
    CountsNow[a] > 0 => Limit > 0 /\ CountsNow[a] <= Limit /\ today[a] = CountsNow[a]

\* Who has posts and no entry came when there was no room; there still is none.
FullInv == \A a \in Authors : CountsNow[a] = 0 /\ today[a] > 0 => CapEntries <= Cardinality(Tracked)

CapInv == CapTypeOK /\ CountedInv /\ DropsOnlyOverCap /\ EntryInv /\ FullInv

LEMMA InitCapInv == InitCap => CapInv
  BY CapAssumption DEF InitCap, CapInv, CapTypeOK, CountedInv, DropsOnlyOverCap, EntryInv, FullInv, CountsNow

LEMMA CountsNowBound ==
    ASSUME CapInv
    PROVE  CountsNow \in [Authors -> Nat] /\ \A a \in Authors : CountsNow[a] <= today[a]
  BY DEF CapInv, CapTypeOK, CountedInv, CountsNow

LEMMA TrackedFinite ==
    IsFiniteSet(Tracked) /\ Cardinality(Tracked) \in Nat
  BY CapAssumption, FS_Subset, FS_CardinalityType DEF Tracked

\* Letting a post through keeps who has an entry and who has none as they are to be.
LEMMA CountedRoom ==
    ASSUME CapInv, NEW a \in Authors, CountsNow' = Counted(a), Limit > 0, ~(CountsNow[a] >= Limit),
           \A b \in Authors : today'[b] = IF b = a THEN today[b] + 1 ELSE today[b]
    PROVE  EntryInv' /\ FullInv'
<1>1. CountsNow \in [Authors -> Nat] /\ today \in [Authors -> Nat] /\ Limit \in Int /\ CapEntries \in Nat
  BY CountsNowBound, CapAssumption DEF CapInv, CapTypeOK
<1>2. EntryInv /\ FullInv
  BY DEF CapInv
<1>3. CASE a \notin Tracked /\ Cardinality(Tracked) >= CapEntries
  <2>1. CountsNow' = CountsNow
    BY <1>3 DEF Counted
  <2>2. Tracked' = Tracked
    BY <2>1 DEF Tracked
  <2>3. CountsNow[a] = 0
    BY <1>1, <1>3 DEF Tracked
  <2>4. EntryInv'
    BY <2>1, <2>3, <1>1, <1>2 DEF EntryInv
  <2>5. FullInv'
    BY <2>1, <2>2, <1>1, <1>2, <1>3, TrackedFinite DEF FullInv
  <2> QED
    BY <2>4, <2>5
<1>4. CASE ~(a \notin Tracked /\ Cardinality(Tracked) >= CapEntries)
  <2>1. CountsNow' = [CountsNow EXCEPT ![a] = @ + 1]
    BY <1>4 DEF Counted
  <2>2. today[a] = CountsNow[a]
    <3>1. CASE CountsNow[a] > 0
      BY <3>1, <1>2 DEF EntryInv
    <3>2. CASE CountsNow[a] = 0
      <4>1. a \notin Tracked
        BY <3>2 DEF Tracked
      <4>2. ~(CapEntries <= Cardinality(Tracked))
        BY <4>1, <1>1, <1>4, TrackedFinite
      <4> QED
        BY <4>2, <3>2, <1>1, <1>2 DEF FullInv
    <3> QED
      BY <3>1, <3>2, <1>1
  <2>3. EntryInv'
    BY <2>1, <2>2, <1>1, <1>2 DEF EntryInv
  <2>4. Tracked' = Tracked \union {a}
    BY <2>1, <1>1 DEF Tracked
  <2>5. Cardinality(Tracked) <= Cardinality(Tracked')
    BY <2>4, TrackedFinite, FS_AddElement, FS_Subset
  <2>6. Cardinality(Tracked') \in Nat
    BY <2>4, TrackedFinite, FS_AddElement, FS_CardinalityType
  <2>7. FullInv'
    BY <2>1, <2>5, <2>6, <1>1, <1>2, TrackedFinite DEF FullInv
  <2> QED
    BY <2>3, <2>7
<1> QED
  BY <1>3, <1>4

\* Counting a post keeps the invariant.
LEMMA CountCapInv ==
    ASSUME CapInv, NEW e \in Events, Count(e), UNCHANGED <<day, exempt, known, restarts>>
    PROVE  CapInv'
<1> DEFINE a == AuthorOf[e]
<1>1. a \in Authors /\ Limit \in Int
  BY CapAssumption
<1>2. CountsNow \in [Authors -> Nat] /\ \A b \in Authors : CountsNow[b] <= today[b]
  BY CountsNowBound
<1>3. today \in [Authors -> Nat] /\ day \in Nat
  BY DEF CapInv, CapTypeOK
<1>4. CASE ~Subject(e)
  BY <1>4 DEF Count, counter, CapInv, CapTypeOK, CountedInv, DropsOnlyOverCap, EntryInv, FullInv, CountsNow, Tracked
<1>5. CASE Subject(e) /\ OverPostCap(e)
  <2>1. capDay' = day /\ counts' = CountsNow /\ capped' = capped \union {a} /\ today' = today
    BY <1>5 DEF Count
  <2>2. CountsNow[a] >= Limit
    BY <1>5 DEF OverPostCap
  <2>3. today[a] >= Limit
    BY <2>2, <1>1, <1>2, <1>3
  <2>4. CapTypeOK'
    BY <2>1, <1>1, <1>2, <1>3 DEF CapInv, CapTypeOK
  <2>5. CountedInv' /\ DropsOnlyOverCap'
    BY <2>1, <2>3, <1>2 DEF CapInv, CountedInv, DropsOnlyOverCap
  <2>6. CountsNow' = CountsNow
    BY <2>1 DEF CountsNow
  <2>7. EntryInv' /\ FullInv'
    BY <2>1, <2>6 DEF CapInv, EntryInv, FullInv, Tracked
  <2> QED
    BY <2>4, <2>5, <2>7 DEF CapInv
<1>6. CASE Subject(e) /\ ~OverPostCap(e)
  <2>1. capDay' = day /\ counts' = Counted(a) /\ capped' = capped
        /\ today' = [today EXCEPT ![a] = @ + 1]
    BY <1>6 DEF Count
  <2>2. Counted(a) \in [Authors -> Nat]
        /\ \A b \in Authors : Counted(a)[b] <= IF b = a THEN CountsNow[b] + 1 ELSE CountsNow[b]
    BY <1>1, <1>2 DEF Counted
  <2>3. today' \in [Authors -> Nat]
        /\ \A b \in Authors : today'[b] = IF b = a THEN today[b] + 1 ELSE today[b]
    BY <2>1, <1>1, <1>3
  <2>4. CapTypeOK'
    BY <2>1, <2>2, <2>3, <1>3 DEF CapInv, CapTypeOK
  <2>5. CountedInv'
    BY <2>1, <2>2, <2>3, <1>2, <1>3 DEF CountedInv
  <2>6. DropsOnlyOverCap'
    BY <2>1, <2>3, <1>1, <1>3 DEF DropsOnlyOverCap, CapInv, CapTypeOK
  <2>7. CountsNow' = Counted(a)
    BY <2>1 DEF CountsNow
  <2>8. Limit > 0 /\ ~(CountsNow[a] >= Limit)
    BY <1>6 DEF Subject, OverPostCap
  <2> HIDE DEF a
  <2>9. EntryInv' /\ FullInv'
    BY <2>3, <2>7, <2>8, <1>1, CountedRoom
  <2> QED
    BY <2>4, <2>5, <2>6, <2>9 DEF CapInv
<1> QED
  BY <1>4, <1>5, <1>6

LEMMA MidnightCapInv == ASSUME CapInv, Midnight PROVE CapInv'
<1>1. day' = day + 1 /\ day' \in 1..MaxDay /\ capDay' = capDay /\ capDay \in 0..day /\ day \in Nat
  BY CapAssumption DEF Midnight, CapInv, CapTypeOK, counter
<1>2. CapTypeOK'
  BY <1>1, CapAssumption DEF Midnight, CapInv, CapTypeOK
<1>3. CountedInv'
  BY <1>1 DEF CountedInv
<1>4. DropsOnlyOverCap'
  BY DEF Midnight, DropsOnlyOverCap
<1>5. CountsNow' = [a \in Authors |-> 0]
  BY <1>1 DEF CountsNow
<1>6. EntryInv' /\ FullInv'
  BY <1>5 DEF Midnight, EntryInv, FullInv
<1> QED
  BY <1>2, <1>3, <1>4, <1>6 DEF CapInv

LEMMA ForgetCapInv == ASSUME CapInv, ForgetCap PROVE CapInv'
<1>1. CapTypeOK'
  BY CapAssumption DEF ForgetCap, CapInv, CapTypeOK
<1>2. CountedInv' /\ DropsOnlyOverCap'
  BY DEF ForgetCap, CapInv, CapTypeOK, CountedInv, DropsOnlyOverCap
<1>3. EntryInv' /\ FullInv'
  BY DEF ForgetCap, EntryInv, FullInv, CountsNow
<1> QED
  BY <1>1, <1>2, <1>3 DEF CapInv

LEMMA TrackerCapInv ==
    ASSUME CapInv, TrackerNext
    PROVE  CapInv'
<1>1. CASE Midnight
  BY <1>1, MidnightCapInv
<1>2. CASE Refresh
  BY <1>2, CapAssumption DEF Refresh, CapInv, CapTypeOK, CountedInv, DropsOnlyOverCap, counter,
         EntryInv, FullInv, CountsNow, Tracked
<1>3. ASSUME NEW a \in Authors, ViewerSeen(a) PROVE CapInv'
  BY <1>3 DEF ViewerSeen, CapInv, CapTypeOK, CountedInv, DropsOnlyOverCap, counter,
         EntryInv, FullInv, CountsNow, Tracked
<1> QED
  BY <1>1, <1>2, <1>3 DEF TrackerNext

LEMMA StutterCapInv == ASSUME CapInv, UNCHANGED capVars PROVE CapInv'
  BY DEF CapInv, CapTypeOK, CountedInv, DropsOnlyOverCap, capVars, counter,
         EntryInv, FullInv, CountsNow, Tracked

-----------------------------------------------------------------------------
(* The pipeline: types.  The workers of a stage hold at most one event each. *)

HeldInv == \A s \in Stages : IsFiniteSet(verifying[s])

Flags == shutdown \in BOOLEAN /\ closed \in BOOLEAN /\ (closed => shutdown)

PipeTypes ==
    /\ in \subseteq Events /\ arrived \subseteq Events
    /\ stage \in 0..(MaxFailures + 1) /\ workers \in [Stages -> 0..Workers]
    /\ verifying \in [Stages -> SUBSET Events] /\ verified \in [Stages -> SUBSET Events]
    /\ \A s \in Stages : Cardinality(verifying[s]) <= workers[s]
    /\ loop \in {"backoff", "run", "insert", "ended"} /\ why \in {"more", "closed", "done"}
    /\ batch \subseteq Events /\ table \in Tables
    /\ stored \in [Tables -> SUBSET Events]
    /\ failures \in 0..MaxFailures /\ abandoned \subseteq Events

Started == VerifyEvents /\ loop \in {"run", "insert"} => stage # 0

LEMMA TypeParts == TypeOK <=> CapTypeOK /\ Flags /\ PipeTypes /\ Started
  BY DEF TypeOK, Flags, PipeTypes, Started

\* While an insert is under way, the earlier tables have the whole batch.
SentInv == loop = "insert" => \A t \in Tables : t < table => batch \subseteq stored[t]

\* The stage that Run reads from keeps all its workers until the shutdown.
StageInv == VerifyEvents /\ stage # 0 /\ ~shutdown => workers[stage] = Workers

\* The insert after which Run returns comes with the shutdown.
LastInv == loop = "insert" /\ why # "more" => shutdown

IngestInv == CapInv /\ Flags /\ PipeTypes /\ Started /\ HeldInv /\ SentInv /\ NothingHalfStored /\ StageInv
             /\ LastInv /\ EndsOnlyOnShutdown

LEMMA InitIngestInv == Init => IngestInv
<1> SUFFICES ASSUME Init PROVE IngestInv
  OBVIOUS
<1>1. CapInv
  BY InitCapInv DEF Init
<1>2. \A s \in Stages : verifying[s] = {} /\ workers[s] = 0
  BY DEF Init, NoEvents
<1>3. HeldInv /\ \A s \in Stages : Cardinality(verifying[s]) <= workers[s]
  BY <1>2, FS_EmptySet DEF HeldInv
<1>4. PipeTypes
  BY <1>3, PipelineAssumption DEF Init, PipeTypes, NoEvents, Tables
<1>6. Flags
  BY DEF Init, Flags
<1>7. Started
  BY DEF Init, Started
<1>5. SentInv /\ NothingHalfStored /\ StageInv /\ LastInv /\ EndsOnlyOnShutdown
  BY DEF Init, SentInv, NothingHalfStored, StageInv, LastInv, EndsOnlyOnShutdown
<1> QED
  BY <1>1, <1>3, <1>4, <1>5, <1>6, <1>7 DEF IngestInv

LEMMA StageFact == 1 \in Stages /\ LastTable \in Tables /\ 1 \in Tables
  BY PipelineAssumption DEF Stages, Tables

(* The steps of the workers change neither batch nor tables. *)

BatchFrame == UNCHANGED <<capVars, run, stored, abandoned>>

LEMMA BatchFrameInv ==
    ASSUME IngestInv, BatchFrame
    PROVE  CapInv' /\ SentInv' /\ NothingHalfStored'
<1>1. CapInv'
  BY StutterCapInv DEF IngestInv, BatchFrame
<1>2. SentInv' /\ NothingHalfStored'
  BY DEF IngestInv, BatchFrame, run, SentInv, NothingHalfStored, Complete
<1> QED
  BY <1>1, <1>2

LEMMA ArriveInv ==
    ASSUME IngestInv, (\E e \in Events : Arrive(e)) \/ Close \/ Shutdown
    PROVE  IngestInv'
<1>1. BatchFrame /\ UNCHANGED pool
  BY DEF Arrive, Close, Shutdown, BatchFrame
<1>2. in' \subseteq Events /\ arrived' \subseteq Events
  BY DEF IngestInv, PipeTypes, Arrive, Close, Shutdown
<1>3. PipeTypes' /\ Started'
  BY <1>1, <1>2 DEF IngestInv, PipeTypes, Started, BatchFrame, pool, run
<1>5. Flags' /\ (shutdown => shutdown')
  <2>1. CASE \E e \in Events : Arrive(e)
    BY <2>1 DEF IngestInv, Flags, Arrive
  <2>2. CASE Close
    BY <2>2 DEF IngestInv, Flags, Close
  <2>3. CASE Shutdown
    BY <2>3 DEF IngestInv, Flags, Shutdown
  <2> QED
    BY <2>1, <2>2, <2>3
<1>4. HeldInv' /\ StageInv' /\ LastInv' /\ EndsOnlyOnShutdown'
  BY <1>1, <1>5 DEF IngestInv, HeldInv, StageInv, LastInv, EndsOnlyOnShutdown, BatchFrame, pool, run
<1> QED
  BY <1>1, <1>3, <1>4, <1>5, BatchFrameInv DEF IngestInv

LEMMA GrabInv ==
    ASSUME IngestInv, NEW s \in Stages, Grab(s)
    PROVE  IngestInv'
<1>1. PICK e \in in :
        /\ Cardinality(verifying[s]) < workers[s]
        /\ in' = in \ {e} /\ verifying' = [verifying EXCEPT ![s] = @ \union {e}]
        /\ UNCHANGED <<capVars, arrived, shutdown, closed, stage, workers, verified, run, stored, abandoned>>
  BY DEF Grab
<1>2. BatchFrame /\ e \in Events
  BY <1>1 DEF BatchFrame, IngestInv, PipeTypes
<1>3. verifying' \in [Stages -> SUBSET Events]
      /\ \A q \in Stages : verifying'[q] = IF q = s THEN verifying[s] \union {e} ELSE verifying[q]
  BY <1>1, <1>2 DEF IngestInv, PipeTypes
<1>4. \A q \in Stages : IsFiniteSet(verifying'[q]) /\ Cardinality(verifying'[q]) <= workers[q]
  <2> TAKE q \in Stages
  <2>1. IsFiniteSet(verifying[q]) /\ Cardinality(verifying[q]) \in Nat
        /\ Cardinality(verifying[q]) <= workers[q] /\ workers[q] \in Nat
    BY FS_CardinalityType, PipelineAssumption DEF IngestInv, HeldInv, PipeTypes
  <2>2. IsFiniteSet(verifying[q] \union {e})
        /\ Cardinality(verifying[q] \union {e}) <= Cardinality(verifying[q]) + 1
    <3>1. /\ IsFiniteSet(verifying[q] \union {e})
          /\ Cardinality(verifying[q] \union {e}) =
                IF e \in verifying[q] THEN Cardinality(verifying[q]) ELSE Cardinality(verifying[q]) + 1
      BY <2>1, FS_AddElement, Zenon
    <3> QED
      BY <2>1, <3>1
  <2>3. Cardinality(verifying[q] \union {e}) \in Nat
    BY <2>2, FS_CardinalityType
  <2>4. CASE q = s
    BY <2>4, <2>1, <2>2, <2>3, <1>1, <1>3
  <2>5. CASE q # s
    BY <2>5, <2>1, <1>3
  <2> QED
    BY <2>4, <2>5
<1>5. PipeTypes' /\ Started'
  BY <1>1, <1>2, <1>3, <1>4 DEF IngestInv, PipeTypes, Started, run
<1>7. Flags'
  BY <1>1 DEF IngestInv, Flags
<1>6. HeldInv' /\ StageInv' /\ LastInv' /\ EndsOnlyOnShutdown'
  BY <1>1, <1>4 DEF IngestInv, HeldInv, StageInv, LastInv, EndsOnlyOnShutdown, run
<1> QED
  BY <1>2, <1>5, <1>6, <1>7, BatchFrameInv DEF IngestInv

\* A worker is done with an event; it stops only after the shutdown.
LEMMA ReleaseInv ==
    ASSUME IngestInv, NEW s \in Stages, Reject(s) \/ Forward(s) \/ WorkerStops(s) \/ WorkerEnds(s)
    PROVE  IngestInv'
<1>1. BatchFrame /\ UNCHANGED <<channel, stage>>
  BY DEF BatchFrame, Reject, Forward, WorkerStops, WorkerEnds
<1>2. PICK D \in SUBSET verifying[s] :
        /\ verifying' = [verifying EXCEPT ![s] = @ \ D]
        /\ \/ workers' = workers
           \/ /\ shutdown /\ workers' = [workers EXCEPT ![s] = @ - 1]
              /\ Cardinality(verifying[s]) < workers[s] \/ D # {}
  <2>1. CASE Reject(s)
    <3>1. PICK e \in verifying[s] :
            verifying' = [verifying EXCEPT ![s] = @ \ {e}] /\ workers' = workers
      BY <2>1 DEF Reject, WorkersAfterReject
    <3>2. {e} \in SUBSET verifying[s]
      OBVIOUS
    <3> WITNESS {e} \in SUBSET verifying[s]
    <3> QED
      BY <3>1
  <2>2. CASE Forward(s)
    <3>1. PICK e \in verifying[s] :
            verifying' = [verifying EXCEPT ![s] = @ \ {e}] /\ workers' = workers
      BY <2>2 DEF Forward
    <3>2. {e} \in SUBSET verifying[s]
      OBVIOUS
    <3> WITNESS {e} \in SUBSET verifying[s]
    <3> QED
      BY <3>1
  <2>3. CASE WorkerStops(s)
    <3>1. PICK e \in verifying[s] : shutdown /\ verifying' = [verifying EXCEPT ![s] = @ \ {e}]
                                    /\ workers' = [workers EXCEPT ![s] = @ - 1]
      BY <2>3 DEF WorkerStops
    <3>2. {e} \in SUBSET verifying[s] /\ {e} # {}
      OBVIOUS
    <3> WITNESS {e} \in SUBSET verifying[s]
    <3> QED
      BY <3>1, <3>2
  <2>4. CASE WorkerEnds(s)
    <3>1. closed /\ Cardinality(verifying[s]) < workers[s] /\ verifying' = verifying
          /\ workers' = [workers EXCEPT ![s] = @ - 1]
      BY <2>4 DEF WorkerEnds
    <3>2. verifying' = [verifying EXCEPT ![s] = @ \ {}]
      BY <3>1 DEF IngestInv, PipeTypes
    <3>3. shutdown
      BY <3>1 DEF IngestInv, Flags
    <3>4. {} \in SUBSET verifying[s]
      OBVIOUS
    <3> WITNESS {} \in SUBSET verifying[s]
    <3> QED
      BY <3>1, <3>2, <3>3
  <2> QED
    BY <2>1, <2>2, <2>3, <2>4
<1>3. verifying' \in [Stages -> SUBSET Events]
      /\ \A q \in Stages : verifying'[q] = IF q = s THEN verifying[s] \ D ELSE verifying[q]
  BY <1>2 DEF IngestInv, PipeTypes
<1>4. \A q \in Stages : /\ IsFiniteSet(verifying[q]) /\ Cardinality(verifying[q]) \in Nat
                        /\ Cardinality(verifying[q]) <= workers[q] /\ workers[q] \in 0..Workers
  BY FS_CardinalityType DEF IngestInv, HeldInv, PipeTypes
<1>5. /\ IsFiniteSet(verifying[s] \ D) /\ Cardinality(verifying[s] \ D) \in Nat
      /\ Cardinality(verifying[s] \ D) <= Cardinality(verifying[s])
      /\ D # {} => Cardinality(verifying[s] \ D) < Cardinality(verifying[s])
  <2>1. verifying[s] \ D \subseteq verifying[s] /\ (D # {} => verifying[s] \ D # verifying[s])
    BY <1>2
  <2> QED
    BY <2>1, <1>4, FS_Subset, FS_CardinalityType
<1>6. /\ workers' \in [Stages -> 0..Workers]
      /\ \A q \in Stages : q # s => workers'[q] = workers[q]
      /\ Cardinality(verifying[s] \ D) <= workers'[s]
  <2>1. CASE workers' = workers
    BY <2>1, <1>4, <1>5 DEF IngestInv, PipeTypes
  <2>2. CASE workers' = [workers EXCEPT ![s] = @ - 1]
             /\ (Cardinality(verifying[s]) < workers[s] \/ D # {})
    <3>1. workers[s] - 1 \in 0..Workers /\ Cardinality(verifying[s] \ D) <= workers[s] - 1
      BY <2>2, <1>4, <1>5, PipelineAssumption
    <3> QED
      BY <2>2, <3>1 DEF IngestInv, PipeTypes
  <2> QED
    BY <1>2, <2>1, <2>2
<1>7. \A q \in Stages : IsFiniteSet(verifying'[q]) /\ Cardinality(verifying'[q]) <= workers'[q]
  BY <1>3, <1>4, <1>5, <1>6
<1>8. verified' \in [Stages -> SUBSET Events]
  BY DEF Reject, Forward, WorkerStops, WorkerEnds, IngestInv, PipeTypes
<1>9. PipeTypes' /\ Started'
  BY <1>1, <1>3, <1>6, <1>7, <1>8 DEF IngestInv, PipeTypes, Started, BatchFrame, run, channel
<1>12. Flags'
  BY <1>1 DEF IngestInv, Flags, channel
<1>10. HeldInv' /\ LastInv' /\ EndsOnlyOnShutdown'
  BY <1>1, <1>7 DEF IngestInv, HeldInv, LastInv, EndsOnlyOnShutdown, BatchFrame, run, channel
<1>11. StageInv'
  <2>1. workers' = workers \/ shutdown
    BY <1>2
  <2> QED
    BY <2>1, <1>1 DEF IngestInv, StageInv, channel
<1> QED
  BY <1>1, <1>9, <1>10, <1>11, <1>12, BatchFrameInv DEF IngestInv

-----------------------------------------------------------------------------
(* The batching goroutine. *)

LEMMA StartRunInv == ASSUME IngestInv, StartRun PROVE IngestInv'
<1>1. loop' = "run" /\ loop = "backoff"
      /\ UNCHANGED <<capVars, channel, verifying, verified, why, batch, table, stored, failures, abandoned>>
  BY DEF StartRun
<1>2. CapInv'
  BY <1>1, StutterCapInv DEF IngestInv
<1>3. Flags'
  BY <1>1 DEF IngestInv, Flags, channel
<1>4. SentInv' /\ NothingHalfStored' /\ HeldInv' /\ LastInv' /\ EndsOnlyOnShutdown'
  BY <1>1 DEF IngestInv, SentInv, NothingHalfStored, HeldInv, LastInv, EndsOnlyOnShutdown, Complete
<1>5. CASE VerifyEvents /\ StageOfRun # stage
  <2>1. stage = 0 /\ stage' = 1 /\ workers' = [workers EXCEPT ![1] = Workers]
    BY <1>5 DEF StartRun, StageOfRun
  <2>2. workers' \in [Stages -> 0..Workers] /\ workers'[1] = Workers
        /\ \A s \in Stages : workers[s] <= workers'[s]
    BY <2>1, StageFact, PipelineAssumption DEF IngestInv, PipeTypes
  <2>3. \A s \in Stages : Cardinality(verifying[s]) \in Nat
    BY FS_CardinalityType DEF IngestInv, HeldInv
  <2>4. \A s \in Stages : Cardinality(verifying[s]) <= workers'[s]
    BY <2>2, <2>3, PipelineAssumption DEF IngestInv, PipeTypes
  <2>5. PipeTypes'
    BY <1>1, <2>1, <2>2, <2>4, PipelineAssumption DEF IngestInv, PipeTypes, channel
  <2>6. Started' /\ StageInv'
    BY <2>1, <2>2 DEF Started, StageInv
  <2> QED
    BY <1>2, <1>3, <1>4, <2>5, <2>6 DEF IngestInv
<1>6. CASE ~(VerifyEvents /\ StageOfRun # stage)
  <2>1. UNCHANGED <<stage, workers>> /\ (VerifyEvents => stage # 0)
    BY <1>6 DEF StartRun, StageOfRun
  <2>2. PipeTypes'
    BY <1>1, <2>1 DEF IngestInv, PipeTypes, channel
  <2>3. Started' /\ StageInv'
    BY <1>1, <2>1 DEF IngestInv, Started, StageInv, channel
  <2> QED
    BY <1>2, <1>3, <1>4, <2>2, <2>3 DEF IngestInv
<1> QED
  BY <1>5, <1>6

LEMMA TakeTypes ==
    ASSUME PipeTypes, NEW e \in Source, TakeFromSource(e), Started, loop = "run"
    PROVE  e \in Events /\ in' \subseteq Events /\ verified' \in [Stages -> SUBSET Events]
<1>1. CASE VerifyEvents
  <2>1. stage \in Stages
    BY <1>1, PipelineAssumption DEF PipeTypes, Stages, Started
  <2> QED
    BY <1>1, <2>1 DEF PipeTypes, Source, TakeFromSource
<1>2. CASE ~VerifyEvents
  BY <1>2 DEF PipeTypes, Source, TakeFromSource
<1> QED
  BY <1>1, <1>2

LEMMA ReceiveInv == ASSUME IngestInv, Receive PROVE IngestInv'
<1>1. PICK e \in Source :
        /\ TakeFromSource(e)
        /\ IF ~VerifyEvents /\ e \in Misshapen
           THEN UNCHANGED <<counter, batch, loop, why, table, abandoned>>
           ELSE /\ Count(e)
                /\ IF OverPostCap(e) THEN UNCHANGED <<batch, loop, why, table, abandoned>>
                   ELSE /\ batch' = batch \union {e} /\ abandoned' = abandoned \ {e}
                        /\ IF BatchIsFull(batch') THEN BeginInsert("more")
                           ELSE UNCHANGED <<loop, why, table>>
        /\ UNCHANGED <<day, exempt, known, restarts, arrived, shutdown, closed, stage, workers,
                       verifying, stored, failures>>
  BY DEF Receive
<1>2. loop = "run"
  BY DEF Receive
<1>3. e \in Events /\ in' \subseteq Events /\ verified' \in [Stages -> SUBSET Events]
  BY <1>1, <1>2, TakeTypes DEF IngestInv
<1>4. CapInv'
  <2>1. CASE UNCHANGED counter
    BY <2>1, <1>1, StutterCapInv DEF capVars, IngestInv
  <2>2. CASE Count(e)
    BY <2>2, <1>1, <1>3, CountCapInv DEF IngestInv
  <2> QED
    BY <1>1, <2>1, <2>2
<1>5. \/ UNCHANGED <<batch, loop, why, table, abandoned>>
      \/ /\ batch' = batch \union {e} /\ abandoned' = abandoned \ {e}
         /\ loop' \in {"run", "insert"} /\ (loop' = "insert" => table' = 1 /\ why' = "more")
         /\ why' \in {"more", why} /\ table' \in {1, table}
  BY <1>1, <1>2 DEF BeginInsert
<1>6. loop' \in {"run", "insert"}
  BY <1>2, <1>5
<1>7. PipeTypes'
  BY <1>1, <1>2, <1>3, <1>5, StageFact DEF IngestInv, PipeTypes
<1>8. Flags'
  BY <1>1 DEF IngestInv, Flags
<1>9. Started' /\ HeldInv' /\ StageInv' /\ LastInv' /\ EndsOnlyOnShutdown'
  BY <1>1, <1>2, <1>5, <1>6 DEF IngestInv, Started, HeldInv, StageInv, LastInv, EndsOnlyOnShutdown
<1>10. SentInv'
  <2> SUFFICES ASSUME loop' = "insert" PROVE table' = 1
    BY PipelineAssumption DEF SentInv, Tables
  <2> QED
    BY <1>2, <1>5
<1>11. NothingHalfStored'
  <2>1. batch \union abandoned \subseteq batch' \union abandoned'
    BY <1>5
  <2> QED
    BY <2>1, <1>1 DEF IngestInv, NothingHalfStored, Complete
<1> QED
  BY <1>4, <1>7, <1>8, <1>9, <1>10, <1>11 DEF IngestInv

\* The source of Run is closed only after the shutdown.
LEMMA ClosedAfterShutdown ==
    ASSUME IngestInv, loop = "run", SourceClosed
    PROVE  shutdown
<1>1. CASE VerifyEvents
  BY <1>1, PipelineAssumption DEF IngestInv, Started, StageInv, SourceClosed
<1>2. CASE ~VerifyEvents
  BY <1>2 DEF IngestInv, Flags, SourceClosed
<1> QED
  BY <1>1, <1>2

LEMMA FlushInv == ASSUME IngestInv, Flush PROVE IngestInv'
<1>1. loop = "run" /\ UNCHANGED <<capVars, channel, pool, batch, stored, failures, abandoned>>
  BY DEF Flush
<1>2. \/ /\ loop' = "insert" /\ table' = 1 /\ why' \in {"more", "closed", "done"}
         /\ why' = "more" \/ SourceClosed \/ shutdown
      \/ loop' = "ended" /\ UNCHANGED <<why, table>> /\ (SourceClosed \/ shutdown)
  BY DEF Flush, Finish, BeginInsert
<1>3. (loop' = "ended" => shutdown) /\ (loop' = "insert" /\ why' # "more" => shutdown)
  BY <1>1, <1>2, ClosedAfterShutdown
<1>4. CapInv'
  BY <1>1, StutterCapInv DEF IngestInv
<1>5. Flags'
  BY <1>1 DEF IngestInv, Flags, channel
<1>6. PipeTypes'
  BY <1>1, <1>2, StageFact DEF IngestInv, PipeTypes, channel, pool
<1>7. Started' /\ HeldInv' /\ StageInv' /\ NothingHalfStored'
  BY <1>1 DEF IngestInv, Started, HeldInv, StageInv, NothingHalfStored, Complete, channel, pool
<1>8. SentInv'
  BY <1>2, PipelineAssumption DEF SentInv, Tables
<1>9. shutdown' = shutdown
  BY <1>1 DEF channel
<1>10. LastInv'
  BY <1>3, <1>9 DEF LastInv
<1>11. EndsOnlyOnShutdown'
  BY <1>3, <1>9 DEF EndsOnlyOnShutdown
<1> QED
  BY <1>4, <1>5, <1>6, <1>7, <1>8, <1>10, <1>11 DEF IngestInv

\* What sending to a table, completely or not at all, leaves in the tables.
LEMMA SentTables ==
    ASSUME PipeTypes, NEW S, S = stored \/ S = Sent
    PROVE  /\ S \in [Tables -> SUBSET Events]
           /\ \A t \in Tables : stored[t] \subseteq S[t] /\ S[t] \subseteq stored[t] \union batch
           /\ S = Sent => batch \subseteq S[table]
  BY DEF PipeTypes, Sent

LEMMA SendInv == ASSUME IngestInv, Send PROVE IngestInv'
<1>1. loop = "insert" /\ stored' = Sent /\ UNCHANGED <<capVars, channel, pool, why, failures, abandoned>>
  BY DEF Send
<1>2. stored' \in [Tables -> SUBSET Events] /\ batch \subseteq stored'[table]
      /\ \A t \in Tables : stored[t] \subseteq stored'[t] /\ stored'[t] \subseteq stored[t] \union batch
  BY <1>1, SentTables DEF IngestInv
<1>3. Complete \subseteq Complete'
  BY <1>2 DEF Complete
<1>4. CapInv'
  BY <1>1, StutterCapInv DEF IngestInv
<1>5. Flags'
  BY <1>1 DEF IngestInv, Flags, channel
<1>6. HeldInv' /\ StageInv'
  BY <1>1 DEF IngestInv, HeldInv, StageInv, channel, pool
<1>7. CASE table < LastTable
  <2>1. table' = table + 1 /\ UNCHANGED <<loop, batch>>
    BY <1>7 DEF Send
  <2>2. table' \in Tables
    BY <1>7, <2>1, PipelineAssumption DEF IngestInv, PipeTypes, Tables
  <2>3. PipeTypes'
    BY <1>1, <1>2, <2>1, <2>2 DEF IngestInv, PipeTypes, channel, pool
  <2>4. Started' /\ LastInv' /\ EndsOnlyOnShutdown'
    BY <1>1, <2>1 DEF IngestInv, Started, LastInv, EndsOnlyOnShutdown, channel, pool
  <2>5. SentInv'
    <3> SUFFICES ASSUME NEW t \in Tables, t < table + 1 PROVE batch \subseteq stored'[t]
      BY <2>1 DEF SentInv
    <3>1. t < table \/ t = table
      BY DEF IngestInv, PipeTypes, Tables
    <3> QED
      BY <3>1, <1>1, <1>2 DEF IngestInv, SentInv
  <2>6. NothingHalfStored'
    BY <1>1, <1>2, <1>3, <2>1 DEF IngestInv, NothingHalfStored
  <2> QED
    BY <1>4, <1>5, <1>6, <2>3, <2>4, <2>5, <2>6 DEF IngestInv
<1>8. CASE ~(table < LastTable)
  <2>1. batch' = {} /\ table' = 1 /\ loop' = IF why = "more" THEN "run" ELSE "ended"
    BY <1>8 DEF Send
  <2>2. \A t \in Tables : t < table \/ t = table
    BY <1>8, PipelineAssumption DEF IngestInv, PipeTypes, Tables
  <2>3. batch \subseteq Complete'
    BY <1>1, <1>2, <2>2 DEF IngestInv, SentInv, Complete, PipeTypes
  <2>4. PipeTypes'
    BY <1>1, <1>2, <2>1, StageFact DEF IngestInv, PipeTypes, channel, pool
  <2>5. Started' /\ SentInv'
    BY <1>1, <2>1 DEF IngestInv, Started, SentInv, pool
  <2>6. NothingHalfStored'
    BY <1>1, <1>2, <1>3, <2>3 DEF IngestInv, NothingHalfStored
  <2>7. LastInv' /\ EndsOnlyOnShutdown'
    BY <1>1, <2>1 DEF IngestInv, LastInv, EndsOnlyOnShutdown, channel
  <2> QED
    BY <1>4, <1>5, <1>6, <2>4, <2>5, <2>6, <2>7 DEF IngestInv
<1> QED
  BY <1>7, <1>8

LEMMA SendFailsInv == ASSUME IngestInv, SendFails PROVE IngestInv'
<1>1. /\ loop = "insert" /\ (stored' = stored \/ stored' = Sent) /\ batch' = batch /\ table' = 1
      /\ UNCHANGED <<capVars, channel, pool, why, abandoned>>
  BY DEF SendFails, BatchAfterFailure
<1>2. loop' \in {"ended", "backoff"} /\ (loop' = "ended" => shutdown)
  BY DEF SendFails
<1>3. failures' \in 0..MaxFailures
  <2>1. CASE Cancelled
    BY <2>1 DEF SendFails, IngestInv, PipeTypes
  <2>2. CASE ~Cancelled
    BY <2>2, PipelineAssumption DEF SendFails, IngestInv, PipeTypes
  <2> QED
    BY <2>1, <2>2
<1>4. stored' \in [Tables -> SUBSET Events]
      /\ \A t \in Tables : stored[t] \subseteq stored'[t] /\ stored'[t] \subseteq stored[t] \union batch
  BY <1>1, SentTables DEF IngestInv
<1>5. CapInv'
  BY <1>1, StutterCapInv DEF IngestInv
<1>6. Flags'
  BY <1>1 DEF IngestInv, Flags, channel
<1>7. PipeTypes'
  BY <1>1, <1>2, <1>3, <1>4, StageFact DEF IngestInv, PipeTypes, channel, pool
<1>8. Started' /\ HeldInv' /\ StageInv' /\ SentInv'
  BY <1>1, <1>2 DEF IngestInv, Started, HeldInv, StageInv, SentInv, channel, pool
<1>9. NothingHalfStored'
  BY <1>1, <1>4 DEF IngestInv, NothingHalfStored, Complete
<1>10. LastInv' /\ EndsOnlyOnShutdown'
  BY <1>1, <1>2 DEF LastInv, EndsOnlyOnShutdown, channel
<1> QED
  BY <1>5, <1>6, <1>7, <1>8, <1>9, <1>10 DEF IngestInv

LEMMA BackoffStopsInv == ASSUME IngestInv, BackoffStops PROVE IngestInv'
<1>1. /\ shutdown /\ loop' = "ended"
      /\ UNCHANGED <<capVars, channel, pool, why, batch, table, stored, failures, abandoned>>
  BY DEF BackoffStops
<1>2. CapInv'
  BY <1>1, StutterCapInv DEF IngestInv
<1>3. Flags'
  BY <1>1 DEF IngestInv, Flags, channel
<1>4. PipeTypes'
  BY <1>1 DEF IngestInv, PipeTypes, channel, pool
<1>5. Started' /\ HeldInv' /\ StageInv' /\ SentInv' /\ NothingHalfStored'
  BY <1>1 DEF IngestInv, Started, HeldInv, StageInv, SentInv, NothingHalfStored, Complete,
     channel, pool
<1>6. LastInv' /\ EndsOnlyOnShutdown'
  BY <1>1 DEF LastInv, EndsOnlyOnShutdown, channel
<1> QED
  BY <1>2, <1>3, <1>4, <1>5, <1>6 DEF IngestInv

LEMMA RestartInv == ASSUME IngestInv, Restart PROVE IngestInv'
<1>1. CapInv'
  BY ForgetCapInv DEF Restart, IngestInv
<1>2. Flags' /\ Started' /\ StageInv' /\ SentInv' /\ LastInv' /\ EndsOnlyOnShutdown'
  BY DEF Restart, Flags, Started, StageInv, SentInv, LastInv, EndsOnlyOnShutdown
<1>3. \A s \in Stages : verifying'[s] = {} /\ workers'[s] = 0
  BY DEF Restart, NoEvents
<1>4. HeldInv' /\ \A s \in Stages : Cardinality(verifying'[s]) <= workers'[s]
  BY <1>3, FS_EmptySet DEF HeldInv
<1>5. PipeTypes'
  BY <1>4, PipelineAssumption DEF Restart, PipeTypes, IngestInv, NoEvents, Tables
<1>6. NothingHalfStored'
  BY DEF Restart, IngestInv, NothingHalfStored, Complete
<1> QED
  BY <1>1, <1>2, <1>4, <1>5, <1>6 DEF IngestInv

LEMMA IdleInv ==
    ASSUME IngestInv, CapInv', UNCHANGED pipeVars
    PROVE  IngestInv'
<1>1. UNCHANGED <<channel, pool, run, stored, abandoned>>
  BY DEF pipeVars
<1>2. Flags'
  BY <1>1 DEF IngestInv, Flags, channel
<1>3. PipeTypes'
  BY <1>1 DEF IngestInv, PipeTypes, channel, pool, run
<1>4. Started' /\ HeldInv' /\ StageInv' /\ SentInv' /\ NothingHalfStored'
  BY <1>1 DEF IngestInv, Started, HeldInv, StageInv, SentInv, NothingHalfStored, Complete,
     channel, pool, run
<1>5. LastInv' /\ EndsOnlyOnShutdown'
  BY <1>1 DEF IngestInv, LastInv, EndsOnlyOnShutdown, channel, run
<1> QED
  BY <1>2, <1>3, <1>4, <1>5 DEF IngestInv

LEMMA NextIngestInv == ASSUME IngestInv, [Next]_vars PROVE IngestInv'
<1>1. CASE TrackerNext /\ UNCHANGED pipeVars
  BY <1>1, TrackerCapInv, IdleInv DEF IngestInv
<1>2. CASE UNCHANGED vars
  BY <1>2, StutterCapInv, IdleInv DEF IngestInv, vars
<1>3. CASE Next /\ ~(TrackerNext /\ UNCHANGED pipeVars)
  BY <1>3, ArriveInv, GrabInv, ReleaseInv, StartRunInv, ReceiveInv, FlushInv, SendInv,
     SendFailsInv, BackoffStopsInv, RestartInv DEF Next
<1> QED
  BY <1>1, <1>2, <1>3

LEMMA IngestInvariant == Spec => []IngestInv
  BY InitIngestInv, NextIngestInv, PTL DEF Spec

-----------------------------------------------------------------------------
\* Whatever inserts fail, before or after they took effect, and whenever the
\* process stops: an event with a row in one table has its rows in all of them,
\* is still in the batch, or the process died with it (store.go, InsertEvents;
\* pipeline.go, Flush).
THEOREM IngestNothingHalfStored == Spec => []NothingHalfStored
<1>1. IngestInv => NothingHalfStored
  BY DEF IngestInv
<1> QED
  BY <1>1, IngestInvariant, PTL

\* The cap drops a post only after the author's full allowance of this very day
\* (postcap.go, overPostCap): not at midnight, not for want of room, not for what
\* an earlier process or an earlier exemption set had counted.
THEOREM CapDropsOnlyOverCap == Spec => []DropsOnlyOverCap
<1>1. IngestInv => DropsOnlyOverCap
  BY DEF IngestInv, CapInv
<1> QED
  BY <1>1, IngestInvariant, PTL

\* No author gets more than the limit through on a day, from one process, when the
\* counter has room for all authors; and whatever its size, no author who has an entry
\* does (postcap.go, overPostCap).
THEOREM CapHoldsPerProcess == Spec => []CapPerProcess
<1>1. CapInv => CapPerProcess
  <2> SUFFICES ASSUME CapInv, Limit > 0, NEW a \in Authors,
                      CountsNow[a] > 0 \/ Cardinality(Authors) <= CapEntries
               PROVE  today[a] <= Limit
    BY DEF CapPerProcess
  <2>1. CountsNow \in [Authors -> Nat] /\ today \in [Authors -> Nat] /\ Limit \in Int /\ CapEntries \in Nat
    BY CountsNowBound, CapAssumption DEF CapInv, CapTypeOK
  <2>2. CASE CountsNow[a] > 0
    BY <2>1, <2>2 DEF CapInv, EntryInv
  <2>3. CASE CountsNow[a] = 0 /\ Cardinality(Authors) <= CapEntries
    <3>1. Tracked \subseteq Authors /\ a \notin Tracked
      BY <2>3 DEF Tracked
    <3>2. Cardinality(Authors) \in Nat
      BY CapAssumption, FS_CardinalityType
    <3>3. Cardinality(Tracked) <= Cardinality(Authors) /\ Cardinality(Authors) # Cardinality(Tracked)
      BY <3>1, CapAssumption, FS_Subset
    <3>4. ~(CapEntries <= Cardinality(Tracked))
      BY <3>2, <3>3, <2>1, <2>3, TrackedFinite
    <3>5. ~(today[a] > 0)
      BY <3>4, <2>3 DEF CapInv, FullInv
    <3> QED
      BY <3>5, <2>1
  <2> QED
    BY <2>1, <2>2, <2>3
<1>2. IngestInv => CapPerProcess
  BY <1>1 DEF IngestInv
<1> QED
  BY <1>2, IngestInvariant, PTL

\* Consumption only ends for good at a shutdown: the source of Run is not closed
\* before, whatever the relays send (pipeline.go, verifyStage and Run).
THEOREM IngestEndsOnlyOnShutdown == Spec => []EndsOnlyOnShutdown
<1>1. IngestInv => EndsOnlyOnShutdown
  BY DEF IngestInv
<1> QED
  BY <1>1, IngestInvariant, PTL

\* The state stays what Run, verifyStage and overPostCap keep: no worker holds
\* more than one event, Run reads from a stage that was started.
THEOREM IngestTypes == Spec => []TypeOK
<1>1. IngestInv => TypeOK
  BY TypeParts DEF IngestInv, CapInv
<1> QED
  BY <1>1, IngestInvariant, PTL
=============================================================================
