--------------------------- MODULE IngestPipeline ---------------------------
(***************************************************************************)
(* The ingest pipeline: workers that verify, one goroutine that caps and   *)
(* batches, the insert of a batch into several tables, and the loop around *)
(* Run that restarts it after a failed insert.                             *)
(*                                                                         *)
(* Events are the deliveries the firehose puts into the channel.  A send   *)
(* to the database may fail before or after it took effect.  A stage is    *)
(* what verifyStage starts: its workers and their output channel.          *)
(***************************************************************************)
EXTENDS PostCap

CONSTANTS
    Misshapen,    \* events validateShape refuses
    Forged,       \* events whose id, signature or verification fails, or panics
    VerifyEvents, \* NAGG_VERIFY_EVENTS
    Workers,      \* verifyWorkerCount
    BatchSize,
    QueueSize,    \* capacity of the channel from the firehose
    LastTable,    \* InsertEvents sends to tables 1, ..., LastTable in this order
    MaxFailures   \* bound on failed inserts of a process

ASSUME PipelineAssumption ==
    /\ Misshapen \subseteq Events /\ Forged \subseteq Events
    /\ VerifyEvents \in BOOLEAN
    /\ Workers \in Nat \ {0} /\ BatchSize \in Nat \ {0} /\ QueueSize \in Nat \ {0}
    /\ LastTable \in Nat \ {0} /\ MaxFailures \in Nat

VARIABLES
    in,        \* the channel from the firehose
    arrived,   \* events the firehose has delivered in this process
    shutdown,  \* ctx is done
    closed,    \* the firehose has closed the channel
    stage,     \* number of stages started; the last is the one Run reads from
    workers,   \* workers[s]: running workers of stage s
    verifying, \* verifying[s]: events they hold
    verified,  \* verified[s]: the stage's output channel
    loop,      \* "backoff" (also before the first Run), "run", "insert", "ended"
    why,       \* what Flush was called for: "more", "closed" or "done"
    batch,
    table,     \* the table the insert is at
    stored,    \* stored[t]: events with their rows in table t
    failures,  \* failed inserts of this process
    abandoned  \* history: events that were in a batch when the process died

Tables == 1..LastTable
Stages == 1..(MaxFailures + 1)

channel == <<in, arrived, shutdown, closed>>
pool == <<stage, workers, verifying, verified>>
run == <<loop, why, batch, table, failures>>
pipeVars == <<channel, pool, run, stored, abandoned>>
vars == <<capVars, pipeVars>>

NoEvents == [s \in Stages |-> {}]

Init ==
    /\ InitCap
    /\ in = {} /\ arrived = {} /\ shutdown = FALSE /\ closed = FALSE
    /\ stage = 0 /\ workers = [s \in Stages |-> 0]
    /\ verifying = NoEvents /\ verified = NoEvents
    /\ loop = "backoff" /\ why = "more" /\ batch = {} /\ table = 1
    /\ stored = [t \in Tables |-> {}] /\ failures = 0 /\ abandoned = {}

-----------------------------------------------------------------------------
(* The channel and the workers *)

\* External: the firehose delivers an event once per process.
Arrive(e) ==
    /\ ~closed /\ e \notin arrived /\ Cardinality(in) < QueueSize
    /\ in' = in \union {e} /\ arrived' = arrived \union {e}
    /\ UNCHANGED <<capVars, shutdown, closed, pool, run, stored, abandoned>>

\* firehose.Client.Run returns when the context is done.
Close ==
    /\ shutdown /\ ~closed /\ closed' = TRUE
    /\ UNCHANGED <<capVars, in, arrived, shutdown, pool, run, stored, abandoned>>

Grab(s) == \E e \in in :
    /\ Cardinality(verifying[s]) < workers[s]
    /\ in' = in \ {e} /\ verifying' = [verifying EXCEPT ![s] = @ \union {e}]
    /\ UNCHANGED <<capVars, arrived, shutdown, closed, stage, workers, verified, run, stored, abandoned>>

\* verifyEventSafe: the worker survives whatever verification does.
WorkersAfterReject(s) == workers

Reject(s) == \E e \in verifying[s] \intersect (Misshapen \union Forged) :
    /\ verifying' = [verifying EXCEPT ![s] = @ \ {e}]
    /\ workers' = WorkersAfterReject(s)
    /\ UNCHANGED <<capVars, channel, stage, verified, run, stored, abandoned>>

Forward(s) == \E e \in verifying[s] \ (Misshapen \union Forged) :
    /\ Cardinality(verified[s]) < 2 * Workers
    /\ verifying' = [verifying EXCEPT ![s] = @ \ {e}]
    /\ verified' = [verified EXCEPT ![s] = @ \union {e}]
    /\ UNCHANGED <<capVars, channel, stage, workers, run, stored, abandoned>>

\* After shutdown a worker may leave with the event it holds.
WorkerStops(s) == \E e \in verifying[s] \ (Misshapen \union Forged) :
    /\ shutdown
    /\ verifying' = [verifying EXCEPT ![s] = @ \ {e}]
    /\ workers' = [workers EXCEPT ![s] = @ - 1]
    /\ UNCHANGED <<capVars, channel, stage, verified, run, stored, abandoned>>

\* The channel is closed and drained.
WorkerEnds(s) ==
    /\ closed /\ in = {} /\ Cardinality(verifying[s]) < workers[s]
    /\ workers' = [workers EXCEPT ![s] = @ - 1]
    /\ UNCHANGED <<capVars, channel, stage, verifying, verified, run, stored, abandoned>>

-----------------------------------------------------------------------------
(* Run, and the loop around it *)

\* Mutant of StageOfRun: every Run starts a stage of its own.
StagePerRun == stage + 1

\* verifyOnce: the first Run starts the stage, the others find it.
StageOfRun == IF stage = 0 THEN 1 ELSE stage

\* Run begins, for the first time or after the backoff.
StartRun ==
    /\ loop = "backoff" /\ loop' = "run"
    /\ IF VerifyEvents /\ StageOfRun # stage
       THEN /\ stage' = StageOfRun
            /\ workers' = [workers EXCEPT ![StageOfRun] = Workers]
       ELSE UNCHANGED <<stage, workers>>
    /\ UNCHANGED <<capVars, channel, verifying, verified, why, batch, table, stored, failures, abandoned>>

Source == IF VerifyEvents THEN verified[stage] ELSE in

SourceClosed ==
    IF VerifyEvents THEN workers[stage] = 0 /\ verified[stage] = {} ELSE closed /\ in = {}

TakeFromSource(e) ==
    IF VerifyEvents
    THEN verified' = [verified EXCEPT ![stage] = @ \ {e}] /\ UNCHANGED in
    ELSE in' = in \ {e} /\ UNCHANGED verified

\* Flush with a batch to insert.
BeginInsert(reason) == loop' = "insert" /\ why' = reason /\ table' = 1

BatchIsFull(b) == Cardinality(b) >= BatchSize

\* add, and the insert of a full batch.
Receive == loop = "run" /\ \E e \in Source :
    /\ TakeFromSource(e)
    /\ IF ~VerifyEvents /\ e \in Misshapen
       THEN UNCHANGED <<counter, batch, loop, why, table, abandoned>>
       ELSE /\ Count(e)
            /\ IF OverPostCap(e) THEN UNCHANGED <<batch, loop, why, table, abandoned>>
               ELSE /\ batch' = batch \union {e} /\ abandoned' = abandoned \ {e}
                    /\ IF BatchIsFull(batch') THEN BeginInsert("more")
                       ELSE UNCHANGED <<loop, why, table>>
    /\ UNCHANGED <<day, exempt, known, restarts, arrived, shutdown, closed, stage, workers,
                   verifying, stored, failures>>

\* Run returns when its context is done or its source closed, after a last Flush.
Finish(reason) ==
    IF batch = {} THEN loop' = "ended" /\ UNCHANGED <<why, table>> ELSE BeginInsert(reason)

Flush ==
    /\ loop = "run"
    /\ \/ batch # {} /\ BeginInsert("more")
       \/ SourceClosed /\ Finish("closed")
       \/ shutdown /\ Finish("done")
    /\ UNCHANGED <<capVars, channel, pool, batch, stored, failures, abandoned>>

\* The context of the insert: the last one of a shutdown has one of its own.
Cancelled == shutdown /\ why # "done"

Sent == [stored EXCEPT ![table] = @ \union batch]

Send ==
    /\ loop = "insert"
    /\ stored' = Sent
    /\ IF table < LastTable
       THEN table' = table + 1 /\ UNCHANGED <<loop, batch>>
       ELSE /\ batch' = {} /\ table' = 1
            /\ loop' = IF why = "more" THEN "run" ELSE "ended"
    /\ UNCHANGED <<capVars, channel, pool, why, failures, abandoned>>

\* Mutant of BatchAfterFailure: what could not be inserted is dropped.
NoBatchAfterFailure == {}

\* Flush returns the error and leaves the batch alone.
BatchAfterFailure == batch

\* A send fails: Run returns the error, and is restarted unless the context is done.
SendFails ==
    /\ loop = "insert"
    /\ failures < MaxFailures \/ Cancelled
    /\ stored' \in {stored, Sent}
    /\ batch' = BatchAfterFailure
    /\ failures' = IF Cancelled THEN failures ELSE failures + 1
    /\ loop' = IF shutdown THEN "ended" ELSE "backoff"
    /\ table' = 1
    /\ UNCHANGED <<capVars, channel, pool, why, abandoned>>

\* The wait before a restart of Run is cut short by a shutdown.
BackoffStops ==
    /\ loop = "backoff" /\ shutdown /\ loop' = "ended"
    /\ UNCHANGED <<capVars, channel, pool, why, batch, table, stored, failures, abandoned>>

Shutdown ==
    /\ ~shutdown /\ shutdown' = TRUE
    /\ UNCHANGED <<capVars, in, arrived, closed, pool, run, stored, abandoned>>

Complete == {e \in Events : \A t \in Tables : e \in stored[t]}

\* The process ends, by a crash or after a shutdown, and a new one starts.
Restart ==
    /\ ForgetCap
    /\ in' = {} /\ arrived' = {} /\ shutdown' = FALSE /\ closed' = FALSE
    /\ stage' = 0 /\ workers' = [s \in Stages |-> 0]
    /\ verifying' = NoEvents /\ verified' = NoEvents
    /\ loop' = "backoff" /\ why' = "more" /\ batch' = {} /\ table' = 1 /\ failures' = 0
    /\ abandoned' = abandoned \union batch
    /\ UNCHANGED stored

Next ==
    \/ \E e \in Events : Arrive(e)
    \/ \E s \in Stages : Grab(s) \/ Reject(s) \/ Forward(s) \/ WorkerStops(s) \/ WorkerEnds(s)
    \/ StartRun \/ Receive \/ Flush \/ Send \/ SendFails \/ BackoffStops
    \/ Close \/ Shutdown \/ Restart
    \/ TrackerNext /\ UNCHANGED pipeVars

Spec == Init /\ [][Next]_vars

\* Goroutines are scheduled, a ticker and select are fair, the database comes back.
FairSpec ==
    /\ Spec
    /\ \A s \in Stages : WF_vars(Grab(s)) /\ WF_vars(Reject(s)) /\ WF_vars(Forward(s))
    /\ WF_vars(StartRun) /\ WF_vars(Receive) /\ WF_vars(Flush) /\ WF_vars(Send)

-----------------------------------------------------------------------------
(* Properties *)

TypeOK ==
    /\ CapTypeOK
    /\ in \subseteq Events /\ arrived \subseteq Events
    /\ shutdown \in BOOLEAN /\ closed \in BOOLEAN /\ (closed => shutdown)
    /\ stage \in 0..(MaxFailures + 1) /\ workers \in [Stages -> 0..Workers]
    /\ verifying \in [Stages -> SUBSET Events] /\ verified \in [Stages -> SUBSET Events]
    /\ \A s \in Stages : Cardinality(verifying[s]) <= workers[s]
    /\ loop \in {"backoff", "run", "insert", "ended"} /\ why \in {"more", "closed", "done"}
    /\ VerifyEvents /\ loop \in {"run", "insert"} => stage # 0
    /\ batch \subseteq Events /\ table \in Tables
    /\ stored \in [Tables -> SUBSET Events]
    /\ failures \in 0..MaxFailures /\ abandoned \subseteq Events

\* An event with a row in some table has its rows in all of them, unless it is
\* still in the batch and will be inserted again, or the process died with it:
\* an insert that failed half way, before or after its effect, leaves no event
\* without its tags behind (store.go:771-785, pipeline.go:212-216).
NothingHalfStored == \A t \in Tables : stored[t] \subseteq Complete \union batch \union abandoned

\* Consumption ends for good only at a shutdown, whatever events the relays send
\* and however often inserts fail (pipeline.go:150-154, ingester/main.go:93).
EndsOnlyOnShutdown == loop = "ended" => shutdown

Good == Events \ (Misshapen \union (IF VerifyEvents THEN Forged ELSE {}))

\* A good event from the channel gets all its rows, or its author is over the cap:
\* none is swallowed between the channel, the workers and the batch, however often
\* Run is restarted (pipeline.go:55-59), unless the process ends before that.
DeliveredIsStored == \A e \in Good :
    e \in in ~> (e \in Complete \/ AuthorOf[e] \in capped \/ shutdown \/ e \notin arrived)
=============================================================================
