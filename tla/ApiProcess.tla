----------------------------- MODULE ApiProcess -----------------------------
(***************************************************************************)
(* The API process: its start-up beside a server that already listens, the *)
(* workers it hosts, requests through rate limiter and concurrency gate,   *)
(* the callers of Vertex, and shutdown.                                    *)
(*                                                                         *)
(* A deployment says which loops are configured, whether there are authors *)
(* to sync, and which requests come.  One client sends all REST requests.  *)
(***************************************************************************)
EXTENDS Vertex

CONSTANTS
    Loops,          \* the loops of the rollup runner that use the gate
    RateLimit,      \* requests of a client per window
    Slots,          \* of the gate
    Deployments,
    MaxPanics       \* bound

Kinds == {"heavy", "graphql", "profile", "search", "recommended"}

ASSUME ApiAssumption ==
    /\ Loops \subseteq {"rollup", "notifications", "retention"}
    /\ Loops \intersect Requests = {} /\ RateLimit \in Nat \ {0}
    /\ MaxPanics \in Nat /\ Slots \in Nat /\ Slots > MaxPanics
    /\ \A d \in Deployments : /\ d.loops \subseteq Loops /\ d.sync \in BOOLEAN
                              /\ DOMAIN d.kind \subseteq Requests
                              /\ \A r \in DOMAIN d.kind : d.kind[r] \in Kinds

VARIABLES
    deploy,     \* the deployment; never changes
    init,       \* where initializeAPI is
    main,       \* where main is: it leaves "serving" when the process context ends
    store,      \* the connection pool: "none", "open" or "closed"
    migrated,   \* did Migrate succeed?
    published,  \* do store and handler stand in apiRuntime?
    bucket,     \* requests the limiter has counted in the client's window
    slots,      \* who holds a slot of the gate
    loop        \* of each loop: "off", "waiting", "working", "ended" or "panicked"

boot == <<init, main, store, migrated, published>>
gate == <<bucket, slots, loop>>
vars == <<deploy, boot, gate, vertexVars>>

Init ==
    /\ deploy \in Deployments /\ InitVertex
    /\ init = "opening" /\ main = "serving" /\ store = "none"
    /\ migrated = FALSE /\ published = FALSE /\ bucket = 0 /\ slots = {}
    /\ loop = [l \in Loops |-> "off"]
    /\ pc = [c \in Callers |-> IF c \in Requests THEN "new" ELSE "over"]

Running == main \in {"serving", "draining"}
ctxDone == main # "serving"

\* The process ends and its memory is gone.
Die(how) ==
    /\ main' = how /\ init' = "done" /\ published' = FALSE /\ bucket' = 0 /\ slots' = {}
    /\ loop' = [l \in Loops |-> "off"] /\ pc' = [c \in Callers |-> "over"]
    /\ entry' = [k \in Caches |-> None] /\ inflight' = [k \in Caches |-> None]
    /\ stage' = [f \in Fetchers |-> "none"] /\ answer' = [f \in Fetchers |-> Error]
    /\ dead' = {} /\ joined' = [c \in Callers |-> None] /\ got' = [c \in Callers |-> Error]
    /\ group' = None
    /\ UNCHANGED <<deploy, migrated, upstream, failures, saved, old>>

-----------------------------------------------------------------------------
(* initializeAPI *)

\* OpenWithRetry, again and again until it succeeds or the context ends.
OpenStore ==
    /\ init = "opening"
    /\ \/ init' = "building" /\ store' = "open"
       \/ ctxDone /\ init' = "done" /\ UNCHANGED store
    /\ UNCHANGED <<deploy, main, migrated, published, gate, vertexVars>>

\* The loops that are started after a migration that ended with ok.
LoopsStart(ok) == IF ok THEN deploy.loops ELSE {}

\* buildReadyAPI: the syncer starts, then the schema is migrated and the other
\* workers start if it was.  Serving goes on without them.
StartWorkers ==
    /\ init = "building" /\ init' = "wiring"
    /\ pc' = [pc EXCEPT ![Sync] = IF deploy.sync THEN "asleep" ELSE @]
    /\ \E ok \in BOOLEAN :
         /\ ~ok => deploy.loops # {}
         /\ migrated' = (ok /\ deploy.loops # {})
         /\ loop' = [l \in Loops |-> IF l \in LoopsStart(ok) THEN "waiting" ELSE loop[l]]
    /\ UNCHANGED <<deploy, main, store, published, bucket, slots, cacheVars,
                   joined, got, tables>>

SetReady ==
    /\ init = "wiring" /\ init' = "done" /\ published' = TRUE
    /\ UNCHANGED <<deploy, main, store, migrated, gate, vertexVars>>

BuildFails ==
    /\ init = "wiring" /\ init' = "done" /\ store' = "closed" /\ main' = "draining"
    /\ UNCHANGED <<deploy, migrated, published, gate, vertexVars>>

Initialize == OpenStore \/ StartWorkers \/ SetReady

-----------------------------------------------------------------------------
(* main *)

\* A signal, or ListenAndServe fails: server.Shutdown accepts nothing any more.
EndContext ==
    /\ main = "serving" /\ main' = "draining"
    /\ UNCHANGED <<deploy, init, store, migrated, published, gate, vertexVars>>

\* The requests in flight have ended, or ten seconds have passed; apiRuntime.Close
\* closes the store, and main returns.
Close ==
    /\ main = "draining" /\ store' = IF published THEN "closed" ELSE store
    /\ Die("exited")

-----------------------------------------------------------------------------
(* Requests, up to their handlers *)

Kind(r) == IF r \in DOMAIN deploy.kind THEN deploy.kind[r] ELSE None

\* Mutant of Ready: the handler answers as soon as the store is open.
ReadyWhenOpen == store = "open"

Ready == published

Gated == {"heavy", "graphql"}

\* apiRuntime.ServeHTTP, then withMiddleware for a REST route: a request ends
\* with 503 or 429, or goes on to the gate or to its handler.
Arrive(r) ==
    /\ pc[r] = "new" /\ main = "serving" /\ Kind(r) # None
    /\ LET rest == Kind(r) # "graphql"
           refused == ~Ready \/ (rest /\ bucket >= RateLimit)
           next == IF Kind(r) \in Gated THEN "queued" ELSE Kind(r)
       IN /\ Goto(r, IF refused THEN "over" ELSE next)
          /\ bucket' = IF rest /\ ~refused THEN bucket + 1 ELSE bucket
    /\ UNCHANGED <<deploy, boot, slots, loop, cacheVars, tables>>

\* The client's window passes; the next request begins another.
WindowPasses == /\ bucket > 0 /\ bucket' = 0
                /\ UNCHANGED <<deploy, boot, slots, loop, vertexVars>>

SlotFree == Cardinality(slots) < Slots

Acquire(r) ==
    /\ pc[r] = "queued" /\ SlotFree
    /\ slots' = slots \union {r} /\ Goto(r, "working")
    /\ UNCHANGED <<deploy, boot, bucket, loop, cacheVars, tables>>

\* A REST request queues for 30 seconds at most.
QueueExpires(r) ==
    /\ pc[r] = "queued" /\ Kind(r) # "graphql" /\ Goto(r, "over")
    /\ UNCHANGED <<deploy, boot, gate, cacheVars, tables>>

\* A GraphQL request has no deadline while it queues, only its client.
ClientLeaves(r) ==
    /\ pc[r] = "queued" /\ Kind(r) = "graphql" /\ Goto(r, "over")
    /\ UNCHANGED <<deploy, boot, gate, cacheVars, tables>>

\* Mutant of SlotsAfter: the slot of a request is given back on success only.
SlotsAfterSuccess(h) == IF h \in Requests THEN slots ELSE slots \ {h}

SlotsAfter(h) == slots \ {h}

\* The handler returns, fails or panics; the release is deferred.
WorkEnds(r) ==
    /\ pc[r] = "working" /\ slots' = SlotsAfter(r) /\ Goto(r, "over")
    /\ UNCHANGED <<deploy, boot, bucket, loop, cacheVars, tables>>

-----------------------------------------------------------------------------
(* The rollup runner's loops *)

LoopStarts(l) ==
    /\ loop[l] = "waiting" /\ ~ctxDone /\ SlotFree
    /\ slots' = slots \union {l} /\ loop' = [loop EXCEPT ![l] = "working"]
    /\ UNCHANGED <<deploy, boot, bucket, vertexVars>>

LoopWorks(l) ==
    /\ \/ /\ loop[l] = "working" /\ slots' = SlotsAfter(l)
          /\ loop' = [loop EXCEPT ![l] = "waiting"]
       \/ /\ loop[l] = "waiting" /\ ctxDone
          /\ loop' = [loop EXCEPT ![l] = "ended"] /\ UNCHANGED slots
    /\ UNCHANGED <<deploy, boot, bucket, vertexVars>>

Panics == Cardinality(dead) + Cardinality({l \in Loops : loop[l] = "panicked"})

\* The notifications and retention loops release by hand, below a recover: the
\* loop is over and its slot is lost.
LoopPanics(l) ==
    /\ loop[l] = "working" /\ l # "rollup" /\ Panics < MaxPanics
    /\ loop' = [loop EXCEPT ![l] = "panicked"]
    /\ UNCHANGED <<deploy, boot, bucket, slots, vertexVars>>

\* A goroutine without a recover panics: the rollup, the syncer, or a background
\* refresh of a cachedCall.
Crash ==
    /\ Panics < MaxPanics
    /\ \/ \E l \in Loops : loop[l] = "working" /\ l = "rollup"
       \/ stage[Sync] = "asking"
       \/ \E k \in Caches : stage[k] = "asking"
    /\ Die("crashed") /\ UNCHANGED store

-----------------------------------------------------------------------------
(* Callers of Vertex *)

CacheOf(f) == CASE f \in Requests -> Kind(f) [] f = Async -> "search" [] f = Sync -> "profile"
                [] OTHER -> f

\* What request r does by itself.
RequestStep(r) ==
    \/ WorkEnds(r) \/ QueueExpires(r)
    \/ /\ \/ Profile(r) \/ Recommended(r) \/ Search(r) \/ Refresh(r)
          \/ Kind(r) = "profile" /\ ProfileAnswered(r, "over")
          \/ Kind(r) = "recommended" /\ RecommendedAnswered(r)
          \/ Kind(r) = "search" /\ SearchAnswered(r)
          \/ /\ Lookup(r, CacheOf(r)) \/ FetchOnce(r, CacheOf(r)) \/ StopWaiting(r)
             /\ UNCHANGED tables
       /\ UNCHANGED <<deploy, boot, gate>>

AsyncStep ==
    /\ \/ Refresh(Async) \/ SearchAnswered(Async)
       \/ (FetchOnce(Async, "search") \/ StopWaiting(Async)) /\ UNCHANGED tables
    /\ UNCHANGED <<deploy, boot, gate>>

\* The syncer has no deadline: only the process context ends its waiting.
SyncStep ==
    /\ \/ ~ctxDone /\ SyncRefresh
       \/ SyncSave
       \/ FetchOnce(Sync, "profile") /\ UNCHANGED tables
       \/ ctxDone /\ StopWaiting(Sync) /\ UNCHANGED tables
    /\ UNCHANGED <<deploy, boot, gate>>

FlightStep(k) ==
    /\ \E f \in Fetchers : CacheOf(f) = k /\ RunFetch(f, k)
    /\ UNCHANGED <<deploy, boot, gate, tables>>

RecoveredPanic(c) == /\ Panics < MaxPanics /\ CachePanics(c, CacheOf(c))
                     /\ UNCHANGED <<deploy, boot, gate>>

VertexWorld ==
    /\ deploy.sync \/ \E r \in Requests : Kind(r) \in Kinds \ Gated
    /\ \/ (Publish \/ Age("recommended")) /\ UNCHANGED tables
       \/ RowAges("search")
    /\ UNCHANGED <<deploy, boot, gate>>

ProfileRowAges == RowAges("profile") /\ UNCHANGED <<deploy, boot, gate>>

-----------------------------------------------------------------------------

Next ==
    /\ Running
    /\ \/ Initialize \/ BuildFails \/ EndContext \/ Close \/ Crash \/ WindowPasses
       \/ \E r \in Requests : Arrive(r) \/ Acquire(r) \/ ClientLeaves(r) \/ RequestStep(r)
       \/ \E l \in Loops : LoopStarts(l) \/ LoopWorks(l) \/ LoopPanics(l)
       \/ AsyncStep \/ SyncStep \/ VertexWorld \/ ProfileRowAges
       \/ \E k \in Caches : FlightStep(k)
       \/ \E c \in Requests \union {Async} : RecoveredPanic(c)

Spec == Init /\ [][Next]_vars

\* Waiting senders of a channel are served in turn (Acquire, LoopStarts); every
\* other fair step is the progress of a goroutine, a timeout, or time.
Fairness ==
    /\ WF_vars(Running /\ Initialize)
    /\ \A r \in Requests : SF_vars(Running /\ (Acquire(r) \/ RequestStep(r)))
    /\ \A l \in Loops : SF_vars(Running /\ (LoopStarts(l) \/ LoopWorks(l)))
    /\ WF_vars(Running /\ AsyncStep) /\ WF_vars(Running /\ SyncStep)
    /\ \A k \in Caches : WF_vars(Running /\ FlightStep(k))
    /\ WF_vars(Running /\ ProfileRowAges)

FairSpec == Spec /\ Fairness

-----------------------------------------------------------------------------
(* Properties *)

TypeOK ==
    /\ deploy \in Deployments /\ VertexTypeOK
    /\ init \in {"opening", "building", "wiring", "done"}
    /\ main \in {"serving", "draining", "exited", "crashed"}
    /\ migrated \in BOOLEAN /\ published \in BOOLEAN
    /\ store \in {"none", "open", "closed"} /\ bucket \in 0..RateLimit
    /\ slots \subseteq Requests \union Loops
    /\ loop \in [Loops -> {"off", "waiting", "working", "ended", "panicked"}]

\* A slot of the gate is held by somebody at work, or was lost by a loop that
\* panicked: no path through a request or a loop loses one (chgate.go:32-70,
\* rollup.go:100-210).
SlotsAccounted ==
    \A h \in Requests \union Loops :
        h \in slots <=> IF h \in Requests THEN pc[h] = "working"
                        ELSE loop[h] \in {"working", "panicked"}

\* No request is at work on a store that was closed, unless ten seconds of
\* shutdown were not enough: not when the initialization fails with the server
\* already listening (main.go:56-105).
OpenWhileWorking ==
    \A r \in Requests : pc[r] = "working" /\ main # "exited" => store = "open"

\* The loops never run before the tables they fill exist (main.go:136-176).
LoopsHaveTables == \A l \in Loops : loop[l] # "off" => migrated

\* Every request of a process that stays up is answered: those at the gate,
\* those waiting for a fetch somebody else leads or has panicked in, and those
\* whose search is in somebody else's singleflight call.  A request comes once.
EveryRequestEnds ==
    <>[](Running => \A r \in Requests : pc[r] \in {"new", "over"})

\* A loop that does not panic gets its turn at the gate for ever, also when one
\* slot is lost and requests keep coming.
LoopsGoOn ==
    \A l \in Loops : loop[l] = "waiting" ~> loop[l] = "working" \/ ctxDone \/ ~Running

\* Refreshers save a profile outside the flight that fetched it and may replace
\* a newer one by an older; the syncer repairs that, unless a fetch has panicked
\* and left it waiting (sync.go:92-113).
SavedCatchesUp ==
    deploy.sync => <>[](saved["profile"] = upstream \/ ctxDone \/ ~Running \/ dead # {})

\* Who is at work may be: with a slot, on an open store, in tables that exist, and on a
\* fetch that somebody leads.
WorkIsAllowed == SlotsAccounted /\ OpenWhileWorking /\ LoopsHaveTables /\ FlightsAreLed

\* Nobody is left behind: requests, loops, and what the syncer is there to repair.
AllGoOn == EveryRequestEnds /\ LoopsGoOn /\ SavedCatchesUp
=============================================================================
