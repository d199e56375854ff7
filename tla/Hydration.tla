----------------------------- MODULE Hydration ------------------------------
(***************************************************************************)
(* On-demand hydration: requests that join or start background jobs, the   *)
(* jobs, and the cooldown markers that they share.                         *)
(*                                                                         *)
(* A job asks the relays for what belongs to its key, then for values by   *)
(* id, as far as no cooldown holds them back, and inserts all it has got.  *)
(* The registry has at most one job for a key, so a job is named by it.    *)
(* Batches, pages, depths and limits of the queries are left out.          *)
(*                                                                         *)
(* A cooldown (5 min) outlasts the job that began it (timeout and insert:  *)
(* 15 s), and it ends some time after.                                     *)
(***************************************************************************)
EXTENDS RelayQuery

CONSTANTS
    Own,     \* keys with a marker of their own, and a first query
    Strict,  \* those whose job ends if the first query fails
    First,   \* First[k]: what k's first query asks for
    ById,    \* ById[k]: the values k's job then asks for by id
    Requests,
    KeysOf   \* KeysOf[r]: the keys request r needs

Keys == Callers
Markers == Own \union Values

ASSUME HydrationAssumption ==
    /\ Own \subseteq Keys /\ Strict \subseteq Own /\ Own \intersect Values = {}
    /\ First \in [Keys -> SUBSET Values] /\ ById \in [Keys -> SUBSET Values]
    /\ \A k \in Keys : k \in Own <=> First[k] # {}
    /\ KeysOf \in [Requests -> SUBSET Keys]

VARIABLES
    phase,   \* phase[k]: "none" is not in the registry; "closed" or "broken" with
             \* job.err, until it leaves
    fresh,   \* fresh[k]: markers the running job has set
    left,    \* left[k]: values the job still wants by id
    has,     \* has[k]: the collector's records
    marks,   \* markers younger than the cooldown
    stored,  \* values in the store
    active,  \* requests that wait for jobs
    waiting  \* waiting[r]: those request r has still to wait for

job == <<phase, fresh, left, has>>
requests == <<active, waiting>>
vars == <<queryVars, job, marks, stored, requests>>

InitJobs ==
    /\ phase = [k \in Keys |-> "none"] /\ fresh = [k \in Keys |-> {}]
    /\ left = [k \in Keys |-> {}] /\ has = [k \in Keys |-> {}]
    /\ marks = {} /\ stored = {}
    /\ waiting = [r \in Requests |-> {}] /\ active = {}

Init == InitQuery /\ InitJobs

AtWork(k) == phase[k] \in {"gate", "first", "claim", "fetch"}

-----------------------------------------------------------------------------
(* Requests *)

\* A request schedules the jobs of its keys, or joins them, also one that has
\* closed but not left.  The error of one makes the request as incomplete as if it
\* had given up, which may as well be at once.
Hydrate(r) ==
    LET new == {k \in KeysOf[r] : phase[k] = "none"}
        bad == \E k \in KeysOf[r] : phase[k] = "broken" IN
    /\ r \notin active
    /\ phase' = [k \in Keys |->
                    IF k \in new THEN (IF k \in Own THEN "gate" ELSE "claim") ELSE phase[k]]
    /\ waiting' = [waiting EXCEPT ![r] =
                      IF bad THEN {} ELSE {k \in KeysOf[r] : phase[k] # "closed"}]
    /\ active' = IF bad THEN active ELSE active \union {r}
    /\ UNCHANGED <<queryVars, fresh, left, has, marks, stored>>

\* waitJobs: all jobs are closed, and the handler reads the store again.
Complete(r) ==
    /\ r \in active /\ waiting[r] = {} /\ active' = active \ {r}
    /\ UNCHANGED <<queryVars, job, marks, stored, waiting>>

\* The wait, which may be none at all, or the request's context ends.
GiveUp(r) ==
    /\ r \in active /\ waiting[r] # {}
    /\ active' = active \ {r} /\ waiting' = [waiting EXCEPT ![r] = {}]
    /\ UNCHANGED <<queryVars, job, marks, stored>>

-----------------------------------------------------------------------------
(* A job *)

Goto(k, p) == phase' = [phase EXCEPT ![k] = p]

\* The work has returned: job.err is set, then the job is closed.
Close(k, bad) ==
    /\ Goto(k, IF bad THEN "broken" ELSE "closed")
    /\ deadline' = [deadline EXCEPT ![k] = FALSE] /\ fresh' = [fresh EXCEPT ![k] = {}]
    /\ left' = [left EXCEPT ![k] = {}] /\ has' = [has EXCEPT ![k] = {}]
    /\ waiting' = [r \in Requests |->
                      IF bad /\ k \in waiting[r] THEN {} ELSE waiting[r] \ {k}]
    /\ active' = {r \in active : ~(bad /\ k \in waiting[r])}

\* Mutant of Cool: every job fetches what it needs.
NeverRefused(m) == m \in Markers

Cool(m) == m \notin marks

\* shouldAttempt, which refuses or marks.
GateRefused(k) ==
    /\ phase[k] = "gate" /\ ~Cool(k)
    /\ Close(k, FALSE) /\ UNCHANGED <<mode, backoff, queries, faults, marks, stored>>

GateOpen(k) ==
    /\ phase[k] = "gate" /\ Cool(k)
    /\ marks' = marks \union {k} /\ fresh' = [fresh EXCEPT ![k] = {k}]
    /\ Goto(k, "first") /\ Ask(k, First[k])
    /\ UNCHANGED <<mode, backoff, deadline, faults, left, has, stored, requests>>

FirstReturns(k) ==
    /\ phase[k] = "first" /\ Return(k)
    /\ IF Failed(k) /\ k \in Strict
       THEN Close(k, TRUE)
       ELSE /\ has' = [has EXCEPT ![k] = out[k]] /\ Goto(k, "claim")
            /\ UNCHANGED <<deadline, fresh, left, requests>>
    /\ UNCHANGED <<mode, backoff, faults, marks, stored>>

\* The ids come from the records of the first query.
Claimable(k) == IF k \in Own /\ has[k] = {} THEN {} ELSE ById[k]

\* attemptValues: the values no cooldown holds back are marked at once.
Claim(k) ==
    /\ phase[k] = "claim" /\ Goto(k, "fetch")
    /\ LET open == {v \in Claimable(k) : Cool(v)} IN
       /\ left' = [left EXCEPT ![k] = open]
       /\ marks' = marks \union open /\ fresh' = [fresh EXCEPT ![k] = @ \union open]
    /\ UNCHANGED <<queryVars, has, stored, requests>>

\* queryEventsByID, unless the deadline has passed.
AskIds(k) ==
    /\ phase[k] = "fetch" /\ ~Running(k) /\ ~deadline[k] /\ left[k] # {} /\ Ask(k, left[k])
    /\ UNCHANGED <<mode, backoff, deadline, faults, job, marks, stored, requests>>

IdsReturn(k) ==
    /\ phase[k] = "fetch" /\ Return(k)
    /\ has' = [has EXCEPT ![k] = @ \union out[k]] /\ left' = [left EXCEPT ![k] = {}]
    /\ UNCHANGED <<mode, backoff, deadline, faults, phase, fresh, marks, stored, requests>>

\* Mutant of Fetched: the job inserts while a query is under way.
NothingWaits(k) == phase[k] = "fetch" /\ (Running(k) \/ left[k] = {} \/ deadline[k])

Fetched(k) == phase[k] = "fetch" /\ ~Running(k) /\ (left[k] = {} \/ deadline[k])

\* insertCollected with what the job has got.
Insert(k) ==
    /\ Fetched(k) /\ stored' = stored \union has[k]
    /\ Close(k, FALSE) /\ UNCHANGED <<mode, backoff, queries, faults, marks>>

InsertFails(k) ==
    /\ Fetched(k) /\ has[k] # {} /\ faults < MaxFaults /\ faults' = faults + 1
    /\ \E S \in SUBSET has[k] : stored' = stored \union S
    /\ Close(k, TRUE) /\ UNCHANGED <<mode, backoff, queries, marks>>

\* A panic of the job's goroutine, which its deferred function turns into an error.
JobPanics(k) ==
    /\ AtWork(k) /\ ~Running(k) /\ faults < MaxFaults /\ faults' = faults + 1
    /\ Close(k, TRUE) /\ UNCHANGED <<mode, backoff, queries, marks, stored>>

\* A closed job leaves the registry.
Leave(k) ==
    /\ phase[k] \in {"closed", "broken"} /\ Goto(k, "none")
    /\ UNCHANGED <<queryVars, fresh, left, has, marks, stored, requests>>

\* The cooldown of a marker ends.
MarkExpires(m) ==
    /\ m \in marks /\ \A k \in Keys : m \notin fresh[k]
    /\ marks' = marks \ {m} /\ UNCHANGED <<queryVars, job, stored, requests>>

JobStep(k) ==
    \/ GateRefused(k) \/ GateOpen(k) \/ FirstReturns(k) \/ Claim(k)
    \/ AskIds(k) \/ IdsReturn(k) \/ Insert(k) \/ Leave(k)

Next ==
    \/ \E r \in Requests : Hydrate(r) \/ Complete(r) \/ GiveUp(r)
    \/ \E k \in Keys : JobStep(k) \/ InsertFails(k) \/ JobPanics(k)
    \/ RelayStep /\ UNCHANGED <<job, marks, stored, requests>>
    \/ \E m \in Markers : MarkExpires(m)

Spec == Init /\ [][Next]_vars

\* Goroutines run, and readers come back.
FairSpec ==
    /\ Spec /\ RelayFairness /\ \A m \in Markers : WF_vars(MarkExpires(m))
    /\ \A k \in Keys : WF_vars(JobStep(k))
    /\ \A r \in Requests : WF_vars(Hydrate(r) \/ Complete(r) \/ GiveUp(r))

-----------------------------------------------------------------------------
(* Properties *)

Held == UNION {Has[r] : r \in Relays}

TypeOK ==
    /\ QueryTypeOK
    /\ phase \in [Keys -> {"none", "gate", "first", "claim", "fetch", "closed", "broken"}]
    /\ fresh \in [Keys -> SUBSET Markers] /\ marks \subseteq Markers
    /\ left \in [Keys -> SUBSET Values] /\ has \in [Keys -> SUBSET Values]
    /\ \A k \in Keys : /\ ~AtWork(k) => left[k] = {} /\ has[k] = {} /\ fresh[k] = {} /\ ~deadline[k]
                       /\ Running(k) => phase[k] \in {"first", "fetch"}
                       /\ Running(k) /\ phase[k] = "fetch" => wants[k] = left[k]
    /\ \A k \in Keys : fresh[k] \subseteq marks
    /\ stored \subseteq Held
    /\ active \subseteq Requests /\ waiting \in [Requests -> SUBSET Keys]
    /\ \A r \in Requests : waiting[r] # {} => r \in active

\* README.md:152: repeated requests for the same data do not fan out to relays
\* every time.  No two jobs ask for the same value by id at once.
OneFetchPerValue == \A k, l \in Keys : k # l => left[k] \intersect left[l] = {}

\* What a job of key k fetches if nothing fails and no cooldown holds it back.
Promised(k) == Held \intersect
    (First[k] \union (IF k \in Own /\ First[k] \intersect Held = {} THEN {} ELSE ById[k]))

\* While nothing fails, a request that is told its hydration is complete, and that
\* reads again, finds what the relays have, or another job is about to insert it.
CompleteMeansStored == \A r \in Requests : r \in active /\ waiting[r] = {} /\ faults = 0 =>
    \A k \in KeysOf[r] : \A v \in Promised(k) :
        v \in stored \/ \E l \in Keys : v \in left[l] \union has[l]

\* No key is wedged: whatever panics, fails or does not answer, a job leaves the
\* registry (user_feed_backfill.go:720-725).
RegistryDrains == \A k \in Keys : phase[k] # "none" ~> phase[k] = "none"

\* When the relays are up again, what readers keep asking for is stored in the end:
\* neither a cooldown that began before a failed attempt, nor the breaker, nor
\* another job that claimed a value and did not fetch it stands in the way for ever.
StoredInTheEnd ==
    <>[](\A r \in Relays : mode[r] = "up")
        => <>(\A r \in Requests : \A k \in KeysOf[r] : Promised(k) \subseteq stored)

\* Hydration comes to its end: no job stays, and no value that can be had is missing.
HydrationEnds == RegistryDrains /\ StoredInTheEnd
=============================================================================
