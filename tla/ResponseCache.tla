--------------------------- MODULE ResponseCache ---------------------------
(***************************************************************************)
(* serveSWR, the stale-while-revalidate core under the GraphQL and REST    *)
(* app-view, for one cache key: API processes that share the Redis entry   *)
(* of the key and each collapse their own identical computations with a    *)
(* singleflight group.                                                     *)
(*                                                                         *)
(* A client can be misled about one thing only: how long ago the data it   *)
(* is shown was read from the store.  So the content of an answer is that  *)
(* age, every instant is kept as the time passed since then, and the clock *)
(* adds a second, the unit of the envelope's timestamp, to all of them.    *)
(***************************************************************************)
EXTENDS Integers

CONSTANTS
    Apis,        \* API processes
    Requests,    \* concurrent requests for the key
    FreshTTL,    \* the fresh window of the key's cache policy
    StaleFor,    \* its stale window; 0 disables serving stale
    MaxCompute,  \* bound on the time a computation takes
    MaxGet,      \* bound on the time the Redis lookup takes
    None         \* no entry, no result

ASSUME TTLAssumption ==
    /\ FreshTTL \in Nat \ {0} /\ StaleFor \in Nat
    /\ MaxCompute \in Nat /\ MaxGet \in Nat

HardTTL == FreshTTL + StaleFor

VARIABLES
    entry,   \* the Redis value of the key, the ages of its data and of the
             \* envelope's timestamp; or None
    flight,  \* flight[a][k]: the singleflight call of process a
    pc,      \* where each request is
    req,     \* its process, its refresh flag, the time since it came in
    reply    \* the last answer each request was given, and the age of its data

vars == <<entry, flight, pc, req, reply>>

\* "miss" is the call on the key, "revalidate" the one on "revalidate:" + key.
Kinds == {"miss", "revalidate"}

\* A computation reads the store, then is stored if it may be, then returns.
\* "failed" is a result that is not cacheable: an error, a GraphQL error, a
\* computation whose context was cancelled.
Phases == {"idle", "computing", "read", "stored", "failed"}
Idle == [phase |-> "idle", run |-> 0, data |-> 0]

NoReply == [how |-> "none", age |-> 0]

Init ==
    /\ entry = None
    /\ flight = [a \in Apis |-> [k \in Kinds |-> Idle]]
    /\ pc = [r \in Requests |-> "idle"]
    /\ req \in [Requests -> [api : Apis, refresh : {FALSE}, age : {0}]]
    /\ reply = [r \in Requests |-> NoReply]

Goto(r, l) == pc' = [pc EXCEPT ![r] = l]
AnswerOf(how, data) == [how |-> how, age |-> data]
Answer(r, how, data) ==
    /\ reply' = [reply EXCEPT ![r] = AnswerOf(how, data)]
    /\ req' = [req EXCEPT ![r].age = 0]

-----------------------------------------------------------------------------
(* A request *)

Arrive(r) == \E refresh \in BOOLEAN :
    /\ pc[r] = "idle"
    /\ req' = [req EXCEPT ![r] = [api |-> @.api, refresh |-> refresh, age |-> 0]]
    /\ reply' = [reply EXCEPT ![r] = NoReply]
    /\ Goto(r, "get")
    /\ UNCHANGED <<entry, flight>>

Live == entry # None

\* Mutant of IsFresh: the fresh window is the whole lifetime of the entry.
IsFreshHard(r) == Live /\ entry.stored <= HardTTL + req[r].age

\* The age is taken with the `now` read before the lookup.
IsFresh(r) == Live /\ entry.stored <= FreshTTL + req[r].age

GetHit(r) ==
    /\ pc[r] = "get" /\ IsFresh(r) /\ ~req[r].refresh
    /\ Answer(r, "hit", entry.data) /\ Goto(r, "idle")
    /\ UNCHANGED <<entry, flight>>

GetStale(r) ==
    /\ pc[r] = "get" /\ Live /\ (req[r].refresh \/ ~IsFresh(r)) /\ StaleFor > 0
    /\ Answer(r, "stale", entry.data) /\ Goto(r, "background")
    /\ UNCHANGED <<entry, flight>>

\* Nothing cached, stale serving disabled, or the lookup failed.
GetMiss(r) ==
    /\ pc[r] = "get"
    /\ Goto(r, "miss")
    /\ UNCHANGED <<entry, flight, req, reply>>

\* group.Do: start the call or join the one in flight.
Do(a, k) ==
    flight' = IF flight[a][k].phase = "idle"
              THEN [flight EXCEPT ![a][k] = [phase |-> "computing", run |-> 0, data |-> 0]]
              ELSE flight

\* The goroutine behind a stale answer; nobody waits for its result.
Revalidate(r) ==
    /\ pc[r] = "background"
    /\ Do(req[r].api, "revalidate") /\ Goto(r, "idle")
    /\ UNCHANGED <<entry, req, reply>>

Compute(r) ==
    /\ pc[r] = "miss"
    /\ Do(req[r].api, "miss") /\ Goto(r, "waiting")
    /\ UNCHANGED <<entry, req, reply>>

-----------------------------------------------------------------------------
(* A computation *)

Advance(a, k, phase, data) ==
    flight' = [flight EXCEPT ![a][k] = [@ EXCEPT !.phase = phase, !.data = data]]

Read(a, k) ==
    /\ flight[a][k].phase = "computing"
    /\ Advance(a, k, "read", 0) \/ Advance(a, k, "failed", 0)
    /\ UNCHANGED <<entry, pc, req, reply>>

Cacheable(a, k) == flight[a][k].phase = "read"

\* c.Set; a Redis error is swallowed.
Store(a, k) ==
    /\ Cacheable(a, k)
    /\ \/ UNCHANGED entry
       \/ entry' = [data |-> flight[a][k].data, stored |-> 0]
    /\ Advance(a, k, "stored", flight[a][k].data)
    /\ UNCHANGED <<pc, req, reply>>

Waiters(a) == {r \in Requests : pc[r] = "waiting" /\ req[r].api = a}

\* Mutant of Released: a result that is not cacheable does not reach who joined.
ReleasedCacheable(a) == IF flight[a]["miss"].phase = "failed" THEN {} ELSE Waiters(a)

\* Everyone who joined the call gets its result.
Released(a) == Waiters(a)

Return(a, k) ==
    /\ flight[a][k].phase \in {"stored", "failed"}
    /\ LET how == IF flight[a][k].phase = "stored" THEN "miss" ELSE "error"
           done == IF k = "miss" THEN Released(a) ELSE {}
       IN /\ pc' = [r \in Requests |-> IF r \in done THEN "idle" ELSE pc[r]]
          /\ reply' = [r \in Requests |->
                IF r \in done THEN AnswerOf(how, flight[a][k].data) ELSE reply[r]]
          /\ req' = [r \in Requests |-> IF r \in done THEN [req[r] EXCEPT !.age = 0] ELSE req[r]]
    /\ flight' = [flight EXCEPT ![a][k] = Idle]
    /\ UNCHANGED entry

Busy(a, k) == flight[a][k].phase # "idle"
HasRead(a, k) == flight[a][k].phase \in {"read", "stored"}
Pending(r) == pc[r] \in {"get", "miss", "waiting"}

Expired == Live /\ entry.stored >= HardTTL

\* The clock, and with it the expiry in Redis.  A lookup, and a computation with
\* the goroutine that starts it, do not take longer than their bounds.
Tick ==
    /\ \A r \in Requests :
          /\ pc[r] = "get" => req[r].age < MaxGet
          /\ pc[r] # "miss"
    /\ \A a \in Apis, k \in Kinds : Busy(a, k) => flight[a][k].run < MaxCompute
    /\ entry' = IF ~Live \/ Expired THEN None
                ELSE [data |-> entry.data + 1, stored |-> entry.stored + 1]
    /\ flight' = [a \in Apis |-> [k \in Kinds |->
          [phase |-> flight[a][k].phase,
           run |-> IF Busy(a, k) THEN flight[a][k].run + 1 ELSE 0,
           data |-> IF HasRead(a, k) THEN flight[a][k].data + 1 ELSE 0]]]
    /\ req' = [r \in Requests |->
          IF Pending(r) THEN [req[r] EXCEPT !.age = @ + 1] ELSE req[r]]
    /\ UNCHANGED <<pc, reply>>

Progress ==
    \/ \E r \in Requests : GetHit(r) \/ GetStale(r) \/ GetMiss(r) \/ Revalidate(r) \/ Compute(r)
    \/ \E a \in Apis, k \in Kinds : Read(a, k) \/ Store(a, k) \/ Return(a, k)

Next == Progress \/ Tick \/ \E r \in Requests : Arrive(r)

Spec == Init /\ [][Next]_vars

\* Goroutines run.
FairSpec == Spec
    /\ \A r \in Requests : WF_vars(GetHit(r) \/ GetStale(r) \/ GetMiss(r)) /\ WF_vars(Compute(r))
    /\ \A a \in Apis, k \in Kinds :
          WF_vars(Read(a, k)) /\ WF_vars(Store(a, k)) /\ WF_vars(Return(a, k))

-----------------------------------------------------------------------------
(* Properties *)

MaxAge == HardTTL + MaxGet + MaxCompute

\* In particular an entry's data was read at most MaxCompute before its
\* timestamp, and no wait outlasts the lookup and one computation.
TypeOK ==
    /\ entry # None =>
         /\ entry.data \in Nat /\ entry.stored \in 0..HardTTL
         /\ entry.stored <= entry.data /\ entry.data <= entry.stored + MaxCompute
    /\ flight \in [Apis -> [Kinds -> [phase : Phases, run : 0..MaxCompute, data : 0..MaxCompute]]]
    /\ pc \in [Requests -> {"idle", "get", "background", "miss", "waiting"}]
    /\ req \in [Requests -> [api : Apis, refresh : BOOLEAN, age : 0..(MaxGet + MaxCompute)]]
    /\ reply \in [Requests ->
         [how : {"none", "hit", "stale", "miss", "error"}, age : 0..MaxAge]]

\* How old an answer may be: a computation's own duration, plus the time it
\* lay in the cache, for each way an answer is given.
Bound(how) ==
    CASE how = "hit" -> FreshTTL + MaxGet + MaxCompute
      [] how = "stale" -> HardTTL + MaxCompute
      [] OTHER -> MaxCompute

\* No answer is older than the policy of its key allows, whichever of several
\* overlapping computations stored last, in this process or another, and
\* although the envelope is stamped after the computation (middleware.go:259).
AnswersAreBounded == \A r \in Requests :
    reply[r].how \in {"hit", "stale", "miss"} =>
        reply[r].age <= Bound(reply[r].how)

\* Every request is answered, also one that joined a computation that failed.
EveryRequestAnswered == \A r \in Requests : pc[r] = "get" ~> reply[r].how # "none"
=============================================================================
