------------------------ MODULE ResponseCacheProofs ------------------------
(***************************************************************************)
(* Proofs about ResponseCache, for any number of processes and requests    *)
(* and any windows.                                                        *)
(*                                                                         *)
(* The age of an answer is bounded because the age of what lies in the     *)
(* cache is: an entry's data is at most one computation older than its     *)
(* timestamp, and that is so because a computation's read is never older   *)
(* than the computation.                                                   *)
(***************************************************************************)
EXTENDS ResponseCache, TLAPS

Flights == [phase : Phases, run : 0..MaxCompute, data : 0..MaxCompute]

Waits == 0..(MaxGet + MaxCompute)
Reqs == [api : Apis, refresh : BOOLEAN, age : Waits]

\* A computation's read is younger than the computation, and absent before it.
ReadInv == \A a \in Apis, k \in Kinds :
    /\ flight[a][k].data <= flight[a][k].run
    /\ ~HasRead(a, k) => flight[a][k].data = 0

\* A lookup is bounded, and a waiting request has waited for it and for the
\* computation it joined.
WaitInv == \A r \in Requests :
    /\ pc[r] \in {"get", "miss"} => req[r].age <= MaxGet
    /\ pc[r] = "waiting" => /\ Busy(req[r].api, "miss")
                            /\ req[r].age <= MaxGet + flight[req[r].api]["miss"].run

CacheInv == TypeOK /\ ReadInv /\ WaitInv /\ AnswersAreBounded

LEMMA Windows == FreshTTL \in Nat /\ HardTTL \in Nat /\ FreshTTL <= HardTTL
                 /\ MaxCompute \in Nat /\ MaxGet \in Nat /\ MaxAge \in Nat
  BY TTLAssumption DEF HardTTL, MaxAge

\* An answer within its bound keeps the reply's type and the invariant on ages.
LEMMA GoodAnswer ==
    ASSUME TypeOK, NEW r \in Requests, NEW how \in {"hit", "stale", "miss"}, NEW d \in Nat,
           d <= Bound(how)
    PROVE  AnswerOf(how, d) \in
             [how : {"none", "hit", "stale", "miss", "error"}, age : 0..MaxAge]
  BY Windows DEF AnswerOf, Bound, MaxAge

LEMMA WaitZero == 0 \in Waits
  BY Windows DEF Waits

LEMMA ResetAge ==
    ASSUME NEW q \in Reqs
    PROVE  [q EXCEPT !.age = 0] \in Reqs
  BY WaitZero DEF Reqs

LEMMA InitCacheInv == Init => CacheInv
<1> SUFFICES ASSUME Init PROVE CacheInv
  OBVIOUS
<1>1. Idle \in Flights
  BY Windows DEF Idle, Flights, Phases
<1>2. \A a \in Apis, k \in Kinds : flight[a][k] = Idle
  BY DEF Init
<1>3. \A r \in Requests : req[r].age = 0 /\ pc[r] = "idle" /\ reply[r].how = "none"
  BY DEF Init, NoReply
<1>4. flight \in [Apis -> [Kinds -> Flights]]
  BY <1>1 DEF Init
<1>5. req \in [Requests -> Reqs]
  <2>1. [api : Apis, refresh : {FALSE}, age : {0}] \subseteq Reqs
    BY WaitZero DEF Reqs
  <2> QED
    BY <2>1 DEF Init
<1>6. reply \in [Requests ->
         [how : {"none", "hit", "stale", "miss", "error"}, age : 0..MaxAge]]
  BY Windows DEF Init, NoReply
<1>7. TypeOK
  BY <1>4, <1>5, <1>6, <1>3 DEF Init, TypeOK, Flights, Reqs, Waits
<1>8. ReadInv
  BY <1>2 DEF ReadInv, Idle
<1>9. WaitInv /\ AnswersAreBounded
  BY <1>3 DEF WaitInv, AnswersAreBounded
<1> QED
  BY <1>7, <1>8, <1>9 DEF CacheInv

-----------------------------------------------------------------------------
\* Steps of a request that answer it from the cache.
LEMMA NextGet ==
    ASSUME CacheInv, NEW r \in Requests, GetHit(r) \/ GetStale(r)
    PROVE  CacheInv'
<1> USE DEF CacheInv
<1>1. PICK how \in {"hit", "stale"} : /\ Answer(r, how, entry.data)
                                     /\ entry.data \in Nat /\ entry.data <= Bound(how)
  <2>1. CASE GetHit(r)
    BY <2>1, Windows DEF GetHit, IsFresh, Live, TypeOK, WaitInv, Bound
  <2>2. CASE GetStale(r)
    BY <2>2, Windows DEF GetStale, Live, TypeOK, Bound
  <2> QED
    BY <2>1, <2>2
<1> DEFINE ans == AnswerOf(how, entry.data)
<1>2. ans \in [how : {"none", "hit", "stale", "miss", "error"}, age : 0..MaxAge]
  BY <1>1, GoodAnswer
<1>3. ans.how = how /\ ans.age = entry.data
  BY DEF AnswerOf
<1>4. /\ reply' = [reply EXCEPT ![r] = ans] /\ req' = [req EXCEPT ![r].age = 0]
      /\ \E l \in {"idle", "background"} : pc' = [pc EXCEPT ![r] = l]
      /\ UNCHANGED <<entry, flight>>
  BY <1>1 DEF Answer, GetHit, GetStale, Goto
<1> HIDE DEF ans
<1>5. TypeOK'
  <2>1. [req[r] EXCEPT !.age = 0] \in Reqs
    <3>1. req[r] \in Reqs
      BY DEF TypeOK, Reqs, Waits
    <3> QED
      BY <3>1, ResetAge
  <2>2. req' = [req EXCEPT ![r] = [req[r] EXCEPT !.age = 0]]
    BY <1>4
  <2>3. req' \in [Requests -> Reqs]
    BY <2>1, <2>2 DEF TypeOK, Reqs, Waits
  <2>4. reply' \in [Requests ->
         [how : {"none", "hit", "stale", "miss", "error"}, age : 0..MaxAge]]
    BY <1>2, <1>4 DEF TypeOK
  <2> QED
    BY <1>4, <2>3, <2>4 DEF TypeOK, Reqs, Waits
<1>6. ReadInv' /\ WaitInv'
  BY <1>4, Windows DEF TypeOK, ReadInv, WaitInv, HasRead, Busy
<1>7. AnswersAreBounded'
  BY <1>1, <1>3, <1>4 DEF TypeOK, AnswersAreBounded, Bound
<1> QED
  BY <1>5, <1>6, <1>7

\* Steps that start a computation or join the one in flight.
LEMMA NextDo ==
    ASSUME CacheInv, NEW r \in Requests, Revalidate(r) \/ Compute(r)
    PROVE  CacheInv'
<1> USE DEF CacheInv
<1>1. PICK k \in Kinds, l \in {"idle", "waiting"} :
        /\ Do(req[r].api, k) /\ pc' = [pc EXCEPT ![r] = l]
        /\ l = "waiting" => k = "miss" /\ pc[r] = "miss"
        /\ UNCHANGED <<entry, req, reply>>
  BY DEF Revalidate, Compute, Goto, Kinds
<1> DEFINE start == [phase |-> "computing", run |-> 0, data |-> 0]
<1>2. req[r].api \in Apis /\ start \in Flights
  BY Windows DEF TypeOK, Flights, Phases
<1>3. \A a \in Apis, j \in Kinds :
        \/ flight'[a][j] = flight[a][j]
        \/ a = req[r].api /\ j = k /\ flight[a][j].phase = "idle" /\ flight'[a][j] = start
  BY <1>1, <1>2 DEF Do, TypeOK
<1>4. flight' \in [Apis -> [Kinds -> Flights]]
  BY <1>1, <1>2 DEF Do, TypeOK, Flights
<1>5. flight'[req[r].api][k].phase # "idle"
  BY <1>1, <1>2 DEF Do, TypeOK
<1>6. TypeOK'
  BY <1>1, <1>4 DEF TypeOK, Flights
<1>7. ReadInv'
  <2> SUFFICES ASSUME NEW a \in Apis, NEW j \in Kinds
               PROVE  /\ flight'[a][j].data <= flight'[a][j].run
                      /\ flight'[a][j].phase \notin {"read", "stored"} => flight'[a][j].data = 0
    BY DEF ReadInv, HasRead
  <2>1. CASE flight'[a][j] = flight[a][j]
    BY <2>1 DEF ReadInv, HasRead
  <2>2. CASE flight'[a][j] = start
    BY <2>2
  <2> QED
    BY <1>3, <2>1, <2>2
<1>8. WaitInv'
  <2> SUFFICES ASSUME NEW q \in Requests
               PROVE  /\ pc'[q] \in {"get", "miss"} => req[q].age <= MaxGet
                      /\ pc'[q] = "waiting" =>
                           /\ flight'[req[q].api]["miss"].phase # "idle"
                           /\ req[q].age <= MaxGet + flight'[req[q].api]["miss"].run
    BY <1>1 DEF WaitInv, Busy
  <2>1. req[q].api \in Apis /\ "miss" \in Kinds
    BY DEF TypeOK, Kinds
  <2>2. CASE q # r
    BY <2>1, <2>2, <1>1, <1>3 DEF WaitInv, Busy, TypeOK
  <2>3. CASE q = r
    <3>1. flight'[req[r].api]["miss"].run \in Nat
      BY <2>1, <2>3, <1>4, Windows DEF Flights
    <3> QED
      BY <2>1, <2>3, <1>1, <1>5, <3>1, Windows DEF WaitInv, TypeOK
  <2> QED
    BY <2>2, <2>3
<1>9. AnswersAreBounded'
  BY <1>1 DEF AnswersAreBounded
<1> QED
  BY <1>6, <1>7, <1>8, <1>9

-----------------------------------------------------------------------------
\* Steps of a computation before it returns.
LEMMA NextCompute ==
    ASSUME CacheInv, NEW a \in Apis, NEW k \in Kinds, Read(a, k) \/ Store(a, k)
    PROVE  CacheInv'
<1> USE DEF CacheInv
<1>1. flight[a][k] \in Flights
  BY DEF TypeOK, Flights
<1>2. PICK f \in Flights :
        /\ flight' = [flight EXCEPT ![a][k] = f]
        /\ f.phase # "idle" /\ flight[a][k].phase # "idle" /\ f.run = flight[a][k].run
        /\ f.data <= f.run /\ (f.phase \notin {"read", "stored"} => f.data = 0)
        /\ UNCHANGED <<pc, req, reply>>
  <2>1. CASE Read(a, k)
    <3>1. PICK ph \in {"read", "failed"} : Advance(a, k, ph, 0)
      BY <2>1 DEF Read
    <3> DEFINE g == [flight[a][k] EXCEPT !.phase = ph, !.data = 0]
    <3>0. 0 \in 0..MaxCompute
      BY Windows
    <3>2. /\ g \in Flights
          /\ g.phase = ph /\ g.data = 0 /\ g.run = flight[a][k].run
      BY <1>1, <3>0 DEF Flights, Phases
    <3> HIDE DEF g
    <3>3. 0 <= g.run
      BY <3>2, Windows DEF Flights
    <3>4. flight' = [flight EXCEPT ![a][k] = g]
      BY <3>1 DEF Advance, g
    <3> QED
      BY <2>1, <3>2, <3>3, <3>4 DEF Read
  <2>2. CASE Store(a, k)
    <3>1. [flight[a][k] EXCEPT !.phase = "stored", !.data = flight[a][k].data] \in Flights
      BY <1>1 DEF Flights, Phases
    <3>2. flight[a][k].data <= flight[a][k].run
      BY DEF ReadInv
    <3> QED
      BY <1>1, <2>2, <3>1, <3>2 DEF Store, Cacheable, Advance, Flights
  <2> QED
    BY <2>1, <2>2
<1>3. flight' \in [Apis -> [Kinds -> Flights]]
  BY <1>2 DEF TypeOK, Flights
<1>4. \A b \in Apis, j \in Kinds :
        flight'[b][j] = flight[b][j] \/ (b = a /\ j = k /\ flight'[b][j] = f)
  BY <1>2 DEF TypeOK
<1>5. entry' = entry \/ entry' = [data |-> flight[a][k].data, stored |-> 0]
  BY DEF Read, Store
<1>6. TypeOK'
  <2>1. entry' # None =>
         /\ entry'.data \in Nat /\ entry'.stored \in 0..HardTTL
         /\ entry'.stored <= entry'.data /\ entry'.data <= entry'.stored + MaxCompute
    BY <1>1, <1>5, Windows DEF TypeOK, Flights
  <2> QED
    BY <2>1, <1>2, <1>3 DEF TypeOK, Flights
<1>7. ReadInv'
  BY <1>2, <1>4 DEF ReadInv, HasRead
<1>8. WaitInv'
  <2> SUFFICES ASSUME NEW q \in Requests, pc[q] = "waiting"
               PROVE  /\ flight'[req[q].api]["miss"].phase # "idle"
                      /\ req[q].age <= MaxGet + flight'[req[q].api]["miss"].run
    BY <1>2 DEF WaitInv, Busy
  <2>1. req[q].api \in Apis /\ "miss" \in Kinds
    BY DEF TypeOK, Kinds
  <2>2. /\ flight[req[q].api]["miss"].phase # "idle"
        /\ req[q].age <= MaxGet + flight[req[q].api]["miss"].run
    BY DEF WaitInv, Busy
  <2> QED
    BY <2>1, <2>2, <1>2, <1>4
<1>9. AnswersAreBounded'
  BY <1>2 DEF AnswersAreBounded
<1> QED
  BY <1>6, <1>7, <1>8, <1>9

\* A computation returns: everyone who waited is answered with what it read.
LEMMA NextReturn ==
    ASSUME CacheInv, NEW a \in Apis, NEW k \in Kinds, Return(a, k)
    PROVE  CacheInv'
<1> USE DEF CacheInv
<1> DEFINE d == flight[a][k].data
           how == IF flight[a][k].phase = "stored" THEN "miss" ELSE "error"
           done == IF k = "miss" THEN Released(a) ELSE {}
           Replies == [how : {"none", "hit", "stale", "miss", "error"}, age : 0..MaxAge]
<1>1. flight[a][k] \in Flights /\ Idle \in Flights
  BY Windows DEF TypeOK, Flights, Idle, Phases
<1>2. d \in 0..MaxCompute /\ d \in 0..MaxAge /\ how \in {"miss", "error"}
  BY <1>1, Windows DEF Flights, MaxAge
<1> HIDE DEF d, how
<1>3. \A r \in Requests : AnswerOf(how, d) \in Replies /\ AnswerOf(how, d).age = d
  BY <1>2 DEF AnswerOf
<1>4. /\ pc' = [r \in Requests |-> IF r \in done THEN "idle" ELSE pc[r]]
      /\ reply' = [r \in Requests |-> IF r \in done THEN AnswerOf(how, d) ELSE reply[r]]
      /\ req' = [r \in Requests |-> IF r \in done THEN [req[r] EXCEPT !.age = 0] ELSE req[r]]
      /\ flight' = [flight EXCEPT ![a][k] = Idle] /\ UNCHANGED entry
  BY DEF Return, d, how
<1> HIDE DEF done
<1>5. flight' \in [Apis -> [Kinds -> Flights]]
  BY <1>1, <1>4 DEF TypeOK, Flights
<1>6. \A b \in Apis, j \in Kinds :
        flight'[b][j] = IF b = a /\ j = k THEN Idle ELSE flight[b][j]
  BY <1>4 DEF TypeOK
<1>7. \A r \in Requests : [req[r] EXCEPT !.age = 0] \in Reqs /\ req[r] \in Reqs
  <2>1. \A r \in Requests : req[r] \in Reqs
    BY DEF TypeOK, Reqs, Waits
  <2> QED
    BY <2>1, ResetAge
<1>8. req' \in [Requests -> Reqs]
  BY <1>4, <1>7
<1>9. reply' \in [Requests -> Replies]
  BY <1>3, <1>4 DEF TypeOK
<1>10. TypeOK'
  BY <1>4, <1>5, <1>8, <1>9 DEF TypeOK, Flights, Reqs, Waits
<1>11. ReadInv'
  BY <1>6 DEF ReadInv, HasRead, Idle
<1>12. WaitInv'
  <2> SUFFICES ASSUME NEW q \in Requests
               PROVE  /\ pc'[q] \in {"get", "miss"} => req'[q].age <= MaxGet
                      /\ pc'[q] = "waiting" =>
                           /\ flight'[req'[q].api]["miss"].phase # "idle"
                           /\ req'[q].age <= MaxGet + flight'[req'[q].api]["miss"].run
    BY DEF WaitInv, Busy
  <2>1. CASE q \in done
    BY <2>1, <1>4
  <2>2. CASE q \notin done
    <3>1. pc'[q] = pc[q] /\ req'[q] = req[q]
      BY <2>2, <1>4
    <3>2. req[q].api \in Apis /\ "miss" \in Kinds
      BY DEF TypeOK, Kinds
    <3>3. pc[q] = "waiting" => flight'[req[q].api]["miss"] = flight[req[q].api]["miss"]
      BY <2>2, <3>2, <1>6 DEF done, Released, Waiters
    <3> QED
      BY <3>1, <3>2, <3>3 DEF WaitInv, Busy
  <2> QED
    BY <2>1, <2>2
<1>13. AnswersAreBounded'
  <2> SUFFICES ASSUME NEW q \in Requests, reply'[q].how \in {"hit", "stale", "miss"}
               PROVE  reply'[q].age <= Bound(reply'[q].how)
    BY DEF AnswersAreBounded, Bound
  <2>1. CASE q \in done
    <3>1. reply'[q].age = d /\ reply'[q].how = how
      BY <2>1, <1>3, <1>4 DEF AnswerOf
    <3>2. d <= MaxCompute
      BY <1>2, Windows
    <3> QED
      BY <3>1, <3>2, <1>2 DEF Bound
  <2>2. CASE q \notin done
    BY <2>2, <1>4 DEF AnswersAreBounded
  <2> QED
    BY <2>1, <2>2
<1> QED
  BY <1>10, <1>11, <1>12, <1>13

-----------------------------------------------------------------------------
-----------------------------------------------------------------------------
LEMMA NextArrive ==
    ASSUME CacheInv, NEW r \in Requests, Arrive(r)
    PROVE  CacheInv'
<1> USE DEF CacheInv
<1>1. PICK q \in Reqs : /\ req' = [req EXCEPT ![r] = q] /\ q.age = 0
  <2>1. PICK refresh \in BOOLEAN :
          req' = [req EXCEPT ![r] = [api |-> req[r].api, refresh |-> refresh, age |-> 0]]
    BY DEF Arrive, TypeOK
  <2>2. req[r].api \in Apis
    BY DEF TypeOK
  <2> DEFINE q == [api |-> req[r].api, refresh |-> refresh, age |-> 0]
  <2>3. q \in Reqs /\ q.age = 0
    BY <2>2, WaitZero DEF Reqs
  <2>4. req' = [req EXCEPT ![r] = q]
    BY <2>1
  <2> HIDE DEF q
  <2> QED
    BY <2>3, <2>4
<1>2. /\ reply' = [reply EXCEPT ![r] = NoReply] /\ pc' = [pc EXCEPT ![r] = "get"]
      /\ UNCHANGED <<entry, flight>>
  BY DEF Arrive, Goto
<1>3. NoReply \in [how : {"none", "hit", "stale", "miss", "error"}, age : 0..MaxAge]
  <2>1. 0 \in 0..MaxAge
    BY Windows
  <2> QED
    BY <2>1 DEF NoReply
<1>4. TypeOK'
  BY <1>1, <1>2, <1>3 DEF TypeOK, Reqs, Waits
<1>5. ReadInv'
  BY <1>2 DEF ReadInv, HasRead
<1>6. WaitInv'
  <2>1. \A p \in Requests : p # r => req'[p] = req[p] /\ pc'[p] = pc[p]
    BY <1>1, <1>2 DEF TypeOK
  <2>2. pc'[r] = "get" /\ req'[r].age = 0
    BY <1>1, <1>2 DEF TypeOK
  <2> QED
    BY <2>1, <2>2, <1>2, Windows DEF WaitInv, Busy
<1>7. AnswersAreBounded'
  BY <1>2 DEF AnswersAreBounded, TypeOK, NoReply, Bound
<1> QED
  BY <1>4, <1>5, <1>6, <1>7

LEMMA NextMiss ==
    ASSUME CacheInv, NEW r \in Requests, GetMiss(r)
    PROVE  CacheInv'
  BY DEF CacheInv, GetMiss, Goto, TypeOK, ReadInv, WaitInv, HasRead, Busy, AnswersAreBounded

\* The clock adds one to the entry's two ages together, and to a computation and
\* its read together.
LEMMA NextTick ==
    ASSUME CacheInv, Tick
    PROVE  CacheInv'
<1> USE DEF CacheInv
<1>1. entry' # None => /\ entry # None /\ entry'.data = entry.data + 1
                       /\ entry'.stored = entry.stored + 1 /\ entry.stored < HardTTL
  BY Windows DEF Tick, Live, Expired, TypeOK
<1>2. ASSUME NEW a \in Apis, NEW k \in Kinds
      PROVE  /\ flight'[a][k] \in Flights
             /\ flight'[a][k].phase = flight[a][k].phase
             /\ Busy(a, k) => flight'[a][k].run = flight[a][k].run + 1
             /\ flight'[a][k].data <= flight'[a][k].run
             /\ ~HasRead(a, k) => flight'[a][k].data = 0
  <2> DEFINE run == IF Busy(a, k) THEN flight[a][k].run + 1 ELSE 0
             data == IF HasRead(a, k) THEN flight[a][k].data + 1 ELSE 0
  <2>1. flight'[a][k] = [phase |-> flight[a][k].phase, run |-> run, data |-> data]
    BY DEF Tick
  <2>2. flight[a][k] \in Flights
    BY DEF TypeOK, Flights
  <2>3. run \in 0..MaxCompute
    BY <2>2, Windows DEF Tick, Flights
  <2>4. data \in Nat /\ data <= run
    BY <2>2, Windows DEF ReadInv, HasRead, Busy, Flights
  <2>5. data \in 0..MaxCompute
    BY <2>3, <2>4, Windows
  <2> QED
    BY <2>1, <2>2, <2>3, <2>4, <2>5 DEF Flights
<1>3. flight' \in [Apis -> [Kinds -> Flights]]
  <2>1. flight' = [a \in Apis |-> [k \in Kinds |-> flight'[a][k]]]
    BY DEF Tick
  <2> QED
    BY <1>2, <2>1
<1>4. ASSUME NEW r \in Requests
      PROVE  /\ req'[r] \in Reqs /\ req'[r].api = req[r].api
             /\ pc[r] = "get" => req'[r].age <= MaxGet
             /\ pc[r] = "waiting" =>
                  req'[r].age <= MaxGet + flight'[req[r].api]["miss"].run
  <2>1. req[r] \in Reqs /\ pc[r] # "miss" /\ "miss" \in Kinds
    BY DEF Tick, TypeOK, Reqs, Waits, Kinds
  <2>2. CASE ~Pending(r)
    BY <2>1, <2>2 DEF Tick, Pending
  <2>3. CASE pc[r] = "get"
    <3>1. req'[r] = [req[r] EXCEPT !.age = req[r].age + 1] /\ req[r].age < MaxGet
      BY <2>3 DEF Tick, Pending
    <3>2. req[r].age + 1 \in Waits /\ req[r].age + 1 <= MaxGet
      BY <2>1, <3>1, Windows DEF Reqs, Waits
    <3> QED
      BY <2>1, <2>3, <3>1, <3>2 DEF Reqs
  <2>4. CASE pc[r] = "waiting"
    <3>1. req'[r] = [req[r] EXCEPT !.age = req[r].age + 1] /\ req[r].api \in Apis
      BY <2>1, <2>4 DEF Tick, Pending, Reqs
    <3>2. /\ flight'[req[r].api]["miss"].run = flight[req[r].api]["miss"].run + 1
          /\ flight[req[r].api]["miss"].run \in 0..MaxCompute
          /\ flight[req[r].api]["miss"].run < MaxCompute
          /\ req[r].age <= MaxGet + flight[req[r].api]["miss"].run
      BY <2>1, <2>4, <3>1, <1>2 DEF WaitInv, TypeOK, Tick
    <3>3. /\ req[r].age + 1 \in Waits
          /\ req[r].age + 1 <= MaxGet + flight'[req[r].api]["miss"].run
      BY <2>1, <3>2, Windows DEF Reqs, Waits
    <3> QED
      BY <2>1, <2>4, <3>1, <3>3 DEF Reqs
  <2> QED
    BY <2>1, <2>2, <2>3, <2>4 DEF Pending
<1>5. req' \in [Requests -> Reqs]
  <2>1. req' = [r \in Requests |-> req'[r]]
    BY DEF Tick
  <2> QED
    BY <1>4, <2>1
<1>6. TypeOK'
  <2>1. entry' # None =>
         /\ entry'.data \in Nat /\ entry'.stored \in 0..HardTTL
         /\ entry'.stored <= entry'.data /\ entry'.data <= entry'.stored + MaxCompute
    BY <1>1, Windows DEF TypeOK
  <2>2. pc' = pc /\ reply' = reply
    BY DEF Tick
  <2> QED
    BY <2>1, <2>2, <1>3, <1>5 DEF TypeOK, Flights, Reqs, Waits
<1>7. ReadInv'
  BY <1>2 DEF ReadInv, HasRead
<1>8. WaitInv'
  <2>1. pc' = pc /\ \A r \in Requests : pc[r] # "miss"
    BY DEF Tick
  <2>2. \A r \in Requests : pc[r] = "waiting" =>
          req[r].api \in Apis /\ flight[req[r].api]["miss"].phase # "idle" /\ "miss" \in Kinds
    BY DEF WaitInv, Busy, TypeOK, Kinds
  <2> QED
    BY <2>1, <2>2, <1>2, <1>4 DEF WaitInv, Busy
<1>9. AnswersAreBounded'
  BY DEF Tick, AnswersAreBounded
<1> QED
  BY <1>6, <1>7, <1>8, <1>9

LEMMA NextCacheInv == CacheInv /\ [Next]_vars => CacheInv'
<1> SUFFICES ASSUME CacheInv, [Next]_vars PROVE CacheInv'
  OBVIOUS
<1>1. CASE UNCHANGED vars
  BY <1>1 DEF vars, CacheInv, TypeOK, ReadInv, WaitInv, HasRead, Busy, AnswersAreBounded
<1>2. CASE Next
  BY <1>2, NextGet, NextDo, NextMiss, NextArrive, NextCompute, NextReturn, NextTick
  DEF Next, Progress
<1> QED
  BY <1>1, <1>2

LEMMA CacheInvariant == Spec => []CacheInv
  BY InitCacheInv, NextCacheInv, PTL DEF Spec

\* Type correctness, with the bounds on the ages of an entry: its data is older
\* than its timestamp by at most one computation.
THEOREM CacheTypes == Spec => []TypeOK
<1>1. CacheInv => TypeOK
  BY DEF CacheInv
<1> QED
  BY <1>1, CacheInvariant, PTL

\* No answer is older than the policy of its key allows, however computations,
\* processes and failures interleave (middleware.go:259).
THEOREM CacheAnswersAreBounded == Spec => []AnswersAreBounded
<1>1. CacheInv => AnswersAreBounded
  BY DEF CacheInv
<1> QED
  BY <1>1, CacheInvariant, PTL
=============================================================================
