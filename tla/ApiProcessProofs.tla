-------------------------- MODULE ApiProcessProofs --------------------------
(***************************************************************************)
(* Proofs about the API process and the callers of Vertex in it, for any   *)
(* requests, deployments, loops, slots and bounds.                         *)
(*                                                                         *)
(* Slots, stores and tables need to know where init and main are           *)
(* (BootInv).  That an answer is never replaced by an older one needs two  *)
(* facts about who is on the way with it: every fetch that runs is the one *)
(* its cache has in flight (FlightInv), and what it has fetched is still   *)
(* the newest when it arrives, since whoever else could store something    *)
(* would have to be that flight, or the leader of that search              *)
(* (AnswersAreNewest).                                                     *)
(***************************************************************************)
EXTENDS ApiProcess, TLAPS

Fetching == {"missed", "waiting", "leading", "answered"}
Labels == Fetching \union {"new", "over", "asleep", "queued", "working", "profile", "recommended",
                           "lookup", "search", "refresh", "grouped"}

\* Where a caller may be before it fetches, or without fetching.
Outside(c) ==
    CASE c = Sync -> {"asleep"}
      [] c = Async -> {"refresh", "grouped"}
      [] c \in Requests /\ Kind(c) \in Gated -> {"queued", "working"}
      [] c \in Requests /\ Kind(c) = "profile" -> {"profile"}
      [] c \in Requests /\ Kind(c) = "search" -> {"search", "refresh", "grouped"}
      [] c \in Requests /\ Kind(c) = "recommended" -> {"recommended", "lookup"}
      [] OTHER -> {}

\* Only callers that have a cache fetch, and no request is at a place of another kind.
PathsKept ==
    /\ pc \in [Callers -> Labels]
    /\ \A c \in Callers : pc[c] \in {"new", "over"} \union Outside(c) \union Fetching
    /\ \A c \in Callers : pc[c] \in Fetching => CacheOf(c) \in Caches

\* Requests are only under way in a process that has published its store, and the
\* loops only start once.
BootInv ==
    /\ published => init = "done" /\ store = "open" /\ Running
    /\ init \in {"building", "wiring"} => store = "open"
    /\ init \in {"opening", "building"} => pc[Sync] = "over" /\ \A l \in Loops : loop[l] = "off"
    /\ \A r \in Requests : pc[r] \notin {"new", "over"} => published
    /\ SlotsAccounted /\ LoopsHaveTables

\* Every fetch that runs is the one its cache has in flight; a search is only fetched by
\* who leads the singleflight group.
FlightInv ==
    /\ FlightsAreLed
    /\ \A k \in Caches : inflight[k] # None => CacheOf(inflight[k]) = k
    /\ \A f \in Fetchers : stage[f] # "none" => CacheOf(f) \in Caches /\ inflight[CacheOf(f)] = f
    /\ \A c \in Callers : stage[c] # "none" => pc[c] = "leading"
    /\ \A k \in Caches : stage[k] # "none" => k = "recommended"
    /\ \A c \in Callers : pc[c] = "waiting" => joined[c] \in Fetchers /\ CacheOf(joined[c]) = CacheOf(c)
    /\ \A c \in Callers : CacheOf(c) = "search" /\ pc[c] \in Fetching => group = c

\* Nothing is newer than what the service has published.
NothingFromTheFuture ==
    /\ \A k \in Caches : entry[k] # None => entry[k].ver <= upstream
    /\ \A t \in Tables : saved[t] <= upstream
    /\ \A f \in Fetchers : answer[f] \in Versions => answer[f] <= upstream
    /\ \A c \in Callers : got[c] \in Versions => got[c] <= upstream

\* What is on its way is not older than what it will replace.
AnswersAreNewest ==
    /\ \A f \in Fetchers : stage[f] \in {"asked", "stored"} /\ answer[f] \in Versions =>
        /\ entry[CacheOf(f)] # None => entry[CacheOf(f)].ver <= answer[f]
        /\ CacheOf(f) = "search" => saved["search"] <= answer[f]
    /\ \A c \in Callers : CacheOf(c) = "search" /\ pc[c] = "answered" /\ got[c] \in Versions =>
        saved["search"] <= got[c]

VertexInv == VertexTypeOK /\ PathsKept /\ FlightInv /\ NothingFromTheFuture /\ AnswersAreNewest

ProcessTypes ==
    /\ deploy \in Deployments
    /\ init \in {"opening", "building", "wiring", "done"}
    /\ main \in {"serving", "draining", "exited", "crashed"}
    /\ migrated \in BOOLEAN /\ published \in BOOLEAN
    /\ store \in {"none", "open", "closed"} /\ bucket \in 0..RateLimit
    /\ slots \subseteq Requests \union Loops
    /\ loop \in [Loops -> {"off", "waiting", "working", "ended", "panicked"}]

ApiInv == ProcessTypes /\ BootInv /\ VertexInv

\* The step of AnswersOnlyAdvance.
Advance == EntryOnlyAdvances /\ saved'["search"] >= saved["search"]

-----------------------------------------------------------------------------
(* Callers, their caches and their labels *)

LEMMA Who ==
    /\ \A c \in Callers : c \in Fetchers /\ c # None /\ c \notin Caches
    /\ \A k \in Caches : k \in Fetchers /\ k # None /\ k \notin Callers
    /\ Async \in Callers /\ Sync \in Callers /\ Async # Sync /\ Async \notin Requests /\ Sync \notin Requests
    /\ \A r \in Requests : r \in Callers /\ CacheOf(r) = Kind(r)
    /\ CacheOf(Async) = "search" /\ CacheOf(Sync) = "profile"
    /\ \A k \in Caches : CacheOf(k) = k
    /\ \A f \in Fetchers : f \in Callers \/ f \in Caches
    /\ Caches = {"profile", "search", "recommended"}
    /\ 0 \notin Versions /\ Versions \subseteq Nat /\ 1 \in Versions
    /\ Answers = Versions \union {0, MaxVersion + 1} /\ MaxVersion \in Nat /\ MaxVersion + 1 \notin Versions
<1>1. /\ \A c \in Callers : c \in Fetchers /\ c # None /\ c \notin Caches
      /\ \A k \in Caches : k \in Fetchers /\ k # None /\ k \notin Callers
      /\ Async \in Callers /\ Sync \in Callers /\ Async # Sync /\ Async \notin Requests /\ Sync \notin Requests
      /\ \A r \in Requests : r \in Callers
      /\ \A f \in Fetchers : f \in Callers \/ f \in Caches
  BY CachedCallAssumption, VertexAssumption DEF Fetchers
<1>2. \A r \in Requests : CacheOf(r) = Kind(r)
  BY <1>1 DEF CacheOf
<1>3. CacheOf(Async) = "search" /\ CacheOf(Sync) = "profile"
  BY <1>1 DEF CacheOf
<1>4. \A k \in Caches : CacheOf(k) = k
  BY <1>1 DEF CacheOf
<1>5. /\ 0 \notin Versions /\ Versions \subseteq Nat /\ 1 \in Versions
      /\ Answers = Versions \union {0, MaxVersion + 1} /\ MaxVersion \in Nat /\ MaxVersion + 1 \notin Versions
  BY CachedCallAssumption DEF Versions, Answers, Error, Empty
<1> QED
  BY <1>1, <1>2, <1>3, <1>4, <1>5, VertexAssumption

LEMMA VersionOrder == \A v \in Versions : v \in Nat /\ v <= v
  BY CachedCallAssumption DEF Versions

\* A deployment does not change.
LEMMA SameDeployment ==
    ASSUME deploy' = deploy
    PROVE  /\ \A f \in Fetchers : CacheOf(f)' = CacheOf(f)
           /\ \A c \in Callers : Outside(c)' = Outside(c) /\ Kind(c)' = Kind(c)
<1>1. \A r : Kind(r)' = Kind(r)
  BY DEF Kind
<1> QED
  BY <1>1 DEF CacheOf, Outside

\* Where each label can be.
LEMMA Places ==
    ASSUME NEW c \in Callers
    PROVE  /\ "asleep" \in Outside(c) => c = Sync
           /\ {"queued", "working"} \intersect Outside(c) # {} => c \in Requests /\ Kind(c) \in Gated
           /\ "profile" \in Outside(c) => c \in Requests /\ CacheOf(c) = "profile"
           /\ "search" \in Outside(c) => c \in Requests /\ CacheOf(c) = "search"
           /\ {"refresh", "grouped"} \intersect Outside(c) # {} =>
                 CacheOf(c) = "search" /\ {"refresh", "grouped"} \subseteq Outside(c)
           /\ {"recommended", "lookup"} \intersect Outside(c) # {} => c \in Requests /\ CacheOf(c) = "recommended"
           /\ c \in Requests => "asleep" \notin Outside(c)
           /\ c \in Requests /\ Kind(c) \in Gated => Outside(c) = {"queued", "working"}
           /\ c \in Requests /\ Kind(c) = "profile" => Outside(c) = {"profile"}
           /\ c \in Requests /\ Kind(c) = "search" => Outside(c) = {"search", "refresh", "grouped"}
           /\ c \in Requests /\ Kind(c) = "recommended" => Outside(c) = {"recommended", "lookup"}
           /\ Outside(Async) = {"refresh", "grouped"} /\ Outside(Sync) = {"asleep"}
           /\ Outside(c) \subseteq Labels /\ Outside(c) \intersect Fetching = {}
<1>1. CASE c = Sync
  BY <1>1, Who DEF Outside, Labels, Fetching
<1>2. CASE c = Async
  BY <1>2, Who DEF Outside, Labels, Fetching
<1>3. CASE c \in Requests
  <2>1. c # Sync /\ c # Async /\ CacheOf(c) = Kind(c)
    BY <1>3, Who
  <2>2. Outside(Async) = {"refresh", "grouped"} /\ Outside(Sync) = {"asleep"}
    BY Who DEF Outside
  <2>3. CASE Kind(c) \in Gated
    <3>1. Outside(c) = {"queued", "working"}
      BY <1>3, <2>1, <2>3 DEF Outside, Gated
    <3> QED
      BY <1>3, <2>1, <2>2, <2>3, <3>1 DEF Labels, Fetching, Gated
  <2>4. CASE Kind(c) = "profile"
    <3>1. Outside(c) = {"profile"}
      BY <1>3, <2>1, <2>4 DEF Outside, Gated
    <3> QED
      BY <1>3, <2>1, <2>2, <2>4, <3>1 DEF Labels, Fetching, Gated
  <2>5. CASE Kind(c) = "search"
    <3>1. Outside(c) = {"search", "refresh", "grouped"}
      BY <1>3, <2>1, <2>5 DEF Outside, Gated
    <3> QED
      BY <1>3, <2>1, <2>2, <2>5, <3>1 DEF Labels, Fetching, Gated
  <2>6. CASE Kind(c) = "recommended"
    <3>1. Outside(c) = {"recommended", "lookup"}
      BY <1>3, <2>1, <2>6 DEF Outside, Gated
    <3> QED
      BY <1>3, <2>1, <2>2, <2>6, <3>1 DEF Labels, Fetching, Gated
  <2>7. CASE Kind(c) \notin Gated \union {"profile", "search", "recommended"}
    <3>1. Outside(c) = {}
      BY <1>3, <2>1, <2>7 DEF Outside
    <3> QED
      BY <1>3, <2>1, <2>2, <2>7, <3>1 DEF Labels, Fetching
  <2> QED
    BY <2>3, <2>4, <2>5, <2>6, <2>7
<1> QED
  BY <1>1, <1>2, <1>3, VertexAssumption

-----------------------------------------------------------------------------
(* Steps that begin no fetch and end none *)

\* Callers change their places, but no leader does; who is answered got an error; and
\* what is saved is nothing that a search on its way could be older than.
Moved ==
    /\ UNCHANGED <<deploy, upstream, entry, inflight, stage, answer, dead>>
    /\ \A c \in Callers : \/ pc'[c] = pc[c] /\ joined'[c] = joined[c]
                          \/ /\ pc[c] # "leading" /\ pc'[c] # "waiting"
                             /\ pc'[c] = "answered" => got'[c] = Error
    /\ \A c \in Callers : got'[c] = got[c] \/ got'[c] = Error
    /\ \A c \in Callers : CacheOf(c) = "search" /\ pc'[c] \in Fetching => group' = c
    /\ \A t \in Tables : saved'[t] <= upstream
    /\ saved'["search"] >= saved["search"]
    /\ \/ saved'["search"] = saved["search"]
       \/ \A c \in Callers : CacheOf(c) = "search" => pc'[c] \notin Fetching

LEMMA Moves ==
    ASSUME VertexInv, Moved
    PROVE  FlightInv' /\ NothingFromTheFuture' /\ AnswersAreNewest' /\ Advance
<1>1. /\ \A f \in Fetchers : CacheOf(f)' = CacheOf(f)
      /\ \A c \in Callers : CacheOf(c)' = CacheOf(c) /\ c \in Fetchers
      /\ \A k \in Caches : k \in Fetchers
  BY SameDeployment, Who DEF Moved
<1>2. /\ upstream' = upstream /\ entry' = entry /\ inflight' = inflight /\ stage' = stage
      /\ answer' = answer /\ dead' = dead
  BY DEF Moved
<1>3. FlightInv'
  <2>1. FlightsAreLed'
    BY <1>2 DEF VertexInv, FlightInv, FlightsAreLed
  <2>2. \A k \in Caches : inflight'[k] # None => CacheOf(inflight[k])' = k
    <3> SUFFICES ASSUME NEW k \in Caches, inflight[k] # None PROVE CacheOf(inflight[k])' = k
      BY <1>2
    <3>1. inflight[k] \in Fetchers /\ CacheOf(inflight[k]) = k
      BY DEF VertexInv, FlightInv, VertexTypeOK, CallsTypeOK
    <3> QED
      BY <1>2, <3>1, SameDeployment DEF Moved, CacheOf, Kind
  <2>3. \A f \in Fetchers : stage'[f] # "none" => CacheOf(f)' \in Caches /\ inflight'[CacheOf(f)'] = f
    BY <1>1, <1>2 DEF VertexInv, FlightInv
  <2>4. \A c \in Callers : stage'[c] # "none" => pc'[c] = "leading"
    BY <1>2 DEF VertexInv, FlightInv, Moved
  <2>5. \A c \in Callers : pc'[c] = "waiting" => joined'[c] \in Fetchers /\ CacheOf(joined[c])' = CacheOf(c)'
    <3> SUFFICES ASSUME NEW c \in Callers, pc'[c] = "waiting"
                 PROVE  joined'[c] \in Fetchers /\ CacheOf(joined[c])' = CacheOf(c)'
      OBVIOUS
    <3>1. joined'[c] = joined[c] /\ joined[c] \in Fetchers /\ CacheOf(joined[c]) = CacheOf(c)
      BY DEF VertexInv, FlightInv, Moved
    <3> QED
      BY <1>1, <3>1 DEF Moved, CacheOf, Kind
  <2>6. \A c \in Callers : CacheOf(c)' = "search" /\ pc'[c] \in Fetching => group' = c
    BY <1>1 DEF Moved
  <2> QED
    BY <1>1, <1>2, <2>1, <2>2, <2>3, <2>4, <2>5, <2>6 DEF VertexInv, FlightInv
<1>4. NothingFromTheFuture'
  BY <1>2, Who DEF VertexInv, NothingFromTheFuture, Moved, Error
<1>5. AnswersAreNewest'
  <2>1. ASSUME NEW f \in Fetchers, stage'[f] \in {"asked", "stored"}, answer'[f] \in Versions
        PROVE  /\ entry'[CacheOf(f)'] # None => entry'[CacheOf(f)'].ver <= answer'[f]
               /\ CacheOf(f)' = "search" => saved'["search"] <= answer'[f]
    <3>1. /\ entry[CacheOf(f)] # None => entry[CacheOf(f)].ver <= answer[f]
          /\ CacheOf(f) = "search" => saved["search"] <= answer[f]
      BY <1>2, <2>1 DEF VertexInv, AnswersAreNewest
    <3>2. ASSUME CacheOf(f) = "search" PROVE saved'["search"] = saved["search"]
      <4>1. f \in Callers
        BY <1>2, <2>1, <3>2, Who DEF VertexInv, FlightInv
      <4>2. pc'[f] = "leading"
        BY <1>2, <2>1, <4>1 DEF VertexInv, FlightInv, Moved
      <4> QED
        BY <3>2, <4>1, <4>2 DEF Moved, Fetching
    <3> QED
      BY <1>1, <1>2, <3>1, <3>2
  <2>2. ASSUME NEW c \in Callers, CacheOf(c)' = "search", pc'[c] = "answered", got'[c] \in Versions
        PROVE  saved'["search"] <= got'[c]
    <3>1. got'[c] = got[c] /\ pc[c] = "answered" /\ saved'["search"] = saved["search"]
      BY <1>1, <2>2, Who DEF Moved, Error, Fetching
    <3> QED
      BY <1>1, <2>2, <3>1 DEF VertexInv, AnswersAreNewest
  <2> QED
    BY <2>1, <2>2 DEF AnswersAreNewest
<1>6. Advance
  BY <1>2 DEF Moved, Advance, EntryOnlyAdvances, VertexInv, VertexTypeOK, CallsTypeOK, Versions
<1> QED
  BY <1>3, <1>4, <1>5, <1>6

-----------------------------------------------------------------------------
(* Steps of a fetch *)

\* FlightInv of the next state, in terms of the deployment of this one.
NextFlights ==
    /\ \A k \in Caches : inflight'[k] # None /\ k \notin dead' => stage'[inflight'[k]] # "none"
    /\ \A k \in Caches, f \in Fetchers : inflight'[k] = f => CacheOf(f) = k
    /\ \A f \in Fetchers : stage'[f] # "none" => CacheOf(f) \in Caches /\ inflight'[CacheOf(f)] = f
    /\ \A c \in Callers : stage'[c] # "none" => pc'[c] = "leading"
    /\ \A k \in Caches : stage'[k] # "none" => k = "recommended"
    /\ \A c \in Callers : pc'[c] = "waiting" => \E f \in Fetchers : joined'[c] = f /\ CacheOf(f) = CacheOf(c)
    /\ \A c \in Callers : CacheOf(c) = "search" /\ pc'[c] \in Fetching => group' = c

LEMMA FlightsThen ==
    ASSUME deploy' = deploy, NextFlights, inflight' \in [Caches -> Fetchers \union {None}]
    PROVE  FlightInv'
<1>1. /\ \A f \in Fetchers : CacheOf(f)' = CacheOf(f)
      /\ \A c \in Callers : CacheOf(c)' = CacheOf(c) /\ c \in Fetchers
  BY SameDeployment, Who
<1>2. \A k \in Caches : inflight'[k] # None => CacheOf(inflight[k])' = k
  <2> SUFFICES ASSUME NEW k \in Caches, inflight'[k] # None PROVE CacheOf(inflight[k])' = k
    OBVIOUS
  <2>1. PICK f \in Fetchers : inflight'[k] = f
    OBVIOUS
  <2>2. CacheOf(f) = k
    BY <2>1 DEF NextFlights
  <2> QED
    BY <2>1, <2>2 DEF CacheOf, Kind
<1>3. \A c \in Callers : pc'[c] = "waiting" => joined'[c] \in Fetchers /\ CacheOf(joined[c])' = CacheOf(c)'
  <2> SUFFICES ASSUME NEW c \in Callers, pc'[c] = "waiting"
               PROVE  joined'[c] \in Fetchers /\ CacheOf(joined[c])' = CacheOf(c)'
    OBVIOUS
  <2>1. PICK f \in Fetchers : joined'[c] = f /\ CacheOf(f) = CacheOf(c)
    BY DEF NextFlights
  <2> QED
    BY <1>1, <2>1 DEF CacheOf, Kind
<1> QED
  BY <1>1, <1>2, <1>3 DEF NextFlights, FlightInv, FlightsAreLed

\* AnswersAreNewest of the next state, in the same way.
NextNewest ==
    /\ \A f \in Fetchers : stage'[f] \in {"asked", "stored"} /\ answer'[f] \in Versions =>
        /\ entry'[CacheOf(f)] # None => entry'[CacheOf(f)].ver <= answer'[f]
        /\ CacheOf(f) = "search" => saved'["search"] <= answer'[f]
    /\ \A c \in Callers : CacheOf(c) = "search" /\ pc'[c] = "answered" /\ got'[c] \in Versions =>
        saved'["search"] <= got'[c]

LEMMA NewestThen == ASSUME deploy' = deploy, NextNewest PROVE AnswersAreNewest'
  BY SameDeployment, Who DEF NextNewest, AnswersAreNewest

\* Callers that fetch are answered.
LEMMA Returned ==
    ASSUME VertexInv, deploy' = deploy, NEW who \in SUBSET Callers, NEW v \in Answers, Return(who, v),
           \A c \in who : CacheOf(c) \in Caches
    PROVE  /\ PathsKept' /\ joined' \in [Callers -> Fetchers \union {None}] /\ got' \in [Callers -> Answers]
           /\ \A c \in who : pc'[c] = "answered" /\ got'[c] = v
           /\ \A c \in Callers \ who : pc'[c] = pc[c] /\ got'[c] = got[c] /\ joined'[c] = joined[c]
<1>1. /\ \A c \in who : pc'[c] = "answered" /\ got'[c] = v
      /\ \A c \in Callers \ who : pc'[c] = pc[c] /\ got'[c] = got[c] /\ joined'[c] = joined[c]
  BY DEF Return
<1>2. pc' \in [Callers -> Labels]
  BY DEF Return, VertexInv, PathsKept, Labels, Fetching
<1>3. joined' \in [Callers -> Fetchers \union {None}] /\ got' \in [Callers -> Answers]
  BY DEF Return, VertexInv, VertexTypeOK, CallsTypeOK
<1>4. PathsKept'
  <2>1. \A c \in Callers : pc'[c] \in {"new", "over"} \union Outside(c) \union Fetching
    BY <1>1 DEF VertexInv, PathsKept, Fetching
  <2>2. \A c \in Callers : pc'[c] \in Fetching => CacheOf(c) \in Caches
    BY <1>1 DEF VertexInv, PathsKept
  <2> QED
    BY <1>2, <2>1, <2>2, SameDeployment, Who DEF PathsKept
<1> QED
  BY <1>1, <1>3, <1>4

\* Cached in the process or looked up again in the background (cache.go:61-95).
LEMMA LookupKeeps ==
    ASSUME VertexInv, deploy' = deploy, NEW c \in Callers, Lookup(c, CacheOf(c)), UNCHANGED tables
    PROVE  VertexInv' /\ Advance
<1> DEFINE k == CacheOf(c)
<1>1. /\ pc[c] = "lookup" /\ k = "recommended" /\ k \in Caches /\ k \in Fetchers /\ k \notin Callers
      /\ CacheOf(k) = k
  BY Places, Who DEF Lookup, VertexInv, PathsKept, Fetching
<1>2. /\ upstream' = upstream /\ failures' = failures /\ entry' = entry /\ answer' = answer /\ dead' = dead
      /\ saved' = saved /\ old' = old /\ group' = group
  BY DEF Lookup, tables
<1>3. /\ PathsKept' /\ joined' \in [Callers -> Fetchers \union {None}] /\ got' \in [Callers -> Answers]
      /\ pc'[c] \in {"missed", "answered"}
      /\ \A d \in Callers \ {c} : pc'[d] = pc[d] /\ got'[d] = got[d] /\ joined'[d] = joined[d]
      /\ got'[c] \in Versions => got'[c] <= upstream
  <2>1. CASE entry[k] = None
    <3>1. pc' = [pc EXCEPT ![c] = "missed"] /\ joined' = joined /\ got' = got
      BY <2>1 DEF Lookup
    <3>2. pc' \in [Callers -> Labels] /\ pc'[c] = "missed" /\ \A d \in Callers \ {c} : pc'[d] = pc[d]
      BY <3>1 DEF VertexInv, PathsKept, Labels, Fetching
    <3>3. PathsKept'
      BY <1>1, <3>2, SameDeployment, Who DEF VertexInv, PathsKept, Fetching
    <3> QED
      BY <3>1, <3>2, <3>3 DEF VertexInv, VertexTypeOK, CallsTypeOK, NothingFromTheFuture
  <2>2. CASE entry[k] # None
    <3>1. Return({c}, entry[k].ver) /\ entry[k].ver \in Answers /\ entry[k].ver <= upstream
      BY <1>1, <2>2, Who DEF Lookup, VertexInv, VertexTypeOK, CallsTypeOK, NothingFromTheFuture
    <3>2. {c} \in SUBSET Callers /\ \A d \in {c} : CacheOf(d) \in Caches
      BY <1>1
    <3>3. /\ PathsKept' /\ joined' \in [Callers -> Fetchers \union {None}] /\ got' \in [Callers -> Answers]
          /\ \A d \in {c} : pc'[d] = "answered" /\ got'[d] = entry[k].ver
          /\ \A d \in Callers \ {c} : pc'[d] = pc[d] /\ got'[d] = got[d] /\ joined'[d] = joined[d]
      BY <3>1, <3>2, Returned
    <3> QED
      BY <3>1, <3>3
  <2> QED
    BY <2>1, <2>2
<1>4. /\ inflight' \in [Caches -> Fetchers \union {None}]
      /\ stage' \in [Fetchers -> {"none", "asking", "asked", "stored"}]
      /\ \A f \in Fetchers \ {k} : stage'[f] = stage[f]
      /\ \A j \in Caches \ {k} : inflight'[j] = inflight[j]
      /\ \/ inflight'[k] = inflight[k] /\ stage'[k] = stage[k]
         \/ inflight[k] = None /\ inflight'[k] = k /\ stage'[k] = "asking"
  BY <1>1 DEF Lookup, VertexInv, VertexTypeOK, CallsTypeOK
<1>5. VertexTypeOK'
  BY <1>2, <1>3, <1>4 DEF VertexInv, VertexTypeOK, CallsTypeOK
<1>6. NextFlights
  <2>1. \A j \in Caches : inflight'[j] # None /\ j \notin dead' => stage'[inflight'[j]] # "none"
    <3>1. \A j \in Caches : inflight[j] # None => inflight[j] \in Fetchers
      BY DEF VertexInv, VertexTypeOK, CallsTypeOK
    <3> QED
      BY <1>1, <1>2, <1>4, <3>1 DEF VertexInv, FlightInv, FlightsAreLed
  <2>2. \A j \in Caches, f \in Fetchers : inflight'[j] = f => CacheOf(f) = j
    BY <1>1, <1>4, Who DEF VertexInv, FlightInv
  <2>3. \A f \in Fetchers : stage'[f] # "none" => CacheOf(f) \in Caches /\ inflight'[CacheOf(f)] = f
    BY <1>1, <1>4, Who DEF VertexInv, FlightInv
  <2>4. \A d \in Callers : stage'[d] # "none" => pc'[d] = "leading"
    BY <1>1, <1>3, <1>4, Who DEF VertexInv, FlightInv
  <2>5. \A j \in Caches : stage'[j] # "none" => j = "recommended"
    BY <1>1, <1>4, Who DEF VertexInv, FlightInv
  <2>6. \A d \in Callers : pc'[d] = "waiting" => \E f \in Fetchers : joined'[d] = f /\ CacheOf(f) = CacheOf(d)
    BY <1>3 DEF VertexInv, FlightInv
  <2>7. \A d \in Callers : CacheOf(d) = "search" /\ pc'[d] \in Fetching => group' = d
    BY <1>1, <1>2, <1>3 DEF VertexInv, FlightInv
  <2> QED
    BY <2>1, <2>2, <2>3, <2>4, <2>5, <2>6, <2>7 DEF NextFlights
<1>7. NothingFromTheFuture'
  BY <1>2, <1>3 DEF VertexInv, NothingFromTheFuture
<1>8. NextNewest
  BY <1>1, <1>2, <1>3, <1>4 DEF VertexInv, AnswersAreNewest, NextNewest
<1>9. Advance
  BY <1>2 DEF Advance, EntryOnlyAdvances, VertexInv, VertexTypeOK, CallsTypeOK, Versions, Tables
<1> QED
  BY <1>3, <1>4, <1>5, <1>6, <1>7, <1>8, <1>9, FlightsThen, NewestThen DEF VertexInv

\* A caller joins the flight there is, or leads one (cache.go:97-131).
LEMMA FetchOnceKeeps ==
    ASSUME VertexInv, deploy' = deploy, NEW c \in Callers, FetchOnce(c, CacheOf(c)), UNCHANGED tables
    PROVE  VertexInv' /\ Advance
<1> DEFINE k == CacheOf(c)
<1>1. /\ pc[c] = "missed" /\ k \in Caches /\ c \in Fetchers /\ c \notin Caches /\ c # None
      /\ pc \in [Callers -> Labels] /\ inflight \in [Caches -> Fetchers \union {None}]
      /\ stage \in [Fetchers -> {"none", "asking", "asked", "stored"}]
  BY Who DEF FetchOnce, VertexInv, PathsKept, Fetching, VertexTypeOK, CallsTypeOK
<1>2. /\ upstream' = upstream /\ failures' = failures /\ entry' = entry /\ answer' = answer /\ dead' = dead
      /\ saved' = saved /\ old' = old /\ group' = group /\ got' = got
  BY DEF FetchOnce, tables
<1>3. /\ pc' \in [Callers -> Labels] /\ pc'[c] \in {"waiting", "leading"}
      /\ \A d \in Callers \ {c} : pc'[d] = pc[d]
  BY <1>1 DEF FetchOnce, Labels, Fetching
<1>4. PathsKept'
  BY <1>1, <1>3, SameDeployment, Who DEF VertexInv, PathsKept, Fetching
<1>5. NothingFromTheFuture'
  BY <1>2 DEF VertexInv, NothingFromTheFuture
<1>6. Advance
  BY <1>2 DEF Advance, EntryOnlyAdvances, VertexInv, VertexTypeOK, CallsTypeOK, Versions, Tables
<1>7. \A d \in Callers : CacheOf(d) = "search" /\ pc'[d] \in Fetching => group' = d
  BY <1>1, <1>2, <1>3 DEF VertexInv, FlightInv, Fetching
<1>8. \A d \in Callers : CacheOf(d) = "search" /\ pc'[d] = "answered" /\ got'[d] \in Versions =>
        saved'["search"] <= got'[d]
  BY <1>2, <1>3 DEF VertexInv, AnswersAreNewest
<1>9. CASE inflight[k] # None
  <2>1. /\ pc'[c] = "waiting" /\ inflight' = inflight /\ stage' = stage
        /\ joined' = [joined EXCEPT ![c] = inflight[k]] /\ inflight[k] \in Fetchers
    BY <1>1, <1>9 DEF FetchOnce, Joinable
  <2>2. joined' \in [Callers -> Fetchers \union {None}] /\ joined'[c] = inflight[k]
        /\ \A d \in Callers \ {c} : joined'[d] = joined[d]
    BY <2>1 DEF VertexInv, VertexTypeOK, CallsTypeOK
  <2>3. VertexTypeOK'
    BY <1>2, <2>1, <2>2 DEF VertexInv, VertexTypeOK, CallsTypeOK
  <2>4. NextFlights
    <3>1. /\ \A j \in Caches : inflight'[j] # None /\ j \notin dead' => stage'[inflight'[j]] # "none"
          /\ \A j \in Caches, f \in Fetchers : inflight'[j] = f => CacheOf(f) = j
          /\ \A f \in Fetchers : stage'[f] # "none" => CacheOf(f) \in Caches /\ inflight'[CacheOf(f)] = f
          /\ \A j \in Caches : stage'[j] # "none" => j = "recommended"
      BY <1>2, <2>1, Who DEF VertexInv, FlightInv, FlightsAreLed
    <3>2. \A d \in Callers : stage'[d] # "none" => pc'[d] = "leading"
      BY <1>1, <1>3, <2>1 DEF VertexInv, FlightInv
    <3>3. \A d \in Callers : pc'[d] = "waiting" => \E f \in Fetchers : joined'[d] = f /\ CacheOf(f) = CacheOf(d)
      BY <1>1, <1>3, <1>9, <2>1, <2>2 DEF VertexInv, FlightInv
    <3> QED
      BY <1>7, <3>1, <3>2, <3>3 DEF NextFlights
  <2>5. NextNewest
    BY <1>2, <1>8, <2>1 DEF VertexInv, AnswersAreNewest, NextNewest
  <2> QED
    BY <1>1, <1>4, <1>5, <1>6, <2>1, <2>3, <2>4, <2>5, FlightsThen, NewestThen DEF VertexInv
<1>10. CASE inflight[k] = None
  <2>1. /\ pc'[c] = "leading" /\ inflight' = [inflight EXCEPT ![k] = c]
        /\ stage' = [stage EXCEPT ![c] = "asking"] /\ joined' = joined
    BY <1>1, <1>10 DEF FetchOnce, Joinable
  <2>2. /\ inflight' \in [Caches -> Fetchers \union {None}] /\ inflight'[k] = c
        /\ \A j \in Caches \ {k} : inflight'[j] = inflight[j]
        /\ stage' \in [Fetchers -> {"none", "asking", "asked", "stored"}] /\ stage'[c] = "asking"
        /\ \A f \in Fetchers \ {c} : stage'[f] = stage[f]
    BY <1>1, <2>1
  <2>3. VertexTypeOK'
    BY <1>2, <1>3, <2>1, <2>2 DEF VertexInv, VertexTypeOK, CallsTypeOK
  <2>4. NextFlights
    <3>1. \A j \in Caches : inflight'[j] # None /\ j \notin dead' => stage'[inflight'[j]] # "none"
      BY <1>1, <1>2, <2>2 DEF VertexInv, FlightInv, FlightsAreLed
    <3>2. \A j \in Caches, f \in Fetchers : inflight'[j] = f => CacheOf(f) = j
      BY <1>1, <2>2, Who DEF VertexInv, FlightInv
    <3>3. \A f \in Fetchers : stage'[f] # "none" => CacheOf(f) \in Caches /\ inflight'[CacheOf(f)] = f
      BY <1>1, <1>10, <2>2, Who DEF VertexInv, FlightInv
    <3>4. \A d \in Callers : stage'[d] # "none" => pc'[d] = "leading"
      BY <1>3, <2>1, <2>2, Who DEF VertexInv, FlightInv
    <3>5. \A j \in Caches : stage'[j] # "none" => j = "recommended"
      BY <1>1, <2>2, Who DEF VertexInv, FlightInv
    <3>6. \A d \in Callers : pc'[d] = "waiting" => \E f \in Fetchers : joined'[d] = f /\ CacheOf(f) = CacheOf(d)
      BY <1>3, <2>1 DEF VertexInv, FlightInv
    <3> QED
      BY <1>7, <3>1, <3>2, <3>3, <3>4, <3>5, <3>6 DEF NextFlights
  <2>5. NextNewest
    BY <1>2, <1>8, <2>2 DEF VertexInv, AnswersAreNewest, NextNewest
  <2> QED
    BY <1>4, <1>5, <1>6, <2>2, <2>3, <2>4, <2>5, FlightsThen, NewestThen DEF VertexInv
<1> QED
  BY <1>9, <1>10

\* The service answers, or the call fails (cache.go:133-140).
LEMMA AskKeeps ==
    ASSUME VertexInv, deploy' = deploy, NEW f \in Fetchers, Ask(f), UNCHANGED tables
    PROVE  VertexInv' /\ Advance
<1>1. /\ upstream' = upstream /\ entry' = entry /\ inflight' = inflight /\ dead' = dead
      /\ pc' = pc /\ joined' = joined /\ got' = got /\ saved' = saved /\ old' = old /\ group' = group
      /\ stage[f] = "asking" /\ stage' = [stage EXCEPT ![f] = "asked"]
  BY DEF Ask, tables, callVars
<1>2. PICK v \in {upstream, Error, Empty} :
         /\ v # upstream => failures < MaxFailures
         /\ failures' = IF v = upstream THEN failures ELSE failures + 1
         /\ answer' = [answer EXCEPT ![f] = v]
  BY DEF Ask
<1>3. upstream \in Versions /\ v \in Answers /\ (v \in Versions => v = upstream)
  BY Who DEF VertexInv, VertexTypeOK, CallsTypeOK, Error, Empty
<1>4. failures' \in 0..MaxFailures
  BY <1>2, CachedCallAssumption DEF VertexInv, VertexTypeOK, CallsTypeOK
<1>5. /\ answer' \in [Fetchers -> Answers] /\ answer'[f] = v
      /\ stage' \in [Fetchers -> {"none", "asking", "asked", "stored"}] /\ stage'[f] = "asked"
      /\ \A g \in Fetchers \ {f} : stage'[g] = stage[g] /\ answer'[g] = answer[g]
  BY <1>1, <1>2, <1>3 DEF VertexInv, VertexTypeOK, CallsTypeOK
<1>6. VertexTypeOK'
  BY <1>1, <1>4, <1>5 DEF VertexInv, VertexTypeOK, CallsTypeOK
<1>7. PathsKept'
  BY <1>1, SameDeployment, Who DEF VertexInv, PathsKept
<1>8. NextFlights
  <2>1. \A j \in Caches : inflight[j] # None => inflight[j] \in Fetchers
    BY DEF VertexInv, VertexTypeOK, CallsTypeOK
  <2>2. \A g \in Fetchers : stage'[g] # "none" <=> stage[g] # "none"
    BY <1>1, <1>5
  <2> QED
    BY <1>1, <2>1, <2>2, Who DEF VertexInv, FlightInv, FlightsAreLed, NextFlights
<1>9. NothingFromTheFuture'
  <2>1. upstream <= upstream
    BY <1>3, Who
  <2> QED
    BY <1>1, <1>3, <1>5, <2>1 DEF VertexInv, NothingFromTheFuture
<1>10. NextNewest
  <2>1. CacheOf(f) \in Caches
    BY <1>1 DEF VertexInv, FlightInv
  <2>2. v \in Versions => /\ entry[CacheOf(f)] # None => entry[CacheOf(f)].ver <= v
                          /\ saved["search"] <= v
    BY <1>3, <2>1 DEF VertexInv, NothingFromTheFuture, Tables
  <2>3. ASSUME NEW g \in Fetchers, stage'[g] \in {"asked", "stored"}, answer'[g] \in Versions
        PROVE  /\ entry'[CacheOf(g)] # None => entry'[CacheOf(g)].ver <= answer'[g]
               /\ CacheOf(g) = "search" => saved'["search"] <= answer'[g]
    <3>1. CASE g = f
      <4>1. answer'[g] = v /\ v \in Versions /\ entry' = entry /\ saved' = saved
        BY <1>1, <1>5, <2>3, <3>1
      <4> QED
        BY <2>2, <3>1, <4>1
    <3>2. CASE g # f
      BY <1>1, <1>5, <2>3, <3>2 DEF VertexInv, AnswersAreNewest
    <3> QED
      BY <3>1, <3>2
  <2> QED
    BY <1>1, <2>3 DEF VertexInv, AnswersAreNewest, NextNewest
<1>11. Advance
  BY <1>1 DEF Advance, EntryOnlyAdvances, VertexInv, VertexTypeOK, CallsTypeOK, Versions, Tables
<1>12. inflight' \in [Caches -> Fetchers \union {None}]
  BY <1>1 DEF VertexInv, VertexTypeOK, CallsTypeOK
<1> QED
  BY <1>6, <1>7, <1>8, <1>9, <1>10, <1>11, <1>12, FlightsThen, NewestThen DEF VertexInv

\* Only the flight of a cache stores an answer in it (cache.go:141-150).
LEMMA StoreKeeps ==
    ASSUME VertexInv, deploy' = deploy, NEW f \in Fetchers, StoreAnswer(f, CacheOf(f)), UNCHANGED tables
    PROVE  VertexInv' /\ Advance
<1> DEFINE k == CacheOf(f)
<1>1. /\ upstream' = upstream /\ failures' = failures /\ inflight' = inflight /\ dead' = dead /\ answer' = answer
      /\ pc' = pc /\ joined' = joined /\ got' = got /\ saved' = saved /\ old' = old /\ group' = group
      /\ stage[f] = "asked" /\ stage' = [stage EXCEPT ![f] = "stored"]
  BY DEF StoreAnswer, tables, callVars
<1>2. k \in Caches /\ inflight[k] = f /\ \A g \in Fetchers : stage[g] # "none" /\ CacheOf(g) = k => g = f
  BY <1>1 DEF VertexInv, FlightInv
<1>3. /\ stage' \in [Fetchers -> {"none", "asking", "asked", "stored"}] /\ stage'[f] = "stored"
      /\ \A g \in Fetchers \ {f} : stage'[g] = stage[g]
  BY <1>1 DEF VertexInv, VertexTypeOK, CallsTypeOK
<1>4. /\ entry' \in [Caches -> [ver : Versions, fresh : BOOLEAN] \union {None}]
      /\ \A j \in Caches \ {k} : entry'[j] = entry[j]
      /\ \/ entry'[k] = entry[k]
         \/ answer[f] \in Versions /\ entry'[k].ver = answer[f]
  <2>1. CASE answer[f] \in Versions
    <3>1. entry' = [entry EXCEPT ![k] = [ver |-> answer[f], fresh |-> TRUE]]
      BY <2>1 DEF StoreAnswer, Valid
    <3> QED
      BY <1>2, <2>1, <3>1 DEF VertexInv, VertexTypeOK, CallsTypeOK
  <2>2. CASE answer[f] \notin Versions
    BY <2>2 DEF StoreAnswer, Valid, VertexInv, VertexTypeOK, CallsTypeOK
  <2> QED
    BY <2>1, <2>2
<1>5. VertexTypeOK'
  BY <1>1, <1>3, <1>4 DEF VertexInv, VertexTypeOK, CallsTypeOK
<1>6. PathsKept'
  BY <1>1, SameDeployment, Who DEF VertexInv, PathsKept
<1>7. NextFlights
  <2>1. \A j \in Caches : inflight[j] # None => inflight[j] \in Fetchers
    BY DEF VertexInv, VertexTypeOK, CallsTypeOK
  <2>2. \A g \in Fetchers : stage'[g] # "none" <=> stage[g] # "none"
    BY <1>1, <1>3
  <2> QED
    BY <1>1, <2>1, <2>2, Who DEF VertexInv, FlightInv, FlightsAreLed, NextFlights
<1>8. NothingFromTheFuture'
  BY <1>1, <1>4 DEF VertexInv, NothingFromTheFuture
<1>9. answer[f] \in Versions => /\ entry[k] # None => entry[k].ver <= answer[f]
                                /\ k = "search" => saved["search"] <= answer[f]
  BY <1>1 DEF VertexInv, AnswersAreNewest
<1>10. NextNewest
  <2>1. ASSUME NEW g \in Fetchers, stage'[g] \in {"asked", "stored"}, answer'[g] \in Versions
        PROVE  /\ entry'[CacheOf(g)] # None => entry'[CacheOf(g)].ver <= answer'[g]
               /\ CacheOf(g) = "search" => saved'["search"] <= answer'[g]
    <3>1. CASE g = f
      <4>a. answer'[g] = answer[f]
        BY <1>1, <3>1
      <4>b. answer[f] \in Versions
        BY <2>1, <4>a
      <4>c. answer[f] <= answer[f]
        BY <4>b, VersionOrder
      <4>1. answer[f] \in Versions /\ answer'[g] = answer[f] /\ saved' = saved /\ answer[f] <= answer[f]
        BY <1>1, <4>a, <4>b, <4>c
      <4>2. entry'[k] # None => entry'[k].ver <= answer[f]
        BY <1>4, <1>9, <4>1
      <4> QED
        BY <1>9, <3>1, <4>1, <4>2
    <3>2. CASE g # f
      <4>1. stage[g] \in {"asked", "stored"} /\ CacheOf(g) # k /\ CacheOf(g) \in Caches
        BY <1>2, <1>3, <2>1, <3>2 DEF VertexInv, FlightInv
      <4> QED
        BY <1>1, <1>4, <2>1, <4>1 DEF VertexInv, AnswersAreNewest
    <3> QED
      BY <3>1, <3>2
  <2> QED
    BY <1>1, <2>1 DEF VertexInv, AnswersAreNewest, NextNewest
<1>11. Advance
  <2>1. \A j \in Caches : entry[j] # None => entry[j].ver \in Nat
    BY Who DEF VertexInv, VertexTypeOK, CallsTypeOK
  <2>2. EntryOnlyAdvances
    BY <1>4, <1>9, <2>1 DEF EntryOnlyAdvances
  <2> QED
    BY <1>1, <2>2, Who DEF Advance, VertexInv, VertexTypeOK, CallsTypeOK, Tables
<1>12. inflight' \in [Caches -> Fetchers \union {None}]
  BY <1>1 DEF VertexInv, VertexTypeOK, CallsTypeOK
<1> QED
  BY <1>5, <1>6, <1>7, <1>8, <1>10, <1>11, <1>12, FlightsThen, NewestThen DEF VertexInv

\* The flight is over for those who wait for it (cache.go:152-175).
LEMMA FinishKeeps ==
    ASSUME VertexInv, deploy' = deploy, NEW f \in Fetchers, FinishFlight(f, CacheOf(f)), UNCHANGED tables
    PROVE  VertexInv' /\ Advance
<1> DEFINE k == CacheOf(f)
<1>1. /\ upstream' = upstream /\ failures' = failures /\ entry' = entry /\ dead' = dead
      /\ saved' = saved /\ old' = old /\ group' = group
      /\ stage[f] = "stored" /\ stage' = [stage EXCEPT ![f] = "none"]
      /\ answer' = [answer EXCEPT ![f] = Error] /\ inflight' = [inflight EXCEPT ![k] = None]
      /\ Return(Awaiting(f), answer[f])
  BY DEF FinishFlight, tables, After
<1>2. k \in Caches /\ inflight[k] = f /\ f # None
  BY <1>1, Who DEF VertexInv, FlightInv
<1>3. /\ stage' \in [Fetchers -> {"none", "asking", "asked", "stored"}] /\ stage'[f] = "none"
      /\ answer' \in [Fetchers -> Answers] /\ answer'[f] = Error
      /\ inflight' \in [Caches -> Fetchers \union {None}] /\ inflight'[k] = None
      /\ \A g \in Fetchers \ {f} : stage'[g] = stage[g] /\ answer'[g] = answer[g]
      /\ \A j \in Caches \ {k} : inflight'[j] = inflight[j]
  BY <1>1, <1>2, Who DEF VertexInv, VertexTypeOK, CallsTypeOK, Error
<1>4. Awaiting(f) \in SUBSET Callers /\ answer[f] \in Answers
  BY DEF Awaiting, VertexInv, VertexTypeOK, CallsTypeOK
<1>5. \A d \in Awaiting(f) : /\ CacheOf(d) = k /\ pc[d] \in {"waiting", "leading"}
                             /\ pc[d] = "leading" => d = f
  BY DEF Awaiting, VertexInv, FlightInv
<1>6. /\ PathsKept' /\ joined' \in [Callers -> Fetchers \union {None}] /\ got' \in [Callers -> Answers]
      /\ \A d \in Awaiting(f) : pc'[d] = "answered" /\ got'[d] = answer[f]
      /\ \A d \in Callers \ Awaiting(f) : pc'[d] = pc[d] /\ got'[d] = got[d] /\ joined'[d] = joined[d]
  <2>1. \A d \in Awaiting(f) : CacheOf(d) \in Caches
    BY <1>2, <1>5
  <2> QED
    BY <1>1, <1>4, <2>1, Returned
<1>7. VertexTypeOK'
  BY <1>1, <1>3, <1>6 DEF VertexInv, VertexTypeOK, CallsTypeOK
<1>8. NextFlights
  <2>1. \A j \in Caches : inflight'[j] # None /\ j \notin dead' => stage'[inflight'[j]] # "none"
    <3> SUFFICES ASSUME NEW j \in Caches, inflight'[j] # None, j \notin dead' PROVE stage'[inflight'[j]] # "none"
      OBVIOUS
    <3>1. j # k /\ inflight'[j] = inflight[j] /\ inflight[j] \in Fetchers
      BY <1>3 DEF VertexInv, VertexTypeOK, CallsTypeOK
    <3>2. inflight[j] # f /\ stage[inflight[j]] # "none"
      BY <1>1, <3>1 DEF VertexInv, FlightInv, FlightsAreLed
    <3> QED
      BY <1>3, <3>1, <3>2
  <2>2. \A j \in Caches, g \in Fetchers : inflight'[j] = g => CacheOf(g) = j
    BY <1>3, Who DEF VertexInv, FlightInv
  <2>3. \A g \in Fetchers : stage'[g] # "none" => CacheOf(g) \in Caches /\ inflight'[CacheOf(g)] = g
    <3> SUFFICES ASSUME NEW g \in Fetchers, stage'[g] # "none"
                 PROVE  CacheOf(g) \in Caches /\ inflight'[CacheOf(g)] = g
      OBVIOUS
    <3>1. g # f /\ CacheOf(g) \in Caches /\ inflight[CacheOf(g)] = g
      BY <1>3 DEF VertexInv, FlightInv
    <3>2. CacheOf(g) # k
      BY <1>2, <3>1
    <3> QED
      BY <1>3, <3>1, <3>2
  <2>4. \A d \in Callers : stage'[d] # "none" => pc'[d] = "leading"
    <3> SUFFICES ASSUME NEW d \in Callers, stage'[d] # "none" PROVE pc'[d] = "leading"
      OBVIOUS
    <3>1. d # f /\ pc[d] = "leading"
      BY <1>3, Who DEF VertexInv, FlightInv
    <3>2. d \notin Awaiting(f)
      BY <1>5, <3>1
    <3> QED
      BY <1>6, <3>1, <3>2
  <2>5. \A j \in Caches : stage'[j] # "none" => j = "recommended"
    BY <1>3, Who DEF VertexInv, FlightInv
  <2>6. \A d \in Callers : pc'[d] = "waiting" => \E g \in Fetchers : joined'[d] = g /\ CacheOf(g) = CacheOf(d)
    BY <1>6 DEF VertexInv, FlightInv
  <2>7. \A d \in Callers : CacheOf(d) = "search" /\ pc'[d] \in Fetching => group' = d
    BY <1>1, <1>5, <1>6 DEF VertexInv, FlightInv, Fetching
  <2> QED
    BY <2>1, <2>2, <2>3, <2>4, <2>5, <2>6, <2>7 DEF NextFlights
<1>9. NothingFromTheFuture'
  <2>1. \A g \in Fetchers : answer'[g] \in Versions => answer'[g] <= upstream
    BY <1>3, Who DEF VertexInv, NothingFromTheFuture, Error
  <2>2. \A d \in Callers : got'[d] \in Versions => got'[d] <= upstream
    BY <1>6 DEF VertexInv, NothingFromTheFuture
  <2> QED
    BY <1>1, <2>1, <2>2 DEF VertexInv, NothingFromTheFuture
<1>10. NextNewest
  <2>1. \A g \in Fetchers : stage'[g] \in {"asked", "stored"} /\ answer'[g] \in Versions =>
          /\ entry'[CacheOf(g)] # None => entry'[CacheOf(g)].ver <= answer'[g]
          /\ CacheOf(g) = "search" => saved'["search"] <= answer'[g]
    BY <1>1, <1>3 DEF VertexInv, AnswersAreNewest
  <2>2. k = "search" /\ answer[f] \in Versions => saved["search"] <= answer[f]
    BY <1>1 DEF VertexInv, AnswersAreNewest
  <2>3. \A d \in Callers : CacheOf(d) = "search" /\ pc'[d] = "answered" /\ got'[d] \in Versions =>
          saved'["search"] <= got'[d]
    <3> SUFFICES ASSUME NEW d \in Callers, CacheOf(d) = "search", pc'[d] = "answered", got'[d] \in Versions
                 PROVE  saved["search"] <= got'[d]
      BY <1>1
    <3>1. CASE d \in Awaiting(f)
      BY <1>5, <1>6, <2>2, <3>1
    <3>2. CASE d \notin Awaiting(f)
      BY <1>6, <3>2 DEF VertexInv, AnswersAreNewest
    <3> QED
      BY <3>1, <3>2
  <2> QED
    BY <2>1, <2>3 DEF NextNewest
<1>11. Advance
  BY <1>1 DEF Advance, EntryOnlyAdvances, VertexInv, VertexTypeOK, CallsTypeOK, Versions, Tables
<1> QED
  BY <1>3, <1>6, <1>7, <1>8, <1>9, <1>10, <1>11, FlightsThen, NewestThen DEF VertexInv

\* The calls of some are over with an error, and one of them goes on elsewhere.
LEMMA Ended ==
    ASSUME VertexInv, deploy' = deploy, NEW who \in SUBSET Callers, NEW c \in Callers, NEW s \in Labels,
           EndOf(who, c, s), s \in {"new", "over"} \union Outside(c)
    PROVE  /\ PathsKept' /\ joined' = joined /\ got' \in [Callers -> Answers]
           /\ pc'[c] = s /\ \A d \in who \ {c} : pc'[d] = "over"
           /\ \A d \in Callers \ (who \union {c}) : pc'[d] = pc[d]
           /\ \A d \in Callers : got'[d] = IF d \in who THEN Error ELSE got[d]
<1>1. /\ joined' = joined /\ pc' = [d \in Callers |-> CASE d = c -> s [] d \in who \ {c} -> "over" [] OTHER -> pc[d]]
      /\ got' = [d \in Callers |-> IF d \in who THEN Error ELSE got[d]]
  BY DEF EndOf
<1>2. /\ pc'[c] = s /\ \A d \in who \ {c} : pc'[d] = "over"
      /\ \A d \in Callers \ (who \union {c}) : pc'[d] = pc[d]
  <2>1. pc'[c] = s
    BY <1>1
  <2>2. \A d \in who \ {c} : pc'[d] = "over"
    BY <1>1
  <2>3. \A d \in Callers \ (who \union {c}) : pc'[d] = pc[d]
    BY <1>1
  <2> QED
    BY <2>1, <2>2, <2>3
<1>3. \A d \in Callers : pc'[d] \in Labels
  BY <1>2 DEF VertexInv, PathsKept, Labels
<1>4. pc' \in [Callers -> Labels]
  BY <1>1, <1>3
<1>5. PathsKept'
  <2>1. s \notin Fetching
    BY Places DEF Fetching
  <2>2. \A d \in Callers : pc'[d] \in {"new", "over"} \union Outside(d) \union Fetching
    BY <1>2 DEF VertexInv, PathsKept
  <2>3. \A d \in Callers : pc'[d] \in Fetching => CacheOf(d) \in Caches
    BY <1>2, <2>1 DEF VertexInv, PathsKept, Fetching
  <2> QED
    BY <1>4, <2>2, <2>3, SameDeployment, Who DEF PathsKept
<1>6. got' \in [Callers -> Answers]
  BY <1>1, Who DEF VertexInv, VertexTypeOK, CallsTypeOK, Error
<1> QED
  BY <1>1, <1>2, <1>5, <1>6

\* Whoever waits for the group of c is in no fetch.
LEMMA GroupMembers ==
    ASSUME NEW c \in Callers
    PROVE  /\ GroupOf(c) \in SUBSET Callers /\ c \in GroupOf(c)
           /\ \A d \in GroupOf(c) \ {c} : pc[d] = "grouped"
  BY DEF GroupOf

\* A fetch that panics leaves a flight nobody finishes (cache.go:152-175).
LEMMA PanicKeeps ==
    ASSUME VertexInv, deploy' = deploy, NEW c \in Callers, CachePanics(c, CacheOf(c))
    PROVE  VertexInv' /\ Advance
<1> DEFINE k == CacheOf(c)
<1>1. /\ upstream' = upstream /\ failures' = failures /\ entry' = entry /\ answer' = answer
      /\ inflight' = inflight /\ dead' = dead \union {k} /\ saved' = saved /\ old' = old
      /\ group' = (IF group = c THEN None ELSE group)
      /\ pc[c] = "leading" /\ stage[c] = "asking" /\ stage' = [stage EXCEPT ![c] = "none"]
      /\ EndOf(GroupOf(c), c, "over")
  BY DEF CachePanics, FetchPanics
<1>2. c \in Fetchers /\ k \in Caches /\ inflight[k] = c
  BY <1>1, Who DEF VertexInv, FlightInv
<1>3. /\ stage' \in [Fetchers -> {"none", "asking", "asked", "stored"}] /\ stage'[c] = "none"
      /\ \A g \in Fetchers \ {c} : stage'[g] = stage[g]
  BY <1>1, <1>2 DEF VertexInv, VertexTypeOK, CallsTypeOK
<1>4. /\ PathsKept' /\ joined' = joined /\ got' \in [Callers -> Answers]
      /\ pc'[c] = "over" /\ \A d \in GroupOf(c) \ {c} : pc'[d] = "over"
      /\ \A d \in Callers \ (GroupOf(c) \union {c}) : pc'[d] = pc[d]
      /\ \A d \in Callers : got'[d] = IF d \in GroupOf(c) THEN Error ELSE got[d]
  <2>1. "over" \in Labels /\ "over" \in {"new", "over"} \union Outside(c) /\ GroupOf(c) \in SUBSET Callers
    BY GroupMembers DEF Labels
  <2> QED
    BY <1>1, <2>1, Ended
<1>5. VertexTypeOK'
  <2>1. group' \in Requests \union {Async, None}
    BY <1>1 DEF VertexInv, VertexTypeOK
  <2> QED
    BY <1>1, <1>2, <1>3, <1>4, <2>1 DEF VertexInv, VertexTypeOK, CallsTypeOK
<1>6. \A d \in Callers : pc'[d] \in Fetching => pc'[d] = pc[d] /\ d # c
  BY <1>4, GroupMembers DEF Fetching
<1>7. NextFlights
  <2>1. \A j \in Caches : inflight'[j] # None /\ j \notin dead' => stage'[inflight'[j]] # "none"
    <3> SUFFICES ASSUME NEW j \in Caches, inflight'[j] # None, j \notin dead' PROVE stage'[inflight'[j]] # "none"
      OBVIOUS
    <3>1. j # k /\ j \notin dead /\ inflight'[j] = inflight[j] /\ inflight[j] \in Fetchers
      BY <1>1 DEF VertexInv, VertexTypeOK, CallsTypeOK
    <3>2. inflight[j] # c /\ stage[inflight[j]] # "none"
      BY <3>1 DEF VertexInv, FlightInv, FlightsAreLed
    <3> QED
      BY <1>3, <3>1, <3>2
  <2>2. \A j \in Caches, g \in Fetchers : inflight'[j] = g => CacheOf(g) = j
    BY <1>1, Who DEF VertexInv, FlightInv
  <2>3. \A g \in Fetchers : stage'[g] # "none" => CacheOf(g) \in Caches /\ inflight'[CacheOf(g)] = g
    BY <1>1, <1>3 DEF VertexInv, FlightInv
  <2>4. \A d \in Callers : stage'[d] # "none" => pc'[d] = "leading"
    <3> SUFFICES ASSUME NEW d \in Callers, stage'[d] # "none" PROVE pc'[d] = "leading"
      OBVIOUS
    <3>1. d # c /\ pc[d] = "leading"
      BY <1>3, Who DEF VertexInv, FlightInv
    <3>2. d \notin GroupOf(c)
      BY <3>1, GroupMembers
    <3> QED
      BY <1>4, <3>1, <3>2
  <2>5. \A j \in Caches : stage'[j] # "none" => j = "recommended"
    BY <1>3, Who DEF VertexInv, FlightInv
  <2>6. \A d \in Callers : pc'[d] = "waiting" => \E g \in Fetchers : joined'[d] = g /\ CacheOf(g) = CacheOf(d)
    BY <1>4, <1>6 DEF VertexInv, FlightInv, Fetching
  <2>7. \A d \in Callers : CacheOf(d) = "search" /\ pc'[d] \in Fetching => group' = d
    BY <1>1, <1>6 DEF VertexInv, FlightInv
  <2> QED
    BY <2>1, <2>2, <2>3, <2>4, <2>5, <2>6, <2>7 DEF NextFlights
<1>8. NothingFromTheFuture'
  BY <1>1, <1>4, Who DEF VertexInv, NothingFromTheFuture, Error
<1>9. NextNewest
  <2>1. \A d \in Callers : CacheOf(d) = "search" /\ pc'[d] = "answered" /\ got'[d] \in Versions =>
          saved'["search"] <= got'[d]
    BY <1>1, <1>4, <1>6, Who DEF VertexInv, AnswersAreNewest, Fetching, Error
  <2> QED
    BY <1>1, <1>3, <2>1 DEF VertexInv, AnswersAreNewest, NextNewest
<1>10. Advance
  BY <1>1 DEF Advance, EntryOnlyAdvances, VertexInv, VertexTypeOK, CallsTypeOK, Versions, Tables
<1>11. inflight' \in [Caches -> Fetchers \union {None}]
  BY <1>1 DEF VertexInv, VertexTypeOK, CallsTypeOK
<1> QED
  BY <1>4, <1>5, <1>7, <1>8, <1>9, <1>10, <1>11, FlightsThen, NewestThen DEF VertexInv

-----------------------------------------------------------------------------
(* Steps of the callers outside their fetches *)

LEMMA MovesKeep ==
    ASSUME VertexInv, Moved, VertexTypeOK', PathsKept'
    PROVE  VertexInv' /\ Advance
BY Moves DEF VertexInv

\* A search that is fetched has the group.
LEMMA GroupKept ==
    ASSUME VertexInv, group' = group \/ group = None, NEW c \in Callers, c # None,
           \A d \in Callers \ {c} : pc'[d] \in Fetching => pc[d] \in Fetching,
           CacheOf(c) = "search" /\ pc'[c] \in Fetching => group' = c
    PROVE  \A d \in Callers : CacheOf(d) = "search" /\ pc'[d] \in Fetching => group' = d
  BY Who DEF VertexInv, FlightInv

LEMMA SameSaved ==
    ASSUME VertexInv
    PROVE  (\A t \in Tables : saved[t] <= upstream) /\ saved["search"] >= saved["search"]
  BY DEF VertexInv, NothingFromTheFuture, VertexTypeOK, Tables

\* A caller goes to another place.
LEMMA Went ==
    ASSUME VertexInv, deploy' = deploy, NEW c \in Callers, NEW s \in Labels, Goto(c, s),
           s \in {"new", "over"} \union Outside(c) \/ (s \in Fetching /\ CacheOf(c) \in Caches)
    PROVE  /\ PathsKept' /\ joined' = joined /\ got' = got /\ pc'[c] = s
           /\ \A d \in Callers \ {c} : pc'[d] = pc[d]
<1>1. pc' \in [Callers -> Labels] /\ pc'[c] = s /\ \A d \in Callers \ {c} : pc'[d] = pc[d]
  BY DEF Goto, VertexInv, PathsKept
<1>2. s \in Fetching => CacheOf(c) \in Caches
  BY Places DEF Fetching
<1>3. /\ \A d \in Callers : pc'[d] \in {"new", "over"} \union Outside(d) \union Fetching
      /\ \A d \in Callers : pc'[d] \in Fetching => CacheOf(d) \in Caches
  BY <1>1, <1>2 DEF VertexInv, PathsKept
<1> QED
  BY <1>1, <1>3, SameDeployment, Who DEF Goto, PathsKept

LEMMA GotoKeeps ==
    ASSUME VertexInv, deploy' = deploy, NEW c \in Callers, NEW s \in Labels, Goto(c, s),
           s \in {"new", "over"} \union Outside(c) \/ (s \in Fetching /\ CacheOf(c) \in Caches),
           pc[c] # "leading", s \notin {"waiting", "answered"},
           UNCHANGED <<upstream, entry, inflight, stage, answer, dead, saved>>,
           failures' \in 0..MaxFailures, old' \in [Tables -> BOOLEAN], group' \in Requests \union {Async, None},
           group' = group \/ group = None, CacheOf(c) = "search" /\ s \in Fetching => group' = c
    PROVE  VertexInv' /\ Advance
<1>1. /\ PathsKept' /\ joined' = joined /\ got' = got /\ pc'[c] = s
      /\ \A d \in Callers \ {c} : pc'[d] = pc[d]
  BY Went
<1>2. VertexTypeOK'
  BY <1>1 DEF VertexInv, VertexTypeOK, CallsTypeOK
<1>3. \A d \in Callers : CacheOf(d) = "search" /\ pc'[d] \in Fetching => group' = d
  BY <1>1, GroupKept, Who
<1>4. Moved
  BY <1>1, <1>3, SameSaved DEF Moved
<1> QED
  BY <1>1, <1>2, <1>4, MovesKeep

LEMMA EndKeeps ==
    ASSUME VertexInv, deploy' = deploy, NEW who \in SUBSET Callers, NEW c \in Callers, NEW s \in Labels,
           EndOf(who, c, s), s \in {"new", "over"} \union Outside(c),
           \A d \in who \union {c} : pc[d] # "leading",
           UNCHANGED <<upstream, entry, inflight, stage, answer, dead>>,
           failures' \in 0..MaxFailures, old' \in [Tables -> BOOLEAN], group' \in Requests \union {Async, None},
           saved' \in [Tables -> 0..MaxVersion], \A t \in Tables : saved'[t] <= upstream,
           saved'["search"] >= saved["search"],
           saved'["search"] = saved["search"] \/ \A d \in Callers : CacheOf(d) = "search" => pc'[d] \notin Fetching,
           \A d \in Callers : CacheOf(d) = "search" /\ pc'[d] \in Fetching => group' = d
    PROVE  VertexInv' /\ Advance
<1>1. /\ PathsKept' /\ joined' = joined /\ got' \in [Callers -> Answers]
      /\ pc'[c] = s /\ \A d \in who \ {c} : pc'[d] = "over"
      /\ \A d \in Callers \ (who \union {c}) : pc'[d] = pc[d]
      /\ \A d \in Callers : got'[d] = IF d \in who THEN Error ELSE got[d]
  BY Ended
<1>2. VertexTypeOK'
  BY <1>1 DEF VertexInv, VertexTypeOK, CallsTypeOK
<1>3. s \notin Fetching
  BY Places DEF Fetching
<1>4. Moved
  <2>1. \A d \in Callers : \/ pc'[d] = pc[d] /\ joined'[d] = joined[d]
                           \/ /\ pc[d] # "leading" /\ pc'[d] # "waiting"
                              /\ pc'[d] = "answered" => got'[d] = Error
    BY <1>1, <1>3 DEF Fetching
  <2>2. \A d \in Callers : got'[d] = got[d] \/ got'[d] = Error
    BY <1>1
  <2> QED
    BY <2>1, <2>2 DEF Moved
<1> QED
  BY <1>1, <1>2, <1>4, MovesKeep

\* The context of a waiting caller ends.
LEMMA StopKeeps ==
    ASSUME VertexInv, deploy' = deploy, NEW c \in Callers, StopWaiting(c), UNCHANGED tables
    PROVE  VertexInv' /\ Advance
<1>1. /\ pc[c] = "waiting" /\ Return({c}, Error) /\ saved' = saved /\ old' = old /\ group' = group
      /\ UNCHANGED <<upstream, failures, entry, inflight, stage, answer, dead>>
  BY DEF StopWaiting, cacheVars, tables
<1>2. /\ {c} \in SUBSET Callers /\ Error \in Answers /\ \A d \in {c} : CacheOf(d) \in Caches
  BY <1>1, Who DEF Error, VertexInv, PathsKept, Fetching
<1>3. /\ PathsKept' /\ joined' \in [Callers -> Fetchers \union {None}] /\ got' \in [Callers -> Answers]
      /\ \A d \in {c} : pc'[d] = "answered" /\ got'[d] = Error
      /\ \A d \in Callers \ {c} : pc'[d] = pc[d] /\ got'[d] = got[d] /\ joined'[d] = joined[d]
  BY <1>1, <1>2, Returned
<1>4. VertexTypeOK'
  BY <1>1, <1>3 DEF VertexInv, VertexTypeOK, CallsTypeOK
<1>5. \A d \in Callers : CacheOf(d) = "search" /\ pc'[d] \in Fetching => group' = d
  BY <1>1, <1>3 DEF VertexInv, FlightInv, Fetching
<1>6. Moved
  BY <1>1, <1>3, <1>5, SameSaved DEF Moved
<1> QED
  BY <1>3, <1>4, <1>6, MovesKeep

\* Time passes, and the service publishes.
LEMMA WorldKeeps ==
    ASSUME VertexInv, deploy' = deploy, \/ (Publish \/ Age("recommended")) /\ UNCHANGED tables
                                       \/ \E t \in Tables : RowAges(t)
    PROVE  VertexInv' /\ Advance /\ pc' = pc
<1>1. CASE \E t \in Tables : RowAges(t)
  <2>1. /\ UNCHANGED <<upstream, failures, entry, inflight, stage, answer, dead, pc, joined, got, saved, group>>
        /\ old' \in [Tables -> BOOLEAN]
    BY <1>1 DEF RowAges, cacheVars, callVars, VertexInv, VertexTypeOK
  <2>2. VertexTypeOK'
    BY <2>1 DEF VertexInv, VertexTypeOK, CallsTypeOK
  <2>3. PathsKept'
    BY <2>1, SameDeployment, Who DEF VertexInv, PathsKept
  <2>4. Moved
    BY <2>1, SameSaved DEF Moved, VertexInv, FlightInv
  <2> QED
    BY <2>1, <2>2, <2>3, <2>4, MovesKeep
<1>2. CASE (Publish \/ Age("recommended")) /\ UNCHANGED tables
  <2>1. /\ UNCHANGED <<failures, inflight, stage, answer, dead, pc, joined, got, saved, old, group>>
        /\ upstream' \in Versions /\ upstream <= upstream'
        /\ entry' \in [Caches -> [ver : Versions, fresh : BOOLEAN] \union {None}]
        /\ \A k \in Caches : entry'[k] # None => entry[k] # None /\ entry'[k].ver = entry[k].ver
    <3>1. CASE Publish
      BY <1>2, <3>1, CachedCallAssumption DEF Publish, callVars, tables, VertexInv, VertexTypeOK, CallsTypeOK, Versions
    <3>2. CASE Age("recommended")
      <4>1. /\ "recommended" \in Caches /\ entry["recommended"] # None /\ upstream' = upstream
            /\ entry' = [entry EXCEPT !["recommended"] =
                 IF @.fresh THEN [ver |-> @.ver, fresh |-> FALSE] ELSE None]
        BY <3>2, Who DEF Age
      <4>2. \A k \in Caches : entry'[k] = IF k # "recommended" THEN entry[k]
                ELSE IF entry[k].fresh THEN [ver |-> entry[k].ver, fresh |-> FALSE] ELSE None
        BY <4>1 DEF VertexInv, VertexTypeOK, CallsTypeOK
      <4>3. entry["recommended"] \in [ver : Versions, fresh : BOOLEAN]
        BY <4>1 DEF VertexInv, VertexTypeOK, CallsTypeOK
      <4>4. entry' \in [Caches -> [ver : Versions, fresh : BOOLEAN] \union {None}]
        BY <4>1, <4>3 DEF VertexInv, VertexTypeOK, CallsTypeOK
      <4>5. upstream \in Versions /\ upstream <= upstream
        BY VersionOrder DEF VertexInv, VertexTypeOK, CallsTypeOK
      <4> QED
        BY <1>2, <3>2, <4>1, <4>2, <4>3, <4>4, <4>5 DEF Age, callVars, tables
    <3> QED
      BY <1>2, <3>1, <3>2
  <2>2. VertexTypeOK'
    BY <2>1 DEF VertexInv, VertexTypeOK, CallsTypeOK
  <2>3. PathsKept'
    BY <2>1, SameDeployment, Who DEF VertexInv, PathsKept
  <2>4. NextFlights
    BY <2>1, Who DEF VertexInv, FlightInv, FlightsAreLed, NextFlights
  <2>5. NextNewest
    <3>1. \A f \in Fetchers : stage[f] # "none" => CacheOf(f) \in Caches
      BY DEF VertexInv, FlightInv
    <3> QED
      BY <2>1, <3>1 DEF VertexInv, AnswersAreNewest, NextNewest
  <2>6. NothingFromTheFuture'
    <3>1. \A v \in Nat : v <= upstream => v <= upstream'
      BY <2>1, Who DEF VertexInv, VertexTypeOK, CallsTypeOK
    <3>2. /\ \A k \in Caches : entry[k] # None => entry[k].ver \in Nat
          /\ \A t \in Tables : saved[t] \in Nat
      <4>1. \A k \in Caches : entry[k] # None => entry[k].ver \in Versions
        BY DEF VertexInv, VertexTypeOK, CallsTypeOK
      <4>2. \A t \in Tables : saved[t] \in 0..MaxVersion
        BY DEF VertexInv, VertexTypeOK
      <4> QED
        BY <4>1, <4>2, VersionOrder
    <3>3. \A k \in Caches : entry'[k] # None => entry'[k].ver <= upstream'
      BY <2>1, <3>1, <3>2 DEF VertexInv, NothingFromTheFuture
    <3>4. \A t \in Tables : saved'[t] <= upstream'
      BY <2>1, <3>1, <3>2 DEF VertexInv, NothingFromTheFuture
    <3>5. \A f \in Fetchers : answer'[f] \in Versions => answer'[f] <= upstream'
      BY <2>1, <3>1, Who DEF VertexInv, NothingFromTheFuture
    <3>6. \A c \in Callers : got'[c] \in Versions => got'[c] <= upstream'
      BY <2>1, <3>1, Who DEF VertexInv, NothingFromTheFuture
    <3> QED
      BY <3>3, <3>4, <3>5, <3>6 DEF NothingFromTheFuture
  <2>7. Advance
    BY <2>1, SameSaved, VersionOrder DEF Advance, EntryOnlyAdvances, VertexInv, VertexTypeOK, CallsTypeOK
  <2>8. inflight' \in [Caches -> Fetchers \union {None}]
    BY <2>1 DEF VertexInv, VertexTypeOK, CallsTypeOK
  <2> QED
    BY <2>1, <2>2, <2>3, <2>4, <2>5, <2>6, <2>7, <2>8, FlightsThen, NewestThen DEF VertexInv
<1> QED
  BY <1>1, <1>2

-----------------------------------------------------------------------------
(* The routes, the syncer and the search *)

\* No request comes under way, none begins or ends to work, and the syncer is not started.
Quiet ==
    /\ \A r \in Requests :
        /\ (pc'[r] = "working") <=> (pc[r] = "working")
        /\ pc[r] \in {"new", "over"} => pc'[r] \in {"new", "over"}
    /\ pc[Sync] = "over" => pc'[Sync] = "over"

\* The profile and the recommended route, and the syncer, up to their caches.
LEMMA RouteKeeps ==
    ASSUME VertexInv, deploy' = deploy, NEW c \in Callers,
           \/ c \in Requests /\ (Profile(c) \/ Recommended(c))
           \/ c = Sync /\ SyncRefresh
    PROVE  VertexInv' /\ Advance /\ Quiet
<1>1. /\ UNCHANGED <<upstream, failures, entry, inflight, stage, answer, dead, saved, old, group>>
      /\ \/ pc[c] = "profile" /\ Goto(c, "missed")
         \/ pc[c] = "asleep" /\ Goto(c, "missed")
         \/ pc[c] = "recommended" /\ Goto(c, "lookup")
  BY DEF Profile, Recommended, SyncRefresh, cacheVars, tables
<1>2. PICK s \in Labels : /\ Goto(c, s) /\ s \in {"missed", "lookup"}
                          /\ s \in Outside(c) \/ (s \in Fetching /\ CacheOf(c) \in Caches)
                          /\ CacheOf(c) \in {"profile", "recommended"}
                          /\ pc[c] \in {"profile", "asleep", "recommended"}
  <2>1. CASE pc[c] = "profile" /\ Goto(c, "missed")
    <3>1. CacheOf(c) = "profile"
      BY <2>1, Places DEF VertexInv, PathsKept, Fetching
    <3> QED
      BY <2>1, <3>1, Who DEF Labels, Fetching
  <2>2. CASE pc[c] = "asleep" /\ Goto(c, "missed")
    <3>1. CacheOf(c) = "profile"
      BY <2>2, Places, Who DEF VertexInv, PathsKept, Fetching
    <3> QED
      BY <2>2, <3>1, Who DEF Labels, Fetching
  <2>3. CASE pc[c] = "recommended" /\ Goto(c, "lookup")
    <3>1. c \in Requests /\ CacheOf(c) = "recommended"
      BY <2>3, Places DEF VertexInv, PathsKept, Fetching
    <3>2. Outside(c) = {"recommended", "lookup"}
      BY <3>1, Places, Who
    <3> QED
      BY <2>3, <3>1, <3>2 DEF Labels
  <2> QED
    BY <1>1, <2>1, <2>2, <2>3
<1>3. failures' \in 0..MaxFailures /\ old' \in [Tables -> BOOLEAN] /\ group' \in Requests \union {Async, None}
  BY <1>1 DEF VertexInv, VertexTypeOK, CallsTypeOK
<1>4. VertexInv' /\ Advance
  BY <1>1, <1>2, <1>3, GotoKeeps
<1>5. Quiet
  BY <1>2, Went, Who DEF Quiet
<1> QED
  BY <1>4, <1>5

\* A cached answer, a row, or an error for a search; an old row is refreshed beside it
\* (search_provider.go:40-82).
LEMMA SearchKeeps ==
    ASSUME VertexInv, deploy' = deploy, NEW r \in Requests, Search(r)
    PROVE  VertexInv' /\ Advance /\ Quiet
<1>1. /\ UNCHANGED <<upstream, entry, inflight, stage, answer, dead, saved, old, group>> /\ pc[r] = "search"
      /\ failures' \in 0..MaxFailures
  BY CachedCallAssumption DEF Search, tables, VertexInv, VertexTypeOK, CallsTypeOK
<1>2. r \in Callers /\ CacheOf(r) = "search" /\ Outside(r) = {"search", "refresh", "grouped"}
  BY <1>1, Places, Who DEF VertexInv, PathsKept, Fetching
<1>3. old' \in [Tables -> BOOLEAN] /\ group' \in Requests \union {Async, None}
  BY <1>1 DEF VertexInv, VertexTypeOK
<1>4. CASE \E s \in {"over", "refresh"} : Goto(r, s)
  <2>1. PICK s \in {"over", "refresh"} : Goto(r, s)
    BY <1>4
  <2>2. s \in Labels /\ s \in {"new", "over"} \union Outside(r) /\ s \notin Fetching
    BY <1>2 DEF Labels, Fetching
  <2>3. VertexInv' /\ Advance
    BY <1>1, <1>2, <1>3, <2>1, <2>2, GotoKeeps DEF Fetching
  <2>4. Quiet
    BY <1>1, <1>2, <2>1, <2>2, Went, Who DEF Quiet
  <2> QED
    BY <2>3, <2>4
<1>5. CASE ~\E s \in {"over", "refresh"} : Goto(r, s)
  <2>1. /\ joined' = joined /\ got' = got
        /\ pc' = [c \in Callers |->
               CASE c = r -> "over"
                 [] c = Async /\ old["search"] /\ pc[Async] = "over" -> "refresh"
                 [] OTHER -> pc[c]]
    BY <1>5 DEF Search
  <2>2. /\ r # Async /\ pc'[r] = "over"
        /\ \A c \in Callers \ {r, Async} : pc'[c] = pc[c]
        /\ pc'[Async] = pc[Async] \/ (pc'[Async] = "refresh" /\ pc[Async] = "over")
    <3>1. r # Async /\ Async \in Callers
      BY Who
    <3>2. pc'[r] = "over"
      BY <1>2, <2>1, <3>1
    <3>3. \A c \in Callers \ {r, Async} : pc'[c] = pc[c]
      BY <2>1
    <3>4. pc'[Async] = pc[Async] \/ (pc'[Async] = "refresh" /\ pc[Async] = "over")
      BY <2>1, <3>1
    <3> QED
      BY <3>1, <3>2, <3>3, <3>4
  <2>3. PathsKept'
    <3>1. "refresh" \in Outside(Async) /\ Async \in Callers
      BY Places, Who
    <3>2. \A c \in Callers : pc'[c] \in Labels
      BY <2>2 DEF VertexInv, PathsKept, Labels
    <3>3. pc' \in [Callers -> Labels]
      BY <2>1, <3>2
    <3>4. \A c \in Callers : pc'[c] \in {"new", "over"} \union Outside(c) \union Fetching
      BY <2>2, <3>1 DEF VertexInv, PathsKept
    <3>5. \A c \in Callers : pc'[c] \in Fetching => pc[c] \in Fetching
      BY <2>2 DEF Fetching
    <3> QED
      BY <3>3, <3>4, <3>5, SameDeployment, Who DEF VertexInv, PathsKept
  <2>4. VertexTypeOK'
    BY <1>1, <1>3, <2>1 DEF VertexInv, VertexTypeOK, CallsTypeOK
  <2>5. \A c \in Callers : pc'[c] \in Fetching => pc'[c] = pc[c]
    BY <2>2 DEF Fetching
  <2>6. Moved
    <3>1. \A c \in Callers : CacheOf(c) = "search" /\ pc'[c] \in Fetching => group' = c
      BY <1>1, <2>5 DEF VertexInv, FlightInv
    <3>2. \A c \in Callers : pc'[c] = pc[c] \/ (pc[c] # "leading" /\ pc'[c] \in {"over", "refresh"})
      BY <1>1, <2>2
    <3> QED
      BY <1>1, <2>1, <3>1, <3>2, SameSaved DEF Moved
  <2>7. Quiet
    BY <1>1, <2>2, Who DEF Quiet
  <2> QED
    BY <2>3, <2>4, <2>6, <2>7, MovesKeep
<1> QED
  BY <1>4, <1>5

\* The first one leads the group, the others wait for it (search_provider.go:83-91).
LEMMA RefreshKeeps ==
    ASSUME VertexInv, deploy' = deploy, NEW c \in Callers, Refresh(c)
    PROVE  VertexInv' /\ Advance /\ Quiet
<1>1. /\ UNCHANGED <<upstream, failures, entry, inflight, stage, answer, dead, saved, old>> /\ pc[c] = "refresh"
  BY DEF Refresh, cacheVars
<1>2. CacheOf(c) = "search" /\ {"refresh", "grouped"} \subseteq Outside(c)
  BY <1>1, Places DEF VertexInv, PathsKept, Fetching
<1>3. c \in Requests \union {Async} /\ "search" \in Caches
  BY <1>2, Who, VertexAssumption
<1>4. /\ failures' \in 0..MaxFailures /\ old' \in [Tables -> BOOLEAN]
      /\ group \in Requests \union {Async, None}
  BY <1>1 DEF VertexInv, VertexTypeOK, CallsTypeOK
<1>5. CASE group # None
  <2>1. Goto(c, "grouped") /\ group' = group /\ "grouped" \in Labels /\ "grouped" \notin Fetching
    BY <1>5 DEF Refresh, Grouped, Labels, Fetching
  <2>2. VertexInv' /\ Advance
    BY <1>1, <1>2, <1>4, <2>1, GotoKeeps DEF Fetching
  <2>3. Quiet
    BY <1>1, <1>2, <2>1, Went, Who DEF Quiet
  <2> QED
    BY <2>2, <2>3
<1>6. CASE group = None
  <2>1. Goto(c, "missed") /\ group' = c /\ "missed" \in Labels /\ "missed" \in Fetching
    BY <1>6 DEF Refresh, Grouped, Labels, Fetching
  <2>2. /\ PathsKept' /\ joined' = joined /\ got' = got /\ pc'[c] = "missed"
        /\ \A d \in Callers \ {c} : pc'[d] = pc[d]
    BY <1>2, <1>3, <2>1, Went
  <2>3. VertexTypeOK'
    BY <1>1, <1>3, <1>4, <2>1, <2>2 DEF VertexInv, VertexTypeOK, CallsTypeOK
  <2>4. \A d \in Callers : CacheOf(d) = "search" /\ pc'[d] \in Fetching => group' = d
    BY <1>6, <2>1, <2>2, Who DEF VertexInv, FlightInv
  <2>5. Moved
    BY <1>1, <2>2, <2>4, SameSaved DEF Moved
  <2>6. Quiet
    BY <1>1, <2>2, Who DEF Quiet
  <2> QED
    BY <2>2, <2>3, <2>5, <2>6, MovesKeep
<1> QED
  BY <1>5, <1>6

\* A call ends, and saves its answer to the profiles' table or not (score_provider.go:55-84).
LEMMA AnsweredKeeps ==
    ASSUME VertexInv, deploy' = deploy, NEW c \in Callers, NEW s \in Labels, s \in {"new", "over"} \union Outside(c),
           \/ CacheOf(c) = "profile" /\ ProfileAnswered(c, s)
           \/ pc[c] = "answered" /\ End(c, s) /\ UNCHANGED <<cacheVars, tables>>
    PROVE  VertexInv' /\ Advance /\ pc[c] = "answered" /\ pc'[c] = s /\ \A d \in Callers \ {c} : pc'[d] = pc[d]
<1>1. /\ UNCHANGED <<upstream, entry, inflight, stage, answer, dead, group>> /\ pc[c] = "answered" /\ EndOf({c}, c, s)
  BY DEF ProfileAnswered, cacheVars, tables, End
<1>2. /\ failures' \in 0..MaxFailures /\ old' \in [Tables -> BOOLEAN]
      /\ saved' \in [Tables -> 0..MaxVersion] /\ \A t \in Tables : saved'[t] <= upstream
      /\ saved'["search"] = saved["search"]
  <2>1. CASE UNCHANGED <<failures, saved, old>>
    BY <2>1, SameSaved DEF VertexInv, VertexTypeOK, CallsTypeOK
  <2>2. CASE failures < MaxFailures /\ failures' = failures + 1 /\ UNCHANGED <<saved, old>>
    BY <2>2, SameSaved, CachedCallAssumption DEF VertexInv, VertexTypeOK, CallsTypeOK
  <2>3. CASE /\ got[c] \in Versions /\ saved' = [saved EXCEPT !["profile"] = got[c]]
             /\ old' \in [Tables -> BOOLEAN] /\ failures' \in 0..MaxFailures
    <3>1. got[c] \in 0..MaxVersion /\ got[c] <= upstream
      BY <2>3, CachedCallAssumption DEF Versions, VertexInv, NothingFromTheFuture
    <3>2. /\ saved' \in [Tables -> 0..MaxVersion] /\ saved'["search"] = saved["search"]
          /\ saved'["profile"] = got[c]
      BY <2>3, <3>1 DEF VertexInv, VertexTypeOK, Tables
    <3> QED
      BY <2>3, <3>1, <3>2, SameSaved DEF Tables
  <2>4. CASE ProfileAnswered(c, s)
    <3>1. CASE got[c] \notin Versions
      BY <2>1, <2>4, <3>1 DEF ProfileAnswered
    <3>2. CASE got[c] \in Versions /\ Save(c, "profile")
      <4>1. CASE failures < MaxFailures /\ failures' = failures + 1 /\ UNCHANGED <<saved, old>>
        BY <2>2, <4>1
      <4>2. CASE /\ saved' = [saved EXCEPT !["profile"] = got[c]] /\ old' = [old EXCEPT !["profile"] = FALSE]
                 /\ UNCHANGED failures
        <5>1. old' \in [Tables -> BOOLEAN] /\ failures' \in 0..MaxFailures
          BY <4>2 DEF VertexInv, VertexTypeOK, CallsTypeOK
        <5> QED
          BY <2>3, <3>2, <4>2, <5>1
      <4> QED
        BY <3>2, <4>1, <4>2 DEF Save
    <3>3. CASE /\ got[c] \in Versions /\ failures < MaxFailures /\ failures' = failures + 1
               /\ saved' = [saved EXCEPT !["profile"] = got[c]] /\ UNCHANGED old
      <4>1. old' \in [Tables -> BOOLEAN] /\ failures' \in 0..MaxFailures
        BY <3>3, CachedCallAssumption DEF VertexInv, VertexTypeOK, CallsTypeOK
      <4> QED
        BY <2>3, <3>3, <4>1
    <3> QED
      BY <2>4, <3>1, <3>2, <3>3 DEF ProfileAnswered
  <2> QED
    BY <2>1, <2>4 DEF cacheVars, tables
<1>3. {c} \in SUBSET Callers /\ \A d \in {c} \union {c} : pc[d] # "leading"
  BY <1>1
<1>4. /\ pc'[c] = s /\ \A d \in Callers \ {c} : pc'[d] = pc[d]
  <2>1. pc' = [d \in Callers |-> CASE d = c -> s [] d \in {c} \ {c} -> "over" [] OTHER -> pc[d]]
    BY <1>1 DEF EndOf
  <2>2. \A d \in Callers : d # c => d \notin {c} \ {c}
    OBVIOUS
  <2> QED
    BY <2>1, <2>2
<1>5. \A d \in Callers : CacheOf(d) = "search" /\ pc'[d] \in Fetching => group' = d
  <2>1. s \notin Fetching
    BY Places DEF Fetching
  <2> QED
    BY <1>1, <1>4, <2>1 DEF VertexInv, FlightInv
<1>6. group' \in Requests \union {Async, None} /\ saved'["search"] >= saved["search"]
  BY <1>1, <1>2, SameSaved DEF VertexInv, VertexTypeOK
<1>7. VertexInv' /\ Advance
  BY <1>1, <1>2, <1>3, <1>5, <1>6, EndKeeps
<1> QED
  BY <1>1, <1>4, <1>7

\* The leader of a search saves what it got, and nobody could have saved anything since
\* its fetch began (search_provider.go:92-104).
LEMMA SearchAnsweredKeeps ==
    ASSUME VertexInv, deploy' = deploy, NEW c \in Callers, CacheOf(c) = "search", SearchAnswered(c)
    PROVE  VertexInv' /\ Advance /\ Quiet
<1>1. /\ UNCHANGED <<upstream, entry, inflight, stage, answer, dead>> /\ pc[c] = "answered" /\ group' = None
      /\ EndOf(GroupOf(c), c, "over")
  BY DEF SearchAnswered
<1>2. group = c /\ GroupOf(c) \in SUBSET Callers /\ c \in GroupOf(c)
  BY <1>1, GroupMembers DEF VertexInv, FlightInv, Fetching
<1>3. "over" \in Labels /\ "over" \in {"new", "over"} \union Outside(c)
  BY DEF Labels
<1>4. \A d \in GroupOf(c) \union {c} : pc[d] # "leading" /\ pc[d] \in {"answered", "grouped"}
  BY <1>1, GroupMembers
<1>5. /\ pc'[c] = "over" /\ \A d \in GroupOf(c) \ {c} : pc'[d] = "over"
      /\ \A d \in Callers \ (GroupOf(c) \union {c}) : pc'[d] = pc[d]
  <2>1. /\ PathsKept' /\ joined' = joined /\ got' \in [Callers -> Answers]
        /\ pc'[c] = "over" /\ \A d \in GroupOf(c) \ {c} : pc'[d] = "over"
        /\ \A d \in Callers \ (GroupOf(c) \union {c}) : pc'[d] = pc[d]
        /\ \A d \in Callers : got'[d] = IF d \in GroupOf(c) THEN Error ELSE got[d]
    BY <1>1, <1>2, <1>3, Ended
  <2> QED
    BY <2>1
<1>6. \A d \in Callers : CacheOf(d) = "search" => pc'[d] \notin Fetching
  BY <1>2, <1>5 DEF VertexInv, FlightInv, Fetching
<1>7. /\ failures' \in 0..MaxFailures /\ old' \in [Tables -> BOOLEAN]
      /\ saved' \in [Tables -> 0..MaxVersion] /\ \A t \in Tables : saved'[t] <= upstream
      /\ saved'["search"] >= saved["search"]
  <2>1. CASE got[c] \notin Versions
    BY <2>1, SameSaved DEF SearchAnswered, VertexInv, VertexTypeOK, CallsTypeOK
  <2>2. CASE got[c] \in Versions
    <3>1. CASE failures < MaxFailures /\ failures' = failures + 1 /\ UNCHANGED <<saved, old>>
      BY <3>1, SameSaved, CachedCallAssumption DEF VertexInv, VertexTypeOK, CallsTypeOK
    <3>2. CASE /\ saved' = [saved EXCEPT !["search"] = got[c]] /\ old' = [old EXCEPT !["search"] = FALSE]
               /\ UNCHANGED failures
      <4>1. got[c] \in 0..MaxVersion /\ got[c] <= upstream /\ saved["search"] <= got[c]
        BY <1>1, <2>2, CachedCallAssumption DEF Versions, VertexInv, NothingFromTheFuture, AnswersAreNewest
      <4>2. /\ saved' \in [Tables -> 0..MaxVersion] /\ saved'["profile"] = saved["profile"]
            /\ saved'["search"] = got[c]
        BY <3>2, <4>1 DEF VertexInv, VertexTypeOK, Tables
      <4>3. saved["search"] \in Nat /\ got[c] \in Nat /\ "profile" \in Tables
        BY <2>2, VersionOrder DEF VertexInv, VertexTypeOK, Tables
      <4>4. \A t \in Tables : saved'[t] <= upstream
        BY <4>1, <4>2, SameSaved DEF Tables
      <4>5. failures' \in 0..MaxFailures /\ old' \in [Tables -> BOOLEAN]
        BY <3>2 DEF VertexInv, VertexTypeOK, CallsTypeOK
      <4> QED
        BY <4>1, <4>2, <4>3, <4>4, <4>5
    <3> QED
      BY <2>2, <3>1, <3>2 DEF SearchAnswered, Save
  <2> QED
    BY <2>1, <2>2
<1>8. \A d \in Callers : CacheOf(d) = "search" /\ pc'[d] \in Fetching => group' = d
  BY <1>6
<1>9. VertexInv' /\ Advance
  <2>1. group' \in Requests \union {Async, None}
    BY <1>1
  <2> QED
    BY <1>1, <1>2, <1>3, <1>4, <1>6, <1>7, <1>8, <2>1, EndKeeps
<1>10. Quiet
  BY <1>1, <1>2, <1>4, <1>5, Who DEF Quiet
<1> QED
  BY <1>9, <1>10

\* Nobody's work begins or ends with a fetch.
LEMMA QuietFlights ==
    ASSUME VertexInv,
           \/ \E c \in Callers : \/ Lookup(c, CacheOf(c)) \/ FetchOnce(c, CacheOf(c)) \/ StopWaiting(c)
                                \/ CachePanics(c, CacheOf(c))
           \/ \E f \in Fetchers : RunFetch(f, CacheOf(f))
    PROVE  Quiet
<1>1. pc \in [Callers -> Labels] /\ (\A r \in Requests : r \in Callers) /\ Sync \in Callers
  BY Who DEF VertexInv, PathsKept
<1>2. ASSUME NEW c \in Callers, Lookup(c, CacheOf(c)) PROVE Quiet
  BY <1>1, <1>2 DEF Lookup, Return, Quiet
<1>3. ASSUME NEW c \in Callers, FetchOnce(c, CacheOf(c)) PROVE Quiet
  BY <1>1, <1>3 DEF FetchOnce, Quiet
<1>4. ASSUME NEW c \in Callers, StopWaiting(c) PROVE Quiet
  BY <1>1, <1>4 DEF StopWaiting, Return, Quiet
<1>5. ASSUME NEW c \in Callers, CachePanics(c, CacheOf(c)) PROVE Quiet
  <2>1. pc[c] = "leading" /\ \A d \in GroupOf(c) \ {c} : pc[d] = "grouped"
    BY <1>5, GroupMembers DEF CachePanics
  <2>2. pc' = [d \in Callers |-> CASE d = c -> "over" [] d \in GroupOf(c) \ {c} -> "over" [] OTHER -> pc[d]]
    BY <1>5 DEF CachePanics, EndOf
  <2>3. \A d \in Callers : pc'[d] = pc[d] \/ (pc'[d] = "over" /\ pc[d] \in {"leading", "grouped"})
    BY <2>1, <2>2
  <2> QED
    BY <1>1, <2>3 DEF Quiet
<1>6. ASSUME NEW f \in Fetchers, RunFetch(f, CacheOf(f)) PROVE Quiet
  <2>1. CASE Ask(f) \/ StoreAnswer(f, CacheOf(f))
    BY <2>1 DEF Ask, StoreAnswer, callVars, Quiet
  <2>2. CASE FinishFlight(f, CacheOf(f))
    BY <1>1, <2>2 DEF FinishFlight, Return, Awaiting, Quiet
  <2> QED
    BY <1>6, <2>1, <2>2 DEF RunFetch
<1> QED
  BY <1>2, <1>3, <1>4, <1>5, <1>6

-----------------------------------------------------------------------------
(* The process *)

\* Where no caller moves, nothing of theirs changes.
LEMMA StillKeeps ==
    ASSUME VertexInv, deploy' = deploy, UNCHANGED vertexVars
    PROVE  VertexInv' /\ Advance /\ pc' = pc
<1>1. UNCHANGED <<upstream, failures, entry, inflight, stage, answer, dead, pc, joined, got, saved, old, group>>
  BY DEF vertexVars, cacheVars, callVars, tables
<1>2. VertexTypeOK'
  BY <1>1 DEF VertexInv, VertexTypeOK, CallsTypeOK
<1>3. PathsKept'
  BY <1>1, SameDeployment, Who DEF VertexInv, PathsKept
<1>4. Moved
  BY <1>1, SameSaved DEF Moved, VertexInv, FlightInv
<1> QED
  BY <1>1, <1>2, <1>3, <1>4, MovesKeep

\* The callers of Vertex leave the process as it is.
LEMMA BootKept ==
    ASSUME ProcessTypes, BootInv, UNCHANGED <<deploy, boot, gate>>, Quiet
    PROVE  ProcessTypes' /\ BootInv'
<1>1. UNCHANGED <<deploy, init, main, store, migrated, published, bucket, slots, loop>>
  BY DEF boot, gate
<1>2. ProcessTypes'
  BY <1>1 DEF ProcessTypes
<1>3. SlotsAccounted'
  BY <1>1 DEF BootInv, SlotsAccounted, Quiet
<1> QED
  BY <1>1, <1>2, <1>3 DEF BootInv, LoopsHaveTables, Quiet, Running

\* A process that ends, by itself or not, leaves nothing but the database.
LEMMA DeathKeeps ==
    ASSUME ApiInv, NEW how \in {"exited", "crashed"}, Die(how), store' \in {"none", "open", "closed"}
    PROVE  ApiInv' /\ Advance
<1>1. /\ deploy' = deploy /\ main' = how /\ init' = "done" /\ published' = FALSE /\ bucket' = 0 /\ slots' = {}
      /\ loop' = [l \in Loops |-> "off"] /\ pc' = [c \in Callers |-> "over"]
      /\ entry' = [k \in Caches |-> None] /\ inflight' = [k \in Caches |-> None]
      /\ stage' = [f \in Fetchers |-> "none"] /\ answer' = [f \in Fetchers |-> Error]
      /\ dead' = {} /\ joined' = [c \in Callers |-> None] /\ got' = [c \in Callers |-> Error]
      /\ group' = None /\ migrated' = migrated /\ upstream' = upstream /\ failures' = failures
      /\ saved' = saved /\ old' = old
  BY DEF Die
<1>2. ProcessTypes'
  <2>1. loop' \in [Loops -> {"off", "waiting", "working", "ended", "panicked"}] /\ bucket' \in 0..RateLimit
    BY <1>1, ApiAssumption
  <2>2. slots' \subseteq Requests \union Loops
    BY <1>1
  <2> QED
    BY <1>1, <2>1, <2>2 DEF ApiInv, ProcessTypes
<1>3. SlotsAccounted'
  BY <1>1, Who DEF SlotsAccounted
<1>4. BootInv'
  BY <1>1, <1>3, Who DEF BootInv, LoopsHaveTables
<1>5. VertexTypeOK'
  BY <1>1, Who DEF ApiInv, VertexInv, VertexTypeOK, CallsTypeOK, Error
<1>6. PathsKept'
  BY <1>1 DEF PathsKept, Labels, Fetching
<1>7. NextFlights
  BY <1>1, Who DEF NextFlights, Fetching
<1>8. NothingFromTheFuture'
  BY <1>1, Who DEF ApiInv, VertexInv, NothingFromTheFuture, Error
<1>9. NextNewest
  BY <1>1, Who DEF NextNewest
<1>10. Advance
  <2>1. VertexInv
    BY DEF ApiInv
  <2> QED
    BY <1>1, <2>1, SameSaved DEF Advance, EntryOnlyAdvances
<1>11. inflight' \in [Caches -> Fetchers \union {None}]
  BY <1>1
<1>12. FlightInv' /\ AnswersAreNewest'
  BY <1>1, <1>7, <1>9, <1>11, FlightsThen, NewestThen
<1> QED
  BY <1>2, <1>4, <1>5, <1>6, <1>8, <1>10, <1>12 DEF ApiInv, VertexInv

\* initializeAPI, and the end of the context (main.go:56-176).
LEMMA BootStepKeeps ==
    ASSUME ApiInv, Running, Initialize \/ BuildFails \/ EndContext
    PROVE  ApiInv' /\ Advance
<1>1. CASE OpenStore \/ SetReady \/ BuildFails \/ EndContext
  <2>1. deploy' = deploy /\ UNCHANGED gate /\ UNCHANGED vertexVars /\ migrated' = migrated
    BY <1>1 DEF OpenStore, SetReady, BuildFails, EndContext
  <2>2. VertexInv' /\ Advance /\ pc' = pc
    BY <2>1, StillKeeps DEF ApiInv
  <2>3. ProcessTypes'
    BY <1>1, <2>1 DEF OpenStore, SetReady, BuildFails, EndContext, ApiInv, ProcessTypes, gate
  <2>4. SlotsAccounted' /\ LoopsHaveTables'
    BY <2>1, <2>2 DEF ApiInv, BootInv, SlotsAccounted, LoopsHaveTables, gate
  <2>5. BootInv'
    <3>1. loop' = loop /\ slots' = slots
      BY <2>1 DEF gate
    <3>2. CASE OpenStore
      <4>1. /\ init = "opening" /\ published' = published /\ main' = main
            /\ (init' = "building" /\ store' = "open") \/ init' = "done"
        BY <3>2 DEF OpenStore
      <4>2. ~published /\ pc[Sync] = "over" /\ \A l \in Loops : loop[l] = "off"
        BY <4>1 DEF ApiInv, BootInv
      <4> QED
        BY <2>2, <2>4, <3>1, <4>1, <4>2 DEF ApiInv, BootInv
    <3>3. CASE SetReady \/ BuildFails
      BY <2>2, <2>4, <3>1, <3>3 DEF SetReady, BuildFails, ApiInv, BootInv, ProcessTypes, Running
    <3>4. CASE EndContext
      BY <2>2, <2>4, <3>1, <3>4 DEF EndContext, ApiInv, BootInv, Running
    <3> QED
      BY <1>1, <3>2, <3>3, <3>4
  <2> QED
    BY <2>2, <2>3, <2>5 DEF ApiInv
<1>2. CASE StartWorkers
  <2>1. /\ UNCHANGED <<deploy, main, store, published, bucket, slots, joined, got>> /\ init = "building" /\ init' = "wiring"
        /\ UNCHANGED <<upstream, failures, entry, inflight, stage, answer, dead, saved, old, group>>
        /\ pc' = [pc EXCEPT ![Sync] = IF deploy.sync THEN "asleep" ELSE @]
    BY <1>2 DEF StartWorkers, cacheVars, tables
  <2>2. PICK ok \in BOOLEAN :
           /\ ~ok => deploy.loops # {}
           /\ migrated' = (ok /\ deploy.loops # {})
           /\ loop' = [l \in Loops |-> IF l \in LoopsStart(ok) THEN "waiting" ELSE loop[l]]
    BY <1>2 DEF StartWorkers
  <2>3. pc[Sync] = "over" /\ Sync \in Callers /\ (\A l \in Loops : loop[l] = "off") /\ store = "open" /\ ~published
    BY <2>1, Who DEF ApiInv, BootInv, ProcessTypes
  <2>4. PICK s \in {"over", "asleep"} : Goto(Sync, s)
    BY <2>1, <2>3 DEF Goto
  <2>5. s \in Labels /\ s \in {"new", "over"} \union Outside(Sync) /\ s \notin Fetching
    BY <2>3, Places DEF Labels, Fetching
  <2>6. /\ failures' \in 0..MaxFailures /\ old' \in [Tables -> BOOLEAN]
        /\ group' \in Requests \union {Async, None} /\ group' = group /\ VertexInv
    BY <2>1 DEF ApiInv, VertexInv, VertexTypeOK, CallsTypeOK
  <2>7. VertexInv' /\ Advance
    BY <2>1, <2>3, <2>4, <2>5, <2>6, GotoKeeps DEF Fetching
  <2>8. \A r \in Requests : pc'[r] = pc[r]
    BY <2>1, Who DEF ApiInv, VertexInv, PathsKept
  <2>9. \A l \in Loops : loop'[l] \in {"off", "waiting"} /\ (loop'[l] = "waiting" => migrated')
    BY <2>2, <2>3 DEF LoopsStart
  <2>10. ProcessTypes'
    BY <2>1, <2>2, <2>9 DEF ApiInv, ProcessTypes
  <2>11. SlotsAccounted'
    BY <2>1, <2>3, <2>8, <2>9 DEF ApiInv, BootInv, SlotsAccounted
  <2>12. BootInv'
    BY <2>1, <2>3, <2>8, <2>9, <2>11 DEF ApiInv, BootInv, LoopsHaveTables
  <2> QED
    BY <2>7, <2>10, <2>12 DEF ApiInv
<1> QED
  BY <1>1, <1>2 DEF Initialize

\* Through the limiter to the gate or to a handler, and out of the queue
\* (ratelimit.go, chgate.go:32-70).
LEMMA GateKeeps ==
    ASSUME ApiInv, NEW r \in Requests,
           Arrive(r) \/ Acquire(r) \/ QueueExpires(r) \/ ClientLeaves(r) \/ WorkEnds(r)
    PROVE  ApiInv' /\ Advance
<1>1. /\ deploy' = deploy /\ UNCHANGED boot /\ UNCHANGED cacheVars /\ UNCHANGED tables /\ loop' = loop
      /\ pc[r] \in {"new", "queued", "working"} /\ VertexInv
  BY DEF Arrive, Acquire, QueueExpires, ClientLeaves, WorkEnds, gate, ApiInv
<1>2. /\ UNCHANGED <<upstream, failures, entry, inflight, stage, answer, dead, saved, old, group>>
      /\ UNCHANGED <<init, main, store, migrated, published>>
  BY <1>1 DEF cacheVars, tables, boot
<1>3. r \in Callers /\ r # Sync /\ Kind(r) \in Kinds \union {None} /\ "recommended" \in Caches
  <2>1. deploy \in Deployments
    BY DEF ApiInv, ProcessTypes
  <2>2. \A q \in DOMAIN deploy.kind : deploy.kind[q] \in Kinds
    BY <2>1, ApiAssumption
  <2> QED
    BY <2>2, Who DEF Kind
<1>4. PICK s \in Labels : /\ Goto(r, s) /\ s \in {"new", "over"} \union Outside(r) /\ s # "new"
                          /\ s # "over" => published
                          /\ s = "working" <=> Acquire(r)
                          /\ Acquire(r) => SlotFree
  <2>1. CASE Arrive(r)
    <3>1. Kind(r) \in Kinds /\ pc[r] = "new"
      BY <1>3, <2>1 DEF Arrive
    <3>2. (IF Kind(r) \in Gated THEN "queued" ELSE Kind(r)) \in Outside(r) \ {"working"}
      BY <1>3, <3>1, Places DEF Kinds, Gated
    <3>3. \E s \in {"over"} \union (Outside(r) \ {"working"}) : Goto(r, s) /\ (s # "over" => published)
      <4>1. CASE ~Ready \/ (Kind(r) # "graphql" /\ bucket >= RateLimit)
        BY <2>1, <4>1 DEF Arrive
      <4>2. CASE ~(~Ready \/ (Kind(r) # "graphql" /\ bucket >= RateLimit))
        BY <2>1, <3>2, <4>2 DEF Arrive, Ready
      <4> QED
        BY <4>1, <4>2
    <3>4. ~Acquire(r) /\ Outside(r) \subseteq Labels /\ "over" \in Labels
      BY <1>3, <3>1, Places DEF Acquire, Labels
    <3>5. "new" \notin Outside(r) /\ "over" \notin Outside(r)
      BY <1>3, <3>1, Places, Who DEF Kinds, Gated
    <3> QED
      BY <3>3, <3>4, <3>5
  <2>2. CASE Acquire(r)
    <3>1. "working" \in Outside(r) /\ published
      BY <1>3, <2>2, Places DEF Acquire, ApiInv, BootInv, VertexInv, PathsKept, Fetching
    <3> QED
      BY <2>2, <3>1 DEF Acquire, Labels
  <2>3. CASE QueueExpires(r) \/ ClientLeaves(r) \/ WorkEnds(r)
    <3>1. Goto(r, "over") /\ "over" \in Labels
      BY <2>3 DEF QueueExpires, ClientLeaves, WorkEnds, Labels
    <3>2. ~Acquire(r)
      <4>1. r \in Callers /\ pc \in [Callers -> Labels]
        BY <1>1, <1>3 DEF VertexInv, PathsKept
      <4>2. pc'[r] = "over"
        BY <3>1, <4>1 DEF Goto
      <4>3. Acquire(r) => pc'[r] = "working"
        BY <4>1 DEF Acquire, Goto
      <4> QED
        BY <4>2, <4>3
    <3> QED
      BY <3>1, <3>2
  <2> QED
    BY <2>1, <2>2, <2>3
<1>5. s \notin Fetching
  BY <1>3, <1>4, Places DEF Fetching
<1>6. /\ failures' \in 0..MaxFailures /\ old' \in [Tables -> BOOLEAN]
      /\ group' \in Requests \union {Async, None} /\ group' = group
  BY <1>1, <1>2 DEF VertexInv, VertexTypeOK, CallsTypeOK
<1>7. VertexInv' /\ Advance
  BY <1>1, <1>2, <1>3, <1>4, <1>5, <1>6, GotoKeeps DEF Fetching
<1>8. pc'[r] = s /\ \A d \in Callers \ {r} : pc'[d] = pc[d]
  BY <1>1, <1>3, <1>4, Went
<1>9. /\ bucket' \in 0..RateLimit /\ slots' \subseteq Requests \union Loops
      /\ \A h \in (Requests \union Loops) \ {r} : h \in slots' <=> h \in slots
      /\ r \in slots' <=> s = "working"
  <2>1. bucket \in 0..RateLimit /\ slots \subseteq Requests \union Loops /\ RateLimit \in Nat
    BY ApiAssumption DEF ApiInv, ProcessTypes
  <2>2. r \in slots <=> pc[r] = "working"
    BY DEF ApiInv, BootInv, SlotsAccounted
  <2>3. CASE Arrive(r)
    <3>1. ~Acquire(r) /\ r \notin slots /\ slots' = slots
      BY <2>2, <2>3 DEF Arrive, Acquire
    <3>2. bucket' \in 0..RateLimit
      BY <2>1, <2>3 DEF Arrive
    <3> QED
      BY <1>4, <2>1, <3>1, <3>2
  <2>4. CASE Acquire(r)
    BY <1>4, <2>1, <2>4 DEF Acquire
  <2>5. CASE QueueExpires(r) \/ ClientLeaves(r)
    <3>1. r \notin slots /\ slots' = slots /\ bucket' = bucket
      BY <2>2, <2>5 DEF QueueExpires, ClientLeaves, gate
    <3>2. ~Acquire(r)
      BY <1>4, <1>8, <2>5, <1>3, <1>1 DEF QueueExpires, ClientLeaves, Acquire, Goto, VertexInv, PathsKept
    <3> QED
      BY <1>4, <2>1, <3>1, <3>2
  <2>6. CASE WorkEnds(r)
    <3>1. ~Acquire(r) /\ slots' = slots \ {r} /\ bucket' = bucket
      BY <2>6 DEF WorkEnds, Acquire, SlotsAfter
    <3> QED
      BY <1>4, <2>1, <3>1
  <2> QED
    BY <2>3, <2>4, <2>5, <2>6
<1>10. ProcessTypes'
  BY <1>1, <1>2, <1>9 DEF ApiInv, ProcessTypes
<1>11. SlotsAccounted'
  <2> SUFFICES ASSUME NEW h \in Requests \union Loops
               PROVE  h \in slots' <=> IF h \in Requests THEN pc'[h] = "working"
                                       ELSE loop'[h] \in {"working", "panicked"}
    BY DEF SlotsAccounted
  <2>1. CASE h = r
    BY <1>8, <1>9, <2>1
  <2>2. CASE h # r
    <3>1. h \in slots <=> IF h \in Requests THEN pc[h] = "working" ELSE loop[h] \in {"working", "panicked"}
      BY DEF ApiInv, BootInv, SlotsAccounted
    <3>2. h \in Requests => pc'[h] = pc[h]
      BY <1>8, <2>2, Who
    <3> QED
      BY <1>1, <1>9, <2>2, <3>1, <3>2
  <2> QED
    BY <2>1, <2>2
<1>12. BootInv'
  <2>1. \A q \in Requests : pc'[q] \notin {"new", "over"} => published'
    BY <1>2, <1>4, <1>8, Who DEF ApiInv, BootInv
  <2>2. pc'[Sync] = pc[Sync]
    BY <1>3, <1>8, Who
  <2> QED
    BY <1>1, <1>2, <1>11, <2>1, <2>2 DEF ApiInv, BootInv, LoopsHaveTables, Running
<1> QED
  BY <1>7, <1>10, <1>12 DEF ApiInv

\* The loops take a slot, give it back, or lose it; and the client's window
\* (rollup.go:100-210, ratelimit.go).
LEMMA LoopKeeps ==
    ASSUME ApiInv, WindowPasses \/ \E l \in Loops : LoopStarts(l) \/ LoopWorks(l) \/ LoopPanics(l)
    PROVE  ApiInv' /\ Advance
<1>1. deploy' = deploy /\ UNCHANGED boot /\ UNCHANGED vertexVars
  BY DEF WindowPasses, LoopStarts, LoopWorks, LoopPanics
<1>2. VertexInv' /\ Advance /\ pc' = pc
  BY <1>1, StillKeeps DEF ApiInv
<1>3. UNCHANGED <<init, main, store, migrated, published>>
  BY <1>1 DEF boot
<1>4. /\ loop \in [Loops -> {"off", "waiting", "working", "ended", "panicked"}]
      /\ bucket \in 0..RateLimit /\ slots \subseteq Requests \union Loops /\ RateLimit \in Nat
      /\ \A l \in Loops : l \notin Requests
  BY ApiAssumption DEF ApiInv, ProcessTypes
<1>5. /\ bucket' \in 0..RateLimit /\ slots' \subseteq Requests \union Loops
      /\ loop' \in [Loops -> {"off", "waiting", "working", "ended", "panicked"}]
      /\ \A l \in Loops : loop'[l] # "off" => loop[l] # "off"
      /\ \A r \in Requests : r \in slots' <=> r \in slots
      /\ \A l \in Loops : l \in slots' <=> loop'[l] \in {"working", "panicked"}
  <2>1. \A l \in Loops : l \in slots <=> loop[l] \in {"working", "panicked"}
    BY <1>4 DEF ApiInv, BootInv, SlotsAccounted
  <2>2. CASE WindowPasses
    BY <1>4, <2>1, <2>2 DEF WindowPasses
  <2>3. ASSUME NEW l \in Loops, LoopStarts(l) \/ LoopWorks(l) \/ LoopPanics(l)
        PROVE  /\ bucket' = bucket /\ loop[l] # "off"
               /\ \E s \in {"waiting", "working", "ended", "panicked"} :
                    /\ loop' = [loop EXCEPT ![l] = s]
                    /\ slots' = IF s \in {"working", "panicked"} THEN slots \union {l} ELSE slots \ {l}
    <3>1. CASE LoopStarts(l)
      BY <3>1 DEF LoopStarts
    <3>2. CASE loop[l] = "working" /\ LoopWorks(l)
      BY <3>2 DEF LoopWorks, SlotsAfter
    <3>3. CASE loop[l] # "working" /\ LoopWorks(l)
      <4>1. l \notin slots /\ slots' = slots
        BY <2>1, <3>3 DEF LoopWorks
      <4> QED
        BY <3>3, <4>1 DEF LoopWorks
    <3>4. CASE LoopPanics(l)
      <4>1. l \in slots /\ slots' = slots
        BY <2>1, <3>4 DEF LoopPanics
      <4> QED
        BY <3>4, <4>1 DEF LoopPanics
    <3> QED
      BY <2>3, <3>1, <3>2, <3>3, <3>4
  <2>4. CASE \E l \in Loops : LoopStarts(l) \/ LoopWorks(l) \/ LoopPanics(l)
    <3>1. PICK l \in Loops : LoopStarts(l) \/ LoopWorks(l) \/ LoopPanics(l)
      BY <2>4
    <3>2. bucket' = bucket /\ loop[l] # "off"
      BY <2>3, <3>1
    <3>3. PICK s \in {"waiting", "working", "ended", "panicked"} :
            /\ loop' = [loop EXCEPT ![l] = s]
            /\ slots' = IF s \in {"working", "panicked"} THEN slots \union {l} ELSE slots \ {l}
      BY <2>3, <3>1
    <3>4. /\ loop' \in [Loops -> {"off", "waiting", "working", "ended", "panicked"}]
          /\ \A m \in Loops : loop'[m] = IF m = l THEN s ELSE loop[m]
      BY <1>4, <3>3
    <3>5. slots' \subseteq Requests \union Loops /\ \A h : h # l => (h \in slots' <=> h \in slots)
      BY <1>4, <3>3
    <3>6. \A m \in Loops : m \in slots' <=> loop'[m] \in {"working", "panicked"}
      BY <2>1, <3>3, <3>4, <3>5
    <3> QED
      BY <1>4, <3>2, <3>4, <3>5, <3>6
  <2> QED
    BY <2>2, <2>4
<1>6. SlotsAccounted'
  BY <1>2, <1>4, <1>5 DEF ApiInv, BootInv, SlotsAccounted
<1>7. ProcessTypes'
  BY <1>1, <1>3, <1>5 DEF ApiInv, ProcessTypes
<1>8. LoopsHaveTables'
  BY <1>3, <1>5 DEF ApiInv, BootInv, LoopsHaveTables
<1>9. init \in {"opening", "building"} => \A l \in Loops : loop'[l] = "off"
  BY <1>5 DEF ApiInv, BootInv
<1>10. BootInv'
  BY <1>2, <1>3, <1>6, <1>8, <1>9 DEF ApiInv, BootInv, Running
<1> QED
  BY <1>2, <1>7, <1>10 DEF ApiInv

\* A fetch begins, goes on, ends, panics, or is not waited for any more.
LEMMA FetchKeeps ==
    ASSUME VertexInv, deploy' = deploy,
           \/ \E c \in Callers : \/ /\ Lookup(c, CacheOf(c)) \/ FetchOnce(c, CacheOf(c)) \/ StopWaiting(c)
                                    /\ UNCHANGED tables
                                 \/ CachePanics(c, CacheOf(c))
           \/ \E f \in Fetchers : RunFetch(f, CacheOf(f)) /\ UNCHANGED tables
    PROVE  VertexInv' /\ Advance /\ Quiet
<1>1. Quiet
  BY QuietFlights
<1>2. CASE \E c \in Callers : Lookup(c, CacheOf(c)) /\ UNCHANGED tables
  BY <1>1, <1>2, LookupKeeps
<1>3. CASE \E c \in Callers : FetchOnce(c, CacheOf(c)) /\ UNCHANGED tables
  BY <1>1, <1>3, FetchOnceKeeps
<1>4. CASE \E c \in Callers : StopWaiting(c) /\ UNCHANGED tables
  BY <1>1, <1>4, StopKeeps
<1>5. CASE \E c \in Callers : CachePanics(c, CacheOf(c))
  BY <1>1, <1>5, PanicKeeps
<1>6. CASE \E f \in Fetchers : RunFetch(f, CacheOf(f)) /\ UNCHANGED tables
  BY <1>1, <1>6, AskKeeps, StoreKeeps, FinishKeeps DEF RunFetch
<1> QED
  BY <1>1, <1>2, <1>3, <1>4, <1>5, <1>6

\* What a call ends with leaves the requests at work alone.
LEMMA AnsweredQuietly ==
    ASSUME VertexInv, deploy' = deploy, NEW c \in Callers, NEW s \in {"over", "asleep"},
           s = "asleep" <=> c = Sync,
           \/ CacheOf(c) = "profile" /\ ProfileAnswered(c, s)
           \/ pc[c] = "answered" /\ End(c, s) /\ UNCHANGED <<cacheVars, tables>>
    PROVE  VertexInv' /\ Advance /\ Quiet
<1>1. s \in Labels /\ s \in {"new", "over"} \union Outside(c)
  BY Places DEF Labels
<1>2. VertexInv' /\ Advance /\ pc[c] = "answered" /\ pc'[c] = s /\ \A d \in Callers \ {c} : pc'[d] = pc[d]
  BY <1>1, AnsweredKeeps
<1>3. Quiet
  BY <1>2, Who DEF Quiet
<1> QED
  BY <1>2, <1>3

\* The callers of Vertex by themselves, the service, and time.
LEMMA CallersKeep ==
    ASSUME ApiInv,
           \/ \E r \in Requests : RequestStep(r)
           \/ AsyncStep \/ SyncStep \/ VertexWorld \/ ProfileRowAges
           \/ \E k \in Caches : FlightStep(k)
           \/ \E c \in Requests \union {Async} : RecoveredPanic(c)
    PROVE  ApiInv' /\ Advance
<1>1. VertexInv /\ ProcessTypes /\ BootInv
  BY DEF ApiInv
<1>2. ASSUME UNCHANGED <<deploy, boot, gate>>, VertexInv', Advance, Quiet
      PROVE  ApiInv' /\ Advance
  BY <1>1, <1>2, BootKept DEF ApiInv
<1>3. ASSUME NEW r \in Requests, RequestStep(r) PROVE ApiInv' /\ Advance
  <2>1. r \in Callers /\ CacheOf(r) = Kind(r) /\ r # Sync
    BY Who
  <2>2. CASE WorkEnds(r) \/ QueueExpires(r)
    BY <2>2, GateKeeps
  <2>3. CASE ~(WorkEnds(r) \/ QueueExpires(r))
    <3>1. /\ UNCHANGED <<deploy, boot, gate>> /\ deploy' = deploy
          /\ \/ Profile(r) \/ Recommended(r) \/ Search(r) \/ Refresh(r)
             \/ Kind(r) = "profile" /\ ProfileAnswered(r, "over")
             \/ Kind(r) = "recommended" /\ RecommendedAnswered(r)
             \/ Kind(r) = "search" /\ SearchAnswered(r)
             \/ /\ Lookup(r, CacheOf(r)) \/ FetchOnce(r, CacheOf(r)) \/ StopWaiting(r)
                /\ UNCHANGED tables
      BY <1>3, <2>3 DEF RequestStep
    <3>2. CASE Profile(r) \/ Recommended(r)
      BY <1>1, <1>2, <2>1, <3>1, <3>2, RouteKeeps
    <3>3. CASE Search(r)
      BY <1>1, <1>2, <3>1, <3>3, SearchKeeps
    <3>4. CASE Refresh(r)
      BY <1>1, <1>2, <2>1, <3>1, <3>4, RefreshKeeps
    <3>5. CASE Kind(r) = "profile" /\ ProfileAnswered(r, "over")
      BY <1>1, <1>2, <2>1, <3>1, <3>5, AnsweredQuietly
    <3>6. CASE RecommendedAnswered(r)
      <4>1. pc[r] = "answered" /\ End(r, "over") /\ UNCHANGED <<cacheVars, tables>>
        BY <3>6 DEF RecommendedAnswered
      <4> QED
        BY <1>1, <1>2, <2>1, <3>1, <4>1, AnsweredQuietly
    <3>7. CASE Kind(r) = "search" /\ SearchAnswered(r)
      BY <1>1, <1>2, <2>1, <3>1, <3>7, SearchAnsweredKeeps
    <3>8. CASE /\ Lookup(r, CacheOf(r)) \/ FetchOnce(r, CacheOf(r)) \/ StopWaiting(r)
               /\ UNCHANGED tables
      BY <1>1, <1>2, <2>1, <3>1, <3>8, FetchKeeps
    <3> QED
      BY <3>1, <3>2, <3>3, <3>4, <3>5, <3>6, <3>7, <3>8
  <2> QED
    BY <2>2, <2>3
<1>4. CASE AsyncStep
  <2>1. Async \in Callers /\ CacheOf(Async) = "search" /\ deploy' = deploy /\ UNCHANGED <<deploy, boot, gate>>
    BY <1>4, Who DEF AsyncStep
  <2>2. CASE Refresh(Async)
    BY <1>1, <1>2, <2>1, <2>2, RefreshKeeps
  <2>3. CASE SearchAnswered(Async)
    BY <1>1, <1>2, <2>1, <2>3, SearchAnsweredKeeps
  <2>4. CASE (FetchOnce(Async, CacheOf(Async)) \/ StopWaiting(Async)) /\ UNCHANGED tables
    BY <1>1, <1>2, <2>1, <2>4, FetchKeeps
  <2> QED
    BY <1>4, <2>1, <2>2, <2>3, <2>4 DEF AsyncStep
<1>5. CASE SyncStep
  <2>1. Sync \in Callers /\ CacheOf(Sync) = "profile" /\ deploy' = deploy /\ UNCHANGED <<deploy, boot, gate>>
    BY <1>5, Who DEF SyncStep
  <2>2. CASE SyncRefresh
    BY <1>1, <1>2, <2>1, <2>2, RouteKeeps
  <2>3. CASE SyncSave
    <3>1. ProfileAnswered(Sync, "asleep")
      BY <2>3 DEF SyncSave
    <3> QED
      BY <1>1, <1>2, <2>1, <3>1, AnsweredQuietly
  <2>4. CASE (FetchOnce(Sync, CacheOf(Sync)) \/ StopWaiting(Sync)) /\ UNCHANGED tables
    BY <1>1, <1>2, <2>1, <2>4, FetchKeeps
  <2> QED
    BY <1>5, <2>1, <2>2, <2>3, <2>4 DEF SyncStep
<1>6. CASE VertexWorld \/ ProfileRowAges
  <2>1. UNCHANGED <<deploy, boot, gate>> /\ deploy' = deploy
    BY <1>6 DEF VertexWorld, ProfileRowAges
  <2>2. VertexInv' /\ Advance /\ pc' = pc
    <3>1. \/ (Publish \/ Age("recommended")) /\ UNCHANGED tables
          \/ \E t \in Tables : RowAges(t)
      BY <1>6 DEF VertexWorld, ProfileRowAges, Tables
    <3> QED
      BY <1>1, <2>1, <3>1, WorldKeeps
  <2>3. Quiet
    BY <2>2 DEF Quiet
  <2> QED
    BY <1>2, <2>1, <2>2, <2>3
<1>7. ASSUME NEW k \in Caches, FlightStep(k) PROVE ApiInv' /\ Advance
  <2>1. /\ UNCHANGED <<deploy, boot, gate>> /\ deploy' = deploy
        /\ \E f \in Fetchers : RunFetch(f, CacheOf(f)) /\ UNCHANGED tables
    BY <1>7 DEF FlightStep
  <2> QED
    BY <1>1, <1>2, <2>1, FetchKeeps
<1>8. ASSUME NEW c \in Requests \union {Async}, RecoveredPanic(c) PROVE ApiInv' /\ Advance
  <2>1. UNCHANGED <<deploy, boot, gate>> /\ deploy' = deploy /\ CachePanics(c, CacheOf(c)) /\ c \in Callers
    BY <1>8, Who DEF RecoveredPanic
  <2> QED
    BY <1>1, <1>2, <2>1, FetchKeeps
<1> QED
  BY <1>3, <1>4, <1>5, <1>6, <1>7, <1>8

-----------------------------------------------------------------------------
(* The theorems *)

\* The process starts with everything free and empty.
LEMMA ApiInit == Init => ApiInv
<1> SUFFICES ASSUME Init PROVE ApiInv
  OBVIOUS
<1>1. /\ upstream = 1 /\ failures = 0
      /\ entry = [k \in Caches |-> None] /\ inflight = [k \in Caches |-> None]
      /\ stage = [f \in Fetchers |-> "none"] /\ answer = [f \in Fetchers |-> Error] /\ dead = {}
      /\ joined = [c \in Callers |-> None] /\ got = [c \in Callers |-> Error]
      /\ saved = [t \in Tables |-> 0] /\ old = [t \in Tables |-> TRUE] /\ group = None
      /\ pc = [c \in Callers |-> IF c \in Requests THEN "new" ELSE "over"]
      /\ loop = [l \in Loops |-> "off"] /\ slots = {} /\ bucket = 0
      /\ init = "opening" /\ main = "serving" /\ store = "none" /\ migrated = FALSE /\ published = FALSE
      /\ deploy \in Deployments
  BY DEF Init, InitVertex, InitCalls
<1>2. ProcessTypes
  <2>1. loop \in [Loops -> {"off", "waiting", "working", "ended", "panicked"}] /\ bucket \in 0..RateLimit
    BY <1>1, ApiAssumption
  <2>2. slots \subseteq Requests \union Loops
    BY <1>1
  <2> QED
    BY <1>1, <2>1, <2>2 DEF ProcessTypes
<1>3. SlotsAccounted
  BY <1>1, Who DEF SlotsAccounted
<1>4. BootInv
  BY <1>1, <1>3, Who DEF BootInv, LoopsHaveTables
<1>5. VertexTypeOK
  BY <1>1, Who, CachedCallAssumption DEF VertexTypeOK, CallsTypeOK, Error
<1>6. PathsKept
  BY <1>1 DEF PathsKept, Labels, Fetching
<1>7. FlightInv
  BY <1>1, Who DEF FlightInv, FlightsAreLed, Fetching
<1>8. NothingFromTheFuture
  BY <1>1, Who DEF NothingFromTheFuture, Error
<1>9. AnswersAreNewest
  BY <1>1, Who DEF AnswersAreNewest
<1> QED
  BY <1>2, <1>4, <1>5, <1>6, <1>7, <1>8, <1>9 DEF ApiInv, VertexInv

\* Every step keeps all of it, and no cached answer goes back.
LEMMA ApiNext == ASSUME ApiInv, [Next]_vars PROVE ApiInv' /\ Advance
<1>1. CASE Next
  <2>1. CASE Initialize \/ BuildFails \/ EndContext
    BY <1>1, <2>1, BootStepKeeps DEF Next
  <2>2. CASE Close
    <3>1. Die("exited") /\ store' \in {"none", "open", "closed"}
      BY <2>2 DEF Close, ApiInv, ProcessTypes
    <3> QED
      BY <3>1, DeathKeeps
  <2>3. CASE Crash
    <3>1. Die("crashed") /\ store' \in {"none", "open", "closed"}
      BY <2>3 DEF Crash, ApiInv, ProcessTypes
    <3> QED
      BY <3>1, DeathKeeps
  <2>4. CASE WindowPasses \/ \E l \in Loops : LoopStarts(l) \/ LoopWorks(l) \/ LoopPanics(l)
    BY <2>4, LoopKeeps
  <2>5. CASE \E r \in Requests : Arrive(r) \/ Acquire(r) \/ ClientLeaves(r)
    BY <2>5, GateKeeps
  <2>6. CASE \/ \E r \in Requests : RequestStep(r)
             \/ AsyncStep \/ SyncStep \/ VertexWorld \/ ProfileRowAges
             \/ \E k \in Caches : FlightStep(k)
             \/ \E c \in Requests \union {Async} : RecoveredPanic(c)
    BY <2>6, CallersKeep
  <2> QED
    BY <1>1, <2>1, <2>2, <2>3, <2>4, <2>5, <2>6 DEF Next
<1>2. CASE UNCHANGED vars
  <2>1. /\ UNCHANGED vertexVars /\ UNCHANGED <<deploy, boot, gate>> /\ deploy' = deploy
        /\ VertexInv /\ ProcessTypes /\ BootInv
    BY <1>2 DEF vars, ApiInv
  <2>2. VertexInv' /\ Advance /\ pc' = pc
    BY <2>1, StillKeeps
  <2>3. Quiet
    BY <2>2 DEF Quiet
  <2> QED
    BY <2>1, <2>2, <2>3, BootKept DEF ApiInv
<1> QED
  BY <1>1, <1>2

\* The variables of the process, of the callers of Vertex and of their caches keep their
\* types, through start-up, panics and shutdown.
THEOREM ApiTypes == Spec => []TypeOK
<1>1. ApiInv => TypeOK
  BY DEF ApiInv, ProcessTypes, VertexInv, TypeOK
<1> QED
  BY <1>1, ApiInit, ApiNext, PTL DEF Spec

\* Every request and loop at work has a slot of the gate, and no slot is held by anybody
\* else but a loop that panicked (chgate.go:32-70, rollup.go:100-210); no request is at
\* work on a closed store, whether the initialization failed or succeeded
\* (main.go:56-105); no loop runs before the migration has succeeded (main.go:136-176);
\* and every flight callers can join has somebody who will finish it, or has panicked
\* (cache.go:152-175).
THEOREM ApiWorkIsAllowed == Spec => []WorkIsAllowed
<1>1. ApiInv => WorkIsAllowed
  <2> SUFFICES ASSUME ApiInv PROVE WorkIsAllowed
    OBVIOUS
  <2>1. OpenWhileWorking
    BY DEF ApiInv, BootInv, OpenWhileWorking
  <2> QED
    BY <2>1 DEF ApiInv, BootInv, VertexInv, FlightInv, WorkIsAllowed
<1> QED
  BY <1>1, ApiInit, ApiNext, PTL DEF Spec

\* What Vertex answered is never replaced by something older: not in a cache
\* (cache.go:61-95, 133-150), and not the search results in ClickHouse
\* (search_provider.go:83-104), whatever fetches, fails, panics or stops waiting meanwhile.
THEOREM ApiAnswersOnlyAdvance == Spec => AnswersOnlyAdvance
<1>1. ASSUME ApiInv, [Next]_vars PROVE [EntryOnlyAdvances /\ saved'["search"] >= saved["search"]]_vertexVars
  BY <1>1, ApiNext DEF Advance
<1> QED
  BY <1>1, ApiInit, ApiNext, PTL DEF Spec, AnswersOnlyAdvance
=============================================================================
