----------------------------- MODULE CachedCall -----------------------------
(***************************************************************************)
(* vertex.cachedCall: an answer cached in the process in front of a slow   *)
(* and metered service.  Get serves an entry, fresh or stale, and has a    *)
(* stale one refreshed in the background; Refresh always fetches; the      *)
(* callers who need a fetch while one runs wait for that one.              *)
(*                                                                         *)
(* One key per cache; an answer is the version of the service's data it    *)
(* was computed from.  A flight is named by who leads it: the caller, or   *)
(* for a background refresh the cache itself.                              *)
(***************************************************************************)
EXTENDS Integers, FiniteSets

CONSTANTS
    Caches,
    Callers,
    MaxVersion, MaxFailures, \* bounds
    None

Versions == 1..MaxVersion
Error == 0                     \* the result of a call that failed
Empty == MaxVersion + 1        \* an answer that validate rejects
Answers == Versions \union {Error, Empty}
Fetchers == Callers \union Caches

ASSUME CachedCallAssumption ==
    /\ MaxVersion \in Nat \ {0} /\ MaxFailures \in Nat
    /\ Callers \intersect Caches = {} /\ None \notin Fetchers

VARIABLES
    upstream,   \* the version the service would answer with
    failures,   \* bound
    entry,      \* entry[k]: [ver, fresh], or None
    inflight,   \* inflight[k]: the flight callers of k join, or None
    stage,      \* stage[f]: where the fetch led by f is
    answer,     \* answer[f]: what it fetched
    dead,       \* caches whose flight nobody will finish
    pc,         \* of each caller; "missed" is the start of fetchOnce
    joined,     \* joined[c]: the flight c waits for
    got         \* got[c]: the result of its call

cacheVars == <<upstream, failures, entry, inflight, stage, answer, dead>>
callVars == <<pc, joined, got>>

InitCalls ==
    /\ upstream = 1 /\ failures = 0
    /\ entry = [k \in Caches |-> None] /\ inflight = [k \in Caches |-> None]
    /\ stage = [f \in Fetchers |-> "none"] /\ answer = [f \in Fetchers |-> Error]
    /\ dead = {}
    /\ joined = [c \in Callers |-> None] /\ got = [c \in Callers |-> Error]

-----------------------------------------------------------------------------
(* Helpers *)

\* Return(who, v): the calls of who return v.
Return(who, v) ==
    /\ pc' = [c \in Callers |-> IF c \in who THEN "answered" ELSE pc[c]]
    /\ got' = [c \in Callers |-> IF c \in who THEN v ELSE got[c]]
    /\ joined' = [c \in Callers |-> IF c \in who THEN None ELSE joined[c]]

\* Mutant of Valid: whatever is answered is cached.
ValidAlways(v) == v # Error

Valid(v) == v \in Versions

\* Mutant of Joinable: a caller that missed fetches by itself.
JoinNever(k) == FALSE

Joinable(k) == inflight[k] # None

\* The callers whose result is the flight f.
Awaiting(f) == {c \in Callers : (pc[c] = "waiting" /\ joined[c] = f)
                                   \/ (pc[c] = "leading" /\ c = f)}

\* The flights when f, of k, is over.
After(f, k) == [inflight EXCEPT ![k] = None]

-----------------------------------------------------------------------------
(* Get and fetchOnce *)

\* Get's first section.  The age of an entry beyond swr is that of none.
Lookup(c, k) ==
    /\ pc[c] = "lookup"
    /\ IF entry[k] = None
       THEN pc' = [pc EXCEPT ![c] = "missed"] /\ UNCHANGED <<joined, got>>
       ELSE Return({c}, entry[k].ver)
    /\ IF entry[k] # None /\ ~entry[k].fresh /\ inflight[k] = None
       THEN /\ inflight' = [inflight EXCEPT ![k] = k]
            /\ stage' = [stage EXCEPT ![k] = "asking"]
       ELSE UNCHANGED <<inflight, stage>>
    /\ UNCHANGED <<upstream, failures, entry, answer, dead>>

FetchOnce(c, k) ==
    /\ pc[c] = "missed"
    /\ IF Joinable(k)
       THEN /\ pc' = [pc EXCEPT ![c] = "waiting"]
            /\ joined' = [joined EXCEPT ![c] = inflight[k]]
            /\ UNCHANGED <<inflight, stage>>
       ELSE /\ pc' = [pc EXCEPT ![c] = "leading"]
            /\ inflight' = [inflight EXCEPT ![k] = c]
            /\ stage' = [stage EXCEPT ![c] = "asking"]
            /\ UNCHANGED joined
    /\ UNCHANGED <<upstream, failures, entry, answer, dead, got>>

\* The context of a waiting caller ends.
StopWaiting(c) ==
    /\ pc[c] = "waiting" /\ Return({c}, Error)
    /\ UNCHANGED cacheVars

-----------------------------------------------------------------------------
(* runFetch, led by f *)

\* fn answers; Error is also what it returns when its leader's context ends.
Ask(f) ==
    /\ stage[f] = "asking"
    /\ \E v \in {upstream, Error, Empty} :
         /\ v # upstream => failures < MaxFailures
         /\ failures' = IF v = upstream THEN failures ELSE failures + 1
         /\ answer' = [answer EXCEPT ![f] = v]
    /\ stage' = [stage EXCEPT ![f] = "asked"]
    /\ UNCHANGED <<upstream, entry, inflight, dead, callVars>>

\* The first section: a valid answer becomes the entry.
StoreAnswer(f, k) ==
    /\ stage[f] = "asked"
    /\ stage' = [stage EXCEPT ![f] = "stored"]
    /\ entry' = IF Valid(answer[f])
                THEN [entry EXCEPT ![k] = [ver |-> answer[f], fresh |-> TRUE]] ELSE entry
    /\ UNCHANGED <<upstream, failures, inflight, answer, dead, callVars>>

\* The second: the flight is over, for its leader and for those who joined it.
FinishFlight(f, k) ==
    /\ stage[f] = "stored"
    /\ stage' = [stage EXCEPT ![f] = "none"] /\ answer' = [answer EXCEPT ![f] = Error]
    /\ inflight' = After(f, k)
    /\ Return(Awaiting(f), answer[f])
    /\ UNCHANGED <<upstream, failures, entry, dead>>

\* fn panics, and someone above f recovers: the flight stays in the map.
FetchPanics(f, k) ==
    /\ stage[f] = "asking" /\ stage' = [stage EXCEPT ![f] = "none"]
    /\ dead' = dead \union {k}
    /\ UNCHANGED <<upstream, failures, entry, inflight, answer>>

RunFetch(f, k) == Ask(f) \/ StoreAnswer(f, k) \/ FinishFlight(f, k)

-----------------------------------------------------------------------------
(* The service, and time *)

Publish == /\ upstream < MaxVersion /\ upstream' = upstream + 1
           /\ UNCHANGED <<failures, entry, inflight, stage, answer, dead, callVars>>

\* An entry passes its ttl, and then swr or the bound of the LRU.  Only Get
\* looks at its age.
Age(k) ==
    /\ entry[k] # None
    /\ entry' = [entry EXCEPT ![k] =
         IF @.fresh THEN [ver |-> @.ver, fresh |-> FALSE] ELSE None]
    /\ UNCHANGED <<upstream, failures, inflight, stage, answer, dead, callVars>>

-----------------------------------------------------------------------------
(* Properties *)

CallsTypeOK ==
    /\ upstream \in Versions /\ failures \in 0..MaxFailures
    /\ entry \in [Caches -> [ver : Versions, fresh : BOOLEAN] \union {None}]
    /\ inflight \in [Caches -> Fetchers \union {None}]
    /\ stage \in [Fetchers -> {"none", "asking", "asked", "stored"}]
    /\ answer \in [Fetchers -> Answers] /\ dead \subseteq Caches
    /\ joined \in [Callers -> Fetchers \union {None}] /\ got \in [Callers -> Answers]

\* An entry is never replaced by an older version: background refreshes, misses
\* and Refresh calls that overlap fetch once (cache.go:61-95, 133-150).
EntryOnlyAdvances ==
    \A k \in Caches : entry[k] # None /\ entry'[k] # None => entry'[k].ver >= entry[k].ver

\* Every flight callers can join has somebody who will finish it, or its fetch
\* panicked (cache.go:152-175).
FlightsAreLed ==
    \A k \in Caches : inflight[k] # None /\ k \notin dead => stage[inflight[k]] # "none"
=============================================================================
