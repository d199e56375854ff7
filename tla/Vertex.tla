------------------------------- MODULE Vertex -------------------------------
(***************************************************************************)
(* Who calls the Vertex service and keeps its answers: the profile route   *)
(* (ScoreProvider), the syncer and the search provider, each above its own *)
(* cachedCall and in front of a ClickHouse table; and the recommended      *)
(* route, above a cachedCall only.                                         *)
(*                                                                         *)
(* A table holds one key: the version of its newest row by fetched_at, 0   *)
(* without one, and whether that row is too old.                           *)
(***************************************************************************)
EXTENDS CachedCall

CONSTANTS
    Requests,       \* the HTTP requests that call Vertex are among them
    Async,          \* the goroutine of refreshAsync
    Sync            \* the goroutine of Syncer.Run

ASSUME VertexAssumption ==
    /\ Caches = {"profile", "search", "recommended"}
    /\ Callers = Requests \union {Async, Sync}
    /\ Requests \intersect {Async, Sync} = {} /\ Async # Sync

VARIABLES
    saved,  \* saved[t]: the version t holds, for t = "profile" and "search"
    old,    \* old[t]: is its row older than 6 hours (profile), 7 days (search)?
    group   \* who leads the provider's singleflight call, or None

tables == <<saved, old, group>>
vertexVars == <<cacheVars, callVars, tables>>

Tables == {"profile", "search"}

InitVertex == /\ InitCalls
              /\ saved = [t \in Tables |-> 0] /\ old = [t \in Tables |-> TRUE]
              /\ group = None

-----------------------------------------------------------------------------
(* Helpers *)

Goto(c, s) == pc' = [pc EXCEPT ![c] = s] /\ UNCHANGED <<joined, got>>

\* EndOf(who, c, s): the calls of who are over, and c is at s.
EndOf(who, c, s) ==
    /\ pc' = [d \in Callers |-> CASE d = c -> s [] d \in who \ {c} -> "over" [] OTHER -> pc[d]]
    /\ got' = [d \in Callers |-> IF d \in who THEN Error ELSE got[d]]
    /\ UNCHANGED joined

End(c, s) == EndOf({c}, c, s)

\* The search requests that c leads.
GroupOf(c) == IF group = c THEN {d \in Callers : d = c \/ pc[d] = "grouped"} ELSE {c}

\* The insert of what c fetched: it fails, or its row is the newest one.
Save(c, t) ==
    \/ /\ failures < MaxFailures /\ failures' = failures + 1
       /\ UNCHANGED <<saved, old>>
    \/ /\ saved' = [saved EXCEPT ![t] = got[c]] /\ old' = [old EXCEPT ![t] = FALSE]
       /\ UNCHANGED failures

-----------------------------------------------------------------------------
(* The profile and the recommended route *)

\* AuthorProfileWithFollowers, of an author with followers enough.
Profile(r) == /\ pc[r] = "profile" /\ Goto(r, "missed")
              /\ UNCHANGED <<cacheVars, tables>>

\* SaveVertexProfile writes the profile, and then the score the syncer
\* goes by; it may fail between the two.  After an error the request falls
\* back to the table, or to nothing.
ProfileAnswered(c, next) ==
    /\ pc[c] = "answered" /\ End(c, next)
    /\ IF got[c] \notin Versions THEN UNCHANGED <<failures, saved, old>>
       ELSE \/ Save(c, "profile")
            \/ /\ failures < MaxFailures /\ failures' = failures + 1
               /\ saved' = [saved EXCEPT !["profile"] = got[c]]
               /\ UNCHANGED old
    /\ UNCHANGED <<upstream, entry, inflight, stage, answer, dead, group>>

Recommended(r) == /\ pc[r] = "recommended" /\ Goto(r, "lookup")
                  /\ UNCHANGED <<cacheVars, tables>>

RecommendedAnswered(r) ==
    /\ pc[r] = "answered" /\ End(r, "over")
    /\ UNCHANGED <<cacheVars, tables>>

-----------------------------------------------------------------------------
(* Syncer *)

\* RecentAuthorPubkeysByFollowers: the authors whose score is missing or old.
Candidate == old["profile"]

\* RunOnce; between two of them, and without a candidate, the syncer sleeps.
SyncRefresh ==
    /\ pc[Sync] = "asleep" /\ Candidate
    /\ Goto(Sync, "missed")
    /\ UNCHANGED <<cacheVars, tables>>

SyncSave == ProfileAnswered(Sync, "asleep")

RowAges(t) ==
    /\ saved[t] # 0 /\ ~old[t] /\ old' = [old EXCEPT ![t] = TRUE]
    /\ UNCHANGED <<cacheVars, callVars, saved, group>>

-----------------------------------------------------------------------------
(* SearchProvider *)

\* Search: a row answers it, and an old one is refreshed in the background;
\* a goroutine that finds another refreshing waits for it and has no effect.
Search(r) ==
    /\ pc[r] = "search"
    /\ \/ /\ failures < MaxFailures /\ failures' = failures + 1
          /\ Goto(r, "over")
       \/ /\ saved["search"] = 0 /\ Goto(r, "refresh") /\ UNCHANGED failures
       \/ /\ saved["search"] # 0 /\ UNCHANGED <<failures, joined, got>>
          /\ pc' = [c \in Callers |->
               CASE c = r -> "over"
                 [] c = Async /\ old["search"] /\ pc[Async] = "over" -> "refresh"
                 [] OTHER -> pc[c]]
    /\ UNCHANGED <<upstream, entry, inflight, stage, answer, dead, tables>>

Grouped == group # None

\* refresh: the first one leads, the others wait for it, whatever their context.
Refresh(c) ==
    /\ pc[c] = "refresh"
    /\ IF Grouped THEN Goto(c, "grouped") /\ UNCHANGED group
       ELSE Goto(c, "missed") /\ group' = c
    /\ UNCHANGED <<cacheVars, saved, old>>

\* The leader saves what it got and the group is over.
SearchAnswered(c) ==
    /\ pc[c] = "answered" /\ EndOf(GroupOf(c), c, "over")
    /\ IF got[c] \in Versions THEN Save(c, "search") ELSE UNCHANGED <<failures, saved, old>>
    /\ group' = None
    /\ UNCHANGED <<upstream, entry, inflight, stage, answer, dead>>

-----------------------------------------------------------------------------
(* Panics that are recovered: by net/http for a request, by safego for Async *)

CachePanics(c, k) ==
    /\ pc[c] = "leading" /\ FetchPanics(c, k) /\ EndOf(GroupOf(c), c, "over")
    /\ group' = IF group = c THEN None ELSE group
    /\ UNCHANGED <<saved, old>>

-----------------------------------------------------------------------------
(* Properties *)

VertexTypeOK ==
    /\ CallsTypeOK
    /\ saved \in [Tables -> 0..MaxVersion] /\ old \in [Tables -> BOOLEAN]
    /\ group \in Requests \union {Async, None}

\* What Vertex answered is never replaced by something older: not in a cache, and not the
\* search results in ClickHouse, whose fetch and insert are one call of the singleflight
\* group (search_provider.go:83-104).
AnswersOnlyAdvance == [][EntryOnlyAdvances /\ saved'["search"] >= saved["search"]]_vertexVars
=============================================================================
