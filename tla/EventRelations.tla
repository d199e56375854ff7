--------------------------- MODULE EventRelations ---------------------------
(***************************************************************************)
(* What GraphQL resolves for the events of a list: the events they refer   *)
(* to, who refers to them, and chains of replies of given authors.  A      *)
(* loader resolves all events of the list at once and keeps the answers    *)
(* for the request; each operator here takes the list as a set and gives   *)
(* an answer for each of its events.                                       *)
(***************************************************************************)
EXTENDS ThreadReads

CONSTANT RefLimit \* 20

\* queryEventsByIDs: as many queries as it takes.
FetchByIds(S) == S \intersect stored

-----------------------------------------------------------------------------
(* Selected references *)

\* An input: sets of markers to try one after the other; the markers to fall back to,
\* if any, from the last tag or the first; how many references, and how far.
AnyMarker == {"", "root", "reply", "mention"}
AnySelection == [selectors |-> <<>>, fallback |-> {}, last |-> FALSE, limit |-> 0, depth |-> 0]

SelectionLimit(n) == IF n <= 0 \/ n > 100 THEN RefLimit ELSE n

Backwards(s) == [i \in DOMAIN s |-> s[Len(s) + 1 - i]]

\* matchingReferenceIDs
RefsWith(e, markers, last, n) ==
    LET tags == Picked(ETags[e], {i \in DOMAIN ETags[e] : ETags[e][i].marker \in markers})
        ids == [i \in DOMAIN tags |-> (IF last THEN Backwards(tags) ELSE tags)[i].to]
    IN  Page(Distinct(ids), 0, n)

\* selectReferenceIDs
SelectedRefs(e, in) ==
    LET n == SelectionLimit(in.limit)
        found == {i \in DOMAIN in.selectors : RefsWith(e, in.selectors[i], FALSE, n) # <<>>}
    IN  IF found # {} THEN RefsWith(e, in.selectors[MinOf(found)], FALSE, n)
        ELSE RefsWith(e, in.fallback, in.last, n)

\* One source moves on: a selected event is replaced by what it selects that was not met
\* before.  What is left when the limit is reached is lost.
Replaced(w, id, new) ==
    [ids |-> Distinct(w.ids \o (IF new = <<>> THEN <<id>> ELSE new)), met |-> w.met \union Elems(new)]
Replace(w, id, refs, n) ==
    IF Len(w.ids) >= n THEN w ELSE Replaced(w, id, Kept(refs, Elems(refs) \ w.met))
MoveOn(ids, met, fetched, in) ==
    LET refs(e) == IF e \in fetched THEN SelectedRefs(e, in) ELSE <<>>
        walk[i \in 0..Len(ids)] ==
            IF i = 0 THEN [ids |-> <<>>, met |-> met]
            ELSE Replace(walk[i - 1], ids[i], refs(ids[i]), SelectionLimit(in.limit))
    IN  walk[Len(ids)]

AllIds(ids) == UNION {Elems(ids[e]) : e \in DOMAIN ids}

\* Mutant of FetchSelected: nothing is fetched when a part of it was.
FetchIfNone(w) == IF AllIds(w.ids) \intersect w.fetched # {} THEN w.fetched
                  ELSE w.fetched \union FetchByIds(AllIds(w.ids) \ w.fetched)

FetchSelected(w) == w.fetched \union FetchByIds(AllIds(w.ids) \ w.fetched)

\* loadSelectedReferencesBatch: the sources begin with what they select, and move on in
\* rounds; what cannot be fetched is left out of the answer.
Fetching(w) == [w EXCEPT !.fetched = FetchSelected(w)]
FirstRound(first) ==
    Fetching([ids |-> first, met |-> [e \in DOMAIN first |-> {e} \union Elems(first[e])], fetched |-> {}])
Moved(w, to) ==
    IF \A e \in DOMAIN to : to[e].ids = w.ids[e] THEN w
    ELSE Fetching([w EXCEPT !.ids = [e \in DOMAIN to |-> to[e].ids], !.met = [e \in DOMAIN to |-> to[e].met]])
NextRound(w, in) == Moved(w, [e \in DOMAIN w.ids |-> MoveOn(w.ids[e], w.met[e], w.fetched, in)])
FetchedOf(w) == [e \in DOMAIN w.ids |-> Kept(w.ids[e], w.fetched)]
SelectedReferences(S, in) ==
    LET walk[d \in 0..in.depth] ==
            IF d = 0 THEN FirstRound([e \in S |-> SelectedRefs(e, in)]) ELSE NextRound(walk[d - 1], in)
    IN  FetchedOf(walk[in.depth])

-----------------------------------------------------------------------------
(* Who refers to an event *)

\* eventReferencedBy: in one query; of direct replies, those that have an edge.
ReferencedBy(q, target, n) ==
    QueryEvents([q EXCEPT !.limit = n, !.tags = {[AnyTag EXCEPT !.values = {target}]}])
RepliesReferencing(q, target, n) ==
    IF DirectReplies(target) = {} THEN <<>>
    ELSE QueryEvents([q EXCEPT !.limit = n, !.ids = DirectReplies(target)])

\* loadDirectRepliesRankedBatch: the edges that there is an event for.
RankedRepliesOf(S, sort, n, k) ==
    LET ids == [e \in S |-> RankedReplies(e, sort, n, k)]
        found == FetchByIds(AllIds(ids))
    IN  [e \in S |-> Kept(ids[e], found)]

-----------------------------------------------------------------------------
(* Chains of replies *)

\* directReplyParentID: as DirectParent, but in the end the first tag of any marker.
LiveParent(e) ==
    IF Marked(e, "reply") # {} THEN ETags[e][MinOf(Marked(e, "reply"))].to
    ELSE IF Marked(e, "") # {} THEN ETags[e][MaxOf(Marked(e, ""))].to
    ELSE FirstETag(e)

\* bestAuthoredDirectChild
BestChild(candidates, parent, allowed, met) ==
    LET C == {c \in candidates : Author[c] \in allowed /\ LiveParent(c) = parent /\ c \notin met}
    IN  IF C = {} THEN None ELSE Ordered(C, Older)[1]

LastOf(s, e) == IF s = <<>> THEN e ELSE s[Len(s)]

\* loadAuthoredReplyChainsBatch: for each level one query about the ends of all chains, by
\* any of the authors that one of them is about.
AuthoredChains(S, allowed, depth, fanout) ==
    LET walk[d \in 0..depth] ==
            IF d = 0 THEN [e \in S |-> <<>>]
            ELSE LET w == walk[d - 1]
                     on == {e \in S : Len(w[e]) = d - 1 /\ allowed[e] # {}}
                     ends == {LastOf(w[e], e) : e \in on}
                     q == [AnyEvent EXCEPT !.kinds = ReplyKinds, !.authors = UNION {allowed[e] : e \in on}]
                     found == ByTargets(q, AnyTag, ends, fanout, 1000)
                     child(e) == BestChild(Elems(found[LastOf(w[e], e)]), LastOf(w[e], e), allowed[e], {e} \union Elems(w[e]))
                 IN  [e \in S |-> IF e \in on /\ child(e) # None THEN Append(w[e], child(e)) ELSE w[e]]
    IN  walk[depth]

\* loadAuthoredReplyChainsPrecomputed
PrecomputedChains(S, depth) ==
    LET ids == [e \in S |-> AuthoredChain(e, Author[e], depth)]
        found == FetchByIds(AllIds(ids))
    IN  [e \in S |-> Kept(ids[e], found)]
=============================================================================
