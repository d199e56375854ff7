------------------------------ MODULE PostCap -------------------------------
(***************************************************************************)
(* The per-author daily post cap of the ingest pipeline, and the exemption *)
(* set it reads: viewers are recorded by the API process in a table,       *)
(* from which the ingester's tracker refreshes them and their follows.     *)
(*                                                                         *)
(* The cap's clock is the UTC day of ingestion.                            *)
(***************************************************************************)
EXTENDS Integers, FiniteSets

CONSTANTS
    Authors,
    Events,
    Posts,       \* the events of postCapKinds
    AuthorOf,    \* AuthorOf[e]: the event's pubkey
    Follows,     \* Follows[a]: a's latest contact list, as stored
    Limit,       \* PostCapPerDay
    CapEntries,  \* postCapCounterMaxEntries
    MaxDay, MaxRestarts, \* bounds
    None

ASSUME CapAssumption ==
    /\ Posts \subseteq Events /\ AuthorOf \in [Events -> Authors] /\ IsFiniteSet(Authors)
    /\ Follows \in [Authors -> SUBSET Authors]
    /\ Limit \in Int /\ CapEntries \in Nat
    /\ MaxDay \in Nat \ {0} /\ MaxRestarts \in Nat

VARIABLES
    day,       \* the UTC day, 1, 2, ...
    capDay,    \* postCapCounter.day; 0 before the first post
    counts,    \* postCapCounter.counts; 0 is no entry
    exempt,    \* Tracker.set; None is nil
    known,     \* the table known_known
    today,     \* history: posts of an author this process let through on this day
    capped,    \* history: authors this process dropped a post of on this day
    restarts   \* restarts of the ingester, bounded

counter == <<capDay, counts, today, capped>>
capVars == <<day, counter, exempt, known, restarts>>

InitCap ==
    /\ day = 1 /\ capDay = 0 /\ counts = [a \in Authors |-> 0]
    /\ exempt = None /\ known = {}
    /\ today = [a \in Authors |-> 0] /\ capped = {} /\ restarts = 0

Exempt(a) == IF exempt = None THEN TRUE ELSE a \in exempt

Subject(e) == Limit > 0 /\ e \in Posts /\ ~Exempt(AuthorOf[e])

\* Mutant of CountsNow: the counter survives midnight.
CountsForever == counts

\* The counter of today: a new day starts with an empty one.
CountsNow == IF capDay = day THEN counts ELSE [a \in Authors |-> 0]

Tracked == {a \in Authors : CountsNow[a] > 0}

\* Mutant of OverPostCap: one post too many.
OverPastLimit(e) == Subject(e) /\ CountsNow[AuthorOf[e]] > Limit

OverPostCap(e) == Subject(e) /\ CountsNow[AuthorOf[e]] >= Limit

\* An author beyond the bound is let through uncounted.
Counted(a) ==
    IF a \notin Tracked /\ Cardinality(Tracked) >= CapEntries
    THEN CountsNow ELSE [CountsNow EXCEPT ![a] = @ + 1]

\* overPostCap, with what it does to the counter.
Count(e) == LET a == AuthorOf[e] IN
    IF ~Subject(e) THEN UNCHANGED counter
    ELSE /\ capDay' = day
         /\ IF OverPostCap(e)
            THEN /\ counts' = CountsNow /\ capped' = capped \union {a}
                 /\ UNCHANGED today
            ELSE /\ counts' = Counted(a) /\ today' = [today EXCEPT ![a] = @ + 1]
                 /\ UNCHANGED capped

Midnight ==
    /\ day < MaxDay /\ day' = day + 1
    /\ today' = [a \in Authors |-> 0] /\ capped' = {}
    /\ UNCHANGED <<capDay, counts, exempt, known, restarts>>

\* ExemptPubkeys, and the swap of the set.  A failed query changes nothing.
Refresh ==
    /\ exempt' = known \union UNION {Follows[v] : v \in known}
    /\ UNCHANGED <<day, counter, known, restarts>>

\* External: the API process records a viewer.
ViewerSeen(a) ==
    /\ known' = known \union {a}
    /\ UNCHANGED <<day, counter, exempt, restarts>>

\* The ingester restarts: counter and set are gone.
ForgetCap ==
    /\ restarts < MaxRestarts /\ restarts' = restarts + 1
    /\ capDay' = 0 /\ counts' = [a \in Authors |-> 0] /\ exempt' = None
    /\ today' = [a \in Authors |-> 0] /\ capped' = {}
    /\ UNCHANGED <<day, known>>

TrackerNext ==
    \/ Midnight \/ Refresh
    \/ \E a \in Authors : ViewerSeen(a)

-----------------------------------------------------------------------------
(* Properties *)

CapTypeOK ==
    /\ day \in 1..MaxDay /\ capDay \in 0..day
    /\ counts \in [Authors -> Nat] /\ today \in [Authors -> Nat]
    /\ exempt = None \/ exempt \subseteq Authors
    /\ known \subseteq Authors
    /\ capped \subseteq Authors /\ restarts \in 0..MaxRestarts

\* No post is dropped because bookkeeping ran out of room, was of another day or
\* of a time the author was exempt: an author that had one dropped had its full
\* allowance ingested on this very day (postcap.go:39-76).
DropsOnlyOverCap == \A a \in capped : today[a] >= Limit

\* An ingester process lets at most Limit counted posts through on a day, of every
\* author when the counter has room for all, and otherwise of every author who has
\* an entry, however full it is: entries are never given up before midnight, and
\* nobody gets one after posts that were not counted (postcap.go:62-71).
CapPerProcess == Limit > 0 =>
    \A a \in Authors : (CountsNow[a] > 0 \/ Cardinality(Authors) <= CapEntries) => today[a] <= Limit
=============================================================================
