----------------------------- MODULE Retention -----------------------------
(***************************************************************************)
(* Declarative retention: the passes of runRetentionLoop, which submit at  *)
(* most one lightweight DELETE for the first rule with enough rows, in     *)
(* every process of the API, and the mutations that ClickHouse executes    *)
(* with several parts at a time, while events are inserted, the rollup     *)
(* counts direct replies, and a Backfill rebuilds the engagement tables    *)
(* that the third rule reads.                                              *)
(*                                                                         *)
(* A row is identified with its event, and an insert is one step (AppView  *)
(* has its sends).  Quotes, which no Backfill truncates, are left out.      *)
(***************************************************************************)
EXTENDS Integers, Sequences, FiniteSets

CONSTANTS
    Events,
    KindOf, AuthorOf, CreatedAt,
    DTagOf,       \* the d tag, or None
    TargetOf,     \* the event that e likes, reposts, zaps or replies to, or None
    PartOf,       \* the part of nostr_events that holds e
    Runners,      \* processes that run the retention loop
    MinRows,      \* retentionMinMatchedRows
    MaxAge,       \* RetentionRules: the age of a post
    RecentWindow, \* rollup.Config.RecentWindow
    StartNow, MaxNow, \* the clock, and its bound
    MaxInserts,   \* bound on inserts
    MaxMishaps,  \* bound on Backfills, failing queries, full disks and restarts
    None

ASSUME RetentionAssumption ==
    /\ KindOf \in [Events -> Nat] /\ CreatedAt \in [Events -> Nat]
    /\ TargetOf \in [Events -> Events \union {None}]
    /\ MinRows \in Nat \ {0} /\ MaxAge \in Nat /\ RecentWindow \in Nat
    /\ StartNow \in Nat /\ MaxNow \in Nat
    /\ MaxInserts \in Nat /\ MaxMishaps \in Nat

VARIABLES
    now,
    stored,     \* visible rows of nostr_events
    tags,       \* events ever inserted: retention leaves their rows in event_tags
    counted,    \* events that count in the note_*_counts tables
    rebuilding, \* a Backfill has truncated tables it has not filled again
    phase,      \* phase[r]: "idle", "count" or "submit"
    rule,       \* rule[r]: the rule the pass is at
    mutations,  \* in flight: by whom, the rows still to visit, and the rows to mask of
                \* each part that has been evaluated and is being rewritten
    inserts, mishaps \* counted up to their bounds

engagement == <<tags, counted, rebuilding>>
passes == <<phase, rule>>
bounds == <<inserts, mishaps>>
retentionVars == <<now, stored, engagement, passes, mutations, bounds>>

PostKinds == {1, 1111}
ViewKinds == {6, 7, 16, 9735} \* counted by materialized views
ReplacedKinds == {0, 3, 10050, 10051}
ParamReplacedKinds == {30078, 38000}

OfKinds(K) == {e \in Events : KindOf[e] \in K}

-----------------------------------------------------------------------------
(* RetentionRules *)

Rules == << "latest per author", "latest per author and d tag", "unengaged posts" >>

\* Mutant of Version: the d tag is forgotten.
VersionByAuthor(e) == <<KindOf[e], AuthorOf[e]>>

\* The GROUP BY of KeepLatestPerAuthor and KeepLatestPerAuthorDTag.
Version(e) == IF KindOf[e] \in ParamReplacedKinds
              THEN <<KindOf[e], AuthorOf[e], DTagOf[e]>> ELSE <<KindOf[e], AuthorOf[e]>>

\* argMax(id, created_at): one of the newest of each group, an arbitrary one of a tie.
Winners(S) == {W \in SUBSET S :
    /\ \A e \in S : \E w \in W : Version(w) = Version(e) /\ CreatedAt[w] >= CreatedAt[e]
    /\ \A v, w \in W : Version(v) = Version(w) => v = w}

\* Mutant of Engaged: likes are not looked up.
EngagedNoLikes == {TargetOf[f] : f \in counted \ OfKinds({7})}

Engaged == {TargetOf[f] : f \in counted}

\* The sets of rows that the predicate of rule i may select.
Selections(i) ==
    IF i = 3
    THEN {{e \in stored : KindOf[e] \in PostKinds /\ CreatedAt[e] < now - MaxAge /\ e \notin Engaged}}
    ELSE LET K == IF i = 1 THEN ReplacedKinds ELSE ParamReplacedKinds
             S == stored \intersect OfKinds(K)
         IN {S \ W : W \in Winners(S)}

-----------------------------------------------------------------------------
(* RunRetention *)

InitRetention ==
    /\ now = StartNow
    /\ stored \in SUBSET {e \in Events : CreatedAt[e] <= StartNow}
    /\ tags = stored /\ counted = stored \intersect OfKinds(ViewKinds) /\ rebuilding = FALSE
    /\ phase = [r \in Runners |-> "idle"] /\ rule = [r \in Runners |-> 1]
    /\ mutations = {} /\ inserts = 0 /\ mishaps = 0

\* Mutant of Pending: the guard is gone.
PendingNever == FALSE

\* pendingRetentionMutations.
Pending == mutations # {}

\* A pass begins; while a mutation is in flight it does nothing.
Begin(r) ==
    /\ phase[r] = "idle" /\ ~Pending
    /\ phase' = [phase EXCEPT ![r] = "count"]
    /\ UNCHANGED <<now, stored, engagement, rule, mutations, bounds>>

EndPass(r) == phase' = [phase EXCEPT ![r] = "idle"] /\ rule' = [rule EXCEPT ![r] = 1]

IsLastRule(i) == i = Len(Rules)

\* The next rule, or the end of the pass.
NextRule(r) ==
    IF IsLastRule(rule[r]) THEN EndPass(r)
    ELSE rule' = [rule EXCEPT ![r] = @ + 1] /\ phase' = [phase EXCEPT ![r] = "count"]

\* Mutant of EnoughRows: exactly the minimum is not enough.
MoreRows(n) == n > MinRows

EnoughRows(n) == n >= MinRows

Count(r) ==
    /\ phase[r] = "count"
    /\ \E S \in Selections(rule[r]) :
          IF EnoughRows(Cardinality(S))
          THEN phase' = [phase EXCEPT ![r] = "submit"] /\ UNCHANGED rule
          ELSE NextRule(r)
    /\ UNCHANGED <<now, stored, engagement, mutations, bounds>>

\* A count that fails does not keep the pass from the next rule.
CountFails(r) ==
    /\ phase[r] = "count" /\ mishaps < MaxMishaps /\ mishaps' = mishaps + 1
    /\ NextRule(r)
    /\ UNCHANGED <<now, stored, engagement, mutations, inserts>>

\* What is left to do of mutation m.
Left(m, rows, masks) == [by |-> m.by, rule |-> m.rule, rows |-> rows, masks |-> masks \ {{}}]

Unfinished(M) == {m \in M : m.rows # {} \/ m.masks # {}}

\* The mutation is registered for the parts there are, and the pass ends.
Submit(r) ==
    /\ phase[r] = "submit" /\ EndPass(r)
    /\ mutations' = mutations \union
          Unfinished({[by |-> r, rule |-> rule[r], rows |-> stored, masks |-> {}]})
    /\ UNCHANGED <<now, stored, engagement, bounds>>

\* The disk has no headroom, the DELETE fails, or the process is restarted: the pass ends.
Refused(r) ==
    /\ phase[r] # "idle" /\ mishaps < MaxMishaps /\ mishaps' = mishaps + 1
    /\ EndPass(r)
    /\ UNCHANGED <<now, stored, engagement, mutations, inserts>>

\* External: ClickHouse evaluates the predicate for a part, also while it rewrites others.
EvaluatePart(m) == \E p \in {PartOf[e] : e \in m.rows}, S \in Selections(m.rule) :
    LET part == {e \in m.rows : PartOf[e] = p}
    IN  /\ mutations' = (mutations \ {m}) \union Unfinished(
              {Left(m, m.rows \ part, m.masks \union {S \intersect part})})
        /\ UNCHANGED <<now, stored, engagement, passes, bounds>>

\* External: a part has been rewritten, and its rows are masked.
MaskPart(m) == \E k \in m.masks :
    /\ stored' = stored \ k
    /\ mutations' = (mutations \ {m}) \union Unfinished({Left(m, m.rows, m.masks \ {k})})
    /\ UNCHANGED <<now, engagement, passes, bounds>>

-----------------------------------------------------------------------------
(* Inserts, the rollup, and Backfill *)

\* What a mutation still does once e has a row in a part that is newer than it.
Without(m, e) == Left(m, m.rows \ {e}, {k \ {e} : k \in m.masks})

\* Any event may be inserted, for the first time or again.
Insert(e) ==
    /\ inserts < MaxInserts /\ inserts' = inserts + 1 /\ CreatedAt[e] <= now
    /\ stored' = stored \union {e} /\ tags' = tags \union {e}
    /\ counted' = counted \union ({e} \intersect OfKinds(ViewKinds))
    /\ mutations' = Unfinished({Without(m, e) : m \in mutations})
    /\ UNCHANGED <<now, rebuilding, passes, mishaps>>

\* RecomputeReplyEdges, for the replies of the recent window.
CountReplies ==
    /\ counted' = counted \union {f \in stored \intersect tags \intersect OfKinds(PostKinds) :
                                  TargetOf[f] # None /\ CreatedAt[f] >= now - RecentWindow}
    /\ UNCHANGED <<now, stored, tags, rebuilding, passes, mutations, bounds>>

\* Backfill truncates the tables of likes, reposts and zaps, and is started by the
\* operator or by an ingester that has removed kinds.
Truncate ==
    /\ mishaps < MaxMishaps /\ mishaps' = mishaps + 1
    /\ counted' = counted \ OfKinds(ViewKinds) /\ rebuilding' = TRUE
    /\ UNCHANGED <<now, stored, tags, passes, mutations, inserts>>

\* It fills them from event_tags, and zaps from nostr_events.  A Backfill that is
\* interrupted never gets here.
Fill ==
    /\ rebuilding /\ rebuilding' = FALSE
    /\ counted' = counted \union (tags \intersect OfKinds({6, 7, 16}))
                        \union (stored \intersect OfKinds({9735}))
    /\ UNCHANGED <<now, stored, tags, passes, mutations, bounds>>

Elapse ==
    /\ now < MaxNow /\ now' = now + 1
    /\ UNCHANGED <<stored, engagement, passes, mutations, bounds>>

RetentionNext ==
    \/ \E r \in Runners : Begin(r) \/ Count(r) \/ CountFails(r) \/ Submit(r) \/ Refused(r)
    \/ \E m \in mutations : EvaluatePart(m) \/ MaskPart(m)
    \/ \E e \in Events : Insert(e)
    \/ CountReplies \/ Truncate \/ Fill \/ Elapse

RetentionSpec == InitRetention /\ [][RetentionNext]_retentionVars

\* Rows that are masked when the rewriting of their part ends.
Doomed == UNION (UNION {m.masks : m \in mutations})

\* The loop ticks until its process ends, and ClickHouse executes what it accepted.
\* The strong fairness is about ties only: argMax, evaluated again for every part,
\* does not always pick the row of the part that is being mutated.
FairRetention ==
    /\ RetentionSpec
    /\ \A r \in Runners : WF_retentionVars(Begin(r) \/ Count(r) \/ Submit(r))
    /\ WF_retentionVars(\E m \in mutations : EvaluatePart(m)) /\ WF_retentionVars(\E m \in mutations : MaskPart(m))
    /\ SF_retentionVars(\E m \in mutations : EvaluatePart(m) /\ Doomed' # Doomed)

-----------------------------------------------------------------------------
(* Properties *)

RetentionTypeOK ==
    /\ now \in Nat /\ stored \subseteq tags /\ tags \subseteq Events
    /\ counted \subseteq Events /\ rebuilding \in BOOLEAN
    /\ phase \in [Runners -> {"idle", "count", "submit"}]
    /\ rule \in [Runners -> 1..Len(Rules)]
    /\ mutations \subseteq [by: Runners, rule: 1..Len(Rules), rows: SUBSET Events, masks: SUBSET SUBSET Events]
    /\ inserts \in 0..MaxInserts /\ mishaps \in 0..MaxMishaps

Supersedes(f, e) == /\ f # e /\ KindOf[f] = KindOf[e] /\ AuthorOf[f] = AuthorOf[e]
                    /\ (KindOf[e] \in ParamReplacedKinds => DTagOf[f] = DTagOf[e])
                    /\ CreatedAt[f] >= CreatedAt[e]

\* The newest version of a replaceable event ever inserted is stored, if no other
\* version of its author, kind and d tag has the same time: no mutation deletes it,
\* whatever arrives, or arrives again, between the count, the DELETE, the evaluation
\* of a part and its rewriting, and with several parts, and mutations of several
\* processes, at once (retention.go:131-145).
LatestStays == \A e \in tags \intersect OfKinds(ReplacedKinds \union ParamReplacedKinds) :
    e \in stored \/ \E f \in tags : Supersedes(f, e)

KeepsEngaged ==
    /\ stored \ stored' \subseteq Doomed
    /\ \A e \in Doomed' \ Doomed : KindOf[e] \in PostKinds =>
          rebuilding \/ ~\E f \in tags : KindOf[f] \in ViewKinds /\ TargetOf[f] = e

\* A post is deleted only if it had no like, repost or zap when its part was evaluated,
\* which may be long after the count, unless a Backfill had then emptied the tables
\* that say so (retention.go:201-217).
EngagedKept == [][KeepsEngaged]_retentionVars

\* No process ever has two mutations in flight, however long a count takes, however
\* slowly ClickHouse executes, and whichever processes pass, fail or are restarted
\* meanwhile (ErrRetentionBusy, retention.go:226).
OneMutationEach == \A m, n \in mutations : m.by = n.by => m = n

\* Once nothing is inserted any more, every rule gets its turn, until none has
\* enough rows left for a mutation (rollup.go:157-210).
RetentionConverges ==
    <>[](\A i \in 1..Len(Rules) : \A S \in Selections(i) : Cardinality(S) < MinRows)
=============================================================================
