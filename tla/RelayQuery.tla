----------------------------- MODULE RelayQuery -----------------------------
(***************************************************************************)
(* One on-demand query to all relays under a deadline, and the circuit     *)
(* breaker that skips relays which recently failed.  Several queries run   *)
(* at once and share the breaker.                                          *)
(*                                                                         *)
(* A caller has one query at a time and one deadline for all its queries,  *)
(* which has passed when deadline[q] holds.  Relays are external: one is   *)
(* up, refuses connections, or is silent, that is, no dial completes.      *)
(* How long a backoff lasts is left out: it doubles with each failure in a *)
(* row up to a maximum, so it ends.                                        *)
(***************************************************************************)
EXTENDS Integers, FiniteSets

CONSTANTS
    Relays,
    Callers,
    Values,
    Has,      \* Has[r]: what relay r would answer with
    Flaky,    \* bound: the relays that may go away
    MaxFaults \* bound on failures of all kinds

ASSUME RelayAssumption ==
    /\ Relays # {} /\ Has \in [Relays -> SUBSET Values]
    /\ Flaky \subseteq Relays /\ MaxFaults \in Nat

VARIABLES
    mode,     \* mode[r]: "up", "refuse" or "silent"
    backoff,  \* relays whose failEntry.until has not passed
    wants,    \* wants[q]: the filter of q's query; {} is no query
    got,      \* got[q][r]: what became of the goroutine for r
    out,      \* out[q]: events collected
    errs,     \* errs[q]: whether an error was collected
    deadline, \* whether q's context has ended
    faults    \* history: failures so far

queries == <<wants, got, out, errs>>
queryVars == <<mode, backoff, queries, deadline, faults>>

Running(q) == wants[q] # {}

\* A fan-out goroutine that has no part in the query (any more), is under way, or
\* has panicked.
GotStates == {"none", "asking", "dead"}

NoneAsked == [r \in Relays |-> "none"]

InitQuery ==
    /\ mode = [r \in Relays |-> "up"]
    /\ backoff = {}
    /\ wants = [q \in Callers |-> {}] /\ got = [q \in Callers |-> NoneAsked]
    /\ out = [q \in Callers |-> {}] /\ errs = [q \in Callers |-> FALSE]
    /\ deadline = [q \in Callers |-> FALSE] /\ faults = 0

-----------------------------------------------------------------------------
(* The breaker *)

Available(r) == r \notin backoff

\* If all relays are backed off, all are asked.
Healthy == LET up == {r \in Relays : Available(r)} IN IF up = {} THEN Relays ELSE up

RecordSuccess(r) == backoff' = backoff \ {r}

RecordFailure(r) == backoff' = backoff \union {r}

-----------------------------------------------------------------------------
(* A query *)

Ask(q, W) ==
    /\ wants' = [wants EXCEPT ![q] = W]
    /\ got' = [got EXCEPT ![q] = [r \in Relays |-> IF r \in Healthy THEN "asking" ELSE "none"]]
    /\ out' = [out EXCEPT ![q] = {}] /\ errs' = [errs EXCEPT ![q] = FALSE]

\* Query takes the result of a goroutine.  How long it lies in the channel before
\* makes no difference.
Collect(q, r, events) ==
    /\ got' = [got EXCEPT ![q][r] = "none"] /\ RecordSuccess(r)
    /\ out' = [out EXCEPT ![q] = @ \union events]
    /\ UNCHANGED <<mode, wants, errs, deadline>>

CollectError(q, r) ==
    /\ got' = [got EXCEPT ![q][r] = "none"] /\ RecordFailure(r)
    /\ errs' = [errs EXCEPT ![q] = TRUE]
    /\ UNCHANGED <<mode, wants, out, deadline>>

\* queryRelay comes to its end in time: the relay answers or refuses.
Reply(q, r) ==
    /\ got[q][r] = "asking" /\ ~deadline[q] /\ UNCHANGED faults
    /\ \/ mode[r] = "up" /\ Collect(q, r, wants[q] \intersect Has[r])
       \/ mode[r] = "refuse" /\ CollectError(q, r)

\* A read that waited too long ends with what came, here nothing, and no error;
\* before the deadline this too is a failure of the relay.
GoesQuiet(q, r) ==
    /\ got[q][r] = "asking" /\ mode[r] = "up" /\ Collect(q, r, {})
    /\ IF deadline[q] THEN UNCHANGED faults ELSE faults < MaxFaults /\ faults' = faults + 1

\* At the deadline a dial fails.  The result may still be taken.
DialTimesOut(q, r) ==
    got[q][r] = "asking" /\ deadline[q] /\ CollectError(q, r) /\ UNCHANGED faults

\* The goroutine panics and sends no result.
GoroutinePanics(q, r) ==
    /\ got[q][r] = "asking" /\ got' = [got EXCEPT ![q][r] = "dead"]
    /\ faults < MaxFaults /\ faults' = faults + 1
    /\ UNCHANGED <<mode, backoff, wants, out, errs, deadline>>

\* Mutant of CanReturn: the first answer will do.
AnyAnswered(q) == Running(q) /\ \E r \in Relays : got[q][r] = "none"

\* The loop of Query ends when all results are taken, or at the deadline: then
\* stragglers are left to themselves, and nobody records what they send.
CanReturn(q) == Running(q) /\ (deadline[q] \/ got[q] = NoneAsked)

\* finishQuery returns an error only if there is not a single event.
Failed(q) == errs[q] /\ out[q] = {}

Return(q) ==
    /\ CanReturn(q)
    /\ wants' = [wants EXCEPT ![q] = {}] /\ got' = [got EXCEPT ![q] = NoneAsked]
    /\ out' = [out EXCEPT ![q] = {}] /\ errs' = [errs EXCEPT ![q] = FALSE]

\* The context ends: sooner or later if a relay does not answer, and if all do,
\* because one of them was slow, which counts as a failure.
Expire(q) ==
    /\ Running(q) /\ ~deadline[q] /\ deadline' = [deadline EXCEPT ![q] = TRUE]
    /\ UNCHANGED <<mode, backoff, queries>>
    /\ \/ /\ \E r \in Relays : got[q][r] = "dead" \/ (got[q][r] = "asking" /\ mode[r] = "silent")
          /\ UNCHANGED faults
       \/ faults < MaxFaults /\ faults' = faults + 1

\* External: a relay goes away, or comes back.
Break(r) ==
    /\ faults < MaxFaults /\ faults' = faults + 1
    /\ r \in Flaky /\ mode[r] = "up"
    /\ \E m \in {"refuse", "silent"} : mode' = [mode EXCEPT ![r] = m]
    /\ UNCHANGED <<backoff, queries, deadline>>

Recover(r) ==
    /\ mode[r] # "up" /\ mode' = [mode EXCEPT ![r] = "up"]
    /\ UNCHANGED <<backoff, queries, deadline, faults>>

\* Mutant of BackoffEnds: an entry keeps its relay out, whatever its time.
EntryStays(r) == r \in backoff /\ FALSE

\* The window passes.
BackoffEnds(r) ==
    /\ r \in backoff /\ backoff' = backoff \ {r}
    /\ UNCHANGED <<mode, queries, deadline, faults>>

RelayStep ==
    \/ \E q \in Callers, r \in Relays :
          Reply(q, r) \/ GoesQuiet(q, r) \/ DialTimesOut(q, r) \/ GoroutinePanics(q, r)
    \/ \E q \in Callers : Expire(q)
    \/ \E r \in Relays : Break(r) \/ Recover(r) \/ BackoffEnds(r)

\* What a query waits for comes: relays that are up or refuse end it, and if nothing
\* else does, the deadline.  Backoffs end.
GoesOn(q) == Expire(q) \/ \E r \in Relays : Reply(q, r)

RelayFairness ==
    /\ \A q \in Callers : WF_queryVars(GoesOn(q))
    /\ WF_queryVars(\E r \in Relays : BackoffEnds(r))

-----------------------------------------------------------------------------
(* Properties *)

QueryTypeOK ==
    /\ mode \in [Relays -> {"up", "refuse", "silent"}]
    /\ backoff \subseteq Relays
    /\ wants \in [Callers -> SUBSET Values] /\ out \in [Callers -> SUBSET Values]
    /\ got \in [Callers -> [Relays -> GotStates]]
    /\ \A q \in Callers : ~Running(q) => got[q] = NoneAsked /\ out[q] = {}
    /\ errs \in [Callers -> BOOLEAN] /\ deadline \in [Callers -> BOOLEAN] /\ faults \in 0..MaxFaults
=============================================================================
