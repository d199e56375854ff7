------------------------------ MODULE Watermark -----------------------------
(***************************************************************************)
(* What a worker with a persisted cursor promises, whatever it is that it  *)
(* does with an item: items appear in any order, an item that appears      *)
(* below a position the worker has already reached may be missed for good, *)
(* work that is done stays done, and the cursor only ever stands where     *)
(* everything below it is done or was missed.  The cursor may move back.   *)
(***************************************************************************)
EXTENDS Integers

CONSTANTS
    Items,
    Rank       \* Rank[i]: the place of an item in the order of the cursor

VARIABLES
    offered,   \* items the worker can see
    missed,    \* those that appeared too late
    done,
    mark       \* the persisted cursor

wvars == <<offered, missed, done, mark>>

WInit == offered = {} /\ missed = {} /\ done = {} /\ mark = 0

CoveredUpTo(c) == \A i \in offered \ missed : Rank[i] <= c => i \in done

\* An item appears; one that needs no work is done at once.  Below the cursor it
\* may be missed.
WOffer(i) ==
    /\ i \notin offered /\ offered' = offered \union {i}
    /\ missed' \in {missed, missed \union {i}}
    /\ done' \in {done, done \union {i}}
    /\ (Rank[i] <= mark => i \in missed' \union done')
    /\ UNCHANGED mark

WFinish ==
    /\ \E work \in SUBSET offered : done' = done \union work
    /\ UNCHANGED <<offered, missed, mark>>

WMove ==
    /\ \E c \in {Rank[i] : i \in offered} : CoveredUpTo(c) /\ mark' = c
    /\ UNCHANGED <<offered, missed, done>>

WNext == (\E i \in Items : WOffer(i)) \/ WFinish \/ WMove

WSpec == WInit /\ [][WNext]_wvars
=============================================================================
