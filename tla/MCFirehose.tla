----------------------------- MODULE MCFirehose -----------------------------
(***************************************************************************)
(* Two events within the overlap of each other and one that is stamped     *)
(* ahead of the clock: first too far to move the mark, a second later far  *)
(* enough to overtake the others.  As in the code, slack > overlap (10m,   *)
(* 5m) and window (24h) > both.                                            *)
(***************************************************************************)
EXTENDS Firehose, TLC

CONSTANTS e1, e2, e3, r1, r2
MCEvents == {e1, e2, e3}
MCCreatedAt == (e1 :> 4 @@ e2 :> 5 @@ e3 :> 9)
MCCarries == (r1 :> MCEvents @@ r2 :> {e2})
=============================================================================
