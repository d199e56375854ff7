---------------------------- MODULE MCHydration -----------------------------
(***************************************************************************)
(* The feed of an author who has reposted t with n, and a request for t  *)
(* by its id.  Only the first relay has n.                                    *)
(***************************************************************************)
EXTENDS Hydration, TLC

CONSTANTS feed, event, n, t, r1, r2, q1, q2
MCHas == (r1 :> {n, t} @@ r2 :> {t})
MCFirst == (feed :> {n} @@ event :> {})
MCById == (feed :> {t} @@ event :> {t})
MCKeysOf == (q1 :> {feed} @@ q2 :> {event})
=============================================================================
