---------------------------- MODULE MCEnrichment ----------------------------
(***************************************************************************)
(* The runner of the API process and the one of cmd/enricher, whose host's *)
(* clock is ahead.  e1 has rows for both tables, e3 for one, and the       *)
(* processor fails on e2, which has the created_at of e3.                  *)
(***************************************************************************)
EXTENDS Enrichment, TLC

CONSTANTS api, enricher, e1, e2, e3
MCRunners == {api, enricher}
MCEvents == {e1, e2, e3}
MCRank == (e1 :> 1 @@ e2 :> 2 @@ e3 :> 3)
MCYields == (e1 :> DerivedTables @@ e2 :> {"derived_metrics"} @@ e3 :> {"derived_metrics"})
MCUnusable == {e2}
MCSkew == (api :> 0 @@ enricher :> 1)
=============================================================================
