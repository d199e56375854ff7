---------------------------- MODULE MCApiProcess ----------------------------
(***************************************************************************)
(* Four deployments: three requests at the gate beside the loops of the    *)
(* rollup; a profile requested beside the syncer; one search requested     *)
(* three times; one list of recommendations requested twice.               *)
(***************************************************************************)
EXTENDS ApiProcess, TLC

CONSTANTS r1, r2, r3
MCRequests == {r1, r2, r3}
MCCaches == {"profile", "search", "recommended"}
MCCallers == MCRequests \union {Async, Sync}
MCLoops == {"rollup", "notifications"}
MCDeployments == {
    [loops |-> MCLoops, sync |-> FALSE,
     kind |-> (r1 :> "heavy" @@ r2 :> "graphql" @@ r3 :> "heavy")],
    [loops |-> {}, sync |-> TRUE, kind |-> (r1 :> "profile")],
    [loops |-> {}, sync |-> FALSE, kind |-> [r \in MCRequests |-> "search"]],
    [loops |-> {}, sync |-> FALSE, kind |-> [r \in {r1, r2} |-> "recommended"]]}
=============================================================================
