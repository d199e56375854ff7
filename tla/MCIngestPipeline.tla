--------------------------- MODULE MCIngestPipeline -------------------------
(***************************************************************************)
(* Two posts of one author, one of which is over the cap of the day, and   *)
(* an event whose verification fails.  The counter has room for the        *)
(* author; that it may be full is for the proofs.                          *)
(***************************************************************************)
EXTENDS IngestPipeline, TLC

CONSTANTS a1, p1, p2, e1
MCAuthors == {a1}
MCEvents == {p1, p2, e1}
MCPosts == {p1, p2}
MCAuthorOf == (p1 :> a1 @@ p2 :> a1 @@ e1 :> a1)
MCFollows == (a1 :> {})
MCForged == {e1}
=============================================================================
