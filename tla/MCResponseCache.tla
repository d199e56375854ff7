-------------------------- MODULE MCResponseCache --------------------------
(***************************************************************************)
(* One key, and two requests of one process that meet in every way; a      *)
(* second process adds only entries stored by others, which the proof of   *)
(* CacheAnswersAreBounded covers.  The windows keep the order of the       *)
(* policies: fresh < hard, and a computation may outlast the lookup.       *)
(***************************************************************************)
EXTENDS ResponseCache, TLC
=============================================================================
