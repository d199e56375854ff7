------------------------ MODULE MCNotificationsFeed ------------------------
(***************************************************************************)
(* Small windows for TLC.  They keep the order of the real ones: overlap   *)
(* (10m) < slice (1h) < ready history (72h) < history (14d), and a ready   *)
(* history longer than what lag, cache and overlap together tolerate, so   *)
(* that the region a reader relies on is not empty.                        *)
(***************************************************************************)
EXTENDS NotificationsFeed

\* Older than the first head slice, in it, and at the first clock.
MCStamps == {3, 7, 8}
=============================================================================
