---------------------------- MODULE MCSyncCenter ----------------------------
(* Two workers with messages of one group, before its members have a       *)
(* session and after, at once and across a round.                          *)
EXTENDS SyncCenter
=============================================================================
