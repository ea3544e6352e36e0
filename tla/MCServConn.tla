----------------------------- MODULE MCServConn -----------------------------
(* Three route_servers; the delays 2, 4, 8 and then 4 again. *)
EXTENDS ServConn
=============================================================================
