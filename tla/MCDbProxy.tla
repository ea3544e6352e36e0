----------------------------- MODULE MCDbProxy ------------------------------
(* Two workers and pools of one or two connections, so that both what a    *)
(* handler waits for and what it may make occur.  The four kinds of the    *)
(* run borrow in each of the ways that matter: a second connection of a    *)
(* pool, an early release, a loss, an order of two pools, no answer.  Of   *)
(* those left out, "single" and "sign" do nothing that "group" does not,   *)
(* and "unread" is one more order of two pools.                            *)
EXTENDS DbProxy

MCMaxConn == [p \in Pools |-> IF p = "master" THEN 2 ELSE 1]
=============================================================================
