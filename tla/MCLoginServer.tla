--------------------------- MODULE MCLoginServer ----------------------------
(* Two msg_servers, one of which takes a single client, and two links: one *)
(* each, or two of a msg_server that is back before its old one is closed. *)
EXTENDS LoginServer, TLC

CONSTANT Small

MCMaxConn == [m \in Servers |-> IF m = Small THEN 1 ELSE 2]

Symmetry == Permutations(Links) \union Permutations(Clients)
=============================================================================
