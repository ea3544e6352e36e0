--------------------------- MODULE MCRouteServer ----------------------------
(* Two msg_servers with clients of one user, and links enough for one of   *)
(* them to be back on a new link before its old one is closed.             *)
EXTENDS RouteServer, TLC

Symmetry == Permutations(Links) \union Permutations(Handles) \union Permutations(Servers)
=============================================================================
