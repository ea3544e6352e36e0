---------------------------- MODULE MCMsgServer -----------------------------
(* Two spellings of one user's name, which the database's case-insensitive *)
(* comparison resolves to the same row, another user, and an empty name.   *)
(* The two spellings are alike.                                            *)
EXTENDS MsgServer, TLC

CONSTANTS ann, Ann, bob

MCNames == {ann, Ann, bob, NoName}
MCUserOf == [n \in Names |-> CASE n = bob -> 2 [] n = NoName -> NoUser [] OTHER -> 1]

Symmetry == Permutations({ann, Ann})
=============================================================================
