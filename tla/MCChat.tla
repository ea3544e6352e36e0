------------------------------- MODULE MCChat -------------------------------
(* Two msg_servers; one of them has two handles and loses its link once,   *)
(* so that a user has other clients on the sender's msg_server and on the  *)
(* other one, and a pdu may come back over the second link.                *)
EXTENDS Chat

CONSTANTS s1, s2, a, b

MCConns == {<<s1, 1>>, <<s1, 2>>, <<s2, 1>>}
MCLinks == {<<s1, 1>>, <<s1, 2>>, <<s2, 1>>}
MCClients == {<<a, "pc">>, <<a, "mobile">>, <<b, "pc">>}
MCFirst == [c \in {<<s1, 1>>} |-> <<a, "pc">>]
=============================================================================
