--------------------------- MODULE MCMessageStore ---------------------------
(* Two workers and three requests of two users: two sendings at once, in   *)
(* one direction or both, a text one way and an audio the other, and a     *)
(* removal between two or during one.                                      *)
EXTENDS MessageStore, TLC

CONSTANTS a, b

WorkerSymmetry == Permutations(Workers)

MCRequests ==
    {[kind |-> "text", user |-> a, peer |-> b], [kind |-> "audio", user |-> b, peer |-> a],
     [kind |-> "remove", user |-> b, peer |-> a], [kind |-> "read", user |-> b, peer |-> a]}
=============================================================================
