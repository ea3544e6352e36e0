--------------------------- MODULE MCFileTransfer ---------------------------
(* Two connections for each user, of which three are made: a client comes  *)
(* back while its first connection is still there.  Files of no, one and   *)
(* two blocks.                                                             *)
EXTENDS FileTransfer
=============================================================================
