------------------------------ MODULE MCChatServer ------------------------------
(* An instance of ChatServer for TLC.  Byte 0 is NUL, a header two bytes,  *)
(* so that reads cut it too.                                               *)
EXTENDS ChatServer

(* A message; an empty one and one that is a NUL; an oversized length      *)
(* before one more byte.                                                   *)
MCScripts == {<<0, 1, 2>>, <<0, 0, 0, 1, 0>>, <<0, 2, 1>>}
=============================================================================
