---------------------------- MODULE MCSocksTunnel ----------------------------
(* Instances of SocksTunnel for TLC: t1 is the busy tunnel, any other has  *)
(* a client that asks for nothing.                                         *)
EXTENDS SocksTunnel

CONSTANT t1   \* the busy tunnel

(* A request and data, data that looks like a second request, and no       *)
(* request at all; every read cuts them anywhere.                          *)
MCClientCells ==
  [t \in Tunnels |->
     IF t = t1
     THEN {<<"04", "01", "x", "y">>, <<"04", "01", "x", "04", "01">>, <<"x">>}
     ELSE {<<"x">>}]

MCServerCells == [t \in Tunnels |-> IF t = t1 THEN {<<"s", "t", "s">>} ELSE {<< >>}]

(* A request and one cell of data. *)
ShortCells == [t \in Tunnels |-> {<<"04", "01", "x">>}]

(* An answer of one cell, and one of two. *)
ShortAnswer == [t \in Tunnels |-> {<<"s">>}]

TwoAnswers == [t \in Tunnels |-> {<<"s", "t">>}]
=============================================================================
