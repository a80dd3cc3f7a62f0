------------------------------- MODULE PongBuffer -------------------------------
(***************************************************************************)
(* The contents of pingpong/server.cc, which PingPong leaves out: every    *)
(* connection is read into the one msgBuf, and every pong is a pending     *)
(* write that refers to it.  A cell <<c, i>> is the i-th that client c     *)
(* sent; the socket is sent what msgBuf holds when it takes a cell.        *)
(***************************************************************************)
EXTENDS Naturals, Sequences

CONSTANTS
  Clients,
  Blank,        \* what malloc() left in msgBuf
  BufCells,     \* cells in msgBuf
  MaxCells      \* bound: cells a client sends

VARIABLE pong

Cell == (Clients \X (1 .. MaxCells)) \cup {Blank}

(* writes: the pending pongs, each the part of msgBuf still to be sent.    *)
(* torn: history, a read of anyone came while one was pending.             *)
ClientType ==
  [handle : {"none", "open", "closed"}, read : 0 .. MaxCells,
   writes : Seq([first : 1 .. BufCells, last : 1 .. BufCells]),
   sent : Seq(Cell), torn : BOOLEAN]

Type == [client : [Clients -> ClientType], msgBuf : [1 .. BufCells -> Cell]]

Init ==
  pong = [client |-> [c \in Clients |->
            [handle |-> "none", read |-> 0, writes |-> << >>, sent |-> << >>, torn |-> FALSE]],
          msgBuf |-> [i \in 1 .. BufCells |-> Blank]]

OnNewConnection(c) ==
  /\ pong.client[c].handle = "none"
  /\ pong' = [pong EXCEPT !.client[c].handle = "open"]

(* The client and the buffer after n cells of c were read over the start   *)
(* of msgBuf, and the first `out` cells of it given to uv_write().         *)
ReadAndWrite(c, n, out) ==
  LET r == pong.client[c]
  IN  [msgBuf |-> [i \in 1 .. BufCells |->
                    IF i <= n THEN <<c, r.read + i>> ELSE pong.msgBuf[i]],
       client |-> [d \in Clients |->
         LET q == [pong.client[d] EXCEPT !.torn = @ \/ pong.client[d].writes # << >>]
         IN  IF d # c THEN q
             ELSE [q EXCEPT !.read = @ + n, !.writes = Append(@, [first |-> 1, last |-> out])]]]

Readable(c, n) == pong.client[c].handle = "open" /\ pong.client[c].read + n <= MaxCells

(* on_read_client: what was read is written back from where it is.         *)
OnReadClient(c, n) == Readable(c, n) /\ pong' = ReadAndWrite(c, n, n)

(* on_read_client with an error or the end; the close drops what is        *)
(* pending.                                                                *)
OnReadClientEnd(c) ==
  /\ pong.client[c].handle = "open"
  /\ pong' = [pong EXCEPT !.client[c].handle = "closed", !.client[c].writes = << >>]

(* External: the socket takes a cell of the oldest write.                  *)
Flush(c) ==
  LET r == pong.client[c] w == Head(r.writes)
  IN  /\ r.writes # << >>
      /\ pong' = [pong EXCEPT
           !.client[c].sent = Append(@, pong.msgBuf[w.first]),
           !.client[c].writes =
             IF w.first = w.last THEN Tail(@) ELSE <<[w EXCEPT !.first = @ + 1]>> \o Tail(@)]

Next ==
  \E c \in Clients :
    \/ OnNewConnection(c)
    \/ \E n \in 1 .. BufCells : OnReadClient(c, n)
    \/ OnReadClientEnd(c)
    \/ Flush(c)

-----------------------------------------------------------------------------
(* Properties. *)

(* A client gets back exactly what it sent, in order, until any client is  *)
(* read while a pong of it is pending; what it gets is never a cell that   *)
(* was in msgBuf before the server read anything.                          *)
PongIntact ==
  \A c \in Clients :
    LET r == pong.client[c]
    IN  /\ ~r.torn => \A i \in DOMAIN r.sent : r.sent[i] = <<c, i>>
        /\ \A i \in DOMAIN r.sent : r.sent[i] # Blank
=============================================================================
