------------------------------ MODULE ByteQueue ------------------------------
(***************************************************************************)
(* What class Buffer promises its callers: each buffer is a lossless,      *)
(* unbounded FIFO of bytes.  Bytes come out in the order they went in,     *)
(* none is dropped, repeated or altered.  The one way out of the promise   *)
(* is a failed assert, which stops the process and loses nothing already   *)
(* queued.                                                                 *)
(***************************************************************************)
EXTENDS Integers, Sequences

CONSTANTS
  Buffers,    \* the Buffer objects of the process
  Chunks      \* the byte sequences that may be put in at once

VARIABLES
  queue,      \* queue[x]: the bytes of buffer x not yet taken
  aborted     \* an assert has failed, the process is gone

vars == <<queue, aborted>>

Init ==
  /\ queue = [x \in Buffers |-> << >>]
  /\ aborted = FALSE

Put(x, data) ==
  /\ queue' = [queue EXCEPT ![x] = @ \o data]
  /\ UNCHANGED aborted

Take(x, n) ==
  /\ queue' = [queue EXCEPT ![x] = SubSeq(@, n + 1, Len(@))]
  /\ UNCHANGED aborted

Exchange(x, y) ==
  /\ queue' = [queue EXCEPT ![x] = queue[y], ![y] = queue[x]]
  /\ UNCHANGED aborted

Abort ==
  /\ aborted' = TRUE
  /\ UNCHANGED queue

Next ==
  /\ ~aborted
  /\ \/ \E x \in Buffers, data \in Chunks : Put(x, data)
     \/ \E x \in Buffers : \E n \in 0 .. Len(queue[x]) : Take(x, n)
     \/ \E x, y \in Buffers : Exchange(x, y)
     \/ Abort

Spec == Init /\ [][Next]_vars
=============================================================================
