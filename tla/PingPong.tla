------------------------------- MODULE PingPong -------------------------------
(***************************************************************************)
(* The ping-pong benchmark: pingpong/client.cc opens a number of sessions  *)
(* to pingpong/server.cc, writes one block on each, and both ends write    *)
(* back what they read until the client's timer fires.  Contents are left  *)
(* out: a session is how many bytes are where.                             *)
(*                                                                         *)
(* uv_write() gives its bytes to a queue and the socket takes them in      *)
(* pieces (Flush).  A connection may be reset: what is pending then fails, *)
(* which common_on_write_end only prints, and the next read of either end  *)
(* reports it.  After uv_shutdown() libuv refuses a write, ends it         *)
(* with an error or, while the shutdown waits, queues it: which of them    *)
(* depends on the version, and any may happen here.                        *)
(***************************************************************************)
EXTENDS Naturals, FiniteSets, FiniteSetsExt

CONSTANTS
  Sessions,     \* the client's connections
  block_size,   \* bytes in clientBuf
  ReadSize,     \* bytes in a read buffer of the client
  buf_size,     \* bytes in the server's msgBuf
  MaxWritten,   \* MaxWritten[s]: bound on what session s writes, in the model only
  None          \* no report

ASSUME PingPongAssumption ==
  /\ IsFiniteSet(Sessions)
  /\ {block_size, ReadSize, buf_size} \subseteq Nat \ {0}
  /\ MaxWritten \in [Sessions -> Nat]
  /\ \A s \in Sessions : block_size <= MaxWritten[s]
  /\ None \notin Nat

VARIABLES
  ses,      \* ses[s]: session s, its two ends and the bytes between them
  counter,  \* the client's count of sessions that have not failed
  timer,    \* "set" or "fired"
  report,   \* the totalBytes printed by onTimeout, or None
  status    \* the client: "running", "exited" (check_uv) or "done"

vars == <<ses, counter, timer, report, status>>

(* handle: the client's end.  shutdown: its uv_shutdown request.           *)
(* written: all that was passed to uv_write(), sendQ: what is pending.     *)
(* up, down: bytes on their way.  srv: the server's end; "lost" is one it  *)
(* failed to accept.  srvRead: all the server has read, srvQ: its pending  *)
(* writes.  broken: the connection was reset.                              *)
SessionType ==
  [handle : {"connecting", "open", "failed", "closed"},
   shutdown : {"no", "asked", "done"},
   written : Nat, sendQ : Nat, up : Nat,
   srv : {"none", "open", "closed", "lost"},
   srvRead : Nat, srvQ : Nat, down : Nat,
   bytesRead : Nat, broken : BOOLEAN]

Init ==
  /\ ses = [s \in Sessions |->
       [handle |-> "connecting", shutdown |-> "no", written |-> 0, sendQ |-> 0, up |-> 0,
        srv |-> "none", srvRead |-> 0, srvQ |-> 0, down |-> 0, bytesRead |-> 0,
        broken |-> FALSE]]
  /\ counter = Cardinality(Sessions)
  /\ timer = "set"
  /\ report = None
  /\ status = "running"

Become(s, r) ==
  /\ status = "running"
  /\ ses' = [ses EXCEPT ![s] = r]

Client == <<counter, timer, report, status>>

-----------------------------------------------------------------------------
(* The client. *)

(* check_uv(uv_write(..)) of n bytes in a callback that leaves session r.  *)
Write(s, r, n) ==
  \/ /\ r.shutdown # "done"
     /\ r.written + n <= MaxWritten[s]
     /\ Become(s, [r EXCEPT !.written = @ + n, !.sendQ = @ + n])
     /\ UNCHANGED status
  \/ r.shutdown = "done" /\ Become(s, r) /\ UNCHANGED status
  \/ r.shutdown # "no" /\ Become(s, r) /\ status' = "exited"

OnConnect(s) ==
  /\ ses[s].handle = "connecting"
  /\ Write(s, [ses[s] EXCEPT !.handle = "open"], block_size)
  /\ UNCHANGED <<counter, timer, report>>

(* Mutant: the count is left as it is. *)
OnConnectFailUncounted(s) ==
  /\ ses[s].handle = "connecting"
  /\ Become(s, [ses[s] EXCEPT !.handle = "failed"])
  /\ UNCHANGED Client

OnConnectFail(s) ==
  /\ ses[s].handle = "connecting"
  /\ Become(s, [ses[s] EXCEPT !.handle = "failed"])
  /\ counter' = counter - 1
  /\ UNCHANGED <<timer, report, status>>

(* onReadData with n bytes: they are counted, and the WHOLE buffer is      *)
(* written, however much of it was read.                                   *)
OnReadData(s, n) ==
  /\ ses[s].handle = "open"
  /\ n \in 1 .. ses[s].down
  /\ n <= ReadSize
  /\ Write(s, [ses[s] EXCEPT !.down = @ - n, !.bytesRead = @ + n], ReadSize)
  /\ UNCHANGED <<counter, timer, report>>

(* Mutant: the end of a session counts as a failure. *)
OnReadEndCounts(s) ==
  /\ ses[s].handle \in {"open", "failed"}
  /\ Become(s, [ses[s] EXCEPT !.handle = "closed", !.sendQ = 0])
  /\ counter' = counter - 1
  /\ UNCHANGED <<timer, report, status>>

(* onReadData with an error or the server's end: uv_close().  A connect    *)
(* that failed ends here too, because reading was started in connect().    *)
OnReadEnd(s) ==
  /\ ses[s].handle \in {"open", "failed"}
  /\ Become(s, [ses[s] EXCEPT !.handle = "closed", !.sendQ = 0])
  /\ UNCHANGED Client

(* onTimeout: disconnect() every session, and unless all of them failed    *)
(* print the total.  uv_shutdown() of a closed handle is ENOTCONN, for     *)
(* which check_uv() ends the process before it prints.                     *)
OnTimeout ==
  /\ status = "running" /\ timer = "set"
  /\ timer' = "fired"
  /\ IF \E s \in Sessions : ses[s].handle = "closed"
     THEN status' = "exited" /\ UNCHANGED <<ses, report>>
     ELSE /\ ses' = [s \in Sessions |-> [ses[s] EXCEPT !.shutdown = "asked"]]
          /\ report' = IF counter = 0 THEN None
                       ELSE MapThenSumSet(LAMBDA s : ses[s].bytesRead, Sessions)
          /\ UNCHANGED status
  /\ UNCHANGED counter

(* The shutdown is due once all writes are out; onShutdown changes nothing.*)
OnShutdown(s) ==
  /\ ses[s].shutdown = "asked"
  /\ ses[s].handle \in {"open", "failed"}
  /\ ses[s].sendQ = 0
  /\ Become(s, [ses[s] EXCEPT !.shutdown = "done"])
  /\ UNCHANGED Client

(* uv_run() returns once the timer has fired and every handle is closed.   *)
Finish ==
  /\ status = "running"
  /\ timer = "fired"
  /\ \A s \in Sessions : ses[s].handle = "closed"
  /\ status' = "done"
  /\ UNCHANGED <<ses, counter, timer, report>>

-----------------------------------------------------------------------------
(* The server. *)

(* on_new_connection: accept and read, or an error that leaves the         *)
(* connection to nobody.                                                   *)
OnNewConnection(s) ==
  /\ ses[s].srv = "none"
  /\ ses[s].handle \in {"open", "closed"}
  /\ ses[s].written > 0
  /\ \E srv \in {"open", "lost"} : Become(s, [ses[s] EXCEPT !.srv = srv])
  /\ UNCHANGED Client

(* Mutant: the whole buffer is written back. *)
OnReadClientWhole(s, n) ==
  /\ ses[s].srv = "open"
  /\ n \in 1 .. ses[s].up
  /\ n <= buf_size
  /\ Become(s, [ses[s] EXCEPT !.up = @ - n, !.srvRead = @ + n, !.srvQ = @ + buf_size])
  /\ UNCHANGED Client

(* on_read_client with n bytes of msgBuf. *)
OnReadClient(s, n) ==
  /\ ses[s].srv = "open"
  /\ n \in 1 .. ses[s].up
  /\ n <= buf_size
  /\ Become(s, [ses[s] EXCEPT !.up = @ - n, !.srvRead = @ + n, !.srvQ = @ + n])
  /\ UNCHANGED Client

(* Mutant: the handle is kept. *)
OnReadClientEndKeeps(s) ==
  /\ ses[s].srv = "open"
  /\ Become(s, ses[s])
  /\ UNCHANGED Client

(* on_read_client with an error, or at the client's end: uv_close().       *)
OnReadClientEnd(s) ==
  /\ ses[s].srv = "open"
  /\ Become(s, [ses[s] EXCEPT !.srv = "closed", !.srvQ = 0])
  /\ UNCHANGED Client

-----------------------------------------------------------------------------
(* External: the sockets take a byte of a pending write. *)

FlushUp(s) ==
  /\ ses[s].handle = "open" /\ ses[s].sendQ > 0
  /\ ~ses[s].broken
  /\ Become(s, [ses[s] EXCEPT !.sendQ = @ - 1, !.up = @ + 1])
  /\ UNCHANGED Client

FlushDown(s) ==
  /\ ses[s].srv = "open" /\ ses[s].srvQ > 0
  /\ ~ses[s].broken
  /\ Become(s, [ses[s] EXCEPT !.srvQ = @ - 1, !.down = @ + 1])
  /\ UNCHANGED Client

(* External: the connection is reset. *)
Reset(s) ==
  /\ ses[s].handle = "open" \/ ses[s].srv = "open"
  /\ ~ses[s].broken
  /\ Become(s, [ses[s] EXCEPT !.broken = TRUE])
  /\ UNCHANGED Client

(* A pending write of a broken connection fails: common_on_write_end       *)
(* prints the error and keeps the handle, and its bytes are lost.          *)
LoseUp(s) ==
  /\ ses[s].handle = "open" /\ ses[s].broken
  /\ \E k \in 1 .. ses[s].sendQ : Become(s, [ses[s] EXCEPT !.sendQ = @ - k])
  /\ UNCHANGED Client

LoseDown(s) ==
  /\ ses[s].srv = "open" /\ ses[s].broken
  /\ \E k \in 1 .. ses[s].srvQ : Become(s, [ses[s] EXCEPT !.srvQ = @ - k])
  /\ UNCHANGED Client

Next ==
  \/ OnTimeout
  \/ Finish
  \/ \E s \in Sessions :
       \/ OnConnect(s)
       \/ OnConnectFail(s)
       \/ \E n \in 1 .. ReadSize : OnReadData(s, n)
       \/ OnReadEnd(s)
       \/ OnShutdown(s)
       \/ OnNewConnection(s)
       \/ \E n \in 1 .. buf_size : OnReadClient(s, n)
       \/ OnReadClientEnd(s)
       \/ FlushUp(s)
       \/ FlushDown(s)
       \/ Reset(s)
       \/ LoseUp(s)
       \/ LoseDown(s)

Spec == Init /\ [][Next]_vars

(* The end of a session reaches the peer once it has read everything.      *)
ClientEnded(s) == ses[s].shutdown = "done" \/ ses[s].handle = "closed"

(* Both loops report what arrived and the ends of connections, the timer   *)
(* fires, sockets take or fail what is pending, connects are decided.  A   *)
(* shutdown is only due while nothing is pending, and may wait for ever.   *)
FairSpec ==
  /\ Spec
  /\ WF_vars(OnTimeout)
  /\ WF_vars(Finish)
  /\ \A s \in Sessions :
       /\ WF_vars(OnConnect(s) \/ OnConnectFail(s))
       /\ WF_vars(\E n \in 1 .. ReadSize : OnReadData(s, n))
       /\ WF_vars((ses[s].srv = "closed" \/ ses[s].handle = "failed" \/ ses[s].broken)
                   /\ OnReadEnd(s))
       /\ WF_vars(OnShutdown(s))
       /\ WF_vars(OnNewConnection(s))
       /\ WF_vars(\E n \in 1 .. buf_size : OnReadClient(s, n))
       /\ WF_vars(((ClientEnded(s) /\ ses[s].up = 0) \/ ses[s].broken) /\ OnReadClientEnd(s))
       /\ WF_vars(FlushUp(s) \/ LoseUp(s))
       /\ WF_vars(FlushDown(s) \/ LoseDown(s))

-----------------------------------------------------------------------------
(* Properties. *)

TypeOK ==
  /\ ses \in [Sessions -> SessionType]
  /\ counter \in Nat
  /\ timer \in {"set", "fired"}
  /\ report \in Nat \cup {None}
  /\ status \in {"running", "exited", "done"}

(* No byte comes back that was not sent, and none is missing but those of  *)
(* an end that closed or of writes that failed (client.cc:83,              *)
(* server.cc:24, util.cpp:29).  Because every read is answered with the    *)
(* whole buffer (client.cc:86), a session never runs out of traffic before *)
(* its shutdown: at least a block is always pending or on its way.         *)
Conserved ==
  \A s \in Sessions :
    LET r == ses[s]
    IN  /\ r.bytesRead + r.down + r.srvQ <= r.srvRead
        /\ r.srvRead + r.up + r.sendQ <= r.written
        /\ r.srv = "open" /\ ~r.broken => r.bytesRead + r.down + r.srvQ = r.srvRead
        /\ r.handle = "open" /\ ~r.broken => r.srvRead + r.up + r.sendQ = r.written
        /\ r.srv = "open" /\ r.handle = "open" /\ ~r.broken /\ r.shutdown = "no"
             => block_size <= r.sendQ + r.up + r.srvQ + r.down

(* counter is what it says through every failure, and the benchmark is     *)
(* left without a result only when all sessions failed or one was closed   *)
(* before the timer fired: one closed session costs the result of all.     *)
ResultLost ==
  /\ counter <= Cardinality({s \in Sessions : ses[s].handle # "failed"})
  /\ counter >= Cardinality({s \in Sessions : ses[s].handle \in {"connecting", "open"}})
  /\ timer = "fired" /\ report = None
       => counter = 0 \/ (status = "exited" /\ \E s \in Sessions : ses[s].handle = "closed")

(* A read of session s waits for an answer the bound does not allow.       *)
AtBound(s) ==
  /\ ses[s].handle = "open" /\ ses[s].shutdown # "done" /\ ses[s].down > 0
  /\ ses[s].written + ReadSize > MaxWritten[s]

(* The client ends, unless the server failed to accept one of its          *)
(* sessions, which then nobody ever closes, or a session's traffic outlives*)
(* MaxWritten: the code answers every read, also while the shutdown waits  *)
(* for the queue to drain, and promises no end of that (client.cc:54,86).  *)
Ends ==
  <>(status # "running" \/ \E s \in Sessions : ses[s].srv = "lost" \/ AtBound(s))
=============================================================================
