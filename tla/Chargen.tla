-------------------------------- MODULE Chargen --------------------------------
(***************************************************************************)
(* simple/chargen.cpp: every client is written one block after another,    *)
(* each from the completion callback of the last; a timer prints and clears*)
(* the total.  A block is sizeof(message) bytes, the size of a pointer.    *)
(*                                                                         *)
(* External (libuv): uv_write() on a handle being closed is refused with   *)
(* UV_EBADF and has no callback.                                           *)
(***************************************************************************)
EXTENDS Naturals, FiniteSetsExt

CONSTANTS
  Clients,
  MaxBlocks     \* bound: blocks a socket takes

VARIABLE chargen

(* write: "none", "queued", "done" or "failed", its callback still to come *)
(* in the last two.  stat: stat->transfered.  taken: history, the blocks   *)
(* the socket took, got: those of them that reached the client.  single:   *)
(* history, what the failing callback printed, stale: history, the         *)
(* callbacks that used the freed statistics.                               *)
ClientType ==
  [handle : {"none", "open", "closed"}, write : {"none", "queued", "done", "failed"},
   stat : Nat, taken : Nat, got : Nat, single : Nat, stale : Nat]

(* transfered: the total since the last report.  reported: history, the    *)
(* sum of the totals printed.                                              *)
Type ==
  [client : [Clients -> ClientType], transfered : Nat, reported : Nat,
   status : {"running", "exited", "crashed"}]

Init ==
  chargen = [client |-> [c \in Clients |->
               [handle |-> "none", write |-> "none", stat |-> 0, taken |-> 0,
                got |-> 0, single |-> 0, stale |-> 0]],
             transfered |-> 0, reported |-> 0, status |-> "running"]

Running == chargen.status = "running"

(* on_new_connection: accept and getpeername() are under check_uv(); the   *)
(* latter fails for a client that has left again, and is given a length    *)
(* nothing initialised.                                                    *)
OnNewConnection(c) ==
  /\ Running
  /\ chargen.client[c].handle = "none"
  /\ chargen' \in {
       [chargen EXCEPT !.client[c].handle = "open", !.client[c].write = "queued"],
       [chargen EXCEPT !.status = "exited"] }

(* External: the socket takes the block, or the write fails.               *)
SocketTakes(c) ==
  /\ Running
  /\ chargen.client[c].write = "queued"
  /\ chargen.client[c].taken < MaxBlocks
  /\ chargen' = [chargen EXCEPT !.client[c].write = "done", !.client[c].taken = @ + 1]

SocketFails(c) ==
  /\ Running
  /\ chargen.client[c].write = "queued"
  /\ chargen' = [chargen EXCEPT !.client[c].write = "failed"]

(* External: a block reaches the client.  A block that the socket took is  *)
(* lost if the client is gone before this happens.                         *)
PeerGets(c) ==
  /\ Running
  /\ chargen.client[c].got < chargen.client[c].taken
  /\ chargen' = [chargen EXCEPT !.client[c].got = @ + 1]

OnWriteEnd(c) ==
  /\ Running
  /\ chargen.client[c].write = "done"
  /\ chargen' = [chargen EXCEPT !.client[c].stat = @ + 1, !.transfered = @ + 1,
                                !.client[c].write = "queued"]

(* Mutant: the handle is not closed, so the write that follows is accepted.*)
OnWriteErrorKeepsHandle(c) ==
  /\ Running
  /\ chargen.client[c].write = "failed"
  /\ chargen' = [chargen EXCEPT !.client[c].single = chargen.client[c].stat,
                                !.client[c].stale = @ + 1, !.transfered = @ + 1,
                                !.client[c].write = "queued"]

(* on_write_end with an error prints, frees the statistics, closes the     *)
(* handle and goes on as if nothing had happened: the freed statistics are *)
(* added to (undefined: a crash or no consequence), the total is, and the  *)
(* next write is refused.                                                  *)
OnWriteError(c) ==
  /\ Running
  /\ chargen.client[c].write = "failed"
  /\ chargen' \in {
       [chargen EXCEPT !.client[c].single = chargen.client[c].stat,
                       !.client[c].stale = @ + 1, !.client[c].handle = "closed",
                       !.transfered = @ + 1, !.client[c].write = "none"],
       [chargen EXCEPT !.status = "crashed"] }

OnTimeout ==
  Running /\ chargen' = [chargen EXCEPT !.reported = @ + chargen.transfered, !.transfered = 0]

Next ==
  \/ OnTimeout
  \/ \E c \in Clients :
       \/ OnNewConnection(c)
       \/ SocketTakes(c)
       \/ SocketFails(c)
       \/ PeerGets(c)
       \/ OnWriteEnd(c)
       \/ OnWriteError(c)

-----------------------------------------------------------------------------
(* Properties. *)

(* The rate printed when a client is lost counts the blocks its socket     *)
(* took, all of them and no other, although the callback goes on to count  *)
(* one more in memory it has freed (chargen.cpp:30-40).  It is not what    *)
(* the client received, which may be less: "why this not accurate", asks   *)
(* the comment above that line.                                            *)
SingleRateCounts ==
  \A c \in Clients :
    LET r == chargen.client[c]
    IN  r.handle = "closed" => r.single = r.taken /\ r.got <= r.single

(* The totals of all the timer's windows add up to the blocks whose        *)
(* callbacks have run, and one too many for each client lost.              *)
OneTooManyPerLoss ==
  Running =>
    chargen.reported + chargen.transfered =
      MapThenSumSet(LAMBDA c :
        LET r == chargen.client[c]
        IN  r.taken - (IF r.write = "done" THEN 1 ELSE 0)
                    + (IF r.handle = "closed" THEN 1 ELSE 0), Clients)

(* The statistics a failed write frees are used by that callback, and never*)
(* by another one: no callback of the same client comes after it, so       *)
(* nothing is freed or closed twice.                                       *)
FreedUsedOnce == \A c \in Clients : chargen.client[c].stale <= 1

(* What the error branch that does not return costs: no more than one      *)
(* message in the total, and one use of freed memory.                      *)
LossAccounted == SingleRateCounts /\ OneTooManyPerLoss /\ FreedUsedOnce
=============================================================================
