----------------------------- MODULE FileTransfer -----------------------------
(***************************************************************************)
(* simple/filetransfer.cpp: each client is sent one file.  The callbacks   *)
(* run on the loop thread; uv_fs_read() fills the ONE global `buffer` from *)
(* a thread of libuv's pool, whichever connection asked.                   *)
(*                                                                         *)
(* A read is split into one step per cell, in any order, so that on_read's *)
(* memcpy can find any mixture of what several reads have written so far.  *)
(*                                                                         *)
(* External (libuv, kernel): the thread pool, how much of a write a socket *)
(* takes at once, and errors.  A cell of a pending write is a reference    *)
(* into tBuf, on a stack frame that is gone: what is sent for it is JUNK.  *)
(***************************************************************************)
EXTENDS FiniteSets, SequencesExt

CONSTANTS
  Clients,    \* the clients that may connect
  FILE_BUF,   \* cells in buffer and in tBuf
  File,       \* the file: a sequence of cells
  NUL, JUNK   \* two more cells, see on_read and the header

ASSUME FileTransferAssumption ==
  /\ FILE_BUF \in Nat \ {0}
  /\ File \in Seq(ToSet(File))
  /\ {NUL, JUNK} \cap ToSet(File) = {}

VARIABLES
  buffer,     \* the global buffer
  conn,       \* conn[c]: the context of client c and what it refers to
  fate        \* "running", "exited" (check_uv) or "crashed"

vars == <<buffer, conn, fate>>

Requests == {"open", "read", "write", "shutdown", "fs_close", "tcp_close"}

Cell == ToSet(File) \cup {NUL, JUNK}

(* context: the malloc'ed context; client, fd: its handle and file.        *)
(* reqs: its requests in flight.  offset: the file position of fd.         *)
(* filled: the cells of buffer the current read has written.               *)
(* out, left: what the client's socket has taken, how much is pending.     *)
(* failed: an error was reported to a callback.  late: a write was not     *)
(* taken at once.  shared: buffer was in use by two clients at a time.     *)
ConnType ==
  [context : {"none", "live", "freed"},
   client : {"none", "open", "closed"},
   fd : {"none", "open", "closed"},
   reqs : SUBSET Requests,
   offset : Nat, filled : SUBSET (1 .. FILE_BUF),
   out : Seq(Cell), left : Nat,
   failed : BOOLEAN, late : BOOLEAN, shared : BOOLEAN]

Init ==
  /\ buffer = [i \in 1 .. FILE_BUF |-> NUL]
  /\ conn = [c \in Clients |->
       [context |-> "none", client |-> "none", fd |-> "none", reqs |-> {},
        offset |-> 0, filled |-> {}, out |-> << >>, left |-> 0,
        failed |-> FALSE, late |-> FALSE, shared |-> FALSE]]
  /\ fate = "running"

Running == fate = "running"

Become(c, r) == conn' = [conn EXCEPT ![c] = r] /\ UNCHANGED <<buffer, fate>>

(* The cells the current read of r will deliver: req->result.              *)
result(r) ==
  LET rest == Len(File) - r.offset IN IF rest < FILE_BUF THEN rest ELSE FILE_BUF

InFlight(c, req) == Running /\ req \in conn[c].reqs

(* Request req of r is over, next is issued in its callback. *)
After(r, req, next) == [r EXCEPT !.reqs = (@ \ {req}) \cup {next}]

(* Request req of r is over and its callback returns early. *)
Fails(r, req) == [r EXCEPT !.reqs = @ \ {req}, !.failed = TRUE]

StartRead(r, req) == [After(r, req, "read") EXCEPT !.filled = {}]

-----------------------------------------------------------------------------
(* on_new_connection: a failing uv_accept() or uv_fs_open() ends the       *)
(* process.                                                                *)
OnNewConnection(c) ==
  /\ Running
  /\ conn[c].client = "none"
  /\ \/ Become(c, [conn[c] EXCEPT !.context = "live", !.client = "open", !.reqs = {"open"}])
     \/ fate' = "exited" /\ UNCHANGED <<buffer, conn>>

(* on_file_open: a failure frees the context and forgets the client.       *)
OnFileOpen(c) ==
  /\ InFlight(c, "open")
  /\ \/ Become(c, [StartRead(conn[c], "open") EXCEPT !.fd = "open"])
     \/ Become(c, [Fails(conn[c], "open") EXCEPT !.context = "freed"])

(* External: the pool thread of client c's read writes cell i of buffer.   *)
PoolRead(c, i) ==
  /\ InFlight(c, "read")
  /\ i \in 1 .. result(conn[c]) \ conn[c].filled
  /\ buffer' = [buffer EXCEPT ![i] = File[conn[c].offset + i]]
  /\ conn' = [d \in Clients |->
       IF d = c
       THEN [conn[c] EXCEPT
               !.filled = @ \cup {i},
               !.shared = @ \/ \E e \in Clients \ {c} : "read" \in conn[e].reqs]
       ELSE [conn[d] EXCEPT !.shared = @ \/ "read" \in conn[d].reqs]]
  /\ UNCHANGED fate

(* Mutant: the next read is issued without waiting for the write. *)
OnReadEagerly(c) ==
  /\ InFlight(c, "read")
  /\ LET r == conn[c]
         n == result(r)
     IN  /\ n > 0
         /\ r.filled = 1 .. n
         /\ Become(c, [r EXCEPT !.offset = @ + n, !.filled = {},
                                !.out = @ \o SubSeq(buffer, 1, n) \o <<NUL>>,
                                !.reqs = @ \cup {"write"}])

(* Mutant: every read starts at the front of the file. *)
OnReadKeepsOffset(c) ==
  /\ InFlight(c, "read")
  /\ LET r == conn[c]
         n == result(r)
     IN  /\ n > 0
         /\ r.filled = 1 .. n
         /\ Len(r.out) <= Len(File)
         /\ Become(c, [After(r, "read", "write") EXCEPT
                         !.out = @ \o SubSeq(buffer, 1, n) \o <<NUL>>])

(* Mutant: the pending length is counted without the NUL. *)
OnReadNegative(c) ==
  /\ InFlight(c, "read")
  /\ LET r == conn[c]
         n == result(r)
     IN  /\ n > 0
         /\ r.filled = 1 .. n
         /\ \E k \in 0 .. n + 1 :
              Become(c, [After(r, "read", "write") EXCEPT !.offset = @ + n, !.left = n - k])

(* on_read with data: copy to tBuf, put a NUL behind it (one cell past the *)
(* end of tBuf if the read was full) and write the copy and the NUL.       *)
OnRead(c) ==
  /\ InFlight(c, "read")
  /\ LET r    == conn[c]
         n    == result(r)
         tBuf == SubSeq(buffer, 1, n) \o <<NUL>>
     IN  /\ n > 0
         /\ r.filled = 1 .. n
         /\ \/ \E k \in 0 .. n + 1 :
                 Become(c, [After(r, "read", "write") EXCEPT
                              !.offset = @ + n,
                              !.out = @ \o SubSeq(tBuf, 1, k),
                              !.left = n + 1 - k,
                              !.late = @ \/ k < n + 1])
            \/ n = FILE_BUF /\ fate' = "crashed" /\ UNCHANGED <<buffer, conn>>

(* on_read at the end of the file. *)
OnReadEnd(c) ==
  /\ InFlight(c, "read")
  /\ result(conn[c]) = 0
  /\ Become(c, After(conn[c], "read", "shutdown"))

(* on_read with an error: nothing is closed or freed. *)
OnReadError(c) ==
  /\ InFlight(c, "read")
  /\ conn[c].filled = {}
  /\ Become(c, Fails(conn[c], "read"))

(* External: the socket takes n cells of the pending write. *)
Flush(c, n) ==
  /\ InFlight(c, "write")
  /\ n \in 1 .. conn[c].left
  /\ Become(c, [conn[c] EXCEPT !.out = @ \o [i \in 1 .. n |-> JUNK], !.left = @ - n])

(* on_write_end: read on, or on an error leave everything as it is. *)
OnWriteEnd(c) ==
  /\ InFlight(c, "write")
  /\ \/ conn[c].left = 0 /\ Become(c, StartRead(conn[c], "write"))
     \/ Become(c, Fails(conn[c], "write"))

(* on_shutdown, success or error. *)
OnShutdown(c) ==
  /\ InFlight(c, "shutdown")
  /\ \/ Become(c, After(conn[c], "shutdown", "fs_close"))
     \/ Become(c, Fails(conn[c], "shutdown"))

(* Mutant: the handle is forgotten. *)
OnFsCloseForgets(c) ==
  /\ InFlight(c, "fs_close")
  /\ Become(c, [conn[c] EXCEPT !.fd = "closed", !.reqs = {}])

(* on_fs_close ignores the result of the close. *)
OnFsClose(c) ==
  /\ InFlight(c, "fs_close")
  /\ Become(c, [After(conn[c], "fs_close", "tcp_close") EXCEPT !.fd = "closed"])

OnTcpClose(c) ==
  /\ InFlight(c, "tcp_close")
  /\ Become(c, [conn[c] EXCEPT !.reqs = @ \ {"tcp_close"},
                               !.client = "closed", !.context = "freed"])

Step(c) ==
  \/ OnFileOpen(c)
  \/ \E i \in 1 .. FILE_BUF : PoolRead(c, i)
  \/ OnRead(c)
  \/ OnReadEnd(c)
  \/ OnReadError(c)
  \/ \E n \in 1 .. FILE_BUF + 1 : Flush(c, n)
  \/ OnWriteEnd(c)
  \/ OnShutdown(c)
  \/ OnFsClose(c)
  \/ OnTcpClose(c)

Next == \E c \in Clients : OnNewConnection(c) \/ Step(c)

Spec == Init /\ [][Next]_vars

(* libuv completes every request it was given, clients keep reading.       *)
FairSpec == Spec /\ \A c \in Clients : WF_vars(Step(c))

-----------------------------------------------------------------------------
(* Properties. *)

TypeOK ==
  /\ buffer \in [1 .. FILE_BUF -> Cell]
  /\ conn \in [Clients -> ConnType]
  /\ fate \in {"running", "exited", "crashed"}

(* A context has at most one request in flight, so read_req and open_req   *)
(* are never reused too early, and no request outlives the context its     *)
(* callback goes through.                                                  *)
OneRequest ==
  \A c \in Clients :
    /\ Cardinality(conn[c].reqs) <= 1
    /\ conn[c].reqs # {} => conn[c].context = "live"

(* Only an error leaves a connection with something unreclaimed: a context *)
(* without request is the one of a client that was served and closed.      *)
CleanUnlessFailed ==
  \A c \in Clients :
    LET r == conn[c]
    IN  r.client # "none" /\ r.reqs = {} /\ ~r.failed
          => r.context = "freed" /\ r.fd = "closed" /\ r.client = "closed"

(* What a transfer sends from position `at` of the file on: chunk after    *)
(* chunk, and a NUL behind each; and what a whole transfer sends.          *)
Chunks[at \in 0 .. Len(File)] ==
  IF at = Len(File) THEN << >>
  ELSE LET n == IF Len(File) - at < FILE_BUF THEN Len(File) - at ELSE FILE_BUF
       IN  SubSeq(File, at + 1, at + n) \o <<NUL>> \o Chunks[at + n]

Expected == Chunks[0]

(* A client whose reads met no other client's in the global buffer, and    *)
(* whose socket took each write at once, gets the file, cut into chunks    *)
(* that each end in a NUL the file does not have.                          *)
SentInOrder ==
  \A c \in Clients :
    ~conn[c].shared /\ ~conn[c].late => IsPrefix(conn[c].out, Expected)

(* Every connection is served and closed unless an error is reported.      *)
Finishes ==
  \A c \in Clients :
    conn[c].client = "open" ~> (conn[c].client = "closed" \/ conn[c].failed \/ ~Running)

(* filetransfer.cpp:82 says that `buffer` cannot be used directly.  The    *)
(* copy made instead should shield a client from the other transfers.      *)
CopyShields ==
  \A c \in Clients : ~conn[c].late => IsPrefix(conn[c].out, Expected)
=============================================================================
