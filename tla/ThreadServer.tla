------------------------------ MODULE ThreadServer ------------------------------
(***************************************************************************)
(* multi_thread_tcp_server_exp/multi_thread_server.cpp: a thread with a    *)
(* loop of its own for each connection, joined by the accept callback that *)
(* started it.  Every thread reads into globalBuf and answers each read    *)
(* with the WHOLE of it, wherever the read ended.                          *)
(*                                                                         *)
(* A cell is data of one client: cell <<c, i>> is the i-th of client c.    *)
(* A pending write refers to globalBuf; the socket is sent what is there   *)
(* when it takes it.                                                       *)
(***************************************************************************)
EXTENDS Naturals, Sequences, FiniteSets

CONSTANTS
  Clients,
  Blank,        \* what globalBuf holds before the first read
  BufCells,     \* cells in globalBuf
  MaxCells      \* bound: cells a client sends

VARIABLE threads

Cell == (Clients \X (1 .. MaxCells)) \cup {Blank}

(* thread: "none", "waiting" (in the listen queue), "reading", "ended" (the*)
(* read side is over) or "joined".  queue: the pending writes, as the cells*)
(* of globalBuf still to send.  asked: history, globalBuf at each write.   *)
(* torn: history, a read came while a write was pending, or a write failed.*)
ThreadType ==
  [thread : {"none", "waiting", "reading", "ended", "joined"}, read : 0 .. MaxCells,
   queue : Seq(1 .. BufCells), asked : Seq(Cell), sent : Seq(Cell), torn : BOOLEAN]

Type ==
  [session : [Clients -> ThreadType], globalBuf : [1 .. BufCells -> Cell],
   joining : SUBSET Clients, order : Seq(Clients)]

Init ==
  threads = [session |-> [c \in Clients |->
               [thread |-> "none", read |-> 0, queue |-> << >>, asked |-> << >>,
                sent |-> << >>, torn |-> FALSE]],
             globalBuf |-> [i \in 1 .. BufCells |-> Blank],
             joining   |-> {},        \* whose thread the accept callback joins
             order     |-> << >>]     \* history: the clients in order of acceptance

Alive(c) == threads.session[c].thread \in {"reading", "ended"}

(* External: a client connects and waits in the backlog.                   *)
Connect(c) ==
  /\ threads.session[c].thread = "none"
  /\ threads' = [threads EXCEPT !.session[c].thread = "waiting"]

Start(c) ==
  [threads EXCEPT !.session[c].thread = "reading", !.joining = @ \cup {c},
                  !.order = Append(@, c)]

(* Mutant: the thread is detached. *)
OnNewConnectionDetached(c) ==
  /\ threads.session[c].thread = "waiting"
  /\ threads' = Start(c)

(* on_new_connection: the main loop is in no other callback; it starts the *)
(* thread and joins it.  After an error of uv_accept() nobody serves c.    *)
OnNewConnection(c) ==
  /\ threads.joining = {}
  /\ threads.session[c].thread = "waiting"
  /\ threads' \in {Start(c), [threads EXCEPT !.session[c].thread = "joined"]}

(* The thread's read callback with n cells (0 is not told apart from data).*)
OnRead(c, n) ==
  LET r     == threads.session[c]
      fresh == [i \in 1 .. BufCells |->
                 IF i <= n THEN <<c, r.read + i>> ELSE threads.globalBuf[i]]
  IN  /\ r.thread = "reading"
      /\ r.read + n <= MaxCells
      /\ Len(r.asked) < BufCells * MaxCells
      /\ threads' = [threads EXCEPT
           !.globalBuf = fresh,
           !.session[c] = [r EXCEPT !.read = @ + n,
                                    !.queue = @ \o [i \in 1 .. BufCells |-> i],
                                    !.asked = @ \o fresh,
                                    !.torn = @ \/ r.queue # << >>]]

(* Mutant: the end of the connection is not noticed. *)
OnReadEndMissed(c) ==
  /\ threads.session[c].thread = "reading"
  /\ UNCHANGED threads

(* The read callback with an error or the end: the read side stops, the    *)
(* descriptor stays open.                                                  *)
OnReadEnd(c) ==
  /\ threads.session[c].thread = "reading"
  /\ threads' = [threads EXCEPT !.session[c].thread = "ended"]

(* External: the socket takes a cell of the oldest write, or fails it.     *)
Flush(c) ==
  LET q == threads.session[c].queue
  IN  /\ Alive(c) /\ q # << >>
      /\ threads' = [threads EXCEPT !.session[c].queue = Tail(@),
                       !.session[c].sent = Append(@, threads.globalBuf[Head(q)])]

WriteFails(c) ==
  /\ Alive(c) /\ threads.session[c].queue # << >>
  /\ threads' = [threads EXCEPT !.session[c].queue = << >>, !.session[c].torn = TRUE]

(* uv_run() of the thread returns once nothing is read or written; join()  *)
(* returns and the main loop goes on.                                      *)
Join(c) ==
  /\ threads.session[c].thread = "ended" /\ threads.session[c].queue = << >>
  /\ threads' = [threads EXCEPT !.session[c].thread = "joined", !.joining = @ \ {c}]

ClientStep(c) ==
  \/ Connect(c)
  \/ OnNewConnection(c)
  \/ \E n \in 0 .. BufCells : OnRead(c, n)
  \/ OnReadEnd(c)
  \/ Flush(c)
  \/ WriteFails(c)
  \/ Join(c)

Next == \E c \in Clients : ClientStep(c)

(* What brings a client from the backlog to its end.                       *)
Serve(c) == OnNewConnection(c) \/ OnReadEnd(c) \/ Flush(c) \/ WriteFails(c) \/ Join(c)

-----------------------------------------------------------------------------
(* Properties. *)

(* globalBuf needs no lock because of the join: a client is answered with  *)
(* the buffer as it was at each of its reads, and only its own next read   *)
(* can tear an answer that is still pending.                               *)
AnswersIntact ==
  \A c \in Clients :
    LET r == threads.session[c]
    IN  ~r.torn => r.sent = SubSeq(r.asked, 1, Len(r.sent))

(* The rest of a short answer is what earlier reads left in globalBuf: of  *)
(* the client itself or of one served before it, never of a later one.     *)
OnlyOlderData ==
  \A c \in Clients, i \in DOMAIN threads.order :
    threads.order[i] = c =>
      \A j \in DOMAIN threads.session[c].sent :
        LET cell == threads.session[c].sent[j]
        IN  cell = Blank \/ \E k \in 1 .. i : threads.order[k] = cell[1]

(* What reaches a client through the buffer all of them share.             *)
AnswersExplained == AnswersIntact /\ OnlyOlderData

(* A client that waits is accepted in the end, provided that the ones      *)
(* before it leave: the accept callback holds the whole server until then. *)
NobodyWaits == \A c \in Clients : threads.session[c].thread # "waiting"
=============================================================================
