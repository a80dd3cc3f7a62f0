--------------------------------- MODULE Echo ---------------------------------
(***************************************************************************)
(* echo_client and the server it talks to.  The client joins three libuv   *)
(* handles: what arrives on the connection goes to stdout, what arrives on *)
(* stdin goes to the connection, and the end of either closes all three.   *)
(*                                                                         *)
(* The server is echo_server, which shuts every connection down as soon as *)
(* it is accepted and neither reads nor closes it, or any other program    *)
(* ("any"), which answers what it likes and may close.                     *)
(*                                                                         *)
(* Every read has a buffer of its own (common_alloc_buffer, never freed),  *)
(* so a pending write keeps its data; a cell is what one read delivers.  A *)
(* read callback with nread = 0 changes nothing and is left out.           *)
(***************************************************************************)
EXTENDS Naturals, SequencesExt

CONSTANTS
  Typed,     \* what stdin delivers before it ends: a sequence of cells
  Answers,   \* what a server of kind "any" sends: a sequence of cells
  Kinds      \* the servers to look at, of "echo_server" and "any"

Cell == ToSet(Typed) \cup ToSet(Answers)

ASSUME EchoAssumption ==
  /\ Kinds \subseteq {"echo_server", "any"}
  /\ Typed \in Seq(Cell)
  /\ Answers \in Seq(Cell)

Handles == {"conn", "stdin", "stdout"}

VARIABLES
  status,    \* the client: "connecting", "running", "exited" or "done"
  h,         \* h[x]: "none", "open", "closing" or "closed"
  closes,    \* closes[x]: how often uv_close() was called on handle x
  stdin,     \* the cells stdin has still to deliver
  sendQ,     \* pending writes to the connection
  sent,      \* what the socket has taken
  got,       \* the cells read from the connection
  printQ,    \* pending writes to stdout
  printed,   \* what stdout has taken
  kind,      \* the kind of the server
  peer,      \* the server's end: "listening", "open", "shut" or "lost"
  answers,   \* the cells the server has still to send
  down       \* cells on their way to the client

vars == <<status, h, closes, stdin, sendQ, sent, got, printQ, printed, kind, peer, answers, down>>

server == <<kind, peer, answers>>

Init ==
  /\ status = "connecting"
  /\ h = [x \in Handles |-> IF x = "conn" THEN "open" ELSE "none"]
  /\ closes = [x \in Handles |-> 0]
  /\ stdin = Typed
  /\ sendQ = << >> /\ sent = << >>
  /\ got = << >>
  /\ printQ = << >> /\ printed = << >>
  /\ kind \in Kinds
  /\ peer = "listening"
  /\ answers = IF kind = "any" THEN Answers ELSE << >>
  /\ down = << >>

Reading(x) == status = "running" /\ h[x] = "open"

-----------------------------------------------------------------------------
(* The client. *)

(* Mutant: reading starts before stdin is opened. *)
OnConnectReadsEarly ==
  /\ status = "connecting"
  /\ status' = "running"
  /\ h' = [x \in Handles |-> IF x = "stdin" THEN "none" ELSE "open"]
  /\ UNCHANGED <<closes, stdin, sendQ, sent, got, printQ, printed, server, down>>

(* on_connect: exit() when the connection failed, or through check_uv()    *)
(* when stdin or stdout cannot be opened as a pipe.                        *)
OnConnect ==
  /\ status = "connecting"
  /\ \/ /\ status' = "running"
        /\ h' = [x \in Handles |-> "open"]
     \/ status' = "exited" /\ UNCHANGED h
  /\ UNCHANGED <<closes, stdin, sendQ, sent, got, printQ, printed, server, down>>

(* uv_close() on the three handles: nothing is read any more, and libuv    *)
(* cancels the writes that are pending.                                    *)
CloseAll ==
  /\ h' = [x \in Handles |-> "closing"]
  /\ closes' = [x \in Handles |-> closes[x] + 1]
  /\ sendQ' = << >>
  /\ printQ' = << >>

(* Mutant: all reads share one buffer, and so do the pending writes. *)
OnReadConnectionShared ==
  /\ Reading("conn")
  /\ down # << >>
  /\ down' = Tail(down)
  /\ got' = Append(got, Head(down))
  /\ printQ' = [i \in 1 .. Len(printQ) + 1 |-> Head(down)]
  /\ UNCHANGED <<status, h, closes, stdin, sendQ, sent, printed, server>>

(* on_read_connection with data. *)
OnReadConnection ==
  /\ Reading("conn")
  /\ down # << >>
  /\ down' = Tail(down)
  /\ got' = Append(got, Head(down))
  /\ printQ' = Append(printQ, Head(down))
  /\ UNCHANGED <<status, h, closes, stdin, sendQ, sent, printed, server>>

(* Mutant: stdin is left open when the connection ends. *)
OnConnectionEndKeepsStdin ==
  /\ Reading("conn")
  /\ peer = "shut" /\ down = << >>
  /\ h' = [h EXCEPT !["conn"] = "closing", !["stdout"] = "closing"]
  /\ closes' = [x \in Handles |-> IF x = "stdin" THEN 0 ELSE closes[x] + 1]
  /\ sendQ' = << >> /\ printQ' = << >>
  /\ UNCHANGED <<status, stdin, sent, got, printed, server, down>>

(* on_read_connection with an error: the server's end, or a reset, which   *)
(* takes what is on its way.                                               *)
OnConnectionEnd ==
  /\ Reading("conn")
  /\ \/ peer = "shut" /\ down = << >> /\ UNCHANGED down
     \/ down' = << >>
  /\ CloseAll
  /\ UNCHANGED <<status, stdin, sent, got, printed, server>>

(* on_read_stdin with data. *)
OnReadStdin ==
  /\ Reading("stdin")
  /\ stdin # << >>
  /\ stdin' = Tail(stdin)
  /\ sendQ' = Append(sendQ, Head(stdin))
  /\ UNCHANGED <<status, h, closes, sent, got, printQ, printed, server, down>>

(* on_read_stdin with an error: the end of stdin, or a failing read. *)
OnStdinEnd ==
  /\ Reading("stdin")
  /\ CloseAll
  /\ UNCHANGED <<status, stdin, sent, got, printed, server, down>>

(* The close callbacks are due; a loop without handles ends uv_run().      *)
CloseDone ==
  /\ \E x \in Handles : h[x] = "closing"
  /\ h' = [x \in Handles |-> IF h[x] = "closing" THEN "closed" ELSE h[x]]
  /\ status' = IF \A x \in Handles : h'[x] = "closed" THEN "done" ELSE status
  /\ UNCHANGED <<closes, stdin, sendQ, sent, got, printQ, printed, server, down>>

-----------------------------------------------------------------------------
(* External: the sockets, the terminal and the server. *)

FlushSend ==
  /\ status = "running" /\ sendQ # << >>
  /\ sent' = Append(sent, Head(sendQ))
  /\ sendQ' = Tail(sendQ)
  /\ UNCHANGED <<status, h, closes, stdin, got, printQ, printed, server, down>>

FlushPrint ==
  /\ status = "running" /\ printQ # << >>
  /\ printed' = Append(printed, Head(printQ))
  /\ printQ' = Tail(printQ)
  /\ UNCHANGED <<status, h, closes, stdin, sendQ, sent, got, server, down>>

(* The kernel completes connections before they are accepted.              *)
Waiting == peer = "listening" /\ status \in {"connecting", "running"}

(* on_new_connection of echo_server: accept and shut down at once, or an   *)
(* error that leaves the connection to nobody.                             *)
OnNewConnection ==
  /\ kind = "echo_server"
  /\ Waiting
  /\ peer' \in {"shut", "lost"}
  /\ UNCHANGED <<status, h, closes, stdin, sendQ, sent, got, printQ, printed, kind, answers, down>>

(* Another server accepts, answers, and closes when it likes.              *)
PeerStep ==
  /\ kind = "any"
  /\ \/ Waiting /\ peer' = "open" /\ UNCHANGED <<answers, down>>
     \/ /\ peer = "open" /\ answers # << >>
        /\ down' = Append(down, Head(answers))
        /\ answers' = Tail(answers)
        /\ UNCHANGED peer
     \/ peer = "open" /\ peer' = "shut" /\ UNCHANGED <<answers, down>>
  /\ UNCHANGED <<status, h, closes, stdin, sendQ, sent, got, printQ, printed, kind>>

Client == OnConnect \/ OnReadConnection \/ OnConnectionEnd \/ OnReadStdin \/ OnStdinEnd \/ CloseDone

Next == Client \/ FlushSend \/ FlushPrint \/ OnNewConnection \/ PeerStep

Spec == Init /\ [][Next]_vars

(* The kernel refuses or completes a connect; the loop reports the end of  *)
(* the connection and runs close callbacks.  Nothing is assumed of stdin   *)
(* or of a server of kind "any".                                           *)
FairSpec ==
  /\ Spec
  /\ WF_vars(OnConnect)
  /\ WF_vars(OnReadConnection)
  /\ WF_vars(peer = "shut" /\ OnConnectionEnd)
  /\ WF_vars(CloseDone)

-----------------------------------------------------------------------------
(* Properties. *)

TypeOK ==
  /\ status \in {"connecting", "running", "exited", "done"}
  /\ h \in [Handles -> {"none", "open", "closing", "closed"}]
  /\ status \in {"running", "done"} => \A x \in Handles : h[x] # "none"
  /\ closes \in [Handles -> Nat]
  /\ stdin \in Seq(Cell) /\ sendQ \in Seq(Cell) /\ sent \in Seq(Cell)
  /\ down \in Seq(Cell) /\ got \in Seq(Cell)
  /\ printQ \in Seq(Cell) /\ printed \in Seq(Cell)
  /\ answers \in Seq(Cell)
  /\ kind \in Kinds
  /\ peer \in {"listening", "open", "shut", "lost"}

(* The two read callbacks both close all three handles (echo_client.cpp:   *)
(* 12-14, 30-32), and uv_close() on a closing handle is a failed assertion *)
(* in libuv: whichever ends first, and if both do, each handle is closed   *)
(* once, and never one without the others.                                 *)
ClosedOnce ==
  /\ \A x \in Handles : closes[x] <= 1 /\ (closes[x] = 1 <=> h[x] \in {"closing", "closed"})
  /\ \A x, y \in Handles : closes[x] = closes[y]

(* Both directions lose and reorder nothing until the close: what was read *)
(* is what was passed on and what is pending.  The close drops what is     *)
(* pending, so that a prefix was passed on then.                           *)
PassedOn ==
  /\ closes["conn"] = 0 => printed \o printQ = got /\ sent \o sendQ \o stdin = Typed
  /\ closes["conn"] = 1 => printQ = << >> /\ sendQ = << >>
  /\ IsPrefix(printed, got) /\ IsPrefix(sent, Typed)

(* echo_server reads and writes nothing: its client has nothing to print.  *)
Wordless == kind = "echo_server" => printed = << >>

(* A connection that echo_server accepts ends the client, whatever is      *)
(* typed, and without a word printed.                                      *)
ServerEndsClient ==
  /\ kind = "echo_server" /\ peer = "shut" ~> status \in {"done", "exited"}
  /\ []Wordless
=============================================================================
