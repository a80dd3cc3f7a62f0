------------------------------ MODULE ChatClient ------------------------------
(***************************************************************************)
(* chat_client talking to chat_server: the composition of the two programs.*)
(* The peer `me` of ChatServer runs chat/ChatClient.cpp, every other peer  *)
(* sends a fixed script.  The client has one event loop over stdin and one *)
(* TCP connection, one Codec, one encode buffer that is never retrieved    *)
(* and one static sendBuf.                                                 *)
(*                                                                         *)
(* The sockets join the two: what the client flushes is appended to        *)
(* outbox[me], what the server hands to its socket is out[me], of which    *)
(* the client has read the first client.taken bytes.  A failed process     *)
(* closes its sockets (external, kernel).                                  *)
(***************************************************************************)
EXTENDS ChatServer

CONSTANTS
  me,          \* the peer that is a chat_client
  Typed,       \* what the user may type: sequences of chunks read from stdin
  Junk,        \* what may follow the chunk in the uninitialised read buffer
  ClientBuf,   \* sizeof(sendBuf), 1024
  MaxTexts     \* bound: calls of sendRawContent()

ASSUME ChatClientAssumption ==
  /\ me \in Clients
  /\ Junk \subseteq Seq(Byte)
  /\ \A typed \in Typed : typed \in Seq(Seq(Byte))
  /\ ClientBuf \in Nat /\ MaxTexts \in Nat
  /\ ClientBuf <= Width

VARIABLE client

sessionVars == <<vars, client>>

ClientRunning == client.loop = "running"
ClientGone    == client.loop \notin {"connecting", "running"}
ClientIdle    == ClientRunning /\ ~CanDecode(client.codec)

ClientInit ==
  \E typed \in Typed :
    client = [loop    |-> "connecting",
              stdin   |-> "none",      \* "none", "reading", "stopped" or "closed"
              tcp     |-> "none",      \* "none", "reading", "ended" or "failed"
              lines   |-> typed,       \* not yet read from stdin
              buffer  |-> NewBuffer(EncodeSize),
              sendBuf |-> [i \in 1 .. ClientBuf |-> 0],
              writes  |-> << >>,       \* libuv's pending writes, parts of sendBuf
              codec   |-> NewBuffer(CodecSize),
              taken   |-> 0,           \* bytes of out[me] read
              printed |-> << >>,       \* history: what onStringMessage was called with
              texts   |-> << >>]       \* history: what codec.encode was given

-----------------------------------------------------------------------------
(* Callbacks of the client. *)

(* on_connected: on an error nothing is left in the loop; opening stdin or *)
(* starting to read may fail, which ends the process.                      *)
OnConnected ==
  /\ client.loop = "connecting"
  /\ client' \in { [client EXCEPT !.loop = "running", !.stdin = "reading", !.tcp = "reading"],
                   [client EXCEPT !.loop = "exited"] }

OnConnectError ==
  /\ client.loop = "connecting"
  /\ handle[me] = "none"
  /\ client' = [client EXCEPT !.loop = "done"]

(* encode(&buffer, text) and sendRawContent(buffer.peek(), len, ...): the  *)
(* first len bytes ever encoded are copied over sendBuf.  A len beyond     *)
(* sizeof(sendBuf) overruns it, well before the decoder would refuse it.   *)
SendRawContent(cl, text) ==
  LET newB == EncodeBack(cl.buffer, text)
      len  == HeaderLen + Len(text)
  IN  IF ~EncodeAsserts(cl.buffer, text) THEN [cl EXCEPT !.loop = "aborted"]
      ELSE IF len > ClientBuf THEN [cl EXCEPT !.loop = "undefined"]
      ELSE [cl EXCEPT !.buffer  = newB,
                      !.sendBuf = CopyTo(@, 0, SubSeq(Content(newB), 1, len)),
                      !.writes  = Append(@, [first |-> 1, last |-> len]),
                      !.texts   = Append(@, text)]

CanSend == client.stdin = "reading" /\ Len(client.texts) < MaxTexts

(* on_read_stdin: the text ends at the first NUL, not after nread bytes.   *)
OnReadStdin ==
  /\ ClientIdle /\ CanSend
  /\ client.lines # << >>
  /\ \E junk \in Junk :
       client' = SendRawContent([client EXCEPT !.lines = Tail(@)],
                                CString(Head(client.lines) \o junk))

(* on_read_stdin, nread = 0 or an error that is not UV_EOF: both fall      *)
(* through to the send, of a buffer nothing was read into.                 *)
OnReadStdinNothing ==
  /\ ClientIdle /\ CanSend
  /\ \E junk \in Junk, stdin \in {"reading", "stopped"} :
       client' = SendRawContent([client EXCEPT !.stdin = stdin], CString(junk))

OnStdinEof ==
  /\ ClientIdle
  /\ client.stdin = "reading"
  /\ client.lines = << >>
  /\ client' = [client EXCEPT !.stdin = "stopped"]

(* on_read_tcp with data: codec.on_uv_read(), whose loop goes on in        *)
(* OnStringMessage.                                                        *)
OnReadTcp ==
  /\ ClientIdle
  /\ client.tcp = "reading"
  /\ \E n \in 1 .. MaxRead :
       /\ client.taken + n <= Len(out[me])
       /\ client' =
            IF AppendAsserts(client.codec, n)
            THEN [client EXCEPT
                    !.codec = append(@, SubSeq(out[me], client.taken + 1, client.taken + n)),
                    !.taken = @ + n]
            ELSE [client EXCEPT !.loop = "aborted"]

OnStringMessage ==
  /\ ClientRunning
  /\ CanDecode(client.codec)
  /\ client' = [client EXCEPT !.codec = Decode(@), !.printed = Append(@, Message(client.codec))]

(* Mutant: the end of the connection leaves stdin open. *)
OnTcpEofKeepsStdin ==
  /\ ClientIdle
  /\ client.tcp = "reading"
  /\ ~Running /\ client.taken = Len(out[me])
  /\ client' = [client EXCEPT !.tcp = "ended"]

(* on_read_tcp with UV_EOF closes stdin, so nothing more is typed.         *)
OnTcpEof ==
  /\ ClientIdle
  /\ client.tcp = "reading"
  /\ ~Running /\ client.taken = Len(out[me])
  /\ client' = [client EXCEPT !.tcp = "ended", !.stdin = "closed"]

(* on_read_tcp with another error only logs it: stdin stays open.          *)
OnTcpError ==
  /\ ClientIdle
  /\ client.tcp = "reading"
  /\ ~Running
  /\ client' = [client EXCEPT !.tcp = "failed"]

(* uv_run() returns when no handle and no request is active.               *)
LoopEnds ==
  /\ ClientIdle
  /\ client.stdin # "reading" /\ client.tcp # "reading" /\ client.writes = << >>
  /\ client' = [client EXCEPT !.loop = "done"]

(* External: the socket takes n more bytes of the oldest pending write.    *)
(* That uv_write() may take some at once is this step right after the send.*)
FlushToServer(n) ==
  /\ ClientIdle /\ Running
  /\ client.writes # << >>
  /\ LET w     == Head(client.writes)
         bytes == SubSeq(client.sendBuf, w.first, w.first + n - 1)
     IN  /\ n <= w.last - w.first + 1
         /\ client' = [client EXCEPT !.writes =
              IF w.first + n > w.last THEN Tail(@)
              ELSE <<[w EXCEPT !.first = @ + n]>> \o Tail(@)]
         /\ outbox' = [outbox EXCEPT ![me] = @ \o bytes]
         /\ script' = [script EXCEPT ![me] = @ \o bytes]

(* on_write_end, once the server is gone: the write is over, in success or *)
(* in failure; both only print.                                            *)
OnWriteEnd ==
  /\ ClientIdle /\ ~Running
  /\ client.writes # << >>
  /\ client' = [client EXCEPT !.writes = Tail(@)]

-----------------------------------------------------------------------------
(* The session. *)

SessionInit ==
  /\ Init
  /\ script[me] = << >>
  /\ ClientInit

LocalStep ==
  \/ OnConnected
  \/ OnConnectError
  \/ OnReadStdin
  \/ OnReadStdinNothing
  \/ OnStdinEof
  \/ OnReadTcp
  \/ OnStringMessage
  \/ OnTcpEof
  \/ OnTcpError
  \/ LoopEnds
  \/ OnWriteEnd

(* The client's socket ends when its process does, and with an error if    *)
(* the process left something unread; the server accepts it only if the    *)
(* connect succeeded.                                                      *)
PeerAllows(c) == c = me => ClientGone

ServerStep ==
  \/ \E c \in Clients : (c = me => client.loop # "done") /\ OnConnection(c)
  \/ \E c \in Clients : \E n \in 1 .. MaxRead : n <= Len(outbox[c]) /\ OnRead(c, n)
  \/ \E c \in Clients : PeerAllows(c) /\ OnReadEof(c)
  \/ \E c \in Clients : PeerAllows(c) /\ OnReadError(c)
  \/ Broadcast
  \/ \E c \in Clients : \E n \in 1 .. SendSize : Flush(c, n)

FlushStep ==
  /\ \E n \in 1 .. ClientBuf : FlushToServer(n)
  /\ UNCHANGED <<server, out, sent, messages, reader, mixed>>

SessionNext ==
  \/ LocalStep /\ UNCHANGED vars
  \/ FlushStep
  \/ ServerStep /\ UNCHANGED client

SessionSpec == SessionInit /\ [][SessionNext]_sessionVars

(* Work that is waiting for a process: neither loop stands still while it  *)
(* has some.  The user owes nothing.                                       *)
ServerWork == (OnConnection(me) \/ Work) /\ UNCHANGED client

ClientWork ==
  \/ /\ \/ OnConnected \/ OnReadTcp \/ OnStringMessage \/ OnTcpEof
        \/ OnWriteEnd \/ LoopEnds
     /\ UNCHANGED vars
  \/ FlushStep

FairSession ==
  SessionSpec /\ WF_sessionVars(ServerWork) /\ WF_sessionVars(ClientWork)

-----------------------------------------------------------------------------
(* Properties. *)

ClientTypeOK ==
  /\ TypeOK
  /\ client.loop \in {"connecting", "running", "done", "exited", "aborted", "undefined"}
  /\ client.stdin \in {"none", "reading", "stopped", "closed"}
  /\ client.tcp \in {"none", "reading", "ended", "failed"}
  /\ client.buffer \in BufferType /\ client.codec \in BufferType
  /\ client.sendBuf \in [1 .. ClientBuf -> Byte]
  /\ client.taken \in 0 .. Len(out[me])
  /\ client.printed \in Seq(Seq(Byte)) /\ client.texts \in Seq(Seq(Byte))

(* What the calls of sendRawContent() ask for: each time a prefix of all   *)
(* that was ever encoded.                                                  *)
Requested ==
  LET history == FlattenSeq([i \in DOMAIN client.texts |->
                   htonl(Len(client.texts[i])) \o client.texts[i]])
  IN  FlattenSeq([i \in DOMAIN client.texts |->
        SubSeq(history, 1, HeaderLen + Len(client.texts[i]))])

(* sendBuf is overwritten by the next line while writes of earlier lines   *)
(* are pending from it; still no byte on the wire is torn, for the same    *)
(* prefix is copied each time.                                             *)
WireIntact ==
  LET pending == FlattenSeq([i \in DOMAIN client.writes |->
                   SubSeq(client.sendBuf, client.writes[i].first, client.writes[i].last)])
  IN  Running /\ ~ClientGone => script[me] \o pending = Requested

(* What the client prints is what the bytes it has read stand for: with    *)
(* each read of on_read_tcp() every line that it completes, whatever came  *)
(* in one read, and a broadcast that was split is never printed in parts.  *)
PrintedInOrder ==
  ClientIdle => Decoded(client.printed, SubSeq(out[me], 1, client.taken))

SameLength == \A i \in DOMAIN client.texts : Len(client.texts[i]) = Len(client.texts[1])
Deliverable == \A i \in DOMAIN client.texts : Len(client.texts[i]) \in 1 .. kMaxMessageSize

(* The first line typed is the one everybody hears: while the client is    *)
(* the only one to have spoken and its lines have one length, whatever it  *)
(* types, each message of the server and each line it prints is its first. *)
FirstLineEchoes ==
  SameLength /\ (\A i \in DOMAIN messages : messages[i].from = me) /\ ~mixed =>
    /\ \A i \in DOMAIN messages : messages[i].msg = client.texts[1]
    /\ \A i \in DOMAIN client.printed : client.printed[i] = client.texts[1]

(* As many lines come back to the client as it has sent, through both      *)
(* decoders and both send buffers, unless a process ends, another client's *)
(* bytes are mixed in, or the lines differ in length (the frames sent are  *)
(* then cut in the wrong places).  An empty line waits for the next one.   *)
LinesComeBack ==
  Len(client.printed) < Len(client.texts)
    ~> \/ Len(client.printed) >= Len(client.texts)
       \/ ~Running \/ ~ClientRunning \/ mixed \/ ~SameLength \/ ~Deliverable

(* The server's end takes the client with it, even when lines are still    *)
(* being typed; only an error on the connection leaves it reading stdin.   *)
EndsWithServer ==
  ClientRunning /\ client.tcp = "ended" ~> client.loop = "done"
=============================================================================
