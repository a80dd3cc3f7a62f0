------------------------------ MODULE ChatServer ------------------------------
(***************************************************************************)
(* chat_server: one event loop, one Codec shared by all connections, one   *)
(* encode buffer that is never retrieved, one sendBuf per Connection.      *)
(*                                                                         *)
(* A callback runs to completion: while the loop of Codec::onMessage still *)
(* finds a whole frame (CanDecode), only Broadcast is enabled, one step for*)
(* each call of onStringMessageBack.                                       *)
(*                                                                         *)
(* External (libuv, kernel): uv_write() sends what the socket takes at     *)
(* once and keeps the rest as a reference into the caller's bytes; uv_close*)
(* drops what is pending.                                                  *)
(***************************************************************************)
EXTENDS Codec, SequencesExt

CONSTANTS
  Clients,      \* the peers that may connect
  Scripts,      \* the byte streams a peer may send
  MaxRead,      \* most bytes one read callback is given
  CodecSize,    \* initial size of the decode buffer, 8192 in Codec::Codec()
  EncodeSize,   \* initial size of the encode buffer, Buffer::kInitialSize
  SendSize      \* sizeof(sendBuf), 8192

ASSUME ChatServerAssumption ==
  /\ Clients # {}
  /\ Scripts \subseteq Seq(Byte)
  /\ MaxRead \in Nat \ {0}
  /\ CodecSize \in Nat
  /\ EncodeSize \in Nat
  /\ SendSize \in Nat
  /\ HeaderLen + kMaxMessageSize <= SendSize

VARIABLES
  status,     \* "running", "aborted" (assert), "exited" (check_uv) or "crashed"
  handle,     \* handle[c]: the uv_tcp_t of client c, "none", "open" or "closed"
  conns,      \* the vector of connections
  cbuf,       \* codec->buffer
  buf,        \* the encode buffer
  sendBuf,    \* sendBuf[c] of client c's Connection
  wq,         \* wq[c]: libuv's pending writes, parts of sendBuf[c]
  script,     \* script[c]: everything client c sends in its life
  outbox,     \* outbox[c]: the part of script[c] not yet read
  out,        \* out[c]: history, the bytes handed to client c's socket
  sent,       \* sent[c]: history, the bytes passed to Connection::send
  messages,   \* history, what the codec called back with: who had just read, what
  reader,     \* history, the client of the last read, any before the first
  mixed       \* history, a read began inside another client's frame

server == <<status, handle, conns, cbuf, buf, sendBuf, wq>>
vars == <<server, script, outbox, out, sent, messages, reader, mixed>>

Running == status = "running"

(* The loop is between two callbacks. *)
Idle == Running /\ ~CanDecode(cbuf)

-----------------------------------------------------------------------------

Init ==
  /\ status = "running"
  /\ handle = [c \in Clients |-> "none"]
  /\ conns = << >>
  /\ cbuf = NewBuffer(CodecSize)
  /\ buf = NewBuffer(EncodeSize)
  /\ sendBuf = [c \in Clients |-> [i \in 1 .. SendSize |-> 0]]
  /\ wq = [c \in Clients |-> << >>]
  /\ script \in [Clients -> Scripts]
  /\ outbox = script
  /\ out = [c \in Clients |-> << >>]
  /\ sent = [c \in Clients |-> << >>]
  /\ messages = << >>
  /\ reader = CHOOSE c \in Clients : TRUE
  /\ mixed = FALSE

(* on_connection: the Connection is in conns before uv_accept() is tried,  *)
(* and a failure of uv_accept() ends the process.                          *)
OnConnection(c) ==
  /\ Idle
  /\ handle[c] = "none"
  /\ conns' = Append(conns, c)
  /\ \/ /\ handle' = [handle EXCEPT ![c] = "open"]
        /\ UNCHANGED status
     \/ /\ status' = "exited"
        /\ UNCHANGED handle
  /\ UNCHANGED <<cbuf, buf, sendBuf, wq, script, outbox, out, sent, messages, reader, mixed>>

(* Mutant: no read while a frame is incomplete. *)
OnReadWhenDrained(c, n) ==
  /\ Idle
  /\ handle[c] = "open"
  /\ Content(cbuf) = << >>
  /\ cbuf' = append(cbuf, SubSeq(outbox[c], 1, n))
  /\ outbox' = [outbox EXCEPT ![c] = SubSeq(@, n + 1, Len(@))]
  /\ reader' = c
  /\ UNCHANGED <<status, handle, conns, buf, sendBuf, wq, script, out, sent, messages, mixed>>

(* on_read with data: append to the shared buffer; the onMessage() loop    *)
(* then goes on in Broadcast.                                              *)
OnRead(c, n) ==
  /\ Idle
  /\ handle[c] = "open"
  /\ LET data == SubSeq(outbox[c], 1, n)
     IN  IF AppendAsserts(cbuf, n)
         THEN /\ cbuf' = append(cbuf, data)
              /\ UNCHANGED status
         ELSE /\ status' = "aborted"
              /\ UNCHANGED cbuf
  /\ outbox' = [outbox EXCEPT ![c] = SubSeq(@, n + 1, Len(@))]
  /\ mixed' = (mixed \/ (Content(cbuf) # << >> /\ reader # c))
  /\ reader' = c
  /\ UNCHANGED <<handle, conns, buf, sendBuf, wq, script, out, sent, messages>>

(* Connection::~Connection: uv_close(), which cancels pending writes.      *)
CloseHandle(c) ==
  /\ handle' = [handle EXCEPT ![c] = "closed"]
  /\ wq' = [wq EXCEPT ![c] = << >>]

(* Mutant: the connection stays in the vector. *)
OnReadEofKeepsConn(c) ==
  /\ Idle
  /\ handle[c] = "open"
  /\ outbox[c] = << >>
  /\ CloseHandle(c)
  /\ UNCHANGED <<status, conns, cbuf, buf, sendBuf, script, outbox, out, sent,
                 messages, reader, mixed>>

(* on_read with UV_EOF: the Connection leaves the vector and is deleted,   *)
(* its destructor closes the handle.  A half-read frame stays in the codec.*)
OnReadEof(c) ==
  /\ Idle
  /\ handle[c] = "open"
  /\ outbox[c] = << >>
  /\ conns' = RemoveFirst(conns, c)
  /\ CloseHandle(c)
  /\ UNCHANGED <<status, cbuf, buf, sendBuf, script, outbox, out, sent,
                 messages, reader, mixed>>

(* on_read with any other error logs it and falls through to on_uv_read    *)
(* with a negative nread: append(base, (size_t)nread) resizes to a wrapped *)
(* or impossible size and copies a range that ends before it starts.       *)
OnReadError(c) ==
  /\ Idle
  /\ handle[c] = "open"
  /\ status' = "crashed"
  /\ UNCHANGED <<handle, conns, cbuf, buf, sendBuf, wq, script, outbox, out, sent,
                 messages, reader, mixed>>

-----------------------------------------------------------------------------
(* Mutant: the encode buffer is emptied before each message. *)
EncodeFresh(b, msg) == encode(retrieveAll(b), msg)

(* codec->encode(&buf, msg.c_str()). *)
EncodeBack(b, msg) == encode(b, msg)

(* Connection::send to the connections `to`: data is copied over sendBuf.  *)
CopyToAll(to, data) ==
  [c \in Clients |-> IF c \in to THEN CopyTo(sendBuf[c], 0, data) ELSE sendBuf[c]]

(* Each connection is sent `data`; now[c] bytes of it are taken by the     *)
(* socket inside uv_write(), none if earlier writes are pending.           *)
SendToAll(data) ==
  LET to == ToSet(conns)
  IN  /\ sendBuf' = CopyToAll(to, data)
      /\ sent' = [c \in Clients |-> IF c \in to THEN sent[c] \o data ELSE sent[c]]
      /\ \E now \in [to -> 0 .. Len(data)] :
           /\ \A c \in to : wq[c] # << >> => now[c] = 0
           /\ out' = [c \in Clients |->
                IF c \in to THEN out[c] \o SubSeq(data, 1, now[c]) ELSE out[c]]
           /\ wq' = [c \in Clients |->
                IF c \in to /\ now[c] < Len(data)
                THEN Append(wq[c], [first |-> now[c] + 1, last |-> Len(data)])
                ELSE wq[c]]

(* One round of the onMessage() loop and its onStringMessageBack(): decode,*)
(* encode behind everything encoded before, and send every connection the  *)
(* first `size` bytes of the encode buffer.                                *)
Broadcast ==
  /\ Running
  /\ CanDecode(cbuf)
  /\ \E text \in {CString(Message(cbuf))} : \E newB \in {EncodeBack(buf, text)} :
     LET size == HeaderLen + Len(text)
     IN  IF EncodeAsserts(buf, text)
         THEN /\ buf' = newB
              /\ SendToAll(SubSeq(Content(newB), 1, size))
              /\ UNCHANGED status
         ELSE /\ status' = "aborted"
              /\ UNCHANGED <<buf, sendBuf, sent, out, wq>>
  /\ cbuf' = Decode(cbuf)
  /\ messages' = Append(messages, [from |-> reader, msg |-> Message(cbuf)])
  /\ UNCHANGED <<handle, conns, script, outbox, reader, mixed>>

(* External: the socket takes n more bytes of the oldest pending write.    *)
Flush(c, n) ==
  /\ Idle
  /\ wq[c] # << >>
  /\ LET w == Head(wq[c])
     IN  /\ n \in 1 .. w.last - w.first + 1
         /\ out' = [out EXCEPT ![c] =
              @ \o SubSeq(sendBuf[c], w.first, w.first + n - 1)]
         /\ wq' = [wq EXCEPT ![c] =
              IF w.first + n > w.last THEN Tail(@)
              ELSE <<[w EXCEPT !.first = @ + n]>> \o Tail(@)]
  /\ UNCHANGED <<status, handle, conns, cbuf, buf, sendBuf, script, outbox, sent,
                 messages, reader, mixed>>

Next ==
  \/ \E c \in Clients : OnConnection(c)
  \/ \E c \in Clients : \E n \in 1 .. MaxRead : n <= Len(outbox[c]) /\ OnRead(c, n)
  \/ \E c \in Clients : OnReadEof(c)
  \/ \E c \in Clients : OnReadError(c)
  \/ Broadcast
  \/ \E c \in Clients : \E n \in 1 .. SendSize : Flush(c, n)

Spec == Init /\ [][Next]_vars

(* The loop polls every readable socket and every socket with room for     *)
(* pending writes, and peers keep reading what they are sent: the process  *)
(* does not stand still while it has work.  All of it is finite, so it     *)
(* need not be said of each client.                                        *)
Work ==
  \/ Broadcast
  \/ \E c \in Clients : \E n \in 1 .. MaxRead : n <= Len(outbox[c]) /\ OnRead(c, n)
  \/ \E c \in Clients : \E n \in 1 .. SendSize : Flush(c, n)

FairSpec == Spec /\ WF_vars(Work)

-----------------------------------------------------------------------------
(* Properties. *)

Part == [first : 1 .. SendSize, last : 1 .. SendSize]

TypeOK ==
  /\ status \in {"running", "aborted", "exited", "crashed"}
  /\ handle \in [Clients -> {"none", "open", "closed"}]
  /\ conns \in Seq(Clients)
  /\ cbuf \in BufferType
  /\ buf \in BufferType
  /\ sendBuf \in [Clients -> [1 .. SendSize -> Byte]]
  /\ wq \in [Clients -> Seq(Part)]
  /\ script \in [Clients -> Seq(Byte)]
  /\ outbox \in [Clients -> Seq(Byte)]
  /\ out \in [Clients -> Seq(Byte)]
  /\ sent \in [Clients -> Seq(Byte)]
  /\ messages \in Seq([from : Clients, msg : Seq(Byte)])
  /\ reader \in Clients
  /\ mixed \in BOOLEAN

(* conns holds each open connection exactly once and no deleted one, so the*)
(* broadcast loop of onStringMessageBack never touches a freed Connection, *)
(* and libuv never holds a write into the sendBuf of a deleted one.        *)
ConnsMatchHandles ==
  /\ Running => ToSet(conns) = {c \in Clients : handle[c] = "open"}
  /\ \A i, j \in DOMAIN conns : conns[i] = conns[j] => i = j
  /\ \A c \in Clients : wq[c] # << >> => handle[c] = "open"

(* Connection::send() overwrites sendBuf while earlier writes may still be *)
(* pending from it.  The bytes that reach a peer are nevertheless those it *)
(* was asked to be sent: each send repeats a prefix of the one encode      *)
(* buffer, which only grows.                                               *)
SendsIntact ==
  \A c \in Clients : handle[c] = "open" =>
    LET pending == FlattenSeq([i \in DOMAIN wq[c] |->
                     SubSeq(sendBuf[c], wq[c][i].first, wq[c][i].last)])
    IN  out[c] \o pending = sent[c]

(* The messages a peer's own bytes stand for: every complete frame up to   *)
(* the first oversized length.                                             *)
FramesOf(s) ==
  LET rest[i \in 1 .. Len(s) + 1] ==
        IF i + HeaderLen - 1 > Len(s) THEN << >>
        ELSE LET len  == ntohl(SubSeq(s, i, i + HeaderLen - 1))
                 next == i + HeaderLen + len
             IN  IF len > kMaxMessageSize \/ next > Len(s) + 1 THEN << >>
                 ELSE <<SubSeq(s, i + HeaderLen, next - 1)>> \o rest[next]
  IN  rest[1]

(* What the codec called back with for the bytes of client c.              *)
MessagesOf(c) ==
  FlattenSeq([i \in DOMAIN messages |->
    IF messages[i].from = c THEN <<messages[i].msg>> ELSE << >>])

(* got is all that the bytes s stand for, whole, in order and once, however*)
(* s was split into reads; only a lone empty frame waits for another byte  *)
(* (readableBytes() > kHeaderLen).                                         *)
Decoded(got, s) ==
  LET frames == FramesOf(s)
  IN  got \in {frames} \cup
        (IF frames # << >> /\ Last(frames) = << >> THEN {Front(frames)} ELSE {})

(* As long as no read begins inside another client's frame, each client's  *)
(* messages are delivered under its name with the read that completes them,*)
(* none lost, doubled, cut or swapped.  (The codec is shared: once frames  *)
(* of two clients interleave, this fails for good.)                        *)
InOrder ==
  Idle /\ ~mixed =>
    \A c \in Clients :
      Decoded(MessagesOf(c), SubSeq(script[c], 1, Len(script[c]) - Len(outbox[c])))

(* The decoding side implements FrameCodec: in particular an oversized     *)
(* length is never taken out of the shared buffer, so after one of them no *)
(* client's message is ever delivered again.                               *)
Delivered == [i \in DOMAIN messages |-> messages[i].msg]

Frames == INSTANCE FrameCodec
            WITH stream <- Content(cbuf), messages <- Delivered, stopped <- ~Running

FrameCodecSpec == Frames!Spec

(* Connected clients are served, also next to one that has stopped in the  *)
(* middle of a frame: in the end all they send is read and all they are    *)
(* sent is written, unless the process ends.                               *)
EveryClientServed ==
  []<>(\/ ~Running
       \/ Idle /\ \A c \in Clients : handle[c] = "open" => outbox[c] = << >> /\ wq[c] = << >>)
=============================================================================
