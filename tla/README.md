# A verification development for learnuv

`learnuv` is a collection of small network programs built on libuv, and a small
library they share: a growable byte buffer, a framing codec, logging. All
but two programs (the thread-per-connection server and the Go ping-pong) are
single threaded and event driven: `main()` registers callbacks and
calls `uv_run()`, and from then on a program is the set of its callbacks,
run one at a time by the loop. What makes them hard to test is that the loop
picks the order: how the bytes a peer sent are cut into reads, how much of a
write a socket takes at once, which connection is served next, when a thread of
libuv's pool finishes a file read, and which request fails.

## The system

| part | source | state it keeps | operations | modelled in |
|---|---|---|---|---|
| Buffer | `common/buffer/Buffer.{h,cpp}` | a vector and two indices into it | append, retrieve*, read/write/peekUInt32, swap, makeSpace | `BufferOps`, `Buffer` |
| Codec | `chat/Codec.{h,cpp}`, `chat/Callbacks.h` | one Buffer of undecoded input | on_uv_read, onMessage, encode | `Codec` |
| ChatServer | `chat/ChatServer.cpp`, `chat/connection.h` | the vector `conns`, one codec and one encode buffer for all connections, one `sendBuf` per connection | on_connection, on_read, onStringMessageBack (broadcast) | `ChatServer` |
| Socks tunnel | `socks/socks_server.cpp`, `socks/defs.h` | per client a `Tunnel`: status, two handles, two data buffers, one write request | on_new_client_connection, on_client_read, on_server_connect, on_server_read | `SocksTunnel` |
| File transfer | `simple/filetransfer.cpp` | a context per client, one global `buffer` | open, read, write, shutdown, fs_close, tcp_close callbacks | `FileTransfer` |
| Ping-pong | `pingpong/client.cc`, `pingpong/server.cc` | sessions with a byte count, a timer, `counter`; the server's one `msgBuf` | onConnect, onReadData, onTimeout, disconnect; on_read_client | `PingPong`, `PongBuffer` |
| Echo | `echo/echo_client.cpp`, `echo/echo_server.cpp` | three handles of the client; one handle per connection at the server | on_connect, on_read_connection, on_read_stdin; on_new_connection | `Echo` |
| ChatClient | `chat/ChatClient.cpp` | stdin pipe, socket, codec, `sendBuf`, encode buffer | on_connected, on_read_stdin, on_read_tcp, onStringMessage | `ChatClient` |
| Chargen | `simple/chargen.cpp` | per client statistics, the total, a timer | on_new_connection, on_write_end, on_timeout | `Chargen` |
| Thread-per-connection server | `multi_thread_tcp_server_exp/` | `globalBuf`; a loop and a thread per client, joined in the accept callback | on_new_connection, the thread's read callback | `ThreadServer` |
| Logging | `common/log/*` | the FixedBuffer of a Logger | append, `<<`, finish, output | `LogLine` |
| Time | `common/time/*` | a microsecond count | now, formatting | not modelled |
| File reading | `fs/*` | descriptor and count, in five programs | open, the read loop | `FileReaders` |
| Go ping-pong | `pingpong/go_pingpong/*` | goroutines, `totalWrites`, a WaitGroup | dial, read and write loops, timers | `GoPingPong` |
| Protobuf codec | `codec_test/*` | none (pure) | encode, createMessage | `ProtobufFrame`; `query.pb.*` is generated |
| Utilities, demo | `common/util.*`, `main.c`, `pingpong/bench.cc` | none | check_uv, safe_malloc | folded into the callers |

The parts interact through the library and through sockets. `ChatServer` and
`ChatClient` share `Codec`, which is built on `Buffer`; `Codec` calls back into
the server (`onStringMessageBack`), which calls `Connection::send`. A client and
a server program interact over TCP only; `ChatClient`, `Echo`, `PingPong` and
`GoPingPong` have both ends in one module. `check_uv()` (`common/util.h:12-19`)
ends the whole process on an error code, `assert()` is active (CMake sets no
build type): in a server either takes every other connection with it, so every
module has the fate of the process as a variable.

## Modules

| module | what it is |
|---|---|
| `BufferOps` | the methods of `Buffer` as operators on a record (store, readerIndex, writerIndex), with the assertions as separate predicates |
| `Buffer` | any number of Buffers under any sequence of calls; `aborted` is a failed assertion |
| `ByteQueue` | what a Buffer promises: a lossless FIFO of bytes, and nothing after an abort |
| `BufferOps_proofs` | lemmas about the operators of `BufferOps`, and the induction over numbers that the recursive functions need |
| `Buffer_proofs`, `SocksTunnel_proofs`, `FileTransfer_proofs`, `PingPong_proofs`, `Echo_proofs`, `Programs_proofs` | theorems about the module of that name, proved with TLAPS |
| `Chat_proofs` | theorems about `ChatServer`, and about its composition with `ChatClient` |
| `Codec` | `onMessage` and `encode` as operators over `BufferOps` |
| `FrameCodec` | what a decoder promises: a byte stream is cut into messages by length headers, or wedges for ever at a header that is too large |
| `ChatServer` | the server: clients, reads, the shared codec, the broadcast, sends and their pending data |
| `SocksTunnel` | every tunnel with the two sockets it joins |
| `FileTransfer` | every transfer with its requests, the global buffer and the threads that fill it |
| `PingPong` | the benchmark client, its sessions and timer, and the server |
| `Echo` | the echo client and the server it connects to |
| `ChatClient` | the chat client, composed with `ChatServer` over the two sockets |
| `Chargen`, `ThreadServer`, `GoPingPong`, `FileReaders`, `PongBuffer`, `LogLine`, `ProtobufFrame` | one small program or library each, as one variable with `Init`, `Next` and properties |
| `Programs` | these seven as one specification: a behaviour is one of them, chosen at the start |
| `MC*` | instances for TLC |

### Conventions

* One callback is one action, with all it does: the loop runs it to its end.
  The one callback that is several steps is `on_read` of the chat server, whose
  loop delivers any number of messages: between its steps no other action is
  enabled.
  A step of libuv or the kernel between callbacks (a socket takes more of a
  pending write, a pool thread stores a cell) is an action of its own, marked
  *External*.
* Data are cells. A *cell* stands for any number of bytes that are read and
  written together; byte-exact are only `Buffer` and `Codec`, where a byte is
  `0 .. Radix-1` and an integer has `HeaderLen` of them (256 and 4 in the code).
* A write that a socket does not take at once stays pending as a *reference* to
  the caller's memory, because `uv_write()` keeps pointers and copies nothing.
  What is finally sent is what is in that memory then. This is where the shared
  buffers of these programs show.
* `fate` (or `status`, `aborted`) says how the process ended: `exited` through
  `check_uv()`, `aborted` through `assert()`, `undefined`/`crashed` where C++
  gives no meaning to what the code does. After that nothing is said.
* Operators and actions that a run's mutants use stand before the definition
  they alter and are marked *Mutant*. They are no part of the model.

### Buffer

`BufferOps` keeps the names of the class. `Grow` and `Compact` are the two
branches of `makeSpace()` (`Buffer.h:104-117`). In the second one the code
clears `readerIndex_` before it computes `writerIndex_ = readerIndex_ +
(writerIndex_ - readerIndex_)`, so `writerIndex_` does not move and the
assertion behind it fails; `Compact` says so and `append` is a failed assertion
whenever it compacts. `writeUInt32` is an append of four bytes, `readUInt32` a
peek and a retrieve, `htonl`/`ntohl` are big-endian on `HeaderLen` digits.

### Codec and ChatServer

There is one codec for all connections (`ChatServer.cpp:13`), so two clients
whose frames are split interleave in it. `OnRead(c)` is `on_read` with n bytes:
append to the codec's buffer, and while a frame is complete decode it and
broadcast it; every broadcast encodes into `buf` and sends from `buf.peek()`
without retrieving anything (`ChatServer.cpp:55-62`; `SendToAll` is the loop over
`conns`), so each broadcast sends as many bytes as the new frame has, but from
the beginning of everything ever encoded. `OnReadEof` erases and
deletes the connection; `OnReadError` falls through into the codec with a
negative length (line 31 to 37) and ends the process.
`Connection::send` copies into the connection's one `sendBuf`
(`connection.h:21-26`) while earlier writes may still refer to it.

### SocksTunnel

Each `Tunnel` is a record; the comments of `TunnelType` say what stands for
what. Reads of the client are `OnClientRead`, split as the code is: a request
(`OnRequest`), data for a connected server (`OnForward`), data while the
connection is being set up (a copy to an offset nothing ever set), and data
before any request (ignored).

`client_write_req` is one struct for every write of a tunnel. libuv keeps it
linked until `on_client_write_end` has run, also when the socket took everything at
once: `write` is `queued` while a part of it is in a queue, `done` until its
callback has run, and then `free`. A write that is taken at once has its
callback before the loop polls again, but after a read that filled the buffer
`uv__read()` calls `on_client_read` once more without polling (`clientFull`), with more
data or with `nread = 0`, which looks at the old bytes again. `Polling` keeps
everything else out until then. So the request is reused in two cases, a slow server
and a full read, and either is undefined (`fate = "request reuse"`).
The status in `on_client_write_end` is not looked at: what is pending on a socket that
breaks (`Reset`, or an error that a read reports) is lost, which `Break` says.

`HandleSize` is the distance by which `alloc_buffer_server` misses its buffer
(`CONTAINER_OF` with the wrong field, line 47). It is never 0 in the code, and is 1 in
the runs. Of what that function hands out the first `Inside` cells are in the
Tunnel; the rest is memory of something else. A read that reaches it is undefined,
and a relay of the whole buffer shows `?` there, any value at every look (`Shown`).

Left out: `uv__read()` stops after 32 reads and `uv__io_poll()` polls again after
1024 events, which let a callback come a little sooner or later.

### FileTransfer

`uv_fs_read()` runs on a pool thread and fills the global `buffer` for whichever
connection asked; `PoolRead` is one cell of it. `OnRead` copies to `tBuf`, which
is on the stack of the callback, so a write that is not taken at once sends
`JUNK`. At a full read the terminating NUL is stored one past the end of `tBuf`
(line 86): the model allows both a crash and no consequence.

### Echo

The client is three handles that `on_connect` joins. `OnReadConnection` and
`OnReadStdin` queue what was read on the other side; `OnConnectionEnd` and
`OnStdinEnd` are the two error branches, both `CloseAll`. Each read has a buffer
of its own (`common_alloc_buffer`), so here a pending write is its data, not a
reference. `OnNewConnection` is `echo_server`, which accepts and shuts down and
does nothing else with the connection (its `on_data` is registered nowhere);
`PeerStep` is any other server.

### PingPong

A session is a record of byte counts: what each end was asked to write, what is
pending, on its way and read. `OnReadData` writes the whole read buffer back
(`client.cc:86`). `OnTimeout` shuts every session down and prints the total;
`check_uv(uv_shutdown(..))` on a session that is closed already ends the process
first. What happens to a write after `uv_shutdown()` depends on the version of
libuv, so `Write` allows each of queueing, failing and ending the process. `Reset`
breaks a connection; what is pending then is lost piece by piece (`LoseUp`, `LoseDown`:
`common_on_write_end` prints the error and keeps the handle) until a read reports the
error. `MaxWritten` bounds the model, not the program: a session that has reached
it with something left to read answers no more, and `Ends` says nothing of it. The code answers every
read, also while a shutdown waits for the queue to drain, and nothing makes
that stop.

### ChatClient

`ChatClient` extends `ChatServer`: the peer `me` is no script but
`chat/ChatClient.cpp`. What its `FlushToServer` puts on the wire is what
`ChatServer` reads from that peer, and of the server's `out[me]` it has read
`client.taken` bytes. `SendRawContent` is `codec.encode(&buffer, ..)` and
`sendRawContent(buffer.peek(), ..)` together: the text is appended to a buffer
from which nothing is ever retrieved, and as many bytes as the new frame has are
copied from the *beginning* of that buffer over the one `sendBuf`, to which
earlier writes may still refer. `OnReadStdin` takes the read buffer for a C
string (line 87): it adds what uninitialised memory holds behind the chunk
(`Junk`) and cuts at the first NUL. `OnReadStdinNothing` is the fall-through of
`nread = 0` and of an error. `OnTcpEof` closes stdin, `OnTcpError` does not, and
`OnStdinEof` closes nothing. A line longer than `sendBuf` is undefined behaviour.
`FirstLineEchoes` and `LinesComeBack` say what a user sees of both encode
buffers: the first line, once for each line typed. `PrintedInOrder` is the client's
counterpart of the server's `InOrder` (both are `Decoded`): whatever pieces the
broadcasts arrive in, what is printed between two callbacks is every message in the
bytes read so far, whole, in order and once.

### The small programs

* `Chargen`: `OnWriteError` is the error branch of `on_write_end`, which does
  not return: it prints, frees the statistics, closes the handle, then adds to the
  freed statistics (a crash or no consequence) and to the total, and writes to
  the closing handle, which libuv refuses. `OnNewConnection` may end the process,
  since `getpeername()` of a client that has left is under `check_uv()`. What a
  socket took (`taken`) may not have reached the client yet, or never (`got`): the rate
  that is printed is of the first, and the author's note above it (`chargen.cpp:29`)
  asks why it is not accurate.
  The bytes are always the same message, so only counts are kept.
* `ThreadServer`: cells carry their sender, because every answer is the whole
  of `globalBuf` and its rest is what others left there. `joining` is the
  accept callback waiting in `join()`.
* `GoPingPong`: an addition to `totalWrites` is `Load` and `Store`, which other
  goroutines may come between. `UseNil` is the panic of a goroutine that goes on
  after a failed `Dial`. `WriteBlock` and `ReaderEnds` allow the partial write
  that `conn.Close()` may cut off.
* `FileReaders`: one action per program (`UvRead`, `SyncRead`, `SystemRead`,
  `GoRead`, `JsRead`), each what that program does with one result of a read.
  They differ in what an error does to the count, and in its type: `SizeT` values
  of a `size_t`, or an `int` that wraps behind `IntMax`.
* `PongBuffer`: the contents `PingPong` leaves out. A pending pong is a part of
  `msgBuf`, with what is there when the socket takes it.
* `LogLine`: pieces of a statement with their lengths. `Fits` is the guard of
  `FixedBuffer::append()`, which is strict, and of the numeric conversions, which ask
  for 32 bytes; `convert` is the digit loop with the remainder C++ gives. Which
  statements are printed at all (`Logged`), the length of the time (`formatTime`: 26
  characters or 7, since `sprintf()` is given its own target as an argument) and the
  part of the path that is printed (`basename`) are as in `Logging.cpp` and `Logging.h`.
* `ProtobufFrame`: `encode()` and a reading of its layout with `adler32`.

`Programs` gives all of them the variable `state` and guards the properties with
the program they are about (`IfOf`). They share nothing; together they take one
run. A property of `Programs` is a conjunction of named parts, which stand with
their reasons in the module of the program.

## Runs

Every run has deadlock checking off, because every one of these programs may
really stop: a server waits for ever once all peers are silent, a client ends,
and a process that was aborted takes no step.

| run | question | instance |
|---|---|---|
| `buffer` | Do the indices stay ordered, does `append()` abort exactly where compaction runs, and is a Buffer a FIFO? | two Buffers (for `swap`), bytes 0 and 1, integers of two digits, initial size 2, sizes to 4 |
| `buffer_assert` | Does `makeSpace()` keep what its assertion says? No. | the same with one Buffer |
| `chat_server` | Do `conns` and handles agree, do peers get the bytes that were meant for them, are messages found with their last byte and in order? Does the decoder implement `FrameCodec`, where an oversized length is final? Is every client that stays served? | two clients, each with one of three byte streams: a message; an empty one and one that is a NUL; an oversized length with more behind it. Headers have two bytes and are cut by reads too |
| `chat` | What does `sendBuf` put on the wire, do lines come back, and as what, does the client print each message it is sent, and does it end with the server? | one chat client and one script peer, up to two calls of `sendRawContent()`, with and without junk |
| `socks_tunnel` | Does a tunnel's status follow its handles, and is what the client sends forwarded exactly until its server breaks or the write request is reused, and is that only behind a pending write or a full read? | two tunnels, one busy with one of three scripts (data behind the request, a second request inside the data, no request), an answer of three cells, buffers of three cells |
| `socks_segfault` | Is there no undefined behaviour? There is. | one tunnel, request and one cell, buffers of four cells |
| `socks_accuracy` | Is a client sent what the server sent, in order? No. | the same with an answer of two cells |
| `file_transfer` | At most one request per context, everything reclaimed unless an error was reported, an undisturbed client gets the file, every transfer ends | two clients, a file of one full chunk and a short one |
| `file_copy` | Does the copy of `buffer` shield a client from the other transfers? No. | the same |
| `echo` | Are the handles closed once and together, is data passed on in order, does `echo_server` end its clients? | three cells typed, three answered, both kinds of server |
| `pingpong` | Are bytes conserved, does the traffic never run dry, when is the result of the benchmark lost, and does the client end? | two sessions, blocks of one byte, read buffers of two; one session answers two reads, the other writes its block only |
| `programs` | The properties of the seven small programs, see their modules | two clients or sessions, two cells or blocks each, a buffer of two cells; a file of four bytes in reads of 0, 1 or 2 with an int that ends at 3; the real sizes of a log line, with strings around every length at which a piece stops to fit; three pieces to a statement |

**Why the bounds are enough.** They are chosen so that each branch of the code is
taken and each pair of events can meet: every action and disjunct of every
next-state relation fires in the runs. A Buffer of size 2 to 4 grows, compacts,
is emptied and swapped. Two clients are what it takes for one codec, one global
buffer or one vector to be shared; a third adds no new kind of interleaving to
code that treats its clients alike. Scripts are as long as it takes to have a
message in front of and behind another one. In `socks_tunnel` the second tunnel
is idle, since tunnels share nothing but the fate of the process.
The bounds, by name: `MaxLen` (bytes of one append) and `MaxSize` (growth of the
vector) in `Buffer`; `MaxRead` in `ChatServer`; `MaxRead` again and `MaxTexts`
(calls of `sendRawContent()`) in `ChatClient`; `MaxBlocks` (blocks a socket takes)
in `Chargen`; `MaxCells` (cells a client sends) in `ThreadServer`, which also stops
reading after `BufCells * MaxCells` cells were queued, and in `PongBuffer`;
`MaxPieces` in `LogLine`; the lengths of the scripts in
`ChatServer`, `SocksTunnel` and `Echo`; `MaxWritten` in `PingPong` (`Rounds` in its instance), where `Ends` excepts a
session at the bound, and in `GoPingPong`, where a
session at the bound writes nothing more until the timer has fired. Real
sizes (8192, 65536, 4-byte headers of base 256) are replaced by small ones through
constants (`CodecSize`, `EncodeSize`, `SendSize`, `MAXSIZE`, `FILE_BUF`,
`HeaderLen`, `Radix`, `block_size`, `ReadSize`, `buf_size`).

## Fairness

Only weak fairness is assumed, and only of what libuv and the kernel do for a
program that keeps calling `uv_run()`; never of a peer's wish to connect, to send
or to close, nor of an error.

* `ChatServer`: one condition, `Work`: a loop that has something to do (a
  callback that has begun, a readable socket, a pending write a socket can take)
  does not stand still. It assumes that peers keep reading. `EveryClientServed`
  says that again and again nothing is left to read or to write for the clients
  that are still connected, or the process has ended.
* `ChatClient`: `ServerWork` and `ClientWork`, the same for each of the two loops.
  Nothing is assumed of the user at stdin.
* `Programs`: in `ThreadServer` a thread's loop and the accept loop run, and
  clients leave in the end (`Serve`): that the ones behind are served follows from it
  (`GetsThere`), and fails without it, because the accept callback waits in `join()`. In
  `GoPingPong` the goroutines that dial, wait for a timer or print are scheduled
  (`ClientEnds`); the traffic need not go on. In `FileReaders` the loop goes on. The
  others state safety only.
* `FileTransfer`: each connection's outstanding request completes, with success
  or an error (`Step`): libuv reports each request it accepted once.
* `Echo`: a connect is decided, data and the server's end are reported, close
  callbacks run. Nothing is assumed of stdin, or of a server of kind "any".
* `PingPong`: both loops report what arrived and the end or reset of a connection, the
  timer fires, sockets take or fail what is pending and connects are decided. `Ends`
  excepts a session the server failed to accept: nobody closes that one, and the
  client then waits for ever. It also excepts a session whose traffic reaches
  `MaxWritten`: `OnShutdown` is due only while nothing is pending, and the code gives no
  reason why that should ever be, so it is no consequence of any fairness.
* `Buffer` and `SocksTunnel` state safety only. Nothing has to happen to a
  Buffer, and no tunnel is ever closed by the code.

## What is proved

The modules `*_proofs` are checked by TLAPS: every theorem holds for all values
of the constants that satisfy the named assumptions below, whatever the number of clients,
the sizes and the scripts. TLC evaluates the assumptions on every run.

| theorem | statement |
|---|---|
| `Buffer_proofs!TypeCorrect` | `Spec => []TypeOK` |
| `Buffer_proofs!IndicesOrdered` | `Spec => []IndexOrder`, the part of it that is about the indices |
| `Buffer_proofs!CompactionAlwaysAborts` | `Spec => []AppendAbortsOnlyOnCompaction` |
| `Buffer_proofs!BufferImplementsByteQueue` | `Spec => FIFOSpec`, the refinement of `ByteQueue` |
| `Chat_proofs!ChatServerTypeOK` | `Spec => []TypeOK` |
| `Chat_proofs!ChatServerConns` | `Spec => []ConnsMatchHandles` |
| `Chat_proofs!ChatServerSendsIntact` | `Spec => []SendsIntact` |
| `Chat_proofs!ChatServerDecodes` | `Spec => FrameCodecSpec`, the refinement of `FrameCodec` |
| `Chat_proofs!ChatServerInOrder` | `Spec => []InOrder` |
| `Chat_proofs!SessionTypeOK` | `FairSession => []ClientTypeOK` |
| `Chat_proofs!ClientWireIntact` | `FairSession => []WireIntact` |
| `Chat_proofs!ClientFirstLineEchoes` | `FairSession => []FirstLineEchoes` |
| `Chat_proofs!ClientPrintsInOrder` | `FairSession => []PrintedInOrder` |
| `Chat_proofs!CodecReadsBack` | of a buffer that begins with what `encode()` wrote, the `onMessage()` loop takes that text and leaves the rest |
| `SocksTunnel_proofs!SocksTypeOK` | `Spec => []TypeOK` |
| `SocksTunnel_proofs!SocksLifecycle` | `Spec => []Lifecycle` |
| `SocksTunnel_proofs!SocksForwardExact` | `Spec => []ForwardExact` |
| `FileTransfer_proofs!TransferTypeOK` | `Spec => []TypeOK` |
| `FileTransfer_proofs!TransferOneRequest` | `Spec => []OneRequest` |
| `FileTransfer_proofs!TransferCleansUp` | `Spec => []CleanUnlessFailed` |
| `FileTransfer_proofs!TransferInOrder` | `Spec => []SentInOrder` |
| `PingPong_proofs!PingPongTypeOK` | `Spec => []TypeOK` |
| `PingPong_proofs!PingPongConserved` | `Spec => []Conserved` |
| `PingPong_proofs!PingPongResultLost` | `Spec => []ResultLost` |
| `Echo_proofs!TypeCorrect` | `Spec => []TypeOK` |
| `Echo_proofs!HandlesClosedOnce` | `Spec => []ClosedOnce` |
| `Echo_proofs!DataPassedOn` | `Spec => []PassedOn` |
| `Echo_proofs!EchoServerIsSilent` | `Spec => []Wordless`, the safety half of `ServerEndsClient` |
| `Programs_proofs!SizePrinted` | `FairSpec => []PrintedIsSize` |
| `Programs_proofs!SharedBufferSafe` | `FairSpec => []SharedBufferIntact` |
| `Programs_proofs!ProgramsTyped` | `FairSpec => []TypeOK` |
| `Programs_proofs!LossesAccounted` | `FairSpec => []LossAccounted` |
| `Programs_proofs!GoResultSafe` | `FairSpec => []ResultSound` |
| `Programs_proofs!LineSafe` | `FairSpec => []LineSound` |
| `Programs_proofs!FrameReadBack` | `FairSpec => []FrameReadable` |

**Assumptions.** `BufferOpsAssumption`, `BufferAssumption`, `CodecAssumption`: sizes are
natural numbers, a header has a digit and a radix is at least 2.
`ChatServerAssumption`: there is a client, scripts are byte sequences, and a frame
that the decoder lets pass fits into `sendBuf` (`HeaderLen + kMaxMessageSize <=
SendSize`; the code has 4 + 4096 and 8192). `ChatClientAssumption`: the client is one
of the peers, what is typed and what memory holds behind it are byte sequences, and its
`sendBuf` has a size that a header can hold (`ClientBuf <= Width`; the code has 1024 and
2^32). `SocksAssumption`: a buffer
holds the first two cells of a request, and `HandleSize` is any distance up to its size. `FileTransferAssumption`: the file is a sequence,
and what is not of the file (`NUL`, `JUNK`) is told apart from it.
`PingPongAssumption`: finitely many sessions and positive sizes.
`EchoAssumption`: scripts are sequences. `ReaderAssumption`: the file and an error
code fit a `size_t`, and a buffer size an `int`, which is what `atoi()`
returns. `ServerAssumption`: there are finitely many clients, and what a buffer holds
before the first read is told apart from what they send. `SessionAssumption`: finitely
many sessions, and a block has a size. `LineAssumption`: texts and the path have a
length, the slashes are in the path, the buffer has a size, and `kMaxNumericSize` (32) is more than
ten digits and than what `snprintf("%.12g")` returns; `IntAssumption`: an `int` has 32
bits. `FrameAssumption`: names and messages are sequences of numbers.

*Buffer.* The inductive invariant `IInv` says of every buffer that its indices
are ordered and inside a vector of bytes (`Good`). The order is needed to prove
typing, because `retrieve()` subtracts. `GrowKeeps`
and `CompactTripsAssert` are about the two branches of `makeSpace()`;
`AppendContent` then says that `append` is a concatenation on `Content` and
`RetrieveContent` that `retrieve` takes a prefix off it, and each action of
`Buffer` a step of `ByteQueue`. An abort maps to the step after which
`ByteQueue` promises nothing.

*ChatServer.* `IInv` has five parts: `TypeOK`; `Good(cbuf)`, on which the lemmas
about buffers rest; `NeverRetrieved`, the encode buffer is good and its reader index
is 0; `ConnsMatchHandles`; and `Accounted` for every client.
`NeverRetrieved` is what `SendsIntact` hangs on: `buf` only grows at its end
(`EncodeNeverAborts`: it never has anything to compact), so a broadcast copies into
each cell of `sendBuf` that an earlier write still refers to what that cell holds already. `Accounted` says it in the form that is inductive: each pending
part of `sendBuf[c]` holds the cells of what was encoded (`AllEncoded`), and
`out[c]` followed by the pending parts is `sent[c]`. `SendKeeps` and
`FlushKeeps` prove it step by step, on lemmas about `FlattenSeq` and `SubSeq`
that are stated for sequences in general. The refinement of `FrameCodec`
goes through `Content(cbuf)`: `FrameAtFront` and `DecodeContent` say what a frame in a buffer
is in terms of its content, and then `OnRead` is `Receive` (or `Stop`, when the append
aborts), `Broadcast` is `Deliver`, every end of the process is `Stop`, and all other
actions stutter (`StepImplements`).

`InOrder` compares the messages with `FramesOf`, a recursive function of everything read, and needs
`OrderInv`. `Parsed(s, got, p)` is the step that makes it inductive: of `s` followed by *any* more
bytes, `FramesOf` finds the messages `got` and then what it finds from position `p` on. So a read keeps it
for nothing (`ParsedExtends`), and a delivery moves `p` behind one frame (`ParsedNext`), without an
induction over the messages. `Orderly` says that every client's bytes are parsed so far (`Lined`), but
for those in the one buffer, which are the last reader's; the guard `~mixed` is what makes it so. When the loop
stops, what is left holds no whole frame but for a lone empty one (`DecodeComplete`).
`LinedDecoded` puts the two together; it is about any bytes and any buffer, and serves both ends.

*ChatClient.* `SessionInv` adds three parts to the server's `IInv`, which every step of a session
keeps because it is a step of the server or leaves it to the wire (`StepKeeps`).
`ClientSound` is the client's counterpart: what its encode buffer holds is the frames of all
texts since the start, each call of `sendRawContent()` asked for no more than that, and each
pending write refers to cells of it. `InTransit` says that the wire followed by what is pending is
what was asked for; it is kept when a text is added because an opening of what was encoded stays one
when more is encoded (`OpeningsGrow`). The lemmas on `sendBuf`, `SendKeeps` and `FlushKeeps`, take its size
as a parameter and serve both ends. The third part, that the client has read no more than
`out[me]`, rests on `OutGrows`.

`PrintedInOrder` and `FirstLineEchoes` need `EchoInv`, which follows a line all the way round: through the
client's encode buffer and `sendBuf`, the wire, the server's one codec, its encode buffer and `sendBuf`, and the
client's codec. It adds four parts to `SessionInv` and `OrderInv`. `ClientLined` is `Lined` at the
client's end: what it has read of `out[me]` is parsed but for what its codec still holds, and what is parsed was
printed; with `LinedDecoded` that is `PrintedInOrder`. `TextsAreLines` says that what was typed holds
no NUL and has a length that a header can hold. The last part is about a line `t` that
was the first (`Heard`, with the hypotheses of `FirstLineEchoes`), and says with `EchoOf(t)` that the wire in both
directions is the frame of `t` over and over (`Repeats`: each byte is the one a frame's length before it), and that
what the encode buffer holds is a whole number of these frames (`Whole`, as an equation: it commutes with
the frame). That is why a copy from the beginning of the encode buffer, whatever was appended
last, is the frame of `t` again. It is stated of every `t` so that it holds before the first line as well.
`RepeatedFrames` and `LinedRepeats` then say that messages which are found in
such bytes are all `t`, and they need that a length survives its way through a header,
`NtohlHtonl`. `CodecReadsBack` is the codec's round trip on its own: whatever follows a frame, its text
is read and the rest is left, but that the frame of an empty text waits for the byte behind it.

*SocksTunnel.* `Sound(r)` is about one tunnel, since an action changes one and the
fate of the process. `Phases` ties the status to the two handles, `Replied` says that the reply
is the first thing a client is sent, `Unforwarded` that nothing is forwarded before the
connection is up, `Unread` that what is unread is the end of what the client sends. `Forwarded` and `Prefixed`
are `ForwardExact` for a socket that is whole and for one that broke. They need `Waiting`: something waits for the server
only while the write request is queued, so that a read that may overwrite `client_buf` finds either nothing
pending or the request in use, which ends the run (`ReusedBehind` says when that can be).
The queues are references, so `WriteSplits` and
`FlushSplits` say what a write puts at a socket and in its queue together, and what stays of it when the socket takes more.

*FileTransfer.* The invariant has three parts for each connection, beside the type. `Owned`: the one request in
flight says what the context still owns, from which `OneRequest` and `CleanUnlessFailed` follow; neither
is inductive by itself, because the callback that ends a request must know that
there is no other. `FromFile`: while a read is the only one, what it has put into the
global buffer is the file's. `OnTheWay`: what was sent and what the rest of the file
still makes are the whole transfer; `ChunksValue`, an induction, says what that rest is.

*PingPong.* `Balanced` says of a session that what was written is what is pending,
on its way or read, at each end, until one is closed or the connection breaks (`Counted`), and that it has
written a block more than it has read (`Answered`), because each read is answered with no less.
The two together are `Conserved`. `ResultLost` is inductive
with them and typing: `counter` lies between two cardinalities, which `CountKept`
and `ConnectFailStep` follow through each step.

*Echo.* `ClosedOnce` alone is not inductive: in a state where one handle is
closing and another still open the second read callback would close the first
again. The missing fact is `Together`: while the client runs, all three handles
are open or all are closing. `PassedOn` needs it too, for a write that is still
pending (`PendingOpen`) implies that nothing was closed. The queue lemmas
(`Flush`, `Queue`, `Prefix`) are about sequences in general. `Wordless`, the safety half
of `ServerEndsClient`, has an invariant of its own: nothing is on its way from `echo_server` (`Silent`).

*FileReaders.* `Counting` says while a program still reads that its count is what was read of the
file so far, in an `int` reduced to its range; `ReaderReads` has one step per program and result of
a read, and `ReaderStops` what each prints at the end.

*ThreadServer.* There is no lock, and the proof shows why none is missing: at most the
client that was accepted last has a live thread (`Served`). `Answered` says that what is
pending is the end of `globalBuf`, which still holds what was asked, and
`BufferOlder`, `SentOlder` that every cell in the buffer and in an answer is of a client
accepted no later than the one who is answered. *PongBuffer.* `PongSound`: a pending part was read into,
and a client whose pongs are not torn has at most one pending, which holds its own
cells.

*Chargen.* `GenSound` says that what has been reported and what is being counted are the
sum, over the clients, of what each took, less a block whose callback has not run yet and more
one if its write failed. An action changes the summand of one client, and
`SumMoves` says that the sum changes by as much.

*GoPingPong.* `Racing` is the argument about the race. `totalWrites` is never more than what
the goroutines have added (`Net`, over all sessions), and neither is what a goroutine has loaded and not
stored yet; if no two were ever between their load and their store (`~clash`), the one that is
there loaded the present total. `Steady` says of one session that its block is in one place or
lost, and `waiting` is the number of sessions that have not ended, which is why a result
takes all of them.

*LogLine.* `LineKept` holds of a line whatever is put into it (`PutKeeps`, by `LengthGrows`):
what is kept is shorter than the buffer, and all that was offered is kept while a number's room is
left. `Converted` is the induction on `convert()`: its digits make up the value, none is
superfluous, and a 32-bit value has at most ten, so that a number whose room was looked for fits.
`NewlineEnds` is the last `append`: it fails only when one byte is left.

*ProtobufFrame.* `MiddleOf` cuts a concatenation where its parts meet, and `ValueOf` says that
four bytes in network order give back the number they were made from. `BodyIs` and
`DecodedIs` put the two together; nothing is used of `adler32` but that it is a
function of the body and makes four bytes.

The last five theorems follow from one invariant of all programs, `ProgramsInv`.

**Induction.** The library's induction theorems take an operator as a parameter, which no
installed prover instantiates. `SetInduction`, the same for a set of
numbers, is proved from the well-foundedness of `Nat` where it is needed, and `RecursionExists` (`BufferOps_proofs`) from it: a
recursive function on an interval has the value its definition gives. With these
the recursive functions that the theorems need are reasoned about (`ntohl`, `htonl`,
`Chunks`, `FramesOf`, `FlattenSeq`, `convert`). For the sums over a set that `MapThenSumSet` computes,
`Programs_proofs` proves that they exist (`SumsExist`, by `SubsetInduction`) and how they
change with one summand (`SumMoves`).
A `RECURSIVE` operator takes a module's SMT backend away,
so the modules use recursive functions and library folds instead.

**Only model-checked.** The liveness properties (`EveryClientServed`, `LinesComeBack`, `EndsWithServer`,
`Finishes`, `ServerEndsClient`, `Ends`, `GetsThere`), because liveness under fairness and
`ENABLED` are out of the prover's reach. Every invariant and every safety refinement of a
passing run is a theorem.

## Findings

Each is a run that ends in a counterexample, and a line of the repository the
counterexample disagrees with.

* `buffer_assert`: `makeSpace()` clears `readerIndex_` before it subtracts it
  (`Buffer.h:113-114`); the assertion on line 115 fails whenever compaction runs. The
  theorem `CompactionAlwaysAborts` says that this is the only way `append()`
  aborts.
* `socks_segfault`: `socks/README.md:2` ticks off "no segment fault"; data that arrives
  before the connect has finished is copied to an offset nothing ever set.
* `socks_accuracy`: `socks/README.md:3` ticks off the accuracy of data transfer and
  line 10 large amounts of data; the answer that a slow client has not taken yet is
  overwritten by the next read from the server.
* `file_copy`: `filetransfer.cpp:82` says why the copy is there, but the copy is
  made while a pool thread may be filling the buffer for another client.

Two more disagreements have no run of their own, because they need no
counterexample: a short read from the server is relayed as the whole buffer, stale
rest included (`Relay`, against `socks/README.md:3`), and no `Tunnel` that was connected is ever
freed, since the calls of `uv_close()` are commented out (`socks/README.md:5`).
While a server is slow the next read from the client queues the one write request a
second time (against `socks/README.md:10`); `ForwardExact` says when.

Observations that contradict no line of the repository, and are part of the
models: every broadcast of the chat server starts again with the first frame ever
encoded, because nothing is retrieved from `buf` (`SendsIntact` holds because
of it); a read error of one chat client, or an oversized length, costs all
clients the server; a write of `socks_server` that fails loses its data without a word
(`ForwardExact` excepts it); a session that the
ping-pong server fails to accept keeps the client for ever, and one that was
closed before the timer costs the result of all; the ping-pong client writes
its whole read buffer back, however little it read (`client.cc:86`), so its queue
need never drain and its shutdown may never be due (`Ends` excepts it), and a pong
of the server is torn by the next read of any client (`SharedBufferIntact`).
A chat client shows its user the first line he typed, over and over, because
both its own and the server's encode buffer are sent from the beginning; lines of
different lengths are cut in the wrong places; a line that overruns `sendBuf`
(1024 bytes) is far below the 4096 bytes at which the decoder would refuse it.
Of a lost client of chargen the printed rate counts what the socket took, which is
not what the client received; the comment at `chargen.cpp:29` asks "why this not accurate",
and that is one reason. The total is one message too large. The thread-per-connection server needs no lock for `globalBuf`
because it serves one client at a time, and sends each one what earlier clients left
there (`SharedBufferIntact`). The Go client's total may lose additions and never gains any. `convert()`
prints a negative number without its sign. A failed read makes
`libuv_readfile_sync` print a size near 2^64 or a little too small.
`readfile.go` never ends when it is given a buffer of 0 bytes.

## Not modelled, and why

* `common/time`: a wrapper of `gettimeofday()` and a declaration without a body.
* `codec_test/query.pb.*`: generated by protoc.
* `main.c`, `pingpong/bench.cc`: two callbacks that print, and an empty file.
* `fs/benchmark_pread.cpp`: reads files and keeps nothing of what it reads.
* In `ChatClient.cpp`: `test()`, `on_shutdown` and `on_close`, which nothing calls;
  in `echo_server.cpp`: `on_data`; in `Logging.h`: the constructor of `SourceFile`
  that takes a pointer and counts from an uninitialised length.
* In `common/log`: the text itself. The formatting of the time passes a buffer to
  `sprintf()` as source and target at once (`Logging.cpp:96`); the model takes
  either length that may come of it.
* In the modelled programs: other logging and output, the addresses, and the memory
  that is allocated and never freed (`common_alloc_buffer`).
* Writes that fail on a handle that is still open, in `ChatServer`, `ChatClient`, `Echo` and the
  smaller servers. `common_on_write_end` (`util.cpp:29-34`) and its siblings only print the error, and what
  was pending is lost; on TCP the connection is then broken and the next read of that handle
  reports it, which is modelled. `SocksTunnel`, `PingPong` and `Chargen` have these writes.
* That `socks_server` and the Go server never close a descriptor is in the models,
  that they run out of them is not.

## Plan

Every component with state is modelled, and every safety property of the passing runs is proved. What is
left is what the section above says no proof here reaches: liveness.
