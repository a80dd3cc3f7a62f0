----------------------------- MODULE SocksTunnel -----------------------------
(***************************************************************************)
(* socks_server: one Tunnel struct per client holds both libuv handles,    *)
(* the write and connect requests and the two data buffers.  Data is cut   *)
(* into cells: a request is the cells "04" (its first byte) and "01" (the  *)
(* rest of its header), everything else is payload.                        *)
(*                                                                         *)
(* Where C++ gives no meaning to what the code does, fate becomes the      *)
(* cause and nothing more is said.                                         *)
(*                                                                         *)
(* External (libuv, kernel): how much of a write a socket takes at once,   *)
(* what arrives in one read, whether a connect succeeds, when a connection *)
(* is reset.  A write that is not taken whole stays queued as references   *)
(* to the caller's cells; a write to a reset connection is lost.  libuv    *)
(* keeps a request linked until its callback has run.  A write that is     *)
(* taken at once has it run before the next poll; but a read that fills    *)
(* its buffer is followed, without a poll, by the next read (uv__read()    *)
(* loops), so that the read callback comes again first.  Left out: the     *)
(* loop's limit of 32 reads, met only by a client that sends 31 buffers of *)
(* junk before its request, and a poll with 1024 events at once.           *)
(***************************************************************************)
EXTENDS Integers, SequencesExt

CONSTANTS
  Tunnels,      \* the client connections, one Tunnel each
  MAXSIZE,      \* cells in client_buf and in server_buf
  HandleSize,   \* cells by which alloc_buffer_server misses server_buf: a uv_tcp_t
  ClientCells,  \* ClientCells[t]: a set of cell sequences, what client t may send
  ServerCells   \* ServerCells[t]: the same of the server t asks for

Cell == {"04", "01", "x", "y", "s", "t", "?", "ok"}

ASSUME SocksAssumption ==
  /\ MAXSIZE \in Nat /\ MAXSIZE >= 2
  /\ HandleSize \in 1 .. MAXSIZE
  /\ \A t \in Tunnels : ClientCells[t] \cup ServerCells[t] \subseteq Seq(Cell)

VARIABLES
  tun,          \* tun[t]: the tunnel of client t, with its two peers
  fate          \* "running", "aborted" (assert) or a cause of undefined behaviour

vars == <<tun, fate>>

Statuses == {"unset", "TUNNEL_START", "CONNECTING_TO_SERVER", "CONNECTED_TO_SERVER"}

Causes == {"freed tunnel", "handle reuse", "reply reuse", "request reuse",
           "wild copy", "overrun", "misread"}

(* What of the buffer alloc_buffer_server() hands out is in the Tunnel.    *)
Inside == MAXSIZE - HandleSize

(* mem: the malloc'ed Tunnel.  client, server: the two handles; "init" is  *)
(* uv_tcp_init'ed only.  toClient, toServer: what the sockets have taken.  *)
(* clientQ, serverQ: pending writes, as indices into server_buf and        *)
(* client_buf; 0 is the reply, on a stack frame that is gone.              *)
(* write: client_write_req, in a queue, or done with its callback to come. *)
(* broken: the sockets whose writes fail.                                  *)
(* script, fromClient, fromServer: all the client sends, what is unread.   *)
(* clientFull: the last read filled the buffer, the next one is due.       *)
(* skipped, asked: histories, see ForwardExact and Lifecycle.              *)
TunnelType ==
  [mem : {"none", "live", "freed"},
   status : Statuses,
   client : {"none", "init", "open", "eof", "error"},
   server : {"none", "init", "connecting", "open", "eof", "error"},
   client_buf : [1 .. MAXSIZE -> Cell],
   server_buf : [1 .. Inside -> Cell],
   clientQ : Seq(0 .. MAXSIZE),
   serverQ : Seq(1 .. MAXSIZE),
   write : {"free", "queued", "done"},
   broken : SUBSET {"client", "server"},
   toClient : Seq(Cell), toServer : Seq(Cell),
   script : Seq(Cell), fromClient : Seq(Cell), fromServer : Seq(Cell),
   clientFull : BOOLEAN,
   skipped : Nat, asked : Seq(Cell)]

-----------------------------------------------------------------------------

Unused(size) == [i \in 1 .. size |-> "?"]

NoTunnel(cells, answer) ==
  [mem |-> "none", status |-> "unset", client |-> "none", server |-> "none",
   client_buf |-> Unused(MAXSIZE), server_buf |-> Unused(Inside),
   clientQ |-> << >>, serverQ |-> << >>, write |-> "free", broken |-> {},
   toClient |-> << >>, toServer |-> << >>,
   script |-> cells, fromClient |-> cells, fromServer |-> answer,
   clientFull |-> FALSE, skipped |-> 0, asked |-> << >>]

Init ==
  /\ tun \in [Tunnels -> UNION {{NoTunnel(cells, answer) : cells \in ClientCells[t],
                                 answer \in ServerCells[t]} : t \in Tunnels}]
  /\ \A t \in Tunnels :
       tun[t].script \in ClientCells[t] /\ tun[t].fromServer \in ServerCells[t]
  /\ fate = "running"

Running == fate = "running"

(* No read callback is due within the current poll. *)
Polling == \A t \in Tunnels : ~tun[t].clientFull

Become(t, r) == tun' = [tun EXCEPT ![t] = r] /\ UNCHANGED fate

Undefined(cause) == fate' = cause /\ UNCHANGED tun

Aborted == fate' = "aborted" /\ UNCHANGED tun

(* Mutant: the buffer is cut to what was read. *)
FilledShort(buffer, data) == data

(* The cells of a buffer after a read of data into its front. *)
Filled(buffer, data) ==
  [i \in DOMAIN buffer |-> IF i <= Len(data) THEN data[i] ELSE buffer[i]]

(* The indices first .. last of a buffer, in order. *)
Refs(first, last) == [i \in 1 .. last - first + 1 |-> first + i - 1]

Drop(s, n) == SubSeq(s, n + 1, Len(s))

(* client_write_req is done when the reply, or the forwarded read, it      *)
(* stands for is in no queue any more.                                     *)
Settled(r) ==
  [r EXCEPT !.write = IF @ = "queued" /\ r.serverQ = << >> /\ ~Contains(r.clientQ, 0)
                      THEN "done" ELSE @]

(* The writes of one side fail: what is pending there is lost.             *)
Break(r, side) ==
  Settled([r EXCEPT !.broken = @ \cup {side},
                    !.clientQ = IF side = "client" THEN << >> ELSE @,
                    !.serverQ = IF side = "server" THEN << >> ELSE @])

-----------------------------------------------------------------------------
(* on_new_client_connection.  The handle is initialised, hence linked into *)
(* the loop's handle list, before uv_accept(); when that fails the Tunnel  *)
(* is freed with the handle still linked.                                  *)
OnNewClient(t) ==
  /\ tun[t].mem = "none"
  /\ \/ Become(t, [tun[t] EXCEPT !.mem = "live", !.client = "open", !.status = "TUNNEL_START"])
     \/ Become(t, [tun[t] EXCEPT !.mem = "freed", !.client = "init"])
     \/ /\ \E u \in Tunnels : tun[u].mem = "freed"
        /\ Undefined("freed tunnel")

(* A read starting with 04 01 is a request, whatever the status.  The reply*)
(* goes out before the connect is tried; the rest of the read is ignored.  *)
(* The result of uv_tcp_connect() is not looked at.                        *)
OnRequest(t, r) ==
  \/ r.write # "free" /\ Undefined("reply reuse")
  \/ r.write = "free" /\ r.server # "none" /\ Undefined("handle reuse")
  \/ (\E u \in Tunnels : tun[u].mem = "freed") /\ Undefined("freed tunnel")
  \/ /\ r.write = "free"
     /\ r.server = "none"
     /\ \E atOnce \in BOOLEAN, server \in {"connecting", "init"} :
          LET lost == "client" \in r.broken
          IN  Become(t, Settled([r EXCEPT
                !.write = "queued",
                !.toClient = IF atOnce /\ ~lost THEN Append(@, "ok") ELSE @,
                !.clientQ = IF atOnce \/ lost THEN @ ELSE Append(@, 0),
                !.asked = Append(@, "ok"),
                !.status = "CONNECTING_TO_SERVER",
                !.server = server]))

(* Mutant: only what does not fit at once is passed on. *)
OnForwardRestOnly(t, r, n) ==
  /\ r.write = "free"
  /\ \E k \in 0 .. n :
       Become(t, Settled([r EXCEPT !.write = "queued", !.serverQ = Refs(k + 1, n)]))

(* CONNECTED_TO_SERVER: the n cells just read are written to the server    *)
(* from client_buf with the one client_write_req.  An error at once (from  *)
(* libuv 1.19 on, when reading has failed before) fails the assert around  *)
(* it; a later one reaches on_client_write_end() only, and the cells are   *)
(* lost.                                                                   *)
OnForward(t, r, n) ==
  \/ r.write # "free" /\ Undefined("request reuse")
  \/ r.server = "error" /\ Aborted
  \/ /\ r.write = "free"
     /\ "server" \in r.broken
     /\ Become(t, [r EXCEPT !.write = "done"])
  \/ /\ r.write = "free"
     /\ "server" \notin r.broken
     /\ \E k \in 0 .. n :
          Become(t, Settled([r EXCEPT
            !.write = "queued",
            !.toServer = @ \o SubSeq(r.client_buf, 1, k),
            !.serverQ = Refs(k + 1, n)]))

(* on_client_read with n >= 0 cells.  n = 0 is libuv's report of EAGAIN    *)
(* after a read that filled the buffer, and looks at the old cells again.  *)
OnClientRead(t, n) ==
  /\ tun[t].mem = "live"
  /\ tun[t].client = "open"
  /\ n <= Len(tun[t].fromClient)
  /\ tun[t].clientFull \/ (n > 0 /\ Polling /\ tun[t].write # "done")
  /\ LET old == tun[t]
         r   == [old EXCEPT
                   !.client_buf = Filled(@, SubSeq(old.fromClient, 1, n)),
                   !.fromClient = Drop(@, n),
                   !.clientFull = n = MAXSIZE,
                   !.skipped = IF old.status = "CONNECTED_TO_SERVER" THEN @ ELSE @ + n]
     IN  IF r.client_buf[1] = "04" /\ r.client_buf[2] = "01"
         THEN OnRequest(t, r)
         ELSE \/ r.status = "CONNECTED_TO_SERVER" /\ OnForward(t, r, n)
              \* memcpy to an offset that was never set
              \/ r.status = "CONNECTING_TO_SERVER" /\ Undefined("wild copy")
              \/ r.status = "TUNNEL_START" /\ Become(t, r)

(* on_client_read with an error: nothing is closed or freed. *)
OnClientEnd(t) ==
  /\ tun[t].mem = "live"
  /\ tun[t].client = "open"
  /\ tun[t].clientFull \/ Polling
  /\ LET r == [tun[t] EXCEPT !.clientFull = FALSE]
     IN  \/ r.fromClient = << >> /\ Become(t, [r EXCEPT !.client = "eof"])
         \/ Become(t, Break([r EXCEPT !.client = "error"], "client"))

(* on_client_write_end does nothing, but the request is free again: the    *)
(* status is not looked at, a failed write goes unnoticed.                 *)
OnClientWriteEnd(t) ==
  /\ tun[t].mem = "live"
  /\ tun[t].write = "done"
  /\ Become(t, [tun[t] EXCEPT !.write = "free"])

(* Mutant: the Tunnel is kept when the connect fails. *)
OnServerConnectKeeps(t) ==
  /\ tun[t].mem = "live"
  /\ tun[t].server = "connecting"
  /\ Become(t, [tun[t] EXCEPT !.status = "CONNECTED_TO_SERVER", !.server = "init"])

(* on_server_connect: a failure frees the Tunnel under its two handles.    *)
OnServerConnect(t) ==
  /\ tun[t].mem = "live"
  /\ tun[t].server = "connecting"
  /\ \/ Become(t, [tun[t] EXCEPT !.status = "CONNECTED_TO_SERVER", !.server = "open"])
     \/ Become(t, [tun[t] EXCEPT !.mem = "freed", !.server = "init"])

(* The client of a freed Tunnel sends, closes, or takes what it is still   *)
(* owed: libuv uses the handle.                                            *)
OnFreedClient(t) ==
  /\ tun[t].mem = "freed"
  /\ tun[t].client = "open" \/ tun[t].clientQ # << >>
  /\ Undefined("freed tunnel")

(* What a socket reads of the buffer of a relayed write.  Past the Tunnel  *)
(* is memory of something else: any value, at every read of it.            *)
Shown(r) == [i \in 1 .. MAXSIZE |-> IF i <= Inside THEN r.server_buf[i] ELSE "?"]

(* uv_write(.., buf, ..) passes on the whole read buffer, however much of  *)
(* it was read; k cells are taken at once.                                 *)
Relay(r, k) ==
  [r EXCEPT !.toClient = @ \o SubSeq(Shown(r), 1, k),
            !.clientQ = @ \o Refs(k + 1, MAXSIZE),
            !.asked = @ \o Shown(r)]

(* on_server_read with n cells.  A read that fills the buffer has written  *)
(* past the Tunnel, so that the n = 0 of OnClientRead does not come here.  *)
(* A write to a client that is gone is lost.                               *)
OnServerRead(t, n) ==
  /\ tun[t].mem = "live"
  /\ tun[t].server = "open"
  /\ n \in 1 .. Len(tun[t].fromServer)
  /\ IF n > Inside THEN Undefined("overrun")
     ELSE LET old == tun[t]
              r   == [old EXCEPT
                        !.server_buf = Filled(@, SubSeq(old.fromServer, 1, n)),
                        !.fromServer = Drop(@, n)]
          IN  \/ /\ "client" \in r.broken
                 /\ Become(t, [r EXCEPT !.asked = @ \o Shown(r)])
              \/ /\ "client" \notin r.broken
                 /\ \E k \in 0 .. MAXSIZE :
                      /\ r.clientQ # << >> => k = 0
                      /\ Become(t, Relay(r, k))

(* on_server_write_end, once a relayed write is out or has failed, looks   *)
(* for the Tunnel around server_write_req, but the request was malloc'ed   *)
(* on its own: it reads, and may set, a status in memory of something else.*)
OnServerWriteEnd(t) ==
  /\ tun[t].mem = "live"
  /\ \/ Len(tun[t].toClient) > MAXSIZE
     \/ "client" \in tun[t].broken /\ Len(tun[t].asked) > MAXSIZE
  /\ Undefined("misread")

(* on_server_read with an error: nothing is closed or freed. *)
OnServerEnd(t) ==
  /\ tun[t].mem = "live"
  /\ tun[t].server = "open"
  /\ \/ tun[t].fromServer = << >> /\ Become(t, [tun[t] EXCEPT !.server = "eof"])
     \/ Become(t, Break([tun[t] EXCEPT !.server = "error"], "server"))

(* External: a connection is reset, which the next write, or one that is   *)
(* pending, finds out before a read does.                                  *)
Reset(t, side) ==
  /\ tun[t].mem = "live"
  /\ side \notin tun[t].broken
  /\ (IF side = "client" THEN tun[t].client ELSE tun[t].server) \in {"open", "eof"}
  /\ Become(t, Break(tun[t], side))

(* External: the sockets take n more cells of what is queued.              *)
FlushServer(t, n) ==
  /\ tun[t].mem = "live"
  /\ n \in 1 .. Len(tun[t].serverQ)
  /\ LET r == tun[t]
     IN  Become(t, Settled([r EXCEPT
           !.toServer = @ \o [i \in 1 .. n |-> r.client_buf[r.serverQ[i]]],
           !.serverQ = Drop(@, n)]))

Queued(r, n) ==
  [i \in 1 .. n |-> IF r.clientQ[i] = 0 THEN "?" ELSE Shown(r)[r.clientQ[i]]]

FlushClient(t, n) ==
  /\ tun[t].mem = "live"
  /\ n \in 1 .. Len(tun[t].clientQ)
  /\ Become(t, Settled([tun[t] EXCEPT
       !.toClient = @ \o Queued(tun[t], n), !.clientQ = Drop(@, n)]))

Next ==
  /\ Running
  /\ \E t \in Tunnels :
       \/ \E n \in 0 .. MAXSIZE : OnClientRead(t, n)
       \/ OnClientEnd(t)
       \/ Polling /\ \/ OnNewClient(t)
                     \/ OnClientWriteEnd(t)
                     \/ OnServerConnect(t)
                     \/ OnFreedClient(t)
                     \/ \E n \in 1 .. MAXSIZE : OnServerRead(t, n)
                     \/ OnServerWriteEnd(t)
                     \/ OnServerEnd(t)
                     \/ \E side \in {"client", "server"} : Reset(t, side)
                     \/ \E n \in 1 .. MAXSIZE : FlushServer(t, n)
                     \/ \E n \in 1 .. MAXSIZE : FlushClient(t, n)

Spec == Init /\ [][Next]_vars

-----------------------------------------------------------------------------
(* Properties. *)

TypeOK ==
  /\ tun \in [Tunnels -> TunnelType]
  /\ fate \in {"running", "aborted"} \cup Causes

(* The tunnel's status follows its handles: CONNECTED_TO_SERVER stands for *)
(* a server connection that was established, a Tunnel is freed only when   *)
(* it never had one, so nothing of it was exchanged with a server, and the *)
(* client is sent the reply before anything else.                          *)
Lifecycle ==
  \A t \in Tunnels :
    LET r == tun[t]
    IN  /\ r.status = "CONNECTED_TO_SERVER" <=> r.server \in {"open", "eof", "error"}
        /\ r.server = "connecting" => r.status = "CONNECTING_TO_SERVER"
        /\ r.mem = "freed" => r.server \in {"none", "init"} /\ r.toServer = << >>
        /\ r.toServer # << >> \/ r.serverQ # << >> => r.status = "CONNECTED_TO_SERVER"
        /\ r.asked # << >> => Head(r.asked) = "ok"

(* The server gets, in order and once each, the cells the client sent      *)
(* after those read before the connection was up: all that were read, or,  *)
(* once its socket is broken, the first of them.  No write still in        *)
(* client_buf is ever overwritten: a read that could do it reuses          *)
(* client_write_req first, and that happens only when the last write is    *)
(* still queued, or right after a read that filled client_buf.             *)
ForwardExact ==
  /\ \A t \in Tunnels :
       LET r     == tun[t]
           owed  == SubSeq(r.script, r.skipped + 1, Len(r.script) - Len(r.fromClient))
           given == r.toServer \o [i \in DOMAIN r.serverQ |-> r.client_buf[r.serverQ[i]]]
       IN  /\ IsPrefix(given, owed)
           /\ "server" \notin r.broken => given = owed
  /\ fate \in {"request reuse", "reply reuse"}
       => \E t \in Tunnels : tun[t].write = "queued" \/ tun[t].clientFull

-----------------------------------------------------------------------------
(* What socks/README.md ticks off and the code does not do. *)

(* README.md:2 "[x] no segment fault :)": no undefined behaviour.          *)
NoUndefinedBehaviour == fate \notin Causes

(* README.md:3 "[x] (accuracy of data transfer)": of the cells its server *)
(* sent, a client is sent the first ones, in order and once each, whatever *)
(* else it is sent.                                                        *)
RelayInOrder ==
  \A t \in Tunnels :
    \E answer \in ServerCells[t] :
      LET read == SubSeq(answer, 1, Len(answer) - Len(tun[t].fromServer))
      IN  /\ answer = read \o tun[t].fromServer
          /\ IsPrefix(SelectSeq(tun[t].toClient, LAMBDA c : c \in {"s", "t"}), read)
=============================================================================
