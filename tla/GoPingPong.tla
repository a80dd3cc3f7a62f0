------------------------------- MODULE GoPingPong -------------------------------
(***************************************************************************)
(* pingpong/go_pingpong: client.go and server.go.  A session of the client *)
(* is three goroutines, one that writes the first block, one that writes   *)
(* back what it reads and one that waits for the timer; main waits for all *)
(* timers and prints totalWrites, which all the others add to without a    *)
(* lock: a load and a store that others may come between.  Contents are    *)
(* left out.                                                               *)
(***************************************************************************)
EXTENDS Integers, FiniteSets, FiniteSetsExt

CONSTANTS
  Sessions,
  blocksize,     \* bytes of the first block
  BufSize,       \* BUF_SIZE, of both programs
  MaxWritten,    \* bound: bytes a session writes
  None           \* nothing printed yet

VARIABLE goping

(* A goroutine that adds: pc is what it does next, amount what it will add,*)
(* loaded the value of totalWrites it read.                                *)
Adder == [pc : {"io", "load", "store", "done"}, amount : Nat, loaded : Nat]

(* conn: the client's.  held: read by the client's reader, not written yet.*)
(* up, down: on their way.  peer: the server's goroutine, echo: what it has*)
(* read and not written.  written: history, all the client's writes, and   *)
(* dropped: those that no goroutine will add.                              *)
SessionType ==
  [conn : {"dialing", "open", "closed", "failed"}, writer : Adder, reader : Adder,
   held : Nat, up : Nat, peer : {"none", "reading", "ended"}, echo : Nat, down : Nat,
   written : Nat, dropped : Nat]

(* waiting: the WaitGroup, which panics below 0.  clash: history, an       *)
(* addition began while another was between its load and its store.        *)
Type ==
  [session : [Sessions -> SessionType], totalWrites : Nat, waiting : Nat,
   printed : Nat \cup {None}, panicked : BOOLEAN, clash : BOOLEAN]

Fresh == [pc |-> "io", amount |-> 0, loaded |-> 0]

Init ==
  goping = [session |-> [s \in Sessions |->
              [conn |-> "dialing", writer |-> Fresh, reader |-> Fresh, held |-> 0,
               up |-> 0, peer |-> "none", echo |-> 0, down |-> 0, written |-> 0,
               dropped |-> 0]],
            totalWrites |-> 0, waiting |-> Cardinality(Sessions),
            printed |-> None, panicked |-> FALSE, clash |-> FALSE]

Running == ~goping.panicked /\ goping.printed = None

Become(s, r) == goping' = [goping EXCEPT !.session[s] = r]

-----------------------------------------------------------------------------
(* client.go. *)

Dial(s) ==
  /\ goping.session[s].conn = "dialing"
  /\ \E conn \in {"open", "failed"} : goping' = [goping EXCEPT !.session[s].conn = conn]

(* After a failed Dial the goroutines go on with a nil connection: the     *)
(* first one to use it ends the process.                                   *)
UseNil(s) ==
  /\ goping.session[s].conn = "failed"
  /\ goping' = [goping EXCEPT !.panicked = TRUE]

(* io.Copy of the block: all of it, or a part and an error if conn.Close() *)
(* comes first; what was written is added.                                 *)
WriteBlock(s) ==
  LET r == goping.session[s]
  IN  /\ r.writer.pc = "io"
      /\ r.conn \in {"open", "closed"}
      /\ \E n \in 0 .. blocksize :
           /\ r.conn = "open" => n = blocksize
           /\ Become(s, [r EXCEPT !.up = @ + n, !.written = @ + n,
                                  !.writer.pc = "load", !.writer.amount = n])

Read(s, n) ==
  LET r == goping.session[s]
  IN  /\ r.reader.pc = "io" /\ r.held = 0
      /\ r.conn = "open" /\ n <= r.down
      /\ Become(s, [r EXCEPT !.down = @ - n, !.held = n])

(* conn.Write of what was read.                                            *)
WriteBack(s) ==
  LET r == goping.session[s]
  IN  /\ r.reader.pc = "io" /\ r.held > 0
      /\ r.conn = "open" /\ r.written + r.held <= MaxWritten
      /\ Become(s, [r EXCEPT !.up = @ + r.held, !.written = @ + r.held, !.held = 0,
                             !.reader.pc = "load", !.reader.amount = r.held])

(* A read or a write fails because of conn.Close(): the reader leaves      *)
(* without adding the part it may have written.                            *)
ReaderEnds(s) ==
  LET r == goping.session[s]
  IN  /\ r.reader.pc = "io" /\ r.conn = "closed"
      /\ \E n \in 0 .. r.held :
           /\ r.written + n <= MaxWritten
           /\ Become(s, [r EXCEPT !.reader.pc = "done", !.up = @ + n, !.held = 0,
                                  !.written = @ + n, !.dropped = n])

Storing ==
  {a \in Sessions \X {"writer", "reader"} : goping.session[a[1]][a[2]].pc = "store"}

Load(s, g) ==
  /\ goping.session[s][g].pc = "load"
  /\ goping' = [goping EXCEPT !.session[s][g].pc = "store",
                              !.session[s][g].loaded = goping.totalWrites,
                              !.clash = @ \/ Storing # {}]

(* The writer is done after its one addition, the reader reads again.      *)
After(g) == [Fresh EXCEPT !.pc = IF g = "writer" THEN "done" ELSE "io"]

(* Mutant: the amount replaces the total. *)
StoreAmount(s, g) ==
  /\ goping.session[s][g].pc = "store"
  /\ goping' = [goping EXCEPT !.session[s][g] = After(g),
                              !.totalWrites = goping.session[s][g].amount]

Store(s, g) ==
  LET a == goping.session[s][g]
  IN  /\ a.pc = "store"
      /\ goping' = [goping EXCEPT !.session[s][g] = After(g),
                                  !.totalWrites = a.loaded + a.amount]

(* Mutant: the timer fires again, and Done() with it. *)
OnTimerAgain(s) ==
  /\ goping.session[s].conn \in {"open", "closed"}
  /\ goping' = [goping EXCEPT !.session[s].conn = "closed", !.waiting = @ - 1]

(* The timer fires once: Close() and Done(), then a select on a channel    *)
(* that never delivers again.                                              *)
OnTimer(s) ==
  /\ goping.session[s].conn = "open"
  /\ goping' = [goping EXCEPT !.session[s].conn = "closed", !.waiting = @ - 1]

(* main, after Wait(): the other goroutines may still be adding.           *)
PrintRate ==
  /\ goping.waiting = 0
  /\ goping' = [goping EXCEPT !.printed = goping.totalWrites]

-----------------------------------------------------------------------------
(* server.go. *)

(* accept(): a goroutine for each connection, an error is only logged.     *)
Accept(s) ==
  /\ goping.session[s].conn \in {"open", "closed"}
  /\ goping.session[s].peer = "none"
  /\ \E peer \in {"reading", "none"} : goping' = [goping EXCEPT !.session[s].peer = peer]

PeerRead(s, n) ==
  LET r == goping.session[s]
  IN  /\ r.peer = "reading" /\ r.echo = 0 /\ n <= r.up
      /\ Become(s, [r EXCEPT !.up = @ - n, !.echo = n])

(* A failed write is only logged and the loop reads again.                 *)
PeerWrite(s) ==
  LET r == goping.session[s]
  IN  /\ r.peer = "reading" /\ r.echo > 0
      /\ \E n \in 0 .. r.echo :
           /\ r.conn = "open" => n = r.echo
           /\ Become(s, [r EXCEPT !.down = @ + n, !.echo = 0])

(* The client's end, or any error: the loop is left, conn stays open.      *)
PeerEnds(s) ==
  LET r == goping.session[s]
  IN  /\ r.peer = "reading" /\ r.echo = 0 /\ r.conn = "closed"
      /\ Become(s, [r EXCEPT !.peer = "ended"])

SessionStep(s) ==
  \/ Dial(s)
  \/ UseNil(s)
  \/ WriteBlock(s)
  \/ \E n \in 1 .. BufSize : Read(s, n)
  \/ WriteBack(s)
  \/ ReaderEnds(s)
  \/ \E g \in {"writer", "reader"} : Load(s, g) \/ Store(s, g)
  \/ OnTimer(s)
  \/ Accept(s)
  \/ \E n \in 1 .. BufSize : PeerRead(s, n)
  \/ PeerWrite(s)
  \/ PeerEnds(s)

(* What the client's end depends on; the traffic does not matter to it.    *)
ClientEnds == Running /\ (PrintRate \/ \E s \in Sessions : Dial(s) \/ UseNil(s) \/ OnTimer(s))

Next == Running /\ (PrintRate \/ \E s \in Sessions : SessionStep(s))

-----------------------------------------------------------------------------
(* Properties. *)

Written == MapThenSumSet(LAMBDA s : goping.session[s].written, Sessions)

(* What goroutines have written and not added, or never will.              *)
Unadded ==
  MapThenSumSet(LAMBDA s :
    LET due(g) == IF goping.session[s][g].pc \in {"load", "store"}
                  THEN goping.session[s][g].amount ELSE 0
    IN  due("writer") + due("reader") + goping.session[s].dropped, Sessions)

(* The race on totalWrites loses additions and never invents one; without a*)
(* clash the total is exactly what was written and added by then.          *)
TotalNeverOver ==
  /\ goping.totalWrites <= Written - Unadded
  /\ ~goping.clash => goping.totalWrites = Written - Unadded

(* A result is printed only if every Dial succeeded and every timer fired: *)
(* one connection that fails costs the result of all.                      *)
PrintedMeansAll ==
  goping.printed # None =>
    /\ \A s \in Sessions : goping.session[s].conn = "closed"
    /\ goping.printed <= Written

(* Neither side ever has more than the block in flight: both write back    *)
(* what they read, no more, and while both are up nothing of it is lost.   *)
BlockCirculates ==
  \A s \in Sessions :
    LET r      == goping.session[s]
        flight == r.up + r.echo + r.down + r.held
    IN  /\ flight <= blocksize
        /\ r.conn = "open" /\ r.writer.pc # "io" => flight = blocksize

(* What the benchmark prints can be relied on from above only.             *)
ResultSound == TotalNeverOver /\ PrintedMeansAll /\ BlockCirculates
=============================================================================
