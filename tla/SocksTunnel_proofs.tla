-------------------------- MODULE SocksTunnel_proofs --------------------------
(***************************************************************************)
(* Machine-checked proofs about socks_server, for any number of tunnels,   *)
(* any buffer size and anything two peers may send: a tunnel's status      *)
(* follows its handles, and the server gets what the client sent, or the   *)
(* beginning of it when its socket breaks.                                 *)
(***************************************************************************)
EXTENDS SocksTunnel, SequenceTheorems, TLAPS

USE SocksAssumption

Buf   == [1 .. MAXSIZE -> Cell]
Queue == Seq(0 .. MAXSIZE)

(* What a socket reads for a queue of references into a buffer.            *)
At(b, i)    == IF i = 0 THEN "?" ELSE b[i]
Cells(b, q) == [i \in 1 .. Len(q) |-> At(b, q[i])]

(* Names that the steps below are stated with and do not expand: the first *)
(* n cells, s followed by u, and what of s lies between the first m and    *)
(* the last k of its cells.                                                *)
Fore(s, n)       == SubSeq(s, 1, n)
Cat(s, u)        == s \o u
Between(s, m, k) == SubSeq(s, m + 1, Len(s) - k)

-----------------------------------------------------------------------------
(* Buffers and queues of references.                                       *)

LEMMA FunIsSeq ==
  ASSUME NEW S, NEW n \in Nat, NEW f \in [1 .. n -> S]
  PROVE  f \in Seq(S) /\ Len(f) = n
OBVIOUS

LEMMA MiddleSeq ==
  ASSUME NEW S, NEW s \in Seq(S), NEW m \in 0 .. Len(s), NEW n \in m .. Len(s)
  PROVE  /\ SubSeq(s, m + 1, n) \in Seq(S)
         /\ Len(SubSeq(s, m + 1, n)) = n - m
         /\ \A i \in 1 .. n - m : SubSeq(s, m + 1, n)[i] = s[m + i]
<1> DEFINE a == m + 1
<1>1. a \in Int /\ n \in Int /\ \A i \in a .. n : s[i] \in S
  OBVIOUS
<1>2. /\ SubSeq(s, a, n) \in Seq(S)
      /\ Len(SubSeq(s, a, n)) = IF a <= n THEN n - a + 1 ELSE 0
      /\ \A i \in 1 .. n - a + 1 : SubSeq(s, a, n)[i] = s[a + i - 1]
  <2> HIDE DEF a
  <2> QED BY <1>1, SubSeqProperties
<1>3. /\ n - a + 1 = n - m /\ (IF a <= n THEN n - a + 1 ELSE 0) = n - m
      /\ \A i \in Int : a + i - 1 = m + i
  OBVIOUS
<1> DEFINE p == SubSeq(s, a, n)
<1> HIDE DEF a
<1>4. ASSUME NEW i \in 1 .. n - m
      PROVE  p[i] = s[m + i]
  <2>1. i \in 1 .. n - a + 1 /\ a + i - 1 = m + i
    BY <1>3
  <2>2. QED
    BY <1>2, <2>1
<1>5. p \in Seq(S) /\ Len(p) = n - m
  BY <1>2, <1>3
<1> HIDE DEF p
<1>6. QED
  BY <1>4, <1>5 DEF p, a

LEMMA DropSeq ==
  ASSUME NEW S, NEW s \in Seq(S), NEW n \in 0 .. Len(s)
  PROVE  /\ Drop(s, n) \in Seq(S)
         /\ Len(Drop(s, n)) = Len(s) - n
         /\ \A i \in 1 .. Len(s) - n : Drop(s, n)[i] = s[n + i]
<1>1. Len(s) \in n .. Len(s)
  OBVIOUS
<1>2. QED
  BY <1>1, MiddleSeq DEF Drop

LEMMA CatAssociative ==
  ASSUME NEW s \in Seq(Cell), NEW u \in Seq(Cell), NEW v \in Seq(Cell)
  PROVE  Cat(s, u) \in Seq(Cell) /\ Cat(Cat(s, u), v) = Cat(s, Cat(u, v))
<1>1. s \o u \in Seq(Cell)
  BY ConcatProperties
<1>2. QED
  BY <1>1, ConcatAssociative, SMTT(20) DEF Cat

(* A peer that reads n more of the last k cells goes on where it was.      *)
LEMMA BetweenGrows ==
  ASSUME NEW s \in Seq(Cell), NEW m \in Nat, NEW k \in Nat, NEW n \in Nat,
         n <= k, m + k <= Len(s)
  PROVE  Cat(Between(s, m, k), Between(s, Len(s) - k, k - n)) = Between(s, m, k - n)
<1> DEFINE a == m + 1
           b == Len(s) - k
           c == Len(s) - (k - n)
<1>1. a \in 1 .. Len(s) + 1 /\ b \in a - 1 .. Len(s) /\ c \in b .. Len(s)
  OBVIOUS
<1> HIDE DEF a, b, c
<1>2. SubSeq(s, a, b) \o SubSeq(s, b + 1, c) = SubSeq(s, a, c)
  BY <1>1, ConcatAdjacentSubSeq
<1>3. QED
  BY <1>2 DEF a, b, c, Cat, Between

LEMMA FilledBuf ==
  ASSUME NEW size \in Nat, NEW b \in [1 .. size -> Cell], NEW data \in Seq(Cell)
  PROVE  /\ Filled(b, data) \in [1 .. size -> Cell]
         /\ \A i \in 1 .. size : i <= Len(data) => Filled(b, data)[i] = data[i]
BY DEF Filled

LEMMA RefsSeq ==
  ASSUME NEW k \in 0 .. MAXSIZE, NEW n \in k .. MAXSIZE
  PROVE  /\ Refs(k + 1, n) \in Seq(1 .. MAXSIZE)
         /\ Len(Refs(k + 1, n)) = n - k
         /\ \A i \in 1 .. n - k : Refs(k + 1, n)[i] = k + i
<1>1. Refs(k + 1, n) = [i \in 1 .. n - k |-> k + i]
  <2>1. n - (k + 1) + 1 = n - k /\ \A i \in 1 .. n - k : k + 1 + i - 1 = k + i
    OBVIOUS
  <2>2. QED
    BY <2>1 DEF Refs
<1>2. n - k \in Nat /\ [i \in 1 .. n - k |-> k + i] \in [1 .. n - k -> 1 .. MAXSIZE]
  OBVIOUS
<1>3. QED
  BY <1>1, <1>2, FunIsSeq

LEMMA CellsSeq ==
  ASSUME NEW b \in Buf, NEW q \in Queue
  PROVE  /\ Cells(b, q) \in Seq(Cell)
         /\ Len(Cells(b, q)) = Len(q)
         /\ \A i \in 1 .. Len(q) : Cells(b, q)[i] = At(b, q[i])
<1>1. \A i \in 1 .. Len(q) : At(b, q[i]) \in Cell
  BY DEF At, Buf, Cell, Queue
<1>2. Cells(b, q) \in [1 .. Len(q) -> Cell] /\ Len(q) \in Nat
  BY <1>1 DEF Cells, Queue
<1>3. QED
  BY <1>2, FunIsSeq DEF Cells

(* The part of a write a socket takes at once and the references to the    *)
(* rest make up what was written.                                          *)
LEMMA WriteSplits ==
  ASSUME NEW b \in Buf, NEW n \in 0 .. MAXSIZE, NEW k \in 0 .. n
  PROVE  /\ Fore(b, k) \in Seq(Cell)
         /\ Fore(b, n) \in Seq(Cell)
         /\ Cat(Fore(b, k), Cells(b, Refs(k + 1, n))) = Fore(b, n)
<1>1. b \in Seq(Cell) /\ Len(b) = MAXSIZE
  BY FunIsSeq DEF Buf
<1>2. \A m \in 0 .. MAXSIZE :
        /\ SubSeq(b, 1, m) \in Seq(Cell) /\ Len(SubSeq(b, 1, m)) = m
        /\ \A i \in 1 .. m : SubSeq(b, 1, m)[i] = b[i]
  BY <1>1
<1>3. /\ Refs(k + 1, n) \in Queue /\ Len(Refs(k + 1, n)) = n - k
      /\ \A i \in 1 .. n - k : Refs(k + 1, n)[i] = k + i
  BY RefsSeq DEF Queue
<1>4. /\ Cells(b, Refs(k + 1, n)) \in Seq(Cell) /\ Len(Cells(b, Refs(k + 1, n))) = n - k
      /\ \A i \in 1 .. n - k : Cells(b, Refs(k + 1, n))[i] = b[k + i]
  <2> DEFINE q == Refs(k + 1, n)
  <2> HIDE DEF q
  <2>1. /\ Cells(b, q) \in Seq(Cell) /\ Len(Cells(b, q)) = Len(q)
        /\ \A i \in 1 .. Len(q) : Cells(b, q)[i] = At(b, q[i])
    BY <1>3, CellsSeq DEF q
  <2>2. \A i \in 1 .. n - k : At(b, k + i) = b[k + i]
    BY DEF At
  <2>3. QED
    BY <1>3, <2>1, <2>2 DEF q
<1> DEFINE front == SubSeq(b, 1, k)
           rest  == Cells(b, Refs(k + 1, n))
           all   == SubSeq(b, 1, n)
<1>5. /\ front \in Seq(Cell) /\ Len(front) = k /\ \A i \in 1 .. k : front[i] = b[i]
      /\ all \in Seq(Cell) /\ Len(all) = n /\ \A i \in 1 .. n : all[i] = b[i]
  BY <1>2
<1> HIDE DEF front, rest, all
<1>6. /\ front \o rest \in Seq(Cell) /\ Len(front \o rest) = n
      /\ \A i \in 1 .. n : (front \o rest)[i] = IF i <= k THEN front[i] ELSE rest[i - k]
  <2>1. rest \in Seq(Cell) /\ Len(rest) = n - k
    BY <1>4 DEF rest
  <2>2. Len(front) + Len(rest) = n
    BY <1>5, <2>1
  <2>3. /\ front \o rest \in Seq(Cell) /\ Len(front \o rest) = Len(front) + Len(rest)
        /\ \A i \in 1 .. Len(front) + Len(rest) :
             (front \o rest)[i] = IF i <= Len(front) THEN front[i] ELSE rest[i - Len(front)]
    BY <1>5, <2>1, ConcatProperties
  <2>4. QED
    BY <1>5, <2>2, <2>3
<1>7. ASSUME NEW i \in 1 .. n
      PROVE  (front \o rest)[i] = all[i]
  <2>1. CASE i <= k
    BY <1>5, <1>6, <2>1
  <2>2. CASE ~(i <= k)
    <3>1. i - k \in 1 .. n - k /\ k + (i - k) = i
      BY <2>2
    <3>2. QED
      BY <1>4, <1>5, <1>6, <2>2, <3>1, SMTT(20) DEF rest
  <2>3. QED
    BY <2>1, <2>2
<1>8. front \o rest = all
  BY <1>5, <1>6, <1>7, SeqEqual
<1>9. QED
  BY <1>5, <1>8 DEF front, rest, all, Fore, Cat

(* A socket that takes n more cells takes them from the front.             *)
LEMMA FlushSplits ==
  ASSUME NEW b \in Buf, NEW q \in Queue, NEW n \in 0 .. Len(q)
  PROVE  LET taken == [i \in 1 .. n |-> At(b, q[i])]
         IN  /\ taken \in Seq(Cell)
             /\ Drop(q, n) \in Queue
             /\ Cat(taken, Cells(b, Drop(q, n))) = Cells(b, q)
<1> DEFINE taken == [i \in 1 .. n |-> At(b, q[i])]
           rest  == Cells(b, Drop(q, n))
<1>1. /\ Cells(b, q) \in Seq(Cell) /\ Len(Cells(b, q)) = Len(q)
      /\ \A i \in 1 .. Len(q) : Cells(b, q)[i] = At(b, q[i])
  BY CellsSeq
<1>2. /\ Len(q) \in Nat /\ n \in Nat /\ n <= Len(q)
  BY DEF Queue
<1>3. \A i \in 1 .. n : At(b, q[i]) \in Cell
  BY DEF At, Buf, Cell, Queue
<1>4. taken \in Seq(Cell) /\ Len(taken) = n /\ \A i \in 1 .. n : taken[i] = At(b, q[i])
  BY <1>2, <1>3, FunIsSeq
<1>5. /\ Drop(q, n) \in Queue /\ Len(Drop(q, n)) = Len(q) - n
      /\ \A i \in 1 .. Len(q) - n : Drop(q, n)[i] = q[n + i]
  BY DropSeq DEF Queue
<1>6. /\ rest \in Seq(Cell) /\ Len(rest) = Len(q) - n
      /\ \A i \in 1 .. Len(q) - n : rest[i] = At(b, q[n + i])
  <2> DEFINE u == Drop(q, n)
  <2>1. /\ u \in Queue /\ Len(u) = Len(q) - n
        /\ \A i \in 1 .. Len(q) - n : u[i] = q[n + i]
    BY <1>5
  <2> HIDE DEF u
  <2>2. /\ Cells(b, u) \in Seq(Cell) /\ Len(Cells(b, u)) = Len(u)
        /\ \A i \in 1 .. Len(u) : Cells(b, u)[i] = At(b, u[i])
    BY <2>1, CellsSeq, Zenon
  <2>3. rest = Cells(b, u)
    BY DEF u
  <2> HIDE DEF rest
  <2>4. QED
    BY <2>1, <2>2, <2>3
<1> HIDE DEF taken, rest
<1>7. /\ taken \o rest \in Seq(Cell) /\ Len(taken \o rest) = Len(q)
      /\ \A i \in 1 .. Len(q) : (taken \o rest)[i] = IF i <= n THEN taken[i] ELSE rest[i - n]
  BY <1>2, <1>4, <1>6, ConcatProperties
<1>8. ASSUME NEW i \in 1 .. Len(q)
      PROVE  (taken \o rest)[i] = Cells(b, q)[i]
  <2>1. CASE i <= n
    BY <1>1, <1>4, <1>7, <2>1
  <2>2. CASE ~(i <= n)
    <3>1. i - n \in 1 .. Len(q) - n /\ n + (i - n) = i
      BY <1>2, <2>2
    <3>2. QED
      BY <1>1, <1>6, <1>7, <2>2, <3>1
  <2>3. QED
    BY <2>1, <2>2
<1>9. taken \o rest = Cells(b, q)
  BY <1>1, <1>7, <1>8, SeqEqual
<1>10. QED
  BY <1>4, <1>5, <1>9 DEF taken, rest, Cat

LEMMA NothingQueued ==
  ASSUME NEW b, NEW s \in Seq(Cell)
  PROVE  Cells(b, << >>) = << >> /\ Cat(s, Cells(b, << >>)) = s
<1>1. Cells(b, << >>) = << >>
  BY DEF Cells
<1>2. QED
  BY <1>1, ConcatEmptySeq DEF Cat

-----------------------------------------------------------------------------
(* The inductive invariant, one tunnel at a time.                          *)

(* The status and the handles: a server handle exists from the first       *)
(* request on, and stands for a connection exactly while CONNECTED.        *)
Phases(r) ==
  /\ r.mem = "none" => r.server = "none"
  /\ r.server = "none" <=> r.status \in {"unset", "TUNNEL_START"}
  /\ r.status = "CONNECTED_TO_SERVER" <=> r.server \in {"open", "eof", "error"}
  /\ r.mem = "freed" => r.server \in {"none", "init"}

(* The reply is the first thing the client is sent, at the first request.  *)
Replied(r) ==
  /\ r.server = "none" => r.asked = << >> /\ r.toClient = << >> /\ r.clientQ = << >>
  /\ r.server # "none" => r.asked # << >> /\ Head(r.asked) = "ok"

(* Before the connection is up nothing is forwarded and every cell read is *)
(* skipped.                                                                *)
Unforwarded(r) ==
  r.status # "CONNECTED_TO_SERVER"
    => /\ r.toServer = << >> /\ r.serverQ = << >>
       /\ r.skipped = Len(r.script) - Len(r.fromClient)

(* What is unread is the end of what the client sends.                     *)
Unread(r) ==
  /\ r.skipped + Len(r.fromClient) <= Len(r.script)
  /\ \A i \in 1 .. Len(r.fromClient) :
       r.fromClient[i] = r.script[Len(r.script) - Len(r.fromClient) + i]

(* A write waits for the server only while client_write_req is queued, and *)
(* only at a socket that is not broken.                                    *)
Waiting(r) == r.write # "queued" \/ "server" \in r.broken => r.serverQ = << >>

(* ForwardExact of one tunnel: everything read, while the socket works...  *)
Forwarded(r) ==
  "server" \notin r.broken
    => Cat(r.toServer, Cells(r.client_buf, r.serverQ))
         = Between(r.script, r.skipped, Len(r.fromClient))

(* ... and what the server has is its beginning, also after that.          *)
Prefixed(r) ==
  /\ r.skipped + Len(r.toServer) <= Len(r.script) - Len(r.fromClient)
  /\ \A i \in 1 .. Len(r.toServer) : r.toServer[i] = r.script[r.skipped + i]

Sound(r) ==
  /\ Phases(r) /\ Replied(r) /\ Unforwarded(r) /\ Unread(r)
  /\ Waiting(r) /\ Forwarded(r) /\ Prefixed(r)

(* client_write_req is reused only by a tunnel that is behind.             *)
ReusedBehind ==
  fate \in {"request reuse", "reply reuse"}
    => \E t \in Tunnels : tun[t].write = "queued" \/ tun[t].clientFull

IInv == TypeOK /\ ReusedBehind /\ \A t \in Tunnels : Sound(tun[t])

(* Each part is about a few of the fields. *)
LEMMA SameUnread ==
  ASSUME NEW r, NEW q, Unread(r),
         q.script = r.script, q.skipped = r.skipped, q.fromClient = r.fromClient
  PROVE  Unread(q)
BY Zenon DEF Unread

LEMMA SameUnforwarded ==
  ASSUME NEW r, NEW q, Unforwarded(r),
         r.status # "CONNECTED_TO_SERVER" \/ q.status = r.status,
         q.toServer = r.toServer, q.serverQ = r.serverQ,
         q.script = r.script, q.skipped = r.skipped, q.fromClient = r.fromClient
  PROVE  Unforwarded(q)
BY Zenon DEF Unforwarded

LEMMA SameForwarded ==
  ASSUME NEW r, NEW q, Forwarded(r), "server" \in r.broken => "server" \in q.broken,
         q.toServer = r.toServer, q.serverQ = r.serverQ, q.client_buf = r.client_buf,
         q.script = r.script, q.skipped = r.skipped, q.fromClient = r.fromClient
  PROVE  Forwarded(q)
BY Zenon DEF Forwarded

LEMMA SamePrefixed ==
  ASSUME NEW r, NEW q, Prefixed(r), q.toServer = r.toServer,
         q.script = r.script, q.skipped = r.skipped, q.fromClient = r.fromClient
  PROVE  Prefixed(q)
BY Zenon DEF Prefixed

(* A step that is not about the data for the server.                       *)
LEMMA SameSound ==
  ASSUME NEW r, NEW q, Sound(r), Phases(q), Replied(q),
         r.status # "CONNECTED_TO_SERVER" \/ q.status = r.status,
         q.toServer = r.toServer, q.serverQ = r.serverQ, q.client_buf = r.client_buf,
         q.script = r.script, q.skipped = r.skipped, q.fromClient = r.fromClient,
         Waiting(q), "server" \in r.broken => "server" \in q.broken
  PROVE  Sound(q)
<1>1. Unforwarded(r) /\ Unread(r) /\ Forwarded(r) /\ Prefixed(r)
  BY Zenon DEF Sound
<1>2. Unforwarded(q)
  BY <1>1, SameUnforwarded, Zenon
<1>3. Unread(q) /\ Prefixed(q)
  BY <1>1, SameUnread, SamePrefixed, Zenon
<1>4. Forwarded(q)
  BY <1>1, SameForwarded, Zenon
<1>5. QED
  BY <1>2, <1>3, <1>4, Zenon DEF Sound

(* What has been given to the server's socket is the beginning of what the *)
(* client sent, as long as all of it was forwarded.                        *)
LEMMA ForwardedPrefix ==
  ASSUME NEW r \in TunnelType, Unread(r), NEW later \in Seq(Cell),
         Cat(r.toServer, later) = Between(r.script, r.skipped, Len(r.fromClient))
  PROVE  Prefixed(r)
<1> DEFINE s == r.script
           a == r.toServer
           m == r.skipped
           k == Len(r.fromClient)
           e == Len(s) - k
<1>1. /\ s \in Seq(Cell) /\ a \in Seq(Cell) /\ m \in Nat /\ k \in Nat
      /\ m + k <= Len(s) /\ Len(s) \in Nat /\ Len(a) \in Nat /\ Len(later) \in Nat
  BY DEF TunnelType, Unread
<1>2. Cat(a, later) = SubSeq(s, m + 1, e)
  BY DEF Between
<1> HIDE DEF s, a, m, k
<1>3. e \in m .. Len(s) /\ m \in 0 .. Len(s)
  BY <1>1
<1> HIDE DEF e
<1>4. /\ Len(SubSeq(s, m + 1, e)) = e - m
      /\ \A i \in 1 .. e - m : SubSeq(s, m + 1, e)[i] = s[m + i]
  BY <1>1, <1>3, MiddleSeq
<1>5. /\ Len(Cat(a, later)) = Len(a) + Len(later)
      /\ \A i \in 1 .. Len(a) + Len(later) :
           Cat(a, later)[i] = IF i <= Len(a) THEN a[i] ELSE later[i - Len(a)]
  BY <1>1, ConcatProperties DEF Cat
<1>6. e - m = Len(a) + Len(later)
  BY <1>2, <1>4, <1>5
<1>7. m + Len(a) <= e
  BY <1>1, <1>3, <1>6
<1>8. ASSUME NEW i \in 1 .. Len(a)
      PROVE  a[i] = s[m + i]
  <2>1. i \in 1 .. Len(a) + Len(later) /\ i <= Len(a) /\ i \in 1 .. e - m
    BY <1>1, <1>6
  <2>2. QED
    BY <1>2, <1>4, <1>5, <2>1
<1>9. QED
  BY <1>7, <1>8 DEF Prefixed, s, a, m, k, e

-----------------------------------------------------------------------------

LEMMA InitIInv == Init => IInv
<1> SUFFICES ASSUME Init PROVE IInv
  OBVIOUS
<1>1. ASSUME NEW t \in Tunnels
      PROVE  tun[t] \in TunnelType /\ Sound(tun[t])
  <2>1. PICK cells, answer : tun[t] = NoTunnel(cells, answer)
    BY DEF Init
  <2>2. tun[t].script = cells /\ tun[t].fromServer = answer
    BY <2>1 DEF NoTunnel
  <2>3. cells \in Seq(Cell) /\ answer \in Seq(Cell)
    <3>1. tun[t].script \in ClientCells[t] /\ tun[t].fromServer \in ServerCells[t]
      BY DEF Init
    <3>2. ClientCells[t] \cup ServerCells[t] \subseteq Seq(Cell)
      OBVIOUS
    <3>3. QED
      BY <2>2, <3>1, <3>2
  <2>4. Unused(MAXSIZE) \in [1 .. MAXSIZE -> Cell] /\ Unused(Inside) \in [1 .. Inside -> Cell]
    BY DEF Unused, Cell
  <2>5. tun[t] \in TunnelType
    BY <2>1, <2>3, <2>4 DEF NoTunnel, TunnelType, Statuses
  <2> DEFINE r == NoTunnel(cells, answer)
  <2>6. Phases(r) /\ Replied(r) /\ Unforwarded(r)
    BY DEF NoTunnel, Phases, Replied, Unforwarded
  <2>7. SubSeq(cells, 1, Len(cells)) = cells /\ SubSeq(cells, 1, 0) = << >>
    BY <2>3, SubSeqFull, SubSeqEmpty
  <2>8. Unread(r)
    <3>1. /\ Len(cells) \in Nat /\ 0 + Len(cells) <= Len(cells)
          /\ \A i \in 1 .. Len(cells) : Len(cells) - Len(cells) + i = i
      BY <2>3
    <3>2. r.skipped = 0 /\ r.script = cells /\ r.fromClient = cells
      BY DEF NoTunnel
    <3> HIDE DEF r
    <3>3. QED
      BY <3>1, <3>2 DEF Unread
  <2>9. Forwarded(r)
    <3>1. /\ r.toServer = << >> /\ r.serverQ = << >>
          /\ Between(r.script, r.skipped, Len(r.fromClient)) = << >>
      <4>1. Len(cells) - Len(cells) = 0 /\ 0 + 1 = 1
        BY <2>3
      <4>2. QED
        BY <2>7, <4>1 DEF NoTunnel, Between
    <3> HIDE DEF r
    <3>2. QED
      BY <3>1, NothingQueued, EmptySeq DEF Forwarded
  <2>10. Waiting(r)
    BY DEF NoTunnel, Waiting
  <2>11. Prefixed(r)
    <3>1. r.toServer = << >> /\ r.skipped = 0 /\ r.script = cells /\ r.fromClient = cells
      BY DEF NoTunnel
    <3>2. Len(<< >>) = 0 /\ Len(cells) \in Nat /\ 0 + 0 <= Len(cells) - Len(cells)
      BY <2>3
    <3> HIDE DEF r
    <3>3. QED
      BY <3>1, <3>2 DEF Prefixed
  <2>12. QED
    BY <2>1, <2>5, <2>6, <2>8, <2>9, <2>10, <2>11 DEF Sound
<1>2. tun \in [Tunnels -> TunnelType]
  BY <1>1 DEF Init
<1>3. QED
  BY <1>1, <1>2 DEF Init, IInv, TypeOK, ReusedBehind

(* A callback works on its own Tunnel.                                     *)
LEMMA BecomeStep ==
  ASSUME IInv, Running, NEW t \in Tunnels, NEW r \in TunnelType, Sound(r), Become(t, r)
  PROVE  IInv'
<1>1. tun \in [Tunnels -> TunnelType] /\ \A u \in Tunnels : Sound(tun[u])
  BY DEF IInv, TypeOK
<1>2. tun' = [tun EXCEPT ![t] = r] /\ fate' = fate
  BY DEF Become
<1>3. tun' \in [Tunnels -> TunnelType] /\ \A u \in Tunnels : Sound(tun'[u])
  BY <1>1, <1>2
<1>4. QED
  BY <1>2, <1>3 DEF IInv, TypeOK, ReusedBehind, Running

(* Undefined and Aborted say nothing more of any tunnel.                   *)
LEMMA EndStep ==
  ASSUME IInv, NEW c \in Causes, Undefined(c),
         c \in {"request reuse", "reply reuse"}
           => \E t \in Tunnels : tun[t].write = "queued" \/ tun[t].clientFull
  PROVE  IInv'
BY DEF IInv, TypeOK, ReusedBehind, Undefined

LEMMA AbortedStep ==
  ASSUME IInv, Aborted
  PROVE  IInv'
BY DEF IInv, TypeOK, ReusedBehind, Aborted

(* That a request is done touches neither the data nor the handles.        *)
LEMMA SettledSound ==
  ASSUME NEW r \in TunnelType, Sound(r)
  PROVE  Settled(r) \in TunnelType /\ Sound(Settled(r))
<1> DEFINE now == r.write = "queued" /\ r.serverQ = << >> /\ ~Contains(r.clientQ, 0)
           w   == IF now THEN "done" ELSE r.write
           q   == [r EXCEPT !.write = w]
<1>1. Settled(r) = q
  BY DEF Settled
<1>2. w \in {"free", "queued", "done"} /\ (w = r.write \/ r.serverQ = << >>)
  BY DEF TunnelType
<1> HIDE DEF w
<1>3. q \in TunnelType
  BY <1>2 DEF TunnelType
<1>4. /\ q.mem = r.mem /\ q.status = r.status /\ q.server = r.server
      /\ q.toServer = r.toServer /\ q.serverQ = r.serverQ /\ q.client_buf = r.client_buf
      /\ q.toClient = r.toClient /\ q.clientQ = r.clientQ /\ q.asked = r.asked
      /\ q.script = r.script /\ q.skipped = r.skipped /\ q.fromClient = r.fromClient
      /\ q.broken = r.broken /\ q.write = w
  BY DEF TunnelType
<1> HIDE DEF q
<1>5. Phases(q) /\ Replied(q) /\ Waiting(q)
  BY <1>2, <1>4 DEF Sound, Phases, Replied, Waiting
<1>6. Sound(q)
  BY <1>4, <1>5, SameSound, Zenon
<1>7. QED
  BY <1>1, <1>3, <1>6

(* What breaks a socket loses only what it had not taken yet.              *)
LEMMA BreakSound ==
  ASSUME NEW r \in TunnelType, Sound(r), NEW side \in {"client", "server"}
  PROVE  Break(r, side) \in TunnelType /\ Sound(Break(r, side))
<1> DEFINE owed == IF side = "client" THEN << >> ELSE r.clientQ
           left == IF side = "server" THEN << >> ELSE r.serverQ
           gone == r.broken \cup {side}
           q    == [r EXCEPT !.broken = gone, !.clientQ = owed, !.serverQ = left]
<1>1. Break(r, side) = Settled(q)
  BY DEF Break
<1>2. /\ owed \in Seq(0 .. MAXSIZE) /\ left \in Seq(1 .. MAXSIZE)
      /\ gone \in SUBSET {"client", "server"} /\ r.broken \subseteq gone
      /\ owed \in {<< >>, r.clientQ} /\ left \in {<< >>, r.serverQ}
      /\ side = "server" => left = << >> /\ "server" \in gone
      /\ side = "client" => left = r.serverQ /\ ("server" \in gone <=> "server" \in r.broken)
  <2>1. r.clientQ \in Seq(0 .. MAXSIZE) /\ r.serverQ \in Seq(1 .. MAXSIZE)
        /\ r.broken \in SUBSET {"client", "server"}
    BY DEF TunnelType
  <2>2. owed \in {<< >>, r.clientQ} /\ left \in {<< >>, r.serverQ}
        /\ (side = "server" => left = << >>) /\ (side = "client" => left = r.serverQ)
    OBVIOUS
  <2>3. gone \in SUBSET {"client", "server"} /\ r.broken \subseteq gone
        /\ (side = "server" => "server" \in gone)
        /\ (side = "client" => ("server" \in gone <=> "server" \in r.broken))
    BY <2>1
  <2> HIDE DEF owed, left, gone
  <2>4. owed \in Seq(0 .. MAXSIZE)
    <3>1. owed = << >> \/ owed = r.clientQ
      BY <2>2, Zenon
    <3>2. << >> \in Seq(0 .. MAXSIZE)
      OBVIOUS
    <3>3. QED
      BY <2>1, <3>1, <3>2, Zenon
  <2>5. left \in Seq(1 .. MAXSIZE)
    <3>1. left = << >> \/ left = r.serverQ
      BY <2>2, Zenon
    <3>2. << >> \in Seq(1 .. MAXSIZE)
      OBVIOUS
    <3>3. QED
      BY <2>1, <3>1, <3>2, Zenon
  <2>6. QED
    BY <2>2, <2>3, <2>4, <2>5, Zenon
<1> HIDE DEF owed, left, gone
<1>3. q \in TunnelType
  BY <1>2 DEF TunnelType
<1>4. /\ q.mem = r.mem /\ q.status = r.status /\ q.server = r.server
      /\ q.toServer = r.toServer /\ q.serverQ = left /\ q.client_buf = r.client_buf
      /\ q.toClient = r.toClient /\ q.clientQ = owed /\ q.asked = r.asked
      /\ q.script = r.script /\ q.skipped = r.skipped /\ q.fromClient = r.fromClient
      /\ q.broken = gone /\ q.write = r.write
  BY DEF TunnelType
<1> HIDE DEF q
<1>5. Phases(q) /\ Replied(q)
  BY <1>2, <1>4 DEF Sound, Phases, Replied
<1>6. Waiting(q)
  BY <1>2, <1>4 DEF Sound, Waiting
<1>7. Unforwarded(q)
  BY <1>2, <1>4 DEF Sound, Unforwarded
<1>8. Unread(q) /\ Prefixed(q)
  BY <1>4, SameUnread, SamePrefixed, Zenon DEF Sound
<1>9. Forwarded(q)
  <2>1. CASE side = "server"
    BY <1>2, <1>4, <2>1 DEF Forwarded
  <2>2. CASE side = "client"
    <3>1. Forwarded(r)
      BY DEF Sound
    <3>2. q.serverQ = r.serverQ /\ ("server" \in r.broken => "server" \in q.broken)
      BY <1>2, <1>4, <2>2
    <3>3. QED
      BY <1>4, <3>1, <3>2, SameForwarded, Zenon
  <2>3. QED
    BY <2>1, <2>2
<1>10. Sound(q)
  BY <1>5, <1>6, <1>7, <1>8, <1>9, Zenon DEF Sound
<1>11. QED
  BY <1>1, <1>3, <1>10, SettledSound

LEMMA NewClientStep ==
  ASSUME IInv, Running, NEW t \in Tunnels, OnNewClient(t)
  PROVE  IInv'
<1> DEFINE r == tun[t]
<1>1. r \in TunnelType /\ Sound(r) /\ r.mem = "none"
  BY DEF IInv, TypeOK, OnNewClient
<1>2. OnNewClient(t) =>
        \/ Become(t, [r EXCEPT !.mem = "live", !.client = "open", !.status = "TUNNEL_START"])
        \/ Become(t, [r EXCEPT !.mem = "freed", !.client = "init"])
        \/ Undefined("freed tunnel")
  BY DEF OnNewClient
<1> HIDE DEF r
<1>3. ASSUME NEW q, q = [r EXCEPT !.mem = "live", !.client = "open", !.status = "TUNNEL_START"]
      PROVE  q \in TunnelType /\ Sound(q)
  <2>1. q \in TunnelType
    BY <1>1, <1>3 DEF TunnelType, Statuses
  <2>2. Sound(q)
    BY <1>1, <1>3 DEF TunnelType, Sound, Phases, Replied, Unforwarded, Unread, Waiting, Forwarded,
                         Prefixed
  <2>3. QED
    BY <2>1, <2>2
<1>4. ASSUME NEW q, q = [r EXCEPT !.mem = "freed", !.client = "init"]
      PROVE  q \in TunnelType /\ Sound(q)
  <2>1. q \in TunnelType
    BY <1>1, <1>4 DEF TunnelType, Statuses
  <2>2. Sound(q)
    BY <1>1, <1>4 DEF TunnelType, Sound, Phases, Replied, Unforwarded, Unread, Waiting, Forwarded,
                         Prefixed
  <2>3. QED
    BY <2>1, <2>2
<1>5. "freed tunnel" \in Causes
  BY DEF Causes
<1>6. QED
  BY <1>2, <1>3, <1>4, <1>5, BecomeStep, EndStep

(* What one read of the client leaves in the Tunnel, before anything is    *)
(* done with it; a queue into client_buf keeps its cells only if empty.    *)
ClientRead(old, n) ==
  [old EXCEPT
     !.client_buf = Filled(@, SubSeq(old.fromClient, 1, n)),
     !.fromClient = Drop(@, n),
     !.clientFull = n = MAXSIZE,
     !.skipped = IF old.status = "CONNECTED_TO_SERVER" THEN @ ELSE @ + n]

LEMMA ClientReadTyped ==
  ASSUME NEW old \in TunnelType, Sound(old), NEW n \in 0 .. MAXSIZE, n <= Len(old.fromClient)
  PROVE  LET r == ClientRead(old, n)
             d == Fore(old.fromClient, n)
         IN  /\ r \in TunnelType
             /\ r.client_buf \in Buf
             /\ d \in Seq(Cell)
             /\ Fore(r.client_buf, n) = d
             /\ Unread(r)
             /\ Len(r.fromClient) = Len(old.fromClient) - n
             /\ Between(old.script, Len(old.script) - Len(old.fromClient),
                        Len(old.fromClient) - n) = d
<1> DEFINE r == ClientRead(old, n)
           d == Fore(old.fromClient, n)
           f == old.fromClient
           s == old.script
           L == Len(s)
           F == Len(f)
<1>1. /\ f \in Seq(Cell) /\ s \in Seq(Cell) /\ old.client_buf \in Buf
      /\ F \in Nat /\ F = Len(f) /\ L \in Nat /\ L = Len(s)
      /\ old.skipped \in Nat /\ n \in Nat /\ n <= F /\ n \in 0 .. Len(f)
  BY DEF TunnelType, Buf
<1>2. d \in Seq(Cell) /\ Len(d) = n /\ \A i \in 1 .. n : d[i] = f[i]
  BY <1>1 DEF Fore
<1>3. old.skipped + F <= L /\ \A i \in 1 .. F : f[i] = s[L - F + i]
  BY DEF Sound, Unread
<1> HIDE DEF d, F, L, f
<1>4. /\ Filled(old.client_buf, d) \in Buf
      /\ \A i \in 1 .. n : Filled(old.client_buf, d)[i] = d[i]
  <2>1. \A i \in 1 .. n : i \in 1 .. MAXSIZE /\ i <= n
    OBVIOUS
  <2>2. QED
    BY <1>1, <1>2, <2>1, FilledBuf DEF Buf
<1>5. Drop(f, n) \in Seq(Cell) /\ Len(Drop(f, n)) = F - n
      /\ \A i \in 1 .. F - n : Drop(f, n)[i] = f[n + i]
  BY <1>1, DropSeq
<1>6. /\ r \in TunnelType
      /\ r.client_buf = Filled(old.client_buf, d)
      /\ r.fromClient = Drop(f, n)
      /\ r.script = s
      /\ r.skipped \in {old.skipped, old.skipped + n}
  <2> DEFINE k == IF old.status = "CONNECTED_TO_SERVER" THEN old.skipped ELSE old.skipped + n
             full == n = MAXSIZE
             b == Filled(old.client_buf, d)
             u == Drop(f, n)
  <2>2. r = [old EXCEPT !.client_buf = b, !.fromClient = u, !.clientFull = full, !.skipped = k]
    BY DEF ClientRead, d, f, Fore
  <2>3. k \in {old.skipped, old.skipped + n} /\ k \in Nat /\ full \in BOOLEAN
    BY <1>1
  <2>4. b \in Buf /\ u \in Seq(Cell)
    BY <1>4, <1>5
  <2> HIDE DEF k, full, b, u, r
  <2>5. r \in TunnelType /\ r.client_buf = b /\ r.fromClient = u /\ r.script = s
        /\ r.skipped = k
    BY <2>2, <2>3, <2>4 DEF TunnelType, Buf, s
  <2>6. QED
    BY <2>3, <2>5 DEF b, u
<1> HIDE DEF r, s
<1>8. SubSeq(r.client_buf, 1, n) = d
  <2>1. /\ SubSeq(r.client_buf, 1, n) \in Seq(Cell) /\ Len(SubSeq(r.client_buf, 1, n)) = n
        /\ \A i \in 1 .. n : SubSeq(r.client_buf, 1, n)[i] = r.client_buf[i]
    BY <1>4, <1>6 DEF Buf
  <2>2. \A i \in 1 .. n : SubSeq(r.client_buf, 1, n)[i] = d[i]
    BY <1>4, <1>6, <2>1
  <2>3. QED
    BY <1>2, <2>1, <2>2, SeqEqual
<1>9. SubSeq(s, L - F + 1, L - (F - n)) = d
  <2> DEFINE p == SubSeq(s, L - F + 1, L - (F - n))
  <2>1. L - F \in 0 .. Len(s) /\ L - (F - n) \in L - F .. Len(s) /\ L - (F - n) - (L - F) = n
    BY <1>1, <1>3
  <2>2. p \in Seq(Cell) /\ Len(p) = n /\ \A i \in 1 .. n : p[i] = s[L - F + i]
    BY <1>1, <2>1, MiddleSeq
  <2> HIDE DEF p
  <2>3. \A i \in 1 .. n : d[i] = s[L - F + i]
    BY <1>1, <1>2, <1>3, SMTT(20)
  <2>4. p = d
    BY <1>2, <2>2, <2>3, SeqEqual
  <2>5. QED
    BY <2>4 DEF p
<1>10. \A i \in 1 .. F - n : Drop(f, n)[i] = s[L - (F - n) + i]
  <2>1. \A i \in 1 .. F - n : n + i \in 1 .. F /\ L - F + (n + i) = L - (F - n) + i
    BY <1>1
  <2>2. QED
    BY <1>3, <1>5, <2>1
<1>11. Len(r.fromClient) = F - n
  BY <1>5, <1>6
<1>12. Unread(r)
  <2>1. r.skipped + (F - n) <= L
    BY <1>1, <1>3, <1>6
  <2>2. QED
    BY <1>1, <1>6, <1>10, <1>11, <2>1 DEF Unread
<1>13. QED
  BY <1>1, <1>2, <1>4, <1>6, <1>8, <1>9, <1>11, <1>12 DEF r, d, f, s, L, F, Fore, Between

LEMMA RequestTyped ==
  ASSUME NEW r \in TunnelType, NEW sent \in Seq(Cell), NEW wait \in Seq(0 .. MAXSIZE),
         NEW said \in Seq(Cell), NEW server \in {"connecting", "init"}
  PROVE  [r EXCEPT !.write = "queued", !.toClient = sent, !.clientQ = wait, !.asked = said,
                   !.status = "CONNECTING_TO_SERVER", !.server = server] \in TunnelType
BY DEF TunnelType, Statuses

(* A request is answered at once or the reply waits, or is lost; the tunnel*)
(* had no server handle, so nothing was sent to the client before.         *)
LEMMA RequestStep ==
  ASSUME IInv, Running, NEW t \in Tunnels, NEW r \in TunnelType, OnRequest(t, r),
         r.mem = "live", r.status # "CONNECTED_TO_SERVER" => Sound(r), Phases(r),
         r.write # "free" => \E u \in Tunnels : tun[u].write = "queued" \/ tun[u].clientFull
  PROVE  IInv'
<1>1. CASE r.write # "free" /\ Undefined("reply reuse")
  BY <1>1, EndStep DEF Causes
<1>2. CASE Undefined("handle reuse") \/ Undefined("freed tunnel")
  BY <1>2, EndStep DEF Causes
<1>3. ASSUME r.server = "none",
             NEW atOnce \in BOOLEAN, NEW server \in {"connecting", "init"},
             LET lost == "client" \in r.broken
             IN  Become(t, Settled([r EXCEPT
                   !.write = "queued",
                   !.toClient = IF atOnce /\ ~lost THEN Append(@, "ok") ELSE @,
                   !.clientQ = IF atOnce \/ lost THEN @ ELSE Append(@, 0),
                   !.asked = Append(@, "ok"),
                   !.status = "CONNECTING_TO_SERVER",
                   !.server = server]))
      PROVE  IInv'
  <2> DEFINE lost == "client" \in r.broken
             sent == IF atOnce /\ ~lost THEN Append(r.toClient, "ok") ELSE r.toClient
             wait == IF atOnce \/ lost THEN r.clientQ ELSE Append(r.clientQ, 0)
             said == Append(r.asked, "ok")
             q    == [r EXCEPT !.write = "queued", !.toClient = sent, !.clientQ = wait,
                               !.asked = said, !.status = "CONNECTING_TO_SERVER",
                               !.server = server]
  <2>1. Become(t, Settled(q))
    BY <1>3
  <2>2. r.status # "CONNECTED_TO_SERVER"
    BY <1>3 DEF Phases
  <2>3. Sound(r) /\ r.asked = << >> /\ r.toClient = << >> /\ r.clientQ = << >>
        /\ r.serverQ = << >>
    BY <1>3, <2>2 DEF Sound, Replied, Unforwarded
  <2>4. said \in Seq(Cell) /\ said # << >> /\ Head(said) = "ok"
        /\ sent \in Seq(Cell) /\ wait \in Seq(0 .. MAXSIZE)
    <3>1. Append(<< >>, "ok") = <<"ok">> /\ Append(<< >>, 0) = <<0>>
      OBVIOUS
    <3>2. /\ <<"ok">> \in Seq(Cell) /\ <<"ok">> # << >> /\ Head(<<"ok">>) = "ok"
          /\ <<0>> \in Seq(0 .. MAXSIZE) /\ << >> \in Seq(Cell) /\ << >> \in Seq(0 .. MAXSIZE)
      BY DEF Cell
    <3>3. said = <<"ok">> /\ sent \in {<< >>, <<"ok">>} /\ wait \in {<< >>, <<0>>}
      BY <2>3, <3>1
    <3> HIDE DEF sent, wait, said
    <3>4. QED
      BY <3>2, <3>3
  <2> HIDE DEF sent, wait, said, lost
  <2>5. q \in TunnelType
    BY <2>4, RequestTyped
  <2>6. /\ q.toClient = sent /\ q.clientQ = wait /\ q.asked = said /\ q.write = "queued"
        /\ q.status = "CONNECTING_TO_SERVER" /\ q.server = server /\ q.mem = r.mem
        /\ q.toServer = r.toServer /\ q.serverQ = r.serverQ /\ q.client_buf = r.client_buf
        /\ q.script = r.script /\ q.fromClient = r.fromClient /\ q.skipped = r.skipped
        /\ q.broken = r.broken
    BY DEF TunnelType
  <2> HIDE DEF q
  <2>7. Phases(q)
    BY <2>6 DEF Phases
  <2>8. Replied(q)
    BY <2>4, <2>6 DEF Replied
  <2>9. Waiting(q) /\ ("server" \in r.broken => "server" \in q.broken)
    BY <2>3, <2>6 DEF Waiting
  <2>10. Sound(q)
    BY <2>2, <2>3, <2>6, <2>7, <2>8, <2>9, SameSound, Zenon
  <2>11. Settled(q) \in TunnelType /\ Sound(Settled(q))
    BY <2>5, <2>10, SettledSound
  <2>12. QED
    BY <2>1, <2>11, BecomeStep
<1>4. QED
  BY <1>1, <1>2, <1>3 DEF OnRequest

(* A read that can be forwarded finds client_write_req free, hence nothing *)
(* of client_buf still queued; it goes behind all that was sent before.    *)
LEMMA ForwardStep ==
  ASSUME IInv, Running, NEW t \in Tunnels, NEW old \in TunnelType, Sound(old),
         NEW n \in 0 .. MAXSIZE, n <= Len(old.fromClient),
         old.status = "CONNECTED_TO_SERVER", OnForward(t, ClientRead(old, n), n),
         old.write # "free" => \E u \in Tunnels : tun[u].write = "queued" \/ tun[u].clientFull
  PROVE  IInv'
<1> DEFINE r == ClientRead(old, n)
           d == Fore(old.fromClient, n)
<1>1. /\ r \in TunnelType /\ r.client_buf \in Buf
      /\ d \in Seq(Cell) /\ Fore(r.client_buf, n) = d
      /\ Unread(r)
      /\ Len(r.fromClient) = Len(old.fromClient) - n
      /\ Between(old.script, Len(old.script) - Len(old.fromClient),
                 Len(old.fromClient) - n) = d
  BY ClientReadTyped
<1>2. /\ r.mem = old.mem /\ r.status = old.status /\ r.server = old.server
      /\ r.toServer = old.toServer /\ r.serverQ = old.serverQ
      /\ r.toClient = old.toClient /\ r.clientQ = old.clientQ /\ r.asked = old.asked
      /\ r.write = old.write /\ r.broken = old.broken
      /\ r.script = old.script /\ r.skipped = old.skipped
  BY DEF ClientRead, TunnelType
<1>3. OnForward(t, r, n)
  OBVIOUS
<1> HIDE DEF r, d
<1>4. CASE old.write # "free" /\ Undefined("request reuse")
  BY <1>4, EndStep DEF Causes
<1>5. CASE Aborted
  BY <1>5, AbortedStep
<1>6. CASE "server" \in r.broken /\ Become(t, [r EXCEPT !.write = "done"])
  <2> DEFINE q == [r EXCEPT !.write = "done"]
  <2>1. q \in TunnelType
    BY <1>1 DEF TunnelType
  <2>2. /\ q.mem = r.mem /\ q.status = r.status /\ q.server = r.server
        /\ q.toServer = r.toServer /\ q.serverQ = r.serverQ /\ q.client_buf = r.client_buf
        /\ q.toClient = r.toClient /\ q.clientQ = r.clientQ /\ q.asked = r.asked
        /\ q.script = r.script /\ q.skipped = r.skipped /\ q.fromClient = r.fromClient
        /\ q.broken = r.broken
    BY <1>1 DEF TunnelType
  <2> HIDE DEF q
  <2>3. Phases(q) /\ Replied(q) /\ Unforwarded(q) /\ Waiting(q) /\ Forwarded(q)
    BY <1>2, <1>6, <2>2 DEF Sound, Phases, Replied, Unforwarded, Waiting, Forwarded
  <2>4. Unread(q)
    BY <1>1, <2>2, SameUnread, Zenon
  <2>5. Prefixed(q)
    <3>1. /\ old.skipped + Len(old.toServer) <= Len(old.script) - Len(old.fromClient)
          /\ \A i \in 1 .. Len(old.toServer) : old.toServer[i] = old.script[old.skipped + i]
      BY DEF Sound, Prefixed
    <3>2. /\ old.skipped \in Nat /\ Len(old.toServer) \in Nat /\ Len(old.script) \in Nat
          /\ Len(old.fromClient) \in Nat /\ n \in Nat
      BY DEF TunnelType
    <3>3. old.skipped + Len(old.toServer) <= Len(old.script) - (Len(old.fromClient) - n)
      <4> DEFINE m == old.skipped
                 a == Len(old.toServer)
                 l == Len(old.script)
                 k == Len(old.fromClient)
      <4>1. m \in Nat /\ a \in Nat /\ l \in Nat /\ k \in Nat /\ n \in Nat /\ m + a <= l - k
        BY <3>1, <3>2
      <4> HIDE DEF m, a, l, k
      <4>2. m + a <= l - (k - n)
        BY <4>1
      <4>3. QED
        BY <4>2 DEF m, a, l, k
    <3>4. QED
      BY <1>1, <1>2, <2>2, <3>1, <3>3 DEF Prefixed
  <2>6. QED
    BY <1>6, <2>1, <2>3, <2>4, <2>5, BecomeStep DEF Sound, q
<1>7. CASE /\ r.write = "free"
           /\ "server" \notin r.broken
           /\ \E k \in 0 .. n :
                Become(t, Settled([r EXCEPT
                  !.write = "queued",
                  !.toServer = @ \o SubSeq(r.client_buf, 1, k),
                  !.serverQ = Refs(k + 1, n)]))
  <2>1. PICK k \in 0 .. n :
          Become(t, Settled([r EXCEPT
            !.write = "queued",
            !.toServer = @ \o SubSeq(r.client_buf, 1, k),
            !.serverQ = Refs(k + 1, n)]))
    BY <1>7
  <2> DEFINE sent == Cat(r.toServer, Fore(r.client_buf, k))
             wait == Refs(k + 1, n)
             q    == [r EXCEPT !.write = "queued", !.toServer = sent, !.serverQ = wait]
  <2>2. Become(t, Settled(q))
    BY <2>1 DEF Cat, Fore
  <2> HIDE DEF sent, wait, q
  <2>3. /\ old.toServer \in Seq(Cell) /\ old.script \in Seq(Cell) /\ old.fromClient \in Seq(Cell)
        /\ old.skipped \in Nat
    BY DEF TunnelType
  <2>4. old.toServer = Between(old.script, old.skipped, Len(old.fromClient))
    <3>1. old.serverQ = << >>
      BY <1>2, <1>7 DEF Sound, Waiting
    <3>2. QED
      BY <1>2, <1>7, <2>3, <3>1, NothingQueued DEF Sound, Forwarded
  <2>5. Cat(old.toServer, d) = Between(old.script, old.skipped, Len(r.fromClient))
    <3>1. Len(old.fromClient) \in Nat /\ old.skipped + Len(old.fromClient) <= Len(old.script)
          /\ n \in Nat
      BY <2>3 DEF Sound, Unread
    <3> DEFINE s == old.script
               m == old.skipped
               F == Len(old.fromClient)
    <3>2. s \in Seq(Cell) /\ m \in Nat /\ F \in Nat /\ n \in Nat /\ n <= F /\ m + F <= Len(s)
      BY <2>3, <3>1
    <3> HIDE DEF s, m, F
    <3>3. Cat(Between(s, m, F), Between(s, Len(s) - F, F - n)) = Between(s, m, F - n)
      BY <3>2, BetweenGrows
    <3>4. QED
      BY <1>1, <2>4, <3>3 DEF s, m, F
  <2>6. /\ Fore(r.client_buf, k) \in Seq(Cell)
        /\ Cat(Fore(r.client_buf, k), Cells(r.client_buf, wait)) = d
    BY <1>1, WriteSplits DEF wait
  <2>7. wait \in Seq(1 .. MAXSIZE) /\ wait \in Queue
    <3>1. k \in 0 .. MAXSIZE /\ n \in k .. MAXSIZE
      OBVIOUS
    <3>2. wait \in Seq(1 .. MAXSIZE)
      BY <3>1, RefsSeq DEF wait
    <3>3. QED
      BY <3>2 DEF Queue
  <2>8. Cells(r.client_buf, wait) \in Seq(Cell)
    BY <1>1, <2>7, CellsSeq
  <2>9. sent \in Seq(Cell) /\ Cat(sent, Cells(r.client_buf, wait)) = Cat(old.toServer, d)
    <3> DEFINE was   == old.toServer
               now   == Fore(r.client_buf, k)
               later == Cells(r.client_buf, wait)
    <3>1. was \in Seq(Cell) /\ now \in Seq(Cell) /\ later \in Seq(Cell) /\ Cat(now, later) = d
          /\ sent = Cat(was, now)
      BY <1>2, <2>3, <2>6, <2>8 DEF sent
    <3> HIDE DEF was, now, later
    <3>2. sent \in Seq(Cell) /\ Cat(sent, later) = Cat(was, d)
      BY <3>1, CatAssociative
    <3>3. QED
      BY <3>2 DEF was, later
  <2>10. q \in TunnelType
    BY <1>1, <2>7, <2>9 DEF TunnelType, q
  <2>11. /\ q.mem = r.mem /\ q.status = r.status /\ q.server = r.server
         /\ q.toServer = sent /\ q.serverQ = wait /\ q.client_buf = r.client_buf
         /\ q.toClient = r.toClient /\ q.clientQ = r.clientQ /\ q.asked = r.asked
         /\ q.script = r.script /\ q.skipped = r.skipped /\ q.fromClient = r.fromClient
         /\ q.broken = r.broken /\ q.write = "queued"
    BY <1>1 DEF TunnelType, q
  <2>12. Phases(q) /\ Replied(q) /\ Unforwarded(q) /\ Waiting(q)
    BY <1>2, <1>7, <2>11 DEF Sound, Phases, Replied, Unforwarded, Waiting
  <2>13. Unread(q)
    BY <1>1, <2>11, SameUnread, Zenon
  <2>14. Forwarded(q)
    BY <1>2, <2>5, <2>9, <2>11 DEF Forwarded
  <2>15. Prefixed(q)
    <3> DEFINE later == Cells(r.client_buf, wait)
    <3>1. later \in Seq(Cell) /\ Cat(q.toServer, later) = Between(q.script, q.skipped, Len(q.fromClient))
      BY <1>2, <2>5, <2>8, <2>9, <2>11
    <3> HIDE DEF later
    <3>2. QED
      BY <2>10, <2>13, <3>1, ForwardedPrefix
  <2>16. Settled(q) \in TunnelType /\ Sound(Settled(q))
    BY <2>10, <2>12, <2>13, <2>14, <2>15, SettledSound DEF Sound
  <2>17. QED
    BY <2>2, <2>16, BecomeStep
<1>8. QED
  BY <1>2, <1>3, <1>4, <1>5, <1>6, <1>7 DEF OnForward

(* on_client_read, whichever way it goes on.                               *)
LEMMA ClientReadStep ==
  ASSUME IInv, Running, NEW t \in Tunnels, NEW n \in 0 .. MAXSIZE, OnClientRead(t, n)
  PROVE  IInv'
<1> DEFINE old == tun[t]
           r   == ClientRead(old, n)
<1>1. old \in TunnelType /\ Sound(old) /\ old.mem = "live"
  BY DEF IInv, TypeOK, OnClientRead
<1>2. /\ n <= Len(old.fromClient)
      /\ old.write # "free" => \E u \in Tunnels : tun[u].write = "queued" \/ tun[u].clientFull
  <2>1. old.write \in {"free", "queued", "done"}
    BY <1>1 DEF TunnelType
  <2>2. QED
    BY <2>1 DEF OnClientRead
<1>3. \/ OnRequest(t, r)
      \/ r.status = "CONNECTED_TO_SERVER" /\ OnForward(t, r, n)
      \/ Undefined("wild copy")
      \/ r.status = "TUNNEL_START" /\ Become(t, r)
  BY DEF OnClientRead, ClientRead
<1> HIDE DEF old
<1>4. n <= Len(old.fromClient) /\ n \in Nat
  BY <1>2
<1>5. r \in TunnelType /\ Unread(r) /\ Len(r.fromClient) = Len(old.fromClient) - n
  BY <1>1, <1>4, ClientReadTyped
<1>6. /\ r.mem = old.mem /\ r.status = old.status /\ r.server = old.server
      /\ r.toServer = old.toServer /\ r.serverQ = old.serverQ
      /\ r.toClient = old.toClient /\ r.clientQ = old.clientQ /\ r.asked = old.asked
      /\ r.write = old.write /\ r.broken = old.broken /\ r.script = old.script
      /\ r.skipped = IF old.status = "CONNECTED_TO_SERVER" THEN old.skipped ELSE old.skipped + n
  BY <1>1 DEF ClientRead, TunnelType
<1>7. CASE Undefined("wild copy")
  BY <1>7, EndStep DEF Causes
<1>8. CASE r.status = "CONNECTED_TO_SERVER" /\ OnForward(t, r, n)
  BY <1>1, <1>2, <1>4, <1>6, <1>8, ForwardStep
<1> HIDE DEF r
<1>9. Phases(r) /\ Replied(r) /\ Waiting(r)
  BY <1>1, <1>6 DEF Sound, Phases, Replied, Waiting
<1>10. Unforwarded(r)
  <2> SUFFICES ASSUME r.status # "CONNECTED_TO_SERVER" PROVE Unforwarded(r)
    BY DEF Unforwarded
  <2>1. old.status # "CONNECTED_TO_SERVER"
    BY <1>6
  <2>2. old.toServer = << >> /\ old.serverQ = << >>
    BY <1>1, <2>1 DEF Sound, Unforwarded
  <2>3. old.skipped = Len(old.script) - Len(old.fromClient)
    BY <1>1, <2>1 DEF Sound, Unforwarded
  <2>4. Len(old.script) \in Nat /\ Len(old.fromClient) \in Nat
    BY <1>1 DEF TunnelType
  <2>5. r.skipped = Len(r.script) - Len(r.fromClient)
    <3>1. r.skipped = old.skipped + n /\ r.script = old.script
      BY <1>6, <2>1
    <3>2. QED
      BY <1>4, <1>5, <2>3, <2>4, <3>1
  <2>6. r.toServer = << >> /\ r.serverQ = << >>
    BY <1>6, <2>2
  <2>7. QED
    BY <2>5, <2>6 DEF Unforwarded
<1>11. r.status # "CONNECTED_TO_SERVER" => Forwarded(r) /\ Prefixed(r)
  <2> SUFFICES ASSUME r.status # "CONNECTED_TO_SERVER" PROVE Forwarded(r) /\ Prefixed(r)
    OBVIOUS
  <2>1. r.toServer = << >> /\ r.serverQ = << >>
    BY <1>10 DEF Unforwarded
  <2>2. r.skipped = Len(r.script) - Len(r.fromClient)
    BY <1>10 DEF Unforwarded
  <2>3. Len(r.script) \in Nat /\ Len(r.fromClient) \in Nat
    BY <1>5 DEF TunnelType
  <2>4. Between(r.script, r.skipped, Len(r.fromClient)) = << >>
    <3> DEFINE x == r.skipped
               k == Len(r.script) - Len(r.fromClient)
    <3>1. x = k /\ k \in Int
      BY <2>2, <2>3
    <3> HIDE DEF x, k
    <3>2. k \in Int /\ x + 1 \in Int /\ k < x + 1
      BY <3>1
    <3>3. SubSeq(r.script, x + 1, k) = << >>
      BY <3>2, SubSeqEmpty
    <3>4. QED
      BY <3>3 DEF x, k, Between
  <2>5. Forwarded(r)
    BY <2>1, <2>4, NothingQueued, EmptySeq DEF Forwarded
  <2>6. Prefixed(r)
    <3>1. Len(r.toServer) = 0 /\ r.skipped + 0 <= Len(r.script) - Len(r.fromClient)
      BY <2>1, <2>2, <2>3
    <3>2. \A i \in 1 .. Len(r.toServer) : r.toServer[i] = r.script[r.skipped + i]
      BY <3>1
    <3>3. r.skipped + Len(r.toServer) <= Len(r.script) - Len(r.fromClient)
      BY <3>1, Zenon
    <3>4. QED
      BY <3>2, <3>3, Zenon DEF Prefixed
  <2>7. QED
    BY <2>5, <2>6
<1>12. r.status # "CONNECTED_TO_SERVER" => Sound(r)
  BY <1>5, <1>9, <1>10, <1>11 DEF Sound
<1>13. CASE OnRequest(t, r)
  BY <1>1, <1>2, <1>5, <1>6, <1>9, <1>12, <1>13, RequestStep
<1>14. CASE r.status = "TUNNEL_START" /\ Become(t, r)
  BY <1>5, <1>12, <1>14, BecomeStep
<1>15. QED
  BY <1>3, <1>7, <1>8, <1>13, <1>14

(* The client's end changes the state of its handle.                       *)
LEMMA ClientEndStep ==
  ASSUME IInv, Running, NEW t \in Tunnels, OnClientEnd(t)
  PROVE  IInv'
<1> DEFINE r    == tun[t]
           eof  == [r EXCEPT !.clientFull = FALSE, !.client = "eof"]
           fail == [r EXCEPT !.clientFull = FALSE, !.client = "error"]
<1>1. r \in TunnelType /\ Sound(r)
  BY DEF IInv, TypeOK
<1>2. Become(t, eof) \/ Become(t, Break(fail, "client"))
  BY DEF OnClientEnd
<1> HIDE DEF r
<1>3. eof \in TunnelType /\ fail \in TunnelType
  BY <1>1 DEF TunnelType
<1>4. Sound(eof) /\ Sound(fail)
  BY <1>1 DEF TunnelType, Sound, Phases, Replied, Unforwarded, Unread, Waiting, Forwarded,
              Prefixed
<1> HIDE DEF eof, fail
<1>5. Break(fail, "client") \in TunnelType /\ Sound(Break(fail, "client"))
  BY <1>3, <1>4, BreakSound
<1>6. QED
  BY <1>2, <1>3, <1>4, <1>5, BecomeStep

LEMMA ClientWriteEndStep ==
  ASSUME IInv, Running, NEW t \in Tunnels, OnClientWriteEnd(t)
  PROVE  IInv'
<1> DEFINE r == tun[t]
           q == [r EXCEPT !.write = "free"]
<1>1. r \in TunnelType /\ Sound(r) /\ r.write = "done" /\ Become(t, q)
  BY DEF IInv, TypeOK, OnClientWriteEnd
<1> HIDE DEF r
<1>2. q \in TunnelType
  BY <1>1 DEF TunnelType
<1>3. Sound(q)
  BY <1>1 DEF TunnelType, Sound, Phases, Replied, Unforwarded, Unread, Waiting, Forwarded,
              Prefixed
<1> HIDE DEF q
<1>4. QED
  BY <1>1, <1>2, <1>3, BecomeStep

LEMMA ServerConnectStep ==
  ASSUME IInv, Running, NEW t \in Tunnels, OnServerConnect(t)
  PROVE  IInv'
<1> DEFINE r == tun[t]
<1>1. r \in TunnelType /\ Sound(r) /\ r.mem = "live" /\ r.server = "connecting"
  BY DEF IInv, TypeOK, OnServerConnect
<1> DEFINE up   == [r EXCEPT !.status = "CONNECTED_TO_SERVER", !.server = "open"]
           gone == [r EXCEPT !.mem = "freed", !.server = "init"]
<1>2. Become(t, up) \/ Become(t, gone)
  BY DEF OnServerConnect
<1> HIDE DEF r
<1>3. r.status \notin {"unset", "TUNNEL_START", "CONNECTED_TO_SERVER"}
  BY <1>1 DEF Sound, Phases
<1>4. up \in TunnelType /\ gone \in TunnelType
  BY <1>1 DEF TunnelType, Statuses
<1>5. Sound(up)
  BY <1>1, <1>3 DEF TunnelType, Sound, Phases, Replied, Unforwarded, Unread, Waiting,
                    Forwarded, Prefixed
<1>6. Sound(gone)
  BY <1>1, <1>3 DEF TunnelType, Sound, Phases, Replied, Unforwarded, Unread, Waiting,
                    Forwarded, Prefixed
<1> HIDE DEF up, gone
<1>7. QED
  BY <1>2, <1>4, <1>5, <1>6, BecomeStep

LEMMA ShownBuf ==
  ASSUME NEW r \in TunnelType
  PROVE  Shown(r) \in [1 .. MAXSIZE -> Cell]
<1>1. r.server_buf \in [1 .. Inside -> Cell] /\ "?" \in Cell
  BY DEF TunnelType, Cell
<1>2. QED
  BY <1>1 DEF Shown, Inside

(* What the client is sent is about cells only, and starts with the reply. *)
LEMMA ServerReadStep ==
  ASSUME IInv, Running, NEW t \in Tunnels, NEW n \in 1 .. MAXSIZE, OnServerRead(t, n)
  PROVE  IInv'
<1> DEFINE old == tun[t]
           r   == [old EXCEPT
                     !.server_buf = Filled(@, SubSeq(old.fromServer, 1, n)),
                     !.fromServer = Drop(@, n)]
<1>1. old \in TunnelType /\ Sound(old) /\ old.server = "open" /\ n \in 1 .. Len(old.fromServer)
  BY DEF IInv, TypeOK, OnServerRead
<1>2. \/ Undefined("overrun")
      \/ Become(t, [r EXCEPT !.asked = @ \o Shown(r)])
      \/ \E k \in 0 .. MAXSIZE : Become(t, Relay(r, k))
  BY DEF OnServerRead
<1> HIDE DEF old
<1>3. /\ old.fromServer \in Seq(Cell) /\ old.server_buf \in [1 .. Inside -> Cell]
      /\ old.toClient \in Seq(Cell) /\ old.clientQ \in Queue /\ old.asked \in Seq(Cell)
      /\ Inside \in Nat /\ n \in 0 .. Len(old.fromServer)
  BY <1>1 DEF TunnelType, Queue, Inside
<1> DEFINE d == SubSeq(old.fromServer, 1, n)
           b == Filled(old.server_buf, d)
           u == Drop(old.fromServer, n)
<1>4. d \in Seq(Cell)
  BY <1>3
<1>5. r = [old EXCEPT !.server_buf = b, !.fromServer = u]
  OBVIOUS
<1> HIDE DEF d, r
<1>6. b \in [1 .. Inside -> Cell] /\ u \in Seq(Cell)
  BY <1>3, <1>4, FilledBuf, DropSeq
<1> HIDE DEF b, u
<1>7. r \in TunnelType
  BY <1>1, <1>5, <1>6 DEF TunnelType
<1>8. /\ r.mem = old.mem /\ r.status = old.status /\ r.server = old.server
      /\ r.toServer = old.toServer /\ r.serverQ = old.serverQ /\ r.client_buf = old.client_buf
      /\ r.toClient = old.toClient /\ r.clientQ = old.clientQ /\ r.asked = old.asked
      /\ r.script = old.script /\ r.skipped = old.skipped /\ r.fromClient = old.fromClient
      /\ r.broken = old.broken /\ r.write = old.write
  BY <1>1, <1>5 DEF TunnelType
<1> DEFINE shown == Shown(r)
           said  == Cat(r.asked, shown)
<1>9. shown \in Seq(Cell) /\ Len(shown) = MAXSIZE
  <2>1. shown \in [1 .. MAXSIZE -> Cell]
    BY <1>7, ShownBuf
  <2> HIDE DEF shown
  <2>2. QED
    BY <2>1, FunIsSeq
<1> HIDE DEF shown
<1>10. old.asked # << >> /\ Head(old.asked) = "ok" /\ old.server # "none"
  BY <1>1 DEF Sound, Replied
<1>11. said \in Seq(Cell) /\ said # << >> /\ Head(said) = "ok"
  <2> DEFINE told == old.asked
  <2>1. told \in Seq(Cell) /\ told # << >> /\ Head(told) = "ok" /\ said = told \o shown
    BY <1>3, <1>8, <1>10 DEF Cat
  <2> HIDE DEF told, said
  <2>2. Len(told) \in Nat \ {0} /\ told[1] = "ok"
    BY <2>1
  <2>3. /\ told \o shown \in Seq(Cell) /\ Len(told \o shown) = Len(told) + Len(shown)
        /\ \A i \in 1 .. Len(told) + Len(shown) :
             (told \o shown)[i] = IF i <= Len(told) THEN told[i] ELSE shown[i - Len(told)]
    BY <1>9, <2>1, ConcatProperties
  <2>4. 1 \in 1 .. Len(told) + Len(shown) /\ 1 <= Len(told)
    BY <1>9, <2>2
  <2>5. said \in Seq(Cell) /\ Len(said) \in Nat \ {0} /\ said[1] = "ok"
    BY <1>9, <2>1, <2>2, <2>3, <2>4
  <2>6. QED
    BY <2>5
<1> HIDE DEF said
<1>12. ASSUME NEW sent \in Seq(Cell), NEW wait \in Queue,
              NEW q, q = [r EXCEPT !.toClient = sent, !.clientQ = wait, !.asked = said],
              Become(t, q)
       PROVE  IInv'
  <2>1. q \in TunnelType
    BY <1>7, <1>11, <1>12 DEF TunnelType, Queue
  <2>2. /\ q.mem = r.mem /\ q.status = r.status /\ q.server = r.server
        /\ q.toServer = r.toServer /\ q.serverQ = r.serverQ /\ q.client_buf = r.client_buf
        /\ q.asked = said
        /\ q.script = r.script /\ q.skipped = r.skipped /\ q.fromClient = r.fromClient
        /\ q.broken = r.broken /\ q.write = r.write
    BY <1>7, <1>12 DEF TunnelType
  <2>3. Phases(q) /\ Replied(q) /\ Waiting(q) /\ ("server" \in old.broken => "server" \in q.broken)
    BY <1>1, <1>8, <1>10, <1>11, <2>2 DEF Sound, Phases, Replied, Waiting
  <2>4. /\ q.status = old.status /\ q.toServer = old.toServer /\ q.serverQ = old.serverQ
        /\ q.client_buf = old.client_buf /\ q.script = old.script
        /\ q.skipped = old.skipped /\ q.fromClient = old.fromClient
    BY <1>8, <2>2, Zenon
  <2>5. Sound(q)
    BY <1>1, <2>3, <2>4, SameSound, Zenon
  <2>6. QED
    BY <1>12, <2>1, <2>5, BecomeStep
<1>13. CASE Undefined("overrun")
  BY <1>13, EndStep DEF Causes
<1>14. CASE Become(t, [r EXCEPT !.asked = @ \o Shown(r)])
  <2> DEFINE q == [r EXCEPT !.toClient = r.toClient, !.clientQ = r.clientQ, !.asked = said]
  <2>1. [r EXCEPT !.asked = @ \o Shown(r)] = q
    BY <1>7 DEF TunnelType, said, shown, Cat
  <2>2. r.toClient \in Seq(Cell) /\ r.clientQ \in Queue /\ Become(t, q)
    BY <1>3, <1>8, <1>14, <2>1
  <2>3. QED
    BY <1>12, <2>2
<1>15. ASSUME NEW k \in 0 .. MAXSIZE, Become(t, Relay(r, k))
       PROVE  IInv'
  <2> DEFINE now  == Fore(shown, k)
             more == Refs(k + 1, MAXSIZE)
             sent == Cat(r.toClient, now)
             wait == Cat(r.clientQ, more)
             q    == [r EXCEPT !.toClient = sent, !.clientQ = wait, !.asked = said]
  <2>1. Become(t, q)
    BY <1>15 DEF Relay, Cat, Fore, said, shown
  <2>2. now \in Seq(Cell)
    BY <1>9 DEF Fore
  <2>3. more \in Seq(0 .. MAXSIZE)
    <3>1. Refs(k + 1, MAXSIZE) \in Seq(1 .. MAXSIZE)
      BY RefsSeq
    <3>2. QED
      BY <3>1
  <2> HIDE DEF now, more
  <2>4. sent \in Seq(Cell) /\ wait \in Queue
    <3> DEFINE was == r.toClient
               had == r.clientQ
    <3>1. was \in Seq(Cell) /\ had \in Seq(0 .. MAXSIZE)
      BY <1>3, <1>8 DEF Queue
    <3> HIDE DEF was, had
    <3>2. was \o now \in Seq(Cell) /\ had \o more \in Seq(0 .. MAXSIZE)
      BY <2>2, <2>3, <3>1, ConcatProperties
    <3>3. QED
      BY <3>2 DEF was, had, Cat, Queue
  <2> HIDE DEF sent, wait
  <2>5. QED
    BY <1>12, <2>1, <2>4
<1>16. QED
  BY <1>2, <1>13, <1>14, <1>15

LEMMA ServerEndStep ==
  ASSUME IInv, Running, NEW t \in Tunnels, OnServerEnd(t)
  PROVE  IInv'
<1> DEFINE r    == tun[t]
           eof  == [r EXCEPT !.server = "eof"]
           fail == [r EXCEPT !.server = "error"]
<1>1. r \in TunnelType /\ Sound(r) /\ r.server = "open"
  BY DEF IInv, TypeOK, OnServerEnd
<1>2. Become(t, eof) \/ Become(t, Break(fail, "server"))
  BY DEF OnServerEnd
<1> HIDE DEF r
<1>3. eof \in TunnelType /\ fail \in TunnelType
  BY <1>1 DEF TunnelType
<1>4. Sound(eof) /\ Sound(fail)
  BY <1>1 DEF TunnelType, Sound, Phases, Replied, Unforwarded, Unread, Waiting, Forwarded,
              Prefixed
<1> HIDE DEF eof, fail
<1>5. Break(fail, "server") \in TunnelType /\ Sound(Break(fail, "server"))
  BY <1>3, <1>4, BreakSound
<1>6. QED
  BY <1>2, <1>3, <1>4, <1>5, BecomeStep

LEMMA ResetStep ==
  ASSUME IInv, Running, NEW t \in Tunnels, NEW side \in {"client", "server"}, Reset(t, side)
  PROVE  IInv'
<1>1. tun[t] \in TunnelType /\ Sound(tun[t]) /\ Become(t, Break(tun[t], side))
  BY DEF IInv, TypeOK, Reset
<1>2. Break(tun[t], side) \in TunnelType /\ Sound(Break(tun[t], side))
  BY <1>1, BreakSound
<1>3. QED
  BY <1>1, <1>2, BecomeStep

LEMMA FlushServerStep ==
  ASSUME IInv, Running, NEW t \in Tunnels, NEW n \in 1 .. MAXSIZE, FlushServer(t, n)
  PROVE  IInv'
<1> DEFINE r == tun[t]
<1>1. r \in TunnelType /\ Sound(r) /\ n \in 1 .. Len(r.serverQ)
  BY DEF IInv, TypeOK, FlushServer
<1> DEFINE taken == [i \in 1 .. n |-> r.client_buf[r.serverQ[i]]]
           sent  == Cat(r.toServer, taken)
           rest  == Drop(r.serverQ, n)
           q     == [r EXCEPT !.toServer = sent, !.serverQ = rest]
<1>2. Become(t, Settled(q))
  BY DEF FlushServer, Cat
<1> HIDE DEF r
<1>3. /\ r.toServer \in Seq(Cell) /\ r.client_buf \in Buf /\ r.serverQ \in Seq(1 .. MAXSIZE)
      /\ r.serverQ \in Queue /\ n \in 0 .. Len(r.serverQ)
  BY <1>1 DEF TunnelType, Buf, Queue
<1>4. \A i \in 1 .. n : At(r.client_buf, r.serverQ[i]) = r.client_buf[r.serverQ[i]]
  BY <1>3 DEF At
<1>5. taken = [i \in 1 .. n |-> At(r.client_buf, r.serverQ[i])]
  BY <1>4
<1> HIDE DEF taken, sent, rest, q
<1>6. /\ taken \in Seq(Cell)
      /\ Cat(taken, Cells(r.client_buf, rest)) = Cells(r.client_buf, r.serverQ)
      /\ rest \in Queue
  BY <1>3, <1>5, FlushSplits DEF rest
<1>7. rest \in Seq(1 .. MAXSIZE)
  BY <1>3, DropSeq DEF rest
<1>8. /\ sent \in Seq(Cell)
      /\ Cat(sent, Cells(r.client_buf, rest)) = Cat(r.toServer, Cells(r.client_buf, r.serverQ))
  <2>1. Cells(r.client_buf, rest) \in Seq(Cell)
    BY <1>3, <1>6, CellsSeq
  <2> DEFINE was   == r.toServer
             later == Cells(r.client_buf, rest)
             all   == Cells(r.client_buf, r.serverQ)
  <2>2. was \in Seq(Cell) /\ later \in Seq(Cell) /\ Cat(taken, later) = all
        /\ sent = Cat(was, taken)
    BY <1>3, <1>6, <2>1 DEF sent
  <2> HIDE DEF was, later, all
  <2>3. sent \in Seq(Cell) /\ Cat(sent, later) = Cat(was, all)
    BY <1>6, <2>2, CatAssociative
  <2>4. QED
    BY <2>3 DEF was, later, all
<1>9. q \in TunnelType
  BY <1>1, <1>7, <1>8 DEF TunnelType, q
<1>10. /\ q.mem = r.mem /\ q.status = r.status /\ q.server = r.server
       /\ q.toServer = sent /\ q.serverQ = rest /\ q.client_buf = r.client_buf
       /\ q.toClient = r.toClient /\ q.clientQ = r.clientQ /\ q.asked = r.asked
       /\ q.script = r.script /\ q.skipped = r.skipped /\ q.fromClient = r.fromClient
       /\ q.broken = r.broken /\ q.write = r.write
  BY <1>1 DEF TunnelType, q
<1>11. r.serverQ # << >>
  BY <1>1, <1>3
<1>12. r.write = "queued" /\ "server" \notin r.broken /\ r.status = "CONNECTED_TO_SERVER"
  BY <1>1, <1>11 DEF Sound, Waiting, Unforwarded
<1>13. Phases(q) /\ Replied(q) /\ Unforwarded(q) /\ Waiting(q)
  BY <1>1, <1>10, <1>12 DEF Sound, Phases, Replied, Unforwarded, Waiting
<1>14. Unread(q)
  BY <1>1, <1>10, SameUnread, Zenon DEF Sound
<1>15. Cat(q.toServer, Cells(q.client_buf, q.serverQ))
         = Between(q.script, q.skipped, Len(q.fromClient))
  BY <1>1, <1>8, <1>10, <1>12 DEF Sound, Forwarded
<1>16. Prefixed(q)
  <2> DEFINE later == Cells(q.client_buf, q.serverQ)
  <2>1. later \in Seq(Cell)
    BY <1>3, <1>6, <1>10, CellsSeq
  <2>2. Cat(q.toServer, later) = Between(q.script, q.skipped, Len(q.fromClient))
    BY <1>15
  <2> HIDE DEF later
  <2>3. QED
    BY <1>9, <1>14, <2>1, <2>2, ForwardedPrefix
<1>17. Settled(q) \in TunnelType /\ Sound(Settled(q))
  BY <1>9, <1>13, <1>14, <1>15, <1>16, SettledSound DEF Sound, Forwarded
<1>18. QED
  BY <1>2, <1>17, BecomeStep

LEMMA FlushClientStep ==
  ASSUME IInv, Running, NEW t \in Tunnels, NEW n \in 1 .. MAXSIZE, FlushClient(t, n)
  PROVE  IInv'
<1> DEFINE r == tun[t]
<1>1. r \in TunnelType /\ Sound(r) /\ n \in 1 .. Len(r.clientQ)
  BY DEF IInv, TypeOK, FlushClient
<1> DEFINE taken == Queued(r, n)
           sent  == Cat(r.toClient, taken)
           rest  == Drop(r.clientQ, n)
           q     == [r EXCEPT !.toClient = sent, !.clientQ = rest]
<1>2. Become(t, Settled(q))
  BY DEF FlushClient, Cat
<1> HIDE DEF r
<1>3. /\ r.toClient \in Seq(Cell) /\ r.clientQ \in Queue /\ n \in 0 .. Len(r.clientQ)
      /\ n \in Nat
  BY <1>1 DEF TunnelType, Queue
<1>4. taken \in Seq(Cell)
  <2> DEFINE shown == Shown(r)
  <2>1. shown \in [1 .. MAXSIZE -> Cell]
    BY <1>1, ShownBuf
  <2>2. taken = [i \in 1 .. n |-> IF r.clientQ[i] = 0 THEN "?" ELSE shown[r.clientQ[i]]]
    BY DEF Queued
  <2> HIDE DEF taken, shown
  <2>3. "?" \in Cell /\ \A i \in 1 .. n : r.clientQ[i] \in 0 .. MAXSIZE
    BY <1>3 DEF Cell, Queue
  <2>4. taken \in [1 .. n -> Cell]
    BY <2>1, <2>2, <2>3
  <2>5. QED
    BY <1>3, <2>4, FunIsSeq
<1> HIDE DEF taken
<1>5. sent \in Seq(Cell) /\ rest \in Queue
  <2>1. sent \in Seq(Cell)
    BY <1>3, <1>4, ConcatProperties DEF Cat
  <2>2. rest \in Queue
    BY <1>3, DropSeq DEF Queue
  <2>3. QED
    BY <2>1, <2>2
<1> HIDE DEF sent, rest, q
<1>6. q \in TunnelType
  BY <1>1, <1>5 DEF TunnelType, Queue, q
<1>7. /\ q.mem = r.mem /\ q.status = r.status /\ q.server = r.server
      /\ q.toServer = r.toServer /\ q.serverQ = r.serverQ /\ q.client_buf = r.client_buf
      /\ q.asked = r.asked
      /\ q.script = r.script /\ q.skipped = r.skipped /\ q.fromClient = r.fromClient
      /\ q.broken = r.broken /\ q.write = r.write
  BY <1>1 DEF TunnelType, q
<1>8. r.clientQ # << >>
  BY <1>1, <1>3 DEF Queue
<1>9. Phases(q) /\ Replied(q) /\ Waiting(q)
  BY <1>1, <1>7, <1>8 DEF Sound, Phases, Replied, Waiting
<1>10. Sound(q)
  BY <1>1, <1>7, <1>9, SameSound, Zenon
<1>11. Settled(q) \in TunnelType /\ Sound(Settled(q))
  BY <1>6, <1>10, SettledSound
<1>12. QED
  BY <1>2, <1>11, BecomeStep

LEMMA NextIInv == IInv /\ [Next]_vars => IInv'
<1> SUFFICES ASSUME IInv, [Next]_vars PROVE IInv'
  OBVIOUS
<1>1. CASE UNCHANGED vars
  BY <1>1 DEF vars, IInv, TypeOK, ReusedBehind
<1>2. ASSUME NEW t \in Tunnels, OnFreedClient(t) \/ OnServerWriteEnd(t)
      PROVE  IInv'
  BY <1>2, EndStep DEF OnFreedClient, OnServerWriteEnd, Causes
<1>3. QED
  BY <1>1, <1>2, NewClientStep, ClientReadStep, ClientEndStep, ClientWriteEndStep,
     ServerConnectStep, ServerReadStep, ServerEndStep, ResetStep, FlushServerStep,
     FlushClientStep DEF Next

-----------------------------------------------------------------------------

(* The invariant holds of the tunnels in every state that is reached.      *)
THEOREM SocksInvariant == Spec => []IInv
BY InitIInv, NextIInv, PTL DEF Spec

(* Every field of every Tunnel is what it is declared to be: no reference  *)
(* a socket still holds points outside the buffers.                        *)
THEOREM SocksTypeOK == Spec => []TypeOK
<1>1. IInv => TypeOK
  BY DEF IInv
<1>2. QED
  BY <1>1, SocksInvariant, PTL

(* The status follows the handles through every interleaving of the two    *)
(* connections' callbacks, and a Tunnel is freed only before its server    *)
(* connection exists.                                                      *)
THEOREM SocksLifecycle == Spec => []Lifecycle
<1>1. IInv => Lifecycle
  BY DEF IInv, Sound, Phases, Replied, Unforwarded, Lifecycle, TypeOK, TunnelType, Statuses
<1>2. QED
  BY <1>1, SocksInvariant, PTL

(* The server gets, in order and once each, what the client sent after the *)
(* connection was up, and after its socket broke no more: on_client_read() *)
(* never overwrites cells of client_buf that a write still refers to       *)
(* without reusing client_write_req first, which it does only when the     *)
(* last write is still queued or has filled client_buf.                    *)
THEOREM SocksForwardExact == Spec => []ForwardExact
<1>1. ASSUME IInv, NEW t \in Tunnels
      PROVE  LET r     == tun[t]
                 owed  == SubSeq(r.script, r.skipped + 1, Len(r.script) - Len(r.fromClient))
                 given == r.toServer \o [i \in DOMAIN r.serverQ |-> r.client_buf[r.serverQ[i]]]
             IN  /\ IsPrefix(given, owed)
                 /\ "server" \notin r.broken => given = owed
  <2> DEFINE r     == tun[t]
             owed  == Between(r.script, r.skipped, Len(r.fromClient))
             left  == [i \in DOMAIN r.serverQ |-> r.client_buf[r.serverQ[i]]]
             given == Cat(r.toServer, left)
  <2>1. r \in TunnelType /\ Sound(r)
    BY <1>1 DEF IInv, TypeOK
  <2> HIDE DEF r
  <2>2. /\ r.serverQ \in Seq(1 .. MAXSIZE) /\ r.toServer \in Seq(Cell) /\ r.script \in Seq(Cell)
        /\ r.skipped \in Nat /\ Len(r.fromClient) \in Nat /\ Len(r.toServer) \in Nat
        /\ Len(r.script) \in Nat /\ r.client_buf \in Buf
    BY <2>1 DEF TunnelType, Buf
  <2>3. left = Cells(r.client_buf, r.serverQ)
    BY <2>2 DEF Cells, At
  <2>4. "server" \notin r.broken => given = owed
    BY <2>1, <2>3 DEF Sound, Forwarded
  <2>5. /\ owed \in Seq(Cell) /\ Len(owed) = Len(r.script) - Len(r.fromClient) - r.skipped
        /\ \A i \in 1 .. Len(r.script) - Len(r.fromClient) - r.skipped :
             owed[i] = r.script[r.skipped + i]
    <3> DEFINE s == r.script
               m == r.skipped
               k == Len(r.fromClient)
               e == Len(s) - k
    <3>1. s \in Seq(Cell) /\ m \in Nat /\ k \in Nat /\ Len(s) \in Nat /\ m + k <= Len(s)
      BY <2>1, <2>2 DEF Sound, Unread
    <3> HIDE DEF s, m, k
    <3>2. m \in 0 .. Len(s) /\ e \in m .. Len(s)
      BY <3>1
    <3> HIDE DEF e
    <3>3. /\ SubSeq(s, m + 1, e) \in Seq(Cell)
          /\ Len(SubSeq(s, m + 1, e)) = e - m
          /\ \A i \in 1 .. e - m : SubSeq(s, m + 1, e)[i] = s[m + i]
      BY <3>1, <3>2, MiddleSeq
    <3>4. QED
      BY <3>3 DEF s, m, k, e, Between
  <2>6. /\ owed \in Seq(Cell) /\ Len(owed) \in Nat
        /\ Len(owed) = Len(r.script) - Len(r.fromClient) - r.skipped
    <3> HIDE DEF owed
    <3>1. owed \in Seq(Cell) /\ Len(owed) = Len(r.script) - Len(r.fromClient) - r.skipped
      BY <2>5, Zenon
    <3>2. QED
      BY <3>1, LenProperties
  <2>7. IsPrefix(given, owed)
    <3> HIDE DEF owed, left
    <3>1. CASE "server" \notin r.broken
      <4>1. given = owed
        BY <2>4, <3>1
      <4>2. Len(owed) \in Nat /\ Len(owed) <= Len(owed)
        <5>1. Len(owed) \in Nat
          BY <2>6
        <5> DEFINE l == Len(owed)
        <5> HIDE DEF l
        <5>2. l \in Nat => l <= l
          OBVIOUS
        <5>3. QED
          BY <5>1, <5>2 DEF l
      <4>3. QED
        BY <4>1, <4>2 DEF IsPrefix
    <3>2. CASE "server" \in r.broken
      <4>1. r.serverQ = << >>
        BY <2>1, <3>2 DEF Sound, Waiting
      <4>2. given = r.toServer
        BY <2>2, <2>3, <4>1, NothingQueued
      <4>3. /\ r.skipped + Len(r.toServer) <= Len(r.script) - Len(r.fromClient)
            /\ \A i \in 1 .. Len(r.toServer) : r.toServer[i] = r.script[r.skipped + i]
        BY <2>1 DEF Sound, Prefixed
      <4> DEFINE p == r.toServer
                 L == Len(p)
      <4>4. /\ p \in Seq(Cell) /\ L \in Nat /\ L <= Len(owed) /\ Len(owed) \in Nat
            /\ \A i \in 1 .. L : p[i] = owed[i]
        <5> DEFINE m == r.skipped
                   l == Len(r.script)
                   k == Len(r.fromClient)
                   o == Len(owed)
        <5>0. /\ m \in Nat /\ l \in Nat /\ k \in Nat /\ L \in Nat /\ o \in Nat
              /\ m + L <= l - k /\ o = l - k - m
          BY <2>2, <2>6, <4>3
        <5>1. L <= Len(owed) /\ Len(owed) \in Nat
          <6> HIDE DEF m, l, k, L
          <6>1. L <= o
            <7> HIDE DEF o
            <7>1. QED
              BY <5>0
          <6>2. QED
            BY <5>0, <6>1
        <5>2. ASSUME NEW i \in 1 .. L PROVE p[i] = owed[i]
          <6>1. i \in 1 .. Len(r.script) - Len(r.fromClient) - r.skipped
            <7> HIDE DEF m, l, k, L
            <7>1. i \in 1 .. l - k - m
              BY <5>0
            <7>2. QED
              BY <7>1 DEF m, l, k
          <6>2. QED
            BY <2>5, <4>3, <6>1
        <5>3. QED
          BY <2>2, <5>1, <5>2
      <4>5. /\ SubSeq(p, 1, L) \in Seq(Cell) /\ Len(SubSeq(p, 1, L)) = L
            /\ \A i \in 1 .. L : SubSeq(p, 1, L)[i] = p[i]
            /\ SubSeq(owed, 1, L) \in Seq(Cell) /\ Len(SubSeq(owed, 1, L)) = L
            /\ \A i \in 1 .. L : SubSeq(owed, 1, L)[i] = owed[i]
        <5> HIDE DEF L, p
        <5>1. L \in 0 .. Len(owed) /\ 0 \in 0 .. Len(owed) /\ L - 0 = L /\ 0 + 1 = 1
              /\ L \in 0 .. Len(p) /\ \A i \in 1 .. L : 0 + i = i
          BY <4>4 DEF L
        <5>2. /\ SubSeq(owed, 1, L) \in Seq(Cell) /\ Len(SubSeq(owed, 1, L)) = L
              /\ \A i \in 1 .. L : SubSeq(owed, 1, L)[i] = owed[i]
          <6>1. 0 \in 0 .. Len(owed) /\ L \in 0 .. Len(owed) /\ owed \in Seq(Cell)
            BY <2>6, <5>1
          <6>2. /\ SubSeq(owed, 0 + 1, L) \in Seq(Cell)
                /\ Len(SubSeq(owed, 0 + 1, L)) = L - 0
                /\ \A i \in 1 .. L - 0 : SubSeq(owed, 0 + 1, L)[i] = owed[0 + i]
            BY <6>1, MiddleSeq
          <6>3. QED
            BY <5>1, <6>2
        <5>3. /\ SubSeq(p, 1, L) \in Seq(Cell) /\ Len(SubSeq(p, 1, L)) = L
              /\ \A i \in 1 .. L : SubSeq(p, 1, L)[i] = p[i]
          BY <4>4, <5>1
        <5>4. QED
          BY <5>2, <5>3
      <4>6. SubSeq(p, 1, L) = SubSeq(owed, 1, L)
        <5> DEFINE x == SubSeq(p, 1, L)
                   y == SubSeq(owed, 1, L)
        <5>1. /\ x \in Seq(Cell) /\ y \in Seq(Cell) /\ Len(x) = Len(y)
              /\ \A i \in 1 .. Len(x) : x[i] = y[i]
          BY <4>4, <4>5
        <5> HIDE DEF x, y
        <5>2. x = y
          BY <5>1, SeqEqual
        <5>3. QED
          BY <5>2 DEF x, y
      <4>7. QED
        BY <4>2, <4>4, <4>6 DEF IsPrefix
    <3>3. QED
      BY <3>1, <3>2
  <2>8. QED
    BY <2>4, <2>7 DEF r, owed, left, given, Cat, Between
<1>2. IInv => ForwardExact
  BY <1>1 DEF IInv, ReusedBehind, ForwardExact
<1>3. QED
  BY <1>2, SocksInvariant, PTL
=============================================================================
