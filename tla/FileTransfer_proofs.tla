-------------------------- MODULE FileTransfer_proofs --------------------------
(***************************************************************************)
(* Machine-checked proofs about the file transfer server, for any number   *)
(* of clients, any file and any buffer: what a context is doing decides    *)
(* what is open, and a client that shares the global buffer with nobody    *)
(* gets the file.                                                          *)
(***************************************************************************)
EXTENDS FileTransfer, SequenceTheorems, FiniteSetTheorems, WellFoundedInduction, TLAPS

USE FileTransferAssumption

-----------------------------------------------------------------------------
(* The inductive invariant: the type, and for each connection r three      *)
(* things that hold one request at a time.                                 *)

(* The one request in flight says what the context still owns. *)
Owned(r) ==
  /\ r.reqs = {} \/ \E req \in Requests : r.reqs = {req}
  /\ r.reqs # {} => r.context = "live" /\ r.client = "open"
  /\ r.reqs \cap {"read", "write", "shutdown", "fs_close"} # {} => r.fd = "open"
  /\ "tcp_close" \in r.reqs => r.fd = "closed"
  /\ r.client # "none" /\ r.reqs = {} /\ ~r.failed
       => r.context = "freed" /\ r.fd = "closed" /\ r.client = "closed"

(* While a read is the only one, what it has put into b is the file's. *)
FromFile(b, r) ==
  "read" \in r.reqs /\ ~r.shared
    => \A i \in r.filled : b[i] = File[r.offset + i]

(* What was sent so far and what the rest of the file still makes are the  *)
(* whole transfer.                                                         *)
OnTheWay(r) ==
  /\ r.offset <= Len(File)
  /\ ~r.late => r.left = 0
  /\ ~r.shared /\ ~r.late => r.out \o Chunks[r.offset] = Expected

IInv ==
  /\ TypeOK
  /\ \A c \in Clients :
       Owned(conn[c]) /\ FromFile(buffer, conn[c]) /\ OnTheWay(conn[c])

-----------------------------------------------------------------------------
(* What a transfer sends is defined by recursion from the end of the file: *)
(* the recursion has a value, a sequence of cells.                         *)

LEMMA SetInduction ==
  ASSUME NEW T, 0 \in T, \A n \in Nat : n \in T => n + 1 \in T
  PROVE  \A n \in Nat : n \in T
<1> DEFINE Bad == Nat \ T
<1>1. SUFFICES ASSUME Bad # {} PROVE FALSE
  OBVIOUS
<1>2. PICK m \in Bad : \A k \in Bad : <<k, m>> \notin OpToRel(<, Nat)
  BY <1>1, WFMin, NatLessThanWellFounded, Zenon
<1>3. m \in Nat /\ m # 0 /\ m \notin T
  OBVIOUS
<1>4. m - 1 \in Nat /\ m - 1 < m /\ (m - 1) + 1 = m
  BY <1>3
<1>5. m - 1 \notin T
  BY <1>3, <1>4
<1>6. <<m - 1, m>> \in OpToRel(<, Nat)
  BY <1>3, <1>4 DEF OpToRel
<1>7. QED
  BY <1>2, <1>4, <1>5, <1>6

(* The cells of the chunk at a position, and what is written for it. *)
Size(at)  == IF Len(File) - at < FILE_BUF THEN Len(File) - at ELSE FILE_BUF
Piece(at) == SubSeq(File, at + 1, at + Size(at)) \o <<NUL>>

LEMMA PieceSeq ==
  ASSUME NEW at \in 0 .. Len(File), at # Len(File)
  PROVE  /\ Size(at) \in 1 .. Len(File) - at
         /\ Piece(at) \in Seq(Cell)
<1>1. Len(File) \in Nat /\ \A i \in 1 .. Len(File) : File[i] \in Cell
  BY DEF Cell
<1>2. Size(at) \in 1 .. Len(File) - at
  BY <1>1 DEF Size
<1> DEFINE a == at + 1
           b == at + Size(at)
<1>3. a \in Int /\ b \in Int /\ \A i \in a .. b : File[i] \in Cell
  BY <1>1, <1>2
<1> HIDE DEF a, b
<1>4. SubSeq(File, a, b) \in Seq(Cell)
  BY <1>3, SubSeqProperties
<1>5. <<NUL>> \in Seq(Cell)
  BY DEF Cell
<1>6. SubSeq(File, a, b) \o <<NUL>> \in Seq(Cell)
  BY <1>4, <1>5, ConcatProperties
<1>7. QED
  BY <1>2, <1>6 DEF Piece, a, b

LEMMA ChunksValue ==
  /\ Chunks \in [0 .. Len(File) -> Seq(Cell)]
  /\ Chunks[Len(File)] = << >>
  /\ \A at \in 0 .. Len(File) :
       at # Len(File) => Chunks[at] = Piece(at) \o Chunks[at + Size(at)]
<1> DEFINE L == Len(File)
           Body(g, at) == IF at = L THEN << >> ELSE Piece(at) \o g[at + Size(at)]
           From(k) == {at \in 0 .. L : L - at <= k}
           Solves(g, k) == g \in [From(k) -> Seq(Cell)] /\ \A at \in From(k) : g[at] = Body(g, at)
           Solved == {k \in Nat : \E g : Solves(g, k)}
<1>1. L \in Nat
  OBVIOUS
<1>2. 0 \in Solved
  <2>1. \A at \in From(0) : at = L
    BY <1>1
  <2>2. Solves([at \in From(0) |-> << >>], 0)
    BY <2>1
  <2>3. QED
    BY <2>2
<1>3. ASSUME NEW k \in Nat, NEW at \in From(k + 1), at # L
      PROVE  at + Size(at) \in From(k) /\ at + Size(at) \in From(k + 1) /\ Piece(at) \in Seq(Cell)
  <2>1. Size(at) \in 1 .. L - at /\ Piece(at) \in Seq(Cell)
    BY <1>3, PieceSeq
  <2>2. QED
    BY <1>1, <1>3, <2>1
<1>4. ASSUME NEW k \in Nat, k \in Solved
      PROVE  k + 1 \in Solved
  <2>1. PICK g : Solves(g, k)
    BY <1>4
  <2> DEFINE h == [at \in From(k + 1) |-> Body(g, at)]
  <2>2. \A at \in From(k + 1) : at # L => g[at + Size(at)] \in Seq(Cell)
    BY <1>3, <2>1
  <2> HIDE DEF From, L
  <2>3. ASSUME NEW at \in From(k + 1)
        PROVE  Body(g, at) \in Seq(Cell)
    <3>1. CASE at = L
      BY <3>1
    <3>2. CASE at # L
      <4>1. Piece(at) \in Seq(Cell) /\ g[at + Size(at)] \in Seq(Cell)
        BY <1>3, <2>2, <3>2
      <4>2. QED
        BY <3>2, <4>1, ConcatProperties
    <3>3. QED
      BY <3>1, <3>2
  <2>4. h \in [From(k + 1) -> Seq(Cell)]
    BY <2>3
  <2>5. ASSUME NEW at \in From(k + 1), at # L
        PROVE  h[at + Size(at)] = g[at + Size(at)]
    <3>1. at + Size(at) \in From(k) /\ at + Size(at) \in From(k + 1)
      BY <1>3, <2>5
    <3>2. g[at + Size(at)] = Body(g, at + Size(at))
      BY <2>1, <3>1
    <3>3. h[at + Size(at)] = Body(g, at + Size(at))
      BY <3>1
    <3>4. QED
      BY <3>2, <3>3
  <2>6. \A at \in From(k + 1) : h[at] = Body(h, at)
    BY <2>5
  <2> HIDE DEF h, Body
  <2>7. Solves(h, k + 1)
    BY <2>4, <2>6
  <2>8. QED
    BY <2>7
<1>5. \A k \in Nat : k \in Solved
  <2> HIDE DEF Solved
  <2> QED BY <1>2, <1>4, SetInduction
<1>6. PICK g : Solves(g, L)
  BY <1>1, <1>5
<1>7. From(L) = 0 .. L
  BY <1>1
<1>8. g = [at \in 0 .. L |-> Body(g, at)]
  BY <1>6, <1>7
<1>9. Chunks = [at \in 0 .. L |-> Body(Chunks, at)]
  BY <1>8 DEF Chunks, Piece, Size
<1> DEFINE Typed == {k \in Nat : \A at \in From(k) : Chunks[at] \in Seq(Cell)}
<1>10. 0 \in Typed
  BY <1>1, <1>9
<1>11. ASSUME NEW k \in Nat, k \in Typed
       PROVE  k + 1 \in Typed
  <2>1. ASSUME NEW at \in From(k + 1)
        PROVE  Chunks[at] \in Seq(Cell)
    <3>1. Chunks[at] = Body(Chunks, at)
      BY <1>9
    <3>2. CASE at = L
      BY <3>1, <3>2
    <3>3. CASE at # L
      <4>1. Piece(at) \in Seq(Cell) /\ at + Size(at) \in From(k)
        BY <1>3, <3>3
      <4>2. Chunks[at + Size(at)] \in Seq(Cell)
        BY <1>11, <4>1
      <4>3. QED
        BY <3>1, <3>3, <4>1, <4>2, ConcatProperties
    <3>4. QED
      BY <3>2, <3>3
  <2>2. QED
    BY <2>1
<1>12. L \in Typed
  <2> HIDE DEF Typed
  <2> QED BY <1>1, <1>10, <1>11, SetInduction
<1>13. \A at \in 0 .. L : Chunks[at] \in Seq(Cell)
  BY <1>7, <1>12
<1> HIDE DEF Body
<1>14. Chunks \in [0 .. L -> Seq(Cell)]
  BY <1>9, <1>13
<1>15. \A at \in 0 .. L : Chunks[at] = Body(Chunks, at)
  BY <1>9
<1>16. QED
  BY <1>1, <1>14, <1>15 DEF Body

-----------------------------------------------------------------------------
(* Steps.  Most of them change one connection and nothing else.            *)

LEMMA InitIInv == Init => IInv
<1>1. SUFFICES ASSUME Init PROVE IInv
  OBVIOUS
<1>2. TypeOK
  <2>1. buffer \in [1 .. FILE_BUF -> Cell] /\ fate \in {"running", "exited", "crashed"}
    BY <1>1 DEF Init, Cell
  <2>2. << >> \in Seq(Cell) /\ {} \in SUBSET Requests /\ {} \in SUBSET (1 .. FILE_BUF) /\ 0 \in Nat
    OBVIOUS
  <2>3. conn \in [Clients -> ConnType]
    BY <1>1, <2>2 DEF Init, ConnType
  <2>4. QED
    BY <2>1, <2>3 DEF TypeOK
<1>3. Chunks[0] \in Seq(Cell) /\ Len(File) \in Nat
  <2>1. Len(File) \in Nat
    OBVIOUS
  <2>2. 0 \in 0 .. Len(File)
    BY <2>1
  <2>3. QED
    BY <2>1, <2>2, ChunksValue, Zenon
<1>4. << >> \o Chunks[0] = Expected
  BY <1>3, ConcatEmptySeq DEF Expected
<1>5. ASSUME NEW c \in Clients
      PROVE  Owned(conn[c]) /\ FromFile(buffer, conn[c]) /\ OnTheWay(conn[c])
  <2>1. /\ conn[c].client = "none" /\ conn[c].reqs = {}
        /\ conn[c].offset = 0 /\ conn[c].out = << >> /\ conn[c].left = 0
    BY <1>1 DEF Init
  <2>2. QED
    BY <1>3, <1>4, <2>1 DEF Owned, FromFile, OnTheWay
<1>6. QED
  BY <1>2, <1>5 DEF IInv

(* A step that leaves buffer alone keeps IInv if its connection stays good. *)
LEMMA BecomeKeeps ==
  ASSUME IInv, NEW c \in Clients, NEW r \in ConnType, Become(c, r),
         Owned(r), FromFile(buffer, r), OnTheWay(r)
  PROVE  IInv'
<1>1. TypeOK'
  BY DEF IInv, TypeOK, Become
<1>2. \A d \in Clients : conn'[d] = IF d = c THEN r ELSE conn[d]
  BY DEF IInv, TypeOK, Become
<1>3. buffer' = buffer
  BY DEF Become
<1> HIDE DEF Owned, FromFile, OnTheWay
<1>4. QED
  BY <1>1, <1>2, <1>3 DEF IInv

LEMMA GoodConn ==
  ASSUME IInv, NEW c \in Clients
  PROVE  /\ conn[c] \in ConnType
         /\ Owned(conn[c]) /\ FromFile(buffer, conn[c]) /\ OnTheWay(conn[c])
BY DEF IInv, TypeOK

(* Nor can it go wrong in what was sent if it moves no data. *)
LEMMA ControlKeeps ==
  ASSUME IInv, NEW c \in Clients, NEW r \in ConnType, Become(c, r), Owned(r),
         "read" \notin r.reqs \/ r.filled = {},
         r.offset = conn[c].offset, r.out = conn[c].out, r.left = conn[c].left,
         r.late = conn[c].late, r.shared = conn[c].shared
  PROVE  IInv'
<1>1. OnTheWay(conn[c])
  BY GoodConn
<1>2. FromFile(buffer, r)
  BY DEF FromFile
<1>3. OnTheWay(r)
  BY <1>1 DEF OnTheWay
<1>4. QED
  BY <1>2, <1>3, BecomeKeeps

(* What is in flight is all there is in flight. *)
LEMMA OnlyRequest ==
  ASSUME NEW r \in ConnType, Owned(r), NEW req \in r.reqs
  PROVE  r.reqs = {req} /\ r.context = "live" /\ r.client = "open"
BY DEF Owned, ConnType

LEMMA OpenStep ==
  ASSUME IInv, NEW c \in Clients, OnNewConnection(c)
  PROVE  IInv'
<1> DEFINE r == conn[c]
           q == [r EXCEPT !.context = "live", !.client = "open", !.reqs = {"open"}]
<1>1. CASE Become(c, q)
  <2>1. r \in ConnType
    BY GoodConn
  <2> HIDE DEF r
  <2>2. /\ q \in ConnType /\ Owned(q) /\ "read" \notin q.reqs
        /\ q.offset = r.offset /\ q.out = r.out /\ q.left = r.left
        /\ q.late = r.late /\ q.shared = r.shared
    BY <2>1 DEF ConnType, Requests, Owned
  <2> HIDE DEF q
  <2>3. QED
    BY <1>1, <2>2, ControlKeeps DEF r
<1>2. CASE fate' = "exited" /\ UNCHANGED <<buffer, conn>>
  BY <1>2 DEF IInv, TypeOK
<1>3. QED
  BY <1>1, <1>2 DEF OnNewConnection

(* Request req of r is over and its callback gives up. *)
LEMMA FailStep ==
  ASSUME IInv, NEW c \in Clients, NEW req \in conn[c].reqs, Become(c, Fails(conn[c], req))
  PROVE  IInv'
<1> DEFINE r == conn[c]
           q == Fails(r, req)
<1>1. r \in ConnType /\ Owned(r) /\ r.reqs = {req}
  BY GoodConn, OnlyRequest
<1>2. Become(c, q)
  OBVIOUS
<1> HIDE DEF r
<1>3. /\ q \in ConnType /\ q.reqs = {} /\ q.failed
      /\ q.offset = r.offset /\ q.out = r.out /\ q.left = r.left
      /\ q.late = r.late /\ q.shared = r.shared
  BY <1>1 DEF ConnType, Fails
<1> HIDE DEF q
<1>4. Owned(q)
  BY <1>3 DEF Owned
<1>5. QED
  BY <1>2, <1>3, <1>4, ControlKeeps DEF r

LEMMA FileOpenStep ==
  ASSUME IInv, NEW c \in Clients, OnFileOpen(c)
  PROVE  IInv'
<1> DEFINE r == conn[c]
           opened == [StartRead(r, "open") EXCEPT !.fd = "open"]
           gone   == [Fails(r, "open") EXCEPT !.context = "freed"]
<1>1. r \in ConnType /\ r.reqs = {"open"} /\ r.context = "live" /\ r.client = "open"
  BY GoodConn, OnlyRequest DEF OnFileOpen, InFlight
<1>2. Become(c, opened) \/ Become(c, gone)
  BY DEF OnFileOpen
<1> HIDE DEF r
<1>3. /\ opened \in ConnType /\ Owned(opened) /\ opened.filled = {}
      /\ opened.offset = r.offset /\ opened.out = r.out /\ opened.left = r.left
      /\ opened.late = r.late /\ opened.shared = r.shared
  BY <1>1 DEF ConnType, StartRead, After, Requests, Owned
<1>4. /\ gone \in ConnType /\ Owned(gone) /\ "read" \notin gone.reqs
      /\ gone.offset = r.offset /\ gone.out = r.out /\ gone.left = r.left
      /\ gone.late = r.late /\ gone.shared = r.shared
  BY <1>1 DEF ConnType, Fails, Owned
<1> HIDE DEF opened, gone
<1>5. QED
  BY <1>2, <1>3, <1>4, ControlKeeps DEF r

LEMMA ReadEndStep ==
  ASSUME IInv, NEW c \in Clients, OnReadEnd(c)
  PROVE  IInv'
<1> DEFINE r == conn[c]
           q == After(r, "read", "shutdown")
<1>1. r \in ConnType /\ Owned(r) /\ r.reqs = {"read"} /\ r.context = "live" /\ r.client = "open"
  BY GoodConn, OnlyRequest DEF OnReadEnd, InFlight
<1>2. Become(c, q)
  BY DEF OnReadEnd
<1> HIDE DEF r
<1>3. /\ q \in ConnType /\ Owned(q) /\ "read" \notin q.reqs
      /\ q.offset = r.offset /\ q.out = r.out /\ q.left = r.left
      /\ q.late = r.late /\ q.shared = r.shared
  BY <1>1 DEF ConnType, After, Requests, Owned
<1> HIDE DEF q
<1>4. QED
  BY <1>2, <1>3, ControlKeeps DEF r

LEMMA WriteEndStep ==
  ASSUME IInv, NEW c \in Clients, OnWriteEnd(c)
  PROVE  IInv'
<1> DEFINE r == conn[c]
           q == StartRead(r, "write")
<1>1. r \in ConnType /\ Owned(r) /\ r.reqs = {"write"} /\ r.context = "live" /\ r.client = "open"
  BY GoodConn, OnlyRequest DEF OnWriteEnd, InFlight
<1>2. Become(c, q) \/ Become(c, Fails(r, "write"))
  BY DEF OnWriteEnd
<1> HIDE DEF r
<1>3. /\ q \in ConnType /\ Owned(q) /\ q.filled = {}
      /\ q.offset = r.offset /\ q.out = r.out /\ q.left = r.left
      /\ q.late = r.late /\ q.shared = r.shared
  BY <1>1 DEF ConnType, StartRead, After, Requests, Owned
<1> HIDE DEF q
<1>4. CASE Become(c, q)
  BY <1>3, <1>4, ControlKeeps DEF r
<1>5. CASE Become(c, Fails(r, "write"))
  BY <1>1, <1>5, FailStep DEF r
<1>6. QED
  BY <1>2, <1>4, <1>5

LEMMA ShutdownStep ==
  ASSUME IInv, NEW c \in Clients, OnShutdown(c)
  PROVE  IInv'
<1> DEFINE r == conn[c]
           q == After(r, "shutdown", "fs_close")
<1>1. r \in ConnType /\ Owned(r) /\ r.reqs = {"shutdown"} /\ r.context = "live" /\ r.client = "open"
  BY GoodConn, OnlyRequest DEF OnShutdown, InFlight
<1>2. Become(c, q) \/ Become(c, Fails(r, "shutdown"))
  BY DEF OnShutdown
<1> HIDE DEF r
<1>3. /\ q \in ConnType /\ Owned(q) /\ "read" \notin q.reqs
      /\ q.offset = r.offset /\ q.out = r.out /\ q.left = r.left
      /\ q.late = r.late /\ q.shared = r.shared
  BY <1>1 DEF ConnType, After, Requests, Owned
<1> HIDE DEF q
<1>4. CASE Become(c, q)
  BY <1>3, <1>4, ControlKeeps DEF r
<1>5. CASE Become(c, Fails(r, "shutdown"))
  BY <1>1, <1>5, FailStep DEF r
<1>6. QED
  BY <1>2, <1>4, <1>5

LEMMA FsCloseStep ==
  ASSUME IInv, NEW c \in Clients, OnFsClose(c)
  PROVE  IInv'
<1> DEFINE r == conn[c]
           q == [After(r, "fs_close", "tcp_close") EXCEPT !.fd = "closed"]
<1>1. r \in ConnType /\ r.reqs = {"fs_close"} /\ r.context = "live" /\ r.client = "open"
  BY GoodConn, OnlyRequest DEF OnFsClose, InFlight
<1>2. Become(c, q)
  BY DEF OnFsClose
<1> HIDE DEF r
<1>3. /\ q \in ConnType /\ Owned(q) /\ "read" \notin q.reqs
      /\ q.offset = r.offset /\ q.out = r.out /\ q.left = r.left
      /\ q.late = r.late /\ q.shared = r.shared
  BY <1>1 DEF ConnType, After, Requests, Owned
<1> HIDE DEF q
<1>4. QED
  BY <1>2, <1>3, ControlKeeps DEF r

LEMMA TcpCloseStep ==
  ASSUME IInv, NEW c \in Clients, OnTcpClose(c)
  PROVE  IInv'
<1> DEFINE r == conn[c]
           q == [r EXCEPT !.reqs = @ \ {"tcp_close"}, !.client = "closed", !.context = "freed"]
<1>1. r \in ConnType /\ r.reqs = {"tcp_close"} /\ r.fd = "closed"
  BY GoodConn, OnlyRequest DEF OnTcpClose, InFlight, Owned
<1>2. Become(c, q)
  BY DEF OnTcpClose
<1> HIDE DEF r
<1>3. /\ q \in ConnType /\ Owned(q) /\ "read" \notin q.reqs
      /\ q.offset = r.offset /\ q.out = r.out /\ q.left = r.left
      /\ q.late = r.late /\ q.shared = r.shared
  BY <1>1 DEF ConnType, Owned
<1> HIDE DEF q
<1>4. QED
  BY <1>2, <1>3, ControlKeeps DEF r

LEMMA ReadErrorStep ==
  ASSUME IInv, NEW c \in Clients, OnReadError(c)
  PROVE  IInv'
BY FailStep DEF OnReadError, InFlight

(* What a read puts into the buffer is the file's; whoever else is reading *)
(* loses its claim to the buffer.                                          *)
LEMMA PoolReadStep ==
  ASSUME IInv, NEW c \in Clients, NEW i \in 1 .. FILE_BUF, PoolRead(c, i)
  PROVE  IInv'
<1> DEFINE r == conn[c]
           at == r.offset + i
<1>1. /\ r \in ConnType /\ Owned(r) /\ FromFile(buffer, r) /\ OnTheWay(r)
      /\ "read" \in r.reqs /\ i \in 1 .. result(r)
  BY GoodConn DEF PoolRead, InFlight
<1>2. File[at] \in Cell
  <2>1. at \in 1 .. Len(File)
    BY <1>1 DEF result, OnTheWay, ConnType
  <2>2. QED
    BY <2>1 DEF Cell
<1>3. buffer \in [1 .. FILE_BUF -> Cell] /\ conn \in [Clients -> ConnType]
      /\ fate \in {"running", "exited", "crashed"}
  BY DEF IInv, TypeOK
<1>4. buffer' = [buffer EXCEPT ![i] = File[at]] /\ fate' = fate
  BY DEF PoolRead
<1> HIDE DEF at
<1>5. buffer' \in [1 .. FILE_BUF -> Cell] /\ buffer'[i] = File[at]
      /\ \A j \in 1 .. FILE_BUF : j # i => buffer'[j] = buffer[j]
  BY <1>2, <1>3, <1>4
<1> DEFINE others == \E e \in Clients \ {c} : "read" \in conn[e].reqs
           next(d) == IF d = c
                      THEN [r EXCEPT !.filled = @ \cup {i}, !.shared = @ \/ others]
                      ELSE [conn[d] EXCEPT !.shared = @ \/ "read" \in conn[d].reqs]
<1>6. conn' = [d \in Clients |-> next(d)]
  BY DEF PoolRead
<1>7. ASSUME NEW d \in Clients
      PROVE  /\ next(d) \in ConnType /\ Owned(next(d))
             /\ FromFile(buffer', next(d)) /\ OnTheWay(next(d))
  <2> DEFINE p == conn[d]
             q == next(d)
  <2>1. p \in ConnType /\ Owned(p) /\ FromFile(buffer, p) /\ OnTheWay(p)
    BY GoodConn
  <2>2. CASE d = c
    <3>1. p = r
      BY <2>2
    <3> HIDE DEF p, others
    <3>2. /\ q \in ConnType /\ q.filled = p.filled \cup {i}
          /\ q.reqs = p.reqs /\ q.context = p.context /\ q.client = p.client /\ q.fd = p.fd
          /\ q.failed = p.failed /\ q.late = p.late /\ q.left = p.left
          /\ q.offset = p.offset /\ q.out = p.out /\ (p.shared => q.shared)
      BY <2>1, <2>2, <3>1 DEF ConnType
    <3> HIDE DEF q, next, r
    <3>3. Owned(q) /\ OnTheWay(q)
      BY <2>1, <3>2 DEF Owned, OnTheWay
    <3>4. FromFile(buffer', q)
      <4>1. SUFFICES ASSUME "read" \in q.reqs, ~q.shared, NEW j \in q.filled
                     PROVE  buffer'[j] = File[q.offset + j]
        BY DEF FromFile
      <4>2. CASE j = i
        BY <1>5, <3>1, <3>2, <4>2 DEF at
      <4>3. CASE j # i
        <5>1. j \in p.filled /\ j \in 1 .. FILE_BUF
          BY <2>1, <3>2, <4>1, <4>3 DEF ConnType
        <5>2. buffer[j] = File[p.offset + j]
          BY <2>1, <3>2, <4>1, <5>1 DEF FromFile
        <5>3. QED
          BY <1>5, <3>2, <4>3, <5>1, <5>2
      <4>4. QED
        BY <4>2, <4>3
    <3>5. QED
      BY <3>2, <3>3, <3>4 DEF q
  <2>3. CASE d # c
    <3> HIDE DEF p, others
    <3>1. q = [p EXCEPT !.shared = @ \/ "read" \in p.reqs]
      BY <2>3 DEF p
    <3>2. /\ q \in ConnType
          /\ q.reqs = p.reqs /\ q.context = p.context /\ q.client = p.client /\ q.fd = p.fd
          /\ q.failed = p.failed /\ q.late = p.late /\ q.left = p.left
          /\ q.offset = p.offset /\ q.out = p.out /\ (p.shared => q.shared)
          /\ ("read" \in p.reqs => q.shared)
      BY <2>1, <3>1 DEF ConnType
    <3> HIDE DEF q, next, r
    <3>3. Owned(q) /\ OnTheWay(q)
      BY <2>1, <3>2 DEF Owned, OnTheWay
    <3>4. FromFile(buffer', q)
      BY <3>2 DEF FromFile
    <3>5. QED
      BY <3>2, <3>3, <3>4 DEF q
  <2>4. QED
    BY <2>2, <2>3
<1> HIDE DEF next
<1>8. TypeOK'
  BY <1>3, <1>4, <1>5, <1>6, <1>7 DEF TypeOK
<1>9. QED
  BY <1>6, <1>7, <1>8 DEF IInv

LEMMA FlushStep ==
  ASSUME IInv, NEW c \in Clients, NEW n \in 1 .. FILE_BUF + 1, Flush(c, n)
  PROVE  IInv'
<1> DEFINE r == conn[c]
           junk == [i \in 1 .. n |-> JUNK]
           q == [r EXCEPT !.out = @ \o junk, !.left = @ - n]
<1>1. /\ r \in ConnType /\ Owned(r) /\ r.reqs = {"write"} /\ OnTheWay(r)
      /\ n \in 1 .. r.left
  BY GoodConn, OnlyRequest DEF Flush, InFlight
<1>2. Become(c, q)
  BY DEF Flush
<1>3. junk \in Seq(Cell)
  BY DEF Cell
<1> HIDE DEF r, junk
<1>4. r.out \o junk \in Seq(Cell) /\ r.left - n \in Nat
  <2>1. r.out \in Seq(Cell) /\ r.left \in Nat
    BY <1>1 DEF ConnType
  <2>2. r.left - n \in Nat
    BY <1>1, <2>1
  <2>3. QED
    BY <1>3, <2>1, <2>2, ConcatProperties
<1> DEFINE sent == r.out \o junk
           rest == r.left - n
<1>5. q = [r EXCEPT !.out = sent, !.left = rest] /\ sent \in Seq(Cell) /\ rest \in Nat
  BY <1>1, <1>4 DEF ConnType
<1> HIDE DEF sent, rest, q
<1>6. /\ q \in ConnType /\ q.reqs = r.reqs /\ q.context = r.context /\ q.client = r.client
      /\ q.fd = r.fd /\ q.failed = r.failed /\ q.late = r.late /\ q.offset = r.offset
      /\ q.shared = r.shared
  BY <1>1, <1>5 DEF ConnType
<1>7. r.late
  BY <1>1 DEF OnTheWay
<1>8. Owned(q) /\ FromFile(buffer, q) /\ OnTheWay(q)
  BY <1>1, <1>6, <1>7 DEF Owned, FromFile, OnTheWay
<1>9. QED
  BY <1>2, <1>6, <1>8, BecomeKeeps

(* A read that had the buffer to itself delivers the next piece.           *)
LEMMA ReadIsPiece ==
  ASSUME NEW b \in [1 .. FILE_BUF -> Cell], NEW at \in 0 .. Len(File), at # Len(File),
         \A i \in 1 .. Size(at) : b[i] = File[at + i]
  PROVE  SubSeq(b, 1, Size(at)) \o <<NUL>> = Piece(at)
<1> DEFINE n == Size(at)
           a == at + 1
           z == at + n
<1>1. n \in 1 .. Len(File) - at /\ n <= FILE_BUF /\ Len(File) \in Nat
  BY PieceSeq DEF Size
<1>2. \A i \in 1 .. n : b[i] = File[at + i]
  OBVIOUS
<1> HIDE DEF n
<1>3. 1 \in Int /\ n \in Int /\ \A i \in 1 .. n : b[i] \in Cell
  BY <1>1
<1>4. /\ SubSeq(b, 1, n) \in Seq(Cell)
      /\ Len(SubSeq(b, 1, n)) = n
      /\ \A i \in 1 .. n : SubSeq(b, 1, n)[i] = b[i]
  <2>1. /\ SubSeq(b, 1, n) \in Seq(Cell)
        /\ Len(SubSeq(b, 1, n)) = (IF 1 <= n THEN n - 1 + 1 ELSE 0)
        /\ \A i \in 1 .. n - 1 + 1 : SubSeq(b, 1, n)[i] = b[1 + i - 1]
    BY <1>3, SubSeqProperties
  <2>2. (IF 1 <= n THEN n - 1 + 1 ELSE 0) = n /\ n - 1 + 1 = n /\ \A i \in 1 .. n : 1 + i - 1 = i
    BY <1>1
  <2> DEFINE s == SubSeq(b, 1, n)
  <2> HIDE DEF s
  <2>3. \A i \in 1 .. n : s[i] = b[i]
    BY <2>1, <2>2 DEF s
  <2>4. QED
    BY <2>1, <2>2, <2>3 DEF s
<1>5. a \in Int /\ z \in Int /\ \A i \in a .. z : File[i] \in Cell
  BY <1>1 DEF Cell
<1>6. (IF a <= z THEN z - a + 1 ELSE 0) = n /\ z - a + 1 = n
      /\ \A i \in 1 .. n : a + i - 1 = at + i
  BY <1>1
<1> HIDE DEF a, z
<1>7. /\ SubSeq(File, a, z) \in Seq(Cell)
      /\ Len(SubSeq(File, a, z)) = (IF a <= z THEN z - a + 1 ELSE 0)
      /\ \A i \in 1 .. z - a + 1 : SubSeq(File, a, z)[i] = File[a + i - 1]
  BY <1>5, SubSeqProperties
<1> DEFINE s == SubSeq(b, 1, n)
           f == SubSeq(File, a, z)
<1> HIDE DEF s, f
<1>8. \A i \in 1 .. n : f[i] = File[at + i]
  BY <1>6, <1>7 DEF f
<1>9. s \in Seq(Cell) /\ f \in Seq(Cell) /\ Len(s) = Len(f) /\ \A i \in 1 .. Len(s) : s[i] = f[i]
  BY <1>2, <1>4, <1>6, <1>7, <1>8 DEF s, f
<1>10. s = f
  BY <1>9, SeqEqual
<1>11. QED
  BY <1>10 DEF s, f, a, z, n, Piece

LEMMA PieceSent ==
  ASSUME NEW s \in Seq(Cell), NEW at \in 0 .. Len(File), at # Len(File)
  PROVE  /\ at + Size(at) \in 0 .. Len(File)
         /\ (s \o Piece(at)) \o Chunks[at + Size(at)] = s \o Chunks[at]
<1> DEFINE next == at + Size(at)
<1>1. Piece(at) \in Seq(Cell) /\ next \in 0 .. Len(File)
  <2>1. Size(at) \in 1 .. Len(File) - at /\ Piece(at) \in Seq(Cell) /\ Len(File) \in Nat
    BY PieceSeq
  <2>2. QED
    BY <2>1
<1>2. Chunks[at] = Piece(at) \o Chunks[next]
  BY ChunksValue
<1> HIDE DEF next
<1>3. Chunks[next] \in Seq(Cell)
  BY <1>1, ChunksValue
<1> DEFINE p == Piece(at)
           u == Chunks[next]
<1>4. p \in Seq(Cell) /\ u \in Seq(Cell) /\ Chunks[at] = p \o u
  BY <1>1, <1>2, <1>3
<1> HIDE DEF p, u
<1>5. (s \o p) \o u = s \o (p \o u)
  BY <1>4, ConcatAssociative, SMTT(20)
<1>6. QED
  BY <1>1, <1>4, <1>5 DEF p, u, next

LEMMA ReadStep ==
  ASSUME IInv, NEW c \in Clients, OnRead(c)
  PROVE  IInv'
<1> DEFINE r == conn[c]
           n == result(r)
           tBuf == SubSeq(buffer, 1, n) \o <<NUL>>
           q(k) == [After(r, "read", "write") EXCEPT
                      !.offset = @ + n, !.out = @ \o SubSeq(tBuf, 1, k),
                      !.left = n + 1 - k, !.late = @ \/ k < n + 1]
<1>1. /\ r \in ConnType /\ Owned(r) /\ r.reqs = {"read"} /\ r.context = "live"
      /\ r.client = "open" /\ FromFile(buffer, r) /\ OnTheWay(r)
  BY GoodConn, OnlyRequest DEF OnRead, InFlight
<1>2. CASE fate' = "crashed" /\ UNCHANGED <<buffer, conn>>
  BY <1>2 DEF IInv, TypeOK
<1>3. ASSUME NEW k \in 0 .. n + 1, Become(c, q(k)), n > 0, r.filled = 1 .. n
      PROVE  IInv'
  <2> DEFINE at == r.offset
  <2>1. at \in 0 .. Len(File) /\ at # Len(File) /\ n = Size(at) /\ Len(File) \in Nat
    <3>1. at \in Nat /\ at <= Len(File) /\ Len(File) \in Nat
      BY <1>1 DEF OnTheWay, ConnType
    <3>2. n = Size(at)
      BY DEF result, Size
    <3>3. QED
      BY <1>3, <3>1, <3>2 DEF Size
  <2>2. n \in 1 .. Len(File) - at /\ n <= FILE_BUF
    BY <2>1, PieceSeq DEF Size
  <2>3. buffer \in [1 .. FILE_BUF -> Cell]
    BY DEF IInv, TypeOK
  <2>4. ~r.shared => tBuf = Piece(at)
    <3>1. SUFFICES ASSUME ~r.shared PROVE tBuf = Piece(at)
      OBVIOUS
    <3>2. \A i \in 1 .. n : buffer[i] = File[at + i]
      BY <1>1, <1>3, <3>1 DEF FromFile
    <3> HIDE DEF at, n
    <3>3. QED
      BY <2>1, <2>3, <3>2, ReadIsPiece
  <2>5. tBuf \in Seq(Cell) /\ Len(tBuf) = n + 1
    <3> HIDE DEF n
    <3>1. 1 \in Int /\ n \in Int /\ \A i \in 1 .. n : buffer[i] \in Cell
      BY <2>2, <2>3
    <3>2. /\ SubSeq(buffer, 1, n) \in Seq(Cell)
          /\ Len(SubSeq(buffer, 1, n)) = (IF 1 <= n THEN n - 1 + 1 ELSE 0)
      BY <3>1, SubSeqProperties
    <3> DEFINE s == SubSeq(buffer, 1, n)
    <3>3. s \in Seq(Cell) /\ Len(s) = n
      BY <2>2, <3>2
    <3>4. <<NUL>> \in Seq(Cell) /\ Len(<<NUL>>) = 1
      BY DEF Cell
    <3> HIDE DEF s
    <3>5. s \o <<NUL>> \in Seq(Cell) /\ Len(s \o <<NUL>>) = n + 1
      BY <3>3, <3>4, ConcatProperties
    <3>6. QED
      BY <3>5 DEF s
  <2> HIDE DEF tBuf
  <2>6. SubSeq(tBuf, 1, k) \in Seq(Cell) /\ (k = n + 1 => SubSeq(tBuf, 1, k) = tBuf)
    <3>1. 1 \in Int /\ k \in Int /\ \A i \in 1 .. k : tBuf[i] \in Cell
      BY <2>2, <2>5
    <3>2. SubSeq(tBuf, 1, k) \in Seq(Cell)
      BY <3>1, SubSeqProperties
    <3>3. SubSeq(tBuf, 1, Len(tBuf)) = tBuf
      BY <2>5, SubSeqFull
    <3>4. QED
      BY <2>5, <3>2, <3>3
  <2> DEFINE part == SubSeq(tBuf, 1, k)
             sent == r.out \o part
             left == n + 1 - k
             next == at + n
             slow == k < n + 1
  <2>7. part \in Seq(Cell) /\ r.out \in Seq(Cell)
    BY <1>1, <2>6 DEF ConnType
  <2>8. left \in Nat /\ next \in Nat /\ next <= Len(File) /\ slow \in BOOLEAN
        /\ (~slow => k = n + 1 /\ left = 0)
    <3>1. left \in Nat /\ slow \in BOOLEAN /\ (~slow => k = n + 1 /\ left = 0)
      BY <2>2
    <3>2. next \in Nat /\ next <= Len(File)
      BY <2>1, <2>2
    <3>3. QED
      BY <3>1, <3>2
  <2> HIDE DEF part
  <2>9. sent \in Seq(Cell)
    BY <2>7, ConcatProperties
  <2>10. q(k) = [r EXCEPT !.reqs = {"write"}, !.offset = next, !.out = sent,
                          !.left = left, !.late = @ \/ slow]
    BY <1>1 DEF After, ConnType, part
  <2> DEFINE p == q(k)
  <2> HIDE DEF sent, left, next, slow, q, n
  <2>11. /\ p \in ConnType /\ p.reqs = {"write"} /\ p.context = r.context
         /\ p.client = r.client /\ p.fd = r.fd /\ p.shared = r.shared
         /\ p.offset = next /\ p.out = sent /\ p.left = left
         /\ (~p.late => ~r.late /\ ~slow)
    <3> DEFINE late == r.late \/ slow
    <3>1. p = [r EXCEPT !.reqs = {"write"}, !.offset = next, !.out = sent,
                        !.left = left, !.late = late]
      BY <1>1, <2>10 DEF ConnType
    <3>2. late \in BOOLEAN /\ {"write"} \in SUBSET Requests
      BY <1>1, <2>8 DEF ConnType, Requests
    <3>3. ~late => ~r.late /\ ~slow
      OBVIOUS
    <3>4. r \in ConnType
      BY <1>1
    <3> HIDE DEF r, late, p
    <3>5. /\ p \in ConnType /\ p.reqs = {"write"} /\ p.context = r.context
          /\ p.client = r.client /\ p.fd = r.fd /\ p.shared = r.shared
          /\ p.offset = next /\ p.out = sent /\ p.left = left /\ p.late = late
      BY <2>8, <2>9, <3>1, <3>2, <3>4 DEF ConnType
    <3>6. QED
      BY <3>3, <3>5
  <2>12. Become(c, p)
    BY <1>3
  <2> HIDE DEF p
  <2>13. Owned(p) /\ FromFile(buffer, p)
    BY <1>1, <2>11 DEF Owned, FromFile, Requests
  <2>14. ~p.shared /\ ~p.late => p.out \o Chunks[p.offset] = Expected
    <3>1. SUFFICES ASSUME ~p.shared, ~p.late PROVE p.out \o Chunks[p.offset] = Expected
      OBVIOUS
    <3>2. ~r.shared /\ ~r.late /\ k = n + 1
      BY <2>8, <2>11, <3>1
    <3>3. part = Piece(at)
      BY <2>4, <2>6, <3>2 DEF part
    <3>4. r.out \o Chunks[at] = Expected
      BY <1>1, <3>2 DEF OnTheWay
    <3>5. (r.out \o Piece(at)) \o Chunks[at + Size(at)] = r.out \o Chunks[at]
      BY <2>1, <2>7, PieceSent
    <3> HIDE DEF r, at
    <3>6. QED
      BY <2>1, <2>11, <3>3, <3>4, <3>5 DEF sent, next
  <2>15. OnTheWay(p)
    BY <2>8, <2>11, <2>14 DEF OnTheWay
  <2>16. QED
    BY <2>11, <2>12, <2>13, <2>15, BecomeKeeps
<1>4. QED
  <2> USE DEF OnRead
  <2> HIDE DEF q
  <2>1. /\ n > 0 /\ r.filled = 1 .. n
        /\ \/ \E k \in 0 .. n + 1 : Become(c, q(k))
           \/ fate' = "crashed" /\ UNCHANGED <<buffer, conn>>
    BY DEF q
  <2>2. QED
    BY <1>2, <1>3, <2>1

-----------------------------------------------------------------------------
(* The theorems. *)

LEMMA NextIInv == IInv /\ [Next]_vars => IInv'
<1>1. SUFFICES ASSUME IInv, [Next]_vars PROVE IInv'
  OBVIOUS
<1>2. CASE UNCHANGED vars
  BY <1>1, <1>2 DEF IInv, TypeOK, vars
<1>3. CASE Next
  BY <1>1, <1>3, OpenStep, FileOpenStep, PoolReadStep, ReadStep, ReadEndStep,
     ReadErrorStep, FlushStep, WriteEndStep, ShutdownStep, FsCloseStep, TcpCloseStep
     DEF Next, Step
<1>4. QED
  BY <1>1, <1>2, <1>3

(* IInv holds in every state the server can reach. *)
THEOREM TransferInvariant == Spec => []IInv
BY InitIInv, NextIInv, PTL DEF Spec

(* The server's state has its type. *)
THEOREM TransferTypeOK == Spec => []TypeOK
<1>1. IInv => TypeOK
  BY DEF IInv
<1>2. QED
  BY <1>1, TransferInvariant, PTL

(* A context has at most one request in flight and lives until it is over. *)
THEOREM TransferOneRequest == Spec => []OneRequest
<1>1. IInv => OneRequest
  <2>1. SUFFICES ASSUME IInv, NEW c \in Clients
                 PROVE  /\ Cardinality(conn[c].reqs) <= 1
                        /\ conn[c].reqs # {} => conn[c].context = "live"
    BY DEF OneRequest
  <2>2. Owned(conn[c])
    BY <2>1, GoodConn
  <2>3. Cardinality({}) = 0 /\ \A req : Cardinality({req}) = 1
    BY FS_EmptySet, FS_Singleton
  <2> DEFINE r == conn[c]
  <2>4. r.reqs = {} \/ \E req : r.reqs = {req}
    BY <2>2 DEF Owned
  <2>5. Cardinality(r.reqs) \in {0, 1}
    BY <2>3, <2>4
  <2>6. QED
    BY <2>2, <2>5 DEF Owned
<1>2. QED
  BY <1>1, TransferInvariant, PTL

(* Without an error nothing is left behind when the requests end. *)
THEOREM TransferCleansUp == Spec => []CleanUnlessFailed
<1>1. IInv => CleanUnlessFailed
  BY GoodConn DEF CleanUnlessFailed, Owned
<1>2. QED
  BY <1>1, TransferInvariant, PTL

(* A client with the buffer to itself, whose socket keeps up, has received *)
(* the beginning of the whole transfer.                                    *)
THEOREM TransferInOrder == Spec => []SentInOrder
<1>1. IInv => SentInOrder
  <2>1. SUFFICES ASSUME IInv, NEW c \in Clients, ~conn[c].shared, ~conn[c].late
                 PROVE  IsPrefix(conn[c].out, Expected)
    BY DEF SentInOrder
  <2> DEFINE out == conn[c].out
             at == conn[c].offset
  <2>2. out \in Seq(Cell) /\ at \in 0 .. Len(File) /\ out \o Chunks[at] = Expected
    <3>1. out \in Seq(Cell) /\ at \in Nat /\ at <= Len(File) /\ Len(File) \in Nat
      <4>1. Len(File) \in Nat
        OBVIOUS
      <4>2. conn[c] \in ConnType /\ at <= Len(File)
        BY <2>1, GoodConn DEF OnTheWay
      <4>3. out \in Seq(Cell) /\ at \in Nat
        BY <4>2 DEF ConnType
      <4>4. QED
        BY <4>1, <4>2, <4>3
    <3>2. out \o Chunks[at] = Expected
      BY <2>1, GoodConn DEF OnTheWay
    <3>3. QED
      BY <3>1, <3>2
  <2>3. Chunks[at] \in Seq(Cell)
    BY <2>2, ChunksValue
  <2> HIDE DEF out, at
  <2> DEFINE rest == Chunks[at]
  <2>4. out \o rest = Expected /\ rest \in Seq(Cell)
    BY <2>2, <2>3
  <2> HIDE DEF rest
  <2>5. /\ Expected \in Seq(Cell) /\ Len(Expected) = Len(out) + Len(rest)
        /\ \A i \in 1 .. Len(out) : Expected[i] = out[i]
    <3>1. out \in Seq(Cell) /\ rest \in Seq(Cell)
      BY <2>2, <2>4
    <3>2. /\ out \o rest \in Seq(Cell) /\ Len(out \o rest) = Len(out) + Len(rest)
          /\ \A i \in 1 .. Len(out) + Len(rest) :
               (out \o rest)[i] = IF i <= Len(out) THEN out[i] ELSE rest[i - Len(out)]
      BY <3>1, ConcatProperties
    <3>3. QED
      BY <2>4, <3>1, <3>2
  <2>6. Len(out) \in Nat /\ Len(out) <= Len(Expected)
    BY <2>2, <2>4, <2>5
  <2>7. SubSeq(out, 1, Len(out)) = out
    BY <2>2, SubSeqFull
  <2>8. SubSeq(Expected, 1, Len(out)) = out
    <3> DEFINE m == Len(out)
               e == SubSeq(Expected, 1, m)
    <3>1. 1 \in Int /\ m \in Int /\ \A i \in 1 .. m : Expected[i] \in Cell
      BY <2>5, <2>6
    <3>2. /\ e \in Seq(Cell) /\ Len(e) = (IF 1 <= m THEN m - 1 + 1 ELSE 0)
          /\ \A i \in 1 .. m - 1 + 1 : e[i] = Expected[1 + i - 1]
      <4> HIDE DEF m
      <4> QED BY <3>1, SubSeqProperties
    <3>3. (IF 1 <= m THEN m - 1 + 1 ELSE 0) = m /\ m - 1 + 1 = m /\ \A i \in 1 .. m : 1 + i - 1 = i
      BY <2>6
    <3> HIDE DEF e
    <3>4. Len(e) = m /\ \A i \in 1 .. m : e[i] = out[i]
      BY <2>5, <3>2, <3>3
    <3>5. e = out
      BY <2>2, <3>2, <3>4, SeqEqual
    <3>6. QED
      BY <3>5 DEF e
  <2>9. IsPrefix(out, Expected)
    BY <2>6, <2>7, <2>8 DEF IsPrefix
  <2>10. QED
    BY <2>9 DEF out
<1>2. QED
  BY <1>1, TransferInvariant, PTL

=============================================================================
