------------------------------ MODULE Chat_proofs ------------------------------
(***************************************************************************)
(* Machine-checked proofs about chat_server, for any number of peers, any  *)
(* scripts and any sizes: the vector of connections matches the handles,   *)
(* what is pending in a socket is what was to be sent, messages are found  *)
(* whole and in order, and the decoding side implements FrameCodec; and    *)
(* about chat_client composed with it: the client's one sendBuf tears no   *)
(* byte of what it puts on the wire, the first line it was given is the    *)
(* one that everybody hears, and it prints every message it is sent.  The  *)
(* codec reads back what it wrote.                                         *)
(***************************************************************************)
EXTENDS ChatClient, BufferOps_proofs

USE BufferOpsAssumption, CodecAssumption, ChatServerAssumption

-----------------------------------------------------------------------------
(* The inductive invariant.                                                *)

(* A send buffer of N bytes, and the parts of it a write may refer to.     *)
BufOf(N)  == [1 .. N -> Byte]
PartOf(N) == [first : 1 .. N, last : 1 .. N]

SendBuf == BufOf(SendSize)

(* A name for concatenation that the steps below need not expand. *)
Cat(s, u) == s \o u

(* What the socket will send for a list q of parts of sb. *)
Piece(sb, w)   == SubSeq(sb, w.first, w.last)
Pieces(sb, q)  == [i \in 1 .. Len(q) |-> Piece(sb, q[i])]
Pending(sb, q) == FlattenSeq(Pieces(sb, q))

(* The parts of sb that are pending are cells of what was encoded. *)
Encoded(sb, w, content) ==
  /\ w.first <= w.last /\ w.last <= Len(content)
  /\ \A j \in w.first .. w.last : sb[j] = content[j]

AllEncoded(sb, q, content) == \A i \in 1 .. Len(q) : Encoded(sb, q[i], content)

(* The encode buffer is never read from. *)
NeverRetrieved == Good(buf) /\ buf.readerIndex = 0

(* What was asked for is what has left and what is pending. *)
Accounted(c) ==
  /\ AllEncoded(sendBuf[c], wq[c], Content(buf))
  /\ handle[c] # "closed" => Cat(out[c], Pending(sendBuf[c], wq[c])) = sent[c]

IInv ==
  /\ TypeOK
  /\ Good(cbuf)
  /\ NeverRetrieved
  /\ ConnsMatchHandles
  /\ \A c \in Clients : Accounted(c)

-----------------------------------------------------------------------------
(* FlattenSeq, which is defined by recursion from the front.               *)

LEMMA CatSeq ==
  ASSUME NEW S, NEW s \in Seq(S), NEW u \in Seq(S)
  PROVE  /\ Cat(s, u) \in Seq(S) /\ Len(Cat(s, u)) = Len(s) + Len(u)
         /\ \A i \in 1 .. Len(s) + Len(u) :
              Cat(s, u)[i] = IF i <= Len(s) THEN s[i] ELSE u[i - Len(s)]
BY ConcatProperties DEF Cat

LEMMA CatAssociative ==
  ASSUME NEW S, NEW s \in Seq(S), NEW u \in Seq(S), NEW v \in Seq(S)
  PROVE  Cat(s, u) \in Seq(S) /\ Cat(Cat(s, u), v) = Cat(s, Cat(u, v))
<1>1. s \o u \in Seq(S)
  BY ConcatProperties
<1>2. QED
  BY <1>1, ConcatAssociative DEF Cat

(* g[i] is what the first i of seqs make together. *)
Joins(g, seqs) ==
  /\ g[0] = << >>
  /\ \A i \in 1 .. Len(seqs) : g[i] = Cat(g[i - 1], seqs[i])

LEMMA FlattenIs ==
  ASSUME NEW S, NEW seqs \in Seq(Seq(S)), NEW g, Joins(g, seqs),
         \A i \in 0 .. Len(seqs) : g[i] \in Seq(S)
  PROVE  FlattenSeq(seqs) = g[Len(seqs)]
<1> DEFINE n == Len(seqs)
           flatten == CHOOSE f : f = [i \in 1 .. Len(seqs) |->
                        IF i = 1 THEN seqs[i] ELSE Cat(f[i - 1], seqs[i])]
<1>1. n \in Nat /\ \A i \in 1 .. n : seqs[i] \in Seq(S)
  OBVIOUS
<1>2. CASE n = 0
  <2>1. seqs = << >> /\ FlattenSeq(seqs) = seqs
    BY <1>2 DEF FlattenSeq
  <2>2. QED
    BY <1>2, <2>1 DEF Joins
<1>3. CASE n # 0
  <2>1. FlattenSeq(seqs) = flatten[n]
    BY <1>3 DEF FlattenSeq, Cat
  <2>2. g[1] = seqs[1]
    <3>1. 1 \in 1 .. Len(seqs) /\ 1 - 1 = 0
      BY <1>1, <1>3
    <3>2. g[1] = Cat(g[0], seqs[1]) /\ g[0] = << >>
      BY <3>1 DEF Joins
    <3>3. << >> \o seqs[1] = seqs[1]
      BY <1>1, <3>1, ConcatEmptySeq
    <3>4. QED
      BY <3>2, <3>3 DEF Cat
  <2> HIDE DEF n
  <2> DEFINE f == [i \in 1 .. n |-> g[i]]
  <2>3. ASSUME NEW i \in 1 .. n, i # 1
        PROVE  i - 1 \in 1 .. n /\ g[i] = Cat(g[i - 1], seqs[i])
    <3>1. i - 1 \in 1 .. n
      BY <1>1, <2>3
    <3>2. QED
      BY <3>1 DEF Joins, n
  <2>4. f = [i \in 1 .. n |-> IF i = 1 THEN seqs[i] ELSE Cat(f[i - 1], seqs[i])]
    <3>1. ASSUME NEW i \in 1 .. n
          PROVE  f[i] = IF i = 1 THEN seqs[i] ELSE Cat(f[i - 1], seqs[i])
      BY <2>2, <2>3
    <3>2. QED
      BY <3>1
  <2>5. flatten = [i \in 1 .. n |-> IF i = 1 THEN seqs[i] ELSE Cat(flatten[i - 1], seqs[i])]
    BY <2>4 DEF n
  <2> HIDE DEF flatten
  <2> DEFINE T == {k \in Nat : k + 1 <= n => flatten[k + 1] = g[k + 1]}
  <2>6. 0 \in T
    BY <2>2, <2>5
  <2>7. ASSUME NEW k \in Nat, k \in T
        PROVE  k + 1 \in T
    <3>1. SUFFICES ASSUME (k + 1) + 1 <= n PROVE flatten[(k + 1) + 1] = g[(k + 1) + 1]
      OBVIOUS
    <3> DEFINE j == (k + 1) + 1
    <3>2. j \in 1 .. n /\ j # 1 /\ j - 1 = k + 1 /\ k + 1 <= n
      BY <1>1, <3>1
    <3> HIDE DEF j
    <3>3. flatten[j] = Cat(flatten[j - 1], seqs[j]) /\ flatten[j - 1] = g[j - 1]
      BY <2>5, <2>7, <3>2
    <3>4. QED
      BY <2>3, <3>2, <3>3 DEF j
  <2>8. \A k \in Nat : k \in T
    <3> HIDE DEF T
    <3> QED BY <2>6, <2>7, SetInduction
  <2>9. n - 1 \in Nat /\ (n - 1) + 1 = n
    BY <1>1, <1>3
  <2> DEFINE k == n - 1
  <2>10. k \in Nat /\ k + 1 = n /\ k + 1 <= n
    BY <1>1, <2>9
  <2> HIDE DEF k
  <2>11. flatten[k + 1] = g[k + 1]
    BY <2>8, <2>10
  <2>12. QED
    BY <2>1, <2>10, <2>11 DEF n
<1>4. QED
  BY <1>2, <1>3

LEMMA FlattenJoins ==
  ASSUME NEW S, NEW seqs \in Seq(Seq(S))
  PROVE  \E g \in [0 .. Len(seqs) -> Seq(S)] :
           Joins(g, seqs) /\ FlattenSeq(seqs) = g[Len(seqs)]
<1> DEFINE n == Len(seqs)
           step == [p \in (0 .. n) \X Seq(S) |-> Cat(p[2], seqs[p[1]])]
<1>1. n \in Nat /\ \A i \in 1 .. n : seqs[i] \in Seq(S)
  OBVIOUS
<1>2. ASSUME NEW k \in 1 .. n, NEW x \in Seq(S)
      PROVE  step[<<k, x>>] = Cat(x, seqs[k]) /\ step[<<k, x>>] \in Seq(S)
  <2>1. seqs[k] \in Seq(S) /\ <<k, x>> \in (0 .. n) \X Seq(S)
    BY <1>1
  <2>2. step[<<k, x>>] = Cat(x, seqs[k])
    BY <2>1
  <2>3. Cat(x, seqs[k]) \in Seq(S)
    BY <2>1, ConcatProperties DEF Cat
  <2>4. QED
    BY <2>2, <2>3
<1> HIDE DEF step, n
<1>3. << >> \in Seq(S) /\ 0 \in Int /\ n \in Int
  BY <1>1
<1>4. ASSUME NEW k \in 0 + 1 .. n, NEW x \in Seq(S)
      PROVE  step[<<k, x>>] \in Seq(S)
  <2>1. k \in 1 .. n
    BY <1>1
  <2>2. QED
    BY <1>2, <2>1
<1>5. PICK g \in [0 .. n -> Seq(S)] : Follows(g, << >>, step, 0, n)
  <2> DEFINE T == Seq(S)
  <2>1. << >> \in T /\ \A k \in 0 + 1 .. n : \A x \in T : step[<<k, x>>] \in T
    BY <1>3, <1>4
  <2> HIDE DEF T
  <2>2. \E g \in [0 .. n -> T] : Follows(g, << >>, step, 0, n)
    BY <1>3, <2>1, RecursionExists
  <2>3. QED
    BY <2>2 DEF T
<1>6. g[0] = << >>
  <2>1. 0 \in 0 .. n
    BY <1>1
  <2>2. QED
    BY <1>5, <2>1, Zenon DEF Follows
<1>7. ASSUME NEW i \in 1 .. n
      PROVE  g[i] = Cat(g[i - 1], seqs[i])
  <2>1. i \in 0 .. n /\ i # 0 /\ g[i - 1] \in Seq(S)
    BY <1>1, <1>5
  <2>2. g[i] = step[<<i, g[i - 1]>>]
    BY <1>5, <2>1 DEF Follows
  <2>3. QED
    BY <1>2, <2>1, <2>2
<1>8. Joins(g, seqs) /\ \A i \in 0 .. Len(seqs) : g[i] \in Seq(S)
  BY <1>5, <1>6, <1>7 DEF Joins, n
<1>9. QED
  BY <1>5, <1>8, FlattenIs DEF n

LEMMA FlattenTyped ==
  ASSUME NEW S, NEW seqs \in Seq(Seq(S))
  PROVE  FlattenSeq(seqs) \in Seq(S)
<1>1. Len(seqs) \in 0 .. Len(seqs)
  OBVIOUS
<1>2. QED
  BY <1>1, FlattenJoins

LEMMA FlattenAppend ==
  ASSUME NEW S, NEW seqs \in Seq(Seq(S)), NEW s \in Seq(S)
  PROVE  FlattenSeq(Append(seqs, s)) = FlattenSeq(seqs) \o s
<1> DEFINE n == Len(seqs)
           more == Append(seqs, s)
<1>1. n \in Nat
  OBVIOUS
<1>2. PICK g \in [0 .. n -> Seq(S)] : Joins(g, seqs) /\ FlattenSeq(seqs) = g[n]
  BY FlattenJoins
<1>3. /\ more \in Seq(Seq(S)) /\ Len(more) = n + 1 /\ more[n + 1] = s
      /\ \A i \in 1 .. n : more[i] = seqs[i]
  BY AppendProperties
<1> DEFINE h == [i \in 0 .. n + 1 |-> IF i = n + 1 THEN Cat(g[n], s) ELSE g[i]]
<1>4. \A i \in 1 .. n : g[i] = Cat(g[i - 1], seqs[i])
  BY <1>2 DEF Joins
<1> HIDE DEF n, more
<1>5. g[0] = << >> /\ Cat(g[n], s) \in Seq(S)
  <2>1. n \in 0 .. n
    BY <1>1
  <2>2. g[n] \in Seq(S)
    BY <1>2, <2>1
  <2>3. Cat(g[n], s) \in Seq(S)
    BY <2>2, ConcatProperties DEF Cat
  <2>4. QED
    BY <1>2, <2>3 DEF Joins
<1>6. \A i \in 0 .. n + 1 : h[i] \in Seq(S)
  BY <1>1, <1>2, <1>5
<1>7. ASSUME NEW i \in 1 .. n + 1
      PROVE  h[i] = Cat(h[i - 1], more[i])
  <2>1. CASE i = n + 1
    <3>1. h[i] = Cat(g[n], s) /\ h[i - 1] = g[n] /\ more[i] = s
      BY <1>1, <1>3, <2>1
    <3>2. QED
      BY <3>1
  <2>2. CASE i # n + 1
    <3>1. i \in 1 .. n /\ i - 1 \in 0 .. n + 1 /\ i - 1 # n + 1
      BY <1>1, <2>2
    <3>2. h[i] = g[i] /\ h[i - 1] = g[i - 1] /\ more[i] = seqs[i]
      BY <1>3, <2>2, <3>1
    <3>3. QED
      BY <1>4, <3>1, <3>2
  <2>3. QED
    BY <2>1, <2>2
<1>8. h[0] = << >> /\ h[n + 1] = Cat(g[n], s)
  <2>1. 0 \in 0 .. n + 1 /\ n + 1 \in 0 .. n + 1 /\ 0 # n + 1
    BY <1>1
  <2>2. QED
    BY <1>5, <2>1
<1> HIDE DEF h
<1>9. Joins(h, more) /\ \A i \in 0 .. Len(more) : h[i] \in Seq(S)
  BY <1>3, <1>6, <1>7, <1>8 DEF Joins
<1>10. FlattenSeq(more) = h[Len(more)]
  BY <1>3, <1>9, FlattenIs
<1>11. QED
  BY <1>2, <1>3, <1>8, <1>10 DEF more, n, Cat

(* What FlattenSeq makes of a list that another one continues. *)
LEMMA FlattenOneMore ==
  ASSUME NEW S, NEW s \in Seq(Seq(S)), NEW u \in Seq(Seq(S)),
         Len(u) = Len(s) + 1, \A i \in 1 .. Len(s) : u[i] = s[i]
  PROVE  FlattenSeq(u) = Cat(FlattenSeq(s), u[Len(u)])
<1> DEFINE T == Seq(S)
           n == Len(s)
           x == u[n + 1]
           v == Append(s, x)
<1>1. s \in Seq(T) /\ u \in Seq(T) /\ n \in Nat /\ x \in T
  OBVIOUS
<1>2. Len(u) = n + 1 /\ \A i \in 1 .. n : u[i] = s[i]
  OBVIOUS
<1> HIDE DEF T, n, x
<1>3. v \in Seq(T) /\ Len(v) = Len(s) + 1 /\ (\A i \in 1 .. Len(s) : v[i] = s[i]) /\ v[Len(s) + 1] = x
  BY <1>1, AppendProperties
<1> HIDE DEF v
<1>4. \A i \in 1 .. Len(u) : u[i] = v[i]
  <2>1. x = u[n + 1] /\ Len(s) = n
    BY DEF n, x
  <2>2. \A i \in 1 .. Len(u) : i = n + 1 \/ i \in 1 .. n
    BY <1>1, <1>2
  <2>3. QED
    BY <1>2, <1>3, <2>1, <2>2
<1>5. u = v
  BY <1>1, <1>2, <1>3, <1>4, SeqEqual DEF n
<1>6. FlattenSeq(Append(s, x)) = FlattenSeq(s) \o x
  BY <1>1, FlattenAppend DEF T
<1>7. x = u[Len(u)]
  BY <1>2 DEF x
<1>8. QED
  BY <1>5, <1>6, <1>7 DEF v, Cat

LEMMA FlattenHead ==
  ASSUME NEW S, NEW seqs \in Seq(Seq(S)), seqs # << >>
  PROVE  FlattenSeq(seqs) = Head(seqs) \o FlattenSeq(Tail(seqs))
<1> DEFINE n == Len(seqs)
           x == Head(seqs)
           rest == Tail(seqs)
<1>1. /\ n \in Nat /\ n # 0 /\ x \in Seq(S) /\ x = seqs[1]
      /\ rest \in Seq(Seq(S)) /\ Len(rest) = n - 1
      /\ \A i \in 1 .. n - 1 : rest[i] = seqs[i + 1] /\ rest[i] \in Seq(S)
  OBVIOUS
<1> HIDE DEF n, x, rest
<1>2. PICK g \in [0 .. n - 1 -> Seq(S)] : Joins(g, rest) /\ FlattenSeq(rest) = g[n - 1]
  <2>1. \E g \in [0 .. Len(rest) -> Seq(S)] : Joins(g, rest) /\ FlattenSeq(rest) = g[Len(rest)]
    BY <1>1, FlattenJoins
  <2>2. QED
    BY <1>1, <2>1
<1>3. g[0] = << >> /\ \A i \in 1 .. n - 1 : g[i] = Cat(g[i - 1], rest[i])
  BY <1>1, <1>2 DEF Joins
<1> DEFINE h == [i \in 0 .. n |-> IF i = 0 THEN << >> ELSE Cat(x, g[i - 1])]
<1>4. ASSUME NEW i \in 1 .. n
      PROVE  h[i] = Cat(x, g[i - 1]) /\ h[i] \in Seq(S)
  <2>1. i - 1 \in 0 .. n - 1 /\ i \in 0 .. n /\ i # 0
    BY <1>1
  <2>2. g[i - 1] \in Seq(S) /\ h[i] = Cat(x, g[i - 1])
    BY <1>2, <2>1
  <2>3. Cat(x, g[i - 1]) \in Seq(S)
    BY <1>1, <2>2, ConcatProperties DEF Cat
  <2>4. QED
    BY <2>2, <2>3
<1>5. h[0] = << >> /\ \A i \in 0 .. n : h[i] \in Seq(S)
  <2>1. 0 \in 0 .. n /\ \A i \in 0 .. n : i # 0 => i \in 1 .. n
    BY <1>1
  <2>2. h[0] = << >> /\ << >> \in Seq(S)
    BY <2>1
  <2>3. QED
    BY <1>4, <2>1, <2>2
<1> HIDE DEF h
<1>6. ASSUME NEW i \in 1 .. n
      PROVE  h[i] = Cat(h[i - 1], seqs[i])
  <2>1. CASE i = 1
    <3>1. i - 1 = 0
      BY <2>1
    <3>2. h[i] = Cat(x, g[0]) /\ g[0] = << >> /\ h[i - 1] = << >> /\ seqs[i] = x
      BY <1>1, <1>3, <1>4, <1>5, <2>1, <3>1
    <3>3. Cat(x, << >>) = x /\ Cat(<< >>, x) = x
      BY <1>1, ConcatEmptySeq DEF Cat
    <3>4. QED
      BY <3>2, <3>3
  <2>2. CASE i # 1
    <3> DEFINE k == i - 1
               m == i - 2
    <3>1. k \in 1 .. n /\ k \in 1 .. n - 1 /\ k - 1 = m /\ m \in 0 .. n - 1 /\ k + 1 = i
      BY <1>1, <2>2
    <3> HIDE DEF m
    <3>2. h[i] = Cat(x, g[k]) /\ h[k] = Cat(x, g[m]) /\ g[k] = Cat(g[m], rest[k]) /\ rest[k] = seqs[i]
          /\ g[m] \in Seq(S) /\ rest[k] \in Seq(S)
      BY <1>1, <1>2, <1>3, <1>4, <3>1
    <3> DEFINE u == g[m]
               v == rest[k]
    <3>3. u \in Seq(S) /\ v \in Seq(S) /\ h[i] = Cat(x, Cat(u, v)) /\ Cat(h[k], seqs[i]) = Cat(Cat(x, u), v)
      BY <3>2
    <3> HIDE DEF u, v, k
    <3>4. Cat(Cat(x, u), v) = Cat(x, Cat(u, v))
      <4>1. x \in Seq(S) /\ u \in Seq(S) /\ v \in Seq(S)
        BY <1>1, <3>3
      <4>2. QED
        BY <4>1, CatAssociative
    <3>5. QED
      BY <3>3, <3>4 DEF k
  <2>3. QED
    BY <2>1, <2>2
<1>7. FlattenSeq(seqs) = h[n]
  <2>1. Joins(h, seqs) /\ \A i \in 0 .. Len(seqs) : h[i] \in Seq(S)
    BY <1>5, <1>6 DEF Joins, n
  <2>2. QED
    BY <2>1, FlattenIs DEF n
<1>8. h[n] = Cat(x, g[n - 1])
  <2>1. n \in 1 .. n
    BY <1>1
  <2>2. QED
    BY <1>4, <2>1
<1>9. QED
  BY <1>2, <1>7, <1>8 DEF x, rest, Cat

-----------------------------------------------------------------------------
(* Pending writes.                                                         *)

LEMMA FunIsSeq ==
  ASSUME NEW S, NEW n \in Nat, NEW f \in [1 .. n -> S]
  PROVE  f \in Seq(S) /\ Len(f) = n
OBVIOUS

LEMMA SeqIsFun ==
  ASSUME NEW S, NEW s \in Seq(S)
  PROVE  Len(s) \in Nat /\ s \in [1 .. Len(s) -> S] /\ DOMAIN s = 1 .. Len(s)
OBVIOUS

LEMMA OfServer == SendSize \in Nat /\ SendBuf = BufOf(SendSize) /\ Part = PartOf(SendSize)
BY DEF ChatServerAssumption, SendBuf, Part, PartOf

LEMMA PieceTyped ==
  ASSUME NEW N \in Nat, NEW sb \in BufOf(N), NEW w \in PartOf(N)
  PROVE  Piece(sb, w) \in Seq(Byte)
<1> DEFINE m == w.first
           n == w.last
<1>1. m \in 1 .. N /\ n \in 1 .. N
  BY DEF PartOf
<1> HIDE DEF m, n
<1>2. m \in Int /\ n \in Int /\ \A i \in m .. n : sb[i] \in Byte
  BY <1>1 DEF BufOf
<1>3. SubSeq(sb, m, n) \in Seq(Byte)
  BY <1>2, SubSeqProperties
<1>4. QED
  BY <1>3 DEF m, n, Piece

LEMMA PiecesTyped ==
  ASSUME NEW N \in Nat, NEW sb \in BufOf(N), NEW q \in Seq(PartOf(N))
  PROVE  /\ Pieces(sb, q) \in Seq(Seq(Byte))
         /\ Len(Pieces(sb, q)) = Len(q)
         /\ Pending(sb, q) \in Seq(Byte)
<1>1. Len(q) \in Nat /\ \A i \in 1 .. Len(q) : q[i] \in PartOf(N)
  OBVIOUS
<1>2. \A i \in 1 .. Len(q) : Piece(sb, q[i]) \in Seq(Byte)
  BY <1>1, PieceTyped
<1>3. Pieces(sb, q) \in [1 .. Len(q) -> Seq(Byte)]
  BY <1>2 DEF Pieces
<1>4. Pieces(sb, q) \in Seq(Seq(Byte)) /\ Len(Pieces(sb, q)) = Len(q)
  BY <1>1, <1>3, FunIsSeq
<1>5. QED
  BY <1>4, FlattenTyped DEF Pending

LEMMA PendingEmpty ==
  ASSUME NEW sb
  PROVE  Pending(sb, << >>) = << >>
<1>1. Pieces(sb, << >>) = << >>
  BY DEF Pieces
<1>2. QED
  BY <1>1 DEF Pending, FlattenSeq

(* The cells that pending writes refer to decide what is sent. *)
LEMMA PendingSame ==
  ASSUME NEW N \in Nat, NEW sb \in BufOf(N), NEW sb2 \in BufOf(N), NEW q \in Seq(PartOf(N)),
         \A i \in 1 .. Len(q) : \A j \in q[i].first .. q[i].last : sb[j] = sb2[j]
  PROVE  Pending(sb, q) = Pending(sb2, q)
<1>1. ASSUME NEW i \in 1 .. Len(q)
      PROVE  Piece(sb, q[i]) = Piece(sb2, q[i])
  <2> DEFINE m == q[i].first
             n == q[i].last
  <2>1. q[i] \in PartOf(N) /\ \A j \in m .. n : sb[j] = sb2[j]
    OBVIOUS
  <2>2. m \in 1 .. N /\ n \in 1 .. N
    BY <2>1 DEF PartOf
  <2> HIDE DEF m, n
  <2>3. m \in Int /\ n \in Int /\ (\A j \in m .. n : sb[j] \in Byte) /\ \A j \in m .. n : sb2[j] \in Byte
    <3>1. m \in Int /\ n \in Int /\ \A j \in m .. n : j \in 1 .. N
      BY <2>2
    <3>2. (\A j \in 1 .. N : sb[j] \in Byte) /\ \A j \in 1 .. N : sb2[j] \in Byte
      BY DEF BufOf
    <3>3. QED
      BY <3>1, <3>2
  <2>4. /\ SubSeq(sb, m, n) \in Seq(Byte) /\ SubSeq(sb2, m, n) \in Seq(Byte)
        /\ Len(SubSeq(sb, m, n)) = (IF m <= n THEN n - m + 1 ELSE 0)
        /\ Len(SubSeq(sb2, m, n)) = (IF m <= n THEN n - m + 1 ELSE 0)
        /\ \A k \in 1 .. n - m + 1 : SubSeq(sb, m, n)[k] = sb[m + k - 1]
        /\ \A k \in 1 .. n - m + 1 : SubSeq(sb2, m, n)[k] = sb2[m + k - 1]
    BY <2>3, SubSeqProperties
  <2> DEFINE s == SubSeq(sb, m, n)
             u == SubSeq(sb2, m, n)
  <2>5. s \in Seq(Byte) /\ u \in Seq(Byte) /\ Len(s) = Len(u)
    BY <2>4
  <2>6. ASSUME NEW k \in 1 .. Len(s)
        PROVE  s[k] = u[k]
    <3>1. k \in 1 .. n - m + 1 /\ m + k - 1 \in m .. n
      BY <2>3, <2>4
    <3>2. s[k] = sb[m + k - 1] /\ u[k] = sb2[m + k - 1]
      BY <2>4, <3>1
    <3>3. QED
      BY <2>1, <3>1, <3>2
  <2> HIDE DEF s, u
  <2>7. s = u
    BY <2>5, <2>6, SeqEqual
  <2>8. QED
    BY <2>7 DEF s, u, m, n, Piece
<1>2. Pieces(sb, q) = Pieces(sb2, q)
  BY <1>1 DEF Pieces
<1>3. QED
  BY <1>2 DEF Pending

LEMMA PendingAppend ==
  ASSUME NEW N \in Nat, NEW sb \in BufOf(N), NEW q \in Seq(PartOf(N)), NEW w \in PartOf(N)
  PROVE  Pending(sb, Append(q, w)) = Cat(Pending(sb, q), Piece(sb, w))
<1> DEFINE n == Len(q)
           more == Append(q, w)
<1>1. /\ n \in Nat /\ more \in Seq(PartOf(N)) /\ Len(more) = n + 1 /\ more[n + 1] = w
      /\ \A i \in 1 .. n : more[i] = q[i]
  BY AppendProperties
<1> HIDE DEF more
<1>2. /\ Pieces(sb, q) \in Seq(Seq(Byte)) /\ Len(Pieces(sb, q)) = n
      /\ Pieces(sb, more) \in Seq(Seq(Byte)) /\ Len(Pieces(sb, more)) = n + 1
      /\ Piece(sb, w) \in Seq(Byte)
  BY <1>1, PieceTyped, PiecesTyped
<1>3. /\ \A i \in 1 .. n : Pieces(sb, more)[i] = Piece(sb, q[i]) /\ Pieces(sb, q)[i] = Piece(sb, q[i])
      /\ Pieces(sb, more)[n + 1] = Piece(sb, w)
  BY <1>1 DEF Pieces
<1> DEFINE s == Pieces(sb, q)
           u == Pieces(sb, more)
           x == Piece(sb, w)
<1>4. u = Append(s, x)
  <2> DEFINE v == Append(s, x)
             T == Seq(Byte)
  <2>1. s \in Seq(T) /\ Len(s) = n /\ u \in Seq(T) /\ Len(u) = n + 1 /\ x \in T
    BY <1>2
  <2>2. (\A i \in 1 .. n : u[i] = s[i]) /\ u[n + 1] = x
    BY <1>3
  <2> HIDE DEF s, u, x, T, n
  <2>3. v \in Seq(T) /\ Len(v) = n + 1 /\ (\A i \in 1 .. n : v[i] = s[i]) /\ v[n + 1] = x
    BY <2>1, AppendProperties
  <2> HIDE DEF v
  <2>4. \A i \in 1 .. n + 1 : u[i] = v[i]
    BY <1>1, <2>2, <2>3
  <2>5. u = v
    BY <2>1, <2>3, <2>4, SeqEqual
  <2>6. QED
    BY <2>5 DEF v
<1>5. FlattenSeq(Append(s, x)) = FlattenSeq(s) \o x
  BY <1>2, FlattenAppend
<1> HIDE DEF s, u, x
<1>6. FlattenSeq(u) = Cat(FlattenSeq(s), x)
  BY <1>4, <1>5 DEF Cat
<1>7. QED
  BY <1>6 DEF Pending, s, u, x, more

LEMMA PendingHead ==
  ASSUME NEW N \in Nat, NEW sb \in BufOf(N), NEW q \in Seq(PartOf(N)), q # << >>
  PROVE  Pending(sb, q) = Cat(Piece(sb, Head(q)), Pending(sb, Tail(q)))
<1> DEFINE n == Len(q)
           w == Head(q)
           rest == Tail(q)
<1>1. /\ n \in Nat /\ n # 0 /\ w \in PartOf(N) /\ w = q[1] /\ rest \in Seq(PartOf(N)) /\ Len(rest) = n - 1
      /\ \A i \in 1 .. n - 1 : rest[i] = q[i + 1]
  OBVIOUS
<1> HIDE DEF w, rest
<1> DEFINE s == Pieces(sb, q)
           u == Pieces(sb, rest)
           T == Seq(Byte)
<1>2. s \in Seq(T) /\ Len(s) = n /\ u \in Seq(T) /\ Len(u) = n - 1
  BY <1>1, PiecesTyped
<1>3. /\ s[1] = Piece(sb, w)
      /\ \A i \in 1 .. n - 1 : s[i + 1] = Piece(sb, q[i + 1]) /\ u[i] = Piece(sb, q[i + 1])
  BY <1>1 DEF Pieces
<1> HIDE DEF s, u, T, n
<1>4. s # << >> /\ Head(s) = s[1]
  BY <1>1, <1>2
<1>5. Tail(s) = u
  <2>1. Tail(s) \in Seq(T) /\ Len(Tail(s)) = n - 1 /\ \A i \in 1 .. n - 1 : Tail(s)[i] = s[i + 1]
    BY <1>2, <1>4, HeadTailProperties
  <2>2. \A i \in 1 .. n - 1 : Tail(s)[i] = u[i]
    BY <1>3, <2>1
  <2>3. QED
    BY <1>2, <2>1, <2>2, SeqEqual
<1>6. FlattenSeq(s) = Cat(Head(s), FlattenSeq(Tail(s)))
  BY <1>2, <1>4, FlattenHead DEF T, Cat
<1>7. QED
  BY <1>3, <1>4, <1>5, <1>6 DEF Pending, s, u, w, rest

-----------------------------------------------------------------------------
(* The codec: decoding takes a frame from the front of the content,        *)
(* encoding puts one at its end.                                           *)

(* What of s lies behind its first n elements. *)
Behind(s, n) == SubSeq(s, n + 1, Len(s))

LEMMA BehindSeq ==
  ASSUME NEW S, NEW s \in Seq(S), NEW n \in 0 .. Len(s)
  PROVE  /\ Behind(s, n) \in Seq(S)
         /\ Len(Behind(s, n)) = Len(s) - n
         /\ \A i \in 1 .. Len(s) - n : Behind(s, n)[i] = s[n + i]
<1> DEFINE a == n + 1
           z == Len(s)
<1>1. a \in Int /\ z \in Int /\ \A i \in a .. z : s[i] \in S
  OBVIOUS
<1>2. /\ (IF a <= z THEN z - a + 1 ELSE 0) = Len(s) - n
      /\ z - a + 1 = Len(s) - n
      /\ \A i \in 1 .. Len(s) - n : a + i - 1 = n + i
  OBVIOUS
<1> HIDE DEF a, z
<1>3. /\ SubSeq(s, a, z) \in Seq(S)
      /\ Len(SubSeq(s, a, z)) = IF a <= z THEN z - a + 1 ELSE 0
      /\ \A i \in 1 .. z - a + 1 : SubSeq(s, a, z)[i] = s[a + i - 1]
  BY <1>1, SubSeqProperties
<1> DEFINE u == SubSeq(s, a, z)
<1> HIDE DEF u
<1>4. /\ u \in Seq(S) /\ Len(u) = Len(s) - n
      /\ \A i \in 1 .. Len(s) - n : u[i] = s[n + i]
  BY <1>2, <1>3 DEF u
<1>5. QED
  BY <1>4 DEF u, a, z, Behind

LEMMA BehindTwice ==
  ASSUME NEW S, NEW s \in Seq(S), NEW n \in 0 .. Len(s), NEW m \in 0 .. Len(s) - n
  PROVE  Behind(Behind(s, n), m) = Behind(s, n + m)
<1> DEFINE u == Behind(s, n)
           v == Behind(u, m)
           w == Behind(s, n + m)
<1>1. /\ Len(s) \in Nat /\ n + m \in 0 .. Len(s)
      /\ Len(s) - (n + m) = Len(s) - n - m
      /\ \A i \in 1 .. Len(s) - n - m : n + (m + i) = n + m + i /\ m + i \in 1 .. Len(s) - n
  OBVIOUS
<1>2. /\ u \in Seq(S) /\ Len(u) = Len(s) - n
      /\ \A i \in 1 .. Len(s) - n : u[i] = s[n + i]
  BY BehindSeq
<1>3. /\ w \in Seq(S) /\ Len(w) = Len(s) - (n + m)
      /\ \A i \in 1 .. Len(s) - (n + m) : w[i] = s[n + m + i]
  <2> DEFINE k == n + m
  <2>1. k \in 0 .. Len(s)
    BY <1>1
  <2> HIDE DEF k, u
  <2>2. /\ Behind(s, k) \in Seq(S) /\ Len(Behind(s, k)) = Len(s) - k
        /\ \A i \in 1 .. Len(s) - k : Behind(s, k)[i] = s[k + i]
    BY <2>1, BehindSeq
  <2>3. QED
    BY <2>2 DEF k
<1> HIDE DEF u, w
<1>4. /\ v \in Seq(S) /\ Len(v) = Len(u) - m
      /\ \A i \in 1 .. Len(u) - m : v[i] = u[m + i]
  <2>1. u \in Seq(S) /\ m \in 0 .. Len(u)
    BY <1>2
  <2>2. QED
    BY <2>1, BehindSeq, Zenon
<1> HIDE DEF v
<1>5. Len(v) = Len(w) /\ \A i \in 1 .. Len(v) : v[i] = w[i]
  BY <1>1, <1>2, <1>3, <1>4
<1>6. v = w
  BY <1>3, <1>4, <1>5, SeqEqual
<1>7. QED
  BY <1>6 DEF u, v, w

(* The frame at the front of a buffer that holds a whole one. *)
LEMMA FrameAtFront ==
  ASSUME NEW b, Good(b), CanDecode(b)
  PROVE  /\ Content(b) \in Seq(Byte)
         /\ peekUInt32(b) \in 0 .. kMaxMessageSize
         /\ HeaderLen + peekUInt32(b) \in 0 .. Len(Content(b))
         /\ Message(b) \in Seq(Byte)
         /\ Len(Message(b)) = peekUInt32(b)
<1> DEFINE c == Content(b)
           len == peekUInt32(b)
<1>1. c \in Seq(Byte) /\ Len(c) = readableBytes(b) /\ readableBytes(b) \in Nat
  BY ContentSeq
<1>2. HeaderLen < readableBytes(b) /\ ~(len > kMaxMessageSize) /\ len + HeaderLen <= readableBytes(b)
  BY DEF CanDecode, HasHeader, TooLong
<1> HIDE DEF c
<1>3. len \in Nat
  <2>1. 1 \in Int /\ HeaderLen \in Int /\ \A i \in 1 .. HeaderLen : c[i] \in Byte
    BY <1>1, <1>2
  <2>2. SubSeq(c, 1, HeaderLen) \in Seq(Byte)
    BY <2>1, SubSeqProperties
  <2>3. QED
    BY <2>2, NtohlNat DEF peekUInt32, c
<1> HIDE DEF len
<1>4. len \in 0 .. kMaxMessageSize /\ HeaderLen + len \in 0 .. Len(c)
  BY <1>1, <1>2, <1>3
<1> DEFINE m == HeaderLen + 1
           n == HeaderLen + len
<1>5. m \in Int /\ n \in Int /\ (\A i \in m .. n : c[i] \in Byte)
      /\ (IF m <= n THEN n - m + 1 ELSE 0) = len
  BY <1>1, <1>3, <1>4
<1> HIDE DEF m, n
<1>6. SubSeq(c, m, n) \in Seq(Byte) /\ Len(SubSeq(c, m, n)) = len
  BY <1>5, SubSeqProperties
<1>7. QED
  BY <1>1, <1>4, <1>6 DEF Message, c, len, m, n

LEMMA DecodeContent ==
  ASSUME NEW b, Good(b), CanDecode(b)
  PROVE  /\ Good(Decode(b))
         /\ Content(Decode(b)) = Behind(Content(b), HeaderLen + peekUInt32(b))
<1> DEFINE c == Content(b)
           len == peekUInt32(b)
           b1 == retrieve(b, HeaderLen)
           c1 == Content(b1)
<1>1. /\ c \in Seq(Byte) /\ Len(c) = readableBytes(b) /\ len \in Nat
      /\ HeaderLen + len \in 0 .. Len(c)
  BY ContentSeq, FrameAtFront
<1>2. HeaderLen \in 0 .. Len(c) /\ len \in 0 .. Len(c) - HeaderLen
  BY <1>1
<1>3. RetrieveAsserts(b, HeaderLen)
  BY <1>1, <1>2 DEF RetrieveAsserts
<1>4. Good(b1) /\ c1 = Behind(c, HeaderLen)
  BY <1>3, RetrieveContent DEF Behind
<1>5. c1 \in Seq(Byte) /\ Len(c1) = readableBytes(b1) /\ Len(c1) = Len(c) - HeaderLen
  BY <1>1, <1>2, <1>4, ContentSeq, BehindSeq
<1> HIDE DEF b1, len, c1, c
<1>6. RetrieveAsserts(b1, len)
  BY <1>2, <1>5 DEF RetrieveAsserts
<1>7. Good(retrieve(b1, len)) /\ Content(retrieve(b1, len)) = Behind(c1, len)
  BY <1>1, <1>4, <1>6, RetrieveContent DEF Behind, c1
<1>8. Behind(c1, len) = Behind(c, HeaderLen + len)
  BY <1>1, <1>2, <1>4, BehindTwice
<1>9. QED
  BY <1>7, <1>8 DEF Decode, retrieveUInt32, b1, len, c

LEMMA EncodeContent ==
  ASSUME NEW b, Good(b), NEW msg \in Seq(Byte), EncodeAsserts(b, msg)
  PROVE  /\ Good(encode(b, msg))
         /\ Content(encode(b, msg)) = Cat(Content(b), Cat(htonl(Len(msg)), msg))
         /\ htonl(Len(msg)) \in Seq(Byte) /\ Len(htonl(Len(msg))) = HeaderLen
<1> DEFINE h == htonl(Len(msg))
           b1 == append(b, h)
<1>1. h \in Seq(Byte) /\ Len(h) = HeaderLen
  <2>1. Len(msg) \in Nat
    OBVIOUS
  <2>2. QED
    BY <2>1, HtonlSeq
<1>2. AppendAsserts(b, Len(h)) /\ AppendAsserts(b1, Len(msg))
  BY <1>1 DEF EncodeAsserts, writeUInt32
<1> HIDE DEF h
<1>3. Good(b1) /\ Content(b1) = Content(b) \o h
  BY <1>1, <1>2, AppendContent
<1> HIDE DEF b1
<1>4. Good(append(b1, msg)) /\ Content(append(b1, msg)) = Content(b1) \o msg
  BY <1>2, <1>3, AppendContent
<1>5. encode(b, msg) = append(b1, msg)
  BY DEF encode, writeUInt32, b1, h
<1>6. Content(b) \in Seq(Byte)
  BY ContentSeq
<1>7. Cat(Cat(Content(b), h), msg) = Cat(Content(b), Cat(h, msg))
  BY <1>1, <1>6, CatAssociative
<1>8. QED
  BY <1>1, <1>3, <1>4, <1>5, <1>7 DEF Cat, h

(* A buffer that nothing was taken from makes room by growing: its asserts *)
(* hold.                                                                   *)
LEMMA AppendNeverAborts ==
  ASSUME NEW b, Good(b), b.readerIndex = 0, NEW data \in Seq(Byte)
  PROVE  AppendAsserts(b, Len(data)) /\ append(b, data).readerIndex = 0
<1> DEFINE n == Len(data)
           c == ensureWriableBytes(b, n)
<1>1. n \in Nat /\ b.store \in Seq(Byte) /\ b.writerIndex \in Nat /\ b.readerIndex \in Nat
      /\ Len(b.store) \in Nat /\ b \in BufferType
  BY DEF Good, BufferType
<1> HIDE DEF n
<1>2. CASE writeableBytes(b) < n
  <2>1. c = Grow(b, n)
    BY <1>1, <1>2 DEF ensureWriableBytes, makeSpace, writeableBytes, prependableBytes
  <2>2. readableBytes(c) = readableBytes(b) /\ writeableBytes(c) = n
    BY <1>1, <2>1, GrowKeeps
  <2>3. c.readerIndex = 0 /\ c \in BufferType
    BY <1>1, <2>1, GrowKeeps DEF Grow, BufferType, Good
  <2>4. AppendAsserts(b, n)
    BY <1>1, <2>2 DEF AppendAsserts
  <2> HIDE DEF c
  <2>5. append(b, data).readerIndex = 0
    BY <2>3 DEF append, c, n, BufferType
  <2>6. QED
    BY <2>4, <2>5 DEF n
<1>3. CASE ~(writeableBytes(b) < n)
  <2>1. c = b
    BY <1>3 DEF ensureWriableBytes
  <2>2. AppendAsserts(b, n)
    BY <1>1, <1>3, <2>1 DEF AppendAsserts, writeableBytes
  <2>3. append(b, data).readerIndex = 0
    BY <1>1, <2>1 DEF append, c, n, BufferType
  <2>4. QED
    BY <2>2, <2>3 DEF n
<1>4. QED
  BY <1>2, <1>3

LEMMA EncodeNeverAborts ==
  ASSUME NEW b, Good(b), b.readerIndex = 0, NEW msg \in Seq(Byte)
  PROVE  EncodeAsserts(b, msg) /\ encode(b, msg).readerIndex = 0
<1> DEFINE h == htonl(Len(msg))
           b1 == append(b, h)
<1>1. h \in Seq(Byte) /\ Len(h) = HeaderLen
  <2>1. Len(msg) \in Nat
    OBVIOUS
  <2>2. QED
    BY <2>1, HtonlSeq
<1> HIDE DEF h
<1>2. AppendAsserts(b, HeaderLen) /\ b1.readerIndex = 0
  BY <1>1, AppendNeverAborts
<1>3. Good(b1)
  BY <1>1, <1>2, AppendContent
<1> HIDE DEF b1
<1>4. AppendAsserts(b1, Len(msg)) /\ append(b1, msg).readerIndex = 0
  BY <1>2, <1>3, AppendNeverAborts
<1>5. QED
  BY <1>2, <1>4 DEF EncodeAsserts, encode, writeUInt32, b1, h

(* A C string is the bytes before the first NUL.                           *)
NoNul(s) == \A i \in 1 .. Len(s) : s[i] # 0

LEMMA CStringSeq ==
  ASSUME NEW msg \in Seq(Byte)
  PROVE  /\ CString(msg) \in Seq(Byte) /\ Len(CString(msg)) \in 0 .. Len(msg)
         /\ NoNul(CString(msg))
         /\ NoNul(msg) => CString(msg) = msg
<1> DEFINE n == Len(msg)
           Ends(k) == (\A i \in 1 .. k : msg[i] # 0) /\ (k = n \/ msg[k + 1] = 0)
           strlen == CHOOSE k \in 0 .. Len(msg) :
                       /\ \A i \in 1 .. k : msg[i] # 0
                       /\ k = Len(msg) \/ msg[k + 1] = 0
           T == {k \in Nat : k <= n => (\E e \in 0 .. n : Ends(e)) \/ \A i \in 1 .. k : msg[i] # 0}
<1>1. n \in Nat
  OBVIOUS
<1> HIDE DEF n
<1>2. 0 \in T
  OBVIOUS
<1>3. ASSUME NEW k \in Nat, k \in T
      PROVE  k + 1 \in T
  <2>1. SUFFICES ASSUME k + 1 <= n, ~(\E e \in 0 .. n : Ends(e))
                 PROVE  \A i \in 1 .. k + 1 : msg[i] # 0
    OBVIOUS
  <2>2. \A i \in 1 .. k : msg[i] # 0
    BY <1>1, <1>3, <2>1
  <2>3. k \in 0 .. n /\ ~Ends(k)
    BY <1>1, <2>1
  <2>4. msg[k + 1] # 0
    BY <2>2, <2>3
  <2>5. QED
    BY <2>2, <2>4
<1>4. n \in T
  <2> HIDE DEF T
  <2> QED BY <1>1, <1>2, <1>3, SetInduction
<1>5. \E e \in 0 .. n : Ends(e)
  BY <1>1, <1>4
<1>6. strlen \in 0 .. Len(msg) /\ Ends(strlen)
  BY <1>5 DEF n
<1> HIDE DEF strlen
<1>7. 1 \in Int /\ strlen \in Int /\ (\A i \in 1 .. strlen : msg[i] \in Byte)
      /\ (IF 1 <= strlen THEN strlen - 1 + 1 ELSE 0) = strlen
  BY <1>6
<1>8. /\ SubSeq(msg, 1, strlen) \in Seq(Byte) /\ Len(SubSeq(msg, 1, strlen)) = strlen
      /\ \A i \in 1 .. strlen : SubSeq(msg, 1, strlen)[i] = msg[1 + i - 1]
  BY <1>7, SubSeqProperties
<1>9. CString(msg) = SubSeq(msg, 1, strlen)
  BY DEF CString, strlen
<1>10. NoNul(CString(msg))
  <2>1. \A i \in 1 .. strlen : 1 + i - 1 = i
    BY <1>7
  <2>2. \A i \in 1 .. strlen : SubSeq(msg, 1, strlen)[i] # 0
    BY <1>6, <1>8, <2>1
  <2>3. QED
    BY <1>8, <1>9, <2>2 DEF NoNul
<1>11. ASSUME NoNul(msg)
       PROVE  CString(msg) = msg
  <2>1. strlen = n
    <3>1. SUFFICES ASSUME strlen # n PROVE FALSE
      OBVIOUS
    <3>2. msg[strlen + 1] = 0 /\ strlen + 1 \in 1 .. Len(msg)
      BY <1>6, <3>1 DEF n
    <3>3. QED
      BY <1>11, <3>2 DEF NoNul
  <2>2. SubSeq(msg, 1, Len(msg)) = msg
    OBVIOUS
  <2>3. QED
    BY <1>9, <2>1, <2>2 DEF n
<1>12. QED
  BY <1>6, <1>8, <1>9, <1>10, <1>11

-----------------------------------------------------------------------------
(* The vector of connections.                                              *)

Distinct(s) == \A i, j \in DOMAIN s : s[i] = s[j] => i = j

LEMMA AddConn ==
  ASSUME NEW s \in Seq(Clients), Distinct(s), NEW c \in Clients
  PROVE  /\ Append(s, c) \in Seq(Clients)
         /\ ToSet(Append(s, c)) = ToSet(s) \cup {c}
         /\ c \notin ToSet(s) => Distinct(Append(s, c))
<1> DEFINE n == Len(s)
           r == Append(s, c)
<1>1. /\ n \in Nat /\ DOMAIN s = 1 .. n
      /\ r \in Seq(Clients) /\ Len(r) = n + 1 /\ DOMAIN r = 1 .. n + 1
      /\ (\A i \in 1 .. n : r[i] = s[i]) /\ r[n + 1] = c
  BY AppendProperties, SeqIsFun
<1> HIDE DEF n, r
<1>2. ToSet(r) = ToSet(s) \cup {c}
  <2>1. ToSet(r) \subseteq ToSet(s) \cup {c}
    <3>1. ASSUME NEW i \in 1 .. n + 1
          PROVE  r[i] \in ToSet(s) \cup {c}
      <4>1. CASE i = n + 1
        BY <1>1, <4>1
      <4>2. CASE i # n + 1
        BY <1>1, <4>2 DEF ToSet
      <4>3. QED
        BY <4>1, <4>2
    <3>2. QED
      BY <1>1, <3>1 DEF ToSet
  <2>2. \A i \in 1 .. n : s[i] \in ToSet(r)
    BY <1>1 DEF ToSet
  <2>3. c \in ToSet(r)
    <3>1. n + 1 \in 1 .. n + 1
      BY <1>1
    <3>2. QED
      BY <1>1, <3>1 DEF ToSet
  <2>4. QED
    BY <1>1, <2>1, <2>2, <2>3 DEF ToSet
<1>3. ASSUME c \notin ToSet(s), NEW i \in 1 .. n + 1, NEW j \in 1 .. n + 1, r[i] = r[j]
      PROVE  i = j
  <2>1. \A k \in 1 .. n : s[k] # c
    BY <1>1, <1>3 DEF ToSet
  <2>2. CASE i = n + 1 \/ j = n + 1
    BY <1>1, <1>3, <2>1, <2>2
  <2>3. CASE i # n + 1 /\ j # n + 1
    <3>1. i \in 1 .. n /\ j \in 1 .. n
      BY <1>1, <2>3
    <3>2. s[i] = s[j]
      BY <1>1, <1>3, <3>1
    <3>3. QED
      BY <1>1, <3>1, <3>2 DEF Distinct
  <2>4. QED
    BY <2>2, <2>3
<1>4. QED
  BY <1>1, <1>2, <1>3 DEF Distinct, r

LEMMA DropConn ==
  ASSUME NEW s \in Seq(Clients), Distinct(s), NEW c \in ToSet(s)
  PROVE  /\ RemoveFirst(s, c) \in Seq(Clients)
         /\ ToSet(RemoveFirst(s, c)) = ToSet(s) \ {c}
         /\ Distinct(RemoveFirst(s, c))
<1> DEFINE n == Len(s)
           r == RemoveFirst(s, c)
<1>1. n \in Nat /\ DOMAIN s = 1 .. n /\ \A i \in 1 .. n : s[i] \in Clients
  BY SeqIsFun
<1>2. PICK k \in 1 .. n : s[k] = c
  BY <1>1 DEF ToSet
<1>3. {i \in 1 .. n : s[i] = c} = {k}
  BY <1>1, <1>2 DEF Distinct
<1>4. SelectInSeq(s, LAMBDA v : v = c) = k
  <2>1. Min({k}) = k
    BY <1>2 DEF Min
  <2>2. QED
    BY <1>3, <2>1 DEF SelectInSeq
<1>5. r = SubSeq(s, 1, k - 1) \o SubSeq(s, k + 1, Len(s))
  BY <1>2, <1>4 DEF RemoveFirst, RemoveAt
<1> DEFINE a == SubSeq(s, 1, k - 1)
           z == Behind(s, k)
<1>6. a \in Seq(Clients) /\ Len(a) = k - 1 /\ \A i \in 1 .. k - 1 : a[i] = s[i]
  <2> DEFINE m == k - 1
  <2>1. 1 \in Int /\ m \in Int /\ (\A i \in 1 .. m : s[i] \in Clients)
        /\ (IF 1 <= m THEN m - 1 + 1 ELSE 0) = m /\ m - 1 + 1 = m
        /\ \A i \in 1 .. m : 1 + i - 1 = i
    BY <1>1, <1>2
  <2> HIDE DEF m
  <2>2. /\ SubSeq(s, 1, m) \in Seq(Clients)
        /\ Len(SubSeq(s, 1, m)) = IF 1 <= m THEN m - 1 + 1 ELSE 0
        /\ \A i \in 1 .. m - 1 + 1 : SubSeq(s, 1, m)[i] = s[1 + i - 1]
    BY <2>1, SubSeqProperties
  <2> DEFINE u == SubSeq(s, 1, m)
  <2> HIDE DEF u
  <2>3. u \in Seq(Clients) /\ Len(u) = m /\ \A i \in 1 .. m : u[i] = s[i]
    BY <2>1, <2>2 DEF u
  <2>4. QED
    BY <2>3 DEF u, m
<1>7. z \in Seq(Clients) /\ Len(z) = n - k /\ \A i \in 1 .. n - k : z[i] = s[k + i]
  <2>1. k \in 0 .. Len(s) /\ Len(s) = n
    BY <1>1, <1>2
  <2>2. QED
    BY <2>1, BehindSeq
<1>8. r = Cat(a, z)
  BY <1>5 DEF Behind, Cat
<1> HIDE DEF a, z, n, r
<1>9. /\ r \in Seq(Clients) /\ Len(r) = n - 1
      /\ \A i \in 1 .. n - 1 : r[i] = IF i < k THEN s[i] ELSE s[i + 1]
  <2>1. /\ r \in Seq(Clients) /\ Len(r) = Len(a) + Len(z)
        /\ \A i \in 1 .. Len(a) + Len(z) : r[i] = IF i <= Len(a) THEN a[i] ELSE z[i - Len(a)]
    <3>1. a \in Seq(Clients) /\ z \in Seq(Clients)
      BY <1>6, <1>7
    <3>2. QED
      BY <1>8, <3>1, CatSeq
  <2>2. Len(a) + Len(z) = n - 1
    BY <1>1, <1>2, <1>6, <1>7
  <2>3. ASSUME NEW i \in 1 .. n - 1
        PROVE  r[i] = IF i < k THEN s[i] ELSE s[i + 1]
    <3>1. r[i] = IF i <= Len(a) THEN a[i] ELSE z[i - Len(a)]
      BY <2>1, <2>2
    <3>2. CASE i < k
      BY <1>1, <1>2, <1>6, <3>1, <3>2
    <3>3. CASE ~(i < k)
      <4>1. i - (k - 1) \in 1 .. n - k /\ k + (i - (k - 1)) = i + 1 /\ ~(i <= k - 1)
        BY <1>1, <1>2, <3>3
      <4>2. QED
        BY <1>6, <1>7, <3>1, <3>3, <4>1
    <3>4. QED
      BY <3>2, <3>3
  <2>4. QED
    BY <2>1, <2>2, <2>3
<1>10. DOMAIN r = 1 .. n - 1
  BY <1>9, SeqIsFun
<1>11. ToSet(r) = ToSet(s) \ {c}
  <2>1. ASSUME NEW i \in 1 .. n - 1
        PROVE  r[i] \in ToSet(s) \ {c}
    <3>1. PICK j \in 1 .. n : r[i] = s[j] /\ j # k
      BY <1>1, <1>2, <1>9
    <3>2. s[j] # c
      BY <1>1, <1>2, <3>1 DEF Distinct
    <3>3. QED
      BY <1>1, <3>1, <3>2 DEF ToSet
  <2>2. ASSUME NEW j \in 1 .. n, s[j] # c
        PROVE  s[j] \in ToSet(r)
    <3>1. \E i \in 1 .. n - 1 : r[i] = s[j]
      <4>1. CASE j < k
        <5>1. j \in 1 .. n - 1
          BY <1>1, <1>2, <4>1
        <5>2. QED
          BY <1>9, <4>1, <5>1
      <4>2. CASE ~(j < k)
        <5>1. j # k
          BY <1>2, <2>2
        <5>2. j - 1 \in 1 .. n - 1 /\ ~(j - 1 < k) /\ (j - 1) + 1 = j
          BY <1>1, <1>2, <4>2, <5>1
        <5>3. QED
          BY <1>9, <5>2
      <4>3. QED
        BY <4>1, <4>2
    <3>2. QED
      BY <1>10, <3>1 DEF ToSet
  <2>3. QED
    BY <1>1, <1>10, <2>1, <2>2 DEF ToSet
<1>12. ASSUME NEW i \in 1 .. n - 1, NEW j \in 1 .. n - 1, r[i] = r[j]
       PROVE  i = j
  <2> DEFINE p(x) == IF x < k THEN x ELSE x + 1
  <2>1. p(i) \in 1 .. n /\ p(j) \in 1 .. n /\ r[i] = s[p(i)] /\ r[j] = s[p(j)]
    BY <1>1, <1>2, <1>9
  <2>2. p(i) = p(j)
    BY <1>1, <1>12, <2>1 DEF Distinct
  <2>3. QED
    BY <1>2, <2>2
<1>13. QED
  BY <1>9, <1>10, <1>11, <1>12 DEF Distinct, r

-----------------------------------------------------------------------------
(* One connection's sendBuf, out and wq.                                   *)

(* A name for a range that the steps below need not expand. *)
Cells(s, m, n) == SubSeq(s, m, n)

Within(s, m, n, S) == \A i \in m .. n : s[i] \in S

Agree(s, t, m, n) == \A i \in m .. n : s[i] = t[i]

LEMMA CellsTyped ==
  ASSUME NEW S, NEW s, NEW m \in Int, NEW n \in Int, Within(s, m, n, S)
  PROVE  /\ Cells(s, m, n) \in Seq(S)
         /\ Len(Cells(s, m, n)) = IF m <= n THEN n - m + 1 ELSE 0
         /\ \A i \in 1 .. n - m + 1 : Cells(s, m, n)[i] = s[m + i - 1]
BY SubSeqProperties DEF Cells, Within

(* A range of s is its first part and the rest. *)
LEMMA SplitRange ==
  ASSUME NEW S, NEW s, NEW m \in Int, NEW n \in Int, NEW k \in m .. n + 1, m <= n + 1,
         Within(s, m, n, S)
  PROVE  Cat(Cells(s, m, k - 1), Cells(s, k, n)) = Cells(s, m, n)
<1> DEFINE j == k - 1
           a == Cells(s, m, j)
           z == Cells(s, k, n)
           t == Cells(s, m, n)
           r == Cat(a, z)
<1>1. /\ j \in Int /\ k \in Int
      /\ Within(s, m, j, S) /\ Within(s, k, n, S)
      /\ (IF m <= j THEN j - m + 1 ELSE 0) = k - m /\ j - m + 1 = k - m
      /\ (IF k <= n THEN n - k + 1 ELSE 0) = n + 1 - k /\ n - k + 1 = n + 1 - k
      /\ (IF m <= n THEN n - m + 1 ELSE 0) = n + 1 - m /\ n - m + 1 = n + 1 - m
  BY DEF Within
<1> HIDE DEF j
<1>2. a \in Seq(S) /\ Len(a) = k - m /\ \A i \in 1 .. k - m : a[i] = s[m + i - 1]
  BY <1>1, CellsTyped
<1>3. z \in Seq(S) /\ Len(z) = n + 1 - k /\ \A i \in 1 .. n + 1 - k : z[i] = s[k + i - 1]
  BY <1>1, CellsTyped
<1>4. t \in Seq(S) /\ Len(t) = n + 1 - m /\ \A i \in 1 .. n + 1 - m : t[i] = s[m + i - 1]
  BY <1>1, CellsTyped
<1> HIDE DEF a, z, t
<1>5. /\ r \in Seq(S) /\ Len(r) = Len(a) + Len(z)
      /\ \A i \in 1 .. Len(a) + Len(z) : r[i] = IF i <= Len(a) THEN a[i] ELSE z[i - Len(a)]
  <2>1. a \in Seq(S) /\ z \in Seq(S)
    BY <1>2, <1>3
  <2>2. QED
    BY <2>1, CatSeq
<1> HIDE DEF r
<1>6. Len(r) = Len(t)
  BY <1>1, <1>2, <1>3, <1>4, <1>5
<1>7. ASSUME NEW i \in 1 .. Len(t)
      PROVE  r[i] = t[i]
  <2>1. r[i] = IF i <= Len(a) THEN a[i] ELSE z[i - Len(a)]
    BY <1>4, <1>5, <1>6
  <2>2. CASE i <= Len(a)
    <3>1. i \in 1 .. k - m /\ i \in 1 .. n + 1 - m
      BY <1>2, <1>4, <2>2
    <3>2. QED
      BY <1>2, <1>4, <2>1, <2>2, <3>1
  <2>3. CASE ~(i <= Len(a))
    <3> DEFINE h == i - Len(a)
    <3>1. h \in 1 .. n + 1 - k /\ i \in 1 .. n + 1 - m /\ k + h - 1 = m + i - 1
      BY <1>1, <1>2, <1>4, <2>3
    <3> HIDE DEF h
    <3>2. z[h] = s[k + h - 1] /\ t[i] = s[m + i - 1]
      BY <1>3, <1>4, <3>1
    <3>3. QED
      BY <2>1, <2>3, <3>1, <3>2 DEF h
  <2>4. QED
    BY <2>2, <2>3
<1>8. r = t
  BY <1>4, <1>5, <1>6, <1>7, SeqEqual
<1>9. QED
  BY <1>8 DEF r, a, z, t, j

LEMMA SameCells ==
  ASSUME NEW S, NEW s, NEW t, NEW m \in Int, NEW n \in Int,
         Within(s, m, n, S), Agree(s, t, m, n)
  PROVE  Cells(s, m, n) = Cells(t, m, n)
<1> DEFINE u == Cells(s, m, n)
           v == Cells(t, m, n)
<1>1. /\ u \in Seq(S) /\ Len(u) = (IF m <= n THEN n - m + 1 ELSE 0)
      /\ \A i \in 1 .. n - m + 1 : u[i] = s[m + i - 1]
  BY CellsTyped
<1>2. /\ v \in Seq(S) /\ Len(v) = (IF m <= n THEN n - m + 1 ELSE 0)
      /\ \A i \in 1 .. n - m + 1 : v[i] = t[m + i - 1]
  <2>1. Within(t, m, n, S)
    BY DEF Within, Agree
  <2>2. QED
    BY <2>1, CellsTyped
<1> HIDE DEF u, v
<1>3. ASSUME NEW i \in 1 .. Len(u)
      PROVE  u[i] = v[i]
  <2>1. i \in 1 .. n - m + 1 /\ m + i - 1 \in m .. n
    BY <1>1
  <2>2. s[m + i - 1] = t[m + i - 1]
    BY <2>1 DEF Agree
  <2>3. QED
    BY <1>1, <1>2, <2>1, <2>2
<1>4. u = v
  BY <1>1, <1>2, <1>3, SeqEqual
<1>5. QED
  BY <1>4 DEF u, v

LEMMA SplitSeq ==
  ASSUME NEW S, NEW s \in Seq(S), NEW n \in 0 .. Len(s)
  PROVE  /\ Cells(s, 1, n) \in Seq(S) /\ Cells(s, n + 1, Len(s)) \in Seq(S)
         /\ Cat(Cells(s, 1, n), Cells(s, n + 1, Len(s))) = s
<1> DEFINE k == n + 1
           l == Len(s)
<1>1. /\ 1 \in Int /\ l \in Int /\ k \in 1 .. l + 1 /\ 1 <= l + 1 /\ k \in Int /\ n \in Int
      /\ k - 1 = n
      /\ Within(s, 1, l, S) /\ Within(s, 1, n, S) /\ Within(s, k, l, S)
  BY DEF Within
<1>2. Cells(s, 1, l) = s
  BY SubSeqFull DEF Cells
<1> HIDE DEF k, l
<1>3. Cells(s, 1, n) \in Seq(S) /\ Cells(s, k, l) \in Seq(S)
  BY <1>1, CellsTyped
<1>4. Cat(Cells(s, 1, k - 1), Cells(s, k, l)) = Cells(s, 1, l)
  BY <1>1, SplitRange
<1>5. QED
  BY <1>1, <1>2, <1>3, <1>4 DEF k, l

(* CopyTo at the start of an array of N bytes.                      *)
LEMMA CopyToFront ==
  ASSUME NEW N \in Nat, NEW sb \in BufOf(N), NEW data \in Seq(Byte)
  PROVE  /\ CopyTo(sb, 0, data) \in BufOf(N)
         /\ \A j \in 1 .. N :
              CopyTo(sb, 0, data)[j] = IF j <= Len(data) THEN data[j] ELSE sb[j]
<1>1. N \in Nat /\ sb \in Seq(Byte) /\ Len(sb) = N /\ 0 \in Nat
  BY FunIsSeq DEF BufOf
<1> DEFINE t == CopyTo(sb, 0, data)
<1>2. /\ t \in Seq(Byte) /\ Len(t) = Len(sb)
      /\ \A j \in 1 .. Len(sb) : t[j] = IF j - 0 \in 1 .. Len(data) THEN data[j - 0] ELSE sb[j]
  BY <1>1, CopyToSeq
<1> HIDE DEF t
<1>3. t \in BufOf(N)
  BY <1>1, <1>2, SeqIsFun DEF BufOf
<1>4. \A j \in 1 .. N : j - 0 = j /\ (j \in 1 .. Len(data) <=> j <= Len(data))
  OBVIOUS
<1>5. QED
  BY <1>1, <1>2, <1>3, <1>4 DEF t

(* Bytes that join two empty-or-not parts in either order.                 *)
LEMMA CatRotate ==
  ASSUME NEW S, NEW o \in Seq(S), NEW p \in Seq(S), NEW a \in Seq(S), NEW z \in Seq(S),
         a = << >> \/ p = << >>
  PROVE  /\ Cat(Cat(o, a), Cat(p, z)) = Cat(Cat(o, p), Cat(a, z))
         /\ Cat(Cat(o, a), p) = Cat(Cat(o, p), a)
<1>1. Cat(a, p) = Cat(p, a)
  <2>1. Cat(a, << >>) = a /\ Cat(<< >>, a) = a /\ Cat(p, << >>) = p /\ Cat(<< >>, p) = p
    BY ConcatEmptySeq DEF Cat
  <2>2. QED
    BY <2>1
<1>2. Cat(Cat(o, a), p) = Cat(o, Cat(a, p)) /\ Cat(Cat(o, p), a) = Cat(o, Cat(p, a))
  BY CatAssociative
<1>3. Cat(o, a) \in Seq(S) /\ Cat(o, p) \in Seq(S)
  BY CatAssociative
<1>4. Cat(Cat(Cat(o, a), p), z) = Cat(Cat(o, a), Cat(p, z))
  BY <1>3, CatAssociative
<1>5. Cat(Cat(Cat(o, p), a), z) = Cat(Cat(o, p), Cat(a, z))
  BY <1>3, CatAssociative
<1>6. QED
  BY <1>1, <1>2, <1>4, <1>5

(* The list q of pending writes with the bytes the socket left.            *)
Left(q, now, size) ==
  IF now < size THEN Append(q, [first |-> now + 1, last |-> size]) ELSE q

(* The list q without the next n bytes.                                    *)
Flushed(q, n) ==
  IF Head(q).first + n > Head(q).last THEN Tail(q)
  ELSE <<[Head(q) EXCEPT !.first = @ + n]>> \o Tail(q)

(* The socket is handed the first `size` bytes of the encode buffer, which *)
(* has grown from old to new: it takes `now` of them and keeps the rest.   *)
Extends(new, old) ==
  Len(old) <= Len(new) /\ \A i \in 1 .. Len(old) : new[i] = old[i]

LEMMA SendKeeps ==
  ASSUME NEW N \in Nat, NEW sb \in BufOf(N), NEW q \in Seq(PartOf(N)), NEW o \in Seq(Byte),
         NEW old \in Seq(Byte), NEW new \in Seq(Byte), Extends(new, old),
         AllEncoded(sb, q, old),
         NEW size \in 1 .. N, size <= Len(new),
         NEW now \in 0 .. size, q # << >> => now = 0,
         NEW data, data = Cells(new, 1, size),
         NEW sb2, sb2 = CopyTo(sb, 0, data),
         NEW q2, q2 = Left(q, now, size)
  PROVE  /\ data \in Seq(Byte) /\ sb2 \in BufOf(N) /\ q2 \in Seq(PartOf(N))
         /\ Cells(data, 1, now) \in Seq(Byte)
         /\ AllEncoded(sb2, q2, new)
         /\ Cat(Cat(o, Cells(data, 1, now)), Pending(sb2, q2)) = Cat(Cat(o, Pending(sb, q)), data)
<1>1. /\ N \in Nat /\ size \in Nat /\ now \in Nat /\ Len(new) \in Nat /\ Len(old) \in Nat
      /\ Len(q) \in Nat
  OBVIOUS
<1>2. data \in Seq(Byte) /\ Len(data) = size /\ \A i \in 1 .. size : data[i] = new[i]
  <2>1. 1 \in Int /\ size \in Int /\ (\A i \in 1 .. size : new[i] \in Byte)
        /\ (IF 1 <= size THEN size - 1 + 1 ELSE 0) = size /\ size - 1 + 1 = size
        /\ \A i \in 1 .. size : 1 + i - 1 = i
    BY <1>1
  <2>2. /\ SubSeq(new, 1, size) \in Seq(Byte)
        /\ Len(SubSeq(new, 1, size)) = IF 1 <= size THEN size - 1 + 1 ELSE 0
        /\ \A i \in 1 .. size - 1 + 1 : SubSeq(new, 1, size)[i] = new[1 + i - 1]
    BY <2>1, SubSeqProperties
  <2>3. data \in Seq(Byte) /\ Len(data) = size /\ \A i \in 1 .. size - 1 + 1 : data[i] = new[1 + i - 1]
    BY <2>1, <2>2 DEF Cells
  <2>4. QED
    BY <2>1, <2>3
<1>3. /\ sb2 \in BufOf(N)
      /\ \A j \in 1 .. N : sb2[j] = IF j <= size THEN data[j] ELSE sb[j]
  <2>1. data \in Seq(Byte)
    BY <1>2
  <2>2. N \in Nat /\ sb \in BufOf(N)
    OBVIOUS
  <2>3. /\ CopyTo(sb, 0, data) \in BufOf(N)
        /\ \A j \in 1 .. N :
             CopyTo(sb, 0, data)[j] = IF j <= Len(data) THEN data[j] ELSE sb[j]
    BY ONLY <2>1, <2>2, CopyToFront
  <2>4. /\ sb2 \in BufOf(N)
        /\ \A j \in 1 .. N : sb2[j] = IF j <= Len(data) THEN data[j] ELSE sb[j]
    BY <2>3, Zenon
  <2>5. QED
    BY <1>2, <2>4, Zenon
<1>4. ASSUME NEW i \in 1 .. Len(q)
      PROVE  /\ Encoded(sb2, q[i], new)
             /\ \A j \in q[i].first .. q[i].last : sb[j] = sb2[j]
  <2> DEFINE m == q[i].first
             n == q[i].last
  <2>1. q[i] \in PartOf(N)
    OBVIOUS
  <2>2. /\ m \in 1 .. N /\ n \in 1 .. N
        /\ m <= n /\ n <= Len(old) /\ \A j \in m .. n : sb[j] = old[j]
    BY <2>1 DEF PartOf, Encoded, AllEncoded
  <2> HIDE DEF m, n
  <2>3. ASSUME NEW j \in m .. n
        PROVE  sb2[j] = sb[j] /\ sb2[j] = new[j]
    <3>1. j \in 1 .. N /\ j \in 1 .. Len(old)
      BY <1>1, <2>2
    <3>2. sb[j] = old[j] /\ new[j] = old[j]
      BY <2>2, <3>1 DEF Extends
    <3>3. j <= size => data[j] = new[j]
      BY <1>1, <1>2, <3>1
    <3>4. QED
      BY <1>3, <3>1, <3>2, <3>3
  <2>4. m <= n /\ n <= Len(new)
    BY <1>1, <2>2 DEF Extends
  <2>5. QED
    BY <2>3, <2>4 DEF Encoded, m, n
<1>5. Pending(sb2, q) = Pending(sb, q)
  BY <1>3, <1>4, PendingSame
<1>6. /\ Cells(data, 1, now) \in Seq(Byte) /\ Pending(sb, q) \in Seq(Byte)
      /\ Pending(sb2, q) \in Seq(Byte)
  <2>1. 1 \in Int /\ now \in Int /\ Within(data, 1, now, Byte)
    BY <1>1, <1>2 DEF Within
  <2>2. QED
    BY <1>3, <2>1, CellsTyped, PiecesTyped
<1>7. q # << >> => Cells(data, 1, now) = << >>
  BY SubSeqEmpty DEF Cells
<1>8. q = << >> => Pending(sb, q) = << >>
  BY PendingEmpty
<1> DEFINE a == Cells(data, 1, now)
           z == Cells(data, now + 1, size)
           w == [first |-> now + 1, last |-> size]
           pend == Pending(sb, q)
<1>9. a \in Seq(Byte) /\ pend \in Seq(Byte) /\ (a = << >> \/ pend = << >>)
  BY <1>6, <1>7, <1>8
<1>10. CASE now < size
  <2>1. w \in PartOf(N) /\ now + 1 \in 1 .. N /\ now + 1 <= size /\ q2 = Append(q, w)
    BY <1>1, <1>10 DEF PartOf, Left
  <2>2. /\ q2 \in Seq(PartOf(N)) /\ Len(q2) = Len(q) + 1 /\ q2[Len(q) + 1] = w
        /\ \A i \in 1 .. Len(q) : q2[i] = q[i]
    BY <2>1, AppendProperties
  <2>3. Encoded(sb2, w, new)
    <3>1. ASSUME NEW j \in now + 1 .. size
          PROVE  sb2[j] = new[j]
      <4>1. j \in 1 .. size /\ j <= size /\ j \in 1 .. N
        BY <1>1
      <4>2. QED
        BY <1>2, <1>3, <4>1
    <3>2. QED
      BY <2>1, <3>1 DEF Encoded
  <2>4. AllEncoded(sb2, q2, new)
    <3> HIDE DEF w
    <3>1. ASSUME NEW i \in 1 .. Len(q) + 1
          PROVE  Encoded(sb2, q2[i], new)
      <4>1. CASE i = Len(q) + 1
        BY <2>2, <2>3, <4>1
      <4>2. CASE i # Len(q) + 1
        <5>1. i \in 1 .. Len(q)
          BY <1>1, <4>2
        <5>2. QED
          BY <1>4, <2>2, <5>1
      <4>3. QED
        BY <4>1, <4>2
    <3>2. QED
      BY <2>2, <3>1 DEF AllEncoded
  <2>5. Piece(sb2, w) = z
    <3>1. /\ now + 1 \in Int /\ size \in Int
          /\ \A j \in now + 1 .. size : sb2[j] = data[j] /\ data[j] \in Byte
      <4>1. ASSUME NEW j \in now + 1 .. size
            PROVE  sb2[j] = data[j] /\ data[j] \in Byte
        <5>1. j \in 1 .. size /\ j <= size /\ j \in 1 .. N
          BY <1>1
        <5>2. QED
          BY <1>2, <1>3, <5>1
      <4>2. QED
        BY <1>1, <4>1
    <3>2. Cells(sb2, now + 1, size) = z
      <4> DEFINE m == now + 1
      <4>1. m \in Int /\ size \in Int /\ Within(sb2, m, size, Byte) /\ Agree(sb2, data, m, size)
        BY <3>1 DEF Within, Agree
      <4> HIDE DEF m
      <4>2. Cells(sb2, m, size) = Cells(data, m, size)
        BY <4>1, SameCells
      <4>3. QED
        BY <4>2 DEF m
    <3>3. Piece(sb2, w) = Cells(sb2, now + 1, size)
      BY DEF Piece, Cells
    <3>4. QED
      BY <3>2, <3>3
  <2>6. Pending(sb2, q2) = Cat(pend, z)
    <3> HIDE DEF w, z, pend
    <3>1. Pending(sb2, Append(q, w)) = Cat(Pending(sb2, q), Piece(sb2, w))
      BY <1>3, <2>1, PendingAppend
    <3>2. QED
      BY <1>5, <2>1, <2>5, <3>1 DEF pend
  <2>7. Cat(a, z) = data /\ z \in Seq(Byte)
    <3>1. now \in 0 .. Len(data)
      BY <1>2
    <3>2. QED
      BY <1>2, <3>1, SplitSeq
  <2> HIDE DEF a, z, w, pend
  <2>8. Cat(Cat(o, a), Cat(pend, z)) = Cat(Cat(o, pend), Cat(a, z))
    <3>1. a \in Seq(Byte) /\ pend \in Seq(Byte) /\ z \in Seq(Byte) /\ (a = << >> \/ pend = << >>)
      BY <1>9, <2>7 DEF a, z, pend
    <3>2. QED
      BY <3>1, CatRotate
  <2>9. QED
    BY <1>2, <1>3, <1>6, <2>2, <2>4, <2>6, <2>7, <2>8 DEF a, pend
<1>11. CASE ~(now < size)
  <2>1. q2 = q /\ now = size
    BY <1>1, <1>11 DEF Left
  <2>2. a = data
    <3>1. SubSeq(data, 1, Len(data)) = data
      BY <1>2, SubSeqFull
    <3>2. QED
      BY <1>2, <2>1, <3>1 DEF Cells
  <2> HIDE DEF a, pend
  <2>3. Cat(Cat(o, a), pend) = Cat(Cat(o, pend), a)
    <3>1. a \in Seq(Byte) /\ pend \in Seq(Byte) /\ (a = << >> \/ pend = << >>)
      BY <1>9 DEF a, pend
    <3>2. QED
      BY <3>1, CatRotate
  <2>4. QED
    BY <1>2, <1>3, <1>4, <1>5, <1>6, <2>1, <2>2, <2>3 DEF a, pend, AllEncoded
<1>12. QED
  BY <1>10, <1>11

(* The socket takes n more bytes of the oldest pending write.              *)
LEMMA FlushKeeps ==
  ASSUME NEW N \in Nat, NEW sb \in BufOf(N), NEW q \in Seq(PartOf(N)), q # << >>, NEW o \in Seq(Byte),
         NEW content, Len(content) \in Nat,
         AllEncoded(sb, q, content),
         NEW w, w = Head(q), NEW n \in 1 .. w.last - w.first + 1,
         NEW q2, q2 = Flushed(q, n)
  PROVE  /\ q2 \in Seq(PartOf(N))
         /\ Cells(sb, w.first, w.first + n - 1) \in Seq(Byte)
         /\ AllEncoded(sb, q2, content)
         /\ Cat(Cat(o, Cells(sb, w.first, w.first + n - 1)), Pending(sb, q2))
              = Cat(o, Pending(sb, q))
<1> DEFINE m == w.first
           l == w.last
           k == m + n
           rest == Tail(q)
           a == Cells(sb, m, k - 1)
<1>1. /\ Len(q) \in Nat /\ Len(q) # 0 /\ w \in PartOf(N) /\ w = q[1]
      /\ rest \in Seq(PartOf(N)) /\ Len(rest) = Len(q) - 1
      /\ \A i \in 1 .. Len(q) - 1 : rest[i] = q[i + 1]
  OBVIOUS
<1> HIDE DEF rest
<1>2. N \in Nat /\ m \in 1 .. N /\ l \in 1 .. N
  BY <1>1 DEF PartOf
<1>3. 1 \in 1 .. Len(q)
  BY <1>1
<1>4. m <= l /\ l <= Len(content) /\ \A j \in m .. l : sb[j] = content[j]
  BY <1>1, <1>3 DEF Encoded, AllEncoded
<1>5. n \in 1 .. l - m + 1
  OBVIOUS
<1> HIDE DEF m, l
<1>6. /\ m \in Int /\ l \in Int /\ n \in Nat /\ k \in m .. l + 1 /\ k \in Int /\ k - 1 \in Int
      /\ m <= l + 1
      /\ Within(sb, m, l, Byte) /\ Within(sb, m, k - 1, Byte) /\ Within(sb, k, l, Byte)
  BY <1>2, <1>4, <1>5 DEF BufOf, Within
<1>7. AllEncoded(sb, rest, content)
  <2>1. ASSUME NEW i \in 1 .. Len(rest)
        PROVE  Encoded(sb, rest[i], content)
    <3>1. i \in 1 .. Len(q) - 1 /\ i + 1 \in 1 .. Len(q)
      BY <1>1
    <3>2. QED
      BY <1>1, <3>1 DEF AllEncoded
  <2>2. QED
    BY <2>1 DEF AllEncoded
<1>8. a \in Seq(Byte) /\ a = Cells(sb, w.first, w.first + n - 1)
  <2> DEFINE j == k - 1
  <2>1. m \in Int /\ j \in Int /\ Within(sb, m, j, Byte) /\ j = m + n - 1
    BY <1>6
  <2> HIDE DEF j
  <2>2. Cells(sb, m, j) \in Seq(Byte)
    BY <2>1, CellsTyped
  <2>3. QED
    BY <2>1, <2>2 DEF m, j
<1>9. Pending(sb, q) = Cat(Piece(sb, w), Pending(sb, rest))
  BY PendingHead DEF rest
<1>10. Pending(sb, rest) \in Seq(Byte)
  BY <1>1, PiecesTyped
<1> DEFINE pend == Pending(sb, rest)
<1>11. Piece(sb, w) = Cells(sb, m, l)
  BY DEF Piece, m, l, Cells
<1>12. CASE k > l
  <2>1. q2 = rest /\ k - 1 = l
    <3>1. k - 1 = l
      BY <1>6, <1>12
    <3>2. q2 = rest
      BY <1>12, Zenon DEF rest, m, l, Flushed
    <3>3. QED
      BY <3>1, <3>2
  <2>2. Piece(sb, w) = a
    BY <1>11, <2>1
  <2> HIDE DEF a, pend
  <2>3. Cat(Cat(o, a), pend) = Cat(o, Cat(a, pend))
    <3>1. a \in Seq(Byte) /\ pend \in Seq(Byte)
      BY <1>8, <1>10 DEF pend
    <3>2. QED
      BY <3>1, CatAssociative
  <2>4. QED
    BY <1>1, <1>7, <1>8, <1>9, <2>1, <2>2, <2>3 DEF pend
<1>13. CASE ~(k > l)
  <2> DEFINE v == [w EXCEPT !.first = @ + n]
             z == Cells(sb, k, l)
  <2>1. k \in 1 .. N /\ k <= l
    BY <1>2, <1>6, <1>13
  <2>2. v \in PartOf(N) /\ v.first = k /\ v.last = l
    BY <1>1, <1>2, <2>1 DEF PartOf, m, l
  <2> HIDE DEF v
  <2>3. q2 = <<v>> \o rest
    BY <1>13 DEF rest, m, l, v, Flushed
  <2>4. /\ q2 \in Seq(PartOf(N)) /\ q2 # << >> /\ Len(q2) = Len(rest) + 1
        /\ q2[1] = v /\ Head(q2) = v /\ Tail(q2) = rest
        /\ \A i \in 1 .. Len(rest) : q2[i + 1] = rest[i]
    <3> DEFINE one == <<v>>
    <3>1. one \in Seq(PartOf(N)) /\ Len(one) = 1 /\ one[1] = v /\ q2 = one \o rest
      BY <2>2, <2>3
    <3> HIDE DEF one
    <3>2. /\ q2 \in Seq(PartOf(N)) /\ Len(q2) = 1 + Len(rest)
          /\ \A i \in 1 .. 1 + Len(rest) : q2[i] = IF i <= 1 THEN one[i] ELSE rest[i - 1]
      <4>1. /\ one \o rest \in Seq(PartOf(N)) /\ Len(one \o rest) = Len(one) + Len(rest)
            /\ \A i \in 1 .. Len(one) + Len(rest) :
                 (one \o rest)[i] = IF i <= Len(one) THEN one[i] ELSE rest[i - Len(one)]
        <5>1. one \in Seq(PartOf(N)) /\ rest \in Seq(PartOf(N))
          BY <1>1, <3>1
        <5>2. QED
          BY <5>1, ConcatProperties
      <4>2. QED
        BY <3>1, <4>1
    <3>3. Len(rest) \in Nat
      BY <1>1
    <3>4. 1 \in 1 .. 1 + Len(rest) /\ \A i \in 1 .. Len(rest) : i + 1 \in 1 .. 1 + Len(rest) /\ ~(i + 1 <= 1) /\ i + 1 - 1 = i
      BY <3>3
    <3>5. q2[1] = v /\ \A i \in 1 .. Len(rest) : q2[i + 1] = rest[i]
      BY <3>1, <3>2, <3>4
    <3>6. q2 # << >> /\ Head(q2) = v
      BY <3>2, <3>3, <3>5
    <3>7. Tail(q2) = rest
      <4> DEFINE u == Tail(q2)
      <4>1. u \in Seq(PartOf(N)) /\ Len(u) = Len(q2) - 1 /\ \A i \in 1 .. Len(u) : u[i] = q2[i + 1]
        BY <3>2, <3>6, HeadTailProperties
      <4> HIDE DEF u
      <4>2. Len(u) = Len(rest)
        BY <3>2, <3>3, <4>1
      <4>3. \A i \in 1 .. Len(u) : u[i] = rest[i]
        BY <3>5, <4>1, <4>2
      <4>4. u = rest
        BY <1>1, <4>1, <4>2, <4>3, SeqEqual
      <4>5. QED
        BY <4>4 DEF u
    <3>8. QED
      BY <3>2, <3>3, <3>5, <3>6, <3>7
  <2>5. Encoded(sb, v, content)
    <3>1. \A j \in k .. l : j \in m .. l
      BY <1>6
    <3>2. QED
      BY <1>4, <2>1, <2>2, <3>1 DEF Encoded
  <2>6. AllEncoded(sb, q2, content)
    <3>1. ASSUME NEW i \in 1 .. Len(rest) + 1
          PROVE  Encoded(sb, q2[i], content)
      <4>1. CASE i = 1
        BY <2>4, <2>5, <4>1
      <4>2. CASE i # 1
        <5> DEFINE j == i - 1
        <5>1. j \in 1 .. Len(rest) /\ j + 1 = i
          BY <1>1, <4>2
        <5> HIDE DEF j
        <5>2. QED
          BY <1>7, <2>4, <5>1 DEF AllEncoded
      <4>3. QED
        BY <4>1, <4>2
    <3>2. QED
      BY <2>4, <3>1 DEF AllEncoded
  <2>7. Pending(sb, q2) = Cat(z, pend)
    <3>1. Pending(sb, q2) = Cat(Piece(sb, Head(q2)), Pending(sb, Tail(q2)))
      BY <2>4, PendingHead
    <3>2. Piece(sb, v) = z
      BY <2>2 DEF Piece, Cells
    <3>3. QED
      BY <2>4, <3>1, <3>2
  <2>8. Cat(a, z) = Piece(sb, w) /\ z \in Seq(Byte)
    <3> HIDE DEF k
    <3>1. Cat(Cells(sb, m, k - 1), Cells(sb, k, l)) = Cells(sb, m, l)
      BY <1>6, SplitRange
    <3>2. Cells(sb, k, l) \in Seq(Byte)
      BY <1>6, CellsTyped
    <3>3. QED
      BY <1>11, <3>1, <3>2
  <2> HIDE DEF a, z, pend, v
  <2>9. Cat(Cat(o, a), Cat(z, pend)) = Cat(o, Cat(Cat(a, z), pend))
    <3>1. a \in Seq(Byte) /\ z \in Seq(Byte) /\ pend \in Seq(Byte)
      BY <1>8, <1>10, <2>8 DEF pend
    <3>2. Cat(z, pend) \in Seq(Byte)
      BY <3>1, CatAssociative
    <3>3. Cat(Cat(o, a), Cat(z, pend)) = Cat(o, Cat(a, Cat(z, pend)))
      BY <3>1, <3>2, CatAssociative
    <3>4. Cat(Cat(a, z), pend) = Cat(a, Cat(z, pend))
      BY <3>1, CatAssociative
    <3>5. QED
      BY <3>3, <3>4
  <2>10. QED
    BY <1>8, <1>9, <2>4, <2>6, <2>7, <2>8, <2>9 DEF pend
<1>14. QED
  BY <1>12, <1>13

-----------------------------------------------------------------------------
(* Every step keeps the invariant.                                         *)

LEMMA InitIInv == Init => IInv
<1> SUFFICES ASSUME Init PROVE IInv
  OBVIOUS
<1>1. /\ Good(cbuf) /\ Good(buf) /\ buf.readerIndex = 0
      /\ cbuf \in BufferType /\ buf \in BufferType
  <2>1. CodecSize \in Nat /\ EncodeSize \in Nat
    BY DEF ChatServerAssumption
  <2>2. Good(cbuf) /\ Good(buf)
    BY <2>1, NewBufferGood DEF Init
  <2>3. buf.readerIndex = 0
    BY DEF Init, NewBuffer
  <2>4. QED
    BY <2>2, <2>3 DEF Good
<1>2. << >> \in Seq(Part) /\ << >> \in Seq(Byte) /\ << >> \in Seq(Clients)
      /\ << >> \in Seq([from : Clients, msg : Seq(Byte)])
  OBVIOUS
<1>3. /\ script \in [Clients -> Seq(Byte)]
      /\ reader \in Clients
      /\ sendBuf \in [Clients -> [1 .. SendSize -> Byte]]
  BY DEF Init, ChatServerAssumption, BufferOpsAssumption, Byte
<1>4. TypeOK
  BY <1>1, <1>2, <1>3 DEF Init, TypeOK
<1>5. ConnsMatchHandles
  BY DEF Init, ConnsMatchHandles, ToSet
<1>6. ASSUME NEW c \in Clients
      PROVE  Accounted(c)
  <2>1. wq[c] = << >> /\ out[c] = << >> /\ sent[c] = << >>
    BY DEF Init
  <2>2. Cat(<< >>, << >>) = << >>
    BY <1>2, ConcatEmptySeq DEF Cat
  <2>3. Cat(out[c], Pending(sendBuf[c], wq[c])) = sent[c]
    BY <2>1, <2>2, PendingEmpty
  <2>4. 1 .. Len(wq[c]) = {}
    BY <2>1
  <2>5. QED
    BY <2>3, <2>4 DEF Accounted, AllEncoded
<1>7. QED
  BY <1>1, <1>4, <1>5, <1>6 DEF IInv, NeverRetrieved

LEMMA OnConnectionKeeps ==
  ASSUME IInv, NEW c \in Clients, OnConnection(c)
  PROVE  IInv'
<1>1. conns \in Seq(Clients) /\ Distinct(conns) /\ c \notin ToSet(conns)
  BY DEF IInv, TypeOK, ConnsMatchHandles, Distinct, OnConnection, Idle
<1>2. conns' \in Seq(Clients) /\ ToSet(conns') = ToSet(conns) \cup {c} /\ Distinct(conns')
  BY <1>1, AddConn DEF OnConnection
<1>3. TypeOK'
  BY <1>2 DEF IInv, TypeOK, OnConnection
<1>4. Good(cbuf)' /\ NeverRetrieved'
  BY DEF IInv, NeverRetrieved, OnConnection
<1>5. ConnsMatchHandles'
  <2>1. wq' = wq /\ \A d \in Clients : wq[d] # << >> => handle[d] = "open" /\ d # c
    BY DEF IInv, ConnsMatchHandles, OnConnection
  <2>2. ToSet(conns) = {d \in Clients : handle[d] = "open"} /\ handle \in [Clients -> {"none", "open", "closed"}]
    BY DEF IInv, TypeOK, ConnsMatchHandles, OnConnection, Idle
  <2>3. CASE status' = "exited" /\ handle' = handle
    BY <1>2, <2>1, <2>3 DEF ConnsMatchHandles, Distinct, OnConnection, Running
  <2>4. CASE handle' = [handle EXCEPT ![c] = "open"]
    <3>1. ToSet(conns') = {d \in Clients : handle'[d] = "open"}
      BY <1>2, <2>2, <2>4
    <3>2. \A d \in Clients : wq'[d] # << >> => handle'[d] = "open"
      BY <2>1, <2>2, <2>4
    <3>3. QED
      BY <1>2, <3>1, <3>2 DEF ConnsMatchHandles, Distinct
  <2>5. QED
    BY <2>3, <2>4 DEF OnConnection
<1>6. ASSUME NEW d \in Clients
      PROVE  Accounted(d)'
  BY DEF IInv, TypeOK, Accounted, OnConnection
<1>7. QED
  BY <1>3, <1>4, <1>5, <1>6 DEF IInv

LEMMA OnReadKeeps ==
  ASSUME IInv, NEW c \in Clients, NEW n \in 1 .. MaxRead, n <= Len(outbox[c]), OnRead(c, n)
  PROVE  IInv'
<1> DEFINE data == Cells(outbox[c], 1, n)
           inside == Content(cbuf) # << >> /\ reader # c
<1>1. outbox[c] \in Seq(Byte) /\ MaxRead \in Nat /\ n \in 0 .. Len(outbox[c])
  BY DEF IInv, TypeOK, ChatServerAssumption
<1>2. data \in Seq(Byte) /\ Len(data) = n
  <2>1. 1 \in Int /\ n \in Int /\ Within(outbox[c], 1, n, Byte)
        /\ (IF 1 <= n THEN n - 1 + 1 ELSE 0) = n
    BY <1>1 DEF Within
  <2>2. QED
    BY <2>1, CellsTyped
<1>3. outbox' \in [Clients -> Seq(Byte)]
  <2>1. outbox' = [outbox EXCEPT ![c] = Behind(outbox[c], n)]
    BY DEF OnRead, IInv, TypeOK, Behind
  <2>2. Behind(outbox[c], n) \in Seq(Byte)
    BY <1>1, BehindSeq
  <2>3. QED
    BY <2>1, <2>2 DEF IInv, TypeOK
<1>4. mixed' \in BOOLEAN
  <2>1. mixed' = (mixed \/ inside) /\ inside \in BOOLEAN /\ mixed \in BOOLEAN
    BY DEF OnRead, IInv, TypeOK
  <2> HIDE DEF inside
  <2>2. QED
    BY <2>1
<1>5. Good(cbuf') /\ cbuf' \in BufferType
  <2>1. CASE AppendAsserts(cbuf, n)
    <3>1. cbuf' = append(cbuf, data)
      BY <2>1 DEF OnRead, Cells
    <3> HIDE DEF data
    <3>2. Good(append(cbuf, data))
      BY <1>2, <2>1, AppendContent DEF IInv
    <3>3. QED
      BY <3>1, <3>2 DEF Good
  <2>2. CASE ~AppendAsserts(cbuf, n)
    BY <2>2 DEF OnRead, IInv, Good
  <2>3. QED
    BY <2>1, <2>2
<1>6. /\ status' \in {"running", "aborted"} /\ status = "running" /\ reader' = c
      /\ UNCHANGED <<handle, conns, buf, sendBuf, wq, script, out, sent, messages>>
  BY DEF OnRead, Idle, Running
<1>7. TypeOK'
  BY <1>3, <1>4, <1>5, <1>6 DEF IInv, TypeOK
<1>8. ConnsMatchHandles'
  BY <1>6 DEF IInv, ConnsMatchHandles, Running
<1>9. ASSUME NEW d \in Clients
      PROVE  Accounted(d)'
  BY <1>6 DEF IInv, Accounted
<1>10. NeverRetrieved'
  BY <1>6 DEF IInv, NeverRetrieved
<1>11. QED
  BY <1>5, <1>7, <1>8, <1>9, <1>10 DEF IInv

LEMMA OnReadEofKeeps ==
  ASSUME IInv, NEW c \in Clients, OnReadEof(c)
  PROVE  IInv'
<1>1. conns \in Seq(Clients) /\ Distinct(conns) /\ c \in ToSet(conns) /\ Running
  BY DEF IInv, TypeOK, ConnsMatchHandles, Distinct, OnReadEof, Idle
<1>2. conns' \in Seq(Clients) /\ ToSet(conns') = ToSet(conns) \ {c} /\ Distinct(conns')
  BY <1>1, DropConn DEF OnReadEof
<1>3. << >> \in Seq(Part)
  OBVIOUS
<1>4. TypeOK'
  BY <1>2, <1>3 DEF IInv, TypeOK, OnReadEof, CloseHandle
<1>5. Good(cbuf)' /\ NeverRetrieved'
  BY DEF IInv, NeverRetrieved, OnReadEof
<1>6. ConnsMatchHandles'
  BY <1>1, <1>2 DEF IInv, TypeOK, ConnsMatchHandles, Distinct, OnReadEof, CloseHandle, Running
<1>7. ASSUME NEW d \in Clients
      PROVE  Accounted(d)'
  <2>1. CASE d = c
    <3>1. wq'[d] = << >> /\ handle'[d] = "closed"
      BY <2>1 DEF IInv, TypeOK, OnReadEof, CloseHandle
    <3>2. 1 .. Len(wq'[d]) = {}
      BY <3>1
    <3>3. QED
      BY <3>1, <3>2 DEF Accounted, AllEncoded
  <2>2. CASE d # c
    BY <2>2 DEF IInv, TypeOK, Accounted, AllEncoded, OnReadEof, CloseHandle
  <2>3. QED
    BY <2>1, <2>2
<1>8. QED
  BY <1>4, <1>5, <1>6, <1>7 DEF IInv

LEMMA OnReadErrorKeeps ==
  ASSUME IInv, NEW c \in Clients, OnReadError(c)
  PROVE  IInv'
<1>1. /\ status' = "crashed"
      /\ UNCHANGED <<handle, conns, cbuf, buf, sendBuf, wq, script, outbox, out, sent,
                     messages, reader, mixed>>
  BY DEF OnReadError
<1>2. TypeOK' /\ Good(cbuf)' /\ NeverRetrieved'
  BY <1>1 DEF IInv, TypeOK, NeverRetrieved
<1>3. ConnsMatchHandles'
  BY <1>1 DEF IInv, ConnsMatchHandles, Running
<1>4. \A d \in Clients : Accounted(d)'
  BY <1>1 DEF IInv, Accounted
<1>5. QED
  BY <1>2, <1>3, <1>4 DEF IInv

(* What a peer was handed stays; more may follow. *)
Grows(c) == \E more \in Seq(Byte) : out'[c] = Cat(out[c], more)

OutGrows == \A c \in Clients : Grows(c)

LEMMA SameGrows ==
  ASSUME TypeOK, NEW c \in Clients, out'[c] = out[c]
  PROVE  Grows(c)
<1>1. out[c] \in Seq(Byte) /\ << >> \in Seq(Byte)
  BY DEF TypeOK
<1>2. Cat(out[c], << >>) = out[c]
  BY <1>1, ConcatEmptySeq DEF Cat
<1>3. QED
  BY <1>1, <1>2 DEF Grows

LEMMA CatLonger ==
  ASSUME NEW S, NEW s \in Seq(S), NEW t \in Seq(S)
  PROVE  Len(s) <= Len(Cat(s, t))
<1>1. Len(Cat(s, t)) = Len(s) + Len(t) /\ Len(s) \in Nat /\ Len(t) \in Nat
  BY ConcatProperties DEF Cat
<1>2. QED
  BY <1>1

LEMMA BroadcastKeeps ==
  ASSUME IInv, Broadcast
  PROVE  IInv' /\ OutGrows
<1> DEFINE text == CString(Message(cbuf))
           newB == encode(buf, text)
           size == HeaderLen + Len(text)
           data == Cells(Content(newB), 1, size)
           to   == ToSet(conns)
<1>1. /\ Good(cbuf) /\ CanDecode(cbuf) /\ Good(buf) /\ buf.readerIndex = 0 /\ Running
      /\ reader \in Clients /\ to = {c \in Clients : handle[c] = "open"}
  BY DEF IInv, TypeOK, NeverRetrieved, Broadcast, ConnsMatchHandles
<1>2. Message(cbuf) \in Seq(Byte) /\ Len(Message(cbuf)) \in 0 .. kMaxMessageSize
  BY <1>1, FrameAtFront
<1>3. text \in Seq(Byte) /\ Len(text) \in 0 .. Len(Message(cbuf))
  BY <1>2, CStringSeq
<1>4. size \in 1 .. SendSize /\ size \in Nat
  <2> HIDE DEF text
  <2>1. QED
    BY <1>2, <1>3 DEF BufferOpsAssumption, CodecAssumption, ChatServerAssumption
<1>5. /\ cbuf' = Decode(cbuf)
      /\ messages' = Append(messages, [from |-> reader, msg |-> Message(cbuf)])
      /\ UNCHANGED <<handle, conns, script, outbox, reader, mixed>>
  BY DEF Broadcast
<1>6. Good(Decode(cbuf))
  BY <1>1, DecodeContent
<1>7. EncodeAsserts(buf, text) /\ newB.readerIndex = 0
  <2> HIDE DEF text
  <2>1. QED
    BY <1>1, <1>3, EncodeNeverAborts
<1>8. buf' = newB /\ status' = status /\ SendToAll(data)
  BY <1>7 DEF Broadcast, EncodeBack, Cells
<1> DEFINE old == Content(buf)
           new == Content(newB)
<1>9. /\ Good(newB) /\ old \in Seq(Byte) /\ new \in Seq(Byte) /\ Extends(new, old)
      /\ size <= Len(new)
  <2> HIDE DEF text
  <2> DEFINE tail == Cat(htonl(Len(text)), text)
  <2>1. /\ Good(newB) /\ new = Cat(old, tail)
        /\ htonl(Len(text)) \in Seq(Byte) /\ Len(htonl(Len(text))) = HeaderLen
    BY <1>1, <1>3, <1>7, EncodeContent
  <2>2. old \in Seq(Byte)
    BY <1>1, ContentSeq
  <2>3. tail \in Seq(Byte) /\ Len(tail) = HeaderLen + Len(text)
    BY <1>3, <2>1, CatSeq
  <2> HIDE DEF tail, old, new, newB
  <2>4. /\ new \in Seq(Byte) /\ Len(new) = Len(old) + Len(tail)
        /\ \A i \in 1 .. Len(old) + Len(tail) : new[i] = IF i <= Len(old) THEN old[i] ELSE tail[i - Len(old)]
    <3>1. new = Cat(old, tail) /\ old \in Seq(Byte) /\ tail \in Seq(Byte)
      BY <2>1, <2>2, <2>3
    <3>2. QED
      BY <3>1, CatSeq
  <2>5. Len(old) \in Nat /\ Len(tail) = size
    BY <2>2, <2>3
  <2> HIDE DEF size
  <2>6. \A i \in 1 .. Len(old) : i \in 1 .. Len(old) + Len(tail) /\ i <= Len(old)
    BY <1>4, <2>5
  <2>7. \A i \in 1 .. Len(old) : new[i] = old[i]
    BY <2>4, <2>6
  <2>8. QED
    BY <1>4, <2>1, <2>2, <2>4, <2>5, <2>7 DEF Extends
<1>10. Len(data) = size
  <2>1. data = Cells(new, 1, size)
    OBVIOUS
  <2> HIDE DEF new, size, data
  <2>2. /\ 1 \in Int /\ size \in Int /\ Within(new, 1, size, Byte)
        /\ (IF 1 <= size THEN size - 1 + 1 ELSE 0) = size
    BY <1>4, <1>9 DEF Within
  <2>3. QED
    BY <2>1, <2>2, CellsTyped
<1>11. /\ sendBuf' = [c \in Clients |-> IF c \in to THEN CopyTo(sendBuf[c], 0, data) ELSE sendBuf[c]]
       /\ sent' = [c \in Clients |-> IF c \in to THEN Cat(sent[c], data) ELSE sent[c]]
  <2> HIDE DEF data
  <2>1. QED
    BY <1>8, Zenon DEF SendToAll, CopyToAll, Cat
<1>12. PICK now \in [to -> 0 .. size] :
           /\ \A c \in to : wq[c] # << >> => now[c] = 0
           /\ out' = [c \in Clients |->
                IF c \in to THEN Cat(out[c], Cells(data, 1, now[c])) ELSE out[c]]
           /\ wq' = [c \in Clients |-> IF c \in to THEN Left(wq[c], now[c], size) ELSE wq[c]]
  <2> HIDE DEF data, to, size
  <2>1. PICK now \in [to -> 0 .. Len(data)] :
           /\ \A c \in to : wq[c] # << >> => now[c] = 0
           /\ out' = [c \in Clients |->
                IF c \in to THEN Cat(out[c], Cells(data, 1, now[c])) ELSE out[c]]
           /\ wq' = [c \in Clients |->
                IF c \in to /\ now[c] < Len(data)
                THEN Append(wq[c], [first |-> now[c] + 1, last |-> Len(data)])
                ELSE wq[c]]
    BY <1>8, Zenon DEF SendToAll, Cat, Cells, to
  <2>2. \A c \in Clients :
          (IF c \in to /\ now[c] < Len(data)
           THEN Append(wq[c], [first |-> now[c] + 1, last |-> Len(data)])
           ELSE wq[c])
          = (IF c \in to THEN Left(wq[c], now[c], size) ELSE wq[c])
    BY <1>10 DEF Left
  <2>3. wq' = [c \in Clients |-> IF c \in to THEN Left(wq[c], now[c], size) ELSE wq[c]]
    BY <2>1, <2>2
  <2>4. QED
    BY <1>10, <2>1, <2>3
<1> HIDE DEF text, newB, size, data, to, old, new
<1>13. ASSUME NEW c \in to
       PROVE  /\ data \in Seq(Byte) /\ sendBuf'[c] \in SendBuf /\ wq'[c] \in Seq(Part)
              /\ out'[c] \in Seq(Byte) /\ sent'[c] \in Seq(Byte)
              /\ AllEncoded(sendBuf'[c], wq'[c], new)
              /\ Cat(out'[c], Pending(sendBuf'[c], wq'[c])) = sent'[c]
              /\ Grows(c)
  <2> DEFINE sb  == sendBuf[c]
             sb2 == CopyTo(sb, 0, data)
             q2  == Left(wq[c], now[c], size)
  <2>1. /\ c \in Clients /\ handle[c] = "open"
        /\ sb \in SendBuf /\ wq[c] \in Seq(Part) /\ out[c] \in Seq(Byte) /\ sent[c] \in Seq(Byte)
        /\ AllEncoded(sb, wq[c], old)
        /\ Cat(out[c], Pending(sb, wq[c])) = sent[c]
    BY <1>1 DEF IInv, TypeOK, Accounted, SendBuf, BufOf, old
  <2>2. now[c] \in 0 .. size /\ (wq[c] # << >> => now[c] = 0) /\ data = Cells(new, 1, size)
    BY <1>12 DEF data, new
  <2>3. /\ sendBuf'[c] = sb2 /\ wq'[c] = q2
        /\ out'[c] = Cat(out[c], Cells(data, 1, now[c]))
        /\ sent'[c] = Cat(sent[c], data)
    BY <1>11, <1>12, <2>1
  <2> HIDE DEF sb, sb2, q2
  <2>4. /\ data \in Seq(Byte) /\ sb2 \in SendBuf /\ q2 \in Seq(Part)
        /\ Cells(data, 1, now[c]) \in Seq(Byte)
        /\ AllEncoded(sb2, q2, new)
        /\ Cat(Cat(out[c], Cells(data, 1, now[c])), Pending(sb2, q2))
             = Cat(Cat(out[c], Pending(sb, wq[c])), data)
    <3> DEFINE q == wq[c]
               o == out[c]
               k == now[c]
    <3>1. /\ SendSize \in Nat
          /\ sb \in BufOf(SendSize) /\ q \in Seq(PartOf(SendSize)) /\ o \in Seq(Byte)
          /\ old \in Seq(Byte) /\ new \in Seq(Byte) /\ Extends(new, old)
          /\ AllEncoded(sb, q, old)
          /\ size \in 1 .. SendSize /\ size <= Len(new)
          /\ k \in 0 .. size /\ (q # << >> => k = 0)
          /\ data = Cells(new, 1, size) /\ sb2 = CopyTo(sb, 0, data) /\ q2 = Left(q, k, size)
      BY <1>4, <1>9, <2>1, <2>2, OfServer DEF sb2, q2
    <3> HIDE DEF q, o, k
    <3>2. /\ data \in Seq(Byte) /\ sb2 \in BufOf(SendSize) /\ q2 \in Seq(PartOf(SendSize))
          /\ Cells(data, 1, k) \in Seq(Byte)
          /\ AllEncoded(sb2, q2, new)
          /\ Cat(Cat(o, Cells(data, 1, k)), Pending(sb2, q2)) = Cat(Cat(o, Pending(sb, q)), data)
      BY <3>1, SendKeeps
    <3>3. QED
      BY <3>2, OfServer DEF q, o, k
  <2>5. Cat(out[c], Cells(data, 1, now[c])) \in Seq(Byte) /\ Cat(sent[c], data) \in Seq(Byte)
    BY <2>1, <2>4, CatAssociative
  <2>6. Grows(c)
    BY <2>3, <2>4 DEF Grows
  <2>7. QED
    BY <2>1, <2>3, <2>4, <2>5, <2>6
<1>14. ASSUME NEW c \in Clients, c \notin to
       PROVE  /\ sendBuf'[c] = sendBuf[c] /\ wq'[c] = wq[c] /\ out'[c] = out[c] /\ sent'[c] = sent[c]
              /\ wq[c] = << >> /\ handle[c] # "open"
  <2>1. wq[c] = << >> /\ handle[c] # "open"
    BY <1>1, <1>14 DEF IInv, ConnsMatchHandles
  <2>2. QED
    BY <1>11, <1>12, <1>14, <2>1
<1>15. /\ sendBuf' \in [Clients -> SendBuf] /\ wq' \in [Clients -> Seq(Part)]
       /\ out' \in [Clients -> Seq(Byte)] /\ sent' \in [Clients -> Seq(Byte)]
  <2>1. \A c \in Clients : /\ sendBuf'[c] \in SendBuf /\ wq'[c] \in Seq(Part)
                           /\ out'[c] \in Seq(Byte) /\ sent'[c] \in Seq(Byte)
    BY <1>13, <1>14 DEF IInv, TypeOK, SendBuf, BufOf
  <2>2. QED
    BY <1>11, <1>12, <2>1
<1>16. messages' \in Seq([from : Clients, msg : Seq(Byte)])
  <2>1. [from |-> reader, msg |-> Message(cbuf)] \in [from : Clients, msg : Seq(Byte)]
    BY <1>1, <1>2
  <2>2. messages \in Seq([from : Clients, msg : Seq(Byte)])
    BY DEF IInv, TypeOK
  <2>3. QED
    BY <1>5, <2>1, <2>2, AppendProperties
<1>17. TypeOK'
  <2>1. cbuf' \in BufferType /\ buf' \in BufferType
    BY <1>5, <1>6, <1>8, <1>9 DEF Good
  <2>2. QED
    BY <1>5, <1>8, <1>15, <1>16, <2>1 DEF IInv, TypeOK, SendBuf, BufOf
<1>18. Good(cbuf') /\ Good(buf') /\ buf'.readerIndex = 0
  BY <1>5, <1>6, <1>7, <1>8, <1>9
<1>19. ConnsMatchHandles'
  <2>1. ASSUME NEW c \in Clients, wq'[c] # << >>
        PROVE  handle'[c] = "open"
    BY <1>1, <1>5, <1>14, <2>1
  <2>2. QED
    BY <1>5, <1>8, <2>1 DEF IInv, ConnsMatchHandles, Running
<1>20. ASSUME NEW c \in Clients
       PROVE  Accounted(c)'
  <2>1. CASE c \in to
    BY <1>8, <1>13, <2>1 DEF Accounted, AllEncoded, new
  <2>2. CASE c \notin to
    <3>1. 1 .. Len(wq'[c]) = {}
      BY <1>14, <2>2
    <3>2. QED
      BY <1>5, <1>14, <2>2, <3>1 DEF Accounted, AllEncoded, IInv
  <2>3. QED
    BY <2>1, <2>2
<1>21. OutGrows
  <2>1. ASSUME NEW c \in Clients
        PROVE  Grows(c)
    <3>1. CASE c \in to
      BY <1>13, <3>1
    <3>2. CASE c \notin to
      BY <1>14, <3>2, SameGrows DEF IInv
    <3>3. QED
      BY <3>1, <3>2
  <2>2. QED
    BY <2>1 DEF OutGrows
<1>22. QED
  BY <1>17, <1>18, <1>19, <1>20, <1>21 DEF IInv, NeverRetrieved

LEMMA FlushStepKeeps ==
  ASSUME IInv, NEW c \in Clients, NEW n \in 1 .. SendSize, Flush(c, n)
  PROVE  IInv' /\ OutGrows
<1> DEFINE sb == sendBuf[c]
           q  == wq[c]
           w  == Head(q)
           q2 == Flushed(q, n)
           taken == Cells(sb, w.first, w.first + n - 1)
           content == Content(buf)
<1>1. /\ sb \in SendBuf /\ q \in Seq(Part) /\ q # << >> /\ out[c] \in Seq(Byte)
      /\ handle[c] = "open"
      /\ AllEncoded(sb, q, content)
      /\ Cat(out[c], Pending(sb, q)) = sent[c]
  BY DEF IInv, TypeOK, Accounted, ConnsMatchHandles, Flush, SendBuf, BufOf
<1>2. Len(content) \in Nat
  BY ContentSeq DEF IInv, NeverRetrieved
<1>3. n \in 1 .. w.last - w.first + 1
  BY DEF Flush
<1>4. /\ out' = [out EXCEPT ![c] = Cat(out[c], taken)]
      /\ wq' = [wq EXCEPT ![c] = q2]
      /\ UNCHANGED <<status, handle, conns, cbuf, buf, sendBuf, script, outbox, sent,
                     messages, reader, mixed>>
  BY DEF Flush, Cat, Cells, Flushed, IInv, TypeOK
<1>5. /\ q2 \in Seq(Part) /\ taken \in Seq(Byte)
      /\ AllEncoded(sb, q2, content)
      /\ Cat(Cat(out[c], taken), Pending(sb, q2)) = Cat(out[c], Pending(sb, q))
  <2>1. w = Head(q) /\ q2 = Flushed(q, n) /\ taken = Cells(sb, w.first, w.first + n - 1)
    OBVIOUS
  <2> HIDE DEF sb, q, content, w, q2, taken
  <2>2. /\ SendSize \in Nat /\ sb \in BufOf(SendSize) /\ q \in Seq(PartOf(SendSize))
        /\ q # << >> /\ out[c] \in Seq(Byte) /\ AllEncoded(sb, q, content)
    BY <1>1, OfServer
  <2>3. /\ q2 \in Seq(PartOf(SendSize)) /\ taken \in Seq(Byte)
        /\ AllEncoded(sb, q2, content)
        /\ Cat(Cat(out[c], taken), Pending(sb, q2)) = Cat(out[c], Pending(sb, q))
    BY <1>2, <1>3, <2>1, <2>2, FlushKeeps
  <2>4. QED
    BY <2>3, OfServer
<1>6. Cat(out[c], taken) \in Seq(Byte)
  <2> HIDE DEF taken
  <2>1. QED
    BY <1>1, <1>5, CatAssociative
<1> HIDE DEF q2, taken, sb, q, content, w
<1>7. TypeOK'
  BY <1>4, <1>5, <1>6 DEF IInv, TypeOK
<1>8. Good(cbuf)' /\ NeverRetrieved'
  BY <1>4 DEF IInv, NeverRetrieved
<1>9. ConnsMatchHandles'
  BY <1>1, <1>4 DEF IInv, TypeOK, ConnsMatchHandles, Running
<1>10. ASSUME NEW d \in Clients
       PROVE  Accounted(d)'
  <2>1. CASE d = c
    <3>1. wq'[c] = q2 /\ out'[c] = Cat(out[c], taken) /\ sendBuf'[c] = sb /\ sent'[c] = sent[c]
          /\ Content(buf)' = content
      BY <1>4 DEF IInv, TypeOK, sb, content
    <3>2. QED
      BY <1>1, <1>5, <2>1, <3>1 DEF Accounted, AllEncoded
  <2>2. CASE d # c
    BY <1>4, <2>2 DEF IInv, TypeOK, Accounted
  <2>3. QED
    BY <2>1, <2>2
<1>11. OutGrows
  <2>1. ASSUME NEW d \in Clients
        PROVE  Grows(d)
    <3>1. CASE d = c
      <4>1. out'[c] = Cat(out[c], taken)
        BY <1>4 DEF IInv, TypeOK
      <4>2. QED
        BY <1>5, <3>1, <4>1 DEF Grows
    <3>2. CASE d # c
      <4>1. out'[d] = out[d] /\ TypeOK
        BY <1>4, <3>2 DEF IInv, TypeOK
      <4>2. QED
        BY <4>1, SameGrows
    <3>3. QED
      BY <3>1, <3>2
  <2>2. QED
    BY <2>1 DEF OutGrows
<1>12. QED
  BY <1>7, <1>8, <1>9, <1>10, <1>11 DEF IInv

LEMMA StepKeeps ==
  ASSUME IInv, [Next]_vars
  PROVE  IInv' /\ OutGrows
<1> DEFINE same == UNCHANGED out
<1>0. same => OutGrows
  BY SameGrows DEF IInv, OutGrows
<1>1. CASE \E c \in Clients : OnConnection(c)
  BY <1>1, <1>0, OnConnectionKeeps DEF OnConnection
<1>2. CASE \E c \in Clients : \E n \in 1 .. MaxRead : n <= Len(outbox[c]) /\ OnRead(c, n)
  BY <1>2, <1>0, OnReadKeeps DEF OnRead
<1>3. CASE \E c \in Clients : OnReadEof(c)
  BY <1>3, <1>0, OnReadEofKeeps DEF OnReadEof
<1>4. CASE \E c \in Clients : OnReadError(c)
  BY <1>4, <1>0, OnReadErrorKeeps DEF OnReadError
<1>5. CASE Broadcast
  BY <1>5, BroadcastKeeps
<1>6. CASE \E c \in Clients : \E n \in 1 .. SendSize : Flush(c, n)
  BY <1>6, FlushStepKeeps
<1>7. CASE UNCHANGED vars
  <2>1. /\ UNCHANGED <<status, handle, conns, cbuf, buf, sendBuf, wq, script, outbox, out, sent>>
        /\ UNCHANGED <<messages, reader, mixed>>
    BY <1>7 DEF vars, server
  <2>2. TypeOK' /\ Good(cbuf)' /\ NeverRetrieved' /\ ConnsMatchHandles'
    BY <2>1 DEF IInv, TypeOK, NeverRetrieved, ConnsMatchHandles, Running
  <2>3. \A c \in Clients : Accounted(c)'
    BY <2>1 DEF IInv, Accounted
  <2>4. QED
    BY <1>0, <2>1, <2>2, <2>3 DEF IInv
<1>8. QED
  BY <1>1, <1>2, <1>3, <1>4, <1>5, <1>6, <1>7 DEF Next

LEMMA NextIInv == IInv /\ [Next]_vars => IInv'
BY StepKeeps

(* The invariant holds in every state of chat_server.                      *)
THEOREM ChatServerInvariant == Spec => []IInv
<1>1. QED
  BY InitIInv, NextIInv, PTL DEF Spec

-----------------------------------------------------------------------------
(* What it says of the run's properties.                                   *)

(* Every variable of chat_server keeps its type: in particular a pending   *)
(* write is always a part of sendBuf, so Connection::send() never copies   *)
(* past its end and an encoded message always fits it.                     *)
THEOREM ChatServerTypeOK == Spec => []TypeOK
<1>1. IInv => TypeOK
  BY DEF IInv
<1>2. QED
  BY <1>1, ChatServerInvariant, PTL

(* conns holds each open connection exactly once and no deleted one: the   *)
(* loop of onStringMessageBack() never calls send() of a freed Connection, *)
(* and libuv holds no write into the sendBuf of one.                       *)
THEOREM ChatServerConns == Spec => []ConnsMatchHandles
<1>1. IInv => ConnsMatchHandles
  BY DEF IInv
<1>2. QED
  BY <1>1, ChatServerInvariant, PTL

(* Although Connection::send() copies over the sendBuf that earlier writes *)
(* are still pending from, every peer gets the bytes it was asked to be    *)
(* sent: what has left and what is pending is what was passed to send().   *)
THEOREM ChatServerSendsIntact == Spec => []SendsIntact
<1>1. IInv => SendsIntact
  <2> SUFFICES ASSUME IInv, NEW c \in Clients, handle[c] = "open"
               PROVE  out[c] \o FlattenSeq([i \in DOMAIN wq[c] |->
                         SubSeq(sendBuf[c], wq[c][i].first, wq[c][i].last)]) = sent[c]
    BY DEF SendsIntact
  <2>1. Cat(out[c], Pending(sendBuf[c], wq[c])) = sent[c]
    BY DEF IInv, Accounted
  <2>2. DOMAIN wq[c] = 1 .. Len(wq[c])
    BY SeqIsFun DEF IInv, TypeOK
  <2>3. Pieces(sendBuf[c], wq[c])
          = [i \in DOMAIN wq[c] |-> SubSeq(sendBuf[c], wq[c][i].first, wq[c][i].last)]
    BY <2>2, Zenon DEF Pieces, Piece
  <2>4. QED
    BY <2>1, <2>3, Zenon DEF Cat, Pending
<1>2. QED
  BY <1>1, ChatServerInvariant, PTL

-----------------------------------------------------------------------------
(* The decoding side implements FrameCodec.                                *)

LEMMA CatPrefix ==
  ASSUME NEW S, NEW s \in Seq(S), NEW t \in Seq(S)
  PROVE  Len(Cat(s, t)) >= Len(s) /\ SubSeq(Cat(s, t), 1, Len(s)) = s
<1> DEFINE r == Cat(s, t)
           u == Cells(r, 1, Len(s))
<1>1. /\ r \in Seq(S) /\ Len(r) = Len(s) + Len(t) /\ Len(s) \in Nat /\ Len(t) \in Nat
      /\ \A i \in 1 .. Len(s) + Len(t) : r[i] = IF i <= Len(s) THEN s[i] ELSE t[i - Len(s)]
  BY ConcatProperties DEF Cat
<1> HIDE DEF r
<1>2. /\ 1 \in Int /\ Len(s) \in Int /\ Within(r, 1, Len(s), S) /\ Len(s) - 1 + 1 = Len(s)
      /\ (IF 1 <= Len(s) THEN Len(s) - 1 + 1 ELSE 0) = Len(s)
      /\ \A i \in 1 .. Len(s) : 1 + i - 1 = i /\ r[i] = s[i]
  BY <1>1 DEF Within
<1>3. u \in Seq(S) /\ Len(u) = Len(s) /\ \A i \in 1 .. Len(s) - 1 + 1 : u[i] = r[1 + i - 1]
  BY <1>2, CellsTyped
<1> HIDE DEF u
<1>4. \A i \in 1 .. Len(u) : u[i] = s[i]
  BY <1>2, <1>3
<1>5. u = s
  BY <1>3, <1>4, SeqEqual
<1>6. QED
  BY <1>1, <1>5 DEF u, r, Cells

(* The frame at the front of the buffer, in the words of FrameCodec.       *)
LEMMA FrameInContent ==
  ASSUME IInv, CanDecode(cbuf)
  PROVE  LET stream == Content(cbuf)
             len    == Frames!ntohl(SubSeq(stream, 1, HeaderLen))
         IN  /\ Len(stream) >= HeaderLen
             /\ len <= kMaxMessageSize /\ HeaderLen + len <= Len(stream)
             /\ Message(cbuf) = SubSeq(stream, HeaderLen + 1, HeaderLen + len)
             /\ Content(Decode(cbuf)) = SubSeq(stream, HeaderLen + len + 1, Len(stream))
<1> DEFINE stream == Content(cbuf)
           len    == peekUInt32(cbuf)
<1>1. Good(cbuf)
  BY DEF IInv
<1>2. Frames!ntohl(SubSeq(stream, 1, HeaderLen)) = len
  BY DEF peekUInt32, ntohl, Frames!ntohl
<1>3. /\ stream \in Seq(Byte) /\ len \in 0 .. kMaxMessageSize
      /\ HeaderLen + len \in 0 .. Len(stream)
  BY <1>1, FrameAtFront
<1>4. Content(Decode(cbuf)) = Behind(stream, HeaderLen + len)
  BY <1>1, DecodeContent
<1>5. Message(cbuf) = SubSeq(stream, HeaderLen + 1, HeaderLen + len)
  BY DEF Message
<1> HIDE DEF stream, len
<1>6. Len(stream) >= HeaderLen /\ len <= kMaxMessageSize /\ HeaderLen + len <= Len(stream)
  BY <1>3 DEF BufferOpsAssumption, CodecAssumption
<1>7. QED
  BY <1>2, <1>4, <1>5, <1>6, Zenon DEF Behind, stream

LEMMA InitImplements == Init => Frames!Init
<1> SUFFICES ASSUME Init PROVE Frames!Init
  OBVIOUS
<1>1. Content(cbuf) = << >>
  BY NewBufferGood DEF Init, ChatServerAssumption
<1>2. Delivered = << >>
  BY DEF Init, Delivered
<1>3. QED
  BY <1>1, <1>2 DEF Init, Frames!Init, Running

LEMMA StepImplements == IInv /\ [Next]_vars => [Frames!Next]_(Frames!vars)
<1> SUFFICES ASSUME IInv, [Next]_vars PROVE Frames!Next \/ UNCHANGED Frames!vars
  OBVIOUS
<1>1. ASSUME UNCHANGED <<cbuf, messages, status>>
      PROVE  UNCHANGED Frames!vars
  BY <1>1 DEF Frames!vars, Delivered, Running
<1>2. ASSUME Running, ~Running', UNCHANGED <<cbuf, messages>>
      PROVE  Frames!Next
  BY <1>2 DEF Frames!Next, Frames!Stop, Delivered
<1>3. ASSUME NEW c \in Clients, OnConnection(c)
      PROVE  Frames!Next \/ UNCHANGED Frames!vars
  <2>1. UNCHANGED <<cbuf, messages>> /\ Running /\ (status' = "exited" \/ UNCHANGED status)
    BY <1>3 DEF OnConnection, Idle
  <2>2. QED
    BY <1>1, <1>2, <2>1 DEF Running
<1>4. ASSUME NEW c \in Clients, NEW n \in 1 .. MaxRead, n <= Len(outbox[c]), OnRead(c, n)
      PROVE  Frames!Next
  <2> DEFINE data == Cells(outbox[c], 1, n)
  <2>1. Running /\ UNCHANGED messages
    BY <1>4 DEF OnRead, Idle
  <2>2. CASE AppendAsserts(cbuf, n)
    <3>1. cbuf' = append(cbuf, data) /\ UNCHANGED status
      BY <1>4, <2>2 DEF OnRead, Cells
    <3>2. outbox[c] \in Seq(Byte) /\ 1 \in Int /\ n \in Int /\ Within(outbox[c], 1, n, Byte)
          /\ (IF 1 <= n THEN n - 1 + 1 ELSE 0) = n
      <4>1. outbox[c] \in Seq(Byte) /\ MaxRead \in Nat
        BY Zenon DEF IInv, TypeOK, ChatServerAssumption
      <4>2. QED
        BY <1>4, <4>1 DEF Within
    <3>3. data \in Seq(Byte) /\ Len(data) = n
      BY <3>2, CellsTyped
    <3> HIDE DEF data
    <3>4. Content(append(cbuf, data)) = Cat(Content(cbuf), data) /\ Content(cbuf) \in Seq(Byte)
      BY <2>2, <3>3, AppendContent, ContentSeq DEF IInv, Cat
    <3>5. /\ Len(Cat(Content(cbuf), data)) >= Len(Content(cbuf))
          /\ SubSeq(Cat(Content(cbuf), data), 1, Len(Content(cbuf))) = Content(cbuf)
      BY <3>3, <3>4, CatPrefix
    <3>6. /\ Len(Content(cbuf')) >= Len(Content(cbuf))
          /\ SubSeq(Content(cbuf'), 1, Len(Content(cbuf))) = Content(cbuf)
      BY <3>1, <3>4, <3>5, Zenon
    <3>7. Delivered' = Delivered /\ Running' = Running
      BY <2>1, <3>1 DEF Delivered, Running
    <3>8. QED
      BY <2>1, <3>6, <3>7, Zenon DEF Frames!Next, Frames!Receive
  <2>3. CASE ~AppendAsserts(cbuf, n)
    <3>1. status' = "aborted" /\ UNCHANGED cbuf
      BY <1>4, <2>3 DEF OnRead
    <3>2. QED
      BY <1>2, <2>1, <3>1 DEF Running
  <2>4. QED
    BY <2>2, <2>3
<1>5. ASSUME NEW c \in Clients, OnReadEof(c)
      PROVE  UNCHANGED Frames!vars
  BY <1>1, <1>5 DEF OnReadEof
<1>6. ASSUME NEW c \in Clients, OnReadError(c)
      PROVE  Frames!Next
  <2>1. Running /\ status' = "crashed" /\ UNCHANGED <<cbuf, messages>>
    BY <1>6 DEF OnReadError, Idle
  <2>2. QED
    BY <1>2, <2>1 DEF Running
<1>7. ASSUME Broadcast
      PROVE  Frames!Next
  <2>1. /\ Running /\ CanDecode(cbuf) /\ cbuf' = Decode(cbuf)
        /\ messages' = Append(messages, [from |-> reader, msg |-> Message(cbuf)])
    BY <1>7 DEF Broadcast
  <2>2. Message(cbuf) \in Seq(Byte)
    BY <2>1, FrameAtFront DEF IInv
  <2>3. EncodeAsserts(buf, CString(Message(cbuf)))
    BY <2>2, CStringSeq, EncodeNeverAborts DEF IInv, NeverRetrieved
  <2>4. UNCHANGED status
    BY <1>7, <2>3 DEF Broadcast
  <2>5. Delivered' = Append(Delivered, Message(cbuf))
    <3> DEFINE m == [from |-> reader, msg |-> Message(cbuf)]
               T == [from : Clients, msg : Seq(Byte)]
               n == Len(messages)
    <3>1. m \in T /\ messages \in Seq(T) /\ m.msg = Message(cbuf)
      BY <2>2 DEF IInv, TypeOK
    <3> HIDE DEF m, T
    <3>2. /\ messages' \in Seq(T) /\ Len(messages') = n + 1 /\ messages'[n + 1] = m
          /\ n \in Nat /\ DOMAIN messages = 1 .. n /\ DOMAIN messages' = 1 .. n + 1
          /\ \A i \in 1 .. n : messages'[i] = messages[i]
      BY <2>1, <3>1, AppendProperties, SeqIsFun DEF m
    <3>3. Delivered = [i \in 1 .. n |-> messages[i].msg]
      BY <3>2 DEF Delivered
    <3>4. Delivered' = [i \in 1 .. n + 1 |-> messages'[i].msg]
      BY <3>2 DEF Delivered
    <3> HIDE DEF n
    <3> DEFINE U == {messages[i].msg : i \in 1 .. n} \cup {Message(cbuf)}
               d == Delivered
               e == Append(d, Message(cbuf))
    <3>5. d \in [1 .. n -> U] /\ Message(cbuf) \in U
      BY <3>3
    <3>6. \A i \in 1 .. n : d[i] = messages[i].msg
      BY <3>3
    <3> HIDE DEF U, d
    <3>7. d \in Seq(U) /\ Len(d) = n
      BY <3>2, <3>5, FunIsSeq
    <3>8. /\ e \in Seq(U) /\ Len(e) = n + 1 /\ e[n + 1] = Message(cbuf)
          /\ \A i \in 1 .. n : e[i] = d[i]
      BY <3>5, <3>7, AppendProperties
    <3>9. DOMAIN e = 1 .. n + 1 /\ e = [i \in DOMAIN e |-> e[i]]
      BY <3>8, SeqIsFun
    <3> HIDE DEF e
    <3>10. ASSUME NEW i \in 1 .. n + 1
           PROVE  e[i] = messages'[i].msg
      <4>1. CASE i = n + 1
        BY <3>1, <3>2, <3>8, <4>1
      <4>2. CASE i # n + 1
        <5>1. i \in 1 .. n
          BY <3>2, <4>2
        <5>2. QED
          BY <3>2, <3>6, <3>8, <5>1
      <4>3. QED
        BY <4>1, <4>2
    <3>11. Delivered' = e
      BY <3>4, <3>9, <3>10
    <3>12. QED
      BY <3>11 DEF e, d
  <2>6. Frames!Deliver
    <3> DEFINE stream == Content(cbuf)
               len    == Frames!ntohl(SubSeq(stream, 1, HeaderLen))
    <3>1. /\ Len(stream) >= HeaderLen
          /\ len <= kMaxMessageSize /\ HeaderLen + len <= Len(stream)
          /\ Message(cbuf) = SubSeq(stream, HeaderLen + 1, HeaderLen + len)
          /\ Content(Decode(cbuf)) = SubSeq(stream, HeaderLen + len + 1, Len(stream))
      BY <2>1, FrameInContent, Zenon
    <3>2. Content(cbuf') = SubSeq(stream, HeaderLen + len + 1, Len(stream))
      BY <2>1, <3>1, Zenon
    <3>3. Delivered' = Append(Delivered, SubSeq(stream, HeaderLen + 1, HeaderLen + len))
      BY <2>5, <3>1, Zenon
    <3>4. Running' = Running
      BY <2>4 DEF Running
    <3>5. QED
      BY <3>1, <3>2, <3>3, <3>4, Zenon DEF Frames!Deliver
  <2>7. QED
    BY <2>1, <2>6 DEF Frames!Next
<1>8. ASSUME NEW c \in Clients, NEW n \in 1 .. SendSize, Flush(c, n)
      PROVE  UNCHANGED Frames!vars
  BY <1>1, <1>8 DEF Flush
<1>9. CASE UNCHANGED vars
  BY <1>1, <1>9 DEF vars, server
<1>10. QED
  BY <1>3, <1>4, <1>5, <1>6, <1>7, <1>8, <1>9 DEF Next

(* What the one codec of chat_server decodes is what FrameCodec allows:    *)
(* frames strictly from the front of what was read, none skipped, repeated *)
(* or reordered, and none ever again behind an oversized length.           *)
THEOREM ChatServerDecodes == Spec => FrameCodecSpec
<1>1. QED
  BY InitImplements, StepImplements, ChatServerInvariant, PTL DEF Spec, FrameCodecSpec, Frames!Spec

-----------------------------------------------------------------------------
(* Messages in order: the frames of a byte sequence, by position.          *)

HeaderAt(s, i) == ntohl(Cells(s, i, i + HeaderLen - 1))
NextAt(s, i)   == i + HeaderLen + HeaderAt(s, i)
TextAt(s, i)   == Cells(s, i + HeaderLen, NextAt(s, i) - 1)

(* A whole frame begins at i. *)
Cut(s, i) ==
  /\ ~(i + HeaderLen - 1 > Len(s))
  /\ ~(HeaderAt(s, i) > kMaxMessageSize)
  /\ ~(NextAt(s, i) > Len(s) + 1)

(* The function that FramesOf is made of, and what it says of itself.      *)
FramesAt(s) ==
  CHOOSE f : f = [i \in 1 .. Len(s) + 1 |->
    IF i + HeaderLen - 1 > Len(s) THEN << >>
    ELSE LET len  == ntohl(SubSeq(s, i, i + HeaderLen - 1))
             next == i + HeaderLen + len
         IN  IF len > kMaxMessageSize \/ next > Len(s) + 1 THEN << >>
             ELSE <<SubSeq(s, i + HeaderLen, next - 1)>> \o f[next]]

FrameThen(s, f, i) ==
  IF Cut(s, i) THEN Cat(<<TextAt(s, i)>>, f[NextAt(s, i)]) ELSE << >>

LEMMA CutRange ==
  ASSUME NEW s \in Seq(Byte), NEW i \in 1 .. Len(s) + 1, Cut(s, i)
  PROVE  /\ HeaderAt(s, i) \in Nat
         /\ NextAt(s, i) \in i + 1 .. Len(s) + 1
         /\ TextAt(s, i) \in Seq(Byte)
<1> DEFINE m == i + HeaderLen - 1
           head == Cells(s, i, m)
           len == ntohl(head)
<1>1. i \in Int /\ m \in Int /\ m <= Len(s) /\ Within(s, i, m, Byte)
  BY DEF Cut, Within
<1>2. head \in Seq(Byte)
  BY <1>1, CellsTyped
<1> HIDE DEF head
<1>3. len \in Nat
  BY <1>2, NtohlNat
<1>4. HeaderAt(s, i) = len
  BY DEF HeaderAt, len, head
<1> HIDE DEF len
<1> DEFINE k == i + HeaderLen
           n == NextAt(s, i) - 1
<1>5. NextAt(s, i) = i + HeaderLen + len /\ NextAt(s, i) <= Len(s) + 1
  BY <1>3, <1>4 DEF Cut, NextAt
<1>6. k \in Int /\ n \in Int /\ Within(s, k, n, Byte)
  BY <1>3, <1>5 DEF Within
<1> HIDE DEF k, n
<1>7. Cells(s, k, n) \in Seq(Byte)
  BY <1>6, CellsTyped
<1>8. QED
  BY <1>3, <1>4, <1>5, <1>7 DEF TextAt, k, n

LEMMA FramesValue ==
  ASSUME NEW s \in Seq(Byte)
  PROVE  /\ FramesOf(s) = FramesAt(s)[1]
         /\ FramesAt(s) \in [1 .. Len(s) + 1 -> Seq(Seq(Byte))]
         /\ \A i \in 1 .. Len(s) + 1 : FramesAt(s)[i] = FrameThen(s, FramesAt(s), i)
<1> DEFINE L == Len(s) + 1
           From(k) == {i \in 1 .. L : L - i <= k}
           Solves(g, k) == g \in [From(k) -> Seq(Seq(Byte))] /\ \A i \in From(k) : g[i] = FrameThen(s, g, i)
           Solved == {k \in Nat : \E g : Solves(g, k)}
<1>1. L \in Nat /\ 1 \in 1 .. L
  OBVIOUS
<1>2. ASSUME NEW k \in Nat, NEW i \in 1 .. L, L - i <= k + 1, Cut(s, i)
      PROVE  /\ NextAt(s, i) \in From(k) /\ NextAt(s, i) \in From(k + 1)
             /\ <<TextAt(s, i)>> \in Seq(Seq(Byte))
  <2>1. NextAt(s, i) \in i + 1 .. L /\ TextAt(s, i) \in Seq(Byte)
    BY <1>2, CutRange
  <2>2. QED
    BY <1>1, <1>2, <2>1
<1>3. ASSUME NEW g, NEW k \in Nat, NEW i \in 1 .. L, L - i <= k + 1,
             \A j \in From(k) : g[j] \in Seq(Seq(Byte))
      PROVE  FrameThen(s, g, i) \in Seq(Seq(Byte))
  <2>1. CASE Cut(s, i)
    <3>1. <<TextAt(s, i)>> \in Seq(Seq(Byte)) /\ g[NextAt(s, i)] \in Seq(Seq(Byte))
      BY <1>2, <1>3, <2>1
    <3>2. Cat(<<TextAt(s, i)>>, g[NextAt(s, i)]) \in Seq(Seq(Byte))
      BY <3>1, CatAssociative
    <3>3. QED
      BY <2>1, <3>2 DEF FrameThen
  <2>2. CASE ~Cut(s, i)
    BY <2>2 DEF FrameThen
  <2>3. QED
    BY <2>1, <2>2
<1>4. 0 \in Solved
  <2>1. \A i \in From(0) : i = L
    BY <1>1
  <2>2. ~Cut(s, L)
    <3>1. L + HeaderLen - 1 > Len(s)
      OBVIOUS
    <3>2. QED
      BY <3>1 DEF Cut
  <2>3. Solves([i \in From(0) |-> << >>], 0)
    BY <2>1, <2>2 DEF FrameThen
  <2>4. QED
    BY <2>3
<1>5. ASSUME NEW k \in Nat, k \in Solved
      PROVE  k + 1 \in Solved
  <2>1. PICK g : Solves(g, k)
    BY <1>5
  <2> DEFINE h == [i \in From(k + 1) |-> FrameThen(s, g, i)]
  <2>2. \A i \in From(k + 1) : FrameThen(s, g, i) \in Seq(Seq(Byte))
    <3>1. \A j \in From(k) : g[j] \in Seq(Seq(Byte))
      BY <2>1
    <3> HIDE DEF L
    <3>2. QED
      BY <1>3, <3>1
  <2>3. h \in [From(k + 1) -> Seq(Seq(Byte))]
    BY <2>2
  <2>4. ASSUME NEW i \in From(k + 1)
        PROVE  h[i] = FrameThen(s, h, i)
    <3>1. CASE Cut(s, i)
      <4>1. NextAt(s, i) \in From(k) /\ NextAt(s, i) \in From(k + 1)
        BY <1>2, <2>4, <3>1
      <4>2. g[NextAt(s, i)] = FrameThen(s, g, NextAt(s, i))
        BY <2>1, <4>1
      <4>3. h[NextAt(s, i)] = FrameThen(s, g, NextAt(s, i))
        BY <4>1
      <4> HIDE DEF h
      <4>4. FrameThen(s, h, i) = FrameThen(s, g, i)
        BY <3>1, <4>2, <4>3 DEF FrameThen
      <4>5. QED
        BY <2>4, <4>4 DEF h
    <3>2. CASE ~Cut(s, i)
      BY <2>4, <3>2 DEF FrameThen
    <3>3. QED
      BY <3>1, <3>2
  <2> HIDE DEF h
  <2>5. Solves(h, k + 1)
    BY <2>3, <2>4
  <2> HIDE DEF Solves
  <2>6. k + 1 \in Nat /\ \E f : Solves(f, k + 1)
    BY <2>5
  <2>7. QED
    BY <2>6
<1>6. \A k \in Nat : k \in Solved
  <2> HIDE DEF Solved
  <2> QED BY <1>4, <1>5, SetInduction
<1>7. PICK g : Solves(g, L)
  BY <1>1, <1>6
<1>8. From(L) = 1 .. L
  BY <1>1
<1>9. g = [i \in 1 .. L |-> FrameThen(s, g, i)]
  BY <1>7, <1>8
<1> DEFINE Nested(f) == [i \in 1 .. Len(s) + 1 |->
             IF i + HeaderLen - 1 > Len(s) THEN << >>
             ELSE LET len  == ntohl(SubSeq(s, i, i + HeaderLen - 1))
                      next == i + HeaderLen + len
                  IN  IF len > kMaxMessageSize \/ next > Len(s) + 1 THEN << >>
                      ELSE <<SubSeq(s, i + HeaderLen, next - 1)>> \o f[next]]
<1>10. ASSUME NEW f
       PROVE  Nested(f) = [i \in 1 .. L |-> FrameThen(s, f, i)]
  BY Zenon DEF FrameThen, Cut, TextAt, NextAt, HeaderAt, Cells, Cat
<1>11. FramesAt(s) = CHOOSE f : f = Nested(f)
  BY DEF FramesAt
<1>12. FramesOf(s) = FramesAt(s)[1]
  BY DEF FramesAt, FramesOf
<1> HIDE DEF Nested
<1>13. FramesAt(s) = Nested(FramesAt(s))
  BY <1>9, <1>10, <1>11
<1>14. FramesAt(s) = [i \in 1 .. L |-> FrameThen(s, FramesAt(s), i)]
  BY <1>10, <1>13
<1> DEFINE InFrames == {k \in Nat : \A i \in From(k) : FramesAt(s)[i] \in Seq(Seq(Byte))}
<1>15. 0 \in InFrames
  <2>1. \A i \in From(0) : i = L
    BY <1>1
  <2>2. ~Cut(s, L)
    <3>1. L + HeaderLen - 1 > Len(s)
      OBVIOUS
    <3>2. QED
      BY <3>1 DEF Cut
  <2>3. \A i \in From(0) : FramesAt(s)[i] = << >>
    BY <1>14, <2>1, <2>2 DEF FrameThen
  <2>4. 0 \in Nat /\ << >> \in Seq(Seq(Byte))
    OBVIOUS
  <2> HIDE DEF From
  <2>5. \A i \in From(0) : FramesAt(s)[i] \in Seq(Seq(Byte))
    BY <2>3, <2>4
  <2>6. QED
    BY <2>4, <2>5
<1>16. ASSUME NEW k \in Nat, k \in InFrames
       PROVE  k + 1 \in InFrames
  <2>1. \A j \in From(k) : FramesAt(s)[j] \in Seq(Seq(Byte))
    BY <1>16
  <2>2. ASSUME NEW i \in From(k + 1)
        PROVE  FramesAt(s)[i] \in Seq(Seq(Byte))
    <3>1. i \in 1 .. L /\ L - i <= k + 1
      BY <2>2
    <3>2. FramesAt(s)[i] = FrameThen(s, FramesAt(s), i)
      BY <1>14, <3>1
    <3> HIDE DEF From, L
    <3>3. FrameThen(s, FramesAt(s), i) \in Seq(Seq(Byte))
      BY <1>3, <2>1, <3>1
    <3>4. QED
      BY <3>2, <3>3
  <2>3. QED
    BY <2>2
<1>17. \A k \in Nat : k \in InFrames
  <2> HIDE DEF InFrames
  <2> QED BY <1>15, <1>16, SetInduction
<1>18. \A i \in 1 .. L : FramesAt(s)[i] \in Seq(Seq(Byte))
  BY <1>1, <1>8, <1>17
<1>19. FramesAt(s) \in [1 .. L -> Seq(Seq(Byte))]
  BY <1>14, <1>18
<1>20. QED
  BY <1>12, <1>14, <1>19

(* got and what FramesOf finds from position p on are all the messages of  *)
(* s, whatever will be read behind it.                                     *)
Parsed(s, got, p) ==
  \A more \in Seq(Byte) :
    FramesAt(Cat(s, more))[1] = Cat(got, FramesAt(Cat(s, more))[p])

LEMMA CellsInside ==
  ASSUME NEW S, NEW done \in Seq(S), NEW x \in Seq(S), NEW more \in Seq(S),
         NEW m \in Nat \ {0}, NEW n \in Int, n <= Len(x)
  PROVE  Cells(Cat(Cat(done, x), more), Len(done) + m, Len(done) + n) = Cells(x, m, n)
<1> DEFINE w == Cat(done, x)
           t == Cat(w, more)
           d == Len(done)
           a == d + m
           z == d + n
           u == Cells(t, a, z)
           v == Cells(x, m, n)
<1>1. /\ w \in Seq(S) /\ Len(w) = d + Len(x)
      /\ \A i \in 1 .. d + Len(x) : w[i] = IF i <= d THEN done[i] ELSE x[i - d]
  BY CatSeq
<1> HIDE DEF w
<1>2. /\ t \in Seq(S) /\ Len(t) = d + Len(x) + Len(more)
      /\ \A i \in 1 .. d + Len(x) + Len(more) :
           i <= d + Len(x) => t[i] = w[i]
  <2>1. /\ t \in Seq(S) /\ Len(t) = Len(w) + Len(more)
        /\ \A i \in 1 .. Len(w) + Len(more) : t[i] = IF i <= Len(w) THEN w[i] ELSE more[i - Len(w)]
    <3>1. w \in Seq(S)
      BY <1>1
    <3>2. QED
      BY ONLY <3>1, more \in Seq(S), CatSeq
  <2> HIDE DEF t, d
  <2>2. QED
    BY <1>1, <2>1
<1>3. d \in Nat /\ Len(x) \in Nat /\ Len(more) \in Nat
  OBVIOUS
<1> HIDE DEF t, d
<1>4. \A i \in m .. n : t[d + i] = x[i] /\ x[i] \in S
  <2> TAKE i \in m .. n
  <2> DEFINE k == d + i
  <2>1. i \in 1 .. Len(x) /\ k \in 1 .. d + Len(x) + Len(more) /\ k \in 1 .. d + Len(x)
        /\ k <= d + Len(x) /\ ~(k <= d) /\ k - d = i
    BY <1>3
  <2> HIDE DEF k
  <2>2. t[k] = w[k]
    BY <1>2, <2>1
  <2>3. w[k] = x[i]
    BY <1>1, <2>1
  <2>4. x[i] \in S
    BY <2>1
  <2>5. QED
    BY <2>2, <2>3, <2>4, Zenon DEF k
<1>5. a \in Int /\ z \in Int /\ m \in Int /\ Within(t, a, z, S) /\ Within(x, m, n, S)
  <2>1. \A i \in a .. z : i - d \in m .. n /\ d + (i - d) = i
    BY <1>3
  <2>2. \A i \in a .. z : t[i] \in S
    BY <1>4, <2>1
  <2>3. QED
    BY <1>3, <1>4, <2>2 DEF Within
<1>6. (a <= z <=> m <= n) /\ z - a + 1 = n - m + 1
  BY <1>3
<1> HIDE DEF a, z
<1>7. u \in Seq(S) /\ Len(u) = (IF a <= z THEN z - a + 1 ELSE 0) /\ \A i \in 1 .. z - a + 1 : u[i] = t[a + i - 1]
  BY <1>5, CellsTyped
<1>8. v \in Seq(S) /\ Len(v) = (IF m <= n THEN n - m + 1 ELSE 0) /\ \A i \in 1 .. n - m + 1 : v[i] = x[m + i - 1]
  BY <1>5, CellsTyped
<1> HIDE DEF u, v
<1>9. ASSUME NEW i \in 1 .. Len(u)
      PROVE  u[i] = v[i]
  <2> DEFINE j == m + i - 1
  <2>1. i \in 1 .. n - m + 1 /\ i \in 1 .. z - a + 1
    BY <1>3, <1>6, <1>7
  <2>2. j \in m .. n /\ a + i - 1 = d + j
    BY <1>3, <2>1 DEF a
  <2>3. u[i] = t[a + i - 1] /\ v[i] = x[j]
    BY <1>7, <1>8, <2>1
  <2> HIDE DEF j
  <2>4. t[d + j] = x[j]
    BY <1>4, <2>2
  <2>5. t[a + i - 1] = t[d + j]
    BY ONLY <2>2
  <2>6. QED
    BY ONLY <2>3, <2>4, <2>5
<1>10. u = v
  <2>1. Len(u) = Len(v)
    BY <1>6, <1>7, <1>8
  <2>2. QED
    BY <1>7, <1>8, <1>9, <2>1, SeqEqual
<1>11. QED
  BY <1>10 DEF u, v, a, z, t, w, d

(* The length in front of rest, and whether it is followed by as much.     *)
LengthOf(rest) == ntohl(Cells(rest, 1, HeaderLen))

Complete(rest) ==
  /\ HeaderLen <= Len(rest)
  /\ LengthOf(rest) \in 0 .. kMaxMessageSize
  /\ HeaderLen + LengthOf(rest) <= Len(rest)

FrameLen(rest) == HeaderLen + LengthOf(rest)

LEMMA FrameFound ==
  ASSUME NEW done \in Seq(Byte), NEW rest \in Seq(Byte), NEW more \in Seq(Byte),
         Complete(rest)
  PROVE  LET t == Cat(Cat(done, rest), more)
             p == Len(done) + 1
         IN  /\ Cut(t, p) /\ p \in 1 .. Len(t) + 1
             /\ NextAt(t, p) = Len(done) + FrameLen(rest) + 1
             /\ TextAt(t, p) = Cells(rest, HeaderLen + 1, FrameLen(rest))
<1> DEFINE t == Cat(Cat(done, rest), more)
           p == Len(done) + 1
           len == LengthOf(rest)
           d == Len(done)
           h == HeaderLen + 1
           l == HeaderLen + len
<1>1. t \in Seq(Byte) /\ Len(t) = d + Len(rest) + Len(more)
  <2> DEFINE w == Cat(done, rest)
  <2>1. w \in Seq(Byte) /\ Len(w) = d + Len(rest)
    BY CatSeq
  <2> HIDE DEF w
  <2>2. Cat(w, more) \in Seq(Byte) /\ Len(Cat(w, more)) = Len(w) + Len(more)
    BY <2>1, CatSeq
  <2>3. QED
    BY <2>1, <2>2 DEF w
<1>2. d \in Nat /\ Len(rest) \in Nat /\ Len(more) \in Nat /\ HeaderLen \in Nat \ {0} /\ kMaxMessageSize \in Nat
      /\ len <= kMaxMessageSize /\ HeaderLen <= Len(rest) /\ len \in Nat /\ 1 \in Nat \ {0} /\ HeaderLen \in Int /\ h \in Nat \ {0} /\ l \in Int /\ l <= Len(rest)
  BY DEF Complete
<1> HIDE DEF d, h, l, len, t, p
<1>3. HeaderAt(t, p) = len
  <2>1. Cells(t, d + 1, d + HeaderLen) = Cells(rest, 1, HeaderLen)
    BY <1>2, CellsInside DEF d, t
  <2>2. p + HeaderLen - 1 = d + HeaderLen /\ p = d + 1
    BY <1>2 DEF d, p
  <2>3. QED
    BY <2>1, <2>2 DEF HeaderAt, LengthOf, len
<1>4. NextAt(t, p) = d + (HeaderLen + len) + 1 /\ NextAt(t, p) = d + l + 1
  BY <1>2, <1>3 DEF NextAt, d, l, p
<1>5. Cut(t, p) /\ p \in 1 .. Len(t) + 1
  BY <1>1, <1>2, <1>3, <1>4 DEF Cut, d, l, p
<1>6. Cells(t, d + h, d + l) = Cells(rest, h, l)
  BY <1>2, CellsInside DEF d, t
<1>7. p + HeaderLen = d + h /\ NextAt(t, p) - 1 = d + l
  BY <1>2, <1>4 DEF d, h, l, p
<1>8. TextAt(t, p) = Cells(rest, h, l)
  BY <1>6, <1>7 DEF TextAt
<1>9. QED
  BY <1>4, <1>5, <1>8 DEF d, h, l, t, p, len, FrameLen

LEMMA ParsedStart == Parsed(<< >>, << >>, 1)
<1> SUFFICES ASSUME NEW more \in Seq(Byte)
             PROVE  FramesAt(Cat(<< >>, more))[1] = Cat(<< >>, FramesAt(Cat(<< >>, more))[1])
  BY DEF Parsed
<1>1. Cat(<< >>, more) = more
  BY ConcatEmptySeq DEF Cat
<1>2. FramesAt(more)[1] \in Seq(Seq(Byte))
  <2>1. 1 \in 1 .. Len(more) + 1
    OBVIOUS
  <2>2. QED
    BY <2>1, FramesValue
<1>3. Cat(<< >>, FramesAt(more)[1]) = FramesAt(more)[1]
  BY <1>2, ConcatEmptySeq DEF Cat
<1>4. QED
  BY <1>1, <1>3

LEMMA ParsedExtends ==
  ASSUME NEW s \in Seq(Byte), NEW got, NEW p, NEW data \in Seq(Byte), Parsed(s, got, p)
  PROVE  Parsed(Cat(s, data), got, p)
<1>1. ASSUME NEW more \in Seq(Byte)
      PROVE  Cat(Cat(s, data), more) = Cat(s, Cat(data, more)) /\ Cat(data, more) \in Seq(Byte)
  BY CatAssociative
<1>2. QED
  BY <1>1 DEF Parsed

LEMMA ParsedNext ==
  ASSUME NEW done \in Seq(Byte), NEW rest \in Seq(Byte), NEW got \in Seq(Seq(Byte)),
         Complete(rest), Parsed(Cat(done, rest), got, Len(done) + 1)
  PROVE  Parsed(Cat(done, rest), Append(got, Cells(rest, HeaderLen + 1, FrameLen(rest))),
                Len(done) + FrameLen(rest) + 1)
<1> DEFINE text == Cells(rest, HeaderLen + 1, FrameLen(rest))
           next == Len(done) + FrameLen(rest) + 1
           p    == Len(done) + 1
<1> SUFFICES ASSUME NEW more \in Seq(Byte)
             PROVE  LET t == Cat(Cat(done, rest), more)
                    IN  FramesAt(t)[1] = Cat(Append(got, text), FramesAt(t)[next])
  BY DEF Parsed
<1> DEFINE t == Cat(Cat(done, rest), more)
<1>1. Cut(t, p) /\ p \in 1 .. Len(t) + 1 /\ NextAt(t, p) = next /\ TextAt(t, p) = text
  BY FrameFound
<1>2. FramesAt(t)[1] = Cat(got, FramesAt(t)[p])
  BY DEF Parsed
<1>3. t \in Seq(Byte)
  <2>1. Cat(done, rest) \in Seq(Byte)
    BY CatSeq
  <2>2. QED
    BY <2>1, CatSeq
<1> HIDE DEF t, p, next, text
<1>4. next \in 1 .. Len(t) + 1 /\ text \in Seq(Byte)
  <2>1. NextAt(t, p) \in p + 1 .. Len(t) + 1 /\ TextAt(t, p) \in Seq(Byte)
    BY <1>1, <1>3, CutRange
  <2>2. p \in Nat /\ Len(t) \in Nat
    BY <1>3 DEF p
  <2>3. QED
    BY <1>1, <2>1, <2>2
<1>5. FramesAt(t)[p] = Cat(<<text>>, FramesAt(t)[next])
  <2>1. FramesAt(t)[p] = FrameThen(t, FramesAt(t), p)
    BY <1>1, <1>3, FramesValue
  <2>2. QED
    BY <1>1, <2>1, Zenon DEF FrameThen
<1>6. FramesAt(t)[next] \in Seq(Seq(Byte)) /\ <<text>> \in Seq(Seq(Byte))
  <2>1. FramesAt(t) \in [1 .. Len(t) + 1 -> Seq(Seq(Byte))]
    BY <1>3, FramesValue
  <2>2. << text >> \in Seq(Seq(Byte))
    BY <1>4
  <2> DEFINE f == FramesAt(t)
             all == Seq(Seq(Byte))
  <2> HIDE DEF f, all
  <2>3. f \in [1 .. Len(t) + 1 -> all]
    BY <2>1 DEF f, all
  <2>4. f[next] \in all
    BY <1>4, <2>3
  <2>5. FramesAt(t)[next] \in Seq(Seq(Byte))
    BY <2>4, Zenon DEF f, all
  <2>6. QED
    BY ONLY <2>2, <2>5
<1>7. Cat(Cat(got, <<text>>), FramesAt(t)[next]) = Cat(got, Cat(<<text>>, FramesAt(t)[next]))
  <2> DEFINE x == <<text>>
             f == FramesAt(t)[next]
             M == Seq(Byte)
  <2>1. got \in Seq(M) /\ x \in Seq(M) /\ f \in Seq(M)
    BY <1>6
  <2> HIDE DEF x, f, M
  <2>2. Cat(Cat(got, x), f) = Cat(got, Cat(x, f))
    BY <2>1, CatAssociative
  <2>3. QED
    BY <2>2 DEF x, f
<1>8. Cat(got, <<text>>) = Append(got, text)
  BY <1>4, AppendIsConcat DEF Cat
<1>9. QED
  BY <1>2, <1>5, <1>7, <1>8 DEF t

(* s is some bytes that were parsed and then rest. *)
Lined(s, got, rest) ==
  \E done \in Seq(Byte) : s = Cat(done, rest) /\ Parsed(s, got, Len(done) + 1)

LEMMA LinedRead ==
  ASSUME NEW s \in Seq(Byte), NEW got, NEW rest \in Seq(Byte), NEW data \in Seq(Byte),
         Lined(s, got, rest)
  PROVE  Lined(Cat(s, data), got, Cat(rest, data))
<1>1. PICK done \in Seq(Byte) : s = Cat(done, rest) /\ Parsed(s, got, Len(done) + 1)
  BY DEF Lined
<1>2. Cat(s, data) = Cat(done, Cat(rest, data))
  BY <1>1, CatAssociative
<1>3. Parsed(Cat(s, data), got, Len(done) + 1)
  BY <1>1, ParsedExtends
<1>4. QED
  BY <1>2, <1>3 DEF Lined

LEMMA LinedDeliver ==
  ASSUME NEW s \in Seq(Byte), NEW got \in Seq(Seq(Byte)), NEW rest \in Seq(Byte),
         Complete(rest), Lined(s, got, rest)
  PROVE  Lined(s, Append(got, Cells(rest, HeaderLen + 1, FrameLen(rest))),
               Behind(rest, FrameLen(rest)))
<1> DEFINE n     == FrameLen(rest)
           first == Cells(rest, 1, n)
           more  == Behind(rest, n)
           text  == Cells(rest, HeaderLen + 1, n)
<1>1. n \in 0 .. Len(rest) /\ n \in Nat
  BY DEF Complete, FrameLen
<1>2. PICK done \in Seq(Byte) : s = Cat(done, rest) /\ Parsed(s, got, Len(done) + 1)
  BY DEF Lined
<1>3. Parsed(s, Append(got, text), Len(done) + n + 1)
  BY <1>2, ParsedNext
<1> HIDE DEF n
<1>4. first \in Seq(Byte) /\ more \in Seq(Byte) /\ Cat(first, more) = rest
  BY <1>1, SplitSeq DEF Behind, Cells
<1>5. Len(first) = n
  <2>1. 1 \in Int /\ n \in Int /\ Within(rest, 1, n, Byte) /\ (IF 1 <= n THEN n - 1 + 1 ELSE 0) = n
    BY <1>1 DEF Within
  <2>2. QED
    BY <2>1, CellsTyped
<1> HIDE DEF first, more, text
<1> DEFINE longer == Cat(done, first)
<1>6. longer \in Seq(Byte) /\ Len(longer) = Len(done) + n
  BY <1>4, <1>5, CatSeq
<1>7. s = Cat(longer, more)
  BY <1>2, <1>4, CatAssociative
<1> HIDE DEF longer
<1>8. Parsed(s, Append(got, text), Len(longer) + 1)
  BY <1>3, <1>6
<1>9. Lined(s, Append(got, text), more)
  BY <1>6, <1>7, <1>8 DEF Lined
<1>10. QED
  BY <1>9 DEF text, more, n

LEMMA LinedStuck ==
  ASSUME NEW s \in Seq(Byte), NEW got \in Seq(Seq(Byte)), NEW rest \in Seq(Byte),
         ~Complete(rest), Lined(s, got, rest)
  PROVE  FramesOf(s) = got
<1>1. PICK done \in Seq(Byte) : s = Cat(done, rest) /\ Parsed(s, got, Len(done) + 1)
  BY DEF Lined
<1> DEFINE d == Len(done)
           p == d + 1
<1>2. Len(s) = d + Len(rest) /\ d \in Nat /\ Len(rest) \in Nat
  <2>1. Len(Cat(done, rest)) = d + Len(rest)
    BY CatSeq
  <2>2. QED
    BY <1>1, <2>1
<1>3. Cat(s, << >>) = s /\ << >> \in Seq(Byte)
  BY ConcatEmptySeq DEF Cat
<1>4. FramesAt(s)[1] = Cat(got, FramesAt(s)[p])
  BY <1>1, <1>3 DEF Parsed
<1> HIDE DEF d
<1>5. p \in 1 .. Len(s) + 1
  BY <1>2
<1>6. ~Cut(s, p)
  <2> SUFFICES ASSUME Cut(s, p) PROVE FALSE
    OBVIOUS
  <2>1. HeaderAt(s, p) \in Nat
    BY <1>5, CutRange
  <2>2. ~(p + HeaderLen - 1 > Len(s)) /\ ~(HeaderAt(s, p) > kMaxMessageSize)
        /\ ~(p + HeaderLen + HeaderAt(s, p) > Len(s) + 1)
    BY DEF Cut, NextAt
  <2>3. HeaderLen <= Len(rest)
    BY <1>2, <2>2
  <2>4. HeaderAt(s, p) = LengthOf(rest)
    <3> DEFINE none == << >>
    <3>1. 1 \in Nat \ {0} /\ HeaderLen \in Int /\ none \in Seq(Byte) /\ done \in Seq(Byte)
      BY <1>1
    <3>2. Cat(Cat(done, rest), none) = s
      BY <1>1, <1>3
    <3> HIDE DEF none
    <3>3. Cells(Cat(Cat(done, rest), none), Len(done) + 1, Len(done) + HeaderLen)
            = Cells(rest, 1, HeaderLen)
      BY <2>3, <3>1, CellsInside
    <3>4. p + HeaderLen - 1 = Len(done) + HeaderLen /\ p = Len(done) + 1
      BY <1>2 DEF d
    <3>5. QED
      BY <3>2, <3>3, <3>4 DEF HeaderAt, LengthOf
  <2>5. HeaderLen + LengthOf(rest) <= Len(rest) /\ LengthOf(rest) \in 0 .. kMaxMessageSize
    BY <1>2, <2>1, <2>2, <2>4
  <2>6. QED
    BY <2>3, <2>5 DEF Complete
<1>7. FramesAt(s)[p] = << >>
  <2>1. FramesAt(s)[p] = FrameThen(s, FramesAt(s), p)
    BY <1>5, FramesValue
  <2>2. QED
    BY <1>6, <2>1, Zenon DEF FrameThen
<1>8. Cat(got, << >>) = got
  BY ConcatEmptySeq DEF Cat
<1>9. FramesOf(s) = FramesAt(s)[1]
  BY FramesValue
<1>10. QED
  BY <1>4, <1>7, <1>8, <1>9

(* A frame that the decoder takes, and the one it does not take yet.       *)
LEMMA DecodeComplete ==
  ASSUME NEW b, Good(b)
  PROVE  /\ CanDecode(b) =>
              /\ Complete(Content(b))
              /\ Message(b) = Cells(Content(b), HeaderLen + 1, FrameLen(Content(b)))
              /\ Content(Decode(b)) = Behind(Content(b), FrameLen(Content(b)))
         /\ Complete(Content(b)) /\ ~CanDecode(b) =>
              Len(Content(b)) = HeaderLen /\ LengthOf(Content(b)) = 0
<1>1. peekUInt32(b) = LengthOf(Content(b))
  BY DEF peekUInt32, LengthOf, Cells
<1>2. Content(b) \in Seq(Byte) /\ Len(Content(b)) = readableBytes(b) /\ readableBytes(b) \in Nat
  BY ContentSeq
<1>3. ASSUME CanDecode(b)
      PROVE  /\ Complete(Content(b))
             /\ Message(b) = Cells(Content(b), HeaderLen + 1, FrameLen(Content(b)))
             /\ Content(Decode(b)) = Behind(Content(b), FrameLen(Content(b)))
  <2>1. peekUInt32(b) \in 0 .. kMaxMessageSize /\ HeaderLen + peekUInt32(b) \in 0 .. Len(Content(b))
    BY <1>3, FrameAtFront
  <2>2. HeaderLen <= Len(Content(b))
    BY <1>2, <2>1
  <2>3. Complete(Content(b))
    BY <1>1, <1>2, <2>1, <2>2 DEF Complete
  <2>4. Content(Decode(b)) = Behind(Content(b), HeaderLen + peekUInt32(b))
    BY <1>3, DecodeContent
  <2>5. QED
    BY <1>1, <2>3, <2>4, Zenon DEF FrameLen, Message, Cells
<1>4. ASSUME Complete(Content(b)), ~CanDecode(b)
      PROVE  Len(Content(b)) = HeaderLen /\ LengthOf(Content(b)) = 0
  <2> DEFINE len == LengthOf(Content(b))
             n   == readableBytes(b)
  <2>1. HeaderLen <= n /\ len \in 0 .. kMaxMessageSize /\ HeaderLen + len <= n
    BY <1>2, <1>4 DEF Complete
  <2>2. ~(n > HeaderLen /\ ~(len > kMaxMessageSize) /\ len + HeaderLen <= n)
    BY <1>1, <1>4 DEF CanDecode, HasHeader, TooLong
  <2> HIDE DEF len, n
  <2>3. n = HeaderLen /\ len = 0
    BY <1>2, <2>1, <2>2 DEF n
  <2>4. QED
    BY <1>2, <2>3 DEF len, n
<1>5. QED
  BY <1>3, <1>4

(* Which of the messages came back for the bytes of c. *)
Mine(m, c)   == IF m.from = c THEN <<m.msg>> ELSE << >>
Sorted(ms, c) == [i \in 1 .. Len(ms) |-> Mine(ms[i], c)]

MessageType == [from : Clients, msg : Seq(Byte)]

LEMMA SortedTyped ==
  ASSUME NEW ms \in Seq(MessageType), NEW c
  PROVE  Sorted(ms, c) \in Seq(Seq(Seq(Byte))) /\ Len(Sorted(ms, c)) = Len(ms)
         /\ \A i \in 1 .. Len(ms) : Sorted(ms, c)[i] = Mine(ms[i], c)
<1> DEFINE M == Seq(Seq(Byte))
           n == Len(ms)
<1>1. ASSUME NEW i \in 1 .. n
      PROVE  Mine(ms[i], c) \in M
  <2>1. ms[i] \in MessageType
    OBVIOUS
  <2>2. ms[i].msg \in Seq(Byte)
    BY <2>1 DEF MessageType
  <2>3. QED
    BY <2>2 DEF Mine
<1>2. n \in Nat
  OBVIOUS
<1>3. Sorted(ms, c) = [i \in 1 .. n |-> Mine(ms[i], c)]
  BY DEF Sorted
<1> HIDE DEF M, n
<1>4. Sorted(ms, c) \in [1 .. n -> M] /\ \A i \in 1 .. n : Sorted(ms, c)[i] = Mine(ms[i], c)
  BY <1>1, <1>3
<1>5. Sorted(ms, c) \in Seq(M) /\ Len(Sorted(ms, c)) = n
  BY <1>2, <1>4, FunIsSeq
<1>6. QED
  BY <1>4, <1>5 DEF M, n

LEMMA MessagesOfIs ==
  ASSUME messages \in Seq(MessageType), NEW c
  PROVE  MessagesOf(c) = FlattenSeq(Sorted(messages, c)) /\ MessagesOf(c) \in Seq(Seq(Byte))
<1>1. DOMAIN messages = 1 .. Len(messages)
  BY SeqIsFun
<1>2. MessagesOf(c) = FlattenSeq(Sorted(messages, c))
  BY <1>1, Zenon DEF MessagesOf, Sorted, Mine
<1> DEFINE M == Seq(Byte)
<1>3. Sorted(messages, c) \in Seq(Seq(M))
  BY SortedTyped
<1> HIDE DEF M
<1>4. FlattenSeq(Sorted(messages, c)) \in Seq(M)
  BY <1>3, FlattenTyped
<1>5. QED
  BY <1>2, <1>4 DEF M

LEMMA MessagesOfNext ==
  ASSUME messages \in Seq(MessageType), NEW m \in MessageType,
         messages' = Append(messages, m), NEW c
  PROVE  MessagesOf(c)' = IF m.from = c THEN Append(MessagesOf(c), m.msg) ELSE MessagesOf(c)
<1> DEFINE n == Len(messages)
           a == Sorted(messages, c)
           z == Sorted(messages', c)
           got == MessagesOf(c)
<1>1. /\ messages' \in Seq(MessageType) /\ Len(messages') = n + 1 /\ messages'[n + 1] = m
      /\ \A i \in 1 .. n : messages'[i] = messages[i]
  BY AppendProperties
<1>2. n \in Nat /\ n + 1 \in 1 .. n + 1 /\ \A i \in 1 .. n : i \in 1 .. n + 1
  OBVIOUS
<1>3. /\ a \in Seq(Seq(Seq(Byte))) /\ Len(a) = n
      /\ \A i \in 1 .. n : a[i] = Mine(messages[i], c)
  BY SortedTyped
<1>4. /\ z \in Seq(Seq(Seq(Byte))) /\ Len(z) = n + 1
      /\ \A i \in 1 .. n + 1 : z[i] = Mine(messages'[i], c)
  BY <1>1, SortedTyped
<1>5. got = FlattenSeq(a) /\ got \in Seq(Seq(Byte))
  BY MessagesOfIs
<1>6. MessagesOf(c)' = FlattenSeq(z)
  <2>1. DOMAIN messages' = 1 .. Len(messages')
    BY <1>1, SeqIsFun
  <2>2. QED
    BY <2>1, Zenon DEF MessagesOf, Sorted, Mine
<1> HIDE DEF n, a, z, got
<1>7. (\A i \in 1 .. n : z[i] = a[i]) /\ z[n + 1] = Mine(m, c)
  BY <1>1, <1>2, <1>3, <1>4
<1>8. FlattenSeq(z) = Cat(FlattenSeq(a), Mine(m, c))
  <2> DEFINE M == Seq(Byte)
  <2>1. /\ a \in Seq(Seq(M)) /\ z \in Seq(Seq(M)) /\ Len(z) = Len(a) + 1
        /\ \A i \in 1 .. Len(a) : z[i] = a[i]
    BY <1>3, <1>4, <1>7
  <2> HIDE DEF M
  <2>2. FlattenSeq(z) = Cat(FlattenSeq(a), z[Len(z)])
    BY <2>1, FlattenOneMore
  <2>3. QED
    BY <1>4, <1>7, <2>2
<1>9. CASE m.from = c
  <2>1. m.msg \in Seq(Byte)
    BY DEF MessageType
  <2>2. Cat(got, <<m.msg>>) = Append(got, m.msg)
    BY <1>5, <2>1, AppendIsConcat DEF Cat
  <2>3. QED
    BY <1>5, <1>6, <1>8, <1>9, <2>2 DEF Mine, got
<1>10. CASE m.from # c
  <2>1. Cat(got, << >>) = got
    BY <1>5, ConcatEmptySeq DEF Cat
  <2>2. QED
    BY <1>5, <1>6, <1>8, <1>10, <2>1 DEF Mine, got
<1>11. QED
  BY <1>9, <1>10

-----------------------------------------------------------------------------
(* The invariant that InOrder needs: what was read of each client is what  *)
(* was parsed, and for the client that was read last what is in the buffer.*)

ReadOf(c) == SubSeq(script[c], 1, Len(script[c]) - Len(outbox[c]))

InBuffer(c) == IF c = reader THEN Content(cbuf) ELSE << >>

Orderly == Running /\ ~mixed => \A c \in Clients : Lined(ReadOf(c), MessagesOf(c), InBuffer(c))

OrderInv ==
  /\ IInv
  /\ \A c \in Clients : ReadOf(c) \in Seq(Byte) /\ Cat(ReadOf(c), outbox[c]) = script[c]
  /\ Orderly

LEMMA OrderTyped ==
  ASSUME OrderInv, NEW c \in Clients
  PROVE  /\ ReadOf(c) \in Seq(Byte) /\ Cat(ReadOf(c), outbox[c]) = script[c]
         /\ messages \in Seq(MessageType) /\ MessagesOf(c) \in Seq(Seq(Byte))
         /\ Good(cbuf) /\ Content(cbuf) \in Seq(Byte) /\ InBuffer(c) \in Seq(Byte)
         /\ outbox[c] \in Seq(Byte) /\ script[c] \in Seq(Byte)
<1>1. messages \in Seq(MessageType) /\ Good(cbuf) /\ outbox[c] \in Seq(Byte) /\ script[c] \in Seq(Byte)
  BY DEF OrderInv, IInv, TypeOK, MessageType
<1>2. Content(cbuf) \in Seq(Byte) /\ MessagesOf(c) \in Seq(Seq(Byte))
  BY <1>1, ContentSeq, MessagesOfIs
<1>3. InBuffer(c) \in Seq(Byte)
  BY <1>2 DEF InBuffer
<1>4. QED
  BY <1>1, <1>2, <1>3 DEF OrderInv

LEMMA InitOrder == Init => OrderInv
<1> SUFFICES ASSUME Init PROVE OrderInv
  OBVIOUS
<1>1. Content(cbuf) = << >>
  BY NewBufferGood DEF Init, ChatServerAssumption
<1>2. ASSUME NEW c \in Clients
      PROVE  ReadOf(c) = << >> /\ Cat(ReadOf(c), outbox[c]) = script[c]
  <2>1. outbox[c] = script[c] /\ script[c] \in Seq(Byte)
    BY DEF Init, ChatServerAssumption
  <2>2. Len(script[c]) - Len(outbox[c]) = 0
    BY <2>1
  <2>3. ReadOf(c) = << >>
    BY <2>1, <2>2 DEF ReadOf
  <2>4. QED
    BY <2>1, <2>3, ConcatEmptySeq DEF Cat
<1>3. ASSUME NEW c \in Clients
      PROVE  MessagesOf(c) = << >>
  <2>1. messages = << >>
    BY DEF Init
  <2>2. MessagesOf(c) = FlattenSeq(Sorted(messages, c)) /\ Sorted(messages, c) = << >>
    <3>1. messages \in Seq(MessageType) /\ Len(messages) = 0
      BY <2>1
    <3>2. Sorted(messages, c) \in Seq(Seq(Seq(Byte))) /\ Len(Sorted(messages, c)) = 0
      BY <3>1, SortedTyped
    <3>3. QED
      BY <3>1, <3>2, MessagesOfIs, EmptySeq
  <2>3. FlattenSeq(<< >>) = << >>
    BY DEF FlattenSeq
  <2>4. QED
    BY <2>2, <2>3
<1>4. ASSUME NEW c \in Clients
      PROVE  Lined(ReadOf(c), MessagesOf(c), InBuffer(c))
  <2>1. InBuffer(c) = << >> /\ ReadOf(c) = << >> /\ MessagesOf(c) = << >>
    BY <1>1, <1>2, <1>3 DEF InBuffer
  <2>2. << >> \in Seq(Byte) /\ << >> = Cat(<< >>, << >>) /\ Len(<< >>) + 1 = 1
    BY ConcatEmptySeq DEF Cat
  <2>3. Lined(<< >>, << >>, << >>)
    BY <2>2, ParsedStart DEF Lined
  <2>4. QED
    BY <2>1, <2>3
<1>5. << >> \in Seq(Byte)
  OBVIOUS
<1>6. QED
  BY <1>2, <1>4, <1>5, InitIInv DEF OrderInv, Orderly

(* A step that neither reads nor delivers. *)
LEMMA SameOrder ==
  ASSUME OrderInv, IInv', UNCHANGED <<cbuf, script, outbox, messages, reader, mixed>>,
         Running' => Running
  PROVE  OrderInv'
<1>1. ASSUME NEW c \in Clients
      PROVE  /\ ReadOf(c)' = ReadOf(c) /\ MessagesOf(c)' = MessagesOf(c)
             /\ InBuffer(c)' = InBuffer(c) /\ outbox'[c] = outbox[c] /\ script'[c] = script[c]
  BY DEF ReadOf, MessagesOf, InBuffer
<1>2. Orderly'
  BY <1>1 DEF OrderInv, Orderly
<1>3. QED
  BY <1>1, <1>2 DEF OrderInv

LEMMA OnReadOrder ==
  ASSUME OrderInv, IInv', NEW c \in Clients, NEW n \in 1 .. MaxRead,
         n <= Len(outbox[c]), OnRead(c, n)
  PROVE  OrderInv'
<1> DEFINE data == Cells(outbox[c], 1, n)
           rest == Behind(outbox[c], n)
<1>1. outbox[c] \in Seq(Byte) /\ script[c] \in Seq(Byte) /\ n \in 0 .. Len(outbox[c]) /\ n \in Nat
  <2>1. MaxRead \in Nat
    BY DEF ChatServerAssumption
  <2>2. QED
    BY <2>1, OrderTyped
<1>2. data \in Seq(Byte) /\ rest \in Seq(Byte) /\ Cat(data, rest) = outbox[c]
  BY <1>1, SplitSeq DEF Behind, Cells
<1>3. Len(data) = n
  <2>1. 1 \in Int /\ n \in Int /\ Within(outbox[c], 1, n, Byte)
        /\ (IF 1 <= n THEN n - 1 + 1 ELSE 0) = n
    BY <1>1 DEF Within
  <2>2. QED
    BY <2>1, CellsTyped
<1>4. /\ outbox' = [outbox EXCEPT ![c] = rest]
      /\ UNCHANGED <<script, messages>> /\ reader' = c
      /\ mixed' = (mixed \/ (Content(cbuf) # << >> /\ reader # c))
      /\ Running
  BY DEF OnRead, Behind, Idle
<1>5. \A d \in Clients : outbox'[d] = IF d = c THEN rest ELSE outbox[d]
  BY <1>4 DEF OrderInv, IInv, TypeOK
<1>6. \A d \in Clients : MessagesOf(d)' = MessagesOf(d) /\ script'[d] = script[d]
  BY <1>4 DEF MessagesOf
<1> HIDE DEF data, rest
<1>7. ReadOf(c)' = Cat(ReadOf(c), data) /\ Cat(ReadOf(c), data) \in Seq(Byte)
      /\ Cat(Cat(ReadOf(c), data), rest) = script[c]
  <2> DEFINE s == Cat(ReadOf(c), data)
  <2>1. ReadOf(c) \in Seq(Byte) /\ Cat(ReadOf(c), outbox[c]) = script[c]
    BY OrderTyped
  <2>2. s \in Seq(Byte)
    BY <1>2, <2>1, CatSeq
  <2>3. Cat(s, rest) = script[c]
    <3> DEFINE r == ReadOf(c)
    <3>1. r \in Seq(Byte) /\ data \in Seq(Byte) /\ rest \in Seq(Byte)
      BY <1>2, <2>1
    <3> HIDE DEF r
    <3>2. Cat(Cat(r, data), rest) = Cat(r, Cat(data, rest))
      BY <3>1, CatAssociative
    <3>3. QED
      BY <1>2, <2>1, <3>2, Zenon DEF r
  <2> HIDE DEF s
  <2>4. Len(script[c]) - Len(rest) = Len(s)
    <3>1. Len(Cat(s, rest)) = Len(s) + Len(rest) /\ Len(s) \in Nat /\ Len(rest) \in Nat
      <4>1. rest \in Seq(Byte)
        BY <1>2
      <4>2. Len(Cat(s, rest)) = Len(s) + Len(rest)
        BY <2>2, <4>1, CatSeq
      <4>3. QED
        BY <2>2, <4>1, <4>2
    <3>2. QED
      BY <2>3, <3>1
  <2>5. SubSeq(script[c], 1, Len(s)) = s
    <3>1. SubSeq(Cat(s, rest), 1, Len(s)) = s
      BY <1>2, <2>2, CatPrefix
    <3>2. QED
      BY <2>3, <3>1
  <2>6. ReadOf(c)' = SubSeq(script[c], 1, Len(script[c]) - Len(rest))
    BY <1>5, <1>6 DEF ReadOf
  <2>7. QED
    BY <2>2, <2>3, <2>4, <2>5, <2>6 DEF s
<1>8. ASSUME NEW d \in Clients, d # c
      PROVE  ReadOf(d)' = ReadOf(d) /\ outbox'[d] = outbox[d]
  BY <1>5, <1>6, <1>8 DEF ReadOf
<1>9. ASSUME NEW d \in Clients
       PROVE  ReadOf(d)' \in Seq(Byte) /\ Cat(ReadOf(d)', outbox'[d]) = script'[d]
  <2>1. CASE d = c
    BY <1>5, <1>6, <1>7, <2>1
  <2>2. CASE d # c
    BY <1>6, <1>8, <2>2, OrderTyped
  <2>3. QED
    BY <2>1, <2>2
<1>10. ASSUME Running', ~mixed', NEW d \in Clients
       PROVE  Lined(ReadOf(d)', MessagesOf(d)', InBuffer(d)')
  <2>1. ~mixed /\ (Content(cbuf) = << >> \/ reader = c)
    BY <1>4, <1>10
  <2>2. Lined(ReadOf(d), MessagesOf(d), InBuffer(d))
    BY <1>4, <2>1 DEF OrderInv, Orderly
  <2>3. CASE d = c
    <3>1. AppendAsserts(cbuf, n) /\ cbuf' = append(cbuf, data)
      <4>1. CASE AppendAsserts(cbuf, n)
        BY <4>1 DEF OnRead, data, Cells
      <4>2. CASE ~AppendAsserts(cbuf, n)
        <5>1. status' = "aborted"
          BY <4>2 DEF OnRead
        <5>2. QED
          BY <1>10, <5>1 DEF Running
      <4>3. QED
        BY <4>1, <4>2
    <3>2. Content(append(cbuf, data)) = Cat(Content(cbuf), data)
      BY <1>2, <1>3, <3>1, AppendContent, OrderTyped DEF Cat
    <3>3. InBuffer(c)' = Cat(Content(cbuf), data)
      BY <1>4, <3>1, <3>2, Zenon DEF InBuffer
    <3>4. InBuffer(c) = Content(cbuf)
      BY <2>1 DEF InBuffer
    <3>5. Lined(ReadOf(c), MessagesOf(c), Content(cbuf))
      BY <2>2, <2>3, <3>4
    <3>6. Lined(Cat(ReadOf(c), data), MessagesOf(c), Cat(Content(cbuf), data))
      BY <1>2, <3>5, LinedRead, OrderTyped
    <3>7. QED
      BY <1>6, <1>7, <2>3, <3>3, <3>6
  <2>4. CASE d # c
    <3>1. InBuffer(d)' = << >>
      BY <1>4, <2>4 DEF InBuffer
    <3>2. InBuffer(d) = << >>
      BY <2>1, <2>4 DEF InBuffer
    <3>3. QED
      BY <1>6, <1>8, <2>2, <2>4, <3>1, <3>2
  <2>5. QED
    BY <2>3, <2>4
<1>11. QED
  BY <1>9, <1>10 DEF OrderInv, Orderly

LEMMA BroadcastOrder ==
  ASSUME OrderInv, IInv', Broadcast
  PROVE  OrderInv'
<1> DEFINE rest == Content(cbuf)
           text == Cells(rest, HeaderLen + 1, FrameLen(rest))
           more == Behind(rest, FrameLen(rest))
           m    == [from |-> reader, msg |-> text]
<1>1. /\ Running /\ CanDecode(cbuf) /\ cbuf' = Decode(cbuf)
      /\ messages' = Append(messages, [from |-> reader, msg |-> Message(cbuf)])
      /\ UNCHANGED <<script, outbox, reader, mixed>>
  BY DEF Broadcast
<1>2. reader \in Clients /\ Good(cbuf) /\ messages \in Seq(MessageType) /\ rest \in Seq(Byte)
  <2>1. reader \in Clients
    BY DEF OrderInv, IInv, TypeOK
  <2>2. QED
    BY <2>1, OrderTyped
<1>3. Complete(rest) /\ Message(cbuf) = text /\ Content(Decode(cbuf)) = more
  BY <1>1, <1>2, DecodeComplete
<1>4. text \in Seq(Byte)
  BY <1>1, <1>2, <1>3, FrameAtFront
<1> HIDE DEF text, more, rest
<1>5. m \in MessageType /\ messages' = Append(messages, m) /\ m.from = reader /\ m.msg = text
  BY <1>1, <1>2, <1>3, <1>4 DEF MessageType
<1> HIDE DEF m
<1>6. ASSUME NEW d \in Clients
      PROVE  MessagesOf(d)' = IF reader = d THEN Append(MessagesOf(d), text) ELSE MessagesOf(d)
  BY <1>2, <1>5, MessagesOfNext
<1>7. ASSUME NEW d \in Clients
      PROVE  ReadOf(d)' = ReadOf(d) /\ script'[d] = script[d] /\ outbox'[d] = outbox[d]
  BY <1>1 DEF ReadOf
<1>8. ASSUME ~mixed', NEW d \in Clients
      PROVE  Lined(ReadOf(d)', MessagesOf(d)', InBuffer(d)')
  <2>1. Lined(ReadOf(d), MessagesOf(d), InBuffer(d))
    BY <1>1, <1>8 DEF OrderInv, Orderly
  <2>2. CASE d = reader
    <3>1. InBuffer(d) = rest
      BY <2>2 DEF InBuffer, rest
    <3>2. InBuffer(d)' = more
      BY <1>1, <1>3, <2>2, Zenon DEF InBuffer
    <3>3. MessagesOf(d)' = Append(MessagesOf(d), text)
      BY <1>6, <2>2
    <3>4. Lined(ReadOf(d), MessagesOf(d), rest)
      BY <2>1, <3>1
    <3>5. Lined(ReadOf(d), Append(MessagesOf(d), text), more)
      BY <1>2, <1>3, <3>4, LinedDeliver, OrderTyped DEF text, more
    <3>6. QED
      BY <1>7, <3>2, <3>3, <3>5
  <2>3. CASE d # reader
    <3>1. InBuffer(d) = << >> /\ InBuffer(d)' = << >>
      BY <1>1, <2>3 DEF InBuffer
    <3>2. MessagesOf(d)' = MessagesOf(d)
      BY <1>6, <2>3
    <3>3. QED
      BY <1>7, <2>1, <3>1, <3>2
  <2>4. QED
    BY <2>2, <2>3
<1>9. QED
  BY <1>7, <1>8 DEF OrderInv, Orderly

LEMMA NextOrder == OrderInv /\ [Next]_vars => OrderInv'
<1> SUFFICES ASSUME OrderInv, [Next]_vars PROVE OrderInv'
  OBVIOUS
<1>1. IInv'
  BY NextIInv DEF OrderInv
<1>2. CASE \E c \in Clients : OnConnection(c)
  BY <1>1, <1>2, SameOrder DEF OnConnection, Idle
<1>3. CASE \E c \in Clients : \E n \in 1 .. MaxRead : n <= Len(outbox[c]) /\ OnRead(c, n)
  BY <1>1, <1>3, OnReadOrder
<1>4. CASE \E c \in Clients : OnReadEof(c)
  BY <1>1, <1>4, SameOrder DEF OnReadEof, Idle
<1>5. CASE \E c \in Clients : OnReadError(c)
  BY <1>1, <1>5, SameOrder DEF OnReadError, Idle
<1>6. CASE Broadcast
  BY <1>1, <1>6, BroadcastOrder
<1>7. CASE \E c \in Clients : \E n \in 1 .. SendSize : Flush(c, n)
  BY <1>1, <1>7, SameOrder DEF Flush, Idle
<1>8. CASE UNCHANGED vars
  BY <1>1, <1>8, SameOrder DEF vars, server, Running
<1>9. QED
  BY <1>2, <1>3, <1>4, <1>5, <1>6, <1>7, <1>8 DEF Next

(* What was parsed is all there is, once no whole frame is left but a lone *)
(* empty one.                                                              *)
LEMMA LinedDecoded ==
  ASSUME NEW s \in Seq(Byte), NEW got \in Seq(Seq(Byte)), NEW rest \in Seq(Byte),
         Lined(s, got, rest),
         Complete(rest) => Len(rest) = HeaderLen /\ LengthOf(rest) = 0
  PROVE  Decoded(got, s)
<1>1. CASE ~Complete(rest)
  <2>1. FramesOf(s) = got
    BY <1>1, LinedStuck
  <2>2. QED
    BY <2>1 DEF Decoded
<1>2. CASE Complete(rest)
  <2> DEFINE text == Cells(rest, HeaderLen + 1, HeaderLen)
             more == Behind(rest, HeaderLen)
             all  == Append(got, text)
  <2>1. FrameLen(rest) = HeaderLen /\ Len(rest) = HeaderLen
    BY <1>2 DEF FrameLen
  <2>2. Lined(s, all, more)
    <3>1. Lined(s, Append(got, Cells(rest, HeaderLen + 1, FrameLen(rest))),
                Behind(rest, FrameLen(rest)))
      BY <1>2, LinedDeliver
    <3>2. QED
      BY <2>1, <3>1
  <2>3. text = << >> /\ text \in Seq(Byte)
    <3> DEFINE k == HeaderLen + 1
    <3>1. k \in Int /\ HeaderLen \in Int /\ ~(k <= HeaderLen)
      OBVIOUS
    <3> HIDE DEF k
    <3>2. Within(rest, k, HeaderLen, Byte)
      BY <3>1 DEF Within
    <3>3. Cells(rest, k, HeaderLen) \in Seq(Byte) /\ Len(Cells(rest, k, HeaderLen)) = 0
      BY <3>1, <3>2, CellsTyped
    <3>4. Cells(rest, k, HeaderLen) = << >>
      BY <3>3, EmptySeq
    <3>5. QED
      BY <3>3, <3>4 DEF k
  <2>4. more \in Seq(Byte) /\ Len(more) = 0
    <3>1. HeaderLen \in 0 .. Len(rest) /\ Len(rest) - HeaderLen = 0
      BY <2>1
    <3>2. more \in Seq(Byte) /\ Len(more) = Len(rest) - HeaderLen
      BY <3>1, BehindSeq
    <3>3. QED
      BY <3>1, <3>2
  <2>5. ~Complete(more)
    BY <2>4 DEF Complete
  <2> HIDE DEF more, text
  <2>6. all \in Seq(Seq(Byte)) /\ Len(all) = Len(got) + 1 /\ all[Len(got) + 1] = text
        /\ \A i \in 1 .. Len(got) : all[i] = got[i]
    BY <2>3, AppendProperties
  <2> HIDE DEF all
  <2>7. FramesOf(s) = all
    BY <2>2, <2>4, <2>5, <2>6, LinedStuck
  <2>8. all # << >> /\ Last(all) = << >> /\ Front(all) = SubSeq(all, 1, Len(got))
    BY <2>3, <2>6 DEF Last, Front
  <2>9. SubSeq(all, 1, Len(got)) = got
    <3> DEFINE B == Seq(Byte)
    <3>1. got \in Seq(B) /\ text \in B
      BY <2>3
    <3> HIDE DEF B
    <3>2. all = Cat(got, <<text>>) /\ <<text>> \in Seq(B)
      BY <3>1, AppendIsConcat DEF all, Cat
    <3>3. QED
      BY <3>1, <3>2, CatPrefix
  <2>10. QED
    BY <2>7, <2>8, <2>9 DEF Decoded
<1>3. QED
  BY <1>1, <1>2

(* Each client's messages are delivered under its name, whole, in order    *)
(* and once, with the read that completes them, for any scripts and any    *)
(* split of them into reads, as long as no read begins inside another      *)
(* client's frame.                                                         *)
THEOREM ChatServerInOrder == Spec => []InOrder
<1>1. OrderInv => InOrder
  <2> SUFFICES ASSUME OrderInv, Idle, ~mixed, NEW c \in Clients
               PROVE  Decoded(MessagesOf(c), ReadOf(c))
    BY DEF InOrder, ReadOf
  <2> DEFINE s    == ReadOf(c)
             got  == MessagesOf(c)
             rest == InBuffer(c)
  <2>1. Lined(s, got, rest) /\ ~CanDecode(cbuf)
    BY DEF OrderInv, Orderly, Idle
  <2>2. s \in Seq(Byte) /\ got \in Seq(Seq(Byte)) /\ rest \in Seq(Byte) /\ Good(cbuf)
    BY OrderTyped
  <2>3. Complete(rest) => Len(rest) = HeaderLen /\ LengthOf(rest) = 0
    <3>1. CASE c = reader
      BY <2>1, <2>2, <3>1, DecodeComplete DEF InBuffer
    <3>2. CASE c # reader
      BY <3>2 DEF InBuffer, Complete
    <3>3. QED
      BY <3>1, <3>2
  <2> HIDE DEF s, got, rest
  <2>4. Decoded(got, s)
    BY <2>1, <2>2, <2>3, LinedDecoded
  <2>5. QED
    BY <2>4 DEF s, got
<1>2. QED
  BY <1>1, InitOrder, NextOrder, PTL DEF Spec

-----------------------------------------------------------------------------
(* chat_client: the inductive invariant.  Its sendBuf is to its encode     *)
(* buffer what a connection's is to the server's, so the lemmas about      *)
(* SendKeeps and FlushKeeps serve both ends.                               *)

ClientRecord ==
  [loop : {"connecting", "running", "done", "exited", "aborted", "undefined"},
   stdin : {"none", "reading", "stopped", "closed"},
   tcp : {"none", "reading", "ended", "failed"},
   lines : Seq(Seq(Byte)), buffer : BufferType, sendBuf : BufOf(ClientBuf),
   writes : Seq(PartOf(ClientBuf)), codec : BufferType, taken : Nat,
   printed : Seq(Seq(Byte)), texts : Seq(Seq(Byte))]

(* The frames of all texts, and what each call of sendRawContent() asks    *)
(* for when these are what was encoded.                                    *)
Frame(text)              == Cat(htonl(Len(text)), text)
Framed(texts)            == [i \in 1 .. Len(texts) |-> Frame(texts[i])]
Opening(content, text)   == Cells(content, 1, HeaderLen + Len(text))
Openings(texts, content) == [i \in 1 .. Len(texts) |-> Opening(content, texts[i])]

(* Everything ever encoded is still in the buffer, the text behind each    *)
(* earlier call included, and what is pending is a part of it.             *)
ClientSound(r) ==
  /\ r \in ClientRecord
  /\ Good(r.codec)
  /\ Good(r.buffer) /\ r.buffer.readerIndex = 0
  /\ Content(r.buffer) = FlattenSeq(Framed(r.texts))
  /\ \A i \in 1 .. Len(r.texts) : HeaderLen + Len(r.texts[i]) <= Len(Content(r.buffer))
  /\ AllEncoded(r.sendBuf, r.writes, Content(r.buffer))

(* WireIntact, of what is on the wire. *)
InTransit(r, wire) ==
  r.loop \in {"connecting", "running"} =>
    Cat(wire, Pending(r.sendBuf, r.writes)) = FlattenSeq(Openings(r.texts, Content(r.buffer)))

SessionInv ==
  /\ IInv
  /\ ClientSound(client)
  /\ client.taken <= Len(out[me])
  /\ Running => InTransit(client, script[me])

LEMMA FrameTyped ==
  ASSUME NEW text \in Seq(Byte)
  PROVE  Frame(text) \in Seq(Byte) /\ Len(Frame(text)) = HeaderLen + Len(text)
<1>1. Len(text) \in Nat
  OBVIOUS
<1>2. htonl(Len(text)) \in Seq(Byte) /\ Len(htonl(Len(text))) = HeaderLen
  BY <1>1, HtonlSeq
<1>3. QED
  BY <1>2, ConcatProperties DEF Frame, Cat

LEMMA OpeningTyped ==
  ASSUME NEW content \in Seq(Byte), NEW text \in Seq(Byte), HeaderLen + Len(text) <= Len(content)
  PROVE  Opening(content, text) \in Seq(Byte)
<1> DEFINE n == HeaderLen + Len(text)
<1>1. 1 \in Int /\ n \in Int /\ n <= Len(content) /\ Len(content) \in Nat
  BY DEF BufferOpsAssumption
<1> HIDE DEF n
<1>2. Within(content, 1, n, Byte)
  BY <1>1 DEF Within
<1>3. QED
  BY <1>1, <1>2, CellsTyped DEF Opening, n

(* The frames and the openings of one text more. *)
LEMMA FramedGrow ==
  ASSUME NEW texts \in Seq(Seq(Byte)), NEW text \in Seq(Byte)
  PROVE  FlattenSeq(Framed(Append(texts, text))) = Cat(FlattenSeq(Framed(texts)), Frame(text))
<1> DEFINE n == Len(texts)
           more == Append(texts, text)
           T == Seq(Byte)
<1>1. /\ n \in Nat /\ more \in Seq(T) /\ Len(more) = n + 1 /\ more[n + 1] = text
      /\ \A i \in 1 .. n : more[i] = texts[i] /\ texts[i] \in T
  BY AppendProperties
<1> HIDE DEF more, n, T
<1>2. \A i \in 1 .. n + 1 : Frame(more[i]) \in T
  BY <1>1, FrameTyped DEF T
<1>3. \A i \in 1 .. n : Frame(texts[i]) \in T
  BY <1>1, FrameTyped DEF T
<1>4. Framed(texts) \in Seq(T) /\ Len(Framed(texts)) = n
  <2>1. Framed(texts) \in [1 .. n -> T]
    BY <1>3 DEF Framed, n
  <2>2. QED
    BY <1>1, <2>1, FunIsSeq
<1>5. Framed(more) \in Seq(T) /\ Len(Framed(more)) = n + 1
  <2>1. Framed(more) \in [1 .. n + 1 -> T]
    BY <1>1, <1>2 DEF Framed
  <2>2. n + 1 \in Nat
    BY <1>1
  <2>3. QED
    BY <2>1, <2>2, FunIsSeq
<1>6. Framed(more)[n + 1] = Frame(text) /\ \A i \in 1 .. n : Framed(more)[i] = Framed(texts)[i]
  <2>1. n + 1 \in 1 .. n + 1 /\ \A i \in 1 .. n : i \in 1 .. n + 1
    BY <1>1
  <2>2. \A i \in 1 .. n + 1 : Framed(more)[i] = Frame(more[i])
    BY <1>1 DEF Framed
  <2>3. \A i \in 1 .. n : Framed(texts)[i] = Frame(texts[i])
    BY DEF Framed, n
  <2>4. QED
    BY <1>1, <2>1, <2>2, <2>3
<1>7. FlattenSeq(Framed(more)) = Cat(FlattenSeq(Framed(texts)), Framed(more)[Len(Framed(more))])
  BY <1>4, <1>5, <1>6, FlattenOneMore DEF T
<1>8. QED
  BY <1>5, <1>6, <1>7 DEF more

LEMMA OpeningsGrow ==
  ASSUME NEW texts \in Seq(Seq(Byte)), NEW text \in Seq(Byte),
         NEW old \in Seq(Byte), NEW new \in Seq(Byte), Extends(new, old),
         \A i \in 1 .. Len(texts) : HeaderLen + Len(texts[i]) <= Len(old),
         HeaderLen + Len(text) <= Len(new)
  PROVE  FlattenSeq(Openings(Append(texts, text), new))
           = Cat(FlattenSeq(Openings(texts, old)), Opening(new, text))
<1> DEFINE n == Len(texts)
           more == Append(texts, text)
           T == Seq(Byte)
<1>1. /\ n \in Nat /\ more \in Seq(T) /\ Len(more) = n + 1 /\ more[n + 1] = text
      /\ \A i \in 1 .. n : more[i] = texts[i] /\ texts[i] \in T
  BY AppendProperties
<1>2. \A i \in 1 .. n : HeaderLen + Len(texts[i]) <= Len(old)
  OBVIOUS
<1> HIDE DEF more, n, T
<1>3. ASSUME NEW i \in 1 .. n
      PROVE  /\ Opening(old, texts[i]) \in T
             /\ Opening(new, texts[i]) = Opening(old, texts[i])
  <2> DEFINE t == texts[i]
             k == HeaderLen + Len(t)
  <2>1. t \in Seq(Byte) /\ k <= Len(old)
    BY <1>1, <1>2 DEF T
  <2> HIDE DEF t
  <2>2. 1 \in Int /\ k \in Int /\ Len(old) \in Nat
    BY <2>1 DEF BufferOpsAssumption
  <2>3. Opening(old, t) \in T
    BY <2>1, OpeningTyped DEF T
  <2> HIDE DEF k
  <2>4. Within(old, 1, k, Byte) /\ Agree(old, new, 1, k)
    BY <2>1, <2>2 DEF Within, Agree, Extends
  <2>5. Cells(old, 1, k) = Cells(new, 1, k)
    BY <2>2, <2>4, SameCells
  <2>6. QED
    BY <2>3, <2>5 DEF Opening, k, t
<1>4. Opening(new, text) \in T
  BY OpeningTyped DEF T
<1>5. Openings(texts, old) \in Seq(T) /\ Len(Openings(texts, old)) = n
  <2>1. Openings(texts, old) \in [1 .. n -> T]
    BY <1>3 DEF Openings, n
  <2>2. QED
    BY <1>1, <2>1, FunIsSeq
<1>6. Openings(more, new) \in Seq(T) /\ Len(Openings(more, new)) = n + 1
  <2>1. \A i \in 1 .. n + 1 : Opening(new, more[i]) \in T
    <3>1. \A i \in 1 .. n + 1 : i = n + 1 \/ i \in 1 .. n
      BY <1>1
    <3>2. QED
      BY <1>1, <1>3, <1>4, <3>1
  <2>2. Openings(more, new) \in [1 .. n + 1 -> T]
    BY <1>1, <2>1 DEF Openings
  <2>3. n + 1 \in Nat
    BY <1>1
  <2>4. QED
    BY <2>2, <2>3, FunIsSeq
<1>7. /\ Openings(more, new)[n + 1] = Opening(new, text)
      /\ \A i \in 1 .. n : Openings(more, new)[i] = Openings(texts, old)[i]
  <2>1. n + 1 \in 1 .. n + 1 /\ \A i \in 1 .. n : i \in 1 .. n + 1
    BY <1>1
  <2>2. \A i \in 1 .. n + 1 : Openings(more, new)[i] = Opening(new, more[i])
    BY <1>1 DEF Openings
  <2>3. \A i \in 1 .. n : Openings(texts, old)[i] = Opening(old, texts[i])
    BY DEF Openings, n
  <2>4. QED
    BY <1>1, <1>3, <2>1, <2>2, <2>3
<1>8. FlattenSeq(Openings(more, new))
        = Cat(FlattenSeq(Openings(texts, old)), Openings(more, new)[Len(Openings(more, new))])
  BY <1>5, <1>6, <1>7, FlattenOneMore DEF T
<1>9. QED
  BY <1>6, <1>7, <1>8 DEF more

WithText(r, b, sb, q, texts) ==
  [r EXCEPT !.buffer = b, !.sendBuf = sb, !.writes = q, !.texts = texts]

LEMMA TextSent ==
  ASSUME NEW r \in ClientRecord, NEW b \in BufferType, NEW sb \in BufOf(ClientBuf),
         NEW q \in Seq(PartOf(ClientBuf)), NEW texts \in Seq(Seq(Byte)),
         NEW r2, r2 = WithText(r, b, sb, q, texts)
  PROVE  /\ r2 \in ClientRecord /\ r2.loop = r.loop /\ r2.taken = r.taken /\ r2.codec = r.codec
         /\ r2.buffer = b /\ r2.sendBuf = sb /\ r2.writes = q /\ r2.texts = texts
BY DEF ClientRecord, WithText

(* encode(&buffer, ..) and sendRawContent(buffer.peek(), ..).              *)
LEMMA SendRawContentKeeps ==
  ASSUME NEW r, ClientSound(r), r.loop = "running", NEW text \in Seq(Byte), NEW wire \in Seq(Byte)
  PROVE  /\ ClientSound(SendRawContent(r, text))
         /\ SendRawContent(r, text).taken = r.taken
         /\ InTransit(r, wire) => InTransit(SendRawContent(r, text), wire)
<1> DEFINE newB == encode(r.buffer, text)
           len  == HeaderLen + Len(text)
           old  == Content(r.buffer)
           new  == Content(newB)
           data == Cells(new, 1, len)
           sb2  == CopyTo(r.sendBuf, 0, data)
           w    == [first |-> 1, last |-> len]
           q2   == Append(r.writes, w)
           asked == FlattenSeq(Openings(r.texts, old))
           more == Append(r.texts, text)
           r2   == SendRawContent(r, text)
<1>1. /\ r \in ClientRecord /\ Good(r.codec) /\ Good(r.buffer) /\ r.buffer.readerIndex = 0
      /\ old = FlattenSeq(Framed(r.texts))
      /\ \A i \in 1 .. Len(r.texts) : HeaderLen + Len(r.texts[i]) <= Len(old)
      /\ AllEncoded(r.sendBuf, r.writes, old)
  BY DEF ClientSound
<1>2. /\ r.texts \in Seq(Seq(Byte)) /\ r.sendBuf \in BufOf(ClientBuf)
      /\ r.writes \in Seq(PartOf(ClientBuf)) /\ ClientBuf \in Nat
  BY <1>1, ChatClientAssumption DEF ClientRecord
<1>3. EncodeAsserts(r.buffer, text) /\ newB.readerIndex = 0
  BY <1>1, EncodeNeverAborts
<1>4. /\ Good(newB) /\ new = Cat(old, Frame(text))
      /\ old \in Seq(Byte) /\ new \in Seq(Byte)
  <2>1. Good(newB) /\ new = Cat(old, Frame(text))
    BY <1>1, <1>3, EncodeContent DEF Frame
  <2> HIDE DEF newB
  <2>2. QED
    BY <1>1, <2>1, ContentSeq
<1>5. Extends(new, old) /\ len <= Len(new) /\ len \in Nat /\ len # 0 /\ Len(old) <= Len(new)
  <2>1. Frame(text) \in Seq(Byte) /\ Len(Frame(text)) = len
    BY FrameTyped
  <2>2. len \in Nat /\ len # 0
    BY DEF BufferOpsAssumption
  <2> HIDE DEF old, new, len
  <2>3. /\ Len(new) = Len(old) + Len(Frame(text)) /\ Len(old) \in Nat
        /\ \A i \in 1 .. Len(old) + Len(Frame(text)) :
             new[i] = IF i <= Len(old) THEN old[i] ELSE Frame(text)[i - Len(old)]
    <3>1. old \in Seq(Byte) /\ Frame(text) \in Seq(Byte) /\ new = old \o Frame(text)
      BY <1>4, <2>1 DEF Cat
    <3>2. QED
      BY <3>1, ConcatProperties
  <2>4. QED
    BY <2>1, <2>2, <2>3 DEF Extends
<1>6. CASE len > ClientBuf
  <2>1. r2 = [r EXCEPT !.loop = "undefined"]
    BY <1>3, <1>6 DEF SendRawContent
  <2>2. /\ r2 \in ClientRecord /\ r2.loop = "undefined" /\ r2.taken = r.taken
        /\ r2.codec = r.codec /\ r2.buffer = r.buffer /\ r2.texts = r.texts
        /\ r2.sendBuf = r.sendBuf /\ r2.writes = r.writes
    BY <1>1, <2>1 DEF ClientRecord
  <2> HIDE DEF r2
  <2>3. ClientSound(r2)
    BY <1>1, <2>2 DEF ClientSound, old
  <2>4. InTransit(r2, wire)
    BY <2>2 DEF InTransit
  <2>5. QED
    BY <2>2, <2>3, <2>4 DEF r2
<1>7. CASE ~(len > ClientBuf)
  <2>1. r2 = WithText(r, newB, sb2, q2, more)
    BY <1>3, <1>7, Zenon DEF SendRawContent, EncodeBack, Cells, WithText
  <2>2. w \in PartOf(ClientBuf) /\ len \in 1 .. ClientBuf
    BY <1>2, <1>5, <1>7 DEF PartOf
  <2>3. q2 = Left(r.writes, 0, len)
    BY <1>5 DEF Left
  <2>4. /\ data \in Seq(Byte) /\ sb2 \in BufOf(ClientBuf) /\ q2 \in Seq(PartOf(ClientBuf))
        /\ AllEncoded(sb2, q2, new)
        /\ Cat(Cat(wire, Cells(data, 1, 0)), Pending(sb2, q2))
             = Cat(Cat(wire, Pending(r.sendBuf, r.writes)), data)
    <3> DEFINE sb == r.sendBuf
               q  == r.writes
    <3>1. /\ sb \in BufOf(ClientBuf) /\ q \in Seq(PartOf(ClientBuf)) /\ wire \in Seq(Byte)
          /\ old \in Seq(Byte) /\ new \in Seq(Byte) /\ Extends(new, old)
          /\ AllEncoded(sb, q, old)
          /\ len \in 1 .. ClientBuf /\ len <= Len(new)
          /\ 0 \in 0 .. len /\ (q # << >> => 0 = 0)
          /\ data = Cells(new, 1, len) /\ sb2 = CopyTo(sb, 0, data) /\ q2 = Left(q, 0, len)
      BY <1>1, <1>2, <1>4, <1>5, <2>2, <2>3
    <3> HIDE DEF sb, q, old, new, data, sb2, q2, len
    <3>2. /\ data \in Seq(Byte) /\ sb2 \in BufOf(ClientBuf) /\ q2 \in Seq(PartOf(ClientBuf))
          /\ AllEncoded(sb2, q2, new)
          /\ Cat(Cat(wire, Cells(data, 1, 0)), Pending(sb2, q2)) = Cat(Cat(wire, Pending(sb, q)), data)
      BY <1>2, <3>1, SendKeeps
    <3>3. QED
      BY <3>2 DEF sb, q
  <2>5. /\ more \in Seq(Seq(Byte)) /\ Len(more) = Len(r.texts) + 1 /\ more[Len(more)] = text
        /\ \A i \in 1 .. Len(r.texts) : more[i] = r.texts[i]
    BY <1>2, AppendProperties
  <2>6. new = FlattenSeq(Framed(more))
    <3>1. FlattenSeq(Framed(more)) = Cat(FlattenSeq(Framed(r.texts)), Frame(text))
      BY <1>2, FramedGrow
    <3>2. QED
      BY <1>1, <1>4, <3>1
  <2>7. FlattenSeq(Openings(more, new)) = Cat(asked, data)
    <3> DEFINE texts == r.texts
    <3>1. /\ texts \in Seq(Seq(Byte)) /\ old \in Seq(Byte) /\ new \in Seq(Byte) /\ Extends(new, old)
          /\ \A i \in 1 .. Len(texts) : HeaderLen + Len(texts[i]) <= Len(old)
          /\ HeaderLen + Len(text) <= Len(new)
      BY <1>1, <1>2, <1>4, <1>5
    <3> HIDE DEF old, new, texts
    <3>2. FlattenSeq(Openings(Append(texts, text), new))
            = Cat(FlattenSeq(Openings(texts, old)), Opening(new, text))
      BY <3>1, OpeningsGrow
    <3>3. QED
      BY <3>2 DEF Opening, texts
  <2>8. Cells(data, 1, 0) = << >> /\ Cat(wire, << >>) = wire
    BY SubSeqEmpty, ConcatEmptySeq DEF Cells, Cat
  <2>9. \A i \in 1 .. Len(more) : HeaderLen + Len(more[i]) <= Len(new)
    <3> HIDE DEF old, new
    <3>1. ASSUME NEW i \in 1 .. Len(r.texts)
          PROVE  HeaderLen + Len(r.texts[i]) <= Len(new)
      <4>1. HeaderLen + Len(r.texts[i]) <= Len(old) /\ Len(old) <= Len(new)
        BY <1>1, <1>5
      <4>2. r.texts[i] \in Seq(Byte) /\ HeaderLen \in Nat /\ Len(old) \in Nat /\ Len(new) \in Nat
        BY <1>2, <1>4 DEF BufferOpsAssumption
      <4>3. Len(r.texts[i]) \in Nat
        BY <4>2
      <4>4. QED
        BY <4>1, <4>2, <4>3
    <3>2. \A i \in 1 .. Len(more) : i = Len(more) \/ i \in 1 .. Len(r.texts)
      BY <1>2, <2>5
    <3> HIDE DEF more
    <3>3. QED
      BY <1>5, <2>5, <3>1, <3>2
  <2> HIDE DEF newB, data, sb2, w, q2, more, asked
  <2>10. newB \in BufferType
    BY <1>4 DEF Good
  <2> HIDE DEF r2
  <2>11. /\ r2 \in ClientRecord /\ r2.loop = r.loop /\ r2.taken = r.taken /\ r2.codec = r.codec
         /\ r2.buffer = newB /\ r2.sendBuf = sb2 /\ r2.writes = q2 /\ r2.texts = more
    BY <1>1, <2>1, <2>4, <2>5, <2>10, TextSent
  <2>12. ClientSound(r2)
    BY <1>1, <1>3, <1>4, <2>4, <2>6, <2>9, <2>11 DEF ClientSound
  <2>13. InTransit(r, wire) => InTransit(r2, wire)
    <3>1. SUFFICES ASSUME Cat(wire, Pending(r.sendBuf, r.writes)) = asked
                   PROVE  Cat(wire, Pending(sb2, q2)) = FlattenSeq(Openings(more, new))
      BY <2>11 DEF InTransit, asked
    <3>2. QED
      BY <2>4, <2>7, <2>8, <3>1
  <2>14. QED
    BY <2>11, <2>12, <2>13 DEF r2
<1>8. QED
  BY <1>6, <1>7

(* The rest of the pending writes is as sound as all of them.              *)
LEMMA TailKeeps ==
  ASSUME NEW N \in Nat, NEW sb, NEW q \in Seq(PartOf(N)), q # << >>, NEW content,
         AllEncoded(sb, q, content)
  PROVE  Tail(q) \in Seq(PartOf(N)) /\ AllEncoded(sb, Tail(q), content)
<1>1. /\ Tail(q) \in Seq(PartOf(N)) /\ Len(Tail(q)) = Len(q) - 1 /\ Len(q) \in Nat
      /\ \A i \in 1 .. Len(q) - 1 : Tail(q)[i] = q[i + 1]
  BY HeadTailProperties
<1>2. \A i \in 1 .. Len(q) - 1 : i + 1 \in 1 .. Len(q)
  BY <1>1
<1>3. QED
  BY <1>1, <1>2 DEF AllEncoded

(* A step of the client that changes neither what was encoded nor what is  *)
(* pending.                                                                *)
LEMMA SameWireKeeps ==
  ASSUME NEW r, ClientSound(r), NEW r2, r2 \in ClientRecord, Good(r2.codec),
         r2.buffer = r.buffer, r2.sendBuf = r.sendBuf, r2.writes = r.writes, r2.texts = r.texts,
         r2.loop \in {"connecting", "running"} => r.loop \in {"connecting", "running"}
  PROVE  ClientSound(r2) /\ \A wire : InTransit(r, wire) => InTransit(r2, wire)
BY DEF ClientSound, InTransit

LEMMA SessionInitInv == SessionInit => SessionInv
<1> SUFFICES ASSUME SessionInit PROVE SessionInv
  OBVIOUS
<1>1. Init /\ script[me] = << >> /\ status = "running" /\ out = [c \in Clients |-> << >>]
  BY DEF SessionInit, Init
<1>2. IInv /\ me \in Clients
  BY <1>1, InitIInv, ChatClientAssumption
<1>3. PICK typed \in Typed :
        client = [loop    |-> "connecting",
                  stdin   |-> "none",
                  tcp     |-> "none",
                  lines   |-> typed,
                  buffer  |-> NewBuffer(EncodeSize),
                  sendBuf |-> [i \in 1 .. ClientBuf |-> 0],
                  writes  |-> << >>,
                  codec   |-> NewBuffer(CodecSize),
                  taken   |-> 0,
                  printed |-> << >>,
                  texts   |-> << >>]
  BY DEF SessionInit, ClientInit
<1>4. typed \in Seq(Seq(Byte)) /\ 0 \in Byte
  BY ChatClientAssumption DEF Byte, BufferOpsAssumption
<1>5. /\ Good(NewBuffer(EncodeSize)) /\ Content(NewBuffer(EncodeSize)) = << >>
      /\ Good(NewBuffer(CodecSize))
  BY NewBufferGood DEF ChatServerAssumption
<1>6. NewBuffer(EncodeSize).readerIndex = 0
  BY DEF NewBuffer
<1>7. NewBuffer(EncodeSize) \in BufferType /\ NewBuffer(CodecSize) \in BufferType
  BY <1>5 DEF Good
<1>8. << >> \in Seq(Seq(Byte)) /\ << >> \in Seq(PartOf(ClientBuf)) /\ Len(<< >>) = 0 /\ 1 .. 0 = {}
  OBVIOUS
<1>9. [i \in 1 .. ClientBuf |-> 0] \in BufOf(ClientBuf)
  BY <1>4 DEF BufOf
<1>10. client \in ClientRecord
  BY <1>3, <1>4, <1>7, <1>8, <1>9 DEF ClientRecord
<1>11. Framed(<< >>) = << >> /\ Openings(<< >>, << >>) = << >>
  BY <1>8 DEF Framed, Openings
<1>12. FlattenSeq(<< >>) = << >>
  BY DEF FlattenSeq
<1>13. ClientSound(client)
  BY <1>3, <1>5, <1>6, <1>8, <1>10, <1>11, <1>12 DEF ClientSound, AllEncoded
<1>14. Cat(<< >>, << >>) = << >>
  BY DEF Cat
<1>15. InTransit(client, script[me])
  <2>1. Pending(client.sendBuf, << >>) = << >>
    BY PendingEmpty
  <2>2. QED
    BY <1>1, <1>3, <1>5, <1>11, <1>12, <1>14, <2>1 DEF InTransit
<1>16. client.taken <= Len(out[me])
  BY <1>1, <1>2, <1>3
<1>17. QED
  BY <1>2, <1>13, <1>15, <1>16 DEF SessionInv

(* The callbacks of the client.                                            *)
LEMMA ReadStdinKeeps ==
  ASSUME ClientSound(client), OnReadStdin \/ OnReadStdinNothing, NEW wire \in Seq(Byte)
  PROVE  /\ ClientSound(client') /\ client'.taken = client.taken
         /\ InTransit(client, wire) => InTransit(client', wire)
<1>1. client \in ClientRecord /\ client.loop = "running" /\ Good(client.codec)
  BY DEF ClientSound, OnReadStdin, OnReadStdinNothing, ClientIdle, ClientRunning
<1>2. PICK r \in ClientRecord, text \in Seq(Byte) :
        /\ client' = SendRawContent(r, text)
        /\ Good(r.codec) /\ r.loop = client.loop /\ r.taken = client.taken
        /\ r.buffer = client.buffer /\ r.sendBuf = client.sendBuf
        /\ r.writes = client.writes /\ r.texts = client.texts
  <2>1. CASE OnReadStdin
    <3>1. PICK junk \in Junk :
            client' = SendRawContent([client EXCEPT !.lines = Tail(client.lines)],
                                     CString(Head(client.lines) \o junk))
      BY <1>1, <2>1 DEF OnReadStdin, ClientRecord
    <3>2. client.lines \in Seq(Seq(Byte)) /\ client.lines # << >> /\ junk \in Seq(Byte)
      BY <1>1, <2>1, ChatClientAssumption DEF OnReadStdin, ClientRecord
    <3>3. Head(client.lines) \in Seq(Byte) /\ Tail(client.lines) \in Seq(Seq(Byte))
      BY <3>2, HeadTailProperties
    <3>4. CString(Head(client.lines) \o junk) \in Seq(Byte)
      BY <3>2, <3>3, ConcatProperties, CStringSeq
    <3> DEFINE r == [client EXCEPT !.lines = Tail(client.lines)]
    <3>5. /\ r \in ClientRecord /\ r.codec = client.codec /\ r.loop = client.loop
          /\ r.taken = client.taken /\ r.buffer = client.buffer /\ r.sendBuf = client.sendBuf
          /\ r.writes = client.writes /\ r.texts = client.texts
      BY <1>1, <3>3 DEF ClientRecord
    <3> DEFINE text == CString(Head(client.lines) \o junk)
    <3>6. text \in Seq(Byte) /\ client' = SendRawContent(r, text) /\ Good(r.codec)
      BY <1>1, <3>1, <3>4, <3>5
    <3> HIDE DEF r, text
    <3>7. QED
      BY <3>5, <3>6
  <2>2. CASE OnReadStdinNothing
    <3>1. PICK junk \in Junk, stdin \in {"reading", "stopped"} :
            client' = SendRawContent([client EXCEPT !.stdin = stdin], CString(junk))
      BY <2>2 DEF OnReadStdinNothing
    <3>2. junk \in Seq(Byte)
      BY ChatClientAssumption
    <3>3. CString(junk) \in Seq(Byte)
      BY <3>2, CStringSeq
    <3> DEFINE r == [client EXCEPT !.stdin = stdin]
    <3>4. /\ r \in ClientRecord /\ r.codec = client.codec /\ r.loop = client.loop
          /\ r.taken = client.taken /\ r.buffer = client.buffer /\ r.sendBuf = client.sendBuf
          /\ r.writes = client.writes /\ r.texts = client.texts
      BY <1>1 DEF ClientRecord
    <3> DEFINE text == CString(junk)
    <3>5. text \in Seq(Byte) /\ client' = SendRawContent(r, text) /\ Good(r.codec)
      BY <1>1, <3>1, <3>3, <3>4
    <3> HIDE DEF r, text
    <3>6. QED
      BY <3>4, <3>5
  <2>3. QED
    BY <2>1, <2>2
<1>3. ClientSound(r) /\ (InTransit(client, wire) => InTransit(r, wire))
  BY <1>1, <1>2, SameWireKeeps
<1>4. QED
  BY <1>1, <1>2, <1>3, SendRawContentKeeps

(* on_read_tcp with data, and the loop of onMessage(): the codec and what  *)
(* was printed change.                                                     *)
LEMMA ReadTcpKeeps ==
  ASSUME ClientSound(client), out[me] \in Seq(Byte), OnReadTcp \/ OnStringMessage
  PROVE  /\ ClientSound(client') /\ (client'.taken = client.taken \/ client'.taken <= Len(out[me]))
         /\ \A wire : InTransit(client, wire) => InTransit(client', wire)
<1>1. client \in ClientRecord /\ client.loop = "running" /\ Good(client.codec)
  BY DEF ClientSound, OnReadTcp, OnStringMessage, ClientIdle, ClientRunning
<1>2. CASE OnReadTcp
  <2>1. PICK n \in 1 .. MaxRead :
          /\ client.taken + n <= Len(out[me])
          /\ client' =
               IF AppendAsserts(client.codec, n)
               THEN [client EXCEPT
                       !.codec = append(@, SubSeq(out[me], client.taken + 1, client.taken + n)),
                       !.taken = @ + n]
               ELSE [client EXCEPT !.loop = "aborted"]
    BY <1>2 DEF OnReadTcp
  <2> DEFINE m    == client.taken + 1
             k    == client.taken + n
             data == Cells(out[me], m, k)
             more == append(client.codec, data)
  <2>2. client.taken \in Nat /\ n \in Nat /\ n # 0
    <3>1. client.taken \in Nat
      BY <1>1 DEF ClientRecord
    <3>2. QED
      BY <3>1 DEF ChatServerAssumption
  <2>3. m \in Int /\ k \in Int /\ k \in Nat /\ m >= 1 /\ k <= Len(out[me]) /\ Len(out[me]) \in Nat
        /\ m <= k /\ k - m + 1 = n
    <3>1. Len(out[me]) \in Nat
      OBVIOUS
    <3>2. k <= Len(out[me])
      BY <2>1
    <3> DEFINE a == client.taken
    <3>3. a \in Nat /\ m = a + 1 /\ k = a + n
      BY <2>2
    <3> HIDE DEF a, m, k
    <3>4. QED
      BY <2>2, <3>1, <3>2, <3>3
  <2>4. data \in Seq(Byte) /\ Len(data) = n
    <3> HIDE DEF m, k
    <3>1. Within(out[me], m, k, Byte)
      BY <2>3 DEF Within
    <3>2. data \in Seq(Byte) /\ Len(data) = IF m <= k THEN k - m + 1 ELSE 0
      BY <2>3, <3>1, CellsTyped
    <3>3. QED
      BY <2>3, <3>2
  <2>5. CASE AppendAsserts(client.codec, n)
    <3>1. client' = [client EXCEPT !.codec = more, !.taken = k]
      BY <1>1, <2>1, <2>5 DEF ClientRecord, Cells
    <3>2. Good(more)
      <4> HIDE DEF data
      <4>1. QED
        BY <1>1, <2>4, <2>5, AppendContent
    <3> HIDE DEF more, k
    <3>3. more \in BufferType
      BY <3>2 DEF Good
    <3>4. /\ client' \in ClientRecord /\ client'.codec = more /\ client'.taken = k
          /\ client'.loop = client.loop /\ client'.buffer = client.buffer
          /\ client'.sendBuf = client.sendBuf /\ client'.writes = client.writes
          /\ client'.texts = client.texts
      BY <1>1, <2>3, <3>1, <3>3 DEF ClientRecord
    <3>5. QED
      BY <1>1, <2>3, <3>2, <3>4, SameWireKeeps
  <2>6. CASE ~AppendAsserts(client.codec, n)
    <3>1. client' = [client EXCEPT !.loop = "aborted"]
      BY <2>1, <2>6
    <3>2. /\ client' \in ClientRecord /\ client'.codec = client.codec /\ client'.taken = client.taken
          /\ client'.loop = "aborted" /\ client'.buffer = client.buffer
          /\ client'.sendBuf = client.sendBuf /\ client'.writes = client.writes
          /\ client'.texts = client.texts
      BY <1>1, <3>1 DEF ClientRecord
    <3>3. QED
      BY <1>1, <3>2, SameWireKeeps
  <2>7. QED
    BY <2>5, <2>6
<1>3. CASE OnStringMessage
  <2>1. /\ CanDecode(client.codec)
        /\ client' = [client EXCEPT !.codec = Decode(client.codec),
                                    !.printed = Append(client.printed, Message(client.codec))]
    BY <1>1, <1>3 DEF OnStringMessage, ClientRecord
  <2> DEFINE rest  == Decode(client.codec)
             lines == Append(client.printed, Message(client.codec))
  <2>2. Good(rest) /\ Message(client.codec) \in Seq(Byte)
    BY <1>1, <2>1, DecodeContent, FrameAtFront
  <2>3. rest \in BufferType
    BY <2>2 DEF Good
  <2>4. lines \in Seq(Seq(Byte))
    BY <1>1, <2>2, AppendProperties DEF ClientRecord
  <2>5. client' = [client EXCEPT !.codec = rest, !.printed = lines]
    BY <2>1
  <2> HIDE DEF rest, lines
  <2>6. /\ client' \in ClientRecord /\ client'.codec = rest /\ client'.taken = client.taken
        /\ client'.loop = client.loop /\ client'.buffer = client.buffer
        /\ client'.sendBuf = client.sendBuf /\ client'.writes = client.writes
        /\ client'.texts = client.texts
    BY <1>1, <2>3, <2>4, <2>5 DEF ClientRecord
  <2>7. QED
    BY <1>1, <2>2, <2>6, SameWireKeeps
<1>4. QED
  BY <1>2, <1>3

(* The callbacks that change how the client goes on, and nothing else.     *)
LEMMA ControlStepKeeps ==
  ASSUME ClientSound(client),
         OnConnected \/ OnConnectError \/ OnStdinEof \/ OnTcpEof \/ OnTcpError \/ LoopEnds
  PROVE  /\ ClientSound(client') /\ client'.taken = client.taken
         /\ \A wire : InTransit(client, wire) => InTransit(client', wire)
<1>1. client \in ClientRecord /\ Good(client.codec)
  BY DEF ClientSound
<1>2. /\ client' \in ClientRecord /\ client'.codec = client.codec /\ client'.taken = client.taken
      /\ client'.buffer = client.buffer /\ client'.sendBuf = client.sendBuf
      /\ client'.writes = client.writes /\ client'.texts = client.texts
      /\ client'.loop \in {"connecting", "running"} => client.loop \in {"connecting", "running"}
  <2>1. CASE OnConnected
    <3>1. PICK r \in { [client EXCEPT !.loop = "running", !.stdin = "reading", !.tcp = "reading"],
                       [client EXCEPT !.loop = "exited"] } : client' = r
      BY <2>1 DEF OnConnected
    <3>2. client.loop = "connecting"
      BY <2>1 DEF OnConnected
    <3>3. CASE r = [client EXCEPT !.loop = "running", !.stdin = "reading", !.tcp = "reading"]
      BY <1>1, <3>1, <3>2, <3>3 DEF ClientRecord
    <3>4. CASE r = [client EXCEPT !.loop = "exited"]
      BY <1>1, <3>1, <3>4 DEF ClientRecord
    <3>5. QED
      BY <3>1, <3>3, <3>4
  <2>2. CASE OnConnectError
    BY <1>1, <2>2 DEF OnConnectError, ClientRecord
  <2>3. CASE OnStdinEof
    BY <1>1, <2>3 DEF OnStdinEof, ClientRecord
  <2>4. CASE OnTcpEof
    BY <1>1, <2>4 DEF OnTcpEof, ClientRecord
  <2>5. CASE OnTcpError
    BY <1>1, <2>5 DEF OnTcpError, ClientRecord
  <2>6. CASE LoopEnds
    BY <1>1, <2>6 DEF LoopEnds, ClientRecord
  <2>7. QED
    BY <2>1, <2>2, <2>3, <2>4, <2>5, <2>6
<1>3. QED
  BY <1>1, <1>2, SameWireKeeps

LEMMA WriteEndKeeps ==
  ASSUME ClientSound(client), OnWriteEnd
  PROVE  ClientSound(client') /\ client'.taken = client.taken /\ ~Running
<1>1. /\ client \in ClientRecord /\ client.writes # << >>
      /\ client' = [client EXCEPT !.writes = Tail(client.writes)]
      /\ ~Running
  BY DEF ClientSound, OnWriteEnd, ClientRecord
<1> DEFINE rest == Tail(client.writes)
<1>2. /\ client.writes \in Seq(PartOf(ClientBuf)) /\ ClientBuf \in Nat
      /\ AllEncoded(client.sendBuf, client.writes, Content(client.buffer))
  BY <1>1, ChatClientAssumption DEF ClientRecord, ClientSound
<1>3. rest \in Seq(PartOf(ClientBuf)) /\ AllEncoded(client.sendBuf, rest, Content(client.buffer))
  BY <1>1, <1>2, TailKeeps
<1>4. client' = [client EXCEPT !.writes = rest]
  BY <1>1
<1> HIDE DEF rest
<1>5. /\ client' \in ClientRecord /\ client'.codec = client.codec /\ client'.taken = client.taken
      /\ client'.buffer = client.buffer /\ client'.sendBuf = client.sendBuf
      /\ client'.writes = rest /\ client'.texts = client.texts
  BY <1>1, <1>3, <1>4 DEF ClientRecord
<1>6. QED
  BY <1>1, <1>3, <1>5 DEF ClientSound

LEMMA LocalStepKeeps ==
  ASSUME SessionInv, LocalStep, UNCHANGED vars
  PROVE  SessionInv'
<1> DEFINE wire == script[me]
<1>1. ClientSound(client) /\ client.taken <= Len(out[me]) /\ (Running => InTransit(client, wire)) /\ IInv
  BY DEF SessionInv
<1>2. me \in Clients /\ out[me] \in Seq(Byte) /\ wire \in Seq(Byte)
  BY <1>1, ChatClientAssumption DEF IInv, TypeOK
<1>3. IInv' /\ UNCHANGED <<out, script, status>>
  BY <1>1, StepKeeps DEF vars, server
<1>4. /\ ClientSound(client') /\ (client'.taken = client.taken \/ client'.taken <= Len(out[me]))
      /\ Running => (InTransit(client, wire) => InTransit(client', wire))
  <2> HIDE DEF wire
  <2>1. CASE OnReadStdin \/ OnReadStdinNothing
    BY <1>1, <1>2, <2>1, ReadStdinKeeps
  <2>2. CASE OnReadTcp \/ OnStringMessage
    BY <1>1, <1>2, <2>2, ReadTcpKeeps
  <2>3. CASE OnConnected \/ OnConnectError \/ OnStdinEof \/ OnTcpEof \/ OnTcpError \/ LoopEnds
    BY <1>1, <2>3, ControlStepKeeps
  <2>4. CASE OnWriteEnd
    BY <1>1, <2>4, WriteEndKeeps
  <2>5. QED
    BY <2>1, <2>2, <2>3, <2>4 DEF LocalStep
<1>5. client'.taken <= Len(out'[me])
  BY <1>1, <1>3, <1>4
<1>6. Running' => InTransit(client', script'[me])
  BY <1>1, <1>3, <1>4 DEF Running
<1>7. QED
  BY <1>3, <1>4, <1>5, <1>6 DEF SessionInv

(* What the socket takes from sendBuf is what the server's peer has sent.  *)
LEMMA FlushToServerKeeps ==
  ASSUME SessionInv, FlushStep
  PROVE  /\ SessionInv'
         /\ \E bytes \in Seq(Byte) : /\ outbox' = [outbox EXCEPT ![me] = Cat(outbox[me], bytes)]
                                     /\ script' = [script EXCEPT ![me] = Cat(script[me], bytes)]
<1>1. PICK n \in 1 .. ClientBuf : FlushToServer(n)
  BY DEF FlushStep
<1> DEFINE wire == script[me]
           sb == client.sendBuf
           q  == client.writes
           w  == Head(q)
           q2 == Flushed(q, n)
           bytes == Cells(sb, w.first, w.first + n - 1)
           content == Content(client.buffer)
           more == Cat(wire, bytes)
<1>2. ClientSound(client) /\ client.taken <= Len(out[me]) /\ (Running => InTransit(client, wire)) /\ IInv
  BY DEF SessionInv
<1>3. me \in Clients /\ wire \in Seq(Byte) /\ outbox[me] \in Seq(Byte)
  BY <1>2, ChatClientAssumption DEF IInv, TypeOK
<1>4. /\ client \in ClientRecord /\ client.loop = "running" /\ Running
      /\ sb \in BufOf(ClientBuf) /\ q \in Seq(PartOf(ClientBuf)) /\ q # << >> /\ ClientBuf \in Nat
      /\ AllEncoded(sb, q, content) /\ Good(client.buffer)
  BY <1>1, <1>2, ChatClientAssumption
     DEF ClientSound, ClientRecord, FlushToServer, ClientIdle, ClientRunning
<1>5. Cat(wire, Pending(sb, q)) = FlattenSeq(Openings(client.texts, content))
  BY <1>2, <1>4 DEF InTransit
<1>6. n \in 1 .. w.last - w.first + 1
  BY <1>1 DEF FlushToServer
<1>7. client' = [client EXCEPT !.writes = q2]
  BY <1>1, <1>4, Zenon DEF FlushToServer, Flushed
<1>8. /\ outbox' = [outbox EXCEPT ![me] = Cat(outbox[me], bytes)]
      /\ script' = [script EXCEPT ![me] = more]
      /\ UNCHANGED <<status, handle, conns, cbuf, buf, sendBuf, wq, out, sent, messages, reader, mixed>>
  <2>1. /\ outbox' = [outbox EXCEPT ![me] = @ \o SubSeq(sb, w.first, w.first + n - 1)]
        /\ script' = [script EXCEPT ![me] = @ \o SubSeq(sb, w.first, w.first + n - 1)]
    BY <1>1, Zenon DEF FlushToServer
  <2>2. outbox \in [Clients -> Seq(Byte)] /\ script \in [Clients -> Seq(Byte)]
    BY <1>2 DEF IInv, TypeOK
  <2>3. QED
    BY <1>3, <2>1, <2>2 DEF FlushStep, server, Cat, Cells
<1>9. Len(content) \in Nat
  BY <1>4, ContentSeq
<1>10. /\ q2 \in Seq(PartOf(ClientBuf)) /\ bytes \in Seq(Byte)
       /\ AllEncoded(sb, q2, content)
       /\ Cat(more, Pending(sb, q2)) = Cat(wire, Pending(sb, q))
  <2>1. w = Head(q) /\ q2 = Flushed(q, n) /\ bytes = Cells(sb, w.first, w.first + n - 1)
    OBVIOUS
  <2> HIDE DEF sb, q, content, w, q2, bytes, wire
  <2>2. QED
    BY <1>3, <1>4, <1>6, <1>9, <2>1, FlushKeeps
<1>11. more \in Seq(Byte) /\ Cat(outbox[me], bytes) \in Seq(Byte)
  <2> HIDE DEF bytes, wire
  <2>1. QED
    BY <1>3, <1>10, CatAssociative
<1> HIDE DEF q2, bytes, sb, q, w, more
<1>12. /\ client' \in ClientRecord /\ client'.codec = client.codec /\ client'.taken = client.taken
       /\ client'.buffer = client.buffer /\ client'.sendBuf = sb /\ client'.loop = client.loop
       /\ client'.writes = q2 /\ client'.texts = client.texts
  BY <1>4, <1>7, <1>10 DEF ClientRecord, sb
<1>13. ClientSound(client')
  BY <1>2, <1>10, <1>12 DEF ClientSound, content
<1>14. InTransit(client', more)
  BY <1>5, <1>10, <1>12 DEF InTransit, content
<1>15. IInv'
  <2>1. TypeOK'
    BY <1>2, <1>8, <1>11 DEF IInv, TypeOK
  <2>2. Good(cbuf)' /\ NeverRetrieved' /\ ConnsMatchHandles'
    BY <1>2, <1>8 DEF IInv, NeverRetrieved, ConnsMatchHandles, Running
  <2>3. \A c \in Clients : Accounted(c)'
    BY <1>2, <1>8 DEF IInv, Accounted
  <2>4. QED
    BY <2>1, <2>2, <2>3 DEF IInv
<1>16. script'[me] = more
  BY <1>2, <1>3, <1>8 DEF IInv, TypeOK
<1>17. client'.taken <= Len(out'[me])
  BY <1>2, <1>8, <1>12
<1>18. SessionInv'
  BY <1>13, <1>14, <1>15, <1>16, <1>17 DEF SessionInv
<1>19. QED
  BY <1>8, <1>10, <1>18 DEF more

(* The server does not know that one of its peers is a chat_client.        *)
LEMMA ServerStepKeeps ==
  ASSUME SessionInv, ServerStep, UNCHANGED client
  PROVE  SessionInv'
<1>1. IInv /\ client.taken <= Len(out[me]) /\ ClientSound(client) /\ me \in Clients
  BY ChatClientAssumption DEF SessionInv
<1>2. Next
  BY DEF ServerStep, Next
<1>3. IInv' /\ Grows(me)
  BY <1>1, <1>2, StepKeeps DEF OutGrows
<1>4. /\ Len(out[me]) \in Nat /\ Len(out'[me]) \in Nat /\ client.taken \in Nat
      /\ Len(out[me]) <= Len(out'[me])
  <2>1. out[me] \in Seq(Byte) /\ out'[me] \in Seq(Byte)
    BY <1>1, <1>3 DEF IInv, TypeOK
  <2>2. client.taken \in Nat
    BY <1>1 DEF ClientSound, ClientRecord
  <2>3. Len(out[me]) <= Len(out'[me])
    BY <1>3, <2>1, CatLonger DEF Grows
  <2>4. QED
    BY <2>1, <2>2, <2>3
<1>5. Running /\ UNCHANGED script
  BY <1>1, <1>2 DEF Next, OnConnection, OnRead, OnReadEof, OnReadError, Broadcast, Flush, Idle, Running
<1>6. client'.taken <= Len(out'[me])
  BY <1>1, <1>3, <1>4
<1>7. QED
  BY <1>1, <1>3, <1>5, <1>6 DEF SessionInv

LEMMA SessionStepKeeps == SessionInv /\ [SessionNext]_sessionVars => SessionInv'
<1> SUFFICES ASSUME SessionInv, [SessionNext]_sessionVars PROVE SessionInv'
  OBVIOUS
<1>1. CASE LocalStep /\ UNCHANGED vars
  BY <1>1, LocalStepKeeps
<1>2. CASE FlushStep
  BY <1>2, FlushToServerKeeps
<1>3. CASE ServerStep /\ UNCHANGED client
  BY <1>3, ServerStepKeeps
<1>4. CASE UNCHANGED sessionVars
  <2>1. UNCHANGED client /\ UNCHANGED <<out, script, status>> /\ UNCHANGED vars
    BY <1>4 DEF sessionVars, vars, server
  <2>2. IInv'
    BY <2>1, StepKeeps DEF SessionInv
  <2>3. QED
    BY <2>1, <2>2 DEF SessionInv, Running
<1>5. QED
  BY <1>1, <1>2, <1>3, <1>4 DEF SessionNext

(* The invariant holds in every state of a session, whatever is typed and  *)
(* however the two loops interleave.                                       *)
THEOREM SessionInvariant == FairSession => []SessionInv
<1>1. QED
  BY SessionInitInv, SessionStepKeeps, PTL DEF FairSession, SessionSpec

(* Every variable of the client and of the server it talks to keeps its    *)
(* type: a pending write is a part of sendBuf, and the client never reads  *)
(* more than the server has sent.                                          *)
THEOREM SessionTypeOK == FairSession => []ClientTypeOK
<1>1. SessionInv => ClientTypeOK
  <2> SUFFICES ASSUME SessionInv PROVE ClientTypeOK
    OBVIOUS
  <2>1. TypeOK /\ client \in ClientRecord /\ client.taken <= Len(out[me])
    BY DEF SessionInv, IInv, ClientSound
  <2>2. Len(out[me]) \in Nat
    BY <2>1, ChatClientAssumption DEF TypeOK
  <2>3. client.taken \in 0 .. Len(out[me])
    BY <2>1, <2>2 DEF ClientRecord
  <2>4. QED
    BY <2>1, <2>3 DEF ClientTypeOK, ClientRecord, BufOf
<1>2. QED
  BY <1>1, SessionInvariant, PTL

(* The client copies each line over the one sendBuf from which earlier     *)
(* lines are still pending, and no byte on the wire is torn: what is there *)
(* and what is pending is, for each call of sendRawContent(), a prefix of  *)
(* all that was ever encoded.                                              *)
THEOREM ClientWireIntact == FairSession => []WireIntact
<1>1. SessionInv => WireIntact
  <2> DEFINE texts   == client.texts
             history == FlattenSeq([i \in DOMAIN texts |-> htonl(Len(texts[i])) \o texts[i]])
             pending == FlattenSeq([i \in DOMAIN client.writes |->
                          SubSeq(client.sendBuf, client.writes[i].first, client.writes[i].last)])
             asked   == FlattenSeq([i \in DOMAIN texts |->
                          SubSeq(history, 1, HeaderLen + Len(texts[i]))])
  <2> SUFFICES ASSUME SessionInv, Running, ~ClientGone
               PROVE  script[me] \o pending = asked
    BY DEF WireIntact, Requested
  <2>1. client.loop \in {"connecting", "running"} /\ client \in ClientRecord
    BY DEF ClientGone, SessionInv, ClientSound
  <2>2. DOMAIN texts = 1 .. Len(texts) /\ DOMAIN client.writes = 1 .. Len(client.writes)
    BY <2>1, SeqIsFun DEF ClientRecord
  <2>3. history = FlattenSeq(Framed(texts))
    BY <2>2, Zenon DEF Framed, Frame, Cat
  <2>4. history = Content(client.buffer)
    BY <2>3 DEF SessionInv, ClientSound
  <2>5. pending = Pending(client.sendBuf, client.writes)
    BY <2>2, Zenon DEF Pending, Pieces, Piece
  <2> HIDE DEF history, pending
  <2>6. asked = FlattenSeq(Openings(texts, history))
    BY <2>2, Zenon DEF Openings, Opening, Cells
  <2>7. Cat(script[me], Pending(client.sendBuf, client.writes))
          = FlattenSeq(Openings(texts, Content(client.buffer)))
    BY <2>1 DEF SessionInv, InTransit
  <2> HIDE DEF asked, texts
  <2>8. Cat(script[me], pending) = asked
    BY <2>4, <2>5, <2>6, <2>7
  <2>9. QED
    BY <2>8, Zenon DEF Cat
<1>2. QED
  BY <1>1, SessionInvariant, PTL

-----------------------------------------------------------------------------
(* One line over and over: s is an opening of u u u ..., or whole copies   *)
(* of it, which is when u may as well be put in front.                     *)

Repeats(s, u) == \A i \in 1 .. Len(s) : s[i] = IF i <= Len(u) THEN u[i] ELSE s[i - Len(u)]

Whole(s, u) == Cat(s, u) = Cat(u, s)

LEMMA WholeMore ==
  ASSUME NEW S, NEW s \in Seq(S), NEW u \in Seq(S), Whole(s, u)
  PROVE  Cat(s, u) \in Seq(S) /\ Whole(Cat(s, u), u)
<1>1. Cat(Cat(u, s), u) = Cat(u, Cat(s, u)) /\ Cat(s, u) \in Seq(S)
  BY CatAssociative
<1>2. QED
  BY <1>1 DEF Whole

LEMMA WholeRepeats ==
  ASSUME NEW S, NEW s \in Seq(S), NEW u \in Seq(S), Whole(s, u)
  PROVE  Repeats(s, u)
<1> DEFINE x == Cat(s, u)
           y == Cat(u, s)
           n == Len(s)
           k == Len(u)
<1>1. n \in Nat /\ k \in Nat /\ x = y
  BY DEF Whole
<1>2. \A i \in 1 .. n + k : x[i] = IF i <= n THEN s[i] ELSE u[i - n]
  BY CatSeq
<1>3. \A i \in 1 .. k + n : y[i] = IF i <= k THEN u[i] ELSE s[i - k]
  BY CatSeq
<1> HIDE DEF x, y, n, k
<1>4. ASSUME NEW i \in 1 .. n
      PROVE  s[i] = IF i <= k THEN u[i] ELSE s[i - k]
  <2>1. i \in 1 .. n + k /\ i \in 1 .. k + n /\ i <= n
    BY <1>1
  <2>2. x[i] = s[i]
    BY <1>2, <2>1
  <2>3. y[i] = IF i <= k THEN u[i] ELSE s[i - k]
    BY <1>3, <2>1
  <2>4. QED
    BY <1>1, <2>2, <2>3
<1>5. QED
  BY <1>4 DEF Repeats, n, k

LEMMA WholeOpens ==
  ASSUME NEW S, NEW s \in Seq(S), NEW u \in Seq(S), Whole(s, u)
  PROVE  Cells(Cat(s, u), 1, Len(u)) = u
BY CatPrefix DEF Whole, Cells

LEMMA RepeatsOpening ==
  ASSUME NEW S, NEW x \in Seq(S), NEW y \in Seq(S), NEW u \in Seq(S), Repeats(Cat(x, y), u)
  PROVE  Repeats(x, u)
<1> DEFINE s == Cat(x, y)
           n == Len(x)
           m == Len(y)
           k == Len(u)
<1>1. n \in Nat /\ m \in Nat /\ k \in Nat
  OBVIOUS
<1>2. Len(s) = n + m /\ \A i \in 1 .. n + m : s[i] = IF i <= n THEN x[i] ELSE y[i - n]
  BY CatSeq
<1>3. \A i \in 1 .. Len(s) : s[i] = IF i <= k THEN u[i] ELSE s[i - k]
  BY DEF Repeats
<1> HIDE DEF s, n, m, k
<1>4. ASSUME NEW i \in 1 .. n
      PROVE  x[i] = IF i <= k THEN u[i] ELSE x[i - k]
  <2>1. i \in 1 .. n + m /\ i \in 1 .. Len(s) /\ s[i] = x[i]
    BY <1>1, <1>2
  <2>2. CASE i <= k
    BY <1>3, <2>1, <2>2
  <2>3. CASE ~(i <= k)
    <3> DEFINE j == i - k
    <3>1. j \in 1 .. n + m /\ j <= n
      BY <1>1, <2>3
    <3> HIDE DEF j
    <3>2. s[j] = x[j]
      BY <1>2, <3>1
    <3>3. s[i] = s[j]
      BY <1>3, <2>1, <2>3 DEF j
    <3>4. QED
      BY <2>1, <2>3, <3>2, <3>3 DEF j
  <2>4. QED
    BY <2>2, <2>3
<1>5. QED
  BY <1>4 DEF Repeats, n, k

LEMMA FlattenWhole ==
  ASSUME NEW S, NEW u \in Seq(S), NEW seqs \in Seq(Seq(S)), \A i \in 1 .. Len(seqs) : seqs[i] = u
  PROVE  FlattenSeq(seqs) \in Seq(S) /\ Whole(FlattenSeq(seqs), u)
<1> DEFINE n == Len(seqs)
<1>1. n \in Nat
  OBVIOUS
<1>2. PICK g \in [0 .. n -> Seq(S)] : Joins(g, seqs) /\ FlattenSeq(seqs) = g[n]
  BY FlattenJoins
<1>3. g[0] = << >> /\ \A i \in 1 .. n : g[i] = Cat(g[i - 1], u)
  BY <1>2 DEF Joins
<1> HIDE DEF n
<1> DEFINE T == {k \in Nat : k <= n => Whole(g[k], u)}
<1>4. 0 \in T
  <2>1. Cat(<< >>, u) = u /\ Cat(u, << >>) = u
    BY ConcatEmptySeq DEF Cat
  <2>2. QED
    BY <1>3, <2>1 DEF Whole
<1>5. ASSUME NEW k \in Nat, k \in T
      PROVE  k + 1 \in T
  <2>1. SUFFICES ASSUME k + 1 <= n PROVE Whole(g[k + 1], u)
    OBVIOUS
  <2>2. k \in 0 .. n /\ k + 1 \in 1 .. n /\ (k + 1) - 1 = k /\ Whole(g[k], u)
    BY <1>1, <1>5, <2>1
  <2> DEFINE x == g[k]
  <2>3. x \in Seq(S) /\ Whole(x, u) /\ g[k + 1] = Cat(x, u)
    BY <1>2, <1>3, <2>2
  <2> HIDE DEF x
  <2>4. Whole(Cat(x, u), u)
    BY <2>3, WholeMore
  <2>5. QED
    BY <2>3, <2>4
<1>6. \A k \in Nat : k \in T
  <2> HIDE DEF T
  <2> QED BY <1>4, <1>5, SetInduction
<1>7. n \in 0 .. n
  BY <1>1
<1>8. QED
  BY <1>1, <1>2, <1>6, <1>7

(* A line as it leaves c_str(): no NUL, and a length that a header holds.  *)
Line(t) == NoNul(t) /\ Len(t) < Width

-----------------------------------------------------------------------------
(* The frames of one line over and over.                                   *)

AllAre(got, t) == \A i \in 1 .. Len(got) : got[i] = t

(* What is at p is what is at the front. *)
Aligned(s, p) == \A i \in 0 .. Len(s) - p : s[p + i] = s[1 + i]

LEMMA FrameParts ==
  ASSUME NEW t \in Seq(Byte), Line(t)
  PROVE  /\ Len(t) \in Nat /\ HeaderLen \in Nat \ {0}
         /\ Frame(t) \in Seq(Byte) /\ Len(Frame(t)) = HeaderLen + Len(t)
         /\ htonl(Len(t)) \in Seq(Byte) /\ Len(htonl(Len(t))) = HeaderLen
         /\ ntohl(htonl(Len(t))) = Len(t)
         /\ \A i \in 1 .. HeaderLen : Frame(t)[i] = htonl(Len(t))[i]
         /\ \A i \in 1 .. Len(t) : Frame(t)[HeaderLen + i] = t[i]
<1> DEFINE h == htonl(Len(t))
           n == Len(t)
<1>1. n \in Nat /\ n < Width /\ HeaderLen \in Nat \ {0}
  BY DEF Line
<1>2. h \in Seq(Byte) /\ Len(h) = HeaderLen /\ ntohl(h) = n
  BY <1>1, HtonlSeq, NtohlHtonl
<1>3. /\ Cat(h, t) \in Seq(Byte) /\ Len(Cat(h, t)) = Len(h) + Len(t)
      /\ \A i \in 1 .. Len(h) + Len(t) : Cat(h, t)[i] = IF i <= Len(h) THEN h[i] ELSE t[i - Len(h)]
  <2> HIDE DEF h
  <2>1. QED
    BY <1>2, CatSeq
<1> DEFINE f == Cat(h, t)
<1>4. f = Frame(t)
  BY DEF Frame
<1> HIDE DEF f, h, n
<1>5. ASSUME NEW i \in 1 .. HeaderLen
      PROVE  f[i] = h[i]
  <2>1. i \in 1 .. Len(h) + Len(t) /\ i <= Len(h)
    BY <1>1, <1>2 DEF n
  <2>2. QED
    BY <1>3, <2>1 DEF f
<1>6. ASSUME NEW i \in 1 .. n
      PROVE  f[HeaderLen + i] = t[i]
  <2> DEFINE j == HeaderLen + i
  <2>1. j \in 1 .. Len(h) + Len(t) /\ ~(j <= Len(h)) /\ j - Len(h) = i
    BY <1>1, <1>2 DEF n
  <2> HIDE DEF j
  <2>2. f[j] = t[j - Len(h)]
    BY <1>3, <2>1 DEF f
  <2>3. QED
    BY <2>1, <2>2 DEF j
<1>7. QED
  BY <1>1, <1>2, <1>3, <1>4, <1>5, <1>6 DEF f, h, n

LEMMA RepeatedFrame ==
  ASSUME NEW s \in Seq(Byte), NEW t \in Seq(Byte), Line(t), Repeats(s, Frame(t)),
         NEW p \in 1 .. Len(s) + 1, Aligned(s, p), Cut(s, p)
  PROVE  /\ TextAt(s, p) = t
         /\ NextAt(s, p) \in p + 1 .. Len(s) + 1
         /\ Aligned(s, NextAt(s, p))
<1> DEFINE h == HeaderLen
           n == Len(t)
           l == Len(s)
           f == Frame(t)
           k == h + n
           e == p + h - 1
           head == Cells(s, p, e)
<1>1. /\ n \in Nat /\ h \in Nat \ {0} /\ l \in Nat /\ k \in Nat
      /\ f \in Seq(Byte) /\ Len(f) = k
      /\ htonl(n) \in Seq(Byte) /\ Len(htonl(n)) = h /\ ntohl(htonl(n)) = n
      /\ \A i \in 1 .. h : f[i] = htonl(n)[i]
      /\ \A i \in 1 .. n : f[h + i] = t[i]
  BY FrameParts
<1>2. \A i \in 1 .. l : s[i] = IF i <= k THEN f[i] ELSE s[i - k]
  BY <1>1 DEF Repeats
<1>3. \A i \in 0 .. l - p : s[p + i] = s[1 + i]
  BY DEF Aligned
<1>4. e <= l
  BY <1>1 DEF Cut
<1> HIDE DEF h, n, l, f, k
<1>5. p \in Int /\ e \in Int /\ Within(s, p, e, Byte) /\ p <= e /\ e - p + 1 = h
  BY <1>1, <1>4 DEF Within, l
<1> HIDE DEF e
<1>6. /\ head \in Seq(Byte) /\ Len(head) = h
      /\ \A i \in 1 .. h : head[i] = s[p + i - 1]
  BY <1>5, CellsTyped
<1>7. ASSUME NEW i \in 1 .. h
      PROVE  head[i] = htonl(n)[i]
  <2> DEFINE j == i - 1
  <2>1. j \in 0 .. l - p /\ p + i - 1 = p + j /\ 1 + j = i /\ i \in 1 .. l /\ i <= k
    BY <1>1, <1>4 DEF e, l, k
  <2> HIDE DEF j, head
  <2>2. head[i] = s[p + j]
    BY <1>6, <2>1
  <2>3. s[p + j] = s[i]
    BY <1>3, <2>1
  <2>4. s[i] = f[i]
    BY <1>2, <2>1
  <2>5. QED
    BY <1>1, <2>2, <2>3, <2>4
<1> HIDE DEF head
<1>8. head = htonl(n)
  BY <1>1, <1>6, <1>7, SeqEqual
<1>9. HeaderAt(s, p) = n
  BY <1>1, <1>8 DEF HeaderAt, head, e, h
<1> DEFINE a == p + h
           z == p + k - 1
<1>10. NextAt(s, p) = p + k /\ p + k <= l + 1 /\ NextAt(s, p) - 1 = z
  BY <1>1, <1>9 DEF NextAt, Cut, h, k, l
<1>11. a \in Int /\ z \in Int /\ Within(s, a, z, Byte)
       /\ (IF a <= z THEN z - a + 1 ELSE 0) = n /\ z - a + 1 = n
  BY <1>1, <1>10 DEF Within, l, k
<1> DEFINE text == Cells(s, a, z)
<1> HIDE DEF a, z
<1>12. /\ text \in Seq(Byte) /\ Len(text) = n
       /\ \A i \in 1 .. n : text[i] = s[a + i - 1]
  <2>1. /\ text \in Seq(Byte) /\ Len(text) = (IF a <= z THEN z - a + 1 ELSE 0)
        /\ \A i \in 1 .. z - a + 1 : text[i] = s[a + i - 1]
    BY <1>11, CellsTyped
  <2> HIDE DEF text
  <2>2. QED
    BY <1>11, <2>1
<1> HIDE DEF text
<1>13. ASSUME NEW i \in 1 .. n
       PROVE  text[i] = t[i]
  <2> DEFINE j == h + i - 1
             m == h + i
  <2>1. j \in 0 .. l - p /\ a + i - 1 = p + j /\ 1 + j = m /\ m \in 1 .. l /\ m <= k
    BY <1>1, <1>10 DEF a, k
  <2> HIDE DEF j
  <2>2. text[i] = s[p + j]
    BY <1>12, <2>1
  <2>3. s[p + j] = s[m]
    <3> HIDE DEF m
    <3> QED BY <1>3, <2>1
  <2>4. s[m] = f[m]
    <3> HIDE DEF m
    <3> QED BY <1>2, <2>1
  <2>5. f[m] = t[i]
    BY <1>1
  <2>6. QED
    BY <2>2, <2>3, <2>4, <2>5
<1>14. text = t
  BY <1>12, <1>13, SeqEqual DEF n
<1>15. TextAt(s, p) = t
  BY <1>10, <1>14 DEF TextAt, text, a, h
<1>16. ASSUME NEW i \in 0 .. l - (p + k)
       PROVE  s[(p + k) + i] = s[1 + i]
  <2> DEFINE j == k + i
             m == 1 + j
  <2>1. j \in 0 .. l - p /\ (p + k) + i = p + j
    BY <1>1
  <2>2. m \in 1 .. l /\ ~(m <= k) /\ m - k = 1 + i
    BY <1>1
  <2> HIDE DEF j
  <2>3. s[p + j] = s[m]
    BY <1>3, <2>1
  <2> HIDE DEF m
  <2>4. s[m] = s[m - k]
    BY <1>2, <2>2
  <2>5. QED
    BY <2>1, <2>2, <2>3, <2>4
<1>17. Aligned(s, NextAt(s, p))
  BY <1>10, <1>16 DEF Aligned, l
<1>18. QED
  BY <1>15, <1>17, CutRange

LEMMA AllAreMore ==
  ASSUME NEW S, NEW got \in Seq(S), NEW more \in Seq(S), NEW t
  PROVE  AllAre(Cat(got, more), t) <=> AllAre(got, t) /\ AllAre(more, t)
<1> DEFINE r == Cat(got, more)
           n == Len(got)
           m == Len(more)
<1>1. n \in Nat /\ m \in Nat /\ Len(r) = n + m
      /\ \A i \in 1 .. n + m : r[i] = IF i <= n THEN got[i] ELSE more[i - n]
  <2>1. n \in Nat /\ m \in Nat
    OBVIOUS
  <2>2. /\ Len(r) = Len(got) + Len(more)
        /\ \A i \in 1 .. Len(got) + Len(more) :
             r[i] = IF i <= Len(got) THEN got[i] ELSE more[i - Len(got)]
    BY CatSeq
  <2>3. QED
    BY <2>1, <2>2
<1> HIDE DEF r, n, m
<1>2. ASSUME AllAre(r, t)
      PROVE  AllAre(got, t) /\ AllAre(more, t)
  <2>1. \A i \in 1 .. n : i \in 1 .. n + m /\ i <= n
    BY <1>1
  <2>2. AllAre(got, t)
    BY <1>1, <1>2, <2>1 DEF AllAre, n
  <2>3. ASSUME NEW i \in 1 .. m
        PROVE  more[i] = t
    <3> DEFINE j == n + i
    <3>1. j \in 1 .. n + m /\ ~(j <= n) /\ j - n = i
      BY <1>1
    <3> HIDE DEF j
    <3>2. QED
      BY <1>1, <1>2, <3>1 DEF AllAre
  <2>4. QED
    BY <2>2, <2>3 DEF AllAre, m
<1>3. ASSUME AllAre(got, t), AllAre(more, t)
      PROVE  AllAre(r, t)
  <2>1. ASSUME NEW i \in 1 .. n + m
        PROVE  r[i] = t
    <3>1. i <= n => i \in 1 .. n
      BY <1>1
    <3>2. ~(i <= n) => i - n \in 1 .. m
      BY <1>1
    <3>3. QED
      BY <1>1, <1>3, <3>1, <3>2 DEF AllAre, n, m
  <2>2. QED
    BY <1>1, <2>1 DEF AllAre
<1>4. QED
  BY <1>2, <1>3 DEF r

(* However far the repeated line goes, what FramesOf cuts out of it from a *)
(* place where a frame begins is that line, each time.                     *)
LEMMA RepeatedFrames ==
  ASSUME NEW s \in Seq(Byte), NEW t \in Seq(Byte), Line(t), Repeats(s, Frame(t))
  PROVE  AllAre(FramesAt(s)[1], t)
<1> DEFINE l == Len(s) + 1
           Far(k) == \A p \in 1 .. l : l - p <= k /\ Aligned(s, p) => AllAre(FramesAt(s)[p], t)
           T == {k \in Nat : Far(k)}
<1>1. l \in Nat /\ 1 \in 1 .. l
  OBVIOUS
<1>2. ASSUME NEW p \in 1 .. l
      PROVE  FramesAt(s)[p] = FrameThen(s, FramesAt(s), p)
  BY FramesValue
<1>3. AllAre(<< >>, t) /\ AllAre(<<t>>, t)
  BY DEF AllAre
<1>4. ASSUME NEW p \in 1 .. l, Aligned(s, p), ~Cut(s, p)
      PROVE  AllAre(FramesAt(s)[p], t)
  <2>1. FramesAt(s)[p] = << >>
    BY <1>2, <1>4, Zenon DEF FrameThen
  <2>2. QED
    BY <1>3, <2>1
<1>5. ASSUME NEW p \in 1 .. l, Aligned(s, p), Cut(s, p), AllAre(FramesAt(s)[NextAt(s, p)], t)
      PROVE  AllAre(FramesAt(s)[p], t)
  <2> DEFINE f == FramesAt(s)
             x == <<t>>
             y == f[NextAt(s, p)]
             B == Seq(Byte)
  <2>1. TextAt(s, p) = t /\ NextAt(s, p) \in p + 1 .. l
    BY <1>5, RepeatedFrame
  <2>2. f[p] = Cat(x, y)
    BY <1>2, <1>5, <2>1, Zenon DEF FrameThen
  <2>3. NextAt(s, p) \in 1 .. l
    BY <1>1, <2>1
  <2>4. x \in Seq(B) /\ y \in Seq(B)
    <3>1. f \in [1 .. l -> Seq(B)]
      BY FramesValue
    <3> HIDE DEF f, l, B
    <3>2. f[NextAt(s, p)] \in Seq(B)
      BY <2>3, <3>1
    <3>3. t \in B
      BY DEF B
    <3>4. QED
      BY <3>2, <3>3
  <2> HIDE DEF f, x, y, B
  <2>5. AllAre(x, t) /\ AllAre(y, t)
    BY <1>3, <1>5 DEF x, y, f
  <2>6. AllAre(Cat(x, y), t)
    BY <2>4, <2>5, AllAreMore
  <2>7. QED
    BY <2>2, <2>6 DEF f
<1>6. 0 \in T
  <2>1. ASSUME NEW p \in 1 .. l, l - p <= 0, Aligned(s, p)
        PROVE  AllAre(FramesAt(s)[p], t)
    <3>1. p + HeaderLen - 1 > Len(s)
      BY <2>1
    <3>2. ~Cut(s, p)
      BY <3>1 DEF Cut
    <3>3. QED
      BY <1>4, <2>1, <3>2
  <2>2. QED
    BY <2>1
<1>7. ASSUME NEW k \in Nat, k \in T
      PROVE  k + 1 \in T
  <2>1. ASSUME NEW p \in 1 .. l, l - p <= k + 1, Aligned(s, p)
        PROVE  AllAre(FramesAt(s)[p], t)
    <3>1. CASE ~Cut(s, p)
      BY <1>4, <2>1, <3>1
    <3>2. CASE Cut(s, p)
      <4>1. NextAt(s, p) \in p + 1 .. l /\ Aligned(s, NextAt(s, p))
        BY <2>1, <3>2, RepeatedFrame
      <4> DEFINE q == NextAt(s, p)
      <4>2. q \in p + 1 .. l /\ Aligned(s, q)
        BY <4>1
      <4> HIDE DEF q, l
      <4>3. q \in 1 .. l /\ l - q <= k
        BY <1>1, <2>1, <4>2
      <4>4. AllAre(FramesAt(s)[q], t)
        BY <1>7, <4>2, <4>3
      <4>5. QED
        BY <1>5, <2>1, <3>2, <4>4 DEF q
    <3>3. QED
      BY <3>1, <3>2
  <2>2. QED
    BY <2>1
<1>8. \A k \in Nat : k \in T
  <2> HIDE DEF T
  <2> QED BY <1>6, <1>7, SetInduction
<1>9. Aligned(s, 1)
  BY DEF Aligned
<1>10. l \in T
  BY <1>1, <1>8
<1>11. l - 1 <= l
  BY <1>1
<1>12. QED
  BY <1>1, <1>9, <1>10, <1>11

(* So that is all that was got out of any opening of it.                   *)
LEMMA LinedRepeats ==
  ASSUME NEW s \in Seq(Byte), NEW t \in Seq(Byte), Line(t), Repeats(s, Frame(t)),
         NEW got \in Seq(Seq(Byte)), NEW rest \in Seq(Byte), Lined(s, got, rest)
  PROVE  AllAre(got, t)
<1>1. PICK done \in Seq(Byte) : s = Cat(done, rest) /\ Parsed(s, got, Len(done) + 1)
  BY DEF Lined
<1> DEFINE p == Len(done) + 1
           f == FramesAt(s)
           B == Seq(Byte)
<1>2. p \in 1 .. Len(s) + 1
  <2>1. Len(Cat(done, rest)) = Len(done) + Len(rest)
    BY CatSeq
  <2>2. Len(done) \in Nat /\ Len(rest) \in Nat
    OBVIOUS
  <2>3. QED
    BY <1>1, <2>1, <2>2
<1>3. Cat(s, << >>) = s /\ << >> \in Seq(Byte)
  BY ConcatEmptySeq DEF Cat
<1>4. f[1] = Cat(got, f[p])
  BY <1>1, <1>3 DEF Parsed
<1>5. f[p] \in Seq(B)
  <2>1. f \in [1 .. Len(s) + 1 -> Seq(B)]
    BY FramesValue
  <2> HIDE DEF f, B, p
  <2>2. QED
    BY <1>2, <2>1
<1>6. AllAre(f[1], t)
  BY RepeatedFrames
<1>7. got \in Seq(B)
  OBVIOUS
<1> HIDE DEF f, B, p
<1>8. AllAre(Cat(got, f[p]), t)
  BY <1>4, <1>6
<1>9. QED
  BY <1>5, <1>7, <1>8, AllAreMore

-----------------------------------------------------------------------------
(* The invariant that FirstLineEchoes needs.                               *)

(* All that was typed is as long as t, the first of it is t, and only the  *)
(* client has spoken.                                                      *)
Heard(t) ==
  /\ client.texts # << >> => client.texts[1] = t
  /\ \A i \in 1 .. Len(client.texts) : Len(client.texts[i]) = Len(t)
  /\ \A i \in 1 .. Len(messages) : messages[i].from = me
  /\ ~mixed

(* Then there is nothing but frames of t, on the wire to the server, in    *)
(* its encode buffer, and on the wire back.                                *)
EchoOf(t) ==
  /\ Repeats(script[me], Frame(t))
  /\ Whole(Content(buf), Frame(t))
  /\ Whole(sent[me], Frame(t))
  /\ Repeats(out[me], Frame(t))
  /\ \A i \in 1 .. Len(messages) : messages[i].msg = t

TextsAreLines == \A i \in 1 .. Len(client.texts) : Line(client.texts[i])

(* What the client has read is what it has parsed and what is in its codec.*)
TakenOf(r) == SubSeq(out[me], 1, r.taken)
ClientLined(r) == Lined(TakenOf(r), r.printed, Content(r.codec))

EchoInv ==
  /\ SessionInv
  /\ OrderInv
  /\ TextsAreLines
  /\ ClientLined(client)
  /\ \A t \in Seq(Byte) : Line(t) /\ Heard(t) => EchoOf(t)

LEMMA EchoInit == SessionInit => EchoInv
<1> SUFFICES ASSUME SessionInit PROVE EchoInv
  OBVIOUS
<1>1. Init /\ script[me] = << >> /\ me \in Clients
  BY ChatClientAssumption DEF SessionInit
<1>2. SessionInv /\ OrderInv
  BY <1>1, SessionInitInv, InitOrder
<1>3. client.texts = << >> /\ client.printed = << >> /\ client.taken = 0
      /\ client.codec = NewBuffer(CodecSize)
  BY DEF SessionInit, ClientInit
<1>4. out[me] = << >> /\ sent[me] = << >> /\ messages = << >> /\ buf = NewBuffer(EncodeSize)
  BY <1>1 DEF Init
<1>5. Content(client.codec) = << >> /\ Content(buf) = << >>
  BY <1>3, <1>4, NewBufferGood DEF ChatServerAssumption
<1>6. << >> \in Seq(Byte) /\ Len(<< >>) = 0 /\ 1 .. 0 = {} /\ Len(<< >>) + 1 = 1
      /\ << >> = Cat(<< >>, << >>)
  BY ConcatEmptySeq DEF Cat
<1>7. TakenOf(client) = << >>
  <2>1. SubSeq(<< >>, 1, 0) = << >>
    OBVIOUS
  <2>2. QED
    BY <1>3, <1>4, <2>1 DEF TakenOf
<1>8. Lined(<< >>, << >>, << >>)
  BY <1>6, ParsedStart DEF Lined
<1>9. ClientLined(client)
  BY <1>3, <1>5, <1>7, <1>8 DEF ClientLined
<1>10. TextsAreLines
  BY <1>3, <1>6 DEF TextsAreLines
<1>11. ASSUME NEW t \in Seq(Byte)
       PROVE  EchoOf(t)
  <2>1. Frame(t) \in Seq(Byte)
    BY FrameTyped
  <2>2. Cat(<< >>, Frame(t)) = Frame(t) /\ Cat(Frame(t), << >>) = Frame(t)
    BY <2>1, ConcatEmptySeq DEF Cat
  <2>3. Whole(<< >>, Frame(t))
    BY <2>2 DEF Whole
  <2>4. Repeats(<< >>, Frame(t))
    BY <1>6 DEF Repeats
  <2>5. QED
    BY <1>1, <1>4, <1>5, <1>6, <2>3, <2>4 DEF EchoOf
<1>12. QED
  BY <1>2, <1>9, <1>10, <1>11 DEF EchoInv

(* What the server parsed does not change when the client's bytes reach    *)
(* its socket: they are not read yet.                                      *)
LEMMA FlushStepOrder ==
  ASSUME OrderInv, SessionInv, FlushStep
  PROVE  OrderInv'
<1>1. /\ SessionInv' /\ IInv' /\ me \in Clients
      /\ script \in [Clients -> Seq(Byte)] /\ outbox \in [Clients -> Seq(Byte)]
  BY FlushToServerKeeps, ChatClientAssumption DEF SessionInv, IInv, TypeOK
<1>2. PICK bytes \in Seq(Byte) : /\ outbox' = [outbox EXCEPT ![me] = Cat(outbox[me], bytes)]
                                /\ script' = [script EXCEPT ![me] = Cat(script[me], bytes)]
  BY FlushToServerKeeps
<1>3. UNCHANGED <<status, cbuf, messages, reader, mixed>>
  BY DEF FlushStep, server
<1> DEFINE s == ReadOf(me)
           old == outbox[me]
           new == Cat(old, bytes)
           all == Cat(script[me], bytes)
<1>4. s \in Seq(Byte) /\ old \in Seq(Byte) /\ Cat(s, old) = script[me]
  BY <1>1, OrderTyped
<1> HIDE DEF s, old
<1>5. new \in Seq(Byte) /\ Cat(s, new) = all
  <2>1. new \in Seq(Byte)
    BY <1>4, CatSeq
  <2>2. s \in Seq(Byte) /\ old \in Seq(Byte) /\ bytes \in Seq(Byte)
    BY <1>4
  <2> HIDE DEF new, all
  <2>3. Cat(Cat(s, old), bytes) = Cat(s, Cat(old, bytes))
    BY <2>2, CatAssociative
  <2>4. QED
    BY <1>4, <2>1, <2>3, Zenon DEF new, all
<1> HIDE DEF new, all
<1>6. SubSeq(all, 1, Len(all) - Len(new)) = s
  <2>1. Len(Cat(s, new)) = Len(s) + Len(new)
    BY <1>4, <1>5, CatSeq
  <2>2. Len(s) \in Nat /\ Len(new) \in Nat
    BY <1>4, <1>5
  <2>3. Len(all) - Len(new) = Len(s)
    BY <1>5, <2>1, <2>2
  <2>4. SubSeq(Cat(s, new), 1, Len(s)) = s
    BY <1>4, <1>5, CatPrefix
  <2>5. QED
    BY <1>5, <2>3, <2>4
<1>7. outbox'[me] = new /\ script'[me] = all
  BY <1>1, <1>2 DEF new, all, old
<1>8. \A c \in Clients : c # me => outbox'[c] = outbox[c] /\ script'[c] = script[c]
  BY <1>1, <1>2
<1>9. ASSUME NEW c \in Clients
      PROVE  ReadOf(c)' = ReadOf(c) /\ Cat(ReadOf(c)', outbox'[c]) = script'[c]
  <2>1. CASE c = me
    <3>1. ReadOf(me)' = s
      BY <1>6, <1>7 DEF ReadOf
    <3>2. QED
      BY <1>5, <1>7, <2>1, <3>1 DEF s
  <2>2. CASE c # me
    <3>1. ReadOf(c)' = ReadOf(c)
      BY <1>8, <2>2 DEF ReadOf
    <3>2. QED
      BY <1>8, <2>2, <3>1 DEF OrderInv
  <2>3. QED
    BY <2>1, <2>2
<1>10. ASSUME NEW c \in Clients
       PROVE  MessagesOf(c)' = MessagesOf(c) /\ InBuffer(c)' = InBuffer(c)
  BY <1>3 DEF MessagesOf, InBuffer
<1>11. Orderly'
  BY <1>3, <1>9, <1>10 DEF OrderInv, Orderly, Running
<1>12. QED
  BY <1>1, <1>9, <1>11 DEF OrderInv

LEMMA SessionOrder == SessionInv /\ OrderInv /\ [SessionNext]_sessionVars => OrderInv'
<1> SUFFICES ASSUME SessionInv, OrderInv, [SessionNext]_sessionVars PROVE OrderInv'
  OBVIOUS
<1>1. CASE UNCHANGED vars
  BY <1>1, NextOrder
<1>2. CASE FlushStep
  BY <1>2, FlushStepOrder
<1>3. CASE ServerStep
  <2>1. Next
    BY <1>3 DEF ServerStep, Next
  <2>2. QED
    BY <2>1, NextOrder
<1>4. QED
  BY <1>1, <1>2, <1>3 DEF SessionNext, sessionVars

(* r says at most one line more than old, and reads as old does.           *)
SaysMore(r, old) ==
  r.texts = old.texts \/ \E text \in Seq(Byte) : Line(text) /\ r.texts = Append(old.texts, text)

ReadsAs(r, old) == r.codec = old.codec /\ r.printed = old.printed /\ r.taken = old.taken

LEMMA SendRawContentSays ==
  ASSUME NEW r \in ClientRecord, NEW text \in Seq(Byte), NoNul(text)
  PROVE  SaysMore(SendRawContent(r, text), r) /\ ReadsAs(SendRawContent(r, text), r)
<1> DEFINE newB == EncodeBack(r.buffer, text)
           len  == HeaderLen + Len(text)
           sb2  == CopyTo(r.sendBuf, 0, SubSeq(Content(newB), 1, len))
           q2   == Append(r.writes, [first |-> 1, last |-> len])
           more == Append(r.texts, text)
           r2   == SendRawContent(r, text)
<1>1. CASE ~EncodeAsserts(r.buffer, text)
  <2>1. r2 = [r EXCEPT !.loop = "aborted"]
    BY <1>1, Zenon DEF SendRawContent
  <2> HIDE DEF r2
  <2>2. r2.texts = r.texts /\ r2.codec = r.codec /\ r2.printed = r.printed /\ r2.taken = r.taken
    BY <2>1 DEF ClientRecord
  <2>3. QED
    BY <2>2 DEF SaysMore, ReadsAs, r2
<1>2. CASE EncodeAsserts(r.buffer, text) /\ len > ClientBuf
  <2>1. r2 = [r EXCEPT !.loop = "undefined"]
    BY <1>2, Zenon DEF SendRawContent
  <2> HIDE DEF r2
  <2>2. r2.texts = r.texts /\ r2.codec = r.codec /\ r2.printed = r.printed /\ r2.taken = r.taken
    BY <2>1 DEF ClientRecord
  <2>3. QED
    BY <2>2 DEF SaysMore, ReadsAs, r2
<1>3. CASE EncodeAsserts(r.buffer, text) /\ ~(len > ClientBuf)
  <2>1. r2 = [r EXCEPT !.buffer = newB,
                       !.sendBuf = CopyTo(@, 0, SubSeq(Content(newB), 1, len)),
                       !.writes = Append(@, [first |-> 1, last |-> len]),
                       !.texts = Append(@, text)]
    BY <1>3, Zenon DEF SendRawContent
  <2>2. r2 = WithText(r, newB, sb2, q2, more)
    <3> HIDE DEF newB, len, r2
    <3>1. QED
      BY <2>1 DEF WithText, ClientRecord
  <2> HIDE DEF r2, newB, sb2, q2, more
  <2>3. r2.texts = more /\ r2.codec = r.codec /\ r2.printed = r.printed /\ r2.taken = r.taken
    BY <2>2 DEF WithText, ClientRecord
  <2>4. Line(text)
    <3>1. Len(text) \in Nat /\ HeaderLen \in Nat \ {0} /\ len = HeaderLen + Len(text)
      OBVIOUS
    <3>2. Width \in Nat /\ ClientBuf \in Nat /\ ClientBuf <= Width
      BY WidthHoldsOne, ChatClientAssumption
    <3> HIDE DEF len
    <3>3. Len(text) < Width
      BY <1>3, <3>1, <3>2
    <3>4. QED
      BY <3>3 DEF Line
  <2>5. QED
    BY <2>3, <2>4 DEF SaysMore, ReadsAs, r2, more
<1>4. QED
  BY <1>1, <1>2, <1>3

(* A line that was read from stdin, and whatever is sent in its place.     *)
LEMMA ReadStdinSays ==
  ASSUME client \in ClientRecord, OnReadStdin \/ OnReadStdinNothing
  PROVE  SaysMore(client', client) /\ ReadsAs(client', client)
<1>1. PICK r \in ClientRecord, text \in Seq(Byte) :
        /\ client' = SendRawContent(r, text) /\ NoNul(text)
        /\ r.texts = client.texts /\ ReadsAs(r, client)
  <2>1. CASE OnReadStdin
    <3>1. PICK junk \in Junk :
            client' = SendRawContent([client EXCEPT !.lines = Tail(client.lines)],
                                     CString(Head(client.lines) \o junk))
      BY <2>1 DEF OnReadStdin, ClientRecord
    <3>2. client.lines \in Seq(Seq(Byte)) /\ client.lines # << >> /\ junk \in Seq(Byte)
      BY <2>1, ChatClientAssumption DEF OnReadStdin, ClientRecord
    <3>3. Head(client.lines) \in Seq(Byte) /\ Tail(client.lines) \in Seq(Seq(Byte))
      BY <3>2, HeadTailProperties
    <3> DEFINE typed == Head(client.lines) \o junk
               text  == CString(typed)
               r     == [client EXCEPT !.lines = Tail(client.lines)]
    <3>4. typed \in Seq(Byte)
      BY <3>2, <3>3, ConcatProperties
    <3>5. client' = SendRawContent(r, text)
      BY <3>1
    <3>6. /\ r \in ClientRecord /\ r.codec = client.codec /\ r.printed = client.printed
          /\ r.taken = client.taken /\ r.texts = client.texts
      BY <3>3 DEF ClientRecord
    <3> HIDE DEF typed, r
    <3>7. text \in Seq(Byte) /\ NoNul(text)
      BY <3>4, CStringSeq
    <3> HIDE DEF text
    <3>8. QED
      BY <3>5, <3>6, <3>7 DEF ReadsAs
  <2>2. CASE OnReadStdinNothing
    <3>1. PICK junk \in Junk, stdin \in {"reading", "stopped"} :
            client' = SendRawContent([client EXCEPT !.stdin = stdin], CString(junk))
      BY <2>2 DEF OnReadStdinNothing
    <3> DEFINE text == CString(junk)
               r    == [client EXCEPT !.stdin = stdin]
    <3>2. junk \in Seq(Byte)
      BY ChatClientAssumption
    <3>3. client' = SendRawContent(r, text)
      BY <3>1
    <3>4. /\ r \in ClientRecord /\ r.codec = client.codec /\ r.printed = client.printed
          /\ r.taken = client.taken /\ r.texts = client.texts
      BY DEF ClientRecord
    <3>5. text \in Seq(Byte) /\ NoNul(text)
      BY <3>2, CStringSeq
    <3> HIDE DEF text, r
    <3>6. QED
      BY <3>3, <3>4, <3>5 DEF ReadsAs
  <2>3. QED
    BY <2>1, <2>2
<1>2. SaysMore(client', r) /\ ReadsAs(client', r)
  BY <1>1, SendRawContentSays
<1>3. QED
  BY <1>1, <1>2 DEF SaysMore, ReadsAs

LEMMA ControlStepSays ==
  ASSUME client \in ClientRecord,
         OnConnected \/ OnConnectError \/ OnStdinEof \/ OnTcpEof \/ OnTcpError \/ LoopEnds \/ OnWriteEnd
  PROVE  client'.texts = client.texts /\ ReadsAs(client', client)
<1>1. CASE OnConnected
  BY <1>1 DEF OnConnected, ClientRecord, ReadsAs
<1>2. CASE OnConnectError
  BY <1>2 DEF OnConnectError, ClientRecord, ReadsAs
<1>3. CASE OnStdinEof
  BY <1>3 DEF OnStdinEof, ClientRecord, ReadsAs
<1>4. CASE OnTcpEof
  BY <1>4 DEF OnTcpEof, ClientRecord, ReadsAs
<1>5. CASE OnTcpError
  BY <1>5 DEF OnTcpError, ClientRecord, ReadsAs
<1>6. CASE LoopEnds
  BY <1>6 DEF LoopEnds, ClientRecord, ReadsAs
<1>7. CASE OnWriteEnd
  BY <1>7 DEF OnWriteEnd, ClientRecord, ReadsAs
<1>8. QED
  BY <1>1, <1>2, <1>3, <1>4, <1>5, <1>6, <1>7

(* What is read goes to the codec, what the codec delivers is printed.     *)
LEMMA ReadTcpLined ==
  ASSUME ClientSound(client), out[me] \in Seq(Byte), ClientLined(client), OnReadTcp \/ OnStringMessage,
         client.taken <= Len(out[me])
  PROVE  client'.texts = client.texts /\ ClientLined(client')
<1>1. client \in ClientRecord /\ Good(client.codec) /\ Content(client.codec) \in Seq(Byte)
      /\ client.taken \in Nat /\ client.printed \in Seq(Seq(Byte))
  BY ContentSeq DEF ClientSound, ClientRecord
<1> DEFINE a == client.taken
           rest == Content(client.codec)
<1>2. TakenOf(client) \in Seq(Byte) /\ Lined(TakenOf(client), client.printed, rest)
  <2>1. 1 \in Int /\ a \in Int /\ (\A i \in 1 .. a : out[me][i] \in Byte)
    BY <1>1
  <2> HIDE DEF a
  <2>2. SubSeq(out[me], 1, a) \in Seq(Byte)
    BY <2>1, SubSeqProperties
  <2>3. QED
    BY <2>2 DEF ClientLined, TakenOf, a
<1>3. CASE OnReadTcp
  <2>1. PICK n \in 1 .. MaxRead :
          /\ client.taken + n <= Len(out[me])
          /\ client' =
               IF AppendAsserts(client.codec, n)
               THEN [client EXCEPT
                       !.codec = append(@, SubSeq(out[me], client.taken + 1, client.taken + n)),
                       !.taken = @ + n]
               ELSE [client EXCEPT !.loop = "aborted"]
    BY <1>3 DEF OnReadTcp
  <2> DEFINE m    == a + 1
             k    == a + n
             data == Cells(out[me], m, k)
             more == append(client.codec, data)
  <2>2. n \in Nat /\ n # 0 /\ a \in Nat /\ Len(out[me]) \in Nat /\ k <= Len(out[me])
    BY <1>1, <2>1 DEF ChatServerAssumption
  <2> HIDE DEF a
  <2>3. m \in Int /\ k \in Int /\ k \in Nat /\ m >= 1 /\ m <= k /\ k - m + 1 = n
    BY <2>2
  <2>4. data \in Seq(Byte) /\ Len(data) = n
    <3> HIDE DEF m, k
    <3>1. Within(out[me], m, k, Byte)
      BY <2>2, <2>3 DEF Within
    <3>2. data \in Seq(Byte) /\ Len(data) = IF m <= k THEN k - m + 1 ELSE 0
      BY <2>3, <3>1, CellsTyped
    <3>3. QED
      BY <2>3, <3>2
  <2>5. CASE AppendAsserts(client.codec, n)
    <3>1. client' = [client EXCEPT !.codec = more, !.taken = k]
      BY <1>1, <2>1, <2>5 DEF ClientRecord, Cells, a
    <3>2. Content(more) = Cat(rest, data)
      <4> HIDE DEF data
      <4>1. QED
        BY <1>1, <2>4, <2>5, AppendContent DEF Cat
    <3> HIDE DEF more, rest
    <3>3. client'.codec = more /\ client'.taken = k /\ client'.texts = client.texts
          /\ client'.printed = client.printed
      BY <1>1, <3>1 DEF ClientRecord
    <3>4. Cells(out[me], 1, k) = Cat(TakenOf(client), data)
      <4>1. /\ 1 \in Int /\ k \in Int /\ m \in 1 .. k + 1 /\ 1 <= k + 1 /\ m - 1 = a
            /\ Within(out[me], 1, k, Byte)
        <5>1. m - 1 = a
          BY <2>2
        <5>2. \A i \in 1 .. Len(out[me]) : out[me][i] \in Byte
          OBVIOUS
        <5>3. k <= Len(out[me])
          BY <2>2
        <5> HIDE DEF m, k
        <5>4. 1 \in Int /\ k \in Int /\ m \in 1 .. k + 1 /\ 1 <= k + 1
          BY <2>3
        <5>5. Within(out[me], 1, k, Byte)
          BY <2>2, <5>3, <5>2, <5>4 DEF Within
        <5>6. QED
          BY <5>1, <5>4, <5>5
      <4> HIDE DEF m, k
      <4>2. Cat(Cells(out[me], 1, m - 1), Cells(out[me], m, k)) = Cells(out[me], 1, k)
        BY <4>1, SplitRange
      <4>3. QED
        BY <4>1, <4>2, Zenon DEF TakenOf, Cells, a
    <3> HIDE DEF data, k
    <3>5. Lined(Cat(TakenOf(client), data), client.printed, Cat(rest, data))
      BY <1>1, <1>2, <2>4, LinedRead DEF rest
    <3>6. TakenOf(client') = Cat(TakenOf(client), data)
      BY <3>3, <3>4 DEF TakenOf, Cells
    <3>7. QED
      BY <3>2, <3>3, <3>5, <3>6 DEF ClientLined
  <2>6. CASE ~AppendAsserts(client.codec, n)
    <3>1. client' = [client EXCEPT !.loop = "aborted"]
      BY <2>1, <2>6
    <3>2. /\ client'.codec = client.codec /\ client'.taken = client.taken
          /\ client'.printed = client.printed /\ client'.texts = client.texts
      BY <1>1, <3>1 DEF ClientRecord
    <3>3. QED
      BY <3>2 DEF ClientLined, TakenOf
  <2>7. QED
    BY <2>5, <2>6
<1>4. CASE OnStringMessage
  <2>1. /\ CanDecode(client.codec)
        /\ client' = [client EXCEPT !.codec = Decode(client.codec),
                                    !.printed = Append(client.printed, Message(client.codec))]
    BY <1>1, <1>4 DEF OnStringMessage, ClientRecord
  <2> DEFINE next  == Decode(client.codec)
             lines == Append(client.printed, Message(client.codec))
  <2>2. Complete(rest) /\ Message(client.codec) = Cells(rest, HeaderLen + 1, FrameLen(rest))
        /\ Content(next) = Behind(rest, FrameLen(rest))
    BY <1>1, <2>1, DecodeComplete
  <2>3. client' = [client EXCEPT !.codec = next, !.printed = lines]
    BY <2>1
  <2> HIDE DEF next, rest
  <2>4. Lined(TakenOf(client), lines, Content(next))
    BY <1>1, <1>2, <2>2, LinedDeliver DEF rest
  <2> HIDE DEF lines
  <2>5. /\ client'.codec = next /\ client'.taken = client.taken
        /\ client'.printed = lines /\ client'.texts = client.texts
    BY <1>1, <2>3 DEF ClientRecord
  <2>6. QED
    BY <2>4, <2>5 DEF ClientLined, TakenOf
<1>5. QED
  BY <1>3, <1>4

(* What has been said, and by whom, is never taken back.                   *)
SaidMore ==
  /\ SaysMore(client', client)
  /\ messages' = messages \/ \E m \in MessageType : messages' = Append(messages, m)
  /\ mixed => mixed'

LEMMA AppendOne ==
  ASSUME NEW S, NEW s \in Seq(S), NEW x \in S
  PROVE  /\ Append(s, x) # << >> /\ Len(s) \in Nat /\ Len(Append(s, x)) = Len(s) + 1
         /\ \A i \in 1 .. Len(s) : i \in 1 .. Len(Append(s, x)) /\ Append(s, x)[i] = s[i]
         /\ Append(s, x)[Len(s) + 1] = x
         /\ s # << >> => Append(s, x)[1] = s[1]
<1>1. /\ Append(s, x) \in Seq(S) /\ Len(Append(s, x)) = Len(s) + 1 /\ Len(s) \in Nat
      /\ \A i \in 1 .. Len(s) : Append(s, x)[i] = s[i]
      /\ Append(s, x)[Len(s) + 1] = x
  BY AppendProperties
<1>2. \A i \in 1 .. Len(s) : i \in 1 .. Len(Append(s, x))
  BY <1>1
<1>3. s # << >> => 1 \in 1 .. Len(s)
  <2>1. s # << >> => Len(s) # 0
    BY EmptySeq
  <2>2. QED
    BY <1>1, <2>1
<1>4. Append(s, x) # << >>
  BY <1>1
<1>5. QED
  BY <1>1, <1>2, <1>3, <1>4

LEMMA HeardBefore ==
  ASSUME client \in ClientRecord, messages \in Seq(MessageType), SaidMore, NEW t, Heard(t)'
  PROVE  Heard(t)
<1> DEFINE B == Seq(Byte)
           old == client.texts
           new == client'.texts
<1>1. old \in Seq(B) /\ (new = old \/ \E text \in B : new = Append(old, text))
  BY DEF SaidMore, SaysMore, ClientRecord
<1>2. /\ new # << >> => new[1] = t
      /\ \A i \in 1 .. Len(new) : Len(new[i]) = Len(t)
  BY DEF Heard
<1> HIDE DEF B, old, new
<1>3. /\ old # << >> => old[1] = t
      /\ \A i \in 1 .. Len(old) : Len(old[i]) = Len(t)
  <2>1. CASE new = old
    BY <1>2, <2>1
  <2>2. CASE \E text \in B : new = Append(old, text)
    <3>1. PICK text \in B : new = Append(old, text)
      BY <2>2
    <3>2. /\ new # << >> /\ \A i \in 1 .. Len(old) : i \in 1 .. Len(new) /\ new[i] = old[i]
          /\ old # << >> => new[1] = old[1]
      BY <1>1, <3>1, AppendOne
    <3>3. QED
      BY <1>2, <3>2
  <2>3. QED
    BY <1>1, <2>1, <2>2
<1>4. \A i \in 1 .. Len(messages) : messages[i].from = me
  <2>1. \A i \in 1 .. Len(messages') : messages'[i].from = me
    BY DEF Heard
  <2>2. CASE messages' = messages
    BY <2>1, <2>2
  <2>3. CASE \E m \in MessageType : messages' = Append(messages, m)
    <3>1. PICK m \in MessageType : messages' = Append(messages, m)
      BY <2>3
    <3>2. \A i \in 1 .. Len(messages) : i \in 1 .. Len(messages') /\ messages'[i] = messages[i]
      BY <3>1, AppendOne
    <3>3. QED
      BY <2>1, <3>2
  <2>4. QED
    BY <2>2, <2>3 DEF SaidMore
<1>5. ~mixed
  BY DEF Heard, SaidMore
<1>6. QED
  BY <1>3, <1>4, <1>5 DEF Heard, old

LEMMA TextsStayLines ==
  ASSUME client \in ClientRecord, TextsAreLines, SaysMore(client', client)
  PROVE  TextsAreLines'
<1> DEFINE B == Seq(Byte)
           old == client.texts
           new == client'.texts
<1>1. old \in Seq(B) /\ (new = old \/ \E text \in B : Line(text) /\ new = Append(old, text))
  BY DEF SaysMore, ClientRecord
<1>2. \A i \in 1 .. Len(old) : Line(old[i])
  BY DEF TextsAreLines
<1> HIDE DEF B, old, new
<1>3. \A i \in 1 .. Len(new) : Line(new[i])
  <2>1. CASE new = old
    BY <1>2, <2>1
  <2>2. CASE \E text \in B : Line(text) /\ new = Append(old, text)
    <3>1. PICK text \in B : Line(text) /\ new = Append(old, text)
      BY <2>2
    <3>2. /\ Len(old) \in Nat /\ Len(new) = Len(old) + 1 /\ new[Len(old) + 1] = text
          /\ \A i \in 1 .. Len(old) : new[i] = old[i]
      BY <1>1, <3>1, AppendOne
    <3>3. \A i \in 1 .. Len(new) : i \in 1 .. Len(old) \/ i = Len(old) + 1
      BY <3>2
    <3>4. QED
      BY <1>2, <3>1, <3>2, <3>3
  <2>3. QED
    BY <1>1, <2>1, <2>2
<1>4. QED
  BY <1>3 DEF TextsAreLines, new

-----------------------------------------------------------------------------
(* A broadcast repeats the line.                                           *)

LEMMA BroadcastEcho ==
  ASSUME OrderInv, OrderInv', me \in Clients, Broadcast, NEW t \in Seq(Byte), Line(t), EchoOf(t), Heard(t)'
  PROVE  /\ Whole(Content(buf'), Frame(t))
         /\ Whole(sent'[me], Frame(t))
         /\ \A i \in 1 .. Len(messages') : messages'[i].msg = t
         /\ out'[me] = out[me] \/ handle'[me] = "open"
<1> DEFINE msg  == Message(cbuf)
           text == CString(msg)
           newB == encode(buf, text)
           data == Cells(Content(newB), 1, HeaderLen + Len(text))
           m    == [from |-> reader, msg |-> msg]
           to   == ToSet(conns)
           f    == Frame(t)
<1>1. /\ Good(cbuf) /\ CanDecode(cbuf) /\ Good(buf) /\ buf.readerIndex = 0 /\ Running
      /\ reader \in Clients /\ to = {c \in Clients : handle[c] = "open"}
      /\ messages \in Seq(MessageType) /\ sent[me] \in Seq(Byte) /\ sent \in [Clients -> Seq(Byte)]
  BY DEF OrderInv, IInv, TypeOK, NeverRetrieved, Broadcast, ConnsMatchHandles, MessageType
<1>2. msg \in Seq(Byte)
  BY <1>1, FrameAtFront
<1>3. messages' = Append(messages, m) /\ UNCHANGED handle /\ m \in MessageType
      /\ m.from = reader /\ m.msg = msg
  <2>1. messages' = Append(messages, m) /\ UNCHANGED handle
    BY DEF Broadcast
  <2>2. QED
    BY <1>1, <1>2, <2>1 DEF MessageType
<1>4. text \in Seq(Byte)
  BY <1>2, CStringSeq
<1>5. EncodeAsserts(buf, text)
  <2> HIDE DEF text
  <2>1. QED
    BY <1>1, <1>4, EncodeNeverAborts
<1>6. buf' = newB /\ status' = status /\ SendToAll(data)
  BY <1>5 DEF Broadcast, EncodeBack, Cells
<1> HIDE DEF msg, m
<1>7. reader = me /\ ~mixed'
  <2>1. /\ Len(messages') = Len(messages) + 1 /\ Len(messages) \in Nat
        /\ messages'[Len(messages) + 1] = m
    BY <1>1, <1>3, AppendOne
  <2>2. Len(messages) + 1 \in 1 .. Len(messages')
    BY <2>1
  <2>3. messages'[Len(messages) + 1].from = me
    BY <2>2 DEF Heard
  <2>4. QED
    BY <1>3, <2>1, <2>3 DEF Heard
<1>8. msg = t
  <2> DEFINE s    == ReadOf(me)'
             got  == MessagesOf(me)
             all  == MessagesOf(me)'
             rest == InBuffer(me)'
  <2>1. Lined(s, all, rest)
    BY <1>1, <1>6, <1>7 DEF OrderInv, Orderly, Running
  <2>2. script' = script /\ UNCHANGED <<outbox, reader>>
    BY DEF Broadcast
  <2>3. s \in Seq(Byte) /\ Cat(s, outbox'[me]) = script'[me] /\ outbox[me] \in Seq(Byte)
        /\ Good(cbuf')
    BY DEF OrderInv, IInv, TypeOK
  <2>4. rest \in Seq(Byte)
    <3>1. rest = Content(cbuf')
      BY <1>7, <2>2, Zenon DEF InBuffer
    <3>2. QED
      BY <2>3, <3>1, ContentSeq
  <2> DEFINE B == Seq(Byte)
  <2>5. all = Append(got, msg) /\ got \in Seq(B) /\ msg \in B
    BY <1>1, <1>2, <1>3, <1>7, MessagesOfNext, MessagesOfIs
  <2> HIDE DEF s, got, all, rest
  <2> HIDE DEF B
  <2>6. Repeats(Cat(s, outbox[me]), f)
    BY <2>2, <2>3 DEF EchoOf
  <2>7. f \in Seq(Byte)
    BY FrameTyped
  <2> HIDE DEF f
  <2>8. Repeats(s, f)
    BY <2>3, <2>6, <2>7, RepeatsOpening
  <2>9. Len(got) \in Nat /\ Len(all) = Len(got) + 1 /\ all[Len(got) + 1] = msg /\ all \in Seq(B)
    BY <2>5, AppendOne, AppendProperties
  <2>10. AllAre(all, t)
    <3>1. all \in Seq(Seq(Byte))
      BY <2>9 DEF B
    <3>2. Repeats(s, Frame(t))
      BY <2>8 DEF f
    <3>3. QED
      BY <2>1, <2>3, <2>4, <3>1, <3>2, LinedRepeats
  <2>11. Len(got) + 1 \in 1 .. Len(all)
    BY <2>9
  <2>12. QED
    BY <2>9, <2>10, <2>11 DEF AllAre
<1>9. text = t
  BY <1>2, <1>8, CStringSeq DEF Line
<1> HIDE DEF text
<1>10. Content(newB) = Cat(Content(buf), f) /\ Content(buf) \in Seq(Byte) /\ f \in Seq(Byte)
       /\ Len(f) = HeaderLen + Len(t)
  <2>1. Content(newB) = Cat(Content(buf), f)
    BY <1>1, <1>4, <1>5, <1>9, EncodeContent DEF Frame
  <2>2. QED
    BY <1>1, <2>1, ContentSeq, FrameTyped
<1>11. Whole(Content(buf), f) /\ Whole(sent[me], f)
  BY DEF EchoOf
<1> HIDE DEF newB, f
<1>12. Whole(Content(newB), f) /\ data = f
  <2>1. Whole(Cat(Content(buf), f), f) /\ Cells(Cat(Content(buf), f), 1, Len(f)) = f
    BY <1>10, <1>11, WholeMore, WholeOpens
  <2>2. QED
    BY <1>9, <1>10, <2>1
<1>13. Whole(Content(buf'), f)
  BY <1>6, <1>12, Zenon
<1> HIDE DEF data, to
<1>14. /\ sent' = [c \in Clients |-> IF c \in to THEN Cat(sent[c], data) ELSE sent[c]]
       /\ me \notin to => out'[me] = out[me]
  <2>1. sent' = [c \in Clients |-> IF c \in to THEN Cat(sent[c], data) ELSE sent[c]]
    BY <1>6, Zenon DEF SendToAll, Cat, to
  <2>2. PICK now \in [to -> 0 .. Len(data)] :
          out' = [c \in Clients |-> IF c \in to THEN out[c] \o SubSeq(data, 1, now[c]) ELSE out[c]]
    BY <1>6, Zenon DEF SendToAll, to
  <2>3. QED
    BY <2>1, <2>2
<1>15. Whole(sent'[me], f)
  <2>1. CASE me \in to
    <3>1. sent'[me] = Cat(sent[me], f)
      BY <1>12, <1>14, <2>1
    <3>2. QED
      BY <1>1, <1>10, <1>11, <3>1, WholeMore
  <2>2. CASE me \notin to
    BY <1>11, <1>14, <2>2
  <2>3. QED
    BY <2>1, <2>2
<1>16. out'[me] = out[me] \/ handle'[me] = "open"
  BY <1>1, <1>3, <1>14
<1>17. \A i \in 1 .. Len(messages') : messages'[i].msg = t
  <2>1. /\ Len(messages') = Len(messages) + 1 /\ Len(messages) \in Nat
        /\ messages'[Len(messages) + 1] = m
        /\ \A i \in 1 .. Len(messages) : messages'[i] = messages[i]
    BY <1>1, <1>3, AppendOne
  <2>2. \A i \in 1 .. Len(messages') : i \in 1 .. Len(messages) \/ i = Len(messages) + 1
    BY <2>1
  <2>3. \A i \in 1 .. Len(messages) : messages[i].msg = t
    BY DEF EchoOf
  <2>4. QED
    BY <1>3, <1>8, <2>1, <2>2, <2>3
<1>18. QED
  BY <1>13, <1>15, <1>16, <1>17 DEF f

(* The socket takes an opening of what the connection was to be sent.      *)
LEMMA OutEcho ==
  ASSUME me \in Clients, IInv', NEW f \in Seq(Byte), Repeats(out[me], f), Whole(sent'[me], f),
         out'[me] = out[me] \/ handle'[me] = "open"
  PROVE  Repeats(out'[me], f)
<1>1. CASE out'[me] = out[me]
  BY <1>1
<1>2. CASE handle'[me] = "open"
  <2> DEFINE o == out'[me]
             p == Pending(sendBuf'[me], wq'[me])
             s == sent'[me]
  <2>1. o \in Seq(Byte) /\ s \in Seq(Byte) /\ sendBuf'[me] \in BufOf(SendSize)
        /\ wq'[me] \in Seq(PartOf(SendSize)) /\ SendSize \in Nat
    BY OfServer DEF IInv, TypeOK, BufOf
  <2>2. p \in Seq(Byte)
    BY <2>1, PiecesTyped
  <2>3. Cat(o, p) = s
    BY <1>2 DEF IInv, Accounted
  <2> HIDE DEF o, p, s
  <2>4. Whole(s, f)
    BY DEF s
  <2>5. Repeats(Cat(o, p), f)
    BY <2>1, <2>3, <2>4, WholeRepeats
  <2>6. Repeats(o, f)
    BY <2>1, <2>2, <2>5, RepeatsOpening
  <2>7. QED
    BY <2>6 DEF o
<1>3. QED
  BY <1>1, <1>2

LEMMA ServerEcho ==
  ASSUME OrderInv, OrderInv', Next, NEW t \in Seq(Byte), Line(t), EchoOf(t), Heard(t)'
  PROVE  EchoOf(t)'
<1> DEFINE f == Frame(t)
<1>1. me \in Clients /\ IInv /\ IInv' /\ f \in Seq(Byte)
  BY ChatClientAssumption, FrameTyped DEF OrderInv
<1>2. script' = script
  BY DEF Next, OnConnection, OnRead, OnReadEof, OnReadError, Broadcast, Flush
<1>3. /\ Whole(Content(buf'), f) /\ Whole(sent'[me], f)
      /\ \A i \in 1 .. Len(messages') : messages'[i].msg = t
      /\ out'[me] = out[me] \/ handle'[me] = "open"
  <2>1. CASE Broadcast
    BY <1>1, <2>1, BroadcastEcho
  <2>2. CASE \E c \in Clients : \E n \in 1 .. SendSize : Flush(c, n)
    <3>1. PICK c \in Clients, n \in 1 .. SendSize : Flush(c, n)
      BY <2>2
    <3>2. UNCHANGED <<handle, buf, sent, messages>> /\ wq[c] # << >>
      BY <3>1 DEF Flush
    <3>3. handle[c] = "open"
      BY <1>1, <3>2 DEF IInv, ConnsMatchHandles
    <3>4. c # me => out'[me] = out[me]
      BY <1>1, <3>1 DEF Flush, IInv, TypeOK
    <3>5. QED
      BY <3>2, <3>3, <3>4 DEF EchoOf
  <2>3. CASE UNCHANGED <<buf, sent, messages, out>>
    BY <2>3 DEF EchoOf
  <2>4. QED
    BY <2>1, <2>2, <2>3 DEF Next, OnConnection, OnRead, OnReadEof, OnReadError
<1>4. Repeats(out'[me], f)
  BY <1>1, <1>3, OutEcho DEF EchoOf
<1>5. QED
  BY <1>2, <1>3, <1>4 DEF EchoOf

LEMMA OpeningKept ==
  ASSUME NEW S, NEW s \in Seq(S), NEW more \in Seq(S), NEW n \in 0 .. Len(s)
  PROVE  Cells(Cat(s, more), 1, n) = Cells(s, 1, n)
<1> DEFINE a == Cells(s, 1, n)
           z == Cells(s, n + 1, Len(s))
<1>1. a \in Seq(S) /\ z \in Seq(S) /\ Cat(a, z) = s
  BY SplitSeq
<1>2. Len(a) = n
  <2>1. 1 \in Int /\ n \in Int /\ Within(s, 1, n, S) /\ (IF 1 <= n THEN n - 1 + 1 ELSE 0) = n
    BY DEF Within
  <2>2. QED
    BY <2>1, CellsTyped
<1> HIDE DEF a, z
<1>3. Cat(Cat(a, z), more) = Cat(a, Cat(z, more)) /\ Cat(z, more) \in Seq(S)
  BY <1>1, CatAssociative
<1>4. SubSeq(Cat(a, Cat(z, more)), 1, Len(a)) = a
  BY <1>1, <1>3, CatPrefix
<1>5. QED
  BY <1>1, <1>2, <1>3, <1>4 DEF Cells, a

LEMMA ServerLined ==
  ASSUME SessionInv, Next, UNCHANGED client, ClientLined(client)
  PROVE  ClientLined(client)'
<1>1. IInv /\ me \in Clients /\ out[me] \in Seq(Byte) /\ client.taken \in 0 .. Len(out[me])
  <2>1. IInv /\ me \in Clients /\ client.taken <= Len(out[me]) /\ client \in ClientRecord
    BY ChatClientAssumption DEF SessionInv, ClientSound
  <2>2. out[me] \in Seq(Byte) /\ client.taken \in Nat
    BY <2>1 DEF IInv, TypeOK, ClientRecord
  <2>3. QED
    BY <2>1, <2>2
<1>2. PICK more \in Seq(Byte) : out'[me] = Cat(out[me], more)
  BY <1>1, StepKeeps DEF OutGrows, Grows
<1>3. Cells(out'[me], 1, client.taken) = Cells(out[me], 1, client.taken)
  BY <1>1, <1>2, OpeningKept
<1>4. TakenOf(client)' = TakenOf(client)
  BY <1>3 DEF TakenOf, Cells
<1>5. QED
  BY <1>4 DEF ClientLined

(* What the client puts on the wire for one line over and over.            *)
LEMMA OpeningsWhole ==
  ASSUME NEW r, ClientSound(r), NEW t \in Seq(Byte),
         r.texts # << >> => r.texts[1] = t,
         \A i \in 1 .. Len(r.texts) : Len(r.texts[i]) = Len(t)
  PROVE  LET asked == FlattenSeq(Openings(r.texts, Content(r.buffer)))
         IN  asked \in Seq(Byte) /\ Whole(asked, Frame(t))
<1> DEFINE B == Seq(Byte)
           texts == r.texts
           n == Len(texts)
           content == Content(r.buffer)
           f == Frame(t)
           framed == Framed(texts)
           seqs == Openings(texts, content)
<1>1. /\ texts \in Seq(B) /\ content = FlattenSeq(framed)
      /\ texts # << >> => texts[1] = t
      /\ \A i \in 1 .. n : Len(texts[i]) = Len(t)
  BY DEF ClientSound, ClientRecord
<1>2. f \in B /\ Len(f) = HeaderLen + Len(t)
  BY FrameTyped
<1> HIDE DEF texts, content, f
<1>3. n \in Nat /\ \A i \in 1 .. n : Frame(texts[i]) \in B
  <2>1. n \in Nat /\ \A i \in 1 .. n : texts[i] \in B
    BY <1>1
  <2>2. QED
    BY <2>1, FrameTyped
<1>4. framed \in Seq(B) /\ Len(framed) = n /\ (n # 0 => framed[1] = Frame(texts[1]))
  <2>1. framed \in [1 .. n -> B] /\ (n # 0 => framed[1] = Frame(texts[1]))
    <3> HIDE DEF B
    <3>1. n # 0 => 1 \in 1 .. n
      BY <1>3
    <3>2. QED
      BY <1>3, <3>1 DEF Framed
  <2> HIDE DEF framed, B, n
  <2>2. QED
    BY <1>3, <2>1, FunIsSeq
<1> HIDE DEF framed, B, n
<1>5. ASSUME NEW i \in 1 .. n
      PROVE  Opening(content, texts[i]) = f
  <2>1. n # 0 /\ texts # << >>
    BY <1>3, <1>5 DEF n
  <2>2. framed # << >>
    BY <1>3, <1>4, <2>1
  <2>3. content = Cat(Head(framed), FlattenSeq(Tail(framed)))
    BY <1>1, <1>4, <2>2, FlattenHead DEF B, Cat
  <2>4. Head(framed) = f
    BY <1>1, <1>4, <2>1, <2>2 DEF f
  <2>5. FlattenSeq(Tail(framed)) \in B
    <3>1. Tail(framed) \in Seq(B)
      BY <1>4, <2>2, HeadTailProperties
    <3>2. QED
      BY <3>1, FlattenTyped DEF B
  <2>6. SubSeq(Cat(f, FlattenSeq(Tail(framed))), 1, Len(f)) = f
    BY <1>2, <2>5, CatPrefix DEF B
  <2>7. HeaderLen + Len(texts[i]) = Len(f)
    BY <1>1, <1>2 DEF n
  <2>8. QED
    BY <2>3, <2>4, <2>6, <2>7 DEF Opening, Cells
<1>6. seqs \in Seq(B) /\ Len(seqs) = n /\ \A i \in 1 .. n : seqs[i] = f
  <2>1. seqs \in [1 .. n -> B] /\ \A i \in 1 .. n : seqs[i] = f
    BY <1>2, <1>5 DEF Openings, n
  <2> HIDE DEF seqs
  <2>2. QED
    BY <1>3, <2>1, FunIsSeq
<1> HIDE DEF seqs
<1>7. FlattenSeq(seqs) \in Seq(Byte) /\ Whole(FlattenSeq(seqs), f)
  BY <1>2, <1>6, FlattenWhole DEF B
<1>8. QED
  BY <1>7 DEF seqs, f, texts, content

LEMMA WireEcho ==
  ASSUME NEW r, ClientSound(r), NEW t \in Seq(Byte),
         r.texts # << >> => r.texts[1] = t,
         \A i \in 1 .. Len(r.texts) : Len(r.texts[i]) = Len(t),
         NEW wire \in Seq(Byte), InTransit(r, wire), r.loop = "running"
  PROVE  Repeats(wire, Frame(t))
<1> DEFINE p == Pending(r.sendBuf, r.writes)
           asked == FlattenSeq(Openings(r.texts, Content(r.buffer)))
           f == Frame(t)
<1>1. r.sendBuf \in BufOf(ClientBuf) /\ r.writes \in Seq(PartOf(ClientBuf)) /\ ClientBuf \in Nat
  BY ChatClientAssumption DEF ClientSound, ClientRecord
<1>2. p \in Seq(Byte) /\ f \in Seq(Byte)
  BY <1>1, PiecesTyped, FrameTyped
<1>3. Cat(wire, p) = asked
  BY DEF InTransit
<1>4. asked \in Seq(Byte) /\ Whole(asked, f)
  BY OpeningsWhole
<1> HIDE DEF p, asked, f
<1>5. Repeats(Cat(wire, p), f)
  BY <1>2, <1>3, <1>4, WholeRepeats
<1>6. Repeats(wire, f)
  BY <1>2, <1>5, RepeatsOpening
<1>7. QED
  BY <1>6 DEF f

LEMMA FlushEcho ==
  ASSUME SessionInv, SessionInv', FlushStep
  PROVE  /\ client'.texts = client.texts /\ ReadsAs(client', client)
         /\ UNCHANGED <<out, sent, buf, messages, mixed>>
         /\ \A t \in Seq(Byte) : Line(t) /\ EchoOf(t) /\ Heard(t)' => EchoOf(t)'
<1>1. PICK n \in 1 .. ClientBuf : FlushToServer(n)
  BY DEF FlushStep
<1>2. client \in ClientRecord /\ client.loop = "running" /\ Running
  BY <1>1 DEF SessionInv, ClientSound, FlushToServer, ClientIdle, ClientRunning
<1>3. /\ client'.texts = client.texts /\ client'.loop = "running" /\ ReadsAs(client', client)
      /\ UNCHANGED <<status, out, sent, buf, messages, mixed>>
  <2> DEFINE q == IF Head(client.writes).first + n > Head(client.writes).last
                  THEN Tail(client.writes)
                  ELSE <<[Head(client.writes) EXCEPT !.first = @ + n]>> \o Tail(client.writes)
  <2>1. client' = [client EXCEPT !.writes = q]
    BY <1>1, <1>2, Zenon DEF FlushToServer
  <2> HIDE DEF q
  <2>2. QED
    BY <1>2, <2>1 DEF ClientRecord, ReadsAs, FlushStep, server
<1>4. ASSUME NEW t \in Seq(Byte), Line(t), EchoOf(t), Heard(t)'
      PROVE  EchoOf(t)'
  <2> DEFINE r    == client'
             wire == script'[me]
  <2>1. ClientSound(r) /\ InTransit(r, wire) /\ wire \in Seq(Byte)
    <3>1. Running'
      BY <1>2, <1>3 DEF Running
    <3>2. me \in Clients
      BY ChatClientAssumption
    <3>3. QED
      BY <3>1, <3>2 DEF SessionInv, IInv, TypeOK
  <2>2. r.loop = "running" /\ (r.texts # << >> => r.texts[1] = t)
        /\ \A i \in 1 .. Len(r.texts) : Len(r.texts[i]) = Len(t)
    BY <1>3, <1>4 DEF Heard
  <2> HIDE DEF r, wire
  <2>3. Repeats(wire, Frame(t))
    BY <2>1, <2>2, WireEcho
  <2>4. QED
    BY <1>3, <1>4, <2>3 DEF EchoOf, wire
<1>5. QED
  BY <1>3, <1>4

LEMMA ServerSays ==
  ASSUME IInv, Next
  PROVE  /\ messages' = messages \/ \E m \in MessageType : messages' = Append(messages, m)
         /\ mixed => mixed'
<1>1. CASE Broadcast
  <2> DEFINE m == [from |-> reader, msg |-> Message(cbuf)]
  <2>1. messages' = Append(messages, m) /\ UNCHANGED mixed /\ CanDecode(cbuf) /\ Good(cbuf)
        /\ reader \in Clients
    BY <1>1 DEF Broadcast, IInv, TypeOK
  <2>2. m \in MessageType
    BY <2>1, FrameAtFront DEF MessageType
  <2>3. QED
    BY <2>1, <2>2
<1>2. CASE \E c \in Clients : \E n \in 1 .. MaxRead : n <= Len(outbox[c]) /\ OnRead(c, n)
  <2>1. UNCHANGED messages /\ (mixed => mixed')
    BY <1>2, Zenon DEF OnRead
  <2>2. QED
    BY <2>1
<1>3. CASE UNCHANGED <<messages, mixed>>
  BY <1>3
<1>4. QED
  BY <1>1, <1>2, <1>3 DEF Next, OnConnection, OnReadEof, OnReadError, Flush

LEMMA LocalSays ==
  ASSUME SessionInv, LocalStep, ClientLined(client)
  PROVE  SaysMore(client', client) /\ (UNCHANGED out => ClientLined(client)')
<1>1. ClientSound(client) /\ client \in ClientRecord /\ client.taken <= Len(out[me])
      /\ out[me] \in Seq(Byte)
  BY ChatClientAssumption DEF SessionInv, ClientSound, IInv, TypeOK
<1>2. CASE OnReadTcp \/ OnStringMessage
  <2>1. client'.texts = client.texts /\ ClientLined(client')
    BY <1>1, <1>2, ReadTcpLined
  <2>2. QED
    BY <2>1 DEF SaysMore, ClientLined, TakenOf
<1>3. CASE SaysMore(client', client) /\ ReadsAs(client', client)
  BY <1>3 DEF ReadsAs, ClientLined, TakenOf
<1>4. CASE OnReadStdin \/ OnReadStdinNothing
  BY <1>1, <1>3, <1>4, ReadStdinSays
<1>5. CASE OnConnected \/ OnConnectError \/ OnStdinEof \/ OnTcpEof \/ OnTcpError \/ LoopEnds
           \/ OnWriteEnd
  BY <1>1, <1>3, <1>5, ControlStepSays DEF SaysMore
<1>6. QED
  BY <1>2, <1>4, <1>5 DEF LocalStep

LEMMA EchoStep == EchoInv /\ [SessionNext]_sessionVars => EchoInv'
<1> SUFFICES ASSUME EchoInv, [SessionNext]_sessionVars PROVE EchoInv'
  OBVIOUS
<1>1. /\ SessionInv /\ OrderInv /\ TextsAreLines /\ ClientLined(client)
      /\ \A t \in Seq(Byte) : Line(t) /\ Heard(t) => EchoOf(t)
  BY DEF EchoInv
<1>2. SessionInv' /\ OrderInv'
  BY <1>1, SessionStepKeeps, SessionOrder
<1>3. IInv /\ client \in ClientRecord /\ messages \in Seq(MessageType)
  BY <1>1 DEF SessionInv, ClientSound, IInv, TypeOK, MessageType
<1>4. /\ SaidMore /\ ClientLined(client)'
      /\ \A t \in Seq(Byte) : Line(t) /\ EchoOf(t) /\ Heard(t)' => EchoOf(t)'
  <2>1. CASE LocalStep /\ UNCHANGED vars
    <3>1. UNCHANGED <<script, out, sent, buf, messages, mixed>>
      BY <2>1 DEF vars, server
    <3>2. SaysMore(client', client) /\ ClientLined(client)'
      BY <1>1, <2>1, <3>1, LocalSays
    <3>3. QED
      BY <3>1, <3>2 DEF SaidMore, EchoOf
  <2>2. CASE FlushStep
    <3>1. /\ client'.texts = client.texts /\ ReadsAs(client', client)
          /\ UNCHANGED <<out, sent, buf, messages, mixed>>
          /\ \A t \in Seq(Byte) : Line(t) /\ EchoOf(t) /\ Heard(t)' => EchoOf(t)'
      BY <1>1, <1>2, <2>2, FlushEcho
    <3>2. SaidMore
      BY <3>1 DEF SaidMore, SaysMore
    <3>3. ClientLined(client)'
      BY <1>1, <3>1 DEF ReadsAs, ClientLined, TakenOf
    <3>4. QED
      BY <3>1, <3>2, <3>3
  <2>3. CASE ServerStep /\ UNCHANGED client
    <3>1. Next
      BY <2>3 DEF ServerStep, Next
    <3>2. SaidMore
      BY <1>3, <2>3, <3>1, ServerSays DEF SaidMore, SaysMore
    <3>3. ClientLined(client)'
      BY <1>1, <2>3, <3>1, ServerLined
    <3>4. \A t \in Seq(Byte) : Line(t) /\ EchoOf(t) /\ Heard(t)' => EchoOf(t)'
      BY <1>1, <1>2, <3>1, ServerEcho
    <3>5. QED
      BY <3>2, <3>3, <3>4
  <2>4. CASE UNCHANGED sessionVars
    <3>1. UNCHANGED <<client, script, out, sent, buf, messages, mixed>>
      BY <2>4 DEF sessionVars, vars, server
    <3>2. QED
      BY <1>1, <3>1 DEF SaidMore, SaysMore, ClientLined, TakenOf, EchoOf
  <2>5. QED
    BY <2>1, <2>2, <2>3, <2>4 DEF SessionNext
<1>5. TextsAreLines'
  BY <1>1, <1>3, <1>4, TextsStayLines DEF SaidMore
<1>6. ASSUME NEW t \in Seq(Byte), Line(t), Heard(t)'
      PROVE  EchoOf(t)'
  <2>1. Heard(t)
    BY <1>3, <1>4, <1>6, HeardBefore
  <2>2. QED
    BY <1>1, <1>4, <1>6, <2>1
<1>7. QED
  BY <1>2, <1>4, <1>5, <1>6 DEF EchoInv

(* What was printed is what was parsed of an opening of what came back.    *)
LEMMA TakenTyped ==
  ASSUME SessionInv
  PROVE  /\ out[me] \in Seq(Byte) /\ client.taken \in 0 .. Len(out[me])
         /\ TakenOf(client) \in Seq(Byte)
<1>1. out[me] \in Seq(Byte) /\ client.taken \in Nat /\ client.taken <= Len(out[me])
  BY ChatClientAssumption DEF SessionInv, ClientSound, ClientRecord, IInv, TypeOK
<1>2. client.taken \in 0 .. Len(out[me])
  BY <1>1
<1>3. Cells(out[me], 1, client.taken) \in Seq(Byte)
  BY <1>1, <1>2, SplitSeq
<1>4. QED
  BY <1>1, <1>2, <1>3 DEF TakenOf, Cells

LEMMA PrintedEcho ==
  ASSUME EchoInv, NEW t \in Seq(Byte), Line(t), Heard(t)
  PROVE  AllAre(client.printed, t)
<1>1. /\ client \in ClientRecord /\ Good(client.codec) /\ me \in Clients
      /\ client.taken <= Len(out[me]) /\ Lined(TakenOf(client), client.printed, Content(client.codec))
      /\ Repeats(out[me], Frame(t))
  BY ChatClientAssumption DEF EchoInv, EchoOf, SessionInv, ClientSound, ClientLined
<1> DEFINE a    == client.taken
           s    == TakenOf(client)
           rest == Cells(out[me], a + 1, Len(out[me]))
<1>2. out[me] \in Seq(Byte) /\ a \in 0 .. Len(out[me]) /\ Frame(t) \in Seq(Byte)
  <2>1. out[me] \in Seq(Byte) /\ a \in Nat
    BY <1>1 DEF EchoInv, SessionInv, IInv, TypeOK, ClientRecord
  <2>2. QED
    BY <1>1, <2>1, FrameTyped
<1>3. client.printed \in Seq(Seq(Byte)) /\ Content(client.codec) \in Seq(Byte)
  BY <1>1, ContentSeq DEF ClientRecord
<1> HIDE DEF a
<1>4. Cells(out[me], 1, a) \in Seq(Byte) /\ rest \in Seq(Byte) /\ Cat(Cells(out[me], 1, a), rest) = out[me]
  BY <1>2, SplitSeq
<1>5. s = Cells(out[me], 1, a)
  BY DEF TakenOf, Cells, a
<1> HIDE DEF s, rest
<1>6. Repeats(s, Frame(t))
  BY <1>1, <1>2, <1>4, <1>5, RepeatsOpening
<1>7. QED
  BY <1>1, <1>3, <1>4, <1>5, <1>6, LinedRepeats DEF s

(* As long as nobody else has spoken and nothing is mixed in, the first    *)
(* line typed is the one the server delivers each time and the one the     *)
(* client prints each time, whatever other lines of its length are typed:  *)
(* both ends encode behind what they encoded before and send from the      *)
(* start of the buffer.  Whatever the lines, the junk behind them, the     *)
(* splits of reads and writes, and the order of the two loops.             *)
THEOREM ClientFirstLineEchoes == FairSession => []FirstLineEchoes
<1>1. EchoInv => FirstLineEchoes
  <2> DEFINE texts == client.texts
  <2> SUFFICES ASSUME EchoInv, SameLength, \A i \in DOMAIN messages : messages[i].from = me, ~mixed
               PROVE  /\ \A i \in DOMAIN messages : messages[i].msg = texts[1]
                      /\ \A i \in DOMAIN client.printed : client.printed[i] = texts[1]
    BY DEF FirstLineEchoes
  <2>1. /\ texts \in Seq(Seq(Byte)) /\ client.printed \in Seq(Seq(Byte))
        /\ messages \in Seq(MessageType)
    BY DEF EchoInv, SessionInv, ClientSound, ClientRecord, IInv, TypeOK, MessageType
  <2>2. /\ DOMAIN messages = 1 .. Len(messages) /\ DOMAIN texts = 1 .. Len(texts)
        /\ DOMAIN client.printed = 1 .. Len(client.printed)
    BY <2>1, SeqIsFun
  <2>3. ASSUME NEW t \in Seq(Byte), Line(t), Heard(t)
        PROVE  /\ \A i \in DOMAIN messages : messages[i].msg = t
               /\ \A i \in DOMAIN client.printed : client.printed[i] = t
    BY <2>2, <2>3, PrintedEcho DEF EchoInv, EchoOf, AllAre
  <2>4. CASE texts # << >>
    <3> DEFINE t == texts[1]
    <3>1. 1 \in 1 .. Len(texts) /\ t \in Seq(Byte)
      <4> DEFINE B == Seq(Byte)
      <4>1. texts \in Seq(B)
        BY <2>1
      <4> HIDE DEF texts, B
      <4>2. Len(texts) \in Nat /\ Len(texts) # 0
        BY <2>4, <4>1, EmptySeq
      <4>3. 1 \in 1 .. Len(texts)
        BY <4>2
      <4>4. texts[1] \in B
        BY <4>1, <4>3
      <4>5. QED
        BY <4>3, <4>4 DEF B
    <3>2. Line(t)
      BY <3>1 DEF EchoInv, TextsAreLines
    <3>3. Heard(t)
      BY <2>2 DEF Heard, SameLength
    <3>4. QED
      BY <2>3, <3>1, <3>2, <3>3
  <2>5. CASE texts = << >>
    <3> DEFINE one == <<1>>
               none == << >>
    <3>1. /\ none \in Seq(Byte) /\ Len(none) = 0 /\ one \in Seq(Byte) /\ Len(one) = 1 /\ one[1] = 1
      BY DEF Byte, BufferOpsAssumption
    <3>2. none # one
      BY <3>1
    <3> HIDE DEF none, one
    <3>3. Line(none) /\ Line(one)
      BY <3>1, WidthHoldsOne DEF Line, NoNul
    <3>4. \A t : Heard(t)
      <4>1. 1 .. Len(texts) = {}
        BY <2>5
      <4>2. QED
        BY <2>2, <2>5, <4>1 DEF Heard
    <3>5. DOMAIN messages = {} /\ DOMAIN client.printed = {}
      <4>1. ASSUME NEW i \in DOMAIN messages
            PROVE  FALSE
        <5>1. messages[i].msg = none /\ messages[i].msg = one
          BY <2>3, <3>1, <3>3, <3>4
        <5>2. QED
          BY <3>2, <5>1
      <4>2. ASSUME NEW i \in DOMAIN client.printed
            PROVE  FALSE
        <5>1. client.printed[i] = none /\ client.printed[i] = one
          BY <2>3, <3>1, <3>3, <3>4
        <5>2. QED
          BY <3>2, <5>1
      <4>3. QED
        BY <4>1, <4>2, Zenon
    <3>6. QED
      BY <3>5
  <2>6. QED
    BY <2>4, <2>5
<1>2. QED
  BY <1>1, EchoInit, EchoStep, PTL DEF FairSession, SessionSpec

(* What the client prints is what the bytes it has read stand for, each    *)
(* line with the read of on_read_tcp() that completes it, for any typed    *)
(* lines, any other peers and any splits of the wire into reads.           *)
THEOREM ClientPrintsInOrder == FairSession => []PrintedInOrder
<1>1. EchoInv => PrintedInOrder
  <2> SUFFICES ASSUME EchoInv, ClientIdle PROVE Decoded(client.printed, TakenOf(client))
    BY DEF PrintedInOrder, TakenOf
  <2> DEFINE s    == TakenOf(client)
             rest == Content(client.codec)
  <2>1. /\ Lined(s, client.printed, rest) /\ ~CanDecode(client.codec)
        /\ client \in ClientRecord /\ Good(client.codec)
    BY DEF EchoInv, ClientLined, ClientIdle, SessionInv, ClientSound
  <2>2. s \in Seq(Byte)
    BY TakenTyped DEF EchoInv
  <2>3. rest \in Seq(Byte) /\ client.printed \in Seq(Seq(Byte))
    BY <2>1, ContentSeq DEF ClientRecord
  <2>4. Complete(rest) => Len(rest) = HeaderLen /\ LengthOf(rest) = 0
    BY <2>1, DecodeComplete
  <2> HIDE DEF s, rest
  <2>5. Decoded(client.printed, s)
    BY <2>1, <2>2, <2>3, <2>4, LinedDecoded
  <2>6. QED
    BY <2>5 DEF s
<1>2. QED
  BY <1>1, EchoInit, EchoStep, PTL DEF FairSession, SessionSpec

-----------------------------------------------------------------------------
(* What one Codec writes another reads back.                               *)

LEMMA RestOf ==
  ASSUME NEW S, NEW s \in Seq(S), NEW more \in Seq(S)
  PROVE  Behind(Cat(s, more), Len(s)) = more
<1> DEFINE none == << >>
           n == Len(s)
           m == Len(more)
<1>1. none \in Seq(S) /\ Len(Cat(s, more)) = n + m /\ n \in Nat /\ m \in Int /\ m <= m
      /\ Cat(s, more) \in Seq(S) /\ 1 \in Nat \ {0}
  BY CatSeq
<1>2. Cat(Cat(s, more), none) = Cat(s, more)
  BY <1>1, ConcatEmptySeq DEF Cat
<1> HIDE DEF none
<1>3. Cells(Cat(Cat(s, more), none), Len(s) + 1, Len(s) + Len(more)) = Cells(more, 1, Len(more))
  BY <1>1, CellsInside
<1>4. Cells(more, 1, Len(more)) = more
  BY SubSeqFull DEF Cells
<1>5. QED
  BY <1>1, <1>2, <1>3, <1>4 DEF Behind, Cells

LEMMA FrameReadFirst ==
  ASSUME NEW b, Good(b), NEW text \in Seq(Byte), NEW more \in Seq(Byte),
         Content(b) = Cat(Frame(text), more),
         Len(text) < Width, Len(text) <= kMaxMessageSize
  PROVE  IF text = << >> /\ more = << >> THEN ~CanDecode(b)
         ELSE CanDecode(b) /\ Message(b) = text /\ Content(Decode(b)) = more
<1> DEFINE h == htonl(Len(text))
           n == Len(text)
           f == Frame(text)
           s == Content(b)
<1>1. /\ n \in Nat /\ HeaderLen \in Nat \ {0} /\ h \in Seq(Byte) /\ Len(h) = HeaderLen
      /\ ntohl(h) = n /\ f \in Seq(Byte) /\ Len(f) = HeaderLen + n /\ f = Cat(h, text)
  <2>1. n \in Nat /\ HeaderLen \in Nat \ {0}
    OBVIOUS
  <2>2. h \in Seq(Byte) /\ Len(h) = HeaderLen /\ ntohl(h) = n
    BY <2>1, HtonlSeq, NtohlHtonl
  <2>3. f \in Seq(Byte) /\ Len(f) = HeaderLen + n
    BY FrameTyped
  <2>4. f = Cat(h, text)
    BY Zenon DEF Frame
  <2>5. QED
    BY <2>1, <2>2, <2>3, <2>4
<1>2. /\ s \in Seq(Byte) /\ Len(s) = readableBytes(b) /\ Len(s) = Len(f) + Len(more)
      /\ Len(more) \in Nat /\ s = Cat(f, more)
  <2>1. s \in Seq(Byte) /\ Len(s) = readableBytes(b)
    BY ContentSeq
  <2> HIDE DEF f, s
  <2>2. s = Cat(f, more)
    BY DEF f, s
  <2>3. Len(s) = Len(f) + Len(more)
    BY <1>1, <2>2, CatSeq
  <2>4. Len(more) \in Nat
    OBVIOUS
  <2>5. QED
    BY <2>1, <2>2, <2>3, <2>4
<1> HIDE DEF h, n, f, s
<1>3. Cells(s, 1, HeaderLen) = h
  <2>1. Cat(f, more) = Cat(h, Cat(text, more)) /\ Cat(text, more) \in Seq(Byte)
    BY <1>1, CatAssociative
  <2>2. SubSeq(Cat(h, Cat(text, more)), 1, Len(h)) = h
    BY <1>1, <2>1, CatPrefix
  <2>3. QED
    BY <1>1, <1>2, <2>1, <2>2 DEF Cells
<1>4. peekUInt32(b) = n /\ LengthOf(s) = n /\ FrameLen(s) = HeaderLen + n
  BY <1>1, <1>3, Zenon DEF peekUInt32, LengthOf, FrameLen, Cells, s
<1>5. CanDecode(b) <=> ~(text = << >> /\ more = << >>)
  <2>1. readableBytes(b) = HeaderLen + n + Len(more)
    BY <1>1, <1>2
  <2>2. (text = << >> <=> n = 0) /\ (more = << >> <=> Len(more) = 0)
    BY EmptySeq DEF n
  <2>3. n <= kMaxMessageSize
    BY DEF n
  <2>4. QED
    BY <1>1, <1>2, <1>4, <2>1, <2>2, <2>3 DEF CanDecode, HasHeader, TooLong
<1>6. ASSUME CanDecode(b)
      PROVE  Message(b) = text /\ Content(Decode(b)) = more
  <2>1. Message(b) = Cells(s, HeaderLen + 1, HeaderLen + n) /\ Content(Decode(b)) = Behind(s, Len(f))
    BY <1>1, <1>4, <1>6, DecodeComplete DEF s
  <2>2. Cells(s, HeaderLen + 1, HeaderLen + n) = text
    <3>1. 1 \in Nat \ {0} /\ n \in Int /\ n <= Len(text)
          /\ h \in Seq(Byte) /\ text \in Seq(Byte) /\ more \in Seq(Byte)
      BY <1>1 DEF n
    <3>2. Cells(Cat(Cat(h, text), more), Len(h) + 1, Len(h) + n) = Cells(text, 1, n)
      BY <3>1, CellsInside
    <3>3. Cells(text, 1, n) = text
      BY SubSeqFull DEF Cells, n
    <3>4. QED
      BY <1>1, <1>2, <3>2, <3>3
  <2>3. Behind(s, Len(f)) = more
    BY <1>1, <1>2, RestOf
  <2>4. QED
    BY <2>1, <2>2, <2>3
<1>7. QED
  BY <1>5, <1>6

(* The codec reads back what it wrote.  `from` is the buffer that encode() *)
(* wrote text to, b one that holds these bytes and then others, however    *)
(* they got there: if the length is allowed, the onMessage() loop takes    *)
(* that text from the front and leaves the others.  Only the frame of an   *)
(* empty text with nothing behind it is not taken.                         *)
THEOREM CodecReadsBack ==
  ASSUME NEW from, Good(from), Content(from) = << >>,
         NEW text \in Seq(Byte), EncodeAsserts(from, text),
         Len(text) < Width, Len(text) <= kMaxMessageSize,
         NEW b, Good(b), NEW more \in Seq(Byte),
         Content(b) = Content(encode(from, text)) \o more
  PROVE  IF text = << >> /\ more = << >> THEN ~CanDecode(b)
         ELSE CanDecode(b) /\ Message(b) = text /\ Content(Decode(b)) = more
<1>1. Content(encode(from, text)) = Cat(<< >>, Frame(text))
  BY EncodeContent DEF Frame
<1>2. Cat(<< >>, Frame(text)) = Frame(text)
  BY FrameTyped, ConcatEmptySeq DEF Cat
<1>3. Content(b) = Cat(Frame(text), more)
  BY <1>1, <1>2 DEF Cat
<1>4. QED
  BY <1>3, FrameReadFirst

=============================================================================
