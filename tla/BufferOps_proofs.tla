---------------------------- MODULE BufferOps_proofs ----------------------------
(***************************************************************************)
(* What the methods of class Buffer do to a buffer whose indices are in    *)
(* order: the facts that the proofs about Buffer and ChatServer rest on.   *)
(***************************************************************************)
EXTENDS BufferOps, SequenceTheorems, WellFoundedInduction, TLAPS

USE BufferOpsAssumption

(* A buffer of the right type whose indices are inside the vector. *)
Good(b) ==
  /\ b \in BufferType
  /\ b.readerIndex <= b.writerIndex
  /\ b.writerIndex <= Len(b.store)

-----------------------------------------------------------------------------
(* The vector. *)

(* A function over 1..n with byte values is a sequence of n bytes. *)
LEMMA ByteSeq ==
  ASSUME NEW n \in Nat, NEW s \in [1 .. n -> Byte]
  PROVE  s \in Seq(Byte) /\ Len(s) = n
OBVIOUS

LEMMA NewBufferGood ==
  ASSUME NEW initialSize \in Nat
  PROVE  /\ Good(NewBuffer(initialSize))
         /\ Content(NewBuffer(initialSize)) = << >>
<1> DEFINE s == [i \in 1 .. initialSize |-> 0]
<1>1. s \in Seq(Byte) /\ Len(s) = initialSize
  BY ByteSeq DEF Byte
<1> HIDE DEF s
<1>2. NewBuffer(initialSize) = [store |-> s, readerIndex |-> 0, writerIndex |-> 0]
  BY DEF NewBuffer, s
<1>3. QED
  BY <1>1, <1>2 DEF Good, BufferType, Content

(* std::copy changes no size and puts data where it is told to. *)
LEMMA CopyToSeq ==
  ASSUME NEW s \in Seq(Byte), NEW at \in Nat, NEW data \in Seq(Byte)
  PROVE  /\ CopyTo(s, at, data) \in Seq(Byte)
         /\ Len(CopyTo(s, at, data)) = Len(s)
         /\ \A i \in 1 .. Len(s) :
              CopyTo(s, at, data)[i] =
                IF i - at \in 1 .. Len(data) THEN data[i - at] ELSE s[i]
<1>1. CopyTo(s, at, data) \in [1 .. Len(s) -> Byte]
  BY DEF CopyTo
<1>2. Len(s) \in Nat
  OBVIOUS
<1>3. QED
  BY <1>1, <1>2, ByteSeq DEF CopyTo

(* vector::resize() keeps the elements that fit. *)
LEMMA ResizeSeq ==
  ASSUME NEW s \in Seq(Byte), NEW n \in Nat
  PROVE  /\ Resize(s, n) \in Seq(Byte)
         /\ Len(Resize(s, n)) = n
         /\ \A i \in 1 .. n : i <= Len(s) => Resize(s, n)[i] = s[i]
<1>1. Resize(s, n) \in [1 .. n -> Byte]
  BY DEF Resize, Byte
<1>2. QED
  BY <1>1, ByteSeq DEF Resize

(* The readable bytes of a good buffer, element by element. *)
LEMMA ContentSeq ==
  ASSUME NEW b, Good(b)
  PROVE  /\ Content(b) \in Seq(Byte)
         /\ Len(Content(b)) = readableBytes(b)
         /\ readableBytes(b) \in Nat
         /\ \A i \in 1 .. readableBytes(b) : Content(b)[i] = b.store[b.readerIndex + i]
<1>1. /\ b.store \in Seq(Byte) /\ b.readerIndex \in Nat /\ b.writerIndex \in Nat
      /\ b.readerIndex <= b.writerIndex /\ b.writerIndex <= Len(b.store)
  BY DEF Good, BufferType
<1> DEFINE m == b.readerIndex + 1
           n == b.writerIndex
<1>2. /\ m \in Int /\ n \in Int
      /\ \A i \in m .. n : b.store[i] \in Byte
  BY <1>1
<1>3. /\ SubSeq(b.store, m, n) \in Seq(Byte)
      /\ Len(SubSeq(b.store, m, n)) = IF m <= n THEN n - m + 1 ELSE 0
      /\ \A i \in 1 .. n - m + 1 : SubSeq(b.store, m, n)[i] = b.store[m + i - 1]
  <2> HIDE DEF m, n
  <2> QED BY <1>2, SubSeqProperties
<1>4. readableBytes(b) = n - m + 1 /\ n - m + 1 \in Nat
  BY <1>1 DEF readableBytes
<1>5. Len(SubSeq(b.store, m, n)) = readableBytes(b)
  BY <1>1, <1>3, <1>4
<1>6. \A i \in 1 .. readableBytes(b) : m + i - 1 = b.readerIndex + i
  BY <1>1, <1>4
<1>7. QED
  BY <1>3, <1>4, <1>5, <1>6 DEF Content

(* Two good buffers with the same readable bytes have the same content.   *)
LEMMA SameContent ==
  ASSUME NEW b, Good(b), NEW c, Good(c),
         readableBytes(b) = readableBytes(c),
         \A i \in 1 .. readableBytes(b) :
            b.store[b.readerIndex + i] = c.store[c.readerIndex + i]
  PROVE  Content(b) = Content(c)
BY ContentSeq, SeqEqual

-----------------------------------------------------------------------------
(* makeSpace(): growing keeps the content, compacting trips an assert.     *)

LEMMA GrowKeeps ==
  ASSUME NEW b, Good(b), NEW len \in Nat
  PROVE  /\ Good(Grow(b, len))
         /\ readableBytes(Grow(b, len)) = readableBytes(b)
         /\ writeableBytes(Grow(b, len)) = len
         /\ Len(b.store) <= b.writerIndex + len => Content(Grow(b, len)) = Content(b)
<1>1. /\ b = [store |-> b.store, readerIndex |-> b.readerIndex, writerIndex |-> b.writerIndex]
      /\ b.store \in Seq(Byte) /\ b.readerIndex \in Nat /\ b.writerIndex \in Nat
      /\ b.readerIndex <= b.writerIndex /\ b.writerIndex <= Len(b.store)
  BY DEF Good, BufferType
<1> DEFINE s == Resize(b.store, b.writerIndex + len)
           c == [store |-> s, readerIndex |-> b.readerIndex, writerIndex |-> b.writerIndex]
<1>2. Grow(b, len) = c
  BY <1>1 DEF Grow
<1>3. b.writerIndex + len \in Nat
  BY <1>1
<1>4. /\ s \in Seq(Byte) /\ Len(s) = b.writerIndex + len
      /\ \A i \in 1 .. b.writerIndex + len : i <= Len(b.store) => s[i] = b.store[i]
  BY <1>1, <1>3, ResizeSeq
<1> HIDE DEF s
<1>5. Good(c)
  BY <1>1, <1>4 DEF Good, BufferType
<1>6. readableBytes(c) = readableBytes(b) /\ writeableBytes(c) = len
  BY <1>1, <1>4 DEF readableBytes, writeableBytes
<1>7. ASSUME Len(b.store) <= b.writerIndex + len
      PROVE  Content(c) = Content(b)
  <2>1. \A i \in 1 .. readableBytes(b) :
          b.store[b.readerIndex + i] = c.store[c.readerIndex + i]
    BY <1>1, <1>4 DEF readableBytes
  <2>2. QED
    BY <1>5, <1>6, <2>1, SameContent
<1>8. QED
  BY <1>2, <1>5, <1>6, <1>7

(* The compaction branch frees nothing: writerIndex_ is not moved, so the  *)
(* room behind it is the room that was too small to begin with.            *)
LEMMA CompactTripsAssert ==
  ASSUME NEW b, Good(b), NEW len \in Nat, writeableBytes(b) < len
  PROVE  writeableBytes(Compact(b)) < len
<1>1. b.store \in Seq(Byte) /\ b.writerIndex \in Nat
  BY DEF Good, BufferType
<1>2. Content(b) \in Seq(Byte)
  BY ContentSeq
<1>3. Len(CopyTo(b.store, 0, Content(b))) = Len(b.store)
  BY <1>1, <1>2, CopyToSeq
<1>4. QED
  BY <1>1, <1>3 DEF Compact, writeableBytes

(* What an append() that gets past its asserts has to work with.           *)
LEMMA EnsureKeeps ==
  ASSUME NEW b, Good(b), NEW len \in Nat, AppendAsserts(b, len)
  PROVE  LET c == ensureWriableBytes(b, len)
         IN  /\ Good(c)
             /\ writeableBytes(c) >= len
             /\ readableBytes(c) = readableBytes(b)
             /\ Content(c) = Content(b)
<1> DEFINE c == ensureWriableBytes(b, len)
<1>1. readableBytes(c) = readableBytes(b) /\ writeableBytes(c) >= len
  BY DEF AppendAsserts
<1>2. b.store \in Seq(Byte) /\ b.readerIndex \in Nat /\ b.writerIndex \in Nat
  BY DEF Good, BufferType
<1>3. CASE ~(writeableBytes(b) < len)
  BY <1>1, <1>3 DEF ensureWriableBytes
<1>4. CASE writeableBytes(b) < len /\ writeableBytes(b) + prependableBytes(b) < len
  <2>1. c = Grow(b, len)
    BY <1>4 DEF ensureWriableBytes, makeSpace
  <2>2. Len(b.store) <= b.writerIndex + len
    BY <1>2, <1>4 DEF writeableBytes
  <2>3. QED
    BY <1>1, <1>2, <2>1, <2>2, GrowKeeps
<1>5. CASE writeableBytes(b) < len /\ ~(writeableBytes(b) + prependableBytes(b) < len)
  <2>1. c = Compact(b)
    BY <1>5 DEF ensureWriableBytes, makeSpace
  <2>2. writeableBytes(c) < len
    BY <1>5, <2>1, CompactTripsAssert
  <2>3. writeableBytes(c) \in Int
    <3>1. Content(b) \in Seq(Byte)
      BY ContentSeq
    <3>2. Len(CopyTo(b.store, 0, Content(b))) = Len(b.store)
      BY <1>2, <3>1, CopyToSeq
    <3>3. QED
      BY <1>2, <2>1, <3>2 DEF Compact, writeableBytes
  <2>4. QED
    BY <1>1, <2>2, <2>3
<1>6. QED
  BY <1>3, <1>4, <1>5

-----------------------------------------------------------------------------
(* The methods, one by one: what each does to the content.                 *)

LEMMA ReadableOf ==
  ASSUME NEW s, NEW r, NEW w
  PROVE  readableBytes([store |-> s, readerIndex |-> r, writerIndex |-> w]) = w - r
BY DEF readableBytes

LEMMA AppendContent ==
  ASSUME NEW b, Good(b), NEW data \in Seq(Byte), AppendAsserts(b, Len(data))
  PROVE  /\ Good(append(b, data))
         /\ Content(append(b, data)) = Content(b) \o data
<1> DEFINE c == ensureWriableBytes(b, Len(data))
<1>1. /\ Good(c) /\ writeableBytes(c) >= Len(data)
      /\ Content(c) = Content(b)
  BY EnsureKeeps
<1>2. append(b, data) = [c EXCEPT !.store = CopyTo(@, c.writerIndex, data),
                                  !.writerIndex = @ + Len(data)]
  BY DEF append
<1> HIDE DEF c
<1>3. /\ c = [store |-> c.store, readerIndex |-> c.readerIndex, writerIndex |-> c.writerIndex]
      /\ c.store \in Seq(Byte) /\ c.readerIndex \in Nat /\ c.writerIndex \in Nat
      /\ c.readerIndex <= c.writerIndex /\ c.writerIndex <= Len(c.store)
  BY <1>1 DEF Good, BufferType
<1> DEFINE s == CopyTo(c.store, c.writerIndex, data)
           d == [store |-> s, readerIndex |-> c.readerIndex,
                 writerIndex |-> c.writerIndex + Len(data)]
<1>4. append(b, data) = d
  BY <1>2, <1>3
<1>5. /\ s \in Seq(Byte) /\ Len(s) = Len(c.store)
      /\ \A i \in 1 .. Len(c.store) :
           s[i] = IF i - c.writerIndex \in 1 .. Len(data)
                  THEN data[i - c.writerIndex] ELSE c.store[i]
  BY <1>3, CopyToSeq
<1> HIDE DEF s
<1>6. Good(d)
  BY <1>1, <1>3, <1>5 DEF Good, BufferType, writeableBytes
<1> DEFINE r == c.readerIndex
           w == c.writerIndex
           size == Len(c.store)
           m == readableBytes(c)
           n == Len(data)
<1>7. /\ m \in Nat /\ n \in Nat /\ r \in Nat /\ w \in Nat /\ size \in Nat
      /\ w = r + m
      /\ r + m + n <= size
      /\ readableBytes(d) = m + n
  <2>1. m = w - r /\ readableBytes(d) = (w + n) - r /\ size - w >= n
    <3>1. m = w - r
      BY Zenon DEF readableBytes
    <3>2. readableBytes(d) = (w + n) - r
      BY ReadableOf
    <3>3. size - w >= n
      BY <1>1, Zenon DEF writeableBytes
    <3>4. QED
      BY <3>1, <3>2, <3>3
  <2>2. r \in Nat /\ w \in Nat /\ size \in Nat /\ r <= w /\ n \in Nat
    BY <1>3
  <2> HIDE DEF m, n, r, w, size, d
  <2>3. QED
    BY <2>1, <2>2
<1>8. /\ Content(c) \in Seq(Byte) /\ Len(Content(c)) = m
      /\ \A i \in 1 .. m : Content(c)[i] = c.store[r + i]
  BY <1>1, ContentSeq
<1>9. /\ Content(d) \in Seq(Byte) /\ Len(Content(d)) = m + n
      /\ \A i \in 1 .. m + n : Content(d)[i] = s[r + i]
  BY <1>6, <1>7, ContentSeq
<1>10. \A j \in 1 .. size : s[j] = IF j - w \in 1 .. n THEN data[j - w] ELSE c.store[j]
  BY <1>5
<1> HIDE DEF d, m, n, r, w, size
<1>11. ASSUME NEW i \in 1 .. m + n
       PROVE  s[r + i] = IF i <= m THEN c.store[r + i] ELSE data[i - m]
  <2>1. /\ r + i \in 1 .. size
        /\ (r + i) - w = i - m
        /\ i - m \in 1 .. n <=> ~(i <= m)
    BY <1>7
  <2>2. QED
    BY <1>10, <2>1
<1>12. \A i \in 1 .. m + n :
         (Content(c) \o data)[i] = IF i <= m THEN Content(c)[i] ELSE data[i - m]
  BY <1>7, <1>8, ConcatProperties DEF n
<1>13. Content(c) \o data \in Seq(Byte) /\ Len(Content(c) \o data) = m + n
  BY <1>8, ConcatProperties DEF n
<1>14. \A i \in 1 .. m + n : Content(d)[i] = (Content(c) \o data)[i]
  <2> SUFFICES ASSUME NEW i \in 1 .. m + n
               PROVE  Content(d)[i] = (Content(c) \o data)[i]
    OBVIOUS
  <2>1. Content(d)[i] = IF i <= m THEN c.store[r + i] ELSE data[i - m]
    BY <1>9, <1>11
  <2>2. i <= m => i \in 1 .. m
    BY <1>7
  <2>3. QED
    BY <1>8, <1>12, <2>1, <2>2
<1>15. Content(d) = Content(c) \o data
  BY <1>9, <1>13, <1>14, SeqEqual
<1>16. QED
  BY <1>1, <1>4, <1>6, <1>15

LEMMA RetrieveAllContent ==
  ASSUME NEW b, Good(b)
  PROVE  /\ Good(retrieveAll(b))
         /\ Content(retrieveAll(b)) = << >>
<1>1. /\ b = [store |-> b.store, readerIndex |-> b.readerIndex, writerIndex |-> b.writerIndex]
      /\ b.store \in Seq(Byte)
  BY DEF Good, BufferType
<1> DEFINE d == [store |-> b.store, readerIndex |-> 0, writerIndex |-> 0]
<1>2. retrieveAll(b) = d
  BY DEF retrieveAll
<1>3. Good(d)
  BY <1>1 DEF Good, BufferType
<1>4. Content(d) \in Seq(Byte) /\ Len(Content(d)) = 0
  BY <1>3, ContentSeq DEF readableBytes
<1>5. QED
  BY <1>2, <1>3, <1>4

LEMMA RetrieveContent ==
  ASSUME NEW b, Good(b), NEW len \in Nat, RetrieveAsserts(b, len)
  PROVE  /\ Good(retrieve(b, len))
         /\ len \in 0 .. Len(Content(b))
         /\ Content(retrieve(b, len)) = SubSeq(Content(b), len + 1, Len(Content(b)))
<1>1. /\ b = [store |-> b.store, readerIndex |-> b.readerIndex, writerIndex |-> b.writerIndex]
      /\ b.store \in Seq(Byte) /\ b.readerIndex \in Nat /\ b.writerIndex \in Nat
      /\ b.readerIndex <= b.writerIndex /\ b.writerIndex <= Len(b.store)
  BY DEF Good, BufferType
<1>2. /\ Content(b) \in Seq(Byte) /\ Len(Content(b)) = readableBytes(b)
      /\ readableBytes(b) \in Nat
      /\ \A i \in 1 .. readableBytes(b) : Content(b)[i] = b.store[b.readerIndex + i]
  BY ContentSeq
<1>3. len \in 0 .. Len(Content(b))
  BY <1>2 DEF RetrieveAsserts
<1> DEFINE r == SubSeq(Content(b), len + 1, readableBytes(b))
<1>4. /\ r \in Seq(Byte)
      /\ Len(r) = readableBytes(b) - len
      /\ \A i \in 1 .. readableBytes(b) - len : r[i] = Content(b)[len + i]
  <2> DEFINE m == len + 1
             n == readableBytes(b)
  <2>1. m \in Int /\ n \in Int /\ \A i \in m .. n : Content(b)[i] \in Byte
    BY <1>2
  <2>2. /\ SubSeq(Content(b), m, n) \in Seq(Byte)
        /\ Len(SubSeq(Content(b), m, n)) = IF m <= n THEN n - m + 1 ELSE 0
        /\ \A i \in 1 .. n - m + 1 : SubSeq(Content(b), m, n)[i] = Content(b)[m + i - 1]
    <3> HIDE DEF m, n
    <3> QED BY <2>1, SubSeqProperties
  <2>3. n - m + 1 = readableBytes(b) - len /\ \A i \in Int : m + i - 1 = len + i
    BY <1>2
  <2>4. r \in Seq(Byte)
    BY <2>2
  <2>5. (IF m <= n THEN n - m + 1 ELSE 0) = readableBytes(b) - len
    BY <1>2, <1>3
  <2>6. Len(r) = readableBytes(b) - len
    BY <2>2, <2>5
  <2>7. ASSUME NEW i \in 1 .. readableBytes(b) - len
        PROVE  r[i] = Content(b)[len + i]
    <3>1. i \in 1 .. n - m + 1 /\ m + i - 1 = len + i
      BY <1>2, <2>3
    <3>2. r[i] = Content(b)[m + i - 1]
      BY <2>2, <3>1
    <3>3. QED
      BY <3>1, <3>2
  <2>8. QED
    BY <2>4, <2>6, <2>7
<1>5. CASE len < readableBytes(b)
  <2> DEFINE d == [store |-> b.store, readerIndex |-> b.readerIndex + len,
                   writerIndex |-> b.writerIndex]
  <2>1. retrieve(b, len) = d
    BY <1>1, <1>5 DEF retrieve
  <2>2. Good(d)
    BY <1>1, <1>5 DEF Good, BufferType, readableBytes
  <2>3. /\ Content(d) \in Seq(Byte) /\ Len(Content(d)) = readableBytes(b) - len
        /\ \A i \in 1 .. readableBytes(b) - len : Content(d)[i] = b.store[b.readerIndex + len + i]
    BY <1>1, <2>2, ContentSeq DEF readableBytes
  <2>4. \A i \in 1 .. readableBytes(b) - len : Content(d)[i] = r[i]
    <3>1. \A i \in 1 .. readableBytes(b) - len :
            /\ len + i \in 1 .. readableBytes(b)
            /\ b.readerIndex + len + i = b.readerIndex + (len + i)
      BY <1>1, <1>2
    <3>2. ASSUME NEW i \in 1 .. readableBytes(b) - len
          PROVE  Content(d)[i] = r[i]
      <4> HIDE DEF d, r
      <4>1. Content(d)[i] = b.store[b.readerIndex + (len + i)]
        BY <2>3, <3>1
      <4>2. Content(b)[len + i] = b.store[b.readerIndex + (len + i)]
        BY <1>2, <3>1
      <4>3. QED
        BY <1>4, <4>1, <4>2
    <3>3. QED
      BY <3>2
  <2>5. Content(d) = r
    <3> HIDE DEF d, r
    <3> QED BY <1>4, <2>3, <2>4, SeqEqual
  <2>6. QED
    BY <1>2, <1>3, <2>1, <2>2, <2>5
<1>6. CASE ~(len < readableBytes(b))
  <2>1. retrieve(b, len) = retrieveAll(b) /\ len = readableBytes(b)
    BY <1>2, <1>3, <1>6 DEF retrieve
  <2>2. r = << >>
    <3> HIDE DEF r
    <3> QED BY <1>2, <1>4, <2>1
  <2>3. QED
    BY <1>2, <1>3, <2>1, <2>2, RetrieveAllContent
<1>7. QED
  BY <1>5, <1>6

-----------------------------------------------------------------------------
(* Functions defined by recursion on an interval, and the two conversions  *)
(* of a 32-bit integer.                                                    *)

LEMMA SetInduction ==
  ASSUME NEW T, 0 \in T, \A n \in Nat : n \in T => n + 1 \in T
  PROVE  \A n \in Nat : n \in T
<1> DEFINE Bad == Nat \ T
<1>1. SUFFICES ASSUME Bad # {} PROVE FALSE
  OBVIOUS
<1>2. PICK m \in Bad : \A k \in Bad : <<k, m>> \notin OpToRel(<, Nat)
  BY <1>1, WFMin, NatLessThanWellFounded, Zenon
<1>3. m \in Nat /\ m # 0 /\ m \notin T
  OBVIOUS
<1>4. m - 1 \in Nat /\ m - 1 < m /\ (m - 1) + 1 = m
  BY <1>3
<1>5. m - 1 \notin T
  BY <1>3, <1>4
<1>6. <<m - 1, m>> \in OpToRel(<, Nat)
  BY <1>3, <1>4 DEF OpToRel
<1>7. QED
  BY <1>2, <1>4, <1>5, <1>6

(* f follows the recursion: base first, then one step after the other. *)
Follows(f, base, step, lo, n) ==
  \A k \in lo .. n : f[k] = IF k = lo THEN base ELSE step[<<k, f[k - 1]>>]

LEMMA RecursionExists ==
  ASSUME NEW S, NEW base \in S, NEW lo \in Int, NEW n \in Int, NEW step,
         \A k \in lo + 1 .. n : \A x \in S : step[<<k, x>>] \in S
  PROVE  \E f \in [lo .. n -> S] : Follows(f, base, step, lo, n)
<1> DEFINE Solves(f, j) == f \in [lo .. lo + j -> S] /\ Follows(f, base, step, lo, lo + j)
           Solved == {j \in Nat : lo + j <= n => \E f : Solves(f, j)}
<1>1. 0 \in Solved
  <2>1. Solves([k \in lo .. lo + 0 |-> base], 0)
    BY DEF Follows
  <2>2. QED
    BY <2>1
<1>2. ASSUME NEW j \in Nat, j \in Solved
      PROVE  j + 1 \in Solved
  <2>1. SUFFICES ASSUME lo + (j + 1) <= n PROVE \E f : Solves(f, j + 1)
    OBVIOUS
  <2>2. PICK f : Solves(f, j)
    BY <1>2, <2>1
  <2> DEFINE z == lo + j
             y == lo + (j + 1)
             g == [k \in lo .. y |-> IF k = y THEN step[<<y, f[z]>>] ELSE f[k]]
  <2>3. /\ z \in Int /\ y \in Int /\ lo <= z /\ y = z + 1 /\ y - 1 = z /\ y \in lo + 1 .. n
    BY <2>1
  <2>4. f \in [lo .. z -> S] /\ Follows(f, base, step, lo, z)
    BY <2>2
  <2> HIDE DEF z, y
  <2>5. step[<<y, f[z]>>] \in S
    BY <2>3, <2>4
  <2>6. g \in [lo .. y -> S]
    BY <2>3, <2>4, <2>5
  <2>7. ASSUME NEW k \in lo .. y
        PROVE  g[k] = IF k = lo THEN base ELSE step[<<k, g[k - 1]>>]
    <3>1. CASE k = y
      <4>1. g[z] = f[z] /\ g[y] = step[<<y, f[z]>>] /\ y # lo
        BY <2>3
      <4>2. QED
        BY <2>3, <3>1, <4>1
    <3>2. CASE k # y
      <4>1. k \in lo .. z /\ k # y
        BY <2>3, <3>2
      <4>2. g[k] = f[k]
        BY <4>1
      <4>3. CASE k = lo
        BY <2>4, <4>1, <4>2, <4>3 DEF Follows
      <4>4. CASE k # lo
        <5>1. k - 1 \in lo .. y /\ k - 1 # y
          BY <2>3, <4>1, <4>4
        <5>2. g[k - 1] = f[k - 1]
          BY <5>1
        <5>3. f[k] = step[<<k, f[k - 1]>>]
          BY <2>4, <4>1, <4>4 DEF Follows
        <5>4. QED
          BY <4>2, <4>4, <5>2, <5>3
      <4>5. QED
        BY <4>3, <4>4
    <3>3. QED
      BY <3>1, <3>2
  <2> HIDE DEF g
  <2>8. Solves(g, j + 1)
    BY <2>6, <2>7 DEF Follows, y
  <2>9. QED
    BY <2>8
<1>3. \A j \in Nat : j \in Solved
  <2> HIDE DEF Solved
  <2> QED BY <1>1, <1>2, SetInduction
<1>4. CASE lo <= n
  <2>1. n - lo \in Nat /\ lo + (n - lo) = n
    BY <1>4
  <2> DEFINE j == n - lo
  <2> HIDE DEF j
  <2>2. j \in Nat /\ lo + j = n
    BY <2>1 DEF j
  <2>3. PICK f : Solves(f, j)
    BY <1>3, <2>2
  <2>4. QED
    BY <2>2, <2>3
<1>5. CASE ~(lo <= n)
  <2>1. [k \in lo .. n |-> base] \in [lo .. n -> S] /\ ~(\E k \in lo .. n : TRUE)
    BY <1>5
  <2>2. QED
    BY <2>1 DEF Follows
<1>6. QED
  BY <1>4, <1>5

(* What htonl and ntohl are made of: n without its k lowest bytes, and the *)
(* value of the first i bytes.                                             *)
Shifts(f, n) ==
  /\ f \in [0 .. HeaderLen -> Nat] /\ f[0] = n
  /\ \A k \in 1 .. HeaderLen : f[k] = f[k - 1] \div Radix

Values(f, s) ==
  /\ f \in [0 .. Len(s) -> Nat] /\ f[0] = 0
  /\ \A i \in 1 .. Len(s) : f[i] = f[i - 1] * Radix + s[i]

LEMMA HtonlShifts ==
  ASSUME NEW n \in Nat
  PROVE  \E f : Shifts(f, n) /\ htonl(n) = [i \in 1 .. HeaderLen |-> f[HeaderLen - i] % Radix]
<1> DEFINE shifted == CHOOSE f : f = [k \in 0 .. HeaderLen |-> IF k = 0 THEN n ELSE f[k - 1] \div Radix]
           step    == [p \in (0 .. HeaderLen) \X Nat |-> p[2] \div Radix]
<1>1. htonl(n) = [i \in 1 .. HeaderLen |-> shifted[HeaderLen - i] % Radix]
  BY DEF htonl
<1>2. /\ \A x \in Nat : x \div Radix \in Nat
      /\ \A k \in 0 + 1 .. HeaderLen : \A x \in Nat : step[<<k, x>>] = x \div Radix
  <2>1. Radix \in Nat /\ Radix > 1
    OBVIOUS
  <2>2. ASSUME NEW x \in Nat
        PROVE  x \div Radix \in Nat
    BY <2>1
  <2>3. \A k \in 0 + 1 .. HeaderLen : \A x \in Nat : <<k, x>> \in (0 .. HeaderLen) \X Nat
    OBVIOUS
  <2>4. QED
    BY <2>2, <2>3
<1> HIDE DEF step
<1>3. PICK f \in [0 .. HeaderLen -> Nat] : Follows(f, n, step, 0, HeaderLen)
  <2>1. \A k \in 0 + 1 .. HeaderLen : \A x \in Nat : step[<<k, x>>] \in Nat
    BY <1>2
  <2>2. 0 \in Int /\ HeaderLen \in Int
    OBVIOUS
  <2>3. QED
    BY <2>1, <2>2, RecursionExists
<1>4. f = [k \in 0 .. HeaderLen |-> IF k = 0 THEN n ELSE f[k - 1] \div Radix]
  <2>1. ASSUME NEW k \in 0 .. HeaderLen
        PROVE  f[k] = IF k = 0 THEN n ELSE f[k - 1] \div Radix
    <3>1. CASE k = 0
      BY <1>3, <3>1 DEF Follows
    <3>2. CASE k # 0
      <4>1. k \in 0 + 1 .. HeaderLen /\ f[k - 1] \in Nat
        BY <3>2
      <4>2. f[k] = step[<<k, f[k - 1]>>]
        BY <1>3, <3>2 DEF Follows
      <4>3. QED
        BY <1>2, <3>2, <4>1, <4>2
    <3>3. QED
      BY <3>1, <3>2
  <2>2. QED
    BY <2>1
<1>5. shifted = [k \in 0 .. HeaderLen |-> IF k = 0 THEN n ELSE shifted[k - 1] \div Radix]
  BY <1>4
<1> HIDE DEF shifted
<1>6. \A k \in 0 .. HeaderLen : shifted[k] \in Nat
  <2> DEFINE T == {k \in Nat : k <= HeaderLen => shifted[k] \in Nat}
  <2>1. 0 \in T
    BY <1>5
  <2>2. ASSUME NEW k \in Nat, k \in T
        PROVE  k + 1 \in T
    <3>1. SUFFICES ASSUME k + 1 <= HeaderLen PROVE shifted[k + 1] \in Nat
      OBVIOUS
    <3>2. k + 1 \in 0 .. HeaderLen /\ k + 1 # 0 /\ (k + 1) - 1 = k /\ shifted[k] \in Nat
      BY <2>2, <3>1
    <3>3. shifted[k + 1] = shifted[k] \div Radix
      BY <1>5, <3>2
    <3>4. QED
      BY <1>2, <3>2, <3>3
  <2>3. \A k \in Nat : k \in T
    <3> HIDE DEF T
    <3> QED BY <2>1, <2>2, SetInduction
  <2>4. QED
    BY <2>3
<1>7. shifted \in [0 .. HeaderLen -> Nat]
  BY <1>5, <1>6
<1>8. Shifts(shifted, n)
  <2>1. 0 \in 0 .. HeaderLen /\ \A k \in 1 .. HeaderLen : k \in 0 .. HeaderLen /\ k # 0
    OBVIOUS
  <2>2. shifted[0] = n /\ \A k \in 1 .. HeaderLen : shifted[k] = shifted[k - 1] \div Radix
    BY <1>5, <2>1
  <2>3. QED
    BY <1>7, <2>2 DEF Shifts
<1>9. QED
  BY <1>1, <1>8

LEMMA NtohlValues ==
  ASSUME NEW s \in Seq(Byte)
  PROVE  \E f : Values(f, s) /\ ntohl(s) = f[Len(s)]
<1> DEFINE n     == Len(s)
           value == CHOOSE f : f = [i \in 0 .. Len(s) |-> IF i = 0 THEN 0 ELSE f[i - 1] * Radix + s[i]]
           step  == [p \in (0 .. n) \X Nat |-> p[2] * Radix + s[p[1]]]
<1>1. ntohl(s) = value[n]
  BY DEF ntohl
<1>2. /\ n \in Nat
      /\ \A k \in 1 .. n : \A x \in Nat : x * Radix + s[k] \in Nat
      /\ \A k \in 1 .. n : \A x \in Nat : step[<<k, x>>] = x * Radix + s[k]
  <2>1. n \in Nat /\ \A k \in 1 .. n : s[k] \in Nat
    BY DEF Byte
  <2>2. ASSUME NEW k \in 1 .. n, NEW x \in Nat
        PROVE  x * Radix + s[k] \in Nat
    BY <2>1
  <2>3. \A k \in 1 .. n : \A x \in Nat : <<k, x>> \in (0 .. n) \X Nat
    OBVIOUS
  <2>4. QED
    BY <2>1, <2>2, <2>3
<1> HIDE DEF step
<1>3. PICK f \in [0 .. n -> Nat] : Follows(f, 0, step, 0, n)
  <2> HIDE DEF n
  <2>1. \A k \in 0 + 1 .. n : \A x \in Nat : step[<<k, x>>] \in Nat
    <3>1. ASSUME NEW k \in 0 + 1 .. n, NEW x \in Nat
          PROVE  step[<<k, x>>] \in Nat
      <4>1. k \in 1 .. n
        BY <1>2
      <4>2. QED
        BY <1>2, <4>1
    <3>2. QED
      BY <3>1
  <2>2. 0 \in Int /\ n \in Int /\ 0 \in Nat
    BY <1>2
  <2>3. QED
    BY <2>1, <2>2, RecursionExists
<1>4. f = [i \in 0 .. n |-> IF i = 0 THEN 0 ELSE f[i - 1] * Radix + s[i]]
  <2>1. ASSUME NEW k \in 0 .. n
        PROVE  f[k] = IF k = 0 THEN 0 ELSE f[k - 1] * Radix + s[k]
    <3>1. CASE k = 0
      BY <1>3, <3>1 DEF Follows
    <3>2. CASE k # 0
      <4>1. k \in 1 .. n /\ f[k - 1] \in Nat
        BY <1>2, <3>2
      <4>2. f[k] = step[<<k, f[k - 1]>>]
        BY <1>3, <3>2 DEF Follows
      <4>3. QED
        BY <1>2, <3>2, <4>1, <4>2
    <3>3. QED
      BY <3>1, <3>2
  <2>2. QED
    BY <2>1
<1>5. value = [i \in 0 .. n |-> IF i = 0 THEN 0 ELSE value[i - 1] * Radix + s[i]]
  BY <1>4
<1> HIDE DEF value, n
<1> DEFINE T == {k \in Nat : k <= n => value[k] \in Nat}
<1>6. 0 \in T
  BY <1>2, <1>5
<1>7. ASSUME NEW k \in Nat, k \in T
      PROVE  k + 1 \in T
  <2>1. SUFFICES ASSUME k + 1 <= n PROVE value[k + 1] \in Nat
    OBVIOUS
  <2> DEFINE j == k + 1
  <2>2. j \in 1 .. n /\ j \in 0 .. n /\ j # 0 /\ j - 1 = k /\ value[k] \in Nat
    BY <1>2, <1>7, <2>1
  <2> HIDE DEF j
  <2>3. value[j] = value[k] * Radix + s[j]
    BY <1>5, <2>2
  <2>4. value[k] * Radix + s[j] \in Nat
    BY <1>2, <2>2
  <2>5. QED
    BY <2>3, <2>4 DEF j
<1>8. \A k \in 0 .. n : value[k] \in Nat
  <2>1. \A k \in Nat : k \in T
    <3> HIDE DEF T
    <3> QED BY <1>6, <1>7, SetInduction
  <2>2. ASSUME NEW k \in 0 .. n
        PROVE  value[k] \in Nat
    <3>1. k \in Nat /\ k <= n
      BY <1>2
    <3>2. QED
      BY <2>1, <3>1
  <2>3. QED
    BY <2>2
<1>9. value \in [0 .. n -> Nat] /\ value[0] = 0
      /\ \A i \in 1 .. n : value[i] = value[i - 1] * Radix + s[i]
  <2>1. value \in [0 .. n -> Nat]
    BY <1>5, <1>8
  <2>2. 0 \in 0 .. n /\ \A i \in 1 .. n : i \in 0 .. n /\ i # 0
    BY <1>2
  <2>3. QED
    BY <1>5, <2>1, <2>2
<1>10. Values(value, s)
  BY <1>9 DEF Values, n
<1>11. QED
  BY <1>1, <1>10 DEF n

LEMMA HtonlSeq ==
  ASSUME NEW n \in Nat
  PROVE  htonl(n) \in Seq(Byte) /\ Len(htonl(n)) = HeaderLen
<1>1. PICK f : Shifts(f, n) /\ htonl(n) = [i \in 1 .. HeaderLen |-> f[HeaderLen - i] % Radix]
  BY HtonlShifts
<1>2. \A i \in 1 .. HeaderLen : f[HeaderLen - i] % Radix \in Byte
  <2>1. \A i \in 1 .. HeaderLen : HeaderLen - i \in 0 .. HeaderLen
    OBVIOUS
  <2>2. ASSUME NEW x \in Nat
        PROVE  x % Radix \in Byte
    BY DEF Byte
  <2>3. \A i \in 1 .. HeaderLen : f[HeaderLen - i] \in Nat
    BY <1>1, <2>1 DEF Shifts
  <2>4. QED
    BY <2>2, <2>3
<1>3. htonl(n) \in [1 .. HeaderLen -> Byte]
  BY <1>1, <1>2
<1>4. QED
  BY <1>3, ByteSeq

LEMMA NtohlNat ==
  ASSUME NEW s \in Seq(Byte)
  PROVE  ntohl(s) \in Nat
<1>1. PICK f : Values(f, s) /\ ntohl(s) = f[Len(s)]
  BY NtohlValues
<1>2. Len(s) \in 0 .. Len(s)
  OBVIOUS
<1>3. QED
  BY <1>1, <1>2 DEF Values

LEMMA DivisionParts ==
  ASSUME NEW x \in Nat
  PROVE  /\ x \div Radix \in Nat /\ x % Radix \in Nat
         /\ (x \div Radix) * Radix + (x % Radix) = x
<1>1. Radix \in Nat /\ Radix > 0
  OBVIOUS
<1>2. QED
  BY <1>1

Powers(f) ==
  /\ f \in [0 .. HeaderLen -> Nat] /\ f[0] = 1
  /\ \A k \in 1 .. HeaderLen : f[k] = f[k - 1] * Radix

LEMMA WidthPowers == \E f : Powers(f) /\ Width = f[HeaderLen]
<1> DEFINE power == CHOOSE f : f = [k \in 0 .. HeaderLen |-> IF k = 0 THEN 1 ELSE f[k - 1] * Radix]
           step  == [p \in (0 .. HeaderLen) \X Nat |-> p[2] * Radix]
<1>1. Width = power[HeaderLen]
  BY DEF Width
<1>2. \A k \in 0 + 1 .. HeaderLen : \A x \in Nat :
        step[<<k, x>>] = x * Radix /\ step[<<k, x>>] \in Nat
  <2>1. \A k \in 0 + 1 .. HeaderLen : \A x \in Nat : <<k, x>> \in (0 .. HeaderLen) \X Nat
    OBVIOUS
  <2>2. \A x \in Nat : x * Radix \in Nat
    OBVIOUS
  <2>3. QED
    BY <2>1, <2>2
<1> HIDE DEF step
<1>3. PICK f \in [0 .. HeaderLen -> Nat] : Follows(f, 1, step, 0, HeaderLen)
  <2>1. 0 \in Int /\ HeaderLen \in Int /\ 1 \in Nat
    OBVIOUS
  <2>2. QED
    BY <1>2, <2>1, RecursionExists
<1>4. f[0] = 1
  <2>1. 0 \in 0 .. HeaderLen
    OBVIOUS
  <2>2. QED
    BY <1>3, <2>1 DEF Follows
<1>5. ASSUME NEW k \in 1 .. HeaderLen
      PROVE  f[k] = f[k - 1] * Radix
  <2>1. k \in 0 .. HeaderLen /\ k # 0 /\ k \in 0 + 1 .. HeaderLen /\ f[k - 1] \in Nat
    BY <1>3
  <2>2. f[k] = step[<<k, f[k - 1]>>]
    BY <1>3, <2>1 DEF Follows
  <2>3. QED
    BY <1>2, <2>1, <2>2
<1>6. f = [k \in 0 .. HeaderLen |-> IF k = 0 THEN 1 ELSE f[k - 1] * Radix]
  <2>1. \A k \in 0 .. HeaderLen : k = 0 \/ k \in 1 .. HeaderLen
    OBVIOUS
  <2>2. QED
    BY <1>3, <1>4, <1>5, <2>1
<1>7. power = [k \in 0 .. HeaderLen |-> IF k = 0 THEN 1 ELSE power[k - 1] * Radix]
  BY <1>6
<1> HIDE DEF power
<1> DEFINE T == {k \in Nat : k <= HeaderLen => power[k] \in Nat}
<1>8. 0 \in 0 .. HeaderLen /\ power[0] = 1
  BY <1>7
<1>9. ASSUME NEW k \in 1 .. HeaderLen
      PROVE  power[k] = power[k - 1] * Radix
  BY <1>7
<1>10. ASSUME NEW k \in Nat, k \in T
       PROVE  k + 1 \in T
  <2>1. SUFFICES ASSUME k + 1 <= HeaderLen PROVE power[k + 1] \in Nat
    OBVIOUS
  <2>2. k + 1 \in 1 .. HeaderLen /\ (k + 1) - 1 = k /\ power[k] \in Nat
    BY <1>10, <2>1
  <2>3. power[k + 1] = power[k] * Radix
    BY <1>9, <2>2
  <2>4. QED
    BY <2>2, <2>3
<1>11. 0 \in T
  BY <1>8
<1>12. \A k \in Nat : k \in T
  <2> HIDE DEF T
  <2> QED BY <1>10, <1>11, SetInduction
<1>13. \A k \in 0 .. HeaderLen : power[k] \in Nat
  BY <1>12
<1>14. power \in [0 .. HeaderLen -> Nat]
  BY <1>7, <1>13
<1>15. Powers(power)
  BY <1>8, <1>9, <1>14 DEF Powers
<1>16. QED
  BY <1>1, <1>15

LEMMA ScaledDown ==
  ASSUME NEW n \in Nat, NEW x \in Nat, NEW q \in Nat, NEW r \in Nat, NEW p \in Nat,
         q * Radix + r = x, x * p <= n
  PROVE  q * (p * Radix) <= n
<1>1. q * Radix \in Nat /\ q * Radix <= x
  OBVIOUS
<1> DEFINE y == q * Radix
<1>2. q * (p * Radix) = y * p
  OBVIOUS
<1> HIDE DEF y
<1>3. y * p <= x * p
  BY <1>1 DEF y
<1>4. y * p \in Nat /\ x * p \in Nat
  BY <1>1 DEF y
<1>5. QED
  BY <1>2, <1>3, <1>4

(* A number that HeaderLen bytes can hold comes back as it was written.    *)
LEMMA NtohlHtonl ==
  ASSUME NEW n \in Nat, n < Width
  PROVE  ntohl(htonl(n)) = n
<1> DEFINE s == htonl(n)
<1>1. PICK f : Shifts(f, n) /\ s = [i \in 1 .. HeaderLen |-> f[HeaderLen - i] % Radix]
  BY HtonlShifts
<1>2. s \in Seq(Byte) /\ Len(s) = HeaderLen
  BY HtonlSeq
<1> HIDE DEF s
<1>3. PICK v : Values(v, s) /\ ntohl(s) = v[HeaderLen]
  BY <1>2, NtohlValues
<1>4. PICK p : Powers(p) /\ Width = p[HeaderLen]
  BY WidthPowers
<1>5. ASSUME NEW k \in 1 .. HeaderLen
      PROVE  /\ f[k] \in Nat /\ f[k - 1] \in Nat /\ p[k] \in Nat /\ p[k - 1] \in Nat
             /\ f[k] = f[k - 1] \div Radix /\ p[k] = p[k - 1] * Radix
             /\ f[k - 1] % Radix \in Nat /\ f[k] * Radix + (f[k - 1] % Radix) = f[k - 1]
  <2>1. k \in 0 .. HeaderLen /\ k - 1 \in 0 .. HeaderLen
    OBVIOUS
  <2>2. /\ f[k] \in Nat /\ f[k - 1] \in Nat /\ p[k] \in Nat /\ p[k - 1] \in Nat
        /\ f[k] = f[k - 1] \div Radix /\ p[k] = p[k - 1] * Radix
    BY <1>1, <1>4, <2>1 DEF Shifts, Powers
  <2>3. QED
    BY <2>2, DivisionParts
<1> DEFINE Small == {k \in Nat : k <= HeaderLen => f[k] * p[k] <= n}
<1>6. 0 \in Small
  BY <1>1, <1>4 DEF Shifts, Powers
<1>7. ASSUME NEW k \in Nat, k \in Small
      PROVE  k + 1 \in Small
  <2>1. SUFFICES ASSUME k + 1 <= HeaderLen PROVE f[k + 1] * p[k + 1] <= n
    OBVIOUS
  <2>2. k + 1 \in 1 .. HeaderLen /\ (k + 1) - 1 = k /\ f[k] * p[k] <= n
    BY <1>7, <2>1
  <2> DEFINE x == f[k]
             q == f[k + 1]
             r == f[k] % Radix
             b == p[k]
  <2>3. /\ x \in Nat /\ q \in Nat /\ r \in Nat /\ b \in Nat
        /\ q * Radix + r = x /\ x * b <= n /\ p[k + 1] = b * Radix
    BY <1>5, <2>2
  <2> HIDE DEF x, q, r, b
  <2>4. q * (b * Radix) <= n
    BY <2>3, ScaledDown
  <2>5. QED
    BY <2>3, <2>4 DEF q
<1>8. f[HeaderLen] = 0
  <2>1. HeaderLen \in Small
    <3> HIDE DEF Small
    <3>1. \A k \in Nat : k \in Small
      BY <1>6, <1>7, SetInduction
    <3>2. QED
      BY <3>1
  <2> DEFINE x == f[HeaderLen]
             w == p[HeaderLen]
  <2>2. x \in Nat /\ w \in Nat /\ x * w <= n /\ n < w
    <3>1. HeaderLen \in 1 .. HeaderLen
      OBVIOUS
    <3>2. QED
      BY <1>4, <1>5, <2>1, <3>1
  <2> HIDE DEF x, w
  <2>3. x = 0
    <3>1. SUFFICES ASSUME x >= 1 PROVE FALSE
      BY <2>2
    <3>2. x * w >= w
      BY <2>2, <3>1
    <3>3. x * w \in Nat
      BY <2>2
    <3>4. QED
      BY <2>2, <3>2, <3>3
  <2>4. QED
    BY <2>3 DEF x
<1> DEFINE Same == {i \in Nat : i <= HeaderLen => v[i] = f[HeaderLen - i]}
<1>9. 0 \in Same
  BY <1>3, <1>8 DEF Values
<1>10. ASSUME NEW i \in Nat, i \in Same
       PROVE  i + 1 \in Same
  <2>1. SUFFICES ASSUME i + 1 <= HeaderLen PROVE v[i + 1] = f[HeaderLen - (i + 1)]
    OBVIOUS
  <2> DEFINE j == HeaderLen - i
             m == i + 1
  <2>2. /\ j \in 1 .. HeaderLen /\ j - 1 = HeaderLen - m /\ m \in 1 .. HeaderLen /\ m - 1 = i
        /\ v[i] = f[j]
    BY <1>10, <2>1
  <2> HIDE DEF j, m
  <2>3. v[m] = v[i] * Radix + s[m]
    BY <1>2, <1>3, <2>2 DEF Values
  <2>4. s[m] = f[j - 1] % Radix
    BY <1>1, <2>2
  <2>5. f[j] * Radix + (f[j - 1] % Radix) = f[j - 1]
    BY <1>5, <2>2
  <2>6. v[m] = f[HeaderLen - m]
    BY <2>2, <2>3, <2>4, <2>5
  <2>7. QED
    BY <2>6 DEF m
<1>11. v[HeaderLen] = f[0]
  <2>1. HeaderLen \in Same
    <3> HIDE DEF Same
    <3>1. \A k \in Nat : k \in Same
      BY <1>9, <1>10, SetInduction
    <3>2. QED
      BY <3>1
  <2>2. HeaderLen - HeaderLen = 0
    OBVIOUS
  <2>3. QED
    BY <2>1, <2>2
<1>12. QED
  BY <1>1, <1>3, <1>11 DEF Shifts, s

LEMMA WidthHoldsOne == Width \in Nat /\ 1 < Width
<1>1. PICK p : Powers(p) /\ Width = p[HeaderLen]
  BY WidthPowers
<1> DEFINE T == {k \in Nat : k + 1 <= HeaderLen => p[k + 1] > 1}
<1>2. ASSUME NEW k \in 1 .. HeaderLen
      PROVE  p[k] = p[k - 1] * Radix /\ p[k - 1] \in Nat /\ p[k] \in Nat
  <2>1. k - 1 \in 0 .. HeaderLen /\ k \in 0 .. HeaderLen
    OBVIOUS
  <2>2. QED
    BY <1>1, <2>1 DEF Powers
<1>3. 0 \in T
  <2>1. 1 \in 1 .. HeaderLen /\ 1 - 1 = 0 /\ 0 + 1 = 1
    OBVIOUS
  <2>2. p[1] = 1 * Radix
    BY <1>1, <1>2, <2>1 DEF Powers
  <2>3. QED
    BY <2>1, <2>2
<1>4. ASSUME NEW k \in Nat, k \in T
      PROVE  k + 1 \in T
  <2>1. SUFFICES ASSUME (k + 1) + 1 <= HeaderLen PROVE p[(k + 1) + 1] > 1
    OBVIOUS
  <2> DEFINE m == (k + 1) + 1
  <2>2. m \in 1 .. HeaderLen /\ m - 1 = k + 1 /\ p[k + 1] > 1
    BY <1>4, <2>1
  <2> HIDE DEF m
  <2> DEFINE x == p[m - 1]
  <2>3. p[m] = x * Radix /\ x \in Nat /\ x > 1
    BY <1>2, <2>2
  <2> HIDE DEF x
  <2>4. x * Radix > 1
    BY <2>3
  <2>5. QED
    BY <2>3, <2>4 DEF m
<1>5. \A k \in Nat : k \in T
  <2> HIDE DEF T
  <2> QED BY <1>3, <1>4, SetInduction
<1>6. HeaderLen - 1 \in Nat /\ (HeaderLen - 1) + 1 = HeaderLen /\ HeaderLen \in 1 .. HeaderLen
  OBVIOUS
<1>7. p[HeaderLen] > 1 /\ p[HeaderLen] \in Nat
  <2>1. HeaderLen - 1 \in T
    BY <1>5, <1>6
  <2>2. p[HeaderLen] > 1
    BY <1>6, <2>1
  <2>3. QED
    BY <1>2, <1>6, <2>2
<1>8. QED
  BY <1>1, <1>7

=============================================================================
