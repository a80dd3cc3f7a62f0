----------------------------- MODULE Buffer_proofs -----------------------------
(***************************************************************************)
(* Machine-checked proofs about class Buffer: the indices stay inside the  *)
(* vector, append() aborts exactly in the compaction branch, and the class *)
(* implements the FIFO of bytes of module ByteQueue.                       *)
(***************************************************************************)
EXTENDS Buffer, BufferOps_proofs

USE BufferOpsAssumption, BufferAssumption

(* The inductive invariant.  IndexOrder, the rest of TypeOK, follows from Good. *)
Typed ==
  /\ bufs \in [Buffers -> BufferType]
  /\ aborted \in BOOLEAN

IInv == (\A x \in Buffers : Good(bufs[x])) /\ Typed

-----------------------------------------------------------------------------
(* The invariant and the theorems.                                         *)

LEMMA InitInvariant == Init => IInv
<1> SUFFICES ASSUME Init PROVE IInv
  OBVIOUS
<1>1. \A x \in Buffers : bufs[x] = NewBuffer(InitialSize)
  BY DEF Init
<1>2. \A x \in Buffers : Good(bufs[x])
  BY <1>1, NewBufferGood
<1>3. Typed
  BY <1>2, NewBufferGood DEF Init, Typed, Good
<1>4. QED
  BY <1>2, <1>3 DEF IInv

(* A call that leaves its buffer good keeps the invariant.                 *)
LEMMA CallInvariant ==
  ASSUME NEW x \in Buffers, NEW asserts \in BOOLEAN, NEW result,
         IInv, Call(x, asserts, result), asserts => Good(result)
  PROVE  IInv'
<1>1. CASE asserts
  <2>1. /\ bufs' = [bufs EXCEPT ![x] = result]
        /\ aborted' = FALSE
    BY <1>1 DEF Call
  <2>2. \A y \in Buffers : bufs'[y] = IF y = x THEN result ELSE bufs[y]
    BY <2>1 DEF IInv, Typed
  <2>3. \A y \in Buffers : Good(bufs'[y])
    BY <1>1, <2>2 DEF IInv
  <2>4. result \in BufferType
    BY <1>1 DEF Good
  <2>5. Typed'
    BY <2>1, <2>4 DEF IInv, Typed
  <2>6. QED
    BY <2>3, <2>5 DEF IInv
<1>2. CASE ~asserts
  BY <1>2 DEF Call, IInv, Typed
<1>3. QED
  BY <1>1, <1>2
LEMMA DataSeq ==
  /\ \A data \in Data : data \in Seq(Byte)
  /\ \A nn \in Word : nn \in Seq(Byte) /\ Len(nn) = HeaderLen
<1>1. ASSUME NEW data \in Data PROVE data \in Seq(Byte)
  <2>1. PICK n \in 0 .. MaxLen : data \in [1 .. n -> Byte]
    BY DEF Data
  <2>2. QED
    BY <2>1, ByteSeq
<1>2. ASSUME NEW nn \in Word PROVE nn \in Seq(Byte) /\ Len(nn) = HeaderLen
  BY ByteSeq DEF Word
<1>3. QED
  BY <1>1, <1>2

LEMMA NextInvariant == IInv /\ [Next]_vars => IInv'
<1> SUFFICES ASSUME IInv, [Next]_vars PROVE IInv'
  OBVIOUS
<1>1. ASSUME NEW x \in Buffers, NEW data \in Data, Append_(x, data)
      PROVE  IInv'
  <2>1. data \in Seq(Byte) /\ Good(bufs[x])
    BY DataSeq DEF IInv
  <2>2. AppendAsserts(bufs[x], Len(data)) \in BOOLEAN
    BY DEF AppendAsserts
  <2>3. QED
    BY <1>1, <2>1, <2>2, AppendContent, CallInvariant DEF Append_
<1>2. ASSUME NEW x \in Buffers, NEW nn \in Word, WriteUInt32(x, nn)
      PROVE  IInv'
  <2>1. nn \in Seq(Byte) /\ Len(nn) = HeaderLen /\ Good(bufs[x])
    BY DataSeq DEF IInv
  <2>2. AppendAsserts(bufs[x], HeaderLen) \in BOOLEAN
    BY DEF AppendAsserts
  <2>3. QED
    BY <1>2, <2>1, <2>2, AppendContent, CallInvariant DEF WriteUInt32
<1>3. ASSUME NEW x \in Buffers, NEW len \in 0 .. MaxLen, Retrieve(x, len)
      PROVE  IInv'
  <2>1. Good(bufs[x]) /\ len \in Nat
    BY DEF IInv
  <2>2. RetrieveAsserts(bufs[x], len) \in BOOLEAN
    BY DEF RetrieveAsserts
  <2>3. QED
    BY <1>3, <2>1, <2>2, RetrieveContent, CallInvariant DEF Retrieve
<1>4. ASSUME NEW x \in Buffers, RetrieveAll(x)
      PROVE  IInv'
  BY <1>4, RetrieveAllContent, CallInvariant DEF RetrieveAll, IInv
<1>5. ASSUME NEW x \in Buffers, ReadUInt32(x)
      PROVE  IInv'
  <2>1. PeekAsserts(bufs[x]) <=> RetrieveAsserts(bufs[x], HeaderLen)
    BY DEF PeekAsserts, RetrieveAsserts, readableBytes, IInv, Good, BufferType
  <2>2. Good(bufs[x]) /\ PeekAsserts(bufs[x]) \in BOOLEAN
    BY DEF IInv, PeekAsserts
  <2>3. QED
    BY <1>5, <2>1, <2>2, RetrieveContent, CallInvariant DEF ReadUInt32, retrieveUInt32
<1>6. ASSUME NEW x \in Buffers, NEW y \in Buffers, Swap(x, y)
      PROVE  IInv'
  <2>1. \A z \in Buffers : bufs'[z] = IF z = y THEN bufs[x] ELSE IF z = x THEN bufs[y] ELSE bufs[z]
    BY <1>6 DEF Swap, IInv, Typed
  <2>2. \A z \in Buffers : Good(bufs'[z])
    BY <2>1 DEF IInv
  <2>3. Typed'
    BY <1>6 DEF Swap, IInv, Typed
  <2>4. QED
    BY <2>2, <2>3 DEF IInv
<1>7. CASE UNCHANGED vars
  BY <1>7 DEF vars, IInv, Typed
<1>8. QED
  BY <1>1, <1>2, <1>3, <1>4, <1>5, <1>6, <1>7 DEF Next

LEMMA Invariance == Spec => []IInv
<1>1. QED
  BY InitInvariant, NextInvariant, PTL DEF Spec

(* Every Buffer keeps well-typed contents and ordered indices.             *)
THEOREM TypeCorrect == Spec => []TypeOK
<1>1. IInv => IndexOrder
  BY DEF IInv, IndexOrder, Good
<1>2. IInv => TypeOK
  BY <1>1 DEF IInv, Typed, TypeOK
<1>3. QED
  BY <1>2, Invariance, PTL

(* The last part of it: readerIndex_ <= writerIndex_ <= buffer_.size()     *)
(* after any calls, so that peek() and beginWrite() stay inside the vector.*)
THEOREM IndicesOrdered == Spec => []IndexOrder
<1>1. IInv => IndexOrder
  BY DEF IInv, IndexOrder, Good
<1>2. QED
  BY <1>1, Invariance, PTL

LEMMA AppendAssertsExactly ==
  ASSUME NEW b, Good(b), NEW len \in Nat
  PROVE  ~AppendAsserts(b, len)
           <=> len \in writeableBytes(b) + 1 .. writeableBytes(b) + prependableBytes(b)
<1>1. /\ b.store \in Seq(Byte) /\ b.readerIndex \in Nat /\ b.writerIndex \in Nat
      /\ b.readerIndex <= b.writerIndex /\ b.writerIndex <= Len(b.store)
  BY DEF Good, BufferType
<1>2. /\ writeableBytes(b) \in Nat /\ prependableBytes(b) \in Nat
      /\ readableBytes(b) \in Nat
  BY <1>1 DEF writeableBytes, prependableBytes, readableBytes
<1>3. CASE len <= writeableBytes(b)
  <2>1. ensureWriableBytes(b, len) = b
    BY <1>2, <1>3 DEF ensureWriableBytes
  <2>2. QED
    BY <1>2, <1>3, <2>1 DEF AppendAsserts
<1>4. CASE writeableBytes(b) + prependableBytes(b) < len
  <2>1. ensureWriableBytes(b, len) = Grow(b, len)
    BY <1>2, <1>4 DEF ensureWriableBytes, makeSpace
  <2>2. QED
    BY <1>2, <1>4, <2>1, GrowKeeps DEF AppendAsserts
<1>5. CASE writeableBytes(b) < len /\ len <= writeableBytes(b) + prependableBytes(b)
  <2>1. ensureWriableBytes(b, len) = Compact(b)
    BY <1>2, <1>5 DEF ensureWriableBytes, makeSpace
  <2>2. ~(writeableBytes(Compact(b)) >= len)
    <3>1. Content(b) \in Seq(Byte)
      BY ContentSeq
    <3>2. Len(CopyTo(b.store, 0, Content(b))) = Len(b.store)
      BY <1>1, <3>1, CopyToSeq
    <3>3. writeableBytes(Compact(b)) = writeableBytes(b)
      BY <1>1, <3>2 DEF Compact, writeableBytes
    <3>4. QED
      BY <1>2, <1>5, <3>3
  <2>3. QED
    BY <1>2, <1>5, <2>1, <2>2 DEF AppendAsserts
<1>6. QED
  BY <1>2, <1>3, <1>4, <1>5

(* An append() aborts the process if and only if the bytes would fit once  *)
(* the consumed prefix were reclaimed: compaction never succeeds.          *)
THEOREM CompactionAlwaysAborts == Spec => []AppendAbortsOnlyOnCompaction
<1>1. IInv => AppendAbortsOnlyOnCompaction
  BY AppendAssertsExactly DEF IInv, AppendAbortsOnlyOnCompaction
<1>2. QED
  BY <1>1, Invariance, PTL

-----------------------------------------------------------------------------
(* Refinement: the mapping of module Buffer onto ByteQueue.                *)

LEMMA CallQueue ==
  ASSUME NEW x \in Buffers, NEW asserts \in BOOLEAN, NEW result,
         IInv, Call(x, asserts, result)
  PROVE  /\ asserts =>
              /\ Queue' = [Queue EXCEPT ![x] = Content(result)]
              /\ aborted' = FALSE
         /\ ~asserts => Queue' = Queue /\ aborted' = TRUE
<1>1. CASE asserts
  <2>1. \A y \in Buffers : bufs'[y] = IF y = x THEN result ELSE bufs[y]
    BY <1>1 DEF Call, IInv, Typed
  <2>2. Queue' = [Queue EXCEPT ![x] = Content(result)]
    BY <2>1 DEF Queue
  <2>3. QED
    BY <1>1, <2>2 DEF Call
<1>2. CASE ~asserts
  BY <1>2 DEF Call, Queue
<1>3. QED
  BY <1>1, <1>2

(* An append() of data is a Put, or the Abort of a failed assert.          *)
LEMMA AppendImplements ==
  ASSUME IInv, ~aborted, NEW x \in Buffers, NEW data \in Data \cup Word,
         Call(x, AppendAsserts(bufs[x], Len(data)), append(bufs[x], data))
  PROVE  FIFO!Next
<1>1. data \in Seq(Byte) /\ Good(bufs[x])
  BY DataSeq DEF IInv
<1>2. AppendAsserts(bufs[x], Len(data)) \in BOOLEAN
  BY DEF AppendAsserts
<1>3. Queue[x] = Content(bufs[x])
  BY DEF Queue
<1>4. CASE AppendAsserts(bufs[x], Len(data))
  <2>1. Content(append(bufs[x], data)) = Queue[x] \o data
    BY <1>1, <1>3, <1>4, AppendContent
  <2>2. Queue' = [Queue EXCEPT ![x] = Content(append(bufs[x], data))] /\ aborted' = FALSE
    BY <1>2, <1>4, CallQueue
  <2>3. Queue' = [Queue EXCEPT ![x] = Queue[x] \o data]
    BY <2>1, <2>2
  <2>4. FIFO!Put(x, data)
    BY <2>2, <2>3 DEF FIFO!Put, IInv, Typed
  <2>5. QED
    BY <2>4 DEF FIFO!Next
<1>5. CASE ~AppendAsserts(bufs[x], Len(data))
  BY <1>2, <1>5, CallQueue DEF FIFO!Next, FIFO!Abort
<1>6. QED
  BY <1>4, <1>5

(* A retrieve() of n bytes is a Take, or the Abort of a failed assert.     *)
LEMMA RetrieveImplements ==
  ASSUME IInv, ~aborted, NEW x \in Buffers, NEW n \in Nat,
         Call(x, RetrieveAsserts(bufs[x], n), retrieve(bufs[x], n))
  PROVE  FIFO!Next
<1>1. Good(bufs[x]) /\ Queue[x] = Content(bufs[x])
  BY DEF IInv, Queue
<1>2. RetrieveAsserts(bufs[x], n) \in BOOLEAN
  BY DEF RetrieveAsserts
<1>3. CASE RetrieveAsserts(bufs[x], n)
  <2>1. /\ n \in 0 .. Len(Queue[x])
        /\ Content(retrieve(bufs[x], n)) = SubSeq(Queue[x], n + 1, Len(Queue[x]))
    BY <1>1, <1>3, RetrieveContent
  <2>2. /\ Queue' = [Queue EXCEPT ![x] = Content(retrieve(bufs[x], n))]
        /\ aborted' = FALSE
    BY <1>2, <1>3, CallQueue
  <2>3. FIFO!Take(x, n)
    BY <2>1, <2>2 DEF FIFO!Take, IInv, Typed
  <2>4. QED
    BY <2>1, <2>3 DEF FIFO!Next
<1>4. CASE ~RetrieveAsserts(bufs[x], n)
  BY <1>2, <1>4, CallQueue DEF FIFO!Next, FIFO!Abort
<1>5. QED
  BY <1>3, <1>4

LEMMA InitImplements == Init => FIFO!Init
<1> SUFFICES ASSUME Init PROVE FIFO!Init
  OBVIOUS
<1>1. \A x \in Buffers : Content(bufs[x]) = << >>
  BY NewBufferGood DEF Init
<1>2. QED
  BY <1>1 DEF Init, FIFO!Init, Queue

LEMMA StepImplements == IInv /\ [Next]_vars => [FIFO!Next]_(FIFO!vars)
<1> SUFFICES ASSUME IInv, [Next]_vars PROVE FIFO!Next \/ UNCHANGED FIFO!vars
  OBVIOUS
<1>1. ASSUME NEW x \in Buffers, NEW data \in Data, Append_(x, data), ~aborted
      PROVE  FIFO!Next
  BY <1>1, AppendImplements DEF Append_
<1>2. ASSUME NEW x \in Buffers, NEW nn \in Word, WriteUInt32(x, nn), ~aborted
      PROVE  FIFO!Next
  BY <1>2, AppendImplements, DataSeq DEF WriteUInt32
<1>3. ASSUME NEW x \in Buffers, NEW len \in 0 .. MaxLen, Retrieve(x, len), ~aborted
      PROVE  FIFO!Next
  BY <1>3, RetrieveImplements DEF Retrieve
<1>4. ASSUME NEW x \in Buffers, RetrieveAll(x), ~aborted
      PROVE  FIFO!Next
  <2>1. /\ Good(bufs[x]) /\ Queue[x] = Content(bufs[x])
        /\ Content(retrieveAll(bufs[x])) = << >>
    BY RetrieveAllContent DEF IInv, Queue
  <2>2. /\ Queue' = [Queue EXCEPT ![x] = << >>]
        /\ aborted' = FALSE
    BY <1>4, <2>1, CallQueue DEF RetrieveAll
  <2>3. Queue[x] \in Seq(Byte) /\ Len(Queue[x]) \in Nat
    BY <2>1, ContentSeq
  <2>4. SubSeq(Queue[x], Len(Queue[x]) + 1, Len(Queue[x])) = << >>
    BY <2>3
  <2>5. FIFO!Take(x, Len(Queue[x]))
    BY <1>4, <2>2, <2>4 DEF FIFO!Take, IInv, Typed
  <2>6. QED
    BY <1>4, <2>3, <2>5 DEF FIFO!Next
<1>5. ASSUME NEW x \in Buffers, ReadUInt32(x), ~aborted
      PROVE  FIFO!Next
  <2>1. PeekAsserts(bufs[x]) = RetrieveAsserts(bufs[x], HeaderLen)
    BY DEF PeekAsserts, RetrieveAsserts, readableBytes, IInv, Good, BufferType
  <2>2. QED
    BY <1>5, <2>1, RetrieveImplements DEF ReadUInt32, retrieveUInt32
<1>6. ASSUME NEW x \in Buffers, NEW y \in Buffers, Swap(x, y), ~aborted
      PROVE  FIFO!Next
  <2>1. Queue' = [Queue EXCEPT ![x] = Queue[y], ![y] = Queue[x]]
    BY <1>6 DEF Swap, Queue, IInv, Typed
  <2>2. FIFO!Exchange(x, y)
    BY <1>6, <2>1 DEF FIFO!Exchange, Swap
  <2>3. QED
    BY <1>6, <2>2 DEF FIFO!Next
<1>7. CASE UNCHANGED vars
  BY <1>7 DEF vars, FIFO!vars, Queue
<1>8. QED
  BY <1>1, <1>2, <1>3, <1>4, <1>5, <1>6, <1>7 DEF Next

(* Whatever calls are made, each Buffer is a lossless FIFO of bytes until  *)
(* an assert stops the process.                                            *)
THEOREM BufferImplementsByteQueue == Spec => FIFOSpec
<1>1. QED
  BY InitImplements, StepImplements, Invariance, PTL DEF Spec, FIFOSpec, FIFO!Spec
=============================================================================
