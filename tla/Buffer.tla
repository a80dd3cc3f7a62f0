-------------------------------- MODULE Buffer --------------------------------
(***************************************************************************)
(* The Buffer objects of one process, driven by every legal call of the    *)
(* class (common/buffer/Buffer.h, Buffer.cpp).  A call whose assert is     *)
(* false aborts the process and changes nothing else.                      *)
(***************************************************************************)
EXTENDS BufferOps

CONSTANTS
  Buffers,      \* the Buffer objects of the process
  InitialSize,  \* constructor argument, kInitialSize by default
  MaxLen,       \* bound: longest append() and largest retrieve() explored
  MaxSize       \* bound: no append() past this many stored bytes is explored

ASSUME BufferAssumption ==
  /\ InitialSize \in Nat
  /\ MaxLen \in Nat
  /\ MaxSize \in Nat

VARIABLES
  bufs,         \* bufs[x]: the Buffer object x
  aborted       \* an assert has failed, the process is gone

vars == <<bufs, aborted>>

(* The arguments append() is called with. *)
Data == UNION {[1 .. n -> Byte] : n \in 0 .. MaxLen}

(* The network-order bytes of a uint32_t. *)
Word == [1 .. HeaderLen -> Byte]

-----------------------------------------------------------------------------

Init ==
  /\ bufs = [x \in Buffers |-> NewBuffer(InitialSize)]
  /\ aborted = FALSE

(* A call on buffer x that is only good if its assert holds. *)
Call(x, asserts, result) ==
  /\ bufs' = IF asserts THEN [bufs EXCEPT ![x] = result] ELSE bufs
  /\ aborted' = ~asserts

Append_(x, data) ==
  /\ bufs[x].writerIndex + Len(data) <= MaxSize
  /\ Call(x, AppendAsserts(bufs[x], Len(data)), append(bufs[x], data))

(* writeUInt32(hn) appends htonl(hn): any HeaderLen bytes, see htonl.      *)
WriteUInt32(x, nn) ==
  /\ bufs[x].writerIndex + HeaderLen <= MaxSize
  /\ Call(x, AppendAsserts(bufs[x], HeaderLen), append(bufs[x], nn))

Retrieve(x, len) ==
  Call(x, RetrieveAsserts(bufs[x], len), retrieve(bufs[x], len))

RetrieveAll(x) ==
  Call(x, TRUE, retrieveAll(bufs[x]))

ReadUInt32(x) ==
  Call(x, PeekAsserts(bufs[x]), retrieveUInt32(bufs[x]))

Swap(x, y) ==
  /\ bufs' = [bufs EXCEPT ![x] = bufs[y], ![y] = bufs[x]]
  /\ UNCHANGED aborted

Next ==
  /\ ~aborted
  /\ \/ \E x \in Buffers, data \in Data : Append_(x, data)
     \/ \E x \in Buffers, nn \in Word : WriteUInt32(x, nn)
     \/ \E x \in Buffers, len \in 0 .. MaxLen : Retrieve(x, len)
     \/ \E x \in Buffers : RetrieveAll(x)
     \/ \E x \in Buffers : ReadUInt32(x)
     \/ \E x, y \in Buffers : Swap(x, y)

Spec == Init /\ [][Next]_vars

-----------------------------------------------------------------------------
(* Properties. *)

(* The indices stay ordered inside the vector, so peek() and beginWrite()  *)
(* never point outside buffer_, whatever sequence of calls led here.       *)
IndexOrder ==
  \A x \in Buffers :
    /\ bufs[x].readerIndex <= bufs[x].writerIndex
    /\ bufs[x].writerIndex <= Len(bufs[x].store)

(* Every buffer is a Buffer, its class invariant included. *)
TypeOK ==
  /\ bufs \in [Buffers -> BufferType]
  /\ aborted \in BOOLEAN
  /\ IndexOrder

(* append() aborts in exactly one situation: the bytes do not fit behind   *)
(* writerIndex_ but would fit if the consumed prefix were reclaimed, which *)
(* is the situation the compaction branch of makeSpace() exists for.       *)
AppendAbortsOnlyOnCompaction ==
  \A x \in Buffers, len \in 0 .. MaxLen :
    LET room == writeableBytes(bufs[x])
    IN  ~AppendAsserts(bufs[x], len)
          <=> len \in room + 1 .. room + prependableBytes(bufs[x])

(* The buffers implement the FIFO of module ByteQueue. *)
Queue == [x \in Buffers |-> Content(bufs[x])]

FIFO == INSTANCE ByteQueue WITH queue <- Queue, Chunks <- Data \cup Word

FIFOSpec == FIFO!Spec

(* Buffer.h:115 asserts that makeSpace() leaves the number of readable     *)
(* bytes alone, for any request an append() may make of it.                *)
MakeSpaceKeepsReadable ==
  \A x \in Buffers, len \in 1 .. MaxLen :
    writeableBytes(bufs[x]) < len
      => readableBytes(makeSpace(bufs[x], len)) = readableBytes(bufs[x])
=============================================================================
