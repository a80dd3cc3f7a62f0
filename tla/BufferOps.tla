------------------------------ MODULE BufferOps ------------------------------
(***************************************************************************)
(* class Buffer of common/buffer/Buffer.h, as operators on a record        *)
(*   [store, readerIndex, writerIndex]                                     *)
(* store is the vector buffer_ (Len(store) is buffer_.size()); the         *)
(* readable bytes are store[readerIndex+1 .. writerIndex].  Each operator  *)
(* returns the buffer the method leaves behind.  An assert of the class is *)
(* a predicate of its own: the build sets no NDEBUG, so a caller whose     *)
(* assert is false aborts the process.                                     *)
(***************************************************************************)
EXTENDS Integers, Sequences

CONSTANTS
  Radix,      \* values of one byte are 0 .. Radix-1 (256 in the code)
  HeaderLen   \* sizeof(uint32_t)

ASSUME BufferOpsAssumption ==
  /\ Radix \in Nat \ {0, 1}
  /\ HeaderLen \in Nat \ {0}

Byte == 0 .. Radix - 1

BufferType ==
  [store : Seq(Byte), readerIndex : Nat, writerIndex : Nat]

-----------------------------------------------------------------------------
(* Construction and the size accessors. *)

NewBuffer(initialSize) ==
  [store |-> [i \in 1 .. initialSize |-> 0], readerIndex |-> 0, writerIndex |-> 0]

readableBytes(b) == b.writerIndex - b.readerIndex
writeableBytes(b) == Len(b.store) - b.writerIndex
prependableBytes(b) == b.readerIndex

(* The bytes from peek() on that are readable. *)
Content(b) == SubSeq(b.store, b.readerIndex + 1, b.writerIndex)

-----------------------------------------------------------------------------
(* Taking bytes out. *)

retrieveAll(b) == [store |-> b.store, readerIndex |-> 0, writerIndex |-> 0]

(* Mutant: readerIndex_ moves the wrong way. *)
RetrieveBackwards(b, len) ==
  IF len < readableBytes(b)
  THEN [b EXCEPT !.readerIndex = @ - len]
  ELSE retrieveAll(b)

retrieve(b, len) ==
  IF len < readableBytes(b)
  THEN [b EXCEPT !.readerIndex = @ + len]
  ELSE retrieveAll(b)

(* retrieve() and retrieveAsString() both assert(len <= readableBytes()). *)
RetrieveAsserts(b, len) == len <= readableBytes(b)

-----------------------------------------------------------------------------
(* Putting bytes in. *)

(* Mutant: a fresh vector instead of a resized one. *)
ResizeFresh(s, n) == [i \in 1 .. n |-> 0]

(* buffer_.resize(n): keep what fits, zero the rest. *)
Resize(s, n) == [i \in 1 .. n |-> IF i <= Len(s) THEN s[i] ELSE 0]

(* std::copy of data to begin() + at. *)
CopyTo(s, at, data) ==
  [i \in 1 .. Len(s) |-> IF i - at \in 1 .. Len(data) THEN data[i - at] ELSE s[i]]

Grow(b, len) == [b EXCEPT !.store = Resize(@, b.writerIndex + len)]

(* The readable bytes move to the front; readerIndex_ is cleared BEFORE it *)
(* is subtracted from writerIndex_, which therefore keeps its value.       *)
Compact(b) ==
  LET newReader == 0
  IN  [store       |-> CopyTo(b.store, 0, Content(b)),
       readerIndex |-> newReader,
       writerIndex |-> b.writerIndex - newReader]

(* Mutant: an exact fit is no longer left to the compaction branch. *)
MakeSpaceGrowsOnExactFit(b, len) ==
  IF writeableBytes(b) + prependableBytes(b) <= len THEN Grow(b, len) ELSE Compact(b)

makeSpace(b, len) ==
  IF writeableBytes(b) + prependableBytes(b) < len
  THEN Grow(b, len)
  ELSE Compact(b)

ensureWriableBytes(b, len) ==
  IF writeableBytes(b) < len THEN makeSpace(b, len) ELSE b

(* assert(readable == readableBytes()) in makeSpace and                    *)
(* assert(writeableBytes() >= len) in ensureWriableBytes.                  *)
AppendAsserts(b, len) ==
  LET c == ensureWriableBytes(b, len)
  IN  /\ readableBytes(c) = readableBytes(b)
      /\ writeableBytes(c) >= len

(* Mutant: ensureWriableBytes() is forgotten. *)
AppendUnchecked(b, data) ==
  [b EXCEPT !.store = CopyTo(@, b.writerIndex, data),
            !.writerIndex = @ + Len(data)]

append(b, data) ==
  LET c == ensureWriableBytes(b, Len(data))
  IN  [c EXCEPT !.store = CopyTo(@, c.writerIndex, data),
                !.writerIndex = @ + Len(data)]

-----------------------------------------------------------------------------
(* 32-bit integers in network byte order, HeaderLen bytes of base Radix.   *)

(* shifted[k]: n without its k lowest bytes.                               *)
htonl(n) ==
  LET shifted[k \in 0 .. HeaderLen] == IF k = 0 THEN n ELSE shifted[k - 1] \div Radix
  IN  [i \in 1 .. HeaderLen |-> shifted[HeaderLen - i] % Radix]

ntohl(s) ==
  LET value[i \in 0 .. Len(s)] ==
        IF i = 0 THEN 0 ELSE value[i - 1] * Radix + s[i]
  IN  value[Len(s)]

(* How many numbers HeaderLen bytes tell apart, 2^32. *)
Width ==
  LET power[k \in 0 .. HeaderLen] == IF k = 0 THEN 1 ELSE power[k - 1] * Radix
  IN  power[HeaderLen]

writeUInt32(b, n) == append(b, htonl(n))

(* peekUInt32() asserts readableBytes() >= sizeof(int32_t). *)
PeekAsserts(b) == readableBytes(b) >= HeaderLen

peekUInt32(b) == ntohl(SubSeq(Content(b), 1, HeaderLen))

retrieveUInt32(b) == retrieve(b, HeaderLen)
=============================================================================
