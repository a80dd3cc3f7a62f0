-------------------------------- MODULE Codec --------------------------------
(***************************************************************************)
(* class Codec (chat/Codec.h, chat/Codec.cpp): length-prefixed frames over *)
(* a Buffer, as operators.  A frame is a 32-bit length and that many bytes.*)
(* chat_server and chat_client both run this code.                         *)
(***************************************************************************)
EXTENDS BufferOps

CONSTANT
  kMaxMessageSize   \* longest message the decoder accepts, 4096 in the code

ASSUME CodecAssumption == kMaxMessageSize \in Nat

-----------------------------------------------------------------------------
(* Decoding: the conditions of the loop in onMessage().                    *)

(* peekUInt32() is stored in an int: the upper half of the values is       *)
(* negative and is refused along with the lengths over the maximum.        *)
TooLong(b) == peekUInt32(b) > kMaxMessageSize

HasHeader(b) == readableBytes(b) > HeaderLen

(* Mutant: the last byte of a frame is expected to be followed by another. *)
CanDecodeLate(b) ==
  /\ HasHeader(b)
  /\ ~TooLong(b)
  /\ peekUInt32(b) + HeaderLen < readableBytes(b)

(* Mutant: an oversized message is delivered like any other. *)
CanDecodeAnySize(b) ==
  HasHeader(b) /\ peekUInt32(b) + HeaderLen <= readableBytes(b)

(* The loop goes round once more: a whole frame is buffered.               *)
CanDecode(b) ==
  /\ HasHeader(b)
  /\ ~TooLong(b)
  /\ peekUInt32(b) + HeaderLen <= readableBytes(b)

(* The loop gives up on an oversized length and leaves it in the buffer.   *)
Wedged(b) == HasHeader(b) /\ TooLong(b)

(* retrieveUInt32(), then retrieveAsString(len).                           *)
Message(b) == SubSeq(Content(b), HeaderLen + 1, HeaderLen + peekUInt32(b))

(* Mutant: the length is taken out, the message stays. *)
DecodeKeepsMessage(b) == retrieveUInt32(b)

Decode(b) == retrieve(retrieveUInt32(b), peekUInt32(b))

-----------------------------------------------------------------------------
(* Encoding.                                                               *)

(* A const char* ends at its first NUL byte, whatever the std::string held.*)
CString(msg) ==
  LET strlen == CHOOSE n \in 0 .. Len(msg) :
                  /\ \A i \in 1 .. n : msg[i] # 0
                  /\ n = Len(msg) \/ msg[n + 1] = 0
  IN  SubSeq(msg, 1, strlen)

EncodeAsserts(b, msg) ==
  /\ AppendAsserts(b, HeaderLen)
  /\ AppendAsserts(writeUInt32(b, Len(msg)), Len(msg))

encode(b, msg) == append(writeUInt32(b, Len(msg)), msg)
=============================================================================
