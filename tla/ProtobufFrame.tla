----------------------------- MODULE ProtobufFrame -----------------------------
(***************************************************************************)
(* codec_test/protobuf_codec.h: encode() puts a message into a frame       *)
(*   len, nameLen, name NUL, payload, checksum                             *)
(* and createMessage() makes a message from a type name.  A byte is        *)
(* 0 .. 255, an integer four of them in network byte order.                *)
(*                                                                         *)
(* External: the payload is what AppendToString() adds, checksum is zlib's *)
(* adler32().  The repository has no decoder; Decoded is the one the layout*)
(* is meant for.                                                           *)
(***************************************************************************)
EXTENDS Integers, Sequences

CONSTANTS
  Names,        \* type names of the generated pool: sequences of bytes
  OtherNames,   \* type names it does not know
  Payloads      \* serialised messages

VARIABLE proto

kHeaderLen == 4

be32(n) == <<n \div (256 * 65536), (n \div 65536) % 256, (n \div 256) % 256, n % 256>>
value(s) == s[1] * (256 * 65536) + s[2] * 65536 + s[3] * 256 + s[4]

(* adler32(1, s): two sums modulo 65521, the second in the upper half.     *)
adler32(s) ==
  LET sums[i \in 0 .. Len(s)] ==
        IF i = 0 THEN [a |-> 1, b |-> 0]
        ELSE LET a == (sums[i - 1].a + s[i]) % 65521
             IN  [a |-> a, b |-> (sums[i - 1].b + a) % 65521]
      r == sums[Len(s)]
  IN  <<r.b \div 256, r.b % 256, r.a \div 256, r.a % 256>>

(* Mutant: the checksum starts behind the name's length. *)
encodeNarrow(name, payload) ==
  LET body == be32(Len(name) + 1) \o name \o <<0>> \o payload
  IN  be32(Len(body) + 4) \o body \o adler32(SubSeq(body, kHeaderLen + 1, Len(body)))

(* len is filled in last, and counts all that follows it.                  *)
encode(name, payload) ==
  LET body == be32(Len(name) + 1) \o name \o <<0>> \o payload
  IN  be32(Len(body) + 4) \o body \o adler32(body)

-----------------------------------------------------------------------------

Init == proto = [step |-> "start", name |-> << >>, payload |-> << >>, frame |-> << >>]

(* createMessage(): NULL for a name the pool does not know.                *)
createMessage ==
  /\ proto.step = "start"
  /\ \E name \in Names \cup OtherNames :
       proto' = [proto EXCEPT !.step = IF name \in Names THEN "message" ELSE "null", !.name = name]

(* encode() of the message with some fields set; if it cannot be serialised*)
(* the result is empty.                                                    *)
EncodeMessage ==
  /\ proto.step = "message"
  /\ \E payload \in Payloads :
       proto' \in { [proto EXCEPT !.step = "encoded", !.payload = payload,
                                  !.frame = encode(proto.name, payload)],
                    [proto EXCEPT !.step = "refused"] }

Next == createMessage \/ EncodeMessage

-----------------------------------------------------------------------------
(* Properties. *)

(* The reading of a frame of the layout: its name and payload, or nothing  *)
(* if a length or the checksum is wrong.                                   *)
Decoded(s) ==
  LET body    == SubSeq(s, kHeaderLen + 1, Len(s) - 4)
      nameLen == value(body)
  IN  IF /\ value(s) = Len(s) - kHeaderLen
         /\ adler32(body) = SubSeq(s, Len(s) - 3, Len(s))
         /\ nameLen \in 1 .. Len(body) - 4
         /\ body[4 + nameLen] = 0
      THEN <<SubSeq(body, 5, 3 + nameLen), SubSeq(body, 5 + nameLen, Len(body))>>
      ELSE << >>

(* What encode() builds is read back as it was, whatever the payload holds.*)
FrameReadable ==
  proto.step = "encoded" => Decoded(proto.frame) = <<proto.name, proto.payload>>
=============================================================================
