------------------------------ MODULE FrameCodec ------------------------------
(***************************************************************************)
(* What the decoding side of a Codec promises: the bytes that are read, in *)
(* whatever chunks they arrive, are cut into frames strictly from the      *)
(* front.  No byte is skipped, no frame is delivered twice or out of order,*)
(* and nothing is delivered behind an oversized length.                    *)
(***************************************************************************)
EXTENDS Codec

VARIABLES
  stream,     \* bytes received and not yet delivered as messages
  messages,   \* the messages delivered so far
  stopped     \* the process has ended

vars == <<stream, messages, stopped>>

Init ==
  /\ stream = << >>
  /\ messages = << >>
  /\ stopped = FALSE

(* More bytes arrive behind those already there. *)
Receive ==
  /\ Len(stream') >= Len(stream)
  /\ SubSeq(stream', 1, Len(stream)) = stream
  /\ UNCHANGED <<messages, stopped>>

(* The frame at the head of the stream is complete and acceptable. *)
Deliver ==
  /\ Len(stream) >= HeaderLen
  /\ LET len == ntohl(SubSeq(stream, 1, HeaderLen))
     IN  /\ len <= kMaxMessageSize
         /\ HeaderLen + len <= Len(stream)
         /\ messages' = Append(messages, SubSeq(stream, HeaderLen + 1, HeaderLen + len))
         /\ stream' = SubSeq(stream, HeaderLen + len + 1, Len(stream))
  /\ UNCHANGED stopped

Stop ==
  /\ stopped' = TRUE
  /\ UNCHANGED <<stream, messages>>

Next == ~stopped /\ (Receive \/ Deliver \/ Stop)

Spec == Init /\ [][Next]_vars
=============================================================================
