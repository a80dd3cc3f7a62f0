------------------------------ MODULE MCChatClient ------------------------------
(* An instance of ChatClient for TLC: a chat_client and one other peer.    *)
(* Byte 0 is NUL, a header is one byte.                                    *)
EXTENDS ChatClient

(* The other peer only listens. *)
MCScripts == {<< >>}

(* Two different lines of one length. *)
MCTyped == {<< <<1>>, <<2>> >>}

(* Nothing before the NUL, or one byte more. *)
MCJunk == {<<0>>, <<1, 0>>}
=============================================================================
