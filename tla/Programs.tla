-------------------------------- MODULE Programs --------------------------------
(***************************************************************************)
(* The smaller programs and libraries of the repository, which do not talk *)
(* to one another: a behaviour is one of them, chosen at the start, and    *)
(* `state` is its state.  Each module says what it models.                 *)
(***************************************************************************)
EXTENDS Integers, FiniteSets, Sequences

CONSTANTS
  Clients, Blank, BufCells, MaxCells,                              \* servers
  MaxBlocks,                                                       \* Chargen
  Sessions, blocksize, BufSize, MaxWritten, None,                  \* GoPingPong
  FileSize, BufSizes, Errno, SizeT, IntMax,                        \* FileReaders
  Size, kMaxNumericSize, PathLen, Slashes, Line, StrLens, Ints,    \* LogLine
  Doubles, MaxPieces,
  Names, OtherNames, Payloads                                      \* ProtobufFrame

(* The file and an error code fit a size_t, and atoi() returns an int.     *)
ASSUME ReaderAssumption ==
  /\ FileSize \in Nat /\ Errno \in Nat \ {0} /\ SizeT \in Nat
  /\ FileSize < SizeT /\ Errno < SizeT
  /\ IntMax \in Nat /\ BufSizes \subseteq 0 .. IntMax
  /\ None \notin Int

(* What a buffer holds before anything is read into it is told apart from  *)
(* what is.                                                                *)
ASSUME ServerAssumption ==
  /\ IsFiniteSet(Clients) /\ BufCells \in Nat /\ MaxCells \in Nat
  /\ Blank \notin Clients \X (1 .. MaxCells)

(* The sessions a Go client is started with, and the block they exchange.  *)
ASSUME SessionAssumption ==
  /\ IsFiniteSet(Sessions) /\ blocksize \in Nat

(* Strings, numbers and the path have a length, the path a base name, and *)
(* kMaxNumericSize has room for what snprintf() returns and for ten digits.*)
ASSUME LineAssumption ==
  /\ Size \in Nat \ {0} /\ kMaxNumericSize \in Nat /\ kMaxNumericSize > 10
  /\ PathLen \in Nat /\ Slashes \subseteq 1 .. PathLen
  /\ StrLens \subseteq Nat /\ Doubles \subseteq 0 .. kMaxNumericSize - 1

(* An int has 32 bits.                                                     *)
ASSUME IntAssumption ==
  \A v \in Ints \cup {Line} :
    v \in Int /\ -65536 * 32767 - 65536 <= v /\ v <= 65536 * 32767 + 65535

(* Names and messages are made of bytes, that is of numbers.               *)
ASSUME FrameAssumption == Names \cup OtherNames \cup Payloads \subseteq Seq(Nat)

VARIABLES program, state

vars == <<program, state>>

Gen     == INSTANCE Chargen WITH chargen <- state
Threads == INSTANCE ThreadServer WITH threads <- state
Go      == INSTANCE GoPingPong WITH goping <- state
Reader  == INSTANCE FileReaders WITH reader <- state
Pong    == INSTANCE PongBuffer WITH pong <- state
Log     == INSTANCE LogLine WITH log <- state
Proto   == INSTANCE ProtobufFrame WITH proto <- state

Init ==
  \/ program = "chargen" /\ Gen!Init
  \/ program = "threads" /\ Threads!Init
  \/ program = "go"      /\ Go!Init
  \/ program = "reader"  /\ Reader!Init
  \/ program = "pong"    /\ Pong!Init
  \/ program = "log"     /\ Log!Init
  \/ program = "proto"   /\ Proto!Init

Next ==
  /\ \/ program = "chargen" /\ Gen!Next
     \/ program = "threads" /\ Threads!Next
     \/ program = "go"      /\ Go!Next
     \/ program = "reader"  /\ Reader!Next
     \/ program = "pong"    /\ Pong!Next
     \/ program = "log"     /\ Log!Next
     \/ program = "proto"   /\ Proto!Next
  /\ UNCHANGED program

(* A step of one program, and what one program comes to. *)
Of(name, A) == (IF program = name THEN A ELSE FALSE) /\ UNCHANGED program
IfOf(name, Q) == IF program = name THEN Q ELSE TRUE

(* Each loop runs, and in ThreadServer the clients that are served leave.  *)
(* Of the goroutines only those that dial, time and print are needed.      *)
FairSpec ==
  /\ Init /\ [][Next]_vars
  /\ \A c \in Clients : WF_vars(Of("threads", Threads!Serve(c)))
  /\ WF_vars(Of("go", Go!ClientEnds))
  /\ WF_vars(Of("reader", Reader!Next))

-----------------------------------------------------------------------------
(* The properties of each module, for the behaviours of its program.       *)

(* Every state has its program's type. *)
TypeOK ==
  CASE program = "chargen" -> state \in Gen!Type
    [] program = "threads" -> state \in Threads!Type
    [] program = "go"      -> state \in Go!Type
    [] program = "reader"  -> state \in Reader!Type
    [] program = "pong"    -> state \in Pong!Type
    [] program = "log"     -> state \in Log!Type
    [] program = "proto"   -> state.step \in {"start", "message", "null", "encoded", "refused"}

(* simple/chargen.cpp:30-43: after a failed write the callback goes on with*)
(* what it has freed and closed.  The rate it prints counts what the       *)
(* client's socket took, which is not less than what the client received;  *)
(* the total is one message too large, and no other callback is affected.  *)
LossAccounted == IfOf("chargen", Gen!LossAccounted)

(* multi_thread_server.cpp:59, pingpong/server.cc:24: writes pending from a*)
(* buffer that all clients are read into.  The first serves one client at  *)
(* a time, and sends it nothing but its own and earlier data; the second   *)
(* serves all, and a pong is whole unless someone was read meanwhile.      *)
SharedBufferIntact ==
  /\ IfOf("threads", Threads!AnswersExplained)
  /\ IfOf("pong", Pong!PongIntact)

(* go_pingpong/client.go:73-87: the race on totalWrites loses additions and*)
(* never invents one, a result takes every session, and what circulates is *)
(* the block that was written first.                                       *)
ResultSound == IfOf("go", Go!ResultSound)

(* fs/libuv_readfile_sync.cpp:39 and its siblings: what they print is the  *)
(* size of the file, or what is left of it after an error.                 *)
PrintedIsSize == IfOf("reader", Reader!PrintedIsSize)

(* LogStream.h:24, LogStream.cpp:19-31: nothing is written past the buffer,*)
(* a line that fits is printed whole, one that does not ends in its newline*)
(* unless the buffer is full to the last byte, and a number loses its sign.*)
LineSound == IfOf("log", Log!LineSound)

(* protobuf_codec.h:19-40: a frame can be read back by its layout.         *)
FrameReadable == IfOf("proto", Proto!FrameReadable)

(* multi_thread_server.cpp:70, client.go:82, libuv_readfile.cpp:28: whoever*)
(* waits for the accept callback's join gets its turn, the Go client's     *)
(* timers end it, and the reads of a file come to an end.                  *)
GetsThere ==
  []<>( /\ IfOf("threads", Threads!NobodyWaits)
        /\ IfOf("go", ~Go!Running)
        /\ IfOf("reader", Reader!Ended) )
=============================================================================
