------------------------------ MODULE FileReaders ------------------------------
(***************************************************************************)
(* The five programs of fs/ that read a file to its end and print its size:*)
(* libuv_readfile.cpp ("uv"), libuv_readfile_sync.cpp ("sync"),            *)
(* system_read.cpp ("system"), readfile.go ("go") and readfile.js ("js").  *)
(* They differ in what they do when something fails.                       *)
(*                                                                         *)
(* External: a read gives 1 .. bufSize bytes, 0 at the end of the file or  *)
(* for a buffer of 0 bytes, or an error.                                   *)
(***************************************************************************)
EXTENDS Integers

CONSTANTS
  FileSize,
  BufSizes,     \* the values argv[2] may have; 0 is one of them (atoi)
  Errno,        \* the absolute value of an error code
  SizeT,        \* the number of values of a size_t, 2^64
  IntMax,       \* the largest int, 2^31 - 1
  None

VARIABLE reader

Kinds == {"uv", "sync", "system", "go", "js"}

(* left: bytes behind the file position.  failed: history, a read failed.  *)
Type ==
  [kind : Kinds, bufSize : BufSizes, phase : {"open", "read", "done"},
   fd : {"none", "open", "bad", "closed"}, left : 0 .. FileSize,
   count : Int, printed : Int \cup {None}, failed : BOOLEAN]

(* readfile.js takes no argument: its buffer is never empty.               *)
Init ==
  \E kind \in Kinds, size \in BufSizes :
    /\ kind = "js" => size > 0
    /\ reader = [kind |-> kind, bufSize |-> size, phase |-> "open", fd |-> "none",
                 left |-> FileSize, count |-> 0, printed |-> None, failed |-> FALSE]

(* Everyone gives up if the file cannot be opened, but for system_read.cpp,*)
(* which reads from the descriptor -1.                                     *)
Open ==
  /\ reader.phase = "open"
  /\ reader' \in {
       [reader EXCEPT !.phase = "read", !.fd = "open"],
       [reader EXCEPT !.phase = IF reader.kind = "system" THEN "read" ELSE "done", !.fd = "bad"] }

(* What a read may return: an error code, the end, or a part of the file.  *)
Results ==
  {-Errno} \cup
  IF reader.fd = "bad" THEN {}
  ELSE IF reader.left = 0 \/ reader.bufSize = 0 THEN {0}
  ELSE {n \in 1 .. reader.bufSize : n <= reader.left}

Reading(kind, r) == reader.phase = "read" /\ reader.kind = kind /\ r \in Results

(* Mutant: every read starts at the beginning of the file. *)
PartAtZero(r) == [reader EXCEPT !.failed = r < 0]

(* The reader when the read has moved the file position.                   *)
Part(r) == [reader EXCEPT !.left = IF r > 0 THEN @ - r ELSE @, !.failed = r < 0]

Counted(r, count) == [Part(r) EXCEPT !.count = count]

Stopped(r, printed) == [Part(r) EXCEPT !.phase = "done", !.printed = printed]

(* on_read: an error ends the chain of reads without a result or a close.  *)
UvRead(r) ==
  /\ Reading("uv", r)
  /\ reader' = CASE r < 0 -> Stopped(r, None)
                 [] r = 0 -> [Stopped(r, reader.count) EXCEPT !.fd = "closed"]
                 [] r > 0 -> Counted(r, (reader.count + r) % SizeT)

(* The result is added to a size_t before the loop looks at it.            *)
SyncRead(r) ==
  LET count == (reader.count + r) % SizeT
  IN  /\ Reading("sync", r)
      /\ reader' = IF r > 0 THEN Counted(r, count) ELSE Stopped(r, count)

(* count is an int here; what the machine does when it overflows is to wrap.*)
AsInt(v) == IF v <= IntMax THEN v ELSE v - 2 * (IntMax + 1)

SystemRead(r) ==
  /\ Reading("system", r)
  /\ reader' = IF r > 0 THEN Counted(r, AsInt(reader.count + r))
               ELSE [Stopped(r, reader.count) EXCEPT !.fd = "closed"]

(* bufio.Reader.Read() gives an empty buffer 0 bytes, no error and no read *)
(* of the file: the loop never ends.                                       *)
GoRead(r) ==
  /\ Reading("go", r) /\ reader.bufSize > 0
  /\ reader' = CASE r < 0 -> Stopped(r, None)
                 [] r = 0 -> Stopped(r, reader.count)
                 [] r > 0 -> Counted(r, reader.count + r)

(* An exception ends the loop like the end of the file.                    *)
JsRead(r) ==
  /\ Reading("js", r)
  /\ reader' = IF r > 0 THEN Counted(r, reader.count + r) ELSE Stopped(r, reader.count)

Next ==
  \/ Open
  \/ \E r \in -Errno .. FileSize :
       UvRead(r) \/ SyncRead(r) \/ SystemRead(r) \/ GoRead(r) \/ JsRead(r)

-----------------------------------------------------------------------------
(* Properties. *)

(* Whatever the reads cut the file into, what is printed is its size (0 for*)
(* an empty buffer), as long as that fits an int in system_read.cpp.  After*)
(* an error two programs print what they had and two nothing; the          *)
(* synchronous one prints that less the error code, in a size_t: far more  *)
(* than the file holds if it had read less than that.                      *)
PrintedIsSize ==
  LET read == FileSize - reader.left
      whole == reader.bufSize > 0 => read = FileSize
  IN  /\ reader.phase = "done" /\ reader.fd # "bad" /\ ~reader.failed => reader.printed # None
      /\ reader.printed # None =>
           CASE reader.kind = "system" -> /\ ~reader.failed => whole
                                          /\ reader.printed = read <=> read <= IntMax
             [] reader.kind = "sync" /\ reader.failed ->
                  reader.printed = read - Errno \/ (reader.printed > read /\ read < Errno)
             [] reader.kind = "js" /\ reader.failed -> reader.printed = read
             [] OTHER -> ~reader.failed /\ whole /\ reader.printed = read

(* Every program ends, but readfile.go when it is given an empty buffer.   *)
Ended == reader.phase = "done" \/ (reader.kind = "go" /\ reader.bufSize = 0)
=============================================================================
