---------------------------- MODULE Programs_proofs ----------------------------
(***************************************************************************)
(* Machine-checked proofs about the small programs.                        *)
(***************************************************************************)
EXTENDS Programs, SequenceTheorems, FiniteSetsExt, FiniteSetTheorems, NaturalsInduction,
        WellFoundedInduction, TLAPS

-----------------------------------------------------------------------------
(* FileReaders: what is printed is the size of the file.                   *)

LEMMA ModSmall ==
  ASSUME NEW a \in Nat, NEW b \in Nat, a < b
  PROVE  a % b = a
OBVIOUS

LEMMA ModNegative ==
  ASSUME NEW a \in Nat, NEW b \in Nat, a < b, a # 0
  PROVE  (-a) % b = b - a
OBVIOUS

(* While a program is reading its count is what it has read; the int of    *)
(* system_read.cpp is that until it wraps, and never again anything above  *)
(* the largest int.                                                        *)
Counting(r) ==
  LET read == FileSize - r.left
  IN  /\ r.printed = None /\ ~r.failed
      /\ r.kind = "js" => r.bufSize > 0
      /\ r.phase = "open" => r.fd = "none" /\ r.left = FileSize /\ r.count = 0
      /\ r.fd = "bad" => r.kind = "system"
      /\ r.kind # "system" => r.count = read
      /\ r.kind = "system" => r.count <= IntMax /\ (read <= IntMax => r.count = read)

ReaderSound ==
  /\ state \in Reader!Type
  /\ state.phase # "done" => Counting(state)
  /\ Reader!PrintedIsSize

(* The reader after a read.                                                *)
LEMMA CountedFields ==
  ASSUME state \in Reader!Type, NEW n \in Int, NEW count \in Int,
         NEW left \in 0 .. FileSize, left = IF n > 0 THEN state.left - n ELSE state.left
  PROVE  LET r == Reader!Counted(n, count)
         IN  /\ r \in Reader!Type
             /\ r.left = left /\ (r.failed <=> n < 0) /\ r.count = count
             /\ r.kind = state.kind /\ r.bufSize = state.bufSize /\ r.fd = state.fd
             /\ r.phase = state.phase /\ r.printed = state.printed
<1> DEFINE bad == n < 0
           r == [state EXCEPT !.left = left, !.failed = bad, !.count = count]
<1>1. Reader!Counted(n, count) = r
  BY DEF Reader!Type, Reader!Counted, Reader!Part
<1>2. bad \in BOOLEAN
  OBVIOUS
<1> HIDE DEF bad
<1>3. /\ r \in Reader!Type
      /\ r.left = left /\ r.failed = bad /\ r.count = count
      /\ r.kind = state.kind /\ r.bufSize = state.bufSize /\ r.fd = state.fd
      /\ r.phase = state.phase /\ r.printed = state.printed
  BY <1>2 DEF Reader!Type
<1> HIDE DEF r
<1>4. QED
  BY <1>1, <1>3 DEF bad

LEMMA StoppedFields ==
  ASSUME state \in Reader!Type, NEW n \in Int, n <= 0, NEW printed \in Int \cup {None},
         NEW fd \in {state.fd, "closed"},
         NEW r, \/ r = [Reader!Stopped(n, printed) EXCEPT !.fd = fd]
                \/ fd = state.fd /\ r = Reader!Stopped(n, printed)
  PROVE  /\ r \in Reader!Type
         /\ r.left = state.left /\ (r.failed <=> n < 0) /\ r.count = state.count
         /\ r.kind = state.kind /\ r.bufSize = state.bufSize /\ r.fd = fd
         /\ r.phase = "done" /\ r.printed = printed
<1> DEFINE bad == n < 0
           q == [state EXCEPT !.failed = bad, !.phase = "done", !.printed = printed]
           s == [q EXCEPT !.fd = fd]
<1>1. Reader!Stopped(n, printed) = q
  <2>1. Reader!Part(n) = [state EXCEPT !.failed = bad]
    <3> DEFINE left == IF n > 0 THEN state.left - n ELSE state.left
    <3>1. left = state.left
      OBVIOUS
    <3>2. Reader!Part(n) = [state EXCEPT !.left = left, !.failed = bad]
      BY DEF Reader!Part
    <3> HIDE DEF left, bad
    <3>3. QED
      BY <3>1, <3>2 DEF Reader!Type
  <2> HIDE DEF bad
  <2>2. QED
    BY <2>1 DEF Reader!Type, Reader!Stopped
<1>2. bad \in BOOLEAN
  OBVIOUS
<1> HIDE DEF bad
<1>3. q \in Reader!Type /\ q.fd = state.fd
  BY <1>2 DEF Reader!Type
<1>4. fd = state.fd => s = q
  BY <1>3 DEF Reader!Type
<1>5. /\ s \in Reader!Type
      /\ s.left = state.left /\ s.failed = bad /\ s.count = state.count
      /\ s.kind = state.kind /\ s.bufSize = state.bufSize /\ s.fd = fd
      /\ s.phase = "done" /\ s.printed = printed
  BY <1>2 DEF Reader!Type
<1>6. r = s
  <2> HIDE DEF q
  <2>1. QED
    BY <1>1, <1>4 DEF s
<1> HIDE DEF s
<1>7. QED
  BY <1>5, <1>6 DEF bad

LEMMA ReaderResults ==
  ASSUME state \in Reader!Type, ReaderSound, NEW kind, NEW n \in Int, Reader!Reading(kind, n)
  PROVE  /\ state.kind = kind /\ state.phase = "read" /\ Counting(state)
         /\ n = -Errno \/ (n = 0 /\ (state.bufSize > 0 => state.left = 0))
              \/ (n \in 1 .. state.bufSize /\ n <= state.left)
         /\ n >= 0 => state.fd # "bad"
         /\ state.left \in 0 .. FileSize /\ state.count \in Int
         /\ state.bufSize \in 0 .. IntMax
<1>1. state.kind = kind /\ state.phase = "read" /\ Counting(state) /\ n \in Reader!Results
  BY DEF Reader!Reading, ReaderSound
<1>2. /\ state.left \in 0 .. FileSize /\ state.count \in Int /\ state.bufSize \in BufSizes
  BY DEF Reader!Type
<1>3. state.bufSize \in 0 .. IntMax
  BY <1>2, ReaderAssumption
<1>4. /\ n = -Errno \/ (n = 0 /\ (state.bufSize > 0 => state.left = 0))
           \/ (n \in 1 .. state.bufSize /\ n <= state.left)
      /\ n >= 0 => state.fd # "bad"
  BY <1>1, <1>2, <1>3, ReaderAssumption DEF Reader!Results
<1>5. QED
  BY <1>1, <1>2, <1>3, <1>4

(* The end of a program, and one more part of the file.                    *)
LEMMA ReaderInit ==
  ASSUME Reader!Init
  PROVE  ReaderSound
<1>1. PICK kind \in Reader!Kinds, size \in BufSizes :
        /\ kind = "js" => size > 0
        /\ state = [kind |-> kind, bufSize |-> size, phase |-> "open", fd |-> "none",
                    left |-> FileSize, count |-> 0, printed |-> None, failed |-> FALSE]
  BY DEF Reader!Init
<1>2. state \in Reader!Type
  BY <1>1, ReaderAssumption DEF Reader!Type
<1>3. Counting(state)
  BY <1>1, ReaderAssumption DEF Counting
<1>4. Reader!PrintedIsSize
  BY <1>1 DEF Reader!PrintedIsSize
<1>5. QED
  BY <1>2, <1>3, <1>4 DEF ReaderSound

LEMMA ReaderOpen ==
  ASSUME ReaderSound, Reader!Open
  PROVE  ReaderSound'
<1>1. state \in Reader!Type /\ state.phase = "open" /\ Counting(state)
  BY DEF ReaderSound, Reader!Open
<1>2. PICK fd \in {"open", "bad"}, phase \in {"read", "done"} :
        /\ state' = [state EXCEPT !.phase = phase, !.fd = fd]
        /\ fd = "bad" /\ phase = "read" => state.kind = "system"
        /\ phase = "done" => fd = "bad"
  BY <1>1 DEF Reader!Open
<1>3. /\ state' \in Reader!Type /\ state'.phase = phase /\ state'.fd = fd
      /\ state'.kind = state.kind /\ state'.bufSize = state.bufSize
      /\ state'.left = state.left /\ state'.count = state.count
      /\ state'.printed = state.printed /\ state'.failed = state.failed
  BY <1>1, <1>2 DEF Reader!Type
<1>4. phase # "done" => Counting(state')
  BY <1>1, <1>2, <1>3 DEF Counting
<1>5. Reader!PrintedIsSize'
  BY <1>1, <1>2, <1>3 DEF Counting, Reader!PrintedIsSize
<1>6. QED
  BY <1>3, <1>4, <1>5 DEF ReaderSound

LEMMA ReaderCounts ==
  ASSUME ReaderSound, NEW kind, NEW n \in Nat \ {0}, Reader!Reading(kind, n), NEW count \in Int,
         state' = Reader!Counted(n, count),
         LET read == FileSize - (state.left - n)
         IN  /\ kind # "system" => count = read
             /\ kind = "system" => count <= IntMax /\ (read <= IntMax => count = read)
  PROVE  ReaderSound'
<1>1. /\ state \in Reader!Type /\ state.kind = kind /\ state.phase = "read" /\ Counting(state)
      /\ n <= state.left /\ state.left \in 0 .. FileSize
  BY ReaderResults, ReaderAssumption DEF ReaderSound
<1> DEFINE left == state.left - n
<1>2. left \in 0 .. FileSize
  BY <1>1, ReaderAssumption
<1>3. /\ state' \in Reader!Type
      /\ state'.left = left /\ ~state'.failed /\ state'.count = count
      /\ state'.kind = state.kind /\ state'.bufSize = state.bufSize /\ state'.fd = state.fd
      /\ state'.phase = state.phase /\ state'.printed = state.printed
  BY <1>1, <1>2, CountedFields
<1>4. Counting(state')
  BY <1>1, <1>3 DEF Counting
<1>5. Reader!PrintedIsSize'
  BY <1>1, <1>3 DEF Counting, Reader!PrintedIsSize
<1>6. QED
  BY <1>3, <1>4, <1>5 DEF ReaderSound

(* The last step of program `kind`: what it prints after n, the end of the *)
(* file or an error.                                                       *)
Stops(kind, n, printed, fd) ==
  /\ n \in Int /\ n <= 0 /\ Reader!Reading(kind, n)
  /\ printed \in Int \cup {None} /\ fd \in {state.fd, "closed"}
  /\ \/ state' = [Reader!Stopped(n, printed) EXCEPT !.fd = fd]
     \/ fd = state.fd /\ state' = Reader!Stopped(n, printed)
  /\ n = 0 => printed = state.count
  /\ n < 0 => \/ kind \in {"uv", "go"} /\ printed = None
              \/ kind \in {"system", "js"} /\ printed = state.count
              \/ kind = "sync" /\ LET read == FileSize - state.left
                                  IN  printed = read - Errno \/ (printed > read /\ read < Errno)

LEMMA ReaderStops ==
  ASSUME ReaderSound, NEW kind, NEW n, NEW printed, NEW fd, Stops(kind, n, printed, fd)
  PROVE  ReaderSound'
<1>1. /\ state \in Reader!Type /\ state.kind = kind /\ state.phase = "read" /\ Counting(state)
      /\ n = 0 => (state.bufSize > 0 => state.left = 0) /\ state.fd # "bad"
      /\ state.left \in 0 .. FileSize /\ state.count \in Int
  BY ReaderResults, ReaderAssumption DEF ReaderSound, Stops
<1>2. /\ state' \in Reader!Type
      /\ state'.left = state.left /\ (state'.failed <=> n < 0) /\ state'.count = state.count
      /\ state'.kind = kind /\ state'.bufSize = state.bufSize /\ state'.fd = fd
      /\ state'.phase = "done" /\ state'.printed = printed
  BY <1>1, StoppedFields DEF Stops
<1> DEFINE read == FileSize - state.left
<1>3. /\ read \in Int /\ IntMax \in Int /\ Errno \in Int /\ None \notin Int
      /\ n = 0 /\ state.bufSize > 0 => read = FileSize
  BY <1>1, ReaderAssumption
<1>4. /\ kind # "system" => state.count = read
      /\ kind = "system" => state.count <= IntMax /\ (read <= IntMax => state.count = read)
  BY <1>1 DEF Counting
<1>5. kind \in {"uv", "sync", "system", "go", "js"}
  BY <1>1 DEF Reader!Type, Reader!Kinds
<1> HIDE DEF read
<1>6. fd # "bad" /\ ~(n < 0) => printed # None
  BY <1>1, <1>3 DEF Stops
<1>7. ASSUME printed # None, kind = "system"
      PROVE  /\ ~(n < 0) => (state.bufSize > 0 => read = FileSize)
             /\ printed = read <=> read <= IntMax
  BY <1>1, <1>3, <1>4, <1>7 DEF Stops
<1>8. ASSUME printed # None, kind = "sync", n < 0
      PROVE  printed = read - Errno \/ (printed > read /\ read < Errno)
  BY <1>8 DEF Stops, read
<1>9. ASSUME printed # None, kind # "system", ~(kind = "sync" /\ n < 0)
      PROVE  printed = read /\ (n < 0 => kind = "js")
             /\ (~(n < 0) => (state.bufSize > 0 => read = FileSize))
  BY <1>3, <1>4, <1>5, <1>9 DEF Stops
<1>10. Reader!PrintedIsSize'
  BY <1>2, <1>6, <1>7, <1>8, <1>9 DEF Reader!PrintedIsSize, read
<1>11. QED
  BY <1>2, <1>10 DEF ReaderSound

LEMMA ReaderReads ==
  ASSUME ReaderSound, NEW n \in -Errno .. FileSize,
         Reader!UvRead(n) \/ Reader!SyncRead(n) \/ Reader!SystemRead(n)
           \/ Reader!GoRead(n) \/ Reader!JsRead(n)
  PROVE  ReaderSound'
<1>1. /\ n \in Int /\ FileSize \in Nat /\ SizeT \in Nat /\ Errno \in Nat /\ Errno # 0 /\ IntMax \in Nat
      /\ FileSize < SizeT /\ Errno < SizeT
  BY ReaderAssumption
<1>2. ASSUME NEW kind, Reader!Reading(kind, n)
      PROVE  /\ Counting(state) /\ state.kind = kind /\ state.count \in Int
             /\ n < 0 => n = -Errno
             /\ n > 0 => n <= IntMax /\ FileSize - (state.left - n) \in 0 .. FileSize
             /\ FileSize - state.left \in 0 .. FileSize
             /\ n > 0 => FileSize - (state.left - n) = (FileSize - state.left) + n
             /\ kind # "system" => state.count = FileSize - state.left
             /\ state.fd \in {state.fd, "closed"}
  BY <1>1, <1>2, ReaderResults DEF Counting, ReaderSound
<1>3. CASE Reader!UvRead(n)
  <2>1. Reader!Reading("uv", n)
    BY <1>3 DEF Reader!UvRead
  <2>2. CASE n < 0
    <3>1. state' = Reader!Stopped(n, None)
      BY <1>1, <1>3, <2>2 DEF Reader!UvRead
    <3>2. Stops("uv", n, None, state.fd)
      BY <1>1, <1>2, <2>1, <2>2, <3>1 DEF Stops
    <3>3. QED
      BY <3>2, ReaderStops
  <2>3. CASE n = 0
    <3>1. state' = [Reader!Stopped(n, state.count) EXCEPT !.fd = "closed"]
      BY <1>1, <1>3, <2>3 DEF Reader!UvRead
    <3>2. Stops("uv", n, state.count, "closed")
      BY <1>1, <1>2, <2>1, <2>3, <3>1 DEF Stops
    <3>3. QED
      BY <3>2, ReaderStops
  <2>4. CASE n > 0
    <3>1. state' = Reader!Counted(n, (state.count + n) % SizeT)
      BY <1>1, <1>3, <2>4 DEF Reader!UvRead
    <3>2. (state.count + n) % SizeT = FileSize - (state.left - n)
      BY <1>1, <1>2, <2>1, <2>4, ModSmall
    <3>3. QED
      BY <1>1, <1>2, <2>1, <2>4, <3>1, <3>2, ReaderCounts
  <2>5. QED
    BY <1>1, <2>2, <2>3, <2>4
<1>4. CASE Reader!SyncRead(n)
  <2> DEFINE count == (state.count + n) % SizeT
  <2>1. Reader!Reading("sync", n)
    BY <1>4 DEF Reader!SyncRead
  <2>2. state' = IF n > 0 THEN Reader!Counted(n, count) ELSE Reader!Stopped(n, count)
    BY <1>4 DEF Reader!SyncRead
  <2>3. CASE n > 0
    <3>1. count = FileSize - (state.left - n)
      BY <1>1, <1>2, <2>1, <2>3, ModSmall
    <3>2. QED
      BY <1>1, <1>2, <2>1, <2>2, <2>3, <3>1, ReaderCounts
  <2>4. CASE n = 0
    <3>1. count = state.count
      BY <1>1, <1>2, <2>1, <2>4, ModSmall
    <3>2. Stops("sync", n, count, state.fd)
      BY <1>1, <1>2, <2>1, <2>2, <2>4, <3>1 DEF Stops
    <3>3. QED
      BY <3>2, ReaderStops
  <2>5. CASE n < 0
    <3> DEFINE read == FileSize - state.left
    <3>1. read \in Nat /\ read < SizeT /\ n = -Errno /\ count = (read - Errno) % SizeT
      BY <1>1, <1>2, <2>1, <2>5
    <3> HIDE DEF count, read
    <3>2. CASE read >= Errno
      <4>1. count = read - Errno
        BY <1>1, <3>1, <3>2, ModSmall
      <4>2. count \in Int
        BY <1>1, <3>1, <4>1
      <4>3. Stops("sync", n, count, state.fd)
        BY <1>1, <1>2, <2>1, <2>2, <2>5, <4>1, <4>2 DEF Stops, read
      <4>4. QED
        BY <4>3, ReaderStops
    <3>3. CASE read < Errno
      <4> DEFINE d == Errno - read
      <4>1. d \in Nat /\ d < SizeT /\ d # 0 /\ read - Errno = -d
        BY <1>1, <3>1, <3>3
      <4>2. count = SizeT - d
        <5> HIDE DEF d
        <5>1. QED
          BY <1>1, <3>1, <4>1, ModNegative
      <4>3. count > read /\ count \in Int
        BY <1>1, <3>1, <4>2
      <4>4. Stops("sync", n, count, state.fd)
        BY <1>1, <1>2, <2>1, <2>2, <2>5, <3>3, <4>3 DEF Stops, read
      <4>5. QED
        BY <4>4, ReaderStops
    <3>4. QED
      BY <1>1, <3>1, <3>2, <3>3
  <2>6. QED
    BY <1>1, <2>3, <2>4, <2>5
<1>5. CASE Reader!SystemRead(n)
  <2> DEFINE sum   == state.count + n
             count == Reader!AsInt(sum)
             read  == FileSize - (state.left - n)
  <2>1. Reader!Reading("system", n)
    BY <1>5 DEF Reader!SystemRead
  <2>2. CASE n > 0
    <3>1. state' = Reader!Counted(n, count)
      BY <1>5, <2>2 DEF Reader!SystemRead
    <3>2. /\ state.count <= IntMax /\ (FileSize - state.left <= IntMax => state.count = FileSize - state.left)
          /\ read = (FileSize - state.left) + n /\ n <= IntMax
          /\ state.count \in Int /\ FileSize - state.left \in Int
      BY <1>2, <2>1, <2>2 DEF Counting
    <3>3. count \in Int /\ count <= IntMax /\ (read <= IntMax => count = read)
      <4>1. sum \in Int /\ sum <= 2 * IntMax
        BY <1>1, <3>2
      <4>2. read <= IntMax => sum = read
        BY <1>1, <2>2, <3>2
      <4> HIDE DEF sum, read
      <4>3. QED
        BY <1>1, <4>1, <4>2 DEF Reader!AsInt
    <3> HIDE DEF count
    <3>4. QED
      BY <1>1, <2>1, <2>2, <3>1, <3>3, ReaderCounts
  <2>3. CASE ~(n > 0)
    <3>1. state' = [Reader!Stopped(n, state.count) EXCEPT !.fd = "closed"]
      BY <1>5, <2>3 DEF Reader!SystemRead
    <3>2. Stops("system", n, state.count, "closed")
      BY <1>1, <1>2, <2>1, <2>3, <3>1 DEF Stops
    <3>3. QED
      BY <3>2, ReaderStops
  <2>4. QED
    BY <2>2, <2>3
<1>6. CASE Reader!GoRead(n)
  <2>1. Reader!Reading("go", n)
    BY <1>6 DEF Reader!GoRead
  <2>2. CASE n < 0
    <3>1. state' = Reader!Stopped(n, None)
      BY <1>1, <1>6, <2>2 DEF Reader!GoRead
    <3>2. Stops("go", n, None, state.fd)
      BY <1>1, <1>2, <2>1, <2>2, <3>1 DEF Stops
    <3>3. QED
      BY <3>2, ReaderStops
  <2>3. CASE n = 0
    <3>1. state' = Reader!Stopped(n, state.count)
      BY <1>1, <1>6, <2>3 DEF Reader!GoRead
    <3>2. Stops("go", n, state.count, state.fd)
      BY <1>1, <1>2, <2>1, <2>3, <3>1 DEF Stops
    <3>3. QED
      BY <3>2, ReaderStops
  <2>4. CASE n > 0
    <3>1. state' = Reader!Counted(n, state.count + n)
      BY <1>1, <1>6, <2>4 DEF Reader!GoRead
    <3>2. QED
      BY <1>1, <1>2, <2>1, <2>4, <3>1, ReaderCounts
  <2>5. QED
    BY <1>1, <2>2, <2>3, <2>4
<1>7. CASE Reader!JsRead(n)
  <2>1. Reader!Reading("js", n)
    BY <1>7 DEF Reader!JsRead
  <2>2. CASE n > 0
    <3>1. state' = Reader!Counted(n, state.count + n)
      BY <1>7, <2>2 DEF Reader!JsRead
    <3>2. QED
      BY <1>1, <1>2, <2>1, <2>2, <3>1, ReaderCounts
  <2>3. CASE ~(n > 0)
    <3>1. state' = Reader!Stopped(n, state.count)
      BY <1>7, <2>3 DEF Reader!JsRead
    <3>2. Stops("js", n, state.count, state.fd)
      BY <1>1, <1>2, <2>1, <2>3, <3>1 DEF Stops
    <3>3. QED
      BY <3>2, ReaderStops
  <2>4. QED
    BY <2>2, <2>3
<1>8. QED
  BY <1>3, <1>4, <1>5, <1>6, <1>7

ReaderInv == IfOf("reader", ReaderSound)

(* The size that is printed (fs/libuv_readfile_sync.cpp:39 and its         *)
(* siblings) is the size of the file, for any file, buffer and error code. *)
THEOREM SizePrinted == FairSpec => []PrintedIsSize
<1>1. Init => ReaderInv
  BY ReaderInit DEF Init, ReaderInv, IfOf
<1>2. ReaderInv /\ [Next]_vars => ReaderInv'
  <2> SUFFICES ASSUME ReaderInv, [Next]_vars, program' = "reader" PROVE ReaderSound'
    BY DEF ReaderInv, IfOf
  <2>1. CASE UNCHANGED vars
    BY <2>1 DEF vars, ReaderInv, IfOf, ReaderSound, Counting, Reader!PrintedIsSize
  <2>2. CASE Next
    <3>1. program = "reader" /\ Reader!Next
      BY <2>2 DEF Next
    <3>2. ReaderSound
      BY <3>1 DEF ReaderInv, IfOf
    <3>3. QED
      BY <3>1, <3>2, ReaderOpen, ReaderReads DEF Reader!Next
  <2>3. QED
    BY <2>1, <2>2
<1>3. ReaderInv => PrintedIsSize
  BY DEF ReaderInv, ReaderSound, PrintedIsSize, IfOf
<1>4. QED
  BY <1>1, <1>2, <1>3, PTL DEF FairSpec

-----------------------------------------------------------------------------
(* PongBuffer: a pong is whole until somebody is read while it is pending. *)

(* A pending part of msgBuf was read into.                                 *)
PartRead(w, buf) == w.first <= w.last /\ \A j \in w.first .. w.last : buf[j] # Blank

PartsRead(r, buf) == \A k \in 1 .. Len(r.writes) : PartRead(r.writes[k], buf)

(* What an undisturbed client was sent and will be sent is what it sent.   *)
SentBack(c, r) ==
  /\ \A i \in 1 .. Len(r.sent) : r.sent[i] # Blank
  /\ ~r.torn => \A i \in 1 .. Len(r.sent) : r.sent[i] = <<c, i>>

Waiting(c, r, buf) ==
  ~r.torn /\ r.handle # "closed" =>
    \/ r.writes = << >> /\ Len(r.sent) = r.read
    \/ /\ Len(r.writes) = 1
       /\ LET w == r.writes[1]
          IN  /\ Len(r.sent) + (w.last - w.first + 1) = r.read
              /\ \A j \in w.first .. w.last : buf[j] = <<c, Len(r.sent) + 1 + (j - w.first)>>

ClientSound(c, r, buf) ==
  /\ PartsRead(r, buf) /\ SentBack(c, r) /\ Waiting(c, r, buf)
  /\ r.handle # "open" => r.writes = << >>

PongSound ==
  /\ state \in Pong!Type
  /\ \A c \in Clients : ClientSound(c, state.client[c], state.msgBuf)

LEMMA PongInit ==
  ASSUME Pong!Init
  PROVE  PongSound
<1> DEFINE fresh == [handle |-> "none", read |-> 0, writes |-> << >>, sent |-> << >>, torn |-> FALSE]
           buf   == [i \in 1 .. BufCells |-> Blank]
<1>1. state = [client |-> [c \in Clients |-> fresh], msgBuf |-> buf]
  BY DEF Pong!Init
<1>2. fresh \in Pong!ClientType /\ buf \in [1 .. BufCells -> Pong!Cell]
  BY ServerAssumption DEF Pong!ClientType, Pong!Cell
<1>3. ASSUME NEW c \in Clients
      PROVE  ClientSound(c, fresh, buf)
  BY DEF ClientSound, PartsRead, SentBack, Waiting
<1> HIDE DEF fresh, buf
<1>4. QED
  BY <1>1, <1>2, <1>3 DEF PongSound, Pong!Type

(* A step of one client that reads nothing.                                *)
LEMMA PongOne ==
  ASSUME PongSound, NEW c \in Clients, NEW q \in Pong!ClientType,
         ClientSound(c, q, state.msgBuf),
         state' = [state EXCEPT !.client = [state.client EXCEPT ![c] = q]]
  PROVE  PongSound'
<1>1. state'.client = [state.client EXCEPT ![c] = q] /\ state'.msgBuf = state.msgBuf
  BY DEF PongSound, Pong!Type
<1>2. state' \in Pong!Type
  BY DEF PongSound, Pong!Type
<1>3. ASSUME NEW d \in Clients
      PROVE  state'.client[d] = IF d = c THEN q ELSE state.client[d]
  BY <1>1 DEF PongSound, Pong!Type
<1>4. QED
  BY <1>1, <1>2, <1>3 DEF PongSound

LEMMA PongOpens ==
  ASSUME PongSound, NEW c \in Clients,
         Pong!OnNewConnection(c) \/ Pong!OnReadClientEnd(c)
  PROVE  PongSound'
<1> DEFINE r == state.client[c]
<1>1. r \in Pong!ClientType /\ ClientSound(c, r, state.msgBuf)
  BY DEF PongSound, Pong!Type
<1>2. CASE Pong!OnNewConnection(c)
  <2> DEFINE q == [r EXCEPT !.handle = "open"]
  <2>1. r.handle = "none" /\ state' = [state EXCEPT !.client = [state.client EXCEPT ![c] = q]]
    BY <1>2 DEF Pong!OnNewConnection, PongSound, Pong!Type
  <2> HIDE DEF r
  <2>2. /\ q \in Pong!ClientType /\ q.handle = "open" /\ q.read = r.read
        /\ q.writes = r.writes /\ q.sent = r.sent /\ q.torn = r.torn
    BY <1>1 DEF Pong!ClientType
  <2> HIDE DEF q
  <2>3. ClientSound(c, q, state.msgBuf)
    BY <1>1, <2>1, <2>2 DEF ClientSound, PartsRead, SentBack, Waiting
  <2>4. QED
    BY <2>1, <2>2, <2>3, PongOne
<1>3. CASE Pong!OnReadClientEnd(c)
  <2> DEFINE q == [r EXCEPT !.handle = "closed", !.writes = << >>]
  <2>1. r.handle = "open" /\ state' = [state EXCEPT !.client = [state.client EXCEPT ![c] = q]]
    BY <1>3 DEF Pong!OnReadClientEnd, PongSound, Pong!Type
  <2> HIDE DEF r
  <2>2. /\ q \in Pong!ClientType /\ q.handle = "closed" /\ q.read = r.read
        /\ q.writes = << >> /\ q.sent = r.sent /\ q.torn = r.torn
    <3> DEFINE none == << >>
    <3>1. none \in Seq([first : 1 .. BufCells, last : 1 .. BufCells])
      OBVIOUS
    <3> HIDE DEF none
    <3>2. [r EXCEPT !.handle = "closed", !.writes = none] \in Pong!ClientType
      BY <1>1, <3>1 DEF Pong!ClientType
    <3>3. QED
      BY <1>1, <3>2 DEF Pong!ClientType, none
  <2> HIDE DEF q
  <2>3. ClientSound(c, q, state.msgBuf)
    BY <1>1, <2>1, <2>2 DEF ClientSound, PartsRead, SentBack, Waiting
  <2>4. QED
    BY <2>1, <2>2, <2>3, PongOne
<1>4. QED
  BY <1>2, <1>3

Part == [first : 1 .. BufCells, last : 1 .. BufCells]

(* What is still pending after a cell of the oldest write was taken.       *)
Taken(s) ==
  LET w == Head(s)
  IN  IF w.first = w.last THEN Tail(s) ELSE <<[w EXCEPT !.first = @ + 1]>> \o Tail(s)

LEMMA PartTaken ==
  ASSUME NEW s \in Seq(Part), s # << >>, NEW w, w = Head(s), w.first <= w.last,
         NEW rest, rest = Taken(s)
  PROVE  /\ rest \in Seq(Part) /\ w \in Part /\ w = s[1] /\ Len(s) \in Nat /\ Len(s) >= 1
         /\ w.first = w.last => /\ Len(rest) = Len(s) - 1
                                /\ \A k \in 1 .. Len(s) - 1 : rest[k] = s[k + 1]
         /\ w.first # w.last => /\ Len(rest) = Len(s) /\ rest[1].first = w.first + 1
                                /\ rest[1].last = w.last
                                /\ \A k \in 2 .. Len(s) : rest[k] = s[k]
<1> DEFINE u == Tail(s)
<1>1. /\ w \in Part /\ w = s[1] /\ Len(s) \in Nat /\ Len(s) >= 1
      /\ u \in Seq(Part) /\ Len(u) = Len(s) - 1 /\ \A k \in 1 .. Len(s) - 1 : u[k] = s[k + 1]
  OBVIOUS
<1>2. CASE w.first = w.last
  BY <1>1, <1>2 DEF Taken
<1>3. CASE w.first # w.last
  <2> DEFINE v == [w EXCEPT !.first = @ + 1]
             one == <<v>>
  <2>1. v \in Part /\ v.first = w.first + 1 /\ v.last = w.last
    <3>1. /\ w.first \in 1 .. BufCells /\ w.last \in 1 .. BufCells
          /\ w = [first |-> w.first, last |-> w.last]
      BY <1>1 DEF Part
    <3>2. w.first + 1 \in 1 .. BufCells
      BY <1>3, <3>1, ServerAssumption
    <3>3. v = [first |-> w.first + 1, last |-> w.last]
      BY <3>1
    <3>4. QED
      BY <3>1, <3>2, <3>3 DEF Part
  <2>2. rest = one \o u
    BY <1>3 DEF Taken
  <2> HIDE DEF u, v
  <2>3. one \in Seq(Part) /\ Len(one) = 1 /\ one[1] = v
    BY <2>1
  <2> HIDE DEF one
  <2>4. /\ one \o u \in Seq(Part) /\ Len(one \o u) = Len(one) + Len(u)
        /\ \A k \in 1 .. Len(one) + Len(u) : (one \o u)[k] = IF k <= Len(one) THEN one[k] ELSE u[k - Len(one)]
    <3>1. one \in Seq(Part) /\ u \in Seq(Part)
      BY <1>1, <2>3
    <3>2. QED
      BY <3>1, ConcatProperties
  <2>5. \A k \in 2 .. Len(s) : k - 1 \in 1 .. Len(s) - 1 /\ (k - 1) + 1 = k /\ ~(k <= 1) /\ k \in 1 .. 1 + (Len(s) - 1)
    BY <1>1
  <2>6. 1 + (Len(s) - 1) = Len(s) /\ 1 \in 1 .. 1 + (Len(s) - 1)
    BY <1>1
  <2>7. QED
    BY <1>1, <1>3, <2>1, <2>2, <2>3, <2>4, <2>5, <2>6
<1>4. QED
  BY <1>2, <1>3

LEMMA PongFlush ==
  ASSUME PongSound, NEW c \in Clients, Pong!Flush(c)
  PROVE  PongSound'
<1> DEFINE r    == state.client[c]
           buf  == state.msgBuf
           w    == Head(r.writes)
           rest == Taken(r.writes)
           cell == buf[w.first]
           sent == Append(r.sent, cell)
           q    == [r EXCEPT !.sent = sent, !.writes = rest]
<1>1. /\ r \in Pong!ClientType /\ ClientSound(c, r, buf) /\ buf \in [1 .. BufCells -> Pong!Cell]
      /\ r.writes \in Seq(Part) /\ r.sent \in Seq(Pong!Cell)
  BY DEF PongSound, Pong!Type, Pong!ClientType, Part
<1>2. r.writes # << >> /\ state' = [state EXCEPT !.client = [state.client EXCEPT ![c] = q]]
  BY DEF Pong!Flush, PongSound, Pong!Type, Taken
<1> HIDE DEF r, buf
<1>3. w.first <= w.last /\ cell # Blank /\ cell \in Pong!Cell
  <2>1. w = r.writes[1] /\ 1 \in 1 .. Len(r.writes) /\ w \in Part
    BY <1>1, <1>2
  <2>2. PartRead(w, buf)
    BY <1>1, <2>1 DEF ClientSound, PartsRead
  <2> HIDE DEF w
  <2>3. QED
    BY <1>1, <2>1, <2>2 DEF PartRead, Part
<1> HIDE DEF cell
<1>4. /\ rest \in Seq(Part) /\ w \in Part /\ w = r.writes[1] /\ Len(r.writes) \in Nat
      /\ Len(r.writes) >= 1
      /\ w.first = w.last => /\ Len(rest) = Len(r.writes) - 1
                             /\ \A k \in 1 .. Len(r.writes) - 1 : rest[k] = r.writes[k + 1]
      /\ w.first # w.last => /\ Len(rest) = Len(r.writes) /\ rest[1].first = w.first + 1
                             /\ rest[1].last = w.last
                             /\ \A k \in 2 .. Len(r.writes) : rest[k] = r.writes[k]
  <2>1. w = Head(r.writes) /\ rest = Taken(r.writes)
    OBVIOUS
  <2> HIDE DEF w, rest
  <2>2. QED
    BY <1>1, <1>2, <1>3, <2>1, PartTaken
<1>5. /\ sent \in Seq(Pong!Cell) /\ Len(sent) = Len(r.sent) + 1 /\ Len(r.sent) \in Nat
      /\ \A i \in 1 .. Len(r.sent) : sent[i] = r.sent[i]
      /\ sent[Len(r.sent) + 1] = cell
  BY <1>1, <1>3, AppendProperties
<1> HIDE DEF w, rest, sent
<1>6. /\ q \in Pong!ClientType /\ q.handle = r.handle /\ q.read = r.read /\ q.torn = r.torn
      /\ q.sent = sent /\ q.writes = rest
  BY <1>1, <1>4, <1>5 DEF Pong!ClientType, Part
<1> HIDE DEF q
<1>7. r.handle = "open"
  BY <1>1, <1>2 DEF ClientSound
<1>8. ~r.torn => /\ Len(r.writes) = 1
                 /\ Len(r.sent) + (w.last - w.first + 1) = r.read
                 /\ \A j \in w.first .. w.last : buf[j] = <<c, Len(r.sent) + 1 + (j - w.first)>>
  BY <1>1, <1>2, <1>4, <1>7 DEF ClientSound, Waiting
<1>9. w.first \in Int /\ w.last \in Int /\ r.read \in Int
  BY <1>1, <1>4, ServerAssumption DEF Part, Pong!ClientType
<1>10. PartsRead(q, buf)
  <2>1. ASSUME NEW k \in 1 .. Len(rest)
        PROVE  PartRead(rest[k], buf)
    <3>1. \A i \in 1 .. Len(r.writes) : PartRead(r.writes[i], buf)
      BY <1>1 DEF ClientSound, PartsRead
    <3>2. CASE w.first = w.last
      BY <1>4, <3>1, <3>2
    <3>3. CASE w.first # w.last /\ k # 1
      BY <1>4, <3>1, <3>3
    <3>4. CASE w.first # w.last /\ k = 1
      <4>1. PartRead(w, buf)
        BY <1>4, <3>1
      <4>2. QED
        BY <1>4, <1>9, <3>4, <4>1 DEF PartRead
    <3>5. QED
      BY <3>2, <3>3, <3>4
  <2>2. QED
    BY <1>6, <2>1 DEF PartsRead
<1>11. SentBack(c, q)
  <2>1. ~r.torn => cell = <<c, Len(r.sent) + 1>>
    <3>1. ~r.torn => cell = <<c, Len(r.sent) + 1 + (w.first - w.first)>>
      BY <1>3, <1>8, <1>9 DEF cell
    <3>2. Len(r.sent) + 1 + (w.first - w.first) = Len(r.sent) + 1
      BY <1>5, <1>9
    <3>3. QED
      BY <3>1, <3>2
  <2>2. QED
    <3>1. ASSUME NEW i \in 1 .. Len(sent)
          PROVE  sent[i] # Blank /\ (~r.torn => sent[i] = <<c, i>>)
      <4>1. CASE i \in 1 .. Len(r.sent)
        BY <1>1, <1>5, <4>1 DEF ClientSound, SentBack
      <4>2. CASE i = Len(r.sent) + 1
        BY <1>3, <1>5, <2>1, <4>2
      <4>3. QED
        BY <1>5, <4>1, <4>2
    <3>2. QED
      BY <1>6, <3>1 DEF SentBack
<1>12. Waiting(c, q, buf)
  <2>1. CASE w.first = w.last
    <3>1. ~r.torn => rest = << >> /\ Len(sent) = r.read
      BY <1>4, <1>5, <1>8, <1>9, <2>1
    <3>2. QED
      BY <1>6, <3>1 DEF Waiting
  <2>2. CASE w.first # w.last
    <3> DEFINE f == w.first
               l == w.last
               n == Len(r.sent)
    <3>0. /\ f \in Int /\ l \in Int /\ r.read \in Int /\ n \in Nat
          /\ Len(sent) = n + 1 /\ rest[1].first = f + 1 /\ rest[1].last = l
          /\ ~r.torn => Len(rest) = 1 /\ n + (l - f + 1) = r.read
      BY <1>4, <1>5, <1>8, <1>9, <2>2
    <3> HIDE DEF f, l, n
    <3>1. ASSUME ~r.torn
          PROVE  /\ Len(rest) = 1
                 /\ Len(sent) + (rest[1].last - rest[1].first + 1) = r.read
      BY <3>0, <3>1
    <3>2. ASSUME ~r.torn, NEW j \in rest[1].first .. rest[1].last
          PROVE  buf[j] = <<c, Len(sent) + 1 + (j - rest[1].first)>>
      <4>1. /\ j \in w.first .. w.last
            /\ Len(sent) + 1 + (j - rest[1].first) = Len(r.sent) + 1 + (j - w.first)
        <5>1. j \in f .. l /\ Len(sent) + 1 + (j - rest[1].first) = n + 1 + (j - f)
          <6>1. /\ f \in Int /\ l \in Int /\ n \in Nat
                /\ Len(sent) = n + 1 /\ rest[1].first = f + 1
            BY <3>0
          <6>2. j \in f + 1 .. l
            BY <3>0
          <6>3. QED
            BY ONLY <6>1, <6>2
        <5>2. QED
          BY <5>1 DEF f, l, n
      <4>2. QED
        BY <1>8, <3>2, <4>1
    <3>3. QED
      BY <1>6, <3>1, <3>2 DEF Waiting
  <2>3. QED
    BY <2>1, <2>2
<1>13. ClientSound(c, q, buf)
  BY <1>6, <1>7, <1>10, <1>11, <1>12 DEF ClientSound
<1>14. QED
  BY <1>2, <1>6, <1>13, PongOne DEF buf

(* What a client is after a read of client c, of n cells, into buf.        *)
LEMMA OtherRead ==
  ASSUME NEW c \in Clients, NEW r \in Pong!ClientType, NEW buf, NEW buf2,
         ClientSound(c, r, buf),
         \A j \in 1 .. BufCells : buf[j] # Blank => buf2[j] # Blank,
         NEW q, q = [r EXCEPT !.torn = @ \/ r.writes # << >>]
  PROVE  q \in Pong!ClientType /\ ClientSound(c, q, buf2)
<1> DEFINE torn == r.torn \/ r.writes # << >>
<1>1. torn \in BOOLEAN
  OBVIOUS
<1>2. /\ r.writes \in Seq(Part) /\ r.torn \in BOOLEAN
      /\ r.torn => torn
      /\ ~torn => r.writes = << >>
  BY DEF Pong!ClientType, Part
<1>3. q = [r EXCEPT !.torn = torn]
  BY DEF Pong!ClientType
<1> HIDE DEF torn
<1>4. /\ q \in Pong!ClientType /\ q.handle = r.handle /\ q.read = r.read /\ q.torn = torn
      /\ q.sent = r.sent /\ q.writes = r.writes
  BY <1>1, <1>3 DEF Pong!ClientType
<1>5. PartsRead(q, buf2)
  <2>1. ASSUME NEW k \in 1 .. Len(r.writes)
        PROVE  PartRead(r.writes[k], buf2)
    <3>1. r.writes[k] \in Part /\ PartRead(r.writes[k], buf)
      BY <1>2 DEF ClientSound, PartsRead
    <3>2. QED
      BY <3>1, ServerAssumption DEF PartRead, Part
  <2>2. QED
    BY <1>4, <2>1 DEF PartsRead
<1>6. SentBack(c, q)
  BY <1>2, <1>4 DEF ClientSound, SentBack
<1>7. Waiting(c, q, buf2)
  <2>1. ~torn /\ r.handle # "closed" => r.writes = << >> /\ Len(r.sent) = r.read
    <3>1. ASSUME ~torn, r.handle # "closed"
          PROVE  Len(r.sent) = r.read
      <4>1. r.writes = << >> /\ ~r.torn
        BY <1>2, <3>1
      <4>2. Len(r.writes) # 1
        BY <4>1
      <4>3. QED
        BY <3>1, <4>1, <4>2 DEF ClientSound, Waiting
    <3>2. QED
      BY <1>2, <3>1
  <2>2. QED
    BY <1>4, <2>1 DEF Waiting
<1>8. QED
  BY <1>4, <1>5, <1>6, <1>7 DEF ClientSound

LEMMA OwnRead ==
  ASSUME NEW c \in Clients, NEW r \in Pong!ClientType, NEW buf, NEW n \in 1 .. BufCells,
         ClientSound(c, r, buf), r.handle = "open", r.read + n \in 0 .. MaxCells,
         r.torn \/ r.writes = << >>,
         \A j \in 1 .. n : buf[j] # Blank /\ buf[j] = <<c, r.read + j>>,
         ~r.torn => Len(r.sent) = r.read,
         NEW q, q = [r EXCEPT !.read = @ + n, !.writes = Append(@, [first |-> 1, last |-> n])]
  PROVE  q \in Pong!ClientType /\ ClientSound(c, q, buf)
<1> DEFINE w == [first |-> 1, last |-> n]
           writes == Append(r.writes, w)
           read == r.read + n
<1>1. w \in Part /\ w.first = 1 /\ w.last = n /\ n \in Nat
  BY ServerAssumption DEF Part
<1>2. r.writes \in Seq(Part) /\ r.sent \in Seq(Pong!Cell) /\ r.read \in Nat
  BY ServerAssumption DEF Pong!ClientType, Part
<1>3. q = [r EXCEPT !.read = read, !.writes = writes]
  BY DEF Pong!ClientType
<1> HIDE DEF w
<1>4. /\ writes \in Seq(Part) /\ Len(writes) = Len(r.writes) + 1 /\ Len(r.writes) \in Nat
      /\ \A k \in 1 .. Len(r.writes) : writes[k] = r.writes[k]
      /\ writes[Len(r.writes) + 1] = w
  BY <1>1, <1>2, AppendProperties
<1> HIDE DEF writes
<1>5. /\ q \in Pong!ClientType /\ q.handle = "open" /\ q.read = r.read + n /\ q.torn = r.torn
      /\ q.sent = r.sent /\ q.writes = writes
  <2>1. read \in 0 .. MaxCells
    OBVIOUS
  <2> HIDE DEF read
  <2>2. q \in Pong!ClientType /\ q.read = read /\ q.writes = writes
        /\ q.handle = r.handle /\ q.torn = r.torn /\ q.sent = r.sent
    BY <1>3, <1>4, <2>1 DEF Pong!ClientType, Part
  <2>3. QED
    BY <2>2 DEF read
<1>6. PartsRead(q, buf)
  <2>1. PartRead(w, buf)
    BY <1>1 DEF PartRead
  <2>2. ASSUME NEW k \in 1 .. Len(writes)
        PROVE  PartRead(writes[k], buf)
    <3>1. k \in 1 .. Len(r.writes) \/ k = Len(r.writes) + 1
      BY <1>4
    <3>2. QED
      BY <1>4, <2>1, <3>1 DEF ClientSound, PartsRead
  <2>3. QED
    BY <1>5, <2>2 DEF PartsRead
<1>7. SentBack(c, q)
  BY <1>5 DEF ClientSound, SentBack
<1>8. Waiting(c, q, buf)
  <2>1. ASSUME ~r.torn
        PROVE  /\ Len(writes) = 1 /\ writes[1] = w
               /\ Len(r.sent) + (w.last - w.first + 1) = r.read + n
               /\ \A j \in w.first .. w.last : buf[j] = <<c, Len(r.sent) + 1 + (j - w.first)>>
    <3>1. Len(r.writes) = 0 /\ Len(r.sent) = r.read
      BY <2>1
    <3>2. Len(writes) = 1 /\ writes[1] = w
      BY <1>4, <3>1
    <3>3. \A j \in 1 .. n : r.read + j = Len(r.sent) + 1 + (j - 1)
      BY <1>1, <1>2, <3>1
    <3>4. Len(r.sent) + (n - 1 + 1) = r.read + n
      BY <1>1, <1>2, <3>1
    <3>5. QED
      BY <1>1, <3>2, <3>3, <3>4
  <2>2. QED
    BY <1>5, <2>1 DEF Waiting
<1>9. QED
  BY <1>5, <1>6, <1>7, <1>8 DEF ClientSound

LEMMA PongRead ==
  ASSUME PongSound, NEW c \in Clients, NEW n \in 1 .. BufCells, Pong!OnReadClient(c, n)
  PROVE  PongSound'
<1> DEFINE r     == state.client[c]
           old   == state.msgBuf
           buf   == [i \in 1 .. BufCells |-> IF i <= n THEN <<c, r.read + i>> ELSE old[i]]
           seen(d) == [state.client[d] EXCEPT !.torn = @ \/ state.client[d].writes # << >>]
           own(q)  == [q EXCEPT !.read = @ + n, !.writes = Append(@, [first |-> 1, last |-> n])]
           next  == [d \in Clients |-> IF d # c THEN seen(d) ELSE own(seen(d))]
<1>1. r.handle = "open" /\ r.read + n <= MaxCells
  BY DEF Pong!OnReadClient, Pong!Readable
<1>2. state' = [msgBuf |-> buf, client |-> next]
  BY DEF Pong!OnReadClient, Pong!ReadAndWrite
<1>3. /\ \A d \in Clients : state.client[d] \in Pong!ClientType /\ ClientSound(d, state.client[d], old)
      /\ old \in [1 .. BufCells -> Pong!Cell] /\ r \in Pong!ClientType
  BY DEF PongSound, Pong!Type
<1>4. n \in Nat /\ r.read \in Nat /\ r.read + n \in 0 .. MaxCells /\ MaxCells \in Nat
  BY <1>1, <1>3, ServerAssumption DEF Pong!ClientType
<1>5. ASSUME NEW i \in 1 .. n
      PROVE  <<c, r.read + i>> \in Pong!Cell /\ <<c, r.read + i>> # Blank
  <2>1. r.read + i \in 1 .. MaxCells
    BY <1>1, <1>4
  <2>2. <<c, r.read + i>> \in Clients \X (1 .. MaxCells)
    BY <2>1
  <2>3. QED
    BY <2>2, ServerAssumption DEF Pong!Cell
<1>6. /\ buf \in [1 .. BufCells -> Pong!Cell]
      /\ \A j \in 1 .. BufCells : old[j] # Blank => buf[j] # Blank
      /\ \A j \in 1 .. n : buf[j] # Blank /\ buf[j] = <<c, r.read + j>>
  BY <1>3, <1>4, <1>5, ServerAssumption
<1> HIDE DEF buf, old
<1>7. ASSUME NEW d \in Clients
      PROVE  seen(d) \in Pong!ClientType /\ ClientSound(d, seen(d), buf)
  <2> DEFINE r2 == state.client[d]
             q  == seen(d)
  <2>1. /\ r2 \in Pong!ClientType /\ ClientSound(d, r2, old)
        /\ q = [r2 EXCEPT !.torn = @ \/ r2.writes # << >>]
    BY <1>3
  <2>2. \A j \in 1 .. BufCells : old[j] # Blank => buf[j] # Blank
    BY <1>6
  <2> HIDE DEF r2, q
  <2>3. q \in Pong!ClientType /\ ClientSound(d, q, buf)
    BY <2>1, <2>2, OtherRead
  <2>4. QED
    BY <2>3 DEF q
<1>8. next[c] \in Pong!ClientType /\ ClientSound(c, next[c], buf)
  <2> DEFINE s == seen(c)
  <2>1. /\ s \in Pong!ClientType /\ ClientSound(c, s, buf)
        /\ s.handle = "open" /\ s.read = r.read /\ s.sent = r.sent /\ s.writes = r.writes
        /\ (s.torn <=> r.torn \/ r.writes # << >>)
    BY <1>1, <1>3, <1>7 DEF Pong!ClientType
  <2>2. next[c] = own(s)
    OBVIOUS
  <2> HIDE DEF s, r
  <2>3. ~s.torn => Len(s.sent) = s.read
    <3>1. ASSUME ~s.torn
          PROVE  Len(s.sent) = s.read
      <4>1. s.writes = << >>
        BY <2>1, <3>1
      <4>2. Len(s.writes) = 0
        BY <4>1
      <4>3. QED
        BY <2>1, <3>1, <4>2 DEF ClientSound, Waiting
    <3>2. QED
      BY <3>1
  <2>4. /\ s.handle = "open" /\ s.read + n \in 0 .. MaxCells /\ (s.torn \/ s.writes = << >>)
        /\ \A j \in 1 .. n : buf[j] # Blank /\ buf[j] = <<c, s.read + j>>
    BY <1>4, <1>6, <2>1
  <2> DEFINE q == own(s)
  <2>5. q = [s EXCEPT !.read = @ + n, !.writes = Append(@, [first |-> 1, last |-> n])]
    OBVIOUS
  <2> HIDE DEF q
  <2>6. q \in Pong!ClientType /\ ClientSound(c, q, buf)
    BY <2>1, <2>3, <2>4, <2>5, OwnRead
  <2>7. QED
    BY <2>2, <2>6 DEF q
<1>9. \A d \in Clients : next[d] \in Pong!ClientType /\ ClientSound(d, next[d], buf)
  <2>1. ASSUME NEW d \in Clients, d # c
        PROVE  next[d] = seen(d)
    BY <2>1
  <2> HIDE DEF next, seen
  <2>2. QED
    BY <1>7, <1>8, <2>1
<1>10. next = [d \in Clients |-> next[d]]
  OBVIOUS
<1> HIDE DEF next
<1>11. next \in [Clients -> Pong!ClientType]
  BY <1>9, <1>10
<1>12. state' \in Pong!Type /\ state'.client = next /\ state'.msgBuf = buf
  BY <1>2, <1>6, <1>11 DEF Pong!Type
<1>13. QED
  BY <1>9, <1>12 DEF PongSound

LEMMA PongStep ==
  ASSUME PongSound, Pong!Next
  PROVE  PongSound'
BY PongOpens, PongFlush, PongRead DEF Pong!Next

LEMMA PongSoundIntact ==
  ASSUME PongSound
  PROVE  Pong!PongIntact
<1>1. ASSUME NEW c \in Clients
      PROVE  /\ DOMAIN state.client[c].sent = 1 .. Len(state.client[c].sent)
             /\ SentBack(c, state.client[c])
  <2> DEFINE s == state.client[c].sent
  <2>1. s \in Seq(Pong!Cell) /\ SentBack(c, state.client[c])
    BY DEF PongSound, Pong!Type, Pong!ClientType, ClientSound
  <2> HIDE DEF s
  <2>2. DOMAIN s = 1 .. Len(s)
    BY <2>1
  <2>3. QED
    BY <2>1, <2>2 DEF s
<1>2. QED
  BY <1>1 DEF SentBack, Pong!PongIntact

-----------------------------------------------------------------------------
(* ThreadServer: an answer is the buffer as it was at the read, and the    *)
(* rest of it is older data.                                               *)

(* A cell is of one of the first n clients that were accepted.             *)
FromFirst(cell, order, n) == cell = Blank \/ \E k \in 1 .. n : order[k] = cell[1]

BufferOlder(buf, order) == \A j \in 1 .. BufCells : FromFirst(buf[j], order, Len(order))

Distinct(order) == \A i, j \in 1 .. Len(order) : order[i] = order[j] => i = j

(* An undisturbed client was sent the first of what it asked for; pending  *)
(* is the end of the buffer, and it still holds the rest.                  *)
Answered(r, buf) ==
  LET m == Len(r.sent)
      p == Len(r.queue)
  IN  ~r.torn =>
        /\ Len(r.asked) = m + p /\ p <= BufCells
        /\ \A i \in 1 .. m : r.sent[i] = r.asked[i]
        /\ \A j \in 1 .. p : /\ r.queue[j] = (BufCells - p) + j
                             /\ r.asked[m + j] = buf[(BufCells - p) + j]

SentOlder(c, r, order) ==
  \A i \in 1 .. Len(order) :
    order[i] = c => \A j \in 1 .. Len(r.sent) : FromFirst(r.sent[j], order, i)

(* Only the client that was accepted last has a thread that is not over.   *)
Served(c, r, joining, order) ==
  /\ c \in joining <=> r.thread \in {"reading", "ended"}
  /\ c \in joining => Len(order) >= 1 /\ order[Len(order)] = c
  /\ c \notin joining => r.queue = << >>
  /\ r.thread \in {"none", "waiting"} =>
       /\ r.sent = << >>
       /\ \A i \in 1 .. Len(order) : order[i] # c

SessionSound(c, r, buf, joining, order) ==
  /\ Answered(r, buf) /\ SentOlder(c, r, order) /\ Served(c, r, joining, order)

ThreadsSound ==
  /\ state \in Threads!Type
  /\ Distinct(state.order) /\ BufferOlder(state.globalBuf, state.order)
  /\ \A c \in Clients :
       SessionSound(c, state.session[c], state.globalBuf, state.joining, state.order)

LEMMA ThreadsInit ==
  ASSUME Threads!Init
  PROVE  ThreadsSound
<1> DEFINE fresh == [thread |-> "none", read |-> 0, queue |-> << >>, asked |-> << >>,
                     sent |-> << >>, torn |-> FALSE]
           buf   == [i \in 1 .. BufCells |-> Blank]
           order == << >>
<1>1. state = [session |-> [c \in Clients |-> fresh], globalBuf |-> buf, joining |-> {},
               order |-> order]
  BY DEF Threads!Init
<1>2. fresh \in Threads!ThreadType /\ buf \in [1 .. BufCells -> Threads!Cell]
  BY ServerAssumption DEF Threads!ThreadType, Threads!Cell
<1>3. order \in Seq(Clients) /\ Len(order) = 0
  OBVIOUS
<1> HIDE DEF order
<1>4. ASSUME NEW c \in Clients
      PROVE  SessionSound(c, fresh, buf, {}, order)
  BY <1>3, ServerAssumption DEF SessionSound, Answered, SentOlder, Served
<1>5. Distinct(order) /\ BufferOlder(buf, order)
  BY <1>3 DEF Distinct, BufferOlder, FromFirst
<1> HIDE DEF fresh, buf
<1>6. QED
  BY <1>1, <1>2, <1>3, <1>4, <1>5 DEF ThreadsSound, Threads!Type

(* A step of client c comes to q, and to what all of them share.           *)
LEMMA ThreadsBuild ==
  ASSUME state \in Threads!Type, NEW c \in Clients, NEW q \in Threads!ThreadType,
         NEW buf \in [1 .. BufCells -> Threads!Cell], NEW joining \in SUBSET Clients,
         NEW order \in Seq(Clients),
         state' = [session |-> [state.session EXCEPT ![c] = q], globalBuf |-> buf,
                   joining |-> joining, order |-> order],
         Distinct(order), BufferOlder(buf, order),
         SessionSound(c, q, buf, joining, order),
         \A d \in Clients \ {c} : SessionSound(d, state.session[d], buf, joining, order)
  PROVE  ThreadsSound'
<1>1. /\ state'.session = [state.session EXCEPT ![c] = q] /\ state'.globalBuf = buf
      /\ state'.joining = joining /\ state'.order = order
  OBVIOUS
<1>2. state' \in Threads!Type
  BY DEF Threads!Type
<1>3. ASSUME NEW d \in Clients
      PROVE  state'.session[d] = IF d = c THEN q ELSE state.session[d]
  BY <1>1 DEF Threads!Type
<1>4. QED
  BY <1>1, <1>2, <1>3 DEF ThreadsSound

(* A step of client c that neither reads nor starts a thread.              *)
LEMMA ThreadsOne ==
  ASSUME ThreadsSound, NEW c \in Clients, NEW q \in Threads!ThreadType,
         NEW joining \in SUBSET Clients,
         \A d \in Clients \ {c} : d \in joining <=> d \in state.joining,
         SessionSound(c, q, state.globalBuf, joining, state.order),
         state' = [session |-> [state.session EXCEPT ![c] = q], globalBuf |-> state.globalBuf,
                   joining |-> joining, order |-> state.order]
  PROVE  ThreadsSound'
<1>1. /\ state \in Threads!Type /\ state.globalBuf \in [1 .. BufCells -> Threads!Cell]
      /\ state.order \in Seq(Clients)
      /\ Distinct(state.order) /\ BufferOlder(state.globalBuf, state.order)
  BY DEF ThreadsSound, Threads!Type
<1>2. ASSUME NEW d \in Clients \ {c}
      PROVE  SessionSound(d, state.session[d], state.globalBuf, joining, state.order)
  BY DEF ThreadsSound, SessionSound, Served
<1>3. QED
  BY <1>1, <1>2, ThreadsBuild

(* A step of client c that changes where its thread is and nothing else.   *)
LEMMA ThreadMoves ==
  ASSUME ThreadsSound, NEW c \in Clients,
         NEW th \in {"waiting", "ended", "joined"},
         NEW joining \in SUBSET Clients,
         \A d \in Clients \ {c} : d \in joining <=> d \in state.joining,
         c \in joining <=> th = "ended",
         c \in joining => c \in state.joining,
         c \notin joining => state.session[c].queue = << >>,
         th = "waiting" => state.session[c].thread = "none",
         state' = [state EXCEPT !.session[c].thread = th, !.joining = joining]
  PROVE  ThreadsSound'
<1> DEFINE r == state.session[c]
           q == [r EXCEPT !.thread = th]
<1>1. /\ r \in Threads!ThreadType
      /\ SessionSound(c, r, state.globalBuf, state.joining, state.order)
  BY DEF ThreadsSound, Threads!Type
<1>2. state' = [session |-> [state.session EXCEPT ![c] = q], globalBuf |-> state.globalBuf,
                joining |-> joining, order |-> state.order]
  BY DEF ThreadsSound, Threads!Type
<1>3. state.session[c] = r
  OBVIOUS
<1> HIDE DEF r
<1>4. /\ q \in Threads!ThreadType /\ q.thread = th /\ q.read = r.read /\ q.queue = r.queue
      /\ q.asked = r.asked /\ q.sent = r.sent /\ (q.torn <=> r.torn)
  BY <1>1 DEF Threads!ThreadType
<1> HIDE DEF q
<1>5. Answered(q, state.globalBuf)
  <2> DEFINE buf == state.globalBuf
  <2>1. Answered(r, buf)
    BY <1>1 DEF SessionSound
  <2> HIDE DEF buf
  <2>2. q.queue = r.queue /\ q.asked = r.asked /\ q.sent = r.sent /\ (q.torn <=> r.torn)
    BY <1>4
  <2>3. Answered(q, buf)
    BY ONLY <2>1, <2>2, Zenon DEF Answered
  <2>4. QED
    BY <2>3 DEF buf
<1>6. SentOlder(c, q, state.order)
  BY <1>1, <1>4 DEF SessionSound, SentOlder
<1>7. Served(c, q, joining, state.order)
  BY <1>1, <1>3, <1>4 DEF SessionSound, Served
<1>8. SessionSound(c, q, state.globalBuf, joining, state.order)
  BY <1>5, <1>6, <1>7 DEF SessionSound
<1>9. QED
  BY <1>2, <1>4, <1>8, ThreadsOne

LEMMA ThreadsQuiet ==
  ASSUME ThreadsSound, NEW c \in Clients,
         \/ Threads!Connect(c) \/ Threads!OnReadEnd(c) \/ Threads!Join(c)
         \/ Threads!OnNewConnection(c) /\ state' # Threads!Start(c)
  PROVE  ThreadsSound'
<1> DEFINE r == state.session[c]
<1>1. /\ state \in Threads!Type /\ state.joining \in SUBSET Clients
      /\ c \in state.joining <=> r.thread \in {"reading", "ended"}
      /\ c \notin state.joining => r.queue = << >>
  BY DEF ThreadsSound, Threads!Type, SessionSound, Served
<1>2. CASE Threads!Connect(c)
  <2>1. r.thread = "none" /\ state' = [state EXCEPT !.session[c].thread = "waiting"]
    BY <1>2 DEF Threads!Connect
  <2> DEFINE joining == state.joining
  <2>2. /\ joining \in SUBSET Clients /\ c \notin joining
        /\ \A d \in Clients \ {c} : d \in joining <=> d \in state.joining
        /\ c \in joining => c \in state.joining
        /\ c \notin joining => r.queue = << >>
        /\ state' = [state EXCEPT !.session[c].thread = "waiting", !.joining = joining]
    BY <1>1, <2>1 DEF Threads!Type
  <2> HIDE DEF joining
  <2>3. QED
    BY <2>1, <2>2, ThreadMoves
<1>3. CASE Threads!OnReadEnd(c)
  <2>1. r.thread = "reading" /\ state' = [state EXCEPT !.session[c].thread = "ended"]
    BY <1>3 DEF Threads!OnReadEnd
  <2> DEFINE joining == state.joining
  <2>2. /\ joining \in SUBSET Clients /\ c \in joining
        /\ \A d \in Clients \ {c} : d \in joining <=> d \in state.joining
        /\ c \in joining => c \in state.joining
        /\ c \notin joining => r.queue = << >>
        /\ state' = [state EXCEPT !.session[c].thread = "ended", !.joining = joining]
    BY <1>1, <2>1 DEF Threads!Type
  <2> HIDE DEF joining
  <2>3. QED
    BY <2>1, <2>2, ThreadMoves
<1>4. CASE Threads!Join(c)
  <2> DEFINE joining == state.joining \ {c}
  <2>1. /\ r.queue = << >> /\ joining \in SUBSET Clients /\ c \notin joining
        /\ \A d \in Clients \ {c} : d \in joining <=> d \in state.joining
        /\ state' = [state EXCEPT !.session[c].thread = "joined", !.joining = joining]
    BY <1>1, <1>4 DEF Threads!Join
  <2> HIDE DEF joining
  <2>2. QED
    BY <2>1, ThreadMoves
<1>5. CASE Threads!OnNewConnection(c) /\ state' # Threads!Start(c)
  <2>1. r.thread = "waiting" /\ state' = [state EXCEPT !.session[c].thread = "joined"]
    BY <1>5 DEF Threads!OnNewConnection
  <2> DEFINE joining == state.joining
  <2>2. /\ joining \in SUBSET Clients /\ c \notin joining
        /\ \A d \in Clients \ {c} : d \in joining <=> d \in state.joining
        /\ c \in joining => c \in state.joining
        /\ c \notin joining => r.queue = << >>
        /\ state' = [state EXCEPT !.session[c].thread = "joined", !.joining = joining]
    BY <1>1, <2>1 DEF Threads!Type
  <2> HIDE DEF joining
  <2>3. QED
    BY <2>1, <2>2, ThreadMoves
<1>6. QED
  BY <1>2, <1>3, <1>4, <1>5

(* A newcomer after those in order makes none of them a newcomer's elder.  *)
LEMMA OrderGrows ==
  ASSUME NEW order \in Seq(Clients), NEW c \in Clients, NEW grown, grown = Append(order, c)
  PROVE  /\ grown \in Seq(Clients) /\ Len(grown) = Len(order) + 1 /\ Len(order) \in Nat
         /\ grown[Len(order) + 1] = c
         /\ \A i \in 1 .. Len(order) : grown[i] = order[i]
         /\ \A n \in 0 .. Len(order) : \A cell :
              FromFirst(cell, order, n) => FromFirst(cell, grown, n)
         /\ \A cell : FromFirst(cell, order, Len(order)) => FromFirst(cell, grown, Len(grown))
<1>1. /\ grown \in Seq(Clients) /\ Len(grown) = Len(order) + 1 /\ Len(order) \in Nat
      /\ grown[Len(order) + 1] = c
      /\ \A i \in 1 .. Len(order) : grown[i] = order[i]
  BY AppendProperties
<1>2. ASSUME NEW n \in 0 .. Len(order), NEW cell, FromFirst(cell, order, n)
      PROVE  FromFirst(cell, grown, n)
  BY <1>1, <1>2 DEF FromFirst
<1>3. ASSUME NEW cell, FromFirst(cell, order, Len(order))
      PROVE  FromFirst(cell, grown, Len(grown))
  BY <1>1, <1>3 DEF FromFirst
<1>4. QED
  BY <1>1, <1>2, <1>3

LEMMA ThreadsStart ==
  ASSUME ThreadsSound, NEW c \in Clients,
         Threads!OnNewConnection(c), state' = Threads!Start(c)
  PROVE  ThreadsSound'
<1> DEFINE r     == state.session[c]
           buf   == state.globalBuf
           order == state.order
           grown == Append(order, c)
           q     == [r EXCEPT !.thread = "reading"]
<1>1. /\ r \in Threads!ThreadType /\ state \in Threads!Type
      /\ buf \in [1 .. BufCells -> Threads!Cell] /\ order \in Seq(Clients)
      /\ SessionSound(c, r, buf, {}, order) /\ Distinct(order) /\ BufferOlder(buf, order)
      /\ r.thread = "waiting" /\ state.joining = {}
      /\ \A d \in Clients : SessionSound(d, state.session[d], buf, {}, order)
  BY DEF ThreadsSound, Threads!Type, Threads!OnNewConnection
<1>2. state' = [session |-> [state.session EXCEPT ![c] = q], globalBuf |-> buf,
                joining |-> {c}, order |-> grown]
  BY <1>1 DEF Threads!Start, Threads!Type
<1> HIDE DEF r, buf, order
<1>3. /\ grown \in Seq(Clients) /\ Len(grown) = Len(order) + 1 /\ Len(order) \in Nat
      /\ grown[Len(order) + 1] = c
      /\ \A i \in 1 .. Len(order) : grown[i] = order[i]
      /\ \A n \in 0 .. Len(order) : \A cell :
           FromFirst(cell, order, n) => FromFirst(cell, grown, n)
      /\ \A cell : FromFirst(cell, order, Len(order)) => FromFirst(cell, grown, Len(grown))
  BY <1>1, OrderGrows
<1> HIDE DEF grown
<1>4. /\ q \in Threads!ThreadType /\ q.thread = "reading" /\ q.queue = r.queue
      /\ q.asked = r.asked /\ q.sent = r.sent /\ (q.torn <=> r.torn)
  BY <1>1 DEF Threads!ThreadType
<1> HIDE DEF q
<1>5. /\ Answered(r, buf) /\ r.sent = << >> /\ \A i \in 1 .. Len(order) : order[i] # c
  BY <1>1 DEF SessionSound, Served
<1>6. Distinct(grown)
  <2>1. ASSUME NEW i \in 1 .. Len(grown), NEW j \in 1 .. Len(grown), grown[i] = grown[j]
        PROVE  i = j
    <3>1. /\ i \in 1 .. Len(order) \/ i = Len(order) + 1
          /\ j \in 1 .. Len(order) \/ j = Len(order) + 1
      BY <1>3
    <3>2. QED
      BY <1>1, <1>3, <1>5, <2>1, <3>1 DEF Distinct
  <2>2. QED
    BY <2>1 DEF Distinct
<1>7. BufferOlder(buf, grown)
  BY <1>1, <1>3 DEF BufferOlder
<1>8. SessionSound(c, q, buf, {c}, grown)
  <2>1. Answered(q, buf)
    BY <1>4, <1>5 DEF Answered
  <2>2. Len(q.sent) = 0
    BY <1>4, <1>5
  <2>3. SentOlder(c, q, grown)
    BY <2>2 DEF SentOlder
  <2>4. Served(c, q, {c}, grown)
    BY <1>3, <1>4 DEF Served
  <2>5. QED
    BY <2>1, <2>3, <2>4 DEF SessionSound
<1>9. ASSUME NEW d \in Clients \ {c}
      PROVE  SessionSound(d, state.session[d], buf, {c}, grown)
  <2> DEFINE s == state.session[d]
  <2>1. Answered(s, buf) /\ SentOlder(d, s, order) /\ Served(d, s, {}, order)
    BY <1>1 DEF SessionSound
  <2> HIDE DEF s
  <2>2. SentOlder(d, s, grown)
    <3>1. ASSUME NEW i \in 1 .. Len(grown), grown[i] = d, NEW j \in 1 .. Len(s.sent)
          PROVE  FromFirst(s.sent[j], grown, i)
      <4>1. i \in 1 .. Len(order)
        BY <1>3, <3>1
      <4>2. FromFirst(s.sent[j], order, i)
        BY <1>3, <2>1, <3>1, <4>1 DEF SentOlder
      <4>3. /\ i \in 0 .. Len(order)
            /\ \A n \in 0 .. Len(order) : \A cell :
                 FromFirst(cell, order, n) => FromFirst(cell, grown, n)
        BY <1>3, <4>1
      <4> DEFINE cell == s.sent[j]
      <4>4. FromFirst(cell, order, i)
        BY <4>2
      <4> HIDE DEF cell
      <4>5. FromFirst(cell, grown, i)
        BY <4>3, <4>4
      <4>6. QED
        BY <4>5 DEF cell
    <3>2. QED
      BY <3>1 DEF SentOlder
  <2>3. Served(d, s, {c}, grown)
    <3>1. \A i \in 1 .. Len(grown) : i \in 1 .. Len(order) \/ i = Len(order) + 1
      BY <1>3
    <3>2. QED
      BY <1>3, <2>1, <3>1 DEF Served
  <2>4. QED
    BY <2>1, <2>2, <2>3 DEF SessionSound, s
<1>10. {c} \in SUBSET Clients
  OBVIOUS
<1>11. QED
  BY <1>1, <1>2, <1>3, <1>4, <1>6, <1>7, <1>8, <1>9, <1>10, ThreadsBuild

LEMMA ThreadsFail ==
  ASSUME ThreadsSound, NEW c \in Clients, Threads!WriteFails(c)
  PROVE  ThreadsSound'
<1> DEFINE r       == state.session[c]
           buf     == state.globalBuf
           order   == state.order
           joining == state.joining
           none    == << >>
           q       == [r EXCEPT !.queue = none, !.torn = TRUE]
<1>1. /\ r \in Threads!ThreadType /\ joining \in SUBSET Clients
      /\ SessionSound(c, r, buf, joining, order)
      /\ r.thread \in {"reading", "ended"}
  BY DEF ThreadsSound, Threads!Type, Threads!WriteFails, Threads!Alive
<1>2. state' = [session |-> [state.session EXCEPT ![c] = q], globalBuf |-> buf,
                joining |-> joining, order |-> order]
  BY DEF ThreadsSound, Threads!Type, Threads!WriteFails
<1>3. none \in Seq(1 .. BufCells)
  OBVIOUS
<1> HIDE DEF r, buf, order, joining, none
<1>4. /\ q \in Threads!ThreadType /\ q.thread = r.thread /\ q.queue = none
      /\ q.asked = r.asked /\ q.sent = r.sent /\ q.torn = TRUE
  BY <1>1, <1>3 DEF Threads!ThreadType
<1> HIDE DEF q
<1>5. Answered(q, buf) /\ SentOlder(c, q, order) /\ Served(c, q, joining, order)
  BY <1>1, <1>4 DEF SessionSound, Answered, SentOlder, Served, none
<1>6. SessionSound(c, q, buf, joining, order)
  BY <1>5 DEF SessionSound
<1>7. QED
  BY <1>1, <1>2, <1>4, <1>6, ThreadsOne DEF buf, order, joining

LEMMA Popped ==
  ASSUME NEW S, NEW s \in Seq(S), s # << >>
  PROVE  /\ Head(s) \in S /\ Head(s) = s[1] /\ Tail(s) \in Seq(S)
         /\ Len(s) \in Nat /\ Len(s) >= 1 /\ Len(Tail(s)) = Len(s) - 1
         /\ \A k \in 1 .. Len(s) - 1 : Tail(s)[k] = s[k + 1]
OBVIOUS

(* The socket takes the next cell of what is pending, out of the buffer.   *)
Flushed(r, buf) ==
  [r EXCEPT !.queue = Tail(@), !.sent = Append(@, buf[Head(r.queue)])]

LEMMA AnswerFlushed ==
  ASSUME NEW r \in Threads!ThreadType, NEW buf \in [1 .. BufCells -> Threads!Cell],
         Answered(r, buf), r.queue # << >>,
         NEW q, q = Flushed(r, buf)
  PROVE  /\ q \in Threads!ThreadType /\ Answered(q, buf) /\ q.thread = r.thread
         /\ Head(r.queue) \in 1 .. BufCells
         /\ Len(r.sent) \in Nat /\ Len(q.sent) = Len(r.sent) + 1
         /\ \A i \in 1 .. Len(r.sent) : q.sent[i] = r.sent[i]
         /\ q.sent[Len(r.sent) + 1] = buf[Head(r.queue)]
<1> DEFINE h     == Head(r.queue)
           queue == Tail(r.queue)
           cell  == buf[h]
           sent  == Append(r.sent, cell)
<1>1. /\ r.queue \in Seq(1 .. BufCells) /\ r.sent \in Seq(Threads!Cell)
      /\ r.asked \in Seq(Threads!Cell)
  BY DEF Threads!ThreadType
<1>2. /\ h \in 1 .. BufCells /\ h = r.queue[1] /\ queue \in Seq(1 .. BufCells)
      /\ Len(r.queue) \in Nat /\ Len(r.queue) >= 1 /\ Len(queue) = Len(r.queue) - 1
      /\ \A k \in 1 .. Len(r.queue) - 1 : queue[k] = r.queue[k + 1]
  BY <1>1, Popped
<1>3. q = [r EXCEPT !.queue = queue, !.sent = sent]
  BY DEF Flushed, Threads!ThreadType
<1> HIDE DEF h, queue
<1>4. cell \in Threads!Cell
  BY <1>2
<1> HIDE DEF cell
<1>5. /\ sent \in Seq(Threads!Cell) /\ Len(sent) = Len(r.sent) + 1 /\ Len(r.sent) \in Nat
      /\ \A i \in 1 .. Len(r.sent) : sent[i] = r.sent[i]
      /\ sent[Len(r.sent) + 1] = cell
  BY <1>1, <1>4, AppendProperties
<1> HIDE DEF sent
<1>6. /\ q \in Threads!ThreadType /\ q.thread = r.thread /\ q.queue = queue
      /\ q.asked = r.asked /\ q.sent = sent /\ (q.torn <=> r.torn)
  BY <1>2, <1>3, <1>5 DEF Threads!ThreadType
<1>7. Answered(q, buf)
  <2> DEFINE m == Len(r.sent)
             p == Len(r.queue)
             asked == r.asked
             old == r.queue
  <2>1. ASSUME ~r.torn
        PROVE  /\ Len(asked) = m + p /\ p <= BufCells
               /\ \A i \in 1 .. m : r.sent[i] = asked[i]
               /\ \A j \in 1 .. p : /\ old[j] = (BufCells - p) + j
                                    /\ asked[m + j] = buf[(BufCells - p) + j]
    BY <2>1 DEF Answered
  <2>2. /\ m \in Nat /\ p \in Nat /\ p >= 1 /\ Len(queue) = p - 1 /\ Len(sent) = m + 1
        /\ \A k \in 1 .. p - 1 : queue[k] = old[k + 1]
        /\ \A i \in 1 .. m : sent[i] = r.sent[i]
        /\ sent[m + 1] = cell /\ cell = buf[h] /\ h = old[1] /\ BufCells \in Nat
    BY <1>2, <1>5, ServerAssumption DEF cell
  <2> HIDE DEF m, p, asked, old
  <2>3. ASSUME ~r.torn
        PROVE  /\ Len(asked) = (m + 1) + (p - 1) /\ p - 1 <= BufCells
               /\ \A i \in 1 .. m + 1 : sent[i] = asked[i]
               /\ \A j \in 1 .. p - 1 : /\ queue[j] = (BufCells - (p - 1)) + j
                                        /\ asked[(m + 1) + j] = buf[(BufCells - (p - 1)) + j]
    <3>1. Len(asked) = (m + 1) + (p - 1) /\ p - 1 <= BufCells
      <4>1. Len(asked) = m + p /\ p <= BufCells
        BY <2>1, <2>3
      <4>2. m \in Nat /\ p \in Nat /\ BufCells \in Nat
        BY <2>2
      <4>3. QED
        BY ONLY <4>1, <4>2
    <3>2. 1 \in 1 .. p
      BY <2>2
    <3>3. old[1] = (BufCells - p) + 1 /\ asked[m + 1] = buf[(BufCells - p) + 1]
      BY <2>1, <2>3, <3>2
    <3>4. ASSUME NEW i \in 1 .. m + 1
          PROVE  sent[i] = asked[i]
      <4>1. i \in 1 .. m \/ i = m + 1
        BY <2>2
      <4>2. QED
        BY <2>1, <2>2, <2>3, <3>3, <4>1
    <3>5. ASSUME NEW j \in 1 .. p - 1
          PROVE  /\ queue[j] = (BufCells - (p - 1)) + j
                 /\ asked[(m + 1) + j] = buf[(BufCells - (p - 1)) + j]
      <4>0. m \in Nat /\ p \in Nat /\ BufCells \in Nat
        BY <2>2
      <4>1. /\ j + 1 \in 1 .. p /\ m + (j + 1) = (m + 1) + j
            /\ (BufCells - p) + (j + 1) = (BufCells - (p - 1)) + j
        BY <4>0
      <4>2. old[j + 1] = (BufCells - p) + (j + 1) /\ asked[m + (j + 1)] = buf[(BufCells - p) + (j + 1)]
        BY <2>1, <2>3, <4>1
      <4>3. QED
        BY <2>2, <4>1, <4>2
    <3>6. QED
      BY <3>1, <3>4, <3>5
  <2>4. /\ Len(q.sent) = m + 1 /\ Len(q.queue) = p - 1 /\ q.asked = asked
        /\ q.sent = sent /\ q.queue = queue /\ (q.torn <=> r.torn)
    BY <1>6, <2>2 DEF asked
  <2>5. QED
    BY <2>3, <2>4 DEF Answered
<1>8. QED
  BY <1>2, <1>5, <1>6, <1>7 DEF cell, h

LEMMA ThreadsFlush ==
  ASSUME ThreadsSound, NEW c \in Clients, Threads!Flush(c)
  PROVE  ThreadsSound'
<1> DEFINE r       == state.session[c]
           buf     == state.globalBuf
           order   == state.order
           joining == state.joining
           q == Flushed(r, buf)
<1>1. /\ r \in Threads!ThreadType /\ joining \in SUBSET Clients
      /\ order \in Seq(Clients) /\ buf \in [1 .. BufCells -> Threads!Cell]
      /\ Answered(r, buf) /\ SentOlder(c, r, order) /\ Served(c, r, joining, order)
      /\ r.thread \in {"reading", "ended"} /\ r.queue # << >>
      /\ Distinct(order) /\ BufferOlder(buf, order)
  BY DEF ThreadsSound, SessionSound, Threads!Type, Threads!Flush, Threads!Alive
<1>2. state' = [session |-> [state.session EXCEPT ![c] = q], globalBuf |-> buf,
                joining |-> joining, order |-> order]
  BY DEF ThreadsSound, Threads!Type, Threads!Flush, Flushed
<1>3. q = Flushed(r, buf)
  OBVIOUS
<1> HIDE DEF r, buf, order, joining, q
<1>4. /\ q \in Threads!ThreadType /\ Answered(q, buf) /\ q.thread = r.thread
      /\ Head(r.queue) \in 1 .. BufCells
      /\ Len(r.sent) \in Nat /\ Len(q.sent) = Len(r.sent) + 1
      /\ \A i \in 1 .. Len(r.sent) : q.sent[i] = r.sent[i]
      /\ q.sent[Len(r.sent) + 1] = buf[Head(r.queue)]
  BY <1>1, <1>3, AnswerFlushed
<1>5. c \in joining /\ Len(order) \in Nat /\ Len(order) >= 1 /\ order[Len(order)] = c
  BY <1>1 DEF Served
<1>6. SentOlder(c, q, order)
  <2>1. ASSUME NEW i \in 1 .. Len(order), order[i] = c, NEW j \in 1 .. Len(q.sent)
        PROVE  FromFirst(q.sent[j], order, i)
    <3>1. CASE j \in 1 .. Len(r.sent)
      BY <1>1, <1>4, <2>1, <3>1 DEF SentOlder
    <3>2. CASE j = Len(r.sent) + 1
      <4>1. i = Len(order)
        BY <1>1, <1>5, <2>1 DEF Distinct
      <4>2. QED
        BY <1>1, <1>4, <3>2, <4>1 DEF BufferOlder
    <3>3. QED
      BY <1>4, <3>1, <3>2
  <2>2. QED
    BY <2>1 DEF SentOlder
<1>7. Served(c, q, joining, order)
  BY <1>1, <1>4, <1>5 DEF Served
<1>8. SessionSound(c, q, buf, joining, order)
  BY <1>4, <1>6, <1>7 DEF SessionSound
<1>9. QED
  BY <1>1, <1>2, <1>4, <1>8, ThreadsOne DEF buf, order, joining

(* The whole buffer is asked for, and it is all there.                     *)
AskedFor(r, buf, n) ==
  [r EXCEPT !.read = @ + n, !.queue = @ \o [i \in 1 .. BufCells |-> i], !.asked = @ \o buf,
            !.torn = @ \/ r.queue # << >>]

LEMMA AnswerAsked ==
  ASSUME NEW r \in Threads!ThreadType, NEW buf \in [1 .. BufCells -> Threads!Cell],
         NEW old, Answered(r, old), NEW n \in 0 .. BufCells, r.read + n <= MaxCells,
         NEW q, q = AskedFor(r, buf, n)
  PROVE  /\ q \in Threads!ThreadType /\ Answered(q, buf)
         /\ q.thread = r.thread /\ q.sent = r.sent
<1> DEFINE S     == 1 .. BufCells
           all   == [i \in 1 .. BufCells |-> i]
           queue == r.queue \o all
           asked == r.asked \o buf
           torn  == r.torn \/ r.queue # << >>
           read  == r.read + n
<1>1. BufCells \in Nat /\ MaxCells \in Nat /\ r.read \in 0 .. MaxCells /\ n \in Nat
  BY ServerAssumption DEF Threads!ThreadType
<1>2. /\ r.queue \in Seq(S) /\ r.sent \in Seq(Threads!Cell)
      /\ r.asked \in Seq(Threads!Cell) /\ r.torn \in BOOLEAN
  BY DEF Threads!ThreadType
<1>3. /\ all \in Seq(S) /\ Len(all) = BufCells
      /\ \A i \in 1 .. BufCells : all[i] = i
      /\ buf \in Seq(Threads!Cell) /\ Len(buf) = BufCells
  BY <1>1
<1>4. q = [r EXCEPT !.read = read, !.queue = queue, !.asked = asked, !.torn = torn]
  BY DEF AskedFor, Threads!ThreadType
<1>5. read \in 0 .. MaxCells /\ torn \in BOOLEAN
  BY <1>1
<1>6. (~torn => ~r.torn) /\ (~torn => r.queue = << >>)
  OBVIOUS
<1> HIDE DEF S, all, torn, read
<1>7. /\ queue \in Seq(S) /\ Len(queue) = Len(r.queue) + BufCells
      /\ \A k \in 1 .. Len(r.queue) + BufCells :
           queue[k] = IF k <= Len(r.queue) THEN r.queue[k] ELSE all[k - Len(r.queue)]
  BY <1>2, <1>3, ConcatProperties
<1>8. /\ asked \in Seq(Threads!Cell) /\ Len(asked) = Len(r.asked) + BufCells
      /\ \A k \in 1 .. Len(r.asked) + BufCells :
           asked[k] = IF k <= Len(r.asked) THEN r.asked[k] ELSE buf[k - Len(r.asked)]
  <2> DEFINE C == Threads!Cell
             s == r.asked
             t == buf
  <2>1. s \in Seq(C) /\ t \in Seq(C)
    BY <1>2, <1>3
  <2> HIDE DEF C, s, t
  <2>2. /\ s \o t \in Seq(C) /\ Len(s \o t) = Len(s) + Len(t)
        /\ \A k \in 1 .. Len(s) + Len(t) :
             (s \o t)[k] = IF k <= Len(s) THEN s[k] ELSE t[k - Len(s)]
    BY <2>1, ConcatProperties
  <2>3. QED
    BY <1>3, <2>2 DEF C, s, t
<1> HIDE DEF queue, asked
<1>9. /\ q \in Threads!ThreadType /\ q.thread = r.thread /\ q.queue = queue
      /\ q.asked = asked /\ q.sent = r.sent /\ q.torn = torn
  BY <1>2, <1>4, <1>5, <1>7, <1>8 DEF Threads!ThreadType, S
<1>10. Answered(q, buf)
  <2> DEFINE m == Len(r.sent)
  <2>1. ASSUME ~torn
        PROVE  /\ Len(queue) = BufCells /\ Len(asked) = m + BufCells
               /\ \A i \in 1 .. m : r.sent[i] = asked[i]
               /\ \A j \in 1 .. BufCells : /\ queue[j] = (BufCells - BufCells) + j
                                           /\ asked[m + j] = buf[(BufCells - BufCells) + j]
    <3>1. Len(r.queue) = 0
      BY <1>6, <2>1
    <3>2. Len(r.asked) = m /\ m \in Nat /\ \A i \in 1 .. m : r.sent[i] = r.asked[i]
      BY <1>2, <1>6, <2>1, <3>1 DEF Answered
    <3> HIDE DEF m
    <3>3. ASSUME NEW i \in 1 .. m
          PROVE  r.sent[i] = asked[i]
      BY <1>1, <1>8, <3>2
    <3>4. ASSUME NEW j \in 1 .. BufCells
          PROVE  /\ queue[j] = (BufCells - BufCells) + j
                 /\ asked[m + j] = buf[(BufCells - BufCells) + j]
      <4>1. (BufCells - BufCells) + j = j /\ (m + j) - m = j /\ j - 0 = j
            /\ m + j \in 1 .. m + BufCells /\ ~(m + j <= m) /\ ~(j <= 0) /\ j \in 1 .. 0 + BufCells
        BY <1>1, <3>2
      <4>2. QED
        BY <1>3, <1>7, <1>8, <3>1, <3>2, <4>1
    <3>5. Len(queue) = BufCells /\ Len(asked) = m + BufCells
      BY <1>1, <1>7, <1>8, <3>1, <3>2
    <3>6. QED
      BY <3>3, <3>4, <3>5
  <2>2. q.queue = queue /\ q.asked = asked /\ q.sent = r.sent /\ q.torn = torn
    BY <1>9
  <2> HIDE DEF m
  <2>3. ASSUME ~q.torn
        PROVE  /\ Len(q.sent) = m /\ Len(q.queue) = BufCells
               /\ Len(q.asked) = m + BufCells /\ BufCells <= BufCells
               /\ \A i \in 1 .. m : q.sent[i] = q.asked[i]
               /\ \A j \in 1 .. BufCells : /\ q.queue[j] = (BufCells - BufCells) + j
                                           /\ q.asked[m + j] = buf[(BufCells - BufCells) + j]
    BY <1>1, <2>1, <2>2, <2>3 DEF m
  <2>4. QED
    BY ONLY <2>3, Zenon DEF Answered
<1>11. QED
  BY <1>9, <1>10

LEMMA ThreadsRead ==
  ASSUME ThreadsSound, NEW c \in Clients, NEW n \in 0 .. BufCells, Threads!OnRead(c, n)
  PROVE  ThreadsSound'
<1> DEFINE r       == state.session[c]
           old     == state.globalBuf
           order   == state.order
           joining == state.joining
           buf     == [i \in 1 .. BufCells |-> IF i <= n THEN <<c, r.read + i>> ELSE old[i]]
           q       == AskedFor(r, buf, n)
<1>1. /\ state \in Threads!Type /\ r \in Threads!ThreadType /\ joining \in SUBSET Clients
      /\ order \in Seq(Clients) /\ old \in [1 .. BufCells -> Threads!Cell]
      /\ Answered(r, old) /\ SentOlder(c, r, order) /\ Served(c, r, joining, order)
      /\ r.thread = "reading" /\ r.read + n <= MaxCells
      /\ Distinct(order) /\ BufferOlder(old, order)
      /\ \A d \in Clients : SessionSound(d, state.session[d], old, joining, order)
  BY DEF ThreadsSound, SessionSound, Threads!Type, Threads!OnRead
<1>2. state' = [session |-> [state.session EXCEPT ![c] = q], globalBuf |-> buf,
                joining |-> joining, order |-> order]
  BY <1>1 DEF Threads!Type, Threads!OnRead, AskedFor
<1>3. /\ c \in joining /\ Len(order) \in Nat /\ Len(order) >= 1 /\ order[Len(order)] = c
  BY <1>1 DEF Served
<1>4. /\ buf \in [1 .. BufCells -> Threads!Cell]
      /\ \A i \in 1 .. BufCells : buf[i] = old[i] \/ buf[i][1] = c
  <2>1. /\ n \in Nat /\ r.read \in Nat /\ r.read + n \in 0 .. MaxCells /\ MaxCells \in Nat
    <3>1. BufCells \in Nat /\ MaxCells \in Nat
      BY ServerAssumption
    <3>2. n \in Nat
      BY <3>1
    <3>3. r.read \in 0 .. MaxCells /\ r.read + n <= MaxCells
      BY <1>1 DEF Threads!ThreadType
    <3> HIDE DEF r
    <3>4. QED
      BY ONLY <3>1, <3>2, <3>3
  <2>2. ASSUME NEW i \in 1 .. BufCells, i <= n
        PROVE  <<c, r.read + i>> \in Threads!Cell
    <3> DEFINE had == r.read
    <3>1. had + i \in 1 .. MaxCells
      <4>1. had \in Nat /\ had + n \in 0 .. MaxCells
        BY <2>1
      <4> HIDE DEF had
      <4>2. QED
        BY <2>1, <2>2, <4>1
    <3>2. QED
      BY <3>1 DEF Threads!Cell
  <2>3. QED
    BY <1>1, <2>2
<1>5. q = AskedFor(r, buf, n)
  OBVIOUS
<1> HIDE DEF r, old, order, joining, buf, q
<1>6. /\ q \in Threads!ThreadType /\ Answered(q, buf)
      /\ q.thread = r.thread /\ q.sent = r.sent
  BY <1>1, <1>4, <1>5, AnswerAsked
<1>7. BufferOlder(buf, order)
  BY <1>1, <1>3, <1>4 DEF BufferOlder, FromFirst
<1>8. SessionSound(c, q, buf, joining, order)
  <2>1. SentOlder(c, q, order)
    BY <1>1, <1>6 DEF SentOlder
  <2>2. Served(c, q, joining, order)
    BY <1>1, <1>3, <1>6 DEF Served
  <2>3. QED
    BY <1>6, <2>1, <2>2 DEF SessionSound
<1>9. ASSUME NEW d \in Clients \ {c}
      PROVE  SessionSound(d, state.session[d], buf, joining, order)
  <2> DEFINE s == state.session[d]
  <2>1. Answered(s, old) /\ SentOlder(d, s, order) /\ Served(d, s, joining, order)
        /\ s \in Threads!ThreadType
    BY <1>1 DEF SessionSound, Threads!Type
  <2> HIDE DEF s
  <2>2. d \notin joining
    BY <1>3, <2>1 DEF Served
  <2>3. s.queue = << >>
    BY <2>1, <2>2 DEF Served
  <2>4. Len(s.queue) = 0
    BY <2>3
  <2>5. Answered(s, buf)
    BY <2>1, <2>4 DEF Answered
  <2>6. QED
    BY <2>1, <2>5 DEF SessionSound, s
<1>10. QED
  BY <1>1, <1>2, <1>4, <1>6, <1>7, <1>8, <1>9, ThreadsBuild

LEMMA ThreadsStep ==
  ASSUME ThreadsSound, Threads!Next
  PROVE  ThreadsSound'
<1> PICK c \in Clients : Threads!ClientStep(c)
  BY DEF Threads!Next
<1>1. CASE Threads!Connect(c) \/ Threads!OnReadEnd(c) \/ Threads!Join(c)
  BY <1>1, ThreadsQuiet
<1>2. CASE Threads!OnNewConnection(c)
  BY <1>2, ThreadsQuiet, ThreadsStart
<1>3. CASE Threads!Flush(c)
  BY <1>3, ThreadsFlush
<1>4. CASE Threads!WriteFails(c)
  BY <1>4, ThreadsFail
<1>5. CASE \E n \in 0 .. BufCells : Threads!OnRead(c, n)
  BY <1>5, ThreadsRead
<1>6. QED
  BY <1>1, <1>2, <1>3, <1>4, <1>5 DEF Threads!ClientStep

LEMMA AnsweredPrefix ==
  ASSUME NEW r, NEW buf, Answered(r, buf), ~r.torn,
         Len(r.sent) \in Nat, Len(r.queue) \in Nat
  PROVE  /\ Len(r.sent) <= Len(r.asked) /\ Len(r.asked) \in Nat
         /\ \A i \in 1 .. Len(r.sent) : r.sent[i] = r.asked[i]
<1>1. /\ Len(r.asked) = Len(r.sent) + Len(r.queue)
      /\ \A i \in 1 .. Len(r.sent) : r.sent[i] = r.asked[i]
  <2> DEFINE m == Len(r.sent)
             p == Len(r.queue)
  <2>1. /\ Len(r.asked) = m + p
        /\ \A i \in 1 .. m : r.sent[i] = r.asked[i]
    BY Zenon DEF Answered
  <2>2. QED
    BY <2>1
<1> DEFINE m == Len(r.sent)
           p == Len(r.queue)
           l == Len(r.asked)
<1>2. l = m + p /\ m \in Nat /\ p \in Nat
  BY <1>1
<1> HIDE DEF l, m, p
<1>3. m <= l /\ l \in Nat
  BY <1>2
<1>4. QED
  BY <1>1, <1>3, Zenon DEF l, m

LEMMA ThreadsSoundExplained ==
  ASSUME ThreadsSound
  PROVE  Threads!AnswersExplained
<1>1. ASSUME NEW c \in Clients
      PROVE  LET r == state.session[c]
             IN  ~r.torn => r.sent = SubSeq(r.asked, 1, Len(r.sent))
  <2> DEFINE r == state.session[c]
             C == Threads!Cell
  <2>1. /\ r.sent \in Seq(C) /\ r.asked \in Seq(C) /\ Len(r.queue) \in Nat
        /\ Answered(r, state.globalBuf)
    BY DEF ThreadsSound, Threads!Type, Threads!ThreadType, SessionSound
  <2> SUFFICES ASSUME ~r.torn PROVE r.sent = SubSeq(r.asked, 1, Len(r.sent))
    OBVIOUS
  <2> DEFINE buf == state.globalBuf
  <2>0. Answered(r, buf) /\ ~r.torn /\ Len(r.sent) \in Nat /\ Len(r.queue) \in Nat
    BY <2>1
  <2> HIDE DEF C, r, buf
  <2>2. /\ Len(r.sent) \in Nat /\ Len(r.asked) \in Nat /\ Len(r.sent) <= Len(r.asked)
        /\ \A i \in 1 .. Len(r.sent) : r.sent[i] = r.asked[i]
    BY <2>0, AnsweredPrefix
  <2> DEFINE s == r.sent
             t == r.asked
             n == Len(s)
  <2>3. s \in Seq(C) /\ t \in Seq(C) /\ n \in Nat /\ n <= Len(t) /\ n = Len(s)
        /\ \A i \in 1 .. n : s[i] = t[i]
    BY <2>1, <2>2
  <2> HIDE DEF s, t, n
  <2>4. s = SubSeq(t, 1, n)
    <3>1. /\ SubSeq(t, 1, n) \in Seq(C) /\ Len(SubSeq(t, 1, n)) = n
          /\ \A i \in 1 .. n : SubSeq(t, 1, n)[i] = t[i]
      BY <2>3
    <3>2. QED
      BY <2>3, <3>1, SeqEqual
  <2>5. QED
    BY <2>4 DEF s, t, n
<1>2. ASSUME NEW c \in Clients
      PROVE  /\ DOMAIN state.session[c].sent = 1 .. Len(state.session[c].sent)
             /\ SentOlder(c, state.session[c], state.order)
  <2> DEFINE s == state.session[c].sent
  <2>1. s \in Seq(Threads!Cell) /\ SentOlder(c, state.session[c], state.order)
    BY DEF ThreadsSound, Threads!Type, Threads!ThreadType, SessionSound
  <2> HIDE DEF s
  <2>2. DOMAIN s = 1 .. Len(s)
    BY <2>1
  <2>3. QED
    BY <2>1, <2>2 DEF s
<1>3. DOMAIN state.order = 1 .. Len(state.order)
  <2> DEFINE s == state.order
  <2>1. s \in Seq(Clients)
    BY DEF ThreadsSound, Threads!Type
  <2> HIDE DEF s
  <2>2. QED
    BY <2>1 DEF s
<1>4. Threads!AnswersIntact
  BY <1>1 DEF Threads!AnswersIntact
<1>5. Threads!OnlyOlderData
  <2>1. ASSUME NEW c \in Clients, NEW i \in DOMAIN state.order, state.order[i] = c,
               NEW j \in DOMAIN state.session[c].sent
        PROVE  LET cell == state.session[c].sent[j]
               IN  cell = Blank \/ \E k \in 1 .. i : state.order[k] = cell[1]
    <3> DEFINE cell == state.session[c].sent[j]
               order == state.order
    <3>1. FromFirst(cell, order, i)
      BY <1>2, <1>3, <2>1 DEF SentOlder
    <3> HIDE DEF cell, order
    <3>2. cell = Blank \/ \E k \in 1 .. i : order[k] = cell[1]
      BY <3>1 DEF FromFirst
    <3>3. QED
      BY <3>2 DEF cell, order
  <2>2. QED
    BY <2>1, Zenon DEF Threads!OnlyOlderData
<1>6. QED
  BY <1>4, <1>5 DEF Threads!AnswersExplained

SharedInv == IfOf("threads", ThreadsSound) /\ IfOf("pong", PongSound)

(* Writes that are pending from the buffer all clients are read into       *)
(* (multi_thread_server.cpp:59, pingpong/server.cc:24): the join keeps     *)
(* every answer its client's own or older data, and a pong is whole unless *)
(* somebody was read meanwhile, for any number of clients and any buffer.  *)
THEOREM SharedBufferSafe == FairSpec => []SharedBufferIntact
<1>1. Init => SharedInv
  BY ThreadsInit, PongInit DEF Init, SharedInv, IfOf
<1>2. SharedInv /\ [Next]_vars => SharedInv'
  <2> SUFFICES ASSUME SharedInv, [Next]_vars PROVE SharedInv'
    OBVIOUS
  <2>1. CASE UNCHANGED vars
    BY <2>1 DEF vars, SharedInv, IfOf, ThreadsSound, PongSound
  <2>2. CASE Next
    <3>1. ASSUME program' = "threads" PROVE ThreadsSound'
      BY <2>2, <3>1, ThreadsStep DEF Next, SharedInv, IfOf
    <3>2. ASSUME program' = "pong" PROVE PongSound'
      BY <2>2, <3>2, PongStep DEF Next, SharedInv, IfOf
    <3>3. QED
      BY <3>1, <3>2 DEF SharedInv, IfOf
  <2>3. QED
    BY <2>1, <2>2
<1>3. SharedInv => SharedBufferIntact
  BY ThreadsSoundExplained, PongSoundIntact DEF SharedInv, SharedBufferIntact, IfOf
<1>4. QED
  BY <1>1, <1>2, <1>3, PTL DEF FairSpec

-----------------------------------------------------------------------------
(* Sums over a finite set, as MapThenSumSet computes them.                 *)

LEMMA SetInduction ==
  ASSUME NEW T, 0 \in T, \A n \in Nat : n \in T => n + 1 \in T
  PROVE  \A n \in Nat : n \in T
<1> DEFINE Bad == Nat \ T
<1>1. SUFFICES ASSUME Bad # {} PROVE FALSE
  OBVIOUS
<1>2. PICK m \in Bad : \A k \in Bad : <<k, m>> \notin OpToRel(<, Nat)
  BY <1>1, WFMin, NatLessThanWellFounded, Zenon
<1>3. m \in Nat /\ m # 0 /\ m \notin T
  OBVIOUS
<1>4. m - 1 \in Nat /\ m - 1 < m /\ (m - 1) + 1 = m
  BY <1>3
<1>5. m - 1 \notin T
  BY <1>3, <1>4
<1>6. <<m - 1, m>> \in OpToRel(<, Nat)
  BY <1>3, <1>4 DEF OpToRel
<1>7. QED
  BY <1>2, <1>4, <1>5, <1>6

-----------------------------------------------------------------------------
(* Sums over a finite set.                                                 *)

Picked(T) == CHOOSE x \in T : TRUE

AddThen(g, f, T) == IF T = {} THEN 0 ELSE g[Picked(T)] + f[T \ {Picked(T)}]

SumsOf(g, S) == CHOOSE f : f = [T \in SUBSET S |-> AddThen(g, f, T)]

Total(g, S) == SumsOf(g, S)[S]

LEMMA PickedSmaller ==
  ASSUME NEW S, IsFiniteSet(S), NEW T \in SUBSET S, T # {}
  PROVE  LET rest == T \ {Picked(T)}
         IN  /\ Picked(T) \in T /\ rest \in SUBSET S
             /\ Cardinality(T) \in Nat /\ Cardinality(rest) \in Nat
             /\ Cardinality(rest) + 1 = Cardinality(T)
<1>1. Picked(T) \in T
  BY DEF Picked
<1>2. IsFiniteSet(T)
  BY FS_Subset
<1>3. /\ IsFiniteSet(T \ {Picked(T)})
      /\ Cardinality(T \ {Picked(T)}) = Cardinality(T) - 1
  BY <1>1, <1>2, FS_RemoveElement
<1>4. Cardinality(T) \in Nat /\ Cardinality(T \ {Picked(T)}) \in Nat
  BY <1>2, <1>3, FS_CardinalityType
<1>5. QED
  BY <1>1, <1>3, <1>4

(* Induction over the subsets of S by their number of elements. *)
LEMMA SubsetInduction ==
  ASSUME NEW S, IsFiniteSet(S), NEW Good \in SUBSET SUBSET S, {} \in Good,
         \A T \in SUBSET S : T # {} /\ T \ {Picked(T)} \in Good => T \in Good
  PROVE  S \in Good
<1> DEFINE Upto == {k \in Nat : \A T \in SUBSET S : Cardinality(T) <= k => T \in Good}
<1>1. 0 \in Upto
  <2>1. ASSUME NEW T \in SUBSET S, Cardinality(T) <= 0 PROVE T = {}
    <3>1. IsFiniteSet(T)
      BY FS_Subset
    <3>2. Cardinality(T) = 0
      BY <2>1, <3>1, FS_CardinalityType
    <3>3. QED
      BY <3>1, <3>2, FS_EmptySet
  <2>2. QED
    BY <2>1
<1>2. ASSUME NEW k \in Nat, k \in Upto PROVE k + 1 \in Upto
  <2>1. ASSUME NEW T \in SUBSET S, Cardinality(T) <= k + 1 PROVE T \in Good
    <3>1. CASE T = {}
      BY <3>1
    <3>2. CASE T # {}
      <4>1. /\ T \ {Picked(T)} \in SUBSET S
            /\ Cardinality(T \ {Picked(T)}) <= k
        BY <2>1, <3>2, PickedSmaller
      <4>2. T \ {Picked(T)} \in Good
        BY <1>2, <4>1
      <4>3. QED
        BY <3>2, <4>2
    <3>3. QED
      BY <3>1, <3>2
  <2>2. QED
    BY <2>1
<1>3. \A k \in Nat : k \in Upto
  <2> HIDE DEF Upto
  <2> QED BY <1>1, <1>2, SetInduction
<1>4. Cardinality(S) \in Nat
  BY FS_CardinalityType
<1>5. Cardinality(S) \in Upto
  BY <1>3, <1>4
<1>6. QED
  BY <1>4, <1>5

(* The recursion of MapThenSumSet has the value it says. *)
LEMMA SumsExist ==
  ASSUME NEW S, IsFiniteSet(S), NEW g \in [S -> Int]
  PROVE  /\ SumsOf(g, S) \in [SUBSET S -> Int]
         /\ \A T \in SUBSET S : SumsOf(g, S)[T] = AddThen(g, SumsOf(g, S), T)
<1> DEFINE Small(k) == {T \in SUBSET S : Cardinality(T) <= k}
           Solves(f, k) == /\ f \in [Small(k) -> Int]
                           /\ \A T \in Small(k) : f[T] = AddThen(g, f, T)
           Solved == {k \in Nat : \E f : Solves(f, k)}
<1>1. 0 \in Solved
  <2>1. ASSUME NEW T \in Small(0) PROVE T = {}
    <3>1. IsFiniteSet(T)
      BY FS_Subset
    <3>2. Cardinality(T) = 0
      BY <2>1, <3>1, FS_CardinalityType
    <3>3. QED
      BY <3>1, <3>2, FS_EmptySet
  <2> DEFINE f == [T \in Small(0) |-> 0]
  <2> HIDE DEF Small
  <2>2. Solves(f, 0)
    BY <2>1 DEF AddThen
  <2>3. QED
    BY <2>2
<1>2. ASSUME NEW k \in Nat, k \in Solved PROVE k + 1 \in Solved
  <2>1. PICK f : Solves(f, k)
    BY <1>2
  <2> DEFINE h == [T \in Small(k + 1) |-> AddThen(g, f, T)]
  <2>2. ASSUME NEW T \in Small(k + 1), T # {}
        PROVE  /\ Picked(T) \in S /\ T \ {Picked(T)} \in Small(k)
               /\ T \ {Picked(T)} \in Small(k + 1)
    <3>1. /\ Picked(T) \in T /\ T \ {Picked(T)} \in SUBSET S
          /\ Cardinality(T) \in Nat /\ Cardinality(T \ {Picked(T)}) \in Nat
          /\ Cardinality(T \ {Picked(T)}) + 1 = Cardinality(T)
      BY <2>2, PickedSmaller
    <3>2. QED
      BY <3>1
  <2> HIDE DEF Small
  <2>3. \A T \in Small(k + 1) : AddThen(g, f, T) \in Int
    <3>1. ASSUME NEW T \in Small(k + 1), T # {}
          PROVE  g[Picked(T)] + f[T \ {Picked(T)}] \in Int
      BY <2>1, <2>2, <3>1
    <3>2. QED
      BY <3>1 DEF AddThen
  <2>4. \A T \in Small(k + 1) : h[T] = AddThen(g, h, T)
    <3>1. ASSUME NEW T \in Small(k + 1), T # {}
          PROVE  h[T] = AddThen(g, h, T)
      <4> DEFINE rest == T \ {Picked(T)}
      <4>1. rest \in Small(k) /\ rest \in Small(k + 1)
        BY <2>2, <3>1
      <4>2. f[rest] = AddThen(g, f, rest)
        BY <2>1, <4>1
      <4>3. h[rest] = AddThen(g, f, rest)
        BY <4>1
      <4>4. h[T] = AddThen(g, f, T)
        OBVIOUS
      <4> HIDE DEF h
      <4>5. QED
        BY <3>1, <4>2, <4>3, <4>4 DEF AddThen
    <3>2. ASSUME NEW T \in Small(k + 1), T = {}
          PROVE  h[T] = AddThen(g, h, T)
      BY <3>2 DEF AddThen
    <3>3. QED
      BY <3>1, <3>2
  <2>5. h \in [Small(k + 1) -> Int]
    BY <2>3
  <2> HIDE DEF h
  <2>6. Solves(h, k + 1)
    BY <2>4, <2>5
  <2> HIDE DEF Solves
  <2>7. QED
    BY <2>6
<1>3. \A k \in Nat : k \in Solved
  <2> HIDE DEF Solved
  <2> QED BY <1>1, <1>2, SetInduction
<1> DEFINE N == Cardinality(S)
<1>4. N \in Nat /\ Small(N) = SUBSET S
  BY FS_CardinalityType, FS_Subset
<1> HIDE DEF N, Small
<1>5. PICK f : Solves(f, N)
  BY <1>3, <1>4
<1>6. f = [T \in SUBSET S |-> AddThen(g, f, T)]
  BY <1>4, <1>5
<1>7. SumsOf(g, S) = [T \in SUBSET S |-> AddThen(g, SumsOf(g, S), T)]
  BY <1>6 DEF SumsOf
<1> DEFINE F == SumsOf(g, S)
           Good == {T \in SUBSET S : F[T] \in Int}
<1>8. \A T \in SUBSET S : F[T] = AddThen(g, F, T)
  BY <1>7
<1> HIDE DEF F
<1>9. ASSUME NEW R \in SUBSET S PROVE F[R] \in Int
  <2> DEFINE Fine == {T \in SUBSET R : F[T] \in Int}
  <2>1. {} \in Fine
    <3>1. F[{}] = 0
      BY <1>8 DEF AddThen
    <3>2. QED
      BY <3>1
  <2>2. ASSUME NEW T \in SUBSET R, T # {}, T \ {Picked(T)} \in Fine
        PROVE  T \in Fine
    <3>1. F[T] = g[Picked(T)] + F[T \ {Picked(T)}]
      BY <1>8, <2>2 DEF AddThen
    <3>2. Picked(T) \in S
      BY <2>2 DEF Picked
    <3>3. QED
      BY <2>2, <3>1, <3>2
  <2>3. IsFiniteSet(R)
    BY FS_Subset
  <2>4. R \in Fine
    <3> HIDE DEF Fine
    <3>1. Fine \in SUBSET SUBSET R
      BY DEF Fine
    <3>2. QED
      BY <2>1, <2>2, <2>3, <3>1, SubsetInduction
  <2>5. QED
    BY <2>4
<1>10. F = [T \in SUBSET S |-> AddThen(g, F, T)]
  BY <1>7 DEF F
<1>11. \A T \in SUBSET S : AddThen(g, F, T) \in Int
  BY <1>8, <1>9
<1>12. F \in [SUBSET S -> Int]
  BY <1>10, <1>11
<1>13. QED
  BY <1>8, <1>12 DEF F

LEMMA SumMoves ==
  ASSUME NEW S, IsFiniteSet(S), NEW g \in [S -> Int], NEW h \in [S -> Int], NEW c \in S,
         \A x \in S : x # c => h[x] = g[x]
  PROVE  /\ Total(g, S) \in Int /\ Total(h, S) \in Int
         /\ Total(h, S) = Total(g, S) + (h[c] - g[c])
<1> DEFINE G == SumsOf(g, S)
           H == SumsOf(h, S)
           Good == {T \in SUBSET S : H[T] = G[T] + (IF c \in T THEN h[c] - g[c] ELSE 0)}
<1>1. /\ G \in [SUBSET S -> Int] /\ H \in [SUBSET S -> Int]
      /\ \A T \in SUBSET S : G[T] = AddThen(g, G, T)
      /\ \A T \in SUBSET S : H[T] = AddThen(h, H, T)
  BY SumsExist
<1>2. Total(g, S) = G[S] /\ Total(h, S) = H[S]
  BY DEF Total
<1> HIDE DEF G, H
<1>3. {} \in Good
  <2>1. G[{}] = 0 /\ H[{}] = 0
    BY <1>1 DEF AddThen
  <2>2. QED
    BY <2>1
<1>4. ASSUME NEW T \in SUBSET S, T # {}, T \ {Picked(T)} \in Good
      PROVE  T \in Good
  <2> DEFINE x    == Picked(T)
             rest == T \ {x}
  <2>1. x \in T
    BY <1>4 DEF Picked
  <2>2. G[T] = g[x] + G[rest] /\ H[T] = h[x] + H[rest]
    BY <1>1, <1>4 DEF AddThen
  <2>3. H[rest] = G[rest] + (IF c \in rest THEN h[c] - g[c] ELSE 0)
    BY <1>4
  <2>4. G[rest] \in Int /\ H[rest] \in Int /\ g[x] \in Int /\ h[x] \in Int /\ g[c] \in Int /\ h[c] \in Int
    BY <1>1, <2>1
  <2>5. CASE x = c
    <3>1. c \notin rest /\ c \in T
      BY <2>1, <2>5
    <3> HIDE DEF x, rest
    <3>2. QED
      BY <2>2, <2>3, <2>4, <2>5, <3>1
  <2>6. CASE x # c
    <3>1. c \in rest <=> c \in T
      BY <2>6
    <3>2. h[x] = g[x]
      BY <2>1, <2>6
    <3> HIDE DEF x, rest
    <3>3. QED
      BY <2>2, <2>3, <2>4, <3>1, <3>2
  <2>7. QED
    BY <2>5, <2>6
<1>5. S \in Good
  <2> HIDE DEF Good
  <2>1. Good \in SUBSET SUBSET S
    BY DEF Good
  <2>2. QED
    BY <1>3, <1>4, <2>1, SubsetInduction
<1>6. G[S] \in Int /\ H[S] \in Int
  BY <1>1
<1>7. QED
  BY <1>2, <1>5, <1>6

LEMMA SumOfNats ==
  ASSUME NEW S, IsFiniteSet(S), NEW g \in [S -> Nat]
  PROVE  Total(g, S) \in Nat /\ ((\A x \in S : g[x] = 0) => Total(g, S) = 0)
<1> DEFINE G == SumsOf(g, S)
           Good == {T \in SUBSET S : G[T] \in Nat /\ ((\A x \in S : g[x] = 0) => G[T] = 0)}
<1>1. g \in [S -> Int]
  OBVIOUS
<1>2. \A T \in SUBSET S : G[T] = AddThen(g, G, T)
  BY <1>1, SumsExist
<1>3. Total(g, S) = G[S]
  BY DEF Total
<1> HIDE DEF G
<1>4. {} \in Good
  <2>1. G[{}] = 0
    BY <1>2 DEF AddThen
  <2>2. QED
    BY <2>1
<1>5. ASSUME NEW T \in SUBSET S, T # {}, T \ {Picked(T)} \in Good
      PROVE  T \in Good
  <2>1. Picked(T) \in S
    BY <1>5 DEF Picked
  <2>2. G[T] = g[Picked(T)] + G[T \ {Picked(T)}]
    BY <1>2, <1>5 DEF AddThen
  <2>3. QED
    BY <1>5, <2>1, <2>2
<1>6. S \in Good
  <2> HIDE DEF Good
  <2>1. Good \in SUBSET SUBSET S
    BY DEF Good
  <2>2. QED
    BY <1>4, <1>5, <2>1, SubsetInduction
<1>7. QED
  BY <1>3, <1>6

LEMMA SumDifference ==
  ASSUME NEW S, IsFiniteSet(S), NEW g \in [S -> Int], NEW h \in [S -> Int], NEW d \in [S -> Int],
         \A x \in S : d[x] = g[x] - h[x]
  PROVE  /\ Total(g, S) \in Int /\ Total(h, S) \in Int
         /\ Total(d, S) = Total(g, S) - Total(h, S)
<1> DEFINE G == SumsOf(g, S)
           H == SumsOf(h, S)
           D == SumsOf(d, S)
           Good == {T \in SUBSET S : D[T] = G[T] - H[T]}
<1>1. /\ G \in [SUBSET S -> Int] /\ H \in [SUBSET S -> Int] /\ D \in [SUBSET S -> Int]
      /\ \A T \in SUBSET S : G[T] = AddThen(g, G, T)
      /\ \A T \in SUBSET S : H[T] = AddThen(h, H, T)
      /\ \A T \in SUBSET S : D[T] = AddThen(d, D, T)
  BY SumsExist
<1>2. Total(g, S) = G[S] /\ Total(h, S) = H[S] /\ Total(d, S) = D[S]
  BY DEF Total
<1> HIDE DEF G, H, D
<1>3. {} \in Good
  <2>1. G[{}] = 0 /\ H[{}] = 0 /\ D[{}] = 0
    BY <1>1 DEF AddThen
  <2>2. QED
    BY <2>1
<1>4. ASSUME NEW T \in SUBSET S, T # {}, T \ {Picked(T)} \in Good
      PROVE  T \in Good
  <2> DEFINE x    == Picked(T)
             rest == T \ {x}
  <2>1. x \in S
    BY <1>4 DEF Picked
  <2>2. G[T] = g[x] + G[rest] /\ H[T] = h[x] + H[rest] /\ D[T] = d[x] + D[rest]
    BY <1>1, <1>4 DEF AddThen
  <2>3. D[rest] = G[rest] - H[rest] /\ d[x] = g[x] - h[x]
    BY <1>4, <2>1
  <2>4. G[rest] \in Int /\ H[rest] \in Int /\ g[x] \in Int /\ h[x] \in Int
    BY <1>1, <2>1
  <2> HIDE DEF x, rest
  <2>5. QED
    BY <2>2, <2>3, <2>4
<1>5. S \in Good
  <2> HIDE DEF Good
  <2>1. Good \in SUBSET SUBSET S
    BY DEF Good
  <2>2. QED
    BY <1>3, <1>4, <2>1, SubsetInduction
<1>6. G[S] \in Int /\ H[S] \in Int
  BY <1>1
<1>7. QED
  BY <1>2, <1>5, <1>6


-----------------------------------------------------------------------------
(* Chargen: the totals count what was taken, and each loss once too often. *)

(* What a client has added to the totals.                                  *)
Due(r) == r.taken - (IF r.write = "done" THEN 1 ELSE 0)
                  + (IF r.handle = "closed" THEN 1 ELSE 0)

Dues(client) == [c \in Clients |-> Due(client[c])]

(* The blocks that are counted are those whose callbacks have run.         *)
SocketSound(r) ==
  /\ r.taken = r.stat + (IF r.write = "done" THEN 1 ELSE 0)
  /\ r.write # "none" => r.handle = "open"
  /\ r.handle # "closed" => r.stale = 0
  /\ r.handle = "closed" => r.single = r.taken /\ r.stale = 1
  /\ r.got <= r.taken

GenSound ==
  /\ state \in Gen!Type
  /\ \A c \in Clients : SocketSound(state.client[c])
  /\ Gen!Running => state.reported + state.transfered = Total(Dues(state.client), Clients)

LEMMA DuesInt ==
  ASSUME NEW client \in [Clients -> Gen!ClientType]
  PROVE  Dues(client) \in [Clients -> Int]
<1>1. ASSUME NEW r \in Gen!ClientType PROVE Due(r) \in Int
  BY DEF Due, Gen!ClientType
<1>2. QED
  BY <1>1 DEF Dues

LEMMA GenInit ==
  ASSUME Gen!Init
  PROVE  GenSound
<1>1. state \in Gen!Type /\ state.reported + state.transfered = 0
  BY DEF Gen!Init, Gen!Type, Gen!ClientType
<1>2. ASSUME NEW c \in Clients
      PROVE  Due(state.client[c]) = 0 /\ SocketSound(state.client[c])
  BY DEF Gen!Init, Due, SocketSound
<1>3. Dues(state.client) \in [Clients -> Nat] /\ \A c \in Clients : Dues(state.client)[c] = 0
  BY <1>2 DEF Dues
<1>4. Total(Dues(state.client), Clients) = 0
  BY <1>3, SumOfNats, ServerAssumption
<1>5. QED
  BY <1>1, <1>2, <1>4 DEF GenSound

(* A step of one client that adds to the total what the client's part of   *)
(* it grows by.                                                            *)
LEMMA GenMove ==
  ASSUME GenSound, Gen!Running, NEW c \in Clients, NEW r \in Gen!ClientType, SocketSound(r),
         NEW t \in Nat, t - state.transfered = Due(r) - Due(state.client[c]),
         state' = [state EXCEPT !.client[c] = r, !.transfered = t]
  PROVE  GenSound'
<1> DEFINE old  == state.client
           next == [old EXCEPT ![c] = r]
<1>1. state \in Gen!Type /\ old \in [Clients -> Gen!ClientType]
  BY DEF GenSound, Gen!Type
<1>2. state' = [state EXCEPT !.client = next, !.transfered = t]
  BY <1>1 DEF Gen!Type
<1>3. next \in [Clients -> Gen!ClientType] /\ next[c] = r /\ \A x \in Clients : x # c => next[x] = old[x]
  BY <1>1
<1>4. /\ state.reported + state.transfered = Total(Dues(old), Clients)
      /\ \A x \in Clients : SocketSound(old[x])
  BY DEF GenSound
<1> HIDE DEF old, next
<1>5. /\ state' \in Gen!Type /\ state'.client = next /\ state'.transfered = t
      /\ state'.reported = state.reported /\ state.reported \in Nat /\ state.transfered \in Nat
  BY <1>1, <1>2, <1>3 DEF Gen!Type
<1>6. /\ Dues(old) \in [Clients -> Int] /\ Dues(next) \in [Clients -> Int]
      /\ \A x \in Clients : x # c => Dues(next)[x] = Dues(old)[x]
      /\ Dues(next)[c] = Due(r) /\ Dues(old)[c] = Due(state.client[c])
  BY <1>1, <1>3, DuesInt DEF Dues, old
<1>7. Total(Dues(next), Clients) = Total(Dues(old), Clients) + (Due(r) - Due(state.client[c]))
  BY <1>6, SumMoves, ServerAssumption
<1>8. Total(Dues(old), Clients) \in Int
  BY <1>6, SumMoves, ServerAssumption
<1>9. Due(r) - Due(state.client[c]) \in Int
  BY <1>6
<1>10. state'.reported + state'.transfered = Total(Dues(next), Clients)
  BY <1>4, <1>5, <1>7, <1>8, <1>9
<1>11. \A x \in Clients : SocketSound(next[x])
  BY <1>3, <1>4
<1>12. QED
  BY <1>5, <1>10, <1>11 DEF GenSound

(* The server stops: its totals do not matter any more. *)
LEMMA GenStops ==
  ASSUME GenSound, NEW status \in {"exited", "crashed"}, state' = [state EXCEPT !.status = status]
  PROVE  GenSound'
BY DEF GenSound, Gen!Type, Gen!Running

(* The states of a client's write, one after the other.                    *)
LEMMA SocketSteps ==
  ASSUME NEW r \in Gen!ClientType, SocketSound(r), NEW taken, taken = r.taken + 1,
         NEW stat, stat = r.stat + 1, NEW stale, stale = r.stale + 1,
         NEW got, got = r.got + 1
  PROVE  /\ r.handle = "none" =>
              LET q == [r EXCEPT !.handle = "open", !.write = "queued"]
              IN  q \in Gen!ClientType /\ SocketSound(q) /\ Due(q) = Due(r)
         /\ r.write = "queued" =>
              LET q == [r EXCEPT !.write = "done", !.taken = taken]
              IN  q \in Gen!ClientType /\ SocketSound(q) /\ Due(q) = Due(r)
         /\ r.write = "queued" =>
              LET q == [r EXCEPT !.write = "failed"]
              IN  q \in Gen!ClientType /\ SocketSound(q) /\ Due(q) = Due(r)
         /\ r.got < r.taken =>
              LET q == [r EXCEPT !.got = got]
              IN  q \in Gen!ClientType /\ SocketSound(q) /\ Due(q) = Due(r)
         /\ r.write = "done" =>
              LET q == [r EXCEPT !.stat = stat, !.write = "queued"]
              IN  q \in Gen!ClientType /\ SocketSound(q) /\ Due(q) = Due(r) + 1
         /\ r.write = "failed" =>
              LET q == [r EXCEPT !.single = r.stat, !.stale = stale, !.handle = "closed",
                                 !.write = "none"]
              IN  q \in Gen!ClientType /\ SocketSound(q) /\ Due(q) = Due(r) + 1
<1>1. /\ r.taken \in Nat /\ r.stat \in Nat /\ r.stale \in Nat /\ r.single \in Nat
      /\ taken \in Nat /\ stat \in Nat /\ stale \in Nat /\ r.got \in Nat /\ got \in Nat
      /\ r.got <= r.taken
  BY DEF Gen!ClientType, SocketSound
<1>2. ASSUME r.handle = "none"
      PROVE  LET q == [r EXCEPT !.handle = "open", !.write = "queued"]
             IN  q \in Gen!ClientType /\ SocketSound(q) /\ Due(q) = Due(r)
  BY <1>1, <1>2 DEF Gen!ClientType, SocketSound, Due
<1>3. ASSUME r.write = "queued"
      PROVE  LET q == [r EXCEPT !.write = "done", !.taken = taken]
             IN  q \in Gen!ClientType /\ SocketSound(q) /\ Due(q) = Due(r)
  <2> DEFINE q == [r EXCEPT !.write = "done", !.taken = taken]
  <2>1. q \in Gen!ClientType
    BY <1>1 DEF Gen!ClientType
  <2>2. /\ q.handle = r.handle /\ q.write = "done" /\ q.stat = r.stat /\ q.taken = taken
       /\ q.got = r.got
       /\ q.single = r.single /\ q.stale = r.stale
    BY <1>1 DEF Gen!ClientType
  <2> HIDE DEF q
  <2>3. SocketSound(q) /\ Due(q) = Due(r)
    BY <1>1, <1>3, <2>2 DEF SocketSound, Due
  <2>4. QED
    BY <2>1, <2>3 DEF q
<1>4. ASSUME r.write = "queued"
      PROVE  LET q == [r EXCEPT !.write = "failed"]
             IN  q \in Gen!ClientType /\ SocketSound(q) /\ Due(q) = Due(r)
  BY <1>1, <1>4 DEF Gen!ClientType, SocketSound, Due
<1>5. ASSUME r.write = "done"
      PROVE  LET q == [r EXCEPT !.stat = stat, !.write = "queued"]
             IN  q \in Gen!ClientType /\ SocketSound(q) /\ Due(q) = Due(r) + 1
  <2> DEFINE q == [r EXCEPT !.stat = stat, !.write = "queued"]
  <2>1. q \in Gen!ClientType
    BY <1>1 DEF Gen!ClientType
  <2>2. /\ q.handle = r.handle /\ q.write = "queued" /\ q.stat = stat /\ q.taken = r.taken
       /\ q.got = r.got /\ q.single = r.single /\ q.stale = r.stale
    BY <1>1 DEF Gen!ClientType
  <2> HIDE DEF q
  <2>3. SocketSound(q) /\ Due(q) = Due(r) + 1
    BY <1>1, <1>5, <2>2 DEF SocketSound, Due
  <2>4. QED
    BY <2>1, <2>3 DEF q
<1>6. ASSUME r.write = "failed"
      PROVE  LET q == [r EXCEPT !.single = r.stat, !.stale = stale, !.handle = "closed",
                                !.write = "none"]
             IN  q \in Gen!ClientType /\ SocketSound(q) /\ Due(q) = Due(r) + 1
  <2> DEFINE q == [r EXCEPT !.single = r.stat, !.stale = stale, !.handle = "closed",
                    !.write = "none"]
  <2>1. q \in Gen!ClientType
    BY <1>1 DEF Gen!ClientType
  <2>2. /\ q.handle = "closed" /\ q.write = "none" /\ q.stat = r.stat /\ q.taken = r.taken
       /\ q.got = r.got /\ q.single = r.stat /\ q.stale = stale
    BY <1>1 DEF Gen!ClientType
  <2> HIDE DEF q
  <2>3. SocketSound(q) /\ Due(q) = Due(r) + 1
    BY <1>1, <1>6, <2>2 DEF SocketSound, Due
  <2>4. QED
    BY <2>1, <2>3 DEF q
<1>7. ASSUME r.got < r.taken
      PROVE  LET q == [r EXCEPT !.got = got]
             IN  q \in Gen!ClientType /\ SocketSound(q) /\ Due(q) = Due(r)
  <2> DEFINE q == [r EXCEPT !.got = got]
  <2>1. q \in Gen!ClientType
    BY <1>1 DEF Gen!ClientType
  <2>2. /\ q.handle = r.handle /\ q.write = r.write /\ q.stat = r.stat /\ q.taken = r.taken
       /\ q.got = got /\ q.single = r.single /\ q.stale = r.stale
    BY <1>1 DEF Gen!ClientType
  <2> HIDE DEF q
  <2>3. SocketSound(q) /\ Due(q) = Due(r)
    BY <1>1, <1>7, <2>2 DEF SocketSound, Due
  <2>4. QED
    BY <2>1, <2>3 DEF q
<1>8. QED
  BY <1>2, <1>3, <1>4, <1>5, <1>6, <1>7

LEMMA GenStep ==
  ASSUME GenSound, Gen!Next
  PROVE  GenSound'
<1>1. state \in Gen!Type
  BY DEF GenSound
<1>2. CASE Gen!OnTimeout
  <2> DEFINE all == state.reported + state.transfered
  <2>1. state' = [state EXCEPT !.reported = all, !.transfered = 0] /\ Gen!Running
    BY <1>2 DEF Gen!OnTimeout
  <2>2. all \in Nat
    BY <1>1 DEF Gen!Type
  <2>3. Gen!Running => all = Total(Dues(state.client), Clients)
    BY DEF GenSound
  <2> HIDE DEF all
  <2>4. /\ state' \in Gen!Type /\ state'.client = state.client
        /\ state'.reported = all /\ state'.transfered = 0
    BY <1>1, <2>1, <2>2 DEF Gen!Type
  <2>5. all + 0 = all
    BY <2>2
  <2>6. QED
    BY <2>1, <2>3, <2>4, <2>5 DEF GenSound
<1>3. ASSUME NEW c \in Clients,
             \/ Gen!OnNewConnection(c) \/ Gen!SocketTakes(c) \/ Gen!SocketFails(c)
             \/ Gen!OnWriteEnd(c) \/ Gen!OnWriteError(c) \/ Gen!PeerGets(c)
      PROVE  GenSound'
  <2> DEFINE r     == state.client[c]
             t     == state.transfered
             taken == r.taken + 1
             stat  == r.stat + 1
             stale == r.stale + 1
             got   == r.got + 1
             more  == t + 1
  <2>1. Gen!Running /\ r \in Gen!ClientType /\ SocketSound(r) /\ t \in Nat
    BY <1>1, <1>3 DEF GenSound, Gen!Type, Gen!OnNewConnection, Gen!SocketTakes,
       Gen!SocketFails, Gen!OnWriteEnd, Gen!OnWriteError, Gen!PeerGets
  <2>2. /\ Due(r) \in Int /\ more \in Nat /\ more - t = 1 /\ t - t = 0
        /\ \A q : /\ Due(q) = Due(r) => Due(q) - Due(r) = 0
                  /\ Due(q) = Due(r) + 1 => Due(q) - Due(r) = 1
    BY <2>1 DEF Due, Gen!ClientType
  <2>3. CASE Gen!OnNewConnection(c)
    <3> DEFINE q == [r EXCEPT !.handle = "open", !.write = "queued"]
    <3>1. CASE state' = [state EXCEPT !.client[c].handle = "open", !.client[c].write = "queued"]
      <4>1. state' = [state EXCEPT !.client[c] = q, !.transfered = t]
        BY <1>1, <3>1 DEF Gen!Type, Gen!ClientType
      <4>2. r.handle = "none"
        BY <2>3 DEF Gen!OnNewConnection
      <4>3. q \in Gen!ClientType /\ SocketSound(q) /\ Due(q) = Due(r)
        BY <2>1, <4>2, SocketSteps
      <4>4. QED
        BY <2>1, <2>2, <4>1, <4>3, GenMove
    <3>2. CASE state' = [state EXCEPT !.status = "exited"]
      BY <3>2, GenStops
    <3>3. QED
      BY <2>3, <3>1, <3>2 DEF Gen!OnNewConnection
  <2>4. CASE Gen!SocketTakes(c)
    <3> DEFINE q == [r EXCEPT !.write = "done", !.taken = taken]
    <3>1. r.write = "queued" /\ state' = [state EXCEPT !.client[c].write = "done", !.client[c].taken = taken]
      BY <2>4 DEF Gen!SocketTakes
    <3>2. q \in Gen!ClientType /\ SocketSound(q) /\ Due(q) = Due(r)
      BY <2>1, <3>1, SocketSteps
    <3> HIDE DEF taken
    <3>3. state' = [state EXCEPT !.client[c] = q, !.transfered = t]
      BY <1>1, <3>1 DEF Gen!Type, Gen!ClientType
    <3>4. QED
      BY <2>1, <2>2, <3>2, <3>3, GenMove
  <2>5. CASE Gen!SocketFails(c)
    <3> DEFINE q == [r EXCEPT !.write = "failed"]
    <3>1. r.write = "queued" /\ state' = [state EXCEPT !.client[c].write = "failed"]
      BY <2>5 DEF Gen!SocketFails
    <3>2. q \in Gen!ClientType /\ SocketSound(q) /\ Due(q) = Due(r)
      BY <2>1, <3>1, SocketSteps
    <3>3. state' = [state EXCEPT !.client[c] = q, !.transfered = t]
      BY <1>1, <3>1 DEF Gen!Type, Gen!ClientType
    <3>4. QED
      BY <2>1, <2>2, <3>2, <3>3, GenMove
  <2>6. CASE Gen!OnWriteEnd(c)
    <3> DEFINE q == [r EXCEPT !.stat = stat, !.write = "queued"]
    <3>1. /\ r.write = "done"
          /\ state' = [state EXCEPT !.client[c].stat = stat, !.transfered = more,
                                    !.client[c].write = "queued"]
      BY <2>6 DEF Gen!OnWriteEnd
    <3>2. q \in Gen!ClientType /\ SocketSound(q) /\ Due(q) = Due(r) + 1
      BY <2>1, <3>1, SocketSteps
    <3> HIDE DEF stat, more
    <3>3. state' = [state EXCEPT !.client[c] = q, !.transfered = more]
      BY <1>1, <3>1 DEF Gen!Type, Gen!ClientType
    <3>4. QED
      BY <2>1, <2>2, <3>2, <3>3, GenMove
  <2>7. CASE Gen!OnWriteError(c)
    <3> DEFINE q == [r EXCEPT !.single = r.stat, !.stale = stale, !.handle = "closed",
                              !.write = "none"]
    <3>1. CASE state' = [state EXCEPT !.client[c].single = state.client[c].stat,
                       !.client[c].stale = @ + 1, !.client[c].handle = "closed",
                       !.transfered = @ + 1, !.client[c].write = "none"]
      <4>1. /\ r.write = "failed"
            /\ state' = [state EXCEPT !.client[c].single = r.stat, !.client[c].stale = stale,
                                      !.client[c].handle = "closed", !.transfered = more,
                                      !.client[c].write = "none"]
        BY <2>7, <3>1 DEF Gen!OnWriteError
      <4>2. q \in Gen!ClientType /\ SocketSound(q) /\ Due(q) = Due(r) + 1
        BY <2>1, <4>1, SocketSteps
      <4> HIDE DEF stale, more
      <4>3. state' = [state EXCEPT !.client[c] = q, !.transfered = more]
        <5> DEFINE u == [state EXCEPT !.client[c].single = r.stat, !.client[c].stale = stale,
                                      !.client[c].handle = "closed"]
                   p == [r EXCEPT !.single = r.stat, !.stale = stale, !.handle = "closed"]
        <5>1. u = [state EXCEPT !.client[c] = p]
          BY <1>1 DEF Gen!Type, Gen!ClientType
        <5>2. state' = [u EXCEPT !.transfered = more, !.client[c].write = "none"]
          BY <4>1
        <5>3. q = [p EXCEPT !.write = "none"]
          OBVIOUS
        <5> HIDE DEF u, p, q
        <5>4. QED
          BY <1>1, <5>1, <5>2, <5>3 DEF Gen!Type, Gen!ClientType
      <4>4. QED
        BY <2>1, <2>2, <4>2, <4>3, GenMove
    <3>2. CASE state' = [state EXCEPT !.status = "crashed"]
      BY <3>2, GenStops
    <3>3. QED
      BY <2>7, <3>1, <3>2 DEF Gen!OnWriteError
  <2>8. CASE Gen!PeerGets(c)
    <3> DEFINE q == [r EXCEPT !.got = got]
    <3>1. r.got < r.taken /\ state' = [state EXCEPT !.client[c].got = got]
      BY <2>8 DEF Gen!PeerGets
    <3>2. q \in Gen!ClientType /\ SocketSound(q) /\ Due(q) = Due(r)
      BY <2>1, <3>1, SocketSteps
    <3> HIDE DEF got
    <3>3. state' = [state EXCEPT !.client[c] = q, !.transfered = t]
      BY <1>1, <3>1 DEF Gen!Type, Gen!ClientType
    <3>4. QED
      BY <2>1, <2>2, <3>2, <3>3, GenMove
  <2>9. QED
    BY <1>3, <2>3, <2>4, <2>5, <2>6, <2>7, <2>8
<1>4. QED
  BY <1>2, <1>3 DEF Gen!Next

LEMMA GenSoundAccounts ==
  ASSUME GenSound
  PROVE  Gen!LossAccounted
<1> DEFINE client == state.client
<1>1. Gen!SingleRateCounts /\ Gen!FreedUsedOnce
  BY DEF GenSound, Gen!Type, SocketSound, Gen!SingleRateCounts, Gen!FreedUsedOnce
<1>2. ASSUME NEW T \in SUBSET Clients, T # {}
      PROVE  Dues(client)[Picked(T)] = Due(client[Picked(T)])
  BY <1>2 DEF Dues, Picked
<1>3. ASSUME NEW f
      PROVE  [T \in SUBSET Clients |->
                IF T = {} THEN 0 ELSE Due(client[Picked(T)]) + f[T \ {Picked(T)}]]
             = [T \in SUBSET Clients |-> AddThen(Dues(client), f, T)]
  BY <1>2 DEF AddThen
<1>4. (CHOOSE f : f = [T \in SUBSET Clients |->
          IF T = {} THEN 0 ELSE Due(client[Picked(T)]) + f[T \ {Picked(T)}]])
      = SumsOf(Dues(client), Clients)
  BY <1>3 DEF SumsOf
<1>5. MapThenSumSet(LAMBDA c : LET r == client[c]
        IN  r.taken - (IF r.write = "done" THEN 1 ELSE 0)
                    + (IF r.handle = "closed" THEN 1 ELSE 0), Clients)
      = Total(Dues(client), Clients)
  BY <1>4 DEF MapThenSumSet, MapThenFoldSet, Total, Due, Picked
<1>6. Gen!OneTooManyPerLoss
  BY <1>5 DEF GenSound, Gen!OneTooManyPerLoss, Gen!MapThenSumSet, Gen!MapThenFoldSet, MapThenSumSet, MapThenFoldSet
<1>7. QED
  BY <1>1, <1>6 DEF Gen!LossAccounted

-----------------------------------------------------------------------------
(* GoPingPong: the race on totalWrites loses additions only.               *)

Adders == {"writer", "reader"}

Owed(a) == IF a.pc \in {"load", "store"} THEN a.amount ELSE 0

Pending(r) == Owed(r.writer) + Owed(r.reader) + r.dropped

Net(r) == r.written - Pending(r)

Nets(session) == [s \in Sessions |-> Net(session[s])]

(* The goroutines between their load and their store.                      *)
Holding(session) == {a \in Sessions \X Adders : session[a[1]][a[2]].pc = "store"}

(* What they loaded was no more than what had been added; if no two of them*)
(* ever were there together, one is, and it loaded the present total.      *)
Racing(session, total, clash) ==
  LET net    == Total(Nets(session), Sessions)
      loaded(a) == session[a[1]][a[2]].loaded
  IN  /\ total <= net
      /\ \A a \in Holding(session) : loaded(a) <= net
      /\ ~clash => /\ total = net
                   /\ \A a, b \in Holding(session) : a = b /\ loaded(a) = total

Flight(r) == r.up + r.echo + r.down + r.held

Steady(r) ==
  /\ Flight(r) <= blocksize
  /\ r.writer.pc = "io" => Flight(r) = 0
  /\ r.conn = "open" /\ r.writer.pc # "io" => Flight(r) = blocksize
  /\ r.conn \in {"dialing", "failed"} => r.writer.pc = "io"
  /\ r.reader.pc # "done" => r.dropped = 0

Unclosed(session) == {s \in Sessions : session[s].conn # "closed"}

Writtens(session) == [s \in Sessions |-> session[s].written]

GoSound ==
  /\ state \in Go!Type
  /\ \A s \in Sessions : Steady(state.session[s])
  /\ state.waiting = Cardinality(Unclosed(state.session))
  /\ Racing(state.session, state.totalWrites, state.clash)
  /\ state.printed # None => /\ state.waiting = 0
                             /\ state.printed <= Total(Writtens(state.session), Sessions)

LEMMA SessionNumbers ==
  ASSUME NEW r \in Go!SessionType
  PROVE  /\ r.written \in Nat /\ Pending(r) \in Nat /\ Net(r) \in Int
         /\ r.up \in Nat /\ r.echo \in Nat /\ r.down \in Nat /\ r.held \in Nat
         /\ r.dropped \in Nat
         /\ r.writer \in Go!Adder /\ r.reader \in Go!Adder
         /\ Owed(r.writer) \in Nat /\ Owed(r.reader) \in Nat
<1>1. r.writer \in Go!Adder /\ r.reader \in Go!Adder /\ r.written \in Nat /\ r.dropped \in Nat
      /\ r.up \in Nat /\ r.echo \in Nat /\ r.down \in Nat /\ r.held \in Nat
  BY DEF Go!SessionType
<1>2. ASSUME NEW a \in Go!Adder PROVE Owed(a) \in Nat
  BY DEF Owed, Go!Adder
<1>3. QED
  BY <1>1, <1>2 DEF Pending, Net

LEMMA SessionNets ==
  ASSUME NEW session \in [Sessions -> Go!SessionType]
  PROVE  Nets(session) \in [Sessions -> Int]
BY SessionNumbers DEF Nets

LEMMA GoInit ==
  ASSUME Go!Init
  PROVE  GoSound
<1> DEFINE session == state.session
           fresh   == [s \in Sessions |->
              [conn |-> "dialing", writer |-> Go!Fresh, reader |-> Go!Fresh, held |-> 0,
               up |-> 0, peer |-> "none", echo |-> 0, down |-> 0, written |-> 0,
               dropped |-> 0]]
           all     == Cardinality(Sessions)
           no      == FALSE
<1>0. state = [session |-> fresh, totalWrites |-> 0, waiting |-> all,
               printed |-> None, panicked |-> no, clash |-> no]
  <2>1. Go!Cardinality(Sessions) = all
    BY DEF Go!Cardinality, Cardinality
  <2>2. QED
    BY <2>1 DEF Go!Init
<1>1. state \in Go!Type
  <2>1. Go!Fresh \in Go!Adder
    BY DEF Go!Fresh, Go!Adder
  <2>2. Cardinality(Sessions) \in Nat
    BY FS_CardinalityType, SessionAssumption
  <2>3. fresh \in [Sessions -> Go!SessionType]
    BY <2>1 DEF Go!SessionType
  <2>4. no \in BOOLEAN
    OBVIOUS
  <2> HIDE DEF fresh, all, no
  <2>5. QED
    BY <1>0, <2>2, <2>3, <2>4 DEF all, Go!Type
<1>2. ASSUME NEW s \in Sessions
      PROVE  /\ Steady(session[s]) /\ Net(session[s]) = 0 /\ session[s].conn # "closed"
             /\ session[s].writer.pc # "store" /\ session[s].reader.pc # "store"
  <2>1. session[s] = [conn |-> "dialing", writer |-> Go!Fresh, reader |-> Go!Fresh, held |-> 0,
               up |-> 0, peer |-> "none", echo |-> 0, down |-> 0, written |-> 0,
               dropped |-> 0]
    BY DEF Go!Init
  <2>2. QED
    BY <2>1, SessionAssumption DEF Steady, Flight, Net, Pending, Owed, Go!Fresh
<1>3. Total(Nets(session), Sessions) = 0
  <2>1. Nets(session) \in [Sessions -> Nat] /\ \A s \in Sessions : Nets(session)[s] = 0
    BY <1>2 DEF Nets
  <2>2. QED
    BY <2>1, SumOfNats, SessionAssumption
<1>4. Holding(session) = {}
  BY <1>2 DEF Holding, Adders
<1>5. Unclosed(session) = Sessions
  BY <1>2 DEF Unclosed
<1>6. /\ state.totalWrites = 0 /\ state.clash = no /\ state.printed = None
      /\ state.waiting = all
  <2> HIDE DEF fresh, all, no
  <2> QED BY <1>0
<1>7. Racing(session, state.totalWrites, state.clash)
  BY <1>3, <1>4, <1>6 DEF Racing
<1>8. QED
  BY <1>1, <1>2, <1>5, <1>6, <1>7 DEF GoSound

(* One session moves on. *)
LEMMA SessionMoves ==
  ASSUME GoSound, NEW s \in Sessions, NEW q \in Go!SessionType, Steady(q)
  PROVE  LET old  == state.session
             next == [old EXCEPT ![s] = q]
         IN  /\ next \in [Sessions -> Go!SessionType]
             /\ next[s] = q /\ \A x \in Sessions : x # s => next[x] = old[x]
             /\ \A x \in Sessions : Steady(next[x])
             /\ Total(Nets(old), Sessions) \in Int /\ Total(Nets(next), Sessions) \in Int
             /\ Total(Nets(next), Sessions) = Total(Nets(old), Sessions) + (Net(q) - Net(old[s]))
<1> DEFINE old  == state.session
           next == [old EXCEPT ![s] = q]
<1>1. old \in [Sessions -> Go!SessionType] /\ \A x \in Sessions : Steady(old[x])
  BY DEF GoSound, Go!Type
<1> HIDE DEF old
<1>2. /\ next \in [Sessions -> Go!SessionType]
      /\ next[s] = q /\ \A x \in Sessions : x # s => next[x] = old[x]
  BY <1>1
<1> HIDE DEF next
<1>3. \A x \in Sessions : Steady(next[x])
  BY <1>1, <1>2
<1>4. Nets(old) \in [Sessions -> Int] /\ Nets(next) \in [Sessions -> Int]
  BY <1>1, <1>2, SessionNets
<1>5. /\ \A x \in Sessions : x # s => Nets(next)[x] = Nets(old)[x]
      /\ Nets(next)[s] = Net(q) /\ Nets(old)[s] = Net(old[s])
  BY <1>2 DEF Nets
<1>6. /\ Total(Nets(old), Sessions) \in Int /\ Total(Nets(next), Sessions) \in Int
      /\ Total(Nets(next), Sessions) = Total(Nets(old), Sessions) + (Net(q) - Net(old[s]))
  BY <1>4, <1>5, SumMoves, SessionAssumption
<1>7. QED
  BY <1>2, <1>3, <1>6 DEF next, old

(* A step of a session that adds nothing to the total and closes nothing.  *)
Quiet(r, q) ==
  /\ Steady(q) /\ Net(q) = Net(r) /\ (q.conn = "closed" <=> r.conn = "closed")
  /\ q.writer.pc = "store" <=> r.writer.pc = "store"
  /\ q.reader.pc = "store" <=> r.reader.pc = "store"
  /\ q.writer.loaded = r.writer.loaded /\ q.reader.loaded = r.reader.loaded

LEMMA GoQuiet ==
  ASSUME GoSound, Go!Running, NEW s \in Sessions, NEW q \in Go!SessionType,
         Quiet(state.session[s], q), state' = [state EXCEPT !.session[s] = q]
  PROVE  GoSound'
<1> DEFINE old  == state.session
           next == [old EXCEPT ![s] = q]
           r    == old[s]
<1>1. /\ next \in [Sessions -> Go!SessionType]
      /\ next[s] = q /\ \A x \in Sessions : x # s => next[x] = old[x]
      /\ \A x \in Sessions : Steady(next[x])
      /\ Total(Nets(old), Sessions) \in Int /\ Total(Nets(next), Sessions) \in Int
      /\ Total(Nets(next), Sessions) = Total(Nets(old), Sessions) + (Net(q) - Net(r))
  BY SessionMoves DEF Quiet
<1>2. state' = [state EXCEPT !.session = next]
  BY DEF GoSound, Go!Type
<1>3. state \in Go!Type /\ r \in Go!SessionType
  BY DEF GoSound, Go!Type
<1>4. Quiet(r, q)
  OBVIOUS
<1> HIDE DEF next
<1>5. /\ state' \in Go!Type /\ state'.session = next /\ state'.totalWrites = state.totalWrites
      /\ state'.clash = state.clash /\ state'.waiting = state.waiting
      /\ state'.printed = state.printed
  BY <1>1, <1>2, <1>3 DEF Go!Type
<1>6. Total(Nets(next), Sessions) = Total(Nets(old), Sessions)
  BY <1>1, <1>3, <1>4, SessionNumbers DEF Quiet
<1> HIDE DEF old
<1>7. Holding(next) = Holding(old)
  <2>1. ASSUME NEW a \in Sessions \X Adders
        PROVE  next[a[1]][a[2]].pc = "store" <=> old[a[1]][a[2]].pc = "store"
    BY <1>1, <1>4 DEF Quiet, Adders
  <2>2. QED
    BY <2>1 DEF Holding
<1>8. \A a \in Holding(old) : next[a[1]][a[2]].loaded = old[a[1]][a[2]].loaded
  BY <1>1, <1>4 DEF Quiet, Adders, Holding
<1>9. Racing(old, state.totalWrites, state.clash)
  BY DEF GoSound, old
<1>10. Racing(next, state.totalWrites, state.clash)
  BY <1>6, <1>7, <1>8, <1>9 DEF Racing
<1>11. Unclosed(next) = Unclosed(old)
  BY <1>1, <1>4 DEF Quiet, Unclosed
<1>12. state.waiting = Cardinality(Unclosed(old)) /\ state.printed = None
  BY DEF GoSound, old, Go!Running
<1>13. QED
  BY <1>1, <1>5, <1>10, <1>11, <1>12 DEF GoSound

LEMMA GoStops ==
  ASSUME GoSound, state' = [state EXCEPT !.panicked = TRUE]
  PROVE  GoSound'
BY DEF GoSound, Go!Type
(* The values of a session after a step that does not wait for a load or a *)
(* store to happen.                                                        *)
LEMMA Owing ==
  ASSUME NEW a \in Go!Adder, NEW n \in Nat
  PROVE  /\ LET b == [a EXCEPT !.pc = "load", !.amount = n]
            IN  /\ b \in Go!Adder /\ Owed(b) = n /\ b.pc = "load"
                /\ b.loaded = a.loaded
         /\ LET b == [a EXCEPT !.pc = "done"]
            IN  /\ b \in Go!Adder /\ Owed(b) = 0 /\ b.pc = "done"
                /\ b.loaded = a.loaded
         /\ a.pc \in {"io", "done"} => Owed(a) = 0
BY DEF Go!Adder, Owed

LEMMA DialSound ==
  ASSUME GoSound, Go!Running, NEW s \in Sessions, Go!Dial(s)
  PROVE  GoSound'
<1> DEFINE r == state.session[s]
<1>1. r \in Go!SessionType /\ Steady(r) /\ state \in Go!Type
  BY DEF GoSound, Go!Type
<1>2. PICK conn \in {"open", "failed"} : state' = [state EXCEPT !.session[s].conn = conn]
  BY DEF Go!Dial
<1> DEFINE q == [r EXCEPT !.conn = conn]
<1>3. state' = [state EXCEPT !.session[s] = q]
  BY <1>1, <1>2 DEF Go!Type
<1>4. r.conn = "dialing"
  BY DEF Go!Dial
<1> HIDE DEF r
<1>5. /\ q \in Go!SessionType /\ q.conn = conn /\ q.writer = r.writer /\ q.reader = r.reader
      /\ q.held = r.held /\ q.up = r.up /\ q.echo = r.echo /\ q.down = r.down
      /\ q.written = r.written /\ q.dropped = r.dropped
  BY <1>1 DEF Go!SessionType
<1> HIDE DEF q
<1>6. Net(q) = Net(r) /\ Flight(q) = Flight(r)
  BY <1>5 DEF Net, Pending, Flight
<1>7. Steady(q)
  BY <1>1, <1>4, <1>5, <1>6 DEF Steady
<1>8. Quiet(r, q)
  BY <1>4, <1>5, <1>6, <1>7 DEF Quiet
<1>9. QED
  BY <1>3, <1>5, <1>8, GoQuiet DEF r

LEMMA AcceptSound ==
  ASSUME GoSound, Go!Running, NEW s \in Sessions, Go!Accept(s)
  PROVE  GoSound'
<1> DEFINE r == state.session[s]
<1>1. r \in Go!SessionType /\ Steady(r) /\ state \in Go!Type
  BY DEF GoSound, Go!Type
<1>2. PICK peer \in {"reading", "none"} : state' = [state EXCEPT !.session[s].peer = peer]
  BY DEF Go!Accept
<1> DEFINE q == [r EXCEPT !.peer = peer]
<1>3. state' = [state EXCEPT !.session[s] = q]
  BY <1>1, <1>2 DEF Go!Type
<1> HIDE DEF r
<1>4. /\ q \in Go!SessionType /\ q.conn = r.conn /\ q.writer = r.writer /\ q.reader = r.reader
      /\ q.held = r.held /\ q.up = r.up /\ q.echo = r.echo /\ q.down = r.down
      /\ q.written = r.written /\ q.dropped = r.dropped
  BY <1>1 DEF Go!SessionType
<1> HIDE DEF q
<1>5. Net(q) = Net(r) /\ Flight(q) = Flight(r)
  BY <1>4 DEF Net, Pending, Flight
<1>6. Steady(q)
  BY <1>1, <1>4, <1>5 DEF Steady
<1>7. Quiet(r, q)
  BY <1>4, <1>5, <1>6 DEF Quiet
<1>8. QED
  BY <1>3, <1>4, <1>7, GoQuiet DEF r

(* What a step may move: bytes between the four places they are in.        *)
NoneAdded(r, n) == n <= Flight(r) /\ (r.conn = "open" => n = Flight(r))

Moved(r, up, echo, down, held, peer) ==
  [r EXCEPT !.up = up, !.echo = echo, !.down = down, !.held = held, !.peer = peer]

LEMMA BytesMove ==
  ASSUME GoSound, Go!Running, NEW s \in Sessions,
         NEW up \in Nat, NEW echo \in Nat, NEW down \in Nat, NEW held \in Nat,
         NEW peer \in {"none", "reading", "ended"},
         NoneAdded(state.session[s], up + echo + down + held),
         Go!Become(s, Moved(state.session[s], up, echo, down, held, peer))
  PROVE  GoSound'
<1> DEFINE r == state.session[s]
           n == up + echo + down + held
           q == [r EXCEPT !.up = up, !.echo = echo, !.down = down, !.held = held, !.peer = peer]
<1>1. /\ r \in Go!SessionType /\ Steady(r)
      /\ n <= Flight(r) /\ (r.conn = "open" => n = Flight(r))
      /\ state' = [state EXCEPT !.session[s] = q]
  BY DEF GoSound, Go!Type, Go!Become, NoneAdded, Moved
<1> HIDE DEF r
<1>2. /\ q \in Go!SessionType /\ q.conn = r.conn /\ q.writer = r.writer /\ q.reader = r.reader
      /\ q.held = held /\ q.up = up /\ q.echo = echo /\ q.down = down
      /\ q.written = r.written /\ q.dropped = r.dropped
  BY <1>1 DEF Go!SessionType
<1> HIDE DEF q
<1>3. Net(q) = Net(r) /\ Flight(q) = n
  BY <1>2 DEF Net, Pending, Flight
<1>4. n \in Nat /\ Flight(r) \in Nat
  BY <1>1, SessionNumbers DEF Flight
<1> HIDE DEF n
<1>5. Steady(q)
  BY <1>1, <1>2, <1>3, <1>4, SessionAssumption DEF Steady
<1>6. Quiet(r, q)
  BY <1>2, <1>3, <1>5 DEF Quiet
<1>7. QED
  BY <1>1, <1>2, <1>6, GoQuiet DEF r
LEMMA BytesSound ==
  ASSUME GoSound, Go!Running, NEW s \in Sessions,
         \/ \E n \in 1 .. BufSize : Go!Read(s, n)
         \/ \E n \in 1 .. BufSize : Go!PeerRead(s, n)
         \/ Go!PeerWrite(s)
         \/ Go!PeerEnds(s)
  PROVE  GoSound'
<1> DEFINE r == state.session[s]
<1>1. r \in Go!SessionType
  BY DEF GoSound, Go!Type
<1>2. /\ r.up \in Nat /\ r.echo \in Nat /\ r.down \in Nat /\ r.held \in Nat
      /\ r.peer \in {"none", "reading", "ended"}
  BY <1>1 DEF Go!SessionType
<1>3. ASSUME NEW n \in 1 .. BufSize, Go!Read(s, n)
      PROVE  GoSound'
  <2> DEFINE down == r.down - n
  <2>1. /\ r.held = 0 /\ n <= r.down
        /\ Go!Become(s, [r EXCEPT !.down = down, !.held = n])
    BY <1>3 DEF Go!Read
  <2>2. n \in Nat /\ down \in Nat /\ NoneAdded(r, r.up + r.echo + down + n)
    BY <1>2, <2>1 DEF Flight, NoneAdded
  <2> HIDE DEF down, r
  <2>3. [r EXCEPT !.down = down, !.held = n] = Moved(r, r.up, r.echo, down, n, r.peer)
    BY <1>1 DEF Go!SessionType, Moved
  <2>4. QED
    BY <1>2, <2>1, <2>2, <2>3, BytesMove DEF r
<1>4. ASSUME NEW n \in 1 .. BufSize, Go!PeerRead(s, n)
      PROVE  GoSound'
  <2> DEFINE up == r.up - n
  <2>1. /\ r.echo = 0 /\ n <= r.up
        /\ Go!Become(s, [r EXCEPT !.up = up, !.echo = n])
    BY <1>4 DEF Go!PeerRead
  <2>2. n \in Nat /\ up \in Nat /\ NoneAdded(r, up + n + r.down + r.held)
    BY <1>2, <2>1 DEF Flight, NoneAdded
  <2> HIDE DEF up, r
  <2>3. [r EXCEPT !.up = up, !.echo = n] = Moved(r, up, n, r.down, r.held, r.peer)
    BY <1>1 DEF Go!SessionType, Moved
  <2>4. QED
    BY <1>2, <2>1, <2>2, <2>3, BytesMove DEF r
<1>5. CASE Go!PeerWrite(s)
  <2>1. PICK n \in 0 .. r.echo :
          /\ r.conn = "open" => n = r.echo
          /\ Go!Become(s, [r EXCEPT !.down = @ + n, !.echo = 0])
    BY <1>5 DEF Go!PeerWrite
  <2> DEFINE down == r.down + n
             all  == r.up + 0 + down + r.held
  <2>2. down \in Nat /\ 0 \in Nat /\ NoneAdded(r, all)
    BY <1>2, <2>1 DEF Flight, NoneAdded
  <2>3. Go!Become(s, [r EXCEPT !.down = down, !.echo = 0])
    BY <2>1
  <2> HIDE DEF down, r
  <2>4. [r EXCEPT !.down = down, !.echo = 0] = Moved(r, r.up, 0, down, r.held, r.peer)
    BY <1>1 DEF Go!SessionType, Moved
  <2>5. Go!Become(s, Moved(r, r.up, 0, down, r.held, r.peer))
    BY <2>3, <2>4
  <2>6. NoneAdded(r, r.up + 0 + down + r.held)
    BY <2>2
  <2>7. QED
    BY <1>2, <2>2, <2>5, <2>6, BytesMove DEF r
<1>6. CASE Go!PeerEnds(s)
  <2>1. Go!Become(s, [r EXCEPT !.peer = "ended"])
    BY <1>6 DEF Go!PeerEnds
  <2>2. NoneAdded(r, r.up + r.echo + r.down + r.held)
    BY <1>2 DEF Flight, NoneAdded
  <2> HIDE DEF r
  <2>3. [r EXCEPT !.peer = "ended"] = Moved(r, r.up, r.echo, r.down, r.held, "ended")
    BY <1>1 DEF Go!SessionType, Moved
  <2>4. QED
    BY <1>2, <2>1, <2>2, <2>3, BytesMove DEF r
<1>7. QED
  BY <1>3, <1>4, <1>5, <1>6

LEMMA WriteBlockSound ==
  ASSUME GoSound, Go!Running, NEW s \in Sessions, Go!WriteBlock(s)
  PROVE  GoSound'
<1> DEFINE r == state.session[s]
<1>1. r \in Go!SessionType /\ Steady(r)
  BY DEF GoSound, Go!Type
<1>2. PICK n \in 0 .. blocksize :
        /\ r.conn = "open" => n = blocksize
        /\ Go!Become(s, [r EXCEPT !.up = @ + n, !.written = @ + n,
                                  !.writer.pc = "load", !.writer.amount = n])
  BY DEF Go!WriteBlock
<1>3. r.writer.pc = "io" /\ r.conn \in {"open", "closed"}
  BY DEF Go!WriteBlock
<1> DEFINE up      == r.up + n
           written == r.written + n
           writer  == [r.writer EXCEPT !.pc = "load", !.amount = n]
           q       == [r EXCEPT !.up = up, !.written = written, !.writer = writer]
<1>4. n \in Nat /\ n <= blocksize /\ up \in Nat /\ written \in Nat
  BY <1>1, <1>2, SessionNumbers, SessionAssumption
<1>5. r.writer \in Go!Adder
  BY <1>1, SessionNumbers
<1>6. writer \in Go!Adder /\ Owed(writer) = n /\ writer.pc = "load" /\ writer.loaded = r.writer.loaded
  BY <1>4, <1>5, Owing
<1>7. Owed(r.writer) = 0
  BY <1>3 DEF Owed
<1>8. /\ state' = [state EXCEPT !.session[s] = [r EXCEPT !.up = up, !.written = written,
                                  !.writer.pc = "load", !.writer.amount = n]]
      /\ up = r.up + n /\ written = r.written + n
  BY <1>2 DEF Go!Become
<1> HIDE DEF r, up, written
<1>9. q = [r EXCEPT !.up = up, !.written = written, !.writer.pc = "load", !.writer.amount = n]
  BY <1>1 DEF Go!SessionType, Go!Adder
<1> HIDE DEF writer
<1>10. /\ q \in Go!SessionType /\ q.conn = r.conn /\ q.writer = writer /\ q.reader = r.reader
       /\ q.held = r.held /\ q.up = up /\ q.echo = r.echo /\ q.down = r.down
       /\ q.written = written /\ q.dropped = r.dropped
  BY <1>1, <1>4, <1>6 DEF Go!SessionType
<1> HIDE DEF q
<1>11. Flight(r) = 0
  BY <1>1, <1>3 DEF Steady
<1>12. Flight(q) = n
  BY <1>1, <1>4, <1>8, <1>10, <1>11, SessionNumbers DEF Flight
<1>13. Net(q) = Net(r)
  BY <1>1, <1>4, <1>6, <1>7, <1>8, <1>10, SessionNumbers DEF Net, Pending
<1>14. Steady(q)
  BY <1>1, <1>2, <1>3, <1>4, <1>6, <1>10, <1>12 DEF Steady, r
<1>15. Quiet(r, q)
  BY <1>3, <1>6, <1>10, <1>13, <1>14 DEF Quiet
<1>16. QED
  BY <1>8, <1>9, <1>10, <1>15, GoQuiet DEF r

LEMMA WriteBackSound ==
  ASSUME GoSound, Go!Running, NEW s \in Sessions, Go!WriteBack(s)
  PROVE  GoSound'
<1> DEFINE r       == state.session[s]
           n       == r.held
           up      == r.up + n
           written == r.written + n
           reader  == [r.reader EXCEPT !.pc = "load", !.amount = n]
           q       == [r EXCEPT !.up = up, !.written = written, !.held = 0, !.reader = reader]
<1>1. r \in Go!SessionType /\ Steady(r)
  BY DEF GoSound, Go!Type
<1>2. r.reader.pc = "io"
  BY DEF Go!WriteBack
<1>3. /\ state' = [state EXCEPT !.session[s] = [r EXCEPT !.up = up, !.written = written,
                       !.held = 0, !.reader.pc = "load", !.reader.amount = n]]
      /\ up = r.up + n /\ written = r.written + n
  BY DEF Go!WriteBack, Go!Become
<1>4. n \in Nat /\ up \in Nat /\ written \in Nat
  BY <1>1, SessionNumbers
<1>5. r.reader \in Go!Adder
  BY <1>1, SessionNumbers
<1>6. reader \in Go!Adder /\ Owed(reader) = n /\ reader.pc = "load" /\ reader.loaded = r.reader.loaded
  BY <1>4, <1>5, Owing
<1>7. Owed(r.reader) = 0 /\ n = r.held
  BY <1>2 DEF Owed
<1> HIDE DEF r, n, up, written
<1>8. q = [r EXCEPT !.up = up, !.written = written, !.held = 0, !.reader.pc = "load",
                    !.reader.amount = n]
  BY <1>1 DEF Go!SessionType, Go!Adder
<1> HIDE DEF reader
<1>9. /\ q \in Go!SessionType /\ q.conn = r.conn /\ q.writer = r.writer /\ q.reader = reader
      /\ q.held = 0 /\ q.up = up /\ q.echo = r.echo /\ q.down = r.down
      /\ q.written = written /\ q.dropped = r.dropped
  BY <1>1, <1>4, <1>6 DEF Go!SessionType
<1> HIDE DEF q
<1>10. Flight(q) = Flight(r)
  BY <1>1, <1>3, <1>7, <1>9, SessionNumbers DEF Flight
<1>11. Net(q) = Net(r)
  BY <1>1, <1>3, <1>4, <1>6, <1>7, <1>9, SessionNumbers DEF Net, Pending
<1>12. Steady(q)
  BY <1>1, <1>2, <1>6, <1>9, <1>10 DEF Steady
<1>13. Quiet(r, q)
  BY <1>2, <1>6, <1>9, <1>11, <1>12 DEF Quiet
<1>14. QED
  BY <1>3, <1>8, <1>9, <1>13, GoQuiet DEF r

LEMMA ReaderEndsSound ==
  ASSUME GoSound, Go!Running, NEW s \in Sessions, Go!ReaderEnds(s)
  PROVE  GoSound'
<1> DEFINE r == state.session[s]
<1>1. r \in Go!SessionType /\ Steady(r)
  BY DEF GoSound, Go!Type
<1>2. PICK n \in 0 .. r.held :
        Go!Become(s, [r EXCEPT !.reader.pc = "done", !.up = @ + n, !.held = 0,
                               !.written = @ + n, !.dropped = n])
  BY DEF Go!ReaderEnds
<1>3. r.reader.pc = "io" /\ r.conn = "closed"
  BY DEF Go!ReaderEnds
<1> DEFINE up      == r.up + n
           written == r.written + n
           reader  == [r.reader EXCEPT !.pc = "done"]
           q       == [r EXCEPT !.reader = reader, !.up = up, !.held = 0, !.written = written,
                                !.dropped = n]
<1>4. n \in Nat /\ n <= r.held /\ up \in Nat /\ written \in Nat
  BY <1>1, SessionNumbers
<1>5. r.reader \in Go!Adder
  BY <1>1, SessionNumbers
<1>6. reader \in Go!Adder /\ Owed(reader) = 0 /\ reader.pc = "done" /\ reader.loaded = r.reader.loaded
  BY <1>5, Owing
<1>7. Owed(r.reader) = 0
  BY <1>3 DEF Owed
<1>8. /\ state' = [state EXCEPT !.session[s] = [r EXCEPT !.reader.pc = "done", !.up = up,
                       !.held = 0, !.written = written, !.dropped = n]]
      /\ up = r.up + n /\ written = r.written + n
  BY <1>2 DEF Go!Become
<1> HIDE DEF r, up, written
<1>9. q = [r EXCEPT !.reader.pc = "done", !.up = up, !.held = 0, !.written = written,
                    !.dropped = n]
  BY <1>1 DEF Go!SessionType, Go!Adder
<1> HIDE DEF reader
<1>10. /\ q \in Go!SessionType /\ q.conn = r.conn /\ q.writer = r.writer /\ q.reader = reader
       /\ q.held = 0 /\ q.up = up /\ q.echo = r.echo /\ q.down = r.down
       /\ q.written = written /\ q.dropped = n
  BY <1>1, <1>4, <1>6 DEF Go!SessionType
<1> HIDE DEF q
<1>11. Flight(q) <= Flight(r) /\ Flight(q) \in Nat /\ Flight(r) \in Nat
  BY <1>1, <1>4, <1>8, <1>10, SessionNumbers DEF Flight
<1>12. r.dropped = 0
  BY <1>1, <1>3 DEF Steady
<1>13. Net(q) = Net(r)
  BY <1>1, <1>4, <1>6, <1>7, <1>8, <1>10, <1>12, SessionNumbers DEF Net, Pending
<1>14. Steady(q)
  BY <1>1, <1>3, <1>6, <1>10, <1>11, SessionAssumption DEF Steady
<1>15. Quiet(r, q)
  BY <1>3, <1>6, <1>10, <1>13, <1>14 DEF Quiet
<1>16. QED
  BY <1>8, <1>9, <1>10, <1>15, GoQuiet DEF r
(* A goroutine that adds goes on; nothing else of its session changes.     *)
LEMMA AdderMoves ==
  ASSUME NEW r \in Go!SessionType, Steady(r), NEW g \in Adders, NEW b \in Go!Adder,
         r[g].pc \notin {"io", "done"},
         g = "writer" => b.pc # "io", g = "reader" => b.pc # "done"
  PROVE  LET q == [r EXCEPT ![g] = b]
         IN  /\ q \in Go!SessionType /\ Steady(q) /\ q[g] = b /\ q.conn = r.conn
             /\ q.written = r.written
             /\ \A k \in Adders : k # g => q[k] = r[k]
             /\ Net(q) = Net(r) + Owed(r[g]) - Owed(b)
<1> DEFINE q == [r EXCEPT ![g] = b]
<1>1. CASE g = "writer"
  <2>1. /\ q \in Go!SessionType /\ q.conn = r.conn /\ q.writer = b /\ q.reader = r.reader
        /\ q.held = r.held /\ q.up = r.up /\ q.echo = r.echo /\ q.down = r.down
        /\ q.written = r.written /\ q.dropped = r.dropped
    BY <1>1 DEF Go!SessionType
  <2>2. q[g] = q.writer /\ r[g] = r.writer /\ \A k \in Adders : k # g => q[k] = q.reader /\ r[k] = r.reader
    BY <1>1 DEF Adders
  <2> HIDE DEF q
  <2>3. Flight(q) = Flight(r)
    BY <2>1 DEF Flight
  <2>4. Steady(q)
    BY <1>1, <2>1, <2>2, <2>3 DEF Steady
  <2>5. Net(q) = Net(r) + Owed(r.writer) - Owed(b)
    BY <2>1, SessionNumbers DEF Net, Pending
  <2>6. QED
    BY <2>1, <2>2, <2>4, <2>5 DEF q
<1>2. CASE g = "reader"
  <2>1. /\ q \in Go!SessionType /\ q.conn = r.conn /\ q.writer = r.writer /\ q.reader = b
        /\ q.held = r.held /\ q.up = r.up /\ q.echo = r.echo /\ q.down = r.down
        /\ q.written = r.written /\ q.dropped = r.dropped
    BY <1>2 DEF Go!SessionType
  <2>2. q[g] = q.reader /\ r[g] = r.reader /\ \A k \in Adders : k # g => q[k] = q.writer /\ r[k] = r.writer
    BY <1>2 DEF Adders
  <2> HIDE DEF q
  <2>3. Flight(q) = Flight(r)
    BY <2>1 DEF Flight
  <2>4. Steady(q)
    BY <1>2, <2>1, <2>2, <2>3 DEF Steady
  <2>5. Net(q) = Net(r) + Owed(r.reader) - Owed(b)
    BY <2>1, SessionNumbers DEF Net, Pending
  <2>6. QED
    BY <2>1, <2>2, <2>4, <2>5 DEF q
<1>3. QED
  BY <1>1, <1>2 DEF Adders

(* What is left of GoSound when one adder has moved.                       *)
LEMMA AddersMoved ==
  ASSUME GoSound, Go!Running, NEW s \in Sessions, NEW g \in Adders, NEW b \in Go!Adder,
         state.session[s][g].pc \notin {"io", "done"},
         g = "writer" => b.pc # "io", g = "reader" => b.pc # "done",
         NEW next, next = [state.session EXCEPT ![s][g] = b],
         NEW total \in Nat, NEW clash \in BOOLEAN,
         state' = [state EXCEPT !.session = next, !.totalWrites = total, !.clash = clash],
         Racing(next, total, clash)
  PROVE  GoSound'
<1> DEFINE r == state.session[s]
           q == [r EXCEPT ![g] = b]
<1>1. r \in Go!SessionType /\ Steady(r) /\ state \in Go!Type
  BY DEF GoSound, Go!Type
<1>2. /\ r[g].pc \notin {"io", "done"}
      /\ (g = "writer" => b.pc # "io") /\ (g = "reader" => b.pc # "done")
  OBVIOUS
<1>3. next = [state.session EXCEPT ![s] = q]
  BY <1>1 DEF Go!Type
<1> HIDE DEF r
<1>4. q \in Go!SessionType /\ Steady(q) /\ q.conn = r.conn
  BY <1>1, <1>2, AdderMoves
<1> HIDE DEF q
<1>5. /\ next \in [Sessions -> Go!SessionType] /\ \A x \in Sessions : Steady(next[x])
      /\ next[s] = q /\ \A x \in Sessions : x # s => next[x] = state.session[x]
  <2> DEFINE moved == [state.session EXCEPT ![s] = q]
  <2>1. /\ moved \in [Sessions -> Go!SessionType] /\ \A x \in Sessions : Steady(moved[x])
        /\ moved[s] = q /\ \A x \in Sessions : x # s => moved[x] = state.session[x]
    BY <1>4, SessionMoves
  <2>2. next = moved
    BY <1>3
  <2> HIDE DEF moved
  <2>3. QED
    BY <2>1, <2>2
<1>6. Unclosed(next) = Unclosed(state.session)
  BY <1>5, <1>4 DEF Unclosed, r
<1>7. /\ state' \in Go!Type /\ state'.session = next /\ state'.totalWrites = total
      /\ state'.clash = clash /\ state'.waiting = state.waiting
      /\ state'.printed = state.printed
  BY <1>1, <1>5 DEF Go!Type
<1>8. state.waiting = Cardinality(Unclosed(state.session)) /\ state.printed = None
  BY DEF GoSound, Go!Running
<1>9. QED
  BY <1>5, <1>6, <1>7, <1>8 DEF GoSound

LEMMA LoadSound ==
  ASSUME GoSound, Go!Running, NEW s \in Sessions, NEW g \in Adders, Go!Load(s, g)
  PROVE  GoSound'
<1> DEFINE old   == state.session
           r     == old[s]
           a     == r[g]
           total == state.totalWrites
           b     == [a EXCEPT !.pc = "store", !.loaded = total]
           q     == [r EXCEPT ![g] = b]
           next  == [old EXCEPT ![s] = q]
           held  == Holding(old) # {}
           clash == state.clash \/ held
           net   == Total(Nets(old), Sessions)
<1>1. /\ r \in Go!SessionType /\ Steady(r) /\ state \in Go!Type /\ total \in Nat
      /\ old \in [Sessions -> Go!SessionType] /\ clash \in BOOLEAN
  BY DEF GoSound, Go!Type
<1>2. a \in Go!Adder
  BY <1>1, SessionNumbers DEF Adders
<1>3. a.pc = "load"
  BY DEF Go!Load
<1>4. b \in Go!Adder /\ Owed(b) = Owed(a) /\ b.pc = "store" /\ b.loaded = total
  BY <1>1, <1>2, <1>3 DEF Go!Adder, Owed
<1>5. /\ q \in Go!SessionType /\ Steady(q) /\ q[g] = b
      /\ \A k \in Adders : k # g => q[k] = r[k]
      /\ Net(q) = Net(r) + Owed(a) - Owed(b)
  <2>1. r[g].pc \notin {"io", "done"} /\ b.pc # "io" /\ b.pc # "done"
    BY <1>3, <1>4
  <2> HIDE DEF r, b
  <2>2. QED
    BY <1>1, <1>4, <2>1, AdderMoves
<1>6. /\ next \in [Sessions -> Go!SessionType]
      /\ next[s] = q /\ \A x \in Sessions : x # s => next[x] = old[x]
      /\ net \in Int
      /\ Total(Nets(next), Sessions) = net + (Net(q) - Net(r))
  BY <1>5, SessionMoves
<1>7. Owed(a) \in Nat
  BY <1>1, SessionNumbers DEF Adders
<1>8. Total(Nets(next), Sessions) = net
  BY <1>1, <1>4, <1>5, <1>6, <1>7, SessionNumbers
<1>9. Go!Storing = Holding(old)
  BY DEF Go!Storing, Holding, Adders
<1>10. state' = [state EXCEPT !.session[s][g].pc = "store", !.session[s][g].loaded = total,
                              !.clash = clash]
  BY <1>9 DEF Go!Load
<1>11. Racing(old, total, state.clash)
  BY DEF GoSound
<1> HIDE DEF total, clash
<1>12. [state EXCEPT !.session[s][g].pc = "store", !.session[s][g].loaded = total,
                     !.clash = clash]
         = [state EXCEPT !.session = next, !.totalWrites = total, !.clash = clash]
  <2> DEFINE u == [state EXCEPT !.session[s][g].pc = "store", !.session[s][g].loaded = total]
  <2>1. [old EXCEPT ![s][g].pc = "store", ![s][g].loaded = total] = next
    BY <1>1, <1>2 DEF Go!SessionType, Go!Adder, Adders
  <2>2. u = [state EXCEPT !.session = next]
    BY <1>1, <2>1 DEF Go!Type
  <2>3. total = state.totalWrites
    BY DEF total
  <2> HIDE DEF next
  <2>4. [u EXCEPT !.clash = clash] = [state EXCEPT !.session = next, !.totalWrites = total, !.clash = clash]
    BY <1>1, <2>2, <2>3 DEF Go!Type
  <2>5. QED
    BY <2>4
<1>13. next = [old EXCEPT ![s][g] = b]
  BY <1>1
<1> HIDE DEF next, q, b, r
<1>14. Holding(next) = Holding(old) \cup {<<s, g>>}
  <2>1. next[s][g].pc = "store"
    BY <1>4, <1>5, <1>6
  <2>2. ASSUME NEW x \in Sessions, NEW k \in Adders, x # s \/ k # g
        PROVE  next[x][k] = old[x][k]
    BY <1>5, <1>6, <2>2 DEF r
  <2>3. QED
    BY <2>1, <2>2 DEF Holding
<1>15. /\ next[s][g].loaded = total
       /\ \A x \in Holding(old) : next[x[1]][x[2]].loaded = old[x[1]][x[2]].loaded
  <2>1. next[s][g].loaded = total
    BY <1>4, <1>5, <1>6
  <2>2. ASSUME NEW x \in Sessions, NEW k \in Adders, old[x][k].pc = "store"
        PROVE  next[x][k] = old[x][k]
    BY <1>3, <1>5, <1>6, <2>2 DEF r
  <2>3. QED
    BY <2>1, <2>2 DEF Holding
<1>16. Racing(next, total, clash)
  <2> DEFINE loaded(x) == next[x[1]][x[2]].loaded
  <2>1. total <= net
    BY <1>11 DEF Racing
  <2>2. ASSUME NEW x \in Holding(next) PROVE loaded(x) <= net
    BY <1>11, <1>14, <1>15, <2>1 DEF Racing
  <2>3. ASSUME ~clash
        PROVE  /\ total = net
               /\ \A x, y \in Holding(next) : x = y /\ loaded(x) = total
    <3>1. ~state.clash /\ Holding(old) = {}
      BY <2>3 DEF clash
    <3>2. QED
      BY <1>11, <1>14, <1>15, <3>1 DEF Racing
  <2>4. QED
    BY <1>8, <2>1, <2>2, <2>3 DEF Racing
<1>17. QED
  <2>1. state' = [state EXCEPT !.session = next, !.totalWrites = total, !.clash = clash]
    BY <1>10, <1>12
  <2>2. a.pc \notin {"io", "done"} /\ b.pc \notin {"io", "done"}
    BY <1>3, <1>4
  <2>3. a = state.session[s][g]
    BY DEF r
  <2> HIDE DEF a
  <2>4. QED
    BY <1>1, <1>4, <1>13, <1>16, <2>1, <2>2, <2>3, AddersMoved
LEMMA StoreSound ==
  ASSUME GoSound, Go!Running, NEW s \in Sessions, NEW g \in Adders, Go!Store(s, g)
  PROVE  GoSound'
<1> DEFINE old   == state.session
           r     == old[s]
           a     == r[g]
           total == a.loaded + a.amount
           clash == state.clash
           b     == Go!After(g)
           q     == [r EXCEPT ![g] = b]
           next  == [old EXCEPT ![s] = q]
           net   == Total(Nets(old), Sessions)
<1>1. /\ r \in Go!SessionType /\ Steady(r) /\ state \in Go!Type /\ clash \in BOOLEAN
      /\ old \in [Sessions -> Go!SessionType]
  BY DEF GoSound, Go!Type
<1>2. a \in Go!Adder /\ a.loaded \in Nat /\ a.amount \in Nat
  BY <1>1, SessionNumbers DEF Adders, Go!Adder
<1>3. a.pc = "store"
  BY DEF Go!Store
<1>4. Owed(a) = a.amount
  BY <1>3 DEF Owed
<1>5. /\ b \in Go!Adder /\ Owed(b) = 0 /\ b.pc # "store"
      /\ g = "writer" => b.pc # "io"
      /\ g = "reader" => b.pc # "done"
  BY DEF Go!After, Go!Fresh, Go!Adder, Owed
<1>6. /\ q \in Go!SessionType /\ Steady(q) /\ q[g] = b
      /\ \A k \in Adders : k # g => q[k] = r[k]
      /\ Net(q) = Net(r) + Owed(a) - Owed(b)
  BY <1>1, <1>3, <1>5, AdderMoves
<1>7. /\ next \in [Sessions -> Go!SessionType]
      /\ next[s] = q /\ \A x \in Sessions : x # s => next[x] = old[x]
      /\ net \in Int
      /\ Total(Nets(next), Sessions) = net + (Net(q) - Net(r))
  BY <1>6, SessionMoves
<1>8. Total(Nets(next), Sessions) = net + a.amount
  BY <1>1, <1>2, <1>4, <1>5, <1>6, <1>7, SessionNumbers
<1>9. state' = [state EXCEPT !.session[s][g] = b, !.totalWrites = total]
  BY DEF Go!Store
<1>10. Racing(old, state.totalWrites, clash)
  BY DEF GoSound
<1>11. total \in Nat /\ total = a.loaded + a.amount
  BY <1>2
<1>12. next = [old EXCEPT ![s][g] = b]
  BY <1>1
<1> HIDE DEF total, clash, b, q, next
<1>13. state' = [state EXCEPT !.session = next, !.totalWrites = total, !.clash = clash]
  <2>1. state' = [state EXCEPT !.session = next, !.totalWrites = total]
    BY <1>1, <1>9, <1>12 DEF Go!Type
  <2>2. QED
    BY <1>1, <2>1 DEF clash, Go!Type
<1> HIDE DEF r
<1>14. Holding(next) = Holding(old) \ {<<s, g>>}
  <2>1. next[s][g].pc # "store"
    BY <1>5, <1>6, <1>7
  <2>2. ASSUME NEW x \in Sessions, NEW k \in Adders, x # s \/ k # g
        PROVE  next[x][k] = old[x][k]
    BY <1>6, <1>7, <2>2 DEF r
  <2>3. QED
    BY <2>1, <2>2 DEF Holding
<1>15. \A x \in Holding(next) : next[x[1]][x[2]].loaded = old[x[1]][x[2]].loaded
  <2>1. ASSUME NEW x \in Sessions, NEW k \in Adders, x # s \/ k # g
        PROVE  next[x][k] = old[x][k]
    BY <1>6, <1>7, <2>1 DEF r
  <2>2. QED
    BY <1>14, <2>1 DEF Holding
<1>16. <<s, g>> \in Holding(old)
  BY <1>3 DEF Holding, r
<1>17. Racing(next, total, clash)
  <2> DEFINE loaded(x) == next[x[1]][x[2]].loaded
             before(x) == old[x[1]][x[2]].loaded
  <2>1. a.loaded <= net
    BY <1>10, <1>16 DEF Racing, r
  <2>2. total <= net + a.amount
    BY <1>2, <1>7, <1>11, <2>1
  <2>3. ASSUME NEW x \in Holding(next) PROVE loaded(x) <= net + a.amount
    <3>1. x \in Holding(old) /\ loaded(x) = before(x)
      BY <1>14, <1>15, <2>3
    <3>2. before(x) <= net
      BY <1>10, <3>1 DEF Racing
    <3>3. before(x) \in Nat
      BY <1>1, <3>1, SessionNumbers DEF Holding, Adders, Go!Adder
    <3> HIDE DEF net, loaded, before, a
    <3>4. QED
      BY <1>2, <1>7, <3>1, <3>2, <3>3
  <2>4. ASSUME ~clash
        PROVE  total = net + a.amount /\ Holding(next) = {}
    <3>1. /\ state.totalWrites = net
          /\ \A x, y \in Holding(old) : x = y /\ before(x) = state.totalWrites
      BY <1>10, <2>4 DEF Racing
    <3>2. a.loaded = net
      BY <1>16, <3>1 DEF r
    <3>3. Holding(next) = {}
      BY <1>14, <1>16, <3>1
    <3>4. QED
      BY <1>11, <3>2, <3>3
  <2>5. QED
    BY <1>8, <2>2, <2>3, <2>4 DEF Racing
<1>18. QED
  <2>1. a.pc \notin {"io", "done"} /\ a = state.session[s][g]
    BY <1>3 DEF r
  <2> HIDE DEF a
  <2>2. QED
    BY <1>1, <1>5, <1>11, <1>12, <1>13, <1>17, <2>1, AddersMoved

LEMMA OnTimerSound ==
  ASSUME GoSound, Go!Running, NEW s \in Sessions, Go!OnTimer(s)
  PROVE  GoSound'
<1> DEFINE old  == state.session
           r    == old[s]
           q    == [r EXCEPT !.conn = "closed"]
           next == [old EXCEPT ![s] = q]
           left == state.waiting - 1
<1>1. /\ r \in Go!SessionType /\ Steady(r) /\ state \in Go!Type
      /\ old \in [Sessions -> Go!SessionType] /\ state.waiting \in Nat
  BY DEF GoSound, Go!Type
<1>2. state' = [state EXCEPT !.session[s].conn = "closed", !.waiting = left] /\ r.conn = "open"
  BY DEF Go!OnTimer
<1>3. next = [old EXCEPT ![s].conn = "closed"]
  OBVIOUS
<1>4. /\ q \in Go!SessionType /\ q.conn = "closed" /\ q.writer = r.writer /\ q.reader = r.reader
      /\ q.held = r.held /\ q.up = r.up /\ q.echo = r.echo /\ q.down = r.down
      /\ q.written = r.written /\ q.dropped = r.dropped
  BY <1>1 DEF Go!SessionType
<1> HIDE DEF q
<1>5. Net(q) = Net(r) /\ Flight(q) = Flight(r)
  BY <1>4 DEF Net, Pending, Flight
<1>6. Steady(q)
  BY <1>1, <1>4, <1>5 DEF Steady
<1>7. /\ next \in [Sessions -> Go!SessionType]
      /\ next[s] = q /\ \A x \in Sessions : x # s => next[x] = old[x]
      /\ \A x \in Sessions : Steady(next[x])
      /\ Total(Nets(old), Sessions) \in Int
      /\ Total(Nets(next), Sessions) = Total(Nets(old), Sessions) + (Net(q) - Net(r))
  BY <1>4, <1>6, SessionMoves
<1>8. Total(Nets(next), Sessions) = Total(Nets(old), Sessions)
  BY <1>1, <1>5, <1>7, SessionNumbers
<1>9. Unclosed(next) = Unclosed(old) \ {s} /\ s \in Unclosed(old)
  BY <1>2, <1>4, <1>7 DEF Unclosed
<1>10. /\ IsFiniteSet(Unclosed(old)) /\ state.waiting = Cardinality(Unclosed(old))
       /\ state.printed = None
  BY FS_Subset, SessionAssumption DEF Unclosed, GoSound, Go!Running
<1>11. Cardinality(Unclosed(next)) = left
  BY <1>9, <1>10, FS_RemoveElement
<1>12. left \in Nat
  <2>1. IsFiniteSet(Unclosed(next))
    BY <1>9, <1>10, FS_RemoveElement
  <2>2. QED
    BY <1>11, <2>1, FS_CardinalityType
<1> HIDE DEF next, left
<1>13. state' = [state EXCEPT !.session = next, !.waiting = left]
  BY <1>1, <1>2, <1>3 DEF Go!Type
<1>14. /\ state' \in Go!Type /\ state'.session = next /\ state'.waiting = left
       /\ state'.totalWrites = state.totalWrites /\ state'.clash = state.clash
       /\ state'.printed = state.printed
  BY <1>1, <1>7, <1>12, <1>13 DEF Go!Type
<1>15. \A x \in Sessions, g \in Adders :
         /\ next[x][g].pc = "store" <=> old[x][g].pc = "store"
         /\ next[x][g].loaded = old[x][g].loaded
  BY <1>4, <1>7 DEF Adders
<1>16. Holding(next) = Holding(old)
  BY <1>15 DEF Holding
<1>17. \A a \in Holding(old) : next[a[1]][a[2]].loaded = old[a[1]][a[2]].loaded
  BY <1>15 DEF Holding
<1>18. Racing(old, state.totalWrites, state.clash)
  BY DEF GoSound
<1>19. Racing(next, state.totalWrites, state.clash)
  BY <1>8, <1>16, <1>17, <1>18 DEF Racing
<1>20. QED
  BY <1>7, <1>10, <1>11, <1>14, <1>19 DEF GoSound

(* What has been written and not added, or never will be. *)
Pendings(session) == [s \in Sessions |-> Pending(session[s])]

LEMMA NetIsDifference ==
  ASSUME NEW session \in [Sessions -> Go!SessionType]
  PROVE  LET written == Total(Writtens(session), Sessions)
             pending == Total(Pendings(session), Sessions)
         IN  /\ written \in Nat /\ pending \in Nat
             /\ Total(Nets(session), Sessions) = written - pending
<1>1. /\ Writtens(session) \in [Sessions -> Nat] /\ Writtens(session) \in [Sessions -> Int]
      /\ Pendings(session) \in [Sessions -> Nat] /\ Pendings(session) \in [Sessions -> Int]
      /\ Nets(session) \in [Sessions -> Int]
  BY SessionNumbers DEF Writtens, Pendings, Nets
<1>2. \A s \in Sessions : Nets(session)[s] = Writtens(session)[s] - Pendings(session)[s]
  BY DEF Nets, Writtens, Pendings, Net
<1>3. Total(Writtens(session), Sessions) \in Nat /\ Total(Pendings(session), Sessions) \in Nat
  BY <1>1, SumOfNats, SessionAssumption
<1>4. Total(Nets(session), Sessions) = Total(Writtens(session), Sessions) - Total(Pendings(session), Sessions)
  BY <1>1, <1>2, SumDifference, SessionAssumption
<1>5. QED
  BY <1>3, <1>4

LEMMA PrintRateSound ==
  ASSUME GoSound, Go!Running, Go!PrintRate
  PROVE  GoSound'
<1> DEFINE total == state.totalWrites
<1>1. state' = [state EXCEPT !.printed = total] /\ state.waiting = 0
  BY DEF Go!PrintRate
<1>2. state \in Go!Type /\ total \in Nat /\ state.session \in [Sessions -> Go!SessionType]
  BY DEF GoSound, Go!Type
<1>3. Racing(state.session, total, state.clash)
  BY DEF GoSound
<1>4. total <= Total(Writtens(state.session), Sessions)
  BY <1>2, <1>3, NetIsDifference DEF Racing
<1> HIDE DEF total
<1>5. /\ state' \in Go!Type /\ state'.session = state.session /\ state'.waiting = state.waiting
      /\ state'.totalWrites = state.totalWrites /\ state'.clash = state.clash
      /\ state'.printed = total
  BY <1>1, <1>2 DEF Go!Type
<1>6. QED
  BY <1>1, <1>4, <1>5 DEF GoSound

LEMMA GoStep ==
  ASSUME GoSound, Go!Next
  PROVE  GoSound'
<1>1. Go!Running
  BY DEF Go!Next
<1>2. CASE Go!PrintRate
  BY <1>1, <1>2, PrintRateSound
<1>3. ASSUME NEW s \in Sessions, Go!SessionStep(s)
      PROVE  GoSound'
  <2>1. CASE Go!UseNil(s)
    BY <2>1, GoStops DEF Go!UseNil
  <2>2. CASE \E g \in Adders : Go!Load(s, g) \/ Go!Store(s, g)
    BY <1>1, <2>2, LoadSound, StoreSound
  <2>3. CASE \/ \E n \in 1 .. BufSize : Go!Read(s, n)
             \/ \E n \in 1 .. BufSize : Go!PeerRead(s, n)
             \/ Go!PeerWrite(s) \/ Go!PeerEnds(s)
    BY <1>1, <2>3, BytesSound
  <2>4. CASE \/ Go!Dial(s) \/ Go!WriteBlock(s) \/ Go!WriteBack(s) \/ Go!ReaderEnds(s)
             \/ Go!OnTimer(s) \/ Go!Accept(s)
    BY <1>1, <2>4, DialSound, WriteBlockSound, WriteBackSound, ReaderEndsSound,
       OnTimerSound, AcceptSound
  <2>5. QED
    BY <1>3, <2>1, <2>2, <2>3, <2>4 DEF Go!SessionStep, Adders
<1>4. QED
  BY <1>2, <1>3 DEF Go!Next

LEMMA GoSums ==
  ASSUME GoSound
  PROVE  /\ Go!Written = Total(Writtens(state.session), Sessions)
         /\ Go!Unadded = Total(Pendings(state.session), Sessions)
<1> DEFINE session == state.session
<1>1. ASSUME NEW T \in SUBSET Sessions, T # {}
      PROVE  /\ Writtens(session)[Picked(T)] = session[Picked(T)].written
             /\ Pendings(session)[Picked(T)] = Pending(session[Picked(T)])
  BY <1>1 DEF Writtens, Pendings, Picked
<1>2. Go!Written = Total(Writtens(session), Sessions)
  <2>1. ASSUME NEW f
        PROVE  [T \in SUBSET Sessions |->
                  IF T = {} THEN 0 ELSE session[Picked(T)].written + f[T \ {Picked(T)}]]
               = [T \in SUBSET Sessions |-> AddThen(Writtens(session), f, T)]
    BY <1>1 DEF AddThen
  <2>2. (CHOOSE f : f = [T \in SUBSET Sessions |->
            IF T = {} THEN 0 ELSE session[Picked(T)].written + f[T \ {Picked(T)}]])
        = SumsOf(Writtens(session), Sessions)
    BY <2>1 DEF SumsOf
  <2>3. MapThenSumSet(LAMBDA s : session[s].written, Sessions) = Total(Writtens(session), Sessions)
    BY <2>2 DEF MapThenSumSet, MapThenFoldSet, Total, Picked
  <2>4. QED
    BY <2>3 DEF Go!Written, Go!MapThenSumSet, Go!MapThenFoldSet, MapThenSumSet, MapThenFoldSet
<1>3. Go!Unadded = Total(Pendings(session), Sessions)
  <2>1. ASSUME NEW f
        PROVE  [T \in SUBSET Sessions |->
                  IF T = {} THEN 0 ELSE Pending(session[Picked(T)]) + f[T \ {Picked(T)}]]
               = [T \in SUBSET Sessions |-> AddThen(Pendings(session), f, T)]
    BY <1>1 DEF AddThen
  <2>2. (CHOOSE f : f = [T \in SUBSET Sessions |->
            IF T = {} THEN 0 ELSE Pending(session[Picked(T)]) + f[T \ {Picked(T)}]])
        = SumsOf(Pendings(session), Sessions)
    BY <2>1 DEF SumsOf
  <2>3. MapThenSumSet(LAMBDA s :
          LET due(g) == IF session[s][g].pc \in {"load", "store"}
                        THEN session[s][g].amount ELSE 0
          IN  due("writer") + due("reader") + session[s].dropped, Sessions)
        = Total(Pendings(session), Sessions)
    BY <2>2 DEF MapThenSumSet, MapThenFoldSet, Total, Picked, Pending, Owed
  <2>4. QED
    BY <2>3 DEF Go!Unadded, Go!MapThenSumSet, Go!MapThenFoldSet, MapThenSumSet, MapThenFoldSet
<1>4. QED
  BY <1>2, <1>3

LEMMA GoSoundResult ==
  ASSUME GoSound
  PROVE  Go!ResultSound
<1> DEFINE session == state.session
<1>1. state \in Go!Type /\ session \in [Sessions -> Go!SessionType]
  BY DEF GoSound, Go!Type
<1>2. Total(Nets(session), Sessions) = Go!Written - Go!Unadded
  BY <1>1, GoSums, NetIsDifference
<1>3. Racing(session, state.totalWrites, state.clash)
  BY DEF GoSound
<1>4. Go!TotalNeverOver
  BY <1>2, <1>3 DEF Racing, Go!TotalNeverOver
<1>5. Go!PrintedMeansAll
  <2>1. SUFFICES ASSUME state.printed # None
                 PROVE  /\ \A s \in Sessions : session[s].conn = "closed"
                        /\ state.printed <= Go!Written
    BY DEF Go!PrintedMeansAll
  <2>2. Cardinality(Unclosed(session)) = 0 /\ IsFiniteSet(Unclosed(session))
    BY <2>1, FS_Subset, SessionAssumption DEF GoSound, Unclosed
  <2>3. Unclosed(session) = {}
    BY <2>2, FS_EmptySet
  <2>4. state.printed <= Go!Written
    BY <2>1, GoSums DEF GoSound
  <2>5. QED
    BY <2>3, <2>4 DEF Unclosed
<1>6. Go!BlockCirculates
  BY DEF GoSound, Steady, Flight, Go!BlockCirculates
<1>7. QED
  BY <1>4, <1>5, <1>6 DEF Go!ResultSound

-----------------------------------------------------------------------------
(* LogLine: what is kept of a statement, and how numbers are printed.      *)

(* A function defined by recursion from 0 exists, and there is one only.   *)
Follows(f, base, step, n) ==
  f[0] = base /\ \A k \in 1 .. n : f[k] = step[<<k, f[k - 1]>>]

LEMMA StepsExist ==
  ASSUME NEW S, NEW base \in S, NEW n \in Nat, NEW step \in [(1 .. n) \X S -> S]
  PROVE  \E f \in [0 .. n -> S] : Follows(f, base, step, n)
<1> DEFINE Solves(f, j) == /\ f \in [0 .. j -> S] /\ f[0] = base
                           /\ \A k \in 1 .. j : f[k] = step[<<k, f[k - 1]>>]
           Solved == {j \in Nat : j <= n => \E f : Solves(f, j)}
<1>1. 0 \in Solved
  <2>1. Solves([k \in 0 .. 0 |-> base], 0)
    OBVIOUS
  <2>2. QED
    BY <2>1
<1>2. ASSUME NEW j \in Nat, j \in Solved
      PROVE  j + 1 \in Solved
  <2>1. SUFFICES ASSUME j + 1 <= n PROVE \E f : Solves(f, j + 1)
    OBVIOUS
  <2>2. PICK f : Solves(f, j)
    BY <1>2, <2>1
  <2> DEFINE y == j + 1
             x == step[<<y, f[j]>>]
             g == [k \in 0 .. y |-> IF k = y THEN x ELSE f[k]]
  <2>3. y \in 1 .. n /\ y - 1 = j /\ \A k \in 0 .. y : k # y => k \in 0 .. j
    BY <2>1
  <2>4. f[j] \in S /\ x \in S
    BY <2>2, <2>3
  <2> HIDE DEF x
  <2>5. g \in [0 .. y -> S] /\ g[0] = base /\ g[y] = x
    BY <2>2, <2>3, <2>4
  <2>6. ASSUME NEW k \in 1 .. y
        PROVE  g[k] = step[<<k, g[k - 1]>>]
    <3>1. g[k - 1] = f[k - 1]
      BY <2>3, <2>6
    <3>2. CASE k = y
      BY <2>3, <2>5, <3>1, <3>2 DEF x
    <3>3. CASE k # y
      <4>1. k \in 1 .. j /\ k \in 0 .. y
        BY <2>3, <2>6, <3>3
      <4>2. g[k] = f[k]
        BY <3>3, <4>1
      <4>3. f[k] = step[<<k, f[k - 1]>>]
        BY <2>2, <4>1
      <4> HIDE DEF g
      <4>4. QED
        BY <3>1, <4>2, <4>3
    <3>4. QED
      BY <3>2, <3>3
  <2> HIDE DEF g
  <2>7. Solves(g, y)
    BY <2>5, <2>6
  <2>8. QED
    BY <2>7
<1>3. \A j \in Nat : j \in Solved
  <2> HIDE DEF Solved
  <2> QED BY <1>1, <1>2, SetInduction
<1>4. PICK f : Solves(f, n)
  BY <1>3
<1>5. QED
  BY <1>4 DEF Follows

Alike(f, g, n) ==
  f[0] = g[0] /\ \A k \in 1 .. n : f[k - 1] = g[k - 1] => f[k] = g[k]

LEMMA StepsUnique ==
  ASSUME NEW n \in Nat, NEW f, NEW g, Alike(f, g, n)
  PROVE  f[n] = g[n]
<1> DEFINE Same == {k \in Nat : k <= n => f[k] = g[k]}
<1>1. 0 \in Same
  BY DEF Alike
<1>2. ASSUME NEW k \in Nat, k \in Same PROVE k + 1 \in Same
  <2>1. k + 1 <= n => k + 1 \in 1 .. n /\ (k + 1) - 1 = k /\ k <= n
    OBVIOUS
  <2>2. QED
    BY <1>2, <2>1 DEF Alike
<1>3. \A k \in Nat : k \in Same
  <2> HIDE DEF Same
  <2> QED BY <1>1, <1>2, SetInduction
<1>4. QED
  BY <1>3

-----------------------------------------------------------------------------
(* LogLine: the length of what is kept. *)

LEMMA LengthIs ==
  ASSUME NEW kept \in Seq(Log!Piece)
  PROVE  \E f \in [0 .. Len(kept) -> Nat] :
           /\ f[0] = 0 /\ \A k \in 1 .. Len(kept) : f[k] = f[k - 1] + kept[k].len
           /\ Log!length(kept) = f[Len(kept)]
<1> DEFINE n    == Len(kept)
           sum  == CHOOSE f : f = [i \in 0 .. n |-> IF i = 0 THEN 0 ELSE f[i - 1] + kept[i].len]
           step == [q \in (1 .. n) \X Nat |-> q[2] + kept[q[1]].len]
<1>1. Log!length(kept) = sum[n]
  BY DEF Log!length
<1>2. n \in Nat /\ \A k \in 1 .. n : kept[k].len \in Nat
  <2>1. n \in Nat /\ \A k \in 1 .. n : kept[k] \in Log!Piece
    OBVIOUS
  <2>2. \A q \in Log!Piece : q.len \in Nat
    BY DEF Log!Piece
  <2>3. QED
    BY <2>1, <2>2
<1> HIDE DEF n
<1>3. /\ step \in [(1 .. n) \X Nat -> Nat]
      /\ \A k \in 1 .. n, x \in Nat : step[<<k, x>>] = x + kept[k].len
  BY <1>2
<1> HIDE DEF step
<1>4. PICK f \in [0 .. n -> Nat] : Follows(f, 0, step, n)
  <2>1. 0 \in Nat /\ n \in Nat /\ step \in [(1 .. n) \X Nat -> Nat]
    BY <1>2, <1>3
  <2>2. QED
    BY ONLY <2>1, StepsExist
<1>5. ASSUME NEW k \in 1 .. n
      PROVE  f[k] = f[k - 1] + kept[k].len
  <2>1. k - 1 \in 0 .. n
    BY <1>2
  <2>2. f[k - 1] \in Nat
    BY <2>1
  <2>3. QED
    BY <1>3, <1>4, <2>2 DEF Follows
<1>6. f = [i \in 0 .. n |-> IF i = 0 THEN 0 ELSE f[i - 1] + kept[i].len]
  <2>1. \A i \in 0 .. n : f[i] = IF i = 0 THEN 0 ELSE f[i - 1] + kept[i].len
    BY <1>2, <1>4, <1>5 DEF Follows
  <2>2. QED
    BY <2>1
<1>7. sum = [i \in 0 .. n |-> IF i = 0 THEN 0 ELSE sum[i - 1] + kept[i].len]
  BY <1>6
<1> HIDE DEF sum
<1>8. sum[0] = 0 /\ \A k \in 1 .. n : sum[k] = sum[k - 1] + kept[k].len
  BY <1>2, <1>7
<1>9. sum[n] = f[n]
  <2>1. n \in Nat /\ Alike(sum, f, n)
    BY <1>2, <1>4, <1>5, <1>8 DEF Follows, Alike
  <2>2. QED
    BY ONLY <2>1, StepsUnique
<1>10. Log!length(kept) = f[n]
  BY <1>1, <1>9
<1>11. QED
  BY <1>4, <1>5, <1>10 DEF n, Follows

LEMMA LengthGrows ==
  ASSUME NEW kept \in Seq(Log!Piece), NEW p \in Log!Piece
  PROVE  /\ Log!length(kept) \in Nat /\ p.len \in Nat
         /\ Log!length(Append(kept, p)) = Log!length(kept) + p.len
<1> DEFINE n    == Len(kept)
           more == Append(kept, p)
<1>1. /\ more \in Seq(Log!Piece) /\ Len(more) = n + 1 /\ n \in Nat
      /\ \A k \in 1 .. n : more[k] = kept[k]
      /\ more[n + 1] = p /\ p.len \in Nat
  BY DEF Log!Piece
<1> HIDE DEF more
<1>2. PICK f \in [0 .. n -> Nat] :
        /\ f[0] = 0 /\ \A k \in 1 .. n : f[k] = f[k - 1] + kept[k].len
        /\ Log!length(kept) = f[n]
  BY LengthIs
<1>3. PICK g \in [0 .. n + 1 -> Nat] :
        /\ g[0] = 0 /\ \A k \in 1 .. n + 1 : g[k] = g[k - 1] + more[k].len
        /\ Log!length(more) = g[n + 1]
  BY <1>1, LengthIs
<1> HIDE DEF n
<1>4. \A k \in 1 .. n : f[k - 1] = g[k - 1] => f[k] = g[k]
  <2>1. ASSUME NEW k \in 1 .. n, f[k - 1] = g[k - 1]
        PROVE  f[k] = g[k]
    <3>1. k \in 1 .. n + 1 /\ more[k] = kept[k]
      BY <1>1
    <3>2. QED
      BY <1>2, <1>3, <2>1, <3>1
  <2>2. QED
    BY <2>1
<1>5. f[n] = g[n]
  <2>1. n \in Nat /\ Alike(f, g, n)
    BY <1>1, <1>2, <1>3, <1>4 DEF Alike
  <2>2. QED
    BY ONLY <2>1, StepsUnique
<1>6. g[n + 1] = g[n] + p.len
  <2>1. n + 1 \in 1 .. n + 1 /\ (n + 1) - 1 = n
    BY <1>1
  <2>2. QED
    BY <1>1, <1>3, <2>1
<1>7. f[n] \in Nat
  BY <1>1, <1>2
<1>8. QED
  BY <1>1, <1>2, <1>3, <1>5, <1>6, <1>7 DEF more

LEMMA LengthEmpty == Log!length(<< >>) = 0
<1>1. << >> \in Seq(Log!Piece) /\ Len(<< >>) = 0
  OBVIOUS
<1>2. QED
  BY <1>1, LengthIs

-----------------------------------------------------------------------------
(* LogLine: the digits of a number, read from the left. *)

Decimal(digits) ==
  LET value[j \in 0 .. Len(digits)] == IF j = 0 THEN 0 ELSE value[j - 1] * 10 + digits[j]
  IN  value[Len(digits)]

LEMMA DecimalIs ==
  ASSUME NEW digits \in Seq(Log!Digit)
  PROVE  \E f \in [0 .. Len(digits) -> Nat] :
           /\ f[0] = 0 /\ \A k \in 1 .. Len(digits) : f[k] = f[k - 1] * 10 + digits[k]
           /\ Decimal(digits) = f[Len(digits)]
<1> DEFINE n     == Len(digits)
           value == CHOOSE f : f = [i \in 0 .. n |-> IF i = 0 THEN 0 ELSE f[i - 1] * 10 + digits[i]]
           step  == [q \in (1 .. n) \X Nat |-> q[2] * 10 + digits[q[1]]]
<1>1. Decimal(digits) = value[n]
  BY DEF Decimal
<1>2. n \in Nat /\ \A k \in 1 .. n : digits[k] \in Nat
  BY DEF Log!Digit
<1> HIDE DEF n
<1>3. /\ step \in [(1 .. n) \X Nat -> Nat]
      /\ \A k \in 1 .. n, x \in Nat : step[<<k, x>>] = x * 10 + digits[k]
  <2>1. \A k \in 1 .. n, x \in Nat : x * 10 + digits[k] \in Nat
    BY <1>2
  <2>2. \A q \in (1 .. n) \X Nat : q[1] \in 1 .. n /\ q[2] \in Nat
    OBVIOUS
  <2>3. \A k \in 1 .. n, x \in Nat : <<k, x>> \in (1 .. n) \X Nat
    OBVIOUS
  <2>4. step \in [(1 .. n) \X Nat -> Nat]
    BY <2>1, <2>2
  <2>5. QED
    BY <2>3, <2>4
<1> HIDE DEF step
<1>4. PICK f \in [0 .. n -> Nat] : Follows(f, 0, step, n)
  <2>1. 0 \in Nat /\ n \in Nat /\ step \in [(1 .. n) \X Nat -> Nat]
    BY <1>2, <1>3
  <2>2. QED
    BY ONLY <2>1, StepsExist
<1>5. ASSUME NEW k \in 1 .. n
      PROVE  f[k] = f[k - 1] * 10 + digits[k]
  <2>1. k - 1 \in 0 .. n
    BY <1>2
  <2>2. f[k - 1] \in Nat
    BY <2>1
  <2>3. QED
    BY <1>3, <1>4, <2>2 DEF Follows
<1>6. f = [i \in 0 .. n |-> IF i = 0 THEN 0 ELSE f[i - 1] * 10 + digits[i]]
  <2>1. \A i \in 0 .. n : f[i] = IF i = 0 THEN 0 ELSE f[i - 1] * 10 + digits[i]
    BY <1>2, <1>4, <1>5 DEF Follows
  <2>2. QED
    BY <2>1
<1>7. value = [i \in 0 .. n |-> IF i = 0 THEN 0 ELSE value[i - 1] * 10 + digits[i]]
  BY <1>6
<1> HIDE DEF value
<1>8. value[0] = 0 /\ \A k \in 1 .. n : value[k] = value[k - 1] * 10 + digits[k]
  BY <1>2, <1>7
<1>9. value[n] = f[n]
  <2>1. n \in Nat /\ Alike(value, f, n)
    BY <1>2, <1>4, <1>5, <1>8 DEF Follows, Alike
  <2>2. QED
    BY ONLY <2>1, StepsUnique
<1>10. QED
  BY <1>1, <1>4, <1>5, <1>9 DEF n, Follows

LEMMA DecimalGrows ==
  ASSUME NEW digits \in Seq(Log!Digit), NEW d \in Log!Digit
  PROVE  /\ Decimal(digits) \in Nat /\ d \in Nat
         /\ Decimal(Append(digits, d)) = Decimal(digits) * 10 + d
<1> DEFINE n    == Len(digits)
           more == Append(digits, d)
<1>1. /\ more \in Seq(Log!Digit) /\ Len(more) = n + 1 /\ n \in Nat
      /\ \A k \in 1 .. n : more[k] = digits[k]
      /\ more[n + 1] = d /\ d \in Nat
  BY DEF Log!Digit
<1> HIDE DEF more
<1>2. PICK f \in [0 .. n -> Nat] :
        /\ f[0] = 0 /\ \A k \in 1 .. n : f[k] = f[k - 1] * 10 + digits[k]
        /\ Decimal(digits) = f[n]
  BY DecimalIs
<1>3. PICK g \in [0 .. n + 1 -> Nat] :
        /\ g[0] = 0 /\ \A k \in 1 .. n + 1 : g[k] = g[k - 1] * 10 + more[k]
        /\ Decimal(more) = g[n + 1]
  BY <1>1, DecimalIs
<1> HIDE DEF n
<1>4. \A k \in 1 .. n : f[k - 1] = g[k - 1] => f[k] = g[k]
  <2>1. ASSUME NEW k \in 1 .. n, f[k - 1] = g[k - 1]
        PROVE  f[k] = g[k]
    <3>1. k \in 1 .. n + 1 /\ more[k] = digits[k]
      BY <1>1
    <3>2. QED
      BY <1>2, <1>3, <2>1, <3>1
  <2>2. QED
    BY <2>1
<1>5. f[n] = g[n]
  <2>1. n \in Nat /\ Alike(f, g, n)
    BY <1>1, <1>2, <1>3, <1>4 DEF Alike
  <2>2. QED
    BY ONLY <2>1, StepsUnique
<1>6. g[n + 1] = g[n] * 10 + d
  <2>1. n + 1 \in 1 .. n + 1 /\ (n + 1) - 1 = n
    BY <1>1
  <2>2. QED
    BY <1>1, <1>3, <2>1
<1>7. f[n] \in Nat
  BY <1>1, <1>2
<1>8. QED
  BY <1>1, <1>2, <1>3, <1>5, <1>6, <1>7 DEF more

LEMMA DecimalOne ==
  ASSUME NEW d \in Log!Digit
  PROVE  Decimal(<<d>>) = d
<1>1. << >> \in Seq(Log!Digit) /\ Append(<< >>, d) = <<d>>
  OBVIOUS
<1>2. Decimal(<< >>) = 0
  <2>1. Len(<< >>) = 0
    OBVIOUS
  <2>2. QED
    BY <1>1, <2>1, DecimalIs
<1>3. Decimal(<<d>>) = Decimal(<< >>) * 10 + d /\ d \in Nat
  BY <1>1, DecimalGrows
<1>4. QED
  BY <1>2, <1>3

(* What a conversion puts out for i: its digits, none of them superfluous, *)
(* and no more than ten for an int.                                        *)
Converted(s, i) ==
  /\ s \in Seq(Log!Digit) /\ s # << >>
  /\ Decimal(s) = i
  /\ s[1] = 0 => i = 0 /\ s = <<0>>
  /\ i < 10 => Len(s) = 1
  /\ i < 100 => Len(s) <= 2
  /\ i < 1000 => Len(s) <= 3
  /\ i < 10 * 1000 => Len(s) <= 4
  /\ i < 100 * 1000 => Len(s) <= 5
  /\ i < 1000 * 1000 => Len(s) <= 6
  /\ i < 10 * 1000 * 1000 => Len(s) <= 7
  /\ i < 100 * 1000 * 1000 => Len(s) <= 8
  /\ i < 1000 * 1000 * 1000 => Len(s) <= 9
  /\ i < 10 * 1000 * 1000 * 1000 => Len(s) <= 10

ConvThen(f, i) == IF i < 10 THEN <<i>> ELSE Append(f[i \div 10], i % 10)

LEMMA ConvertedThen ==
  ASSUME NEW f, NEW i \in Nat, i >= 10 => Converted(f[i \div 10], i \div 10)
  PROVE  Converted(ConvThen(f, i), i)
<1>1. CASE i < 10
  <2>1. /\ ConvThen(f, i) = <<i>> /\ i \in Log!Digit
        /\ <<i>> \in Seq(Log!Digit) /\ <<i>> # << >> /\ Len(<<i>>) = 1 /\ <<i>>[1] = i
    BY <1>1 DEF ConvThen, Log!Digit
  <2>2. Decimal(<<i>>) = i
    BY <2>1, DecimalOne
  <2>3. QED
    BY <1>1, <2>1, <2>2 DEF Converted
<1>2. CASE ~(i < 10)
  <2> DEFINE j == i \div 10
             d == i % 10
             s == f[j]
             t == Append(s, d)
  <2>1. Converted(s, j) /\ ConvThen(f, i) = t
    BY <1>2 DEF ConvThen
  <2>2. j \in Nat \ {0} /\ d \in Log!Digit /\ i = j * 10 + d
    BY <1>2 DEF Log!Digit
  <2>3. s \in Seq(Log!Digit) /\ s # << >> /\ Decimal(s) = j
    BY <2>1 DEF Converted
  <2> HIDE DEF j, d, s
  <2>4. t \in Seq(Log!Digit) /\ Len(t) = Len(s) + 1 /\ t # << >> /\ t[1] = s[1]
    BY <2>2, <2>3
  <2>5. Decimal(t) = i
    BY <2>2, <2>3, DecimalGrows
  <2>6. t[1] # 0
    BY <2>1, <2>2, <2>4 DEF Converted
  <2>7. Len(s) \in Nat /\ Len(t) \in Nat /\ j \in Nat
    BY <2>2, <2>3
  <2> HIDE DEF t
  <2>8. /\ i < 100 => Len(t) <= 2
        /\ i < 1000 => Len(t) <= 3
        /\ i < 10 * 1000 => Len(t) <= 4
        /\ i < 100 * 1000 => Len(t) <= 5
        /\ i < 1000 * 1000 => Len(t) <= 6
        /\ i < 10 * 1000 * 1000 => Len(t) <= 7
        /\ i < 100 * 1000 * 1000 => Len(t) <= 8
        /\ i < 1000 * 1000 * 1000 => Len(t) <= 9
        /\ i < 10 * 1000 * 1000 * 1000 => Len(t) <= 10
    <3>1. /\ i < 100 => j < 10
          /\ i < 1000 => j < 100
          /\ i < 10 * 1000 => j < 1000
          /\ i < 100 * 1000 => j < 10 * 1000
          /\ i < 1000 * 1000 => j < 100 * 1000
          /\ i < 10 * 1000 * 1000 => j < 1000 * 1000
          /\ i < 100 * 1000 * 1000 => j < 10 * 1000 * 1000
          /\ i < 1000 * 1000 * 1000 => j < 100 * 1000 * 1000
          /\ i < 10 * 1000 * 1000 * 1000 => j < 1000 * 1000 * 1000
      BY <2>2 DEF Log!Digit
    <3> DEFINE m == Len(s)
    <3>2. /\ j < 10 => m = 1
          /\ j < 100 => m <= 2
          /\ j < 1000 => m <= 3
          /\ j < 10 * 1000 => m <= 4
          /\ j < 100 * 1000 => m <= 5
          /\ j < 1000 * 1000 => m <= 6
          /\ j < 10 * 1000 * 1000 => m <= 7
          /\ j < 100 * 1000 * 1000 => m <= 8
          /\ j < 1000 * 1000 * 1000 => m <= 9
      BY <2>1 DEF Converted
    <3>3. m \in Nat /\ Len(t) = m + 1
      BY <2>4, <2>7
    <3> HIDE DEF m
    <3>4. QED
      BY <3>1, <3>2, <3>3
  <2>9. QED
    BY <1>2, <2>1, <2>4, <2>5, <2>6, <2>8 DEF Converted
<1>3. QED
  BY <1>1, <1>2

LEMMA ConvertIs ==
  ASSUME NEW v \in Int
  PROVE  Log!Abs(v) \in Nat /\ Converted(Log!convert(v), Log!Abs(v))
<1> DEFINE n    == Log!Abs(v)
           conv == CHOOSE f : f = [i \in 0 .. n |-> ConvThen(f, i)]
           Solves(f, k) == /\ f = [i \in 0 .. k |-> ConvThen(f, i)]
                           /\ \A i \in 0 .. k : Converted(f[i], i)
           Solved == {k \in Nat : \E f : Solves(f, k)}
<1>1. n \in Nat
  BY DEF Log!Abs
<1>2. Log!convert(v) = conv[n]
  BY DEF Log!convert, ConvThen
<1>3. 0 \in Solved
  <2> DEFINE f == [i \in 0 .. 0 |-> <<i>>]
  <2>1. f = [i \in 0 .. 0 |-> ConvThen(f, i)]
    BY DEF ConvThen
  <2>2. Converted(ConvThen(f, 0), 0)
    BY ConvertedThen
  <2> HIDE DEF f
  <2>3. Solves(f, 0)
    BY <2>1, <2>2
  <2>4. QED
    BY <2>3
<1>4. ASSUME NEW k \in Nat, k \in Solved
      PROVE  k + 1 \in Solved
  <2>1. PICK f : Solves(f, k)
    BY <1>4
  <2> DEFINE h == [i \in 0 .. k + 1 |-> ConvThen(f, i)]
  <2>2. ASSUME NEW i \in 0 .. k + 1, i >= 10
        PROVE  i \div 10 \in 0 .. k /\ i \div 10 \in 0 .. k + 1
    BY <2>2
  <2>3. ASSUME NEW i \in 0 .. k + 1
        PROVE  ConvThen(h, i) = ConvThen(f, i) /\ Converted(ConvThen(f, i), i)
    <3>1. CASE i >= 10
      <4>1. i \div 10 \in 0 .. k /\ i \div 10 \in 0 .. k + 1 /\ i \in Nat
        BY <2>2, <3>1
      <4> DEFINE j == i \div 10
      <4> HIDE DEF j
      <4>2. j \in 0 .. k /\ j \in 0 .. k + 1
        BY <4>1 DEF j
      <4>3. f[j] = ConvThen(f, j) /\ Converted(f[j], j) /\ h[j] = ConvThen(f, j)
        BY <2>1, <4>2
      <4> HIDE DEF h
      <4>4. h[j] = f[j]
        BY <4>3
      <4>5. ConvThen(h, i) = ConvThen(f, i)
        BY <4>4 DEF ConvThen, j
      <4>6. Converted(ConvThen(f, i), i)
        BY <4>1, <4>3, ConvertedThen DEF j
      <4>7. QED
        BY <4>5, <4>6
    <3>2. CASE ~(i >= 10)
      <4>1. i \in Nat /\ i < 10
        BY <3>2
      <4>2. Converted(ConvThen(f, i), i)
        BY <3>2, <4>1, ConvertedThen
      <4>3. QED
        BY <4>1, <4>2 DEF ConvThen
    <3>3. QED
      BY <3>1, <3>2
  <2>4. /\ h = [i \in 0 .. k + 1 |-> ConvThen(h, i)]
        /\ \A i \in 0 .. k + 1 : Converted(h[i], i)
    BY <2>3
  <2> HIDE DEF h
  <2>5. Solves(h, k + 1)
    BY <2>4
  <2>6. QED
    BY <2>5
<1>5. \A k \in Nat : k \in Solved
  <2> HIDE DEF Solved
  <2> QED BY <1>3, <1>4, SetInduction
<1> HIDE DEF n
<1>6. PICK f : Solves(f, n)
  BY <1>1, <1>5
<1>7. conv = [i \in 0 .. n |-> ConvThen(conv, i)]
  BY <1>6
<1> HIDE DEF conv
<1> DEFINE Good == {k \in Nat : \A i \in 0 .. n : i <= k => Converted(conv[i], i)}
<1>8. ASSUME NEW i \in 0 .. n, \A j \in 0 .. n : j < i => Converted(conv[j], j)
      PROVE  Converted(conv[i], i)
  <2>1. conv[i] = ConvThen(conv, i) /\ i \in Nat
    BY <1>1, <1>7
  <2>2. i >= 10 => i \div 10 \in 0 .. n /\ i \div 10 < i
    BY <1>1
  <2>3. i >= 10 => Converted(conv[i \div 10], i \div 10)
    BY <1>8, <2>2
  <2>4. QED
    BY <2>1, <2>3, ConvertedThen
<1>9. 0 \in Good
  <2>1. \A i \in 0 .. n : i <= 0 => (\A j \in 0 .. n : ~(j < i))
    OBVIOUS
  <2>2. QED
    BY <1>8, <2>1
<1>10. ASSUME NEW k \in Nat, k \in Good PROVE k + 1 \in Good
  <2>1. \A i \in 0 .. n : i <= k + 1 => \A j \in 0 .. n : j < i => j <= k
    OBVIOUS
  <2>2. ASSUME NEW i \in 0 .. n, i <= k + 1 PROVE Converted(conv[i], i)
    BY <1>8, <1>10, <2>1, <2>2
  <2>3. QED
    BY <2>2
<1>11. \A k \in Nat : k \in Good
  <2> HIDE DEF Good
  <2> QED BY <1>9, <1>10, SetInduction
<1>12. Converted(conv[n], n)
  BY <1>1, <1>11
<1>13. QED
  BY <1>1, <1>2, <1>12 DEF n

-----------------------------------------------------------------------------
(* LogLine: what is put into the buffer. *)

(* Of an integer the digits of its absolute value are printed.             *)
Told(p) ==
  p.what = "int" => /\ Decimal(p.digits) = Log!Abs(p.value)
                    /\ p.digits # << >> /\ (p.digits[1] = 0 => p.digits = <<0>>)

(* A number is shorter than the room it is given.                          *)
Short(p) == p.what \in {"int", "double"} => p.len < kMaxNumericSize

Pieces == {p \in Log!Piece : Told(p) /\ Short(p)}

LEMMA TextPiece ==
  ASSUME NEW len \in Nat
  PROVE  Log!Text(len) \in Pieces
BY DEF Log!Text, Log!Piece, Pieces, Told, Short

LEMMA NewlinePiece == Log!Newline \in Pieces /\ Log!Newline.what = "newline" /\ Log!Newline.len = 1
BY DEF Log!Newline, Log!Piece, Pieces, Told, Short

LEMMA DoublePiece ==
  ASSUME NEW len \in Doubles
  PROVE  Log!Double(len) \in Pieces
<1>1. len \in Nat /\ len < kMaxNumericSize
  BY LineAssumption
<1>2. QED
  BY <1>1 DEF Log!Double, Log!Piece, Pieces, Told, Short

LEMMA IntegerPiece ==
  ASSUME NEW v \in Ints \cup {Line}
  PROVE  Log!Integer(v) \in Pieces
<1> DEFINE s == Log!convert(v)
           n == Log!Abs(v)
           l == Len(s)
<1>1. v \in Int /\ n < 10 * 1000 * 1000 * 1000
  BY IntAssumption DEF Log!Abs
<1>2. n \in Nat /\ Converted(s, n)
  BY <1>1, ConvertIs
<1>3. s \in Seq(Log!Digit) /\ Decimal(s) = n /\ s # << >> /\ (s[1] = 0 => s = <<0>>) /\ l <= 10
  BY <1>1, <1>2 DEF Converted
<1>4. l \in Nat /\ l < kMaxNumericSize
  <2>1. kMaxNumericSize \in Nat /\ kMaxNumericSize > 10
    BY LineAssumption
  <2>2. l \in Nat
    BY <1>3
  <2>3. QED
    BY <1>3, <2>1, <2>2
<1>5. Log!Integer(v) = [what |-> "int", len |-> l, value |-> v, digits |-> s] /\ n = Log!Abs(v)
  BY DEF Log!Integer
<1> HIDE DEF s, l, n
<1>6. Log!Integer(v) \in Log!Piece
  BY <1>1, <1>3, <1>4, <1>5 DEF Log!Piece
<1>7. Told(Log!Integer(v))
  BY <1>3, <1>5 DEF Told
<1>8. Short(Log!Integer(v))
  BY <1>4, <1>5 DEF Short
<1>9. QED
  BY <1>6, <1>7, <1>8 DEF Pieces

(* What holds of a line whatever is put into it.                           *)
LineKept(l) ==
  /\ l \in Log!Type
  /\ Log!length(l.kept) < Size
  /\ Log!length(l.offered) + kMaxNumericSize <= Size => l.kept = l.offered
  /\ \A i \in DOMAIN l.kept : Told(l.kept[i])

LEMMA PutKeeps ==
  ASSUME NEW l, LineKept(l), NEW p \in Pieces
  PROVE  /\ LineKept(Log!Put(l, p)) /\ Log!Put(l, p).phase = l.phase
         /\ Log!Put(l, p).kept = IF Log!Fits(l.kept, p) THEN Append(l.kept, p) ELSE l.kept
<1> DEFINE kept    == l.kept
           offered == l.offered
           fits    == Log!Fits(kept, p)
           more    == Append(offered, p)
           next    == IF fits THEN Append(kept, p) ELSE kept
           m       == Log!Put(l, p)
<1>1. /\ l \in Log!Type /\ p \in Log!Piece /\ Told(p) /\ Short(p)
      /\ kept \in Seq(Log!Piece) /\ offered \in Seq(Log!Piece)
      /\ l.phase \in {"none", "open", "printed"}
  BY DEF LineKept, Log!Type, Pieces
<1>2. m = [l EXCEPT !.offered = more, !.kept = next]
  BY DEF Log!Put
<1>3. more \in Seq(Log!Piece) /\ next \in Seq(Log!Piece)
  BY <1>1
<1>4. /\ Log!length(kept) \in Nat /\ Log!length(offered) \in Nat /\ p.len \in Nat
      /\ Log!length(more) = Log!length(offered) + p.len
      /\ Log!length(Append(kept, p)) = Log!length(kept) + p.len
  BY <1>1, LengthGrows
<1>5. /\ Log!length(kept) < Size
      /\ Log!length(offered) + kMaxNumericSize <= Size => kept = offered
      /\ \A i \in DOMAIN kept : Told(kept[i])
  BY DEF LineKept
<1>6. /\ p.what \in {"int", "double"} =>
           p.len < kMaxNumericSize /\ (fits <=> Size - Log!length(kept) >= kMaxNumericSize)
      /\ p.what \notin {"int", "double"} => (fits <=> Size - Log!length(kept) > p.len)
  BY <1>1 DEF Log!Fits, Log!avail, Short
<1>7. Size \in Nat /\ kMaxNumericSize \in Nat /\ kMaxNumericSize > 10
  BY LineAssumption
<1>8. \A i \in DOMAIN next : Told(next[i])
  <2>1. CASE fits
    <3> DEFINE longer == Append(kept, p)
    <3>1. DOMAIN longer = 1 .. Len(kept) + 1 /\ Len(kept) \in Nat /\ DOMAIN kept = 1 .. Len(kept)
      BY <1>1
    <3>2. longer[Len(kept) + 1] = p /\ \A i \in 1 .. Len(kept) : longer[i] = kept[i]
      BY <1>1
    <3>3. next = longer
      BY <2>1
    <3> HIDE DEF longer, next, kept
    <3>4. QED
      BY <1>1, <1>5, <3>1, <3>2, <3>3
  <2>2. CASE ~fits
    BY <1>5, <2>2
  <2>3. QED
    BY <2>1, <2>2
<1>9. Log!length(next) < Size
  <2> HIDE DEF fits
  <2>1. QED
    BY <1>4, <1>5, <1>6, <1>7
<1>10. Log!length(more) + kMaxNumericSize <= Size => next = more
  <2>1. kept = offered /\ fits => next = more
    OBVIOUS
  <2> HIDE DEF fits, next, more
  <2> DEFINE held == Log!length(kept)
             said == Log!length(offered)
             all  == Log!length(more)
  <2>2. held \in Nat /\ said \in Nat /\ p.len \in Nat /\ all = said + p.len
    BY <1>4
  <2>3. said + kMaxNumericSize <= Size => kept = offered /\ held = said
    BY <1>5
  <2>4. \/ p.len < kMaxNumericSize /\ (fits <=> Size - held >= kMaxNumericSize)
        \/ fits <=> Size - held > p.len
    BY <1>6
  <2> HIDE DEF held, said, all
  <2>5. ASSUME all + kMaxNumericSize <= Size PROVE kept = offered /\ fits
    BY <1>7, <2>2, <2>3, <2>4, <2>5
  <2>6. QED
    BY <2>1, <2>5 DEF all
<1> HIDE DEF more, next, m
<1>11. m \in Log!Type /\ m.kept = next /\ m.offered = more /\ m.phase = l.phase
  BY <1>1, <1>2, <1>3 DEF Log!Type
<1>12. LineKept(m)
  BY <1>8, <1>9, <1>10, <1>11 DEF LineKept
<1>13. QED
  BY <1>11, <1>12 DEF m, next, fits

Lines(phase) == {l \in Log!Type : LineKept(l) /\ l.phase = phase}

(* PutAll() puts one piece after the other.                                *)
LEMMA PutAllIs ==
  ASSUME NEW phase, NEW l \in Lines(phase), NEW pieces \in Seq(Pieces)
  PROVE  \E f \in [0 .. Len(pieces) -> Lines(phase)] :
           /\ f[0] = l /\ \A k \in 1 .. Len(pieces) : f[k] = Log!Put(f[k - 1], pieces[k])
           /\ Log!PutAll(l, pieces) = f[Len(pieces)]
<1> DEFINE n    == Len(pieces)
           put  == CHOOSE f : f = [i \in 0 .. n |-> IF i = 0 THEN l ELSE Log!Put(f[i - 1], pieces[i])]
           step == [q \in (1 .. n) \X Lines(phase) |-> Log!Put(q[2], pieces[q[1]])]
<1>1. Log!PutAll(l, pieces) = put[n]
  BY DEF Log!PutAll
<1>2. n \in Nat /\ \A k \in 1 .. n : pieces[k] \in Pieces
  OBVIOUS
<1> HIDE DEF n
<1>3. \A x \in Lines(phase), p \in Pieces : Log!Put(x, p) \in Lines(phase)
  BY PutKeeps DEF Lines, LineKept
<1>4. /\ step \in [(1 .. n) \X Lines(phase) -> Lines(phase)]
      /\ \A k \in 1 .. n, x \in Lines(phase) : step[<<k, x>>] = Log!Put(x, pieces[k])
  BY <1>2, <1>3
<1> HIDE DEF step
<1>5. PICK f \in [0 .. n -> Lines(phase)] : Follows(f, l, step, n)
  BY <1>2, <1>4, StepsExist
<1>6. ASSUME NEW k \in 1 .. n
      PROVE  f[k] = Log!Put(f[k - 1], pieces[k])
  <2>1. k - 1 \in 0 .. n
    BY <1>2
  <2>2. f[k - 1] \in Lines(phase)
    BY <2>1
  <2>3. QED
    BY <1>4, <1>5, <2>2 DEF Follows
<1>7. f = [i \in 0 .. n |-> IF i = 0 THEN l ELSE Log!Put(f[i - 1], pieces[i])]
  <2>1. \A i \in 0 .. n : f[i] = IF i = 0 THEN l ELSE Log!Put(f[i - 1], pieces[i])
    BY <1>2, <1>5, <1>6 DEF Follows
  <2>2. QED
    BY <2>1
<1>8. put = [i \in 0 .. n |-> IF i = 0 THEN l ELSE Log!Put(put[i - 1], pieces[i])]
  BY <1>7
<1> HIDE DEF put
<1>9. put[0] = l /\ \A k \in 1 .. n : put[k] = Log!Put(put[k - 1], pieces[k])
  BY <1>2, <1>8
<1>10. put[n] = f[n]
  <2>1. n \in Nat /\ Alike(put, f, n)
    BY <1>2, <1>5, <1>6, <1>9 DEF Follows, Alike
  <2>2. QED
    BY ONLY <2>1, StepsUnique
<1>11. QED
  BY <1>1, <1>5, <1>6, <1>10 DEF n, Follows

LEMMA PutAllKeeps ==
  ASSUME NEW phase, NEW l \in Lines(phase), NEW pieces \in Seq(Pieces)
  PROVE  /\ Log!PutAll(l, pieces) \in Lines(phase)
         /\ pieces # << >> =>
              \E x \in Lines(phase) : Log!PutAll(l, pieces) = Log!Put(x, pieces[Len(pieces)])
<1> DEFINE n == Len(pieces)
<1>1. PICK f \in [0 .. n -> Lines(phase)] :
        /\ f[0] = l /\ \A k \in 1 .. n : f[k] = Log!Put(f[k - 1], pieces[k])
        /\ Log!PutAll(l, pieces) = f[n]
  BY PutAllIs
<1>2. n \in Nat /\ n \in 0 .. n /\ (pieces # << >> => n \in 1 .. n /\ n - 1 \in 0 .. n)
  OBVIOUS
<1> HIDE DEF n
<1>3. f[n] \in Lines(phase)
  BY <1>1, <1>2
<1>4. ASSUME pieces # << >> PROVE f[n - 1] \in Lines(phase) /\ f[n] = Log!Put(f[n - 1], pieces[n])
  BY <1>1, <1>2, <1>4
<1>5. QED
  BY <1>1, <1>3, <1>4 DEF n

(* Every set of numbers up to some number has a largest.                   *)
LEMMA MaxExists ==
  ASSUME NEW n \in Nat, NEW S \in SUBSET (0 .. n), S # {}
  PROVE  \E m \in S : \A k \in S : m >= k
<1> DEFINE Has == {j \in Nat : \A R \in SUBSET (0 .. j) : R # {} => \E m \in R : \A k \in R : m >= k}
<1>1. 0 \in Has
  <2>1. ASSUME NEW R \in SUBSET (0 .. 0), R # {} PROVE \E m \in R : \A k \in R : m >= k
    <3>1. PICK m \in R : TRUE
      BY <2>1
    <3>2. m = 0 /\ \A k \in R : k = 0
      BY <2>1, <3>1
    <3>3. m \in R /\ \A k \in R : m >= k
      BY <3>1, <3>2
    <3>4. QED
      BY <3>3
  <2>2. QED
    BY <2>1
<1>2. ASSUME NEW j \in Nat, j \in Has PROVE j + 1 \in Has
  <2>1. ASSUME NEW R \in SUBSET (0 .. j + 1), R # {}
        PROVE  \E m \in R : \A k \in R : m >= k
    <3>1. CASE j + 1 \in R
      BY <2>1, <3>1
    <3>2. CASE j + 1 \notin R
      <4>1. R \in SUBSET (0 .. j)
        BY <2>1, <3>2
      <4>2. QED
        BY <1>2, <2>1, <4>1
    <3>3. QED
      BY <3>1, <3>2
  <2>2. QED
    BY <2>1
<1>3. \A j \in Nat : j \in Has
  <2> HIDE DEF Has
  <2> QED BY <1>1, <1>2, SetInduction
<1>4. QED
  BY <1>3

LEMMA BasenameNat == Log!basename \in Nat
<1> DEFINE S == Slashes \cup {0}
<1>1. S \in SUBSET (0 .. PathLen) /\ S # {} /\ PathLen \in Nat
  <2>1. PathLen \in Nat /\ Slashes \subseteq 1 .. PathLen
    BY LineAssumption
  <2>2. QED
    BY <2>1
<1> HIDE DEF S
<1>2. \E m \in S : \A k \in S : m >= k
  BY <1>1, MaxExists
<1>3. Log!Max(S) \in S
  BY <1>2 DEF Log!Max
<1>4. QED
  BY <1>1, <1>3 DEF Log!basename, S

-----------------------------------------------------------------------------
(* LogLine: the invariant. *)

Ends(kept) ==
  (kept # << >> /\ kept[Len(kept)].what = "newline") \/ Log!length(kept) = Size - 1

LogSound == LineKept(state) /\ (state.phase = "printed" => Ends(state.kept))

LEMMA LogInit ==
  ASSUME Log!Init
  PROVE  LogSound
<1>1. state \in Log!Type /\ state.phase = "none" /\ state.kept = << >> /\ state.offered = << >>
  BY DEF Log!Init, Log!Type
<1>2. Log!length(<< >>) < Size
  <2>1. Size \in Nat \ {0}
    BY LineAssumption
  <2>2. QED
    BY <2>1, LengthEmpty
<1>3. QED
  BY <1>1, <1>2 DEF LogSound, LineKept

LEMMA PhaseKeeps ==
  ASSUME NEW l, LineKept(l), NEW phase \in {"none", "open", "printed"}
  PROVE  [l EXCEPT !.phase = phase] \in Lines(phase)
<1> DEFINE m == [l EXCEPT !.phase = phase]
<1>1. m \in Log!Type /\ m.kept = l.kept /\ m.offered = l.offered /\ m.phase = phase
  BY DEF LineKept, Log!Type
<1> HIDE DEF m
<1>2. LineKept(m) /\ m \in Lines(phase)
  BY <1>1 DEF LineKept, Lines
<1>3. QED
  BY <1>2 DEF m

(* The last piece put is a newline.                                        *)
LEMMA NewlineEnds ==
  ASSUME NEW l, LineKept(l)
  PROVE  Ends(Log!Put(l, Log!Newline).kept)
<1> DEFINE p    == Log!Newline
           kept == l.kept
           next == Log!Put(l, p).kept
<1>1. p \in Pieces /\ p.what = "newline" /\ p.len = 1
  BY NewlinePiece
<1>2. next = IF Log!Fits(kept, p) THEN Append(kept, p) ELSE kept
  BY <1>1, PutKeeps
<1>3. Log!Fits(kept, p) <=> Size - Log!length(kept) > 1
  BY <1>1 DEF Log!Fits, Log!avail
<1>4. kept \in Seq(Log!Piece) /\ p \in Log!Piece
  BY <1>1 DEF LineKept, Log!Type, Pieces
<1>5. Log!length(kept) \in Nat
  BY <1>4, LengthGrows
<1>6. Log!length(kept) < Size /\ Size \in Nat
  BY LineAssumption DEF LineKept
<1> HIDE DEF p, kept, next
<1>7. CASE Log!Fits(kept, p)
  <2>1. next = Append(kept, p)
    BY <1>2, <1>7
  <2>2. next # << >> /\ next[Len(next)] = p
    BY <1>4, <2>1
  <2>3. QED
    BY <1>1, <2>2 DEF Ends, next, p
<1>8. CASE ~Log!Fits(kept, p)
  <2>1. next = kept
    BY <1>2, <1>8
  <2>2. Log!length(kept) = Size - 1
    BY <1>3, <1>5, <1>6, <1>8
  <2>3. QED
    BY <2>1, <2>2 DEF Ends, next, p
<1>9. QED
  BY <1>7, <1>8

LEMMA LogStatementKeeps ==
  ASSUME LogSound, Log!LogStatement
  PROVE  LogSound'
<1>1. PICK level \in DOMAIN Log!Level, time \in Log!formatTime :
        state' = Log!PutAll([state EXCEPT !.phase = "open"],
                   <<Log!Text(time), Log!Text(1), Log!Text(Log!LogLevelName[level])>>)
  BY DEF Log!LogStatement
<1> DEFINE named  == Log!LogLevelName[level]
           l      == [state EXCEPT !.phase = "open"]
           pieces == <<Log!Text(time), Log!Text(1), Log!Text(named)>>
<1>2. time \in Nat /\ 1 \in Nat /\ named \in Nat
  BY DEF Log!formatTime, Log!LogLevelName
<1> HIDE DEF named
<1>3. Log!Text(time) \in Pieces /\ Log!Text(1) \in Pieces /\ Log!Text(named) \in Pieces
  BY <1>2, TextPiece
<1>4. pieces \in Seq(Pieces)
  BY <1>3
<1>5. l \in Lines("open")
  BY PhaseKeeps DEF LogSound
<1> HIDE DEF l, pieces
<1>6. Log!PutAll(l, pieces) \in Lines("open")
  BY <1>4, <1>5, PutAllKeeps
<1>7. state' \in Lines("open")
  BY <1>1, <1>6 DEF l, pieces, named
<1>8. QED
  BY <1>7 DEF LogSound, Lines

LEMMA LogPieceKeeps ==
  ASSUME LogSound, Log!LogPiece
  PROVE  LogSound'
<1>1. LineKept(state) /\ state.phase = "open"
  BY DEF LogSound, Log!LogPiece
<1>2. \E p \in Pieces : state' = Log!Put(state, p)
  <2>1. CASE \E len \in StrLens \cup {6} : state' = Log!Put(state, Log!Text(len))
    <3>1. PICK len \in StrLens \cup {6} : state' = Log!Put(state, Log!Text(len))
      BY <2>1
    <3>2. len \in Nat
      BY LineAssumption
    <3>3. Log!Text(len) \in Pieces
      BY <3>2, TextPiece
    <3>4. QED
      BY <3>1, <3>3
  <2>2. CASE \E v \in Ints : state' = Log!Put(state, Log!Integer(v))
    BY <2>2, IntegerPiece
  <2>3. CASE \E len \in Doubles : state' = Log!Put(state, Log!Double(len))
    BY <2>3, DoublePiece
  <2>4. QED
    BY <2>1, <2>2, <2>3 DEF Log!LogPiece
<1>3. PICK p \in Pieces : state' = Log!Put(state, p)
  BY <1>2
<1>4. LineKept(Log!Put(state, p)) /\ Log!Put(state, p).phase = "open"
  BY <1>1, PutKeeps
<1>5. QED
  BY <1>3, <1>4 DEF LogSound

LEMMA LogEndKeeps ==
  ASSUME LogSound, Log!LogEnd
  PROVE  LogSound'
<1> DEFINE l      == [state EXCEPT !.phase = "printed"]
           pieces == Log!Place
<1>1. state' = Log!PutAll(l, pieces)
  BY DEF Log!LogEnd
<1>2. /\ Log!Text(3) \in Pieces /\ Log!Text(Log!basename) \in Pieces
      /\ Log!Text(1) \in Pieces /\ Log!Integer(Line) \in Pieces
      /\ Log!Newline \in Pieces
  BY TextPiece, BasenameNat, IntegerPiece, NewlinePiece
<1>3. /\ pieces \in Seq(Pieces) /\ pieces # << >>
      /\ pieces[Len(pieces)] = Log!Newline
  BY <1>2 DEF Log!Place
<1>4. l \in Lines("printed")
  BY PhaseKeeps DEF LogSound
<1> HIDE DEF l, pieces
<1>5. PICK x \in Lines("printed") : state' = Log!Put(x, Log!Newline)
  BY <1>1, <1>3, <1>4, PutAllKeeps
<1>6. state' \in Lines("printed")
  BY <1>1, <1>3, <1>4, PutAllKeeps
<1>7. Ends(Log!Put(x, Log!Newline).kept)
  <2>1. LineKept(x)
    BY DEF Lines
  <2>2. QED
    BY <2>1, NewlineEnds
<1>8. QED
  BY <1>5, <1>6, <1>7 DEF LogSound, Lines

LEMMA LogStep ==
  ASSUME LogSound, Log!Next
  PROVE  LogSound'
BY LogStatementKeeps, LogPieceKeeps, LogEndKeeps DEF Log!Next

LEMMA LogSoundLine ==
  ASSUME LogSound
  PROVE  Log!LineSound
<1>1. Log!NeverFull /\ Log!WholeIfItFits
  BY DEF LogSound, LineKept, Log!NeverFull, Log!WholeIfItFits
<1>2. Log!LineEnds
  BY DEF LogSound, Ends, Log!LineEnds
<1>3. Log!SignIsLost
  BY DEF LogSound, LineKept, Told, Decimal, Log!SignIsLost
<1>4. QED
  BY <1>1, <1>2, <1>3 DEF Log!LineSound

-----------------------------------------------------------------------------
(* ProtobufFrame: a frame is read back.                                    *)

(* A sequence is three others, one behind the other.                       *)
Cut(s, a, b, c) ==
  /\ Len(s) = Len(a) + Len(b) + Len(c)
  /\ \A i \in 1 .. Len(a) : s[i] = a[i]
  /\ \A i \in 1 .. Len(b) : s[Len(a) + i] = b[i]
  /\ SubSeq(s, Len(a) + 1, Len(a) + Len(b)) = b
  /\ SubSeq(s, Len(a) + Len(b) + 1, Len(a) + Len(b) + Len(c)) = c

LEMMA MiddleOf ==
  ASSUME NEW S, NEW a \in Seq(S), NEW b \in Seq(S), NEW c \in Seq(S)
  PROVE  a \o b \o c \in Seq(S) /\ Cut(a \o b \o c, a, b, c)
<1> DEFINE k  == Len(a)
           m  == Len(b)
           n  == Len(c)
           ab == a \o b
           s  == ab \o c
           mid  == SubSeq(s, k + 1, k + m)
           last == SubSeq(s, k + m + 1, k + m + n)
<1>1. k \in Nat /\ m \in Nat /\ n \in Nat
  OBVIOUS
<1>2. /\ ab \in Seq(S) /\ Len(ab) = k + m
      /\ \A i \in 1 .. k + m : ab[i] = IF i <= k THEN a[i] ELSE b[i - k]
  BY ConcatProperties
<1> HIDE DEF ab, k, m, n
<1>3. /\ s \in Seq(S) /\ Len(s) = k + m + n
      /\ \A i \in 1 .. k + m + n : s[i] = IF i <= k + m THEN ab[i] ELSE c[i - (k + m)]
  <2>1. /\ s \in Seq(S) /\ Len(s) = Len(ab) + Len(c)
        /\ \A i \in 1 .. Len(ab) + Len(c) : s[i] = IF i <= Len(ab) THEN ab[i] ELSE c[i - Len(ab)]
    BY <1>2, ConcatProperties
  <2>2. QED
    BY <1>2, <2>1 DEF n
<1> HIDE DEF s
<1>4. /\ \A i \in 1 .. k : s[i] = a[i]
      /\ \A i \in 1 .. m : s[k + i] = b[i]
      /\ \A i \in 1 .. n : s[k + m + i] = c[i]
  <2>1. ASSUME NEW i \in 1 .. k PROVE s[i] = a[i]
    BY <1>1, <1>2, <1>3
  <2>2. ASSUME NEW i \in 1 .. m PROVE s[k + i] = b[i]
    <3>1. k + i \in 1 .. k + m + n /\ k + i \in 1 .. k + m /\ ~(k + i <= k) /\ (k + i) - k = i
      BY <1>1
    <3>2. QED
      BY <1>2, <1>3, <3>1
  <2>3. ASSUME NEW i \in 1 .. n PROVE s[k + m + i] = c[i]
    <3>1. k + m + i \in 1 .. k + m + n /\ ~(k + m + i <= k + m) /\ (k + m + i) - (k + m) = i
      BY <1>1
    <3>2. QED
      BY <1>3, <3>1
  <2>4. QED
    BY <2>1, <2>2, <2>3
<1>5. \A i \in 1 .. k + m + n : s[i] \in S
  BY <1>3
<1>6. mid = b
  <2> DEFINE lo == k + 1
             hi == k + m
  <2>1. lo \in Int /\ hi \in Int /\ \A i \in lo .. hi : s[i] \in S
    BY <1>1, <1>5
  <2>2. /\ mid \in Seq(S) /\ Len(mid) = IF lo <= hi THEN hi - lo + 1 ELSE 0
        /\ \A i \in 1 .. hi - lo + 1 : mid[i] = s[lo + i - 1]
    <3> HIDE DEF lo, hi
    <3>1. QED
      BY <2>1, SubSeqProperties DEF lo, hi
  <2> HIDE DEF mid
  <2>3. Len(mid) = m /\ \A i \in 1 .. m : mid[i] = b[i]
    <3>1. hi - lo + 1 = m /\ (lo <= hi <=> m >= 1)
      BY <1>1
    <3>2. ASSUME NEW i \in 1 .. m PROVE mid[i] = b[i]
      <4>1. lo + i - 1 = k + i /\ i \in 1 .. hi - lo + 1
        BY <1>1, <3>1
      <4> HIDE DEF lo, hi
      <4>2. mid[i] = s[lo + i - 1]
        BY <2>2, <4>1
      <4>3. QED
        BY <1>4, <4>1, <4>2
    <3> HIDE DEF lo, hi
    <3>3. Len(mid) = m
      BY <1>1, <2>2, <3>1
    <3>4. QED
      BY <3>2, <3>3
  <2>4. QED
    BY <2>2, <2>3, SeqEqual DEF m
<1>7. last = c
  <2> DEFINE lo == k + m + 1
             hi == k + m + n
  <2>1. lo \in Int /\ hi \in Int /\ \A i \in lo .. hi : s[i] \in S
    BY <1>1, <1>5
  <2>2. /\ last \in Seq(S) /\ Len(last) = IF lo <= hi THEN hi - lo + 1 ELSE 0
        /\ \A i \in 1 .. hi - lo + 1 : last[i] = s[lo + i - 1]
    <3> HIDE DEF lo, hi
    <3>1. QED
      BY <2>1, SubSeqProperties DEF lo, hi
  <2> HIDE DEF last
  <2>3. Len(last) = n /\ \A i \in 1 .. n : last[i] = c[i]
    <3>1. hi - lo + 1 = n /\ (lo <= hi <=> n >= 1)
      BY <1>1
    <3>2. ASSUME NEW i \in 1 .. n PROVE last[i] = c[i]
      <4>1. lo + i - 1 = k + m + i /\ i \in 1 .. hi - lo + 1
        BY <1>1, <3>1
      <4> HIDE DEF lo, hi
      <4>2. last[i] = s[lo + i - 1]
        BY <2>2, <4>1
      <4>3. QED
        BY <1>4, <4>1, <4>2
    <3> HIDE DEF lo, hi
    <3>3. Len(last) = n
      BY <1>1, <2>2, <3>1
    <3>4. QED
      BY <3>2, <3>3
  <2>4. QED
    BY <2>2, <2>3, SeqEqual DEF n
<1>8. QED
  BY <1>3, <1>4, <1>6, <1>7 DEF s, ab, k, m, n, mid, last, Cut

(* What is added to the bytes of a frame are numbers too.                  *)
Number == Int

LEMMA SeqWider ==
  ASSUME NEW S, NEW T, \A x \in S : x \in T, NEW s \in Seq(S)
  PROVE  s \in Seq(T)
OBVIOUS

(* Four bytes give back the number they were made from.                    *)
LEMMA DivMod ==
  ASSUME NEW n \in Nat, NEW q, q = n \div 256, NEW r, r = n % 256
  PROVE  q \in Nat /\ r \in Int /\ n = q * 256 + r
OBVIOUS

LEMMA DivTwice ==
  ASSUME NEW n \in Nat
  PROVE  /\ n \div 65536 = (n \div 256) \div 256
         /\ n \div (256 * 65536) = (n \div 65536) \div 256
OBVIOUS

LEMMA ValueOf ==
  ASSUME NEW n \in Nat
  PROVE  Proto!be32(n) \in Seq(Number) /\ Len(Proto!be32(n)) = 4 /\ Proto!value(Proto!be32(n)) = n
<1>1. PICK q1, d0 : q1 = n \div 256 /\ d0 = n % 256
  OBVIOUS
<1>2. PICK q2, d1 : q2 = q1 \div 256 /\ d1 = q1 % 256
  OBVIOUS
<1>3. PICK q3, d2 : q3 = q2 \div 256 /\ d2 = q2 % 256
  OBVIOUS
<1>4. q1 \in Nat /\ d0 \in Int /\ n = q1 * 256 + d0
  BY <1>1, DivMod
<1>5. q2 \in Nat /\ d1 \in Int /\ q1 = q2 * 256 + d1
  BY <1>2, <1>4, DivMod
<1>6. q3 \in Nat /\ d2 \in Int /\ q2 = q3 * 256 + d2
  BY <1>3, <1>5, DivMod
<1>7. q2 = n \div 65536 /\ q3 = n \div (256 * 65536)
  BY <1>1, <1>2, <1>3, DivTwice
<1>8. Proto!be32(n) = <<q3, d2, d1, d0>>
  BY <1>1, <1>2, <1>3, <1>7 DEF Proto!be32
<1>9. Proto!value(<<q3, d2, d1, d0>>) = q3 * (256 * 65536) + d2 * 65536 + d1 * 256 + d0
  BY DEF Proto!value
<1>10. q3 * (256 * 65536) + d2 * 65536 + d1 * 256 + d0 = n
  BY <1>4, <1>5, <1>6
<1>11. <<q3, d2, d1, d0>> \in Seq(Number) /\ Len(<<q3, d2, d1, d0>>) = 4
  BY <1>4, <1>5, <1>6 DEF Number
<1>12. QED
  BY <1>8, <1>9, <1>10, <1>11

(* The checksum is four bytes long.                                        *)
LEMMA ChecksumOf ==
  ASSUME NEW s
  PROVE  \E w, x, y, z : Proto!adler32(s) = <<w, x, y, z>>
<1> DEFINE sums == CHOOSE f : f = [i \in 0 .. Len(s) |->
                     IF i = 0 THEN [a |-> 1, b |-> 0]
                     ELSE LET a == (f[i - 1].a + s[i]) % 65521
                          IN  [a |-> a, b |-> (f[i - 1].b + a) % 65521]]
           r == sums[Len(s)]
<1>1. Proto!adler32(s) = <<r.b \div 256, r.b % 256, r.a \div 256, r.a % 256>>
  BY DEF Proto!adler32
<1> HIDE DEF r
<1>2. QED
  BY <1>1

(* The body of a frame: the length of the name, the name, a zero byte and  *)
(* the message.                                                            *)
BodyOf(name, payload) == Proto!be32(Len(name) + 1) \o name \o <<0>> \o payload

LEMMA BodyIs ==
  ASSUME NEW name \in Seq(Number), NEW payload \in Seq(Number)
  PROVE  LET body == BodyOf(name, payload)
             l    == Len(name)
         IN  /\ body \in Seq(Number) /\ Len(body) = 5 + l + Len(payload)
             /\ Proto!value(body) = l + 1 /\ body[l + 5] = 0
             /\ SubSeq(body, 5, l + 4) = name
             /\ SubSeq(body, l + 6, Len(body)) = payload
<1> DEFINE body == BodyOf(name, payload)
           l    == Len(name)
           n    == Len(payload)
           h    == Proto!be32(l + 1)
           hn   == h \o name
           zero == <<0>>
           zp   == zero \o payload
<1>1. l \in Nat /\ n \in Nat /\ l + 1 \in Nat
  OBVIOUS
<1>2. h \in Seq(Number) /\ Len(h) = 4 /\ Proto!value(h) = l + 1
  <2> HIDE DEF l
  <2>1. QED
    BY <1>1, ValueOf
<1>3. zero \in Seq(Number) /\ Len(zero) = 1 /\ zero[1] = 0
  BY DEF Number
<1>4. body = hn \o zero \o payload
  BY DEF BodyOf
<1> HIDE DEF h, zero, body
<1>5. /\ hn \in Seq(Number) /\ Len(hn) = 4 + l
      /\ zp \in Seq(Number) /\ Len(zp) = 1 + n
  <2>1. hn \in Seq(Number) /\ Len(hn) = Len(h) + Len(name)
    BY <1>2, ConcatProperties
  <2>2. zp \in Seq(Number) /\ Len(zp) = Len(zero) + Len(payload)
    BY <1>3, ConcatProperties
  <2> HIDE DEF hn, zp
  <2>3. QED
    BY <1>2, <1>3, <2>1, <2>2
<1>6. body = h \o name \o zp
  <2>1. (hn \o zero) \o payload = hn \o (zero \o payload)
    <3>1. hn \in Seq(Number) /\ zero \in Seq(Number) /\ payload \in Seq(Number)
      BY <1>3, <1>5
    <3> HIDE DEF hn
    <3>2. QED
      BY ONLY <3>1, ConcatAssociative
  <2>2. QED
    BY <1>4, <2>1
<1>7. /\ body \in Seq(Number) /\ Len(body) = Len(hn) + Len(zero) + Len(payload)
      /\ \A i \in 1 .. Len(zero) : body[Len(hn) + i] = zero[i]
      /\ SubSeq(body, Len(hn) + Len(zero) + 1, Len(hn) + Len(zero) + Len(payload)) = payload
  <2>1. hn \in Seq(Number) /\ zero \in Seq(Number) /\ payload \in Seq(Number)
    BY <1>3, <1>5
  <2> HIDE DEF hn
  <2>2. hn \o zero \o payload \in Seq(Number) /\ Cut(hn \o zero \o payload, hn, zero, payload)
    BY ONLY <2>1, MiddleOf
  <2>3. body \in Seq(Number) /\ Cut(body, hn, zero, payload)
    BY ONLY <1>4, <2>2
  <2>4. QED
    BY ONLY <2>3 DEF Cut
<1>8. /\ \A i \in 1 .. Len(h) : body[i] = h[i]
      /\ SubSeq(body, Len(h) + 1, Len(h) + Len(name)) = name
  <2>1. h \in Seq(Number) /\ name \in Seq(Number) /\ zp \in Seq(Number)
    BY <1>2, <1>5
  <2> HIDE DEF zp
  <2>2. Cut(h \o name \o zp, h, name, zp)
    BY ONLY <2>1, MiddleOf
  <2>3. Cut(body, h, name, zp)
    BY ONLY <1>6, <2>2
  <2>4. QED
    BY ONLY <2>3 DEF Cut
<1> HIDE DEF hn, zp, l, n
<1>9. Len(body) = 5 + l + n
  BY <1>1, <1>3, <1>5, <1>7 DEF n
<1>10. body[l + 5] = 0
  <2>1. 1 \in 1 .. Len(zero) /\ Len(hn) + 1 = l + 5
    BY <1>1, <1>3, <1>5
  <2>2. QED
    BY <1>3, <1>7, <2>1
<1>11. Proto!value(body) = l + 1
  <2>1. body[1] = h[1] /\ body[2] = h[2] /\ body[3] = h[3] /\ body[4] = h[4]
    BY <1>2, <1>8
  <2>2. QED
    BY <1>2, <2>1 DEF Proto!value
<1>12. SubSeq(body, 5, l + 4) = name
  <2>1. Len(h) + 1 = 5 /\ Len(h) + Len(name) = l + 4
    BY <1>1, <1>2 DEF l
  <2>2. QED
    BY <1>8, <2>1
<1>13. SubSeq(body, l + 6, Len(body)) = payload
  <2>1. /\ Len(hn) + Len(zero) + 1 = l + 6
        /\ Len(hn) + Len(zero) + Len(payload) = Len(body)
    BY <1>1, <1>3, <1>5, <1>7
  <2>2. QED
    BY <1>7, <2>1
<1>14. QED
  BY <1>7, <1>9, <1>10, <1>11, <1>12, <1>13 DEF body, l, n

(* What is read from a frame with this body.                               *)
Judged(s, body) ==
  LET nameLen == Proto!value(body)
  IN  IF /\ Proto!value(s) = Len(s) - Proto!kHeaderLen
         /\ Proto!adler32(body) = SubSeq(s, Len(s) - 3, Len(s))
         /\ nameLen \in 1 .. Len(body) - 4
         /\ body[4 + nameLen] = 0
      THEN <<SubSeq(body, 5, 3 + nameLen), SubSeq(body, 5 + nameLen, Len(body))>>
      ELSE << >>

LEMMA DecodedIs ==
  ASSUME NEW name \in Seq(Nat), NEW payload \in Seq(Nat)
  PROVE  Proto!Decoded(Proto!encode(name, payload)) = <<name, payload>>
<1> DEFINE body == BodyOf(name, payload)
           l    == Len(name)
           m    == Len(body)
           head == Proto!be32(m + 4)
           sum  == Proto!adler32(body)
           s    == head \o body \o sum
<1>1. name \in Seq(Number) /\ payload \in Seq(Number) /\ l \in Nat /\ Len(payload) \in Nat
  <2>1. \A i \in Nat : i \in Number
    BY DEF Number
  <2>2. name \in Seq(Nat) /\ payload \in Seq(Nat)
    OBVIOUS
  <2>3. name \in Seq(Number) /\ payload \in Seq(Number)
    BY ONLY <2>1, <2>2, SeqWider
  <2>4. QED
    BY <2>3
<1>2. /\ body \in Seq(Number) /\ m = 5 + l + Len(payload)
      /\ Proto!value(body) = l + 1 /\ body[l + 5] = 0
      /\ SubSeq(body, 5, l + 4) = name
      /\ SubSeq(body, l + 6, m) = payload
  BY <1>1, BodyIs
<1>3. Proto!encode(name, payload) = s
  BY DEF Proto!encode, BodyOf
<1> HIDE DEF body
<1>4. PICK w, x, y, z : sum = <<w, x, y, z>>
  BY ChecksumOf
<1> DEFINE S == Number \cup {w, x, y, z}
<1>5. m \in Nat /\ m + 4 \in Nat
  BY <1>1, <1>2
<1>6. head \in Seq(Number) /\ Len(head) = 4 /\ Proto!value(head) = m + 4
  <2> HIDE DEF m
  <2>1. QED
    BY <1>5, ValueOf
<1> HIDE DEF head, sum
<1>7. sum \in Seq(S) /\ Len(sum) = 4
  BY <1>4
<1>8. head \in Seq(S) /\ body \in Seq(S)
  BY <1>2, <1>6, SeqWider
<1> HIDE DEF S
<1>9. /\ Len(s) = Len(head) + Len(body) + Len(sum)
      /\ \A i \in 1 .. Len(head) : s[i] = head[i]
      /\ SubSeq(s, Len(head) + 1, Len(head) + Len(body)) = body
      /\ SubSeq(s, Len(head) + Len(body) + 1, Len(head) + Len(body) + Len(sum)) = sum
  <2>1. head \in Seq(S) /\ body \in Seq(S) /\ sum \in Seq(S)
    BY <1>7, <1>8
  <2>2. Cut(s, head, body, sum)
    BY ONLY <2>1, MiddleOf
  <2> HIDE DEF s
  <2>3. QED
    BY ONLY <2>2 DEF Cut
<1> HIDE DEF s, m, l
<1>10. /\ Len(s) = m + 8 /\ Len(head) + 1 = 5 /\ Len(head) + Len(body) = Len(s) - 4
       /\ Len(head) + Len(body) + 1 = Len(s) - 3
       /\ Len(head) + Len(body) + Len(sum) = Len(s)
  BY <1>5, <1>6, <1>7, <1>9 DEF m
<1>11. SubSeq(s, 5, Len(s) - 4) = body /\ SubSeq(s, Len(s) - 3, Len(s)) = sum
  BY <1>9, <1>10
<1>12. Proto!value(s) = m + 4
  <2>1. s[1] = head[1] /\ s[2] = head[2] /\ s[3] = head[3] /\ s[4] = head[4]
    BY <1>6, <1>9
  <2>2. QED
    BY <1>6, <2>1 DEF Proto!value
<1>13. /\ Proto!kHeaderLen = 4 /\ Proto!value(s) = Len(s) - 4
       /\ l + 1 \in 1 .. m - 4 /\ body[4 + (l + 1)] = 0
       /\ SubSeq(body, 5, 3 + (l + 1)) = name /\ SubSeq(body, 5 + (l + 1), m) = payload
  <2>1. l \in Nat
    BY <1>1 DEF l
  <2>2. l + 1 \in 1 .. m - 4
    BY <1>1, <1>2, <2>1
  <2>3. 4 + (l + 1) = l + 5 /\ 3 + (l + 1) = l + 4 /\ 5 + (l + 1) = l + 6
    BY <2>1
  <2>4. m + 4 = Len(s) - 4
    BY <1>5, <1>10
  <2>5. QED
    BY <1>2, <1>12, <2>2, <2>3, <2>4 DEF Proto!kHeaderLen
<1>14. SubSeq(s, Proto!kHeaderLen + 1, Len(s) - 4) = body
  <2>1. Proto!kHeaderLen + 1 = 5
    BY <1>13
  <2>2. QED
    BY <1>11, <2>1
<1>15. Proto!Decoded(s) = Judged(s, body)
  <2>1. Proto!Decoded(s) = Judged(s, SubSeq(s, Proto!kHeaderLen + 1, Len(s) - 4))
    BY DEF Proto!Decoded, Judged
  <2>2. QED
    BY <1>14, <2>1
<1>16. Judged(s, body) = <<name, payload>>
  BY <1>2, <1>11, <1>13 DEF Judged, sum, m
<1>17. QED
  BY <1>3, <1>15, <1>16 DEF s

FrameSound ==
  /\ state.step \in {"start", "message", "null", "encoded", "refused"}
  /\ state.step = "message" => state.name \in Names
  /\ Proto!FrameReadable
  /\ state = [step |-> state.step, name |-> state.name, payload |-> state.payload,
               frame |-> state.frame]

LEMMA FrameInit ==
  ASSUME Proto!Init
  PROVE  FrameSound
BY DEF Proto!Init, FrameSound, Proto!FrameReadable

LEMMA FrameStep ==
  ASSUME FrameSound, Proto!Next
  PROVE  FrameSound'
<1> DEFINE Rec(step, name, payload, frame) ==
             [step |-> step, name |-> name, payload |-> payload, frame |-> frame]
<1>1. state = Rec(state.step, state.name, state.payload, state.frame)
  BY DEF FrameSound
<1>2. CASE Proto!createMessage
  <2>1. PICK name \in Names \cup OtherNames :
          state' = [state EXCEPT !.step = IF name \in Names THEN "message" ELSE "null",
                                 !.name = name]
    BY <1>2 DEF Proto!createMessage
  <2>2. state' = Rec(IF name \in Names THEN "message" ELSE "null", name, state.payload, state.frame)
    BY <1>1, <2>1
  <2>3. QED
    BY <2>2 DEF FrameSound, Proto!FrameReadable
<1>3. CASE Proto!EncodeMessage
  <2>1. PICK payload \in Payloads :
          state' \in { [state EXCEPT !.step = "encoded", !.payload = payload,
                                     !.frame = Proto!encode(state.name, payload)],
                       [state EXCEPT !.step = "refused"] }
    BY <1>3 DEF Proto!EncodeMessage
  <2>2. state.step = "message" /\ state.name \in Names
    BY <1>3 DEF Proto!EncodeMessage, FrameSound
  <2>3. CASE state' = [state EXCEPT !.step = "refused"]
    <3>1. state' = Rec("refused", state.name, state.payload, state.frame)
      BY <1>1, <2>3
    <3>2. QED
      BY <3>1 DEF FrameSound, Proto!FrameReadable
  <2>4. CASE state' # [state EXCEPT !.step = "refused"]
    <3> DEFINE name  == state.name
               frame == Proto!encode(name, payload)
    <3>1. state' = Rec("encoded", name, payload, frame)
      BY <1>1, <2>1, <2>4
    <3>2. name \in Seq(Nat) /\ payload \in Seq(Nat)
      BY <2>2, FrameAssumption
    <3>3. Proto!Decoded(frame) = <<name, payload>>
      BY <3>2, DecodedIs
    <3> HIDE DEF frame, name
    <3>4. /\ state'.step = "encoded" /\ state'.name = name /\ state'.payload = payload
          /\ state'.frame = frame
      BY <3>1
    <3>5. Proto!FrameReadable'
      BY <3>3, <3>4 DEF Proto!FrameReadable
    <3>6. QED
      BY <3>1, <3>4, <3>5 DEF FrameSound
  <2>5. QED
    BY <2>3, <2>4
<1>4. QED
  BY <1>2, <1>3 DEF Proto!Next

-----------------------------------------------------------------------------
(* All programs: their types, and what the remaining theorems state.       *)

ProgramNames == {"chargen", "threads", "go", "reader", "pong", "log", "proto"}

ProgramsInv ==
  /\ program \in ProgramNames
  /\ IfOf("chargen", GenSound) /\ IfOf("threads", ThreadsSound)
  /\ IfOf("go", GoSound) /\ IfOf("reader", ReaderSound)
  /\ IfOf("pong", PongSound) /\ IfOf("log", LogSound)
  /\ IfOf("proto", FrameSound)

LEMMA ReaderStep ==
  ASSUME ReaderSound, Reader!Next
  PROVE  ReaderSound'
BY ReaderOpen, ReaderReads DEF Reader!Next

LEMMA ProgramsStutter ==
  ASSUME ProgramsInv, UNCHANGED vars
  PROVE  ProgramsInv'
<1>1. program' = program /\ state' = state
  BY DEF vars
<1>2. GenSound => GenSound'
  BY <1>1 DEF GenSound, Gen!Running
<1>3. ThreadsSound => ThreadsSound'
  BY <1>1 DEF ThreadsSound
<1>4. GoSound => GoSound'
  BY <1>1 DEF GoSound
<1>5. ReaderSound => ReaderSound'
  BY <1>1 DEF ReaderSound, Counting, Reader!PrintedIsSize
<1>6. PongSound => PongSound'
  BY <1>1 DEF PongSound
<1>7. LogSound => LogSound'
  BY <1>1 DEF LogSound
<1>8. FrameSound => FrameSound'
  BY <1>1 DEF FrameSound, Proto!FrameReadable
<1>9. QED
  BY <1>1, <1>2, <1>3, <1>4, <1>5, <1>6, <1>7, <1>8 DEF ProgramsInv, IfOf

LEMMA ProgramsStep ==
  ASSUME ProgramsInv, Next
  PROVE  ProgramsInv'
<1>1. program' = program /\ program \in ProgramNames
  BY DEF Next, ProgramsInv
<1>2. ASSUME program = "chargen" PROVE GenSound'
  BY <1>2, GenStep DEF Next, ProgramsInv, IfOf
<1>3. ASSUME program = "threads" PROVE ThreadsSound'
  BY <1>3, ThreadsStep DEF Next, ProgramsInv, IfOf
<1>4. ASSUME program = "go" PROVE GoSound'
  BY <1>4, GoStep DEF Next, ProgramsInv, IfOf
<1>5. ASSUME program = "reader" PROVE ReaderSound'
  BY <1>5, ReaderStep DEF Next, ProgramsInv, IfOf
<1>6. ASSUME program = "pong" PROVE PongSound'
  BY <1>6, PongStep DEF Next, ProgramsInv, IfOf
<1>7. ASSUME program = "log" PROVE LogSound'
  BY <1>7, LogStep DEF Next, ProgramsInv, IfOf
<1>8. ASSUME program = "proto" PROVE FrameSound'
  BY <1>8, FrameStep DEF Next, ProgramsInv, IfOf
<1>9. QED
  BY <1>1, <1>2, <1>3, <1>4, <1>5, <1>6, <1>7, <1>8 DEF ProgramsInv, IfOf

LEMMA ProgramsSound == FairSpec => []ProgramsInv
<1>1. Init => ProgramsInv
  BY GenInit, ThreadsInit, GoInit, ReaderInit, PongInit, LogInit, FrameInit
     DEF Init, ProgramsInv, ProgramNames, IfOf
<1>2. ProgramsInv /\ [Next]_vars => ProgramsInv'
  BY ProgramsStep, ProgramsStutter
<1>3. QED
  BY <1>1, <1>2, PTL DEF FairSpec

(* The state of each program keeps its type.                               *)
THEOREM ProgramsTyped == FairSpec => []TypeOK
<1>1. ProgramsInv => TypeOK
  <2> SUFFICES ASSUME ProgramsInv PROVE TypeOK
    OBVIOUS
  <2>1. /\ program = "chargen" => state \in Gen!Type
        /\ program = "threads" => state \in Threads!Type
        /\ program = "go" => state \in Go!Type
        /\ program = "reader" => state \in Reader!Type
        /\ program = "pong" => state \in Pong!Type
        /\ program = "log" => state \in Log!Type
        /\ program = "proto" => state.step \in {"start", "message", "null", "encoded", "refused"}
    BY DEF ProgramsInv, IfOf, GenSound, ThreadsSound, GoSound, ReaderSound, PongSound,
           LogSound, LineKept, FrameSound
  <2>2. program \in ProgramNames
    BY DEF ProgramsInv
  <2>3. QED
    BY <2>1, <2>2 DEF TypeOK, ProgramNames
<1>2. QED
  BY <1>1, ProgramsSound, PTL

(* simple/chargen.cpp:30-43: whatever writes fail, and in whatever order   *)
(* the callbacks come, each client's own rate counts what its socket took, *)
(* and the total is too large by one message per failed write, for any     *)
(* number of clients.                                                      *)
THEOREM LossesAccounted == FairSpec => []LossAccounted
<1>1. ProgramsInv => LossAccounted
  BY GenSoundAccounts DEF ProgramsInv, LossAccounted, IfOf
<1>2. QED
  BY <1>1, ProgramsSound, PTL

(* go_pingpong/client.go:73-87: additions to totalWrites may be lost in the*)
(* race and are never invented, and the result is printed when every       *)
(* session has ended, for any number of sessions and any block.            *)
THEOREM GoResultSafe == FairSpec => []ResultSound
<1>1. ProgramsInv => ResultSound
  BY GoSoundResult DEF ProgramsInv, ResultSound, IfOf
<1>2. QED
  BY <1>1, ProgramsSound, PTL

(* LogStream.h:24, LogStream.cpp:19-31: for any buffer and any statement   *)
(* nothing is written past the buffer, a statement that fits is printed    *)
(* whole, a line ends in its newline unless the buffer is full, and of a   *)
(* 32-bit integer the decimal digits of its absolute value are printed.    *)
THEOREM LineSafe == FairSpec => []LineSound
<1>1. ProgramsInv => LineSound
  BY LogSoundLine DEF ProgramsInv, LineSound, IfOf
<1>2. QED
  BY <1>1, ProgramsSound, PTL

(* protobuf_codec.h:19-40: any name and any message are read back from the *)
(* frame they were put into.                                               *)
THEOREM FrameReadBack == FairSpec => []FrameReadable
<1>1. ProgramsInv => FrameReadable
  BY DEF ProgramsInv, FrameReadable, IfOf, FrameSound
<1>2. QED
  BY <1>1, ProgramsSound, PTL
=============================================================================
