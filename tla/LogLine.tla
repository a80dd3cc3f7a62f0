-------------------------------- MODULE LogLine --------------------------------
(***************************************************************************)
(* One log statement of common/log: LOG_INFO or LOG_ERROR make a Logger,   *)
(* whose constructor puts the time and the level into a FixedBuffer of     *)
(* Size bytes, operator<< appends the pieces of the statement, and the     *)
(* destructor appends the place and prints the buffer.  A piece that does  *)
(* not fit is left out and the next one is tried.                          *)
(*                                                                         *)
(* Text is abstracted to its length, but for the decimal conversion of     *)
(* integers, which is done digit by digit.                                 *)
(***************************************************************************)
EXTENDS Integers, Sequences, FiniteSetsExt

CONSTANTS
  Size,              \* kSmallBuffer, 4096
  kMaxNumericSize,   \* room a number must have, 32
  PathLen,           \* length of __FILE__
  Slashes,           \* the places of '/' in it, from 1
  Line,              \* __LINE__
  StrLens,           \* lengths of the strings a statement may print
  Ints,              \* the integers a statement may print
  Doubles,           \* lengths snprintf("%.12g") may return
  MaxPieces          \* bound: operator<< calls of a statement

VARIABLE log

Digit == 0 .. 9
Abs(v) == IF v < 0 THEN -v ELSE v

(* convert(): the remainder of a negative value is negative in C++, and    *)
(* zero[lsd] is its absolute value; no sign is written.                    *)
convert(v) ==
  LET conv[i \in 0 .. Abs(v)] == IF i < 10 THEN <<i>> ELSE Append(conv[i \div 10], i % 10)
  IN  conv[Abs(v)]

(* A piece: what it is, its length and, for an integer, value and digits.  *)
Piece == [what : {"text", "int", "double", "newline"}, len : Nat, value : Int, digits : Seq(Digit)]

Text(len)   == [what |-> "text", len |-> len, value |-> 0, digits |-> << >>]
Integer(v)  == [what |-> "int", len |-> Len(convert(v)), value |-> v, digits |-> convert(v)]
Double(len) == [what |-> "double", len |-> len, value |-> 0, digits |-> << >>]
Newline     == [what |-> "newline", len |-> 1, value |-> 0, digits |-> << >>]

length(kept) == LET sum[i \in 0 .. Len(kept)] == IF i = 0 THEN 0 ELSE sum[i - 1] + kept[i].len
                IN  sum[Len(kept)]
avail(kept) == Size - length(kept)

(* Mutant: the last byte of the buffer is used too. *)
FitsExactly(kept, p) ==
  IF p.what \in {"int", "double"} THEN avail(kept) >= kMaxNumericSize ELSE avail(kept) >= p.len

(* FixedBuffer::append() and formatInteger().                              *)
Fits(kept, p) ==
  IF p.what \in {"int", "double"} THEN avail(kept) >= kMaxNumericSize ELSE avail(kept) > p.len

(* operator<<.                                                             *)
Put(l, p) ==
  [l EXCEPT !.offered = Append(@, p), !.kept = IF Fits(@, p) THEN Append(@, p) ELSE @]

PutAll(l, pieces) ==
  LET put[i \in 0 .. Len(pieces)] == IF i = 0 THEN l ELSE Put(put[i - 1], pieces[i])
  IN  put[Len(pieces)]

-----------------------------------------------------------------------------

(* offered: history, all pieces of the statement.  kept: those in the      *)
(* buffer.                                                                 *)
Type ==
  [phase : {"none", "open", "printed"}, offered : Seq(Piece), kept : Seq(Piece)]

Init == log = [phase |-> "none", offered |-> << >>, kept |-> << >>]

(* The order of the levels, and their names, blanks included.              *)
Level == [TRACE |-> 0, DEBUG |-> 1, INFO |-> 2, WARN |-> 3, ERROR |-> 4, FATAL |-> 5]

LogLevelName == [level \in DOMAIN Level |-> 6]

(* g_logLevel, from the variables that are set in the environment.         *)
initLogLevel(env) ==
  IF "MUDUO_LOG_TRACE" \in env THEN Level.TRACE
  ELSE IF "MUDUO_LOG_DEBUG" \in env THEN Level.DEBUG
  ELSE Level.INFO

(* LOG_INFO looks at g_logLevel, LOG_ERROR does not.                       *)
Logged(level, env) == level = "ERROR" \/ (level = "INFO" /\ initLogLevel(env) <= Level.INFO)

(* The lengths formatTime() may return: 19 characters of date and time, a  *)
(* comma and six digits.  sprintf() is given its own target as an argument,*)
(* which leaves it undefined whether the date is kept.                     *)
formatTime == {19 + 1 + 6, 1 + 6}

(* Logger::Impl::Impl.                                                     *)
LogStatement ==
  /\ log.phase = "none"
  /\ \E level \in DOMAIN Level, env \in SUBSET {"MUDUO_LOG_TRACE", "MUDUO_LOG_DEBUG"},
        time \in formatTime :
       /\ Logged(level, env)
       /\ log' = PutAll([log EXCEPT !.phase = "open"],
                        <<Text(time), Text(1), Text(LogLevelName[level])>>)

(* A null pointer is printed as "(null)", a string as any other.           *)
LogPiece ==
  /\ log.phase = "open"
  /\ Len(log.offered) < 3 + MaxPieces
  /\ \/ \E len \in StrLens \cup {6} : log' = Put(log, Text(len))
     \/ \E v \in Ints : log' = Put(log, Integer(v))
     \/ \E len \in Doubles : log' = Put(log, Double(len))

(* SourceFile: what is behind the last slash.                              *)
basename == PathLen - Max(Slashes \cup {0})

Place == <<Text(3), Text(basename), Text(1), Integer(Line), Newline>>

(* Logger::~Logger: finish() and one call of g_output.                     *)
LogEnd ==
  /\ log.phase = "open"
  /\ log' = PutAll([log EXCEPT !.phase = "printed"], Place)

Next == LogStatement \/ LogPiece \/ LogEnd

-----------------------------------------------------------------------------
(* Properties. *)

(* The buffer is never full, so a printed line never runs past its end,    *)
(* though numbers are written without a look at their own length.          *)
NeverFull == length(log.kept) < Size

(* A printed line ends in its newline, or the buffer is full to the last   *)
(* byte that may be used: nothing but a full buffer joins two lines.       *)
LineEnds ==
  log.phase = "printed" =>
    (log.kept # << >> /\ log.kept[Len(log.kept)].what = "newline") \/ length(log.kept) = Size - 1

(* A piece is lost only if the text before it left less room than it       *)
(* needs; a statement that fits with a number's room to spare is printed   *)
(* whole.                                                                  *)
WholeIfItFits == length(log.offered) + kMaxNumericSize <= Size => log.kept = log.offered

(* What is printed of an integer are the digits of its absolute value, the *)
(* most significant first and no zero before them: the sign is lost.       *)
SignIsLost ==
  \A i \in DOMAIN log.kept :
    LET p == log.kept[i]
        value[j \in 0 .. Len(p.digits)] == IF j = 0 THEN 0 ELSE value[j - 1] * 10 + p.digits[j]
    IN  p.what = "int" => /\ value[Len(p.digits)] = Abs(p.value)
                          /\ p.digits # << >> /\ (p.digits[1] = 0 => p.digits = <<0>>)

(* What a reader of the log may count on.                                  *)
LineSound == NeverFull /\ LineEnds /\ WholeIfItFits /\ SignIsLost
=============================================================================
