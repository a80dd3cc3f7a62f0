------------------------------ MODULE Echo_proofs ------------------------------
(***************************************************************************)
(* Machine-checked proofs about echo_client, for any input and any server: *)
(* its three handles are closed once and together, both directions pass    *)
(* the data on in order until then, and echo_server leaves it silent.      *)
(***************************************************************************)
EXTENDS Echo, SequenceTheorems, TLAPS

(* The three handles move together: all are open while the client runs, or *)
(* all are closing.  Without this a callback of one handle could close     *)
(* another one again.                                                      *)
Together ==
  /\ status \in {"connecting", "exited"} => \A x \in Handles : h[x] \in {"none", "open"}
  /\ status = "running" => \/ \A x \in Handles : h[x] = "open"
                           \/ \A x \in Handles : h[x] = "closing"
  /\ status = "done" => \A x \in Handles : h[x] = "closed"

(* The inductive invariant. *)
IInv == TypeOK /\ ClosedOnce /\ Together /\ PassedOn

-----------------------------------------------------------------------------
(* Facts about queues. *)

(* Moving the head of a queue behind what has been passed on. *)
LEMMA Flush ==
  ASSUME NEW S, NEW s \in Seq(S), NEW q \in Seq(S), q # << >>
  PROVE  /\ Head(q) \in S /\ Tail(q) \in Seq(S)
         /\ Append(s, Head(q)) \in Seq(S)
         /\ Append(s, Head(q)) \o Tail(q) = s \o q
<1>1. Head(q) \in S /\ Tail(q) \in Seq(S) /\ Len(Tail(q)) = Len(q) - 1
      /\ \A i \in 1 .. Len(Tail(q)) : Tail(q)[i] = q[i + 1]
  BY HeadTailProperties
<1> DEFINE a == Append(s, Head(q))
           t == Tail(q)
<1>2. /\ a \in Seq(S) /\ Len(a) = Len(s) + 1
      /\ \A i \in 1 .. Len(s) : a[i] = s[i]
      /\ a[Len(s) + 1] = q[1]
  BY <1>1, AppendProperties
<1>3. /\ t \in Seq(S) /\ Len(t) = Len(q) - 1
      /\ \A i \in 1 .. Len(t) : t[i] = q[i + 1]
  BY <1>1
<1>4. Head(q) \in S /\ Tail(q) \in Seq(S)
  BY <1>1
<1> HIDE DEF a, t
<1>5. /\ s \o q \in Seq(S) /\ Len(s \o q) = Len(s) + Len(q)
      /\ \A i \in 1 .. Len(s) + Len(q) :
           (s \o q)[i] = IF i <= Len(s) THEN s[i] ELSE q[i - Len(s)]
  BY ConcatProperties
<1>6. /\ a \o t \in Seq(S) /\ Len(a \o t) = Len(a) + Len(t)
      /\ \A i \in 1 .. Len(a) + Len(t) :
           (a \o t)[i] = IF i <= Len(a) THEN a[i] ELSE t[i - Len(a)]
  BY <1>2, <1>3, ConcatProperties
<1>7. Len(s) \in Nat /\ Len(q) \in Nat
  OBVIOUS
<1>8. Len(a \o t) = Len(s \o q)
  BY <1>2, <1>3, <1>5, <1>6, <1>7
<1>9. ASSUME NEW i \in 1 .. Len(a \o t)
      PROVE  (a \o t)[i] = (s \o q)[i]
  <2>1. CASE i <= Len(s)
    BY <2>1, <1>2, <1>3, <1>5, <1>6, <1>7
  <2>2. CASE i = Len(s) + 1
    BY <2>2, <1>2, <1>3, <1>5, <1>6, <1>7, <1>8
  <2>3. CASE i > Len(s) + 1
    <3>1. i - Len(a) \in 1 .. Len(t) /\ i - Len(a) + 1 = i - Len(s)
      BY <2>3, <1>2, <1>3, <1>6, <1>7
    <3>2. i \in 1 .. Len(a) + Len(t) /\ ~ (i <= Len(a))
      BY <2>3, <1>2, <1>3, <1>6, <1>7
    <3>3. (a \o t)[i] = t[i - Len(a)]
      BY <3>2, <1>6
    <3>4. t[i - Len(a)] = q[i - Len(s)]
      BY <3>1, <1>3
    <3>5. i \in 1 .. Len(s) + Len(q) /\ ~ (i <= Len(s))
      BY <2>3, <1>5, <1>7, <1>8
    <3>6. (s \o q)[i] = q[i - Len(s)]
      BY <3>5, <1>5
    <3>7. QED
      BY <3>3, <3>4, <3>6
  <2>4. i \in Nat /\ Len(s) \in Nat
    BY <1>2, <1>3, <1>6, <1>7
  <2>5. i <= Len(s) \/ i = Len(s) + 1 \/ i > Len(s) + 1
    BY <2>4
  <2>6. QED
    BY <2>1, <2>2, <2>3, <2>5
<1>10. a \o t = s \o q
  BY <1>5, <1>6, <1>8, <1>9, SeqEqual
<1>11. QED
  BY <1>2, <1>4, <1>10 DEF a, t

(* Queueing behind what is pending is queueing behind everything. *)
LEMMA Queue ==
  ASSUME NEW S, NEW s \in Seq(S), NEW q \in Seq(S), NEW x \in S
  PROVE  /\ Append(q, x) \in Seq(S)
         /\ s \o q \in Seq(S)
         /\ s \o Append(q, x) = Append(s \o q, x)
<1>1. <<x>> \in Seq(S) /\ s \o q \in Seq(S) /\ Append(q, x) \in Seq(S)
  BY ConcatProperties, AppendProperties
<1>2. s \o (q \o <<x>>) = (s \o q) \o <<x>>
  BY <1>1, ConcatAssociative
<1>3. QED
  BY <1>1, <1>2, AppendIsConcat

(* A sequence is a prefix of what it is continued to. *)
LEMMA Prefix ==
  ASSUME NEW S, NEW s \in Seq(S), NEW q \in Seq(S)
  PROVE  IsPrefix(s, s \o q)
<1>1. Len(s) \in Nat /\ Len(q) \in Nat
  OBVIOUS
<1>2. Len(s \o q) = Len(s) + Len(q)
  BY ConcatProperties
<1>3. SubSeq(s, 1, Len(s)) = SubSeq(s \o q, 1, Len(s))
  <2>1. CASE Len(s) = 0
    BY <2>1, SubSeqEmpty
  <2>2. CASE Len(s) > 0
    <3>1. 1 \in 1 .. Len(s) /\ Len(s) \in 1 .. Len(s)
      BY <1>1, <2>2
    <3>2. QED
      BY <3>1, SubSeqOfConcat1
  <2>3. QED
    BY <1>1, <2>1, <2>2
<1>4. QED
  BY <1>1, <1>2, <1>3 DEF IsPrefix

LEMMA PrefixOfTwo ==
  ASSUME NEW S, NEW s \in Seq(S), NEW q \in Seq(S), NEW r \in Seq(S)
  PROVE  IsPrefix(s, (s \o q) \o r)
<1>1. q \o r \in Seq(S)
  BY ConcatProperties
<1>2. (s \o q) \o r = s \o (q \o r)
  BY ConcatAssociative
<1>3. IsPrefix(s, s \o (q \o r))
  BY <1>1, Prefix
<1>4. QED
  BY <1>2, <1>3

-----------------------------------------------------------------------------
(* The invariant holds at the start. *)

LEMMA InitIInv == Init => IInv
<1> SUFFICES ASSUME Init PROVE IInv
  OBVIOUS
<1>1. /\ << >> \in Seq(Cell) /\ Typed \in Seq(Cell) /\ Answers \in Seq(Cell)
  BY EchoAssumption
<1>2. TypeOK
  BY <1>1 DEF Init, TypeOK, Handles
<1>3. ClosedOnce
  BY DEF Init, ClosedOnce, Handles
<1>4. Together
  BY DEF Init, Together, Handles
<1>5. PassedOn
  <2>1. << >> \o << >> = << >> /\ (<< >> \o << >>) \o Typed = Typed
    BY <1>1, ConcatEmptySeq
  <2>2. IsPrefix(<< >>, << >>) /\ IsPrefix(<< >>, Typed)
    BY <1>1, <2>1, Prefix
  <2>3. QED
    BY <2>1, <2>2 DEF Init, PassedOn, Handles
<1>6. QED
  BY <1>2, <1>3, <1>4, <1>5 DEF IInv

-----------------------------------------------------------------------------
(* Every step preserves it. *)

(* Passing on keeps both directions in order as long as what is passed on  *)
(* and what is pending still add up; a close keeps what was passed on.     *)
LEMMA StillPassedOn ==
  ASSUME TypeOK', closes'["conn"] = 0,
         printed' \o printQ' = got',
         (sent' \o sendQ') \o stdin' = Typed
  PROVE  PassedOn'
<1>1. /\ printed' \in Seq(Cell) /\ printQ' \in Seq(Cell)
      /\ sent' \in Seq(Cell) /\ sendQ' \in Seq(Cell) /\ stdin' \in Seq(Cell)
  BY DEF TypeOK
<1>2. IsPrefix(printed', got')
  BY <1>1, Prefix
<1>3. IsPrefix(sent', Typed)
  BY <1>1, PrefixOfTwo
<1>4. QED
  BY <1>2, <1>3 DEF PassedOn

(* An open handle has not been closed. *)
LEMMA OpenNotClosed ==
  ASSUME IInv, NEW x \in Handles, h[x] = "open"
  PROVE  closes[x] = 0
<1>1. closes[x] \in Nat
  BY DEF IInv, TypeOK
<1>2. closes[x] <= 1 /\ closes[x] # 1
  BY DEF IInv, ClosedOnce
<1>3. QED
  BY <1>1, <1>2

(* CloseAll, wherever it is called from, closes what was open. *)
LEMMA CloseAllOnce ==
  ASSUME IInv, status = "running", NEW y \in Handles, h[y] = "open", CloseAll,
         UNCHANGED <<status, stdin, sent, got, printed, server>>, down' \in Seq(Cell)
  PROVE  IInv'
<1>1. \A x \in Handles : h[x] = "open" /\ closes[x] = 0
  <2>1. \A x \in Handles : h[x] = "open"
    BY DEF IInv, Together
  <2>2. QED
    BY <2>1, OpenNotClosed
<1>2. \A x \in Handles : h'[x] = "closing" /\ closes'[x] = 1
  BY <1>1 DEF CloseAll
<1>3. TypeOK'
  <2>1. closes' \in [Handles -> Nat] /\ h' \in [Handles -> {"none", "open", "closing", "closed"}]
    BY <1>1 DEF CloseAll
  <2>2. sendQ' \in Seq(Cell) /\ printQ' \in Seq(Cell)
    BY DEF CloseAll
  <2>3. \A x \in Handles : h'[x] # "none"
    BY <1>2
  <2>4. QED
    BY <2>1, <2>2, <2>3 DEF IInv, TypeOK, server
<1>4. ClosedOnce'
  BY <1>2 DEF ClosedOnce
<1>5. Together'
  BY <1>2 DEF Together
<1>6. PassedOn'
  <2>1. closes'["conn"] = 1
    BY <1>2 DEF Handles
  <2>2. sendQ' = << >> /\ printQ' = << >>
    BY DEF CloseAll
  <2>3. IsPrefix(printed', got') /\ IsPrefix(sent', Typed)
    BY DEF IInv, PassedOn
  <2>4. QED
    BY <2>1, <2>2, <2>3 DEF PassedOn
<1>7. QED
  BY <1>3, <1>4, <1>5, <1>6 DEF IInv

(* A step that leaves the handles alone leaves them in order. *)
LEMMA HandlesUntouched ==
  ASSUME IInv, UNCHANGED <<status, h, closes>>
  PROVE  ClosedOnce' /\ Together'
BY DEF IInv, ClosedOnce, Together

(* While something is pending no handle has been closed. *)
LEMMA PendingOpen ==
  ASSUME IInv, sendQ # << >> \/ printQ # << >>
  PROVE  closes["conn"] = 0
<1>1. "conn" \in Handles /\ closes["conn"] \in Nat /\ closes["conn"] <= 1
  BY DEF IInv, TypeOK, ClosedOnce, Handles
<1>2. closes["conn"] # 1
  BY DEF IInv, PassedOn
<1>3. QED
  BY <1>1, <1>2

(* While a handle is read none has been closed. *)
LEMMA ReadingOpen ==
  ASSUME IInv, NEW x \in Handles, Reading(x)
  PROVE  closes["conn"] = 0
<1>1. closes[x] = 0
  BY OpenNotClosed DEF Reading
<1>2. closes["conn"] = closes[x]
  BY DEF IInv, ClosedOnce, Handles
<1>3. QED
  BY <1>1, <1>2

LEMMA StepIInv == IInv /\ [Next]_vars => IInv'
<1> SUFFICES ASSUME IInv, [Next]_vars PROVE IInv'
  OBVIOUS
<1>t. /\ stdin \in Seq(Cell) /\ sendQ \in Seq(Cell) /\ sent \in Seq(Cell)
      /\ down \in Seq(Cell) /\ got \in Seq(Cell)
      /\ printQ \in Seq(Cell) /\ printed \in Seq(Cell) /\ answers \in Seq(Cell)
  BY DEF IInv, TypeOK
<1>p. closes["conn"] = 0 => printed \o printQ = got /\ (sent \o sendQ) \o stdin = Typed
  BY DEF IInv, PassedOn
<1>1. CASE OnConnect
  <2>1. TypeOK'
    <3>1. CASE status' = "running" /\ h' = [x \in Handles |-> "open"]
      BY <1>1, <3>1 DEF OnConnect, IInv, TypeOK, server
    <3>2. CASE status' = "exited" /\ UNCHANGED h
      BY <1>1, <3>2 DEF OnConnect, IInv, TypeOK, server
    <3>3. QED
      BY <1>1, <3>1, <3>2 DEF OnConnect
  <2>2. ClosedOnce' /\ Together'
    <3>1. \A x \in Handles : h[x] \in {"none", "open"}
      BY <1>1 DEF OnConnect, IInv, Together
    <3>2. \A x \in Handles : h'[x] \in {"none", "open"}
      BY <1>1, <3>1 DEF OnConnect
    <3>3. ClosedOnce'
      BY <1>1, <3>1, <3>2 DEF OnConnect, IInv, ClosedOnce
    <3>4. Together'
      BY <1>1, <3>1, <3>2 DEF OnConnect, Together
    <3>5. QED
      BY <3>3, <3>4
  <2>3. PassedOn'
    BY <1>1 DEF OnConnect, IInv, PassedOn
  <2>4. QED
    BY <2>1, <2>2, <2>3 DEF IInv
<1>2. CASE OnReadConnection
  <2>1. closes["conn"] = 0
    BY <1>2, ReadingOpen DEF OnReadConnection, Handles
  <2>2. /\ Head(down) \in Cell /\ Tail(down) \in Seq(Cell)
        /\ Append(printQ, Head(down)) \in Seq(Cell) /\ Append(got, Head(down)) \in Seq(Cell)
        /\ printed \o Append(printQ, Head(down)) = Append(printed \o printQ, Head(down))
    <3>1. Head(down) \in Cell /\ Tail(down) \in Seq(Cell)
      BY <1>t, <1>2, HeadTailProperties DEF OnReadConnection
    <3>2. Append(printQ, Head(down)) \in Seq(Cell) /\ Append(got, Head(down)) \in Seq(Cell)
      BY <1>t, <3>1, AppendProperties
    <3>3. printed \o Append(printQ, Head(down)) = Append(printed \o printQ, Head(down))
      BY <1>t, <3>1, Queue
    <3>4. QED
      BY <3>1, <3>2, <3>3
  <2>3. TypeOK'
    BY <1>2, <2>2 DEF OnReadConnection, IInv, TypeOK, server
  <2>4. PassedOn'
    BY <1>2, <1>p, <2>1, <2>2, <2>3, StillPassedOn DEF OnReadConnection
  <2>5. ClosedOnce' /\ Together'
    BY <1>2, HandlesUntouched DEF OnReadConnection
  <2>6. QED
    BY <2>3, <2>4, <2>5 DEF IInv
<1>3. CASE OnConnectionEnd
  <2>1. down' \in Seq(Cell)
    <3>1. down' = down \/ down' = << >>
      BY <1>3 DEF OnConnectionEnd
    <3>2. QED
      BY <1>t, <3>1, EmptySeq
  <2>2. "conn" \in Handles /\ status = "running" /\ h["conn"] = "open"
    BY <1>3 DEF OnConnectionEnd, Reading, Handles
  <2>3. QED
    BY <1>3, <2>1, <2>2, CloseAllOnce DEF OnConnectionEnd
<1>4. CASE OnReadStdin
  <2>1. closes["conn"] = 0
    BY <1>4, ReadingOpen DEF OnReadStdin, Handles
  <2>2. /\ Head(stdin) \in Cell /\ Tail(stdin) \in Seq(Cell)
        /\ Append(sendQ, Head(stdin)) \in Seq(Cell)
        /\ sent \o Append(sendQ, Head(stdin)) = Append(sent \o sendQ, Head(stdin))
        /\ sent \o sendQ \in Seq(Cell)
    <3>1. Head(stdin) \in Cell /\ Tail(stdin) \in Seq(Cell)
      BY <1>t, <1>4, HeadTailProperties DEF OnReadStdin
    <3>2. Append(sendQ, Head(stdin)) \in Seq(Cell) /\ sent \o sendQ \in Seq(Cell)
      BY <1>t, <3>1, Queue
    <3>3. sent \o Append(sendQ, Head(stdin)) = Append(sent \o sendQ, Head(stdin))
      BY <1>t, <3>1, Queue, SMTT(20)
    <3>4. QED
      BY <3>1, <3>2, <3>3
  <2>3. Append(sent \o sendQ, Head(stdin)) \o Tail(stdin) = (sent \o sendQ) \o stdin
    <3> DEFINE q == sent \o sendQ
    <3>1. q \in Seq(Cell) /\ stdin \in Seq(Cell) /\ stdin # << >>
      BY <1>t, <1>4, <2>2 DEF OnReadStdin
    <3> HIDE DEF q
    <3>2. Append(q, Head(stdin)) \o Tail(stdin) = q \o stdin
      BY <3>1, Flush
    <3>3. QED
      BY <3>2 DEF q
  <2>4. TypeOK'
    BY <1>4, <2>2 DEF OnReadStdin, IInv, TypeOK, server
  <2>5. PassedOn'
    BY <1>4, <1>p, <2>1, <2>2, <2>3, <2>4, StillPassedOn DEF OnReadStdin
  <2>6. ClosedOnce' /\ Together'
    BY <1>4, HandlesUntouched DEF OnReadStdin
  <2>7. QED
    BY <2>4, <2>5, <2>6 DEF IInv
<1>5. CASE OnStdinEnd
  <2>1. "stdin" \in Handles /\ status = "running" /\ h["stdin"] = "open" /\ down' \in Seq(Cell)
    BY <1>5, <1>t DEF OnStdinEnd, Reading, Handles
  <2>2. QED
    BY <1>5, <2>1, CloseAllOnce DEF OnStdinEnd
<1>6. CASE CloseDone
  <2>1. status = "running" /\ \A x \in Handles : h[x] = "closing"
    BY <1>6 DEF CloseDone, IInv, TypeOK, Together
  <2>2. \A x \in Handles : h'[x] = "closed"
    BY <1>6, <2>1 DEF CloseDone
  <2>3. status' = "done"
    BY <1>6, <2>2 DEF CloseDone
  <2>4. TypeOK'
    <3>1. h' \in [Handles -> {"none", "open", "closing", "closed"}]
      BY <1>6 DEF CloseDone, IInv, TypeOK
    <3>2. QED
      BY <1>6, <2>2, <2>3, <3>1 DEF CloseDone, IInv, TypeOK, server
  <2>5. ClosedOnce'
    BY <1>6, <2>1, <2>2 DEF CloseDone, IInv, ClosedOnce
  <2>6. Together'
    BY <2>2, <2>3 DEF Together
  <2>7. PassedOn'
    BY <1>6 DEF CloseDone, IInv, PassedOn
  <2>8. QED
    BY <2>4, <2>5, <2>6, <2>7 DEF IInv
<1>7. CASE FlushSend
  <2>1. closes["conn"] = 0
    BY <1>7, PendingOpen DEF FlushSend
  <2>2. /\ Tail(sendQ) \in Seq(Cell) /\ Append(sent, Head(sendQ)) \in Seq(Cell)
        /\ Append(sent, Head(sendQ)) \o Tail(sendQ) = sent \o sendQ
    BY <1>t, <1>7, Flush DEF FlushSend
  <2>3. TypeOK'
    BY <1>7, <2>2 DEF FlushSend, IInv, TypeOK, server
  <2>4. PassedOn'
    BY <1>7, <1>p, <2>1, <2>2, <2>3, StillPassedOn DEF FlushSend
  <2>5. ClosedOnce' /\ Together'
    BY <1>7, HandlesUntouched DEF FlushSend
  <2>6. QED
    BY <2>3, <2>4, <2>5 DEF IInv
<1>8. CASE FlushPrint
  <2>1. closes["conn"] = 0
    BY <1>8, PendingOpen DEF FlushPrint
  <2>2. /\ Tail(printQ) \in Seq(Cell) /\ Append(printed, Head(printQ)) \in Seq(Cell)
        /\ Append(printed, Head(printQ)) \o Tail(printQ) = printed \o printQ
    BY <1>t, <1>8, Flush, Zenon DEF FlushPrint
  <2>3. TypeOK'
    BY <1>8, <2>2 DEF FlushPrint, IInv, TypeOK, server
  <2>4. PassedOn'
    BY <1>8, <1>p, <2>1, <2>2, <2>3, StillPassedOn DEF FlushPrint
  <2>5. ClosedOnce' /\ Together'
    BY <1>8, HandlesUntouched DEF FlushPrint
  <2>6. QED
    BY <2>3, <2>4, <2>5 DEF IInv
<1>9. CASE OnNewConnection
  <2>1. TypeOK'
    BY <1>9 DEF OnNewConnection, IInv, TypeOK
  <2>2. ClosedOnce' /\ Together'
    BY <1>9, HandlesUntouched DEF OnNewConnection
  <2>3. PassedOn'
    BY <1>9 DEF OnNewConnection, IInv, PassedOn
  <2>4. QED
    BY <2>1, <2>2, <2>3 DEF IInv
<1>10. CASE PeerStep
  <2>1. peer' \in {"listening", "open", "shut", "lost"}
    BY <1>10 DEF PeerStep, IInv, TypeOK
  <2>2. answers' \in Seq(Cell) /\ down' \in Seq(Cell)
    <3>1. CASE UNCHANGED <<answers, down>>
      BY <3>1, <1>t
    <3>2. CASE answers # << >> /\ down' = Append(down, Head(answers)) /\ answers' = Tail(answers)
      BY <3>2, <1>t, Flush
    <3>3. QED
      BY <1>10, <3>1, <3>2 DEF PeerStep
  <2>3. TypeOK'
    BY <1>10, <2>1, <2>2 DEF PeerStep, IInv, TypeOK
  <2>4. ClosedOnce' /\ Together'
    BY <1>10, HandlesUntouched DEF PeerStep
  <2>5. PassedOn'
    BY <1>10 DEF PeerStep, IInv, PassedOn
  <2>6. QED
    BY <2>3, <2>4, <2>5 DEF IInv
<1>11. CASE UNCHANGED vars
  <2>1. TypeOK'
    BY <1>11 DEF vars, server, IInv, TypeOK
  <2>2. ClosedOnce' /\ Together'
    BY <1>11, HandlesUntouched DEF vars
  <2>3. PassedOn'
    BY <1>11 DEF vars, IInv, PassedOn
  <2>4. QED
    BY <2>1, <2>2, <2>3 DEF IInv
<1>12. QED
  BY <1>1, <1>2, <1>3, <1>4, <1>5, <1>6, <1>7, <1>8, <1>9, <1>10, <1>11 DEF Next, Client

-----------------------------------------------------------------------------
(* The theorems. *)

LEMMA Inductive == Spec => []IInv
<1>1. QED
  BY InitIInv, StepIInv, PTL DEF Spec

(* The state of client, sockets and server stays well typed; in particular *)
(* no running client has a handle that was never opened.                   *)
THEOREM TypeCorrect == Spec => []TypeOK
<1>1. IInv => TypeOK
  BY DEF IInv
<1>2. QED
  BY Inductive, <1>1, PTL

(* on_read_connection and on_read_stdin (echo_client.cpp:8-40) never close *)
(* a handle twice, nor one handle without the other two, whoever ends.     *)
THEOREM HandlesClosedOnce == Spec => []ClosedOnce
<1>1. IInv => ClosedOnce
  BY DEF IInv
<1>2. QED
  BY Inductive, <1>1, PTL

(* Whatever is typed and answered, each direction passes on what was read, *)
(* in order and without a loss until the handles are closed, and a prefix  *)
(* of it then.                                                             *)
THEOREM DataPassedOn == Spec => []PassedOn
<1>1. IInv => PassedOn
  BY DEF IInv
<1>2. QED
  BY Inductive, <1>1, PTL

-----------------------------------------------------------------------------
(* The safety half of ServerEndsClient.                                    *)

(* Nothing is on its way from echo_server to the terminal, at any stage.   *)
Silent ==
  kind = "echo_server" =>
    answers = << >> /\ down = << >> /\ printQ = << >> /\ printed = << >>

LEMMA StepSilent == Silent /\ [Next]_vars => Silent'
<1> SUFFICES ASSUME Silent, [Next]_vars PROVE Silent'
  OBVIOUS
<1>1. CASE OnConnect \/ OnReadStdin \/ CloseDone \/ FlushSend \/ OnNewConnection \/ UNCHANGED vars
  BY <1>1 DEF Silent, OnConnect, OnReadStdin, CloseDone, FlushSend, OnNewConnection, server, vars
<1>2. CASE OnConnectionEnd \/ OnStdinEnd
  BY <1>2 DEF Silent, OnConnectionEnd, OnStdinEnd, CloseAll, server
<1>3. CASE OnReadConnection
  BY <1>3 DEF Silent, OnReadConnection, server
<1>4. CASE FlushPrint
  BY <1>4 DEF Silent, FlushPrint, server
<1>5. CASE PeerStep
  BY <1>5 DEF Silent, PeerStep
<1>6. QED
  BY <1>1, <1>2, <1>3, <1>4, <1>5 DEF Next, Client

(* on_new_connection of echo_server shuts the connection down at once, so  *)
(* its client never prints, whatever is typed and however they are timed.  *)
THEOREM EchoServerIsSilent == Spec => []Wordless
<1>1. Init => Silent
  BY DEF Init, Silent
<1>2. Silent => Wordless
  BY DEF Silent, Wordless
<1>3. QED
  BY <1>1, StepSilent, <1>2, PTL DEF Spec
=============================================================================
