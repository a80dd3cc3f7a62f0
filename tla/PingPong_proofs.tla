---------------------------- MODULE PingPong_proofs ----------------------------
(***************************************************************************)
(* Machine-checked proofs about the ping-pong benchmark, for any number of *)
(* sessions and any buffer sizes: bytes are conserved between the two ends,*)
(* and the result is lost only in the ways ResultLost names.               *)
(***************************************************************************)
EXTENDS PingPong, FiniteSetTheorems, WellFoundedInduction, TLAPS

-----------------------------------------------------------------------------
(* The sum that onTimeout prints is a number: an induction over the number *)
(* of sessions added up so far.                                            *)

LEMMA SetInduction ==
  ASSUME NEW T, 0 \in T, \A n \in Nat : n \in T => n + 1 \in T
  PROVE  \A n \in Nat : n \in T
<1> DEFINE Bad == Nat \ T
<1>1. SUFFICES ASSUME Bad # {} PROVE FALSE
  OBVIOUS
<1>2. PICK m \in Bad : \A k \in Bad : <<k, m>> \notin OpToRel(<, Nat)
  BY <1>1, WFMin, NatLessThanWellFounded, Zenon
<1>3. m \in Nat /\ m # 0 /\ m \notin T
  OBVIOUS
<1>4. m - 1 \in Nat /\ m - 1 < m /\ (m - 1) + 1 = m
  BY <1>3
<1>5. m - 1 \notin T
  BY <1>3, <1>4
<1>6. <<m - 1, m>> \in OpToRel(<, Nat)
  BY <1>3, <1>4 DEF OpToRel
<1>7. QED
  BY <1>2, <1>4, <1>5, <1>6

LEMMA TotalIsNat ==
  ASSUME \A s \in Sessions : ses[s].bytesRead \in Nat
  PROVE  MapThenSumSet(LAMBDA s : ses[s].bytesRead, Sessions) \in Nat
<1> DEFINE some(S)   == CHOOSE x \in S : TRUE
           Sum(g, S) == IF S = {} THEN 0 ELSE ses[some(S)].bytesRead + g[S \ {some(S)}]
           Upto(n)   == {S \in SUBSET Sessions : Cardinality(S) <= n}
           Defined   == {n \in Nat : \E g \in [Upto(n) -> Nat] : \A S \in Upto(n) : g[S] = Sum(g, S)}
           total     == CHOOSE g : g = [S \in SUBSET Sessions |-> Sum(g, S)]
           Typed     == {n \in Nat : \A S \in Upto(n) : total[S] \in Nat}
<1>1. MapThenSumSet(LAMBDA s : ses[s].bytesRead, Sessions) = total[Sessions]
  BY DEF MapThenSumSet, MapThenFoldSet
<1>2. \A S \in SUBSET Sessions : IsFiniteSet(S) /\ Cardinality(S) \in Nat
  BY PingPongAssumption, FS_Subset, FS_CardinalityType
<1>3. ASSUME NEW S \in SUBSET Sessions, S # {}
      PROVE  /\ some(S) \in Sessions
             /\ S \ {some(S)} \in SUBSET Sessions
             /\ Cardinality(S \ {some(S)}) = Cardinality(S) - 1
  <2>1. some(S) \in S
    BY <1>3
  <2>2. QED
    BY <1>2, <2>1, FS_RemoveElement
<1> HIDE DEF some
<1>4. Upto(0) = {{}}
  <2>1. \A S \in SUBSET Sessions : Cardinality(S) <= 0 <=> S = {}
    BY <1>2, FS_EmptySet
  <2>2. QED
    BY <2>1
<1>5. 0 \in Defined
  <2>1. \A S \in Upto(0) : [T \in Upto(0) |-> 0][S] = Sum([T \in Upto(0) |-> 0], S)
    BY <1>4
  <2>2. [S \in Upto(0) |-> 0] \in [Upto(0) -> Nat]
    OBVIOUS
  <2>3. QED
    BY <2>1, <2>2
<1>6. ASSUME NEW n \in Nat, NEW S \in Upto(n + 1), S # {}
      PROVE  some(S) \in Sessions /\ S \ {some(S)} \in Upto(n)
  BY <1>2, <1>3, <1>6
<1>7. ASSUME NEW n \in Nat, n \in Defined
      PROVE  n + 1 \in Defined
  <2>1. PICK g \in [Upto(n) -> Nat] : \A S \in Upto(n) : g[S] = Sum(g, S)
    BY <1>7
  <2> DEFINE h == [S \in Upto(n + 1) |-> Sum(g, S)]
  <2>2. h \in [Upto(n + 1) -> Nat]
    <3>1. ASSUME NEW S \in Upto(n + 1), S # {}
          PROVE  ses[some(S)].bytesRead + g[S \ {some(S)}] \in Nat
      <4>1. ses[some(S)].bytesRead \in Nat /\ g[S \ {some(S)}] \in Nat
        BY <1>6, <3>1
      <4>2. QED
        BY <4>1
    <3>2. QED
      BY <3>1
  <2>3. ASSUME NEW S \in Upto(n + 1)
        PROVE  h[S] = Sum(h, S)
    <3>1. CASE S = {}
      BY <3>1
    <3>2. CASE S # {}
      <4> DEFINE R == S \ {some(S)}
      <4>1. R \in Upto(n)
        BY <1>6, <3>2
      <4>2. R \in Upto(n + 1)
        BY <1>2, <4>1
      <4>3. h[R] = g[R]
        BY <2>1, <4>1, <4>2
      <4>4. QED
        BY <3>2, <4>3
    <3>3. QED
      BY <3>1, <3>2
  <2> HIDE DEF h
  <2>4. \A S \in Upto(n + 1) : h[S] = Sum(h, S)
    BY <2>3
  <2> HIDE DEF Upto, Sum
  <2>5. QED
    BY <2>2, <2>4
<1> HIDE DEF Defined
<1>8. PICK n \in Nat : n = Cardinality(Sessions) /\ SUBSET Sessions = Upto(n)
  BY <1>2, PingPongAssumption, FS_Subset
<1>9. \E g : g = [S \in SUBSET Sessions |-> Sum(g, S)]
  <2>1. n \in Defined
    BY <1>5, <1>7, SetInduction
  <2>2. PICK g \in [Upto(n) -> Nat] : \A S \in Upto(n) : g[S] = Sum(g, S)
    BY <2>1 DEF Defined
  <2> HIDE DEF Sum
  <2>3. g = [S \in SUBSET Sessions |-> Sum(g, S)]
    BY <1>8, <2>2
  <2>4. QED
    BY <2>3
<1>10. total = [S \in SUBSET Sessions |-> Sum(total, S)]
  BY <1>9
<1> HIDE DEF total
<1>11. 0 \in Typed
  BY <1>4, <1>10
<1>12. ASSUME NEW k \in Nat, k \in Typed
       PROVE  k + 1 \in Typed
  <2>1. ASSUME NEW S \in Upto(k + 1)
        PROVE  total[S] \in Nat
    <3>1. total[S] = Sum(total, S)
      BY <1>10, <2>1
    <3>2. CASE S = {}
      BY <3>1, <3>2
    <3>3. CASE S # {}
      <4>1. some(S) \in Sessions /\ S \ {some(S)} \in Upto(k)
        BY <1>6, <3>3
      <4>2. total[S \ {some(S)}] \in Nat /\ ses[some(S)].bytesRead \in Nat
        BY <1>12, <4>1
      <4>3. QED
        BY <3>1, <3>3, <4>2
    <3>4. QED
      BY <3>2, <3>3
  <2>2. QED
    BY <2>1
<1> HIDE DEF Typed
<1>13. n \in Typed
  BY <1>11, <1>12, SetInduction
<1>14. QED
  BY <1>1, <1>8, <1>13 DEF Typed

-----------------------------------------------------------------------------
(* The inductive invariant.                                                *)

(* Conserved, but the bytes of a session add up from the start and until   *)
(* an end is closed or the connection is reset, not only while both ends   *)
(* are open: an end that opens has to find them in balance.                *)
Counted(r) ==
  /\ r.bytesRead + r.down + r.srvQ <= r.srvRead
  /\ r.srvRead + r.up + r.sendQ <= r.written
  /\ r.srv # "closed" /\ ~r.broken => r.bytesRead + r.down + r.srvQ = r.srvRead
  /\ r.handle # "closed" /\ ~r.broken => r.srvRead + r.up + r.sendQ = r.written
  /\ r.handle = "connecting" => r.written = 0

(* Whatever was read was answered with as much at least, so a session      *)
(* stays the block ahead of what it has read.                              *)
Answered(r) ==
  r.handle = "open" /\ r.shutdown = "no" => block_size + r.bytesRead <= r.written

Balanced(r) == Counted(r) /\ Answered(r)

IInv == TypeOK /\ (\A s \in Sessions : Balanced(ses[s])) /\ ResultLost

-----------------------------------------------------------------------------

LEMMA InitIInv == Init => IInv
<1> SUFFICES ASSUME Init PROVE IInv
  OBVIOUS
<1>1. Cardinality(Sessions) \in Nat
  BY PingPongAssumption, FS_CardinalityType
<1>2. TypeOK
  BY <1>1 DEF Init, TypeOK, SessionType
<1>3. \A s \in Sessions : Balanced(ses[s])
  BY DEF Init, Balanced, Counted, Answered
<1>4. ResultLost
  <2>1. /\ {s \in Sessions : ses[s].handle # "failed"} = Sessions
        /\ {s \in Sessions : ses[s].handle \in {"connecting", "open"}} = Sessions
    BY DEF Init
  <2>2. counter = Cardinality(Sessions) /\ timer = "set"
    BY DEF Init
  <2>3. /\ counter <= Cardinality({s \in Sessions : ses[s].handle # "failed"})
        /\ counter >= Cardinality({s \in Sessions : ses[s].handle \in {"connecting", "open"}})
    <3>1. counter <= Cardinality(Sessions) /\ counter >= Cardinality(Sessions)
      BY <1>1, <2>2
    <3>2. QED
      BY <2>1, <3>1, Zenon
  <2>4. QED
    BY <2>2, <2>3 DEF ResultLost
<1>5. QED
  BY <1>2, <1>3, <1>4 DEF IInv

(* What one session does is judged by its record alone.                    *)
LEMMA BecomeKeeps ==
  ASSUME IInv, NEW s \in Sessions, NEW r, Become(s, r), r \in SessionType, Balanced(r)
  PROVE  /\ ses' \in [Sessions -> SessionType]
         /\ \A t \in Sessions : Balanced(ses'[t])
         /\ \A t \in Sessions : ses'[t] = IF t = s THEN r ELSE ses[t]
<1>1. ses \in [Sessions -> SessionType] /\ \A t \in Sessions : Balanced(ses[t])
  BY DEF IInv, TypeOK
<1>2. ses' = [ses EXCEPT ![s] = r]
  BY DEF Become
<1>3. QED
  BY <1>1, <1>2

(* A session that stays in its handle's state, or goes from connecting to  *)
(* open, or is closed, leaves the counter between the two sets.            *)
LEMMA CountKept ==
  ASSUME IInv, UNCHANGED counter,
         \A t \in Sessions : ses'[t].handle = "failed" => ses[t].handle = "failed",
         \A t \in Sessions : ses'[t].handle \in {"connecting", "open"}
                                => ses[t].handle \in {"connecting", "open"}
  PROVE  /\ counter' <= Cardinality({t \in Sessions : ses'[t].handle # "failed"})
         /\ counter' >= Cardinality({t \in Sessions : ses'[t].handle \in {"connecting", "open"}})
<1> DEFINE A  == {t \in Sessions : ses[t].handle # "failed"}
           A1 == {t \in Sessions : ses'[t].handle # "failed"}
           B  == {t \in Sessions : ses[t].handle \in {"connecting", "open"}}
           B1 == {t \in Sessions : ses'[t].handle \in {"connecting", "open"}}
<1>1. counter \in Nat /\ counter <= Cardinality(A) /\ counter >= Cardinality(B)
  BY DEF IInv, TypeOK, ResultLost
<1>2. A \in SUBSET A1 /\ B1 \in SUBSET B /\ A1 \in SUBSET Sessions /\ B \in SUBSET Sessions
  OBVIOUS
<1>3. IsFiniteSet(A1) /\ IsFiniteSet(B)
  BY <1>2, PingPongAssumption, FS_Subset
<1>4. IsFiniteSet(A) /\ IsFiniteSet(B1)
      /\ Cardinality(A) <= Cardinality(A1) /\ Cardinality(B1) <= Cardinality(B)
  BY <1>2, <1>3, FS_Subset
<1>5. {Cardinality(A), Cardinality(A1), Cardinality(B), Cardinality(B1)} \subseteq Nat
  BY <1>3, <1>4, FS_CardinalityType
<1> HIDE DEF A, A1, B, B1
<1>6. counter <= Cardinality(A1) /\ counter >= Cardinality(B1)
  BY <1>1, <1>4, <1>5
<1>7. QED
  BY <1>6 DEF A1, B1

(* One session moved and nothing was counted.                              *)
LEMMA SessionStep ==
  ASSUME IInv, NEW s \in Sessions, NEW r, Become(s, r), r \in SessionType, Balanced(r),
         UNCHANGED <<counter, timer, report>>, status' \in {"running", "exited"},
         r.handle = "failed" => ses[s].handle = "failed",
         r.handle \in {"connecting", "open"} => ses[s].handle \in {"connecting", "open"}
  PROVE  IInv'
<1>1. /\ ses' \in [Sessions -> SessionType]
      /\ \A t \in Sessions : Balanced(ses'[t])
      /\ \A t \in Sessions : ses'[t] = IF t = s THEN r ELSE ses[t]
  BY BecomeKeeps
<1>2. TypeOK'
  BY <1>1 DEF IInv, TypeOK
<1>3. /\ \A t \in Sessions : ses'[t].handle = "failed" => ses[t].handle = "failed"
      /\ \A t \in Sessions : ses'[t].handle \in {"connecting", "open"}
                                => ses[t].handle \in {"connecting", "open"}
  BY <1>1
<1>4. /\ counter' <= Cardinality({t \in Sessions : ses'[t].handle # "failed"})
      /\ counter' >= Cardinality({t \in Sessions : ses'[t].handle \in {"connecting", "open"}})
  BY <1>3, CountKept
<1>5. timer = "fired" /\ report = None => counter = 0
  BY DEF IInv, ResultLost, Become
<1>6. ResultLost'
  BY <1>4, <1>5 DEF ResultLost
<1>7. QED
  BY <1>1, <1>2, <1>6 DEF IInv

(* A write in a callback leaves the session in balance: it adds as much to *)
(* the queue as to what was written, and answers what was read.            *)
LEMMA WriteStep ==
  ASSUME IInv, NEW s \in Sessions, NEW r \in SessionType, NEW n \in Nat, Write(s, r, n),
         Counted(r), r.shutdown = "no" => block_size + r.bytesRead <= r.written + n,
         UNCHANGED <<counter, timer, report>>, r.handle = "open",
         ses[s].handle \in {"connecting", "open"}
  PROVE  IInv'
<1>1. status = "running"
  BY DEF Write, Become
<1>2. CASE r.shutdown # "no" /\ Become(s, r) /\ status' \in {status, "exited"}
  <2>1. Balanced(r)
    BY <1>2 DEF Balanced, Answered
  <2>2. QED
    BY <1>1, <1>2, <2>1, SessionStep
<1>3. CASE UNCHANGED status /\ Become(s, [r EXCEPT !.written = @ + n, !.sendQ = @ + n])
  <2> DEFINE v == [r EXCEPT !.written = @ + n]
             w == [v EXCEPT !.sendQ = r.sendQ + n]
  <2>1. v \in SessionType /\ v.handle = r.handle
    BY DEF SessionType
  <2>2. w.handle = "open" /\ Balanced(w)
    BY PingPongAssumption DEF SessionType, Balanced, Counted, Answered
  <2>3. Become(s, w)
    BY <1>3
  <2> HIDE DEF v
  <2>4. w \in SessionType
    BY <2>1 DEF SessionType
  <2> HIDE DEF w
  <2>5. status' \in {"running", "exited"}
    BY <1>1, <1>3
  <2>6. QED
    BY <2>2, <2>3, <2>4, <2>5, SessionStep
<1>4. QED
  BY <1>2, <1>3 DEF Write

(* OnConnectFail takes a session out of both sets that bound the counter.  *)
LEMMA ConnectFailStep ==
  ASSUME IInv, NEW s \in Sessions, OnConnectFail(s)
  PROVE  IInv'
<1> DEFINE r  == [ses[s] EXCEPT !.handle = "failed"]
           A  == {t \in Sessions : ses[t].handle # "failed"}
           A1 == {t \in Sessions : ses'[t].handle # "failed"}
           B  == {t \in Sessions : ses[t].handle \in {"connecting", "open"}}
           B1 == {t \in Sessions : ses'[t].handle \in {"connecting", "open"}}
<1>1. ses[s] \in SessionType /\ Balanced(ses[s]) /\ ses[s].handle = "connecting"
  BY DEF IInv, TypeOK, OnConnectFail
<1>2. r \in SessionType /\ Balanced(r) /\ r.handle = "failed"
  BY <1>1 DEF SessionType, Balanced, Counted, Answered
<1>3. Become(s, r) /\ UNCHANGED <<timer, report, status>> /\ counter' = counter - 1
      /\ status = "running"
  BY DEF OnConnectFail, Become
<1> HIDE DEF r
<1>4. /\ ses' \in [Sessions -> SessionType]
      /\ \A t \in Sessions : Balanced(ses'[t])
      /\ \A t \in Sessions : ses'[t] = IF t = s THEN r ELSE ses[t]
  BY <1>2, <1>3, BecomeKeeps
<1>5. A1 = A \ {s} /\ B1 = B \ {s} /\ s \in A /\ s \in B
  BY <1>1, <1>2, <1>4
<1>6. IsFiniteSet(A) /\ IsFiniteSet(B)
  BY PingPongAssumption, FS_Subset
<1>7. counter \in Nat /\ counter <= Cardinality(A) /\ counter >= Cardinality(B)
  BY DEF IInv, TypeOK, ResultLost
<1> HIDE DEF A, A1, B, B1
<1>8. /\ Cardinality(A1) = Cardinality(A) - 1 /\ Cardinality(B1) = Cardinality(B) - 1
      /\ {Cardinality(A), Cardinality(A1), Cardinality(B), Cardinality(B1)} \subseteq Nat
  BY <1>5, <1>6, FS_RemoveElement, FS_CardinalityType
<1>9. counter' \in Nat /\ counter' <= Cardinality(A1) /\ counter' >= Cardinality(B1)
  BY <1>3, <1>7, <1>8
<1>10. timer = "fired" /\ report = None => counter = 0
  BY <1>3 DEF IInv, ResultLost
<1>11. counter # 0
  BY <1>7, <1>8
<1>12. TypeOK'
  BY <1>3, <1>4, <1>9 DEF IInv, TypeOK
<1>13. ResultLost'
  BY <1>3, <1>9, <1>10, <1>11 DEF ResultLost, A1, B1
<1>14. QED
  BY <1>4, <1>12, <1>13 DEF IInv

(* OnTimeout prints a number unless no session is left.                    *)
LEMMA TimeoutStep ==
  ASSUME IInv, OnTimeout
  PROVE  IInv'
<1>1. ses \in [Sessions -> SessionType] /\ \A s \in Sessions : Balanced(ses[s])
  BY DEF IInv, TypeOK
<1>2. UNCHANGED counter /\ timer' = "fired"
  BY DEF OnTimeout
<1>3. CASE \E s \in Sessions : ses[s].handle = "closed"
  <2>1. status' = "exited" /\ UNCHANGED <<ses, report>>
    BY <1>3 DEF OnTimeout
  <2>2. TypeOK'
    BY <1>2, <2>1 DEF IInv, TypeOK
  <2>3. ResultLost'
    BY <1>2, <1>3, <2>1 DEF IInv, ResultLost
  <2>4. QED
    BY <1>1, <2>1, <2>2, <2>3 DEF IInv
<1>4. CASE ~ \E s \in Sessions : ses[s].handle = "closed"
  <2>1. /\ ses' = [s \in Sessions |-> [ses[s] EXCEPT !.shutdown = "asked"]]
        /\ report' = IF counter = 0 THEN None
                     ELSE MapThenSumSet(LAMBDA s : ses[s].bytesRead, Sessions)
        /\ UNCHANGED status
    BY <1>4 DEF OnTimeout
  <2>2. \A s \in Sessions : ses'[s] \in SessionType /\ Balanced(ses'[s])
                            /\ ses'[s].handle = ses[s].handle
    BY <1>1, <2>1 DEF SessionType, Balanced, Counted, Answered
  <2>3. MapThenSumSet(LAMBDA s : ses[s].bytesRead, Sessions) \in Nat
    BY <1>1, TotalIsNat DEF SessionType
  <2>4. report' \in Nat \cup {None} /\ (report' = None => counter = 0)
    BY <2>1, <2>3, PingPongAssumption
  <2>5. TypeOK'
    BY <1>2, <2>1, <2>2, <2>4 DEF IInv, TypeOK
  <2>6. /\ counter' <= Cardinality({t \in Sessions : ses'[t].handle # "failed"})
        /\ counter' >= Cardinality({t \in Sessions : ses'[t].handle \in {"connecting", "open"}})
    BY <1>2, <2>2, CountKept
  <2>7. ResultLost'
    BY <1>2, <2>4, <2>6 DEF ResultLost
  <2>8. QED
    BY <2>2, <2>5, <2>7 DEF IInv
<1>5. QED
  BY <1>3, <1>4

(* Nothing was read on a session that has written nothing.                 *)
LEMMA NothingRead ==
  ASSUME NEW r \in SessionType, Counted(r), r.handle = "connecting"
  PROVE  r.written = 0 /\ r.bytesRead = 0
<1>1. \A a, b, c, d, e, f \in Nat : a + b + c <= d /\ d + e + f <= 0 => a = 0
  OBVIOUS
<1>2. /\ r.written = 0
      /\ r.bytesRead + r.down + r.srvQ <= r.srvRead
      /\ r.srvRead + r.up + r.sendQ <= 0
  BY Zenon DEF Counted
<1>3. /\ r.srvRead \in Nat /\ r.up \in Nat /\ r.sendQ \in Nat
      /\ r.bytesRead \in Nat /\ r.down \in Nat /\ r.srvQ \in Nat
  BY DEF SessionType
<1>4. QED
  BY <1>1, <1>2, <1>3, Zenon

LEMMA NextIInv == IInv /\ [Next]_vars => IInv'
<1> SUFFICES ASSUME IInv, [Next]_vars PROVE IInv'
  OBVIOUS
<1>1. \A s \in Sessions : ses[s] \in SessionType /\ Balanced(ses[s])
  BY DEF IInv, TypeOK
<1>2. {block_size, ReadSize, buf_size} \subseteq Nat
  BY PingPongAssumption
<1>3. CASE OnTimeout
  BY <1>3, TimeoutStep
<1>4. CASE Finish
  <2>1. TypeOK' /\ \A s \in Sessions : Balanced(ses'[s])
    BY <1>1, <1>4 DEF Finish, IInv, TypeOK
  <2>2. ResultLost'
    BY <1>4 DEF Finish, IInv, ResultLost
  <2>3. QED
    BY <2>1, <2>2 DEF IInv
<1>5. ASSUME NEW s \in Sessions, OnConnect(s)
      PROVE  IInv'
  <2> DEFINE r == [ses[s] EXCEPT !.handle = "open"]
  <2>1. r \in SessionType /\ Counted(r) /\ r.handle = "open" /\ ses[s].handle = "connecting"
    BY <1>1, <1>5 DEF OnConnect, SessionType, Balanced, Counted
  <2>4. block_size + r.bytesRead <= r.written + block_size
    <3>1. ses[s].written = 0 /\ ses[s].bytesRead = 0
      BY <1>1, <2>1, NothingRead DEF Balanced
    <3>2. r.written = 0 /\ r.bytesRead = 0
      BY <1>1, <3>1 DEF SessionType
    <3>3. QED
      BY <1>2, <3>2
  <2>2. Write(s, r, block_size) /\ UNCHANGED <<counter, timer, report>>
    BY <1>5 DEF OnConnect
  <2> HIDE DEF r
  <2>3. QED
    BY <1>2, <2>1, <2>2, <2>4, WriteStep
<1>6. ASSUME NEW s \in Sessions, OnConnectFail(s)
      PROVE  IInv'
  BY <1>6, ConnectFailStep
<1>7. ASSUME NEW s \in Sessions, NEW n \in 1 .. ReadSize, OnReadData(s, n)
      PROVE  IInv'
  <2> DEFINE q == [ses[s] EXCEPT !.down = @ - n]
             r == [q EXCEPT !.bytesRead = ses[s].bytesRead + n]
  <2>1. n \in Nat /\ n <= ses[s].down /\ ses[s].handle = "open"
    BY <1>1, <1>2, <1>7 DEF OnReadData, SessionType
  <2>2. q \in SessionType
    BY <1>1, <2>1 DEF SessionType
  <2>3. r.handle = "open" /\ Counted(r)
    BY <1>1, <2>1 DEF SessionType, Balanced, Counted
  <2>7. r.shutdown = "no" => block_size + r.bytesRead <= r.written + ReadSize
    <3>1. ses[s].shutdown = "no" => block_size + ses[s].bytesRead <= ses[s].written
      BY <1>1, <2>1 DEF Balanced, Answered
    <3>2. ses[s].bytesRead \in Nat /\ ses[s].written \in Nat /\ n <= ReadSize
      BY <1>1, <1>7 DEF SessionType
    <3>3. r.shutdown = ses[s].shutdown /\ r.bytesRead = ses[s].bytesRead + n
          /\ r.written = ses[s].written
      BY <1>1 DEF SessionType
    <3>4. QED
      BY <1>2, <2>1, <3>1, <3>2, <3>3
  <2>4. Write(s, r, ReadSize) /\ UNCHANGED <<counter, timer, report>>
    BY <1>7 DEF OnReadData
  <2> HIDE DEF q
  <2>5. r \in SessionType
    BY <1>1, <2>1, <2>2 DEF SessionType
  <2> HIDE DEF r
  <2>6. QED
    BY <1>2, <2>1, <2>3, <2>4, <2>5, <2>7, WriteStep
<1>8. ASSUME NEW s \in Sessions, NEW r, Become(s, r), UNCHANGED Client,
             r \in SessionType, Balanced(r),
             r.handle \in {ses[s].handle, "closed"}
      PROVE  IInv'
  <2>1. UNCHANGED <<counter, timer, report>> /\ status' \in {"running", "exited"}
    BY <1>8 DEF Become, Client
  <2>2. QED
    BY <1>8, <2>1, SessionStep
<1>9. ASSUME NEW s \in Sessions, OnReadEnd(s)
      PROVE  IInv'
  <2> DEFINE q == [ses[s] EXCEPT !.handle = "closed"]
             r == [q EXCEPT !.sendQ = 0]
  <2>1. q \in SessionType
    BY <1>1 DEF SessionType
  <2>2. Balanced(r) /\ r.handle = "closed"
    BY <1>1 DEF SessionType, Balanced, Counted, Answered
  <2>3. Become(s, r) /\ UNCHANGED Client
    BY <1>9 DEF OnReadEnd
  <2> HIDE DEF q
  <2>4. r \in SessionType
    BY <2>1 DEF SessionType
  <2> HIDE DEF r
  <2>5. QED
    BY <1>8, <2>2, <2>3, <2>4
<1>10. ASSUME NEW s \in Sessions, OnShutdown(s)
       PROVE  IInv'
  <2> DEFINE r == [ses[s] EXCEPT !.shutdown = "done"]
  <2>1. r \in SessionType /\ Balanced(r) /\ r.handle = ses[s].handle
    BY <1>1 DEF SessionType, Balanced, Counted, Answered
  <2>2. Become(s, r) /\ UNCHANGED Client
    BY <1>10 DEF OnShutdown
  <2> HIDE DEF r
  <2>3. QED
    BY <1>8, <2>1, <2>2
<1>11. ASSUME NEW s \in Sessions, OnNewConnection(s)
       PROVE  IInv'
  <2>1. PICK srv \in {"open", "lost"} : Become(s, [ses[s] EXCEPT !.srv = srv])
    BY <1>11 DEF OnNewConnection
  <2> DEFINE r == [ses[s] EXCEPT !.srv = srv]
  <2>2. r \in SessionType /\ Balanced(r) /\ r.handle = ses[s].handle
    BY <1>1, <1>11 DEF OnNewConnection, SessionType, Balanced, Counted, Answered
  <2>3. Become(s, r) /\ UNCHANGED Client
    BY <1>11, <2>1 DEF OnNewConnection
  <2> HIDE DEF r
  <2>4. QED
    BY <1>8, <2>2, <2>3
<1>12. ASSUME NEW s \in Sessions, NEW n \in 1 .. buf_size, OnReadClient(s, n)
       PROVE  IInv'
  <2> DEFINE p == [ses[s] EXCEPT !.up = @ - n]
             q == [p EXCEPT !.srvRead = ses[s].srvRead + n]
             r == [q EXCEPT !.srvQ = ses[s].srvQ + n]
  <2>1. n \in Nat /\ n <= ses[s].up
    BY <1>1, <1>2, <1>12 DEF OnReadClient, SessionType
  <2>2. p \in SessionType
    BY <1>1, <2>1 DEF SessionType
  <2>3. Balanced(r) /\ r.handle = ses[s].handle
    BY <1>1, <2>1 DEF SessionType, Balanced, Counted, Answered
  <2>4. Become(s, r) /\ UNCHANGED Client
    BY <1>12 DEF OnReadClient
  <2> HIDE DEF p
  <2>5. q \in SessionType
    BY <1>1, <2>1, <2>2 DEF SessionType
  <2> HIDE DEF q
  <2>6. r \in SessionType
    BY <1>1, <2>1, <2>5 DEF SessionType
  <2> HIDE DEF r
  <2>7. QED
    BY <1>8, <2>3, <2>4, <2>6
<1>13. ASSUME NEW s \in Sessions, OnReadClientEnd(s)
       PROVE  IInv'
  <2> DEFINE q == [ses[s] EXCEPT !.srv = "closed"]
             r == [q EXCEPT !.srvQ = 0]
  <2>1. q \in SessionType
    BY <1>1 DEF SessionType
  <2>2. Balanced(r) /\ r.handle = ses[s].handle
    BY <1>1 DEF SessionType, Balanced, Counted, Answered
  <2>3. Become(s, r) /\ UNCHANGED Client
    BY <1>13 DEF OnReadClientEnd
  <2> HIDE DEF q
  <2>4. r \in SessionType
    BY <2>1 DEF SessionType
  <2> HIDE DEF r
  <2>5. QED
    BY <1>8, <2>2, <2>3, <2>4
<1>14. ASSUME NEW s \in Sessions, FlushUp(s)
       PROVE  IInv'
  <2> DEFINE q == [ses[s] EXCEPT !.sendQ = @ - 1]
             r == [q EXCEPT !.up = ses[s].up + 1]
  <2>1. q \in SessionType
    BY <1>1, <1>14 DEF FlushUp, SessionType
  <2>2. Balanced(r) /\ r.handle = ses[s].handle
    BY <1>1, <1>14 DEF FlushUp, SessionType, Balanced, Counted, Answered
  <2>3. Become(s, r) /\ UNCHANGED Client
    BY <1>14 DEF FlushUp
  <2> HIDE DEF q
  <2>4. r \in SessionType
    BY <1>1, <2>1 DEF SessionType
  <2> HIDE DEF r
  <2>5. QED
    BY <1>8, <2>2, <2>3, <2>4
<1>15. ASSUME NEW s \in Sessions, FlushDown(s)
       PROVE  IInv'
  <2> DEFINE q == [ses[s] EXCEPT !.srvQ = @ - 1]
             r == [q EXCEPT !.down = ses[s].down + 1]
  <2>1. q \in SessionType
    BY <1>1, <1>15 DEF FlushDown, SessionType
  <2>2. Balanced(r) /\ r.handle = ses[s].handle
    BY <1>1, <1>15 DEF FlushDown, SessionType, Balanced, Counted, Answered
  <2>3. Become(s, r) /\ UNCHANGED Client
    BY <1>15 DEF FlushDown
  <2> HIDE DEF q
  <2>4. r \in SessionType
    BY <1>1, <2>1 DEF SessionType
  <2> HIDE DEF r
  <2>5. QED
    BY <1>8, <2>2, <2>3, <2>4
<1>16. ASSUME NEW s \in Sessions, Reset(s)
       PROVE  IInv'
  <2> DEFINE r == [ses[s] EXCEPT !.broken = TRUE]
  <2>1. r \in SessionType /\ Balanced(r) /\ r.handle = ses[s].handle
    BY <1>1 DEF SessionType, Balanced, Counted, Answered
  <2>2. Become(s, r) /\ UNCHANGED Client
    BY <1>16 DEF Reset
  <2> HIDE DEF r
  <2>3. QED
    BY <1>8, <2>1, <2>2
<1>17. ASSUME NEW s \in Sessions, LoseUp(s)
       PROVE  IInv'
  <2>1. PICK k \in 1 .. ses[s].sendQ : Become(s, [ses[s] EXCEPT !.sendQ = @ - k])
    BY <1>17 DEF LoseUp
  <2> DEFINE r == [ses[s] EXCEPT !.sendQ = @ - k]
  <2>2. k \in Nat /\ k <= ses[s].sendQ /\ ses[s].broken
    BY <1>1, <1>17 DEF LoseUp, SessionType
  <2>3. r \in SessionType /\ Balanced(r) /\ r.handle = ses[s].handle
    BY <1>1, <2>2 DEF SessionType, Balanced, Counted, Answered
  <2>4. Become(s, r) /\ UNCHANGED Client
    BY <1>17, <2>1 DEF LoseUp
  <2> HIDE DEF r
  <2>5. QED
    BY <1>8, <2>3, <2>4
<1>18. ASSUME NEW s \in Sessions, LoseDown(s)
       PROVE  IInv'
  <2>1. PICK k \in 1 .. ses[s].srvQ : Become(s, [ses[s] EXCEPT !.srvQ = @ - k])
    BY <1>18 DEF LoseDown
  <2> DEFINE r == [ses[s] EXCEPT !.srvQ = @ - k]
  <2>2. k \in Nat /\ k <= ses[s].srvQ /\ ses[s].broken
    BY <1>1, <1>18 DEF LoseDown, SessionType
  <2>3. r \in SessionType /\ Balanced(r) /\ r.handle = ses[s].handle
    BY <1>1, <2>2 DEF SessionType, Balanced, Counted, Answered
  <2>4. Become(s, r) /\ UNCHANGED Client
    BY <1>18, <2>1 DEF LoseDown
  <2> HIDE DEF r
  <2>5. QED
    BY <1>8, <2>3, <2>4
<1>19. CASE UNCHANGED vars
  <2>1. TypeOK' /\ \A s \in Sessions : Balanced(ses'[s])
    BY <1>1, <1>19 DEF vars, IInv, TypeOK
  <2>2. ResultLost'
    BY <1>19 DEF vars, IInv, ResultLost
  <2>3. QED
    BY <2>1, <2>2 DEF IInv
<1>20. QED
  BY <1>3, <1>4, <1>5, <1>6, <1>7, <1>9, <1>10, <1>11, <1>12, <1>13, <1>14, <1>15, <1>16,
     <1>17, <1>18, <1>19 DEF Next

-----------------------------------------------------------------------------

(* The invariant holds of both programs in every state they reach.         *)
THEOREM PingPongInvariant == Spec => []IInv
BY InitIInv, NextIInv, PTL DEF Spec

(* The state is what it is declared to be; in particular counter never     *)
(* falls below zero and what onTimeout prints is a number.                 *)
THEOREM PingPongTypeOK == Spec => []TypeOK
<1>1. IInv => TypeOK
  BY DEF IInv
<1>2. QED
  BY <1>1, PingPongInvariant, PTL

(* No byte comes back that was not sent, none is missing between two open  *)
(* ends of a whole connection, and until its shutdown a session always has *)
(* a block pending or on its way (client.cc's onReadData, server.cc's      *)
(* on_read_client).                                                        *)
THEOREM PingPongConserved == Spec => []Conserved
<1>1. IInv => Conserved
  BY PingPongAssumption
     DEF IInv, TypeOK, SessionType, Conserved, Balanced, Counted, Answered
<1>2. QED
  BY <1>1, PingPongInvariant, PTL

(* counter lies between the sessions still alive and those that have not   *)
(* failed, and no result is printed only when all failed or one was closed *)
(* before the timer fired (client.cc's onTimeout and onConnect).           *)
THEOREM PingPongResultLost == Spec => []ResultLost
<1>1. IInv => ResultLost
  BY DEF IInv
<1>2. QED
  BY <1>1, PingPongInvariant, PTL
=============================================================================
