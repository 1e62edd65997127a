-------------------------- MODULE EventLoopProofs --------------------------
(***************************************************************************)
(* Proofs about EventLoop for every value of its constants, safety only.   *)
(* Each invariant has a strengthening that speaks of the other places of   *)
(* the loop too, where the property itself would not be inductive.         *)
(***************************************************************************)
EXTENDS EventLoop, TLAPS

USE EventLoopAssumption

\* The Boolean part of TypeOK, which gets steps of its own below.
Flags == ready_to_send \in BOOLEAN /\ armed \in BOOLEAN /\ late \in BOOLEAN

LEMMA LoopTypeInit == Init => TypeOK
<1> SUFFICES ASSUME Init PROVE TypeOK
  OBVIOUS
<1>1. Flags
  BY Zenon DEF Init, Flags
<1>2. inq \in Seq(Nat) /\ sendq \in Seq(Nat) /\ sent \in Seq(Nat)
  BY DEF Init
<1>3. sndbuf \in 0 .. SndCap /\ next \in 1 .. (MaxDatagrams + 1) /\ signals \in 0 .. MaxSignals
  BY DEF Init
<1>4. /\ pc \in {"check", "drain", "wait", "blocked", "recv", "out", "exited", "failed"}
      /\ events \subseteq {"IN", "OUT"} /\ last_signal \in Signals \cup {"none"}
      /\ answered \subseteq Nat /\ lost \subseteq Nat
  BY DEF Init
<1> QED
  BY <1>1, <1>2, <1>3, <1>4, Zenon DEF TypeOK, Flags

LEMMA LoopTypeStep == TypeOK /\ [Next]_vars => TypeOK'
<1> SUFFICES ASSUME TypeOK, [Next]_vars PROVE TypeOK'
  OBVIOUS
<1> USE DEF TypeOK, loop, kernel, signal, history
<1>1. CASE CheckSignal
  BY <1>1 DEF CheckSignal
<1>2. CASE SendOk
  <2>1. Head(sendq) \in Nat /\ Tail(sendq) \in Seq(Nat)
    BY <1>2 DEF SendOk
  <2> QED
    BY <1>2, <2>1 DEF SendOk
<1>3. CASE SendError
  <2>1. Head(sendq) \in Nat /\ Tail(sendq) \in Seq(Nat)
    BY <1>3 DEF SendError
  <2> QED
    BY <1>3, <2>1 DEF SendError
<1>4. CASE SendWouldBlock
  BY <1>4 DEF SendWouldBlock
<1>5. CASE DrainDone
  BY <1>5 DEF DrainDone
<1>6. CASE epoll_wait
  BY <1>6 DEF epoll_wait, Readiness
<1>7. CASE Recv
  <2>1. Head(inq) \in Nat /\ Tail(inq) \in Seq(Nat)
    BY <1>7 DEF Recv
  <2> DEFINE d == Head(inq)
  <2> HIDE DEF d
  <2>a. d \in Nat
    BY <2>1 DEF d
  <2>b. inq' = Tail(inq)
    BY <1>7 DEF Recv
  <2>c. \/ sendq' = Append(sendq, d) /\ answered' = answered \cup {d}
        \/ sendq' = sendq /\ answered' = answered
    BY <1>7 DEF Recv, enqueue_datagram, d
  <2>d. Append(sendq, d) \in Seq(Nat) /\ answered \cup {d} \subseteq Nat
    BY <2>a
  <2>2. inq' \in Seq(Nat) /\ sendq' \in Seq(Nat) /\ answered' \subseteq Nat
    BY <2>1, <2>b, <2>c, <2>d
  <2>3. pc' \in {"recv", "failed"}
    BY <1>7 DEF Recv
  <2> QED
    BY <1>7, <2>2, <2>3 DEF Recv
<1>8. CASE RecvDone
  BY <1>8 DEF RecvDone
<1>9. CASE SetReady
  <2>1. ready_to_send' \in BOOLEAN
    BY <1>9, Zenon DEF SetReady
  <2> QED
    BY <1>9, <2>1 DEF SetReady
<1>10. CASE Arrive
  <2>1. next \in Nat /\ Append(inq, next) \in Seq(Nat)
    OBVIOUS
  <2>2. inq' \in Seq(Nat) /\ armed' \in BOOLEAN
    BY <1>10, <2>1 DEF Arrive
  <2>3. next' \in 1 .. (MaxDatagrams + 1)
    BY <1>10 DEF Arrive
  <2> QED
    BY <1>10, <2>2, <2>3 DEF Arrive
<1>11. CASE Transmit
  <2>1. armed' \in BOOLEAN
    BY <1>11, Zenon DEF Transmit
  <2> QED
    BY <1>11, <2>1 DEF Transmit
<1>12. ASSUME NEW s \in Signals, Signal(s) PROVE TypeOK'
  <2>1. late' \in BOOLEAN
    <3>1. late' = late \/ late' = (pc \in {"drain", "wait"})
      BY <1>12 DEF Signal
    <3>2. late \in BOOLEAN
      BY Zenon
    <3>3. (pc \in {"drain", "wait"}) \in BOOLEAN
      OBVIOUS
    <3> QED
      BY <3>1, <3>2, <3>3
  <2>2. /\ pc' \in {"check", "drain", "wait", "blocked", "recv", "out", "exited", "failed"}
        /\ last_signal' \in Signals \cup {"none"}
        /\ signals' \in 0 .. MaxSignals
    BY <1>12 DEF Signal
  <2> QED
    BY <1>12, <2>1, <2>2 DEF Signal
<1>13. CASE UNCHANGED vars
  BY <1>13 DEF vars
<1> QED
  BY <1>1, <1>2, <1>3, <1>4, <1>5, <1>6, <1>7, <1>8, <1>9, <1>10, <1>11, <1>12, <1>13
  DEF Next, poll_loop

\* Every state of the loop is well typed; in particular a datagram never enters a full
\* send buffer.
THEOREM LoopTypeCorrect == Spec => []TypeOK
BY LoopTypeInit, LoopTypeStep, PTL DEF Spec

-----------------------------------------------------------------------------
(* No lost input.  Outside the reading of the buffer, where it is being    *)
(* emptied, a datagram in the buffer has its event due.                    *)

InputInv == pc # "recv" /\ ~ Ended /\ inq # <<>> => armed

LEMMA InputStep == TypeOK /\ InputInv /\ [Next]_vars => InputInv'
<1> SUFFICES ASSUME TypeOK, InputInv, [Next]_vars PROVE InputInv'
  OBVIOUS
<1> USE DEF InputInv, Ended, loop, kernel, signal, history
<1>1. CASE CheckSignal \/ SendOk \/ SendError \/ SendWouldBlock \/ DrainDone
  BY <1>1 DEF CheckSignal, SendOk, SendError, SendWouldBlock, DrainDone
<1>2. CASE epoll_wait
  BY <1>2 DEF epoll_wait, Readiness
<1>3. CASE Recv \/ RecvDone \/ SetReady
  BY <1>3 DEF Recv, RecvDone, SetReady
<1>4. CASE Arrive
  BY <1>4 DEF Arrive
<1>5. CASE Transmit
  BY <1>5 DEF Transmit
<1>6. ASSUME NEW s \in Signals, Signal(s) PROVE InputInv'
  BY <1>6 DEF Signal
<1>7. CASE UNCHANGED vars
  BY <1>7 DEF vars
<1> QED
  BY <1>1, <1>2, <1>3, <1>4, <1>5, <1>6, <1>7 DEF Next, poll_loop

\* poll_loop never sleeps on an unread datagram without an event due for it.
THEOREM InputNotLost == Spec => []NoLostInput
<1>1. Init => InputInv
  BY DEF Init, InputInv
<1>2. InputInv => NoLostInput
  BY DEF InputInv, NoLostInput, Ended
<1> QED
  BY <1>1, <1>2, InputStep, LoopTypeCorrect, PTL DEF Spec

-----------------------------------------------------------------------------
(* No stranded reply.  While ready_to_send is false an EPOLLOUT is under   *)
(* way: on the ready list, in the events being handled, or after the next  *)
(* transmissions.  While it is true, the loop reaches epoll_wait with an   *)
(* empty queue only.                                                       *)

OutComing ==
  armed \/ 2 * sndbuf >= SndCap \/ (pc \in {"recv", "out"} /\ "OUT" \in events)

ReplyInv ==
  /\ ~ Ended /\ ~ ready_to_send => OutComing
  /\ pc \in {"wait", "blocked"} /\ ready_to_send => sendq = <<>>

LEMMA ReplyStep == TypeOK /\ ReplyInv /\ [Next]_vars => ReplyInv'
<1> SUFFICES ASSUME TypeOK, ReplyInv, [Next]_vars PROVE ReplyInv'
  OBVIOUS
<1> USE DEF TypeOK, ReplyInv, OutComing, Ended, loop, kernel, signal, history
<1>1. CASE CheckSignal
  BY <1>1 DEF CheckSignal
<1>2. CASE SendOk \/ SendError
  BY <1>2 DEF SendOk, SendError
<1>3. CASE SendWouldBlock \/ DrainDone
  BY <1>3 DEF SendWouldBlock, DrainDone
<1>4. CASE epoll_wait
  BY <1>4 DEF epoll_wait, Readiness
<1>5. CASE Recv \/ RecvDone \/ SetReady
  BY <1>5 DEF Recv, RecvDone, SetReady
<1>6. CASE Arrive
  BY <1>6 DEF Arrive
<1>7. CASE Transmit
  <2>1. CASE 2 * sndbuf' <= SndCap
    <3>1. armed'
      BY <1>7, <2>1, Zenon DEF Transmit
    <3> QED
      BY <1>7, <3>1 DEF Transmit
  <2>2. CASE ~ (2 * sndbuf' <= SndCap)
    <3>1. 2 * sndbuf' >= SndCap
      BY <1>7, <2>2 DEF Transmit
    <3> QED
      BY <1>7, <3>1 DEF Transmit
  <2> QED
    BY <2>1, <2>2
<1>8. ASSUME NEW s \in Signals, Signal(s) PROVE ReplyInv'
  BY <1>8 DEF Signal
<1>9. CASE UNCHANGED vars
  BY <1>9 DEF vars
<1> QED
  BY <1>1, <1>2, <1>3, <1>4, <1>5, <1>6, <1>7, <1>8, <1>9 DEF Next, poll_loop

\* poll_loop never sleeps on queued replies unless the send buffer was full and an
\* EPOLLOUT is due or will be.
THEOREM RepliesNotStranded == Spec => []NoStrandedReply
<1>1. Init => ReplyInv
  BY DEF Init, ReplyInv, OutComing
<1>2. ReplyInv => NoStrandedReply
  BY DEF ReplyInv, OutComing, NoStrandedReply, Ended
<1> QED
  BY <1>1, <1>2, ReplyStep, LoopTypeCorrect, PTL DEF Spec

-----------------------------------------------------------------------------
(* A missed stop signal.                                                   *)

StopInv == pc \in {"drain", "wait", "blocked"} /\ last_signal \in StopSignals => late

LEMMA StopStep == TypeOK /\ StopInv /\ [Next]_vars => StopInv'
<1> SUFFICES ASSUME TypeOK, StopInv, [Next]_vars PROVE StopInv'
  OBVIOUS
<1> USE DEF StopInv, loop, kernel, signal, history
<1>1. CASE CheckSignal \/ SendOk \/ SendError \/ SendWouldBlock \/ DrainDone
  BY <1>1 DEF CheckSignal, SendOk, SendError, SendWouldBlock, DrainDone
<1>2. CASE epoll_wait \/ Recv \/ RecvDone \/ SetReady
  BY <1>2 DEF epoll_wait, Recv, RecvDone, SetReady
<1>3. CASE Arrive \/ Transmit
  BY <1>3 DEF Arrive, Transmit
<1>4. ASSUME NEW s \in Signals, Signal(s) PROVE StopInv'
  BY <1>4 DEF Signal, TypeOK
<1>5. CASE UNCHANGED vars
  BY <1>5 DEF vars
<1> QED
  BY <1>1, <1>2, <1>3, <1>4, <1>5 DEF Next, poll_loop

\* The loop sleeps in spite of a stop signal only when the signal came between the test
\* of last_signal and epoll_wait.
THEOREM StopWindow == Spec => []StopMissedOnlyInWindow
<1>1. Init => StopInv
  BY DEF Init, StopInv, StopSignals
<1>2. StopInv => StopMissedOnlyInWindow
  BY DEF StopInv, StopMissedOnlyInWindow
<1> QED
  BY <1>1, <1>2, StopStep, LoopTypeCorrect, PTL DEF Spec
-----------------------------------------------------------------------------
(* No queued reply vanishes.                                               *)

LEMMA RangeOfAppend ==
  ASSUME NEW s \in Seq(Nat), NEW e \in Nat
  PROVE  Range(Append(s, e)) = Range(s) \cup {e}
<1>1. DOMAIN Append(s, e) = 1 .. (Len(s) + 1) /\ DOMAIN s = 1 .. Len(s) /\ Len(s) \in Nat
  OBVIOUS
<1>2. \A i \in 1 .. (Len(s) + 1) :
        Append(s, e)[i] = IF i = Len(s) + 1 THEN e ELSE s[i]
  OBVIOUS
<1>3. Range(Append(s, e)) \subseteq Range(s) \cup {e}
  BY <1>1, <1>2 DEF Range
<1>4. e \in Range(Append(s, e))
  <2>1. Len(s) + 1 \in DOMAIN Append(s, e) /\ Append(s, e)[Len(s) + 1] = e
    BY <1>1, <1>2
  <2> QED
    BY <2>1 DEF Range
<1>5. Range(s) \subseteq Range(Append(s, e))
  <2>1. \A i \in DOMAIN s : i \in DOMAIN Append(s, e) /\ Append(s, e)[i] = s[i]
    BY <1>1, <1>2
  <2> QED
    BY <2>1 DEF Range
<1> QED
  BY <1>3, <1>4, <1>5

LEMMA RangeOfHeadAndTail ==
  ASSUME NEW s \in Seq(Nat), s # <<>>
  PROVE  Range(s) = {Head(s)} \cup Range(Tail(s))
<1>1. /\ Len(s) \in Nat /\ Len(s) >= 1
      /\ DOMAIN s = 1 .. Len(s) /\ DOMAIN Tail(s) = 1 .. (Len(s) - 1)
      /\ Head(s) = s[1]
      /\ \A i \in 1 .. (Len(s) - 1) : Tail(s)[i] = s[i + 1]
  OBVIOUS
<1>2. {Head(s)} \cup Range(Tail(s)) \subseteq Range(s)
  <2>1. 1 \in DOMAIN s
    BY <1>1
  <2>2. \A i \in DOMAIN Tail(s) : i + 1 \in DOMAIN s /\ Tail(s)[i] = s[i + 1]
    BY <1>1
  <2> QED
    BY <1>1, <2>1, <2>2 DEF Range
<1>3. Range(s) \subseteq {Head(s)} \cup Range(Tail(s))
  <2>1. \A i \in DOMAIN s :
          i = 1 \/ (i - 1 \in DOMAIN Tail(s) /\ Tail(s)[i - 1] = s[i])
    BY <1>1
  <2> QED
    BY <1>1, <2>1 DEF Range
<1> QED
  BY <1>2, <1>3

LEMMA VanishStep == TypeOK /\ NothingVanishes /\ [Next]_vars => NothingVanishes'
<1> SUFFICES ASSUME TypeOK, NothingVanishes, [Next]_vars PROVE NothingVanishes'
  OBVIOUS
<1> USE DEF NothingVanishes, loop, kernel, signal, history
<1>0. sent \in Seq(Nat) /\ sendq \in Seq(Nat) /\ inq \in Seq(Nat)
  BY DEF TypeOK
<1>1. CASE SendOk
  <2>1. Head(sendq) \in Nat
    BY <1>0, <1>1 DEF SendOk
  <2>2. Range(sent') = Range(sent) \cup {Head(sendq)}
    BY <1>0, <1>1, <2>1, RangeOfAppend DEF SendOk
  <2>3. Range(sendq) = {Head(sendq)} \cup Range(sendq')
    BY <1>0, <1>1, RangeOfHeadAndTail DEF SendOk
  <2>4. UNCHANGED <<answered, lost>>
    BY <1>1 DEF SendOk
  <2> QED
    BY <2>2, <2>3, <2>4
<1>2. CASE SendError
  <2>1. Range(sendq) = {Head(sendq)} \cup Range(sendq')
    BY <1>0, <1>2, RangeOfHeadAndTail DEF SendError
  <2>2. lost' = lost \cup {Head(sendq)} /\ UNCHANGED <<answered, sent>>
    BY <1>2 DEF SendError
  <2> QED
    BY <2>1, <2>2
<1>3. CASE Recv
  <2>1. Head(inq) \in Nat
    BY <1>0, <1>3 DEF Recv
  <2>2. UNCHANGED <<sent, lost>>
    BY <1>3 DEF Recv
  <2>3. CASE sendq' = Append(sendq, Head(inq)) /\ answered' = answered \cup {Head(inq)}
    <3>1. Range(sendq') = Range(sendq) \cup {Head(inq)}
      BY <1>0, <2>1, <2>3, RangeOfAppend
    <3> QED
      BY <2>2, <2>3, <3>1
  <2>4. CASE UNCHANGED <<sendq, answered>>
    BY <2>2, <2>4
  <2> QED
    BY <1>3, <2>3, <2>4 DEF Recv, enqueue_datagram
<1>4. CASE CheckSignal \/ SendWouldBlock \/ DrainDone \/ epoll_wait \/ RecvDone \/ SetReady
  BY <1>4 DEF CheckSignal, SendWouldBlock, DrainDone, epoll_wait, RecvDone, SetReady
<1>5. CASE Arrive \/ Transmit \/ \E s \in Signals : Signal(s)
  BY <1>5 DEF Arrive, Transmit, Signal
<1>6. CASE UNCHANGED vars
  BY <1>6 DEF vars
<1> QED
  BY <1>1, <1>2, <1>3, <1>4, <1>5, <1>6 DEF Next, poll_loop

\* A reply handed to enqueue_datagram is sent, still queued or dropped by an error of
\* sendto other than EWOULDBLOCK.
THEOREM RepliesAccountedFor == Spec => []NothingVanishes
<1>1. Init => NothingVanishes
  BY DEF Init, NothingVanishes, Range
<1> QED
  BY <1>1, VanishStep, LoopTypeCorrect, PTL DEF Spec

-----------------------------------------------------------------------------
(* Replies leave in order.                                                 *)

Increasing(s) == \A i, j \in DOMAIN s : i < j => s[i] < s[j]
Before(s, t) == \A i \in DOMAIN s, j \in DOMAIN t : s[i] < t[j]
Below(s, e) == \A i \in DOMAIN s : s[i] < e
Above(e, s) == \A i \in DOMAIN s : e < s[i]

\* The three sequences are increasing, each lies before the next, and all that has
\* arrived has a smaller number than what will.
OrderInv ==
  /\ Increasing(sent) /\ Increasing(sendq) /\ Increasing(inq)
  /\ Before(sent, sendq) /\ Before(sent, inq) /\ Before(sendq, inq)
  /\ Below(sent, next) /\ Below(sendq, next) /\ Below(inq, next)

LEMMA IncreasingConcat ==
  ASSUME NEW s \in Seq(Nat), NEW t \in Seq(Nat), Increasing(s), Increasing(t), Before(s, t)
  PROVE  Increasing(s \o t)
<1>1. /\ Len(s) \in Nat /\ Len(t) \in Nat
      /\ DOMAIN s = 1 .. Len(s) /\ DOMAIN t = 1 .. Len(t)
      /\ DOMAIN (s \o t) = 1 .. (Len(s) + Len(t))
      /\ \A i \in 1 .. (Len(s) + Len(t)) :
           (s \o t)[i] = IF i <= Len(s) THEN s[i] ELSE t[i - Len(s)]
  OBVIOUS
<1> SUFFICES ASSUME NEW i \in DOMAIN (s \o t), NEW j \in DOMAIN (s \o t), i < j
             PROVE  (s \o t)[i] < (s \o t)[j]
  BY DEF Increasing
<1>2. CASE j <= Len(s)
  <2>1. i \in DOMAIN s /\ j \in DOMAIN s /\ (s \o t)[i] = s[i] /\ (s \o t)[j] = s[j]
    BY <1>1, <1>2
  <2> QED
    BY <2>1 DEF Increasing
<1>3. CASE i <= Len(s) /\ j > Len(s)
  <2>1. i \in DOMAIN s /\ j - Len(s) \in DOMAIN t /\ (s \o t)[i] = s[i]
          /\ (s \o t)[j] = t[j - Len(s)]
    BY <1>1, <1>3
  <2> QED
    BY <2>1 DEF Before
<1>4. CASE i > Len(s)
  <2>1. /\ i - Len(s) \in DOMAIN t /\ j - Len(s) \in DOMAIN t
        /\ i - Len(s) < j - Len(s)
        /\ (s \o t)[i] = t[i - Len(s)] /\ (s \o t)[j] = t[j - Len(s)]
    BY <1>1, <1>4
  <2> QED
    BY <2>1 DEF Increasing
<1> QED
  BY <1>1, <1>2, <1>3, <1>4

LEMMA BeforeConcat ==
  ASSUME NEW s \in Seq(Nat), NEW t \in Seq(Nat), NEW u \in Seq(Nat),
         Before(s, u), Before(t, u)
  PROVE  Before(s \o t, u)
<1>1. /\ Len(s) \in Nat /\ Len(t) \in Nat
      /\ DOMAIN s = 1 .. Len(s) /\ DOMAIN t = 1 .. Len(t)
      /\ DOMAIN (s \o t) = 1 .. (Len(s) + Len(t))
      /\ \A i \in 1 .. (Len(s) + Len(t)) :
           (s \o t)[i] = IF i <= Len(s) THEN s[i] ELSE t[i - Len(s)]
  OBVIOUS
<1> SUFFICES ASSUME NEW i \in DOMAIN (s \o t), NEW j \in DOMAIN u
             PROVE  (s \o t)[i] < u[j]
  BY DEF Before
<1>2. CASE i <= Len(s)
  BY <1>1, <1>2 DEF Before
<1>3. CASE i > Len(s)
  <2>1. i - Len(s) \in DOMAIN t /\ (s \o t)[i] = t[i - Len(s)]
    BY <1>1, <1>3
  <2> QED
    BY <2>1 DEF Before
<1> QED
  BY <1>1, <1>2, <1>3

LEMMA OrderImplies == TypeOK /\ OrderInv => InOrder
<1> SUFFICES ASSUME TypeOK, OrderInv PROVE InOrder
  OBVIOUS
<1>1. sent \in Seq(Nat) /\ sendq \in Seq(Nat) /\ inq \in Seq(Nat) /\ sent \o sendq \in Seq(Nat)
  BY DEF TypeOK
<1>2. Increasing(sent \o sendq) /\ Before(sent \o sendq, inq)
  BY <1>1, IncreasingConcat, BeforeConcat DEF OrderInv
<1>3. Increasing((sent \o sendq) \o inq)
  BY <1>1, <1>2, IncreasingConcat DEF OrderInv
<1> QED
  BY <1>3 DEF InOrder, Increasing
\* Appending a number above all others keeps the order.
LEMMA AppendOrder ==
  ASSUME NEW s \in Seq(Nat), NEW t \in Seq(Nat), NEW e \in Nat
  PROVE  /\ Increasing(s) /\ Below(s, e) => Increasing(Append(s, e))
         /\ Before(s, t) /\ Above(e, t) => Before(Append(s, e), t)
         /\ Before(t, s) /\ Below(t, e) => Before(t, Append(s, e))
         /\ \A n \in Nat : Below(s, n) /\ e < n => Below(Append(s, e), n)
<1>1. /\ Len(s) \in Nat /\ DOMAIN s = 1 .. Len(s)
      /\ DOMAIN Append(s, e) = 1 .. (Len(s) + 1)
      /\ \A i \in 1 .. (Len(s) + 1) : Append(s, e)[i] = IF i = Len(s) + 1 THEN e ELSE s[i]
  OBVIOUS
<1>2. \A i \in DOMAIN Append(s, e) :
        \/ i = Len(s) + 1 /\ Append(s, e)[i] = e
        \/ i \in DOMAIN s /\ Append(s, e)[i] = s[i]
  BY <1>1
<1>3. ASSUME Increasing(s), Below(s, e) PROVE Increasing(Append(s, e))
  <2> SUFFICES ASSUME NEW i \in DOMAIN Append(s, e), NEW j \in DOMAIN Append(s, e), i < j
               PROVE  Append(s, e)[i] < Append(s, e)[j]
    BY DEF Increasing
  <2>1. i \in DOMAIN s /\ Append(s, e)[i] = s[i]
    BY <1>1, <1>2
  <2> QED
    BY <1>2, <1>3, <2>1 DEF Increasing, Below
<1>4. ASSUME Before(s, t), Above(e, t) PROVE Before(Append(s, e), t)
  BY <1>2, <1>4 DEF Before, Above
<1>5. ASSUME Before(t, s), Below(t, e) PROVE Before(t, Append(s, e))
  BY <1>2, <1>5 DEF Before, Below
<1>6. ASSUME NEW n \in Nat, Below(s, n), e < n PROVE Below(Append(s, e), n)
  BY <1>2, <1>6 DEF Below
<1> QED
  BY <1>3, <1>4, <1>5, <1>6

\* Removing the head keeps the order, and the head is below the rest.
LEMMA TailOrder ==
  ASSUME NEW s \in Seq(Nat), NEW t \in Seq(Nat), s # <<>>
  PROVE  /\ Increasing(s) => Increasing(Tail(s)) /\ Above(Head(s), Tail(s))
         /\ Before(s, t) => Before(Tail(s), t) /\ Above(Head(s), t)
         /\ Before(t, s) => Before(t, Tail(s)) /\ Below(t, Head(s))
         /\ \A n \in Nat : Below(s, n) => Below(Tail(s), n) /\ Head(s) < n
<1>1. /\ Len(s) \in Nat /\ Len(s) >= 1 /\ DOMAIN s = 1 .. Len(s)
      /\ DOMAIN Tail(s) = 1 .. (Len(s) - 1) /\ Head(s) = s[1]
      /\ \A i \in 1 .. (Len(s) - 1) : Tail(s)[i] = s[i + 1]
  OBVIOUS
<1>2. \A i \in DOMAIN Tail(s) : i \in Nat /\ i + 1 \in DOMAIN s /\ 1 < i + 1 /\ Tail(s)[i] = s[i + 1]
  BY <1>1
<1>3. 1 \in DOMAIN s
  BY <1>1
<1>4. ASSUME Increasing(s) PROVE Increasing(Tail(s))
  <2> SUFFICES ASSUME NEW i \in DOMAIN Tail(s), NEW j \in DOMAIN Tail(s), i < j
               PROVE  Tail(s)[i] < Tail(s)[j]
    BY DEF Increasing
  <2>1. i + 1 < j + 1
    BY <1>2
  <2> QED
    BY <1>2, <1>4, <2>1 DEF Increasing
<1>5. ASSUME Increasing(s) PROVE Above(Head(s), Tail(s))
  BY <1>1, <1>2, <1>3, <1>5 DEF Increasing, Above
<1>6. ASSUME Before(s, t) PROVE Before(Tail(s), t) /\ Above(Head(s), t)
  BY <1>1, <1>2, <1>3, <1>6 DEF Before, Above
<1>7. ASSUME Before(t, s) PROVE Before(t, Tail(s)) /\ Below(t, Head(s))
  BY <1>1, <1>2, <1>3, <1>7 DEF Before, Below
<1>8. ASSUME NEW n \in Nat, Below(s, n) PROVE Below(Tail(s), n) /\ Head(s) < n
  BY <1>1, <1>2, <1>3, <1>8 DEF Below
<1> QED
  BY <1>4, <1>5, <1>6, <1>7, <1>8

LEMMA OrderStep == TypeOK /\ OrderInv /\ [Next]_vars => OrderInv'
<1> SUFFICES ASSUME TypeOK, OrderInv, [Next]_vars PROVE OrderInv'
  OBVIOUS
<1> USE DEF OrderInv, loop, kernel, signal, history
<1>0. sent \in Seq(Nat) /\ sendq \in Seq(Nat) /\ inq \in Seq(Nat) /\ next \in Nat
  BY DEF TypeOK
<1>1. CASE SendOk
  <2>0. /\ sendq # <<>> /\ sent' = Append(sent, Head(sendq)) /\ sendq' = Tail(sendq)
        /\ inq' = inq /\ next' = next
        /\ Head(sendq) \in Nat /\ Tail(sendq) \in Seq(Nat)
    BY <1>0, <1>1 DEF SendOk
  <2>1. Increasing(sent') /\ Increasing(sendq') /\ Increasing(inq')
    BY <1>0, <2>0, AppendOrder, TailOrder
  <2>2. Before(sent, Tail(sendq)) /\ Above(Head(sendq), Tail(sendq))
    BY <1>0, <2>0, TailOrder
  <2>3. Before(sent', sendq')
    BY <1>0, <2>0, <2>2, AppendOrder
  <2>4. Before(sent', inq') /\ Before(sendq', inq')
    BY <1>0, <2>0, AppendOrder, TailOrder
  <2>5. Below(sent', next') /\ Below(sendq', next') /\ Below(inq', next')
    BY <1>0, <2>0, AppendOrder, TailOrder
  <2> QED
    BY <2>1, <2>3, <2>4, <2>5
<1>2. CASE SendError
  <2>0. /\ sendq # <<>> /\ sendq' = Tail(sendq) /\ UNCHANGED <<sent, inq, next>>
    BY <1>2 DEF SendError
  <2> QED
    BY <1>0, <2>0, TailOrder
<1>3. CASE Recv
  <2>0. /\ inq # <<>> /\ inq' = Tail(inq) /\ UNCHANGED <<sent, next>>
        /\ Head(inq) \in Nat /\ Tail(inq) \in Seq(Nat)
    BY <1>0, <1>3 DEF Recv
  <2>1. CASE sendq' = sendq
    BY <1>0, <2>0, <2>1, TailOrder
  <2>2. CASE sendq' = Append(sendq, Head(inq))
    <3>1. Increasing(sent') /\ Increasing(sendq') /\ Increasing(inq')
      BY <1>0, <2>0, <2>2, AppendOrder, TailOrder
    <3>2. Before(sendq, Tail(inq)) /\ Above(Head(inq), Tail(inq))
      BY <1>0, <2>0, TailOrder
    <3>3. Before(sendq', inq')
      BY <1>0, <2>0, <2>2, <3>2, AppendOrder
    <3>4. Below(sent, Head(inq)) /\ Before(sent', inq')
      BY <1>0, <2>0, TailOrder
    <3>5. Before(sent', sendq')
      BY <1>0, <2>0, <2>2, <3>4, AppendOrder
    <3>6. Below(sent', next') /\ Below(sendq', next') /\ Below(inq', next')
      BY <1>0, <2>0, <2>2, AppendOrder, TailOrder
    <3> QED
      BY <3>1, <3>3, <3>4, <3>5, <3>6
  <2> QED
    BY <1>3, <2>1, <2>2 DEF Recv, enqueue_datagram
<1>4. CASE Arrive
  <2>0. /\ next' = next + 1 /\ UNCHANGED <<sent, sendq>>
        /\ inq' = inq \/ inq' = Append(inq, next)
    BY <1>4 DEF Arrive
  <2>1. Below(sent', next') /\ Below(sendq', next') /\ Below(inq, next')
    BY <1>0, <2>0 DEF Below
  <2>2. CASE inq' = inq
    BY <2>0, <2>1, <2>2
  <2>3. CASE inq' = Append(inq, next)
    <3>1. Increasing(inq') /\ Before(sent', inq') /\ Before(sendq', inq')
      BY <1>0, <2>0, <2>3, AppendOrder
    <3>2. Below(inq', next')
      BY <1>0, <2>0, <2>1, <2>3, AppendOrder
    <3> QED
      BY <2>0, <2>1, <3>1, <3>2
  <2> QED
    BY <2>0, <2>2, <2>3
<1>5. CASE CheckSignal \/ SendWouldBlock \/ DrainDone \/ epoll_wait \/ RecvDone \/ SetReady
  BY <1>5 DEF CheckSignal, SendWouldBlock, DrainDone, epoll_wait, RecvDone, SetReady
<1>6. CASE Transmit \/ \E s \in Signals : Signal(s)
  BY <1>6 DEF Transmit, Signal
<1>7. CASE UNCHANGED vars
  BY <1>7 DEF vars
<1> QED
  BY <1>1, <1>2, <1>3, <1>4, <1>5, <1>6, <1>7 DEF Next, poll_loop

\* Replies reach the kernel in the order in which their datagrams arrived, each once.
THEOREM RepliesInOrder == Spec => []InOrder
<1>1. Init => OrderInv
  BY DEF Init, OrderInv, Increasing, Before, Below
<1> QED
  BY <1>1, OrderStep, OrderImplies, LoopTypeCorrect, PTL DEF Spec
=============================================================================
