----------------------------- MODULE EventLoop -----------------------------
(***************************************************************************)
(* The event loop of tinydhcpd: Epoll::poll_loop (src/epoll.hpp) driving   *)
(* handle_epollin and handle_epollout of the socket (src/socket.cpp), with *)
(* the signal handler (src/daemon.cpp, src/main.cpp) and the parts of the  *)
(* kernel they rely on: the two socket buffers and an epoll instance in    *)
(* edge-triggered mode.                                                    *)
(*                                                                         *)
(* One action per system call or test of last_signal, so that signals,     *)
(* arriving datagrams and the network card interleave with the loop where  *)
(* they can in the program.  What a datagram does to the lease table is in *)
(* module Daemon; here it is answered, ignored, or it ends the process.    *)
(***************************************************************************)
EXTENDS Integers, Sequences, Functions

CONSTANTS
  Handled,        \* the signals sighandler is installed for: INT, TERM and HUP in the
                  \* foreground and under systemd, TERM alone after the SysV daemonize
  RcvCap,         \* datagrams the receive buffer of the socket holds
  SndCap,         \* datagrams the send buffer of the socket holds
  MaxDatagrams,   \* bound: datagrams that arrive, numbered in order of arrival
  MaxSignals      \* bound: signals that are sent

StopSignals == {"INT", "TERM"}
Signals == StopSignals \cup {"HUP", "KILL"}   \* KILL: any signal nobody can handle
Datagrams == 1 .. MaxDatagrams

ASSUME EventLoopAssumption ==
  /\ Handled \subseteq Signals \ {"KILL"}
  /\ RcvCap \in Nat \ {0} /\ SndCap \in Nat \ {0}
  /\ MaxDatagrams \in Nat /\ MaxSignals \in Nat

VARIABLES
  pc,             \* where the loop is: the test of last_signal (check), sendto (drain),
                  \* before (wait) and inside (blocked) epoll_wait, recvmsg (recv), the
                  \* test for EPOLLOUT (out); exited after write_leases, failed without
  ready_to_send,
  events,         \* events[0].events as a set
  last_signal,
  sendq,          \* Socket::_send_queue: each reply is the number of its datagram
  inq, sndbuf,    \* kernel: receive buffer, number of datagrams in the send buffer
  armed,          \* kernel: the socket is on the ready list of the epoll instance
  next,           \* the number of the next datagram
  signals,        \* signals sent so far
  late,           \* history: last_signal was set after its test, before the loop slept
  answered,       \* history: the datagrams a reply was queued for
  sent, lost      \* history: replies handed to the kernel in order; replies dropped

loop == <<pc, ready_to_send, events, sendq>>
kernel == <<inq, sndbuf, armed>>
signal == <<last_signal, signals, late>>
history == <<answered, sent, lost>>
vars == <<loop, kernel, signal, next, history>>

Ended == pc \in {"exited", "failed"}

-----------------------------------------------------------------------------
(* The kernel.  A datagram in the receive buffer is EPOLLIN; less than     *)
(* half a send buffer in use is EPOLLOUT.  The socket joins the ready list *)
(* when a datagram arrives and when a transmission leaves at most half of  *)
(* the send buffer in use; epoll_wait takes it off the list.               *)

Readiness ==
  (IF inq # <<>> THEN {"IN"} ELSE {}) \cup (IF 2 * sndbuf < SndCap THEN {"OUT"} ELSE {})

\* A datagram arrives; a full receive buffer drops it.
Arrive ==
  /\ ~ Ended /\ next <= MaxDatagrams
  /\ next' = next + 1
  /\ IF Len(inq) < RcvCap
     THEN inq' = Append(inq, next) /\ armed' = TRUE
     ELSE UNCHANGED <<inq, armed>>
  /\ UNCHANGED <<loop, sndbuf, signal, history>>

\* The card has sent a datagram.
Transmit ==
  /\ ~ Ended /\ sndbuf > 0
  /\ sndbuf' = sndbuf - 1
  /\ armed' = (armed \/ 2 * sndbuf' <= SndCap)
  /\ UNCHANGED <<loop, inq, signal, next, history>>

-----------------------------------------------------------------------------
(* Signals.                                                                *)

Signal_NoInterrupt(s) ==
  /\ ~ Ended /\ signals < MaxSignals
  /\ signals' = signals + 1
  /\ IF s \in Handled
     THEN last_signal' = s /\ late' = (pc \in {"drain", "wait"}) /\ UNCHANGED pc
     ELSE pc' = "failed" /\ UNCHANGED <<last_signal, late>>
  /\ UNCHANGED <<ready_to_send, events, sendq, kernel, next, history>>

\* sighandler stores the signal over the one before.  It interrupts epoll_wait when
\* the loop sleeps there, and nothing else; a signal without handler ends the process.
Signal(s) ==
  /\ ~ Ended /\ signals < MaxSignals
  /\ signals' = signals + 1
  /\ IF s \in Handled
     THEN /\ last_signal' = s
          /\ late' = (pc \in {"drain", "wait"})
          /\ pc' = IF pc = "blocked" THEN "check" ELSE pc
     ELSE pc' = "failed" /\ UNCHANGED <<last_signal, late>>
  /\ UNCHANGED <<ready_to_send, events, sendq, kernel, next, history>>

-----------------------------------------------------------------------------
(* The loop.                                                               *)

\* The test of last_signal, then of ready_to_send.
CheckSignal ==
  /\ pc = "check"
  /\ pc' = IF last_signal \in StopSignals THEN "exited"
           ELSE IF ready_to_send THEN "drain" ELSE "wait"
  /\ UNCHANGED <<ready_to_send, events, sendq, kernel, signal, next, history>>

\* handle_epollout until the queue is empty or sendto would block.
SendOk ==
  /\ pc = "drain" /\ sendq # <<>> /\ sndbuf < SndCap
  /\ sndbuf' = sndbuf + 1
  /\ sent' = Append(sent, Head(sendq))
  /\ sendq' = Tail(sendq)
  /\ UNCHANGED <<pc, ready_to_send, events, inq, armed, signal, next, answered, lost>>

\* Any other error of sendto drops the reply.
SendError ==
  /\ pc = "drain" /\ sendq # <<>>
  /\ lost' = lost \cup {Head(sendq)}
  /\ sendq' = Tail(sendq)
  /\ UNCHANGED <<pc, ready_to_send, events, kernel, signal, next, answered, sent>>

SendWouldBlock_StaysReady ==
  /\ pc = "drain" /\ sendq # <<>> /\ sndbuf = SndCap
  /\ pc' = "wait"
  /\ UNCHANGED <<ready_to_send, events, sendq, kernel, signal, next, history>>

SendWouldBlock_Pops ==
  /\ pc = "drain" /\ sendq # <<>> /\ sndbuf = SndCap
  /\ pc' = "wait"
  /\ ready_to_send' = FALSE
  /\ sendq' = Tail(sendq)
  /\ UNCHANGED <<events, kernel, signal, next, history>>

SendWouldBlock ==
  /\ pc = "drain" /\ sendq # <<>> /\ sndbuf = SndCap
  /\ pc' = "wait"
  /\ ready_to_send' = FALSE
  /\ UNCHANGED <<events, sendq, kernel, signal, next, history>>

DrainDone ==
  /\ pc = "drain" /\ sendq = <<>>
  /\ pc' = "wait"
  /\ UNCHANGED <<ready_to_send, events, sendq, kernel, signal, next, history>>

\* epoll_wait: takes the socket off the ready list and returns with its readiness at
\* that moment; sleeps when the list is empty or the readiness is.
epoll_wait ==
  /\ \/ pc = "wait"
     \/ pc = "blocked" /\ armed
  /\ armed' = FALSE
  /\ IF armed /\ Readiness # {}
     THEN events' = Readiness /\ pc' = IF "IN" \in Readiness THEN "recv" ELSE "out"
     ELSE pc' = "blocked" /\ UNCHANGED events
  /\ UNCHANGED <<ready_to_send, sendq, inq, sndbuf, signal, next, history>>

enqueue_datagram_Front(d) == sendq' = <<d>> \o sendq

\* The reply joins the queue that handle_epollout serves.
enqueue_datagram(d) == sendq' = Append(sendq, d)

\* handle_epollin takes a datagram, handle_recv answers it, or not (an
\* invalid_argument is caught), or throws what only main catches, if anything does.
Recv ==
  /\ pc = "recv" /\ inq # <<>>
  /\ inq' = Tail(inq)
  /\ \/ enqueue_datagram(Head(inq)) /\ answered' = answered \cup {Head(inq)} /\ UNCHANGED pc
     \/ UNCHANGED <<sendq, answered, pc>>
     \/ pc' = "failed" /\ UNCHANGED <<sendq, answered>>
  /\ UNCHANGED <<ready_to_send, events, sndbuf, armed, signal, next, sent, lost>>

RecvDone_AfterOne ==
  /\ pc = "recv"
  /\ pc' = "out"
  /\ UNCHANGED <<ready_to_send, events, sendq, kernel, signal, next, history>>

RecvDone_NotFinished ==
  /\ pc = "recv" /\ inq = <<>>
  /\ UNCHANGED vars

\* recvmsg finds the buffer empty (EWOULDBLOCK): handle_epollin reports the end.
RecvDone ==
  /\ pc = "recv" /\ inq = <<>>
  /\ pc' = "out"
  /\ UNCHANGED <<ready_to_send, events, sendq, kernel, signal, next, history>>

SetReady ==
  /\ pc = "out"
  /\ ready_to_send' = (ready_to_send \/ "OUT" \in events)
  /\ pc' = "check"
  /\ UNCHANGED <<events, sendq, kernel, signal, next, history>>

-----------------------------------------------------------------------------

Init_EventsUnset ==
  /\ pc = "check" /\ ready_to_send = FALSE /\ events = {"HUP"} /\ sendq = <<>>
  /\ inq = <<>> /\ sndbuf = 0 /\ armed = TRUE
  /\ last_signal = "none" /\ signals = 0 /\ late = FALSE
  /\ next = 1
  /\ answered = {} /\ sent = <<>> /\ lost = {}

\* The socket is writable when it is added to the epoll instance, hence on its list.
Init ==
  /\ pc = "check" /\ ready_to_send = FALSE /\ events = {} /\ sendq = <<>>
  /\ inq = <<>> /\ sndbuf = 0 /\ armed = TRUE
  /\ last_signal = "none" /\ signals = 0 /\ late = FALSE
  /\ next = 1
  /\ answered = {} /\ sent = <<>> /\ lost = {}

poll_loop ==
  \/ CheckSignal \/ SendOk \/ SendError \/ SendWouldBlock \/ DrainDone
  \/ epoll_wait \/ Recv \/ RecvDone \/ SetReady

Next == poll_loop \/ Arrive \/ Transmit \/ \E s \in Signals : Signal(s)

Spec == Init /\ [][Next]_vars

\* The process runs and the card transmits.  Nobody has to send datagrams or signals.
Fairness == WF_vars(poll_loop) /\ WF_vars(Transmit)

FairSpec == Spec /\ Fairness

-----------------------------------------------------------------------------
(* Properties.                                                             *)

TypeOK ==
  /\ pc \in {"check", "drain", "wait", "blocked", "recv", "out", "exited", "failed"}
  /\ ready_to_send \in BOOLEAN /\ armed \in BOOLEAN /\ late \in BOOLEAN
  /\ events \subseteq {"IN", "OUT"}
  /\ last_signal \in Signals \cup {"none"}
  /\ inq \in Seq(Nat) /\ sendq \in Seq(Nat) /\ sent \in Seq(Nat)
  /\ answered \subseteq Nat /\ lost \subseteq Nat
  /\ sndbuf \in 0 .. SndCap
  /\ next \in 1 .. (MaxDatagrams + 1)
  /\ signals \in 0 .. MaxSignals

\* Edge-triggered epoll reports a datagram once.  The loop never goes to sleep on a
\* datagram without an event still due for it, however arrivals interleave with the
\* reads of handle_epollin.
NoLostInput == pc \in {"wait", "blocked"} /\ inq # <<>> => armed

\* The loop never sleeps on queued replies it could send: either an EPOLLOUT is due,
\* or the send buffer is at least half full and its transmission will bring one.
NoStrandedReply ==
  pc = "blocked" /\ sendq # <<>> =>
    /\ ~ ready_to_send
    /\ armed \/ 2 * sndbuf >= SndCap

\* Replies leave in the order in which their datagrams arrived, each at most once:
\* what is sent, queued and unread, in this order, is strictly increasing.
InOrder ==
  LET all == sent \o sendq \o inq
  IN  \A i, j \in DOMAIN all : i < j => all[i] < all[j]

\* A reply that was queued is sent, still queued, or dropped by a failed sendto; a full
\* send buffer drops none.
NothingVanishes == answered = Range(sent) \cup Range(sendq) \cup lost

\* A stop signal leaves the loop asleep only when it came after the test of last_signal
\* and before epoll_wait slept.
StopMissedOnlyInWindow == pc = "blocked" /\ last_signal \in StopSignals => late

\* Every datagram in the receive buffer and every queued reply is dealt with, unless
\* the process ends.
Served ==
  \A d \in Datagrams :
    d \in Range(inq) \cup Range(sendq) ~> Ended \/ d \notin Range(inq) \cup Range(sendq)

\* A stop signal the loop has missed takes effect with the next datagram, unless a
\* SIGHUP has overwritten it by then.
StopServed ==
  last_signal \in StopSignals /\ inq # <<>> ~> Ended \/ last_signal \notin StopSignals
=============================================================================
