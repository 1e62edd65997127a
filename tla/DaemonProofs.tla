---------------------------- MODULE DaemonProofs ----------------------------
(***************************************************************************)
(* Proofs about Daemon for every value of its constants.                   *)
(*                                                                         *)
(* A step of the daemon that handles a datagram has one of six effects     *)
(* (ReceiveEffect); each invariant is then checked against the effects and *)
(* the life-cycle actions.                                                 *)
(***************************************************************************)
EXTENDS Daemon, TLAPS

-----------------------------------------------------------------------------
(* The operators of the model.                                             *)

LEMMA AddrFacts == Addr \subseteq Nat /\ INADDR_ANY \in Addr /\ Radix * Radix \in Nat \ {0}
<1>1. Radix * Radix \in Nat \ {0}
  BY ConstantsAssumption
<1> QED
  BY <1>1 DEF Addr, INADDR_ANY

\* htonl of an address is a number, so a unicast destination is well typed.
LEMMA HtonlType == ASSUME NEW a \in Addr PROVE htonl(a) \in Nat
<1>1. a \in Nat /\ Radix \in Nat \ {0}
  BY AddrFacts, ConstantsAssumption
<1>2. a % Radix \in Nat /\ a \div Radix \in Nat
  BY <1>1
<1>3. (a % Radix) * Radix \in Nat
  BY <1>1, <1>2
<1> QED
  BY <1>2, <1>3 DEF htonl

LEMMA KeyFacts ==
  /\ dummy_hwaddr \in Key
  /\ \A m \in Wire, tail \in TailByte : <<m.hw, tail>> \in Key
BY ConstantsAssumption DEF Key, ParsedKey, WireDatagram

LEMMA NoLeasesType == NoLeases \in Table
BY DEF NoLeases, Table

LEMMA UpdateType ==
  ASSUME NEW L \in Table, NEW t \in Nat
  PROVE  /\ update_leases(L, t) \in Table
         /\ load_leases(L, t) \in Table
BY DEF update_leases, load_leases, Table

\* The search yields an address of the address space or nothing.
LEMMA AllocateType ==
  ASSUME NEW L \in Table
  PROVE  Allocate(L) \in Addr \cup {NoAddress}
<1>1. range_start \in Addr
  BY ConstantsAssumption DEF check_net_range
<1>2. (range_start + 1) % (Radix * Radix) \in Addr
  BY <1>1, AddrFacts DEF Addr
<1> QED
  BY <1>1, <1>2 DEF Allocate

LEMMA OfferAddressType ==
  ASSUME NEW L \in Table, NEW m \in Wire, NEW k \in Key
  PROVE  OfferAddress(L, m, k) \in Addr \cup {NoAddress}
<1>1. m.ciaddr \in Addr /\ (m.reqip # NoOption => m.reqip \in Addr)
  BY ConstantsAssumption DEF WireDatagram
<1>2. \A h \in DOMAIN fixed_hosts : fixed_hosts[h] \in Addr
  BY ConstantsAssumption DEF parse_hosts
<1> QED
  BY <1>1, <1>2, AllocateType DEF OfferAddress

LEMMA DestinationType ==
  ASSUME NEW m, NEW k, NEW a \in Nat
  PROVE  get_reply_destination(m, k, a) \subseteq Destination
BY DEF get_reply_destination, Destination, INADDR_ANY

LEMMA LeaseOptionType ==
  ASSUME NEW m, NEW l \in Nat \cup {NoOption}
  PROVE  /\ LeaseOption(m, l) \in Nat
         /\ LeaseOption(m, NoOption) = lease_time_seconds
BY ConstantsAssumption DEF LeaseOption, set_requested_options

-----------------------------------------------------------------------------
(* The effects a datagram can have.                                        *)

Fresh == update_leases(leases, now)

\* Nothing but the purge of expired leases, and a reply that advertises no lease.
Quiet ==
  /\ leases' \in {leases, Fresh}
  /\ \/ queue' = queue
     \/ \E r \in Reply : /\ r.type \in {"NAK", "NONE"} /\ r.lease = NoOption
                         /\ queue' = Append(queue, r)
  /\ UNCHANGED <<phase, file, now, promise>>

\* The client of key k gets address a until t + hold, and a reply r that says so.
Binds(k, a, t, hold, r) ==
  /\ t >= now
  /\ leases' = [Fresh EXCEPT ![k] = [ip |-> a, exp |-> t + hold]]
  /\ r.key = k /\ r.yiaddr = a
  /\ queue' = Append(queue, r)
  /\ now' = t
  /\ UNCHANGED <<phase, file>>

Offers(k) ==
  \E a \in Addr, t \in 0 .. MaxTime, r \in Reply :
    /\ Binds(k, a, t, OfferHold, r)
    /\ r.type = "OFFER" /\ r.lease \in Nat
    /\ promise' = [promise EXCEPT ![k] = NoLease]

Acks(k) ==
  \E a \in Addr, t \in 0 .. MaxTime, r \in Reply :
    /\ Fresh[k] # NoLease /\ Fresh[k].ip = a
    /\ Binds(k, a, t, lease_time_seconds, r)
    /\ r.type = "ACK" /\ r.lease = lease_time_seconds
    /\ promise' = [promise EXCEPT ![k] = [ip |-> a, exp |-> t + lease_time_seconds]]

Releases(k) ==
  /\ leases' = [leases EXCEPT ![k] = NoLease]
  /\ promise' = [promise EXCEPT ![k] = NoLease]
  /\ UNCHANGED <<phase, file, queue, now>>

Parks ==
  \E a \in Addr :
    /\ leases' = [leases EXCEPT ![dummy_hwaddr] = [ip |-> a, exp |-> UINT64_MAX]]
    /\ UNCHANGED <<phase, file, queue, now, promise>>

LEMMA ReplyType ==
  ASSUME NEW k \in Key, NEW d \in Destination, NEW a \in Addr,
         NEW l \in Nat \cup {NoOption}, NEW type \in {"OFFER", "ACK", "NAK", "NONE"}
  PROVE  create_skeleton_reply_datagram(k, type, a, l, d) \in Reply
BY DEF create_skeleton_reply_datagram, Reply

\* handle_discovery, handle_request, handle_inform and handle_decline, each reduced to
\* its effect.
LEMMA DiscoveryEffect ==
  ASSUME TypeOK, NEW m \in Wire, NEW k \in Key,
         NEW t2 \in Nat, NEW t3 \in Nat, now <= t2, t2 <= t3, t3 <= MaxTime,
         handle_discovery(m, k, t2, t3)
  PROVE  Quiet \/ Offers(k) \/ Terminate
<1>1. CASE DiscoveryThrows(m, k)
  BY <1>1 DEF DiscoveryThrows
<1>2. CASE DiscoveryFails(m, k)
  BY <1>2 DEF DiscoveryFails, Quiet, Fresh
<1>3. CASE DiscoveryOffers(m, k, t2, t3)
  <2> DEFINE L == update_leases(leases, now)
             offer == OfferAddress(L, m, k)
             remaining == IF LooksUpLease(m) THEN (L[k].exp - t2) % UINT32_RANGE ELSE NoOption
  <2>1. L \in Table /\ now \in Nat
    BY UpdateType DEF TypeOK
  <2>2. offer \in Addr /\ offer # NoAddress
    BY <1>3, <2>1, OfferAddressType DEF DiscoveryOffers
  <2>3. remaining \in Nat \cup {NoOption}
    <3>1. CASE LooksUpLease(m)
      <4>1. L[k] \in Lease
        BY <1>3, <2>1, <3>1 DEF DiscoveryOffers, Table
      <4>2. L[k].exp - t2 \in Int
        BY <4>1 DEF Lease
      <4>3. \A x \in Int : x % UINT32_RANGE \in Nat
        BY ConstantsAssumption
      <4> QED
        BY <3>1, <4>2, <4>3
    <3>2. CASE ~ LooksUpLease(m)
      BY <3>2
    <3> QED
      BY <3>1, <3>2
  <2>4. LeaseOption(m, remaining) \in Nat
    BY <2>3, LeaseOptionType
  <2>5. PICK dest \in get_reply_destination(m, k, htonl(offer)) :
          queue' = Append(queue, create_skeleton_reply_datagram(
                                   k, "OFFER", offer, LeaseOption(m, remaining), dest))
    BY <1>3 DEF DiscoveryOffers, enqueue_datagram
  <2>6. dest \in Destination
    BY <2>2, <2>5, HtonlType, DestinationType
  <2> DEFINE r == create_skeleton_reply_datagram(
                    k, "OFFER", offer, LeaseOption(m, remaining), dest)
  <2>7. r \in Reply
    BY <2>2, <2>4, <2>6, ReplyType
  <2>8. r.type = "OFFER" /\ r.key = k /\ r.yiaddr = offer /\ r.lease \in Nat
    BY <2>4 DEF create_skeleton_reply_datagram
  <2>9. /\ leases' = [L EXCEPT ![k] = [ip |-> offer, exp |-> t3 + OfferHold]]
        /\ now' = t3
        /\ promise' = [promise EXCEPT ![k] = NoLease]
        /\ UNCHANGED <<phase, file>>
    BY <1>3 DEF DiscoveryOffers
  <2>10. t3 \in 0 .. MaxTime /\ t3 >= now
    BY <2>1, ConstantsAssumption
  <2>11. Binds(k, offer, t3, OfferHold, r)
    BY <2>5, <2>8, <2>9, <2>10 DEF Binds, Fresh
  <2>12. Offers(k)
    BY <2>2, <2>7, <2>8, <2>9, <2>10, <2>11 DEF Offers
  <2> QED
    BY <2>12
<1> QED
  BY <1>1, <1>2, <1>3 DEF handle_discovery
LEMMA NakEffect ==
  ASSUME NEW m \in Wire, NEW k \in Key, SendNak(m, k)
  PROVE  \E r \in Reply : /\ r.type \in {"NAK", "NONE"} /\ r.lease = NoOption
                          /\ queue' = Append(queue, r)
<1>1. PICK dest \in get_reply_destination(m, k, INADDR_ANY) :
        queue' = Append(queue, create_skeleton_reply_datagram(
                                 k, "NAK", INADDR_ANY, NoOption, dest))
  BY DEF SendNak, enqueue_datagram
<1>2. dest \in Destination
  BY <1>1, AddrFacts, DestinationType
<1>3. create_skeleton_reply_datagram(k, "NAK", INADDR_ANY, NoOption, dest) \in Reply
  BY <1>2, AddrFacts, ReplyType
<1> QED
  BY <1>1, <1>3 DEF create_skeleton_reply_datagram

LEMMA RequestEffect ==
  ASSUME TypeOK, NEW m \in Wire, NEW k \in Key,
         NEW t2 \in Nat, now <= t2, t2 <= MaxTime, handle_request(m, k, t2)
  PROVE  Quiet \/ Acks(k)
<1> DEFINE L == update_leases(leases, now)
           a == RequestedAddress(m)
<1>1. CASE RequestForeign(m, k)
  BY <1>1, NakEffect DEF RequestForeign, Quiet
<1>2. CASE RequestMismatch(m, k)
  BY <1>2, NakEffect DEF RequestMismatch, Quiet, Fresh
<1>3. CASE RequestUnknown(m, k)
  BY <1>3, NakEffect DEF RequestUnknown, Quiet, Fresh
<1>4. CASE RequestAck(m, k, t2)
  <2>1. a \in Addr
    BY ConstantsAssumption DEF RequestedAddress, WireDatagram
  <2>2. LeaseOption(m, NoOption) = lease_time_seconds /\ lease_time_seconds \in Nat
    BY LeaseOptionType, ConstantsAssumption
  <2>3. PICK dest \in get_reply_destination(m, k, INADDR_ANY) :
          queue' = Append(queue, create_skeleton_reply_datagram(
                                   k, "ACK", a, lease_time_seconds, dest))
    BY <1>4, <2>2 DEF RequestAck, enqueue_datagram
  <2>4. dest \in Destination
    BY <2>3, AddrFacts, DestinationType
  <2> DEFINE r == create_skeleton_reply_datagram(k, "ACK", a, lease_time_seconds, dest)
  <2>5. r \in Reply
    BY <2>1, <2>2, <2>4, ReplyType
  <2>6. /\ r.type = "ACK" /\ r.key = k /\ r.yiaddr = a
        /\ r.lease = lease_time_seconds
    BY DEF create_skeleton_reply_datagram
  <2>7. t2 \in 0 .. MaxTime /\ t2 >= now
    BY ConstantsAssumption DEF TypeOK
  <2>8. /\ leases' = [L EXCEPT ![k] = [ip |-> a, exp |-> t2 + lease_time_seconds]]
        /\ now' = t2
        /\ promise' = [promise EXCEPT ![k] = [ip |-> a, exp |-> t2 + lease_time_seconds]]
        /\ UNCHANGED <<phase, file>>
    BY <1>4, <2>2 DEF RequestAck
  <2>9. Binds(k, a, t2, lease_time_seconds, r)
    BY <2>3, <2>6, <2>7, <2>8 DEF Binds, Fresh
  <2>10. Fresh[k] # NoLease /\ Fresh[k].ip = a
    BY <1>4 DEF RequestAck, Fresh
  <2> QED
    BY <2>1, <2>5, <2>6, <2>7, <2>8, <2>9, <2>10 DEF Acks
<1> QED
  BY <1>1, <1>2, <1>3, <1>4 DEF handle_request

LEMMA InformEffect ==
  ASSUME NEW m \in Wire, NEW k \in Key, handle_inform(m, k)
  PROVE  Quiet
<1>1. PICK dest \in get_reply_destination(m, k, m.ciaddr) :
        queue' = Append(queue, create_skeleton_reply_datagram(
                                 k, "NONE", INADDR_ANY, NoOption, dest))
  BY DEF handle_inform, enqueue_datagram
<1>2. m.ciaddr \in Nat
  BY AddrFacts, ConstantsAssumption DEF WireDatagram
<1>3. dest \in Destination
  BY <1>1, <1>2, DestinationType
<1>4. create_skeleton_reply_datagram(k, "NONE", INADDR_ANY, NoOption, dest) \in Reply
  BY <1>3, AddrFacts, ReplyType
<1>5. \E r \in Reply : /\ r.type \in {"NAK", "NONE"} /\ r.lease = NoOption
                       /\ queue' = Append(queue, r)
  BY <1>1, <1>4 DEF create_skeleton_reply_datagram
<1> QED
  BY <1>5 DEF handle_inform, Quiet

LEMMA DeclineEffect ==
  ASSUME NEW m \in Wire, NEW k \in Key, handle_decline(m, k)
  PROVE  Parks \/ Terminate
<1>1. m.reqip # NoOption => m.reqip \in Addr
  BY ConstantsAssumption DEF WireDatagram
<1> QED
  BY <1>1 DEF handle_decline, Parks

\* What handle_recv may do: every datagram, whatever it holds, has one of six effects,
\* and offers, acknowledgements and releases are its sender's.
LEMMA ReceiveEffect ==
  ASSUME TypeOK, Receive
  PROVE  /\ phase = "running"
         /\ \E k \in Key :
              /\ sender' = k
              /\ \/ Quiet \/ Parks \/ Terminate
                 \/ Offers(k) \/ Acks(k) \/ Releases(k)
<1>1. phase = "running"
  BY DEF Receive
<1>2. PICK m \in Wire, tail \in TailByte :
        \E t2, t3 \in now .. (now + MaxPause) :
          /\ t2 <= t3 /\ t3 <= MaxTime /\ handle_recv(m, <<m.hw, tail>>, t2, t3)
          /\ sender' = <<m.hw, tail>>
  BY DEF Receive
<1>3. PICK t2 \in now .. (now + MaxPause), t3 \in now .. (now + MaxPause) :
        /\ t2 <= t3 /\ t3 <= MaxTime /\ handle_recv(m, <<m.hw, tail>>, t2, t3)
        /\ sender' = <<m.hw, tail>>
  BY <1>2
<1> DEFINE k == <<m.hw, tail>>
<1>4. k \in Key
  BY KeyFacts
<1>5. /\ t2 \in Nat /\ t3 \in Nat /\ now <= t2 /\ t2 <= t3
      /\ t2 <= MaxTime /\ t3 <= MaxTime
  BY <1>3, ConstantsAssumption DEF TypeOK
<1> HIDE DEF k
<1>6. handle_recv(m, k, t2, t3) /\ sender' = k
  BY <1>3 DEF k
<1>7. CASE UNCHANGED <<phase, leases, file, queue, now, promise>>
  BY <1>1, <1>4, <1>6, <1>7 DEF Quiet
<1>8. CASE handle_discovery(m, k, t2, t3)
  BY <1>4, <1>5, <1>6, <1>8, DiscoveryEffect, <1>1
<1>9. CASE handle_request(m, k, t2)
  BY <1>4, <1>5, <1>6, <1>9, RequestEffect, <1>1
<1>10. CASE handle_release(m, k)
  BY <1>1, <1>4, <1>6, <1>10 DEF handle_release, Releases
<1>11. CASE handle_inform(m, k)
  BY <1>1, <1>4, <1>6, <1>11, InformEffect
<1>12. CASE handle_decline(m, k)
  BY <1>1, <1>4, <1>6, <1>12, DeclineEffect
<1>13. CASE Terminate
  BY <1>1, <1>4, <1>6, <1>13
<1> QED
  BY <1>6, <1>7, <1>8, <1>9, <1>10, <1>11, <1>12, <1>13 DEF handle_recv
-----------------------------------------------------------------------------
(* Type correctness.                                                       *)

LEMMA LeaseRecord ==
  ASSUME NEW a \in Addr, NEW e \in Nat
  PROVE  /\ [ip |-> a, exp |-> e] \in Lease
         /\ [ip |-> a, exp |-> e] # NoLease
BY ConstantsAssumption DEF Lease

LEMMA BindingType ==
  ASSUME NEW L \in Table, NEW k \in Key, NEW a \in Addr, NEW e \in Nat
  PROVE  /\ [L EXCEPT ![k] = [ip |-> a, exp |-> e]] \in Table
         /\ [L EXCEPT ![k] = NoLease] \in Table
BY LeaseRecord DEF Table

LEMMA BindsType ==
  ASSUME TypeOK, NEW k \in Key, NEW a \in Addr, NEW t \in 0 .. MaxTime,
         NEW hold \in Nat, NEW r \in Reply, Binds(k, a, t, hold, r),
         promise' \in Table, sender' \in Key \cup {NoClient}
  PROVE  TypeOK'
<1>1. Fresh \in Table
  BY UpdateType DEF TypeOK, Fresh
<1>2. t + hold \in Nat
  OBVIOUS
<1>3. leases' \in Table
  BY <1>1, <1>2, BindingType DEF Binds
<1>4. queue' \in Seq(Reply)
  BY DEF Binds, TypeOK
<1> QED
  BY <1>3, <1>4 DEF Binds, TypeOK

LEMMA TypeStep == TypeOK /\ [Next]_vars => TypeOK'
<1> SUFFICES ASSUME TypeOK, [Next]_vars PROVE TypeOK'
  OBVIOUS
<1>0. /\ Fresh \in Table /\ load_leases(file, now) \in Table /\ NoLeases \in Table
      /\ dummy_hwaddr \in Key
      /\ OfferHold \in Nat /\ lease_time_seconds \in Nat /\ UINT64_MAX \in Nat
  BY UpdateType, NoLeasesType, KeyFacts, ConstantsAssumption DEF TypeOK, Fresh
<1>s. sender' \in Key \cup {NoClient}
  BY ReceiveEffect DEF Next, Send, Start, StopAndTruncate, WriteAndExit, Crash, Tick,
                       vars, TypeOK
<1>1. CASE Receive
  <2>1. CASE Quiet
    BY <1>s, <1>0, <2>1 DEF Quiet, TypeOK
  <2>2. CASE Parks
    <3>1. PICK a \in Addr :
            /\ leases' = [leases EXCEPT ![dummy_hwaddr] = [ip |-> a, exp |-> UINT64_MAX]]
            /\ UNCHANGED <<phase, file, queue, now, promise>>
      BY <2>2 DEF Parks
    <3>2. leases' \in Table
      BY <1>0, <3>1, BindingType DEF TypeOK
    <3> QED
      BY <1>s, <3>1, <3>2 DEF TypeOK
  <2>3. CASE Terminate
    BY <1>s, <1>0, <2>3 DEF Terminate, TypeOK
  <2>4. ASSUME NEW k \in Key, Offers(k) PROVE TypeOK'
    <3>1. promise' \in Table
      BY <2>4, BindingType, AddrFacts DEF Offers, TypeOK
    <3> QED
      BY <1>s, <1>0, <2>4, <3>1, BindsType DEF Offers
  <2>5. ASSUME NEW k \in Key, Acks(k) PROVE TypeOK'
    <3>1. PICK a \in Addr, t \in 0 .. MaxTime, r \in Reply :
            /\ Binds(k, a, t, lease_time_seconds, r)
            /\ promise' = [promise EXCEPT ![k] = [ip |-> a, exp |-> t + lease_time_seconds]]
      BY <2>5 DEF Acks
    <3>2. t + lease_time_seconds \in Nat
      BY <1>0
    <3>3. promise' \in Table
      BY <3>1, <3>2, BindingType DEF TypeOK
    <3> QED
      BY <1>s, <1>0, <3>1, <3>3, BindsType
  <2>6. ASSUME NEW k \in Key, Releases(k) PROVE TypeOK'
    BY <1>s, <2>6, BindingType, AddrFacts DEF Releases, TypeOK
  <2> QED
    BY <1>1, <2>1, <2>2, <2>3, <2>4, <2>5, <2>6, ReceiveEffect
<1>2. CASE Send
  BY <1>s, <1>2 DEF Send, TypeOK
<1>3. CASE Start
  BY <1>s, <1>0, <1>3 DEF Start, TypeOK
<1>4. CASE StopAndTruncate
  BY <1>s, <1>0, <1>4 DEF StopAndTruncate, TypeOK, Fresh
<1>5. CASE WriteAndExit
  BY <1>s, <1>0, <1>5 DEF WriteAndExit, TypeOK
<1>6. CASE Crash
  <2>1. file' \in Table
    BY <1>6 DEF Crash, TypeOK, Table
  <2> QED
    BY <1>s, <1>0, <1>6, <2>1 DEF Crash, TypeOK
<1>7. CASE Tick
  BY <1>s, <1>7, ConstantsAssumption DEF Tick, TypeOK
<1>8. CASE UNCHANGED vars
  BY <1>s, <1>8 DEF vars, TypeOK
<1> QED
  BY <1>1, <1>2, <1>3, <1>4, <1>5, <1>6, <1>7, <1>8 DEF Next

LEMMA TypeInit == Init => TypeOK
BY NoLeasesType, ConstantsAssumption DEF Init, TypeOK

\* Every state of the daemon is well typed: no handler, whatever the datagram, stores
\* an address outside the address space, a lease without an expiry, or a reply of a
\* shape that to_byte_vector could not write.
THEOREM TypeCorrect == Spec => []TypeOK
BY TypeInit, TypeStep, PTL DEF Spec
-----------------------------------------------------------------------------
(* Acknowledged leases are honoured.  With TypeOK the property is inductive: *)
(* the clock never runs back, so a promise that has expired stays so, and    *)
(* the purge, the lease file and the reload drop expired leases only.        *)

Promised(k) == promise[k] # NoLease /\ now < promise[k].exp

\* The purge and the reload keep every lease that has not expired.
LEMMA LiveLeaseKept ==
  ASSUME NEW L \in Table, NEW k \in Key, NEW t \in Nat,
         L[k] # NoLease, t < L[k].exp
  PROVE  update_leases(L, t)[k] = L[k] /\ load_leases(L, t)[k] = L[k]
<1>1. L[k] \in Lease
  BY DEF Table
<1>2. L[k].exp \in Nat
  BY <1>1 DEF Lease
<1> QED
  BY <1>2 DEF update_leases, load_leases

LEMMA HonouredStep == TypeOK /\ Honoured /\ [Next]_vars => Honoured'
<1> SUFFICES ASSUME TypeOK, Honoured, [Next]_vars,
                    NEW k \in Key \ {dummy_hwaddr}, Promised(k)'
             PROVE  (Book[k])' = (promise[k])'
  BY DEF Honoured, Promised
<1>0. /\ now \in Nat /\ leases \in Table /\ file \in Table /\ promise \in Table
      /\ phase \in {"stopped", "running", "writing", "crashed"}
      /\ NoLeases[k] = NoLease
      /\ Promised(k) => Book[k] = promise[k]
  BY DEF TypeOK, NoLeases, Honoured, Promised
<1>a. ASSUME promise'[k] = promise[k], now' >= now, now' \in Nat
      PROVE  /\ Promised(k) /\ Book[k] = promise[k]
             /\ phase \in {"running", "writing"} =>
                  update_leases(leases, now)[k] = leases[k]
             /\ phase \notin {"running", "writing"} => load_leases(file, now)[k] = file[k]
  <2>1. promise[k] \in Lease
    BY <1>0, <1>a DEF Promised, Table
  <2>2. promise[k].exp \in Nat
    BY <2>1 DEF Lease
  <2>3. Promised(k)
    BY <1>0, <1>a, <2>2 DEF Promised
  <2> QED
    BY <1>0, <2>3, LiveLeaseKept DEF Promised, Book
<1>1. CASE Receive
  <2>0. phase = "running"
    BY <1>1, ReceiveEffect
  <2>1. CASE Quiet
    BY <1>0, <1>a, <2>0, <2>1 DEF Quiet, Book, Fresh
  <2>2. CASE Parks
    BY <1>0, <1>a, <2>0, <2>2 DEF Parks, Book, Table
  <2>3. CASE Terminate
    BY <1>0, <2>3 DEF Terminate, Promised
  <2>4. ASSUME NEW j \in Key, Offers(j) PROVE (Book[k])' = (promise[k])'
    <3>1. PICK a \in Addr, t \in 0 .. MaxTime, r \in Reply :
            /\ Binds(j, a, t, OfferHold, r)
            /\ promise' = [promise EXCEPT ![j] = NoLease]
      BY <2>4 DEF Offers
    <3>2. k # j
      BY <1>0, <3>1 DEF Promised, Table
    <3>3. promise'[k] = promise[k] /\ leases'[k] = Fresh[k]
      BY <1>0, <3>1, <3>2, UpdateType DEF Binds, Table, Fresh
    <3> QED
      BY <1>0, <1>a, <2>0, <3>1, <3>3 DEF Binds, Book, Fresh
  <2>5. ASSUME NEW j \in Key, Acks(j) PROVE (Book[k])' = (promise[k])'
    <3>1. PICK a \in Addr, t \in 0 .. MaxTime, r \in Reply :
            /\ Binds(j, a, t, lease_time_seconds, r)
            /\ promise' = [promise EXCEPT ![j] = [ip |-> a, exp |-> t + lease_time_seconds]]
      BY <2>5 DEF Acks
    <3>2. Fresh \in Table
      BY <1>0, UpdateType DEF Fresh
    <3>3. CASE k = j
      BY <1>0, <2>0, <3>1, <3>2, <3>3 DEF Binds, Table, Book
    <3>4. CASE k # j
      <4>1. promise'[k] = promise[k] /\ leases'[k] = Fresh[k]
        BY <1>0, <3>1, <3>2, <3>4 DEF Binds, Table
      <4> QED
        BY <1>0, <1>a, <2>0, <3>1, <4>1 DEF Binds, Book, Fresh
    <3> QED
      BY <3>3, <3>4
  <2>6. ASSUME NEW j \in Key, Releases(j) PROVE (Book[k])' = (promise[k])'
    <3>1. k # j
      BY <1>0, <2>6 DEF Releases, Promised, Table
    <3> QED
      BY <1>0, <1>a, <2>0, <2>6, <3>1 DEF Releases, Book, Table
  <2> QED
    BY <1>1, <2>1, <2>2, <2>3, <2>4, <2>5, <2>6, ReceiveEffect
<1>2. CASE Send
  BY <1>0, <1>a, <1>2 DEF Send, Book
<1>3. CASE Start
  BY <1>0, <1>a, <1>3 DEF Start, Book
<1>4. CASE StopAndTruncate
  BY <1>0, <1>a, <1>4 DEF StopAndTruncate, Book
<1>5. CASE WriteAndExit
  BY <1>0, <1>a, <1>5 DEF WriteAndExit, Book
<1>6. CASE Crash
  BY <1>0, <1>6 DEF Crash, Promised
<1>7. CASE Tick
  BY <1>0, <1>a, <1>7 DEF Tick, Book
<1>8. CASE UNCHANGED vars
  BY <1>0, <1>a, <1>8 DEF vars, Book
<1> QED
  BY <1>1, <1>2, <1>3, <1>4, <1>5, <1>6, <1>7, <1>8 DEF Next

LEMMA HonouredInit == Init => Honoured
BY DEF Init, Honoured, NoLeases

\* What handle_request acknowledged stays in the table, and across a clean restart in
\* the file, unchanged until it expires, whatever the other clients send.
THEOREM LeasesHonoured == Spec => []Honoured
<1>1. Spec => []TypeOK
  BY TypeCorrect
<1> QED
  BY <1>1, HonouredInit, HonouredStep, PTL DEF Spec
-----------------------------------------------------------------------------
(* No lease outlives the longest hold.                                     *)

\* The binding in entry k of table L ends within the longest hold after t.
Bounded(L, k, t) == L[k] # NoLease => L[k].exp <= t + LongestHold

LEMMA LongestHoldFacts ==
  LongestHold \in Nat /\ OfferHold <= LongestHold /\ lease_time_seconds <= LongestHold
BY ConstantsAssumption DEF LongestHold

LEMMA BoundedKept ==
  ASSUME NEW L \in Table, NEW k \in Key, NEW t \in Nat, NEW u \in Nat, t <= u,
         Bounded(L, k, t)
  PROVE  Bounded(L, k, u)
<1>1. CASE L[k] = NoLease
  BY <1>1 DEF Bounded
<1>2. CASE L[k] # NoLease
  <2>1. L[k] \in Lease
    BY <1>2 DEF Table
  <2>2. L[k].exp \in Nat
    BY <2>1 DEF Lease
  <2> QED
    BY <1>2, <2>2, LongestHoldFacts DEF Bounded
<1> QED
  BY <1>1, <1>2

LEMMA PurgeKeepsBound ==
  ASSUME NEW L, NEW k \in Key, NEW t, Bounded(L, k, t)
  PROVE  /\ Bounded(update_leases(L, t), k, t)
         /\ Bounded(load_leases(L, t), k, t)
         /\ Bounded(NoLeases, k, t)
BY DEF Bounded, update_leases, load_leases, NoLeases

\* A binding written at time t for a hold no longer than the longest is bounded.
LEMMA BindsBounded ==
  ASSUME TypeOK, NEW k \in Key, NEW j \in Key, NEW a \in Addr, NEW t \in 0 .. MaxTime,
         NEW hold \in Nat, hold <= LongestHold, NEW r, Binds(j, a, t, hold, r),
         Bounded(leases, k, now)
  PROVE  Bounded(leases', k, now')
<1>1. Fresh \in Table /\ Bounded(Fresh, k, now) /\ now \in Nat
  BY UpdateType, PurgeKeepsBound DEF TypeOK, Fresh
<1>2. Bounded(Fresh, k, t)
  BY <1>1, BoundedKept DEF Binds
<1>3. CASE k = j
  <2>1. leases'[k] = [ip |-> a, exp |-> t + hold]
    BY <1>1, <1>3 DEF Binds, Table
  <2> QED
    BY <2>1, LongestHoldFacts DEF Binds, Bounded
<1>4. CASE k # j
  <2>1. leases'[k] = Fresh[k]
    BY <1>1, <1>4 DEF Binds, Table
  <2> QED
    BY <1>2, <2>1 DEF Binds, Bounded
<1> QED
  BY <1>3, <1>4

LEMMA BoundStep == TypeOK /\ NoImmortalLease /\ [Next]_vars => NoImmortalLease'
<1> SUFFICES ASSUME TypeOK, NoImmortalLease, [Next]_vars,
                    NEW k \in Key \ {dummy_hwaddr}
             PROVE  Bounded(leases', k, now') /\ Bounded(file', k, now')
  BY DEF NoImmortalLease, Bounded
<1>0. /\ Bounded(leases, k, now) /\ Bounded(file, k, now)
      /\ now \in Nat /\ leases \in Table /\ file \in Table
      /\ OfferHold \in Nat /\ lease_time_seconds \in Nat
  BY ConstantsAssumption DEF NoImmortalLease, Bounded, TypeOK
<1>1. CASE Receive
  <2>1. CASE Quiet
    BY <1>0, <2>1, PurgeKeepsBound DEF Quiet, Fresh
  <2>2. CASE Parks
    BY <1>0, <2>2 DEF Parks, Bounded, Table
  <2>3. CASE Terminate
    BY <1>0, <2>3, PurgeKeepsBound DEF Terminate
  <2>4. ASSUME NEW j \in Key, Offers(j)
        PROVE  Bounded(leases', k, now') /\ Bounded(file', k, now')
    <3>1. PICK a \in Addr, t \in 0 .. MaxTime, r \in Reply : Binds(j, a, t, OfferHold, r)
      BY <2>4 DEF Offers
    <3>2. Bounded(leases', k, now')
      BY <1>0, <3>1, BindsBounded, LongestHoldFacts
    <3>3. now <= t /\ now' = t /\ file' = file
      BY <1>0, <3>1 DEF Binds
    <3>4. Bounded(file, k, t)
      BY <1>0, <3>3, BoundedKept
    <3> QED
      BY <3>2, <3>3, <3>4
  <2>5. ASSUME NEW j \in Key, Acks(j)
        PROVE  Bounded(leases', k, now') /\ Bounded(file', k, now')
    <3>1. PICK a \in Addr, t \in 0 .. MaxTime, r \in Reply :
            Binds(j, a, t, lease_time_seconds, r)
      BY <2>5 DEF Acks
    <3>2. Bounded(leases', k, now')
      BY <1>0, <3>1, BindsBounded, LongestHoldFacts
    <3>3. now <= t /\ now' = t /\ file' = file
      BY <1>0, <3>1 DEF Binds
    <3>4. Bounded(file, k, t)
      BY <1>0, <3>3, BoundedKept
    <3> QED
      BY <3>2, <3>3, <3>4
  <2>6. ASSUME NEW j \in Key, Releases(j)
        PROVE  Bounded(leases', k, now') /\ Bounded(file', k, now')
    BY <1>0, <2>6 DEF Releases, Bounded, Table
  <2> QED
    BY <1>1, <2>1, <2>2, <2>3, <2>4, <2>5, <2>6, ReceiveEffect
<1>2. CASE Send
  BY <1>0, <1>2 DEF Send
<1>3. CASE Start
  BY <1>0, <1>3, PurgeKeepsBound DEF Start
<1>4. CASE StopAndTruncate
  BY <1>0, <1>4, PurgeKeepsBound DEF StopAndTruncate
<1>5. CASE WriteAndExit
  BY <1>0, <1>5, PurgeKeepsBound DEF WriteAndExit
<1>6. CASE Crash
  <2>1. Bounded(file', k, now)
    BY <1>0, <1>6 DEF Crash, Bounded
  <2> QED
    BY <1>0, <1>6, <2>1, PurgeKeepsBound DEF Crash
<1>7. CASE Tick
  BY <1>0, <1>7, BoundedKept DEF Tick
<1>8. CASE UNCHANGED vars
  BY <1>0, <1>8 DEF vars
<1> QED
  BY <1>1, <1>2, <1>3, <1>4, <1>5, <1>6, <1>7, <1>8 DEF Next

LEMMA BoundInit == Init => NoImmortalLease
BY DEF Init, NoImmortalLease, NoLeases

\* Only handle_decline stores a lease without end, and only under the all-zero key:
\* every other lease, in memory or on disk, ends within the longer of the offer hold
\* and the lease time, across any number of restarts and crashes.
THEOREM LeasesEnd == Spec => []NoImmortalLease
<1>1. Spec => []TypeOK
  BY TypeCorrect
<1> QED
  BY <1>1, BoundInit, BoundStep, PTL DEF Spec

-----------------------------------------------------------------------------
(* The parked address.                                                     *)

LEMMA DummyIsFirst ==
  ASSUME NEW L \in Table, L[dummy_hwaddr] # NoLease
  PROVE  FirstKey(L) = dummy_hwaddr /\ LiveKeys(L) # {}
<1>1. \A k \in Key : k[1] \in Nat /\ k[2] \in Nat /\ k = <<k[1], k[2]>>
  <2> TAKE k \in Key
  <2>1. CASE k = <<0, 0>>
    BY <2>1
  <2>2. CASE k \in HwAddr \X TailByte
    <3>1. k[1] \in HwAddr /\ k[2] \in TailByte /\ k = <<k[1], k[2]>>
      BY <2>2
    <3> QED
      BY <3>1, ConstantsAssumption
  <2> QED
    BY <2>1, <2>2 DEF Key, ParsedKey, dummy_hwaddr
<1>2. \A k \in Key : k = dummy_hwaddr \/ KeyLess(dummy_hwaddr, k)
  BY <1>1 DEF KeyLess, dummy_hwaddr
<1>3. \A k \in Key : ~ KeyLess(k, dummy_hwaddr)
  BY <1>1 DEF KeyLess, dummy_hwaddr
<1>4. dummy_hwaddr \in LiveKeys(L) /\ LiveKeys(L) \subseteq Key
  BY KeyFacts DEF LiveKeys
<1>5. \A k \in LiveKeys(L) :
        (\A j \in LiveKeys(L) : j = k \/ KeyLess(k, j)) <=> k = dummy_hwaddr
  BY <1>2, <1>3, <1>4
<1> QED
  BY <1>4, <1>5 DEF FirstKey

LEMMA AllocateSkips ==
  ASSUME NEW L \in Table, L[dummy_hwaddr] # NoLease
  PROVE  Allocate(L) # L[dummy_hwaddr].ip
<1>1. L[dummy_hwaddr].ip \in Addr
  BY KeyFacts DEF Table, Lease
<1>2. /\ range_start \in Addr /\ range_end \in Addr /\ NoAddress \notin Addr
      /\ Radix * Radix \in Nat \ {0}
  BY ConstantsAssumption, AddrFacts DEF check_net_range
<1> DEFINE next == (range_start + 1) % (Radix * Radix)
<1>3. next \in Nat /\ (next = range_start => next >= range_end)
  BY <1>2 DEF Addr
<1>4. range_end <= Radix * Radix - 1 /\ range_start \in Nat /\ range_end \in Nat
  BY <1>2 DEF Addr
<1> QED
  BY <1>1, <1>2, <1>3, <1>4, DummyIsFirst DEF Allocate

\* The allocator of handle_discovery looks at the first lease of the table only, and
\* that suffices for the declined address: its key is the least of all keys.
THEOREM DeclinedStaysOut == Spec => []PoolAvoidsDeclined
<1>1. TypeOK => PoolAvoidsDeclined
  <2> SUFFICES ASSUME TypeOK, update_leases(leases, now)[dummy_hwaddr] # NoLease
               PROVE  Allocate(update_leases(leases, now))
                        # update_leases(leases, now)[dummy_hwaddr].ip
    BY DEF PoolAvoidsDeclined
  <2>1. update_leases(leases, now) \in Table
    BY UpdateType DEF TypeOK
  <2> QED
    BY <2>1, AllocateSkips
<1> QED
  BY <1>1, TypeCorrect, PTL
-----------------------------------------------------------------------------
(* Replies and the table.                                                  *)

\* The body of AdvertisedIsRecorded.
Recorded ==
  Len(queue') > Len(queue) =>
    LET r == queue'[Len(queue')]
    IN  /\ r.lease # NoOption <=> r.type \in {"OFFER", "ACK"}
        /\ r.lease # NoOption => leases'[r.key] # NoLease /\ leases'[r.key].ip = r.yiaddr
        /\ r.type = "ACK" => leases'[r.key].exp = now' + r.lease

LEMMA LastOfAppend ==
  ASSUME TypeOK, NEW r \in Reply, queue' = Append(queue, r)
  PROVE  queue'[Len(queue')] = r
BY DEF TypeOK

LEMMA BindsRecorded ==
  ASSUME TypeOK, NEW k \in Key, NEW a \in Addr, NEW t \in Nat, NEW hold \in Nat,
         NEW r \in Reply, Binds(k, a, t, hold, r)
  PROVE  /\ queue'[Len(queue')] = r
         /\ leases'[r.key] # NoLease
         /\ leases'[r.key].ip = r.yiaddr
         /\ leases'[r.key].exp = now' + hold
<1>1. Fresh \in Table
  BY UpdateType DEF TypeOK, Fresh
<1>2. leases'[k] = [ip |-> a, exp |-> t + hold]
  BY <1>1 DEF Binds, Table
<1>3. t + hold \in Nat
  OBVIOUS
<1> QED
  BY <1>2, <1>3, LastOfAppend, LeaseRecord DEF Binds

LEMMA RecordedStep == TypeOK /\ [Next]_vars => Recorded
<1> SUFFICES ASSUME TypeOK, [Next]_vars PROVE Recorded
  OBVIOUS
<1>0. /\ OfferHold \in Nat /\ lease_time_seconds \in Nat /\ NoOption \notin Nat
      /\ Len(queue) \in Nat
  BY ConstantsAssumption DEF TypeOK
<1>a. ASSUME queue' = queue \/ queue' = <<>> PROVE Recorded
  BY <1>0, <1>a DEF Recorded
<1>1. CASE Receive
  <2>1. CASE Quiet
    <3>1. CASE \E r \in Reply : /\ r.type \in {"NAK", "NONE"} /\ r.lease = NoOption
                                /\ queue' = Append(queue, r)
      BY <3>1, LastOfAppend DEF Recorded
    <3> QED
      BY <1>a, <2>1, <3>1 DEF Quiet
  <2>2. CASE Parks
    BY <1>a, <2>2 DEF Parks
  <2>3. CASE Terminate
    BY <1>a, <2>3 DEF Terminate
  <2>4. ASSUME NEW k \in Key, Offers(k) PROVE Recorded
    <3>1. PICK a \in Addr, t \in 0 .. MaxTime, r \in Reply :
            Binds(k, a, t, OfferHold, r) /\ r.type = "OFFER" /\ r.lease \in Nat
      BY <2>4 DEF Offers
    <3> QED
      BY <1>0, <3>1, BindsRecorded DEF Recorded
  <2>5. ASSUME NEW k \in Key, Acks(k) PROVE Recorded
    <3>1. PICK a \in Addr, t \in 0 .. MaxTime, r \in Reply :
            /\ Binds(k, a, t, lease_time_seconds, r)
            /\ r.type = "ACK" /\ r.lease = lease_time_seconds
      BY <2>5 DEF Acks
    <3> QED
      BY <1>0, <3>1, BindsRecorded DEF Recorded
  <2>6. ASSUME NEW k \in Key, Releases(k) PROVE Recorded
    BY <1>a, <2>6 DEF Releases
  <2> QED
    BY <1>1, <2>1, <2>2, <2>3, <2>4, <2>5, <2>6, ReceiveEffect
<1>2. CASE Send
  <2>1. Len(Tail(queue)) = Len(queue) - 1
    BY <1>2 DEF Send, TypeOK
  <2> QED
    BY <1>0, <1>2, <2>1 DEF Send, Recorded
<1>3. CASE Start \/ StopAndTruncate \/ WriteAndExit \/ Crash \/ Tick \/ UNCHANGED vars
  BY <1>a, <1>3 DEF Start, StopAndTruncate, WriteAndExit, Crash, Tick, vars
<1> QED
  BY <1>1, <1>2, <1>3 DEF Next

\* Every OFFER and ACK that is queued is backed by the table: the same client, the same
\* address and, for an ACK, the expiry the client computes (an OFFER is held for ten seconds
\* whatever time it advertises); no other reply advertises a lease.
THEOREM RepliesRecorded == Spec => AdvertisedIsRecorded
<1>1. TypeOK /\ [Next]_vars => [Recorded]_vars
  BY RecordedStep
<1> QED
  BY <1>1, TypeCorrect, PTL DEF Spec, AdvertisedIsRecorded, Recorded

-----------------------------------------------------------------------------
(* Only a DISCOVER brings a lease to life.                                 *)

\* The body of NoRevival for one key.
Revival(k) ==
  phase = "running" /\ ~ Held(k) /\ Held(k)' =>
    /\ Len(queue') > Len(queue)
    /\ queue'[Len(queue')].type = "OFFER"
    /\ queue'[Len(queue')].key = k

\* What is left of a table after a purge.
LEMMA PurgeKeeps ==
  ASSUME NEW L \in Table, NEW k \in Key, NEW t \in Nat
  PROVE  /\ update_leases(L, t)[k] # NoLease <=> L[k] # NoLease /\ t < L[k].exp
         /\ update_leases(L, t)[k] \in {L[k], NoLease}
<1>1. CASE L[k] = NoLease
  BY <1>1 DEF update_leases
<1>2. CASE L[k] # NoLease
  <2>1. L[k] \in Lease
    BY <1>2 DEF Table
  <2>2. L[k].exp \in Nat
    BY <2>1 DEF Lease
  <2> QED
    BY <1>2, <2>2 DEF update_leases
<1> QED
  BY <1>1, <1>2

\* An entry that a step leaves alone or removes does not come to life.
LEMMA NotRevived ==
  ASSUME TypeOK, TypeOK', NEW k \in Key, leases'[k] \in {leases[k], NoLease}, now <= now'
  PROVE  ~ Held(k) => ~ Held(k)'
<1>1. leases \in Table /\ leases' \in Table /\ now \in Nat /\ now' \in Nat
  BY DEF TypeOK
<1>2. Held(k) <=> leases[k] # NoLease /\ now < leases[k].exp
  BY <1>1, PurgeKeeps DEF Held
<1>3. Held(k)' <=> leases'[k] # NoLease /\ now' < leases'[k].exp
  BY <1>1, PurgeKeeps DEF Held
<1>4. leases[k] # NoLease => leases[k].exp \in Nat
  BY <1>1 DEF Table, Lease
<1> QED
  BY <1>1, <1>2, <1>3, <1>4

LEMMA RevivalStep ==
  ASSUME TypeOK, TypeOK', [Next]_vars, NEW k \in Key \ {dummy_hwaddr}
  PROVE  Revival(k)
<1>b. k \in Key /\ leases \in Table /\ now \in Nat
  BY DEF TypeOK
<1>c. Fresh \in Table
  BY <1>b, UpdateType DEF Fresh
<1>d. Fresh[k] \in {leases[k], NoLease}
  BY <1>b, PurgeKeeps DEF Fresh
<1>0. leases \in Table /\ Fresh \in Table /\ now \in Nat /\ Fresh[k] \in {leases[k], NoLease}
  BY <1>b, <1>c, <1>d
<1>a. ASSUME leases'[k] \in {leases[k], NoLease}, now <= now' PROVE Revival(k)
  BY <1>a, NotRevived DEF Revival
<1>1. CASE Receive
  <2>1. CASE Quiet
    BY <1>0, <1>a, <2>1 DEF Quiet
  <2>2. CASE Parks
    BY <1>0, <1>a, <2>2 DEF Parks, Table
  <2>3. CASE Terminate
    BY <1>0, <1>a, <2>3 DEF Terminate, NoLeases
  <2>4. ASSUME NEW j \in Key, NEW a, NEW t \in 0 .. MaxTime, NEW hold, NEW r \in Reply,
               Binds(j, a, t, hold, r), j # k
        PROVE  Revival(k)
    BY <1>0, <1>a, <2>4 DEF Binds, Table
  <2>5. ASSUME NEW j \in Key, Offers(j) PROVE Revival(k)
    <3>1. PICK a \in Addr, t \in 0 .. MaxTime, r \in Reply :
            Binds(j, a, t, OfferHold, r) /\ r.type = "OFFER"
      BY <2>5 DEF Offers
    <3>2. CASE j = k
      <4>1. queue' = Append(queue, r) /\ r.key = k
        BY <3>1, <3>2 DEF Binds
      <4>2. Len(queue') > Len(queue) /\ queue'[Len(queue')] = r
        BY <4>1 DEF TypeOK
      <4> QED
        BY <3>1, <4>1, <4>2 DEF Revival
    <3> QED
      BY <2>4, <3>1, <3>2
  <2>6. ASSUME NEW j \in Key, Acks(j) PROVE Revival(k)
    <3>1. PICK a \in Addr, t \in 0 .. MaxTime, r \in Reply :
            Binds(j, a, t, lease_time_seconds, r) /\ Fresh[j] # NoLease
      BY <2>6 DEF Acks
    <3>2. CASE j = k
      BY <3>1, <3>2 DEF Revival, Held, Fresh
    <3> QED
      BY <2>4, <3>1, <3>2
  <2>7. ASSUME NEW j \in Key, Releases(j) PROVE Revival(k)
    BY <1>0, <1>a, <2>7 DEF Releases, Table
  <2> QED
    BY <1>1, <2>1, <2>2, <2>3, <2>5, <2>6, <2>7, ReceiveEffect
<1>2. CASE Start \/ WriteAndExit
  BY <1>2 DEF Start, WriteAndExit, Revival
<1>3. CASE StopAndTruncate
  BY <1>0, <1>a, <1>3 DEF StopAndTruncate, Fresh
<1>4. CASE Send \/ Tick \/ UNCHANGED vars
  BY <1>0, <1>a, <1>4 DEF Send, Tick, vars
<1>5. CASE Crash
  BY <1>0, <1>a, <1>5 DEF Crash, NoLeases
<1> QED
  BY <1>1, <1>2, <1>3, <1>4, <1>5 DEF Next

\* While the daemon runs a client comes to hold a lease by an OFFER to itself only: no
\* REQUEST, delayed or repeated as it may be, revives one that is released or expired.
THEOREM OnlyDiscoveryBinds == Spec => NoRevival
<1>1. TypeOK /\ TypeOK' /\ [Next]_vars => [\A k \in Key \ {dummy_hwaddr} : Revival(k)]_vars
  BY RevivalStep
<1> QED
  BY <1>1, TypeCorrect, PTL DEF Spec, NoRevival, Revival

-----------------------------------------------------------------------------
(* The daemon implements the lease service.                                *)

\* What a purge at the present time may leave of the binding b.
LEMMA PurgedFacts ==
  ASSUME NEW L \in Table, NEW k \in Key, TypeOK
  PROVE  /\ L[k] \in LS!Purged(L[k])
         /\ update_leases(L, now)[k] \in LS!Purged(L[k])
         /\ load_leases(L, now)[k] \in LS!Purged(L[k])
<1>1. now \in Nat
  BY DEF TypeOK
<1>2. L[k] # NoLease => L[k].exp \in Nat
  BY DEF Table, Lease
<1>3. L[k] \in LS!Purged(L[k])
  BY DEF LS!Purged
<1>4. update_leases(L, now)[k] \in LS!Purged(L[k])
  BY <1>1, <1>2 DEF LS!Purged, update_leases
<1>5. load_leases(L, now)[k] \in LS!Purged(L[k])
  BY <1>1, <1>2 DEF LS!Purged, load_leases
<1> QED
  BY <1>3, <1>4, <1>5

LEMMA BookIsTable == ASSUME TypeOK PROVE Book \in Table /\ LS!Book = Table
BY DEF TypeOK, Book, LS!Book, LS!Binding, Table, Lease

\* What the service sees of the process.
LEMMA View ==
  /\ phase = "running" => Book = leases /\ Kept = file /\ Status = "open"
  /\ phase = "writing" => Book = leases /\ Kept = leases /\ Status = "closing"
  /\ phase = "stopped" => Book = file /\ Kept = file /\ Status = "closed"
  /\ phase = "crashed" => Book = file /\ Kept = file /\ Status = "down"
BY DEF Book, Kept, Status

LEMMA ViewNext ==
  /\ phase' = "running" => Book' = leases' /\ Kept' = file' /\ Status' = "open"
  /\ phase' = "writing" => Book' = leases' /\ Kept' = leases' /\ Status' = "closing"
  /\ phase' = "stopped" => Book' = file' /\ Kept' = file' /\ Status' = "closed"
  /\ phase' = "crashed" => Book' = file' /\ Kept' = file' /\ Status' = "down"
BY DEF Book, Kept, Status

\* An offer or an acknowledgement to the sender is a step of the sender's of the service.
LEMMA BindsServes ==
  ASSUME TypeOK, TypeOK', phase = "running",
         NEW k \in Key, NEW a \in Addr, NEW t \in 0 .. MaxTime,
         NEW hold \in {OfferHold, lease_time_seconds}, NEW r, Binds(k, a, t, hold, r),
         sender' = k
  PROVE  LS!Serve(k)
<1>1. Fresh \in Table /\ leases \in Table
  BY UpdateType DEF TypeOK, Fresh
<1>2. /\ Book = leases /\ Book' = leases' /\ Status = "open" /\ UNCHANGED Status
      /\ UNCHANGED Kept
  BY View, ViewNext DEF Binds
<1>3. Book' \in LS!Book
  BY BookIsTable, <1>2 DEF TypeOK, LS!Book, LS!Binding, Table, Lease
<1>4. \A j \in Key \ {k} : Book'[j] \in LS!Purged(Book[j])
  BY <1>1, <1>2, PurgedFacts DEF Binds, Table, Fresh
<1>5. Book'[k] = [ip |-> a, exp |-> now' + hold]
  BY <1>1, <1>2 DEF Binds, Table
<1>6. now' \in Nat /\ now' >= now
  BY DEF Binds, TypeOK
<1> QED
  BY <1>2, <1>3, <1>4, <1>5, <1>6 DEF LS!Serve, LS!OnlyExpire

LEMMA ReceiveServes ==
  ASSUME TypeOK, TypeOK', Receive
  PROVE  LS!Next
<1>1. phase = "running"
  BY ReceiveEffect
<1>2. PICK k \in Key : /\ sender' = k
                       /\ \/ Quiet \/ Parks \/ Terminate
                          \/ Offers(k) \/ Acks(k) \/ Releases(k)
  BY ReceiveEffect
<1>3. /\ Book' \in LS!Book /\ leases \in Table /\ now \in Nat /\ now' \in Nat
      /\ Book = leases /\ Kept = file /\ Status = "open"
  BY <1>1, BookIsTable, View DEF TypeOK, Book, LS!Book, LS!Binding, Table, Lease
<1>4. CASE Quiet
  <2>1. Book' = leases' /\ UNCHANGED <<now, Kept, Status>>
    BY <1>1, <1>3, <1>4, ViewNext DEF Quiet
  <2>2. \A j \in Key : Book'[j] \in LS!Purged(Book[j])
    BY <1>3, <1>4, <2>1, PurgedFacts DEF Quiet, Fresh
  <2>3. Book'[k] = NoLease \/ Book'[k] = Book[k]
    BY <2>2 DEF LS!Purged
  <2>4. LS!Serve(k)
    BY <1>2, <1>3, <2>1, <2>2, <2>3 DEF LS!Serve, LS!OnlyExpire
  <2> QED
    BY <2>4 DEF LS!Next
<1>5. CASE Parks
  <2>1. Book' = leases' /\ UNCHANGED <<now, Kept, Status>>
    BY <1>1, <1>3, <1>5, ViewNext DEF Parks
  <2>2. LS!Park
    BY <1>2, <1>3, <1>5, <2>1 DEF Parks, LS!Park
  <2> QED
    BY <2>2 DEF LS!Next
<1>6. CASE Terminate
  <2>1. Book' = file /\ Kept' = file /\ Status' = "down" /\ now' = now
    BY <1>6, ViewNext DEF Terminate
  <2>2. LS!Fail
    BY <1>2, <1>3, <2>1 DEF LS!Fail
  <2> QED
    BY <2>2 DEF LS!Next
<1>7. CASE Offers(k) \/ Acks(k)
  BY <1>1, <1>2, <1>7, BindsServes DEF Offers, Acks, LS!Next
<1>8. CASE Releases(k)
  <2>1. Book' = leases' /\ UNCHANGED <<now, Kept, Status>>
    BY <1>1, <1>3, <1>8, ViewNext DEF Releases
  <2>2. Book'[k] = NoLease /\ \A j \in Key \ {k} : Book'[j] = Book[j]
    BY <1>3, <1>8, <2>1 DEF Releases, Table
  <2>3. \A j \in Key \ {k} : Book'[j] \in LS!Purged(Book[j])
    BY <1>3, <2>2, PurgedFacts
  <2>4. LS!Serve(k)
    BY <1>2, <1>3, <2>1, <2>2, <2>3 DEF LS!Serve, LS!OnlyExpire
  <2> QED
    BY <2>4 DEF LS!Next
<1> QED
  BY <1>2, <1>4, <1>5, <1>6, <1>7, <1>8

LEMMA ServiceStep == TypeOK /\ TypeOK' /\ [Next]_vars => [LS!Next]_(LS!svars)
<1> SUFFICES ASSUME TypeOK, TypeOK', [Next]_vars PROVE LS!Next \/ UNCHANGED LS!svars
  OBVIOUS
<1>0. /\ Book' \in LS!Book
      /\ leases \in Table /\ file \in Table /\ now \in Nat /\ now' \in Nat
  BY BookIsTable DEF TypeOK, Book, LS!Book, LS!Binding, Table, Lease
<1>1. CASE Receive
  BY <1>1, ReceiveServes
<1>2. CASE Send \/ Tick
  <2>1. UNCHANGED <<Book, Kept, Status>>
    BY <1>2 DEF Send, Tick, Book, Kept, Status
  <2>2. sender' = NoClient /\ now' >= now
    BY <1>0, <1>2 DEF Send, Tick
  <2>3. LS!Pass
    BY <1>0, <2>1, <2>2 DEF LS!Pass
  <2> QED
    BY <2>3 DEF LS!Next
<1>3. CASE Start
  <2>1. /\ Book = file /\ Kept = file /\ Status \in {"closed", "down"}
        /\ Book' = load_leases(file, now) /\ Kept' = file /\ Status' = "open"
        /\ now' = now /\ sender' = NoClient
    BY <1>3, View, ViewNext DEF Start
  <2>2. \A k \in Key : Book'[k] \in LS!Purged(Book[k])
    BY <1>0, <2>1, PurgedFacts
  <2>3. LS!Open
    BY <1>0, <2>1, <2>2 DEF LS!Open, LS!OnlyExpire
  <2> QED
    BY <2>3 DEF LS!Next
<1>4. CASE StopAndTruncate
  <2>1. /\ Book = leases /\ Status = "open"
        /\ Book' = update_leases(leases, now) /\ Kept' = Book' /\ Status' = "closing"
        /\ now' = now /\ sender' = NoClient
    BY <1>4, View, ViewNext DEF StopAndTruncate
  <2>2. \A k \in Key : Book'[k] \in LS!Purged(Book[k])
    BY <1>0, <2>1, PurgedFacts
  <2>3. LS!Close
    BY <1>0, <2>1, <2>2 DEF LS!Close, LS!OnlyExpire
  <2> QED
    BY <2>3 DEF LS!Next
<1>5. CASE WriteAndExit
  <2>1. /\ UNCHANGED <<Book, Kept, now>> /\ sender' = NoClient
        /\ Status = "closing" /\ Status' = "closed"
    BY <1>5, View, ViewNext DEF WriteAndExit
  <2>2. LS!Closed
    BY <2>1 DEF LS!Closed
  <2> QED
    BY <2>2 DEF LS!Next
<1>6. CASE Crash
  <2>1. /\ Book' = file' /\ Kept' = file' /\ Status' = "down"
        /\ now' = now /\ sender' = NoClient
    BY <1>6, ViewNext DEF Crash
  <2>2. CASE phase = "running"
    <3>1. file' = file /\ Kept = file /\ Status = "open"
      BY <1>6, <2>2, View DEF Crash
    <3>2. LS!Fail
      BY <1>0, <2>1, <3>1 DEF LS!Fail
    <3> QED
      BY <3>2 DEF LS!Next
  <2>3. CASE phase = "writing"
    <3>1. Kept = leases /\ Status = "closing"
      BY <2>3, View
    <3>2. \A k \in Key : Book'[k] = leases[k] \/ Book'[k] = NoLease
      BY <1>6, <2>1, <2>3 DEF Crash
    <3>3. \A k \in Key : LS!Remains(k, Book'[k])
      BY <3>1, <3>2 DEF LS!Remains
    <3>4. LS!Fail
      BY <1>0, <2>1, <3>1, <3>3 DEF LS!Fail
    <3> QED
      BY <3>4 DEF LS!Next
  <2> QED
    BY <1>6, <2>2, <2>3 DEF Crash
<1>7. CASE UNCHANGED vars
  BY <1>7 DEF vars, LS!svars, Book, Kept, Status
<1> QED
  BY <1>1, <1>2, <1>3, <1>4, <1>5, <1>6, <1>7 DEF Next

LEMMA ServiceInit == Init => LS!Init
BY View DEF Init, LS!Init, NoLeases

\* The daemon, its lease file and its restarts included, implements LeaseService: a
\* datagram changes the binding of its sender only, and handle_decline the parked one;
\* apart from that a binding goes when it has expired.  A clean stop and start
\* drops no lease that has not expired.  A crash of the running daemon brings back the
\* leases of the file as it stands, and a crash inside write_leases some of those it was
\* writing, none of them altered.
THEOREM ImplementsLeaseService == Spec => LeaseServiceSpec
<1>1. Spec => []TypeOK
  BY TypeCorrect
<1> QED
  BY <1>1, ServiceInit, ServiceStep, PTL DEF Spec, LeaseServiceSpec, LS!Spec
=============================================================================
