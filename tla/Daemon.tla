------------------------------- MODULE Daemon -------------------------------
(***************************************************************************)
(* The lease server of tinydhcpd (src/daemon.cpp): the table               *)
(* _active_leases, the handlers of the five DHCP client messages, the      *)
(* purge of expired leases, and the life of the process around them:       *)
(* load_leases at start, write_leases after a clean stop, and the exits    *)
(* that skip write_leases.                                                 *)
(*                                                                         *)
(* A handler is one action: the daemon has one thread and calls a handler  *)
(* once per datagram.  What interleaves is the clock, which a handler      *)
(* reads up to three times (now, then t2, then t3), the transmission of    *)
(* queued replies, the arrival of the next datagram, and crashes.          *)
(***************************************************************************)
EXTENDS Integers, Sequences

CONSTANTS
  HwAddr,             \* values of the 15 chaddr bytes from_buffer copies; 0 is all zero
  TailByte,           \* values the 16th byte, which from_buffer leaves unset, can have
  Radix,              \* values per byte of an address of two bytes (256 in the program)
  Subnet,             \* the addresses a with (a & netmask) = (subnet_address & netmask)
  range_start, range_end,
  fixed_hosts,        \* the hosts a lookup in _netconfig.fixed_hosts finds
  lease_time_seconds,
  OfferHold,          \* how long an offer is held (10 seconds in the program)
  UINT64_MAX,         \* the expiry that never comes
  UINT32_RANGE,       \* 2^32, the range of the lease time option
  Wire,               \* the datagrams clients send
  NoLease, NoOption, NoAddress, NoClient,
  MaxTime, MaxPause, MaxQueue   \* bounds: clock, clock steps inside a handler, queue

Addr == 0 .. (Radix * Radix - 1)
INADDR_ANY == 0
dummy_hwaddr == <<0, 0>>
ParsedKey == HwAddr \X TailByte
Key == ParsedKey \cup {dummy_hwaddr}
Lease == [ip : Addr, exp : Nat]
Table == [Key -> Lease \cup {NoLease}]
NoLeases == [k \in Key |-> NoLease]

MessageType == {"DISCOVER", "REQUEST", "DECLINE", "RELEASE", "INFORM", "OTHER", "ABSENT"}
\* Where a reply goes: addr, in network byte order, counts for a unicast only.
Destination == [via : {"unicast", "broadcast", "computed"}, addr : Nat]

\* A client datagram as from_buffer and parse_options read it.  type is option 53
\* (ABSENT: not there, OTHER: a value the server does not handle), reqip is option 50,
\* prl says that option 51 is in the parameter request list.  hlen stands for an
\* Ethernet address or none.  A datagram parse_options refuses changes nothing.
WireDatagram ==
  [opcode : {1, 2}, type : MessageType, hw : HwAddr, hlen : {0, 6}, bcast : BOOLEAN,
   ciaddr : Addr, reqip : Addr \cup {NoOption}, prl : BOOLEAN]

Reply ==
  [type : {"OFFER", "ACK", "NAK", "NONE"}, key : Key, yiaddr : Addr,
   lease : Nat \cup {NoOption}, dest : Destination]

\* What parse_configuration makes sure of: both ends of the range lie in the subnet, and
\* only fixed hosts with an address in the subnet are kept.  (The range may be empty,
\* and a fixed address may lie inside it.)
check_net_range == range_start \in Subnet /\ range_end \in Subnet
parse_hosts ==
  /\ DOMAIN fixed_hosts \subseteq HwAddr
  /\ \A h \in DOMAIN fixed_hosts : fixed_hosts[h] \in Subnet

ASSUME ConstantsAssumption ==
  /\ HwAddr \subseteq Nat /\ TailByte \subseteq Nat
  /\ Radix \in Nat \ {0}
  /\ Subnet \subseteq Addr
  /\ check_net_range /\ parse_hosts
  /\ lease_time_seconds \in Nat /\ OfferHold \in Nat
  /\ UINT32_RANGE \in Nat \ {0}
  /\ MaxTime \in Nat /\ MaxPause \in Nat /\ MaxQueue \in Nat
  /\ UINT64_MAX \in Nat
  /\ UINT64_MAX > MaxTime + MaxPause + lease_time_seconds + OfferHold
  /\ Wire \subseteq WireDatagram
  /\ NoLease \notin Lease /\ NoOption \notin Nat /\ NoAddress \notin Addr
  /\ NoClient \notin Key

VARIABLES
  phase,    \* "stopped", "running", "writing" (inside write_leases), "crashed"
  leases,   \* _active_leases; empty while no process runs
  file,     \* the lease file
  queue,    \* Socket::_send_queue
  now,      \* the system clock, in seconds
  promise,  \* history: the lease last acknowledged to each client and not given up since
  sender    \* history: the client whose datagram the last step handled, or NoClient

vars == <<phase, leases, file, queue, now, promise, sender>>

-----------------------------------------------------------------------------
(* The lease table.                                                        *)

LiveKeys(L) == {k \in Key : L[k] # NoLease}

\* update_leases: drops every lease whose expiry is not after t.
update_leases(L, t) ==
  [k \in Key |-> IF L[k] # NoLease /\ L[k].exp <= t THEN NoLease ELSE L[k]]

\* std::map order on std::array<uint8_t, 16>: lexicographic.
KeyLess(j, k) == j[1] < k[1] \/ (j[1] = k[1] /\ j[2] < k[2])

FirstKey_Reversed(L) ==
  CHOOSE k \in LiveKeys(L) : \A j \in LiveKeys(L) : j = k \/ KeyLess(j, k)

\* _active_leases.begin()->first of a table that is not empty.
FirstKey(L) ==
  CHOOSE k \in LiveKeys(L) : \A j \in LiveKeys(L) : j = k \/ KeyLess(k, j)

\* The search for a free address.  Both branches of the test in its loop leave the
\* loop, so it looks at the first lease of the table and at no other.
Allocate(L) ==
  IF LiveKeys(L) = {} THEN range_start
  ELSE LET candidate == IF L[FirstKey(L)].ip = range_start
                        THEN (range_start + 1) % (Radix * Radix)
                        ELSE range_start
       IN  IF candidate >= range_end THEN NoAddress ELSE candidate

-----------------------------------------------------------------------------
(* Replies.                                                                *)

\* htonl and ntohl on a little-endian host: the bytes change places.
htonl(a) == (a % Radix) * Radix + a \div Radix

\* The destinations get_reply_destination can return for a unicast address in network
\* byte order: the interface's broadcast address, the one it computes when
\* SIOCGIFBRDADDR fails, or the address it also writes into the ARP cache.
get_reply_destination(m, k, unicast_address) ==
  IF m.bcast \/ m.hlen = 0 \/ k = dummy_hwaddr \/ unicast_address = INADDR_ANY
  THEN [via : {"broadcast", "computed"}, addr : {INADDR_ANY}]
  ELSE [via : {"unicast"}, addr : {unicast_address}]

\* The skeleton of a reply with what a handler fills in and the destination it is
\* queued for.  A field no handler fills in is NONE, INADDR_ANY or NoOption.
create_skeleton_reply_datagram(k, type, yiaddr, lease, dest) ==
  [type |-> type, key |-> k, yiaddr |-> yiaddr, lease |-> lease, dest |-> dest]

\* The lease time option after set_requested_options: parse_configuration always
\* defines option 51, a value that is already in the reply stays.
set_requested_options(m, lease) ==
  IF m.prl /\ lease = NoOption THEN lease_time_seconds ELSE lease

\* The lease time option of an OFFER or an ACK, given what is in the reply before.
LeaseOption(m, lease) ==
  LET requested == set_requested_options(m, lease)
  IN  IF requested = NoOption THEN lease_time_seconds ELSE requested

enqueue_datagram(r) == queue' = Append(queue, r)

-----------------------------------------------------------------------------
(* Exits that lose the table.                                              *)

\* A std::out_of_range leaves handle_recv; neither handle_epollin nor main catches it
\* and the process ends without write_leases.
Terminate ==
  /\ phase' = "crashed"
  /\ leases' = NoLeases /\ queue' = <<>> /\ promise' = NoLeases
  /\ UNCHANGED <<file, now>>

-----------------------------------------------------------------------------
(* The handlers.  m is a datagram, k the _hw_addr that from_buffer made.   *)

\* request_hwaddr of handle_discovery: the first _hwaddr_len bytes, the rest zero.
Ether(m) == IF m.hlen = 0 THEN 0 ELSE m.hw

\* The address handle_discovery settles on, given the purged table L.
OfferAddress(L, m, k) ==
  LET keepsRequested ==
        /\ m.reqip # NoOption
        /\ m.reqip \in range_start .. range_end
        /\ L[k] # NoLease /\ L[k].ip = m.reqip
      known == IF keepsRequested THEN m.reqip ELSE m.ciaddr
  IN  IF known # INADDR_ANY THEN known
      ELSE IF Ether(m) \in DOMAIN fixed_hosts THEN fixed_hosts[Ether(m)]
      ELSE Allocate(L)

\* The client names its address in ciaddr only: the handler then looks up its lease
\* with at(), which throws when there is none.
LooksUpLease(m) == m.reqip = NoOption /\ m.ciaddr # INADDR_ANY

DiscoveryThrows(m, k) ==
  /\ LooksUpLease(m)
  /\ update_leases(leases, now)[k] = NoLease
  /\ Terminate

DiscoveryFails(m, k) ==
  LET L == update_leases(leases, now)
  IN  /\ ~ (LooksUpLease(m) /\ L[k] = NoLease)
      /\ OfferAddress(L, m, k) = NoAddress
      /\ leases' = L
      /\ UNCHANGED <<phase, file, queue, now, promise>>

DiscoveryOffers(m, k, t2, t3) ==
  LET L == update_leases(leases, now)
      offer == OfferAddress(L, m, k)
      remaining == IF LooksUpLease(m) THEN (L[k].exp - t2) % UINT32_RANGE ELSE NoOption
  IN  /\ ~ (LooksUpLease(m) /\ L[k] = NoLease)
      /\ offer # NoAddress
      /\ leases' = [L EXCEPT ![k] = [ip |-> offer, exp |-> t3 + OfferHold]]
      /\ \E dest \in get_reply_destination(m, k, htonl(offer)) :
           enqueue_datagram(create_skeleton_reply_datagram(
                              k, "OFFER", offer, LeaseOption(m, remaining), dest))
      /\ now' = t3
      /\ promise' = [promise EXCEPT ![k] = NoLease]
      /\ UNCHANGED <<phase, file>>

handle_discovery(m, k, t2, t3) ==
  DiscoveryThrows(m, k) \/ DiscoveryFails(m, k) \/ DiscoveryOffers(m, k, t2, t3)

RequestedAddress(m) == IF m.reqip # NoOption THEN m.reqip ELSE m.ciaddr

SendNak(m, k) ==
  \E dest \in get_reply_destination(m, k, INADDR_ANY) :
    enqueue_datagram(create_skeleton_reply_datagram(k, "NAK", INADDR_ANY, NoOption, dest))

\* Not in the subnet: refused before update_leases.
RequestForeign(m, k) ==
  /\ RequestedAddress(m) \notin Subnet
  /\ SendNak(m, k)
  /\ UNCHANGED <<phase, leases, file, now, promise>>

\* The client has a lease, for another address.
RequestMismatch(m, k) ==
  LET L == update_leases(leases, now)
  IN  /\ RequestedAddress(m) \in Subnet
      /\ L[k] # NoLease /\ L[k].ip # RequestedAddress(m)
      /\ leases' = L
      /\ SendNak(m, k)
      /\ UNCHANGED <<phase, file, now, promise>>

\* The client has no lease.
RequestUnknown(m, k) ==
  LET L == update_leases(leases, now)
  IN  /\ RequestedAddress(m) \in Subnet
      /\ L[k] = NoLease
      /\ leases' = L
      /\ SendNak(m, k)
      /\ UNCHANGED <<phase, file, now, promise>>

RequestAck_NoPurge(m, k, t2) ==
  LET L == leases
      lease == LeaseOption(m, NoOption)
  IN  /\ RequestedAddress(m) \in Subnet
      /\ L[k] # NoLease /\ L[k].ip = RequestedAddress(m)
      /\ leases' = [L EXCEPT ![k] = [ip |-> RequestedAddress(m),
                                     exp |-> t2 + lease_time_seconds]]
      /\ \E dest \in get_reply_destination(m, k, INADDR_ANY) :
           enqueue_datagram(create_skeleton_reply_datagram(
                              k, "ACK", RequestedAddress(m), lease, dest))
      /\ now' = t2
      /\ promise' = [promise EXCEPT ![k] = [ip |-> RequestedAddress(m), exp |-> t2 + lease]]
      /\ UNCHANGED <<phase, file>>

RequestAck(m, k, t2) ==
  LET L == update_leases(leases, now)
      lease == LeaseOption(m, NoOption)
  IN  /\ RequestedAddress(m) \in Subnet
      /\ L[k] # NoLease /\ L[k].ip = RequestedAddress(m)
      /\ leases' = [L EXCEPT ![k] = [ip |-> RequestedAddress(m),
                                     exp |-> t2 + lease_time_seconds]]
      /\ \E dest \in get_reply_destination(m, k, INADDR_ANY) :
           enqueue_datagram(create_skeleton_reply_datagram(
                              k, "ACK", RequestedAddress(m), lease, dest))
      /\ now' = t2
      /\ promise' = [promise EXCEPT ![k] = [ip |-> RequestedAddress(m), exp |-> t2 + lease]]
      /\ UNCHANGED <<phase, file>>

handle_request(m, k, t2) ==
  \/ RequestForeign(m, k) \/ RequestMismatch(m, k)
  \/ RequestUnknown(m, k) \/ RequestAck(m, k, t2)

handle_release_ByAddress(m, k) ==
  /\ leases' = [j \in Key |-> IF leases[j] # NoLease /\ leases[j].ip = m.ciaddr
                              THEN NoLease ELSE leases[j]]
  /\ promise' = [promise EXCEPT ![k] = NoLease]
  /\ UNCHANGED <<phase, file, queue, now>>

handle_release(m, k) ==
  /\ leases' = [leases EXCEPT ![k] = NoLease]
  /\ promise' = [promise EXCEPT ![k] = NoLease]
  /\ UNCHANGED <<phase, file, queue, now>>

handle_inform_KeepsLeaseTime(m, k) ==
  /\ \E dest \in get_reply_destination(m, k, m.ciaddr) :
       enqueue_datagram(create_skeleton_reply_datagram(
                          k, "NONE", INADDR_ANY, set_requested_options(m, NoOption), dest))
  /\ UNCHANGED <<phase, leases, file, now, promise>>

\* The requested options are set, then the lease time is erased.  The address passed
\* on is _client_ip, which is in host byte order.
handle_inform(m, k) ==
  /\ \E dest \in get_reply_destination(m, k, m.ciaddr) :
       enqueue_datagram(create_skeleton_reply_datagram(
                          k, "NONE", INADDR_ANY, NoOption, dest))
  /\ UNCHANGED <<phase, leases, file, now, promise>>

handle_decline_Unchecked(m, k) ==
  /\ leases' = [leases EXCEPT ![dummy_hwaddr] = [ip |-> m.reqip, exp |-> UINT64_MAX]]
  /\ UNCHANGED <<phase, file, queue, now, promise>>

handle_decline_OwnKey(m, k) ==
  /\ m.reqip # NoOption
  /\ leases' = [leases EXCEPT ![k] = [ip |-> m.reqip, exp |-> UINT64_MAX]]
  /\ UNCHANGED <<phase, file, queue, now, promise>>

\* The declined address is parked, for ever, under the all-zero hardware address; at()
\* throws when the datagram names no address.
handle_decline(m, k) ==
  \/ /\ m.reqip = NoOption
     /\ Terminate
  \/ /\ m.reqip # NoOption
     /\ leases' = [leases EXCEPT ![dummy_hwaddr] = [ip |-> m.reqip, exp |-> UINT64_MAX]]
     /\ UNCHANGED <<phase, file, queue, now, promise>>

\* handle_recv: requests only, dispatched on option 53, whose at(0) throws when it is
\* absent.  k pairs the bytes of the datagram with the unset 16th byte.
handle_recv(m, k, t2, t3) ==
  \/ /\ m.opcode # 1 \/ m.type = "OTHER"
     /\ UNCHANGED <<phase, leases, file, queue, now, promise>>
  \/ /\ m.opcode = 1
     /\ \/ m.type = "DISCOVER" /\ handle_discovery(m, k, t2, t3)
        \/ m.type = "REQUEST"  /\ handle_request(m, k, t2)
        \/ m.type = "RELEASE"  /\ handle_release(m, k)
        \/ m.type = "INFORM"   /\ handle_inform(m, k)
        \/ m.type = "DECLINE"  /\ handle_decline(m, k)
        \/ m.type = "ABSENT"   /\ Terminate

Receive ==
  /\ phase = "running"
  /\ Len(queue) < MaxQueue
  /\ \E m \in Wire, tail \in TailByte :
       \E t2, t3 \in now .. (now + MaxPause) :
         /\ t2 <= t3 /\ t3 <= MaxTime
         /\ handle_recv(m, <<m.hw, tail>>, t2, t3)
         /\ sender' = <<m.hw, tail>>

\* handle_epollout: the reply at the head is sent, or dropped when sendto fails.
Send ==
  /\ phase = "running" /\ queue # <<>>
  /\ queue' = Tail(queue)
  /\ sender' = NoClient
  /\ UNCHANGED <<phase, leases, file, now, promise>>

-----------------------------------------------------------------------------
(* The life of the process.                                                *)

load_leases_Early(f, t) ==
  [k \in Key |-> IF f[k] # NoLease /\ f[k].exp <= t + 1 THEN NoLease ELSE f[k]]

\* load_leases keeps what does not expire before t.
load_leases(f, t) ==
  [k \in Key |-> IF f[k] # NoLease /\ f[k].exp < t THEN NoLease ELSE f[k]]

Start ==
  /\ phase \in {"stopped", "crashed"}
  /\ phase' = "running"
  /\ leases' = load_leases(file, now)
  /\ sender' = NoClient
  /\ UNCHANGED <<file, queue, now, promise>>

\* The event loop has returned: write_leases opens the file, which truncates it, and
\* purges the table.  Replies still queued are not sent any more.
StopAndTruncate ==
  /\ phase = "running"
  /\ phase' = "writing"
  /\ file' = NoLeases
  /\ leases' = update_leases(leases, now)
  /\ queue' = <<>>
  /\ sender' = NoClient
  /\ UNCHANGED <<now, promise>>

\* The lines of all leases are written and flushed, the process ends.
WriteAndExit ==
  /\ phase = "writing"
  /\ phase' = "stopped"
  /\ file' = leases
  /\ leases' = NoLeases
  /\ sender' = NoClient
  /\ UNCHANGED <<queue, now, promise>>

\* The lines written before a crash inside write_leases: those of the first keys.  Of a
\* line cut short load_leases reads a timestamp that is missing or in the past, and skips
\* it; only the twenty digits of UINT64_MAX can lose some and stay far in the future,
\* and the parked address then counts as written.
WrittenPrefix(S) ==
  /\ S \subseteq LiveKeys(leases)
  /\ \A k \in S, j \in LiveKeys(leases) : KeyLess(j, k) => j \in S

\* SIGKILL, a power loss, or a std::runtime_error that main answers with exit.
Crash ==
  /\ \/ phase = "running" /\ UNCHANGED file
     \/ /\ phase = "writing"
        /\ \E S \in SUBSET Key :
             /\ WrittenPrefix(S)
             /\ file' = [k \in Key |-> IF k \in S THEN leases[k] ELSE NoLease]
  /\ phase' = "crashed"
  /\ leases' = NoLeases /\ queue' = <<>> /\ promise' = NoLeases
  /\ sender' = NoClient
  /\ UNCHANGED now

Tick ==
  /\ now < MaxTime
  /\ now' = now + 1
  /\ sender' = NoClient
  /\ UNCHANGED <<phase, leases, file, queue, promise>>

\* Before the first start: no lease file, no process.
Init ==
  /\ phase = "stopped"
  /\ leases = NoLeases /\ file = NoLeases /\ promise = NoLeases
  /\ queue = <<>> /\ sender = NoClient
  /\ now = 0

Next == Receive \/ Send \/ Start \/ StopAndTruncate \/ WriteAndExit \/ Crash \/ Tick

Spec == Init /\ [][Next]_vars

-----------------------------------------------------------------------------
(* Properties.                                                             *)

TypeOK ==
  /\ phase \in {"stopped", "running", "writing", "crashed"}
  /\ leases \in Table /\ file \in Table /\ promise \in Table
  /\ queue \in Seq(Reply)
  /\ sender \in Key \cup {NoClient}
  /\ now \in 0 .. MaxTime

\* The table of record: what the process holds, or what it left on disk.
Book == IF phase \in {"running", "writing"} THEN leases ELSE file

\* A lease acknowledged to a client is in the table of record, with the very address
\* and lifetime the client was told, until it expires: no message of another client
\* (handle_decline's parked address included), no purge and no clean restart
\* (write_leases, then load_leases) removes or changes it.  Only the client's own
\* DISCOVER or RELEASE and a crash end the promise.
Honoured ==
  \A k \in Key \ {dummy_hwaddr} :
    promise[k] # NoLease /\ now < promise[k].exp => Book[k] = promise[k]

LongestHold == IF OfferHold > lease_time_seconds THEN OfferHold ELSE lease_time_seconds

\* Address leak: no lease, in memory or in the file, outlives the longest hold, except
\* the one parked address of handle_decline.  A client that falls silent gives its
\* address back in bounded time, however often the daemon restarts.
NoImmortalLease ==
  \A k \in Key \ {dummy_hwaddr} :
    /\ leases[k] # NoLease => leases[k].exp <= now + LongestHold
    /\ file[k] # NoLease => file[k].exp <= now + LongestHold

\* The search of handle_discovery never yields the address handle_decline has parked,
\* although it looks at one lease only: the all-zero key sorts first.
PoolAvoidsDeclined ==
  LET L == update_leases(leases, now)
  IN  L[dummy_hwaddr] # NoLease => Allocate(L) # L[dummy_hwaddr].ip

\* Every reply that advertises a lease is backed by the table at the moment it is
\* queued: same client, same address, and for an ACK the very expiry the client will
\* compute.  For an OFFER only the address is compared: it advertises the lease time, while
\* handle_discovery holds the address for ten seconds.  Only an OFFER or an ACK advertises
\* a lease.
AdvertisedIsRecorded ==
  [][Len(queue') > Len(queue) =>
       LET r == queue'[Len(queue')]
       IN  /\ r.lease # NoOption <=> r.type \in {"OFFER", "ACK"}
           /\ r.lease # NoOption => leases'[r.key] # NoLease /\ leases'[r.key].ip = r.yiaddr
           /\ r.type = "ACK" => leases'[r.key].exp = now' + r.lease]_vars

\* Held(k): the client of key k has a lease that has not expired.
Held(k) == update_leases(leases, now)[k] # NoLease

\* Nothing but the client's own DISCOVER brings a lease to life: once it is released or has
\* expired, a REQUEST that was delayed or duplicated, a message of another client or the
\* passing of time does not revive it, although handle_request looks at the entry alone
\* and the entry stays in the table until some handler purges it.  (The entry that
\* handle_decline writes is not a client's lease.)
NoRevival ==
  [][\A k \in Key \ {dummy_hwaddr} :
       phase = "running" /\ ~ Held(k) /\ Held(k)' =>
         /\ Len(queue') > Len(queue)
         /\ queue'[Len(queue')].type = "OFFER"
         /\ queue'[Len(queue')].key = k]_vars

\* What is, or will be when write_leases is done, in the lease file.
Kept == IF phase = "writing" THEN leases ELSE file

Status ==
  CASE phase = "running" -> "open"
    [] phase = "writing" -> "closing"
    [] phase = "stopped" -> "closed"
    [] phase = "crashed" -> "down"

\* The daemon, restarts and files included, is a lease service.  In the table of record a
\* datagram changes the binding of its own sender only (handle_decline the parked one
\* too), and besides, a binding disappears when it has expired.  A clean stop and
\* start (write_leases, load_leases) drops expired leases at most.  A crash while the
\* daemon runs brings back the leases of the file as it stands, and one inside
\* write_leases some of those it was writing, unaltered.
LS == INSTANCE LeaseService
        WITH Client <- Key, Parked <- dummy_hwaddr, Address <- Addr, NoBinding <- NoLease,
             Holds <- {OfferHold, lease_time_seconds}, Never <- UINT64_MAX,
             book <- Book, kept <- Kept, clock <- now, status <- Status

LeaseServiceSpec == LS!Spec

-----------------------------------------------------------------------------
(* What comments and messages of the source say and the code does not do.  *)

NewReply == queue'[Len(queue')]

\* daemon.cpp:364, "if somebody else holds this lease, we tell the client to reset":
\* handle_request acknowledges no address that another client's lease holds.
AckExclusive ==
  [][Len(queue') > Len(queue) /\ NewReply.type = "ACK" =>
       \A k \in LiveKeys(update_leases(leases', now')) :
         leases'[k].ip = NewReply.yiaddr => k = NewReply.key]_vars

\* daemon.cpp:369, "Client requests address ... without prior DHCPDISCOVER": a client
\* whose hardware address has a lease in the table is not refused that way.
UnknownMeansNoDiscover ==
  [][\A m \in Wire, tail \in TailByte :
       phase = "running" /\ m.type = "REQUEST" /\ RequestUnknown(m, <<m.hw, tail>>) =>
         \A k \in LiveKeys(update_leases(leases, now)) : k[1] # m.hw]_vars

\* daemon.cpp:265, "we just return the remaining lease time": an offer answering a
\* client that named its address only in ciaddr advertises no more than what was left
\* of its lease when the handler began.
OffersRemainingTime ==
  [][\A m \in Wire, tail \in TailByte, t2, t3 \in now .. now' :
       /\ phase = "running" /\ m.type = "DISCOVER" /\ LooksUpLease(m)
       /\ DiscoveryOffers(m, <<m.hw, tail>>, t2, t3)
       => NewReply.lease <= leases[NewReply.key].exp - now]_vars
=============================================================================
