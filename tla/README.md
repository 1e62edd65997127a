# TLA+ models of tinydhcpd

tinydhcpd is a small DHCP server: one process, one thread, one UDP socket and
a lease table in memory that is read from a file at start and written back
after a clean stop. This directory holds TLA+ models of its core, the TLC
configurations that check them on small instances, and TLAPS proofs of the
properties that hold for every instance. Source paths are relative to the root
of the repository, so `src/daemon.cpp` is `src/src/daemon.cpp` in
`PROJECT.json`.

## 1. The system

| Part | State | Operations | Modelled in |
|---|---|---|---|
| Lease table and message handlers (`daemon.cpp`) | `_active_leases`: hardware address (16 bytes) to address and expiry | `handle_recv` and the five handlers, `update_leases`, `get_reply_destination`, `set_requested_options` | `Daemon` |
| Lease file (`daemon.cpp`) | a text file, one line per lease | `load_leases`, `write_leases` | `Daemon` (as a table), `LeaseFile` (as text) |
| Event loop (`epoll.hpp`) | `ready_to_send`, `events` | `poll_loop` | `EventLoop` |
| Socket (`socket.cpp`) | `_send_queue`, the kernel's two buffers | `handle_epollin`, `handle_epollout`, `enqueue_datagram` | `EventLoop`, `Daemon` |
| Signals (`daemon.cpp`, `main.cpp`) | `last_signal` | `sighandler` | `EventLoop` |
| Start (`main.cpp`, `daemonize`) | options, the forks and their pipe | `main`, `daemonize` | `Startup` |
| Configuration (`configuration.cpp`) | `SubnetConfiguration` | `parse_configuration`, `check_net_range`, `parse_hosts` | its outcomes in `Startup`, hosts in `FixedHosts`, option values in `Datagram` |
| Fixed hosts (`subnet_config.hpp`) | a tree ordered by `operator<` | insert, find | `FixedHosts` |
| Datagram codec (`datagram.cpp`, `bytemanip.*`) | none | `from_buffer`, `parse_options`, `to_byte_vector` | `Datagram`; what it delivers, in `Daemon` |
| Logging (`log/`) | the priority between two `<<` | formatting | not modelled |

How they interact. `poll_loop` sleeps in `epoll_wait`. On EPOLLIN it calls
`handle_epollin` until the receive buffer is empty; each call parses one
datagram and calls `handle_recv`, which changes the lease table and pushes at
most one reply on `_send_queue`. On EPOLLOUT it sets `ready_to_send`; at the top
of the next round it calls `handle_epollout` until the queue is empty or
`sendto` would block. A signal handler writes `last_signal`, which the loop
tests once per round; SIGINT and SIGTERM make it return, and `main` then calls
`write_leases`. Every other way out skips `write_leases`. Before all this `main`
reads the configuration, constructs the socket and the epoll instance, loads the
leases and, as a SysV daemon, forks twice; the daemon reports to the process
that was started over a pipe.

What is hard about it:

- Edge-triggered epoll reports each change once, so an event that arrives
  between two system calls of the loop must not be lost.
- A signal may arrive between any two instructions, and `last_signal` holds
  one.
- A handler reads the clock up to three times; a lease may expire in between.
- The lease table is keyed by sixteen bytes of which `from_buffer` sets
  fifteen.
- A declined address lives in the same table as the leases of clients, under the
  all-zero key.
- The lease file is truncated before it is written, and stale after a crash.
- A crash can cut the lease file at any character.
- The map of fixed hosts is ordered by an `operator<` that is not an order.
- Some fields of a datagram are converted to host byte order and others not, and
  the options of a reply come in the order of an unordered map.
- A REQUEST may arrive late or twice, when its lease is no more.
- After the forks three processes hold the socket and the pipe, and each may
  die at any step.
- Exceptions: `std::invalid_argument` is caught in `handle_epollin` and
  `std::runtime_error` in `main`, but `std::out_of_range` nowhere.

`PROJECT.json` lists these hazards at their lines with the properties that
watch them.

What makes each part correct: an acknowledged lease is kept until it expires,
across restarts (table and file); an address is given to one client at a time
(allocator); the reply says what the table says (handlers); no event and no
reply is lost, and replies keep their order (event loop, socket); a stop signal
stops the daemon (signals); the exit status of the process that was started
tells whether a daemon runs (start); a host with a fixed address is found, and
only it (fixed hosts); what is written to the lease file is read back, and
nothing else (lease file); the client reads from the bytes of a reply what the
handler put into it (codec).

## 2. Modules

    LeaseService        what a lease server promises: a book of bindings
         ^ implements
    Daemon              lease table, handlers, lease file, clock, crashes
         ^ EXTENDS
    MCDaemon            datagrams and other values for TLC
    DaemonProofs        proofs about Daemon

    EventLoop           poll_loop, socket, signals, epoll and socket buffers
         ^ EXTENDS
    EventLoopProofs     proofs about EventLoop

    Startup             main, parse_configuration, daemonize
         ^ EXTENDS
    StartupProofs       proofs about Startup

    FixedHosts          parse_hosts, operator<, the map of fixed hosts
         ^ EXTENDS
    FixedHostsProofs    proofs about FixedHosts

    LeaseFile           the text of the lease file, cut anywhere by a crash
         ^ EXTENDS
    LeaseTextProofs     what is printed is read back: numbers, addresses
         ^ EXTENDS
    LeaseLineProofs     the same for a hardware address, a line, a cut line
         ^ EXTENDS
    LeaseFileProofs     proofs about LeaseFile, which implements LeaseService too

    Datagram            bytes: conversions, option scanner, replies, option values
         ^ EXTENDS
    MCDatagram          messages and configurations for TLC
    DatagramProofs      proofs about Datagram

### Daemon

| Variable | Code |
|---|---|
| `leases` | `_active_leases`, a function from keys to `[ip, exp]` or `NoLease` |
| `file` | the lease file |
| `queue` | `Socket::_send_queue` |
| `now` | the system clock in seconds |
| `phase` | where the process is: stopped, running, writing (inside `write_leases`), crashed |
| `promise` | history: what was last acknowledged to a client and not given up since |
| `sender` | history: the key of the datagram the last step handled, or `NoClient` |

A handler is one action, because the daemon has one thread and nothing else
touches the table. The actions keep the names of the functions; where a handler
has several outcomes (`handle_discovery`: throws, finds no address, offers;
`handle_request`: refuses for one of three reasons, acknowledges), each outcome
is an action of its own with the conditions of its path as guard. The readings
of the clock inside a handler are `now`, `t2` and `t3`, in this order.

A key is a pair of a number for the fifteen bytes `from_buffer` copies and one
for the byte it leaves unset (`datagram.cpp:51`: the end of the copied range is
one byte short). The value of the unset byte is chosen anew for every datagram
from `TailByte`; with a single value in `TailByte` the models show what the code
does when the byte is the same each time.

An address has two bytes of `Radix` values each, so that `htonl` is a real
exchange of bytes and not the identity, and an address in the wrong order is a
different address.

`DiscoveryOffers` computes the remaining lease time modulo `UINT32_RANGE`,
as the cast in `daemon.cpp:268` does.

`StopAndTruncate` is the return of the loop with the opening of the output file
and the purge; `WriteAndExit` writes the lines. `Crash` may come in between, and
leaves the lines of some of the first keys.

### EventLoop

One action per system call or test of `last_signal`, so that arrivals,
transmissions and signals interleave with the loop exactly where they can.
`pc` names the place. The kernel is external and modelled from how the code uses
it: `armed` says that the socket is on the ready list of the epoll instance. An
arriving datagram puts it there, and so does a transmission that leaves at most
half of the send buffer in use; `epoll_wait` takes it off and reports the
readiness of that moment. The socket is writable for epoll while less than half
of the buffer is in use. `sendto` returns EWOULDBLOCK when the buffer is full.

What a datagram does to the lease table is left to `Daemon`: here a datagram
is answered, ignored or ends the process. A reply carries the number of its
datagram so that order and loss can be stated.

### Startup

Three processes: the parent is the one that was started, the child comes from the
first fork of `daemonize`, the daemon from the second. `pc` says where each of them
is, `writers` and `readers` who holds the ends of the pipe, `data` what is in it;
`handlers` and `last_signal` are kept per process because a fork copies them. In
the foreground and under systemd the parent serves itself. `parse_configuration`
gives the way it ends for each kind of file. Every system call that is checked
may fail, and so may `pipe`, which is not checked; the descriptors are then unset. `read`
from whatever the number stands for returns and leaves an arbitrary byte in the buffer,
or does not return ("blocked"). The module ends with the first test of `last_signal` in `poll_loop`,
where `EventLoop` begins: `Handled` of `EventLoop` is what `InstallTerm` leaves in
`handlers`.

### FixedHosts

`nodes` is `fixed_hosts` in tree order, `configured` what the file says. A group
of the hosts list is one action, `Skip` or `Add`, with the tests of
`parse_hosts`. The tree is the one of libstdc++, which is external. Its shape
after several insertions depends on rotations, so `lower_bound` yields every
position at which the descent may end for some shape: the node there is not
less than the key, the one before it is, and the descent turned the right way at
the root. That the root of a tree of two nodes is the first one inserted, and of
more nodes neither the first nor the last in tree order, is what the red-black
rules leave. `Insert` attaches the new node as libstdc++ does: it compares the
key with the node the descent ended at and hangs the new node on that side. With
an `operator<` that is not an order this may overwrite the subtree that hangs
there already; `sound` is then false, and the model does not go on. All
sequences of five insertions of the real `std::map` (g++ 12) were found among
the behaviours of the model. `Daemon` takes what a lookup finds as its constant
`fixed_hosts`; `FindsOnlyTheHostAsked` and `TypeOK` are what it assumes.

### LeaseFile

A line is a sequence of characters: digits, which are their values, and three
separators. `Digits` and `strtoul` print and read numbers in the bases `Hex` and
`Dec`, `Find` is `find_first_of`; `HwText`, `inet_ntoa` and `Line` are the printing,
`Delimiters`, `Timestamp`, `hwaddr`, `Accepted` and `load_leases` the parser. The loop
of `write_leases` is a step for each line, `WriteLine`, in the order of the keys
(`IsNext`), and `written` says how far it has come, so that an invariant can. `Crash`
comes between two lines or inside one, of which it leaves any number of characters.
`Bind` and `Park` stand for the handlers, which `Daemon` has: one stores the lease of a
client, whose hardware address may be all zero, the other a declined address under the
all-zero key; `sender` is the client that did it. `CutLosesOnlyTheTail` is what
`Crash` and `WrittenPrefix` of `Daemon` rest on.

### Datagram

One message goes through the server. `Arrive` is its receipt; `ScanPad`,
`ScanOption` and `Refuse` are the turns of the loop of `parse_options`, and
`Parsed` is its end with the rest of `from_buffer`; `Handle` is the handler, which
queues the reply with its options; `PushHeader`, `PushOption` once for each option
and `PushEnd` are `to_byte_vector`. The loops are steps so that an invariant can say
how far they are. `PushOption` takes the options in any order, as an unordered map
may.

| Variable | Code |
|---|---|
| `little` | the byte order of the host: `hton` exchanges the bytes or does nothing, `to_byte_array` and `to_number` do not depend on it |
| `defined_options` | what `parse_configuration` stores, by tag |
| `message`, `options_buffer`, `parsed_options` | the bytes received, the position of `parse_options` in them and its result |
| `datagram`, `reply` | the `DhcpDatagram` of `from_buffer` and that of the handler |
| `bytes` | the result of `to_byte_vector` so far |
| `written`, `starts` | history: the options in `bytes` and where they start |

`Laid` and `Encodes` are the wire format: tag, length and value one after the
other, a pad one byte, 255 at the end. What a client sends is a message in this
format with any options whatever that fits the receive buffer of `DGRAM_SIZE` bytes
(`IsMessage`); what the server sends is shown to
be one. Which reply is given, and whether an OFFER carries the configured lease
time or the rest of a lease (`Remaining`), is a free choice here, since `Daemon`
decides it. The options group of the configuration is a function from keys
(`IsSetting`), since libconfig refuses a repeated name.

### LeaseService

The abstract specification: a `book` with one binding per client, the book as it was
last `kept`, a `status` (open, closing, closed, down) and the `sender` of the message
handled in the last step.

- `Serve(c)` is a message of client `c`, which `sender` then names: while the service
  is open `c` obtains, renews or gives up its own binding. All others stay, or are
  purged if they have expired.
- `Park` is a message that takes an address out of service.
- `Close`, `Closed` and `Open` are a clean stop and the next start. They drop expired
  bindings and nothing else.
- `Fail` while the service is open brings back the book as it was kept. While it is
  closing some bindings are lost (`Remains`); those that are left are as they were, except
  that the end of the parked one may come out earlier.
- `Pass` is everything else: the book stays, the clock may advance.

The refinement mapping reads the book from memory while the process runs or writes and
from the file while it does not; `kept` is the file, or what is being written to it.
Since `sender` is tied to the datagram in both specifications, a handler that touches
another client's entry, or a stop or start that loses a lease that has not expired, is
a step that no action of `LeaseService` allows.

## 3. Assumptions and abstractions

- The clock does not go backwards. (`system_clock` may be set back by hand; the
  leases then last longer than they should.)
- A client's hardware address has length 6, or 0 for none.
- Options other than 50, 51, 53 and 55 are data no property tells apart. A
  datagram that `parse_options` refuses changes nothing, and is left out.
- The ARP cache, which `get_reply_destination` fills for a unicast reply, is
  not represented; the destination is.
- The host of `Daemon` is little-endian; that of `Datagram` is either.
- Of a line cut short by a crash `Daemon` reads nothing, except that the line of
  the parked address counts as written when enough of the digits of `UINT64_MAX`
  are there to name a time ahead. `LeaseFile` checks this against the text.
- The fixed hosts of `Daemon` are those that a lookup finds; see `FixedHosts`.
- A message ends with option 255, as DHCP requires, within the first 576 bytes, which
  is what `recvmsg` keeps of it (`socket.cpp:13, 80, 107`). The loop of `parse_options`
  has no other end: its condition compares the buffer with itself. A longer message loses
  its tail and option 255, and the scan goes on behind the buffer; nothing here is said
  of such a message.
- The lease file can be opened and written (`daemon.cpp:574` and `585`-`588` do not check).
  If it cannot, a clean stop leaves the old file or a part of the new one.
- `strtoul` reads numbers of any size, that is, `unsigned long` has 64 bits. Where it has
  32, an expiry after 2106 and `UINT64_MAX` come back as 2^32 - 1.
- In the run of `Datagram` numbers have their highest bit clear in both byte orders,
  so that they are integers of TLC. The proofs have all numbers of 32 bits (`Word`).
- In `LeaseFile` the clock has as many digits as every expiry of a client, which is
  so from 2001 to 2286, and more than an octet of an address
  (`LeaseFileAssumption`). Without this a cut time could still lie ahead.
- The assumptions on the constants of `Daemon` (`ConstantsAssumption`) are what
  `parse_configuration` makes sure of. They also hold for the empty
  configuration `main` continues with after an `invalid_argument`.
  `UINT64_MAX` is larger than every expiry a client's lease can have.
- `parse_configuration` throws a `SettingNotFoundException` for a file with a
  `listen-address` and no `interface`, unless the command line names one, and a
  `SettingTypeException` for an option of the wrong type. `main` catches neither,
  and `Startup` ends there.
- An error of `recvmsg` other than EWOULDBLOCK is transient: `handle_epollin` is
  then called again, which is a stuttering step. An error of `epoll_wait` other
  than EINTR (`epoll.hpp:79`) would be a programming error and does not occur.

## 4. Runs

| Run | Checks | Shows |
|---|---|---|
| `daemon` | `TypeOK`, `Honoured`, `NoImmortalLease`, `PoolAvoidsDeclined`, `LeaseServiceSpec`, `AdvertisedIsRecorded`, `NoRevival` | A client, a host with a fixed address inside the pool and one whose hardware address is all zero send every shape of message while leases expire and the process stops, crashes and restarts. |
| `event_loop` | `TypeOK`, `NoLostInput`, `NoStrandedReply`, `InOrder`, `NothingVanishes`, `StopMissedOnlyInWindow`, `Served`, `StopServed` | The loop against arrivals, transmissions and signals at every system call, under fairness. |
| `startup` | `TypeOK`, `AtMostOneServer`, `SuccessMeansReady`, `FailureMeansNoDaemon`, `ParentReturns`, `EarlyStopObeyed` | Every command line, configuration file and failure, two signals to any process, under fairness. |
| `datagram` | `ScanReadsTheOptions`, `ReplyIsRecognised`, `ClientReadsTheReply` | Requests and replies as bytes, on hosts of either byte order, with five configurations. |
| `lease_file` | `CleanStopReadsBack`, `CutLosesOnlyTheTail` | The lease file as text, cut at every character and read at every time. |
| `fixed_hosts` | `TypeOK`, `FindsOnlyTheHostAsked`, `OrderedHostsAreFound` | Up to four hosts in every order, with invalid groups and repetitions. |
| `host_lost` | `EveryHostIsFound`, violated | Of two hosts, each less than the other, the second is not found. |
| `orphan` | `ErrorIsInChild`, violated | `pipe` fails: the parent reports an error of its child, and the daemon runs. |
| `refused_config` | `ServesAcceptedConfig`, violated | `main` goes on with an empty subnet after an `invalid_argument`. |
| `ack_exclusive` | `AckExclusive`, violated | The allocator looks at the first lease only: a client that discovers a second time is offered, and then acknowledged, the address another client has on offer. |
| `unset_byte` | `UnknownMeansNoDiscover`, violated | With two values of the unset byte a client that was offered an address is refused as unknown. |
| `remaining_time` | `OffersRemainingTime`, violated | A lease that expires during a discovery yields a remaining time that wraps around. |

The six violations are disagreements between the code and its own comments
or messages; `PROJECT.json` quotes the lines under "findings". The models show
three more peculiarities that no text of the repository contradicts: while a
lease exists the search never offers `range_end` (`daemon.cpp:279`); the unicast
answer to an INFORM goes to the client's address with its bytes exchanged
(`daemon.cpp:386`); and an option configured as an integer is stored with its two
bytes exchanged on a little-endian host (`configuration.cpp:155`).

What the main properties say:

- `Honoured`: an acknowledged lease is in the table of record, unchanged, until
  it expires. Only the client's own DISCOVER or RELEASE, or a crash, ends it. The
  client's own DISCOVER does: the code then overwrites the lease with an offer
  of ten seconds. The all-zero key is excluded, since a decline replaces its
  entry.
- `NoImmortalLease`: no lease of a client outlives the longest hold, in memory
  or on disk.
- `PoolAvoidsDeclined`: the parked address is not allocated. The allocator looks
  at one lease only, so this rests on the all-zero key being the first of the
  table.
- `AdvertisedIsRecorded`: the address an OFFER or an ACK names is the one the table has
  for that client at that moment, an ACK's lifetime is the one in the table too, and
  nothing else advertises a lease time. The lifetime an OFFER names is that of the lease
  to come; the table holds the address for ten seconds.
- `LeaseServiceSpec`: see `LeaseService` above. It says of all messages, stops, starts and
  crashes together who may change whose binding.
- `NoRevival`: while the daemon runs, a client that holds no lease comes to hold
  one by an OFFER to itself only. `handle_request` looks at the client's entry and
  at nothing else, so this rests on its purge: without it a late REQUEST finds
  the expired entry and is acknowledged.
- `FindsOnlyTheHostAsked`: neither address is less than the other only if they are
  equal, so a lookup may miss but never mistakes. `OrderedHostsAreFound`: a
  subnet whose hosts differ in one octet, as in `examples/example.conf`, is safe.
- `CutLosesOnlyTheTail`: what remains of a line that was cut is never taken for a
  lease, because the last number in it is then too short to be a time ahead.
- `ReplyIsRecognised`, `ClientReadsTheReply`: fields that are converted on the way in
  are converted on the way out, on hosts of either byte order; the mask, the lease
  time, the server and the address reach the client most significant byte first.
  What the client then reads is exactly the options the handler set, if no value is
  longer than its length byte can say (`Fits`).
- `NoLostInput`, `NoStrandedReply`: when the loop sleeps on an unread datagram
  or on a queued reply, an event is due that will wake it.
- `StopMissedOnlyInWindow`, `StopServed`: a stop signal can be slept through,
  but only when it came after the test of `last_signal` and before `epoll_wait`
  slept, and it then takes effect with the next datagram unless a SIGHUP
  replaced it.
- `SuccessMeansReady`, `FailureMeansNoDaemon`, `ParentReturns`: the protocol on the
  pipe, all three only if there is one. The parent reports success only for a daemon that is initialised and
  failure only if none is left, and it does not wait for ever, because it closes its
  own copy of the write end before it reads.

Bounds. `lease_time_seconds` is 2 and `OfferHold` is 1, so within `MaxTime` of 3
an offer and a lease expire and their addresses are given out again. `MaxPause`
is the number of seconds that may pass inside a handler; it is 2 in
`remaining_time`, where the clock must pass the expiry between two readings.
`MaxQueue` of 1 keeps one reply at a time, since the handlers never read the
queue. The subnet has three addresses; the range has two in `daemon`, so that
the search fails when the first lease has the first of them and the client and
the fixed host may share it, and three in the other runs. `UINT64_MAX` is 20 and `UINT32_RANGE` 16, both above any time
reached. The receive buffer and the send buffer hold two datagrams each, so the
second is at exactly half with one datagram, the case in which epoll wakes the
loop but does not report EPOLLOUT; four datagrams are enough to fill the send
buffer while replies wait and while the receive buffer drops one. Two signals
let a SIGHUP replace a SIGTERM. `Startup` has no bound but the number of signals:
two suffice to kill two of the three processes, or to note a stop signal and
kill one. In `fixed_hosts` addresses have two octets of three values, which have
all relations that six octets have under `operator<`; four hosts are enough for
a rotation of the tree and one more insertion. In `lease_file` octets are printed in
base 3 and times in base 2, so that an octet has up to two digits, a time five
and `UINT64_MAX` six; two leases, one of them perhaps the parked address, give a
complete line and a cut one, and within three seconds a lease expires. One address is
enough there, since the text of a line does not depend on the others. In `datagram` a message has up to two arbitrary
options out of eight, or a request for options in full, and one fills the receive
buffer to its last byte; 63 configured addresses
are the longest list whose length fits into a byte. With 64 the length byte is 0
and the reply is no longer in the wire format; the configuration is in the run,
and `ClientReadsTheReply` says nothing of such a reply.

No symmetry is used: keys and addresses are ordered. Deadlock is not checked:
all counters are bounded, and the daemon, the loop and the start may end.

Fairness. `Fairness` of `EventLoop` is weak fairness of `poll_loop`, because the
process is scheduled and each of its steps is a system call that returns, and of
`Transmit`, because the card sends what is in the send buffer. Nothing makes
clients or signals arrive. `Fairness` of `Startup` is weak fairness of each of the
three processes, which the scheduler gives them. The liveness properties of the
loop are for finitely many arrivals; while datagrams keep coming, `handle_epollin` is called without end
and no reply leaves, which the code permits.

## 5. Proofs

`tlapm` checks every proof. The theorems hold for all values of the constants
that satisfy the assumption of the module they are about: `ConstantsAssumption`,
`EventLoopAssumption`, `StartupAssumption`, `FixedHostsAssumption`,
`DatagramAssumption`, `LeaseFileAssumption`. Every safety property of a passing run
is a theorem.

`DaemonProofs`:

- `TypeCorrect`: `TypeOK` is inductive by itself. A lemma `ReceiveEffect` sums
  up what a handler may do (nothing, bind one client and queue a reply, unbind
  one, park an address, refuse, end the process); the other proofs argue about
  these effects and not about each handler again.
- `LeasesHonoured`: `Honoured` is inductive with `TypeOK`. Its `Book` is what makes
  it so: stated of the table in memory alone it would break when the process
  stops. `StopAndTruncate`, `WriteAndExit` and `Start` carry the promised leases
  over because a purge and `load_leases` drop expired leases only.
- `LeasesEnd`: inductive with `TypeOK`; it speaks of the table and of the file,
  because after a crash the old file becomes the table.
- `DeclinedStaysOut`: rests on a lemma about the order of
  keys, that the all-zero key is before all others and so `FirstKey` is the
  parked entry whenever there is one.
- `RepliesRecorded`: an action property, from `TypeOK`.
- `OnlyDiscoveryBinds`: `NoRevival`, an action property, from `TypeOK`. The effect of
  an acknowledgement includes that the purged table had the lease.
- `ImplementsLeaseService`: every action of `Daemon` maps to one of `LeaseService`.
  `ReceiveEffect` ties what a handler does to `sender`, so a datagram is a `Serve` of its own
  sender, a `Park`, or a `Fail` if it ends the process. `Send` and `Tick` are `Pass`,
  `StopAndTruncate`, `WriteAndExit` and `Start` are `Close`, `Closed` and `Open`, and `Crash` is
  `Fail`.

`EventLoopProofs`:

- `LoopTypeCorrect`.
- `InputNotLost`, from `InputInv`: an unread datagram outside `recv` keeps the
  socket on the ready list.
- `RepliesNotStranded`, from `ReplyInv`: while `ready_to_send` is false, an
  EPOLLOUT is recorded in `events`, due on the ready list, or at least half of
  the send buffer is in use and its transmission will bring one. The
  strengthening covers the places between `epoll_wait` and the next sleep.
- `StopWindow`, from `StopInv`: the history variable `late` at each place of the
  loop.
- `RepliesAccountedFor` and `RepliesInOrder`: the second from `OrderInv`, which
  adds that every number in the three sequences is below `next`.

`StartupProofs`, from `IInv`, with one lemma for each action:

- `StartupTypeCorrect`.
- `StartsOneServer`: `AtMostOneServer`, from `PlaceInv`, which says where each process
  can be and who has forked by then.
- `SuccessIsReported`, `FailureIsFinal`: `SuccessMeansReady` and
  `FailureMeansNoDaemon` follow from `ExitInv`, which `ReadReport` preserves because of
  what the byte in the pipe says (`DataInv`) and what the end of file says. The end of
  file means that nobody will report, because whoever has still to fork or to report
  holds the write end (`PipeInv`). Without the places of all three processes none
  of these is inductive.

`FixedHostsProofs`:

- `FixedTypeCorrect`.
- `LookupIsExact`: `FindsOnlyTheHostAsked`, from the lemma that two addresses neither of
  which is less than the other are equal, and the invariant that every node is a
  host of the file.
- `OrderedConfigIsSafe`: `OrderedHostsAreFound`, from `OrderedTree`: as long as all hosts
  of the file are ordered, the tree was never damaged, its nodes are sorted, every host
  has one and it holds the address last configured. On such hosts `operator<` is
  transitive (`BelowTransitive`), so the descent ends at the one place where the key
  belongs (`DescentSplits`), whatever the shape of the tree, and `Insert` keeps the
  order.

`DatagramProofs`, from `IInv`, which has one conjunct for each stage of the message:

- `ScanIsExact`: `ScanReadsTheOptions`, from `ScanInv`: the scan stands at the start of
  an option and has read exactly those before it, the last value of every tag.
- `ReplyEchoesTheClient`: `ReplyIsRecognised`, from `Echo`, which follows the fields
  that the client compares from the bytes through `datagram` and `reply` to the
  bytes. It rests on the lemmas about bytemanip (`HtonTwice`, `NetworkRoundTrip`,
  `HostRoundTrip`) and on the place of every field in the header (`HeaderBytes`).
- `ReplyIsWellFormed`: `ClientReadsTheReply`, from `WrittenInv` and `EndInv`: the options
  written so far are laid out in the bytes, each once, and the next one starts at
  their end. `LaidLonger` says that bytes appended do not disturb what is laid out,
  `LaidOneMore` that one more option is.

`LeaseFileProofs`, from `IInv`: the lines of the file are those of the first keys of
the table that was to be written (`Ordered`), all whole but perhaps the last one
after a crash (`Contents`), and none is missing after a clean stop (`Complete`).

- `StopReadsBack`: `CleanStopReadsBack`. By `WholeLine` a whole line yields its key and
  its lease; by `OneLine` there is one line for a key, so the order of the lines does
  not matter to `load_leases`.
- `CutIsHarmless`: `CutLosesOnlyTheTail`. By `CutLine` a cut line has no delimiter, or an
  octet of an address for a time, or lacks the last digits of its time. A number
  that has lost a digit is at most a `Dec`-th of what it was (`DigitsPrefix`), which
  for a client is a time before the clock's (`LostDigit`). `IInv` needs these lemmas
  itself: what `Start` loads is the next table to be written.

- `TextImplementsService`: `TextServiceSpec`, the service of `LeaseService`, which `Daemon`
  implements with a file that holds a table and `LeaseFile` with one that holds text.
  The book is `leases` while the process runs or writes and what the text says while it
  does not. `WriteLine` is a `Pass`, `Exit` is `Closed`, since nothing is lost in the text, and
  `Start` is `Open`, because a later reading finds the same leases less the expired ones
  (`LoadLater`). `Crash` is `Fail`: while the process runs the text stays, and inside
  `write_leases` the parser finds no lease that was not written (`NothingMadeUp`).

What printing and parsing compute is proved in `LeaseTextProofs` and
`LeaseLineProofs` by induction on numbers and positions. The induction theorems of the
library take an operator, which the provers cannot instantiate, but `WFMin` takes a
set: a set of counterexamples that is not empty has a least element (`LeastNumber`),
and each proof shows that it cannot be one. The recursive functions are
unfolded the same way: a lemma says that a function with the recursive equation
exists (`PrintExists`, `ValueExists`, `TextExists`, `ColonExists`), so the one that is
chosen satisfies it. On these rest `DigitsValue` (a printed number has its value),
`StrtoulReads` (`strtoul` reads it, whatever follows), `AddrReads` (`inet_aton` reads
what `inet_ntoa` printed), `ColonsAre` (the parser finds the colons where the octets
end) and `HwReads` (the hardware address).

Only model-checked:

- `Served`, `StopServed`, `ParentReturns` and `EarlyStopObeyed`: liveness under fairness,
  which the provers do not reach.
- The six violations.

Only proved: `TextServiceSpec`. TLC evaluates a primed parser over and over and does not
get far with it; the two invariants of `lease_file` have the same content in a form that
it can check.

## 6. Not modelled, and the plan

To add: when the allocator of the code is changed to visit all leases, `AckExclusive`
becomes an invariant to be checked and proved.

Not modelled:

- Logging: the choice of the sink, formatting and output. The priority that
  `SyslogBuffer` keeps between two `<<` is reset at every `std::endl`, with which each
  message ends, so no message sees another's; the rest is text.
- `sighandler` allocates (`daemon.cpp:53`), which is undefined behaviour if it
  interrupts the allocator; the allocator is not in the model.
- What becomes of replies that are still queued when a stop signal makes the loop return
  (`epoll.hpp:62`): the models drop them, as the code does, and no property is about them.
- That the address of a fixed host inside the range is kept for it: the search does not
  look at `fixed_hosts`, and nothing in the repository says that it does.
- The ARP cache of the kernel, which `get_reply_destination` writes. A reply may find
  the entry overwritten only if two clients have the same address, which
  `AckExclusive` is about.
- libconfig, the calls that set up the socket (they succeed or end the process),
  the notification of systemd, the capability and uid changes of `daemonize`
  beyond success or failure.
