------------------------------ MODULE Datagram ------------------------------
(***************************************************************************)
(* A request and its reply as bytes: the conversions of bytemanip,         *)
(* from_buffer, parse_options and to_byte_vector (src/datagram.cpp), the   *)
(* option values that parse_configuration stores and the handlers put into *)
(* a reply.  Module Daemon decides which reply and which address; here the *)
(* question is what is on the wire, on hosts of either byte order.         *)
(*                                                                         *)
(* A request ends with option 255, as every DHCP message does, and fits    *)
(* the receive buffer: the scan of parse_options has no other end.  The    *)
(* loops over options are steps, one for each option, so that invariants   *)
(* can follow them.                                                        *)
(***************************************************************************)
EXTENDS Integers, Sequences

CONSTANTS
  Message,         \* what clients send: a set of records, see IsMessage
  Setting,         \* the options groups of the configuration file, see IsSetting
  Netmask, LeaseTime, ServerAddress, Offered,   \* numbers
  Remaining,       \* numbers: what may be left of a lease when it is offered again
  Unset            \* values of the byte of the hardware address that is not copied

Byte == 0 .. 255
Word == {n \in Nat : ((n \div 256) \div 256) \div 256 \in Byte}

PAD == 0
SUBNET_MASK == 1
ROUTERS == 3
DNS_SERVER == 6
LEASE_TIME == 51
DHCP_MESSAGE_TYPE == 53
SERVER_IDENTIFIER == 54
PARAMETER_REQUEST_LIST == 55
OPTIONS_END == 255

\* Option 50 is the requested address, option 2 the time offset.
predefined_option_lengths == [t \in {DHCP_MESSAGE_TYPE, SUBNET_MASK, 2, 50} |->
                                IF t = DHCP_MESSAGE_TYPE THEN 1 ELSE 4]

DHCP_MAGIC_COOKIE == <<99, 130, 83, 99>>
OPTIONS_OFFSET == 240
DGRAM_SIZE == 576

\* The wire format: from starts[1] on the bytes b hold the options one after the other,
\* each at its start: a pad is its tag alone, all others are tag, length and value.
Option == [tag : Byte \ {OPTIONS_END}, value : Seq(Byte)]

Laid(b, starts, options) ==
  /\ Len(starts) = Len(options) + 1 /\ starts[1] = OPTIONS_OFFSET + 1
  /\ \A i \in 1 .. Len(options) :
       LET o == options[i]
           p == starts[i]
       IN  /\ b[p] = o.tag
           /\ o.tag = PAD => starts[i + 1] = p + 1
           /\ o.tag # PAD =>
                /\ b[p + 1] = Len(o.value) /\ starts[i + 1] = p + 2 + Len(o.value)
                /\ \A j \in 1 .. Len(o.value) : b[p + 1 + j] = o.value[j]
           /\ starts[i + 1] <= Len(b) + 1

\* They are followed by the end.
Encodes(b, starts, options) ==
  /\ Laid(b, starts, options)
  /\ starts[Len(starts)] <= Len(b) /\ b[starts[Len(starts)]] = OPTIONS_END

\* A client's message: the bytes, the options it wrote, and where.  It fits the buffer of
\* handle_epollin: of a longer one recvmsg keeps the first DGRAM_SIZE bytes and option 255
\* is not among them.
IsMessage(m) ==
  /\ m.bytes \in Seq(Byte) /\ Len(m.bytes) > OPTIONS_OFFSET /\ Len(m.bytes) <= DGRAM_SIZE
  /\ m.options \in Seq(Option) /\ m.starts \in Seq(Nat \ {0})
  /\ Encodes(m.bytes, m.starts, m.options)

\* An options group: settings by key, an integer or a list of addresses.
IsSetting(settings) ==
  \A key \in DOMAIN settings :
    /\ settings[key].value \in Seq(Nat)
    /\ settings[key].kind = "int" => Len(settings[key].value) = 1

ASSUME DatagramAssumption ==
  /\ \A m \in Message : IsMessage(m)
  /\ \A settings \in Setting : IsSetting(settings)
  /\ {Netmask, LeaseTime, ServerAddress, Offered} \subseteq Word /\ Remaining \subseteq Word
  /\ Unset \subseteq Byte

VARIABLES
  little,           \* the host is little-endian
  defined_options,  \* what parse_configuration stored: option values by tag
  message,          \* what the client sent
  stage,            \* "idle", "scan", "parsed", "refused", "queued", "push", "sent"
  options_buffer,   \* the position of the scan
  parsed_options,   \* what it has found: option values by tag
  datagram,         \* what from_buffer made of the message
  reply,            \* the reply a handler queued
  bytes,            \* what to_byte_vector has made of it
  written,          \* history: the options in bytes, in the order the map yields them
  starts            \* history: where they start, and where the next one will

config == <<little, defined_options>>
scan == <<message, options_buffer, parsed_options>>
output == <<bytes, written, starts>>
vars == <<config, scan, stage, datagram, reply, output>>

-----------------------------------------------------------------------------
(* bytemanip, for the two sizes it is used with.                           *)

\* to_byte_array and to_byte_vector: most significant byte first.
to_byte_array(n, size) ==
  IF size = 2 THEN <<(n \div 256) % 256, n % 256>>
  ELSE <<(((n \div 256) \div 256) \div 256) % 256, ((n \div 256) \div 256) % 256,
         (n \div 256) % 256, n % 256>>

to_number(b) ==
  IF Len(b) = 2 THEN b[1] * 256 + b[2]
  ELSE ((b[1] * 256 + b[2]) * 256 + b[3]) * 256 + b[4]

Reversed(b) == IF Len(b) = 2 THEN <<b[2], b[1]>> ELSE <<b[4], b[3], b[2], b[1]>>

\* htonl, htons, ntohl, ntohs.
hton(n, size) == IF little THEN to_number(Reversed(to_byte_array(n, size))) ELSE n

to_network_byte_array_Plain(n, size) == to_byte_array(n, size)

to_network_byte_array(n, size) == to_byte_array(hton(n, size), size)

convert_network_byte_array(b) == hton(to_number(b), Len(b))

-----------------------------------------------------------------------------
(* Option values.                                                          *)

parse_ip_address(n) == to_byte_array(n, 4)

key_tag_mapping == [key \in {"routers", "domain-name-servers"} |->
                      IF key = "routers" THEN ROUTERS ELSE DNS_SERVER]

\* The bytes stored for a setting: an integer is cast to sixteen bits, of a list of
\* addresses each gives four bytes.
OptionValue(setting) ==
  IF setting.kind = "int" THEN to_network_byte_array(setting.value[1] % 65536, 2)
  ELSE [i \in 1 .. 4 * Len(setting.value) |->
          parse_ip_address(setting.value[(i + 3) \div 4])[((i + 3) % 4) + 1]]

SubnetMask_NetworkOrder == to_byte_array(hton(Netmask, 4), 4)

\* The mask: inet_aton puts it into network order, ntohl takes it back.
SubnetMask == to_byte_array(hton(hton(Netmask, 4), 4), 4)

\* defined_options after parse_configuration: settings with an unknown key are skipped.
parse_configuration(settings) ==
  LET known == DOMAIN settings \cap DOMAIN key_tag_mapping
  IN  [t \in {key_tag_mapping[key] : key \in known} \cup {SUBNET_MASK, LEASE_TIME} |->
         IF t = SUBNET_MASK THEN SubnetMask
         ELSE IF t = LEASE_TIME THEN to_byte_array(LeaseTime, 4)
         ELSE OptionValue(settings[CHOOSE key \in known : key_tag_mapping[key] = t])]

-----------------------------------------------------------------------------
(* The request: parse_options and from_buffer.                             *)

Arrive ==
  /\ stage = "idle"
  /\ message' \in Message
  /\ stage' = "scan"
  /\ options_buffer' = OPTIONS_OFFSET + 1 /\ parsed_options' = <<>>
  /\ UNCHANGED <<config, datagram, reply, output>>

Tag == message.bytes[options_buffer]
Length == message.bytes[options_buffer + 1]

LegalLength(tag, length) ==
  tag \in DOMAIN predefined_option_lengths => length = predefined_option_lengths[tag]

Store_FirstStays(map, tag, value) ==
  [t \in DOMAIN map \cup {tag} |-> IF t \in DOMAIN map THEN map[t] ELSE value]

\* map[tag] = value.
Store(map, tag, value) ==
  [t \in DOMAIN map \cup {tag} |-> IF t = tag THEN value ELSE map[t]]

ScanPad ==
  /\ stage = "scan" /\ Tag = PAD
  /\ options_buffer' = options_buffer + 1
  /\ UNCHANGED <<config, message, parsed_options, stage, datagram, reply, output>>

ScanOption ==
  /\ stage = "scan" /\ Tag \notin {PAD, OPTIONS_END} /\ LegalLength(Tag, Length)
  /\ parsed_options' = Store(parsed_options, Tag,
                            SubSeq(message.bytes, options_buffer + 2, options_buffer + 1 + Length))
  /\ options_buffer' = options_buffer + 2 + Length
  /\ UNCHANGED <<config, message, stage, datagram, reply, output>>

\* parse_options throws std::invalid_argument, and handle_epollin drops the datagram.
Refuse ==
  /\ stage = "scan" /\ Tag \notin {PAD, OPTIONS_END} /\ ~ LegalLength(Tag, Length)
  /\ stage' = "refused"
  /\ UNCHANGED <<config, scan, datagram, reply, output>>

\* The fields of a datagram.  The relay agent's address and the sixteenth byte of the
\* hardware address are not read; a wrong cookie is only logged.
from_buffer(b, options, unset) ==
  [opcode |-> b[1], hwaddr_type |-> b[2], hwaddr_len |-> b[3],
   transaction_id |-> convert_network_byte_array(SubSeq(b, 5, 8)),
   secs_passed |-> convert_network_byte_array(SubSeq(b, 9, 10)),
   flags |-> to_number(SubSeq(b, 11, 12)),
   client_ip |-> to_number(SubSeq(b, 13, 16)),
   assigned_ip |-> to_number(SubSeq(b, 17, 20)),
   hw_addr |-> Append(SubSeq(b, 29, 43), unset),
   options |-> options]

Parsed ==
  /\ stage = "scan" /\ Tag = OPTIONS_END
  /\ stage' = "parsed"
  /\ \E unset \in Unset : datagram' = from_buffer(message.bytes, parsed_options, unset)
  /\ UNCHANGED <<config, scan, reply, output>>

-----------------------------------------------------------------------------
(* The handlers.                                                           *)

\* What a handler answers a message of each type with (DISCOVER, REQUEST, INFORM).
AnswerTypes == [type \in {1, 3, 8} |-> IF type = 1 THEN {"OFFER"}
                                      ELSE IF type = 3 THEN {"ACK", "NAK"} ELSE {"INFORM"}]

TypeByte == [type \in {"OFFER", "ACK", "NAK"} |->
               IF type = "OFFER" THEN 2 ELSE IF type = "ACK" THEN 5 ELSE 6]

\* set_requested_options: the requested options that are defined.
set_requested_options(d) ==
  IF PARAMETER_REQUEST_LIST \in DOMAIN d.options
  THEN {t \in DOMAIN defined_options :
          \E i \in DOMAIN d.options[PARAMETER_REQUEST_LIST] :
            d.options[PARAMETER_REQUEST_LIST][i] = t}
  ELSE {}

\* The server's address: the kernel has it in network order, ntohl takes it to host order.
extract_interface_info == hton(hton(ServerAddress, 4), 4)

\* The tags in a reply.  The answer to an INFORM is without lease time, a NAK has nothing
\* but its type.
ReplyTags(d, type) ==
  IF type = "NAK" THEN {DHCP_MESSAGE_TYPE}
  ELSE IF type = "INFORM" THEN set_requested_options(d) \ {LEASE_TIME}
  ELSE set_requested_options(d) \cup {DHCP_MESSAGE_TYPE, SERVER_IDENTIFIER, LEASE_TIME}

\* What LEASE_TIME can be: a client that has a lease may be offered the rest of it.
LeaseTimes(type) ==
  {defined_options[LEASE_TIME]}
    \cup {to_byte_array(n, 4) : n \in IF type = "OFFER" THEN Remaining ELSE {}}

ReplyOptions(d, type, time) ==
  [t \in ReplyTags(d, type) |->
     IF t = DHCP_MESSAGE_TYPE THEN <<TypeByte[type]>>
     ELSE IF t = SERVER_IDENTIFIER THEN to_byte_array(extract_interface_info, 4)
     ELSE IF t = LEASE_TIME THEN time
     ELSE defined_options[t]]

\* The reply to d: the skeleton, the address and the options.
create_reply(d, type, time) ==
  [opcode |-> 2, hwaddr_type |-> d.hwaddr_type, hwaddr_len |-> d.hwaddr_len,
   transaction_id |-> d.transaction_id, secs_passed |-> 0, flags |-> d.flags,
   client_ip |-> 0, assigned_ip |-> IF type \in {"OFFER", "ACK"} THEN Offered ELSE 0,
   hw_addr |-> d.hw_addr, options |-> ReplyOptions(d, type, time)]

\* handle_recv and the handlers that answer.  What they do to the lease table, messages that
\* have no answer and the end of the process for want of option 53 are in module Daemon.
Handle ==
  /\ stage = "parsed"
  /\ datagram.opcode = 1 /\ DHCP_MESSAGE_TYPE \in DOMAIN datagram.options
  /\ LET kind == datagram.options[DHCP_MESSAGE_TYPE][1]
     IN  /\ kind \in DOMAIN AnswerTypes
         /\ \E type \in AnswerTypes[kind] : \E time \in LeaseTimes(type) :
              reply' = create_reply(datagram, type, time)
  /\ stage' = "queued"
  /\ UNCHANGED <<config, scan, datagram, output>>

-----------------------------------------------------------------------------
(* The reply: to_byte_vector.                                              *)

Zeros(n) == [i \in 1 .. n |-> 0]

\* The bytes in front of the options.
Header(d) ==
  <<d.opcode, d.hwaddr_type, d.hwaddr_len, 0>>
    \o to_network_byte_array(d.transaction_id, 4) \o to_network_byte_array(d.secs_passed, 2)
    \o to_byte_array(d.flags, 2) \o to_byte_array(d.client_ip, 4)
    \o to_byte_array(d.assigned_ip, 4) \o Zeros(8)
    \o d.hw_addr \o Zeros(192) \o DHCP_MAGIC_COOKIE

\* handle_epollout takes the reply.
PushHeader ==
  /\ stage = "queued"
  /\ bytes' = Header(reply)
  /\ written' = <<>> /\ starts' = <<OPTIONS_OFFSET + 1>>
  /\ stage' = "push"
  /\ UNCHANGED <<config, scan, datagram, reply>>

Unwritten == {t \in DOMAIN reply.options : \A i \in DOMAIN written : written[i].tag # t}

\* An option as it is written: a length is cast to a byte.
Pushed(t, value) == <<t, Len(value) % 256>> \o value

\* The unordered map yields the options in any order.
PushOption ==
  /\ stage = "push"
  /\ \E t \in Unwritten :
       /\ bytes' = bytes \o Pushed(t, reply.options[t])
       /\ written' = Append(written, [tag |-> t, value |-> reply.options[t]])
       /\ starts' = Append(starts, Len(bytes) + 3 + Len(reply.options[t]))
  /\ UNCHANGED <<config, scan, stage, datagram, reply>>

PushEnd ==
  /\ stage = "push" /\ Unwritten = {}
  /\ bytes' = Append(bytes, OPTIONS_END)
  /\ stage' = "sent"
  /\ UNCHANGED <<config, scan, datagram, reply, written, starts>>

Nothing == <<>>

Init ==
  /\ little \in BOOLEAN
  /\ \E settings \in Setting : defined_options = parse_configuration(settings)
  /\ stage = "idle"
  /\ message = Nothing /\ options_buffer = 0 /\ parsed_options = Nothing
  /\ datagram = Nothing /\ reply = Nothing
  /\ bytes = Nothing /\ written = Nothing /\ starts = Nothing

Next ==
  \/ Arrive \/ ScanPad \/ ScanOption \/ Refuse \/ Parsed
  \/ Handle \/ PushHeader \/ PushOption \/ PushEnd

Spec == Init /\ [][Next]_vars

-----------------------------------------------------------------------------
(* Properties.                                                             *)

\* parse_options reads what the client wrote, up to a full receive buffer: of every tag the
\* last value, whatever pads are in between, and it refuses the message exactly if an
\* option of predefined length has another.
ScanReadsTheOptions ==
  LET options == message.options
      Legal(i) == LegalLength(options[i].tag, Len(options[i].value)) \/ options[i].tag = PAD
      Last(i) == options[i].tag # PAD
                 /\ \A j \in (i + 1) .. Len(options) : options[j].tag # options[i].tag
  IN  /\ stage = "refused" => \E i \in 1 .. Len(options) : ~ Legal(i)
      /\ stage = "parsed" =>
           /\ \A i \in 1 .. Len(options) : Legal(i)
           /\ DOMAIN datagram.options = {options[i].tag : i \in 1 .. Len(options)} \ {PAD}
           /\ \A i \in 1 .. Len(options) :
                Last(i) => datagram.options[options[i].tag] = options[i].value

\* A client recognises its reply: hardware type and length, transaction number, flags and
\* hardware address (its first fifteen bytes) are byte for byte those it sent, although
\* the program reads some fields through ntohl and others not, on hosts of either order.
ReplyIsRecognised ==
  stage = "sent" =>
    /\ bytes[1] = 2
    /\ \A i \in (2 .. 3) \cup (5 .. 8) \cup (11 .. 12) \cup (29 .. 43) :
         bytes[i] = message.bytes[i]

\* Most significant byte first, as the protocol has it.
BigEndian(n) ==
  <<((n \div 256) \div 256) \div 256, ((n \div 256) \div 256) % 256, (n \div 256) % 256,
    n % 256>>

Fits(map) == \A t \in DOMAIN map : Len(map[t]) < 256

\* If no value is too long for its length byte, the reply is a message in the wire format
\* that holds exactly the options the handler set, each once, in whatever order the map
\* yields them, and the address, the mask, the lease time and the server are in network
\* byte order, on hosts of either byte order.
ClientReadsTheReply ==
  stage = "sent" /\ Fits(reply.options) =>
    /\ Encodes(bytes, starts, written)
    /\ \A i, j \in 1 .. Len(written) : written[i].tag = written[j].tag => i = j
    /\ {written[i].tag : i \in 1 .. Len(written)} = DOMAIN reply.options
    /\ \A i \in 1 .. Len(written) : written[i].value = reply.options[written[i].tag]
    /\ SubSeq(bytes, 17, 20) \in {BigEndian(0), BigEndian(Offered)}
    /\ \A i \in 1 .. Len(written) :
         /\ written[i].tag = SUBNET_MASK => written[i].value = BigEndian(Netmask)
         /\ written[i].tag = LEASE_TIME =>
              \E n \in Remaining \cup {LeaseTime} : written[i].value = BigEndian(n)
         /\ written[i].tag = SERVER_IDENTIFIER => written[i].value = BigEndian(ServerAddress)
=============================================================================
