----------------------------- MODULE MCDatagram -----------------------------
(* Values for the constants of Datagram.                                   *)
EXTENDS Datagram, SequencesExt

Opt(tag, value) == [tag |-> tag, value |-> value]

\* The pieces client messages are made of: pads, every message type that is answered,
\* options of right and of wrong length, request lists.
Piece ==
  {Opt(PAD, <<>>), Opt(DHCP_MESSAGE_TYPE, <<1>>), Opt(DHCP_MESSAGE_TYPE, <<3>>),
   Opt(DHCP_MESSAGE_TYPE, <<1, 1>>), Opt(50, <<10, 0, 0, 5>>), Opt(50, <<10>>),
   Opt(PARAMETER_REQUEST_LIST, <<SUBNET_MASK, LEASE_TIME, 12>>),
   Opt(PARAMETER_REQUEST_LIST, <<ROUTERS>>)}

Ask(type) ==
  <<Opt(DHCP_MESSAGE_TYPE, <<type>>),
    Opt(PARAMETER_REQUEST_LIST, <<SUBNET_MASK, ROUTERS, LEASE_TIME>>)>>

\* With these options a message has DGRAM_SIZE bytes: the longest value there can be, and
\* one that fills up the buffer.
FullBuffer == Ask(1) \o <<Opt(12, Zeros(255)), Opt(60, Zeros(68))>>

ChAddr == <<2, 0, 0, 4, 5, 6, 0, 0, 0, 0, 0, 0, 0, 0, 7, 8>>

OptionLists ==
  UNION {[1 .. n -> Piece] : n \in 0 .. 2} \cup {Ask(t) : t \in {1, 3, 8}}
    \cup {<<Opt(PAD, <<>>)>> \o Ask(1) \o <<Opt(PARAMETER_REQUEST_LIST, <<DNS_SERVER>>)>>,
          FullBuffer}

\* A message with these options on the wire.
OptionBytes(o) == IF o.tag = PAD THEN <<PAD>> ELSE <<o.tag, Len(o.value)>> \o o.value

Encode(flags, options) ==
  [bytes |-> <<1, 1, 6, 0, 1, 2, 3, 4, 0, 9>> \o flags \o Zeros(16) \o ChAddr \o Zeros(192)
               \o DHCP_MAGIC_COOKIE \o FlattenSeq([i \in DOMAIN options |-> OptionBytes(options[i])])
               \o <<OPTIONS_END>>,
   options |-> options,
   starts |-> [k \in 1 .. Len(options) + 1 |->
                 OPTIONS_OFFSET + 1 + FoldLeft(LAMBDA n, o : n + Len(OptionBytes(o)), 0,
                                                SubSeq(options, 1, k - 1))]]

MCMessage == {Encode(f, o) : f \in {<<0, 0>>, <<128, 0>>}, o \in OptionLists}

Addresses(n) == [i \in 1 .. n |-> 167772160 + i]

Say(kind, value) == [kind |-> kind, value |-> value]

\* No options; routers and name servers with an unknown key; the longest list of
\* addresses whose length fits a byte; one more; an integer.
MCSetting ==
  {[key \in {} |-> Say("int", <<0>>)],
   [key \in {"routers", "ntp-servers", "domain-name-servers"} |->
      Say("array", Addresses(IF key = "domain-name-servers" THEN 2 ELSE 1))],
   [key \in {"routers"} |-> Say("array", Addresses(63))],
   [key \in {"routers"} |-> Say("array", Addresses(64))],
   [key \in {"routers", "domain-name-servers"} |->
      IF key = "routers" THEN Say("int", <<258>>) ELSE Say("address", Addresses(1))]}

\* 1.2.3.4 and the like: every byte differs, so an exchange of bytes shows.
MCNetmask == 16909060
MCLeaseTime == 3600
MCServerAddress == 167772161
MCOffered == 167772417
MCRemaining == {16909061}
=============================================================================
