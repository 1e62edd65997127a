------------------------------ MODULE MCDaemon ------------------------------
(* Values for the constants of Daemon.                                     *)
EXTENDS Daemon, TLC

Request(type, hw, ciaddr, reqip) ==
  [opcode |-> 1, type |-> type, hw |-> hw, hlen |-> 6, bcast |-> FALSE,
   ciaddr |-> ciaddr, reqip |-> reqip, prl |-> FALSE]

\* Host 2 has a fixed address, inside the dynamic range as in examples/example.conf.
FixedHost == 2 :> 3
NoFixedHosts == <<>>

\* Two clients that discover and request, as every client does.
PlainWire ==
  {Request("DISCOVER", h, 0, NoOption) : h \in 1 .. 2}
    \cup {Request("REQUEST", h, 0, a) : h \in 1 .. 2, a \in {3, 4}}

\* A client whose hardware address is all zero joins them; they also release, decline, name their address in either field, ask for parameters, and
\* send messages that are not understood or lack an option.
EveryWire ==
  PlainWire
    \cup {Request("DISCOVER", 1, a, r) : a \in {0, 7}, r \in {NoOption, 3}}
    \cup {Request("DISCOVER", 0, 0, NoOption)}
    \cup {Request("RELEASE", h, 3, NoOption) : h \in 1 .. 2}
    \cup {Request("DECLINE", 2, 0, r) : r \in {NoOption, 3}}
    \cup {Request("REQUEST", 1, 3, r) : r \in {NoOption, 7}}
    \cup {Request(t, 1, 0, NoOption) : t \in {"OTHER", "ABSENT"}}
    \cup {[Request("INFORM", 1, 5, NoOption) EXCEPT !.prl = TRUE],
          [Request("DISCOVER", 1, 0, NoOption) EXCEPT !.bcast = TRUE, !.prl = TRUE],
          [Request("DISCOVER", 2, 0, NoOption) EXCEPT !.hlen = 0],
          [Request("DISCOVER", 1, 0, NoOption) EXCEPT !.opcode = 2]}

\* A client that names the address it holds in ciaddr.
CiaddrWire ==
  {Request("DISCOVER", 1, a, NoOption) : a \in {0, 3}} \cup {Request("REQUEST", 1, 0, 3)}
=============================================================================
