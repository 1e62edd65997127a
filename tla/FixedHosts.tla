----------------------------- MODULE FixedHosts -----------------------------
(***************************************************************************)
(* The fixed hosts of a subnet: parse_hosts (src/configuration.cpp) puts   *)
(* them into a std::map ordered by the operator< of subnet_config.hpp, and *)
(* handle_discovery looks a client up in it.                               *)
(*                                                                         *)
(* That operator is not an order: of two addresses each may be less than   *)
(* the other, and a std::map may then attach a host on the wrong side of   *)
(* another.  The map is modelled by the nodes in tree order, and insertion *)
(* and lookup by what libstdc++ may do over all shapes of the tree, up to  *)
(* the first insertion that loses a subtree.                               *)
(***************************************************************************)
EXTENDS Integers, Sequences

CONSTANTS
  ETHER_ADDR_LEN, Octet,      \* an address is a sequence of octets
  Address, Subnet,            \* fixed addresses, and those inside the subnet
  Invalid,                    \* what ether_aton and inet_aton refuse
  NotConfigured,
  MaxHosts                    \* bound: nodes of the tree

ether_addr == [1 .. ETHER_ADDR_LEN -> Octet]
Node == [ether : ether_addr, address : Subnet]

ASSUME FixedHostsAssumption ==
  /\ ETHER_ADDR_LEN \in Nat /\ Octet \subseteq Nat
  /\ Subnet \subseteq Address
  /\ Invalid \notin Address \cup ether_addr /\ NotConfigured \notin Address
  /\ MaxHosts \in Nat

VARIABLES
  nodes,      \* fixed_hosts, in tree order
  first,      \* the position of the first host while there are two: it is the root
  sound,      \* no insertion has lost a subtree
  configured  \* history: the last address the file gives each host

vars == <<nodes, first, sound, configured>>

-----------------------------------------------------------------------------
(* The map.                                                                *)

Less_ButLast(a, b) == \E i \in 1 .. (ETHER_ADDR_LEN - 1) : a[i] < b[i]

Less_OrEqual(a, b) == \E i \in 1 .. ETHER_ADDR_LEN : a[i] <= b[i]

\* operator<: some octet is less, whatever the octets before it are.
Less(a, b) == \E i \in 1 .. ETHER_ADDR_LEN : a[i] < b[i]

\* The positions the root of a red-black tree over n nodes may have.  Two nodes are not
\* rotated; a node without a left or a right subtree has at most one node below it, so
\* from three nodes on the root is neither the first nor the last.
Root(n) ==
  IF n = 1 THEN {1}
  ELSE IF ~ sound THEN 1 .. n
  ELSE IF n = 2 THEN {first} ELSE 2 .. (n - 1)

\* The positions the descent of std::map for key k may end at: the node there is not
\* less than k (or there is none), the one before it is, and the descent turned at the
\* root towards that position.
lower_bound(k) ==
  LET n == Len(nodes)
  IN  {p \in 1 .. (n + 1) :
         /\ p <= n => ~ Less(nodes[p].ether, k)
         /\ p > 1 => Less(nodes[p - 1].ether, k)
         /\ n > 0 => \E r \in Root(n) : Less(nodes[r].ether, k) <=> r < p}

\* The descent ended at a node whose key is equivalent to k.
Hit(p, k) == p <= Len(nodes) /\ ~ Less(k, nodes[p].ether)

\* The nodes that contains and operator[] may find for a client.
find(k) == {p \in lower_bound(k) : Hit(p, k)}

\* contains may fail: the client has no fixed address.
MayMiss(k) == \E p \in lower_bound(k) : ~ Hit(p, k)

\* A new node x for a descent that ended at p becomes the left child of the node at p, or
\* it is attached to the one before, on the side operator< tells: a left subtree that
\* node has (from position j + 1 on) is then lost.
Insert(p, x) ==
  LET before == p > 1 /\ Less(x.ether, nodes[p - 1].ether)
  IN  \/ /\ ~ before \/ p <= Len(nodes)
         /\ nodes' = SubSeq(nodes, 1, p - 1) \o <<x>> \o SubSeq(nodes, p, Len(nodes))
         /\ UNCHANGED sound
      \/ /\ before
         /\ \E j \in 0 .. (p - 2) :
              /\ nodes' = SubSeq(nodes, 1, j) \o <<x>> \o SubSeq(nodes, p - 1, Len(nodes))
              /\ sound' = (j = p - 2)

\* fixed_hosts[k] = a: the node that is found, or a new one.
Put(p, k, a) ==
  \/ /\ Hit(p, k)
     /\ nodes' = [nodes EXCEPT ![p].address = a]
     /\ UNCHANGED <<first, sound>>
  \/ /\ ~ Hit(p, k)
     /\ Len(nodes) < MaxHosts
     /\ Insert(p, [ether |-> k, address |-> a])
     /\ first' = IF Len(nodes) = 1 /\ nodes'[1] # nodes[1] THEN 2 ELSE 1

-----------------------------------------------------------------------------
(* parse_hosts: one step for each group of the hosts list.                 *)

Skip(e, a) ==
  /\ e = Invalid \/ a = Invalid \/ a \notin Subnet
  /\ UNCHANGED vars

Add_AnySubnet(e, a) ==
  /\ e # Invalid /\ a # Invalid
  /\ sound
  /\ \E p \in lower_bound(e) : Put(p, e, a)
  /\ configured' = [configured EXCEPT ![e] = a]

Add(e, a) ==
  /\ e # Invalid /\ a # Invalid /\ a \in Subnet
  /\ sound
  /\ \E p \in lower_bound(e) : Put(p, e, a)
  /\ configured' = [configured EXCEPT ![e] = a]

parse_hosts ==
  \E e \in ether_addr \cup {Invalid}, a \in Address \cup {Invalid} :
    Skip(e, a) \/ Add(e, a)

Init ==
  /\ nodes = <<>> /\ first = 1 /\ sound = TRUE
  /\ configured = [e \in ether_addr |-> NotConfigured]

Next == parse_hosts

Spec == Init /\ [][Next]_vars

-----------------------------------------------------------------------------
(* Properties.                                                             *)

\* Also: parse_hosts keeps no host whose address lies outside the subnet, which Daemon
\* assumes of its fixed_hosts.
TypeOK ==
  /\ nodes \in Seq(Node) /\ Len(nodes) <= MaxHosts
  /\ first \in {1, 2} /\ sound \in BOOLEAN
  /\ configured \in [ether_addr -> Address \cup {NotConfigured}]

Hosts == {e \in ether_addr : configured[e] # NotConfigured}

\* Although operator< is no order and the tree may lose hosts, a lookup that finds a
\* node finds the client's own: handle_discovery never gives a client the fixed address
\* of another host, and none to a client the file does not name.
FindsOnlyTheHostAsked ==
  \A e \in ether_addr : \A p \in find(e) : nodes[p].ether = e /\ e \in Hosts

\* No octet of one is less and another greater than that of the other.
Ordered(a, b) ==
  \/ \A i \in 1 .. ETHER_ADDR_LEN : a[i] <= b[i]
  \/ \A i \in 1 .. ETHER_ADDR_LEN : b[i] <= a[i]

\* As long as every two hosts are ordered in all octets (they differ in one octet only,
\* as in examples/example.conf, or grow in all), no host is lost: each is found, and
\* with the address the last group of the file gives it.
OrderedHostsAreFound ==
  (\A a, b \in Hosts : Ordered(a, b)) =>
    /\ sound
    /\ \A e \in Hosts :
         /\ ~ MayMiss(e)
         /\ \A p \in find(e) : nodes[p].address = configured[e]

\* subnet_config.hpp:23, "global operator overload to allow usage of ether_addr as map
\* key": a host that parse_hosts has put into the map is found there.
EveryHostIsFound == \A e \in Hosts : ~ MayMiss(e)
=============================================================================
