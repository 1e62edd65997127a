-------------------------- MODULE FixedHostsProofs --------------------------
(***************************************************************************)
(* Proofs about FixedHosts for every octet set, address length, subnet and *)
(* number of hosts.  That a lookup is exact needs only that the equivalence*)
(* of keys is equality.  That ordered hosts are all found needs that the   *)
(* nodes are sorted, complete and up to date as long as the hosts are      *)
(* ordered, which no single one of these facts preserves by itself.        *)
(***************************************************************************)
EXTENDS FixedHosts, SequenceTheorems, TLAPS

USE FixedHostsAssumption

-----------------------------------------------------------------------------
(* The comparison.                                                         *)

\* a precedes b in every octet that differs, and one does.
Below(a, b) == (\A i \in 1 .. ETHER_ADDR_LEN : a[i] <= b[i]) /\ Less(a, b)

LEMMA Octets == ASSUME NEW a \in ether_addr, NEW i \in 1 .. ETHER_ADDR_LEN PROVE a[i] \in Nat
  BY DEF ether_addr

\* operator< is irreflexive, and two addresses neither of which is less are the same:
\* the equivalence of the keys that std::map works with is equality.
LEMMA LessIrreflexive == ASSUME NEW a \in ether_addr PROVE ~ Less(a, a)
  BY Octets DEF Less

LEMMA EquivalentIsEqual ==
  ASSUME NEW a \in ether_addr, NEW b \in ether_addr, ~ Less(a, b), ~ Less(b, a)
  PROVE  a = b
<1>1. \A i \in 1 .. ETHER_ADDR_LEN : a[i] = b[i]
  BY Octets DEF Less
<1> QED
  BY <1>1 DEF ether_addr

LEMMA OrderedLess ==
  ASSUME NEW a \in ether_addr, NEW b \in ether_addr, Ordered(a, b), Less(a, b)
  PROVE  Below(a, b)
  BY Octets DEF Ordered, Less, Below

LEMMA OrderedNotLess ==
  ASSUME NEW a \in ether_addr, NEW b \in ether_addr, Ordered(a, b), ~ Less(a, b), a # b
  PROVE  Below(b, a)
<1>1. Less(b, a)
  BY EquivalentIsEqual
<1> QED
  BY <1>1, Octets DEF Below, Less

LEMMA BelowNotLess ==
  ASSUME NEW a \in ether_addr, NEW b \in ether_addr, Below(a, b)
  PROVE  ~ Less(b, a) /\ a # b
  BY Octets DEF Below, Less

LEMMA BelowTransitive ==
  ASSUME NEW a \in ether_addr, NEW b \in ether_addr, NEW c \in ether_addr,
         Below(a, b), Below(b, c)
  PROVE  Below(a, c)
<1>1. \A i \in 1 .. ETHER_ADDR_LEN :
        a[i] \in Nat /\ b[i] \in Nat /\ c[i] \in Nat /\ a[i] <= b[i] /\ b[i] <= c[i]
  BY Octets DEF Below
<1>2. PICK i \in 1 .. ETHER_ADDR_LEN : a[i] < b[i]
  BY DEF Below, Less
<1>3. a[i] < c[i]
  BY <1>1, <1>2
<1> QED
  BY <1>1, <1>3 DEF Below, Less

-----------------------------------------------------------------------------
(* The sequence of nodes.                                                  *)

\* What Insert makes: the nodes up to j, the new one, and the nodes from q on.
Splice(s, j, x, q) == SubSeq(s, 1, j) \o <<x>> \o SubSeq(s, q, Len(s))

LEMMA SpliceProperties ==
  ASSUME NEW s \in Seq(Node), NEW x \in Node, NEW j \in 0 .. Len(s),
         NEW q \in 1 .. (Len(s) + 1)
  PROVE  /\ Splice(s, j, x, q) \in Seq(Node)
         /\ Len(Splice(s, j, x, q)) = j + 1 + (Len(s) + 1 - q)
         /\ \A i \in 1 .. j : Splice(s, j, x, q)[i] = s[i]
         /\ Splice(s, j, x, q)[j + 1] = x
         /\ \A i \in (j + 2) .. (j + 1 + (Len(s) + 1 - q)) :
              Splice(s, j, x, q)[i] = s[i - (j + 1) + q - 1]
<1> DEFINE left == SubSeq(s, 1, j)  right == SubSeq(s, q, Len(s))  mid == left \o <<x>>
<1>1. left \in Seq(Node) /\ Len(left) = j /\ \A i \in 1 .. j : left[i] = s[i]
  OBVIOUS
<1>2. /\ right \in Seq(Node) /\ Len(right) = Len(s) + 1 - q
      /\ \A i \in 1 .. (Len(s) + 1 - q) : right[i] = s[i + q - 1]
  OBVIOUS
<1> HIDE DEF left, right
<1>3. /\ mid \in Seq(Node) /\ Len(mid) = j + 1 /\ mid[j + 1] = x
      /\ \A i \in 1 .. j : mid[i] = s[i]
  BY <1>1
<1> HIDE DEF mid
<1>4. Splice(s, j, x, q) = mid \o right
  BY DEF Splice, mid, left, right
<1>5. /\ mid \o right \in Seq(Node) /\ Len(mid \o right) = Len(mid) + Len(right)
      /\ \A i \in 1 .. Len(mid) + Len(right) :
           (mid \o right)[i] = IF i <= Len(mid) THEN mid[i] ELSE right[i - Len(mid)]
  BY <1>2, <1>3, ConcatProperties, Zenon
<1>6. /\ Len(s) \in Nat /\ j \in Nat /\ q \in Nat
      /\ Len(s) + 1 - q \in Nat
  OBVIOUS
<1>7. ASSUME NEW i \in 1 .. (j + 1) PROVE (mid \o right)[i] = mid[i]
  BY <1>2, <1>3, <1>5, <1>6
<1>8. ASSUME NEW i \in (j + 2) .. (j + 1 + (Len(s) + 1 - q))
      PROVE  (mid \o right)[i] = s[i - (j + 1) + q - 1]
  <2>1. (mid \o right)[i] = right[i - (j + 1)]
    BY <1>2, <1>3, <1>5, <1>6
  <2>2. i - (j + 1) \in 1 .. (Len(s) + 1 - q)
    BY <1>6
  <2> QED
    BY <1>2, <2>1, <2>2
<1> QED
  BY <1>2, <1>3, <1>4, <1>5, <1>6, <1>7, <1>8

-----------------------------------------------------------------------------
(* What a step does.                                                       *)

\* A node is overwritten, or a new one is spliced in, and perhaps others are lost.
Overwritten(p, e, a) ==
  /\ p \in 1 .. Len(nodes) /\ Hit(p, e)
  /\ nodes' = [nodes EXCEPT ![p].address = a]
  /\ UNCHANGED <<first, sound>>

Spliced(j, q, e, a) ==
  /\ nodes' = Splice(nodes, j, [ether |-> e, address |-> a], q)
  /\ Len(nodes) < MaxHosts
  /\ first' \in {1, 2}

LEMMA AddCases ==
  ASSUME TypeOK, NEW e \in ether_addr, NEW a \in Subnet, Add(e, a)
  PROVE  /\ configured' = [configured EXCEPT ![e] = a]
         /\ sound
         /\ \E p \in lower_bound(e) :
              \/ Overwritten(p, e, a)
              \/ /\ ~ Hit(p, e)
                 /\ \/ Spliced(p - 1, p, e, a) /\ UNCHANGED sound
                    \/ /\ p > 1 /\ Less(e, nodes[p - 1].ether)
                       /\ \E j \in 0 .. (p - 2) :
                            Spliced(j, p - 1, e, a) /\ sound' = (j = p - 2)
<1>1. PICK p \in lower_bound(e) : Put(p, e, a)
  BY DEF Add
<1>2. p \in 1 .. (Len(nodes) + 1)
  BY <1>1 DEF lower_bound
<1>3. CASE Hit(p, e)
  <2>1. p \in 1 .. Len(nodes)
    BY <1>2, <1>3 DEF Hit, TypeOK
  <2> QED
    BY <1>1, <1>3, <2>1, Zenon DEF Put, Overwritten, Add
<1>4. CASE ~ Hit(p, e)
  <2> DEFINE x == [ether |-> e, address |-> a]
  <2>1. Len(nodes) < MaxHosts /\ Insert(p, x) /\ first' \in {1, 2}
    BY <1>1, <1>4 DEF Put
  <2>2. x.ether = e
    OBVIOUS
  <2>3. CASE nodes' = Splice(nodes, p - 1, x, p) /\ UNCHANGED sound
    BY <1>1, <1>4, <2>1, <2>3, Zenon DEF Spliced, Add
  <2>4. CASE /\ p > 1 /\ Less(x.ether, nodes[p - 1].ether)
             /\ \E j \in 0 .. (p - 2) :
                  nodes' = Splice(nodes, j, x, p - 1) /\ sound' = (j = p - 2)
    BY <1>1, <1>4, <2>1, <2>2, <2>4, Zenon DEF Spliced, Add
  <2> QED
    BY <2>1, <2>3, <2>4, Zenon DEF Insert, Splice
<1> QED
  BY <1>3, <1>4, Zenon
LEMMA NodeType ==
  ASSUME TypeOK, NEW i \in 1 .. Len(nodes)
  PROVE  nodes[i] \in Node /\ nodes[i].ether \in ether_addr /\ nodes[i].address \in Subnet
<1>1. nodes[i] \in Node
  BY DEF TypeOK
<1> QED
  BY <1>1 DEF Node

-----------------------------------------------------------------------------
(* The inductive invariant.                                                *)

\* Whatever the tree loses, what it holds are hosts of the file.
NodesAreHosts == \A i \in 1 .. Len(nodes) : nodes[i].ether \in Hosts

AllOrdered == \A a, b \in Hosts : Ordered(a, b)

Sorted == \A i, j \in 1 .. Len(nodes) : i < j => Below(nodes[i].ether, nodes[j].ether)
Complete == \A e \in Hosts : \E i \in 1 .. Len(nodes) : nodes[i].ether = e
UpToDate == \A i \in 1 .. Len(nodes) : nodes[i].address = configured[nodes[i].ether]

\* Between ordered hosts the tree is a search tree after all.
OrderedTree == AllOrdered => sound = TRUE /\ Sorted /\ Complete /\ UpToDate

IInv == TypeOK /\ NodesAreHosts /\ OrderedTree

LEMMA FixedInit == Init => IInv
<1> SUFFICES ASSUME Init PROVE IInv
  OBVIOUS
<1>1. TypeOK
  BY DEF Init, TypeOK
<1>2. Hosts = {} /\ Len(nodes) = 0 /\ sound = TRUE
  BY DEF Init, Hosts
<1> QED
  BY <1>1, <1>2 DEF IInv, NodesAreHosts, OrderedTree, Sorted, Complete, UpToDate

\* The step of a group that parse_hosts skips.
LEMMA FixedStutter == IInv /\ UNCHANGED vars => IInv'
<1> SUFFICES ASSUME IInv, UNCHANGED vars PROVE IInv'
  OBVIOUS
<1> USE DEF vars, IInv
<1>1. TypeOK'
  BY Zenon DEF TypeOK
<1>2. Hosts' = Hosts
  BY DEF Hosts
<1>3. NodesAreHosts'
  BY <1>2 DEF NodesAreHosts
<1>4. OrderedTree'
  BY <1>2, Zenon DEF OrderedTree, AllOrdered, Sorted, Complete, UpToDate
<1> QED
  BY <1>1, <1>3, <1>4

LEMMA HostsGrow ==
  ASSUME TypeOK, NEW e \in ether_addr, NEW a \in Subnet,
         configured' = [configured EXCEPT ![e] = a]
  PROVE  Hosts' = Hosts \cup {e}
  BY DEF TypeOK, Hosts

\* A node the descent calls equivalent to the key is the key's own.
LEMMA HitIsEqual ==
  ASSUME TypeOK, NEW e \in ether_addr, NEW p \in lower_bound(e), Hit(p, e)
  PROVE  p \in 1 .. Len(nodes) /\ nodes[p].ether = e
<1>1. p \in 1 .. (Len(nodes) + 1) /\ (p <= Len(nodes) => ~ Less(nodes[p].ether, e))
  BY DEF lower_bound
<1>2. p \in 1 .. Len(nodes) /\ ~ Less(e, nodes[p].ether) /\ ~ Less(nodes[p].ether, e)
  BY <1>1 DEF Hit, TypeOK
<1> QED
  BY <1>2, NodeType, EquivalentIsEqual

\* Between ordered hosts the descent for one that is in the tree ends at its node.
LEMMA DescentFinds ==
  ASSUME TypeOK, Sorted, NEW q \in 1 .. Len(nodes), NEW p \in lower_bound(nodes[q].ether)
  PROVE  p = q /\ Hit(p, nodes[q].ether)
<1> DEFINE e == nodes[q].ether
<1>1. \A i \in 1 .. Len(nodes) : nodes[i].ether \in ether_addr
  BY NodeType
<1>2. /\ p \in 1 .. (Len(nodes) + 1)
      /\ p <= Len(nodes) => ~ Less(nodes[p].ether, e)
      /\ p > 1 => Less(nodes[p - 1].ether, e)
  BY DEF lower_bound
<1>3. Len(nodes) \in Nat
  BY DEF TypeOK
<1>4. ~ (p < q)
  <2> SUFFICES ASSUME p < q PROVE FALSE
    OBVIOUS
  <2>1. p \in 1 .. Len(nodes) /\ p <= Len(nodes)
    BY <1>2, <1>3
  <2>2. Less(nodes[p].ether, e)
    BY <2>1 DEF Sorted, Below
  <2> QED
    BY <1>2, <2>1, <2>2
<1>5. ~ (p > q)
  <2> SUFFICES ASSUME p > q PROVE FALSE
    OBVIOUS
  <2>1. p - 1 \in 1 .. Len(nodes) /\ p > 1 /\ q <= p - 1
    BY <1>2, <1>3
  <2>2. Less(nodes[p - 1].ether, e)
    BY <1>2, <2>1
  <2>3. CASE q = p - 1
    BY <1>1, <2>2, <2>3, LessIrreflexive
  <2>4. CASE q < p - 1
    <3>1. Below(e, nodes[p - 1].ether)
      BY <2>1, <2>4 DEF Sorted
    <3> QED
      BY <1>1, <2>1, <2>2, <3>1, BelowNotLess
  <2> QED
    BY <2>1, <2>3, <2>4, <1>2
<1>6. p = q
  BY <1>2, <1>4, <1>5
<1> QED
  BY <1>1, <1>3, <1>6, LessIrreflexive DEF Hit
-----------------------------------------------------------------------------
(* Add preserves it.                                                       *)

\* Overwriting changes the address of one node, splicing brings in one new key.
LEMMA OverwrittenNodes ==
  ASSUME TypeOK, NEW e \in ether_addr, NEW a \in Subnet, NEW p, Overwritten(p, e, a)
  PROVE  /\ nodes' \in Seq(Node) /\ Len(nodes') = Len(nodes) /\ p \in 1 .. Len(nodes)
         /\ nodes'[p].address = a
         /\ \A i \in 1 .. Len(nodes) :
              /\ nodes'[i].ether = nodes[i].ether
              /\ i # p => nodes'[i].address = nodes[i].address
<1>1. p \in 1 .. Len(nodes) /\ nodes' = [nodes EXCEPT ![p] = [nodes[p] EXCEPT !.address = a]]
  BY DEF Overwritten
<1>2. nodes[p] \in Node
  BY <1>1, NodeType
<1>3. /\ [nodes[p] EXCEPT !.address = a] \in Node
      /\ [nodes[p] EXCEPT !.address = a].address = a
      /\ [nodes[p] EXCEPT !.address = a].ether = nodes[p].ether
  BY <1>2 DEF Node
<1> DEFINE y == [nodes[p] EXCEPT !.address = a]
<1> HIDE DEF y
<1>4. y \in Node /\ y.address = a /\ y.ether = nodes[p].ether /\ nodes' = [nodes EXCEPT ![p] = y]
  BY <1>1, <1>3 DEF y
<1>5. nodes \in Seq(Node)
  BY DEF TypeOK
<1>6. nodes' \in Seq(Node) /\ Len(nodes') = Len(nodes)
  BY <1>1, <1>4, <1>5
<1>7. nodes'[p] = y /\ \A i \in 1 .. Len(nodes) : i # p => nodes'[i] = nodes[i]
  BY <1>1, <1>4, <1>5
<1> QED
  BY <1>1, <1>4, <1>6, <1>7

LEMMA SplicedNodes ==
  ASSUME TypeOK, NEW e \in ether_addr, NEW a \in Subnet,
         NEW j \in 0 .. Len(nodes), NEW q \in 1 .. (Len(nodes) + 1), j < q,
         Spliced(j, q, e, a)
  PROVE  /\ nodes' \in Seq(Node) /\ Len(nodes') = j + 1 + (Len(nodes) + 1 - q)
         /\ nodes'[j + 1] = [ether |-> e, address |-> a]
         /\ \A i \in 1 .. j : nodes'[i] = nodes[i]
         /\ \A i \in (j + 2) .. Len(nodes') : nodes'[i] = nodes[i - (j + 1) + q - 1]
<1>1. nodes \in Seq(Node)
  BY DEF TypeOK
<1>2. [ether |-> e, address |-> a] \in Node
  BY DEF Node
<1> DEFINE x == [ether |-> e, address |-> a]
<1> HIDE DEF x
<1>3. nodes' = Splice(nodes, j, x, q)
  BY DEF Spliced, x
<1>4. x \in Node
  BY <1>2 DEF x
<1>5. /\ Splice(nodes, j, x, q) \in Seq(Node)
      /\ Len(Splice(nodes, j, x, q)) = j + 1 + (Len(nodes) + 1 - q)
  BY <1>1, <1>4, SpliceProperties
<1>6. /\ \A i \in 1 .. j : Splice(nodes, j, x, q)[i] = nodes[i]
      /\ Splice(nodes, j, x, q)[j + 1] = x
  BY <1>1, <1>4, SpliceProperties
<1>7. \A i \in (j + 2) .. (j + 1 + (Len(nodes) + 1 - q)) :
           Splice(nodes, j, x, q)[i] = nodes[i - (j + 1) + q - 1]
  BY <1>1, <1>4, SpliceProperties
<1>8. nodes'[j + 1] = [ether |-> e, address |-> a]
  BY <1>3, <1>6 DEF x
<1>9. \A i \in (j + 2) .. Len(nodes') : nodes'[i] = nodes[i - (j + 1) + q - 1]
  BY <1>3, <1>5, <1>7
<1> QED
  BY <1>3, <1>7, <1>8, <1>9, <1>5, <1>6
\* The two ways Insert splices a node in, as one: something is lost in between, or not.
LEMMA InsertedNodes ==
  ASSUME TypeOK, NEW e \in ether_addr, NEW a \in Subnet, NEW p \in lower_bound(e),
         \/ Spliced(p - 1, p, e, a)
         \/ p > 1 /\ \E j \in 0 .. (p - 2) : Spliced(j, p - 1, e, a)
  PROVE  \E j \in 0 .. Len(nodes), q \in 1 .. (Len(nodes) + 1) :
           j < q /\ Spliced(j, q, e, a)
<1>1. p \in 1 .. (Len(nodes) + 1) /\ Len(nodes) \in Nat
  BY DEF lower_bound, TypeOK
<1>2. CASE Spliced(p - 1, p, e, a)
  <2>1. p - 1 \in 0 .. Len(nodes) /\ p - 1 < p
    BY <1>1
  <2> QED
    BY <1>1, <1>2, <2>1
<1>3. CASE p > 1 /\ \E j \in 0 .. (p - 2) : Spliced(j, p - 1, e, a)
  <2>1. PICK j \in 0 .. (p - 2) : Spliced(j, p - 1, e, a)
    BY <1>3
  <2>2. j \in 0 .. Len(nodes) /\ p - 1 \in 1 .. (Len(nodes) + 1) /\ j < p - 1
    BY <1>1, <1>3
  <2> QED
    BY <2>1, <2>2
<1> QED
  BY <1>2, <1>3

LEMMA AddType ==
  ASSUME TypeOK, NEW e \in ether_addr, NEW a \in Subnet, Add(e, a)
  PROVE  TypeOK'
<1>1. configured' \in [ether_addr -> Address \cup {NotConfigured}]
  BY AddCases DEF TypeOK
<1>2. PICK p \in lower_bound(e) :
        \/ Overwritten(p, e, a)
        \/ /\ ~ Hit(p, e)
           /\ \/ Spliced(p - 1, p, e, a) /\ UNCHANGED sound
              \/ /\ p > 1 /\ Less(e, nodes[p - 1].ether)
                 /\ \E j \in 0 .. (p - 2) :
                      Spliced(j, p - 1, e, a) /\ sound' = (j = p - 2)
  BY AddCases, Zenon
<1>3. first' \in {1, 2}
  BY <1>2 DEF Overwritten, Spliced, TypeOK
<1>4. sound' \in BOOLEAN
  BY <1>2, Zenon DEF Overwritten, TypeOK
<1>5. nodes' \in Seq(Node) /\ Len(nodes') <= MaxHosts
  <2>1. CASE Overwritten(p, e, a)
    BY <2>1, OverwrittenNodes DEF TypeOK
  <2>2. CASE ~ Overwritten(p, e, a)
    <3>1. PICK j \in 0 .. Len(nodes), q \in 1 .. (Len(nodes) + 1) :
            j < q /\ Spliced(j, q, e, a)
      BY <1>2, <2>2, InsertedNodes, Zenon
    <3>2. nodes' \in Seq(Node)
      BY <3>1, SplicedNodes
    <3>3. /\ Len(nodes') = j + 1 + (Len(nodes) + 1 - q)
          /\ nodes'[j + 1] = [ether |-> e, address |-> a]
          /\ \A i \in 1 .. j : nodes'[i] = nodes[i]
      BY <3>1, SplicedNodes
    <3>4. Len(nodes) < MaxHosts /\ Len(nodes) \in Nat
      BY <3>1 DEF Spliced, TypeOK
    <3> QED
      BY <3>1, <3>2, <3>3, <3>4
  <2> QED
    BY <2>1, <2>2
<1> QED
  BY <1>1, <1>3, <1>4, <1>5, Zenon DEF TypeOK

LEMMA AddNodesAreHosts ==
  ASSUME TypeOK, NodesAreHosts, NEW e \in ether_addr, NEW a \in Subnet, Add(e, a)
  PROVE  NodesAreHosts'
<1>1. Hosts' = Hosts \cup {e}
  BY AddCases, HostsGrow
<1>2. PICK p \in lower_bound(e) :
        \/ Overwritten(p, e, a)
        \/ Spliced(p - 1, p, e, a)
        \/ p > 1 /\ \E j \in 0 .. (p - 2) : Spliced(j, p - 1, e, a)
  BY AddCases, Zenon
<1>3. CASE Overwritten(p, e, a)
  BY <1>1, <1>3, OverwrittenNodes DEF NodesAreHosts
<1>4. CASE ~ Overwritten(p, e, a)
  <2>1. PICK j \in 0 .. Len(nodes), q \in 1 .. (Len(nodes) + 1) :
          j < q /\ Spliced(j, q, e, a)
    BY <1>2, <1>4, InsertedNodes, Zenon
  <2>2. /\ Len(nodes') = j + 1 + (Len(nodes) + 1 - q)
        /\ nodes'[j + 1] = [ether |-> e, address |-> a]
        /\ \A i \in 1 .. j : nodes'[i] = nodes[i]
        /\ \A i \in (j + 2) .. Len(nodes') : nodes'[i] = nodes[i - (j + 1) + q - 1]
    BY <2>1, SplicedNodes
  <2>3. Len(nodes) \in Nat
    BY DEF TypeOK
  <2>4. ASSUME NEW i \in 1 .. Len(nodes') PROVE nodes'[i].ether \in Hosts'
    <3>1. CASE i \in 1 .. j
      BY <1>1, <2>2, <2>3, <3>1 DEF NodesAreHosts
    <3>2. CASE i = j + 1
      BY <1>1, <2>2, <3>2
    <3>3. CASE i \in (j + 2) .. Len(nodes')
      <4>1. i - (j + 1) + q - 1 \in 1 .. Len(nodes)
        BY <2>1, <2>2, <2>3, <3>3
      <4> QED
        BY <1>1, <2>2, <3>3, <4>1 DEF NodesAreHosts
    <3> QED
      BY <2>2, <2>3, <3>1, <3>2, <3>3
  <2> QED
    BY <2>4 DEF NodesAreHosts
<1> QED
  BY <1>3, <1>4
\* Between ordered hosts the descent for a new one ends where the hosts below it end.
LEMMA DescentSplits ==
  ASSUME TypeOK, Sorted, NEW e \in ether_addr, NEW p \in lower_bound(e),
         \A i \in 1 .. Len(nodes) :
           /\ Ordered(nodes[i].ether, e)
           /\ nodes[i].ether # e
  PROVE  \A i \in 1 .. Len(nodes) :
           /\ i < p => Below(nodes[i].ether, e)
           /\ i >= p => Below(e, nodes[i].ether)
<1>1. Len(nodes) \in Nat /\ \A i \in 1 .. Len(nodes) : nodes[i].ether \in ether_addr
  BY NodeType DEF TypeOK
<1>2. /\ p \in 1 .. (Len(nodes) + 1)
      /\ p <= Len(nodes) => ~ Less(nodes[p].ether, e)
      /\ p > 1 => Less(nodes[p - 1].ether, e)
  BY DEF lower_bound
<1>3. ASSUME NEW i \in 1 .. Len(nodes), i < p PROVE Below(nodes[i].ether, e)
  <2>1. p - 1 \in 1 .. Len(nodes) /\ p > 1 /\ i <= p - 1
    BY <1>1, <1>2, <1>3
  <2>2. Below(nodes[p - 1].ether, e)
    BY <1>1, <1>2, <2>1, OrderedLess
  <2>3. CASE i < p - 1
    <3>1. Below(nodes[i].ether, nodes[p - 1].ether)
      BY <2>1, <2>3 DEF Sorted
    <3> QED
      BY <1>1, <2>1, <2>2, <3>1, BelowTransitive
  <2> QED
    BY <1>2, <2>1, <2>2, <2>3
<1>4. ASSUME NEW i \in 1 .. Len(nodes), i >= p PROVE Below(e, nodes[i].ether)
  <2>1. p \in 1 .. Len(nodes) /\ p <= Len(nodes)
    BY <1>1, <1>2, <1>4
  <2>2. Below(e, nodes[p].ether)
    BY <1>1, <1>2, <2>1, OrderedNotLess
  <2>3. CASE i > p
    <3>1. Below(nodes[p].ether, nodes[i].ether)
      BY <2>1, <2>3 DEF Sorted
    <3> QED
      BY <1>1, <2>1, <2>2, <3>1, BelowTransitive
  <2> QED
    BY <1>2, <1>4, <2>1, <2>2, <2>3
<1> QED
  BY <1>3, <1>4

LEMMA AddOrderedTree ==
  ASSUME TypeOK, NodesAreHosts, OrderedTree, NEW e \in ether_addr, NEW a \in Subnet, Add(e, a)
  PROVE  OrderedTree'
<1> SUFFICES ASSUME AllOrdered' PROVE sound' = TRUE /\ Sorted' /\ Complete' /\ UpToDate'
  BY DEF OrderedTree
<1>1. Hosts' = Hosts \cup {e}
  BY AddCases, HostsGrow
<1>2. sound = TRUE /\ Sorted /\ Complete /\ UpToDate
  BY <1>1 DEF AllOrdered, OrderedTree
<1>3. \A i \in 1 .. Len(nodes) : Ordered(nodes[i].ether, e)
  BY <1>1 DEF AllOrdered, NodesAreHosts
<1>4. configured' = [configured EXCEPT ![e] = a]
  BY AddCases
<1>5. Len(nodes) \in Nat /\ \A i \in 1 .. Len(nodes) : nodes[i].ether \in ether_addr
  BY NodeType DEF TypeOK
<1>6. /\ configured'[e] = a
      /\ \A b \in ether_addr : b # e => configured'[b] = configured[b]
  BY <1>4 DEF TypeOK
<1>7. PICK p \in lower_bound(e) :
        \/ Overwritten(p, e, a)
        \/ /\ ~ Hit(p, e)
           /\ \/ Spliced(p - 1, p, e, a) /\ UNCHANGED sound
              \/ p > 1 /\ Less(e, nodes[p - 1].ether)
  BY AddCases, Zenon
<1>8. CASE Overwritten(p, e, a)
  <2>1. p \in 1 .. Len(nodes) /\ nodes[p].ether = e
    BY <1>8, HitIsEqual DEF Overwritten
  <2>2. /\ Len(nodes') = Len(nodes) /\ nodes'[p].address = a
        /\ \A i \in 1 .. Len(nodes) :
             /\ nodes'[i].ether = nodes[i].ether
             /\ i # p => nodes'[i].address = nodes[i].address
    BY <1>8, OverwrittenNodes
  <2>3. sound' = TRUE
    BY <1>2, <1>8 DEF Overwritten
  <2>4. Sorted'
    BY <1>2, <2>2 DEF Sorted
  <2>5. Complete'
    BY <1>1, <1>2, <2>1, <2>2 DEF Complete
  <2>6. ASSUME NEW i \in 1 .. Len(nodes), i # p PROVE nodes[i].ether # e
    <3>1. i < p \/ p < i
      BY <1>5, <2>1, <2>6
    <3>2. Below(nodes[i].ether, e) \/ Below(e, nodes[i].ether)
      BY <1>2, <2>1, <3>1 DEF Sorted
    <3> QED
      BY <1>5, <3>2, BelowNotLess
  <2>7. UpToDate'
    BY <1>2, <1>5, <1>6, <2>1, <2>2, <2>6 DEF UpToDate
  <2> QED
    BY <2>3, <2>4, <2>5, <2>7
<1>9. CASE ~ Overwritten(p, e, a)
  <2>1. ~ Hit(p, e)
    BY <1>7, <1>9
  <2>2. \A i \in 1 .. Len(nodes) : nodes[i].ether # e
    BY <1>2, <2>1, DescentFinds
  <2>3. /\ \A i \in 1 .. Len(nodes) : i < p => Below(nodes[i].ether, e)
        /\ \A i \in 1 .. Len(nodes) : i >= p => Below(e, nodes[i].ether)
    BY <1>2, <1>3, <2>2, DescentSplits
  <2>4. p \in 1 .. (Len(nodes) + 1)
    BY DEF lower_bound
  <2>5. ~ (p > 1 /\ Less(e, nodes[p - 1].ether))
    <3> SUFFICES ASSUME p > 1 PROVE ~ Less(e, nodes[p - 1].ether)
      OBVIOUS
    <3>1. p - 1 \in 1 .. Len(nodes) /\ p - 1 < p
      BY <1>5, <2>4
    <3> QED
      BY <1>5, <2>3, <3>1, BelowNotLess
  <2>6. Spliced(p - 1, p, e, a) /\ UNCHANGED sound
    BY <1>7, <1>9, <2>5
  <2>7. p - 1 \in 0 .. Len(nodes) /\ p - 1 < p
    BY <1>5, <2>4
  <2>8. /\ Len(nodes') = (p - 1) + 1 + (Len(nodes) + 1 - p)
        /\ nodes'[(p - 1) + 1] = [ether |-> e, address |-> a]
        /\ \A i \in 1 .. (p - 1) : nodes'[i] = nodes[i]
        /\ \A i \in ((p - 1) + 2) .. Len(nodes') :
             nodes'[i] = nodes[i - ((p - 1) + 1) + p - 1]
    BY <2>4, <2>6, <2>7, SplicedNodes
  <2>9. /\ Len(nodes') = Len(nodes) + 1
        /\ nodes'[p].ether = e /\ nodes'[p].address = a
        /\ \A i \in 1 .. Len(nodes) : i < p => nodes'[i] = nodes[i]
        /\ \A i \in 1 .. Len(nodes') : i > p => nodes'[i] = nodes[i - 1]
    BY <1>5, <2>4, <2>8
  <2>10. sound' = TRUE
    BY <1>2, <2>6
  <2>11. Sorted'
    <3> SUFFICES ASSUME NEW i \in 1 .. Len(nodes'), NEW k \in 1 .. Len(nodes'), i < k
                 PROVE  Below(nodes'[i].ether, nodes'[k].ether)
      BY DEF Sorted
    <3>1. CASE k < p
      BY <1>2, <1>5, <2>4, <2>9, <3>1 DEF Sorted
    <3>2. CASE k = p
      BY <1>5, <2>3, <2>4, <2>9, <3>2
    <3>3. CASE k > p
      <4>1. k - 1 \in 1 .. Len(nodes) /\ k - 1 >= p /\ nodes'[k] = nodes[k - 1]
        BY <1>5, <2>4, <2>9, <3>3
      <4>2. CASE i < p
        BY <1>2, <1>5, <2>4, <2>9, <4>1, <4>2 DEF Sorted
      <4>3. CASE i = p
        BY <2>3, <2>9, <4>1, <4>3
      <4>4. CASE i > p
        BY <1>2, <1>5, <2>4, <2>9, <4>1, <4>4 DEF Sorted
      <4> QED
        BY <2>4, <4>2, <4>3, <4>4
    <3> QED
      BY <2>4, <3>1, <3>2, <3>3
  <2>12. Complete'
    <3> SUFFICES ASSUME NEW b \in Hosts'
                 PROVE  \E i \in 1 .. Len(nodes') : nodes'[i].ether = b
      BY DEF Complete
    <3>1. CASE b = e
      BY <1>5, <2>4, <2>9, <3>1
    <3>2. CASE b # e
      <4>1. PICK i \in 1 .. Len(nodes) : nodes[i].ether = b
        BY <1>1, <1>2, <3>2 DEF Complete
      <4>2. CASE i < p
        BY <1>5, <2>9, <4>1, <4>2
      <4>3. CASE i >= p
        <5>1. i + 1 \in 1 .. Len(nodes') /\ i + 1 > p /\ (i + 1) - 1 = i
          BY <1>5, <2>4, <2>9, <4>3
        <5> QED
          BY <2>9, <4>1, <5>1
      <4> QED
        BY <2>4, <4>2, <4>3
    <3> QED
      BY <3>1, <3>2
  <2>13. UpToDate'
    <3> SUFFICES ASSUME NEW i \in 1 .. Len(nodes')
                 PROVE  nodes'[i].address = configured'[nodes'[i].ether]
      BY DEF UpToDate
    <3>1. CASE i = p
      BY <1>6, <2>9, <3>1
    <3>2. CASE i # p
      <4>1. PICK k \in 1 .. Len(nodes) : nodes'[i] = nodes[k]
        BY <1>5, <2>4, <2>9, <3>2
      <4> QED
        BY <1>2, <1>5, <1>6, <2>2, <4>1 DEF UpToDate
    <3> QED
      BY <3>1, <3>2
  <2> QED
    BY <2>10, <2>11, <2>12, <2>13
<1> QED
  BY <1>8, <1>9

LEMMA FixedStep == IInv /\ [Next]_vars => IInv'
<1> SUFFICES ASSUME IInv, [Next]_vars PROVE IInv'
  OBVIOUS
<1>1. CASE UNCHANGED vars
  BY <1>1, FixedStutter
<1>2. CASE Next
  <2>1. PICK e \in ether_addr \cup {Invalid}, a \in Address \cup {Invalid} :
          Skip(e, a) \/ Add(e, a)
    BY <1>2 DEF Next, parse_hosts
  <2>2. CASE Skip(e, a)
    BY <2>2, FixedStutter DEF Skip
  <2>3. CASE Add(e, a)
    <3>1. e \in ether_addr /\ a \in Subnet
      BY <2>3 DEF Add
    <3> QED
      BY <2>3, <3>1, AddType, AddNodesAreHosts, AddOrderedTree DEF IInv
  <2> QED
    BY <2>1, <2>2, <2>3
<1> QED
  BY <1>1, <1>2

LEMMA FixedInvariance == Spec => []IInv
  BY FixedInit, FixedStep, PTL DEF Spec

-----------------------------------------------------------------------------
(* The theorems.                                                           *)

\* Every variable keeps its type: the map has no more nodes than MaxHosts and no address
\* outside the subnet, whichever nodes an insertion loses.
THEOREM FixedTypeCorrect == Spec => []TypeOK
<1>1. IInv => TypeOK
  BY DEF IInv
<1> QED
  BY <1>1, FixedInvariance, PTL

\* contains and operator[] never find another host's node, whatever the operator< that
\* is no order has done to the tree: two keys neither of which is less are equal.
THEOREM LookupIsExact == Spec => []FindsOnlyTheHostAsked
<1>1. IInv => FindsOnlyTheHostAsked
  <2> SUFFICES ASSUME IInv, NEW e \in ether_addr, NEW p \in find(e)
               PROVE  nodes[p].ether = e /\ e \in Hosts
    BY DEF FindsOnlyTheHostAsked
  <2>1. p \in 1 .. Len(nodes) /\ nodes[p].ether = e
    BY HitIsEqual DEF find, IInv
  <2> QED
    BY <2>1 DEF IInv, NodesAreHosts
<1> QED
  BY <1>1, FixedInvariance, PTL

\* A file whose hosts are ordered in all octets loses none of them, in whatever order it
\* names them and however often, and each is found with its last address.
THEOREM OrderedConfigIsSafe == Spec => []OrderedHostsAreFound
<1>1. IInv => OrderedHostsAreFound
  <2> SUFFICES ASSUME IInv, AllOrdered
               PROVE  /\ sound = TRUE
                      /\ \A e \in Hosts :
                           /\ ~ MayMiss(e)
                           /\ \A p \in find(e) : nodes[p].address = configured[e]
    BY DEF OrderedHostsAreFound, AllOrdered
  <2>1. TypeOK /\ sound = TRUE /\ Sorted /\ Complete /\ UpToDate
    BY DEF IInv, OrderedTree
  <2>2. ASSUME NEW e \in Hosts
        PROVE  ~ MayMiss(e) /\ \A p \in find(e) : nodes[p].address = configured[e]
    <3>1. PICK q \in 1 .. Len(nodes) : nodes[q].ether = e
      BY <2>1 DEF Complete
    <3>2. \A p \in lower_bound(e) : p = q /\ Hit(p, e)
      BY <2>1, <3>1, DescentFinds
    <3> QED
      BY <2>1, <3>1, <3>2 DEF MayMiss, find, UpToDate
  <2> QED
    BY <2>1, <2>2
<1> QED
  BY <1>1, FixedInvariance, PTL
=============================================================================
