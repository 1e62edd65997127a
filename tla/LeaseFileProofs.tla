-------------------------- MODULE LeaseFileProofs ---------------------------
(***************************************************************************)
(* LeaseFile keeps its promises for all tables, addresses and times: what  *)
(* load_leases reads after a stop is what was stored, and after a crash a  *)
(* beginning of it.                                                        *)
(***************************************************************************)
EXTENDS LeaseLineProofs

-----------------------------------------------------------------------------
(* The inductive invariant.                                                *)

Table == [Key -> Lease \cup {NoLease}]

\* Only the expiry of the parked address has more digits than the clock.
ShortExpiries(L) == \A k \in LiveKeys(L) : k # dummy_hwaddr => L[k].exp < Epoch * Dec

Types ==
  /\ phase \in {"running", "writing", "stopped", "crashed"}
  /\ leases \in Table /\ saved \in Table /\ now \in Clock
  /\ written \in Seq(Key) /\ file \in Seq(Seq(Int)) /\ Len(file) = Len(written)

Expiries ==
  /\ ShortExpiries(leases) /\ ShortExpiries(saved)
  /\ \A k \in LiveKeys(saved) : Epoch <= saved[k].exp

\* The table does not change while it is written.
Frozen == phase = "writing" => leases = saved

\* The line of the file for a key of the table.
FullLine(i) == Line(written[i], saved[written[i]])

\* Every line stands for a lease of the table that was to be written, and only the last
\* one, and only after a crash, may be cut.
Contents ==
  \A i \in 1 .. Len(written) :
    /\ saved[written[i]] # NoLease
    /\ \E n \in 0 .. Len(FullLine(i)) : file[i] = SubSeq(FullLine(i), 1, n)
    /\ i # Len(written) \/ phase \in {"writing", "stopped"} => file[i] = FullLine(i)

\* The lines are in the order of their keys, before all that have none.
Ordered ==
  \A i \in 1 .. Len(written) :
    /\ \A j \in 1 .. Len(written) : i < j => KeyLess(written[i], written[j])
    /\ \A k \in LiveKeys(saved) :
         (\A j \in 1 .. Len(written) : written[j] # k) => KeyLess(written[i], k)

Complete ==
  phase = "stopped" => \A k \in LiveKeys(saved) : \E i \in 1 .. Len(written) : written[i] = k

IInv == Types /\ Expiries /\ Frozen /\ Contents /\ Ordered /\ Complete

-----------------------------------------------------------------------------
(* Keys and times.                                                         *)

LEMMA Times ==
  /\ Epoch \in Nat /\ Radix <= Epoch /\ Clock \subseteq Nat /\ UINT64_MAX \in Nat
  /\ \A t \in Clock : Epoch <= t
  /\ \A t \in Clock, l \in Lifetime : t + l \in Nat /\ t + l < Epoch * Dec
  /\ NoLease \notin Lease
<1>1. Lifetime \subseteq Nat /\ Clock \subseteq Nat
  BY LeaseFileAssumption
<1>2. \A t \in Clock, l \in Lifetime : t + l \in Nat
  BY <1>1
<1> QED
  BY <1>2, LeaseFileAssumption

\* The times that have as many digits as the clock, or more.
Ahead == {t \in Nat : Epoch <= t}

LEMMA ClockAhead == Epoch \in Ahead /\ Clock \subseteq Ahead
  BY Times DEF Ahead

LEMMA DummyKey == dummy_hwaddr \in Key
  BY LeaseFileAssumption DEF dummy_hwaddr, Key

\* The order of the map is one.
LEMMA KeyOrder == ASSUME NEW j \in Key, NEW k \in Key, KeyLess(j, k) PROVE ~ KeyLess(k, j) /\ j # k
<1>1. \A i \in 1 .. Octets : j[i] \in Nat /\ k[i] \in Nat
  BY Constants DEF Key
<1>2. PICK i \in 1 .. Octets : j[i] < k[i] /\ \A h \in 1 .. (i - 1) : j[h] = k[h]
  BY DEF KeyLess
<1>3. j # k
  BY <1>1, <1>2
<1>4. ASSUME KeyLess(k, j) PROVE FALSE
  <2>1. PICK m \in 1 .. Octets : k[m] < j[m] /\ \A h \in 1 .. (m - 1) : k[h] = j[h]
    BY <1>4 DEF KeyLess
  <2>2. i < m => i \in 1 .. (m - 1)
    BY Constants
  <2>3. m < i => m \in 1 .. (i - 1)
    BY Constants
  <2>4. i < m \/ m < i \/ i = m
    BY Constants
  <2>5. /\ j[i] \in Nat /\ k[i] \in Nat /\ j[m] \in Nat /\ k[m] \in Nat
    BY <1>1
  <2> QED
    BY <1>2, <2>1, <2>2, <2>3, <2>4, <2>5
<1> QED
  BY <1>3, <1>4

\* A digit less than a short expiry is a time before the clock's.
LEMMA LostDigit ==
  ASSUME NEW x \in Nat, x < Epoch * Dec PROVE x \div Dec < Epoch
<1>1. /\ x \div Dec \in Nat /\ x % Dec \in Nat
      /\ x = (x \div Dec) * Dec + (x % Dec)
  BY Constants, DivMod DEF Base
<1> SUFFICES ASSUME x \div Dec >= Epoch PROVE FALSE
  BY <1>1, Times
<1>2. (x \div Dec) * Dec >= Epoch * Dec
  BY <1>1, Times, Constants DEF Base
<1> QED
  BY <1>1, <1>2, Times, Constants DEF Base

LEMMA TableEntry ==
  ASSUME NEW L \in Table, NEW k \in Key, L[k] # NoLease
  PROVE  L[k] \in Lease /\ L[k].ip \in Address /\ L[k].exp \in Nat
  BY DEF Table, Lease

-----------------------------------------------------------------------------
(* What load_leases reads.                                                 *)

\* What a line of the file that is not skipped stands for.
ReadsAs(i, t) ==
  LET k == written[i]  line == file[i]
  IN  /\ hwaddr(line) = k
      /\ \/ LeaseOf(line) = saved[k] /\ line = FullLine(i) /\ saved[k].exp >= t
         \/ /\ k = dummy_hwaddr
            /\ LeaseOf(line) \in Lease
            /\ LeaseOf(line).ip = saved[k].ip /\ LeaseOf(line).exp <= saved[k].exp

LEMMA LineReads ==
  ASSUME IInv, NEW t \in Ahead, NEW i \in 1 .. Len(written)
  PROVE  /\ Accepted(file[i], t) => ReadsAs(i, t)
         /\ file[i] = FullLine(i) => hwaddr(file[i]) = written[i]
         /\ file[i] = FullLine(i) =>
              (saved[written[i]].exp >= t => Accepted(file[i], t))
<1> DEFINE k == written[i]  lease == saved[k]  line == file[i]
<1>1. k \in Key /\ saved \in Table
  BY DEF IInv, Types
<1>2. lease # NoLease
  BY DEF IInv, Contents
<1>3. lease \in Lease /\ lease.ip \in Address /\ lease.exp \in Nat
  BY <1>1, <1>2, TableEntry
<1>4. PICK n \in 0 .. Len(FullLine(i)) : line = SubSeq(FullLine(i), 1, n)
  BY DEF IInv, Contents
<1>5. FullLine(i) = Line(k, lease)
  BY DEF FullLine
<1>6. t \in Nat /\ Epoch \in Nat /\ Radix \in Nat /\ Epoch <= t /\ Radix <= Epoch
  BY Times, Constants DEF Base, Ahead
<1>7. k # dummy_hwaddr => lease.exp < Epoch * Dec
  BY <1>1, <1>2 DEF IInv, Expiries, ShortExpiries, LiveKeys
<1> HIDE DEF k, lease, line
<1>8. FullLine(i) \in Seq(Int) /\ Len(FullLine(i)) \in Nat
  BY <1>1, <1>3, <1>5, LineType
<1>9. ASSUME line = FullLine(i)
      PROVE  /\ Delimiters(line) # {} /\ hwaddr(line) = k
             /\ Timestamp(line) = lease.exp /\ LeaseOf(line) = lease
  BY <1>1, <1>3, <1>5, <1>9, WholeLine
<1>10. ASSUME line # FullLine(i), Accepted(line, t)
       PROVE  /\ k = dummy_hwaddr /\ hwaddr(line) = k /\ LeaseOf(line) \in Lease
              /\ LeaseOf(line).ip = lease.ip /\ LeaseOf(line).exp <= lease.exp
  <2>1. n # Len(FullLine(i))
    <3> SUFFICES ASSUME n = Len(FullLine(i)) PROVE line = FullLine(i)
      BY <1>10
    <3> QED
      BY <1>4, <1>8
  <2>2. Delimiters(line) # {} /\ Timestamp(line) >= t
    BY <1>10 DEF Accepted
  <2>3. \/ Delimiters(line) = {}
        \/ Timestamp(line) \in Nat /\ Timestamp(line) < Radix
        \/ /\ hwaddr(line) = k /\ LeaseOf(line) = [ip |-> lease.ip, exp |-> Timestamp(line)]
           /\ Timestamp(line) \in Nat /\ Timestamp(line) <= lease.exp \div Dec
    BY <1>1, <1>3, <1>4, <1>5, <2>1, CutLine
  <2>4. ~ (Timestamp(line) \in Nat /\ Timestamp(line) < Radix)
    BY <1>6, <2>2
  <2>5. /\ hwaddr(line) = k /\ LeaseOf(line) = [ip |-> lease.ip, exp |-> Timestamp(line)]
        /\ Timestamp(line) \in Nat /\ Timestamp(line) <= lease.exp \div Dec
    BY <2>2, <2>3, <2>4
  <2>6. lease.exp \div Dec \in Nat /\ lease.exp \div Dec <= lease.exp
    BY <1>3, Constants, DivMod
  <2>7. k = dummy_hwaddr
    <3> SUFFICES ASSUME k # dummy_hwaddr PROVE FALSE
      OBVIOUS
    <3>1. lease.exp \div Dec < Epoch
      BY <1>3, <1>7, LostDigit
    <3> QED
      BY <1>6, <2>2, <2>5, <2>6, <3>1
  <2>8. Timestamp(line) <= lease.exp
    BY <1>3, <2>5, <2>6
  <2> QED
    BY <1>3, <2>5, <2>7, <2>8 DEF Lease
<1>11. Accepted(line, t) => ReadsAs(i, t)
  <2>1. CASE line = FullLine(i)
    BY <1>9, <2>1, Zenon DEF ReadsAs, Accepted, k, line, lease
  <2>2. CASE line # FullLine(i)
    BY <1>10, <2>2, Zenon DEF ReadsAs, k, line, lease
  <2> QED
    BY <2>1, <2>2
<1>12. line = FullLine(i) => (lease.exp >= t => Accepted(line, t))
  BY <1>9 DEF Accepted
<1> QED
  BY <1>9, <1>11, <1>12 DEF k, line, lease

LinesOf(k, t) == {i \in DOMAIN file : Accepted(file[i], t) /\ hwaddr(file[i]) = k}

LEMMA LoadIs ==
  ASSUME NEW t, NEW k \in Key
  PROVE  load_leases(file, t)[k] =
           IF LinesOf(k, t) = {} THEN NoLease ELSE LeaseOf(file[Max(LinesOf(k, t))])
  BY DEF load_leases, LinesOf

\* There is one line for a key at most.
LEMMA OneLine ==
  ASSUME IInv, NEW i \in 1 .. Len(written), NEW j \in 1 .. Len(written),
         written[i] = written[j]
  PROVE  i = j
<1>1. Len(written) \in Nat /\ written[i] \in Key /\ written[j] \in Key
  BY DEF IInv, Types
<1>2. (i < j => KeyLess(written[i], written[j])) /\ (j < i => KeyLess(written[j], written[i]))
  BY DEF IInv, Ordered
<1>3. i < j \/ j < i \/ i = j
  BY <1>1
<1> QED
  BY <1>1, <1>2, <1>3, KeyOrder

\* A lease that is read comes from the line of its key.
LEMMA LoadReads ==
  ASSUME IInv, NEW t \in Ahead, NEW k \in Key
  PROVE  /\ \A i \in 1 .. Len(written) :
              (Accepted(file[i], t) /\ written[i] = k) =>
                 load_leases(file, t)[k] = LeaseOf(file[i])
         /\ load_leases(file, t)[k] # NoLease =>
              \E i \in 1 .. Len(written) : written[i] = k /\ Accepted(file[i], t)
<1>1. DOMAIN file = 1 .. Len(written) /\ Len(written) \in Nat
  BY DEF IInv, Types
<1>2. \A i \in LinesOf(k, t) : i \in 1 .. Len(written) /\ Accepted(file[i], t) /\ written[i] = k
  <2> SUFFICES ASSUME NEW i \in LinesOf(k, t)
               PROVE  i \in 1 .. Len(written) /\ Accepted(file[i], t) /\ written[i] = k
    OBVIOUS
  <2>1. i \in 1 .. Len(written) /\ Accepted(file[i], t) /\ hwaddr(file[i]) = k
    BY <1>1 DEF LinesOf
  <2>2. ReadsAs(i, t)
    BY <2>1, LineReads
  <2> QED
    BY <2>1, <2>2 DEF ReadsAs
<1>3. ASSUME NEW i \in 1 .. Len(written), Accepted(file[i], t), written[i] = k
      PROVE  load_leases(file, t)[k] = LeaseOf(file[i])
  <2>1. ReadsAs(i, t)
    BY <1>3, LineReads
  <2>2. i \in LinesOf(k, t)
    BY <1>1, <1>3, <2>1 DEF LinesOf, ReadsAs
  <2>3. LinesOf(k, t) = {i}
    BY <1>2, <1>3, <2>2, OneLine
  <2>4. Max({i}) = i
    <3>1. i \in {i} /\ {i} \in SUBSET Int /\ \A y \in {i} : y <= i
      BY <1>1
    <3> QED
      BY <3>1, MaxIs
  <2> QED
    BY <2>2, <2>3, <2>4, LoadIs
<1>4. ASSUME load_leases(file, t)[k] # NoLease
      PROVE  \E i \in 1 .. Len(written) : written[i] = k /\ Accepted(file[i], t)
  <2>1. LinesOf(k, t) # {}
    BY <1>4, LoadIs
  <2> QED
    BY <1>2, <2>1
<1> QED
  BY <1>3, <1>4

\* What load_leases reads is a table that write_leases may print again.
LEMMA LoadedTable ==
  ASSUME IInv, NEW t \in Ahead
  PROVE  load_leases(file, t) \in Table /\ ShortExpiries(load_leases(file, t))
<1> DEFINE L == load_leases(file, t)
<1>1. ASSUME NEW k \in Key, L[k] # NoLease
      PROVE  L[k] \in Lease /\ (k # dummy_hwaddr => L[k].exp < Epoch * Dec)
  <2>1. PICK i \in 1 .. Len(written) : written[i] = k /\ Accepted(file[i], t)
    BY <1>1, LoadReads
  <2>2. L[k] = LeaseOf(file[i])
    BY <2>1, LoadReads
  <2>3. ReadsAs(i, t)
    BY <2>1, LineReads
  <2>4. saved[k] # NoLease /\ saved \in Table
    BY <2>1 DEF IInv, Contents, Types
  <2>5. saved[k] \in Lease
    BY <2>4, TableEntry
  <2>6. k # dummy_hwaddr => saved[k].exp < Epoch * Dec
    BY <2>4 DEF IInv, Expiries, ShortExpiries, LiveKeys
  <2> HIDE DEF L
  <2> QED
    BY <2>1, <2>2, <2>3, <2>5, <2>6 DEF ReadsAs
<1>2. L = [k \in Key |-> L[k]]
  BY DEF load_leases
<1> HIDE DEF L
<1>3. L \in Table
  BY <1>1, <1>2 DEF Table
<1>4. ShortExpiries(L)
  BY <1>1 DEF ShortExpiries, LiveKeys
<1> QED
  BY <1>3, <1>4 DEF L

-----------------------------------------------------------------------------
(* The invariant is kept.                                                  *)

LEMMA Initially == Init => IInv
<1> SUFFICES ASSUME Init PROVE IInv
  OBVIOUS
<1>1. leases \in Table /\ saved \in Table
  BY DEF Init, NoLeases, Table
<1>2. LiveKeys(leases) = {} /\ LiveKeys(saved) = {}
  BY DEF Init, NoLeases, LiveKeys
<1>3. /\ phase = "stopped" /\ now \in Clock /\ written = <<>> /\ file = <<>>
      /\ Len(written) = 0 /\ Len(file) = 0
  BY DEF Init
<1>4. Types
  BY <1>1, <1>3 DEF Types
<1>5. Expiries
  BY <1>2 DEF Expiries, ShortExpiries
<1>6. Frozen
  BY <1>3 DEF Frozen
<1>7. Contents /\ Ordered
  BY <1>3 DEF Contents, Ordered
<1>8. Complete
  BY <1>2, <1>3 DEF Complete
<1> QED
  BY <1>4, <1>5, <1>6, <1>7, <1>8 DEF IInv

\* What is in the file does not depend on the table and the clock.
LEMMA FileKept ==
  ASSUME IInv, UNCHANGED <<file, written, saved>>,
         phase' \in {"writing", "stopped"} => phase \in {"writing", "stopped"}
  PROVE  Contents' /\ Ordered'
<1>1. Contents /\ Ordered
  BY DEF IInv
<1>2. Contents'
  BY <1>1, Zenon DEF Contents, FullLine
<1>3. Ordered'
  BY <1>1, Zenon DEF Ordered
<1> QED
  BY <1>2, <1>3

LEMMA StoreKeeps ==
  ASSUME IInv, NEW k \in Key, NEW a \in Address, NEW exp \in Nat,
         k # dummy_hwaddr => exp < Epoch * Dec,
         Store(k, [ip |-> a, exp |-> exp])
  PROVE  IInv'
<1>1. Types /\ Expiries /\ Frozen /\ Contents /\ Ordered /\ Complete
  BY DEF IInv
<1>2. phase = "running" /\ UNCHANGED <<phase, file, written, saved, now>>
  BY DEF Store
<1>3. leases' = [leases EXCEPT ![k] = [ip |-> a, exp |-> exp]]
  BY DEF Store
<1>4. exp \in Nat /\ (k # dummy_hwaddr => exp < Epoch * Dec)
  OBVIOUS
<1> DEFINE lease == [ip |-> a, exp |-> exp]
<1>5. lease \in Lease /\ lease.exp = exp
  BY <1>4 DEF Lease
<1> HIDE DEF lease
<1>6. leases' = [leases EXCEPT ![k] = lease] /\ leases \in Table
  BY <1>1, <1>3 DEF lease, Types
<1>7. leases' \in Table
  BY <1>5, <1>6 DEF Table
<1>8. ShortExpiries(leases)'
  <2> SUFFICES ASSUME NEW j \in Key, leases'[j] # NoLease, j # dummy_hwaddr
               PROVE  leases'[j].exp < Epoch * Dec
    BY DEF ShortExpiries, LiveKeys
  <2>1. CASE j = k
    BY <1>4, <1>5, <1>6, <2>1 DEF Table
  <2>2. CASE j # k
    <3>1. leases'[j] = leases[j]
      BY <1>6, <2>2 DEF Table
    <3> QED
      BY <1>1, <3>1 DEF Expiries, ShortExpiries, LiveKeys
  <2> QED
    BY <2>1, <2>2
<1>9. Types'
  BY <1>1, <1>2, <1>7 DEF Types
<1>10. Expiries'
  BY <1>1, <1>2, <1>8 DEF Expiries, ShortExpiries, LiveKeys
<1>11. Frozen' /\ Complete'
  BY <1>2 DEF Frozen, Complete
<1>12. Contents' /\ Ordered'
  BY <1>2, FileKept
<1> QED
  BY <1>9, <1>10, <1>11, <1>12 DEF IInv

LEMMA HandlerKeeps ==
  ASSUME IInv, NEW k \in Key, NEW a \in Address, Bind(k, a) \/ Park(k, a)
  PROVE  IInv'
<1>1. CASE Bind(k, a)
  <2>1. PICK l \in Lifetime : Store(k, [ip |-> a, exp |-> now + l])
    BY <1>1 DEF Bind
  <2>2. now + l \in Nat /\ now + l < Epoch * Dec
    BY Times DEF IInv, Types
  <2> QED
    BY <2>1, <2>2, StoreKeeps
<1>2. CASE Park(k, a)
  BY <1>2, StoreKeeps, Times, DummyKey DEF Park
<1> QED
  BY <1>1, <1>2

LEMMA StopKeeps == ASSUME IInv, StopAndTruncate PROVE IInv'
<1>1. Types /\ Expiries
  BY DEF IInv
<1>2. /\ phase' = "writing" /\ file' = <<>> /\ written' = <<>> /\ now' = now
      /\ leases' = update_leases(leases, now) /\ saved' = leases'
      /\ Len(file') = 0 /\ Len(written') = 0
  BY DEF StopAndTruncate
<1>3. leases' = [k \in Key |-> IF leases[k] # NoLease /\ leases[k].exp <= now
                               THEN NoLease ELSE leases[k]]
  BY <1>2 DEF update_leases
<1>4. leases' \in Table
  BY <1>1, <1>3 DEF Types, Table
<1>5. ShortExpiries(leases)'
  <2> SUFFICES ASSUME NEW j \in Key, leases'[j] # NoLease, j # dummy_hwaddr
               PROVE  leases'[j].exp < Epoch * Dec
    BY DEF ShortExpiries, LiveKeys
  <2>1. leases'[j] = leases[j]
    BY <1>3
  <2> QED
    BY <1>1, <2>1 DEF Expiries, ShortExpiries, LiveKeys
<1>6. Types'
  BY <1>1, <1>2, <1>4 DEF Types
<1>7. Expiries'
  <2>1. ASSUME NEW k \in LiveKeys(saved)' PROVE Epoch <= saved'[k].exp
    <3>1. k \in Key /\ leases'[k] # NoLease
      BY <1>2 DEF LiveKeys
    <3>2. leases'[k] = leases[k] /\ leases[k] # NoLease /\ ~ (leases[k].exp <= now)
      BY <1>3, <3>1
    <3>3. leases[k].exp \in Nat
      BY <1>1, <3>1, <3>2, TableEntry DEF Types
    <3>4. now \in Nat /\ Epoch \in Nat /\ Epoch <= now
      BY <1>1, Times DEF Types
    <3> QED
      BY <1>2, <3>2, <3>3, <3>4
  <2> QED
    BY <1>2, <1>5, <2>1 DEF Expiries, ShortExpiries, LiveKeys
<1>8. Frozen' /\ Complete'
  BY <1>2 DEF Frozen, Complete
<1>9. Contents' /\ Ordered'
  BY <1>2 DEF Contents, Ordered
<1> QED
  BY <1>6, <1>7, <1>8, <1>9 DEF IInv

\* The loop has written one more line, or n characters of it when the process died.
LEMMA GrowKeeps ==
  ASSUME IInv, phase = "writing", NEW k \in Unwritten, IsNext(k),
         NEW n \in 0 .. Len(Line(k, leases[k])),
         file' = Append(file, SubSeq(Line(k, leases[k]), 1, n)), written' = Append(written, k),
         n = Len(Line(k, leases[k])) \/ phase' \notin {"writing", "stopped"},
         saved' = saved
  PROVE  /\ Contents' /\ Ordered'
         /\ written' \in Seq(Key) /\ file' \in Seq(Seq(Int)) /\ Len(file') = Len(written')
<1> DEFINE s == Line(k, leases[k])  c == SubSeq(s, 1, n)  m == Len(written)
<1>1. Types /\ Contents /\ Ordered /\ leases = saved
  BY DEF IInv, Frozen
<1>2. /\ k \in Key /\ saved[k] # NoLease /\ k \in LiveKeys(saved)
      /\ \A j \in DOMAIN written : written[j] # k
  BY <1>1 DEF Unwritten, LiveKeys
<1>3. saved \in Table /\ written \in Seq(Key) /\ file \in Seq(Seq(Int)) /\ Len(file) = m /\ m \in Nat
  BY <1>1 DEF Types
<1>4. saved[k] \in Lease
  BY <1>2, <1>3, TableEntry
<1>5. s \in Seq(Int) /\ Len(s) \in Nat
  BY <1>1, <1>2, <1>4, LineType
<1>6. n \in 0 .. Len(s) /\ file' = Append(file, c) /\ (n = Len(s) \/ phase' \notin {"writing", "stopped"})
  OBVIOUS
<1>7. s = Line(k, saved[k])
  BY <1>1
<1> HIDE DEF s
<1>8. c \in Seq(Int) /\ (n = Len(s) => c = s)
  <2>1. CutAt(c, s, n)
    BY <1>5, <1>6, CutIs
  <2> QED
    BY <1>5, <2>1, SameText DEF CutAt
<1> HIDE DEF c
<1>9. /\ written' \in Seq(Key) /\ Len(written') = m + 1 /\ written'[m + 1] = k
      /\ \A i \in 1 .. m : written'[i] = written[i]
  BY <1>2, <1>3
<1>10. /\ file' \in Seq(Seq(Int)) /\ Len(file') = m + 1 /\ file'[m + 1] = c
       /\ \A i \in 1 .. m : file'[i] = file[i]
  BY <1>3, <1>6, <1>8
<1>11. DOMAIN written = 1 .. m
  BY <1>3
<1> HIDE DEF m
<1>12. \A i \in 1 .. (m + 1) : i \in 1 .. m \/ i = m + 1
  BY <1>3 DEF m
<1>13. Contents'
  <2> SUFFICES ASSUME NEW i \in 1 .. (m + 1)
               PROVE  /\ saved[written'[i]] # NoLease
                      /\ \E x \in 0 .. Len(Line(written'[i], saved[written'[i]])) :
                           file'[i] = SubSeq(Line(written'[i], saved[written'[i]]), 1, x)
                      /\ i # m + 1 \/ phase' \in {"writing", "stopped"} =>
                           file'[i] = Line(written'[i], saved[written'[i]])
    BY <1>9, Zenon DEF Contents, FullLine
  <2>1. CASE i \in 1 .. m
    <3>1. written'[i] = written[i] /\ file'[i] = file[i]
      BY <1>9, <1>10, <2>1
    <3>2. /\ saved[written[i]] # NoLease
          /\ \E x \in 0 .. Len(FullLine(i)) : file[i] = SubSeq(FullLine(i), 1, x)
          /\ file[i] = FullLine(i)
      BY <1>1, <2>1 DEF Contents, m
    <3> QED
      BY <3>1, <3>2, Zenon DEF FullLine
  <2>2. CASE i = m + 1
    <3>1. written'[i] = k /\ file'[i] = c
      BY <1>9, <1>10, <2>2
    <3>2. c = SubSeq(s, 1, n)
      BY DEF c
    <3>3. phase' \in {"writing", "stopped"} => c = s
      BY <1>6, <1>8
    <3> QED
      BY <1>2, <1>6, <1>7, <2>2, <3>1, <3>2, <3>3, Zenon
  <2> QED
    BY <1>12, <2>1, <2>2
<1>14. Ordered'
  <2> SUFFICES ASSUME NEW i \in 1 .. (m + 1)
               PROVE  /\ \A j \in 1 .. (m + 1) : i < j => KeyLess(written'[i], written'[j])
                      /\ \A x \in LiveKeys(saved) :
                           (\A j \in 1 .. (m + 1) : written'[j] # x) => KeyLess(written'[i], x)
    BY <1>9, Zenon DEF Ordered
  <2>1. CASE i \in 1 .. m
    <3>1. /\ \A j \in 1 .. m : i < j => KeyLess(written[i], written[j])
          /\ \A x \in LiveKeys(saved) :
               (\A j \in 1 .. m : written[j] # x) => KeyLess(written[i], x)
      BY <1>1, <2>1 DEF Ordered, m
    <3>2. KeyLess(written[i], k)
      BY <1>2, <1>11, <3>1
    <3>3. ASSUME NEW j \in 1 .. (m + 1), i < j PROVE KeyLess(written'[i], written'[j])
      <4>1. written'[i] = written[i]
        BY <1>9, <2>1
      <4>2. CASE j \in 1 .. m
        BY <1>9, <3>1, <3>3, <4>1, <4>2
      <4>3. CASE j = m + 1
        BY <1>9, <3>2, <4>1, <4>3
      <4> QED
        BY <1>12, <4>2, <4>3
    <3>4. ASSUME NEW x \in LiveKeys(saved), \A j \in 1 .. (m + 1) : written'[j] # x
          PROVE  KeyLess(written'[i], x)
      <4>1. written'[i] = written[i]
        BY <1>9, <2>1
      <4>2. \A j \in 1 .. m : written[j] # x
        <5>1. \A j \in 1 .. m : j \in 1 .. (m + 1)
          BY <1>3 DEF m
        <5> QED
          BY <1>9, <3>4, <5>1
      <4> QED
        BY <3>1, <4>1, <4>2
    <3> QED
      BY <3>3, <3>4
  <2>2. CASE i = m + 1
    <3>1. written'[i] = k
      BY <1>9, <2>2
    <3>2. \A j \in 1 .. (m + 1) : ~ (i < j)
      BY <1>3, <2>2 DEF m
    <3>3. ASSUME NEW x \in LiveKeys(saved), \A j \in 1 .. (m + 1) : written'[j] # x
          PROVE  KeyLess(k, x)
      <4>1. \A j \in 1 .. m : written[j] # x
        <5>1. \A j \in 1 .. m : j \in 1 .. (m + 1)
          BY <1>3 DEF m
        <5> QED
          BY <1>9, <3>3, <5>1
      <4>2. x # k
        BY <2>2, <3>1, <3>3
      <4>3. x \in Unwritten
        BY <1>1, <1>11, <4>1 DEF Unwritten
      <4> QED
        BY <4>2, <4>3 DEF IsNext
    <3> QED
      BY <3>1, <3>2, <3>3
  <2> QED
    BY <1>12, <2>1, <2>2
<1> QED
  BY <1>9, <1>10, <1>13, <1>14

LEMMA WriteKeeps == ASSUME IInv, WriteLine PROVE IInv'
<1>1. Types /\ Expiries /\ Frozen
  BY DEF IInv
<1>2. phase = "writing" /\ UNCHANGED <<phase, leases, saved, now>>
  BY DEF WriteLine
<1>3. PICK k \in Unwritten : /\ IsNext(k)
                             /\ file' = Append(file, Line(k, leases[k]))
                             /\ written' = Append(written, k)
  BY DEF WriteLine
<1> DEFINE s == Line(k, leases[k])
<1>4. s \in Seq(Int) /\ Len(s) \in Nat
  <2>1. k \in Key /\ leases[k] # NoLease /\ leases \in Table
    BY <1>1 DEF Types, Unwritten, LiveKeys
  <2> QED
    BY <2>1, TableEntry, LineType
<1>5. Len(s) \in 0 .. Len(s) /\ s = SubSeq(s, 1, Len(s))
  <2> HIDE DEF s
  <2> QED
    BY <1>4
<1>6. file' = Append(file, SubSeq(s, 1, Len(s)))
  BY <1>3, <1>5, Zenon
<1>7. /\ Contents' /\ Ordered'
      /\ written' \in Seq(Key) /\ file' \in Seq(Seq(Int)) /\ Len(file') = Len(written')
  BY <1>2, <1>3, <1>5, <1>6, GrowKeeps
<1>8. Types'
  BY <1>1, <1>2, <1>7 DEF Types
<1>9. Expiries'
  BY <1>1, <1>2 DEF Expiries, ShortExpiries, LiveKeys
<1>10. Frozen' /\ Complete'
  BY <1>1, <1>2 DEF Frozen, Complete
<1> QED
  BY <1>7, <1>8, <1>9, <1>10 DEF IInv

LEMMA EmptyTable == NoLeases \in Table /\ LiveKeys(NoLeases) = {}
  BY DEF NoLeases, Table, LiveKeys

LEMMA ExitKeeps == ASSUME IInv, Exit PROVE IInv'
<1>1. Types /\ Expiries /\ leases = saved
  BY DEF IInv, Frozen, Exit
<1>2. /\ phase = "writing" /\ Unwritten = {} /\ phase' = "stopped" /\ leases' = NoLeases
      /\ UNCHANGED <<file, written, saved, now>>
  BY DEF Exit
<1>3. Types'
  BY <1>1, <1>2, EmptyTable DEF Types
<1>4. Expiries'
  <2>1. ShortExpiries(leases)'
    BY <1>2, EmptyTable DEF ShortExpiries
  <2>2. ShortExpiries(saved)' /\ \A k \in LiveKeys(saved)' : Epoch <= saved'[k].exp
    BY <1>1, <1>2 DEF Expiries, ShortExpiries, LiveKeys
  <2> QED
    BY <2>1, <2>2 DEF Expiries
<1>5. Frozen'
  BY <1>2 DEF Frozen
<1>6. Complete'
  <2>1. \A k \in LiveKeys(saved) : \E i \in DOMAIN written : written[i] = k
    BY <1>1, <1>2 DEF Unwritten
  <2>2. DOMAIN written = 1 .. Len(written)
    BY <1>1 DEF Types
  <2> QED
    BY <1>2, <2>1, <2>2 DEF Complete, LiveKeys
<1>7. Contents' /\ Ordered'
  BY <1>2, FileKept
<1> QED
  BY <1>3, <1>4, <1>5, <1>6, <1>7 DEF IInv

LEMMA CrashKeeps == ASSUME IInv, Crash PROVE IInv'
<1>1. Types /\ Expiries
  BY DEF IInv
<1>2. phase' = "crashed" /\ leases' = NoLeases /\ UNCHANGED <<saved, now>>
  BY DEF Crash
<1>3. /\ Contents' /\ Ordered'
      /\ written' \in Seq(Key) /\ file' \in Seq(Seq(Int)) /\ Len(file') = Len(written')
  <2>1. CASE UNCHANGED <<file, written>>
    <3>1. Contents' /\ Ordered'
      BY <1>2, <2>1, FileKept
    <3> QED
      BY <1>1, <2>1, <3>1 DEF Types
  <2>2. CASE /\ phase = "writing"
             /\ \E k \in Unwritten : \E n \in 0 .. Len(Line(k, leases[k])) :
                  /\ IsNext(k)
                  /\ file' = Append(file, SubSeq(Line(k, leases[k]), 1, n))
                  /\ written' = Append(written, k)
    BY <1>2, <2>2, GrowKeeps
  <2> QED
    BY <2>1, <2>2 DEF Crash
<1>4. Types'
  BY <1>1, <1>2, <1>3, EmptyTable DEF Types
<1>5. Expiries'
  <2>1. ShortExpiries(leases)'
    BY <1>2, EmptyTable DEF ShortExpiries
  <2>2. ShortExpiries(saved)' /\ \A k \in LiveKeys(saved)' : Epoch <= saved'[k].exp
    BY <1>1, <1>2 DEF Expiries, ShortExpiries, LiveKeys
  <2> QED
    BY <2>1, <2>2 DEF Expiries
<1>6. Frozen' /\ Complete'
  BY <1>2 DEF Frozen, Complete
<1> QED
  BY <1>3, <1>4, <1>5, <1>6 DEF IInv

LEMMA StartKeeps == ASSUME IInv, Start PROVE IInv'
<1>1. Types /\ Expiries
  BY DEF IInv
<1>2. /\ phase' = "running" /\ leases' = load_leases(file, now)
      /\ UNCHANGED <<file, written, saved, now>>
  BY DEF Start
<1>3. leases' \in Table /\ ShortExpiries(leases')
  BY <1>1, <1>2, ClockAhead, LoadedTable DEF Types
<1>4. Types'
  BY <1>1, <1>2, <1>3 DEF Types
<1>5. Expiries'
  BY <1>1, <1>2, <1>3 DEF Expiries, ShortExpiries, LiveKeys
<1>6. Frozen' /\ Complete'
  BY <1>2 DEF Frozen, Complete
<1>7. Contents' /\ Ordered'
  BY <1>2, FileKept
<1> QED
  BY <1>4, <1>5, <1>6, <1>7 DEF IInv

LEMMA NothingElse ==
  ASSUME IInv, UNCHANGED <<phase, leases, file, written, saved>>, now' \in Clock PROVE IInv'
<1>1. Contents' /\ Ordered'
  BY FileKept
<1>2. Types'
  BY DEF IInv, Types
<1>3. Expiries'
  BY DEF IInv, Expiries, ShortExpiries, LiveKeys
<1>4. Frozen' /\ Complete'
  BY DEF IInv, Frozen, Complete, LiveKeys
<1> QED
  BY <1>1, <1>2, <1>3, <1>4 DEF IInv

LEMMA Inductive == IInv /\ [Next]_vars => IInv'
<1> SUFFICES ASSUME IInv, [Next]_vars PROVE IInv'
  OBVIOUS
<1>1. ASSUME NEW k \in Key, NEW a \in Address, Bind(k, a) \/ Park(k, a) PROVE IInv'
  BY <1>1, HandlerKeeps
<1>2. CASE StopAndTruncate
  BY <1>2, StopKeeps
<1>3. CASE WriteLine
  BY <1>3, WriteKeeps
<1>4. CASE Exit
  BY <1>4, ExitKeeps
<1>5. CASE Crash
  BY <1>5, CrashKeeps
<1>6. CASE Start
  BY <1>6, StartKeeps
<1>7. CASE Tick
  <2>1. UNCHANGED <<phase, leases, file, written, saved>> /\ now' \in Clock
    BY <1>7 DEF Tick
  <2> QED
    BY <2>1, NothingElse
<1>8. CASE UNCHANGED vars
  <2>1. UNCHANGED <<phase, leases, file, written, saved>> /\ now' = now /\ now \in Clock
    BY <1>8 DEF vars, IInv, Types
  <2> QED
    BY <2>1, NothingElse
<1> QED
  BY <1>1, <1>2, <1>3, <1>4, <1>5, <1>6, <1>7, <1>8 DEF Next

LEMMA Invariance == Spec => []IInv
  BY Initially, Inductive, PTL DEF Spec

-----------------------------------------------------------------------------
(* What follows from it.                                                   *)

\* A file with a whole line for every lease is read back.
LEMMA CompleteFile ==
  ASSUME IInv, phase \in {"writing", "stopped"}, NEW t \in Ahead,
         \A k \in LiveKeys(saved) : \E i \in 1 .. Len(written) : written[i] = k
  PROVE  load_leases(file, t) =
           [k \in Key |-> IF saved[k] # NoLease /\ saved[k].exp < t THEN NoLease ELSE saved[k]]
<1> DEFINE L == load_leases(file, t)
<1>1. ASSUME NEW k \in Key
      PROVE  L[k] = IF saved[k] # NoLease /\ saved[k].exp < t THEN NoLease ELSE saved[k]
  <2>1. saved \in Table /\ t \in Nat
    BY DEF IInv, Types, Ahead
  <2>2. ASSUME L[k] # NoLease
        PROVE  L[k] = saved[k] /\ saved[k] # NoLease /\ saved[k].exp >= t
    <3>1. PICK i \in 1 .. Len(written) : written[i] = k /\ Accepted(file[i], t)
      BY <2>2, LoadReads
    <3>2. saved[k] # NoLease /\ file[i] = FullLine(i)
      BY <3>1 DEF IInv, Contents
    <3>3. saved[k] \in Lease
      BY <2>1, <3>2, TableEntry
    <3>4. /\ LeaseOf(file[i]) = saved[k] /\ Timestamp(file[i]) = saved[k].exp
      BY <3>1, <3>2, <3>3, WholeLine DEF FullLine
    <3>5. L[k] = LeaseOf(file[i])
      BY <3>1, LoadReads
    <3> QED
      BY <3>1, <3>2, <3>4, <3>5 DEF Accepted
  <2>3. ASSUME saved[k] # NoLease, saved[k].exp >= t PROVE L[k] # NoLease
    <3>1. PICK i \in 1 .. Len(written) : written[i] = k
      BY <2>3 DEF LiveKeys
    <3>2. file[i] = FullLine(i)
      BY DEF IInv, Contents
    <3>3. Accepted(file[i], t)
      BY <2>3, <3>1, <3>2, LineReads
    <3>4. L[k] = LeaseOf(file[i])
      BY <3>1, <3>3, LoadReads
    <3>5. saved[k] \in Lease
      BY <2>1, <2>3, TableEntry
    <3>6. LeaseOf(file[i]) = saved[k]
      BY <3>1, <3>2, <3>5, WholeLine DEF FullLine
    <3> QED
      BY <2>3, <3>4, <3>6
  <2>4. saved[k] # NoLease => saved[k].exp \in Nat
    BY <2>1, TableEntry
  <2> HIDE DEF L
  <2> QED
    BY <2>1, <2>2, <2>3, <2>4
<1>2. L = [k \in Key |-> L[k]]
  BY DEF load_leases
<1> HIDE DEF L
<1>3. L = [k \in Key |-> IF saved[k] # NoLease /\ saved[k].exp < t THEN NoLease ELSE saved[k]]
  BY <1>1, <1>2
<1> QED
  BY <1>3 DEF L

LEMMA StopSafe == IInv => CleanStopReadsBack
  BY ClockAhead, CompleteFile DEF CleanStopReadsBack, IInv, Complete

LEMMA CutSafe == IInv => CutLosesOnlyTheTail
<1> SUFFICES ASSUME IInv PROVE CutLosesOnlyTheTail
  OBVIOUS
<1> DEFINE S == {k \in LiveKeys(saved) : \E i \in 1 .. Len(written) :
                   written[i] = k /\ (file[i] = FullLine(i) \/ k = dummy_hwaddr)}
<1>1. saved \in Table /\ written \in Seq(Key) /\ Len(written) \in Nat
  BY DEF IInv, Types
<1>2. FirstLeases(S, saved)
  <2> SUFFICES ASSUME NEW k \in S, NEW j \in LiveKeys(saved), KeyLess(j, k) PROVE j \in S
    BY DEF FirstLeases
  <2>1. PICK i \in 1 .. Len(written) : written[i] = k
    OBVIOUS
  <2>2. j \in Key /\ k \in Key
    BY DEF LiveKeys
  <2>3. ~ KeyLess(k, j)
    BY <2>2, KeyOrder
  <2>4. PICK m \in 1 .. Len(written) : written[m] = j
    BY <2>1, <2>3 DEF IInv, Ordered
  <2>5. ~ (i < m) /\ i # m
    BY <2>1, <2>2, <2>3, <2>4, KeyOrder DEF IInv, Ordered
  <2>6. m # Len(written)
    BY <1>1, <2>5
  <2>7. file[m] = FullLine(m)
    BY <2>6 DEF IInv, Contents
  <2> QED
    BY <2>4, <2>7
<1>3. ASSUME NEW t \in Clock
      PROVE  LET L == load_leases(file, t)
             IN  /\ LiveKeys(L) \subseteq S
                 /\ \A k \in S \ {dummy_hwaddr} : saved[k].exp >= t => L[k] = saved[k]
                 /\ L[dummy_hwaddr] # NoLease =>
                      /\ L[dummy_hwaddr].ip = saved[dummy_hwaddr].ip
                      /\ L[dummy_hwaddr].exp <= saved[dummy_hwaddr].exp
  <2> DEFINE L == load_leases(file, t)
  <2>0. t \in Ahead
    BY ClockAhead
  <2>1. ASSUME NEW k \in Key, L[k] # NoLease
        PROVE  \E i \in 1 .. Len(written) :
                 written[i] = k /\ L[k] = LeaseOf(file[i]) /\ ReadsAs(i, t) /\ saved[k] # NoLease
    <3>1. PICK i \in 1 .. Len(written) : written[i] = k /\ Accepted(file[i], t)
      BY <2>0, <2>1, LoadReads
    <3>2. L[k] = LeaseOf(file[i])
      BY <2>0, <3>1, LoadReads
    <3>3. ReadsAs(i, t)
      BY <2>0, <3>1, LineReads
    <3>4. saved[k] # NoLease
      BY <3>1 DEF IInv, Contents
    <3> QED
      BY <3>1, <3>2, <3>3, <3>4
  <2>2. ASSUME NEW k \in S, k # dummy_hwaddr, saved[k].exp >= t PROVE L[k] = saved[k]
    <3>1. PICK i \in 1 .. Len(written) : written[i] = k /\ file[i] = FullLine(i)
      BY <2>2
    <3>2. k \in Key /\ saved[k] # NoLease
      BY DEF LiveKeys
    <3>3. Accepted(file[i], t)
      BY <2>0, <2>2, <3>1, LineReads
    <3>4. L[k] = LeaseOf(file[i])
      BY <2>0, <3>1, <3>2, <3>3, LoadReads
    <3>5. saved[k] \in Lease
      BY <1>1, <3>2, TableEntry
    <3>6. LeaseOf(file[i]) = saved[k]
      BY <3>1, <3>2, <3>5, WholeLine DEF FullLine
    <3> QED
      BY <3>4, <3>6
  <2> HIDE DEF L
  <2>3. ASSUME NEW k \in LiveKeys(L) PROVE k \in S
    <3>1. k \in Key /\ L[k] # NoLease
      BY DEF LiveKeys
    <3> QED
      BY <2>1, <3>1 DEF ReadsAs, LiveKeys
  <2>4. ASSUME L[dummy_hwaddr] # NoLease
        PROVE  /\ L[dummy_hwaddr].ip = saved[dummy_hwaddr].ip
               /\ L[dummy_hwaddr].exp <= saved[dummy_hwaddr].exp
    <3>1. PICK i \in 1 .. Len(written) :
            /\ written[i] = dummy_hwaddr /\ L[dummy_hwaddr] = LeaseOf(file[i])
            /\ ReadsAs(i, t) /\ saved[dummy_hwaddr] # NoLease
      BY <2>1, <2>4, DummyKey
    <3>2. saved[dummy_hwaddr].exp \in Nat
      BY <1>1, <3>1, DummyKey, TableEntry
    <3> QED
      BY <3>1, <3>2 DEF ReadsAs
  <2> QED
    BY <2>2, <2>3, <2>4 DEF L
<1>4. S \in SUBSET LiveKeys(saved)
  OBVIOUS
<1> HIDE DEF S
<1> QED
  BY <1>2, <1>3, <1>4 DEF CutLosesOnlyTheTail

-----------------------------------------------------------------------------
(* The table and its text are a lease service.                             *)

\* The table of record: in memory while the process runs, else what the text says.
Book == IF phase \in {"running", "writing"} THEN leases ELSE load_leases(file, Epoch)

\* What the text says, or will say when write_leases is done.
Kept == IF phase = "writing" THEN leases ELSE load_leases(file, Epoch)

Status ==
  CASE phase = "running" -> "open"
    [] phase = "writing" -> "closing"
    [] phase = "stopped" -> "closed"
    [] phase = "crashed" -> "down"

LS == INSTANCE LeaseService
        WITH Client <- Key, Parked <- dummy_hwaddr, NoBinding <- NoLease,
             Holds <- Lifetime, Never <- UINT64_MAX,
             book <- Book, kept <- Kept, clock <- now, status <- Status

\* What module Daemon promises with a file that holds the table itself, with its text: to
\* print the leases, stop, start and parse them drops expired ones at most, and a crash
\* at any character of write_leases leaves some of them, none altered but the expiry of
\* the parked address.
TextServiceSpec == LS!Spec

LEMMA BookType == IInv => Book \in Table
  BY ClockAhead, LoadedTable DEF Book, IInv, Types

LEMMA BookTypeNext == IInv' => Book' \in LS!Book
<1>1. IInv' => (Book \in Table)'
  BY BookType, PTL
<1> QED
  BY <1>1 DEF Table, Lease, LS!Book, LS!Binding

\* A later start reads the same leases, less those that have expired since.
LEMMA LoadLater ==
  ASSUME IInv, NEW t \in Ahead, NEW k \in Key
  PROVE  load_leases(file, t)[k] \in
           {load_leases(file, Epoch)[k]} \cup
           (IF load_leases(file, Epoch)[k] # NoLease /\ load_leases(file, Epoch)[k].exp <= t
            THEN {NoLease} ELSE {})
<1> DEFINE x == load_leases(file, Epoch)[k]  y == load_leases(file, t)[k]
<1>1. Epoch \in Ahead /\ t \in Nat /\ Epoch \in Nat /\ Epoch <= t
  BY ClockAhead, Times DEF Ahead
<1>2. load_leases(file, Epoch) \in Table /\ load_leases(file, t) \in Table
  BY <1>1, LoadedTable
<1>3. ASSUME y # NoLease PROVE x = y
  <2>1. PICK i \in 1 .. Len(written) : written[i] = k /\ Accepted(file[i], t)
    BY <1>3, LoadReads
  <2>2. y = LeaseOf(file[i])
    BY <2>1, LoadReads
  <2>3. y.exp = Timestamp(file[i]) /\ y.exp \in Nat
    BY <1>2, <1>3, <2>2, TableEntry DEF LeaseOf
  <2>4. Accepted(file[i], Epoch)
    BY <1>1, <2>1, <2>3 DEF Accepted
  <2>5. x = LeaseOf(file[i])
    BY <1>1, <2>1, <2>4, LoadReads
  <2> QED
    BY <2>2, <2>5
<1>4. ASSUME y = NoLease, x # NoLease PROVE x.exp <= t
  <2>1. PICK i \in 1 .. Len(written) : written[i] = k /\ Accepted(file[i], Epoch)
    BY <1>1, <1>4, LoadReads
  <2>2. x = LeaseOf(file[i])
    BY <1>1, <2>1, LoadReads
  <2>3. x.exp = Timestamp(file[i]) /\ x.exp \in Nat /\ x \in Lease
    BY <1>2, <1>4, <2>2, TableEntry DEF LeaseOf
  <2>4. ~ Accepted(file[i], t)
    <3> SUFFICES ASSUME Accepted(file[i], t) PROVE FALSE
      OBVIOUS
    <3>1. y = LeaseOf(file[i])
      BY <2>1, LoadReads
    <3> QED
      BY <1>4, <2>2, <3>1
  <2> QED
    BY <1>1, <2>1, <2>3, <2>4 DEF Accepted
<1> HIDE DEF x, y
<1>5. y \in {x} \cup (IF x # NoLease /\ x.exp <= t THEN {NoLease} ELSE {})
  BY <1>3, <1>4
<1> QED
  BY <1>5 DEF x, y

\* The text never says more than the table that was to be written, the expiry of the
\* parked address excepted, which may come out earlier.
SaysSaved ==
  \A k \in Key :
    LET b == load_leases(file, Epoch)[k]
    IN  \/ b = NoLease
        \/ b = saved[k]
        \/ /\ k = dummy_hwaddr /\ saved[k] # NoLease
           /\ b.ip = saved[k].ip /\ b.exp <= saved[k].exp

LEMMA NothingMadeUp == IInv => SaysSaved
<1> SUFFICES ASSUME IInv, NEW k \in Key, load_leases(file, Epoch)[k] # NoLease
             PROVE  \/ load_leases(file, Epoch)[k] = saved[k]
                    \/ /\ k = dummy_hwaddr /\ saved[k] # NoLease
                       /\ load_leases(file, Epoch)[k].ip = saved[k].ip
                       /\ load_leases(file, Epoch)[k].exp <= saved[k].exp
  BY DEF SaysSaved
<1>1. PICK i \in 1 .. Len(written) : written[i] = k /\ Accepted(file[i], Epoch)
  BY ClockAhead, LoadReads
<1>2. load_leases(file, Epoch)[k] = LeaseOf(file[i])
  BY <1>1, ClockAhead, LoadReads
<1>3. ReadsAs(i, Epoch)
  BY <1>1, ClockAhead, LineReads
<1>4. saved[k] # NoLease
  BY <1>1 DEF IInv, Contents
<1> QED
  BY <1>1, <1>2, <1>3, <1>4 DEF ReadsAs

LEMMA NothingMadeUpNext == IInv' => SaysSaved'
BY NothingMadeUp, PTL

LEMMA ServiceInit == Init => LS!Init
<1> SUFFICES ASSUME Init PROVE LS!Init
  OBVIOUS
<1>1. phase = "stopped" /\ file = <<>> /\ now \in Nat
  BY Times DEF Init
<1>2. \A k \in Key : load_leases(file, Epoch)[k] = NoLease
  <2> SUFFICES ASSUME NEW k \in Key PROVE load_leases(file, Epoch)[k] = NoLease
    OBVIOUS
  <2>1. LinesOf(k, Epoch) = {}
    BY <1>1 DEF LinesOf
  <2> QED
    BY <2>1, LoadIs
<1>3. load_leases(file, Epoch) = [k \in Key |-> load_leases(file, Epoch)[k]]
  BY DEF load_leases
<1>4. Book = load_leases(file, Epoch) /\ Kept = Book /\ Status = "closed"
  BY <1>1 DEF Book, Kept, Status
<1>5. sender = NoClient
  BY DEF Init
<1> QED
  BY <1>1, <1>2, <1>3, <1>4, <1>5 DEF LS!Init

LEMMA ServiceStep == IInv /\ IInv' /\ [Next]_vars => [LS!Next]_(LS!svars)
<1> SUFFICES ASSUME IInv, IInv', [Next]_vars PROVE LS!Next \/ UNCHANGED LS!svars
  OBVIOUS
<1>1. /\ leases \in Table /\ now \in Clock /\ now \in Nat /\ now' \in Nat
      /\ Book \in Table /\ Book' \in LS!Book
  BY BookType, BookTypeNext, Times DEF IInv, Types
<1>2. ASSUME NEW k \in Key, NEW a \in Address, Bind(k, a) \/ Park(k, a) PROVE LS!Next
  <2>1. /\ phase = "running" /\ UNCHANGED <<phase, now, file>>
        /\ sender' = k
    BY <1>2 DEF Bind, Park, Store
  <2>2. /\ Book = leases /\ Book' = leases' /\ Status = "open"
        /\ UNCHANGED <<Kept, Status>>
    BY <2>1 DEF Book, Kept, Status
  <2>3. CASE Park(k, a)
    <3>1. Book' = [Book EXCEPT ![dummy_hwaddr] = [ip |-> a, exp |-> UINT64_MAX]]
      BY <2>2, <2>3 DEF Park, Store
    <3>2. LS!Park
      BY <2>1, <2>2, <3>1 DEF LS!Park
    <3> QED
      BY <3>2 DEF LS!Next
  <2>4. CASE Bind(k, a)
    <3>1. PICK l \in Lifetime : leases' = [leases EXCEPT ![k] = [ip |-> a, exp |-> now + l]]
      BY <2>4 DEF Bind, Store
    <3>2. Book'[k] = [ip |-> a, exp |-> now' + l]
      BY <1>1, <2>1, <2>2, <3>1 DEF Table
    <3>3. \A j \in Key \ {k} : Book'[j] = Book[j]
      BY <1>1, <2>2, <3>1 DEF Table
    <3>4. LS!OnlyExpire(Key \ {k})
      BY <3>3 DEF LS!OnlyExpire, LS!Purged
    <3>5. LS!Serve(k)
      BY <1>1, <2>1, <2>2, <3>2, <3>4 DEF LS!Serve
    <3> QED
      BY <3>5 DEF LS!Next
  <2> QED
    BY <1>2, <2>3, <2>4
<1>3. CASE StopAndTruncate
  <2>1. /\ phase = "running" /\ phase' = "writing" /\ now' = now /\ sender' = NoClient
        /\ leases' = update_leases(leases, now)
    BY <1>3 DEF StopAndTruncate
  <2>2. /\ Book = leases /\ Status = "open"
        /\ Book' = leases' /\ Kept' = leases' /\ Status' = "closing"
    BY <2>1 DEF Book, Kept, Status
  <2>3. LS!OnlyExpire(Key)
    BY <2>1, <2>2 DEF update_leases, LS!OnlyExpire, LS!Purged
  <2>4. LS!Close
    BY <1>1, <2>1, <2>2, <2>3 DEF LS!Close
  <2> QED
    BY <2>4 DEF LS!Next
<1>4. CASE WriteLine
  <2>1. phase = "writing" /\ UNCHANGED <<phase, leases, now>> /\ sender' = NoClient
    BY <1>4 DEF WriteLine
  <2>2. UNCHANGED <<Book, Kept, Status>>
    BY <2>1 DEF Book, Kept, Status
  <2>3. LS!Pass
    BY <1>1, <2>1, <2>2 DEF LS!Pass
  <2> QED
    BY <2>3 DEF LS!Next
<1>5. CASE Exit
  <2>1. /\ phase = "writing" /\ Unwritten = {} /\ phase' = "stopped"
        /\ UNCHANGED <<file, now>> /\ leases = saved /\ sender' = NoClient
    BY <1>5 DEF Exit, IInv, Frozen
  <2>2. \A k \in LiveKeys(saved) : \E i \in 1 .. Len(written) : written[i] = k
    BY <2>1 DEF Unwritten, IInv, Types
  <2>3. load_leases(file, Epoch) =
          [k \in Key |-> IF saved[k] # NoLease /\ saved[k].exp < Epoch THEN NoLease ELSE saved[k]]
    BY <2>1, <2>2, ClockAhead, CompleteFile
  <2>4. \A k \in Key : ~ (saved[k] # NoLease /\ saved[k].exp < Epoch)
    <3> SUFFICES ASSUME NEW k \in Key, saved[k] # NoLease PROVE ~ (saved[k].exp < Epoch)
      OBVIOUS
    <3>1. saved[k].exp \in Nat /\ Epoch <= saved[k].exp /\ Epoch \in Nat
      BY TableEntry, Times DEF IInv, Types, Expiries, LiveKeys
    <3> QED
      BY <3>1
  <2>5. load_leases(file, Epoch) = saved
    BY <1>1, <2>1, <2>3, <2>4 DEF Table
  <2>6. /\ Book = leases /\ Kept = leases /\ Status = "closing"
        /\ Book' = load_leases(file, Epoch) /\ Kept' = Book' /\ Status' = "closed"
    BY <2>1 DEF Book, Kept, Status
  <2>7. LS!Closed
    BY <2>1, <2>5, <2>6 DEF LS!Closed
  <2> QED
    BY <2>7 DEF LS!Next
<1>6. CASE Crash
  <2>1. phase' = "crashed" /\ now' = now /\ sender' = NoClient /\ saved' = saved
    BY <1>6 DEF Crash
  <2>2. Book' = load_leases(file', Epoch) /\ Kept' = Book' /\ Status' = "down"
    BY <2>1 DEF Book, Kept, Status
  <2>3. CASE phase = "running"
    <3>1. file' = file
      BY <1>6, <2>3 DEF Crash
    <3>2. Kept = load_leases(file, Epoch) /\ Status = "open"
      BY <2>3 DEF Kept, Status
    <3>3. LS!Fail
      BY <1>1, <2>1, <2>2, <3>1, <3>2 DEF LS!Fail
    <3> QED
      BY <3>3 DEF LS!Next
  <2>4. CASE phase = "writing"
    <3>1. Kept = saved /\ Status = "closing"
      BY <2>4 DEF Kept, Status, IInv, Frozen
    <3>2. SaysSaved'
      BY NothingMadeUpNext
    <3>3. \A k \in Key : LS!Remains(k, Book'[k])
      BY <2>1, <2>2, <3>1, <3>2 DEF SaysSaved, LS!Remains
    <3>4. LS!Fail
      BY <1>1, <2>1, <2>2, <3>1, <3>3 DEF LS!Fail
    <3> QED
      BY <3>4 DEF LS!Next
  <2> QED
    BY <1>6, <2>3, <2>4 DEF Crash
<1>7. CASE Start
  <2>1. /\ phase \in {"stopped", "crashed"} /\ phase' = "running" /\ now' = now
        /\ leases' = load_leases(file, now) /\ file' = file /\ sender' = NoClient
    BY <1>7 DEF Start
  <2>2. /\ Book = load_leases(file, Epoch) /\ Status \in {"closed", "down"}
        /\ Book' = load_leases(file, now) /\ UNCHANGED Kept /\ Status' = "open"
    BY <2>1 DEF Book, Kept, Status
  <2>3. \A k \in Key : Book'[k] \in LS!Purged(Book[k])
    <3> SUFFICES ASSUME NEW k \in Key PROVE Book'[k] \in LS!Purged(Book[k])
      OBVIOUS
    <3>1. now \in Ahead
      BY <1>1, ClockAhead
    <3>2. load_leases(file, now)[k] \in
            {load_leases(file, Epoch)[k]} \cup
            (IF load_leases(file, Epoch)[k] # NoLease /\ load_leases(file, Epoch)[k].exp <= now
             THEN {NoLease} ELSE {})
      BY <3>1, LoadLater
    <3> QED
      BY <2>2, <3>2, Zenon DEF LS!Purged
  <2>4. LS!Open
    BY <1>1, <2>1, <2>2, <2>3 DEF LS!Open, LS!OnlyExpire
  <2> QED
    BY <2>4 DEF LS!Next
<1>8. CASE Tick
  <2>1. now' = now + 1 /\ UNCHANGED <<Book, Kept, Status>> /\ sender' = NoClient
    BY <1>8 DEF Tick, Book, Kept, Status
  <2>2. LS!Pass
    BY <1>1, <2>1 DEF LS!Pass
  <2> QED
    BY <2>2 DEF LS!Next
<1>9. CASE UNCHANGED vars
  BY <1>9 DEF vars, Book, Kept, Status, LS!svars
<1> QED
  BY <1>2, <1>3, <1>4, <1>5, <1>6, <1>7, <1>8, <1>9 DEF Next

-----------------------------------------------------------------------------
(* Results.                                                                *)

\* What write_leases has printed before the daemon exits, load_leases reads: every lease
\* with its address and its expiry, whatever the table held and whenever the daemon
\* starts again.
THEOREM StopReadsBack == Spec => []CleanStopReadsBack
  BY Invariance, StopSafe, PTL

\* Wherever the process dies in write_leases, load_leases makes up no lease from what is
\* left of the file and loses only the last ones.
THEOREM CutIsHarmless == Spec => []CutLosesOnlyTheTail
  BY Invariance, CutSafe, PTL

\* The lease table with its file of characters, restarts and crashes included, implements
\* LeaseService: print, stop, start and parse takes no live lease from a client and gives
\* none to another.  A crash of the running daemon brings back what the text said, and a
\* crash at any character of write_leases some of the leases it was printing, unaltered
\* but for the expiry of the parked address, which may come out earlier.
THEOREM TextImplementsService == Spec => TextServiceSpec
  BY Invariance, ServiceInit, ServiceStep, PTL DEF Spec, TextServiceSpec, LS!Spec
=============================================================================
