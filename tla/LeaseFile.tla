----------------------------- MODULE LeaseFile ------------------------------
(***************************************************************************)
(* The text of the lease file (src/daemon.cpp): write_leases prints one    *)
(* line per lease, load_leases parses them after the next start.  Module   *)
(* Daemon treats the file as a table; here a line is made of characters,   *)
(* so that a crash can cut the text anywhere, inside a number too.  The    *)
(* loop of write_leases is a step for each line.                           *)
(***************************************************************************)
EXTENDS Integers, Sequences, FiniteSets, FiniteSetsExt

CONSTANTS
  Hex, Dec,           \* the two number bases (16 and 10 in the program)
  Octets,             \* octets of a hardware address (16), of which the values are Octet
  Octet,
  Address,            \* addresses of two octets below Radix
  Radix,
  Epoch,              \* the first time of as many digits as the clock has (10^9)
  Clock,              \* the times the system clock can show
  Lifetime,           \* how long a lease may last
  UINT64_MAX,
  NoLease, NoClient,
  MaxLeases           \* bound: leases in the table

Key == [1 .. Octets -> Octet]
dummy_hwaddr == [i \in 1 .. Octets |-> 0]
Lease == [ip : Address, exp : Nat]
NoLeases == [k \in Key |-> NoLease]

\* Characters: digits are their values.
Colon == -1
Delimiter == -2
Dot == -3

\* The clock and every expiry but UINT64_MAX have as many digits as Epoch (ten, from 2001
\* to 2286), more than an octet of an address has.
ASSUME LeaseFileAssumption ==
  /\ Hex \in Nat \ {0, 1} /\ Dec \in Nat \ {0, 1} /\ Radix \in Nat \ {0, 1}
  /\ Octets \in Nat \ {0} /\ Octet \subseteq Nat /\ 0 \in Octet
  /\ Address \subseteq 0 .. (Radix * Radix - 1)
  /\ Epoch \in Nat /\ Clock \subseteq Nat /\ Lifetime \subseteq Nat /\ UINT64_MAX \in Nat
  /\ NoLease \notin Lease /\ NoClient \notin Key
  /\ \A t \in Clock : Epoch <= t /\ \A l \in Lifetime : t + l < Epoch * Dec
  /\ Radix <= Epoch

VARIABLES
  phase,    \* "running", "writing", "stopped", "crashed"
  leases,   \* _active_leases
  file,     \* the lines of the file, the last perhaps cut short
  written,  \* how far the loop of write_leases has come: the keys of these lines
  saved,    \* history: the table the last write_leases had to write
  now,
  sender    \* history: the client whose message the last step handled, or NoClient

vars == <<phase, leases, file, written, saved, now, sender>>

LiveKeys(L) == {k \in Key : L[k] # NoLease}

\* std::map order on std::array<uint8_t, 16>.
KeyLess(j, k) ==
  \E i \in 1 .. Octets : j[i] < k[i] /\ \A h \in 1 .. (i - 1) : j[h] = k[h]

update_leases(L, t) ==
  [k \in Key |-> IF L[k] # NoLease /\ L[k].exp <= t THEN NoLease ELSE L[k]]

-----------------------------------------------------------------------------
(* Text.                                                                   *)

\* A number as printf and operator<< print it: no leading zeros.
Digits(n, base) ==
  LET print[i \in 0 .. n] ==
        IF i < base THEN <<i>> ELSE Append(print[i \div base], i % base)
  IN  print[n]

\* The number the first n characters of s stand for, if they are digits.
Number(s, base, n) ==
  LET value[i \in 0 .. n] == IF i = 0 THEN 0 ELSE value[i - 1] * base + s[i]
  IN  value[n]

\* strtoul and strtol: the value of the digits in front, 0 if there is none.
strtoul(s, base) ==
  Number(s, base, Max({i \in 0 .. Len(s) : \A j \in 1 .. i : s[j] \in 0 .. (base - 1)}))

\* find_first_of: where behind position i the next character c is, or the end of s.
Find(s, i, c) ==
  LET places == {j \in (i + 1) .. Len(s) : s[j] = c}
  IN  IF places = {} THEN Len(s) + 1 ELSE Min(places)

\* The part of s behind position i and before the next character c, or to the end.
Field(s, i, c) == SubSeq(s, i + 1, Find(s, i, c) - 1)

inet_ntoa(a) == Digits(a \div Radix, Dec) \o <<Dot>> \o Digits(a % Radix, Dec)

inet_aton(s) ==
  strtoul(s, Dec) * Radix + strtoul(SubSeq(s, Find(s, 0, Dot) + 1, Len(s)), Dec)

HwText_Decimal(k) ==
  LET text[i \in 0 .. Octets] ==
        IF i = 0 THEN <<>> ELSE text[i - 1] \o Append(Digits(k[i], Dec), Colon)
  IN  text[Octets]

\* Every octet is followed by a colon, the last one too.
HwText(k) ==
  LET text[i \in 0 .. Octets] ==
        IF i = 0 THEN <<>> ELSE text[i - 1] \o Append(Digits(k[i], Hex), Colon)
  IN  text[Octets]

Line(k, lease) ==
  HwText(k) \o <<Delimiter>> \o inet_ntoa(lease.ip) \o <<Delimiter>> \o Digits(lease.exp, Dec)

-----------------------------------------------------------------------------
(* load_leases.                                                            *)

Delimiters(line) == {i \in DOMAIN line : line[i] = Delimiter}

\* What follows the last delimiter.
Timestamp(line) == strtoul(SubSeq(line, Max(Delimiters(line)) + 1, Len(line)), Dec)

\* The octets that end with a colon; an octet the line does not have stays unset.
hwaddr(line) ==
  LET text == Field(line, 0, Delimiter)
      colon[i \in 0 .. Octets] == IF i = 0 THEN 0 ELSE Find(text, colon[i - 1], Colon)
  IN  [i \in 1 .. Octets |->
         IF colon[i] <= Len(text)
         THEN strtoul(SubSeq(text, colon[i - 1] + 1, colon[i] - 1), Hex) ELSE 0]

\* A line without a delimiter or with a time that has passed is skipped.
Accepted(line, t) == Delimiters(line) # {} /\ Timestamp(line) >= t

\* The line's address is between the first delimiter and the last.
LeaseOf(line) ==
  [ip |-> inet_aton(Field(line, Min(Delimiters(line)), Delimiter)), exp |-> Timestamp(line)]

\* A later line for a key replaces an earlier one.
load_leases(f, t) ==
  LET lines(k) == {i \in DOMAIN f : Accepted(f[i], t) /\ hwaddr(f[i]) = k}
  IN  [k \in Key |-> IF lines(k) = {} THEN NoLease ELSE LeaseOf(f[Max(lines(k))])]

-----------------------------------------------------------------------------
(* The life of the file.                                                   *)

\* A handler stores the lease of client k, or parks an address that client k declines
\* under the all-zero key.  (A client whose own address is all zero shares that key.)
Store(k, lease) ==
  /\ phase = "running"
  /\ leases[k] # NoLease \/ Cardinality(LiveKeys(leases)) < MaxLeases
  /\ leases' = [leases EXCEPT ![k] = lease]
  /\ UNCHANGED <<phase, file, written, saved, now>>

Bind(k, a) ==
  /\ \E l \in Lifetime : Store(k, [ip |-> a, exp |-> now + l])
  /\ sender' = k

Park(k, a) ==
  /\ Store(dummy_hwaddr, [ip |-> a, exp |-> UINT64_MAX])
  /\ sender' = k

\* write_leases opens the file, which truncates it, and purges the table.
StopAndTruncate ==
  /\ phase = "running"
  /\ phase' = "writing"
  /\ file' = <<>> /\ written' = <<>>
  /\ leases' = update_leases(leases, now)
  /\ saved' = leases'
  /\ sender' = NoClient
  /\ UNCHANGED now

Unwritten == {k \in LiveKeys(leases) : \A i \in DOMAIN written : written[i] # k}

IsNext_Backwards(k) == k \in Unwritten /\ \A j \in Unwritten : j = k \/ KeyLess(j, k)

\* The loop visits the keys in the order of the map.
IsNext(k) == k \in Unwritten /\ \A j \in Unwritten : j = k \/ KeyLess(k, j)

WriteLine ==
  /\ phase = "writing"
  /\ \E k \in Unwritten :
       /\ IsNext(k)
       /\ file' = Append(file, Line(k, leases[k]))
       /\ written' = Append(written, k)
  /\ sender' = NoClient
  /\ UNCHANGED <<phase, leases, saved, now>>

Exit ==
  /\ phase = "writing" /\ Unwritten = {}
  /\ phase' = "stopped"
  /\ leases' = NoLeases
  /\ sender' = NoClient
  /\ UNCHANGED <<file, written, saved, now>>

\* The process dies; inside write_leases n characters of a line may be all that is left
\* of it.
Crash ==
  /\ \/ phase \in {"running", "writing"} /\ UNCHANGED <<file, written>>
     \/ /\ phase = "writing"
        /\ \E k \in Unwritten : \E n \in 0 .. Len(Line(k, leases[k])) :
             /\ IsNext(k)
             /\ file' = Append(file, SubSeq(Line(k, leases[k]), 1, n))
             /\ written' = Append(written, k)
  /\ phase' = "crashed"
  /\ leases' = NoLeases
  /\ sender' = NoClient
  /\ UNCHANGED <<saved, now>>

Start ==
  /\ phase \in {"stopped", "crashed"}
  /\ phase' = "running"
  /\ leases' = load_leases(file, now)
  /\ sender' = NoClient
  /\ UNCHANGED <<file, written, saved, now>>

Tick ==
  /\ now + 1 \in Clock
  /\ now' = now + 1
  /\ sender' = NoClient
  /\ UNCHANGED <<phase, leases, file, written, saved>>

Init ==
  /\ phase = "stopped"
  /\ leases = NoLeases /\ file = <<>> /\ written = <<>> /\ saved = NoLeases
  /\ now \in Clock /\ sender = NoClient

Next ==
  \/ \E k \in Key, a \in Address : Bind(k, a) \/ Park(k, a)
  \/ StopAndTruncate \/ WriteLine \/ Exit \/ Crash \/ Start \/ Tick

Spec == Init /\ [][Next]_vars

-----------------------------------------------------------------------------
(* Properties.                                                             *)

\* A clean stop loses nothing: whenever the daemon starts again, load_leases reads back
\* from the text exactly the leases the table had, less those that have expired.
CleanStopReadsBack ==
  phase = "stopped" =>
    \A t \in Clock :
      load_leases(file, t) =
        [k \in Key |-> IF saved[k] # NoLease /\ saved[k].exp < t THEN NoLease ELSE saved[k]]

\* The leases of the first keys of the table.
FirstLeases(S, L) ==
  /\ S \subseteq LiveKeys(L)
  /\ \A k \in S, j \in LiveKeys(L) : KeyLess(j, k) => j \in S

\* Wherever a crash cuts the text, inside a number or an address too, load_leases makes
\* no lease up: it reads the leases of the first keys as they were written, and of
\* the line that was cut nothing.  Only the expiry of the parked address, which has more
\* digits than the clock, may lose digits and still lie ahead.  This is what Crash and
\* WrittenPrefix of module Daemon rest on.
CutLosesOnlyTheTail ==
  \E S \in SUBSET LiveKeys(saved) :
    /\ FirstLeases(S, saved)
    /\ \A t \in Clock :
         LET L == load_leases(file, t)
         IN  /\ LiveKeys(L) \subseteq S
             /\ \A k \in S \ {dummy_hwaddr} : saved[k].exp >= t => L[k] = saved[k]
             /\ L[dummy_hwaddr] # NoLease =>
                  /\ L[dummy_hwaddr].ip = saved[dummy_hwaddr].ip
                  /\ L[dummy_hwaddr].exp <= saved[dummy_hwaddr].exp
=============================================================================
