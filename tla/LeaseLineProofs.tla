-------------------------- MODULE LeaseLineProofs ---------------------------
(***************************************************************************)
(* What load_leases makes of a line that write_leases has printed, and of  *)
(* the beginning of one.                                                   *)
(***************************************************************************)
EXTENDS LeaseTextProofs

-----------------------------------------------------------------------------
(* Printing a hardware address.                                            *)

Printed(k, i) == Append(Digits(k[i], Hex), Colon)

IsText(f, k, n) == f = [i \in 0 .. n |-> IF i = 0 THEN <<>> ELSE f[i - 1] \o Printed(k, i)]

LEMMA HwTextIs == ASSUME NEW k PROVE HwText(k) = (CHOOSE f : IsText(f, k, Octets))[Octets]
  BY Zenon DEF HwText, IsText, Printed

LEMMA TextFirst ==
  ASSUME NEW k, NEW n \in Nat, NEW f, IsText(f, k, n) PROVE f[0] = <<>>
  BY DEF IsText

LEMMA TextNext ==
  ASSUME NEW k, NEW n \in Nat, NEW f, IsText(f, k, n)
  PROVE  \A i \in 1 .. n : f[i] = f[i - 1] \o Printed(k, i)
<1> SUFFICES ASSUME NEW i \in 1 .. n PROVE f[i] = f[i - 1] \o Printed(k, i)
  OBVIOUS
<1>1. i \in 0 .. n /\ i # 0
  OBVIOUS
<1> DEFINE h == [j \in 0 .. n |-> IF j = 0 THEN <<>> ELSE f[j - 1] \o Printed(k, j)]
<1>2. f = h
  BY DEF IsText
<1>3. h[i] = f[i - 1] \o Printed(k, i)
  BY <1>1, Zenon
<1> HIDE DEF h
<1> QED
  BY <1>2, <1>3, Zenon

\* The recursive definition of HwText has a solution.
LEMMA TextExists == ASSUME NEW k, NEW n \in Nat PROVE \E f : IsText(f, k, n)
<1> DEFINE T == {m \in Nat : ~ \E f : IsText(f, k, m)}
<1> SUFFICES ASSUME T # {} PROVE FALSE
  OBVIOUS
<1>1. PICK m \in T : \A y \in T : m <= y
  BY LeastNumber
<1>2. CASE m = 0
  <2> DEFINE f == [i \in 0 .. 0 |-> <<>>]
  <2>1. IsText(f, k, 0)
    BY DEF IsText
  <2> QED
    BY <1>2, <2>1
<1>3. CASE m # 0
  <2>1. m \in Nat /\ m - 1 \in Nat /\ m - 1 \notin T
    BY <1>1, <1>3
  <2>2. PICK g : IsText(g, k, m - 1)
    BY <2>1
  <2> DEFINE f == [i \in 0 .. m |-> IF i < m THEN g[i] ELSE g[m - 1] \o Printed(k, m)]
             h == [i \in 0 .. m |-> IF i = 0 THEN <<>> ELSE f[i - 1] \o Printed(k, i)]
  <2>3. ASSUME NEW i \in 0 .. m PROVE f[i] = h[i]
    <3>1. g[0] = <<>>
      BY <2>1, <2>2, TextFirst, Zenon
    <3>2. \A j \in 1 .. (m - 1) : g[j] = g[j - 1] \o Printed(k, j)
      BY <2>1, <2>2, TextNext, Zenon
    <3>3. i # 0 => f[i - 1] = g[i - 1]
      BY <2>1
    <3>4. i < m => f[i] = g[i]
      BY <2>1
    <3>5. i = m => f[i] = g[i - 1] \o Printed(k, i)
      BY <2>1
    <3>6. h[i] = IF i = 0 THEN <<>> ELSE f[i - 1] \o Printed(k, i)
      OBVIOUS
    <3> HIDE DEF f, h
    <3>7. CASE i = 0
      BY <1>3, <2>1, <3>1, <3>4, <3>6, <3>7
    <3>8. CASE i # 0 /\ i < m
      <4>1. i \in 1 .. (m - 1)
        BY <2>1, <3>8
      <4> QED
        BY <3>2, <3>3, <3>4, <3>6, <3>8, <4>1, Zenon
    <3>9. CASE i # 0 /\ i = m
      BY <3>3, <3>5, <3>6, <3>9, Zenon
    <3> QED
      BY <2>1, <3>7, <3>8, <3>9
  <2>4. IsText(f, k, m)
    BY <2>3 DEF IsText
  <2> QED
    BY <2>4
<1> QED
  BY <1>2, <1>3

LEMMA PrintedText ==
  ASSUME NEW k \in Key, NEW i \in 1 .. Octets
  PROVE  LET d == Digits(k[i], Hex)  p == Printed(k, i)
         IN  /\ k[i] \in Nat /\ d \in Seq(Int) /\ Len(d) \in Nat
             /\ p \in Seq(Int) /\ Len(p) = Len(d) + 1
             /\ \A j \in 1 .. Len(d) : p[j] = d[j] /\ p[j] # Colon
             /\ p[Len(d) + 1] = Colon
             /\ \A j \in 1 .. Len(p) : p[j] # Delimiter
<1> DEFINE d == Digits(k[i], Hex)  p == Printed(k, i)
<1>1. k[i] \in Nat
  BY Constants DEF Key
<1>2. /\ d \in Seq(Int) /\ Len(d) \in Nat
      /\ \A j \in 1 .. Len(d) : d[j] \in Int /\ d[j] \notin {Colon, Delimiter, Dot}
  BY <1>1, Constants, DigitsText
<1>3. p = Append(d, Colon)
  BY DEF Printed
<1> HIDE DEF d, p
<1>4. /\ p \in Seq(Int) /\ Len(p) = Len(d) + 1
      /\ \A j \in 1 .. Len(d) : p[j] = d[j]
      /\ p[Len(d) + 1] = Colon
  BY <1>2, <1>3, Separators
<1>5. \A j \in 1 .. Len(p) : p[j] # Delimiter
  <2>1. Colon # Delimiter
    BY DEF Colon, Delimiter
  <2>2. \A j \in 1 .. Len(p) : j \in 1 .. Len(d) \/ j = Len(d) + 1
    BY <1>2, <1>4
  <2> QED
    BY <1>2, <1>4, <2>1, <2>2
<1> QED
  BY <1>1, <1>2, <1>4, <1>5 DEF d, p

\* The text after each octet.
Texts(t, k) ==
  /\ t[0] = <<>>
  /\ \A i \in 1 .. Octets : t[i] = t[i - 1] \o Printed(k, i)

LEMMA TextsOf == ASSUME NEW k PROVE \E t : Texts(t, k) /\ HwText(k) = t[Octets]
<1> DEFINE t == CHOOSE f : IsText(f, k, Octets)
<1>1. Octets \in Nat
  BY Constants
<1>2. IsText(t, k, Octets)
  BY <1>1, TextExists
<1>3. HwText(k) = t[Octets]
  BY HwTextIs
<1> HIDE DEF t
<1>4. t[0] = <<>>
  BY <1>1, <1>2, TextFirst, Zenon
<1>5. \A i \in 1 .. Octets : t[i] = t[i - 1] \o Printed(k, i)
  BY <1>1, <1>2, TextNext, Zenon
<1> QED
  BY <1>3, <1>4, <1>5, Zenon DEF Texts

LEMMA TextsType ==
  ASSUME NEW k \in Key, NEW t, Texts(t, k), NEW n \in 0 .. Octets
  PROVE  /\ t[n] \in Seq(Int) /\ Len(t[n]) \in Nat
         /\ \A j \in 1 .. Len(t[n]) : t[n][j] # Delimiter
<1> DEFINE OK(m) == t[m] \in Seq(Int) /\ \A j \in 1 .. Len(t[m]) : t[m][j] # Delimiter
           T == {m \in 0 .. Octets : ~ OK(m)}
<1>0. T \subseteq Nat /\ Octets \in Nat
  BY Constants
<1>1. T = {}
  <2> SUFFICES ASSUME T # {} PROVE FALSE
    OBVIOUS
  <2>1. PICK m \in T : \A y \in T : m <= y
    BY <1>0, LeastNumber
  <2>2. m \in 0 .. Octets /\ ~ OK(m)
    BY <2>1
  <2>3. m # 0 => OK(m - 1) /\ m \in 1 .. Octets
    BY <1>0, <2>1, <2>2
  <2> HIDE DEF T
  <2>4. m # 0
    <3> SUFFICES ASSUME m = 0 PROVE FALSE
      OBVIOUS
    <3>1. t[m] = <<>>
      BY DEF Texts
    <3> QED
      BY <2>2, <3>1
  <2> DEFINE x == t[m - 1]  p == Printed(k, m)
  <2>5. t[m] = x \o p
    BY <2>3, <2>4 DEF Texts
  <2>6. x \in Seq(Int) /\ \A j \in 1 .. Len(x) : x[j] # Delimiter
    BY <2>3, <2>4
  <2>7. p \in Seq(Int) /\ \A j \in 1 .. Len(p) : p[j] # Delimiter
    BY <2>3, <2>4, PrintedText
  <2> HIDE DEF x, p
  <2>8. /\ x \o p \in Seq(Int) /\ Len(x \o p) = Len(x) + Len(p)
        /\ \A i \in 1 .. Len(x) : (x \o p)[i] = x[i]
        /\ \A i \in 1 .. Len(p) : (x \o p)[Len(x) + i] = p[i]
    BY <2>6, <2>7, Concatenated
  <2> DEFINE z == x \o p
  <2> HIDE DEF z
  <2>9. ASSUME NEW j \in 1 .. Len(z) PROVE z[j] # Delimiter
    <3>1. Len(x) \in Nat /\ Len(p) \in Nat /\ Len(z) = Len(x) + Len(p)
      BY <2>6, <2>7, <2>8 DEF z
    <3>2. j \in 1 .. Len(x) \/ j - Len(x) \in 1 .. Len(p)
      BY <3>1
    <3>3. CASE j \in 1 .. Len(x)
      BY <2>6, <2>8, <3>3 DEF z
    <3>4. CASE j - Len(x) \in 1 .. Len(p)
      <4>1. j = Len(x) + (j - Len(x))
        BY <3>1
      <4>2. z[j] = p[j - Len(x)]
        BY <2>8, <3>4, <4>1, Zenon DEF z
      <4> QED
        BY <2>7, <3>4, <4>2
    <3> QED
      BY <3>2, <3>3, <3>4
  <2> QED
    BY <2>2, <2>5, <2>8, <2>9 DEF z
<1>2. OK(n)
  BY <1>1
<1> QED
  BY <1>2

\* Each text is the beginning of the next ones.
LEMMA TextsGrow ==
  ASSUME NEW k \in Key, NEW t, Texts(t, k), NEW i \in 0 .. Octets, NEW n \in i .. Octets
  PROVE  Len(t[i]) <= Len(t[n]) /\ \A j \in 1 .. Len(t[i]) : t[n][j] = t[i][j]
<1> DEFINE OK(m) == Len(t[i]) <= Len(t[m]) /\ \A j \in 1 .. Len(t[i]) : t[m][j] = t[i][j]
           T == {m \in i .. Octets : ~ OK(m)}
<1>0. T \subseteq Nat /\ Octets \in Nat /\ i \in Nat /\ n \in Nat
  BY Constants
<1>1. T = {}
  <2> SUFFICES ASSUME T # {} PROVE FALSE
    OBVIOUS
  <2>1. PICK m \in T : \A y \in T : m <= y
    BY <1>0, LeastNumber
  <2>2. m \in i .. Octets /\ ~ OK(m) /\ m \in Nat
    BY <1>0, <2>1
  <2>3. m # i => OK(m - 1) /\ m \in 1 .. Octets /\ m - 1 \in 0 .. Octets
    BY <1>0, <2>1, <2>2
  <2> HIDE DEF T
  <2>4. m # i
    <3>1. Len(t[i]) \in Nat
      BY TextsType
    <3> QED
      BY <2>2, <3>1
  <2> DEFINE x == t[m - 1]  p == Printed(k, m)
  <2>5. t[m] = x \o p
    BY <2>3, <2>4 DEF Texts
  <2>6. x \in Seq(Int) /\ Len(x) \in Nat /\ Len(t[i]) \in Nat
    BY <2>3, <2>4, TextsType
  <2>7. p \in Seq(Int)
    BY <2>3, <2>4, PrintedText
  <2>8. OK(m - 1)
    BY <2>3, <2>4
  <2> HIDE DEF p
  <2>9. /\ Len(t[m]) = Len(x) + Len(p)
        /\ \A j \in 1 .. Len(x) : t[m][j] = x[j]
    BY <2>5, <2>6, <2>7, Concatenated
  <2>10. Len(p) \in Nat
    BY <2>7
  <2>11. Len(t[i]) <= Len(x) /\ \A j \in 1 .. Len(t[i]) : x[j] = t[i][j]
    BY <2>8
  <2> HIDE DEF x
  <2>12. OK(m)
    BY <2>6, <2>9, <2>10, <2>11
  <2> QED
    BY <2>2, <2>12
<1>2. OK(n)
  BY <1>1
<1> QED
  BY <1>2

\* Where an octet is in the text.
OctetAt(s, t, k, i) ==
  LET d == Digits(k[i], Hex)  a == Len(t[i - 1])
  IN  /\ a \in Nat /\ Len(d) \in Nat /\ Len(t[i]) = a + Len(d) + 1
      /\ s \in Seq(Int) /\ Len(s) \in Nat /\ a + Len(d) + 1 <= Len(s)
      /\ \A j \in 1 .. Len(d) : s[a + j] = d[j] /\ s[a + j] # Colon
      /\ s[a + Len(d) + 1] = Colon

LEMMA OctetPlace ==
  ASSUME NEW k \in Key, NEW t, Texts(t, k), NEW i \in 1 .. Octets
  PROVE  OctetAt(t[Octets], t, k, i)
<1> DEFINE s == t[Octets]  d == Digits(k[i], Hex)  a == Len(t[i - 1])  x == t[i - 1]
           p == Printed(k, i)  y == t[i]
<1>1. Octets \in Nat /\ i - 1 \in 0 .. Octets /\ i \in 0 .. Octets /\ Octets \in i .. Octets
      /\ Octets \in 0 .. Octets
  BY Constants
<1>2. /\ s \in Seq(Int) /\ Len(s) \in Nat /\ x \in Seq(Int) /\ a \in Nat
      /\ y \in Seq(Int) /\ Len(y) \in Nat
  BY <1>1, TextsType, Zenon
<1>3. /\ d \in Seq(Int) /\ Len(d) \in Nat
      /\ p \in Seq(Int) /\ Len(p) = Len(d) + 1
      /\ \A j \in 1 .. Len(d) : p[j] = d[j] /\ p[j] # Colon
      /\ p[Len(d) + 1] = Colon
  BY PrintedText
<1>4. y = x \o p
  BY DEF Texts
<1>5. Len(y) <= Len(s) /\ \A j \in 1 .. Len(y) : s[j] = y[j]
  BY <1>1, TextsGrow
<1>6. a = Len(x)
  OBVIOUS
<1> HIDE DEF s, d, a, x, p, y
<1>7. /\ Len(y) = a + Len(p)
      /\ \A j \in 1 .. Len(p) : y[a + j] = p[j]
  <2>1. x \in Seq(Int) /\ p \in Seq(Int)
    BY <1>2, <1>3
  <2> QED
    BY <1>4, <1>6, <2>1, Concatenated
<1>8. Len(y) = a + Len(d) + 1
  BY <1>2, <1>3, <1>7
<1>9. \A j \in 1 .. Len(p) : s[a + j] = p[j]
  <2>1. \A j \in 1 .. Len(p) : a + j \in 1 .. Len(y)
    BY <1>2, <1>3, <1>8
  <2> QED
    BY <1>5, <1>7, <2>1
<1>10. \A j \in 1 .. Len(d) : s[a + j] = d[j] /\ s[a + j] # Colon
  <2>1. \A j \in 1 .. Len(d) : j \in 1 .. Len(p)
    BY <1>3
  <2> QED
    BY <1>3, <1>9, <2>1
<1>11. s[a + Len(d) + 1] = Colon
  <2>1. Len(d) + 1 \in 1 .. Len(p) /\ a + (Len(d) + 1) = a + Len(d) + 1
    BY <1>2, <1>3
  <2> QED
    BY <1>3, <1>9, <2>1
<1> QED
  BY <1>2, <1>3, <1>5, <1>8, <1>10, <1>11 DEF s, d, a, x, y, OctetAt

-----------------------------------------------------------------------------
(* Reading it back.                                                        *)

IsColon(f, s, n) == f = [i \in 0 .. n |-> IF i = 0 THEN 0 ELSE Find(s, f[i - 1], Colon)]

LEMMA ColonFirst ==
  ASSUME NEW s, NEW n \in Nat, NEW f, IsColon(f, s, n) PROVE f[0] = 0
  BY DEF IsColon

LEMMA ColonNext ==
  ASSUME NEW s, NEW n \in Nat, NEW f, IsColon(f, s, n)
  PROVE  \A i \in 1 .. n : f[i] = Find(s, f[i - 1], Colon)
  BY DEF IsColon

\* So has that of the colons in hwaddr.
LEMMA ColonExists == ASSUME NEW s, NEW n \in Nat PROVE \E f : IsColon(f, s, n)
<1> DEFINE T == {m \in Nat : ~ \E f : IsColon(f, s, m)}
<1> SUFFICES ASSUME T # {} PROVE FALSE
  OBVIOUS
<1>1. PICK m \in T : \A y \in T : m <= y
  BY LeastNumber
<1>2. CASE m = 0
  <2> DEFINE f == [i \in 0 .. 0 |-> 0]
  <2>1. IsColon(f, s, 0)
    BY DEF IsColon
  <2> QED
    BY <1>2, <2>1
<1>3. CASE m # 0
  <2>1. m \in Nat /\ m - 1 \in Nat /\ m - 1 \notin T
    BY <1>1, <1>3
  <2>2. PICK g : IsColon(g, s, m - 1)
    BY <2>1
  <2> DEFINE f == [i \in 0 .. m |-> IF i < m THEN g[i] ELSE Find(s, g[m - 1], Colon)]
             h == [i \in 0 .. m |-> IF i = 0 THEN 0 ELSE Find(s, f[i - 1], Colon)]
  <2>3. ASSUME NEW i \in 0 .. m PROVE f[i] = h[i]
    <3>1. g[0] = 0
      BY <2>1, <2>2, ColonFirst, Zenon
    <3>2. \A j \in 1 .. (m - 1) : g[j] = Find(s, g[j - 1], Colon)
      BY <2>1, <2>2, ColonNext, Zenon
    <3>3. i # 0 => f[i - 1] = g[i - 1]
      BY <2>1
    <3>4. i < m => f[i] = g[i]
      BY <2>1
    <3>5. i = m => f[i] = Find(s, g[i - 1], Colon)
      BY <2>1
    <3>6. h[i] = IF i = 0 THEN 0 ELSE Find(s, f[i - 1], Colon)
      OBVIOUS
    <3> HIDE DEF f, h
    <3> QED
      BY <1>3, <2>1, <3>1, <3>2, <3>3, <3>4, <3>5, <3>6
  <2>4. IsColon(f, s, m)
    BY <2>3 DEF IsColon
  <2> QED
    BY <2>4
<1> QED
  BY <1>2, <1>3

\* The colons are where the texts end.
LEMMA ColonsAre ==
  ASSUME NEW k \in Key, NEW t, Texts(t, k), NEW c, IsColon(c, t[Octets], Octets),
         NEW n \in 0 .. Octets
  PROVE  c[n] = Len(t[n])
<1> DEFINE T == {m \in 0 .. Octets : c[m] # Len(t[m])}
           s == t[Octets]
<1>0. T \subseteq Nat /\ Octets \in Nat
  BY Constants
<1>1. T = {}
  <2> SUFFICES ASSUME T # {} PROVE FALSE
    OBVIOUS
  <2>1. PICK m \in T : \A y \in T : m <= y
    BY <1>0, LeastNumber
  <2>2. m \in 0 .. Octets /\ c[m] # Len(t[m])
    BY <2>1
  <2>3. m # 0 => c[m - 1] = Len(t[m - 1]) /\ m \in 1 .. Octets
    BY <1>0, <2>1, <2>2
  <2> HIDE DEF T, s
  <2>4. CASE m = 0
    <3>1. t[m] = <<>>
      BY <2>4 DEF Texts
    <3>2. c[0] = 0
      BY <1>0, ColonFirst, Zenon
    <3> QED
      BY <2>2, <2>4, <3>1, <3>2
  <2>5. CASE m # 0
    <3> DEFINE d == Digits(k[m], Hex)  a == Len(t[m - 1])  p == a + Len(d) + 1
    <3>1. /\ a \in Nat /\ Len(d) \in Nat /\ Len(t[m]) = p
          /\ s \in Seq(Int) /\ Len(s) \in Nat /\ p <= Len(s)
          /\ \A j \in 1 .. Len(d) : s[a + j] = d[j] /\ s[a + j] # Colon
          /\ s[p] = Colon
      <4>1. m \in 1 .. Octets
        BY <2>3, <2>5
      <4>2. OctetAt(s, t, k, m)
        BY <4>1, OctetPlace DEF s
      <4> QED
        BY <4>2, Zenon DEF OctetAt
    <3>2. c[m] = Find(s, a, Colon)
      <4>1. \A i \in 1 .. Octets : c[i] = Find(s, c[i - 1], Colon)
        BY <1>0, ColonNext, Zenon DEF s
      <4> QED
        BY <2>3, <2>5, <4>1
    <3> HIDE DEF a, d
    <3>3. a \in 0 .. Len(s) /\ p \in (a + 1) .. (Len(s) + 1)
      BY <3>1
    <3>4. ASSUME NEW j \in (a + 1) .. (p - 1) PROVE s[j] # Colon
      <4>1. j - a \in 1 .. Len(d) /\ j = a + (j - a)
        BY <3>1
      <4> QED
        BY <3>1, <4>1
    <3> HIDE DEF p
    <3>5. Find(s, a, Colon) = p
      <4>1. p = Len(s) + 1 \/ s[p] = Colon
        BY <3>1
      <4> QED
        BY <3>1, <3>3, <3>4, <4>1, FindIs
    <3> QED
      BY <2>2, <3>1, <3>2, <3>5
  <2> QED
    BY <2>4, <2>5
<1> QED
  BY <1>1

LEMMA HwaddrIs ==
  ASSUME NEW line
  PROVE  LET s == Field(line, 0, Delimiter)
             c == CHOOSE f : IsColon(f, s, Octets)
         IN  hwaddr(line) = [i \in 1 .. Octets |->
               IF c[i] <= Len(s) THEN strtoul(SubSeq(s, c[i - 1] + 1, c[i] - 1), Hex) ELSE 0]
  BY Zenon DEF hwaddr, IsColon

\* load_leases reads the hardware address that write_leases has printed.
LEMMA HwReads ==
  ASSUME NEW k \in Key, NEW line, Field(line, 0, Delimiter) = HwText(k)
  PROVE  hwaddr(line) = k
<1> DEFINE s == Field(line, 0, Delimiter)
           c == CHOOSE f : IsColon(f, s, Octets)
           v(i) == strtoul(SubSeq(s, c[i - 1] + 1, c[i] - 1), Hex)
<1>1. PICK t : Texts(t, k) /\ s = t[Octets]
  BY TextsOf
<1>2. IsColon(c, t[Octets], Octets)
  BY <1>1, Constants, ColonExists
<1>3. hwaddr(line) = [i \in 1 .. Octets |-> IF c[i] <= Len(s) THEN v(i) ELSE 0]
  BY HwaddrIs, Zenon
<1> HIDE DEF c, s
<1>4. ASSUME NEW i \in 1 .. Octets PROVE c[i] <= Len(s) /\ v(i) = k[i]
  <2> DEFINE d == Digits(k[i], Hex)  a == Len(t[i - 1])
  <2>1. /\ a \in Nat /\ Len(d) \in Nat /\ Len(t[i]) = a + Len(d) + 1
        /\ s \in Seq(Int) /\ Len(s) \in Nat /\ a + Len(d) + 1 <= Len(s)
        /\ \A j \in 1 .. Len(d) : s[a + j] = d[j] /\ s[a + j] # Colon
        /\ s[a + Len(d) + 1] = Colon
    <3>1. Texts(t, k)
      BY <1>1
    <3>2. OctetAt(s, t, k, i)
      BY <1>1, <3>1, OctetPlace, Zenon
    <3> QED
      BY <3>2, Zenon DEF OctetAt
  <2>2. i - 1 \in 0 .. Octets /\ i \in 0 .. Octets
    BY Constants
  <2>3. c[i - 1] = a /\ c[i] = Len(t[i])
    BY <1>1, <1>2, <2>2, ColonsAre, Zenon
  <2>4. k[i] \in Nat /\ d \in Seq(Int)
    BY PrintedText
  <2> DEFINE w == SubSeq(s, a + 1, a + Len(d))
  <2>5. w = d
    <3> HIDE DEF d, a
    <3>1. a + 1 \in 1 .. (Len(s) + 1) /\ a + Len(d) \in ((a + 1) - 1) .. Len(s)
      BY <2>1
    <3>2. /\ w \in Seq(Int) /\ Len(w) = (a + Len(d)) - (a + 1) + 1
          /\ \A j \in 1 .. ((a + Len(d)) - (a + 1) + 1) : w[j] = s[(a + 1) + j - 1]
      BY <2>1, <3>1, Part
    <3>3. (a + Len(d)) - (a + 1) + 1 = Len(d) /\ \A j \in 1 .. Len(d) : (a + 1) + j - 1 = a + j
      BY <2>1
    <3> HIDE DEF w
    <3>4. Len(w) = Len(d) /\ \A j \in 1 .. Len(w) : w[j] = d[j]
      BY <2>1, <3>2, <3>3
    <3> QED
      BY <2>4, <3>2, <3>4, SameText
  <2>6. strtoul(d, Hex) = k[i]
    <3>1. /\ Len(d) \in 0 .. Len(d) /\ Len(d) <= Len(d)
          /\ \A j \in 1 .. Len(d) : d[j] = d[j]
          /\ Len(d) = Len(d) \/ d[Len(d) + 1] \notin 0 .. (Hex - 1)
      BY <2>1
    <3> QED
      BY <2>4, <3>1, Constants, StrtoulReads, Zenon
  <2>7. v(i) = strtoul(w, Hex)
    <3>1. c[i - 1] + 1 = a + 1 /\ c[i] - 1 = a + Len(d)
      BY <2>1, <2>3
    <3> QED
      BY <3>1
  <2> QED
    BY <2>1, <2>3, <2>5, <2>6, <2>7
<1>5. k = [i \in 1 .. Octets |-> k[i]]
  BY DEF Key
<1> HIDE DEF v
<1> QED
  BY <1>3, <1>4, <1>5

-----------------------------------------------------------------------------
(* A line.                                                                 *)

\* Where the parts of a line are: h, a and e are the lengths of the three fields.
LineAt(s, k, lease, h, a, e) ==
  /\ h \in Nat /\ a \in Nat /\ e \in Nat
  /\ h = Len(HwText(k)) /\ a = Len(inet_ntoa(lease.ip)) /\ e = Len(Digits(lease.exp, Dec))
  /\ s \in Seq(Int) /\ Len(s) = h + 1 + a + 1 + e
  /\ \A i \in 1 .. h : s[i] = HwText(k)[i] /\ s[i] # Delimiter
  /\ s[h + 1] = Delimiter
  /\ \A i \in 1 .. a : s[h + 1 + i] = inet_ntoa(lease.ip)[i] /\ s[h + 1 + i] # Delimiter
  /\ s[h + 1 + a + 1] = Delimiter
  /\ \A i \in 1 .. e :
       s[h + 1 + a + 1 + i] = Digits(lease.exp, Dec)[i] /\ s[h + 1 + a + 1 + i] # Delimiter

LEMMA HwTextType ==
  ASSUME NEW k \in Key
  PROVE  /\ HwText(k) \in Seq(Int) /\ Len(HwText(k)) \in Nat
         /\ \A j \in 1 .. Len(HwText(k)) : HwText(k)[j] # Delimiter
<1>1. PICK t : Texts(t, k) /\ HwText(k) = t[Octets]
  BY TextsOf
<1>2. Octets \in 0 .. Octets
  BY Constants
<1> QED
  BY <1>1, <1>2, TextsType

LEMMA AddrNoDelimiter ==
  ASSUME NEW a \in Address, NEW j \in 1 .. Len(inet_ntoa(a))
  PROVE  inet_ntoa(a)[j] # Delimiter
<1> DEFINE p == AddrFirst(a)  q == AddrSecond(a)  s == inet_ntoa(a)
<1>1. /\ Len(p) \in Nat /\ Len(q) \in Nat
      /\ s \in Seq(Int) /\ Len(s) = Len(p) + 1 + Len(q)
      /\ \A i \in 1 .. Len(p) : s[i] = p[i]
      /\ s[Len(p) + 1] = Dot
      /\ \A i \in 1 .. Len(q) : s[Len(p) + 1 + i] = q[i]
  BY AddrText
<1>2. \A i \in 1 .. Len(p) : p[i] # Delimiter
  BY AddressParts, Constants, DigitsText DEF AddrFirst
<1>3. \A i \in 1 .. Len(q) : q[i] # Delimiter
  BY AddressParts, Constants, DigitsText DEF AddrSecond
<1>4. Dot # Delimiter
  BY DEF Dot, Delimiter
<1>5. j \in 1 .. Len(s)
  OBVIOUS
<1> HIDE DEF p, q, s
<1>6. \/ j \in 1 .. Len(p)
      \/ j = Len(p) + 1
      \/ j - (Len(p) + 1) \in 1 .. Len(q) /\ j = Len(p) + 1 + (j - (Len(p) + 1))
  BY <1>1, <1>5
<1>7. CASE j \in 1 .. Len(p)
  BY <1>1, <1>2, <1>7 DEF s
<1>8. CASE j = Len(p) + 1
  BY <1>1, <1>4, <1>8 DEF s
<1>9. CASE j - (Len(p) + 1) \in 1 .. Len(q) /\ j = Len(p) + 1 + (j - (Len(p) + 1))
  <2>1. s[j] = q[j - (Len(p) + 1)]
    BY <1>1, <1>9
  <2> QED
    BY <1>3, <1>9, <2>1 DEF s
<1> QED
  BY <1>6, <1>7, <1>8, <1>9

\* A line has its three fields where LineAt says.
LEMMA LineParts ==
  ASSUME NEW k \in Key, NEW lease \in Lease
  PROVE  \E h, a, e : LineAt(Line(k, lease), k, lease, h, a, e)
<1> DEFINE x == HwText(k)  y == inet_ntoa(lease.ip)  z == Digits(lease.exp, Dec)
           w == x \o <<Delimiter>> \o y  s == Line(k, lease)
<1>1. lease.ip \in Address /\ lease.exp \in Nat
  BY DEF Lease
<1>2. x \in Seq(Int) /\ Len(x) \in Nat /\ \A j \in 1 .. Len(x) : x[j] # Delimiter
  BY HwTextType
<1>3. y \in Seq(Int) /\ Len(y) \in Nat
  BY <1>1, AddrText
<1>4. \A j \in 1 .. Len(y) : y[j] # Delimiter
  BY <1>1, AddrNoDelimiter
<1>5. z \in Seq(Int) /\ Len(z) \in Nat /\ \A j \in 1 .. Len(z) : z[j] # Delimiter
  BY <1>1, Constants, DigitsText
<1>6. s = w \o <<Delimiter>> \o z
  BY Zenon DEF Line
<1> HIDE DEF x, y, z, s
<1>7. /\ w \in Seq(Int) /\ Len(w) = Len(x) + 1 + Len(y)
      /\ \A i \in 1 .. Len(x) : w[i] = x[i]
      /\ w[Len(x) + 1] = Delimiter
      /\ \A i \in 1 .. Len(y) : w[Len(x) + 1 + i] = y[i]
  BY <1>2, <1>3, Separators, Joined
<1> HIDE DEF w
<1>8. /\ s \in Seq(Int) /\ Len(s) = Len(w) + 1 + Len(z)
      /\ \A i \in 1 .. Len(w) : s[i] = w[i]
      /\ s[Len(w) + 1] = Delimiter
      /\ \A i \in 1 .. Len(z) : s[Len(w) + 1 + i] = z[i]
  <2>1. w \in Seq(Int) /\ z \in Seq(Int)
    BY <1>5, <1>7
  <2> QED
    BY <1>6, <2>1, Separators, Joined
<1> DEFINE h == Len(x)  a == Len(y)  e == Len(z)
<1>9. Len(w) = h + 1 + a /\ h \in Nat /\ a \in Nat /\ e \in Nat
  BY <1>2, <1>3, <1>5, <1>7
<1> HIDE DEF h, a, e
<1>10. \A i \in 1 .. h : s[i] = x[i] /\ s[i] # Delimiter
  <2>1. \A i \in 1 .. h : i \in 1 .. Len(w) /\ i \in 1 .. Len(x)
    BY <1>9 DEF h
  <2> QED
    BY <1>2, <1>7, <1>8, <2>1
<1>11. s[h + 1] = Delimiter
  <2>1. h + 1 \in 1 .. Len(w)
    BY <1>9
  <2> QED
    BY <1>7, <1>8, <2>1 DEF h
<1>12. \A i \in 1 .. a : s[h + 1 + i] = y[i] /\ s[h + 1 + i] # Delimiter
  <2>1. \A i \in 1 .. a : h + 1 + i \in 1 .. Len(w) /\ i \in 1 .. Len(y)
    BY <1>9 DEF a
  <2> SUFFICES ASSUME NEW i \in 1 .. a
               PROVE  s[h + 1 + i] = y[i] /\ s[h + 1 + i] # Delimiter
    OBVIOUS
  <2>2. s[h + 1 + i] = w[h + 1 + i]
    BY <1>8, <2>1
  <2>3. w[h + 1 + i] = y[i]
    BY <1>7, <2>1 DEF h
  <2> QED
    BY <1>4, <2>1, <2>2, <2>3
<1>13. s[h + 1 + a + 1] = Delimiter /\ Len(s) = h + 1 + a + 1 + e
  BY <1>8, <1>9 DEF e
<1>14. \A i \in 1 .. e : s[h + 1 + a + 1 + i] = z[i] /\ s[h + 1 + a + 1 + i] # Delimiter
  BY <1>5, <1>8, <1>9 DEF e
<1>15. LineAt(s, k, lease, h, a, e)
  BY <1>8, <1>9, <1>10, <1>11, <1>12, <1>13, <1>14, Zenon DEF LineAt, h, a, e, x, y, z
<1> QED
  BY <1>15 DEF s

\* A line, or the first n characters of one.
CutAt(c, s, n) ==
  c \in Seq(Int) /\ n \in Nat /\ n <= Len(s) /\ Len(c) = n /\ \A i \in 1 .. n : c[i] = s[i]

LEMMA CutIs ==
  ASSUME NEW s \in Seq(Int), NEW n \in 0 .. Len(s)
  PROVE  CutAt(SubSeq(s, 1, n), s, n)
  BY DEF CutAt

\* Cut inside the hardware address, the line is skipped.
LEMMA CutInHw ==
  ASSUME NEW s, NEW k, NEW lease, NEW h, NEW a, NEW e, LineAt(s, k, lease, h, a, e),
         NEW c, NEW n, CutAt(c, s, n), n <= h
  PROVE  Delimiters(c) = {}
<1>1. /\ h \in Nat /\ n \in Nat /\ c \in Seq(Int) /\ Len(c) = n
      /\ \A i \in 1 .. h : s[i] # Delimiter
      /\ \A i \in 1 .. n : c[i] = s[i]
  BY DEF LineAt, CutAt
<1>2. \A i \in 1 .. n : i \in 1 .. h
  BY <1>1
<1> QED
  BY <1>1, <1>2 DEF Delimiters

\* Behind the first delimiter the hardware address is whole.
LEMMA CutBehindHw ==
  ASSUME NEW s, NEW k \in Key, NEW lease, NEW h, NEW a, NEW e, LineAt(s, k, lease, h, a, e),
         NEW c, NEW n, CutAt(c, s, n), n > h
  PROVE  hwaddr(c) = k
<1>1. /\ h \in Nat /\ n \in Nat /\ c \in Seq(Int) /\ Len(c) = n /\ h = Len(HwText(k))
      /\ \A i \in 1 .. h : s[i] = HwText(k)[i] /\ s[i] # Delimiter
      /\ s[h + 1] = Delimiter
      /\ \A i \in 1 .. n : c[i] = s[i]
  BY DEF LineAt, CutAt
<1>2. \A i \in 1 .. h : c[i] = HwText(k)[i] /\ c[i] # Delimiter
  <2>1. \A i \in 1 .. h : i \in 1 .. n
    BY <1>1
  <2> QED
    BY <1>1, <2>1
<1>3. c[h + 1] = Delimiter
  <2>1. h + 1 \in 1 .. n
    BY <1>1
  <2> QED
    BY <1>1, <2>1
<1>4. Find(c, 0, Delimiter) = h + 1
  <2>1. h + 1 \in Nat /\ h + 1 >= 1 /\ h + 1 <= Len(c) + 1
    BY <1>1
  <2>2. \A j \in 1 .. ((h + 1) - 1) : c[j] # Delimiter
    BY <1>1, <1>2
  <2> QED
    BY <1>1, <1>3, <2>1, <2>2, FindFirst, Zenon
<1> DEFINE w == SubSeq(c, 1, h)
<1>5. w \in Seq(Int) /\ Len(w) = h /\ \A i \in 1 .. h : w[i] = c[i]
  BY <1>1
<1>6. w = HwText(k)
  <2> HIDE DEF w
  <2>1. HwText(k) \in Seq(Int)
    BY HwTextType
  <2> QED
    BY <1>1, <1>2, <1>5, <2>1, SameText
<1>7. Field(c, 0, Delimiter) = w
  <2>1. 0 + 1 = 1 /\ (h + 1) - 1 = h
    BY <1>1
  <2> QED
    BY <1>4, <2>1 DEF Field
<1> QED
  BY <1>6, <1>7, HwReads

\* Cut inside the address, the time that is read is its first octet, or digits of that.
LEMMA CutInAddr ==
  ASSUME NEW s, NEW k, NEW lease \in Lease, NEW h, NEW a, NEW e,
         LineAt(s, k, lease, h, a, e),
         NEW c, NEW n, CutAt(c, s, n), n > h, n <= h + 1 + a
  PROVE  Timestamp(c) \in Nat /\ Timestamp(c) < Radix
<1> DEFINE y == inet_ntoa(lease.ip)
<1>1. /\ h \in Nat /\ n \in Nat /\ a \in Nat /\ a = Len(y)
      /\ c \in Seq(Int) /\ Len(c) = n
      /\ \A i \in 1 .. h : s[i] # Delimiter
      /\ s[h + 1] = Delimiter
      /\ \A i \in 1 .. a : s[h + 1 + i] = y[i] /\ s[h + 1 + i] # Delimiter
      /\ \A i \in 1 .. n : c[i] = s[i]
  BY DEF LineAt, CutAt
<1> HIDE DEF y
<1>2. Delimiters(c) = {h + 1}
  <2>1. h + 1 \in 1 .. n /\ c[h + 1] = Delimiter /\ DOMAIN c = 1 .. n
    BY <1>1
  <2>2. ASSUME NEW i \in 1 .. n, i # h + 1 PROVE c[i] # Delimiter
    <3>1. i \in 1 .. h \/ (i - (h + 1) \in 1 .. a /\ i = h + 1 + (i - (h + 1)))
      BY <1>1, <2>2
    <3> QED
      BY <1>1, <3>1
  <2> QED
    BY <2>1, <2>2 DEF Delimiters
<1>3. Max(Delimiters(c)) = h + 1
  <2>1. h + 1 \in {h + 1} /\ {h + 1} \in SUBSET Int /\ \A i \in {h + 1} : i <= h + 1
    BY <1>1
  <2> QED
    BY <1>2, <2>1, MaxIs
<1> DEFINE w == SubSeq(c, h + 2, n)
<1>4. w \in Seq(Int) /\ Len(w) = n - (h + 1) /\ \A i \in 1 .. (n - (h + 1)) : w[i] = c[h + 1 + i]
  <2>1. h + 2 \in 1 .. (Len(c) + 1) /\ n \in ((h + 2) - 1) .. Len(c)
    BY <1>1
  <2>2. /\ w \in Seq(Int) /\ Len(w) = n - (h + 2) + 1
        /\ \A i \in 1 .. (n - (h + 2) + 1) : w[i] = c[(h + 2) + i - 1]
    BY <1>1, <2>1, Part
  <2> HIDE DEF w
  <2>3. n - (h + 2) + 1 = n - (h + 1) /\ \A i \in Nat : (h + 2) + i - 1 = h + 1 + i
    BY <1>1
  <2> QED
    BY <2>2, <2>3
<1>5. Timestamp(c) = strtoul(w, Dec)
  <2>1. (h + 1) + 1 = h + 2
    BY <1>1
  <2> QED
    BY <1>1, <1>3, <2>1 DEF Timestamp
<1> HIDE DEF w
<1>6. Len(w) <= Len(y) /\ \A i \in 1 .. Len(w) : w[i] = y[i]
  <2>1. Len(w) <= a
    BY <1>1, <1>4
  <2>2. \A i \in 1 .. (n - (h + 1)) : i \in 1 .. a /\ h + 1 + i \in 1 .. n
    BY <1>1
  <2>3. ASSUME NEW i \in 1 .. (n - (h + 1)) PROVE w[i] = y[i]
    <3>1. w[i] = c[h + 1 + i]
      BY <1>4
    <3>2. c[h + 1 + i] = s[h + 1 + i]
      BY <1>1, <2>2
    <3>3. s[h + 1 + i] = y[i]
      BY <1>1, <2>2
    <3> QED
      BY <3>1, <3>2, <3>3
  <2>4. Len(w) = n - (h + 1) /\ a = Len(y)
    BY <1>1, <1>4
  <2> QED
    BY <2>1, <2>3, <2>4
<1>7. lease.ip \in Address
  BY DEF Lease
<1> QED
  BY <1>4, <1>5, <1>6, <1>7, AddrCut DEF y

\* Behind the second delimiter the address is whole, too, and the time perhaps cut.
LEMMA CutBehindAddr ==
  ASSUME NEW s, NEW k, NEW lease \in Lease, NEW h, NEW a, NEW e,
         LineAt(s, k, lease, h, a, e),
         NEW c, NEW n, CutAt(c, s, n), n > h + 1 + a
  PROVE  /\ Delimiters(c) # {}
         /\ LeaseOf(c) = [ip |-> lease.ip, exp |-> Timestamp(c)]
         /\ n = Len(s) => Timestamp(c) = lease.exp
         /\ n < Len(s) => Timestamp(c) \in Nat /\ Timestamp(c) <= lease.exp \div Dec
<1> DEFINE y == inet_ntoa(lease.ip)  z == Digits(lease.exp, Dec)  p == h + 1  q == h + a + 2
<1>1. /\ h \in Nat /\ n \in Nat /\ a \in Nat /\ e \in Nat
      /\ a = Len(y) /\ e = Len(z)
      /\ c \in Seq(Int) /\ Len(c) = n
      /\ Len(s) = h + 1 + a + 1 + e /\ n <= Len(s)
      /\ \A i \in 1 .. h : s[i] # Delimiter
      /\ s[h + 1] = Delimiter
      /\ \A i \in 1 .. a : s[h + 1 + i] = y[i] /\ s[h + 1 + i] # Delimiter
      /\ s[h + 1 + a + 1] = Delimiter
      /\ \A i \in 1 .. e : s[h + 1 + a + 1 + i] = z[i] /\ s[h + 1 + a + 1 + i] # Delimiter
      /\ \A i \in 1 .. n : c[i] = s[i]
  BY DEF LineAt, CutAt
<1>2. lease.ip \in Address /\ lease.exp \in Nat
  BY DEF Lease
<1> HIDE DEF y, z
<1>0. /\ h \in Nat /\ n \in Nat /\ a \in Nat /\ e \in Nat
      /\ p \in Nat /\ q \in Nat /\ p + 1 + a = q /\ n >= q /\ n <= q + e /\ Len(s) = q + e
  <2>1. /\ h \in Nat /\ n \in Nat /\ a \in Nat /\ e \in Nat
        /\ Len(s) = h + 1 + a + 1 + e /\ n <= Len(s) /\ n > h + 1 + a
    BY <1>1
  <2> QED
    BY <2>1
<1>3. /\ p \in 1 .. n /\ q \in 1 .. n /\ p < q /\ n <= q + e /\ Len(s) = q + e
      /\ c[p] = Delimiter /\ c[q] = Delimiter
      /\ \A i \in 1 .. a : c[p + i] = y[i] /\ c[p + i] # Delimiter
  <2>1. /\ p \in 1 .. n /\ q \in 1 .. n /\ p < q /\ n <= q + e /\ Len(s) = q + e
        /\ h + 1 + a + 1 = q
    BY <1>1
  <2>2. \A i \in 1 .. a : p + i \in 1 .. n
    BY <1>1
  <2> QED
    BY <1>1, <2>1, <2>2
<1>4. \A i \in 1 .. (n - q) : i \in 1 .. e /\ c[q + i] = z[i] /\ c[q + i] # Delimiter
  <2> SUFFICES ASSUME NEW i \in 1 .. (n - q)
               PROVE  i \in 1 .. e /\ c[q + i] = z[i] /\ c[q + i] # Delimiter
    OBVIOUS
  <2>1. i \in 1 .. e /\ q + i \in 1 .. n /\ h + 1 + a + 1 + i = q + i
    BY <1>0
  <2>2. s[h + 1 + a + 1 + i] = z[i] /\ s[h + 1 + a + 1 + i] # Delimiter
    BY <1>1, <2>1
  <2>3. c[q + i] = s[q + i]
    BY <1>1, <2>1
  <2> QED
    BY <2>1, <2>2, <2>3
<1>5. Delimiters(c) = {p, q}
  <2>1. DOMAIN c = 1 .. n
    BY <1>1
  <2>2. ASSUME NEW i \in 1 .. n, i # p, i # q PROVE c[i] # Delimiter
    <3>1. \/ i \in 1 .. h
          \/ i - p \in 1 .. a /\ i = p + (i - p)
          \/ i - q \in 1 .. (n - q) /\ i = q + (i - q)
      BY <1>0, <2>2
    <3>2. CASE i \in 1 .. h
      BY <1>1, <3>2
    <3>3. CASE i - p \in 1 .. a /\ i = p + (i - p)
      BY <1>3, <3>3
    <3>4. CASE i - q \in 1 .. (n - q) /\ i = q + (i - q)
      BY <1>4, <3>4
    <3> QED
      BY <3>1, <3>2, <3>3, <3>4
  <2> QED
    BY <1>3, <2>1, <2>2 DEF Delimiters
<1>6. /\ p \in Nat /\ q \in Nat /\ p + 1 + a = q
      /\ n \in Nat /\ a \in Nat /\ e \in Nat /\ q <= n /\ n <= q + e /\ Len(s) = q + e
      /\ c \in Seq(Int) /\ Len(c) = n /\ Len(z) = e
  BY <1>0, <1>1
<1> HIDE DEF p, q
<1>17. p < q /\ p >= 1
  BY <1>3
<1>7. Max(Delimiters(c)) = q
  <2>1. q \in {p, q} /\ {p, q} \in SUBSET Int /\ \A i \in {p, q} : i <= q
    BY <1>3, <1>6
  <2> QED
    BY <1>5, <2>1, MaxIs
<1>8. Min(Delimiters(c)) = p
  <2>1. p \in {p, q} /\ {p, q} \in SUBSET Int /\ \A i \in {p, q} : p <= i
    BY <1>3, <1>6
  <2> QED
    BY <1>5, <2>1, MinIs
<1>9. Find(c, p, Delimiter) = q
  <2>1. p \in 0 .. Len(c) /\ q \in (p + 1) .. (Len(c) + 1)
    BY <1>1, <1>3, <1>6
  <2>2. ASSUME NEW j \in (p + 1) .. (q - 1) PROVE c[j] # Delimiter
    <3>1. j - p \in 1 .. a /\ j = p + (j - p)
      BY <1>6
    <3> QED
      BY <1>3, <3>1
  <2>3. q = Len(c) + 1 \/ c[q] = Delimiter
    BY <1>3
  <2> QED
    <3>1. c \in Seq(Int)
      BY <1>6
    <3> QED
      BY <2>1, <2>2, <2>3, <3>1, FindIs
<1> DEFINE w == SubSeq(c, p + 1, q - 1)  v == SubSeq(c, q + 1, n)
<1>10. w = y
  <2>1. p + 1 \in 1 .. (Len(c) + 1) /\ q - 1 \in ((p + 1) - 1) .. Len(c)
    BY <1>6, <1>17
  <2>2. /\ w \in Seq(Int) /\ Len(w) = (q - 1) - (p + 1) + 1
        /\ \A i \in 1 .. ((q - 1) - (p + 1) + 1) : w[i] = c[(p + 1) + i - 1]
    BY <1>1, <2>1, Part
  <2>3. (q - 1) - (p + 1) + 1 = a /\ \A i \in Nat : (p + 1) + i - 1 = p + i
    BY <1>1, <1>6
  <2> HIDE DEF w
  <2>4. w \in Seq(Int) /\ Len(w) = Len(y) /\ \A i \in 1 .. Len(w) : w[i] = y[i]
    BY <1>1, <1>3, <2>2, <2>3
  <2>5. y \in Seq(Int)
    BY <1>2, AddrText DEF y
  <2> QED
    BY <2>4, <2>5, SameText
<1>11. /\ v \in Seq(Int) /\ Len(v) = n - q /\ n - q \in 0 .. Len(z)
       /\ \A i \in 1 .. (n - q) : v[i] = z[i]
  <2>1. q + 1 \in 1 .. (Len(c) + 1) /\ n \in ((q + 1) - 1) .. Len(c) /\ n - q \in 0 .. Len(z)
    BY <1>6, <1>17
  <2>2. /\ v \in Seq(Int) /\ Len(v) = n - (q + 1) + 1
        /\ \A i \in 1 .. (n - (q + 1) + 1) : v[i] = c[(q + 1) + i - 1]
    BY <1>1, <2>1, Part
  <2>3. n - (q + 1) + 1 = n - q /\ \A i \in Nat : (q + 1) + i - 1 = q + i
    BY <1>1, <1>6
  <2> HIDE DEF v
  <2>4. \A i \in 1 .. (n - q) : v[i] = z[i]
    <3> SUFFICES ASSUME NEW i \in 1 .. (n - q) PROVE v[i] = z[i]
      OBVIOUS
    <3>1. i \in Nat
      OBVIOUS
    <3>2. v[i] = c[q + i]
      BY <2>2, <2>3, <3>1
    <3> QED
      BY <1>4, <3>2
  <2> QED
    BY <2>1, <2>2, <2>3, <2>4
<1>12. Timestamp(c) = strtoul(v, Dec)
  BY <1>1, <1>7 DEF Timestamp
<1>13. LeaseOf(c) = [ip |-> lease.ip, exp |-> Timestamp(c)]
  <2>1. Field(c, p, Delimiter) = w
    BY <1>9 DEF Field
  <2> HIDE DEF w
  <2>2. inet_aton(w) = lease.ip
    BY <1>2, <1>10, AddrReads DEF y
  <2> QED
    BY <1>8, <2>1, <2>2 DEF LeaseOf
<1>14. /\ n - q = Len(z) => strtoul(v, Dec) = lease.exp
       /\ n - q < Len(z) => strtoul(v, Dec) \in Nat /\ strtoul(v, Dec) <= lease.exp \div Dec
  <2> HIDE DEF v
  <2>1. n - q <= Len(v) /\ (n - q = Len(v) \/ v[(n - q) + 1] \notin 0 .. (Dec - 1))
    BY <1>1, <1>6, <1>11
  <2> QED
    BY <1>2, <1>11, <2>1, Constants, StrtoulReads, Zenon DEF z
<1> HIDE DEF v
<1>15. (n = Len(s) => n - q = Len(z)) /\ (n < Len(s) => n - q < Len(z))
  BY <1>6
<1>16. Delimiters(c) # {}
  BY <1>5
<1> QED
  BY <1>12, <1>13, <1>14, <1>15, <1>16

-----------------------------------------------------------------------------
(* What load_leases makes of a line.                                       *)

LEMMA LineType ==
  ASSUME NEW k \in Key, NEW lease \in Lease
  PROVE  Line(k, lease) \in Seq(Int) /\ Len(Line(k, lease)) \in Nat
<1>1. PICK h, a, e : LineAt(Line(k, lease), k, lease, h, a, e)
  BY LineParts
<1> QED
  BY <1>1 DEF LineAt

\* A line that is whole is the lease that was printed.
LEMMA WholeLine ==
  ASSUME NEW k \in Key, NEW lease \in Lease
  PROVE  LET c == Line(k, lease)
         IN  Delimiters(c) # {} /\ hwaddr(c) = k /\ Timestamp(c) = lease.exp /\ LeaseOf(c) = lease
<1> DEFINE c == Line(k, lease)
<1>1. PICK h, a, e : LineAt(c, k, lease, h, a, e)
  BY LineParts
<1>2. CutAt(c, c, Len(c)) /\ Len(c) > h + 1 + a /\ Len(c) > h
  BY <1>1 DEF LineAt, CutAt
<1> HIDE DEF c
<1>3. hwaddr(c) = k
  BY <1>1, <1>2, CutBehindHw
<1>4. /\ Delimiters(c) # {} /\ Timestamp(c) = lease.exp
      /\ LeaseOf(c) = [ip |-> lease.ip, exp |-> Timestamp(c)]
  BY <1>1, <1>2, CutBehindAddr
<1>5. lease = [ip |-> lease.ip, exp |-> lease.exp]
  BY DEF Lease
<1> QED
  BY <1>3, <1>4, <1>5 DEF c

\* A line that was cut short is skipped, or lacks only the last digits of the time.
LEMMA CutLine ==
  ASSUME NEW k \in Key, NEW lease \in Lease, NEW n \in 0 .. Len(Line(k, lease)),
         n # Len(Line(k, lease))
  PROVE  LET c == SubSeq(Line(k, lease), 1, n)
         IN  \/ Delimiters(c) = {}
             \/ Timestamp(c) \in Nat /\ Timestamp(c) < Radix
             \/ /\ hwaddr(c) = k /\ LeaseOf(c) = [ip |-> lease.ip, exp |-> Timestamp(c)]
                /\ Timestamp(c) \in Nat /\ Timestamp(c) <= lease.exp \div Dec
<1> DEFINE s == Line(k, lease)  c == SubSeq(s, 1, n)
<1>1. PICK h, a, e : LineAt(s, k, lease, h, a, e)
  BY LineParts
<1>2. h \in Nat /\ a \in Nat /\ Len(s) \in Nat /\ n \in Nat /\ n < Len(s)
  <2>1. Len(s) \in Nat
    BY LineType
  <2>2. h \in Nat /\ a \in Nat
    BY <1>1 DEF LineAt
  <2> HIDE DEF c
  <2>3. n \in 0 .. Len(s) /\ n # Len(s)
    OBVIOUS
  <2> HIDE DEF s
  <2> QED
    BY <2>1, <2>2, <2>3
<1>3. CutAt(c, s, n)
  BY LineType, CutIs
<1> HIDE DEF s, c
<1>4. CASE n <= h
  BY <1>1, <1>3, <1>4, CutInHw DEF c, s
<1>5. CASE n > h /\ n <= h + 1 + a
  BY <1>1, <1>3, <1>5, CutInAddr DEF c, s
<1>6. CASE n > h + 1 + a
  <2>1. n > h
    BY <1>2, <1>6
  <2>2. hwaddr(c) = k
    BY <1>1, <1>3, <2>1, CutBehindHw
  <2>3. /\ LeaseOf(c) = [ip |-> lease.ip, exp |-> Timestamp(c)]
        /\ Timestamp(c) \in Nat /\ Timestamp(c) <= lease.exp \div Dec
    BY <1>1, <1>2, <1>3, <1>6, CutBehindAddr
  <2> QED
    BY <2>2, <2>3 DEF c, s
<1> QED
  BY <1>2, <1>4, <1>5, <1>6
=============================================================================
