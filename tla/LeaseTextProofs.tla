-------------------------- MODULE LeaseTextProofs ---------------------------
(***************************************************************************)
(* What the printing and the parsing of LeaseFile compute, for all number  *)
(* bases, addresses and times.  The recursive functions are unfolded by    *)
(* induction, which takes the form of a least counterexample: WFMin speaks *)
(* of sets, and a set of numbers is all it has to be told.                 *)
(***************************************************************************)
EXTENDS LeaseFile, SequenceTheorems, WellFoundedInduction, TLAPS

Base == Nat \ {0, 1}

\* Induction: of the numbers that are not as they should be there is a least one.
LEMMA LeastNumber ==
  ASSUME NEW T \in SUBSET Nat, T # {}
  PROVE  \E x \in T : \A y \in T : x <= y
<1>1. PICK x \in T : \A y \in T : ~ (<<y, x>> \in OpToRel(<, Nat))
  BY NatLessThanWellFounded, WFMin
<1>2. \A y \in T : ~ (y < x)
  BY <1>1 DEF OpToRel
<1> QED
  BY <1>2

LEMMA DivMod ==
  ASSUME NEW n \in Nat, NEW b \in Base
  PROVE  /\ n \div b \in Nat /\ n % b \in 0 .. (b - 1)
         /\ n = (n \div b) * b + (n % b)
         /\ n \div b <= n
         /\ ~ (n < b) => n \div b < n
<1>1. n \div b \in Int /\ n % b \in 0 .. (b - 1) /\ n = b * (n \div b) + (n % b)
  BY DEF Base
<1>2. n \div b \in Nat
  BY <1>1 DEF Base
<1>3. n >= b => n \div b < n
  BY <1>1, <1>2 DEF Base
<1>4. n \div b <= n
  BY <1>1, <1>2 DEF Base
<1> QED
  BY <1>1, <1>2, <1>3, <1>4 DEF Base

-----------------------------------------------------------------------------
(* Printing a number.                                                      *)

IsPrint(f, n, b) ==
  f = [i \in 0 .. n |-> IF i < b THEN <<i>> ELSE Append(f[i \div b], i % b)]

LEMMA DigitsIs == ASSUME NEW n, NEW b PROVE Digits(n, b) = (CHOOSE f : IsPrint(f, n, b))[n]
  BY Zenon DEF Digits, IsPrint

LEMMA PrintValue ==
  ASSUME NEW n \in Nat, NEW b, NEW f, IsPrint(f, n, b), NEW i \in 0 .. n
  PROVE  f[i] = IF i < b THEN <<i>> ELSE Append(f[i \div b], i % b)
  BY DEF IsPrint

\* The recursive definition of Digits has a solution.
LEMMA PrintExists == ASSUME NEW b \in Base, NEW n \in Nat PROVE \E f : IsPrint(f, n, b)
<1> DEFINE T == {m \in Nat : ~ \E f : IsPrint(f, m, b)}
<1> SUFFICES ASSUME T # {} PROVE FALSE
  OBVIOUS
<1>1. PICK m \in T : \A y \in T : m <= y
  BY LeastNumber
<1>2. CASE m = 0
  <2> DEFINE f == [i \in 0 .. 0 |-> <<i>>]
  <2>1. IsPrint(f, 0, b)
    BY DEF IsPrint, Base
  <2> QED
    BY <1>2, <2>1
<1>3. CASE m # 0
  <2>1. m \in Nat /\ m - 1 \in Nat /\ m - 1 \notin T
    BY <1>1, <1>3
  <2>2. PICK g : IsPrint(g, m - 1, b)
    BY <2>1
  <2> DEFINE f == [i \in 0 .. m |->
                     IF i < m THEN g[i] ELSE IF m < b THEN <<m>> ELSE Append(g[m \div b], m % b)]
             h == [i \in 0 .. m |-> IF i < b THEN <<i>> ELSE Append(f[i \div b], i % b)]
  <2>3a. \A i \in 0 .. (m - 1) : g[i] = IF i < b THEN <<i>> ELSE Append(g[i \div b], i % b)
    BY <2>1, <2>2, PrintValue
  <2>3b. m \in Nat /\ m - 1 \in Nat
    BY <2>1
  <2> HIDE DEF T
  <2>3. ASSUME NEW i \in 0 .. m PROVE f[i] = h[i]
    <3>1. CASE i < b
      <4>1. i < m => g[i] = <<i>>
        <5> SUFFICES ASSUME i < m PROVE g[i] = <<i>>
          OBVIOUS
        <5>1. i \in 0 .. (m - 1)
          BY <2>3b
        <5> QED
          BY <5>1, <2>3a, <3>1, Zenon
      <4> QED
        BY <2>3b, <3>1, <4>1
    <3>2. CASE i >= b
      <4>0. ~ (i < b)
        BY <2>3b, <3>2 DEF Base
      <4>1. i \in Nat /\ i \div b \in Nat /\ i \div b < i
        BY <2>3b, <4>0, DivMod
      <4>2. i \div b \in 0 .. m /\ i \div b < m
        BY <2>1, <4>1
      <4>3. f[i \div b] = g[i \div b]
        BY <4>2
      <4>4. h[i] = Append(g[i \div b], i % b)
        BY <4>0, <4>3, Zenon
      <4>5. i < m => g[i] = Append(g[i \div b], i % b)
        <5> SUFFICES ASSUME i < m PROVE g[i] = Append(g[i \div b], i % b)
          OBVIOUS
        <5>1. i \in 0 .. (m - 1)
          BY <2>3b
        <5> QED
          BY <5>1, <2>3a, <4>0, Zenon
      <4>6. i = m => f[i] = Append(g[i \div b], i % b)
        BY <2>3b, <3>2 DEF Base
      <4>7. i < m => f[i] = g[i]
        BY <2>3b
      <4> HIDE DEF f, h
      <4> QED
        BY <2>3b, <4>4, <4>5, <4>6, <4>7
    <3> QED
      BY <2>1, <3>1, <3>2 DEF Base
  <2>4. IsPrint(f, m, b)
    BY <2>3 DEF IsPrint
  <2> QED
    BY <1>1, <2>4 DEF T
<1> QED
  BY <1>2, <1>3

LEMMA PrintAgree ==
  ASSUME NEW b \in Base, NEW n \in Nat, NEW m \in 0 .. n, NEW f, NEW g,
         IsPrint(f, n, b), IsPrint(g, m, b)
  PROVE  f[m] = g[m]
<1> DEFINE T == {i \in 0 .. m : f[i] # g[i]}
<1>0. T \subseteq Nat /\ m \in 0 .. m
  OBVIOUS
<1> SUFFICES ASSUME T # {} PROVE FALSE
  BY <1>0
<1>1. PICK i \in T : \A y \in T : i <= y
  BY <1>0, LeastNumber
<1>2. i \in Nat /\ i <= m /\ m \in Nat
  BY <1>1
<1> HIDE DEF T
<1>3. i \in 0 .. n /\ i \in 0 .. m
  BY <1>2
<1>4. /\ f[i] = IF i < b THEN <<i>> ELSE Append(f[i \div b], i % b)
      /\ g[i] = IF i < b THEN <<i>> ELSE Append(g[i \div b], i % b)
  BY <1>2, <1>3, PrintValue, Zenon
<1>5. ~ (i < b) => f[i \div b] = g[i \div b]
  <2>1. ~ (i < b) => i \div b \in 0 .. m /\ i \div b < i
    <3>1. ~ (i < b) => i \div b \in Nat /\ i \div b < i
      BY <1>2, DivMod
    <3> QED
      BY <1>2, <3>1 DEF Base
  <2> QED
    BY <1>1, <1>2, <2>1 DEF T
<1>6. f[i] = g[i]
  BY <1>4, <1>5, Zenon
<1> QED
  BY <1>1, <1>6 DEF T

\* The last digit, and the ones before it.
LEMMA DigitsUnfold ==
  ASSUME NEW b \in Base, NEW n \in Nat
  PROVE  Digits(n, b) = IF n < b THEN <<n>> ELSE Append(Digits(n \div b, b), n % b)
<1> DEFINE f == CHOOSE f : IsPrint(f, n, b)
           g == CHOOSE g : IsPrint(g, n \div b, b)
<1>1. IsPrint(f, n, b)
  BY PrintExists
<1>2. Digits(n, b) = f[n]
  BY DigitsIs
<1>3. n \div b \in Nat
  BY DivMod
<1>4. IsPrint(g, n \div b, b)
  BY <1>3, PrintExists
<1>5. Digits(n \div b, b) = g[n \div b]
  BY DigitsIs
<1> HIDE DEF f, g
<1>6. f[n] = IF n < b THEN <<n>> ELSE Append(f[n \div b], n % b)
  BY <1>1, PrintValue
<1>7. n >= b => f[n \div b] = g[n \div b]
  BY <1>1, <1>3, <1>4, DivMod, PrintAgree
<1> QED
  BY <1>2, <1>5, <1>6, <1>7 DEF Base

LEMMA DigitsType ==
  ASSUME NEW b \in Base, NEW n \in Nat
  PROVE  Digits(n, b) \in Seq(0 .. (b - 1)) /\ Len(Digits(n, b)) >= 1
<1> DEFINE OK(m) == Digits(m, b) \in Seq(0 .. (b - 1)) /\ Len(Digits(m, b)) >= 1
           T == {m \in Nat : ~ OK(m)}
<1> SUFFICES ASSUME T # {} PROVE FALSE
  OBVIOUS
<1>1. PICK m \in T : \A y \in T : m <= y
  BY LeastNumber
<1> m \in Nat /\ ~ OK(m) /\ \A y \in 0 .. (m - 1) : OK(y)
  BY <1>1
<1> HIDE DEF T
<1>2. CASE m < b
  <2>1. Digits(m, b) = <<m>> /\ m \in 0 .. (b - 1)
    BY <1>2, DigitsUnfold DEF Base
  <2> QED
    BY <2>1
<1>3. CASE m >= b
  <2>1. m \div b \in Nat /\ m \div b < m /\ m % b \in 0 .. (b - 1)
    <3>1. ~ (m < b)
      BY <1>3 DEF Base
    <3> QED
      BY <3>1, DivMod
  <2>2. Digits(m, b) = Append(Digits(m \div b, b), m % b)
    <3>1. ~ (m < b)
      BY <1>3 DEF Base
    <3> QED
      BY <3>1, DigitsUnfold, Zenon
  <2>3. OK(m \div b)
    BY <2>1
  <2> QED
    BY <2>1, <2>2, <2>3
<1> QED
  BY <1>2, <1>3 DEF Base

-----------------------------------------------------------------------------
(* Reading a number.                                                       *)

IsValue(f, s, b, n) ==
  f = [i \in 0 .. n |-> IF i = 0 THEN 0 ELSE f[i - 1] * b + s[i]]

LEMMA NumberIs ==
  ASSUME NEW s, NEW b, NEW n PROVE Number(s, b, n) = (CHOOSE f : IsValue(f, s, b, n))[n]
  BY Zenon DEF Number, IsValue

LEMMA ValueFirst ==
  ASSUME NEW s, NEW b, NEW n \in Nat, NEW f, IsValue(f, s, b, n)
  PROVE  f[0] = 0
  BY DEF IsValue

LEMMA ValueNext ==
  ASSUME NEW s, NEW b, NEW n \in Nat, NEW f, IsValue(f, s, b, n)
  PROVE  \A i \in 1 .. n : f[i] = f[i - 1] * b + s[i]
  BY DEF IsValue

\* The recursive definition of Number has a solution.
LEMMA ValueExists == ASSUME NEW s, NEW b, NEW n \in Nat PROVE \E f : IsValue(f, s, b, n)
<1> DEFINE T == {m \in Nat : ~ \E f : IsValue(f, s, b, m)}
<1> SUFFICES ASSUME T # {} PROVE FALSE
  OBVIOUS
<1>1. PICK m \in T : \A y \in T : m <= y
  BY LeastNumber
<1>2. CASE m = 0
  <2> DEFINE f == [i \in 0 .. 0 |-> 0]
  <2>1. IsValue(f, s, b, 0)
    BY DEF IsValue
  <2> QED
    BY <1>2, <2>1
<1>3. CASE m # 0
  <2>1. m \in Nat /\ m - 1 \in Nat /\ m - 1 \notin T
    BY <1>1, <1>3
  <2>2. PICK g : IsValue(g, s, b, m - 1)
    BY <2>1
  <2> DEFINE f == [i \in 0 .. m |-> IF i < m THEN g[i] ELSE g[m - 1] * b + s[m]]
             h == [i \in 0 .. m |-> IF i = 0 THEN 0 ELSE f[i - 1] * b + s[i]]
  <2>3. ASSUME NEW i \in 0 .. m PROVE f[i] = h[i]
    <3>1. /\ g[0] = 0
          /\ \A j \in 1 .. (m - 1) : g[j] = g[j - 1] * b + s[j]
      <4>1. g[0] = 0
        BY <2>1, <2>2, ValueFirst, Zenon
      <4>2. \A j \in 1 .. (m - 1) : g[j] = g[j - 1] * b + s[j]
        BY <2>1, <2>2, ValueNext, ZenonT(30)
      <4> QED
        BY <4>1, <4>2, Zenon
    <3>2. i # 0 => f[i - 1] = g[i - 1]
      BY <2>1
    <3>3. i < m => f[i] = g[i]
      BY <2>1
    <3>4. i = m => f[i] = g[i - 1] * b + s[i]
      BY <2>1
    <3>5. h[i] = IF i = 0 THEN 0 ELSE f[i - 1] * b + s[i]
      OBVIOUS
    <3> HIDE DEF f, h
    <3> QED
      BY <2>1, <1>3, <3>1, <3>2, <3>3, <3>4, <3>5
  <2>4. IsValue(f, s, b, m)
    BY <2>3 DEF IsValue
  <2> QED
    BY <2>4
<1> QED
  BY <1>2, <1>3

\* Only the first n characters matter.
LEMMA ValueAgree ==
  ASSUME NEW b, NEW n \in Nat, NEW m \in 0 .. n, NEW r, NEW s, \A i \in 1 .. m : r[i] = s[i],
         NEW f, NEW g, IsValue(f, r, b, n), IsValue(g, s, b, m)
  PROVE  f[m] = g[m]
<1> DEFINE T == {i \in 0 .. m : f[i] # g[i]}
<1>0. T \subseteq Nat /\ m \in 0 .. m
  OBVIOUS
<1> SUFFICES ASSUME T # {} PROVE FALSE
  BY <1>0
<1>1. PICK i \in T : \A y \in T : i <= y
  BY <1>0, LeastNumber
<1>2. i \in Nat /\ i <= m /\ m \in Nat
  BY <1>1
<1> HIDE DEF T
<1>3. i \in 0 .. n /\ i \in 0 .. m
  BY <1>2
<1>4. \A j \in 1 .. n : f[j] = f[j - 1] * b + r[j]
  BY ValueNext, ZenonT(30)
<1>5. \A j \in 1 .. m : g[j] = g[j - 1] * b + s[j]
  BY <1>2, ValueNext
<1>6. f[i] = g[i]
  <2>1. CASE i = 0
    BY <1>2, <2>1, ValueFirst, ZenonT(30)
  <2>2. CASE i # 0
    <3>1. i \in 1 .. n /\ i \in 1 .. m
      BY <1>2, <2>2
    <3>2. f[i - 1] = g[i - 1] /\ r[i] = s[i]
      BY <1>1, <1>2, <2>2 DEF T
    <3> QED
      BY <1>4, <1>5, <3>1, <3>2, Zenon
  <2> QED
    BY <2>1, <2>2
<1> QED
  BY <1>1, <1>6 DEF T

LEMMA NumberUnfold ==
  ASSUME NEW s, NEW b
  PROVE  /\ Number(s, b, 0) = 0
         /\ \A n \in Nat : Number(s, b, n + 1) = Number(s, b, n) * b + s[n + 1]
<1> DEFINE v(n) == CHOOSE f : IsValue(f, s, b, n)
<1>1. \A n \in Nat : IsValue(v(n), s, b, n) /\ Number(s, b, n) = v(n)[n]
  BY ValueExists, NumberIs
<1> HIDE DEF v
<1>2. Number(s, b, 0) = 0
  <2>1. 0 \in Nat
    OBVIOUS
  <2>2. v(0)[0] = 0
    BY <1>1, <2>1, ValueFirst, ZenonT(30)
  <2> QED
    BY <1>1, <2>1, <2>2, Zenon
<1>3. ASSUME NEW n \in Nat PROVE Number(s, b, n + 1) = Number(s, b, n) * b + s[n + 1]
  <2>1. IsValue(v(n + 1), s, b, n + 1) /\ IsValue(v(n), s, b, n) /\ n + 1 \in Nat
    BY <1>1
  <2>2. v(n + 1)[n + 1] = v(n + 1)[n] * b + s[n + 1]
    <3>1. n + 1 \in 1 .. (n + 1) /\ (n + 1) - 1 = n
      OBVIOUS
    <3>2. \A i \in 1 .. (n + 1) : v(n + 1)[i] = v(n + 1)[i - 1] * b + s[i]
      BY <2>1, ValueNext, Zenon
    <3>3. v(n + 1)[n + 1] = v(n + 1)[(n + 1) - 1] * b + s[n + 1]
      BY <3>1, <3>2, Zenon
    <3> QED
      BY <3>1, <3>3, Zenon
  <2>3. v(n + 1)[n] = v(n)[n]
    <3>1. n \in 0 .. (n + 1) /\ \A i \in 1 .. n : s[i] = s[i]
      OBVIOUS
    <3> QED
      BY <2>1, <3>1, ValueAgree
  <2> QED
    BY <1>1, <2>1, <2>2, <2>3
<1> QED
  BY <1>2, <1>3

LEMMA NumberAgree ==
  ASSUME NEW b, NEW n \in Nat, NEW r, NEW s, \A i \in 1 .. n : r[i] = s[i]
  PROVE  Number(r, b, n) = Number(s, b, n)
<1> DEFINE f == CHOOSE f : IsValue(f, r, b, n)
           g == CHOOSE g : IsValue(g, s, b, n)
<1>1. IsValue(f, r, b, n) /\ Number(r, b, n) = f[n]
  BY ValueExists, NumberIs
<1>2. IsValue(g, s, b, n) /\ Number(s, b, n) = g[n]
  BY ValueExists, NumberIs
<1> HIDE DEF f, g
<1>3. n \in 0 .. n
  OBVIOUS
<1> QED
  BY <1>1, <1>2, <1>3, ValueAgree

\* What is printed is read back.
LEMMA DigitsValue ==
  ASSUME NEW b \in Base, NEW n \in Nat
  PROVE  Number(Digits(n, b), b, Len(Digits(n, b))) = n
<1> DEFINE OK(m) == Number(Digits(m, b), b, Len(Digits(m, b))) = m
           T == {m \in Nat : ~ OK(m)}
<1> SUFFICES ASSUME T # {} PROVE FALSE
  OBVIOUS
<1>1. PICK m \in T : \A y \in T : m <= y
  BY LeastNumber
<1>2. m \in Nat /\ ~ OK(m) /\ \A y \in 0 .. (m - 1) : OK(y)
  BY <1>1
<1> HIDE DEF T
<1>3. CASE m < b
  <2>1. Digits(m, b) = <<m>> /\ Len(<<m>>) = 0 + 1 /\ <<m>>[0 + 1] = m
    BY <1>2, <1>3, DigitsUnfold DEF Base
  <2>2. Number(<<m>>, b, 0) = 0 /\ Number(<<m>>, b, 0 + 1) = Number(<<m>>, b, 0) * b + <<m>>[0 + 1]
    BY NumberUnfold
  <2>3. Number(<<m>>, b, 0 + 1) = m
    BY <1>2, <2>1, <2>2 DEF Base
  <2> QED
    BY <1>2, <2>1, <2>3
<1>4. CASE ~ (m < b)
  <2> DEFINE e == Digits(m \div b, b)  d == Digits(m, b)
  <2>1. /\ m \div b \in Nat /\ m \div b < m /\ m % b \in 0 .. (b - 1)
        /\ m = (m \div b) * b + (m % b)
    BY <1>2, <1>4, DivMod
  <2>2. d = Append(e, m % b)
    BY <1>2, <1>4, DigitsUnfold, Zenon
  <2>3. e \in Seq(0 .. (b - 1))
    BY <2>1, DigitsType
  <2>4. OK(m \div b)
    BY <1>2, <2>1
  <2>4a. Number(e, b, Len(e)) = m \div b
    BY <2>4
  <2> HIDE DEF e, d
  <2>5. /\ Len(e) \in Nat /\ Len(d) = Len(e) + 1 /\ d[Len(e) + 1] = m % b
        /\ \A i \in 1 .. Len(e) : d[i] = e[i]
    BY <2>1, <2>2, <2>3
  <2>6. Number(d, b, Len(e)) = Number(e, b, Len(e))
    BY <2>5, NumberAgree
  <2>7. Number(d, b, Len(e) + 1) = Number(d, b, Len(e)) * b + d[Len(e) + 1]
    BY <2>5, NumberUnfold
  <2>8. Number(d, b, Len(d)) = m
    BY <2>1, <2>4a, <2>5, <2>6, <2>7
  <2> QED
    BY <1>2, <2>8 DEF d
<1> QED
  BY <1>3, <1>4

\* A number that has lost digits is at most a base-th of what it was.
LEMMA DigitsPrefix ==
  ASSUME NEW b \in Base, NEW n \in Nat, NEW j \in 0 .. (Len(Digits(n, b)) - 1)
  PROVE  Number(Digits(n, b), b, j) \in Nat /\ Number(Digits(n, b), b, j) <= n \div b
<1> DEFINE OK(m) == \A i \in 0 .. (Len(Digits(m, b)) - 1) :
                      /\ Number(Digits(m, b), b, i) \in Nat
                      /\ Number(Digits(m, b), b, i) <= m \div b
           T == {m \in Nat : ~ OK(m)}
<1> SUFFICES ASSUME T # {} PROVE FALSE
  OBVIOUS
<1>1. PICK m \in T : \A y \in T : m <= y
  BY LeastNumber
<1>2. m \in Nat /\ ~ OK(m) /\ \A y \in 0 .. (m - 1) : OK(y)
  BY <1>1
<1> HIDE DEF T
<1>3. CASE m < b
  <2>1. Digits(m, b) = <<m>> /\ m \div b \in Nat
    BY <1>2, <1>3, DigitsUnfold, DivMod
  <2>2. Number(<<m>>, b, 0) = 0
    BY NumberUnfold
  <2>3. \A i \in 0 .. (Len(<<m>>) - 1) : i = 0
    OBVIOUS
  <2> QED
    BY <1>2, <2>1, <2>2, <2>3
<1>4. CASE ~ (m < b)
  <2> DEFINE e == Digits(m \div b, b)  d == Digits(m, b)
  <2>1. m \div b \in Nat /\ m \div b < m /\ m % b \in 0 .. (b - 1)
    BY <1>2, <1>4, DivMod
  <2>2. d = Append(e, m % b)
    BY <1>2, <1>4, DigitsUnfold, Zenon
  <2>3. e \in Seq(0 .. (b - 1)) /\ Number(e, b, Len(e)) = m \div b
    BY <2>1, DigitsType, DigitsValue
  <2>4. \A i \in 0 .. (Len(e) - 1) :
          Number(e, b, i) \in Nat /\ Number(e, b, i) <= (m \div b) \div b
    <3>1. OK(m \div b)
      BY <1>2, <2>1
    <3> QED
      BY <3>1
  <2>5. (m \div b) \div b <= m \div b
    BY <2>1, DivMod
  <2>6. (m \div b) \div b \in Nat
    BY <2>1, DivMod
  <2> HIDE DEF e, d
  <2>7. /\ Len(e) \in Nat /\ Len(d) = Len(e) + 1
        /\ \A i \in 1 .. Len(e) : d[i] = e[i]
    BY <2>1, <2>2, <2>3
  <2>8. ASSUME NEW i \in 0 .. (Len(d) - 1)
        PROVE  Number(d, b, i) \in Nat /\ Number(d, b, i) <= m \div b
    <3>1. i \in Nat /\ i <= Len(e)
      BY <2>7
    <3>2. Number(d, b, i) = Number(e, b, i)
      BY <2>7, <3>1, NumberAgree
    <3>3. i = Len(e) \/ i \in 0 .. (Len(e) - 1)
      BY <2>7, <3>1
    <3>4. CASE i = Len(e)
      BY <2>1, <2>3, <3>2, <3>4
    <3>5. CASE i \in 0 .. (Len(e) - 1)
      BY <2>1, <2>4, <2>5, <2>6, <3>2, <3>5
    <3> QED
      BY <3>3, <3>4, <3>5
  <2> QED
    BY <1>2, <2>8 DEF d
<1> QED
  BY <1>3, <1>4

LEMMA MaxIs ==
  ASSUME NEW S \in SUBSET Int, NEW m \in S, \A y \in S : y <= m
  PROVE  Max(S) = m
<1>1. \A y \in S : m >= y
  OBVIOUS
<1>2. \A x \in S : (\A y \in S : x >= y) => x = m
  OBVIOUS
<1> QED
  BY <1>1, <1>2, Zenon DEF Max

LEMMA MinIs ==
  ASSUME NEW S \in SUBSET Int, NEW m \in S, \A y \in S : m <= y
  PROVE  Min(S) = m
<1>1. \A y \in S : m =< y
  OBVIOUS
<1>2. \A x \in S : (\A y \in S : x =< y) => x = m
  OBVIOUS
<1> QED
  BY <1>1, <1>2, Zenon DEF Min

\* strtoul reads the digits in front and stops at their end.
LEMMA StrtoulStops ==
  ASSUME NEW b \in Base, NEW s \in Seq(Int), NEW m \in 0 .. Len(s),
         \A i \in 1 .. m : s[i] \in 0 .. (b - 1),
         m = Len(s) \/ s[m + 1] \notin 0 .. (b - 1)
  PROVE  strtoul(s, b) = Number(s, b, m)
<1> DEFINE S == {i \in 0 .. Len(s) : \A j \in 1 .. i : s[j] \in 0 .. (b - 1)}
<1>1. m \in S /\ S \subseteq Nat
  OBVIOUS
<1>2. \A y \in S : y <= m
  <2> SUFFICES ASSUME NEW y \in S, y > m PROVE FALSE
    OBVIOUS
  <2>1. m + 1 \in 1 .. y /\ m # Len(s)
    OBVIOUS
  <2> QED
    BY <2>1
<1> HIDE DEF S
<1>3. Max(S) = m
  BY <1>1, <1>2, MaxIs
<1> QED
  BY <1>3 DEF strtoul, S

\* Of a printed number, cut or not, that something else or nothing follows.
LEMMA StrtoulReads ==
  ASSUME NEW b \in Base, NEW n \in Nat, NEW s \in Seq(Int),
         NEW m \in 0 .. Len(Digits(n, b)), m <= Len(s),
         \A i \in 1 .. m : s[i] = Digits(n, b)[i],
         m = Len(s) \/ s[m + 1] \notin 0 .. (b - 1)
  PROVE  /\ m = Len(Digits(n, b)) => strtoul(s, b) = n
         /\ m < Len(Digits(n, b)) => strtoul(s, b) \in Nat /\ strtoul(s, b) <= n \div b
<1> DEFINE d == Digits(n, b)
<1>1. d \in Seq(0 .. (b - 1)) /\ Len(d) \in Nat /\ m \in 0 .. Len(s) /\ m \in Nat
  BY DigitsType
<1>2. Number(d, b, Len(d)) = n
  BY DigitsValue
<1>3. m < Len(d) => Number(d, b, m) \in Nat /\ Number(d, b, m) <= n \div b
  BY <1>1, DigitsPrefix
<1> HIDE DEF d
<1>4. \A i \in 1 .. m : s[i] = d[i] /\ s[i] \in 0 .. (b - 1)
  <2>1. \A i \in 1 .. Len(d) : d[i] \in 0 .. (b - 1)
    BY <1>1, ElementOfSeq
  <2>2. \A i \in 1 .. m : s[i] = d[i] /\ i \in 1 .. Len(d)
    BY <1>1 DEF d
  <2> QED
    BY <2>1, <2>2
<1>5. strtoul(s, b) = Number(s, b, m)
  BY <1>1, <1>4, StrtoulStops
<1>6. Number(s, b, m) = Number(d, b, m)
  BY <1>1, <1>4, NumberAgree
<1> QED
  BY <1>1, <1>2, <1>3, <1>5, <1>6 DEF d

-----------------------------------------------------------------------------
(* Text.                                                                   *)

LEMMA Constants ==
  /\ Hex \in Base /\ Dec \in Base /\ Radix \in Base
  /\ Octets \in Nat /\ Octet \subseteq Nat
  /\ Address \subseteq 0 .. (Radix * Radix - 1)
  BY LeaseFileAssumption DEF Base

LEMMA Separators == Colon \in Int /\ Delimiter \in Int /\ Dot \in Int
  BY DEF Colon, Delimiter, Dot

LEMMA DigitsText ==
  ASSUME NEW b \in Base, NEW n \in Nat
  PROVE  /\ Digits(n, b) \in Seq(Int) /\ Len(Digits(n, b)) \in Nat
         /\ \A i \in 1 .. Len(Digits(n, b)) :
              /\ Digits(n, b)[i] \in Int
              /\ Digits(n, b)[i] \notin {Colon, Delimiter, Dot}
<1> DEFINE d == Digits(n, b)
<1>1. d \in Seq(0 .. (b - 1))
  BY DigitsType
<1> HIDE DEF d
<1>2. 0 .. (b - 1) \subseteq Int
  OBVIOUS
<1>3. d \in Seq(Int) /\ Len(d) \in Nat
  BY <1>1, <1>2, SeqMonotonic, LenProperties, Zenon
<1>4. \A i \in 1 .. Len(d) : d[i] \in 0 .. (b - 1)
  BY <1>1, ElementOfSeq
<1>5. \A i \in 1 .. Len(d) : d[i] \in Int /\ d[i] \notin {Colon, Delimiter, Dot}
  BY <1>4 DEF Colon, Delimiter, Dot
<1> QED
  BY <1>3, <1>5 DEF d

\* A concatenation, by position.
LEMMA Concatenated ==
  ASSUME NEW x \in Seq(Int), NEW y \in Seq(Int)
  PROVE  /\ x \o y \in Seq(Int) /\ Len(x \o y) = Len(x) + Len(y)
         /\ \A i \in 1 .. Len(x) : (x \o y)[i] = x[i]
         /\ \A i \in 1 .. Len(y) : (x \o y)[Len(x) + i] = y[i]
<1>1. /\ x \o y \in Seq(Int) /\ Len(x \o y) = Len(x) + Len(y)
      /\ \A i \in 1 .. Len(x) + Len(y) :
           (x \o y)[i] = IF i <= Len(x) THEN x[i] ELSE y[i - Len(x)]
  BY ConcatProperties, Zenon
<1>2. Len(x) \in Nat /\ Len(y) \in Nat
  BY LenProperties, Zenon
<1> QED
  BY <1>1, <1>2, SMT

\* x, a separator, y.
LEMMA Joined ==
  ASSUME NEW x \in Seq(Int), NEW c \in Int, NEW y \in Seq(Int)
  PROVE  LET z == x \o <<c>> \o y
         IN  /\ z \in Seq(Int) /\ Len(z) = Len(x) + 1 + Len(y)
             /\ \A i \in 1 .. Len(x) : z[i] = x[i]
             /\ z[Len(x) + 1] = c
             /\ \A i \in 1 .. Len(y) : z[Len(x) + 1 + i] = y[i]
<1> DEFINE w == x \o <<c>>  z == w \o y
<1>1. /\ w \in Seq(Int) /\ Len(w) = Len(x) + 1 /\ w[Len(x) + 1] = c
      /\ \A i \in 1 .. Len(x) : w[i] = x[i]
  OBVIOUS
<1>2. Len(x) \in Nat /\ Len(y) \in Nat
  OBVIOUS
<1> HIDE DEF w
<1>3. /\ z \in Seq(Int) /\ Len(z) = Len(w) + Len(y)
      /\ \A i \in 1 .. Len(w) : z[i] = w[i]
      /\ \A i \in 1 .. Len(y) : z[Len(w) + i] = y[i]
  BY <1>1, Concatenated
<1> HIDE DEF z
<1>4. \A i \in 1 .. Len(y) : z[Len(x) + 1 + i] = y[i]
  BY <1>1, <1>2, <1>3
<1>5. z[Len(x) + 1] = c /\ \A i \in 1 .. Len(x) : z[i] = x[i]
  BY <1>1, <1>2, <1>3
<1>6. z \in Seq(Int) /\ Len(z) = Len(x) + 1 + Len(y)
  BY <1>1, <1>2, <1>3
<1> QED
  BY <1>4, <1>5, <1>6 DEF z, w

LEMMA Part ==
  ASSUME NEW s \in Seq(Int), NEW p \in 1 .. (Len(s) + 1), NEW q \in (p - 1) .. Len(s)
  PROVE  /\ SubSeq(s, p, q) \in Seq(Int) /\ Len(SubSeq(s, p, q)) = q - p + 1
         /\ \A i \in 1 .. (q - p + 1) : SubSeq(s, p, q)[i] = s[p + i - 1]
  OBVIOUS

\* Two texts are the same if they have the same characters.
LEMMA SameText ==
  ASSUME NEW x \in Seq(Int), NEW y \in Seq(Int), Len(x) = Len(y),
         \A i \in 1 .. Len(x) : x[i] = y[i]
  PROVE  x = y
  OBVIOUS

LEMMA FindIs ==
  ASSUME NEW s \in Seq(Int), NEW i \in 0 .. Len(s), NEW p \in (i + 1) .. (Len(s) + 1), NEW c,
         \A j \in (i + 1) .. (p - 1) : s[j] # c, p = Len(s) + 1 \/ s[p] = c
  PROVE  Find(s, i, c) = p
<1> DEFINE S == {j \in (i + 1) .. Len(s) : s[j] = c}
<1>1. Len(s) \in Nat /\ i \in Nat /\ p \in Nat
  OBVIOUS
<1>2. S \subseteq Int /\ \A y \in S : p <= y
  BY <1>1
<1>3. CASE p = Len(s) + 1
  <2>1. S = {}
    BY <1>1, <1>3
  <2> QED
    BY <1>3, <2>1, Zenon DEF Find
<1>4. CASE p # Len(s) + 1
  <2>1. p \in S
    BY <1>1, <1>4
  <2>2. Min(S) = p
    BY <1>2, <2>1, MinIs
  <2>3. S # {}
    BY <2>1
  <2> QED
    BY <2>2, <2>3, Zenon DEF Find
<1> QED
  BY <1>3, <1>4

LEMMA FindFirst ==
  ASSUME NEW s \in Seq(Int), NEW p \in Nat, p >= 1, p <= Len(s) + 1, NEW c,
         \A j \in 1 .. (p - 1) : s[j] # c, p = Len(s) + 1 \/ s[p] = c
  PROVE  Find(s, 0, c) = p
<1> DEFINE i == 0
<1>1. i \in 0 .. Len(s) /\ p \in (i + 1) .. (Len(s) + 1)
  OBVIOUS
<1>2. \A j \in (i + 1) .. (p - 1) : s[j] # c
  OBVIOUS
<1>3. i = 0
  OBVIOUS
<1> HIDE DEF i
<1>4. Find(s, i, c) = p
  BY <1>1, <1>2, FindIs
<1> QED
  BY <1>3, <1>4

-----------------------------------------------------------------------------
(* An address.                                                             *)

LEMMA AddressParts ==
  ASSUME NEW a \in Address
  PROVE  /\ a \in Nat /\ a \div Radix \in Nat /\ a % Radix \in Nat
         /\ a = (a \div Radix) * Radix + (a % Radix)
         /\ a \div Radix < Radix
<1>1. a \in Nat /\ a < Radix * Radix
  BY Constants DEF Base
<1>2. /\ a \div Radix \in Nat /\ a % Radix \in 0 .. (Radix - 1)
      /\ a = (a \div Radix) * Radix + (a % Radix)
  BY <1>1, Constants, DivMod
<1>3. a \div Radix < Radix
  <2> SUFFICES ASSUME a \div Radix >= Radix PROVE FALSE
    BY <1>2, Constants DEF Base
  <2>1. (a \div Radix) * Radix >= Radix * Radix
    BY <1>2, Constants DEF Base
  <2> QED
    BY <1>1, <1>2, <2>1, Constants DEF Base
<1> QED
  BY <1>1, <1>2, <1>3

AddrFirst(a) == Digits(a \div Radix, Dec)
AddrSecond(a) == Digits(a % Radix, Dec)

LEMMA AddrText ==
  ASSUME NEW a \in Address
  PROVE  LET p == AddrFirst(a)  q == AddrSecond(a)  s == inet_ntoa(a)
         IN  /\ Len(p) \in Nat /\ Len(q) \in Nat
             /\ s \in Seq(Int) /\ Len(s) = Len(p) + 1 + Len(q)
             /\ \A i \in 1 .. Len(p) : s[i] = p[i]
             /\ s[Len(p) + 1] = Dot
             /\ \A i \in 1 .. Len(q) : s[Len(p) + 1 + i] = q[i]
<1>1. AddrFirst(a) \in Seq(Int) /\ Len(AddrFirst(a)) \in Nat
  BY AddressParts, Constants, DigitsText DEF AddrFirst
<1>2. AddrSecond(a) \in Seq(Int) /\ Len(AddrSecond(a)) \in Nat
  BY AddressParts, Constants, DigitsText DEF AddrSecond
<1>3. inet_ntoa(a) = AddrFirst(a) \o <<Dot>> \o AddrSecond(a)
  BY Zenon DEF inet_ntoa, AddrFirst, AddrSecond
<1> QED
  BY <1>1, <1>2, <1>3, Separators, Joined

\* inet_aton reads what inet_ntoa printed.
LEMMA AddrReads == ASSUME NEW a \in Address PROVE inet_aton(inet_ntoa(a)) = a
<1> DEFINE p == AddrFirst(a)  q == AddrSecond(a)  s == inet_ntoa(a)
<1>1. /\ Len(p) \in Nat /\ Len(q) \in Nat
      /\ s \in Seq(Int) /\ Len(s) = Len(p) + 1 + Len(q)
      /\ \A i \in 1 .. Len(p) : s[i] = p[i]
      /\ s[Len(p) + 1] = Dot
      /\ \A i \in 1 .. Len(q) : s[Len(p) + 1 + i] = q[i]
  BY AddrText
<1>2. \A i \in 1 .. Len(p) : p[i] # Dot
  BY AddressParts, Constants, DigitsText DEF AddrFirst
<1> DEFINE t == SubSeq(s, Len(p) + 2, Len(s))
<1> HIDE DEF p, q, s
<1>3. strtoul(s, Dec) = a \div Radix
  <2>1. Dot \notin 0 .. (Dec - 1)
    BY Constants DEF Dot, Base
  <2>2. Len(p) \in 0 .. Len(p) /\ Len(p) <= Len(s)
    BY <1>1
  <2> QED
    BY <1>1, <2>1, <2>2, AddressParts, Constants, StrtoulReads DEF p, AddrFirst
<1>4. Find(s, 0, Dot) = Len(p) + 1
  <2>1. Len(p) + 1 \in Nat /\ Len(p) + 1 >= 1 /\ Len(p) + 1 <= Len(s) + 1
    BY <1>1
  <2>2. \A j \in 1 .. ((Len(p) + 1) - 1) : s[j] # Dot
    BY <1>1, <1>2
  <2>3. s \in Seq(Int) /\ s[Len(p) + 1] = Dot
    BY <1>1
  <2> QED
    BY <2>1, <2>2, <2>3, FindFirst
<1>5. /\ t \in Seq(Int) /\ Len(t) = Len(q)
      /\ \A i \in 1 .. Len(q) : t[i] = q[i]
  <2>1. Len(p) + 2 \in 1 .. (Len(s) + 1) /\ Len(s) \in ((Len(p) + 2) - 1) .. Len(s)
    BY <1>1
  <2>2. Len(s) - (Len(p) + 2) + 1 = Len(q)
    BY <1>1
  <2>3. /\ t \in Seq(Int) /\ Len(t) = Len(q)
        /\ \A i \in 1 .. Len(q) : t[i] = s[Len(p) + 2 + i - 1]
    BY <1>1, <2>1, <2>2, Part
  <2> HIDE DEF t
  <2>4. \A i \in 1 .. Len(q) : Len(p) + 2 + i - 1 = Len(p) + 1 + i
    BY <1>1
  <2> QED
    BY <1>1, <2>3, <2>4
<1>6. strtoul(t, Dec) = a % Radix
  <2> HIDE DEF t
  <2>1. Len(q) \in 0 .. Len(q) /\ Len(q) <= Len(t)
    BY <1>1, <1>5
  <2> QED
    BY <1>5, <2>1, AddressParts, Constants, StrtoulReads DEF q, AddrSecond
<1>7. inet_aton(s) = (a \div Radix) * Radix + (a % Radix)
  <2>1. (Len(p) + 1) + 1 = Len(p) + 2
    BY <1>1
  <2> QED
    BY <1>3, <1>4, <1>6, <2>1, Zenon DEF inet_aton
<1> QED
  BY <1>7, AddressParts DEF s

\* The beginning of an address, cut anywhere, is a number below Radix.
LEMMA AddrCut ==
  ASSUME NEW a \in Address, NEW t \in Seq(Int), Len(t) <= Len(inet_ntoa(a)),
         \A i \in 1 .. Len(t) : t[i] = inet_ntoa(a)[i]
  PROVE  strtoul(t, Dec) \in Nat /\ strtoul(t, Dec) < Radix
<1> DEFINE p == AddrFirst(a)  s == inet_ntoa(a)  n == a \div Radix
<1>1. /\ Len(p) \in Nat /\ s \in Seq(Int) /\ Len(t) <= Len(s)
      /\ \A i \in 1 .. Len(p) : s[i] = p[i]
      /\ s[Len(p) + 1] = Dot
      /\ \A i \in 1 .. Len(t) : t[i] = s[i]
  BY AddrText
<1>2. n \in Nat /\ n < Radix /\ n \div Dec \in Nat /\ n \div Dec <= n
  BY AddressParts, Constants, DivMod
<1>3. Len(t) \in Nat /\ Radix \in Nat /\ Dot \notin 0 .. (Dec - 1)
  BY Constants DEF Dot, Base
<1>4. p = Digits(n, Dec)
  BY DEF AddrFirst
<1> HIDE DEF p, s, n
<1>5. CASE Len(t) <= Len(p)
  <2>1. Len(t) \in 0 .. Len(p) /\ \A i \in 1 .. Len(t) : t[i] = p[i]
    BY <1>1, <1>3, <1>5
  <2>2. Len(t) <= Len(t) /\ (Len(t) = Len(t) \/ t[Len(t) + 1] \notin 0 .. (Dec - 1))
    BY <1>3
  <2>3. /\ Len(t) = Len(p) => strtoul(t, Dec) = n
        /\ Len(t) < Len(p) => strtoul(t, Dec) \in Nat /\ strtoul(t, Dec) <= n \div Dec
    BY <1>2, <1>4, <2>1, <2>2, Constants, StrtoulReads, Zenon
  <2> QED
    BY <1>1, <1>2, <1>3, <1>5, <2>3
<1>6. CASE Len(t) > Len(p)
  <2>1. Len(p) \in 0 .. Len(p) /\ Len(p) <= Len(t) /\ Len(p) + 1 \in 1 .. Len(t)
    BY <1>1, <1>3, <1>6
  <2>2. t[Len(p) + 1] = Dot /\ \A i \in 1 .. Len(p) : t[i] = p[i]
    BY <1>1, <1>3, <1>6, <2>1
  <2>3. strtoul(t, Dec) = n
    BY <1>2, <1>3, <1>4, <2>1, <2>2, Constants, StrtoulReads
  <2> QED
    BY <1>2, <2>3
<1> QED
  BY <1>1, <1>3, <1>5, <1>6
=============================================================================
