--------------------------- MODULE DatagramProofs ---------------------------
(***************************************************************************)
(* Proofs about Datagram, for every set of messages in the wire format,    *)
(* every configuration, all addresses and times, and both byte orders.     *)
(*                                                                         *)
(* First what the conversions of bytemanip do, then the parts of a         *)
(* sequence of bytes, then the inductive invariant IInv with one lemma for *)
(* each action, and the three theorems.                                    *)
(***************************************************************************)
EXTENDS Datagram, SequenceTheorems, TLAPS

-----------------------------------------------------------------------------
(* bytemanip.                                                              *)

\* The last byte of a number and the rest.
LEMMA ByteParts ==
  ASSUME NEW n \in Nat
  PROVE  n % 256 \in Byte /\ n \div 256 \in Nat /\ (n \div 256) * 256 + (n % 256) = n
  BY SMT DEF Byte

LEMMA ByteMod == ASSUME NEW n \in Byte PROVE n % 256 = n /\ n \in Nat
  BY SMT DEF Byte

\* Tuples as operators, which the provers then need not look into.
Two(a, b) == <<a, b>>
Four(a, b, c, d) == <<a, b, c, d>>

LEMMA TwoSeq ==
  ASSUME NEW a \in Byte, NEW b \in Byte
  PROVE  /\ Two(a, b) \in Seq(Byte) /\ Len(Two(a, b)) = 2
  BY SMT DEF Two

LEMMA FourSeq ==
  ASSUME NEW a \in Byte, NEW b \in Byte, NEW c \in Byte, NEW d \in Byte
  PROVE  /\ Four(a, b, c, d) \in Seq(Byte) /\ Len(Four(a, b, c, d)) = 4
  BY SMT DEF Four

\* Four bytes, most significant first, and their number.
LEMMA NumberOfBytes ==
  ASSUME NEW a \in Byte, NEW b \in Byte, NEW c \in Byte, NEW d \in Byte
  PROVE  /\ to_number(Four(a, b, c, d)) \in Word
         /\ to_byte_array(to_number(Four(a, b, c, d)), 4) = Four(a, b, c, d)
<1> DEFINE ab == a * 256 + b  abc == ab * 256 + c  n == abc * 256 + d
<1>1. a \in Nat /\ a % 256 = a
  BY ByteMod
<1>2. ab \in Nat /\ ab \div 256 = a /\ ab % 256 = b
  BY <1>1, SMT DEF Byte
<1> HIDE DEF ab
<1>3. abc \in Nat /\ abc \div 256 = ab /\ abc % 256 = c
  BY <1>2, SMT DEF Byte
<1> HIDE DEF abc
<1>4. n \in Nat /\ n \div 256 = abc /\ n % 256 = d
  BY <1>3, SMT DEF Byte
<1>5. to_number(Four(a, b, c, d)) = n
  BY SMT DEF to_number, Four, n, abc, ab
<1> HIDE DEF n
<1> QED
  BY <1>1, <1>2, <1>3, <1>4, <1>5, SMT DEF to_byte_array, Word, Four, n, abc, ab

\* The bytes of a number, and the number they give back.
LEMMA BytesOfNumber ==
  ASSUME NEW n \in Word
  PROVE  \E a, b, c, d \in Byte :
           to_byte_array(n, 4) = Four(a, b, c, d) /\ to_number(Four(a, b, c, d)) = n
<1> DEFINE n1 == n \div 256  n2 == n1 \div 256  n3 == n2 \div 256
           b0 == n % 256  b1 == n1 % 256  b2 == n2 % 256
<1>1. n \in Nat /\ n3 \in Byte
  BY DEF Word
<1>2. n1 \in Nat /\ b0 \in Byte /\ n1 * 256 + b0 = n
  BY <1>1, SMT DEF Byte
<1>3. n2 \in Nat /\ b1 \in Byte /\ n2 * 256 + b1 = n1
  BY <1>2, SMT DEF Byte
<1>4. b2 \in Byte /\ n3 * 256 + b2 = n2 /\ n3 % 256 = n3
  BY <1>1, <1>3, SMT DEF Byte
<1>5. to_byte_array(n, 4) = Four(n3, b2, b1, b0)
  BY <1>4, SMT DEF to_byte_array, Four
<1> HIDE DEF n1, n2, n3, b0, b1, b2
<1>6. to_number(Four(n3, b2, b1, b0)) = n
  BY <1>1, <1>2, <1>3, <1>4, SMT DEF to_number, Four
<1>7. n3 \in Byte /\ b2 \in Byte /\ b1 \in Byte /\ b0 \in Byte
  BY <1>1, <1>2, <1>3, <1>4
<1> QED
  BY <1>5, <1>6, <1>7, Zenon

LEMMA ReversedBytes ==
  ASSUME NEW a, NEW b, NEW c, NEW d
  PROVE  Reversed(Four(a, b, c, d)) = Four(d, c, b, a)
  BY SMT DEF Reversed, Four

\* parse_ip_address and its like write numbers in network order.
LEMMA WordBytes ==
  ASSUME NEW n \in Word
  PROVE  /\ to_byte_array(n, 4) \in Seq(Byte) /\ Len(to_byte_array(n, 4)) = 4
         /\ to_byte_array(n, 4) = BigEndian(n)
<1>1. to_byte_array(n, 4) \in Seq(Byte) /\ Len(to_byte_array(n, 4)) = 4
  BY BytesOfNumber, FourSeq, SMT
<1>2. (((n \div 256) \div 256) \div 256) % 256 = ((n \div 256) \div 256) \div 256
  BY ByteMod, SMT DEF Word
<1> QED
  BY <1>1, <1>2, SMT DEF to_byte_array, BigEndian

\* htonl twice is the identity, on hosts of either byte order.
LEMMA HtonTwice ==
  ASSUME NEW n \in Word
  PROVE  hton(n, 4) \in Word /\ hton(hton(n, 4), 4) = n
<1>1. PICK a \in Byte, b \in Byte, c \in Byte, d \in Byte :
        to_byte_array(n, 4) = Four(a, b, c, d) /\ to_number(Four(a, b, c, d)) = n
  BY BytesOfNumber, Zenon
<1>2. CASE little
  <2>1. hton(n, 4) = to_number(Four(d, c, b, a))
    BY <1>1, <1>2, ReversedBytes, SMT DEF hton
  <2>2. hton(n, 4) \in Word /\ to_byte_array(hton(n, 4), 4) = Four(d, c, b, a)
    BY <2>1, NumberOfBytes, SMT
  <2>3. hton(hton(n, 4), 4) = to_number(Reversed(to_byte_array(hton(n, 4), 4)))
    BY <1>2, Zenon DEF hton
  <2> QED
    BY <1>1, <2>2, <2>3, ReversedBytes, SMT
<1>3. CASE ~ little
  BY <1>3, Zenon DEF hton
<1> QED
  BY <1>2, <1>3, Zenon

\* What is read from the wire through ntohl is written back through htonl as it was.
LEMMA NetworkRoundTrip ==
  ASSUME NEW a \in Byte, NEW b \in Byte, NEW c \in Byte, NEW d \in Byte
  PROVE  to_network_byte_array(convert_network_byte_array(Four(a, b, c, d)), 4) = Four(a, b, c, d)
<1>1. Len(Four(a, b, c, d)) = 4
  BY FourSeq, Zenon
<1> QED
  BY <1>1, NumberOfBytes, HtonTwice, SMT
     DEF to_network_byte_array, convert_network_byte_array

\* So is what is neither read nor written through them.
LEMMA HostRoundTrip ==
  ASSUME NEW a \in Byte, NEW b \in Byte
  PROVE  to_byte_array(to_number(Two(a, b)), 2) = Two(a, b)
<1>1. to_number(Two(a, b)) = a * 256 + b
  BY SMT DEF to_number, Two
<1>2. (a * 256 + b) % 256 = b /\ (a * 256 + b) \div 256 = a /\ a % 256 = a
  BY SMT DEF Byte
<1> QED
  BY <1>1, <1>2, SMT DEF to_byte_array, Two

\* Sixteen bits, whose values the proofs do not need.
LEMMA ShortBytes ==
  ASSUME NEW n \in Nat
  PROVE  /\ to_byte_array(n, 2) \in Seq(Byte) /\ Len(to_byte_array(n, 2)) = 2
         /\ to_network_byte_array(n, 2) \in Seq(Byte) /\ Len(to_network_byte_array(n, 2)) = 2
<1>1. ASSUME NEW k \in Nat
      PROVE  to_byte_array(k, 2) = Two((k \div 256) % 256, k % 256)
             /\ (k \div 256) % 256 \in Byte /\ k % 256 \in Byte
  BY ByteParts, SMT DEF to_byte_array, Two
<1>2. ASSUME NEW k \in Nat
      PROVE  to_byte_array(k, 2) \in Seq(Byte) /\ Len(to_byte_array(k, 2)) = 2
  BY <1>1, TwoSeq, SMT
<1>3. hton(n, 2) \in Nat
  <2> DEFINE x == (n \div 256) % 256  y == n % 256
  <2>1. x \in Byte /\ y \in Byte /\ to_byte_array(n, 2) = Two(x, y)
    BY <1>1
  <2> HIDE DEF x, y
  <2>2. to_number(Reversed(Two(x, y))) = y * 256 + x
    BY SMT DEF Reversed, to_number, Two
  <2>3. y * 256 + x \in Nat
    BY <2>1, SMT DEF Byte
  <2> QED
    BY <2>1, <2>2, <2>3, Zenon DEF hton
<1> QED
  BY <1>2, <1>3, Zenon DEF to_network_byte_array
-----------------------------------------------------------------------------
(* Sequences of bytes.                                                     *)

\* A concatenation, by position.
LEMMA Joined ==
  ASSUME NEW s \in Seq(Byte), NEW t \in Seq(Byte)
  PROVE  /\ s \o t \in Seq(Byte) /\ Len(s \o t) = Len(s) + Len(t)
         /\ \A i \in 1 .. Len(s) : (s \o t)[i] = s[i]
         /\ \A i \in 1 .. Len(t) : (s \o t)[Len(s) + i] = t[i]
<1>1. /\ s \o t \in Seq(Byte) /\ Len(s \o t) = Len(s) + Len(t)
      /\ \A i \in 1 .. Len(s) + Len(t) :
           (s \o t)[i] = IF i <= Len(s) THEN s[i] ELSE t[i - Len(s)]
  BY ConcatProperties, Zenon
<1>2. Len(s) \in Nat /\ Len(t) \in Nat
  BY LenProperties, Zenon
<1> QED
  BY <1>1, <1>2, SMT

\* What to_byte_vector makes of the fields of d, and where it puts those a client looks at.
LEMMA HeaderBytes ==
  ASSUME NEW d, d.opcode \in Byte, d.hwaddr_type \in Byte, d.hwaddr_len \in Byte,
         to_network_byte_array(d.transaction_id, 4) \in Seq(Byte),
         Len(to_network_byte_array(d.transaction_id, 4)) = 4,
         d.secs_passed \in Nat,
         to_byte_array(d.flags, 2) \in Seq(Byte), Len(to_byte_array(d.flags, 2)) = 2,
         d.client_ip \in Word, d.assigned_ip \in Word,
         d.hw_addr \in Seq(Byte), Len(d.hw_addr) = 16
  PROVE  /\ Header(d) \in Seq(Byte) /\ Len(Header(d)) = OPTIONS_OFFSET
         /\ Header(d)[1] = d.opcode /\ Header(d)[2] = d.hwaddr_type
         /\ Header(d)[3] = d.hwaddr_len
         /\ \A i \in 1 .. 4 : Header(d)[4 + i] = to_network_byte_array(d.transaction_id, 4)[i]
         /\ \A i \in 1 .. 2 : Header(d)[10 + i] = to_byte_array(d.flags, 2)[i]
         /\ \A i \in 1 .. 4 : Header(d)[16 + i] = to_byte_array(d.assigned_ip, 4)[i]
         /\ \A i \in 1 .. 16 : Header(d)[28 + i] = d.hw_addr[i]
<1> DEFINE h1 == <<d.opcode, d.hwaddr_type, d.hwaddr_len, 0>>
           p2 == to_network_byte_array(d.transaction_id, 4)
           p3 == to_network_byte_array(d.secs_passed, 2)
           p4 == to_byte_array(d.flags, 2)
           p5 == to_byte_array(d.client_ip, 4)
           p6 == to_byte_array(d.assigned_ip, 4)
           p7 == Zeros(8)
           p8 == d.hw_addr
           p9 == Zeros(192)
           p10 == DHCP_MAGIC_COOKIE
           h2 == h1 \o p2  h3 == h2 \o p3  h4 == h3 \o p4  h5 == h4 \o p5  h6 == h5 \o p6
           h7 == h6 \o p7  h8 == h7 \o p8  h9 == h8 \o p9  h10 == h9 \o p10
<1>1. Header(d) = h10
  BY Zenon DEF Header
<1>2. /\ h1 \in Seq(Byte) /\ Len(h1) = 4
      /\ h1[1] = d.opcode /\ h1[2] = d.hwaddr_type /\ h1[3] = d.hwaddr_len
  BY SMT DEF Byte
<1>3. p3 \in Seq(Byte) /\ Len(p3) = 2
  BY ShortBytes, SMT
<1>4. p5 \in Seq(Byte) /\ Len(p5) = 4 /\ p6 \in Seq(Byte) /\ Len(p6) = 4
  BY WordBytes, SMT
<1>5. p7 \in Seq(Byte) /\ Len(p7) = 8 /\ p9 \in Seq(Byte) /\ Len(p9) = 192
  BY SMT DEF Zeros, Byte
<1>6. p10 \in Seq(Byte) /\ Len(p10) = 4
  BY SMT DEF DHCP_MAGIC_COOKIE, Byte
<1>7. /\ p2 \in Seq(Byte) /\ Len(p2) = 4 /\ p4 \in Seq(Byte) /\ Len(p4) = 2
      /\ p8 \in Seq(Byte) /\ Len(p8) = 16
  OBVIOUS
<1> HIDE DEF h1, p2, p3, p4, p5, p6, p7, p8, p9, p10
<1>8. /\ h1 \in Seq(Byte) /\ p2 \in Seq(Byte) /\ p3 \in Seq(Byte) /\ p4 \in Seq(Byte)
      /\ p5 \in Seq(Byte) /\ p6 \in Seq(Byte) /\ p7 \in Seq(Byte) /\ p8 \in Seq(Byte)
      /\ p9 \in Seq(Byte) /\ p10 \in Seq(Byte)
  BY <1>2, <1>3, <1>4, <1>5, <1>6, <1>7, SMT
<1>9. /\ Len(h1) = 4 /\ Len(p2) = 4 /\ Len(p3) = 2 /\ Len(p4) = 2 /\ Len(p5) = 4
      /\ Len(p6) = 4 /\ Len(p7) = 8 /\ Len(p8) = 16 /\ Len(p9) = 192 /\ Len(p10) = 4
  BY <1>2, <1>3, <1>4, <1>5, <1>6, <1>7, SMT
<1>10. /\ h2 \in Seq(Byte) /\ Len(h2) = Len(h1) + Len(p2)
       /\ \A i \in 1 .. Len(h1) : h2[i] = h1[i]
       /\ \A i \in 1 .. Len(p2) : h2[Len(h1) + i] = p2[i]
  <2>1. h1 \in Seq(Byte) /\ p2 \in Seq(Byte)
    BY <1>8, Zenon
  <2> QED
    BY ONLY <2>1, Joined, Zenon DEF h2
<1> HIDE DEF h2
<1>11. /\ h3 \in Seq(Byte) /\ Len(h3) = Len(h2) + Len(p3)
       /\ \A i \in 1 .. Len(h2) : h3[i] = h2[i]
       /\ \A i \in 1 .. Len(p3) : h3[Len(h2) + i] = p3[i]
  <2>1. h2 \in Seq(Byte) /\ p3 \in Seq(Byte)
    BY <1>8, <1>10, Zenon
  <2> QED
    BY ONLY <2>1, Joined, Zenon DEF h3
<1> HIDE DEF h3
<1>12. /\ h4 \in Seq(Byte) /\ Len(h4) = Len(h3) + Len(p4)
       /\ \A i \in 1 .. Len(h3) : h4[i] = h3[i]
       /\ \A i \in 1 .. Len(p4) : h4[Len(h3) + i] = p4[i]
  <2>1. h3 \in Seq(Byte) /\ p4 \in Seq(Byte)
    BY <1>8, <1>11, Zenon
  <2> QED
    BY ONLY <2>1, Joined, Zenon DEF h4
<1> HIDE DEF h4
<1>13. /\ h5 \in Seq(Byte) /\ Len(h5) = Len(h4) + Len(p5)
       /\ \A i \in 1 .. Len(h4) : h5[i] = h4[i]
       /\ \A i \in 1 .. Len(p5) : h5[Len(h4) + i] = p5[i]
  <2>1. h4 \in Seq(Byte) /\ p5 \in Seq(Byte)
    BY <1>8, <1>12, Zenon
  <2> QED
    BY ONLY <2>1, Joined, Zenon DEF h5
<1> HIDE DEF h5
<1>14. /\ h6 \in Seq(Byte) /\ Len(h6) = Len(h5) + Len(p6)
       /\ \A i \in 1 .. Len(h5) : h6[i] = h5[i]
       /\ \A i \in 1 .. Len(p6) : h6[Len(h5) + i] = p6[i]
  <2>1. h5 \in Seq(Byte) /\ p6 \in Seq(Byte)
    BY <1>8, <1>13, Zenon
  <2> QED
    BY ONLY <2>1, Joined, Zenon DEF h6
<1> HIDE DEF h6
<1>15. /\ h7 \in Seq(Byte) /\ Len(h7) = Len(h6) + Len(p7)
       /\ \A i \in 1 .. Len(h6) : h7[i] = h6[i]
       /\ \A i \in 1 .. Len(p7) : h7[Len(h6) + i] = p7[i]
  <2>1. h6 \in Seq(Byte) /\ p7 \in Seq(Byte)
    BY <1>8, <1>14, Zenon
  <2> QED
    BY ONLY <2>1, Joined, Zenon DEF h7
<1> HIDE DEF h7
<1>16. /\ h8 \in Seq(Byte) /\ Len(h8) = Len(h7) + Len(p8)
       /\ \A i \in 1 .. Len(h7) : h8[i] = h7[i]
       /\ \A i \in 1 .. Len(p8) : h8[Len(h7) + i] = p8[i]
  <2>1. h7 \in Seq(Byte) /\ p8 \in Seq(Byte)
    BY <1>8, <1>15, Zenon
  <2> QED
    BY ONLY <2>1, Joined, Zenon DEF h8
<1> HIDE DEF h8
<1>17. /\ h9 \in Seq(Byte) /\ Len(h9) = Len(h8) + Len(p9)
       /\ \A i \in 1 .. Len(h8) : h9[i] = h8[i]
       /\ \A i \in 1 .. Len(p9) : h9[Len(h8) + i] = p9[i]
  <2>1. h8 \in Seq(Byte) /\ p9 \in Seq(Byte)
    BY <1>8, <1>16, Zenon
  <2> QED
    BY ONLY <2>1, Joined, Zenon DEF h9
<1> HIDE DEF h9
<1>18. /\ h10 \in Seq(Byte) /\ Len(h10) = Len(h9) + Len(p10)
       /\ \A i \in 1 .. Len(h9) : h10[i] = h9[i]
       /\ \A i \in 1 .. Len(p10) : h10[Len(h9) + i] = p10[i]
  <2>1. h9 \in Seq(Byte) /\ p10 \in Seq(Byte)
    BY <1>8, <1>17, Zenon
  <2> QED
    BY ONLY <2>1, Joined, Zenon DEF h10
<1> HIDE DEF h10
<1>19. /\ Len(h2) = 8 /\ Len(h3) = 10 /\ Len(h4) = 12 /\ Len(h5) = 16 /\ Len(h6) = 20
       /\ Len(h7) = 28 /\ Len(h8) = 44 /\ Len(h9) = 236 /\ Len(h10) = 240
  <2>1. /\ Len(h2) = Len(h1) + Len(p2)
        /\ Len(h3) = Len(h2) + Len(p3)
        /\ Len(h4) = Len(h3) + Len(p4)
        /\ Len(h5) = Len(h4) + Len(p5)
        /\ Len(h6) = Len(h5) + Len(p6)
        /\ Len(h7) = Len(h6) + Len(p7)
        /\ Len(h8) = Len(h7) + Len(p8)
        /\ Len(h9) = Len(h8) + Len(p9)
        /\ Len(h10) = Len(h9) + Len(p10)
    BY <1>10, <1>11, <1>12, <1>13, <1>14, <1>15, <1>16, <1>17, <1>18, Zenon
  <2> QED
    BY ONLY <2>1, <1>9, SMT
<1>20. \A i \in 1 .. 236 : h10[i] = h9[i]
  <2>1. \A i \in 1 .. Len(h9) : h10[i] = h9[i]
    BY <1>18, Zenon
  <2> QED
    BY ONLY <2>1, <1>19, <1>9, SMT
<1>21. \A i \in 1 .. 44 : h10[i] = h8[i]
  <2>1. \A i \in 1 .. Len(h8) : h9[i] = h8[i]
    BY <1>17, Zenon
  <2> QED
    BY ONLY <2>1, <1>19, <1>9, <1>20, SMT
<1>22. \A i \in 1 .. 28 : h10[i] = h7[i]
  <2>1. \A i \in 1 .. Len(h7) : h8[i] = h7[i]
    BY <1>16, Zenon
  <2> QED
    BY ONLY <2>1, <1>19, <1>9, <1>21, SMT
<1>23. \A i \in 1 .. 20 : h10[i] = h6[i]
  <2>1. \A i \in 1 .. Len(h6) : h7[i] = h6[i]
    BY <1>15, Zenon
  <2> QED
    BY ONLY <2>1, <1>19, <1>9, <1>22, SMT
<1>24. \A i \in 1 .. 16 : h10[i] = h5[i]
  <2>1. \A i \in 1 .. Len(h5) : h6[i] = h5[i]
    BY <1>14, Zenon
  <2> QED
    BY ONLY <2>1, <1>19, <1>9, <1>23, SMT
<1>25. \A i \in 1 .. 12 : h10[i] = h4[i]
  <2>1. \A i \in 1 .. Len(h4) : h5[i] = h4[i]
    BY <1>13, Zenon
  <2> QED
    BY ONLY <2>1, <1>19, <1>9, <1>24, SMT
<1>26. \A i \in 1 .. 10 : h10[i] = h3[i]
  <2>1. \A i \in 1 .. Len(h3) : h4[i] = h3[i]
    BY <1>12, Zenon
  <2> QED
    BY ONLY <2>1, <1>19, <1>9, <1>25, SMT
<1>27. \A i \in 1 .. 8 : h10[i] = h2[i]
  <2>1. \A i \in 1 .. Len(h2) : h3[i] = h2[i]
    BY <1>11, Zenon
  <2> QED
    BY ONLY <2>1, <1>19, <1>9, <1>26, SMT
<1>28. \A i \in 1 .. 4 : h10[i] = h1[i]
  <2>1. \A i \in 1 .. Len(h1) : h2[i] = h1[i]
    BY <1>10, Zenon
  <2> QED
    BY ONLY <2>1, <1>19, <1>9, <1>27, SMT
<1>29. h10[1] = d.opcode /\ h10[2] = d.hwaddr_type /\ h10[3] = d.hwaddr_len
  BY <1>2, <1>28, SMT
<1>30. \A i \in 1 .. 4 : h10[4 + i] = p2[i]
  <2>1. \A i \in 1 .. Len(p2) : h2[Len(h1) + i] = p2[i]
    BY <1>10, Zenon
  <2> QED
    BY ONLY <2>1, <1>27, <1>19, <1>9, SMT
<1>31. \A i \in 1 .. 2 : h10[10 + i] = p4[i]
  <2>1. \A i \in 1 .. Len(p4) : h4[Len(h3) + i] = p4[i]
    BY <1>12, Zenon
  <2> QED
    BY ONLY <2>1, <1>25, <1>19, <1>9, SMT
<1>32. \A i \in 1 .. 4 : h10[16 + i] = p6[i]
  <2>1. \A i \in 1 .. Len(p6) : h6[Len(h5) + i] = p6[i]
    BY <1>14, Zenon
  <2> QED
    BY ONLY <2>1, <1>23, <1>19, <1>9, SMT
<1>33. \A i \in 1 .. 16 : h10[28 + i] = p8[i]
  <2>1. \A i \in 1 .. Len(p8) : h8[Len(h7) + i] = p8[i]
    BY <1>16, Zenon
  <2> QED
    BY ONLY <2>1, <1>21, <1>19, <1>9, SMT
<1>34. h10 \in Seq(Byte) /\ Len(h10) = OPTIONS_OFFSET
  BY ONLY <1>18, <1>19, Zenon DEF OPTIONS_OFFSET
<1> QED
  BY <1>1, <1>34, <1>29, <1>30, <1>31, <1>32, <1>33, Zenon DEF p2, p4, p6, p8
-----------------------------------------------------------------------------
(* The inductive invariant.                                                *)

\* What parse_configuration stored.
ConfigInv ==
  /\ {SUBNET_MASK, LEASE_TIME} \subseteq DOMAIN defined_options
  /\ DOMAIN defined_options \subseteq {SUBNET_MASK, LEASE_TIME, ROUTERS, DNS_SERVER}
  /\ \A t \in DOMAIN defined_options : defined_options[t] \in Seq(Byte)
  /\ defined_options[SUBNET_MASK] = BigEndian(Netmask)
  /\ defined_options[LEASE_TIME] = BigEndian(LeaseTime)

MessageInv == stage # "idle" => message \in Message

Legal(o) == o.tag = PAD \/ LegalLength(o.tag, Len(o.value))

\* map is what the first n of these options say.
Reads(options, n, map) ==
  /\ \A i \in 1 .. n : Legal(options[i])
  /\ DOMAIN map = {options[i].tag : i \in 1 .. n} \ {PAD}
  /\ \A i \in 1 .. n :
       options[i].tag # PAD /\ (\A j \in (i + 1) .. n : options[j].tag # options[i].tag)
         => map[options[i].tag] = options[i].value

\* The scan is at the start of an option and has read those before it.
ScanInv ==
  /\ stage = "scan" =>
       \E n \in 0 .. Len(message.options) :
         options_buffer = message.starts[n + 1] /\ Reads(message.options, n, parsed_options)
  /\ stage = "refused" => \E i \in 1 .. Len(message.options) : ~ Legal(message.options[i])
  /\ stage = "parsed" => Reads(message.options, Len(message.options), datagram.options)

\* d will be written with the bytes by which the client recognises it.
Echo(d) ==
  /\ d.hwaddr_type = message.bytes[2] /\ d.hwaddr_len = message.bytes[3]
  /\ to_network_byte_array(d.transaction_id, 4)
       = Four(message.bytes[5], message.bytes[6], message.bytes[7], message.bytes[8])
  /\ to_byte_array(d.flags, 2) = Two(message.bytes[11], message.bytes[12])
  /\ d.hw_addr \in Seq(Byte) /\ Len(d.hw_addr) = 16
  /\ \A i \in 1 .. 15 : d.hw_addr[i] = message.bytes[28 + i]

ParsedInv == stage = "parsed" => Echo(datagram)

\* The options of a reply.
Answers(map) ==
  /\ DOMAIN map \subseteq {SUBNET_MASK, LEASE_TIME, ROUTERS, DNS_SERVER,
                           DHCP_MESSAGE_TYPE, SERVER_IDENTIFIER}
  /\ \A t \in DOMAIN map : map[t] \in Seq(Byte)
  /\ SUBNET_MASK \in DOMAIN map => map[SUBNET_MASK] = BigEndian(Netmask)
  /\ LEASE_TIME \in DOMAIN map =>
       \E n \in Remaining \cup {LeaseTime} : map[LEASE_TIME] = BigEndian(n)
  /\ SERVER_IDENTIFIER \in DOMAIN map => map[SERVER_IDENTIFIER] = BigEndian(ServerAddress)

ReplyInv ==
  stage \in {"queued", "push", "sent"} =>
    /\ Echo(reply) /\ Answers(reply.options)
    /\ reply.opcode = 2 /\ reply.secs_passed = 0 /\ reply.client_ip = 0
    /\ reply.assigned_ip \in {0, Offered}

\* The header is in front of the bytes.  EchoPlaces are the bytes a client compares.
EchoPlaces == (2 .. 3) \cup (5 .. 8) \cup (11 .. 12) \cup (29 .. 43)

HeaderInv ==
  stage \in {"push", "sent"} =>
    /\ bytes \in Seq(Byte) /\ Len(bytes) >= OPTIONS_OFFSET
    /\ bytes[1] = 2
    /\ \A i \in EchoPlaces : bytes[i] = message.bytes[i]
    /\ \A i \in 1 .. 4 : bytes[16 + i] = BigEndian(reply.assigned_ip)[i]

\* written and starts are the options in bytes and their places.
WrittenInv ==
  stage \in {"push", "sent"} =>
    /\ written \in Seq([tag : DOMAIN reply.options, value : Seq(Byte)])
    /\ starts \in Seq(Nat \ {0}) /\ Len(starts) = Len(written) + 1
    /\ \A i \in 1 .. Len(written) : written[i].value = reply.options[written[i].tag]
    /\ \A i, j \in 1 .. Len(written) : written[i].tag = written[j].tag => i = j
    /\ Fits(reply.options) => Laid(bytes, starts, written)

EndInv ==
  /\ stage = "push" => starts[Len(starts)] = Len(bytes) + 1
  /\ stage = "sent" =>
       /\ starts[Len(starts)] = Len(bytes) /\ bytes[Len(bytes)] = OPTIONS_END
       /\ Unwritten = {}

IInv ==
  /\ ConfigInv /\ MessageInv /\ ScanInv /\ ParsedInv
  /\ ReplyInv /\ HeaderInv /\ WrittenInv /\ EndInv

-----------------------------------------------------------------------------
(* The configuration.                                                      *)

\* Of any number, only the low four bytes are written.
LEMMA NumberBytes ==
  ASSUME NEW n \in Nat
  PROVE  to_byte_array(n, 4) \in Seq(Byte) /\ Len(to_byte_array(n, 4)) = 4
<1> DEFINE n1 == n \div 256  n2 == n1 \div 256  n3 == n2 \div 256
<1>1. n1 \in Nat /\ n % 256 \in Byte
  BY ByteParts, SMT
<1> HIDE DEF n1
<1>2. n2 \in Nat /\ n1 % 256 \in Byte
  BY <1>1, ByteParts, SMT
<1> HIDE DEF n2
<1>3. n3 \in Nat /\ n2 % 256 \in Byte
  BY <1>2, ByteParts, SMT
<1> HIDE DEF n3
<1>4. n3 % 256 \in Byte
  BY <1>3, ByteParts, SMT
<1>5. to_byte_array(n, 4) = Four(n3 % 256, n2 % 256, n1 % 256, n % 256)
  BY SMT DEF to_byte_array, Four, n1, n2, n3
<1> QED
  BY <1>1, <1>2, <1>3, <1>4, <1>5, FourSeq, SMT

\* What is stored for a setting is a sequence of bytes, whatever the setting.
LEMMA OptionValueBytes ==
  ASSUME NEW setting, setting.value \in Seq(Nat),
         setting.kind = "int" => Len(setting.value) = 1
  PROVE  OptionValue(setting) \in Seq(Byte)
<1> DEFINE v == setting.value
<1>1. CASE setting.kind = "int"
  <2>1. v[1] % 65536 \in Nat
    BY <1>1, SMT
  <2>2. OptionValue(setting) = to_network_byte_array(v[1] % 65536, 2)
    BY <1>1, SMT DEF OptionValue
  <2> QED
    BY <2>1, <2>2, ShortBytes, SMT
<1>2. CASE setting.kind # "int"
  <2>1. ASSUME NEW i \in 1 .. 4 * Len(v)
        PROVE  parse_ip_address(v[(i + 3) \div 4])[((i + 3) % 4) + 1] \in Byte
    <3>1. (i + 3) \div 4 \in 1 .. Len(v) /\ ((i + 3) % 4) + 1 \in 1 .. 4
      BY SMT
    <3>2. v[(i + 3) \div 4] \in Nat
      BY <3>1, SMT
    <3>3. /\ parse_ip_address(v[(i + 3) \div 4]) \in Seq(Byte)
          /\ Len(parse_ip_address(v[(i + 3) \div 4])) = 4
      BY <3>2, NumberBytes, Zenon DEF parse_ip_address
    <3> QED
      BY <3>1, <3>3, ElementOfSeq, SMT
  <2>2. OptionValue(setting) = [i \in 1 .. 4 * Len(v) |->
          parse_ip_address(v[(i + 3) \div 4])[((i + 3) % 4) + 1]]
    BY <1>2, SMT DEF OptionValue
  <2>3. 4 * Len(v) \in Nat
    BY SMT
  <2> QED
    BY <2>1, <2>2, <2>3, SMT
<1> QED
  BY <1>1, <1>2, Zenon

LEMMA ConfigInit == Init => ConfigInv
<1> SUFFICES ASSUME Init PROVE ConfigInv
  OBVIOUS
<1>1. PICK settings \in Setting : defined_options = parse_configuration(settings)
  BY Zenon DEF Init
<1>2. IsSetting(settings)
  BY DatagramAssumption, Zenon
<1>3. Netmask \in Word /\ LeaseTime \in Word
  BY DatagramAssumption, SMT
<1> DEFINE known == DOMAIN settings \cap DOMAIN key_tag_mapping
           Tags == {key_tag_mapping[key] : key \in known}
           Key(t) == CHOOSE key \in known : key_tag_mapping[key] = t
<1>4. /\ DOMAIN defined_options = Tags \cup {SUBNET_MASK, LEASE_TIME}
      /\ \A t \in Tags \cup {SUBNET_MASK, LEASE_TIME} :
           defined_options[t] = IF t = SUBNET_MASK THEN SubnetMask
                                ELSE IF t = LEASE_TIME THEN to_byte_array(LeaseTime, 4)
                                ELSE OptionValue(settings[Key(t)])
  BY <1>1, Zenon DEF parse_configuration
<1>5. Tags \subseteq {ROUTERS, DNS_SERVER}
  <2>1. \A key \in known : key_tag_mapping[key] = ROUTERS \/ key_tag_mapping[key] = DNS_SERVER
    BY Zenon DEF key_tag_mapping
  <2> QED
    BY <2>1, Zenon
<1>6. \A t \in Tags : Key(t) \in DOMAIN settings
  BY Zenon
<1>7. \A t \in Tags : OptionValue(settings[Key(t)]) \in Seq(Byte)
  BY <1>2, <1>6, OptionValueBytes, Zenon DEF IsSetting
<1>8. SubnetMask = BigEndian(Netmask) /\ SubnetMask \in Seq(Byte)
  BY <1>3, HtonTwice, WordBytes, Zenon DEF SubnetMask
<1>9. /\ to_byte_array(LeaseTime, 4) = BigEndian(LeaseTime)
      /\ to_byte_array(LeaseTime, 4) \in Seq(Byte)
  BY <1>3, WordBytes, Zenon
<1> HIDE DEF Tags, Key
<1>10. DOMAIN defined_options \subseteq {SUBNET_MASK, LEASE_TIME, ROUTERS, DNS_SERVER}
       /\ {SUBNET_MASK, LEASE_TIME} \subseteq DOMAIN defined_options
  BY <1>4, <1>5, Zenon
<1>11. \A t \in DOMAIN defined_options : defined_options[t] \in Seq(Byte)
  BY <1>4, <1>7, <1>8, <1>9, Zenon
<1>12. /\ defined_options[SUBNET_MASK] = SubnetMask
       /\ defined_options[LEASE_TIME] = to_byte_array(LeaseTime, 4)
  BY <1>4, SMT DEF SUBNET_MASK, LEASE_TIME
<1> QED
  BY <1>8, <1>9, <1>10, <1>11, <1>12, Zenon DEF ConfigInv

-----------------------------------------------------------------------------
(* The scan.                                                               *)

\* A part of a sequence.
LEMMA Slice ==
  ASSUME NEW b \in Seq(Byte), NEW v \in Seq(Byte), NEW p \in Nat, p + Len(v) <= Len(b),
         \A j \in 1 .. Len(v) : b[p + j] = v[j]
  PROVE  SubSeq(b, p + 1, p + Len(v)) = v
<1> DEFINE k == Len(v)  w == SubSeq(b, p + 1, p + k)
<1>1. k \in Nat /\ Len(b) \in Nat
  BY LenProperties, Zenon
<1>2. \A i \in (p + 1) .. (p + k) : i \in 1 .. Len(b)
  BY <1>1, SMT
<1>3. \A i \in (p + 1) .. (p + k) : b[i] \in Byte
  BY <1>2, ElementOfSeq, Zenon
<1>4. p + 1 \in Int /\ p + k \in Int
  BY <1>1, SMT
<1>5. /\ w \in Seq(Byte)
      /\ Len(w) = IF p + 1 <= p + k THEN (p + k) - (p + 1) + 1 ELSE 0
      /\ \A i \in 1 .. (p + k) - (p + 1) + 1 : w[i] = b[(p + 1) + i - 1]
  <2> DEFINE l == p + 1  r == p + k
  <2>1. l \in Int /\ r \in Int /\ \A i \in l .. r : b[i] \in Byte
    BY <1>3, <1>4, Zenon
  <2> HIDE DEF l, r
  <2>2. /\ SubSeq(b, l, r) \in Seq(Byte)
        /\ Len(SubSeq(b, l, r)) = IF l <= r THEN r - l + 1 ELSE 0
        /\ \A i \in 1 .. r - l + 1 : SubSeq(b, l, r)[i] = b[l + i - 1]
    BY ONLY <2>1, SubSeqProperties
  <2> QED
    BY <2>2, Zenon DEF l, r
<1> HIDE DEF k, w
<1>6. (p + k) - (p + 1) + 1 = k /\ (IF p + 1 <= p + k THEN (p + k) - (p + 1) + 1 ELSE 0) = k
  BY ONLY <1>1, p \in Nat, SMT
<1>7. \A i \in 1 .. k : (p + 1) + i - 1 = p + i
  BY ONLY <1>1, p \in Nat, SMT
<1>8. Len(w) = k /\ \A i \in 1 .. k : w[i] = v[i]
  <2>1. \A i \in 1 .. k : w[i] = b[(p + 1) + i - 1]
    BY <1>5, <1>6, Zenon
  <2>2. \A i \in 1 .. k : b[p + i] = v[i]
    BY Zenon DEF k
  <2> QED
    BY <1>5, <1>6, <1>7, <2>1, <2>2, Zenon
<1>9. Len(w) = Len(v) /\ \A i \in 1 .. Len(w) : w[i] = v[i]
  BY <1>8, Zenon DEF k
<1> QED
  BY <1>5, <1>9, SeqEqual, Zenon DEF w, k

\* What is on the wire at the start of option n + 1 of a client's message.
LEMMA AtOption ==
  ASSUME NEW m, IsMessage(m), NEW n \in Nat, n < Len(m.options)
  PROVE  LET o == m.options[n + 1]
             p == m.starts[n + 1]
         IN  /\ p \in Nat \ {0} /\ m.bytes[p] = o.tag /\ o.tag # OPTIONS_END
             /\ o.tag = PAD => m.starts[n + 2] = p + 1
             /\ o.tag # PAD =>
                  /\ m.bytes[p + 1] = Len(o.value)
                  /\ m.starts[n + 2] = p + 2 + Len(o.value)
                  /\ SubSeq(m.bytes, p + 2, p + 1 + Len(o.value)) = o.value
<1> DEFINE o == m.options[n + 1]  p == m.starts[n + 1]  q == m.starts[n + 2]
           b == m.bytes  v == o.value
<1>1. /\ b \in Seq(Byte) /\ m.options \in Seq(Option) /\ m.starts \in Seq(Nat \ {0})
      /\ Laid(b, m.starts, m.options)
  BY Zenon DEF IsMessage, Encodes
<1>2. Len(m.starts) = Len(m.options) + 1
  BY <1>1, Zenon DEF Laid
<1>3. n + 1 \in 1 .. Len(m.options) /\ n + 1 \in 1 .. Len(m.starts) /\ n + 2 \in 1 .. Len(m.starts)
  BY <1>1, <1>2, SMT
<1>4. o \in Option /\ p \in Nat \ {0} /\ q \in Nat \ {0}
  BY <1>1, <1>3, ElementOfSeq, Zenon
<1>5. o.tag # OPTIONS_END /\ v \in Seq(Byte)
  BY <1>4, SMT DEF Option
<1>6. (n + 1) + 1 = n + 2
  BY SMT
<1>7. /\ b[p] = o.tag
      /\ o.tag = PAD => q = p + 1
      /\ o.tag # PAD =>
           /\ b[p + 1] = Len(v) /\ q = p + 2 + Len(v)
           /\ \A j \in 1 .. Len(v) : b[p + 1 + j] = v[j]
      /\ q <= Len(b) + 1
  BY <1>1, <1>3, <1>6, Zenon DEF Laid
<1>8. ASSUME o.tag # PAD PROVE SubSeq(b, p + 2, p + 1 + Len(v)) = v
  <2> HIDE DEF b, p, q, v
  <2>1. Len(v) \in Nat /\ Len(b) \in Nat
    BY <1>1, <1>5, LenProperties, Zenon
  <2>2. q = p + 2 + Len(v) /\ q <= Len(b) + 1 /\ \A j \in 1 .. Len(v) : b[p + 1 + j] = v[j]
    BY <1>7, <1>8, Zenon
  <2>3. p + 1 \in Nat /\ (p + 1) + Len(v) <= Len(b) /\ (p + 1) + 1 = p + 2
    BY ONLY <1>4, <2>1, <2>2, SMT
  <2>4. SubSeq(b, (p + 1) + 1, (p + 1) + Len(v)) = v
    BY <1>1, <1>5, <2>2, <2>3, Slice, Zenon
  <2> QED
    BY <2>3, <2>4, Zenon
<1> QED
  BY <1>4, <1>5, <1>7, <1>8, Zenon

LEMMA AtEnd ==
  ASSUME NEW m, IsMessage(m)
  PROVE  m.bytes[m.starts[Len(m.options) + 1]] = OPTIONS_END
  BY Zenon DEF IsMessage, Encodes, Laid

\* The options read so far, and one more: a pad changes nothing, any other option of legal
\* length is stored.
LEMMA ReadsPad ==
  ASSUME NEW o, NEW map, NEW n \in Nat, Reads(o, n, map), o[n + 1].tag = PAD
  PROVE  Reads(o, n + 1, map)
<1>1. \A i \in 1 .. n + 1 : i \in 1 .. n \/ i = n + 1
  BY SMT
<1>2. \A i \in 1 .. n : i \in 1 .. n + 1
  BY SMT
<1>3. \A i \in 1 .. n : \A j \in (i + 1) .. n : j \in (i + 1) .. n + 1
  BY SMT
<1>4. \A i \in 1 .. n + 1 : Legal(o[i])
  BY <1>1, Zenon DEF Reads, Legal
<1>5. DOMAIN map = {o[i].tag : i \in 1 .. n + 1} \ {PAD}
  BY <1>1, <1>2, Zenon DEF Reads
<1>6. ASSUME NEW i \in 1 .. n + 1, o[i].tag # PAD,
             \A j \in (i + 1) .. n + 1 : o[j].tag # o[i].tag
      PROVE  map[o[i].tag] = o[i].value
  BY <1>1, <1>3, <1>6, Zenon DEF Reads
<1> QED
  BY <1>4, <1>5, <1>6, Zenon DEF Reads

LEMMA ReadsOption ==
  ASSUME NEW o, NEW map, NEW n \in Nat, Reads(o, n, map), o[n + 1].tag # PAD,
         Legal(o[n + 1])
  PROVE  Reads(o, n + 1, Store(map, o[n + 1].tag, o[n + 1].value))
<1> DEFINE t == o[n + 1].tag
           new == Store(map, t, o[n + 1].value)
<1>1. \A i \in 1 .. n + 1 : i \in 1 .. n \/ i = n + 1
  BY SMT
<1>2. n + 1 \in 1 .. n + 1 /\ \A i \in 1 .. n : i \in 1 .. n + 1 /\ n + 1 \in (i + 1) .. n + 1
  BY SMT
<1>3. \A i \in 1 .. n : \A j \in (i + 1) .. n : j \in (i + 1) .. n + 1
  BY SMT
<1>4. \A i \in 1 .. n + 1 : Legal(o[i])
  BY <1>1, Zenon DEF Reads
<1>5. /\ DOMAIN new = DOMAIN map \cup {t} /\ new[t] = o[n + 1].value
      /\ \A u \in DOMAIN map : u # t => new[u] = map[u]
  BY Zenon DEF Store
<1>6. DOMAIN new = {o[i].tag : i \in 1 .. n + 1} \ {PAD}
  BY <1>1, <1>2, <1>5, Zenon DEF Reads
<1> HIDE DEF new
<1>7. ASSUME NEW i \in 1 .. n + 1, o[i].tag # PAD,
             \A j \in (i + 1) .. n + 1 : o[j].tag # o[i].tag
      PROVE  new[o[i].tag] = o[i].value
  <2>1. CASE i = n + 1
    BY <1>5, <2>1, Zenon
  <2>2. CASE i \in 1 .. n
    <3>1. o[i].tag # t
      BY <1>2, <1>7, <2>2, Zenon
    <3>2. o[i].tag \in DOMAIN map /\ map[o[i].tag] = o[i].value
      BY <1>3, <1>7, <2>2, Zenon DEF Reads
    <3> QED
      BY <1>5, <3>1, <3>2, Zenon
  <2> QED
    BY <1>1, <2>1, <2>2, Zenon
<1> QED
  BY <1>4, <1>6, <1>7, Zenon DEF Reads, new

-----------------------------------------------------------------------------
(* from_buffer keeps what the client will look for.                        *)

\* Fields of four and of two bytes.
LEMMA FourOf ==
  ASSUME NEW b \in Seq(Byte), NEW p \in Nat, p + 4 <= Len(b)
  PROVE  /\ SubSeq(b, p + 1, p + 4) = Four(b[p + 1], b[p + 2], b[p + 3], b[p + 4])
         /\ b[p + 1] \in Byte /\ b[p + 2] \in Byte /\ b[p + 3] \in Byte /\ b[p + 4] \in Byte
<1>1. Len(b) \in Nat
  BY LenProperties, Zenon
<1>2. /\ p + 1 \in 1 .. Len(b) /\ p + 2 \in 1 .. Len(b)
      /\ p + 3 \in 1 .. Len(b) /\ p + 4 \in 1 .. Len(b)
  BY <1>1, SMT
<1>3. b[p + 1] \in Byte /\ b[p + 2] \in Byte /\ b[p + 3] \in Byte /\ b[p + 4] \in Byte
  BY <1>2, ElementOfSeq, Zenon
<1> DEFINE v == Four(b[p + 1], b[p + 2], b[p + 3], b[p + 4])
<1>4. v \in Seq(Byte) /\ Len(v) = 4
  BY <1>3, FourSeq, Zenon
<1>5. v[1] = b[p + 1] /\ v[2] = b[p + 2] /\ v[3] = b[p + 3] /\ v[4] = b[p + 4]
  BY SMT DEF Four
<1> HIDE DEF v
<1>6. \A j \in 1 .. 4 : b[p + j] = v[j]
  <2>1. \A j \in 1 .. 4 : j = 1 \/ j = 2 \/ j = 3 \/ j = 4
    BY SMT
  <2> QED
    BY <1>5, <2>1, Zenon
<1>7. SubSeq(b, p + 1, p + 4) = v
  BY <1>4, <1>6, Slice, SMT
<1> QED
  BY <1>3, <1>7, Zenon DEF v

LEMMA TwoOf ==
  ASSUME NEW b \in Seq(Byte), NEW p \in Nat, p + 2 <= Len(b)
  PROVE  /\ SubSeq(b, p + 1, p + 2) = Two(b[p + 1], b[p + 2])
         /\ b[p + 1] \in Byte /\ b[p + 2] \in Byte
<1>1. Len(b) \in Nat
  BY LenProperties, Zenon
<1>2. p + 1 \in 1 .. Len(b) /\ p + 2 \in 1 .. Len(b)
  BY <1>1, SMT
<1>3. b[p + 1] \in Byte /\ b[p + 2] \in Byte
  BY <1>2, ElementOfSeq, Zenon
<1> DEFINE v == Two(b[p + 1], b[p + 2])
<1>4. v \in Seq(Byte) /\ Len(v) = 2
  BY <1>3, TwoSeq, Zenon
<1>5. v[1] = b[p + 1] /\ v[2] = b[p + 2]
  BY SMT DEF Two
<1> HIDE DEF v
<1>6. \A j \in 1 .. 2 : b[p + j] = v[j]
  <2>1. \A j \in 1 .. 2 : j = 1 \/ j = 2
    BY SMT
  <2> QED
    BY <1>5, <2>1, Zenon
<1>7. SubSeq(b, p + 1, p + 2) = v
  BY <1>4, <1>6, Slice, SMT
<1> QED
  BY <1>3, <1>7, Zenon DEF v

\* Hardware addresses: fifteen bytes that are copied and one that is not.
LEMMA FifteenOf ==
  ASSUME NEW b \in Seq(Byte), Len(b) >= 43, NEW unset \in Byte
  PROVE  LET h == Append(SubSeq(b, 29, 43), unset)
         IN  /\ h \in Seq(Byte) /\ Len(h) = 16
             /\ \A i \in 1 .. 15 : h[i] = b[28 + i]
<1> DEFINE w == SubSeq(b, 29, 43)  h == Append(w, unset)
<1>1. Len(b) \in Nat
  BY LenProperties, Zenon
<1>2. 29 \in Int /\ 43 \in Int /\ \A i \in 29 .. 43 : i \in 1 .. Len(b)
  BY <1>1, SMT
<1>3. \A i \in 29 .. 43 : b[i] \in Byte
  BY <1>2, ElementOfSeq, Zenon
<1>4. /\ w \in Seq(Byte) /\ Len(w) = IF 29 <= 43 THEN 43 - 29 + 1 ELSE 0
      /\ \A i \in 1 .. 43 - 29 + 1 : w[i] = b[29 + i - 1]
  BY <1>2, <1>3, SubSeqProperties
<1> HIDE DEF w
<1>5. Len(w) = IF 29 <= 43 THEN 43 - 29 + 1 ELSE 0
  BY <1>4, Zenon
<1>6. \A i \in 1 .. 43 - 29 + 1 : w[i] = b[29 + i - 1]
  BY <1>4, Zenon
<1>7. Len(w) = 15
  BY ONLY <1>5, SMT
<1>8. 43 - 29 + 1 = 15 /\ \A i \in 1 .. 15 : 29 + i - 1 = 28 + i
  BY ONLY SMT
<1>9. \A i \in 1 .. 15 : w[i] = b[28 + i]
  BY ONLY <1>6, <1>8, Zenon
<1>10. /\ h \in Seq(Byte) /\ Len(h) = Len(w) + 1
       /\ \A i \in 1 .. Len(w) : h[i] = w[i]
  <2>1. w \in Seq(Byte)
    BY <1>4, Zenon
  <2> QED
    BY ONLY <2>1, unset \in Byte, AppendProperties
<1> HIDE DEF h
<1>11. Len(h) = 16
  BY ONLY <1>7, <1>10, SMT
<1>12. \A i \in 1 .. 15 : h[i] = b[28 + i]
  BY ONLY <1>7, <1>9, <1>10, Zenon
<1> QED
  BY <1>10, <1>11, <1>12, Zenon DEF h, w

\* The fields from_buffer reads are written back as they were.
LEMMA ParsedEcho ==
  ASSUME IsMessage(message), NEW options, NEW unset \in Byte
  PROVE  Echo(from_buffer(message.bytes, options, unset))
<1> DEFINE b == message.bytes  d == from_buffer(b, options, unset)
<1>1. b \in Seq(Byte) /\ Len(b) > OPTIONS_OFFSET
  BY Zenon DEF IsMessage
<1>2. /\ d.hwaddr_type = b[2] /\ d.hwaddr_len = b[3]
      /\ d.transaction_id = convert_network_byte_array(SubSeq(b, 5, 8))
      /\ d.flags = to_number(SubSeq(b, 11, 12))
      /\ d.hw_addr = Append(SubSeq(b, 29, 43), unset)
  BY SMT DEF from_buffer
<1> HIDE DEF b, d
<1>3. Len(b) \in Nat
  BY <1>1, LenProperties, Zenon
<1>4. 4 + 4 <= Len(b) /\ 10 + 2 <= Len(b) /\ Len(b) >= 43
  BY ONLY <1>1, <1>3, SMT DEF OPTIONS_OFFSET
<1>5. /\ SubSeq(b, 5, 8) = Four(b[5], b[6], b[7], b[8])
      /\ b[5] \in Byte /\ b[6] \in Byte /\ b[7] \in Byte /\ b[8] \in Byte
  <2>1. /\ SubSeq(b, 4 + 1, 4 + 4) = Four(b[4 + 1], b[4 + 2], b[4 + 3], b[4 + 4])
        /\ b[4 + 1] \in Byte /\ b[4 + 2] \in Byte /\ b[4 + 3] \in Byte /\ b[4 + 4] \in Byte
    BY ONLY <1>1, <1>4, 4 \in Nat, FourOf, Zenon
  <2>2. 4 + 1 = 5 /\ 4 + 2 = 6 /\ 4 + 3 = 7 /\ 4 + 4 = 8
    BY ONLY SMT
  <2> QED
    BY ONLY <2>1, <2>2, Zenon
<1>6. SubSeq(b, 11, 12) = Two(b[11], b[12]) /\ b[11] \in Byte /\ b[12] \in Byte
  <2>1. /\ SubSeq(b, 10 + 1, 10 + 2) = Two(b[10 + 1], b[10 + 2])
        /\ b[10 + 1] \in Byte /\ b[10 + 2] \in Byte
    BY ONLY <1>1, <1>4, 10 \in Nat, TwoOf, Zenon
  <2>2. 10 + 1 = 11 /\ 10 + 2 = 12
    BY ONLY SMT
  <2> QED
    BY ONLY <2>1, <2>2, Zenon
<1>7. to_network_byte_array(d.transaction_id, 4) = Four(b[5], b[6], b[7], b[8])
  <2>1. d.transaction_id = convert_network_byte_array(Four(b[5], b[6], b[7], b[8]))
    BY ONLY <1>2, <1>5, Zenon
  <2>2. b[5] \in Byte /\ b[6] \in Byte /\ b[7] \in Byte /\ b[8] \in Byte
    BY ONLY <1>5, Zenon
  <2>3. to_network_byte_array(convert_network_byte_array(Four(b[5], b[6], b[7], b[8])), 4)
          = Four(b[5], b[6], b[7], b[8])
    BY ONLY <2>2, NetworkRoundTrip
  <2> QED
    BY ONLY <2>1, <2>2, <2>3, Zenon
<1>8. to_byte_array(d.flags, 2) = Two(b[11], b[12])
  BY <1>2, <1>6, HostRoundTrip, Zenon
<1>9. /\ d.hw_addr \in Seq(Byte) /\ Len(d.hw_addr) = 16
      /\ \A i \in 1 .. 15 : d.hw_addr[i] = b[28 + i]
  <2>1. b \in Seq(Byte) /\ Len(b) >= 43
    BY <1>1, <1>4, Zenon
  <2>2. LET h == Append(SubSeq(b, 29, 43), unset)
        IN  /\ h \in Seq(Byte) /\ Len(h) = 16
            /\ \A i \in 1 .. 15 : h[i] = b[28 + i]
    BY ONLY <2>1, unset \in Byte, FifteenOf, Zenon
  <2>3. d.hw_addr = Append(SubSeq(b, 29, 43), unset)
    BY <1>2, Zenon
  <2> QED
    BY ONLY <2>2, <2>3, Zenon
<1> QED
  BY <1>2, <1>7, <1>8, <1>9, Zenon DEF Echo, b, d

-----------------------------------------------------------------------------
(* One lemma for each action.                                              *)

LEMMA InitInv == Init => IInv
<1> SUFFICES ASSUME Init PROVE IInv
  OBVIOUS
<1>1. stage = "idle"
  BY Zenon DEF Init
<1>2. ConfigInv
  BY ConfigInit, Zenon
<1> QED
  BY <1>1, <1>2, SMT
     DEF IInv, MessageInv, ScanInv, ParsedInv, ReplyInv, HeaderInv, WrittenInv, EndInv

LEMMA ConfigStays == ConfigInv /\ UNCHANGED config => ConfigInv'
  BY Zenon DEF ConfigInv, config

LEMMA MessageIs == ASSUME MessageInv, stage # "idle" PROVE IsMessage(message)
  BY DatagramAssumption, Zenon DEF MessageInv

LEMMA ArriveInv == IInv /\ Arrive => IInv'
<1> SUFFICES ASSUME IInv, Arrive PROVE IInv'
  OBVIOUS
<1>1. /\ message' \in Message /\ stage' = "scan" /\ options_buffer' = OPTIONS_OFFSET + 1
      /\ parsed_options' = <<>>
  BY Zenon DEF Arrive
<1>2. ConfigInv' /\ MessageInv'
  BY <1>1, ConfigStays, Zenon DEF Arrive, IInv, MessageInv
<1>3. ScanInv'
  <2>1. IsMessage(message')
    BY <1>1, DatagramAssumption, Zenon
  <2>2. message'.starts[1] = OPTIONS_OFFSET + 1 /\ Len(message'.options) \in Nat
    BY <2>1, LenProperties, Zenon DEF IsMessage, Encodes, Laid
  <2>3. Reads(message'.options, 0, parsed_options')
    <3>1. \A i \in 1 .. 0 : FALSE
      BY SMT
    <3>2. DOMAIN parsed_options' = {}
      BY <1>1, SMT
    <3> QED
      BY <3>1, <3>2, Zenon DEF Reads
  <2>4. 0 \in 0 .. Len(message'.options) /\ 0 + 1 = 1
    BY <2>2, SMT
  <2>5. \E n \in 0 .. Len(message'.options) :
          options_buffer' = message'.starts[n + 1] /\ Reads(message'.options, n, parsed_options')
    BY <1>1, <2>2, <2>3, <2>4, Zenon
  <2> QED
    BY <1>1, <2>5, Zenon DEF ScanInv
<1> QED
  BY <1>1, <1>2, <1>3, SMT DEF IInv, ParsedInv, ReplyInv, HeaderInv, WrittenInv, EndInv

\* Where the scan is: at one of the options, or at the end.
LEMMA ScanPlace ==
  ASSUME IInv, stage = "scan"
  PROVE  /\ IsMessage(message) /\ message \in Message
         /\ \E n \in Nat :
              /\ options_buffer = message.starts[n + 1] /\ Reads(message.options, n, parsed_options)
              /\ n = Len(message.options) \/ n < Len(message.options)
<1>1. IsMessage(message) /\ message \in Message
  BY MessageIs, SMT DEF IInv, MessageInv
<1>2. PICK n \in 0 .. Len(message.options) :
        options_buffer = message.starts[n + 1] /\ Reads(message.options, n, parsed_options)
  BY Zenon DEF IInv, ScanInv
<1>3. Len(message.options) \in Nat
  BY <1>1, LenProperties, Zenon DEF IsMessage
<1>4. n \in Nat /\ (n = Len(message.options) \/ n < Len(message.options))
  BY <1>3, SMT
<1> QED
  BY <1>1, <1>2, <1>4, Zenon

LEMMA ScanPadInv == IInv /\ ScanPad => IInv'
<1> SUFFICES ASSUME IInv, ScanPad PROVE IInv'
  OBVIOUS
<1>1. /\ stage = "scan" /\ stage' = "scan" /\ message' = message
      /\ parsed_options' = parsed_options /\ options_buffer' = options_buffer + 1
      /\ message.bytes[options_buffer] = PAD
  BY Zenon DEF ScanPad, Tag
<1>2. ConfigInv'
  BY ConfigStays, Zenon DEF ScanPad, IInv
<1>3. PICK n \in Nat :
        /\ options_buffer = message.starts[n + 1] /\ Reads(message.options, n, parsed_options)
        /\ n = Len(message.options) \/ n < Len(message.options)
  BY <1>1, ScanPlace, Zenon
<1>4. IsMessage(message) /\ message \in Message
  BY <1>1, ScanPlace, Zenon
<1>5. n < Len(message.options)
  <2>1. PAD # OPTIONS_END
    BY SMT DEF PAD, OPTIONS_END
  <2> QED
    BY <1>1, <1>3, <1>4, <2>1, AtEnd, Zenon
<1>6. message.options[n + 1].tag = PAD /\ message.starts[n + 2] = options_buffer + 1
  BY <1>1, <1>3, <1>4, <1>5, AtOption, Zenon
<1>7. Reads(message.options, n + 1, parsed_options)
  BY <1>3, <1>6, ReadsPad, Zenon
<1>8. n + 1 \in 0 .. Len(message.options) /\ (n + 1) + 1 = n + 2
  <2>1. Len(message.options) \in Nat
    BY <1>4, LenProperties, Zenon DEF IsMessage
  <2> QED
    BY ONLY <1>5, <2>1, n \in Nat, SMT
<1>9. \E k \in 0 .. Len(message.options) :
        options_buffer' = message.starts[k + 1] /\ Reads(message.options, k, parsed_options)
  BY <1>1, <1>6, <1>7, <1>8, Zenon
<1>10. ScanInv' /\ MessageInv'
  <2>1. stage' # "refused" /\ stage' # "parsed"
    BY <1>1, SMT
  <2> QED
    BY <1>1, <1>4, <1>9, <2>1, Zenon DEF ScanInv, MessageInv
<1> QED
  BY <1>1, <1>2, <1>10, SMT DEF IInv, ParsedInv, ReplyInv, HeaderInv, WrittenInv, EndInv

LEMMA ScanOptionInv == IInv /\ ScanOption => IInv'
<1> SUFFICES ASSUME IInv, ScanOption PROVE IInv'
  OBVIOUS
<1> DEFINE p == options_buffer  length == message.bytes[p + 1]
<1>1. /\ stage = "scan" /\ stage' = "scan" /\ message' = message
      /\ message.bytes[p] # PAD /\ message.bytes[p] # OPTIONS_END
      /\ LegalLength(message.bytes[p], length)
      /\ parsed_options' = Store(parsed_options, message.bytes[p],
                                 SubSeq(message.bytes, p + 2, p + 1 + length))
      /\ options_buffer' = p + 2 + length
  BY Zenon DEF ScanOption, Tag, Length
<1>2. ConfigInv'
  BY ConfigStays, Zenon DEF ScanOption, IInv
<1>3. PICK n \in Nat :
        /\ p = message.starts[n + 1] /\ Reads(message.options, n, parsed_options)
        /\ n = Len(message.options) \/ n < Len(message.options)
  BY <1>1, ScanPlace, Zenon
<1>4. IsMessage(message) /\ message \in Message
  BY <1>1, ScanPlace, Zenon
<1>5. n < Len(message.options)
  BY <1>1, <1>3, <1>4, AtEnd, Zenon
<1> DEFINE o == message.options[n + 1]
<1>6. /\ message.bytes[p] = o.tag /\ o.tag # PAD /\ length = Len(o.value)
      /\ message.starts[n + 2] = p + 2 + length
      /\ SubSeq(message.bytes, p + 2, p + 1 + length) = o.value
  <2> DEFINE q == message.starts[n + 1]
  <2>1. /\ message.bytes[q] = o.tag
        /\ o.tag # PAD =>
             /\ message.bytes[q + 1] = Len(o.value)
             /\ message.starts[n + 2] = q + 2 + Len(o.value)
             /\ SubSeq(message.bytes, q + 2, q + 1 + Len(o.value)) = o.value
    BY <1>4, <1>5, AtOption, Zenon
  <2>2. p = q /\ message.bytes[p] # PAD
    BY <1>1, <1>3, Zenon
  <2> QED
    BY ONLY <2>1, <2>2, Zenon
<1>7. Legal(o)
  BY <1>1, <1>6, Zenon DEF Legal
<1>8. Reads(message.options, n + 1, parsed_options')
  BY <1>1, <1>3, <1>6, <1>7, ReadsOption, Zenon
<1>9. n + 1 \in 0 .. Len(message.options) /\ (n + 1) + 1 = n + 2
  <2>1. Len(message.options) \in Nat
    BY <1>4, LenProperties, Zenon DEF IsMessage
  <2> QED
    BY ONLY <1>5, <2>1, n \in Nat, SMT
<1>10. \E k \in 0 .. Len(message.options) :
         options_buffer' = message.starts[k + 1] /\ Reads(message.options, k, parsed_options')
  BY <1>1, <1>6, <1>8, <1>9, Zenon
<1>11. ScanInv' /\ MessageInv'
  <2>1. stage' # "refused" /\ stage' # "parsed"
    BY <1>1, SMT
  <2> QED
    BY <1>1, <1>4, <1>10, <2>1, Zenon DEF ScanInv, MessageInv
<1> QED
  BY <1>1, <1>2, <1>11, SMT DEF IInv, ParsedInv, ReplyInv, HeaderInv, WrittenInv, EndInv

LEMMA RefuseInv == IInv /\ Refuse => IInv'
<1> SUFFICES ASSUME IInv, Refuse PROVE IInv'
  OBVIOUS
<1> DEFINE p == options_buffer  length == message.bytes[p + 1]
<1>1. /\ stage = "scan" /\ stage' = "refused" /\ message' = message
      /\ message.bytes[p] # PAD /\ message.bytes[p] # OPTIONS_END
      /\ ~ LegalLength(message.bytes[p], length)
  BY Zenon DEF Refuse, Tag, Length, scan
<1>2. ConfigInv'
  BY ConfigStays, Zenon DEF Refuse, IInv
<1>3. PICK n \in Nat :
        /\ p = message.starts[n + 1] /\ Reads(message.options, n, parsed_options)
        /\ n = Len(message.options) \/ n < Len(message.options)
  BY <1>1, ScanPlace, Zenon
<1>4. IsMessage(message) /\ message \in Message
  BY <1>1, ScanPlace, Zenon
<1>5. n < Len(message.options)
  BY <1>1, <1>3, <1>4, AtEnd, Zenon
<1> DEFINE o == message.options[n + 1]
<1>6. message.bytes[p] = o.tag /\ o.tag # PAD /\ length = Len(o.value)
  <2> DEFINE q == message.starts[n + 1]
  <2>1. message.bytes[q] = o.tag /\ (o.tag # PAD => message.bytes[q + 1] = Len(o.value))
    BY <1>4, <1>5, AtOption, Zenon
  <2>2. p = q /\ message.bytes[p] # PAD
    BY <1>1, <1>3, Zenon
  <2> QED
    BY ONLY <2>1, <2>2, Zenon
<1>7. ~ Legal(o)
  BY <1>1, <1>6, Zenon DEF Legal
<1>8. n + 1 \in 1 .. Len(message.options)
  <2>1. Len(message.options) \in Nat
    BY <1>4, LenProperties, Zenon DEF IsMessage
  <2> QED
    BY ONLY <1>5, <2>1, n \in Nat, SMT
<1>9. ScanInv' /\ MessageInv'
  <2>1. stage' # "scan" /\ stage' # "parsed"
    BY <1>1, SMT
  <2> QED
    BY <1>1, <1>4, <1>7, <1>8, <2>1, Zenon DEF ScanInv, MessageInv
<1> QED
  BY <1>1, <1>2, <1>9, SMT DEF IInv, ParsedInv, ReplyInv, HeaderInv, WrittenInv, EndInv

LEMMA ParsedActionInv == IInv /\ Parsed => IInv'
<1> SUFFICES ASSUME IInv, Parsed PROVE IInv'
  OBVIOUS
<1>1. /\ stage = "scan" /\ stage' = "parsed" /\ message' = message /\ little' = little
      /\ message.bytes[options_buffer] = OPTIONS_END
  BY Zenon DEF Parsed, Tag, scan, config
<1>2. ConfigInv'
  BY ConfigStays, Zenon DEF Parsed, IInv
<1>3. PICK n \in Nat :
        /\ options_buffer = message.starts[n + 1] /\ Reads(message.options, n, parsed_options)
        /\ n = Len(message.options) \/ n < Len(message.options)
  BY <1>1, ScanPlace, Zenon
<1>4. IsMessage(message) /\ message \in Message
  BY <1>1, ScanPlace, Zenon
<1>5. n = Len(message.options)
  BY <1>1, <1>3, <1>4, AtOption, Zenon
<1>6. PICK unset \in Unset : datagram' = from_buffer(message.bytes, parsed_options, unset)
  BY Zenon DEF Parsed
<1>7. unset \in Byte
  BY DatagramAssumption, Zenon
<1>8. datagram'.options = parsed_options
  BY <1>6, SMT DEF from_buffer
<1>9. Echo(datagram')
  BY <1>4, <1>6, <1>7, ParsedEcho, Zenon
<1>10. Echo(datagram)'
  BY <1>1, <1>9, Zenon DEF Echo, to_network_byte_array, hton
<1>11. ScanInv' /\ MessageInv' /\ ParsedInv'
  <2>1. stage' # "scan" /\ stage' # "refused"
    BY <1>1, SMT
  <2> QED
    BY <1>1, <1>3, <1>4, <1>5, <1>8, <1>10, <2>1, Zenon DEF ScanInv, MessageInv, ParsedInv
<1> QED
  BY <1>1, <1>2, <1>11, SMT DEF IInv, ReplyInv, HeaderInv, WrittenInv, EndInv

\* The options of a reply and their values.
LEMMA ReplyAnswers ==
  ASSUME ConfigInv, NEW d, NEW type \in {"OFFER", "ACK", "NAK", "INFORM"},
         NEW time \in LeaseTimes(type)
  PROVE  Answers(ReplyOptions(d, type, time))
<1> DEFINE map == ReplyOptions(d, type, time)  tags == ReplyTags(d, type)
           server == to_byte_array(extract_interface_info, 4)
<1>1. /\ DOMAIN map = tags
      /\ \A t \in tags : map[t] = IF t = DHCP_MESSAGE_TYPE THEN <<TypeByte[type]>>
                                  ELSE IF t = SERVER_IDENTIFIER THEN server
                                  ELSE IF t = LEASE_TIME THEN time
                                  ELSE defined_options[t]
  BY Zenon DEF ReplyOptions
<1>2. set_requested_options(d) \subseteq DOMAIN defined_options
  BY Zenon DEF set_requested_options
<1>3. /\ tags \subseteq DOMAIN defined_options
                      \cup {DHCP_MESSAGE_TYPE, SERVER_IDENTIFIER, LEASE_TIME}
      /\ \/ DHCP_MESSAGE_TYPE \in DOMAIN defined_options \/ type # "INFORM"
         \/ DHCP_MESSAGE_TYPE \notin tags
  BY <1>2, Zenon DEF ReplyTags
<1>4. DOMAIN defined_options \subseteq {SUBNET_MASK, LEASE_TIME, ROUTERS, DNS_SERVER}
  BY Zenon DEF ConfigInv
<1>5. DHCP_MESSAGE_TYPE \notin {SUBNET_MASK, LEASE_TIME, ROUTERS, DNS_SERVER}
      /\ SUBNET_MASK \notin {DHCP_MESSAGE_TYPE, SERVER_IDENTIFIER, LEASE_TIME}
      /\ LEASE_TIME \notin {DHCP_MESSAGE_TYPE, SERVER_IDENTIFIER}
      /\ SERVER_IDENTIFIER # DHCP_MESSAGE_TYPE
  BY SMT DEF DHCP_MESSAGE_TYPE, SUBNET_MASK, LEASE_TIME, ROUTERS, DNS_SERVER, SERVER_IDENTIFIER
<1>6. server \in Seq(Byte) /\ server = BigEndian(ServerAddress)
  <2>1. ServerAddress \in Word
    BY DatagramAssumption, SMT
  <2> QED
    BY <2>1, HtonTwice, WordBytes, Zenon DEF extract_interface_info
<1>7. /\ time \in Seq(Byte)
      /\ \E n \in Remaining \cup {LeaseTime} : time = BigEndian(n)
  <2>1. time = defined_options[LEASE_TIME] \/ \E n \in Remaining : time = to_byte_array(n, 4)
    BY Zenon DEF LeaseTimes
  <2>2. CASE time = defined_options[LEASE_TIME]
    BY <2>2, Zenon DEF ConfigInv
  <2>3. CASE \E n \in Remaining : time = to_byte_array(n, 4)
    <3>1. PICK n \in Remaining : time = to_byte_array(n, 4)
      BY <2>3, Zenon
    <3>2. n \in Word
      BY DatagramAssumption, Zenon
    <3> QED
      BY <3>1, <3>2, WordBytes, Zenon
  <2> QED
    BY <2>1, <2>2, <2>3, Zenon
<1>8. DHCP_MESSAGE_TYPE \in tags => <<TypeByte[type]>> \in Seq(Byte)
  <2>1. ASSUME type # "INFORM" PROVE <<TypeByte[type]>> \in Seq(Byte)
    <3>1. TypeByte[type] \in {2, 5, 6}
      BY <2>1, SMT DEF TypeByte
    <3>2. {2, 5, 6} \subseteq Byte
      BY SMT DEF Byte
    <3> QED
      BY <3>1, <3>2, SMT
  <2> QED
    BY <1>3, <1>4, <1>5, <2>1, Zenon
<1> HIDE DEF map, tags, server
<1>9. \A t \in tags : map[t] \in Seq(Byte)
  <2> SUFFICES ASSUME NEW t \in tags PROVE map[t] \in Seq(Byte)
    OBVIOUS
  <2>1. CASE t = DHCP_MESSAGE_TYPE
    BY <1>1, <1>8, <2>1, Zenon
  <2>2. CASE t # DHCP_MESSAGE_TYPE /\ t = SERVER_IDENTIFIER
    BY <1>1, <1>6, <2>2, Zenon
  <2>3. CASE t # DHCP_MESSAGE_TYPE /\ t # SERVER_IDENTIFIER /\ t = LEASE_TIME
    BY <1>1, <1>7, <2>3, Zenon
  <2>4. CASE t # DHCP_MESSAGE_TYPE /\ t # SERVER_IDENTIFIER /\ t # LEASE_TIME
    <3>1. t \in DOMAIN defined_options /\ map[t] = defined_options[t]
      BY <1>1, <1>3, <2>4, Zenon
    <3> QED
      BY <3>1, Zenon DEF ConfigInv
  <2> QED
    BY <2>1, <2>2, <2>3, <2>4, Zenon
<1>10. SUBNET_MASK \in tags => map[SUBNET_MASK] = BigEndian(Netmask)
  BY <1>1, <1>5, Zenon DEF ConfigInv
<1>11. LEASE_TIME \in tags => \E n \in Remaining \cup {LeaseTime} : map[LEASE_TIME] = BigEndian(n)
  BY <1>1, <1>5, <1>7, Zenon
<1>12. SERVER_IDENTIFIER \in tags => map[SERVER_IDENTIFIER] = BigEndian(ServerAddress)
  BY <1>1, <1>5, <1>6, Zenon
<1>13. tags \subseteq {SUBNET_MASK, LEASE_TIME, ROUTERS, DNS_SERVER,
                       DHCP_MESSAGE_TYPE, SERVER_IDENTIFIER}
  BY <1>3, <1>4, Zenon
<1> QED
  BY <1>1, <1>9, <1>10, <1>11, <1>12, <1>13, Zenon DEF Answers, map

LEMMA HandleInv == IInv /\ Handle => IInv'
<1> SUFFICES ASSUME IInv, Handle PROVE IInv'
  OBVIOUS
<1>1. stage = "parsed" /\ stage' = "queued" /\ message' = message /\ little' = little
  BY Zenon DEF Handle, scan, config
<1>2. ConfigInv /\ ConfigInv' /\ MessageInv'
  <2>1. stage # "idle"
    BY <1>1, SMT
  <2> QED
    BY <1>1, <2>1, ConfigStays, Zenon DEF Handle, IInv, MessageInv
<1> DEFINE kind == datagram.options[DHCP_MESSAGE_TYPE][1]
<1>3. PICK type \in AnswerTypes[kind] :
        /\ kind \in DOMAIN AnswerTypes
        /\ \E time \in LeaseTimes(type) : reply' = create_reply(datagram, type, time)
  BY Zenon DEF Handle
<1>4. PICK time \in LeaseTimes(type) : reply' = create_reply(datagram, type, time)
  BY <1>3, Zenon
<1>5. type \in {"OFFER", "ACK", "NAK", "INFORM"}
  <2> HIDE DEF kind
  <2> QED
    BY <1>3, SMT DEF AnswerTypes
<1>6. Echo(datagram)
  BY <1>1, Zenon DEF IInv, ParsedInv
<1>7. /\ reply'.opcode = 2 /\ reply'.hwaddr_type = datagram.hwaddr_type
      /\ reply'.hwaddr_len = datagram.hwaddr_len
      /\ reply'.transaction_id = datagram.transaction_id
      /\ reply'.secs_passed = 0 /\ reply'.flags = datagram.flags /\ reply'.client_ip = 0
      /\ reply'.assigned_ip \in {0, Offered}
      /\ reply'.hw_addr = datagram.hw_addr
      /\ reply'.options = ReplyOptions(datagram, type, time)
  BY <1>4, SMT DEF create_reply
<1>8. Echo(reply')
  BY <1>6, <1>7, Zenon DEF Echo
<1>9. Echo(reply)'
  BY <1>1, <1>8, Zenon DEF Echo, to_network_byte_array, hton
<1>10. Answers(reply'.options)
  BY <1>2, <1>5, <1>7, ReplyAnswers, Zenon
<1>11. ReplyInv'
  BY <1>7, <1>9, <1>10, Zenon DEF ReplyInv
<1> QED
  BY <1>1, <1>2, <1>11, SMT DEF IInv, ScanInv, ParsedInv, HeaderInv, WrittenInv, EndInv

-----------------------------------------------------------------------------
(* to_byte_vector.                                                         *)

LEMMA ZeroIsWord == 0 \in Word
  BY SMT DEF Word, Byte

LEMMA PushHeaderInv == IInv /\ PushHeader => IInv'
<1> SUFFICES ASSUME IInv, PushHeader PROVE IInv'
  OBVIOUS
<1>1. /\ stage = "queued" /\ stage' = "push" /\ message' = message /\ little' = little
      /\ reply' = reply /\ bytes' = Header(reply) /\ written' = <<>>
      /\ starts' = <<OPTIONS_OFFSET + 1>>
  BY Zenon DEF PushHeader, scan, config
<1>2. ConfigInv' /\ MessageInv' /\ IsMessage(message)
  <2>1. stage # "idle"
    BY <1>1, SMT
  <2> QED
    BY <1>1, <2>1, ConfigStays, MessageIs, Zenon DEF PushHeader, IInv, MessageInv
<1>3. /\ Echo(reply) /\ Answers(reply.options)
      /\ reply.opcode = 2 /\ reply.secs_passed = 0 /\ reply.client_ip = 0
      /\ reply.assigned_ip \in {0, Offered}
  BY <1>1, Zenon DEF IInv, ReplyInv
<1>4. ReplyInv'
  <2>1. Echo(reply)'
    BY <1>1, <1>3, Zenon DEF Echo, to_network_byte_array, hton
  <2> QED
    BY <1>1, <1>3, <2>1, Zenon DEF ReplyInv
<1> DEFINE b == message.bytes  h == Header(reply)  a == reply.assigned_ip
<1>5. b \in Seq(Byte) /\ Len(b) > OPTIONS_OFFSET
  BY <1>2, Zenon DEF IsMessage
<1>6. \A i \in 1 .. 240 : b[i] \in Byte
  <2>1. Len(b) \in Nat
    BY <1>5, LenProperties, Zenon
  <2>2. \A i \in 1 .. 240 : i \in 1 .. Len(b)
    BY ONLY <1>5, <2>1, SMT DEF OPTIONS_OFFSET
  <2> QED
    BY <1>5, <2>2, ElementOfSeq, Zenon
<1>7. /\ b[2] \in Byte /\ b[3] \in Byte /\ b[5] \in Byte /\ b[6] \in Byte /\ b[7] \in Byte
      /\ b[8] \in Byte /\ b[11] \in Byte /\ b[12] \in Byte
  BY ONLY <1>6, SMT
<1> DEFINE xid == Four(b[5], b[6], b[7], b[8])  flags == Two(b[11], b[12])
<1>8. /\ reply.hwaddr_type = b[2] /\ reply.hwaddr_len = b[3]
      /\ to_network_byte_array(reply.transaction_id, 4) = xid
      /\ to_byte_array(reply.flags, 2) = flags
      /\ reply.hw_addr \in Seq(Byte) /\ Len(reply.hw_addr) = 16
      /\ \A i \in 1 .. 15 : reply.hw_addr[i] = b[28 + i]
  BY <1>3, Zenon DEF Echo
<1>9. xid \in Seq(Byte) /\ Len(xid) = 4 /\ flags \in Seq(Byte) /\ Len(flags) = 2
  <2>1. xid \in Seq(Byte) /\ Len(xid) = 4
    <3>1. b[5] \in Byte /\ b[6] \in Byte /\ b[7] \in Byte /\ b[8] \in Byte
      BY <1>7, Zenon
    <3> QED
      BY ONLY <3>1, FourSeq
  <2>2. flags \in Seq(Byte) /\ Len(flags) = 2
    BY <1>7, TwoSeq
  <2> QED
    BY <2>1, <2>2, Zenon
<1>10. /\ xid[1] = b[5] /\ xid[2] = b[6] /\ xid[3] = b[7] /\ xid[4] = b[8]
       /\ flags[1] = b[11] /\ flags[2] = b[12]
  BY SMT DEF Four, Two
<1>11. a \in Word /\ 0 \in Word /\ 0 \in Nat /\ 2 \in Byte
  <2>1. Offered \in Word
    BY DatagramAssumption, SMT
  <2>2. 0 \in Nat /\ 2 \in Byte
    BY SMT DEF Byte
  <2> QED
    BY <1>3, <2>1, <2>2, ZeroIsWord, Zenon
<1> HIDE DEF xid, flags, h, a, b
<1>12. /\ h \in Seq(Byte) /\ Len(h) = OPTIONS_OFFSET
       /\ h[1] = 2 /\ h[2] = b[2] /\ h[3] = b[3]
       /\ \A i \in 1 .. 4 : h[4 + i] = xid[i]
       /\ \A i \in 1 .. 2 : h[10 + i] = flags[i]
       /\ \A i \in 1 .. 4 : h[16 + i] = to_byte_array(a, 4)[i]
       /\ \A i \in 1 .. 16 : h[28 + i] = reply.hw_addr[i]
  BY <1>3, <1>7, <1>8, <1>9, <1>11, HeaderBytes, Zenon DEF h, a
<1>13. HeaderInv'
  <2>1. \A i \in EchoPlaces : h[i] = b[i]
    <3>1. h[2] = b[2] /\ h[3] = b[3]
      BY <1>12, Zenon
    <3>2. h[5] = b[5] /\ h[6] = b[6] /\ h[7] = b[7] /\ h[8] = b[8]
      <4>1. \A i \in 1 .. 4 : h[4 + i] = xid[i]
        BY <1>12, Zenon
      <4> QED
        BY ONLY <1>10, <4>1, SMT
    <3>3. h[11] = b[11] /\ h[12] = b[12]
      <4>1. \A i \in 1 .. 2 : h[10 + i] = flags[i]
        BY <1>12, Zenon
      <4> QED
        BY ONLY <1>10, <4>1, SMT
    <3>4. ASSUME NEW i \in 29 .. 43 PROVE h[i] = b[i]
      <4>1. i - 28 \in 1 .. 15 /\ i - 28 \in 1 .. 16 /\ 28 + (i - 28) = i
        BY SMT
      <4>2. \A j \in 1 .. 15 : reply.hw_addr[j] = b[28 + j]
        BY <1>8, Zenon
      <4>3. \A j \in 1 .. 16 : h[28 + j] = reply.hw_addr[j]
        BY <1>12, Zenon
      <4>4. h[28 + (i - 28)] = b[28 + (i - 28)]
        BY ONLY <4>1, <4>2, <4>3, Zenon
      <4> QED
        BY ONLY <4>1, <4>4, Zenon
    <3>5. \A i \in EchoPlaces : \/ i \in {2, 3, 5, 6, 7, 8, 11, 12}
                                \/ i \in 29 .. 43
      BY SMT DEF EchoPlaces
    <3> QED
      BY <3>1, <3>2, <3>3, <3>4, <3>5, Zenon
  <2>2. \A i \in 1 .. 4 : h[16 + i] = BigEndian(a)[i]
    BY <1>11, <1>12, WordBytes, Zenon
  <2>3. Len(h) >= OPTIONS_OFFSET
    BY ONLY <1>12, SMT DEF OPTIONS_OFFSET
  <2> QED
    BY <1>1, <1>12, <2>1, <2>2, <2>3, Zenon DEF HeaderInv, h, a, b
<1>14. WrittenInv'
  <2>1. written' \in Seq([tag : DOMAIN reply.options, value : Seq(Byte)]) /\ Len(written') = 0
    BY <1>1, EmptySeq, Zenon
  <2>2. starts' \in Seq(Nat \ {0}) /\ Len(starts') = 0 + 1 /\ starts'[1] = OPTIONS_OFFSET + 1
    BY <1>1, SMT DEF OPTIONS_OFFSET
  <2>3. \A i \in 1 .. 0 : FALSE
    BY SMT
  <2>4. Laid(bytes', starts', written')
    BY <2>1, <2>2, <2>3, Zenon DEF Laid
  <2> QED
    BY <1>1, <2>1, <2>2, <2>3, <2>4, Zenon DEF WrittenInv
<1>15. EndInv'
  <2>1. stage' # "sent"
    BY <1>1, SMT
  <2>2. starts'[Len(starts')] = OPTIONS_OFFSET + 1
    BY <1>1, SMT
  <2> QED
    BY <1>1, <1>12, <2>1, <2>2, Zenon DEF EndInv, h
<1> QED
  BY <1>1, <1>2, <1>4, <1>13, <1>14, <1>15, SMT DEF IInv, ScanInv, ParsedInv

\* Where the i-th of the options laid out in b is: all of it within b.
LaidAt(b, p, q, o) ==
  /\ b[p] = o.tag
  /\ o.tag = PAD => q = p + 1
  /\ o.tag # PAD =>
       /\ b[p + 1] = Len(o.value) /\ q = p + 2 + Len(o.value)
       /\ \A j \in 1 .. Len(o.value) : b[p + 1 + j] = o.value[j]
  /\ q <= Len(b) + 1

LEMMA LaidAtLonger ==
  ASSUME NEW b \in Seq(Byte), NEW c \in Seq(Byte), NEW p \in Nat \ {0}, NEW q \in Nat,
         NEW o, o.value \in Seq(Byte), LaidAt(b, p, q, o)
  PROVE  LaidAt(b \o c, p, q, o)
<1> DEFINE e == b \o c  v == o.value
<1>1. Len(b) \in Nat /\ Len(c) \in Nat /\ Len(v) \in Nat
  BY LenProperties, Zenon
<1>2. Len(e) = Len(b) + Len(c) /\ \A i \in 1 .. Len(b) : e[i] = b[i]
  BY Joined, Zenon
<1> HIDE DEF e
<1>3. /\ b[p] = o.tag
      /\ o.tag = PAD => q = p + 1
      /\ o.tag # PAD =>
           /\ b[p + 1] = Len(v) /\ q = p + 2 + Len(v)
           /\ \A j \in 1 .. Len(v) : b[p + 1 + j] = v[j]
      /\ q <= Len(b) + 1
  BY Zenon DEF LaidAt
<1> HIDE DEF v
<1>4. q <= Len(e) + 1
  BY ONLY <1>1, <1>2, <1>3, q \in Nat, SMT
<1>5. p \in 1 .. Len(b)
  BY ONLY <1>1, <1>3, q \in Nat, p \in Nat \ {0}, SMT
<1>6. e[p] = o.tag
  BY <1>2, <1>3, <1>5, Zenon
<1>7. ASSUME o.tag # PAD
      PROVE  e[p + 1] = Len(v) /\ \A j \in 1 .. Len(v) : e[p + 1 + j] = v[j]
  <2>1. q = p + 2 + Len(v)
    BY <1>3, <1>7, Zenon
  <2>2. q <= Len(b) + 1
    BY <1>3, Zenon
  <2>3. p + 1 \in 1 .. Len(b) /\ \A j \in 1 .. Len(v) : p + 1 + j \in 1 .. Len(b)
    BY ONLY <1>1, <2>1, <2>2, q \in Nat, p \in Nat \ {0}, SMT
  <2> QED
    BY <1>2, <1>3, <1>7, <2>3, Zenon
<1> QED
  BY <1>3, <1>4, <1>6, <1>7, Zenon DEF LaidAt, e, v

\* The length of the value fits a byte.
Short(v) == Len(v) < 256

\* The option to_byte_vector appends is where the next one is due.
LEMMA LaidAtEnd ==
  ASSUME NEW b \in Seq(Byte), NEW t \in Byte, t # PAD, NEW v \in Seq(Byte), Short(v)
  PROVE  LET c == b \o Pushed(t, v)
             q == Len(b) + 3 + Len(v)
         IN  /\ c \in Seq(Byte) /\ Len(c) + 1 = q
             /\ LaidAt(c, Len(b) + 1, q, [tag |-> t, value |-> v])
<1> DEFINE u == Two(t, Len(v) % 256)  w == u \o v  c == b \o w  q == Len(b) + 3 + Len(v)
<1>1. Len(v) \in Nat /\ Len(b) \in Nat
  BY LenProperties, Zenon
<1>2. Len(v) % 256 = Len(v) /\ Len(v) % 256 \in Byte
  <2>1. \A n \in Nat : n < 256 => n \in Byte
    BY ONLY SMT DEF Byte
  <2>2. Len(v) \in Byte
    BY <1>1, <2>1, SMT DEF Short
  <2> QED
    BY <2>2, ByteMod, SMT
<1>3. u \in Seq(Byte) /\ Len(u) = 2
  BY <1>2, TwoSeq, Zenon
<1>4. u[1] = t /\ u[2] = Len(v)
  BY <1>2, SMT DEF Two
<1> HIDE DEF u
<1>5. /\ w \in Seq(Byte) /\ Len(w) = Len(u) + Len(v)
      /\ \A i \in 1 .. Len(u) : w[i] = u[i]
      /\ \A i \in 1 .. Len(v) : w[Len(u) + i] = v[i]
  BY <1>3, Joined, Zenon
<1> HIDE DEF w
<1>6. /\ c \in Seq(Byte) /\ Len(c) = Len(b) + Len(w)
      /\ \A i \in 1 .. Len(w) : c[Len(b) + i] = w[i]
  BY <1>5, Joined, Zenon
<1> HIDE DEF c
<1>7. Len(w) = 2 + Len(v) /\ Len(c) + 1 = q /\ q <= Len(c) + 1
  BY ONLY <1>1, <1>3, <1>5, <1>6, SMT
<1>8. w[1] = t /\ w[2] = Len(v)
  <2>1. 1 \in 1 .. Len(u) /\ 2 \in 1 .. Len(u)
    BY <1>3, SMT
  <2> QED
    BY <1>4, <1>5, <2>1, Zenon
<1>9. c[Len(b) + 1] = t /\ c[(Len(b) + 1) + 1] = Len(v)
  <2>1. 1 \in 1 .. Len(w) /\ 2 \in 1 .. Len(w) /\ Len(b) + 2 = (Len(b) + 1) + 1
    BY ONLY <1>1, <1>7, SMT
  <2> QED
    BY <1>6, <1>8, <2>1, Zenon
<1>10. \A j \in 1 .. Len(v) : c[Len(b) + 1 + 1 + j] = v[j]
  <2> SUFFICES ASSUME NEW j \in 1 .. Len(v) PROVE c[Len(b) + 1 + 1 + j] = v[j]
    OBVIOUS
  <2>1. 2 + j \in 1 .. Len(w) /\ Len(b) + (2 + j) = Len(b) + 1 + 1 + j
    BY <1>1, <1>7, SMT
  <2> QED
    BY <1>3, <1>5, <1>6, <2>1, Zenon
<1>11. q = Len(b) + 1 + 2 + Len(v)
  BY <1>1, SMT
<1>12. LaidAt(c, Len(b) + 1, q, [tag |-> t, value |-> v])
  <2> DEFINE o == [tag |-> t, value |-> v]
  <2>1. o.tag = t /\ o.value = v
    OBVIOUS
  <2> HIDE DEF o, q
  <2> QED
    BY <1>7, <1>9, <1>10, <1>11, <2>1, Zenon DEF LaidAt
<1> QED
  BY <1>6, <1>7, <1>12, SMT DEF c, w, u, Two, Pushed

LEMMA LaidEach ==
  ASSUME NEW b, NEW st, NEW os
  PROVE  Laid(b, st, os) <=>
           /\ Len(st) = Len(os) + 1 /\ st[1] = OPTIONS_OFFSET + 1
           /\ \A i \in 1 .. Len(os) : LaidAt(b, st[i], st[i + 1], os[i])
  BY Zenon DEF Laid, LaidAt

\* Bytes appended to b leave the options in it where they are.
LEMMA LaidLonger ==
  ASSUME NEW b \in Seq(Byte), NEW c \in Seq(Byte), NEW st \in Seq(Nat \ {0}), NEW T,
         NEW os \in Seq([tag : T, value : Seq(Byte)]), Laid(b, st, os)
  PROVE  Laid(b \o c, st, os)
<1>1. /\ Len(st) = Len(os) + 1 /\ st[1] = OPTIONS_OFFSET + 1
      /\ \A i \in 1 .. Len(os) : LaidAt(b, st[i], st[i + 1], os[i])
  BY LaidEach, Zenon
<1>2. Len(os) \in Nat
  BY LenProperties, Zenon
<1>3. ASSUME NEW i \in 1 .. Len(os)
      PROVE  LaidAt(b \o c, st[i], st[i + 1], os[i])
  <2>1. i \in 1 .. Len(st) /\ i + 1 \in 1 .. Len(st)
    BY ONLY <1>1, <1>2, i \in 1 .. Len(os), SMT
  <2>2. st[i] \in Nat \ {0} /\ st[i + 1] \in Nat \ {0}
    BY <2>1, ElementOfSeq, Zenon
  <2>3. os[i] \in [tag : T, value : Seq(Byte)]
    BY ElementOfSeq, Zenon
  <2>4. os[i].value \in Seq(Byte)
    BY <2>3, SMT
  <2>5. st[i + 1] \in Nat
    BY <2>2, Zenon
  <2> QED
    BY <1>1, <2>2, <2>4, <2>5, LaidAtLonger, Zenon
<1> QED
  BY <1>1, <1>3, LaidEach, Zenon

\* So the options stay in the wire format as they are pushed.
LEMMA LaidOneMore ==
  ASSUME NEW b \in Seq(Byte), NEW st \in Seq(Nat \ {0}), NEW T,
         NEW os \in Seq([tag : T, value : Seq(Byte)]), Laid(b, st, os),
         st[Len(st)] = Len(b) + 1,
         NEW t \in T, t \in Byte, t # PAD, NEW v \in Seq(Byte), Short(v)
  PROVE  Laid(b \o Pushed(t, v), Append(st, Len(b) + 3 + Len(v)),
              Append(os, [tag |-> t, value |-> v]))
<1> DEFINE c == Pushed(t, v)  e == b \o c  q == Len(b) + 3 + Len(v)
           o == [tag |-> t, value |-> v]
           st2 == Append(st, q)  os2 == Append(os, o)
<1>1. Len(v) \in Nat /\ Len(b) \in Nat /\ Len(os) \in Nat /\ q \in Nat \ {0}
  <2>1. Len(v) \in Nat /\ Len(b) \in Nat /\ Len(os) \in Nat
    BY LenProperties, Zenon
  <2> QED
    BY <2>1, SMT
<1>2. c \in Seq(Byte)
  <2>1. Len(v) % 256 \in Byte
    BY <1>1, ByteParts, SMT
  <2>2. Two(t, Len(v) % 256) \in Seq(Byte)
    BY <2>1, TwoSeq, SMT
  <2>3. Two(t, Len(v) % 256) \o v \in Seq(Byte)
    BY <2>2, Joined, SMT
  <2> QED
    BY <2>3, SMT DEF Two, Pushed
<1>3. Laid(e, st, os) /\ Laid(b, st, os)
  BY <1>2, LaidLonger, Zenon
<1>4. LaidAt(e, Len(b) + 1, q, o)
  BY LaidAtEnd, Zenon
<1>5. o \in [tag : T, value : Seq(Byte)]
  OBVIOUS
<1> HIDE DEF c, e, q, o
<1>6. /\ Len(st2) = Len(st) + 1 /\ st2[Len(st) + 1] = q
      /\ \A i \in 1 .. Len(st) : st2[i] = st[i]
  BY <1>1, AppendProperties, SMT
<1>7. /\ Len(os2) = Len(os) + 1 /\ os2[Len(os) + 1] = o
      /\ \A i \in 1 .. Len(os) : os2[i] = os[i]
  BY <1>5, AppendProperties, SMT
<1> HIDE DEF st2, os2
<1>8. /\ Len(st) = Len(os) + 1 /\ st[1] = OPTIONS_OFFSET + 1
      /\ \A i \in 1 .. Len(os) : LaidAt(e, st[i], st[i + 1], os[i])
  BY <1>3, LaidEach, Zenon
<1>9. Len(st2) = Len(os2) + 1 /\ 1 \in 1 .. Len(st)
  BY ONLY <1>1, <1>6, <1>7, <1>8, SMT
<1>10. st2[1] = OPTIONS_OFFSET + 1
  BY <1>6, <1>8, <1>9, Zenon
<1>11. ASSUME NEW i \in 1 .. Len(os2)
       PROVE  LaidAt(e, st2[i], st2[i + 1], os2[i])
  <2>1. CASE i \in 1 .. Len(os)
    <3>1. i \in 1 .. Len(st) /\ i + 1 \in 1 .. Len(st)
      BY ONLY <1>1, <1>8, <2>1, SMT
    <3>2. st2[i] = st[i] /\ st2[i + 1] = st[i + 1] /\ os2[i] = os[i]
      BY <1>6, <1>7, <2>1, <3>1, Zenon
    <3> QED
      BY <1>8, <2>1, <3>2, Zenon
  <2>2. CASE i = Len(os) + 1
    <3>1. i = Len(st) /\ i \in 1 .. Len(st)
      BY ONLY <1>1, <1>8, <2>2, SMT
    <3>2. st2[i] = Len(b) + 1 /\ st2[i + 1] = q /\ os2[i] = o
      BY <1>6, <1>7, <2>2, <3>1, Zenon
    <3> QED
      BY <1>4, <3>2, Zenon
  <2>3. i \in 1 .. Len(os) \/ i = Len(os) + 1
    BY ONLY <1>1, <1>7, i \in 1 .. Len(os2), SMT
  <2> QED
    BY <2>1, <2>2, <2>3, Zenon
<1>12. Laid(e, st2, os2)
  BY <1>9, <1>10, <1>11, LaidEach, Zenon
<1> QED
  BY <1>12, Zenon DEF e, c, st2, os2, o, q

LEMMA PushedBytes ==
  ASSUME NEW t \in Byte, NEW v \in Seq(Byte)
  PROVE  Pushed(t, v) \in Seq(Byte) /\ Len(Pushed(t, v)) = 2 + Len(v)
<1> DEFINE u == Two(t, Len(v) % 256)
<1>1. Len(v) \in Nat
  BY LenProperties, Zenon
<1>2. Len(v) % 256 \in Byte
  BY <1>1, ByteParts, SMT
<1>3. u \in Seq(Byte) /\ Len(u) = 2
  BY <1>2, TwoSeq, SMT
<1>4. Pushed(t, v) = u \o v
  BY SMT DEF Pushed, Two
<1> HIDE DEF u
<1>5. u \o v \in Seq(Byte) /\ Len(u \o v) = Len(u) + Len(v)
  BY <1>3, Joined, Zenon
<1> QED
  BY ONLY <1>3, <1>4, <1>5, Zenon

\* What stays true of the header when bytes are appended.
LEMMA HeaderLonger ==
  ASSUME HeaderInv, stage \in {"push", "sent"}, NEW c \in Seq(Byte),
         bytes' = bytes \o c, message' = message, reply' = reply
  PROVE  HeaderInv'
<1>1. /\ bytes \in Seq(Byte) /\ Len(bytes) >= OPTIONS_OFFSET /\ bytes[1] = 2
      /\ \A i \in EchoPlaces : bytes[i] = message.bytes[i]
      /\ \A i \in 1 .. 4 : bytes[16 + i] = BigEndian(reply.assigned_ip)[i]
  BY Zenon DEF HeaderInv
<1>2. Len(bytes) \in Nat /\ Len(c) \in Nat
  BY <1>1, LenProperties, Zenon
<1>3. /\ bytes' \in Seq(Byte) /\ Len(bytes') = Len(bytes) + Len(c)
      /\ \A i \in 1 .. Len(bytes) : bytes'[i] = bytes[i]
  BY <1>1, Joined, Zenon
<1>4. /\ 1 \in 1 .. Len(bytes) /\ Len(bytes') >= OPTIONS_OFFSET
      /\ \A i \in EchoPlaces : i \in 1 .. Len(bytes)
      /\ \A i \in 1 .. 4 : 16 + i \in 1 .. Len(bytes)
  <2>1. Len(bytes) >= OPTIONS_OFFSET /\ Len(bytes') = Len(bytes) + Len(c)
    BY <1>1, <1>3, Zenon
  <2> QED
    BY ONLY <1>2, <2>1, SMT DEF OPTIONS_OFFSET, EchoPlaces
<1>5. /\ bytes'[1] = 2
      /\ \A i \in EchoPlaces : bytes'[i] = message.bytes[i]
      /\ \A i \in 1 .. 4 : bytes'[16 + i] = BigEndian(reply.assigned_ip)[i]
  BY <1>1, <1>3, <1>4, Zenon
<1> QED
  BY <1>3, <1>4, <1>5, Zenon DEF HeaderInv

LEMMA ReplyStays ==
  ASSUME ReplyInv, stage \in {"queued", "push", "sent"},
         message' = message, little' = little, reply' = reply
  PROVE  ReplyInv'
<1>1. Echo(reply)'
  BY Zenon DEF ReplyInv, Echo, to_network_byte_array, hton
<1> QED
  BY <1>1, Zenon DEF ReplyInv

LEMMA PushOptionInv == IInv /\ PushOption => IInv'
<1> SUFFICES ASSUME IInv, PushOption PROVE IInv'
  OBVIOUS
<1> DEFINE map == reply.options  R == [tag : DOMAIN map, value : Seq(Byte)]
<1>1. /\ stage = "push" /\ stage' = "push" /\ message' = message /\ little' = little
      /\ reply' = reply
  BY Zenon DEF PushOption, scan, config
<1>2. PICK t \in Unwritten :
        /\ bytes' = bytes \o Pushed(t, map[t])
        /\ written' = Append(written, [tag |-> t, value |-> map[t]])
        /\ starts' = Append(starts, Len(bytes) + 3 + Len(map[t]))
  BY Zenon DEF PushOption
<1> DEFINE v == map[t]  o == [tag |-> t, value |-> v]  q == Len(bytes) + 3 + Len(v)
<1>3. /\ stage # "idle" /\ stage \in {"push", "sent"}
      /\ stage \in {"queued", "push", "sent"} /\ stage' # "sent"
  BY <1>1, SMT
<1>4. ConfigInv' /\ MessageInv' /\ ReplyInv'
  BY <1>1, <1>3, ConfigStays, ReplyStays, Zenon DEF PushOption, IInv, MessageInv
<1>5. t \in DOMAIN map /\ \A i \in DOMAIN written : written[i].tag # t
  BY Zenon DEF Unwritten
<1>6. v \in Seq(Byte) /\ t \in Byte /\ t # PAD
  <2>1. Answers(map)
    BY <1>3, Zenon DEF IInv, ReplyInv
  <2>2. t \in {SUBNET_MASK, LEASE_TIME, ROUTERS, DNS_SERVER, DHCP_MESSAGE_TYPE, SERVER_IDENTIFIER}
    BY <1>5, <2>1, Zenon DEF Answers
  <2>3. t \in Byte /\ t # PAD
    BY <2>2, SMT DEF SUBNET_MASK, LEASE_TIME, ROUTERS, DNS_SERVER, DHCP_MESSAGE_TYPE,
                    SERVER_IDENTIFIER, Byte, PAD
  <2> QED
    BY <1>5, <2>1, <2>3, Zenon DEF Answers
<1>7. bytes' = bytes \o Pushed(t, v)
  BY <1>2, Zenon
<1>8. Pushed(t, v) \in Seq(Byte) /\ Len(Pushed(t, v)) = 2 + Len(v)
  BY <1>6, PushedBytes, Zenon
<1>9. HeaderInv' /\ bytes \in Seq(Byte)
  BY <1>1, <1>3, <1>7, <1>8, HeaderLonger, Zenon DEF IInv, HeaderInv
<1>10. /\ written \in Seq(R) /\ starts \in Seq(Nat \ {0}) /\ Len(starts) = Len(written) + 1
       /\ \A i \in 1 .. Len(written) : written[i].value = map[written[i].tag]
       /\ \A i, j \in 1 .. Len(written) : written[i].tag = written[j].tag => i = j
       /\ Fits(map) => Laid(bytes, starts, written)
       /\ starts[Len(starts)] = Len(bytes) + 1
  BY <1>1, <1>3, Zenon DEF IInv, WrittenInv, EndInv
<1>11. o \in R /\ o.tag = t /\ o.value = v
  BY <1>5, <1>6, SMT
<1>12. Len(v) \in Nat /\ Len(bytes) \in Nat /\ Len(written) \in Nat /\ Len(starts) \in Nat
  BY <1>6, <1>9, <1>10, LenProperties, Zenon
<1>13. q \in Nat \ {0}
  <2> HIDE DEF v
  <2> QED
    BY ONLY <1>12, SMT
<1>14. written' = Append(written, o) /\ starts' = Append(starts, q)
  BY <1>2, Zenon
<1> HIDE DEF R, o, q, v
<1>15. /\ written' \in Seq(R) /\ Len(written') = Len(written) + 1
       /\ \A i \in 1 .. Len(written) : written'[i] = written[i]
       /\ written'[Len(written) + 1] = o
  <2>1. written \in Seq(R) /\ o \in R
    BY <1>10, <1>11, Zenon
  <2>2. /\ Append(written, o) \in Seq(R) /\ Len(Append(written, o)) = Len(written) + 1
        /\ \A i \in 1 .. Len(written) : Append(written, o)[i] = written[i]
        /\ Append(written, o)[Len(written) + 1] = o
    BY ONLY <2>1, AppendProperties
  <2> QED
    BY ONLY <1>14, <2>2, Zenon
<1>16. /\ starts' \in Seq(Nat \ {0}) /\ Len(starts') = Len(starts) + 1
       /\ starts'[Len(starts) + 1] = q
  <2>1. starts \in Seq(Nat \ {0})
    BY <1>10, Zenon
  <2>2. /\ Append(starts, q) \in Seq(Nat \ {0}) /\ Len(Append(starts, q)) = Len(starts) + 1
        /\ Append(starts, q)[Len(starts) + 1] = q
    BY ONLY <1>13, <2>1, AppendProperties
  <2> QED
    BY ONLY <1>14, <2>2, Zenon
<1>17. \A i \in 1 .. Len(written') : i \in 1 .. Len(written) \/ i = Len(written) + 1
  BY ONLY <1>12, <1>15, SMT
<1>18. \A i \in 1 .. Len(written) : written[i].tag # t
  BY <1>5, <1>10, LenProperties, Zenon
<1>19. \A i \in 1 .. Len(written') : written'[i].value = map[written'[i].tag]
  BY <1>10, <1>11, <1>15, <1>17, Zenon DEF v
<1>20. \A i, j \in 1 .. Len(written') : written'[i].tag = written'[j].tag => i = j
  BY <1>10, <1>11, <1>15, <1>17, <1>18, Zenon
<1>21. Fits(map) => Laid(bytes', starts', written')
  <2> SUFFICES ASSUME Fits(map) PROVE Laid(bytes', starts', written')
    OBVIOUS
  <2>1. Short(v)
    BY <1>5, SMT DEF Fits, Short, v
  <2>2. Laid(bytes, starts, written)
    BY <1>10, Zenon
  <2>3. Laid(bytes \o Pushed(t, v), Append(starts, Len(bytes) + 3 + Len(v)),
             Append(written, [tag |-> t, value |-> v]))
    BY <1>5, <1>6, <1>9, <1>10, <2>1, <2>2, LaidOneMore, Zenon DEF R
  <2> QED
    BY <1>7, <1>14, <2>3, Zenon DEF o, q
<1>22. WrittenInv'
  <2>1. Len(starts') = Len(written') + 1
    BY ONLY <1>10, <1>15, <1>16, Zenon
  <2> QED
    BY <1>1, <1>15, <1>16, <1>19, <1>20, <1>21, <2>1, Zenon DEF WrittenInv, R
<1>23. EndInv'
  <2>1. Len(bytes') = Len(bytes) + Len(Pushed(t, v))
    BY <1>7, <1>8, <1>9, Joined, Zenon
  <2>2. q = Len(bytes') + 1
    BY ONLY <1>8, <1>12, <2>1, SMT DEF q
  <2> QED
    BY <1>3, <1>16, <2>2, Zenon DEF EndInv
<1> QED
  BY <1>1, <1>4, <1>9, <1>22, <1>23, SMT DEF IInv, ScanInv, ParsedInv

LEMMA PushEndInv == IInv /\ PushEnd => IInv'
<1> SUFFICES ASSUME IInv, PushEnd PROVE IInv'
  OBVIOUS
<1> DEFINE map == reply.options  c == <<OPTIONS_END>>
<1>1. /\ stage = "push" /\ stage' = "sent" /\ message' = message /\ little' = little
      /\ reply' = reply /\ written' = written /\ starts' = starts
      /\ bytes' = Append(bytes, OPTIONS_END) /\ Unwritten = {}
  BY Zenon DEF PushEnd, scan, config
<1>2. /\ stage # "idle" /\ stage \in {"push", "sent"}
      /\ stage \in {"queued", "push", "sent"} /\ stage' # "push"
  BY <1>1, SMT
<1>3. ConfigInv' /\ MessageInv' /\ ReplyInv'
  BY <1>1, <1>2, ConfigStays, ReplyStays, Zenon DEF PushEnd, IInv, MessageInv
<1>4. bytes \in Seq(Byte)
  BY <1>2, Zenon DEF IInv, HeaderInv
<1>5. c \in Seq(Byte) /\ OPTIONS_END \in Byte
  BY SMT DEF OPTIONS_END, Byte
<1>6. bytes' = bytes \o c
  BY <1>1, <1>4, <1>5, AppendIsConcat, Zenon
<1> HIDE DEF c
<1>7. HeaderInv'
  BY <1>1, <1>2, <1>5, <1>6, HeaderLonger, Zenon DEF IInv
<1>8. /\ Len(bytes') = Len(bytes) + 1 /\ bytes'[Len(bytes) + 1] = OPTIONS_END
  <2>1. /\ Len(Append(bytes, OPTIONS_END)) = Len(bytes) + 1
        /\ Append(bytes, OPTIONS_END)[Len(bytes) + 1] = OPTIONS_END
    BY ONLY <1>4, <1>5, AppendProperties, Zenon
  <2> QED
    BY <1>1, <2>1, Zenon
<1>9. /\ written \in Seq([tag : DOMAIN map, value : Seq(Byte)])
      /\ starts \in Seq(Nat \ {0}) /\ Len(starts) = Len(written) + 1
      /\ \A i \in 1 .. Len(written) : written[i].value = map[written[i].tag]
      /\ \A i, j \in 1 .. Len(written) : written[i].tag = written[j].tag => i = j
      /\ Fits(map) => Laid(bytes, starts, written)
      /\ starts[Len(starts)] = Len(bytes) + 1
  BY <1>1, <1>2, Zenon DEF IInv, WrittenInv, EndInv
<1>10. Fits(map) => Laid(bytes', starts, written)
  BY <1>4, <1>5, <1>6, <1>9, LaidLonger, Zenon
<1>11. WrittenInv'
  BY <1>1, <1>9, <1>10, Zenon DEF WrittenInv
<1>12. EndInv'
  BY <1>1, <1>2, <1>8, <1>9, Zenon DEF EndInv, Unwritten
<1> QED
  BY <1>1, <1>3, <1>7, <1>11, <1>12, SMT DEF IInv, ScanInv, ParsedInv

LEMMA StutterInv == IInv /\ UNCHANGED vars => IInv'
<1> SUFFICES ASSUME IInv, UNCHANGED vars PROVE IInv'
  OBVIOUS
<1>1. /\ little' = little /\ defined_options' = defined_options /\ message' = message
      /\ stage' = stage /\ options_buffer' = options_buffer /\ parsed_options' = parsed_options
      /\ datagram' = datagram /\ reply' = reply /\ bytes' = bytes /\ written' = written
      /\ starts' = starts
  BY Zenon DEF vars, config, scan, output
<1>2. ConfigInv' /\ MessageInv'
  BY <1>1, Zenon DEF IInv, ConfigInv, MessageInv
<1>3. ScanInv'
  BY <1>1, Zenon DEF IInv, ScanInv
<1>4. ParsedInv' /\ ReplyInv'
  BY <1>1, Zenon DEF IInv, ParsedInv, ReplyInv, Echo, to_network_byte_array, hton
<1>5. HeaderInv' /\ WrittenInv'
  BY <1>1, Zenon DEF IInv, HeaderInv, WrittenInv
<1>6. EndInv'
  BY <1>1, Zenon DEF IInv, EndInv, Unwritten
<1> QED
  BY <1>2, <1>3, <1>4, <1>5, <1>6, Zenon DEF IInv

LEMMA NextInv == IInv /\ [Next]_vars => IInv'
  BY ArriveInv, ScanPadInv, ScanOptionInv, RefuseInv, ParsedActionInv, HandleInv,
     PushHeaderInv, PushOptionInv, PushEndInv, StutterInv, Zenon DEF Next

\* The strengthened invariant holds of every behaviour.
LEMMA DatagramInvariance == Spec => []IInv
<1>1. Init => IInv
  BY InitInv, Zenon
<1>2. IInv /\ [Next]_vars => IInv'
  BY NextInv, Zenon
<1> QED
  BY <1>1, <1>2, PTL DEF Spec

\* parse_options reads exactly the options of every message in the wire format that fits the
\* receive buffer, and refuses it exactly if an option of predefined length has another.
THEOREM ScanIsExact == Spec => []ScanReadsTheOptions
<1>1. IInv => ScanReadsTheOptions
  <2> SUFFICES ASSUME IInv PROVE ScanReadsTheOptions
    OBVIOUS
  <2>1. ScanInv
    BY Zenon DEF IInv
  <2>2. \A i \in 1 .. Len(message.options) :
          Legal(message.options[i]) <=> \/ LegalLength(message.options[i].tag,
                                                       Len(message.options[i].value))
                                        \/ message.options[i].tag = PAD
    BY Zenon DEF Legal
  <2> QED
    BY <2>1, <2>2, Zenon DEF ScanInv, Reads, ScanReadsTheOptions
<1> QED
  BY <1>1, DatagramInvariance, PTL

\* Every reply carries, byte for byte, what its client recognises it by.
THEOREM ReplyEchoesTheClient == Spec => []ReplyIsRecognised
<1>1. IInv => ReplyIsRecognised
  <2> SUFFICES ASSUME IInv, stage = "sent"
               PROVE  bytes[1] = 2 /\ \A i \in EchoPlaces : bytes[i] = message.bytes[i]
    BY Zenon DEF ReplyIsRecognised, EchoPlaces
  <2> QED
    BY SMT DEF IInv, HeaderInv
<1> QED
  BY <1>1, DatagramInvariance, PTL

\* Every reply whose values fit their length bytes is well formed and says what the handler
\* meant, on hosts of either byte order.
THEOREM ReplyIsWellFormed == Spec => []ClientReadsTheReply
<1>1. IInv => ClientReadsTheReply
  <2> SUFFICES ASSUME IInv, stage = "sent", Fits(reply.options)
               PROVE  ClientReadsTheReply
    BY Zenon DEF ClientReadsTheReply
  <2> DEFINE map == reply.options  R == [tag : DOMAIN map, value : Seq(Byte)]
  <2>1. /\ bytes \in Seq(Byte) /\ Len(bytes) >= OPTIONS_OFFSET
        /\ \A i \in 1 .. 4 : bytes[16 + i] = BigEndian(reply.assigned_ip)[i]
    BY SMT DEF IInv, HeaderInv
  <2>2. /\ written \in Seq(R) /\ Len(starts) = Len(written) + 1
        /\ \A i \in 1 .. Len(written) : written[i].value = map[written[i].tag]
        /\ \A i, j \in 1 .. Len(written) : written[i].tag = written[j].tag => i = j
        /\ Laid(bytes, starts, written)
    BY Zenon DEF IInv, WrittenInv
  <2>3. /\ starts[Len(starts)] = Len(bytes) /\ bytes[Len(bytes)] = OPTIONS_END
        /\ Unwritten = {}
    BY Zenon DEF IInv, EndInv
  <2>4. Answers(map) /\ reply.assigned_ip \in {0, Offered}
    BY Zenon DEF IInv, ReplyInv
  <2>5. Encodes(bytes, starts, written)
    <3>1. Len(bytes) \in Nat
      BY <2>1, LenProperties, Zenon
    <3>2. Len(bytes) <= Len(bytes)
      BY <3>1, SMT
    <3> QED
      BY <2>2, <2>3, <3>2, Zenon DEF Encodes
  <2>6. \A i \in 1 .. Len(written) : written[i].tag \in DOMAIN map
    <3>1. \A i \in 1 .. Len(written) : written[i] \in R
      BY <2>2, ElementOfSeq, Zenon
    <3> QED
      BY <3>1, SMT
  <2>7. {written[i].tag : i \in 1 .. Len(written)} = DOMAIN map
    <3>1. DOMAIN written = 1 .. Len(written)
      BY <2>2, LenProperties, Zenon
    <3> QED
      BY <2>3, <2>6, <3>1, Zenon DEF Unwritten
  <2>8. SubSeq(bytes, 17, 20) \in {BigEndian(0), BigEndian(Offered)}
    <3> DEFINE v == BigEndian(reply.assigned_ip)
    <3>1. reply.assigned_ip \in Word
      <4>1. Offered \in Word
        BY DatagramAssumption, SMT
      <4> QED
        BY <2>4, <4>1, ZeroIsWord, Zenon
    <3>2. v \in Seq(Byte) /\ Len(v) = 4
      BY <3>1, WordBytes, Zenon
    <3> HIDE DEF v
    <3>3. Len(bytes) \in Nat
      BY <2>1, LenProperties, Zenon
    <3>4. 16 \in Nat /\ 16 + Len(v) <= Len(bytes) /\ 16 + 1 = 17 /\ 16 + Len(v) = 20
      BY ONLY <2>1, <3>2, <3>3, SMT DEF OPTIONS_OFFSET
    <3>5. \A j \in 1 .. Len(v) : bytes[16 + j] = v[j]
      BY <2>1, <3>2, Zenon DEF v
    <3>6. SubSeq(bytes, 16 + 1, 16 + Len(v)) = v
      BY ONLY <2>1, <3>2, <3>4, <3>5, Slice, Zenon
    <3> QED
      BY <2>4, <3>4, <3>6, Zenon DEF v
  <2>9. \A i \in 1 .. Len(written) :
         /\ written[i].tag = SUBNET_MASK => written[i].value = BigEndian(Netmask)
         /\ written[i].tag = LEASE_TIME =>
              \E n \in Remaining \cup {LeaseTime} : written[i].value = BigEndian(n)
         /\ written[i].tag = SERVER_IDENTIFIER => written[i].value = BigEndian(ServerAddress)
    BY <2>2, <2>4, <2>6, Zenon DEF Answers
  <2> QED
    BY <2>2, <2>5, <2>7, <2>8, <2>9, Zenon DEF ClientReadsTheReply
<1> QED
  BY <1>1, DatagramInvariance, PTL
=============================================================================
