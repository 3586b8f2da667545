---------------------------- MODULE ToolsProofs -----------------------------
(***************************************************************************)
(* What log_adhoc() and the base64 functions do with every input; what is  *)
(* read from every configuration file; and what a child makes of every     *)
(* table: what it sends is what the table holds, and the lists are freed   *)
(* as they were allocated.  Then the functions that write and read PDUs,   *)
(* and the stream of PDUs they make: every one is read as what it was      *)
(* written as, and recv() writes where there is room.                      *)
(***************************************************************************)
EXTENDS Tools, PduStream, SequenceTheorems, WellFoundedInduction, TLAPS

Stats == [{"incoming_arrival", "active_arrival", "agent_handoff",
           "conn_setup_done", "deliver_done"} -> Stamp]

(* What the two loops of DELTA do.                                          *)
LEMMA Carry ==
    ASSUME NEW n \in Int
    PROVE  /\ n \div SECOND \in Int /\ n % SECOND \in Nat /\ n % SECOND < SECOND
           /\ n = SECOND * (n \div SECOND) + (n % SECOND)
BY SMT DEF SECOND

(* Two differences of seconds and microseconds, put together.               *)
LEMMA Together ==
    ASSUME NEW ys \in Int, NEW yu \in Int, NEW zs \in Int, NEW zu \in Int,
           NEW d \in Int, NEW r \in Int, yu - zu = SECOND * d + r
    PROVE  (SECOND * ys + yu) - (SECOND * zs + zu) = SECOND * (ys - zs + d) + r
BY SMT DEF SECOND

LEMMA Sign ==
    ASSUME NEW sec \in Int, NEW r \in Nat, r < SECOND
    PROVE  /\ SECOND * sec + r \in Int
           /\ sec < 0 <=> SECOND * sec + r < 0
BY SMT DEF SECOND

LEMMA MicrosType == \A t \in Stamp : Micros(t) \in Int
BY SMT DEF Stamp, Micros, SECOND

(* DELTA is the difference of two stamps, or zero when it is negative.      *)
LEMMA DeltaIs ==
    ASSUME NEW y \in Stamp, NEW z \in Stamp
    PROVE  Micros(Delta(y, z)) =
               IF Micros(y) >= Micros(z) THEN Micros(y) - Micros(z) ELSE 0
<1> DEFINE usec == y.usec - z.usec
           d == usec \div SECOND
           r == usec % SECOND
           sec == y.sec - z.sec + d
           total == SECOND * sec + r
<1>1. /\ y.sec \in Int /\ y.usec \in Int /\ z.sec \in Int /\ z.usec \in Int
  BY DEF Stamp
<1>2. usec \in Int
  BY <1>1
<1>3. d \in Int /\ r \in Nat /\ r < SECOND /\ usec = SECOND * d + r
  BY <1>2, Carry
<1>4. sec \in Int
  BY <1>1, <1>3
<1>5. Micros(y) - Micros(z) = total
  BY <1>1, <1>3, Together DEF Micros
<1>6. Delta(y, z) = IF sec < 0 THEN Zero ELSE [sec |-> sec, usec |-> r]
  BY DEF Delta
<1>7. total \in Int /\ (sec < 0 <=> total < 0)
  BY <1>3, <1>4, Sign
<1>8. Micros(y) \in Int /\ Micros(z) \in Int
  BY MicrosType
<1>9. Micros(Zero) = 0
  BY SMT DEF Micros, Zero, SECOND
<1>10. Micros([sec |-> sec, usec |-> r]) = total
  BY DEF Micros
<1> HIDE DEF usec, sec, d, r, total
<1> QED
  BY <1>4, <1>5, <1>6, <1>7, <1>8, <1>9, <1>10

(* The delays in a record account for the end-to-end delay, whichever       *)
(* stages a delivery has reached and however the clocks ran.                *)
THEOREM RecordAddsUp ==
    ASSUME NEW stats \in Stats, NEW clock \in Stamp
    PROVE  AddUp(log_adhoc(stats, clock), stats, clock)
<1> DEFINE i == stats.incoming_arrival
           a == stats.active_arrival
           h == stats.agent_handoff
           s == stats.conn_setup_done
           now == Now(stats, clock)
<1>1. /\ i \in Stamp /\ a \in Stamp /\ h \in Stamp /\ s \in Stamp
      /\ stats.deliver_done \in Stamp
  BY DEF Stats
<1>2. now \in Stamp
  BY <1>1 DEF Now
<1>3. \A t \in Stamp : Micros(t) \in Int
  BY MicrosType
<1>4. Micros(Zero) = 0
  BY SMT DEF Micros, Zero, SECOND
<1>5. \A y, z \in Stamp :
        Micros(Delta(y, z)) = IF Micros(y) >= Micros(z) THEN Micros(y) - Micros(z) ELSE 0
  BY DeltaIs
<1>6. CASE ~TimeStamped(a)
  BY <1>1, <1>2, <1>3, <1>4, <1>5, <1>6
     DEF AddUp, log_adhoc, pdelay, adelay, sdelay, xdelay, HandedOff, Ordered
<1>7. CASE TimeStamped(a) /\ ~TimeStamped(h)
  BY <1>1, <1>2, <1>3, <1>4, <1>5, <1>7
     DEF AddUp, log_adhoc, pdelay, adelay, sdelay, xdelay, HandedOff, Ordered
<1>8. CASE TimeStamped(a) /\ TimeStamped(h) /\ ~TimeStamped(s)
  BY <1>1, <1>2, <1>3, <1>4, <1>5, <1>8
     DEF AddUp, log_adhoc, pdelay, adelay, sdelay, xdelay, HandedOff, Ordered
<1>9. CASE TimeStamped(a) /\ TimeStamped(h) /\ TimeStamped(s)
  BY <1>1, <1>2, <1>3, <1>4, <1>5, <1>9
     DEF AddUp, log_adhoc, pdelay, adelay, sdelay, xdelay, HandedOff, Ordered
<1> QED
  BY <1>6, <1>7, <1>8, <1>9
-----------------------------------------------------------------------------
(* base64: first the numbers.                                               *)

LEMMA Two == ASSUME NEW h \in Nat, h < 4, NEW l \in Nat, l < 16
             PROVE  ((16 * h + l) \div 16) % 4 = h /\ (16 * h + l) % 16 = l /\ 16 * h + l < 64
BY SMT

LEMMA Three == ASSUME NEW h \in Nat, h < 16, NEW l \in Nat, l < 4
               PROVE  ((4 * h + l) \div 4) % 16 = h /\ (4 * h + l) % 4 = l /\ 4 * h + l < 64
BY SMT

LEMMA By4 == ASSUME NEW a \in Nat, a < 256
             PROVE  /\ a \div 4 \in Nat /\ a \div 4 < 64
                    /\ a % 4 \in Nat /\ a % 4 < 4
                    /\ (4 * (a \div 4) + (a % 4)) % 256 = a
BY SMT

LEMMA By16 == ASSUME NEW a \in Nat, a < 256
              PROVE  /\ a \div 16 \in Nat /\ a \div 16 < 16
                     /\ a % 16 \in Nat /\ a % 16 < 16
                     /\ (16 * (a \div 16) + (a % 16)) % 256 = a
BY SMT

LEMMA By64 == ASSUME NEW a \in Nat, a < 256
              PROVE  /\ a \div 64 \in Nat /\ a \div 64 < 4
                     /\ a % 64 \in Nat /\ a % 64 < 64
                     /\ (64 * (a \div 64) + (a % 64)) % 256 = a
BY SMT

(* Three bytes give four indices.                                           *)
LEMMA Indices ==
    ASSUME NEW a \in Nat, a < 256, NEW b \in Nat, b < 256, NEW c \in Nat, c < 256,
           NEW s1, NEW s2, NEW s3, NEW s4, <<s1, s2, s3, s4>> = Sextets(a, b, c)
    PROVE  /\ s1 \in Nat /\ s1 < 64 /\ s2 \in Nat /\ s2 < 64
           /\ s3 \in Nat /\ s3 < 64 /\ s4 \in Nat /\ s4 < 64
<1>1. /\ s1 = a \div 4 /\ s2 = 16 * (a % 4) + (b \div 16)
      /\ s3 = 4 * (b % 16) + (c \div 64) /\ s4 = c % 64
  BY Zenon DEF Sextets
<1>2. s2 \in Nat /\ s2 < 64
  BY <1>1, By4, By16, Two
<1>3. s3 \in Nat /\ s3 < 64
  BY <1>1, By16, By64, Three
<1> QED
  BY <1>1, <1>2, <1>3, By4, By64

(* Each byte comes back from the two indices that hold its bits.            *)
LEMMA Group ==
    ASSUME NEW a \in Nat, a < 256, NEW b \in Nat, b < 256, NEW c \in Nat, c < 256,
           NEW s1, NEW s2, NEW s3, NEW s4, <<s1, s2, s3, s4>> = Sextets(a, b, c),
           NEW x, NEW y
    PROVE  /\ Octets(s1, s2, x, y)[1] = a
           /\ Octets(x, s2, s3, y)[2] = b
           /\ Octets(x, y, s3, s4)[3] = c
<1>1. /\ s1 = a \div 4 /\ s2 = 16 * (a % 4) + (b \div 16)
      /\ s3 = 4 * (b % 16) + (c \div 64) /\ s4 = c % 64
  BY Zenon DEF Sextets
<1>2. s2 \in Nat /\ s2 < 64 /\ (s2 \div 16) % 4 = a % 4 /\ s2 % 16 = b \div 16
  BY <1>1, By4, By16, Two
<1>3. s3 \in Nat /\ s3 < 64 /\ (s3 \div 4) % 16 = b % 16 /\ s3 % 4 = c \div 64
  BY <1>1, By16, By64, Three
<1>4. s1 \in Nat /\ s1 < 64 /\ (4 * s1 + (a % 4)) % 256 = a
  BY <1>1, By4
<1>5. (16 * (b \div 16) + (b % 16)) % 256 = b
  BY By16
<1>6. s4 \in Nat /\ s4 < 64 /\ (64 * (c \div 64) + s4) % 256 = c
  BY <1>1, By64
<1>7. Octets(s1, s2, x, y)[1] = a
  BY <1>2, <1>4 DEF Octets
<1>8. Octets(x, s2, s3, y)[2] = b
  BY <1>2, <1>3, <1>5 DEF Octets
<1>9. Octets(x, y, s3, s4)[3] = c
  BY <1>3, <1>6 DEF Octets
<1> QED
  BY <1>2, <1>3, <1>4, <1>6, <1>7, <1>8, <1>9

(* How many characters of the text are not padding.                         *)
Chars(n) == 4 * (n \div 3) + IF n % 3 = 0 THEN 0 ELSE (n % 3) + 1

LEMMA CharsOf ==
    ASSUME NEW n \in Nat
    PROVE  /\ Chars(n) \in Nat
           /\ Chars(n) <= 4 * ((n + 2) \div 3)
           /\ n = 3 * (Chars(n) \div 4) + IF Chars(n) % 4 > 0 THEN (Chars(n) % 4) - 1 ELSE 0
BY SMT DEF Chars

(* Character q of group g is no padding if it holds a bit of a byte.        *)
LEMMA CharAt ==
    ASSUME NEW n \in Nat, NEW g \in Nat, NEW q \in 0..3, 4 * g + q < 4 * ((n + 2) \div 3)
    PROVE  3 * g + q <= n <=> 4 * g + q + 1 <= Chars(n)
BY SMT DEF Chars

LEMMA Split4 == ASSUME NEW k \in Nat
                PROVE  k \div 4 \in Nat /\ k % 4 \in 0..3 /\ k = 4 * (k \div 4) + (k % 4)
BY SMT

LEMMA Split3 == ASSUME NEW k \in Nat
                PROVE  k \div 3 \in Nat /\ k % 3 \in 0..2 /\ k = 3 * (k \div 3) + (k % 3)
BY SMT

LEMMA Join4 == ASSUME NEW g \in Nat, NEW q \in 0..3
               PROVE  (4 * g + q) \div 4 = g /\ (4 * g + q) % 4 = q
BY SMT

LEMMA ByteIs == ASSUME NEW x \in 0..255 PROVE x \in Nat /\ x < 256
BY SMT

LEMMA IsChar == ASSUME NEW x \in Nat, x < 64 PROVE x \in 0..64 /\ is_base64(x)
BY SMT DEF is_base64, Pad

LEMMA ItemIs ==
    ASSUME NEW bytes \in Seq(0..255), NEW k \in Nat, k > 0
    PROVE  /\ Item(bytes, k, 0) \in Nat /\ Item(bytes, k, 0) < 256
           /\ k <= Len(bytes) => Item(bytes, k, 0) = bytes[k]
<1> DEFINE Byte == 0..255
<1>1. Len(bytes) \in Nat
  OBVIOUS
<1>2. bytes \in Seq(Byte) /\ \A x \in Byte : x \in Nat /\ x < 256
  BY ByteIs
<1> HIDE DEF Byte
<1>3. \A j \in 1..Len(bytes) : bytes[j] \in Byte
  BY <1>2
<1>4. CASE k <= Len(bytes)
  <2>1. k \in 1..Len(bytes)
    BY <1>1, <1>4
  <2>2. bytes[k] \in Nat /\ bytes[k] < 256
    BY <1>2, <1>3, <2>1
  <2>3. Item(bytes, k, 0) = bytes[k]
    BY <1>4 DEF Item
  <2> QED
    BY <2>2, <2>3
<1>5. CASE ~(k <= Len(bytes))
  <2>1. Item(bytes, k, 0) = 0
    BY <1>5 DEF Item
  <2> QED
    BY <1>5, <2>1, SMT
<1> QED
  BY <1>4, <1>5

(* The characters that base64_encode writes.                                *)
LEMMA Encoded ==
    ASSUME NEW bytes \in Seq(0..255)
    PROVE  LET text == base64_encode(bytes)
               n == Len(bytes)
           IN  /\ text \in Seq(0..64) /\ Chars(n) <= Len(text)
               /\ \A k \in 1..Len(text) : is_base64(text[k]) <=> k <= Chars(n)
               /\ \A g \in Nat, q \in 0..3 :
                    4 * g + q + 1 <= Chars(n) =>
                        text[4 * g + q + 1] = Sextets(Item(bytes, 3 * g + 1, 0),
                                                      Item(bytes, 3 * g + 2, 0),
                                                      Item(bytes, 3 * g + 3, 0))[q + 1]
<1> DEFINE text == base64_encode(bytes)
           n == Len(bytes)
           m == 4 * ((n + 2) \div 3)
           S(g, q) == Sextets(Item(bytes, 3 * g + 1, 0),
                              Item(bytes, 3 * g + 2, 0),
                              Item(bytes, 3 * g + 3, 0))[q + 1]
           E(k) == LET g == (k - 1) \div 4
                       q == (k - 1) % 4
                   IN  IF 3 * g + q > n THEN Pad ELSE S(g, q)
<1>0. n \in Nat
  OBVIOUS
<1>1. n \in Nat /\ m \in Nat /\ Chars(n) \in Nat /\ Chars(n) <= m
  <2> HIDE DEF n
  <2>1. Chars(n) \in Nat /\ Chars(n) <= m
    BY <1>0, CharsOf
  <2> QED
    BY <1>0, <2>1, SMT
<1>2. text = [k \in 1..m |-> E(k)]
  BY DEF base64_encode
<1>3. ASSUME NEW k \in Nat, k > 0
      PROVE  Item(bytes, k, 0) \in Nat /\ Item(bytes, k, 0) < 256
  BY <1>3, ItemIs
<1>4. ASSUME NEW g \in Nat, NEW q \in 0..3
      PROVE  S(g, q) \in Nat /\ S(g, q) < 64
  <2>1. /\ 3 * g + 1 \in Nat /\ 3 * g + 2 \in Nat /\ 3 * g + 3 \in Nat
        /\ 3 * g + 1 > 0 /\ 3 * g + 2 > 0 /\ 3 * g + 3 > 0 /\ q + 1 \in 1..4
    OBVIOUS
  <2> DEFINE a == Item(bytes, 3 * g + 1, 0)
             b == Item(bytes, 3 * g + 2, 0)
             c == Item(bytes, 3 * g + 3, 0)
             s == Sextets(a, b, c)
  <2>2. /\ a \in Nat /\ a < 256 /\ b \in Nat /\ b < 256 /\ c \in Nat /\ c < 256
    BY <1>3, <2>1
  <2>3. \/ S(g, q) = s[1] \/ S(g, q) = s[2] \/ S(g, q) = s[3] \/ S(g, q) = s[4]
    <3>1. S(g, q) = s[q + 1]
      OBVIOUS
    <3>2. q + 1 \in {1, 2, 3, 4}
      OBVIOUS
    <3> HIDE DEF s, S
    <3> QED
      BY <3>1, <3>2
  <2> HIDE DEF a, b, c, S
  <2>4. s = <<s[1], s[2], s[3], s[4]>>
    BY DEF Sextets
  <2>5. <<s[1], s[2], s[3], s[4]>> = Sextets(a, b, c)
    BY <2>4
  <2> HIDE DEF s
  <2>6. /\ s[1] \in Nat /\ s[1] < 64 /\ s[2] \in Nat /\ s[2] < 64
        /\ s[3] \in Nat /\ s[3] < 64 /\ s[4] \in Nat /\ s[4] < 64
    BY <2>2, <2>5, Indices
  <2> QED
    BY <2>3, <2>6
<1>5. ASSUME NEW k \in 1..m
      PROVE  /\ text[k] \in 0..64
             /\ is_base64(text[k]) <=> k <= Chars(n)
  <2> DEFINE g == (k - 1) \div 4
             q == (k - 1) % 4
  <2>0. k - 1 \in Nat
    <3> HIDE DEF m
    <3> QED
      BY <1>1
  <2>1. g \in Nat /\ q \in 0..3 /\ k - 1 = 4 * g + q
    BY <2>0, Split4
  <2>2. text[k] = IF 3 * g + q > n THEN Pad ELSE S(g, q)
    <3> HIDE DEF m, text, n, S
    <3> QED
      BY <1>2
  <2>3. S(g, q) \in Nat /\ S(g, q) < 64
    BY <1>4, <2>1
  <2>4. 3 * g + q <= n <=> k <= Chars(n)
    <3> HIDE DEF g, q
    <3>1. 4 * g + q < 4 * ((n + 2) \div 3) /\ 4 * g + q + 1 = k
      BY <1>1, <2>1
    <3>2. 3 * g + q <= n <=> 4 * g + q + 1 <= Chars(n)
      BY <1>1, <2>1, <3>1, CharAt
    <3> QED
      BY <3>1, <3>2
  <2> HIDE DEF g, q, S, n, m, text
  <2>5. CASE 3 * g + q <= n
    <3>1. text[k] = S(g, q)
      BY <1>1, <2>1, <2>2, <2>5
    <3>2. text[k] \in Nat /\ text[k] < 64
      BY <2>3, <3>1
    <3>3. text[k] \in 0..64 /\ is_base64(text[k])
      BY <3>2, IsChar
    <3> QED
      BY <2>4, <2>5, <3>3
  <2>6. CASE ~(3 * g + q <= n)
    <3>1. text[k] = Pad
      BY <1>1, <2>1, <2>2, <2>6
    <3>2. text[k] \in 0..64 /\ ~is_base64(text[k])
      BY <3>1, SMT DEF is_base64, Pad
    <3> QED
      BY <2>4, <2>6, <3>2
  <2> QED
    BY <2>5, <2>6
<1>6. text \in Seq(0..64) /\ Len(text) = m
  BY <1>1, <1>2, <1>5
<1>7. ASSUME NEW g \in Nat, NEW q \in 0..3, 4 * g + q + 1 <= Chars(n)
      PROVE  text[4 * g + q + 1] = S(g, q)
  <2> DEFINE k == 4 * g + q + 1
  <2>1. k \in 1..m /\ k - 1 = 4 * g + q
    BY <1>1, <1>7
  <2>2. (k - 1) \div 4 = g /\ (k - 1) % 4 = q
    BY <2>1, Join4
  <2>3. text[k] = IF 3 * g + q > n THEN Pad ELSE S(g, q)
    <3> HIDE DEF m, text, n, S, k
    <3> QED
      BY <1>2, <2>1, <2>2
  <2>4. 3 * g + q <= n
    BY <1>1, <1>7, <2>1, CharAt
  <2> QED
    BY <1>1, <2>3, <2>4
<1> HIDE DEF text, n, m, S, E
<1>8. /\ text \in Seq(0..64) /\ Chars(n) <= Len(text)
      /\ \A k \in 1..Len(text) : is_base64(text[k]) <=> k <= Chars(n)
  BY <1>1, <1>5, <1>6
<1> USE DEF text, n, S
<1> QED
  BY <1>7, <1>8

(* base64_decode stops where the padding begins.                            *)
LEMMA ValidPart ==
    ASSUME NEW text \in Seq(0..64), NEW v \in 0..Len(text),
           \A k \in 1..Len(text) : is_base64(text[k]) <=> k <= v
    PROVE  Valid(text) = SubSeq(text, 1, v)
<1> DEFINE ends == {k \in 0..Len(text) : \A j \in 1..k : is_base64(text[j])}
           last == CHOOSE k \in ends : \A j \in ends : j <= k
<1>1. ends = 0..v
  OBVIOUS
<1>2. v \in ends /\ \A j \in ends : j <= v
  BY <1>1
<1>3. last \in ends /\ \A j \in ends : j <= last
  BY <1>2
<1>4. last = v
  BY <1>1, <1>2, <1>3
<1> QED
  BY <1>4 DEF Valid

(* Every text comes back from its encoding, whatever is left over of the    *)
(* last group.                                                              *)
THEOREM DecodeEncode ==
    ASSUME NEW bytes \in Seq(0..255)
    PROVE  base64_decode(base64_encode(bytes)) = bytes
<1> DEFINE text == base64_encode(bytes)
           n == Len(bytes)
           v == Chars(n)
           in == SubSeq(text, 1, v)
           S(g) == Sextets(Item(bytes, 3 * g + 1, 0),
                           Item(bytes, 3 * g + 2, 0),
                           Item(bytes, 3 * g + 3, 0))
           D(k) == LET g == (k - 1) \div 3
                   IN  Octets(in[4 * g + 1],
                              Item(in, 4 * g + 2, 255),
                              Item(in, 4 * g + 3, 255),
                              Item(in, 4 * g + 4, 255))[((k - 1) % 3) + 1]
<1>0. n \in Nat
  OBVIOUS
<1>1. /\ n \in Nat /\ v \in Nat
      /\ n = 3 * (v \div 4) + IF v % 4 > 0 THEN (v % 4) - 1 ELSE 0
  <2> HIDE DEF n
  <2> QED
    BY <1>0, CharsOf
<1>2. /\ text \in Seq(0..64) /\ v \in 0..Len(text)
      /\ \A k \in 1..Len(text) : is_base64(text[k]) <=> k <= v
      /\ \A g \in Nat, q \in 0..3 :
            4 * g + q + 1 <= v => text[4 * g + q + 1] = S(g)[q + 1]
  BY <1>1, Encoded
<1> HIDE DEF text, v
<1>3. Valid(text) = in
  BY <1>2, ValidPart
<1>4. Len(in) = v /\ \A k \in 1..v : in[k] = text[k]
  BY <1>2
<1> HIDE DEF in
<1>5. base64_decode(text) = [k \in 1..n |-> D(k)]
  BY <1>1, <1>3, <1>4 DEF base64_decode
<1>6. ASSUME NEW k \in 1..n
      PROVE  D(k) = bytes[k]
  <2> DEFINE g == (k - 1) \div 3
             q == (k - 1) % 3
  <2>1. g \in Nat /\ q \in 0..2 /\ k - 1 = 3 * g + q
    BY <1>1, Split3
  <2> HIDE DEF g, q
  <2>2. 4 * g + q + 2 <= v
    <3>1. 3 * g + (q + 1) <= n /\ q + 1 \in 0..3 /\ 4 * g + (q + 1) < 4 * ((n + 2) \div 3)
      BY <1>1, <2>1, SMT
    <3>2. 4 * g + (q + 1) + 1 <= Chars(n)
      BY <1>1, <2>1, <3>1, CharAt
    <3> QED
      BY <1>1, <2>1, <3>2 DEF v
  <2>3. ASSUME NEW r \in 0..3, r <= q + 1
        PROVE  /\ in[4 * g + r + 1] = S(g)[r + 1]
               /\ Item(in, 4 * g + r + 1, 255) = S(g)[r + 1]
    <3>1. 4 * g + r + 1 <= v /\ 4 * g + r + 1 \in 1..v
      BY <1>1, <2>1, <2>2, <2>3
    <3>2. in[4 * g + r + 1] = S(g)[r + 1]
      <4> HIDE DEF S
      <4>1. text[4 * g + r + 1] = S(g)[r + 1]
        BY <1>2, <2>1, <3>1
      <4> QED
        BY <1>4, <3>1, <4>1
    <3> QED
      BY <1>4, <3>1, <3>2 DEF Item
  <2>4. ASSUME NEW j \in Nat, j > 0
        PROVE  /\ Item(bytes, j, 0) \in Nat /\ Item(bytes, j, 0) < 256
               /\ j <= n => Item(bytes, j, 0) = bytes[j]
    BY <2>4, ItemIs
  <2> DEFINE a == Item(bytes, 3 * g + 1, 0)
             b == Item(bytes, 3 * g + 2, 0)
             c == Item(bytes, 3 * g + 3, 0)
  <2>50. /\ a \in Nat /\ a < 256 /\ b \in Nat /\ b < 256 /\ c \in Nat /\ c < 256
    BY <2>1, <2>4
  <2>5. /\ 3 * g + 1 = k => a = bytes[k]
        /\ 3 * g + 2 = k => b = bytes[k]
        /\ 3 * g + 3 = k => c = bytes[k]
    BY <2>1, <2>4
  <2>6. ASSUME NEW x, NEW y
        PROVE  /\ Octets(S(g)[1], S(g)[2], x, y)[1] = a
               /\ Octets(x, S(g)[2], S(g)[3], y)[2] = b
               /\ Octets(x, y, S(g)[3], S(g)[4])[3] = c
    <3> DEFINE s == S(g)
    <3>1. s = <<s[1], s[2], s[3], s[4]>>
      BY DEF Sextets
    <3>2. s = Sextets(a, b, c)
      OBVIOUS
    <3> HIDE DEF s, a, b, c
    <3>3. <<s[1], s[2], s[3], s[4]>> = Sextets(a, b, c)
      BY <3>1, <3>2
    <3>4. /\ Octets(s[1], s[2], x, y)[1] = a
          /\ Octets(x, s[2], s[3], y)[2] = b
          /\ Octets(x, y, s[3], s[4])[3] = c
      BY <2>50, <3>3, Group
    <3> QED
      BY <3>4 DEF s
  <2>7. D(k) = Octets(in[4 * g + 1], Item(in, 4 * g + 2, 255),
                      Item(in, 4 * g + 3, 255), Item(in, 4 * g + 4, 255))[q + 1]
    BY DEF g, q
  <2>8. /\ in[4 * g + 1] = S(g)[1] /\ Item(in, 4 * g + 2, 255) = S(g)[2]
        /\ q >= 1 => Item(in, 4 * g + 3, 255) = S(g)[3]
        /\ q >= 2 => Item(in, 4 * g + 4, 255) = S(g)[4]
    <3>1. in[4 * g + 0 + 1] = S(g)[0 + 1] /\ Item(in, 4 * g + 1 + 1, 255) = S(g)[1 + 1]
      BY <2>1, <2>3
    <3>2. q >= 1 => Item(in, 4 * g + 2 + 1, 255) = S(g)[2 + 1]
      BY <2>1, <2>3
    <3>3. q >= 2 => Item(in, 4 * g + 3 + 1, 255) = S(g)[3 + 1]
      BY <2>1, <2>3
    <3>4. /\ 4 * g + 0 + 1 = 4 * g + 1 /\ 4 * g + 1 + 1 = 4 * g + 2
          /\ 4 * g + 2 + 1 = 4 * g + 3 /\ 4 * g + 3 + 1 = 4 * g + 4
      BY <2>1
    <3> HIDE DEF S
    <3> QED
      BY <3>1, <3>2, <3>3, <3>4
  <2> HIDE DEF D, S, a, b, c
  <2>9. CASE q = 0
    BY <1>1, <2>1, <2>5, <2>6, <2>7, <2>8, <2>9
  <2>10. CASE q = 1
    BY <1>1, <2>1, <2>5, <2>6, <2>7, <2>8, <2>10
  <2>11. CASE q = 2
    BY <1>1, <2>1, <2>5, <2>6, <2>7, <2>8, <2>11
  <2> QED
    BY <2>1, <2>9, <2>10, <2>11
<1>7. bytes = [k \in 1..n |-> bytes[k]]
  OBVIOUS
<1> HIDE DEF D, n
<1> QED
  BY <1>5, <1>6, <1>7 DEF text
-----------------------------------------------------------------------------
(* Numbers, and induction over them.                                       *)

(* A set of numbers that is not empty has a least one.                      *)
LEMMA LeastOf ==
    ASSUME NEW S \in SUBSET Nat, S # {}
    PROVE  Min(S) \in S /\ \A m \in S : Min(S) <= m
  <1>1. \E n \in S : \A m \in S : <<m, n>> \notin OpToRel(<, Nat)
    BY NatLessThanWellFounded, WFMin
  <1>2. \A n, m \in S : m < n => <<m, n>> \in OpToRel(<, Nat)
    BY DEF OpToRel
  <1>3. \A n, m \in S : ~(m < n) => n <= m
    OBVIOUS
  <1>4. \E n \in S : \A m \in S : n <= m
    BY <1>1, <1>2, <1>3
  <1> QED
    BY <1>4 DEF Min

(* A bounded one has a greatest.                                            *)
LEMMA GreatestOf ==
    ASSUME NEW S \in SUBSET Nat, S # {}, NEW b \in Nat, \A m \in S : m <= b
    PROVE  Max(S) \in S /\ \A m \in S : Max(S) >= m
  <1> DEFINE T == {b - m : m \in S}
  <1>1. \A m \in S : b - m \in Nat
    OBVIOUS
  <1>2. T \in SUBSET Nat /\ T # {}
    BY <1>1
  <1>3. Min(T) \in T /\ \A t \in T : Min(T) <= t
    <2> HIDE DEF T
    <2> QED
      BY <1>2, LeastOf
  <1>4. PICK n \in S : Min(T) = b - n
    BY <1>3
  <1>5. ASSUME NEW m \in S
        PROVE  n >= m
    <2>1. b - m \in T
      OBVIOUS
    <2>2. b - n <= b - m
      BY <1>3, <1>4, <2>1
    <2> QED
      BY <2>2
  <1>6. \E x \in S : \A m \in S : x >= m
    BY <1>5
  <1> QED
    BY <1>6 DEF Max

\* The least element is the only one that no other is less than.
LEMMA MinIs ==
    ASSUME NEW S \in SUBSET Nat, NEW n \in S, \A m \in S : n <= m
    PROVE  Min(S) = n
  <1>1. Min(S) \in S /\ Min(S) <= n
    BY LeastOf
  <1>2. n <= Min(S)
    BY <1>1
  <1>3. n \in Nat /\ Min(S) \in Nat
    BY <1>1
  <1> QED
    BY <1>1, <1>2, <1>3

\* The same of the greatest.
LEMMA MaxIs ==
    ASSUME NEW S \in SUBSET Nat, NEW n \in S, \A m \in S : m <= n
    PROVE  Max(S) = n
  <1>1. Max(S) \in S /\ Max(S) >= n
    BY GreatestOf
  <1>2. Max(S) <= n
    BY <1>1
  <1>3. n \in Nat /\ Max(S) \in Nat
    BY <1>1
  <1> QED
    BY <1>1, <1>2, <1>3

(* A set that holds 0 and with every number the next one holds them all:    *)
(* induction over the numbers that a condition selects.                     *)
LEMMA AllNumbers ==
    ASSUME NEW S, 0 \in S, \A n \in Nat : n \in S => n + 1 \in S
    PROVE  \A n \in Nat : n \in S
  <1> DEFINE T == Nat \ S
  <1> SUFFICES ASSUME T # {} PROVE FALSE
    OBVIOUS
  <1>1. Min(T) \in T /\ \A m \in T : Min(T) <= m
    BY LeastOf
  <1>2. PICK n : n = Min(T)
    OBVIOUS
  <1>3. n \in Nat /\ n \notin S /\ n # 0
    BY <1>1, <1>2
  <1>4. n - 1 \in Nat /\ ~(n <= n - 1) /\ (n - 1) + 1 = n
    BY <1>3
  <1>5. n - 1 \in S
    BY <1>1, <1>2, <1>4
  <1> QED
    BY <1>3, <1>4, <1>5
-----------------------------------------------------------------------------
(* Strings and what the reader cuts out of them.                             *)

Strings == Seq(STRING)

\* [a, b] is a part of the text, perhaps an empty one.
Within(text, a, b) ==
    text \in Strings /\ a \in Nat \ {0} /\ b \in Nat /\ b <= Len(text) /\ a <= b + 1

\* part is what stands in the text from a to b.
IsPart(part, text, a, b) ==
    /\ Within(text, a, b)
    /\ part \in Strings /\ Len(part) = (b - a) + 1
    /\ \A i \in 1..((b - a) + 1) : part[i] = text[(a + i) - 1]

\* SubSeq takes it out.
LEMMA PartIs ==
    ASSUME NEW text, NEW a \in Nat, NEW b \in Nat, Within(text, a, b)
    PROVE  IsPart(SubSeq(text, a, b), text, a, b)
  <1>1. text \in Seq(STRING) /\ a \in Nat \ {0} /\ b \in Nat /\ b <= Len(text) /\ a <= b + 1
    BY DEF Within, Strings
  <1>2. \A i \in a..b : text[i] \in STRING
    BY <1>1
  <1>3. SubSeq(text, a, b) \in Seq(STRING)
    BY <1>2, SubSeqProperties
  <1>4. Len(SubSeq(text, a, b)) = (b - a) + 1
    BY <1>1, <1>2, SubSeqProperties
  <1>5. \A i \in 1..((b - a) + 1) : SubSeq(text, a, b)[i] = text[(a + i) - 1]
    BY <1>2, SubSeqProperties
  <1> QED
    BY <1>3, <1>4, <1>5 DEF IsPart, Strings

\* There is one such text.
LEMMA PartOnly ==
    ASSUME NEW s, NEW t, NEW text, NEW a \in Nat, NEW b \in Nat,
           IsPart(s, text, a, b), IsPart(t, text, a, b)
    PROVE  s = t
  <1>1. /\ s \in Seq(STRING) /\ t \in Seq(STRING) /\ Len(s) = (b - a) + 1 /\ Len(t) = (b - a) + 1
        /\ \A i \in 1..((b - a) + 1) : s[i] = text[(a + i) - 1] /\ t[i] = text[(a + i) - 1]
    BY DEF IsPart, Strings
  <1> QED
    BY <1>1, SeqEqual

\* A part of a part is a part.
LEMMA PartOfPart ==
    ASSUME NEW part, NEW text, NEW a \in Nat, NEW b \in Nat, NEW c \in Nat, NEW d \in Nat,
           IsPart(part, text, a, b), Within(text, c, d), a <= c, d <= b
    PROVE  IsPart(SubSeq(part, (c - a) + 1, (d - a) + 1), text, c, d)
  <1>1. PICK i, j : i = (c - a) + 1 /\ j = (d - a) + 1
    OBVIOUS
  <1>2. PICK sub : sub = SubSeq(part, i, j)
    OBVIOUS
  <1>3. a \in Nat \ {0} /\ c \in Nat \ {0} /\ c <= d + 1 /\ a <= b + 1
    BY DEF Within, IsPart
  <1>4. part \in Strings /\ Len(part) = (b - a) + 1
        /\ \A k \in 1..((b - a) + 1) : part[k] = text[(a + k) - 1]
    BY DEF IsPart
  <1>5. i \in Nat \ {0} /\ i \in Nat /\ j \in Nat /\ j <= (b - a) + 1 /\ i <= j + 1
        /\ (j - i) + 1 = (d - c) + 1
    BY <1>1, <1>3
  <1>6. Within(part, i, j)
    BY <1>4, <1>5, Zenon DEF Within
  <1>7. sub \in Strings /\ Len(sub) = (d - c) + 1
        /\ \A k \in 1..((d - c) + 1) : sub[k] = part[(i + k) - 1]
    <2>1. IsPart(sub, part, i, j)
      BY <1>2, <1>5, <1>6, PartIs, Zenon
    <2> QED
      BY <1>5, <2>1, Zenon DEF IsPart
  <1>8. ASSUME NEW k \in 1..((d - c) + 1)
        PROVE  sub[k] = text[(c + k) - 1]
    <2>1. (i + k) - 1 \in 1..((b - a) + 1) /\ (a + ((i + k) - 1)) - 1 = (c + k) - 1
      BY <1>1, <1>3
    <2>2. part[(i + k) - 1] = text[(c + k) - 1]
      BY <1>4, <2>1, Zenon
    <2> QED
      BY <1>7, <2>2, Zenon
  <1>9. IsPart(sub, text, c, d)
    BY <1>7, <1>8, Zenon DEF IsPart
  <1> QED
    BY <1>1, <1>2, <1>9, Zenon

\* Where the first c of a part is, or the place behind the part.
FirstOf(text, a, b, c, e) ==
    /\ e \in a..(b + 1)
    /\ \A i \in a..b : i < e => text[i] # c
    /\ e <= b => text[e] = c

\* There is such a place.
LEMMA FirstExists ==
    ASSUME NEW text, NEW a \in Nat, NEW b \in Nat, NEW c, Within(text, a, b)
    PROVE  \E e \in Nat \ {0} : FirstOf(text, a, b, c, e)
  <1> DEFINE at == {i \in a..b : text[i] = c}
  <1>1. a \in Nat \ {0} /\ b \in Nat /\ a <= b + 1
    BY DEF Within
  <1>2. CASE at = {}
    <2>1. FirstOf(text, a, b, c, b + 1)
      BY <1>1, <1>2 DEF FirstOf
    <2> QED
      BY <1>1, <2>1
  <1>3. CASE at # {}
    <2>1. at \in SUBSET Nat
      BY <1>1
    <2>2. Min(at) \in at /\ \A m \in at : Min(at) <= m
      BY <1>3, <2>1, LeastOf
    <2>3. PICK e \in a..b : e = Min(at) /\ text[e] = c
      BY <2>2
    <2>4. ASSUME NEW i \in a..b, i < e
          PROVE  text[i] # c
      <3>1. ~(e <= i)
        BY <1>1, <2>4
      <3> QED
        BY <2>2, <2>3, <3>1
    <2>5. e \in a..(b + 1)
      BY <1>1
    <2>6. FirstOf(text, a, b, c, e)
      BY <2>3, <2>4, <2>5 DEF FirstOf
    <2> QED
      BY <1>1, <2>6
  <1> QED
    BY <1>2, <1>3

\* strchr() cuts a part before that place.
LEMMA BeforeIs ==
    ASSUME NEW part, NEW text, NEW a \in Nat, NEW b \in Nat, NEW c, NEW e \in Nat,
           IsPart(part, text, a, b), FirstOf(text, a, b, c, e)
    PROVE  /\ IsPart(Before(part, c), text, a, e - 1)
           /\ Contains(part, c) <=> e <= b
  <1> DEFINE at == {i \in 1..Len(part) : part[i] = c}
  <1>1. text \in Seq(STRING) /\ a \in Nat \ {0} /\ b <= Len(text) /\ a <= b + 1 /\ Len(text) \in Nat
    BY DEF Within, IsPart, Strings
  <1>2. part \in Seq(STRING) /\ Len(part) = (b - a) + 1
        /\ \A k \in 1..((b - a) + 1) : part[k] = text[(a + k) - 1]
    BY DEF IsPart, Strings
  <1>3. e \in a..(b + 1) /\ (\A i \in a..b : i < e => text[i] # c) /\ (e <= b => text[e] = c)
    BY DEF FirstOf
  <1>4. Within(text, a, e - 1)
    BY <1>1, <1>3 DEF Within, Strings
  <1>5. CASE e = b + 1
    <2>1. ASSUME NEW k \in 1..Len(part) PROVE part[k] # c
      <3>1. (a + k) - 1 \in a..b /\ (a + k) - 1 < e /\ k \in 1..((b - a) + 1)
        BY <1>1, <1>2, <1>5
      <3> QED
        BY <1>2, <1>3, <3>1
    <2>2. at = {} /\ ~Contains(part, c)
      BY <2>1 DEF Contains
    <2>3. Before(part, c) = part
      BY <2>2 DEF Before
    <2>4. e - 1 = b /\ ~(e <= b)
      BY <1>1, <1>5
    <2> QED
      BY <2>2, <2>3, <2>4, Zenon
  <1>6. CASE e # b + 1
    <2> DEFINE n == (e - a) + 1
    <2>1. e <= b /\ n \in 1..((b - a) + 1) /\ (a + n) - 1 = e /\ n \in Nat
      BY <1>1, <1>3, <1>6
    <2>2. part[n] = c
      <3> HIDE DEF n
      <3> QED
        BY <1>2, <1>3, <2>1, Zenon
    <2>3. n \in at /\ Contains(part, c)
      <3> HIDE DEF n
      <3> QED
        BY <1>2, <2>1, <2>2 DEF Contains
    <2>4. ASSUME NEW m \in at PROVE n <= m
      <3>1. m \in 1..((b - a) + 1) /\ part[m] = c
        BY <1>2
      <3>2. (a + m) - 1 \in a..b
        BY <1>1, <3>1
      <3>3. text[(a + m) - 1] = c
        BY <1>2, <3>1
      <3>4. ~((a + m) - 1 < e)
        BY <1>3, <3>2, <3>3
      <3> QED
        BY <1>1, <1>3, <3>1, <3>4
    <2>5. at \in SUBSET Nat
      BY <1>1, <1>2
    <2>6. Min(at) = n
      <3> HIDE DEF n, at
      <3> QED
        BY <2>3, <2>4, <2>5, MinIs
    <2>7. Before(part, c) = SubSeq(part, 1, n - 1)
      <3> HIDE DEF n
      <3>1. at # {}
        BY <2>3
      <3> QED
        BY <2>6, <3>1 DEF Before
    <2>8. IsPart(SubSeq(part, (a - a) + 1, ((e - 1) - a) + 1), text, a, e - 1)
      <3>1. a <= a /\ e - 1 <= b /\ e - 1 \in Nat
        BY <1>1, <1>3, <2>1
      <3> QED
        BY <1>4, <3>1, PartOfPart, Zenon
    <2>9. (a - a) + 1 = 1 /\ ((e - 1) - a) + 1 = n - 1
      BY <1>1
    <2> QED
      <3> HIDE DEF n
      <3> QED
        BY <2>1, <2>3, <2>7, <2>8, <2>9, Zenon
  <1> QED
    BY <1>5, <1>6

\* _TrimSpace leaves what stands between the first and the last character that
\* is not blank, or nothing: what Core says.
Trims(text, a, b, name) == Core(text, a, b) = IF name = NULL THEN {} ELSE {name}

LEMMA TrimIs ==
    ASSUME NEW part, NEW text, NEW a \in Nat, NEW b \in Nat, IsPart(part, text, a, b)
    PROVE  Trims(text, a, b, _TrimSpace(part))
  <1> DEFINE K == {k \in a..b : text[k] \notin Blank}
             kept == {i \in 1..Len(part) : part[i] \notin Blank}
             C == {ij \in (a..b) \X (a..b) :
                      /\ ij[1] <= ij[2] /\ {text[ij[1]], text[ij[2]]} \cap Blank = {}
                      /\ \A k \in a..b : k \in ij[1]..ij[2] \/ text[k] \in Blank}
  <1>1. Within(text, a, b) /\ a \in Nat \ {0} /\ a <= b + 1 /\ b <= Len(text)
    BY DEF Within, IsPart
  <1>2. part \in Strings /\ Len(part) = (b - a) + 1
        /\ \A k \in 1..((b - a) + 1) : part[k] = text[(a + k) - 1]
    BY DEF IsPart
  <1>3. Core(text, a, b) = {SubSeq(text, ij[1], ij[2]) : ij \in C}
    BY DEF Core
  <1>4. _TrimSpace(part) = IF kept = {} THEN NULL ELSE SubSeq(part, Min(kept), Max(kept))
    BY DEF _TrimSpace
  <1>5. ASSUME NEW k \in K
        PROVE  (k - a) + 1 \in kept
    <2>1. (k - a) + 1 \in 1..((b - a) + 1) /\ (a + ((k - a) + 1)) - 1 = k
      BY <1>1
    <2> QED
      BY <1>2, <2>1
  <1>6. ASSUME NEW i \in kept
        PROVE  (a + i) - 1 \in K
    <2>1. i \in 1..((b - a) + 1)
      BY <1>2
    <2>2. (a + i) - 1 \in a..b
      BY <1>1, <2>1
    <2> QED
      BY <1>2, <2>1, <2>2
  <1>7. CASE K = {}
    <2>1. kept = {}
      BY <1>6, <1>7
    <2>2. C = {}
      <3> SUFFICES ASSUME NEW ij \in C PROVE FALSE
        OBVIOUS
      <3>1. ij[1] \in a..b /\ text[ij[1]] \notin Blank
        OBVIOUS
      <3> QED
        BY <1>7, <3>1
    <2> QED
      BY <1>3, <1>4, <2>1, <2>2 DEF Trims
  <1>8. CASE K # {}
    <2> DEFINE x == Min(K)
               y == Max(K)
    <2>1. K \in SUBSET Nat /\ \A m \in K : m <= b
      BY <1>1
    <2>2. x \in K /\ \A m \in K : x <= m
      <3> HIDE DEF K
      <3> QED
        BY <1>8, <2>1, LeastOf
    <2>3. y \in K /\ \A m \in K : y >= m
      <3> HIDE DEF K
      <3> QED
        BY <1>8, <2>1, GreatestOf
    <2> HIDE DEF x, y
    <2>4. x \in Nat /\ y \in Nat /\ a <= x /\ x <= y /\ y <= b /\ a <= y /\ x <= b
      BY <1>1, <2>2, <2>3
    <2>5. kept \in SUBSET Nat
      BY <1>1, <1>2
    <2>6. Min(kept) = (x - a) + 1
      <3>1. (x - a) + 1 \in kept
        BY <1>5, <2>2
      <3>2. ASSUME NEW i \in kept PROVE (x - a) + 1 <= i
        <4>1. x <= (a + i) - 1 /\ i \in Nat
          BY <1>6, <2>2, <2>5
        <4> QED
          BY <1>1, <2>4, <4>1
      <3> HIDE DEF kept
      <3> QED
        BY <2>5, <3>1, <3>2, MinIs
    <2>7. Max(kept) = (y - a) + 1
      <3>1. (y - a) + 1 \in kept
        BY <1>5, <2>3
      <3>2. ASSUME NEW i \in kept PROVE i <= (y - a) + 1
        <4>1. y >= (a + i) - 1 /\ i \in Nat
          BY <1>6, <2>3, <2>5
        <4> QED
          BY <1>1, <2>4, <4>1
      <3> HIDE DEF kept
      <3> QED
        BY <2>5, <3>1, <3>2, MaxIs
    <2>8. kept # {}
      BY <1>5, <2>2
    <2>9. Within(text, x, y)
      BY <1>1, <2>4 DEF Within
    <2>10. /\ IsPart(SubSeq(part, (x - a) + 1, (y - a) + 1), text, x, y)
           /\ IsPart(SubSeq(text, x, y), text, x, y)
      BY <2>4, <2>9, PartOfPart, PartIs, Zenon
    <2>11. _TrimSpace(part) = SubSeq(text, x, y)
      <3>1. _TrimSpace(part) = SubSeq(part, (x - a) + 1, (y - a) + 1)
        BY <1>4, <2>6, <2>7, <2>8, Zenon
      <3> QED
        BY <2>4, <2>10, <3>1, PartOnly, Zenon
    <2>12. SubSeq(text, x, y) # NULL
      <3>1. Len(SubSeq(text, x, y)) = (y - x) + 1
        BY <2>10, Zenon DEF IsPart
      <3>2. (y - x) + 1 # 0 /\ Len(NULL) = 0
        BY <2>4 DEF NULL
      <3> QED
        BY <3>1, <3>2, Zenon
    <2>13. <<x, y>> \in C
      <3>1. x \in a..b /\ y \in a..b /\ text[x] \notin Blank /\ text[y] \notin Blank
        BY <2>2, <2>3
      <3>2. \A k \in a..b : k \in x..y \/ text[k] \in Blank
        <4> SUFFICES ASSUME NEW k \in a..b, text[k] \notin Blank PROVE k \in x..y
          OBVIOUS
        <4>1. k \in K
          OBVIOUS
        <4>2. x <= k /\ y >= k
          BY <2>2, <2>3, <4>1
        <4> QED
          BY <2>4, <4>2
      <3> QED
        BY <2>4, <3>1, <3>2
    <2>14. ASSUME NEW ij \in C
           PROVE  ij = <<x, y>>
      <3>1. PICK i \in a..b, j \in a..b : ij = <<i, j>>
        OBVIOUS
      <3>2. /\ text[i] \notin Blank /\ text[j] \notin Blank
            /\ \A k \in a..b : k \in i..j \/ text[k] \in Blank
        BY <3>1
      <3>3. i \in K /\ j \in K
        BY <3>2
      <3>4. x <= i /\ j <= y
        BY <1>1, <2>2, <2>3, <2>4, <3>3
      <3>5. x \in i..j /\ y \in i..j
        BY <2>2, <2>3, <3>2
      <3>6. i = x /\ j = y
        BY <2>4, <3>4, <3>5
      <3> QED
        BY <3>1, <3>6
    <2>15. C = {<<x, y>>}
      <3> HIDE DEF C
      <3> QED
        BY <2>13, <2>14
    <2>16. Core(text, a, b) = {SubSeq(text, x, y)}
      <3> HIDE DEF C
      <3> QED
        BY <1>3, <2>15
    <2> QED
      BY <2>11, <2>12, <2>16, Zenon DEF Trims
  <1> QED
    BY <1>7, <1>8

\* What becomes of the map when a line gives the entries E, one or none.
Adds(map, E, new) ==
    \/ E = {} /\ new = map
    \/ \E key, value :
          /\ E = {<<key, value>>}
          /\ new = IF key \in DOMAIN map THEN map
                   ELSE [k \in DOMAIN map \cup {key} |-> IF k = key THEN value ELSE map[k]]

\* _ParseLine adds what stands before and behind the first =.
LEMMA ParseIs ==
    ASSUME NEW line, NEW text, NEW map, NEW a \in Nat, NEW b \in Nat, NEW e \in Nat,
           IsPart(line, text, a, b), FirstOf(text, a, b, "=", e)
    PROVE  Adds(map, IF e <= b THEN Core(text, a, e - 1) \X Core(text, e + 1, b) ELSE {},
                _ParseLine(map, line))
  <1> DEFINE front == Before(line, "=")
             rest == SubSeq(line, Len(front) + 2, Len(line))
             key == _TrimSpace(front)
             value == _TrimSpace(rest)
  <1>1. /\ IsPart(front, text, a, e - 1)
        /\ Contains(line, "=") <=> e <= b
    BY BeforeIs, Zenon
  <1>2. /\ Within(text, a, b) /\ text \in Strings
        /\ a \in Nat \ {0} /\ a <= b + 1 /\ b <= Len(text) /\ e \in a..(b + 1)
    BY DEF Within, FirstOf, IsPart
  <1>3. _ParseLine(map, line) =
            IF ~Contains(line, "=") \/ key = NULL \/ value = NULL \/ key \in DOMAIN map
            THEN map
            ELSE [k \in DOMAIN map \cup {key} |-> IF k = key THEN value ELSE map[k]]
    BY DEF _ParseLine
  <1> HIDE DEF front
  <1>4. CASE ~(e <= b)
    BY <1>1, <1>3, <1>4 DEF Adds
  <1>5. CASE e <= b
    <2>1. e - 1 \in Nat /\ e + 1 \in Nat \ {0} /\ e + 1 \in Nat /\ a <= e + 1 /\ b <= b
          /\ e + 1 <= b + 1
      BY <1>2, <1>5
    <2>2. IsPart(rest, text, e + 1, b)
      <3>1. Len(front) = ((e - 1) - a) + 1 /\ Len(line) = (b - a) + 1
        BY <1>1, Zenon DEF IsPart
      <3>2. Len(front) + 2 = ((e + 1) - a) + 1
        BY <1>2, <3>1
      <3>3. Within(text, e + 1, b)
        BY <1>2, <2>1 DEF Within
      <3>4. IsPart(SubSeq(line, ((e + 1) - a) + 1, (b - a) + 1), text, e + 1, b)
        BY <2>1, <3>3, PartOfPart, Zenon
      <3> QED
        BY <3>1, <3>2, <3>4, Zenon
    <2> HIDE DEF rest
    <2>3. Trims(text, a, e - 1, key) /\ Trims(text, e + 1, b, value)
      BY <1>1, <2>1, <2>2, TrimIs, Zenon
    <2> HIDE DEF key, value
    <2>4. /\ Core(text, a, e - 1) = IF key = NULL THEN {} ELSE {key}
          /\ Core(text, e + 1, b) = IF value = NULL THEN {} ELSE {value}
      BY <2>3, Zenon DEF Trims
    <2>5. CASE key = NULL \/ value = NULL
      <3>1. Core(text, a, e - 1) \X Core(text, e + 1, b) = {}
        BY <2>4, <2>5
      <3> QED
        BY <1>3, <1>5, <2>5, <3>1, Zenon DEF Adds
    <2>6. CASE key # NULL /\ value # NULL
      <3>1. Core(text, a, e - 1) \X Core(text, e + 1, b) = {<<key, value>>}
        BY <2>4, <2>6
      <3>2. _ParseLine(map, line) = IF key \in DOMAIN map THEN map
               ELSE [k \in DOMAIN map \cup {key} |-> IF k = key THEN value ELSE map[k]]
        BY <1>1, <1>3, <1>5, <2>6, Zenon
      <3>3. Adds(map, {<<key, value>>}, _ParseLine(map, line))
        BY <3>2, Zenon DEF Adds
      <3> QED
        BY <1>5, <3>1, <3>3, Zenon
    <2> QED
      BY <2>5, <2>6
  <1> QED
    BY <1>4, <1>5

\* Of a line, Entry finds the first c where FirstOf has it.
Firsts(text, a, b, c) == {i \in a..b : text[i] = c /\ \A j \in a..b : j < i => text[j] # c}

LEMMA FirstSet ==
    ASSUME NEW text, NEW a \in Nat, NEW b \in Nat, NEW c, NEW e \in Nat, FirstOf(text, a, b, c, e)
    PROVE  \A i : i \in Firsts(text, a, b, c) <=> i = e /\ e <= b
  <1> DEFINE F == {i \in a..b : text[i] = c /\ \A j \in a..b : j < i => text[j] # c}
  <1>1. e \in a..(b + 1) /\ (\A i \in a..b : i < e => text[i] # c) /\ (e <= b => text[e] = c)
    BY DEF FirstOf
  <1>2. CASE e <= b
    <2>1. e \in F
      BY <1>1, <1>2
    <2>2. ASSUME NEW i \in F PROVE i = e
      <3>1. i \in a..b /\ e \in a..b
        BY <1>1, <1>2
      <3>2. ~(i < e)
        BY <1>1, <3>1
      <3>3. ~(e < i)
        BY <1>1, <1>2, <3>1
      <3> QED
        BY <1>1, <3>1, <3>2, <3>3
    <2>3. F = {e}
      <3> HIDE DEF F
      <3> QED
        BY <2>1, <2>2
    <2> HIDE DEF F
    <2> QED
      BY <1>2, <2>3 DEF Firsts, F
  <1>3. CASE ~(e <= b)
    <2>1. \A i \in a..b : i < e
      BY <1>3
    <2>2. F = {}
      BY <1>1, <2>1
    <2> HIDE DEF F
    <2> QED
      BY <1>3, <2>2 DEF Firsts, F
  <1> QED
    BY <1>2, <1>3

\* Of the text of a line, _LoadFile adds to the map what the line gives.
LEMMA LineIs ==
    ASSUME NEW line, NEW text, NEW map, NEW x \in Nat, NEW y \in Nat, x < y,
           IsPart(line, text, x + 1, y - 1)
    PROVE  Adds(map, Entry(text, <<x, y>>), _ParseLine(map, Before(line, "#")))
  <1>1. PICK a \in Nat, b \in Nat : a = x + 1 /\ b = y - 1
    OBVIOUS
  <1>2. IsPart(line, text, a, b)
    BY <1>1, Zenon
  <1>3. Within(text, a, b) /\ text \in Strings /\ a \in Nat \ {0} /\ a <= b + 1 /\ b <= Len(text)
        /\ b + 1 = y
    BY <1>1, <1>2 DEF IsPart, Within
  <1>4. PICK h \in Nat \ {0} : FirstOf(text, a, b, "#", h)
    BY <1>3, FirstExists, Zenon
  <1>5. h - 1 \in Nat /\ h \in Nat /\ h \in a..(b + 1) /\ (\A i \in a..b : i < h => text[i] # "#")
    BY <1>4 DEF FirstOf
  <1>6. IsPart(Before(line, "#"), text, a, h - 1)
    BY <1>2, <1>4, <1>5, BeforeIs, Zenon
  <1>7. Within(text, a, h - 1)
    BY <1>6, Zenon DEF IsPart
  <1>8. PICK e \in Nat \ {0} : FirstOf(text, a, h - 1, "=", e)
    BY <1>5, <1>7, FirstExists, Zenon
  <1>9. Adds(map, IF e <= h - 1 THEN Core(text, a, e - 1) \X Core(text, e + 1, h - 1) ELSE {},
             _ParseLine(map, Before(line, "#")))
    <2>1. e \in Nat
      OBVIOUS
    <2> QED
      BY <1>5, <1>6, <1>8, <2>1, ParseIs, Zenon
  <1> DEFINE First(c) == Firsts(text, a, b, c)
             ends == IF First("#") = {} THEN {b + 1} ELSE First("#")
             Pairs == {ec \in First("=") \X ends : ec[1] < ec[2]}
             Given == UNION {Core(text, a, ec[1] - 1) \X Core(text, ec[1] + 1, ec[2] - 1) : ec \in Pairs}
  <1>10. Entry(text, <<x, y>>) = Given
    BY <1>1, <1>3 DEF Entry, Firsts
  <1>11. \A i : i \in First("#") <=> i = h /\ h <= b
    BY <1>4, <1>5, FirstSet, Zenon
  <1>12. ends = {h}
    <2> HIDE DEF First
    <2>1. CASE h <= b
      BY <1>11, <2>1
    <2>2. CASE ~(h <= b)
      <3>1. h = b + 1
        BY <1>5, <2>2
      <3> QED
        BY <1>11, <2>2, <3>1
    <2> QED
      BY <2>1, <2>2
  <1>13. e \in a..h /\ (\A i \in a..(h - 1) : i < e => text[i] # "=") /\ (e <= h - 1 => text[e] = "=")
         /\ a <= h
    BY <1>5, <1>8 DEF FirstOf
  <1> HIDE DEF ends
  <1>14. CASE e <= h - 1
    <2>1. FirstOf(text, a, b, "=", e)
      BY <1>5, <1>13, <1>14 DEF FirstOf
    <2>2. e <= b /\ e < h
      BY <1>5, <1>14
    <2>3. First("=") = {e}
      <3>1. \A i : i \in First("=") <=> i = e /\ e <= b
        BY <2>1, FirstSet, Zenon
      <3> HIDE DEF First
      <3> QED
        BY <2>2, <3>1
    <2> HIDE DEF First
    <2>4. Pairs = {<<e, h>>}
      BY <1>12, <2>2, <2>3
    <2> HIDE DEF Pairs
    <2>5. Given = Core(text, a, e - 1) \X Core(text, e + 1, h - 1)
      BY <2>4
    <2> HIDE DEF Given
    <2> QED
      BY <1>9, <1>10, <1>14, <2>5, Zenon
  <1>15. CASE ~(e <= h - 1)
    <2>1. Pairs = {}
      <3> SUFFICES ASSUME NEW ec \in Pairs PROVE FALSE
        OBVIOUS
      <3>1. PICK i \in First("=") : ec[1] = i /\ ec[2] = h /\ i < h
        BY <1>12
      <3>2. i \in a..b /\ text[i] = "="
        BY <3>1 DEF Firsts
      <3>3. i \in a..(h - 1) /\ i < e
        BY <1>5, <1>13, <1>15, <3>1, <3>2
      <3> QED
        BY <1>13, <3>2, <3>3
    <2> HIDE DEF Pairs
    <2>2. Given = {}
      BY <2>1
    <2> HIDE DEF Given
    <2> QED
      BY <1>9, <1>10, <1>15, <2>2, Zenon
  <1> QED
    BY <1>14, <1>15
-----------------------------------------------------------------------------
(* The pieces that fgets() reads, and the map after each of them.  Both are *)
(* recursive functions: that they exist is shown by induction, with the     *)
(* function for one number more made of that for one less.                 *)

\* Where the piece that begins behind p ends.
PieceEnd(file, p) ==
    Min({Len(file), p + BUF_SIZE - 1} \cup {i \in (p + 1)..Len(file) : file[i] = "\n"})

\* A piece is not empty, fits into buf and goes to its first newline.
LEMMA PieceEndIs ==
    ASSUME NEW file \in Strings, NEW p \in Nat, p < Len(file)
    PROVE  /\ PieceEnd(file, p) \in (p + 1)..Len(file) /\ PieceEnd(file, p) <= p + BUF_SIZE - 1
           /\ \A i \in (p + 1)..Len(file) : file[i] = "\n" => PieceEnd(file, p) <= i
           /\ \/ PieceEnd(file, p) = Len(file) \/ PieceEnd(file, p) = p + BUF_SIZE - 1
              \/ file[PieceEnd(file, p)] = "\n"
  <1> DEFINE S == {Len(file), p + BUF_SIZE - 1} \cup {i \in (p + 1)..Len(file) : file[i] = "\n"}
  <1>1. Len(file) \in Nat
    BY DEF Strings
  <1>2. p + BUF_SIZE - 1 \in Nat /\ p + 1 <= p + BUF_SIZE - 1
    BY BufHoldsText
  <1>3. S \in SUBSET Nat /\ Len(file) \in S /\ p + BUF_SIZE - 1 \in S
    BY <1>1, <1>2
  <1>4. \A i \in S : p + 1 <= i
    BY <1>1, <1>2
  <1>5. Min(S) \in S /\ \A m \in S : Min(S) <= m
    <2> HIDE DEF S
    <2> QED
      BY <1>3, LeastOf
  <1>6. PICK e : e = Min(S)
    OBVIOUS
  <1>7. e \in S /\ e <= Len(file) /\ e <= p + BUF_SIZE - 1 /\ p + 1 <= e /\ e \in Nat
    <2> HIDE DEF S
    <2> QED
      BY <1>3, <1>4, <1>5, <1>6
  <1>8. \A i \in (p + 1)..Len(file) : file[i] = "\n" => e <= i
    BY <1>5, <1>6
  <1>9. e = Len(file) \/ e = p + BUF_SIZE - 1 \/ file[e] = "\n"
    BY <1>7
  <1>10. e \in (p + 1)..Len(file)
    BY <1>1, <1>7
  <1>11. PieceEnd(file, p) = e
    BY <1>6 DEF PieceEnd
  <1> QED
    BY <1>7, <1>8, <1>9, <1>10, <1>11, Zenon

\* The pieces from p on, for every p from k on.
Splits(file, f, k) ==
    f = [p \in k..Len(file) |->
            IF p = Len(file) THEN <<>>
            ELSE <<SubSeq(file, p + 1, PieceEnd(file, p))>> \o f[PieceEnd(file, p)]]

\* The pieces from k on, of those from k + 1 on.
LEMMA SplitsMore ==
    ASSUME NEW file \in Strings, NEW k \in Nat, k < Len(file), NEW f, Splits(file, f, k + 1)
    PROVE  \E g : Splits(file, g, k)
  <1> DEFINE L == Len(file)
             Of(p, rest) == <<SubSeq(file, p + 1, PieceEnd(file, p))>> \o rest
             g == [p \in k..L |-> IF p = k THEN Of(k, f[PieceEnd(file, k)]) ELSE f[p]]
             h == [p \in k..L |-> IF p = L THEN <<>> ELSE Of(p, g[PieceEnd(file, p)])]
  <1> HIDE DEF Of
  <1>1. L \in Nat /\ k \in k..L
    BY DEF Strings
  <1>2. \A p \in (k + 1)..L : f[p] = IF p = L THEN <<>> ELSE Of(p, f[PieceEnd(file, p)])
    BY DEF Splits, Of
  <1>3. ASSUME NEW p \in k..L, p < L
        PROVE  PieceEnd(file, p) \in (k + 1)..L /\ g[PieceEnd(file, p)] = f[PieceEnd(file, p)]
    <2>1. p \in Nat
      BY <1>1
    <2>2. PieceEnd(file, p) \in (p + 1)..L
      BY <1>3, <2>1, PieceEndIs, Zenon
    <2>3. PICK e : e = PieceEnd(file, p)
      OBVIOUS
    <2>4. e \in (k + 1)..L /\ e \in k..L /\ e # k
      BY <1>1, <2>2, <2>3
    <2> QED
      BY <2>3, <2>4
  <1>4. ASSUME NEW p \in k..L
        PROVE  g[p] = h[p]
    <2>1. CASE p = L
      <3>1. p # k /\ p \in (k + 1)..L
        BY <1>1, <2>1
      <3> QED
        BY <1>2, <2>1, <3>1
    <2>2. CASE p # L /\ p = k
      <3>1. p < L
        BY <1>1, <2>2
      <3>2. g[PieceEnd(file, p)] = f[PieceEnd(file, p)]
        BY <1>3, <3>1
      <3>3. h[p] = Of(p, g[PieceEnd(file, p)])
        <4> HIDE DEF g
        <4> QED
          BY <2>2
      <3>4. g[p] = Of(p, f[PieceEnd(file, p)])
        BY <2>2
      <3> HIDE DEF g, h
      <3> QED
        BY <3>2, <3>3, <3>4
    <2>3. CASE p # L /\ p # k
      <3>1. p < L /\ p \in (k + 1)..L
        BY <1>1, <2>3
      <3>2. g[PieceEnd(file, p)] = f[PieceEnd(file, p)]
        BY <1>3, <3>1
      <3>3. h[p] = Of(p, g[PieceEnd(file, p)])
        <4> HIDE DEF g
        <4> QED
          BY <2>3
      <3>4. g[p] = f[p]
        BY <2>3
      <3>5. f[p] = Of(p, f[PieceEnd(file, p)])
        BY <1>2, <2>3, <3>1
      <3> HIDE DEF g, h
      <3> QED
        BY <3>2, <3>3, <3>4, <3>5
    <2> QED
      BY <2>1, <2>2, <2>3
  <1>5. g = h
    <2> HIDE DEF Of
    <2>1. g = [p \in k..L |-> g[p]] /\ h = [p \in k..L |-> h[p]]
      OBVIOUS
    <2> HIDE DEF g, h
    <2> QED
      BY <1>4, <2>1
  <1>6. Splits(file, g, k)
    <2>1. h = [p \in k..Len(file) |-> IF p = Len(file) THEN <<>>
               ELSE <<SubSeq(file, p + 1, PieceEnd(file, p))>> \o g[PieceEnd(file, p)]]
      <3> HIDE DEF g
      <3> QED
        BY DEF Of
    <2> HIDE DEF g, h
    <2> QED
      BY <1>5, <2>1 DEF Splits
  <1> QED
    BY <1>6

\* The recursive function of Pieces exists.
LEMMA PiecesSplit ==
    ASSUME NEW file \in Strings
    PROVE  \E f : Splits(file, f, 0) /\ Pieces(file) = f[0]
  <1> DEFINE L == Len(file)
             S == {n \in Nat : n <= L => \E f : Splits(file, f, L - n)}
  <1>1. L \in Nat
    BY DEF Strings
  <1>2. 0 \in S
    <2>1. Splits(file, [p \in L..L |-> <<>>], L)
      <3>1. \A p \in L..L : p = L
        BY <1>1
      <3> QED
        BY <3>1 DEF Splits
    <2>2. L - 0 = L
      BY <1>1
    <2> QED
      BY <2>1, <2>2
  <1>3. ASSUME NEW n \in Nat, n \in S
        PROVE  n + 1 \in S
    <2> SUFFICES ASSUME n + 1 <= L
                 PROVE  \E f : Splits(file, f, L - (n + 1))
      OBVIOUS
    <2>1. n <= L
      BY <1>1
    <2>2. PICK f : Splits(file, f, L - n)
      BY <1>3, <2>1
    <2>3. PICK k \in Nat : k = L - (n + 1) /\ L - n = k + 1 /\ k < L
      <3>1. L - (n + 1) \in Nat /\ L - n = (L - (n + 1)) + 1 /\ L - (n + 1) < L
        BY <1>1
      <3> QED
        BY <3>1
    <2>4. Splits(file, f, k + 1)
      BY <2>2, <2>3
    <2>5. \E g : Splits(file, g, k)
      BY <2>3, <2>4, SplitsMore, Zenon
    <2> QED
      BY <2>3, <2>5
  <1>4. L \in S
    <2> HIDE DEF S
    <2> QED
      BY <1>1, <1>2, <1>3, AllNumbers
  <1>5. \E f : Splits(file, f, 0)
    <2>1. L - L = 0 /\ L <= L
      BY <1>1
    <2> QED
      BY <1>4, <2>1
  <1> DEFINE f == CHOOSE f : f = [p \in 0..Len(file) |->
                      IF p = Len(file) THEN <<>>
                      ELSE <<SubSeq(file, p + 1, PieceEnd(file, p))>> \o f[PieceEnd(file, p)]]
  <1>6. Splits(file, f, 0)
    BY <1>5 DEF Splits
  <1>7. Pieces(file) = f[0]
    BY DEF Pieces, PieceEnd
  <1> QED
    BY <1>6, <1>7

\* The pieces q of the rest of a file, with the positions they end at: pos[0] is
\* where the first begins.
Cuts(file, q, pos, p) ==
    /\ q \in Seq(Strings)
    /\ pos \in [0..Len(q) -> 0..Len(file)]
    /\ pos[0] = p /\ pos[Len(q)] = Len(file)
    /\ \A i \in 1..Len(q) :
          /\ pos[i - 1] < Len(file) /\ pos[i] = PieceEnd(file, pos[i - 1])
          /\ IsPart(q[i], file, pos[i - 1] + 1, pos[i])

\* One piece more in front.
LEMMA CutsMore ==
    ASSUME NEW file \in Strings, NEW p \in Nat, p < Len(file), NEW rest, NEW old,
           Cuts(file, rest, old, PieceEnd(file, p))
    PROVE  \E pos : Cuts(file, <<SubSeq(file, p + 1, PieceEnd(file, p))>> \o rest, pos, p)
  <1>1. Len(file) \in Nat
    BY DEF Strings
  <1>2. PICK e \in Nat : e = PieceEnd(file, p) /\ e \in (p + 1)..Len(file)
    BY <1>1, PieceEndIs
  <1>3. PICK s : s = SubSeq(file, p + 1, e)
    OBVIOUS
  <1>4. IsPart(s, file, p + 1, e)
    <2>1. Within(file, p + 1, e)
      BY <1>1, <1>2 DEF Within
    <2>2. p + 1 \in Nat
      OBVIOUS
    <2> QED
      BY <1>2, <1>3, <2>1, <2>2, PartIs, Zenon
  <1>5. PICK n \in Nat : n = Len(rest)
    BY DEF Cuts
  <1>6. /\ rest \in Seq(Strings) /\ old \in [0..n -> 0..Len(file)] /\ old[0] = e /\ old[n] = Len(file)
        /\ \A i \in 1..n : /\ old[i - 1] < Len(file) /\ old[i] = PieceEnd(file, old[i - 1])
                           /\ IsPart(rest[i], file, old[i - 1] + 1, old[i])
    BY <1>2, <1>5 DEF Cuts
  <1>7. PICK q : q = <<s>> \o rest
    OBVIOUS
  <1>8. q \in Seq(Strings) /\ Len(q) = n + 1 /\ q[1] = s /\ \A i \in 1..n : q[i + 1] = rest[i]
    <2>1. s \in Strings
      BY <1>4 DEF IsPart
    <2>2. <<s>> \in Seq(Strings) /\ Len(<<s>>) = 1 /\ <<s>>[1] = s
      BY <2>1
    <2>3. q \in Seq(Strings) /\ Len(q) = 1 + n
      BY <1>5, <1>6, <1>7, <2>2
    <2>4. \A i \in 1..(1 + n) : q[i] = IF i <= 1 THEN <<s>>[i] ELSE rest[i - 1]
      BY <1>5, <1>6, <1>7, <2>2, ConcatProperties
    <2>5. q[1] = s
      BY <2>2, <2>4
    <2>6. ASSUME NEW i \in 1..n
          PROVE  q[i + 1] = rest[i]
      <3>1. i + 1 \in 1..(1 + n) /\ ~(i + 1 <= 1) /\ (i + 1) - 1 = i
        OBVIOUS
      <3> QED
        BY <2>4, <3>1
    <2> QED
      BY <2>3, <2>5, <2>6
  <1> DEFINE pos == [i \in 0..(n + 1) |-> IF i = 0 THEN p ELSE old[i - 1]]
  <1>9. pos \in [0..(n + 1) -> 0..Len(file)]
    <2>1. p \in 0..Len(file)
      BY <1>1
    <2>2. \A i \in 0..(n + 1) : i # 0 => i - 1 \in 0..n
      OBVIOUS
    <2> QED
      BY <1>6, <2>1, <2>2
  <1>10. pos[0] = p /\ \A i \in 0..n : pos[i + 1] = old[i]
    <2>1. \A i \in 0..n : i + 1 \in 0..(n + 1) /\ i + 1 # 0 /\ (i + 1) - 1 = i
      OBVIOUS
    <2> QED
      BY <2>1
  <1> HIDE DEF pos
  <1>11. pos[n + 1] = Len(file)
    BY <1>6, <1>10
  <1>12. ASSUME NEW i \in 1..(n + 1)
         PROVE  /\ pos[i - 1] < Len(file) /\ pos[i] = PieceEnd(file, pos[i - 1])
                /\ IsPart(q[i], file, pos[i - 1] + 1, pos[i])
    <2>1. CASE i = 1
      <3>1. pos[1] = e
        <4>1. 0 \in 0..n /\ 0 + 1 = 1
          OBVIOUS
        <4> QED
          BY <1>6, <1>10, <4>1
      <3>2. i - 1 = 0
        BY <2>1
      <3> QED
        BY <1>2, <1>4, <1>8, <1>10, <2>1, <3>1, <3>2
    <2>2. CASE i # 1
      <3>1. PICK j \in 1..n : i = j + 1 /\ i - 1 = (j - 1) + 1 /\ j \in 0..n /\ j - 1 \in 0..n
        <4>1. i - 1 \in 1..n /\ i = (i - 1) + 1 /\ i - 1 = ((i - 1) - 1) + 1
              /\ i - 1 \in 0..n /\ (i - 1) - 1 \in 0..n
          BY <2>2
        <4> QED
          BY <4>1
      <3>2. pos[i] = old[j] /\ pos[i - 1] = old[j - 1] /\ q[i] = rest[j]
        BY <1>8, <1>10, <3>1
      <3> QED
        BY <1>6, <3>1, <3>2, Zenon
    <2> QED
      BY <2>1, <2>2
  <1>13. Cuts(file, q, pos, p)
    <2>1. PICK m : m = n + 1
      OBVIOUS
    <2>2. pos \in [0..m -> 0..Len(file)] /\ pos[m] = Len(file) /\ Len(q) = m
      BY <1>8, <1>9, <1>11, <2>1, Zenon
    <2>3. \A i \in 1..m : /\ pos[i - 1] < Len(file) /\ pos[i] = PieceEnd(file, pos[i - 1])
                          /\ IsPart(q[i], file, pos[i - 1] + 1, pos[i])
      BY <1>12, <2>1, Zenon
    <2> QED
      BY <1>8, <1>10, <2>2, <2>3, Zenon DEF Cuts
  <1> QED
    BY <1>2, <1>3, <1>7, <1>13, Zenon

\* Pieces cuts the whole file.
LEMMA PiecesCut ==
    ASSUME NEW file \in Strings
    PROVE  \E pos : Cuts(file, Pieces(file), pos, 0)
  <1>1. PICK f : Splits(file, f, 0) /\ Pieces(file) = f[0]
    BY PiecesSplit
  <1>2. PICK L \in Nat : L = Len(file)
    BY DEF Strings
  <1> DEFINE Good(p) == \E pos : Cuts(file, f[p], pos, p)
             S == {n \in Nat : \A p \in 0..L : L - p <= n => Good(p)}
  <1>3. \A p \in 0..L : f[p] = IF p = L THEN <<>>
                               ELSE <<SubSeq(file, p + 1, PieceEnd(file, p))>> \o f[PieceEnd(file, p)]
    BY <1>1, <1>2 DEF Splits
  <1>4. Good(L)
    <2>1. f[L] = <<>> /\ Len(<<>>) = 0 /\ <<>> \in Seq(Strings)
      <3>1. L \in 0..L
        OBVIOUS
      <3>2. f[L] = <<>>
        BY <1>3, <3>1, Zenon
      <3>3. Len(<<>>) = 0 /\ <<>> \in Seq(Strings)
        OBVIOUS
      <3> QED
        BY <3>2, <3>3, Zenon
    <2> DEFINE pos == [i \in 0..0 |-> L]
    <2>2. pos \in [0..0 -> 0..L] /\ pos[0] = L
      OBVIOUS
    <2>3. 1..0 = {}
      OBVIOUS
    <2> HIDE DEF pos
    <2>4. Cuts(file, f[L], pos, L)
      BY <1>2, <2>1, <2>2, <2>3 DEF Cuts
    <2> QED
      BY <2>4
  <1> HIDE DEF Good
  <1>5. 0 \in S
    <2>1. \A p \in 0..L : L - p <= 0 => p = L
      OBVIOUS
    <2> QED
      BY <1>4, <2>1
  <1>6. ASSUME NEW n \in Nat, n \in S
        PROVE  n + 1 \in S
    <2> SUFFICES ASSUME NEW p \in 0..L, L - p <= n + 1
                 PROVE  Good(p)
      OBVIOUS
    <2>1. CASE p = L
      BY <1>4, <2>1
    <2>2. CASE p # L
      <3>1. p \in Nat /\ p < L
        BY <2>2
      <3>2. PICK e \in Nat : e = PieceEnd(file, p) /\ e \in (p + 1)..L
        BY <1>2, <3>1, PieceEndIs
      <3>3. e \in 0..L /\ L - e <= n
        BY <3>1, <3>2
      <3>4. Good(e)
        BY <1>6, <3>3
      <3>5. PICK old : Cuts(file, f[e], old, e)
        BY <3>4 DEF Good
      <3>6. Cuts(file, f[e], old, PieceEnd(file, p)) /\ p < Len(file)
        BY <1>2, <3>1, <3>2, <3>5, Zenon
      <3>7. \E pos : Cuts(file, <<SubSeq(file, p + 1, PieceEnd(file, p))>> \o f[e], pos, p)
        BY <3>1, <3>6, CutsMore, Zenon
      <3>8. f[p] = <<SubSeq(file, p + 1, PieceEnd(file, p))>> \o f[e]
        BY <1>3, <2>2, <3>2, Zenon
      <3> QED
        BY <3>7, <3>8, Zenon DEF Good
    <2> QED
      BY <2>1, <2>2
  <1>7. L \in S
    <2> HIDE DEF S
    <2> QED
      BY <1>5, <1>6, AllNumbers
  <1>8. Good(0)
    <2>1. 0 \in 0..L /\ L - 0 <= L
      OBVIOUS
    <2> QED
      BY <1>7, <2>1
  <1> QED
    BY <1>1, <1>8, Zenon DEF Good

\* What _LoadFile does with a piece, and the map before the first of them.
AfterPiece(map, piece) == _ParseLine(map, Before(Before(piece, "\n"), "#"))

NoEntry == [k \in {} |-> NULL]

\* The maps that come of the pieces with the numbers of s, for every part s of a
\* set D of numbers.
FoldsTo(q, it, D) ==
    it = [s \in SUBSET D |->
             IF s = {} THEN NoEntry ELSE AfterPiece(it[s \ {Max(s)}], q[Max(s)])]

\* A part of 1..m has a last number.
LEMMA LastOf ==
    ASSUME NEW m \in Nat, NEW s \in SUBSET (1..m), s # {}
    PROVE  Max(s) \in s /\ Max(s) \in 1..m /\ s \ {Max(s)} \in SUBSET (1..m)
           /\ \A i \in s : i <= Max(s)
  <1>1. s \in SUBSET Nat /\ \A i \in s : i <= m
    OBVIOUS
  <1>2. Max(s) \in s /\ \A i \in s : Max(s) >= i
    BY <1>1, GreatestOf
  <1>3. PICK x : x = Max(s)
    OBVIOUS
  <1> QED
    BY <1>1, <1>2, <1>3

\* The maps for the parts of 1..(m + 1), of those for the parts of 1..m.
LEMMA FoldsMore ==
    ASSUME NEW q, NEW old, NEW m \in Nat, FoldsTo(q, old, 1..m)
    PROVE  \E it : FoldsTo(q, it, 1..(m + 1))
  <1> DEFINE Of(s, map) == AfterPiece(map, q[Max(s)])
             it == [s \in SUBSET (1..(m + 1)) |->
                      IF m + 1 \in s THEN Of(s, old[s \ {m + 1}]) ELSE old[s]]
             new == [s \in SUBSET (1..(m + 1)) |->
                      IF s = {} THEN NoEntry ELSE Of(s, it[s \ {Max(s)}])]
  <1> HIDE DEF Of
  <1>1. \A s \in SUBSET (1..m) :
           old[s] = IF s = {} THEN NoEntry ELSE Of(s, old[s \ {Max(s)}])
    BY DEF FoldsTo, Of
  <1>2. \A s \in SUBSET (1..m) : s \in SUBSET (1..(m + 1)) /\ m + 1 \notin s
    OBVIOUS
  <1>3. \A s \in SUBSET (1..m) : it[s] = old[s]
    BY <1>2
  <1>4. ASSUME NEW s \in SUBSET (1..(m + 1))
        PROVE  it[s] = new[s]
    <2>1. CASE m + 1 \in s
      <3>1. s # {} /\ Max(s) = m + 1
        <4>1. s \in SUBSET Nat /\ \A i \in s : i <= m + 1
          OBVIOUS
        <4> QED
          BY <2>1, <4>1, MaxIs
      <3>2. s \ {m + 1} \in SUBSET (1..m)
        OBVIOUS
      <3>3. it[s] = Of(s, old[s \ {m + 1}])
        BY <2>1
      <3>4. new[s] = Of(s, it[s \ {Max(s)}])
        <4> HIDE DEF it
        <4> QED
          BY <3>1
      <3>5. it[s \ {m + 1}] = old[s \ {m + 1}]
        BY <1>3, <3>2
      <3> HIDE DEF it, new
      <3> QED
        BY <3>1, <3>3, <3>4, <3>5, Zenon
    <2>2. CASE m + 1 \notin s
      <3>1. s \in SUBSET (1..m)
        BY <2>2
      <3>2. it[s] = old[s]
        BY <1>3, <3>1
      <3>3. CASE s = {}
        <4>1. new[s] = NoEntry
          <5> HIDE DEF it
          <5> QED
            BY <3>3
        <4>2. old[s] = NoEntry
          BY <1>1, <3>1, <3>3, Zenon
        <4> HIDE DEF it, new
        <4> QED
          BY <3>2, <4>1, <4>2
      <3>4. CASE s # {}
        <4>1. s \ {Max(s)} \in SUBSET (1..m)
          BY <3>1, <3>4, LastOf, Zenon
        <4>2. it[s \ {Max(s)}] = old[s \ {Max(s)}]
          <5> HIDE DEF it
          <5> QED
            BY <1>3, <4>1, Zenon
        <4>3. new[s] = Of(s, it[s \ {Max(s)}])
          <5> HIDE DEF it
          <5> QED
            BY <3>4
        <4>4. old[s] = Of(s, old[s \ {Max(s)}])
          BY <1>1, <3>1, <3>4, Zenon
        <4> HIDE DEF it, new
        <4> QED
          BY <3>2, <4>2, <4>3, <4>4, Zenon
      <3> QED
        BY <3>3, <3>4
    <2> QED
      BY <2>1, <2>2
  <1>5. it = new
    <2>1. it = [s \in SUBSET (1..(m + 1)) |-> it[s]] /\ new = [s \in SUBSET (1..(m + 1)) |-> new[s]]
      OBVIOUS
    <2> HIDE DEF it, new
    <2> QED
      BY <1>4, <2>1
  <1>6. FoldsTo(q, it, 1..(m + 1))
    <2>1. new = [s \in SUBSET (1..(m + 1)) |->
                   IF s = {} THEN NoEntry ELSE AfterPiece(it[s \ {Max(s)}], q[Max(s)])]
      <3> HIDE DEF it
      <3> QED
        BY DEF Of
    <2> HIDE DEF it, new
    <2> QED
      BY <1>5, <2>1 DEF FoldsTo
  <1> QED
    BY <1>6

\* There are such maps for any number of pieces.
LEMMA FoldsExist ==
    ASSUME NEW q, NEW n \in Nat
    PROVE  \E it : FoldsTo(q, it, 1..n)
  <1> DEFINE S == {m \in Nat : \E it : FoldsTo(q, it, 1..m)}
  <1>1. 0 \in S
    <2> DEFINE it == [s \in SUBSET (1..0) |-> NoEntry]
    <2>1. \A s \in SUBSET (1..0) : s = {}
      OBVIOUS
    <2>2. it = [s \in SUBSET (1..0) |->
                   IF s = {} THEN NoEntry ELSE AfterPiece(it[s \ {Max(s)}], q[Max(s)])]
      BY <2>1
    <2>3. FoldsTo(q, it, 1..0)
      <3> HIDE DEF it
      <3> QED
        BY <2>2 DEF FoldsTo
    <2> QED
      BY <2>3
  <1>2. ASSUME NEW m \in Nat, m \in S
        PROVE  m + 1 \in S
    BY <1>2, FoldsMore
  <1>3. n \in S
    <2> HIDE DEF S
    <2> QED
      BY <1>1, <1>2, AllNumbers
  <1> QED
    BY <1>3

\* The map after every number of pieces.
Maps(file, q, M) ==
    /\ M[0] = NoEntry
    /\ \A i \in 1..Len(q) : M[i] = AfterPiece(M[i - 1], q[i])
    /\ _LoadFile(file) = M[Len(q)]

\* FoldLeft takes the map that comes of all of them.
Folded(q) == CHOOSE it : FoldsTo(q, it, DOMAIN q)

Loads(file, q) == _LoadFile(file) = Folded(q)[DOMAIN q]

\* FoldLeft in _LoadFile is that.
LEMMA LoadFolds == \A file : Loads(file, Pieces(file))
  BY DEF Loads, Folded, FoldsTo, _LoadFile, FoldLeft, MapThenFoldSet, NoEntry, AfterPiece

\* The maps after 0, 1, 2 ... pieces, one made of the other.
LEMMA LoadRuns ==
    ASSUME NEW file, NEW n \in Nat, Len(Pieces(file)) = n, DOMAIN Pieces(file) = 1..n
    PROVE  \E M : Maps(file, Pieces(file), M)
  <1>1. PICK q : q = Pieces(file)
    OBVIOUS
  <1>2. Len(q) = n /\ DOMAIN q = 1..n
    BY <1>1
  <1> DEFINE it == Folded(q)
             M == [i \in 0..n |-> it[1..i]]
  <1>3. _LoadFile(file) = it[DOMAIN q]
    <2>1. Loads(file, q)
      BY <1>1, LoadFolds, Zenon
    <2> QED
      BY <2>1, Zenon DEF Loads
  <1>4. FoldsTo(q, it, 1..n)
    <2>1. \E any : FoldsTo(q, any, 1..n)
      BY FoldsExist, Zenon
    <2>2. FoldsTo(q, it, DOMAIN q)
      BY <1>2, <2>1, Zenon DEF Folded
    <2> QED
      BY <1>2, <2>2, Zenon
  <1> HIDE DEF it
  <1>5. \A s \in SUBSET (1..n) :
           it[s] = IF s = {} THEN NoEntry ELSE AfterPiece(it[s \ {Max(s)}], q[Max(s)])
    BY <1>4 DEF FoldsTo
  <1>6. M[0] = NoEntry
    <2>1. 1..0 = {} /\ {} \in SUBSET (1..n) /\ 0 \in 0..n
      OBVIOUS
    <2>2. it[{}] = NoEntry
      BY <1>5, <2>1, Zenon
    <2> QED
      BY <2>1, <2>2
  <1>7. ASSUME NEW i \in 1..n
        PROVE  M[i] = AfterPiece(M[i - 1], q[i])
    <2>1. 1..i \in SUBSET (1..n) /\ i \in 1..i /\ (1..i) \ {i} = 1..(i - 1)
          /\ i \in 0..n /\ i - 1 \in 0..n
      OBVIOUS
    <2>2. Max(1..i) = i
      <3>1. 1..i \in SUBSET Nat /\ \A j \in 1..i : j <= i
        OBVIOUS
      <3> QED
        BY <2>1, <3>1, MaxIs
    <2>3. 1..i # {}
      BY <2>1
    <2>4. it[1..i] = AfterPiece(it[1..(i - 1)], q[i])
      BY <1>5, <2>1, <2>2, <2>3, Zenon
    <2>5. M[i] = it[1..i] /\ M[i - 1] = it[1..(i - 1)]
      BY <2>1
    <2> HIDE DEF M
    <2> QED
      BY <2>4, <2>5, Zenon
  <1>8. M[n] = it[DOMAIN q]
    BY <1>2
  <1> HIDE DEF M
  <1>9. Maps(file, q, M)
    BY <1>2, <1>3, <1>6, <1>7, <1>8, Zenon DEF Maps
  <1> QED
    BY <1>1, <1>9, Zenon
-----------------------------------------------------------------------------
(* The lines of a file.                                                    *)

\* The positions around its lines.
Ends(file) == {0, Len(file) + 1} \cup {i \in 1..Len(file) : file[i] = "\n"}

\* They are positions from 0 to behind the file.
LEMMA EndsIn ==
    ASSUME NEW file \in Strings
    PROVE  Len(file) \in Nat /\ Ends(file) \subseteq 0..(Len(file) + 1)
  BY DEF Ends, Strings

IsLine(file, x, y) ==
    x \in Ends(file) /\ y \in Ends(file) /\ x < y /\ \A e \in Ends(file) : e <= x \/ e >= y

\* The lines of LinesOf are these pairs.
LEMMA LinesAre ==
    ASSUME NEW file
    PROVE  /\ \A x, y : <<x, y>> \in LinesOf(file) <=> IsLine(file, x, y)
           /\ \A l \in LinesOf(file) : l = <<l[1], l[2]>> /\ IsLine(file, l[1], l[2])
  <1>1. LinesOf(file) = {l \in Ends(file) \X Ends(file) :
                            l[1] < l[2] /\ \A e \in Ends(file) : e <= l[1] \/ e >= l[2]}
    BY DEF LinesOf, Ends
  <1> QED
    BY <1>1 DEF IsLine

\* At every end but the last a line begins.
LEMMA LineAt ==
    ASSUME NEW file \in Strings, NEW x \in Ends(file), x <= Len(file)
    PROVE  \E y \in Nat : IsLine(file, x, y)
  <1> DEFINE S == {e \in Ends(file) : x < e}
  <1>1. Len(file) \in Nat /\ Ends(file) \subseteq 0..(Len(file) + 1) /\ x \in Nat
    BY EndsIn
  <1>2. S \in SUBSET Nat
    BY <1>1
  <1>3. Len(file) + 1 \in S
    BY <1>1 DEF Ends
  <1>4. Min(S) \in S /\ \A e \in S : Min(S) <= e
    <2> HIDE DEF S
    <2> QED
      BY <1>2, <1>3, LeastOf
  <1>5. PICK y \in Nat : y = Min(S)
    BY <1>2, <1>4
  <1>6. \A e \in Ends(file) : ~(x < e) => e <= x
    BY <1>1
  <1>7. \A e \in Ends(file) : e \in S => e >= y
    BY <1>1, <1>4, <1>5
  <1>8. y \in Ends(file) /\ x < y
    BY <1>4, <1>5
  <1> QED
    BY <1>6, <1>7, <1>8 DEF IsLine

EndsAt(file, p, e) == e = PieceEnd(file, p)

\* A line that fits into buf is read in one piece, with its newline or without,
\* and adds to the map what it gives.
LEMMA PieceOfLine ==
    ASSUME NEW file \in Strings, NEW x \in Nat, NEW y \in Nat, NEW e \in Nat, NEW piece, NEW map,
           IsLine(file, x, y), x < Len(file), y - x <= BUF_SIZE, EndsAt(file, x, e),
           IsPart(piece, file, x + 1, e)
    PROVE  /\ e = y - 1 \/ e = y
           /\ x < e
           /\ Adds(map, Entry(file, <<x, y>>), AfterPiece(map, piece))
  <1>1. PICK L \in Nat : L = Len(file) /\ Ends(file) \subseteq 0..(L + 1)
    BY EndsIn
  <1>2. e = PieceEnd(file, x)
    BY DEF EndsAt
  <1>3. /\ e \in (x + 1)..L /\ e <= x + BUF_SIZE - 1
        /\ \A i \in (x + 1)..L : file[i] = "\n" => e <= i
        /\ e = L \/ e = x + BUF_SIZE - 1 \/ file[e] = "\n"
    BY <1>1, <1>2, PieceEndIs
  <1>4. /\ y \in Ends(file) /\ x < y /\ y <= L + 1 /\ e \in Nat
        /\ \A i \in Ends(file) : i <= x \/ i >= y
    BY <1>1, <1>3 DEF IsLine
  <1>5. \A i \in 1..L : i \in Ends(file) <=> file[i] = "\n"
    BY <1>1 DEF Ends
  <1>6. \A i \in (x + 1)..(y - 1) : i \in 1..L /\ file[i] # "\n"
    <2> SUFFICES ASSUME NEW i \in (x + 1)..(y - 1) PROVE i \in 1..L /\ file[i] # "\n"
      OBVIOUS
    <2>1. i \in 1..L /\ ~(i <= x) /\ ~(i >= y)
      BY <1>4
    <2> QED
      BY <1>4, <1>5, <2>1
  <1>7. y <= L => file[y] = "\n"
    <2>1. y <= L => y \in 1..L
      BY <1>4
    <2> QED
      BY <1>4, <1>5, <2>1
  <1>8. e <= y
    <2>1. CASE y <= L
      <3>1. y \in (x + 1)..L
        BY <1>4, <2>1
      <3> QED
        BY <1>3, <1>7, <2>1, <3>1
    <2>2. CASE ~(y <= L)
      BY <1>3, <1>4, <2>2
    <2> QED
      BY <2>1, <2>2
  <1>9. e = y - 1 \/ e = y
    <2>1. CASE e = L
      BY <1>4, <1>8, <2>1
    <2>2. CASE e = x + BUF_SIZE - 1
      BY <1>4, <1>8, <2>2, BufHoldsText
    <2>3. CASE file[e] = "\n"
      <3>1. ~(e <= y - 1)
        BY <1>3, <1>6, <2>3
      <3> QED
        BY <1>4, <1>8, <3>1
    <2> QED
      BY <1>3, <2>1, <2>2, <2>3
  <1>10. x + 1 \in Nat /\ y - 1 \in Nat /\ x < e
    BY <1>3, <1>4
  <1>11. IsPart(piece, file, x + 1, e)
    OBVIOUS
  <1>12. PICK c : c = "\n"
    OBVIOUS
  <1>13. FirstOf(file, x + 1, e, c, y)
    <2>1. y \in (x + 1)..(e + 1)
      BY <1>4, <1>8, <1>9
    <2>2. ASSUME NEW i \in (x + 1)..e, i < y PROVE file[i] # c
      <3>1. i \in (x + 1)..(y - 1)
        BY <1>4, <2>2
      <3> QED
        BY <1>6, <1>12, <3>1
    <2>3. e <= L
      BY <1>3
    <2>4. e \in Nat /\ L \in Nat /\ y \in Nat
      BY <1>4
    <2>5. y <= e => file[y] = c
      BY <1>7, <1>12, <2>3, <2>4
    <2> QED
      BY <2>1, <2>2, <2>5, Zenon DEF FirstOf
  <1>14. IsPart(Before(piece, c), file, x + 1, y - 1)
    BY <1>4, <1>10, <1>11, <1>13, BeforeIs, Zenon
  <1>15. Adds(map, Entry(file, <<x, y>>), _ParseLine(map, Before(Before(piece, c), "#")))
    BY <1>4, <1>14, LineIs, Zenon
  <1>16. Adds(map, Entry(file, <<x, y>>), AfterPiece(map, piece))
    BY <1>12, <1>15, Zenon DEF AfterPiece
  <1> QED
    BY <1>9, <1>10, <1>16, Zenon

\* The newline of a line that filled buf is a piece of its own and adds nothing.
LEMMA PieceOfNewline ==
    ASSUME NEW file \in Strings, NEW p \in Nat, NEW e \in Nat, NEW piece, NEW map,
           p < Len(file), p \notin Ends(file), p + 1 \in Ends(file), EndsAt(file, p, e),
           IsPart(piece, file, p + 1, e)
    PROVE  e = p + 1 /\ Adds(map, {}, AfterPiece(map, piece))
  <1>1. PICK L \in Nat : L = Len(file) /\ p + 1 \in 1..L
    BY EndsIn
  <1>2. PICK a \in Nat : a = p + 1
    OBVIOUS
  <1>3. file[a] = "\n"
    BY <1>1, <1>2 DEF Ends
  <1>4. e = a
    <2>1. e \in (p + 1)..L /\ \A i \in (p + 1)..L : file[i] = "\n" => e <= i
      BY <1>1, PieceEndIs DEF EndsAt
    <2>2. a \in (p + 1)..L
      BY <1>1, <1>2
    <2>3. e <= a
      BY <1>3, <2>1, <2>2
    <2> QED
      BY <1>2, <2>1, <2>3
  <1>5. IsPart(piece, file, a, a) /\ a \in Nat \ {0}
    BY <1>1, <1>2, <1>4
  <1>6. PICK c, d, g : c = "\n" /\ d = "#" /\ g = "="
    OBVIOUS
  <1>7. PICK b \in Nat : b = a - 1
    BY <1>5
  <1>8. FirstOf(file, a, a, c, a) /\ FirstOf(file, a, b, d, a) /\ FirstOf(file, a, b, g, a)
    BY <1>3, <1>6, <1>7 DEF FirstOf
  <1>9. IsPart(Before(piece, c), file, a, b)
    BY <1>5, <1>7, <1>8, BeforeIs, Zenon
  <1>10. IsPart(Before(Before(piece, c), d), file, a, b)
    BY <1>7, <1>8, <1>9, BeforeIs, Zenon
  <1>11. Adds(map, IF a <= b THEN Core(file, a, a - 1) \X Core(file, a + 1, b) ELSE {},
              _ParseLine(map, Before(Before(piece, c), d)))
    BY <1>6, <1>8, <1>10, ParseIs, Zenon
  <1>12. ~(a <= b)
    BY <1>7
  <1>13. Adds(map, {}, AfterPiece(map, piece))
    BY <1>6, <1>11, <1>12, Zenon DEF AfterPiece
  <1> QED
    BY <1>2, <1>4, <1>13, Zenon

\* No line before l gives the key of kv.
FirstOfKey(file, l, kv) ==
    \A k \in LinesOf(file) : k[1] < l[1] => \A other \in Entry(file, k) : other[1] # kv[1]

\* What the lines that begin before p give.
Said(file, p, kv) ==
    \E l \in LinesOf(file) : l[1] < p /\ kv \in Entry(file, l) /\ FirstOfKey(file, l, kv)

Holds(file, p, map) ==
    \A key, value : key \in DOMAIN map /\ value = map[key] <=> Said(file, p, <<key, value>>)

\* An entry is a key and a value.
LEMMA EntryIsPair == \A file, l : \A kv \in Entry(file, l) : kv = <<kv[1], kv[2]>>
  BY DEF Entry

\* The map has the keys that those lines give.
LEMMA KeysAre ==
    ASSUME NEW file \in Strings, NEW p \in Nat, NEW map, Holds(file, p, map)
    PROVE  \A key : key \in DOMAIN map
              <=> \E l \in LinesOf(file) : l[1] < p /\ \E other \in Entry(file, l) : other[1] = key
  <1> TAKE key
  <1>1. ASSUME key \in DOMAIN map
        PROVE  \E l \in LinesOf(file) : l[1] < p /\ \E other \in Entry(file, l) : other[1] = key
    <2>1. Said(file, p, <<key, map[key]>>)
      BY <1>1, Zenon DEF Holds
    <2>2. PICK l \in LinesOf(file) : l[1] < p /\ <<key, map[key]>> \in Entry(file, l)
      BY <2>1, Zenon DEF Said
    <2>3. <<key, map[key]>>[1] = key
      OBVIOUS
    <2> QED
      BY <2>2, <2>3, Zenon
  <1>2. ASSUME NEW l \in LinesOf(file), l[1] < p, NEW other \in Entry(file, l), other[1] = key
        PROVE  key \in DOMAIN map
    <2> DEFINE S == {k[1] : k \in {k \in LinesOf(file) : \E o \in Entry(file, k) : o[1] = key}}
    <2>1. \A k \in LinesOf(file) : k[1] \in Nat
      <3>1. Len(file) \in Nat /\ Ends(file) \subseteq 0..(Len(file) + 1)
        BY EndsIn
      <3>2. \A k \in LinesOf(file) : k[1] \in Ends(file)
        BY LinesAre, Zenon DEF IsLine
      <3> QED
        BY <3>1, <3>2
    <2>2. S \in SUBSET Nat /\ l[1] \in S
      BY <1>2, <2>1
    <2>3. Min(S) \in S /\ \A u \in S : Min(S) <= u
      <3> HIDE DEF S
      <3> QED
        BY <2>2, LeastOf
    <2>4. PICK k \in LinesOf(file) : k[1] = Min(S) /\ \E o \in Entry(file, k) : o[1] = key
      BY <2>3
    <2>5. PICK o \in Entry(file, k) : o[1] = key
      BY <2>4
    <2>6. k[1] < p
      <3>1. k[1] \in Nat /\ l[1] \in Nat /\ k[1] <= l[1]
        BY <2>1, <2>2, <2>3, <2>4
      <3> QED
        BY <1>2, <3>1
    <2>7. FirstOfKey(file, k, o)
      <3> SUFFICES ASSUME NEW j \in LinesOf(file), j[1] < k[1], NEW n \in Entry(file, j), n[1] = o[1]
                   PROVE  FALSE
        BY Zenon DEF FirstOfKey
      <3>1. j[1] \in S
        BY <2>5
      <3>2. k[1] <= j[1] /\ j[1] \in Nat /\ k[1] \in Nat
        BY <2>1, <2>3, <2>4, <3>1
      <3> QED
        BY <3>2
    <2>8. o = <<key, o[2]>>
      BY <2>5, EntryIsPair
    <2>9. Said(file, p, <<key, o[2]>>)
      BY <2>6, <2>7, <2>8, Zenon DEF Said
    <2> QED
      BY <2>9, Zenon DEF Holds
  <1> QED
    BY <1>1, <1>2

\* A line that begins before the end of a piece of a line is that line or one
\* before it.
LEMMA LinesTo ==
    ASSUME NEW file \in Strings, NEW x \in Nat, NEW y \in Nat, IsLine(file, x, y),
           NEW e \in Nat, x < e, e <= y, NEW l \in LinesOf(file)
    PROVE  l[1] < e <=> l[1] < x \/ l = <<x, y>>
  <1>1. Len(file) \in Nat /\ Ends(file) \subseteq 0..(Len(file) + 1)
    BY EndsIn
  <1>2. PICK u, w : l = <<u, w>> /\ IsLine(file, u, w) /\ l[1] = u /\ l[2] = w
    BY LinesAre, Zenon
  <1>3. u \in Nat /\ w \in Nat /\ u < w /\ (x <= u \/ x >= w) /\ (y <= u \/ y >= w)
    BY <1>1, <1>2 DEF IsLine
  <1>4. (u <= x \/ u >= y) /\ (w <= x \/ w >= y)
    BY <1>2 DEF IsLine
  <1>5. u < e <=> u < x \/ (u = x /\ w = y)
    BY <1>3, <1>4
  <1>6. l = <<x, y>> <=> u = x /\ w = y
    BY <1>2
  <1> QED
    BY <1>2, <1>5, <1>6, Zenon

\* With the entries of a line the map holds what the lines up to it give.
LEMMA HoldsMore ==
    ASSUME NEW file \in Strings, NEW x \in Nat, NEW y \in Nat, IsLine(file, x, y),
           NEW e \in Nat, x < e, e <= y, NEW map, NEW new,
           Holds(file, x, map), Adds(map, Entry(file, <<x, y>>), new)
    PROVE  Holds(file, e, new)
  <1>1. PICK l \in LinesOf(file) : l = <<x, y>> /\ l[1] = x
    BY LinesAre
  <1>2. \A k \in LinesOf(file) : k[1] < e <=> k[1] < x \/ k = l
    BY <1>1, LinesTo, Zenon
  <1>3. \A kv : Said(file, e, kv) <=>
                   Said(file, x, kv) \/ (kv \in Entry(file, l) /\ FirstOfKey(file, l, kv))
    BY <1>2, Zenon DEF Said
  <1>4. \A key : key \in DOMAIN map
           <=> \E k \in LinesOf(file) : k[1] < x /\ \E other \in Entry(file, k) : other[1] = key
    BY KeysAre, Zenon
  <1>5. \A kv : FirstOfKey(file, l, kv) <=> kv[1] \notin DOMAIN map
    BY <1>1, <1>4, Zenon DEF FirstOfKey
  <1>6. ASSUME Entry(file, l) = {}, new = map
        PROVE  Holds(file, e, new)
    <2>1. \A kv : Said(file, e, kv) <=> Said(file, x, kv)
      BY <1>3, <1>6
    <2> QED
      BY <1>6, <2>1, Zenon DEF Holds
  <1>7. ASSUME NEW key, NEW value, Entry(file, l) = {<<key, value>>}, key \in DOMAIN map, new = map
        PROVE  Holds(file, e, new)
    <2>1. <<key, value>>[1] = key
      OBVIOUS
    <2>2. \A kv : Said(file, e, kv) <=> Said(file, x, kv)
      BY <1>3, <1>5, <1>7, <2>1
    <2> QED
      BY <1>7, <2>2, Zenon DEF Holds
  <1>8. ASSUME NEW key, NEW value, Entry(file, l) = {<<key, value>>}, key \notin DOMAIN map,
               new = [k \in DOMAIN map \cup {key} |-> IF k = key THEN value ELSE map[k]]
        PROVE  Holds(file, e, new)
    <2>1. <<key, value>>[1] = key
      OBVIOUS
    <2>2. FirstOfKey(file, l, <<key, value>>)
      BY <1>5, <1>8, <2>1, Zenon
    <2>3. \A kv : Said(file, e, kv) <=> Said(file, x, kv) \/ kv = <<key, value>>
      BY <1>3, <1>8, <2>2
    <2>4. DOMAIN new = DOMAIN map \cup {key} /\ new[key] = value
          /\ \A k \in DOMAIN map : new[k] = map[k]
      BY <1>8
    <2>5. ASSUME NEW k, NEW v
          PROVE  k \in DOMAIN new /\ v = new[k]
                 <=> (k \in DOMAIN map /\ v = map[k]) \/ (k = key /\ v = value)
      BY <1>8, <2>4
    <2>6. ASSUME NEW k, NEW v
          PROVE  k \in DOMAIN new /\ v = new[k] <=> Said(file, e, <<k, v>>)
      <3>1. <<k, v>> = <<key, value>> <=> k = key /\ v = value
        OBVIOUS
      <3>2. k \in DOMAIN map /\ v = map[k] <=> Said(file, x, <<k, v>>)
        BY Zenon DEF Holds
      <3> QED
        BY <2>3, <2>5, <3>1, <3>2, Zenon
    <2> QED
      BY <2>6, Zenon DEF Holds
  <1> QED
    BY <1>1, <1>6, <1>7, <1>8 DEF Adds

\* Whatever a file says, the program gets from it what its lines say.
LEMMA LoadAsWritten ==
    ASSUME NEW file \in Strings
    PROVE  AsWritten(_LoadFile(file), file)
  <1> SUFFICES ASSUME \A l \in LinesOf(file) : l[2] - l[1] <= BUF_SIZE
               PROVE  {<<key, GetConfigName(_LoadFile(file), key)>> : key \in DOMAIN _LoadFile(file)}
                      = UNION {{kv \in Entry(file, l) : FirstOfKey(file, l, kv)} : l \in LinesOf(file)}
    BY DEF AsWritten, FirstOfKey
  <1>1. PICK L \in Nat : L = Len(file) /\ Ends(file) \subseteq 0..(L + 1)
    BY EndsIn
  <1>2. PICK q : q = Pieces(file)
    OBVIOUS
  <1>3. PICK pos : Cuts(file, q, pos, 0)
    BY <1>2, PiecesCut, Zenon
  <1>4. PICK n \in Nat : n = Len(q) /\ DOMAIN q = 1..n
    BY <1>3 DEF Cuts
  <1>5. PICK M : Maps(file, q, M)
    BY <1>2, <1>4, LoadRuns, Zenon
  <1>6. /\ pos \in [0..n -> 0..L] /\ pos[0] = 0 /\ pos[n] = L
        /\ \A i \in 1..n : /\ pos[i - 1] < L /\ pos[i] = PieceEnd(file, pos[i - 1])
                           /\ IsPart(q[i], file, pos[i - 1] + 1, pos[i])
    BY <1>1, <1>3, <1>4, Zenon DEF Cuts
  <1>7. /\ M[0] = NoEntry /\ _LoadFile(file) = M[n]
        /\ \A i \in 1..n : M[i] = AfterPiece(M[i - 1], q[i])
    BY <1>4, <1>5, Zenon DEF Maps
  <1> DEFINE At(p) == p \in Ends(file) \/ p + 1 \in Ends(file)
             S == {i \in Nat : i <= n => At(pos[i]) /\ Holds(file, pos[i], M[i])}
  <1>8. 0 \in S
    <2>1. At(0)
      BY DEF Ends
    <2>2. \A kv : ~Said(file, 0, kv)
      <3>1. \A l \in LinesOf(file) : ~(l[1] < 0)
        <4>1. \A l \in LinesOf(file) : l[1] \in Ends(file)
          BY LinesAre, Zenon DEF IsLine
        <4> QED
          BY <1>1, <4>1
      <3> QED
        BY <3>1, Zenon DEF Said
    <2>3. DOMAIN NoEntry = {}
      BY DEF NoEntry
    <2>4. Holds(file, 0, NoEntry)
      BY <2>2, <2>3 DEF Holds
    <2> QED
      BY <1>6, <1>7, <2>1, <2>4
  <1>9. ASSUME NEW j \in Nat, j \in S
        PROVE  j + 1 \in S
    <2> SUFFICES ASSUME j + 1 <= n
                 PROVE  At(pos[j + 1]) /\ Holds(file, pos[j + 1], M[j + 1])
      OBVIOUS
    <2>1. PICK i \in 1..n : i = j + 1 /\ i - 1 = j /\ j \in 0..n
      <3>1. j + 1 \in 1..n /\ (j + 1) - 1 = j /\ j \in 0..n
        OBVIOUS
      <3> QED
        BY <3>1
    <2>2. PICK p \in Nat : p = pos[j] /\ p < L
      <3>1. pos[j] \in 0..L /\ pos[j] < L
        BY <1>6, <2>1
      <3> QED
        BY <1>1, <3>1
    <2>3. At(p) /\ Holds(file, p, M[j])
      BY <1>9, <2>1, <2>2
    <2>4. PICK e \in Nat : /\ e = pos[i] /\ EndsAt(file, p, e) /\ IsPart(q[i], file, p + 1, e)
                           /\ M[i] = AfterPiece(M[j], q[i])
      <3>1. i \in 0..n
        OBVIOUS
      <3>2. pos[i] \in Nat
        BY <1>1, <1>6, <3>1
      <3> QED
        BY <1>6, <1>7, <2>1, <2>2, <3>2, Zenon DEF EndsAt
    <2> HIDE DEF S
    <2>5. CASE p \in Ends(file)
      <3>1. PICK y \in Nat : IsLine(file, p, y)
        <4>1. p <= Len(file)
          BY <1>1, <2>2
        <4> QED
          BY <2>5, <4>1, LineAt, Zenon
      <3>2. y - p <= BUF_SIZE
        <4>1. <<p, y>> \in LinesOf(file) /\ <<p, y>>[1] = p /\ <<p, y>>[2] = y
          BY <3>1, LinesAre
        <4> QED
          BY <4>1
      <3>3. p < Len(file)
        BY <1>1, <2>2
      <3>4. /\ e = y - 1 \/ e = y
            /\ p < e /\ Adds(M[j], Entry(file, <<p, y>>), M[i])
        <4>1. /\ e = y - 1 \/ e = y
              /\ p < e /\ Adds(M[j], Entry(file, <<p, y>>), AfterPiece(M[j], q[i]))
          BY <2>4, <3>1, <3>2, <3>3, PieceOfLine, Zenon
        <4> QED
          BY <2>4, <4>1, Zenon
      <3>5. e \in Nat /\ e <= y
        BY <2>2, <3>4
      <3>6. Holds(file, e, M[i])
        BY <2>3, <3>1, <3>4, <3>5, HoldsMore, Zenon
      <3>7. At(e)
        <4>1. y \in Ends(file)
          BY <3>1 DEF IsLine
        <4> QED
          BY <3>4, <4>1
      <3> HIDE DEF At
      <3> QED
        BY <2>1, <2>4, <3>6, <3>7, Zenon
    <2>6. CASE p \notin Ends(file)
      <3>1. p + 1 \in Ends(file) /\ p < Len(file)
        BY <1>1, <2>2, <2>3, <2>6
      <3>2. e = p + 1 /\ M[i] = M[j]
        <4>1. e = p + 1 /\ Adds(M[j], {}, AfterPiece(M[j], q[i]))
          <5>1. /\ p \in Nat /\ e \in Nat /\ file \in Strings
                /\ EndsAt(file, p, e) /\ IsPart(q[i], file, p + 1, e)
            BY <2>4, Zenon
          <5> QED
            BY <5>1, <2>6, <3>1, PieceOfNewline, Zenon
        <4>2. Adds(M[j], {}, M[i])
          BY <2>4, <4>1, Zenon
        <4> QED
          BY <4>1, <4>2 DEF Adds
      <3>3. \A l \in LinesOf(file) : l[1] < p + 1 <=> l[1] < p
        <4>1. \A l \in LinesOf(file) : l[1] \in Ends(file)
          BY LinesAre, Zenon DEF IsLine
        <4> QED
          BY <1>1, <2>2, <2>6, <4>1
      <3>4. \A kv : Said(file, p + 1, kv) <=> Said(file, p, kv)
        BY <3>3, Zenon DEF Said
      <3>5. Holds(file, p + 1, M[i])
        BY <2>3, <3>2, <3>4, Zenon DEF Holds
      <3>6. At(p + 1)
        BY <3>1
      <3> HIDE DEF At
      <3> QED
        BY <2>1, <2>4, <3>2, <3>5, <3>6, Zenon
    <2> QED
      BY <2>5, <2>6
  <1>10. n \in S
    <2> HIDE DEF S
    <2> QED
      BY <1>8, <1>9, AllNumbers
  <1>11. PICK map : map = _LoadFile(file) /\ Holds(file, L, map)
    BY <1>6, <1>7, <1>10
  <1>12. \A key, value : key \in DOMAIN map /\ value = map[key]
             <=> \E l \in LinesOf(file) : <<key, value>> \in Entry(file, l)
                                          /\ FirstOfKey(file, l, <<key, value>>)
    <2>1. ASSUME NEW l \in LinesOf(file), ~(l[1] < L)
          PROVE  Entry(file, l) = {}
      <3>1. l = <<l[1], l[2]>> /\ IsLine(file, l[1], l[2])
        BY LinesAre, Zenon
      <3>2. l[1] \in Ends(file) /\ l[2] \in Ends(file) /\ l[1] < l[2]
        BY <3>1, Zenon DEF IsLine
      <3>3. (l[1] + 1)..(l[2] - 1) = {}
        BY <1>1, <2>1, <3>2
      <3> QED
        BY <3>3 DEF Entry
    <2>2. \A kv : Said(file, L, kv) <=>
             \E l \in LinesOf(file) : kv \in Entry(file, l) /\ FirstOfKey(file, l, kv)
      BY <2>1 DEF Said
    <2> QED
      BY <1>11, <2>2, Zenon DEF Holds
  <1>13. {<<key, map[key]>> : key \in DOMAIN map}
         = UNION {{kv \in Entry(file, l) : FirstOfKey(file, l, kv)} : l \in LinesOf(file)}
    <2> DEFINE A == {<<key, map[key]>> : key \in DOMAIN map}
               B == UNION {{kv \in Entry(file, l) : FirstOfKey(file, l, kv)} : l \in LinesOf(file)}
    <2>1. ASSUME NEW kv \in A
          PROVE  kv \in B
      <3>1. PICK key \in DOMAIN map : kv = <<key, map[key]>>
        OBVIOUS
      <3>2. PICK l \in LinesOf(file) : kv \in Entry(file, l) /\ FirstOfKey(file, l, kv)
        BY <1>12, <3>1, Zenon
      <3> QED
        BY <3>2
    <2>2. ASSUME NEW kv \in B
          PROVE  kv \in A
      <3>1. PICK l \in LinesOf(file) : kv \in Entry(file, l) /\ FirstOfKey(file, l, kv)
        OBVIOUS
      <3>2. kv = <<kv[1], kv[2]>>
        BY <3>1, EntryIsPair
      <3>3. kv[1] \in DOMAIN map /\ kv[2] = map[kv[1]]
        BY <1>12, <3>1, <3>2, Zenon
      <3> QED
        BY <3>2, <3>3
    <2> HIDE DEF A, B
    <2>3. A = B
      BY <2>1, <2>2
    <2> QED
      BY <2>3 DEF A, B
  <1>14. \A key \in DOMAIN map : GetConfigName(map, key) = map[key]
    BY DEF GetConfigName
  <1>15. {<<key, GetConfigName(map, key)>> : key \in DOMAIN map} = {<<key, map[key]>> : key \in DOMAIN map}
    BY <1>14
  <1> QED
    BY <1>11, <1>13, <1>15, Zenon
-----------------------------------------------------------------------------
(* What this says of a run of any of the programs.                          *)

\* Every record of the log accounts for the delay (log_adhoc.c:212-259).
THEOREM DelaysCorrect == Calls => []DelaysAddUp
<1>1. NoCall => DelaysAddUp
  BY DEF NoCall, DelaysAddUp
<1>2. ASSUME DelaysAddUp, [OneCall]_callVars
      PROVE  DelaysAddUp'
  <2>1. CASE Record
    <3>1. PICK stats \in [{"incoming_arrival", "active_arrival", "agent_handoff",
                           "conn_setup_done", "deliver_done"} -> Stamps],
               clock \in Stamps :
                 input' = <<stats, clock>> /\ output' = log_adhoc(stats, clock)
      BY <2>1 DEF Record
    <3>2. stats \in Stats /\ clock \in Stamp
      BY InputsTyped DEF Stats
    <3>3. AddUp(log_adhoc(stats, clock), stats, clock)
      BY <3>2, RecordAddsUp
    <3> QED
      BY <3>1, <3>3 DEF DelaysAddUp
  <2>2. CASE LoadFile
    BY <2>2 DEF LoadFile, DelaysAddUp
  <2>3. CASE Pull
    BY <2>3 DEF Pull, DelaysAddUp
  <2>4. CASE UNCHANGED callVars
    BY <1>2, <2>4 DEF callVars, DelaysAddUp
  <2> QED
    BY <1>2, <2>1, <2>2, <2>3, <2>4 DEF OneCall
<1> QED
  BY <1>1, <1>2, PTL DEF Calls

\* Whatever file main() of either program reads its configuration from, whatever
\* its length and however many lines it has, the program gets what the lines say,
\* unless one is longer than buf (ConfigFileReader.cpp:47-66).
THEOREM ConfigCorrect == Calls => []ConfigAsWritten
<1>1. NoCall => ConfigAsWritten
  BY DEF NoCall, ConfigAsWritten
<1>2. ASSUME ConfigAsWritten, [OneCall]_callVars
      PROVE  ConfigAsWritten'
  <2>1. CASE Record
    BY <2>1 DEF Record, ConfigAsWritten
  <2>2. CASE LoadFile
    <3>1. PICK file \in Files : input' = file /\ output' = _LoadFile(file)
      BY <2>2 DEF LoadFile
    <3>2. file \in Strings
      BY InputsTyped DEF Strings
    <3>3. AsWritten(_LoadFile(file), file)
      BY <3>2, LoadAsWritten
    <3> QED
      BY <3>1, <3>3 DEF ConfigAsWritten
  <2>3. CASE Pull
    BY <2>3 DEF Pull, ConfigAsWritten
  <2>4. CASE UNCHANGED callVars
    BY <1>2, <2>4 DEF callVars, ConfigAsWritten
  <2> QED
    BY <1>2, <2>1, <2>2, <2>3, <2>4 DEF OneCall
<1> QED
  BY <1>1, <1>2, PTL DEF Calls

-----------------------------------------------------------------------------
(* A child's round.                                                        *)

\* A column has a name and a value.
LEMMA Columns ==
    ASSUME NEW row \in Row
    PROVE  /\ Len(row) \in Nat
           /\ \A j \in 1..Len(row) : row[j].name \in STRING /\ row[j].value \in Seq(1..255)
<1> DEFINE Column == [name : STRING, value : Seq(1..255)]
<1>1. row \in Seq(Column)
  BY DEF Row
<1>2. \A c \in Column : c.name \in STRING /\ c.value \in Seq(1..255)
  OBVIOUS
<1> HIDE DEF Column
<1>3. Len(row) \in Nat /\ \A j \in 1..Len(row) : row[j] \in Column
  BY <1>1
<1> QED
  BY <1>2, <1>3

\* A list has a node without anything, and one for each column (mysql.c:259-279).
LEMMA ListShape ==
    ASSUME NEW rows \in Seq(Row), NEW i \in 1..Len(rows)
    PROVE  LET list == mysql_fill_data(rows)[i]
           IN  /\ Len(list) = Len(rows[i]) + 1
               /\ Len(rows[i]) \in Nat
               /\ \A j \in 1..Len(rows[i]) :
                    /\ list[j + 1].fieldName = rows[i][j].name
                    /\ list[j + 1].fieldValue = rows[i][j].value
<1> DEFINE row == rows[i]
           head == <<[fieldName |-> NoValue, fieldValue |-> NoValue]>>
           fields == [j \in 1..Len(row) |-> [fieldName |-> row[j].name, fieldValue |-> row[j].value]]
<1>1. row \in Row
  OBVIOUS
<1>3. Len(row) \in Nat
  BY <1>1, Columns
<1>4. mysql_fill_data(rows)[i] = head \o fields
  BY DEF mysql_fill_data
<1>5. /\ fields \in Seq([fieldName : STRING, fieldValue : Seq(1..255)])
      /\ Len(fields) = Len(row)
  <2>1. ASSUME NEW j \in 1..Len(row)
        PROVE  row[j].name \in STRING /\ row[j].value \in Seq(1..255)
    BY <1>1, Columns
  <2>2. fields \in [1..Len(row) -> [fieldName : STRING, fieldValue : Seq(1..255)]]
    BY <2>1
  <2> QED
    BY <1>3, <2>2
<1>6. Len(head) = 1 /\ head \in Seq([fieldName : {NoValue}, fieldValue : {NoValue}])
  OBVIOUS
<1>7. Len(head \o fields) = Len(row) + 1
  BY <1>3, <1>5, <1>6
<1>8. ASSUME NEW j \in 1..Len(row)
      PROVE  (head \o fields)[j + 1] = fields[j]
  BY <1>3, <1>5, <1>6
<1> HIDE DEF head
<1> QED
  BY <1>3, <1>4, <1>7, <1>8

\* Three calls of free for a field.
Third(n) == (n + 2) \div 3
Call(n) == n % 3

LEMMA ThirdCall ==
    /\ \A n \in Nat \ {0} : Third(n) \in Nat \ {0} /\ Call(n) \in {0, 1, 2}
    /\ \A n, m \in Nat \ {0} : Third(n) = Third(m) /\ Call(n) = Call(m) => n = m
    /\ \A L, n \in Nat \ {0} : n <= 3 * L - 2 =>
        Third(n) <= L /\ (Call(n) # 1 => Third(n) + 1 <= L)
    /\ \A j \in Nat \ {0} :
        /\ Third(3 * j - 2) = j /\ Call(3 * j - 2) = 1
        /\ Third(3 * j - 1) = j /\ Call(3 * j - 1) = 2
        /\ Third(3 * j) = j /\ Call(3 * j) = 0
<1>1. \A n \in Nat \ {0} : Third(n) \in Nat \ {0} /\ Call(n) \in {0, 1, 2}
  BY SMT DEF Third, Call
<1>2. \A n, m \in Nat \ {0} : Third(n) = Third(m) /\ Call(n) = Call(m) => n = m
  BY SMT DEF Third, Call
<1>3. \A L, n \in Nat \ {0} : n <= 3 * L - 2 =>
        Third(n) <= L /\ (Call(n) # 1 => Third(n) + 1 <= L)
  BY SMT DEF Third, Call
<1>4. ASSUME NEW j \in Nat \ {0}
      PROVE  /\ Third(3 * j - 2) = j /\ Call(3 * j - 2) = 1
             /\ Third(3 * j - 1) = j /\ Call(3 * j - 1) = 2
             /\ Third(3 * j) = j /\ Call(3 * j) = 0
  BY SMT DEF Third, Call
<1> QED
  BY <1>1, <1>2, <1>3, <1>4

\* free_result_data gives back what mysql_fill_data has taken, each block once
\* (mysql.c:213-234).
LEMMA FreesMatch ==
    ASSUME NEW data, NEW i, NEW L \in Nat \ {0}, Len(data[i]) = L
    PROVE  FreedOnce(data, i)
<1> DEFINE frees == free_result_data(data, i)
           Value(j) == data[i][j].fieldValue
<1>1. DOMAIN frees = 1..(3 * L - 2)
  BY DEF free_result_data
<1>2. ASSUME NEW n \in DOMAIN frees
      PROVE  /\ Call(n) = 1 => frees[n] = <<"node", i, Third(n)>>
             /\ Call(n) = 2 => frees[n] = <<"fieldName", i, Third(n) + 1>>
             /\ Call(n) = 0 /\ Value(Third(n) + 1) # NoValue =>
                    frees[n] = <<"fieldValue", i, Third(n) + 1>>
             /\ Call(n) = 0 /\ Value(Third(n) + 1) = NoValue => frees[n] = NoValue
  BY DEF free_result_data, Third, Call
<1>3. ASSUME NEW n \in DOMAIN frees
      PROVE  /\ n \in Nat \ {0} /\ Third(n) \in 1..L /\ Call(n) \in {0, 1, 2}
             /\ Call(n) # 1 => Third(n) + 1 \in 2..L
  <2>1. n \in Nat \ {0} /\ n <= 3 * L - 2
    BY <1>1
  <2>2. Third(n) \in Nat \ {0} /\ Call(n) \in {0, 1, 2}
    BY <2>1, ThirdCall
  <2>3. Third(n) <= L /\ (Call(n) # 1 => Third(n) + 1 <= L)
    BY <2>1, ThirdCall
  <2>4. Third(n) \in 1..L
    BY <2>2, <2>3
  <2>5. Call(n) # 1 => Third(n) + 1 \in 2..L
    BY <2>2, <2>3
  <2> QED
    BY <2>1, <2>2, <2>4, <2>5
<1> HIDE DEF frees, Value
<1>4. ASSUME NEW n \in DOMAIN frees
      PROVE  frees[n] = NoValue \/ frees[n] \in Allocated(data, i)
  <2>1. CASE Call(n) = 1
    BY <1>2, <1>3, <2>1 DEF Allocated
  <2>2. CASE Call(n) = 2
    BY <1>2, <1>3, <2>2 DEF Allocated
  <2>3. CASE Call(n) = 0
    BY <1>2, <1>3, <2>3 DEF Allocated, Value
  <2> QED
    BY <1>3, <2>1, <2>2, <2>3
<1>5. ASSUME NEW n \in DOMAIN frees, NEW m \in DOMAIN frees,
             frees[n] # NoValue, frees[m] = frees[n]
      PROVE  m = n
  <2>1. Call(m) = Call(n) /\ Third(m) = Third(n)
    BY <1>2, <1>3, <1>5
  <2> QED
    BY <1>3, <2>1, ThirdCall
<1>6. ASSUME NEW block \in Allocated(data, i)
      PROVE  \E n \in DOMAIN frees : frees[n] = block
  <2>1. \/ \E j \in 1..L : block = <<"node", i, j>>
        \/ \E j \in 2..L : block = <<"fieldName", i, j>>
        \/ \E j \in 2..L : block = <<"fieldValue", i, j>> /\ Value(j) # NoValue
    BY DEF Allocated, Value
  <2>2. ASSUME NEW j \in 1..L, block = <<"node", i, j>>
        PROVE  \E n \in DOMAIN frees : frees[n] = block
    <3> DEFINE n == 3 * j - 2
    <3>1. n \in DOMAIN frees /\ j \in Nat \ {0}
      BY <1>1
    <3>2. Third(n) = j /\ Call(n) = 1
      BY <3>1, ThirdCall
    <3> QED
      BY <1>2, <2>2, <3>1, <3>2
  <2>3. ASSUME NEW h \in 2..L, block = <<"fieldName", i, h>>
        PROVE  \E n \in DOMAIN frees : frees[n] = block
    <3> DEFINE j == h - 1
               n == 3 * j - 1
    <3>1. n \in DOMAIN frees /\ j \in Nat \ {0} /\ j + 1 = h
      BY <1>1
    <3>2. Third(n) = j /\ Call(n) = 2
      BY <3>1, ThirdCall
    <3> HIDE DEF j, n
    <3> QED
      BY <1>2, <2>3, <3>1, <3>2
  <2>4. ASSUME NEW h \in 2..L, block = <<"fieldValue", i, h>>, Value(h) # NoValue
        PROVE  \E n \in DOMAIN frees : frees[n] = block
    <3> DEFINE j == h - 1
               n == 3 * j
    <3>1. n \in DOMAIN frees /\ j \in Nat \ {0} /\ j + 1 = h
      BY <1>1
    <3>2. Third(n) = j /\ Call(n) = 0
      BY <3>1, ThirdCall
    <3> HIDE DEF j, n
    <3> QED
      BY <1>2, <2>4, <3>1, <3>2
  <2> QED
    BY <2>1, <2>2, <2>3, <2>4
<1>7. ASSUME NEW block \in Allocated(data, i)
      PROVE  block # NoValue
  BY DEF Allocated, NoValue
<1> QED
  BY <1>4, <1>5, <1>6, <1>7 DEF FreedOnce, frees

(* A field of a mail is the column of that name (worker.cpp:471-487).        *)
LEMMA FieldOf ==
    ASSUME NEW rows \in Seq(Row), NEW i \in 1..Len(rows),
           NEW j \in 1..Len(rows[i]), rows[i][j].name \in Fields
    PROVE  pullSentInfoFromMysql(mysql_fill_data(rows))[i][rows[i][j].name] = rows[i][j].value
<1> DEFINE row == rows[i]
           data == mysql_fill_data(rows)
           list == data[i]
           f == row[j].name
           found == {h \in 1..(Len(list) - 1) :
                        list[h + 1].fieldName = f /\ list[h + 1].fieldValue # NoValue}
<1>1. row \in Row
  OBVIOUS
<1>2. Len(row) \in Nat /\ \A h, k \in 1..Len(row) : row[h].name = row[k].name => h = k
  BY <1>1, Columns DEF Row
<1>3. /\ Len(list) = Len(row) + 1
      /\ \A h \in 1..Len(row) : list[h + 1].fieldName = row[h].name
                              /\ list[h + 1].fieldValue = row[h].value
  BY ListShape
<1>4. i \in 1..Len(data)
  BY DEF mysql_fill_data
<1>5. pullSentInfoFromMysql(data)[i][f] =
        IF found = {} THEN NoValue ELSE list[(CHOOSE h \in found : TRUE) + 1].fieldValue
  BY <1>4 DEF pullSentInfoFromMysql
<1> HIDE DEF data, list
<1>6. found = {h \in 1..Len(row) : row[h].name = f /\ row[h].value # NoValue}
  BY <1>2, <1>3
<1>7. found = IF row[j].value = NoValue THEN {} ELSE {j}
  BY <1>2, <1>6
<1> HIDE DEF found, row
<1>8. j \in 1..Len(row)
  BY DEF row
<1>9. CASE row[j].value = NoValue
  BY <1>5, <1>7, <1>9 DEF row, data
<1>10. CASE row[j].value # NoValue
  <2>1. found = {j} /\ (CHOOSE h \in found : TRUE) = j
    BY <1>7, <1>10
  <2>2. pullSentInfoFromMysql(data)[i][f] = list[j + 1].fieldValue
    BY <1>5, <2>1
  <2> QED
    BY <1>3, <1>8, <2>2 DEF row, data
<1> QED
  BY <1>9, <1>10

\* Each field has its column.
LEMMA EveryField ==
    ASSUME NEW rows \in Seq(Row), NEW i \in 1..Len(rows), NEW f \in Fields
    PROVE  /\ pullSentInfoFromMysql(mysql_fill_data(rows))[i][f] \in Seq(1..255)
           /\ \E j \in 1..Len(rows[i]) :
                /\ rows[i][j].name = f
                /\ pullSentInfoFromMysql(mysql_fill_data(rows))[i][f] = rows[i][j].value
<1>1. rows[i] \in Row
  OBVIOUS
<1>2. PICK j \in 1..Len(rows[i]) : rows[i][j].name = f
  BY <1>1 DEF Row
<1>3. pullSentInfoFromMysql(mysql_fill_data(rows))[i][f] = rows[i][j].value
  BY <1>2, FieldOf
<1>4. rows[i][j].value \in Seq(1..255)
  BY <1>1, Columns
<1> QED
  BY <1>2, <1>3, <1>4

LEMMA Bytes == ASSUME NEW text \in Seq(1..255) PROVE text \in Seq(0..255)
OBVIOUS

\* Without a subject or a sender, and only then, the mail kills (sendMail.cpp:53-55).
LEMMA KillsIncomplete ==
    ASSUME NEW rows \in Seq(Row), NEW i \in 1..Len(rows)
    PROVE  Kills(pullSentInfoFromMysql(mysql_fill_data(rows))[i]) <=> Incomplete(rows[i])
<1> DEFINE mail == pullSentInfoFromMysql(mysql_fill_data(rows))[i]
           row == rows[i]
<1>1. \A f \in Fields : \E j \in 1..Len(row) : row[j].name = f /\ mail[f] = row[j].value
  BY EveryField
<1>2. \A j \in 1..Len(row) : row[j].name \in Fields => mail[row[j].name] = row[j].value
  BY FieldOf
<1>3. "subject" \in Fields /\ "sender" \in Fields
  BY DEF Fields
<1> HIDE DEF mail, row
<1>4. Kills(mail) <=> Incomplete(row)
  BY <1>1, <1>2, <1>3 DEF Kills, Incomplete
<1> QED
  BY <1>4 DEF mail, row

\* What sendmail is given is the row, decoded.
LEMMA MessageIs ==
    ASSUME NEW rows \in Seq(Row), NEW i \in 1..Len(rows)
    PROVE  IsMailOf(Message(pullSentInfoFromMysql(mysql_fill_data(rows))[i]), rows[i])
<1> DEFINE mail == pullSentInfoFromMysql(mysql_fill_data(rows))[i]
           row == rows[i]
<1>1. \A j \in 1..Len(row) : row[j].name \in Fields => mail[row[j].name] = row[j].value
  BY FieldOf
<1>2. \A f \in Fields : mail[f] \in Seq(1..255)
  BY EveryField
<1>3. DOMAIN mail = Fields
  <2> DEFINE data == mysql_fill_data(rows)
  <2>1. i \in 1..Len(data)
    BY DEF mysql_fill_data
  <2> HIDE DEF data
  <2>2. mail = [f \in Fields |-> pullSentInfoFromMysql(data)[i][f]]
    BY <2>1 DEF pullSentInfoFromMysql, data
  <2> QED
    BY <2>2
<1> HIDE DEF mail, row
<1>4. /\ Message(mail)["subject"] = base64_encode(mail["subject"])
      /\ Message(mail)["sender"] = base64_encode(mail["sender"])
      /\ Message(mail)["cc"] = mail["cc"]
      /\ \A f \in {"to", "from", "content"} : Message(mail)[f] = Printed(mail[f])
  BY <1>3 DEF Message, Fields
<1>5. \A f \in {"subject", "sender"} : base64_decode(Message(mail)[f]) = mail[f]
  <2>1. TAKE f \in {"subject", "sender"}
  <2>2. mail[f] \in Seq(0..255)
    BY <1>2, Bytes DEF Fields
  <2>3. base64_decode(base64_encode(mail[f])) = mail[f]
    BY <2>2, DecodeEncode
  <2>4. Message(mail)[f] = base64_encode(mail[f])
    BY <1>4
  <2> QED
    BY <2>3, <2>4
<1>6. \A f \in Fields \ {"subject", "sender"} :
        Message(mail)[f] = mail[f] \/ (mail[f] = NoValue /\ f # "cc")
  BY <1>4 DEF Fields, Printed
<1>7. ASSUME NEW j \in 1..Len(row)
      PROVE  LET value == row[j].value
             IN  CASE row[j].name \in {"subject", "sender"} ->
                        base64_decode(Message(mail)[row[j].name]) = value
                   [] row[j].name \in Fields \ {"subject", "sender"} ->
                        \/ Message(mail)[row[j].name] = value
                        \/ value = NoValue /\ row[j].name # "cc"
                   [] OTHER -> TRUE
  <2>1. CASE row[j].name \in {"subject", "sender"}
    <3>1. row[j].name \in Fields
      BY <2>1 DEF Fields
    <3>2. base64_decode(Message(mail)[row[j].name]) = row[j].value
      BY <1>1, <1>5, <2>1, <3>1
    <3> QED
      BY <2>1, <3>2
  <2>2. CASE row[j].name \in Fields \ {"subject", "sender"}
    <3>1. mail[row[j].name] = row[j].value
      BY <1>1, <2>2
    <3> QED
      BY <1>6, <2>2, <3>1
  <2>3. CASE row[j].name \notin Fields
    BY <2>3 DEF Fields
  <2> QED
    BY <2>1, <2>2, <2>3
<1>8. IsMailOf(Message(mail), row)
  BY <1>7 DEF IsMailOf
<1> QED
  BY <1>8 DEF mail, row

\* A round of a child, for all rows and wherever popen fails (worker.cpp:409-493).
THEOREM ChildRun ==
    ASSUME NEW rows \in Seq(Row), NEW popenFails \in SUBSET (1..Len(rows))
    PROVE  SentAsStored(OnChildRun(rows, popenFails), rows, popenFails)
<1> DEFINE data == mysql_fill_data(rows)
           queue == pullSentInfoFromMysql(data)
           kill == {i \in 1..Len(queue) : i \notin popenFails /\ Kills(queue[i])}
           mailed == {i \in 1..Len(queue) : i \notin popenFails /\ \A k \in kill : i < k}
           out == OnChildRun(rows, popenFails)
           started == 1..Len(rows) \ popenFails
           incomplete == {i \in started : Incomplete(rows[i])}
<1>1. Len(rows) \in Nat /\ Len(data) = Len(rows)
  BY DEF mysql_fill_data
<1>2. Len(queue) = Len(rows)
  BY <1>1 DEF pullSentInfoFromMysql
<1>3. kill = incomplete
  BY <1>2, KillsIncomplete
<1>4. /\ DOMAIN out.sent = mailed
      /\ \A i \in mailed : out.sent[i] = Message(queue[i])
      /\ out.killed = (kill # {})
      /\ out.freed = (\A i \in 1..Len(data) : FreedOnce(data, i))
  BY DEF OnChildRun
<1>5. mailed = {i \in started : \A k \in incomplete : i < k}
  BY <1>2, <1>3
<1>6. ASSUME NEW i \in mailed PROVE IsMailOf(out.sent[i], rows[i])
  <2>1. i \in 1..Len(rows)
    BY <1>2
  <2> QED
    BY <1>4, <2>1, MessageIs
<1>7. out.killed <=> incomplete # {}
  BY <1>3, <1>4
<1>8. ASSUME NEW i \in 1..Len(data) PROVE FreedOnce(data, i)
  <2>1. i \in 1..Len(rows)
    BY <1>1
  <2>2. rows[i] \in Row
    BY <2>1
  <2>3. Len(rows[i]) \in Nat /\ Len(data[i]) = Len(rows[i]) + 1
    BY <2>1, ListShape
  <2>4. Len(rows[i]) + 1 \in Nat \ {0}
    BY <2>3
  <2> HIDE DEF data
  <2> QED
    BY <2>3, <2>4, FreesMatch
<1>9. out.freed
  BY <1>4, <1>8
<1>10. DOMAIN out.sent = {i \in started : \A k \in incomplete : i < k}
  BY <1>4, <1>5
<1>11. \A i \in DOMAIN out.sent : IsMailOf(out.sent[i], rows[i])
  BY <1>4, <1>6
<1> HIDE DEF out
<1>12. SentAsStored(out, rows, popenFails)
  BY <1>7, <1>9, <1>10, <1>11, Zenon DEF SentAsStored
<1> QED
  BY <1>12 DEF out

\* What a child sends is what its rows hold, for every result of the select.
THEOREM MailCorrect == Calls => []MailAsStored
<1>1. NoCall => MailAsStored
  BY DEF NoCall, MailAsStored
<1>2. ASSUME MailAsStored, [OneCall]_callVars
      PROVE  MailAsStored'
  <2>1. CASE Pull
    <3>0. PICK rows \in Tables : \E popenFails \in SUBSET (1..Len(rows)) :
            input' = <<rows, popenFails>> /\ output' = OnChildRun(rows, popenFails)
      BY <2>1 DEF Pull
    <3>1. PICK popenFails \in SUBSET (1..Len(rows)) :
            input' = <<rows, popenFails>> /\ output' = OnChildRun(rows, popenFails)
      BY <3>0
    <3>2. rows \in Seq(Row)
      BY InputsTyped
    <3>3. SentAsStored(OnChildRun(rows, popenFails), rows, popenFails)
      BY <3>2, ChildRun
    <3>4. input'[1] = rows /\ input'[2] = popenFails
      BY <3>1
    <3> QED
      BY <3>1, <3>3, <3>4 DEF MailAsStored
  <2>2. CASE Record \/ LoadFile
    BY <2>2 DEF Record, LoadFile, MailAsStored
  <2>3. CASE UNCHANGED callVars
    BY <1>2, <2>3 DEF callVars, MailAsStored
  <2> QED
    BY <1>2, <2>1, <2>2, <2>3 DEF OneCall
<1> QED
  BY <1>1, <1>2, PTL DEF Calls
-----------------------------------------------------------------------------
(* Numbers and strings as bytes.                                           *)

\* The bytes of w stand in buf behind the first pos.
There(buf, pos, w) == \A j \in 1..Len(w) : buf[pos + j] = w[j]

\* Two sequences of bytes, one behind the other.
LEMMA Joined ==
    ASSUME NEW s \in Seq(Nat), NEW t \in Seq(Nat)
    PROVE  /\ s \o t \in Seq(Nat) /\ Len(s \o t) = Len(s) + Len(t)
           /\ \A i \in 1..Len(s) : (s \o t)[i] = s[i]
           /\ \A i \in 1..Len(t) : (s \o t)[Len(s) + i] = t[i]
  <1>1. Len(s) \in Nat /\ Len(t) \in Nat
    OBVIOUS
  <1>2. s \o t \in Seq(Nat) /\ Len(s \o t) = Len(s) + Len(t)
    OBVIOUS
  <1>3. ASSUME NEW i \in 1..Len(s)
        PROVE  (s \o t)[i] = s[i]
    BY <1>1
  <1>4. ASSUME NEW i \in 1..Len(t)
        PROVE  (s \o t)[Len(s) + i] = t[i]
    <2>1. Len(s) + i \in 1..(Len(s) + Len(t)) /\ ~(Len(s) + i <= Len(s))
          /\ (Len(s) + i) - Len(s) = i
      BY <1>1
    <2> QED
      BY <1>1, <2>1, ConcatProperties
  <1> QED
    BY <1>2, <1>3, <1>4, Zenon

\* It does not matter which two of three are joined first.
LEMMA JoinedTwice ==
    ASSUME NEW s \in Seq(Nat), NEW t \in Seq(Nat), NEW u \in Seq(Nat)
    PROVE  (s \o t) \o u = s \o (t \o u)
  BY SMTT(60)

\* The two bytes of a 16-bit number, and what they make.
LEMMA U16Bytes ==
    ASSUME NEW x \in Nat
    PROVE  /\ U16(x) \in Seq(Nat) /\ Len(U16(x)) = 2
           /\ U16(x)[1] \in Nat /\ U16(x)[2] \in Nat
           /\ 256 * U16(x)[1] + U16(x)[2] = x
  <1>1. x \div 256 \in Nat /\ x % 256 \in Nat /\ 256 * (x \div 256) + (x % 256) = x
    OBVIOUS
  <1>2. U16(x) = <<x \div 256, x % 256>>
    BY DEF U16
  <1> QED
    BY <1>1, <1>2

\* The same of the four bytes of a 32-bit number.
LEMMA U32Bytes ==
    ASSUME NEW x \in Nat
    PROVE  /\ U32(x) \in Seq(Nat) /\ Len(U32(x)) = 4
           /\ U32(x)[1] \in Nat /\ U32(x)[2] \in Nat /\ U32(x)[3] \in Nat /\ U32(x)[4] \in Nat
           /\ 65536 * (256 * U32(x)[1] + U32(x)[2]) + (256 * U32(x)[3] + U32(x)[4]) = x
  <1> DEFINE h == x \div 65536
             l == x % 65536
  <1>1. h \in Nat /\ l \in Nat /\ 65536 * h + l = x
    OBVIOUS
  <1>2. U32(x) = U16(h) \o U16(l)
    BY DEF U32
  <1> HIDE DEF h, l
  <1>3. /\ U16(h) \in Seq(Nat) /\ Len(U16(h)) = 2 /\ 256 * U16(h)[1] + U16(h)[2] = h
        /\ U16(l) \in Seq(Nat) /\ Len(U16(l)) = 2 /\ 256 * U16(l)[1] + U16(l)[2] = l
    BY <1>1, U16Bytes
  <1>4. /\ U32(x) \in Seq(Nat) /\ Len(U32(x)) = 4
        /\ U32(x)[1] = U16(h)[1] /\ U32(x)[2] = U16(h)[2]
        /\ U32(x)[3] = U16(l)[1] /\ U32(x)[4] = U16(l)[2]
    <2> DEFINE s == U16(h)
               t == U16(l)
    <2>1. U32(x) = s \o t /\ s \in Seq(Nat) /\ t \in Seq(Nat) /\ Len(s) = 2 /\ Len(t) = 2
      BY <1>2, <1>3
    <2> HIDE DEF s, t
    <2>2. /\ s \o t \in Seq(Nat) /\ Len(s \o t) = Len(s) + Len(t)
          /\ \A i \in 1..Len(s) : (s \o t)[i] = s[i]
          /\ \A i \in 1..Len(t) : (s \o t)[Len(s) + i] = t[i]
      BY <2>1, Joined, Zenon
    <2>3. /\ Len(s \o t) = 4 /\ (s \o t)[1] = s[1] /\ (s \o t)[2] = s[2]
          /\ (s \o t)[3] = t[1] /\ (s \o t)[4] = t[2]
      <3> DEFINE u == s \o t
      <3>1. Len(s) = 2 /\ Len(t) = 2
        BY <2>1
      <3>2. Len(u) = Len(s) + Len(t) /\ (\A i \in 1..Len(s) : u[i] = s[i])
            /\ (\A i \in 1..Len(t) : u[Len(s) + i] = t[i])
        BY <2>2
      <3> HIDE DEF u
      <3>3. Len(u) = 4 /\ u[1] = s[1] /\ u[2] = s[2] /\ u[2 + 1] = t[1] /\ u[2 + 2] = t[2]
        BY <3>1, <3>2
      <3> QED
        BY <3>3 DEF u
    <2> QED
      BY <2>1, <2>2, <2>3 DEF s, t
  <1>5. U16(h)[1] \in Nat /\ U16(h)[2] \in Nat /\ U16(l)[1] \in Nat /\ U16(l)[2] \in Nat
    BY <1>1, U16Bytes
  <1>6. U32(x)[1] \in Nat /\ U32(x)[2] \in Nat /\ U32(x)[3] \in Nat /\ U32(x)[4] \in Nat
    BY <1>4, <1>5
  <1>7. 65536 * (256 * U32(x)[1] + U32(x)[2]) + (256 * U32(x)[3] + U32(x)[4]) = x
    <2>1. 256 * U32(x)[1] + U32(x)[2] = h /\ 256 * U32(x)[3] + U32(x)[4] = l
      BY <1>3, <1>4
    <2> QED
      BY <1>1, <2>1
  <1> QED
    BY <1>4, <1>6, <1>7

\* Where two sequences stand, each of them stands.
LEMMA ConcatThere ==
    ASSUME NEW s \in Seq(Nat), NEW t \in Seq(Nat), NEW buf, NEW pos \in Nat,
           There(buf, pos, s \o t)
    PROVE  There(buf, pos, s) /\ There(buf, pos + Len(s), t)
  <1>1. Len(s \o t) = Len(s) + Len(t) /\ Len(s) \in Nat /\ Len(t) \in Nat
    OBVIOUS
  <1>2. ASSUME NEW j \in 1..Len(s)
        PROVE  buf[pos + j] = s[j]
    <2>1. j \in 1..Len(s \o t) /\ (s \o t)[j] = s[j]
      BY <1>1
    <2> QED
      BY <2>1 DEF There
  <1>3. ASSUME NEW j \in 1..Len(t)
        PROVE  buf[(pos + Len(s)) + j] = t[j]
    <2>1. Len(s) + j \in 1..Len(s \o t) /\ (s \o t)[Len(s) + j] = t[j]
      BY <1>1
    <2>2. pos + (Len(s) + j) = (pos + Len(s)) + j
      BY <1>1
    <2> QED
      BY <2>1, <2>2 DEF There
  <1> QED
    BY <1>2, <1>3 DEF There

\* A number that stands in a buffer is read as what it is.
LEMMA U16There ==
    ASSUME NEW x \in Nat, NEW buf, NEW pos \in Nat, There(buf, pos, U16(x))
    PROVE  U16At(buf, pos) = x
  <1>1. 1 \in 1..Len(U16(x)) /\ 2 \in 1..Len(U16(x))
    <2>1. Len(U16(x)) = 2
      BY U16Bytes
    <2> QED
      BY <2>1
  <1>2. buf[pos + 1] = U16(x)[1] /\ buf[pos + 2] = U16(x)[2]
    BY <1>1 DEF There
  <1> QED
    BY <1>2, U16Bytes DEF U16At

\* The same of 32 bits.
LEMMA U32There ==
    ASSUME NEW x \in Nat, NEW buf, NEW pos \in Nat, There(buf, pos, U32(x))
    PROVE  U32At(buf, pos) = x
  <1>1. 1 \in 1..Len(U32(x)) /\ 2 \in 1..Len(U32(x)) /\ 3 \in 1..Len(U32(x)) /\ 4 \in 1..Len(U32(x))
    <2>1. Len(U32(x)) = 4
      BY U32Bytes
    <2> QED
      BY <2>1
  <1>2. /\ buf[pos + 1] = U32(x)[1] /\ buf[pos + 2] = U32(x)[2]
        /\ buf[pos + 3] = U32(x)[3] /\ buf[pos + 4] = U32(x)[4]
    BY <1>1 DEF There
  <1>3. (pos + 2) + 1 = pos + 3 /\ (pos + 2) + 2 = pos + 4
    OBVIOUS
  <1>4. U32At(buf, pos) = 65536 * (256 * U32(x)[1] + U32(x)[2]) + (256 * U32(x)[3] + U32(x)[4])
    BY <1>2, <1>3 DEF U32At, U16At
  <1> QED
    BY <1>4, U32Bytes

\* A string is its length and its bytes.
LEMMA StringBytes ==
    ASSUME NEW t \in Seq(Nat)
    PROVE  WriteString(t) \in Seq(Nat) /\ Len(WriteString(t)) = 4 + Len(t)
  <1>1. Len(t) \in Nat
    OBVIOUS
  <1>2. U32(Len(t)) \in Seq(Nat) /\ Len(U32(Len(t))) = 4
    BY <1>1, U32Bytes
  <1> DEFINE l == U32(Len(t))
  <1>3. WriteString(t) = l \o t /\ l \in Seq(Nat) /\ Len(l) = 4
    BY <1>2 DEF WriteString
  <1> HIDE DEF l
  <1>4. l \o t \in Seq(Nat) /\ Len(l \o t) = Len(l) + Len(t)
    BY <1>3, Joined, Zenon
  <1> QED
    BY <1>3, <1>4

\* Bytes that stand in a buffer are read as the string they are.
LEMMA Extracted ==
    ASSUME NEW t \in Seq(Nat), NEW buf, NEW pos \in Nat, There(buf, pos, t)
    PROVE  SubSeq(buf, pos + 1, pos + Len(t)) = t
  <1> DEFINE s == SubSeq(buf, pos + 1, pos + Len(t))
  <1>1. Len(t) \in Nat
    OBVIOUS
  <1>2. \A i \in (pos + 1)..(pos + Len(t)) : buf[i] \in Nat
    <2> TAKE i \in (pos + 1)..(pos + Len(t))
    <2>1. i - pos \in 1..Len(t) /\ pos + (i - pos) = i
      BY <1>1
    <2>2. t[i - pos] \in Nat
      BY <2>1
    <2> QED
      BY <2>1, <2>2 DEF There
  <1>3. /\ s \in Seq(Nat)
        /\ Len(s) = IF pos + 1 <= pos + Len(t) THEN (pos + Len(t)) - (pos + 1) + 1 ELSE 0
        /\ \A i \in 1..((pos + Len(t)) - (pos + 1) + 1) : s[i] = buf[(pos + 1) + i - 1]
    <2>1. pos + 1 \in Int /\ pos + Len(t) \in Int
      BY <1>1
    <2> QED
      BY <1>2, <2>1, SubSeqProperties
  <1>4. Len(s) = Len(t)
    BY <1>1, <1>3
  <1>5. \A i \in 1..Len(s) : s[i] = t[i]
    <2> TAKE i \in 1..Len(s)
    <2>1. i \in 1..((pos + Len(t)) - (pos + 1) + 1) /\ (pos + 1) + i - 1 = pos + i /\ i \in 1..Len(t)
      BY <1>1, <1>4
    <2>2. buf[pos + i] = t[i]
      BY <2>1 DEF There
    <2> QED
      BY <1>3, <2>1, <2>2
  <1> HIDE DEF s
  <1>6. s = t
    BY <1>3, <1>4, <1>5, SeqEqual
  <1> QED
    BY <1>6 DEF s
-----------------------------------------------------------------------------
(* What a constructor has written and what ReadPdu takes it apart into.    *)

\* The three fields of the header that are read.
Headed(n, module, command) ==
    /\ Header(n, module, command) \in Seq(Nat)
    /\ Len(Header(n, module, command)) = 12
    /\ \A buf : There(buf, 0, Header(n, module, command)) =>
            U32At(buf, 0) = n /\ U16At(buf, 4) = module /\ U16At(buf, 6) = command

LEMMA HeaderBytes ==
    ASSUME NEW n \in Nat, NEW module \in Nat, NEW command \in Nat
    PROVE  Headed(n, module, command)
  <1> DEFINE a == U32(n)
             b == U16(module)
             c == U16(command)
             d == U16(IM_PDU_VERSION)
             e == U16(0)
  <1>1. /\ a \in Seq(Nat) /\ Len(a) = 4
        /\ b \in Seq(Nat) /\ Len(b) = 2 /\ c \in Seq(Nat) /\ Len(c) = 2
        /\ d \in Seq(Nat) /\ Len(d) = 2 /\ e \in Seq(Nat) /\ Len(e) = 2
    BY U16Bytes, U32Bytes DEF IM_PDU_VERSION
  <1>2. Header(n, module, command) = (((a \o b) \o c) \o d) \o e
    BY DEF Header
  <1>3. ASSUME NEW buf
        PROVE  /\ There(buf, 0, a) => U32At(buf, 0) = n
               /\ There(buf, 4, b) => U16At(buf, 4) = module
               /\ There(buf, 6, c) => U16At(buf, 6) = command
    BY U16There, U32There
  <1> HIDE DEF a, b, c, d, e
  <1>4. a \o b \in Seq(Nat) /\ Len(a \o b) = 6
    <2>1. a \o b \in Seq(Nat) /\ Len(a \o b) = Len(a) + Len(b)
      BY <1>1, Joined, Zenon
    <2> QED
      BY <1>1, <2>1
  <1>5. (a \o b) \o c \in Seq(Nat) /\ Len((a \o b) \o c) = 8
    <2>1. (a \o b) \o c \in Seq(Nat) /\ Len((a \o b) \o c) = Len(a \o b) + Len(c)
      BY <1>1, <1>4, Joined, Zenon
    <2> QED
      BY <1>1, <1>4, <2>1
  <1>6. ((a \o b) \o c) \o d \in Seq(Nat) /\ Len(((a \o b) \o c) \o d) = 10
    <2>1. ((a \o b) \o c) \o d \in Seq(Nat) /\ Len(((a \o b) \o c) \o d) = Len((a \o b) \o c) + Len(d)
      BY <1>1, <1>5, Joined, Zenon
    <2> QED
      BY <1>1, <1>5, <2>1
  <1>7. /\ (((a \o b) \o c) \o d) \o e \in Seq(Nat)
        /\ Len((((a \o b) \o c) \o d) \o e) = 12
    <2>1. /\ (((a \o b) \o c) \o d) \o e \in Seq(Nat)
          /\ Len((((a \o b) \o c) \o d) \o e) = Len(((a \o b) \o c) \o d) + Len(e)
      BY <1>1, <1>6, Joined, Zenon
    <2> QED
      BY <1>1, <1>6, <2>1
  <1>8. ASSUME NEW buf, There(buf, 0, (((a \o b) \o c) \o d) \o e)
        PROVE  There(buf, 0, a) /\ There(buf, 4, b) /\ There(buf, 6, c)
    <2>0. 0 \in Nat /\ 0 + 4 = 4 /\ 0 + 6 = 6
      OBVIOUS
    <2>1. There(buf, 0, ((a \o b) \o c) \o d)
      BY <1>1, <1>6, <1>8, <2>0, ConcatThere, Zenon
    <2>2. There(buf, 0, (a \o b) \o c)
      BY <1>1, <1>5, <2>0, <2>1, ConcatThere, Zenon
    <2>3. There(buf, 0, a \o b) /\ There(buf, 0 + 6, c)
      <3>1. There(buf, 0, a \o b) /\ There(buf, 0 + Len(a \o b), c)
        BY <1>1, <1>4, <2>0, <2>2, ConcatThere, Zenon
      <3> QED
        BY <1>4, <3>1, Zenon
    <2>4. There(buf, 0, a) /\ There(buf, 0 + 4, b)
      <3>1. There(buf, 0, a) /\ There(buf, 0 + Len(a), b)
        BY <1>1, <2>0, <2>3, ConcatThere, Zenon
      <3> QED
        BY <1>1, <3>1, Zenon
    <2> QED
      BY <2>0, <2>3, <2>4, Zenon
  <1> QED
    BY <1>2, <1>3, <1>7, <1>8, Zenon DEF Headed

\* A PDU in its buffer, all of it, or its header at least.
Framed(module, command, body) ==
    /\ Pdu(module, command, body) \in Seq(Nat)
    /\ Len(Pdu(module, command, body)) = 12 + Len(body)
    /\ \A buf : (\A j \in 1..12 : buf[j] = Pdu(module, command, body)[j]) =>
            /\ U32At(buf, 0) = 12 + Len(body)
            /\ U16At(buf, 4) = module /\ U16At(buf, 6) = command
    /\ \A buf : There(buf, 0, Pdu(module, command, body)) => There(buf, 12, body)

LEMMA PduBytes ==
    ASSUME NEW module \in Nat, NEW command \in Nat, NEW body \in Seq(Nat)
    PROVE  Framed(module, command, body)
  <1> DEFINE n == 12 + Len(body)
             h == Header(n, module, command)
  <1>1. Len(body) \in Nat /\ n \in Nat
    OBVIOUS
  <1>2. Pdu(module, command, body) = h \o body
    BY DEF Pdu, IM_PDU_HEADER_LEN
  <1> HIDE DEF n
  <1>3. /\ h \in Seq(Nat) /\ Len(h) = 12
        /\ \A buf : There(buf, 0, h) =>
                U32At(buf, 0) = n /\ U16At(buf, 4) = module /\ U16At(buf, 6) = command
    <2>1. Headed(n, module, command)
      BY <1>1, HeaderBytes, Zenon
    <2> QED
      BY <2>1, Zenon DEF Headed
  <1> HIDE DEF h
  <1>4. /\ h \o body \in Seq(Nat) /\ Len(h \o body) = Len(h) + Len(body)
        /\ \A i \in 1..Len(h) : (h \o body)[i] = h[i]
    BY <1>3, Joined, Zenon
  <1>5. ASSUME NEW buf, \A j \in 1..12 : buf[j] = (h \o body)[j]
        PROVE  There(buf, 0, h)
    <2>1. \A j \in 1..12 : buf[j] = h[j]
      BY <1>3, <1>4, <1>5, Zenon
    <2>2. \A j \in 1..12 : buf[0 + j] = h[j]
      BY <2>1
    <2> QED
      BY <1>3, <2>2, Zenon DEF There
  <1>6. ASSUME NEW buf, There(buf, 0, h \o body)
        PROVE  There(buf, 12, body)
    <2>1. 0 \in Nat /\ 0 + 12 = 12
      OBVIOUS
    <2>2. There(buf, 0 + Len(h), body)
      BY <1>3, <1>6, <2>1, ConcatThere, Zenon
    <2> QED
      BY <1>3, <2>1, <2>2, Zenon
  <1> QED
    BY <1>2, <1>3, <1>4, <1>5, <1>6, Zenon DEF n, Framed

\* What the two operators of the stream take out of b behind the first p bytes,
\* where there are bytes enough.
U16Taken(b, p, v, x, junk) ==
    GetU16([body |-> b, pos |-> p, vals |-> v], junk)
      = [body |-> b, pos |-> p + 2, vals |-> Append(v, x)]
StringTaken(b, p, v, t, junk) ==
    GetString([body |-> b, pos |-> p, vals |-> v], junk)
      = [body |-> b, pos |-> Len(b), vals |-> Append(v, t)]

LEMMA GetU16Is ==
    ASSUME NEW b, NEW p \in Nat, NEW v, NEW x \in Nat, NEW junk,
           p + 2 <= Len(b), There(b, p, U16(x))
    PROVE  U16Taken(b, p, v, x, junk)
  <1>1. U16At(b, p) = x
    BY U16There
  <1>2. ~(p + 2 > Len(b))
    OBVIOUS
  <1> QED
    BY <1>1, <1>2 DEF GetU16, U16Taken

LEMMA GetStringIs ==
    ASSUME NEW b \in Seq(Nat), NEW p \in Nat, NEW v, NEW t \in Seq(Nat), NEW junk,
           Len(b) = p + (4 + Len(t)), There(b, p, WriteString(t))
    PROVE  StringTaken(b, p, v, t, junk)
  <1> DEFINE l == U32(Len(t))
  <1>1. l \in Seq(Nat) /\ Len(l) = 4 /\ Len(t) \in Nat
    BY U32Bytes
  <1>2. There(b, p, l) /\ There(b, p + 4, t)
    <2>1. There(b, p, l) /\ There(b, p + Len(l), t)
      BY <1>1, ConcatThere, Zenon DEF WriteString
    <2> QED
      BY <1>1, <2>1, Zenon
  <1>3. U32At(b, p) = Len(t)
    BY <1>1, <1>2, U32There, Zenon
  <1>4. SubSeq(b, (p + 4) + 1, (p + 4) + Len(t)) = t
    <2>1. p + 4 \in Nat
      OBVIOUS
    <2> QED
      BY <1>2, <2>1, Extracted
  <1>5. /\ ~(p + 4 > Len(b)) /\ (p + 4) + Len(t) = Len(b)
        /\ ~((p + 4) + Len(t) > Len(b))
    BY <1>1
  <1> DEFINE is == [body |-> b, pos |-> p, vals |-> v]
  <1>6. /\ is.body = b /\ is.pos = p /\ is.vals = v
        /\ is \in [body : {b}, pos : {p, Len(b)}, vals : {v, Append(v, t)}]
    OBVIOUS
  <1> HIDE DEF is
  <1> DEFINE x == [is EXCEPT !.pos = Len(b), !.vals = Append(v, t)]
  <1>7. GetString(is, junk) = x
    BY <1>3, <1>4, <1>5, <1>6 DEF GetString
  <1>8. /\ x \in [body : {b}, pos : {p, Len(b)}, vals : {v, Append(v, t)}]
        /\ x.body = b /\ x.pos = Len(b) /\ x.vals = Append(v, t)
    BY <1>6
  <1> HIDE DEF x
  <1>9. x = [body |-> b, pos |-> Len(b), vals |-> Append(v, t)]
    BY <1>8
  <1> QED
    BY <1>7, <1>9, Zenon DEF is, StringTaken
-----------------------------------------------------------------------------
(* The body of every class is read back.                                   *)

\* A reader that has used its whole body has read it.
LEMMA ParsedAll ==
    ASSUME NEW type, NEW b, NEW v
    PROVE  Parsed(type, [body |-> b, pos |-> Len(b), vals |-> v]) = [type |-> type, args |-> v]
  BY DEF Parsed

\* A sequence stands at its own beginning.
LEMMA Whole ==
    ASSUME NEW w \in Seq(Nat)
    PROVE  There(w, 0, w)
  BY DEF There

\* A body that is one number.
LEMMA NumberBack ==
    ASSUME NEW x \in Nat, NEW junk
    PROVE  GetU16(Stream(U16(x)), junk) = [body |-> U16(x), pos |-> Len(U16(x)), vals |-> <<x>>]
  <1> DEFINE b == U16(x)
  <1>1. b \in Seq(Nat) /\ Len(b) = 2
    BY U16Bytes
  <1>2. There(b, 0, U16(x))
    BY <1>1, Whole, Zenon
  <1> HIDE DEF b
  <1>3. 0 \in Nat /\ 0 + 2 <= Len(b) /\ 0 + 2 = Len(b)
    BY <1>1
  <1>4. GetU16([body |-> b, pos |-> 0, vals |-> <<>>], junk)
          = [body |-> b, pos |-> 0 + 2, vals |-> Append(<<>>, x)]
    <2>1. U16Taken(b, 0, <<>>, x, junk)
      BY <1>2, <1>3, GetU16Is, Zenon
    <2> QED
      BY <2>1, Zenon DEF U16Taken
  <1>5. Append(<<>>, x) = <<x>>
    OBVIOUS
  <1> QED
    BY <1>3, <1>4, <1>5, Zenon DEF Stream, b

\* A body that is one string.
LEMMA TextBack ==
    ASSUME NEW t \in Seq(Nat), NEW junk
    PROVE  /\ WriteString(t) # <<>>
           /\ GetString(Stream(WriteString(t)), junk)
                = [body |-> WriteString(t), pos |-> Len(WriteString(t)), vals |-> <<t>>]
  <1> DEFINE b == WriteString(t)
  <1>1. b \in Seq(Nat) /\ Len(b) = 4 + Len(t) /\ Len(t) \in Nat
    BY StringBytes
  <1>2. There(b, 0, WriteString(t))
    BY <1>1, Whole, Zenon
  <1> HIDE DEF b
  <1>3. 0 \in Nat /\ Len(b) = 0 + (4 + Len(t)) /\ b # <<>>
    BY <1>1
  <1>4. GetString([body |-> b, pos |-> 0, vals |-> <<>>], junk)
          = [body |-> b, pos |-> Len(b), vals |-> Append(<<>>, t)]
    <2>1. StringTaken(b, 0, <<>>, t, junk)
      BY <1>1, <1>2, <1>3, GetStringIs, Zenon
    <2> QED
      BY <2>1, Zenon DEF StringTaken
  <1>5. Append(<<>>, t) = <<t>>
    OBVIOUS
  <1> QED
    BY <1>3, <1>4, <1>5, Zenon DEF Stream, b

\* A list of two.
LEMMA AppendTwo ==
    ASSUME NEW x, NEW y
    PROVE  Append(Append(<<>>, x), y) = <<x, y>>
  <1> DEFINE S == {x, y}
             s == Append(<<x>>, y)
  <1>1. Append(<<>>, x) = <<x>>
    OBVIOUS
  <1>2. <<x, y>> \in Seq(S) /\ Len(<<x, y>>) = 2
    OBVIOUS
  <1>3. s \in Seq(S) /\ Len(s) = 2 /\ s[1] = x /\ s[2] = y
    OBVIOUS
  <1>4. \A i \in 1..Len(s) : s[i] = <<x, y>>[i]
    BY <1>3
  <1> HIDE DEF s, S
  <1>5. s = <<x, y>>
    BY <1>2, <1>3, <1>4, SeqEqual
  <1> QED
    BY <1>1, <1>5, Zenon DEF s

\* Two numbers, as in an ADJUST_RATE.
LEMMA NumbersBack ==
    ASSUME NEW x \in Nat, NEW y \in Nat, NEW junk
    PROVE  /\ U16(x) \o U16(y) \in Seq(Nat)
           /\ GetU16(GetU16(Stream(U16(x) \o U16(y)), junk), junk)
                = [body |-> U16(x) \o U16(y), pos |-> Len(U16(x) \o U16(y)), vals |-> <<x, y>>]
  <1> DEFINE s == U16(x)
             t == U16(y)
             b == s \o t
  <1>1. s \in Seq(Nat) /\ Len(s) = 2 /\ t \in Seq(Nat) /\ Len(t) = 2
    BY U16Bytes
  <1> HIDE DEF s, t
  <1>2. b \in Seq(Nat) /\ Len(b) = Len(s) + Len(t)
    BY <1>1, Joined, Zenon
  <1>3. There(b, 0, s) /\ There(b, 0 + Len(s), t)
    <2>1. There(b, 0, s \o t) /\ 0 \in Nat
      BY <1>2, Whole, Zenon
    <2> QED
      BY <1>1, <2>1, ConcatThere, Zenon
  <1> HIDE DEF b
  <1>4. /\ 0 \in Nat /\ 2 \in Nat /\ 0 + 2 = 2 /\ 0 + 2 <= Len(b) /\ 2 + 2 <= Len(b)
        /\ 2 + 2 = Len(b) /\ 0 + Len(s) = 2
    BY <1>1, <1>2
  <1>5. GetU16([body |-> b, pos |-> 0, vals |-> <<>>], junk)
          = [body |-> b, pos |-> 2, vals |-> Append(<<>>, x)]
    <2>1. There(b, 0, U16(x))
      BY <1>3, Zenon DEF s
    <2>2. U16Taken(b, 0, <<>>, x, junk)
      BY <1>4, <2>1, GetU16Is, Zenon
    <2> QED
      BY <1>4, <2>2, Zenon DEF U16Taken
  <1>6. GetU16([body |-> b, pos |-> 2, vals |-> Append(<<>>, x)], junk)
          = [body |-> b, pos |-> 2 + 2, vals |-> Append(Append(<<>>, x), y)]
    <2>1. There(b, 2, U16(y))
      BY <1>3, <1>4, Zenon DEF t
    <2>2. U16Taken(b, 2, Append(<<>>, x), y, junk)
      BY <1>4, <2>1, GetU16Is, Zenon
    <2> QED
      BY <2>2, Zenon DEF U16Taken
  <1>7. Append(Append(<<>>, x), y) = <<x, y>>
    BY AppendTwo
  <1>8. GetU16(GetU16(Stream(b), junk), junk) = [body |-> b, pos |-> Len(b), vals |-> <<x, y>>]
    BY <1>4, <1>5, <1>6, <1>7, Zenon DEF Stream
  <1> QED
    BY <1>2, <1>8, Zenon DEF b, s, t

\* A number and a string, as in a response.
LEMMA NumberTextBack ==
    ASSUME NEW x \in Nat, NEW y \in Seq(Nat), NEW junk
    PROVE  /\ U16(x) \o WriteString(y) \in Seq(Nat)
           /\ GetString(GetU16(Stream(U16(x) \o WriteString(y)), junk), junk)
                = [body |-> U16(x) \o WriteString(y), pos |-> Len(U16(x) \o WriteString(y)),
                   vals |-> <<x, y>>]
  <1> DEFINE s == U16(x)
             t == WriteString(y)
             b == s \o t
  <1>1. s \in Seq(Nat) /\ Len(s) = 2 /\ t \in Seq(Nat) /\ Len(t) = 4 + Len(y) /\ Len(y) \in Nat
    <2>1. s \in Seq(Nat) /\ Len(s) = 2
      BY U16Bytes
    <2>2. t \in Seq(Nat) /\ Len(t) = 4 + Len(y)
      BY StringBytes
    <2>3. Len(y) \in Nat
      OBVIOUS
    <2> QED
      BY <2>1, <2>2, <2>3, Zenon
  <1> HIDE DEF s, t
  <1>2. b \in Seq(Nat) /\ Len(b) = Len(s) + Len(t)
    BY <1>1, Joined, Zenon
  <1>3. There(b, 0, s) /\ There(b, 0 + Len(s), t)
    <2>1. There(b, 0, s \o t) /\ 0 \in Nat
      BY <1>2, Whole, Zenon
    <2> QED
      BY <1>1, <2>1, ConcatThere, Zenon
  <1> HIDE DEF b
  <1>4. /\ 0 \in Nat /\ 2 \in Nat /\ 0 + 2 = 2 /\ 0 + 2 <= Len(b)
        /\ Len(b) = 2 + (4 + Len(y)) /\ 0 + Len(s) = 2
    BY <1>1, <1>2
  <1>5. GetU16([body |-> b, pos |-> 0, vals |-> <<>>], junk)
          = [body |-> b, pos |-> 2, vals |-> Append(<<>>, x)]
    <2>1. There(b, 0, U16(x))
      BY <1>3, Zenon DEF s
    <2>2. U16Taken(b, 0, <<>>, x, junk)
      BY <1>4, <2>1, GetU16Is, Zenon
    <2> QED
      BY <1>4, <2>2, Zenon DEF U16Taken
  <1>6. GetString([body |-> b, pos |-> 2, vals |-> Append(<<>>, x)], junk)
          = [body |-> b, pos |-> Len(b), vals |-> Append(Append(<<>>, x), y)]
    <2>1. There(b, 2, WriteString(y))
      BY <1>3, <1>4, Zenon DEF t
    <2>2. StringTaken(b, 2, Append(<<>>, x), y, junk)
      BY <1>2, <1>4, <2>1, GetStringIs, Zenon
    <2> QED
      BY <2>2, Zenon DEF StringTaken
  <1>7. Append(Append(<<>>, x), y) = <<x, y>>
    BY AppendTwo
  <1>8. GetString(GetU16(Stream(b), junk), junk) = [body |-> b, pos |-> Len(b), vals |-> <<x, y>>]
    BY <1>5, <1>6, <1>7, Zenon DEF Stream
  <1> QED
    BY <1>2, <1>8, Zenon DEF b, s, t

\* No body.
LEMMA NothingBack == Stream(<<>>) = [body |-> <<>>, pos |-> Len(<<>>), vals |-> <<>>]
  BY DEF Stream
-----------------------------------------------------------------------------
(* Every object is read as what ReadAs says it may be taken for.           *)

\* What ReadPdu does by the ids in the header.
ReadBody(module, command, body, junk) ==
    CASE module = SID_COMMAND -> ReadPduCommand(command, body, junk)
      [] module = SID_MSG -> ReadPduMsg(command, body, junk)
      [] module = SID_OTHER -> ReadPduOther(command, body, junk)
      [] OTHER -> Refused("wrong service id")

RoundTrip(obj, module, command, body) ==
    /\ Written(obj) = Pdu(module, command, body)
    /\ module \in Nat /\ command \in Nat /\ body \in Seq(Nat)
    /\ obj.type # "refused"
    /\ \A junk : ReadBody(module, command, body, junk) = obj

\* What the stream needs of an object.
Legible(obj, module, command, body) ==
    /\ Written(obj) = Pdu(module, command, body)
    /\ module \in Nat /\ command \in Nat /\ body \in Seq(Nat)
    /\ \A junk \in Junk : ReadBody(module, command, body, junk) \in ReadAs(obj)
    /\ \A o \in ReadAs(obj) : o.type # "refused"

\* What the fields may hold.
LEMMA FieldTypes ==
    /\ \A n \in Numbers : n \in Nat
    /\ \A t \in Texts : t \in Seq(Nat)
    /\ \A c \in Orders : c \in Nat
    /\ <<>> \in Seq(Nat)
  <1>1. ASSUME NEW t \in Texts
        PROVE  t \in Seq(Nat)
    <2>1. t \in Seq(0..255)
      BY CodecConstants
    <2>2. 0..255 \subseteq Nat
      OBVIOUS
    <2> QED
      BY <2>1, <2>2, SeqMonotonic
  <1>2. \A n \in Numbers : n \in Nat
    BY CodecConstants
  <1>3. \A c \in Orders : c \in Nat
    BY DEF Orders, START, STOP, PAUSE, RESUME
  <1>4. <<>> \in Seq(Nat)
    OBVIOUS
  <1> QED
    BY <1>1, <1>2, <1>3, <1>4, Zenon

\* The ids of each class lead to its reader (ImPduBase.cpp:81-174).
LEMMA Dispatch ==
    ASSUME NEW body, NEW junk
    PROVE  /\ \A c \in Orders : ReadBody(SID_COMMAND, c, body, junk) = ReadServerCommand(body, junk)
           /\ ReadBody(SID_COMMAND, ADJUST_RATE, body, junk) = ReadAdjustRate(body, junk)
           /\ ReadBody(SID_MSG, DATA, body, junk) = ReadClientData(body, junk)
           /\ ReadBody(SID_MSG, SERVER_STATUS_INFO, body, junk) = ReadServerStatusInfo(body, junk)
           /\ ReadBody(SID_MSG, ALL_CLIENT_STATUS_INFO, body, junk) = ReadAllClientStatusInfo(body)
           /\ ReadBody(SID_OTHER, HEARTBEAT, body, junk) = ReadHeartbeat(body, junk)
           /\ ReadBody(SID_OTHER, RESPONSE, body, junk) = ReadResponse(body, junk)
           /\ ReadBody(SID_OTHER, REG_CLIENT_TYPE, body, junk) = ReadRegClientType(body, junk)
  <1>1. ASSUME NEW c
        PROVE  /\ ReadBody(SID_COMMAND, c, body, junk) = ReadPduCommand(c, body, junk)
               /\ ReadBody(SID_MSG, c, body, junk) = ReadPduMsg(c, body, junk)
               /\ ReadBody(SID_OTHER, c, body, junk) = ReadPduOther(c, body, junk)
    BY DEF ReadBody, SID_COMMAND, SID_MSG, SID_OTHER
  <1>2. /\ \A c \in Orders : ReadPduCommand(c, body, junk) = ReadServerCommand(body, junk)
        /\ ReadPduCommand(ADJUST_RATE, body, junk) = ReadAdjustRate(body, junk)
    BY DEF ReadPduCommand, ADJUST_RATE, Orders, START, STOP, PAUSE, RESUME
  <1>3. /\ ReadPduMsg(DATA, body, junk) = ReadClientData(body, junk)
        /\ ReadPduMsg(SERVER_STATUS_INFO, body, junk) = ReadServerStatusInfo(body, junk)
        /\ ReadPduMsg(ALL_CLIENT_STATUS_INFO, body, junk) = ReadAllClientStatusInfo(body)
    BY DEF ReadPduMsg, DATA, SERVER_STATUS_INFO, ALL_CLIENT_STATUS_INFO
  <1>4. /\ ReadPduOther(HEARTBEAT, body, junk) = ReadHeartbeat(body, junk)
        /\ ReadPduOther(RESPONSE, body, junk) = ReadResponse(body, junk)
        /\ ReadPduOther(REG_CLIENT_TYPE, body, junk) = ReadRegClientType(body, junk)
    BY DEF ReadPduOther, HEARTBEAT, RESPONSE, REG_CLIENT_TYPE, CLIENT_DONE
  <1> QED
    BY <1>1, <1>2, <1>3, <1>4, Zenon

\* Class by class: what the constructor writes, the reader reads.
LEMMA ServerCommandBack ==
    ASSUME NEW obj \in CImPduServerCommand
    PROVE  \E m, c, b : RoundTrip(obj, m, c, b)
  <1>1. PICK c \in Orders : obj = [type |-> "server command", args |-> <<c>>]
    BY DEF CImPduServerCommand
  <1>2. c \in Nat /\ U16(c) \in Seq(Nat)
    BY FieldTypes, U16Bytes
  <1>3. obj.type = "server command" /\ obj.args[1] = c
    BY <1>1
  <1>4. Written(obj) = Pdu(SID_COMMAND, c, U16(c))
    BY <1>3 DEF Written, ServerCommand
  <1>5. ASSUME NEW junk
        PROVE  ReadBody(SID_COMMAND, c, U16(c), junk) = obj
    <2>1. ReadBody(SID_COMMAND, c, U16(c), junk) = ReadServerCommand(U16(c), junk)
      BY Dispatch, Zenon
    <2>2. ReadServerCommand(U16(c), junk)
            = Parsed("server command", [body |-> U16(c), pos |-> Len(U16(c)), vals |-> <<c>>])
      BY <1>2, NumberBack, Zenon DEF ReadServerCommand
    <2> QED
      BY <1>1, <2>1, <2>2, ParsedAll, Zenon
  <1>6. SID_COMMAND \in Nat
    BY DEF SID_COMMAND
  <1>7. RoundTrip(obj, SID_COMMAND, c, U16(c))
    BY <1>2, <1>3, <1>4, <1>5, <1>6 DEF RoundTrip
  <1> QED
    BY <1>7

\* Two numbers.
LEMMA AdjustRateBack ==
    ASSUME NEW obj \in CImPduAdjustRate
    PROVE  \E m, c, b : RoundTrip(obj, m, c, b)
  <1>1. PICK args \in Numbers \X Numbers : obj = [type |-> "adjust rate", args |-> args]
    BY DEF CImPduAdjustRate
  <1>2. PICK x \in Numbers, y \in Numbers : args = <<x, y>>
    <2>1. args[1] \in Numbers /\ args[2] \in Numbers /\ args = <<args[1], args[2]>>
      OBVIOUS
    <2> QED
      BY <2>1, Zenon
  <1> DEFINE body == U16(x) \o U16(y)
  <1>3. x \in Nat /\ y \in Nat /\ body \in Seq(Nat)
    BY FieldTypes, NumbersBack, Zenon
  <1>4. obj.type = "adjust rate" /\ obj.args[1] = x /\ obj.args[2] = y
    BY <1>1, <1>2
  <1>5. Written(obj) = Pdu(SID_COMMAND, ADJUST_RATE, body)
    BY <1>4 DEF Written, AdjustRate
  <1>6. ASSUME NEW junk
        PROVE  ReadBody(SID_COMMAND, ADJUST_RATE, body, junk) = obj
    <2>1. ReadBody(SID_COMMAND, ADJUST_RATE, body, junk) = ReadAdjustRate(body, junk)
      BY Dispatch, Zenon
    <2>2. ReadAdjustRate(body, junk)
            = Parsed("adjust rate", [body |-> body, pos |-> Len(body), vals |-> <<x, y>>])
      BY <1>3, NumbersBack, Zenon DEF ReadAdjustRate
    <2> QED
      BY <1>1, <1>2, <2>1, <2>2, ParsedAll, Zenon
  <1>7. SID_COMMAND \in Nat /\ ADJUST_RATE \in Nat
    BY DEF SID_COMMAND, ADJUST_RATE
  <1> HIDE DEF body
  <1>8. RoundTrip(obj, SID_COMMAND, ADJUST_RATE, body)
    BY <1>3, <1>4, <1>5, <1>6, <1>7 DEF RoundTrip
  <1> QED
    BY <1>8

\* A text.
LEMMA ClientDataBack ==
    ASSUME NEW obj \in CImPduClientData
    PROVE  \E m, c, b : RoundTrip(obj, m, c, b)
  <1>1. PICK t \in Texts : obj = [type |-> "data", args |-> <<t>>]
    BY DEF CImPduClientData
  <1> DEFINE body == WriteString(t)
  <1>2. t \in Seq(Nat) /\ body \in Seq(Nat)
    BY FieldTypes, StringBytes
  <1>3. obj.type = "data" /\ obj.args[1] = t
    BY <1>1
  <1>4. Written(obj) = Pdu(SID_MSG, DATA, body)
    BY <1>3 DEF Written, ClientData
  <1>5. ASSUME NEW junk
        PROVE  ReadBody(SID_MSG, DATA, body, junk) = obj
    <2>1. ReadBody(SID_MSG, DATA, body, junk) = ReadClientData(body, junk)
      BY Dispatch, Zenon
    <2>2. ReadClientData(body, junk)
            = Parsed("data", [body |-> body, pos |-> Len(body), vals |-> <<t>>])
      BY <1>2, TextBack, Zenon DEF ReadClientData
    <2> QED
      BY <1>1, <2>1, <2>2, ParsedAll, Zenon
  <1>6. SID_MSG \in Nat /\ DATA \in Nat
    BY DEF SID_MSG, DATA
  <1> HIDE DEF body
  <1>7. RoundTrip(obj, SID_MSG, DATA, body)
    BY <1>2, <1>3, <1>4, <1>5, <1>6 DEF RoundTrip
  <1> QED
    BY <1>7

\* A number and a text.
LEMMA ResponseBack ==
    ASSUME NEW obj \in CImPduResponse
    PROVE  \E m, c, b : RoundTrip(obj, m, c, b)
  <1>1. PICK args \in Numbers \X Texts : obj = [type |-> "response", args |-> args]
    BY DEF CImPduResponse
  <1>2. PICK x \in Numbers, y \in Texts : args = <<x, y>>
    <2>1. args[1] \in Numbers /\ args[2] \in Texts /\ args = <<args[1], args[2]>>
      OBVIOUS
    <2> QED
      BY <2>1, Zenon
  <1> DEFINE body == U16(x) \o WriteString(y)
  <1>3. x \in Nat /\ y \in Seq(Nat) /\ body \in Seq(Nat)
    BY FieldTypes, NumberTextBack, Zenon
  <1>4. obj.type = "response" /\ obj.args[1] = x /\ obj.args[2] = y
    BY <1>1, <1>2
  <1>5. Written(obj) = Pdu(SID_OTHER, RESPONSE, body)
    BY <1>4 DEF Written, Response
  <1>6. ASSUME NEW junk
        PROVE  ReadBody(SID_OTHER, RESPONSE, body, junk) = obj
    <2>1. ReadBody(SID_OTHER, RESPONSE, body, junk) = ReadResponse(body, junk)
      BY Dispatch, Zenon
    <2>2. ReadResponse(body, junk)
            = Parsed("response", [body |-> body, pos |-> Len(body), vals |-> <<x, y>>])
      BY <1>3, NumberTextBack, Zenon DEF ReadResponse
    <2> QED
      BY <1>1, <1>2, <2>1, <2>2, ParsedAll, Zenon
  <1>7. SID_OTHER \in Nat /\ RESPONSE \in Nat
    BY DEF SID_OTHER, RESPONSE
  <1> HIDE DEF body
  <1>8. RoundTrip(obj, SID_OTHER, RESPONSE, body)
    BY <1>3, <1>4, <1>5, <1>6, <1>7 DEF RoundTrip
  <1> QED
    BY <1>8

\* A number.
LEMMA RegClientTypeBack ==
    ASSUME NEW obj \in CImPduRegClientType
    PROVE  \E m, c, b : RoundTrip(obj, m, c, b)
  <1>1. PICK n \in Numbers : obj = [type |-> "reg client type", args |-> <<n>>]
    BY DEF CImPduRegClientType
  <1>2. n \in Nat /\ U16(n) \in Seq(Nat)
    BY FieldTypes, U16Bytes
  <1>3. obj.type = "reg client type" /\ obj.args[1] = n
    BY <1>1
  <1>4. Written(obj) = Pdu(SID_OTHER, REG_CLIENT_TYPE, U16(n))
    BY <1>3 DEF Written, RegClientType
  <1>5. ASSUME NEW junk
        PROVE  ReadBody(SID_OTHER, REG_CLIENT_TYPE, U16(n), junk) = obj
    <2>1. ReadBody(SID_OTHER, REG_CLIENT_TYPE, U16(n), junk) = ReadRegClientType(U16(n), junk)
      BY Dispatch, Zenon
    <2>2. ReadRegClientType(U16(n), junk)
            = Parsed("reg client type", [body |-> U16(n), pos |-> Len(U16(n)), vals |-> <<n>>])
      BY <1>2, NumberBack, Zenon DEF ReadRegClientType
    <2> QED
      BY <1>1, <2>1, <2>2, ParsedAll, Zenon
  <1>6. SID_OTHER \in Nat /\ REG_CLIENT_TYPE \in Nat
    BY DEF SID_OTHER, REG_CLIENT_TYPE
  <1>7. RoundTrip(obj, SID_OTHER, REG_CLIENT_TYPE, U16(n))
    BY <1>2, <1>3, <1>4, <1>5, <1>6 DEF RoundTrip
  <1> QED
    BY <1>7

\* A request without a body.
LEMMA AllClientStatusBack ==
    ASSUME NEW obj \in CImPduAllClientStatusInfo
    PROVE  \E m, c, b : RoundTrip(obj, m, c, b)
  <1>1. obj = [type |-> "all client status", args |-> <<>>]
    BY DEF CImPduAllClientStatusInfo
  <1>2. obj.type = "all client status"
    BY <1>1
  <1>3. Written(obj) = Pdu(SID_MSG, ALL_CLIENT_STATUS_INFO, <<>>)
    BY <1>2 DEF Written
  <1>4. ASSUME NEW junk
        PROVE  ReadBody(SID_MSG, ALL_CLIENT_STATUS_INFO, <<>>, junk) = obj
    <2>1. ReadBody(SID_MSG, ALL_CLIENT_STATUS_INFO, <<>>, junk) = ReadAllClientStatusInfo(<<>>)
      BY Dispatch, Zenon
    <2> QED
      BY <1>1, <2>1, NothingBack, ParsedAll, Zenon DEF ReadAllClientStatusInfo
  <1>5. SID_MSG \in Nat /\ ALL_CLIENT_STATUS_INFO \in Nat
    BY DEF SID_MSG, ALL_CLIENT_STATUS_INFO
  <1>6. RoundTrip(obj, SID_MSG, ALL_CLIENT_STATUS_INFO, <<>>)
    BY <1>2, <1>3, <1>4, <1>5, FieldTypes DEF RoundTrip
  <1> QED
    BY <1>6

\* A request without a body, or an answer with a text.
LEMMA ServerStatusBack ==
    ASSUME NEW obj \in CImPduServerStatusInfo
    PROVE  \E m, c, b : RoundTrip(obj, m, c, b)
  <1>1. PICK args \in {<<>>} \cup {<<t>> : t \in Texts} : obj = [type |-> "server status", args |-> args]
    BY DEF CImPduServerStatusInfo
  <1>2. obj.type = "server status" /\ obj.args = args
    BY <1>1
  <1>3. SID_MSG \in Nat /\ SERVER_STATUS_INFO \in Nat
    BY DEF SID_MSG, SERVER_STATUS_INFO
  <1>4. ASSUME NEW body, NEW junk
        PROVE  ReadBody(SID_MSG, SERVER_STATUS_INFO, body, junk) = ReadServerStatusInfo(body, junk)
    BY Dispatch, Zenon
  <1>5. CASE args = <<>>
    <2>1. Written(obj) = Pdu(SID_MSG, SERVER_STATUS_INFO, <<>>)
      BY <1>2, <1>5 DEF Written, StatusRequest
    <2>2. ASSUME NEW junk
          PROVE  ReadServerStatusInfo(<<>>, junk) = obj
      BY <1>1, <1>5, NothingBack, ParsedAll, Zenon DEF ReadServerStatusInfo
    <2>3. RoundTrip(obj, SID_MSG, SERVER_STATUS_INFO, <<>>)
      BY <1>2, <1>3, <1>4, <2>1, <2>2, FieldTypes DEF RoundTrip
    <2> QED
      BY <2>3
  <1>6. ASSUME NEW t \in Texts, args = <<t>>
        PROVE  \E m, c, b : RoundTrip(obj, m, c, b)
    <2> DEFINE body == WriteString(t)
    <2>1. t \in Seq(Nat) /\ body \in Seq(Nat)
      BY FieldTypes, StringBytes
    <2>2. obj.args # <<>> /\ obj.args[1] = t
      <3>1. <<t>> # <<>> /\ <<t>>[1] = t
        OBVIOUS
      <3> QED
        BY <1>2, <1>6, <3>1, Zenon
    <2>3. Written(obj) = Pdu(SID_MSG, SERVER_STATUS_INFO, body)
      BY <1>2, <2>2 DEF Written, ServerStatusInfo
    <2>4. ASSUME NEW junk
          PROVE  ReadServerStatusInfo(body, junk) = obj
      <3>1. ReadServerStatusInfo(body, junk)
              = Parsed("server status", [body |-> body, pos |-> Len(body), vals |-> <<t>>])
        BY <2>1, TextBack, Zenon DEF ReadServerStatusInfo
      <3> QED
        BY <1>1, <1>6, <3>1, ParsedAll, Zenon
    <2> HIDE DEF body
    <2>5. RoundTrip(obj, SID_MSG, SERVER_STATUS_INFO, body)
      BY <1>2, <1>3, <1>4, <2>1, <2>3, <2>4 DEF RoundTrip
    <2> QED
      BY <2>5
  <1> QED
    BY <1>1, <1>5, <1>6

\* The server's without a body, a client's with its report.
LEMMA HeartbeatBack ==
    ASSUME NEW obj \in CImPduHeartbeat
    PROVE  \E m, c, b : RoundTrip(obj, m, c, b)
  <1>1. PICK args \in {<<>>} \cup {<<t>> : t \in Texts} : obj = [type |-> "heartbeat", args |-> args]
    BY DEF CImPduHeartbeat
  <1>2. obj.type = "heartbeat" /\ obj.args = args
    BY <1>1
  <1>3. SID_OTHER \in Nat /\ HEARTBEAT \in Nat
    BY DEF SID_OTHER, HEARTBEAT
  <1>4. ASSUME NEW body, NEW junk
        PROVE  ReadBody(SID_OTHER, HEARTBEAT, body, junk) = ReadHeartbeat(body, junk)
    BY Dispatch, Zenon
  <1>5. CASE args = <<>>
    <2>1. Written(obj) = Pdu(SID_OTHER, HEARTBEAT, <<>>)
      BY <1>2, <1>5 DEF Written, Heartbeat
    <2>2. ASSUME NEW junk
          PROVE  ReadHeartbeat(<<>>, junk) = obj
      BY <1>1, <1>5, NothingBack, ParsedAll, Zenon DEF ReadHeartbeat
    <2>3. RoundTrip(obj, SID_OTHER, HEARTBEAT, <<>>)
      BY <1>2, <1>3, <1>4, <2>1, <2>2, FieldTypes DEF RoundTrip
    <2> QED
      BY <2>3
  <1>6. ASSUME NEW t \in Texts, args = <<t>>
        PROVE  \E m, c, b : RoundTrip(obj, m, c, b)
    <2> DEFINE body == WriteString(t)
    <2>1. t \in Seq(Nat) /\ body \in Seq(Nat)
      BY FieldTypes, StringBytes
    <2>2. obj.args # <<>> /\ obj.args[1] = t
      <3>1. <<t>> # <<>> /\ <<t>>[1] = t
        OBVIOUS
      <3> QED
        BY <1>2, <1>6, <3>1, Zenon
    <2>3. Written(obj) = Pdu(SID_OTHER, HEARTBEAT, body)
      BY <1>2, <2>2 DEF Written, ClientReport
    <2>4. ASSUME NEW junk
          PROVE  ReadHeartbeat(body, junk) = obj
      <3>1. ReadHeartbeat(body, junk)
              = Parsed("heartbeat", [body |-> body, pos |-> Len(body), vals |-> <<t>>])
        BY <2>1, TextBack, Zenon DEF ReadHeartbeat
      <3> QED
        BY <1>1, <1>6, <3>1, ParsedAll, Zenon
    <2> HIDE DEF body
    <2>5. RoundTrip(obj, SID_OTHER, HEARTBEAT, body)
      BY <1>2, <1>3, <1>4, <2>1, <2>3, <2>4 DEF RoundTrip
    <2> QED
      BY <2>5
  <1> QED
    BY <1>1, <1>5, <1>6

\* A body that is used up gives what the variable held.
JunkTaken(b, v, junk) ==
    GetU16([body |-> b, pos |-> Len(b), vals |-> v], junk)
      = [body |-> b, pos |-> Len(b), vals |-> Append(v, junk)]

LEMMA ShortRead ==
    ASSUME NEW b, NEW v, NEW junk, Len(b) \in Nat
    PROVE  JunkTaken(b, v, junk)
  <1>1. Len(b) + 2 > Len(b)
    OBVIOUS
  <1> QED
    BY <1>1 DEF GetU16, JunkTaken

\* A registration without its number.
LEMMA ClientDoneBack ==
    ASSUME NEW obj \in CImPduClientDone
    PROVE  \E m, c, b : Legible(obj, m, c, b)
  <1>1. PICK n \in Numbers : obj = [type |-> "client done", args |-> <<n>>]
    BY DEF CImPduClientDone
  <1>2. /\ Written(obj) = Pdu(SID_OTHER, REG_CLIENT_TYPE, <<>>)
        /\ ReadAs(obj) = {[type |-> "reg client type", args |-> <<x>>] : x \in Junk}
    BY <1>1 DEF Written, ClientDone, ReadAs
  <1>3. ASSUME NEW junk
        PROVE  ReadBody(SID_OTHER, REG_CLIENT_TYPE, <<>>, junk)
                 = [type |-> "reg client type", args |-> <<junk>>]
    <2>1. ReadBody(SID_OTHER, REG_CLIENT_TYPE, <<>>, junk) = ReadRegClientType(<<>>, junk)
      BY Dispatch, Zenon
    <2>2. Len(<<>>) \in Nat /\ Append(<<>>, junk) = <<junk>>
      OBVIOUS
    <2>3. GetU16(Stream(<<>>), junk) = [body |-> <<>>, pos |-> Len(<<>>), vals |-> <<junk>>]
      <3>1. JunkTaken(<<>>, <<>>, junk)
        BY <2>2, ShortRead, Zenon
      <3> QED
        BY <2>2, <3>1, NothingBack, Zenon DEF JunkTaken
    <2> QED
      BY <2>1, <2>3, ParsedAll, Zenon DEF ReadRegClientType
  <1>4. SID_OTHER \in Nat /\ REG_CLIENT_TYPE \in Nat /\ <<>> \in Seq(Nat)
    BY DEF SID_OTHER, REG_CLIENT_TYPE
  <1>5. /\ \A junk \in Junk : ReadBody(SID_OTHER, REG_CLIENT_TYPE, <<>>, junk) \in ReadAs(obj)
        /\ \A o \in ReadAs(obj) : o.type # "refused"
    <2>1. ASSUME NEW junk \in Junk
          PROVE  ReadBody(SID_OTHER, REG_CLIENT_TYPE, <<>>, junk) \in ReadAs(obj)
      BY <1>2, <1>3, Zenon
    <2>2. ASSUME NEW o \in ReadAs(obj)
          PROVE  o.type # "refused"
      <3>1. PICK x \in Junk : o = [type |-> "reg client type", args |-> <<x>>]
        BY <1>2, Zenon
      <3> QED
        BY <3>1
    <2> QED
      BY <2>1, <2>2, Zenon
  <1>6. Legible(obj, SID_OTHER, REG_CLIENT_TYPE, <<>>)
    BY <1>2, <1>4, <1>5, Zenon DEF Legible
  <1> QED
    BY <1>6

\* A rate whose second number is missing.
LEMMA PageAdjustRateBack ==
    ASSUME NEW obj \in PageAdjustRate
    PROVE  \E m, c, b : Legible(obj, m, c, b)
  <1> DEFINE b == U16(ADJUST_RATE)
  <1>1. obj = [type |-> "command of the page", args |-> <<ADJUST_RATE>>]
    BY DEF PageAdjustRate
  <1>2. /\ Written(obj) = Pdu(SID_COMMAND, ADJUST_RATE, b)
        /\ ReadAs(obj) = {[type |-> "adjust rate", args |-> <<ADJUST_RATE, x>>] : x \in Junk}
    BY <1>1 DEF Written, ReadAs
  <1>3. SID_COMMAND \in Nat /\ ADJUST_RATE \in Nat
    BY DEF SID_COMMAND, ADJUST_RATE
  <1>4. b \in Seq(Nat) /\ Len(b) \in Nat
    BY <1>3, U16Bytes
  <1> HIDE DEF b
  <1>5. ASSUME NEW junk
        PROVE  ReadBody(SID_COMMAND, ADJUST_RATE, b, junk)
                 = [type |-> "adjust rate", args |-> <<ADJUST_RATE, junk>>]
    <2>1. ReadBody(SID_COMMAND, ADJUST_RATE, b, junk) = ReadAdjustRate(b, junk)
      BY Dispatch, Zenon
    <2>2. GetU16(Stream(b), junk) = [body |-> b, pos |-> Len(b), vals |-> <<ADJUST_RATE>>]
      BY <1>3, NumberBack, Zenon DEF b
    <2>3. Append(<<ADJUST_RATE>>, junk) = <<ADJUST_RATE, junk>>
      <3>1. Append(<<>>, ADJUST_RATE) = <<ADJUST_RATE>>
        OBVIOUS
      <3>2. Append(Append(<<>>, ADJUST_RATE), junk) = <<ADJUST_RATE, junk>>
        BY AppendTwo
      <3> QED
        BY <3>1, <3>2, Zenon
    <2>4. GetU16(GetU16(Stream(b), junk), junk)
            = [body |-> b, pos |-> Len(b), vals |-> <<ADJUST_RATE, junk>>]
      <3>1. JunkTaken(b, <<ADJUST_RATE>>, junk)
        BY <1>4, ShortRead, Zenon
      <3> QED
        BY <2>2, <2>3, <3>1, Zenon DEF JunkTaken
    <2> QED
      BY <2>1, <2>4, ParsedAll, Zenon DEF ReadAdjustRate
  <1>6. /\ \A junk \in Junk : ReadBody(SID_COMMAND, ADJUST_RATE, b, junk) \in ReadAs(obj)
        /\ \A o \in ReadAs(obj) : o.type # "refused"
    <2>1. ASSUME NEW junk \in Junk
          PROVE  ReadBody(SID_COMMAND, ADJUST_RATE, b, junk) \in ReadAs(obj)
      BY <1>2, <1>5, Zenon
    <2>2. ASSUME NEW o \in ReadAs(obj)
          PROVE  o.type # "refused"
      <3>1. PICK x \in Junk : o = [type |-> "adjust rate", args |-> <<ADJUST_RATE, x>>]
        BY <1>2, Zenon
      <3> QED
        BY <3>1
    <2> QED
      BY <2>1, <2>2, Zenon
  <1>7. Legible(obj, SID_COMMAND, ADJUST_RATE, b)
    BY <1>2, <1>3, <1>4, <1>6, Zenon DEF Legible
  <1> QED
    BY <1>7

\* The objects that are read as themselves.
Faithful ==
    UNION {CImPduServerCommand, CImPduAdjustRate, CImPduClientData, CImPduServerStatusInfo,
           CImPduAllClientStatusInfo, CImPduHeartbeat, CImPduResponse, CImPduRegClientType}

Ordinary == {"server command", "adjust rate", "data", "server status",
             "all client status", "heartbeat", "response", "reg client type"}

LEMMA FaithfulBack ==
    ASSUME NEW obj \in Faithful
    PROVE  \E m, c, b : Legible(obj, m, c, b)
  <1>1. PICK m, c, b : RoundTrip(obj, m, c, b)
    BY ServerCommandBack, AdjustRateBack, ClientDataBack, ServerStatusBack, AllClientStatusBack,
       HeartbeatBack, ResponseBack, RegClientTypeBack, Zenon DEF Faithful
  <1>2. obj.type # "client done" /\ obj.type # "command of the page"
    <2>1. obj \in CImPduServerCommand \/ obj \in CImPduAdjustRate => obj.type \in Ordinary
      BY DEF CImPduServerCommand, CImPduAdjustRate, Ordinary
    <2>2. obj \in CImPduClientData \/ obj \in CImPduServerStatusInfo => obj.type \in Ordinary
      BY DEF CImPduClientData, CImPduServerStatusInfo, Ordinary
    <2>3. obj \in CImPduAllClientStatusInfo \/ obj \in CImPduHeartbeat => obj.type \in Ordinary
      BY DEF CImPduAllClientStatusInfo, CImPduHeartbeat, Ordinary
    <2>4. obj \in CImPduResponse \/ obj \in CImPduRegClientType => obj.type \in Ordinary
      BY DEF CImPduResponse, CImPduRegClientType, Ordinary
    <2>5. obj.type \in Ordinary
      BY <2>1, <2>2, <2>3, <2>4, Zenon DEF Faithful
    <2> QED
      BY <2>5 DEF Ordinary
  <1>3. ReadAs(obj) = {obj}
    BY <1>2 DEF ReadAs
  <1>4. Legible(obj, m, c, b)
    BY <1>1, <1>3 DEF RoundTrip, Legible
  <1> QED
    BY <1>4

\* So with every class.
LEMMA ObjectBack ==
    ASSUME NEW obj \in Objects
    PROVE  \E m, c, b : Legible(obj, m, c, b)
  <1>1. obj \in Faithful \/ obj \in CImPduClientDone \/ obj \in PageAdjustRate
    BY Zenon DEF Objects, Faithful
  <1> QED
    BY <1>1, FaithfulBack, ClientDoneBack, PageAdjustRateBack, Zenon
-----------------------------------------------------------------------------
(* The stream.  The invariant names the place in the stream where every    *)
(* PDU ends: at[k] bytes were sent with the first k of them.               *)

Buffer ==
    /\ wire \in Seq(Nat) /\ m_in_buf \in Seq(Nat)
    /\ m_alloc \in Nat /\ Len(m_in_buf) <= m_alloc

\* What the handlers are given.
Readable == UNION {ReadAs(obj) : obj \in Objects}

Handed ==
    /\ open
    /\ sent \in Seq(Objects) /\ got \in Seq(Readable) /\ Len(got) <= Len(sent)
    /\ \A k \in 1..Len(got) : got[k] \in ReadAs(sent[k])

\* The objects from the first to the last, one behind the other, are the bytes.
Rising(at, first, last) == \A j, k \in first..last : j <= k => at[j] <= at[k]
Placed(at, first, last, objs, bytes) ==
    /\ at \in [Nat -> Nat]
    /\ at[last] = at[first] + Len(bytes)
    /\ Rising(at, first, last)
    /\ \A k \in (first + 1)..last :
        /\ at[k] = at[k - 1] + Len(Written(objs[k]))
        /\ There(bytes, at[k - 1] - at[first], Written(objs[k]))

\* What was received and not handled, and what is on its way, are the PDUs
\* that were not handled.
Places(at) == Placed(at, Len(got), Len(sent), sent, m_in_buf \o wire)

StreamInv == Buffer /\ Handed /\ \E at : Places(at)

\* Every object is a header at least, and a body.
LEMMA WrittenBytes ==
    ASSUME NEW obj \in Objects
    PROVE  Written(obj) \in Seq(Nat) /\ Len(Written(obj)) \in Nat /\ Len(Written(obj)) >= 12
  <1>1. PICK m, c, b : Legible(obj, m, c, b)
    BY ObjectBack
  <1>2. m \in Nat /\ c \in Nat /\ b \in Seq(Nat) /\ Written(obj) = Pdu(m, c, b)
    BY <1>1 DEF Legible
  <1>3. Pdu(m, c, b) \in Seq(Nat) /\ Len(Pdu(m, c, b)) = 12 + Len(b)
    <2>1. Framed(m, c, b)
      BY <1>2, PduBytes, Zenon
    <2> QED
      BY <2>1, Zenon DEF Framed
  <1>4. Len(b) \in Nat
    BY <1>2
  <1> QED
    BY <1>2, <1>3, <1>4

\* The receiver sees a PDU when all of it is there, and reads it.
LEMMA ReadsObject ==
    ASSUME NEW obj \in Objects, NEW buf \in Seq(Nat),
           \A j \in 1..12 : buf[j] = Written(obj)[j]
    PROVE  /\ U32At(buf, 0) = Len(Written(obj))
           /\ \A o \in ReadAs(obj) : o.type # "refused"
           /\ There(buf, 0, Written(obj)) => \A junk \in Junk : ReadPdu(buf, junk) \in ReadAs(obj)
  <1>1. PICK m, c, b : Legible(obj, m, c, b)
    BY ObjectBack
  <1>2. m \in Nat /\ c \in Nat /\ b \in Seq(Nat) /\ Written(obj) = Pdu(m, c, b)
    BY <1>1 DEF Legible
  <1>3. /\ Len(Written(obj)) = 12 + Len(b)
        /\ U32At(buf, 0) = 12 + Len(b) /\ U16At(buf, 4) = m /\ U16At(buf, 6) = c
        /\ There(buf, 0, Written(obj)) => There(buf, 12, b)
    <2>1. \A j \in 1..12 : buf[j] = Pdu(m, c, b)[j]
      BY <1>2, Zenon
    <2>2. m \in Nat /\ c \in Nat /\ b \in Seq(Nat)
      BY <1>2
    <2>3. Framed(m, c, b)
      BY <2>2, PduBytes, Zenon
    <2> QED
      BY <1>2, <2>1, <2>3, Zenon DEF Framed
  <1>4. ASSUME There(buf, 0, Written(obj)), NEW junk \in Junk
        PROVE  ReadPdu(buf, junk) \in ReadAs(obj)
    <2>1. SubSeq(buf, 12 + 1, 12 + Len(b)) = b
      <3>1. There(buf, 12, b) /\ 12 \in Nat
        BY <1>3, <1>4
      <3> QED
        BY <1>2, <3>1, Extracted
    <2>2. ReadPdu(buf, junk) = ReadBody(m, c, b, junk)
      BY <1>3, <2>1, Zenon DEF ReadPdu, ReadBody, IM_PDU_HEADER_LEN
    <2> QED
      BY <1>1, <2>2, Zenon DEF Legible
  <1> QED
    BY <1>1, <1>3, <1>4, Zenon DEF Legible

\* Nothing was sent, and no place is needed but the first.
LEMMA InitStreamInv == Init => StreamInv
  <1> SUFFICES ASSUME Init PROVE StreamInv
    OBVIOUS
  <1> DEFINE at == [k \in Nat |-> 0]
  <1>1. /\ wire = <<>> /\ m_in_buf = <<>> /\ sent = <<>> /\ got = <<>>
        /\ m_alloc = 0 /\ open
    BY DEF Init
  <1>2. Buffer
    BY <1>1 DEF Buffer
  <1>3. Handed
    BY <1>1 DEF Handed
  <1>4. at \in [Nat -> Nat] /\ at[0] = 0 /\ Len(<<>>) = 0
    OBVIOUS
  <1> HIDE DEF at
  <1>5. Places(at)
    <2>1. <<>> \o <<>> = <<>>
      OBVIOUS
    <2>2. Placed(at, 0, 0, <<>>, <<>>)
      BY <1>4 DEF Placed, Rising
    <2> QED
      BY <1>1, <1>4, <2>1, <2>2, Zenon DEF Places
  <1> QED
    BY <1>2, <1>3, <1>5 DEF StreamInv

\* More bytes behind do not disturb the ones that are there.
LEMMA ThereBefore ==
    ASSUME NEW s \in Seq(Nat), NEW t \in Seq(Nat), NEW pos \in Nat, NEW w \in Seq(Nat),
           pos + Len(w) <= Len(s), There(s, pos, w)
    PROVE  There(s \o t, pos, w)
  <1> SUFFICES ASSUME NEW j \in 1..Len(w)
               PROVE  (s \o t)[pos + j] = w[j]
    BY DEF There
  <1>1. s[pos + j] = w[j]
    BY DEF There
  <1>2. pos + j \in 1..Len(s)
    OBVIOUS
  <1>3. (s \o t)[pos + j] = s[pos + j]
    BY <1>2, Joined, Zenon
  <1> QED
    BY <1>1, <1>3

\* What is put behind stands behind.
LEMMA ThereBehind ==
    ASSUME NEW s \in Seq(Nat), NEW w \in Seq(Nat)
    PROVE  There(s \o w, Len(s), w)
  BY Joined, Zenon DEF There

\* What the places say of one PDU that was not handled.
LEMMA PlaceOf ==
    ASSUME NEW at, Places(at), Buffer, Handed, NEW k \in (Len(got) + 1)..Len(sent)
    PROVE  /\ k - 1 \in Nat /\ k \in Nat /\ k \in 1..Len(sent) /\ sent[k] \in Objects
           /\ Written(sent[k]) \in Seq(Nat) /\ Len(Written(sent[k])) \in Nat
           /\ at[k - 1] - at[Len(got)] \in Nat
           /\ at[k] = at[k - 1] + Len(Written(sent[k]))
           /\ (at[k - 1] - at[Len(got)]) + Len(Written(sent[k])) <= Len(m_in_buf \o wire)
           /\ There(m_in_buf \o wire, at[k - 1] - at[Len(got)], Written(sent[k]))
  <1>1. /\ Len(got) \in Nat /\ Len(sent) \in Nat /\ Len(got) <= Len(sent)
        /\ sent \in Seq(Objects)
    BY DEF Handed
  <1>2. k \in 1..Len(sent) /\ k - 1 \in Nat /\ k \in Nat /\ k - 1 \in Len(got)..Len(sent)
        /\ k \in Len(got)..Len(sent)
    BY <1>1
  <1>3. sent[k] \in Objects
    BY <1>1, <1>2
  <1>4. Written(sent[k]) \in Seq(Nat) /\ Len(Written(sent[k])) \in Nat
    BY <1>3, WrittenBytes
  <1>5. /\ at[k - 1] \in Nat /\ at[k] \in Nat /\ at[Len(got)] \in Nat /\ at[Len(sent)] \in Nat
        /\ at[Len(got)] <= at[k - 1] /\ at[k] <= at[Len(sent)]
        /\ at[k] = at[k - 1] + Len(Written(sent[k]))
        /\ at[Len(sent)] = at[Len(got)] + Len(m_in_buf \o wire)
    <2>1. /\ at \in [Nat -> Nat] /\ Rising(at, Len(got), Len(sent))
          /\ at[k] = at[k - 1] + Len(Written(sent[k]))
          /\ at[Len(sent)] = at[Len(got)] + Len(m_in_buf \o wire)
      BY Zenon DEF Places, Placed
    <2>2. /\ at[k - 1] \in Nat /\ at[k] \in Nat /\ at[Len(got)] \in Nat
          /\ at[Len(sent)] \in Nat
      BY <1>1, <1>2, <2>1, Zenon
    <2>3. /\ Len(got) \in Len(got)..Len(sent) /\ Len(sent) \in Len(got)..Len(sent)
          /\ Len(got) <= k - 1 /\ k <= Len(sent)
      BY <1>1, <1>2
    <2>4. at[Len(got)] <= at[k - 1] /\ at[k] <= at[Len(sent)]
      BY <1>2, <2>1, <2>3, Zenon DEF Rising
    <2> QED
      BY <2>1, <2>2, <2>4, Zenon
  <1>6. Len(m_in_buf \o wire) \in Nat
    BY DEF Buffer
  <1>7. There(m_in_buf \o wire, at[k - 1] - at[Len(got)], Written(sent[k]))
    BY DEF Places, Placed
  <1>8. /\ at[k - 1] - at[Len(got)] \in Nat
        /\ (at[k - 1] - at[Len(got)]) + Len(Written(sent[k])) <= Len(m_in_buf \o wire)
    <2>1. PICK a, b, c, e, x, l :
            /\ a = at[k - 1] /\ b = at[Len(got)] /\ c = at[k] /\ e = at[Len(sent)]
            /\ x = Len(Written(sent[k])) /\ l = Len(m_in_buf \o wire)
      BY Zenon
    <2>2. /\ a \in Nat /\ b \in Nat /\ c \in Nat /\ e \in Nat /\ x \in Nat /\ l \in Nat
          /\ b <= a /\ c <= e /\ c = a + x /\ e = b + l
      BY <1>4, <1>5, <1>6, <2>1, Zenon
    <2>3. a - b \in Nat /\ (a - b) + x <= l
      BY <2>2
    <2> QED
      BY <2>1, <2>3, Zenon
  <1> QED
    BY <1>2, <1>3, <1>4, <1>5, <1>7, <1>8, Zenon

\* Written apart for the solver, which else meets it among sequences.
LEMMA Difference ==
    ASSUME NEW a \in Nat, NEW b \in Nat, NEW c \in Nat, a = b + c
    PROVE  a - b = c
  OBVIOUS

\* One PDU more.
LEMMA PlacesGrow ==
    ASSUME NEW at \in [Nat -> Nat], NEW n \in Nat, NEW g \in Nat, g <= n, NEW d \in Nat,
           Rising(at, g, n), NEW at2 \in [Nat -> Nat], at2[n + 1] = at[n] + d,
           \A k \in g..n : at2[k] = at[k]
    PROVE  Rising(at2, g, n + 1)
  <1>1. at[n] \in Nat /\ at[g] \in Nat /\ n + 1 \in Nat /\ g \in g..n /\ n \in g..n
    OBVIOUS
  <1>2. \A k \in g..n : k \in Nat /\ at[k] \in Nat /\ k <= n /\ k # n + 1
    OBVIOUS
  <1>3. ASSUME NEW j \in g..(n + 1), NEW k \in g..(n + 1), j <= k
        PROVE  at2[j] <= at2[k]
    <2>1. CASE k = n + 1
      <3>1. CASE j = n + 1
        BY <1>1, <2>1, <3>1
      <3>2. CASE j # n + 1
        <4>1. j \in g..n
          BY <3>2
        <4>2. at2[j] = at[j] /\ at[j] <= at[n] /\ at[j] \in Nat
          BY <1>1, <1>2, <4>1 DEF Rising
        <4> QED
          BY <1>1, <2>1, <4>2
      <3> QED
        BY <3>1, <3>2
    <2>2. CASE k # n + 1
      <3>1. k \in g..n /\ j \in g..n
        BY <1>3, <2>2
      <3>2. at2[j] = at[j] /\ at2[k] = at[k] /\ at[j] <= at[k]
        BY <1>3, <3>1 DEF Rising
      <3> QED
        BY <3>2
    <2> QED
      BY <2>1, <2>2
  <1> QED
    BY <1>3 DEF Rising

\* The sender puts one PDU behind the others; its end is a new place.
LEMMA SendStep ==
    ASSUME StreamInv, NEW obj \in Objects, Send(obj)
    PROVE  StreamInv'
  <1> DEFINE w == Written(obj)
             P == m_in_buf \o wire
             n == Len(sent)
             g == Len(got)
  <1>1. PICK at : Places(at)
    BY DEF StreamInv
  <1>0. PICK at2 : at2 = [at EXCEPT ![n + 1] = at[n] + Len(w)]
    OBVIOUS
  <1>2. /\ Buffer /\ Handed
        /\ wire \in Seq(Nat) /\ m_in_buf \in Seq(Nat) /\ n \in Nat /\ g \in Nat /\ g <= n
        /\ sent \in Seq(Objects)
    <2>1. Buffer /\ Handed
      BY Zenon DEF StreamInv
    <2>2. wire \in Seq(Nat) /\ m_in_buf \in Seq(Nat)
      BY <2>1, Zenon DEF Buffer
    <2>3. sent \in Seq(Objects) /\ got \in Seq(Readable) /\ g <= n
      BY <2>1, Zenon DEF Handed
    <2> QED
      BY <2>1, <2>2, <2>3
  <1>3. w \in Seq(Nat) /\ Len(w) \in Nat
    BY WrittenBytes
  <1>4. /\ sent' = Append(sent, obj) /\ wire' = wire \o w
        /\ UNCHANGED <<m_in_buf, m_alloc, phase, got, open>>
    BY DEF Send
  <1> HIDE DEF w
  <1>5. Buffer'
    BY <1>2, <1>3, <1>4 DEF Buffer
  <1>6. /\ sent' \in Seq(Objects) /\ Len(sent') = n + 1 /\ sent'[n + 1] = obj
        /\ \A k \in 1..n : sent'[k] = sent[k]
    BY <1>2, <1>4
  <1>7. Handed'
    <2>1. /\ open' /\ got' = got /\ got \in Seq(Readable) /\ g <= n + 1
          /\ \A k \in 1..g : k \in 1..n /\ got[k] \in ReadAs(sent[k])
      BY <1>2, <1>4 DEF Handed
    <2> QED
      BY <1>6, <2>1 DEF Handed
  <1>8. /\ P \in Seq(Nat) /\ Len(P) = Len(m_in_buf) + Len(wire)
        /\ (m_in_buf \o wire)' = P \o w
        /\ Len(wire') = Len(wire) + Len(w)
    <2>1. (m_in_buf \o wire) \o w = m_in_buf \o (wire \o w)
      BY <1>2, <1>3, JoinedTwice
    <2>2. P \in Seq(Nat) /\ Len(P) = Len(m_in_buf) + Len(wire)
      BY <1>2
    <2>3. Len(wire \o w) = Len(wire) + Len(w)
      BY <1>2, <1>3, Joined, Zenon
    <2> QED
      BY <1>4, <2>1, <2>2, <2>3, Zenon
  <1>9. /\ at \in [Nat -> Nat] /\ at[n] = at[g] + Len(P)
        /\ Rising(at, g, n)
    BY <1>1 DEF Places, Placed
  <1>10. Len(P) \in Nat
    BY <1>8
  <1>11. ASSUME NEW k \in (g + 1)..n
         PROVE  /\ at[k] = at[k - 1] + Len(Written(sent[k]))
                /\ There(P \o w, at[k - 1] - at[g], Written(sent[k]))
    <2>1. /\ at[k] = at[k - 1] + Len(Written(sent[k]))
          /\ Written(sent[k]) \in Seq(Nat) /\ at[k - 1] - at[g] \in Nat
          /\ (at[k - 1] - at[g]) + Len(Written(sent[k])) <= Len(P)
          /\ There(P, at[k - 1] - at[g], Written(sent[k]))
      BY <1>1, <1>2, PlaceOf
    <2> QED
      BY <1>3, <1>8, <2>1, ThereBefore, Zenon
  <1> HIDE DEF P, n, g
  <1>12. /\ at2 \in [Nat -> Nat] /\ at2[n + 1] = at[n] + Len(w)
         /\ \A k \in g..n : at2[k] = at[k]
         /\ Rising(at2, g, n + 1)
    <2>1. n \in Nat /\ g \in Nat /\ g <= n
      BY <1>2
    <2>2. \A k \in g..n : k \in Nat /\ k # n + 1
      BY <2>1
    <2>3. n + 1 \in Nat /\ at[n] + Len(w) \in Nat
      <3>1. at[n] \in Nat
        BY <1>9, <2>1
      <3> QED
        BY <1>3, <2>1, <3>1
    <2>4. /\ at2 \in [Nat -> Nat] /\ at2[n + 1] = at[n] + Len(w)
          /\ \A k \in g..n : at2[k] = at[k]
      BY <1>9, <1>0, <2>2, <2>3
    <2>5. Rising(at2, g, n + 1)
      BY <1>3, <1>9, <2>1, <2>4, PlacesGrow, Zenon
    <2> QED
      BY <2>4, <2>5
  <1>13. /\ n \in Nat /\ g \in Nat /\ g \in g..n /\ n \in g..n
         /\ at[n] \in Nat /\ at[g] \in Nat
    BY <1>2, <1>9
  <1>14. at2[n + 1] = at2[g] + Len(P \o w)
    <2>1. at2[n + 1] = (at[g] + Len(P)) + Len(w) /\ at2[g] = at[g]
      BY <1>9, <1>12, <1>13
    <2>2. Len(P \o w) = Len(P) + Len(w)
      BY <1>3, <1>8, Joined, Zenon
    <2> QED
      BY <1>3, <1>10, <1>13, <2>1, <2>2
  <1>15. There(P \o w, at[n] - at[g], w)
    <2>1. at[n] - at[g] = Len(P)
      BY <1>9, <1>10, <1>13, Difference, Zenon
    <2> QED
      BY <1>3, <1>8, <2>1, ThereBehind, Zenon
  <1>16. \A k \in (g + 1)..(n + 1) :
            /\ at2[k] = at2[k - 1] + Len(Written(sent'[k]))
            /\ There(P \o w, at2[k - 1] - at2[g], Written(sent'[k]))
    <2> SUFFICES ASSUME NEW k \in (g + 1)..(n + 1)
                 PROVE  /\ at2[k] = at2[k - 1] + Len(Written(sent'[k]))
                        /\ There(P \o w, at2[k - 1] - at2[g], Written(sent'[k]))
      OBVIOUS
    <2>1. CASE k = n + 1
      <3>1. at2[k - 1] = at[n] /\ at2[g] = at[g] /\ sent'[k] = obj /\ at2[k] = at[n] + Len(w)
        <4>1. k - 1 = n
          BY <1>13, <2>1
        <4> QED
          BY <1>6, <1>12, <1>13, <2>1, <4>1, Zenon
      <3> QED
        BY <1>15, <3>1 DEF w
    <2>2. CASE k # n + 1
      <3>1. k \in (g + 1)..n /\ k - 1 \in g..n /\ k \in g..n /\ k \in 1..n /\ g \in g..n
        BY <1>2, <2>2
      <3>2. at2[k - 1] = at[k - 1] /\ at2[g] = at[g] /\ sent'[k] = sent[k] /\ at2[k] = at[k]
        BY <1>6, <1>12, <3>1, Zenon
      <3> QED
        BY <1>11, <3>1, <3>2
    <2> QED
      BY <2>1, <2>2
  <1>17. Placed(at2, g, n + 1, sent', P \o w)
    BY <1>12, <1>14, <1>16, Zenon DEF Placed
  <1>18. Places(at2)'
    <2>1. Len(got') = g /\ Len(sent') = n + 1
      BY <1>4, <1>6, Zenon DEF g
    <2>2. m_in_buf' \o wire' = P \o w
      BY <1>8, Zenon
    <2> QED
      BY <1>17, <2>1, <2>2, Zenon DEF Places
  <1> QED
    BY <1>5, <1>7, <1>18 DEF StreamInv

\* recv() has room for what it may write, and the stream moves on by it.
LEMMA Extended ==
    ASSUME NEW l \in Nat, NEW a \in Nat, NEW r \in Nat, NEW e,
           e = IF a - l < r THEN l + r + (l + r) \div 4 ELSE a
    PROVE  e \in Nat /\ l + r <= e
  <1>1. (l + r) \div 4 \in Nat
    OBVIOUS
  <1> QED
    BY <1>1

\* Bytes move from the wire to the buffer, for which Extend has made room.
LEMMA RecvStep ==
    ASSUME StreamInv, Recv
    PROVE  StreamInv'
  <1>1. /\ Buffer /\ Handed
        /\ wire \in Seq(Nat) /\ m_in_buf \in Seq(Nat) /\ m_alloc \in Nat
        /\ Len(m_in_buf) \in Nat /\ READ_BUF_SIZE \in Nat
    BY CodecConstants DEF StreamInv, Buffer, Handed
  <1>2. PICK at : Places(at)
    BY DEF StreamInv
  <1>3. PICK n \in 1..READ_BUF_SIZE :
            /\ n <= Len(wire)
            /\ m_in_buf' = m_in_buf \o SubSeq(wire, 1, n)
            /\ wire' = SubSeq(wire, n + 1, Len(wire))
    BY DEF Recv
  <1>4. UNCHANGED <<sent, got, open>>
    BY DEF Recv
  <1> DEFINE s == SubSeq(wire, 1, n)
             t == SubSeq(wire, n + 1, Len(wire))
  <1>5. s \in Seq(Nat) /\ Len(s) = n /\ t \in Seq(Nat) /\ s \o t = wire /\ n \in Nat
    <2>1. n \in Nat /\ 1 <= n /\ n <= Len(wire) /\ Len(wire) \in Nat
      BY <1>1, <1>3
    <2>2. s \in Seq(Nat) /\ Len(s) = n /\ t \in Seq(Nat)
      BY <1>1, <2>1
    <2>3. /\ 1 \in 1..(Len(wire) + 1) /\ n \in (1 - 1)..Len(wire) /\ Len(wire) \in n..Len(wire)
      BY <2>1
    <2>4. s \o t = SubSeq(wire, 1, Len(wire))
      BY <1>1, <2>3, ConcatAdjacentSubSeq
    <2>5. SubSeq(wire, 1, Len(wire)) = wire
      BY <1>1, SubSeqFull
    <2> QED
      BY <2>1, <2>2, <2>4, <2>5
  <1>6. m_in_buf' = m_in_buf \o s /\ wire' = t
    BY <1>3
  <1> HIDE DEF s, t
  <1>7. m_in_buf' \o wire' = m_in_buf \o wire
    <2>1. (m_in_buf \o s) \o t = m_in_buf \o (s \o t)
      BY <1>1, <1>5, JoinedTwice
    <2> QED
      BY <1>5, <1>6, <2>1, Zenon
  <1>8. m_in_buf' \in Seq(Nat) /\ Len(m_in_buf') = Len(m_in_buf) + n
    <2>1. m_in_buf \o s \in Seq(Nat) /\ Len(m_in_buf \o s) = Len(m_in_buf) + Len(s)
      BY <1>1, <1>5, Joined, Zenon
    <2> QED
      BY <1>5, <1>6, <2>1
  <1>9. m_alloc' \in Nat /\ Len(m_in_buf) + READ_BUF_SIZE <= m_alloc'
    <2>1. m_alloc' = IF m_alloc - Len(m_in_buf) < READ_BUF_SIZE
                     THEN Len(m_in_buf) + READ_BUF_SIZE + (Len(m_in_buf) + READ_BUF_SIZE) \div 4
                     ELSE m_alloc
      BY DEF Recv, Extend
    <2> QED
      BY <1>1, <2>1, Extended
  <1>10. Buffer'
    <2>1. Len(m_in_buf') <= m_alloc'
      BY <1>1, <1>3, <1>5, <1>8, <1>9
    <2> QED
      BY <1>5, <1>6, <1>8, <1>9, <2>1 DEF Buffer
  <1>11. Handed'
    BY <1>1, <1>4 DEF Handed
  <1>12. Places(at)'
    BY <1>2, <1>4, <1>7, Zenon DEF Places
  <1> QED
    BY <1>10, <1>11, <1>12 DEF StreamInv

\* recv() has nothing, but room was made before it was called.
LEMMA RecvEndsStep ==
    ASSUME StreamInv, RecvEnds
    PROVE  StreamInv'
  <1>1. /\ Buffer /\ m_in_buf \in Seq(Nat) /\ m_alloc \in Nat
        /\ Len(m_in_buf) \in Nat /\ READ_BUF_SIZE \in Nat
    BY CodecConstants DEF StreamInv, Buffer
  <1>2. UNCHANGED <<sent, wire, m_in_buf, got, open>>
    BY DEF RecvEnds
  <1>3. m_alloc' \in Nat /\ Len(m_in_buf) + READ_BUF_SIZE <= m_alloc'
    <2>1. m_alloc' = IF m_alloc - Len(m_in_buf) < READ_BUF_SIZE
                     THEN Len(m_in_buf) + READ_BUF_SIZE + (Len(m_in_buf) + READ_BUF_SIZE) \div 4
                     ELSE m_alloc
      BY DEF RecvEnds, Extend
    <2> QED
      BY <1>1, <2>1, Extended
  <1>4. Buffer'
    BY <1>1, <1>2, <1>3 DEF Buffer
  <1> QED
    BY <1>2, <1>4 DEF StreamInv, Handed, Places

\* The invariant says nothing of the phase.
LEMMA StillStep ==
    ASSUME StreamInv, UNCHANGED <<sent, wire, m_in_buf, m_alloc, got, open>>
    PROVE  StreamInv'
  BY DEF StreamInv, Buffer, Handed, Places

\* Where a byte of what is left was.
Whence(a, b, d) ==
    /\ (a - d) + b = (a + b) - d
    /\ \A i \in 1..((a - d) + b) :
            \/ i \in 1..(a - d) /\ d + i \in 1..a
            \/ \E k \in 1..b : i = (a - d) + k /\ d + i = a + k

LEMMA Moved ==
    ASSUME NEW a \in Nat, NEW b \in Nat, NEW d \in Nat, d <= a
    PROVE  Whence(a, b, d)
  <1>1. ASSUME NEW i \in 1..((a - d) + b), ~(i \in 1..(a - d) /\ d + i \in 1..a)
        PROVE  \E k \in 1..b : i = (a - d) + k /\ d + i = a + k
    <2>1. /\ i - (a - d) \in 1..b /\ i = (a - d) + (i - (a - d))
          /\ d + i = a + (i - (a - d))
      BY <1>1
    <2> QED
      BY <2>1, Zenon
  <1>2. (a - d) + b = (a + b) - d
    OBVIOUS
  <1> QED
    BY <1>1, <1>2, Zenon DEF Whence

\* The first d bytes are taken from the buffer.
Rest(r, s, d) == r = SubSeq(s, d + 1, Len(s))
Remains(r, s, t, d) ==
    /\ r \in Seq(Nat) /\ Len(r) = Len(s) - d
    /\ r \o t \in Seq(Nat) /\ Len(r \o t) = Len(s \o t) - d
    /\ \A i \in 1..Len(r \o t) : (r \o t)[i] = (s \o t)[d + i]

LEMMA Dropped ==
    ASSUME NEW s \in Seq(Nat), NEW t \in Seq(Nat), NEW r, NEW d \in Nat, d <= Len(s),
           Rest(r, s, d)
    PROVE  Remains(r, s, t, d)
  <1>1. /\ Len(s) \in Nat /\ Len(t) \in Nat
        /\ r \in Seq(Nat) /\ Len(r) = Len(s) - d /\ \A i \in 1..Len(r) : r[i] = s[d + i]
    BY DEF Rest
  <1>2. /\ s \o t \in Seq(Nat) /\ Len(s \o t) = Len(s) + Len(t)
        /\ \A i \in 1..Len(s) : (s \o t)[i] = s[i]
        /\ \A i \in 1..Len(t) : (s \o t)[Len(s) + i] = t[i]
    BY Joined, Zenon
  <1>3. /\ r \o t \in Seq(Nat) /\ Len(r \o t) = Len(r) + Len(t)
        /\ \A i \in 1..Len(r) : (r \o t)[i] = r[i]
        /\ \A i \in 1..Len(t) : (r \o t)[Len(r) + i] = t[i]
    BY <1>1, Joined, Zenon
  <1>4. /\ (Len(s) - d) + Len(t) = (Len(s) + Len(t)) - d
        /\ \A i \in 1..((Len(s) - d) + Len(t)) :
                \/ i \in 1..(Len(s) - d) /\ d + i \in 1..Len(s)
                \/ \E k \in 1..Len(t) : i = (Len(s) - d) + k /\ d + i = Len(s) + k
    <2>1. /\ Len(s) \in Nat /\ Len(t) \in Nat /\ d \in Nat /\ d <= Len(s)
      BY <1>1
    <2>2. Whence(Len(s), Len(t), d)
      BY <2>1, Moved, Zenon
    <2> QED
      BY <2>2, Zenon DEF Whence
  <1>5. Len(r \o t) = Len(s \o t) - d
    BY <1>1, <1>2, <1>3, <1>4, Zenon
  <1>6. ASSUME NEW i \in 1..Len(r \o t)
        PROVE  (r \o t)[i] = (s \o t)[d + i]
    <2>1. i \in 1..((Len(s) - d) + Len(t))
      BY <1>1, <1>3, Zenon
    <2>2. CASE i \in 1..(Len(s) - d) /\ d + i \in 1..Len(s)
      <3>1. i \in 1..Len(r)
        BY <1>1, <2>2, Zenon
      <3>2. (r \o t)[i] = r[i] /\ r[i] = s[d + i] /\ (s \o t)[d + i] = s[d + i]
        BY <1>1, <1>2, <1>3, <2>2, <3>1, Zenon
      <3> QED
        BY <3>2, Zenon
    <2>3. ASSUME NEW k \in 1..Len(t), i = (Len(s) - d) + k, d + i = Len(s) + k
          PROVE  (r \o t)[i] = (s \o t)[d + i]
      <3>1. (r \o t)[Len(r) + k] = t[k] /\ (s \o t)[Len(s) + k] = t[k]
        BY <1>2, <1>3, Zenon
      <3>2. Len(r) + k = i
        BY <1>1, <2>3, Zenon
      <3> QED
        BY <2>3, <3>1, <3>2, Zenon
    <2> QED
      BY <1>4, <2>1, <2>2, <2>3, Zenon
  <1> QED
    BY <1>1, <1>3, <1>5, <1>6, Zenon DEF Remains

\* The PDU at the head of the buffer is the first that was not handled, as long as
\* there is one: the header tells its length, and all of it is read as what the
\* object may be taken for.
LEMMA HeadIs ==
    ASSUME StreamInv, Len(got) < Len(sent), Len(m_in_buf) >= 12
    PROVE  /\ U32At(m_in_buf, 0) = Len(Written(sent[Len(got) + 1]))
           /\ Len(Written(sent[Len(got) + 1])) <= Len(m_in_buf) =>
                  /\ \A o \in ReadAs(sent[Len(got) + 1]) : o.type # "refused"
                  /\ \A junk \in Junk : ReadPdu(m_in_buf, junk) \in ReadAs(sent[Len(got) + 1])
  <1> DEFINE P == m_in_buf \o wire
             n == Len(sent)
             g == Len(got)
             obj == sent[g + 1]
             w == Written(obj)
  <1>1. /\ Buffer /\ Handed /\ wire \in Seq(Nat) /\ m_in_buf \in Seq(Nat)
        /\ Len(m_in_buf) \in Nat /\ n \in Nat /\ g \in Nat
    BY DEF StreamInv, Buffer, Handed
  <1>2. PICK at : Places(at)
    BY DEF StreamInv
  <1>3. g + 1 \in (g + 1)..n
    <2> HIDE DEF n, g
    <2>1. g < n
      BY DEF g, n
    <2> QED
      BY <1>1, <2>1
  <1>4. \A i \in 1..Len(m_in_buf) : P[i] = m_in_buf[i]
    BY <1>1, Joined, Zenon
  <1>5. /\ obj \in Objects /\ w \in Seq(Nat) /\ Len(w) \in Nat /\ Len(w) >= 12 /\ There(P, 0, w)
    <2>1. /\ obj \in Objects /\ w \in Seq(Nat) /\ Len(w) \in Nat
          /\ at[(g + 1) - 1] - at[g] \in Nat /\ There(P, at[(g + 1) - 1] - at[g], w)
      BY <1>1, <1>2, <1>3, PlaceOf
    <2>2. (g + 1) - 1 = g
      BY <1>1
    <2>3. at[g] - at[g] = 0
      <3>1. at[g] \in Nat
        BY <1>1, <1>2 DEF Places, Placed
      <3> QED
        BY <3>1
    <2>4. Len(w) >= 12
      BY <2>1, WrittenBytes
    <2> QED
      BY <2>1, <2>2, <2>3, <2>4, Zenon
  <1> HIDE DEF P, w
  <1>6. \A j \in 1..Len(w) : j \in 1..Len(m_in_buf) => m_in_buf[j] = w[j]
    <2> TAKE j \in 1..Len(w)
    <2>1. 0 + j = j
      BY <1>5
    <2>2. P[j] = w[j]
      BY <1>5, <2>1, Zenon DEF There
    <2> QED
      BY <1>4, <2>2
  <1>7. \A j \in 1..12 : m_in_buf[j] = w[j]
    <2> TAKE j \in 1..12
    <2>1. j \in 1..Len(w) /\ j \in 1..Len(m_in_buf)
      BY <1>1, <1>5
    <2> QED
      BY <1>6, <2>1
  <1> HIDE DEF obj
  <1>8. /\ U32At(m_in_buf, 0) = Len(w) /\ \A o \in ReadAs(obj) : o.type # "refused"
        /\ There(m_in_buf, 0, w) => \A junk \in Junk : ReadPdu(m_in_buf, junk) \in ReadAs(obj)
    BY <1>1, <1>5, <1>7, ReadsObject, Zenon DEF w
  <1>9. ASSUME Len(w) <= Len(m_in_buf)
        PROVE  There(m_in_buf, 0, w)
    <2> SUFFICES ASSUME NEW j \in 1..Len(w) PROVE m_in_buf[0 + j] = w[j]
      BY DEF There
    <2>1. j \in 1..Len(m_in_buf) /\ 0 + j = j
      BY <1>1, <1>5, <1>9
    <2> QED
      BY <1>6, <2>1
  <1> QED
    BY <1>8, <1>9, Zenon DEF w, obj

\* One object more is handed over, and the connection stays open.
HandsOver ==
    /\ Len(got) < Len(sent) /\ Len(got') = Len(got) + 1
    /\ sent' = sent /\ phase' = "read"

\* The first PDU not handled is at the front of the buffer: it is read as what
\* the object may be taken for, and its bytes are taken away.
LEMMA HandleStep ==
    ASSUME StreamInv, Handle
    PROVE  StreamInv' /\ HandsOver
  <1> DEFINE P == m_in_buf \o wire
             n == Len(sent)
             g == Len(got)
             obj == sent[g + 1]
             w == Written(obj)
  <1>1. /\ Buffer /\ Handed
        /\ wire \in Seq(Nat) /\ m_in_buf \in Seq(Nat) /\ m_alloc \in Nat
        /\ Len(m_in_buf) \in Nat /\ Len(wire) \in Nat /\ Len(m_in_buf) <= m_alloc
    BY DEF StreamInv, Buffer
  <1>2. /\ sent \in Seq(Objects) /\ got \in Seq(Readable) /\ n \in Nat /\ g \in Nat /\ g <= n
        /\ open /\ \A k \in 1..g : got[k] \in ReadAs(sent[k])
    BY <1>1 DEF Handed
  <1>3. PICK at : Places(at)
    BY DEF StreamInv
  <1>4. at \in [Nat -> Nat] /\ at[n] = at[g] + Len(P) /\ Rising(at, g, n)
    BY <1>3 DEF Places, Placed
  <1>5. /\ Len(m_in_buf) >= 12 /\ U32At(m_in_buf, 0) <= Len(m_in_buf)
        /\ UNCHANGED <<sent, wire, m_alloc>>
    BY DEF Handle, IsPduAvailable, IM_PDU_HEADER_LEN
  <1>6. /\ P \in Seq(Nat) /\ Len(P) = Len(m_in_buf) + Len(wire) /\ Len(P) \in Nat
        /\ \A i \in 1..Len(m_in_buf) : P[i] = m_in_buf[i]
    <2>1. /\ P \in Seq(Nat) /\ Len(P) = Len(m_in_buf) + Len(wire)
          /\ \A i \in 1..Len(m_in_buf) : P[i] = m_in_buf[i]
      BY <1>1, Joined, Zenon
    <2> QED
      BY <1>1, <2>1
  <1>7. g + 1 \in (g + 1)..n
    <2> HIDE DEF n, g, P
    <2>1. at[n] \in Nat /\ at[g] \in Nat
      BY <1>2, <1>4
    <2>2. at[n] # at[g]
      BY <1>1, <1>4, <1>5, <1>6, <2>1
    <2>3. n # g
      BY <2>2
    <2> QED
      BY <1>2, <2>3
  <1>8. /\ obj \in Objects /\ w \in Seq(Nat) /\ Len(w) \in Nat /\ Len(w) >= 12
        /\ at[g + 1] = at[g] + Len(w) /\ There(P, 0, w)
    <2>1. /\ obj \in Objects /\ w \in Seq(Nat) /\ Len(w) \in Nat
          /\ at[g + 1] = at[(g + 1) - 1] + Len(w)
          /\ There(P, at[(g + 1) - 1] - at[g], w)
      BY <1>1, <1>3, <1>7, PlaceOf
    <2>2. (g + 1) - 1 = g
      BY <1>2
    <2>3. at[g] - at[g] = 0
      <3>1. at[g] \in Nat
        BY <1>2, <1>4
      <3> QED
        BY <3>1
    <2>4. Len(w) >= 12
      BY <2>1, WrittenBytes
    <2> QED
      BY <2>1, <2>2, <2>3, <2>4, Zenon
  <1> HIDE DEF P, w
  <1>9. g < n /\ Len(m_in_buf) >= 12
    <2> HIDE DEF g, n
    <2> QED
      BY <1>2, <1>5, <1>7
  <1>10. /\ U32At(m_in_buf, 0) = Len(w)
         /\ Len(w) <= Len(m_in_buf) =>
                /\ \A o \in ReadAs(obj) : o.type # "refused"
                /\ \A junk \in Junk : ReadPdu(m_in_buf, junk) \in ReadAs(obj)
    BY <1>9, HeadIs, Zenon DEF w
  <1> HIDE DEF obj
  <1>11. Len(w) <= Len(m_in_buf)
    BY <1>5, <1>10
  <1>12. PICK o \in ReadAs(obj) :
            /\ got' = Append(got, o) /\ open' = open /\ phase' = "read"
            /\ m_in_buf' = SubSeq(m_in_buf, Len(w) + 1, Len(m_in_buf))
    <2>1. PICK junk \in Junk :
            LET o == ReadPdu(m_in_buf, junk)
            IN  IF o.type = "refused"
                THEN /\ open' = FALSE /\ phase' = "wait"
                     /\ UNCHANGED <<m_in_buf, got>>
                ELSE /\ got' = Append(got, o)
                     /\ m_in_buf' = SubSeq(m_in_buf, U32At(m_in_buf, 0) + 1, Len(m_in_buf))
                     /\ UNCHANGED <<phase, open>>
      BY DEF Handle
    <2>2. ReadPdu(m_in_buf, junk) \in ReadAs(obj) /\ ReadPdu(m_in_buf, junk).type # "refused"
      BY <1>10, <1>11
    <2>3. phase = "read"
      BY DEF Handle
    <2> QED
      BY <1>10, <2>1, <2>2, <2>3
  <1>30. o \in Readable
    BY <1>8, <1>12, Zenon DEF Readable
  <1> DEFINE Q == m_in_buf' \o wire'
             d == Len(w)
  <1>13. /\ m_in_buf' \in Seq(Nat) /\ Len(m_in_buf') = Len(m_in_buf) - d
         /\ Q \in Seq(Nat) /\ Len(Q) = Len(P) - d
         /\ \A i \in 1..Len(Q) : Q[i] = P[d + i]
    <2>1. wire' = wire
      BY <1>5
    <2>2. /\ m_in_buf' \in Seq(Nat) /\ Len(m_in_buf') = Len(m_in_buf) - d
          /\ m_in_buf' \o wire \in Seq(Nat) /\ Len(m_in_buf' \o wire) = Len(m_in_buf \o wire) - d
          /\ \A i \in 1..Len(m_in_buf' \o wire) : (m_in_buf' \o wire)[i] = (m_in_buf \o wire)[d + i]
      <3>1. PICK r : Rest(r, m_in_buf, d)
        BY Zenon DEF Rest
      <3>2. m_in_buf' = r
        BY <1>12, <3>1, Zenon DEF Rest
      <3>3. d \in Nat /\ d <= Len(m_in_buf)
        BY <1>8, <1>11
      <3> HIDE DEF d
      <3>4. /\ r \in Seq(Nat) /\ Len(r) = Len(m_in_buf) - d
            /\ r \o wire \in Seq(Nat) /\ Len(r \o wire) = Len(m_in_buf \o wire) - d
            /\ \A i \in 1..Len(r \o wire) : (r \o wire)[i] = (m_in_buf \o wire)[d + i]
        <4>1. m_in_buf \in Seq(Nat) /\ wire \in Seq(Nat)
          BY <1>1
        <4>2. Remains(r, m_in_buf, wire, d)
          BY <3>1, <3>3, <4>1, Dropped, Zenon
        <4> QED
          BY <4>2, Zenon DEF Remains
      <3> QED
        BY <3>2, <3>4, Zenon
    <2> QED
      BY <2>1, <2>2, Zenon DEF P
  <1>14. Buffer'
    <2>1. Len(m_in_buf') <= m_alloc
      BY <1>1, <1>8, <1>13
    <2> QED
      BY <1>1, <1>5, <1>13, <2>1 DEF Buffer
  <1>15. /\ got' \in Seq(Readable) /\ Len(got') = g + 1
         /\ got'[g + 1] = o /\ \A k \in 1..g : got'[k] = got[k]
    BY <1>2, <1>12, <1>30
  <1>16. Handed'
    <2>1. g + 1 <= n
      BY <1>2, <1>7
    <2>2. \A k \in 1..(g + 1) : got'[k] \in ReadAs(sent[k])
      <3> TAKE k \in 1..(g + 1)
      <3>1. k \in 1..g \/ k = g + 1
        BY <1>2
      <3> QED
        BY <1>2, <1>12, <1>15, <3>1 DEF obj
    <2> QED
      BY <1>2, <1>5, <1>12, <1>15, <2>1, <2>2 DEF Handed
  <1> HIDE DEF Q, d
  <1>17. d \in Nat /\ at[g + 1] = at[g] + d
    BY <1>8 DEF d
  <1>18. /\ at[g] \in Nat /\ at[g + 1] \in Nat /\ at[n] \in Nat
    <2>1. g \in Nat /\ g + 1 \in Nat /\ n \in Nat
      BY <1>2
    <2> QED
      BY <1>4, <2>1, Zenon
  <1>19. at[n] = at[g + 1] + Len(Q)
    <2>1. Len(Q) \in Nat /\ Len(P) \in Nat /\ Len(Q) = Len(P) - d
      BY <1>6, <1>13
    <2> QED
      <3>1. PICK a, b, c, q :
              a = at[n] /\ b = at[g] /\ c = at[g + 1] /\ q = Len(Q)
        BY Zenon
      <3>2. /\ a \in Nat /\ b \in Nat /\ c \in Nat /\ q \in Nat
            /\ a = b + Len(P) /\ c = b + d /\ q = Len(P) - d
        BY <1>4, <1>17, <1>18, <2>1, <3>1, Zenon
      <3>3. a = c + q
        BY <1>17, <2>1, <3>2
      <3> QED
        BY <3>1, <3>3, Zenon
  <1>20. Rising(at, g + 1, n)
    <2> HIDE DEF g, n
    <2>1. (g + 1)..n \subseteq g..n
      BY <1>2
    <2> QED
      BY <1>4, <2>1 DEF Rising
  <1>21. ASSUME NEW k \in ((g + 1) + 1)..n
         PROVE  /\ at[k] = at[k - 1] + Len(Written(sent[k]))
                /\ There(Q, at[k - 1] - at[g + 1], Written(sent[k]))
    <2> DEFINE x == Written(sent[k])
               p == at[k - 1]
    <2>1. k \in (g + 1)..n
      BY <1>2
    <2>2. /\ k - 1 \in Nat /\ x \in Seq(Nat) /\ Len(x) \in Nat /\ p - at[g] \in Nat
          /\ at[k] = p + Len(x) /\ (p - at[g]) + Len(x) <= Len(P) /\ There(P, p - at[g], x)
      BY <1>1, <1>3, <2>1, PlaceOf DEF P
    <2>3. p \in Nat
      BY <1>4, <2>2
    <2>4. at[g + 1] <= p
      <3>1. /\ k - 1 \in (g + 1)..n /\ g + 1 \in (g + 1)..n /\ g + 1 <= k - 1
        BY <1>2, <2>1
      <3> QED
        BY <1>20, <3>1 DEF Rising
    <2> HIDE DEF x, p, g, n
    <2>5. ASSUME NEW j \in 1..Len(x)
          PROVE  Q[(p - at[g + 1]) + j] = x[j]
      <3>1. /\ (p - at[g + 1]) + j \in 1..Len(Q)
            /\ d + ((p - at[g + 1]) + j) = (p - at[g]) + j
        <4>1. Len(Q) \in Nat /\ Len(Q) = Len(P) - d /\ Len(P) \in Nat
          BY <1>6, <1>13
        <4> QED
          <5>1. PICK a, b, y, l, z :
                  a = at[g] /\ b = at[g + 1] /\ y = Len(Q) /\ l = Len(P) /\ z = Len(x)
            BY Zenon
          <5>2. /\ a \in Nat /\ b \in Nat /\ y \in Nat /\ l \in Nat /\ z \in Nat
                /\ p \in Nat /\ d \in Nat /\ b = a + d /\ b <= p
                /\ (p - a) + z <= l /\ y = l - d
            BY <1>17, <1>18, <2>2, <2>3, <2>4, <4>1, <5>1, Zenon
          <5>3. j \in 1..z
            BY <5>1, Zenon
          <5>4. (p - b) + j \in 1..y /\ d + ((p - b) + j) = (p - a) + j
            BY <5>2, <5>3
          <5> QED
            BY <5>1, <5>4, Zenon
      <3>2. P[(p - at[g]) + j] = x[j]
        BY <2>2 DEF There
      <3> QED
        BY <1>13, <3>1, <3>2, Zenon
    <2> QED
      BY <2>2, <2>5 DEF There, x, p
  <1>22. Placed(at, g + 1, n, sent, Q)
    <2> HIDE DEF g, n
    <2> QED
      BY <1>4, <1>19, <1>20, <1>21, Zenon DEF Placed
  <1>23. Places(at)'
    <2>1. sent' = sent
      BY <1>5
    <2> QED
      BY <1>15, <1>22, <2>1, Zenon DEF Places, Q
  <1>24. HandsOver
    BY <1>5, <1>9, <1>12, <1>15 DEF HandsOver, g, n
  <1> QED
    BY <1>14, <1>16, <1>23, <1>24 DEF StreamInv

\* The invariant of the stream, kept by every step of the sender and of OnRead.
LEMMA StreamInvHolds == Spec => []StreamInv
  <1>1. Init => StreamInv
    BY InitStreamInv
  <1>2. StreamInv /\ [Next]_vars => StreamInv'
    <2> SUFFICES ASSUME StreamInv, [Next]_vars PROVE StreamInv'
      OBVIOUS
    <2>1. CASE HandleEnds
      BY <2>1, StillStep DEF HandleEnds
    <2>2. CASE UNCHANGED vars
      BY <2>2, StillStep DEF vars
    <2> QED
      BY <2>1, <2>2, SendStep, RecvStep, RecvEndsStep, HandleStep DEF Next
  <1> QED
    BY <1>1, <1>2, PTL DEF Spec

\* OnRead makes room for READ_BUF_SIZE bytes before every recv(), so that what
\* recv() writes stays inside the block, for any texts, any size of the reads
\* and any number of PDUs (imconn.cpp:125-134, UtilPdu.cpp: CSimpleBuffer).
THEOREM InBoundsCorrect == Spec => []InBounds
  <1>1. StreamInv => InBounds
    BY DEF StreamInv, Buffer, InBounds
  <1> QED
    BY <1>1, StreamInvHolds, PTL

\* Every object of every class is read as what it was written as, in order, in
\* whatever pieces its bytes arrive and whatever the readers' local variables
\* hold before, and none closes the connection (imconn.cpp:152-165, the
\* constructors of ImPduBase and ImPduClient); the two that leave a number out
\* are read with whatever the variable held in its place, and no byte of the next.
THEOREM ReadsBackCorrect == Spec => []ReadsBack
  <1>1. StreamInv => ReadsBack
    BY Zenon DEF StreamInv, Handed, ReadsBack
  <1> QED
    BY <1>1, StreamInvHolds, PTL
-----------------------------------------------------------------------------
(* What is left in the buffer when OnRead returns, and what the handlers    *)
(* see of the bytes.                                                        *)

\* Between two calls of OnRead the buffer holds no complete PDU.
Drained == phase = "wait" => ~IsPduAvailable(m_in_buf)

LEMMA DrainedHolds == Spec => []Drained
  <1>1. Init => Drained
    BY DEF Init, Drained, IsPduAvailable, IM_PDU_HEADER_LEN
  <1>2. StreamInv /\ Drained /\ [Next]_vars => Drained'
    <2> SUFFICES ASSUME StreamInv, Drained, [Next]_vars PROVE Drained'
      OBVIOUS
    <2>1. ASSUME NEW obj \in Objects, Send(obj) PROVE Drained'
      BY <2>1, Zenon DEF Drained, Send
    <2>2. CASE Recv
      BY <2>2 DEF Drained, Recv
    <2>3. CASE RecvEnds
      BY <2>3 DEF Drained, RecvEnds
    <2>4. CASE Handle
      BY <2>4, HandleStep DEF HandsOver, Drained
    <2>5. CASE HandleEnds
      BY <2>5, Zenon DEF Drained, HandleEnds
    <2>6. CASE UNCHANGED vars
      BY <2>6, Zenon DEF Drained, vars
    <2> QED
      BY <2>1, <2>2, <2>3, <2>4, <2>5, <2>6, Zenon DEF Next
  <1> QED
    BY <1>1, <1>2, StreamInvHolds, PTL DEF Spec

\* When OnRead has returned and every byte has arrived, every object that was
\* sent has been handed to HandlePdu: no PDU stays in m_in_buf until the next one
\* comes (imconn.cpp:140-165, the loop of IsPduAvailable).
NothingLeft == phase = "wait" /\ wire = <<>> => Len(got) = Len(sent)

\* No PDU is left in the buffer, for any texts and pieces.
THEOREM NothingLeftCorrect == Spec => []NothingLeft
  <1>1. StreamInv /\ Drained => NothingLeft
    <2> SUFFICES ASSUME StreamInv, Drained, phase = "wait", wire = <<>>
                 PROVE  Len(got) = Len(sent)
      BY Zenon DEF NothingLeft
    <2>1. /\ Buffer /\ Handed /\ m_in_buf \in Seq(Nat)
          /\ sent \in Seq(Objects) /\ got \in Seq(Readable)
          /\ Len(m_in_buf) \in Nat /\ Len(sent) \in Nat /\ Len(got) \in Nat
          /\ Len(got) <= Len(sent)
      BY DEF StreamInv, Buffer, Handed
    <2>2. PICK at : Places(at)
      BY DEF StreamInv
    <2>3. m_in_buf \o wire = m_in_buf
      BY <2>1
    <2>4. ASSUME Len(got) < Len(sent)
          PROVE  FALSE
      <3> DEFINE k == Len(got) + 1
                 w == Written(sent[k])
      <3>1. k \in (Len(got) + 1)..Len(sent) /\ k - 1 = Len(got)
        BY <2>1, <2>4
      <3>2. /\ sent[k] \in Objects /\ Len(w) \in Nat /\ at[k - 1] - at[Len(got)] \in Nat
            /\ (at[k - 1] - at[Len(got)]) + Len(w) <= Len(m_in_buf)
        BY <2>1, <2>2, <2>3, <3>1, PlaceOf
      <3>3. Len(w) >= 12
        BY <3>2, WrittenBytes
      <3> HIDE DEF w
      <3>4. Len(w) <= Len(m_in_buf) /\ Len(m_in_buf) >= 12
        BY <2>1, <3>2, <3>3
      <3>5. U32At(m_in_buf, 0) = Len(w)
        BY <2>4, <3>4, HeadIs, Zenon DEF w
      <3> QED
        BY <3>4, <3>5 DEF Drained, IsPduAvailable, IM_PDU_HEADER_LEN
    <2> QED
      BY <2>1, <2>4
  <1> QED
    BY <1>1, DrainedHolds, StreamInvHolds, PTL

\* What the handlers see of the stream is a PduChannel: the number of an object
\* is delivered when the object that was read is one it may be read as.
Channel == INSTANCE PduChannel
              WITH submitted <- sent,
                   delivered <- [i \in 1..Len(got) |-> IF got[i] \in ReadAs(sent[i]) THEN i ELSE 0]

\* Bytes in pieces of any size, parsed out of m_in_buf, are to the handlers whole
\* PDUs, once each, in order and with the content they were given, as PduChannel
\* says and the server's and the client's handlers assume (OnRead, imconn.cpp:120-168).
THEOREM ImplementsPduChannel == Spec => Channel!Spec
  <1>1. Init => Channel!Init
    <2> SUFFICES ASSUME Init PROVE Channel!Init
      OBVIOUS
    <2>1. sent = <<>> /\ got = <<>> /\ 1..Len(got) = {}
      BY DEF Init
    <2> QED
      BY <2>1 DEF Channel!Init
  <1>2. StreamInv /\ StreamInv' /\ [Next]_vars => [Channel!Next]_(Channel!vars)
    <2> SUFFICES ASSUME StreamInv, StreamInv', [Next]_vars
                 PROVE  [Channel!Next]_(Channel!vars)
      OBVIOUS
    <2> DEFINE seen == [i \in 1..Len(got) |-> IF got[i] \in ReadAs(sent[i]) THEN i ELSE 0]
    <2>1. /\ sent \in Seq(Objects) /\ got \in Seq(Readable) /\ Len(got) <= Len(sent)
          /\ Len(sent) \in Nat /\ Len(got) \in Nat
          /\ \A k \in 1..Len(got) : got[k] \in ReadAs(sent[k])
      BY DEF StreamInv, Handed
    <2>2. /\ sent' \in Seq(Objects) /\ got' \in Seq(Readable)
          /\ \A k \in 1..Len(got)' : got'[k] \in ReadAs(sent'[k])
      BY DEF StreamInv, Handed
    <2>3. seen = [i \in 1..Len(got) |-> i] /\ seen' = [i \in 1..Len(got') |-> i]
      BY <2>1, <2>2
    <2> HIDE DEF seen
    <2>4. ASSUME NEW obj \in Objects, Send(obj)
          PROVE  Channel!Submit
      <3>1. sent' = Append(sent, obj) /\ got' = got
        BY <2>4 DEF Send
      <3>2. Len(sent') > Len(sent) /\ SubSeq(sent', 1, Len(sent)) = sent
        BY <2>1, <3>1
      <3>3. seen' = seen
        BY <2>3, <3>1, Zenon
      <3> QED
        BY <3>2, <3>3 DEF Channel!Submit, seen
    <2>5. ASSUME Handle
          PROVE  Channel!Deliver
      <3>1. /\ Len(got) < Len(sent) /\ Len(got') = Len(got) + 1 /\ sent' = sent
        BY <2>5, HandleStep DEF HandsOver
      <3>2. Len(seen) = Len(got) /\ seen' = Append(seen, Len(seen) + 1)
        BY <2>1, <2>3, <3>1
      <3> QED
        BY <3>1, <3>2 DEF Channel!Deliver, seen
    <2>6. ASSUME UNCHANGED <<sent, got>>
          PROVE  UNCHANGED Channel!vars
      <3>1. seen' = seen
        BY <2>3, <2>6, Zenon
      <3> QED
        BY <2>6, <3>1 DEF Channel!vars, seen
    <2>7. Recv \/ RecvEnds \/ HandleEnds \/ UNCHANGED vars => UNCHANGED <<sent, got>>
      BY DEF Recv, RecvEnds, HandleEnds, vars
    <2> QED
      BY <2>4, <2>5, <2>6, <2>7, Zenon DEF Next, Channel!Next
  <1> QED
    BY <1>1, <1>2, StreamInvHolds, PTL DEF Spec, Channel!Spec
=============================================================================
