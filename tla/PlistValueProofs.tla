--------------------------- MODULE PlistValueProofs ---------------------------
(***************************************************************************)
(* Theorems about what plist.c does to values: how numbers are kept        *)
(* (PlistScalar) and how a dict is sorted (PlistSort). The two modules     *)
(* share nothing.                                                          *)
(*                                                                         *)
(*   ValueAlwaysKept     a number survives setters and both formats;       *)
(*   AlwaysEqualThroughBinary  the binary format gives back an equal node; *)
(*   AlwaysSignedOrder   comparison orders numbers;                        *)
(*   SortLosesNothing    sorting keeps the pairs and the links of the list;*)
(*   SortSorts           it sorts, and keeps pairs with equal keys as they *)
(*                       were.                                             *)
(*                                                                         *)
(* They hold for every even number of values a byte may have, 256 among    *)
(* them, all 8-byte values, dicts of any size and any keys. The powers of  *)
(* a byte and the reading of bytes are functions defined by recursion;     *)
(* Powers and HostOrder say what they are. The list of a dict is described *)
(* by the order of its pairs, of which there is one in every state; the    *)
(* steps of the sort exchange two neighbours of it.                        *)
(***************************************************************************)
EXTENDS PlistScalar, PlistSort, SequenceTheorems, WellFoundedInduction, TLAPS

-----------------------------------------------------------------------------
(***************************************************************************)
(* Numbers                                                                 *)
(***************************************************************************)

\* Division with a remainder, and that there is one result only.
LEMMA Division ==
    ASSUME NEW v \in Nat, NEW b \in Nat \ {0}
    PROVE  v \div b \in Nat /\ v % b \in 0..(b - 1) /\ v = (v \div b) * b + (v % b)
OBVIOUS

LEMMA DivisionIsUnique ==
    ASSUME NEW v \in Nat, NEW b \in Nat \ {0}, NEW q \in Nat, NEW r \in 0..(b - 1),
           v = q * b + r
    PROVE  v \div b = q /\ v % b = r
OBVIOUS

\* The least number that is equal modulo p, near 0.
LEMMA Reduced ==
    ASSUME NEW p \in Nat \ {0}, NEW v \in Int
    PROVE  /\ 0 <= v /\ v < p => v % p = v
           /\ -p <= v /\ v < 0 => v % p = v + p
OBVIOUS

\* To divide by a product is to divide twice.
LEMMA DivisionTwice ==
    ASSUME NEW v \in Nat, NEW a \in Nat \ {0}, NEW b \in Nat \ {0}
    PROVE  v \div (a * b) = (v \div a) \div b
<1>1. PICK q \in Nat, r \in 0..(a - 1) : q = v \div a /\ v = q * a + r
  BY Division
<1>2. PICK m \in Nat, n \in 0..(b - 1) : m = q \div b /\ q = m * b + n
  BY Division
<1>3. a * b \in Nat \ {0} /\ n * a + r \in 0..(a * b - 1)
  <2>1. n + 1 <= b  BY <1>2
  <2>2. (n + 1) * a <= b * a  BY <2>1, <1>2
  <2> QED  BY <2>2, <1>1, <1>2
<1>4. v = m * (a * b) + (n * a + r)
  <2>1. v = (m * b + n) * a + r  BY <1>1, <1>2
  <2>2. PICK x \in Nat : x = m * b  BY <1>2
  <2>3. (x + n) * a = x * a + n * a  BY <1>2, <2>2
  <2>4. \A i, j, k \in Nat : (i * j) * k = i * (k * j)  OBVIOUS
  <2>5. x * a = m * (a * b)  BY <1>2, <2>2, <2>4
  <2>6. v = (x + n) * a + r  BY <2>1, <2>2
  <2> QED  BY <2>3, <2>5, <2>6, <1>1, <1>2
<1>5. PICK c \in Nat \ {0}, w \in Nat : w <= c - 1 /\ c = a * b /\ w = n * a + r  BY <1>3
<1>6. v = m * c + w  BY <1>4, <1>5
<1>6a. w \in 0..(c - 1)  BY <1>5
<1>7. v \div c = m  BY ONLY v \in Nat, c \in Nat \ {0}, m \in Nat, <1>6, <1>6a
<1>8. (v \div a) \div b = m  BY <1>1, <1>2
<1> QED  BY <1>5, <1>7, <1>8

\* Another last digit leaves a number below p * b.
LEMMA LastDigit ==
    ASSUME NEW p \in Nat, NEW b \in Nat \ {0}, NEW x \in Nat, x < p * b, NEW v \in 0..(b - 1)
    PROVE  LET w == x - (x % b) + v
           IN  w \in Nat /\ w < p * b /\ w % b = v
<1>1. PICK q \in Nat, r \in 0..(b - 1) : r = x % b /\ x = q * b + r  BY Division
<1>2. PICK w \in Int : w = x - (x % b) + v  BY <1>1
<1>3. w = q * b + v /\ w \in Nat  BY <1>1, <1>2
<1>4. w % b = v  BY ONLY <1>3, v \in 0..(b - 1), b \in Nat \ {0}, q \in Nat
<1>5. q < p
  <2>1. p <= q => p * b <= q * b  OBVIOUS
  <2>2. p * b \in Nat /\ q * b \in Nat  OBVIOUS
  <2> QED  BY <1>1, <2>1, <2>2
<1>6. w < p * b
  <2>1. (q + 1) * b <= p * b /\ (q + 1) * b = q * b + b  BY <1>5
  <2>2. p * b \in Nat /\ q * b \in Nat  OBVIOUS
  <2> QED  BY <1>3, <2>1, <2>2
<1> QED  BY <1>2, <1>3, <1>4, <1>6

LEMMA LeastCounterexample ==
    ASSUME NEW T \in SUBSET Nat, T # {}
    PROVE  \E n \in T : \A m \in T : n <= m
<1>1. \E n \in T : \A m \in T : <<m, n>> \notin OpToRel(<, Nat)
  BY NatLessThanWellFounded, WFMin
<1>2. \A m, n \in Nat : m < n => <<m, n>> \in OpToRel(<, Nat)  BY DEF OpToRel
<1>3. T \subseteq Nat  OBVIOUS
<1>4. \A m, n \in T : ~(m < n) => n <= m  BY <1>3
<1> QED  BY <1>1, <1>2, <1>3, <1>4

-----------------------------------------------------------------------------
\* What Power is.
LEMMA Powers ==
    /\ Byte \in Nat /\ Byte >= 2
    /\ Power[0] = 1
    /\ \A n \in 0..7 : Power[n + 1] = Power[n] * Byte
    /\ \A n \in 0..8 : Power[n] \in Nat \ {0}
    /\ \A n, m \in 0..8 : m <= n => Power[m] <= Power[n]
<1>1. Byte \in Nat /\ Byte >= 2  BY ByteAssumption
<1> DEFINE Solves(f) == f = [n \in 0..8 |-> IF n = 0 THEN 1 ELSE f[n - 1] * Byte]
           b1 == 1 * Byte
           b2 == b1 * Byte
           b3 == b2 * Byte
           b4 == b3 * Byte
           b5 == b4 * Byte
           b6 == b5 * Byte
           b7 == b6 * Byte
           b8 == b7 * Byte
           g == [n \in 0..8 |-> IF n = 0 THEN 1 ELSE IF n = 1 THEN b1 ELSE IF n = 2 THEN b2
                                ELSE IF n = 3 THEN b3 ELSE IF n = 4 THEN b4 ELSE IF n = 5 THEN b5
                                ELSE IF n = 6 THEN b6 ELSE IF n = 7 THEN b7 ELSE b8]
<1>2. \E f : Solves(f)
  <2>1. \A n \in 0..8 : g[n] = IF n = 0 THEN 1 ELSE g[n - 1] * Byte
    <3> SUFFICES ASSUME NEW n \in 0..8
                 PROVE  g[n] = IF n = 0 THEN 1 ELSE g[n - 1] * Byte
      OBVIOUS
    <3>1. n \in {0, 1, 2, 3, 4, 5, 6, 7, 8}  OBVIOUS
    <3> HIDE DEF b1, b2, b3, b4, b5, b6, b7, b8
    <3>2. /\ g[0] = 1 /\ g[1] = b1 /\ g[2] = b2 /\ g[3] = b3 /\ g[4] = b4
          /\ g[5] = b5 /\ g[6] = b6 /\ g[7] = b7 /\ g[8] = b8
      OBVIOUS
    <3> HIDE DEF g
    <3>3. n = 0 \/ g[n] = g[n - 1] * Byte
      BY <3>1, <3>2 DEF b1, b2, b3, b4, b5, b6, b7, b8
    <3> QED  BY <3>1, <3>2, <3>3
  <2>2. Solves(g)
    <3> g = [n \in 0..8 |-> g[n]]  OBVIOUS
    <3> HIDE DEF g
    <3> QED  BY <2>1
  <2> QED  BY <2>2
<1>3. Solves(Power)
  <2>1. Power = CHOOSE f : Solves(f)  BY DEF Power
  <2> HIDE DEF Solves
  <2> QED  BY <1>2, <2>1
<1>4. Power[0] = 1 /\ \A n \in 0..7 : Power[n + 1] = Power[n] * Byte
  <2>1. Power[0] = 1  BY <1>3
  <2>2. ASSUME NEW n \in 0..7 PROVE Power[n + 1] = Power[n] * Byte
    <3>1. n + 1 \in 0..8 /\ n + 1 # 0 /\ (n + 1) - 1 = n  OBVIOUS
    <3> QED  BY <3>1, <1>3
  <2> QED  BY <2>1, <2>2
<1>5. ASSUME NEW a \in Nat \ {0} PROVE a * Byte \in Nat \ {0} /\ a <= a * Byte
  BY <1>1
<1>6. \A n \in 0..7 : Power[n] \in Nat \ {0} => /\ Power[n + 1] \in Nat \ {0}
                                                /\ Power[n] <= Power[n + 1]
  BY <1>4, <1>5
<1>7. \A n \in 0..8 : Power[n] \in Nat \ {0}
  <2>1. Power[0] \in Nat \ {0}  BY <1>4
  <2>2. Power[1] \in Nat \ {0}  BY <2>1, <1>6
  <2>3. Power[2] \in Nat \ {0}  BY <2>2, <1>6
  <2>4. Power[3] \in Nat \ {0}  BY <2>3, <1>6
  <2>5. Power[4] \in Nat \ {0}  BY <2>4, <1>6
  <2>6. Power[5] \in Nat \ {0}  BY <2>5, <1>6
  <2>7. Power[6] \in Nat \ {0}  BY <2>6, <1>6
  <2>8. Power[7] \in Nat \ {0}  BY <2>7, <1>6
  <2>9. Power[8] \in Nat \ {0}  BY <2>8, <1>6
  <2> QED  BY <2>1, <2>2, <2>3, <2>4, <2>5, <2>6, <2>7, <2>8, <2>9
<1>8. \A n \in 0..7 : Power[n] <= Power[n + 1]  BY <1>6, <1>7
<1>9. \A n, m \in 0..8 : m <= n => Power[m] <= Power[n]
  <2>1. /\ Power[0] <= Power[1] /\ Power[1] <= Power[2] /\ Power[2] <= Power[3]
        /\ Power[3] <= Power[4] /\ Power[4] <= Power[5] /\ Power[5] <= Power[6]
        /\ Power[6] <= Power[7] /\ Power[7] <= Power[8]
    BY <1>8
  <2> QED  BY <2>1, <1>7
<1> QED  BY <1>1, <1>4, <1>7, <1>9

\* Half of the words have the sign bit.
LEMMA Halves ==
    /\ Power[8] = 2 * (Power[8] \div 2) /\ Power[8] \div 2 \in Nat \ {0}
    /\ INT64_MAX \in Nat /\ INT64_MAX + 1 = Power[8] \div 2
    /\ INT_MAX \in Nat /\ INT_MAX <= INT64_MAX
    /\ Power[8] \in Nat \ {0}
<1>1. Power[7] \in Nat \ {0} /\ Power[8] = Power[7] * Byte /\ Power[4] \in Nat \ {0}
      /\ Power[8] \in Nat \ {0} /\ Power[4] = Power[3] * Byte /\ Power[3] \in Nat \ {0}
      /\ Power[4] <= Power[8]
  BY Powers
<1>2. PICK h \in Nat \ {0} : Byte = 2 * h
  <2>1. Byte \in Nat /\ Byte >= 2 /\ Byte % 2 = 0  BY Powers, ByteAssumption
  <2>2. Byte = 2 * (Byte \div 2) /\ Byte \div 2 \in Nat \ {0}  BY <2>1
  <2> QED  BY <2>2
<1>3. \A a \in Nat \ {0} : a * (2 * h) = 2 * (a * h) /\ a * h \in Nat \ {0}  BY <1>2
<1>4. PICK a \in Nat \ {0}, b \in Nat \ {0} : Power[8] = 2 * a /\ Power[4] = 2 * b
  BY <1>1, <1>2, <1>3
<1>5. Power[8] \div 2 = a /\ Power[4] \div 2 = b /\ b <= a  BY <1>1, <1>4
<1> QED  BY <1>1, <1>4, <1>5 DEF INT64_MAX, INT_MAX

\* Reading the bytes of a number gives the number.
LEMMA HostOrder ==
    ASSUME NEW size \in Nat, NEW low \in Nat, low = (IF size > 8 THEN size - 8 ELSE 0),
           NEW bytes, NEW bits \in Nat, bits < Power[size - low],
           \A i \in (low + 1)..size : bytes[i] = (bits \div Power[size - i]) % Byte
    PROVE  UINT_TO_HOST(bytes, size) = bits
<1> DEFINE Solves(f) ==
               f = [i \in 0..size |-> IF i = 0 \/ i <= size - 8 THEN 0
                                      ELSE f[i - 1] * Byte + bytes[i]]
           g == [i \in 0..size |-> IF i <= low THEN 0 ELSE bits \div Power[size - i]]
           u == CHOOSE f : Solves(f)
<1>0. Byte \in Nat \ {0}  BY Powers
<1>1. size - low \in 0..8 /\ low <= size
      /\ \A i \in 0..size : (i = 0 \/ i <= size - 8) <=> i <= low
  OBVIOUS
<1>2. ASSUME NEW i \in 0..size, ~(i <= low)
      PROVE  g[i] = g[i - 1] * Byte + bytes[i]
  <2>1. /\ i \in (low + 1)..size /\ size - i \in 0..7 /\ i - 1 \in 0..size
        /\ (size - i) + 1 = size - (i - 1) /\ i # 0
    BY <1>1, <1>2
  <2>2. PICK p \in Nat \ {0} : p = Power[size - i] /\ Power[size - (i - 1)] = p * Byte
    BY <2>1, Powers
  <2>3. PICK q \in Nat : q = bits \div p  BY <2>2, Division
  <2>4. bits \div (p * Byte) = q \div Byte  
    BY ONLY <1>0, <2>2, <2>3, bits \in Nat, p \in Nat \ {0}, DivisionTwice
  <2>5. g[i] = q  BY <2>2, <2>3, <1>2
  <2>6. g[i - 1] = q \div Byte
    <3>1. CASE i - 1 <= low
      <4>1. i - 1 = low  BY <3>1, <2>1
      <4>2. bits < p * Byte /\ p * Byte \in Nat \ {0}  BY <4>1, <2>2, Powers
      <4>3. bits \div (p * Byte) = 0  BY <4>2
      <4> QED  BY <4>3, <2>4, <3>1, <2>1
    <3>2. CASE ~(i - 1 <= low)
      BY <3>2, <2>4, <2>2, <2>1
    <3> QED  BY <3>1, <3>2
  <2>7. bytes[i] = q % Byte  BY <2>1, <2>2, <2>3
  <2>8. q = (q \div Byte) * Byte + (q % Byte)  BY <1>0, Division
  <2> HIDE DEF g
  <2> QED  BY <2>5, <2>6, <2>7, <2>8
<1>3. Solves(g)
  <2>1. \A i \in 0..size : g[i] = IF i = 0 \/ i <= size - 8 THEN 0
                                  ELSE g[i - 1] * Byte + bytes[i]
    <3>1. \A i \in 0..size : i <= low => g[i] = 0  OBVIOUS
    <3> HIDE DEF g
    <3> QED  BY <3>1, <1>1, <1>2
  <2>2. g = [i \in 0..size |-> g[i]]  OBVIOUS
  <2> HIDE DEF g
  <2> QED  BY <2>1, <2>2
<1>4. Solves(u)
  <2> HIDE DEF Solves
  <2> QED  BY <1>3
<1> DEFINE T == {i \in 0..size : u[i] # g[i]}
<1>5. T = {}
  <2> SUFFICES ASSUME T # {} PROVE FALSE  OBVIOUS
  <2>1. PICK i \in T : \A m \in T : i <= m
    <3> HIDE DEF u, g
    <3> T \in SUBSET Nat  OBVIOUS
    <3> HIDE DEF T
    <3> QED  BY LeastCounterexample
  <2>2. i \in 0..size /\ u[i] # g[i] /\ \A m \in 0..size : m < i => u[m] = g[m]
    <3> HIDE DEF u, g
    <3> QED  BY <2>1
  <2>3. /\ g[i] = IF i = 0 \/ i <= size - 8 THEN 0 ELSE g[i - 1] * Byte + bytes[i]
        /\ u[i] = IF i = 0 \/ i <= size - 8 THEN 0 ELSE u[i - 1] * Byte + bytes[i]
    <3> HIDE DEF u, g
    <3> QED  BY <1>3, <1>4, <2>2
  <2> HIDE DEF u, g
  <2> QED  BY <2>2, <2>3
<1>6. u[size] = bits
  <2>1. u[size] = g[size]
    <3> HIDE DEF u, g
    <3> QED  BY <1>5
  <2>2. g[size] = bits
    <3>1. CASE size <= low  BY <3>1, <1>1, Powers
    <3>2. CASE ~(size <= low)
      <4>1. g[size] = bits \div Power[0]  BY <3>2
      <4> QED  BY <4>1, Powers
    <3> QED  BY <3>1, <3>2
  <2> QED  BY <2>1, <2>2
<1> HIDE DEF g
<1>7. UINT_TO_HOST(bytes, size) = u[size]  BY DEF UINT_TO_HOST
<1> QED  BY <1>6, <1>7

-----------------------------------------------------------------------------
(***************************************************************************)
(* The binary format.                                                      *)
(***************************************************************************)
\* What is written in as many bytes as it needs is read back.
LEMMA BytesBack ==
    ASSUME NEW size \in 1..8, NEW bits \in Nat, bits < Power[size]
    PROVE  UINT_TO_HOST(BigEndian(bits, size), size) = bits
<1> DEFINE bytes == BigEndian(bits, size)
<1>1. \A i \in 1..size : bytes[i] = (bits \div Power[size - i]) % Byte  BY DEF BigEndian
<1>2. size \in Nat /\ ~(size > 8) /\ size - 0 = size /\ 0 + 1 = 1  OBVIOUS
<1> HIDE DEF bytes
<1>3. UINT_TO_HOST(bytes, size) = bits
  <2>1. /\ 0 \in Nat /\ 0 = (IF size > 8 THEN size - 8 ELSE 0) /\ bits < Power[size - 0]
        /\ \A i \in (0 + 1)..size : bytes[i] = (bits \div Power[size - i]) % Byte
    BY <1>1, <1>2
  <2> QED  BY <2>1, <1>2, HostOrder
<1> QED  BY <1>3 DEF bytes

LEMMA SecondHalf ==
    ASSUME NEW S, NEW a \in Seq(S), NEW b \in Seq(S), Len(a) = 8, Len(b) = 8, NEW i \in 9..16
    PROVE  (a \o b)[i] = b[i - 8]
<1>1. \A j \in 1..(Len(a) + Len(b)) : (a \o b)[j] = IF j <= Len(a) THEN a[j] ELSE b[j - Len(a)]
  BY ConcatProperties
<1>2. i \in 1..(Len(a) + Len(b)) /\ ~(i <= Len(a)) /\ i - Len(a) = i - 8  OBVIOUS
<1> QED  BY <1>1, <1>2

\* The 8 bytes after 8 that are 0.
LEMMA PaddedBytesBack ==
    ASSUME NEW bits \in Words
    PROVE  UINT_TO_HOST(BigEndian(0, 8) \o BigEndian(bits, 8), 16) = bits
<1> DEFINE zeros == BigEndian(0, 8)
           tail == BigEndian(bits, 8)
           values == {zeros[i] : i \in 1..8} \cup {tail[i] : i \in 1..8}
           bytes == zeros \o tail
<1>1. /\ Power[8] \in Nat /\ bits \in Nat /\ bits < Power[8]  BY Powers DEF Words
<1>2. /\ \A i \in 1..8 : tail[i] = (bits \div Power[8 - i]) % Byte
      /\ zeros \in Seq(values) /\ Len(zeros) = 8
      /\ tail \in Seq(values) /\ Len(tail) = 8
  BY DEF BigEndian
<1> HIDE DEF zeros, tail, values
<1>3. \A i \in 9..16 : bytes[i] = tail[i - 8]
  <2>1. /\ zeros \in Seq(values) /\ Len(zeros) = 8
        /\ tail \in Seq(values) /\ Len(tail) = 8
    BY <1>2
  <2> QED  BY ONLY <2>1, SecondHalf
<1>4. ASSUME NEW i \in 9..16 PROVE bytes[i] = (bits \div Power[16 - i]) % Byte
  <2>1. i - 8 \in 1..8 /\ 8 - (i - 8) = 16 - i  OBVIOUS
  <2> QED  BY <2>1, <1>2, <1>3
<1> HIDE DEF bytes
<1>5. \A size, low \in Nat : size = 16 /\ low = 8 => UINT_TO_HOST(bytes, size) = bits
  <2> SUFFICES ASSUME NEW size \in Nat, NEW low \in Nat, size = 16, low = 8
               PROVE  UINT_TO_HOST(bytes, size) = bits
    OBVIOUS
  <2>1. /\ low = (IF size > 8 THEN size - 8 ELSE 0) /\ bits < Power[size - low]
        /\ \A i \in (low + 1)..size : bytes[i] = (bits \div Power[size - i]) % Byte
    BY <1>1, <1>4
  <2>2. bits \in Nat  BY <1>1
  <2> QED  BY ONLY size \in Nat, low \in Nat, <2>1, <2>2, HostOrder
<1>6. UINT_TO_HOST(bytes, 16) = bits  BY <1>5
<1> QED  BY <1>6 DEF bytes, zeros, tail

\* The size that is chosen is one the reader knows, and is enough.
LEMMA SizeIsEnough ==
    ASSUME NEW bits \in Words
    PROVE  LET size == whole_size(get_needed_bytes(bits))
           IN  /\ size \in {1, 2, 4, 8} /\ bits < Power[size]
               /\ bits < Power[4] => size # 8
<1>1. bits \in Nat /\ bits < Power[8] /\ \A n \in 0..8 : Power[n] \in Nat
  BY Powers DEF Words
<1>2. Power[3] <= Power[4]  BY Powers
<1>3. CASE bits < Power[3]  BY <1>1, <1>2, <1>3 DEF get_needed_bytes, whole_size
<1>4. CASE ~(bits < Power[3])
  <2>1. Power[1] <= Power[3] /\ Power[2] <= Power[3]  BY Powers
  <2>2. get_needed_bytes(bits) = IF bits < Power[4] THEN 4 ELSE 8
    BY <1>1, <1>4, <2>1 DEF get_needed_bytes
  <2> QED  BY <1>1, <2>2 DEF whole_size
<1> QED  BY <1>3, <1>4

Nodes == [type : {"int", "uid", "bool"}, bits : Words, length : {1, 8, 16}]

\* An integer comes back from the binary format as it was, its sign included.
LEMMA IntThroughBinary ==
    ASSUME NEW n \in Nodes, n.type = "int", n.length \in {8, 16}
    PROVE  from_bin(to_bin(n)) = n
<1>1. n.bits \in Words /\ n = [type |-> "int", bits |-> n.bits, length |-> n.length]
  BY DEF Nodes
<1>2. CASE n.length = 16
  <2>1. to_bin(n) = write_uint(n.bits)  BY <1>2 DEF to_bin
  <2> DEFINE o == write_uint(n.bits)
  <2>2. o.marker = "int" /\ o.low = 4 /\ o.bytes = BigEndian(0, 8) \o BigEndian(n.bits, 8)
    BY DEF write_uint, Object
  <2>3. 2 ^ 4 = 16  OBVIOUS
  <2>4. UINT_TO_HOST(o.bytes, 16) = n.bits  BY <1>1, <2>2, PaddedBytesBack
  <2> HIDE DEF o
  <2>5. parse_int_node(o) = [type |-> "int", bits |-> n.bits, length |-> 16]
    BY <2>2, <2>3, <2>4 DEF parse_int_node, parsed_length
  <2>6. from_bin(o) = parse_int_node(o)  BY <2>2 DEF from_bin
  <2> QED  BY <1>1, <1>2, <2>1, <2>5, <2>6 DEF o
<1>3. CASE n.length = 8
  <2>1. to_bin(n) = write_int(n.bits)  BY <1>3 DEF to_bin
  <2> DEFINE size == whole_size(get_needed_bytes(n.bits))
             o == write_int(n.bits)
  <2>2. size \in {1, 2, 4, 8} /\ n.bits < Power[size]  BY <1>1, SizeIsEnough
  <2>3. o.marker = "int" /\ o.low = Log2(size) /\ o.bytes = BigEndian(n.bits, size)
    BY DEF write_int, Object
  <2> HIDE DEF o, size
  <2>4. 2 ^ Log2(size) = size
    <3>1. 2 ^ 0 = 1 /\ 2 ^ 1 = 2 /\ 2 ^ 2 = 4 /\ 2 ^ 3 = 8  OBVIOUS
    <3>2. Log2(1) = 0 /\ Log2(2) = 1 /\ Log2(4) = 2 /\ Log2(8) = 3  BY DEF Log2
    <3> QED  BY <2>2, <3>1, <3>2
  <2>5. UINT_TO_HOST(o.bytes, size) = n.bits
    <3>1. size \in 1..8 /\ n.bits \in Nat  BY <1>1, <2>2, Powers DEF Words
    <3> QED  BY <2>2, <2>3, <3>1, BytesBack
  <2>6. parse_int_node(o) = [type |-> "int", bits |-> n.bits, length |-> 8]
    BY <2>2, <2>3, <2>4, <2>5 DEF parse_int_node, parsed_length
  <2>7. from_bin(o) = parse_int_node(o)  BY <2>3 DEF from_bin
  <2> QED  BY <1>1, <1>3, <2>1, <2>6, <2>7 DEF o
<1> QED  BY <1>2, <1>3

\* A UID comes back with 32 bits.
LEMMA UidThroughBinary ==
    ASSUME NEW n \in Nodes, n.type = "uid"
    PROVE  from_bin(to_bin(n)) = plist_new_uid(n.bits % Power[4])
<1> DEFINE val == n.bits % Power[4]
           size == whole_size(get_needed_bytes(val))
           o == write_uid(n.bits)
<1>1. n.bits \in Words /\ n.bits \in Nat /\ Power[4] \in Nat \ {0} /\ Power[4] <= Power[8]
      /\ Power[8] \in Nat
  BY Powers DEF Nodes, Words
<1>2. val \in Nat /\ val < Power[4] /\ val \in Words  BY <1>1 DEF Words
<1>3. UINT32_MAX + 1 = Power[4]  BY <1>1 DEF UINT32_MAX
<1>4. to_bin(n) = o  BY DEF to_bin
<1>5. o.marker = "uid" /\ o.low = size - 1 /\ o.bytes = BigEndian(val, size)
  BY <1>3 DEF write_uid, Object
<1> HIDE DEF val
<1>6. size \in {1, 2, 4} /\ val < Power[size]
  <2>1. size \in {1, 2, 4, 8} /\ val < Power[size] /\ size # 8  BY <1>2, SizeIsEnough
  <2> QED  BY <2>1
<1> HIDE DEF o, size
<1>7. UINT_TO_HOST(o.bytes, size) = val
  <2>1. size \in 1..8  BY <1>6
  <2> QED  BY <1>2, <1>5, <1>6, <2>1, BytesBack
<1>8. o.low + 1 = size  BY <1>5, <1>6
<1>9. parse_uid_node(o) = plist_new_uid(val)
  BY <1>1, <1>2, <1>7, <1>8 DEF parse_uid_node, UINT32_MAX
<1>10. from_bin(o) = parse_uid_node(o)  BY <1>5 DEF from_bin
<1> QED  BY <1>4, <1>9, <1>10 DEF val

LEMMA BoolThroughBinary ==
    ASSUME NEW n \in Nodes, n.type = "bool"
    PROVE  from_bin(to_bin(n)) = plist_new_bool(IF LowByte(n.bits) # 0 THEN 1 ELSE 0)
BY DEF to_bin, from_bin, Object

-----------------------------------------------------------------------------
(***************************************************************************)
(* The XML format.                                                         *)
(***************************************************************************)
\* The numbers a node can hold.
Numbers == {num \in Int : -(INT64_MAX + 1) <= num /\ num < Power[8]}

LEMMA NumberOfNode ==
    ASSUME NEW n \in Nodes, n.type = "int", n.length \in {8, 16}
    PROVE  /\ to_xml(n) \in Numbers
           /\ plist_int_val_is_negative(n) = (to_xml(n) < 0)
BY Halves DEF Nodes, Words, Numbers, to_xml, Signed, plist_int_val_is_negative

LEMMA NumberThroughXml ==
    ASSUME NEW num \in Numbers
    PROVE  LET n == from_xml(num)
           IN  n \in Nodes /\ n.type = "int" /\ n.length \in {8, 16} /\ to_xml(n) = num
<1>1. num \in Int /\ -(INT64_MAX + 1) <= num /\ num < Power[8]  BY DEF Numbers
<1> DEFINE n == from_xml(num)
<1>2. CASE num < 0
  <2>1. ~xml_out_of_range(TRUE, -num)  BY <1>1, Halves DEF xml_out_of_range
  <2>2. num % Power[8] = num + Power[8]
    <3>1. Power[8] \in Nat \ {0} /\ -Power[8] <= num  BY <1>1, Halves
    <3> QED  BY <3>1, <1>1, <1>2, Reduced
  <2>3. n = [type |-> "int", bits |-> num + Power[8], length |-> 8]
    BY <1>2, <2>1, <2>2 DEF from_xml, Bits
  <2>4. PICK w \in Words : w = num + Power[8] /\ w > INT64_MAX /\ w - Power[8] = num
    BY <1>1, <1>2, Halves DEF Words
  <2>5. Signed(w) = num  BY <2>4 DEF Signed
  <2>6. n = [type |-> "int", bits |-> w, length |-> 8]  BY <2>3, <2>4
  <2> HIDE DEF n
  <2>7. n \in Nodes /\ n.type = "int" /\ n.length = 8 /\ n.bits = w  BY <2>6 DEF Nodes
  <2>8. to_xml(n) = num  BY <2>5, <2>7 DEF to_xml
  <2> QED  BY <2>7, <2>8 DEF n
<1>3. CASE ~(num < 0)
  <2>1. num % Power[8] = num /\ num \in Words
    <3>1. Power[8] \in Nat \ {0}  BY Halves
    <3>2. num % Power[8] = num  BY <3>1, <1>1, <1>3, Reduced
    <3> QED  BY <3>1, <3>2, <1>1, <1>3 DEF Words
  <2>2. n = [type |-> "int", bits |-> num, length |-> IF num <= INT64_MAX THEN 8 ELSE 16]
    BY <1>3, <2>1 DEF from_xml, Bits, xml_out_of_range
  <2> HIDE DEF n
  <2> QED  BY <1>1, <2>1, <2>2, Halves DEF Nodes, to_xml, Signed, n
<1> QED  BY <1>2, <1>3

-----------------------------------------------------------------------------
(***************************************************************************)
(* Every call.                                                             *)
(***************************************************************************)
\* The node holds what was meant, by the rules of its type.
Holds(n, num) ==
    /\ n \in Nodes /\ num \in Int
    /\ n.type = "int" => n.length \in {8, 16} /\ to_xml(n) = num
    /\ n.type = "uid" => (num <= UINT32_MAX => n.bits = num)
    /\ n.type = "bool" => ((LowByte(n.bits) # 0) = (num # 0))

IInv == Holds(node, meant)

\* Zero is a byte, and bytes are words.
LEMMA BytesAreWords ==
    ASSUME NEW v \in 0..(Byte - 1)
    PROVE  v \in Words /\ LowByte(v) = v
<1>1. Byte \in Nat \ {0} /\ Power[8] \in Nat /\ Byte <= Power[8]
  <2>1. Power[1] <= Power[8] /\ Power[0 + 1] = 1 * Byte /\ Power[1] \in Nat /\ Power[8] \in Nat
    BY Powers
  <2> QED  BY <2>1, Powers
<1>2. v \in Words  BY <1>1 DEF Words
<1>3. v % Byte = v  BY <1>1, Reduced
<1> QED  BY <1>2, <1>3 DEF LowByte

LEMMA NewBoolHolds ==
    ASSUME NEW v \in 0..(Byte - 1)
    PROVE  Holds(plist_new_bool(v), v)
BY BytesAreWords, Powers DEF Holds, plist_new_bool, Nodes

\* One byte of the word is replaced.
LEMMA SetBoolHolds ==
    ASSUME NEW n \in Nodes, NEW v \in 0..(Byte - 1)
    PROVE  Holds(plist_set_bool_val(n, v), v)
<1> DEFINE w == n.bits - LowByte(n.bits) + v
<1>1. Byte \in Nat \ {0} /\ Power[7] \in Nat /\ Power[8] = Power[7] * Byte  BY Powers
<1>2. n.bits \in Nat /\ n.bits < Power[7] * Byte /\ Power[7] * Byte \in Nat
  BY <1>1 DEF Nodes, Words
<1>3. w \in Nat /\ w < Power[7] * Byte /\ LowByte(w) = v
  BY <1>1, <1>2, LastDigit DEF LowByte
<1>4. w \in Words  BY <1>1, <1>2, <1>3 DEF Words
<1>5. plist_set_bool_val(n, v) = [type |-> "bool", bits |-> w, length |-> 1]
  BY DEF plist_set_bool_val
<1> HIDE DEF w
<1> QED  BY <1>1, <1>3, <1>4, <1>5 DEF Holds, Nodes

\* The constructors and setters of integers and UIDs.
LEMMA NewNumberHolds ==
    ASSUME NEW v \in Words, NEW n
    PROVE  /\ Holds(plist_new_int(v), Signed(v))
           /\ Holds(plist_new_uint(v), v)
           /\ Holds(plist_set_uint_val(n, v), v)
           /\ Holds(plist_new_uid(v), v)
<1>1. /\ v \in Nat /\ v < Power[8] /\ Power[8] \in Nat
      /\ INT64_MAX \in Nat /\ INT_MAX \in Nat /\ INT_MAX <= INT64_MAX
  BY Halves DEF Words
<1>2. Holds(plist_new_int(v), Signed(v))
  BY <1>1 DEF Holds, plist_new_int, Nodes, to_xml, Signed
<1>3. Holds(plist_new_uint(v), v)
  BY <1>1 DEF Holds, plist_new_uint, Nodes, to_xml, Signed
<1>4. Holds(plist_set_uint_val(n, v), v)
  BY <1>1 DEF Holds, plist_set_uint_val, Nodes, to_xml, Signed
<1>5. Holds(plist_new_uid(v), v)
  BY <1>1 DEF Holds, plist_new_uid, Nodes
<1> QED  BY <1>2, <1>3, <1>4, <1>5

\* A conversion to the binary format and back.
LEMMA BinaryHolds ==
    ASSUME NEW n, NEW num, Holds(n, num)
    PROVE  Holds(from_bin(to_bin(n)), num)
<1>1. n \in Nodes /\ num \in Int /\ n.type \in {"int", "uid", "bool"}  BY DEF Holds, Nodes
<1>2. CASE n.type = "int"
  BY <1>1, <1>2, IntThroughBinary DEF Holds
<1>3. CASE n.type = "uid"
  <2> DEFINE val == n.bits % Power[4]
  <2>1. from_bin(to_bin(n)) = plist_new_uid(val)  BY <1>1, <1>3, UidThroughBinary
  <2>2. n.bits \in Nat /\ Power[4] \in Nat \ {0} /\ Power[4] <= Power[8] /\ Power[8] \in Nat
    BY <1>1, Powers DEF Nodes, Words
  <2>3. val \in 0..(Power[4] - 1)  BY <2>2, Division
  <2>4. val \in Words  BY <2>2, <2>3 DEF Words
  <2>5. num <= UINT32_MAX => val = num
    <3> SUFFICES ASSUME num <= UINT32_MAX PROVE val = num  OBVIOUS
    <3>1. n.bits = num  BY <1>3 DEF Holds
    <3>2. 0 <= n.bits /\ n.bits < Power[4]  BY <2>2, <3>1 DEF UINT32_MAX
    <3> QED  BY <2>2, <3>1, <3>2, Reduced
  <2> HIDE DEF val
  <2> QED  BY <1>1, <2>1, <2>4, <2>5 DEF Holds, plist_new_uid, Nodes
<1>4. CASE n.type = "bool"
  <2> DEFINE b == IF LowByte(n.bits) # 0 THEN 1 ELSE 0
  <2>1. from_bin(to_bin(n)) = plist_new_bool(b)  BY <1>1, <1>4, BoolThroughBinary
  <2>2. b \in 0..(Byte - 1)  BY Powers
  <2>3. Holds(plist_new_bool(b), b)  BY <2>2, NewBoolHolds
  <2>4. (b # 0) = (num # 0)  BY <1>4 DEF Holds
  <2> HIDE DEF b
  <2> QED  BY <1>1, <2>1, <2>3, <2>4 DEF Holds, plist_new_bool
<1> QED  BY <1>1, <1>2, <1>3, <1>4

LEMMA XmlHolds ==
    ASSUME NEW n, NEW num, Holds(n, num), n.type = "int"
    PROVE  Holds(from_xml(to_xml(n)), num)
<1>1. n \in Nodes /\ n.length \in {8, 16} /\ to_xml(n) = num /\ num \in Int  BY DEF Holds
<1>2. num \in Numbers  BY <1>1, NumberOfNode
<1>3. /\ from_xml(num) \in Nodes /\ from_xml(num).type = "int"
      /\ from_xml(num).length \in {8, 16} /\ to_xml(from_xml(num)) = num
  BY <1>2, NumberThroughXml
<1> QED  BY <1>1, <1>3 DEF Holds

THEOREM InitHolds == Init => IInv
<1>1. 0 \in 0..(Byte - 1)  BY Powers
<1> QED  BY <1>1, NewBoolHolds DEF Init, IInv

THEOREM NextHolds == IInv /\ [Next]_vars => IInv'
<1> SUFFICES ASSUME IInv, [Next]_vars PROVE IInv'
  OBVIOUS
<1>1. Holds(node, meant) /\ Vals \subseteq Words  BY ValsAssumption DEF IInv
<1>2. CASE NewInt  BY <1>1, <1>2, NewNumberHolds DEF NewInt, IInv
<1>3. CASE NewUint  BY <1>1, <1>3, NewNumberHolds DEF NewUint, IInv
<1>4. CASE NewUid  BY <1>1, <1>4, NewNumberHolds DEF NewUid, IInv
<1>5. CASE NewBool  BY <1>5, NewBoolHolds DEF NewBool, IInv
<1>6. CASE SetUint  BY <1>1, <1>6, NewNumberHolds DEF SetUint, IInv
<1>7. CASE SetBool  BY <1>1, <1>7, SetBoolHolds DEF SetBool, IInv, Holds
<1>8. CASE ThroughBinary  BY <1>1, <1>8, BinaryHolds DEF ThroughBinary, IInv
<1>9. CASE ThroughXml  BY <1>1, <1>9, XmlHolds DEF ThroughXml, IInv
<1>10. CASE UNCHANGED vars  BY <1>1, <1>10 DEF vars, IInv
<1> QED  BY <1>2, <1>3, <1>4, <1>5, <1>6, <1>7, <1>8, <1>9, <1>10 DEF Next

LEMMA InvariantHolds == Spec => []IInv
BY InitHolds, NextHolds, PTL DEF Spec

\* The number a caller put into a node is kept, whatever the node held before
\* and however often it is converted to the binary or the XML format and back
\* (plist_new_*, plist_set_*, write_int, parse_int_node, node_from_xml).
THEOREM ValueAlwaysKept == Spec => []ValueKept
<1>1. IInv => ValueKept
  <2> SUFFICES ASSUME IInv PROVE ValueKept  OBVIOUS
  <2>1. Holds(node, meant) /\ node.type \in {"int", "uid", "bool"}  BY DEF IInv, Holds, Nodes
  <2>2. node.type = "int" => plist_int_val_is_negative(node) = (meant < 0)
    BY <2>1, NumberOfNode DEF Holds
  <2> QED  BY <2>1, <2>2 DEF Holds, ValueKept
<1> QED  BY <1>1, InvariantHolds, PTL

\* plist_int_val_compare orders the integers that a signed one can hold as the
\* numbers they stand for, also when the node keeps them unsigned.
THEOREM AlwaysSignedOrder == Spec => []SignedOrder
<1>1. IInv => SignedOrder
  <2> SUFFICES ASSUME IInv, node.type = "int", meant <= INT64_MAX PROVE Signed(node.bits) = meant
    BY DEF SignedOrder, plist_int_val_compare
  <2>1. /\ node.bits \in Nat /\ node.length \in {8, 16} /\ to_xml(node) = meant /\ meant \in Int
        /\ INT64_MAX \in Nat
    BY Halves DEF IInv, Holds, Nodes, Words
  <2>2. CASE node.length = 16  BY <2>1, <2>2 DEF to_xml, Signed
  <2>3. CASE node.length = 8  BY <2>1, <2>3 DEF to_xml
  <2> QED  BY <2>1, <2>2, <2>3
<1> QED  BY <1>1, InvariantHolds, PTL

\* The binary format gives back an integer that plist_data_compare finds equal:
\* of the same length and the same bits.
THEOREM AlwaysEqualThroughBinary == Spec => EqualThroughBinary
<1>1. IInv /\ [Next]_vars =>
          [ThroughBinary /\ node.type = "int" => plist_data_compare(node, node')]_vars
  <2> SUFFICES ASSUME IInv, ThroughBinary, node.type = "int"
               PROVE  plist_data_compare(node, node')
    OBVIOUS
  <2>1. node' = node  BY IntThroughBinary DEF IInv, Holds, ThroughBinary
  <2> QED  BY <2>1 DEF plist_data_compare
<1> QED  BY <1>1, InvariantHolds, PTL DEF Spec, EqualThroughBinary

-----------------------------------------------------------------------------
(***************************************************************************)
(* Sorting                                                                 *)
(***************************************************************************)

Pairs == 1..Len(key)

\* The nodes of pair a.
K(a) == 2 * a - 1
V(a) == 2 * a

\* The list is the pairs in the order of p, one after the other.
Listed(p) ==
    /\ p \in [Pairs -> Pairs]
    /\ \A a \in Pairs : \E i \in Pairs : p[i] = a
    /\ \A i, j \in Pairs : p[i] = p[j] => i = j
    /\ begin = K(p[1]) /\ end = V(p[Len(key)])
    /\ \A i \in Pairs :
          /\ next[K(p[i])] = V(p[i])
          /\ next[V(p[i])] = IF i = Len(key) THEN NULL ELSE K(p[i + 1])
          /\ prev[V(p[i])] = K(p[i])
          /\ prev[K(p[i])] = IF i = 1 THEN NULL ELSE V(p[i - 1])

\* Pairs with the same key are in the order they had at first.
Stable(p) == \A i, j \in Pairs : i < j /\ key[p[i]] = key[p[j]] => p[i] < p[j]

\* The first c pairs are in order.
InOrder(p, c) == \A i, j \in 1..c : i < j => key[p[i]] <= key[p[j]]

KeysOK ==
    /\ key \in [Pairs -> Int]
    /\ Len(key) \in 1..MaxPairs
    /\ swapped \in BOOLEAN

\* What is inductive. In a pass without a swap so far, the pairs up to the one at
\* hand are in order.
SortInv(p) ==
    /\ Listed(p) /\ Stable(p)
    /\ pc = "compare" =>
          \E c \in Pairs : cur = K(p[c]) /\ (~swapped => InOrder(p, c))
    /\ pc = "done" => InOrder(p, Len(key))

SortIInv == KeysOK /\ \E p : SortInv(p)

-----------------------------------------------------------------------------
LEMMA PairNumbers ==
    ASSUME KeysOK
    PROVE  /\ Len(key) \in Nat /\ Len(key) > 0 /\ Pairs \subseteq Nat \ {0}
           /\ Node = 1..(2 * Len(key)) /\ NULL \notin Node
           /\ \A a \in Pairs : /\ K(a) \in Node /\ V(a) \in Node
                               /\ KEY_STRVAL(K(a)) = key[a] /\ key[a] \in Int
           /\ \A m \in Node : \E a \in Pairs : m = K(a) \/ m = V(a)
           /\ \A a, b \in Pairs : /\ K(a) = K(b) => a = b
                                  /\ V(a) = V(b) => a = b
                                  /\ K(a) # V(b)
<1>1. Len(key) \in Nat /\ Len(key) > 0 /\ Len(key) <= MaxPairs
  BY SortAssumption DEF KeysOK
<1>2. Node = 1..(2 * Len(key)) /\ Pairs \subseteq Nat \ {0}  BY <1>1 DEF Node, Pairs
<1>3. NULL \notin Node
  <2>1. 1..(2 * Len(key)) \subseteq 1..(2 * MaxPairs)  BY <1>1, SortAssumption
  <2> QED  BY <1>2, <2>1, SortAssumption
<1>4. \A a \in Pairs : /\ K(a) \in Node /\ V(a) \in Node
                       /\ KEY_STRVAL(K(a)) = key[a] /\ key[a] \in Int
  <2> SUFFICES ASSUME NEW a \in Pairs
               PROVE  /\ K(a) \in Node /\ V(a) \in Node
                      /\ KEY_STRVAL(K(a)) = key[a] /\ key[a] \in Int
    OBVIOUS
  <2>1. a \in Nat /\ a >= 1 /\ a <= Len(key)  BY <1>1 DEF Pairs
  <2>2. (2 * a - 1 + 1) \div 2 = a  BY <2>1
  <2>3. key[a] \in Int  BY DEF KeysOK
  <2> QED  BY <1>1, <1>2, <2>1, <2>2, <2>3 DEF K, V, KEY_STRVAL
<1>5. \A m \in Node : \E a \in Pairs : m = K(a) \/ m = V(a)
  <2> SUFFICES ASSUME NEW m \in Node PROVE \E a \in Pairs : m = K(a) \/ m = V(a)  OBVIOUS
  <2> DEFINE a == (m + 1) \div 2
  <2>1. m \in Nat /\ 1 <= m /\ m <= 2 * Len(key)  BY <1>1, <1>2
  <2>2. a \in Nat /\ (m = 2 * a - 1 \/ m = 2 * a)  BY <2>1
  <2> HIDE DEF a
  <2>3. a \in Pairs  BY <1>1, <2>1, <2>2 DEF Pairs
  <2> QED  BY <2>2, <2>3 DEF K, V
<1>6. \A a, b \in Pairs : /\ K(a) = K(b) => a = b
                          /\ V(a) = V(b) => a = b
                          /\ K(a) # V(b)
  <2> SUFFICES ASSUME NEW a \in Pairs, NEW b \in Pairs
               PROVE  /\ K(a) = K(b) => a = b
                      /\ V(a) = V(b) => a = b
                      /\ K(a) # V(b)
    OBVIOUS
  <2>1. a \in Int /\ b \in Int  BY <1>2
  <2> QED  BY <2>1 DEF K, V
<1> QED  BY <1>1, <1>2, <1>3, <1>4, <1>5, <1>6

\* At first the pairs are in the order of their numbers.
LEMMA SortStarts == SortInit => SortIInv
<1> SUFFICES ASSUME SortInit PROVE SortIInv  OBVIOUS
<1> DEFINE p == [i \in Pairs |-> i]
<1>1. KeysOK
  <2>1. key \in Seq(Key) /\ Len(key) <= MaxPairs /\ key # <<>>
    BY SortAssumption DEF SortInit, SeqOf
  <2>2. Len(key) \in Nat /\ Len(key) # 0 /\ key \in [1..Len(key) -> Key]
    BY <2>1, EmptySeq, LenProperties
  <2>3. key \in [1..Len(key) -> Int]  BY <2>2, SortAssumption
  <2>4. Len(key) \in 1..MaxPairs  BY <2>1, <2>2, SortAssumption
  <2>5. swapped \in BOOLEAN  BY DEF SortInit
  <2> QED  BY <2>3, <2>4, <2>5 DEF KeysOK, Pairs
<1>2. Len(key) \in Nat /\ Len(key) > 0 /\ Pairs = 1..Len(key)  BY <1>1, PairNumbers DEF Pairs
<1>3. \A i \in Pairs : p[i] = i  OBVIOUS
<1>4. p \in [Pairs -> Pairs]  OBVIOUS
<1> HIDE DEF p
<1>5. begin = K(p[1]) /\ end = V(p[Len(key)])
  <2>1. p[1] = 1 /\ p[Len(key)] = Len(key)  BY <1>2, <1>3
  <2> QED  BY <1>2, <2>1 DEF SortInit, K, V
<1>6. ASSUME NEW i \in Pairs
      PROVE  /\ next[K(p[i])] = V(p[i])
             /\ next[V(p[i])] = IF i = Len(key) THEN NULL ELSE K(p[i + 1])
             /\ prev[V(p[i])] = K(p[i])
             /\ prev[K(p[i])] = IF i = 1 THEN NULL ELSE V(p[i - 1])
  <2>1. i \in Nat /\ 1 <= i /\ i <= Len(key)  BY <1>2
  <2>2. K(i) \in Node /\ V(i) \in Node  BY <1>1, PairNumbers
  <2>3. p[i] = i /\ (i # Len(key) => p[i + 1] = i + 1) /\ (i # 1 => p[i - 1] = i - 1)
    BY <1>2, <1>3, <2>1
  <2>4. next = [n \in Node |-> IF n = 2 * Len(key) THEN NULL ELSE n + 1]  BY DEF SortInit
  <2>5. prev = [n \in Node |-> IF n = 1 THEN NULL ELSE n - 1]  BY DEF SortInit
  <2>6. next[K(i)] = V(i) /\ next[V(i)] = IF i = Len(key) THEN NULL ELSE K(i + 1)
    BY <1>2, <2>1, <2>2, <2>4 DEF K, V
  <2>7. prev[V(i)] = K(i) /\ prev[K(i)] = IF i = 1 THEN NULL ELSE V(i - 1)
    BY <1>2, <2>1, <2>2, <2>5 DEF K, V
  <2> QED  BY <2>3, <2>6, <2>7
<1>7. Listed(p)  BY <1>3, <1>4, <1>5, <1>6 DEF Listed
<1>8. Stable(p)  BY <1>3 DEF Stable
<1>9. pc = "pass"  BY DEF SortInit
<1> QED  BY <1>1, <1>7, <1>8, <1>9 DEF SortIInv, SortInv

\* The key behind the one at hand.
LEMMA NextKey ==
    ASSUME KeysOK, NEW p, Listed(p), NEW c \in Pairs
    PROVE  NEXT_KEY(K(p[c])) = IF c = Len(key) THEN NULL ELSE K(p[c + 1])
BY DEF Listed, NEXT_KEY

\* Exchanging neighbours in an order.
Exchanged(p, c) == [p EXCEPT ![c] = p[c + 1], ![c + 1] = p[c]]

LEMMA ExchangedIsOrder ==
    ASSUME KeysOK, NEW p, Listed(p), NEW c \in Pairs, c # Len(key)
    PROVE  /\ c + 1 \in Pairs
           /\ Exchanged(p, c) \in [Pairs -> Pairs]
           /\ Exchanged(p, c)[c] = p[c + 1] /\ Exchanged(p, c)[c + 1] = p[c]
           /\ \A i \in Pairs \ {c, c + 1} : Exchanged(p, c)[i] = p[i]
           /\ \A a \in Pairs : \E i \in Pairs : Exchanged(p, c)[i] = a
           /\ \A i, j \in Pairs : Exchanged(p, c)[i] = Exchanged(p, c)[j] => i = j
<1> DEFINE q == Exchanged(p, c)
<1>1. c + 1 \in Pairs /\ c \in Nat /\ c # c + 1  BY PairNumbers DEF Pairs
<1>2. /\ p \in [Pairs -> Pairs]
      /\ \A a \in Pairs : \E i \in Pairs : p[i] = a
      /\ \A i, j \in Pairs : p[i] = p[j] => i = j
  BY DEF Listed
<1>3. /\ q \in [Pairs -> Pairs]
      /\ q[c] = p[c + 1] /\ q[c + 1] = p[c]
      /\ \A i \in Pairs \ {c, c + 1} : q[i] = p[i]
  BY <1>1, <1>2 DEF Exchanged
<1> HIDE DEF q
<1>4. \A a \in Pairs : \E i \in Pairs : q[i] = a
  <2> SUFFICES ASSUME NEW a \in Pairs PROVE \E i \in Pairs : q[i] = a  OBVIOUS
  <2>1. PICK i \in Pairs : p[i] = a  BY <1>2
  <2>2. CASE i = c  BY <1>1, <1>3, <2>1, <2>2
  <2>3. CASE i = c + 1  BY <1>1, <1>3, <2>1, <2>3
  <2>4. CASE i \notin {c, c + 1}  BY <1>3, <2>1, <2>4
  <2> QED  BY <2>2, <2>3, <2>4
<1>5. \A i, j \in Pairs : q[i] = q[j] => i = j
  <2> SUFFICES ASSUME NEW i \in Pairs, NEW j \in Pairs, q[i] = q[j] PROVE i = j  OBVIOUS
  <2>1. CASE i = c  BY ONLY <1>1, <1>2, <1>3, <2>1, c \in Pairs, i \in Pairs, j \in Pairs, q[i] = q[j]
  <2>2. CASE i = c + 1
    <3>1. q[j] = p[c]  BY ONLY <1>3, <2>2, q[i] = q[j]
    <3>2. j # c  BY ONLY <1>1, <1>2, <1>3, <3>1, c \in Pairs
    <3>3. CASE j = c + 1  BY ONLY <2>2, <3>3
    <3>4. CASE j \notin {c, c + 1}
      <4>1. q[j] = p[j]  BY ONLY <1>3, <3>4, j \in Pairs
      <4> QED  BY ONLY <1>2, <3>1, <3>2, <4>1, c \in Pairs, j \in Pairs
    <3> QED  BY ONLY <3>2, <3>3, <3>4
  <2>3. CASE i \notin {c, c + 1}
    <3>1. q[i] = p[i]  BY <1>3, <2>3
    <3>2. CASE j \in {c, c + 1}
      <4>1. \E k \in {c, c + 1} : p[i] = p[k]  BY <1>3, <3>1, <3>2
      <4> QED  BY <1>1, <1>2, <2>3, <4>1
    <3>3. CASE j \notin {c, c + 1}  BY ONLY <1>2, <1>3, <3>1, <3>3, i \in Pairs, j \in Pairs, q[i] = q[j]
    <3> QED  BY <3>2, <3>3
  <2> QED  BY <2>1, <2>2, <2>3
<1> QED  BY <1>1, <1>3, <1>4, <1>5 DEF q

\* The swap exchanges the pair at hand and the one behind it, and no others.
LEMMA SwapExchanges ==
    ASSUME KeysOK, NEW p, Listed(p), NEW c \in Pairs, c # Len(key),
           swap(K(p[c]), K(p[c + 1])), UNCHANGED key
    PROVE  Listed(Exchanged(p, c))'
<1> DEFINE q == Exchanged(p, c)
           before == prev[K(p[c])]
           after == next[next[K(p[c + 1])]]
           n == Len(key)
<1>1. /\ c + 1 \in Pairs /\ c \in Nat /\ c >= 1 /\ n \in Nat /\ c + 1 <= n
      /\ Pairs = 1..n /\ Pairs' = Pairs /\ Node' = Node
  BY ExchangedIsOrder, PairNumbers DEF Pairs, Node
<1>2. /\ p \in [Pairs -> Pairs]
      /\ \A i, j \in Pairs : p[i] = p[j] => i = j
      /\ begin = K(p[1]) /\ end = V(p[n])
      /\ \A i \in Pairs :
            /\ next[K(p[i])] = V(p[i])
            /\ next[V(p[i])] = IF i = n THEN NULL ELSE K(p[i + 1])
            /\ prev[V(p[i])] = K(p[i])
            /\ prev[K(p[i])] = IF i = 1 THEN NULL ELSE V(p[i - 1])
  BY DEF Listed
<1>3. /\ before = IF c = 1 THEN NULL ELSE V(p[c - 1])
      /\ after = IF c + 1 = n THEN NULL ELSE K(p[c + 2])
      /\ next[K(p[c])] = V(p[c]) /\ next[K(p[c + 1])] = V(p[c + 1])
  <2>1. c + 1 + 1 = c + 2  BY <1>1
  <2> QED  BY <1>1, <1>2, <2>1
<1>4. /\ NULL \notin Node
      /\ \A i \in Pairs : K(p[i]) \in Node /\ V(p[i]) \in Node
      /\ \A i, j \in Pairs : /\ K(p[i]) = K(p[j]) => i = j
                             /\ V(p[i]) = V(p[j]) => i = j
                             /\ K(p[i]) # V(p[j])
  <2>1. \A i \in Pairs : p[i] \in Pairs  BY <1>2
  <2>2. NULL \notin Node /\ \A a \in Pairs : K(a) \in Node /\ V(a) \in Node  BY PairNumbers
  <2>3. \A a, b \in Pairs : /\ K(a) = K(b) => a = b
                            /\ V(a) = V(b) => a = b
                            /\ K(a) # V(b)
    BY PairNumbers
  <2> QED  BY <1>2, <2>1, <2>2, <2>3
<1>5. /\ next' = [m \in Node |-> CASE m = V(p[c]) -> after [] m = V(p[c + 1]) -> K(p[c])
                                   [] m = before -> K(p[c + 1]) [] OTHER -> next[m]]
      /\ prev' = [m \in Node |-> CASE m = K(p[c]) -> V(p[c + 1]) [] m = K(p[c + 1]) -> before
                                   [] m = after -> V(p[c]) [] OTHER -> prev[m]]
      /\ begin' = IF before = NULL THEN K(p[c + 1]) ELSE begin
      /\ end' = IF after = NULL THEN V(p[c]) ELSE end
  BY <1>3 DEF swap
<1> HIDE DEF before, after, n
<1>6. \A i \in Pairs :
         /\ next'[K(p[i])] = next[K(p[i])]
         /\ i = c => next'[V(p[i])] = after
         /\ i = c + 1 => next'[V(p[i])] = K(p[c])
         /\ i = c - 1 => next'[V(p[i])] = K(p[c + 1])
         /\ i \notin {c - 1, c, c + 1} => next'[V(p[i])] = next[V(p[i])]
  <2> SUFFICES ASSUME NEW i \in Pairs
               PROVE  /\ next'[K(p[i])] = next[K(p[i])]
                      /\ i = c => next'[V(p[i])] = after
                      /\ i = c + 1 => next'[V(p[i])] = K(p[c])
                      /\ i = c - 1 => next'[V(p[i])] = K(p[c + 1])
                      /\ i \notin {c - 1, c, c + 1} => next'[V(p[i])] = next[V(p[i])]
    OBVIOUS
  <2>1. K(p[i]) # V(p[c]) /\ K(p[i]) # V(p[c + 1]) /\ K(p[i]) \in Node  BY <1>1, <1>4
  <2>2. K(p[i]) # before
    <3>1. c # 1 => c - 1 \in Pairs  BY <1>1
    <3> QED  BY <1>3, <1>4, <3>1
  <2>3. next'[K(p[i])] = next[K(p[i])]  BY <1>5, <2>1, <2>2
  <2>4. /\ V(p[i]) \in Node
        /\ V(p[i]) = V(p[c]) <=> i = c
        /\ V(p[i]) = V(p[c + 1]) <=> i = c + 1
    BY <1>1, <1>4
  <2>5. V(p[i]) = before <=> i = c - 1
    <3>1. CASE c = 1
      <4>1. i # c - 1 /\ before = NULL  BY <1>1, <1>3, <3>1
      <4> QED  BY <1>4, <2>4, <4>1
    <3>2. CASE c # 1
      <4>1. c - 1 \in Pairs /\ before = V(p[c - 1])  BY <1>1, <1>3, <3>2
      <4> QED  BY <1>4, <4>1
    <3> QED  BY <3>1, <3>2
  <2>6. c - 1 # c /\ c - 1 # c + 1 /\ c # c + 1  BY <1>1
  <2> QED  BY <1>5, <2>3, <2>4, <2>5, <2>6
<1>7. \A i \in Pairs :
         /\ prev'[V(p[i])] = prev[V(p[i])]
         /\ i = c => prev'[K(p[i])] = V(p[c + 1])
         /\ i = c + 1 => prev'[K(p[i])] = before
         /\ i = c + 2 => prev'[K(p[i])] = V(p[c])
         /\ i \notin {c, c + 1, c + 2} => prev'[K(p[i])] = prev[K(p[i])]
  <2> SUFFICES ASSUME NEW i \in Pairs
               PROVE  /\ prev'[V(p[i])] = prev[V(p[i])]
                      /\ i = c => prev'[K(p[i])] = V(p[c + 1])
                      /\ i = c + 1 => prev'[K(p[i])] = before
                      /\ i = c + 2 => prev'[K(p[i])] = V(p[c])
                      /\ i \notin {c, c + 1, c + 2} => prev'[K(p[i])] = prev[K(p[i])]
    OBVIOUS
  <2>1. V(p[i]) # K(p[c]) /\ V(p[i]) # K(p[c + 1]) /\ V(p[i]) \in Node  BY <1>1, <1>4
  <2>2. V(p[i]) # after
    <3>1. c + 1 # n => c + 2 \in Pairs  BY <1>1
    <3> QED  BY <1>3, <1>4, <3>1
  <2>3. prev'[V(p[i])] = prev[V(p[i])]  BY <1>5, <2>1, <2>2
  <2>4. /\ K(p[i]) \in Node
        /\ K(p[i]) = K(p[c]) <=> i = c
        /\ K(p[i]) = K(p[c + 1]) <=> i = c + 1
    BY <1>1, <1>4
  <2>5. K(p[i]) = after <=> i = c + 2
    <3>1. CASE c + 1 = n
      <4>1. i # c + 2 /\ after = NULL  BY <1>1, <1>3, <3>1
      <4> QED  BY <1>4, <2>4, <4>1
    <3>2. CASE c + 1 # n
      <4>1. c + 2 \in Pairs /\ after = K(p[c + 2])  BY <1>1, <1>3, <3>2
      <4> QED  BY <1>4, <4>1
    <3> QED  BY <3>1, <3>2
  <2>6. c + 2 # c /\ c + 2 # c + 1 /\ c # c + 1  BY <1>1
  <2> QED  BY <1>5, <2>3, <2>4, <2>5, <2>6
<1>8. /\ q \in [Pairs -> Pairs]
      /\ q[c] = p[c + 1] /\ q[c + 1] = p[c]
      /\ \A i \in Pairs \ {c, c + 1} : q[i] = p[i]
      /\ \A a \in Pairs : \E i \in Pairs : q[i] = a
      /\ \A i, j \in Pairs : q[i] = q[j] => i = j
  BY ExchangedIsOrder
<1> HIDE DEF q
<1>9. begin' = K(q[1])
  <2>1. CASE c = 1
    <3>1. before = NULL  BY <1>3, <2>1
    <3> QED  BY <1>5, <1>8, <2>1, <3>1
  <2>2. CASE c # 1
    <3>1. c - 1 \in Pairs /\ 1 \in Pairs \ {c, c + 1}  BY <1>1, <2>2
    <3>2. before # NULL  BY <1>3, <1>4, <2>2, <3>1
    <3> QED  BY <1>2, <1>5, <1>8, <3>1, <3>2
  <2> QED  BY <2>1, <2>2
<1>10. end' = V(q[n])
  <2>1. CASE c + 1 = n
    <3>1. after = NULL  BY <1>3, <2>1
    <3> QED  BY <1>5, <1>8, <2>1, <3>1
  <2>2. CASE c + 1 # n
    <3>1. c + 2 \in Pairs /\ n \in Pairs \ {c, c + 1}  BY <1>1, <2>2
    <3>2. after # NULL  BY <1>3, <1>4, <2>2, <3>1
    <3> QED  BY <1>2, <1>5, <1>8, <3>1, <3>2
  <2> QED  BY <2>1, <2>2
<1>11. \A i \in Pairs : next'[K(q[i])] = V(q[i]) /\ prev'[V(q[i])] = K(q[i])
  <2> SUFFICES ASSUME NEW i \in Pairs
               PROVE  next'[K(q[i])] = V(q[i]) /\ prev'[V(q[i])] = K(q[i])
    OBVIOUS
  <2>1. PICK j \in Pairs : q[i] = p[j]  BY <1>1, <1>8
  <2> QED  BY <1>2, <1>6, <1>7, <2>1
<1>12. ASSUME NEW i \in Pairs
       PROVE  next'[V(q[i])] = IF i = n THEN NULL ELSE K(q[i + 1])
  <2>1. CASE i = c
    <3>1. next'[V(p[c + 1])] = K(p[c])  BY <1>1, <1>6
    <3>2. i # n  BY <1>1, <2>1
    <3> QED  BY <1>8, <2>1, <3>1, <3>2
  <2>2. CASE i = c + 1
    <3>1. next'[V(q[i])] = after
      <4>1. q[i] = p[c]  BY ONLY <1>8, <2>2
      <4>2. next'[V(p[c])] = after  BY ONLY <1>6, c \in Pairs
      <4> QED  BY ONLY <4>1, <4>2
    <3>2. CASE c + 1 = n  BY <1>3, <2>2, <3>1, <3>2
    <3>3. CASE c + 1 # n
      <4>1. c + 2 \in Pairs \ {c, c + 1} /\ i + 1 = c + 2 /\ i # n  BY <1>1, <2>2, <3>3
      <4>2. after = K(p[c + 2]) /\ q[c + 2] = p[c + 2]  BY <1>3, <1>8, <3>3, <4>1
      <4> QED  BY <3>1, <4>1, <4>2
    <3> QED  BY <3>2, <3>3
  <2>3. CASE i = c - 1
    <3>1. i \in Pairs \ {c, c + 1} /\ i # n /\ i + 1 = c  BY <1>1, <2>3
    <3>2. next'[V(q[i])] = K(p[c + 1])  BY <1>6, <1>8, <2>3, <3>1
    <3> QED  BY <1>8, <3>1, <3>2
  <2>4. CASE i \notin {c - 1, c, c + 1}
    <3>1. q[i] = p[i] /\ next'[V(q[i])] = next[V(p[i])]  BY <1>6, <1>8, <2>4
    <3>2. i # n => i + 1 \in Pairs \ {c, c + 1}  BY <1>1, <2>4
    <3>3. i # n => q[i + 1] = p[i + 1]  BY <1>8, <3>2
    <3> QED  BY <1>2, <3>1, <3>3
  <2> QED  BY <2>1, <2>2, <2>3, <2>4
<1>13. ASSUME NEW i \in Pairs
       PROVE  prev'[K(q[i])] = IF i = 1 THEN NULL ELSE V(q[i - 1])
  <2>1. CASE i = c
    <3>1. prev'[K(p[c + 1])] = before  BY <1>1, <1>7
    <3>2. c # 1 => c - 1 \in Pairs \ {c, c + 1}  BY <1>1
    <3> QED  BY <1>3, <1>8, <2>1, <3>1, <3>2
  <2>2. CASE i = c + 1
    <3>1. prev'[K(q[i])] = V(p[c + 1])
      <4>1. q[i] = p[c]  BY ONLY <1>8, <2>2
      <4>2. prev'[K(p[c])] = V(p[c + 1])  BY ONLY <1>7, c \in Pairs
      <4> QED  BY ONLY <4>1, <4>2
    <3>2. i # 1 /\ i - 1 = c  BY <1>1, <2>2
    <3> QED  BY <1>8, <3>1, <3>2
  <2>3. CASE i = c + 2
    <3>1. i \in Pairs \ {c, c + 1} /\ i # 1 /\ i - 1 = c + 1  BY <1>1, <2>3
    <3>2. prev'[K(q[i])] = V(p[c])  BY ONLY <1>7, <1>8, <2>3, <3>1, i \in Pairs, c \in Pairs
    <3> QED  BY <1>8, <3>1, <3>2
  <2>4. CASE i \notin {c, c + 1, c + 2}
    <3>1. q[i] = p[i] /\ prev'[K(q[i])] = prev[K(p[i])]  BY <1>7, <1>8, <2>4
    <3>2. i # 1 => i - 1 \in Pairs \ {c, c + 1}  BY <1>1, <2>4
    <3>3. i # 1 => q[i - 1] = p[i - 1]  BY <1>8, <3>2
    <3> QED  BY <1>2, <3>1, <3>3
  <2> QED  BY <2>1, <2>2, <2>3, <2>4
<1>14. Len(key') = n  BY DEF n
<1>15. Listed(q)'
  BY ONLY <1>1, <1>8, <1>9, <1>10, <1>11, <1>12, <1>13, <1>14 DEF Listed
<1> QED  BY <1>15 DEF q

-----------------------------------------------------------------------------
LEMMA StartPassKeeps ==
    ASSUME KeysOK, NEW p, SortInv(p), StartPass
    PROVE  SortInv(p)'
<1>1. Listed(p)' /\ Stable(p)'
  BY DEF SortInv, StartPass, list, Listed, Stable, Pairs
<1>2. 1 \in Pairs' /\ cur' = K(p[1])
  BY PairNumbers DEF SortInv, StartPass, Listed, Pairs
<1>3. InOrder(p, 1)'  BY DEF InOrder
<1>4. pc' = "compare"  BY DEF StartPass
<1> QED  BY <1>1, <1>2, <1>3, <1>4 DEF SortInv

\* Only neighbours that are not in order change places, so no two pairs with the
\* same key do.
LEMMA SwapKeeps ==
    ASSUME KeysOK, NEW p, SortInv(p), Swap
    PROVE  \E q : SortInv(q)'
<1>1. PICK c \in Pairs : cur = K(p[c])  BY DEF SortInv, Swap
<1>2. Listed(p) /\ Stable(p)  BY DEF SortInv
<1>3. c # Len(key) /\ NEXT_KEY(cur) = K(p[c + 1])
  BY <1>1, <1>2, NextKey DEF Swap, lptr
<1> DEFINE q == Exchanged(p, c)
<1>4. /\ c + 1 \in Pairs /\ q \in [Pairs -> Pairs]
      /\ q[c] = p[c + 1] /\ q[c + 1] = p[c]
      /\ \A i \in Pairs \ {c, c + 1} : q[i] = p[i]
  BY <1>2, <1>3, ExchangedIsOrder
<1>5. /\ key' = key /\ cur' = cur /\ pc' = "compare" /\ swapped' = TRUE
      /\ out_of_order(cur, NEXT_KEY(cur)) /\ swap(cur, NEXT_KEY(cur))
  BY DEF Swap
<1>6. Listed(q)'  BY <1>1, <1>2, <1>3, <1>5, SwapExchanges
<1> HIDE DEF q
<1>7. p \in [Pairs -> Pairs] /\ p[c] \in Pairs /\ p[c + 1] \in Pairs  BY <1>2, <1>4 DEF Listed
<1>8. key[p[c]] > key[p[c + 1]]  BY <1>1, <1>3, <1>5, <1>7, PairNumbers DEF out_of_order
<1>9. Stable(q)
  <2> SUFFICES ASSUME NEW i \in Pairs, NEW j \in Pairs, i < j, key[q[i]] = key[q[j]]
               PROVE  q[i] < q[j]
    BY DEF Stable
  <2>1. \A a, b \in Pairs : a < b /\ key[p[a]] = key[p[b]] => p[a] < p[b]
    BY <1>2 DEF Stable
  <2>2. c \in Int /\ i \in Int /\ j \in Int  BY PairNumbers
  <2>3. key[p[c]] \in Int /\ key[p[c + 1]] \in Int  BY <1>7, PairNumbers
  <2>4. CASE i = c
    <3>1. j # c + 1  BY <1>4, <1>8, <2>3, <2>4
    <3>2. q[i] = p[c + 1] /\ q[j] = p[j] /\ c + 1 < j  BY <1>4, <2>2, <2>4, <3>1
    <3> QED  BY <1>4, <2>1, <3>2
  <2>5. CASE i = c + 1
    <3>1. q[i] = p[c] /\ q[j] = p[j] /\ c < j  BY <1>4, <2>2, <2>5
    <3> QED  BY <2>1, <3>1
  <2>6. CASE i \notin {c, c + 1}
    <3>1. q[i] = p[i]  BY <1>4, <2>6
    <3>2. CASE j = c
      <4>1. i < c + 1 /\ q[j] = p[c + 1]  BY <1>4, <2>2, <3>2
      <4> QED  BY <1>4, <2>1, <3>1, <4>1
    <3>3. CASE j = c + 1
      <4>1. i < c /\ q[j] = p[c]  BY <1>4, <2>2, <2>6, <3>3
      <4> QED  BY <2>1, <3>1, <4>1
    <3>4. CASE j \notin {c, c + 1}  BY <1>4, <2>1, <3>1, <3>4
    <3> QED  BY <3>2, <3>3, <3>4
  <2> QED  BY <2>4, <2>5, <2>6
<1>10. Stable(q)'  BY <1>5, <1>9 DEF Stable, Pairs
<1>11. c + 1 \in Pairs' /\ cur' = K(q[c + 1])  BY <1>1, <1>4, <1>5 DEF Pairs
<1> QED  BY <1>5, <1>6, <1>10, <1>11 DEF SortInv

LEMMA AdvanceKeeps ==
    ASSUME KeysOK, NEW p, SortInv(p), Advance
    PROVE  SortInv(p)'
<1>1. PICK c \in Pairs : cur = K(p[c]) /\ (~swapped => InOrder(p, c))
  BY DEF SortInv, Advance
<1>2. Listed(p) /\ Stable(p)  BY DEF SortInv
<1>3. c # Len(key) /\ NEXT_KEY(cur) = K(p[c + 1])
  BY <1>1, <1>2, NextKey DEF Advance, lptr
<1>4. /\ UNCHANGED <<key, next, prev, begin, end, swapped, pc>> /\ cur' = K(p[c + 1])
      /\ ~out_of_order(cur, NEXT_KEY(cur)) /\ pc = "compare"
  BY <1>3 DEF Advance, list
<1>5. Listed(p)' /\ Stable(p)'
  BY <1>2, <1>4 DEF Listed, Stable, Pairs
<1>6. c + 1 \in Pairs /\ c \in Nat  BY <1>3, PairNumbers DEF Pairs
<1>7. \A i \in Pairs : p[i] \in Pairs /\ key[p[i]] \in Int  BY <1>2, PairNumbers DEF Listed
<1>8. key[p[c]] <= key[p[c + 1]]
  <2>1. /\ KEY_STRVAL(cur) = key[p[c]] /\ KEY_STRVAL(NEXT_KEY(cur)) = key[p[c + 1]]
        /\ key[p[c]] \in Int /\ key[p[c + 1]] \in Int
    BY <1>1, <1>3, <1>6, <1>7, PairNumbers
  <2> QED  BY <1>4, <2>1 DEF out_of_order
<1>9. ASSUME InOrder(p, c) PROVE InOrder(p, c + 1)
  <2> SUFFICES ASSUME NEW i \in 1..(c + 1), NEW j \in 1..(c + 1), i < j
               PROVE  key[p[i]] <= key[p[j]]
    BY DEF InOrder
  <2>1. i \in 1..c /\ c \in 1..c /\ (j \in 1..c \/ j = c + 1)  BY <1>6, PairNumbers
  <2>2. \A a, b \in 1..c : a < b => key[p[a]] <= key[p[b]]  BY <1>9 DEF InOrder
  <2>3. i \in Pairs /\ j \in Pairs  BY <1>6, PairNumbers DEF Pairs
  <2>4. CASE j \in 1..c  BY <2>1, <2>2, <2>4
  <2>5. CASE j = c + 1
    <3>1. key[p[i]] <= key[p[c]]
      <4>1. CASE i = c  BY <1>7, <2>3, <4>1
      <4>2. CASE i # c
        <5>1. i < c  BY <1>6, <2>1, <4>2
        <5> QED  BY <2>1, <2>2, <5>1
      <4> QED  BY <4>1, <4>2
    <3> QED  BY <1>6, <1>7, <1>8, <2>3, <2>5, <3>1
  <2> QED  BY <2>1, <2>4, <2>5
<1>10. c + 1 \in Pairs' /\ (~swapped' => InOrder(p, c + 1)')
  BY <1>1, <1>4, <1>6, <1>9 DEF InOrder, Pairs
<1> QED  BY <1>4, <1>5, <1>10 DEF SortInv

LEMMA EndPassKeeps ==
    ASSUME KeysOK, NEW p, SortInv(p), EndPass
    PROVE  SortInv(p)'
<1>1. PICK c \in Pairs : cur = K(p[c]) /\ (~swapped => InOrder(p, c))
  BY DEF SortInv, EndPass
<1>2. Listed(p) /\ Stable(p)  BY DEF SortInv
<1>3. c = Len(key)
  <2> SUFFICES ASSUME c # Len(key) PROVE FALSE  OBVIOUS
  <2>1. NEXT_KEY(cur) = K(p[c + 1]) /\ c + 1 \in Pairs
    BY <1>1, <1>2, NextKey, ExchangedIsOrder
  <2>2. K(p[c + 1]) \in Node /\ NULL \notin Node  BY <1>2, <2>1, PairNumbers DEF Listed
  <2> QED  BY <2>1, <2>2 DEF EndPass, lptr
<1>4. UNCHANGED <<key, next, prev, begin, end>>  BY DEF EndPass, list
<1>5. Listed(p)' /\ Stable(p)'
  BY <1>2, <1>4 DEF Listed, Stable, Pairs
<1>6. pc' # "compare" /\ (pc' = "done" => ~swapped)  BY DEF EndPass, again
<1>7. pc' = "done" => InOrder(p, Len(key))'  BY <1>1, <1>3, <1>4, <1>6 DEF InOrder
<1> QED  BY <1>5, <1>6, <1>7 DEF SortInv

LEMMA SortGoesOn == SortIInv /\ [SortNext]_sortVars => SortIInv'
<1> SUFFICES ASSUME SortIInv, [SortNext]_sortVars PROVE SortIInv'  OBVIOUS
<1>1. KeysOK  BY DEF SortIInv
<1>2. KeysOK'
  BY <1>1 DEF KeysOK, SortNext, StartPass, Swap, Advance, EndPass, sortVars, Pairs
<1>3. PICK p : SortInv(p)  BY DEF SortIInv
<1>4. CASE StartPass  BY <1>1, <1>2, <1>3, <1>4, StartPassKeeps DEF SortIInv
<1>5. CASE Swap  BY <1>1, <1>2, <1>3, <1>5, SwapKeeps DEF SortIInv
<1>6. CASE Advance  BY <1>1, <1>2, <1>3, <1>6, AdvanceKeeps DEF SortIInv
<1>7. CASE EndPass  BY <1>1, <1>2, <1>3, <1>7, EndPassKeeps DEF SortIInv
<1>8. CASE UNCHANGED sortVars
  <2>1. SortInv(p)'
    BY <1>3, <1>8 DEF sortVars, list, SortInv, Listed, Stable, InOrder, Pairs
  <2> QED  BY <1>2, <2>1 DEF SortIInv
<1> QED  BY <1>4, <1>5, <1>6, <1>7, <1>8 DEF SortNext

-----------------------------------------------------------------------------
\* From n, the pointers in step lead along w, through nodes only but for the last.
LeadsAlong(step, n, w) ==
    /\ w[1] = n
    /\ \A i \in 1..(2 * Len(key)) : w[i] \in Node
    /\ \A i \in 1..(2 * Len(key)) : w[i + 1] = step[w[i]]

\* A walk is what its first element and its steps make of it: there is one such
\* function, which a least counterexample shows.
LEMMA WalkIs ==
    ASSUME KeysOK, NEW step, NEW n, NEW w, LeadsAlong(step, n, w)
    PROVE  \A i \in 1..(2 * Len(key) + 1) : Walk(step, n)[i] = w[i]
<1> DEFINE D == 1..(2 * Len(key) + 1)
           after == [m \in Node \cup {NULL} |-> IF m = NULL THEN NULL ELSE step[m]]
           WalkOf(at) == at = [i \in D |-> IF i = 1 THEN n ELSE after[at[i - 1]]]
           v == [i \in D |-> w[i]]
<1>1. Len(key) \in Nat /\ Len(key) > 0 /\ NULL \notin Node  BY PairNumbers
<1>w. /\ w[1] = n
      /\ \A i \in 1..(2 * Len(key)) : w[i] \in Node
      /\ \A i \in 1..(2 * Len(key)) : w[i + 1] = step[w[i]]
  BY DEF LeadsAlong
<1>2. \A i \in D : i # 1 => i - 1 \in 1..(2 * Len(key)) /\ i - 1 + 1 = i /\ i - 1 \in D
  BY <1>1
<1>3. \A i \in 1..(2 * Len(key)) : after[w[i]] = w[i + 1]  BY <1>1, <1>w
<1> HIDE DEF after
<1>4. WalkOf(v)
  <2>1. \A i \in D : v[i] = IF i = 1 THEN n ELSE after[v[i - 1]]
    <3> SUFFICES ASSUME NEW i \in D PROVE v[i] = IF i = 1 THEN n ELSE after[v[i - 1]]
      OBVIOUS
    <3>1. CASE i = 1  BY <1>w, <3>1
    <3>2. CASE i # 1
      <4>1. v[i] = w[i] /\ v[i - 1] = w[i - 1]  BY <1>2, <3>2
      <4>2. after[w[i - 1]] = w[i - 1 + 1] /\ i - 1 + 1 = i  BY <1>2, <1>3, <3>2
      <4> QED  BY <3>2, <4>1, <4>2
    <3> QED  BY <3>1, <3>2
  <2> QED  BY <2>1
<1> DEFINE at == CHOOSE a : WalkOf(a)
<1>5. WalkOf(at)  BY <1>4
<1>6. Walk(step, n) = at  BY DEF Walk, after
<1> HIDE DEF at
<1>7. \A i \in D : at[i] = IF i = 1 THEN n ELSE after[at[i - 1]]  BY <1>5
<1> DEFINE T == {i \in D : at[i] # w[i]}
<1>8. T = {}
  <2> SUFFICES ASSUME T # {} PROVE FALSE  OBVIOUS
  <2>1. PICK i \in T : \A j \in T : <<j, i>> \notin OpToRel(<, Nat)
    <3>1. T \subseteq Nat  BY <1>1
    <3> QED  BY <3>1, NatLessThanWellFounded, WFMin
  <2>2. i \in D /\ at[i] # w[i]  BY <2>1
  <2>3. i # 1
    <3>1. 1 \in D  BY <1>1
    <3> QED  BY <1>7, <1>w, <2>2, <3>1
  <2>4. /\ i - 1 \in D /\ i - 1 \in 1..(2 * Len(key)) /\ i - 1 + 1 = i
        /\ i - 1 \in Nat /\ i \in Nat /\ i - 1 < i
    BY <1>1, <1>2, <2>2, <2>3
  <2>5. <<i - 1, i>> \in OpToRel(<, Nat)  BY <2>4 DEF OpToRel
  <2>6. at[i - 1] = w[i - 1]  BY <2>1, <2>4, <2>5
  <2>7. after[w[i - 1]] = w[i - 1 + 1]  BY <1>3, <2>4
  <2> QED  BY <1>7, <2>2, <2>3, <2>4, <2>6, <2>7
<1> QED  BY <1>6, <1>8

\* Where the list has the nodes of its i-th pair.
LEMMA Positions ==
    ASSUME KeysOK, NEW p, p \in [Pairs -> Pairs],
           NEW w, \A i \in Pairs : w[2 * i - 1] = K(p[i]) /\ w[2 * i] = V(p[i])
    PROVE  \A i \in 1..(2 * Len(key)) :
              /\ w[i] \in Node
              /\ \E j \in Pairs : \/ i = 2 * j - 1 /\ w[i] = K(p[j])
                                  \/ i = 2 * j /\ w[i] = V(p[j])
<1> SUFFICES ASSUME NEW i \in 1..(2 * Len(key))
             PROVE  /\ w[i] \in Node
                    /\ \E j \in Pairs : \/ i = 2 * j - 1 /\ w[i] = K(p[j])
                                        \/ i = 2 * j /\ w[i] = V(p[j])
  OBVIOUS
<1>1. PICK j \in Pairs : i = K(j) \/ i = V(j)  BY PairNumbers
<1>2. i = 2 * j - 1 \/ i = 2 * j  BY <1>1 DEF K, V
<1>3. p[j] \in Pairs  OBVIOUS
<1>4. (i = 2 * j - 1 /\ w[i] = K(p[j])) \/ (i = 2 * j /\ w[i] = V(p[j]))
  <2>1. w[2 * j - 1] = K(p[j]) /\ w[2 * j] = V(p[j])  OBVIOUS
  <2> QED  BY ONLY <1>2, <2>1
<1>5. w[i] \in Node  BY ONLY KeysOK, <1>3, <1>4, PairNumbers
<1> QED  BY ONLY j \in Pairs, <1>4, <1>5

\* From its beginning the list reads as its order says, and from its end likewise.
LEMMA ListedReads ==
    ASSUME KeysOK, NEW p, Listed(p)
    PROVE  /\ \A i \in Pairs : /\ Walk(next, begin)[2 * i - 1] = K(p[i])
                               /\ Walk(next, begin)[2 * i] = V(p[i])
           /\ Walk(next, begin)[2 * Len(key) + 1] = NULL
           /\ \A i \in 1..(2 * Len(key)) :
                 Walk(prev, end)[i] = Walk(next, begin)[2 * Len(key) + 1 - i]
<1> DEFINE n == Len(key)
           w == [i \in 1..(2 * n + 1) |->
                   IF i = 2 * n + 1 THEN NULL
                   ELSE IF i % 2 = 1 THEN K(p[(i + 1) \div 2]) ELSE V(p[i \div 2])]
           b == [i \in 1..(2 * n + 1) |->
                   IF i = 2 * n + 1 THEN NULL ELSE w[2 * n + 1 - i]]
<1>1. n \in Nat /\ n > 0 /\ Pairs = 1..n /\ Pairs \subseteq Nat  BY PairNumbers DEF Pairs
<1>2. /\ p \in [Pairs -> Pairs]
      /\ begin = K(p[1]) /\ end = V(p[n])
      /\ \A i \in Pairs :
            /\ next[K(p[i])] = V(p[i])
            /\ next[V(p[i])] = IF i = n THEN NULL ELSE K(p[i + 1])
            /\ prev[V(p[i])] = K(p[i])
            /\ prev[K(p[i])] = IF i = 1 THEN NULL ELSE V(p[i - 1])
  BY DEF Listed
<1> HIDE DEF n
<1>3. \A i \in Pairs : w[2 * i - 1] = K(p[i]) /\ w[2 * i] = V(p[i])
  <2> SUFFICES ASSUME NEW i \in Pairs PROVE w[2 * i - 1] = K(p[i]) /\ w[2 * i] = V(p[i])
    OBVIOUS
  <2>1. i \in Nat /\ 1 <= i /\ i <= n  BY <1>1
  <2>2. /\ 2 * i - 1 \in 1..(2 * n + 1) /\ 2 * i \in 1..(2 * n + 1)
        /\ 2 * i - 1 # 2 * n + 1 /\ 2 * i # 2 * n + 1
    BY <1>1, <2>1
  <2>3. /\ (2 * i - 1) % 2 = 1 /\ (2 * i) % 2 # 1
        /\ (2 * i - 1 + 1) \div 2 = i /\ (2 * i) \div 2 = i
    BY <2>1
  <2> QED  BY <2>2, <2>3
<1>4. w[2 * n + 1] = NULL  BY <1>1
<1>5. \A i \in 1..(2 * n) : b[i] = w[2 * n + 1 - i]  BY <1>1
<1>6. b[2 * n + 1] = NULL  BY <1>1
<1> HIDE DEF w, b
<1>7. \A i \in 1..(2 * n) :
         /\ w[i] \in Node
         /\ \E j \in Pairs : \/ i = 2 * j - 1 /\ w[i] = K(p[j])
                             \/ i = 2 * j /\ w[i] = V(p[j])
  <2>1. p \in [Pairs -> Pairs]  BY <1>2
  <2> QED  BY <1>3, <2>1, Positions DEF n
<1>8. \A i \in 1..(2 * n) : w[i + 1] = next[w[i]]
  <2> SUFFICES ASSUME NEW i \in 1..(2 * n) PROVE w[i + 1] = next[w[i]]  OBVIOUS
  <2>1. PICK j \in Pairs : \/ i = 2 * j - 1 /\ w[i] = K(p[j])
                           \/ i = 2 * j /\ w[i] = V(p[j])
    BY <1>7
  <2>2. j \in Int  BY <1>1
  <2>3. CASE i = 2 * j - 1 /\ w[i] = K(p[j])
    <3>1. i + 1 = 2 * j  BY <2>2, <2>3
    <3> QED  BY <1>2, <1>3, <2>3, <3>1
  <2>4. CASE i = 2 * j /\ w[i] = V(p[j])
    <3>1. CASE j = n  BY <1>2, <1>4, <2>4, <3>1
    <3>2. CASE j # n
      <4>1. j + 1 \in Pairs /\ i + 1 = 2 * (j + 1) - 1  BY <1>1, <2>2, <2>4, <3>2
      <4>2. w[i + 1] = K(p[j + 1])  BY <1>3, <4>1
      <4> QED  BY <1>2, <2>4, <3>2, <4>2
    <3> QED  BY <3>1, <3>2
  <2> QED  BY <2>1, <2>3, <2>4
<1>9. w[1] = begin
  <2>1. 1 \in Pairs /\ 2 * 1 - 1 = 1  BY <1>1
  <2> QED  BY <1>2, <1>3, <2>1
<1>10. \A i \in 1..(2 * n + 1) : Walk(next, begin)[i] = w[i]
  <2>1. \A i \in 1..(2 * Len(key)) : w[i] \in Node  BY <1>7 DEF n
  <2>2. \A i \in 1..(2 * Len(key)) : w[i + 1] = next[w[i]]  BY <1>8 DEF n
  <2>3. LeadsAlong(next, begin, w)  BY <1>9, <2>1, <2>2 DEF LeadsAlong
  <2>4. \A i \in 1..(2 * Len(key) + 1) : Walk(next, begin)[i] = w[i]
    BY <2>3, WalkIs
  <2> QED  BY <2>4 DEF n
<1>11. \A i \in 1..(2 * n) : 2 * n + 1 - i \in 1..(2 * n)  BY <1>1
<1>12. \A i \in 1..(2 * n) : b[i] \in Node  BY <1>5, <1>7, <1>11
<1>13. b[1] = end
  <2>1. n \in Pairs /\ 1 \in 1..(2 * n) /\ 2 * n + 1 - 1 = 2 * n  BY <1>1
  <2> QED  BY <1>2, <1>3, <1>5, <2>1
<1>14. \A i \in 1..(2 * n) : b[i + 1] = prev[b[i]]
  <2> SUFFICES ASSUME NEW i \in 1..(2 * n) PROVE b[i + 1] = prev[b[i]]  OBVIOUS
  <2> DEFINE k == 2 * n + 1 - i
  <2>1. k \in 1..(2 * n) /\ b[i] = w[k] /\ k = 2 * n + 1 - i  BY <1>5, <1>11
  <2>2. PICK j \in Pairs : \/ k = 2 * j - 1 /\ w[k] = K(p[j])
                           \/ k = 2 * j /\ w[k] = V(p[j])
    BY <1>7, <2>1
  <2> HIDE DEF k
  <2>3. j \in Int /\ i \in Int /\ 1 <= i /\ i <= 2 * n  BY <1>1
  <2>4. CASE k = 2 * j /\ w[k] = V(p[j])
    <3>1. i + 1 \in 1..(2 * n) /\ 2 * n + 1 - (i + 1) = 2 * j - 1
      BY <1>1, <2>1, <2>3, <2>4
    <3>2. b[i + 1] = K(p[j])  BY <1>3, <1>5, <3>1
    <3> QED  BY <1>2, <2>1, <2>4, <3>2
  <2>5. CASE k = 2 * j - 1 /\ w[k] = K(p[j])
    <3>1. CASE j = 1
      <4>1. i + 1 = 2 * n + 1  BY <1>1, <2>1, <2>3, <2>5, <3>1
      <4> QED  BY <1>2, <1>6, <2>1, <2>5, <3>1, <4>1
    <3>2. CASE j # 1
      <4>1. /\ j - 1 \in Pairs /\ i + 1 \in 1..(2 * n)
            /\ 2 * n + 1 - (i + 1) = 2 * (j - 1)
        BY <1>1, <2>1, <2>3, <2>5, <3>2
      <4>2. b[i + 1] = V(p[j - 1])  BY <1>3, <1>5, <4>1
      <4> QED  BY <1>2, <2>1, <2>5, <3>2, <4>2
    <3> QED  BY <3>1, <3>2
  <2> QED  BY <2>2, <2>4, <2>5
<1>15. \A i \in 1..(2 * n + 1) : Walk(prev, end)[i] = b[i]
  <2>1. \A i \in 1..(2 * Len(key)) : b[i] \in Node  BY <1>12 DEF n
  <2>2. \A i \in 1..(2 * Len(key)) : b[i + 1] = prev[b[i]]  BY <1>14 DEF n
  <2>3. LeadsAlong(prev, end, b)  BY <1>13, <2>1, <2>2 DEF LeadsAlong
  <2>4. \A i \in 1..(2 * Len(key) + 1) : Walk(prev, end)[i] = b[i]
    BY <2>3, WalkIs
  <2> QED  BY <2>4 DEF n
<1>16. \A i \in 1..(2 * n) : Walk(prev, end)[i] = Walk(next, begin)[2 * n + 1 - i]
  <2>1. \A i \in 1..(2 * n) : i \in 1..(2 * n + 1)  BY <1>1
  <2> QED  BY <1>5, <1>10, <1>11, <1>15, <2>1
<1>17. \A i \in Pairs : 2 * i - 1 \in 1..(2 * n + 1) /\ 2 * i \in 1..(2 * n + 1)  BY <1>1
<1>18. 2 * n + 1 \in 1..(2 * n + 1)  BY <1>1
<1> QED  BY <1>3, <1>4, <1>10, <1>16, <1>17, <1>18 DEF n

LEMMA ListedIsWhole ==
    ASSUME KeysOK, NEW p, Listed(p)
    PROVE  NothingLost
<1> DEFINE nodes == Walk(next, begin)
           back == Walk(prev, end)
           count == 2 * Len(key)
<1>1. /\ \A i \in Pairs : nodes[2 * i - 1] = K(p[i]) /\ nodes[2 * i] = V(p[i])
      /\ nodes[count + 1] = NULL
      /\ \A i \in 1..count : back[i] = nodes[count + 1 - i]
  BY ListedReads
<1>2. p \in [Pairs -> Pairs] /\ \A a \in Pairs : \E i \in Pairs : p[i] = a  BY DEF Listed
<1>3. Len(key) \in Nat /\ Pairs = 1..Len(key) /\ Node = 1..count  BY PairNumbers DEF Pairs
<1> HIDE DEF nodes, back
<1>4. \A i \in 1..count : nodes[i] \in Node  BY <1>1, <1>2, Positions
<1>5. \A m \in Node : \E i \in 1..count : nodes[i] = m
  <2> SUFFICES ASSUME NEW m \in Node PROVE \E i \in 1..count : nodes[i] = m  OBVIOUS
  <2>1. PICK a \in Pairs : m = K(a) \/ m = V(a)  BY PairNumbers
  <2>2. PICK i \in Pairs : p[i] = a  BY <1>2
  <2>3. 2 * i - 1 \in 1..count /\ 2 * i \in 1..count  BY <1>3
  <2> QED  BY <1>1, <2>1, <2>2, <2>3
<1>6. {nodes[i] : i \in 1..count} = Node  BY <1>4, <1>5
<1>7. \A i \in 1..Len(key) :
         nodes[2 * i - 1] % 2 = 1 /\ nodes[2 * i] = nodes[2 * i - 1] + 1
  <2> SUFFICES ASSUME NEW i \in Pairs
               PROVE  nodes[2 * i - 1] % 2 = 1 /\ nodes[2 * i] = nodes[2 * i - 1] + 1
    BY <1>3
  <2>1. p[i] \in Nat  BY <1>2, <1>3
  <2>2. K(p[i]) % 2 = 1 /\ V(p[i]) = K(p[i]) + 1  BY <2>1 DEF K, V
  <2> QED  BY <1>1, <2>2
<1> QED  BY <1>1, <1>6, <1>7 DEF NothingLost, nodes, back

\* In order and stable together are what SortedAndStable says.
LEMMA InOrderIsSorted ==
    ASSUME KeysOK, NEW p, SortInv(p)
    PROVE  SortedAndStable
<1> SUFFICES ASSUME pc = "done"
             PROVE  \A i, j \in DOMAIN Ordered : i < j =>
                       LET a == Ordered[i]  b == Ordered[j] IN
                       KEY_STRVAL(a) < KEY_STRVAL(b)
                          \/ (KEY_STRVAL(a) = KEY_STRVAL(b) /\ a < b)
  BY DEF SortedAndStable
<1>1. Listed(p) /\ Stable(p) /\ InOrder(p, Len(key)) /\ p \in [Pairs -> Pairs]
  BY DEF SortInv, Listed
<1>2. Ordered = [i \in Pairs |-> Walk(next, begin)[2 * i - 1]]  BY DEF Ordered, Pairs
<1>3. \A i \in Pairs : Walk(next, begin)[2 * i - 1] = K(p[i])  BY <1>1, ListedReads
<1>4. DOMAIN Ordered = Pairs /\ \A i \in Pairs : Ordered[i] = K(p[i])  BY <1>2, <1>3
<1> SUFFICES ASSUME NEW i \in Pairs, NEW j \in Pairs, i < j
             PROVE  KEY_STRVAL(K(p[i])) < KEY_STRVAL(K(p[j]))
                       \/ (KEY_STRVAL(K(p[i])) = KEY_STRVAL(K(p[j])) /\ K(p[i]) < K(p[j]))
  BY <1>4
<1>5. /\ KEY_STRVAL(K(p[i])) = key[p[i]] /\ KEY_STRVAL(K(p[j])) = key[p[j]]
      /\ key[p[i]] \in Int /\ key[p[j]] \in Int /\ p[i] \in Nat /\ p[j] \in Nat
  BY <1>1, PairNumbers
<1>6. key[p[i]] <= key[p[j]]  BY <1>1 DEF InOrder, Pairs
<1>7. key[p[i]] = key[p[j]] => p[i] < p[j]  BY <1>1 DEF Stable
<1>8. p[i] < p[j] => K(p[i]) < K(p[j])  BY <1>5 DEF K
<1> QED  BY <1>5, <1>6, <1>7, <1>8

-----------------------------------------------------------------------------
\* The invariant of which both properties of the sort follow.
THEOREM SortHolds == SortSpec => []SortIInv
BY SortStarts, SortGoesOn, PTL DEF SortSpec

\* For dicts of every size and whatever their keys are: no swap of plist_sort loses
\* a node, parts a key from its value or leaves a link of the list that is stale.
THEOREM SortLosesNothing == SortSpec => []NothingLost
<1>1. SortIInv => NothingLost  BY ListedIsWhole DEF SortIInv, SortInv
<1> QED  BY <1>1, SortHolds, PTL

\* When plist_sort returns the pairs are in the order of strcmp, and those with the
\* same key as they were.
THEOREM SortSorts == SortSpec => []SortedAndStable
<1>1. SortIInv => SortedAndStable  BY InOrderIsSorted DEF SortIInv
<1> QED  BY <1>1, SortHolds, PTL

================================================================================
