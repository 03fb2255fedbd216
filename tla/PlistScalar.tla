---------------------------- MODULE PlistScalar ----------------------------
(***************************************************************************)
(* Integers, UIDs and booleans: how a value a caller means is kept in a    *)
(* node (src/plist.c), and what the binary and the XML format make of it   *)
(* (src/bplist.c, src/xplist.c).                                           *)
(*                                                                         *)
(* A node keeps 8 bytes, in a union that all types share, and a length: an *)
(* integer with length 16 is unsigned, any other is signed. The binary     *)
(* format writes as few bytes as the value needs. All limits of the code   *)
(* are powers of a byte; the module is parameterised by the number of      *)
(* values a byte has, so that with a small one every boundary is in reach. *)
(***************************************************************************)
EXTENDS Integers, Sequences

CONSTANTS Byte,   \* the number of values of a byte: 256 in the code
          Vals,   \* the 8-byte values that are tried
          None

\* Byte ^ n, as far as 8 bytes reach.
Power[n \in 0..8] == IF n = 0 THEN 1 ELSE Power[n - 1] * Byte

Words == 0..(Power[8] - 1)

\* Half of a byte's values are negative ones.
ASSUME ByteAssumption == Byte \in Nat \ {0} /\ Byte % 2 = 0
ASSUME ValsAssumption == Vals \subseteq Words

VARIABLES node,   \* [type, bits, length]
          meant   \* the number the caller gave it: the code has no such variable

vars == <<node, meant>>

UINT32_MAX == Power[4] - 1
INT_MAX    == Power[4] \div 2 - 1
INT64_MAX  == Power[8] \div 2 - 1

\* The bits of a number and the number of signed bits, in two's complement.
Bits(num)    == num % Power[8]
Signed(bits) == IF bits > INT64_MAX THEN bits - Power[8] ELSE bits

\* The first byte in memory, on a little-endian machine: where boolval lies.
LowByte(bits) == bits % Byte

-----------------------------------------------------------------------------
(***************************************************************************)
(* Constructors and setters (plist.c)                                      *)
(***************************************************************************)
plist_new_int(bits)  == [type |-> "int", bits |-> bits, length |-> 8]
plist_new_uid(bits)  == [type |-> "uid", bits |-> bits, length |-> 8]
plist_new_bool(val)  == [type |-> "bool", bits |-> val, length |-> 1]

plist_new_uint(bits) ==
    [type |-> "int", bits |-> bits, length |-> IF bits > INT_MAX THEN 16 ELSE 8]

plist_set_uint_val(n, bits) ==
    [type |-> "int", bits |-> bits, length |-> IF bits > INT64_MAX THEN 16 ELSE 8]

\* Only one byte of the union is written.
plist_set_bool_val(n, val) ==
    [type |-> "bool", bits |-> n.bits - LowByte(n.bits) + val, length |-> 1]

-----------------------------------------------------------------------------
(***************************************************************************)
(* Comparison and sign (plist.c)                                           *)
(***************************************************************************)
plist_data_compare(a, b) == a.type = b.type /\ a.length = b.length /\ a.bits = b.bits

plist_int_val_is_negative(n) == n.type = "int" /\ n.length # 16 /\ Signed(n.bits) < 0

Order(a, b) == IF a = b THEN 0 ELSE IF a < b THEN -1 ELSE 1

\* Slip: unsigned.
plist_int_val_compare_slip(n, num) == Order(n.bits, Bits(num))

plist_int_val_compare(n, num)   == Order(Signed(n.bits), num)
plist_uint_val_compare(n, bits) == Order(n.bits, bits)

-----------------------------------------------------------------------------
(***************************************************************************)
(* The binary format (bplist.c). An object is a marker, with its low       *)
(* nibble, and the bytes that follow, most significant first.              *)
(***************************************************************************)
get_needed_bytes(bits) ==
    IF bits < Power[1] THEN 1 ELSE IF bits < Power[2] THEN 2 ELSE
    IF bits < Power[3] THEN 3 ELSE IF bits < Power[4] THEN 4 ELSE 8

\* Slip: integers of three bytes are written.
whole_size_slip(size) == size

\* "do not write 3bytes int node"
whole_size(size) == IF size = 3 THEN 4 ELSE size

Log2(size) == IF size = 8 THEN 3 ELSE IF size = 4 THEN 2 ELSE IF size = 2 THEN 1 ELSE 0

BigEndian(bits, size) == [i \in 1..size |-> (bits \div Power[size - i]) % Byte]

Object(marker, low, bytes) == [marker |-> marker, low |-> low, bytes |-> bytes]

write_int(bits) ==
    LET size == whole_size(get_needed_bytes(bits)) IN
    Object("int", Log2(size), BigEndian(bits, size))

write_uint(bits) == Object("int", 4, BigEndian(0, 8) \o BigEndian(bits, 8))

write_uid(bits) ==
    LET val  == bits % (UINT32_MAX + 1)
        size == whole_size(get_needed_bytes(val)) IN
    Object("uid", size - 1, BigEndian(val, size))

to_bin(n) ==
    CASE n.type = "int" /\ n.length = 16 -> write_uint(n.bits)
      [] n.type = "int" /\ n.length # 16 -> write_int(n.bits)
      [] n.type = "uid"                  -> write_uid(n.bits)
      [] n.type = "bool" -> Object(IF LowByte(n.bits) # 0 THEN "true" ELSE "false", 0, <<>>)

\* UINT_TO_HOST of the first size bytes: of more than 8 the last 8.
UINT_TO_HOST(bytes, size) ==
    LET value[i \in 0..size] ==
            IF i = 0 \/ i <= size - 8 THEN 0 ELSE value[i - 1] * Byte + bytes[i]
    IN  value[size]

\* Slip: the length is the size in the file.
parsed_length_slip(size) == size

\* The length parse_int_node gives an integer of size bytes.
parsed_length(size) == IF size = 16 THEN 16 ELSE 8

parse_int_node(object) ==
    LET size == 2 ^ object.low IN
    IF size \notin {1, 2, 4, 8, 16} THEN None
    ELSE [type |-> "int", bits |-> UINT_TO_HOST(object.bytes, size),
          length |-> parsed_length(size)]

parse_uid_node(object) ==
    LET bits == UINT_TO_HOST(object.bytes, object.low + 1) IN
    IF bits > UINT32_MAX THEN None ELSE plist_new_uid(bits)

from_bin(object) ==
    CASE object.marker = "int"   -> parse_int_node(object)
      [] object.marker = "uid"   -> parse_uid_node(object)
      [] object.marker = "true"  -> plist_new_bool(1)
      [] object.marker = "false" -> plist_new_bool(0)

-----------------------------------------------------------------------------
(***************************************************************************)
(* The XML format (xplist.c): the text of an integer is the number.        *)
(***************************************************************************)
to_xml(n) == IF n.length = 16 THEN n.bits ELSE Signed(n.bits)

\* What strtoull returned does not fit a signed integer.
xml_out_of_range(negative, magnitude) == negative /\ magnitude > INT64_MAX + 1

from_xml(num) ==
    LET negative  == num < 0
        magnitude == IF negative THEN -num ELSE num IN
    IF xml_out_of_range(negative, magnitude) THEN None
    ELSE [type |-> "int", bits |-> Bits(num),
          length |-> IF negative \/ magnitude <= INT64_MAX THEN 8 ELSE 16]

-----------------------------------------------------------------------------
Init ==
    /\ node = plist_new_bool(0)
    /\ meant = 0

NewInt  == \E v \in Vals : node' = plist_new_int(v) /\ meant' = Signed(v)
NewUint == \E v \in Vals : node' = plist_new_uint(v) /\ meant' = v
NewUid  == \E v \in Vals : node' = plist_new_uid(v) /\ meant' = v
NewBool == \E v \in 0..(Byte - 1) : node' = plist_new_bool(v) /\ meant' = v

\* plist_set_int_val and plist_set_uid_val set all that a new node has.
SetUint == \E v \in Vals : node' = plist_set_uint_val(node, v) /\ meant' = v
SetBool == \E v \in 0..(Byte - 1) : node' = plist_set_bool_val(node, v) /\ meant' = v

\* plist_to_bin, then plist_from_bin of the result.
ThroughBinary == node # None /\ node' = from_bin(to_bin(node)) /\ UNCHANGED meant

\* plist_to_xml, then plist_from_xml of the result.
ThroughXml ==
    /\ node # None /\ node.type = "int"
    /\ node' = from_xml(to_xml(node))
    /\ UNCHANGED meant

Next == NewInt \/ NewUint \/ NewUid \/ NewBool \/ SetUint \/ SetBool
        \/ ThroughBinary \/ ThroughXml

Spec == Init /\ [][Next]_vars

-----------------------------------------------------------------------------

\* The number a caller put into a node comes back from both formats as often as
\* it is converted, whatever value and type the node had before: the sign is not
\* lost although the format stores as few bytes as it can, nor made up for a
\* large unsigned number, and plist_int_val_is_negative tells it. (A UID has 32 bits.)
ValueKept ==
    CASE node.type = "int" -> to_xml(node) = meant
                              /\ plist_int_val_is_negative(node) = (meant < 0)
      [] node.type = "uid" -> meant <= UINT32_MAX => node.bits = meant
      [] node.type = "bool" -> (LowByte(node.bits) # 0) = (meant # 0)

\* The binary format gives back an integer that plist_compare_node_value says is
\* the same (test/plist_cmp.c).
EqualThroughBinary ==
    [][ThroughBinary /\ node.type = "int" => plist_data_compare(node, node')]_vars

\* Integers that a signed integer can hold are ordered as numbers.
SignedOrder ==
    node.type = "int" /\ meant <= INT64_MAX =>
        \A v \in Vals : plist_int_val_compare(node, Signed(v)) = Order(meant, Signed(v))
=============================================================================
