--------------------------- MODULE MCPlistScalar ---------------------------
(* A byte of 2 bits: 8 bytes have 65536 values. Tried are those around each *)
(* limit, 1, 2, 3, 4 and 8 bytes and half of 4 and of 8.                    *)
EXTENDS PlistScalar
MCVals ==
    LET limits == {0, 4, 16, 64, 128, 256, 1024, 32768, 65536}
    IN  {l + d : l \in limits, d \in -3..3} \cap (0..65535)
=============================================================================
