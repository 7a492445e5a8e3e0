------------------------------ MODULE MCBigInt ------------------------------
(* Digits below 4, four of them; text in radix 3, four digits to a chunk.  *)
EXTENDS BigIntOps

MCLefts == 0 .. 255
MCRights == (0 .. 6) \cup {15, 16, 17, 31, 63, 64, 65, 127, 128, 192, 240, 255}
=============================================================================
