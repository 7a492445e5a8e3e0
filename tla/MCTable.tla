------------------------------ MODULE MCTable ------------------------------
(* Four keys, three of which collide at the end of a table of four, so     *)
(* that probes wrap around; in a table of eight only two of them do.       *)
EXTENDS Table

CONSTANTS a, b, c, d

MCHash == [k \in Keys |-> CASE k = a -> 3 [] k = b -> 7 [] k = c -> 15 [] OTHER -> 0]
=============================================================================
