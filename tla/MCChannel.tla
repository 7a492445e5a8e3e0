----------------------------- MODULE MCChannel -----------------------------
(* Instances of Channel for TLC. A cfg picks who uses the channel.         *)
EXTENDS Channel

CONSTANTS core0, core1, isr   \* the two threads, and a handler of core 0

CoreOf == [a \in Actors |-> IF a = core1 THEN 1 ELSE 0]

(* The instance respects the use the code is written for.                  *)
ASSUME InstanceIsSafe == SafeUse
=============================================================================
