----------------------------- MODULE MCRoutines -----------------------------
(* Routines on a small program: one coroutine, two routines for core 1     *)
(* that share a coroutine, two interrupt routines; two frames.             *)
EXTENDS Routines

CONSTANTS co, dual, next, inner, handler, other

MCArity == [r \in Routines |-> IF r \in {co, dual, next} THEN 1 ELSE 0]
MCUses == [c \in Contexts |->
             CASE c = "core0" -> Routines \ {inner}
               [] c = "core1" -> {inner} \cap Routines
               [] OTHER -> {}]

(* The program of the runs is one of those that the theorems are about.    *)
ASSUME ProgramIsCareful == CarefulUse
=============================================================================
