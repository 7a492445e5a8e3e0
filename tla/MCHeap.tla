------------------------------- MODULE MCHeap -------------------------------
(* Heap with interchangeable addresses.                                    *)
EXTENDS Heap

Addresses == Permutations(Objs)
=============================================================================
