-------------------------- MODULE MCTestInterrupts --------------------------
(* Scripts of the kind found under test/yarg-expect/interrupts.            *)
EXTENDS TestInterrupts

CONSTANTS h1, h2, h3

Add(i, h) == [op |-> "add", id |-> i, isr |-> h]
Raise(i) == [op |-> "interrupt", id |-> i, isr |-> h1]
Remove(i, h) == [op |-> "remove", id |-> i, isr |-> h]
Sync == [op |-> "sync", id |-> 1, isr |-> h1]

(* Each interrupt at most once between two syncs, handlers removed last.   *)
SteadyScripts == {
    <<Add(1, h1), Raise(1), Sync, Raise(1), Sync, Remove(1, h1)>>,
    <<Add(1, h1), Add(2, h2), Add(1, h1), Raise(2), Raise(1), Sync,
      Raise(2), Sync, Remove(2, h2), Remove(2, h2)>>,
    <<Add(1, h1), Add(2, h2), Add(3, h3), Raise(3), Raise(1), Raise(2), Sync,
      Raise(1), Raise(3), Sync>> }

(* An interrupt raised again before the sync: a second tranche.            *)
RepeatScripts == {
    <<Add(1, h1), Raise(1), Raise(1), Sync>>,
    <<Add(1, h1), Add(2, h2), Raise(1), Raise(2), Raise(1), Sync>> }

(* Some of three handlers are removed while three accesses are expected,   *)
(* so that the loop of removeInterruptHandler closes each gap.             *)
RemovalScripts == {
    <<Add(1, h1), Add(1, h2), Add(2, h3), Remove(1, h2), Remove(1, h2), Remove(1, h1)>>,
    <<Add(1, h1), Add(2, h2), Add(3, h3), Remove(1, h1), Remove(3, h3)>>,
    <<Add(1, h1), Add(2, h2), Add(3, h3), Raise(1), Sync, Remove(2, h2)>> }

Scripted(calls, k, b) == {[calls |-> c, expected |-> k, settled |-> b] : c \in calls}
UsualScripts == Scripted(SteadyScripts, 0, TRUE) \cup Scripted(RepeatScripts, 0, FALSE)
FirstSyncScripts == Scripted({<<Add(1, h1), Raise(1), Sync>>}, 0, FALSE)
(* Both sets of scripts are of the kind the proofs are about.              *)
ASSUME ScriptsAreUsual == \A s \in UsualScripts \cup FirstSyncScripts : Usual(s)

AllScripts == UsualScripts \cup Scripted(RemovalScripts, 3, FALSE)
=============================================================================
