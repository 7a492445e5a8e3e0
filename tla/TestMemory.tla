----------------------------- MODULE TestMemory -----------------------------
(***************************************************************************)
(* The host build's simulated I/O memory (test-system/testSystem.c):       *)
(* test_set, test_read and test_write prepare it, peek and poke use it and *)
(* test_sync reports what did not go as expected. The lists are searched   *)
(* from the front and an expectation is used up by the access it matches.  *)
(***************************************************************************)
EXTENDS Integers, Sequences, FiniteSets, SequencesExt

CONSTANTS
    Addresses, Cells,   \* locations and the values written to them
    MaxEvents,          \* bound: expectations and accesses between two syncs
    MaxMemory           \* bound: entries of memory_ when a poke adds one

VARIABLES
    memory,      \* memory_: sequence of [address, value]
    expected,    \* expected_: sequence of [operation, address, value]
    log,         \* log_: number of complaints since the last test_sync
    report,      \* complaints the last test_sync returned
    last,        \* history: the last value set or written to each address
    seen,        \* history: value of the last peek
    events       \* history: expectations and accesses since the last sync

vars == <<memory, expected, log, report, last, seen, events>>

Unset == 0    \* not a member of Cells
Garbage == 99 \* 0xa5a5a5
ASSUME CellsAssumption == Cells \subseteq 1 .. 98

Expectation ==
    [operation : {"read", "write"}, address : Addresses, value : Cells]
    \cup [operation : {"readAny", "writeAny"}, address : Addresses, value : {Unset}]

Init ==
    /\ memory = <<>> /\ expected = <<>> /\ log = 0 /\ report = 0
    /\ last = [a \in Addresses |-> Unset] /\ seen = Unset /\ events = <<>>

FirstAt(a) == SelectInSeq(memory, LAMBDA m : m.address = a)

(* testIntrinsicsSetMemory: replaces the entry or adds one.                *)
SetMemory(a, v) ==
    /\ memory' = IF FirstAt(a) = 0 THEN Append(memory, [address |-> a, value |-> v])
                                   ELSE [memory EXCEPT ![FirstAt(a)].value = v]
    /\ last' = [last EXCEPT ![a] = v]
    /\ UNCHANGED <<expected, log, report, seen, events>>

(* testIntrinsicsExpectRead, ...ReadAnyValue, ...Write, ...WriteAnyValue.  *)
Expect(e) ==
    /\ expected' = Append(expected, e)
    /\ events' = Append(events, [kind |-> "expect", item |-> e])
    /\ UNCHANGED <<memory, log, report, last, seen>>

(* The expectation an access uses up: an exact one before one of any value. *)
Exact(op, a, v) ==
    SelectInSeq(expected, LAMBDA e : e.operation = op /\ e.address = a /\ e.value = v)
AnyValue(op, a) ==
    SelectInSeq(expected, LAMBDA e : e.operation = op /\ e.address = a)
MutFulfil(op, any, a, v) ==   \* any value first
    LET i == IF AnyValue(any, a) # 0 THEN AnyValue(any, a) ELSE Exact(op, a, v)
    IN  IF i = 0 THEN log' = log + 1 /\ UNCHANGED expected
                 ELSE expected' = RemoveAt(expected, i) /\ UNCHANGED log
Fulfil(op, any, a, v) ==
    LET i == IF Exact(op, a, v) # 0 THEN Exact(op, a, v) ELSE AnyValue(any, a)
    IN  IF i = 0 THEN log' = log + 1 /\ UNCHANGED expected
                 ELSE expected' = RemoveAt(expected, i) /\ UNCHANGED log

(* read(), the target of peek.                                             *)
Read(a) ==
    /\ IF FirstAt(a) = 0
         THEN /\ seen' = Garbage /\ log' = log + 1
              /\ UNCHANGED expected
         ELSE /\ seen' = memory[FirstAt(a)].value
              /\ Fulfil("read", "readAny", a, memory[FirstAt(a)].value)
    /\ events' = Append(events, [kind |-> "read",
                    item |-> [operation |-> "read", address |-> a, value |-> last[a]]])
    /\ UNCHANGED <<memory, report, last>>

(* write(), the target of poke: updates the entry and always adds another. *)
MutWrite(a, v) ==   \* updates only what is there
    /\ memory' = [i \in DOMAIN memory |->
                    IF i = FirstAt(a) THEN [address |-> a, value |-> v] ELSE memory[i]]
    /\ Fulfil("write", "writeAny", a, v)
    /\ last' = [last EXCEPT ![a] = v]
    /\ events' = Append(events, [kind |-> "write",
                    item |-> [operation |-> "write", address |-> a, value |-> v]])
    /\ UNCHANGED <<report, seen>>
Write(a, v) ==
    /\ memory' = Append([i \in DOMAIN memory |->
                    IF i = FirstAt(a) THEN [address |-> a, value |-> v] ELSE memory[i]],
                    [address |-> a, value |-> v])
    /\ Fulfil("write", "writeAny", a, v)
    /\ last' = [last EXCEPT ![a] = v]
    /\ events' = Append(events, [kind |-> "write",
                    item |-> [operation |-> "write", address |-> a, value |-> v]])
    /\ UNCHANGED <<report, seen>>

(* testIntrinsicsSync after the interrupts: what is left is reported, a    *)
(* heading and a line each, and forgotten; the caller takes the log.       *)
SyncReport ==
    /\ report' = log + (IF expected = <<>> THEN 0 ELSE 1 + Len(expected))
    /\ expected' = <<>> /\ log' = 0 /\ events' = <<>> /\ seen' = Unset
    /\ UNCHANGED <<memory, last>>

Next ==
    \/ /\ Len(events) < MaxEvents
       /\ \/ \E e \in Expectation : Expect(e)
          \/ \E a \in Addresses : Read(a)
          \/ \E a \in Addresses, v \in Cells : Len(memory) < MaxMemory /\ Write(a, v)
    \/ \E a \in Addresses, v \in Cells : SetMemory(a, v)
    \/ SyncReport

Spec == Init /\ [][Next]_vars

-----------------------------------------------------------------------------
(* A peek returns what was last set or poked at its address, although      *)
(* write() leaves stale entries behind.                                    *)
PeekSeesLastPoke ==
    [][\A a \in Addresses : Read(a) =>
        seen' = IF last[a] = Unset THEN Garbage ELSE last[a]]_vars

(* What the test intrinsics promise (docs/test_intrinsics.md): test_sync   *)
(* returns nothing exactly if accesses and expectations can be paired off, *)
(* each access with an expectation made before it. The code pairs greedily. *)
Compatible(e, x) ==
    /\ e.address = x.address
    /\ \/ e.operation = x.operation /\ e.value = x.value
       \/ e.operation = "readAny" /\ x.operation = "read"
       \/ e.operation = "writeAny" /\ x.operation = "write"
CanPairOff ==
    LET exps == {i \in DOMAIN events : events[i].kind = "expect"}
        accs == DOMAIN events \ exps
    IN  /\ Cardinality(exps) = Cardinality(accs)
        /\ \E pair \in [accs -> exps] :
             /\ \A i, j \in accs : pair[i] = pair[j] => i = j
             /\ \A i \in accs : pair[i] < i /\ events[i].item.value # Unset
                                /\ Compatible(events[pair[i]].item, events[i].item)
SyncPassesIffPaired == [][SyncReport => (report' = 0 <=> CanPairOff)]_vars
=============================================================================
