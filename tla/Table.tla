------------------------------- MODULE Table -------------------------------
(***************************************************************************)
(* The hash table behind globals, fields, methods and interned strings     *)
(* (table.c): open addressing with linear probing, tombstones that count   *)
(* towards the load, growth by reinsertion. Keys are interned, so they     *)
(* compare by identity. The two loops that move or remove many entries     *)
(* take one step per entry; the others are atomic.                         *)
(***************************************************************************)
EXTENDS Integers, FiniteSets

CONSTANTS
    Keys, Values,
    NoKey,              \* NULL
    Nil, True,          \* the values that tell an empty entry from a tombstone
    Absent, NoAnswer,
    Hash,               \* key->hash
    FirstCapacity,      \* what GROW_CAPACITY makes of 0: 8 in the code
    MaxCapacity         \* bound of the model

ASSUME TableAssumption ==
    /\ NoKey \notin Keys /\ Absent \notin Values
    /\ Nil \in Values /\ True \in Values /\ Nil # True
    /\ Hash \in [Keys -> Nat]
    /\ FirstCapacity \in Nat /\ FirstCapacity > 1
    /\ MaxCapacity \in Nat

VARIABLES
    entries, capacity, count,   \* the ValueTable
    fresh, moved,               \* adjustCapacity: the new array, its count
    cursor,                     \* i of the loop in progress
    pending,                    \* the key and value tableSet was called with
    white,                      \* the keys tableRemoveWhite must delete
    pc,                         \* the loop in progress, or "idle"
    answer                      \* what the last call returned

vars == <<entries, capacity, count, fresh, moved, cursor, pending, white, pc, answer>>

Entries == [key : Keys \cup {NoKey}, value : Values]
EmptyEntry == [key |-> NoKey, value |-> Nil]
Tombstone == [key |-> NoKey, value |-> True]
Slots(n) == 0 .. n - 1
NoEntries == [i \in Slots(0) |-> EmptyEntry]

Init ==
    /\ entries = NoEntries /\ capacity = 0 /\ count = 0
    /\ fresh = NoEntries /\ moved = 0
    /\ cursor = 0 /\ pending = EmptyEntry /\ white = {}
    /\ pc = "idle" /\ answer = NoAnswer

-----------------------------------------------------------------------------
(* findEntry. Slot d of the probe starts at the hash and wraps around once. *)
Home(k, n) == Hash[k] % n
Probe(h, d, n) == IF h + d < n THEN h + d ELSE h + d - n
IsEmpty(e) == e.key = NoKey /\ e.value = Nil

(* The d at which the loop stops: at the key or at an empty entry.         *)
StopsAt(es, n, k, d) ==
    LET e == es[Probe(Home(k, n), d, n)] IN e.key = k \/ IsEmpty(e)
Stop(es, n, k) ==
    CHOOSE d \in Slots(n) : StopsAt(es, n, k, d) /\ \A b \in 0 .. d - 1 : ~StopsAt(es, n, k, b)
Tombs(es, n, k) ==
    {d \in 0 .. Stop(es, n, k) - 1 : es[Probe(Home(k, n), d, n)].key = NoKey}
FindEntry(es, n, k) ==
    LET stop == Stop(es, n, k)
        at == IF es[Probe(Home(k, n), stop, n)].key = k \/ Tombs(es, n, k) = {}
                THEN stop
                ELSE CHOOSE d \in Tombs(es, n, k) : \A b \in Tombs(es, n, k) : d <= b
    IN Probe(Home(k, n), at, n)

TableGet(k) ==
    /\ pc = "idle"
    /\ answer' = IF count = 0 THEN Absent
                 ELSE LET e == entries[FindEntry(entries, capacity, k)] IN
                      IF e.key = NoKey THEN Absent ELSE e.value
    /\ UNCHANGED <<entries, capacity, count, fresh, moved, cursor, pending, white, pc>>

(* tableSet: the part after the table has been made large enough.          *)
Put(es, n, c, k, v) ==
    LET i == FindEntry(es, n, k) IN
    /\ entries' = [es EXCEPT ![i] = [key |-> k, value |-> v]]
    /\ count' = c + (IF IsEmpty(es[i]) THEN 1 ELSE 0)
    /\ answer' = (es[i].key = NoKey)

MutOverloaded == count + 1 > capacity   \* fills the table to the last entry
Overloaded == 4 * (count + 1) > 3 * capacity
GrowCapacity(n) == IF n < FirstCapacity THEN FirstCapacity ELSE 2 * n
TableSet(k, v) ==
    /\ pc = "idle" /\ ~Overloaded
    /\ Put(entries, capacity, count, k, v)
    /\ UNCHANGED <<capacity, fresh, moved, cursor, pending, white, pc>>
TableSetGrow(k, v) ==
    /\ pc = "idle" /\ Overloaded /\ GrowCapacity(capacity) <= MaxCapacity
    /\ pending' = [key |-> k, value |-> v]
    /\ fresh' = [i \in Slots(GrowCapacity(capacity)) |-> EmptyEntry]
    /\ moved' = 0 /\ cursor' = 0
    /\ pc' = "grow"
    /\ UNCHANGED <<entries, capacity, count, white, answer>>

(* adjustCapacity, one entry at a time, and the rest of tableSet.          *)
MutMoveEntry ==   \* copies to the same index instead of probing again
    /\ pc = "grow" /\ cursor < capacity
    /\ LET e == entries[cursor] IN
         IF e.key = NoKey THEN UNCHANGED <<fresh, moved>>
         ELSE /\ fresh' = [fresh EXCEPT ![cursor] = e]
              /\ moved' = moved + 1
    /\ cursor' = cursor + 1
    /\ UNCHANGED <<entries, capacity, count, pending, white, pc, answer>>
MoveEntry ==
    /\ pc = "grow" /\ cursor < capacity
    /\ LET e == entries[cursor] IN
         IF e.key = NoKey THEN UNCHANGED <<fresh, moved>>
         ELSE /\ fresh' = [fresh EXCEPT ![FindEntry(fresh, GrowCapacity(capacity), e.key)] = e]
              /\ moved' = moved + 1
    /\ cursor' = cursor + 1
    /\ UNCHANGED <<entries, capacity, count, pending, white, pc, answer>>
AdjustCapacity ==
    /\ pc = "grow" /\ cursor = capacity
    /\ capacity' = GrowCapacity(capacity)
    /\ Put(fresh, GrowCapacity(capacity), moved, pending.key, pending.value)
    /\ pc' = "idle" /\ cursor' = 0
    /\ fresh' = NoEntries /\ moved' = 0 /\ pending' = EmptyEntry
    /\ UNCHANGED white

MutTableDelete(k) ==   \* empties the entry
    /\ pc = "idle"
    /\ LET i == FindEntry(entries, capacity, k)
           found == count # 0 /\ entries[i].key # NoKey IN
         /\ answer' = found
         /\ entries' = IF found THEN [entries EXCEPT ![i] = EmptyEntry] ELSE entries
    /\ UNCHANGED <<capacity, count, fresh, moved, cursor, pending, white, pc>>
TableDelete(k) ==
    /\ pc = "idle"
    /\ LET i == FindEntry(entries, capacity, k)
           found == count # 0 /\ entries[i].key # NoKey IN
         /\ answer' = found
         /\ entries' = IF found THEN [entries EXCEPT ![i] = Tombstone] ELSE entries
    /\ UNCHANGED <<capacity, count, fresh, moved, cursor, pending, white, pc>>

(* tableRemoveWhite, called by the collector with the unmarked strings.    *)
RemoveWhiteCall(w) ==
    /\ pc = "idle" /\ w # {}
    /\ white' = w /\ cursor' = 0 /\ pc' = "sweep"
    /\ UNCHANGED <<entries, capacity, count, fresh, moved, pending, answer>>
RemoveWhite ==
    /\ pc = "sweep" /\ cursor < capacity
    /\ LET e == entries[cursor] IN
         entries' = IF e.key \in white
                      THEN [entries EXCEPT ![FindEntry(entries, capacity, e.key)] = Tombstone]
                      ELSE entries
    /\ cursor' = cursor + 1
    /\ UNCHANGED <<capacity, count, fresh, moved, pending, white, pc, answer>>
MutRemoveWhiteDone ==   \* stops one entry early
    /\ pc = "sweep" /\ cursor = capacity - 1
    /\ pc' = "idle" /\ cursor' = 0 /\ white' = {}
    /\ UNCHANGED <<entries, capacity, count, fresh, moved, pending, answer>>
RemoveWhiteDone ==
    /\ pc = "sweep" /\ cursor = capacity
    /\ pc' = "idle" /\ cursor' = 0 /\ white' = {}
    /\ UNCHANGED <<entries, capacity, count, fresh, moved, pending, answer>>

Next ==
    \/ \E k \in Keys, v \in Values : TableSet(k, v) \/ TableSetGrow(k, v)
    \/ \E k \in Keys : TableGet(k) \/ TableDelete(k)
    \/ MoveEntry \/ AdjustCapacity
    \/ \E w \in SUBSET Keys : RemoveWhiteCall(w)
    \/ RemoveWhite \/ RemoveWhiteDone

Spec == Init /\ [][Next]_vars

-----------------------------------------------------------------------------
InUse(es, n) == {i \in Slots(n) : ~IsEmpty(es[i])}

TypeOK ==
    /\ capacity \in Nat /\ entries \in [Slots(capacity) -> Entries]
    /\ count \in Nat /\ moved \in Nat /\ cursor \in 0 .. capacity
    /\ pc \in {"idle", "grow", "sweep"} /\ white \subseteq Keys
    /\ pending \in Entries /\ (pc = "grow" => pending.key \in Keys)
    /\ pc = "grow" => fresh \in [Slots(GrowCapacity(capacity)) -> Entries]

(* What tableInvariant asserts, and what ends every probe: the count is    *)
(* the number of entries in use, tombstones included, and at least one     *)
(* entry of an allocated table is empty.                                   *)
CountIsInUse == count = Cardinality(InUse(entries, capacity))
ProbesEnd == capacity > 0 => \E i \in Slots(capacity) : IsEmpty(entries[i])

(* Every key is where a probe for it stops, so it is stored once and no    *)
(* tombstone or growth ever hides it.                                      *)
KeysAreFound ==
    \A i \in Slots(capacity) : entries[i].key # NoKey =>
        FindEntry(entries, capacity, entries[i].key) = i

(* The map the table stands for.                                           *)
Holds(es, n, k) == \E i \in Slots(n) : es[i].key = k
Contents(es, n) ==
    [k \in Keys |-> IF Holds(es, n, k)
                      THEN es[CHOOSE i \in Slots(n) : es[i].key = k].value
                      ELSE Absent]
Map == INSTANCE TableMap WITH map <- Contents(entries, capacity)
(* Tables implement the map: every get, set and delete answers as the map  *)
(* would, whatever collisions, tombstones and growth came before.          *)
ImplementsMap == Map!Spec

(* When tableRemoveWhite returns, no unmarked string is left in the table: *)
(* the collector frees them next.                                          *)
NoWhiteLeft ==
    [][pc = "sweep" /\ pc' = "idle" => \A k \in white : ~Holds(entries, capacity, k)]_vars
=============================================================================
