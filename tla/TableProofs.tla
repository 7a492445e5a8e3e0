---------------------------- MODULE TableProofs ----------------------------
(***************************************************************************)
(* Proofs about the hash table, for every set of keys, every hash and      *)
(* every capacity. The invariant says of each stored key that no slot on   *)
(* its probe path before its own stops the probe, and that the load leaves *)
(* an empty entry for every probe to end at.                               *)
(***************************************************************************)
EXTENDS Table, FiniteSetTheorems, WellFoundedInduction, TLAPS

(* The probe visits each slot once: Dist is its inverse.                   *)
Dist(h, i, n) == IF i >= h THEN i - h ELSE i - h + n

LEMMA ProbeInverse ==
  ASSUME NEW n \in Nat, n > 0, NEW h \in Slots(n)
  PROVE  /\ \A d \in Slots(n) : Probe(h, d, n) \in Slots(n) /\ Dist(h, Probe(h, d, n), n) = d
         /\ \A i \in Slots(n) : Dist(h, i, n) \in Slots(n) /\ Probe(h, Dist(h, i, n), n) = i
  BY DEF Probe, Dist, Slots

LEMMA HomeType ==
  ASSUME NEW n \in Nat, n > 0, NEW k \in Keys
  PROVE  Home(k, n) \in Slots(n)
<1>1. Hash[k] \in Nat
  BY TableAssumption
<1>2. \A x \in Nat : x % n \in 0 .. n - 1
  OBVIOUS
<1> QED BY <1>1, <1>2 DEF Home, Slots

(* A set of naturals has a least element.                                  *)
LEMMA Least ==
  ASSUME NEW T, T \subseteq Nat, T # {}
  PROVE  \E x \in T : \A y \in T : x <= y
<1> DEFINE R == {ss \in Nat \X Nat : ss[1] < ss[2]}
<1>1. IsWellFoundedOn(R, Nat)
  BY NatLessThanWellFounded DEF OpToRel
<1>2. PICK x \in T : \A y \in T : ~(<<y, x>> \in R)
  <2> HIDE DEF R
  <2> QED BY <1>1, WFMin
<1>3. \A y \in T : ~(y < x)
  BY <1>2
<1> QED BY <1>3

(* The probe for a key stops if some entry is empty.                       *)
LEMMA StopFacts ==
  ASSUME NEW n \in Nat, n > 0, NEW es, NEW k \in Keys,
         \E i \in Slots(n) : IsEmpty(es[i])
  PROVE  /\ Stop(es, n, k) \in Slots(n)
         /\ StopsAt(es, n, k, Stop(es, n, k))
         /\ \A b \in 0 .. Stop(es, n, k) - 1 : ~StopsAt(es, n, k, b)
<1> DEFINE T == {d \in Slots(n) : StopsAt(es, n, k, d)}
<1>1. PICK i \in Slots(n) : IsEmpty(es[i])
  OBVIOUS
<1>2. Home(k, n) \in Slots(n)
  BY HomeType
<1>3. /\ Dist(Home(k, n), i, n) \in Slots(n)
      /\ Probe(Home(k, n), Dist(Home(k, n), i, n), n) = i
  BY <1>2, ProbeInverse
<1>4. Dist(Home(k, n), i, n) \in T
  BY <1>1, <1>3 DEF StopsAt
<1>5. T \subseteq Nat
  BY DEF Slots
<1> HIDE DEF T
<1>6. PICK d \in T : \A y \in T : d <= y
  BY <1>4, <1>5, Least
<1>7. d \in Slots(n) /\ StopsAt(es, n, k, d) /\ \A b \in 0 .. d - 1 : ~StopsAt(es, n, k, b)
  BY <1>5, <1>6 DEF T, Slots
<1> QED BY <1>7 DEF Stop

-----------------------------------------------------------------------------
(* No slot on the probe path of k before slot i stops the probe.           *)
Clear(es, n, k, i) == \A b \in 0 .. Dist(Home(k, n), i, n) - 1 : ~StopsAt(es, n, k, b)
(* Every stored key is where its probe stops.                              *)
Placed(es, n) == \A i \in Slots(n) : es[i].key # NoKey => Clear(es, n, es[i].key, i)

(* What findEntry returns: the key's entry or a free one, on a clear path. *)
LEMMA FindFacts ==
  ASSUME NEW n \in Nat, n > 0, NEW es, NEW k \in Keys,
         \E i \in Slots(n) : IsEmpty(es[i])
  PROVE  LET i == FindEntry(es, n, k) IN
         /\ i \in Slots(n)
         /\ es[i].key \in {k, NoKey}
         /\ Clear(es, n, k, i)
<1> DEFINE h == Home(k, n)
           stop == Stop(es, n, k)
           first == CHOOSE d \in Tombs(es, n, k) : \A b \in Tombs(es, n, k) : d <= b
<1>1. h \in Slots(n)
  BY HomeType
<1>2. /\ stop \in Slots(n) /\ StopsAt(es, n, k, stop)
      /\ \A b \in 0 .. stop - 1 : ~StopsAt(es, n, k, b)
  BY StopFacts
<1>3. ASSUME Tombs(es, n, k) # {}
      PROVE  first \in 0 .. stop - 1 /\ es[Probe(h, first, n)].key = NoKey
  <2>1. Tombs(es, n, k) \subseteq 0 .. stop - 1
    BY DEF Tombs
  <2>2. \E d \in Tombs(es, n, k) : \A b \in Tombs(es, n, k) : d <= b
    <3>1. Tombs(es, n, k) \subseteq Nat
      BY <2>1, <1>2 DEF Slots
    <3> QED BY <3>1, <1>3, Least
  <2>3. first \in Tombs(es, n, k)
    BY <2>2
  <2> QED BY <2>1, <2>3 DEF Tombs
<1>4. ASSUME NEW at \in Slots(n), at <= stop
      PROVE  Probe(h, at, n) \in Slots(n) /\ Clear(es, n, k, Probe(h, at, n))
  <2>1. Probe(h, at, n) \in Slots(n) /\ Dist(h, Probe(h, at, n), n) = at
    BY <1>1, ProbeInverse
  <2>2. \A b \in 0 .. at - 1 : b \in 0 .. stop - 1
    BY <1>2, <1>4 DEF Slots
  <2> QED BY <2>1, <2>2, <1>2 DEF Clear
<1>5. CASE es[Probe(h, stop, n)].key = k \/ Tombs(es, n, k) = {}
  <2>1. FindEntry(es, n, k) = Probe(h, stop, n)
    BY <1>5 DEF FindEntry
  <2>2. es[Probe(h, stop, n)].key \in {k, NoKey}
    BY <1>2 DEF StopsAt, IsEmpty
  <2> QED BY <2>1, <2>2, <1>2, <1>4 DEF Slots
<1>6. CASE ~(es[Probe(h, stop, n)].key = k \/ Tombs(es, n, k) = {})
  <2>1. FindEntry(es, n, k) = Probe(h, first, n)
    BY <1>6 DEF FindEntry
  <2>2. first \in Slots(n) /\ first <= stop
    BY <1>2, <1>3, <1>6 DEF Slots
  <2> QED BY <2>1, <2>2, <1>3, <1>4, <1>6
<1> QED BY <1>5, <1>6

(* A key that is stored on a clear path is found there.                    *)
LEMMA FindStored ==
  ASSUME NEW n \in Nat, n > 0, NEW es, NEW i \in Slots(n), es[i].key \in Keys,
         \E e \in Slots(n) : IsEmpty(es[e]),
         Clear(es, n, es[i].key, i)
  PROVE  FindEntry(es, n, es[i].key) = i
<1> DEFINE k == es[i].key
           h == Home(k, n)
<1>1. h \in Slots(n)
  BY HomeType
<1>2. Dist(h, i, n) \in Slots(n) /\ Probe(h, Dist(h, i, n), n) = i
  BY <1>1, ProbeInverse
<1>3. StopsAt(es, n, k, Dist(h, i, n))
  BY <1>2 DEF StopsAt
<1>4. /\ Stop(es, n, k) \in Slots(n) /\ StopsAt(es, n, k, Stop(es, n, k))
      /\ \A b \in 0 .. Stop(es, n, k) - 1 : ~StopsAt(es, n, k, b)
  BY StopFacts
<1>5. Stop(es, n, k) = Dist(h, i, n)
  <2>1. ~(Stop(es, n, k) < Dist(h, i, n))
    BY <1>2, <1>4 DEF Clear, Slots
  <2>2. ~(Dist(h, i, n) < Stop(es, n, k))
    BY <1>2, <1>3, <1>4 DEF Slots
  <2> QED BY <2>1, <2>2, <1>2, <1>4 DEF Slots
<1> QED BY <1>2, <1>5 DEF FindEntry

(* A key is stored in one entry only, the one findEntry returns.           *)
LEMMA Unique ==
  ASSUME NEW n \in Nat, n > 0, NEW es, NEW k \in Keys, Placed(es, n),
         \E e \in Slots(n) : IsEmpty(es[e]),
         NEW j \in Slots(n), es[j].key = k
  PROVE  j = FindEntry(es, n, k)
<1>1. k # NoKey
  BY TableAssumption
<1>2. Clear(es, n, es[j].key, j)
  BY <1>1 DEF Placed
<1> QED BY <1>2, FindStored

(* Writing an entry that is not empty into slot i keeps every path clear,  *)
(* if the path of its own key to i is clear and i is that key's only slot. *)
LEMMA Overwrite ==
  ASSUME NEW n \in Nat, n > 0, NEW es \in [Slots(n) -> Entries], Placed(es, n),
         NEW i \in Slots(n), NEW e \in Entries, ~IsEmpty(e),
         e.key # NoKey => /\ Clear(es, n, e.key, i)
                          /\ \A j \in Slots(n) : es[j].key = e.key => j = i
  PROVE  LET es2 == [es EXCEPT ![i] = e] IN
         /\ es2 \in [Slots(n) -> Entries]
         /\ Placed(es2, n)
         /\ InUse(es2, n) = InUse(es, n) \cup {i}
<1> DEFINE es2 == [es EXCEPT ![i] = e]
<1>1. es2 \in [Slots(n) -> Entries]
  OBVIOUS
<1>2. /\ es2[i] = e
      /\ \A j \in Slots(n) : j # i => es2[j] = es[j]
  OBVIOUS
<1> HIDE DEF es2
<1>3. InUse(es2, n) = InUse(es, n) \cup {i}
  BY <1>2 DEF InUse
<1>4. ASSUME NEW j \in Slots(n), es2[j].key # NoKey
      PROVE  Clear(es2, n, es2[j].key, j)
  <2> DEFINE k == es2[j].key
             h == Home(k, n)
  <2>1. k \in Keys
    BY <1>1, <1>4 DEF Entries
  <2>2. h \in Slots(n) /\ Dist(h, j, n) \in Slots(n)
    BY <2>1, HomeType, ProbeInverse
  <2>3. ASSUME NEW b \in 0 .. Dist(h, j, n) - 1
        PROVE  /\ b \in Slots(n)
               /\ Probe(h, b, n) \in Slots(n) /\ Probe(h, b, n) # j
    <3>1. b \in Slots(n) /\ b # Dist(h, j, n)
      BY <2>2 DEF Slots
    <3>2. Probe(h, b, n) \in Slots(n) /\ Dist(h, Probe(h, b, n), n) = b
      <4> HIDE DEF h
      <4> QED BY <3>1, <2>2, ProbeInverse
    <3> QED BY <3>1, <3>2
  <2>4. CASE j = i
    <3>1. Clear(es, n, k, j)
      BY <2>4, <1>2, <1>4
    <3>2. ASSUME NEW b \in 0 .. Dist(h, j, n) - 1
          PROVE  ~StopsAt(es2, n, k, b)
      <4>1. es2[Probe(h, b, n)] = es[Probe(h, b, n)]
        BY <2>3, <2>4, <1>2
      <4>2. ~StopsAt(es, n, k, b)
        BY <3>1 DEF Clear
      <4> QED BY <4>1, <4>2 DEF StopsAt
    <3> QED BY <3>2 DEF Clear
  <2>5. CASE j # i
    <3>1. es2[j] = es[j]
      BY <2>5, <1>2
    <3>2. Clear(es, n, k, j)
      BY <3>1, <1>4 DEF Placed
    <3>3. e.key # k
      BY <3>1, <2>5, <1>4
    <3>4. ASSUME NEW b \in 0 .. Dist(h, j, n) - 1
          PROVE  ~StopsAt(es2, n, k, b)
      <4>1. ~StopsAt(es, n, k, b)
        BY <3>2 DEF Clear
      <4>2. CASE Probe(h, b, n) = i
        BY <4>2, <1>2, <3>3 DEF StopsAt
      <4>3. CASE Probe(h, b, n) # i
        <5>1. es2[Probe(h, b, n)] = es[Probe(h, b, n)]
          BY <4>3, <2>3, <1>2
        <5> QED BY <5>1, <4>1 DEF StopsAt
      <4> QED BY <4>2, <4>3
    <3> QED BY <3>4 DEF Clear
  <2> QED BY <2>4, <2>5
<1>5. Placed(es2, n)
  BY <1>4 DEF Placed
<1> QED BY <1>1, <1>3, <1>5 DEF es2

(* Counting the entries in use.                                            *)
LEMMA InUseCount ==
  ASSUME NEW n \in Nat, NEW es
  PROVE  /\ IsFiniteSet(InUse(es, n)) /\ Cardinality(InUse(es, n)) \in Nat
         /\ Cardinality(InUse(es, n)) < n => \E i \in Slots(n) : IsEmpty(es[i])
         /\ \A i \in Slots(n) :
              Cardinality(InUse(es, n) \cup {i}) =
                Cardinality(InUse(es, n)) + (IF IsEmpty(es[i]) THEN 1 ELSE 0)
<1>1. IsFiniteSet(Slots(n)) /\ Cardinality(Slots(n)) = n
  <2>1. 0 \in Int /\ n - 1 \in Int
    OBVIOUS
  <2>2. IsFiniteSet(0 .. n - 1)
        /\ Cardinality(0 .. n - 1) = IF 0 > n - 1 THEN 0 ELSE (n - 1) - 0 + 1
    BY <2>1, FS_Interval
  <2> QED BY <2>2 DEF Slots
<1>2. InUse(es, n) \subseteq Slots(n)
  BY DEF InUse
<1>3. IsFiniteSet(InUse(es, n))
  BY <1>1, <1>2, FS_Subset
<1>4. Cardinality(InUse(es, n)) \in Nat
  BY <1>3, FS_CardinalityType
<1>5. ASSUME Cardinality(InUse(es, n)) < n
      PROVE  \E i \in Slots(n) : IsEmpty(es[i])
  <2>1. InUse(es, n) # Slots(n)
    BY <1>1, <1>4, <1>5
  <2>2. PICK i \in Slots(n) : i \notin InUse(es, n)
    BY <2>1, <1>2
  <2> QED BY <2>2 DEF InUse
<1>6. ASSUME NEW i \in Slots(n)
      PROVE  Cardinality(InUse(es, n) \cup {i}) =
               Cardinality(InUse(es, n)) + (IF IsEmpty(es[i]) THEN 1 ELSE 0)
  <2>1. IsEmpty(es[i]) <=> i \notin InUse(es, n)
    BY DEF InUse
  <2>2. Cardinality(InUse(es, n) \cup {i}) =
          IF i \in InUse(es, n) THEN Cardinality(InUse(es, n)) ELSE Cardinality(InUse(es, n)) + 1
    BY <1>3, FS_AddElement
  <2> QED BY <2>1, <2>2, <1>4
<1> QED BY <1>3, <1>4, <1>5, <1>6

-----------------------------------------------------------------------------
(* The inductive invariant. NewSize is the capacity tableSet grows to; the *)
(* entries moved so far are those below the cursor, each in one new slot.  *)
NewSize == GrowCapacity(capacity)
Load ==
    /\ capacity = 0 \/ capacity >= FirstCapacity
    /\ 4 * count <= 3 * capacity
Growing == pc = "grow" =>
    /\ moved = Cardinality(InUse(fresh, NewSize)) /\ moved <= cursor
    /\ Placed(fresh, NewSize)
    /\ \A i \in Slots(NewSize) : IF fresh[i].key = NoKey THEN IsEmpty(fresh[i])
                                 ELSE \E j \in 0 .. cursor - 1 : entries[j] = fresh[i]
    /\ \A j \in 0 .. cursor - 1 :
          entries[j].key # NoKey => \E i \in Slots(NewSize) : fresh[i] = entries[j]
Swept == pc = "sweep" => \A j \in 0 .. cursor - 1 : entries[j].key \notin white
IInv ==
    /\ TypeOK /\ Load /\ CountIsInUse
    /\ Placed(entries, capacity)
    /\ Growing /\ Swept

(* Every load the invariant allows leaves an empty entry.                  *)
LEMMA LoadLeavesRoom ==
  ASSUME IInv
  PROVE  /\ capacity > 0 => \E i \in Slots(capacity) : IsEmpty(entries[i])
         /\ NewSize \in Nat /\ NewSize > 0 /\ capacity < NewSize
         /\ pc = "grow" => \E i \in Slots(NewSize) : IsEmpty(fresh[i])
<1>1. /\ capacity \in Nat /\ count \in Nat /\ moved \in Nat /\ cursor \in 0 .. capacity
      /\ FirstCapacity \in Nat /\ FirstCapacity > 1
  BY TableAssumption DEF IInv, TypeOK
<1>2. capacity > 0 => count < capacity
  BY <1>1 DEF IInv, Load
<1>3. NewSize \in Nat /\ NewSize > 0 /\ capacity < NewSize
  BY <1>1 DEF NewSize, GrowCapacity, IInv, Load
<1>4. pc = "grow" => moved < NewSize /\ moved = Cardinality(InUse(fresh, NewSize))
  BY <1>1, <1>3 DEF IInv, Growing
<1>5. ASSUME capacity > 0 PROVE \E i \in Slots(capacity) : IsEmpty(entries[i])
  BY <1>1, <1>2, <1>5, InUseCount DEF IInv, CountIsInUse
<1>6. ASSUME pc = "grow" PROVE \E i \in Slots(NewSize) : IsEmpty(fresh[i])
  BY <1>3, <1>4, <1>6, InUseCount
<1> QED BY <1>3, <1>5, <1>6

LEMMA InitIInv == Init => IInv
<1> SUFFICES ASSUME Init PROVE IInv
  OBVIOUS
<1>1. Slots(0) = {}
  BY DEF Slots
<1>2. TypeOK
  BY <1>1, TableAssumption DEF Init, TypeOK, NoEntries, EmptyEntry, Entries
<1>3. Load
  BY DEF Init, Load
<1>4. CountIsInUse
  <2>1. InUse(entries, capacity) = {}
    BY <1>1 DEF Init, InUse
  <2> QED BY <2>1, FS_EmptySet DEF Init, CountIsInUse
<1>5. Placed(entries, capacity)
  BY <1>1 DEF Init, Placed
<1>6. Growing /\ Swept
  BY DEF Init, Growing, Swept
<1> QED BY <1>2, <1>3, <1>4, <1>5, <1>6 DEF IInv

(* tableSet's write, into the table or into the larger one.                *)
LEMMA PutFacts ==
  ASSUME NEW n \in Nat, n > 0, NEW es \in [Slots(n) -> Entries], Placed(es, n),
         \E e \in Slots(n) : IsEmpty(es[e]),
         NEW k \in Keys, NEW v \in Values
  PROVE  LET i == FindEntry(es, n, k)
             es2 == [es EXCEPT ![i] = [key |-> k, value |-> v]] IN
         /\ i \in Slots(n)
         /\ es2 \in [Slots(n) -> Entries]
         /\ Placed(es2, n)
         /\ Cardinality(InUse(es2, n)) =
              Cardinality(InUse(es, n)) + (IF IsEmpty(es[i]) THEN 1 ELSE 0)
<1> DEFINE i == FindEntry(es, n, k)
           e == [key |-> k, value |-> v]
<1>1. i \in Slots(n) /\ Clear(es, n, k, i)
  BY FindFacts
<1>2. e \in Entries /\ e.key = k /\ e.key # NoKey
  BY TableAssumption DEF Entries
<1>3. ~IsEmpty(e)
  BY <1>2 DEF IsEmpty
<1>4. \A j \in Slots(n) : es[j].key = k => j = i
  BY Unique
<1> HIDE DEF i, e
<1>5. /\ [es EXCEPT ![i] = e] \in [Slots(n) -> Entries]
      /\ Placed([es EXCEPT ![i] = e], n)
      /\ InUse([es EXCEPT ![i] = e], n) = InUse(es, n) \cup {i}
  BY <1>1, <1>2, <1>3, <1>4, Overwrite
<1> QED BY <1>1, <1>5, InUseCount DEF i, e

(* tableDelete's write: a tombstone in place of a key.                     *)
LEMMA DeleteFacts ==
  ASSUME NEW n \in Nat, n > 0, NEW es \in [Slots(n) -> Entries], Placed(es, n),
         NEW i \in Slots(n), es[i].key # NoKey
  PROVE  LET es2 == [es EXCEPT ![i] = Tombstone] IN
         /\ es2 \in [Slots(n) -> Entries]
         /\ Placed(es2, n)
         /\ InUse(es2, n) = InUse(es, n)
<1>1. Tombstone \in Entries /\ Tombstone.key = NoKey /\ ~IsEmpty(Tombstone)
  BY TableAssumption DEF Tombstone, Entries, IsEmpty
<1>2. /\ [es EXCEPT ![i] = Tombstone] \in [Slots(n) -> Entries]
      /\ Placed([es EXCEPT ![i] = Tombstone], n)
      /\ InUse([es EXCEPT ![i] = Tombstone], n) = InUse(es, n) \cup {i}
  BY <1>1, Overwrite
<1>3. i \in InUse(es, n)
  BY DEF InUse, IsEmpty
<1> QED BY <1>2, <1>3

(* Growth: moving one entry keeps the new array in step with the old one.  *)
LEMMA MoveEntryStep == IInv /\ MoveEntry => IInv'
<1> SUFFICES ASSUME IInv, MoveEntry PROVE IInv'
  OBVIOUS
<1> DEFINE e == entries[cursor]
           n == NewSize
<1>1. /\ capacity \in Nat /\ moved \in Nat /\ cursor \in 0 .. capacity
      /\ entries \in [Slots(capacity) -> Entries]
      /\ pc = "grow" /\ cursor < capacity /\ cursor' = cursor + 1
      /\ fresh \in [Slots(n) -> Entries]
  BY DEF IInv, TypeOK, MoveEntry, NewSize
<1>2. cursor \in Slots(capacity) /\ e \in Entries /\ cursor' \in 0 .. capacity
  BY <1>1 DEF Slots
<1>3. /\ entries' = entries /\ capacity' = capacity /\ count' = count /\ pc' = pc
      /\ pending' = pending /\ white' = white /\ n' = n
  BY DEF MoveEntry, NewSize, GrowCapacity
<1>4. /\ n \in Nat /\ n > 0 /\ \E i \in Slots(n) : IsEmpty(fresh[i])
      /\ capacity > 0 /\ \E i \in Slots(capacity) : IsEmpty(entries[i])
  BY <1>1, LoadLeavesRoom
<1>5. /\ moved = Cardinality(InUse(fresh, n)) /\ moved <= cursor
      /\ Placed(fresh, n)
      /\ \A i \in Slots(n) : IF fresh[i].key = NoKey THEN IsEmpty(fresh[i])
                             ELSE \E j \in 0 .. cursor - 1 : entries[j] = fresh[i]
      /\ \A j \in 0 .. cursor - 1 :
            entries[j].key # NoKey => \E i \in Slots(n) : fresh[i] = entries[j]
  BY <1>1 DEF IInv, Growing
<1>6. \A j \in 0 .. cursor : j = cursor \/ j \in 0 .. cursor - 1
  BY <1>1
<1>7. (Load /\ CountIsInUse /\ Placed(entries, capacity) /\ Swept)'
  BY <1>1, <1>3 DEF IInv, Load, CountIsInUse, Swept
<1>8. /\ moved' = Cardinality(InUse(fresh', n)) /\ moved' \in Nat /\ moved' <= cursor'
      /\ fresh' \in [Slots(n) -> Entries]
      /\ Placed(fresh', n)
      /\ \A i \in Slots(n) : IF fresh'[i].key = NoKey THEN IsEmpty(fresh'[i])
                             ELSE \E j \in 0 .. cursor : entries[j] = fresh'[i]
      /\ \A j \in 0 .. cursor :
            entries[j].key # NoKey => \E i \in Slots(n) : fresh'[i] = entries[j]
  <2>1. CASE e.key = NoKey
    <3>1. fresh' = fresh /\ moved' = moved
      BY <2>1 DEF MoveEntry
    <3> HIDE DEF n
    <3>2. \A i \in Slots(n) : IF fresh[i].key = NoKey THEN IsEmpty(fresh[i])
                             ELSE \E j \in 0 .. cursor : entries[j] = fresh[i]
      BY <1>5, <1>1
    <3>3. \A j \in 0 .. cursor :
            entries[j].key # NoKey => \E i \in Slots(n) : fresh[i] = entries[j]
      BY <1>5, <1>6, <2>1
    <3> QED BY <3>1, <3>2, <3>3, <1>1, <1>5
  <2>2. CASE e.key # NoKey
    <3> DEFINE i == FindEntry(fresh, n, e.key)
    <3>1. fresh' = [fresh EXCEPT ![i] = e] /\ moved' = moved + 1
      BY <2>2 DEF MoveEntry, NewSize
    <3>2. e.key \in Keys /\ e.value \in Values /\ e = [key |-> e.key, value |-> e.value]
      BY <1>2, <2>2 DEF Entries
    <3> HIDE DEF n
    <3>3. /\ i \in Slots(n) /\ fresh[i].key \in {e.key, NoKey}
      BY <3>2, <1>4, FindFacts
    <3>4. /\ fresh' \in [Slots(n) -> Entries]
          /\ Placed(fresh', n)
          /\ Cardinality(InUse(fresh', n)) =
               Cardinality(InUse(fresh, n)) + (IF IsEmpty(fresh[i]) THEN 1 ELSE 0)
      <4>1. PICK k \in Keys, v \in Values : k = e.key /\ e = [key |-> k, value |-> v]
        BY <3>2
      <4>2. fresh' = [fresh EXCEPT ![FindEntry(fresh, n, k)] = [key |-> k, value |-> v]]
        BY <4>1, <3>1
      <4>3. /\ fresh' \in [Slots(n) -> Entries]
            /\ Placed(fresh', n)
            /\ Cardinality(InUse(fresh', n)) = Cardinality(InUse(fresh, n))
                 + (IF IsEmpty(fresh[FindEntry(fresh, n, k)]) THEN 1 ELSE 0)
        <5>1. n \in Nat /\ n > 0 /\ fresh \in [Slots(n) -> Entries] /\ Placed(fresh, n)
              /\ \E q \in Slots(n) : IsEmpty(fresh[q])
          BY <1>1, <1>4, <1>5
        <5> QED BY <5>1, <4>2, PutFacts
      <4> QED BY <4>1, <4>3
    <3>5. fresh[i].key = NoKey
      <4>1. SUFFICES ASSUME fresh[i].key # NoKey PROVE FALSE
        OBVIOUS
      <4>2. PICK j \in 0 .. cursor - 1 : entries[j] = fresh[i]
        BY <4>1, <3>3, <1>5
      <4>3. j \in Slots(capacity) /\ j # cursor /\ entries[j].key = e.key
        BY <4>1, <4>2, <3>3, <1>1 DEF Slots
      <4>4. j = FindEntry(entries, capacity, e.key)
        BY <4>3, <3>2, <1>1, <1>4, Unique DEF IInv
      <4>5. cursor = FindEntry(entries, capacity, e.key)
        BY <3>2, <1>1, <1>2, <1>4, Unique DEF IInv
      <4> QED BY <4>3, <4>4, <4>5
    <3>6. IsEmpty(fresh[i])
      BY <3>3, <3>5, <1>5
    <3>7. /\ fresh'[i] = e
          /\ \A q \in Slots(n) : q # i => fresh'[q] = fresh[q]
      BY <3>1, <3>3, <1>1
    <3> HIDE DEF i, e
    <3>8. \A q \in Slots(n) : IF fresh'[q].key = NoKey THEN IsEmpty(fresh'[q])
                             ELSE \E j \in 0 .. cursor : entries[j] = fresh'[q]
      <4>1. entries[cursor] = e /\ cursor \in 0 .. cursor /\ e.key # NoKey
        BY <2>2, <1>1 DEF e
      <4> TAKE q \in Slots(n)
      <4>2. CASE q = i
        BY <4>1, <4>2, <3>7
      <4>3. CASE q # i
        BY <4>3, <3>7, <1>5, <1>1
      <4> QED BY <4>2, <4>3
    <3>9. \A j \in 0 .. cursor :
            entries[j].key # NoKey => \E q \in Slots(n) : fresh'[q] = entries[j]
      <4> TAKE j \in 0 .. cursor
      <4> HAVE entries[j].key # NoKey
      <4>1. CASE j = cursor
        BY <4>1, <3>3, <3>7 DEF e
      <4>2. CASE j \in 0 .. cursor - 1
        <5>1. PICK q \in Slots(n) : fresh[q] = entries[j]
          BY <4>2, <1>5
        <5>2. q # i
          BY <5>1, <3>5
        <5> QED BY <5>1, <5>2, <3>7
      <4> QED BY <4>1, <4>2, <1>6
    <3>10. moved' = Cardinality(InUse(fresh', n)) /\ moved' \in Nat /\ moved' <= cursor'
      BY <3>1, <3>4, <3>6, <1>1, <1>5
    <3> QED BY <3>4, <3>8, <3>9, <3>10
  <2> QED BY <2>1, <2>2
<1>9. Growing'
  <2>1. cursor' - 1 = cursor
    BY <1>1
  <2> QED BY <1>3, <1>8, <2>1 DEF Growing
<1>10. TypeOK'
  BY <1>2, <1>3, <1>8 DEF IInv, TypeOK, NewSize
<1> QED BY <1>7, <1>9, <1>10, <1>3 DEF IInv

(* The other steps keep the part of the invariant that is about a loop in  *)
(* progress, for no loop is or the loop ends.                              *)
LEMMA TableSetStep ==
  ASSUME NEW k \in Keys, NEW v \in Values, IInv, TableSet(k, v)
  PROVE  IInv'
<1> DEFINE i == FindEntry(entries, capacity, k)
<1>1. /\ capacity \in Nat /\ count \in Nat /\ FirstCapacity \in Nat /\ FirstCapacity > 1
      /\ entries \in [Slots(capacity) -> Entries]
  BY TableAssumption DEF IInv, TypeOK
<1>2. /\ entries' = [entries EXCEPT ![i] = [key |-> k, value |-> v]]
      /\ count' = count + (IF IsEmpty(entries[i]) THEN 1 ELSE 0)
      /\ pc = "idle" /\ pc' = "idle"
      /\ capacity' = capacity /\ moved' = moved /\ cursor' = cursor
      /\ pending' = pending /\ white' = white
  BY DEF TableSet, Put
<1>3. 4 * (count + 1) <= 3 * capacity
  BY <1>1 DEF TableSet, Overloaded
<1>4. capacity > 0 /\ \E e \in Slots(capacity) : IsEmpty(entries[e])
  BY <1>1, <1>3, LoadLeavesRoom
<1>5. /\ entries' \in [Slots(capacity) -> Entries]
      /\ Placed(entries', capacity)
      /\ Cardinality(InUse(entries', capacity)) =
           Cardinality(InUse(entries, capacity)) + (IF IsEmpty(entries[i]) THEN 1 ELSE 0)
  BY <1>1, <1>2, <1>4, PutFacts DEF IInv
<1>6. count' \in Nat /\ count' <= count + 1
  BY <1>1, <1>2
<1>7. TypeOK'
  BY <1>2, <1>5, <1>6 DEF IInv, TypeOK
<1>8. Load' /\ CountIsInUse'
  BY <1>1, <1>2, <1>3, <1>5, <1>6 DEF IInv, Load, CountIsInUse
<1>9. Growing' /\ Swept'
  BY <1>2 DEF Growing, Swept
<1> QED BY <1>2, <1>5, <1>7, <1>8, <1>9 DEF IInv

LEMMA TableSetGrowStep ==
  ASSUME NEW k \in Keys, NEW v \in Values, IInv, TableSetGrow(k, v)
  PROVE  IInv'
<1>1. capacity \in Nat /\ NewSize \in Nat
  BY LoadLeavesRoom DEF IInv, TypeOK
<1>2. /\ pending' = [key |-> k, value |-> v]
      /\ fresh' = [i \in Slots(NewSize) |-> EmptyEntry]
      /\ moved' = 0 /\ cursor' = 0 /\ pc' = "grow"
      /\ entries' = entries /\ capacity' = capacity /\ count' = count /\ white' = white
      /\ NewSize' = NewSize
  BY DEF TableSetGrow, NewSize, GrowCapacity
<1>3. EmptyEntry \in Entries /\ EmptyEntry.key = NoKey /\ IsEmpty(EmptyEntry)
  BY TableAssumption DEF EmptyEntry, Entries, IsEmpty
<1>4. TypeOK'
  <2>1. pending' \in Entries /\ pending'.key \in Keys
    BY <1>2 DEF Entries
  <2>2. fresh' \in [Slots(NewSize) -> Entries]
    BY <1>2, <1>3
  <2> QED BY <1>1, <1>2, <2>1, <2>2 DEF IInv, TypeOK, NewSize
<1>5. Growing'
  <2>1. \A i \in Slots(NewSize) : fresh'[i] = EmptyEntry
    BY <1>2
  <2>2. InUse(fresh', NewSize) = {}
    BY <2>1, <1>3 DEF InUse
  <2>3. Cardinality(InUse(fresh', NewSize)) = 0
    BY <2>2, FS_EmptySet
  <2>4. Placed(fresh', NewSize)
    BY <2>1, <1>3 DEF Placed
  <2> QED BY <1>2, <1>3, <2>1, <2>3, <2>4 DEF Growing
<1>6. (Load /\ CountIsInUse /\ Swept)'
  BY <1>2 DEF IInv, Load, CountIsInUse, Swept
<1> QED BY <1>2, <1>4, <1>5, <1>6 DEF IInv

LEMMA AdjustCapacityStep == IInv /\ AdjustCapacity => IInv'
<1> SUFFICES ASSUME IInv, AdjustCapacity PROVE IInv'
  OBVIOUS
<1> DEFINE n == NewSize
           k == pending.key
           v == pending.value
           i == FindEntry(fresh, n, k)
<1>1. /\ capacity \in Nat /\ moved \in Nat /\ cursor \in 0 .. capacity
      /\ FirstCapacity \in Nat /\ FirstCapacity > 1
      /\ pc = "grow" /\ cursor = capacity
      /\ fresh \in [Slots(n) -> Entries] /\ k \in Keys /\ v \in Values
  BY TableAssumption DEF IInv, TypeOK, AdjustCapacity, NewSize, Entries
<1>2. /\ entries' = [fresh EXCEPT ![i] = [key |-> k, value |-> v]]
      /\ count' = moved + (IF IsEmpty(fresh[i]) THEN 1 ELSE 0)
      /\ capacity' = n /\ pc' = "idle" /\ cursor' = 0
      /\ moved' = 0 /\ pending' = EmptyEntry /\ white' = white
  BY DEF AdjustCapacity, Put, NewSize
<1>3. n \in Nat /\ n > 0 /\ \E e \in Slots(n) : IsEmpty(fresh[e])
  BY <1>1, LoadLeavesRoom
<1>4. Placed(fresh, n) /\ moved = Cardinality(InUse(fresh, n)) /\ moved <= capacity
  BY <1>1 DEF IInv, Growing
<1>5. (n >= FirstCapacity) /\ 4 * (moved + 1) <= 3 * n
  BY <1>1, <1>4 DEF IInv, Load, NewSize, GrowCapacity
<1> HIDE DEF n, k, v
<1>6. /\ entries' \in [Slots(n) -> Entries]
      /\ Placed(entries', n)
      /\ Cardinality(InUse(entries', n)) =
           Cardinality(InUse(fresh, n)) + (IF IsEmpty(fresh[i]) THEN 1 ELSE 0)
  <2> HIDE DEF i
  <2>1. i = FindEntry(fresh, n, k)
    BY DEF i
  <2>2. entries' = [fresh EXCEPT ![i] = [key |-> k, value |-> v]]
    BY <1>2
  <2>3. n \in Nat /\ n > 0 /\ fresh \in [Slots(n) -> Entries] /\ Placed(fresh, n)
        /\ k \in Keys /\ v \in Values /\ \E e \in Slots(n) : IsEmpty(fresh[e])
    BY <1>1, <1>3, <1>4
  <2> QED BY <2>1, <2>2, <2>3, PutFacts
<1>7. count' \in Nat /\ count' <= moved + 1
  BY <1>1, <1>2
<1>8. TypeOK'
  <2>1. EmptyEntry \in Entries
    BY TableAssumption DEF EmptyEntry, Entries
  <2>2. white \subseteq Keys /\ 0 \in 0 .. n
    BY <1>3 DEF IInv, TypeOK
  <2> QED BY <1>2, <1>3, <1>6, <1>7, <2>1, <2>2 DEF TypeOK
<1>9. Load' /\ CountIsInUse'
  BY <1>1, <1>2, <1>3, <1>4, <1>5, <1>6, <1>7 DEF Load, CountIsInUse
<1>10. Growing' /\ Swept'
  BY <1>2 DEF Growing, Swept
<1> QED BY <1>2, <1>6, <1>8, <1>9, <1>10 DEF IInv

LEMMA TableDeleteStep ==
  ASSUME NEW k \in Keys, IInv, TableDelete(k)
  PROVE  IInv'
<1> DEFINE i == FindEntry(entries, capacity, k)
           found == count # 0 /\ entries[i].key # NoKey
<1>1. /\ capacity \in Nat /\ count \in Nat
      /\ entries \in [Slots(capacity) -> Entries] /\ Placed(entries, capacity)
  BY DEF IInv, TypeOK
<1>2. /\ entries' = IF found THEN [entries EXCEPT ![i] = Tombstone] ELSE entries
      /\ pc = "idle" /\ pc' = "idle" /\ capacity' = capacity /\ count' = count
      /\ moved' = moved /\ cursor' = cursor /\ pending' = pending /\ white' = white
  BY DEF TableDelete
<1>3. /\ entries' \in [Slots(capacity) -> Entries]
      /\ Placed(entries', capacity)
      /\ InUse(entries', capacity) = InUse(entries, capacity)
  <2>1. CASE found
    <3>1. capacity > 0
      BY <2>1, <1>1 DEF IInv, Load
    <3>2. i \in Slots(capacity)
      BY <3>1, <1>1, LoadLeavesRoom, FindFacts
    <3> QED BY <2>1, <3>1, <3>2, <1>1, <1>2, DeleteFacts
  <2>2. CASE ~found
    BY <2>2, <1>1, <1>2
  <2> QED BY <2>1, <2>2
<1>4. TypeOK'
  BY <1>2, <1>3 DEF IInv, TypeOK
<1>5. (Load /\ CountIsInUse /\ Growing /\ Swept)'
  BY <1>2, <1>3 DEF IInv, Load, CountIsInUse, Growing, Swept
<1> QED BY <1>2, <1>3, <1>4, <1>5 DEF IInv

LEMMA RemoveWhiteStep == IInv /\ RemoveWhite => IInv'
<1> SUFFICES ASSUME IInv, RemoveWhite PROVE IInv'
  OBVIOUS
<1> DEFINE e == entries[cursor]
           i == FindEntry(entries, capacity, e.key)
<1>1. /\ capacity \in Nat /\ count \in Nat /\ cursor \in 0 .. capacity
      /\ entries \in [Slots(capacity) -> Entries] /\ Placed(entries, capacity)
      /\ white \subseteq Keys
  BY DEF IInv, TypeOK
<1>2. /\ entries' = IF e.key \in white THEN [entries EXCEPT ![i] = Tombstone] ELSE entries
      /\ pc = "sweep" /\ pc' = "sweep" /\ cursor < capacity /\ cursor' = cursor + 1
      /\ capacity' = capacity /\ count' = count
      /\ moved' = moved /\ pending' = pending /\ white' = white
  BY DEF RemoveWhite
<1>3. cursor \in Slots(capacity) /\ capacity > 0 /\ cursor' \in 0 .. capacity
  BY <1>1, <1>2 DEF Slots
<1>4. /\ entries' \in [Slots(capacity) -> Entries]
      /\ Placed(entries', capacity)
      /\ InUse(entries', capacity) = InUse(entries, capacity)
      /\ \A j \in 0 .. cursor : entries'[j].key \notin white
  <2>1. \A j \in 0 .. cursor : j \in Slots(capacity) /\ (j = cursor \/ j \in 0 .. cursor - 1)
    BY <1>1, <1>2 DEF Slots
  <2>2. \A j \in 0 .. cursor - 1 : entries[j].key \notin white
    BY <1>2 DEF IInv, Swept
  <2>3. CASE e.key \in white
    <3>1. e.key \in Keys /\ e.key # NoKey /\ NoKey \notin white
      BY <2>3, <1>1, TableAssumption
    <3>2. i = cursor
      BY <3>1, <1>1, <1>3, LoadLeavesRoom, Unique
    <3>3. entries' = [entries EXCEPT ![cursor] = Tombstone]
      BY <3>2, <2>3, <1>2
    <3>4. /\ entries' \in [Slots(capacity) -> Entries]
          /\ Placed(entries', capacity)
          /\ InUse(entries', capacity) = InUse(entries, capacity)
      BY <3>1, <3>3, <1>1, <1>3, DeleteFacts
    <3>5. ASSUME NEW j \in 0 .. cursor PROVE entries'[j].key \notin white
      <4>1. CASE j = cursor
        BY <4>1, <3>1, <3>3, <2>1, <1>1 DEF Tombstone
      <4>2. CASE j # cursor
        BY <4>2, <3>3, <2>1, <2>2, <1>1
      <4> QED BY <4>1, <4>2
    <3> QED BY <3>4, <3>5
  <2>4. CASE e.key \notin white
    BY <2>4, <2>1, <2>2, <1>1, <1>2
  <2> QED BY <2>3, <2>4
<1>5. TypeOK'
  BY <1>2, <1>3, <1>4 DEF IInv, TypeOK
<1>6. (Load /\ CountIsInUse /\ Growing)'
  BY <1>2, <1>4 DEF IInv, Load, CountIsInUse, Growing
<1>7. Swept'
  <2>1. cursor' - 1 = cursor
    BY <1>1, <1>2
  <2> QED BY <1>2, <1>4, <2>1 DEF Swept
<1> QED BY <1>2, <1>4, <1>5, <1>6, <1>7 DEF IInv

LEMMA NextIInv == IInv /\ [Next]_vars => IInv'
<1> SUFFICES ASSUME IInv, [Next]_vars PROVE IInv'
  OBVIOUS
<1>1. ASSUME NEW k \in Keys, NEW v \in Values, TableSet(k, v) PROVE IInv'
  BY <1>1, TableSetStep
<1>2. ASSUME NEW k \in Keys, NEW v \in Values, TableSetGrow(k, v) PROVE IInv'
  BY <1>2, TableSetGrowStep
<1>3. ASSUME UNCHANGED <<entries, capacity, count, fresh, moved, cursor, pending, white, pc>>
      PROVE  IInv'
  BY <1>3 DEF IInv, TypeOK, Load, CountIsInUse, Growing, Swept, NewSize, GrowCapacity
<1>4. ASSUME NEW k \in Keys, TableGet(k) PROVE IInv'
  BY <1>3, <1>4 DEF TableGet
<1>5. ASSUME NEW k \in Keys, TableDelete(k) PROVE IInv'
  BY <1>5, TableDeleteStep
<1>6. CASE MoveEntry
  BY <1>6, MoveEntryStep
<1>7. CASE AdjustCapacity
  BY <1>7, AdjustCapacityStep
<1>8. ASSUME NEW w \in SUBSET Keys, RemoveWhiteCall(w) PROVE IInv'
  <2>1. capacity \in Nat /\ cursor' = 0 /\ pc' = "sweep" /\ white' = w
    BY <1>8 DEF RemoveWhiteCall, IInv, TypeOK
  <2>2. TypeOK'
    BY <1>8, <2>1 DEF RemoveWhiteCall, IInv, TypeOK
  <2>3. Growing' /\ Swept'
    BY <2>1 DEF Growing, Swept
  <2> QED BY <1>8, <2>2, <2>3 DEF RemoveWhiteCall, IInv, Load, CountIsInUse
<1>9. CASE RemoveWhite
  BY <1>9, RemoveWhiteStep
<1>10. CASE RemoveWhiteDone
  <2>1. capacity \in Nat /\ cursor' = 0 /\ pc' = "idle" /\ white' = {}
    BY <1>10 DEF RemoveWhiteDone, IInv, TypeOK
  <2>2. TypeOK'
    BY <1>10, <2>1 DEF RemoveWhiteDone, IInv, TypeOK
  <2>3. Growing' /\ Swept'
    BY <2>1 DEF Growing, Swept
  <2> QED BY <1>10, <2>2, <2>3 DEF RemoveWhiteDone, IInv, Load, CountIsInUse
<1>11. CASE UNCHANGED vars
  BY <1>3, <1>11 DEF vars
<1> QED BY <1>1, <1>2, <1>4, <1>5, <1>6, <1>7, <1>8, <1>9, <1>10, <1>11 DEF Next

(* The invariant holds of every reachable table.                           *)
THEOREM TableInvariant == Spec => []IInv
<1> QED BY InitIInv, NextIInv, PTL DEF Spec

(* The fields of a table keep their types: no index out of its array, no   *)
(* negative count (ValueTable, table.h).                                   *)
THEOREM TypeCorrect == Spec => []TypeOK
<1>1. IInv => TypeOK
  BY DEF IInv
<1> QED BY <1>1, TableInvariant, PTL

(* count is the number of entries in use, tombstones included: what        *)
(* tableInvariant asserts, and what the growth test of tableSet relies on. *)
THEOREM CountCorrect == Spec => []CountIsInUse
<1>1. IInv => CountIsInUse
  BY DEF IInv
<1> QED BY <1>1, TableInvariant, PTL

(* Every table has an empty entry, so findEntry's loop ends.               *)
THEOREM ProbesTerminate == Spec => []ProbesEnd
<1>1. IInv => ProbesEnd
  BY LoadLeavesRoom DEF ProbesEnd
<1> QED BY <1>1, TableInvariant, PTL

(* findEntry finds every key the table holds, where it is.                 *)
THEOREM FindCorrect == Spec => []KeysAreFound
<1>1. IInv => KeysAreFound
  <2> SUFFICES ASSUME IInv, NEW i \in Slots(capacity), entries[i].key # NoKey
               PROVE  FindEntry(entries, capacity, entries[i].key) = i
    BY DEF KeysAreFound
  <2>1. /\ capacity \in Nat /\ entries[i].key \in Keys
    BY DEF IInv, TypeOK, Entries
  <2>2. capacity > 0
    BY <2>1 DEF Slots
  <2>3. \E e \in Slots(capacity) : IsEmpty(entries[e])
    BY <2>2, LoadLeavesRoom
  <2>4. Placed(entries, capacity)
    BY DEF IInv
  <2> QED BY <2>1, <2>2, <2>3, <2>4, Unique
<1> QED BY <1>1, TableInvariant, PTL

(* tableRemoveWhite returns with no unmarked string left in the table.     *)
THEOREM SweepComplete == Spec => NoWhiteLeft
<1>1. IInv /\ [Next]_vars =>
        [pc = "sweep" /\ pc' = "idle" => \A k \in white : ~Holds(entries, capacity, k)]_vars
  <2> SUFFICES ASSUME IInv, Next, pc = "sweep", pc' = "idle", NEW k \in white
               PROVE  ~Holds(entries, capacity, k)
    OBVIOUS
  <2>1. RemoveWhiteDone
    BY DEF Next, TableSet, TableSetGrow, TableGet, TableDelete, MoveEntry, AdjustCapacity,
           RemoveWhiteCall, RemoveWhite
  <2>2. \A j \in 0 .. capacity - 1 : entries[j].key \notin white
    BY <2>1 DEF RemoveWhiteDone, IInv, Swept
  <2> QED BY <2>2 DEF Holds, Slots
<1> QED BY <1>1, TableInvariant, PTL DEF Spec, NoWhiteLeft

-----------------------------------------------------------------------------
(* Refinement: what the table holds is a map.                              *)
LEMMA OnlyOne ==
  ASSUME NEW n \in Nat, n > 0, NEW es, Placed(es, n), NEW k \in Keys,
         NEW i \in Slots(n), NEW j \in Slots(n), es[i].key = k, es[j].key = k
  PROVE  i = j
<1> DEFINE h == Home(k, n)
<1>1. h \in Slots(n) /\ k # NoKey
  BY HomeType, TableAssumption
<1>2. /\ Dist(h, i, n) \in Slots(n) /\ Probe(h, Dist(h, i, n), n) = i
      /\ Dist(h, j, n) \in Slots(n) /\ Probe(h, Dist(h, j, n), n) = j
  BY <1>1, ProbeInverse
<1>3. StopsAt(es, n, k, Dist(h, i, n)) /\ StopsAt(es, n, k, Dist(h, j, n))
  BY <1>2 DEF StopsAt
<1>4. Clear(es, n, k, i) /\ Clear(es, n, k, j)
  BY <1>1 DEF Placed
<1>5. ~(Dist(h, i, n) < Dist(h, j, n)) /\ ~(Dist(h, j, n) < Dist(h, i, n))
  BY <1>2, <1>3, <1>4 DEF Clear, Slots
<1> QED BY <1>2, <1>5 DEF Slots

LEMMA ContentsFacts ==
  ASSUME NEW n \in Nat, NEW es, Placed(es, n), NEW k \in Keys
  PROVE  /\ \A i \in Slots(n) : es[i].key = k => Contents(es, n)[k] = es[i].value
         /\ (\A i \in Slots(n) : es[i].key # k) => Contents(es, n)[k] = Absent
<1>1. ASSUME NEW i \in Slots(n), es[i].key = k
      PROVE  Contents(es, n)[k] = es[i].value
  <2> DEFINE c == CHOOSE j \in Slots(n) : es[j].key = k
  <2>1. Holds(es, n, k) /\ c \in Slots(n) /\ es[c].key = k
    BY <1>1 DEF Holds
  <2>2. Contents(es, n)[k] = es[c].value
    BY <2>1 DEF Contents
  <2>3. n > 0
    BY <1>1 DEF Slots
  <2> HIDE DEF c
  <2>4. c = i
    BY <1>1, <2>1, <2>3, OnlyOne
  <2> QED BY <2>2, <2>4
<1>2. (\A i \in Slots(n) : es[i].key # k) => Contents(es, n)[k] = Absent
  BY DEF Contents, Holds
<1> QED BY <1>1, <1>2

(* Two arrays with the same entry for a key have the same value for it.    *)
LEMMA SameContents ==
  ASSUME NEW n \in Nat, NEW es, Placed(es, n), NEW m \in Nat, NEW fs, Placed(fs, m),
         NEW k \in Keys,
         \A i \in Slots(n) : es[i].key = k => \E j \in Slots(m) : fs[j] = es[i],
         \A j \in Slots(m) : fs[j].key = k => \E i \in Slots(n) : es[i] = fs[j]
  PROVE  Contents(es, n)[k] = Contents(fs, m)[k]
<1>1. CASE \A i \in Slots(n) : es[i].key # k
  <2>1. \A j \in Slots(m) : fs[j].key # k
    BY <1>1
  <2> QED BY <1>1, <2>1, ContentsFacts
<1>2. CASE \E i \in Slots(n) : es[i].key = k
  <2>1. PICK i \in Slots(n) : es[i].key = k
    BY <1>2
  <2>2. PICK j \in Slots(m) : fs[j] = es[i]
    BY <2>1
  <2>3. Contents(es, n)[k] = es[i].value
    BY <2>1, ContentsFacts
  <2>4. fs[j].key = k
    BY <2>1, <2>2
  <2>5. Contents(fs, m)[k] = fs[j].value
    BY <2>4, ContentsFacts
  <2> QED BY <2>2, <2>3, <2>5
<1> QED BY <1>1, <1>2

(* What findEntry returns says what the map holds for the key.             *)
LEMMA FindContents ==
  ASSUME NEW n \in Nat, n > 0, NEW es \in [Slots(n) -> Entries], Placed(es, n),
         \E e \in Slots(n) : IsEmpty(es[e]), NEW k \in Keys
  PROVE  LET i == FindEntry(es, n, k) IN
         Contents(es, n)[k] = IF es[i].key = NoKey THEN Absent ELSE es[i].value
<1> DEFINE i == FindEntry(es, n, k)
<1>1. i \in Slots(n) /\ es[i].key \in {k, NoKey} /\ k # NoKey
  BY FindFacts, TableAssumption
<1>2. \A j \in Slots(n) : es[j].key = k => j = i
  BY Unique
<1> HIDE DEF i
<1>3. CASE es[i].key = NoKey
  <2>1. \A j \in Slots(n) : es[j].key # k
    BY <1>1, <1>2, <1>3
  <2>2. Contents(es, n)[k] = Absent
    BY <2>1, ContentsFacts
  <2> QED BY <1>3, <2>2 DEF i
<1>4. CASE es[i].key # NoKey
  <2>1. Contents(es, n)[k] = es[i].value
    BY <1>1, <1>4, ContentsFacts
  <2> QED BY <1>4, <2>1 DEF i
<1> QED BY <1>3, <1>4

(* Writing slot i for key k changes what the map holds for k only.         *)
Writes(es, es2, n, i, e) == es2[i] = e /\ \A j \in Slots(n) : j # i => es2[j] = es[j]
Changes(f, g, k, x) == g[k] = x /\ \A q \in Keys : q # k => g[q] = f[q]

LEMMA UpdateContents ==
  ASSUME NEW n \in Nat, n > 0, NEW es, NEW es2, Placed(es, n), Placed(es2, n),
         NEW k \in Keys, NEW i \in Slots(n), es[i].key \in {k, NoKey},
         \A j \in Slots(n) : es[j].key = k => j = i,
         NEW e, e.key \in {k, NoKey}, Writes(es, es2, n, i, e)
  PROVE  Changes(Contents(es, n), Contents(es2, n), k, IF e.key = k THEN e.value ELSE Absent)
<1>1. es2[i] = e /\ \A j \in Slots(n) : j # i => es2[j] = es[j]
  BY DEF Writes
<1>2. k # NoKey
  BY TableAssumption
<1>3. Contents(es2, n)[k] = IF e.key = k THEN e.value ELSE Absent
  <2>1. CASE e.key = k
    <3>1. es2[i].key = k
      BY <2>1, <1>1
    <3>2. Contents(es2, n)[k] = es2[i].value
      BY <3>1, ContentsFacts
    <3> QED BY <2>1, <3>2, <1>1
  <2>2. CASE e.key # k
    <3>1. \A j \in Slots(n) : es2[j].key # k
      BY <2>2, <1>1, <1>2
    <3>2. Contents(es2, n)[k] = Absent
      BY <3>1, ContentsFacts
    <3> QED BY <2>2, <3>2
  <2> QED BY <2>1, <2>2
<1>4. ASSUME NEW q \in Keys, q # k
      PROVE  Contents(es2, n)[q] = Contents(es, n)[q]
  <2>1. q # NoKey
    BY TableAssumption
  <2>2. \A j \in Slots(n) : es2[j].key = q => \E o \in Slots(n) : es[o] = es2[j]
    BY <1>1, <1>4, <2>1
  <2>3. \A j \in Slots(n) : es[j].key = q => \E o \in Slots(n) : es2[o] = es[j]
    BY <1>1, <1>4, <2>1
  <2> QED BY <2>2, <2>3, SameContents
<1> QED BY <1>3, <1>4 DEF Changes

M == Contents(entries, capacity)

LEMMA ChangesMap ==
  ASSUME NEW k \in Keys, NEW x, Changes(M, M', k, x)
  PROVE  M' = [M EXCEPT ![k] = x]
<1>1. /\ M' = [q \in Keys |-> M'[q]]
      /\ M = [q \in Keys |-> M[q]]
  BY DEF Contents, M
<1>2. M'[k] = x /\ \A q \in Keys : q # k => M'[q] = M[q]
  BY DEF Changes
<1> HIDE DEF M
<1> QED BY <1>1, <1>2

(* tableSet's write sets the key in the map and answers whether it is new. *)
LEMMA PutContents ==
  ASSUME NEW n \in Nat, n > 0, NEW es \in [Slots(n) -> Entries], Placed(es, n),
         \E e \in Slots(n) : IsEmpty(es[e]), NEW k \in Keys, NEW v \in Values
  PROVE  LET i == FindEntry(es, n, k) IN
         /\ Changes(Contents(es, n),
                    Contents([es EXCEPT ![i] = [key |-> k, value |-> v]], n), k, v)
         /\ (es[i].key = NoKey) <=> (Contents(es, n)[k] = Absent)
<1> DEFINE i == FindEntry(es, n, k)
           e == [key |-> k, value |-> v]
           es2 == [es EXCEPT ![i] = e]
<1>1. i \in Slots(n) /\ es[i].key \in {k, NoKey}
  BY FindFacts
<1>2. \A j \in Slots(n) : es[j].key = k => j = i
  BY Unique
<1>3. e.key = k /\ e.value = v
  OBVIOUS
<1>4. Placed(es2, n)
  BY PutFacts
<1>5. Contents(es, n)[k] = IF es[i].key = NoKey THEN Absent ELSE es[i].value
  BY FindContents
<1>6. es[i].value # Absent
  BY <1>1, TableAssumption DEF Entries
<1> HIDE DEF i, e
<1>7. Writes(es, es2, n, i, e)
  BY <1>1 DEF Writes
<1> HIDE DEF es2
<1>8. Changes(Contents(es, n), Contents(es2, n), k, IF e.key = k THEN e.value ELSE Absent)
  BY <1>1, <1>2, <1>3, <1>4, <1>7, UpdateContents
<1>9. Changes(Contents(es, n), Contents(es2, n), k, v)
  BY <1>3, <1>8
<1> QED BY <1>5, <1>6, <1>9 DEF i, e, es2

LEMMA DeleteContents ==
  ASSUME NEW n \in Nat, n > 0, NEW es \in [Slots(n) -> Entries], Placed(es, n),
         NEW k \in Keys, NEW i \in Slots(n), es[i].key = k
  PROVE  Changes(Contents(es, n), Contents([es EXCEPT ![i] = Tombstone], n), k, Absent)
<1> DEFINE es2 == [es EXCEPT ![i] = Tombstone]
<1>1. \A j \in Slots(n) : es[j].key = k => j = i
  BY OnlyOne
<1>2. k # NoKey /\ Tombstone.key = NoKey
  BY TableAssumption DEF Tombstone
<1>3. Placed(es2, n)
  BY <1>2, DeleteFacts
<1>4. Writes(es, es2, n, i, Tombstone)
  BY DEF Writes
<1> HIDE DEF es2
<1>5. Changes(Contents(es, n), Contents(es2, n), k,
              IF Tombstone.key = k THEN Tombstone.value ELSE Absent)
  BY <1>1, <1>2, <1>3, <1>4, UpdateContents
<1>6. Changes(Contents(es, n), Contents(es2, n), k, Absent)
  BY <1>2, <1>5
<1> QED BY <1>6 DEF es2

LEMMA TableSetMaps ==
  ASSUME NEW k \in Keys, NEW v \in Values, IInv, TableSet(k, v)
  PROVE  Map!Set(k, v)
<1> DEFINE i == FindEntry(entries, capacity, k)
<1>1. /\ capacity \in Nat /\ count \in Nat
      /\ entries \in [Slots(capacity) -> Entries] /\ Placed(entries, capacity)
  BY DEF IInv, TypeOK
<1>2. /\ entries' = [entries EXCEPT ![i] = [key |-> k, value |-> v]]
      /\ answer' = (entries[i].key = NoKey) /\ capacity' = capacity
      /\ 4 * (count + 1) <= 3 * capacity
  BY <1>1 DEF TableSet, Put, Overloaded
<1>3. capacity > 0 /\ \E e \in Slots(capacity) : IsEmpty(entries[e])
  BY <1>1, <1>2, LoadLeavesRoom
<1>4. /\ Changes(M, Contents([entries EXCEPT ![i] = [key |-> k, value |-> v]], capacity), k, v)
      /\ (entries[i].key = NoKey) <=> (M[k] = Absent)
  BY <1>1, <1>3, PutContents DEF M
<1>5. M' = Contents([entries EXCEPT ![i] = [key |-> k, value |-> v]], capacity)
  BY <1>2 DEF M
<1>6. M' = [M EXCEPT ![k] = v]
  BY <1>4, <1>5, ChangesMap
<1>7. answer' = (M[k] = Absent)
  BY <1>2, <1>4
<1> QED BY <1>6, <1>7 DEF Map!Set, M

(* Once every entry is moved the larger table holds the same map.          *)
LEMMA AdjustCapacityMaps ==
  ASSUME IInv, AdjustCapacity
  PROVE  Map!Set(pending.key, pending.value)
<1> DEFINE n == NewSize
           k == pending.key
           v == pending.value
           i == FindEntry(fresh, n, k)
<1>1. /\ capacity \in Nat /\ entries \in [Slots(capacity) -> Entries]
      /\ Placed(entries, capacity)
      /\ pc = "grow" /\ cursor = capacity
      /\ fresh \in [Slots(n) -> Entries] /\ k \in Keys /\ v \in Values
  BY DEF IInv, TypeOK, AdjustCapacity, NewSize, Entries
<1>2. /\ entries' = [fresh EXCEPT ![i] = [key |-> k, value |-> v]]
      /\ answer' = (fresh[i].key = NoKey) /\ capacity' = n
  BY DEF AdjustCapacity, Put, NewSize
<1>3. /\ n \in Nat /\ n > 0 /\ \E e \in Slots(n) : IsEmpty(fresh[e])
      /\ Placed(fresh, n)
  BY <1>1, LoadLeavesRoom DEF IInv, Growing
<1>4. Contents(fresh, n) = M
  <2>1. \A q \in Slots(n) : fresh[q].key # NoKey => \E j \in Slots(capacity) : entries[j] = fresh[q]
    BY <1>1 DEF IInv, Growing, Slots
  <2>2. \A j \in Slots(capacity) : entries[j].key # NoKey => \E q \in Slots(n) : fresh[q] = entries[j]
    BY <1>1 DEF IInv, Growing, Slots
  <2> HIDE DEF n
  <2>3. ASSUME NEW q \in Keys PROVE Contents(fresh, n)[q] = Contents(entries, capacity)[q]
    <3>1. q # NoKey
      BY TableAssumption
    <3> QED BY <3>1, <2>1, <2>2, <1>1, <1>3, SameContents
  <2> QED BY <2>3 DEF Contents, M
<1> HIDE DEF n, k, v
<1>5. /\ Changes(Contents(fresh, n), Contents([fresh EXCEPT ![i] = [key |-> k, value |-> v]], n), k, v)
      /\ (fresh[i].key = NoKey) <=> (Contents(fresh, n)[k] = Absent)
  BY <1>1, <1>3, PutContents
<1>6. M' = Contents([fresh EXCEPT ![i] = [key |-> k, value |-> v]], n)
  BY <1>2 DEF M
<1>7. M' = [M EXCEPT ![k] = v]
  BY <1>1, <1>4, <1>5, <1>6, ChangesMap
<1>8. answer' = (M[k] = Absent)
  BY <1>2, <1>4, <1>5
<1> QED BY <1>7, <1>8 DEF Map!Set, M, k, v

(* What tableGet answers, and tableDelete looks for.                       *)
LEMMA Lookup ==
  ASSUME IInv, NEW k \in Keys
  PROVE  LET e == entries[FindEntry(entries, capacity, k)] IN
         M[k] = IF count = 0 \/ e.key = NoKey THEN Absent ELSE e.value
<1>1. /\ capacity \in Nat /\ count \in Nat
      /\ entries \in [Slots(capacity) -> Entries] /\ Placed(entries, capacity)
      /\ count = Cardinality(InUse(entries, capacity))
  BY DEF IInv, TypeOK, CountIsInUse
<1>2. CASE count = 0
  <2>1. InUse(entries, capacity) = {}
    BY <1>1, <1>2, InUseCount, FS_EmptySet
  <2>2. k # NoKey
    BY TableAssumption
  <2>3. \A i \in Slots(capacity) : entries[i].key # k
    BY <2>1, <2>2 DEF InUse, IsEmpty
  <2>4. M[k] = Absent
    BY <2>3, <1>1, ContentsFacts DEF M
  <2> QED BY <1>2, <2>4
<1>3. CASE count # 0
  <2>1. capacity > 0
    BY <1>1, <1>3 DEF IInv, Load
  <2>2. \E e \in Slots(capacity) : IsEmpty(entries[e])
    BY <2>1, LoadLeavesRoom
  <2>3. LET i == FindEntry(entries, capacity, k) IN
        M[k] = IF entries[i].key = NoKey THEN Absent ELSE entries[i].value
    BY <2>1, <2>2, <1>1, FindContents DEF M
  <2> QED BY <1>3, <2>3
<1> QED BY <1>2, <1>3

LEMMA TableGetMaps ==
  ASSUME NEW k \in Keys, IInv, TableGet(k)
  PROVE  Map!Get(k)
<1>1. M' = M
  BY DEF TableGet, M
<1>2. answer' = M[k]
  BY Lookup DEF TableGet
<1> QED BY <1>1, <1>2 DEF Map!Get, M

LEMMA TableDeleteMaps ==
  ASSUME NEW k \in Keys, IInv, TableDelete(k)
  PROVE  Map!Delete(k)
<1> DEFINE i == FindEntry(entries, capacity, k)
           found == count # 0 /\ entries[i].key # NoKey
<1>1. /\ capacity \in Nat /\ count \in Nat
      /\ entries \in [Slots(capacity) -> Entries] /\ Placed(entries, capacity)
  BY DEF IInv, TypeOK
<1>2. /\ entries' = IF found THEN [entries EXCEPT ![i] = Tombstone] ELSE entries
      /\ answer' = found /\ capacity' = capacity
  BY DEF TableDelete
<1>3. M[k] = IF count = 0 \/ entries[i].key = NoKey THEN Absent ELSE entries[i].value
  BY Lookup
<1>4. CASE found
  <2>1. capacity > 0
    BY <1>1, <1>4 DEF IInv, Load
  <2>2. i \in Slots(capacity) /\ entries[i].key = k
    BY <2>1, <1>1, <1>4, LoadLeavesRoom, FindFacts
  <2>3. M[k] # Absent
    BY <2>2, <1>1, <1>3, <1>4, TableAssumption DEF Entries
  <2> HIDE DEF i
  <2>4. Changes(M, Contents([entries EXCEPT ![i] = Tombstone], capacity), k, Absent)
    BY <2>1, <2>2, <1>1, DeleteContents DEF M
  <2>5. M' = Contents([entries EXCEPT ![i] = Tombstone], capacity)
    BY <1>2, <1>4 DEF M
  <2>6. M' = [M EXCEPT ![k] = Absent]
    BY <2>4, <2>5, ChangesMap
  <2>7. answer' = (M[k] # Absent)
    BY <2>3, <1>2, <1>4
  <2> QED BY <2>6, <2>7 DEF Map!Delete, M
<1>5. CASE ~found
  <2>1. M[k] = Absent /\ M' = M
    BY <1>2, <1>3, <1>5 DEF M
  <2>2. M' = [M EXCEPT ![k] = Absent]
    <3>1. M = [q \in Keys |-> M[q]]
      BY DEF M, Contents
    <3> HIDE DEF M
    <3> QED BY <2>1, <3>1
  <2>3. answer' = (M[k] # Absent)
    BY <2>1, <1>2, <1>5
  <2> QED BY <2>2, <2>3 DEF Map!Delete, M
<1> QED BY <1>4, <1>5

LEMMA RemoveWhiteMaps ==
  ASSUME IInv, RemoveWhite
  PROVE  (\E k \in Keys : Map!Drop(k)) \/ UNCHANGED <<M, answer>>
<1> DEFINE k == entries[cursor].key
           i == FindEntry(entries, capacity, k)
<1>1. /\ capacity \in Nat /\ entries \in [Slots(capacity) -> Entries]
      /\ Placed(entries, capacity) /\ white \subseteq Keys
      /\ cursor \in 0 .. capacity /\ cursor < capacity
  BY DEF IInv, TypeOK, RemoveWhite
<1>2. /\ entries' = IF k \in white THEN [entries EXCEPT ![i] = Tombstone] ELSE entries
      /\ answer' = answer /\ capacity' = capacity
  BY DEF RemoveWhite
<1>3. capacity > 0 /\ cursor \in Slots(capacity)
  BY <1>1 DEF Slots
<1>4. CASE k \in white
  <2>1. k \in Keys
    BY <1>1, <1>4
  <2>2. i = cursor
    BY <2>1, <1>1, <1>3, LoadLeavesRoom, Unique
  <2>3. entries' = [entries EXCEPT ![cursor] = Tombstone]
    BY <2>2, <1>2, <1>4
  <2> HIDE DEF i
  <2>4. Changes(M, Contents([entries EXCEPT ![cursor] = Tombstone], capacity), k, Absent)
    BY <2>1, <1>1, <1>3, DeleteContents DEF M
  <2>5. M' = Contents([entries EXCEPT ![cursor] = Tombstone], capacity)
    BY <2>3, <1>2 DEF M
  <2> HIDE DEF k
  <2>6. M' = [M EXCEPT ![k] = Absent]
    BY <2>1, <2>4, <2>5, ChangesMap
  <2>7. Map!Drop(k)
    BY <2>6, <1>2 DEF Map!Drop, M
  <2> QED BY <2>1, <2>7
<1>5. CASE k \notin white
  BY <1>2, <1>5 DEF M
<1> QED BY <1>4, <1>5

(* Tables implement the map: whatever collisions, tombstones and growth    *)
(* came before, tableGet, tableSet and tableDelete answer as a map from    *)
(* keys to values would, and tableRemoveWhite only drops keys.             *)
THEOREM TableImplementsMap == Spec => ImplementsMap
<1>1. Init => Map!Init
  <2> SUFFICES ASSUME Init PROVE Map!Init
    OBVIOUS
  <2>1. Slots(0) = {}
    BY DEF Slots
  <2> QED BY <2>1 DEF Init, Map!Init, Contents, Holds
<1>2. IInv /\ [Next]_vars => [Map!Next]_<<M, answer>>
  <2> SUFFICES ASSUME IInv, [Next]_vars PROVE Map!Next \/ UNCHANGED <<M, answer>>
    OBVIOUS
  <2>1. ASSUME NEW k \in Keys, NEW v \in Values, TableSet(k, v) PROVE Map!Next
    BY <2>1, TableSetMaps DEF Map!Next
  <2>2. CASE AdjustCapacity
    <3>1. pending.key \in Keys /\ pending.value \in Values
      BY <2>2 DEF IInv, TypeOK, AdjustCapacity, Entries
    <3>2. Map!Set(pending.key, pending.value)
      BY <2>2, AdjustCapacityMaps
    <3> QED BY <3>1, <3>2 DEF Map!Next
  <2>3. ASSUME NEW k \in Keys, TableGet(k) PROVE Map!Next
    BY <2>3, TableGetMaps DEF Map!Next
  <2>4. ASSUME NEW k \in Keys, TableDelete(k) PROVE Map!Next
    BY <2>4, TableDeleteMaps DEF Map!Next
  <2>5. CASE RemoveWhite
    BY <2>5, RemoveWhiteMaps DEF Map!Next
  <2>6. ASSUME UNCHANGED <<entries, capacity, answer>> PROVE UNCHANGED <<M, answer>>
    BY <2>6 DEF M
  <2>7. ASSUME NEW k \in Keys, NEW v \in Values, TableSetGrow(k, v)
        PROVE  UNCHANGED <<M, answer>>
    BY <2>6, <2>7 DEF TableSetGrow
  <2>8. CASE MoveEntry \/ RemoveWhiteDone \/ UNCHANGED vars
    BY <2>6, <2>8 DEF MoveEntry, RemoveWhiteDone, vars
  <2>9. ASSUME NEW w \in SUBSET Keys, RemoveWhiteCall(w) PROVE UNCHANGED <<M, answer>>
    BY <2>6, <2>9 DEF RemoveWhiteCall
  <2> QED BY <2>1, <2>2, <2>3, <2>4, <2>5, <2>7, <2>8, <2>9 DEF Next
<1> QED BY <1>1, <1>2, TableInvariant, PTL DEF Spec, ImplementsMap, Map!Spec, M
=============================================================================
