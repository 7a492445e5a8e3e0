-------------------------- MODULE TestMemoryProofs --------------------------
(***************************************************************************)
(* For any addresses and values, and any number of accesses: the first     *)
(* entry of memory_ for an address is the one that counts, and every       *)
(* write that adds another leaves it up to date. test_sync reports nothing *)
(* exactly if accesses and expectations can be paired off: taking the      *)
(* first exact expectation, else the first for any value, never costs an   *)
(* access its partner.                                                     *)
(***************************************************************************)
EXTENDS TestMemory, WellFoundedInduction, SequenceTheorems, FunctionTheorems, FiniteSetTheorems, TLAPS

Entry == [address : Addresses, value : Cells]

(* Entry i of m is the first for address a.                                *)
First(m, a, i) ==
    /\ i \in 1 .. Len(m) /\ m[i].address = a
    /\ \A j \in 1 .. Len(m) : j < i => m[j].address # a
Missing(m, a) == \A i \in 1 .. Len(m) : m[i].address # a

(* The memory m shows l: what was last set or written to each address.     *)
Shows(m, l) ==
    \A a \in Addresses : \/ Missing(m, a) /\ l[a] = Unset
                         \/ \E i \in Nat : First(m, a, i) /\ m[i].value = l[a]

Inv == memory \in Seq(Entry) /\ last \in [Addresses -> Cells \cup {Unset}] /\ Shows(memory, last)

-----------------------------------------------------------------------------
(* A set of natural numbers has a smallest one, and Min takes it.          *)
LEMMA MinIsLeast ==
    ASSUME NEW S, S \subseteq Nat, S # {}
    PROVE  Min(S) \in S /\ \A y \in S : Min(S) <= y
  <1> DEFINE R == {ss \in Nat \X Nat : ss[1] < ss[2]}
  <1>1. IsWellFoundedOn(R, Nat)
    BY NatLessThanWellFounded DEF OpToRel
  <1>2. PICK x \in S : \A y \in S : ~(<<y, x>> \in R)
    <2> HIDE DEF R
    <2> QED
      BY <1>1, WFMin
  <1>3. \A y \in S : ~(y < x)
    BY <1>2
  <1>4. \E z \in S : \A y \in S : z <= y
    BY <1>3
  <1> QED
    BY <1>4 DEF Min

(* The search from the front finds the first entry.                        *)
LEMMA SearchFindsFirst ==
    ASSUME memory \in Seq(Entry), NEW a
    PROVE  /\ FirstAt(a) = 0 => Missing(memory, a)
           /\ FirstAt(a) # 0 => First(memory, a, FirstAt(a))
  <1> DEFINE I == {i \in 1 .. Len(memory) : memory[i].address = a}
  <1>1. FirstAt(a) = IF I # {} THEN Min(I) ELSE 0
    BY DEF FirstAt, SelectInSeq
  <1>2. Len(memory) \in Nat /\ I \subseteq Nat
    OBVIOUS
  <1>3. CASE I = {}
    BY <1>1, <1>3 DEF Missing
  <1>4. CASE I # {}
    <2>1. FirstAt(a) \in I /\ \A y \in I : FirstAt(a) <= y
      <3> HIDE DEF I
      <3> QED
        BY <1>1, <1>2, <1>4, MinIsLeast
    <2>2. FirstAt(a) \in 1 .. Len(memory) /\ memory[FirstAt(a)].address = a
      BY <2>1
    <2>3. ASSUME NEW j \in 1 .. Len(memory), j < FirstAt(a) PROVE memory[j].address # a
      BY <1>2, <2>1, <2>2, <2>3
    <2> QED
      BY <2>2, <2>3 DEF First
  <1> QED
    BY <1>3, <1>4

(* An entry is the first for one address only, and an address has one.     *)
LEMMA FirstIsOne ==
    ASSUME NEW m \in Seq(Entry), NEW a, NEW i, NEW j, First(m, a, i), First(m, a, j)
    PROVE  i = j
  <1>1. i \in Nat /\ j \in Nat
    BY DEF First
  <1>2. ~(i < j) /\ ~(j < i)
    BY DEF First
  <1> QED
    BY <1>1, <1>2

(* A value v takes effect at address a when the first entry for a, old or  *)
(* added at the end, has it, and nothing else but added entries for a has  *)
(* changed.                                                                *)
Stored(m, a, v, k) ==
    /\ m \in Seq(Entry) /\ Len(m) \in Nat /\ Len(memory) <= Len(m)
    /\ First(m, a, k) /\ m[k].value = v /\ k \in Nat
    /\ \A i \in 1 .. Len(memory) : memory[i].address # a => m[i] = memory[i]
    /\ \A i \in 1 .. Len(m) : m[i].address # a => i \in 1 .. Len(memory) /\ memory[i].address # a

LEMMA StoredShows ==
    ASSUME Inv, NEW a \in Addresses, NEW v \in Cells, NEW m, NEW k, Stored(m, a, v, k),
           NEW l, l = [last EXCEPT ![a] = v]
    PROVE  Shows(m, l)
  <1>1. /\ memory \in Seq(Entry) /\ Len(memory) \in Nat
        /\ l[a] = v /\ \A b \in Addresses : b # a => l[b] = last[b]
    BY DEF Inv
  <1> SUFFICES ASSUME NEW b \in Addresses
               PROVE  \/ Missing(m, b) /\ l[b] = Unset
                      \/ \E i \in Nat : First(m, b, i) /\ m[i].value = l[b]
    BY DEF Shows
  <1>2. CASE b = a
    BY <1>1, <1>2 DEF Stored
  <1>3. CASE b # a
    <2>1. CASE Missing(memory, b) /\ last[b] = Unset
      <3>1. Missing(m, b)
        BY <1>3, <2>1 DEF Missing, Stored
      <3> QED
        BY <1>1, <1>3, <2>1, <3>1
    <2>2. CASE \E i \in Nat : First(memory, b, i) /\ memory[i].value = last[b]
      <3>1. PICK i \in Nat : First(memory, b, i) /\ memory[i].value = last[b]
        BY <2>2
      <3>2. i \in 1 .. Len(memory) /\ i \in 1 .. Len(m) /\ memory[i].address = b
        BY <1>1, <3>1 DEF First, Stored
      <3>3. m[i] = memory[i]
        BY <1>3, <3>2 DEF Stored
      <3>4. ASSUME NEW j \in 1 .. Len(m), j < i, m[j].address = b PROVE FALSE
        <4>1. j \in 1 .. Len(memory) /\ memory[j].address # a
          BY <1>3, <3>4 DEF Stored
        <4>2. m[j] = memory[j]
          BY <4>1 DEF Stored
        <4> QED
          BY <3>1, <3>4, <4>1, <4>2 DEF First
      <3>5. First(m, b, i)
        BY <3>2, <3>3, <3>4 DEF First
      <3> QED
        BY <1>1, <1>3, <3>1, <3>3, <3>5
    <2> QED
      BY <2>1, <2>2 DEF Inv, Shows
  <1> QED
    BY <1>2, <1>3

(* A new entry at the end takes effect if there was none.                  *)
LEMMA AddedIsStored ==
    ASSUME Inv, NEW a \in Addresses, NEW v \in Cells, Missing(memory, a)
    PROVE  Stored(Append(memory, [address |-> a, value |-> v]), a, v, Len(memory) + 1)
  <1> DEFINE new == [address |-> a, value |-> v]
             m == Append(memory, new)
  <1>1. memory \in Seq(Entry) /\ Len(memory) \in Nat
    BY DEF Inv
  <1>2. new \in Entry /\ new.address = a /\ new.value = v
    BY DEF Entry
  <1> HIDE DEF new
  <1>3. /\ m \in Seq(Entry) /\ Len(m) = Len(memory) + 1
        /\ \A i \in 1 .. Len(memory) : m[i] = memory[i]
        /\ m[Len(memory) + 1] = new
    BY <1>1, <1>2, AppendProperties
  <1> HIDE DEF m
  <1>4. First(m, a, Len(memory) + 1)
    BY <1>1, <1>2, <1>3 DEF First, Missing
  <1>5. \A i \in 1 .. Len(m) : i \in 1 .. Len(memory) \/ i = Len(memory) + 1
    BY <1>1, <1>3
  <1>6. Stored(m, a, v, Len(memory) + 1)
    BY <1>1, <1>2, <1>3, <1>4, <1>5 DEF Stored, Missing
  <1> QED
    BY <1>6 DEF m, new

(* So does one that replaces the first.                                    *)
LEMMA ReplacedIsStored ==
    ASSUME Inv, NEW a \in Addresses, NEW v \in Cells, NEW k, First(memory, a, k), NEW m \in Seq(Entry),
           Len(memory) <= Len(m), m[k].address = a, m[k].value = v,
           \A i \in 1 .. Len(memory) : i # k => m[i] = memory[i],
           \A i \in 1 .. Len(m) : i \notin 1 .. Len(memory) => m[i].address = a
    PROVE  Stored(m, a, v, k)
  <1>1. /\ Len(memory) \in Nat /\ Len(m) \in Nat /\ k \in 1 .. Len(memory)
        /\ k \in 1 .. Len(m) /\ k \in Nat
    BY DEF Inv, First
  <1>2. First(m, a, k)
    BY <1>1 DEF First
  <1> QED
    BY <1>1, <1>2 DEF Stored, First

LEMMA SetMemoryInv ==
    ASSUME Inv, NEW a \in Addresses, NEW v \in Cells, SetMemory(a, v) PROVE Inv'
  <1>1. memory \in Seq(Entry) /\ Len(memory) \in Nat
    BY DEF Inv
  <1>2. \E k : Stored(memory', a, v, k)
    <2>1. CASE FirstAt(a) = 0
      <3>1. Missing(memory, a)
        BY <1>1, <2>1, SearchFindsFirst
      <3> QED
        BY <2>1, <3>1, AddedIsStored DEF SetMemory
    <2>2. CASE FirstAt(a) # 0
      <3>1. PICK k : k = FirstAt(a) /\ First(memory, a, k)
        BY <1>1, <2>2, SearchFindsFirst
      <3>2. k \in 1 .. Len(memory) /\ memory[k].address = a
        BY <3>1 DEF First
      <3>3. memory[k] \in Entry
        BY <1>1, <3>2, ElementOfSeq
      <3>4. PICK e : e = [memory[k] EXCEPT !.value = v]
        OBVIOUS
      <3>5. e \in Entry /\ e.address = a /\ e.value = v
        BY <3>2, <3>3, <3>4 DEF Entry
      <3>6. memory' = [memory EXCEPT ![k] = e]
        BY <2>2, <3>1, <3>4 DEF SetMemory
      <3>7. /\ memory' \in Seq(Entry) /\ Len(memory') = Len(memory)
            /\ \A j \in 1 .. Len(memory) : memory'[j] = IF j = k THEN e ELSE memory[j]
        BY <1>1, <3>2, <3>5, <3>6, ExceptSeq
      <3> QED
        BY <1>1, <3>1, <3>2, <3>5, <3>7, ReplacedIsStored
    <2> QED
      BY <2>1, <2>2
  <1>3. PICK k : Stored(memory', a, v, k)
    BY <1>2
  <1>4. last' = [last EXCEPT ![a] = v] /\ last' \in [Addresses -> Cells \cup {Unset}]
    BY DEF SetMemory, Inv
  <1>5. Shows(memory', last')
    BY <1>3, <1>4, StoredShows
  <1> QED
    BY <1>3, <1>4, <1>5 DEF Inv, Stored

LEMMA WriteInv ==
    ASSUME Inv, NEW a \in Addresses, NEW v \in Cells, Write(a, v) PROVE Inv'
  <1> DEFINE new == [address |-> a, value |-> v]
             kept == [i \in 1 .. Len(memory) |-> IF i = FirstAt(a) THEN new ELSE memory[i]]
  <1>1. memory \in Seq(Entry) /\ Len(memory) \in Nat /\ DOMAIN memory = 1 .. Len(memory)
    BY DEF Inv
  <1>2. new \in Entry /\ new.address = a /\ new.value = v
    BY DEF Entry
  <1>3. memory' = Append(kept, new)
    BY <1>1 DEF Write
  <1> HIDE DEF new
  <1>4. /\ kept \in Seq(Entry) /\ Len(kept) = Len(memory)
        /\ \A i \in 1 .. Len(memory) : kept[i] = IF i = FirstAt(a) THEN new ELSE memory[i]
    <2>1. \A i \in 1 .. Len(memory) : memory[i] \in Entry
      BY <1>1, ElementOfSeq
    <2>2. kept \in [1 .. Len(memory) -> Entry]
      BY <1>2, <2>1
    <2> QED
      BY <1>1, <2>2, IsASeq
  <1>5. \E k : Stored(memory', a, v, k)
    <2>1. CASE FirstAt(a) = 0
      <3>1. Missing(memory, a)
        BY <1>1, <2>1, SearchFindsFirst
      <3>2. kept = memory
        BY <1>1, <1>4, <2>1
      <3> QED
        BY <1>3, <3>1, <3>2, AddedIsStored DEF new
    <2>2. CASE FirstAt(a) # 0
      <3>1. PICK k : k = FirstAt(a) /\ First(memory, a, k)
        BY <1>1, <2>2, SearchFindsFirst
      <3>2. k \in 1 .. Len(memory)
        BY <3>1 DEF First
      <3> HIDE DEF kept
      <3>3. /\ memory' \in Seq(Entry) /\ Len(memory') = Len(memory) + 1
            /\ \A i \in 1 .. Len(memory) : memory'[i] = kept[i]
            /\ memory'[Len(memory) + 1] = new
        BY <1>2, <1>3, <1>4, AppendProperties
      <3>4. \A i \in 1 .. Len(memory') : i \in 1 .. Len(memory) \/ i = Len(memory) + 1
        BY <1>1, <3>3
      <3>5. memory'[k].address = a /\ memory'[k].value = v
        BY <1>2, <1>4, <3>1, <3>2, <3>3
      <3>6. \A i \in 1 .. Len(memory) : i # k => memory'[i] = memory[i]
        BY <1>4, <3>1, <3>3
      <3>7. \A i \in 1 .. Len(memory') : i \notin 1 .. Len(memory) => memory'[i].address = a
        BY <1>2, <3>3, <3>4
      <3>8. Len(memory) <= Len(memory')
        BY <1>1, <3>3
      <3> QED
        BY <3>1, <3>3, <3>5, <3>6, <3>7, <3>8, ReplacedIsStored
    <2> QED
      BY <2>1, <2>2
  <1>6. PICK k : Stored(memory', a, v, k)
    BY <1>5
  <1>7. last' = [last EXCEPT ![a] = v] /\ last' \in [Addresses -> Cells \cup {Unset}]
    BY DEF Write, Inv
  <1>8. Shows(memory', last')
    BY <1>6, <1>7, StoredShows
  <1> QED
    BY <1>6, <1>7, <1>8 DEF Inv, Stored

-----------------------------------------------------------------------------
(* memory_ always shows what was last set or poked.                        *)
THEOREM MemoryInvariant == Spec => []Inv
  <1>1. Init => Inv
    <2> SUFFICES ASSUME Init PROVE Inv
      OBVIOUS
    <2>1. memory = <<>> /\ Len(memory) = 0 /\ last = [a \in Addresses |-> Unset]
      BY DEF Init
    <2>2. 1 .. Len(memory) = {}
      BY <2>1
    <2>3. \A a \in Addresses : Missing(memory, a) /\ last[a] = Unset
      BY <2>1, <2>2 DEF Missing
    <2> QED
      BY <2>1, <2>3 DEF Inv, Shows
  <1>2. Inv /\ [Next]_vars => Inv'
    <2> SUFFICES ASSUME Inv, [Next]_vars PROVE Inv'
      OBVIOUS
    <2>1. CASE UNCHANGED <<memory, last>>
      BY <2>1 DEF Inv
    <2>2. ASSUME NEW a \in Addresses, NEW v \in Cells, Write(a, v) PROVE Inv'
      BY <2>2, WriteInv
    <2>3. ASSUME NEW a \in Addresses, NEW v \in Cells, SetMemory(a, v) PROVE Inv'
      BY <2>3, SetMemoryInv
    <2> QED
      BY <2>1, <2>2, <2>3 DEF Next, Expect, Read, SyncReport, vars
  <1> QED
    BY <1>1, <1>2, PTL DEF Spec

(* A peek returns what was last set or poked at its address, for any       *)
(* number of accesses and however many stale entries write() has left.     *)
THEOREM PeekIsCurrent == Spec => PeekSeesLastPoke
  <1>1. ASSUME Inv, NEW a \in Addresses, Read(a)
        PROVE  seen' = IF last[a] = Unset THEN Garbage ELSE last[a]
    <2>1. memory \in Seq(Entry) /\ Len(memory) \in Nat
      BY <1>1 DEF Inv
    <2>2. CASE FirstAt(a) = 0
      <3>1. Missing(memory, a)
        BY <2>1, <2>2, SearchFindsFirst
      <3>2. last[a] = Unset
        BY <1>1, <3>1 DEF Inv, Shows, Missing, First
      <3> QED
        BY <1>1, <2>2, <3>2 DEF Read
    <2>3. CASE FirstAt(a) # 0
      <3>1. PICK k : k = FirstAt(a) /\ First(memory, a, k)
        BY <2>1, <2>3, SearchFindsFirst
      <3>2. seen' = memory[k].value
        BY <1>1, <2>3, <3>1 DEF Read
      <3>3. k \in 1 .. Len(memory) /\ memory[k].address = a
        BY <3>1 DEF First
      <3>4. PICK i \in Nat : First(memory, a, i) /\ memory[i].value = last[a]
        BY <1>1, <3>3 DEF Inv, Shows, Missing
      <3>5. i = k
        BY <2>1, <3>1, <3>4, FirstIsOne
      <3>6. memory[k] \in Entry
        BY <2>1, <3>3, ElementOfSeq
      <3>7. last[a] \in Cells
        BY <3>4, <3>5, <3>6 DEF Entry
      <3>8. last[a] # Unset
        BY <3>7, CellsAssumption DEF Unset
      <3> QED
        BY <3>2, <3>4, <3>5, <3>8
    <2> QED
      BY <2>2, <2>3
  <1>2. Inv /\ [Next]_vars =>
          [\A a \in Addresses : Read(a) =>
             seen' = IF last[a] = Unset THEN Garbage ELSE last[a]]_vars
    BY <1>1
  <1> QED
    BY <1>2, MemoryInvariant, PTL DEF Spec, PeekSeesLastPoke

-----------------------------------------------------------------------------
(* Pairing. What the code has used up is a pairing; an access that found   *)
(* nothing shows, by the pigeonhole principle, that no other pairing       *)
(* serves everyone.                                                        *)
Operations == {"read", "write", "readAny", "writeAny"}
Item == [operation : Operations, address : Addresses, value : Cells \cup {Unset}]
Event == [kind : {"expect", "read", "write"}, item : Item]

Exps(es) == {i \in 1 .. Len(es) : es[i].kind = "expect"}
Accs(es) == {i \in 1 .. Len(es) : es[i].kind # "expect"}

(* The two ways in which an expectation serves an access.                  *)
ExactFor(e, x) == e.operation = x.operation /\ e.address = x.address /\ e.value = x.value
AnyFor(e, x) ==
    /\ e.address = x.address
    /\ \/ e.operation = "readAny" /\ x.operation = "read"
       \/ e.operation = "writeAny" /\ x.operation = "write"

(* g takes the accesses served so far to their expectations, pos the       *)
(* entries of ex, the expectations left, to the events that made them.     *)
Pairing(es, g) ==
    /\ DOMAIN g \subseteq Accs(es) /\ g \in [DOMAIN g -> Exps(es)]
    /\ \A i, j \in DOMAIN g : g[i] = g[j] => i = j
    /\ \A i \in DOMAIN g : /\ g[i] < i /\ es[i].item.value # Unset
                           /\ Compatible(es[g[i]].item, es[i].item)
Rest(es, ex, g, pos) ==
    /\ pos \in [1 .. Len(ex) -> Exps(es)]
    /\ \A k, l \in 1 .. Len(ex) : pos[k] = pos[l] => k = l
    /\ \A k \in 1 .. Len(ex) : ex[k] = es[pos[k]].item /\ \A i \in DOMAIN g : g[i] # pos[k]
    /\ \A e \in Exps(es) : \/ \E i \in DOMAIN g : g[i] = e
                           \/ \E k \in 1 .. Len(ex) : pos[k] = e

(* Expectation e was used up before event i.                               *)
Used(g, e, i) == \E j \in DOMAIN g : j < i /\ g[j] = e

(* One for any value was taken only when no exact one was left; an access  *)
(* was not served only when neither was.                                   *)
ExactFirst(es, g) ==
    \A i \in DOMAIN g : ~ExactFor(es[g[i]].item, es[i].item) =>
        \A e \in Exps(es) : e < i /\ ExactFor(es[e].item, es[i].item) => Used(g, e, i)
NoneLeft(es, g) ==
    \A i \in Accs(es) \ DOMAIN g : es[i].item.value # Unset =>
        \A e \in Exps(es) : e < i /\ Compatible(es[e].item, es[i].item) => Used(g, e, i)

Greedy(es, ex, lg, g, pos) ==
    /\ Pairing(es, g) /\ Rest(es, ex, g, pos) /\ ExactFirst(es, g) /\ NoneLeft(es, g)
    /\ lg \in Nat /\ (lg = 0 <=> DOMAIN g = Accs(es))

EventsOK(es) ==
    /\ es \in Seq(Event)
    /\ \A i \in Accs(es) : es[i].item.operation \in {"read", "write"}

Matched ==
    /\ EventsOK(events) /\ expected \in Seq(Item)
    /\ \E g, pos : Greedy(events, expected, log, g, pos)

-----------------------------------------------------------------------------
(* An expectation serves an access in one of the two ways.                 *)
LEMMA CompatibleIs ==
    ASSUME NEW e, NEW x
    PROVE  Compatible(e, x) <=> ExactFor(e, x) \/ AnyFor(e, x)
  BY DEF Compatible, ExactFor, AnyFor

(* One more event.                                                         *)
Longer(es, fs, new) ==
    /\ EventsOK(es) /\ EventsOK(fs) /\ Len(fs) = Len(es) + 1
    /\ \A i \in 1 .. Len(es) : fs[i] = es[i]
    /\ fs[Len(es) + 1] = new

(* The new event joins the expectations or the accesses, after all others. *)
LEMMA LongerFacts ==
    ASSUME NEW es, NEW fs, NEW new, Longer(es, fs, new)
    PROVE  /\ Len(es) \in Nat /\ Len(es) + 1 \notin 1 .. Len(es)
           /\ \A i \in 1 .. Len(es) : i < Len(es) + 1 /\ i # Len(es) + 1
           /\ new.kind = "expect" => Exps(fs) = Exps(es) \cup {Len(es) + 1} /\ Accs(fs) = Accs(es)
           /\ new.kind # "expect" => Exps(fs) = Exps(es) /\ Accs(fs) = Accs(es) \cup {Len(es) + 1}
           /\ Exps(es) \subseteq 1 .. Len(es) /\ Accs(es) \subseteq 1 .. Len(es)
  <1>1. PICK n \in Nat : n = Len(es)
    BY DEF Longer, EventsOK
  <1>2. /\ 1 .. Len(fs) = 1 .. n + 1 /\ \A i \in 1 .. n + 1 : i \in 1 .. n \/ i = n + 1
        /\ n + 1 \notin 1 .. n /\ n + 1 \in 1 .. n + 1
        /\ \A i \in 1 .. n : i \in 1 .. n + 1 /\ i < n + 1
        /\ \A i \in 1 .. n : fs[i] = es[i]
        /\ fs[n + 1] = new
    BY <1>1 DEF Longer
  <1>3. new.kind = "expect" => Exps(fs) = Exps(es) \cup {n + 1} /\ Accs(fs) = Accs(es)
    BY <1>1, <1>2 DEF Exps, Accs
  <1>4. new.kind # "expect" => Exps(fs) = Exps(es) /\ Accs(fs) = Accs(es) \cup {n + 1}
    BY <1>1, <1>2 DEF Exps, Accs
  <1> QED
    BY <1>1, <1>2, <1>3, <1>4 DEF Exps, Accs

(* What is used up stays used up.                                          *)
LEMMA UsedStays ==
    ASSUME NEW g, NEW h, DOMAIN g \subseteq DOMAIN h, \A i \in DOMAIN g : h[i] = g[i],
           NEW e, NEW i, Used(g, e, i)
    PROVE  Used(h, e, i)
  BY DEF Used

-----------------------------------------------------------------------------
(* The pairing the code made serves every access if any pairing does.      *)

(* Accesses before x that compete with it: those of its own value, and     *)
(* those of a value that has taken an expectation for any value since.     *)
Same(es, i, j) ==
    /\ es[i].item.operation = es[j].item.operation
    /\ es[i].item.address = es[j].item.address
Rivals(es, g, x) ==
    {j \in Accs(es) :
        /\ j < x /\ Same(es, j, x)
        /\ \/ es[j].item.value = es[x].item.value
           \/ \E k \in DOMAIN g : /\ j <= k /\ k < x /\ Same(es, k, x)
                                  /\ es[k].item.value = es[j].item.value
                                  /\ ~ExactFor(es[g[k]].item, es[k].item)}

(* Whatever serves a rival has been taken by a rival.                      *)
LEMMA RivalsHoldAll ==
    ASSUME NEW es, NEW g, EventsOK(es), Pairing(es, g), ExactFirst(es, g), NoneLeft(es, g),
           NEW x \in Accs(es) \ DOMAIN g, es[x].item.value # Unset,
           NEW i \in Rivals(es, g, x) \cup {x}, NEW e \in Exps(es), e < i,
           Compatible(es[e].item, es[i].item)
    PROVE  \E j \in DOMAIN g : j \in Rivals(es, g, x) /\ g[j] = e
  <1>1. /\ Accs(es) \subseteq Nat /\ Exps(es) \subseteq Nat /\ DOMAIN g \subseteq Accs(es)
        /\ i \in Accs(es)
    BY DEF Accs, Exps, Pairing, EventsOK, Rivals
  <1>2. e < x /\ Same(es, i, x)
    BY <1>1 DEF Rivals, Same
  <1>3. ASSUME NEW j \in DOMAIN g, g[j] = e
        PROVE  Compatible(es[e].item, es[j].item)
    BY <1>3 DEF Pairing
  <1>4. CASE AnyFor(es[e].item, es[i].item)
    <2>1. Compatible(es[e].item, es[x].item)
      BY <1>2, <1>4 DEF AnyFor, Same, Compatible
    <2>2. PICK j \in DOMAIN g : j < x /\ g[j] = e
      BY <1>2, <2>1 DEF NoneLeft, Used
    <2>3. es[i].item.operation \in {"read", "write"} /\ es[j].item.operation \in {"read", "write"}
      BY <1>1 DEF EventsOK
    <2>4. ~ExactFor(es[e].item, es[j].item) /\ Same(es, j, i)
      BY <1>3, <1>4, <2>2, <2>3 DEF AnyFor, ExactFor, Compatible, Same
    <2>5. j \in Rivals(es, g, x)
      <3>1. Same(es, j, x)
        BY <1>2, <2>4 DEF Same
      <3>2. j \in Accs(es) /\ j <= j
        BY <1>1
      <3> QED
        BY <2>2, <2>4, <3>1, <3>2 DEF Rivals
    <2> QED
      BY <2>2, <2>5
  <1>5. CASE ExactFor(es[e].item, es[i].item)
    <2>1. ASSUME NEW j \in DOMAIN g, g[j] = e, Compatible(es[e].item, es[j].item)
          PROVE  Same(es, j, i) /\ es[j].item.value = es[i].item.value
      <3>1. es[i].item.operation \in {"read", "write"} /\ es[j].item.operation \in {"read", "write"}
        BY <1>1 DEF EventsOK
      <3> QED
        BY <1>5, <2>1, <3>1 DEF ExactFor, Compatible, Same
    <2>2. CASE es[i].item.value = es[x].item.value
      <3>1. Compatible(es[e].item, es[x].item)
        BY <1>2, <1>5, <2>2 DEF ExactFor, Compatible, Same
      <3>2. PICK j \in DOMAIN g : j < x /\ g[j] = e
        BY <1>2, <3>1 DEF NoneLeft, Used
      <3>3. Same(es, j, i) /\ es[j].item.value = es[i].item.value
        BY <1>3, <2>1, <3>2
      <3>4. Same(es, j, x) /\ es[j].item.value = es[x].item.value /\ j \in Accs(es)
        BY <1>1, <1>2, <2>2, <3>3 DEF Same
      <3>5. j \in Rivals(es, g, x)
        BY <3>2, <3>4 DEF Rivals
      <3> QED
        BY <3>2, <3>5
    <2>3. CASE es[i].item.value # es[x].item.value
      <3>1. PICK k \in DOMAIN g : /\ i <= k /\ k < x /\ Same(es, k, x)
                                  /\ es[k].item.value = es[i].item.value
                                  /\ ~ExactFor(es[g[k]].item, es[k].item)
        BY <2>3 DEF Rivals
      <3>2. k \in Nat /\ x \in Nat
        BY <1>1
      <3>3. e < k /\ ExactFor(es[e].item, es[k].item)
        BY <1>1, <1>2, <1>5, <3>1, <3>2 DEF ExactFor, Same
      <3>4. PICK j \in DOMAIN g : j < k /\ g[j] = e
        BY <3>1, <3>3 DEF ExactFirst, Used
      <3>5. Same(es, j, i) /\ es[j].item.value = es[i].item.value
        BY <1>3, <2>1, <3>4
      <3>6. Same(es, j, x) /\ es[k].item.value = es[j].item.value /\ j \in Accs(es)
        BY <1>1, <1>2, <3>1, <3>5 DEF Same
      <3>7. j < x /\ j <= k
        BY <1>1, <3>1, <3>2, <3>4
      <3>8. j \in Rivals(es, g, x)
        BY <3>1, <3>6, <3>7 DEF Rivals
      <3> QED
        BY <3>4, <3>8
    <2> QED
      BY <2>2, <2>3
  <1> QED
    BY <1>4, <1>5, CompatibleIs

(* No pairing serves one access more than there are rivals.                *)
LEMMA NoneBetter ==
    ASSUME NEW es, NEW g, EventsOK(es), Pairing(es, g), ExactFirst(es, g), NoneLeft(es, g),
           NEW pair \in [Accs(es) -> Exps(es)],
           \A i, j \in Accs(es) : pair[i] = pair[j] => i = j,
           \A i \in Accs(es) : /\ pair[i] < i /\ es[i].item.value # Unset
                                /\ Compatible(es[pair[i]].item, es[i].item)
    PROVE  DOMAIN g = Accs(es)
  <1> SUFFICES ASSUME NEW x \in Accs(es) \ DOMAIN g PROVE FALSE
    BY DEF Pairing
  <1> DEFINE R == Rivals(es, g, x)
             S == R \cup {x}
  <1>1. /\ Len(es) \in Nat /\ S \subseteq Accs(es) /\ x \notin R
        /\ Accs(es) \subseteq 1 .. Len(es) /\ Accs(es) \subseteq Nat
    BY DEF Rivals, EventsOK, Accs
  <1>2. IsFiniteSet(R) /\ Cardinality(R) \in Nat
    <2>1. IsFiniteSet(1 .. Len(es)) /\ R \in SUBSET (1 .. Len(es))
      BY <1>1, FS_Interval
    <2> QED
      BY <2>1, FS_Subset, FS_CardinalityType
  <1>3. IsFiniteSet(S) /\ Cardinality(S) = Cardinality(R) + 1
    BY <1>1, <1>2, FS_AddElement
  <1>4. Cardinality(R) < Cardinality(S)
    BY <1>2, <1>3
  <1>5. \A i \in S : \E j \in DOMAIN g : j \in R /\ g[j] = pair[i]
    <2> TAKE i \in S
    <2>1. /\ i \in Accs(es) /\ pair[i] \in Exps(es) /\ pair[i] < i
          /\ Compatible(es[pair[i]].item, es[i].item) /\ es[x].item.value # Unset
      BY <1>1
    <2> HIDE DEF R
    <2> QED
      BY <2>1, RivalsHoldAll DEF R
  <1> DEFINE f == [i \in S |-> CHOOSE j \in DOMAIN g : j \in R /\ g[j] = pair[i]]
  <1> HIDE DEF R, S
  <1>6. \A i \in S : f[i] \in DOMAIN g /\ f[i] \in R /\ g[f[i]] = pair[i]
    BY <1>5
  <1>7. f \in [S -> R]
    BY <1>6
  <1> HIDE DEF f
  <1>8. PICK i \in S, j \in S : i # j /\ f[i] = f[j]
    BY <1>2, <1>3, <1>4, <1>7, FS_PigeonHole
  <1>9. pair[i] = pair[j] /\ i \in Accs(es) /\ j \in Accs(es)
    BY <1>1, <1>6, <1>8
  <1> QED
    BY <1>8, <1>9

-----------------------------------------------------------------------------
(* The steps of the code keep the pairing.                                 *)

(* Pairs and reasons of earlier events do not change with a later one.     *)
LEMMA EarlierKept ==
    ASSUME NEW es, NEW fs, NEW new, Longer(es, fs, new), NEW g, Pairing(es, g),
           ExactFirst(es, g), NoneLeft(es, g)
    PROVE  /\ Pairing(fs, g) /\ ExactFirst(fs, g)
           /\ \A i \in Accs(es) \ DOMAIN g : fs[i].item.value # Unset =>
                \A e \in Exps(fs) : e < i /\ Compatible(fs[e].item, fs[i].item) => Used(g, e, i)
  <1>1. /\ Len(es) \in Nat /\ Exps(es) \subseteq 1 .. Len(es) /\ Accs(es) \subseteq 1 .. Len(es)
        /\ Exps(es) \subseteq Exps(fs) /\ Accs(es) \subseteq Accs(fs)
        /\ \A e \in Exps(fs) : e \in Exps(es) \/ e = Len(es) + 1
    BY LongerFacts
  <1>2. \A i \in 1 .. Len(es) : fs[i] = es[i] /\ ~(Len(es) + 1 < i)
    BY <1>1 DEF Longer
  <1>3. DOMAIN g \subseteq 1 .. Len(es)
    BY <1>1 DEF Pairing
  <1>4. \A i \in DOMAIN g : g[i] \in 1 .. Len(es)
    BY <1>1 DEF Pairing
  <1>5. Pairing(fs, g)
    BY <1>1, <1>2, <1>3, <1>4 DEF Pairing
  <1>6. ExactFirst(fs, g)
    <2> SUFFICES ASSUME NEW i \in DOMAIN g, ~ExactFor(fs[g[i]].item, fs[i].item),
                        NEW e \in Exps(fs), e < i, ExactFor(fs[e].item, fs[i].item)
                 PROVE  Used(g, e, i)
      BY DEF ExactFirst
    <2>1. e \in Exps(es) /\ fs[i] = es[i] /\ fs[g[i]] = es[g[i]]
      BY <1>1, <1>2, <1>3, <1>4
    <2>2. fs[e] = es[e]
      BY <1>1, <1>2, <2>1
    <2> QED
      BY <2>1, <2>2 DEF ExactFirst
  <1>7. ASSUME NEW i \in Accs(es) \ DOMAIN g, fs[i].item.value # Unset,
               NEW e \in Exps(fs), e < i, Compatible(fs[e].item, fs[i].item)
        PROVE  Used(g, e, i)
    <2>1. e \in Exps(es) /\ fs[i] = es[i]
      BY <1>1, <1>2, <1>7
    <2>2. fs[e] = es[e]
      BY <1>1, <1>2, <2>1
    <2> QED
      BY <1>7, <2>1, <2>2 DEF NoneLeft
  <1> QED
    BY <1>5, <1>6, <1>7

(* A new expectation is left over, for now.                                *)
LEMMA GreedyExpect ==
    ASSUME NEW es, NEW fs, NEW new, Longer(es, fs, new), new.kind = "expect",
           NEW ex \in Seq(Item), NEW fx \in Seq(Item), Len(fx) = Len(ex) + 1,
           \A k \in 1 .. Len(ex) : fx[k] = ex[k], fx[Len(ex) + 1] = new.item,
           NEW lg, NEW g, NEW pos, Greedy(es, ex, lg, g, pos)
    PROVE  \E p : Greedy(fs, fx, lg, g, p)
  <1> DEFINE N == Len(es) + 1
             p == [k \in 1 .. Len(fx) |-> IF k = Len(fx) THEN N ELSE pos[k]]
  <1>1. /\ Len(es) \in Nat /\ N \notin 1 .. Len(es) /\ Exps(es) \subseteq 1 .. Len(es)
        /\ Exps(fs) = Exps(es) \cup {N} /\ Accs(fs) = Accs(es)
    BY LongerFacts
  <1>2. /\ fs[N] = new /\ \A i \in 1 .. Len(es) : fs[i] = es[i]
    BY DEF Longer
  <1>3. Pairing(es, g) /\ Rest(es, ex, g, pos) /\ ExactFirst(es, g) /\ NoneLeft(es, g)
        /\ lg \in Nat /\ (lg = 0 <=> DOMAIN g = Accs(es))
    BY DEF Greedy
  <1>4. Pairing(fs, g) /\ ExactFirst(fs, g) /\ NoneLeft(fs, g)
    BY <1>1, <1>3, EarlierKept DEF NoneLeft
  <1>5. Rest(fs, fx, g, p)
    <2>1. PICK l \in Nat : l = Len(ex)
      OBVIOUS
    <2>2. /\ Len(fx) = l + 1 /\ \A k \in 1 .. l + 1 : k \in 1 .. l \/ k = l + 1
          /\ l + 1 \in 1 .. l + 1 /\ \A k \in 1 .. l : k \in 1 .. l + 1 /\ k # l + 1
          /\ \A k \in 1 .. l : fx[k] = ex[k]
          /\ fx[l + 1] = new.item
      BY <2>1
    <2>3. /\ pos \in [1 .. l -> Exps(es)]
          /\ \A k, m \in 1 .. l : pos[k] = pos[m] => k = m
          /\ \A k \in 1 .. l : ex[k] = es[pos[k]].item /\ \A i \in DOMAIN g : g[i] # pos[k]
          /\ \A e \in Exps(es) : \/ \E i \in DOMAIN g : g[i] = e
                                 \/ \E k \in 1 .. l : pos[k] = e
      BY <1>3, <2>1 DEF Rest
    <2>4. \A k \in 1 .. l : p[k] = pos[k] /\ pos[k] \in Exps(es) /\ pos[k] # N
      BY <1>1, <2>2, <2>3
    <2>5. p[l + 1] = N /\ p \in [1 .. l + 1 -> Exps(fs)]
      BY <1>1, <2>2, <2>3, <2>4
    <2> HIDE DEF p
    <2>6. \A k, m \in 1 .. l + 1 : p[k] = p[m] => k = m
      BY <2>2, <2>3, <2>4, <2>5
    <2>7. \A k \in 1 .. l + 1 : fx[k] = fs[p[k]].item /\ \A i \in DOMAIN g : g[i] # p[k]
      <3> TAKE k \in 1 .. l + 1
      <3>1. CASE k \in 1 .. l
        <4>1. p[k] = pos[k] /\ fs[pos[k]] = es[pos[k]]
          BY <1>1, <1>2, <2>4, <3>1
        <4> QED
          BY <2>2, <2>3, <3>1, <4>1
      <3>2. CASE k = l + 1
        <4>1. \A i \in DOMAIN g : g[i] \in 1 .. Len(es)
          BY <1>1, <1>3 DEF Pairing
        <4> QED
          BY <1>1, <1>2, <2>2, <2>5, <3>2, <4>1
      <3> QED
        BY <2>2, <3>1, <3>2
    <2>8. \A e \in Exps(fs) : \/ \E i \in DOMAIN g : g[i] = e
                             \/ \E k \in 1 .. l + 1 : p[k] = e
      <3> TAKE e \in Exps(fs)
      <3>1. CASE e = N
        BY <2>2, <2>5, <3>1
      <3>2. CASE e \in Exps(es) /\ \E k \in 1 .. l : pos[k] = e
        BY <2>2, <2>4, <3>2
      <3> QED
        BY <1>1, <2>3, <3>1, <3>2
    <2> QED
      BY <2>2, <2>5, <2>6, <2>7, <2>8 DEF Rest
  <1>6. Greedy(fs, fx, lg, g, p)
    BY <1>1, <1>3, <1>4, <1>5 DEF Greedy
  <1> QED
    BY <1>6

(* An access that nothing is left for.                                     *)
LEMMA GreedyMiss ==
    ASSUME NEW es, NEW fs, NEW new, Longer(es, fs, new), new.kind # "expect",
           NEW ex \in Seq(Item), NEW lg, NEW g, NEW pos, Greedy(es, ex, lg, g, pos),
           new.item.value # Unset => \A k \in 1 .. Len(ex) : ~Compatible(ex[k], new.item)
    PROVE  Greedy(fs, ex, lg + 1, g, pos)
  <1> DEFINE N == Len(es) + 1
  <1>1. /\ Len(es) \in Nat /\ N \notin 1 .. Len(es) /\ Exps(es) \subseteq 1 .. Len(es)
        /\ Exps(fs) = Exps(es) /\ Accs(fs) = Accs(es) \cup {N} /\ Accs(es) \subseteq 1 .. Len(es)
    BY LongerFacts
  <1>2. /\ fs[N] = new /\ \A i \in 1 .. Len(es) : fs[i] = es[i]
    BY DEF Longer
  <1>3. Pairing(es, g) /\ Rest(es, ex, g, pos) /\ ExactFirst(es, g) /\ NoneLeft(es, g)
        /\ lg \in Nat
    BY DEF Greedy
  <1>4. Pairing(fs, g) /\ ExactFirst(fs, g)
    BY <1>3, EarlierKept
  <1>5. \A e \in Exps(es) : fs[e] = es[e]
    BY <1>1, <1>2
  <1>6. Rest(fs, ex, g, pos)
    BY <1>1, <1>3, <1>5 DEF Rest
  <1>7. DOMAIN g \subseteq 1 .. Len(es)
    BY <1>1, <1>3 DEF Pairing
  <1>8. NoneLeft(fs, g)
    <2>1. ASSUME NEW i \in Accs(fs) \ DOMAIN g, fs[i].item.value # Unset,
                 NEW e \in Exps(fs), e < i, Compatible(fs[e].item, fs[i].item)
          PROVE  Used(g, e, i)
      <3>1. CASE i \in Accs(es)
        BY <1>3, <2>1, <3>1, EarlierKept
      <3>2. CASE i = N
        <4>1. ~(\E k \in 1 .. Len(ex) : pos[k] = e)
          BY <1>1, <1>2, <1>3, <1>5, <2>1, <3>2 DEF Rest
        <4>2. PICK j \in DOMAIN g : g[j] = e
          BY <1>1, <1>3, <4>1 DEF Rest
        <4>3. j < N
          BY <1>1, <1>7
        <4> QED
          BY <3>2, <4>2, <4>3 DEF Used
      <3> QED
        BY <1>1, <3>1, <3>2
    <2> QED
      BY <2>1 DEF NoneLeft
  <1>9. lg + 1 \in Nat /\ lg + 1 # 0 /\ DOMAIN g # Accs(fs)
    BY <1>1, <1>3, <1>7
  <1> QED
    BY <1>4, <1>6, <1>8, <1>9 DEF Greedy

(* Removing one element of a sequence.                                     *)
LEMMA RemoveAtFacts ==
    ASSUME NEW S, NEW s \in Seq(S), NEW n \in 1 .. Len(s)
    PROVE  /\ RemoveAt(s, n) \in Seq(S) /\ Len(RemoveAt(s, n)) = Len(s) - 1
           /\ \A i \in 1 .. Len(s) - 1 : RemoveAt(s, n)[i] = IF i < n THEN s[i] ELSE s[i + 1]
  <1> DEFINE a == SubSeq(s, 1, n - 1)
             b == SubSeq(s, n + 1, Len(s))
             t == a \o b
  <1>1. Len(s) \in Nat /\ n \in Nat /\ \A i \in 1 .. Len(s) : s[i] \in S
    OBVIOUS
  <1>2. a \in Seq(S) /\ Len(a) = n - 1 /\ \A i \in 1 .. n - 1 : a[i] = s[i]
    BY <1>1, SubSeqProperties
  <1>3. b \in Seq(S) /\ Len(b) = Len(s) - n /\ \A i \in 1 .. Len(s) - n : b[i] = s[n + i]
    <2>1. \A i \in n + 1 .. Len(s) : s[i] \in S
      BY <1>1
    <2> QED
      BY <1>1, <2>1, SubSeqProperties
  <1>4. t = RemoveAt(s, n)
    BY DEF RemoveAt
  <1> HIDE DEF a, b
  <1>5. /\ t \in Seq(S) /\ Len(t) = Len(a) + Len(b)
        /\ \A i \in 1 .. Len(a) + Len(b) :
             t[i] = IF i <= Len(a) THEN a[i] ELSE b[i - Len(a)]
    BY <1>2, <1>3, ConcatProperties
  <1> HIDE DEF t
  <1>6. Len(t) = Len(s) - 1
    BY <1>1, <1>2, <1>3, <1>5
  <1>7. ASSUME NEW i \in 1 .. Len(s) - 1 PROVE t[i] = IF i < n THEN s[i] ELSE s[i + 1]
    <2>1. i \in 1 .. Len(a) + Len(b)
      BY <1>1, <1>2, <1>3
    <2>2. t[i] = IF i <= n - 1 THEN a[i] ELSE b[i - (n - 1)]
      BY <1>2, <1>5, <2>1
    <2>3. CASE i < n
      <3>1. i \in 1 .. n - 1 /\ i <= n - 1
        BY <1>1, <2>3
      <3> QED
        BY <1>2, <2>2, <2>3, <3>1
    <2>4. CASE ~(i < n)
      <3>1. i - (n - 1) \in 1 .. Len(s) - n /\ ~(i <= n - 1) /\ n + (i - (n - 1)) = i + 1
        BY <1>1, <2>4
      <3>2. b[i - (n - 1)] = s[n + (i - (n - 1))]
        BY <1>3, <3>1
      <3> QED
        BY <2>2, <2>4, <3>1, <3>2
    <2> QED
      BY <2>3, <2>4
  <1> QED
    BY <1>4, <1>5, <1>6, <1>7

(* An access that uses up entry k.                                         *)
LEMMA GreedyHit ==
    ASSUME NEW es, NEW fs, NEW new, Longer(es, fs, new), new.kind # "expect",
           NEW ex \in Seq(Item), NEW lg, NEW g, NEW pos, Greedy(es, ex, lg, g, pos),
           NEW k \in 1 .. Len(ex), new.item.value # Unset, Compatible(ex[k], new.item),
           ExactFor(ex[k], new.item) \/ \A m \in 1 .. Len(ex) : ~ExactFor(ex[m], new.item)
    PROVE  \E h, p : Greedy(fs, RemoveAt(ex, k), lg, h, p)
  <1> DEFINE N == Len(es) + 1
             h == [i \in DOMAIN g \cup {N} |-> IF i = N THEN pos[k] ELSE g[i]]
             p == [m \in 1 .. Len(ex) - 1 |-> IF m < k THEN pos[m] ELSE pos[m + 1]]
  <1>1. /\ Len(es) \in Nat /\ N \notin 1 .. Len(es) /\ Exps(es) \subseteq 1 .. Len(es)
        /\ Exps(fs) = Exps(es) /\ Accs(fs) = Accs(es) \cup {N} /\ Accs(es) \subseteq 1 .. Len(es)
        /\ \A i \in 1 .. Len(es) : i < N
    BY LongerFacts
  <1>2. /\ fs[N] = new /\ \A i \in 1 .. Len(es) : fs[i] = es[i]
    BY DEF Longer
  <1>3. Pairing(es, g) /\ Rest(es, ex, g, pos) /\ ExactFirst(es, g) /\ NoneLeft(es, g)
        /\ lg \in Nat /\ (lg = 0 <=> DOMAIN g = Accs(es))
    BY DEF Greedy
  <1>4. /\ pos \in [1 .. Len(ex) -> Exps(es)] /\ pos[k] \in Exps(es)
        /\ \A m, l \in 1 .. Len(ex) : pos[m] = pos[l] => m = l
        /\ \A m \in 1 .. Len(ex) : ex[m] = es[pos[m]].item /\ \A i \in DOMAIN g : g[i] # pos[m]
        /\ \A e \in Exps(es) : \/ \E i \in DOMAIN g : g[i] = e
                               \/ \E m \in 1 .. Len(ex) : pos[m] = e
    BY <1>3 DEF Rest
  <1>5. DOMAIN g \subseteq Accs(es) /\ N \notin DOMAIN g /\ DOMAIN g \subseteq 1 .. Len(es)
        /\ g \in [DOMAIN g -> Exps(es)]
    BY <1>1, <1>3 DEF Pairing
  <1>6. /\ DOMAIN h = DOMAIN g \cup {N} /\ h[N] = pos[k] /\ \A i \in DOMAIN g : h[i] = g[i]
    BY <1>5
  <1>7. Pairing(fs, g) /\ ExactFirst(fs, g)
        /\ \A i \in Accs(es) \ DOMAIN g : fs[i].item.value # Unset =>
             \A e \in Exps(fs) : e < i /\ Compatible(fs[e].item, fs[i].item) => Used(g, e, i)
    BY <1>3, EarlierKept
  <1>8. fs[pos[k]] = es[pos[k]] /\ \A e \in Exps(es) : fs[e] = es[e]
    BY <1>1, <1>2, <1>4
  <1>9. h \in [DOMAIN h -> Exps(fs)]
    BY <1>1, <1>4, <1>5
  <1> HIDE DEF h
  <1>10. Pairing(fs, h)
    <2>1. DOMAIN h \subseteq Accs(fs)
      BY <1>1, <1>5, <1>6
    <2>2. \A i, j \in DOMAIN h : h[i] = h[j] => i = j
      BY <1>3, <1>4, <1>6 DEF Pairing
    <2>3. ASSUME NEW i \in DOMAIN h
          PROVE  h[i] < i /\ fs[i].item.value # Unset /\ Compatible(fs[h[i]].item, fs[i].item)
      <3>1. CASE i = N
        BY <1>1, <1>2, <1>4, <1>6, <1>8, <3>1
      <3>2. CASE i \in DOMAIN g
        BY <1>6, <1>7, <3>2 DEF Pairing
      <3> QED
        BY <1>6, <3>1, <3>2
    <2> QED
      BY <1>9, <2>1, <2>2, <2>3 DEF Pairing
  <1>11. ASSUME NEW e \in Exps(es), \A m \in 1 .. Len(ex) : pos[m] # e
         PROVE  Used(h, e, N)
    <2>1. PICK j \in DOMAIN g : g[j] = e
      BY <1>4, <1>11
    <2>2. j < N /\ j \in DOMAIN h /\ h[j] = e
      BY <1>1, <1>5, <1>6, <2>1
    <2> QED
      BY <2>2 DEF Used
  <1>12. ExactFirst(fs, h)
    <2> SUFFICES ASSUME NEW i \in DOMAIN h, ~ExactFor(fs[h[i]].item, fs[i].item),
                        NEW e \in Exps(fs), e < i, ExactFor(fs[e].item, fs[i].item)
                 PROVE  Used(h, e, i)
      BY DEF ExactFirst
    <2>1. CASE i = N
      <3>1. \A m \in 1 .. Len(ex) : ~ExactFor(ex[m], new.item)
        BY <1>2, <1>4, <1>6, <1>8, <2>1
      <3>2. e \in Exps(es) /\ \A m \in 1 .. Len(ex) : pos[m] # e
        BY <1>1, <1>2, <1>4, <1>8, <2>1, <3>1
      <3> QED
        BY <1>11, <2>1, <3>2
    <2>2. CASE i \in DOMAIN g
      <3>1. Used(g, e, i)
        BY <1>6, <1>7, <2>2 DEF ExactFirst
      <3> QED
        BY <1>6, <3>1, UsedStays
    <2> QED
      BY <1>6, <2>1, <2>2
  <1>13. NoneLeft(fs, h)
    <2> SUFFICES ASSUME NEW i \in Accs(fs) \ DOMAIN h, fs[i].item.value # Unset,
                        NEW e \in Exps(fs), e < i, Compatible(fs[e].item, fs[i].item)
                 PROVE  Used(h, e, i)
      BY DEF NoneLeft
    <2>1. i \in Accs(es) \ DOMAIN g
      BY <1>1, <1>6
    <2>2. Used(g, e, i)
      BY <1>7, <2>1
    <2> QED
      BY <1>6, <2>2, UsedStays
  <1>14. lg = 0 <=> DOMAIN h = Accs(fs)
    BY <1>1, <1>3, <1>5, <1>6
  <1>15. Rest(fs, RemoveAt(ex, k), h, p)
    <2>1. PICK l \in Nat : l = Len(ex)
      OBVIOUS
    <2>2. PICK fx : fx = RemoveAt(ex, k)
      OBVIOUS
    <2>3. /\ Len(fx) = l - 1
          /\ \A m \in 1 .. l - 1 : fx[m] = IF m < k THEN ex[m] ELSE ex[m + 1]
      BY <2>1, <2>2, RemoveAtFacts
    <2>4. \A m \in 1 .. l - 1 : /\ p[m] = IF m < k THEN pos[m] ELSE pos[m + 1]
                                /\ m \in 1 .. l /\ m + 1 \in 1 .. l
      BY <2>1
    <2>5. p \in [1 .. l - 1 -> Exps(fs)]
      BY <1>1, <1>4, <2>1, <2>4
    <2> HIDE DEF p
    <2>6. \A m, q \in 1 .. l - 1 : p[m] = p[q] => m = q
      <3> SUFFICES ASSUME NEW m \in 1 .. l - 1, NEW q \in 1 .. l - 1, p[m] = p[q] PROVE m = q
        OBVIOUS
      <3>1. PICK mm \in 1 .. l : p[m] = pos[mm] /\ (IF m < k THEN mm = m ELSE mm = m + 1)
        BY <2>4
      <3>2. PICK qq \in 1 .. l : p[q] = pos[qq] /\ (IF q < k THEN qq = q ELSE qq = q + 1)
        BY <2>4
      <3>3. mm \in 1 .. Len(ex) /\ qq \in 1 .. Len(ex) /\ pos[mm] = pos[qq]
        BY <2>1, <3>1, <3>2
      <3>4. mm = qq
        BY <1>4, <3>3
      <3>5. m \in Int /\ q \in Int /\ k \in Int
        BY <2>1
      <3> QED
        BY <3>1, <3>2, <3>4, <3>5
    <2>7. ASSUME NEW m \in 1 .. l - 1
          PROVE  fx[m] = fs[p[m]].item /\ \A i \in DOMAIN h : h[i] # p[m]
      <3>1. PICK mm \in 1 .. l : /\ p[m] = pos[mm] /\ fx[m] = ex[mm] /\ mm # k
        <4>1. m \in Int /\ k \in Int /\ m \in 1 .. l /\ m + 1 \in 1 .. l
          BY <2>1, <2>4
        <4>2. CASE m < k
          BY <2>3, <2>4, <4>1, <4>2
        <4>3. CASE ~(m < k)
          <5>1. p[m] = pos[m + 1] /\ fx[m] = ex[m + 1] /\ m + 1 # k
            BY <2>3, <2>4, <4>1, <4>3
          <5> QED
            BY <4>1, <5>1
        <4> QED
          BY <4>2, <4>3
      <3>2. fs[pos[mm]] = es[pos[mm]] /\ pos[mm] # pos[k] /\ ex[mm] = es[pos[mm]].item
            /\ \A i \in DOMAIN g : g[i] # pos[mm]
        BY <1>4, <1>8, <2>1, <3>1
      <3> QED
        BY <1>6, <3>1, <3>2
    <2>8. ASSUME NEW e \in Exps(fs)
          PROVE  (\E i \in DOMAIN h : h[i] = e) \/ (\E m \in 1 .. l - 1 : p[m] = e)
      <3>1. CASE \E i \in DOMAIN g : g[i] = e
        BY <1>6, <3>1
      <3>2. CASE \E m \in 1 .. Len(ex) : pos[m] = e
        <4>1. PICK m \in 1 .. l : pos[m] = e
          BY <2>1, <3>2
        <4>2. CASE m = k
          BY <1>6, <4>1, <4>2
        <4>3. CASE m < k
          <5>1. m \in 1 .. l - 1
            BY <2>1, <4>3
          <5> QED
            BY <2>4, <4>1, <4>3, <5>1
        <4>4. CASE m > k
          <5>1. m - 1 \in 1 .. l - 1 /\ ~(m - 1 < k) /\ (m - 1) + 1 = m
            BY <2>1, <4>4
          <5>2. p[m - 1] = pos[m]
            BY <2>4, <5>1
          <5> QED
            BY <4>1, <5>1, <5>2
        <4> QED
          BY <2>1, <4>2, <4>3, <4>4
      <3> QED
        BY <1>1, <1>4, <3>1, <3>2
    <2> QED
      BY <2>2, <2>3, <2>5, <2>6, <2>7, <2>8 DEF Rest
  <1>16. Greedy(fs, RemoveAt(ex, k), lg, h, p)
    BY <1>3, <1>10, <1>12, <1>13, <1>14, <1>15 DEF Greedy
  <1> QED
    BY <1>16

-----------------------------------------------------------------------------
(* The searches for an expectation find one if there is one.               *)
LEMMA ExactSearch ==
    ASSUME expected \in Seq(Item), NEW op, NEW a, NEW v, NEW x,
           x.operation = op, x.address = a, x.value = v
    PROVE  /\ Exact(op, a, v) = 0 => \A k \in 1 .. Len(expected) : ~ExactFor(expected[k], x)
           /\ Exact(op, a, v) # 0 =>
                Exact(op, a, v) \in 1 .. Len(expected) /\ ExactFor(expected[Exact(op, a, v)], x)
  <1> DEFINE I == {i \in 1 .. Len(expected) : /\ expected[i].operation = op
                                              /\ expected[i].address = a /\ expected[i].value = v}
  <1>1. Exact(op, a, v) = IF I # {} THEN Min(I) ELSE 0
    BY DEF Exact, SelectInSeq
  <1>2. Len(expected) \in Nat /\ I \subseteq Nat
    OBVIOUS
  <1>3. CASE I = {}
    BY <1>1, <1>2, <1>3 DEF ExactFor
  <1>4. CASE I # {}
    <2>1. Exact(op, a, v) \in I
      <3> HIDE DEF I
      <3> QED
        BY <1>1, <1>2, <1>4, MinIsLeast
    <2>2. Exact(op, a, v) \in 1 .. Len(expected) /\ Exact(op, a, v) # 0
      BY <1>2, <2>1
    <2> QED
      BY <2>1, <2>2 DEF ExactFor
  <1> QED
    BY <1>3, <1>4

(* The operation of an expectation of any value.                           *)
AnyKind(op) == IF op = "read" THEN "readAny" ELSE "writeAny"

(* The same for an expectation of any value.                               *)
LEMMA AnySearch ==
    ASSUME expected \in Seq(Item), NEW op \in {"read", "write"}, NEW a, NEW x,
           x.operation = op, x.address = a
    PROVE  /\ AnyValue(AnyKind(op), a) = 0 => \A k \in 1 .. Len(expected) : ~AnyFor(expected[k], x)
           /\ AnyValue(AnyKind(op), a) # 0 =>
                /\ AnyValue(AnyKind(op), a) \in 1 .. Len(expected)
                /\ AnyFor(expected[AnyValue(AnyKind(op), a)], x)
  <1> DEFINE I == {i \in 1 .. Len(expected) : /\ expected[i].operation = AnyKind(op)
                                              /\ expected[i].address = a}
  <1>1. AnyValue(AnyKind(op), a) = IF I # {} THEN Min(I) ELSE 0
    BY DEF AnyValue, SelectInSeq
  <1>2. Len(expected) \in Nat /\ I \subseteq Nat
    OBVIOUS
  <1>3. CASE I = {}
    BY <1>1, <1>2, <1>3 DEF AnyFor, AnyKind
  <1>4. CASE I # {}
    <2>1. AnyValue(AnyKind(op), a) \in I
      <3> HIDE DEF I
      <3> QED
        BY <1>1, <1>2, <1>4, MinIsLeast
    <2>2. AnyValue(AnyKind(op), a) \in 1 .. Len(expected) /\ AnyValue(AnyKind(op), a) # 0
      BY <1>2, <2>1
    <2>3. AnyFor(expected[AnyValue(AnyKind(op), a)], x)
      BY <2>1 DEF AnyFor, AnyKind
    <2> QED
      BY <2>2, <2>3
  <1> QED
    BY <1>3, <1>4

(* Recording an event makes the events longer by it.                       *)
LEMMA AppendLonger ==
    ASSUME NEW es, EventsOK(es), NEW new \in Event,
           new.kind # "expect" => new.item.operation \in {"read", "write"}
    PROVE  Longer(es, Append(es, new), new)
  <1>1. PICK fs : fs = Append(es, new)
    OBVIOUS
  <1>2. es \in Seq(Event) /\ Len(es) \in Nat
    BY DEF EventsOK
  <1>3. /\ fs \in Seq(Event) /\ Len(fs) = Len(es) + 1
        /\ \A i \in 1 .. Len(es) : fs[i] = es[i]
        /\ fs[Len(es) + 1] = new
    BY <1>1, <1>2, AppendProperties
  <1>4. ASSUME NEW i \in Accs(fs) PROVE fs[i].item.operation \in {"read", "write"}
    <2>1. i \in 1 .. Len(es) \/ i = Len(es) + 1
      BY <1>2, <1>3 DEF Accs
    <2> QED
      BY <1>3, <2>1 DEF EventsOK, Accs
  <1> QED
    BY <1>1, <1>3, <1>4 DEF Longer, EventsOK

-----------------------------------------------------------------------------
(* test_read, test_write and their any-value forms keep the pairing.       *)
LEMMA ExpectMatched ==
    ASSUME Matched, NEW e \in Expectation, Expect(e) PROVE Matched'
  <1>1. PICK new : new = [kind |-> "expect", item |-> e]
    OBVIOUS
  <1>2. e \in Item
    BY DEF Expectation, Item, Operations
  <1>3. new \in Event /\ new.kind = "expect" /\ new.item = e
    BY <1>1, <1>2 DEF Event
  <1>4. EventsOK(events) /\ expected \in Seq(Item) /\ Len(expected) \in Nat
    BY DEF Matched
  <1>5. Longer(events, events', new)
    BY <1>1, <1>3, <1>4, AppendLonger DEF Expect
  <1>6. /\ expected' \in Seq(Item) /\ Len(expected') = Len(expected) + 1
        /\ \A i \in 1 .. Len(expected) : expected'[i] = expected[i]
        /\ expected'[Len(expected) + 1] = e
    BY <1>2, <1>4, AppendProperties DEF Expect
  <1>7. PICK g, pos : Greedy(events, expected, log, g, pos)
    BY DEF Matched
  <1>8. \E p : Greedy(events', expected', log, g, p)
    BY <1>3, <1>4, <1>5, <1>6, <1>7, GreedyExpect
  <1>9. log' = log
    BY DEF Expect
  <1>10. \E q, p : Greedy(events', expected', log', q, p)
    BY <1>8, <1>9
  <1> QED
    BY <1>5, <1>6, <1>10 DEF Matched, Longer

(* A value that was set or written is told apart from none.                *)
LEMMA CellIsSet ==
    ASSUME NEW v \in Cells PROVE v # Unset
  <1>1. v \in 1 .. 98
    BY CellsAssumption
  <1> QED
    BY <1>1 DEF Unset

(* An access of a value that is there.                                     *)
LEMMA FulfilMatched ==
    ASSUME Matched, NEW op \in {"read", "write"}, NEW a \in Addresses, NEW v \in Cells,
           Fulfil(op, AnyKind(op), a, v), NEW new \in Event, new.kind # "expect",
           new.item = [operation |-> op, address |-> a, value |-> v],
           events' = Append(events, new)
    PROVE  Matched'
  <1>1. PICK x : x = new.item
    OBVIOUS
  <1>2. x.operation = op /\ x.address = a /\ x.value = v /\ x.value # Unset
    <2>1. x.operation = op /\ x.address = a /\ x.value = v
      BY <1>1
    <2>2. v # Unset
      BY CellIsSet
    <2> QED
      BY <2>1, <2>2
  <1>3. EventsOK(events) /\ expected \in Seq(Item) /\ Len(expected) \in Nat
    BY DEF Matched
  <1>4. Longer(events, events', new) /\ EventsOK(events')
    BY <1>1, <1>2, <1>3, AppendLonger DEF Longer
  <1>5. PICK g, pos : Greedy(events, expected, log, g, pos)
    BY DEF Matched
  <1>6. PICK i : i = IF Exact(op, a, v) # 0 THEN Exact(op, a, v) ELSE AnyValue(AnyKind(op), a)
    OBVIOUS
  <1>7. IF i = 0 THEN log' = log + 1 /\ expected' = expected
                 ELSE expected' = RemoveAt(expected, i) /\ log' = log
    BY <1>6 DEF Fulfil
  <1>8. /\ Exact(op, a, v) = 0 => \A k \in 1 .. Len(expected) : ~ExactFor(expected[k], x)
        /\ Exact(op, a, v) # 0 =>
             Exact(op, a, v) \in 1 .. Len(expected) /\ ExactFor(expected[Exact(op, a, v)], x)
    BY <1>2, <1>3, ExactSearch
  <1>9. /\ AnyValue(AnyKind(op), a) = 0 => \A k \in 1 .. Len(expected) : ~AnyFor(expected[k], x)
        /\ AnyValue(AnyKind(op), a) # 0 =>
             /\ AnyValue(AnyKind(op), a) \in 1 .. Len(expected)
             /\ AnyFor(expected[AnyValue(AnyKind(op), a)], x)
    BY <1>2, <1>3, AnySearch
  <1>10. CASE i = 0
    <2>1. \A k \in 1 .. Len(expected) : ~ExactFor(expected[k], x) /\ ~AnyFor(expected[k], x)
      BY <1>6, <1>8, <1>9, <1>10
    <2>2. \A k \in 1 .. Len(expected) : ~Compatible(expected[k], x)
      BY <2>1, CompatibleIs
    <2>3. Greedy(events', expected, log + 1, g, pos)
      BY <1>1, <1>3, <1>4, <1>5, <2>2, GreedyMiss
    <2>4. Greedy(events', expected', log', g, pos)
      BY <1>7, <1>10, <2>3
    <2> QED
      BY <1>3, <1>4, <1>7, <1>10, <2>4 DEF Matched
  <1>11. CASE i # 0
    <2>1. /\ ExactFor(expected[i], x) \/ AnyFor(expected[i], x)
          /\ ExactFor(expected[i], x) \/ \A m \in 1 .. Len(expected) : ~ExactFor(expected[m], x)
      BY <1>6, <1>8, <1>9, <1>11
    <2>2. Compatible(expected[i], x)
      BY <2>1, CompatibleIs
    <2>3. i \in 1 .. Len(expected)
      BY <1>6, <1>8, <1>9, <1>11
    <2>4. \E h, p : Greedy(events', RemoveAt(expected, i), log, h, p)
      BY <1>1, <1>2, <1>3, <1>4, <1>5, <2>1, <2>2, <2>3, GreedyHit
    <2>5. RemoveAt(expected, i) \in Seq(Item)
      BY <1>3, <2>3, RemoveAtFacts
    <2>6. \E h, p : Greedy(events', expected', log', h, p)
      BY <1>7, <1>11, <2>4
    <2> QED
      BY <1>4, <1>7, <1>11, <2>5, <2>6 DEF Matched
  <1> QED
    BY <1>10, <1>11

(* write() keeps the pairing.                                              *)
LEMMA WriteMatched ==
    ASSUME Matched, NEW a \in Addresses, NEW v \in Cells, Write(a, v) PROVE Matched'
  <1>1. PICK new : new = [kind |-> "write",
                          item |-> [operation |-> "write", address |-> a, value |-> v]]
    OBVIOUS
  <1>2. /\ new \in Event /\ new.kind # "expect"
        /\ new.item = [operation |-> "write", address |-> a, value |-> v]
    BY <1>1 DEF Event, Item, Operations
  <1>3. Fulfil("write", AnyKind("write"), a, v) /\ events' = Append(events, new)
    BY <1>1 DEF Write, AnyKind
  <1> QED
    BY <1>2, <1>3, FulfilMatched

(* read() keeps it too, also at an address that holds nothing.             *)
LEMMA ReadMatched ==
    ASSUME Inv, Matched, NEW a \in Addresses, Read(a) PROVE Matched'
  <1>1. PICK new : new = [kind |-> "read",
                          item |-> [operation |-> "read", address |-> a, value |-> last[a]]]
    OBVIOUS
  <1>2. last[a] \in Cells \cup {Unset}
    BY DEF Inv
  <1>3. /\ new \in Event /\ new.kind # "expect"
        /\ new.item = [operation |-> "read", address |-> a, value |-> last[a]]
    BY <1>1, <1>2 DEF Event, Item, Operations
  <1>4. events' = Append(events, new)
    BY <1>1 DEF Read
  <1>5. memory \in Seq(Entry) /\ Len(memory) \in Nat
    BY DEF Inv
  <1>6. CASE FirstAt(a) = 0
    <2>1. Missing(memory, a)
      BY <1>5, <1>6, SearchFindsFirst
    <2>2. last[a] = Unset
      BY <2>1 DEF Inv, Shows, Missing, First
    <2>3. expected' = expected /\ log' = log + 1
      BY <1>6 DEF Read
    <2>4. EventsOK(events) /\ expected \in Seq(Item)
      BY DEF Matched
    <2>5. Longer(events, events', new) /\ EventsOK(events')
      BY <1>3, <1>4, <2>4, AppendLonger DEF Longer
    <2>6. PICK g, pos : Greedy(events, expected, log, g, pos)
      BY DEF Matched
    <2>7. Greedy(events', expected, log + 1, g, pos)
      BY <1>3, <2>2, <2>4, <2>5, <2>6, GreedyMiss
    <2>8. Greedy(events', expected', log', g, pos)
      BY <2>3, <2>7
    <2> QED
      BY <2>3, <2>4, <2>5, <2>8 DEF Matched
  <1>7. CASE FirstAt(a) # 0
    <2>1. PICK k : k = FirstAt(a) /\ First(memory, a, k)
      BY <1>5, <1>7, SearchFindsFirst
    <2>2. k \in 1 .. Len(memory) /\ memory[k].address = a
      BY <2>1 DEF First
    <2>3. PICK i \in Nat : First(memory, a, i) /\ memory[i].value = last[a]
      BY <2>2 DEF Inv, Shows, Missing
    <2>4. i = k
      BY <1>5, <2>1, <2>3, FirstIsOne
    <2>5. memory[k] \in Entry
      BY <1>5, <2>2, ElementOfSeq
    <2>6. last[a] \in Cells /\ last[a] = memory[FirstAt(a)].value
      BY <2>1, <2>3, <2>4, <2>5 DEF Entry
    <2>7. Fulfil("read", AnyKind("read"), a, last[a])
      BY <1>7, <2>6 DEF Read, AnyKind
    <2> QED
      BY <1>3, <1>4, <2>6, <2>7, FulfilMatched
  <1> QED
    BY <1>6, <1>7

(* Nothing has happened yet.                                               *)
LEMMA StartMatched ==
    ASSUME NEW es, NEW ex, NEW lg, es = <<>>, ex = <<>>, lg = 0
    PROVE  EventsOK(es) /\ ex \in Seq(Item) /\ \E g, pos : Greedy(es, ex, lg, g, pos)
  <1> DEFINE none == [i \in {} |-> 0]
  <1>1. /\ 1 .. Len(es) = {} /\ 1 .. Len(ex) = {} /\ DOMAIN none = {}
        /\ es \in Seq(Event) /\ ex \in Seq(Item)
    OBVIOUS
  <1>2. Exps(es) = {} /\ Accs(es) = {}
    BY <1>1 DEF Exps, Accs
  <1>3. none \in [{} -> {}]
    OBVIOUS
  <1> HIDE DEF none
  <1>4. Greedy(es, ex, lg, none, none)
    <2>1. Pairing(es, none)
      BY <1>1, <1>2, <1>3 DEF Pairing
    <2>2. Rest(es, ex, none, none)
      BY <1>1, <1>2, <1>3 DEF Rest
    <2>3. ExactFirst(es, none) /\ NoneLeft(es, none)
      BY <1>1, <1>2 DEF ExactFirst, NoneLeft
    <2> QED
      BY <1>1, <1>2, <2>1, <2>2, <2>3 DEF Greedy
  <1> QED
    BY <1>1, <1>2, <1>4 DEF EventsOK

(* The code's bookkeeping is, at every moment, a greedy pairing.           *)
THEOREM PairingInvariant == Spec => []Matched
  <1>1. Init => Matched
    BY StartMatched DEF Init, Matched
  <1>2. Inv /\ Matched /\ [Next]_vars => Matched'
    <2> SUFFICES ASSUME Inv, Matched, [Next]_vars PROVE Matched'
      OBVIOUS
    <2>1. CASE UNCHANGED <<expected, log, events>>
      BY <2>1 DEF Matched
    <2>2. ASSUME NEW e \in Expectation, Expect(e) PROVE Matched'
      BY <2>2, ExpectMatched
    <2>3. ASSUME NEW a \in Addresses, Read(a) PROVE Matched'
      BY <2>3, ReadMatched
    <2>4. ASSUME NEW a \in Addresses, NEW v \in Cells, Write(a, v) PROVE Matched'
      BY <2>4, WriteMatched
    <2>5. CASE SyncReport
      <3>1. events' = <<>> /\ expected' = <<>> /\ log' = 0
        BY <2>5 DEF SyncReport
      <3> QED
        BY <3>1, StartMatched DEF Matched
    <2>6. ASSUME NEW a \in Addresses, NEW v \in Cells, SetMemory(a, v) PROVE Matched'
      BY <2>1, <2>6 DEF SetMemory
    <2> QED
      BY <2>1, <2>2, <2>3, <2>4, <2>5, <2>6 DEF Next, vars
  <1> QED
    BY <1>1, <1>2, MemoryInvariant, PTL DEF Spec

(* test_sync returns nothing exactly if accesses and expectations can be   *)
(* paired off, for any number of them: the greedy choice of read() and     *)
(* write() never reports a program that some other pairing would clear.    *)
THEOREM GreedyIsEnough == Spec => SyncPassesIffPaired
  <1> DEFINE E == Exps(events)
             A == Accs(events)
  <1>1. ASSUME Matched, SyncReport PROVE report' = 0 <=> CanPairOff
    <2>1. /\ EventsOK(events) /\ events \in Seq(Event) /\ Len(events) \in Nat
          /\ expected \in Seq(Item) /\ Len(expected) \in Nat
      BY <1>1 DEF Matched, EventsOK
    <2>2. PICK g, pos : Greedy(events, expected, log, g, pos)
      BY <1>1 DEF Matched
    <2>3. /\ Pairing(events, g) /\ ExactFirst(events, g) /\ NoneLeft(events, g)
          /\ Rest(events, expected, g, pos)
          /\ log \in Nat /\ (log = 0 <=> DOMAIN g = A)
      BY <2>2 DEF Greedy
    <2>4. report' = 0 <=> log = 0 /\ expected = <<>>
      <3>1. report' = log + (IF expected = <<>> THEN 0 ELSE 1 + Len(expected))
        BY <1>1 DEF SyncReport
      <3> QED
        BY <2>1, <2>3, <3>1
    <2>5. /\ IsFiniteSet(E) /\ IsFiniteSet(A)
          /\ E \subseteq 1 .. Len(events) /\ A \subseteq 1 .. Len(events)
      <3>1. E \subseteq 1 .. Len(events) /\ A \subseteq 1 .. Len(events)
        BY DEF Exps, Accs
      <3>2. IsFiniteSet(1 .. Len(events))
        BY <2>1, FS_Interval
      <3> QED
        BY <3>1, <3>2, FS_Subset
    <2>6. /\ {i \in DOMAIN events : events[i].kind = "expect"} = E
          /\ DOMAIN events \ E = A
      BY <2>1 DEF Exps, Accs
    <2>7. CanPairOff <=>
            /\ Cardinality(E) = Cardinality(A)
            /\ \E pair \in [A -> E] :
                 /\ \A i, j \in A : pair[i] = pair[j] => i = j
                 /\ \A i \in A : pair[i] < i /\ events[i].item.value # Unset
                                 /\ Compatible(events[pair[i]].item, events[i].item)
      BY <2>6 DEF CanPairOff
    <2> HIDE DEF E, A
    <2>8. /\ DOMAIN g \subseteq A /\ g \in [DOMAIN g -> E]
          /\ \A i, j \in DOMAIN g : g[i] = g[j] => i = j
          /\ \A i \in DOMAIN g : /\ g[i] < i /\ events[i].item.value # Unset
                                 /\ Compatible(events[g[i]].item, events[i].item)
      BY <2>3 DEF Pairing, A, E
    <2>9. /\ pos \in [1 .. Len(expected) -> E]
          /\ \A k \in 1 .. Len(expected) : \A i \in DOMAIN g : g[i] # pos[k]
          /\ \A e \in E : \/ \E i \in DOMAIN g : g[i] = e
                          \/ \E k \in 1 .. Len(expected) : pos[k] = e
      BY <2>3 DEF Rest, E
    <2>10. ASSUME log = 0, expected = <<>> PROVE CanPairOff
      <3>1. DOMAIN g = A /\ g \in [A -> E]
        BY <2>3, <2>8, <2>10
      <3>2. 1 .. Len(expected) = {}
        BY <2>10
      <3>3. \A e \in E : \E i \in A : g[i] = e
        BY <2>9, <3>1, <3>2
      <3>4. g \in Bijection(A, E)
        BY <2>8, <3>1, <3>3, Fun_IsBij
      <3>5. ExistsBijection(A, E)
        BY <3>4 DEF ExistsBijection
      <3>6. Cardinality(E) = Cardinality(A)
        BY <2>5, <3>5, FS_Bijection
      <3> QED
        BY <2>7, <2>8, <3>1, <3>6
    <2>11. ASSUME CanPairOff PROVE log = 0 /\ expected = <<>>
      <3>1. PICK pair \in [A -> E] :
                 /\ \A i, j \in A : pair[i] = pair[j] => i = j
                 /\ \A i \in A : pair[i] < i /\ events[i].item.value # Unset
                                 /\ Compatible(events[pair[i]].item, events[i].item)
        BY <2>7, <2>11
      <3>2. Cardinality(E) = Cardinality(A)
        BY <2>7, <2>11
      <3>3. DOMAIN g = A
        BY <2>1, <2>3, <3>1, NoneBetter DEF A, E
      <3>4. log = 0 /\ g \in [A -> E]
        BY <2>3, <2>8, <3>3
      <3>5. \A e \in E : \E i \in A : g[i] = e
        <4>1. g \in Injection(A, E)
          BY <2>8, <3>3, <3>4 DEF Injection, IsInjective
        <4>2. g \in Surjection(A, E)
          BY <2>5, <3>2, <4>1, FS_Injection
        <4> QED
          BY <3>4, <4>2 DEF Surjection
      <3>6. ASSUME NEW k \in 1 .. Len(expected) PROVE FALSE
        <4>1. pos[k] \in E
          BY <2>9
        <4> QED
          BY <2>9, <3>3, <3>5, <4>1
      <3>7. Len(expected) = 0
        BY <2>1, <3>6
      <3> QED
        BY <2>1, <3>4, <3>7, EmptySeq
    <2> QED
      BY <2>4, <2>10, <2>11
  <1>2. Matched /\ [Next]_vars => [SyncReport => (report' = 0 <=> CanPairOff)]_vars
    BY <1>1
  <1> QED
    BY <1>2, PairingInvariant, PTL DEF Spec, SyncPassesIffPaired
=============================================================================
