------------------------ MODULE TestInterruptsProofs ------------------------
(***************************************************************************)
(* Scripts of any length, with any number of handlers, that remove their   *)
(* handlers last: every interrupt that a sync picks runs its handler       *)
(* once, and a sync that returns has waited for all of them, whatever the  *)
(* order in which the threads wake.                                        *)
(***************************************************************************)
EXTENDS TestInterrupts, FiniteSetTheorems, SequenceTheorems, TLAPS

Item == [id : Ids, isr : Isrs, state : States]
TypeInv ==
    /\ items \in Seq(Item) /\ n \in Nat /\ numWaiting \in Int /\ scheduled \in Seq(Ids)
    /\ thread \in Seq([index : Nat, pc : ThreadPoints]) /\ script \in ScriptCalls
    /\ main \in MainPoints /\ tranche \in Nat
    /\ due \in [Isrs -> Nat] /\ ran \in [Isrs -> Nat]

(* What a thread's program point says about its handler's state. A thread  *)
(* that has not counted itself, parked or not, may be picked already.      *)
PointOK(p, s) ==
    /\ p = "install" => s = "Installing"
    /\ p \in {"count", "park", "parked"} => s \in {"Waiting", "Go"}
    /\ p = "go" => s = "Go"
    /\ p \in {"isr", "done"} => s = "Running"

(* Threads and handlers correspond.                                        *)
Aligned ==
    /\ Len(thread) = Len(items)
    /\ \A t \in 1 .. Len(thread) :
         thread[t].index = t /\ PointOK(thread[t].pc, items[t].state)

(* Handlers go only at the end of the script.                              *)
ScriptOK ==
    /\ RemovesLast(script) /\ n <= Len(items)
    /\ n # Len(items) => main \in {"call", "close"} /\ OnlyRemoves(script)
    /\ main = "close" => gap \in 1 .. n /\ OnlyRemoves(script)

(* Outside the loop of test_sync, and in it between two tranches, no       *)
(* handler is picked or running.                                           *)
Calm ==
    /\ main \in {"addWait", "addBlocked"} =>
         \A i \in 1 .. Len(items) : items[i].state \in {"Waiting", "Installing"}
    /\ main \in {"call", "close"} \/ (main = "pick" /\ tranche = 0) =>
         \A i \in 1 .. Len(items) : items[i].state = "Waiting"
    /\ main \in {"call", "close", "addWait", "addBlocked", "check", "blocked"} => tranche = 0
    /\ main = "pick" /\ scheduled = <<>> => tranche = 0

(* What a handler contributes to numWaiting_: one while it is counted and  *)
(* not picked; a handler picked before it was counted owes its count.      *)
Counts(p, s) == p \in {"park", "parked"} /\ s = "Waiting"
Owes(p, s) == p = "count" /\ s = "Go"
Counting == {t \in 1 .. Len(thread) : Counts(thread[t].pc, items[t].state)}
Owing == {t \in 1 .. Len(thread) : Owes(thread[t].pc, items[t].state)}
Counted == numWaiting - tranche = Cardinality(Counting) - Cardinality(Owing)

(* Picked and not yet run.                                                 *)
Flies(p, s) == s = "Go" \/ p = "isr"
Flights(h) == {t \in 1 .. Len(thread) : items[t].isr = h /\ Flies(thread[t].pc, items[t].state)}
Once == \A h \in Isrs : due[h] = ran[h] + Cardinality(Flights(h))

Inv == TypeInv /\ Aligned /\ ScriptOK /\ Calm /\ Counted /\ Once

-----------------------------------------------------------------------------
Has(S, x) == IF x \in S THEN 1 ELSE 0

(* Changing the membership of one element changes the size by one.         *)
SameBut(S, T, x) == \A y : y # x => (y \in S <=> y \in T)
LEMMA CardChange ==
    ASSUME NEW S, NEW T, IsFiniteSet(S), NEW x, SameBut(S, T, x)
    PROVE  /\ IsFiniteSet(T) /\ Cardinality(S) \in Nat /\ Cardinality(T) \in Nat
           /\ Cardinality(T) = Cardinality(S) + Has(T, x) - Has(S, x)
  <1> DEFINE U == S \ {x}
  <1>1. IsFiniteSet(U) /\ Cardinality(U) \in Nat /\ Cardinality(S) \in Nat
    BY FS_RemoveElement, FS_CardinalityType
  <1>2. ASSUME NEW V, V \ {x} = U
        PROVE  IsFiniteSet(V) /\ Cardinality(V) = Cardinality(U) + Has(V, x)
    <2>1. CASE x \in V
      <3>1. V = U \cup {x} /\ x \notin U
        BY <1>2, <2>1
      <3> QED
        BY <1>1, <2>1, <3>1, FS_AddElement DEF Has
    <2>2. CASE x \notin V
      <3>1. V = U
        BY <1>2, <2>2
      <3> QED
        BY <1>1, <2>2, <3>1 DEF Has
    <2> QED
      BY <2>1, <2>2
  <1>3. Cardinality(S) = Cardinality(U) + Has(S, x)
    BY <1>2
  <1>4. IsFiniteSet(T) /\ Cardinality(T) = Cardinality(U) + Has(T, x)
    <2>1. T \ {x} = U
      BY DEF SameBut
    <2> QED
      BY <1>2, <2>1
  <1>5. Cardinality(T) \in Nat
    BY <1>4, FS_CardinalityType
  <1> HIDE DEF U
  <1>6. Has(S, x) \in Int /\ Has(T, x) \in Int
    BY DEF Has
  <1> QED
    BY <1>1, <1>3, <1>4, <1>5, <1>6

(* The sets that are counted are finite.                                   *)
LEMMA Finite ==
    ASSUME TypeInv
    PROVE  /\ Len(thread) \in Nat /\ IsFiniteSet(1 .. Len(thread))
           /\ Cardinality(1 .. Len(thread)) = Len(thread)
           /\ IsFiniteSet(Counting) /\ Cardinality(Counting) \in Nat
           /\ IsFiniteSet(Owing) /\ Cardinality(Owing) \in Nat
           /\ \A h \in Isrs : IsFiniteSet(Flights(h)) /\ Cardinality(Flights(h)) \in Nat
  <1>1. Len(thread) \in Nat
    BY DEF TypeInv
  <1>2. IsFiniteSet(1 .. Len(thread)) /\ Cardinality(1 .. Len(thread)) = Len(thread)
    <2>1. PICK l \in Nat : l = Len(thread)
      BY <1>1
    <2>2. IsFiniteSet(1 .. l) /\ Cardinality(1 .. l) = IF 1 > l THEN 0 ELSE l - 1 + 1
      BY FS_Interval
    <2>3. (IF 1 > l THEN 0 ELSE l - 1 + 1) = l
      OBVIOUS
    <2> QED
      BY <2>1, <2>2, <2>3
  <1>3. ASSUME NEW S \in SUBSET (1 .. Len(thread)) PROVE IsFiniteSet(S) /\ Cardinality(S) \in Nat
    BY <1>2, FS_Subset, FS_CardinalityType
  <1> QED
    BY <1>1, <1>2, <1>3 DEF Counting, Owing, Flights

(* A step that moves one thread, or its handler's state, or both.          *)
Moves(t, p, s) ==
    /\ thread' = [thread EXCEPT ![t].pc = p]
    /\ items' = [items EXCEPT ![t].state = s]

LEMMA MoveFacts ==
    ASSUME Inv, NEW t \in 1 .. Len(thread), NEW p \in ThreadPoints, NEW s \in States,
           Moves(t, p, s)
    PROVE  /\ items' \in Seq(Item) /\ thread' \in Seq([index : Nat, pc : ThreadPoints])
           /\ Len(thread') = Len(thread) /\ Len(items') = Len(items) /\ t \in 1 .. Len(items)
           /\ \A u \in 1 .. Len(thread) : u # t =>
                thread'[u].pc = thread[u].pc /\ items'[u].state = items[u].state
           /\ \A u \in 1 .. Len(thread) :
                thread'[u].index = thread[u].index /\ items'[u].isr = items[u].isr
           /\ thread'[t].pc = p /\ items'[t].state = s
  <1>1. /\ items \in Seq(Item) /\ thread \in Seq([index : Nat, pc : ThreadPoints])
        /\ t \in 1 .. Len(items) /\ 1 .. Len(items) = 1 .. Len(thread)
    BY DEF Inv, TypeInv, Aligned
  <1> DEFINE Point == [index : Nat, pc : ThreadPoints]
             newPoint == [thread[t] EXCEPT !.pc = p]
             newItem == [items[t] EXCEPT !.state = s]
  <1>2. thread[t] \in Point /\ items[t] \in Item
    BY <1>1, ElementOfSeq
  <1>3. newPoint \in Point /\ newItem \in Item
    BY <1>2 DEF Item
  <1>4. thread' = [thread EXCEPT ![t] = newPoint] /\ items' = [items EXCEPT ![t] = newItem]
    BY DEF Moves
  <1>7. /\ newPoint.pc = p /\ newPoint.index = thread[t].index
        /\ newItem.state = s /\ newItem.isr = items[t].isr
    BY <1>2 DEF Item
  <1> HIDE DEF newPoint, newItem
  <1>5. /\ thread' \in Seq(Point) /\ Len(thread') = Len(thread)
        /\ \A u \in 1 .. Len(thread) : thread'[u] = IF u = t THEN newPoint ELSE thread[u]
    <2> HIDE DEF Point
    <2>1. thread \in Seq(Point)
      BY <1>1 DEF Point
    <2> QED
      BY <2>1, <1>3, <1>4, ExceptSeq
  <1>6. /\ items' \in Seq(Item) /\ Len(items') = Len(items)
        /\ \A u \in 1 .. Len(items) : items'[u] = IF u = t THEN newItem ELSE items[u]
    BY <1>1, <1>3, <1>4, ExceptSeq
  <1> QED
    BY <1>1, <1>5, <1>6, <1>7

CountBit(p, s) == IF Counts(p, s) THEN 1 ELSE 0
OweBit(p, s) == IF Owes(p, s) THEN 1 ELSE 0
FlyBit(p, s) == IF Flies(p, s) THEN 1 ELSE 0

(* Such a step keeps the correspondence of threads and handlers, the count *)
(* if numWaiting_ changes by what the thread contributes, and the history  *)
(* of a handler if it changes as its flights do.                           *)
LEMMA MoveAligned ==
    ASSUME Inv, NEW t \in 1 .. Len(thread), NEW p \in ThreadPoints, NEW s \in States,
           Moves(t, p, s), PointOK(p, s)
    PROVE  Aligned'
  BY MoveFacts DEF Inv, Aligned

LEMMA MoveCounted ==
    ASSUME Inv, NEW t \in 1 .. Len(thread), NEW p \in ThreadPoints, NEW s \in States,
           Moves(t, p, s), NEW q, q = thread[t].pc, NEW r, r = items[t].state
    PROVE  /\ numWaiting' \in Int /\ tranche' \in Int /\
                numWaiting' - tranche' = (numWaiting - tranche) + (CountBit(p, s) - CountBit(q, r))
                                                                - (OweBit(p, s) - OweBit(q, r))
           => Counted'
  <1>1. /\ Len(thread') = Len(thread)
        /\ \A u \in 1 .. Len(thread) : u # t =>
             thread'[u].pc = thread[u].pc /\ items'[u].state = items[u].state
        /\ thread'[t].pc = p /\ items'[t].state = s
    BY MoveFacts
  <1>2. /\ CountBit(p, s) \in Int /\ CountBit(q, r) \in Int
        /\ OweBit(p, s) \in Int /\ OweBit(q, r) \in Int
    BY DEF CountBit, OweBit
  <1>3. PICK C : C = Counting
    OBVIOUS
  <1>4. PICK D : D = Counting'
    OBVIOUS
  <1>5. PICK O : O = Owing
    OBVIOUS
  <1>6. PICK P : P = Owing'
    OBVIOUS
  <1>7. IsFiniteSet(C) /\ IsFiniteSet(O)
    BY <1>3, <1>5, Finite DEF Inv
  <1>8. SameBut(C, D, t) /\ (t \in D <=> Counts(p, s)) /\ (t \in C <=> Counts(q, r))
    BY <1>1, <1>3, <1>4 DEF Counting, SameBut
  <1>9. SameBut(O, P, t) /\ (t \in P <=> Owes(p, s)) /\ (t \in O <=> Owes(q, r))
    BY <1>1, <1>5, <1>6 DEF Owing, SameBut
  <1>10. /\ Cardinality(C) \in Nat /\ Cardinality(D) \in Nat
         /\ Cardinality(D) = Cardinality(C) + Has(D, t) - Has(C, t)
    BY <1>7, <1>8, CardChange
  <1>11. /\ Cardinality(O) \in Nat /\ Cardinality(P) \in Nat
         /\ Cardinality(P) = Cardinality(O) + Has(P, t) - Has(O, t)
    BY <1>7, <1>9, CardChange
  <1>12. /\ Has(D, t) = CountBit(p, s) /\ Has(C, t) = CountBit(q, r)
         /\ Has(P, t) = OweBit(p, s) /\ Has(O, t) = OweBit(q, r)
    BY <1>8, <1>9 DEF Has, CountBit, OweBit
  <1>13. /\ numWaiting - tranche = Cardinality(C) - Cardinality(O)
         /\ numWaiting \in Int /\ tranche \in Int
    BY <1>3, <1>5 DEF Inv, Counted, TypeInv
  <1>14. HAVE /\ numWaiting' \in Int /\ tranche' \in Int
              /\ numWaiting' - tranche' = (numWaiting - tranche) + (CountBit(p, s) - CountBit(q, r))
                                                                - (OweBit(p, s) - OweBit(q, r))
  <1>15. numWaiting' - tranche' = Cardinality(D) - Cardinality(P)
    <2>1. PICK k \in Int : k = CountBit(p, s) - CountBit(q, r)
      BY <1>2
    <2>2. PICK l \in Int : l = OweBit(p, s) - OweBit(q, r)
      BY <1>2
    <2>3. PICK m \in Int : m = numWaiting - tranche
      BY <1>13
    <2>4. numWaiting' - tranche' = (m + k) - l
      BY <1>14, <2>1, <2>2, <2>3
    <2>5. Cardinality(D) = Cardinality(C) + k
      BY <1>2, <1>10, <1>12, <2>1
    <2>6. Cardinality(P) = Cardinality(O) + l
      BY <1>2, <1>11, <1>12, <2>2
    <2>7. m = Cardinality(C) - Cardinality(O)
      BY <1>13, <2>3
    <2>8. PICK c \in Int, o \in Int : c = Cardinality(C) /\ o = Cardinality(O)
      BY <1>10, <1>11
    <2>9. m = c - o
      BY <2>7, <2>8
    <2>10. (m + k) - l = (c + k) - (o + l)
      BY <2>9
    <2> QED
      BY <2>4, <2>5, <2>6, <2>8, <2>10
  <1> QED
    BY <1>4, <1>6, <1>15 DEF Counted

LEMMA MoveOnce ==
    ASSUME Inv, NEW t \in 1 .. Len(thread), NEW p \in ThreadPoints, NEW s \in States,
           Moves(t, p, s), NEW q, q = thread[t].pc, NEW r, r = items[t].state,
           NEW h \in Isrs, due'[h] \in Int, ran'[h] \in Int
    PROVE  /\ h # items[t].isr /\ due'[h] = due[h] /\ ran'[h] = ran[h]
             => due'[h] = ran'[h] + Cardinality(Flights(h)')
           /\ h = items[t].isr /\
                due'[h] - ran'[h] = (due[h] - ran[h]) + (FlyBit(p, s) - FlyBit(q, r))
             => due'[h] = ran'[h] + Cardinality(Flights(h)')
  <1>1. /\ Len(thread') = Len(thread) /\ Len(items') = Len(items) /\ t \in 1 .. Len(items)
        /\ \A u \in 1 .. Len(thread) : u # t =>
             thread'[u].pc = thread[u].pc /\ items'[u].state = items[u].state
        /\ \A u \in 1 .. Len(thread) : items'[u].isr = items[u].isr
        /\ thread'[t].pc = p /\ items'[t].state = s
    BY MoveFacts
  <1>2. PICK S : S = Flights(h)
    OBVIOUS
  <1>3. PICK T : T = Flights(h)'
    OBVIOUS
  <1>4. due[h] = ran[h] + Cardinality(S) /\ due[h] \in Int /\ ran[h] \in Int
    BY <1>2 DEF Inv, Once, TypeInv
  <1>5. IsFiniteSet(S)
    BY <1>2, Finite DEF Inv
  <1>6. /\ SameBut(S, T, t)
        /\ t \in T <=> h = items[t].isr /\ Flies(p, s)
        /\ t \in S <=> h = items[t].isr /\ Flies(q, r)
    BY <1>1, <1>2, <1>3 DEF Flights, SameBut
  <1>7. /\ Cardinality(S) \in Nat /\ Cardinality(T) \in Nat
        /\ Cardinality(T) = Cardinality(S) + Has(T, t) - Has(S, t)
    BY <1>5, <1>6, CardChange
  <1>8. h # items[t].isr => Has(T, t) = 0 /\ Has(S, t) = 0
    BY <1>6 DEF Has
  <1>9. h = items[t].isr => Has(T, t) = FlyBit(p, s) /\ Has(S, t) = FlyBit(q, r)
    BY <1>6 DEF Has, FlyBit
  <1>10. FlyBit(p, s) \in Int /\ FlyBit(q, r) \in Int
    BY DEF FlyBit
  <1>11. CASE h # items[t].isr
    <2>1. Cardinality(T) = Cardinality(S)
      BY <1>7, <1>8, <1>11
    <2> QED
      BY <1>3, <1>4, <1>11, <2>1
  <1>12. CASE h = items[t].isr
    <2>1. Cardinality(T) = Cardinality(S) + FlyBit(p, s) - FlyBit(q, r)
      BY <1>7, <1>9, <1>12
    <2> SUFFICES ASSUME due'[h] - ran'[h] = (due[h] - ran[h]) + (FlyBit(p, s) - FlyBit(q, r))
                 PROVE  due'[h] = ran'[h] + Cardinality(T)
      BY <1>3, <1>12
    <2> QED
      <3>1. PICK k \in Int : k = FlyBit(p, s) - FlyBit(q, r)
        BY <1>10
      <3>2. Cardinality(T) = Cardinality(S) + k
        BY <1>7, <1>10, <2>1, <3>1
      <3>3. due[h] - ran[h] = Cardinality(S)
        BY <1>4, <1>7
      <3>4. due'[h] - ran'[h] = Cardinality(S) + k
        BY <3>1, <3>3
      <3> QED
        BY <1>7, <3>2, <3>4
  <1> QED
    BY <1>11, <1>12

-----------------------------------------------------------------------------
(* A step of a handler's thread.                                           *)
HandlerStep(t, p, s) ==
    /\ Moves(t, p, s) /\ PointOK(p, s)
    /\ \/ main' = main
       \/ main = "addBlocked" /\ main' = "addWait"
       \/ main = "blocked" /\ main' = "check"
    /\ items[t].state \in {"Waiting", "Installing"} => s = items[t].state \/ s = "Waiting"
    /\ UNCHANGED <<n, scheduled, script, tranche, gap, due>>
    /\ numWaiting' \in Int
    /\ numWaiting' - tranche =
         (numWaiting - tranche)
           + (CountBit(p, s) - CountBit(thread[t].pc, items[t].state))
           - (OweBit(p, s) - OweBit(thread[t].pc, items[t].state))
    /\ ran' \in [Isrs -> Nat]
    /\ \A h \in Isrs : h # items[t].isr => ran'[h] = ran[h]
    /\ due[items[t].isr] - ran'[items[t].isr] =
         (due[items[t].isr] - ran[items[t].isr])
           + (FlyBit(p, s) - FlyBit(thread[t].pc, items[t].state))

LEMMA HandlerMove ==
    ASSUME Inv, NEW t \in 1 .. Len(thread), NEW p \in ThreadPoints, NEW s \in States,
           HandlerStep(t, p, s)
    PROVE  Inv'
  <1>0. Moves(t, p, s) /\ PointOK(p, s)
    BY DEF HandlerStep
  <1>1. /\ items' \in Seq(Item) /\ thread' \in Seq([index : Nat, pc : ThreadPoints])
        /\ Len(items') = Len(items)
        /\ \A u \in 1 .. Len(thread) : u # t => items'[u].state = items[u].state
        /\ items'[t].state = s
    BY <1>0, MoveFacts
  <1>8. Len(thread) = Len(items)
    BY DEF Inv, Aligned
  <1>2. TypeInv'
    BY <1>1 DEF Inv, TypeInv, MainPoints, HandlerStep
  <1>3. Aligned'
    BY <1>0, MoveAligned
  <1>4. ScriptOK'
    BY <1>1 DEF Inv, ScriptOK, HandlerStep
  <1>5. Calm'
    BY <1>1, <1>8 DEF Inv, Calm, HandlerStep
  <1>6. Counted'
    <2>1. /\ numWaiting' \in Int /\ tranche' \in Int
          /\ numWaiting' - tranche' = (numWaiting - tranche)
               + (CountBit(p, s) - CountBit(thread[t].pc, items[t].state))
               - (OweBit(p, s) - OweBit(thread[t].pc, items[t].state))
      BY DEF HandlerStep, Inv, TypeInv
    <2> QED
      BY <1>0, <2>1, MoveCounted
  <1>7. Once'
    <2> SUFFICES ASSUME NEW h \in Isrs PROVE due'[h] = ran'[h] + Cardinality(Flights(h)')
      BY DEF Once
    <2>1. due'[h] \in Int /\ ran'[h] \in Int /\ due'[h] = due[h]
      BY DEF Inv, TypeInv, HandlerStep
    <2>2. CASE h # items[t].isr
      <3>1. ran'[h] = ran[h]
        BY <2>2 DEF HandlerStep
      <3> QED
        BY <1>0, <2>1, <2>2, <3>1, MoveOnce
    <2>3. CASE h = items[t].isr
      <3>1. due'[h] - ran'[h] = (due[h] - ran[h])
              + (FlyBit(p, s) - FlyBit(thread[t].pc, items[t].state))
        BY <2>1, <2>3 DEF HandlerStep
      <3> QED
        BY <1>0, <2>1, <2>3, <3>1, MoveOnce
    <2> QED
      BY <2>2, <2>3
  <1> QED
    BY <1>2, <1>3, <1>4, <1>5, <1>6, <1>7 DEF Inv

(* Thread and handler of a step.                                           *)
LEMMA HandlerOf ==
    ASSUME Inv, NEW t \in 1 .. Len(thread)
    PROVE  /\ thread[t] \in [index : Nat, pc : ThreadPoints] /\ items[t] \in Item
           /\ thread[t].index = t /\ PointOK(thread[t].pc, items[t].state)
           /\ items[t].isr \in Isrs /\ items[t].state \in States
           /\ thread = [thread EXCEPT ![t].pc = thread[t].pc]
           /\ items = [items EXCEPT ![t].state = items[t].state]
           /\ due[items[t].isr] \in Nat /\ ran[items[t].isr] \in Nat
           /\ numWaiting \in Int /\ tranche \in Nat /\ t \in 1 .. Len(items)
  <1>1. /\ thread \in Seq([index : Nat, pc : ThreadPoints]) /\ items \in Seq(Item)
        /\ t \in 1 .. Len(items)
    BY DEF Inv, TypeInv, Aligned
  <1>2. thread[t] \in [index : Nat, pc : ThreadPoints] /\ items[t] \in Item
    BY <1>1, ElementOfSeq
  <1>3. thread = [thread EXCEPT ![t].pc = thread[t].pc]
    BY <1>1, <1>2
  <1>4. items = [items EXCEPT ![t].state = items[t].state]
    BY <1>1, <1>2 DEF Item
  <1> QED
    BY <1>1, <1>2, <1>3, <1>4 DEF Inv, Aligned, TypeInv, Item

LEMMA InstallInv ==
    ASSUME Inv, NEW t \in 1 .. Len(thread), Install(t) PROVE Inv'
  <1>1. /\ thread[t].index = t /\ PointOK("install", items[t].state) /\ thread[t].pc = "install"
        /\ numWaiting \in Int /\ tranche \in Nat
    BY HandlerOf DEF Install, IsAt
  <1>2. items[t].state = "Installing"
    BY <1>1 DEF PointOK
  <1>3. Moves(t, "count", "Waiting") /\ PointOK("count", "Waiting")
    BY <1>1 DEF Moves, Install, Move, PointOK
  <1>4. /\ CountBit("count", "Waiting") = 0 /\ CountBit("install", "Installing") = 0
        /\ OweBit("count", "Waiting") = 0 /\ OweBit("install", "Installing") = 0
        /\ FlyBit("count", "Waiting") = 0 /\ FlyBit("install", "Installing") = 0
    BY DEF CountBit, OweBit, FlyBit, Counts, Owes, Flies
  <1>5. HandlerStep(t, "count", "Waiting")
    BY <1>1, <1>2, <1>3, <1>4, HandlerOf DEF Install, HandlerStep, Inv, TypeInv
  <1> QED
    BY <1>5, HandlerMove DEF ThreadPoints, States

LEMMA CountWaitingInv ==
    ASSUME Inv, NEW t \in 1 .. Len(thread), CountWaiting(t) PROVE Inv'
  <1> DEFINE s == items[t].state
  <1>1. /\ PointOK("count", s) /\ thread[t].pc = "count" /\ s \in States
        /\ items = [items EXCEPT ![t].state = s]
        /\ numWaiting \in Int /\ tranche \in Nat
        /\ due[items[t].isr] \in Nat /\ ran[items[t].isr] \in Nat
    BY HandlerOf DEF CountWaiting, IsAt
  <1>2. Moves(t, "park", s) /\ PointOK("park", s)
    BY <1>1 DEF Moves, CountWaiting, Move, PointOK
  <1>3. s = "Waiting" \/ s = "Go"
    BY <1>1 DEF PointOK
  <1>4. /\ (CountBit("park", s) - CountBit("count", s)) - (OweBit("park", s) - OweBit("count", s)) = 1
        /\ CountBit("park", s) - CountBit("count", s) \in Int
        /\ OweBit("park", s) - OweBit("count", s) \in Int
        /\ FlyBit("park", s) - FlyBit("count", s) = 0
    BY <1>3 DEF CountBit, OweBit, FlyBit, Counts, Owes, Flies
  <1>5. /\ main' = main \/ (main = "addBlocked" /\ main' = "addWait")
                        \/ (main = "blocked" /\ main' = "check")
        /\ UNCHANGED <<n, scheduled, script, tranche, gap, due, ran>>
        /\ numWaiting' = numWaiting + 1
    BY DEF CountWaiting
  <1> HIDE DEF s
  <1>6. numWaiting' - tranche = (numWaiting - tranche)
          + (CountBit("park", s) - CountBit("count", s)) - (OweBit("park", s) - OweBit("count", s))
    <2>1. PICK k \in Int : k = CountBit("park", s) - CountBit("count", s)
      BY <1>4
    <2>2. PICK l \in Int : l = OweBit("park", s) - OweBit("count", s)
      BY <1>4
    <2>3. k - l = 1
      BY <1>4, <2>1, <2>2
    <2>4. numWaiting' - tranche = (numWaiting - tranche) + k - l
      BY <1>1, <1>5, <2>3
    <2> QED
      BY <2>1, <2>2, <2>4
  <1>7. due[items[t].isr] - ran[items[t].isr] = (due[items[t].isr] - ran[items[t].isr])
          + (FlyBit("park", s) - FlyBit("count", s))
    BY <1>1, <1>4
  <1>8. ran \in [Isrs -> Nat]
    BY DEF Inv, TypeInv
  <1>9. HandlerStep(t, "park", s)
    <2>1. /\ Moves(t, "park", s) /\ PointOK("park", s)
          /\ \/ main' = main
             \/ main = "addBlocked" /\ main' = "addWait"
             \/ main = "blocked" /\ main' = "check"
          /\ UNCHANGED <<n, scheduled, script, tranche, gap, due>>
      BY <1>2, <1>5
    <2>2. numWaiting' \in Int
      BY <1>1, <1>5
    <2>3. /\ ran' \in [Isrs -> Nat]
          /\ \A h \in Isrs : h # items[t].isr => ran'[h] = ran[h]
      BY <1>5, <1>8
    <2>4. items[t].state \in {"Waiting", "Installing"} => s = items[t].state \/ s = "Waiting"
      BY DEF s
    <2>5. items[t].state = s /\ thread[t].pc = "count" /\ ran' = ran
      BY <1>1, <1>5 DEF s
    <2> QED
      BY <1>6, <1>7, <2>1, <2>2, <2>3, <2>4, <2>5 DEF HandlerStep
  <1> QED
    BY <1>1, <1>9, HandlerMove DEF ThreadPoints

LEMMA ParkInv ==
    ASSUME Inv, NEW t \in 1 .. Len(thread), Park(t) PROVE Inv'
  <1> DEFINE s == items[t].state
  <1>1. /\ PointOK("park", s) /\ thread[t].pc = "park" /\ s \in States
        /\ items = [items EXCEPT ![t].state = s] /\ thread[t].index = t
        /\ numWaiting \in Int /\ tranche \in Nat
        /\ due[items[t].isr] \in Nat /\ ran[items[t].isr] \in Nat
    BY HandlerOf DEF Park, IsAt
  <1>2. PICK p \in {"parked", "go"} :
          Moves(t, p, s) /\ PointOK(p, s) /\ (p = "parked" <=> s = "Waiting")
    <2>1. /\ s = "Waiting" => PointOK("parked", s)
          /\ s # "Waiting" => PointOK("go", s)
      BY <1>1 DEF PointOK
    <2> QED
      BY <1>1, <2>1 DEF Moves, Park, Move, StateOf
  <1>3. s = "Waiting" \/ s = "Go"
    BY <1>1 DEF PointOK
  <1>4. /\ CountBit(p, s) - CountBit("park", s) = 0
        /\ OweBit(p, s) - OweBit("park", s) = 0
        /\ FlyBit(p, s) - FlyBit("park", s) = 0
    BY <1>2, <1>3 DEF CountBit, OweBit, FlyBit, Counts, Owes, Flies
  <1>5. UNCHANGED <<n, numWaiting, scheduled, script, main, tranche, gap, due, ran>>
    BY DEF Park
  <1>6. ran \in [Isrs -> Nat]
    BY DEF Inv, TypeInv
  <1> HIDE DEF s
  <1>7. HandlerStep(t, p, s)
    <2>1. items[t].state = s /\ thread[t].pc = "park"
      BY <1>1 DEF s
    <2> QED
      BY <1>1, <1>2, <1>4, <1>5, <1>6, <2>1 DEF HandlerStep
  <1>8. p \in ThreadPoints
    BY DEF ThreadPoints
  <1> QED
    BY <1>1, <1>7, <1>8, HandlerMove

LEMMA StartIsrInv ==
    ASSUME Inv, NEW t \in 1 .. Len(thread), StartIsr(t) PROVE Inv'
  <1>1. /\ thread[t].index = t /\ PointOK("go", items[t].state) /\ thread[t].pc = "go"
        /\ numWaiting \in Int /\ tranche \in Nat
    BY HandlerOf DEF StartIsr, IsAt
  <1>2. items[t].state = "Go"
    BY <1>1 DEF PointOK
  <1>3. Moves(t, "isr", "Running") /\ PointOK("isr", "Running")
    BY <1>1, <1>2 DEF Moves, StartIsr, Move, PointOK, StateOf
  <1>4. /\ CountBit("isr", "Running") = 0 /\ CountBit("go", "Go") = 0
        /\ OweBit("isr", "Running") = 0 /\ OweBit("go", "Go") = 0
        /\ FlyBit("isr", "Running") = 1 /\ FlyBit("go", "Go") = 1
    BY DEF CountBit, OweBit, FlyBit, Counts, Owes, Flies
  <1>5. HandlerStep(t, "isr", "Running")
    BY <1>1, <1>2, <1>3, <1>4, HandlerOf DEF StartIsr, HandlerStep, Inv, TypeInv
  <1> QED
    BY <1>5, HandlerMove DEF ThreadPoints, States

LEMMA RunIsrInv ==
    ASSUME Inv, NEW t \in 1 .. Len(thread), RunIsr(t) PROVE Inv'
  <1> DEFINE h == items[t].isr
  <1>1. /\ PointOK("isr", items[t].state) /\ thread[t].pc = "isr" /\ thread[t].index = t
        /\ items = [items EXCEPT ![t].state = items[t].state]
        /\ numWaiting \in Int /\ tranche \in Nat /\ h \in Isrs
        /\ due[h] \in Nat /\ ran[h] \in Nat
    BY HandlerOf DEF RunIsr, IsAt
  <1>2. items[t].state = "Running"
    BY <1>1 DEF PointOK
  <1>3. Moves(t, "done", "Running") /\ PointOK("done", "Running")
    BY <1>1, <1>2 DEF Moves, RunIsr, Move, PointOK
  <1>4. /\ CountBit("done", "Running") = 0 /\ CountBit("isr", "Running") = 0
        /\ OweBit("done", "Running") = 0 /\ OweBit("isr", "Running") = 0
        /\ FlyBit("done", "Running") = 0 /\ FlyBit("isr", "Running") = 1
    BY DEF CountBit, OweBit, FlyBit, Counts, Owes, Flies
  <1>5. /\ ran' = [ran EXCEPT ![h] = @ + 1] /\ ran \in [Isrs -> Nat]
        /\ UNCHANGED <<n, numWaiting, scheduled, script, main, tranche, gap, due>>
    BY <1>1 DEF RunIsr, Inv, TypeInv
  <1>6. /\ ran' \in [Isrs -> Nat] /\ ran'[h] = ran[h] + 1
        /\ \A k \in Isrs : k # h => ran'[k] = ran[k]
    BY <1>1, <1>5
  <1>7. due[h] - ran'[h] = (due[h] - ran[h]) + (0 - 1)
    BY <1>1, <1>6
  <1>8. HandlerStep(t, "done", "Running")
    BY <1>1, <1>2, <1>3, <1>4, <1>5, <1>6, <1>7 DEF HandlerStep
  <1> QED
    BY <1>8, HandlerMove DEF ThreadPoints, States

LEMMA IsrDoneInv ==
    ASSUME Inv, NEW t \in 1 .. Len(thread), IsrDone(t) PROVE Inv'
  <1>1. /\ thread[t].index = t /\ PointOK("done", items[t].state) /\ thread[t].pc = "done"
        /\ numWaiting \in Int /\ tranche \in Nat
    BY HandlerOf DEF IsrDone, IsAt
  <1>2. items[t].state = "Running"
    BY <1>1 DEF PointOK
  <1>3. Moves(t, "count", "Waiting") /\ PointOK("count", "Waiting")
    BY <1>1 DEF Moves, IsrDone, Move, PointOK
  <1>4. /\ CountBit("count", "Waiting") = 0 /\ CountBit("done", "Running") = 0
        /\ OweBit("count", "Waiting") = 0 /\ OweBit("done", "Running") = 0
        /\ FlyBit("count", "Waiting") = 0 /\ FlyBit("done", "Running") = 0
    BY DEF CountBit, OweBit, FlyBit, Counts, Owes, Flies
  <1>5. HandlerStep(t, "count", "Waiting")
    BY <1>1, <1>2, <1>3, <1>4, HandlerOf DEF IsrDone, HandlerStep, Inv, TypeInv
  <1> QED
    BY <1>5, HandlerMove DEF ThreadPoints, States

-----------------------------------------------------------------------------
(* Steps of the main thread that leave threads and handlers alone.         *)
LEMMA MainFrame ==
    ASSUME Inv, UNCHANGED <<items, thread, due, ran>>,
           numWaiting' - tranche' = numWaiting - tranche
    PROVE  Aligned' /\ Counted' /\ Once'
  BY DEF Inv, Aligned, Counted, Once, Counting, Owing, Flights

(* A call takes the first of the script's calls, which is no remove while  *)
(* something else is left to do.                                           *)
LEMMA CallFacts ==
    ASSUME Inv, NEW op, Calling(op)
    PROVE  /\ script' \in ScriptCalls /\ RemovesLast(script') /\ Head(script).op = op
           /\ Head(script) \in [op : {"add", "interrupt", "remove", "sync"}, id : Ids, isr : Isrs]
           /\ main = "call" /\ tranche = 0
           /\ op = "remove" => OnlyRemoves(script')
           /\ op # "remove" => n = Len(items)
           /\ \A i \in 1 .. Len(items) : items[i].state = "Waiting"
           /\ OnlyRemoves(script) => OnlyRemoves(script')
  <1> DEFINE Call == [op : {"add", "interrupt", "remove", "sync"}, id : Ids, isr : Isrs]
  <1>1. /\ main = "call" /\ script # <<>> /\ Head(script).op = op /\ script' = Tail(script)
        /\ script \in Seq(Call) /\ RemovesLast(script)
        /\ n # Len(items) => OnlyRemoves(script)
    BY DEF Calling, Inv, TypeInv, ScriptOK, ScriptCalls
  <1>2. /\ tranche = 0 /\ \A i \in 1 .. Len(items) : items[i].state = "Waiting"
    BY <1>1 DEF Inv, Calm
  <1> HIDE DEF Call
  <1>3. /\ Head(script) \in Call /\ script' \in Seq(Call) /\ Len(script) \in Nat
        /\ Len(script') = Len(script) - 1
        /\ \A i \in 1 .. Len(script') : script'[i] = script[i + 1]
        /\ DOMAIN script = 1 .. Len(script) /\ DOMAIN script' = 1 .. Len(script')
        /\ 1 \in DOMAIN script /\ Head(script) = script[1]
    BY <1>1, HeadTailProperties, LenProperties, EmptySeq
  <1>4. RemovesLast(script')
    BY <1>1, <1>3 DEF RemovesLast
  <1>5. op = "remove" => OnlyRemoves(script')
    <2> SUFFICES ASSUME op = "remove", NEW i \in DOMAIN script' PROVE script'[i].op = "remove"
      BY DEF OnlyRemoves
    <2>1. i + 1 \in DOMAIN script /\ 1 < i + 1 /\ script'[i] = script[i + 1] /\ script[1].op = "remove"
      BY <1>1, <1>3
    <2> QED
      BY <1>1, <1>3, <2>1 DEF RemovesLast
  <1>6. op # "remove" => n = Len(items)
    BY <1>1, <1>3 DEF OnlyRemoves
  <1>7. OnlyRemoves(script) => OnlyRemoves(script')
    BY <1>3 DEF OnlyRemoves
  <1> QED
    BY <1>1, <1>2, <1>3, <1>4, <1>5, <1>6, <1>7 DEF Call, ScriptCalls

LEMMA AddWaitInv ==
    ASSUME Inv, AddWait PROVE Inv'
  <1>1. UNCHANGED <<items, n, numWaiting, scheduled, thread, script, tranche, due, ran>>
        /\ main = "addWait" /\ main' \in {"addBlocked", "call"}
    BY DEF AddWait
  <1>2. n = Len(items) /\ tranche = 0
    BY <1>1 DEF Inv, ScriptOK, Calm
  <1>3. main' = "call" => \A i \in 1 .. Len(items) : items[i].state = "Waiting"
    BY <1>2 DEF AddWait, Live, Inv, Calm
  <1>4. TypeInv' /\ ScriptOK'
    BY <1>1, <1>2 DEF Inv, TypeInv, ScriptOK, MainPoints
  <1>5. Calm'
    BY <1>1, <1>2, <1>3 DEF Inv, Calm
  <1> QED
    BY <1>1, <1>4, <1>5, MainFrame DEF Inv

LEMMA TriggerInterruptInv ==
    ASSUME Inv, TriggerInterrupt PROVE Inv'
  <1>1. /\ UNCHANGED <<items, n, numWaiting, thread, main, tranche, due, ran>>
        /\ scheduled' = Append(scheduled, Head(script).id) /\ Calling("interrupt")
    BY DEF TriggerInterrupt
  <1>2. /\ script' \in ScriptCalls /\ RemovesLast(script') /\ Head(script).id \in Ids
        /\ main = "call" /\ n = Len(items)
    BY <1>1, CallFacts
  <1>3. scheduled' \in Seq(Ids)
    BY <1>1, <1>2 DEF Inv, TypeInv
  <1>4. TypeInv' /\ ScriptOK' /\ Calm'
    BY <1>1, <1>2, <1>3 DEF Inv, TypeInv, ScriptOK, Calm
  <1> QED
    BY <1>1, <1>4, MainFrame DEF Inv

LEMMA RemoveHandlerInv ==
    ASSUME Inv, RemoveHandler PROVE Inv'
  <1>1. /\ UNCHANGED <<items, n, numWaiting, scheduled, thread, tranche, due, ran>>
        /\ Calling("remove")
    BY DEF RemoveHandler
  <1>2. /\ script' \in ScriptCalls /\ RemovesLast(script') /\ OnlyRemoves(script')
        /\ main = "call"
    BY <1>1, CallFacts
  <1>3. main' = "call" \/ (main' = "close" /\ gap' \in 1 .. n)
    BY <1>2 DEF RemoveHandler, Registered, Live
  <1>4. TypeInv'
    BY <1>1, <1>2, <1>3 DEF Inv, TypeInv, MainPoints
  <1>5. ScriptOK'
    BY <1>1, <1>2, <1>3 DEF Inv, ScriptOK
  <1>6. Calm'
    BY <1>1, <1>2, <1>3 DEF Inv, Calm
  <1> QED
    BY <1>1, <1>4, <1>5, <1>6, MainFrame DEF Inv

(* Nothing is expected in the usual use, so there is no gap to close.      *)
LEMMA RemoveShiftInv ==
    ASSUME Inv, expected = 0, RemoveShift PROVE Inv'
  <1>1. gap \in 1 .. n /\ gap < 0 /\ n \in Nat
    BY DEF Inv, TypeInv, ScriptOK, RemoveShift
  <1> QED
    BY <1>1

LEMMA RemoveEndInv ==
    ASSUME Inv, RemoveEnd PROVE Inv'
  <1>1. /\ UNCHANGED <<items, numWaiting, scheduled, thread, script, tranche, due, ran>>
        /\ main = "close" /\ main' = "call" /\ n' = n - 1
    BY DEF RemoveEnd
  <1>2. /\ gap \in 1 .. n /\ OnlyRemoves(script) /\ n \in Nat /\ n <= Len(items) /\ Len(items) \in Nat
        /\ tranche = 0 /\ \A i \in 1 .. Len(items) : items[i].state = "Waiting"
    BY <1>1 DEF Inv, TypeInv, ScriptOK, Calm
  <1>3. n' \in Nat /\ n' <= Len(items)
    BY <1>1, <1>2
  <1>4. TypeInv' /\ ScriptOK' /\ Calm'
    BY <1>1, <1>2, <1>3 DEF Inv, TypeInv, ScriptOK, Calm, MainPoints
  <1> QED
    BY <1>1, <1>4, MainFrame DEF Inv

LEMMA SyncCallInv ==
    ASSUME Inv, SyncCall PROVE Inv'
  <1>1. /\ UNCHANGED <<items, n, numWaiting, scheduled, thread, due, ran>>
        /\ main' = "pick" /\ tranche' = 0 /\ Calling("sync")
    BY DEF SyncCall
  <1>2. /\ script' \in ScriptCalls /\ RemovesLast(script') /\ tranche = 0 /\ n = Len(items)
        /\ \A i \in 1 .. Len(items) : items[i].state = "Waiting"
    BY <1>1, CallFacts
  <1>3. TypeInv' /\ ScriptOK' /\ Calm'
    BY <1>1, <1>2 DEF Inv, TypeInv, ScriptOK, Calm, MainPoints
  <1> QED
    BY <1>1, <1>2, <1>3, MainFrame DEF Inv

LEMMA SyncReturnInv ==
    ASSUME Inv, SyncReturn PROVE Inv'
  <1>1. /\ UNCHANGED <<items, n, numWaiting, scheduled, thread, script, tranche, due, ran>>
        /\ main = "pick" /\ scheduled = <<>> /\ main' = "call"
    BY DEF SyncReturn
  <1>2. TypeInv' /\ ScriptOK' /\ Calm'
    BY <1>1 DEF Inv, TypeInv, ScriptOK, Calm, MainPoints
  <1> QED
    BY <1>1, <1>2, MainFrame DEF Inv

(* With every handler counted and no pick outstanding, all of them wait.   *)
LEMMA AllWaiting ==
    ASSUME Inv, numWaiting - tranche = Len(items)
    PROVE  \A i \in 1 .. Len(items) : items[i].state = "Waiting"
  <1>1. /\ Len(thread) \in Nat /\ IsFiniteSet(1 .. Len(thread))
        /\ Cardinality(1 .. Len(thread)) = Len(thread)
        /\ Cardinality(Counting) \in Nat /\ Cardinality(Owing) \in Nat
    BY Finite DEF Inv
  <1>2. Len(thread) = Len(items) /\ Len(items) = Cardinality(Counting) - Cardinality(Owing)
    BY DEF Inv, Aligned, Counted
  <1>3. Counting \in SUBSET (1 .. Len(thread))
    BY DEF Counting
  <1>4. /\ Cardinality(Counting) <= Cardinality(1 .. Len(thread))
        /\ Cardinality(1 .. Len(thread)) = Cardinality(Counting) => 1 .. Len(thread) = Counting
    BY <1>1, <1>3, FS_Subset
  <1>5. Cardinality(1 .. Len(thread)) = Cardinality(Counting)
    <2>1. PICK c \in Nat, o \in Nat, l \in Nat :
            c = Cardinality(Counting) /\ o = Cardinality(Owing) /\ l = Len(thread)
      BY <1>1
    <2>2. l = c - o /\ c <= l
      BY <1>1, <1>2, <1>4, <2>1
    <2>3. c = l
      BY <2>2
    <2> QED
      BY <1>1, <2>1, <2>3
  <1>6. \A i \in 1 .. Len(items) : i \in Counting
    BY <1>2, <1>4, <1>5
  <1> QED
    BY <1>6 DEF Counting, Counts

LEMMA SyncCheckInv ==
    ASSUME Inv, SyncCheck PROVE Inv'
  <1>1. /\ UNCHANGED <<items, n, numWaiting, scheduled, thread, script, tranche, due, ran>>
        /\ main = "check" /\ main' = IF numWaiting = n THEN "pick" ELSE "blocked"
    BY DEF SyncCheck
  <1>2. tranche = 0 /\ n = Len(items) /\ numWaiting \in Int
    BY <1>1 DEF Inv, ScriptOK, Calm, TypeInv
  <1>3. main' = "pick" => \A i \in 1 .. Len(items) : items[i].state = "Waiting"
    BY <1>1, <1>2, AllWaiting
  <1>4. TypeInv' /\ ScriptOK'
    BY <1>1, <1>2 DEF Inv, TypeInv, ScriptOK, MainPoints
  <1>5. Calm'
    BY <1>1, <1>2, <1>3 DEF Calm
  <1> QED
    BY <1>1, <1>4, <1>5, MainFrame DEF Inv

LEMMA SyncTriggerInv ==
    ASSUME Inv, SyncTrigger PROVE Inv'
  <1>1. /\ UNCHANGED <<items, n, scheduled, script, due, ran>> /\ main = "trigger"
        /\ n = Len(items) /\ numWaiting \in Int /\ tranche \in Nat
    BY DEF SyncTrigger, Inv, ScriptOK, TypeInv
  <1>2. CASE numWaiting # n
    <2>1. UNCHANGED <<numWaiting, thread, tranche>> /\ main' = "aborted"
      BY <1>2 DEF SyncTrigger
    <2>2. TypeInv' /\ ScriptOK' /\ Calm'
      BY <1>1, <2>1 DEF Inv, TypeInv, ScriptOK, Calm, MainPoints
    <2> QED
      BY <1>1, <2>1, <2>2, MainFrame DEF Inv
  <1>3. CASE numWaiting = n
    <2>1. /\ numWaiting' = numWaiting - tranche /\ tranche' = 0 /\ thread' = Awake
          /\ main' = IF numWaiting' = n THEN "pick" ELSE "blocked"
      BY <1>3 DEF SyncTrigger
    <2>2. thread \in Seq([index : Nat, pc : ThreadPoints]) /\ Len(thread) \in Nat
          /\ DOMAIN thread = 1 .. Len(thread)
      BY DEF Inv, TypeInv
    <2>3. ASSUME NEW u \in 1 .. Len(thread)
          PROVE  /\ thread[u] \in [index : Nat, pc : ThreadPoints]
                 /\ thread'[u] \in [index : Nat, pc : ThreadPoints]
                 /\ thread'[u].index = thread[u].index
                 /\ IF thread[u].pc = "parked" THEN thread'[u].pc = "park"
                                               ELSE thread'[u].pc = thread[u].pc
      <3>1. thread[u] \in [index : Nat, pc : ThreadPoints]
        BY <2>2, ElementOfSeq
      <3>2. thread'[u] = IF thread[u].pc = "parked" THEN [thread[u] EXCEPT !.pc = "park"] ELSE thread[u]
        BY <2>1, <2>2 DEF Awake, IsAt
      <3> QED
        BY <3>1, <3>2 DEF ThreadPoints
    <2>4. thread' \in Seq([index : Nat, pc : ThreadPoints]) /\ Len(thread') = Len(thread)
      <3>1. thread' = [u \in 1 .. Len(thread) |->
              IF IsAt(u, "parked") THEN [thread[u] EXCEPT !.pc = "park"] ELSE thread[u]]
        BY <2>1, <2>2 DEF Awake
      <3>2. thread' \in [1 .. Len(thread) -> [index : Nat, pc : ThreadPoints]]
        BY <2>3, <3>1
      <3> QED
        BY <2>2, <3>2, IsASeq
    <2>5. main' = "pick" => \A i \in 1 .. Len(items) : items[i].state = "Waiting"
      BY <1>1, <1>3, <2>1, AllWaiting
    <2>6. TypeInv'
      <3>1. numWaiting' \in Int /\ main' \in MainPoints
        BY <1>1, <2>1 DEF MainPoints
      <3> QED
        BY <1>1, <2>1, <2>4, <3>1 DEF Inv, TypeInv
    <2>7. Aligned'
      <3> SUFFICES ASSUME NEW u \in 1 .. Len(thread)
                   PROVE  thread'[u].index = u /\ PointOK(thread'[u].pc, items[u].state)
        BY <1>1, <2>4 DEF Inv, Aligned
      <3>1. thread[u].index = u /\ PointOK(thread[u].pc, items[u].state)
        BY DEF Inv, Aligned
      <3> QED
        BY <2>3, <3>1 DEF PointOK
    <2>8. ScriptOK' /\ Calm'
      BY <1>1, <2>1, <2>5 DEF Inv, ScriptOK, Calm
    <2>9. ASSUME NEW u \in 1 .. Len(thread)
          PROVE  /\ Counts(thread'[u].pc, items[u].state) <=> Counts(thread[u].pc, items[u].state)
                 /\ Owes(thread'[u].pc, items[u].state) <=> Owes(thread[u].pc, items[u].state)
                 /\ Flies(thread'[u].pc, items[u].state) <=> Flies(thread[u].pc, items[u].state)
      BY <2>3 DEF Counts, Owes, Flies
    <2>10. Counting' = Counting /\ Owing' = Owing
      BY <1>1, <2>4, <2>9 DEF Counting, Owing
    <2>11. Counted'
      BY <1>1, <2>1, <2>10 DEF Inv, Counted
    <2>12. \A h \in Isrs : Flights(h)' = Flights(h)
      BY <1>1, <2>4, <2>9 DEF Flights
    <2>13. Once'
      BY <1>1, <2>12 DEF Inv, Once
    <2> QED
      BY <2>6, <2>7, <2>8, <2>11, <2>13 DEF Inv
  <1> QED
    BY <1>2, <1>3

LEMMA SyncPickInv ==
    ASSUME Inv, SyncPick PROVE Inv'
  <1>1. PICK i \in Picked :
          IF items[i].state = "Waiting"
            THEN /\ items' = [items EXCEPT ![i].state = "Go"]
                 /\ due' = [due EXCEPT ![items[i].isr] = @ + 1]
                 /\ tranche' = tranche + 1
                 /\ scheduled' = Tail(scheduled)
                 /\ main' = IF Len(scheduled) = 1 THEN "trigger" ELSE "pick"
            ELSE /\ main' = "trigger"
                 /\ UNCHANGED <<items, due, tranche, scheduled>>
    BY DEF SyncPick
  <1>2. /\ UNCHANGED <<n, numWaiting, thread, script, ran>> /\ main = "pick" /\ scheduled # <<>>
        /\ n = Len(items) /\ Len(thread) = Len(items)
        /\ numWaiting \in Int /\ tranche \in Nat /\ scheduled \in Seq(Ids)
    BY DEF SyncPick, Inv, TypeInv, ScriptOK, Aligned
  <1>3. CASE items[i].state # "Waiting"
    <2>1. main' = "trigger" /\ UNCHANGED <<items, due, tranche, scheduled>>
      BY <1>1, <1>3
    <2>2. TypeInv' /\ ScriptOK' /\ Calm'
      BY <1>2, <2>1 DEF Inv, TypeInv, ScriptOK, Calm, MainPoints
    <2> QED
      BY <1>2, <2>1, <2>2, MainFrame DEF Inv
  <1>4. CASE items[i].state = "Waiting"
    <2>1. /\ items' = [items EXCEPT ![i].state = "Go"]
          /\ due' = [due EXCEPT ![items[i].isr] = @ + 1]
          /\ tranche' = tranche + 1
          /\ scheduled' = Tail(scheduled)
          /\ main' = IF Len(scheduled) = 1 THEN "trigger" ELSE "pick"
      BY <1>1, <1>4
    <2>2. i \in 1 .. Len(thread)
      BY <1>2 DEF Picked, Live
    <2>3. PICK q \in ThreadPoints : q = thread[i].pc
      BY <2>2, HandlerOf
    <2>4. /\ thread = [thread EXCEPT ![i].pc = q] /\ PointOK(q, "Waiting")
      BY <1>4, <2>2, <2>3, HandlerOf
    <2>5. PICK h \in Isrs : h = items[i].isr
      BY <2>2, HandlerOf
    <2>6. Moves(i, q, "Go")
      BY <1>2, <2>1, <2>4 DEF Moves
    <2>7. q \in {"count", "park", "parked"}
      BY <2>4 DEF PointOK, ThreadPoints
    <2>8. PointOK(q, "Go") /\ "Go" \in States
      BY <2>7 DEF PointOK, States
    <2>9. /\ (CountBit(q, "Go") - CountBit(q, "Waiting")) - (OweBit(q, "Go") - OweBit(q, "Waiting")) = 0 - 1
          /\ CountBit(q, "Go") - CountBit(q, "Waiting") \in Int
          /\ OweBit(q, "Go") - OweBit(q, "Waiting") \in Int
          /\ FlyBit(q, "Go") - FlyBit(q, "Waiting") = 1
      BY <2>7 DEF CountBit, OweBit, FlyBit, Counts, Owes, Flies
    <2>10. /\ items' \in Seq(Item) /\ Len(items') = Len(items)
      BY <2>2, <2>6, <2>8, MoveFacts
    <2>11. /\ scheduled' \in Seq(Ids) /\ Len(scheduled) \in Nat
           /\ main' = "pick" => scheduled' # <<>>
      <3>1. scheduled' \in Seq(Ids) /\ Len(scheduled) \in Nat /\ Len(scheduled') = Len(scheduled) - 1
        BY <1>2, <2>1, HeadTailProperties
      <3>2. main' = "pick" => Len(scheduled') # 0
        BY <2>1, <3>1
      <3> QED
        BY <3>1, <3>2, EmptySeq
    <2>12. /\ due \in [Isrs -> Nat] /\ ran \in [Isrs -> Nat] /\ due' \in [Isrs -> Nat]
           /\ due'[h] = due[h] + 1 /\ \A g \in Isrs : g # h => due'[g] = due[g]
      <3>1. due \in [Isrs -> Nat] /\ ran \in [Isrs -> Nat]
        BY DEF Inv, TypeInv
      <3> QED
        BY <2>1, <2>5, <3>1
    <2>13. TypeInv'
      <3>1. main' \in MainPoints /\ tranche' \in Nat
        BY <1>2, <2>1 DEF MainPoints
      <3> QED
        BY <1>2, <2>10, <2>11, <2>12, <3>1 DEF Inv, TypeInv
    <2>14. Aligned'
      BY <2>2, <2>6, <2>8, MoveAligned
    <2>15. ScriptOK'
      BY <1>2, <2>1, <2>10 DEF Inv, ScriptOK
    <2>16. Calm'
      <3>1. main' \in {"trigger", "pick"} /\ tranche' # 0
        BY <1>2, <2>1
      <3> QED
        BY <2>11, <3>1 DEF Calm
    <2>17. Counted'
      <3>1. PICK k \in Int : k = CountBit(q, "Go") - CountBit(q, "Waiting")
        BY <2>9
      <3>2. PICK l \in Int : l = OweBit(q, "Go") - OweBit(q, "Waiting")
        BY <2>9
      <3>3. k - l = 0 - 1
        BY <2>9, <3>1, <3>2
      <3>4. numWaiting' - tranche' = (numWaiting - tranche) + k - l
        <4>1. numWaiting' = numWaiting /\ tranche' = tranche + 1
          BY <1>2, <2>1
        <4>2. PICK w \in Int, r \in Int : w = numWaiting /\ r = tranche
          BY <1>2
        <4>3. w - (r + 1) = (w - r) + k - l
          BY <3>3
        <4> QED
          BY <4>1, <4>2, <4>3
      <3>5. numWaiting' - tranche' = (numWaiting - tranche)
              + (CountBit(q, "Go") - CountBit(q, "Waiting")) - (OweBit(q, "Go") - OweBit(q, "Waiting"))
        BY <3>1, <3>2, <3>4
      <3>6. numWaiting' \in Int /\ tranche' \in Int
        BY <1>2, <2>1
      <3> QED
        BY <1>4, <2>2, <2>3, <2>6, <2>8, <3>5, <3>6, MoveCounted
    <2>18. Once'
      <3> SUFFICES ASSUME NEW g \in Isrs PROVE due'[g] = ran'[g] + Cardinality(Flights(g)')
        BY DEF Once
      <3>1. due'[g] \in Int /\ ran'[g] \in Int /\ ran'[g] = ran[g] /\ ran[g] \in Int /\ due[g] \in Int
        BY <1>2, <2>12
      <3>2. CASE g # h
        BY <2>2, <2>3, <2>5, <2>6, <2>8, <2>12, <3>1, <3>2, MoveOnce
      <3>3. CASE g = h
        <4>1. PICK k \in Int : k = FlyBit(q, "Go") - FlyBit(q, "Waiting")
          BY <2>9
        <4>2. due'[g] - ran'[g] = (due[g] - ran[g]) + k
          BY <2>9, <2>12, <3>1, <3>3, <4>1
        <4>3. due'[g] - ran'[g] = (due[g] - ran[g]) + (FlyBit(q, "Go") - FlyBit(q, "Waiting"))
          BY <4>1, <4>2
        <4>4. g = items[i].isr /\ "Waiting" = items[i].state
          BY <1>4, <2>5, <3>3
        <4>5. /\ due'[g] \in Int /\ ran'[g] \in Int
          BY <3>1
        <4> QED
          BY <2>2, <2>3, <2>6, <2>8, <4>3, <4>4, <4>5, MoveOnce
      <3> QED
        BY <3>2, <3>3
    <2> QED
      BY <2>13, <2>14, <2>15, <2>16, <2>17, <2>18 DEF Inv
  <1> QED
    BY <1>3, <1>4

LEMMA AddHandlerInv ==
    ASSUME Inv, AddHandler PROVE Inv'
  <1> DEFINE c == Head(script)
             new == [id |-> c.id, isr |-> c.isr, state |-> "Installing"]
             point == [index |-> n + 1, pc |-> "install"]
             Point == [index : Nat, pc : ThreadPoints]
  <1>1. /\ UNCHANGED <<numWaiting, scheduled, tranche, due, ran>>
        /\ main' = "addWait" /\ Calling("add")
    BY DEF AddHandler
  <1>2. /\ script' \in ScriptCalls /\ RemovesLast(script') /\ tranche = 0 /\ n = Len(items)
        /\ c \in [op : {"add", "interrupt", "remove", "sync"}, id : Ids, isr : Isrs]
        /\ \A i \in 1 .. Len(items) : items[i].state = "Waiting"
    BY <1>1, CallFacts
  <1>3. CASE UNCHANGED <<items, n, thread>>
    <2>1. TypeInv' /\ ScriptOK' /\ Calm'
      BY <1>1, <1>2, <1>3 DEF Inv, TypeInv, ScriptOK, Calm, MainPoints
    <2> QED
      BY <1>1, <1>3, <2>1, MainFrame DEF Inv
  <1>4. CASE /\ items' = Append(items, new) /\ n' = n + 1
             /\ thread' = Append(thread, point)
    <2>1. /\ items \in Seq(Item) /\ thread \in Seq(Point) /\ Len(items) \in Nat
          /\ Len(thread) = Len(items) /\ n \in Nat
      BY DEF Inv, TypeInv, Aligned
    <2>2. new \in Item /\ point \in Point
      BY <1>2, <2>1 DEF Item, States, ThreadPoints
    <2>3. new.state = "Installing" /\ point.index = n + 1 /\ point.pc = "install"
      OBVIOUS
    <2>4. PICK m \in Nat : m = Len(items)
      BY <2>1
    <2> HIDE DEF new, point, Point
    <2>5. /\ items' \in Seq(Item) /\ Len(items') = m + 1
          /\ \A i \in 1 .. m : items'[i] = items[i]
          /\ items'[m + 1] = new
      BY <1>4, <2>1, <2>2, <2>4, AppendProperties
    <2>6. /\ thread' \in Seq(Point) /\ Len(thread') = m + 1
          /\ \A i \in 1 .. m : thread'[i] = thread[i]
          /\ thread'[m + 1] = point
      BY <1>4, <2>1, <2>2, <2>4, AppendProperties
    <2>7. \A i \in 1 .. m + 1 : i \in 1 .. m \/ i = m + 1
      OBVIOUS
    <2>8. TypeInv'
      BY <1>1, <1>2, <1>4, <2>1, <2>5, <2>6 DEF Inv, TypeInv, MainPoints, Point
    <2>9. Aligned'
      <3> SUFFICES ASSUME NEW t \in 1 .. m + 1
                   PROVE  thread'[t].index = t /\ PointOK(thread'[t].pc, items'[t].state)
        BY <2>5, <2>6 DEF Aligned
      <3>1. CASE t \in 1 .. m
        BY <2>1, <2>4, <2>5, <2>6, <3>1 DEF Inv, Aligned
      <3>2. CASE t = m + 1
        BY <1>2, <2>3, <2>4, <2>5, <2>6, <3>2 DEF PointOK
      <3> QED
        BY <2>7, <3>1, <3>2
    <2>10. ScriptOK'
      <3>1. n' = Len(items') /\ n' \in Nat
        BY <1>2, <1>4, <2>1, <2>4, <2>5
      <3> QED
        BY <1>1, <1>2, <3>1 DEF ScriptOK
    <2>11. Calm'
      <3>1. \A i \in 1 .. m + 1 : items'[i].state \in {"Waiting", "Installing"}
        BY <1>2, <2>3, <2>4, <2>5, <2>7
      <3> QED
        BY <1>1, <1>2, <2>5, <3>1 DEF Calm
    <2>12. /\ ~Counts("install", "Installing") /\ ~Owes("install", "Installing")
           /\ ~Flies("install", "Installing")
      BY DEF Counts, Owes, Flies
    <2>13. /\ thread'[m + 1].pc = "install" /\ items'[m + 1].state = "Installing"
           /\ m + 1 \notin 1 .. m /\ 1 .. Len(thread') = 1 .. m + 1 /\ 1 .. Len(thread) = 1 .. m
           /\ \A i \in 1 .. m : i \in 1 .. m + 1
      BY <2>1, <2>3, <2>4, <2>5, <2>6
    <2>14. Counting' = Counting
      BY <2>5, <2>6, <2>7, <2>12, <2>13 DEF Counting
    <2>15. Owing' = Owing
      BY <2>5, <2>6, <2>7, <2>12, <2>13 DEF Owing
    <2>16. \A h \in Isrs : Flights(h)' = Flights(h)
      BY <2>5, <2>6, <2>7, <2>12, <2>13 DEF Flights
    <2>17. Counted' /\ Once'
      BY <1>1, <2>14, <2>15, <2>16 DEF Inv, Counted, Once
    <2> QED
      BY <2>8, <2>9, <2>10, <2>11, <2>17 DEF Inv
  <1>5. n \in Nat /\ ~(n < Len(items))
    BY <1>2 DEF Inv, TypeInv
  <1> QED
    BY <1>3, <1>4, <1>5 DEF AddHandler

-----------------------------------------------------------------------------
LEMMA InitInv ==
    ASSUME UsualUse, Init PROVE Inv /\ expected = 0
  <1>1. /\ items = <<>> /\ n = 0 /\ numWaiting = 0 /\ scheduled = <<>> /\ thread = <<>>
        /\ main = "call" /\ tranche = 0 /\ Len(items) = 0 /\ Len(thread) = 0
        /\ due = [i \in Isrs |-> 0] /\ ran = [i \in Isrs |-> 0]
        /\ script \in ScriptCalls /\ RemovesLast(script) /\ expected = 0
    BY ScriptsAssumption DEF Init, UsualUse, Usual
  <1>2. 1 .. Len(items) = {} /\ 1 .. Len(thread) = {}
    BY <1>1
  <1>3. TypeInv
    BY <1>1 DEF TypeInv, MainPoints
  <1>4. Aligned /\ ScriptOK /\ Calm
    BY <1>1, <1>2 DEF Aligned, ScriptOK, Calm
  <1>5. Counting = {} /\ Owing = {} /\ \A h \in Isrs : Flights(h) = {}
    BY <1>2 DEF Counting, Owing, Flights
  <1>6. Counted
    BY <1>1, <1>5, FS_EmptySet DEF Counted
  <1>7. Once
    <2> SUFFICES ASSUME NEW h \in Isrs PROVE due[h] = ran[h] + Cardinality(Flights(h))
      BY DEF Once
    <2>1. due[h] = 0 /\ ran[h] = 0 /\ Cardinality(Flights(h)) = 0
      BY <1>1, <1>5, FS_EmptySet
    <2> QED
      BY <2>1
  <1> QED
    BY <1>1, <1>3, <1>4, <1>6, <1>7 DEF Inv

(* No call of the script and no thread changes what is expected.           *)
LEMMA ExpectedStays ==
    ASSUME [Next]_vars PROVE expected' = expected
  <1>1. CASE Main
    BY <1>1 DEF Main, Calling, AddHandler, AddWait, TriggerInterrupt, RemoveHandler,
       RemoveShift, RemoveEnd, SyncCall, SyncPick, SyncReturn, SyncTrigger, SyncCheck
  <1>2. ASSUME NEW t \in DOMAIN thread, Handler(t) PROVE expected' = expected
    BY <1>2 DEF Handler, Install, CountWaiting, Park, StartIsr, RunIsr, IsrDone
  <1>3. CASE UNCHANGED vars
    BY <1>3 DEF vars
  <1> QED
    BY <1>1, <1>2, <1>3 DEF Next

LEMMA NextInv ==
    ASSUME Inv, expected = 0, [Next]_vars PROVE Inv' /\ expected' = 0
  <1> SUFFICES Inv'
    BY ExpectedStays
  <1>1. ASSUME NEW t \in DOMAIN thread, Handler(t) PROVE Inv'
    <2>1. t \in 1 .. Len(thread)
      BY DEF Inv, TypeInv
    <2> QED
      BY <1>1, <2>1, InstallInv, CountWaitingInv, ParkInv, StartIsrInv, RunIsrInv, IsrDoneInv DEF Handler
  <1>2. CASE Main
    BY <1>2, AddHandlerInv, AddWaitInv, TriggerInterruptInv, RemoveHandlerInv, RemoveShiftInv, RemoveEndInv, SyncCallInv,
       SyncPickInv, SyncReturnInv, SyncTriggerInv, SyncCheckInv DEF Main
  <1>3. CASE UNCHANGED vars
    <2>1. UNCHANGED <<items, n, numWaiting, scheduled, thread, script, main, tranche, gap, due, ran>>
      BY <1>3 DEF vars
    <2>2. TypeInv' /\ ScriptOK' /\ Calm'
      BY <2>1 DEF Inv, TypeInv, ScriptOK, Calm
    <2> QED
      BY <2>1, <2>2, MainFrame DEF Inv
  <1> QED
    BY <1>1, <1>2, <1>3 DEF Next

(* Threads and handlers correspond, numWaiting_ is what the threads        *)
(* contribute to it, and no handler is picked outside of test_sync.        *)
THEOREM InterruptsInvariant ==
    ASSUME UsualUse PROVE Spec => []Inv
  <1>1. Init => Inv /\ expected = 0
    BY InitInv
  <1>2. Inv /\ expected = 0 /\ [Next]_vars => Inv' /\ (expected = 0)'
    BY NextInv
  <1> QED
    BY <1>1, <1>2, PTL DEF Spec

(* A handler runs once for each time an interrupt picked it, for scripts   *)
(* of any length and any number of handlers.                               *)
THEOREM RunsOnce ==
    ASSUME UsualUse PROVE Spec => []RunsOncePerInterrupt
  <1>1. Inv => RunsOncePerInterrupt
    <2> SUFFICES ASSUME Inv, NEW h \in Isrs PROVE due[h] = ran[h] + Cardinality(InFlight(h))
      BY DEF RunsOncePerInterrupt
    <2>1. /\ DOMAIN items = 1 .. Len(thread) /\ DOMAIN thread = 1 .. Len(thread)
          /\ \A t \in 1 .. Len(thread) : thread[t].index = t
      BY DEF Inv, TypeInv, Aligned
    <2>2. InFlight(h) = Flights(h)
      BY <2>1 DEF InFlight, Flights, Flies, IsAt
    <2> QED
      BY <2>2 DEF Inv, Once
  <1> QED
    BY <1>1, InterruptsInvariant, PTL

(* A sync that returns has waited for every handler that it started.       *)
THEOREM SyncWaits ==
    ASSUME UsualUse PROVE Spec => SyncWaitsForHandlers
  <1>1. ASSUME Inv, SyncReturn
        PROVE  due = ran /\ \A i \in Live : items[i].state = "Waiting"
    <2>1. /\ \A i \in 1 .. Len(items) : items[i].state = "Waiting"
          /\ n <= Len(items) /\ n \in Nat /\ Len(items) \in Nat /\ Len(thread) = Len(items)
          /\ due \in [Isrs -> Nat] /\ ran \in [Isrs -> Nat]
      BY <1>1 DEF Inv, Calm, SyncReturn, ScriptOK, TypeInv, Aligned
    <2>2. \A t \in 1 .. Len(thread) : ~Flies(thread[t].pc, items[t].state)
      BY <1>1, <2>1 DEF Inv, Aligned, PointOK, Flies
    <2>3. ASSUME NEW h \in Isrs PROVE due[h] = ran[h]
      <3>1. Flights(h) = {}
        BY <2>2 DEF Flights
      <3>2. due[h] = ran[h] + 0
        BY <1>1, <3>1, FS_EmptySet DEF Inv, Once
      <3> QED
        BY <2>1, <3>2
    <2>4. due = ran
      BY <2>1, <2>3
    <2> QED
      BY <2>1, <2>4 DEF Live
  <1>2. Inv /\ [Next]_vars =>
          [SyncReturn => due = ran /\ \A i \in Live : items[i].state = "Waiting"]_vars
    BY <1>1
  <1> QED
    BY <1>2, InterruptsInvariant, PTL DEF Spec, SyncWaitsForHandlers
=============================================================================
