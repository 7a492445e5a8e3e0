----------------------------- MODULE HeapProofs -----------------------------
(***************************************************************************)
(* The collector keeps what the program can reach and frees the rest, for  *)
(* any number of objects, any stack and any nesting of temporary roots.    *)
(***************************************************************************)
EXTENDS Heap, SequenceTheorems, TLAPS

Listed == Range(objects)
Edges == [o \in Objs |-> Children(o)]
Passed == {objects[i] : i \in 1 .. at - 1}   \* what sweep has stepped over
Kept == Passed \cup marked                   \* what this collection keeps

(* The list of all objects has every allocated object once.                *)
ListOK ==
    /\ \A i, j \in 1 .. Len(objects) : objects[i] = objects[j] => i = j
    /\ \A o \in Objs : kind[o] = "free" <=> o \notin Listed

(* Until sweep starts, everything that is referred to is on the list.      *)
GraphOK ==
    pc # "sweep" =>
      /\ Roots \subseteq Listed /\ local \in Listed \cup {Null}
      /\ \A o \in Listed : kind[o] # "string" => field[o] \in Listed \cup {Null}

(* Nothing is allocated while an object is held by a C variable only, and  *)
(* no mark outlives a collection.                                          *)
IdleOK ==
    /\ pc \in {"alloc", "take", "trace", "sweep"} => local = Null
    /\ pc \in {"run", "alloc", "take", "fatal"} => marked = {} /\ gray = {}

(* Tri-colour: what is marked and no longer gray has its children marked,  *)
(* and nothing is marked that the roots do not reach.                      *)
TraceOK ==
    pc = "trace" =>
      /\ AllRoots \subseteq marked /\ gray \subseteq marked
      /\ \A o \in marked \ gray : Children(o) \subseteq marked
      /\ marked \subseteq Closure(AllRoots, Edges)

(* Sweep keeps what the roots reach; freeing an object changes none of it. *)
SweepOK ==
    pc = "sweep" =>
      /\ gray = {} /\ at \in 1 .. Len(objects) + 1
      /\ marked \cap Passed = {} /\ Kept \subseteq Listed
      /\ Kept = Closure(AllRoots, Edges) /\ strings \subseteq Kept

Inv ==
    /\ TypeOK /\ ListOK /\ GraphOK /\ IdleOK /\ TraceOK /\ SweepOK
    /\ StringsAlive /\ UpvaluesAreVariables

-----------------------------------------------------------------------------
(* Sequences: the stack, the temporary roots and the list of objects.      *)

(* The elements of a sequence are its values at 1 .. Len.                  *)
LEMMA RangeSeq ==
    ASSUME NEW S, NEW s \in Seq(S)
    PROVE  Range(s) = {s[i] : i \in 1 .. Len(s)} /\ Range(s) \subseteq S
  BY DEF Range

(* Pushing adds the value.                                                 *)
LEMMA RangeAppend ==
    ASSUME NEW S, NEW s \in Seq(S), NEW x \in S
    PROVE  /\ Append(s, x) \in Seq(S) /\ Len(Append(s, x)) = Len(s) + 1
           /\ Range(Append(s, x)) = Range(s) \cup {x}
  <1> DEFINE t == Append(s, x)
  <1>1. /\ t \in Seq(S) /\ Len(t) = Len(s) + 1 /\ Len(s) \in Nat
        /\ \A i \in 1 .. Len(s) : t[i] = s[i]
        /\ t[Len(s) + 1] = x
    BY AppendProperties
  <1> HIDE DEF t
  <1>2. Range(t) = {t[i] : i \in 1 .. Len(t)} /\ Range(s) = {s[i] : i \in 1 .. Len(s)}
    BY <1>1, RangeSeq
  <1>3. Range(t) = Range(s) \cup {x}
    BY <1>1, <1>2
  <1> QED
    BY <1>1, <1>3 DEF t

(* The first n - 1 elements.                                               *)
LEMMA Prefix ==
    ASSUME NEW S, NEW s \in Seq(S), NEW n \in 1 .. Len(s)
    PROVE  LET a == SubSeq(s, 1, n - 1)
           IN  a \in Seq(S) /\ Len(a) = n - 1 /\ \A i \in 1 .. n - 1 : a[i] = s[i]
  <1>1. n \in Nat /\ \A i \in 1 .. n - 1 : s[i] \in S
    OBVIOUS
  <1> QED
    BY <1>1, SubSeqProperties

(* Popping adds nothing, and the popped value was there.                   *)
LEMMA RangeFront ==
    ASSUME NEW S, NEW s \in Seq(S), s # <<>>
    PROVE  /\ Front(s) \in Seq(S) /\ Len(Front(s)) = Len(s) - 1
           /\ Range(Front(s)) \subseteq Range(s)
           /\ Last(s) \in Range(s) /\ Last(s) \in S /\ Len(s) \in Nat \ {0}
           /\ Last(s) = s[Len(s)]
  <1> DEFINE t == Front(s)
  <1>1. Len(s) \in Nat \ {0} /\ \A i \in 1 .. Len(s) : s[i] \in S
    OBVIOUS
  <1>2. t \in Seq(S) /\ Len(t) = Len(s) - 1 /\ \A i \in 1 .. Len(s) - 1 : t[i] = s[i]
    <2>1. Len(s) \in 1 .. Len(s)
      BY <1>1
    <2> QED
      BY <2>1, Prefix, Zenon DEF Front
  <1> HIDE DEF t
  <1>3. Range(t) = {t[i] : i \in 1 .. Len(t)} /\ Range(s) = {s[i] : i \in 1 .. Len(s)}
    BY <1>2, RangeSeq
  <1>4. Range(t) \subseteq Range(s) /\ s[Len(s)] \in Range(s)
    BY <1>1, <1>2, <1>3
  <1> QED
    BY <1>1, <1>2, <1>4 DEF t, Last

(* Linking a new object at the head of the list.                           *)
LEMMA RangeCons ==
    ASSUME NEW S, NEW s \in Seq(S), NEW x \in S
    PROVE  /\ <<x>> \o s \in Seq(S) /\ Len(<<x>> \o s) = Len(s) + 1
           /\ (<<x>> \o s)[1] = x
           /\ \A i \in 2 .. Len(s) + 1 : (<<x>> \o s)[i] = s[i - 1]
           /\ Range(<<x>> \o s) = Range(s) \cup {x}
  <1> DEFINE t == <<x>> \o s
  <1>1. t \in Seq(S) /\ Len(t) = Len(s) + 1 /\ Len(s) \in Nat
    OBVIOUS
  <1>2. t[1] = x /\ \A i \in 2 .. Len(s) + 1 : t[i] = s[i - 1]
    <2>1. <<x>> \in Seq(S) /\ Len(<<x>>) = 1 /\ <<x>>[1] = x
      OBVIOUS
    <2>2. \A i \in 1 .. 1 + Len(s) : t[i] = IF i <= 1 THEN <<x>>[i] ELSE s[i - 1]
      BY <2>1, ConcatProperties, Zenon
    <2> QED
      BY <1>1, <2>1, <2>2
  <1> HIDE DEF t
  <1>3. Range(t) = {t[i] : i \in 1 .. Len(t)} /\ Range(s) = {s[i] : i \in 1 .. Len(s)}
    BY <1>1, RangeSeq
  <1>4. \A i \in 1 .. Len(s) : i + 1 \in 2 .. Len(s) + 1 /\ s[i] = t[i + 1]
    BY <1>1, <1>2
  <1>5. \A i \in 1 .. Len(t) : i = 1 \/ (i - 1 \in 1 .. Len(s) /\ t[i] = s[i - 1])
    BY <1>1, <1>2
  <1>6. Range(s) \subseteq Range(t) /\ x \in Range(t)
    <2>1. 1 \in 1 .. Len(t) /\ \A i \in 2 .. Len(s) + 1 : i \in 1 .. Len(t)
      BY <1>1
    <2>2. x \in Range(t)
      BY <1>2, <1>3, <2>1
    <2>3. ASSUME NEW i \in 1 .. Len(s) PROVE s[i] \in Range(t)
      <3>1. i + 1 \in 1 .. Len(t) /\ s[i] = t[i + 1]
        BY <1>4, <2>1
      <3> QED
        BY <1>3, <3>1
    <2> QED
      BY <1>3, <2>2, <2>3
  <1>7. Range(t) \subseteq Range(s) \cup {x}
    BY <1>1, <1>2, <1>3, <1>5
  <1> QED
    BY <1>1, <1>2, <1>6, <1>7 DEF t

(* Unlinking one object from a list without repetitions.                   *)
LEMMA RangeRemoveAt ==
    ASSUME NEW S, NEW s \in Seq(S), NEW n \in 1 .. Len(s),
           \A i, j \in 1 .. Len(s) : s[i] = s[j] => i = j
    PROVE  LET t == RemoveAt(s, n)
           IN  /\ t \in Seq(S) /\ Len(t) = Len(s) - 1
               /\ \A i \in 1 .. n - 1 : t[i] = s[i]
               /\ \A i, j \in 1 .. Len(t) : t[i] = t[j] => i = j
               /\ Range(t) = Range(s) \ {s[n]}
  <1> DEFINE a == SubSeq(s, 1, n - 1)
             b == SubSeq(s, n + 1, Len(s))
             t == a \o b
  <1>1. Len(s) \in Nat /\ n \in Nat /\ \A i \in 1 .. Len(s) : s[i] \in S
    OBVIOUS
  <1>2. a \in Seq(S) /\ Len(a) = n - 1 /\ \A i \in 1 .. n - 1 : a[i] = s[i]
    BY Prefix
  <1>3. b \in Seq(S) /\ Len(b) = Len(s) - n /\ \A i \in 1 .. Len(s) - n : b[i] = s[n + i]
    <2>1. \A i \in n + 1 .. Len(s) : s[i] \in S
      BY <1>1
    <2> QED
      BY <1>1, <2>1, SubSeqProperties
  <1>4. t = RemoveAt(s, n)
    BY DEF RemoveAt
  <1> HIDE DEF a, b
  <1>5. /\ t \in Seq(S) /\ Len(t) = Len(a) + Len(b)
        /\ \A i \in 1 .. Len(a) + Len(b) :
             t[i] = IF i <= Len(a) THEN a[i] ELSE b[i - Len(a)]
    <2>1. a \in Seq(S) /\ b \in Seq(S)
      BY <1>2, <1>3
    <2> QED
      BY <2>1, ConcatProperties
  <1> HIDE DEF t
  <1>6. t \in Seq(S) /\ Len(t) = Len(s) - 1
    BY <1>1, <1>2, <1>3, <1>5
  <1>i. \A i \in 1 .. Len(s) - 1 : t[i] = IF i <= n - 1 THEN a[i] ELSE b[i - (n - 1)]
    <2>1. Len(a) + Len(b) = Len(s) - 1
      BY <1>1, <1>2, <1>3
    <2>2. Len(a) = n - 1
      BY <1>2
    <2> QED
      BY <1>5, <2>1, <2>2, Zenon
  <1>7. \A i \in 1 .. n - 1 : t[i] = s[i]
    <2> TAKE i \in 1 .. n - 1
    <2>1. i \in 1 .. Len(s) - 1 /\ i <= n - 1
      BY <1>1
    <2>2. t[i] = a[i]
      BY <1>i, <2>1
    <2> QED
      BY <1>2, <2>2
  <1>8. \A i \in n .. Len(s) - 1 : t[i] = s[i + 1]
    <2> TAKE i \in n .. Len(s) - 1
    <2>1. t[i] = b[i - (n - 1)]
      BY <1>1, <1>i
    <2>2. i - (n - 1) \in 1 .. Len(s) - n /\ n + (i - (n - 1)) = i + 1
      BY <1>1
    <2> QED
      BY <2>1, <2>2, <1>3
  <1>9. \A i, j \in 1 .. Len(t) : t[i] = t[j] => i = j
    BY <1>1, <1>6, <1>7, <1>8
  <1>r. Range(t) = {t[i] : i \in 1 .. Len(t)} /\ Range(s) = {s[i] : i \in 1 .. Len(s)}
    BY <1>6, RangeSeq
  <1>10. \A i \in 1 .. Len(t) : t[i] \in Range(s) \ {s[n]}
    <2> SUFFICES ASSUME NEW i \in 1 .. Len(t) PROVE t[i] \in Range(s) \ {s[n]}
      OBVIOUS
    <2>1. CASE i < n
      BY <2>1, <1>1, <1>6, <1>7, <1>r
    <2>2. CASE i >= n
      BY <2>2, <1>1, <1>6, <1>8, <1>r
    <2> QED
      BY <2>1, <2>2, <1>1, <1>6
  <1>11. \A i \in 1 .. Len(s) : s[i] # s[n] => s[i] \in Range(t)
    <2> SUFFICES ASSUME NEW i \in 1 .. Len(s), s[i] # s[n] PROVE s[i] \in Range(t)
      OBVIOUS
    <2>1. CASE i < n
      BY <2>1, <1>1, <1>6, <1>7, <1>r
    <2>2. CASE i > n
      <3>1. i - 1 \in n .. Len(s) - 1 /\ i - 1 \in 1 .. Len(t)
        BY <2>2, <1>1, <1>6
      <3>2. t[i - 1] = s[i]
        BY <3>1, <1>8
      <3> QED
        BY <3>1, <3>2, <1>6, <1>r
    <2> QED
      BY <2>1, <2>2
  <1>12. Range(t) = Range(s) \ {s[n]}
    BY <1>10, <1>11, <1>r
  <1> QED
    BY <1>4, <1>6, <1>7, <1>9, <1>12

-----------------------------------------------------------------------------
(* Reachability.                                                           *)

(* The closure holds its start, is closed, and is the least such set.      *)
LEMMA ClosureLeast ==
    ASSUME NEW start \in SUBSET Objs, NEW edges \in [Objs -> SUBSET Objs]
    PROVE  LET C == Closure(start, edges)
           IN  /\ C \subseteq Objs /\ start \subseteq C /\ ClosedUnder(C, edges)
               /\ \A S \in SUBSET Objs :
                    start \subseteq S /\ ClosedUnder(S, edges) => C \subseteq S
  <1>1. Closure(start, edges) \subseteq Objs /\ start \subseteq Closure(start, edges)
    BY DEF Closure
  <1>2. \A S \in SUBSET Objs :
          start \subseteq S /\ ClosedUnder(S, edges) => Closure(start, edges) \subseteq S
    BY DEF Closure
  <1>3. ClosedUnder(Closure(start, edges), edges)
    <2> SUFFICES ASSUME NEW o \in Closure(start, edges), NEW x \in edges[o],
                        NEW S \in SUBSET Objs, start \subseteq S, ClosedUnder(S, edges)
                 PROVE  x \in S
      BY <1>1 DEF ClosedUnder, Closure
    <2>1. o \in S
      BY <1>2
    <2> QED
      BY <2>1 DEF ClosedUnder
  <1> QED
    BY <1>1, <1>2, <1>3

(* Changing the references of unreachable objects changes no reachability. *)
LEMMA ClosureStable ==
    ASSUME NEW start \in SUBSET Objs, NEW e1 \in [Objs -> SUBSET Objs],
           NEW e2 \in [Objs -> SUBSET Objs],
           \A o \in Closure(start, e1) : e2[o] = e1[o]
    PROVE  Closure(start, e2) = Closure(start, e1)
  <1> DEFINE C1 == Closure(start, e1)
             C2 == Closure(start, e2)
  <1>1. /\ C1 \subseteq Objs /\ start \subseteq C1 /\ ClosedUnder(C1, e1)
        /\ \A S \in SUBSET Objs : start \subseteq S /\ ClosedUnder(S, e1) => C1 \subseteq S
    BY ClosureLeast
  <1>2. /\ C2 \subseteq Objs /\ start \subseteq C2 /\ ClosedUnder(C2, e2)
        /\ \A S \in SUBSET Objs : start \subseteq S /\ ClosedUnder(S, e2) => C2 \subseteq S
    BY ClosureLeast
  <1> HIDE DEF C1, C2
  <1>3. \A o \in C1 : e2[o] = e1[o]
    BY DEF C1
  <1>4. C2 \subseteq C1
    BY <1>1, <1>2, <1>3 DEF ClosedUnder
  <1>5. C1 \subseteq C2
    BY <1>1, <1>2, <1>3, <1>4 DEF ClosedUnder
  <1> QED
    BY <1>4, <1>5 DEF C1, C2

-----------------------------------------------------------------------------
(* Running code: every step of the mutator between two allocations.        *)
MutatorStep ==
    \/ \E o \in Objs : FindString(o) \/ Finish(o)
    \/ TempRootPush \/ TempRootPop \/ LinkPart \/ Intern
    \/ PushLocal \/ Discard \/ GetField \/ SetField \/ Pop
    \/ \E h \in (1 .. StackMax) \cup Objs : Capture(h) \/ Recapture(h)

(* The steps of the specification, by what they do to the heap.            *)
LEMMA NextCases ==
    ASSUME [Next]_vars
    PROVE  \/ MutatorStep
           \/ \E k \in Kinds : AllocateCall(k)
           \/ \E o \in Objs : AllocateObject(o)
           \/ OutOfMemory \/ TempRootOverflow
           \/ MarkRoots \/ (\E o \in Objs : Blacken(o)) \/ RemoveWhite
           \/ Sweep \/ SweepDone
           \/ UNCHANGED vars
  BY DEF Next, MutatorStep

(* Running code happens outside collections and frees nothing.             *)
LEMMA MutatorFrame ==
    ASSUME MutatorStep
    PROVE  pc = "run" /\ UNCHANGED <<objects, kind, marked, gray, pc, at, want>>
  BY DEF MutatorStep, FindString, Finish, TempRootPush, TempRootPop, LinkPart, Intern,
         PushLocal, Discard, GetField, SetField, Pop, Capture, Recapture, Running, mutatorVars

(* Where references can point.                                             *)
LEMMA Typed ==
    ASSUME TypeOK
    PROVE  /\ Listed \subseteq Objs /\ Range(stack) \subseteq Refs /\ Range(temps) \subseteq Objs
           /\ Roots \subseteq Objs /\ AllRoots \subseteq Objs
           /\ \A h : OpenAt(h) \subseteq Listed
           /\ Edges \in [Objs -> SUBSET Objs] /\ \A o \in Objs : Edges[o] = Children(o)
  <1>1. Listed \subseteq Objs /\ Range(stack) \subseteq Refs /\ Range(temps) \subseteq Objs
    BY RangeSeq DEF TypeOK, Listed
  <1>2. Roots \subseteq Objs /\ OpenUpvaluesOfCore0 \subseteq Objs
    BY <1>1 DEF Roots, Refs, OpenUpvaluesOfCore0, Listed
  <1>3. \A h : OpenAt(h) \subseteq Listed
    BY DEF OpenAt, Listed
  <1>4. \A o \in Objs : Children(o) \subseteq Objs
    BY <1>1, <1>3 DEF Children, TypeOK, Refs
  <1> QED
    BY <1>1, <1>2, <1>3, <1>4 DEF AllRoots, Edges

(* The stack keeps its type when something is pushed.                      *)
LEMMA PushType ==
    ASSUME TypeOK, NEW x \in Refs, Push(x)
    PROVE  /\ stack' \in Seq(Refs) /\ Len(stack') = Len(stack) + 1 /\ Len(stack') <= StackMax
           /\ Range(stack') = Range(stack) \cup {x}
  <1>1. stack \in Seq(Refs) /\ Len(stack) \in Nat /\ Len(stack) < StackMax /\ StackMax \in Nat
        /\ stack' = Append(stack, x)
    BY HeapAssumption DEF TypeOK, Push
  <1> QED
    BY <1>1, RangeAppend

(* Running code keeps the types; only tempRootPush's check stands between  *)
(* nested construction and the end of the array of temporary roots.        *)
LEMMA MutatorType ==
    ASSUME TypeOK, MutatorStep PROVE TypeOK'
  <1>1. UNCHANGED <<objects, kind, marked, gray, pc, at, want>>
    BY MutatorFrame
  <1>2. /\ Listed \subseteq Objs /\ Range(stack) \subseteq Refs /\ Range(temps) \subseteq Objs
        /\ \A h : OpenAt(h) \subseteq Listed
    BY Typed
  <1>3. StackMax \in Nat /\ TempRootsMax \in Nat
    BY HeapAssumption
  <1>4. ASSUME NEW o \in Objs, FindString(o) PROVE TypeOK'
    BY <1>1, <1>4 DEF FindString, TypeOK, Refs
  <1>5. ASSUME NEW o \in Objs, Finish(o) PROVE TypeOK'
    <2>1. ValueAt(o) \in Refs
      BY HeapAssumption DEF ValueAt, TypeOK
    <2> QED
      BY <1>1, <1>5, <2>1 DEF Finish, CloseUpvalues, TypeOK, Refs
  <1>6. CASE TempRootPush
    <2>1. temps \in Seq(Objs) /\ local \in Objs /\ temps' = Append(temps, local)
      BY <1>6 DEF TypeOK, TempRootPush, Refs
    <2>2. temps' \in Seq(Objs) /\ Len(temps') = Len(temps) + 1
      BY <2>1, RangeAppend
    <2>3. Len(temps) < TempRootsMax /\ Len(temps) \in Nat
      BY <1>6 DEF TypeOK, TempRootPush
    <2>4. Len(temps') <= TempRootsMax
      BY <2>2, <2>3, <1>3
    <2> QED
      BY <1>1, <1>6, <2>2, <2>4 DEF TempRootPush, TypeOK, Refs
  <1>7. CASE TempRootPop
    <2>1. temps \in Seq(Objs) /\ temps # <<>> /\ Len(temps) <= TempRootsMax
      BY <1>7 DEF TypeOK, TempRootPop
    <2>2. /\ Front(temps) \in Seq(Objs) /\ Len(Front(temps)) = Len(temps) - 1
          /\ Last(temps) \in Objs /\ Len(temps) \in Nat
      BY <2>1, RangeFront
    <2> QED
      BY <1>1, <1>3, <1>7, <2>1, <2>2 DEF TempRootPop, TypeOK, Refs
  <1>8. CASE LinkPart
    BY <1>1, <1>8 DEF LinkPart, TypeOK, Refs
  <1>9. CASE Intern
    <2>1. temps \in Seq(Objs) /\ temps # <<>>
      BY <1>9 DEF TypeOK, Intern
    <2>2. Last(temps) \in Objs
      BY <2>1, RangeFront
    <2> QED
      BY <1>1, <1>9, <2>2 DEF Intern, TypeOK, mutatorVars
  <1>10. CASE PushLocal
    <2>1. local \in Refs /\ Push(local)
      BY <1>10 DEF PushLocal, TypeOK
    <2> QED
      BY <1>1, <1>10, <2>1, PushType DEF PushLocal, TypeOK, Refs
  <1>11. CASE Discard
    BY <1>1, <1>11 DEF Discard, TypeOK, Refs
  <1>12. CASE GetField
    <2>1. stack \in Seq(Refs) /\ stack # <<>> /\ Last(stack) # Null
      BY <1>12 DEF GetField, TypeOK
    <2>2. Last(stack) \in Objs
      <3>1. Last(stack) \in Refs
        BY <2>1, RangeFront
      <3> QED
        BY <2>1, <3>1 DEF Refs
    <2>3. field[Last(stack)] \in Refs /\ Push(field[Last(stack)])
      BY <1>12, <2>2 DEF GetField, TypeOK
    <2> QED
      BY <1>1, <1>12, <2>3, PushType DEF GetField, TypeOK, Refs
  <1>13. CASE SetField
    <2>1. stack \in Seq(Refs) /\ stack # <<>>
      BY <1>13 DEF SetField, TypeOK
    <2>2. Last(stack) \in Refs
      BY <2>1, RangeFront
    <2> QED
      BY <1>1, <1>13, <2>2 DEF SetField, TypeOK, Refs
  <1>14. CASE Pop
    <2>1. stack \in Seq(Refs) /\ stack # <<>> /\ Len(stack) <= StackMax
      BY <1>14 DEF TypeOK, Pop
    <2>2. /\ Front(stack) \in Seq(Refs) /\ Len(Front(stack)) = Len(stack) - 1
          /\ stack[Len(stack)] \in Refs /\ Len(stack) \in Nat
      BY <2>1, RangeFront
    <2>3. ValueAt(Len(stack)) \in Refs
      BY <2>2 DEF ValueAt
    <2>4. stack' \in Seq(Refs) /\ Len(stack') <= StackMax
      BY <1>3, <1>14, <2>1, <2>2 DEF Pop
    <2>5. field' \in [Objs -> Refs]
      BY <1>14, <2>3 DEF Pop, CloseUpvalues, TypeOK, Refs
    <2>6. home' \in [Objs -> Objs \cup (1 .. StackMax) \cup {Closed}]
      BY <1>14 DEF Pop, CloseUpvalues, TypeOK
    <2> QED
      BY <1>1, <1>14, <2>4, <2>5, <2>6 DEF Pop, TypeOK
  <1>15. ASSUME NEW h \in (1 .. StackMax) \cup Objs, Capture(h) PROVE TypeOK'
    BY <1>1, <1>15 DEF Capture, TypeOK
  <1>16. ASSUME NEW h \in (1 .. StackMax) \cup Objs, Recapture(h) PROVE TypeOK'
    BY <1>1, <1>2, <1>16 DEF Recapture, TypeOK, Refs
  <1> QED
    BY <1>4, <1>5, <1>6, <1>7, <1>8, <1>9, <1>10, <1>11, <1>12, <1>13, <1>14, <1>15, <1>16
       DEF MutatorStep

(* Every step keeps the types, collections included.                       *)
LEMMA TypeStep ==
    ASSUME TypeOK, [Next]_vars PROVE TypeOK'
  <1>1. /\ Listed \subseteq Objs /\ AllRoots \subseteq Objs
        /\ \A o \in Objs : Children(o) \subseteq Objs
    BY Typed
  <1>2. CASE MutatorStep
    BY <1>2, MutatorType
  <1>3. ASSUME NEW k \in Kinds, AllocateCall(k) PROVE TypeOK'
    BY <1>3 DEF AllocateCall, TypeOK
  <1>4. ASSUME NEW o \in Objs, AllocateObject(o) PROVE TypeOK'
    <2>1. objects' \in Seq(Objs)
      BY <1>4, RangeCons DEF AllocateObject, TypeOK
    <2> QED
      BY <1>4, <2>1 DEF AllocateObject, TypeOK, Kinds, Refs
  <1>5. CASE OutOfMemory
    BY <1>5 DEF OutOfMemory, TypeOK, mutatorVars
  <1>6. CASE TempRootOverflow
    BY <1>6 DEF TempRootOverflow, TypeOK, mutatorVars
  <1>7. CASE MarkRoots
    BY <1>1, <1>7 DEF MarkRoots, TypeOK, mutatorVars, AllRoots
  <1>8. ASSUME NEW o \in Objs, Blacken(o) PROVE TypeOK'
    BY <1>1, <1>8 DEF Blacken, TypeOK, mutatorVars
  <1>9. CASE RemoveWhite
    BY <1>9 DEF RemoveWhite, TypeOK, mutatorVars
  <1>10. CASE Sweep
    <2>1. at \in Nat /\ objects \in Seq(Objs) /\ at <= Len(objects)
      BY <1>10 DEF Sweep, TypeOK
    <2>2. objects' \in Seq(Objs)
      <3>1. RemoveAt(objects, at) \in Seq(Objs)
        BY <2>1 DEF RemoveAt
      <3> QED
        BY <1>10, <2>1, <3>1 DEF Sweep
    <2>3. kind' \in [Objs -> Kinds \cup {"free"}]
      BY <1>10 DEF Sweep, FreeObject, TypeOK
    <2>4. field' \in [Objs -> Refs]
      BY <1>10 DEF Sweep, FreeObject, TypeOK, Refs
    <2>5. home' \in [Objs -> Objs \cup (1 .. StackMax) \cup {Closed}]
      BY <1>10 DEF Sweep, FreeObject, TypeOK
    <2>6. marked' \subseteq Objs /\ at' \in Nat
      BY <1>10, <2>1 DEF Sweep, TypeOK
    <2> QED
      BY <1>10, <2>2, <2>3, <2>4, <2>5, <2>6 DEF Sweep, TypeOK
  <1>11. CASE SweepDone
    BY <1>11 DEF SweepDone, TypeOK, mutatorVars
  <1>12. CASE UNCHANGED vars
    BY <1>12 DEF vars, mutatorVars, TypeOK
  <1> QED
    BY <1>2, <1>3, <1>4, <1>5, <1>6, <1>7, <1>8, <1>9, <1>10, <1>11, <1>12, NextCases

-----------------------------------------------------------------------------
(* allocateObject and sweep are the only writers of the list; each keeps   *)
(* it free of repetitions and in step with what is allocated.              *)
LEMMA ListStep ==
    ASSUME TypeOK, ListOK, SweepOK, [Next]_vars PROVE ListOK'
  <1>1. objects \in Seq(Objs) /\ Listed \subseteq Objs /\ Len(objects) \in Nat
    BY Typed DEF TypeOK
  <1>2. CASE UNCHANGED <<objects, kind>>
    BY <1>2 DEF ListOK, Listed
  <1>3. ASSUME NEW o \in Objs, AllocateObject(o) PROVE ListOK'
    <2>1. /\ objects' = <<o>> \o objects /\ kind' = [kind EXCEPT ![o] = want]
          /\ o \notin Listed /\ want # "free" /\ kind \in [Objs -> Kinds \cup {"free"}]
      BY <1>3 DEF AllocateObject, ListOK, TypeOK, Kinds
    <2>2. /\ Len(objects') = Len(objects) + 1 /\ objects'[1] = o
          /\ \A i \in 2 .. Len(objects) + 1 : objects'[i] = objects[i - 1]
          /\ Range(objects') = Range(objects) \cup {o}
      BY <1>1, <2>1, RangeCons
    <2>3. \A i \in 1 .. Len(objects) : objects[i] # o
      BY <1>1, <2>1, RangeSeq DEF Listed
    <2>4. \A i, j \in 1 .. Len(objects') : objects'[i] = objects'[j] => i = j
      <3> SUFFICES ASSUME NEW i \in 1 .. Len(objects'), NEW j \in 1 .. Len(objects'),
                          objects'[i] = objects'[j]
                   PROVE  i = j
        OBVIOUS
      <3>1. \A m \in 1 .. Len(objects') :
              m = 1 \/ (m - 1 \in 1 .. Len(objects) /\ objects'[m] = objects[m - 1])
        BY <1>1, <2>2
      <3>2. CASE i = 1 \/ j = 1
        BY <2>2, <2>3, <3>1, <3>2
      <3>3. CASE i # 1 /\ j # 1
        BY <1>1, <3>1, <3>3 DEF ListOK
      <3> QED
        BY <3>2, <3>3
    <2>5. \A x \in Objs : kind'[x] = "free" <=> x \notin Listed'
      BY <2>1, <2>2 DEF ListOK, Listed
    <2> QED
      BY <2>4, <2>5 DEF ListOK
  <1>4. CASE Sweep
    <2>1. at \in 1 .. Len(objects)
      BY <1>1, <1>4 DEF Sweep, SweepOK
    <2>2. CASE objects[at] \in marked
      BY <1>2, <1>4, <2>2 DEF Sweep
    <2>3. CASE objects[at] \notin marked
      <3>1. /\ objects' = RemoveAt(objects, at) /\ kind' = [kind EXCEPT ![objects[at]] = "free"]
        BY <1>4, <2>3 DEF Sweep, FreeObject
      <3>2. /\ \A i, j \in 1 .. Len(objects') : objects'[i] = objects'[j] => i = j
            /\ Range(objects') = Range(objects) \ {objects[at]}
        BY <1>1, <2>1, <3>1, RangeRemoveAt DEF ListOK
      <3>3. objects[at] \in Objs
        BY <1>1, <2>1
      <3> QED
        BY <3>1, <3>2, <3>3 DEF ListOK, Listed, TypeOK
    <2> QED
      BY <2>2, <2>3
  <1>5. CASE MutatorStep
    BY <1>2, <1>5, MutatorFrame
  <1> QED
    BY <1>2, <1>3, <1>4, <1>5, NextCases
       DEF AllocateCall, OutOfMemory, TempRootOverflow, MarkRoots, Blacken, RemoveWhite,
           SweepDone, vars

(* Nothing else frees or allocates: the list, the marks and the graph stay *)
(* together, so what is reachable stays the same.                          *)
LEMMA SameGraph ==
    ASSUME UNCHANGED <<objects, kind, field, home, stack, temps>>
    PROVE  /\ Listed' = Listed /\ Roots' = Roots /\ AllRoots' = AllRoots /\ Edges' = Edges
           /\ Closure(AllRoots, Edges)' = Closure(AllRoots, Edges)
           /\ \A o : Children(o)' = Children(o)
  <1>1. \A h : OpenAt(h)' = OpenAt(h)
    BY DEF OpenAt
  <1>2. \A o : Children(o)' = Children(o)
    BY <1>1 DEF Children
  <1>3. Edges' = Edges
    BY <1>2 DEF Edges
  <1>4. Listed' = Listed /\ Roots' = Roots /\ AllRoots' = AllRoots
    BY DEF Listed, Roots, AllRoots, OpenUpvaluesOfCore0
  <1> QED
    BY <1>2, <1>3, <1>4 DEF Closure, ClosedUnder

(* When every reference is to a listed object, so is all that is reached.  *)
LEMMA ReachedIsListed ==
    ASSUME TypeOK, Roots \subseteq Listed,
           \A o \in Listed : kind[o] # "string" => field[o] \in Listed \cup {Null}
    PROVE  /\ Closure(AllRoots, Edges) \subseteq Listed
           /\ \A o \in Listed : Children(o) \subseteq Listed
  <1>1. /\ Listed \subseteq Objs /\ AllRoots \subseteq Objs /\ Edges \in [Objs -> SUBSET Objs]
        /\ \A o \in Objs : Edges[o] = Children(o)
        /\ \A h : OpenAt(h) \subseteq Listed
    BY Typed
  <1>2. AllRoots \subseteq Listed
    BY DEF AllRoots, OpenUpvaluesOfCore0, Listed
  <1>3. \A o \in Listed : Children(o) \subseteq Listed
    BY <1>1 DEF Children
  <1>4. ClosedUnder(Listed, Edges)
    BY <1>1, <1>3 DEF ClosedUnder
  <1> QED
    BY <1>1, <1>2, <1>3, <1>4, ClosureLeast

(* When sweep has passed the whole list, the list is what the roots reach, *)
(* and every mark is gone.                                                 *)
LEMMA SweepEnd ==
    ASSUME TypeOK, SweepOK, pc = "sweep", at > Len(objects)
    PROVE  marked = {} /\ Listed = Closure(AllRoots, Edges)
  <1>1. objects \in Seq(Objs) /\ Len(objects) \in Nat /\ at = Len(objects) + 1
    BY DEF TypeOK, SweepOK
  <1>2. Passed = Listed
    BY <1>1, RangeSeq DEF Passed, Listed
  <1> QED
    BY <1>2 DEF SweepOK, Kept

(* Running code only stores references that it read from the roots.        *)
LEMMA MutatorGraph ==
    ASSUME TypeOK, GraphOK, StringsAlive, MutatorStep PROVE GraphOK'
  <1>1. /\ pc = "run" /\ pc' = "run" /\ Listed' = Listed /\ kind' = kind
    BY MutatorFrame DEF Listed
  <1>2. /\ Roots \subseteq Listed /\ local \in Listed \cup {Null}
        /\ \A o \in Listed : kind[o] # "string" => field[o] \in Listed \cup {Null}
    BY <1>1 DEF GraphOK
  <1>3. /\ stack \in Seq(Refs) /\ temps \in Seq(Objs) /\ field \in [Objs -> Refs]
        /\ Listed \subseteq Objs /\ Null \notin Objs /\ Roots \subseteq Objs
        /\ \A h : OpenAt(h) \subseteq Listed
    BY Typed, HeapAssumption DEF TypeOK
  <1>4. Range(stack) \subseteq Listed \cup {Null} /\ Range(temps) \subseteq Listed
    <2>1. Range(temps) \subseteq Objs
      BY <1>3, RangeSeq
    <2> QED
      BY <1>2, <1>3, <2>1 DEF Roots
  <1> SUFFICES /\ Range(stack') \subseteq Listed \cup {Null} /\ Range(temps') \subseteq Listed
               /\ local' \in Listed \cup {Null}
               /\ \A o \in Listed : kind[o] # "string" => field'[o] \in Listed \cup {Null}
    BY <1>1 DEF GraphOK, Roots
  <1> DEFINE Goal == /\ Range(stack') \subseteq Listed \cup {Null} /\ Range(temps') \subseteq Listed
                     /\ local' \in Listed \cup {Null}
                     /\ \A o \in Listed : kind[o] # "string" => field'[o] \in Listed \cup {Null}
  <1>5. ASSUME NEW o \in Objs, FindString(o) PROVE Goal
    BY <1>2, <1>4, <1>5 DEF FindString, StringsAlive, Listed
  <1>6. ASSUME NEW r \in Objs, Finish(r) PROVE Goal
    <2>1. r \in Listed /\ kind[r] = "routine"
      BY <1>4, <1>6 DEF Finish, Suspended
    <2>2. ValueAt(r) \in Listed \cup {Null}
      BY <1>2, <2>1, HeapAssumption DEF ValueAt
    <2> QED
      BY <1>2, <1>3, <1>4, <1>6, <2>2 DEF Finish, CloseUpvalues
  <1>7. CASE TempRootPush
    <2>1. local \in Objs /\ local \in Listed /\ temps' = Append(temps, local)
      BY <1>2, <1>3, <1>7 DEF TempRootPush
    <2>2. Range(temps') = Range(temps) \cup {local}
      BY <1>3, <2>1, RangeAppend
    <2> QED
      BY <1>2, <1>4, <1>7, <2>1, <2>2 DEF TempRootPush
  <1>8. CASE TempRootPop
    <2>1. Range(Front(temps)) \subseteq Range(temps) /\ Last(temps) \in Range(temps)
      BY <1>3, <1>8, RangeFront DEF TempRootPop
    <2> QED
      BY <1>2, <1>4, <1>8, <2>1 DEF TempRootPop
  <1>9. CASE LinkPart
    BY <1>2, <1>3, <1>4, <1>9 DEF LinkPart
  <1>10. CASE Intern \/ Discard
    BY <1>2, <1>4, <1>10 DEF Intern, Discard, mutatorVars
  <1>11. CASE PushLocal
    <2>1. local \in Refs /\ Push(local)
      BY <1>11 DEF PushLocal, TypeOK
    <2>2. Range(stack') = Range(stack) \cup {local}
      BY <2>1, PushType
    <2> QED
      BY <1>2, <1>4, <1>11, <2>2 DEF PushLocal
  <1>12. CASE GetField
    <2>1. Last(stack) \in Range(stack) /\ Last(stack) # Null /\ kind[Last(stack)] = "plain"
      BY <1>3, <1>12, RangeFront DEF GetField
    <2>2. Last(stack) \in Listed
      BY <1>4, <2>1
    <2>3. field[Last(stack)] \in Listed \cup {Null} /\ Push(field[Last(stack)])
      BY <1>2, <1>12, <2>1, <2>2 DEF GetField
    <2>4. field[Last(stack)] \in Refs
      BY <1>3, <2>2
    <2>5. Range(stack') = Range(stack) \cup {field[Last(stack)]}
      BY <2>3, <2>4, PushType
    <2> QED
      BY <1>2, <1>4, <1>12, <2>3, <2>5 DEF GetField
  <1>13. CASE SetField
    <2>1. stack # <<>>
      BY <1>3, <1>13 DEF SetField
    <2>2. Last(stack) \in Range(stack)
      BY <1>3, <2>1, RangeFront
    <2> QED
      BY <1>2, <1>3, <1>4, <1>13, <2>2 DEF SetField
  <1>14. CASE Pop
    <2>1. /\ Range(Front(stack)) \subseteq Range(stack) /\ Last(stack) \in Range(stack)
          /\ Last(stack) = stack[Len(stack)] /\ Len(stack) \in Nat
      BY <1>3, <1>14, RangeFront DEF Pop
    <2>2. ValueAt(Len(stack)) \in Listed \cup {Null}
      BY <1>4, <2>1 DEF ValueAt
    <2>3. \A o \in Listed : kind[o] # "string" => field'[o] \in Listed \cup {Null}
      BY <1>2, <1>3, <1>14, <2>2 DEF Pop, CloseUpvalues
    <2> QED
      BY <1>2, <1>4, <1>14, <2>1, <2>3 DEF Pop
  <1>15. ASSUME NEW h \in (1 .. StackMax) \cup Objs, Capture(h) \/ Recapture(h) PROVE Goal
    BY <1>2, <1>3, <1>4, <1>15 DEF Capture, Recapture
  <1> QED
    BY <1>5, <1>6, <1>7, <1>8, <1>9, <1>10, <1>11, <1>12, <1>13, <1>14, <1>15 DEF MutatorStep

(* Until sweep starts every reference is to a listed object; when it ends, *)
(* this is so again, because only what is unreachable was freed.           *)
LEMMA GraphStep ==
    ASSUME TypeOK, ListOK, GraphOK, SweepOK, IdleOK, StringsAlive, [Next]_vars
    PROVE  GraphOK'
  <1>1. CASE MutatorStep
    BY <1>1, MutatorGraph
  <1>2. CASE UNCHANGED <<objects, kind, field, home, stack, temps, local>> /\ pc # "sweep"
    <2>1. Listed' = Listed /\ Roots' = Roots
      BY <1>2, SameGraph
    <2> QED
      BY <1>2, <2>1 DEF GraphOK
  <1>3. ASSUME NEW o \in Objs, AllocateObject(o) PROVE GraphOK'
    <2>1. objects \in Seq(Objs) /\ objects' = <<o>> \o objects
      BY <1>3 DEF AllocateObject, TypeOK
    <2>2. Listed' = Listed \cup {o}
      BY <2>1, RangeCons DEF Listed
    <2>3. /\ UNCHANGED <<stack, temps>> /\ local' = o /\ pc' = "run"
          /\ kind' = [kind EXCEPT ![o] = want] /\ field' = [field EXCEPT ![o] = Null]
          /\ pc # "sweep"
      BY <1>3 DEF AllocateObject
    <2>4. Roots' = Roots
      BY <2>3 DEF Roots
    <2>5. Listed \subseteq Objs /\ o \notin Listed
      BY <1>3, Typed DEF AllocateObject, ListOK
    <2> QED
      BY <2>2, <2>3, <2>4, <2>5 DEF GraphOK, TypeOK
  <1>4. CASE Sweep
    BY <1>4 DEF Sweep, GraphOK
  <1>5. CASE SweepDone
    <2>1. pc = "sweep" /\ at > Len(objects)
          /\ UNCHANGED <<objects, kind, field, home, stack, temps, local>>
      BY <1>5 DEF SweepDone, mutatorVars
    <2>2. Listed = Closure(AllRoots, Edges)
      BY <2>1, SweepEnd
    <2>3. /\ AllRoots \subseteq Objs /\ Edges \in [Objs -> SUBSET Objs] /\ Listed \subseteq Objs
          /\ \A o \in Objs : Edges[o] = Children(o)
      BY Typed
    <2>4. AllRoots \subseteq Listed /\ ClosedUnder(Listed, Edges)
      BY <2>2, <2>3, ClosureLeast
    <2>5. \A o \in Listed : Children(o) \subseteq Listed
      BY <2>3, <2>4 DEF ClosedUnder
    <2>6. \A o \in Listed : kind[o] # "string" => field[o] \in Listed \cup {Null}
      BY <2>5 DEF Children
    <2>7. Listed' = Listed /\ Roots' = Roots /\ local = Null
      BY <2>1, SameGraph DEF IdleOK
    <2> QED
      BY <2>1, <2>4, <2>6, <2>7 DEF GraphOK, AllRoots
  <1>6. CASE UNCHANGED vars
    <2>1. Listed' = Listed /\ Roots' = Roots
      BY <1>6, SameGraph DEF vars, mutatorVars
    <2> QED
      BY <1>6, <2>1 DEF GraphOK, vars, mutatorVars
  <1> QED
    BY <1>1, <1>2, <1>3, <1>4, <1>5, <1>6, NextCases
       DEF AllocateCall, OutOfMemory, TempRootOverflow, MarkRoots, Blacken, RemoveWhite,
           mutatorVars

-----------------------------------------------------------------------------
(* The C variable is empty when an allocation may collect, and there are   *)
(* no marks outside collections: sweep took the last one.                  *)
LEMMA IdleStep ==
    ASSUME TypeOK, IdleOK, SweepOK, [Next]_vars PROVE IdleOK'
  <1>1. CASE MutatorStep
    BY <1>1, MutatorFrame DEF IdleOK
  <1>2. CASE SweepDone
    <2>1. marked = {}
      BY <1>2, SweepEnd DEF SweepDone
    <2> QED
      BY <1>2, <2>1 DEF SweepDone, IdleOK, SweepOK, mutatorVars
  <1> QED
    BY <1>1, <1>2, NextCases
       DEF AllocateCall, AllocateObject, OutOfMemory, TempRootOverflow, MarkRoots, Blacken,
           RemoveWhite, Sweep, IdleOK, vars, mutatorVars

(* Marking starts from the roots and only ever adds children of what is    *)
(* marked; an object leaves the gray set when its children are marked.     *)
LEMMA TraceStep ==
    ASSUME TypeOK, IdleOK, TraceOK, [Next]_vars PROVE TraceOK'
  <1> DEFINE C == Closure(AllRoots, Edges)
  <1>1. /\ AllRoots \subseteq Objs /\ Edges \in [Objs -> SUBSET Objs]
        /\ \A o \in Objs : Edges[o] = Children(o)
    BY Typed
  <1>2. AllRoots \subseteq C /\ C \subseteq Objs /\ ClosedUnder(C, Edges)
    BY <1>1, ClosureLeast
  <1> SUFFICES ASSUME pc' = "trace" PROVE TraceOK'
    BY DEF TraceOK
  <1>3. CASE MarkRoots
    <2>1. marked = {} /\ marked' = AllRoots /\ gray' = AllRoots
      BY <1>3 DEF MarkRoots, IdleOK, AllRoots
    <2>2. AllRoots' = AllRoots /\ C' = C
      BY <1>3, SameGraph DEF MarkRoots, mutatorVars
    <2> QED
      BY <1>2, <2>1, <2>2 DEF TraceOK
  <1>4. ASSUME NEW o \in Objs, Blacken(o) PROVE TraceOK'
    <2>1. /\ pc = "trace" /\ o \in gray /\ marked' = marked \cup Children(o)
          /\ gray' = (gray \ {o}) \cup (Children(o) \ marked)
      BY <1>4 DEF Blacken
    <2>2. AllRoots' = AllRoots /\ C' = C /\ \A x : Children(x)' = Children(x)
      BY <1>4, SameGraph DEF Blacken, mutatorVars
    <2>3. o \in C /\ Children(o) \subseteq C
      BY <1>1, <1>2, <2>1 DEF TraceOK, ClosedUnder
    <2> QED
      BY <2>1, <2>2, <2>3 DEF TraceOK
  <1>5. CASE UNCHANGED vars
    <2>1. AllRoots' = AllRoots /\ C' = C /\ \A x : Children(x)' = Children(x)
      BY <1>5, SameGraph DEF vars, mutatorVars
    <2> QED
      BY <1>5, <2>1 DEF TraceOK, vars
  <1>6. ~MutatorStep
    BY MutatorFrame
  <1> QED
    BY <1>3, <1>4, <1>5, <1>6, NextCases
       DEF AllocateCall, AllocateObject, OutOfMemory, TempRootOverflow, RemoveWhite, Sweep,
           SweepDone, mutatorVars

(* When no gray object is left, what is marked is what the roots reach.    *)
LEMMA TraceEnd ==
    ASSUME TypeOK, GraphOK, TraceOK, pc = "trace", gray = {}
    PROVE  marked = Closure(AllRoots, Edges) /\ marked \subseteq Listed
  <1>1. /\ AllRoots \subseteq Objs /\ Edges \in [Objs -> SUBSET Objs]
        /\ \A o \in Objs : Edges[o] = Children(o)
    BY Typed
  <1>2. ClosedUnder(marked, Edges) /\ AllRoots \subseteq marked /\ marked \in SUBSET Objs
    BY <1>1 DEF TraceOK, ClosedUnder, TypeOK
  <1>3. marked = Closure(AllRoots, Edges)
    BY <1>1, <1>2, ClosureLeast DEF TraceOK
  <1>4. Closure(AllRoots, Edges) \subseteq Listed
    BY ReachedIsListed DEF GraphOK
  <1> QED
    BY <1>3, <1>4

(* Freeing an object that the collection does not keep leaves the roots    *)
(* and everything that they reach as they were.                            *)
LEMMA FreeKeepsGraph ==
    ASSUME TypeOK, ListOK, SweepOK, Sweep, objects[at] \notin marked
    PROVE  /\ objects[at] \notin Kept /\ Listed' = Listed \ {objects[at]}
           /\ Passed' = Passed /\ Len(objects') = Len(objects) - 1
           /\ AllRoots' = AllRoots /\ Closure(AllRoots, Edges)' = Closure(AllRoots, Edges)
  <1> DEFINE z == objects[at]
             C == Closure(AllRoots, Edges)
  <1>1. /\ objects \in Seq(Objs) /\ Len(objects) \in Nat /\ at \in 1 .. Len(objects)
        /\ pc = "sweep" /\ z \in Objs
    BY DEF TypeOK, SweepOK, Sweep
  <1>2. /\ objects' = RemoveAt(objects, at) /\ UNCHANGED <<marked, at, stack, temps>>
        /\ kind' = [kind EXCEPT ![z] = "free"] /\ field' = [field EXCEPT ![z] = Null]
        /\ home' = [home EXCEPT ![z] = Closed]
    BY DEF Sweep, FreeObject
  <1>3. /\ Len(objects') = Len(objects) - 1 /\ \A i \in 1 .. at - 1 : objects'[i] = objects[i]
        /\ Range(objects') = Range(objects) \ {z}
    BY <1>1, <1>2, RangeRemoveAt DEF ListOK
  <1>4. Passed' = Passed
    BY <1>1, <1>2, <1>3 DEF Passed
  <1>5. z \notin Kept
    <2>1. \A i \in 1 .. at - 1 : objects[i] # z
      BY <1>1 DEF ListOK
    <2> QED
      BY <2>1 DEF Kept, Passed
  <1>6. Listed' = Listed \ {z}
    BY <1>3 DEF Listed
  <1> HIDE DEF z
  <1>7. C = Kept /\ z \notin C
    BY <1>1, <1>5 DEF SweepOK
  <1>8. /\ AllRoots \subseteq Objs /\ Edges \in [Objs -> SUBSET Objs]
        /\ \A o \in Objs : Edges[o] = Children(o)
        /\ AllRoots \subseteq C /\ C \subseteq Objs /\ ClosedUnder(C, Edges)
    BY Typed, ClosureLeast
  <1>9. TypeOK'
    BY TypeStep DEF Next
  <1>10. /\ kind \in [Objs -> Kinds \cup {"free"}] /\ field \in [Objs -> Refs]
         /\ home \in [Objs -> Objs \cup (1 .. StackMax) \cup {Closed}]
         /\ Listed \subseteq Objs
    BY Typed DEF TypeOK
  <1>11. AllRoots' = AllRoots
    <2>1. Roots' = Roots
      BY <1>2 DEF Roots
    <2>2. \A u \in Listed \ {z} : kind'[u] = kind[u] /\ home'[u] = home[u]
      BY <1>2, <1>10
    <2>3. z \notin OpenUpvaluesOfCore0
      BY <1>7, <1>8 DEF AllRoots
    <2>4. OpenUpvaluesOfCore0' = OpenUpvaluesOfCore0
      BY <1>6, <2>2, <2>3 DEF OpenUpvaluesOfCore0, Listed
    <2> QED
      BY <2>1, <2>4 DEF AllRoots
  <1>12. \A o \in C : Children(o)' = Children(o)
    <2> SUFFICES ASSUME NEW o \in C PROVE Children(o)' = Children(o)
      OBVIOUS
    <2>1. o \in Objs /\ o # z /\ Children(o) \subseteq C
      BY <1>7, <1>8 DEF ClosedUnder
    <2>2. kind'[o] = kind[o] /\ field'[o] = field[o]
      BY <1>2, <1>10, <2>1
    <2>3. CASE kind[o] = "routine"
      <3>1. z \notin OpenAt(o)
        BY <1>7, <2>1, <2>3 DEF Children
      <3>2. \A u \in Listed \ {z} : kind'[u] = kind[u] /\ home'[u] = home[u]
        BY <1>2, <1>10
      <3>3. OpenAt(o)' = OpenAt(o)
        BY <1>6, <3>1, <3>2 DEF OpenAt, Listed
      <3> QED
        BY <2>2, <2>3, <3>3 DEF Children
    <2>4. CASE kind[o] # "routine"
      BY <2>2, <2>4 DEF Children
    <2> QED
      BY <2>3, <2>4
  <1>13. Edges' \in [Objs -> SUBSET Objs] /\ \A o \in C : Edges'[o] = Edges[o]
    <2>1. \A o \in Objs : Children(o)' \subseteq Objs
      <3>1. Range(objects') \subseteq Objs
        BY <1>6, <1>10 DEF Listed
      <3>2. field' \in [Objs -> Refs]
        BY <1>9 DEF TypeOK
      <3> QED
        BY <3>1, <3>2 DEF Children, OpenAt, Refs
    <2> QED
      BY <1>8, <1>12, <2>1 DEF Edges
  <1>14. Closure(AllRoots, Edges') = C
    BY <1>8, <1>13, ClosureStable
  <1>15. C' = C
    BY <1>11, <1>14
  <1> QED
    BY <1>3, <1>4, <1>5, <1>6, <1>11, <1>15 DEF z

(* Sweep moves marked objects from "to pass" to "passed" and unlinks only  *)
(* objects that are neither.                                               *)
LEMMA SweepStep ==
    ASSUME TypeOK, ListOK, GraphOK, TraceOK, SweepOK, [Next]_vars PROVE SweepOK'
  <1> SUFFICES ASSUME pc' = "sweep" PROVE SweepOK'
    BY DEF SweepOK
  <1>1. objects \in Seq(Objs) /\ Len(objects) \in Nat
    BY DEF TypeOK
  <1>2. CASE RemoveWhite
    <2>1. /\ pc = "trace" /\ gray = {} /\ gray' = {} /\ at' = 1 /\ marked' = marked
          /\ strings' = strings \cap marked /\ objects' = objects
      BY <1>2 DEF RemoveWhite
    <2>2. marked = Closure(AllRoots, Edges) /\ marked \subseteq Listed
      BY <2>1, TraceEnd
    <2>3. Listed' = Listed /\ Closure(AllRoots, Edges)' = Closure(AllRoots, Edges)
      BY <1>2, SameGraph DEF RemoveWhite, mutatorVars
    <2>4. Passed' = {} /\ Kept' = marked
      BY <2>1 DEF Passed, Kept
    <2> QED
      BY <1>1, <2>1, <2>2, <2>3, <2>4 DEF SweepOK
  <1>3. CASE Sweep /\ objects[at] \in marked
    <2>1. /\ pc = "sweep" /\ at \in 1 .. Len(objects) /\ at' = at + 1 /\ objects' = objects
          /\ marked' = marked \ {objects[at]} /\ UNCHANGED <<gray, strings>>
      BY <1>1, <1>3 DEF Sweep, SweepOK
    <2>2. Listed' = Listed /\ Closure(AllRoots, Edges)' = Closure(AllRoots, Edges)
      BY <1>3, SameGraph DEF Sweep
    <2>3. Passed' = Passed \cup {objects[at]}
      BY <1>1, <2>1 DEF Passed
    <2>4. Kept' = Kept
      BY <1>3, <2>1, <2>3 DEF Kept
    <2> QED
      BY <1>1, <2>1, <2>2, <2>3, <2>4 DEF SweepOK
  <1>4. CASE Sweep /\ objects[at] \notin marked
    <2>1. /\ pc = "sweep" /\ at \in 1 .. Len(objects) /\ UNCHANGED <<marked, at, gray, strings>>
      BY <1>1, <1>4 DEF Sweep, SweepOK
    <2>2. /\ objects[at] \notin Kept /\ Listed' = Listed \ {objects[at]}
          /\ Passed' = Passed /\ Len(objects') = Len(objects) - 1
          /\ Closure(AllRoots, Edges)' = Closure(AllRoots, Edges)
      BY <1>4, FreeKeepsGraph
    <2>3. Kept' = Kept
      BY <2>1, <2>2 DEF Kept
    <2> QED
      BY <1>1, <2>1, <2>2, <2>3 DEF SweepOK
  <1>5. CASE UNCHANGED vars
    <2>1. Listed' = Listed /\ Closure(AllRoots, Edges)' = Closure(AllRoots, Edges)
      BY <1>5, SameGraph DEF vars, mutatorVars
    <2>2. Passed' = Passed /\ Kept' = Kept
      BY <1>5 DEF vars, Passed, Kept
    <2> QED
      BY <1>5, <2>1, <2>2 DEF SweepOK, vars
  <1>6. ~MutatorStep
    BY MutatorFrame
  <1> QED
    BY <1>2, <1>3, <1>4, <1>5, <1>6, NextCases
       DEF AllocateCall, AllocateObject, OutOfMemory, TempRootOverflow, MarkRoots, Blacken,
           SweepDone, mutatorVars

(* The intern table loses a string before sweep can free it.               *)
LEMMA StringsStep ==
    ASSUME TypeOK, ListOK, GraphOK, TraceOK, SweepOK, StringsAlive, [Next]_vars
    PROVE  StringsAlive'
  <1>1. CASE Intern
    <2>1. temps \in Seq(Objs) /\ temps # <<>> /\ Null \notin Objs /\ pc = "run"
      BY <1>1, HeapAssumption DEF TypeOK, Intern
    <2>2. Last(temps) \in Range(temps) /\ Last(temps) \in Objs
      BY <2>1, RangeFront
    <2>3. Last(temps) \in Listed
      BY <2>1, <2>2 DEF GraphOK, Roots
    <2> QED
      BY <1>1, <2>3 DEF Intern, StringsAlive, Listed
  <1>2. ASSUME NEW o \in Objs, AllocateObject(o) PROVE StringsAlive'
    <2>1. Range(objects') = Range(objects) \cup {o}
      BY <1>2, RangeCons DEF AllocateObject, TypeOK
    <2> QED
      BY <1>2, <2>1 DEF AllocateObject, StringsAlive
  <1>3. CASE Sweep
    <2>1. SweepOK'
      BY SweepStep
    <2>2. pc' = "sweep"
      BY <1>3 DEF Sweep
    <2> QED
      BY <2>1, <2>2 DEF SweepOK, StringsAlive, Listed
  <1>4. CASE RemoveWhite
    BY <1>4 DEF RemoveWhite, StringsAlive
  <1>5. CASE UNCHANGED <<objects, strings>>
    BY <1>5 DEF StringsAlive
  <1>6. CASE MutatorStep /\ ~Intern
    BY <1>5, <1>6 DEF MutatorStep, FindString, Finish, TempRootPush, TempRootPop, LinkPart,
         PushLocal, Discard, GetField, SetField, Pop, Capture, Recapture
  <1> QED
    BY <1>1, <1>2, <1>3, <1>4, <1>5, <1>6, NextCases
       DEF AllocateCall, OutOfMemory, TempRootOverflow, MarkRoots, Blacken, SweepDone, vars

(* captureUpvalue makes an upvalue only when the variable has none, and    *)
(* popping a variable closes it.                                           *)
LEMMA UpvaluesStep ==
    ASSUME TypeOK, ListOK, SweepOK, UpvaluesAreVariables, [Next]_vars
    PROVE  UpvaluesAreVariables'
  <1>1. /\ objects \in Seq(Objs) /\ Listed \subseteq Objs /\ stack \in Seq(Refs)
        /\ home \in [Objs -> Objs \cup (1 .. StackMax) \cup {Closed}]
        /\ kind \in [Objs -> Kinds \cup {"free"}]
        /\ Closed \notin Nat /\ Objs \cap Nat = {} /\ Len(stack) \in Nat /\ StackMax \in Nat
    BY Typed, HeapAssumption DEF TypeOK
  <1>2. \A u \in Listed : kind[u] = "upvalue" /\ home[u] \in Nat =>
          /\ home[u] <= Len(stack)
          /\ \A v \in Listed : kind[v] = "upvalue" /\ home[v] = home[u] => v = u
    BY DEF UpvaluesAreVariables, OpenUpvaluesOfCore0, OpenAt, Listed
  <1> SUFFICES \A u \in Listed' : kind'[u] = "upvalue" /\ home'[u] \in Nat =>
          /\ home'[u] <= Len(stack')
          /\ \A v \in Listed' : kind'[v] = "upvalue" /\ home'[v] = home'[u] => v = u
    BY DEF UpvaluesAreVariables, OpenUpvaluesOfCore0, OpenAt, Listed
  <1> DEFINE Goal == \A u \in Listed' : kind'[u] = "upvalue" /\ home'[u] \in Nat =>
          /\ home'[u] <= Len(stack')
          /\ \A v \in Listed' : kind'[v] = "upvalue" /\ home'[v] = home'[u] => v = u
  <1>3. CASE UNCHANGED <<objects, kind, home, stack>>
    BY <1>2, <1>3 DEF Listed
  <1>4. ASSUME NEW x \in Refs, UNCHANGED <<objects, kind, home>>, Push(x) PROVE Goal
    <2>1. Len(stack') = Len(stack) + 1
      BY <1>4, PushType
    <2> QED
      BY <1>1, <1>2, <1>4, <2>1 DEF Listed
  <1>5. CASE Pop
    <2>1. Len(stack') = Len(stack) - 1 /\ Len(stack) \in Nat \ {0}
      BY <1>1, <1>5, RangeFront DEF Pop
    <2>2. home' = [u \in Objs |-> IF u \in OpenAt(Len(stack)) THEN Closed ELSE home[u]]
          /\ Listed' = Listed /\ kind' = kind
      BY <1>5 DEF Pop, CloseUpvalues, Listed
    <2>3. \A u \in Listed : u \in OpenAt(Len(stack)) <=> kind[u] = "upvalue" /\ home[u] = Len(stack)
      BY DEF OpenAt, Listed
    <2> QED
      BY <1>1, <1>2, <2>1, <2>2, <2>3
  <1>6. ASSUME NEW r \in Objs, Finish(r) PROVE Goal
    <2>1. home' = [u \in Objs |-> IF u \in OpenAt(r) THEN Closed ELSE home[u]]
          /\ Listed' = Listed /\ kind' = kind /\ stack' = stack
      BY <1>6 DEF Finish, CloseUpvalues, Listed
    <2> QED
      BY <1>1, <1>2, <2>1
  <1>7. ASSUME NEW h \in (1 .. StackMax) \cup Objs, Capture(h) PROVE Goal
    <2>1. /\ home' = [home EXCEPT ![local] = h] /\ Listed' = Listed /\ kind' = kind
          /\ stack' = stack /\ local \in Objs
      BY <1>7 DEF Capture, Listed, TypeOK, Refs
    <2>2. h \in 1 .. Len(stack) \/ h \in Objs
      BY <1>7, Typed DEF Capture, Captured, Suspended, Refs
    <2>3. \A v \in Listed : kind[v] = "upvalue" => home[v] # h
      BY <1>7 DEF Capture, OpenAt, Listed
    <2>4. h \in Nat => h <= Len(stack)
      BY <1>1, <2>2
    <2> QED
      BY <1>1, <1>2, <2>1, <2>3, <2>4
  <1>8. ASSUME NEW o \in Objs, AllocateObject(o) PROVE Goal
    <2>1. /\ home' = [home EXCEPT ![o] = Closed] /\ kind' = [kind EXCEPT ![o] = want]
          /\ stack' = stack /\ o \notin Listed /\ objects' = <<o>> \o objects
      BY <1>8 DEF AllocateObject, ListOK
    <2>2. Listed' = Listed \cup {o}
      BY <1>1, <2>1, RangeCons DEF Listed
    <2> QED
      BY <1>1, <1>2, <2>1, <2>2
  <1>9. CASE Sweep
    <2>1. CASE objects[at] \in marked
      BY <1>3, <1>9, <2>1 DEF Sweep
    <2>2. CASE objects[at] \notin marked
      <3>1. Listed' = Listed \ {objects[at]}
        BY <1>9, <2>2, FreeKeepsGraph
      <3>2. /\ home' = [home EXCEPT ![objects[at]] = Closed]
            /\ kind' = [kind EXCEPT ![objects[at]] = "free"] /\ stack' = stack
        BY <1>9, <2>2 DEF Sweep, FreeObject
      <3>3. \A u \in Listed' : u \in Listed /\ kind'[u] = kind[u] /\ home'[u] = home[u]
        BY <1>1, <3>1, <3>2
      <3> QED
        BY <1>2, <3>2, <3>3
    <2> QED
      BY <2>1, <2>2
  <1>10. CASE PushLocal
    BY <1>4, <1>10 DEF PushLocal, TypeOK
  <1>11. CASE GetField
    <2>1. Last(stack) \in Refs /\ Last(stack) # Null
      BY <1>1, <1>11, RangeFront DEF GetField
    <2>2. field[Last(stack)] \in Refs
      BY <2>1 DEF TypeOK, Refs
    <2> QED
      BY <1>4, <1>11, <2>2 DEF GetField
  <1>12. CASE MutatorStep
    BY <1>3, <1>5, <1>6, <1>7, <1>10, <1>11, <1>12
       DEF MutatorStep, FindString, TempRootPush, TempRootPop, LinkPart, Intern, Discard,
           SetField, Recapture, mutatorVars
  <1> QED
    BY <1>3, <1>8, <1>9, <1>12, NextCases
       DEF AllocateCall, OutOfMemory, TempRootOverflow, MarkRoots, Blacken, RemoveWhite,
           SweepDone, vars, mutatorVars

-----------------------------------------------------------------------------
(* An empty heap satisfies the invariant.                                  *)
LEMMA InitInv == Init => Inv
  <1> SUFFICES ASSUME Init PROVE Inv
    OBVIOUS
  <1>1. StackMax \in Nat /\ TempRootsMax \in Nat
    BY HeapAssumption
  <1>2. TypeOK
    BY <1>1 DEF Init, TypeOK, Kinds, Refs
  <1>3. Listed = {} /\ Range(stack) = {} /\ Range(temps) = {}
    BY DEF Init, Listed, Range
  <1>4. ListOK /\ GraphOK
    BY <1>3 DEF Init, ListOK, GraphOK, Roots
  <1>5. IdleOK /\ TraceOK /\ SweepOK
    BY DEF Init, IdleOK, TraceOK, SweepOK
  <1>6. StringsAlive /\ UpvaluesAreVariables
    BY <1>3 DEF Init, StringsAlive, UpvaluesAreVariables, OpenUpvaluesOfCore0, Listed
  <1> QED
    BY <1>2, <1>4, <1>5, <1>6 DEF Inv

(* The invariant of the heap holds in every state, for any number of       *)
(* objects, stack slots and temporary roots, and whether or not closures   *)
(* capture variables of routines.                                          *)
THEOREM HeapInvariant == Spec => []Inv
  <1>1. Inv /\ [Next]_vars => Inv'
    BY TypeStep, ListStep, GraphStep, IdleStep, TraceStep, SweepStep, StringsStep, UpvaluesStep
       DEF Inv
  <1> QED
    BY InitInv, <1>1, PTL DEF Spec

(* The fixed array of temporary roots is never overrun, whatever is built. *)
THEOREM TypeCorrect == Spec => []TypeOK
  BY HeapInvariant, PTL DEF Inv

(* The intern table never holds a freed string.                            *)
THEOREM InternedAreAlive == Spec => []StringsAlive
  BY HeapInvariant, PTL DEF Inv

(* An open upvalue of core0 is the only one of a variable on the stack.    *)
THEOREM UpvaluesShareVariables == Spec => []UpvaluesAreVariables
  BY HeapInvariant, PTL DEF Inv

(* Whatever the collector sees a path to, from the roots or from the C     *)
(* variable, has not been freed.                                           *)
LEMMA ReachableIsListed ==
    ASSUME Inv
    PROVE  Closure(AllRoots \cup ({local} \ {Null}), Edges) \subseteq Listed
  <1> USE DEF Inv
  <1>1. /\ Listed \subseteq Objs /\ AllRoots \subseteq Objs /\ Edges \in [Objs -> SUBSET Objs]
        /\ \A o \in Objs : Edges[o] = Children(o) /\ local \in Objs \cup {Null}
    BY Typed DEF TypeOK, Refs
  <1>2. CASE pc = "sweep"
    <2>1. AllRoots \cup ({local} \ {Null}) = AllRoots
      BY <1>2 DEF IdleOK
    <2> QED
      BY <1>2, <2>1 DEF SweepOK
  <1>3. CASE pc # "sweep"
    <2>1. /\ Roots \subseteq Listed /\ local \in Listed \cup {Null}
          /\ \A o \in Listed : kind[o] # "string" => field[o] \in Listed \cup {Null}
      BY <1>3 DEF GraphOK
    <2>2. \A o \in Listed : Children(o) \subseteq Listed
      BY <2>1, ReachedIsListed
    <2>3. AllRoots \cup ({local} \ {Null}) \subseteq Listed
      BY <2>1 DEF AllRoots, OpenUpvaluesOfCore0, Listed
    <2>4. ClosedUnder(Listed, Edges)
      BY <1>1, <2>2 DEF ClosedUnder
    <2>5. AllRoots \cup ({local} \ {Null}) \in SUBSET Objs
      BY <1>1, <2>3
    <2> QED
      BY <1>1, <2>3, <2>4, <2>5, ClosureLeast
  <1> QED
    BY <1>2, <1>3

(* No upvalue has its variable in a routine.                               *)
HomesOK == \A u \in Objs : home[u] \notin Objs

(* When closures do not capture the variables of routines, nothing that    *)
(* the program can use is ever freed: an open upvalue of a routine would   *)
(* need that routine, which blackenObject does not mark for it.            *)
THEOREM NothingInUseFreed == ASSUME ~Escapes PROVE Spec => []NoDangling
  <1>1. Init => HomesOK
    BY HeapAssumption DEF Init, HomesOK
  <1>2. ASSUME Inv, HomesOK, [Next]_vars PROVE HomesOK'
    <2>1. home \in [Objs -> Objs \cup (1 .. StackMax) \cup {Closed}] /\ Closed \notin Objs
          /\ Objs \cap Nat = {}
      BY <1>2, HeapAssumption DEF Inv, TypeOK
    <2>2. ASSUME NEW h \in (1 .. StackMax) \cup Objs, Capture(h) PROVE HomesOK'
      <3>1. home' = [home EXCEPT ![local] = h] /\ h \notin Objs
        BY <2>1, <2>2 DEF Capture, Captured
      <3> QED
        BY <1>2, <2>1, <3>1 DEF HomesOK
    <2>3. ASSUME NEW h, NEW p, CloseUpvalues(h, p) PROVE HomesOK'
      BY <1>2, <2>1, <2>3 DEF CloseUpvalues, HomesOK
    <2>4. ASSUME NEW o \in Objs, AllocateObject(o) PROVE HomesOK'
      BY <1>2, <2>1, <2>4 DEF AllocateObject, HomesOK
    <2>5. CASE Sweep
      BY <1>2, <2>1, <2>5 DEF Sweep, FreeObject, HomesOK
    <2>6. CASE UNCHANGED home
      BY <1>2, <2>6 DEF HomesOK
    <2>7. CASE MutatorStep
      BY <2>2, <2>3, <2>6, <2>7
         DEF MutatorStep, FindString, Finish, TempRootPush, TempRootPop, LinkPart, Intern,
             PushLocal, Discard, GetField, SetField, Pop, Recapture, mutatorVars
    <2> QED
      BY <1>2, <2>4, <2>5, <2>6, <2>7, NextCases
         DEF AllocateCall, OutOfMemory, TempRootOverflow, MarkRoots, Blacken, RemoveWhite,
             SweepDone, vars, mutatorVars
  <1>3. ASSUME Inv, HomesOK PROVE NoDangling
    <2>1. \A o \in Objs : Needs(o) = Children(o)
      BY <1>3 DEF HomesOK, Needs
    <2>2. [o \in Objs |-> Needs(o)] = Edges
      BY <2>1 DEF Edges
    <2> QED
      BY <1>3, <2>2, ReachableIsListed DEF NoDangling, InUse, Listed
  <1> QED
    BY <1>1, <1>2, <1>3, HeapInvariant, PTL DEF Spec

(* A collection leaves exactly what the roots reach, and no mark.          *)
THEOREM CollectionIsExact == Spec => GarbageGoes
  <1>1. ASSUME Inv, [Next]_vars
        PROVE  [SweepDone => /\ marked = {}
                             /\ Range(objects) = Closure(AllRoots, [o \in Objs |-> Children(o)])]_vars
    <2> SUFFICES ASSUME SweepDone
                 PROVE  marked = {} /\ Listed = Closure(AllRoots, Edges)
      BY DEF Listed, Edges
    <2> QED
      BY <1>1, SweepEnd DEF SweepDone, Inv
  <1> QED
    BY <1>1, HeapInvariant, PTL DEF Spec, GarbageGoes
=============================================================================
