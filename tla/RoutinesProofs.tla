--------------------------- MODULE RoutinesProofs ---------------------------
(***************************************************************************)
(* In a careful program no two contexts run one routine, no stack is left  *)
(* but by one resume too many, and what receive() reports is final: for    *)
(* any number of routines, frames and pinned slots and every interleaving  *)
(* of two cores and an interrupt.                                          *)
(***************************************************************************)
EXTENDS Routines, SequenceTheorems, FiniteSetTheorems, TLAPS

States == {"UNBOUND", "RUNNING", "SUSPENDED", "CLOSED", "ERROR"}

TypeOK ==
    /\ state \in [All -> States] /\ frames \in [All -> Int] /\ top \in [All -> Int]
    /\ chain \in [Contexts -> Seq(All)] /\ target \in [Contexts -> Routines \cup {None}]
    /\ call \in [Contexts -> {"none", "resume", "receive", "start", "launch", "leave"}]
    /\ core1 \in Routines \cup {None} /\ pinned \in [Slots -> Routines \cup {None}]

(* A chain starts with the routine its context is for, goes on with        *)
(* coroutines of that context, each once, and all of it is RUNNING.        *)
ChainsOK ==
    /\ \A c \in Contexts : \A i \in 2 .. Len(chain[c]) : chain[c][i] \in Resumable \cap Uses[c]
    /\ chain["core0"] # <<>> => chain["core0"][1] = Main
    /\ chain["core1"] # <<>> => chain["core1"][1] = core1
    /\ chain["isr"] # <<>> => \E s \in Slots : chain["isr"][1] = pinned[s]
    /\ \A c \in Contexts : \A i, j \in 1 .. Len(chain[c]) : chain[c][i] = chain[c][j] => i = j
    /\ \A c \in Contexts : \A i \in 1 .. Len(chain[c]) : state[chain[c][i]] = "RUNNING"

(* vm.core1 is set from the launch until the routine has been re-entered.  *)
Core1OK ==
    /\ core1 \in Startable \cup {None}
    /\ core1 = None => chain["core1"] = <<>> /\ call["core1"] = "none"
    /\ core1 # None => (chain["core1"] = <<>> <=> call["core1"] \in {"launch", "leave"})
    /\ call["core1"] = "launch" => state[core1] = "RUNNING"
    /\ call["core1"] = "leave" =>
         state[core1] = "CLOSED" /\ frames[core1] = 0 /\ top[core1] = 1

(* A pinned routine has its entry frame, running or not.                   *)
PinnedOK ==
    /\ \A s \in Slots : pinned[s] # None =>
         /\ pinned[s] \in Pinnable /\ Arity[pinned[s]] = 0
         /\ frames[pinned[s]] = 1 /\ top[pinned[s]] = 1
    /\ \A r \in Pinnable \cap Routines : (\A s \in Slots : pinned[s] # r) =>
         frames[r] = 0 /\ top[r] = 0

(* What a builtin has tested is still so when it acts on it.               *)
CallsOK ==
    \A c \in Contexts :
      /\ call[c] \in {"launch", "leave"} => c = "core1"
      /\ call[c] \in {"resume", "receive", "start"} => chain[c] # <<>>
      /\ call[c] = "resume" =>
           target[c] \in Resumable \cap Uses[c] /\ state[target[c]] \in {"SUSPENDED", "UNBOUND"}
      /\ call[c] \in {"receive", "start"} => target[c] \in Startable \cap Uses[c]
      /\ call[c] = "start" => c # "core1" /\ state[target[c]] = "UNBOUND" /\ core1 = None

(* A coroutine that is alive has its function and the arguments of every   *)
(* entry on its stack; one for core 1 has been entered once.               *)
Height(r) == 1 + (IF Arity[r] = 1 THEN frames[r] ELSE 0)
HeightsOK ==
    /\ \A r \in (Resumable \cup Startable) \cap Routines :
         state[r] = "UNBOUND" => frames[r] = 0 /\ top[r] = 0
    /\ \A r \in Resumable \cap Routines : state[r] \in {"RUNNING", "SUSPENDED"} =>
         frames[r] >= 1 /\ top[r] = Height(r)
    /\ \A r \in Startable \cap Routines : state[r] = "RUNNING" =>
         frames[r] = 1 /\ top[r] = Arity[r] + 1

(* RUNNING means that some context runs it, or core 1 is about to.         *)
SomeoneRuns ==
    \A r \in Routines : state[r] = "RUNNING" =>
        \/ \E c \in Contexts : \E i \in 1 .. Len(chain[c]) : chain[c][i] = r
        \/ r = core1 /\ call["core1"] = "launch"

Inside == ~wild

(* Who runs what holds even after a coroutine was resumed once too often;  *)
(* the heights do not, and nothing is said of what follows.                *)
Shape == TypeOK /\ ChainsOK /\ Core1OK /\ PinnedOK /\ CallsOK /\ SomeoneRuns
Inv == Shape /\ HeightsOK /\ Inside
IInv == Shape /\ (Inside => HeightsOK)

-----------------------------------------------------------------------------
(* What the constants are.                                                 *)
LEMMA Constants ==
    /\ Routines \subseteq All /\ Main \in All /\ Main \notin Routines /\ None \notin All
    /\ Arity \in [Routines -> {0, 1}] /\ Uses \in [Contexts -> SUBSET Routines]
    /\ FramesMax \in Nat \ {0}
    /\ "core0" \in Contexts /\ "core1" \in Contexts /\ "isr" \in Contexts
    /\ \A c \in Contexts : c = "core0" \/ c = "core1" \/ c = "isr"
    /\ \A r \in All : r = Main \/ r \in Routines
  BY RoutinesAssumption DEF All, Contexts

(* Chains are sequences; the innermost routine is the last one.            *)
LEMMA ChainFacts ==
    ASSUME TypeOK, NEW c \in Contexts
    PROVE  /\ chain[c] \in Seq(All) /\ Len(chain[c]) \in Nat
           /\ chain[c] = <<>> <=> Len(chain[c]) = 0
           /\ \A i \in 1 .. Len(chain[c]) : chain[c][i] \in All
  BY DEF TypeOK

(* Entering a routine puts it last.                                        *)
LEMMA AppendFacts ==
    ASSUME NEW s \in Seq(All), NEW r \in All
    PROVE  /\ Append(s, r) \in Seq(All) /\ Len(Append(s, r)) = Len(s) + 1
           /\ Append(s, r)[Len(s) + 1] = r /\ Append(s, r) # <<>>
           /\ \A i \in 1 .. Len(s) : Append(s, r)[i] = s[i]
  BY AppendProperties

(* Leaving a routine removes the last one only.                            *)
LEMMA FrontFacts ==
    ASSUME NEW s \in Seq(All), s # <<>>
    PROVE  /\ Front(s) \in Seq(All) /\ Len(Front(s)) = Len(s) - 1
           /\ \A i \in 1 .. Len(s) - 1 : Front(s)[i] = s[i]
           /\ Len(s) \in Nat \ {0} /\ (Front(s) = <<>> <=> Len(s) = 1)
  <1> DEFINE n == Len(s) - 1
  <1>1. n \in Nat /\ \A i \in 1 .. n : s[i] \in All
    OBVIOUS
  <1> HIDE DEF n
  <1>2. /\ SubSeq(s, 1, n) \in Seq(All) /\ Len(SubSeq(s, 1, n)) = n
        /\ \A i \in 1 .. n : SubSeq(s, 1, n)[i] = s[i]
    BY <1>1, SubSeqProperties
  <1>3. Front(s) = SubSeq(s, 1, n)
    BY DEF Front, n
  <1>4. Front(s) = <<>> <=> n = 0
    BY <1>1, <1>2, <1>3
  <1> QED
    BY <1>1, <1>2, <1>3, <1>4 DEF n

(* The innermost routine of a context and what it can be.                  *)
LEMMA ExecutesFacts ==
    ASSUME Inv, NEW c \in Contexts, NEW r, Executes(c, r)
    PROVE  /\ chain[c] # <<>> /\ Len(chain[c]) >= 1 /\ Len(chain[c]) \in Nat
           /\ r = chain[c][Len(chain[c])] /\ r \in All /\ state[r] = "RUNNING"
           /\ \/ Len(chain[c]) > 1 /\ r \in Resumable \cap Uses[c]
              \/ Len(chain[c]) = 1 /\ c = "core0" /\ r = Main
              \/ Len(chain[c]) = 1 /\ c = "core1" /\ r = core1 /\ r \in Startable
              \/ Len(chain[c]) = 1 /\ c = "isr" /\ \E s \in Slots : r = pinned[s]
  <1>1. /\ chain[c] # <<>> /\ Len(chain[c]) \in Nat /\ Len(chain[c]) >= 1
        /\ r = chain[c][Len(chain[c])] /\ r \in All
    <2>1. chain[c] # <<>> /\ r = chain[c][Len(chain[c])]
      BY DEF Executes, Last
    <2>2. chain[c] \in Seq(All) /\ Len(chain[c]) \in Nat /\ Len(chain[c]) # 0
      BY <2>1, ChainFacts DEF Inv, Shape
    <2>3. Len(chain[c]) >= 1 /\ Len(chain[c]) \in 1 .. Len(chain[c])
      BY <2>2
    <2>4. r \in All
      BY <2>1, <2>3, ChainFacts DEF Inv, Shape
    <2> QED
      BY <2>1, <2>2, <2>3, <2>4, Zenon
  <1>2. state[r] = "RUNNING"
    BY <1>1 DEF Inv, Shape, ChainsOK
  <1>3. CASE Len(chain[c]) > 1
    BY <1>1, <1>2, <1>3 DEF Inv, Shape, ChainsOK
  <1>4. CASE Len(chain[c]) = 1
    <2>1. r = chain[c][1]
      BY <1>1, <1>4
    <2>2. c = "core1" => core1 \in Startable
      BY <1>1 DEF Inv, Shape, Core1OK
    <2> QED
      BY <1>1, <1>2, <1>4, <2>1, <2>2, Constants DEF Inv, Shape, ChainsOK
  <1>5. Len(chain[c]) > 1 \/ Len(chain[c]) = 1
    <2> DEFINE n == Len(chain[c])
    <2>1. n \in Nat /\ n >= 1
      BY <1>1
    <2> HIDE DEF n
    <2>2. n > 1 \/ n = 1
      BY <2>1
    <2> QED
      BY <2>2 DEF n
  <1> QED
    BY <1>3, <1>4, <1>5, Zenon

-----------------------------------------------------------------------------
(* Steps that only note which builtin a context is in: the tests of resume *)
(* and start, the begin of a receive and its normal end.                   *)
LEMMA NoteStep ==
    ASSUME Inv, NEW c \in Contexts, chain[c] # <<>>,
           call[c] \in {"none", "resume", "receive"},
           NEW b \in {"none", "resume", "receive", "start"}, NEW t \in Routines \cup {None},
           call' = [call EXCEPT ![c] = b], target' = [target EXCEPT ![c] = t],
           UNCHANGED <<state, frames, top, chain, core1, pinned, wild>>,
           b = "resume" => t \in Resumable \cap Uses[c] /\ state[t] \in {"SUSPENDED", "UNBOUND"},
           b \in {"receive", "start"} => t \in Startable \cap Uses[c],
           b = "start" => state[t] = "UNBOUND" /\ core1 = None
    PROVE  Inv'
  <1> USE DEF Inv, Shape
  <1>1. TypeOK'
    BY DEF TypeOK
  <1>2. ChainsOK'
    BY DEF ChainsOK
  <1>3. Core1OK'
    BY Constants DEF Core1OK, TypeOK
  <1>4. PinnedOK'
    BY DEF PinnedOK
  <1>5. CallsOK'
    <2>1. b = "start" => c # "core1"
      BY DEF Core1OK
    <2>2. call'[c] = b /\ target'[c] = t
      BY DEF TypeOK
    <2>3. \A d \in Contexts : d # c => call'[d] = call[d] /\ target'[d] = target[d]
      BY DEF TypeOK
    <2> QED
      BY <2>1, <2>2, <2>3 DEF CallsOK
  <1>6. HeightsOK'
    BY DEF HeightsOK, Height
  <1>7. SomeoneRuns'
    BY Constants DEF SomeoneRuns, TypeOK
  <1>8. Inside'
    BY DEF Inside
  <1> QED
    BY <1>1, <1>2, <1>3, <1>4, <1>5, <1>6, <1>7, <1>8

(* The resume test: what it saw can be relied on later.                    *)
LEMMA ResumeTestInv ==
    ASSUME Inv, NEW c \in Contexts, NEW t \in Routines, ResumeTest(c, t)
    PROVE  Inv'
  <1>1. chain[c] # <<>> /\ call[c] = "none" /\ t \in Uses[c]
    BY DEF ResumeTest, Calls, Executes, Free
  <1> QED
    BY <1>1, NoteStep DEF ResumeTest

(* The start test: the routine is new and core 1 is free.                  *)
LEMMA StartTestInv ==
    ASSUME Inv, NEW c \in Contexts, NEW t \in Routines, StartTest(c, t)
    PROVE  Inv'
  <1>1. chain[c] # <<>> /\ call[c] = "none" /\ t \in Uses[c]
    BY DEF StartTest, Calls, Executes, Free
  <1> QED
    BY <1>1, NoteStep DEF StartTest

(* receive() is called on a routine for core 1.                            *)
LEMMA ReceiveCallInv ==
    ASSUME Inv, NEW c \in Contexts, NEW t \in Routines, ReceiveCall(c, t)
    PROVE  Inv'
  <1>1. chain[c] # <<>> /\ call[c] = "none" /\ t \in Uses[c]
    BY DEF ReceiveCall, Calls, Executes, Free
  <1> QED
    BY <1>1, NoteStep DEF ReceiveCall

(* receive() returns.                                                      *)
LEMMA ReceiveInv ==
    ASSUME Inv, NEW c \in Contexts, Receive(c)
    PROVE  Inv'
  <1>1. chain[c] # <<>> /\ call[c] = "receive"
    BY DEF Receive, InCall, Executes
  <1> QED
    BY <1>1, NoteStep DEF Receive

(* A return to an earlier entry of a coroutine.                            *)
LEMMA InnerReturnInv ==
    ASSUME CarefulUse, Inv, NEW c \in Contexts, NEW r \in Routines, InnerReturn(c, r)
    PROVE  Inv'
  <1> USE DEF Inv, Shape
  <1>1. /\ UNCHANGED <<state, chain, target, call, core1, pinned, wild>>
        /\ frames' = [frames EXCEPT ![r] = @ - 1] /\ top' = [top EXCEPT ![r] = @ - Arity[r]]
        /\ frames[r] > 1 /\ Executes(c, r)
    BY DEF InnerReturn, MayEnd
  <1>2. frames \in [All -> Int] /\ top \in [All -> Int] /\ Arity[r] \in {0, 1} /\ r \in All
    BY Constants DEF TypeOK
  <1>3. r \in Resumable /\ state[r] = "RUNNING" /\ r \notin Startable /\ r \notin Pinnable
    <2>1. r \in Startable => frames[r] = 1
      BY <1>1, ExecutesFacts DEF HeightsOK
    <2>2. (\E s \in Slots : r = pinned[s]) => frames[r] = 1
      BY Constants DEF PinnedOK
    <2>3. r \in Resumable /\ state[r] = "RUNNING"
      BY <1>1, <1>2, <2>1, <2>2, ExecutesFacts, Constants
    <2> QED
      BY <2>3 DEF CarefulUse
  <1>4. \A q \in All : q # r => frames'[q] = frames[q] /\ top'[q] = top[q]
    BY <1>1, <1>2
  <1>5. frames'[r] = frames[r] - 1 /\ top'[r] = top[r] - Arity[r]
    BY <1>1, <1>2
  <1>6. TypeOK'
    BY <1>1, <1>2 DEF TypeOK
  <1>7. ChainsOK'
    BY <1>1 DEF ChainsOK
  <1>8. Core1OK'
    <2>1. call["core1"] = "leave" => core1 \in All /\ core1 # r
      BY <1>3, Constants DEF Core1OK, TypeOK
    <2> QED
      BY <1>1, <1>4, <2>1 DEF Core1OK
  <1>9. PinnedOK'
    <2>1. \A s \in Slots : pinned[s] # None => pinned[s] \in All /\ pinned[s] # r
      BY <1>3, Constants DEF PinnedOK, TypeOK
    <2>2. \A q \in Pinnable \cap Routines : q \in All /\ q # r
      BY <1>3, Constants
    <2> QED
      BY <1>1, <1>4, <2>1, <2>2 DEF PinnedOK
  <1>10. CallsOK'
    BY <1>1 DEF CallsOK
  <1>11. HeightsOK'
    <2>1. state[r] = "RUNNING" /\ top[r] = Height(r) /\ frames[r] \in Int
      BY <1>2, <1>3 DEF HeightsOK
    <2>2. frames'[r] >= 1 /\ top'[r] = 1 + (IF Arity[r] = 1 THEN frames'[r] ELSE 0)
      BY <1>1, <1>2, <1>5, <2>1 DEF Height
    <2>3. \A q \in Routines : q # r => frames'[q] = frames[q] /\ top'[q] = top[q]
      BY <1>4, Constants
    <2> QED
      BY <1>1, <1>3, <2>1, <2>2, <2>3 DEF HeightsOK, Height
  <1>12. SomeoneRuns' /\ Inside'
    BY <1>1 DEF SomeoneRuns, Inside
  <1> QED
    BY <1>6, <1>7, <1>8, <1>9, <1>10, <1>11, <1>12

-----------------------------------------------------------------------------
(* A routine that nobody runs is in no chain.                              *)
LEMMA NotRunning ==
    ASSUME Inv, NEW r, state[r] # "RUNNING"
    PROVE  \A c \in Contexts : \A i \in 1 .. Len(chain[c]) : chain[c][i] # r
  BY DEF Inv, Shape, ChainsOK

(* Heights are about one routine at a time.                                *)
HeightOK(r) ==
    /\ r \in Resumable \cup Startable /\ state[r] = "UNBOUND" => frames[r] = 0 /\ top[r] = 0
    /\ r \in Resumable /\ state[r] \in {"RUNNING", "SUSPENDED"} =>
         frames[r] >= 1 /\ top[r] = Height(r)
    /\ r \in Startable /\ state[r] = "RUNNING" => frames[r] = 1 /\ top[r] = Arity[r] + 1

(* A step that changes one routine only has to look at that one.           *)
LEMMA HeightsOfOthers ==
    ASSUME HeightsOK, NEW r, r \in Routines => HeightOK(r)',
           \A q \in Routines : q # r =>
              state'[q] = state[q] /\ frames'[q] = frames[q] /\ top'[q] = top[q]
    PROVE  HeightsOK'
  BY DEF HeightsOK, HeightOK, Height

(* What resume() or start() has tested is not in any other state, and is   *)
(* not a routine for interrupts.                                           *)
LEMMA TargetFacts ==
    ASSUME Inv, NEW t, \/ t \notin Resumable \cup Startable
                       \/ state[t] \notin {"SUSPENDED", "UNBOUND"}
    PROVE  \A d \in Contexts : call[d] \in {"resume", "start"} =>
              target[d] # t /\ target[d] \in All
  <1> SUFFICES ASSUME NEW d \in Contexts, call[d] \in {"resume", "start"}
               PROVE  target[d] # t /\ target[d] \in All
    OBVIOUS
  <1>1. /\ target[d] \in (Resumable \cup Startable) \cap Uses[d]
        /\ state[target[d]] \in {"SUSPENDED", "UNBOUND"}
    BY DEF Inv, Shape, CallsOK
  <1> QED
    BY <1>1, Constants

(* resume() runs the coroutine that it tested, still suspended, whether    *)
(* there was a frame for it or not.                                        *)
LEMMA ResumeShape ==
    ASSUME CarefulUse, Inv, NEW c \in Contexts, Resume(c)
    PROVE  Shape'
  <1> USE DEF Inv, Shape
  <1>t. PICK t \in Routines : t = target[c]
    BY Constants DEF Resume, InCall, CallsOK
  <1> DEFINE n == Arity[t] + IF state[t] = "UNBOUND" THEN 1 ELSE 0
  <1>1. /\ chain[c] # <<>> /\ call[c] = "resume"
        /\ t \in Resumable \cap Uses[c] /\ state[t] \in {"SUSPENDED", "UNBOUND"}
    BY <1>t DEF Resume, InCall, Executes, CallsOK
  <1>2. t \in Routines /\ t \in All /\ t \notin Startable /\ t \notin Pinnable /\ Arity[t] \in {0, 1}
    BY <1>1, Constants DEF CarefulUse
  <1>3. frames \in [All -> Int] /\ top \in [All -> Int] /\ state \in [All -> States]
        /\ frames[t] \in Int /\ top[t] \in Int
    BY <1>2 DEF TypeOK
  <1>4. /\ Enters(t, n)
        /\ chain' = [chain EXCEPT ![c] = Append(@, t)]
        /\ call' = [call EXCEPT ![c] = "none"] /\ target' = [target EXCEPT ![c] = None]
        /\ UNCHANGED <<core1, pinned>>
    BY <1>t DEF Resume, CarefulUse
  <1>6. n \in Int
    BY <1>2
  <1> HIDE DEF n
  <1>5. /\ \E a, b \in Int : frames' = [frames EXCEPT ![t] = a] /\ top' = [top EXCEPT ![t] = b]
        /\ state' = [state EXCEPT ![t] = "RUNNING"]
    <2>1. CASE frames[t] = FramesMax
      BY <1>4, <2>1 DEF Enters
    <2>2. CASE frames[t] # FramesMax
      <3>1. frames[t] + 1 \in Int /\ top[t] + n \in Int
        BY <1>3, <1>6
      <3> QED
        BY <1>4, <2>2, <3>1 DEF Enters
    <2> QED
      BY <2>1, <2>2
  <1>7. \A q \in All : q # t => state'[q] = state[q] /\ frames'[q] = frames[q] /\ top'[q] = top[q]
    BY <1>3, <1>5
  <1>8. state'[t] = "RUNNING"
    BY <1>2, <1>3, <1>5
  <1>10. chain \in [Contexts -> Seq(All)] /\ chain[c] \in Seq(All) /\ Len(chain[c]) \in Nat
         /\ Len(chain[c]) # 0
    BY <1>1, ChainFacts DEF TypeOK
  <1>11. /\ chain'[c] \in Seq(All) /\ Len(chain'[c]) = Len(chain[c]) + 1 /\ chain'[c] # <<>>
         /\ chain'[c][Len(chain[c]) + 1] = t
         /\ \A i \in 1 .. Len(chain[c]) : chain'[c][i] = chain[c][i]
    BY <1>2, <1>4, <1>10, AppendFacts
  <1>12. \A d \in Contexts : d # c => chain'[d] = chain[d]
    BY <1>4, <1>10
  <1>13. TypeOK'
    <2>1. state' \in [All -> States] /\ frames' \in [All -> Int] /\ top' \in [All -> Int]
      BY <1>2, <1>3, <1>5 DEF States
    <2>2. chain' \in [Contexts -> Seq(All)]
      BY <1>4, <1>10, <1>11
    <2> QED
      BY <1>4, <2>1, <2>2 DEF TypeOK
  <1>14. ChainsOK'
    <2>1. \A d \in Contexts : \A i \in 1 .. Len(chain[d]) : chain[d][i] # t /\ chain[d][i] \in All
      BY <1>1, NotRunning, ChainFacts
    <2>k. \A i \in 1 .. Len(chain'[c]) : i = Len(chain[c]) + 1 \/ i \in 1 .. Len(chain[c])
      BY <1>10, <1>11
    <2>2. \A i \in 2 .. Len(chain'[c]) : chain'[c][i] \in Resumable \cap Uses[c]
      <3> TAKE i \in 2 .. Len(chain'[c])
      <3>1. CASE i = Len(chain[c]) + 1
        BY <1>1, <1>11, <3>1
      <3>2. CASE i \in 1 .. Len(chain[c])
        BY <1>11, <3>2 DEF ChainsOK
      <3> QED
        BY <2>k, <3>1, <3>2
    <2>3. \A d \in Contexts : \A i \in 2 .. Len(chain'[d]) : chain'[d][i] \in Resumable \cap Uses[d]
      BY <1>12, <2>2 DEF ChainsOK
    <2>4. \A d \in Contexts : chain'[d] # <<>> => chain[d] # <<>> /\ chain'[d][1] = chain[d][1]
      BY <1>1, <1>10, <1>11, <1>12
    <2>5. \A i, j \in 1 .. Len(chain'[c]) : chain'[c][i] = chain'[c][j] => i = j
      <3> SUFFICES ASSUME NEW i \in 1 .. Len(chain'[c]), NEW j \in 1 .. Len(chain'[c]),
                          chain'[c][i] = chain'[c][j]
                   PROVE  i = j
        OBVIOUS
      <3>2. \A k \in 1 .. Len(chain[c]) : chain'[c][k] # t
        BY <1>11, <2>1
      <3>3. CASE i \in 1 .. Len(chain[c]) /\ j \in 1 .. Len(chain[c])
        BY <1>11, <3>3 DEF ChainsOK
      <3> QED
        BY <1>11, <2>k, <3>2, <3>3
    <2>6. \A d \in Contexts : \A i, j \in 1 .. Len(chain'[d]) : chain'[d][i] = chain'[d][j] => i = j
      BY <1>12, <2>5 DEF ChainsOK
    <2>7. \A i \in 1 .. Len(chain'[c]) : state'[chain'[c][i]] = "RUNNING"
      <3> TAKE i \in 1 .. Len(chain'[c])
      <3>1. CASE i = Len(chain[c]) + 1
        BY <1>8, <1>11, <3>1
      <3>2. CASE i \in 1 .. Len(chain[c])
        BY <1>7, <1>11, <2>1, <3>2 DEF ChainsOK
      <3> QED
        BY <2>k, <3>1, <3>2
    <2>8. \A d \in Contexts : \A i \in 1 .. Len(chain'[d]) : state'[chain'[d][i]] = "RUNNING"
      BY <1>7, <1>12, <2>1, <2>7 DEF ChainsOK
    <2> QED
      BY <1>4, <2>3, <2>4, <2>6, <2>8, Constants DEF ChainsOK
  <1>15. Core1OK'
    <2>1. core1 # t
      BY <1>1, <1>2, Constants DEF Core1OK
    <2>2. core1 # None => state'[core1] = state[core1] /\ frames'[core1] = frames[core1]
                          /\ top'[core1] = top[core1]
      BY <1>7, <2>1, Constants DEF TypeOK
    <2>3. CASE c = "core1"
      BY <1>1, <1>4, <1>11, <2>3 DEF Core1OK, TypeOK
    <2>4. CASE c # "core1"
      <3>1. chain'["core1"] = chain["core1"] /\ call'["core1"] = call["core1"]
        BY <1>4, <1>12, <2>4, Constants DEF TypeOK
      <3> QED
        BY <1>4, <2>2, <3>1 DEF Core1OK
    <2> QED
      BY <2>3, <2>4
  <1>16. PinnedOK'
    <2>1. \A s \in Slots : pinned[s] # None => pinned[s] \in All /\ pinned[s] # t
      BY <1>2, Constants DEF PinnedOK, TypeOK
    <2>2. \A q \in Pinnable \cap Routines : q \in All /\ q # t
      BY <1>2, Constants
    <2> QED
      BY <1>4, <1>7, <2>1, <2>2 DEF PinnedOK
  <1>17. CallsOK'
    <2>1. \A d \in Contexts : d # c => call'[d] = call[d] /\ target'[d] = target[d] /\ chain'[d] = chain[d]
      BY <1>4, <1>12 DEF TypeOK
    <2>2. \A d \in Contexts : d # c /\ call[d] \in {"resume", "start"} =>
            target[d] # t /\ target[d] \in All
      <3>1. \A d \in Contexts : d # c /\ call[d] = "resume" => target[d] # t /\ target[d] \in All
        BY <1>1, Constants DEF CallsOK, CarefulUse, TypeOK
      <3>2. \A d \in Contexts : call[d] = "start" => target[d] # t /\ target[d] \in All
        BY <1>2, Constants DEF CallsOK, TypeOK
      <3> QED
        BY <3>1, <3>2
    <2>3. call'[c] = "none"
      BY <1>4 DEF TypeOK
    <2> QED
      BY <1>4, <1>7, <2>1, <2>2, <2>3 DEF CallsOK
  <1>19. SomeoneRuns'
    <2> SUFFICES ASSUME NEW q \in Routines, state'[q] = "RUNNING"
                 PROVE  \/ \E d \in Contexts : \E i \in 1 .. Len(chain'[d]) : chain'[d][i] = q
                        \/ q = core1' /\ call'["core1"] = "launch"
      BY DEF SomeoneRuns
    <2>1. CASE q = t
      BY <1>10, <1>11, <2>1
    <2>2. CASE q # t
      <3>1. state[q] = "RUNNING"
        BY <1>7, <2>2, Constants
      <3>2. ASSUME NEW d \in Contexts, NEW i \in 1 .. Len(chain[d]), chain[d][i] = q
            PROVE  i \in 1 .. Len(chain'[d]) /\ chain'[d][i] = q
        BY <1>10, <1>11, <1>12, <3>2
      <3>3. call["core1"] = "launch" => call'["core1"] = "launch"
        BY <1>1, <1>4, Constants DEF TypeOK
      <3> QED
        BY <1>4, <3>1, <3>2, <3>3 DEF SomeoneRuns
    <2> QED
      BY <2>1, <2>2
  <1> QED
    BY <1>13, <1>14, <1>15, <1>16, <1>17, <1>19

(* Everything is in order after a resume if there was a frame left; if not *)
(* the routine is run outside frames[].                                    *)
LEMMA ResumeInv ==
    ASSUME CarefulUse, Inv, NEW c \in Contexts, Resume(c)
    PROVE  IF frames[target[c]] = FramesMax THEN Shape' /\ wild' ELSE Inv'
  <1> USE DEF Inv, Shape
  <1>t. PICK t \in Routines : t = target[c]
    BY Constants DEF Resume, InCall, CallsOK
  <1> DEFINE n == Arity[t] + IF state[t] = "UNBOUND" THEN 1 ELSE 0
  <1>1. t \in Resumable /\ state[t] \in {"SUSPENDED", "UNBOUND"}
    BY <1>t DEF Resume, InCall, CallsOK
  <1>2. /\ t \in All /\ t \notin Startable /\ Arity[t] \in {0, 1}
        /\ frames \in [All -> Int] /\ top \in [All -> Int] /\ state \in [All -> States]
        /\ frames[t] \in Int /\ top[t] \in Int
    BY <1>1, Constants DEF CarefulUse, TypeOK
  <1>3. Enters(t, n)
    BY <1>t DEF Resume, CarefulUse
  <1>4. CASE frames[t] = FramesMax
    <2>1. wild'
      BY <1>3, <1>4 DEF Enters
    <2> QED
      BY <1>t, <1>4, <2>1, ResumeShape
  <1>5. CASE frames[t] # FramesMax
    <2>1. /\ frames' = [frames EXCEPT ![t] = @ + 1] /\ top' = [top EXCEPT ![t] = @ + n]
          /\ wild' = (wild \/ top[t] + n < Arity[t] + 1)
          /\ state' = [state EXCEPT ![t] = "RUNNING"]
      BY <1>3, <1>5 DEF Enters
    <2>2. n \in Int /\ (state[t] = "UNBOUND" => n = Arity[t] + 1) /\ (state[t] = "SUSPENDED" => n = Arity[t])
      BY <1>2
    <2> HIDE DEF n
    <2>3. \A q \in All : q # t => state'[q] = state[q] /\ frames'[q] = frames[q] /\ top'[q] = top[q]
      BY <1>2, <2>1
    <2>4. state'[t] = "RUNNING" /\ frames'[t] = frames[t] + 1 /\ top'[t] = top[t] + n
      BY <1>2, <2>1
    <2>5. /\ state[t] = "UNBOUND" => frames[t] = 0 /\ top[t] = 0
          /\ state[t] = "SUSPENDED" => frames[t] >= 1 /\ top[t] = Height(t)
      BY <1>1 DEF HeightsOK
    <2>6. HeightsOK'
      <3>1. HeightOK(t)'
        BY <1>1, <1>2, <2>2, <2>4, <2>5 DEF HeightOK, Height
      <3> QED
        BY <2>3, <3>1, HeightsOfOthers, Constants
    <2>7. Inside'
      <3>1. top[t] + n >= Arity[t] + 1
        BY <1>1, <1>2, <2>2, <2>5 DEF Height
      <3>2. ~(top[t] + n < Arity[t] + 1)
        BY <1>2, <2>2, <3>1
      <3> QED
        BY <2>1, <3>2, Zenon DEF Inside
    <2> QED
      BY <1>t, <1>5, <2>6, <2>7, ResumeShape
  <1> QED
    BY <1>4, <1>5

-----------------------------------------------------------------------------
(* A chain of one routine, as core 1 and an interrupt start it.            *)
LEMMA OneFacts ==
    ASSUME NEW r \in All
    PROVE  <<r>> \in Seq(All) /\ Len(<<r>>) = 1 /\ <<r>>[1] = r /\ <<r>> # <<>>
  OBVIOUS

(* start() enters a routine that was never entered and books core 1.       *)
LEMMA StartInv ==
    ASSUME CarefulUse, Inv, NEW c \in Contexts, Start(c)
    PROVE  Inv'
  <1> USE DEF Inv, Shape
  <1>t. PICK t \in Routines : t = target[c]
    BY Constants DEF Start, InCall, CallsOK
  <1>1. /\ t \in Startable \cap Uses[c] /\ state[t] = "UNBOUND" /\ core1 = None /\ core1' = t
        /\ call' = [call EXCEPT ![c] = "none", !["core1"] = "launch"]
        /\ target' = [target EXCEPT ![c] = None] /\ UNCHANGED <<chain, pinned>>
        /\ Enters(t, Arity[t] + 1) /\ c # "core1"
    BY <1>t DEF Start, InCall, CallsOK
  <1>2. /\ t \in All /\ t \notin Resumable /\ t \notin Pinnable /\ Arity[t] \in {0, 1} /\ t # None
        /\ frames \in [All -> Int] /\ top \in [All -> Int] /\ state \in [All -> States]
    BY <1>1, Constants DEF CarefulUse, TypeOK
  <1>3. frames[t] = 0 /\ top[t] = 0
    BY <1>1 DEF HeightsOK
  <1>4. /\ frames' = [frames EXCEPT ![t] = @ + 1] /\ top' = [top EXCEPT ![t] = @ + (Arity[t] + 1)]
        /\ wild' = (wild \/ top[t] + (Arity[t] + 1) < Arity[t] + 1)
        /\ state' = [state EXCEPT ![t] = "RUNNING"]
    BY <1>1, <1>3, Constants DEF Enters
  <1>5. \A q \in All : q # t => state'[q] = state[q] /\ frames'[q] = frames[q] /\ top'[q] = top[q]
    BY <1>2, <1>4
  <1>6. state'[t] = "RUNNING" /\ frames'[t] = 1 /\ top'[t] = Arity[t] + 1
    BY <1>2, <1>3, <1>4
  <1>7. chain["core1"] = <<>> /\ call["core1"] = "none"
    BY <1>1 DEF Core1OK
  <1>8. /\ call'["core1"] = "launch" /\ call'[c] = "none"
        /\ \A d \in Contexts : d # "core1" /\ d # c => call'[d] = call[d] /\ target'[d] = target[d]
    BY <1>1, Constants DEF TypeOK
  <1>9. TypeOK'
    <2>1. state' \in [All -> States] /\ frames' \in [All -> Int] /\ top' \in [All -> Int]
      BY <1>2, <1>3, <1>4 DEF States
    <2> QED
      BY <1>1, <2>1 DEF TypeOK
  <1>10. ChainsOK'
    <2>1. \A d \in Contexts : \A i \in 1 .. Len(chain[d]) : chain[d][i] # t /\ chain[d][i] \in All
      BY <1>1, NotRunning, ChainFacts
    <2> QED
      BY <1>1, <1>5, <1>7, <2>1 DEF ChainsOK
  <1>11. Core1OK'
    BY <1>1, <1>2, <1>6, <1>7, <1>8 DEF Core1OK
  <1>12. PinnedOK'
    <2>1. \A s \in Slots : pinned[s] # None => pinned[s] \in All /\ pinned[s] # t
      BY <1>2, Constants DEF PinnedOK, TypeOK
    <2>2. \A q \in Pinnable \cap Routines : q \in All /\ q # t
      BY <1>2, Constants
    <2> QED
      BY <1>1, <1>5, <2>1, <2>2 DEF PinnedOK
  <1>13. CallsOK'
    <2>1. \A d \in Contexts : call[d] = "resume" => target[d] # t /\ target[d] \in All
      BY <1>2, Constants DEF CallsOK, TypeOK
    <2>2. \A d \in Contexts : d # c => call[d] # "start"
      BY <1>1, Constants DEF CallsOK, CarefulUse
    <2>3. ASSUME NEW d \in Contexts, d # c, d # "core1"
          PROVE  /\ call'[d] = call[d] /\ target'[d] = target[d] /\ call[d] # "start"
                 /\ call[d] = "resume" => state'[target[d]] = state[target[d]]
      BY <1>5, <1>8, <2>1, <2>2, <2>3
    <2> QED
      BY <1>1, <1>8, <2>3 DEF CallsOK
  <1>14. HeightsOK'
    <2>1. HeightOK(t)'
      BY <1>2, <1>6 DEF HeightOK
    <2> QED
      BY <1>5, <2>1, HeightsOfOthers, Constants
  <1>15. SomeoneRuns'
    BY <1>1, <1>5, <1>7, <1>8, Constants DEF SomeoneRuns
  <1>16. Inside'
    <2>1. ~(top[t] + (Arity[t] + 1) < Arity[t] + 1)
      BY <1>2, <1>3
    <2> QED
      BY <1>4, <2>1, Zenon DEF Inside
  <1> QED
    BY <1>9, <1>10, <1>11, <1>12, <1>13, <1>14, <1>15, <1>16

(* Core 1 begins the routine it was launched for.                          *)
LEMMA Core1EntryInv ==
    ASSUME Inv, Core1Entry
    PROVE  Inv'
  <1> USE DEF Inv, Shape
  <1>1. PICK t \in Routines : t = core1
    BY DEF Core1Entry, Core1OK, TypeOK
  <1>2. /\ t \in Startable /\ t \in All /\ state[t] = "RUNNING" /\ chain["core1"] = <<>>
        /\ call["core1"] = "launch" /\ t # None
    BY <1>1, Constants DEF Core1Entry, Core1OK
  <1>3. /\ chain' = [chain EXCEPT !["core1"] = <<t>>] /\ call' = [call EXCEPT !["core1"] = "none"]
        /\ UNCHANGED <<frames, top, target, core1, pinned, wild>>
        /\ state' = [state EXCEPT ![t] = "RUNNING"]
    BY <1>1 DEF Core1Entry
  <1>4. state' = state
    BY <1>2, <1>3 DEF TypeOK
  <1>5. /\ chain'["core1"] = <<t>> /\ call'["core1"] = "none"
        /\ \A d \in Contexts : d # "core1" => chain'[d] = chain[d] /\ call'[d] = call[d]
    BY <1>3, Constants DEF TypeOK
  <1>6. <<t>> \in Seq(All) /\ Len(<<t>>) = 1 /\ <<t>>[1] = t /\ <<t>> # <<>>
    BY <1>2, OneFacts
  <1>7. TypeOK'
    BY <1>3, <1>4, <1>6 DEF TypeOK
  <1>8. ChainsOK'
    <2>1. \A d \in Contexts : \A i \in 2 .. Len(chain'[d]) : chain'[d][i] \in Resumable \cap Uses[d]
      BY <1>5, <1>6 DEF ChainsOK
    <2>2. \A d \in Contexts : \A i, j \in 1 .. Len(chain'[d]) : chain'[d][i] = chain'[d][j] => i = j
      BY <1>5, <1>6 DEF ChainsOK
    <2>3. \A d \in Contexts : \A i \in 1 .. Len(chain'[d]) : state'[chain'[d][i]] = "RUNNING"
      BY <1>2, <1>4, <1>5, <1>6 DEF ChainsOK
    <2> QED
      BY <1>1, <1>3, <1>5, <1>6, <2>1, <2>2, <2>3, Constants DEF ChainsOK
  <1>9. Core1OK'
    BY <1>1, <1>2, <1>3, <1>5, <1>6 DEF Core1OK
  <1>10. PinnedOK'
    BY <1>3 DEF PinnedOK
  <1>11. CallsOK'
    BY <1>3, <1>4, <1>5 DEF CallsOK
  <1>12. HeightsOK'
    BY <1>3, <1>4 DEF HeightsOK, Height
  <1>13. SomeoneRuns'
    <2> SUFFICES ASSUME NEW q \in Routines, state'[q] = "RUNNING"
                 PROVE  \E d \in Contexts : \E i \in 1 .. Len(chain'[d]) : chain'[d][i] = q
      BY DEF SomeoneRuns
    <2>1. CASE q = t
      BY <1>5, <1>6, <2>1, Constants
    <2>2. CASE q # t
      <3>0. PICK d \in Contexts : \E i \in 1 .. Len(chain[d]) : chain[d][i] = q
        BY <1>1, <1>4, <2>2 DEF SomeoneRuns
      <3>1. PICK i \in 1 .. Len(chain[d]) : chain[d][i] = q
        BY <3>0
      <3>2. d # "core1"
        BY <1>2, <3>1, ChainFacts
      <3> QED
        BY <1>5, <3>1, <3>2
    <2> QED
      BY <2>1, <2>2
  <1>14. Inside'
    BY <1>3 DEF Inside
  <1> QED
    BY <1>7, <1>8, <1>9, <1>10, <1>11, <1>12, <1>13, <1>14

(* Core 1 re-enters the routine that returned and is free again.           *)
LEMMA Core1LeaveInv ==
    ASSUME CarefulUse, Inv, Core1Leave
    PROVE  Inv'
  <1> USE DEF Inv, Shape
  <1>1. PICK t \in Routines : t = core1
    BY DEF Core1Leave, Core1OK, TypeOK
  <1>2. /\ t \in Startable /\ t \in All /\ state[t] = "CLOSED" /\ chain["core1"] = <<>>
        /\ call["core1"] = "leave" /\ frames[t] = 0 /\ top[t] = 1
        /\ t \notin Resumable /\ t \notin Pinnable /\ Arity[t] \in {0, 1}
    BY <1>1, Constants DEF Core1Leave, Core1OK, CarefulUse
  <1>3. /\ call' = [call EXCEPT !["core1"] = "none"] /\ core1' = None
        /\ UNCHANGED <<state, chain, target, pinned>>
        /\ Reenter(t, frames[t], top[t])
    BY <1>1 DEF Core1Leave
  <1>r. frames' = [frames EXCEPT ![t] = 1] /\ top' = [top EXCEPT ![t] = 1 + Arity[t]]
    <2>1. /\ (IF frames[t] = FramesMax THEN 0 ELSE frames[t] + 1) = 1
          /\ (IF frames[t] = FramesMax THEN 0 ELSE top[t] + Arity[t]) = 1 + Arity[t]
      BY <1>2, Constants
    <2> QED
      BY <1>3, <2>1, Zenon DEF Reenter
  <1>4. /\ frames \in [All -> Int] /\ top \in [All -> Int]
        /\ \A q \in All : q # t => frames'[q] = frames[q] /\ top'[q] = top[q]
    BY <1>r DEF TypeOK
  <1>5. /\ call'["core1"] = "none"
        /\ \A d \in Contexts : d # "core1" => call'[d] = call[d]
    BY <1>3, Constants DEF TypeOK
  <1>6. TypeOK'
    <2>1. frames' \in [All -> Int] /\ top' \in [All -> Int]
      BY <1>2, <1>4, <1>r
    <2> QED
      BY <1>3, <2>1 DEF TypeOK
  <1>7. ChainsOK'
    BY <1>2, <1>3 DEF ChainsOK
  <1>8. Core1OK'
    BY <1>2, <1>3, <1>5 DEF Core1OK
  <1>9. PinnedOK'
    <2>1. \A s \in Slots : pinned[s] # None => pinned[s] \in All /\ pinned[s] # t
      BY <1>2, Constants DEF PinnedOK, TypeOK
    <2>2. \A q \in Pinnable \cap Routines : q \in All /\ q # t
      BY <1>2, Constants
    <2> QED
      BY <1>3, <1>4, <2>1, <2>2 DEF PinnedOK
  <1>10. CallsOK'
    <2>1. \A d \in Contexts : call[d] # "start"
      BY <1>1, Constants DEF CallsOK
    <2> QED
      BY <1>3, <1>5, <2>1 DEF CallsOK
  <1>11. HeightsOK'
    <2>1. HeightOK(t)'
      BY <1>2, <1>3, <1>r DEF HeightOK
    <2> QED
      BY <1>3, <1>4, <2>1, HeightsOfOthers, Constants
  <1>12. SomeoneRuns'
    BY <1>2, <1>3 DEF SomeoneRuns
  <1>13. Inside'
    <2>1. ~(top[t] < 1) /\ frames[t] # FramesMax
      BY <1>2, Constants
    <2> QED
      BY <1>3, <2>1, Zenon DEF Inside, Reenter
  <1> QED
    BY <1>6, <1>7, <1>8, <1>9, <1>10, <1>11, <1>12, <1>13

(* pin() gives a routine its entry frame, once.                            *)
LEMMA PinInv ==
    ASSUME CarefulUse, Inv, NEW c \in Contexts, NEW t \in Routines, Pin(c, t)
    PROVE  Inv'
  <1> USE DEF Inv, Shape
  <1>1. PICK s \in Slots : pinned[s] = None /\ pinned' = [pinned EXCEPT ![s] = t]
    BY DEF Pin, FirstFree
  <1>2. /\ t \in Pinnable /\ Arity[t] = 0 /\ \A k \in Slots : pinned[k] # t
        /\ frames' = [frames EXCEPT ![t] = @ + 1] /\ top' = [top EXCEPT ![t] = @ + 1]
        /\ UNCHANGED <<state, chain, target, call, core1, wild>>
        /\ t \in All /\ t \notin Resumable /\ t \notin Startable /\ t # None
    BY Constants DEF Pin, CarefulUse
  <1>3. frames[t] = 0 /\ top[t] = 0
    BY <1>2 DEF PinnedOK
  <1>4. /\ frames \in [All -> Int] /\ top \in [All -> Int]
        /\ \A q \in All : q # t => frames'[q] = frames[q] /\ top'[q] = top[q]
        /\ frames'[t] = 1 /\ top'[t] = 1
    BY <1>2, <1>3 DEF TypeOK
  <1>5. pinned'[s] = t /\ \A k \in Slots : k # s => pinned'[k] = pinned[k]
    BY <1>1 DEF TypeOK
  <1>6. TypeOK'
    BY <1>1, <1>2, <1>4 DEF TypeOK
  <1>7. ChainsOK'
    <2>1. chain["isr"] # <<>> => \E k \in Slots : chain["isr"][1] = pinned'[k]
      <3> SUFFICES ASSUME chain["isr"] # <<>> PROVE \E k \in Slots : chain["isr"][1] = pinned'[k]
        OBVIOUS
      <3>1. PICK k \in Slots : chain["isr"][1] = pinned[k]
        BY DEF ChainsOK
      <3>2. chain["isr"][1] \in All
        BY ChainFacts, Constants
      <3>3. k # s
        BY <1>1, <3>1, <3>2, Constants
      <3> QED
        BY <1>5, <3>1, <3>3
    <2> QED
      BY <1>2, <2>1 DEF ChainsOK
  <1>8. Core1OK'
    <2>1. call["core1"] = "leave" => core1 \in All /\ core1 # t
      BY <1>2, Constants DEF Core1OK, TypeOK
    <2> QED
      BY <1>2, <1>4, <2>1 DEF Core1OK
  <1>9. PinnedOK'
    <2>1. \A k \in Slots : pinned[k] # None => pinned[k] \in All /\ pinned[k] # t
      BY <1>2, Constants DEF TypeOK
    <2>2. \A k \in Slots : pinned'[k] # None =>
            /\ pinned'[k] \in Pinnable /\ Arity[pinned'[k]] = 0
            /\ frames'[pinned'[k]] = 1 /\ top'[pinned'[k]] = 1
      BY <1>2, <1>4, <1>5, <2>1 DEF PinnedOK
    <2>3. ASSUME NEW r \in Pinnable \cap Routines, \A k \in Slots : pinned'[k] # r
          PROVE  frames'[r] = 0 /\ top'[r] = 0
      <3>1. r # t /\ r \in All
        BY <1>5, <2>3, Constants
      <3>2. \A k \in Slots : pinned[k] # r
        BY <1>1, <1>5, <2>3, <3>1, Constants
      <3> QED
        BY <1>4, <3>1, <3>2 DEF PinnedOK
    <2> QED
      BY <2>2, <2>3 DEF PinnedOK
  <1>10. CallsOK'
    BY <1>2 DEF CallsOK
  <1>11. HeightsOK'
    <2>1. HeightOK(t)'
      BY <1>2 DEF HeightOK
    <2> QED
      BY <1>2, <1>4, <2>1, HeightsOfOthers, Constants
  <1>12. SomeoneRuns' /\ Inside'
    BY <1>2 DEF SomeoneRuns, Inside
  <1> QED
    BY <1>6, <1>7, <1>8, <1>9, <1>10, <1>11, <1>12

(* An interrupt runs a pinned routine, when no other interrupt does.       *)
LEMMA InterruptInv ==
    ASSUME CarefulUse, Inv, NEW s \in Slots, Interrupt(s)
    PROVE  Inv'
  <1> USE DEF Inv, Shape
  <1>1. PICK t \in Routines : t = pinned[s]
    BY DEF Interrupt, TypeOK
  <1>2. /\ t \in Pinnable /\ t \in All /\ t \notin Resumable /\ t \notin Startable
        /\ chain["isr"] = <<>> /\ pinned[s] # None
        /\ chain' = [chain EXCEPT !["isr"] = <<t>>] /\ state' = [state EXCEPT ![t] = "RUNNING"]
        /\ UNCHANGED <<frames, top, target, call, core1, pinned, wild>>
    BY <1>1, Constants DEF Interrupt, PinnedOK, CarefulUse
  <1>3. /\ state \in [All -> States] /\ state'[t] = "RUNNING"
        /\ \A q \in All : q # t => state'[q] = state[q]
    BY <1>2 DEF TypeOK
  <1>4. /\ chain'["isr"] = <<t>>
        /\ \A d \in Contexts : d # "isr" => chain'[d] = chain[d]
    BY <1>2, Constants DEF TypeOK
  <1>5. <<t>> \in Seq(All) /\ Len(<<t>>) = 1 /\ <<t>>[1] = t /\ <<t>> # <<>>
    BY <1>2, OneFacts
  <1>6. TypeOK'
    BY <1>2, <1>5 DEF TypeOK, States
  <1>7. ChainsOK'
    <2>1. \A d \in Contexts : \A i \in 2 .. Len(chain'[d]) : chain'[d][i] \in Resumable \cap Uses[d]
      BY <1>4, <1>5 DEF ChainsOK
    <2>2. \A d \in Contexts : \A i, j \in 1 .. Len(chain'[d]) : chain'[d][i] = chain'[d][j] => i = j
      BY <1>4, <1>5 DEF ChainsOK
    <2>3. \A d \in Contexts : \A i \in 1 .. Len(chain'[d]) : state'[chain'[d][i]] = "RUNNING"
      BY <1>3, <1>4, <1>5, ChainFacts DEF ChainsOK
    <2> QED
      BY <1>1, <1>2, <1>4, <1>5, <2>1, <2>2, <2>3, Constants DEF ChainsOK
  <1>8. Core1OK'
    <2>1. core1 # None => core1 \in All /\ core1 # t
      BY <1>2, Constants DEF Core1OK, TypeOK
    <2>2. chain'["core1"] = chain["core1"]
      BY <1>4, Constants
    <2> QED
      BY <1>2, <1>3, <2>1, <2>2 DEF Core1OK
  <1>9. PinnedOK'
    BY <1>2 DEF PinnedOK
  <1>10. CallsOK'
    <2>1. \A d \in Contexts : call[d] \in {"resume", "start"} => target[d] # t /\ target[d] \in All
      BY <1>2, TargetFacts
    <2>2. \A d \in Contexts : chain[d] # <<>> => chain'[d] # <<>>
      BY <1>4, <1>5
    <2> QED
      BY <1>2, <1>3, <2>1, <2>2 DEF CallsOK
  <1>11. HeightsOK'
    <2>1. HeightOK(t)'
      BY <1>2 DEF HeightOK
    <2> QED
      BY <1>2, <1>3, <2>1, HeightsOfOthers, Constants
  <1>12. SomeoneRuns'
    <2> SUFFICES ASSUME NEW q \in Routines, state'[q] = "RUNNING", ~(q = core1 /\ call["core1"] = "launch")
                 PROVE  \E d \in Contexts : \E i \in 1 .. Len(chain'[d]) : chain'[d][i] = q
      BY <1>2 DEF SomeoneRuns
    <2>1. CASE q = t
      BY <1>4, <1>5, <2>1, Constants
    <2>2. CASE q # t
      <3>0. PICK d \in Contexts : \E i \in 1 .. Len(chain[d]) : chain[d][i] = q
        BY <1>3, <2>2, Constants DEF SomeoneRuns
      <3>1. PICK i \in 1 .. Len(chain[d]) : chain[d][i] = q
        BY <3>0
      <3>2. d # "isr"
        BY <1>2, <3>1, ChainFacts
      <3> QED
        BY <1>4, <3>1, <3>2
    <2> QED
      BY <2>1, <2>2
  <1>13. Inside'
    BY <1>2 DEF Inside
  <1> QED
    BY <1>6, <1>7, <1>8, <1>9, <1>10, <1>11, <1>12, <1>13

-----------------------------------------------------------------------------
(* No routine is in the chains of two contexts.                            *)
LEMMA Unique ==
    ASSUME CarefulUse, Shape, NEW c \in Contexts, NEW d \in Contexts, c # d,
           NEW i \in 1 .. Len(chain[c]), NEW j \in 1 .. Len(chain[d])
    PROVE  chain[c][i] # chain[d][j]
  <1> DEFINE Of(e, r) == \/ r \in Resumable \cap Uses[e]
                         \/ e = "core0" /\ r = Main
                         \/ e = "core1" /\ r \in Startable \cap Routines
                         \/ e = "isr" /\ r \in Pinnable \cap Routines
  <1>1. ASSUME NEW e \in Contexts, NEW k \in 1 .. Len(chain[e]) PROVE Of(e, chain[e][k])
    <2>1. CASE k \in 2 .. Len(chain[e])
      BY <2>1 DEF Shape, ChainsOK
    <2>2. CASE k = 1
      <3>1. chain[e] # <<>> /\ chain[e][1] \in All
        BY <2>2, ChainFacts DEF Shape
      <3>2. CASE e = "core0"
        BY <2>2, <3>1, <3>2 DEF Shape, ChainsOK
      <3>3. CASE e = "core1"
        <4>1. core1 \in Startable /\ core1 # None
          BY <3>1, <3>3 DEF Shape, Core1OK
        <4>2. core1 \in Routines
          BY <4>1 DEF Shape, TypeOK
        <4> QED
          BY <2>2, <3>1, <3>3, <4>1, <4>2 DEF Shape, ChainsOK
      <3>4. CASE e = "isr"
        <4>1. PICK s \in Slots : chain[e][1] = pinned[s]
          BY <3>1, <3>4 DEF Shape, ChainsOK
        <4>2. pinned[s] \in Pinnable /\ pinned[s] \in Routines
          BY <3>1, <4>1, Constants DEF Shape, PinnedOK, TypeOK
        <4> QED
          BY <2>2, <3>4, <4>1, <4>2
      <3> QED
        BY <3>2, <3>3, <3>4, Constants
    <2>3. k = 1 \/ k \in 2 .. Len(chain[e])
      <3>1. Len(chain[e]) \in Nat
        BY ChainFacts DEF Shape
      <3> QED
        BY <3>1
    <2> QED
      BY <2>1, <2>2, <2>3
  <1>2. ASSUME NEW r, Of(c, r), Of(d, r) PROVE FALSE
    BY <1>2, Constants DEF CarefulUse
  <1> HIDE DEF Of
  <1> QED
    BY <1>1, <1>2

(* What the end of a run() does to everything but its routine's stack.     *)
LEMMA EndFrame ==
    ASSUME CarefulUse, Inv, NEW c \in Contexts, NEW r \in All, Executes(c, r),
           NEW s \in States, NEW n \in Int, NEW t \in Int, EndOfRun(c, r, s, n, t)
    PROVE  /\ UNCHANGED <<core1, pinned>>
           /\ chain' \in [Contexts -> Seq(All)] /\ Len(chain'[c]) = Len(chain[c]) - 1
           /\ chain'[c] = <<>> <=> Len(chain[c]) = 1
           /\ \A i \in 1 .. Len(chain'[c]) :
                i \in 1 .. Len(chain[c]) /\ chain'[c][i] = chain[c][i] /\ chain[c][i] # r
           /\ \A i \in 1 .. Len(chain[c]) : chain[c][i] # r =>
                i \in 1 .. Len(chain'[c]) /\ chain'[c][i] = chain[c][i]
           /\ \A d \in Contexts : d # c => chain'[d] = chain[d] /\ call'[d] = call[d]
           /\ call' = [call EXCEPT ![c] = IF c = "core1" /\ Len(chain[c]) = 1 THEN "leave" ELSE "none"]
           /\ state' \in [All -> States] /\ state'[r] = s
           /\ frames' \in [All -> Int] /\ top' \in [All -> Int]
           /\ \A q \in All : q # r =>
                state'[q] = state[q] /\ frames'[q] = frames[q] /\ top'[q] = top[q]
  <1> USE DEF Inv, Shape
  <1>1. /\ UNCHANGED <<core1, pinned>> /\ chain' = [chain EXCEPT ![c] = Front(@)]
        /\ call' = [call EXCEPT ![c] = IF c = "core1" /\ Len(chain[c]) = 1 THEN "leave" ELSE "none"]
        /\ state' = [state EXCEPT ![r] = s]
    BY DEF EndOfRun
  <1>2. /\ chain[c] # <<>> /\ Len(chain[c]) \in Nat /\ Len(chain[c]) >= 1
        /\ r = chain[c][Len(chain[c])]
    BY ExecutesFacts
  <1>3. /\ chain \in [Contexts -> Seq(All)] /\ state \in [All -> States]
        /\ frames \in [All -> Int] /\ top \in [All -> Int] /\ call \in [Contexts -> {"none", "resume", "receive", "start", "launch", "leave"}]
    BY DEF TypeOK
  <1>4. /\ chain'[c] \in Seq(All) /\ Len(chain'[c]) = Len(chain[c]) - 1
        /\ \A i \in 1 .. Len(chain[c]) - 1 : chain'[c][i] = chain[c][i]
        /\ chain'[c] = <<>> <=> Len(chain[c]) = 1
    BY <1>1, <1>2, <1>3, FrontFacts
  <1>5. \A d \in Contexts : d # c => chain'[d] = chain[d] /\ call'[d] = call[d]
    BY <1>1, <1>3
  <1>6. chain' \in [Contexts -> Seq(All)]
    BY <1>1, <1>3, <1>4
  <1>7. \A i \in 1 .. Len(chain'[c]) :
           i \in 1 .. Len(chain[c]) /\ chain'[c][i] = chain[c][i] /\ chain[c][i] # r
    <2> TAKE i \in 1 .. Len(chain'[c])
    <2>1. i \in 1 .. Len(chain[c]) - 1 /\ i \in 1 .. Len(chain[c]) /\ i # Len(chain[c])
      BY <1>2, <1>4
    <2>2. chain[c][i] # r
      BY <1>2, <2>1 DEF ChainsOK
    <2> QED
      BY <1>4, <2>1, <2>2
  <1>8. \A i \in 1 .. Len(chain[c]) : chain[c][i] # r =>
           i \in 1 .. Len(chain'[c]) /\ chain'[c][i] = chain[c][i]
    <2> SUFFICES ASSUME NEW i \in 1 .. Len(chain[c]), chain[c][i] # r
                 PROVE  i \in 1 .. Len(chain'[c]) /\ chain'[c][i] = chain[c][i]
      OBVIOUS
    <2>1. i \in 1 .. Len(chain[c]) - 1
      BY <1>2
    <2> QED
      BY <1>4, <2>1
  <1>9. state' \in [All -> States] /\ state'[r] = s /\ \A q \in All : q # r => state'[q] = state[q]
    BY <1>1, <1>3
  <1>10. r = Main \/ Arity[r] \in {0, 1}
    BY Constants
  <1>11. \E a, b \in Int : frames' = [frames EXCEPT ![r] = a] /\ top' = [top EXCEPT ![r] = b]
    <2>1. CASE c = "isr" /\ Len(chain[c]) = 1
      <3>1. r # Main
        BY <1>2, <2>1, ExecutesFacts, Constants DEF TypeOK, PinnedOK
      <3>2. /\ (IF n = FramesMax THEN 0 ELSE n + 1) \in Int
            /\ (IF n = FramesMax THEN 0 ELSE t + Arity[r]) \in Int
        BY <1>10, <3>1
      <3>3. /\ frames' = [frames EXCEPT ![r] = IF n = FramesMax THEN 0 ELSE n + 1]
            /\ top' = [top EXCEPT ![r] = IF n = FramesMax THEN 0 ELSE t + Arity[r]]
        BY <2>1 DEF EndOfRun, Reenter
      <3> QED
        BY <3>2, <3>3
    <2>2. CASE ~(c = "isr" /\ Len(chain[c]) = 1)
      BY <2>2 DEF EndOfRun
    <2> QED
      BY <2>1, <2>2
  <1>12. frames' \in [All -> Int] /\ top' \in [All -> Int]
         /\ \A q \in All : q # r => frames'[q] = frames[q] /\ top'[q] = top[q]
    BY <1>3, <1>11
  <1> QED
    BY <1>1, <1>4, <1>5, <1>6, <1>7, <1>8, <1>9, <1>12

(* A run() that ends leaves its context in order when the routine is the   *)
(* boot script, a coroutine that suspends, closes or fails, or a routine   *)
(* of core 1 or of an interrupt that returns.                              *)
LEMMA EndInv ==
    ASSUME CarefulUse, Inv, NEW c \in Contexts, NEW r \in All, Executes(c, r),
           NEW s \in States, NEW n \in Int, NEW t \in Int, EndOfRun(c, r, s, n, t),
           target' \in [Contexts -> Routines \cup {None}],
           \A d \in Contexts : d # c => target'[d] = target[d],
           \/ r = Main
           \/ /\ r \in Resumable /\ s \in {"SUSPENDED", "CLOSED", "ERROR"}
              /\ s = "SUSPENDED" => n = frames[r] /\ t = top[r] + 1
           \/ r \notin Resumable /\ s = "CLOSED" /\ n = 0 /\ t = 1
    PROVE  Inv'
  <1> USE DEF Inv, Shape
  <1>1. /\ UNCHANGED <<core1, pinned>>
        /\ chain' \in [Contexts -> Seq(All)] /\ Len(chain'[c]) = Len(chain[c]) - 1
        /\ chain'[c] = <<>> <=> Len(chain[c]) = 1
        /\ \A i \in 1 .. Len(chain'[c]) :
             i \in 1 .. Len(chain[c]) /\ chain'[c][i] = chain[c][i] /\ chain[c][i] # r
        /\ \A i \in 1 .. Len(chain[c]) : chain[c][i] # r =>
             i \in 1 .. Len(chain'[c]) /\ chain'[c][i] = chain[c][i]
        /\ \A d \in Contexts : d # c => chain'[d] = chain[d] /\ call'[d] = call[d]
    BY EndFrame
  <1>2. /\ call' = [call EXCEPT ![c] = IF c = "core1" /\ Len(chain[c]) = 1 THEN "leave" ELSE "none"]
        /\ state' \in [All -> States] /\ state'[r] = s
        /\ frames' \in [All -> Int] /\ top' \in [All -> Int]
        /\ \A q \in All : q # r =>
             state'[q] = state[q] /\ frames'[q] = frames[q] /\ top'[q] = top[q]
    BY EndFrame
  <1>3. /\ chain[c] # <<>> /\ Len(chain[c]) \in Nat /\ Len(chain[c]) >= 1
        /\ r = chain[c][Len(chain[c])] /\ state[r] = "RUNNING"
    BY ExecutesFacts
  <1>4. \/ Len(chain[c]) > 1 /\ r \in Resumable \cap Uses[c]
        \/ Len(chain[c]) = 1 /\ c = "core0" /\ r = Main
        \/ Len(chain[c]) = 1 /\ c = "core1" /\ r = core1 /\ r \in Startable
        \/ Len(chain[c]) = 1 /\ c = "isr" /\ \E k \in Slots : r = pinned[k]
    BY ExecutesFacts
  <1>5. (\E k \in Slots : r = pinned[k]) => r \in Pinnable /\ Arity[r] = 0
    BY Constants DEF PinnedOK
  <1>6. call'[c] = (IF c = "core1" /\ Len(chain[c]) = 1 THEN "leave" ELSE "none")
    BY <1>2 DEF TypeOK
  <1>7. TypeOK'
    <2>1. call' \in [Contexts -> {"none", "resume", "receive", "start", "launch", "leave"}]
      BY <1>2 DEF TypeOK
    <2> QED
      BY <1>1, <1>2, <2>1 DEF TypeOK
  <1>8. ChainsOK'
    <2>1. \A d \in Contexts : \A i \in 1 .. Len(chain'[d]) :
            i \in 1 .. Len(chain[d]) /\ chain'[d][i] = chain[d][i] /\ chain[d][i] # r
      <3> TAKE d \in Contexts
      <3>1. CASE d = c
        BY <1>1, <3>1
      <3>2. CASE d # c
        <4>1. chain'[d] = chain[d]
          BY <1>1, <3>2
        <4>2. Len(chain[c]) \in 1 .. Len(chain[c])
          BY <1>3
        <4>3. \A i \in 1 .. Len(chain[d]) : chain[d][i] # chain[c][Len(chain[c])]
          BY <3>2, <4>2, Unique
        <4> QED
          BY <1>3, <4>1, <4>3
      <3> QED
        BY <3>1, <3>2
    <2>2. \A d \in Contexts : Len(chain[d]) \in Nat /\ Len(chain'[d]) \in Nat
      BY <1>1, <1>3, ChainFacts
    <2>3. \A d \in Contexts : \A i \in 2 .. Len(chain'[d]) : chain'[d][i] \in Resumable \cap Uses[d]
      <3> TAKE d \in Contexts
      <3> TAKE i \in 2 .. Len(chain'[d])
      <3>1. i \in 1 .. Len(chain'[d])
        BY <2>2
      <3>2. i \in 2 .. Len(chain[d]) /\ chain'[d][i] = chain[d][i]
        BY <2>1, <2>2, <3>1
      <3> QED
        BY <3>2 DEF ChainsOK
    <2>4. \A d \in Contexts : chain'[d] # <<>> => chain[d] # <<>> /\ chain'[d][1] = chain[d][1]
      <3> SUFFICES ASSUME NEW d \in Contexts, chain'[d] # <<>>
                   PROVE  chain[d] # <<>> /\ chain'[d][1] = chain[d][1]
        OBVIOUS
      <3>1. CASE d # c
        BY <1>1, <3>1
      <3>2. CASE d = c
        <4>1. 1 \in 1 .. Len(chain'[c])
          BY <1>1, <1>3, <3>2
        <4> QED
          BY <1>3, <2>1, <3>2, <4>1
      <3> QED
        BY <3>1, <3>2
    <2>5. \A d \in Contexts : \A i, j \in 1 .. Len(chain'[d]) : chain'[d][i] = chain'[d][j] => i = j
      <3> SUFFICES ASSUME NEW d \in Contexts, NEW i \in 1 .. Len(chain'[d]), NEW j \in 1 .. Len(chain'[d]),
                          chain'[d][i] = chain'[d][j]
                   PROVE  i = j
        OBVIOUS
      <3>1. i \in 1 .. Len(chain[d]) /\ j \in 1 .. Len(chain[d]) /\ chain[d][i] = chain[d][j]
        BY <2>1, Zenon
      <3> QED
        BY <3>1 DEF ChainsOK
    <2>6. \A d \in Contexts : \A i \in 1 .. Len(chain'[d]) : state'[chain'[d][i]] = "RUNNING"
      <3> TAKE d \in Contexts
      <3> TAKE i \in 1 .. Len(chain'[d])
      <3>1. i \in 1 .. Len(chain[d]) /\ chain'[d][i] = chain[d][i] /\ chain[d][i] # r
        BY <2>1
      <3>2. chain[d][i] \in All /\ state[chain[d][i]] = "RUNNING"
        BY <3>1, ChainFacts DEF ChainsOK
      <3> QED
        BY <1>2, <3>1, <3>2
    <2> QED
      BY <1>1, <2>3, <2>4, <2>5, <2>6, Constants DEF ChainsOK
  <1>9. ~wild' /\ (r \in Resumable \cap Routines /\ s = "SUSPENDED" =>
                     frames'[r] = frames[r] /\ top'[r] = top[r])
                /\ (r \in Routines \ Resumable => frames'[r] = (IF c = "isr" THEN 1 ELSE 0) /\ top'[r] = 1)
    <2>1. frames \in [All -> Int] /\ top \in [All -> Int] /\ top[r] \in Int /\ ~wild
      BY DEF TypeOK, Inside
    <2>2. CASE c = "isr" /\ Len(chain[c]) = 1
      <3>1. r \in Pinnable /\ r \notin Resumable /\ r # Main /\ Arity[r] = 0
        BY <1>4, <1>5, <2>2, Constants DEF CarefulUse, PinnedOK, TypeOK
      <3>2. n = 0 /\ t = 1 /\ 0 # FramesMax
        BY <3>1, Constants
      <3>3. /\ frames' = [frames EXCEPT ![r] = IF n = FramesMax THEN 0 ELSE n + 1]
            /\ top' = [top EXCEPT ![r] = IF n = FramesMax THEN 0 ELSE t + Arity[r]]
            /\ wild' = (wild \/ t < 1 \/ n = FramesMax)
        BY <2>2 DEF EndOfRun, Reenter
      <3>4. frames'[r] = 1 /\ top'[r] = 1
        BY <2>1, <3>1, <3>2, <3>3
      <3>5. ~(t < 1) /\ n # FramesMax
        BY <3>2
      <3>6. ~wild'
        BY <2>1, <3>3, <3>5, Zenon
      <3> QED
        BY <2>2, <3>1, <3>4, <3>6
    <2>3. CASE ~(c = "isr" /\ Len(chain[c]) = 1)
      <3>1. /\ frames' = [frames EXCEPT ![r] = n] /\ wild' = wild
            /\ top' = [top EXCEPT ![r] =
                 IF Len(chain[c]) > 1 /\ s \in {"SUSPENDED", "CLOSED"} THEN t - 1 ELSE t]
        BY <2>3 DEF EndOfRun
      <3>2. ~wild'
        BY <2>1, <3>1, Zenon
      <3>3. frames'[r] = n
        BY <2>1, <3>1
      <3>4. CASE Len(chain[c]) > 1
        <4>1. r \in Resumable /\ r \in Routines /\ r # Main
          <5>1. Len(chain[c]) # 1
            BY <1>3, <3>4
          <5>2. r \in Resumable \cap Uses[c]
            BY <1>4, <5>1, Zenon
          <5> QED
            BY <5>2, Constants
        <4>2. s = "SUSPENDED" => n = frames[r] /\ t = top[r] + 1
          BY <4>1
        <4>3. s = "SUSPENDED" => top'[r] = top[r]
          BY <2>1, <3>1, <3>4, <4>2
        <4> QED
          BY <3>2, <3>3, <4>1, <4>2, <4>3
      <3>5. CASE r = Main
        <4>1. r \notin Routines
          BY <3>5, Constants
        <4> QED
          BY <3>2, <4>1
      <3>6. CASE Len(chain[c]) = 1 /\ c = "core1" /\ r \in Startable /\ r # Main
        <4>1. r \notin Resumable /\ n = 0 /\ t = 1
          BY <3>6 DEF CarefulUse
        <4>2. top'[r] = 1
          BY <2>1, <3>1, <3>6, <4>1
        <4> QED
          BY <3>2, <3>3, <3>6, <4>1, <4>2
      <3> QED
        BY <1>4, <2>3, <3>4, <3>5, <3>6
    <2> QED
      BY <2>2, <2>3
  <1>10. Core1OK'
    <2>1. core1 # None => core1 \in Routines \cap Startable
      BY DEF Core1OK, TypeOK
    <2>2. CASE c # "core1"
      <3>1. core1 # None => core1 # r
        BY <1>4, <1>5, <2>1, <2>2, Constants DEF CarefulUse
      <3>2. chain'["core1"] = chain["core1"] /\ call'["core1"] = call["core1"]
        BY <1>1, <2>2, Constants
      <3>3. core1 # None =>
              state'[core1] = state[core1] /\ frames'[core1] = frames[core1] /\ top'[core1] = top[core1]
        BY <1>2, <2>1, <3>1, Constants
      <3>4. call["core1"] \in {"launch", "leave"} => core1 # None
        BY DEF Core1OK
      <3> QED
        BY <1>1, <3>2, <3>3, <3>4 DEF Core1OK
    <2>3. CASE c = "core1" /\ Len(chain[c]) > 1
      <3>1. chain'["core1"] # <<>> /\ call'["core1"] = "none"
        BY <1>1, <1>6, <2>3
      <3>2. core1 # None
        BY <1>3, <2>3 DEF Core1OK
      <3> QED
        BY <1>1, <3>1, <3>2 DEF Core1OK
    <2>4. CASE c = "core1" /\ Len(chain[c]) = 1
      <3>1. r = core1 /\ r \in Startable /\ r # None
        BY <1>4, <2>4, Constants
      <3>2. r \in Routines \ Resumable /\ s = "CLOSED"
        BY <2>1, <3>1, Constants DEF CarefulUse
      <3>3. chain'["core1"] = <<>> /\ call'["core1"] = "leave"
        BY <1>1, <1>6, <2>4
      <3>4. state'[core1] = "CLOSED" /\ frames'[core1] = 0 /\ top'[core1] = 1
        BY <1>2, <1>9, <2>4, <3>1, <3>2
      <3> QED
        BY <1>1, <3>1, <3>3, <3>4 DEF Core1OK
    <2> QED
      BY <1>4, <2>2, <2>3, <2>4
  <1>11. PinnedOK'
    <2>1. \A k \in Slots : pinned[k] # None => pinned[k] \in Routines /\ pinned[k] \in Pinnable
      BY DEF PinnedOK, TypeOK
    <2>2. \A q \in Routines : q # r => frames'[q] = frames[q] /\ top'[q] = top[q]
      BY <1>2, Constants
    <2>3. r \in Pinnable \cap Routines =>
            (\E k \in Slots : r = pinned[k]) /\ frames'[r] = 1 /\ top'[r] = 1
      <3> SUFFICES ASSUME r \in Pinnable \cap Routines
                   PROVE  (\E k \in Slots : r = pinned[k]) /\ frames'[r] = 1 /\ top'[r] = 1
        OBVIOUS
      <3>1. c = "isr" /\ \E k \in Slots : r = pinned[k]
        BY <1>4, Constants DEF CarefulUse
      <3> QED
        BY <1>9, <3>1 DEF CarefulUse
    <2>4. \A k \in Slots : pinned[k] # None => frames'[pinned[k]] = 1 /\ top'[pinned[k]] = 1
      <3> SUFFICES ASSUME NEW k \in Slots, pinned[k] # None
                   PROVE  frames'[pinned[k]] = 1 /\ top'[pinned[k]] = 1
        OBVIOUS
      <3>1. CASE pinned[k] = r
        BY <2>1, <2>3, <3>1
      <3>2. CASE pinned[k] # r
        BY <2>1, <2>2, <3>2 DEF PinnedOK
      <3> QED
        BY <3>1, <3>2
    <2>5. \A q \in Pinnable \cap Routines : (\A k \in Slots : pinned[k] # q) =>
            frames'[q] = 0 /\ top'[q] = 0
      BY <2>2, <2>3 DEF PinnedOK
    <2> QED
      BY <1>1, <2>4, <2>5 DEF PinnedOK
  <1>12. CallsOK'
    <2> SUFFICES ASSUME NEW d \in Contexts
                 PROVE  /\ call'[d] \in {"launch", "leave"} => d = "core1"
                        /\ call'[d] \in {"resume", "receive", "start"} => chain'[d] # <<>>
                        /\ call'[d] = "resume" =>
                             /\ target'[d] \in Resumable \cap Uses[d]
                             /\ state'[target'[d]] \in {"SUSPENDED", "UNBOUND"}
                        /\ call'[d] \in {"receive", "start"} => target'[d] \in Startable \cap Uses[d]
                        /\ call'[d] = "start" =>
                             d # "core1" /\ state'[target'[d]] = "UNBOUND" /\ core1' = None
      BY DEF CallsOK
    <2>1. CASE d = c
      BY <1>6, <2>1
    <2>2. CASE d # c
      <3>1. chain'[d] = chain[d] /\ call'[d] = call[d] /\ target'[d] = target[d]
        BY <1>1, <2>2
      <3>2. call[d] \in {"resume", "start"} => target[d] # r /\ target[d] \in All
        BY <1>3, TargetFacts
      <3>3. call[d] \in {"resume", "start"} => state'[target[d]] = state[target[d]]
        BY <1>2, <3>2
      <3> QED
        BY <1>1, <3>1, <3>3 DEF CallsOK
    <2> QED
      BY <2>1, <2>2
  <1>13. HeightsOK'
    <2>1. r \in Routines => s \in {"SUSPENDED", "CLOSED", "ERROR"} /\ (s = "SUSPENDED" => r \in Resumable)
      BY Constants
    <2>2. r \in Resumable \cap Routines => frames[r] >= 1 /\ top[r] = Height(r) /\ r \notin Startable
      BY <1>3 DEF HeightsOK, CarefulUse
    <2>3. ASSUME r \in Routines PROVE HeightOK(r)'
      <3>1. CASE s = "SUSPENDED"
        <4>1. frames'[r] = frames[r] /\ top'[r] = top[r] /\ r \in Resumable
          BY <1>9, <2>1, <2>3, <3>1
        <4>2. Height(r)' = Height(r)
          BY <4>1 DEF Height
        <4> QED
          BY <1>2, <2>2, <2>3, <3>1, <4>1, <4>2 DEF HeightOK
      <3>2. CASE s \in {"CLOSED", "ERROR"}
        BY <1>2, <3>2 DEF HeightOK
      <3> QED
        BY <2>1, <2>3, <3>1, <3>2
    <2>4. \A q \in Routines : q # r =>
            state'[q] = state[q] /\ frames'[q] = frames[q] /\ top'[q] = top[q]
      BY <1>2, Constants
    <2> QED
      BY <2>3, <2>4, HeightsOfOthers
  <1>14. SomeoneRuns'
    <2> SUFFICES ASSUME NEW q \in Routines, state'[q] = "RUNNING",
                        ~(q = core1 /\ call'["core1"] = "launch")
                 PROVE  \E d \in Contexts : \E i \in 1 .. Len(chain'[d]) : chain'[d][i] = q
      BY <1>1 DEF SomeoneRuns
    <2>1. q # r /\ state[q] = "RUNNING"
      BY <1>2, Constants
    <2>2. ~(q = core1 /\ call["core1"] = "launch")
      <3>1. call["core1"] = "launch" => c # "core1"
        BY <1>3 DEF Core1OK
      <3> QED
        BY <1>1, <3>1, Constants
    <2>3. PICK d \in Contexts : \E i \in 1 .. Len(chain[d]) : chain[d][i] = q
      BY <2>1, <2>2 DEF SomeoneRuns
    <2>4. PICK i \in 1 .. Len(chain[d]) : chain[d][i] = q
      BY <2>3
    <2>5. i \in 1 .. Len(chain'[d]) /\ chain'[d][i] = q
      BY <1>1, <2>1, <2>4
    <2> QED
      BY <2>5
  <1>15. Inside'
    BY <1>9 DEF Inside
  <1> QED
    BY <1>7, <1>8, <1>10, <1>11, <1>12, <1>13, <1>14, <1>15

(* Who can be the innermost routine of a context.                          *)
LEMMA WhoExecutes ==
    ASSUME CarefulUse, Inv, NEW c \in Contexts, NEW r, Executes(c, r)
    PROVE  /\ r \in All /\ state[r] = "RUNNING"
           /\ \/ r = Main
              \/ r \in Resumable \cap Uses[c]
              \/ r \in Startable /\ r \notin Resumable
              \/ r \in Pinnable /\ r \notin Resumable /\ Arity[r] = 0 /\ top[r] = 1
  <1>1. r \in All /\ state[r] = "RUNNING"
    BY ExecutesFacts
  <1>2. (\E s \in Slots : r = pinned[s]) => r \in Pinnable /\ Arity[r] = 0 /\ top[r] = 1
    BY <1>1, Constants DEF Inv, Shape, PinnedOK
  <1> QED
    BY <1>1, <1>2, ExecutesFacts DEF CarefulUse

(* resume() on a routine that is not ready fails the caller.               *)
LEMMA ResumeRefusedInv ==
    ASSUME CarefulUse, Inv, NEW c \in Contexts, NEW t \in Routines, ResumeRefused(c, t)
    PROVE  Inv'
  <1>1. PICK x \in Failing : Executes(c, x) /\ EndOfRun(c, x, "ERROR", 0, 0)
    BY DEF ResumeRefused
  <1>2. x \in All /\ (x = Main \/ x \in Resumable)
    BY <1>1, WhoExecutes DEF CarefulUse
  <1>3. target' = target /\ target \in [Contexts -> Routines \cup {None}]
    BY DEF ResumeRefused, Inv, Shape, TypeOK
  <1>4. "ERROR" \in States /\ 0 \in Int
    BY DEF States
  <1> QED
    BY <1>1, <1>2, <1>3, <1>4, EndInv

(* pin() of a routine with an argument, or without a free slot, fails the  *)
(* caller too.                                                             *)
LEMMA PinRefusedInv ==
    ASSUME CarefulUse, Inv, NEW c \in Contexts, NEW t \in Routines, PinRefused(c, t)
    PROVE  Inv'
  <1>1. PICK x \in Failing : Executes(c, x) /\ EndOfRun(c, x, "ERROR", 0, 0)
    BY DEF PinRefused
  <1>2. x \in All /\ (x = Main \/ x \in Resumable)
    BY <1>1, WhoExecutes DEF CarefulUse
  <1>3. target' = target /\ target \in [Contexts -> Routines \cup {None}]
    BY DEF PinRefused, Inv, Shape, TypeOK
  <1>4. "ERROR" \in States /\ 0 \in Int
    BY DEF States
  <1> QED
    BY <1>1, <1>2, <1>3, <1>4, EndInv

(* A context that starts or receives routines runs no coroutine that may   *)
(* fail: only the boot script ends there.                                  *)
LEMMA OnlyMainFails ==
    ASSUME CarefulUse, Inv, NEW c \in Contexts, NEW t \in Startable \cap Uses[c],
           NEW x \in Failing, Executes(c, x)
    PROVE  x = Main /\ x \in All
  BY WhoExecutes DEF CarefulUse

(* start() of a routine that has been started, or while core 1 is busy.    *)
LEMMA StartRefusedInv ==
    ASSUME CarefulUse, Inv, NEW c \in Contexts, NEW t \in Routines, StartRefused(c, t)
    PROVE  Inv'
  <1>1. PICK x \in Failing : Executes(c, x) /\ EndOfRun(c, x, "RUNNING", frames[x], top[x])
    BY DEF StartRefused
  <1>2. x = Main /\ x \in All
    BY <1>1, OnlyMainFails DEF StartRefused, Calls
  <1>3. target' = target /\ target \in [Contexts -> Routines \cup {None}]
    BY DEF StartRefused, Inv, Shape, TypeOK
  <1>4. "RUNNING" \in States /\ frames[x] \in Int /\ top[x] \in Int
    BY <1>2 DEF States, Inv, Shape, TypeOK
  <1> QED
    BY <1>1, <1>2, <1>3, <1>4, EndInv

(* receive() of a routine that was never started.                          *)
LEMMA ReceiveUnboundInv ==
    ASSUME CarefulUse, Inv, NEW c \in Contexts, ReceiveUnbound(c)
    PROVE  Inv'
  <1>1. PICK x \in Failing : Executes(c, x) /\ EndOfRun(c, x, "RUNNING", frames[x], top[x])
    BY DEF ReceiveUnbound
  <1>2. target[c] \in Startable \cap Uses[c]
    BY DEF ReceiveUnbound, InCall, Inv, Shape, CallsOK
  <1>3. x = Main /\ x \in All
    BY <1>1, <1>2, OnlyMainFails
  <1>4. /\ target' \in [Contexts -> Routines \cup {None}]
        /\ \A d \in Contexts : d # c => target'[d] = target[d]
    BY DEF ReceiveUnbound, Inv, Shape, TypeOK
  <1>5. "RUNNING" \in States /\ frames[x] \in Int /\ top[x] \in Int
    BY <1>3 DEF States, Inv, Shape, TypeOK
  <1> QED
    BY <1>1, <1>3, <1>4, <1>5, EndInv

(* A coroutine yields.                                                     *)
LEMMA YieldInv ==
    ASSUME CarefulUse, Inv, NEW c \in Contexts, NEW r \in Routines, Yield(c, r)
    PROVE  Inv'
  <1>1. Executes(c, r) /\ EndOfRun(c, r, "SUSPENDED", frames[r], top[r] + 1) /\ r \in Yielding
    BY DEF Yield, MayEnd
  <1>2. r \in All /\ r \in Resumable
    BY <1>1, WhoExecutes, Constants DEF CarefulUse
  <1>3. target' = target /\ target \in [Contexts -> Routines \cup {None}]
    BY DEF Yield, Inv, Shape, TypeOK
  <1>4. "SUSPENDED" \in States /\ frames[r] \in Int /\ top[r] + 1 \in Int
    BY <1>2 DEF States, Inv, Shape, TypeOK
  <1> QED
    BY <1>1, <1>2, <1>3, <1>4, EndInv

(* A routine returns from its outermost frame.                             *)
LEMMA ReturnInv ==
    ASSUME CarefulUse, Inv, NEW c \in Contexts, NEW r \in Routines, Return(c, r)
    PROVE  Inv'
  <1>1. Executes(c, r) /\ EndOfRun(c, r, "CLOSED", 0, top[r] - Arity[r])
    BY DEF Return, MayEnd
  <1>2. r \in All /\ top[r] \in Int /\ Arity[r] \in Int
    BY Constants DEF Inv, Shape, TypeOK
  <1>3. r \in Resumable \/ (r \notin Resumable /\ top[r] - Arity[r] = 1)
    <2>1. r \in Startable => top[r] = Arity[r] + 1
      BY <1>1, WhoExecutes DEF Inv, Shape, HeightsOK
    <2> QED
      BY <1>1, <1>2, <2>1, WhoExecutes, Constants
  <1>4. target' = target /\ target \in [Contexts -> Routines \cup {None}]
    BY DEF Return, Inv, Shape, TypeOK
  <1>5. "CLOSED" \in States /\ 0 \in Int /\ top[r] - Arity[r] \in Int
    BY <1>2 DEF States
  <1> QED
    BY <1>1, <1>2, <1>3, <1>4, <1>5, EndInv

(* A coroutine fails.                                                      *)
LEMMA ErrorInv ==
    ASSUME CarefulUse, Inv, NEW c \in Contexts, NEW r \in Routines, Error(c, r)
    PROVE  Inv'
  <1>1. Executes(c, r) /\ EndOfRun(c, r, "ERROR", 0, 0) /\ r \in Failing
    BY DEF Error, MayEnd
  <1>2. r \in All /\ r \in Resumable
    BY <1>1, WhoExecutes, Constants DEF CarefulUse
  <1>3. target' = target /\ target \in [Contexts -> Routines \cup {None}]
    BY DEF Error, Inv, Shape, TypeOK
  <1>4. "ERROR" \in States /\ 0 \in Int
    BY DEF States
  <1> QED
    BY <1>1, <1>2, <1>3, <1>4, EndInv

-----------------------------------------------------------------------------
(* The boot script runs, nothing else does.                                *)
LEMMA InitInv == Init => Inv
  <1> SUFFICES ASSUME Init PROVE Inv
    OBVIOUS
  <1> USE DEF Init
  <1>1. \A c \in Contexts : chain[c] = (IF c = "core0" THEN <<Main>> ELSE <<>>)
    OBVIOUS
  <1>2. TypeOK
    BY Constants DEF TypeOK, States
  <1>3. ChainsOK
    BY <1>1, Constants DEF ChainsOK
  <1>4. Core1OK /\ CallsOK
    BY <1>1, Constants DEF Core1OK, CallsOK
  <1>5. PinnedOK
    BY Constants DEF PinnedOK
  <1>6. HeightsOK /\ SomeoneRuns
    BY Constants DEF HeightsOK, SomeoneRuns
  <1>7. Inside
    BY DEF Inside
  <1> QED
    BY <1>2, <1>3, <1>4, <1>5, <1>6, <1>7 DEF Inv, Shape

(* A step keeps the invariant, or is the resume for which there is no      *)
(* frame and leaves the arrays.                                            *)
Overrun == \E c \in Contexts : call[c] = "resume" /\ frames[target[c]] = FramesMax
LEMMA StepInv ==
    ASSUME CarefulUse, Inv, Next
    PROVE  Inv' \/ (Overrun /\ Shape' /\ wild')
  <1>1. ASSUME NEW c \in Contexts, Step(c), ~Resume(c) PROVE Inv'
    BY <1>1, ResumeTestInv, ResumeRefusedInv, StartRefusedInv, StartTestInv, StartInv,
       ReceiveCallInv, PinInv, PinRefusedInv, ReceiveInv, ReceiveUnboundInv DEF Step
  <1>2. ASSUME NEW c \in Contexts, NEW r \in Routines, Finish(c, r) PROVE Inv'
    BY <1>2, YieldInv, ReturnInv, InnerReturnInv, ErrorInv DEF Finish
  <1>3. CASE Core1Entry
    BY <1>3, Core1EntryInv
  <1>4. CASE Core1Leave
    BY <1>4, Core1LeaveInv
  <1>5. ASSUME NEW s \in Slots, Interrupt(s) PROVE Inv'
    BY <1>5, InterruptInv
  <1>6. ASSUME NEW c \in Contexts, Resume(c) PROVE Inv' \/ (Overrun /\ Shape' /\ wild')
    <2>1. call[c] = "resume"
      BY <1>6 DEF Resume, InCall
    <2> QED
      BY <1>6, <2>1, ResumeInv DEF Overrun
  <1> QED
    BY <1>1, <1>2, <1>3, <1>4, <1>5, <1>6 DEF Next

(* Nothing happens after that resume.                                      *)
LEMMA StutterInv ==
    ASSUME IInv, UNCHANGED vars
    PROVE  IInv'
  BY DEF vars, IInv, Shape, TypeOK, ChainsOK, Core1OK, PinnedOK, CallsOK, HeightsOK, Height,
         SomeoneRuns, Inside

(* Everything a careful program can rely on, together.                     *)
THEOREM RoutinesInvariant ==
    ASSUME CarefulUse
    PROVE  Spec => []IInv
  <1>1. Init => IInv
    BY InitInv DEF Inv, IInv
  <1>2. IInv /\ [Next]_vars => IInv'
    <2>1. ASSUME IInv, Next PROVE IInv'
      <3>1. Inv
        BY <2>1 DEF Next, IInv, Inv, Inside
      <3> QED
        BY <2>1, <3>1, StepInv DEF Inv, IInv, Inside
    <2> QED
      BY <2>1, StutterInv
  <1> QED
    BY <1>1, <1>2, PTL DEF Spec

(* The chains as OneRunner and RunningIsRun read them.                     *)
LEMMA ChainDomain ==
    ASSUME Shape, NEW c \in Contexts
    PROVE  DOMAIN chain[c] = 1 .. Len(chain[c])
  BY ChainFacts DEF Shape

(* A routine's frames and stack have one user: whatever the two cores and  *)
(* the interrupt level of a careful program do, no two of them are in      *)
(* run() for one routine, and none is in it twice (routine.c, vm.c).       *)
THEOREM OneUser ==
    ASSUME CarefulUse
    PROVE  Spec => []OneRunner
  <1>1. Shape => OneRunner
    <2> SUFFICES ASSUME Shape PROVE OneRunner
      OBVIOUS
    <2>1. ASSUME NEW r \in Routines PROVE Cardinality(Runners(r)) <= 1
      <3>1. \A c, d \in Runners(r) : c = d
        <4> SUFFICES ASSUME NEW c \in Runners(r), NEW d \in Runners(r), c # d PROVE FALSE
          OBVIOUS
        <4>1. c \in Contexts /\ d \in Contexts
          BY DEF Runners
        <4>2. PICK i \in 1 .. Len(chain[c]) : chain[c][i] = r
          BY <4>1, ChainDomain DEF Runners
        <4>3. PICK j \in 1 .. Len(chain[d]) : chain[d][j] = r
          BY <4>1, ChainDomain DEF Runners
        <4> QED
          BY <4>1, <4>2, <4>3, Unique
      <3>2. CASE Runners(r) = {}
        BY <3>2, FS_EmptySet
      <3>3. CASE \E c \in Runners(r) : TRUE
        <4>1. PICK c \in Runners(r) : TRUE
          BY <3>3
        <4>2. Runners(r) = {c}
          BY <3>1, <4>1
        <4>3. Cardinality({c}) = 1
          BY FS_Singleton, Zenon
        <4> QED
          BY <4>2, <4>3
      <3> QED
        BY <3>2, <3>3
    <2>2. ASSUME NEW c \in Contexts, NEW i \in DOMAIN chain[c], NEW j \in DOMAIN chain[c],
                 chain[c][i] = chain[c][j]
          PROVE  i = j
      <3>1. i \in 1 .. Len(chain[c]) /\ j \in 1 .. Len(chain[c])
        BY ChainDomain
      <3> QED
        BY <2>2, <3>1 DEF Shape, ChainsOK
    <2> QED
      BY <2>1, <2>2 DEF OneRunner
  <1> QED
    BY <1>1, RoutinesInvariant, PTL DEF IInv

(* RUNNING is never left behind: a routine in that state is in some        *)
(* context's chain or launched on core 1, so that a receive() that spins   *)
(* on it waits for somebody (builtin.c, routine.c).                        *)
THEOREM RunningHasRunner ==
    ASSUME CarefulUse
    PROVE  Spec => []RunningIsRun
  <1>1. Shape => RunningIsRun
    <2> SUFFICES ASSUME Shape, NEW r \in Routines, state[r] = "RUNNING",
                        ~(r = core1 /\ call["core1"] = "launch")
                 PROVE  Runners(r) # {}
      BY DEF RunningIsRun
    <2>1. PICK c \in Contexts : \E i \in 1 .. Len(chain[c]) : chain[c][i] = r
      BY DEF Shape, SomeoneRuns
    <2>2. c \in Runners(r)
      BY <2>1, ChainDomain DEF Runners
    <2> QED
      BY <2>2
  <1> QED
    BY <1>1, RoutinesInvariant, PTL DEF IInv

(* An interrupt finds its routine with exactly its entry frame: run and    *)
(* re-enter keeps the pinned routine ready (vm.c, runAndRenter).           *)
THEOREM PinnedStaysReady ==
    ASSUME CarefulUse
    PROVE  Spec => []PinnedIsReady
  <1>1. Shape => PinnedIsReady
    BY DEF Shape, PinnedOK, PinnedIsReady
  <1> QED
    BY <1>1, RoutinesInvariant, PTL DEF IInv

(* Resuming, starting, re-entering and ending a run() never touch a frame  *)
(* or a value outside the routine's arrays, but for the one resume whose   *)
(* coroutine has FRAMES_MAX frames already (routine.c, vm.c).              *)
THEOREM InsideArrays ==
    ASSUME CarefulUse
    PROVE  Spec => StaysInside
  <1>1. ASSUME IInv, Next, wild' PROVE Overrun
    <2>1. Inv
      BY <1>1 DEF Next, IInv, Inv, Inside
    <2> QED
      BY <1>1, <2>1, StepInv DEF Inv, Inside
  <1>2. IInv /\ [Next]_vars =>
          [wild' => \E c \in Contexts : call[c] = "resume" /\ frames[target[c]] = FramesMax]_vars
    BY <1>1 DEF Overrun
  <1> QED
    BY <1>2, RoutinesInvariant, PTL DEF Spec, StaysInside

(* What ends a receive() in the context that waits: its own return, since  *)
(* every other step of the context needs it free or leaves the chain       *)
(* shorter.                                                                *)
LEMMA ReceiveEndsByReceive ==
    ASSUME CarefulUse, Inv, Next, NEW c \in Contexts,
           call[c] = "receive", call'[c] = "none", chain'[c] = chain[c]
    PROVE  Receive(c)
  <1> USE DEF Inv, Shape
  <1>0. call \in [Contexts -> {"none", "resume", "receive", "start", "launch", "leave"}]
        /\ chain \in [Contexts -> Seq(All)]
    BY DEF TypeOK
  <1>1. ASSUME NEW d \in Contexts, NEW x, NEW s, NEW n, NEW t, Executes(d, x),
               EndOfRun(d, x, s, n, t), d = c
        PROVE  FALSE
    <2>1. chain[c] \in Seq(All) /\ chain[c] # <<>> /\ chain'[c] = Front(chain[c])
      BY <1>0, <1>1 DEF EndOfRun, Executes
    <2>2. Len(Front(chain[c])) = Len(chain[c]) - 1 /\ Len(chain[c]) \in Nat
      BY <2>1, FrontFacts
    <2>3. Len(Front(chain[c])) # Len(chain[c])
      BY <2>2
    <2>4. Front(chain[c]) = chain[c]
      BY <2>1
    <2> QED
      BY <2>3, <2>4, Zenon
  <1>2. ASSUME NEW d \in Contexts, NEW x, NEW s, NEW n, NEW t, EndOfRun(d, x, s, n, t), d # c
        PROVE  FALSE
    BY <1>0, <1>2 DEF EndOfRun
  <1>3. c \in {"core0", "core1", "isr"} /\ (c = "core1" => chain["core1"] # <<>>)
    BY DEF Contexts, CallsOK
  <1>4. ASSUME NEW d \in Contexts, Step(d) PROVE Receive(c)
    <2>1. ASSUME NEW t \in Routines, ResumeTest(d, t) PROVE FALSE
      BY <1>0, <2>1 DEF ResumeTest, Calls, Free
    <2>2. ASSUME NEW t \in Routines, ResumeRefused(d, t) PROVE FALSE
      BY <1>1, <1>2, <2>2 DEF ResumeRefused
    <2>3. ASSUME NEW t \in Routines, StartRefused(d, t) PROVE FALSE
      BY <1>1, <1>2, <2>3 DEF StartRefused
    <2>4. ASSUME Start(d) PROVE FALSE
      <3>1. d # c
        BY <2>4 DEF Start, InCall
      <3>2. call' = [call EXCEPT ![d] = "none", !["core1"] = "launch"]
        BY <2>4 DEF Start
      <3> QED
        BY <1>0, <3>1, <3>2, Constants
    <2>10. ASSUME NEW t \in Routines, StartTest(d, t) PROVE FALSE
      BY <1>0, <2>10 DEF StartTest, Calls, Free
    <2>11. ASSUME NEW t \in Routines, PinRefused(d, t) PROVE FALSE
      BY <1>1, <1>2, <2>11 DEF PinRefused
    <2>5. ASSUME NEW t \in Routines, ReceiveCall(d, t) PROVE FALSE
      BY <1>0, <2>5 DEF ReceiveCall, Calls, Free
    <2>6. ASSUME NEW t \in Routines, Pin(d, t) PROVE FALSE
      BY <1>0, <2>6 DEF Pin
    <2>7. CASE Resume(d)
      BY <1>0, <2>7 DEF Resume, InCall
    <2>8. CASE Receive(d)
      BY <1>0, <2>8 DEF Receive
    <2>9. CASE ReceiveUnbound(d)
      BY <1>1, <1>2, <2>9 DEF ReceiveUnbound
    <2> QED
      BY <1>4, <2>1, <2>2, <2>3, <2>4, <2>5, <2>6, <2>7, <2>8, <2>9, <2>10, <2>11 DEF Step
  <1>5. ASSUME NEW d \in Contexts, NEW r \in Routines, Finish(d, r) PROVE FALSE
    <2>1. CASE Yield(d, r)
      BY <1>1, <1>2, <2>1 DEF Yield, MayEnd
    <2>2. CASE Return(d, r)
      BY <1>1, <1>2, <2>2 DEF Return, MayEnd
    <2>3. CASE InnerReturn(d, r)
      BY <2>3 DEF InnerReturn
    <2>4. CASE Error(d, r)
      BY <1>1, <1>2, <2>4 DEF Error, MayEnd
    <2> QED
      BY <1>5, <2>1, <2>2, <2>3, <2>4 DEF Finish
  <1>6. ~Core1Entry
    BY <1>0, Constants DEF Core1Entry
  <1>7. ~Core1Leave
    BY <1>0, Constants DEF Core1Leave
  <1>8. ASSUME NEW s \in Slots, Interrupt(s) PROVE FALSE
    BY <1>8 DEF Interrupt
  <1> QED
    BY <1>4, <1>5, <1>6, <1>7, <1>8 DEF Next

(* A receive() that returns normally has waited until nobody runs the      *)
(* routine any more: the result it reads is final (builtin.c).             *)
THEOREM ReceiveIsFinal ==
    ASSUME CarefulUse
    PROVE  Spec => ReceiveWaits
  <1>1. ASSUME IInv, [Next]_vars, NEW c \in Contexts,
               call[c] = "receive", call'[c] = "none", chain'[c] = chain[c]
        PROVE  Runners(target[c]) = {}
    <2>1. Next
      BY <1>1 DEF vars
    <2>i. Inv
      BY <1>1, <2>1 DEF Next, IInv, Inv, Inside
    <2>2. Receive(c)
      BY <1>1, <2>i, <2>1, ReceiveEndsByReceive
    <2>3. state[target[c]] # "RUNNING"
      BY <2>2 DEF Receive
    <2>4. PICK t : t = target[c]
      OBVIOUS
    <2>5. \A d \in Contexts : \A i \in 1 .. Len(chain[d]) : chain[d][i] # t
      BY <2>i, <2>3, <2>4, NotRunning
    <2>6. \A d \in Contexts : DOMAIN chain[d] = 1 .. Len(chain[d])
      BY <1>1, ChainDomain DEF IInv
    <2> QED
      BY <2>4, <2>5, <2>6 DEF Runners
  <1>2. IInv /\ [Next]_vars =>
          [\A c \in Contexts :
             call[c] = "receive" /\ call'[c] = "none" /\ chain'[c] = chain[c] =>
                Runners(target[c]) = {}]_vars
    BY <1>1
  <1> QED
    BY <1>2, RoutinesInvariant, PTL DEF Spec, ReceiveWaits
=============================================================================
