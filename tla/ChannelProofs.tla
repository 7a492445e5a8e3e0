---------------------------- MODULE ChannelProofs ----------------------------
(***************************************************************************)
(* In safe use (one sender and no sharers, or sharers only; one receiver)  *)
(* a channel of any capacity never holds more than its capacity, never     *)
(* counts below zero, and a busy-wait that ended is still true when the    *)
(* lock is taken, whatever the interleaving of cores and handlers. It      *)
(* implements the bounded queue of ChannelQueue, although its slot, its    *)
(* count and its cursor are written one after the other while others look. *)
(***************************************************************************)
EXTENDS Channel, SequenceTheorems, TLAPS

(* A remainder by a positive number is in range, so every cursor the code  *)
(* computes with % bufferSize is a slot of the buffer.                     *)
LEMMA ModRange == \A x \in Int, y \in Nat \ {0} : x % y \in 0 .. y - 1
  OBVIOUS

(* readCursor() always returns a slot, even when occupied has wrapped.     *)
LEMMA ReadCursorInRange ==
    ASSUME NEW wc \in Int, NEW n \in Int
    PROVE  ReadCursor(wc, n) \in Slots
  <1>1. SizeT \in Nat \ {0} /\ Capacity \in Nat \ {0}
    BY ChannelAssumption
  <1>2. (wc + Capacity - n) % SizeT \in Int
    BY <1>1, ModRange
  <1> QED
    BY <1>1, <1>2, ModRange DEF ReadCursor, Slots

(* What a mark must cover is always a set of values of the buffer.         *)
LEMMA HeldInValues == TypeOK => Held \subseteq Values
  <1> SUFFICES ASSUME TypeOK, NEW k \in 1 .. Stored
               PROVE  Queue[k] \in Values
    BY DEF Held
  <1>1. Capacity \in Nat \ {0} /\ SizeT \in Nat
    BY ChannelAssumption
  <1>2. End \in Int /\ Stored \in Int
    BY <1>1 DEF End, Stored, TypeOK, TypeChannel, Slots
  <1>3. (End + Capacity - Stored + k - 1) % Capacity \in Slots
    BY <1>1, <1>2, ModRange DEF Slots
  <1> QED
    BY <1>3 DEF Queue, TypeOK, TypeChannel

(* A copy of a slot is a value, or a mixture of two.                       *)
LEMMA CopiesTyped ==
    ASSUME TypeOK, NEW a \in Actors PROVE Copies(a) \subseteq Values \cup {Torn}
  <1>1. cursor[a] \in Slots /\ word[a] \in Values
    BY DEF TypeOK, TypeLocals
  <1>2. buffer[cursor[a]] \in Values
    BY <1>1 DEF TypeOK, TypeChannel
  <1> QED
    BY <1>1, <1>2 DEF Copies

-----------------------------------------------------------------------------
(* newChannel establishes the types.                                       *)
LEMMA InitType == Init => TypeOK
  <1> SUFFICES ASSUME Init PROVE TypeOK
    OBVIOUS
  <1>1. /\ Capacity \in Nat \ {0} /\ SizeT \in Nat /\ SizeT > 2 * Capacity
        /\ Nil \in Values
    BY ChannelAssumption DEF Values
  <1>2. TypeChannel
    <2>1. overflow \in BOOLEAN
      BY Zenon DEF Init
    <2>2. lock \in Actors \cup {NoOne} /\ occupied \in 0 .. SizeT - 1
      BY <1>1 DEF Init
    <2>3. buffer \in [Slots -> Values] /\ writeCursor \in Slots
      BY <1>1 DEF Init, Slots
    <2> QED
      BY <2>1, <2>2, <2>3 DEF TypeChannel
  <1>3. TypeActors
    BY <1>1 DEF Init, TypeActors, Ops, Points
  <1>4. TypeLocals
    <2>1. count \in [Actors -> 0 .. SizeT - 1] /\ steps \in [Actors -> 0 .. SizeT]
      BY <1>1 DEF Init
    <2>2. cursor \in [Actors -> Slots]
      BY <1>1 DEF Init, Slots
    <2>3. marked \in [Actors -> SUBSET Values] /\ owed \in [Actors -> SUBSET Values]
          /\ word \in [Actors -> Values]
      BY <1>1 DEF Init
    <2> QED
      BY <2>1, <2>2, <2>3 DEF TypeLocals
  <1> QED
    BY <1>2, <1>3, <1>4 DEF TypeOK

(* Every step of every context preserves the types, safe use or not: the   *)
(* cursors stay inside the buffer and size_t wraps instead of going wrong. *)
LEMMA TypeChannelStep ==
    ASSUME TypeOK, [Next]_vars PROVE TypeChannel'
  <1> USE DEF TypeOK, TypeChannel
  <1>1. /\ Capacity \in Nat \ {0} /\ SizeT \in Nat \ {0}
        /\ SizeT > 2 * Capacity
    BY ChannelAssumption
  <1>2. occupied \in Int /\ writeCursor \in Int
    BY DEF Slots
  <1>3. /\ (occupied + 1) % SizeT \in 0 .. SizeT - 1
        /\ (occupied - 1) % SizeT \in 0 .. SizeT - 1
        /\ (writeCursor + 1) % Capacity \in Slots
    BY <1>1, <1>2, ModRange DEF Slots
  <1>4. CASE UNCHANGED <<channel, lock>>
    BY <1>4 DEF channel
  <1>5. ASSUME NEW a \in Actors, Put(a) PROVE TypeChannel'
    BY <1>5 DEF Put, TypeActors
  <1>6. ASSUME NEW a \in Actors, Count(a) PROVE TypeChannel'
    BY <1>6, <1>3 DEF Count
  <1>7. ASSUME NEW a \in Actors, SendAdvance(a) \/ ShareAdvance(a)
        PROVE TypeChannel'
    BY <1>7, <1>3 DEF SendAdvance, ShareAdvance
  <1>8. ASSUME NEW a \in Actors, ShareClamp(a) PROVE TypeChannel'
    <2>1. overflow' \in BOOLEAN
      BY <1>8, Zenon DEF ShareClamp
    <2> QED
      BY <1>8, <1>1, <2>1 DEF ShareClamp
  <1>9. ASSUME NEW a \in Actors, Take(a) PROVE TypeChannel'
    BY <1>9, <1>3 DEF Take
  <1>10. ASSUME NEW a \in Actors, Calls(a) PROVE UNCHANGED <<channel, lock>>
    BY <1>10 DEF Calls, SendCall, ShareCall, ReceiveCall, GroupCall, PeekCall,
                 MarkCall, Call
  <1> QED
    BY <1>4, <1>5, <1>6, <1>7, <1>8, <1>9, <1>10
       DEF Next, Body, vars, SendWait, ReceiveWait, PeekCheck, ReadCount,
           PeekReturn, GroupEnter, GroupCheck, GroupTest, Locate, Fetch, MarkSlot,
           MarkEnd

LEMMA TypeActorsStep ==
    ASSUME TypeOK, [Next]_vars PROVE TypeActors'
  <1> USE DEF TypeOK, TypeActors, Goto
  <1>1. CASE UNCHANGED vars
    BY <1>1 DEF vars
  <1>2. ASSUME NEW a \in Actors, Calls(a) PROVE TypeActors'
    BY <1>2 DEF Calls, SendCall, ShareCall, ReceiveCall, GroupCall, PeekCall,
                MarkCall, Call, Points, Ops, Values
  <1>3. ASSUME NEW a \in Actors, NEW v \in Values \cup BOOLEAN \cup {Torn},
               ret' = [ret EXCEPT ![a] = v]
        PROVE  ret' \in [Actors -> Values \cup BOOLEAN \cup {Torn}]
    BY <1>3
  <1>4. Nil \in Values \cup BOOLEAN \cup {Torn}
    BY DEF Values
  <1>5. ASSUME NEW n \in Int PROVE buffer[ReadCursor(writeCursor, n)] \in Values \cup BOOLEAN \cup {Torn}
    <2>1. writeCursor \in Int
      BY DEF TypeChannel, Slots
    <2>2. ReadCursor(writeCursor, n) \in Slots
      BY <2>1, ReadCursorInRange
    <2> QED
      BY <2>2 DEF TypeChannel
  <1>6. ASSUME NEW a \in Actors, SendAdvance(a) \/ PeekCheck(a) PROVE TypeActors'
    <2>1. ret' \in [Actors -> Values \cup BOOLEAN \cup {Torn}]
      BY <1>3, <1>4, <1>6 DEF SendAdvance, PeekCheck
    <2> QED
      BY <2>1, <1>6 DEF SendAdvance, PeekCheck, Points
  <1>7. ASSUME NEW a \in Actors, ShareClamp(a) PROVE TypeActors'
    <2>1. overflow' \in Values \cup BOOLEAN \cup {Torn}
      BY <1>7, Zenon DEF ShareClamp, TypeChannel
    <2>2. ret' \in [Actors -> Values \cup BOOLEAN \cup {Torn}]
      BY <2>1, <1>7, Zenon DEF ShareClamp
    <2> QED
      BY <2>2, <1>7 DEF ShareClamp, Points
  <1>8. ASSUME NEW a \in Actors, Take(a) PROVE TypeActors'
    <2>1. buffer[ReadCursor(writeCursor, occupied)] \in Values \cup BOOLEAN \cup {Torn}
      BY <1>5 DEF TypeChannel
    <2>2. ret' \in [Actors -> Values \cup BOOLEAN \cup {Torn}]
      BY <2>1, <1>8 DEF Take
    <2> QED
      BY <2>2, <1>8 DEF Take, Points
  <1>9. ASSUME NEW a \in Actors, PeekReturn(a) PROVE TypeActors'
    <2>1. PICK v \in Copies(a) : ret' = [ret EXCEPT ![a] = v]
      BY <1>9 DEF PeekReturn
    <2>2. ret' \in [Actors -> Values \cup BOOLEAN \cup {Torn}]
      BY <1>3, <2>1, CopiesTyped
    <2> QED
      BY <2>2, <1>9 DEF PeekReturn, Points
  <1>11. ASSUME NEW a \in Actors, GroupCheck(a) \/ GroupTest(a) PROVE TypeActors'
    <2>1. ret' \in [Actors -> Values \cup BOOLEAN \cup {Torn}]
      BY <1>3, <1>4, <1>11 DEF GroupCheck, GroupTest, GroupHasNone
    <2> QED
      BY <2>1, <1>11 DEF GroupCheck, GroupTest, GroupHasNone, Points
  <1>10. ASSUME NEW a \in Actors,
                SendWait(a) \/ ReceiveWait(a) \/ Put(a) \/ Count(a)
                \/ ShareAdvance(a) \/ ReadCount(a) \/ Locate(a) \/ Fetch(a)
                \/ MarkSlot(a) \/ MarkEnd(a) \/ GroupEnter(a)
         PROVE TypeActors'
    BY <1>10 DEF SendWait, ReceiveWait, Put, Count, ShareAdvance, ReadCount,
                 GroupEnter, Locate, Fetch, MarkSlot, MarkEnd, Points
  <1> QED
    BY <1>1, <1>2, <1>6, <1>7, <1>8, <1>9, <1>10, <1>11 DEF Next, Body

LEMMA TypeLocalsStep ==
    ASSUME TypeOK, [Next]_vars PROVE TypeLocals'
  <1> USE DEF TypeOK, TypeLocals
  <1>1. Capacity \in Nat \ {0} /\ SizeT \in Nat \ {0} /\ 0 \in Slots
    BY ChannelAssumption DEF Slots
  <1>2. CASE UNCHANGED locals
    BY <1>2 DEF locals
  <1>3. ASSUME NEW a \in Actors, ReadCount(a) PROVE TypeLocals'
    <2>1. owed' \in [Actors -> SUBSET Values]
      BY <1>3, HeldInValues DEF ReadCount
    <2> QED
      BY <1>3, <2>1 DEF ReadCount, TypeChannel
  <1>4. ASSUME NEW a \in Actors, DropLocals(a) PROVE TypeLocals'
    <2>1. marked' \in [Actors -> SUBSET Values] /\ owed' \in [Actors -> SUBSET Values]
      BY <1>4 DEF DropLocals
    <2> QED
      BY <1>4, <1>1, <2>1 DEF DropLocals, Values
  <1>5. ASSUME NEW a \in Actors, Locate(a) PROVE TypeLocals'
    <2>1. ReadCursor(writeCursor, count[a]) \in Slots
      <3>1. writeCursor \in Int /\ count[a] \in Int
        BY DEF TypeChannel, Slots
      <3> QED
        BY <3>1, ReadCursorInRange
    <2> QED
      BY <1>5, <2>1 DEF Locate
  <1>6. ASSUME NEW a \in Actors, MarkSlot(a) PROVE TypeLocals'
    <2>1. (cursor[a] + 1) % Capacity \in Slots
      <3>1. cursor[a] + 1 \in Int
        BY DEF Slots
      <3> QED
        BY <3>1, <1>1, ModRange DEF Slots
    <2>2. marked[a] \cup {buffer[cursor[a]]} \in SUBSET Values
      BY DEF TypeChannel
    <2>3. steps[a] + 1 \in 0 .. SizeT
      BY <1>6, <1>1 DEF MarkSlot, TypeChannel
    <2>4. marked' \in [Actors -> SUBSET Values]
      BY <1>6, <2>2 DEF MarkSlot
    <2> QED
      BY <1>6, <2>1, <2>3, <2>4 DEF MarkSlot
  <1>7. ASSUME NEW a \in Actors, Calls(a) PROVE UNCHANGED locals
    BY <1>7 DEF Calls, SendCall, ShareCall, ReceiveCall, GroupCall, PeekCall,
                 MarkCall, Call
  <1>8. ASSUME NEW a \in Actors, Fetch(a) PROVE TypeLocals'
    <2>1. buffer[cursor[a]] \in Values
      BY DEF TypeChannel
    <2> QED
      BY <1>8, <2>1 DEF Fetch
  <1> QED
    BY <1>2, <1>3, <1>4, <1>5, <1>6, <1>7, <1>8
       DEF Next, Body, vars, SendWait, ReceiveWait, Put, Count, SendAdvance,
           ShareAdvance, ShareClamp, Take, PeekCheck, PeekReturn, GroupEnter,
           GroupCheck, GroupTest, MarkEnd

(* The type invariant of the whole channel, for any number of actors.      *)
THEOREM TypeCorrect == Spec => []TypeOK
  <1>1. TypeOK /\ [Next]_vars => TypeOK'
    BY TypeChannelStep, TypeActorsStep, TypeLocalsStep DEF TypeOK
  <1> QED
    BY <1>1, InitType, PTL DEF Spec

-----------------------------------------------------------------------------
(* Inside size_t's range the remainder changes nothing.                    *)
LEMMA ModSmall == \A x \in Int, y \in Nat \ {0} : 0 <= x /\ x < y => x % y = x
  OBVIOUS

(* A call starts outside the lock and only writes its caller's locals.     *)
LEMMA CallStep ==
    ASSUME Inv, NEW a \in Actors, Calls(a) PROVE Inv'
  <1>1. TypeOK'
    BY TypeChannelStep, TypeActorsStep, TypeLocalsStep DEF Inv, TypeOK, Next
  <1>2. /\ pc[a] = "idle" /\ UNCHANGED <<channel, lock>>
        /\ pc' = [pc EXCEPT ![a] = pc'[a]] /\ op' = [op EXCEPT ![a] = op'[a]]
        /\ \/ a \in Senders /\ op'[a] = "send" /\ pc'[a] = "wait"
           \/ a \in Sharers /\ op'[a] = "share" /\ pc'[a] = "put"
           \/ a \in Receivers /\ op'[a] = "receive" /\ pc'[a] = "wait"
           \/ a \in Receivers /\ op'[a] = "group" /\ pc'[a] = "poll"
           \/ op'[a] = "peek" /\ pc'[a] = "check"
           \/ op'[a] = "mark" /\ pc'[a] = "reread"
    BY DEF Calls, SendCall, ShareCall, ReceiveCall, GroupCall, PeekCall,
           MarkCall, Call, CanStart, Active, Goto, Inv, TypeOK, TypeActors
  <1> QED
    BY <1>1, <1>2 DEF Inv, TypeOK, TypeActors, LockHeld, RolesKept,
       OccupiedInside, OccupancyBounded, WaitStillHolds, Critical, Active,
       Limit, channel

(* A step of a waiting, peeking or marking actor leaves channel and lock   *)
(* alone; a wait ends only when its condition holds.                       *)
LEMMA QuietStep ==
    ASSUME SafeUse, Inv, NEW a \in Actors,
           SendWait(a) \/ ReceiveWait(a) \/ PeekCheck(a) \/ ReadCount(a)
           \/ PeekReturn(a) \/ GroupEnter(a) \/ GroupCheck(a) \/ GroupTest(a)
           \/ Locate(a) \/ Fetch(a) \/ MarkSlot(a) \/ MarkEnd(a)
    PROVE  Inv'
  <1>1. TypeOK'
    BY TypeChannelStep, TypeActorsStep, TypeLocalsStep DEF Inv, TypeOK, Next, Body
  <1>2. SizeT \in Nat /\ Capacity \in Nat
    BY ChannelAssumption
  <1>3. /\ UNCHANGED <<channel, lock, op>>
        /\ \/ /\ pc[a] = "wait" /\ op[a] = "send" /\ occupied # Capacity
              /\ pc' = [pc EXCEPT ![a] = "put"]
           \/ /\ pc[a] = "wait" /\ op[a] = "receive" /\ occupied # 0
              /\ pc' = [pc EXCEPT ![a] = "take"]
           \/ /\ pc[a] \in {"check", "reread", "locate", "fetch", "copy", "loop"}
              /\ op[a] # "group"
              /\ \E q \in {"idle", "reread", "locate", "fetch", "copy", "loop"} :
                    /\ pc' = [pc EXCEPT ![a] = q]
                    /\ q = "loop" => op[a] = "mark"
                    /\ q \in {"reread", "locate"} => op[a] \in {"peek", "mark"}
                    /\ q \in {"fetch", "copy"} => op[a] = "peek"
           \/ /\ op[a] = "group"
              /\ \/ pc[a] = "poll" /\ pc' = [pc EXCEPT ![a] = "check"]
                 \/ /\ pc[a] = "check" /\ occupied > 0
                    /\ pc' = [pc EXCEPT ![a] = "reread"]
                 \/ /\ pc[a] \in {"reread", "locate", "fetch", "copy"}
                    /\ \E q \in {"locate", "fetch", "copy", "take"} :
                          pc' = [pc EXCEPT ![a] = q]
                 \/ /\ pc[a] \in {"check", "copy"}
                    /\ pc' \in {[pc EXCEPT ![a] = "poll"], [pc EXCEPT ![a] = "idle"]}
    <2>1. UNCHANGED <<channel, lock, op>>
      BY DEF SendWait, ReceiveWait, PeekCheck, ReadCount, PeekReturn, GroupEnter,
             GroupCheck, GroupTest, Locate, Fetch, MarkSlot, MarkEnd
    <2>2. CASE SendWait(a) \/ ReceiveWait(a) \/ PeekCheck(a) \/ PeekReturn(a)
      BY <2>1, <2>2 DEF SendWait, ReceiveWait, PeekCheck, PeekReturn, At, Goto
    <2>3. CASE GroupEnter(a) \/ GroupCheck(a) \/ GroupTest(a)
      <3>1. op[a] = "group"
        BY <2>3 DEF GroupEnter, GroupCheck, GroupTest, At, Inv, RolesKept
      <3> QED
        BY <2>1, <2>3, <3>1 DEF GroupEnter, GroupCheck, GroupTest, GroupHasNone,
                                At, Goto
    <2>4. CASE ReadCount(a)
      BY <2>1, <2>4 DEF ReadCount, At, Goto, Inv, RolesKept
    <2>5. CASE MarkSlot(a) \/ MarkEnd(a)
      <3>1. op[a] = "mark"
        BY <2>5 DEF MarkSlot, MarkEnd, At, Inv, RolesKept
      <3> QED
        BY <2>1, <2>5, <3>1 DEF MarkSlot, MarkEnd, At, Goto, Inv, TypeOK, TypeActors
    <2>6. CASE Locate(a)
      <3>1. op[a] \in {"mark", "peek", "group"}
        BY <2>6 DEF Locate, At, Inv, RolesKept
      <3> QED
        BY <2>1, <2>6, <3>1 DEF Locate, At, Goto
    <2>7. CASE Fetch(a)
      <3>1. op[a] \in {"peek", "group"}
        BY <2>7 DEF Fetch, At, Inv, RolesKept
      <3> QED
        BY <2>1, <2>7, <3>1 DEF Fetch, At, Goto
    <2> QED
      BY <2>2, <2>3, <2>4, <2>5, <2>6, <2>7
  <1>4. ASSUME pc[a] = "wait", op[a] = "send", occupied # Capacity
        PROVE  occupied < Capacity
    <2>1. lock = NoOne
      BY <1>4 DEF SafeUse, Inv, LockHeld, RolesKept, TypeOK, TypeChannel,
                  Critical, Active
    <2> QED
      BY <1>2, <1>4, <2>1 DEF Inv, OccupancyBounded, TypeOK, TypeChannel
  <1>5. LockHeld' /\ RolesKept'
    BY <1>3 DEF Inv, TypeOK, TypeActors, LockHeld, RolesKept, Critical, Active
  <1>6. OccupiedInside' /\ OccupancyBounded'
    BY <1>3 DEF Inv, TypeOK, TypeActors, OccupiedInside, OccupancyBounded,
                Limit, channel
  <1>7. WaitStillHolds'
    <2>1. occupied' = occupied /\ occupied \in Nat
      BY <1>2, <1>3 DEF channel, Inv, TypeOK, TypeChannel
    <2> QED
      BY <1>3, <1>4, <2>1 DEF Inv, TypeOK, TypeActors, WaitStillHolds
  <1> QED
    BY <1>1, <1>5, <1>6, <1>7 DEF Inv

(* The four steps of a send or a share inside the lock. The sender is the  *)
(* only writer, so the room it found is still there; sharers clamp.        *)
LEMMA WriteStep ==
    ASSUME SafeUse, Inv, NEW a \in Actors,
           Put(a) \/ Count(a) \/ SendAdvance(a) \/ ShareAdvance(a)
           \/ ShareClamp(a)
    PROVE  Inv'
  <1>1. TypeOK'
    BY TypeChannelStep, TypeActorsStep, TypeLocalsStep DEF Inv, TypeOK, Next, Body
  <1>2. /\ SizeT \in Nat \ {0} /\ Capacity \in Nat \ {0}
        /\ SizeT > 2 * Capacity /\ NoOne \notin Actors
    BY ChannelAssumption
  <1>3. occupied \in Nat /\ pc \in [Actors -> Points] /\ op \in [Actors -> Ops]
    BY <1>2 DEF Inv, TypeOK, TypeChannel, TypeActors
  <1> USE <1>2, <1>3 DEF Goto, At
  <1>4. CASE Put(a)
    <2>1. LockHeld' /\ RolesKept'
      BY <1>4 DEF Put, Inv, LockHeld, RolesKept, Critical, Active
    <2>2. OccupiedInside'
      BY <1>4 DEF Put, Inv, LockHeld, OccupiedInside, OccupancyBounded,
                  WaitStillHolds, RolesKept, Limit, Critical
    <2>3. OccupancyBounded' /\ WaitStillHolds'
      BY <1>4 DEF Put, Inv, OccupancyBounded, WaitStillHolds
    <2> QED
      BY <1>1, <2>1, <2>2, <2>3 DEF Inv
  <1>5. CASE Count(a)
    <2>1. occupied < Limit(a) /\ lock = a
      BY <1>5 DEF Count, Inv, OccupiedInside, LockHeld, Critical
    <2>2. occupied' = occupied + 1
      BY <1>5, <2>1, ModSmall DEF Count, Limit
    <2>3. LockHeld' /\ RolesKept'
      BY <1>5 DEF Count, Inv, LockHeld, RolesKept, Critical, Active
    <2>4. OccupiedInside'
      BY <1>5, <2>1, <2>2 DEF Count, Inv, LockHeld, OccupiedInside, Limit, Critical
    <2>5. OccupancyBounded'
      BY <1>5, <2>1 DEF Count, OccupancyBounded
    <2>6. a \in Senders \cup Sharers
      BY <1>5 DEF Count, Inv, RolesKept, Active
    <2>7. \A b \in Actors : ~(pc[b] = "put" /\ op[b] = "send")
      BY <1>5, <2>6 DEF Count, SafeUse, Inv, RolesKept, Active
    <2>8. WaitStillHolds'
      BY <1>5, <2>2, <2>7 DEF Count, Inv, WaitStillHolds
    <2> QED
      BY <1>1, <2>3, <2>4, <2>5, <2>8 DEF Inv
  <1>6. CASE SendAdvance(a) \/ ShareAdvance(a)
    <2>1. LockHeld' /\ RolesKept'
      BY <1>6 DEF SendAdvance, ShareAdvance, Inv, LockHeld, RolesKept,
                  Critical, Active
    <2>2. OccupiedInside'
      BY <1>6 DEF SendAdvance, ShareAdvance, Inv, LockHeld, OccupiedInside,
                  Limit, Critical
    <2>3. OccupancyBounded' /\ WaitStillHolds'
      BY <1>6 DEF SendAdvance, ShareAdvance, Inv, LockHeld, OccupancyBounded,
                  WaitStillHolds, OccupiedInside, Limit, Critical
    <2> QED
      BY <1>1, <2>1, <2>2, <2>3 DEF Inv
  <1>7. CASE ShareClamp(a)
    <2>1. lock = a /\ occupied \in 1 .. Capacity + 1
      BY <1>7 DEF ShareClamp, Inv, LockHeld, OccupiedInside, Limit, Critical
    <2>2. occupied' \in 1 .. Capacity
      BY <1>7, <2>1 DEF ShareClamp
    <2>3. LockHeld' /\ RolesKept'
      BY <1>7 DEF ShareClamp, Inv, LockHeld, RolesKept, Critical, Active
    <2>4. OccupiedInside'
      BY <1>7, <2>1 DEF ShareClamp, Inv, LockHeld, OccupiedInside, Critical
    <2>5. OccupancyBounded'
      BY <2>2 DEF OccupancyBounded
    <2>6. \A b \in Actors : ~(pc[b] = "put" /\ op[b] = "send")
      BY <1>7 DEF ShareClamp, SafeUse, Inv, RolesKept, Active
    <2>7. WaitStillHolds'
      BY <1>7, <2>2, <2>6 DEF ShareClamp, Inv, WaitStillHolds
    <2> QED
      BY <1>1, <2>3, <2>4, <2>5, <2>7 DEF Inv
  <1> QED
    BY <1>4, <1>5, <1>6, <1>7

(* A receive takes what its wait saw: the only receiver lowers occupied.   *)
LEMMA TakeStep ==
    ASSUME SafeUse, Inv, NEW a \in Actors, Take(a) PROVE Inv'
  <1>1. TypeOK'
    BY TypeChannelStep, TypeActorsStep, TypeLocalsStep DEF Inv, TypeOK, Next, Body
  <1>2. /\ SizeT \in Nat \ {0} /\ Capacity \in Nat \ {0}
        /\ SizeT > 2 * Capacity /\ NoOne \notin Actors
    BY ChannelAssumption
  <1>3. occupied \in Nat /\ pc \in [Actors -> Points] /\ op \in [Actors -> Ops]
    BY <1>2 DEF Inv, TypeOK, TypeChannel, TypeActors
  <1>4. occupied > 0 /\ occupied <= Capacity /\ lock = NoOne /\ pc[a] = "take"
    BY DEF Take, At, Inv, WaitStillHolds, OccupancyBounded
  <1>5. occupied' = occupied - 1
    BY <1>2, <1>3, <1>4, ModSmall DEF Take
  <1>6. LockHeld' /\ RolesKept'
    BY <1>3, <1>4 DEF Take, Goto, Inv, LockHeld, RolesKept, Critical, Active
  <1>7. OccupiedInside'
    BY <1>2, <1>3, <1>4 DEF Take, Goto, Inv, LockHeld, OccupiedInside, Critical
  <1>8. \A b \in Actors :
            pc[b] = "take" \/ (pc[b] # "idle" /\ op[b] = "group") => b = a
    BY <1>4 DEF SafeUse, Inv, RolesKept, Active
  <1>9. OccupancyBounded' /\ WaitStillHolds'
    BY <1>2, <1>3, <1>4, <1>5, <1>8
       DEF Take, Goto, Inv, OccupancyBounded, WaitStillHolds
  <1> QED
    BY <1>1, <1>6, <1>7, <1>9 DEF Inv

(* Inv is an invariant of every channel in safe use.                       *)
THEOREM SafeChannel == ASSUME SafeUse PROVE Spec => []Inv
  <1>1. Init => Inv
    <2>1. Capacity \in Nat \ {0} /\ NoOne \notin Actors
      BY ChannelAssumption
    <2>2. Init => LockHeld /\ RolesKept /\ OccupiedInside
      BY <2>1 DEF Init, LockHeld, RolesKept, OccupiedInside, Critical, Active
    <2>3. Init => OccupancyBounded /\ WaitStillHolds
      BY <2>1 DEF Init, OccupancyBounded, WaitStillHolds
    <2> QED
      BY InitType, <2>2, <2>3 DEF Inv
  <1>2. Inv /\ UNCHANGED vars => Inv'
    BY DEF Inv, TypeOK, TypeChannel, TypeActors, TypeLocals, LockHeld,
           RolesKept, OccupiedInside, OccupancyBounded, WaitStillHolds,
           Active, Limit, vars, channel, locals
  <1>3. Inv /\ Next => Inv'
    BY CallStep, QuietStep, WriteStep, TakeStep DEF Next, Body
  <1> QED
    BY <1>1, <1>2, <1>3, PTL DEF Spec

(* A channel never holds more values than make_channel gave it room for,   *)
(* and occupied never wraps below zero.                                    *)
THEOREM ChannelNeverOverfull == ASSUME SafeUse PROVE Spec => []OccupancyBounded
  <1>1. Inv => OccupancyBounded
    BY DEF Inv
  <1> QED
    BY <1>1, SafeChannel, PTL

(* What a busy-wait saw still holds when the lock is taken.                *)
THEOREM ChannelWaitsAreSound == ASSUME SafeUse PROVE Spec => []WaitStillHolds
  <1>1. Inv => WaitStillHolds
    BY DEF Inv
  <1> QED
    BY <1>1, SafeChannel, PTL

-----------------------------------------------------------------------------
(* The queue. The ring is first studied as a sequence; the actions are     *)
(* then matched with the queue's operations.                               *)
(* The n values that end before position e of buffer b.                    *)
Ring(b, e, n) == [k \in 1 .. n |-> b[(e + Capacity - n + k - 1) % Capacity]]

(* A position at most one lap ahead.                                       *)
LEMMA ModLap ==
    \A x \in Int, y \in Nat \ {0} :
        0 <= x /\ x < 2 * y => x % y = IF x < y THEN x ELSE x - y
  OBVIOUS

(* Where the k-th of n values is: in the buffer, at most a lap back.       *)
LEMMA SlotOf ==
    ASSUME NEW e \in 0 .. Capacity, NEW n \in 0 .. Capacity, NEW k \in 1 .. n
    PROVE  /\ (e + Capacity - n + k - 1) % Capacity
                = IF e - n + k - 1 < 0 THEN e + Capacity - n + k - 1 ELSE e - n + k - 1
           /\ (e + Capacity - n + k - 1) % Capacity \in Slots
  <1>1. Capacity \in Nat \ {0}
    BY ChannelAssumption
  <1> DEFINE x == e + Capacity - n + k - 1
  <1>2. x \in Int /\ 0 <= x /\ x < 2 * Capacity
    BY <1>1
  <1>3. x % Capacity = IF x < Capacity THEN x ELSE x - Capacity
    BY <1>1, <1>2, ModLap
  <1>4. x % Capacity = IF e - n + k - 1 < 0 THEN x ELSE e - n + k - 1
    BY <1>1, <1>2, <1>3
  <1>5. x % Capacity \in Slots
    BY <1>1, <1>2, ModRange DEF Slots
  <1> QED
    BY <1>4, <1>5

(* A ring is a sequence of values.                                         *)
LEMMA RingSeq ==
    ASSUME NEW b \in [Slots -> Values], NEW e \in 0 .. Capacity, NEW n \in 0 .. Capacity
    PROVE  /\ Ring(b, e, n) \in Seq(Values) /\ Len(Ring(b, e, n)) = n
           /\ Ring(b, e, n) = <<>> <=> n = 0
           /\ \A k \in 1 .. n : Ring(b, e, n)[k] = b[(e + Capacity - n + k - 1) % Capacity]
  <1>1. n \in Nat
    BY ChannelAssumption
  <1>2. \A k \in 1 .. n : b[(e + Capacity - n + k - 1) % Capacity] \in Values
    BY SlotOf
  <1>3. Ring(b, e, n) \in [1 .. n -> Values]
    BY <1>2 DEF Ring
  <1>4. Ring(b, e, n) \in Seq(Values) /\ Len(Ring(b, e, n)) = n
    BY <1>1, <1>3
  <1> QED
    BY <1>1, <1>4 DEF Ring

(* The cursor wraps: the end of the buffer is its beginning.               *)
LEMMA RingWraps ==
    ASSUME NEW b \in [Slots -> Values], NEW n \in 0 .. Capacity
    PROVE  Ring(b, Capacity, n) = Ring(b, 0, n)
  <1>1. Capacity \in Nat \ {0} /\ 0 \in 0 .. Capacity /\ Capacity \in 0 .. Capacity
    BY ChannelAssumption
  <1>2. ASSUME NEW k \in 1 .. n
        PROVE  (Capacity + Capacity - n + k - 1) % Capacity = (0 + Capacity - n + k - 1) % Capacity
    <2>1. (Capacity + Capacity - n + k - 1) % Capacity
            = IF Capacity - n + k - 1 < 0 THEN Capacity + Capacity - n + k - 1 ELSE Capacity - n + k - 1
      BY <1>1, SlotOf
    <2>2. (0 + Capacity - n + k - 1) % Capacity
            = IF 0 - n + k - 1 < 0 THEN 0 + Capacity - n + k - 1 ELSE 0 - n + k - 1
      BY <1>1, SlotOf
    <2> QED
      BY <1>1, <2>1, <2>2
  <1> QED
    BY <1>2 DEF Ring

(* Writing the slot at the cursor of a ring with room appends.             *)
LEMMA RingPut ==
    ASSUME NEW b \in [Slots -> Values], NEW w \in Slots, NEW n \in 0 .. Capacity,
           n < Capacity, NEW v \in Values
    PROVE  Ring([b EXCEPT ![w] = v], w + 1, n + 1) = Append(Ring(b, w, n), v)
  <1> DEFINE c == [b EXCEPT ![w] = v]
             s == Ring(b, w, n)
             t == Ring(c, w + 1, n + 1)
  <1>1. Capacity \in Nat \ {0} /\ w \in 0 .. Capacity /\ w + 1 \in 0 .. Capacity
        /\ n \in Nat /\ n + 1 \in 0 .. Capacity /\ w \in Nat /\ w < Capacity
    BY ChannelAssumption DEF Slots
  <1>2. c \in [Slots -> Values] /\ c[w] = v /\ \A i \in Slots : i # w => c[i] = b[i]
    OBVIOUS
  <1>3. /\ s \in Seq(Values) /\ Len(s) = n
        /\ \A k \in 1 .. n : s[k] = b[(w + Capacity - n + k - 1) % Capacity]
    BY <1>1, RingSeq
  <1> HIDE DEF c
  <1>4. /\ t \in Seq(Values) /\ Len(t) = n + 1
        /\ \A k \in 1 .. n + 1 : t[k] = c[(w + 1 + Capacity - (n + 1) + k - 1) % Capacity]
    BY <1>1, <1>2, RingSeq
  <1>5. /\ Append(s, v) \in Seq(Values) /\ Len(Append(s, v)) = n + 1
        /\ \A k \in 1 .. n : Append(s, v)[k] = s[k]
        /\ Append(s, v)[n + 1] = v
    BY <1>3, AppendProperties
  <1>6. ASSUME NEW k \in 1 .. n PROVE t[k] = s[k]
    <2> DEFINE i == (w + Capacity - n + k - 1) % Capacity
    <2>1. i = (IF w - n + k - 1 < 0 THEN w + Capacity - n + k - 1 ELSE w - n + k - 1) /\ i \in Slots
      BY <1>1, SlotOf
    <2>2. i # w
      BY <1>1, <2>1
    <2>3. w + 1 + Capacity - (n + 1) + k - 1 = w + Capacity - n + k - 1 /\ k \in 1 .. n + 1
      BY <1>1
    <2> QED
      BY <1>2, <1>3, <1>4, <2>1, <2>2, <2>3
  <1>7. t[n + 1] = v
    <2>1. w + 1 + Capacity - (n + 1) + (n + 1) - 1 = w + Capacity /\ n + 1 \in 1 .. n + 1
      BY <1>1
    <2>2. (w + Capacity) % Capacity = w
      BY <1>1, ModLap
    <2> QED
      BY <1>2, <1>4, <2>1, <2>2
  <1> HIDE DEF s, t
  <1>8. \A k \in 1 .. n + 1 : t[k] = Append(s, v)[k]
    BY <1>1, <1>5, <1>6, <1>7
  <1>9. t = Append(s, v)
    BY <1>4, <1>5, <1>8, SeqEqual
  <1> QED
    BY <1>9 DEF s, t, c

(* Writing it in a full ring drops the oldest value and appends.           *)
LEMMA RingPutFull ==
    ASSUME NEW b \in [Slots -> Values], NEW w \in Slots, NEW v \in Values
    PROVE  Ring([b EXCEPT ![w] = v], w + 1, Capacity) = Append(Tail(Ring(b, w, Capacity)), v)
  <1> DEFINE c == [b EXCEPT ![w] = v]
             s == Ring(b, w, Capacity)
             t == Ring(c, w + 1, Capacity)
  <1>1. Capacity \in Nat \ {0} /\ w \in 0 .. Capacity /\ w + 1 \in 0 .. Capacity
        /\ Capacity \in 0 .. Capacity /\ w \in Nat /\ w < Capacity
    BY ChannelAssumption DEF Slots
  <1>2. c \in [Slots -> Values] /\ c[w] = v /\ \A i \in Slots : i # w => c[i] = b[i]
    OBVIOUS
  <1>3. /\ s \in Seq(Values) /\ Len(s) = Capacity /\ s # <<>>
        /\ \A k \in 1 .. Capacity : s[k] = b[(w + Capacity - Capacity + k - 1) % Capacity]
    BY <1>1, RingSeq
  <1> HIDE DEF c
  <1>4. /\ t \in Seq(Values) /\ Len(t) = Capacity
        /\ \A k \in 1 .. Capacity : t[k] = c[(w + 1 + Capacity - Capacity + k - 1) % Capacity]
    BY <1>1, <1>2, RingSeq
  <1> HIDE DEF s, t
  <1>5. /\ Tail(s) \in Seq(Values) /\ Len(Tail(s)) = Capacity - 1
        /\ \A k \in 1 .. Capacity - 1 : Tail(s)[k] = s[k + 1]
    BY <1>3, HeadTailProperties
  <1> DEFINE u == Append(Tail(s), v)
  <1>6. /\ u \in Seq(Values) /\ Len(u) = Capacity /\ u[Capacity] = v
        /\ \A k \in 1 .. Capacity - 1 : u[k] = Tail(s)[k]
    <2>1. Capacity - 1 + 1 = Capacity
      BY <1>1
    <2> QED
      BY <1>5, <2>1, AppendProperties
  <1>7. ASSUME NEW k \in 1 .. Capacity - 1 PROVE t[k] = u[k]
    <2> DEFINE i == (w + Capacity - Capacity + (k + 1) - 1) % Capacity
    <2>1. k + 1 \in 1 .. Capacity /\ k \in 1 .. Capacity
      BY <1>1
    <2>2. /\ i = IF w - Capacity + (k + 1) - 1 < 0 THEN w + Capacity - Capacity + (k + 1) - 1
                 ELSE w - Capacity + (k + 1) - 1
          /\ i \in Slots
      BY <1>1, <2>1, SlotOf
    <2>3. i # w
      BY <1>1, <2>2
    <2>4. w + 1 + Capacity - Capacity + k - 1 = w + Capacity - Capacity + (k + 1) - 1
      BY <1>1
    <2>5. t[k] = c[i]
      BY <1>4, <2>1, <2>4
    <2>6. u[k] = b[i]
      BY <1>3, <1>5, <1>6, <2>1
    <2> QED
      BY <1>2, <2>2, <2>3, <2>5, <2>6
  <1>8. t[Capacity] = v
    <2>1. w + 1 + Capacity - Capacity + Capacity - 1 = w + Capacity /\ Capacity \in 1 .. Capacity
      BY <1>1
    <2>2. (w + Capacity) % Capacity = w
      BY <1>1, ModLap
    <2> QED
      BY <1>2, <1>4, <2>1, <2>2
  <1> HIDE DEF u
  <1>9. \A k \in 1 .. Capacity : t[k] = u[k]
    BY <1>1, <1>6, <1>7, <1>8
  <1>10. t = u
    BY <1>4, <1>6, <1>9, SeqEqual
  <1> QED
    BY <1>10 DEF s, t, u, c

(* readCursor() is the slot of the oldest value, and taking it leaves the  *)
(* others.                                                                 *)
LEMMA RingTake ==
    ASSUME NEW b \in [Slots -> Values], NEW w \in Slots, NEW n \in 1 .. Capacity
    PROVE  /\ Head(Ring(b, w, n)) = b[ReadCursor(w, n)]
           /\ Tail(Ring(b, w, n)) = Ring(b, w, n - 1)
  <1> DEFINE s == Ring(b, w, n)
             t == Ring(b, w, n - 1)
  <1>1. Capacity \in Nat \ {0} /\ w \in 0 .. Capacity /\ w \in Nat /\ w < Capacity
        /\ n \in 0 .. Capacity /\ n - 1 \in 0 .. Capacity /\ n \in Nat /\ 1 \in 1 .. n
        /\ SizeT \in Nat \ {0} /\ SizeT > 2 * Capacity
    BY ChannelAssumption DEF Slots
  <1>2. /\ s \in Seq(Values) /\ Len(s) = n /\ s # <<>>
        /\ \A k \in 1 .. n : s[k] = b[(w + Capacity - n + k - 1) % Capacity]
    <2>1. n # 0
      BY <1>1
    <2> QED
      BY <1>1, <2>1, RingSeq
  <1>3. /\ t \in Seq(Values) /\ Len(t) = n - 1
        /\ \A k \in 1 .. n - 1 : t[k] = b[(w + Capacity - (n - 1) + k - 1) % Capacity]
    BY <1>1, RingSeq
  <1> HIDE DEF s, t
  <1>4. Head(s) = b[ReadCursor(w, n)]
    <2>1. Head(s) = s[1]
      BY <1>2
    <2>2. w + Capacity - n + 1 - 1 = w + Capacity - n
      BY <1>1
    <2>3. (w + Capacity - n) % SizeT = w + Capacity - n
      BY <1>1, ModSmall
    <2>4. s[1] = b[(w + Capacity - n + 1 - 1) % Capacity]
      BY <1>1, <1>2
    <2>5. ReadCursor(w, n) = (w + Capacity - n) % Capacity
      BY <2>3 DEF ReadCursor
    <2>6. (w + Capacity - n + 1 - 1) % Capacity = ReadCursor(w, n)
      BY <2>2, <2>5
    <2> QED
      BY <2>1, <2>4, <2>6, Zenon
  <1>5. /\ Tail(s) \in Seq(Values) /\ Len(Tail(s)) = n - 1
        /\ \A k \in 1 .. n - 1 : Tail(s)[k] = s[k + 1]
    BY <1>2, HeadTailProperties
  <1>6. ASSUME NEW k \in 1 .. n - 1 PROVE Tail(s)[k] = t[k]
    <2>1. w + Capacity - n + (k + 1) - 1 = w + Capacity - (n - 1) + k - 1 /\ k + 1 \in 1 .. n
      BY <1>1
    <2> QED
      BY <1>2, <1>3, <1>5, <2>1
  <1>7. Tail(s) = t
    BY <1>3, <1>5, <1>6, SeqEqual
  <1> QED
    BY <1>4, <1>7 DEF s, t

-----------------------------------------------------------------------------
(* What the results rest on: a writer carries data, and the overflow flag, *)
(* which only a receive or a send clears, is set only while the ring is    *)
(* full, so that a share that finds room does not report an old loss.      *)
ArgsOK == \A a \in Actors : Active(a) /\ op[a] \in {"send", "share"} => arg[a] \in Data
StickyOK ==
    overflow => /\ occupied >= Capacity
                /\ \A a \in Actors : pc[a] \in {"advance", "clamp"} => occupied > Capacity
QInv == Inv /\ ArgsOK /\ StickyOK

(* Only a call chooses the value that is written.                          *)
LEMMA ArgsStep ==
    ASSUME Inv, ArgsOK, [Next]_vars PROVE ArgsOK'
  <1> USE DEF Inv, TypeOK, TypeActors
  <1>1. CASE UNCHANGED vars
    BY <1>1 DEF vars, ArgsOK, Active
  <1>2. ASSUME NEW a \in Actors, Calls(a) PROVE ArgsOK'
    <2>1. /\ op' = [op EXCEPT ![a] = op'[a]] /\ arg' = [arg EXCEPT ![a] = arg'[a]]
          /\ pc' = [pc EXCEPT ![a] = pc'[a]]
          /\ op'[a] \in {"send", "share"} => arg'[a] \in Data
      BY <1>2 DEF Calls, SendCall, ShareCall, ReceiveCall, GroupCall, PeekCall, MarkCall,
                  Call, Goto
    <2>2. ASSUME NEW b \in Actors, b # a PROVE op'[b] = op[b] /\ arg'[b] = arg[b] /\ pc'[b] = pc[b]
      BY <2>1, <2>2
    <2> QED
      BY <2>1, <2>2 DEF ArgsOK, Active
  <1>3. ASSUME NEW a \in Actors, Body(a) PROVE ArgsOK'
    <2>1. UNCHANGED <<op, arg>>
      BY <1>3 DEF Body, SendWait, Put, Count, SendAdvance, ShareAdvance, ShareClamp, ReceiveWait,
                  GroupEnter, GroupCheck, GroupTest, Take, PeekCheck, ReadCount, PeekReturn,
                  Locate, Fetch, MarkSlot, MarkEnd
    <2>2. pc[a] # "idle"
      BY <1>3 DEF Body, SendWait, Put, Count, SendAdvance, ShareAdvance, ShareClamp, ReceiveWait,
                  GroupEnter, GroupCheck, GroupTest, Take, PeekCheck, ReadCount, PeekReturn,
                  Locate, Fetch, MarkSlot, MarkEnd, At
    <2>3. ASSUME NEW b \in Actors, b # a PROVE pc'[b] = pc[b]
      BY <1>3, <2>3 DEF Body, SendWait, Put, Count, SendAdvance, ShareAdvance, ShareClamp, ReceiveWait,
                  GroupEnter, GroupCheck, GroupTest, GroupHasNone, Take, PeekCheck, ReadCount, PeekReturn,
                  Locate, Fetch, MarkSlot, MarkEnd, Goto
    <2> QED
      BY <2>1, <2>2, <2>3 DEF ArgsOK, Active
  <1> QED
    BY <1>1, <1>2, <1>3 DEF Next

(* Steps that do not touch the channel.                                    *)
Quiet(a) ==
    \/ Calls(a) \/ SendWait(a) \/ ReceiveWait(a) \/ PeekCheck(a) \/ ReadCount(a) \/ PeekReturn(a)
    \/ GroupEnter(a) \/ GroupCheck(a) \/ GroupTest(a)
    \/ Locate(a) \/ Fetch(a) \/ MarkSlot(a) \/ MarkEnd(a)

(* They are made outside the lock, stay there, and at most return a value. *)
LEMMA QuietFacts ==
    ASSUME Inv, NEW a \in Actors, Quiet(a)
    PROVE  /\ UNCHANGED <<channel, lock>> /\ pc[a] \notin Critical /\ pc'[a] \notin Critical
           /\ \A b \in Actors : b # a => pc'[b] = pc[b] /\ op'[b] = op[b] /\ ret'[b] = ret[b]
           /\ ret'[a] = ret[a] \/ ret'[a] \in Values \cup {Torn}
  <1> USE DEF Inv, TypeOK, TypeActors
  <1>1. UNCHANGED <<channel, lock>>
    BY DEF Quiet, Calls, SendCall, ShareCall, ReceiveCall, GroupCall, PeekCall, MarkCall, Call,
           SendWait, ReceiveWait, PeekCheck, ReadCount, PeekReturn, GroupEnter, GroupCheck,
           GroupTest, Locate, Fetch, MarkSlot, MarkEnd
  <1>2. /\ pc[a] \notin Critical /\ pc'[a] \notin Critical
        /\ \A b \in Actors : b # a => pc'[b] = pc[b]
    BY DEF Quiet, Calls, SendCall, ShareCall, ReceiveCall, GroupCall, PeekCall, MarkCall, Call,
           SendWait, ReceiveWait, PeekCheck, ReadCount, PeekReturn, GroupEnter, GroupCheck,
           GroupTest, GroupHasNone, Locate, Fetch, MarkSlot, MarkEnd, CanStart, Active, At, Goto, Critical
  <1>3. \A b \in Actors : b # a => op'[b] = op[b]
    BY DEF Quiet, Calls, SendCall, ShareCall, ReceiveCall, GroupCall, PeekCall, MarkCall, Call,
           SendWait, ReceiveWait, PeekCheck, ReadCount, PeekReturn, GroupEnter, GroupCheck,
           GroupTest, Locate, Fetch, MarkSlot, MarkEnd
  <1>4. Nil \in Values
    BY DEF Values
  <1>5. \E v \in Values \cup {Torn} : ret' = ret \/ ret' = [ret EXCEPT ![a] = v]
    <2>1. CASE UNCHANGED ret
      BY <1>4, <2>1
    <2>2. CASE PeekReturn(a)
      <3>1. Copies(a) \subseteq Values \cup {Torn}
        BY CopiesTyped
      <3> QED
        BY <2>2, <3>1 DEF PeekReturn
    <2>3. CASE PeekCheck(a) \/ GroupCheck(a) \/ GroupTest(a)
      BY <1>4, <2>3 DEF PeekCheck, GroupCheck, GroupTest, GroupHasNone
    <2> QED
      BY <2>1, <2>2, <2>3
      DEF Quiet, Calls, SendCall, ShareCall, ReceiveCall, GroupCall, PeekCall, MarkCall, Call,
          SendWait, ReceiveWait, ReadCount, GroupEnter, Locate, Fetch, MarkSlot, MarkEnd
  <1>6. /\ \A b \in Actors : b # a => ret'[b] = ret[b]
        /\ ret'[a] = ret[a] \/ ret'[a] \in Values \cup {Torn}
    BY <1>5
  <1> QED
    BY <1>1, <1>2, <1>3, <1>6

(* Every step is quiet or one of the writes.                               *)
LEMMA StepsOf ==
    ASSUME NEW a \in Actors, Calls(a) \/ Body(a)
    PROVE  \/ Quiet(a) \/ Put(a) \/ Count(a) \/ SendAdvance(a) \/ ShareAdvance(a)
           \/ ShareClamp(a) \/ Take(a)
  BY DEF Body, Quiet

(* The overflow flag is set when a share finds the ring full and is gone   *)
(* once the ring is not.                                                   *)
LEMMA StickyStep ==
    ASSUME Inv, StickyOK, [Next]_vars PROVE StickyOK'
  <1> USE DEF Inv
  <1>0. Capacity \in Nat \ {0} /\ SizeT \in Nat \ {0} /\ SizeT > 2 * Capacity /\ NoOne \notin Actors
    BY ChannelAssumption
  <1>1. occupied \in Nat /\ pc \in [Actors -> Points]
    BY <1>0 DEF TypeOK, TypeChannel, TypeActors
  <1>2. CASE UNCHANGED vars
    BY <1>2 DEF vars, channel, StickyOK
  <1>3. ASSUME NEW a \in Actors, Quiet(a) PROVE StickyOK'
    BY <1>3, QuietFacts DEF StickyOK, channel, Critical
  <1>4. ASSUME NEW a \in Actors, Put(a) PROVE StickyOK'
    BY <1>1, <1>4 DEF StickyOK, Put, Goto
  <1>5. ASSUME NEW a \in Actors, Count(a) PROVE StickyOK'
    <2>1. lock = a /\ occupied < Limit(a)
      BY <1>5 DEF Count, At, LockHeld, Critical, OccupiedInside
    <2>2. occupied < Capacity + 1
      BY <1>0, <1>1, <2>1 DEF Limit
    <2>3. occupied' = occupied + 1 /\ overflow' = overflow
      BY <1>0, <1>1, <1>5, <2>2, ModSmall DEF Count
    <2> QED
      BY <1>0, <1>1, <2>3 DEF StickyOK
  <1>6. ASSUME NEW a \in Actors, SendAdvance(a) PROVE StickyOK'
    BY <1>6 DEF SendAdvance, StickyOK
  <1>7. ASSUME NEW a \in Actors, ShareAdvance(a) PROVE StickyOK'
    BY <1>1, <1>7 DEF ShareAdvance, StickyOK, At, Goto
  <1>8. ASSUME NEW a \in Actors, ShareClamp(a) PROVE StickyOK'
    <2>1. \A b \in Actors : pc'[b] \notin Critical
      BY <1>1, <1>8 DEF ShareClamp, At, Goto, LockHeld, Critical
    <2>2. CASE occupied > Capacity
      BY <1>0, <1>8, <2>1, <2>2 DEF ShareClamp, StickyOK, Critical
    <2>3. CASE ~(occupied > Capacity)
      <3>1. ~overflow
        BY <1>8, <2>3 DEF ShareClamp, At, StickyOK
      <3>2. overflow' = overflow
        BY <1>8, <2>3 DEF ShareClamp
      <3> QED
        BY <3>1, <3>2 DEF StickyOK
    <2> QED
      BY <2>2, <2>3
  <1>9. ASSUME NEW a \in Actors, Take(a) PROVE StickyOK'
    BY <1>9 DEF Take, StickyOK
  <1> QED
    BY <1>2, <1>3, <1>4, <1>5, <1>6, <1>7, <1>8, <1>9, StepsOf DEF Next

(* The invariant the refinement uses.                                      *)
LEMMA QueueInvariant == ASSUME SafeUse PROVE Spec => []QInv
  <1>1. Init => ArgsOK /\ StickyOK
    BY DEF Init, ArgsOK, StickyOK, Active
  <1>2. Inv /\ ArgsOK /\ StickyOK /\ [Next]_vars => ArgsOK' /\ StickyOK'
    BY ArgsStep, StickyStep
  <1>3. Inv /\ ArgsOK /\ StickyOK => QInv
    BY DEF QInv
  <1> QED
    BY <1>1, <1>2, <1>3, SafeChannel, PTL DEF Spec

-----------------------------------------------------------------------------
(* The results the queue's callers see.                                    *)
Results == [a \in Actors |-> Result(a)]

(* The queue as a ring.                                                    *)
LEMMA QueueIsRing == Queue = Ring(buffer, End, Stored)
  BY DEF Queue, Ring

(* What the mapping says when nobody is inside the lock.                   *)
LEMMA Outside ==
    ASSUME Inv, lock = NoOne
    PROVE  /\ Queue = Ring(buffer, writeCursor, occupied)
           /\ occupied \in 0 .. Capacity /\ writeCursor \in Slots /\ writeCursor \in 0 .. Capacity
           /\ buffer \in [Slots -> Values]
           /\ \A a \in Actors : Result(a) = ret[a]
           /\ Queue \in Seq(Values) /\ Len(Queue) = occupied /\ (Queue = <<>> <=> occupied = 0)
  <1>1. Capacity \in Nat \ {0} /\ SizeT \in Nat /\ NoOne \notin Actors
    BY ChannelAssumption
  <1>2. occupied \in 0 .. Capacity /\ writeCursor \in Slots /\ buffer \in [Slots -> Values]
    BY <1>1 DEF Inv, TypeOK, TypeChannel, OccupancyBounded
  <1>3. writeCursor \in 0 .. Capacity
    BY <1>1, <1>2 DEF Slots
  <1>4. End = writeCursor /\ Stored = occupied
    BY <1>1, <1>2 DEF End, Stored, Unmoved, Uncounted
  <1>5. Queue = Ring(buffer, writeCursor, occupied)
    BY <1>4, QueueIsRing
  <1>6. \A a \in Actors : Result(a) = ret[a]
    BY <1>1 DEF Result
  <1> QED
    BY <1>2, <1>3, <1>5, <1>6, RingSeq

(* What it says while a writer is inside.                                  *)
LEMMA Inside ==
    ASSUME Inv, NEW a \in Actors, lock = a
    PROVE  /\ Capacity \in Nat \ {0} /\ occupied \in Nat /\ occupied <= Capacity + 1
           /\ writeCursor \in Slots /\ buffer \in [Slots -> Values]
           /\ pc[a] \in Critical /\ op[a] \in {"send", "share"}
           /\ a # NoOne /\ pc \in [Actors -> Points]
  <1>1. Capacity \in Nat \ {0} /\ SizeT \in Nat /\ NoOne \notin Actors
    BY ChannelAssumption
  <1>2. pc[a] \in Critical
    BY DEF Inv, LockHeld
  <1>3. occupied \in Nat /\ writeCursor \in Slots /\ buffer \in [Slots -> Values]
        /\ pc \in [Actors -> Points]
    BY <1>1 DEF Inv, TypeOK, TypeChannel, TypeActors
  <1>4. occupied <= Capacity + 1
    BY <1>1, <1>2, <1>3 DEF Inv, OccupiedInside, Limit, Critical
  <1>5. op[a] \in {"send", "share"}
    BY <1>2 DEF Inv, RolesKept, Critical
  <1> QED
    BY <1>1, <1>2, <1>3, <1>4, <1>5

(* Only the actor of a step has a new result.                              *)
LEMMA OneResult ==
    ASSUME NEW a \in Actors, NEW v, Result(a)' = v,
           \A b \in Actors : b # a => Result(b)' = Result(b)
    PROVE  Results' = [Results EXCEPT ![a] = v]
  BY DEF Results

(* A quiet step is a peek that returns something, or nothing at all.       *)
LEMMA QuietMaps ==
    ASSUME QInv, NEW a \in Actors, Quiet(a)
    PROVE  [Abstract!Next]_<<Queue, Results>>
  <1>1. /\ UNCHANGED <<channel, lock>> /\ pc[a] \notin Critical /\ pc'[a] \notin Critical
        /\ \A b \in Actors : b # a => pc'[b] = pc[b] /\ op'[b] = op[b] /\ ret'[b] = ret[b]
        /\ ret'[a] = ret[a] \/ ret'[a] \in Values \cup {Torn}
    BY QuietFacts DEF QInv
  <1>2. lock # a /\ lock \in Actors \cup {NoOne}
    BY <1>1 DEF QInv, Inv, LockHeld, TypeOK, TypeChannel
  <1>3. UNCHANGED <<buffer, writeCursor, occupied, lock>>
    BY <1>1 DEF channel
  <1>4. Uncounted' = Uncounted /\ Unmoved' = Unmoved
    BY <1>1, <1>2, <1>3 DEF Uncounted, Unmoved
  <1>5. End' = End /\ Stored' = Stored
    BY <1>3, <1>4 DEF End, Stored
  <1>6. Queue' = Queue
    BY <1>3, <1>5 DEF Queue
  <1>7. Result(a)' = ret'[a] /\ Result(a) = ret[a]
    BY <1>2, <1>3 DEF Result
  <1>8. ASSUME NEW b \in Actors, b # a PROVE Result(b)' = Result(b)
    BY <1>1, <1>3, <1>8 DEF Result
  <1>9. CASE ret'[a] = ret[a]
    BY <1>6, <1>7, <1>8, <1>9 DEF Results
  <1>10. CASE ret'[a] \in Values \cup {Torn}
    <2>1. Results' = [Results EXCEPT ![a] = ret'[a]]
      BY <1>7, <1>8, OneResult
    <2>2. Abstract!Peek(a)
      BY <1>6, <1>10, <2>1 DEF Abstract!Peek, Abstract!Returns, Results, Values
    <2> QED
      BY <2>2 DEF Abstract!Next
  <1> QED
    BY <1>1, <1>9, <1>10

(* Writing the slot is the send or the share.                              *)
LEMMA PutMaps ==
    ASSUME QInv, NEW a \in Actors, Put(a)
    PROVE  Abstract!Next
  <1> USE DEF QInv
  <1>1. /\ lock = NoOne /\ lock' = a /\ buffer' = [buffer EXCEPT ![writeCursor] = arg[a]]
        /\ pc[a] = "put" /\ pc' = [pc EXCEPT ![a] = "count"]
        /\ UNCHANGED <<writeCursor, occupied, op, ret>>
    BY DEF Put, At, Goto
  <1>2. Capacity \in Nat \ {0} /\ NoOne \notin Actors
    BY ChannelAssumption
  <1>3. /\ Queue = Ring(buffer, writeCursor, occupied)
        /\ occupied \in 0 .. Capacity /\ writeCursor \in Slots
        /\ buffer \in [Slots -> Values]
        /\ \A b \in Actors : Result(b) = ret[b]
        /\ Len(Queue) = occupied
    BY <1>1, Outside
  <1>4. op[a] \in {"send", "share"} /\ arg[a] \in Data /\ arg[a] \in Values
    BY <1>1 DEF Inv, RolesKept, ArgsOK, Active, Values
  <1>5. pc'[a] = "count"
    BY <1>1 DEF Inv, TypeOK, TypeActors
  <1>6. End' = writeCursor + 1
    BY <1>1, <1>2, <1>5 DEF End, Unmoved
  <1>7. Stored' = IF occupied + 1 > Capacity THEN Capacity ELSE occupied + 1
    BY <1>1, <1>2, <1>5 DEF Stored, Uncounted
  <1>8. Queue' = Ring([buffer EXCEPT ![writeCursor] = arg[a]], writeCursor + 1, Stored')
    BY <1>1, <1>6 DEF Queue, Ring
  <1>9. ASSUME NEW b \in Actors, b # a PROVE Result(b)' = Result(b)
    BY <1>1, <1>3, <1>9 DEF Result
  <1>10. CASE occupied < Capacity
    <2>1. Stored' = occupied + 1
      BY <1>2, <1>3, <1>7, <1>10
    <2>2. Queue' = Append(Queue, arg[a])
      BY <1>3, <1>4, <1>8, <1>10, <2>1, RingPut
    <2>3. CASE op[a] = "send"
      <3>1. Result(a)' = Nil
        BY <1>1, <2>3 DEF Result
      <3>2. Results' = [Results EXCEPT ![a] = Nil]
        BY <1>9, <3>1, OneResult
      <3>3. Abstract!Send(a, arg[a])
        BY <1>3, <1>10, <2>2, <3>2 DEF Abstract!Send, Abstract!Returns, Results
      <3> QED
        BY <1>4, <3>3 DEF Abstract!Next
    <2>4. CASE op[a] = "share"
      <3>1. Result(a)' = (occupied >= Capacity)
        BY <1>1, <1>5, <2>4 DEF Result
      <3>2. (occupied >= Capacity) = (Len(Queue) = Capacity)
        BY <1>2, <1>3, <1>10
      <3>3. Results' = [Results EXCEPT ![a] = (Len(Queue) = Capacity)]
        BY <1>9, <3>1, <3>2, OneResult
      <3>4. Abstract!Share(a, arg[a])
        BY <1>3, <1>10, <2>2, <3>3 DEF Abstract!Share, Abstract!Returns, Results
      <3> QED
        BY <1>4, <3>4 DEF Abstract!Next
    <2> QED
      BY <1>4, <2>3, <2>4
  <1>11. CASE occupied = Capacity
    <2>1. Stored' = Capacity
      BY <1>2, <1>3, <1>7, <1>11
    <2>2. Queue' = Append(Tail(Queue), arg[a])
      BY <1>3, <1>4, <1>8, <1>11, <2>1, RingPutFull
    <2>3. op[a] = "share"
      BY <1>1, <1>2, <1>4, <1>11 DEF Inv, WaitStillHolds
    <2>4. Result(a)' = (occupied >= Capacity)
      BY <1>1, <1>5, <2>3 DEF Result
    <2>5. (occupied >= Capacity) = (Len(Queue) = Capacity) /\ ~(Len(Queue) < Capacity)
      BY <1>2, <1>3, <1>11
    <2>6. Results' = [Results EXCEPT ![a] = (Len(Queue) = Capacity)]
      BY <1>9, <2>4, <2>5, OneResult
    <2>7. Abstract!Share(a, arg[a])
      BY <2>2, <2>5, <2>6 DEF Abstract!Share, Abstract!Returns, Results
    <2> QED
      BY <1>4, <2>7 DEF Abstract!Next
  <1> QED
    BY <1>2, <1>3, <1>10, <1>11

(* Counting it and moving the cursor change nothing for the callers.       *)
LEMMA CountMaps ==
    ASSUME QInv, NEW a \in Actors, Count(a)
    PROVE  UNCHANGED <<Queue, Results>>
  <1> USE DEF QInv
  <1>1. /\ lock = a /\ pc[a] = "count" /\ pc' = [pc EXCEPT ![a] = "advance"]
        /\ UNCHANGED <<buffer, writeCursor, lock, op, ret>>
    BY DEF Count, At, Goto, Inv, LockHeld, Critical
  <1>2. /\ Capacity \in Nat \ {0} /\ occupied \in Nat /\ occupied <= Capacity + 1
        /\ op[a] \in {"send", "share"} /\ a # NoOne /\ pc \in [Actors -> Points]
    BY <1>1, Inside
  <1>3. pc'[a] = "advance"
    BY <1>1, <1>2
  <1>4. occupied' = occupied + 1
    <2>1. occupied < Capacity + 1
      BY <1>1, <1>2 DEF Inv, OccupiedInside, Limit
    <2>2. SizeT \in Nat \ {0} /\ SizeT > 2 * Capacity
      BY ChannelAssumption
    <2>3. 0 <= occupied + 1 /\ occupied + 1 < SizeT
      BY <1>2, <2>1, <2>2
    <2> QED
      BY <1>2, <2>2, <2>3, ModSmall DEF Count
  <1>5. End' = End
    BY <1>1, <1>2, <1>3 DEF End, Unmoved
  <1>6. Stored' = Stored
    BY <1>1, <1>2, <1>3, <1>4 DEF Stored, Uncounted
  <1>7. Queue' = Queue
    BY <1>1, <1>5, <1>6 DEF Queue
  <1>8. ASSUME NEW b \in Actors PROVE Result(b)' = Result(b)
    <2>1. CASE b # a
      BY <1>1, <2>1 DEF Result
    <2>2. CASE b = a /\ op[a] = "send"
      BY <1>1, <2>2 DEF Result
    <2>3. CASE b = a /\ op[a] = "share"
      <3>1. (occupied >= Capacity) = (occupied' > Capacity)
        BY <1>2, <1>4
      <3>2. Result(a) = (occupied >= Capacity) /\ Result(a)' = (occupied' > Capacity)
        BY <1>1, <1>3, <2>3 DEF Result
      <3> QED
        BY <2>3, <3>1, <3>2
    <2> QED
      BY <1>2, <2>1, <2>2, <2>3
  <1> QED
    BY <1>7, <1>8 DEF Results

(* The cursor steps over the slot that counts already.                     *)
LEMMA AdvanceKeepsQueue ==
    ASSUME Inv, NEW a \in Actors, lock = a, pc[a] = "advance",
           writeCursor' = (writeCursor + 1) % Capacity, UNCHANGED <<buffer, occupied>>,
           ~Unmoved', ~Uncounted'
    PROVE  Queue' = Queue
  <1>1. /\ Capacity \in Nat \ {0} /\ occupied \in Nat /\ writeCursor \in Slots
        /\ buffer \in [Slots -> Values] /\ a # NoOne
    BY Inside
  <1> DEFINE n == IF occupied > Capacity THEN Capacity ELSE occupied
  <1>2. End = writeCursor + 1 /\ Stored = n
    BY <1>1 DEF End, Stored, Unmoved, Uncounted
  <1>3. End' = (writeCursor + 1) % Capacity /\ Stored' = n
    BY DEF End, Stored
  <1>4. n \in 0 .. Capacity
    BY <1>1
  <1> HIDE DEF n
  <1>5. Ring(buffer, (writeCursor + 1) % Capacity, n) = Ring(buffer, writeCursor + 1, n)
    <2>1. CASE writeCursor + 1 = Capacity
      <3>1. (writeCursor + 1) % Capacity = 0
        BY <1>1, <2>1, ModLap
      <3> QED
        BY <1>1, <1>4, <2>1, <3>1, RingWraps
    <2>2. CASE writeCursor + 1 # Capacity
      <3>1. writeCursor + 1 \in Int /\ 0 <= writeCursor + 1 /\ writeCursor + 1 < Capacity
        BY <1>1, <2>2 DEF Slots
      <3>2. (writeCursor + 1) % Capacity = writeCursor + 1
        BY <1>1, <3>1, ModSmall
      <3> QED
        BY <3>2
    <2> QED
      BY <2>1, <2>2
  <1>6. Queue' = Ring(buffer, (writeCursor + 1) % Capacity, n)
    BY <1>3 DEF Queue, Ring
  <1>7. Queue = Ring(buffer, writeCursor + 1, n)
    BY <1>2, QueueIsRing
  <1> QED
    BY <1>5, <1>6, <1>7

LEMMA SendAdvanceMaps ==
    ASSUME QInv, NEW a \in Actors, SendAdvance(a)
    PROVE  UNCHANGED <<Queue, Results>>
  <1> USE DEF QInv
  <1>1. /\ lock = a /\ pc[a] = "advance" /\ op[a] = "send" /\ lock' = NoOne
        /\ writeCursor' = (writeCursor + 1) % Capacity
        /\ UNCHANGED <<buffer, occupied, op>> /\ ret' = [ret EXCEPT ![a] = Nil]
    BY DEF SendAdvance, At, Inv, LockHeld, Critical
  <1>2. NoOne \notin Actors /\ ret \in [Actors -> Values \cup BOOLEAN \cup {Torn}]
    BY ChannelAssumption DEF Inv, TypeOK, TypeActors
  <1>3. Queue' = Queue
    BY <1>1, AdvanceKeepsQueue DEF Unmoved, Uncounted
  <1>4. ASSUME NEW b \in Actors PROVE Result(b)' = Result(b)
    <2>1. Result(b)' = ret'[b]
      BY <1>1, <1>2 DEF Result
    <2>2. CASE b = a
      BY <1>1, <1>2, <2>1, <2>2 DEF Result
    <2>3. CASE b # a
      BY <1>1, <1>2, <2>1, <2>3 DEF Result
    <2> QED
      BY <2>2, <2>3
  <1> QED
    BY <1>3, <1>4 DEF Results

LEMMA ShareAdvanceMaps ==
    ASSUME QInv, NEW a \in Actors, ShareAdvance(a)
    PROVE  UNCHANGED <<Queue, Results>>
  <1> USE DEF QInv
  <1>1. /\ lock = a /\ pc[a] = "advance" /\ op[a] = "share" /\ UNCHANGED <<lock, op, ret>>
        /\ writeCursor' = (writeCursor + 1) % Capacity /\ UNCHANGED <<buffer, occupied>>
        /\ pc' = [pc EXCEPT ![a] = "clamp"]
    BY DEF ShareAdvance, At, Goto, Inv, LockHeld, Critical
  <1>2. pc'[a] = "clamp"
    BY <1>1 DEF Inv, TypeOK, TypeActors
  <1>3. Queue' = Queue
    BY <1>1, <1>2, AdvanceKeepsQueue DEF Unmoved, Uncounted
  <1>4. ASSUME NEW b \in Actors PROVE Result(b)' = Result(b)
    BY <1>1, <1>2 DEF Result
  <1> QED
    BY <1>3, <1>4 DEF Results

(* The clamp puts right the count, and the flag it returns says whether    *)
(* this very share dropped a value.                                        *)
LEMMA ShareClampMaps ==
    ASSUME QInv, NEW a \in Actors, ShareClamp(a)
    PROVE  UNCHANGED <<Queue, Results>>
  <1> USE DEF QInv
  <1>1. /\ lock = a /\ pc[a] = "clamp" /\ lock' = NoOne
        /\ UNCHANGED <<buffer, writeCursor, op>> /\ ret' = [ret EXCEPT ![a] = overflow']
    BY DEF ShareClamp, At, Inv, LockHeld, Critical
  <1>2. NoOne \notin Actors /\ ret \in [Actors -> Values \cup BOOLEAN \cup {Torn}]
    BY ChannelAssumption DEF Inv, TypeOK, TypeActors
  <1>3. Capacity \in Nat \ {0} /\ occupied \in Nat /\ op[a] = "share"
    BY <1>1, Inside DEF Inv, RolesKept
  <1>4. occupied' = (IF occupied > Capacity THEN Capacity ELSE occupied)
    BY DEF ShareClamp
  <1>5. Queue' = Queue
    <2>1. End' = End
      BY <1>1, <1>2 DEF End, Unmoved
    <2>2. Stored' = Stored
      BY <1>1, <1>2, <1>3, <1>4 DEF Stored, Uncounted
    <2> QED
      BY <1>1, <2>1, <2>2 DEF Queue
  <1>6. overflow' = (occupied > Capacity)
    <2>1. CASE occupied > Capacity
      <3>1. overflow' = TRUE
        BY <2>1, Zenon DEF ShareClamp
      <3> QED
        BY <2>1, <3>1, Zenon
    <2>2. CASE ~(occupied > Capacity)
      <3>1. overflow' = overflow
        BY <2>2, Zenon DEF ShareClamp
      <3>2. ~overflow
        BY <1>1, <2>2 DEF StickyOK
      <3>3. overflow \in BOOLEAN
        BY DEF Inv, TypeOK, TypeChannel
      <3>4. overflow' = FALSE
        BY <3>1, <3>2, <3>3, Zenon
      <3>5. (occupied > Capacity) = FALSE
        BY <1>3, <2>2, SMT
      <3> QED
        BY <3>4, <3>5, Zenon
    <2> QED
      BY <2>1, <2>2, Zenon
  <1>7. ASSUME NEW b \in Actors PROVE Result(b)' = Result(b)
    <2>1. Result(b)' = ret'[b]
      BY <1>1, <1>2 DEF Result
    <2>2. CASE b = a
      <3>1. ret'[a] = overflow'
        BY <1>1, <1>2, Zenon
      <3>2. Result(a) = (occupied > Capacity)
        BY <1>1, <1>3 DEF Result
      <3> QED
        BY <1>6, <2>1, <2>2, <3>1, <3>2, Zenon
    <2>3. CASE b # a
      <3>1. ret'[b] = ret[b]
        BY <1>1, <1>2, <2>3, Zenon
      <3>2. Result(b) = ret[b]
        BY <1>1, <2>3 DEF Result
      <3> QED
        BY <2>1, <3>1, <3>2, Zenon
    <2> QED
      BY <2>2, <2>3
  <1> QED
    BY <1>5, <1>7 DEF Results

(* A receive takes the oldest value.                                       *)
LEMMA TakeMaps ==
    ASSUME QInv, NEW a \in Actors, Take(a)
    PROVE  Abstract!Next
  <1> USE DEF QInv
  <1>1. /\ lock = NoOne /\ pc[a] = "take" /\ UNCHANGED <<buffer, writeCursor, lock, op>>
        /\ ret' = [ret EXCEPT ![a] = buffer[ReadCursor(writeCursor, occupied)]]
        /\ occupied' = (occupied - 1) % SizeT
    BY DEF Take, At
  <1>2. /\ NoOne \notin Actors /\ ret \in [Actors -> Values \cup BOOLEAN \cup {Torn}]
        /\ Capacity \in Nat \ {0} /\ SizeT \in Nat \ {0} /\ SizeT > 2 * Capacity
    BY ChannelAssumption DEF Inv, TypeOK, TypeActors
  <1>3. /\ Queue = Ring(buffer, writeCursor, occupied)
        /\ occupied \in 0 .. Capacity /\ writeCursor \in Slots
        /\ buffer \in [Slots -> Values]
        /\ \A b \in Actors : Result(b) = ret[b]
        /\ (Queue = <<>> <=> occupied = 0)
    BY <1>1, Outside
  <1>4. occupied \in 1 .. Capacity
    BY <1>1, <1>2, <1>3 DEF Inv, WaitStillHolds
  <1>5. occupied' = occupied - 1
    BY <1>1, <1>2, <1>4, ModSmall
  <1>6. Stored' = occupied - 1 /\ End' = writeCursor
    BY <1>1, <1>2, <1>4, <1>5 DEF Stored, Uncounted, End, Unmoved
  <1>7. Queue' = Ring(buffer, writeCursor, occupied - 1)
    BY <1>1, <1>6 DEF Queue, Ring
  <1>8. Head(Queue) = buffer[ReadCursor(writeCursor, occupied)] /\ Queue' = Tail(Queue)
    BY <1>3, <1>4, <1>7, RingTake
  <1>9. Queue # <<>>
    BY <1>3, <1>4
  <1>10. ASSUME NEW b \in Actors PROVE Result(b)' = ret'[b]
    BY <1>1, <1>2 DEF Result
  <1>11. Result(a)' = Head(Queue) /\ \A b \in Actors : b # a => Result(b)' = Result(b)
    BY <1>1, <1>2, <1>3, <1>8, <1>10
  <1>12. Results' = [Results EXCEPT ![a] = Head(Queue)]
    BY <1>11, OneResult
  <1>13. Abstract!Receive(a)
    BY <1>8, <1>9, <1>12 DEF Abstract!Receive, Abstract!Returns, Results
  <1> QED
    BY <1>13 DEF Abstract!Next

(* In safe use a channel is a bounded FIFO queue: every send, share and    *)
(* receive of channel.c takes effect at one moment, in that order, nothing *)
(* is lost, duplicated or reordered, and a share says truly whether it     *)
(* dropped the oldest value.                                               *)
THEOREM ChannelImplementsQueue == ASSUME SafeUse PROVE Spec => ImplementsQueue
  <1>1. Init => Abstract!Init
    <2> SUFFICES ASSUME Init PROVE Queue = <<>> /\ Results = [a \in Actors |-> Nil]
      BY DEF Abstract!Init, Results
    <2>1. Capacity \in Nat \ {0} /\ NoOne \notin Actors
      BY ChannelAssumption
    <2>2. Stored = 0
      BY <2>1 DEF Init, Stored, Uncounted
    <2>3. Queue = <<>>
      BY <2>2 DEF Queue
    <2>4. \A a \in Actors : Result(a) = Nil
      BY <2>1 DEF Init, Result
    <2> QED
      BY <2>3, <2>4 DEF Results
  <1>2. QInv /\ [Next]_vars => [Abstract!Next]_<<Queue, Results>>
    <2> SUFFICES ASSUME QInv, [Next]_vars PROVE [Abstract!Next]_<<Queue, Results>>
      OBVIOUS
    <2>1. CASE UNCHANGED vars
      BY <2>1 DEF vars, channel, Queue, Stored, End, Uncounted, Unmoved, Results, Result
    <2>2. CASE Next
      <3>1. PICK a \in Actors : Calls(a) \/ Body(a)
        BY <2>2 DEF Next
      <3> QED
        BY <3>1, StepsOf, QuietMaps, PutMaps, CountMaps, SendAdvanceMaps, ShareAdvanceMaps,
           ShareClampMaps, TakeMaps
    <2> QED
      BY <2>1, <2>2
  <1> QED
    BY <1>1, <1>2, QueueInvariant, PTL DEF Spec, ImplementsQueue, Abstract!Spec, Results

-----------------------------------------------------------------------------
(* Peeks. What a peek saw stays true until it has copied the slot: the     *)
(* count it read is still queued, or the ring has become full; the slot it *)
(* computed is one of the queue; and its first word is the slot's, unless  *)
(* a share has dropped that value, or is about to say so.                  *)
Behind(c) ==   \* how far behind the write cursor a slot is
    IF c < writeCursor THEN writeCursor - c ELSE writeCursor + Capacity - c
Moving == lock # NoOne /\ pc[lock] = "advance"
Queued(c) ==
    occupied >= Capacity \/ Behind(c) + (IF Moving THEN 1 ELSE 0) <= occupied
Dropping ==
    \/ overflow
    \/ lock # NoOne /\ pc[lock] = "count" /\ occupied >= Capacity
    \/ lock # NoOne /\ pc[lock] \in {"advance", "clamp"} /\ occupied > Capacity

PeekOK ==
    \A a \in Actors : Active(a) /\ op[a] = "peek" =>
        /\ a \in Peekers
        /\ pc[a] = "reread" => occupied > 0
        /\ pc[a] = "locate" => /\ count[a] \in 1 .. Capacity
                               /\ count[a] <= occupied \/ occupied >= Capacity
        /\ pc[a] \in {"fetch", "copy"} => Queued(cursor[a])
        /\ pc[a] = "copy" => word[a] = buffer[cursor[a]] \/ Dropping

(* A slot stays queued while others write, and a writer that rewrites it   *)
(* drops its value and says so.                                            *)
LEMMA QueuedStays ==
    ASSUME QInv, NEW b \in Actors, Calls(b) \/ Body(b), ~Take(b),
           NEW c \in Slots, Queued(c)
    PROVE  /\ Queued(c)'
           /\ buffer'[c] = buffer[c] \/ Dropping'
           /\ Dropping => Dropping'
  <1> USE DEF QInv
  <1>0. /\ Capacity \in Nat \ {0} /\ SizeT \in Nat \ {0} /\ SizeT > 2 * Capacity
        /\ NoOne \notin Actors /\ occupied \in Nat /\ writeCursor \in 0 .. Capacity - 1
        /\ c \in 0 .. Capacity - 1 /\ pc \in [Actors -> Points]
        /\ buffer \in [Slots -> Values]
    BY ChannelAssumption DEF Inv, TypeOK, TypeChannel, TypeActors, Slots
  <1>1. CASE Quiet(b)
    <2>1. /\ UNCHANGED <<channel, lock>> /\ pc[b] \notin Critical
          /\ \A d \in Actors : d # b => pc'[d] = pc[d]
      BY <1>1, QuietFacts
    <2>2. lock # b /\ lock \in Actors \cup {NoOne}
      BY <2>1 DEF Inv, LockHeld, TypeOK, TypeChannel
    <2> QED
      BY <2>1, <2>2 DEF Queued, Dropping, Moving, Behind, channel
  <1>2. CASE Put(b)
    <2>1. /\ lock = NoOne /\ lock' = b /\ pc'[b] = "count"
          /\ UNCHANGED <<writeCursor, occupied, overflow>>
          /\ buffer' = [buffer EXCEPT ![writeCursor] = arg[b]]
      BY <1>0, <1>2 DEF Put, At, Goto
    <2>2. Queued(c)' /\ (Dropping => Dropping')
      BY <1>0, <2>1 DEF Queued, Dropping, Moving, Behind
    <2>3. CASE c # writeCursor
      BY <1>0, <2>1, <2>2, <2>3
    <2>4. CASE c = writeCursor
      <3>1. occupied >= Capacity
        BY <1>0, <2>1, <2>4 DEF Queued, Behind, Moving
      <3>2. Dropping'
        BY <1>0, <2>1, <3>1 DEF Dropping
      <3> QED
        BY <2>2, <3>2
    <2> QED
      BY <2>3, <2>4
  <1>3. CASE Count(b)
    <2>1. lock = b /\ occupied < Capacity + 1
      BY <1>0, <1>3 DEF Count, At, Inv, LockHeld, Critical, OccupiedInside, Limit
    <2>2. occupied' = occupied + 1
      BY <1>0, <1>3, <2>1, ModSmall DEF Count
    <2>3. /\ pc[b] = "count" /\ pc'[b] = "advance"
          /\ UNCHANGED <<buffer, writeCursor, overflow, lock>>
      BY <1>0, <1>3 DEF Count, At, Goto
    <2> QED
      BY <1>0, <2>1, <2>2, <2>3 DEF Queued, Dropping, Moving, Behind
  <1>4. ASSUME lock = b, pc[b] = "advance", occupied' = occupied, buffer' = buffer,
               writeCursor' = (writeCursor + 1) % Capacity, ~Moving'
        PROVE  Queued(c)'
    <2>1. writeCursor' = IF writeCursor + 1 < Capacity THEN writeCursor + 1 ELSE 0
      <3> DEFINE x == writeCursor + 1
      <3>1. x \in Int /\ 0 <= x /\ x < 2 * Capacity /\ x <= Capacity
        BY <1>0
      <3>2. x % Capacity = IF x < Capacity THEN x ELSE x - Capacity
        BY <1>0, <3>1, ModLap
      <3> QED
        BY <1>0, <1>4, <3>1, <3>2
    <2>2. Moving
      BY <1>0, <1>4 DEF Moving
    <2>3. occupied >= Capacity \/ Behind(c) + 1 <= occupied
      BY <2>2 DEF Queued
    <2>4. occupied >= Capacity \/ Behind(c)' <= Behind(c) + 1
      BY <1>0, <2>1, <2>3 DEF Behind
    <2>5. Behind(c) \in Int /\ Behind(c)' \in Int
      BY <1>0, <2>1 DEF Behind
    <2> QED
      BY <1>0, <1>4, <2>3, <2>4, <2>5 DEF Queued
  <1>5. CASE SendAdvance(b)
    <2>1. /\ pc[b] = "advance" /\ op[b] = "send" /\ lock' = NoOne
          /\ UNCHANGED <<buffer, occupied>> /\ writeCursor' = (writeCursor + 1) % Capacity
      BY <1>5 DEF SendAdvance, At
    <2>2. lock = b /\ occupied <= Capacity
      BY <1>0, <2>1 DEF Inv, LockHeld, Critical, OccupiedInside, Limit
    <2>3. ~Dropping
      BY <1>0, <2>1, <2>2 DEF Dropping, StickyOK
    <2>4. ~Moving'
      BY <2>1 DEF Moving
    <2> QED
      BY <1>4, <2>1, <2>2, <2>3, <2>4
  <1>6. CASE ShareAdvance(b)
    <2>1. /\ pc[b] = "advance" /\ pc'[b] = "clamp" /\ lock' = lock /\ overflow' = overflow
          /\ UNCHANGED <<buffer, occupied>> /\ writeCursor' = (writeCursor + 1) % Capacity
      BY <1>0, <1>6 DEF ShareAdvance, At, Goto
    <2>2. lock = b
      BY <2>1 DEF Inv, LockHeld, Critical
    <2>3. ~Moving'
      BY <2>1, <2>2 DEF Moving
    <2>4. Dropping => Dropping'
      BY <1>0, <2>1, <2>2 DEF Dropping
    <2> QED
      BY <1>4, <2>1, <2>2, <2>3, <2>4
  <1>7. CASE ShareClamp(b)
    <2>1. /\ pc[b] = "clamp" /\ lock' = NoOne /\ UNCHANGED <<buffer, writeCursor>>
      BY <1>7 DEF ShareClamp, At
    <2>2. lock = b
      BY <2>1 DEF Inv, LockHeld, Critical
    <2>3. ~Moving /\ ~Moving'
      BY <1>0, <2>1, <2>2 DEF Moving
    <2>4. Queued(c)'
      BY <1>0, <1>7, <2>1, <2>3 DEF ShareClamp, Queued, Behind
    <2>5. CASE occupied > Capacity
      BY <1>7, <2>1, <2>4, <2>5 DEF ShareClamp, Dropping
    <2>6. CASE ~(occupied > Capacity)
      <3>1. ~Dropping
        BY <2>1, <2>2, <2>6 DEF Dropping, StickyOK
      <3> QED
        BY <2>1, <2>4, <3>1
    <2> QED
      BY <2>5, <2>6
  <1> QED
    BY <1>1, <1>2, <1>3, <1>5, <1>6, <1>7, StepsOf

(* While a peek takes a step, no handler of its core is in the lock.       *)
LEMMA PeekOutside ==
    ASSUME PeekSafe, Inv, NEW a \in Peekers, a \in Actors, CanRun(a), pc[a] \notin Critical
    PROVE  lock = NoOne
  <1> SUFFICES ASSUME lock \in Actors PROVE FALSE
    BY DEF Inv, TypeOK, TypeChannel
  <1>1. PICK w \in Actors : w = lock
    OBVIOUS
  <1>2. pc[w] \in Critical /\ w # a
    BY <1>1 DEF Inv, LockHeld
  <1>3. Active(w) /\ op[w] \in {"send", "share"}
    BY <1>2 DEF Inv, RolesKept, Critical, Active
  <1>4. w \in (Senders \cup Sharers) \ {a}
    BY <1>2, <1>3 DEF Inv, RolesKept
  <1>5. w \in Handlers /\ a \notin Handlers /\ Core[w] = Core[a]
    BY <1>4 DEF PeekSafe
  <1> QED
    BY <1>3, <1>5 DEF CanRun

(* A step writes the call and the locals of its own actor only.            *)
LEMMA OthersStay ==
    ASSUME TypeOK, NEW a \in Actors, NEW b \in Actors, b # a, Calls(b) \/ Body(b)
    PROVE  /\ op'[a] = op[a] /\ pc'[a] = pc[a]
           /\ count'[a] = count[a] /\ cursor'[a] = cursor[a] /\ word'[a] = word[a]
  <1> USE DEF TypeOK, TypeActors, TypeLocals, Calls, SendCall, ShareCall, ReceiveCall,
       GroupCall, PeekCall, MarkCall, Call, Body, SendWait, Put, Count, SendAdvance,
       ShareAdvance, ShareClamp, ReceiveWait, GroupEnter, GroupCheck, GroupTest, Take,
       PeekCheck, ReadCount, Locate, Fetch, PeekReturn, MarkSlot, MarkEnd
  <1>1. op'[a] = op[a]
    OBVIOUS
  <1>2. pc'[a] = pc[a]
    BY DEF GroupHasNone, Goto
  <1>3. count'[a] = count[a]
    BY DEF DropLocals, locals
  <1>4. cursor'[a] = cursor[a]
    BY DEF DropLocals, locals
  <1>5. word'[a] = word[a]
    BY DEF DropLocals, locals
  <1> QED
    BY <1>1, <1>2, <1>3, <1>4, <1>5

(* The steps of a peek itself. Nobody is in the lock when it takes one.    *)
LEMMA OwnPeekStep ==
    ASSUME PeekSafe, Inv, PeekOK, NEW a \in Actors, Active(a)', op'[a] = "peek",
           Calls(a) \/ Body(a)
    PROVE  /\ a \in Peekers
           /\ pc'[a] = "reread" => occupied' > 0
           /\ pc'[a] = "locate" => /\ count'[a] \in 1 .. Capacity
                                   /\ count'[a] <= occupied' \/ occupied' >= Capacity
           /\ pc'[a] \in {"fetch", "copy"} => Queued(cursor[a])'
           /\ pc'[a] = "copy" => word'[a] = buffer'[cursor'[a]]
  <1> USE DEF Inv
  <1>0. /\ Capacity \in Nat \ {0} /\ SizeT \in Nat \ {0} /\ SizeT > 2 * Capacity
        /\ NoOne \notin Actors /\ occupied \in Nat /\ writeCursor \in 0 .. Capacity - 1
        /\ pc \in [Actors -> Points] /\ op \in [Actors -> Ops]
        /\ count \in [Actors -> 0 .. SizeT - 1] /\ cursor \in [Actors -> Slots]
        /\ word \in [Actors -> Values]
    BY ChannelAssumption DEF TypeOK, TypeChannel, TypeActors, TypeLocals, Slots
  <1>1. CASE Calls(a)
    BY <1>0, <1>1 DEF Calls, SendCall, ShareCall, ReceiveCall, GroupCall, PeekCall, MarkCall,
                      Call, Goto
  <1>2. CASE Body(a)
    <2>1. op[a] = "peek" /\ Active(a)
      BY <1>0, <1>2 DEF Body, SendWait, Put, Count, SendAdvance, ShareAdvance, ShareClamp,
         ReceiveWait, GroupEnter, GroupCheck, GroupTest, Take, PeekCheck, ReadCount, Locate,
         Fetch, PeekReturn, MarkSlot, MarkEnd, At, Active
    <2>2. a \in Peekers
      BY <2>1 DEF PeekOK
    <2>3. PeekCheck(a) \/ ReadCount(a) \/ Locate(a) \/ Fetch(a)
      <3>1. pc[a] \in {"check", "reread", "locate", "fetch", "copy"}
        BY <1>0, <1>2, <2>1 DEF Body, SendWait, Put, Count, SendAdvance, ShareAdvance, ShareClamp,
           ReceiveWait, GroupEnter, GroupCheck, GroupTest, Take, PeekCheck, ReadCount, Locate,
           Fetch, PeekReturn, MarkSlot, MarkEnd, At, RolesKept
      <3>2. ~PeekReturn(a)
        BY <1>0 DEF PeekReturn, Goto, Active
      <3> QED
        BY <1>2, <2>1, <3>1, <3>2 DEF Body, SendWait, Put, Count, SendAdvance, ShareAdvance, ShareClamp,
           ReceiveWait, GroupEnter, GroupCheck, GroupTest, Take, MarkSlot, MarkEnd, At
    <2>4. CanRun(a) /\ pc[a] \notin Critical /\ UNCHANGED <<channel, lock>>
      BY <2>3 DEF PeekCheck, ReadCount, Locate, Fetch, At, Critical
    <2>5. lock = NoOne /\ occupied <= Capacity
      BY <2>2, <2>4, PeekOutside DEF OccupancyBounded
    <2>6. CASE PeekCheck(a)
      BY <1>0, <2>2, <2>4, <2>6 DEF PeekCheck, Goto, channel, Active
    <2>7. CASE ReadCount(a)
      <3>1. pc[a] = "reread" /\ count'[a] = occupied /\ pc'[a] = "locate"
        BY <1>0, <2>7 DEF ReadCount, At, Goto
      <3>2. occupied > 0 /\ occupied' = occupied
        BY <2>1, <2>4, <3>1 DEF PeekOK, channel
      <3> QED
        BY <1>0, <2>2, <2>5, <3>1, <3>2
    <2>8. CASE Locate(a)
      <3>1. /\ pc[a] = "locate" /\ pc'[a] = "fetch"
            /\ cursor'[a] = ReadCursor(writeCursor, count[a])
        BY <1>0, <2>1, <2>8 DEF Locate, At, Goto
      <3>2. count[a] \in 1 .. Capacity /\ (count[a] <= occupied \/ occupied >= Capacity)
        BY <2>1, <3>1 DEF PeekOK
      <3> DEFINE x == writeCursor + Capacity - count[a]
      <3>3. x \in Int /\ 0 <= x /\ x < SizeT /\ x < 2 * Capacity
        BY <1>0, <3>2
      <3>4. cursor'[a] = IF x < Capacity THEN x ELSE x - Capacity
        BY <1>0, <3>1, <3>3, ModSmall, ModLap DEF ReadCursor
      <3>5. Behind(cursor[a])' = count[a]
        BY <1>0, <2>4, <3>2, <3>4 DEF Behind, channel
      <3>6. ~Moving'
        BY <2>4, <2>5 DEF Moving
      <3>7. Queued(cursor[a])'
        BY <1>0, <2>4, <3>2, <3>5, <3>6 DEF Queued, channel
      <3> QED
        BY <2>2, <3>1, <3>7
    <2>9. CASE Fetch(a)
      <3>1. /\ pc[a] = "fetch" /\ pc'[a] = "copy" /\ cursor' = cursor
            /\ word'[a] = buffer[cursor[a]]
        BY <1>0, <2>9 DEF Fetch, At, Goto
      <3>2. Queued(cursor[a])
        BY <2>1, <3>1 DEF PeekOK
      <3>3. Queued(cursor[a])' /\ buffer' = buffer
        BY <2>4, <2>5, <3>1, <3>2 DEF Queued, Behind, Moving, channel
      <3> QED
        BY <2>2, <3>1, <3>3
    <2> QED
      BY <2>3, <2>6, <2>7, <2>8, <2>9
  <1> QED
    BY <1>1, <1>2

(* No step of a peek, or of anybody else meanwhile, spoils what it saw.    *)
LEMMA PeekStep ==
    ASSUME PeekSafe, QInv, PeekOK, [Next]_vars PROVE PeekOK'
  <1> USE DEF QInv, Inv
  <1>0. /\ Capacity \in Nat \ {0} /\ SizeT \in Nat \ {0} /\ SizeT > 2 * Capacity
        /\ occupied \in Nat /\ count \in [Actors -> 0 .. SizeT - 1]
        /\ cursor \in [Actors -> Slots]
    BY ChannelAssumption DEF TypeOK, TypeChannel, TypeLocals
  <1>1. CASE UNCHANGED vars
    BY <1>1 DEF vars, channel, locals, PeekOK, Active, Queued, Behind, Moving, Dropping
  <1>2. CASE Next
    <2> SUFFICES ASSUME NEW a \in Actors, Active(a)', op'[a] = "peek"
                 PROVE  /\ a \in Peekers
                        /\ pc'[a] = "reread" => occupied' > 0
                        /\ pc'[a] = "locate" => /\ count'[a] \in 1 .. Capacity
                                                /\ count'[a] <= occupied' \/ occupied' >= Capacity
                        /\ pc'[a] \in {"fetch", "copy"} => Queued(cursor[a])'
                        /\ pc'[a] = "copy" => word'[a] = buffer'[cursor'[a]] \/ Dropping'
      BY DEF PeekOK
    <2>1. PICK b \in Actors : Calls(b) \/ Body(b)
      BY <1>2 DEF Next
    <2>2. CASE b = a
      BY <2>1, <2>2, OwnPeekStep
    <2>3. CASE b # a
      <3>1. /\ op'[a] = op[a] /\ pc'[a] = pc[a]
            /\ count'[a] = count[a] /\ cursor'[a] = cursor[a] /\ word'[a] = word[a]
        BY <2>1, <2>3, OthersStay
      <3>2. a \in Peekers
        BY <3>1 DEF PeekOK, Active
      <3>3. ~Take(b)
        <4> SUFFICES ASSUME Take(b) PROVE FALSE
          OBVIOUS
        <4>1. pc[b] = "take" /\ op[b] \in {"receive", "group"}
          BY DEF Take, At, RolesKept
        <4>2. b \in Receivers
          BY <4>1 DEF RolesKept, Active
        <4> QED
          BY <2>3, <3>2, <4>2 DEF PeekSafe
      <3>4. \/ occupied' = occupied \/ occupied' = occupied + 1
            \/ occupied > Capacity /\ occupied' = Capacity
        <4>1. CASE Quiet(b)
          BY <4>1, QuietFacts DEF channel
        <4>2. CASE Put(b) \/ SendAdvance(b) \/ ShareAdvance(b) \/ ShareClamp(b)
          BY <4>2 DEF Put, SendAdvance, ShareAdvance, ShareClamp
        <4>3. CASE Count(b)
          <5>1. occupied < Capacity + 1
            BY <1>0, <4>3 DEF Count, At, OccupiedInside, Limit
          <5>2. occupied + 1 \in Int /\ 0 <= occupied + 1 /\ occupied + 1 < SizeT
            BY <1>0, <5>1
          <5> QED
            BY <1>0, <4>3, <5>2, ModSmall DEF Count
        <4> QED
          BY <2>1, <3>3, <4>1, <4>2, <4>3, StepsOf
      <3>5. /\ pc[a] = "reread" => occupied > 0
            /\ pc[a] = "locate" => /\ count[a] \in 1 .. Capacity
                                   /\ count[a] <= occupied \/ occupied >= Capacity
            /\ pc[a] \in {"fetch", "copy"} => Queued(cursor[a])
            /\ pc[a] = "copy" => word[a] = buffer[cursor[a]] \/ Dropping
        BY <3>1 DEF PeekOK, Active
      <3>6. /\ pc'[a] = "reread" => occupied' > 0
            /\ pc'[a] = "locate" => /\ count'[a] \in 1 .. Capacity
                                    /\ count'[a] <= occupied' \/ occupied' >= Capacity
        BY <1>0, <3>1, <3>4, <3>5
      <3>7. CASE pc[a] \in {"fetch", "copy"}
        <4>0. PICK c \in Slots : c = cursor[a]
          BY <1>0
        <4>1. Queued(c)
          BY <3>5, <3>7, <4>0
        <4>2. Queued(c)' /\ (buffer'[c] = buffer[c] \/ Dropping') /\ (Dropping => Dropping')
          BY <2>1, <3>3, <4>1, QueuedStays
        <4>3. cursor'[a] = c
          BY <3>1, <4>0
        <4>4. Queued(cursor[a])'
          BY <4>2, <4>3 DEF Queued, Behind
        <4>5. pc'[a] = "copy" => word'[a] = buffer'[cursor'[a]] \/ Dropping'
          BY <3>1, <3>5, <4>0, <4>2, <4>3
        <4> QED
          BY <3>2, <3>6, <4>4, <4>5
      <3> QED
        BY <3>1, <3>2, <3>6, <3>7
    <2> QED
      BY <2>2, <2>3
  <1> QED
    BY <1>1, <1>2

(* A peek that found the channel occupied returns a value that is queued,  *)
(* unless a share has reported a drop since the last receive, although     *)
(* peekChannel reads occupied twice, the cursor later and the slot word by *)
(* word, when the writers are handlers of the peeking core and it alone    *)
(* receives.                                                               *)
THEOREM PeekIsQueued == ASSUME SafeUse, PeekSafe PROVE Spec => PeekSeesQueued
  <1>1. Init => PeekOK
    BY DEF Init, PeekOK, Active
  <1>2. QInv /\ PeekOK /\ [Next]_vars => PeekOK'
    BY PeekStep
  <1>3. ASSUME QInv, PeekOK, NEW a \in Actors, PeekReturn(a), ~overflow
        PROVE  ret'[a] \in Held
    <2>1. /\ pc[a] = "copy" /\ op[a] = "peek" /\ CanRun(a)
          /\ \E v \in Copies(a) : ret' = [ret EXCEPT ![a] = v]
      BY <1>3 DEF PeekReturn, At
    <2>2. /\ a \in Peekers /\ Queued(cursor[a])
          /\ word[a] = buffer[cursor[a]] \/ Dropping
      BY <1>3, <2>1 DEF PeekOK, Active
    <2>3. lock = NoOne
      BY <1>3, <2>1, <2>2, PeekOutside DEF Critical, QInv
    <2>4. /\ Queue = Ring(buffer, writeCursor, occupied) /\ Len(Queue) = occupied
          /\ occupied \in 0 .. Capacity /\ writeCursor \in Slots /\ writeCursor \in 0 .. Capacity
          /\ buffer \in [Slots -> Values]
      BY <1>3, <2>3, Outside DEF QInv
    <2>5. /\ Capacity \in Nat \ {0} /\ SizeT \in Nat \ {0} /\ SizeT > 2 * Capacity
          /\ ret \in [Actors -> Values \cup BOOLEAN \cup {Torn}] /\ cursor[a] \in 0 .. Capacity - 1
          /\ writeCursor \in 0 .. Capacity - 1
      BY <1>3, ChannelAssumption DEF QInv, Inv, TypeOK, TypeChannel, TypeActors, TypeLocals, Slots
    <2>6. Stored = occupied
      BY <2>3, <2>4, <2>5 DEF Stored, Uncounted
    <2>7. ret'[a] = buffer[cursor[a]]
      <3>1. word[a] = buffer[cursor[a]]
        BY <1>3, <2>2, <2>3 DEF Dropping
      <3> QED
        BY <2>1, <2>5, <3>1 DEF Copies
    <2> DEFINE n == Behind(cursor[a])
               k == occupied - n + 1
    <2>8. n \in 1 .. Capacity /\ n <= occupied
          /\ writeCursor + Capacity - n = IF cursor[a] < writeCursor THEN cursor[a] + Capacity
                                          ELSE cursor[a]
      <3>1. n = IF cursor[a] < writeCursor THEN writeCursor - cursor[a]
                ELSE writeCursor + Capacity - cursor[a]
        BY DEF Behind
      <3>2. occupied >= Capacity \/ n <= occupied
        <4>1. ~Moving
          BY <2>3 DEF Moving
        <4>2. n + 0 = n
          BY <2>5, <3>1
        <4> QED
          BY <2>2, <4>1, <4>2 DEF Queued
      <3> HIDE DEF n
      <3>3. n \in 1 .. Capacity
        BY <2>5, <3>1
      <3> QED
        BY <2>4, <2>5, <3>1, <3>2, <3>3
    <2> HIDE DEF n
    <2>9. /\ k \in 1 .. occupied
          /\ writeCursor + Capacity - occupied + k - 1 = writeCursor + Capacity - n
          /\ writeCursor + Capacity - n \in Int
          /\ 0 <= writeCursor + Capacity - n /\ writeCursor + Capacity - n < 2 * Capacity
      BY <2>4, <2>5, <2>8
    <2> HIDE DEF k
    <2>10. cursor[a] = (writeCursor + Capacity - occupied + k - 1) % Capacity
      <3> DEFINE x == writeCursor + Capacity - n
      <3>1. x % Capacity = IF x < Capacity THEN x ELSE x - Capacity
        BY <2>5, <2>9, ModLap
      <3>2. cursor[a] = IF x < Capacity THEN x ELSE x - Capacity
        BY <2>5, <2>8
      <3> QED
        BY <2>9, <3>1, <3>2
    <2>11. Queue[k] = buffer[cursor[a]]
      BY <2>4, <2>9, <2>10, RingSeq
    <2> QED
      BY <2>6, <2>7, <2>9, <2>11 DEF Held
  <1>4. QInv /\ PeekOK /\ [Next]_vars =>
          [\A a \in Actors : PeekReturn(a) => ret'[a] \in Held \/ overflow]_vars
    BY <1>3
  <1> QED
    BY <1>1, <1>2, <1>4, QueueInvariant, PTL DEF Spec, PeekSeesQueued
=============================================================================
