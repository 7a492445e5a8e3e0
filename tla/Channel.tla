------------------------------- MODULE Channel -------------------------------
(***************************************************************************)
(* One Yarg channel (channel.c) as the Pico build runs it: a ring buffer   *)
(* that the two cores and the interrupt handlers use at the same time.     *)
(* send and receive busy-wait on `occupied` outside the channel's lock and *)
(* then enter it; share never waits and drops the oldest value instead;    *)
(* peek and the collector's markChannel read the ring without the lock.    *)
(* A sync group (sync_group.c) is modelled as one of its channels sees it. *)
(*                                                                         *)
(* An actor is an execution context: the thread of a core, or an interrupt *)
(* handler of a core. The lock is the Pico SDK's critical_section, which   *)
(* masks the interrupts of the core that holds it. Every write another     *)
(* context can observe without the lock is a step of its own, and so is    *)
(* every unlocked read of a peek. A Value takes several words: a peek      *)
(* copies it in two steps. A writer stores it in one, inside the lock; the *)
(* contexts that could see it half stored are those of the other core, and *)
(* they look at slots a writer does not touch unless it drops their value. *)
(***************************************************************************)
EXTENDS Integers, Sequences, FiniteSets

CONSTANTS
    Actors,      \* execution contexts that use the channel
    Handlers,    \* the actors that are interrupt handlers
    Core,        \* the core each actor runs on
    Senders, Sharers, Receivers, Peekers, Markers,  \* who calls what
    Data,        \* the values sent
    Nil,         \* NIL_VAL
    Torn,        \* a Value whose words come from two different values
    NoOne,       \* the lock is free
    Capacity,    \* bufferSize
    SizeT        \* 2^w for the width w of size_t

ASSUME ChannelAssumption ==
    /\ Capacity \in Nat \ {0}
    /\ SizeT \in Nat /\ SizeT > 2 * Capacity
    /\ Handlers \subseteq Actors
    /\ Core \in [Actors -> {0, 1}]
    /\ Senders \cup Sharers \cup Receivers \cup Peekers \cup Markers = Actors
    /\ Nil \notin Data /\ Torn \notin Data \cup {Nil} /\ NoOne \notin Actors

(* The use the code is written for: nobody else can fill the channel       *)
(* between a sender's test and its write, nobody else can empty it between *)
(* a receiver's test and its read.                                         *)
SafeUse ==
    /\ \A s \in Senders : Senders \cup Sharers = {s}
    /\ \A r \in Receivers : Receivers = {r}

(* The use in which an unlocked peek is reliable: nobody else receives,    *)
(* and whoever writes is a handler of the peeking thread's core.           *)
PeekSafe ==
    \A p \in Peekers :
        /\ \A r \in Receivers : r = p
        /\ \A w \in (Senders \cup Sharers) \ {p} :
             w \in Handlers /\ p \notin Handlers /\ Core[w] = Core[p]

Values == Data \cup {Nil}
Slots == 0 .. Capacity - 1

VARIABLES
    buffer, writeCursor, occupied, overflow,   \* ObjChannelContainer
    lock,                                      \* holder of lock_access
    pc, op, arg, ret,   \* per actor: program point, call, argument, result
    count, cursor, word, steps, marked,  \* locals of peekChannel, readCursor
                                         \* and markChannel
    owed     \* history: what the channel held when a mark began

channel == <<buffer, writeCursor, occupied, overflow>>
locals == <<count, cursor, word, steps, marked, owed>>
vars == <<channel, lock, pc, op, arg, ret, locals>>

Ops == {"send", "share", "receive", "group", "peek", "mark"}
Points == {"idle", "wait", "poll", "put", "count", "advance", "clamp", "take",
           "check", "reread", "locate", "fetch", "copy", "loop"}
Critical == {"count", "advance", "clamp"}

TypeChannel ==
    /\ buffer \in [Slots -> Values]
    /\ writeCursor \in Slots
    /\ occupied \in 0 .. SizeT - 1
    /\ overflow \in BOOLEAN
    /\ lock \in Actors \cup {NoOne}
TypeActors ==
    /\ pc \in [Actors -> Points]
    /\ op \in [Actors -> Ops]
    /\ arg \in [Actors -> Values]
    /\ ret \in [Actors -> Values \cup BOOLEAN \cup {Torn}]
TypeLocals ==
    /\ count \in [Actors -> 0 .. SizeT - 1]
    /\ cursor \in [Actors -> Slots]
    /\ word \in [Actors -> Values]
    /\ steps \in [Actors -> 0 .. SizeT]
    /\ marked \in [Actors -> SUBSET Values]
    /\ owed \in [Actors -> SUBSET Values]

(* Cursors stay inside the buffer, counts inside size_t.                   *)
TypeOK == TypeChannel /\ TypeActors /\ TypeLocals

Init ==   \* newChannel
    /\ buffer = [i \in Slots |-> Nil]
    /\ writeCursor = 0 /\ occupied = 0 /\ overflow = FALSE
    /\ lock = NoOne
    /\ pc = [a \in Actors |-> "idle"]
    /\ op = [a \in Actors |-> "peek"]
    /\ arg = [a \in Actors |-> Nil]
    /\ ret = [a \in Actors |-> Nil]
    /\ count = [a \in Actors |-> 0]
    /\ cursor = [a \in Actors |-> 0]
    /\ word = [a \in Actors |-> Nil]
    /\ steps = [a \in Actors |-> 0]
    /\ marked = [a \in Actors |-> {}]
    /\ owed = [a \in Actors |-> {}]

-----------------------------------------------------------------------------
(* Operators named Mut... are faulty variants of the definition that       *)
(* follows them. No specification uses them: each is put in that           *)
(* definition's place to confirm that a property would notice the fault.   *)
MutReadCursor(wc, n) == ((wc + Capacity - n + 1) % SizeT) % Capacity

(* readCursor(), given its two reads of the channel; size_t arithmetic.    *)
ReadCursor(wc, n) == ((wc + Capacity - n) % SizeT) % Capacity

(* The queue the ring stands for. A value counts as queued from the moment *)
(* its slot is written, which in a full ring is the moment the oldest value *)
(* is lost; occupied and writeCursor follow before the lock is released.   *)
Uncounted == lock # NoOne /\ pc[lock] = "count"
Unmoved == lock # NoOne /\ pc[lock] \in {"count", "advance"}
End == IF Unmoved THEN writeCursor + 1 ELSE writeCursor
Stored == LET n == IF Uncounted THEN occupied + 1 ELSE occupied
          IN  IF n > Capacity THEN Capacity ELSE n
Queue == [k \in 1 .. Stored |->
            buffer[(End + Capacity - Stored + k - 1) % Capacity]]
Held == {Queue[k] : k \in 1 .. Stored}

(* A handler runs to its end before the thread of its core continues; a    *)
(* thread that holds a critical section, the channel's, its group's or,    *)
(* while it collects garbage, the heap's, cannot be interrupted.           *)
Active(h) == pc[h] # "idle"
InGroup(a) ==
    op[a] = "group" /\ pc[a] \in {"check", "reread", "locate", "fetch", "copy", "take"}
Marking(a) == Active(a) /\ op[a] = "mark"
CanRun(a) ==
    a \in Handlers \/ \A h \in Handlers : Core[h] = Core[a] => ~Active(h)
MutCanStart(a) ==   \* the collector does not hold vm.heap
    /\ ~Active(a)
    /\ \A h \in Handlers : Core[h] = Core[a] => ~Active(h)
    /\ a \in Handlers => /\ lock # NoOne => Core[lock] # Core[a]
                         /\ \A b \in Actors : InGroup(b) => Core[b] # Core[a]
CanStart(a) ==
    /\ ~Active(a)
    /\ \A h \in Handlers : Core[h] = Core[a] => ~Active(h)
    /\ a \in Handlers =>
         /\ lock # NoOne => Core[lock] # Core[a]
         /\ \A b \in Actors : InGroup(b) \/ Marking(b) => Core[b] # Core[a]

At(a, point) == pc[a] = point /\ CanRun(a)
Goto(a, point) == pc' = [pc EXCEPT ![a] = point]

(* The locals of a call go when it returns.                                *)
DropLocals(a) ==
    /\ count' = [count EXCEPT ![a] = 0]
    /\ cursor' = [cursor EXCEPT ![a] = 0]
    /\ word' = [word EXCEPT ![a] = Nil]
    /\ steps' = [steps EXCEPT ![a] = 0]
    /\ marked' = [marked EXCEPT ![a] = {}]
    /\ owed' = [owed EXCEPT ![a] = {}]

Call(a, name, data, point) ==
    /\ CanStart(a)
    /\ Goto(a, point)
    /\ op' = [op EXCEPT ![a] = name]
    /\ arg' = [arg EXCEPT ![a] = data]
    /\ UNCHANGED <<channel, lock, ret, locals>>

(* sendChannel: the busy-wait.                                             *)
SendCall(a) == a \in Senders /\ \E d \in Data : Call(a, "send", d, "wait")
SendWait(a) ==
    /\ At(a, "wait") /\ op[a] = "send"
    /\ occupied # Capacity
    /\ Goto(a, "put")
    /\ UNCHANGED <<channel, lock, op, arg, ret, locals>>

ShareCall(a) == a \in Sharers /\ \E d \in Data : Call(a, "share", d, "put")

(* sendChannel and shareChannel inside the lock: the slot, then occupied,  *)
(* then writeCursor.                                                       *)
Put(a) ==
    /\ At(a, "put") /\ lock = NoOne
    /\ lock' = a
    /\ buffer' = [buffer EXCEPT ![writeCursor] = arg[a]]
    /\ Goto(a, "count")
    /\ UNCHANGED <<writeCursor, occupied, overflow, op, arg, ret, locals>>

Count(a) ==
    /\ At(a, "count")
    /\ occupied' = (occupied + 1) % SizeT
    /\ Goto(a, "advance")
    /\ UNCHANGED <<buffer, writeCursor, overflow, lock, op, arg, ret, locals>>

SendAdvance(a) ==
    /\ At(a, "advance") /\ op[a] = "send"
    /\ writeCursor' = (writeCursor + 1) % Capacity
    /\ overflow' = FALSE
    /\ lock' = NoOne
    /\ ret' = [ret EXCEPT ![a] = Nil]
    /\ Goto(a, "idle")
    /\ UNCHANGED <<buffer, occupied, op, arg, locals>>

ShareAdvance(a) ==
    /\ At(a, "advance") /\ op[a] = "share"
    /\ writeCursor' = (writeCursor + 1) % Capacity
    /\ Goto(a, "clamp")
    /\ UNCHANGED <<buffer, occupied, overflow, lock, op, arg, ret, locals>>

MutShareClampKeepsLock(a) ==
    /\ At(a, "clamp")
    /\ IF occupied > Capacity
         THEN overflow' = TRUE /\ occupied' = Capacity
         ELSE UNCHANGED <<overflow, occupied>>
    /\ ret' = [ret EXCEPT ![a] = overflow']
    /\ Goto(a, "idle")
    /\ UNCHANGED <<buffer, writeCursor, lock, op, arg, locals>>

ShareClamp(a) ==
    /\ At(a, "clamp")
    /\ IF occupied > Capacity
         THEN overflow' = TRUE /\ occupied' = Capacity
         ELSE UNCHANGED <<overflow, occupied>>
    /\ ret' = [ret EXCEPT ![a] = overflow']
    /\ lock' = NoOne
    /\ Goto(a, "idle")
    /\ UNCHANGED <<buffer, writeCursor, op, arg, locals>>

(* receiveChannel: the busy-wait, then collectFromChannel inside the lock, *)
(* where occupied is the only thing written that others read without it.   *)
ReceiveCall(a) == a \in Receivers /\ Call(a, "receive", Nil, "wait")
MutReceiveWait(a) ==   \* does not wait
    /\ At(a, "wait") /\ op[a] = "receive"
    /\ Goto(a, "take")
    /\ UNCHANGED <<channel, lock, op, arg, ret, locals>>
MutReceiveWaitFull(a) ==   \* waits for a full channel
    /\ At(a, "wait") /\ op[a] = "receive"
    /\ occupied = Capacity
    /\ Goto(a, "take")
    /\ UNCHANGED <<channel, lock, op, arg, ret, locals>>
ReceiveWait(a) ==
    /\ At(a, "wait") /\ op[a] = "receive"
    /\ occupied # 0
    /\ Goto(a, "take")
    /\ UNCHANGED <<channel, lock, op, arg, ret, locals>>

MutTake(a) ==   \* does not clear the overflow flag
    /\ At(a, "take") /\ lock = NoOne
    /\ ret' = [ret EXCEPT ![a] = buffer[ReadCursor(writeCursor, occupied)]]
    /\ occupied' = (occupied - 1) % SizeT
    /\ Goto(a, "idle")
    /\ UNCHANGED <<buffer, writeCursor, overflow, lock, op, arg, locals>>

Take(a) ==
    /\ At(a, "take") /\ lock = NoOne
    /\ ret' = [ret EXCEPT ![a] = buffer[ReadCursor(writeCursor, occupied)]]
    /\ occupied' = (occupied - 1) % SizeT
    /\ overflow' = FALSE
    /\ Goto(a, "idle")
    /\ UNCHANGED <<buffer, writeCursor, lock, op, arg, locals>>

(* peekChannel: tests occupied, then readCursor reads occupied again and   *)
(* writeCursor after it, then the words of the slot's Value are copied one *)
(* after the other. No lock.                                               *)
PeekCall(a) == a \in Peekers /\ Call(a, "peek", Nil, "check")
PeekCheck(a) ==
    /\ At(a, "check") /\ op[a] = "peek"
    /\ IF occupied > 0
         THEN Goto(a, "reread") /\ UNCHANGED ret
         ELSE Goto(a, "idle") /\ ret' = [ret EXCEPT ![a] = Nil]
    /\ UNCHANGED <<channel, lock, op, arg, locals>>

(* readCursor's read of occupied, then of writeCursor, for a peek, a group *)
(* and markChannel.                                                        *)
ReadCount(a) ==
    /\ At(a, "reread")
    /\ count' = [count EXCEPT ![a] = occupied]
    /\ owed' = [owed EXCEPT ![a] = Held]
    /\ Goto(a, "locate")
    /\ UNCHANGED <<channel, lock, op, arg, ret, cursor, word, steps, marked>>

Locate(a) ==
    /\ At(a, "locate")
    /\ cursor' = [cursor EXCEPT ![a] = ReadCursor(writeCursor, count[a])]
    /\ Goto(a, IF op[a] = "mark" THEN "loop" ELSE "fetch")
    /\ UNCHANGED <<channel, lock, op, arg, ret, count, word, steps, marked, owed>>

(* The copy of the slot: a first word, then the rest. When the slot was    *)
(* rewritten in between, the copy mixes two values; it may still equal one *)
(* of them, where their words agree.                                       *)
Fetch(a) ==
    /\ At(a, "fetch")
    /\ word' = [word EXCEPT ![a] = buffer[cursor[a]]]
    /\ Goto(a, "copy")
    /\ UNCHANGED <<channel, lock, op, arg, ret, count, cursor, steps, marked, owed>>

Copies(a) ==
    IF word[a] = buffer[cursor[a]] THEN {word[a]}
    ELSE {word[a], buffer[cursor[a]], Torn}

PeekReturn(a) ==
    /\ At(a, "copy") /\ op[a] = "peek"
    /\ \E v \in Copies(a) : ret' = [ret EXCEPT ![a] = v]
    /\ Goto(a, "idle")
    /\ DropLocals(a)
    /\ UNCHANGED <<channel, lock, op, arg>>

(* receiveSyncGroup, seen from one of the group's channels. A pass over    *)
(* the channels is inside the group's lock: it peeks this one and, when    *)
(* there is a value, collects it without a wait. When there is none the    *)
(* pass is repeated, unless another channel had a value.                   *)
GroupCall(a) == a \in Receivers /\ Call(a, "group", Nil, "poll")
GroupEnter(a) ==
    /\ At(a, "poll")
    /\ Goto(a, "check")
    /\ UNCHANGED <<channel, lock, op, arg, ret, locals>>

GroupHasNone(a) ==
    \/ Goto(a, "poll") /\ UNCHANGED ret
    \/ Goto(a, "idle") /\ ret' = [ret EXCEPT ![a] = Nil]
GroupCheck(a) ==
    /\ At(a, "check") /\ op[a] = "group"
    /\ IF occupied > 0 THEN Goto(a, "reread") /\ UNCHANGED ret ELSE GroupHasNone(a)
    /\ UNCHANGED <<channel, lock, op, arg, locals>>

GroupTest(a) ==
    /\ At(a, "copy") /\ op[a] = "group"
    /\ \E v \in Copies(a) :
         IF v # Nil THEN Goto(a, "take") /\ UNCHANGED ret ELSE GroupHasNone(a)
    /\ DropLocals(a)
    /\ UNCHANGED <<channel, lock, op, arg>>

(* markChannel, run by whichever core collects garbage: from readCursor,   *)
(* for as many slots as occupied says at each turn of the loop. It holds   *)
(* the heap's lock, not the channel's.                                     *)
MarkCall(a) ==
    /\ a \in Markers /\ \A b \in Actors : ~Marking(b)
    /\ Call(a, "mark", Nil, "reread")

MarkSlot(a) ==
    /\ At(a, "loop") /\ steps[a] < occupied
    /\ marked' = [marked EXCEPT ![a] = @ \cup {buffer[cursor[a]]}]
    /\ cursor' = [cursor EXCEPT ![a] = (@ + 1) % Capacity]
    /\ steps' = [steps EXCEPT ![a] = @ + 1]
    /\ UNCHANGED <<channel, lock, pc, op, arg, ret, count, word, owed>>

MarkEnd(a) ==
    /\ At(a, "loop") /\ steps[a] >= occupied
    /\ Goto(a, "idle")
    /\ DropLocals(a)
    /\ UNCHANGED <<channel, lock, op, arg, ret>>

-----------------------------------------------------------------------------
Calls(a) ==
    \/ SendCall(a) \/ ShareCall(a) \/ ReceiveCall(a) \/ GroupCall(a)
    \/ PeekCall(a) \/ MarkCall(a)

Body(a) ==
    \/ SendWait(a) \/ Put(a) \/ Count(a) \/ SendAdvance(a)
    \/ ShareAdvance(a) \/ ShareClamp(a)
    \/ ReceiveWait(a) \/ GroupEnter(a) \/ GroupCheck(a) \/ GroupTest(a) \/ Take(a)
    \/ PeekCheck(a) \/ ReadCount(a) \/ Locate(a) \/ Fetch(a) \/ PeekReturn(a)
    \/ MarkSlot(a) \/ MarkEnd(a)

Next == \E a \in Actors : Calls(a) \/ Body(a)

Spec == Init /\ [][Next]_vars

(* A core executes its instructions; it gets the lock and time between     *)
(* interrupts again and again; the receiving program keeps receiving.      *)
Fairness ==
    /\ \A a \in Actors : SF_vars(Body(a))
    /\ \A a \in Receivers : WF_vars(ReceiveCall(a) \/ GroupCall(a))

FairSpec == Spec /\ Fairness

-----------------------------------------------------------------------------
(* When nobody is inside the lock, the channel holds at most Capacity      *)
(* values: occupied neither passes bufferSize nor wraps below zero, the    *)
(* premise of readCursor's arithmetic (channel.c, send and collect).       *)
OccupancyBounded == lock = NoOne => occupied <= Capacity

(* Whoever passed a busy-wait still finds what it waited for when it gets  *)
(* the lock: room for a sender, a value for a receiver. Test and use are   *)
(* separate steps of sendChannel, receiveChannel and receiveSyncGroup,     *)
(* which finds its value by an unlocked peek.                              *)
WaitStillHolds ==
    \A a \in Actors :
        /\ pc[a] = "put" /\ op[a] = "send" => occupied < Capacity
        /\ pc[a] = "take" => occupied > 0
        /\ pc[a] \in {"reread", "locate", "fetch", "copy"} /\ op[a] = "group"
             => occupied > 0

(* The invariant the two above rest on: the lock excludes, an actor makes  *)
(* only the calls its role allows, and inside the lock occupied is at most *)
(* one ahead of what it will be outside.                                   *)
LockHeld == \A a \in Actors : pc[a] \in Critical <=> lock = a

RolesKept ==
    \A a \in Actors :
        /\ pc[a] \in {"put", "count", "advance"} => op[a] \in {"send", "share"}
        /\ pc[a] = "wait" => op[a] \in {"send", "receive"}
        /\ pc[a] = "clamp" => op[a] = "share"
        /\ pc[a] = "poll" => op[a] = "group"
        /\ pc[a] = "loop" => op[a] = "mark"
        /\ pc[a] \in {"reread", "locate"} => op[a] \in {"peek", "group", "mark"}
        /\ pc[a] \in {"fetch", "copy"} => op[a] \in {"peek", "group"}
        /\ pc[a] = "take" => op[a] \in {"receive", "group"}
        /\ Active(a) /\ op[a] = "send" => a \in Senders
        /\ Active(a) /\ op[a] = "share" => a \in Sharers
        /\ Active(a) /\ op[a] \in {"receive", "group"} => a \in Receivers

Limit(a) == IF op[a] = "send" THEN Capacity ELSE Capacity + 1
OccupiedInside ==
    \A a \in Actors :
        /\ pc[a] = "count" => occupied < Limit(a)
        /\ pc[a] \in {"advance", "clamp"} => occupied \in 1 .. Limit(a)

Inv ==
    /\ TypeOK /\ LockHeld /\ RolesKept
    /\ OccupiedInside /\ OccupancyBounded /\ WaitStillHolds

(* The result a share will return once its slot is written: whether it     *)
(* dropped a value.                                                        *)
Result(a) ==
    CASE lock # a -> ret[a]
      [] lock = a /\ op[a] = "send" -> Nil
      [] lock = a /\ op[a] = "share" /\ pc[a] = "count" -> occupied >= Capacity
      [] lock = a /\ op[a] = "share" /\ pc[a] # "count" -> occupied > Capacity

(* send, share and receive implement a bounded FIFO queue: nothing is lost *)
(* or duplicated or reordered, except the oldest value by a share that     *)
(* reports it.                                                             *)
Abstract == INSTANCE ChannelQueue
    WITH queue <- Queue, ret <- [a \in Actors |-> Result(a)]
ImplementsQueue == Abstract!Spec

(* A peek that found the channel occupied returns a value that is in it,   *)
(* although it reads occupied twice, writeCursor later and then the slot   *)
(* word by word (peekChannel), unless a share has reported a drop since    *)
(* the last receive: the slot it was reading may then have been rewritten  *)
(* between two words, and what it returns was perhaps never sent.          *)
PeekSeesQueued ==
    [][\A a \in Actors : PeekReturn(a) => ret'[a] \in Held \/ overflow]_vars

(* A mark reaches every value that stayed in the channel while it ran      *)
(* (markChannel): the collector frees what is not marked. True of a        *)
(* channel whose other users are the marking core's own handlers; not of   *)
(* one that the other core writes to.                                      *)
MarkCoversHeld ==
    [][\A a \in Actors : MarkEnd(a) => owed[a] \cap Held \subseteq marked[a]]_vars

(* A call that waits is served: a receive once there is a value, a send    *)
(* because the receiver makes room, and every share.                       *)
CallsComplete ==
    /\ \A a \in Senders \cup Sharers : Active(a) ~> ~Active(a)
    /\ \A a \in Receivers : (Active(a) /\ occupied > 0) ~> ~Active(a)
==============================================================================
