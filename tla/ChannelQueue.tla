----------------------------- MODULE ChannelQueue -----------------------------
(***************************************************************************)
(* What a channel promises its callers: a FIFO queue of at most Capacity   *)
(* values. send waits for room, receive waits for a value, and share       *)
(* always succeeds, drops the oldest value when there is no room and says  *)
(* so in its result.                                                       *)
(***************************************************************************)
EXTENDS Integers, Sequences

CONSTANTS Actors, Data, Nil, Torn, Capacity

VARIABLES queue, ret

Returns(a, v) == ret' = [ret EXCEPT ![a] = v]

Init == queue = <<>> /\ ret = [a \in Actors |-> Nil]

Send(a, d) ==
    /\ Len(queue) < Capacity
    /\ queue' = Append(queue, d)
    /\ Returns(a, Nil)

Share(a, d) ==
    /\ queue' = Append(IF Len(queue) < Capacity THEN queue ELSE Tail(queue), d)
    /\ Returns(a, Len(queue) = Capacity)

Receive(a) ==
    /\ queue # <<>>
    /\ Returns(a, Head(queue))
    /\ queue' = Tail(queue)

(* A peek changes nothing and promises little: see PeekSeesQueued.         *)
Peek(a) == \E v \in Data \cup {Nil, Torn} : Returns(a, v) /\ UNCHANGED queue

Next == \E a \in Actors :
    \/ \E d \in Data : Send(a, d) \/ Share(a, d)
    \/ Receive(a) \/ Peek(a)

Spec == Init /\ [][Next]_<<queue, ret>>
==============================================================================
