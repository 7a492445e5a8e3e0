--------------------------- MODULE TestInterrupts ---------------------------
(***************************************************************************)
(* The host build's simulated interrupts (test-system/testSystem.c). Each  *)
(* registered handler is a thread; test_interrupt schedules an interrupt   *)
(* and test_sync starts the scheduled handlers in tranches and waits until *)
(* all of them are waiting again, which it knows from numWaiting_.         *)
(*                                                                         *)
(* The main thread runs a script of calls. Each region between a lock and  *)
(* its unlock is one step; itemsMutex_ and triggerOrDoneMutex_ are the     *)
(* same mutex. removeInterruptHandler takes no lock (testSystem.c:512      *)
(* unlocks instead), so each of its writes is a step; what else unlocking  *)
(* a mutex that another thread holds may do is not modelled. Nothing sets  *)
(* a handler's state to Die, so the branches for Die and Dead are left     *)
(* out. Condition variables wake without a signal only in theory and are   *)
(* modelled without it.                                                    *)
(***************************************************************************)
EXTENDS Integers, Sequences, FiniteSets

CONSTANTS
    Scripts,     \* what the main thread may run: calls, how many accesses it
                 \* expects (expected_.n_) and whether it is
                 \* settled, making each call only when every thread is parked
    Isrs         \* handler addresses

Ids == 1 .. 3
States == {"Installing", "Waiting", "Go", "Running"}

ScriptCalls == Seq([op : {"add", "interrupt", "remove", "sync"}, id : Ids, isr : Isrs])
ASSUME ScriptsAssumption ==
    \A s \in Scripts :
        s.calls \in ScriptCalls /\ s.expected \in Nat /\ s.settled \in BOOLEAN

(* Scripts that remove handlers at their end, when no access is expected.  *)
OnlyRemoves(s) == \A i \in DOMAIN s : s[i].op = "remove"
RemovesLast(s) ==
    \A i, j \in DOMAIN s : i < j /\ s[i].op = "remove" => s[j].op = "remove"
Usual(s) == s.expected = 0 /\ RemovesLast(s.calls)
UsualUse == \A s \in Scripts : Usual(s)

VARIABLES
    items, n,         \* handlers_.i_ (also beyond n_) and handlers_.n_
    numWaiting,       \* handlers_.numWaiting_
    scheduled,        \* scheduled_
    thread,           \* sequence of handler threads: index_ and program point
    script, main,     \* calls to come, program point of the main thread
    settled,          \* the script is a settled one
    expected,         \* expected_.n_
    tranche,          \* numberInTranche
    gap,              \* removeInterruptHandler's i: the slot to be closed
    due, ran          \* history: runs of each isr asked for and done

vars == <<items, n, numWaiting, scheduled, thread, script, main, settled,
          expected, tranche, gap, due, ran>>

MainPoints == {"call", "addWait", "addBlocked", "close", "pick", "trigger", "check",
               "blocked", "aborted"}
ThreadPoints == {"install", "count", "park", "parked", "go", "isr", "done"}

TypeOK ==
    /\ items \in Seq([id : Ids, isr : Isrs, state : States])
    /\ n \in 0 .. Len(items)
    /\ numWaiting \in Int
    /\ scheduled \in Seq(Ids)
    /\ thread \in Seq([index : 1 .. Len(items), pc : ThreadPoints])
    /\ main \in MainPoints /\ settled \in BOOLEAN /\ expected \in Nat
    /\ tranche \in Nat /\ gap \in Nat
    /\ due \in [Isrs -> Nat] /\ ran \in [Isrs -> Nat]

Init ==
    /\ items = <<>> /\ n = 0 /\ numWaiting = 0
    /\ scheduled = <<>>
    /\ thread = <<>>
    /\ \E s \in Scripts :
         script = s.calls /\ expected = s.expected /\ settled = s.settled
    /\ main = "call"
    /\ tranche = 0 /\ gap = 0
    /\ due = [i \in Isrs |-> 0] /\ ran = [i \in Isrs |-> 0]

Live == 1 .. n
IsAt(t, point) == thread[t].pc = point
Move(t, point) == thread' = [thread EXCEPT ![t].pc = point]
StateOf(t) == items[thread[t].index].state

-----------------------------------------------------------------------------
(* Calls of the main thread.                                               *)
Calling(op) ==
    /\ main = "call" /\ script # <<>> /\ Head(script).op = op
    /\ settled => \A t \in DOMAIN thread : IsAt(t, "parked")
    /\ script' = Tail(script) /\ UNCHANGED <<settled, expected>>

Registered(id, isr) == {i \in Live : items[i].id = id /\ items[i].isr = isr}

(* addInterruptHandler. A known handler is only waited for. A new one takes *)
(* the slot after the last and starts its thread.                          *)
AddHandler ==
    /\ Calling("add")
    /\ LET c == Head(script)
           new == [id |-> c.id, isr |-> c.isr, state |-> "Installing"]
       IN  IF Registered(c.id, c.isr) # {}
             THEN UNCHANGED <<items, n, thread>>
             ELSE /\ items' = IF n < Len(items) THEN [items EXCEPT ![n + 1] = new]
                                                ELSE Append(items, new)
                  /\ n' = n + 1
                  /\ thread' = Append(thread, [index |-> n + 1, pc |-> "install"])
    /\ main' = "addWait"
    /\ UNCHANGED <<numWaiting, scheduled, tranche, gap, due, ran>>

AddWait ==
    /\ main = "addWait"
    /\ main' = IF \E i \in Live : items[i].state = "Installing"
                 THEN "addBlocked" ELSE "call"
    /\ UNCHANGED <<items, n, numWaiting, scheduled, thread, script, settled,
                   expected, tranche, gap, due, ran>>

(* testIntrinsicsTriggerInterrupt. *)
TriggerInterrupt ==
    /\ Calling("interrupt")
    /\ scheduled' = Append(scheduled, Head(script).id)
    /\ UNCHANGED <<items, n, numWaiting, thread, main, tranche, gap, due, ran>>

(* removeInterruptHandler: finds the handler, closes the gap with a loop   *)
(* that runs to expected_.n_, not to handlers_.n_, and leaves the thread   *)
(* waiting. Only the main thread writes what it looks for, so the search   *)
(* is one step. Behind the handlers ever added the array holds anything.   *)
RemoveHandler ==
    /\ Calling("remove")
    /\ LET found == Registered(Head(script).id, Head(script).isr)
       IN  \/ found = {} /\ UNCHANGED <<main, gap>>
           \/ /\ gap' \in found /\ \A k \in found : gap' <= k
              /\ main' = "close"
    /\ UNCHANGED <<items, n, numWaiting, scheduled, thread, tranche, due, ran>>
RemoveShift ==
    /\ main = "close" /\ gap < expected
    /\ \E item \in [id : Ids, isr : Isrs, state : States] :
         /\ gap < Len(items) => item = items[gap + 1]
         /\ items' = [items EXCEPT ![gap] = item]
    /\ gap' = gap + 1
    /\ UNCHANGED <<n, numWaiting, scheduled, thread, script, main, settled,
                   expected, tranche, due, ran>>
RemoveEnd ==
    /\ main = "close" /\ gap >= expected
    /\ n' = n - 1
    /\ main' = "call"
    /\ UNCHANGED <<items, numWaiting, scheduled, thread, script, settled,
                   expected, tranche, gap, due, ran>>

(* testIntrinsicsSync: starts; the loop is entered with an empty tranche.  *)
SyncCall ==
    /\ Calling("sync")
    /\ main' = "pick" /\ tranche' = 0
    /\ UNCHANGED <<items, n, numWaiting, scheduled, thread, gap, due, ran>>

(* One turn of its loop. The first handler of the interrupt is set to Go   *)
(* if it waits; the tranche is triggered when this was the last interrupt  *)
(* or the handler is already busy. Without a handler nothing changes.      *)
Picked == LET ofId == {i \in Live : items[i].id = Head(scheduled)}
          IN  {i \in ofId : \A k \in ofId : i <= k}
SyncPick ==
    /\ main = "pick" /\ scheduled # <<>>
    /\ \E i \in Picked :
         IF items[i].state = "Waiting"
           THEN /\ items' = [items EXCEPT ![i].state = "Go"]
                /\ due' = [due EXCEPT ![items[i].isr] = @ + 1]
                /\ tranche' = tranche + 1
                /\ scheduled' = Tail(scheduled)
                /\ main' = IF Len(scheduled) = 1 THEN "trigger" ELSE "pick"
           ELSE /\ main' = "trigger"
                /\ UNCHANGED <<items, due, tranche, scheduled>>
    /\ UNCHANGED <<n, numWaiting, thread, script, settled, expected, gap, ran>>

SyncReturn ==
    /\ main = "pick" /\ scheduled = <<>>
    /\ main' = "call"
    /\ UNCHANGED <<items, n, numWaiting, scheduled, thread, script, settled,
                   expected, tranche, gap, due, ran>>

(* assert(numWaiting_ == n_), then the broadcast, then the wait.           *)
Awake == [t \in DOMAIN thread |->
            IF IsAt(t, "parked") THEN [thread[t] EXCEPT !.pc = "park"] ELSE thread[t]]
MutSyncTrigger ==   \* does not wait
    /\ main = "trigger"
    /\ IF numWaiting # n
         THEN main' = "aborted" /\ UNCHANGED <<numWaiting, tranche, thread>>
         ELSE /\ numWaiting' = numWaiting - tranche
              /\ tranche' = 0
              /\ thread' = Awake
              /\ main' = "pick"
    /\ UNCHANGED <<items, n, scheduled, script, settled, expected, gap, due,
                   ran>>
SyncTrigger ==
    /\ main = "trigger"
    /\ IF numWaiting # n
         THEN main' = "aborted" /\ UNCHANGED <<numWaiting, tranche, thread>>
         ELSE /\ numWaiting' = numWaiting - tranche
              /\ tranche' = 0
              /\ thread' = Awake
              /\ main' = IF numWaiting' = n THEN "pick" ELSE "blocked"
    /\ UNCHANGED <<items, n, scheduled, script, settled, expected, gap, due,
                   ran>>

SyncCheck ==
    /\ main = "check"
    /\ main' = IF numWaiting = n THEN "pick" ELSE "blocked"
    /\ UNCHANGED <<items, n, numWaiting, scheduled, thread, script, settled,
                   expected, tranche, gap, due, ran>>

-----------------------------------------------------------------------------
(* simulateInterrupt, the thread of one handler.                           *)
Install(t) ==
    /\ IsAt(t, "install")
    /\ items' = [items EXCEPT ![thread[t].index].state = "Waiting"]
    /\ Move(t, "count")
    /\ UNCHANGED <<n, numWaiting, scheduled, script, settled, expected, main,
                   tranche, gap, due, ran>>

(* numWaiting_++ and the signal that wakes the main thread.                *)
MutCountWaiting(t) ==   \* does not signal
    /\ IsAt(t, "count")
    /\ numWaiting' = numWaiting + 1
    /\ Move(t, "park")
    /\ UNCHANGED <<items, n, scheduled, script, settled, expected, main,
                   tranche, gap, due, ran>>
CountWaiting(t) ==
    /\ IsAt(t, "count")
    /\ numWaiting' = numWaiting + 1
    /\ main' = CASE main = "addBlocked" -> "addWait"
                 [] main = "blocked" -> "check"
                 [] OTHER -> main
    /\ Move(t, "park")
    /\ UNCHANGED <<items, n, scheduled, script, settled, expected, tranche,
                   gap, due, ran>>

(* Sleeps while the state is Waiting; a state that is already Go when the  *)
(* thread gets here is acted on without any broadcast.                     *)
Park(t) ==
    /\ IsAt(t, "park")
    /\ Move(t, IF StateOf(t) = "Waiting" THEN "parked" ELSE "go")
    /\ UNCHANGED <<items, n, numWaiting, scheduled, script, settled,
                   expected, main, tranche, gap, due, ran>>

MutStartIsr(t) ==   \* leaves the state at Go
    /\ IsAt(t, "go")
    /\ Move(t, IF StateOf(t) = "Go" THEN "isr" ELSE "count")
    /\ UNCHANGED <<items, n, numWaiting, scheduled, script, settled,
                   expected, main, tranche, gap, due, ran>>
StartIsr(t) ==
    /\ IsAt(t, "go")
    /\ IF StateOf(t) = "Go"
         THEN /\ items' = [items EXCEPT ![thread[t].index].state = "Running"]
              /\ Move(t, "isr")
         ELSE Move(t, "count") /\ UNCHANGED items
    /\ UNCHANGED <<n, numWaiting, scheduled, script, settled, expected, main,
                   tranche, gap, due, ran>>

RunIsr(t) ==
    /\ IsAt(t, "isr")
    /\ ran' = [ran EXCEPT ![items[thread[t].index].isr] = @ + 1]
    /\ Move(t, "done")
    /\ UNCHANGED <<items, n, numWaiting, scheduled, script, settled,
                   expected, main, tranche, gap, due>>

IsrDone(t) ==
    /\ IsAt(t, "done")
    /\ items' = [items EXCEPT ![thread[t].index].state = "Waiting"]
    /\ Move(t, "count")
    /\ UNCHANGED <<n, numWaiting, scheduled, script, settled, expected, main,
                   tranche, gap, due, ran>>

-----------------------------------------------------------------------------
Main == \/ AddHandler \/ AddWait \/ TriggerInterrupt \/ RemoveHandler \/ RemoveShift \/ RemoveEnd
        \/ SyncCall \/ SyncPick \/ SyncReturn \/ SyncTrigger \/ SyncCheck

Handler(t) == \/ Install(t) \/ CountWaiting(t) \/ Park(t) \/ StartIsr(t)
              \/ RunIsr(t) \/ IsrDone(t)

Next == Main \/ \E t \in DOMAIN thread : Handler(t)

(* Every thread is scheduled by the operating system.                      *)
MaxThreads == 4
Spec == /\ Init /\ [][Next]_vars /\ WF_vars(Main)
        /\ \A t \in 1 .. MaxThreads : WF_vars(t \in DOMAIN thread /\ Handler(t))

-----------------------------------------------------------------------------
(* A handler runs once for each time an interrupt picked it, and never     *)
(* otherwise, in whatever order threads wake: what is picked and not yet   *)
(* run is exactly what is set to Go or Running.                            *)
InFlight(isr) ==
    {i \in DOMAIN items : items[i].isr = isr /\
        (items[i].state = "Go" \/ \E t \in DOMAIN thread :
            thread[t].index = i /\ IsAt(t, "isr"))}
RunsOncePerInterrupt ==
    \A isr \in Isrs : due[isr] = ran[isr] + Cardinality(InFlight(isr))

(* When test_sync returns, every handler it started has run to its end.    *)
SyncWaitsForHandlers ==
    [][SyncReturn => /\ due = ran
                     /\ \A i \in Live : items[i].state = "Waiting"]_vars

(* Removing a handler leaves the others registered, in the order they have *)
(* been added, although removeInterruptHandler moves their slots without a *)
(* lock while their threads change the states in them.                     *)
Name(i) == <<items[i].id, items[i].isr>>
Left == [k \in 1 .. n - 1 |-> Name(IF k < gap THEN k ELSE k + 1)]   \* being left

(* The assertion in testIntrinsicsSync: when a tranche is triggered every  *)
(* handler is counted as waiting.                                          *)
AllCounted == main # "aborted"

(* A settled script makes every call: the assertion on numWaiting_ stops   *)
(* it nowhere and every sync returns.                                      *)
ScriptEnds == settled ~> script = <<>> /\ main = "call"
=============================================================================
