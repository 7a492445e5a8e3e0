------------------------------- MODULE Routines -------------------------------
(***************************************************************************)
(* The life of Yarg routines (routine.c, and core 1 and pinned routines in *)
(* vm.c) in the Pico build. A routine is resumed as a coroutine, started   *)
(* on core 1, or pinned and run by an interrupt; it yields, returns or     *)
(* fails. Bytecode is left out: what counts is the routine's state, how    *)
(* many frames and values its own stack holds, and who is running it.      *)
(*                                                                         *)
(* A context is core 0, core 1 or the interrupt level of core 0; its chain *)
(* is the stack of routines whose run() is active on it. A builtin that    *)
(* looks at another routine and then uses it takes two steps.              *)
(***************************************************************************)
EXTENDS Integers, Sequences, FiniteSets

CONSTANTS
    Routines, Main,      \* Main is vm.core0
    None,                \* NULL
    Arity,               \* of each routine's entry function, 0 or 1
    Resumable, Startable, Pinnable,   \* routines the program resumes, starts, pins
    Uses,                \* per context: the routines its code hands to builtins
    Yielding, Failing,   \* routines whose code may yield or raise an error
    Misuses,             \* what the program is careless about: "arguments" of a
                         \* resume, receive of an "unbound" routine, pin of a
                         \* "pinned" one
    FramesMax,           \* FRAMES_MAX
    Slots                \* pinned slots, 0 .. MAX_PINNED_ROUTINES - 1

Contexts == {"core0", "core1", "isr"}

ASSUME RoutinesAssumption ==
    /\ Main \notin Routines /\ None \notin Routines \cup {Main}
    /\ Arity \in [Routines -> {0, 1}]
    /\ Uses \in [Contexts -> SUBSET Routines]
    /\ Misuses \subseteq {"arguments", "unbound", "pinned"}
    /\ FramesMax \in Nat \ {0}

All == Routines \cup {Main}

VARIABLES
    state,       \* state of each routine
    frames,      \* frameCount
    top,         \* stackTopIndex (values of the frame's own code left out)
    err,         \* error is set
    chain,       \* per context: routines being run, innermost last
    target,      \* per context: routine a builtin has looked at, or None
    call,        \* per context: the builtin in progress
    core1,       \* vm.core1
    pinned,      \* vm.pinnedRoutines
    wild         \* a read or write outside frames[] or the value stack

vars == <<state, frames, top, err, chain, target, call, core1, pinned, wild>>

Init ==   \* initRoutine, make_routine and bindEntryFn; the boot script runs
    /\ state = [r \in All |-> IF r = Main THEN "RUNNING" ELSE "UNBOUND"]
    /\ frames = [r \in All |-> IF r = Main THEN 1 ELSE 0]
    /\ top = [r \in All |-> IF r = Main THEN 1 ELSE 0]
    /\ err = [r \in All |-> FALSE]
    /\ chain = [c \in Contexts |-> IF c = "core0" THEN <<Main>> ELSE <<>>]
    /\ target = [c \in Contexts |-> None]
    /\ call = [c \in Contexts |-> "none"]
    /\ core1 = None
    /\ pinned = [s \in Slots |-> None]
    /\ wild = FALSE

-----------------------------------------------------------------------------
Last(s) == s[Len(s)]
Front(s) == SubSeq(s, 1, Len(s) - 1)

(* Interrupts are handled on core 0 before its thread continues.           *)
Executes(c, r) ==
    /\ chain[c] # <<>> /\ Last(chain[c]) = r
    /\ c = "core0" => chain["isr"] = <<>>
Free(c) == call[c] = "none"
Calls(c, t) == Free(c) /\ t \in Uses[c] /\ \E x \in All : Executes(c, x)
InCall(c, b) == call[c] = b /\ \E x \in All : Executes(c, x)

(* callfn with the entry function's own arity, n values below its base.    *)
Enters(r, n) ==
    IF frames[r] = FramesMax
      THEN /\ err' = [err EXCEPT ![r] = TRUE]   \* runtimeError resets the routine;
           /\ frames' = [frames EXCEPT ![r] = 0] \* the caller runs it all the same,
           /\ top' = [top EXCEPT ![r] = 0]       \* at frames[-1]
           /\ state' = [state EXCEPT ![r] = "RUNNING"]
           /\ wild' = TRUE
      ELSE /\ frames' = [frames EXCEPT ![r] = @ + 1]
           /\ top' = [top EXCEPT ![r] = @ + n]
           /\ wild' = (wild \/ top[r] + n < Arity[r] + 1)
           /\ state' = [state EXCEPT ![r] = "RUNNING"]
           /\ UNCHANGED err

(* The end of a run(). A resumed routine's value is popped by its resumer, *)
(* an interrupt's routine is made ready to run again by runAndRenter, which *)
(* pops and re-enters whatever the outcome was; core 1 does that later.    *)
SetsError(r) == err' = [err EXCEPT ![r] = TRUE]
Reenter(r, n, t) ==
    /\ frames' = [frames EXCEPT ![r] = IF n = FramesMax THEN 0 ELSE n + 1]
    /\ top' = [top EXCEPT ![r] = IF n = FramesMax THEN 0 ELSE t + Arity[r]]
    /\ wild' = (wild \/ t < 1 \/ n = FramesMax)
EndOfRun(c, r, s, n, t) ==
    /\ state' = [state EXCEPT ![r] = s]
    /\ IF c = "isr" /\ Len(chain[c]) = 1
         THEN Reenter(r, n, t)
         ELSE /\ frames' = [frames EXCEPT ![r] = n]
              /\ top' = [top EXCEPT ![r] =
                    IF Len(chain[c]) > 1 /\ s \in {"SUSPENDED", "CLOSED"} THEN t - 1 ELSE t]
              /\ UNCHANGED wild
    /\ chain' = [chain EXCEPT ![c] = Front(@)]
    /\ call' = [call EXCEPT ![c] =
          IF c = "core1" /\ Len(chain[c]) = 1 THEN "leave" ELSE "none"]
    /\ UNCHANGED <<core1, pinned>>

(* resume(t): the builtin's test, then resumeRoutine. A first resume       *)
(* pushes the function; every resume calls the entry function again, and   *)
(* nothing asks whether there is a frame left for it.                      *)
MutResumeTest(c, t) ==   \* does not look at the state
    /\ Calls(c, t)
    /\ t \in Resumable
    /\ call' = [call EXCEPT ![c] = "resume"]
    /\ target' = [target EXCEPT ![c] = t]
    /\ UNCHANGED <<state, frames, top, err, chain, core1, pinned, wild>>
ResumeTest(c, t) ==
    /\ Calls(c, t)
    /\ t \in Resumable /\ state[t] \in {"SUSPENDED", "UNBOUND"}
    /\ call' = [call EXCEPT ![c] = "resume"]
    /\ target' = [target EXCEPT ![c] = t]
    /\ UNCHANGED <<state, frames, top, err, chain, core1, pinned, wild>>

MutResume(c) ==   \* never pushes the function
    /\ InCall(c, "resume")
    /\ LET t == target[c] IN
         /\ Enters(t, Arity[t])
         /\ chain' = [chain EXCEPT ![c] = Append(@, t)]
    /\ call' = [call EXCEPT ![c] = "none"]
    /\ target' = [target EXCEPT ![c] = None]
    /\ UNCHANGED <<core1, pinned>>
Resume(c) ==
    /\ InCall(c, "resume")
    /\ LET t == target[c] IN
         /\ \E args \in IF "arguments" \in Misuses THEN {0, 1} ELSE {Arity[t]} :
              Enters(t, args + IF state[t] = "UNBOUND" THEN 1 ELSE 0)
         /\ chain' = [chain EXCEPT ![c] = Append(@, t)]
    /\ call' = [call EXCEPT ![c] = "none"]
    /\ target' = [target EXCEPT ![c] = None]
    /\ UNCHANGED <<core1, pinned>>

(* The test fails: a runtimeError in the caller, whose run() ends.         *)
ResumeRefused(c, t) ==
    /\ Calls(c, t) /\ t \in Resumable /\ state[t] \notin {"SUSPENDED", "UNBOUND"}
    /\ \E x \in Failing : Executes(c, x) /\ EndOfRun(c, x, "ERROR", 0, 0) /\ SetsError(x)
    /\ UNCHANGED target

(* start(t): two tests that fail without a runtimeError, so that the       *)
(* caller's run() ends with its state RUNNING and no error; otherwise, and *)
(* after them, the entry is pushed and core 1 launched.                    *)
StartRefused(c, t) ==
    /\ Calls(c, t) /\ t \in Startable /\ (state[t] # "UNBOUND" \/ core1 # None)
    /\ \E x \in Failing : Executes(c, x) /\ EndOfRun(c, x, "RUNNING", frames[x], top[x])
    /\ UNCHANGED <<err, target>>
MutStartTest(c, t) ==   \* does not look at vm.core1
    /\ Calls(c, t)
    /\ t \in Startable /\ state[t] = "UNBOUND"
    /\ call' = [call EXCEPT ![c] = "start"]
    /\ target' = [target EXCEPT ![c] = t]
    /\ UNCHANGED <<state, frames, top, err, chain, core1, pinned, wild>>
StartTest(c, t) ==
    /\ Calls(c, t)
    /\ t \in Startable /\ state[t] = "UNBOUND" /\ core1 = None
    /\ call' = [call EXCEPT ![c] = "start"]
    /\ target' = [target EXCEPT ![c] = t]
    /\ UNCHANGED <<state, frames, top, err, chain, core1, pinned, wild>>
Start(c) ==
    /\ InCall(c, "start")
    /\ Enters(target[c], Arity[target[c]] + 1)
    /\ core1' = target[c]
    /\ call' = [call EXCEPT ![c] = "none", !["core1"] = "launch"]
    /\ target' = [target EXCEPT ![c] = None]
    /\ UNCHANGED <<chain, pinned>>

(* vmCore1Entry, after the handshake over the FIFO.                        *)
Core1Entry ==
    /\ call["core1"] = "launch"
    /\ chain' = [chain EXCEPT !["core1"] = <<core1>>]
    /\ state' = [state EXCEPT ![core1] = "RUNNING"]
    /\ call' = [call EXCEPT !["core1"] = "none"]
    /\ UNCHANGED <<frames, top, err, target, core1, pinned, wild>>

(* The rest of vmCore1Entry, once run() has returned: re-entered like an   *)
(* interrupt's routine, then vm.core1 is cleared.                          *)
Core1Leave ==
    /\ call["core1"] = "leave"
    /\ Reenter(core1, frames[core1], top[core1])
    /\ core1' = None
    /\ call' = [call EXCEPT !["core1"] = "none"]
    /\ UNCHANGED <<state, err, chain, target, pinned>>

(* receive(t): spins while t runs.                                         *)
ReceiveCall(c, t) ==
    /\ Calls(c, t)
    /\ t \in Startable
    /\ \/ state[t] # "UNBOUND"
       \/ "unbound" \in Misuses /\ \E x \in Failing : Executes(c, x)
    /\ call' = [call EXCEPT ![c] = "receive"]
    /\ target' = [target EXCEPT ![c] = t]
    /\ UNCHANGED <<state, frames, top, err, chain, core1, pinned, wild>>
MutReceive(c) ==   \* does not wait
    /\ InCall(c, "receive")
    /\ call' = [call EXCEPT ![c] = "none"]
    /\ target' = [target EXCEPT ![c] = None]
    /\ UNCHANGED <<state, frames, top, err, chain, core1, pinned, wild>>
Receive(c) ==
    /\ InCall(c, "receive")
    /\ state[target[c]] \in {"CLOSED", "SUSPENDED", "ERROR"}
    /\ call' = [call EXCEPT ![c] = "none"]
    /\ target' = [target EXCEPT ![c] = None]
    /\ UNCHANGED <<state, frames, top, err, chain, core1, pinned, wild>>
ReceiveUnbound(c) ==   \* false, again without a runtimeError
    /\ InCall(c, "receive") /\ state[target[c]] = "UNBOUND"
    /\ \E x \in Failing : Executes(c, x) /\ EndOfRun(c, x, "RUNNING", frames[x], top[x])
    /\ target' = [target EXCEPT ![c] = None]
    /\ UNCHANGED err

(* pin(t) takes the first free slot; removePinnedRoutine clears the        *)
(* handler's address and never the slot, so a slot is used once.           *)
FirstFree == {s \in Slots : pinned[s] = None /\ \A k \in 0 .. s - 1 : pinned[k] # None}
Pin(c, t) ==
    /\ Calls(c, t)
    /\ t \in Pinnable /\ Arity[t] = 0
    /\ (\A s \in Slots : pinned[s] # t) \/ "pinned" \in Misuses
    /\ \E s \in FirstFree : pinned' = [pinned EXCEPT ![s] = t]
    /\ frames' = [frames EXCEPT ![t] = @ + 1]
    /\ top' = [top EXCEPT ![t] = @ + 1]
    /\ UNCHANGED <<state, err, chain, target, call, core1, wild>>

PinRefused(c, t) ==   \* an entry function with an argument, or no slot
    /\ Calls(c, t) /\ t \in Pinnable /\ (Arity[t] # 0 \/ FirstFree = {})
    /\ \E x \in Failing : Executes(c, x) /\ EndOfRun(c, x, "ERROR", 0, 0) /\ SetsError(x)
    /\ UNCHANGED target

(* An interrupt whose handler is pinnedRoutineN.                           *)
Interrupt(s) ==
    /\ pinned[s] # None /\ chain["isr"] = <<>>
    /\ chain' = [chain EXCEPT !["isr"] = <<pinned[s]>>]
    /\ state' = [state EXCEPT ![pinned[s]] = "RUNNING"]
    /\ UNCHANGED <<frames, top, err, target, call, core1, pinned, wild>>

-----------------------------------------------------------------------------
(* OP_YIELD leaves the frame and the value; OP_RETURN drops the frame, and *)
(* run() goes on if an earlier frame is left. The result comes first.      *)
MayEnd(c, r) == r \in Routines /\ Executes(c, r) /\ Free(c)
MutYield(c, r) ==   \* forgets to suspend
    /\ r \in Yielding /\ MayEnd(c, r)
    /\ EndOfRun(c, r, "RUNNING", frames[r], top[r] + 1)
    /\ UNCHANGED <<err, target>>
Yield(c, r) ==
    /\ r \in Yielding /\ MayEnd(c, r)
    /\ EndOfRun(c, r, "SUSPENDED", frames[r], top[r] + 1)
    /\ UNCHANGED <<err, target>>
MutReturn(c, r) ==   \* leaves the frame's values on the stack
    /\ MayEnd(c, r) /\ frames[r] = 1
    /\ EndOfRun(c, r, "CLOSED", 0, top[r] + 1)
    /\ UNCHANGED <<err, target>>
Return(c, r) ==
    /\ MayEnd(c, r) /\ frames[r] = 1
    /\ EndOfRun(c, r, "CLOSED", 0, top[r] - Arity[r])
    /\ UNCHANGED <<err, target>>
InnerReturn(c, r) ==
    /\ MayEnd(c, r) /\ frames[r] > 1
    /\ frames' = [frames EXCEPT ![r] = @ - 1]
    /\ top' = [top EXCEPT ![r] = @ - Arity[r]]
    /\ UNCHANGED <<state, err, chain, target, call, core1, pinned, wild>>
Error(c, r) ==   \* runtimeError in the routine's own code
    /\ r \in Failing /\ MayEnd(c, r)
    /\ EndOfRun(c, r, "ERROR", 0, 0) /\ SetsError(r)
    /\ UNCHANGED target

-----------------------------------------------------------------------------
Step(c) ==
    \/ \E t \in Routines :
         \/ ResumeTest(c, t) \/ ResumeRefused(c, t)
         \/ StartTest(c, t) \/ StartRefused(c, t)
         \/ ReceiveCall(c, t) \/ Pin(c, t) \/ PinRefused(c, t)
    \/ Resume(c) \/ Start(c) \/ Receive(c) \/ ReceiveUnbound(c)
Finish(c, r) == Yield(c, r) \/ Return(c, r) \/ InnerReturn(c, r) \/ Error(c, r)

Next ==
    /\ ~wild
    /\ \/ \E c \in Contexts : Step(c) \/ \E r \in Routines : Finish(c, r)
       \/ Core1Entry \/ Core1Leave
       \/ \E s \in Slots : Interrupt(s)

Spec == Init /\ [][Next]_vars

(* A careful program: a routine is a coroutine of one context, a routine   *)
(* for core 1, or an interrupt routine; the last two neither yield nor     *)
(* fail, and what may fail does not start or receive. Not both core 0 and  *)
(* its interrupts start routines. The number of arguments is right.        *)
CarefulUse ==
    /\ Resumable \cap Startable = {} /\ Resumable \cap Pinnable = {}
    /\ Startable \cap Pinnable = {}
    /\ \A c, d \in Contexts : c # d => Uses[c] \cap Uses[d] \cap Resumable = {}
    /\ (Yielding \cup Failing) \cap (Startable \cup Pinnable) = {}
    /\ \A c \in Contexts : Uses[c] \cap Startable = {} \/ Uses[c] \cap Resumable \cap Failing = {}
    /\ Uses["core0"] \cap Startable = {} \/ Uses["isr"] \cap Startable = {}
    /\ Misuses \subseteq {"unbound"}

(* Cores and handlers make progress, and a program's routines terminate:   *)
(* one that is at its outermost frame again and again returns. Nothing     *)
(* obliges the program to call anything.                                   *)
Fairness ==
    /\ \A c \in Contexts :
         /\ SF_vars(~wild /\ \E r \in Routines : Return(c, r))
         /\ WF_vars(~wild /\ \E r \in Routines : InnerReturn(c, r))
         /\ WF_vars(~wild /\ (Resume(c) \/ Start(c)))
         /\ SF_vars(~wild /\ (Receive(c) \/ ReceiveUnbound(c)))
    /\ WF_vars(~wild /\ (Core1Entry \/ Core1Leave))
FairSpec == Spec /\ Fairness

-----------------------------------------------------------------------------
Runners(r) == {c \in Contexts : \E i \in DOMAIN chain[c] : chain[c][i] = r}

(* A routine is run by one context at a time, once: its frames and its     *)
(* stack have one user.                                                    *)
OneRunner ==
    /\ \A r \in Routines : Cardinality(Runners(r)) <= 1
    /\ \A c \in Contexts : \A i, j \in DOMAIN chain[c] :
         chain[c][i] = chain[c][j] => i = j

(* RUNNING means that somebody runs it, or is about to: nobody waits in    *)
(* receive() for a routine that nobody runs.                               *)
RunningIsRun ==
    \A r \in Routines : state[r] = "RUNNING" =>
        Runners(r) # {} \/ (r = core1 /\ call["core1"] = "launch")

(* A pinned routine is ready for its next interrupt whenever it is not     *)
(* running: exactly its entry frame on an otherwise empty stack.           *)
PinnedIsReady ==
    \A s \in Slots : pinned[s] # None /\ Runners(pinned[s]) = {} =>
        frames[pinned[s]] = 1 /\ top[pinned[s]] = 1

(* A stack or frame access leaves its array in one way only: a resume of a *)
(* coroutine that has FRAMES_MAX frames already, one for each resume that  *)
(* it has not returned from (routine.c:157 ignores that callfn refuses).   *)
StaysInside ==
    [][wild' => \E c \in Contexts : call[c] = "resume" /\ frames[target[c]] = FramesMax]_vars

(* A receive on a routine ends once core 1 has returned from it.           *)
ReceiveEnds == call["core0"] = "receive" ~> call["core0"] = "none" \/ wild

(* receive() waits: when it returns normally the routine it was called on  *)
(* is no longer run by anybody, so its result is final.                    *)
ReceiveWaits ==
    [][\A c \in Contexts :
        call[c] = "receive" /\ call'[c] = "none" /\ chain'[c] = chain[c] =>
            Runners(target[c]) = {}]_vars
=============================================================================
