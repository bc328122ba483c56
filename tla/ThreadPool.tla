----------------------------- MODULE ThreadPool -----------------------------
(***************************************************************************)
(* thr::pool of ziis (core/thr_pool.cc): a fixed array of slots, each      *)
(* holding a cached thread that sleeps on a condition variable until       *)
(* assign_task gives it something to do.                                   *)
(*                                                                         *)
(* Thread 0 is the thread of main(); thread s is the one cached in slot s. *)
(* Any of them may call assign_task, a cached thread only from within its  *)
(* task.  A step is an access to shared memory or a pthread call; the      *)
(* compare-and-exchange on `locked` is the only atomic instruction.        *)
(***************************************************************************)
EXTENDS Integers, FiniteSets

CONSTANTS NrSlots,   \* the nb_thread of the configuration file
          Tasks,     \* the uparam values a task may be given
          NoTask     \* the null uparam of a slot that was reset

ASSUME PoolAssumption == NrSlots \in Nat \ {0} /\ NoTask \notin Tasks

Slots   == 1 .. NrSlots
Main    == 0
Threads == 0 .. NrSlots

\* Owners of mtx_start other than a thread.
Free    == -1        \* initialised, not held
NoMutex == -2        \* never initialised, or destroyed

NoSlot == 0          \* the null p_slot of assign_task

VARIABLES
    locked,      \* slot.locked, taken by lock_the_slot
    allocated,   \* slot.allocated
    ready,       \* slot.thr_ready
    task,        \* slot.uparam (entry_fn is always set with it)
    mutex,       \* owner of slot.mtx_start
    worker,      \* where the slot's thread is in pool_cache_entry
    pc,          \* where a thread is in assign_task
    pos,         \* its nslot, the slot the scan is at
    kept,        \* its p_slot
    arg,         \* its uparam, the task to place
    answer       \* what its last call returned

slotVars   == <<locked, allocated, ready, task, mutex, worker>>
callerVars == <<pc, pos, kept, arg, answer>>
poolVars   == <<locked, allocated, ready, task, mutex, worker, pc, pos, kept, arg, answer>>

WorkerPCs == {"none",    \* no thread
              "start",   \* created, before the first lock
              "loop",    \* holds the mutex, about to wait
              "wait",    \* blocked in pthread_cond_wait
              "woken",   \* signalled, has to take the mutex again
              "run",     \* inside entry_fn, the mutex held
              "ret"}     \* entry_fn returned, the slot still locked

CallerPCs == {"idle", "scan", "got", "alloc", "create", "spin",
              "fill", "lock", "unlock", "signal"}

PoolTypeOK ==
    /\ locked    \in [Slots -> BOOLEAN]
    /\ allocated \in [Slots -> BOOLEAN]
    /\ ready     \in [Slots -> BOOLEAN]
    /\ task      \in [Slots -> Tasks \cup {NoTask}]
    /\ mutex     \in [Slots -> Threads \cup {Free, NoMutex}]
    /\ worker    \in [Slots -> WorkerPCs]
    /\ pc        \in [Threads -> CallerPCs]
    /\ pos       \in [Threads -> 1 .. NrSlots + 1]
    /\ kept      \in [Threads -> Slots \cup {NoSlot}]
    /\ arg       \in [Threads -> Tasks \cup {NoTask}]
    /\ answer    \in [Threads -> BOOLEAN]

\* The constructor resets every slot; no thread exists yet.
PoolInit ==
    /\ locked    = [s \in Slots |-> FALSE]
    /\ allocated = [s \in Slots |-> FALSE]
    /\ ready     = [s \in Slots |-> FALSE]
    /\ task      = [s \in Slots |-> NoTask]
    /\ mutex     = [s \in Slots |-> NoMutex]
    /\ worker    = [s \in Slots |-> "none"]
    /\ pc        = [c \in Threads |-> "idle"]
    /\ pos       = [c \in Threads |-> 1]
    /\ kept      = [c \in Threads |-> NoSlot]
    /\ arg       = [c \in Threads |-> NoTask]
    /\ answer    = [c \in Threads |-> TRUE]

Goto(c, next) == pc' = [pc EXCEPT ![c] = next]

\* The locals of a call are gone when it returns.
Return(c, result) ==
    /\ Goto(c, "idle")
    /\ pos' = [pos EXCEPT ![c] = 1]
    /\ kept' = [kept EXCEPT ![c] = NoSlot]
    /\ arg' = [arg EXCEPT ![c] = NoTask]
    /\ answer' = [answer EXCEPT ![c] = result]

-----------------------------------------------------------------------------
(* assign_task: the scan.                                                  *)

\* A cached thread calls assign_task from within its task.
MayCall(c) == pc[c] = "idle" /\ (c # Main => worker[c] = "run")

Assign(c, t) ==
    /\ MayCall(c)
    /\ Goto(c, "scan")
    /\ arg' = [arg EXCEPT ![c] = t]
    /\ UNCHANGED <<slotVars, pos, kept, answer>>

\* lock_the_slot on the slot the scan is at.
SkipLocked(c) ==
    /\ pc[c] = "scan" /\ pos[c] \in Slots /\ locked[pos[c]]
    /\ pos' = [pos EXCEPT ![c] = @ + 1]
    /\ UNCHANGED <<slotVars, pc, kept, arg, answer>>

\* Mutant of LockSlot: a store instead of a compare-and-exchange.
LockSlotBlindly(c) ==
    /\ pc[c] = "scan" /\ pos[c] \in Slots
    /\ locked' = [locked EXCEPT ![pos[c]] = TRUE]
    /\ Goto(c, "got")
    /\ UNCHANGED <<allocated, ready, task, mutex, worker, pos, kept, arg, answer>>

LockSlot(c) ==
    /\ pc[c] = "scan" /\ pos[c] \in Slots /\ ~locked[pos[c]]
    /\ locked' = [locked EXCEPT ![pos[c]] = TRUE]
    /\ Goto(c, "got")
    /\ UNCHANGED <<allocated, ready, task, mutex, worker, pos, kept, arg, answer>>

\* The slot is locked: an idle thread ends the scan and gives back the
\* unallocated slot kept so far; else the first unallocated slot is kept.
TakeIdle(c) ==
    /\ pc[c] = "got" /\ allocated[pos[c]]
    /\ locked' = [s \in Slots |-> locked[s] /\ s # kept[c]]
    /\ kept' = [kept EXCEPT ![c] = pos[c]]
    /\ Goto(c, "fill")
    /\ UNCHANGED <<allocated, ready, task, mutex, worker, pos, arg, answer>>

\* Mutant of KeepFirst: the scan advances twice.
KeepFirstSkipping(c) ==
    /\ pc[c] = "got" /\ ~allocated[pos[c]] /\ kept[c] = NoSlot
    /\ kept' = [kept EXCEPT ![c] = pos[c]]
    /\ pos' = [pos EXCEPT ![c] = @ + 2]
    /\ Goto(c, "scan")
    /\ UNCHANGED <<slotVars, arg, answer>>

KeepFirst(c) ==
    /\ pc[c] = "got" /\ ~allocated[pos[c]] /\ kept[c] = NoSlot
    /\ kept' = [kept EXCEPT ![c] = pos[c]]
    /\ pos' = [pos EXCEPT ![c] = @ + 1]
    /\ Goto(c, "scan")
    /\ UNCHANGED <<slotVars, arg, answer>>

\* Mutant of GiveBack: the slot at hand stays locked.
GiveBackNever(c) ==
    /\ pc[c] = "got" /\ ~allocated[pos[c]] /\ kept[c] # NoSlot
    /\ pos' = [pos EXCEPT ![c] = @ + 1]
    /\ Goto(c, "scan")
    /\ UNCHANGED <<slotVars, kept, arg, answer>>

GiveBack(c) ==
    /\ pc[c] = "got" /\ ~allocated[pos[c]] /\ kept[c] # NoSlot
    /\ locked' = [locked EXCEPT ![pos[c]] = FALSE]
    /\ pos' = [pos EXCEPT ![c] = @ + 1]
    /\ Goto(c, "scan")
    /\ UNCHANGED <<allocated, ready, task, mutex, worker, kept, arg, answer>>

\* The whole array was visited: return false, or allocate the slot kept.
Refuse(c) ==
    /\ pc[c] = "scan" /\ pos[c] = NrSlots + 1 /\ kept[c] = NoSlot
    /\ Return(c, FALSE)
    /\ UNCHANGED slotVars

AllocateKept(c) ==
    /\ pc[c] = "scan" /\ pos[c] = NrSlots + 1 /\ kept[c] # NoSlot
    /\ Goto(c, "alloc")
    /\ UNCHANGED <<slotVars, pos, kept, arg, answer>>

-----------------------------------------------------------------------------
(* allocate_slot.                                                          *)

InitMutexAndCond(c) ==
    /\ pc[c] = "alloc"
    /\ mutex' = [mutex EXCEPT ![kept[c]] = Free]
    /\ allocated' = [allocated EXCEPT ![kept[c]] = TRUE]
    /\ Goto(c, "create")
    /\ UNCHANGED <<locked, ready, task, worker, pos, kept, arg, answer>>

CreateThread(c) ==
    /\ pc[c] = "create"
    /\ worker' = [worker EXCEPT ![kept[c]] = "start"]
    /\ Goto(c, "spin")
    /\ UNCHANGED <<locked, allocated, ready, task, mutex, pos, kept, arg, answer>>

\* Mutant of SpinUntilReady: nobody waits for the new thread.
SpinNever(c) ==
    /\ pc[c] = "spin"
    /\ Goto(c, "fill")
    /\ UNCHANGED <<slotVars, pos, kept, arg, answer>>

SpinUntilReady(c) ==
    /\ pc[c] = "spin" /\ ready[kept[c]]
    /\ Goto(c, "fill")
    /\ UNCHANGED <<slotVars, pos, kept, arg, answer>>

-----------------------------------------------------------------------------
(* The end of assign_task: fill the slot, execute_task.                    *)

Fill(c) ==
    /\ pc[c] = "fill"
    /\ task' = [task EXCEPT ![kept[c]] = arg[c]]
    /\ Goto(c, "lock")
    /\ UNCHANGED <<locked, allocated, ready, mutex, worker, pos, kept, arg, answer>>

\* Mutant of LockMutex: execute_task signals without taking the mutex.
LockMutexNever(c) ==
    /\ pc[c] = "lock"
    /\ Goto(c, "unlock")
    /\ UNCHANGED <<slotVars, pos, kept, arg, answer>>

LockMutex(c) ==
    /\ pc[c] = "lock" /\ mutex[kept[c]] = Free
    /\ mutex' = [mutex EXCEPT ![kept[c]] = c]
    /\ Goto(c, "unlock")
    /\ UNCHANGED <<locked, allocated, ready, task, worker, pos, kept, arg, answer>>

UnlockMutex(c) ==
    /\ pc[c] = "unlock"
    /\ mutex' = [mutex EXCEPT ![kept[c]] = IF @ = c THEN Free ELSE @]
    /\ Goto(c, "signal")
    /\ UNCHANGED <<locked, allocated, ready, task, worker, pos, kept, arg, answer>>

\* A signal wakes a thread that waits, and is lost on any other.
Signal(c) ==
    /\ pc[c] = "signal"
    /\ worker' = [worker EXCEPT ![kept[c]] = IF @ = "wait" THEN "woken" ELSE @]
    /\ Return(c, TRUE)
    /\ UNCHANGED <<locked, allocated, ready, task, mutex>>

-----------------------------------------------------------------------------
(* pool_cache_entry.  Nothing in the program ever sets thr_done.           *)

WorkerStart(s) ==
    /\ worker[s] = "start" /\ mutex[s] = Free
    /\ mutex' = [mutex EXCEPT ![s] = s]
    /\ ready' = [ready EXCEPT ![s] = TRUE]
    /\ worker' = [worker EXCEPT ![s] = "loop"]
    /\ UNCHANGED <<locked, allocated, task, callerVars>>

WorkerWait(s) ==
    /\ worker[s] = "loop"
    /\ mutex' = [mutex EXCEPT ![s] = Free]
    /\ worker' = [worker EXCEPT ![s] = "wait"]
    /\ UNCHANGED <<locked, allocated, ready, task, callerVars>>

WorkerWake(s) ==
    /\ worker[s] = "woken" /\ mutex[s] = Free
    /\ mutex' = [mutex EXCEPT ![s] = s]
    /\ worker' = [worker EXCEPT ![s] = IF task[s] = NoTask THEN "ret" ELSE "run"]
    /\ UNCHANGED <<locked, allocated, ready, task, callerVars>>

\* entry_fn returns.
TaskReturns(s) ==
    /\ worker[s] = "run" /\ pc[s] = "idle"
    /\ worker' = [worker EXCEPT ![s] = "ret"]
    /\ UNCHANGED <<locked, allocated, ready, task, mutex, callerVars>>

UnlockSlot(s) ==
    /\ worker[s] = "ret"
    /\ locked' = [locked EXCEPT ![s] = FALSE]
    /\ worker' = [worker EXCEPT ![s] = "loop"]
    /\ UNCHANGED <<allocated, ready, task, mutex, callerVars>>

-----------------------------------------------------------------------------
(* What the operating system may do to the pool.                           *)

\* pthread_cond_wait may return 0 without any signal.
SpuriousWakeup(s) ==
    /\ worker[s] = "wait"
    /\ worker' = [worker EXCEPT ![s] = "woken"]
    /\ UNCHANGED <<locked, allocated, ready, task, mutex, callerVars>>

ResetSlot(s) ==
    /\ locked'    = [locked EXCEPT ![s] = FALSE]
    /\ allocated' = [allocated EXCEPT ![s] = FALSE]
    /\ ready'     = [ready EXCEPT ![s] = FALSE]
    /\ task'      = [task EXCEPT ![s] = NoTask]

\* pthread_mutex_init or pthread_cond_init fails: release_slot does nothing,
\* the slot is reset, and assign_task goes on as if it had been allocated.
InitFails(c) ==
    /\ pc[c] = "alloc"
    /\ ResetSlot(kept[c])
    /\ Goto(c, "fill")
    /\ UNCHANGED <<mutex, worker, pos, kept, arg, answer>>

\* pthread_create fails: release_slot destroys the mutex and joins an
\* identifier nobody wrote; the call that returns is the one modelled.
CreateFails(c) ==
    /\ pc[c] = "create"
    /\ mutex' = [mutex EXCEPT ![kept[c]] = NoMutex]
    /\ ResetSlot(kept[c])
    /\ Goto(c, "fill")
    /\ UNCHANGED <<worker, pos, kept, arg, answer>>

\* Locking and unlocking a mutex that does not exist: undefined; it may be
\* taken for a free one, or block for ever (no fairness for this step).
LockNoMutex(c) ==
    /\ pc[c] = "lock" /\ mutex[kept[c]] = NoMutex
    /\ Goto(c, "signal")
    /\ UNCHANGED <<slotVars, pos, kept, arg, answer>>

-----------------------------------------------------------------------------
CallerStep(c) ==
    \/ SkipLocked(c) \/ LockSlot(c) \/ TakeIdle(c) \/ KeepFirst(c) \/ GiveBack(c)
    \/ Refuse(c) \/ AllocateKept(c)
    \/ InitMutexAndCond(c) \/ CreateThread(c) \/ SpinUntilReady(c)
    \/ Fill(c) \/ LockMutex(c) \/ UnlockMutex(c) \/ Signal(c)

WorkerStep(s) ==
    WorkerStart(s) \/ WorkerWait(s) \/ WorkerWake(s) \/ UnlockSlot(s)

AllocationFails(c) == InitFails(c) \/ CreateFails(c) \/ LockNoMutex(c)

PoolNext ==
    \/ \E c \in Threads : CallerStep(c) \/ \E t \in Tasks : Assign(c, t)
    \/ \E s \in Slots : WorkerStep(s) \/ TaskReturns(s)

\* The scheduler runs every thread that can go on; a task may last for ever.
PoolFairness ==
    /\ \A c \in Threads : WF_poolVars(CallerStep(c))
    /\ \A s \in Slots : WF_poolVars(WorkerStep(s))

PoolSpec == PoolInit /\ [][PoolNext]_poolVars /\ PoolFairness

\* The same pool on a system that wakes a thread for nothing and cannot always
\* provide threads and mutexes.
WeakNext ==
    \/ PoolNext
    \/ \E s \in Slots : SpuriousWakeup(s)
    \/ \E c \in Threads : AllocationFails(c)

WeakSpec == PoolInit /\ [][WeakNext]_poolVars /\ PoolFairness

-----------------------------------------------------------------------------
(* Properties.                                                             *)

\* c has locked slot s, and has neither released it nor handed it over.
Holds(c, s) ==
    \/ pc[c] = "got" /\ pos[c] = s
    \/ kept[c] = s

\* The thread of slot s has a task to run, runs it or has just run it.
Busy(s) == worker[s] \in {"woken", "run", "ret"}

\* A slot belongs to one thread at a time: to the caller that locked it, then
\* to the cached thread that runs the task, which gives it back.  The plain
\* stores of unlock_the_slot and of pool_cache_entry rely on it.
OneOwner ==
    \A s \in Slots :
        /\ \A c, d \in Threads : Holds(c, s) /\ Holds(d, s) => c = d
        /\ Busy(s) => \A c \in Threads : ~Holds(c, s)

\* No slot stays locked when nobody is left to unlock it: it would be lost to
\* the pool for ever.
NoSlotLeaked ==
    \A s \in Slots : locked[s] => Busy(s) \/ \E c \in Threads : Holds(c, s)

\* No slot is unlocked under the thread that owns it.
OwnedIsLocked ==
    \A s \in Slots : Busy(s) \/ (\E c \in Threads : Holds(c, s)) => locked[s]

\* The lock and unlock of execute_task is a handshake: whoever signals finds
\* the thread asleep, with this caller's task in its slot.
SignalIsHeard ==
    \A c \in Threads : pc[c] = "signal" =>
        /\ worker[kept[c]] = "wait"
        /\ task[kept[c]] = arg[c]

\* The call and the slots as TaskCache sees them: the signal is the moment at
\* which a task is accepted.
AskedOf(c) == IF pc[c] = "idle" THEN [phase |-> "idle"]
              ELSE [phase |-> "asked", task |-> arg[c]]
WorkOf(s)  == IF worker[s] = "woken" THEN [phase |-> "accepted", task |-> task[s]]
              ELSE IF worker[s] = "run" THEN [phase |-> "running", task |-> task[s]]
              ELSE [phase |-> "idle"]

Cache == INSTANCE TaskCache WITH
    Callers <- Threads,
    asked   <- [c \in Threads |-> AskedOf(c)],
    result  <- answer,
    work    <- [s \in Slots |-> WorkOf(s)]

\* The pool keeps the promise of TaskCache: every call of assign_task returns
\* (neither the spin on thr_ready nor a mutex held during a whole task blocks
\* it for ever), and an accepted task is run once, as it was asked for.
KeepsItsPromise == Cache!Spec

\* The safety part of it: a cached thread runs nothing but what it was called
\* for ("Pool is the room where thread are waiting for to be called").
RunsWhatItIsCalledFor == Cache!SafeSpec
=============================================================================
